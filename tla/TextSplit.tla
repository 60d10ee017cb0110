------------------------------- MODULE TextSplit -------------------------------
(***************************************************************************)
(* split_for_meshcore, text.py: an answer becomes at most MaxChunks        *)
(* chunks of at most MaxBytes bytes.  The loops of the code are the steps  *)
(* here: one piece is taken, one more part is tried, the last part is      *)
(* truncated.  What clean_for_radio does to the answer before is not       *)
(* modelled; any text may arrive.                                          *)
(*                                                                         *)
(* A text is a sequence of characters, of which only the width in UTF-8    *)
(* and the role at a boundary matter: " ", "\n", "." (for ".!?"), "1" (for *)
(* a digit), and others.                                                   *)
(***************************************************************************)
EXTENDS Naturals, Sequences, FiniteSets, SequencesExt, FiniteSetsExt

CONSTANTS
  Texts,      \* answers
  Width,      \* bytes of each character
  MaxBytes,   \* max_chunk_bytes
  MaxChunks,  \* max_reply_chunks
  Base        \* first number of a part that takes two digits, 10

ASSUME WidthAssumption ==
  /\ {" ", "\n", "."} \subseteq DOMAIN Width /\ Width["."] = 1
  /\ \A c \in DOMAIN Width : Width[c] \in 1..4
ASSUME TextAssumption == \A text \in Texts : text \in Seq(DOMAIN Width)

Dots == 3  \* of the truncation marker
Digits(n) == IF n < Base THEN 1 ELSE 2
Prefix(i, total) == IF total = 1 THEN 0 ELSE 4 + Digits(i) + Digits(total)  \* "[i/total] "
Capacity(i, total) == MaxBytes - Prefix(i, total)

(* max_chunk_bytes is at least 40 (config.py): there is room for a          *)
(* character and the marker beside every prefix.                            *)
ASSUME RoomAssumption ==
  /\ MaxBytes \in Nat /\ MaxChunks \in Nat \ {0} /\ Base \in Nat
  /\ \A total \in 1..MaxChunks : \A i \in 1..total : \A c \in DOMAIN Width :
       Capacity(i, total) >= Dots + Width[c]

VARIABLES
  text,    \* the stripped answer
  total,   \* number of parts that is tried
  pieces,  \* what has been taken for them
  rest,    \* remaining text
  pc       \* "split", "whole" (all of it fits), "cut" (truncated) or "blank"

vars == <<text, total, pieces, rest, pc>>

-----------------------------------------------------------------------------
(* str: bytes, strip, slices and rfind.                                     *)

Bytes(s) == Cardinality({p \in (DOMAIN s) \X (1..4) : p[2] <= Width[s[p[1]]]})
Space == {" ", "\n"}
Upto(s, n) == SubSeq(s, 1, n)
From(s, n) == SubSeq(s, n + 1, Len(s))
LStrip(s) == From(s, Max({n \in 0..Len(s) : \A i \in 1..n : s[i] \in Space}))
RStrip(s, drop) == Upto(s, Min({n \in 0..Len(s) : \A i \in n + 1..Len(s) : s[i] \in drop}))
Strip(s) == LStrip(RStrip(s, Space))
RFind(s, part) == Max({0} \cup {n \in 0..Len(s) - Len(part) : SubSeq(s, n + 1, n + Len(part)) = part})

-----------------------------------------------------------------------------
(* _utf8_hard_cut_index, _best_split_point, _take_piece.                    *)

HardCutLate(s, limit) ==  \* mutant of HardCut: stops after the character that is too much
  Min({Len(s)} \cup {n \in 1..Len(s) : Bytes(Upto(s, n)) > limit})
HardCut(s, limit) == Max({1} \cup {n \in 1..Len(s) : Bytes(Upto(s, n)) <= limit})

(* A numbered item, "1." after nothing or a space, is no end of a sentence. *)
Numbered(s) ==
  \E n \in 0..Len(s) - 2 :
    /\ n = 0 \/ s[n] \in Space
    /\ \A i \in n + 1..Len(s) - 1 : s[i] = "1"
SentenceEnds(s) ==
  {n \in 1..Len(s) : \E m \in 1..n - 1 :
     /\ s[m] = "." /\ \A i \in m + 1..n : s[i] \in Space
     /\ n = Len(s) \/ s[n + 1] \notin Space
     /\ ~Numbered(Upto(s, m))}

BestSplitAll(s) ==  \* mutant of BestSplit: a word boundary must pay as well
  LET Pays(n) == n > 0 /\ 10 * Bytes(Upto(s, n)) >= 8 * Bytes(s)
      paragraph == RFind(s, <<"\n", "\n">>)
      sentence == Max({0} \cup SentenceEnds(s))
      space == RFind(s, <<" ">>)
  IN IF Pays(paragraph) THEN paragraph ELSE IF Pays(sentence) THEN sentence
     ELSE IF Pays(space) THEN space ELSE 0
BestSplit(s) ==
  LET Pays(n) == n > 0 /\ 10 * Bytes(Upto(s, n)) >= 8 * Bytes(s)
      paragraph == RFind(s, <<"\n", "\n">>)
      sentence == Max({0} \cup SentenceEnds(s))
  IN IF Pays(paragraph) THEN paragraph ELSE IF Pays(sentence) THEN sentence ELSE RFind(s, <<" ">>)

Taken(s, limit) ==
  LET hard == HardCut(s, limit)
      best == BestSplit(Upto(s, hard))
  IN IF best = 0 \/ Strip(Upto(s, best)) = << >> THEN hard ELSE best
PieceOf(s, limit) ==
  IF Bytes(s) <= limit THEN s
  ELSE LET piece == Upto(s, Taken(s, limit)) IN IF Strip(piece) = << >> THEN piece ELSE Strip(piece)
RestFromHard(s, limit) ==  \* mutant of RestOf: goes on after the hard cut
  IF Bytes(s) <= limit THEN << >> ELSE LStrip(From(s, HardCut(s, limit)))
RestOf(s, limit) == IF Bytes(s) <= limit THEN << >> ELSE LStrip(From(s, Taken(s, limit)))

(* The last piece gives way to the marker, at a word boundary if that is    *)
(* near.                                                                    *)
Tail80(piece, limit) ==
  LET tail == RStrip(IF Bytes(piece) <= limit THEN piece ELSE Upto(piece, HardCut(piece, limit)), Space)
      boundary == RFind(tail, <<" ">>)
  IN IF /\ Bytes(piece) > limit
        /\ \E i \in DOMAIN tail : tail[i] = " "
        /\ 10 * Bytes(Upto(tail, boundary)) >= 8 * limit
       THEN Upto(tail, boundary) ELSE tail
Marker == [i \in 1..Dots |-> "."]
Truncated(piece, capacity) == RStrip(Tail80(piece, capacity - Dots), {" ", "."}) \o Marker

-----------------------------------------------------------------------------
(* split_for_meshcore and _split_with_capacities: their loops.              *)

Init ==
  /\ \E answer \in Texts : text = Strip(answer)
  /\ total = 1 /\ pieces = << >> /\ rest = text
  /\ pc = IF text = << >> THEN "blank" ELSE "split"

TakePiece ==
  /\ pc = "split" /\ rest # << >> /\ Len(pieces) < total
  /\ LET capacity == Capacity(Len(pieces) + 1, total)
     IN pieces' = Append(pieces, PieceOf(rest, capacity)) /\ rest' = RestOf(rest, capacity)
  /\ UNCHANGED <<text, total, pc>>

Whole ==
  /\ pc = "split" /\ rest = << >>
  /\ pc' = "whole"
  /\ UNCHANGED <<text, total, pieces, rest>>

Exhausted == pc = "split" /\ rest # << >> /\ Len(pieces) = total
NextTotalAll ==  \* mutant of NextTotal: if one part will not do, all of them
  /\ Exhausted /\ total < MaxChunks
  /\ total' = MaxChunks /\ pieces' = << >> /\ rest' = text
  /\ UNCHANGED <<text, pc>>
NextTotal ==
  /\ Exhausted /\ total < MaxChunks
  /\ total' = total + 1 /\ pieces' = << >> /\ rest' = text
  /\ UNCHANGED <<text, pc>>

(* What is left of the text is dropped.                                     *)
Truncate ==
  /\ Exhausted /\ total = MaxChunks
  /\ pieces' = [pieces EXCEPT ![total] = Truncated(@, Capacity(total, total))]
  /\ pc' = "cut"
  /\ UNCHANGED <<text, total, rest>>

Done == pc \in {"whole", "cut", "blank"}
Returned == Done /\ UNCHANGED vars

Next == TakePiece \/ Whole \/ NextTotal \/ Truncate \/ Returned
Spec == Init /\ [][Next]_vars

-----------------------------------------------------------------------------
(* No chunk, its prefix and the marker included, is longer than a packet,   *)
(* and there are no more of them than allowed.                              *)
Fits ==
  /\ Len(pieces) <= MaxChunks
  /\ Done => \A i \in DOMAIN pieces : Prefix(i, total) + Bytes(pieces[i]) <= MaxBytes

(* The prefixes count what is sent: a reader who sees "[1/3]" gets three    *)
(* parts, none of which is blank.  The code keeps this only while one part  *)
(* more leaves the capacities as they were: at the first number with a      *)
(* digit more they shrink, a sentence that was too short a piece is now     *)
(* long enough, so a piece may hold more than before and fewer parts do.    *)
PartsAgree ==
  /\ pc = "cut" \/ (pc = "whole" /\ (total <= 2 \/ Digits(total) = Digits(total - 1))) => Len(pieces) = total
  /\ Done => Len(pieces) <= total /\ \A i \in DOMAIN pieces : Strip(pieces[i]) # << >>

Letters(s) == FlattenSeq([i \in 1..Len(s) |-> IF s[i] \in Space THEN << >> ELSE <<s[i]>>])

(* Whatever the splits and strips: the parts together are the answer, and   *)
(* an answer that was cut short is a beginning of it, with something        *)
(* missing, and the marker that says so.                                    *)
NothingLost ==
  LET joined == FlattenSeq(pieces)
      kept == Upto(joined, Len(joined) - Dots)
  IN /\ pc = "whole" => Letters(joined) = Letters(text)
     /\ pc = "cut" => joined = kept \o Marker /\ IsStrictPrefix(Letters(kept), Letters(text))

(* Where the end of the i-th piece is inside a word, and that word.         *)
Broken(i) ==
  LET before == Letters(FlattenSeq(Upto(pieces, i)))
  IN {n \in 1..Len(text) - 1 :
        Letters(Upto(text, n)) = before /\ text[n] \notin Space /\ text[n + 1] \notin Space}
Word(n) ==
  LET begin == Max({0} \cup {m \in 1..n : text[m] \in Space})
      end == Min({Len(text) + 1} \cup {m \in n..Len(text) : text[m] \in Space})
  IN SubSeq(text, begin + 1, end - 1)

(* A piece that breaks a word has no " " to break at: whichever boundary it *)
(* was cut at and stripped to, it did not pass over a space.  The code      *)
(* looks for " " alone: a line break does not count.                        *)
WordsKept == \A i \in 1..(Len(pieces) - 1) : Broken(i) # {} => " " \notin Range(pieces[i])

(* README.md: "otherwise splitting falls back to a word boundary".  A word  *)
(* is broken only if it is longer than what fits beside the prefix.         *)
WordBoundary ==
  \A i \in 1..(Len(pieces) - 1) : \A n \in Broken(i) : Bytes(Word(n)) > Capacity(i, total)
=============================================================================
