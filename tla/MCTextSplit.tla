----------------------------- MODULE MCTextSplit -----------------------------
(* Instance of TextSplit for TLC: answers put together from words, lines,   *)
(* sentences and numbers, wide characters among them, and parts whose       *)
(* number takes two digits from 3 on.                                       *)
EXTENDS TextSplit

CONSTANT MaxFragments
Fragments == {<<"x", "x", "x", "x", "x">>, <<"x", "u", "u">>, <<"x", "x", " ">>, <<"x", "\n">>,
              <<"\n", "\n">>, <<"x", "x", "x", ".", "\n">>, <<"1", ".", " ">>}
MCTexts == {FlattenSeq(f) : f \in UNION {[1..n -> Fragments] : n \in 0..MaxFragments}}
MCWidth == [c \in {"x", "1", " ", "\n", ".", "u"} |-> IF c = "u" THEN 4 ELSE 1]
=============================================================================
