---------------------------- MODULE TextSplitProofs ----------------------------
(***************************************************************************)
(* Proofs about TextSplit for all texts, widths, packets and numbers of    *)
(* chunks: what the slices and strips of the code return, that every chunk *)
(* fits, that the numbers in the prefixes agree with what is sent, and     *)
(* where in the answer the pieces lie.                                     *)
(***************************************************************************)
EXTENDS TextSplit, FiniteSetTheorems, SequenceTheorems, WellFoundedInduction, TLAPS

Chars == DOMAIN Width
Blank == " "

(* One cell for each byte of each character: Bytes counts them.             *)
Cells(s) == {p \in (DOMAIN s) \X (1..4) : p[2] <= Width[s[p[1]]]}

-----------------------------------------------------------------------------
(* The greatest and the least of a set of positions.                        *)

LEMMA LeastNumber ==
  ASSUME NEW S \in SUBSET Nat, S # {}
  PROVE  Min(S) \in S /\ \A n \in S : Min(S) <= n
<1> DEFINE R == {p \in Nat \X Nat : p[1] < p[2]}
<1>1. IsWellFoundedOn(R, Nat)
  BY NatLessThanWellFounded DEF OpToRel
<1>2. \A m, n \in Nat : m < n => <<m, n>> \in R
  OBVIOUS
<1> HIDE DEF R
<1>3. PICK least \in S : \A n \in S : ~(<<n, least>> \in R)
  BY <1>1, WFMin
<1>4. \A n \in S : least <= n
  <2> SUFFICES ASSUME NEW n \in S, ~(least <= n) PROVE FALSE
    OBVIOUS
  <2>1. n \in Nat /\ least \in Nat
    OBVIOUS
  <2>2. <<n, least>> \in R
    BY <1>2, <2>1
  <2> QED BY <1>3, <2>2
<1> QED BY <1>4 DEF Min

LEMMA GreatestNumber ==
  ASSUME NEW bound \in Nat, NEW S \in SUBSET (0..bound), S # {}
  PROVE  Max(S) \in S /\ \A n \in S : n <= Max(S)
<1> DEFINE D == {bound - n : n \in S}
<1>1. D \in SUBSET Nat /\ D # {}
  <2>1. \A n \in S : n \in 0..bound
    OBVIOUS
  <2>2. \A n \in 0..bound : bound - n \in Nat
    OBVIOUS
  <2> QED BY <2>1, <2>2
<1>2. Min(D) \in D /\ \A d \in D : Min(D) <= d
  BY <1>1, LeastNumber
<1>3. PICK greatest \in S : Min(D) = bound - greatest
  BY <1>2
<1>4. ASSUME NEW n \in S PROVE greatest >= n
  <2>1. bound - n \in D
    OBVIOUS
  <2>2. bound - greatest <= bound - n
    BY <1>2, <1>3, <2>1
  <2> QED BY <2>2
<1> HIDE DEF D
<1> QED BY <1>4 DEF Max

-----------------------------------------------------------------------------
(* Bytes.                                                                   *)

LEMMA BytesIsNat ==
  ASSUME NEW s \in Seq(Chars)
  PROVE  IsFiniteSet(Cells(s)) /\ Bytes(s) \in Nat /\ Bytes(s) = Cardinality(Cells(s))
<1>1. DOMAIN s = 1..Len(s) /\ Len(s) \in Nat
  BY LenProperties
<1>2. IsFiniteSet(1..Len(s)) /\ IsFiniteSet(1..4)
  <2>1. 1 \in Int /\ 4 \in Int /\ Len(s) \in Int
    BY <1>1
  <2>2. \A n \in Int : IsFiniteSet(1..n)
    BY <2>1, FS_Interval, Zenon
  <2> QED BY <2>1, <2>2, Zenon
<1>3. IsFiniteSet((DOMAIN s) \X (1..4))
  BY <1>1, <1>2, FS_Product, Zenon
<1>4. Cells(s) \in SUBSET ((DOMAIN s) \X (1..4))
  BY DEF Cells
<1>5. IsFiniteSet(Cells(s))
  BY <1>3, <1>4, FS_Subset
<1> QED BY <1>5, FS_CardinalityType DEF Bytes, Cells

(* A slice of a text is a text, and no longer than it in bytes.             *)
LEMMA Slice ==
  ASSUME NEW s \in Seq(Chars), NEW m \in 1..Len(s) + 1, NEW n \in m - 1..Len(s)
  PROVE  /\ SubSeq(s, m, n) \in Seq(Chars)
         /\ Len(SubSeq(s, m, n)) = n - m + 1
         /\ \A i \in 1..n - m + 1 : SubSeq(s, m, n)[i] = s[m + i - 1]
         /\ Bytes(SubSeq(s, m, n)) <= Bytes(s)
<1> DEFINE t == SubSeq(s, m, n)
<1>1. DOMAIN s = 1..Len(s) /\ Len(s) \in Nat /\ \A i \in 1..Len(s) : s[i] \in Chars
  BY LenProperties
<1>2. /\ t \in Seq(Chars)
      /\ Len(t) = n - m + 1
      /\ \A i \in 1..n - m + 1 : t[i] = s[m + i - 1]
  <2>1. \A i \in m..n : s[i] \in Chars
    BY <1>1
  <2>2. m \in Int /\ n \in Int
    BY <1>1
  <2>3. /\ t \in Seq(Chars)
        /\ Len(t) = IF m <= n THEN n - m + 1 ELSE 0
        /\ \A i \in 1..n - m + 1 : t[i] = s[m + i - 1]
    BY <2>1, <2>2, SubSeqProperties
  <2> QED BY <2>3, <1>1
<1> HIDE DEF t
<1>3. DOMAIN t = 1..n - m + 1
  BY <1>2, LenProperties
<1> DEFINE f == [p \in Cells(t) |-> <<p[1] + m - 1, p[2]>>]
<1>4. \A p \in Cells(t) : <<p[1] + m - 1, p[2]>> \in Cells(s)
  <2> SUFFICES ASSUME NEW p \in Cells(t) PROVE <<p[1] + m - 1, p[2]>> \in Cells(s)
    OBVIOUS
  <2>1. p[1] \in 1..n - m + 1 /\ p[2] \in 1..4 /\ p[2] <= Width[t[p[1]]]
    BY <1>3 DEF Cells
  <2>2. p[1] + m - 1 \in 1..Len(s) /\ t[p[1]] = s[p[1] + m - 1]
    BY <1>1, <1>2, <2>1
  <2> QED BY <1>1, <2>1, <2>2 DEF Cells
<1>5. \A p, q \in Cells(t) : f[p] = f[q] => p = q
  <2> SUFFICES ASSUME NEW p \in Cells(t), NEW q \in Cells(t), f[p] = f[q] PROVE p = q
    OBVIOUS
  <2>1. /\ p \in (1..n - m + 1) \X (1..4) /\ q \in (1..n - m + 1) \X (1..4)
    BY <1>3 DEF Cells
  <2>2. p[1] + m - 1 = q[1] + m - 1 /\ p[2] = q[2]
    OBVIOUS
  <2>3. p[1] = q[1]
    BY <2>1, <2>2
  <2> QED BY <2>1, <2>2, <2>3
<1>6. f \in Injection(Cells(t), Cells(s))
  BY <1>4, <1>5 DEF Injection, IsInjective
<1>7. Cardinality(Cells(t)) <= Cardinality(Cells(s))
  BY <1>6, FS_Injection, BytesIsNat
<1> QED BY <1>2, <1>7, BytesIsNat DEF t

(* One character has its own width.                                         *)
LEMMA OneCharacter ==
  ASSUME NEW s \in Seq(Chars), Len(s) = 1
  PROVE  Bytes(s) <= Width[s[1]]
<1>1. DOMAIN s = 1..1 /\ s[1] \in Chars /\ Width[s[1]] \in 1..4
  <2>1. DOMAIN s = 1..1 /\ s \in [1..1 -> Chars]
    BY LenProperties
  <2>2. s[1] \in Chars
    BY <2>1
  <2>3. \A c \in Chars : Width[c] \in 1..4
    BY WidthAssumption DEF Chars
  <2> QED BY <2>1, <2>2, <2>3
<1> DEFINE f == [p \in Cells(s) |-> p[2]]
<1>2. \A p \in Cells(s) : p[1] = 1 /\ p[2] \in 1..Width[s[1]] /\ p = <<p[1], p[2]>>
  BY <1>1 DEF Cells
<1>3. f \in Injection(Cells(s), 1..Width[s[1]])
  BY <1>2 DEF Injection, IsInjective
<1>4. IsFiniteSet(1..Width[s[1]]) /\ Cardinality(1..Width[s[1]]) = Width[s[1]]
  <2>1. 1 \in Int /\ Width[s[1]] \in Int /\ ~(1 > Width[s[1]]) /\ Width[s[1]] - 1 + 1 = Width[s[1]]
    BY <1>1
  <2>2. \A n \in Int : IsFiniteSet(1..n) /\ Cardinality(1..n) = IF 1 > n THEN 0 ELSE n - 1 + 1
    BY <2>1, FS_Interval, Zenon
  <2> QED BY <2>1, <2>2
<1>5. Cardinality(Cells(s)) <= Cardinality(1..Width[s[1]])
  BY <1>3, <1>4, FS_Injection
<1> QED BY <1>4, <1>5, BytesIsNat

(* The marker adds its three bytes.                                         *)
LEMMA MarkerIsText == Marker \in Seq(Chars) /\ Len(Marker) = 3 /\ \A i \in 1..3 : Marker[i] = "."
<1>1. Marker \in [1..3 -> Chars]
  BY WidthAssumption DEF Marker, Dots, Chars
<1>2. Marker \in Seq(Chars)
  BY <1>1, SeqDef
<1> QED BY <1>1, <1>2, LenProperties DEF Marker, Dots

LEMMA MarkedBytes ==
  ASSUME NEW s \in Seq(Chars)
  PROVE  s \o Marker \in Seq(Chars) /\ Bytes(s \o Marker) <= Bytes(s) + Dots
<1> DEFINE t == s \o Marker
           New == {p \in Cells(t) : p[1] > Len(s)}
           f == [p \in New |-> p[1] - Len(s)]
<1>1. /\ t \in Seq(Chars) /\ Len(t) = Len(s) + 3
      /\ \A i \in 1..Len(s) + 3 : t[i] = IF i <= Len(s) THEN s[i] ELSE "."
  <2>1. /\ t \in Seq(Chars) /\ Len(t) = Len(s) + Len(Marker)
        /\ \A i \in 1..Len(s) + Len(Marker) : t[i] = IF i <= Len(s) THEN s[i] ELSE Marker[i - Len(s)]
    BY MarkerIsText, ConcatProperties
  <2>2. Len(s) \in Nat
    BY LenProperties
  <2> HIDE DEF t
  <2> QED BY <2>1, <2>2, MarkerIsText
<1> HIDE DEF t
<1>2. DOMAIN t = 1..Len(s) + 3 /\ DOMAIN s = 1..Len(s) /\ Len(s) \in Nat
  BY <1>1, LenProperties
<1>3. Cells(t) \subseteq Cells(s) \cup New
  <2> SUFFICES ASSUME NEW p \in Cells(t), ~(p[1] > Len(s)) PROVE p \in Cells(s)
    OBVIOUS
  <2>1. p \in (1..Len(s) + 3) \X (1..4) /\ p[2] <= Width[t[p[1]]]
    BY <1>2 DEF Cells
  <2>2. p[1] \in 1..Len(s) /\ t[p[1]] = s[p[1]]
    BY <1>1, <1>2, <2>1
  <2> QED BY <1>2, <2>1, <2>2 DEF Cells
<1>4. \A p \in New : p[1] - Len(s) \in 1..3 /\ p[2] = 1 /\ p = <<p[1], p[2]>> /\ p[1] \in Nat
  <2> SUFFICES ASSUME NEW p \in New
               PROVE  p[1] - Len(s) \in 1..3 /\ p[2] = 1 /\ p = <<p[1], p[2]>> /\ p[1] \in Nat
    OBVIOUS
  <2>1. p \in (1..Len(s) + 3) \X (1..4) /\ p[2] <= Width[t[p[1]]] /\ p[1] > Len(s)
    BY <1>2 DEF Cells
  <2>2. t[p[1]] = "."
    BY <1>1, <1>2, <2>1
  <2>3. p[2] <= 1
    BY <2>1, <2>2, WidthAssumption
  <2>4. p[1] \in 1..Len(s) + 3 /\ p[2] \in 1..4 /\ p = <<p[1], p[2]>>
    BY <2>1
  <2>5. p[2] = 1
    BY <2>3, <2>4
  <2>6. p[1] - Len(s) \in 1..3 /\ p[1] \in Nat
    BY <1>2, <2>1, <2>4
  <2> QED BY <2>4, <2>5, <2>6
<1>5. \A p, q \in New : f[p] = f[q] => p = q
  <2> SUFFICES ASSUME NEW p \in New, NEW q \in New, f[p] = f[q] PROVE p = q
    OBVIOUS
  <2>1. p[1] - Len(s) = q[1] - Len(s)
    OBVIOUS
  <2>2. p[1] = q[1]
    BY <1>2, <1>4, <2>1
  <2> QED BY <1>4, <2>2
<1>6. f \in Injection(New, 1..3)
  BY <1>4, <1>5 DEF Injection, IsInjective
<1>7. IsFiniteSet(1..3) /\ Cardinality(1..3) = 3
  <2>1. 1 \in Int /\ 3 \in Int /\ ~(1 > 3)
    OBVIOUS
  <2>2. IsFiniteSet(1..3) /\ Cardinality(1..3) = 3 - 1 + 1
    BY <2>1, FS_Interval, Zenon
  <2> QED BY <2>2
<1> HIDE DEF f, New
<1>8. IsFiniteSet(New) /\ Cardinality(New) <= 3
  BY <1>6, <1>7, FS_Injection
<1>9. IsFiniteSet(Cells(s) \cup New) /\ Cardinality(Cells(s) \cup New) <= Cardinality(Cells(s)) + 3
  <2>1. /\ IsFiniteSet(Cells(s) \cup New)
        /\ Cardinality(Cells(s) \cup New) = Cardinality(Cells(s)) + Cardinality(New) - Cardinality(Cells(s) \cap New)
    BY <1>8, BytesIsNat, FS_Union
  <2>2. IsFiniteSet(Cells(s) \cap New)
    BY <1>8, FS_Subset
  <2>3. Cardinality(Cells(s) \cap New) \in Nat /\ Cardinality(New) \in Nat /\ Cardinality(Cells(s)) \in Nat
    BY <1>8, <2>2, BytesIsNat, FS_CardinalityType
  <2> QED BY <1>8, <2>1, <2>3
<1>10. Cardinality(Cells(t)) <= Cardinality(Cells(s) \cup New)
  BY <1>3, <1>9, FS_Subset
<1>11. Bytes(t) = Cardinality(Cells(t)) /\ Bytes(s) = Cardinality(Cells(s)) /\ Bytes(t) \in Nat /\ Bytes(s) \in Nat
  BY <1>1, BytesIsNat
<1>12. Cardinality(Cells(s) \cup New) \in Nat
  BY <1>9, FS_CardinalityType
<1>13. Bytes(t) <= Bytes(s) + 3
  BY <1>9, <1>10, <1>11, <1>12
<1> QED BY <1>1, <1>13 DEF Dots, t

-----------------------------------------------------------------------------
(* Strips: what they take away, and where they stop.                        *)

LEMMA LStripped ==
  ASSUME NEW s \in Seq(Chars)
  PROVE  \E k \in 0..Len(s) :
           /\ LStrip(s) = SubSeq(s, k + 1, Len(s))
           /\ \A i \in 1..k : s[i] \in Space
           /\ k < Len(s) => s[k + 1] \notin Space
<1> DEFINE S == {n \in 0..Len(s) : \A i \in 1..n : s[i] \in Space}
<1>1. Len(s) \in Nat
  BY LenProperties
<1>2. S \in SUBSET (0..Len(s)) /\ 0 \in S
  BY <1>1
<1>3. PICK k \in S : k = Max(S) /\ \A n \in S : n <= k
  BY <1>1, <1>2, GreatestNumber
<1>4. LStrip(s) = SubSeq(s, k + 1, Len(s))
  BY <1>3 DEF LStrip, From
<1>5. k \in 0..Len(s) /\ \A i \in 1..k : s[i] \in Space
  OBVIOUS
<1>6. ASSUME k < Len(s), s[k + 1] \in Space PROVE FALSE
  <2>1. k + 1 \in 0..Len(s) /\ \A i \in 1..k + 1 : i \in 1..k \/ i = k + 1
    BY <1>1, <1>5, <1>6
  <2>2. k + 1 \in S
    BY <1>5, <1>6, <2>1
  <2>3. k + 1 <= k
    BY <1>3, <2>2
  <2> QED BY <1>5, <2>3
<1> QED BY <1>4, <1>5, <1>6

LEMMA RStripped ==
  ASSUME NEW s \in Seq(Chars), NEW drop
  PROVE  \E k \in 0..Len(s) :
           /\ RStrip(s, drop) = SubSeq(s, 1, k)
           /\ \A i \in k + 1..Len(s) : s[i] \in drop
           /\ k > 0 => s[k] \notin drop
<1> DEFINE S == {n \in 0..Len(s) : \A i \in n + 1..Len(s) : s[i] \in drop}
<1>1. Len(s) \in Nat
  BY LenProperties
<1>2. S \in SUBSET Nat /\ Len(s) \in S
  BY <1>1
<1>3. PICK k \in S : k = Min(S) /\ \A n \in S : k <= n
  BY <1>2, LeastNumber
<1>4. RStrip(s, drop) = SubSeq(s, 1, k)
  BY <1>3 DEF RStrip, Upto
<1>5. k \in 0..Len(s) /\ \A i \in k + 1..Len(s) : s[i] \in drop
  OBVIOUS
<1>6. ASSUME k > 0, s[k] \in drop PROVE FALSE
  <2>1. k - 1 \in 0..Len(s) /\ \A i \in (k - 1) + 1..Len(s) : i = k \/ i \in k + 1..Len(s)
    BY <1>1, <1>5, <1>6
  <2>2. k - 1 \in S
    BY <1>5, <1>6, <2>1
  <2>3. k <= k - 1
    BY <1>3, <2>2
  <2> QED BY <1>5, <2>3
<1> QED BY <1>4, <1>5, <1>6

(* A stripped text is the slice from the first to the last character that   *)
(* is no space.                                                             *)
LEMMA Stripped ==
  ASSUME NEW s \in Seq(Chars)
  PROVE  \E m \in 1..Len(s) + 1 : \E n \in m - 1..Len(s) :
           /\ Strip(s) = SubSeq(s, m, n)
           /\ \A i \in 1..Len(s) : i < m \/ i > n => s[i] \in Space
           /\ m <= n => s[m] \notin Space /\ s[n] \notin Space
<1>1. Len(s) \in Nat
  BY LenProperties
<1>2. PICK k \in 0..Len(s) :
        /\ RStrip(s, Space) = SubSeq(s, 1, k)
        /\ \A i \in k + 1..Len(s) : s[i] \in Space
        /\ k > 0 => s[k] \notin Space
  BY RStripped
<1> DEFINE r == SubSeq(s, 1, k)
<1>3. r \in Seq(Chars) /\ Len(r) = k /\ \A i \in 1..k : r[i] = s[i]
  <2>1. 1 \in 1..Len(s) + 1 /\ k \in 1 - 1..Len(s)
    BY <1>1
  <2>2. /\ r \in Seq(Chars) /\ Len(r) = k - 1 + 1
        /\ \A i \in 1..k - 1 + 1 : r[i] = s[1 + i - 1]
    BY <2>1, Slice
  <2> HIDE DEF r
  <2> QED BY <2>2
<1> HIDE DEF r
<1>4. PICK j \in 0..Len(r) :
        /\ LStrip(r) = SubSeq(r, j + 1, Len(r))
        /\ \A i \in 1..j : r[i] \in Space
        /\ j < Len(r) => r[j + 1] \notin Space
  BY <1>3, LStripped
<1>5. Strip(s) = SubSeq(r, j + 1, k)
  BY <1>2, <1>3, <1>4 DEF Strip, r
<1>6. SubSeq(r, j + 1, k) = SubSeq(s, j + 1, k)
  <2>1. j + 1 \in 1..k + 1 /\ k \in (j + 1) - 1..k /\ k \in (j + 1) - 1..Len(s) /\ j + 1 \in 1..Len(s) + 1
    BY <1>1, <1>3
  <2>2. /\ SubSeq(r, j + 1, k) \in Seq(Chars) /\ Len(SubSeq(r, j + 1, k)) = k - (j + 1) + 1
        /\ \A i \in 1..k - (j + 1) + 1 : SubSeq(r, j + 1, k)[i] = r[(j + 1) + i - 1]
    BY <1>3, <2>1, Slice
  <2>3. /\ SubSeq(s, j + 1, k) \in Seq(Chars) /\ Len(SubSeq(s, j + 1, k)) = k - (j + 1) + 1
        /\ \A i \in 1..k - (j + 1) + 1 : SubSeq(s, j + 1, k)[i] = s[(j + 1) + i - 1]
    BY <2>1, Slice
  <2>4. \A i \in 1..k - (j + 1) + 1 : r[(j + 1) + i - 1] = s[(j + 1) + i - 1]
    BY <1>3, <2>1
  <2> QED BY <2>2, <2>3, <2>4, SeqEqual
<1>7. j + 1 \in 1..Len(s) + 1 /\ k \in (j + 1) - 1..Len(s)
  BY <1>1, <1>3
<1>8. \A i \in 1..Len(s) : i < j + 1 \/ i > k => s[i] \in Space
  BY <1>1, <1>2, <1>3, <1>4
<1>9. j + 1 <= k => s[j + 1] \notin Space /\ s[k] \notin Space
  BY <1>2, <1>3, <1>4
<1> QED BY <1>5, <1>6, <1>7, <1>8, <1>9

(* A text is blank only if it is all spaces.                                *)
LEMMA NotBlank ==
  ASSUME NEW s \in Seq(Chars), NEW i \in 1..Len(s), s[i] \notin Space
  PROVE  Strip(s) # << >>
<1>1. Len(s) \in Nat
  BY LenProperties
<1>2. PICK m \in 1..Len(s) + 1 : \E n \in m - 1..Len(s) :
        /\ Strip(s) = SubSeq(s, m, n)
        /\ \A j \in 1..Len(s) : j < m \/ j > n => s[j] \in Space
  BY Stripped
<1>3. PICK n \in m - 1..Len(s) :
        /\ Strip(s) = SubSeq(s, m, n)
        /\ \A j \in 1..Len(s) : j < m \/ j > n => s[j] \in Space
  BY <1>2
<1>4. m <= n
  BY <1>1, <1>3
<1>5. Len(Strip(s)) = n - m + 1
  BY <1>3, Slice
<1> QED BY <1>1, <1>4, <1>5

-----------------------------------------------------------------------------
(* Cuts.                                                                    *)

LEMMA Beginning ==
  ASSUME NEW s \in Seq(Chars), NEW n \in 0..Len(s)
  PROVE  /\ Upto(s, n) \in Seq(Chars) /\ Len(Upto(s, n)) = n
         /\ \A i \in 1..n : Upto(s, n)[i] = s[i]
         /\ Bytes(Upto(s, n)) <= Bytes(s)
         /\ \A m \in 0..n : Upto(Upto(s, n), m) = Upto(s, m) /\ Bytes(Upto(s, m)) <= Bytes(Upto(s, n))
<1>1. Len(s) \in Nat
  BY LenProperties
<1>2. ASSUME NEW t \in Seq(Chars), NEW m \in 0..Len(t)
      PROVE  /\ Upto(t, m) \in Seq(Chars) /\ Len(Upto(t, m)) = m
             /\ \A i \in 1..m : Upto(t, m)[i] = t[i]
             /\ Bytes(Upto(t, m)) <= Bytes(t)
  <2>1. Len(t) \in Nat
    BY LenProperties
  <2>2. 1 \in 1..Len(t) + 1 /\ m \in 1 - 1..Len(t)
    BY <2>1
  <2>3. /\ SubSeq(t, 1, m) \in Seq(Chars) /\ Len(SubSeq(t, 1, m)) = m - 1 + 1
        /\ \A i \in 1..m - 1 + 1 : SubSeq(t, 1, m)[i] = t[1 + i - 1]
        /\ Bytes(SubSeq(t, 1, m)) <= Bytes(t)
    BY <2>2, Slice
  <2> QED BY <2>3 DEF Upto
<1>3. ASSUME NEW m \in 0..n
      PROVE  Upto(Upto(s, n), m) = Upto(s, m) /\ Bytes(Upto(s, m)) <= Bytes(Upto(s, n))
  <2>1. m \in 0..Len(s) /\ m \in 0..Len(Upto(s, n)) /\ Upto(s, n) \in Seq(Chars)
    BY <1>1, <1>2
  <2>2. /\ Upto(Upto(s, n), m) \in Seq(Chars) /\ Len(Upto(Upto(s, n), m)) = m
        /\ \A i \in 1..m : Upto(Upto(s, n), m)[i] = Upto(s, n)[i]
        /\ Bytes(Upto(Upto(s, n), m)) <= Bytes(Upto(s, n))
    BY <1>2, <2>1
  <2>3. /\ Upto(s, m) \in Seq(Chars) /\ Len(Upto(s, m)) = m
        /\ \A i \in 1..m : Upto(s, m)[i] = s[i]
    BY <1>2, <2>1
  <2>4. \A i \in 1..m : Upto(s, n)[i] = s[i]
    BY <1>2
  <2>5. Upto(Upto(s, n), m) = Upto(s, m)
    BY <2>2, <2>3, <2>4, SeqEqual
  <2> QED BY <2>2, <2>5
<1> QED BY <1>2, <1>3

(* There is room for any one character.                                     *)
Room(limit) == limit \in Nat /\ \A c \in Chars : Width[c] <= limit

LEMMA HardCutFits ==
  ASSUME NEW s \in Seq(Chars), Len(s) > 0, NEW limit, Room(limit)
  PROVE  HardCut(s, limit) \in 1..Len(s) /\ Bytes(Upto(s, HardCut(s, limit))) <= limit
<1> DEFINE S == {n \in 1..Len(s) : Bytes(Upto(s, n)) <= limit}
<1>1. Len(s) \in Nat /\ s[1] \in Chars
  BY LenProperties
<1>2. 1 \in S
  <2>1. 1 \in 0..Len(s) /\ 1 \in 1..Len(s) /\ 1 \in 1..1
    BY <1>1
  <2>2. Upto(s, 1) \in Seq(Chars) /\ Len(Upto(s, 1)) = 1 /\ Upto(s, 1)[1] = s[1]
    BY <2>1, Beginning
  <2>3. Bytes(Upto(s, 1)) <= Width[s[1]] /\ Bytes(Upto(s, 1)) \in Nat
    BY <2>2, OneCharacter, BytesIsNat
  <2>4. Width[s[1]] <= limit /\ Width[s[1]] \in 1..4 /\ limit \in Nat
    BY <1>1, WidthAssumption DEF Room, Chars
  <2> QED BY <2>1, <2>3, <2>4
<1>3. {1} \cup S = S /\ S \in SUBSET (0..Len(s)) /\ S # {}
  BY <1>1, <1>2
<1>4. Max(S) \in S
  BY <1>1, <1>3, GreatestNumber
<1>5. HardCut(s, limit) = Max(S)
  BY <1>3 DEF HardCut
<1> QED BY <1>4, <1>5

LEMMA FoundInside ==
  ASSUME NEW s \in Seq(Chars), NEW part, Len(part) \in Nat
  PROVE  RFind(s, part) \in 0..Len(s)
<1> DEFINE S == {0} \cup {n \in 0..Len(s) - Len(part) : SubSeq(s, n + 1, n + Len(part)) = part}
<1>1. Len(s) \in Nat
  BY LenProperties
<1>2. S \in SUBSET (0..Len(s)) /\ S # {}
  BY <1>1
<1>3. Max(S) \in S
  BY <1>1, <1>2, GreatestNumber
<1> QED BY <1>2, <1>3 DEF RFind

LEMMA BestInside ==
  ASSUME NEW s \in Seq(Chars)
  PROVE  BestSplit(s) \in 0..Len(s)
<1>1. Len(s) \in Nat
  BY LenProperties
<1>2. RFind(s, <<"\n", "\n">>) \in 0..Len(s) /\ RFind(s, <<" ">>) \in 0..Len(s)
  BY FoundInside
<1>3. Max({0} \cup SentenceEnds(s)) \in 0..Len(s)
  <2>1. {0} \cup SentenceEnds(s) \in SUBSET (0..Len(s)) /\ {0} \cup SentenceEnds(s) # {}
    BY <1>1 DEF SentenceEnds
  <2> QED BY <1>1, <2>1, GreatestNumber
<1> QED BY <1>2, <1>3 DEF BestSplit

(* What a piece takes is at least a character, and fits.                    *)
LEMMA TakenFits ==
  ASSUME NEW s \in Seq(Chars), Len(s) > 0, NEW limit, Room(limit)
  PROVE  /\ Taken(s, limit) \in 1..Len(s)
         /\ Bytes(Upto(s, Taken(s, limit))) <= limit
<1> DEFINE hard == HardCut(s, limit)
           best == BestSplit(Upto(s, hard))
<1>1. Len(s) \in Nat
  BY LenProperties
<1>2. hard \in 1..Len(s) /\ Bytes(Upto(s, hard)) <= limit
  BY HardCutFits
<1> HIDE DEF hard
<1>3. hard \in 0..Len(s)
  BY <1>1, <1>2
<1>4. Upto(s, hard) \in Seq(Chars) /\ Len(Upto(s, hard)) = hard
  BY <1>3, Beginning
<1>5. best \in 0..hard
  BY <1>4, BestInside
<1> HIDE DEF best
<1>6. Taken(s, limit) = hard \/ (Taken(s, limit) = best /\ best # 0)
  BY DEF Taken, hard, best
<1>7. best \in 0..hard /\ Bytes(Upto(s, best)) <= Bytes(Upto(s, hard))
  BY <1>3, <1>5, Beginning
<1>8. best \in 0..Len(s) /\ Upto(s, best) \in Seq(Chars)
  BY <1>1, <1>2, <1>5, Beginning
<1>9. Bytes(Upto(s, best)) \in Nat /\ Bytes(Upto(s, hard)) \in Nat /\ limit \in Nat
  BY <1>4, <1>8, BytesIsNat DEF Room
<1> QED BY <1>1, <1>2, <1>5, <1>6, <1>7, <1>9

(* A paragraph or a word ends before space, a sentence ends with it; where  *)
(* nothing of the kind is found there is no word boundary.                  *)
LEMMA FoundThere ==
  ASSUME NEW s \in Seq(Chars), NEW part, Len(part) \in Nat \ {0}, NEW n, n = RFind(s, part)
  PROVE  /\ n > 0 => n < Len(s) /\ s[n + 1] = part[1]
         /\ \A m \in 1..Len(s) - Len(part) : SubSeq(s, m + 1, m + Len(part)) = part => m <= n
<1> DEFINE S == {0} \cup {m \in 0..Len(s) - Len(part) : SubSeq(s, m + 1, m + Len(part)) = part}
<1>1. Len(s) \in Nat /\ \A i \in 1..Len(s) : s[i] \in Chars
  BY LenProperties
<1>2. S \in SUBSET (0..Len(s)) /\ S # {}
  BY <1>1
<1>3. n \in S /\ \A m \in S : m <= n
  BY <1>1, <1>2, GreatestNumber DEF RFind
<1>4. ASSUME n > 0 PROVE n < Len(s) /\ s[n + 1] = part[1]
  <2>1. n \in 0..Len(s) - Len(part) /\ SubSeq(s, n + 1, n + Len(part)) = part
    BY <1>3, <1>4
  <2>2. /\ n < Len(s) /\ n + 1 \in Int /\ n + Len(part) \in Int
        /\ 1 \in 1..(n + Len(part)) - (n + 1) + 1 /\ (n + 1) + 1 - 1 = n + 1
        /\ n + 1..n + Len(part) \subseteq 1..Len(s)
    <3> DEFINE k == Len(part)
    <3>1. k \in Nat /\ k >= 1 /\ n \in 0..Len(s) - k /\ Len(s) \in Nat
      BY <1>1, <2>1
    <3> HIDE DEF k
    <3>2. /\ n < Len(s) /\ n + 1 \in Int /\ n + k \in Int
          /\ 1 \in 1..(n + k) - (n + 1) + 1 /\ (n + 1) + 1 - 1 = n + 1
          /\ n + 1..n + k \subseteq 1..Len(s)
      BY <3>1
    <3> QED BY <3>2 DEF k
  <2>3. \A i \in n + 1..n + Len(part) : s[i] \in Chars
    BY <1>1, <2>2
  <2>4. SubSeq(s, n + 1, n + Len(part))[1] = s[(n + 1) + 1 - 1]
    BY <2>2, <2>3, SubSeqProperties
  <2> QED BY <2>1, <2>2, <2>4
<1>5. \A m \in 1..Len(s) - Len(part) : m \in 0..Len(s) - Len(part)
  BY <1>1
<1> QED BY <1>3, <1>4, <1>5

LEMMA OneItem ==
  ASSUME NEW S, NEW x \in S
  PROVE  <<x>> \in Seq(S) /\ Len(<<x>>) = 1 /\ <<x>>[1] = x
  OBVIOUS

LEMMA NotFound ==
  ASSUME NEW s \in Seq(Chars), NEW c \in Chars, RFind(s, <<c>>) = 0
  PROVE  \A j \in 2..Len(s) : s[j] # c
<1> SUFFICES ASSUME NEW j \in 2..Len(s), s[j] = c PROVE FALSE
  OBVIOUS
<1>1. Len(s) \in Nat
  BY LenProperties
<1> DEFINE part == <<c>>
<1>3. part \in Seq(Chars) /\ Len(part) = 1 /\ part[1] = c
  BY OneItem
<1>4. RFind(s, part) = 0
  OBVIOUS
<1> HIDE DEF part
<1>5. j - 1 \in 1..Len(s) - 1 /\ (j - 1) + 1 = j /\ ~(j - 1 <= 0)
  BY <1>1
<1>6. j \in 1..Len(s) + 1 /\ j \in j - 1..Len(s) /\ j - j + 1 = 1 /\ j + 1 - 1 = j /\ 1 \in 1..1
  BY <1>1
<1>7. SubSeq(s, j, j) \in Seq(Chars) /\ Len(SubSeq(s, j, j)) = 1 /\ SubSeq(s, j, j)[1] = s[j]
  BY <1>6, Slice
<1>8. SubSeq(s, j, j) = part
  <2>1. \A i \in 1..1 : SubSeq(s, j, j)[i] = part[i]
    BY <1>3, <1>7
  <2> QED BY <1>3, <1>7, <2>1, SeqEqual
<1>9. \A m \in 1..Len(s) - Len(part) : SubSeq(s, m + 1, m + Len(part)) = part => m <= 0
  <2>1. Len(part) \in Nat \ {0}
    BY <1>3
  <2>2. \A n : n = RFind(s, part) => \A m \in 1..Len(s) - Len(part) : SubSeq(s, m + 1, m + Len(part)) = part => m <= n
    BY <2>1, FoundThere
  <2> QED BY <1>4, <2>2
<1> QED BY <1>3, <1>5, <1>8, <1>9

LEMMA BestBreaks ==
  ASSUME NEW s \in Seq(Chars), NEW n, n = BestSplit(s)
  PROVE  /\ n > 0 => s[n] \in Space \/ (n < Len(s) /\ s[n + 1] \in Space)
         /\ n = 0 => \A j \in 2..Len(s) : s[j] # Blank
<1>1. Len(s) \in Nat
  BY LenProperties
<1> DEFINE paragraph == RFind(s, <<"\n", "\n">>)
           sentence == Max({0} \cup SentenceEnds(s))
           space == RFind(s, <<" ">>)
<1>2. paragraph > 0 => paragraph < Len(s) /\ s[paragraph + 1] \in Space
  <2>1. Len(<<"\n", "\n">>) \in Nat \ {0} /\ <<"\n", "\n">>[1] = "\n"
    OBVIOUS
  <2> QED BY <2>1, FoundThere DEF Space
<1>3. space > 0 => space < Len(s) /\ s[space + 1] \in Space
  <2>1. Len(<<" ">>) \in Nat \ {0} /\ <<" ">>[1] = " "
    OBVIOUS
  <2> QED BY <2>1, FoundThere DEF Space
<1>4. sentence > 0 => s[sentence] \in Space
  <2>1. {0} \cup SentenceEnds(s) \in SUBSET (0..Len(s)) /\ {0} \cup SentenceEnds(s) # {}
    BY <1>1 DEF SentenceEnds
  <2>2. sentence \in {0} \cup SentenceEnds(s)
    BY <1>1, <2>1, GreatestNumber
  <2> HIDE DEF sentence
  <2>3. ASSUME sentence \in SentenceEnds(s) PROVE s[sentence] \in Space
    <3>1. PICK m \in 1..sentence - 1 : \A i \in m + 1..sentence : s[i] \in Space
      BY <2>3 DEF SentenceEnds
    <3>2. sentence \in 1..Len(s)
      BY <2>3 DEF SentenceEnds
    <3>3. sentence \in m + 1..sentence
      BY <1>1, <3>1, <3>2
    <3> QED BY <3>1, <3>3
  <2> QED BY <2>2, <2>3
<1>5. space = 0 => \A j \in 2..Len(s) : s[j] # Blank
  <2>1. Blank \in Chars
    BY WidthAssumption DEF Chars, Blank
  <2>2. space = RFind(s, <<Blank>>)
    BY DEF Blank
  <2> HIDE DEF space
  <2> QED BY <2>1, <2>2, NotFound
<1>6. n \in {paragraph, sentence, space}
  BY DEF BestSplit
<1>7. (n = paragraph /\ n > 0) \/ (n = sentence /\ n > 0) \/ n = space
  BY DEF BestSplit
<1> HIDE DEF paragraph, sentence, space
<1>8. ASSUME n > 0 PROVE s[n] \in Space \/ (n < Len(s) /\ s[n + 1] \in Space)
  BY <1>2, <1>3, <1>4, <1>7, <1>8
<1>9. ASSUME n = 0 PROVE \A j \in 2..Len(s) : s[j] # Blank
  <2>1. space = 0
    BY <1>7, <1>9
  <2> QED BY <1>5, <2>1
<1> QED BY <1>8, <1>9

LEMMA TakenBreaks ==
  ASSUME NEW s \in Seq(Chars), Len(s) > 0, s[1] \notin Space, NEW limit, Room(limit),
         NEW t, t = Taken(s, limit)
  PROVE  \/ \A j \in 1..t : s[j] # Blank
         \/ s[t] \in Space
         \/ t < Len(s) /\ s[t + 1] \in Space
<1> DEFINE hard == HardCut(s, limit)
           best == BestSplit(Upto(s, hard))
<1>1. Len(s) \in Nat
  BY LenProperties
<1>2. hard \in 1..Len(s)
  BY HardCutFits
<1> HIDE DEF hard
<1>3. hard \in 0..Len(s)
  BY <1>1, <1>2
<1>4. Upto(s, hard) \in Seq(Chars) /\ Len(Upto(s, hard)) = hard /\ \A i \in 1..hard : Upto(s, hard)[i] = s[i]
  BY <1>3, Beginning
<1>5. best \in 0..hard
  BY <1>4, BestInside
<1>6. /\ best > 0 => Upto(s, hard)[best] \in Space \/ (best < hard /\ Upto(s, hard)[best + 1] \in Space)
      /\ best = 0 => \A j \in 2..hard : Upto(s, hard)[j] # Blank
  BY <1>4, BestBreaks
<1>7. best # 0 => Strip(Upto(s, best)) # << >>
  <2> SUFFICES ASSUME best # 0 PROVE Strip(Upto(s, best)) # << >>
    OBVIOUS
  <2>1. best \in 0..Len(s) /\ 1 \in 1..best
    BY <1>1, <1>2, <1>5
  <2>2. Upto(s, best) \in Seq(Chars) /\ Len(Upto(s, best)) = best /\ Upto(s, best)[1] = s[1]
    BY <2>1, Beginning
  <2> QED BY <2>1, <2>2, NotBlank
<1>8. t = IF best = 0 THEN hard ELSE best
  <2>1. Taken(s, limit) = IF best = 0 \/ Strip(Upto(s, best)) = << >> THEN hard ELSE best
    BY DEF Taken, hard
  <2> HIDE DEF best
  <2> QED BY <1>7, <2>1
<1> HIDE DEF best
<1>9. CASE best = 0
  <2>1. \A j \in 1..hard : j = 1 \/ j \in 2..hard
    BY <1>1, <1>2
  <2>2. \A j \in 1..t : s[j] # Blank
    BY <1>4, <1>6, <1>8, <1>9, <2>1 DEF Space, Blank
  <2> QED BY <2>2
<1>10. CASE best # 0
  <2>1. best \in 1..hard /\ best > 0 /\ (best < hard => best + 1 \in 1..hard /\ best < Len(s))
    BY <1>1, <1>2, <1>5, <1>10
  <2> QED BY <1>4, <1>6, <1>8, <1>10, <2>1
<1> QED BY <1>9, <1>10

-----------------------------------------------------------------------------
(* A piece and the rest: what lies between them is space.                   *)

Trimmed(s) == Len(s) > 0 => s[1] \notin Space /\ s[Len(s)] \notin Space

LEMMA StrippedIsTrimmed ==
  ASSUME NEW s \in Seq(Chars)
  PROVE  Strip(s) \in Seq(Chars) /\ Trimmed(Strip(s)) /\ Bytes(Strip(s)) <= Bytes(s)
<1>1. Len(s) \in Nat
  BY LenProperties
<1>2. PICK m \in 1..Len(s) + 1 : \E n \in m - 1..Len(s) :
        /\ Strip(s) = SubSeq(s, m, n)
        /\ m <= n => s[m] \notin Space /\ s[n] \notin Space
  BY Stripped
<1>3. PICK n \in m - 1..Len(s) :
        /\ Strip(s) = SubSeq(s, m, n)
        /\ m <= n => s[m] \notin Space /\ s[n] \notin Space
  BY <1>2
<1>4. /\ Strip(s) \in Seq(Chars) /\ Len(Strip(s)) = n - m + 1
      /\ \A i \in 1..n - m + 1 : Strip(s)[i] = s[m + i - 1]
      /\ Bytes(Strip(s)) <= Bytes(s)
  BY <1>3, Slice
<1>5. ASSUME Len(Strip(s)) > 0 PROVE Strip(s)[1] = s[m] /\ Strip(s)[Len(Strip(s))] = s[n] /\ m <= n
  <2>1. m \in Nat /\ n \in Int /\ n - m + 1 > 0
    BY <1>1, <1>4, <1>5
  <2>2. 1 \in 1..n - m + 1 /\ n - m + 1 \in 1..n - m + 1 /\ m + 1 - 1 = m /\ m + (n - m + 1) - 1 = n
    BY <2>1
  <2> QED BY <1>4, <2>1, <2>2
<1> QED BY <1>3, <1>4, <1>5 DEF Trimmed

LEMMA Ending ==
  ASSUME NEW s \in Seq(Chars), NEW n \in 0..Len(s)
  PROVE  \E k \in n..Len(s) :
           /\ LStrip(From(s, n)) = From(s, k)
           /\ \A i \in n + 1..k : s[i] \in Space
           /\ k < Len(s) => s[k + 1] \notin Space
<1>1. Len(s) \in Nat
  BY LenProperties
<1> DEFINE t == From(s, n)
<1>2. n + 1 \in 1..Len(s) + 1 /\ Len(s) \in (n + 1) - 1..Len(s)
  BY <1>1
<1>3. t \in Seq(Chars) /\ Len(t) = Len(s) - n /\ \A i \in 1..Len(s) - n : t[i] = s[n + i]
  <2>1. /\ t \in Seq(Chars) /\ Len(t) = Len(s) - (n + 1) + 1
        /\ \A i \in 1..Len(s) - (n + 1) + 1 : t[i] = s[(n + 1) + i - 1]
    BY <1>2, Slice DEF From
  <2> HIDE DEF t
  <2> QED BY <1>1, <2>1
<1> HIDE DEF t
<1>4. PICK j \in 0..Len(t) :
        /\ LStrip(t) = SubSeq(t, j + 1, Len(t))
        /\ \A i \in 1..j : t[i] \in Space
        /\ j < Len(t) => t[j + 1] \notin Space
  BY <1>3, LStripped
<1>5. n + j \in n..Len(s)
  BY <1>1, <1>3
<1>6. SubSeq(t, j + 1, Len(t)) = From(s, n + j)
  <2>1. j + 1 \in 1..Len(t) + 1 /\ Len(t) \in (j + 1) - 1..Len(t)
    BY <1>1, <1>3
  <2>2. (n + j) + 1 \in 1..Len(s) + 1 /\ Len(s) \in ((n + j) + 1) - 1..Len(s)
    BY <1>1, <1>3
  <2>3. /\ SubSeq(t, j + 1, Len(t)) \in Seq(Chars) /\ Len(SubSeq(t, j + 1, Len(t))) = Len(t) - (j + 1) + 1
        /\ \A i \in 1..Len(t) - (j + 1) + 1 : SubSeq(t, j + 1, Len(t))[i] = t[(j + 1) + i - 1]
    BY <1>3, <2>1, Slice
  <2>4. /\ From(s, n + j) \in Seq(Chars) /\ Len(From(s, n + j)) = Len(s) - ((n + j) + 1) + 1
        /\ \A i \in 1..Len(s) - ((n + j) + 1) + 1 : From(s, n + j)[i] = s[((n + j) + 1) + i - 1]
    BY <2>2, Slice DEF From
  <2>5. Len(t) - (j + 1) + 1 = Len(s) - ((n + j) + 1) + 1
    BY <1>1, <1>3
  <2>6. \A i \in 1..Len(t) - (j + 1) + 1 : t[(j + 1) + i - 1] = s[((n + j) + 1) + i - 1]
    <3> SUFFICES ASSUME NEW i \in 1..Len(t) - (j + 1) + 1
                 PROVE  t[(j + 1) + i - 1] = s[((n + j) + 1) + i - 1]
      OBVIOUS
    <3>1. j + i \in 1..Len(s) - n /\ (j + 1) + i - 1 = j + i /\ ((n + j) + 1) + i - 1 = n + (j + i)
      BY <1>1, <1>3
    <3> QED BY <1>3, <3>1
  <2> DEFINE u == SubSeq(t, j + 1, Len(t))
             v == From(s, n + j)
  <2>7. u \in Seq(Chars) /\ v \in Seq(Chars) /\ Len(u) = Len(v)
    BY <2>3, <2>4, <2>5
  <2>8. \A i \in 1..Len(u) : u[i] = v[i]
    BY <2>3, <2>4, <2>5, <2>6
  <2> HIDE DEF u, v
  <2>9. u = v
    BY <2>7, <2>8, SeqEqual
  <2> QED BY <2>9 DEF u, v
<1>7. \A i \in n + 1..n + j : s[i] \in Space
  <2> SUFFICES ASSUME NEW i \in n + 1..n + j PROVE s[i] \in Space
    OBVIOUS
  <2>1. i - n \in 1..j /\ i - n \in 1..Len(s) - n /\ n + (i - n) = i
    BY <1>1, <1>3
  <2>2. t[i - n] = s[n + (i - n)] /\ t[i - n] \in Space
    BY <1>3, <1>4, <2>1
  <2> QED BY <2>1, <2>2
<1>8. n + j < Len(s) => s[(n + j) + 1] \notin Space
  <2> SUFFICES ASSUME n + j < Len(s) PROVE s[(n + j) + 1] \notin Space
    OBVIOUS
  <2>1. j < Len(t) /\ j + 1 \in 1..Len(s) - n /\ n + (j + 1) = (n + j) + 1
    BY <1>1, <1>3
  <2> QED BY <1>3, <1>4, <2>1
<1> QED BY <1>4, <1>5, <1>6, <1>7, <1>8 DEF t

LEMMA WholeAndNothing ==
  ASSUME NEW s \in Seq(Chars)
  PROVE  Upto(s, Len(s)) = s /\ From(s, Len(s)) = << >>
<1>1. Len(s) \in Nat
  BY LenProperties
<1>2. Upto(s, Len(s)) = s
  BY SubSeqFull DEF Upto
<1>3. Len(s) + 1 \in Int /\ Len(s) \in Int /\ Len(s) < Len(s) + 1
  BY <1>1
<1>4. From(s, Len(s)) = << >>
  BY <1>3, SubSeqEmpty DEF From
<1> QED BY <1>2, <1>4

LEMMA PieceAndRest ==
  ASSUME NEW s \in Seq(Chars), Len(s) > 0, Trimmed(s), NEW limit, Room(limit)
  PROVE  \E n \in 1..Len(s) : \E k \in n..Len(s) :
           /\ PieceOf(s, limit) = Upto(s, n) /\ s[n] \notin Space
           /\ RestOf(s, limit) = From(s, k)
           /\ \A i \in n + 1..k : s[i] \in Space
           /\ k < Len(s) => s[k + 1] \notin Space
           /\ k = Len(s) <=> Bytes(s) <= limit
           /\ Bytes(Upto(s, n)) <= limit
           /\ k = n /\ k < Len(s) => \A j \in 1..n : s[j] # Blank
<1>1. Len(s) \in Nat /\ Bytes(s) \in Nat /\ limit \in Nat
  BY LenProperties, BytesIsNat DEF Room
<1>2. CASE Bytes(s) <= limit
  <2>1. PieceOf(s, limit) = Upto(s, Len(s)) /\ RestOf(s, limit) = From(s, Len(s))
    BY <1>2, WholeAndNothing DEF PieceOf, RestOf
  <2>2. s[Len(s)] \notin Space /\ Bytes(Upto(s, Len(s))) <= limit
    BY <1>2, WholeAndNothing DEF Trimmed
  <2>3. Len(s) \in 1..Len(s) /\ Len(s) \in Len(s)..Len(s) /\ ~(Len(s) < Len(s))
    BY <1>1
  <2>4. \A i \in Len(s) + 1..Len(s) : s[i] \in Space
    BY <1>1
  <2> QED BY <1>2, <2>1, <2>2, <2>3, <2>4
<1>3. CASE ~(Bytes(s) <= limit)
  <2> DEFINE t == Taken(s, limit)
             p == Upto(s, t)
  <2>1. t \in 1..Len(s) /\ Bytes(p) <= limit
    BY TakenFits
  <2> HIDE DEF t
  <2>2. t \in 0..Len(s) /\ 1 \in 1..t
    BY <1>1, <2>1
  <2>3. p \in Seq(Chars) /\ Len(p) = t /\ \A i \in 1..t : p[i] = s[i]
    BY <2>2, Beginning
  <2>4. \A m \in 0..t : Upto(p, m) = Upto(s, m) /\ Bytes(Upto(s, m)) <= Bytes(p)
    BY <2>2, Beginning
  <2> HIDE DEF p
  <2>5. PICK m \in 1..Len(p) + 1 : \E n \in m - 1..Len(p) :
          /\ Strip(p) = SubSeq(p, m, n)
          /\ \A i \in 1..Len(p) : i < m \/ i > n => p[i] \in Space
          /\ m <= n => p[m] \notin Space /\ p[n] \notin Space
    BY <2>3, Stripped
  <2>6. PICK n \in m - 1..Len(p) :
          /\ Strip(p) = SubSeq(p, m, n)
          /\ \A i \in 1..Len(p) : i < m \/ i > n => p[i] \in Space
          /\ m <= n => p[m] \notin Space /\ p[n] \notin Space
    BY <2>5
  <2>7. p[1] \notin Space
    BY <2>2, <2>3 DEF Trimmed
  <2>8. m = 1 /\ n \in 1..t
    BY <2>2, <2>3, <2>6, <2>7
  <2>9. Strip(p) # << >>
    BY <2>2, <2>3, <2>7, NotBlank
  <2>10. PieceOf(s, limit) = Upto(s, n)
    <3>1. PieceOf(s, limit) = Strip(p)
      BY <1>3, <2>9 DEF PieceOf, p, t
    <3>2. Strip(p) = Upto(p, n) /\ n \in 0..t
      BY <2>6, <2>8, <2>2 DEF Upto
    <3> QED BY <2>4, <3>1, <3>2
  <2>11. PICK k \in t..Len(s) :
           /\ LStrip(From(s, t)) = From(s, k)
           /\ \A i \in t + 1..k : s[i] \in Space
           /\ k < Len(s) => s[k + 1] \notin Space
    BY <2>2, Ending
  <2>12. RestOf(s, limit) = From(s, k)
    BY <1>3, <2>11 DEF RestOf, t
  <2>13. n \in 1..Len(s) /\ k \in n..Len(s) /\ n \in 0..t
    BY <1>1, <2>1, <2>8
  <2>14. s[n] \notin Space
    BY <2>3, <2>6, <2>8
  <2>15. \A i \in n + 1..k : s[i] \in Space
    <3> SUFFICES ASSUME NEW i \in n + 1..k PROVE s[i] \in Space
      OBVIOUS
    <3>1. i \in t + 1..k \/ (i \in 1..t /\ i > n)
      BY <1>1, <2>1, <2>13
    <3> QED BY <2>3, <2>6, <2>11, <3>1
  <2>16. Bytes(Upto(s, n)) <= limit
    <3>1. Bytes(Upto(s, n)) <= Bytes(p) /\ Bytes(p) \in Nat /\ Bytes(Upto(s, n)) \in Nat
      <4>1. Upto(s, n) \in Seq(Chars)
        BY <2>13, Beginning, <1>1
      <4> QED BY <2>3, <2>4, <2>13, <4>1, BytesIsNat
    <3> QED BY <1>1, <2>1, <3>1 DEF p
  <2>17. k # Len(s)
    <3> SUFFICES ASSUME k = Len(s) PROVE FALSE
      OBVIOUS
    <3>1. t = Len(s)
      <4> SUFFICES ASSUME t # Len(s) PROVE FALSE
        OBVIOUS
      <4>1. Len(s) \in t + 1..k
        BY <1>1, <2>1
      <4> QED BY <2>11, <4>1 DEF Trimmed
    <3>2. p = s
      BY <3>1, WholeAndNothing DEF p
    <3> QED BY <1>3, <2>1, <3>2 DEF p
  <2>18. ASSUME k = n, k < Len(s) PROVE \A j \in 1..n : s[j] # Blank
    <3>1. t = n /\ t < Len(s) /\ s[t + 1] \notin Space /\ s[t] \notin Space
      BY <1>1, <2>1, <2>8, <2>11, <2>14, <2>18
    <3>2. s[1] \notin Space
      BY DEF Trimmed
    <3>3. \A j \in 1..t : s[j] # Blank
      BY <3>1, <3>2, TakenBreaks DEF t
    <3> QED BY <3>1, <3>3
  <2> QED BY <1>3, <2>10, <2>11, <2>12, <2>13, <2>14, <2>15, <2>16, <2>17, <2>18
<1> QED BY <1>2, <1>3

(* A strip at the end leaves a beginning.                                   *)
LEMMA RStripBegins ==
  ASSUME NEW s \in Seq(Chars), NEW n \in 0..Len(s), NEW drop
  PROVE  \E k \in 0..n : RStrip(Upto(s, n), drop) = Upto(s, k)
<1>1. Upto(s, n) \in Seq(Chars) /\ Len(Upto(s, n)) = n
  BY Beginning
<1>2. PICK k \in 0..n : RStrip(Upto(s, n), drop) = Upto(Upto(s, n), k)
  BY <1>1, RStripped DEF Upto
<1> QED BY <1>2, Beginning

LEMMA Tail80Begins ==
  ASSUME NEW piece \in Seq(Chars), Len(piece) > 0, NEW limit, Room(limit)
  PROVE  \E n \in 0..Len(piece) : Tail80(piece, limit) = Upto(piece, n) /\ Bytes(Upto(piece, n)) <= limit
<1> DEFINE whole == IF Bytes(piece) <= limit THEN piece ELSE Upto(piece, HardCut(piece, limit))
           tail == RStrip(whole, Space)
           boundary == RFind(tail, <<" ">>)
<1>1. Len(piece) \in Nat /\ limit \in Nat /\ Len(piece) \in 0..Len(piece)
  BY LenProperties DEF Room
<1>2. PICK m \in 0..Len(piece) : whole = Upto(piece, m) /\ Bytes(Upto(piece, m)) <= limit
  <2>1. CASE Bytes(piece) <= limit
    BY <1>1, <2>1, WholeAndNothing
  <2>2. CASE ~(Bytes(piece) <= limit)
    <3>1. /\ HardCut(piece, limit) \in 0..Len(piece)
          /\ Bytes(Upto(piece, HardCut(piece, limit))) <= limit
      BY <1>1, HardCutFits
    <3> QED BY <2>2, <3>1
  <2> QED BY <2>1, <2>2
<1> HIDE DEF whole
<1>3. PICK k \in 0..m : tail = Upto(piece, k)
  BY <1>2, RStripBegins
<1> HIDE DEF tail
<1>4. k \in 0..Len(piece)
  BY <1>1
<1>5. Upto(piece, k) \in Seq(Chars) /\ Len(Upto(piece, k)) = k
  BY <1>4, Beginning
<1>6. boundary \in 0..k
  <2>1. Len(<<" ">>) \in Nat
    OBVIOUS
  <2> QED BY <1>3, <1>5, <2>1, FoundInside
<1> HIDE DEF boundary
<1>7. PICK n \in 0..k : Tail80(piece, limit) = Upto(piece, n)
  <2>1. Tail80(piece, limit) \in {tail, Upto(tail, boundary)}
    BY DEF Tail80, tail, boundary, whole
  <2>2. Upto(tail, boundary) = Upto(piece, boundary)
    BY <1>3, <1>4, <1>6, Beginning
  <2>3. k \in 0..k
    BY <1>4
  <2> QED BY <1>3, <1>6, <2>1, <2>2, <2>3
<1>8. n \in 0..m /\ n \in 0..Len(piece)
  BY <1>1
<1>9. Bytes(Upto(piece, n)) <= Bytes(Upto(piece, m))
  BY <1>8, Beginning
<1>10. Upto(piece, n) \in Seq(Chars) /\ Upto(piece, m) \in Seq(Chars)
  BY <1>8, Beginning
<1>11. Bytes(Upto(piece, n)) \in Nat /\ Bytes(Upto(piece, m)) \in Nat
  BY <1>10, BytesIsNat
<1> QED BY <1>1, <1>2, <1>7, <1>8, <1>9, <1>11

LEMMA TruncatedFits ==
  ASSUME NEW piece \in Seq(Chars), Len(piece) > 0,
         NEW capacity \in Nat, Room(capacity - Dots)
  PROVE  /\ \E n \in 0..Len(piece) : Truncated(piece, capacity) = Upto(piece, n) \o Marker
         /\ Truncated(piece, capacity) \in Seq(Chars)
         /\ Bytes(Truncated(piece, capacity)) <= capacity
         /\ Strip(Truncated(piece, capacity)) # << >>
<1> DEFINE cut == Truncated(piece, capacity)
<1>1. Len(piece) \in Nat /\ capacity - 3 \in Nat /\ Room(capacity - 3)
  BY LenProperties DEF Room, Dots
<1>2. PICK m \in 0..Len(piece) :
        Tail80(piece, capacity - 3) = Upto(piece, m) /\ Bytes(Upto(piece, m)) <= capacity - 3
  BY <1>1, Tail80Begins
<1>3. PICK n \in 0..m : RStrip(Tail80(piece, capacity - 3), {" ", "."}) = Upto(piece, n)
  BY <1>2, RStripBegins
<1>4. n \in 0..Len(piece)
  BY <1>1
<1> DEFINE t == Upto(piece, n)
<1>5. cut = t \o Marker
  BY <1>3 DEF Truncated, Marker, Dots
<1>6. t \in Seq(Chars) /\ Upto(piece, m) \in Seq(Chars) /\ Bytes(t) <= Bytes(Upto(piece, m))
  BY <1>4, Beginning
<1> HIDE DEF cut, t
<1>7. Bytes(t) \in Nat /\ Bytes(Upto(piece, m)) \in Nat
  BY <1>6, BytesIsNat
<1>8. cut \in Seq(Chars) /\ Bytes(cut) <= Bytes(t) + 3 /\ Bytes(cut) \in Nat
  BY <1>5, <1>6, MarkedBytes, BytesIsNat DEF Dots
<1>9. Bytes(cut) <= capacity
  BY <1>1, <1>2, <1>6, <1>7, <1>8
<1>10. Strip(cut) # << >>
  <2>1. Len(t) \in Nat
    BY <1>6, LenProperties
  <2>2. /\ Len(cut) = Len(t) + Len(Marker)
        /\ \A i \in 1..Len(t) + Len(Marker) : cut[i] = IF i <= Len(t) THEN t[i] ELSE Marker[i - Len(t)]
    BY <1>5, <1>6, MarkerIsText, ConcatProperties
  <2>3. Len(t) + 1 \in 1..Len(cut) /\ cut[Len(t) + 1] = "."
    BY <2>1, <2>2, MarkerIsText
  <2>4. "." \notin Space
    BY DEF Space
  <2> QED BY <1>8, <2>3, <2>4, NotBlank
<1> QED BY <1>4, <1>5, <1>8, <1>9, <1>10 DEF cut, t

LEMMA EndingOf ==
  ASSUME NEW s \in Seq(Chars), NEW k \in 0..Len(s)
  PROVE  /\ From(s, k) \in Seq(Chars) /\ Len(From(s, k)) = Len(s) - k
         /\ \A i \in 1..Len(s) - k : From(s, k)[i] = s[k + i]
<1>1. Len(s) \in Nat
  BY LenProperties
<1>2. k + 1 \in 1..Len(s) + 1 /\ Len(s) \in (k + 1) - 1..Len(s)
  BY <1>1
<1> DEFINE t == SubSeq(s, k + 1, Len(s))
<1>3. /\ t \in Seq(Chars) /\ Len(t) = Len(s) - (k + 1) + 1
      /\ \A i \in 1..Len(s) - (k + 1) + 1 : t[i] = s[(k + 1) + i - 1]
  BY <1>2, Slice
<1>4. From(s, k) = t
  BY DEF From
<1> HIDE DEF t
<1> QED BY <1>1, <1>3, <1>4

(* What the invariants need of one piece.                                   *)
LEMMA Took ==
  ASSUME NEW s \in Seq(Chars), Len(s) > 0, Trimmed(s), NEW limit, Room(limit)
  PROVE  /\ PieceOf(s, limit) \in Seq(Chars) /\ Strip(PieceOf(s, limit)) # << >>
         /\ Bytes(PieceOf(s, limit)) <= limit
         /\ RestOf(s, limit) \in Seq(Chars) /\ Trimmed(RestOf(s, limit))
         /\ Len(RestOf(s, limit)) = 0 <=> Bytes(s) <= limit
<1>1. Len(s) \in Nat
  BY LenProperties
<1>2. PICK n \in 1..Len(s) : \E k \in n..Len(s) :
        /\ PieceOf(s, limit) = Upto(s, n) /\ s[n] \notin Space
        /\ RestOf(s, limit) = From(s, k)
        /\ k < Len(s) => s[k + 1] \notin Space
        /\ k = Len(s) <=> Bytes(s) <= limit
        /\ Bytes(Upto(s, n)) <= limit
  BY PieceAndRest
<1>3. PICK k \in n..Len(s) :
        /\ RestOf(s, limit) = From(s, k)
        /\ k < Len(s) => s[k + 1] \notin Space
        /\ k = Len(s) <=> Bytes(s) <= limit
  BY <1>2
<1>4. n \in 0..Len(s) /\ k \in 0..Len(s) /\ n \in 1..n
  BY <1>1
<1>5. Upto(s, n) \in Seq(Chars) /\ Len(Upto(s, n)) = n /\ Upto(s, n)[n] = s[n]
  BY <1>4, Beginning
<1>6. Strip(Upto(s, n)) # << >>
  BY <1>2, <1>4, <1>5, NotBlank
<1>7. /\ From(s, k) \in Seq(Chars) /\ Len(From(s, k)) = Len(s) - k
      /\ \A i \in 1..Len(s) - k : From(s, k)[i] = s[k + i]
  BY <1>4, EndingOf
<1>8. Trimmed(From(s, k))
  <2> SUFFICES ASSUME Len(s) - k > 0
               PROVE  From(s, k)[1] \notin Space /\ From(s, k)[Len(s) - k] \notin Space
    BY <1>7 DEF Trimmed
  <2>1. From(s, k)[1] = s[k + 1] /\ k < Len(s)
    BY <1>1, <1>4, <1>7
  <2>2. Len(s) - k \in 1..Len(s) - k /\ k + (Len(s) - k) = Len(s)
    BY <1>1, <1>4
  <2>3. From(s, k)[Len(s) - k] = s[Len(s)]
    BY <1>7, <2>2
  <2> QED BY <1>3, <2>1, <2>3 DEF Trimmed
<1>9. Len(From(s, k)) = 0 <=> k = Len(s)
  BY <1>1, <1>4, <1>7
<1> QED BY <1>2, <1>3, <1>5, <1>6, <1>7, <1>8, <1>9

-----------------------------------------------------------------------------
(* The loops.                                                               *)

LEMMA CapacityRoom ==
  ASSUME NEW t \in 1..MaxChunks, NEW i \in 1..t
  PROVE  /\ Capacity(i, t) \in Nat /\ Room(Capacity(i, t)) /\ Room(Capacity(i, t) - Dots)
         /\ Prefix(i, t) \in Nat /\ Prefix(i, t) + Capacity(i, t) = MaxBytes
<1>1. Prefix(i, t) \in Nat
  BY DEF Prefix, Digits
<1>2. Capacity(i, t) \in Int /\ Prefix(i, t) + Capacity(i, t) = MaxBytes
  BY <1>1, RoomAssumption DEF Capacity
<1>3. \A c \in Chars : Capacity(i, t) >= 3 + Width[c] /\ Width[c] \in 1..4
  BY RoomAssumption, WidthAssumption DEF Chars, Dots
<1>4. "." \in Chars
  BY WidthAssumption DEF Chars
<1>5. Capacity(i, t) >= 4
  BY <1>2, <1>3, <1>4
<1> QED BY <1>1, <1>2, <1>3, <1>5 DEF Room, Dots

(* What the variables hold.                                                 *)
TypeOK ==
  /\ text \in Seq(Chars) /\ Trimmed(text)
  /\ total \in 1..MaxChunks
  /\ pieces \in Seq(Seq(Chars))
  /\ rest \in Seq(Chars) /\ Trimmed(rest)
  /\ pc \in {"split", "whole", "cut", "blank"}

(* Every piece fits beside its prefix as soon as it is taken.               *)
Written ==
  /\ Len(pieces) <= total
  /\ \A i \in 1..Len(pieces) : Prefix(i, total) + Bytes(pieces[i]) <= MaxBytes /\ Strip(pieces[i]) # << >>
  /\ pc = "cut" => Len(pieces) = total
  /\ pc = "whole" => Len(rest) = 0
  /\ pc # "blank" => Len(text) > 0

(* r is what was left of the answer s after each of n pieces, of t.         *)
Chain(r, s, n, t) ==
  /\ r \in [0..n -> Seq(Chars)] /\ r[0] = s
  /\ \A k \in 1..n : Len(r[k - 1]) > 0 /\ r[k] = RestOf(r[k - 1], Capacity(k, t))

(* The rest is what these pieces leave, and with one part less the text did *)
(* not end: what has been tried cannot succeed later.                       *)
Tried ==
  /\ \E r : Chain(r, text, Len(pieces), total) /\ r[Len(pieces)] = rest
  /\ total > 1 => \E r : Chain(r, text, total - 1, total - 1) /\ Len(r[total - 1]) > 0

IInv == TypeOK /\ Written /\ Tried

LEMMA InitIInv == Init => IInv
<1> SUFFICES ASSUME Init PROVE IInv
  OBVIOUS
<1>1. PICK answer \in Texts : text = Strip(answer)
  BY DEF Init
<1>2. answer \in Seq(Chars)
  BY TextAssumption DEF Chars
<1>3. text \in Seq(Chars) /\ Trimmed(text)
  BY <1>1, <1>2, StrippedIsTrimmed
<1>4. pieces = << >> /\ Len(pieces) = 0 /\ rest = text /\ total = 1 /\ pc \in {"split", "blank"}
  BY DEF Init
<1>5. TypeOK
  <2>1. << >> \in Seq(Seq(Chars))
    BY EmptySeq
  <2> QED BY <1>3, <1>4, <2>1, RoomAssumption DEF TypeOK
<1>6. Written
  <2>1. pc # "blank" => Len(text) > 0
    BY <1>3, EmptySeq DEF Init
  <2> QED BY <1>4, <2>1 DEF Written
<1>7. Tried
  <2> DEFINE r == [k \in 0..0 |-> text]
  <2>1. Chain(r, text, 0, 1) /\ r[0] = text
    BY <1>3 DEF Chain
  <2> HIDE DEF r
  <2> QED BY <1>4, <2>1 DEF Tried
<1> QED BY <1>5, <1>6, <1>7 DEF IInv

LEMMA TakePieceIInv == IInv /\ TakePiece => IInv'
<1> SUFFICES ASSUME IInv, TakePiece PROVE IInv'
  OBVIOUS
<1> DEFINE n == Len(pieces)
           capacity == Capacity(n + 1, total)
           piece == PieceOf(rest, capacity)
           left == RestOf(rest, capacity)
<1>1. /\ TypeOK /\ Written /\ Tried
      /\ pc = "split" /\ rest # << >> /\ n < total
      /\ pieces' = Append(pieces, piece) /\ rest' = left
      /\ text' = text /\ total' = total /\ pc' = pc
  BY DEF IInv, TakePiece
<1>2. /\ n \in Nat /\ total \in 1..MaxChunks /\ total \in Nat /\ n + 1 \in 1..total
      /\ rest \in Seq(Chars) /\ Len(rest) > 0 /\ Trimmed(rest) /\ pieces \in Seq(Seq(Chars))
      /\ text \in Seq(Chars) /\ Trimmed(text)
  <2>1. n \in Nat /\ Len(rest) \in Nat /\ total \in 1..MaxChunks /\ MaxChunks \in Nat
    BY <1>1, LenProperties, RoomAssumption DEF TypeOK
  <2>2. Len(rest) > 0
    BY <1>1, <2>1, EmptySeq DEF TypeOK
  <2> QED BY <1>1, <2>1, <2>2 DEF TypeOK
<1>3. /\ capacity \in Nat /\ Room(capacity) /\ Prefix(n + 1, total) \in Nat
      /\ Prefix(n + 1, total) + capacity = MaxBytes
  BY <1>2, CapacityRoom
<1> HIDE DEF capacity
<1>4. /\ piece \in Seq(Chars) /\ Strip(piece) # << >> /\ Bytes(piece) <= capacity
      /\ left \in Seq(Chars) /\ Trimmed(left)
  BY <1>2, <1>3, Took
<1> HIDE DEF piece
<1>5. /\ pieces' \in Seq(Seq(Chars)) /\ Len(pieces') = n + 1
      /\ \A i \in 1..n : pieces'[i] = pieces[i]
      /\ pieces'[n + 1] = piece
  BY <1>1, <1>2, <1>4, AppendProperties
<1>6. TypeOK'
  BY <1>1, <1>2, <1>4, <1>5 DEF TypeOK, Trimmed
<1>7. Written'
  <2>1. ASSUME NEW i \in 1..n + 1
        PROVE  Prefix(i, total) + Bytes(pieces'[i]) <= MaxBytes /\ Strip(pieces'[i]) # << >>
    <3>1. CASE i \in 1..n
      BY <1>1, <1>5, <3>1 DEF Written
    <3>2. CASE i = n + 1
      <4>1. Bytes(piece) \in Nat
        BY <1>4, BytesIsNat
      <4>2. Prefix(n + 1, total) + Bytes(piece) <= MaxBytes
        BY <1>3, <1>4, <4>1
      <4> QED BY <1>4, <1>5, <3>2, <4>2
    <3> QED BY <1>2, <3>1, <3>2
  <2>2. n + 1 <= total
    BY <1>2
  <2> QED BY <1>1, <1>5, <2>1, <2>2 DEF Written
<1>8. Tried'
  <2>1. PICK r : Chain(r, text, n, total) /\ r[n] = rest
    BY <1>1 DEF Tried
  <2>2. PICK q \in [0..n + 1 -> Seq(Chars)] : q[n + 1] = left /\ \A k \in 0..n : q[k] = r[k]
    <3> DEFINE f == [k \in 0..n + 1 |-> IF k = n + 1 THEN left ELSE r[k]]
    <3> HIDE DEF left
    <3>1. f \in [0..n + 1 -> Seq(Chars)] /\ f[n + 1] = left /\ \A k \in 0..n : f[k] = r[k]
      BY <1>2, <1>4, <2>1 DEF Chain
    <3> HIDE DEF f
    <3> QED BY <3>1
  <2> HIDE DEF left
  <2>3. Chain(q, text, n + 1, total)
    <3>1. q[0] = text
      BY <1>2, <2>1, <2>2 DEF Chain
    <3>2. ASSUME NEW k \in 1..n + 1
          PROVE  Len(q[k - 1]) > 0 /\ q[k] = RestOf(q[k - 1], Capacity(k, total))
      <4>1. CASE k \in 1..n
        <5>1. k \in 0..n /\ k - 1 \in 0..n
          BY <1>2, <4>1
        <5>2. q[k] = r[k] /\ q[k - 1] = r[k - 1]
          BY <2>2, <5>1
        <5> QED BY <2>1, <4>1, <5>2 DEF Chain
      <4>2. CASE k = n + 1
        <5>1. k - 1 = n /\ n \in 0..n
          BY <1>2, <4>2
        <5>2. q[k - 1] = rest
          BY <2>1, <2>2, <5>1
        <5> QED BY <1>2, <2>2, <4>2, <5>2 DEF left, capacity
      <4> QED BY <1>2, <4>1, <4>2
    <3> QED BY <2>2, <3>1, <3>2 DEF Chain
  <2>4. \E p : Chain(p, text', Len(pieces'), total') /\ p[Len(pieces')] = rest'
    BY <1>1, <1>5, <2>2, <2>3
  <2>5. total' > 1 => \E p : Chain(p, text', total' - 1, total' - 1) /\ Len(p[total' - 1]) > 0
    BY <1>1 DEF Tried
  <2> QED BY <2>4, <2>5 DEF Tried
<1> QED BY <1>6, <1>7, <1>8 DEF IInv

LEMMA WholeIInv == IInv /\ Whole => IInv'
<1> SUFFICES ASSUME IInv, Whole PROVE IInv'
  OBVIOUS
<1>1. pc = "split" /\ rest = << >> /\ pc' = "whole" /\ UNCHANGED <<text, total, pieces, rest>>
  BY DEF Whole
<1>2. TypeOK'
  BY <1>1 DEF IInv, TypeOK
<1>3. Written'
  BY <1>1 DEF IInv, Written
<1>4. Tried'
  BY <1>1 DEF IInv, Tried
<1> QED BY <1>2, <1>3, <1>4 DEF IInv

LEMMA NextTotalIInv == IInv /\ NextTotal => IInv'
<1> SUFFICES ASSUME IInv, NextTotal PROVE IInv'
  OBVIOUS
<1>1. /\ TypeOK /\ Written /\ Tried
      /\ pc = "split" /\ rest # << >> /\ Len(pieces) = total /\ total < MaxChunks
      /\ total' = total + 1 /\ pieces' = << >> /\ rest' = text /\ UNCHANGED <<text, pc>>
  BY DEF IInv, NextTotal, Exhausted
<1>2. total \in Nat /\ total >= 1 /\ total + 1 \in 1..MaxChunks /\ Len(rest) > 0
  BY <1>1, RoomAssumption, LenProperties, EmptySeq DEF TypeOK
<1>3. TypeOK'
  <2>1. << >> \in Seq(Seq(Chars))
    BY EmptySeq
  <2> QED BY <1>1, <1>2, <2>1 DEF TypeOK, Trimmed
<1>4. Written'
  BY <1>1, <1>2 DEF Written
<1>5. Tried'
  <2>1. PICK q : Chain(q, text, total, total) /\ q[total] = rest
    BY <1>1 DEF Tried
  <2>2. total' - 1 = total /\ Len(q[total]) > 0
    BY <1>1, <1>2, <2>1
  <2>3. PICK r \in [0..0 -> Seq(Chars)] : r[0] = text
    <3> DEFINE f == [k \in 0..0 |-> text]
    <3>1. f \in [0..0 -> Seq(Chars)] /\ f[0] = text
      BY <1>1 DEF TypeOK
    <3> HIDE DEF f
    <3> QED BY <3>1
  <2>4. Chain(r, text', 0, total') /\ r[0] = rest' /\ Len(pieces') = 0
    BY <1>1, <2>3 DEF Chain
  <2> QED BY <1>1, <2>1, <2>2, <2>4 DEF Tried
<1> QED BY <1>3, <1>4, <1>5 DEF IInv

LEMMA TruncateIInv == IInv /\ Truncate => IInv'
<1> SUFFICES ASSUME IInv, Truncate PROVE IInv'
  OBVIOUS
<1> DEFINE cut == Truncated(pieces[total], Capacity(total, total))
<1>1. /\ TypeOK /\ Written /\ Tried
      /\ pc = "split" /\ Len(pieces) = total
      /\ pieces' = [pieces EXCEPT ![total] = cut]
      /\ pc' = "cut" /\ UNCHANGED <<text, total, rest>>
  BY DEF IInv, Truncate, Exhausted
<1>2. total \in 1..MaxChunks /\ total \in 1..total /\ pieces \in Seq(Seq(Chars))
  BY <1>1, RoomAssumption DEF TypeOK
<1>3. pieces[total] \in Seq(Chars) /\ Len(pieces[total]) > 0
  <2>1. pieces[total] \in Seq(Chars)
    BY <1>1, <1>2, ElementOfSeq
  <2>2. Strip(pieces[total]) # << >>
    BY <1>1, <1>2 DEF Written
  <2>3. ASSUME ~(Len(pieces[total]) > 0) PROVE FALSE
    <3>1. Len(pieces[total]) = 0
      BY <2>1, <2>3, LenProperties
    <3>2. PICK m \in 1..0 + 1 : \E n \in m - 1..0 : Strip(pieces[total]) = SubSeq(pieces[total], m, n)
      BY <2>1, <3>1, Stripped
    <3>3. PICK n \in m - 1..0 : Strip(pieces[total]) = SubSeq(pieces[total], m, n)
      BY <3>2
    <3>4. m \in Int /\ n \in Int /\ n < m
      OBVIOUS
    <3> QED BY <2>2, <3>3, <3>4, SubSeqEmpty
  <2> QED BY <2>1, <2>3
<1>4. /\ Capacity(total, total) \in Nat /\ Room(Capacity(total, total) - Dots)
      /\ Prefix(total, total) \in Nat /\ Prefix(total, total) + Capacity(total, total) = MaxBytes
  BY <1>2, CapacityRoom
<1>5. /\ cut \in Seq(Chars) /\ Bytes(cut) <= Capacity(total, total) /\ Strip(cut) # << >>
  BY <1>3, <1>4, TruncatedFits
<1> HIDE DEF cut
<1>6. /\ pieces' \in Seq(Seq(Chars)) /\ Len(pieces') = total
      /\ \A i \in 1..total : pieces'[i] = IF i = total THEN cut ELSE pieces[i]
  BY <1>1, <1>2, <1>5, ExceptSeq
<1>7. TypeOK'
  BY <1>1, <1>6 DEF TypeOK
<1>8. Written'
  <2>1. Prefix(total, total) + Bytes(cut) <= MaxBytes
    <3>1. Bytes(cut) \in Nat
      BY <1>5, BytesIsNat
    <3> QED BY <1>4, <1>5, <3>1
  <2>2. \A i \in 1..total : Prefix(i, total) + Bytes(pieces'[i]) <= MaxBytes /\ Strip(pieces'[i]) # << >>
    BY <1>1, <1>5, <1>6, <2>1 DEF Written
  <2>3. total <= total
    BY <1>2
  <2> QED BY <1>1, <1>6, <2>2, <2>3 DEF Written
<1>9. Tried'
  BY <1>1, <1>6 DEF Tried
<1> QED BY <1>7, <1>8, <1>9 DEF IInv

LEMMA NextIInv == IInv /\ [Next]_vars => IInv'
<1> SUFFICES ASSUME IInv, [Next]_vars PROVE IInv'
  OBVIOUS
<1>1. ASSUME UNCHANGED vars PROVE IInv'
  BY <1>1 DEF vars, IInv, TypeOK, Written, Tried
<1>2. CASE Returned
  BY <1>1, <1>2 DEF Returned
<1> QED BY <1>1, <1>2, TakePieceIInv, WholeIInv, NextTotalIInv, TruncateIInv DEF Next

-----------------------------------------------------------------------------
(* What the variables hold, what has been written and what has been tried,  *)
(* in every state of split_for_meshcore.                                    *)
THEOREM SplitInvariant == Spec => []IInv
<1> QED BY InitIInv, NextIInv, PTL DEF Spec

(* No chunk is longer than a packet, its prefix, its wide characters and    *)
(* the marker counted, and there are never more chunks than allowed.        *)
THEOREM FitsCorrect == Spec => []Fits
<1>1. IInv => Fits
  <2> SUFFICES ASSUME IInv PROVE Fits
    OBVIOUS
  <2>1. TypeOK /\ Written
    BY DEF IInv
  <2>2. Len(pieces) \in Nat /\ DOMAIN pieces = 1..Len(pieces)
    BY <2>1, LenProperties DEF TypeOK
  <2>3. Len(pieces) <= MaxChunks
    <3>1. Len(pieces) <= total /\ total \in 1..MaxChunks /\ MaxChunks \in Nat
      BY <2>1, RoomAssumption DEF TypeOK, Written
    <3> QED BY <2>2, <3>1
  <2> QED BY <2>1, <2>2, <2>3 DEF Fits, Written
<1> QED BY <1>1, SplitInvariant, PTL

(* While one part more leaves the capacities alone the pieces are those of  *)
(* the try before, and the text that was left then is left again.           *)
LEMMA SameStart ==
  ASSUME NEW q, NEW r, NEW n \in Nat, NEW m \in 0..n, NEW t, NEW u, NEW s,
         Chain(q, s, n, t), Chain(r, s, m, u),
         \A k \in 1..n : Capacity(k, t) = Capacity(k, u)
  PROVE  \A k \in 0..m : q[k] = r[k]
<1> SUFFICES ASSUME {k \in 0..m : q[k] # r[k]} # {} PROVE FALSE
  OBVIOUS
<1> DEFINE S == {k \in 0..m : q[k] # r[k]}
<1>1. S \in SUBSET Nat /\ S # {}
  OBVIOUS
<1>2. PICK least \in S : \A k \in S : least <= k
  BY <1>1, LeastNumber
<1>3. least \in 0..m /\ q[least] # r[least] /\ least # 0
  BY DEF Chain
<1>4. least \in 1..m /\ least \in 1..n /\ least - 1 \in 0..m /\ ~(least <= least - 1)
  BY <1>3
<1>5. q[least - 1] = r[least - 1]
  BY <1>2, <1>4
<1>6. q[least] = RestOf(q[least - 1], Capacity(least, t)) /\ r[least] = RestOf(r[least - 1], Capacity(least, u))
  BY <1>4 DEF Chain
<1> QED BY <1>3, <1>4, <1>5, <1>6

(* The numbers in the prefixes are the number of parts that are sent, save  *)
(* where the number of digits has just grown; there are never more parts    *)
(* than they say, and none is blank.                                        *)
THEOREM PartsAgreeCorrect == Spec => []PartsAgree
<1>1. IInv => PartsAgree
  <2> SUFFICES ASSUME IInv PROVE PartsAgree
    OBVIOUS
  <2>1. TypeOK /\ Written /\ Tried
    BY DEF IInv
  <2>2. /\ Len(pieces) \in Nat /\ DOMAIN pieces = 1..Len(pieces)
        /\ total \in Nat /\ total >= 1 /\ total \in 1..MaxChunks /\ Len(pieces) <= total
    BY <2>1, LenProperties, RoomAssumption DEF TypeOK, Written
  <2>3. ASSUME pc = "whole", total <= 2 \/ Digits(total) = Digits(total - 1), Len(pieces) # total
        PROVE  FALSE
    <3>1. PICK r : Chain(r, text, Len(pieces), total) /\ r[Len(pieces)] = rest
      BY <2>1 DEF Tried
    <3>2. Len(rest) = 0 /\ Len(text) > 0
      BY <2>1, <2>3 DEF Written
    <3>3. Len(pieces) \in 0..total - 1 /\ Len(pieces) # 0
      <4>1. Len(pieces) # 0
        BY <3>1, <3>2 DEF Chain
      <4>2. Len(pieces) \in Nat /\ total \in Nat /\ Len(pieces) <= total /\ Len(pieces) # total
        BY <2>2, <2>3
      <4>3. Len(pieces) \in 0..total - 1
        BY <4>2
      <4> QED BY <4>1, <4>3
    <3>4. total > 1
      BY <2>2, <3>3
    <3>5. PICK q : Chain(q, text, total - 1, total - 1) /\ Len(q[total - 1]) > 0
      BY <2>1, <3>4 DEF Tried
    <3>6. CASE total = 2
      <4>1. Len(pieces) = 1 /\ 1 \in 1..1
        BY <3>3, <3>6
      <4>2. /\ r[0] = text /\ r[1] = RestOf(r[0], Capacity(1, 2)) /\ r[1] = rest
            /\ q[0] = text /\ q[1] = RestOf(q[0], Capacity(1, 1)) /\ Len(q[1]) > 0
        BY <3>1, <3>5, <3>6, <4>1 DEF Chain
      <4>3. 1 \in 1..MaxChunks /\ 2 \in 1..MaxChunks /\ 1 \in 1..2
        BY <2>2, <3>6, RoomAssumption
      <4>4. Room(Capacity(1, 1)) /\ Room(Capacity(1, 2))
        BY <4>1, <4>3, CapacityRoom
      <4>5. Bytes(text) <= Capacity(1, 2) /\ ~(Bytes(text) <= Capacity(1, 1))
        BY <2>1, <3>2, <4>2, <4>4, Took DEF TypeOK
      <4>6. Capacity(1, 2) <= Capacity(1, 1) /\ Bytes(text) \in Nat
        BY <2>1, BytesIsNat, RoomAssumption DEF TypeOK, Capacity, Prefix, Digits
      <4> QED BY <4>4, <4>5, <4>6 DEF Room
    <3>7. CASE total # 2
      <4>1. total - 1 # 1 /\ total # 1 /\ total - 1 \in Nat /\ ~(total <= 2)
        BY <2>2, <3>4, <3>7
      <4>2. \A k \in 1..total - 1 : Capacity(k, total - 1) = Capacity(k, total)
        BY <2>3, <4>1 DEF Capacity, Prefix
      <4>3. Len(pieces) \in 0..total - 1 /\ Len(pieces) \in 0..Len(pieces)
        BY <2>2, <3>3
      <4>4. q[Len(pieces)] = r[Len(pieces)]
        BY <3>1, <3>5, <4>1, <4>2, <4>3, SameStart
      <4>5. Len(q[Len(pieces)]) > 0
        <5>1. CASE Len(pieces) = total - 1
          BY <3>5, <5>1
        <5>2. CASE Len(pieces) # total - 1
          <6>1. Len(pieces) + 1 \in 1..total - 1 /\ (Len(pieces) + 1) - 1 = Len(pieces)
            BY <2>2, <4>3, <5>2
          <6>2. Len(q[(Len(pieces) + 1) - 1]) > 0
            BY <3>5, <6>1 DEF Chain
          <6> QED BY <6>1, <6>2
        <5> QED BY <5>1, <5>2
      <4> QED BY <3>1, <3>2, <4>4, <4>5
    <3> QED BY <3>6, <3>7
  <2> QED BY <2>1, <2>2, <2>3 DEF PartsAgree, Written, Done
<1> QED BY <1>1, SplitInvariant, PTL

-----------------------------------------------------------------------------
(* Where the pieces lie in the answer.                                      *)

LEMMA Within ==
  ASSUME NEW s \in Seq(Chars), NEW p \in 0..Len(s)
  PROVE  /\ \A n \in 0..Len(s) - p : Upto(From(s, p), n) = SubSeq(s, p + 1, p + n)
         /\ \A n \in 0..Len(s) - p : From(From(s, p), n) = From(s, p + n)
<1>1. Len(s) \in Nat
  BY LenProperties
<1>2. /\ From(s, p) \in Seq(Chars) /\ Len(From(s, p)) = Len(s) - p
      /\ \A i \in 1..Len(s) - p : From(s, p)[i] = s[p + i]
  BY EndingOf
<1>3. ASSUME NEW n \in 0..Len(s) - p
      PROVE  Upto(From(s, p), n) = SubSeq(s, p + 1, p + n)
  <2> DEFINE u == Upto(From(s, p), n)
             v == SubSeq(s, p + 1, p + n)
  <2>1. u \in Seq(Chars) /\ Len(u) = n /\ \A i \in 1..n : u[i] = From(s, p)[i]
    BY <1>2, Beginning
  <2>2. p + 1 \in 1..Len(s) + 1 /\ p + n \in (p + 1) - 1..Len(s)
    BY <1>1
  <2>3. /\ v \in Seq(Chars) /\ Len(v) = (p + n) - (p + 1) + 1
        /\ \A i \in 1..(p + n) - (p + 1) + 1 : v[i] = s[(p + 1) + i - 1]
    BY <2>2, Slice
  <2> HIDE DEF u, v
  <2>4. Len(u) = Len(v)
    BY <2>1, <2>3
  <2>5. ASSUME NEW i \in 1..Len(u) PROVE u[i] = v[i]
    <3>1. i \in 1..n /\ i \in 1..Len(s) - p /\ i \in 1..(p + n) - (p + 1) + 1 /\ (p + 1) + i - 1 = p + i
      BY <1>1, <2>1
    <3> QED BY <1>2, <2>1, <2>3, <3>1
  <2>6. u = v
    BY <2>1, <2>3, <2>4, <2>5, SeqEqual
  <2> QED BY <2>6 DEF u, v
<1>4. ASSUME NEW n \in 0..Len(s) - p
      PROVE  From(From(s, p), n) = From(s, p + n)
  <2> DEFINE u == From(From(s, p), n)
             v == From(s, p + n)
  <2>1. u \in Seq(Chars) /\ Len(u) = (Len(s) - p) - n /\ \A i \in 1..(Len(s) - p) - n : u[i] = From(s, p)[n + i]
    BY <1>2, EndingOf
  <2>2. p + n \in 0..Len(s)
    BY <1>1
  <2>3. v \in Seq(Chars) /\ Len(v) = Len(s) - (p + n) /\ \A i \in 1..Len(s) - (p + n) : v[i] = s[(p + n) + i]
    BY <2>2, EndingOf
  <2> HIDE DEF u, v
  <2>4. Len(u) = Len(v)
    BY <1>1, <2>1, <2>3
  <2>5. ASSUME NEW i \in 1..Len(u) PROVE u[i] = v[i]
    <3>1. i \in 1..(Len(s) - p) - n /\ n + i \in 1..Len(s) - p /\ i \in 1..Len(s) - (p + n) /\ p + (n + i) = (p + n) + i
      BY <1>1, <2>1
    <3> QED BY <1>2, <2>1, <2>3, <3>1
  <2>6. u = v
    BY <2>1, <2>3, <2>4, <2>5, SeqEqual
  <2> QED BY <2>6 DEF u, v
<1> QED BY <1>3, <1>4

(* n pieces of s: the one of number i starts where the one before it has    *)
(* left off and reaches to end[i]; up to at[i] there is only space, and if  *)
(* there is none, in the middle of a word, the piece has no blank to break  *)
(* at.                                                                      *)
Places(at, end, s, n, left) ==
  /\ at \in [0..n -> 0..Len(s)] /\ end \in [1..n -> 0..Len(s)]
  /\ at[0] = 0 /\ left = From(s, at[n])
  /\ \A i \in 1..n : /\ at[i - 1] < end[i] /\ end[i] <= at[i]
                     /\ \A j \in end[i] + 1..at[i] : s[j] \in Space
                     /\ end[i] = at[i] /\ at[i] < Len(s) => \A j \in at[i - 1] + 1..end[i] : s[j] # Blank

(* What is written is what lies there; the last piece of an answer that was *)
(* cut short, because there is more of it, is a beginning of what lies      *)
(* there, and the marker.                                                   *)
Lie(at, end, s, parts, left, state, n) ==
  /\ Places(at, end, s, Len(parts), left)
  /\ state = "whole" => at[Len(parts)] = Len(s)
  /\ state = "cut" => at[Len(parts)] < Len(s)
  /\ \A i \in 1..Len(parts) :
       IF state = "cut" /\ i = n
       THEN \E j \in at[i - 1]..end[i] : parts[i] = SubSeq(s, at[i - 1] + 1, j) \o Marker
       ELSE parts[i] = SubSeq(s, at[i - 1] + 1, end[i])
Consecutive == \E at, end : Lie(at, end, text, pieces, rest, pc, total)

LEMMA InitConsecutive == Init => Consecutive
<1> SUFFICES ASSUME Init PROVE Consecutive
  OBVIOUS
<1>1. IInv /\ pieces = << >> /\ Len(pieces) = 0 /\ rest = text /\ pc \in {"split", "blank"}
  BY InitIInv DEF Init
<1>2. text \in Seq(Chars) /\ Len(text) \in Nat
  BY <1>1, LenProperties DEF IInv, TypeOK
<1>3. From(text, 0) = text
  <2>1. 0 + 1 = 1
    OBVIOUS
  <2> QED BY <1>2, <2>1, SubSeqFull DEF From
<1> DEFINE at == [k \in 0..0 |-> 0]
           end == [k \in 1..0 |-> 0]
<1>4. at \in [0..0 -> 0..Len(text)] /\ end \in [1..0 -> 0..Len(text)] /\ at[0] = 0
  BY <1>2
<1> HIDE DEF at, end
<1>5. Places(at, end, text, 0, rest)
  BY <1>1, <1>3, <1>4 DEF Places
<1>6. Lie(at, end, text, pieces, rest, pc, total)
  BY <1>1, <1>5 DEF Lie
<1> QED BY <1>6 DEF Consecutive

LEMMA TakePieceConsecutive == IInv /\ Consecutive /\ TakePiece => Consecutive'
<1> SUFFICES ASSUME IInv, Consecutive, TakePiece PROVE Consecutive'
  OBVIOUS
<1> DEFINE n == Len(pieces)
           capacity == Capacity(n + 1, total)
<1>1. /\ TypeOK /\ Written
      /\ pc = "split" /\ rest # << >> /\ n < total
      /\ pieces' = Append(pieces, PieceOf(rest, capacity)) /\ rest' = RestOf(rest, capacity)
      /\ text' = text /\ total' = total /\ pc' = "split"
  BY DEF IInv, TakePiece
<1>2. /\ n \in Nat /\ total \in 1..MaxChunks /\ n + 1 \in 1..total
      /\ rest \in Seq(Chars) /\ Len(rest) > 0 /\ Trimmed(rest)
      /\ text \in Seq(Chars) /\ Len(text) \in Nat /\ pieces \in Seq(Seq(Chars))
  <2>1. n \in Nat /\ Len(rest) \in Nat /\ total \in 1..MaxChunks /\ MaxChunks \in Nat /\ Len(text) \in Nat
    BY <1>1, LenProperties, RoomAssumption DEF TypeOK
  <2>2. Len(rest) > 0
    BY <1>1, <2>1, EmptySeq DEF TypeOK
  <2> QED BY <1>1, <2>1, <2>2 DEF TypeOK
<1>3. Room(capacity)
  BY <1>2, CapacityRoom
<1> HIDE DEF capacity
<1>4. PICK at, end :
        /\ Places(at, end, text, n, rest)
        /\ \A i \in 1..n : pieces[i] = SubSeq(text, at[i - 1] + 1, end[i])
  BY <1>1 DEF Consecutive, Lie
<1> DEFINE p == at[n]
<1>5. p \in 0..Len(text) /\ rest = From(text, p)
  <2>1. n \in 0..n /\ at \in [0..n -> 0..Len(text)]
    BY <1>2, <1>4 DEF Places
  <2>2. at[n] \in 0..Len(text)
    BY <2>1
  <2> QED BY <1>4, <2>2 DEF Places
<1> HIDE DEF p
<1>6. Len(rest) = Len(text) - p /\ \A i \in 1..Len(text) - p : rest[i] = text[p + i]
  BY <1>2, <1>5, EndingOf
<1>7. PICK m \in 1..Len(rest) : \E k \in m..Len(rest) :
        /\ PieceOf(rest, capacity) = Upto(rest, m)
        /\ RestOf(rest, capacity) = From(rest, k)
        /\ \A i \in m + 1..k : rest[i] \in Space
        /\ k = m /\ k < Len(rest) => \A j \in 1..m : rest[j] # Blank
  BY <1>2, <1>3, PieceAndRest
<1>8. PICK k \in m..Len(rest) :
        /\ RestOf(rest, capacity) = From(rest, k)
        /\ \A i \in m + 1..k : rest[i] \in Space
        /\ k = m /\ k < Len(rest) => \A j \in 1..m : rest[j] # Blank
  BY <1>7
<1>9. /\ m \in 0..Len(text) - p /\ k \in 0..Len(text) - p
      /\ p \in Nat /\ m \in Nat /\ k \in Nat /\ 0 < m /\ m <= k /\ p + k \in 0..Len(text) /\ p + m \in 0..Len(text)
  BY <1>2, <1>5, <1>6
<1>10. PieceOf(rest, capacity) = SubSeq(text, p + 1, p + m) /\ rest' = From(text, p + k)
  BY <1>1, <1>2, <1>5, <1>7, <1>8, <1>9, Within
<1>11. PieceOf(rest, capacity) \in Seq(Chars)
  BY <1>2, <1>3, Took
<1>12. /\ Len(pieces') = n + 1
       /\ \A i \in 1..n : pieces'[i] = pieces[i]
       /\ pieces'[n + 1] = SubSeq(text, p + 1, p + m)
  <2> DEFINE piece == PieceOf(rest, capacity)
  <2>1. pieces' = Append(pieces, piece) /\ piece = SubSeq(text, p + 1, p + m)
    BY <1>1, <1>10
  <2>2. piece \in Seq(Chars) /\ pieces \in Seq(Seq(Chars))
    BY <1>2, <1>11
  <2> HIDE DEF piece
  <2>3. /\ Len(Append(pieces, piece)) = Len(pieces) + 1
        /\ \A i \in 1..Len(pieces) : Append(pieces, piece)[i] = pieces[i]
        /\ Append(pieces, piece)[Len(pieces) + 1] = piece
    BY <2>2, AppendProperties
  <2> QED BY <2>1, <2>3
<1>13. PICK at2 \in [0..n + 1 -> 0..Len(text)] : at2[n + 1] = p + k /\ \A i \in 0..n : at2[i] = at[i]
  <2> DEFINE f == [i \in 0..n + 1 |-> IF i = n + 1 THEN p + k ELSE at[i]]
  <2>1. f \in [0..n + 1 -> 0..Len(text)] /\ f[n + 1] = p + k /\ \A i \in 0..n : f[i] = at[i]
    BY <1>2, <1>4, <1>9 DEF Places
  <2> HIDE DEF f
  <2> QED BY <2>1
<1>14. PICK end2 \in [1..n + 1 -> 0..Len(text)] : end2[n + 1] = p + m /\ \A i \in 1..n : end2[i] = end[i]
  <2> DEFINE f == [i \in 1..n + 1 |-> IF i = n + 1 THEN p + m ELSE end[i]]
  <2>1. \A i \in 1..n : i # n + 1 /\ i \in 1..n + 1 /\ end[i] \in 0..Len(text)
    <3>1. end \in [1..n -> 0..Len(text)]
      BY <1>4 DEF Places
    <3>2. \A i \in 1..n : i # n + 1 /\ i \in 1..n + 1
      BY <1>2
    <3> QED BY <3>1, <3>2
  <2>2. \A i \in 1..n + 1 : i # n + 1 => i \in 1..n
    BY <1>2
  <2>3. \A i \in 1..n + 1 : (IF i = n + 1 THEN p + m ELSE end[i]) \in 0..Len(text)
    BY <1>9, <2>1, <2>2
  <2>4. n + 1 \in 1..n + 1
    BY <1>2
  <2>5. f \in [1..n + 1 -> 0..Len(text)] /\ f[n + 1] = p + m /\ \A i \in 1..n : f[i] = end[i]
    BY <2>1, <2>3, <2>4
  <2> HIDE DEF f
  <2> QED BY <2>5
<1>15. at2[n] = p /\ n \in 0..n /\ (n + 1) - 1 = n
  BY <1>2, <1>13 DEF p
<1>16. ASSUME NEW i \in 1..n + 1
       PROVE  /\ at2[i - 1] < end2[i] /\ end2[i] <= at2[i]
              /\ \A j \in end2[i] + 1..at2[i] : text[j] \in Space
              /\ end2[i] = at2[i] /\ at2[i] < Len(text) => \A j \in at2[i - 1] + 1..end2[i] : text[j] # Blank
              /\ pieces'[i] = SubSeq(text, at2[i - 1] + 1, end2[i])
  <2>1. CASE i \in 1..n
    <3>1. i - 1 \in 0..n /\ i \in 0..n
      BY <1>2, <2>1
    <3>2. at2[i - 1] = at[i - 1] /\ at2[i] = at[i] /\ end2[i] = end[i] /\ pieces'[i] = pieces[i]
      BY <1>12, <1>13, <1>14, <2>1, <3>1
    <3> QED BY <1>4, <2>1, <3>2 DEF Places
  <2>2. CASE i = n + 1
    <3>1. at2[i - 1] = p /\ end2[i] = p + m /\ at2[i] = p + k
      BY <1>13, <1>14, <1>15, <2>2
    <3>2. p < p + m /\ p + m <= p + k
      BY <1>9
    <3>3. ASSUME NEW j \in p + m + 1..p + k PROVE text[j] \in Space
      <4>1. j - p \in m + 1..k /\ j - p \in 1..Len(text) - p /\ p + (j - p) = j
        BY <1>9
      <4> QED BY <1>6, <1>8, <4>1
    <3>4. ASSUME p + m = p + k, p + k < Len(text), NEW j \in p + 1..p + m PROVE text[j] # Blank
      <4>1. k = m /\ k < Len(rest) /\ j - p \in 1..m /\ j - p \in 1..Len(text) - p /\ p + (j - p) = j
        BY <1>2, <1>6, <1>9, <3>4
      <4> QED BY <1>6, <1>8, <4>1
    <3> QED BY <1>12, <2>2, <3>1, <3>2, <3>3, <3>4
  <2> QED BY <1>2, <2>1, <2>2
<1>17. Places(at2, end2, text, n + 1, rest')
  <2>1. at2[0] = 0
    BY <1>2, <1>4, <1>13 DEF Places
  <2> QED BY <1>10, <1>13, <1>14, <1>16, <2>1 DEF Places
<1>18. /\ Places(at2, end2, text', Len(pieces'), rest') /\ pc' = "split"
       /\ \A i \in 1..Len(pieces') : pieces'[i] = SubSeq(text', at2[i - 1] + 1, end2[i])
  BY <1>1, <1>12, <1>16, <1>17
<1>19. Lie(at2, end2, text', pieces', rest', pc', total')
  BY <1>18 DEF Lie
<1> QED BY <1>19 DEF Consecutive

LEMMA WholeConsecutive == IInv /\ Consecutive /\ Whole => Consecutive'
<1> SUFFICES ASSUME IInv, Consecutive, Whole PROVE Consecutive'
  OBVIOUS
<1>1. /\ TypeOK /\ pc = "split" /\ rest = << >> /\ pc' = "whole"
      /\ text' = text /\ total' = total /\ pieces' = pieces /\ rest' = rest
  BY DEF Whole, IInv
<1>2. Len(text) \in Nat /\ text \in Seq(Chars) /\ Len(pieces) \in Nat
  BY <1>1, LenProperties DEF TypeOK
<1>3. PICK at2, end2 :
        /\ Places(at2, end2, text, Len(pieces), rest)
        /\ \A i \in 1..Len(pieces) : pieces[i] = SubSeq(text, at2[i - 1] + 1, end2[i])
  BY <1>1 DEF Consecutive, Lie
<1>4. at2[Len(pieces)] = Len(text)
  <2> DEFINE p == at2[Len(pieces)]
  <2>1. p \in 0..Len(text) /\ rest = From(text, p)
    <3>1. Len(pieces) \in 0..Len(pieces) /\ at2 \in [0..Len(pieces) -> 0..Len(text)]
      BY <1>2, <1>3 DEF Places
    <3>2. at2[Len(pieces)] \in 0..Len(text)
      BY <3>1
    <3> QED BY <1>3, <3>2 DEF Places
  <2> HIDE DEF p
  <2>2. Len(rest) = Len(text) - p /\ Len(rest) = 0
    BY <1>1, <1>2, <2>1, EndingOf
  <2>3. p = Len(text)
    BY <1>2, <2>1, <2>2
  <2> QED BY <2>3 DEF p
<1>5. Lie(at2, end2, text', pieces', rest', pc', total')
  BY <1>1, <1>3, <1>4 DEF Lie
<1> QED BY <1>5 DEF Consecutive

LEMMA NextTotalConsecutive == IInv /\ Consecutive /\ NextTotal => Consecutive'
<1> SUFFICES ASSUME IInv, NextTotal PROVE Consecutive'
  OBVIOUS
<1>1. /\ TypeOK /\ pc' = "split" /\ pieces' = << >> /\ Len(pieces') = 0
      /\ rest' = text /\ text' = text
  BY DEF NextTotal, Exhausted, IInv
<1>2. text \in Seq(Chars) /\ Len(text) \in Nat
  BY <1>1, LenProperties DEF TypeOK
<1>3. From(text, 0) = text
  <2>1. 0 + 1 = 1
    OBVIOUS
  <2> QED BY <1>2, <2>1, SubSeqFull DEF From
<1> DEFINE at == [k \in 0..0 |-> 0]
           end == [k \in 1..0 |-> 0]
<1>4. at \in [0..0 -> 0..Len(text)] /\ end \in [1..0 -> 0..Len(text)] /\ at[0] = 0
  BY <1>2
<1> HIDE DEF at, end
<1>5. Places(at, end, text', Len(pieces'), rest')
  BY <1>1, <1>3, <1>4 DEF Places
<1>6. Lie(at, end, text', pieces', rest', pc', total')
  BY <1>1, <1>5 DEF Lie
<1> QED BY <1>6 DEF Consecutive

LEMMA TruncateConsecutive == IInv /\ Consecutive /\ Truncate => Consecutive'
<1> SUFFICES ASSUME IInv, Consecutive, Truncate PROVE Consecutive'
  OBVIOUS
<1> DEFINE cut == Truncated(pieces[total], Capacity(total, total))
<1>1. /\ TypeOK /\ Written
      /\ pc = "split" /\ rest # << >> /\ Len(pieces) = total
      /\ pieces' = [pieces EXCEPT ![total] = cut]
      /\ pc' = "cut" /\ text' = text /\ total' = total /\ rest' = rest
  BY DEF IInv, Truncate, Exhausted
<1>2. /\ total \in 1..MaxChunks /\ total \in Nat /\ total \in 1..total /\ pieces \in Seq(Seq(Chars))
      /\ text \in Seq(Chars) /\ Len(text) \in Nat /\ rest \in Seq(Chars)
  BY <1>1, LenProperties, RoomAssumption DEF TypeOK
<1>3. PICK at2, end2 :
        /\ Places(at2, end2, text, total, rest)
        /\ \A i \in 1..total : pieces[i] = SubSeq(text, at2[i - 1] + 1, end2[i])
  BY <1>1 DEF Consecutive, Lie
<1> DEFINE a == at2[total - 1]
           e == end2[total]
<1>4. a \in 0..Len(text) /\ e \in 0..Len(text) /\ a < e
  <2>1. at2 \in [0..total -> 0..Len(text)] /\ end2 \in [1..total -> 0..Len(text)]
    BY <1>3 DEF Places
  <2>3. total - 1 \in 0..total
    BY <1>2
  <2>2. a \in 0..Len(text) /\ e \in 0..Len(text)
    BY <1>2, <2>1, <2>3
  <2> QED BY <1>2, <1>3, <2>2 DEF Places
<1>5. pieces[total] = SubSeq(text, a + 1, e)
  BY <1>2, <1>3
<1> HIDE DEF a, e
<1>6. /\ pieces[total] \in Seq(Chars) /\ Len(pieces[total]) = e - a
      /\ \A i \in 1..e - a : pieces[total][i] = text[a + i]
  <2>1. a + 1 \in 1..Len(text) + 1 /\ e \in (a + 1) - 1..Len(text) /\ e - (a + 1) + 1 = e - a
    BY <1>2, <1>4
  <2>2. /\ SubSeq(text, a + 1, e) \in Seq(Chars) /\ Len(SubSeq(text, a + 1, e)) = e - (a + 1) + 1
        /\ \A i \in 1..e - (a + 1) + 1 : SubSeq(text, a + 1, e)[i] = text[(a + 1) + i - 1]
    BY <1>2, <2>1, Slice
  <2>3. \A i \in 1..e - a : (a + 1) + i - 1 = a + i
    BY <1>4
  <2> QED BY <1>5, <2>1, <2>2, <2>3
<1>7. Len(pieces[total]) > 0
  BY <1>4, <1>6
<1>8. Capacity(total, total) \in Nat /\ Room(Capacity(total, total) - Dots)
  BY <1>2, CapacityRoom
<1>9. PICK n \in 0..e - a : cut = Upto(pieces[total], n) \o Marker
  BY <1>6, <1>7, <1>8, TruncatedFits
<1>10. Upto(pieces[total], n) = SubSeq(text, a + 1, a + n)
  <2> DEFINE u == Upto(pieces[total], n)
             v == SubSeq(text, a + 1, a + n)
  <2>1. u \in Seq(Chars) /\ Len(u) = n /\ \A i \in 1..n : u[i] = pieces[total][i]
    BY <1>6, <1>9, Beginning
  <2>2. a + 1 \in 1..Len(text) + 1 /\ a + n \in (a + 1) - 1..Len(text) /\ (a + n) - (a + 1) + 1 = n
    BY <1>2, <1>4
  <2>3. /\ v \in Seq(Chars) /\ Len(v) = (a + n) - (a + 1) + 1
        /\ \A i \in 1..(a + n) - (a + 1) + 1 : v[i] = text[(a + 1) + i - 1]
    BY <1>2, <2>2, Slice
  <2> HIDE DEF u, v
  <2>4. Len(u) = Len(v)
    BY <2>1, <2>2, <2>3
  <2>5. ASSUME NEW i \in 1..Len(u) PROVE u[i] = v[i]
    <3>1. i \in 1..n /\ i \in 1..e - a /\ i \in 1..(a + n) - (a + 1) + 1 /\ (a + 1) + i - 1 = a + i
      BY <1>4, <2>1, <2>2
    <3> QED BY <1>6, <2>1, <2>3, <3>1
  <2>6. u = v
    BY <2>1, <2>3, <2>4, <2>5, SeqEqual
  <2> QED BY <2>6 DEF u, v
<1>11. a + n \in a..e
  BY <1>4
<1>12. cut \in Seq(Chars)
  BY <1>6, <1>7, <1>8, TruncatedFits
<1>13. cut = SubSeq(text, a + 1, a + n) \o Marker
  BY <1>9, <1>10
<1> HIDE DEF cut
<1>14. Len(pieces') = total /\ \A i \in 1..total : pieces'[i] = IF i = total THEN cut ELSE pieces[i]
  BY <1>1, <1>2, <1>12, ExceptSeq
<1>15. at2[total] < Len(text)
  <2> DEFINE p == at2[total]
  <2>1. p \in 0..Len(text) /\ rest = From(text, p)
    <3>1. at2 \in [0..total -> 0..Len(text)]
      BY <1>3 DEF Places
    <3>3. total \in 0..total
      BY <1>2
    <3>2. at2[total] \in 0..Len(text)
      BY <3>1, <3>3
    <3> QED BY <1>3, <3>2 DEF Places
  <2> HIDE DEF p
  <2>2. Len(rest) = Len(text) - p /\ Len(rest) # 0
    BY <1>1, <1>2, <2>1, EndingOf, EmptySeq
  <2>3. p < Len(text)
    BY <1>2, <2>1, <2>2
  <2> QED BY <2>3 DEF p
<1>16. ASSUME NEW i \in 1..total
       PROVE  IF i = total
              THEN \E j \in at2[i - 1]..end2[i] : pieces'[i] = SubSeq(text, at2[i - 1] + 1, j) \o Marker
              ELSE pieces'[i] = SubSeq(text, at2[i - 1] + 1, end2[i])
  BY <1>3, <1>11, <1>13, <1>14 DEF a, e
<1>17. Lie(at2, end2, text', pieces', rest', pc', total')
  BY <1>1, <1>3, <1>14, <1>15, <1>16 DEF Lie
<1> QED BY <1>17 DEF Consecutive

(* Nothing but space is left out between the pieces, what is left of the    *)
(* text is what has not been taken, all of it is taken when the parts are   *)
(* whole, and an answer is marked as cut only if something is missing.      *)
THEOREM NothingSkipped == Spec => []Consecutive
<1>1. IInv /\ Consecutive /\ [Next]_vars => Consecutive'
  <2> SUFFICES ASSUME IInv, Consecutive, [Next]_vars PROVE Consecutive'
    OBVIOUS
  <2>1. ASSUME UNCHANGED vars PROVE Consecutive'
    BY <2>1 DEF vars, Consecutive
  <2>2. CASE Returned
    BY <2>1, <2>2 DEF Returned
  <2> QED BY <2>1, <2>2, TakePieceConsecutive, WholeConsecutive, NextTotalConsecutive, TruncateConsecutive
     DEF Next
<1> QED BY <1>1, InitConsecutive, SplitInvariant, PTL DEF Spec

-----------------------------------------------------------------------------
(* Parts put together.                                                      *)

(* What holds of 0 and is handed on from n to n + 1 holds up to N.          *)
LEMMA UpToN ==
  ASSUME NEW N \in Nat, NEW S \in SUBSET Nat, 0 \in S, \A n \in 0..N - 1 : n \in S => n + 1 \in S
  PROVE  \A n \in 0..N : n \in S
<1> DEFINE T == {n \in 0..N : n \notin S}
<1> SUFFICES ASSUME T # {} PROVE FALSE
  OBVIOUS
<1>1. T \in SUBSET Nat
  OBVIOUS
<1>2. PICK m \in T : \A n \in T : m <= n
  BY <1>1, LeastNumber
<1>3. m \in 0..N /\ m \notin S /\ m # 0
  OBVIOUS
<1>4. m - 1 \in 0..N - 1 /\ (m - 1) + 1 = m /\ m - 1 \in 0..N /\ ~(m <= m - 1)
  BY <1>3
<1>5. m - 1 \in S
  BY <1>2, <1>4
<1> QED BY <1>3, <1>4, <1>5

LEMMA Cumulated ==
  ASSUME NEW T, NEW parts \in Seq(Seq(T))
  PROVE  \E f \in [0..Len(parts) -> Seq(T)] :
           f[0] = << >> /\ \A n \in 1..Len(parts) : f[n] = f[n - 1] \o parts[n]
<1>1. Len(parts) \in Nat /\ \A n \in 1..Len(parts) : parts[n] \in Seq(T)
  BY LenProperties
<1> DEFINE Sums(k, f) == f[0] = << >> /\ \A n \in 1..k : f[n] = f[n - 1] \o parts[n]
           S == {k \in 0..Len(parts) : \E f \in [0..k -> Seq(T)] : Sums(k, f)}
<1>2. S \in SUBSET Nat /\ Len(parts) \in 0..Len(parts)
  <2>1. S \subseteq 0..Len(parts)
    OBVIOUS
  <2> HIDE DEF S
  <2> QED BY <1>1, <2>1
<1>3. 0 \in S
  <2> DEFINE f == [n \in 0..0 |-> << >>]
  <2>1. << >> \in Seq(T)
    OBVIOUS
  <2>2. f \in [0..0 -> Seq(T)] /\ Sums(0, f)
    BY <2>1
  <2>3. 0 \in 0..Len(parts)
    BY <1>1
  <2> HIDE DEF f
  <2> QED BY <2>2, <2>3
<1>4. ASSUME NEW k \in 0..Len(parts) - 1, k \in S PROVE k + 1 \in S
  <2>1. PICK f \in [0..k -> Seq(T)] : Sums(k, f)
    BY <1>4
  <2> DEFINE g == [n \in 0..k + 1 |-> IF n = k + 1 THEN f[k] \o parts[k + 1] ELSE f[n]]
  <2>2. k \in Nat /\ k + 1 \in 1..Len(parts) /\ k + 1 \in 0..Len(parts) /\ k \in 0..k
    BY <1>1
  <2>3. f[k] \o parts[k + 1] \in Seq(T)
    <3>1. f[k] \in Seq(T) /\ parts[k + 1] \in Seq(T)
      BY <1>1, <2>1, <2>2
    <3> QED BY <3>1, ConcatProperties
  <2>4. \A n \in 0..k + 1 : n # k + 1 => n \in 0..k
    BY <2>2
  <2>5. g \in [0..k + 1 -> Seq(T)]
    BY <2>1, <2>3, <2>4
  <2>6. g[k + 1] = f[k] \o parts[k + 1] /\ \A n \in 0..k : g[n] = f[n]
    BY <2>2
  <2> HIDE DEF g
  <2>7. ASSUME NEW n \in 1..k + 1 PROVE g[n] = g[n - 1] \o parts[n]
    <3>1. n - 1 \in 0..k /\ (n = k + 1 \/ (n \in 1..k /\ n \in 0..k)) /\ (n = k + 1 => n - 1 = k)
      BY <2>2
    <3> QED BY <2>1, <2>6, <3>1
  <2>8. 0 \in 0..k
    BY <2>2
  <2>9. Sums(k + 1, g)
    BY <2>1, <2>6, <2>7, <2>8
  <2> HIDE DEF Sums
  <2> QED BY <2>2, <2>5, <2>9
<1>5. \A n \in 0..Len(parts) : n \in S
  <2> HIDE DEF S
  <2> QED BY <1>1, <1>2, <1>3, <1>4, UpToN
<1> QED BY <1>2, <1>5

(* FlattenSeq adds part after part.                                         *)
LEMMA FlattenBySteps ==
  ASSUME NEW T, NEW parts \in Seq(Seq(T))
  PROVE  \E f \in [0..Len(parts) -> Seq(T)] :
           /\ f[0] = << >> /\ \A n \in 1..Len(parts) : f[n] = f[n - 1] \o parts[n]
           /\ FlattenSeq(parts) = f[Len(parts)]
<1>1. Len(parts) \in Nat /\ \A n \in 1..Len(parts) : parts[n] \in Seq(T)
  BY LenProperties
<1>2. PICK f \in [0..Len(parts) -> Seq(T)] :
        f[0] = << >> /\ \A n \in 1..Len(parts) : f[n] = f[n - 1] \o parts[n]
  BY Cumulated
<1>3. CASE Len(parts) = 0
  <2>1. parts = << >> /\ FlattenSeq(parts) = parts
    BY <1>3, EmptySeq DEF FlattenSeq
  <2> QED BY <1>2, <1>3, <2>1
<1>4. CASE Len(parts) # 0
  <2> DEFINE rule(g) == [i \in 1..Len(parts) |-> IF i = 1 THEN parts[i] ELSE g[i - 1] \o parts[i]]
             flatten == CHOOSE g : g = rule(g)
             some == [i \in 1..Len(parts) |-> f[i]]
  <2>1. 1 \in 1..Len(parts) /\ f[1] = parts[1]
    <3>1. 1 \in 1..Len(parts) /\ 1 - 1 = 0
      BY <1>1, <1>4
    <3>2. f[1] = f[0] \o parts[1] /\ parts[1] \in Seq(T)
      BY <1>1, <1>2, <3>1
    <3> QED BY <1>2, <3>1, <3>2, ConcatEmptySeq
  <2>2. FlattenSeq(parts) = flatten[Len(parts)]
    BY <1>4 DEF FlattenSeq
  <2>3. some = rule(some)
    <3>1. ASSUME NEW i \in 1..Len(parts)
          PROVE  f[i] = IF i = 1 THEN parts[i] ELSE some[i - 1] \o parts[i]
      <4>1. CASE i = 1
        BY <2>1, <4>1
      <4>2. CASE i # 1
        <5>1. i - 1 \in 1..Len(parts)
          BY <1>1, <4>2
        <5> QED BY <1>2, <4>2, <5>1
      <4> QED BY <4>1, <4>2
    <3> QED BY <3>1
  <2>4. flatten = rule(flatten)
    <3> HIDE DEF rule, some
    <3> QED BY <2>3
  <2> HIDE DEF flatten
  <2>5. /\ flatten[1] = parts[1]
        /\ \A i \in 1..Len(parts) : i # 1 => flatten[i] = flatten[i - 1] \o parts[i]
    <3>1. \A i \in 1..Len(parts) : flatten[i] = IF i = 1 THEN parts[i] ELSE flatten[i - 1] \o parts[i]
      BY <2>4
    <3> QED BY <2>1, <3>1
  <2> DEFINE S == {n \in 0..Len(parts) : n = 0 \/ flatten[n] = f[n]}
  <2>6. S \in SUBSET Nat /\ 0 \in S
    BY <1>1
  <2>7. ASSUME NEW n \in 0..Len(parts) - 1, n \in S PROVE n + 1 \in S
    <3>1. n + 1 \in 1..Len(parts) /\ n + 1 \in 0..Len(parts) /\ (n + 1) - 1 = n
      BY <1>1
    <3>2. CASE n = 0
      BY <2>1, <2>5, <3>1, <3>2
    <3>3. CASE n # 0
      <4>1. flatten[n] = f[n] /\ n + 1 # 1
        BY <2>7, <3>3
      <4> QED BY <1>2, <2>5, <3>1, <4>1
    <3> QED BY <3>2, <3>3
  <2>8. \A n \in 0..Len(parts) : n \in S
    <3> HIDE DEF S
    <3> QED BY <1>1, <2>6, <2>7, UpToN
  <2>9. flatten[Len(parts)] = f[Len(parts)]
    BY <1>1, <1>4, <2>8
  <2> QED BY <1>2, <2>2, <2>9
<1> QED BY <1>3, <1>4

LEMMA Flattened ==
  ASSUME NEW T, NEW parts \in Seq(Seq(T))
  PROVE  /\ FlattenSeq(parts) \in Seq(T)
         /\ (\A n \in 1..Len(parts) : parts[n] = << >>) => FlattenSeq(parts) = << >>
         /\ Len(parts) = 1 => FlattenSeq(parts) = parts[1]
<1>1. Len(parts) \in Nat /\ Len(parts) \in 0..Len(parts) /\ \A n \in 1..Len(parts) : parts[n] \in Seq(T)
  BY LenProperties
<1>2. PICK f \in [0..Len(parts) -> Seq(T)] :
        /\ f[0] = << >> /\ \A n \in 1..Len(parts) : f[n] = f[n - 1] \o parts[n]
        /\ FlattenSeq(parts) = f[Len(parts)]
  BY FlattenBySteps
<1>3. FlattenSeq(parts) \in Seq(T)
  BY <1>1, <1>2
<1>4. ASSUME \A n \in 1..Len(parts) : parts[n] = << >> PROVE FlattenSeq(parts) = << >>
  <2> DEFINE S == {n \in 0..Len(parts) : f[n] = << >>}
  <2>1. S \in SUBSET Nat /\ 0 \in S
    BY <1>1, <1>2
  <2>2. ASSUME NEW n \in 0..Len(parts) - 1, n \in S PROVE n + 1 \in S
    <3>1. n + 1 \in 1..Len(parts) /\ n + 1 \in 0..Len(parts) /\ (n + 1) - 1 = n
      BY <1>1
    <3>2. f[n + 1] = f[n] \o parts[n + 1] /\ f[n] = << >> /\ parts[n + 1] = << >>
      BY <1>2, <1>4, <2>2, <3>1
    <3>3. << >> \o << >> = << >>
      OBVIOUS
    <3> QED BY <3>1, <3>2, <3>3
  <2>3. \A n \in 0..Len(parts) : n \in S
    <3> HIDE DEF S
    <3> QED BY <1>1, <2>1, <2>2, UpToN
  <2> QED BY <1>1, <1>2, <2>3
<1>5. ASSUME Len(parts) = 1 PROVE FlattenSeq(parts) = parts[1]
  <2>1. 1 \in 1..Len(parts) /\ 1 - 1 = 0 /\ parts[1] \in Seq(T)
    BY <1>1, <1>5
  <2>2. f[1] = << >> \o parts[1]
    BY <1>2, <2>1
  <2> QED BY <1>2, <1>5, <2>1, <2>2, ConcatEmptySeq
<1> QED BY <1>3, <1>4, <1>5

LEMMA FlattenConcat ==
  ASSUME NEW T, NEW p \in Seq(Seq(T)), NEW q \in Seq(Seq(T))
  PROVE  FlattenSeq(p \o q) = FlattenSeq(p) \o FlattenSeq(q)
<1> DEFINE a == Len(p)
           b == Len(q)
           r == p \o q
<1>1. /\ a \in Nat /\ b \in Nat /\ \A n \in 1..a : p[n] \in Seq(T)
      /\ \A n \in 1..b : q[n] \in Seq(T)
  BY LenProperties
<1>2. /\ r \in Seq(Seq(T)) /\ Len(r) = a + b
      /\ \A i \in 1..a + b : r[i] = IF i <= a THEN p[i] ELSE q[i - a]
  BY ConcatProperties
<1> HIDE DEF r
<1>3. \A x, y, z \in Seq(T) : (x \o y) \o z = x \o (y \o z)
  BY ConcatAssociative
<1>4. PICK f \in [0..a -> Seq(T)] :
        f[0] = << >> /\ (\A n \in 1..a : f[n] = f[n - 1] \o p[n]) /\ FlattenSeq(p) = f[a]
  BY FlattenBySteps
<1>5. PICK g \in [0..b -> Seq(T)] :
        g[0] = << >> /\ (\A n \in 1..b : g[n] = g[n - 1] \o q[n]) /\ FlattenSeq(q) = g[b]
  BY FlattenBySteps
<1>6. PICK h \in [0..a + b -> Seq(T)] :
        h[0] = << >> /\ (\A n \in 1..a + b : h[n] = h[n - 1] \o r[n]) /\ FlattenSeq(r) = h[a + b]
  <2>1. \E h \in [0..Len(r) -> Seq(T)] :
          h[0] = << >> /\ (\A n \in 1..Len(r) : h[n] = h[n - 1] \o r[n]) /\ FlattenSeq(r) = h[Len(r)]
    BY <1>2, FlattenBySteps
  <2> QED BY <1>2, <2>1, Zenon
<1> HIDE DEF a, b
<1>7. h[a] = f[a]
  <2> DEFINE S == {n \in 0..a : h[n] = f[n]}
  <2>1. S \in SUBSET Nat /\ 0 \in S
    BY <1>1, <1>4, <1>6
  <2>2. ASSUME NEW n \in 0..a - 1, n \in S PROVE n + 1 \in S
    <3>1. n + 1 \in 1..a /\ n + 1 \in 0..a /\ n + 1 \in 1..a + b /\ (n + 1) - 1 = n /\ n + 1 <= a
      BY <1>1
    <3>2. h[n] = f[n]
      BY <2>2
    <3>3. h[n + 1] = h[n] \o r[n + 1]
      BY <1>6, <3>1
    <3>4. f[n + 1] = f[n] \o p[n + 1]
      BY <1>4, <3>1
    <3>5. r[n + 1] = p[n + 1]
      BY <1>2, <3>1
    <3> QED BY <3>1, <3>2, <3>3, <3>4, <3>5
  <2>3. \A n \in 0..a : n \in S
    <3> HIDE DEF S
    <3> QED BY <1>1, <2>1, <2>2, UpToN
  <2>4. a \in 0..a
    BY <1>1
  <2> QED BY <2>3, <2>4
<1>8. f[a] \in Seq(T)
  BY <1>1, <1>4
<1>9. h[a + b] = f[a] \o g[b]
  <2> DEFINE S == {n \in 0..b : h[a + n] = f[a] \o g[n]}
  <2>1. S \in SUBSET Nat
    BY <1>1
  <2>2. 0 \in S
    <3>1. f[a] \o << >> = f[a]
      BY <1>8, ConcatEmptySeq
    <3>2. 0 \in 0..b /\ a + 0 = a
      BY <1>1
    <3> QED BY <1>5, <1>7, <3>1, <3>2
  <2>3. ASSUME NEW n \in 0..b - 1, n \in S PROVE n + 1 \in S
    <3>1. /\ n + 1 \in 1..b /\ n + 1 \in 0..b /\ n \in 0..b /\ (n + 1) - 1 = n /\ a + (n + 1) \in 1..a + b
          /\ (a + (n + 1)) - 1 = a + n /\ ~(a + (n + 1) <= a) /\ (a + (n + 1)) - a = n + 1
      BY <1>1
    <3>2. h[a + n] = f[a] \o g[n]
      BY <2>3
    <3>3. h[a + (n + 1)] = (f[a] \o g[n]) \o q[n + 1]
      BY <1>2, <1>6, <3>1, <3>2
    <3>4. g[n + 1] = g[n] \o q[n + 1] /\ g[n] \in Seq(T) /\ q[n + 1] \in Seq(T)
      BY <1>1, <1>5, <3>1
    <3>5. (f[a] \o g[n]) \o q[n + 1] = f[a] \o (g[n] \o q[n + 1])
      BY <1>8, <1>3, <3>4, Zenon
    <3> QED BY <3>1, <3>3, <3>4, <3>5
  <2>4. \A n \in 0..b : n \in S
    <3> HIDE DEF S
    <3> QED BY <1>1, <2>1, <2>2, <2>3, UpToN
  <2>5. b \in 0..b
    BY <1>1
  <2> QED BY <2>4, <2>5
<1> QED BY <1>4, <1>5, <1>6, <1>7, <1>9 DEF r

-----------------------------------------------------------------------------
(* Letters: what they are of a text that is put together.                   *)

Marks(s) == [i \in 1..Len(s) |-> IF s[i] \in Space THEN << >> ELSE <<s[i]>>]

LEMMA MarksOfText ==
  ASSUME NEW s \in Seq(Chars)
  PROVE  /\ Marks(s) \in Seq(Seq(Chars)) /\ Len(Marks(s)) = Len(s)
         /\ \A i \in 1..Len(s) : Marks(s)[i] = IF s[i] \in Space THEN << >> ELSE <<s[i]>>
         /\ Letters(s) = FlattenSeq(Marks(s))
<1>1. Len(s) \in Nat /\ \A i \in 1..Len(s) : s[i] \in Chars
  BY LenProperties
<1>2. \A c \in Chars : <<c>> \in Seq(Chars) /\ << >> \in Seq(Chars)
  OBVIOUS
<1>3. Marks(s) \in [1..Len(s) -> Seq(Chars)]
  <2>1. ASSUME NEW i \in 1..Len(s) PROVE (IF s[i] \in Space THEN << >> ELSE <<s[i]>>) \in Seq(Chars)
    BY <1>1, <1>2
  <2> QED BY <2>1 DEF Marks
<1>4. Marks(s) \in Seq(Seq(Chars)) /\ Len(Marks(s)) = Len(s)
  <2>1. Marks(s) \in Seq(Seq(Chars))
    BY <1>1, <1>3, SeqDef
  <2> QED BY <1>1, <1>3, <2>1, LenProperties
<1> QED BY <1>4 DEF Marks, Letters

LEMMA LettersOfText ==
  ASSUME NEW s \in Seq(Chars)
  PROVE  /\ Letters(s) \in Seq(Chars)
         /\ (\A i \in 1..Len(s) : s[i] \in Space) => Letters(s) = << >>
<1>1. Letters(s) \in Seq(Chars)
  BY MarksOfText, Flattened
<1>2. ASSUME \A i \in 1..Len(s) : s[i] \in Space PROVE Letters(s) = << >>
  <2>1. \A i \in 1..Len(Marks(s)) : Marks(s)[i] = << >>
    BY <1>2, MarksOfText
  <2> QED BY <2>1, MarksOfText, Flattened
<1> QED BY <1>1, <1>2

LEMMA LettersConcat ==
  ASSUME NEW s \in Seq(Chars), NEW t \in Seq(Chars)
  PROVE  Letters(s \o t) = Letters(s) \o Letters(t)
<1> DEFINE u == s \o t
<1>1. Len(s) \in Nat /\ Len(t) \in Nat
  BY LenProperties
<1>2. /\ u \in Seq(Chars) /\ Len(u) = Len(s) + Len(t)
      /\ \A i \in 1..Len(s) + Len(t) : u[i] = IF i <= Len(s) THEN s[i] ELSE t[i - Len(s)]
  BY ConcatProperties
<1> HIDE DEF u
<1>3. Marks(u) = Marks(s) \o Marks(t)
  <2> DEFINE v == Marks(s) \o Marks(t)
  <2>1. /\ v \in Seq(Seq(Chars)) /\ Len(v) = Len(s) + Len(t)
        /\ \A i \in 1..Len(s) + Len(t) : v[i] = IF i <= Len(s) THEN Marks(s)[i] ELSE Marks(t)[i - Len(s)]
    <3>1. /\ Marks(s) \in Seq(Seq(Chars)) /\ Len(Marks(s)) = Len(s)
          /\ Marks(t) \in Seq(Seq(Chars)) /\ Len(Marks(t)) = Len(t)
      BY MarksOfText
    <3> HIDE DEF v
    <3>2. /\ v \in Seq(Seq(Chars)) /\ Len(v) = Len(Marks(s)) + Len(Marks(t))
          /\ \A i \in 1..Len(Marks(s)) + Len(Marks(t)) :
               v[i] = IF i <= Len(Marks(s)) THEN Marks(s)[i] ELSE Marks(t)[i - Len(Marks(s))]
      BY <3>1, ConcatProperties DEF v
    <3> QED BY <3>1, <3>2
  <2> HIDE DEF v
  <2>2. Marks(u) \in Seq(Seq(Chars)) /\ Len(Marks(u)) = Len(v)
    BY <1>2, <2>1, MarksOfText
  <2>3. ASSUME NEW i \in 1..Len(Marks(u)) PROVE Marks(u)[i] = v[i]
    <3>1. i \in 1..Len(s) + Len(t) /\ i \in 1..Len(u)
      BY <1>2, <2>1, <2>2
    <3>2. Marks(u)[i] = IF u[i] \in Space THEN << >> ELSE <<u[i]>>
      BY <1>2, <3>1, MarksOfText
    <3>3. CASE i <= Len(s)
      <4>1. i \in 1..Len(s)
        BY <1>1, <3>1, <3>3
      <4>2. Marks(s)[i] = IF s[i] \in Space THEN << >> ELSE <<s[i]>>
        BY <4>1, MarksOfText
      <4> QED BY <1>2, <2>1, <3>1, <3>2, <3>3, <4>2
    <3>4. CASE ~(i <= Len(s))
      <4>1. i - Len(s) \in 1..Len(t)
        BY <1>1, <3>1, <3>4
      <4>2. Marks(t)[i - Len(s)] = IF t[i - Len(s)] \in Space THEN << >> ELSE <<t[i - Len(s)]>>
        BY <4>1, MarksOfText
      <4> QED BY <1>2, <2>1, <3>1, <3>2, <3>4, <4>2
    <3> QED BY <3>3, <3>4
  <2>4. Marks(u) = v
    BY <2>1, <2>2, <2>3, SeqEqual
  <2> QED BY <2>4 DEF v
<1>4. Marks(s) \in Seq(Seq(Chars)) /\ Marks(t) \in Seq(Seq(Chars)) /\ Letters(u) = FlattenSeq(Marks(u))
  BY <1>2, MarksOfText
<1>5. FlattenSeq(Marks(s) \o Marks(t)) = FlattenSeq(Marks(s)) \o FlattenSeq(Marks(t))
  BY <1>4, FlattenConcat
<1> QED BY <1>3, <1>4, <1>5, MarksOfText DEF u

LEMMA LettersSplit ==
  ASSUME NEW s \in Seq(Chars), NEW m \in 0..Len(s), NEW n \in m..Len(s)
  PROVE  /\ Letters(Upto(s, n)) = Letters(Upto(s, m)) \o Letters(SubSeq(s, m + 1, n))
         /\ Upto(s, n) \in Seq(Chars) /\ Upto(s, m) \in Seq(Chars) /\ SubSeq(s, m + 1, n) \in Seq(Chars)
<1>1. /\ Len(s) \in Nat /\ m \in Nat /\ n \in Nat
      /\ 1 \in 1..Len(s) + 1 /\ m \in 1 - 1..Len(s) /\ n \in 0..Len(s)
      /\ m + 1 \in 1..Len(s) + 1 /\ n \in (m + 1) - 1..Len(s)
  BY LenProperties
<1>2. Upto(s, n) \in Seq(Chars) /\ Upto(s, m) \in Seq(Chars)
  BY <1>1, Beginning
<1>3. SubSeq(s, m + 1, n) \in Seq(Chars)
  BY <1>1, Slice
<1>4. Upto(s, m) \o SubSeq(s, m + 1, n) = Upto(s, n)
  BY <1>1, ConcatAdjacentSubSeq DEF Upto
<1>5. Letters(Upto(s, m) \o SubSeq(s, m + 1, n)) = Letters(Upto(s, m)) \o Letters(SubSeq(s, m + 1, n))
  BY <1>2, <1>3, LettersConcat
<1> QED BY <1>2, <1>3, <1>4, <1>5

LEMMA OneLetter ==
  ASSUME NEW s \in Seq(Chars), Len(s) = 1, s[1] \notin Space
  PROVE  Len(Letters(s)) = 1
<1>1. Marks(s) \in Seq(Seq(Chars)) /\ Len(Marks(s)) = 1 /\ Marks(s)[1] = <<s[1]>>
  BY MarksOfText
<1>2. Letters(s) = <<s[1]>>
  BY <1>1, MarksOfText, Flattened
<1> QED BY <1>2

(* A text with a character that is no space has letters.                    *)
LEMMA SomeLetter ==
  ASSUME NEW s \in Seq(Chars), NEW m \in 1..Len(s) + 1, NEW n \in m - 1..Len(s), NEW i \in m..n, s[i] \notin Space
  PROVE  Len(Letters(SubSeq(s, m, n))) > 0
<1>1. /\ Len(s) \in Nat
      /\ i - 1 \in m - 1..Len(s) /\ i \in i - 1..n /\ (i - 1) + 1 = i /\ i \in m - 1..Len(s) /\ n \in i..Len(s)
      /\ i \in 1..Len(s) + 1 /\ i \in i - 1..Len(s) /\ i - i + 1 = 1 /\ i + 1 - 1 = i
      /\ i + 1 \in 1..Len(s) + 1 /\ n \in (i + 1) - 1..Len(s) /\ i \in (i - 1)..Len(s)
  BY LenProperties
<1> DEFINE a == SubSeq(s, m, i - 1)
           b == SubSeq(s, i, i)
           c == SubSeq(s, i + 1, n)
<1>2. a \in Seq(Chars) /\ c \in Seq(Chars)
  BY <1>1, Slice
<1>3. b \in Seq(Chars) /\ Len(b) = 1 /\ b[1] = s[i]
  <2>1. /\ b \in Seq(Chars) /\ Len(b) = i - i + 1
        /\ \A k \in 1..i - i + 1 : b[k] = s[i + k - 1]
    BY <1>1, Slice
  <2> HIDE DEF b
  <2>2. 1 \in 1..i - i + 1 /\ i + 1 - 1 = i
    BY <1>1
  <2> QED BY <1>1, <2>1, <2>2
<1>4. a \o b = SubSeq(s, m, i)
  <2>1. SubSeq(s, m, i - 1) \o SubSeq(s, (i - 1) + 1, i) = SubSeq(s, m, i)
    BY <1>1, ConcatAdjacentSubSeq
  <2> QED BY <1>1, <2>1
<1>5. SubSeq(s, m, i) \o c = SubSeq(s, m, n)
  BY <1>1, ConcatAdjacentSubSeq
<1> HIDE DEF a, b, c
<1>6. a \o b \in Seq(Chars)
  BY <1>2, <1>3, ConcatProperties
<1>7. /\ Letters(a \o b) = Letters(a) \o Letters(b)
      /\ Letters((a \o b) \o c) = Letters(a \o b) \o Letters(c)
  BY <1>2, <1>3, <1>6, LettersConcat
<1>8. Letters(a) \in Seq(Chars) /\ Letters(b) \in Seq(Chars) /\ Letters(c) \in Seq(Chars) /\ Letters(a \o b) \in Seq(Chars)
  BY <1>2, <1>3, <1>6, LettersOfText
<1>9. Len(Letters(b)) = 1
  BY <1>3, OneLetter
<1>10. /\ Len(Letters(a) \o Letters(b)) = Len(Letters(a)) + Len(Letters(b))
       /\ Len(Letters(a \o b) \o Letters(c)) = Len(Letters(a \o b)) + Len(Letters(c))
  BY <1>8, ConcatProperties
<1>11. Len(Letters(a)) \in Nat /\ Len(Letters(c)) \in Nat
  BY <1>8, LenProperties
<1> QED BY <1>4, <1>5, <1>7, <1>9, <1>10, <1>11

LEMMA OneMore ==
  ASSUME NEW parts \in Seq(Seq(Chars)), NEW n \in 1..Len(parts)
  PROVE  /\ FlattenSeq(Upto(parts, n)) = FlattenSeq(Upto(parts, n - 1)) \o parts[n]
         /\ FlattenSeq(Upto(parts, n)) \in Seq(Chars) /\ FlattenSeq(Upto(parts, n - 1)) \in Seq(Chars)
         /\ parts[n] \in Seq(Chars)
<1>1. /\ Len(parts) \in Nat /\ parts[n] \in Seq(Chars)
      /\ 1 \in 1..Len(parts) + 1 /\ n - 1 \in 1 - 1..Len(parts) /\ n \in n - 1..Len(parts) /\ (n - 1) + 1 = n
      /\ n \in 1..Len(parts)
  BY LenProperties
<1>2. Upto(parts, n - 1) \o SubSeq(parts, n, n) = Upto(parts, n)
  <2>1. SubSeq(parts, 1, n - 1) \o SubSeq(parts, (n - 1) + 1, n) = SubSeq(parts, 1, n)
    BY <1>1, ConcatAdjacentSubSeq
  <2> QED BY <1>1, <2>1 DEF Upto
<1>3. \A m \in 1..Len(parts) + 1 : \A k \in m - 1..Len(parts) :
        /\ SubSeq(parts, m, k) \in Seq(Seq(Chars))
        /\ Len(SubSeq(parts, m, k)) = k - m + 1
        /\ \A i \in 1..k - m + 1 : SubSeq(parts, m, k)[i] = parts[m + i - 1]
  <2> SUFFICES ASSUME NEW m \in 1..Len(parts) + 1, NEW k \in m - 1..Len(parts)
               PROVE  /\ SubSeq(parts, m, k) \in Seq(Seq(Chars))
                      /\ Len(SubSeq(parts, m, k)) = k - m + 1
                      /\ \A i \in 1..k - m + 1 : SubSeq(parts, m, k)[i] = parts[m + i - 1]
    OBVIOUS
  <2>1. \A i \in m..k : parts[i] \in Seq(Chars)
    BY <1>1, LenProperties
  <2>2. m \in Int /\ k \in Int /\ (IF m <= k THEN k - m + 1 ELSE 0) = k - m + 1
    BY <1>1
  <2>3. /\ SubSeq(parts, m, k) \in Seq(Seq(Chars))
        /\ Len(SubSeq(parts, m, k)) = IF m <= k THEN k - m + 1 ELSE 0
        /\ \A i \in 1..k - m + 1 : SubSeq(parts, m, k)[i] = parts[m + i - 1]
    BY <2>1, <2>2, SubSeqProperties
  <2> QED BY <2>2, <2>3
<1>4. Upto(parts, n - 1) \in Seq(Seq(Chars)) /\ Upto(parts, n) \in Seq(Seq(Chars))
  BY <1>1, <1>3 DEF Upto
<1>5. /\ SubSeq(parts, n, n) \in Seq(Seq(Chars)) /\ Len(SubSeq(parts, n, n)) = 1
      /\ SubSeq(parts, n, n)[1] = parts[n]
  <2>1. n \in 1..Len(parts) + 1 /\ n \in n - 1..Len(parts) /\ n - n + 1 = 1 /\ 1 \in 1..n - n + 1 /\ n + 1 - 1 = n
    BY <1>1
  <2>2. /\ SubSeq(parts, n, n) \in Seq(Seq(Chars)) /\ Len(SubSeq(parts, n, n)) = n - n + 1
        /\ SubSeq(parts, n, n)[1] = parts[n + 1 - 1]
    BY <1>3, <2>1
  <2> QED BY <2>1, <2>2
<1>6. FlattenSeq(SubSeq(parts, n, n)) = parts[n]
  BY <1>5, Flattened
<1>7. FlattenSeq(Upto(parts, n - 1) \o SubSeq(parts, n, n)) = FlattenSeq(Upto(parts, n - 1)) \o FlattenSeq(SubSeq(parts, n, n))
  BY <1>4, <1>5, FlattenConcat
<1>8. FlattenSeq(Upto(parts, n)) \in Seq(Chars) /\ FlattenSeq(Upto(parts, n - 1)) \in Seq(Chars)
  BY <1>4, Flattened
<1> QED BY <1>1, <1>2, <1>6, <1>7, <1>8

(* The letters of the first n pieces are those of the text up to where the  *)
(* next one starts.                                                         *)
LEMMA Gathered ==
  ASSUME NEW s \in Seq(Chars), NEW parts \in Seq(Seq(Chars)), NEW K \in 0..Len(parts),
         NEW at \in [0..Len(parts) -> 0..Len(s)], NEW end \in [1..Len(parts) -> 0..Len(s)],
         NEW left \in Seq(Chars), Places(at, end, s, Len(parts), left),
         \A i \in 1..K : parts[i] = SubSeq(s, at[i - 1] + 1, end[i])
  PROVE  \A n \in 0..K : Letters(FlattenSeq(Upto(parts, n))) = Letters(Upto(s, at[n]))
<1>1. Len(s) \in Nat /\ Len(parts) \in Nat /\ K \in Nat
  BY LenProperties
<1>2. at[0] = 0
  BY DEF Places
<1> DEFINE S == {n \in 0..K : Letters(FlattenSeq(Upto(parts, n))) = Letters(Upto(s, at[n]))}
<1>3. S \in SUBSET Nat
  <2>1. S \subseteq 0..K
    OBVIOUS
  <2> HIDE DEF S
  <2> QED BY <1>1, <2>1
<1>4. 0 \in S
  <2>1. Upto(parts, 0) = << >> /\ Upto(s, 0) = << >>
    BY SubSeqEmpty DEF Upto
  <2>2. << >> \in Seq(Seq(Chars)) /\ << >> \in Seq(Chars) /\ Len(<< >>) = 0
    OBVIOUS
  <2>3. FlattenSeq(<< >>) = << >>
    <3>1. \A n \in 1..Len(<< >>) : << >>[n] = << >>
      BY <2>2
    <3> QED BY <2>2, <3>1, Flattened
  <2>4. 0 \in 0..K
    BY <1>1
  <2> QED BY <1>2, <2>1, <2>3, <2>4
<1>5. ASSUME NEW n \in 0..K - 1, n \in S PROVE n + 1 \in S
  <2>1. /\ n + 1 \in 1..K /\ n + 1 \in 0..K /\ (n + 1) - 1 = n /\ n + 1 \in 1..Len(parts)
        /\ n \in 0..Len(parts) /\ n + 1 \in 0..Len(parts)
    BY <1>1
  <2> DEFINE a == at[n]
             e == end[n + 1]
             b == at[n + 1]
  <2>2. a \in 0..Len(s) /\ e \in 0..Len(s) /\ b \in 0..Len(s)
    BY <1>2, <2>1
  <2>3. a < e /\ e <= b /\ \A j \in e + 1..b : s[j] \in Space
    BY <2>1 DEF Places
  <2>4. parts[n + 1] = SubSeq(s, a + 1, e)
    BY <2>1
  <2>5. Letters(FlattenSeq(Upto(parts, n))) = Letters(Upto(s, a))
    BY <1>5
  <2> HIDE DEF S
  <2>6. /\ FlattenSeq(Upto(parts, n + 1)) = FlattenSeq(Upto(parts, n)) \o parts[n + 1]
        /\ FlattenSeq(Upto(parts, n)) \in Seq(Chars) /\ parts[n + 1] \in Seq(Chars)
    BY <2>1, OneMore
  <2>7. Letters(FlattenSeq(Upto(parts, n)) \o parts[n + 1]) = Letters(FlattenSeq(Upto(parts, n))) \o Letters(parts[n + 1])
    BY <2>6, LettersConcat
  <2> HIDE DEF a, e, b
  <2>8. a \in 0..Len(s) /\ e \in a..Len(s) /\ e \in 0..Len(s) /\ b \in e..Len(s)
    BY <1>1, <2>2, <2>3
  <2>9. Letters(Upto(s, e)) = Letters(Upto(s, a)) \o Letters(SubSeq(s, a + 1, e))
    BY <2>8, LettersSplit
  <2>10. Letters(Upto(s, b)) = Letters(Upto(s, e)) \o Letters(SubSeq(s, e + 1, b))
    BY <2>8, LettersSplit
  <2>11. Letters(SubSeq(s, e + 1, b)) = << >>
    <3>1. e + 1 \in 1..Len(s) + 1 /\ b \in (e + 1) - 1..Len(s)
      BY <1>1, <2>8
    <3> DEFINE t == SubSeq(s, e + 1, b)
    <3>2. /\ t \in Seq(Chars) /\ Len(t) = b - (e + 1) + 1
          /\ \A i \in 1..b - (e + 1) + 1 : t[i] = s[(e + 1) + i - 1]
      BY <3>1, Slice
    <3> HIDE DEF t
    <3>3. ASSUME NEW i \in 1..Len(t) PROVE t[i] \in Space
      <4>1. i \in 1..b - (e + 1) + 1 /\ (e + 1) + i - 1 \in e + 1..b
        BY <2>8, <3>2
      <4> QED BY <2>3, <3>2, <4>1
    <3> QED BY <3>2, <3>3, LettersOfText DEF t
  <2>12. Letters(Upto(s, b)) = Letters(Upto(s, e))
    <3>1. Letters(Upto(s, e)) \in Seq(Chars)
      BY <2>8, Beginning, LettersOfText
    <3> QED BY <2>10, <2>11, <3>1, ConcatEmptySeq
  <2>13. Letters(FlattenSeq(Upto(parts, n + 1))) = Letters(Upto(s, at[n + 1]))
    BY <2>4, <2>5, <2>6, <2>7, <2>9, <2>12 DEF b
  <2> QED BY <2>1, <2>13 DEF S
<1>6. \A n \in 0..K : n \in S
  <2> HIDE DEF S
  <2> QED BY <1>1, <1>3, <1>4, <1>5, UpToN
<1> QED BY <1>6

(* More of a text has more letters, unless what is added is blank.          *)
LEMMA MoreLetters ==
  ASSUME NEW s \in Seq(Chars), NEW m \in 0..Len(s), NEW n \in m..Len(s), NEW i \in m + 1..n, s[i] \notin Space
  PROVE  /\ Letters(Upto(s, m)) # Letters(Upto(s, n))
         /\ IsPrefix(Letters(Upto(s, m)), Letters(Upto(s, n)))
<1> DEFINE a == Letters(Upto(s, m))
           b == Letters(SubSeq(s, m + 1, n))
           c == Letters(Upto(s, n))
<1>1. c = a \o b /\ a \in Seq(Chars) /\ b \in Seq(Chars)
  BY LettersSplit, LettersOfText
<1>2. Len(b) > 0
  <2>1. m + 1 \in 1..Len(s) + 1 /\ n \in (m + 1) - 1..Len(s) /\ i \in m + 1..n
    BY LenProperties
  <2> QED BY <2>1, SomeLetter
<1> HIDE DEF a, b, c
<1>3. /\ Len(a) \in Nat /\ Len(b) \in Nat
      /\ c \in Seq(Chars) /\ Len(c) = Len(a) + Len(b)
      /\ \A k \in 1..Len(a) + Len(b) : c[k] = IF k <= Len(a) THEN a[k] ELSE b[k - Len(a)]
  BY <1>1, ConcatProperties, LenProperties
<1>4. a # c
  BY <1>2, <1>3
<1>5. SubSeq(a, 1, Len(a)) = SubSeq(c, 1, Len(a))
  <2>1. SubSeq(a, 1, Len(a)) = a
    BY <1>1, SubSeqFull
  <2>2. 1 \in 1..Len(c) + 1 /\ Len(a) \in 1 - 1..Len(c) /\ Len(a) - 1 + 1 = Len(a)
    BY <1>3
  <2>3. /\ SubSeq(c, 1, Len(a)) \in Seq(Chars) /\ Len(SubSeq(c, 1, Len(a))) = Len(a) - 1 + 1
        /\ \A k \in 1..Len(a) - 1 + 1 : SubSeq(c, 1, Len(a))[k] = c[1 + k - 1]
    BY <1>3, <2>2, Slice
  <2>4. ASSUME NEW k \in 1..Len(a) PROVE a[k] = SubSeq(c, 1, Len(a))[k]
    <3>1. k \in 1..Len(a) - 1 + 1 /\ 1 + k - 1 = k /\ k \in 1..Len(a) + Len(b) /\ k <= Len(a)
      BY <1>3
    <3> QED BY <1>3, <2>3, <3>1
  <2>5. a = SubSeq(c, 1, Len(a))
    <3> DEFINE d == SubSeq(c, 1, Len(a))
    <3>1. d \in Seq(Chars) /\ Len(d) = Len(a) /\ \A k \in 1..Len(a) : a[k] = d[k]
      BY <2>2, <2>3, <2>4
    <3> HIDE DEF d
    <3>2. a = d
      BY <1>1, <3>1, SeqEqual
    <3> QED BY <3>2 DEF d
  <2> QED BY <2>1, <2>5
<1> QED BY <1>3, <1>4, <1>5 DEF IsPrefix, a, c

LEMMA GatheredPieces ==
  ASSUME text \in Seq(Chars), pieces \in Seq(Seq(Chars)), rest \in Seq(Chars), total \in Nat,
         NEW at \in [0..Len(pieces) -> 0..Len(text)], NEW end \in [1..Len(pieces) -> 0..Len(text)],
         Lie(at, end, text, pieces, rest, pc, total), NEW k \in 0..Len(pieces), pc = "cut" => k < total
  PROVE  Letters(FlattenSeq(Upto(pieces, k))) = Letters(Upto(text, at[k]))
<1>1. k \in Nat /\ k \in 0..k /\ Len(pieces) \in Nat
  BY LenProperties
<1>2. \A i \in 1..k : pieces[i] = SubSeq(text, at[i - 1] + 1, end[i])
  <2>1. \A i \in 1..k : i \in 1..Len(pieces) /\ ~(pc = "cut" /\ i = total)
    BY <1>1
  <2> QED BY <2>1 DEF Lie
<1>3. Places(at, end, text, Len(pieces), rest)
  BY DEF Lie
<1>4. \A n \in 0..k : Letters(FlattenSeq(Upto(pieces, n))) = Letters(Upto(text, at[n]))
  BY <1>2, <1>3, Gathered
<1> QED BY <1>1, <1>4

LEMMA MarkedAfter ==
  ASSUME NEW s \in Seq(Chars), NEW t \in Seq(Chars)
  PROVE  (s \o t) \o Marker = s \o (t \o Marker)
BY MarkerIsText, ConcatAssociative

LEMMA InvariantLostNothing == IInv /\ Consecutive => NothingLost
<1> SUFFICES ASSUME IInv, Consecutive PROVE NothingLost
  OBVIOUS
<1> DEFINE joined == FlattenSeq(pieces)
           kept == Upto(joined, Len(joined) - Dots)
<1>1. /\ text \in Seq(Chars) /\ pieces \in Seq(Seq(Chars)) /\ rest \in Seq(Chars) /\ Trimmed(rest)
      /\ total \in 1..MaxChunks /\ total \in Nat /\ Len(text) \in Nat /\ Len(pieces) \in Nat
      /\ pc = "cut" => Len(pieces) = total
  BY LenProperties, RoomAssumption DEF IInv, TypeOK, Written
<1>2. PICK at, end : Lie(at, end, text, pieces, rest, pc, total)
  BY DEF Consecutive
<1>3. /\ Places(at, end, text, Len(pieces), rest)
      /\ at \in [0..Len(pieces) -> 0..Len(text)] /\ end \in [1..Len(pieces) -> 0..Len(text)]
      /\ rest = From(text, at[Len(pieces)])
      /\ \A i \in 1..Len(pieces) : end[i] <= at[i] /\ at[i - 1] < end[i]
  BY <1>2 DEF Lie, Places
<1>4. Upto(pieces, Len(pieces)) = pieces /\ Upto(text, Len(text)) = text
  BY <1>1, SubSeqFull DEF Upto
<1>5. ASSUME pc = "whole" PROVE Letters(joined) = Letters(text)
  <2>1. at[Len(pieces)] = Len(text)
    BY <1>2, <1>5 DEF Lie
  <2>2. Len(pieces) \in 0..Len(pieces) /\ ~(pc = "cut")
    BY <1>1, <1>5
  <2>3. Letters(FlattenSeq(Upto(pieces, Len(pieces)))) = Letters(Upto(text, at[Len(pieces)]))
    BY <1>1, <1>2, <1>3, <2>2, GatheredPieces
  <2> QED BY <1>4, <2>1, <2>3
<1>6. ASSUME pc = "cut" PROVE joined = kept \o Marker /\ IsStrictPrefix(Letters(kept), Letters(text))
  <2>1. Len(pieces) = total /\ total \in 1..Len(pieces) /\ total - 1 \in 0..Len(pieces) /\ total \in 0..Len(pieces)
    BY <1>1, <1>6
  <2>2. PICK j \in at[total - 1]..end[total] : pieces[total] = SubSeq(text, at[total - 1] + 1, j) \o Marker
    BY <1>2, <1>6, <2>1 DEF Lie
  <2> DEFINE a == at[total - 1]
             b == at[total]
             front == FlattenSeq(Upto(pieces, total - 1))
             last == SubSeq(text, a + 1, j)
  <2>3. a \in 0..Len(text) /\ b \in 0..Len(text) /\ b < Len(text) /\ rest = From(text, b)
    <3>1. at[Len(pieces)] < Len(text)
      BY <1>2, <1>6 DEF Lie
    <3> QED BY <1>3, <2>1, <3>1
  <2>4. j \in a..Len(text) /\ j <= b /\ j \in 0..Len(text)
    <3>1. end[total] \in 0..Len(text) /\ end[total] <= b
      BY <1>3, <2>1 DEF Places
    <3> QED BY <1>1, <2>3, <3>1
  <2>5. joined = front \o pieces[total] /\ front \in Seq(Chars)
    BY <1>1, <1>4, <2>1, OneMore
  <2>6. Letters(front) = Letters(Upto(text, a))
    <3>1. total - 1 < total
      BY <1>1
    <3> QED BY <1>1, <1>2, <1>3, <2>1, <3>1, GatheredPieces
  <2>7. pieces[total] = last \o Marker
    BY <2>2
  <2>8. last \in Seq(Chars) /\ Letters(Upto(text, j)) = Letters(Upto(text, a)) \o Letters(last)
    BY <1>1, <2>3, <2>4, LettersSplit
  <2> HIDE DEF front, last, a, b
  <2>9. front \o last \in Seq(Chars) /\ Letters(front \o last) = Letters(Upto(text, j))
    BY <2>5, <2>6, <2>8, ConcatProperties, LettersConcat
  <2>10. joined = (front \o last) \o Marker
    <3>1. (front \o last) \o Marker = front \o (last \o Marker)
      BY <2>5, <2>8, MarkedAfter
    <3> QED BY <2>5, <2>7, <3>1
  <2>11. kept = front \o last
    <3> DEFINE u == front \o last
    <3> HIDE DEF u
    <3>1. u \in Seq(Chars) /\ joined = u \o Marker
      BY <2>9, <2>10 DEF u
    <3> HIDE DEF joined
    <3>2. /\ joined \in Seq(Chars) /\ Len(joined) = Len(u) + Len(Marker)
          /\ \A i \in 1..Len(u) + Len(Marker) : joined[i] = IF i <= Len(u) THEN u[i] ELSE Marker[i - Len(u)]
      BY <3>1, MarkerIsText, ConcatProperties
    <3>3. Len(u) \in Nat /\ Len(Marker) = 3 /\ Len(joined) - Dots = Len(u) /\ Len(u) \in 0..Len(joined)
      BY <3>1, <3>2, MarkerIsText, LenProperties DEF Dots
    <3>4. /\ Upto(joined, Len(u)) \in Seq(Chars) /\ Len(Upto(joined, Len(u))) = Len(u)
          /\ \A i \in 1..Len(u) : Upto(joined, Len(u))[i] = joined[i]
      BY <3>2, <3>3, Beginning
    <3>5. \A i \in 1..Len(u) : joined[i] = u[i]
      BY <3>2, <3>3
    <3>6. Upto(joined, Len(u)) = u
      BY <3>1, <3>4, <3>5, SeqEqual
    <3> QED BY <3>3, <3>6 DEF u
  <2>12. /\ Letters(Upto(text, j)) # Letters(Upto(text, Len(text)))
         /\ IsPrefix(Letters(Upto(text, j)), Letters(Upto(text, Len(text))))
    <3>1. Len(rest) = Len(text) - b /\ rest[1] = text[b + 1] /\ Len(rest) > 0
      <4>1. 1 \in 1..Len(text) - b /\ Len(text) - b > 0
        BY <1>1, <2>3
      <4> QED BY <1>1, <2>3, <4>1, EndingOf
    <3>2. text[b + 1] \notin Space
      BY <1>1, <3>1 DEF Trimmed
    <3>3. b + 1 \in j + 1..Len(text) /\ Len(text) \in j..Len(text)
      BY <1>1, <2>3, <2>4
    <3> QED BY <1>1, <2>4, <3>2, <3>3, MoreLetters
  <2> QED BY <1>4, <2>9, <2>10, <2>11, <2>12 DEF IsStrictPrefix
<1> QED BY <1>5, <1>6 DEF NothingLost

(* Whatever the splits and strips: the letters of the parts together are    *)
(* those of the answer, and those of an answer that was cut short a         *)
(* beginning of it, before the marker, with something missing.              *)
THEOREM NothingLostCorrect == Spec => []NothingLost
BY NothingSkipped, SplitInvariant, InvariantLostNothing, PTL

LEMMA InvariantKeepsWords == IInv /\ Consecutive => WordsKept
<1> SUFFICES ASSUME IInv, Consecutive,
                    NEW i \in 1..(Len(pieces) - 1), NEW n \in 1..Len(text),
                    Letters(Upto(text, n)) = Letters(FlattenSeq(Upto(pieces, i))),
                    text[n] \notin Space, n < Len(text), text[n + 1] \notin Space
             PROVE  Blank \notin Range(pieces[i])
  <2>1. ASSUME IInv, NEW n \in 1..Len(text) - 1
        PROVE  n \in 1..Len(text) /\ n < Len(text)
    BY <2>1, LenProperties DEF IInv, TypeOK, Written
  <2> QED BY <2>1 DEF WordsKept, Broken, Blank
<1>1. /\ text \in Seq(Chars) /\ pieces \in Seq(Seq(Chars)) /\ rest \in Seq(Chars)
      /\ total \in 1..MaxChunks /\ total \in Nat /\ Len(text) \in Nat /\ Len(pieces) \in Nat
      /\ pc = "cut" => Len(pieces) = total
  BY LenProperties, RoomAssumption DEF IInv, TypeOK, Written
<1>2. PICK at, end : Lie(at, end, text, pieces, rest, pc, total)
  BY DEF Consecutive
<1>3. /\ Places(at, end, text, Len(pieces), rest)
      /\ at \in [0..Len(pieces) -> 0..Len(text)] /\ end \in [1..Len(pieces) -> 0..Len(text)]
  BY <1>2 DEF Lie, Places
<1>4. i \in 0..Len(pieces) /\ i \in 1..Len(pieces) /\ i - 1 \in 0..Len(pieces) /\ i \in 0..i
  BY <1>1
<1>5. \A k \in 1..i : pieces[k] = SubSeq(text, at[k - 1] + 1, end[k])
  <2>1. \A k \in 1..i : k \in 1..Len(pieces) /\ ~(pc = "cut" /\ k = total)
    BY <1>1
  <2> QED BY <1>2, <2>1 DEF Lie
<1>6. Letters(FlattenSeq(Upto(pieces, i))) = Letters(Upto(text, at[i]))
  <2>1. pc = "cut" => i < total
    BY <1>1
  <2> QED BY <1>1, <1>2, <1>3, <1>4, <2>1, GatheredPieces
<1> DEFINE b == at[i]
           e == end[i]
           a == at[i - 1]
<1>7. /\ a \in 0..Len(text) /\ b \in 0..Len(text) /\ e \in 0..Len(text) /\ a < e /\ e <= b
      /\ \A j \in e + 1..b : text[j] \in Space
      /\ e = b /\ b < Len(text) => \A j \in a + 1..e : text[j] # Blank
  BY <1>3, <1>4 DEF Places
<1>8. pieces[i] = SubSeq(text, a + 1, e)
  BY <1>4, <1>5
<1>9. Letters(Upto(text, n)) = Letters(Upto(text, b))
  BY <1>6
<1> HIDE DEF a, b, e
<1>10. b = n
  <2>1. CASE b < n
    <3>1. n \in b..Len(text) /\ n \in b + 1..n
      BY <1>1, <1>7, <2>1
    <3> QED BY <1>1, <1>7, <1>9, <3>1, MoreLetters
  <2>2. CASE n < b
    <3>1. n \in 0..Len(text) /\ b \in n..Len(text) /\ n + 1 \in n + 1..b
      BY <1>1, <1>7, <2>2
    <3> QED BY <1>1, <1>9, <3>1, MoreLetters
  <2> QED BY <1>7, <2>1, <2>2
<1>11. e = b
  <2>1. e < b => b \in e + 1..b
    BY <1>7
  <2> QED BY <1>7, <1>10, <2>1
<1>12. \A j \in a + 1..e : text[j] # Blank
  BY <1>7, <1>10, <1>11
<1>13. ASSUME NEW k \in DOMAIN pieces[i] PROVE pieces[i][k] # Blank
  <2>1. a + 1 \in 1..Len(text) + 1 /\ e \in (a + 1) - 1..Len(text)
    BY <1>1, <1>7
  <2> DEFINE t == SubSeq(text, a + 1, e)
  <2>2. /\ t \in Seq(Chars) /\ Len(t) = e - (a + 1) + 1
        /\ \A j \in 1..e - (a + 1) + 1 : t[j] = text[(a + 1) + j - 1]
    BY <1>1, <2>1, Slice
  <2> HIDE DEF t
  <2>3. k \in 1..Len(t) /\ pieces[i] = t
    <3>1. pieces[i] = t
      BY <1>8 DEF t
    <3> QED BY <2>2, <3>1, LenProperties
  <2>4. k \in 1..e - (a + 1) + 1 /\ (a + 1) + k - 1 \in a + 1..e
    BY <1>7, <2>2, <2>3
  <2> QED BY <1>12, <2>2, <2>3, <2>4
<1> QED BY <1>13 DEF Range

(* A word is broken only if the piece it is broken in has no space to break *)
(* at.                                                                      *)
THEOREM WordsKeptCorrect == Spec => []WordsKept
BY NothingSkipped, SplitInvariant, InvariantKeepsWords, PTL

-----------------------------------------------------------------------------
(* The loops of the code end.                                               *)

(* Every step ends the split, or goes on to one part more, of at most       *)
(* MaxChunks, or with the same number of parts leaves less of the text.     *)
GetsOn ==
  \/ ~Done /\ Done'
  \/ total < total' /\ total' <= MaxChunks
  \/ total' = total /\ pc' = pc /\ Len(rest') \in 0..Len(rest) - 1

LEMMA StepsGetOn == IInv /\ [Next]_vars => [GetsOn]_vars
<1> SUFFICES ASSUME IInv, Next PROVE GetsOn \/ UNCHANGED vars
  OBVIOUS
<1>1. /\ rest \in Seq(Chars) /\ Trimmed(rest) /\ Len(rest) \in Nat /\ Len(pieces) \in Nat
      /\ total \in 1..MaxChunks /\ total \in Nat /\ MaxChunks \in Nat
  BY LenProperties, RoomAssumption DEF IInv, TypeOK
<1>2. CASE TakePiece
  <2> DEFINE limit == Capacity(Len(pieces) + 1, total)
  <2>1. rest # << >> /\ Len(pieces) < total /\ rest' = RestOf(rest, limit) /\ total' = total /\ pc' = pc
    BY <1>2 DEF TakePiece
  <2>2. Len(rest) > 0 /\ Len(pieces) + 1 \in 1..total
    BY <1>1, <2>1, EmptySeq
  <2>3. Room(limit)
    BY <1>1, <2>2, CapacityRoom
  <2> HIDE DEF limit
  <2>4. PICK m \in 1..Len(rest) : \E k \in m..Len(rest) : RestOf(rest, limit) = From(rest, k)
    BY <1>1, <2>2, <2>3, PieceAndRest
  <2>5. PICK k \in m..Len(rest) : RestOf(rest, limit) = From(rest, k)
    BY <2>4
  <2>6. Len(rest') = Len(rest) - k /\ k \in 1..Len(rest)
    BY <1>1, <2>1, <2>5, EndingOf
  <2>7. Len(rest') \in 0..Len(rest) - 1
    BY <1>1, <2>6
  <2> QED BY <2>1, <2>7 DEF GetsOn
<1>3. CASE Whole
  BY <1>3 DEF Whole, Done, GetsOn
<1>4. CASE NextTotal
  BY <1>1, <1>4 DEF NextTotal, GetsOn
<1>5. CASE Truncate
  BY <1>5 DEF Truncate, Exhausted, Done, GetsOn
<1>6. CASE Returned
  BY <1>6 DEF Returned
<1> QED BY <1>2, <1>3, <1>4, <1>5, <1>6 DEF Next

(* No answer is split forever: a piece is never empty, so the rest shrinks. *)
THEOREM SplitGetsOn == Spec => [][GetsOn]_vars
BY SplitInvariant, StepsGetOn, PTL DEF Spec

=============================================================================
