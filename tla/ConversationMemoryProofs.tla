----------------------- MODULE ConversationMemoryProofs -----------------------
(***************************************************************************)
(* Theorems about ConversationMemory, for any senders, tasks, stripes and  *)
(* limits: the memory keeps its bounds, its timers and its order, resets   *)
(* forget, and no conversation is interleaved with itself.                 *)
(***************************************************************************)
EXTENDS ConversationMemory, FiniteSetTheorems, FunctionTheorems, SequenceTheorems, WellFoundedInduction, TLAPS

Stripes == {Stripe[s] : s \in Senders}
At(k) == Stripe[job[k].sender]
Distinct(q) == \A i, j \in DOMAIN q : q[i] = q[j] => i = j

(* A task that is not idle is once in the queue of its sender's lock, and   *)
(* nowhere else.                                                            *)
QueuesMatch ==
  /\ \A n \in Stripes : Distinct(queue[n])
  /\ \A n \in Stripes : \A i \in DOMAIN queue[n] : job[queue[n][i]] # Idle /\ At(queue[n][i]) = n
  /\ \A k \in Tasks : job[k] # Idle => \E i \in DOMAIN queue[At(k)] : queue[At(k)][i] = k

(* A request to NOMAD is made under the lock.                               *)
ChatsHold == \A k \in Tasks : job[k].does = "chat" => queue[At(k)][1] = k

(* A lock's queue has the turns of a sender in the order they were taken.   *)
Behind(a, b) == a.sender = b.sender => a.turn <= b.turn /\ (b.does = "ask" => a.turn < b.turn)
Queued(q, jobs) == \A i, j \in DOMAIN q : i < j => Behind(jobs[q[i]], jobs[q[j]])
TurnsQueued == \A n \in Stripes : Queued(queue[n], job)

(* No turn is used before it is taken.                                      *)
TurnsTaken ==
  /\ \A k \in Tasks : job[k] # Idle => job[k].turn <= turns[job[k].sender]
  /\ \A s \in Senders : cleared[s] <= turns[s]
  /\ \A e \in Range(memory) : \A p \in Range(e.pairs) : p.turn <= turns[e.sender]

(* What has not been answered yet is younger than what is remembered and    *)
(* than what was reset.                                                     *)
Unanswered(k) == job[k].does \in {"ask", "chat"}
TurnsFresh ==
  \A k \in Tasks : Unanswered(k) =>
    /\ job[k].turn > cleared[job[k].sender]
    /\ \A e \in Range(memory) : e.sender = job[k].sender => \A p \in Range(e.pairs) : p.turn < job[k].turn

(* Entries in the order of their deadlines, one of each sender.             *)
Aging(entries) == \A i, j \in DOMAIN entries : i < j => entries[i].left <= entries[j].left
OneEach(entries) == \A i, j \in DOMAIN entries : entries[i].sender = entries[j].sender => i = j

Rising(pairs) == \A i, j \in DOMAIN pairs : i < j => pairs[i].turn < pairs[j].turn
PairsFit(e) ==
  /\ Len(e.pairs) \in 1..MaxPairs /\ Weight(e.pairs) <= Budget
  /\ Rising(e.pairs)
  /\ \A p \in Range(e.pairs) : p.turn > cleared[e.sender]
HistoryFits(k) ==
  /\ Weight(job[k].history) <= Budget - job[k].size
  /\ Rising(job[k].history)
  /\ \A p \in Range(job[k].history) : p.turn > cleared[job[k].sender] /\ p.turn < job[k].turn

Clocks(entries) == {[sender |-> e.sender, left |-> e.left] : e \in Range(entries)}

IInv ==
  /\ TypeOK
  /\ QueuesMatch /\ ChatsHold /\ TurnsQueued
  /\ TurnsTaken /\ TurnsFresh
  /\ Aging(memory) /\ OneEach(memory) /\ Len(memory) <= MaxSenders
  /\ timers = Clocks(memory)
  /\ \A e \in Range(memory) : PairsFit(e)
  /\ \A k \in Tasks : job[k].does = "chat" => HistoryFits(k)

-----------------------------------------------------------------------------
(* Sequences.                                                               *)
LEMMA Least ==
  ASSUME NEW S \in SUBSET Nat, S # {}
  PROVE  \E least \in S : \A n \in S : least <= n
<1> DEFINE R == {p \in Nat \X Nat : p[1] < p[2]}
<1>1. IsWellFoundedOn(R, Nat)
  BY NatLessThanWellFounded DEF OpToRel
<1>2. \A m, n \in Nat : m < n => <<m, n>> \in R
  OBVIOUS
<1> HIDE DEF R
<1>3. PICK least \in S : \A n \in S : ~(<<n, least>> \in R)
  BY <1>1, WFMin
<1>4. ASSUME NEW n \in S PROVE least <= n
  <2>1. n \in Nat /\ least \in Nat /\ ~(<<n, least>> \in R)
    BY <1>3
  <2> QED BY <1>2, <2>1
<1> QED BY <1>4

LEMMA WithoutQueue ==
  ASSUME NEW q \in Seq(Tasks), Distinct(q), NEW k \in DOMAIN q
  PROVE  LET rest == RemoveFirst(q, q[k])
         IN  /\ rest \in Seq(Tasks) /\ DOMAIN rest = 1..(Len(q) - 1) /\ Len(q) \in Nat \ {0}
             /\ DOMAIN q = 1..Len(q)
             /\ \A i \in DOMAIN rest : rest[i] = IF i < k THEN q[i] ELSE q[i + 1]
<1>1. DOMAIN q = 1..Len(q) /\ Len(q) \in Nat /\ \A i \in 1..Len(q) : q[i] \in Tasks
  BY LenProperties
<1> DEFINE places == {i \in 1..Len(q) : q[i] = q[k]}
<1>2. places = {k} /\ k \in 1..Len(q)
  BY <1>1 DEF Distinct
<1>3. Min(places) = k
  BY <1>1, <1>2 DEF Min
<1>4. k \in 1..Len(q) /\ Len(q) \in Nat \ {0}
  BY <1>1, <1>2
<1>5. RemoveFirst(q, q[k]) = SubSeq(q, 1, k - 1) \o SubSeq(q, k + 1, Len(q))
  BY <1>2, <1>3 DEF RemoveFirst, RemoveAt, SelectInSeq
<1> DEFINE front == SubSeq(q, 1, k - 1)
           back == SubSeq(q, k + 1, Len(q))
           shorter == front \o back
<1> HIDE DEF places
<1>6. /\ front \in Seq(Tasks) /\ Len(front) = k - 1
      /\ \A i \in 1..(k - 1) : front[i] = q[i]
  <2>1. \A i \in 1..(k - 1) : q[i] \in Tasks
    BY <1>1, <1>4
  <2> QED BY <1>1, <1>4, <2>1, SubSeqProperties
<1>7. /\ back \in Seq(Tasks) /\ Len(back) = Len(q) - k
      /\ \A i \in 1..(Len(q) - k) : back[i] = q[i + k]
  <2>1. \A i \in (k + 1)..Len(q) : q[i] \in Tasks
    BY <1>1, <1>4
  <2>2. /\ back \in Seq(Tasks)
        /\ Len(back) = IF k + 1 <= Len(q) THEN Len(q) - (k + 1) + 1 ELSE 0
        /\ \A i \in 1..(Len(q) - (k + 1) + 1) : back[i] = q[(k + 1) + i - 1]
    <3>1. k + 1 \in Int /\ Len(q) \in Int
      BY <1>1, <1>4
    <3> QED BY <2>1, <3>1, SubSeqProperties
  <2>3. Len(back) = Len(q) - k
    <3>1. k \in Nat /\ Len(q) \in Nat /\ k <= Len(q)
      BY <1>1, <1>4
    <3>2. Len(back) = IF k + 1 <= Len(q) THEN Len(q) - (k + 1) + 1 ELSE 0
      BY <2>2
    <3> HIDE DEF back
    <3> QED BY <3>1, <3>2
  <2>4. ASSUME NEW i \in 1..(Len(q) - k) PROVE back[i] = q[i + k]
    <3>1. i \in 1..(Len(q) - (k + 1) + 1) /\ (k + 1) + i - 1 = i + k
      BY <1>1, <1>4
    <3> QED BY <2>2, <3>1
  <2> QED BY <2>2, <2>3, <2>4
<1> HIDE DEF front, back
<1>8. /\ shorter \in Seq(Tasks) /\ Len(shorter) = Len(q) - 1
      /\ \A i \in 1..(Len(q) - 1) : shorter[i] = IF i < k THEN q[i] ELSE q[i + 1]
  <2>1. /\ shorter \in Seq(Tasks) /\ Len(shorter) = Len(front) + Len(back)
        /\ \A i \in 1..(Len(front) + Len(back)) :
             shorter[i] = IF i <= Len(front) THEN front[i] ELSE back[i - Len(front)]
    BY <1>6, <1>7, ConcatProperties
  <2> HIDE DEF shorter
  <2>2. Len(shorter) = Len(q) - 1
    BY <1>1, <1>4, <1>6, <1>7, <2>1
  <2>3. ASSUME NEW i \in 1..(Len(q) - 1), i < k PROVE shorter[i] = q[i]
    <3>1. i \in 1..(k - 1) /\ i <= Len(front) /\ i \in 1..(Len(front) + Len(back))
      BY <1>1, <1>4, <1>6, <1>7, <2>3
    <3> QED BY <1>6, <2>1, <3>1
  <2>4. ASSUME NEW i \in 1..(Len(q) - 1), ~(i < k) PROVE shorter[i] = q[i + 1]
    <3>1. i - (k - 1) \in 1..(Len(q) - k) /\ (i - (k - 1)) + k = i + 1
      BY <1>1, <1>4, <2>4
    <3>2. shorter[i] = back[i - (k - 1)]
      BY <1>1, <1>4, <1>6, <1>7, <2>1, <2>4
    <3> QED BY <1>7, <3>1, <3>2
  <2> QED BY <2>1, <2>2, <2>3, <2>4
<1> HIDE DEF shorter
<1>9. DOMAIN shorter = 1..(Len(q) - 1)
  BY <1>8, LenProperties
<1> QED BY <1>1, <1>4, <1>5, <1>8, <1>9 DEF shorter, front, back

(* The nth place of a set of places: they are taken in their order, each    *)
(* once.                                                                    *)
LEMMA NthPlace ==
  ASSUME NEW places, IsFiniteSet(places), places \subseteq Nat
  PROVE  /\ Cardinality(places) \in Nat
         /\ \A n \in 1..Cardinality(places) : Nth(places, n) \in places
         /\ \A n, m \in 1..Cardinality(places) : n < m => Nth(places, n) < Nth(places, m)
         /\ \A i \in places : \E n \in 1..Cardinality(places) : Nth(places, n) = i
<1> DEFINE upto(i) == {j \in places : j <= i}
           size == Cardinality(places)
           rank == [i \in places |-> Cardinality(upto(i))]
<1>1. size \in Nat
  BY FS_CardinalityType
<1>2. ASSUME NEW i \in places
      PROVE  IsFiniteSet(upto(i)) /\ Cardinality(upto(i)) \in 1..size
  <2>1. IsFiniteSet(upto(i)) /\ Cardinality(upto(i)) <= size
    BY FS_Subset
  <2>2. Cardinality(upto(i)) \in Nat
    BY <2>1, FS_CardinalityType
  <2>3. i \in upto(i)
    OBVIOUS
  <2>4. Cardinality(upto(i)) # 0
    BY <2>1, <2>3, FS_EmptySet
  <2> QED BY <1>1, <2>1, <2>2, <2>4
<1>3. ASSUME NEW i \in places, NEW j \in places, i < j
      PROVE  Cardinality(upto(i)) < Cardinality(upto(j))
  <2>0. i \in Nat /\ j \in Nat /\ j <= j /\ ~(j <= i)
    BY <1>3
  <2>1. upto(i) \subseteq upto(j) /\ j \in upto(j) /\ ~(j \in upto(i))
    <3>1. ASSUME NEW h \in upto(i) PROVE h \in upto(j)
      <4>1. h \in Nat /\ h <= i /\ h \in places
        OBVIOUS
      <4> QED BY <1>3, <2>0, <4>1
    <3> QED BY <2>0, <3>1
  <2>2. IsFiniteSet(upto(j)) /\ Cardinality(upto(j)) \in 1..size /\ Cardinality(upto(i)) \in 1..size
    BY <1>2
  <2> HIDE DEF upto, size
  <2>3. Cardinality(upto(i)) <= Cardinality(upto(j)) /\ Cardinality(upto(i)) # Cardinality(upto(j))
    BY <2>1, <2>2, FS_Subset
  <2> QED BY <1>1, <2>2, <2>3
<1>4. rank \in [places -> 1..size]
  BY <1>2
<1>5. \A i, j \in places : i < j => rank[i] < rank[j]
  BY <1>3
<1>6. \A n \in 1..size : Nth(places, n) = CHOOSE i \in places : rank[i] = n
  BY DEF Nth
<1>7. size = Cardinality(places)
  OBVIOUS
<1> HIDE DEF rank, size
<1>8. \A i, j \in places : rank[i] = rank[j] => i = j
  <2>1. ASSUME NEW i \in places, NEW j \in places, rank[i] = rank[j] PROVE i = j
    <3>1. i \in Nat /\ j \in Nat /\ rank[i] \in Nat /\ rank[j] \in Nat
      BY <1>1, <1>4
    <3>2. ~(i < j) /\ ~(j < i)
      BY <1>5, <2>1, <3>1
    <3> QED BY <3>1, <3>2
  <2> QED BY <2>1
<1>9. rank \in Injection(places, 1..size)
  BY <1>4, <1>8 DEF Injection, IsInjective
<1>10. IsFiniteSet(1..size) /\ Cardinality(1..size) = size
  BY <1>1, FS_Interval
<1>11. rank \in Surjection(places, 1..size)
  BY <1>7, <1>9, <1>10, FS_Injection
<1>12. \A n \in 1..size : \E i \in places : rank[i] = n
  BY <1>11 DEF Surjection
<1>13. \A n \in 1..size : Nth(places, n) \in places /\ rank[Nth(places, n)] = n
  BY <1>6, <1>12
<1>14. ASSUME NEW n \in 1..size, NEW m \in 1..size, n < m PROVE Nth(places, n) < Nth(places, m)
  <2>1. /\ Nth(places, n) \in places /\ Nth(places, m) \in places
        /\ rank[Nth(places, n)] = n /\ rank[Nth(places, m)] = m
    BY <1>13
  <2>2. Nth(places, n) \in Nat /\ Nth(places, m) \in Nat
    BY <2>1
  <2>3. n \in Nat /\ m \in Nat /\ n # m /\ ~(m < n)
    BY <1>1, <1>14
  <2>4. Nth(places, m) # Nth(places, n)
    BY <2>1, <2>3
  <2>5. ~(Nth(places, m) < Nth(places, n))
    BY <1>5, <2>1, <2>3
  <2> QED BY <2>2, <2>4, <2>5
<1>15. ASSUME NEW i \in places PROVE \E n \in 1..size : Nth(places, n) = i
  <2>1. rank[i] \in 1..size
    BY <1>4
  <2>2. rank[Nth(places, rank[i])] = rank[i] /\ Nth(places, rank[i]) \in places
    BY <1>13, <2>1
  <2> QED BY <1>8, <2>1, <2>2
<1> QED BY <1>1, <1>7, <1>13, <1>14, <1>15

(* Forgetting leaves the other entries, in their order.                     *)
LEMMA ForgettingKeeps ==
  ASSUME NEW entries \in Seq(Entry), NEW who
  PROVE  LET kept == Kept(entries, who)
             rest == Forgetting(entries, who)
         IN  /\ IsFiniteSet(kept) /\ kept \subseteq DOMAIN entries /\ Cardinality(kept) \in Nat
             /\ rest \in Seq(Entry) /\ DOMAIN rest = 1..Cardinality(kept) /\ Len(rest) = Cardinality(kept)
             /\ \A n \in DOMAIN rest : Nth(kept, n) \in kept /\ rest[n] = entries[Nth(kept, n)]
             /\ \A n, m \in DOMAIN rest : n < m => Nth(kept, n) < Nth(kept, m)
             /\ Range(rest) = {e \in Range(entries) : e.sender \notin who}
<1> DEFINE kept == Kept(entries, who)
           rest == Forgetting(entries, who)
<1>1. DOMAIN entries = 1..Len(entries) /\ Len(entries) \in Nat /\ \A i \in DOMAIN entries : entries[i] \in Entry
  BY LenProperties, ElementOfSeq
<1>2. kept \subseteq DOMAIN entries /\ \A i \in DOMAIN entries : i \in kept <=> entries[i].sender \notin who
  BY DEF Kept
<1>3. IsFiniteSet(kept) /\ kept \subseteq Nat
  <2>1. IsFiniteSet(DOMAIN entries)
    BY <1>1, FS_Interval
  <2> QED BY <1>1, <1>2, <2>1, FS_Subset
<1>4. rest = [n \in 1..Cardinality(kept) |-> entries[Nth(kept, n)]]
  BY DEF Forgetting
<1> HIDE DEF kept, rest
<1>5. /\ Cardinality(kept) \in Nat
      /\ \A n \in 1..Cardinality(kept) : Nth(kept, n) \in kept
      /\ \A n, m \in 1..Cardinality(kept) : n < m => Nth(kept, n) < Nth(kept, m)
      /\ \A i \in kept : \E n \in 1..Cardinality(kept) : Nth(kept, n) = i
  BY <1>3, NthPlace
<1>6. DOMAIN rest = 1..Cardinality(kept) /\ \A n \in DOMAIN rest : rest[n] = entries[Nth(kept, n)]
  BY <1>4
<1>7. rest \in Seq(Entry)
  <2>1. rest \in [1..Cardinality(kept) -> Entry]
    BY <1>1, <1>2, <1>4, <1>5
  <2> QED BY <1>5, <2>1, SeqDef
<1>8. Len(rest) = Cardinality(kept)
  BY <1>5, <1>6, <1>7, LenProperties
<1>9. Range(rest) = {e \in Range(entries) : e.sender \notin who}
  <2>1. ASSUME NEW e \in Range(rest) PROVE e \in Range(entries) /\ e.sender \notin who
    BY <1>2, <1>5, <1>6 DEF Range
  <2>2. ASSUME NEW e \in Range(entries), e.sender \notin who PROVE e \in Range(rest)
    <3>1. PICK i \in DOMAIN entries : entries[i] = e
      BY DEF Range
    <3>2. PICK n \in DOMAIN rest : Nth(kept, n) = i
      BY <1>2, <1>5, <1>6, <2>2, <3>1
    <3> QED BY <1>6, <3>1, <3>2 DEF Range
  <2> QED BY <2>1, <2>2
<1> QED BY <1>2, <1>3, <1>5, <1>6, <1>7, <1>8, <1>9 DEF kept, rest

-----------------------------------------------------------------------------
(* Histories.                                                               *)

LEMMA EmptyWeight == Weight(<< >>) = 0
<1> DEFINE sum == [n \in 0..0 |-> 0]
           rule(f) == [n \in 0..Len(<< >>) |-> IF n = 0 THEN 0 ELSE f[n - 1] + << >>[n].size]
           total == CHOOSE f : f = rule(f)
<1>1. Len(<< >>) = 0
  OBVIOUS
<1>2. sum = rule(sum)
  BY <1>1
<1>3. total = rule(total)
  <2> HIDE DEF sum, rule
  <2> QED BY <1>2
<1>4. total[0] = 0
  BY <1>1, <1>3
<1>5. Weight(<< >>) = total[0]
  BY <1>1 DEF Weight
<1> QED BY <1>4, <1>5

(* What _limit_pairs returns is a suffix within both limits.                *)
LEMMA LimitPairsFits ==
  ASSUME NEW pairs \in Seq(Pair), NEW budget \in Nat
  PROVE  LET kept == LimitPairs(pairs, budget)
         IN  /\ kept \in Seq(Pair)
             /\ Len(kept) \in 0..MaxPairs /\ Weight(kept) <= budget
             /\ Range(kept) \subseteq Range(pairs)
             /\ Rising(pairs) => Rising(kept)
<1> DEFINE fits(n) == n <= MaxPairs /\ Weight(Newest(pairs, n)) <= budget
           most(n) == fits(n) /\ \A m \in (n + 1)..Len(pairs) : ~fits(m)
           size == CHOOSE n \in 0..Len(pairs) : most(n)
<1>1. DOMAIN pairs = 1..Len(pairs) /\ Len(pairs) \in Nat /\ \A i \in 1..Len(pairs) : pairs[i] \in Pair
  BY LenProperties, ElementOfSeq
<1>2. MaxPairs \in Nat
  BY MemoryAssumption
<1>3. fits(0)
  <2>1. Newest(pairs, 0) = SubSeq(pairs, Len(pairs) + 1, Len(pairs))
    BY <1>1 DEF Newest
  <2>2. SubSeq(pairs, Len(pairs) + 1, Len(pairs)) = << >>
    BY <1>1, SubSeqEmpty
  <2>3. Weight(Newest(pairs, 0)) = 0
    BY <2>1, <2>2, EmptyWeight
  <2> QED BY <1>2, <2>3
<1> HIDE DEF fits
<1>4. \E n \in 0..Len(pairs) : most(n)
  <2> DEFINE room == {m \in 0..Len(pairs) : fits(Len(pairs) - m)}
  <2>1. room \in SUBSET Nat /\ Len(pairs) \in room
    BY <1>1, <1>3
  <2>2. PICK least \in room : \A m \in room : least <= m
    <3> HIDE DEF room
    <3> QED BY <2>1, Least
  <2>3. Len(pairs) - least \in 0..Len(pairs) /\ fits(Len(pairs) - least) /\ least \in 0..Len(pairs)
    BY <1>1
  <2>4. ASSUME NEW m \in (Len(pairs) - least + 1)..Len(pairs), fits(m) PROVE FALSE
    <3>1. Len(pairs) - m \in 0..Len(pairs) /\ Len(pairs) - (Len(pairs) - m) = m
      BY <1>1, <2>3
    <3>2. Len(pairs) - m \in room
      BY <2>4, <3>1
    <3>3. least <= Len(pairs) - m
      BY <2>2, <3>2
    <3> QED BY <1>1, <2>3, <3>3
  <2> QED BY <2>3, <2>4
<1>5. size \in 0..Len(pairs) /\ fits(size)
  <2> HIDE DEF fits
  <2>1. size \in 0..Len(pairs) /\ most(size)
    <3> HIDE DEF most
    <3> QED BY <1>4
  <2> QED BY <2>1
<1>6. LimitPairs(pairs, budget) = Newest(pairs, size)
  BY DEF LimitPairs, fits
<1> DEFINE kept == Newest(pairs, size)
<1> HIDE DEF most, size
<1>7. size \in Nat /\ size <= Len(pairs) /\ size <= MaxPairs /\ Weight(kept) <= budget
  BY <1>1, <1>5 DEF fits
<1>8. kept \in Seq(Pair) /\ Len(kept) = size /\ \A i \in 1..size : kept[i] = pairs[Len(pairs) - size + i]
  <2> DEFINE first == Len(pairs) - size + 1
  <2>1. first \in Int /\ Len(pairs) \in Int /\ first \in Nat \ {0}
    BY <1>1, <1>7
  <2>2. \A i \in first..Len(pairs) : pairs[i] \in Pair
    BY <1>1, <2>1
  <2>3. kept = SubSeq(pairs, first, Len(pairs))
    BY DEF Newest
  <2> HIDE DEF kept
  <2>4. /\ kept \in Seq(Pair)
        /\ Len(kept) = IF first <= Len(pairs) THEN Len(pairs) - first + 1 ELSE 0
        /\ \A i \in 1..(Len(pairs) - first + 1) : kept[i] = pairs[first + i - 1]
    <3> HIDE DEF first
    <3> QED BY <2>1, <2>2, <2>3, SubSeqProperties
  <2>5. Len(kept) = size
    BY <1>1, <1>7, <2>4
  <2>6. ASSUME NEW i \in 1..size PROVE kept[i] = pairs[Len(pairs) - size + i]
    <3>1. i \in 1..(Len(pairs) - first + 1) /\ first + i - 1 = Len(pairs) - size + i
      BY <1>1, <1>7
    <3> QED BY <2>4, <3>1
  <2> QED BY <2>4, <2>5, <2>6
<1> HIDE DEF kept
<1>9. DOMAIN kept = 1..size
  BY <1>8, LenProperties
<1>10. Range(kept) \subseteq Range(pairs)
  <2>1. ASSUME NEW i \in 1..size PROVE kept[i] \in Range(pairs)
    <3>1. Len(pairs) - size + i \in 1..Len(pairs)
      BY <1>1, <1>7
    <3> QED BY <1>1, <1>8, <3>1 DEF Range
  <2> QED BY <1>9, <2>1 DEF Range
<1>11. ASSUME Rising(pairs) PROVE Rising(kept)
  <2>1. ASSUME NEW i \in 1..size, NEW j \in 1..size, i < j PROVE kept[i].turn < kept[j].turn
    <3>1. /\ Len(pairs) - size + i \in 1..Len(pairs) /\ Len(pairs) - size + j \in 1..Len(pairs)
          /\ Len(pairs) - size + i < Len(pairs) - size + j
      BY <1>1, <1>7, <2>1
    <3>2. pairs[Len(pairs) - size + i].turn < pairs[Len(pairs) - size + j].turn
      BY <1>1, <1>11, <3>1 DEF Rising
    <3> QED BY <1>8, <3>2
  <2> QED BY <1>9, <2>1 DEF Rising
<1>12. Len(kept) \in 0..MaxPairs
  BY <1>2, <1>7, <1>8
<1> QED BY <1>6, <1>7, <1>8, <1>10, <1>11, <1>12 DEF kept

(* A history and a turn younger than all of it.                             *)
LEMMA RisingAppended ==
  ASSUME NEW pairs \in Seq(Pair), Rising(pairs), NEW pair \in Pair, \A p \in Range(pairs) : p.turn < pair.turn
  PROVE  /\ Append(pairs, pair) \in Seq(Pair)
         /\ Range(Append(pairs, pair)) = Range(pairs) \cup {pair}
         /\ Rising(Append(pairs, pair))
<1> DEFINE longer == Append(pairs, pair)
<1>1. /\ longer \in Seq(Pair) /\ Len(longer) = Len(pairs) + 1
      /\ \A i \in 1..Len(pairs) : longer[i] = pairs[i]
      /\ longer[Len(pairs) + 1] = pair
  BY AppendProperties
<1> HIDE DEF longer
<1>2. DOMAIN pairs = 1..Len(pairs) /\ DOMAIN longer = 1..(Len(pairs) + 1) /\ Len(pairs) \in Nat
  BY <1>1, LenProperties
<1>3. Range(longer) = Range(pairs) \cup {pair}
  BY <1>1, <1>2 DEF Range
<1>4. Rising(longer)
  <2>1. ASSUME NEW i \in 1..(Len(pairs) + 1), NEW j \in 1..(Len(pairs) + 1), i < j
        PROVE  longer[i].turn < longer[j].turn
    <3>1. i \in 1..Len(pairs) /\ longer[i] = pairs[i]
      BY <1>1, <1>2, <2>1
    <3>2. CASE j \in 1..Len(pairs)
      BY <1>1, <1>2, <2>1, <3>1, <3>2 DEF Rising
    <3>3. CASE j = Len(pairs) + 1
      <4>1. pairs[i] \in Range(pairs)
        BY <1>2, <3>1 DEF Range
      <4> QED BY <1>1, <3>1, <3>3, <4>1
    <3> QED BY <1>2, <3>2, <3>3
  <2> QED BY <1>2, <2>1 DEF Rising
<1> QED BY <1>1, <1>3, <1>4 DEF longer

-----------------------------------------------------------------------------
(* The entries.                                                             *)

LEMMA EntriesTyped ==
  ASSUME NEW entries \in Seq(Entry)
  PROVE  /\ DOMAIN entries = 1..Len(entries) /\ Len(entries) \in Nat
         /\ \A i \in DOMAIN entries : entries[i] \in Entry
         /\ \A e \in Range(entries) : /\ e \in Entry /\ e.sender \in Senders /\ e.left \in 0..Ttl
                                      /\ e.pairs \in Seq(Pair)
<1>1. DOMAIN entries = 1..Len(entries) /\ Len(entries) \in Nat
  BY LenProperties
<1>2. \A i \in DOMAIN entries : entries[i] \in Entry
  BY <1>1, ElementOfSeq
<1>3. ASSUME NEW e \in Range(entries) PROVE e \in Entry
  BY <1>2 DEF Range
<1>4. \A e \in Entry : e.sender \in Senders /\ e.left \in 0..Ttl /\ e.pairs \in Seq(Pair)
  BY DEF Entry
<1> QED BY <1>1, <1>2, <1>3, <1>4

LEMMA ForgettingOrdered ==
  ASSUME NEW entries \in Seq(Entry), Aging(entries), OneEach(entries), NEW who
  PROVE  LET rest == Forgetting(entries, who)
         IN  /\ rest \in Seq(Entry) /\ Aging(rest) /\ OneEach(rest) /\ Len(rest) <= Len(entries)
             /\ Range(rest) = {e \in Range(entries) : e.sender \notin who}
             /\ Clocks(rest) = {c \in Clocks(entries) : c.sender \notin who}
<1> DEFINE kept == Kept(entries, who)
           rest == Forgetting(entries, who)
<1>1. /\ IsFiniteSet(kept) /\ kept \subseteq DOMAIN entries /\ Cardinality(kept) \in Nat
      /\ rest \in Seq(Entry) /\ DOMAIN rest = 1..Cardinality(kept) /\ Len(rest) = Cardinality(kept)
      /\ \A n \in DOMAIN rest : Nth(kept, n) \in kept /\ rest[n] = entries[Nth(kept, n)]
      /\ \A n, m \in DOMAIN rest : n < m => Nth(kept, n) < Nth(kept, m)
      /\ Range(rest) = {e \in Range(entries) : e.sender \notin who}
  BY ForgettingKeeps
<1> HIDE DEF kept, rest
<1>2. DOMAIN entries = 1..Len(entries) /\ Len(entries) \in Nat
  BY EntriesTyped
<1>3. Aging(rest)
  <2>1. ASSUME NEW i \in DOMAIN rest, NEW j \in DOMAIN rest, i < j PROVE rest[i].left <= rest[j].left
    <3>1. /\ Nth(kept, i) \in DOMAIN entries /\ Nth(kept, j) \in DOMAIN entries
          /\ Nth(kept, i) < Nth(kept, j)
          /\ rest[i] = entries[Nth(kept, i)] /\ rest[j] = entries[Nth(kept, j)]
      BY <1>1, <2>1
    <3> QED BY <3>1 DEF Aging
  <2> QED BY <2>1 DEF Aging
<1>4. OneEach(rest)
  <2>1. ASSUME NEW i \in DOMAIN rest, NEW j \in DOMAIN rest, rest[i].sender = rest[j].sender PROVE i = j
    <3>1. /\ Nth(kept, i) \in DOMAIN entries /\ Nth(kept, j) \in DOMAIN entries
          /\ rest[i] = entries[Nth(kept, i)] /\ rest[j] = entries[Nth(kept, j)]
      BY <1>1
    <3>2. Nth(kept, i) = Nth(kept, j)
      BY <2>1, <3>1 DEF OneEach
    <3>3. i \in Nat /\ j \in Nat /\ Nth(kept, i) \in Nat
      BY <1>1, <1>2, <3>1
    <3>4. ~(i < j) /\ ~(j < i)
      <4>1. i < j => Nth(kept, i) < Nth(kept, j)
        BY <1>1
      <4>2. j < i => Nth(kept, j) < Nth(kept, i)
        BY <1>1
      <4> QED BY <3>2, <3>3, <4>1, <4>2
    <3> QED BY <3>3, <3>4
  <2> QED BY <2>1 DEF OneEach
<1>5. Len(rest) <= Len(entries)
  <2>1. IsFiniteSet(DOMAIN entries) /\ Cardinality(DOMAIN entries) = Len(entries)
    BY <1>2, FS_Interval
  <2> QED BY <1>1, <2>1, FS_Subset
<1>6. Clocks(rest) = {c \in Clocks(entries) : c.sender \notin who}
  BY <1>1 DEF Clocks
<1> QED BY <1>1, <1>3, <1>4, <1>5, <1>6 DEF rest

(* The entry put in last has the latest deadline.                           *)
LEMMA EntryAppended ==
  ASSUME NEW entries \in Seq(Entry), Aging(entries), OneEach(entries),
         NEW e \in Entry, e.left = Ttl, \A d \in Range(entries) : d.sender # e.sender
  PROVE  LET longer == Append(entries, e)
         IN  /\ longer \in Seq(Entry) /\ Aging(longer) /\ OneEach(longer) /\ Len(longer) = Len(entries) + 1
             /\ Range(longer) = Range(entries) \cup {e}
             /\ Clocks(longer) = Clocks(entries) \cup {[sender |-> e.sender, left |-> e.left]}
<1> DEFINE longer == Append(entries, e)
<1>1. /\ longer \in Seq(Entry) /\ Len(longer) = Len(entries) + 1
      /\ \A i \in 1..Len(entries) : longer[i] = entries[i]
      /\ longer[Len(entries) + 1] = e
  BY AppendProperties
<1> HIDE DEF longer
<1>2. DOMAIN longer = 1..(Len(entries) + 1)
  BY <1>1, LenProperties
<1>3. /\ DOMAIN entries = 1..Len(entries) /\ Len(entries) \in Nat
      /\ \A i \in DOMAIN entries : entries[i] \in Range(entries) /\ entries[i].left <= Ttl /\ entries[i].left \in Nat
  <2>1. DOMAIN entries = 1..Len(entries) /\ Len(entries) \in Nat /\ \A d \in Range(entries) : d.left \in 0..Ttl
    BY EntriesTyped
  <2>2. \A i \in DOMAIN entries : entries[i] \in Range(entries)
    BY DEF Range
  <2> QED BY <2>1, <2>2, MemoryAssumption
<1>4. Range(longer) = Range(entries) \cup {e}
  BY <1>1, <1>2, <1>3 DEF Range
<1>5. \A i \in 1..(Len(entries) + 1) : i \in DOMAIN entries \/ i = Len(entries) + 1
  BY <1>3
<1>6. ASSUME NEW i \in DOMAIN longer, NEW j \in DOMAIN longer, i < j
      PROVE  longer[i].left <= longer[j].left
  <2>1. i \in DOMAIN entries /\ longer[i] = entries[i]
    BY <1>1, <1>2, <1>3, <1>6
  <2>2. CASE j \in DOMAIN entries
    BY <1>1, <1>3, <1>6, <2>1, <2>2 DEF Aging
  <2>3. CASE j = Len(entries) + 1
    BY <1>1, <1>3, <2>1, <2>3
  <2> QED BY <1>2, <1>5, <2>2, <2>3
<1>7. ASSUME NEW i \in DOMAIN longer, NEW j \in DOMAIN longer, longer[i].sender = longer[j].sender
      PROVE  i = j
  <2>1. CASE i \in DOMAIN entries /\ j \in DOMAIN entries
    BY <1>1, <1>3, <1>7, <2>1 DEF OneEach
  <2>2. CASE i \in DOMAIN entries /\ j = Len(entries) + 1
    BY <1>1, <1>3, <1>7, <2>2
  <2>3. CASE i = Len(entries) + 1 /\ j \in DOMAIN entries
    BY <1>1, <1>3, <1>7, <2>3
  <2> QED BY <1>2, <1>5, <2>1, <2>2, <2>3
<1>8. Clocks(longer) = Clocks(entries) \cup {[sender |-> e.sender, left |-> e.left]}
  BY <1>4 DEF Clocks
<1> QED BY <1>1, <1>4, <1>6, <1>7, <1>8 DEF longer, Aging, OneEach

(* Making room: what is forgotten is older than what stays, and what stays  *)
(* leaves room for one.                                                     *)
LEMMA RoomMade ==
  ASSUME NEW entries \in Seq(Entry), Aging(entries), OneEach(entries)
  PROVE  LET rest == Forgetting(entries, Oldest(entries))
         IN  /\ Len(rest) < MaxSenders
             /\ \A d \in Range(entries), e \in Range(rest) : d.sender \in Oldest(entries) => d.left <= e.left
<1> DEFINE surplus == Len(entries) + 1 - MaxSenders
           front == SubSeq(entries, 1, surplus)
           out == Oldest(entries)
           kept == Kept(entries, out)
           rest == Forgetting(entries, out)
<1>1. /\ DOMAIN entries = 1..Len(entries) /\ Len(entries) \in Nat
      /\ \A i \in DOMAIN entries : entries[i] \in Entry
  BY EntriesTyped
<1>2. MaxSenders \in Nat \ {0} /\ surplus \in Int /\ surplus <= Len(entries)
  BY <1>1, MemoryAssumption
<1>3. out = {entries[i].sender : i \in 1..surplus}
  <2>1. /\ front \in Seq(Entry)
        /\ Len(front) = IF 1 <= surplus THEN surplus - 1 + 1 ELSE 0
        /\ \A i \in 1..(surplus - 1 + 1) : front[i] = entries[1 + i - 1]
    <3>1. \A i \in 1..surplus : entries[i] \in Entry
      BY <1>1, <1>2
    <3> HIDE DEF surplus
    <3> QED BY <1>2, <3>1, SubSeqProperties
  <2>2. out = {e.sender : e \in Range(front)}
    BY DEF Oldest
  <2> HIDE DEF front, surplus
  <2>3. DOMAIN front = 1..surplus
    <3>1. DOMAIN front = 1..Len(front)
      BY <2>1, LenProperties
    <3>2. 1..Len(front) = 1..surplus
      BY <1>2, <2>1
    <3> QED BY <3>1, <3>2
  <2>4. \A i \in 1..surplus : front[i] = entries[i]
    <3>1. ASSUME NEW i \in 1..surplus PROVE front[i] = entries[i]
      <4>1. i \in 1..(surplus - 1 + 1) /\ 1 + i - 1 = i
        BY <1>2
      <4> QED BY <2>1, <4>1
    <3> QED BY <3>1
  <2>5. Range(front) = {entries[i] : i \in 1..surplus}
    BY <2>3, <2>4 DEF Range
  <2> QED BY <2>2, <2>5
<1>4. /\ IsFiniteSet(kept) /\ kept \subseteq DOMAIN entries /\ Len(rest) = Cardinality(kept)
      /\ \A n \in DOMAIN rest : Nth(kept, n) \in kept /\ rest[n] = entries[Nth(kept, n)]
  BY ForgettingKeeps
<1>5. \A i \in kept : entries[i].sender \notin out
  BY DEF Kept
<1> HIDE DEF out, kept, rest, front
<1>6. \A i \in kept : i > surplus
  <2>1. ASSUME NEW i \in kept, ~(i > surplus) PROVE FALSE
    <3>1. i \in 1..surplus
      BY <1>1, <1>2, <1>4, <2>1
    <3> QED BY <1>3, <1>5, <3>1
  <2> QED BY <2>1
<1>7. Len(rest) < MaxSenders
  <2>1. CASE surplus >= 0
    <3>1. kept \subseteq (surplus + 1)..Len(entries)
      BY <1>1, <1>2, <1>4, <1>6
    <3>2. /\ IsFiniteSet((surplus + 1)..Len(entries))
          /\ Cardinality((surplus + 1)..Len(entries)) = IF surplus + 1 > Len(entries) THEN 0
                                                        ELSE Len(entries) - (surplus + 1) + 1
      <4>1. surplus + 1 \in Int /\ Len(entries) \in Int
        BY <1>1, <1>2
      <4> HIDE DEF surplus
      <4> QED BY <4>1, FS_Interval
    <3>3. Cardinality((surplus + 1)..Len(entries)) = Len(entries) - surplus
      <4> HIDE DEF surplus
      <4> QED BY <1>1, <1>2, <3>2
    <3>4. Cardinality(kept) <= Cardinality((surplus + 1)..Len(entries))
      BY <3>1, <3>2, FS_Subset
    <3>5. Cardinality(kept) \in Nat
      BY <1>4, FS_CardinalityType
    <3> QED BY <1>1, <1>2, <1>4, <3>3, <3>4, <3>5
  <2>2. CASE surplus < 0
    <3>1. IsFiniteSet(1..Len(entries)) /\ Cardinality(1..Len(entries)) = Len(entries)
      BY <1>1, FS_Interval
    <3>2. Cardinality(kept) <= Len(entries) /\ Cardinality(kept) \in Nat
      BY <1>1, <1>4, <3>1, FS_Subset, FS_CardinalityType
    <3> QED BY <1>1, <1>2, <1>4, <2>2, <3>2
  <2> QED BY <1>2, <2>1, <2>2
<1>8. ASSUME NEW d \in Range(entries), NEW e \in Range(rest), d.sender \in out
      PROVE  d.left <= e.left
  <2>1. PICK i \in 1..surplus : entries[i].sender = d.sender
    BY <1>3, <1>8
  <2>2. PICK h \in DOMAIN entries : entries[h] = d
    BY DEF Range
  <2>3. h = i
    <3>1. i \in DOMAIN entries
      BY <1>1, <1>2
    <3> QED BY <2>1, <2>2, <3>1 DEF OneEach
  <2>4. PICK n \in DOMAIN rest : rest[n] = e
    BY DEF Range
  <2>5. Nth(kept, n) \in DOMAIN entries /\ Nth(kept, n) > surplus /\ e = entries[Nth(kept, n)]
    BY <1>4, <1>6, <2>4
  <2>6. h < Nth(kept, n)
    <3>1. Nth(kept, n) \in Int
      BY <1>1, <2>5
    <3> QED BY <1>2, <2>1, <2>3, <2>5, <3>1
  <2> QED BY <2>2, <2>5, <2>6 DEF Aging
<1> QED BY <1>7, <1>8 DEF out, rest

-----------------------------------------------------------------------------
(* The queues.                                                              *)

LEMMA JobTyped ==
  ASSUME TypeOK, NEW k \in Tasks, job[k] # Idle
  PROVE  /\ job[k].does \in {"ask", "reset", "chat"}
         /\ job[k].sender \in Senders /\ job[k].turn \in Nat /\ job[k].size \in Nat
         /\ At(k) \in Stripes /\ queue[At(k)] \in Seq(Tasks)
         /\ job[k].does = "chat" => job[k].history \in Seq(Pair)
<1>1. job[k] \in [does : {"ask", "reset"}, sender : Senders, turn : Nat, size : Nat] \cup
                 [does : {"chat"}, sender : Senders, turn : Nat, size : Nat, history : Seq(Pair)]
  BY DEF TypeOK, Job
<1>2. /\ job[k].does \in {"ask", "reset", "chat"}
      /\ job[k].sender \in Senders /\ job[k].turn \in Nat /\ job[k].size \in Nat
      /\ job[k].does = "chat" => job[k].history \in Seq(Pair)
  BY <1>1
<1>3. At(k) \in Stripes /\ queue[At(k)] \in Seq(Tasks)
  BY <1>2 DEF At, Stripes, TypeOK
<1> QED BY <1>2, <1>3

LEMMA IdleDoes == \A k \in Tasks : job[k] = Idle => job[k].does = "idle"
  BY DEF Idle

(* The place of a task in the queue of its lock; a chat's is the first.     *)
LEMMA PlaceInQueue ==
  ASSUME TypeOK, QueuesMatch, NEW k \in Tasks, job[k] # Idle
  PROVE  /\ queue[At(k)] # << >> /\ Head(queue[At(k)]) = queue[At(k)][1]
         /\ DOMAIN queue[At(k)] = 1..Len(queue[At(k)]) /\ Len(queue[At(k)]) \in Nat \ {0}
         /\ \E i \in DOMAIN queue[At(k)] : queue[At(k)][i] = k
<1>1. queue[At(k)] \in Seq(Tasks)
  BY JobTyped
<1>2. PICK i \in DOMAIN queue[At(k)] : queue[At(k)][i] = k
  BY DEF QueuesMatch
<1>3. DOMAIN queue[At(k)] = 1..Len(queue[At(k)]) /\ Len(queue[At(k)]) \in Nat
  BY <1>1, LenProperties
<1>4. Len(queue[At(k)]) \in Nat \ {0} /\ queue[At(k)] # << >>
  BY <1>2, <1>3
<1>5. Head(queue[At(k)]) = queue[At(k)][1]
  BY <1>1, <1>4
<1> QED BY <1>2, <1>3, <1>4, <1>5

(* A task joins the end of its lock's queue.                                *)
LEMMA JoinKeeps ==
  ASSUME IInv, NEW k \in Tasks, job[k] = Idle, NEW s \in Senders,
         NEW new, new.sender = s, new # Idle, new.does \in {"ask", "reset"},
         job' = [job EXCEPT ![k] = new],
         queue' = [queue EXCEPT ![Stripe[s]] = Append(@, k)],
         new.turn \in Nat,
         \A i \in Tasks : job[i] # Idle => Behind(job[i], new)
  PROVE  /\ queue' \in [Stripes -> Seq(Tasks)]
         /\ QueuesMatch' /\ ChatsHold' /\ TurnsQueued'
<1> DEFINE n == Stripe[s]
           q == queue[n]
           longer == Append(q, k)
<1> USE DEF IInv
<1>1. TypeOK /\ n \in Stripes /\ q \in Seq(Tasks) /\ queue \in [Stripes -> Seq(Tasks)] /\ job \in [Tasks -> Job]
  BY DEF TypeOK, Stripes
<1>2. /\ longer \in Seq(Tasks) /\ Len(longer) = Len(q) + 1 /\ longer # << >>
      /\ \A i \in 1..Len(q) : longer[i] = q[i]
      /\ longer[Len(q) + 1] = k
  <2> HIDE DEF q, IInv
  <2> QED BY <1>1, AppendProperties
<1>3. DOMAIN q = 1..Len(q) /\ DOMAIN longer = 1..(Len(q) + 1) /\ Len(q) \in Nat
  BY <1>1, <1>2, LenProperties
<1>4. queue' = [queue EXCEPT ![n] = longer]
  OBVIOUS
<1>5. queue'[n] = longer /\ \A m \in Stripes : m # n => queue'[m] = queue[m]
  BY <1>1, <1>4
<1>6. job'[k] = new /\ \A i \in Tasks : i # k => job'[i] = job[i]
  BY <1>1
<1>7. queue' \in [Stripes -> Seq(Tasks)]
  BY <1>1, <1>2, <1>4
<1>8. \A m \in Stripes : \A i \in DOMAIN queue[m] : queue[m][i] \in Tasks /\ queue[m][i] # k
  <2>1. ASSUME NEW m \in Stripes, NEW i \in DOMAIN queue[m] PROVE queue[m][i] \in Tasks /\ queue[m][i] # k
    <3>1. queue[m] \in Seq(Tasks)
      BY <1>1
    <3>2. queue[m][i] \in Tasks
      BY <3>1, LenProperties, ElementOfSeq
    <3>3. job[queue[m][i]] # Idle
      BY DEF QueuesMatch
    <3> QED BY <3>2, <3>3
  <2> QED BY <2>1
<1> HIDE DEF n, q, longer
<1>n. n = Stripe[s] /\ q = queue[n]
  BY DEF n, q
<1>i. \A i \in 1..(Len(q) + 1) : i \in DOMAIN q \/ i = Len(q) + 1
  BY <1>3
<1>9. \A m \in Stripes : Distinct(queue'[m])
  <2>1. Distinct(longer)
    <3>1. ASSUME NEW i \in DOMAIN longer, NEW j \in DOMAIN longer, longer[i] = longer[j] PROVE i = j
      <4>0. \A h \in DOMAIN q : q[h] # k /\ longer[h] = q[h]
        BY <1>1, <1>2, <1>3, <1>8, <1>n
      <4>1. CASE i \in DOMAIN q /\ j \in DOMAIN q
        BY <1>1, <1>n, <3>1, <4>0, <4>1 DEF QueuesMatch, Distinct
      <4>2. CASE ~(i \in DOMAIN q /\ j \in DOMAIN q)
        BY <1>2, <1>3, <1>i, <3>1, <4>0, <4>2
      <4> QED BY <4>1, <4>2
    <3> QED BY <3>1 DEF Distinct
  <2>2. \A m \in Stripes : m # n => Distinct(queue'[m])
    BY <1>5 DEF QueuesMatch
  <2> QED BY <1>5, <2>1, <2>2
<1>10. ASSUME NEW m \in Stripes, NEW i \in DOMAIN queue'[m]
       PROVE  job'[queue'[m][i]] # Idle /\ Stripe[job'[queue'[m][i]].sender] = m
  <2>1. CASE m = n /\ i = Len(q) + 1
    BY <1>2, <1>5, <1>6, <1>n, <2>1
  <2>2. CASE ~(m = n /\ i = Len(q) + 1)
    <3>1. i \in DOMAIN queue[m] /\ queue'[m][i] = queue[m][i]
      <4>1. CASE m = n
        BY <1>2, <1>3, <1>5, <1>i, <1>n, <1>10, <2>2, <4>1
      <4>2. CASE m # n
        BY <1>5, <1>10, <4>2
      <4> QED BY <4>1, <4>2
    <3>2. queue[m][i] \in Tasks /\ queue[m][i] # k
      BY <1>8, <3>1
    <3>3. job'[queue'[m][i]] = job[queue[m][i]]
      BY <1>6, <3>1, <3>2
    <3> QED BY <3>1, <3>3 DEF QueuesMatch, At
  <2> QED BY <2>1, <2>2
<1>11. ASSUME NEW j \in Tasks, job'[j] # Idle
       PROVE  \E i \in DOMAIN queue'[Stripe[job'[j].sender]] : queue'[Stripe[job'[j].sender]][i] = j
  <2>1. CASE j = k
    <3>1. Stripe[job'[j].sender] = n
      BY <1>6, <1>n, <2>1
    <3>2. Len(q) + 1 \in DOMAIN queue'[n] /\ queue'[n][Len(q) + 1] = k
      BY <1>2, <1>3, <1>5
    <3> QED BY <2>1, <3>1, <3>2
  <2>2. CASE j # k
    <3>1. job'[j] = job[j]
      BY <1>6, <2>2
    <3>2. PICK i \in DOMAIN queue[At(j)] : queue[At(j)][i] = j
      BY <1>11, <3>1 DEF QueuesMatch
    <3>3. At(j) \in Stripes
      BY <1>1, <1>11, <3>1, JobTyped
    <3>4. i \in DOMAIN queue'[At(j)] /\ queue'[At(j)][i] = j
      <4>1. CASE At(j) = n
        BY <1>2, <1>3, <1>5, <1>n, <3>2, <4>1
      <4>2. CASE At(j) # n
        BY <1>5, <3>2, <3>3, <4>2
      <4> QED BY <4>1, <4>2
    <3>5. Stripe[job'[j].sender] = At(j)
      BY <3>1 DEF At
    <3> QED BY <3>4, <3>5
  <2> QED BY <2>1, <2>2
<1>12. QueuesMatch'
  BY <1>9, <1>10, <1>11 DEF QueuesMatch, At
<1>13. ChatsHold'
  <2>1. ASSUME NEW j \in Tasks, job'[j].does = "chat" PROVE queue'[Stripe[job'[j].sender]][1] = j
    <3>1. j # k /\ job'[j] = job[j] /\ job[j] # Idle
      BY <1>6, <2>1 DEF Idle
    <3>2. At(j) \in Stripes /\ Stripe[job'[j].sender] = At(j) /\ queue[At(j)][1] = j
      BY <1>1, <2>1, <3>1, JobTyped DEF ChatsHold, At
    <3>3. 1 \in DOMAIN queue[At(j)]
      BY <1>1, <3>1, PlaceInQueue
    <3>4. queue'[At(j)][1] = queue[At(j)][1]
      <4>1. CASE At(j) = n
        BY <1>2, <1>3, <1>5, <1>n, <3>3, <4>1
      <4>2. CASE At(j) # n
        BY <1>5, <3>2, <4>2
      <4> QED BY <4>1, <4>2
    <3> QED BY <3>2, <3>4
  <2> QED BY <2>1 DEF ChatsHold, At
<1>14. TurnsQueued'
  <2>1. ASSUME NEW m \in Stripes, NEW i \in DOMAIN queue'[m], NEW j \in DOMAIN queue'[m], i < j
        PROVE  Behind(job'[queue'[m][i]], job'[queue'[m][j]])
    <3>0. m = n => queue'[m] = longer /\ queue[m] = q
      BY <1>5, <1>n
    <3>1. i \in DOMAIN queue[m] /\ queue'[m][i] = queue[m][i]
      <4>1. CASE m = n
        <5>1. i \in 1..(Len(q) + 1) /\ j \in 1..(Len(q) + 1)
          BY <1>3, <2>1, <3>0, <4>1
        <5>2. i \in 1..Len(q)
          BY <1>3, <2>1, <5>1
        <5> QED BY <1>2, <1>3, <3>0, <4>1, <5>2
      <4>2. CASE m # n
        BY <1>5, <2>1, <4>2
      <4> QED BY <4>1, <4>2
    <3>2. queue[m][i] \in Tasks /\ job'[queue'[m][i]] = job[queue[m][i]] /\ job[queue[m][i]] # Idle
      BY <1>6, <1>8, <3>1 DEF QueuesMatch
    <3>3. CASE m = n /\ j = Len(q) + 1
      <4>1. job'[queue'[m][j]] = new
        BY <1>2, <1>6, <3>0, <3>3
      <4> QED BY <3>2, <4>1
    <3>4. CASE ~(m = n /\ j = Len(q) + 1)
      <4>1. j \in DOMAIN queue[m] /\ queue'[m][j] = queue[m][j]
        <5>1. CASE m = n
          BY <1>2, <1>3, <1>i, <2>1, <3>0, <3>4, <5>1
        <5>2. CASE m # n
          BY <1>5, <2>1, <5>2
        <5> QED BY <5>1, <5>2
      <4>2. job'[queue'[m][j]] = job[queue[m][j]]
        BY <1>6, <1>8, <4>1
      <4> QED BY <2>1, <3>1, <3>2, <4>1, <4>2 DEF TurnsQueued, Queued
    <3> QED BY <3>3, <3>4
  <2> QED BY <2>1 DEF TurnsQueued, Queued
<1> QED BY <1>7, <1>12, <1>13, <1>14

(* A task leaves its place in the queue, the first or not.                  *)
LEMMA LeaveKeeps ==
  ASSUME IInv, NEW k \in Tasks, job[k] # Idle, Leave(k)
  PROVE  /\ job' \in [Tasks -> Job] /\ queue' \in [Stripes -> Seq(Tasks)]
         /\ job'[k] = Idle /\ \A i \in Tasks : i # k => job'[i] = job[i]
         /\ QueuesMatch' /\ ChatsHold' /\ TurnsQueued'
<1> DEFINE n == At(k)
           q == queue[n]
           rest == RemoveFirst(q, k)
           place == CHOOSE i \in DOMAIN q : q[i] = k
           old(i) == IF i < place THEN i ELSE i + 1
<1> USE DEF IInv
<1>1. TypeOK /\ n \in Stripes /\ q \in Seq(Tasks) /\ queue \in [Stripes -> Seq(Tasks)] /\ job \in [Tasks -> Job]
  BY JobTyped DEF TypeOK, Stripes
<1>2. place \in DOMAIN q /\ q[place] = k /\ Distinct(q)
  BY <1>1 DEF QueuesMatch
<1>3. /\ rest \in Seq(Tasks) /\ DOMAIN rest = 1..(Len(q) - 1) /\ Len(q) \in Nat \ {0} /\ DOMAIN q = 1..Len(q)
      /\ \A i \in DOMAIN rest : rest[i] = IF i < place THEN q[i] ELSE q[i + 1]
  <2> HIDE DEF q, place, IInv
  <2> QED BY <1>1, <1>2, WithoutQueue
<1>4. queue' = [queue EXCEPT ![n] = rest] /\ job' = [job EXCEPT ![k] = Idle]
  BY DEF Leave, At
<1>5. queue'[n] = rest /\ \A m \in Stripes : m # n => queue'[m] = queue[m]
  BY <1>1, <1>4
<1>6. job'[k] = Idle /\ \A i \in Tasks : i # k => job'[i] = job[i]
  BY <1>1, <1>4
<1>7. queue' \in [Stripes -> Seq(Tasks)] /\ job' \in [Tasks -> Job]
  BY <1>1, <1>3, <1>4 DEF Job
<1>n. n = At(k) /\ q = queue[n]
  OBVIOUS
<1> HIDE DEF n, q, rest, place
<1>8. ASSUME NEW i \in DOMAIN rest PROVE old(i) \in DOMAIN q /\ old(i) # place /\ rest[i] = q[old(i)]
  <2>1. i \in 1..(Len(q) - 1) /\ place \in 1..Len(q) /\ Len(q) \in Nat
    BY <1>2, <1>3
  <2> QED BY <1>3, <2>1
<1>9. \A i, j \in DOMAIN rest : i < j => old(i) < old(j)
  <2>1. place \in Int /\ \A i \in DOMAIN rest : i \in Int
    BY <1>2, <1>3
  <2> QED BY <2>1
<1>10. ASSUME NEW h \in DOMAIN q, h # place PROVE \E i \in DOMAIN rest : old(i) = h
  <2>1. h \in 1..Len(q) /\ place \in 1..Len(q) /\ Len(q) \in Nat /\ DOMAIN rest = 1..(Len(q) - 1)
    BY <1>2, <1>3
  <2>2. CASE h < place
    <3>1. h \in DOMAIN rest /\ old(h) = h
      BY <2>1, <2>2
    <3> QED BY <3>1
  <2>3. CASE h > place
    <3>1. h - 1 \in DOMAIN rest /\ old(h - 1) = h
      BY <2>1, <2>3
    <3> QED BY <3>1
  <2> QED BY <1>10, <2>1, <2>2, <2>3
<1>11. \A m \in Stripes : \A i \in DOMAIN queue[m] : queue[m][i] \in Tasks /\ (queue[m][i] = k => m = n /\ i = place)
  <2>1. ASSUME NEW m \in Stripes, NEW i \in DOMAIN queue[m]
        PROVE  queue[m][i] \in Tasks /\ (queue[m][i] = k => m = n /\ i = place)
    <3>1. queue[m] \in Seq(Tasks)
      BY <1>1
    <3>2. queue[m][i] \in Tasks
      BY <3>1, LenProperties, ElementOfSeq
    <3>3. queue[m][i] = k => m = n
      BY <1>n DEF QueuesMatch
    <3>4. queue[m][i] = k => i = place
      BY <1>2, <1>n, <3>3 DEF Distinct
    <3> QED BY <3>2, <3>3, <3>4
  <2> QED BY <2>1
<1> HIDE DEF old
(* Where an element of a queue was before, and that its job is what it was. *)
<1>12. ASSUME NEW m \in Stripes, NEW i \in DOMAIN queue'[m]
       PROVE  LET h == IF m = n THEN old(i) ELSE i
              IN  /\ h \in DOMAIN queue[m] /\ queue'[m][i] = queue[m][h]
                  /\ queue[m][h] \in Tasks /\ queue[m][h] # k /\ job'[queue'[m][i]] = job[queue[m][h]]
  <2>1. CASE m = n
    <3>1. old(i) \in DOMAIN queue[m] /\ old(i) # place /\ queue'[m][i] = queue[m][old(i)]
      BY <1>5, <1>8, <1>12, <1>n, <2>1
    <3>2. queue[m][old(i)] \in Tasks /\ queue[m][old(i)] # k
      BY <1>11, <3>1
    <3> QED BY <1>6, <2>1, <3>1, <3>2
  <2>2. CASE m # n
    <3>1. i \in DOMAIN queue[m] /\ queue'[m][i] = queue[m][i]
      BY <1>5, <1>12, <2>2
    <3>2. queue[m][i] \in Tasks /\ queue[m][i] # k
      BY <1>11, <2>2, <3>1
    <3> QED BY <1>6, <2>2, <3>1, <3>2
  <2> QED BY <2>1, <2>2
<1>13. ASSUME NEW m \in Stripes, NEW i \in DOMAIN queue'[m], NEW j \in DOMAIN queue'[m]
       PROVE  /\ i < j => (IF m = n THEN old(i) ELSE i) < (IF m = n THEN old(j) ELSE j)
              /\ old(i) = old(j) /\ m = n => i = j
  <2>1. CASE m = n
    <3>1. i \in DOMAIN rest /\ j \in DOMAIN rest /\ i \in Int /\ j \in Int
      BY <1>3, <1>5, <1>13, <2>1
    <3>2. (i < j => old(i) < old(j)) /\ (j < i => old(j) < old(i)) /\ old(i) \in Int
      BY <1>3, <1>8, <1>9, <3>1
    <3> QED BY <2>1, <3>1, <3>2
  <2> QED BY <2>1
<1>14. ASSUME NEW m \in Stripes PROVE Distinct(queue'[m])
  <2>1. ASSUME NEW i \in DOMAIN queue'[m], NEW j \in DOMAIN queue'[m], queue'[m][i] = queue'[m][j] PROVE i = j
    <3> DEFINE h == IF m = n THEN old(i) ELSE i
               g == IF m = n THEN old(j) ELSE j
    <3>1. h \in DOMAIN queue[m] /\ g \in DOMAIN queue[m] /\ queue[m][h] = queue[m][g]
      BY <1>12, <2>1
    <3>2. h = g
      <4> HIDE DEF h, g
      <4> QED BY <3>1 DEF QueuesMatch, Distinct
    <3> QED BY <1>13, <3>2
  <2> QED BY <2>1 DEF Distinct
<1>15. ASSUME NEW m \in Stripes, NEW i \in DOMAIN queue'[m]
       PROVE  job'[queue'[m][i]] # Idle /\ Stripe[job'[queue'[m][i]].sender] = m
  BY <1>12 DEF QueuesMatch, At
<1>16. ASSUME NEW j \in Tasks, job'[j] # Idle
       PROVE  \E i \in DOMAIN queue'[Stripe[job'[j].sender]] : queue'[Stripe[job'[j].sender]][i] = j
  <2>1. j # k /\ job'[j] = job[j]
    BY <1>6, <1>16
  <2>2. PICK h \in DOMAIN queue[At(j)] : queue[At(j)][h] = j
    BY <1>16, <2>1 DEF QueuesMatch
  <2>3. Stripe[job'[j].sender] = At(j) /\ At(j) \in Stripes
    BY <1>1, <1>16, <2>1, JobTyped DEF At
  <2>4. CASE At(j) = n
    <3>1. h \in DOMAIN q /\ h # place
      BY <1>2, <1>n, <2>1, <2>2, <2>4
    <3>2. PICK i \in DOMAIN rest : old(i) = h
      BY <1>10, <3>1
    <3>3. rest[i] = j
      BY <1>8, <1>n, <2>2, <2>4, <3>2
    <3> QED BY <1>5, <2>3, <2>4, <3>3
  <2>5. CASE At(j) # n
    BY <1>5, <2>2, <2>3, <2>5
  <2> QED BY <2>4, <2>5
<1>17. QueuesMatch'
  BY <1>14, <1>15, <1>16 DEF QueuesMatch, At
<1>18. ASSUME NEW j \in Tasks, job'[j].does = "chat" PROVE queue'[Stripe[job'[j].sender]][1] = j
  <2>1. j # k /\ job'[j] = job[j] /\ job[j] # Idle
    BY <1>6, <1>18 DEF Idle
  <2>2. At(j) \in Stripes /\ Stripe[job'[j].sender] = At(j) /\ queue[At(j)][1] = j
    BY <1>1, <1>18, <2>1, JobTyped DEF ChatsHold, At
  <2>3. CASE At(j) = n
    <3>1. 1 \in DOMAIN q /\ 1 # place
      BY <1>2, <1>3, <1>n, <2>1, <2>2, <2>3
    <3>2. 1 < place /\ 1 \in DOMAIN rest
      BY <1>2, <1>3, <3>1
    <3>3. rest[1] = q[1]
      BY <1>3, <3>2
    <3> QED BY <1>5, <1>n, <2>2, <2>3, <3>3
  <2>4. CASE At(j) # n
    BY <1>5, <2>2, <2>4
  <2> QED BY <2>3, <2>4
<1>19. ASSUME NEW m \in Stripes, NEW i \in DOMAIN queue'[m], NEW j \in DOMAIN queue'[m], i < j
       PROVE  Behind(job'[queue'[m][i]], job'[queue'[m][j]])
  <2> DEFINE h == IF m = n THEN old(i) ELSE i
             g == IF m = n THEN old(j) ELSE j
  <2>1. /\ h \in DOMAIN queue[m] /\ g \in DOMAIN queue[m]
        /\ job'[queue'[m][i]] = job[queue[m][h]] /\ job'[queue'[m][j]] = job[queue[m][g]]
    BY <1>12
  <2>2. h < g
    BY <1>13, <1>19
  <2> HIDE DEF h, g
  <2> QED BY <2>1, <2>2 DEF TurnsQueued, Queued
<1>20. ChatsHold' /\ TurnsQueued'
  BY <1>18, <1>19 DEF ChatsHold, At, TurnsQueued, Queued
<1> QED BY <1>6, <1>7, <1>17, <1>20

-----------------------------------------------------------------------------
(* The steps.                                                               *)

(* Entries are forgotten with their timers.                                 *)
LEMMA MemoryForgets ==
  ASSUME IInv, NEW who, memory' = Forgetting(memory, who), timers' = CancelTimersOf(who)
  PROVE  /\ memory' \in Seq(Entry) /\ timers' \subseteq [sender : Senders, left : 0..Ttl]
         /\ Aging(memory)' /\ OneEach(memory)' /\ Len(memory') <= MaxSenders
         /\ timers' = Clocks(memory')
         /\ Range(memory') = {e \in Range(memory) : e.sender \notin who}
<1>1. memory \in Seq(Entry) /\ Aging(memory) /\ OneEach(memory) /\ Len(memory) <= MaxSenders /\ timers = Clocks(memory)
  BY DEF IInv, TypeOK
<1>2. /\ memory' \in Seq(Entry) /\ Aging(memory') /\ OneEach(memory') /\ Len(memory') <= Len(memory)
      /\ Range(memory') = {e \in Range(memory) : e.sender \notin who}
      /\ Clocks(memory') = {c \in Clocks(memory) : c.sender \notin who}
  BY <1>1, ForgettingOrdered
<1>3. timers' = Clocks(memory')
  BY <1>1, <1>2 DEF CancelTimersOf
<1>4. timers' \subseteq [sender : Senders, left : 0..Ttl]
  BY DEF IInv, TypeOK, CancelTimersOf
<1>5. Len(memory') <= MaxSenders
  <2>1. Len(memory) \in Nat /\ Len(memory') \in Nat /\ MaxSenders \in Nat
    BY <1>1, <1>2, LenProperties, MemoryAssumption
  <2> QED BY <1>1, <1>2, <2>1
<1>6. Aging(memory)' /\ OneEach(memory)'
  BY <1>2 DEF Aging, OneEach
<1> QED BY <1>2, <1>3, <1>4, <1>5, <1>6

(* Jobs end and entries are forgotten: what is left fits as it did.         *)
LEMMA PastKept ==
  ASSUME IInv, \A e \in Range(memory') : \E d \in Range(memory) : d.sender = e.sender /\ d.pairs = e.pairs,
         UNCHANGED <<turns, cleared>>,
         \A i \in Tasks : job'[i] = job[i] \/ job'[i] = Idle
  PROVE  /\ TurnsTaken' /\ TurnsFresh'
         /\ \A e \in Range(memory') : PairsFit(e)'
         /\ \A i \in Tasks : job'[i].does = "chat" => HistoryFits(i)'
<1>1. Idle.does = "idle"
  BY DEF Idle
<1>2. TurnsTaken'
  <2>1. \A i \in Tasks : job'[i] # Idle => job'[i].turn <= turns'[job'[i].sender]
    BY DEF IInv, TurnsTaken
  <2>2. \A s \in Senders : cleared'[s] <= turns'[s]
    BY DEF IInv, TurnsTaken
  <2>3. \A e \in Range(memory') : \A p \in Range(e.pairs) : p.turn <= turns'[e.sender]
    BY DEF IInv, TurnsTaken
  <2> QED BY <2>1, <2>2, <2>3 DEF TurnsTaken
<1>3. TurnsFresh'
  <2>1. ASSUME NEW i \in Tasks, job'[i].does \in {"ask", "chat"}
        PROVE  /\ job'[i].turn > cleared'[job'[i].sender]
               /\ \A e \in Range(memory') : e.sender = job'[i].sender => \A p \in Range(e.pairs) : p.turn < job'[i].turn
    <3>1. job'[i] = job[i] /\ Unanswered(i)
      BY <1>1, <2>1 DEF Unanswered
    <3>2. /\ job[i].turn > cleared[job[i].sender]
          /\ \A e \in Range(memory) : e.sender = job[i].sender => \A p \in Range(e.pairs) : p.turn < job[i].turn
      BY <3>1 DEF IInv, TurnsFresh
    <3> QED BY <3>1, <3>2
  <2> QED BY <2>1 DEF TurnsFresh, Unanswered
<1>4. ASSUME NEW e \in Range(memory') PROVE PairsFit(e)'
  <2>1. PICK d \in Range(memory) : d.sender = e.sender /\ d.pairs = e.pairs
    OBVIOUS
  <2>2. PairsFit(d)
    BY DEF IInv
  <2> QED BY <2>1, <2>2 DEF PairsFit
<1>5. ASSUME NEW i \in Tasks, job'[i].does = "chat" PROVE HistoryFits(i)'
  <2>1. job'[i] = job[i] /\ HistoryFits(i)
    BY <1>1, <1>5 DEF IInv
  <2> QED BY <2>1 DEF HistoryFits
<1> QED BY <1>2, <1>3, <1>4, <1>5

LEMMA FailKeeps == ASSUME IInv, NEW k \in Tasks, Fail(k) PROVE IInv'
<1>1. job[k] # Idle /\ Leave(k) /\ UNCHANGED <<memory, timers, turns, cleared>>
  BY DEF Fail
<1>2. /\ job' \in [Tasks -> Job] /\ queue' \in [Stripes -> Seq(Tasks)]
      /\ job'[k] = Idle /\ \A i \in Tasks : i # k => job'[i] = job[i]
      /\ QueuesMatch' /\ ChatsHold' /\ TurnsQueued'
  BY <1>1, LeaveKeeps
<1>3. /\ TurnsTaken' /\ TurnsFresh'
      /\ \A e \in Range(memory') : PairsFit(e)'
      /\ \A i \in Tasks : job'[i].does = "chat" => HistoryFits(i)'
  BY <1>1, <1>2, PastKept
<1>4. TypeOK' /\ Aging(memory)' /\ OneEach(memory)' /\ Len(memory') <= MaxSenders /\ timers' = Clocks(memory')
  BY <1>1, <1>2 DEF IInv, TypeOK, Stripes, Aging, OneEach
<1> QED BY <1>2, <1>3, <1>4 DEF IInv

LEMMA TimerFiresKeeps == ASSUME IInv, NEW t \in timers, TimerFires(t) PROVE IInv'
<1>1. /\ memory' = Forgetting(memory, {t.sender}) /\ timers' = CancelTimersOf({t.sender})
      /\ UNCHANGED <<job, queue, turns, cleared>>
  BY DEF TimerFires, CancelTimersOf
<1>2. /\ memory' \in Seq(Entry) /\ timers' \subseteq [sender : Senders, left : 0..Ttl]
      /\ Aging(memory)' /\ OneEach(memory)' /\ Len(memory') <= MaxSenders
      /\ timers' = Clocks(memory')
      /\ Range(memory') = {e \in Range(memory) : e.sender \notin {t.sender}}
  BY <1>1, MemoryForgets
<1>3. /\ TurnsTaken' /\ TurnsFresh'
      /\ \A e \in Range(memory') : PairsFit(e)'
      /\ \A i \in Tasks : job'[i].does = "chat" => HistoryFits(i)'
  BY <1>1, <1>2, PastKept
<1>4. TypeOK'
  BY <1>1, <1>2 DEF IInv, TypeOK
<1>5. QueuesMatch' /\ ChatsHold' /\ TurnsQueued'
  BY <1>1 DEF IInv, QueuesMatch, ChatsHold, TurnsQueued, At
<1> QED BY <1>2, <1>3, <1>4, <1>5 DEF IInv

LEMMA CloseKeeps == ASSUME IInv, Close PROVE IInv'
<1>1. memory' = << >> /\ timers' = CancelTimersOf(Remembered) /\ UNCHANGED <<job, queue, turns, cleared>>
  BY DEF Close
<1>2. Range(memory') = {} /\ DOMAIN memory' = {} /\ Len(memory') = 0 /\ memory' \in Seq(Entry)
  BY <1>1 DEF Range
<1>3. timers' = {}
  <2>1. \A t \in timers : t.sender \in Remembered
    BY DEF IInv, Clocks, Remembered
  <2> QED BY <1>1, <2>1 DEF CancelTimersOf
<1>4. Clocks(memory') = {}
  BY <1>2 DEF Clocks
<1>5. Aging(memory)' /\ OneEach(memory)'
  BY <1>2 DEF Aging, OneEach
<1>6. /\ TurnsTaken' /\ TurnsFresh'
      /\ \A e \in Range(memory') : PairsFit(e)'
      /\ \A i \in Tasks : job'[i].does = "chat" => HistoryFits(i)'
  BY <1>1, <1>2, PastKept
<1>7. TypeOK'
  BY <1>1, <1>2, <1>3 DEF IInv, TypeOK
<1>8. QueuesMatch' /\ ChatsHold' /\ TurnsQueued'
  BY <1>1 DEF IInv, QueuesMatch, ChatsHold, TurnsQueued, At
<1>9. Len(memory') <= MaxSenders
  BY <1>2, MemoryAssumption
<1> QED BY <1>3, <1>4, <1>5, <1>6, <1>7, <1>8, <1>9 DEF IInv

LEMMA TickKeeps == ASSUME IInv, Tick PROVE IInv'
<1>1. /\ memory' = [i \in DOMAIN memory |-> [memory[i] EXCEPT !.left = Less(@)]]
      /\ timers' = {[t EXCEPT !.left = Less(@)] : t \in timers}
      /\ UNCHANGED <<job, queue, turns, cleared>>
  BY DEF Tick
<1>2. memory \in Seq(Entry) /\ DOMAIN memory = 1..Len(memory) /\ Len(memory) \in Nat /\ \A i \in DOMAIN memory : memory[i] \in Entry
  BY EntriesTyped DEF IInv, TypeOK
<1>3. Ttl \in Nat /\ \A n \in 0..Ttl : Less(n) \in 0..Ttl
  BY MemoryAssumption DEF Less
<1>4. \A n, m \in 0..Ttl : n <= m => Less(n) <= Less(m)
  BY <1>3 DEF Less
<1>5. DOMAIN memory' = DOMAIN memory
  BY <1>1
<1>6. ASSUME NEW i \in DOMAIN memory
      PROVE  /\ memory'[i] \in Entry /\ memory'[i].sender = memory[i].sender /\ memory'[i].pairs = memory[i].pairs
             /\ memory'[i].left = Less(memory[i].left) /\ memory[i].left \in 0..Ttl
  <2>1. memory[i] \in [sender : Senders, pairs : Seq(Pair), left : 0..Ttl]
    BY <1>2 DEF Entry
  <2>2. memory'[i] = [memory[i] EXCEPT !.left = Less(@)]
    BY <1>1
  <2>3. Less(memory[i].left) \in 0..Ttl
    BY <1>3, <2>1
  <2> QED BY <2>1, <2>2, <2>3 DEF Entry
<1>7. memory' \in Seq(Entry) /\ Len(memory') = Len(memory)
  <2>1. memory' \in [1..Len(memory) -> Entry]
    BY <1>1, <1>2, <1>6
  <2>2. memory' \in Seq(Entry)
    BY <1>2, <2>1, SeqDef
  <2> QED BY <1>2, <1>5, <2>2, LenProperties
<1>8. Aging(memory)' /\ OneEach(memory)'
  <2>1. Aging(memory) /\ OneEach(memory)
    BY DEF IInv
  <2> QED BY <1>4, <1>5, <1>6, <2>1 DEF Aging, OneEach
<1>9. timers' = Clocks(memory')
  <2>1. timers = {[sender |-> memory[i].sender, left |-> memory[i].left] : i \in DOMAIN memory}
    BY DEF IInv, Clocks, Range
  <2>2. timers' = {[sender |-> memory[i].sender, left |-> Less(memory[i].left)] : i \in DOMAIN memory}
    <3> DEFINE clock(i) == [sender |-> memory[i].sender, left |-> memory[i].left]
               later(i) == [sender |-> memory[i].sender, left |-> Less(memory[i].left)]
               ticked(t) == [t EXCEPT !.left = Less(@)]
    <3>1. ASSUME NEW i PROVE ticked(clock(i)) = later(i)
      <4> HIDE DEF Less
      <4> QED OBVIOUS
    <3>2. timers = {clock(i) : i \in DOMAIN memory} /\ timers' = {ticked(t) : t \in timers}
      BY <1>1, <2>1
    <3> HIDE DEF clock, ticked, later
    <3>3. timers' = {later(i) : i \in DOMAIN memory}
      BY <3>1, <3>2
    <3> QED BY <3>3 DEF later
  <2>3. Clocks(memory') = {[sender |-> memory'[i].sender, left |-> memory'[i].left] : i \in DOMAIN memory}
    BY <1>5 DEF Clocks, Range
  <2> QED BY <1>6, <2>2, <2>3
<1>10. timers' \subseteq [sender : Senders, left : 0..Ttl]
  <2>1. \A e \in Range(memory') : e.sender \in Senders /\ e.left \in 0..Ttl
    BY <1>7, EntriesTyped
  <2> QED BY <1>9, <2>1 DEF Clocks
<1>11. \A e \in Range(memory') : \E d \in Range(memory) : d.sender = e.sender /\ d.pairs = e.pairs
  BY <1>5, <1>6 DEF Range
<1>12. /\ TurnsTaken' /\ TurnsFresh'
       /\ \A e \in Range(memory') : PairsFit(e)'
       /\ \A i \in Tasks : job'[i].does = "chat" => HistoryFits(i)'
  BY <1>1, <1>11, PastKept
<1>13. TypeOK'
  BY <1>1, <1>7, <1>10 DEF IInv, TypeOK
<1>14. QueuesMatch' /\ ChatsHold' /\ TurnsQueued'
  BY <1>1 DEF IInv, QueuesMatch, ChatsHold, TurnsQueued, At
<1>15. Len(memory') <= MaxSenders
  BY <1>7 DEF IInv
<1> QED BY <1>8, <1>9, <1>12, <1>13, <1>14, <1>15 DEF IInv

(* A question takes the next turn of its sender.                            *)
LEMMA AskKeeps == ASSUME IInv, NEW k \in Tasks, NEW s \in Senders, Ask(k, s) PROVE IInv'
<1>0. TypeOK /\ job \in [Tasks -> Job] /\ turns \in [Senders -> Nat] /\ job[k] = Idle
  BY DEF IInv, TypeOK, Ask
<1>1. PICK size \in Sizes[s] :
        job' = [job EXCEPT ![k] = [does |-> "ask", sender |-> s, turn |-> turns[s] + 1, size |-> size]]
  BY DEF Ask
<1> DEFINE new == [does |-> "ask", sender |-> s, turn |-> turns[s] + 1, size |-> size]
<1>2. /\ job' = [job EXCEPT ![k] = new] /\ queue' = [queue EXCEPT ![Stripe[s]] = Append(@, k)]
      /\ turns' = [turns EXCEPT ![s] = @ + 1] /\ UNCHANGED <<memory, timers, cleared>>
  BY <1>1 DEF Ask
<1>3. turns[s] \in Nat /\ size \in Nat
  BY <1>0, MemoryAssumption
<1>4. new \in Job /\ new.sender = s /\ new.turn = turns[s] + 1 /\ new.turn \in Nat /\ new.does = "ask" /\ new # Idle
  BY <1>3 DEF Job, Idle
<1> HIDE DEF new
<1>5. \A i \in Tasks : job[i] # Idle => Behind(job[i], new)
  <2>1. ASSUME NEW i \in Tasks, job[i] # Idle, job[i].sender = s PROVE job[i].turn < new.turn
    <3>1. job[i].turn <= turns[s] /\ job[i].turn \in Nat
      BY <1>0, <2>1, JobTyped DEF IInv, TurnsTaken
    <3> QED BY <1>3, <1>4, <3>1
  <2>2. ASSUME NEW i \in Tasks, job[i] # Idle PROVE job[i].turn \in Nat
    BY <1>0, <2>2, JobTyped
  <2> QED BY <1>4, <2>1, <2>2 DEF Behind
<1>6. queue' \in [Stripes -> Seq(Tasks)] /\ QueuesMatch' /\ ChatsHold' /\ TurnsQueued'
  BY <1>0, <1>2, <1>4, <1>5, JoinKeeps
<1>7. job'[k] = new /\ \A i \in Tasks : i # k => job'[i] = job[i]
  BY <1>0, <1>2
<1>8. turns'[s] = turns[s] + 1 /\ \A r \in Senders : r # s => turns'[r] = turns[r]
  BY <1>0, <1>2
<1>9. \A r \in Senders : turns[r] <= turns'[r] /\ turns[r] \in Nat /\ turns'[r] \in Nat
  BY <1>0, <1>3, <1>8
<1>10. TypeOK'
  <2>1. job' \in [Tasks -> Job] /\ turns' \in [Senders -> Nat]
    BY <1>0, <1>2, <1>4
  <2> QED BY <1>2, <1>6, <2>1 DEF IInv, TypeOK, Stripes
<1>11. memory \in Seq(Entry) /\ \A e \in Range(memory) : e.sender \in Senders /\ e.pairs \in Seq(Pair)
  BY <1>0, EntriesTyped DEF TypeOK
<1>12. \A e \in Range(memory) : \A p \in Range(e.pairs) : p.turn \in Nat
  <2>1. ASSUME NEW e \in Range(memory), NEW p \in Range(e.pairs) PROVE p.turn \in Nat
    <3>1. PICK i \in DOMAIN e.pairs : e.pairs[i] = p
      BY DEF Range
    <3>2. p \in Pair
      BY <1>11, <3>1, LenProperties, ElementOfSeq
    <3> QED BY <3>2 DEF Pair
  <2> QED BY <2>1
<1>13. TurnsTaken'
  <2>1. ASSUME NEW i \in Tasks, job'[i] # Idle PROVE job'[i].turn <= turns'[job'[i].sender]
    <3>1. CASE i = k
      BY <1>4, <1>7, <1>8, <1>3, <3>1
    <3>2. CASE i # k
      <4>1. job'[i] = job[i] /\ job[i].turn <= turns[job[i].sender] /\ job[i].turn \in Nat /\ job[i].sender \in Senders
        BY <1>0, <1>7, <2>1, <3>2, JobTyped DEF IInv, TurnsTaken
      <4> QED BY <1>9, <4>1
    <3> QED BY <3>1, <3>2
  <2>2. ASSUME NEW r \in Senders PROVE cleared'[r] <= turns'[r]
    <3>1. cleared[r] <= turns[r] /\ cleared[r] \in Nat
      BY <1>0 DEF IInv, TurnsTaken, TypeOK
    <3> QED BY <1>2, <1>9, <3>1
  <2>3. ASSUME NEW e \in Range(memory), NEW p \in Range(e.pairs) PROVE p.turn <= turns'[e.sender]
    <3>1. p.turn <= turns[e.sender] /\ p.turn \in Nat /\ e.sender \in Senders
      BY <1>11, <1>12 DEF IInv, TurnsTaken
    <3> QED BY <1>9, <3>1
  <2> QED BY <1>2, <2>1, <2>2, <2>3 DEF TurnsTaken
<1>14. TurnsFresh'
  <2>1. ASSUME NEW i \in Tasks, job'[i].does \in {"ask", "chat"}
        PROVE  /\ job'[i].turn > cleared[job'[i].sender]
               /\ \A e \in Range(memory) : e.sender = job'[i].sender => \A p \in Range(e.pairs) : p.turn < job'[i].turn
    <3>1. CASE i = k
      <4>1. cleared[s] <= turns[s] /\ cleared[s] \in Nat
        BY <1>0 DEF IInv, TurnsTaken, TypeOK
      <4>2. \A e \in Range(memory) : e.sender = s => \A p \in Range(e.pairs) : p.turn <= turns[s]
        BY DEF IInv, TurnsTaken
      <4> QED BY <1>3, <1>4, <1>7, <1>12, <3>1, <4>1, <4>2
    <3>2. CASE i # k
      BY <1>7, <2>1, <3>2 DEF IInv, TurnsFresh, Unanswered
    <3> QED BY <3>1, <3>2
  <2> QED BY <1>2, <2>1 DEF TurnsFresh, Unanswered
<1>15. \A e \in Range(memory') : PairsFit(e)'
  BY <1>2 DEF IInv, PairsFit
<1>16. ASSUME NEW i \in Tasks, job'[i].does = "chat" PROVE HistoryFits(i)'
  <2>1. i # k /\ job'[i] = job[i]
    BY <1>4, <1>7, <1>16
  <2> QED BY <1>2, <1>16, <2>1 DEF IInv, HistoryFits
<1>17. Aging(memory)' /\ OneEach(memory)' /\ Len(memory') <= MaxSenders /\ timers' = Clocks(memory')
  BY <1>2 DEF IInv, Aging, OneEach
<1> QED BY <1>6, <1>10, <1>13, <1>14, <1>15, <1>16, <1>17 DEF IInv

LEMMA ResetKeeps == ASSUME IInv, NEW k \in Tasks, NEW s \in Senders, Reset(k, s) PROVE IInv'
<1> DEFINE new == [does |-> "reset", sender |-> s, turn |-> turns[s], size |-> 0]
<1>0. TypeOK /\ job \in [Tasks -> Job] /\ turns \in [Senders -> Nat] /\ job[k] = Idle
  BY DEF IInv, TypeOK, Reset
<1>1. /\ job' = [job EXCEPT ![k] = new] /\ queue' = [queue EXCEPT ![Stripe[s]] = Append(@, k)]
      /\ UNCHANGED <<memory, timers, turns, cleared>>
  BY DEF Reset
<1>2. new \in Job /\ new.sender = s /\ new.turn = turns[s] /\ new.turn \in Nat /\ new.does = "reset" /\ new # Idle
  BY <1>0 DEF Job, Idle
<1> HIDE DEF new
<1>3. \A i \in Tasks : job[i] # Idle => Behind(job[i], new)
  <2>1. ASSUME NEW i \in Tasks, job[i] # Idle, job[i].sender = s PROVE job[i].turn <= new.turn
    BY <1>2, <2>1 DEF IInv, TurnsTaken
  <2> QED BY <1>2, <2>1 DEF Behind
<1>4. queue' \in [Stripes -> Seq(Tasks)] /\ QueuesMatch' /\ ChatsHold' /\ TurnsQueued'
  BY <1>0, <1>1, <1>2, <1>3, JoinKeeps
<1>5. job'[k] = new /\ \A i \in Tasks : i # k => job'[i] = job[i]
  BY <1>0, <1>1
<1>6. TypeOK'
  <2>1. job' \in [Tasks -> Job]
    BY <1>0, <1>1, <1>2
  <2> QED BY <1>1, <1>4, <2>1 DEF IInv, TypeOK, Stripes
<1>7. TurnsTaken'
  <2>1. ASSUME NEW i \in Tasks, job'[i] # Idle PROVE job'[i].turn <= turns[job'[i].sender]
    <3>1. CASE i = k
      BY <1>0, <1>2, <1>5, <3>1
    <3>2. CASE i # k
      BY <1>5, <2>1, <3>2 DEF IInv, TurnsTaken
    <3> QED BY <3>1, <3>2
  <2> QED BY <1>1, <2>1 DEF IInv, TurnsTaken
<1>8. ASSUME NEW i \in Tasks, job'[i].does \in {"ask", "chat"} PROVE i # k /\ job'[i] = job[i]
  BY <1>2, <1>5, <1>8
<1>9. TurnsFresh'
  <2>1. ASSUME NEW i \in Tasks, job'[i].does \in {"ask", "chat"}
        PROVE  /\ job'[i].turn > cleared[job'[i].sender]
               /\ \A e \in Range(memory) : e.sender = job'[i].sender => \A p \in Range(e.pairs) : p.turn < job'[i].turn
    BY <1>8, <2>1 DEF IInv, TurnsFresh, Unanswered
  <2> QED BY <1>1, <2>1 DEF TurnsFresh, Unanswered
<1>10. \A e \in Range(memory') : PairsFit(e)'
  BY <1>1 DEF IInv, PairsFit
<1>11. ASSUME NEW i \in Tasks, job'[i].does = "chat" PROVE HistoryFits(i)'
  BY <1>1, <1>8, <1>11 DEF IInv, HistoryFits
<1>12. Aging(memory)' /\ OneEach(memory)' /\ Len(memory') <= MaxSenders /\ timers' = Clocks(memory')
  BY <1>1 DEF IInv, Aging, OneEach
<1> QED BY <1>4, <1>6, <1>7, <1>9, <1>10, <1>11, <1>12 DEF IInv

(* Whoever asked after the holder of the lock took a later turn.            *)
LEMMA LaterTurn ==
  ASSUME IInv, NEW k \in Tasks, job[k] # Idle, queue[At(k)][1] = k,
         NEW i \in Tasks, i # k, Unanswered(i), job[i].sender = job[k].sender
  PROVE  job[i].does = "ask" /\ job[k].turn < job[i].turn
<1>1. TypeOK /\ QueuesMatch /\ ChatsHold /\ TurnsQueued
  BY DEF IInv
<1>2. job[i] # Idle /\ At(i) = At(k)
  BY DEF Unanswered, Idle, At
<1>3. job[i].does = "ask"
  BY <1>1, <1>2 DEF ChatsHold, Unanswered
<1>4. PICK p \in DOMAIN queue[At(k)] : queue[At(k)][p] = i
  BY <1>1, <1>2 DEF QueuesMatch
<1>5. DOMAIN queue[At(k)] = 1..Len(queue[At(k)]) /\ Len(queue[At(k)]) \in Nat \ {0}
  BY <1>1, PlaceInQueue
<1>6. p # 1
  BY <1>4
<1>7. 1 < p /\ 1 \in DOMAIN queue[At(k)] /\ At(k) \in Stripes
  BY <1>1, <1>4, <1>5, <1>6, JobTyped
<1>8. Behind(job[k], job[i])
  BY <1>1, <1>4, <1>7 DEF TurnsQueued, Queued
<1> QED BY <1>3, <1>8 DEF Behind

(* The holder of the lock asks NOMAD.                                       *)
LEMMA ChatKeepsPlace ==
  ASSUME IInv, NEW k \in Tasks, job[k] # Idle, queue[At(k)][1] = k,
         NEW new, new # Idle, new.sender = job[k].sender, new.turn = job[k].turn, new.does = "chat",
         job' = [job EXCEPT ![k] = new], queue' = queue
  PROVE  /\ job'[k] = new /\ \A i \in Tasks : i # k => job'[i] = job[i]
         /\ QueuesMatch' /\ ChatsHold' /\ TurnsQueued'
<1>1. TypeOK /\ QueuesMatch /\ ChatsHold /\ TurnsQueued /\ job \in [Tasks -> Job] /\ queue \in [Stripes -> Seq(Tasks)]
  BY DEF IInv, TypeOK, Stripes
<1>2. job'[k] = new /\ \A i \in Tasks : i # k => job'[i] = job[i]
  BY <1>1
<1>3. \A i \in Tasks : (job'[i] = Idle <=> job[i] = Idle) /\ job'[i].sender = job[i].sender /\ job'[i].turn = job[i].turn
  BY <1>2
<1>4. \A n \in Stripes : \A i \in DOMAIN queue[n] : queue[n][i] \in Tasks
  <2>1. ASSUME NEW n \in Stripes, NEW i \in DOMAIN queue[n] PROVE queue[n][i] \in Tasks
    <3>1. queue[n] \in Seq(Tasks)
      BY <1>1
    <3> QED BY <3>1, LenProperties, ElementOfSeq
  <2> QED BY <2>1
<1>5. \A i \in Tasks : Stripe[job'[i].sender] = At(i)
  BY <1>3 DEF At
<1>6. QueuesMatch'
  BY <1>1, <1>3, <1>4, <1>5 DEF QueuesMatch, At
<1>7. ChatsHold'
  BY <1>1, <1>2, <1>5 DEF ChatsHold, At
<1>8. TurnsQueued'
  <2>1. ASSUME NEW n \in Stripes, NEW i \in DOMAIN queue[n], NEW j \in DOMAIN queue[n], i < j
        PROVE  Behind(job'[queue[n][i]], job'[queue[n][j]])
    <3>1. Behind(job[queue[n][i]], job[queue[n][j]])
      BY <1>1, <2>1 DEF TurnsQueued, Queued
    <3>2. queue[n][i] \in Tasks /\ queue[n][j] \in Tasks
      BY <1>4
    <3>3. job'[queue[n][j]].does = "ask" => job[queue[n][j]].does = "ask"
      BY <1>2, <3>2
    <3> QED BY <1>3, <3>1, <3>2, <3>3 DEF Behind
  <2> QED BY <2>1 DEF TurnsQueued, Queued
<1> QED BY <1>2, <1>6, <1>7, <1>8

LEMMA BeginKeeps == ASSUME IInv, NEW k \in Tasks, Begin(k) PROVE IInv'
<1> DEFINE s == job[k].sender
           kept == IF s \in Expired THEN << >> ELSE HistoryOf(s)
           new == [does |-> "chat", sender |-> s, turn |-> job[k].turn, size |-> job[k].size,
                   history |-> LimitPairs(kept, Budget - job[k].size)]
<1>1. TypeOK /\ QueuesMatch /\ job \in [Tasks -> Job] /\ job[k] # Idle /\ job[k].does = "ask"
  BY DEF IInv, TypeOK, Begin, Idle
<1>2. s \in Senders /\ job[k].turn \in Nat /\ job[k].size \in Nat
  BY <1>1, JobTyped
<1>3. queue[At(k)][1] = k
  BY <1>1, PlaceInQueue DEF Begin, Holds, At
<1>4. memory' = Forgetting(memory, Expired) /\ timers' = CancelTimersOf(Expired) /\ UNCHANGED <<turns, cleared>>
  BY DEF Begin
<1>5. /\ memory' \in Seq(Entry) /\ timers' \subseteq [sender : Senders, left : 0..Ttl]
      /\ Aging(memory)' /\ OneEach(memory)' /\ Len(memory') <= MaxSenders
      /\ timers' = Clocks(memory')
      /\ Range(memory') = {e \in Range(memory) : e.sender \notin Expired}
  BY <1>4, MemoryForgets
<1>6. CASE job[k].size > Budget
  <2>1. Leave(k)
    BY <1>6 DEF Begin
  <2>2. /\ job' \in [Tasks -> Job] /\ queue' \in [Stripes -> Seq(Tasks)]
        /\ job'[k] = Idle /\ \A i \in Tasks : i # k => job'[i] = job[i]
        /\ QueuesMatch' /\ ChatsHold' /\ TurnsQueued'
    BY <1>1, <2>1, LeaveKeeps
  <2>3. /\ TurnsTaken' /\ TurnsFresh'
        /\ \A e \in Range(memory') : PairsFit(e)'
        /\ \A i \in Tasks : job'[i].does = "chat" => HistoryFits(i)'
    BY <1>4, <1>5, <2>2, PastKept
  <2>4. TypeOK'
    BY <1>4, <1>5, <2>2 DEF IInv, TypeOK, Stripes
  <2> QED BY <1>5, <2>2, <2>3, <2>4 DEF IInv
<1>7. CASE ~(job[k].size > Budget)
  <2>1. job' = [job EXCEPT ![k] = new] /\ queue' = queue
    BY <1>7 DEF Begin
  <2>2. Budget - job[k].size \in Nat
    BY <1>2, <1>7, MemoryAssumption
  <2>3. kept \in Seq(Pair) /\ Rising(kept) /\ \A p \in Range(kept) : p.turn > cleared[s] /\ p.turn < job[k].turn
    <3>1. CASE s \in Expired \/ s \notin Remembered
      <4>1. kept = << >>
        BY <3>1 DEF HistoryOf
      <4>2. << >> \in Seq(Pair) /\ Rising(<< >>) /\ Range(<< >>) = {}
        BY DEF Rising, Range
      <4> HIDE DEF kept
      <4> QED BY <4>1, <4>2
    <3>2. CASE s \notin Expired /\ s \in Remembered
      <4>1. EntryOf(s) \in Range(memory) /\ EntryOf(s).sender = s /\ kept = EntryOf(s).pairs
        BY <3>2 DEF EntryOf, HistoryOf, Remembered
      <4> DEFINE e == EntryOf(s)
      <4> HIDE DEF e
      <4>2. e \in Range(memory) /\ e.sender = s /\ kept = e.pairs
        BY <4>1 DEF e
      <4> HIDE DEF kept
      <4>3. e.pairs \in Seq(Pair)
        BY <1>1, <4>2, EntriesTyped DEF TypeOK
      <4>4. Rising(e.pairs) /\ \A p \in Range(e.pairs) : p.turn > cleared[s]
        BY <4>2 DEF IInv, PairsFit
      <4>5. \A p \in Range(e.pairs) : p.turn < job[k].turn
        BY <1>1, <4>2 DEF IInv, TurnsFresh, Unanswered
      <4> QED BY <4>2, <4>3, <4>4, <4>5
    <3> QED BY <3>1, <3>2
  <2> DEFINE history == LimitPairs(kept, Budget - job[k].size)
  <2>4. /\ history \in Seq(Pair) /\ Weight(history) <= Budget - job[k].size
        /\ Range(history) \subseteq Range(kept) /\ Rising(history)
    <3> HIDE DEF kept
    <3> QED BY <2>2, <2>3, LimitPairsFits
  <2>5. /\ new \in Job /\ new # Idle /\ new.does = "chat" /\ new.sender = s /\ new.turn = job[k].turn
        /\ new.size = job[k].size /\ new.history = history
    <3> HIDE DEF kept, history, s
    <3>1. new = [does |-> "chat", sender |-> s, turn |-> job[k].turn, size |-> job[k].size, history |-> history]
      BY DEF history
    <3> HIDE DEF new
    <3> QED BY <1>2, <2>4, <3>1 DEF Job, Idle
  <2> HIDE DEF new, history, kept
  <2>6. /\ job'[k] = new /\ \A i \in Tasks : i # k => job'[i] = job[i]
        /\ QueuesMatch' /\ ChatsHold' /\ TurnsQueued'
    BY <1>1, <1>3, <2>1, <2>5, ChatKeepsPlace
  <2>7. TypeOK'
    <3>1. job' \in [Tasks -> Job]
      BY <1>1, <2>1, <2>5
    <3> QED BY <1>4, <1>5, <2>1, <3>1 DEF IInv, TypeOK
  <2>8. \A i \in Tasks : job'[i] # Idle => job[i] # Idle /\ job'[i].turn = job[i].turn /\ job'[i].sender = job[i].sender
    BY <1>1, <2>5, <2>6
  <2>9. \A i \in Tasks : job'[i].does \in {"ask", "chat"} => Unanswered(i) /\ job'[i].turn = job[i].turn /\ job'[i].sender = job[i].sender
    BY <1>1, <2>5, <2>6 DEF Unanswered
  <2>10. TurnsTaken'
    BY <1>4, <1>5, <2>8 DEF IInv, TurnsTaken
  <2>11. TurnsFresh'
    <3>1. ASSUME NEW i \in Tasks, job'[i].does \in {"ask", "chat"}
          PROVE  /\ job'[i].turn > cleared'[job'[i].sender]
                 /\ \A e \in Range(memory') : e.sender = job'[i].sender => \A p \in Range(e.pairs) : p.turn < job'[i].turn
      BY <1>4, <1>5, <2>9, <3>1 DEF IInv, TurnsFresh
    <3> QED BY <3>1 DEF TurnsFresh, Unanswered
  <2>12. \A e \in Range(memory') : PairsFit(e)'
    BY <1>4, <1>5 DEF IInv, PairsFit
  <2>13. ASSUME NEW i \in Tasks, job'[i].does = "chat" PROVE HistoryFits(i)'
    <3>1. CASE i = k
      BY <1>4, <2>3, <2>4, <2>5, <2>6, <3>1 DEF HistoryFits
    <3>2. CASE i # k
      BY <1>4, <2>6, <2>13, <3>2 DEF IInv, HistoryFits
    <3> QED BY <3>1, <3>2
  <2> QED BY <1>5, <2>6, <2>7, <2>10, <2>11, <2>12, <2>13 DEF IInv
<1> QED BY <1>6, <1>7

(* The holder of the lock resets its sender.                                *)
LEMMA ForgetSenderKeeps == ASSUME IInv, NEW k \in Tasks, ForgetSender(k) PROVE IInv'
<1> DEFINE s == job[k].sender
<1>1. TypeOK /\ QueuesMatch /\ job \in [Tasks -> Job] /\ job[k] # Idle /\ job[k].does = "reset"
  BY DEF IInv, TypeOK, ForgetSender, Idle
<1>2. s \in Senders /\ job[k].turn \in Nat /\ cleared \in [Senders -> Nat]
  BY <1>1, JobTyped DEF TypeOK
<1>3. queue[At(k)][1] = k
  BY <1>1, PlaceInQueue DEF ForgetSender, Holds, At
<1>4. /\ memory' = Forgetting(memory, Expired \cup {s}) /\ timers' = CancelTimersOf(Expired \cup {s})
      /\ cleared' = [cleared EXCEPT ![s] = job[k].turn] /\ turns' = turns /\ Leave(k)
  BY DEF ForgetSender
<1>5. /\ memory' \in Seq(Entry) /\ timers' \subseteq [sender : Senders, left : 0..Ttl]
      /\ Aging(memory)' /\ OneEach(memory)' /\ Len(memory') <= MaxSenders
      /\ timers' = Clocks(memory')
      /\ Range(memory') = {e \in Range(memory) : e.sender \notin Expired \cup {s}}
  BY <1>4, MemoryForgets
<1>6. /\ job' \in [Tasks -> Job] /\ queue' \in [Stripes -> Seq(Tasks)]
      /\ job'[k] = Idle /\ \A i \in Tasks : i # k => job'[i] = job[i]
      /\ QueuesMatch' /\ ChatsHold' /\ TurnsQueued'
  BY <1>1, <1>4, LeaveKeeps
<1>7. cleared'[s] = job[k].turn /\ \A r \in Senders : r # s => cleared'[r] = cleared[r]
  BY <1>2, <1>4
<1>8. TypeOK'
  <2>1. cleared' \in [Senders -> Nat]
    BY <1>2, <1>4
  <2> QED BY <1>4, <1>5, <1>6, <2>1 DEF IInv, TypeOK, Stripes
<1>9. ASSUME NEW i \in Tasks, job'[i] # Idle PROVE i # k /\ job'[i] = job[i] /\ job[i] # Idle
  BY <1>6, <1>9
<1>10. Idle.does = "idle"
  BY DEF Idle
<1>11. \A e \in Range(memory') : e \in Range(memory) /\ e.sender # s /\ e.sender \in Senders
  BY <1>1, <1>5, EntriesTyped DEF TypeOK
<1> HIDE DEF s
<1>s. s = job[k].sender
  BY DEF s
<1>12. TurnsTaken'
  <2>1. \A i \in Tasks : job'[i] # Idle => job'[i].turn <= turns'[job'[i].sender]
    BY <1>4, <1>9 DEF IInv, TurnsTaken
  <2>2. ASSUME NEW r \in Senders PROVE cleared'[r] <= turns'[r]
    <3>1. job[k].turn <= turns[s]
      BY <1>1, <1>s DEF IInv, TurnsTaken
    <3> QED BY <1>4, <1>7, <3>1 DEF IInv, TurnsTaken
  <2>3. \A e \in Range(memory') : \A p \in Range(e.pairs) : p.turn <= turns'[e.sender]
    BY <1>4, <1>11 DEF IInv, TurnsTaken
  <2> QED BY <2>1, <2>2, <2>3 DEF TurnsTaken
<1>13. TurnsFresh'
  <2>1. ASSUME NEW i \in Tasks, job'[i].does \in {"ask", "chat"}
        PROVE  /\ job'[i].turn > cleared'[job'[i].sender]
               /\ \A e \in Range(memory') : e.sender = job'[i].sender => \A p \in Range(e.pairs) : p.turn < job'[i].turn
    <3>1. i # k /\ job'[i] = job[i] /\ job[i] # Idle /\ Unanswered(i)
      BY <1>9, <1>10, <2>1 DEF Unanswered
    <3>2. /\ job[i].turn > cleared[job[i].sender] /\ job[i].sender \in Senders /\ job[i].turn \in Nat
          /\ \A e \in Range(memory) : e.sender = job[i].sender => \A p \in Range(e.pairs) : p.turn < job[i].turn
      BY <1>1, <3>1, JobTyped DEF IInv, TurnsFresh
    <3>3. job[i].turn > cleared'[job[i].sender]
      <4>1. CASE job[i].sender = s
        <5>1. job[k].turn < job[i].turn
          BY <1>1, <1>3, <1>s, <3>1, <4>1, LaterTurn
        <5> QED BY <1>2, <1>7, <3>2, <4>1, <5>1
      <4>2. CASE job[i].sender # s
        BY <1>7, <3>2, <4>2
      <4> QED BY <4>1, <4>2
    <3> QED BY <1>11, <3>1, <3>2, <3>3
  <2> QED BY <2>1 DEF TurnsFresh, Unanswered
<1>14. ASSUME NEW e \in Range(memory') PROVE PairsFit(e)'
  <2>1. PairsFit(e) /\ cleared'[e.sender] = cleared[e.sender]
    BY <1>7, <1>11 DEF IInv
  <2> QED BY <2>1 DEF PairsFit
<1>15. ASSUME NEW i \in Tasks, job'[i].does = "chat" PROVE HistoryFits(i)'
  <2>1. i # k /\ job'[i] = job[i] /\ job[i] # Idle
    BY <1>9, <1>10, <1>15
  <2>2. job[i].sender # s
    <3>1. queue[At(i)][1] = i
      BY <1>15, <2>1 DEF IInv, ChatsHold
    <3> QED BY <1>3, <1>s, <2>1, <3>1 DEF At
  <2>3. HistoryFits(i) /\ cleared'[job[i].sender] = cleared[job[i].sender]
    BY <1>1, <1>7, <1>15, <2>1, <2>2, JobTyped DEF IInv
  <2> QED BY <2>1, <2>3 DEF HistoryFits
<1> QED BY <1>5, <1>6, <1>8, <1>12, <1>13, <1>14, <1>15 DEF IInv

(* NOMAD's answer: what is remembered of the sender, and the step.          *)
Said(k, size) == [turn |-> job[k].turn, size |-> job[k].size + size]
Remember(k, size) == LimitPairs(Append(job[k].history, Said(k, size)), Budget)
Others(k) == Forgetting(memory, Expired \cup {job[k].sender})

LEMMA Answered ==
  ASSUME IInv, NEW k \in Tasks, Answer(k)
  PROVE  /\ job[k].does = "chat" /\ Leave(k) /\ UNCHANGED <<turns, cleared>>
         /\ \E size \in Sizes[job[k].sender] :
              \/ /\ Remember(k, size) = << >>
                 /\ memory' = Others(k) /\ timers' = CancelTimersOf(Expired \cup {job[k].sender})
              \/ LET s == job[k].sender
                     evicted == Oldest(Others(k))
                 IN  /\ Remember(k, size) # << >>
                     /\ memory' = Append(Forgetting(Others(k), evicted),
                                         [sender |-> s, pairs |-> Remember(k, size), left |-> Ttl])
                     /\ timers' = CancelTimersOf(Expired \cup {s} \cup evicted) \cup {[sender |-> s, left |-> Ttl]}
<1>1. job[k].does = "chat" /\ Leave(k) /\ UNCHANGED <<turns, cleared>>
  BY DEF Answer
<1>2. PICK size \in Sizes[job[k].sender] :
        LET s == job[k].sender
            pair == Said(k, size)
            history == LimitPairs(Append(job[k].history, pair), Budget)
            others == Forgetting(memory, Expired \cup {s})
            evicted == IF history = << >> THEN {} ELSE Oldest(others)
            stopped == CancelTimersOf(Expired \cup {s} \cup evicted)
        IN  IF history = << >>
              THEN memory' = others /\ timers' = stopped
              ELSE /\ memory' = Append(Forgetting(others, evicted),
                                       [sender |-> s, pairs |-> history, left |-> Deadline(s)])
                   /\ timers' = stopped \cup {[sender |-> s, left |-> Deadline(s)]}
  BY DEF Answer, Said
<1>3. CASE Remember(k, size) = << >>
  <2>1. memory' = Others(k) /\ timers' = CancelTimersOf(Expired \cup {job[k].sender} \cup {})
    BY <1>2, <1>3 DEF Remember, Others
  <2>2. Expired \cup {job[k].sender} \cup {} = Expired \cup {job[k].sender}
    OBVIOUS
  <2> QED BY <1>1, <1>3, <2>1, <2>2
<1>4. CASE Remember(k, size) # << >>
  BY <1>1, <1>2, <1>4 DEF Remember, Others, Deadline
<1> QED BY <1>3, <1>4

(* The history of a sender after an answer.                                 *)
LEMMA RememberFits ==
  ASSUME IInv, NEW k \in Tasks, job[k].does = "chat", NEW size \in Sizes[job[k].sender]
  PROVE  LET history == Remember(k, size)
         IN  /\ history \in Seq(Pair) /\ Rising(history)
             /\ Len(history) \in 0..MaxPairs /\ Weight(history) <= Budget
             /\ \A p \in Range(history) : p.turn > cleared[job[k].sender] /\ p.turn <= job[k].turn
<1>1. TypeOK /\ job[k] # Idle
  BY DEF IInv, Idle
<1>2. /\ job[k].sender \in Senders /\ job[k].turn \in Nat /\ job[k].size \in Nat
      /\ job[k].history \in Seq(Pair)
  BY <1>1, JobTyped
<1>3. size \in Nat /\ Budget \in Nat
  BY <1>2, MemoryAssumption
<1>4. Said(k, size) \in Pair /\ Said(k, size).turn = job[k].turn
  BY <1>2, <1>3 DEF Pair, Said
<1>5. Rising(job[k].history) /\ \A p \in Range(job[k].history) : p.turn > cleared[job[k].sender] /\ p.turn < job[k].turn
  BY DEF IInv, HistoryFits
<1> DEFINE longer == Append(job[k].history, Said(k, size))
<1>6. longer \in Seq(Pair) /\ Rising(longer) /\ Range(longer) = Range(job[k].history) \cup {Said(k, size)}
  BY <1>2, <1>4, <1>5, RisingAppended
<1>7. job[k].turn > cleared[job[k].sender]
  BY <1>1 DEF IInv, TurnsFresh, Unanswered
<1>8. \A p \in Range(longer) : p.turn > cleared[job[k].sender] /\ p.turn <= job[k].turn
  <2>1. \A p \in Range(job[k].history) : p.turn \in Nat
    <3>1. ASSUME NEW p \in Range(job[k].history) PROVE p.turn \in Nat
      <4>1. PICK i \in DOMAIN job[k].history : job[k].history[i] = p
        BY DEF Range
      <4>2. p \in Pair
        BY <1>2, <4>1, LenProperties, ElementOfSeq
      <4> QED BY <4>2 DEF Pair
    <3> QED BY <3>1
  <2> HIDE DEF longer
  <2> QED BY <1>2, <1>4, <1>5, <1>6, <1>7, <2>1
<1>9. Remember(k, size) = LimitPairs(longer, Budget)
  BY DEF Remember
<1> HIDE DEF longer
<1> QED BY <1>3, <1>6, <1>8, <1>9, LimitPairsFits

LEMMA AnswerKeeps == ASSUME IInv, NEW k \in Tasks, Answer(k) PROVE IInv'
<1> DEFINE s == job[k].sender
<1>1. /\ job[k].does = "chat" /\ Leave(k) /\ UNCHANGED <<turns, cleared>>
      /\ TypeOK /\ QueuesMatch /\ job[k] # Idle /\ s \in Senders /\ job[k].turn \in Nat
  <2>1. job[k].does = "chat" /\ Leave(k) /\ UNCHANGED <<turns, cleared>>
    BY Answered
  <2>2. TypeOK /\ QueuesMatch /\ job[k] # Idle
    BY <2>1 DEF IInv, Idle
  <2> QED BY <2>1, <2>2, JobTyped
<1>2. queue[At(k)][1] = k
  BY <1>1 DEF IInv, ChatsHold
<1>3. /\ job' \in [Tasks -> Job] /\ queue' \in [Stripes -> Seq(Tasks)]
      /\ job'[k] = Idle /\ \A i \in Tasks : i # k => job'[i] = job[i]
      /\ QueuesMatch' /\ ChatsHold' /\ TurnsQueued'
  BY <1>1, LeaveKeeps
<1>4. PICK size \in Sizes[s] :
        \/ /\ Remember(k, size) = << >>
           /\ memory' = Others(k) /\ timers' = CancelTimersOf(Expired \cup {s})
        \/ LET evicted == Oldest(Others(k))
           IN  /\ Remember(k, size) # << >>
               /\ memory' = Append(Forgetting(Others(k), evicted),
                                   [sender |-> s, pairs |-> Remember(k, size), left |-> Ttl])
               /\ timers' = CancelTimersOf(Expired \cup {s} \cup evicted) \cup {[sender |-> s, left |-> Ttl]}
  BY Answered
<1> HIDE DEF s
<1>s. s = job[k].sender
  BY DEF s
<1>5. CASE Remember(k, size) = << >>
  <2>1. memory' = Forgetting(memory, Expired \cup {s}) /\ timers' = CancelTimersOf(Expired \cup {s})
    BY <1>4, <1>5, <1>s DEF Others
  <2>2. /\ memory' \in Seq(Entry) /\ timers' \subseteq [sender : Senders, left : 0..Ttl]
        /\ Aging(memory)' /\ OneEach(memory)' /\ Len(memory') <= MaxSenders
        /\ timers' = Clocks(memory')
        /\ Range(memory') = {e \in Range(memory) : e.sender \notin Expired \cup {s}}
    BY <2>1, MemoryForgets
  <2>3. /\ TurnsTaken' /\ TurnsFresh'
        /\ \A e \in Range(memory') : PairsFit(e)'
        /\ \A i \in Tasks : job'[i].does = "chat" => HistoryFits(i)'
    BY <1>1, <1>3, <2>2, PastKept
  <2>4. TypeOK'
    BY <1>1, <1>3, <2>2 DEF IInv, TypeOK, Stripes
  <2> QED BY <1>3, <2>2, <2>3, <2>4 DEF IInv
<1>6. CASE Remember(k, size) # << >>
  <2> DEFINE history == Remember(k, size)
             others == Others(k)
             evicted == Oldest(others)
             rest == Forgetting(others, evicted)
             entry == [sender |-> s, pairs |-> history, left |-> Ttl]
  <2>1. /\ memory' = Append(rest, entry)
        /\ timers' = CancelTimersOf(Expired \cup {s} \cup evicted) \cup {[sender |-> s, left |-> Ttl]}
    BY <1>4, <1>6
  <2>2. /\ history \in Seq(Pair) /\ Rising(history)
        /\ Len(history) \in 0..MaxPairs /\ Weight(history) <= Budget
        /\ \A p \in Range(history) : p.turn > cleared[s] /\ p.turn <= job[k].turn
    BY <1>1, <1>s, RememberFits
  <2>3. Len(history) \in 1..MaxPairs
    <3>1. Len(history) \in Nat \ {0}
      BY <1>6, <2>2, EmptySeq
    <3> QED BY <2>2, <3>1
  <2>4. memory \in Seq(Entry) /\ Aging(memory) /\ OneEach(memory) /\ timers = Clocks(memory)
    BY <1>1 DEF IInv, TypeOK
  <2>5. /\ others \in Seq(Entry) /\ Aging(others) /\ OneEach(others)
        /\ Range(others) = {e \in Range(memory) : e.sender \notin Expired \cup {s}}
        /\ Clocks(others) = {c \in Clocks(memory) : c.sender \notin Expired \cup {s}}
    BY <2>4, <1>s, ForgettingOrdered DEF Others
  <2> HIDE DEF others
  <2>6. /\ rest \in Seq(Entry) /\ Aging(rest) /\ OneEach(rest)
        /\ Range(rest) = {e \in Range(others) : e.sender \notin evicted}
        /\ Clocks(rest) = {c \in Clocks(others) : c.sender \notin evicted}
    BY <2>5, ForgettingOrdered
  <2>7. Len(rest) < MaxSenders
    BY <2>5, RoomMade
  <2>8. entry \in Entry /\ entry.sender = s /\ entry.pairs = history /\ entry.left = Ttl
    <3> HIDE DEF history
    <3> QED BY <1>1, <2>2, MemoryAssumption DEF Entry
  <2> HIDE DEF rest, evicted, entry, history
  <2>9. \A e \in Range(rest) : e \in Range(memory) /\ e.sender # s
    BY <2>5, <2>6
  <2>10. /\ memory' \in Seq(Entry) /\ Aging(memory') /\ OneEach(memory') /\ Len(memory') = Len(rest) + 1
         /\ Range(memory') = Range(rest) \cup {entry}
         /\ Clocks(memory') = Clocks(rest) \cup {[sender |-> entry.sender, left |-> entry.left]}
    BY <2>1, <2>6, <2>8, <2>9, EntryAppended
  <2>11. timers' = Clocks(memory')
    <3>1. CancelTimersOf(Expired \cup {s} \cup evicted) = Clocks(rest)
      BY <2>4, <2>5, <2>6 DEF CancelTimersOf
    <3> QED BY <2>1, <2>8, <2>10, <3>1
  <2>12. Len(memory') <= MaxSenders
    <3>1. Len(rest) \in Nat /\ MaxSenders \in Nat
      BY <2>6, LenProperties, MemoryAssumption
    <3> QED BY <2>7, <2>10, <3>1
  <2>13. timers' \subseteq [sender : Senders, left : 0..Ttl]
    <3>1. \A e \in Range(memory') : e.sender \in Senders /\ e.left \in 0..Ttl
      BY <2>10, EntriesTyped
    <3> QED BY <2>11, <3>1 DEF Clocks
  <2>14. TypeOK'
    BY <1>1, <1>3, <2>10, <2>13 DEF IInv, TypeOK, Stripes
  <2>15. Aging(memory)' /\ OneEach(memory)'
    BY <2>10 DEF Aging, OneEach
  <2>16. Idle.does = "idle"
    BY DEF Idle
  <2>17. \A p \in Range(history) : p.turn \in Nat
    <3>1. ASSUME NEW p \in Range(history) PROVE p.turn \in Nat
      <4>1. PICK i \in DOMAIN history : history[i] = p
        BY DEF Range
      <4>2. p \in Pair
        BY <2>2, <4>1, LenProperties, ElementOfSeq
      <4> QED BY <4>2 DEF Pair
    <3> QED BY <3>1
  <2>18. TurnsTaken'
    <3>1. \A i \in Tasks : job'[i] # Idle => job'[i].turn <= turns'[job'[i].sender]
      BY <1>1, <1>3 DEF IInv, TurnsTaken
    <3>2. ASSUME NEW e \in Range(memory'), NEW p \in Range(e.pairs) PROVE p.turn <= turns'[e.sender]
      <4>1. CASE e = entry
        <5>1. p.turn <= job[k].turn /\ job[k].turn <= turns[s] /\ p.turn \in Nat /\ turns[s] \in Nat
          BY <1>1, <1>s, <2>2, <2>8, <2>17, <4>1 DEF IInv, TurnsTaken, TypeOK
        <5> QED BY <1>1, <2>8, <4>1, <5>1
      <4>2. CASE e # entry
        BY <1>1, <2>9, <2>10, <4>2 DEF IInv, TurnsTaken
      <4> QED BY <4>1, <4>2
    <3> QED BY <1>1, <3>1, <3>2 DEF IInv, TurnsTaken
  <2>19. TurnsFresh'
    <3>1. ASSUME NEW i \in Tasks, job'[i].does \in {"ask", "chat"}
          PROVE  /\ job'[i].turn > cleared'[job'[i].sender]
                 /\ \A e \in Range(memory') : e.sender = job'[i].sender => \A p \in Range(e.pairs) : p.turn < job'[i].turn
      <4>1. i # k /\ job'[i] = job[i] /\ job[i] # Idle /\ Unanswered(i)
        BY <1>3, <2>16, <3>1 DEF Unanswered
      <4>2. /\ job[i].turn > cleared[job[i].sender] /\ job[i].turn \in Nat
            /\ \A e \in Range(memory) : e.sender = job[i].sender => \A p \in Range(e.pairs) : p.turn < job[i].turn
        BY <1>1, <4>1, JobTyped DEF IInv, TurnsFresh
      <4>3. ASSUME NEW e \in Range(memory'), e.sender = job[i].sender, NEW p \in Range(e.pairs)
            PROVE  p.turn < job[i].turn
        <5>1. CASE e = entry
          <6>1. job[k].turn < job[i].turn
            BY <1>1, <1>2, <1>s, <2>8, <4>1, <4>3, <5>1, LaterTurn
          <6>2. p.turn <= job[k].turn /\ p.turn \in Nat
            BY <2>2, <2>8, <2>17, <4>3, <5>1
          <6> QED BY <1>1, <4>2, <6>1, <6>2
        <5>2. CASE e # entry
          BY <2>9, <2>10, <4>2, <4>3, <5>2
        <5> QED BY <5>1, <5>2
      <4> QED BY <1>1, <4>1, <4>2, <4>3
    <3> QED BY <3>1 DEF TurnsFresh, Unanswered
  <2>20. ASSUME NEW e \in Range(memory') PROVE PairsFit(e)'
    <3>1. CASE e = entry
      BY <1>1, <2>2, <2>3, <2>8, <3>1 DEF PairsFit
    <3>2. CASE e # entry
      <4>1. PairsFit(e)
        BY <2>9, <2>10, <3>2 DEF IInv
      <4> QED BY <1>1, <4>1 DEF PairsFit
    <3> QED BY <3>1, <3>2
  <2>21. ASSUME NEW i \in Tasks, job'[i].does = "chat" PROVE HistoryFits(i)'
    <3>1. job'[i] = job[i]
      BY <1>3, <2>16, <2>21
    <3> QED BY <1>1, <2>21, <3>1 DEF IInv, HistoryFits
  <2> QED BY <1>3, <2>11, <2>12, <2>14, <2>15, <2>18, <2>19, <2>20, <2>21 DEF IInv
<1> QED BY <1>5, <1>6

-----------------------------------------------------------------------------
LEMMA InitInv == ASSUME Init PROVE IInv
<1>1. /\ memory = << >> /\ timers = {} /\ job = [k \in Tasks |-> Idle]
      /\ queue = [n \in Stripes |-> << >>]
      /\ turns = [s \in Senders |-> 0] /\ cleared = [s \in Senders |-> 0]
  BY DEF Init, Stripes
<1>2. DOMAIN memory = {} /\ Range(memory) = {} /\ Len(memory) = 0 /\ memory \in Seq(Entry)
  BY <1>1 DEF Range
<1>3. \A n \in Stripes : queue[n] = << >> /\ DOMAIN queue[n] = {} /\ queue[n] \in Seq(Tasks)
  BY <1>1
<1>4. \A k \in Tasks : job[k] = Idle /\ job[k].does = "idle"
  BY <1>1 DEF Idle
<1>5. TypeOK
  <2>1. job \in [Tasks -> Job]
    BY <1>1 DEF Job
  <2>2. queue \in [Stripes -> Seq(Tasks)]
    BY <1>1, <1>3
  <2> QED BY <1>1, <1>2, <2>1, <2>2 DEF TypeOK, Stripes
<1>6. QueuesMatch /\ TurnsQueued
  BY <1>3, <1>4 DEF QueuesMatch, Distinct, TurnsQueued, Queued
<1>7. ChatsHold /\ TurnsFresh
  BY <1>4 DEF ChatsHold, TurnsFresh, Unanswered
<1>8. TurnsTaken
  BY <1>1, <1>2, <1>4 DEF TurnsTaken
<1>9. Aging(memory) /\ OneEach(memory) /\ Len(memory) <= MaxSenders
  BY <1>2, MemoryAssumption DEF Aging, OneEach
<1>10. timers = Clocks(memory)
  BY <1>1, <1>2 DEF Clocks
<1> QED BY <1>2, <1>4, <1>5, <1>6, <1>7, <1>8, <1>9, <1>10 DEF IInv

LEMMA StepInv == ASSUME IInv, [Next]_vars PROVE IInv'
<1>1. CASE Tick
  BY <1>1, TickKeeps
<1>2. CASE Close
  BY <1>2, CloseKeeps
<1>3. ASSUME NEW t \in timers, TimerFires(t) PROVE IInv'
  BY <1>3, TimerFiresKeeps
<1>4. ASSUME NEW k \in Tasks, TaskStep(k) PROVE IInv'
  BY <1>4, BeginKeeps, AnswerKeeps, FailKeeps, ForgetSenderKeeps DEF TaskStep
<1>5. ASSUME NEW k \in Tasks, NEW s \in Senders, Ask(k, s) \/ Reset(k, s) PROVE IInv'
  BY <1>5, AskKeeps, ResetKeeps
<1>6. CASE UNCHANGED vars
  <2>1. UNCHANGED <<memory, timers, job, queue, turns, cleared>>
    BY <1>6 DEF vars
  <2>2. TypeOK' /\ QueuesMatch' /\ ChatsHold' /\ TurnsQueued' /\ TurnsTaken' /\ TurnsFresh'
    BY <2>1 DEF IInv, TypeOK, QueuesMatch, ChatsHold, TurnsQueued, TurnsTaken, TurnsFresh, At, Unanswered
  <2>3. Aging(memory)' /\ OneEach(memory)' /\ Len(memory') <= MaxSenders /\ timers' = Clocks(memory')
    BY <2>1 DEF IInv, Aging, OneEach
  <2>4. /\ \A e \in Range(memory') : PairsFit(e)'
        /\ \A k \in Tasks : job'[k].does = "chat" => HistoryFits(k)'
    BY <2>1 DEF IInv, PairsFit, HistoryFits
  <2> QED BY <2>2, <2>3, <2>4 DEF IInv
<1> QED BY <1>1, <1>2, <1>3, <1>4, <1>5, <1>6 DEF Next

(* What ties the memory to its timers, the queues to the jobs and the turns *)
(* to both holds at every step.                                             *)
THEOREM MemoryInvariant == Spec => []IInv
<1>1. Init => IInv
  BY InitInv
<1>2. IInv /\ [Next]_vars => IInv'
  BY StepInv
<1> QED BY <1>1, <1>2, PTL DEF Spec

(* Every variable of the memory has its type, whatever is asked.            *)
THEOREM TypesHold == Spec => []TypeOK
<1>1. IInv => TypeOK
  BY DEF IInv
<1> QED BY <1>1, MemoryInvariant, PTL

(* The memory keeps its limits on senders, messages and bytes, and so does  *)
(* every request made from it: _limit_pairs and the loop that evicts.       *)
THEOREM MemoryStaysBounded == Spec => []MemoryBounded
<1>1. IInv => MemoryBounded
  BY DEF IInv, MemoryBounded, PairsFit, HistoryFits
<1> QED BY <1>1, MemoryInvariant, PTL

(* The timers that call_later has pending are those of the entries, one of  *)
(* each sender: _forget cancels what it drops.                              *)
THEOREM TimersAreThoseOfEntries == Spec => []TimersMatch
<1>1. ASSUME IInv PROVE TimersMatch
  <2> DEFINE sender == [i \in DOMAIN memory |-> memory[i].sender]
  <2>1. /\ DOMAIN memory = 1..Len(memory) /\ Len(memory) \in Nat
        /\ \A i, j \in DOMAIN memory : memory[i].sender = memory[j].sender => i = j
    BY <1>1, EntriesTyped DEF IInv, TypeOK, OneEach
  <2>2. IsFiniteSet(DOMAIN memory) /\ Cardinality(DOMAIN memory) = Len(memory)
    BY <2>1, FS_Interval
  <2>3. sender \in [DOMAIN memory -> Remembered]
    BY DEF Remembered, Range
  <2>4. \A i, j \in DOMAIN memory : sender[i] = sender[j] => i = j
    BY <2>1
  <2>5. \A s \in Remembered : \E i \in DOMAIN memory : sender[i] = s
    BY DEF Remembered, Range
  <2> HIDE DEF sender
  <2>6. sender \in Bijection(DOMAIN memory, Remembered)
    BY <2>3, <2>4, <2>5, Fun_IsBij
  <2>7. Cardinality(Remembered) = Len(memory)
    BY <2>2, <2>6, FS_Bijection DEF ExistsBijection
  <2> QED BY <1>1, <2>7 DEF IInv, TimersMatch, Clocks
<1> QED BY <1>1, MemoryInvariant, PTL

(* A completed reset_session_for_sender forgets whatever was asked before   *)
(* it, in the memory and in every later request.                            *)
THEOREM ResetsForget == Spec => []ResetForgets
<1>1. ASSUME IInv PROVE ResetForgets
  <2>1. ASSUME NEW s \in Senders, NEW p \in PairsOf(s) PROVE p.turn > cleared[s]
    <3>1. PICK e \in Range(memory) : e.sender = s /\ p \in Range(e.pairs)
      BY DEF PairsOf
    <3> QED BY <1>1, <3>1 DEF IInv, PairsFit
  <2>2. \A k \in Tasks : job[k].does = "chat" => \A p \in Range(job[k].history) : p.turn > cleared[job[k].sender]
    BY <1>1 DEF IInv, HistoryFits
  <2> QED BY <2>1, <2>2 DEF ResetForgets
<1> QED BY <1>1, MemoryInvariant, PTL

(* No conversation is interleaved with itself: the lock keeps its turns in  *)
(* the order they were asked in, in the memory and in every request.        *)
THEOREM ConversationsInOrder == Spec => []InOrder
<1>1. ASSUME IInv PROVE InOrder
  <2>1. ASSUME NEW k \in Tasks, job[k].does = "chat"
        PROVE  Rising(Append(job[k].history, [turn |-> job[k].turn, size |-> 0]))
    <3>1. job[k].history \in Seq(Pair) /\ job[k].turn \in Nat
      BY <1>1, <2>1, JobTyped DEF IInv, Idle
    <3>2. Rising(job[k].history) /\ \A p \in Range(job[k].history) : p.turn < job[k].turn
      BY <1>1, <2>1 DEF IInv, HistoryFits
    <3> DEFINE pair == [turn |-> job[k].turn, size |-> 0]
    <3>3. pair \in Pair /\ pair.turn = job[k].turn
      BY <3>1 DEF Pair
    <3> HIDE DEF pair
    <3>4. Rising(Append(job[k].history, pair))
      BY <3>1, <3>2, <3>3, RisingAppended
    <3> QED BY <3>4 DEF pair
  <2>2. \A e \in Range(memory) : Rising(e.pairs)
    BY <1>1 DEF IInv, PairsFit
  <2> QED BY <2>1, <2>2 DEF InOrder, Rising
<1> QED BY <1>1, MemoryInvariant, PTL

(* The conversation that makes room is the one that was answered longest    *)
(* ago: ask_for_sender evicts from the front of the OrderedDict.            *)
THEOREM OldestMakesRoom == Spec => EvictsOldest
<1> DEFINE Evicts(k) ==
      \A e \in Range(memory), f \in Range(memory') :
        /\ e.sender \notin Expired \cup {job[k].sender} /\ e.sender \notin {g.sender : g \in Range(memory')}
        /\ f.sender # job[k].sender
        => e.left <= f.left
<1>1. ASSUME IInv, NEW k \in Tasks, Answer(k) PROVE Evicts(k)
  <2> DEFINE s == job[k].sender
             others == Others(k)
             rest == Forgetting(others, Oldest(others))
  <2>1. memory \in Seq(Entry) /\ Aging(memory) /\ OneEach(memory)
    BY <1>1 DEF IInv, TypeOK
  <2>2. /\ others \in Seq(Entry) /\ Aging(others) /\ OneEach(others)
        /\ Range(others) = {e \in Range(memory) : e.sender \notin Expired \cup {s}}
    BY <2>1, ForgettingOrdered DEF Others
  <2>3. PICK size \in Sizes[s] :
          \/ memory' = others
          \/ memory' = Append(rest, [sender |-> s, pairs |-> Remember(k, size), left |-> Ttl])
    BY <1>1, Answered
  <2>4. CASE memory' = others
    BY <2>2, <2>4
  <2>5. CASE memory' = Append(rest, [sender |-> s, pairs |-> Remember(k, size), left |-> Ttl])
    <3> DEFINE entry == [sender |-> s, pairs |-> Remember(k, size), left |-> Ttl]
    <3> HIDE DEF others
    <3>1. /\ rest \in Seq(Entry) /\ Aging(rest) /\ OneEach(rest)
          /\ Range(rest) = {e \in Range(others) : e.sender \notin Oldest(others)}
      BY <2>2, ForgettingOrdered
    <3>2. \A d \in Range(others), e \in Range(rest) : d.sender \in Oldest(others) => d.left <= e.left
      BY <2>2, RoomMade
    <3>3. entry.sender = s /\ entry \in Entry /\ entry.left = Ttl
      <4>1. job[k].does = "chat" /\ s \in Senders
        <5>1. job[k].does = "chat"
          BY <1>1, Answered
        <5>2. TypeOK /\ job[k] # Idle
          BY <1>1, <5>1 DEF IInv, Idle
        <5> QED BY <5>1, <5>2, JobTyped
      <4>2. Remember(k, size) \in Seq(Pair)
        BY <1>1, <4>1, RememberFits
      <4> QED BY <4>1, <4>2, MemoryAssumption DEF Entry
    <3> HIDE DEF entry, rest, s
    <3>4. \A d \in Range(rest) : d.sender # s
      BY <2>2, <3>1
    <3>5. Range(memory') = Range(rest) \cup {entry}
      BY <2>5, <3>1, <3>3, <3>4, EntryAppended DEF entry
    <3>6. ASSUME NEW e \in Range(memory), NEW f \in Range(memory'),
                 e.sender \notin Expired \cup {s}, e.sender \notin {g.sender : g \in Range(memory')},
                 f.sender # s
          PROVE  e.left <= f.left
      <4>1. e \in Range(others) /\ f \in Range(rest)
        BY <2>2, <3>3, <3>5, <3>6
      <4>2. e.sender \in Oldest(others)
        BY <3>1, <3>5, <3>6, <4>1
      <4> QED BY <3>2, <4>1, <4>2
    <3> QED BY <3>6 DEF s
  <2> QED BY <2>3, <2>4, <2>5
<1>2. IInv /\ [Next]_vars => [\A k \in Tasks : Answer(k) => Evicts(k)]_vars
  BY <1>1
<1> QED BY <1>2, MemoryInvariant, PTL DEF Spec, EvictsOldest

=============================================================================
