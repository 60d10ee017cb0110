---------------------------- MODULE AdmissionProofs ----------------------------
(***************************************************************************)
(* Theorems about Admission, for any senders and texts, any limits, any    *)
(* window and any lifetime of the cache's entries: the duplicate cache and *)
(* the limiter's deques together implement RequestGate.                    *)
(***************************************************************************)
EXTENDS Admission, FiniteSetTheorems, FunctionTheorems, SequenceTheorems, WellFoundedInduction, TLAPS

Entries == [msg : Messages, age : 0..(Gate!Horizon - 1)]

(* A deque of times: the oldest first.                                      *)
Deque(events) ==
  /\ events \in Seq(0..Window)
  /\ \A i, j \in DOMAIN events : i < j => events[i] >= events[j]

(* A deque holds as many times of every age as the log has entries.         *)
Younger(events, age) == Cardinality({i \in DOMAIN events : events[i] < age})
Tally(events, entries) ==
  \A age \in 0..Window : Younger(events, age) = Cardinality({e \in entries : e.age < age})
DequeOf(s) == IF s \in DOMAIN senders THEN senders[s] ELSE << >>
By(s) == {e \in log : e.msg.sender = s}

(* An entry of the cache is as old as the youngest of the log.              *)
CacheInv ==
  \A m \in Messages : \A age \in 0..Ttl :
    (m \in DOMAIN seen /\ seen[m] < age) <=> (\E e \in log : e.msg = m /\ e.age < age)

IInv ==
  /\ TypeOK /\ IsFiniteSet(log) /\ IsFiniteSet(DOMAIN senders)
  /\ CacheInv
  /\ Deque(global) /\ Tally(global, log)
  /\ \A s \in DOMAIN senders : Deque(senders[s])
  /\ \A s \in Senders : Tally(DequeOf(s), By(s))
  /\ LimitsHold /\ Gate!AnsweredOnce

-----------------------------------------------------------------------------
(* Deques.                                                                  *)

LEMMA Least ==
  ASSUME NEW S \in SUBSET Nat, S # {}
  PROVE  \E least \in S : \A n \in S : least <= n
<1> DEFINE R == {p \in Nat \X Nat : p[1] < p[2]}
<1>1. IsWellFoundedOn(R, Nat)
  BY NatLessThanWellFounded DEF OpToRel
<1>2. \A m, n \in Nat : m < n => <<m, n>> \in R
  OBVIOUS
<1> HIDE DEF R
<1>3. PICK least \in S : \A n \in S : ~(<<n, least>> \in R)
  BY <1>1, WFMin
<1>4. ASSUME NEW n \in S PROVE least <= n
  <2>1. n \in Nat /\ least \in Nat /\ ~(<<n, least>> \in R)
    BY <1>3
  <2> QED BY <1>2, <2>1
<1> QED BY <1>4

LEMMA DequeFinite ==
  ASSUME NEW events \in Seq(0..Window)
  PROVE  /\ DOMAIN events = 1..Len(events) /\ Len(events) \in Nat
         /\ \A i \in DOMAIN events : events[i] \in 0..Window
         /\ IsFiniteSet(DOMAIN events) /\ Cardinality(DOMAIN events) = Len(events)
         /\ \A age : IsFiniteSet({i \in DOMAIN events : events[i] < age}) /\ Younger(events, age) \in Nat
<1>1. DOMAIN events = 1..Len(events) /\ Len(events) \in Nat
  BY LenProperties
<1>2. \A i \in DOMAIN events : events[i] \in 0..Window
  BY <1>1, ElementOfSeq
<1>3. IsFiniteSet(DOMAIN events) /\ Cardinality(DOMAIN events) = Len(events)
  BY <1>1, FS_Interval
<1>4. ASSUME NEW age PROVE IsFiniteSet({i \in DOMAIN events : events[i] < age}) /\ Younger(events, age) \in Nat
  <2>1. IsFiniteSet({i \in DOMAIN events : events[i] < age})
    BY <1>3, FS_Subset
  <2> QED BY <2>1, FS_CardinalityType DEF Younger
<1> QED BY <1>1, <1>2, <1>3, <1>4

(* What _prune leaves is what is within the window.                         *)
LEMMA PruneKeepsRecent ==
  ASSUME NEW events, Deque(events)
  PROVE  /\ Deque(Prune(events))
         /\ \A age \in 0..Window : Younger(Prune(events), age) = Younger(events, age)
         /\ Len(Prune(events)) = Younger(events, Window)
         /\ Prune(events) = << >> <=> Younger(events, Window) = 0
<1> DEFINE recent == {i \in DOMAIN events : events[i] < Window}
           pruned == Prune(events)
<1>1. /\ events \in Seq(0..Window) /\ DOMAIN events = 1..Len(events) /\ Len(events) \in Nat
      /\ \A i \in DOMAIN events : events[i] \in 0..Window
      /\ \A age : IsFiniteSet({i \in DOMAIN events : events[i] < age}) /\ Younger(events, age) \in Nat
  BY DequeFinite DEF Deque
<1>2. pruned = IF recent = {} THEN << >> ELSE SubSeq(events, Min(recent), Len(events))
  BY DEF Prune
<1>3. CASE recent = {}
  <2>1. pruned = << >> /\ DOMAIN pruned = {} /\ Len(pruned) = 0 /\ pruned \in Seq(0..Window)
    BY <1>2, <1>3
  <2> HIDE DEF pruned
  <2>2. Deque(pruned)
    BY <2>1 DEF Deque
  <2>3. ASSUME NEW age \in 0..Window
        PROVE  {i \in DOMAIN events : events[i] < age} = {} /\ {i \in DOMAIN pruned : pruned[i] < age} = {}
    BY <1>1, <1>3, <2>1, LimitAssumption
  <2>4. \A age \in 0..Window : Younger(pruned, age) = 0 /\ Younger(events, age) = 0
    BY <2>3, FS_EmptySet DEF Younger
  <2>5. Window \in 0..Window
    BY LimitAssumption
  <2> QED BY <2>1, <2>2, <2>4, <2>5 DEF pruned
<1>4. CASE recent # {}
  <2>0. recent \in SUBSET Nat
    BY <1>1
  <2>1. PICK first \in recent : \A i \in recent : first <= i
    <3> HIDE DEF recent
    <3> QED BY <1>4, <2>0, Least
  <2>2. Min(recent) \in recent /\ \A i \in recent : Min(recent) <= i
    BY <2>1 DEF Min
  <2>3. PICK k : k = Min(recent)
    OBVIOUS
  <2>4. /\ k \in 1..Len(events) /\ events[k] < Window /\ \A i \in DOMAIN events : events[i] < Window => k <= i
    BY <1>1, <2>2, <2>3
  <2>5. pruned = SubSeq(events, k, Len(events))
    BY <1>2, <1>4, <2>3
  <2> HIDE DEF pruned, recent
  <2>6. /\ pruned \in Seq(0..Window) /\ Len(pruned) = Len(events) - k + 1
        /\ \A i \in 1..(Len(events) - k + 1) : pruned[i] = events[k + i - 1]
    <3>1. \A i \in k..Len(events) : events[i] \in 0..Window
      BY <1>1, <2>4
    <3> QED BY <1>1, <2>4, <2>5, <3>1, SubSeqProperties
  <2>7. DOMAIN pruned = 1..(Len(events) - k + 1)
    BY <2>6, LenProperties
  <2>8. \A i \in DOMAIN pruned : k + i - 1 \in DOMAIN events /\ pruned[i] = events[k + i - 1]
    BY <1>1, <2>4, <2>6, <2>7
  <2>9. Deque(pruned)
    <3>1. ASSUME NEW i \in DOMAIN pruned, NEW j \in DOMAIN pruned, i < j PROVE pruned[i] >= pruned[j]
      <4>1. k + i - 1 < k + j - 1 /\ k + i - 1 \in DOMAIN events /\ k + j - 1 \in DOMAIN events
        BY <1>1, <2>4, <2>7, <2>8, <3>1
      <4> QED BY <2>8, <4>1 DEF Deque
    <3> QED BY <2>6, <3>1 DEF Deque
  <2>10. ASSUME NEW age \in 0..Window PROVE Younger(pruned, age) = Younger(events, age)
    <3> DEFINE old == {i \in DOMAIN events : events[i] < age}
               new == {i \in DOMAIN pruned : pruned[i] < age}
               f == [i \in new |-> k + i - 1]
    <3>1. \A i \in new : k + i - 1 \in old
      BY <2>8
    <3>2. ASSUME NEW j \in old PROVE \E i \in new : k + i - 1 = j
      <4>1. j \in 1..Len(events) /\ k <= j
        BY <1>1, <2>4, <2>10, LimitAssumption
      <4>2. j - k + 1 \in DOMAIN pruned /\ k + (j - k + 1) - 1 = j
        BY <1>1, <2>4, <2>7, <4>1
      <4>3. pruned[j - k + 1] = events[j]
        BY <2>8, <4>2
      <4> QED BY <4>2, <4>3
    <3>3. \A i, j \in new : k + i - 1 = k + j - 1 => i = j
      BY <2>4, <2>7
    <3> HIDE DEF old, new
    <3>4. f \in Bijection(new, old)
      <4>1. f \in [new -> old]
        BY <3>1
      <4>2. \A i, j \in new : f[i] = f[j] => i = j
        BY <3>3
      <4>3. \A j \in old : \E i \in new : f[i] = j
        BY <3>2
      <4> HIDE DEF f
      <4> QED BY <4>1, <4>2, <4>3, Fun_IsBij
    <3>5. IsFiniteSet(new)
      BY <2>6, DequeFinite DEF new
    <3> QED BY <3>4, <3>5, FS_Bijection DEF ExistsBijection, Younger, old, new
  <2>11. Len(pruned) = Younger(events, Window) /\ Len(pruned) # 0
    <3>1. \A i \in DOMAIN pruned : pruned[i] < Window
      <4>1. ASSUME NEW i \in DOMAIN pruned PROVE pruned[i] < Window
        <5>1. i = 1 \/ k < k + i - 1
          BY <2>4, <2>7
        <5>2. CASE i = 1
          BY <2>4, <2>8, <5>2
        <5>3. CASE k < k + i - 1
          <6>1. events[k] >= events[k + i - 1] /\ events[k] \in 0..Window /\ events[k + i - 1] \in 0..Window
            BY <1>1, <2>4, <2>8, <5>3 DEF Deque
          <6> QED BY <2>4, <2>8, <6>1, LimitAssumption
        <5> QED BY <5>1, <5>2, <5>3
      <4> QED BY <4>1
    <3>2. {i \in DOMAIN pruned : pruned[i] < Window} = DOMAIN pruned
      BY <3>1
    <3>3. Younger(pruned, Window) = Len(pruned)
      BY <2>6, <3>2, DequeFinite DEF Younger
    <3>4. Window \in 0..Window
      BY LimitAssumption
    <3> QED BY <1>1, <2>4, <2>6, <2>10, <3>3, <3>4
  <2>12. pruned # << >>
    BY <2>11
  <2> QED BY <2>9, <2>10, <2>11, <2>12 DEF pruned
<1> QED BY <1>3, <1>4

(* A time is appended, with an entry of the log.                            *)
LEMMA AppendTallies ==
  ASSUME NEW events, Deque(events), NEW entries, IsFiniteSet(entries), Tally(events, entries),
         NEW new, new.age = 0, new \notin entries
  PROVE  Deque(Append(events, 0)) /\ Tally(Append(events, 0), entries \cup {new})
<1> DEFINE longer == Append(events, 0)
<1>1. /\ events \in Seq(0..Window) /\ DOMAIN events = 1..Len(events) /\ Len(events) \in Nat
      /\ \A i \in DOMAIN events : events[i] \in 0..Window
      /\ \A age : IsFiniteSet({i \in DOMAIN events : events[i] < age}) /\ Younger(events, age) \in Nat
  BY DequeFinite DEF Deque
<1>2. 0 \in 0..Window
  BY LimitAssumption
<1>3. /\ longer \in Seq(0..Window) /\ Len(longer) = Len(events) + 1
      /\ \A i \in 1..Len(events) : longer[i] = events[i]
      /\ longer[Len(events) + 1] = 0
  BY <1>1, <1>2, AppendProperties
<1>4. DOMAIN longer = 1..(Len(events) + 1)
  BY <1>3, LenProperties
<1> HIDE DEF longer
<1>5. Deque(longer)
  <2>1. ASSUME NEW i \in DOMAIN longer, NEW j \in DOMAIN longer, i < j PROVE longer[i] >= longer[j]
    <3>1. i \in 1..Len(events) /\ longer[i] = events[i] /\ events[i] \in Nat
      BY <1>1, <1>3, <1>4, <2>1
    <3>2. CASE j = Len(events) + 1
      BY <1>3, <3>1, <3>2
    <3>3. CASE j # Len(events) + 1
      <4>1. j \in 1..Len(events) /\ longer[j] = events[j]
        BY <1>1, <1>3, <1>4, <3>3
      <4> QED BY <1>1, <2>1, <3>1, <4>1 DEF Deque
    <3> QED BY <3>2, <3>3
  <2> QED BY <1>3, <2>1 DEF Deque
<1>6. ASSUME NEW age \in 0..Window
      PROVE  Younger(longer, age) = Cardinality({e \in entries \cup {new} : e.age < age})
  <2> DEFINE old == {i \in DOMAIN events : events[i] < age}
             few == {e \in entries : e.age < age}
  <2>1. Cardinality(old) = Cardinality(few)
    BY DEF Tally, Younger
  <2>2. IsFiniteSet(old) /\ IsFiniteSet(few)
    BY <1>1, FS_Subset
  <2>3. CASE age = 0
    <3>1. {i \in DOMAIN longer : longer[i] < age} = old
      BY <1>1, <1>3, <1>4, <2>3
    <3>2. {e \in entries \cup {new} : e.age < age} = few
      BY <2>3
    <3> QED BY <2>1, <3>1, <3>2 DEF Younger
  <2>4. CASE age # 0
    <3>1. {i \in DOMAIN longer : longer[i] < age} = old \cup {Len(events) + 1}
      BY <1>1, <1>3, <1>4, <2>4
    <3>2. {e \in entries \cup {new} : e.age < age} = few \cup {new}
      BY <2>4
    <3>3. Len(events) + 1 \notin old /\ new \notin few
      BY <1>1
    <3> HIDE DEF old, few
    <3>4. Cardinality(old \cup {Len(events) + 1}) = Cardinality(old) + 1
      BY <2>2, <3>3, FS_AddElement
    <3>5. Cardinality(few \cup {new}) = Cardinality(few) + 1
      BY <2>2, <3>3, FS_AddElement
    <3> QED BY <2>1, <3>1, <3>2, <3>4, <3>5 DEF Younger
  <2> QED BY <2>3, <2>4
<1> QED BY <1>5, <1>6 DEF Tally, longer

(* The entries of a log a tick later.                                       *)
Later(entries) == {[e EXCEPT !.age = @ + 1] : e \in {d \in entries : d.age < Gate!Horizon - 1}}

LEMMA HorizonType == Gate!Horizon \in Nat \ {0} /\ Window <= Gate!Horizon /\ Ttl <= Gate!Horizon
BY LimitAssumption DEF Gate!Horizon

LEMMA LaterEntries ==
  ASSUME NEW entries \in SUBSET Entries, IsFiniteSet(entries)
  PROVE  /\ Later(entries) \subseteq Entries /\ IsFiniteSet(Later(entries))
         /\ \A e \in Later(entries) : \E d \in entries : e.msg = d.msg /\ e.age = d.age + 1
         /\ \A d \in entries : d.age + 1 < Gate!Horizon =>
              [d EXCEPT !.age = @ + 1] \in Later(entries)
         /\ \A age \in 1..Gate!Horizon :
              Cardinality({e \in Later(entries) : e.age < age}) = Cardinality({e \in entries : e.age < age - 1})
<1> DEFINE next(e) == [e EXCEPT !.age = @ + 1]
           staying == {d \in entries : d.age < Gate!Horizon - 1}
<1>1. ASSUME NEW d \in entries
      PROVE  /\ d \in Entries /\ d.age \in 0..(Gate!Horizon - 1)
             /\ next(d) = [msg |-> d.msg, age |-> d.age + 1]
             /\ d = [msg |-> d.msg, age |-> d.age]
             /\ d.age < Gate!Horizon - 1 => next(d) \in Entries
  BY HorizonType DEF Entries
<1>2. Later(entries) = {next(d) : d \in staying}
  BY DEF Later
<1> HIDE DEF next
<1>3. Later(entries) \subseteq Entries
  BY <1>1, <1>2
<1>4. \A e \in Later(entries) : \E d \in staying : e = next(d) /\ e.msg = d.msg /\ e.age = d.age + 1
  BY <1>1, <1>2
<1>5. IsFiniteSet(staying)
  BY FS_Subset
<1>6. IsFiniteSet(Later(entries))
  <2> DEFINE f == [d \in staying |-> next(d)]
  <2>1. f \in Surjection(staying, Later(entries))
    <3>1. f \in [staying -> Later(entries)]
      BY <1>2
    <3>2. \A e \in Later(entries) : \E d \in staying : f[d] = e
      BY <1>4
    <3> HIDE DEF f, staying
    <3> QED BY <3>1, <3>2, Fun_IsSurj
  <2> HIDE DEF f, staying
  <2> QED BY <1>5, <2>1, FS_Surjection
<1>7. ASSUME NEW age \in 1..Gate!Horizon
      PROVE  Cardinality({e \in Later(entries) : e.age < age}) = Cardinality({e \in entries : e.age < age - 1})
  <2> DEFINE young == {e \in entries : e.age < age - 1}
             then == {e \in Later(entries) : e.age < age}
             f == [d \in young |-> next(d)]
  <2>1. ASSUME NEW d \in young PROVE d \in staying /\ next(d) \in then
    <3>1. d.age \in Nat /\ d.age < age - 1 /\ age \in Nat /\ age <= Gate!Horizon /\ Gate!Horizon \in Nat
      BY <1>1, HorizonType
    <3>2. d \in staying /\ next(d).age = d.age + 1
      BY <1>1, <3>1
    <3> QED BY <1>2, <3>1, <3>2
  <2>2. ASSUME NEW e \in then PROVE \E d \in young : next(d) = e
    <3>1. PICK d \in staying : e = next(d) /\ e.age = d.age + 1
      BY <1>4
    <3>2. d.age \in Nat /\ d.age + 1 < age /\ age \in Nat
      BY <1>1, <3>1, HorizonType
    <3> QED BY <3>1, <3>2
  <2>3. ASSUME NEW c \in young, NEW d \in young, next(c) = next(d) PROVE c = d
    <3>1. c.msg = d.msg /\ c.age + 1 = d.age + 1 /\ c.age \in Nat /\ d.age \in Nat
      BY <1>1, <2>3, HorizonType
    <3> QED BY <1>1, <3>1
  <2>4. IsFiniteSet(young)
    BY FS_Subset
  <2> HIDE DEF young, then
  <2>5. f \in Bijection(young, then)
    <3>1. f \in [young -> then]
      BY <2>1
    <3>2. \A c, d \in young : f[c] = f[d] => c = d
      BY <2>3
    <3>3. \A e \in then : \E d \in young : f[d] = e
      BY <2>2
    <3> HIDE DEF f
    <3> QED BY <3>1, <3>2, <3>3, Fun_IsBij
  <2> HIDE DEF f
  <2> QED BY <2>4, <2>5, FS_Bijection DEF ExistsBijection, young, then
<1>8. \A d \in entries : d.age + 1 < Gate!Horizon => next(d) \in Later(entries)
  <2>1. ASSUME NEW d \in entries, d.age + 1 < Gate!Horizon PROVE d \in staying
    BY <1>1, <2>1, HorizonType
  <2> HIDE DEF staying
  <2> QED BY <1>2, <2>1
<1> QED BY <1>3, <1>4, <1>6, <1>7, <1>8 DEF next

(* Time passes for a deque and for the log alike.                           *)
LEMMA OlderTallies ==
  ASSUME NEW events, Deque(events), NEW entries \in SUBSET Entries, IsFiniteSet(entries), Tally(events, entries)
  PROVE  Deque(Older(events)) /\ Tally(Older(events), Later(entries))
<1>1. /\ events \in Seq(0..Window) /\ DOMAIN events = 1..Len(events) /\ Len(events) \in Nat
      /\ \A i \in DOMAIN events : events[i] \in 0..Window
  BY DequeFinite DEF Deque
<1>2. /\ DOMAIN Older(events) = 1..Len(events)
      /\ \A i \in DOMAIN events : Older(events)[i] = IF events[i] < Window THEN events[i] + 1 ELSE Window
  BY <1>1 DEF Older
<1>3. \A i \in DOMAIN events : Older(events)[i] \in 0..Window
  BY <1>1, <1>2, LimitAssumption
<1>4. Older(events) \in Seq(0..Window)
  BY <1>1, <1>2, <1>3 DEF Older
<1>5. Deque(Older(events))
  <2>1. ASSUME NEW i \in DOMAIN events, NEW j \in DOMAIN events, i < j
        PROVE  Older(events)[i] >= Older(events)[j]
    <3>1. events[i] >= events[j] /\ events[i] \in Nat /\ events[j] \in Nat
      BY <1>1, <2>1 DEF Deque
    <3> QED BY <1>2, <3>1, LimitAssumption
  <2> QED BY <1>1, <1>2, <1>4, <2>1 DEF Deque
<1>6. ASSUME NEW age \in 0..Window
      PROVE  Younger(Older(events), age) = Cardinality({e \in Later(entries) : e.age < age})
  <2>1. CASE age = 0
    <3>1. {i \in DOMAIN Older(events) : Older(events)[i] < age} = {}
      BY <1>1, <1>2, <1>3, <2>1
    <3>2. {e \in Later(entries) : e.age < age} = {}
      BY <2>1, LaterEntries, HorizonType DEF Entries
    <3> QED BY <3>1, <3>2 DEF Younger
  <2>2. CASE age # 0
    <3>1. age \in 1..Gate!Horizon /\ age - 1 \in 0..Window
      BY <2>2, HorizonType, LimitAssumption
    <3>2. {i \in DOMAIN Older(events) : Older(events)[i] < age} = {i \in DOMAIN events : events[i] < age - 1}
      <4>1. ASSUME NEW i \in DOMAIN events PROVE Older(events)[i] < age <=> events[i] < age - 1
        BY <1>1, <1>2, LimitAssumption
      <4> QED BY <1>1, <1>2, <4>1
    <3>3. Younger(Older(events), age) = Younger(events, age - 1)
      BY <3>2 DEF Younger
    <3>4. Younger(events, age - 1) = Cardinality({e \in entries : e.age < age - 1})
      BY <3>1 DEF Tally
    <3> QED BY <3>1, <3>3, <3>4, LaterEntries
  <2> QED BY <2>1, <2>2
<1> QED BY <1>5, <1>6 DEF Tally

-----------------------------------------------------------------------------
(* What the cache and the limiter know is what the log says.                *)

LEMMA SameCardinality == \A S : Gate!Cardinality(S) = Cardinality(S)
BY DEF Gate!Cardinality, Cardinality

LEMMA Counts ==
  ASSUME IInv
  PROVE  /\ \A age : IsFiniteSet(Gate!Started(age)) /\ Cardinality(Gate!Started(age)) \in Nat
         /\ \A s, age : /\ IsFiniteSet(Gate!StartedBy(s, age)) /\ Cardinality(Gate!StartedBy(s, age)) \in Nat
                        /\ Gate!StartedBy(s, age) = {e \in By(s) : e.age < age}
         /\ log \subseteq Entries /\ IsFiniteSet(log)
         /\ \A s : By(s) \subseteq Entries /\ IsFiniteSet(By(s))
<1>1. log \subseteq Entries /\ IsFiniteSet(log)
  BY DEF IInv, TypeOK, Entries
<1>2. ASSUME NEW s PROVE By(s) \subseteq Entries /\ IsFiniteSet(By(s))
  BY <1>1, FS_Subset DEF By
<1>3. ASSUME NEW age PROVE IsFiniteSet(Gate!Started(age)) /\ Cardinality(Gate!Started(age)) \in Nat
  BY <1>1, FS_Subset, FS_CardinalityType DEF Gate!Started
<1>4. ASSUME NEW s, NEW age
      PROVE  /\ IsFiniteSet(Gate!StartedBy(s, age)) /\ Cardinality(Gate!StartedBy(s, age)) \in Nat
             /\ Gate!StartedBy(s, age) = {e \in By(s) : e.age < age}
  <2>1. Gate!StartedBy(s, age) = {e \in By(s) : e.age < age}
    BY DEF Gate!StartedBy, Gate!Started, By
  <2>2. Gate!StartedBy(s, age) \in SUBSET log
    BY DEF Gate!StartedBy, Gate!Started
  <2> HIDE DEF By
  <2> QED BY <1>1, <2>1, <2>2, FS_Subset, FS_CardinalityType
<1> QED BY <1>1, <1>2, <1>3, <1>4

LEMMA GlobalPruned ==
  ASSUME IInv
  PROVE  /\ Deque(Prune(global)) /\ Tally(Prune(global), log)
         /\ Len(Prune(global)) = Cardinality(Gate!Started(Window))
<1>1. Deque(global) /\ Tally(global, log) /\ Window \in 0..Window
  BY LimitAssumption DEF IInv
<1> QED BY <1>1, PruneKeepsRecent DEF Tally, Gate!Started

LEMMA SenderPruned ==
  ASSUME IInv, NEW s \in Senders
  PROVE  /\ Deque(EventsOf(s)) /\ Tally(EventsOf(s), By(s))
         /\ Len(EventsOf(s)) = Cardinality(Gate!StartedBy(s, Window))
         /\ s \in DOMAIN PrunedSenders => Gate!StartedBy(s, Window) # {}
<1>1. Tally(DequeOf(s), By(s)) /\ Window \in 0..Window
  BY LimitAssumption DEF IInv
<1>2. Gate!StartedBy(s, Window) = {e \in By(s) : e.age < Window}
  BY Counts
<1>3. Deque(<< >>) /\ Len(<< >>) = 0
  BY DEF Deque
<1>4. CASE s \in DOMAIN senders
  <2>1. Deque(senders[s]) /\ DequeOf(s) = senders[s]
    BY <1>4 DEF IInv, DequeOf
  <2>2. /\ Deque(Prune(senders[s]))
        /\ \A age \in 0..Window : Younger(Prune(senders[s]), age) = Younger(senders[s], age)
        /\ Len(Prune(senders[s])) = Younger(senders[s], Window)
        /\ Prune(senders[s]) = << >> <=> Younger(senders[s], Window) = 0
    BY <2>1, PruneKeepsRecent
  <2>3. EventsOf(s) = Prune(senders[s])
    BY <1>4 DEF EventsOf, PrunedSenders
  <2>4. s \in DOMAIN PrunedSenders => Prune(senders[s]) # << >>
    BY DEF PrunedSenders
  <2>5. Cardinality(Gate!StartedBy(s, Window)) = Younger(senders[s], Window)
    BY <1>1, <1>2, <2>1 DEF Tally
  <2>6. Tally(EventsOf(s), By(s))
    BY <1>1, <2>1, <2>2, <2>3 DEF Tally
  <2>7. Cardinality(Gate!StartedBy(s, Window)) # 0 => Gate!StartedBy(s, Window) # {}
    BY FS_EmptySet
  <2> QED BY <2>2, <2>3, <2>4, <2>5, <2>6, <2>7
<1>5. CASE s \notin DOMAIN senders
  <2>1. EventsOf(s) = << >> /\ DequeOf(s) = << >> /\ s \notin DOMAIN PrunedSenders
    BY <1>5 DEF EventsOf, PrunedSenders, DequeOf
  <2>2. Younger(<< >>, Window) = 0
    BY FS_EmptySet DEF Younger
  <2> QED BY <1>1, <1>2, <1>3, <2>1, <2>2 DEF Tally
<1> QED BY <1>4, <1>5

LEMMA SameAnswer ==
  ASSUME IInv, NEW m \in Messages
  PROVE  (m \in Fresh <=> Gate!Repeated(m)) /\ (Room(m.sender) <=> ~Gate!RateFull(m.sender))
<1>1. m \in Fresh <=> Gate!Repeated(m)
  <2>1. Ttl \in 0..Ttl
    BY LimitAssumption
  <2> QED BY <2>1 DEF IInv, CacheInv, Fresh, Gate!Repeated, Gate!Started
<1>2. m.sender \in Senders
  BY DEF Messages
<1>3. /\ Len(Prune(global)) = Cardinality(Gate!Started(Window))
      /\ Len(EventsOf(m.sender)) = Cardinality(Gate!StartedBy(m.sender, Window))
  BY <1>2, GlobalPruned, SenderPruned
<1>4. Cardinality(Gate!Started(Window)) \in Nat /\ Cardinality(Gate!StartedBy(m.sender, Window)) \in Nat
  BY Counts
<1>5. Room(m.sender) <=> ~Gate!RateFull(m.sender)
  BY <1>3, <1>4, LimitAssumption, SameCardinality DEF Room, Gate!RateFull
<1> QED BY <1>1, <1>5

(* Only senders of recent requests keep a deque when another is handled.    *)
LEMMA SendersAfter ==
  ASSUME IInv, NEW s \in Senders, NEW events, Deque(events), senders' = WithEvents(s, events)
  PROVE  /\ DOMAIN senders' \subseteq Senders /\ senders' \in [DOMAIN senders' -> Seq(0..Window)]
         /\ \A t \in DOMAIN senders' : Deque(senders'[t])
         /\ \A t \in Senders : DequeOf(t)' = IF t = s THEN events ELSE EventsOf(t)
         /\ IsFiniteSet(DOMAIN senders') /\ Cardinality(DOMAIN senders') <= Global + 1
<1> DEFINE kept == DOMAIN PrunedSenders
           started == Gate!Started(Window)
<1>1. kept \subseteq Senders /\ DOMAIN senders' = kept \cup {s}
  BY DEF PrunedSenders, WithEvents, IInv, TypeOK
<1>2. \A t \in DOMAIN senders' : senders'[t] = IF t = s THEN events ELSE EventsOf(t)
  BY DEF WithEvents, EventsOf
<1>3. \A t \in DOMAIN senders' : Deque(senders'[t])
  BY <1>1, <1>2, SenderPruned
<1>4. \A t \in Senders : DequeOf(t)' = IF t = s THEN events ELSE EventsOf(t)
  <2>1. \A t \in Senders : t \notin DOMAIN senders' => EventsOf(t) = << >>
    BY <1>1 DEF EventsOf
  <2> QED BY <1>1, <1>2, <2>1 DEF DequeOf
<1>5. senders' \in [DOMAIN senders' -> Seq(0..Window)]
  <2>1. \A t \in DOMAIN senders' : senders'[t] \in Seq(0..Window)
    BY <1>3 DEF Deque
  <2>2. senders' = [t \in DOMAIN senders' |-> senders'[t]]
    BY DEF WithEvents
  <2> QED BY <2>1, <2>2
<1>6. IsFiniteSet(kept) /\ Cardinality(kept) <= Global
  <2>1. IsFiniteSet(started) /\ Cardinality(started) \in Nat /\ Cardinality(started) <= Global
    <3>1. Gate!WindowBound
      BY DEF IInv, LimitsHold
    <3> QED BY <3>1, Counts, SameCardinality DEF Gate!WindowBound
  <2> DEFINE of == {e.msg.sender : e \in started}
             f == [e \in started |-> e.msg.sender]
  <2>2. kept \subseteq of
    <3>1. ASSUME NEW t \in kept PROVE \E e \in started : e.msg.sender = t
      BY <1>1, <3>1, SenderPruned DEF Gate!StartedBy
    <3> QED BY <3>1
  <2>3. IsFiniteSet(of) /\ Cardinality(of) <= Cardinality(started)
    <3> HIDE DEF started
    <3>1. f \in Surjection(started, of)
      <4>1. f \in [started -> of] /\ \A t \in of : \E e \in started : f[e] = t
        OBVIOUS
      <4> HIDE DEF f, of
      <4> QED BY <4>1, Fun_IsSurj
    <3> HIDE DEF f, of
    <3> QED BY <2>1, <3>1, FS_Surjection
  <2> HIDE DEF of, kept, started
  <2>4. IsFiniteSet(kept) /\ Cardinality(kept) <= Cardinality(of)
    BY <2>2, <2>3, FS_Subset
  <2>5. Cardinality(kept) \in Nat /\ Cardinality(of) \in Nat
    BY <2>3, <2>4, FS_CardinalityType
  <2> QED BY <2>1, <2>3, <2>4, <2>5, LimitAssumption
<1> HIDE DEF kept
<1>7. IsFiniteSet(DOMAIN senders') /\ Cardinality(DOMAIN senders') <= Global + 1
  <2>1. Cardinality(kept) \in Nat /\ Global \in Nat
    BY <1>6, FS_CardinalityType, LimitAssumption
  <2>2. IsFiniteSet(kept \cup {s}) /\ Cardinality(kept \cup {s}) <= Cardinality(kept) + 1
    <3>1. IsFiniteSet(kept)
      BY <1>6
    <3>2. /\ IsFiniteSet(kept \cup {s})
          /\ Cardinality(kept \cup {s}) = IF s \in kept THEN Cardinality(kept) ELSE Cardinality(kept) + 1
      BY <3>1, FS_AddElement
    <3> QED BY <2>1, <3>2
  <2>3. Cardinality(kept \cup {s}) \in Nat
    BY <2>2, FS_CardinalityType
  <2> QED BY <1>1, <1>6, <2>1, <2>2, <2>3
<1> QED BY <1>1, <1>3, <1>4, <1>5, <1>7 DEF kept

(* Forgetting what has expired changes no answer of the cache.              *)
LEMMA CachePruned ==
  ASSUME IInv, seen' = PrunedCache, log' = log
  PROVE  CacheInv' /\ DOMAIN seen' \subseteq Messages /\ seen' \in [DOMAIN seen' -> 0..Ttl]
<1>1. /\ DOMAIN seen' \subseteq Messages /\ seen' \in [DOMAIN seen' -> 0..Ttl]
      /\ \A m \in DOMAIN seen : seen[m] \in 0..Ttl
  BY DEF PrunedCache, Fresh, IInv, TypeOK
<1>2. ASSUME NEW m \in Messages, NEW age \in 0..Ttl
      PROVE  (m \in DOMAIN seen' /\ seen'[m] < age) <=> (m \in DOMAIN seen /\ seen[m] < age)
  BY <1>1, LimitAssumption DEF PrunedCache, Fresh
<1> QED BY <1>1, <1>2 DEF CacheInv, IInv

LEMMA CacheWithEntry ==
  ASSUME IInv, NEW m \in Messages, seen' = WithEntry(PrunedCache, m), log' = log \cup {[msg |-> m, age |-> 0]}
  PROVE  CacheInv' /\ DOMAIN seen' \subseteq Messages /\ seen' \in [DOMAIN seen' -> 0..Ttl]
<1>1. /\ DOMAIN seen \subseteq Messages /\ \A n \in DOMAIN seen : seen[n] \in 0..Ttl
      /\ 0 \in 0..Ttl
  BY LimitAssumption DEF IInv, TypeOK
<1>2. /\ DOMAIN seen' = Fresh \cup {m}
      /\ \A n \in DOMAIN seen' : seen'[n] = IF n = m THEN 0 ELSE seen[n]
      /\ seen' = [n \in DOMAIN seen' |-> seen'[n]]
  BY DEF WithEntry, PrunedCache
<1>3. DOMAIN seen' \subseteq Messages /\ \A n \in DOMAIN seen' : seen'[n] \in 0..Ttl
  BY <1>1, <1>2 DEF Fresh
<1>4. seen' \in [DOMAIN seen' -> 0..Ttl]
  BY <1>2, <1>3
<1>5. ASSUME NEW n \in Messages, NEW age \in 0..Ttl, n # m
      PROVE  (n \in DOMAIN seen' /\ seen'[n] < age) <=> (\E e \in log' : e.msg = n /\ e.age < age)
  <2>1. (n \in DOMAIN seen' /\ seen'[n] < age) <=> (n \in DOMAIN seen /\ seen[n] < age)
    BY <1>1, <1>2, <1>5, LimitAssumption DEF Fresh
  <2>2. (\E e \in log' : e.msg = n /\ e.age < age) <=> (\E e \in log : e.msg = n /\ e.age < age)
    BY <1>5
  <2> QED BY <2>1, <2>2 DEF IInv, CacheInv
<1>6. ASSUME NEW age \in 0..Ttl
      PROVE  (m \in DOMAIN seen' /\ seen'[m] < age) <=> (\E e \in log' : e.msg = m /\ e.age < age)
  <2>1. (m \in DOMAIN seen' /\ seen'[m] < age) <=> age # 0
    BY <1>2, LimitAssumption
  <2>2. \A e \in log' : e.age \in Nat
    <3>1. \A e \in log : e.age \in Nat
      BY HorizonType DEF IInv, TypeOK
    <3> QED BY <3>1
  <2>3. age # 0 => \E e \in log' : e.msg = m /\ e.age < age
    <3>1. /\ [msg |-> m, age |-> 0] \in log' /\ [msg |-> m, age |-> 0].msg = m
          /\ [msg |-> m, age |-> 0].age = 0
      OBVIOUS
    <3>2. age # 0 => 0 < age
      BY LimitAssumption
    <3> QED BY <3>1, <3>2
  <2> QED BY <2>1, <2>2, <2>3
<1> QED BY <1>3, <1>4, <1>5, <1>6 DEF CacheInv

-----------------------------------------------------------------------------
(* The steps.                                                               *)

LEMMA InitInv == ASSUME Init PROVE IInv
<1>1. /\ seen = << >> /\ global = << >> /\ senders = << >> /\ inflight = 0 /\ log = {} /\ verdict = "none"
  BY DEF Init
<1>2. DOMAIN seen = {} /\ DOMAIN senders = {} /\ DOMAIN global = {}
  BY <1>1
<1>3. TypeOK
  BY <1>1, <1>2, LimitAssumption DEF TypeOK, Gate!Verdicts
<1>4. \A s : DequeOf(s) = << >> /\ By(s) = {}
  BY <1>1, <1>2 DEF DequeOf, By
<1>5. Deque(<< >>) /\ Tally(<< >>, {})
  <2>1. \A age : {i \in DOMAIN << >> : << >>[i] < age} = {} /\ {e \in {} : e.age < age} = {}
    OBVIOUS
  <2> QED BY <2>1 DEF Deque, Tally, Younger
<1>6. CacheInv
  BY <1>1, <1>2 DEF CacheInv
<1>7. LimitsHold
  <2>1. Gate!Started(Window) = {} /\ \A s : Gate!StartedBy(s, Window) = {}
    BY <1>1 DEF Gate!Started, Gate!StartedBy
  <2> QED BY <1>2, <2>1, FS_EmptySet, SameCardinality, LimitAssumption DEF LimitsHold, Gate!WindowBound
<1>8. Gate!AnsweredOnce
  BY <1>1 DEF Gate!AnsweredOnce, Gate!Started
<1>9. IsFiniteSet(log) /\ IsFiniteSet(DOMAIN senders)
  BY <1>1, <1>2, FS_EmptySet
<1> QED BY <1>1, <1>2, <1>3, <1>4, <1>5, <1>6, <1>7, <1>8, <1>9 DEF IInv

(* The limiter has pruned its deques for a request it refuses.              *)
LEMMA DropKeeps ==
  ASSUME IInv, NEW m \in Messages, DropDuplicate(m) \/ DropFull(m) \/ DropLimited(m)
  PROVE  IInv'
<1>1. seen' = PrunedCache /\ verdict' \in Gate!Verdicts /\ UNCHANGED <<inflight, log>>
  BY DEF DropDuplicate, DropFull, DropLimited, Gate!Verdicts
<1>2. CacheInv' /\ DOMAIN seen' \subseteq Messages /\ seen' \in [DOMAIN seen' -> 0..Ttl]
  BY <1>1, CachePruned
<1>3. Gate!WindowBound' /\ Gate!AnsweredOnce' /\ \A s : By(s)' = By(s)
  <2>1. Gate!WindowBound /\ Gate!AnsweredOnce
    BY DEF IInv, LimitsHold
  <2> QED BY <1>1, <2>1 DEF Gate!WindowBound, Gate!AnsweredOnce, Gate!Started, Gate!StartedBy, By
<1>4. log' = log /\ log' \subseteq Entries /\ IsFiniteSet(log') /\ inflight' \in 0..MaxPending
  BY <1>1, Counts DEF IInv, TypeOK
<1>5. CASE DropDuplicate(m) \/ DropFull(m)
  <2>1. UNCHANGED limiterVars
    BY <1>5 DEF DropDuplicate, DropFull
  <2>2. /\ global' \in Seq(0..Window) /\ DOMAIN senders' \subseteq Senders
        /\ senders' \in [DOMAIN senders' -> Seq(0..Window)]
        /\ IsFiniteSet(DOMAIN senders') /\ Cardinality(DOMAIN senders') <= Global + 1
        /\ Deque(global') /\ Tally(global', log')
        /\ \A s \in DOMAIN senders' : Deque(senders'[s])
    BY <1>4, <2>1 DEF limiterVars, IInv, TypeOK, LimitsHold
  <2>3. \A s \in Senders : Tally(DequeOf(s)', By(s)')
    <3>1. \A s : DequeOf(s)' = DequeOf(s)
      BY <2>1 DEF DequeOf, limiterVars
    <3> QED BY <1>3, <3>1 DEF IInv
  <2> QED BY <1>1, <1>2, <1>3, <1>4, <2>2, <2>3 DEF IInv, TypeOK, LimitsHold, Entries, Deque, Tally, Younger, By, DequeOf, Gate!Horizon, Gate!Verdicts
<1>6. CASE DropLimited(m)
  <2>1. global' = Prune(global) /\ senders' = WithEvents(m.sender, EventsOf(m.sender)) /\ m.sender \in Senders
    BY <1>6 DEF DropLimited, Messages
  <2>2. Deque(EventsOf(m.sender))
    BY <2>1, SenderPruned
  <2>3. /\ DOMAIN senders' \subseteq Senders /\ senders' \in [DOMAIN senders' -> Seq(0..Window)]
        /\ \A t \in DOMAIN senders' : Deque(senders'[t])
        /\ \A t \in Senders : DequeOf(t)' = EventsOf(t)
        /\ IsFiniteSet(DOMAIN senders') /\ Cardinality(DOMAIN senders') <= Global + 1
    BY <2>1, <2>2, SendersAfter
  <2>4. \A s \in Senders : Tally(DequeOf(s)', By(s)')
    BY <1>3, <2>3, SenderPruned
  <2>5. Deque(global') /\ Tally(global', log') /\ global' \in Seq(0..Window)
    BY <1>4, <2>1, GlobalPruned DEF Deque
  <2> QED BY <1>1, <1>2, <1>3, <1>4, <2>3, <2>4, <2>5 DEF IInv, TypeOK, LimitsHold, Entries, Deque, Tally, Younger, By, DequeOf, Gate!Horizon, Gate!Verdicts
<1> QED BY <1>5, <1>6

LEMMA AdmitKeeps == ASSUME IInv, NEW m \in Messages, Admit(m) PROVE IInv'
<1> DEFINE new == [msg |-> m, age |-> 0]
<1>1. /\ inflight < MaxPending /\ Room(m.sender) /\ m \notin Fresh
      /\ seen' = WithEntry(PrunedCache, m) /\ global' = Append(Prune(global), 0)
      /\ senders' = WithEvents(m.sender, Append(EventsOf(m.sender), 0))
      /\ inflight' = inflight + 1 /\ log' = log \cup {new} /\ verdict' = "admitted"
  BY DEF Admit
<1>2. m.sender \in Senders /\ new \in Entries /\ new.age = 0 /\ new.msg = m
  BY HorizonType DEF Messages, Entries
<1>3. ~Gate!Repeated(m) /\ ~Gate!RateFull(m.sender)
  BY <1>1, SameAnswer
<1>4. new \notin log
  <2>1. ASSUME new \in log PROVE FALSE
    <3>1. new \in Gate!Started(Ttl)
      BY <1>2, <2>1, LimitAssumption DEF Gate!Started
    <3> QED BY <1>2, <1>3, <3>1 DEF Gate!Repeated
  <2> QED BY <2>1
<1>5. /\ By(m.sender)' = By(m.sender) \cup {new} /\ new \notin By(m.sender)
      /\ \A s : s # m.sender => By(s)' = By(s)
  <2>1. \A s : By(s)' = {e \in log \cup {new} : e.msg.sender = s}
    BY <1>1 DEF By
  <2> QED BY <1>2, <1>4, <2>1 DEF By
<1>6. CacheInv' /\ DOMAIN seen' \subseteq Messages /\ seen' \in [DOMAIN seen' -> 0..Ttl]
  BY <1>1, CacheWithEntry
<1>7. log' \subseteq Entries /\ IsFiniteSet(log') /\ inflight' \in 0..MaxPending /\ verdict' \in Gate!Verdicts
  <2>1. IsFiniteSet(log \cup {new})
    BY Counts, FS_AddElement
  <2>2. inflight' \in 0..MaxPending
    BY <1>1, LimitAssumption DEF IInv, TypeOK
  <2> QED BY <1>1, <1>2, <2>1, <2>2, Counts DEF Gate!Verdicts
<1> HIDE DEF new
<1>8. Deque(global') /\ Tally(global', log') /\ global' \in Seq(0..Window)
  <2>1. Deque(Append(Prune(global), 0)) /\ Tally(Append(Prune(global), 0), log \cup {new})
    BY <1>2, <1>4, Counts, GlobalPruned, AppendTallies
  <2> QED BY <1>1, <2>1 DEF Deque
<1>9. Deque(Append(EventsOf(m.sender), 0)) /\ Tally(Append(EventsOf(m.sender), 0), By(m.sender) \cup {new})
  <2>1. IsFiniteSet(By(m.sender)) /\ Deque(EventsOf(m.sender)) /\ Tally(EventsOf(m.sender), By(m.sender))
    BY <1>2, Counts, SenderPruned
  <2> QED BY <1>2, <1>5, <2>1, AppendTallies
<1>10. /\ DOMAIN senders' \subseteq Senders /\ senders' \in [DOMAIN senders' -> Seq(0..Window)]
       /\ \A t \in DOMAIN senders' : Deque(senders'[t])
       /\ \A t \in Senders : DequeOf(t)' = IF t = m.sender THEN Append(EventsOf(m.sender), 0) ELSE EventsOf(t)
       /\ IsFiniteSet(DOMAIN senders') /\ Cardinality(DOMAIN senders') <= Global + 1
  BY <1>1, <1>2, <1>9, SendersAfter
<1>11. \A s \in Senders : Tally(DequeOf(s)', By(s)')
  BY <1>5, <1>9, <1>10, SenderPruned
<1>12. Gate!WindowBound'
  <2>1. /\ Gate!Started(Window)' = Gate!Started(Window) \cup {new}
        /\ \A s \in Senders : Gate!StartedBy(s, Window)' =
             IF s = m.sender THEN Gate!StartedBy(s, Window) \cup {new} ELSE Gate!StartedBy(s, Window)
    BY <1>1, <1>2, LimitAssumption DEF Gate!Started, Gate!StartedBy
  <2>2. new \notin Gate!Started(Window) /\ \A s : new \notin Gate!StartedBy(s, Window)
    BY <1>4 DEF Gate!Started, Gate!StartedBy
  <2>3. Cardinality(Gate!Started(Window) \cup {new}) = Cardinality(Gate!Started(Window)) + 1
    BY <2>2, Counts, FS_AddElement
  <2>4. \A s : Cardinality(Gate!StartedBy(s, Window) \cup {new}) = Cardinality(Gate!StartedBy(s, Window)) + 1
    BY <2>2, Counts, FS_AddElement
  <2>5. /\ Cardinality(Gate!Started(Window)) < Global
        /\ Cardinality(Gate!StartedBy(m.sender, Window)) < PerSender
    BY <1>3, Counts, SameCardinality, LimitAssumption DEF Gate!RateFull
  <2>6. Cardinality(Gate!Started(Window)') <= Global
    BY <2>1, <2>3, <2>5, Counts, LimitAssumption
  <2>7. ASSUME NEW s \in Senders PROVE Cardinality(Gate!StartedBy(s, Window)') <= PerSender
    <3>1. CASE s = m.sender
      BY <2>1, <2>4, <2>5, <3>1, Counts, LimitAssumption
    <3>2. CASE s # m.sender
      <4>1. Cardinality(Gate!StartedBy(s, Window)) <= PerSender
        BY SameCardinality DEF IInv, LimitsHold, Gate!WindowBound
      <4> QED BY <2>1, <3>2, <4>1
    <3> QED BY <3>1, <3>2
  <2> QED BY <2>6, <2>7, SameCardinality DEF Gate!WindowBound
<1>13. Gate!AnsweredOnce'
  <2>1. Gate!Started(Ttl)' \subseteq Gate!Started(Ttl) \cup {new}
    BY <1>1 DEF Gate!Started
  <2>2. \A e \in Gate!Started(Ttl) : e.msg # m
    BY <1>3 DEF Gate!Repeated
  <2> QED BY <1>2, <2>1, <2>2 DEF Gate!AnsweredOnce, IInv
<1> QED BY <1>6, <1>7, <1>8, <1>10, <1>11, <1>12, <1>13
        DEF IInv, TypeOK, LimitsHold, Entries, Deque, Tally, Younger, By, DequeOf, Gate!Horizon, Gate!Verdicts

LEMMA TickKeeps == ASSUME IInv, Tick PROVE IInv'
<1>1. /\ seen' = [m \in DOMAIN seen |-> IF seen[m] < Ttl THEN seen[m] + 1 ELSE Ttl]
      /\ global' = Older(global) /\ senders' = [s \in DOMAIN senders |-> Older(senders[s])]
      /\ UNCHANGED <<inflight, verdict>>
  BY DEF Tick
<1>2. log' = Later(log)
  BY DEF Tick, Gate!Pass, Gate!Started, Later
<1>3. log \in SUBSET Entries /\ IsFiniteSet(log) /\ \A s : By(s) \in SUBSET Entries /\ IsFiniteSet(By(s))
  BY Counts
<1>4. /\ log' \subseteq Entries /\ IsFiniteSet(log')
      /\ \A e \in log' : \E d \in log : e.msg = d.msg /\ e.age = d.age + 1
      /\ \A d \in log : d.age + 1 < Gate!Horizon => [d EXCEPT !.age = @ + 1] \in log'
      /\ \A age \in 1..Gate!Horizon : Cardinality({e \in log' : e.age < age}) = Cardinality({e \in log : e.age < age - 1})
  BY <1>2, <1>3, LaterEntries
<1>5. \A s : By(s)' = Later(By(s))
  <2>1. ASSUME NEW s PROVE By(s)' = Later(By(s))
    <3>1. By(s)' = {e \in Later(log) : e.msg.sender = s}
      BY <1>2 DEF By
    <3>2. \A d \in log : [d EXCEPT !.age = @ + 1].msg = d.msg
      BY <1>3 DEF Entries
    <3> QED BY <3>1, <3>2 DEF Later, By
  <2> QED BY <2>1
<1>6. Deque(global') /\ Tally(global', log') /\ global' \in Seq(0..Window)
  <2>1. Deque(Older(global)) /\ Tally(Older(global), Later(log))
    BY <1>3, OlderTallies DEF IInv
  <2> QED BY <1>1, <1>2, <2>1 DEF Deque
<1>7. /\ \A s \in DOMAIN senders' : Deque(senders'[s])
      /\ \A s \in Senders : Tally(DequeOf(s)', By(s)')
  <2>1. \A s \in DOMAIN senders : Deque(Older(senders[s]))
    <3>1. ASSUME NEW s \in DOMAIN senders PROVE Deque(Older(senders[s]))
      <4>1. s \in Senders /\ Deque(senders[s]) /\ Tally(senders[s], By(s))
        BY DEF IInv, TypeOK, DequeOf
      <4> QED BY <1>3, <4>1, OlderTallies
    <3> QED BY <3>1
  <2>2. ASSUME NEW s \in Senders PROVE Tally(DequeOf(s)', By(s)')
    <3>1. Tally(DequeOf(s), By(s)) /\ Deque(DequeOf(s))
      <4>1. Tally(DequeOf(s), By(s))
        BY DEF IInv
      <4>2. Deque(<< >>)
        BY DEF Deque
      <4>3. s \in DOMAIN senders => Deque(senders[s])
        BY DEF IInv
      <4> QED BY <4>1, <4>2, <4>3 DEF DequeOf
    <3>2. Tally(Older(DequeOf(s)), Later(By(s)))
      BY <1>3, <3>1, OlderTallies
    <3>3. DequeOf(s)' = Older(DequeOf(s))
      <4>1. Older(<< >>) = << >>
        BY DEF Older
      <4> QED BY <1>1, <4>1 DEF DequeOf
    <3> QED BY <1>5, <3>2, <3>3
  <2> QED BY <1>1, <2>1, <2>2
<1>8. /\ DOMAIN senders' = DOMAIN senders /\ DOMAIN senders \subseteq Senders /\ IsFiniteSet(DOMAIN senders)
      /\ Cardinality(DOMAIN senders) <= Global + 1
      /\ senders' \in [DOMAIN senders' -> Seq(0..Window)]
  <2>1. \A s \in DOMAIN senders : Older(senders[s]) \in Seq(0..Window)
    BY <1>1, <1>7 DEF Deque
  <2> QED BY <1>1, <2>1 DEF IInv, TypeOK, LimitsHold
<1>9. CacheInv' /\ DOMAIN seen' \subseteq Messages /\ seen' \in [DOMAIN seen' -> 0..Ttl]
  <2>1. DOMAIN seen \subseteq Messages /\ \A m \in DOMAIN seen : seen[m] \in 0..Ttl
    BY DEF IInv, TypeOK
  <2>2. DOMAIN seen' = DOMAIN seen /\ \A m \in DOMAIN seen : seen'[m] \in 0..Ttl
    BY <1>1, <2>1, LimitAssumption
  <2>3. seen' \in [DOMAIN seen' -> 0..Ttl]
    BY <1>1, <2>2
  <2>4. ASSUME NEW m \in Messages, NEW age \in 0..Ttl
        PROVE  (m \in DOMAIN seen' /\ seen'[m] < age) <=> (\E e \in log' : e.msg = m /\ e.age < age)
    <3>1. CASE age = 0
      <4>1. \A e \in log' : ~(e.age < age)
        BY <1>4, <3>1, HorizonType DEF Entries
      <4> QED BY <2>2, <3>1, <4>1, LimitAssumption
    <3>2. CASE age # 0
      <4>1. age - 1 \in 0..Ttl /\ age \in 1..Gate!Horizon
        BY <3>2, HorizonType, LimitAssumption
      <4>2. (m \in DOMAIN seen' /\ seen'[m] < age) <=> (m \in DOMAIN seen /\ seen[m] < age - 1)
        BY <1>1, <2>1, <3>2, LimitAssumption
      <4>3. (m \in DOMAIN seen /\ seen[m] < age - 1) <=> (\E d \in log : d.msg = m /\ d.age < age - 1)
        BY <4>1 DEF IInv, CacheInv
      <4>4. ASSUME NEW e \in log', e.msg = m, e.age < age PROVE \E d \in log : d.msg = m /\ d.age < age - 1
        <5>1. PICK d \in log : e.msg = d.msg /\ e.age = d.age + 1
          BY <1>4
        <5>2. d.age \in Nat
          BY <1>3, HorizonType DEF Entries
        <5> QED BY <4>1, <4>4, <5>1, <5>2
      <4>5. ASSUME NEW d \in log, d.msg = m, d.age < age - 1 PROVE \E e \in log' : e.msg = m /\ e.age < age
        <5>1. d \in Entries /\ d.age \in Nat
          BY <1>3, HorizonType DEF Entries
        <5>2. d.age + 1 < age /\ d.age + 1 < Gate!Horizon
          BY <4>1, <4>5, <5>1, HorizonType
        <5>3. [d EXCEPT !.age = @ + 1] \in log'
          BY <1>4, <5>2
        <5>4. [d EXCEPT !.age = @ + 1].msg = m /\ [d EXCEPT !.age = @ + 1].age = d.age + 1
          BY <4>5, <5>1 DEF Entries
        <5> QED BY <5>2, <5>3, <5>4
      <4> QED BY <4>2, <4>3, <4>4, <4>5
    <3> QED BY <3>1, <3>2
  <2> QED BY <2>1, <2>2, <2>3, <2>4 DEF CacheInv
<1>10. Gate!WindowBound'
  <2>1. Window \in 1..Gate!Horizon /\ Window - 1 \in Nat
    BY HorizonType, LimitAssumption
  <2>2. Gate!Started(Window)' = {e \in log' : e.age < Window}
    BY DEF Gate!Started
  <2>3. Cardinality({e \in log' : e.age < Window}) = Cardinality(Gate!Started(Window - 1))
    BY <1>4, <2>1 DEF Gate!Started
  <2>4. ASSUME NEW s \in Senders PROVE Cardinality(Gate!StartedBy(s, Window)') = Cardinality(Gate!StartedBy(s, Window - 1))
    <3>1. Gate!StartedBy(s, Window)' = {e \in By(s)' : e.age < Window}
      BY DEF Gate!StartedBy, Gate!Started, By
    <3>2. Cardinality({e \in Later(By(s)) : e.age < Window}) = Cardinality({e \in By(s) : e.age < Window - 1})
      BY <1>3, <2>1, LaterEntries
    <3>3. Gate!StartedBy(s, Window - 1) = {e \in By(s) : e.age < Window - 1}
      BY Counts
    <3> QED BY <1>5, <3>1, <3>2, <3>3
  <2>5. /\ Gate!Started(Window - 1) \subseteq Gate!Started(Window)
        /\ \A s : Gate!StartedBy(s, Window - 1) \subseteq Gate!StartedBy(s, Window)
    <3>1. \A e \in log : e.age \in Nat
      BY <1>3, HorizonType DEF Entries
    <3> QED BY <2>1, <3>1, LimitAssumption DEF Gate!Started, Gate!StartedBy
  <2>6. Cardinality(Gate!Started(Window - 1)) <= Cardinality(Gate!Started(Window))
    BY <2>5, Counts, FS_Subset
  <2>7. \A s : Cardinality(Gate!StartedBy(s, Window - 1)) <= Cardinality(Gate!StartedBy(s, Window))
    BY <2>5, Counts, FS_Subset
  <2>8. /\ Cardinality(Gate!Started(Window)) <= Global
        /\ \A s \in Senders : Cardinality(Gate!StartedBy(s, Window)) <= PerSender
    BY SameCardinality DEF IInv, LimitsHold, Gate!WindowBound
  <2>9. Cardinality(Gate!Started(Window)') <= Global
    BY <2>2, <2>3, <2>6, <2>8, Counts, LimitAssumption
  <2>10. \A s \in Senders : Cardinality(Gate!StartedBy(s, Window)') <= PerSender
    BY <2>4, <2>7, <2>8, Counts, LimitAssumption
  <2> QED BY <2>9, <2>10, SameCardinality DEF Gate!WindowBound
<1>11. Gate!AnsweredOnce'
  <2>1. ASSUME NEW d \in log', NEW e \in log', d.age < Ttl, e.age < Ttl, d.msg = e.msg PROVE d = e
    <3>1. PICK c \in log : d.msg = c.msg /\ d.age = c.age + 1
      BY <1>4
    <3>2. PICK b \in log : e.msg = b.msg /\ e.age = b.age + 1
      BY <1>4
    <3>3. c.age \in Nat /\ b.age \in Nat
      BY <1>3, HorizonType DEF Entries
    <3>4. c.age < Ttl /\ b.age < Ttl
      BY <2>1, <3>1, <3>2, <3>3, LimitAssumption
    <3>5. c = b
      BY <2>1, <3>1, <3>2, <3>4 DEF IInv, Gate!AnsweredOnce, Gate!Started
    <3> QED BY <1>4, <2>1, <3>1, <3>2, <3>5 DEF Entries
  <2> QED BY <2>1 DEF Gate!AnsweredOnce, Gate!Started
<1> QED BY <1>1, <1>4, <1>6, <1>7, <1>8, <1>9, <1>10, <1>11
        DEF IInv, TypeOK, LimitsHold, Entries, Deque, Tally, Younger, By, DequeOf, Gate!Horizon, Gate!Verdicts

LEMMA IdleKeeps == ASSUME IInv, FinishTask \/ UNCHANGED vars PROVE IInv'
<1>1. UNCHANGED <<seen, global, senders, log, verdict>> /\ inflight' \in 0..MaxPending
  BY LimitAssumption DEF FinishTask, vars, limiterVars, IInv, TypeOK
<1> QED
  BY <1>1 DEF IInv, TypeOK, LimitsHold, CacheInv, Deque, Tally, Younger, By, DequeOf, Gate!Horizon, Gate!Verdicts,
              Gate!WindowBound, Gate!AnsweredOnce, Gate!Started, Gate!StartedBy

LEMMA StepInv == ASSUME IInv, [Next]_vars PROVE IInv'
<1>1. CASE Tick
  BY <1>1, TickKeeps
<1>2. CASE FinishTask \/ UNCHANGED vars
  BY <1>2, IdleKeeps
<1>3. ASSUME NEW m \in Messages, Dispatch(m) PROVE IInv'
  BY <1>3, DropKeeps, AdmitKeeps DEF Dispatch
<1> QED BY <1>1, <1>2, <1>3 DEF Next

-----------------------------------------------------------------------------
(* What the bridge's operator may rely on.                                  *)

(* The cache knows of every message how long ago it was admitted, and the   *)
(* deques hold as many times of every age as requests were admitted then.   *)
THEOREM AdmissionInvariant == Spec => []IInv
<1>1. Init => IInv
  BY InitInv
<1>2. IInv /\ [Next]_vars => IInv'
  BY StepInv
<1> QED BY <1>1, <1>2, PTL DEF Spec

(* Every variable has the type its comment announces: no more than          *)
(* MaxPending tasks are in flight.                                          *)
THEOREM TypesHold == Spec => []TypeOK
<1>1. IInv => TypeOK
  BY DEF IInv
<1> QED BY <1>1, AdmissionInvariant, PTL

(* No stretch of the window holds more starts than the limits allow, and    *)
(* the limiter's memory is bounded however many senders write.              *)
THEOREM LimitsAreHeld == Spec => []LimitsHold
<1>1. IInv => LimitsHold
  BY DEF IInv
<1> QED BY <1>1, AdmissionInvariant, PTL

(* No message is admitted twice within Ttl.                                 *)
THEOREM RepeatsAreDropped == Spec => []Gate!AnsweredOnce
<1>1. IInv => Gate!AnsweredOnce
  BY DEF IInv
<1> QED BY <1>1, AdmissionInvariant, PTL

(* Every decision of the bridge is the one RequestGate makes.               *)
LEMMA DispatchArrives == ASSUME IInv, NEW m \in Messages, Dispatch(m) PROVE Gate!Arrive(m)
<1>1. (m \in Fresh <=> Gate!Repeated(m)) /\ (Room(m.sender) <=> ~Gate!RateFull(m.sender))
  BY SameAnswer
<1>2. inflight \in Nat /\ MaxPending \in Nat
  BY LimitAssumption DEF IInv, TypeOK
<1>3. CASE DropDuplicate(m)
  BY <1>1, <1>3 DEF DropDuplicate, Gate!Arrive
<1>4. CASE DropFull(m)
  BY <1>1, <1>4 DEF DropFull, Gate!Arrive
<1>5. CASE DropLimited(m)
  BY <1>1, <1>2, <1>5 DEF DropLimited, Gate!Arrive
<1>6. CASE Admit(m)
  BY <1>1, <1>2, <1>6 DEF Admit, Gate!Arrive
<1> QED BY <1>3, <1>4, <1>5, <1>6 DEF Dispatch

(* The cache and the limiter implement RequestGate: what they forget could  *)
(* have changed no decision, and what they keep changes none wrongly.       *)
THEOREM GateIsImplemented == Spec => GateSpec
<1>1. Init => Gate!Init
  BY DEF Init, Gate!Init
<1>2. IInv /\ [Next]_vars => [Gate!Next]_(Gate!gateVars)
  <2> SUFFICES ASSUME IInv, [Next]_vars PROVE [Gate!Next]_(Gate!gateVars)
    OBVIOUS
  <2>1. CASE Tick
    BY <2>1 DEF Tick, Gate!Next
  <2>2. CASE FinishTask
    <3>1. Gate!Finish
      BY <2>2 DEF FinishTask, Gate!Finish
    <3> QED BY <3>1 DEF Gate!Next
  <2>3. ASSUME NEW m \in Messages, Dispatch(m) PROVE Gate!Next
    <3>1. Gate!Arrive(m) /\ m \in Gate!Messages
      BY <2>3, DispatchArrives DEF Messages, Gate!Messages
    <3> QED BY <3>1 DEF Gate!Next
  <2>4. CASE UNCHANGED vars
    BY <2>4 DEF vars, Gate!gateVars
  <2> QED BY <2>1, <2>2, <2>3, <2>4 DEF Next
<1> QED BY <1>1, <1>2, AdmissionInvariant, PTL DEF Spec, GateSpec, Gate!Spec

=============================================================================
