----------------------------- MODULE BridgeProofs -----------------------------
(***************************************************************************)
(* Theorems about Bridge, for any number of tasks, slots and chunks, any   *)
(* delay and any settings of busy_wait_seconds.                            *)
(***************************************************************************)
EXTENDS Bridge, FiniteSetTheorems, SequenceTheorems, WellFoundedInduction, TLAPS

Holders == {t \in Tasks : HoldsSlot(t)}
Distinct(queue) == \A i, j \in DOMAIN queue : queue[i] = queue[j] => i = j

(* The semaphore: its queue holds the tasks that wait, every one of them    *)
(* once, and its value is what the holders leave of it.                     *)
SlotsInv ==
  /\ phase \in [Tasks -> Phases] /\ free \in 0..MaxConcurrent /\ waiters \in Seq(Tasks)
  /\ Distinct(waiters) /\ Range(waiters) = {t \in Tasks : phase[t] = "slot"}
  /\ SlotsConserved

(* _send_lock: the tasks that send or wait for their turn; it is with the   *)
(* first of them.                                                           *)
LineInv ==
  /\ line \in Seq(Tasks)
  /\ Distinct(line) /\ Range(line) = {t \in Tasks : Sending(t)}
  /\ \A t \in Tasks : phase[t] \in {"pace", "send"} => line[1] = t

(* What a task is to do or to say fits the await it is suspended at.        *)
WorkInv ==
  /\ work \in [Tasks -> Requests \cup Replies]
  /\ left \in [Tasks -> 0..(MaxChunks - 1)]
  /\ \A t \in Tasks :
       /\ phase[t] = "new" => work[t] \in Requests
       /\ phase[t] \in {"slot", "granted"} => work[t] \in {"ask", "reset"}
       /\ Sending(t) => work[t] \in Replies

(* Both clocks run together: a gap that is over is a Delay of quiet.        *)
TimeInv ==
  /\ patience \in [Tasks -> {0} \cup UNION {0..wait : wait \in BusyWaits}]
  /\ gap \in 0..Delay /\ quiet \in 0..Delay /\ gap + quiet = Delay
  /\ main \in {"run", "drain", "reap", "closed"} /\ busyWait \in BusyWaits

IInv == SlotsInv /\ LineInv /\ WorkInv /\ TimeInv

(* Two tasks never talk to the Companion at the same time: what LineInv     *)
(* says of _send_lock.                                                      *)
OneTalks == \A t, u \in Tasks : phase[t] = "send" /\ phase[u] = "send" => t = u

-----------------------------------------------------------------------------
(* Queues of distinct tasks.                                                *)

LEMMA Least ==
  ASSUME NEW S \in SUBSET Nat, S # {}
  PROVE  \E least \in S : \A n \in S : least <= n
<1> DEFINE R == {p \in Nat \X Nat : p[1] < p[2]}
<1>1. IsWellFoundedOn(R, Nat)
  BY NatLessThanWellFounded DEF OpToRel
<1>2. \A m, n \in Nat : m < n => <<m, n>> \in R
  OBVIOUS
<1> HIDE DEF R
<1>3. PICK least \in S : \A n \in S : ~(<<n, least>> \in R)
  BY <1>1, WFMin
<1>4. ASSUME NEW n \in S PROVE least <= n
  <2> SUFFICES ASSUME ~(least <= n) PROVE FALSE
    OBVIOUS
  <2>1. n \in Nat /\ least \in Nat
    OBVIOUS
  <2>2. <<n, least>> \in R
    BY <1>2, <2>1
  <2> QED BY <1>3, <2>2
<1> QED BY <1>4

LEMMA AppendQueue ==
  ASSUME NEW queue \in Seq(Tasks), Distinct(queue), NEW t \in Tasks, t \notin Range(queue)
  PROVE  /\ Append(queue, t) \in Seq(Tasks) /\ Append(queue, t) # << >>
         /\ Distinct(Append(queue, t))
         /\ Range(Append(queue, t)) = Range(queue) \cup {t}
         /\ queue # << >> => Append(queue, t)[1] = queue[1]
<1> DEFINE longer == Append(queue, t)
<1>1. /\ longer \in Seq(Tasks) /\ longer # << >> /\ Len(longer) = Len(queue) + 1
      /\ \A i \in 1..Len(queue) : longer[i] = queue[i]
      /\ longer[Len(queue) + 1] = t
  BY AppendProperties
<1>2. DOMAIN queue = 1..Len(queue) /\ DOMAIN longer = 1..Len(longer) /\ Len(queue) \in Nat
  BY <1>1, LenProperties
<1> HIDE DEF longer
<1>3. Distinct(longer)
  BY <1>1, <1>2 DEF Distinct, Range
<1>4. Range(longer) = Range(queue) \cup {t}
  BY <1>1, <1>2 DEF Range
<1>5. queue # << >> => longer[1] = queue[1]
  BY <1>1, <1>2, EmptySeq
<1> QED BY <1>1, <1>3, <1>4, <1>5 DEF longer

LEMMA TailQueue ==
  ASSUME NEW queue \in Seq(Tasks), Distinct(queue), queue # << >>
  PROVE  /\ Head(queue) = queue[1] /\ queue[1] \in Range(queue)
         /\ Tail(queue) \in Seq(Tasks)
         /\ Distinct(Tail(queue))
         /\ Range(Tail(queue)) = Range(queue) \ {queue[1]}
<1>1. /\ Tail(queue) \in Seq(Tasks) /\ Len(Tail(queue)) = Len(queue) - 1
      /\ \A i \in 1..Len(Tail(queue)) : Tail(queue)[i] = queue[i + 1]
  BY HeadTailProperties
<1>2. /\ DOMAIN queue = 1..Len(queue) /\ DOMAIN Tail(queue) = 1..Len(Tail(queue))
      /\ Len(queue) \in Nat \ {0}
  BY <1>1, LenProperties, EmptySeq
<1>3. Head(queue) = queue[1] /\ queue[1] \in Range(queue)
  BY <1>2 DEF Range
<1>4. Distinct(Tail(queue))
  BY <1>1, <1>2 DEF Distinct
<1>5. Range(Tail(queue)) = Range(queue) \ {queue[1]}
  <2>1. ASSUME NEW t \in Range(Tail(queue)) PROVE t \in Range(queue) /\ t # queue[1]
    BY <1>1, <1>2 DEF Range, Distinct
  <2>2. ASSUME NEW t \in Range(queue), t # queue[1] PROVE t \in Range(Tail(queue))
    <3>1. PICK i \in 1..Len(queue) : queue[i] = t
      BY <1>2 DEF Range
    <3>2. i - 1 \in 1..Len(Tail(queue)) /\ Tail(queue)[i - 1] = t
      BY <1>1, <1>2, <2>2, <3>1
    <3> QED BY <1>2, <3>2 DEF Range
  <2> QED BY <2>1, <2>2
<1> QED BY <1>1, <1>3, <1>4, <1>5

LEMMA WithoutQueue ==
  ASSUME NEW queue \in Seq(Tasks), Distinct(queue), NEW t \in Range(queue)
  PROVE  /\ Without(queue, t) \in Seq(Tasks)
         /\ Distinct(Without(queue, t))
         /\ Range(Without(queue, t)) = Range(queue) \ {t}
         /\ t # queue[1] => Without(queue, t)[1] = queue[1]
<1>1. DOMAIN queue = 1..Len(queue) /\ Len(queue) \in Nat /\ \A i \in 1..Len(queue) : queue[i] \in Tasks
  BY LenProperties
<1> DEFINE places == {i \in 1..Len(queue) : queue[i] = t}
<1>2. places # {} /\ places \in SUBSET Nat
  BY <1>1 DEF Range
<1>3. Min(places) \in places
  BY <1>2, Least DEF Min
<1> DEFINE k == Min(places)
<1>4. k \in 1..Len(queue) /\ queue[k] = t
  BY <1>3
<1>5. Without(queue, t) = SubSeq(queue, 1, k - 1) \o SubSeq(queue, k + 1, Len(queue))
  BY <1>2 DEF Without, RemoveFirst, RemoveAt, SelectInSeq
<1> DEFINE front == SubSeq(queue, 1, k - 1)
           back == SubSeq(queue, k + 1, Len(queue))
           shorter == front \o back
<1> HIDE DEF k, places
<1>6. /\ front \in Seq(Tasks) /\ Len(front) = k - 1
      /\ \A i \in 1..(k - 1) : front[i] = queue[i]
  <2>1. \A i \in 1..(k - 1) : queue[i] \in Tasks
    BY <1>1, <1>4
  <2> QED BY <1>1, <1>4, <2>1, SubSeqProperties
<1>7. /\ back \in Seq(Tasks) /\ Len(back) = Len(queue) - k
      /\ \A i \in 1..(Len(queue) - k) : back[i] = queue[i + k]
  <2>1. \A i \in (k + 1)..Len(queue) : queue[i] \in Tasks
    BY <1>1, <1>4
  <2>2. /\ back \in Seq(Tasks)
        /\ Len(back) = IF k + 1 <= Len(queue) THEN Len(queue) - (k + 1) + 1 ELSE 0
        /\ \A i \in 1..(Len(queue) - (k + 1) + 1) : back[i] = queue[(k + 1) + i - 1]
    <3>1. k + 1 \in Int /\ Len(queue) \in Int
      BY <1>1, <1>4
    <3> QED BY <2>1, <3>1, SubSeqProperties
  <2>3. Len(back) = Len(queue) - k
    <3>1. k \in Nat /\ Len(queue) \in Nat /\ k <= Len(queue)
      BY <1>1, <1>4
    <3>2. Len(back) = IF k + 1 <= Len(queue) THEN Len(queue) - (k + 1) + 1 ELSE 0
      BY <2>2
    <3> HIDE DEF back
    <3> QED BY <3>1, <3>2
  <2>4. ASSUME NEW i \in 1..(Len(queue) - k) PROVE back[i] = queue[i + k]
    <3>1. i \in 1..(Len(queue) - (k + 1) + 1) /\ (k + 1) + i - 1 = i + k
      BY <1>1, <1>4
    <3> QED BY <2>2, <3>1
  <2> QED BY <2>2, <2>3, <2>4
<1> HIDE DEF front, back
<1>8. /\ shorter \in Seq(Tasks) /\ Len(shorter) = Len(queue) - 1
      /\ \A i \in 1..(Len(queue) - 1) : shorter[i] = IF i < k THEN queue[i] ELSE queue[i + 1]
  <2>1. /\ shorter \in Seq(Tasks) /\ Len(shorter) = Len(front) + Len(back)
        /\ \A i \in 1..(Len(front) + Len(back)) :
             shorter[i] = IF i <= Len(front) THEN front[i] ELSE back[i - Len(front)]
    BY <1>6, <1>7, ConcatProperties
  <2> HIDE DEF shorter
  <2>2. Len(shorter) = Len(queue) - 1
    BY <1>1, <1>4, <1>6, <1>7, <2>1
  <2>3. ASSUME NEW i \in 1..(Len(queue) - 1), i < k PROVE shorter[i] = queue[i]
    <3>1. i \in 1..(k - 1) /\ i <= Len(front) /\ i \in 1..(Len(front) + Len(back))
      BY <1>1, <1>4, <1>6, <1>7, <2>3
    <3> QED BY <1>6, <2>1, <3>1
  <2>4. ASSUME NEW i \in 1..(Len(queue) - 1), ~(i < k) PROVE shorter[i] = queue[i + 1]
    <3>1. i - (k - 1) \in 1..(Len(queue) - k) /\ (i - (k - 1)) + k = i + 1
      BY <1>1, <1>4, <2>4
    <3>2. shorter[i] = back[i - (k - 1)]
      BY <1>1, <1>4, <1>6, <1>7, <2>1, <2>4
    <3> QED BY <1>7, <3>1, <3>2
  <2> QED BY <2>1, <2>2, <2>3, <2>4
<1> HIDE DEF shorter
<1>9. DOMAIN shorter = 1..(Len(queue) - 1)
  BY <1>8, LenProperties
<1>10. Distinct(shorter)
  BY <1>1, <1>4, <1>8, <1>9 DEF Distinct
<1>11. Range(shorter) = Range(queue) \ {t}
  <2>1. ASSUME NEW u \in Range(shorter) PROVE u \in Range(queue) /\ u # t
    <3>1. PICK i \in 1..(Len(queue) - 1) : shorter[i] = u
      BY <1>9 DEF Range
    <3>2. PICK j \in 1..Len(queue) : j # k /\ queue[j] = u
      BY <1>1, <1>4, <1>8, <3>1
    <3> QED BY <1>1, <1>4, <3>2 DEF Range, Distinct
  <2>2. ASSUME NEW u \in Range(queue), u # t PROVE u \in Range(shorter)
    <3>1. PICK j \in 1..Len(queue) : queue[j] = u
      BY <1>1 DEF Range
    <3>2. j # k
      BY <1>4, <2>2, <3>1
    <3>3. CASE j < k
      <4>1. j \in 1..(Len(queue) - 1)
        BY <1>1, <1>4, <3>3
      <4>2. shorter[j] = u
        BY <1>8, <3>1, <3>3, <4>1
      <4> QED BY <1>9, <4>1, <4>2 DEF Range
    <3>4. CASE j > k
      <4>1. j - 1 \in 1..(Len(queue) - 1) /\ ~(j - 1 < k) /\ (j - 1) + 1 = j
        BY <1>1, <1>4, <3>4
      <4>2. shorter[j - 1] = u
        BY <1>8, <3>1, <4>1
      <4> QED BY <1>9, <4>1, <4>2 DEF Range
    <3>5. j \in Nat /\ k \in Nat
      BY <1>1, <1>4
    <3> QED BY <3>2, <3>3, <3>4, <3>5
  <2> QED BY <2>1, <2>2
<1>12. t # queue[1] => shorter[1] = queue[1]
  <2>1. t # queue[1] => k # 1
    BY <1>4
  <2>2. k # 1 => shorter[1] = queue[1]
    BY <1>1, <1>4, <1>8
  <2> QED BY <2>1, <2>2
<1> QED BY <1>5, <1>8, <1>10, <1>11, <1>12 DEF shorter, front, back

-----------------------------------------------------------------------------
(* The slots: how many tasks hold one when one takes, gives back or passes  *)
(* on.                                                                      *)

LEMMA FiniteHolders == IsFiniteSet(Holders) /\ Cardinality(Holders) \in Nat
  /\ IsFiniteSet(Holders') /\ Cardinality(Holders') \in Nat
<1>1. Holders \in SUBSET Tasks /\ Holders' \in SUBSET Tasks
  BY DEF Holders
<1> QED BY <1>1, SettingsAssumption, FS_Subset, FS_CardinalityType

LEMMA Conserved ==
  /\ SlotsConserved <=> /\ free + Cardinality(Holders) = MaxConcurrent
                        /\ waiters # << >> => free = 0
  /\ SlotsConserved' <=> /\ free' + Cardinality(Holders') = MaxConcurrent
                         /\ waiters' # << >> => free' = 0
BY DEF SlotsConserved, Holders

LEMMA HoldersChange ==
  ASSUME NEW t, NEW u
  PROVE  /\ t \notin Holders /\ Holders' = Holders \cup {t}
              => Cardinality(Holders') = Cardinality(Holders) + 1
         /\ t \in Holders /\ Holders' = Holders \ {t}
              => Cardinality(Holders') = Cardinality(Holders) - 1
         /\ t \in Holders /\ u \notin Holders /\ Holders' = (Holders \ {t}) \cup {u}
              => Cardinality(Holders') = Cardinality(Holders)
<1>1. /\ IsFiniteSet(Holders \ {t})
      /\ Cardinality(Holders \ {t}) = IF t \in Holders THEN Cardinality(Holders) - 1 ELSE Cardinality(Holders)
  BY FiniteHolders, FS_RemoveElement
<1>2. Cardinality(Holders \cup {t}) = IF t \in Holders THEN Cardinality(Holders) ELSE Cardinality(Holders) + 1
  BY FiniteHolders, FS_AddElement
<1>3. u \notin Holders => Cardinality((Holders \ {t}) \cup {u}) = Cardinality(Holders \ {t}) + 1
  BY <1>1, FS_AddElement
<1> QED BY <1>1, <1>2, <1>3, FiniteHolders

(* The step of one task: another one's await ends only by a slot passed on. *)
Others(t) ==
  \A u \in Tasks \ {t} :
    /\ work'[u] = work[u] /\ left'[u] = left[u]
    /\ phase'[u] = phase[u] \/ (phase[u] = "slot" /\ phase'[u] = "granted")

LEMMA Kept ==
  ASSUME IInv, NEW t \in Tasks, NEW where \in Phases \ {"slot"}, KeepSlot(t, where),
         phase[t] # "slot", HoldsSlot(t)' <=> HoldsSlot(t),
         \A u \in Tasks \ {t} : work'[u] = work[u] /\ left'[u] = left[u]
  PROVE  SlotsInv' /\ Others(t) /\ phase'[t] = where
<1>1. phase' = [phase EXCEPT ![t] = where] /\ free' = free /\ waiters' = waiters
  BY DEF KeepSlot, Move
<1>2. phase \in [Tasks -> Phases]
  BY DEF IInv, SlotsInv
<1>3. \A u \in Tasks \ {t} : HoldsSlot(u)' <=> HoldsSlot(u)
  BY <1>1, <1>2 DEF HoldsSlot, Sending
<1>4. Holders' = Holders
  BY <1>3 DEF Holders
<1>5. {u \in Tasks : phase'[u] = "slot"} = {u \in Tasks : phase[u] = "slot"}
  BY <1>1, <1>2
<1> QED BY <1>1, <1>2, <1>4, <1>5, Conserved DEF IInv, SlotsInv, Others

LEMMA ReleaseMoves ==
  ASSUME IInv, NEW t \in Holders, NEW where, ReleaseSlot(t, where)
  PROVE  phase'[t] = where
<1>1. /\ waiters \in Seq(Tasks) /\ Distinct(waiters) /\ phase \in [Tasks -> Phases]
      /\ Range(waiters) = {u \in Tasks : phase[u] = "slot"}
  BY DEF IInv, SlotsInv
<1>2. t \in Tasks /\ phase[t] # "slot"
  BY DEF Holders, HoldsSlot, Sending
<1>3. CASE waiters = << >>
  BY <1>1, <1>2, <1>3 DEF ReleaseSlot, Move
<1>4. CASE waiters # << >>
  <2>1. Head(waiters) \in Tasks /\ Head(waiters) # t
    BY <1>1, <1>2, <1>4, TailQueue
  <2> QED BY <1>1, <1>2, <1>4, <2>1 DEF ReleaseSlot
<1> QED BY <1>3, <1>4

LEMMA Released ==
  ASSUME IInv, NEW t \in Holders, NEW where \in {"line", "done"}, ReleaseSlot(t, where),
         ~HoldsSlot(t)',
         \A u \in Tasks \ {t} : work'[u] = work[u] /\ left'[u] = left[u]
  PROVE  SlotsInv' /\ Others(t) /\ phase'[t] = where
<1>1. t \in Tasks /\ HoldsSlot(t) /\ phase[t] # "slot" /\ where \in Phases
  BY DEF Holders, HoldsSlot, Sending, Phases
<1>2. phase \in [Tasks -> Phases] /\ free \in 0..MaxConcurrent /\ SlotsConserved
  BY DEF IInv, SlotsInv
<1>3. CASE waiters = << >>
  <2>1. phase' = [phase EXCEPT ![t] = where] /\ free' = free + 1 /\ waiters' = waiters
    BY <1>3 DEF ReleaseSlot, Move
  <2>2. \A u \in Tasks \ {t} : HoldsSlot(u)' <=> HoldsSlot(u)
    BY <2>1, <1>2 DEF HoldsSlot, Sending
  <2>3. Holders' = Holders \ {t}
    BY <2>2 DEF Holders
  <2>4. Cardinality(Holders') = Cardinality(Holders) - 1
    BY <2>3, HoldersChange
  <2>5. SlotsConserved' /\ free' \in 0..MaxConcurrent
    <3>1. free' + Cardinality(Holders') = MaxConcurrent
      BY <1>2, <2>1, <2>4, Conserved, FiniteHolders
    <3>2. free' \in 0..MaxConcurrent
      BY <1>2, <2>1, <3>1, FiniteHolders, SettingsAssumption
    <3> QED BY <1>3, <2>1, <3>1, <3>2, Conserved
  <2>6. {u \in Tasks : phase'[u] = "slot"} = {u \in Tasks : phase[u] = "slot"}
    BY <1>1, <1>2, <2>1
  <2> QED BY <1>1, <1>2, <2>1, <2>5, <2>6 DEF IInv, SlotsInv, Others
<1>4. CASE waiters # << >>
  <2>0. PICK next : next = waiters[1]
    OBVIOUS
  <2>1. /\ waiters \in Seq(Tasks) /\ Distinct(waiters)
        /\ Range(waiters) = {u \in Tasks : phase[u] = "slot"}
    BY DEF IInv, SlotsInv
  <2>2. /\ Head(waiters) = next /\ next \in Range(waiters)
        /\ Tail(waiters) \in Seq(Tasks) /\ Distinct(Tail(waiters))
        /\ Range(Tail(waiters)) = Range(waiters) \ {next}
    BY <1>4, <2>0, <2>1, TailQueue
  <2>3. next \in Tasks /\ phase[next] = "slot" /\ next # t
    BY <1>1, <2>1, <2>2
  <2>4. /\ phase' = [phase EXCEPT ![t] = where, ![next] = "granted"]
        /\ waiters' = Tail(waiters) /\ free' = free
    BY <1>4, <2>2 DEF ReleaseSlot
  <2>5. /\ phase' \in [Tasks -> Phases] /\ phase'[t] = where /\ phase'[next] = "granted"
        /\ \A u \in Tasks \ {t, next} : phase'[u] = phase[u]
    BY <1>1, <1>2, <2>3, <2>4 DEF Phases
  <2>6. Holders' = (Holders \ {t}) \cup {next} /\ next \notin Holders
    <3>1. HoldsSlot(next)' /\ ~HoldsSlot(next)
      BY <2>3, <2>5 DEF HoldsSlot, Sending
    <3>2. \A u \in Tasks \ {t, next} : HoldsSlot(u)' <=> HoldsSlot(u)
      BY <2>5 DEF HoldsSlot, Sending
    <3> QED BY <2>3, <3>1, <3>2 DEF Holders
  <2>7. SlotsConserved'
    BY <1>2, <1>4, <2>4, <2>6, HoldersChange, Conserved
  <2>8. Range(waiters') = {u \in Tasks : phase'[u] = "slot"}
    BY <1>1, <2>1, <2>2, <2>4, <2>5
  <2> QED BY <1>2, <2>2, <2>3, <2>4, <2>5, <2>7, <2>8 DEF SlotsInv, Others
<1> QED BY <1>3, <1>4

-----------------------------------------------------------------------------
(* _send_lock: a task joins the line, moves at its head, leaves it.         *)

LEMMA LineApart ==
  ASSUME IInv, NEW t \in Tasks, Others(t), UNCHANGED line, ~Sending(t), ~Sending(t)'
  PROVE  LineInv'
<1>1. \A u \in Tasks : Sending(u)' <=> Sending(u)
  BY DEF Others, Sending
<1>2. \A u \in Tasks : phase'[u] \in {"pace", "send"} => phase[u] \in {"pace", "send"}
  BY DEF Others, Sending
<1> QED BY <1>1, <1>2 DEF IInv, LineInv

LEMMA LineJoined ==
  ASSUME IInv, NEW t \in Tasks, Others(t), line' = Append(line, t),
         ~Sending(t), phase'[t] = "line"
  PROVE  LineInv'
<1>1. /\ line \in Seq(Tasks) /\ Distinct(line) /\ Range(line) = {u \in Tasks : Sending(u)}
      /\ t \notin Range(line)
  BY DEF IInv, LineInv
<1>2. /\ line' \in Seq(Tasks) /\ Distinct(line') /\ Range(line') = Range(line) \cup {t}
      /\ line # << >> => line'[1] = line[1]
  BY <1>1, AppendQueue
<1>3. \A u \in Tasks \ {t} : Sending(u)' <=> Sending(u)
  BY DEF Others, Sending
<1>4. Sending(t)'
  BY DEF Sending
<1>5. Range(line') = {u \in Tasks : Sending(u)'}
  BY <1>1, <1>2, <1>3, <1>4
<1>6. ASSUME NEW u \in Tasks, phase'[u] \in {"pace", "send"} PROVE line'[1] = u
  <2>1. u # t /\ phase[u] \in {"pace", "send"}
    BY <1>6 DEF Others
  <2>2. line[1] = u /\ u \in Range(line)
    BY <1>1, <2>1 DEF IInv, LineInv, Sending
  <2>3. line # << >>
    BY <2>2 DEF Range
  <2> QED BY <1>2, <2>2, <2>3
<1> QED BY <1>2, <1>5, <1>6 DEF LineInv

LEMMA LineMoved ==
  ASSUME IInv, NEW t \in Tasks, Others(t), UNCHANGED line, Sending(t), Sending(t)', line[1] = t
  PROVE  LineInv'
<1>1. \A u \in Tasks : Sending(u)' <=> Sending(u)
  BY DEF Others, Sending
<1>2. \A u \in Tasks \ {t} : phase'[u] \in {"pace", "send"} => phase[u] \in {"pace", "send"}
  BY DEF Others
<1> QED BY <1>1, <1>2 DEF IInv, LineInv

LEMMA Talks ==
  ASSUME IInv, NEW t \in Tasks, phase[t] \in {"pace", "send"}
  PROVE  line # << >> /\ line[1] = t /\ \A u \in Tasks \ {t} : phase[u] \notin {"pace", "send"}
<1>1. line[1] = t /\ t \in Range(line)
  BY DEF IInv, LineInv, Sending
<1>2. line # << >>
  BY <1>1 DEF Range
<1> QED BY <1>1, <1>2 DEF IInv, LineInv

LEMMA LineLeft ==
  ASSUME IInv, NEW t \in Tasks, Others(t), phase[t] = "send",
         \/ line' = Tail(line) /\ ~Sending(t)'
         \/ line' = Append(Tail(line), t) /\ phase'[t] = "line"
  PROVE  LineInv'
<1> DEFINE rest == Tail(line)
<1>1. /\ line # << >> /\ line[1] = t
      /\ \A u \in Tasks \ {t} : phase[u] \notin {"pace", "send"}
  BY Talks
<1>2. line \in Seq(Tasks) /\ Distinct(line) /\ Range(line) = {u \in Tasks : Sending(u)}
  BY DEF IInv, LineInv
<1>3. rest \in Seq(Tasks) /\ Distinct(rest) /\ Range(rest) = Range(line) \ {t}
  BY <1>1, <1>2, TailQueue
<1>4. \A u \in Tasks \ {t} : (Sending(u)' <=> Sending(u)) /\ phase'[u] \notin {"pace", "send"}
  BY <1>1 DEF Others, Sending
<1>5. CASE line' = rest /\ ~Sending(t)'
  <2>1. Range(line') = {u \in Tasks : Sending(u)'}
    BY <1>2, <1>3, <1>4, <1>5
  <2>2. phase'[t] \notin {"pace", "send"}
    BY <1>5 DEF Sending
  <2> QED BY <1>3, <1>4, <1>5, <2>1, <2>2 DEF LineInv
<1>6. CASE line' = Append(rest, t) /\ phase'[t] = "line"
  <2>1. line' \in Seq(Tasks) /\ Distinct(line') /\ Range(line') = Range(rest) \cup {t}
    BY <1>3, <1>6, AppendQueue
  <2>2. Sending(t)'
    BY <1>6 DEF Sending
  <2>3. Range(line') = {u \in Tasks : Sending(u)'}
    BY <1>2, <1>3, <1>4, <2>1, <2>2
  <2> QED BY <1>4, <1>6, <2>1, <2>3 DEF LineInv
<1> QED BY <1>5, <1>6

LEMMA LineCancelled ==
  ASSUME IInv, NEW t \in Tasks, Others(t), line' = Without(line, t), ~Sending(t)'
  PROVE  LineInv'
<1>1. line \in Seq(Tasks) /\ Distinct(line) /\ Range(line) = {u \in Tasks : Sending(u)}
  BY DEF IInv, LineInv
<1>2. CASE t \notin Range(line)
  <2>1. line' = line
    <3>1. DOMAIN line = 1..Len(line)
      BY <1>1, LenProperties
    <3> QED BY <1>2, <3>1 DEF Without, RemoveFirst, Range
  <2> QED BY <1>1, <1>2, <2>1, LineApart
<1>3. CASE t \in Range(line)
  <2>1. /\ line' \in Seq(Tasks) /\ Distinct(line') /\ Range(line') = Range(line) \ {t}
        /\ t # line[1] => line'[1] = line[1]
    BY <1>1, <1>3, WithoutQueue
  <2>2. \A u \in Tasks \ {t} : Sending(u)' <=> Sending(u)
    BY DEF Others, Sending
  <2>3. Range(line') = {u \in Tasks : Sending(u)'}
    BY <1>1, <2>1, <2>2
  <2>4. ASSUME NEW u \in Tasks, phase'[u] \in {"pace", "send"} PROVE line'[1] = u
    <3>1. u # t /\ phase[u] \in {"pace", "send"}
      BY <2>4 DEF Others, Sending
    <3>2. line[1] = u
      BY <3>1 DEF IInv, LineInv
    <3> QED BY <2>1, <3>1, <3>2
  <2> QED BY <2>1, <2>3, <2>4 DEF LineInv
<1> QED BY <1>2, <1>3

(* What is left to show of the step of one task.                            *)
LEMMA WorkMoved ==
  ASSUME IInv, NEW t \in Tasks, Others(t),
         work' \in [Tasks -> Requests \cup Replies], left' \in [Tasks -> 0..(MaxChunks - 1)],
         /\ phase'[t] = "new" => work'[t] \in Requests
         /\ phase'[t] \in {"slot", "granted"} => work'[t] \in {"ask", "reset"}
         /\ Sending(t)' => work'[t] \in Replies
  PROVE  WorkInv'
<1>1. ASSUME NEW u \in Tasks \ {t}
      PROVE  /\ phase'[u] = "new" => work'[u] \in Requests
             /\ phase'[u] \in {"slot", "granted"} => work'[u] \in {"ask", "reset"}
             /\ Sending(u)' => work'[u] \in Replies
  BY DEF Others, IInv, WorkInv, Sending
<1> QED BY <1>1 DEF WorkInv

LEMMA Known ==
  ASSUME IInv, NEW t \in Tasks
  PROVE  /\ phase \in [Tasks -> Phases] /\ work \in [Tasks -> Requests \cup Replies]
         /\ left \in [Tasks -> 0..(MaxChunks - 1)] /\ phase[t] \in Phases
BY DEF IInv, SlotsInv, WorkInv

-----------------------------------------------------------------------------
(* The actions of one task, those that leave the slots alone first.         *)

LEMMA DeliverKeeps == ASSUME IInv, NEW t \in Tasks, Deliver(t) PROVE IInv'
<1>1. PICK request \in Requests : work' = [work EXCEPT ![t] = request]
  BY DEF Deliver
<1>2. phase' = [phase EXCEPT ![t] = "new"] /\ phase[t] = "free" /\ left' = left
  BY DEF Deliver, Move
<1>3. SlotsInv' /\ Others(t) /\ phase'[t] = "new"
  <2>1. KeepSlot(t, "new")
    BY DEF Deliver, KeepSlot
  <2>2. ~HoldsSlot(t) /\ ~HoldsSlot(t)'
    BY <1>2, Known DEF HoldsSlot, Sending
  <2>3. \A u \in Tasks \ {t} : work'[u] = work[u] /\ left'[u] = left[u]
    BY <1>1, <1>2, Known
  <2> QED BY <1>2, <2>1, <2>2, <2>3, Kept DEF Phases
<1>4. LineInv'
  BY <1>2, <1>3, LineApart DEF Deliver, Sending
<1>5. WorkInv'
  BY <1>1, <1>2, <1>3, WorkMoved, Known DEF Sending
<1>6. TimeInv'
  BY DEF Deliver, IInv, TimeInv
<1> QED BY <1>3, <1>4, <1>5, <1>6 DEF IInv

LEMMA FinishTaskKeeps == ASSUME IInv, NEW t \in Tasks, FinishTask(t) PROVE IInv'
<1>1. phase' = [phase EXCEPT ![t] = "free"] /\ phase[t] = "done" /\ UNCHANGED <<work, left, line>>
  BY DEF FinishTask, Move
<1>2. SlotsInv' /\ Others(t) /\ phase'[t] = "free"
  <2>1. KeepSlot(t, "free")
    BY DEF FinishTask, KeepSlot
  <2>2. ~HoldsSlot(t) /\ ~HoldsSlot(t)'
    BY <1>1, Known DEF HoldsSlot, Sending
  <2> QED BY <1>1, <2>1, <2>2, Kept DEF Phases
<1>3. LineInv'
  BY <1>1, <1>2, LineApart DEF Sending
<1>4. WorkInv'
  BY <1>1, <1>2, WorkMoved, Known DEF Sending
<1>5. TimeInv'
  BY DEF FinishTask, IInv, TimeInv
<1> QED BY <1>2, <1>3, <1>4, <1>5 DEF IInv

(* A notice: the task joins the line with its slot, if it has one.          *)
LEMMA SayKeeps ==
  ASSUME IInv, NEW t \in Tasks, NEW reply \in Replies, Say(t, reply), KeepSlot(t, "line"),
         phase[t] \in {"new", "ask", "reset"}, UNCHANGED left, TimeInv',
         reply \in {"cleared", "unavailable"} <=> phase[t] \in {"ask", "reset"}
  PROVE  IInv'
<1>1. /\ work' = [work EXCEPT ![t] = reply] /\ line' = Append(line, t)
      /\ phase' = [phase EXCEPT ![t] = "line"]
  BY DEF Say, KeepSlot, Move
<1>2. work'[t] = reply /\ phase'[t] = "line"
  BY <1>1, Known
<1>3. SlotsInv' /\ Others(t)
  <2>1. HoldsSlot(t)' <=> HoldsSlot(t)
    BY <1>2 DEF HoldsSlot, Sending
  <2>2. \A u \in Tasks \ {t} : work'[u] = work[u] /\ left'[u] = left[u]
    BY <1>1, Known
  <2> QED BY <2>1, <2>2, Kept DEF Phases
<1>4. LineInv'
  BY <1>1, <1>2, <1>3, LineJoined DEF Sending
<1>5. WorkInv'
  BY <1>1, <1>2, <1>3, WorkMoved, Known
<1> QED BY <1>3, <1>4, <1>5 DEF IInv

LEMMA NoticesKeep ==
  ASSUME IInv, NEW t \in Tasks, TooLong(t) \/ BusyNow(t) \/ NomadFails(t) \/ Cleared(t)
  PROVE  IInv'
<1>1. TimeInv' /\ UNCHANGED left
  BY DEF TooLong, BusyNow, NomadFails, Cleared, IInv, TimeInv
<1>2. CASE TooLong(t)
  BY <1>1, <1>2, SayKeeps DEF TooLong, KeepSlot, Replies
<1>3. CASE BusyNow(t)
  BY <1>1, <1>3, SayKeeps DEF BusyNow, KeepSlot, Replies
<1>4. CASE NomadFails(t)
  BY <1>1, <1>4, SayKeeps DEF NomadFails, Replies
<1>5. CASE Cleared(t)
  BY <1>1, <1>5, SayKeeps DEF Cleared, Replies
<1> QED BY <1>2, <1>3, <1>4, <1>5

LEMMA SlotGrantedKeeps == ASSUME IInv, NEW t \in Tasks, SlotGranted(t) PROVE IInv'
<1>1. /\ phase' = [phase EXCEPT ![t] = work[t]] /\ phase[t] = "granted"
      /\ UNCHANGED <<work, left, line>> /\ work[t] \in {"ask", "reset"}
  BY DEF SlotGranted, Move, IInv, WorkInv
<1>2. phase'[t] = work[t]
  BY <1>1, Known
<1>3. SlotsInv' /\ Others(t)
  <2>1. KeepSlot(t, work[t])
    BY DEF SlotGranted, KeepSlot
  <2>2. HoldsSlot(t) /\ HoldsSlot(t)'
    BY <1>1, <1>2 DEF HoldsSlot, Sending
  <2> QED BY <1>1, <2>1, <2>2, Kept DEF Phases
<1>4. LineInv'
  BY <1>1, <1>2, <1>3, LineApart DEF Sending
<1>5. WorkInv'
  BY <1>1, <1>2, <1>3, WorkMoved, Known DEF Sending
<1>6. TimeInv'
  BY DEF SlotGranted, IInv, TimeInv
<1> QED BY <1>3, <1>4, <1>5, <1>6 DEF IInv

LEMMA TurnsKeep == ASSUME IInv, NEW t \in Tasks, TakeTurn(t) \/ PaceOver(t) PROVE IInv'
<1>1. PICK where \in {"pace", "send"} : phase' = [phase EXCEPT ![t] = where]
  BY DEF TakeTurn, PaceOver, Move
<1>2. Sending(t) /\ UNCHANGED <<work, left, line, free, waiters>>
  BY DEF TakeTurn, PaceOver, Sending
<1>3. phase'[t] = where /\ Sending(t)'
  BY <1>1, Known DEF Sending
<1>4. SlotsInv' /\ Others(t)
  <2>1. KeepSlot(t, where)
    BY <1>1, <1>2 DEF KeepSlot, Move
  <2>2. HoldsSlot(t)' <=> HoldsSlot(t)
    BY <1>2, <1>3 DEF HoldsSlot, Sending
  <2> QED BY <1>2, <2>1, <2>2, Kept DEF Phases, Sending
<1>5. line[1] = t
  <2>1. line \in Seq(Tasks) /\ Distinct(line) /\ t \in Range(line)
    BY <1>2 DEF IInv, LineInv
  <2>2. line # << >>
    BY <2>1 DEF Range
  <2> QED BY <2>1, <2>2, TailQueue, Talks DEF TakeTurn, PaceOver
<1>6. LineInv'
  BY <1>2, <1>3, <1>4, <1>5, LineMoved
<1>7. WorkInv'
  BY <1>2, <1>3, <1>4, WorkMoved, Known DEF IInv, WorkInv
<1>8. TimeInv'
  BY DEF TakeTurn, PaceOver, IInv, TimeInv
<1> QED BY <1>4, <1>6, <1>7, <1>8 DEF IInv

-----------------------------------------------------------------------------
(* The actions that take, wait for, or give back a slot.                    *)

LEMMA TakeSlotKeeps == ASSUME IInv, NEW t \in Tasks, TakeSlot(t) PROVE IInv'
<1>1. /\ phase[t] = "new" /\ work[t] \in {"ask", "reset"} /\ phase' = [phase EXCEPT ![t] = work[t]]
      /\ free # 0 /\ waiters = << >> /\ free' = free - 1 /\ UNCHANGED <<work, left, waiters, line>>
  BY DEF TakeSlot, Locked, Move, IInv, WorkInv, Requests
<1>2. phase'[t] = work[t] /\ \A u \in Tasks \ {t} : phase'[u] = phase[u]
  BY <1>1, Known
<1>3. Others(t)
  BY <1>1, <1>2 DEF Others
<1>4. SlotsInv'
  <2>1. ~HoldsSlot(t) /\ HoldsSlot(t)' /\ \A u \in Tasks \ {t} : HoldsSlot(u)' <=> HoldsSlot(u)
    BY <1>1, <1>2 DEF HoldsSlot, Sending
  <2>2. t \notin Holders /\ Holders' = Holders \cup {t}
    BY <2>1 DEF Holders
  <2>3. free \in 0..MaxConcurrent /\ SlotsConserved
    BY DEF IInv, SlotsInv
  <2>4. free' \in 0..MaxConcurrent /\ SlotsConserved'
    <3>1. Cardinality(Holders') = Cardinality(Holders) + 1
      BY <2>2, HoldersChange
    <3>2. free' + Cardinality(Holders') = MaxConcurrent
      BY <1>1, <2>3, <3>1, FiniteHolders, Conserved
    <3>3. free' \in 0..MaxConcurrent
      BY <1>1, <2>3, SettingsAssumption
    <3> QED BY <1>1, <3>2, <3>3, Conserved
  <2>5. {u \in Tasks : phase'[u] = "slot"} = {u \in Tasks : phase[u] = "slot"}
    BY <1>1, <1>2
  <2>6. phase' \in [Tasks -> Phases]
    BY <1>1, Known DEF Phases
  <2> QED BY <1>1, <2>4, <2>5, <2>6 DEF IInv, SlotsInv
<1>5. LineInv'
  BY <1>1, <1>2, <1>3, LineApart DEF Sending
<1>6. WorkInv'
  BY <1>1, <1>2, <1>3, WorkMoved, Known DEF Sending
<1>7. TimeInv'
  BY DEF TakeSlot, IInv, TimeInv
<1> QED BY <1>4, <1>5, <1>6, <1>7 DEF IInv

LEMMA WaitForSlotKeeps == ASSUME IInv, NEW t \in Tasks, WaitForSlot(t) PROVE IInv'
<1>1. /\ phase[t] = "new" /\ work[t] \in {"ask", "reset"} /\ phase' = [phase EXCEPT ![t] = "slot"]
      /\ free = 0 \/ waiters # << >>
      /\ waiters' = Append(waiters, t) /\ UNCHANGED <<work, left, free, line>>
  BY DEF WaitForSlot, Locked, Move, IInv, WorkInv, Requests
<1>2. phase'[t] = "slot" /\ \A u \in Tasks \ {t} : phase'[u] = phase[u]
  BY <1>1, Known
<1>3. Others(t)
  BY <1>1, <1>2 DEF Others
<1>4. SlotsInv'
  <2>1. /\ waiters \in Seq(Tasks) /\ Distinct(waiters)
        /\ Range(waiters) = {u \in Tasks : phase[u] = "slot"} /\ SlotsConserved
    BY DEF IInv, SlotsInv
  <2>2. waiters' \in Seq(Tasks) /\ Distinct(waiters') /\ Range(waiters') = Range(waiters) \cup {t}
    BY <1>1, <2>1, AppendQueue
  <2>3. \A u \in Tasks : HoldsSlot(u)' <=> HoldsSlot(u)
    BY <1>1, <1>2 DEF HoldsSlot, Sending
  <2>4. Holders' = Holders
    BY <2>3 DEF Holders
  <2>5. SlotsConserved'
    BY <1>1, <2>1, <2>4, Conserved
  <2>6. Range(waiters') = {u \in Tasks : phase'[u] = "slot"}
    BY <1>2, <2>1, <2>2
  <2>7. phase' \in [Tasks -> Phases]
    BY <1>1, Known DEF Phases
  <2> QED BY <1>1, <2>2, <2>5, <2>6, <2>7 DEF IInv, SlotsInv
<1>5. LineInv'
  BY <1>1, <1>2, <1>3, LineApart DEF Sending
<1>6. WorkInv'
  BY <1>1, <1>2, <1>3, WorkMoved, Known DEF Sending
<1>7. TimeInv'
  <2>1. busyWait \in BusyWaits /\ busyWait \in 0..busyWait
    BY SettingsAssumption DEF IInv, TimeInv
  <2>2. patience' \in [Tasks -> {0} \cup UNION {0..wait : wait \in BusyWaits}]
    BY <2>1 DEF WaitForSlot, IInv, TimeInv
  <2> QED BY <2>2 DEF WaitForSlot, IInv, TimeInv
<1> QED BY <1>4, <1>5, <1>6, <1>7 DEF IInv

(* A task leaves the queue of the semaphore before its turn.                *)
LEMMA WaiterLeaves ==
  ASSUME IInv, NEW t \in Tasks, NEW where \in {"line", "done"}, phase[t] = "slot",
         waiters' = Without(waiters, t), Move(t, where), UNCHANGED free, ~HoldsSlot(t)',
         \A u \in Tasks \ {t} : work'[u] = work[u] /\ left'[u] = left[u]
  PROVE  SlotsInv' /\ Others(t) /\ phase'[t] = where
<1>1. phase' = [phase EXCEPT ![t] = where]
  BY DEF Move
<1>2. phase'[t] = where /\ \A u \in Tasks \ {t} : phase'[u] = phase[u]
  BY <1>1, Known
<1>3. /\ waiters \in Seq(Tasks) /\ Distinct(waiters) /\ t \in Range(waiters)
      /\ Range(waiters) = {u \in Tasks : phase[u] = "slot"} /\ SlotsConserved
  BY DEF IInv, SlotsInv
<1>4. waiters' \in Seq(Tasks) /\ Distinct(waiters') /\ Range(waiters') = Range(waiters) \ {t}
  BY <1>3, WithoutQueue
<1>5. ~HoldsSlot(t) /\ \A u \in Tasks \ {t} : HoldsSlot(u)' <=> HoldsSlot(u)
  BY <1>2 DEF HoldsSlot, Sending
<1>6. Holders' = Holders
  BY <1>5 DEF Holders
<1>7. waiters # << >>
  BY <1>3 DEF Range
<1>8. SlotsConserved'
  BY <1>3, <1>6, <1>7, Conserved
<1>9. Range(waiters') = {u \in Tasks : phase'[u] = "slot"}
  BY <1>2, <1>3, <1>4
<1>10. phase' \in [Tasks -> Phases]
  BY <1>1, Known DEF Phases
<1> QED BY <1>2, <1>4, <1>8, <1>9, <1>10 DEF IInv, SlotsInv, Others

LEMMA SlotTimeoutKeeps == ASSUME IInv, NEW t \in Tasks, SlotTimeout(t) PROVE IInv'
<1>1. work' = [work EXCEPT ![t] = "busy"] /\ line' = Append(line, t) /\ UNCHANGED left
  BY DEF SlotTimeout, Say
<1>2. work'[t] = "busy" /\ \A u \in Tasks \ {t} : work'[u] = work[u] /\ left'[u] = left[u]
  BY <1>1, Known
<1>3. ~HoldsSlot(t)' <=> phase'[t] \notin {"granted", "ask", "reset"}
  BY <1>2 DEF HoldsSlot
<1>4. phase[t] \in {"slot", "granted"} /\ phase'[t] = "line" /\ SlotsInv' /\ Others(t)
  <2>1. CASE phase[t] = "slot"
    <3>1. waiters' = Without(waiters, t) /\ Move(t, "line") /\ UNCHANGED free
      BY <2>1 DEF SlotTimeout
    <3>2. phase'[t] = "line"
      BY <3>1, Known DEF Move
    <3> QED BY <1>2, <1>3, <2>1, <3>1, <3>2, WaiterLeaves
  <2>2. CASE phase[t] = "granted"
    <3>1. ReleaseSlot(t, "line") /\ t \in Holders
      BY <2>2 DEF SlotTimeout, Holders, HoldsSlot
    <3>2. phase'[t] = "line"
      BY <2>2, <3>1, ReleaseMoves
    <3> QED BY <1>2, <1>3, <2>2, <3>1, <3>2, Released
  <2> QED BY <2>1, <2>2 DEF SlotTimeout
<1>5. LineInv'
  BY <1>1, <1>4, LineJoined DEF Sending
<1>6. WorkInv'
  BY <1>1, <1>2, <1>4, WorkMoved, Known DEF Replies
<1>7. TimeInv'
  BY DEF SlotTimeout, IInv, TimeInv
<1> QED BY <1>4, <1>5, <1>6, <1>7 DEF IInv

LEMMA NomadAnswersKeeps == ASSUME IInv, NEW t \in Tasks, NomadAnswers(t) PROVE IInv'
<1>1. PICK chunks \in 1..MaxChunks : left' = [left EXCEPT ![t] = chunks - 1]
  BY DEF NomadAnswers
<1>2. /\ work' = [work EXCEPT ![t] = "chunk"] /\ line' = Append(line, t)
      /\ phase[t] = "ask" /\ ReleaseSlot(t, "line") /\ t \in Holders
  BY DEF NomadAnswers, Say, Holders, HoldsSlot
<1>3. work'[t] = "chunk" /\ \A u \in Tasks \ {t} : work'[u] = work[u] /\ left'[u] = left[u]
  BY <1>1, <1>2, Known
<1>4. phase'[t] = "line"
  BY <1>2, ReleaseMoves
<1>5. SlotsInv' /\ Others(t)
  BY <1>2, <1>3, <1>4, Released DEF HoldsSlot
<1>6. LineInv'
  BY <1>2, <1>4, <1>5, LineJoined DEF Sending
<1>7. WorkInv'
  <2>1. left' \in [Tasks -> 0..(MaxChunks - 1)]
    BY <1>1, Known, SettingsAssumption
  <2>2. work' \in [Tasks -> Requests \cup Replies]
    BY <1>2, Known DEF Replies
  <2> QED BY <1>3, <1>4, <1>5, <2>1, <2>2, WorkMoved DEF Replies
<1>8. TimeInv'
  BY DEF NomadAnswers, IInv, TimeInv
<1> QED BY <1>5, <1>6, <1>7, <1>8 DEF IInv

-----------------------------------------------------------------------------
(* The end of a task, after a send, an error, or when it is cancelled.      *)

LEMMA EndKeeps ==
  ASSUME IInv, NEW t \in Tasks, phase[t] # "slot", End(t)
  PROVE  SlotsInv' /\ Others(t) /\ phase'[t] = "done" /\ WorkInv'
<1>1. work' = [work EXCEPT ![t] = "ask"] /\ left' = [left EXCEPT ![t] = 0]
  BY DEF End, Drop
<1>2. \A u \in Tasks \ {t} : work'[u] = work[u] /\ left'[u] = left[u]
  BY <1>1, Known
<1>3. phase'[t] = "done" /\ ~HoldsSlot(t)'
  <2>1. CASE HoldsSlot(t)
    <3>1. ReleaseSlot(t, "done") /\ t \in Holders
      BY <2>1 DEF End, Holders
    <3>2. phase'[t] = "done"
      BY <3>1, ReleaseMoves
    <3> QED BY <3>2 DEF HoldsSlot, Sending
  <2>2. CASE ~HoldsSlot(t)
    <3>1. phase'[t] = "done"
      BY <2>2, Known DEF End, KeepSlot, Move
    <3> QED BY <3>1 DEF HoldsSlot, Sending
  <2> QED BY <2>1, <2>2
<1>4. SlotsInv' /\ Others(t)
  <2>1. CASE HoldsSlot(t)
    <3>1. ReleaseSlot(t, "done") /\ t \in Holders
      BY <2>1 DEF End, Holders
    <3> QED BY <1>2, <1>3, <3>1, Released
  <2>2. CASE ~HoldsSlot(t)
    <3>1. KeepSlot(t, "done")
      BY <2>2 DEF End
    <3> QED BY <1>2, <1>3, <2>2, <3>1, Kept DEF Phases
  <2> QED BY <2>1, <2>2
<1>5. left' \in [Tasks -> 0..(MaxChunks - 1)] /\ work' \in [Tasks -> Requests \cup Replies]
  BY <1>1, Known, SettingsAssumption DEF Requests
<1>6. WorkInv'
  BY <1>3, <1>4, <1>5, WorkMoved DEF Sending
<1> QED BY <1>3, <1>4, <1>6

LEMMA NomadRaisesKeeps == ASSUME IInv, NEW t \in Tasks, NomadRaises(t) PROVE IInv'
<1>1. phase[t] = "ask" /\ End(t) /\ UNCHANGED line
  BY DEF NomadRaises
<1>2. SlotsInv' /\ Others(t) /\ phase'[t] = "done" /\ WorkInv'
  BY <1>1, EndKeeps
<1>3. LineInv'
  BY <1>1, <1>2, LineApart DEF Sending
<1>4. TimeInv'
  BY DEF NomadRaises, IInv, TimeInv
<1> QED BY <1>2, <1>3, <1>4 DEF IInv

LEMMA SendEndsKeeps == ASSUME IInv, NEW t \in Tasks, SendEnds(t) PROVE IInv'
<1>1. phase[t] = "send" /\ gap' = Delay /\ quiet' = 0 /\ UNCHANGED <<patience, main, busyWait>>
  BY DEF SendEnds, Paced
<1>2. TimeInv'
  <2>1. gap' \in 0..Delay /\ quiet' \in 0..Delay /\ gap' + quiet' = Delay
    BY <1>1, SettingsAssumption
  <2> QED BY <1>1, <2>1 DEF IInv, TimeInv
<1>3. CASE End(t) /\ line' = Tail(line)
  <2>1. SlotsInv' /\ Others(t) /\ phase'[t] = "done" /\ WorkInv'
    BY <1>1, <1>3, EndKeeps
  <2>2. LineInv'
    BY <1>1, <1>3, <2>1, LineLeft DEF Sending
  <2> QED BY <1>2, <2>1, <2>2 DEF IInv
<1>4. CASE /\ work[t] = "chunk" /\ left[t] > 0 /\ left' = [left EXCEPT ![t] = @ - 1]
           /\ KeepSlot(t, "line") /\ line' = Append(Tail(line), t) /\ UNCHANGED work
  <2>1. phase'[t] = "line"
    BY <1>4, Known DEF KeepSlot, Move
  <2>2. \A u \in Tasks \ {t} : work'[u] = work[u] /\ left'[u] = left[u]
    BY <1>4, Known
  <2>3. SlotsInv' /\ Others(t)
    <3>1. ~HoldsSlot(t) /\ ~HoldsSlot(t)'
      BY <1>1, <1>4, <2>1 DEF HoldsSlot
    <3> QED BY <1>1, <1>4, <2>2, <3>1, Kept DEF Phases
  <2>4. LineInv'
    BY <1>1, <1>4, <2>1, <2>3, LineLeft
  <2>5. left' \in [Tasks -> 0..(MaxChunks - 1)]
    BY <1>4, Known, SettingsAssumption
  <2>6. WorkInv'
    BY <1>4, <2>1, <2>3, <2>5, WorkMoved, Known DEF Replies
  <2> QED BY <1>2, <2>3, <2>4, <2>6 DEF IInv
<1> QED BY <1>3, <1>4 DEF SendEnds

LEMMA CancelledKeeps == ASSUME IInv, NEW t \in Tasks, Cancelled(t) PROVE IInv'
<1>1. /\ line' = Without(line, t) /\ patience' = [patience EXCEPT ![t] = 0]
      /\ (gap' = Delay /\ quiet' = 0) \/ UNCHANGED <<gap, quiet>>
      /\ UNCHANGED <<main, busyWait>>
  BY DEF Cancelled
<1>2. TimeInv'
  <2>1. patience' \in [Tasks -> {0} \cup UNION {0..wait : wait \in BusyWaits}]
    BY <1>1 DEF IInv, TimeInv
  <2>2. gap' \in 0..Delay /\ quiet' \in 0..Delay /\ gap' + quiet' = Delay
    BY <1>1, SettingsAssumption DEF IInv, TimeInv
  <2> QED BY <1>1, <2>1, <2>2 DEF IInv, TimeInv
<1>3. SlotsInv' /\ Others(t) /\ phase'[t] = "done" /\ WorkInv'
  <2>1. CASE phase[t] = "slot"
    <3>1. /\ Move(t, "done") /\ waiters' = Without(waiters, t) /\ UNCHANGED free
          /\ work' = [work EXCEPT ![t] = "ask"] /\ left' = [left EXCEPT ![t] = 0]
      BY <2>1 DEF Cancelled, Drop
    <3>2. phase'[t] = "done" /\ ~HoldsSlot(t)'
      BY <3>1, Known DEF Move, HoldsSlot, Sending
    <3>3. \A u \in Tasks \ {t} : work'[u] = work[u] /\ left'[u] = left[u]
      BY <3>1, Known
    <3>4. SlotsInv' /\ Others(t)
      BY <2>1, <3>1, <3>2, <3>3, WaiterLeaves
    <3>5. left' \in [Tasks -> 0..(MaxChunks - 1)] /\ work' \in [Tasks -> Requests \cup Replies]
      BY <3>1, Known, SettingsAssumption DEF Requests
    <3>6. WorkInv'
      BY <3>2, <3>4, <3>5, WorkMoved DEF Sending
    <3> QED BY <3>2, <3>4, <3>6
  <2>2. CASE phase[t] # "slot"
    BY <2>2, EndKeeps DEF Cancelled
  <2> QED BY <2>1, <2>2
<1>4. LineInv'
  BY <1>1, <1>3, LineCancelled DEF Sending
<1> QED BY <1>2, <1>3, <1>4 DEF IInv

-----------------------------------------------------------------------------
(* The steps of run, _shutdown and the clock.                               *)

LEMMA TasksApart ==
  ASSUME IInv, UNCHANGED <<phase, work, left, free, waiters, line>>, TimeInv'
  PROVE  IInv'
<1>1. \A t \in Tasks : HoldsSlot(t)' <=> HoldsSlot(t)
  BY DEF HoldsSlot, Sending
<1>2. Holders' = Holders
  BY <1>1 DEF Holders
<1>3. SlotsInv'
  BY <1>2, Conserved DEF IInv, SlotsInv
<1>4. LineInv' /\ WorkInv'
  BY DEF IInv, LineInv, WorkInv, Sending
<1> QED BY <1>3, <1>4 DEF IInv

LEMMA TickKeeps == ASSUME IInv, Tick PROVE IInv'
<1>1. patience' \in [Tasks -> {0} \cup UNION {0..wait : wait \in BusyWaits}]
  <2>1. ASSUME NEW t \in Tasks PROVE Less(patience[t]) \in {0} \cup UNION {0..wait : wait \in BusyWaits}
    <3>1. patience[t] \in {0} \cup UNION {0..wait : wait \in BusyWaits}
      BY DEF IInv, TimeInv
    <3>2. CASE patience[t] = 0
      BY <3>2 DEF Less
    <3>3. CASE patience[t] # 0
      <4>1. PICK wait \in BusyWaits : patience[t] \in 0..wait
        BY <3>1, <3>3
      <4>2. Less(patience[t]) \in 0..wait
        BY <4>1, SettingsAssumption DEF Less
      <4> QED BY <4>2
    <3> QED BY <3>2, <3>3
  <2> QED BY <2>1 DEF Tick
<1>2. gap' \in 0..Delay /\ quiet' \in 0..Delay /\ gap' + quiet' = Delay
  BY SettingsAssumption DEF Tick, Less, IInv, TimeInv
<1>3. TimeInv'
  BY <1>1, <1>2 DEF Tick, IInv, TimeInv
<1> QED BY <1>3, TasksApart DEF Tick

LEMMA MainKeeps == ASSUME IInv, RunReturns \/ GraceOver \/ Close PROVE IInv'
<1>1. UNCHANGED <<phase, work, left, free, waiters, line>>
  BY DEF RunReturns, GraceOver, Close, taskVars
<1>2. TimeInv'
  BY DEF RunReturns, GraceOver, Close, taskVars, IInv, TimeInv
<1> QED BY <1>1, <1>2, TasksApart

-----------------------------------------------------------------------------
LEMMA InitInv == ASSUME Init PROVE IInv
<1>1. \A t \in Tasks : ~HoldsSlot(t) /\ ~Sending(t) /\ phase[t] = "free"
  BY DEF Init, HoldsSlot, Sending
<1>2. SlotsInv
  <2>1. Holders = {}
    BY <1>1 DEF Holders
  <2>2. SlotsConserved
    BY <2>1, FS_EmptySet, SettingsAssumption, Conserved DEF Init
  <2>3. waiters \in Seq(Tasks) /\ Distinct(waiters) /\ Range(waiters) = {}
    BY DEF Init, Distinct, Range
  <2>4. phase \in [Tasks -> Phases] /\ free \in 0..MaxConcurrent
    BY SettingsAssumption DEF Init, Phases
  <2> QED BY <1>1, <2>2, <2>3, <2>4 DEF SlotsInv
<1>3. LineInv
  BY <1>1 DEF Init, LineInv, Distinct, Range, Sending
<1>4. WorkInv
  BY <1>1, SettingsAssumption DEF Init, WorkInv, Requests
<1>5. TimeInv
  BY SettingsAssumption DEF Init, TimeInv
<1> QED BY <1>2, <1>3, <1>4, <1>5 DEF IInv

LEMMA StepInv == ASSUME IInv, [Next]_vars PROVE IInv'
<1>1. CASE Tick
  BY <1>1, TickKeeps
<1>2. CASE RunReturns \/ GraceOver \/ Close
  BY <1>2, MainKeeps
<1>3. CASE UNCHANGED vars
  <2>1. TimeInv'
    BY <1>3 DEF vars, taskVars, IInv, TimeInv
  <2> QED BY <1>3, <2>1, TasksApart DEF vars, taskVars
<1>4. ASSUME NEW t \in Tasks, Deliver(t) \/ TaskStep(t) PROVE IInv'
  <2>1. CASE Deliver(t) \/ FinishTask(t)
    BY <2>1, DeliverKeeps, FinishTaskKeeps
  <2>2. CASE TooLong(t) \/ BusyNow(t) \/ NomadFails(t) \/ Cleared(t)
    BY <2>2, NoticesKeep
  <2>3. CASE TakeSlot(t) \/ WaitForSlot(t) \/ SlotGranted(t) \/ SlotTimeout(t)
    BY <2>3, TakeSlotKeeps, WaitForSlotKeeps, SlotGrantedKeeps, SlotTimeoutKeeps
  <2>4. CASE NomadAnswers(t) \/ NomadRaises(t)
    BY <2>4, NomadAnswersKeeps, NomadRaisesKeeps
  <2>5. CASE TakeTurn(t) \/ PaceOver(t) \/ SendEnds(t) \/ Cancelled(t)
    BY <2>5, TurnsKeep, SendEndsKeeps, CancelledKeeps
  <2> QED BY <1>4, <2>1, <2>2, <2>3, <2>4, <2>5 DEF TaskStep
<1> QED BY <1>1, <1>2, <1>3, <1>4 DEF Next, Terminated

(* Whatever the tasks do and however they end, the semaphore, the lock and  *)
(* the clocks stay in order.                                                *)
THEOREM BridgeInvariant == Spec => []IInv
<1>1. Init => IInv
  BY InitInv
<1>2. IInv /\ [Next]_vars => IInv'
  BY StepInv
<1> QED BY <1>1, <1>2, PTL DEF Spec

(* Every variable has the type its comment announces.                       *)
THEOREM TypesHold == Spec => []TypeOK
<1>1. IInv => TypeOK
  BY DEF IInv, SlotsInv, LineInv, WorkInv, TimeInv, TypeOK
<1> QED BY <1>1, BridgeInvariant, PTL

(* asyncio.Semaphore as _handle_message uses it: no slot is lost or given   *)
(* back twice, by an answer, a notice, an error or a cancellation, and none *)
(* is free while a task waits.                                              *)
THEOREM SlotsAreConserved == Spec => []SlotsConserved
<1>1. IInv => SlotsConserved
  BY DEF IInv, SlotsInv
<1> QED BY <1>1, BridgeInvariant, PTL

(* _send_lock: one task at a time talks to the Companion.                   *)
THEOREM OneTalksAtATime == Spec => []OneTalks
<1>1. IInv => OneTalks
  BY Talks DEF OneTalks
<1> QED BY <1>1, BridgeInvariant, PTL

(* Only TakeTurn and PaceOver begin a send.                                 *)
LEMMA NoSendBegins ==
  ASSUME IInv, NEW t \in Tasks, NEW u \in Tasks, NEW where, where # "send", phase[t] # "send",
         Move(u, where) \/ KeepSlot(u, where) \/ ReleaseSlot(u, where)
  PROVE  phase'[t] # "send"
<1>1. phase \in [Tasks -> Phases]
  BY DEF IInv, SlotsInv
<1>2. \/ phase' = [phase EXCEPT ![u] = where]
      \/ phase' = [phase EXCEPT ![u] = where, ![Head(waiters)] = "granted"]
  BY DEF Move, KeepSlot, ReleaseSlot
<1> QED BY <1>1, <1>2

LEMMA EndsQuietly ==
  ASSUME IInv, NEW t \in Tasks, NEW u \in Tasks, End(u), phase[t] # "send"
  PROVE  phase'[t] # "send"
<1>1. KeepSlot(u, "done") \/ ReleaseSlot(u, "done")
  BY DEF End
<1> QED BY <1>1, NoSendBegins

LEMMA ElsewhereQuiet ==
  ASSUME IInv, NEW t \in Tasks, NEW u \in Tasks, Deliver(u) \/ TaskStep(u),
         ~(TakeTurn(u) \/ PaceOver(u)), phase[t] # "send"
  PROVE  phase'[t] # "send"
<1>1. CASE Deliver(u) \/ FinishTask(u)
  BY <1>1, NoSendBegins DEF Deliver, FinishTask
<1>2. CASE TooLong(u) \/ BusyNow(u) \/ NomadFails(u) \/ Cleared(u) \/ WaitForSlot(u)
  BY <1>2, NoSendBegins DEF TooLong, BusyNow, NomadFails, Cleared, WaitForSlot
<1>3. CASE TakeSlot(u) \/ SlotGranted(u)
  <2>1. work[u] \in {"ask", "reset"} /\ Move(u, work[u])
    BY <1>3 DEF TakeSlot, SlotGranted, IInv, WorkInv, Requests
  <2> QED BY <2>1, NoSendBegins
<1>4. CASE SlotTimeout(u) \/ NomadAnswers(u)
  BY <1>4, NoSendBegins DEF SlotTimeout, NomadAnswers
<1>5. CASE NomadRaises(u)
  BY <1>5, EndsQuietly DEF NomadRaises
<1>6. CASE SendEnds(u)
  <2>1. KeepSlot(u, "line") \/ End(u)
    BY <1>6 DEF SendEnds
  <2> QED BY <2>1, NoSendBegins, EndsQuietly
<1>7. CASE Cancelled(u)
  <2>1. Move(u, "done") \/ End(u)
    BY <1>7 DEF Cancelled
  <2> QED BY <2>1, NoSendBegins, EndsQuietly
<1> QED BY <1>1, <1>2, <1>3, <1>4, <1>5, <1>6, <1>7 DEF TaskStep

(* _send_text: a send begins only a whole Delay after the last one ended,   *)
(* whichever task made it and whatever came of it.                          *)
THEOREM SendsArePaced == Spec => PacedSends
<1>1. ASSUME IInv, [Next]_vars, NEW t \in Tasks, phase[t] # "send", phase'[t] = "send"
      PROVE  quiet = Delay
  <2>1. PICK u \in Tasks : Deliver(u) \/ TaskStep(u)
    BY <1>1 DEF Next, Tick, RunReturns, GraceOver, Close, Terminated, vars, taskVars
  <2>2. gap = 0 => quiet = Delay
    BY <1>1, SettingsAssumption DEF IInv, TimeInv
  <2>3. CASE TakeTurn(u) \/ PaceOver(u)
    <3>1. phase' = [phase EXCEPT ![u] = "pace"] \/ gap = 0
      <4>1. gap \in Nat
        BY <1>1, SettingsAssumption DEF IInv, TimeInv
      <4> QED BY <2>3, <4>1 DEF TakeTurn, PaceOver, Move
    <3> QED BY <1>1, <2>2, <3>1, Known
  <2>4. CASE ~(TakeTurn(u) \/ PaceOver(u))
    BY <1>1, <2>1, <2>4, ElsewhereQuiet
  <2> QED BY <2>3, <2>4
<1>2. IInv /\ [Next]_vars
        => [\A t \in Tasks : phase[t] # "send" /\ phase'[t] = "send" => quiet = Delay]_vars
  BY <1>1
<1> QED BY <1>2, BridgeInvariant, PTL DEF Spec, PacedSends
=============================================================================
