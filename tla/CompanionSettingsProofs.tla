----------------------- MODULE CompanionSettingsProofs -----------------------
(***************************************************************************)
(* Theorems about CompanionSettings, for any preferences, any patches, any *)
(* number of calls and any number of changes and late replies from outside.*)
(***************************************************************************)
EXTENDS CompanionSettings, FiniteSetTheorems, FunctionTheorems, SequenceTheorems, TLAPS

Frames == [command : Commands, value : Preferences, call : Nat]
Answers == [code : Codes, raw : Preferences, call : Nat]

(* A frame of the present call, or of the last one when none is running.    *)
Own(frame) == frame.call = calls /\ calls > 0
NoOwn(queue) == \A i \in DOMAIN queue : ~Own(queue[i])
OneOwn(queue) == \A i, j \in DOMAIN queue : Own(queue[i]) /\ Own(queue[j]) => i = j

Waiting == pc \in {"send", "reply"}
Unknown == pc = "idle" /\ result = "unknown"
SetReads == {"info", "autoadd", "device"}
SetWrites == {"auto", "manual", "mode"}

ValuesInv ==
  /\ prefs \in Preferences /\ seen \in Preferences /\ before \in Preferences /\ was \in Preferences
  /\ link \in {"up", "dead", "down"} /\ holder \in {"nobody", "text", "settings"}
  /\ wire \in Seq(Frames) /\ late \in Seq(Frames) /\ replies \in Seq(Answers)
  /\ \A i \in DOMAIN wire : wire[i].call \in 1..calls
  /\ \A i \in DOMAIN late : late[i].call \in 1..calls
  /\ \A i \in DOMAIN replies :
       replies[i].call \in 0..calls /\ (replies[i].call = 0 => replies[i].code \in {"err", "other"})
  /\ owes \in BOOLEAN /\ ignored \in BOOLEAN /\ foreign \in BOOLEAN /\ misread \in BOOLEAN /\ mixed \in BOOLEAN
  /\ pc \in {"idle", "lock", "send", "reply"} /\ patch \in Patch
  /\ written \subseteq SetWrites /\ applied \subseteq SetWrites
  /\ missed \in 0..1 /\ result \in Statuses
  /\ calls \in 0..MaxCalls /\ events \in 0..MaxEvents

(* Commands that have not been answered: at most one for every call that is *)
(* over, and the one that is waited for.                                    *)
Debts(queue) == Cardinality({i \in DOMAIN queue : queue[i].call # 0})
DebtInv == Len(wire) + Len(late) + Debts(replies) <= calls - (IF pc \in {"lock", "send"} THEN 1 ELSE 0)

(* The commands that may remain: reads to the end of a pass, after the      *)
(* writes that are left.                                                    *)
ReadPlans == {<<"info", "autoadd", "device">>, <<"autoadd", "device">>, <<"device">>}
WritePlans == {
  <<"auto", "info", "autoadd", "device">>, <<"manual", "info", "autoadd", "device">>,
  <<"mode", "info", "autoadd", "device">>, <<"auto", "manual", "info", "autoadd", "device">>,
  <<"auto", "mode", "info", "autoadd", "device">>, <<"manual", "mode", "info", "autoadd", "device">>,
  <<"auto", "manual", "mode", "info", "autoadd", "device">>}
Plans == ReadPlans \cup WritePlans
Second == Head(todo) \in SetWrites \/ written # {}

(* The call holds the lock while it has commands, and works them off.       *)
PlanInv ==
  /\ holder = "settings" <=> Waiting
  /\ IF Waiting THEN calls > 0 /\ todo \in Plans ELSE todo = << >>
  /\ Waiting /\ Second =>
       \A w \in SetWrites : Desired(patch, before)[w] # before[w] => w \in written \cup Range(todo)
  /\ pc # "reply" => missed = 0
  /\ pc # "idle" => result = "none"
  /\ pc = "lock" => written = {} /\ ~misread
  /\ result \in {"none", "disconnected", "busy", "expired", "rejected", "unsupported"} /\ pc = "idle"
       => written = {}
  /\ (link # "up" => wire = << >>) /\ (Waiting => link # "down")

(* Until the call takes another command's reply for its own, its present    *)
(* command is on its way, answered or lost, and the Companion has carried   *)
(* out none but this one and those acknowledged.                            *)
OwnInv == ~misread =>
  /\ \A i \in DOMAIN wire : Own(wire[i]) =>
       /\ pc = "reply" /\ i = Len(wire)
       /\ wire[i].command = Head(todo) /\ wire[i].value = Desired(patch, before)
       /\ NoOwn(late) /\ NoOwn(replies) /\ applied \subseteq written
  /\ \A i \in DOMAIN late : Own(late[i]) =>
       /\ Unknown \/ (pc = "reply" /\ late[i].command = Head(todo) /\ late[i].value = Desired(patch, before))
       /\ NoOwn(replies) /\ applied \subseteq written
  /\ OneOwn(late) /\ OneOwn(replies)
  /\ \A i \in DOMAIN replies : Own(replies[i]) =>
       /\ pc = "reply"
       /\ IF Head(todo) \in SetReads THEN replies[i].code \in {Head(todo), "short", "err"}
          ELSE /\ replies[i].code \in {"ok", "long", "err"}
               /\ replies[i].code = "err" => applied \subseteq written
               /\ replies[i].code # "err" /\ ~ignored => Head(todo) \in applied
  /\ IF pc = "reply" THEN applied \subseteq written \cup ({Head(todo)} \cap SetWrites)
     ELSE IF Unknown THEN \E last \in SetWrites : applied \subseteq written \cup {last}
     ELSE applied \subseteq written
  /\ ~ignored => written \subseteq applied

(* Unless somebody else changes them, the preferences are on the way from   *)
(* those the call found to those it wants.                                  *)
Halfway(done) ==
  [auto |-> IF "auto" \in done THEN Desired(patch, was).auto ELSE was.auto,
   manual |-> IF "manual" \in done THEN Desired(patch, was).manual ELSE was.manual,
   mode |-> IF "mode" \in done THEN Desired(patch, was).mode ELSE was.mode,
   rest |-> was.rest, hops |-> was.hops]
AutoFirst == Desired(patch, was).auto # was.auto /\ ~ignored => "auto" \in applied
PrefsInv == ~misread /\ ~foreign =>
  /\ prefs = Halfway(applied)
  /\ Waiting /\ Second => before = was
  /\ \A i \in DOMAIN late : Own(late[i]) /\ late[i].command \in SetWrites =>
       /\ late[i].value = Desired(patch, was)
       /\ late[i].command = "manual" => AutoFirst
  /\ "manual" \in applied => AutoFirst
  /\ \A i \in DOMAIN replies : Own(replies[i]) /\ Head(todo) \in SetReads => replies[i].raw = prefs
  /\ Waiting /\ Head(todo) \in {"autoadd", "device"} => seen.manual = prefs.manual /\ seen.rest = prefs.rest
  /\ Waiting /\ Head(todo) = "device" => seen.auto = prefs.auto /\ seen.hops = prefs.hops
  /\ result = "verified" => prefs = Desired(patch, was)

(* What is on a connection where late replies came one at a time and none   *)
(* was a refusal.                                                           *)
Stale(frame) == frame.call = 0
ConnInv == ~mixed =>
  /\ Waiting => ~misread
  /\ \A i \in DOMAIN wire : Own(wire[i]) /\ pc = "reply"
  /\ \A i \in DOMAIN replies :
       \/ Own(replies[i]) /\ pc = "reply"
       \/ Stale(replies[i]) /\ replies[i].code = "other" /\ missed = 0
  /\ \A i, j \in DOMAIN replies : Stale(replies[i]) /\ Stale(replies[j]) => i = j

IInv == ValuesInv /\ DebtInv /\ PlanInv /\ OwnInv /\ PrefsInv /\ ConnInv

-----------------------------------------------------------------------------
(* Queues of frames.                                                        *)

LEMMA QueueTail ==
  ASSUME NEW S, NEW queue \in Seq(S), queue # << >>
  PROVE  /\ Head(queue) = queue[1] /\ 1 \in DOMAIN queue /\ Head(queue) \in S
         /\ Tail(queue) \in Seq(S) /\ Len(Tail(queue)) = Len(queue) - 1 /\ Len(queue) \in Nat \ {0}
         /\ DOMAIN queue = 1..Len(queue) /\ DOMAIN Tail(queue) = 1..(Len(queue) - 1)
         /\ \A i \in DOMAIN Tail(queue) : i + 1 \in DOMAIN queue /\ Tail(queue)[i] = queue[i + 1]
<1>1. /\ Tail(queue) \in Seq(S) /\ Len(Tail(queue)) = Len(queue) - 1
      /\ \A i \in 1..Len(Tail(queue)) : Tail(queue)[i] = queue[i + 1]
      /\ Head(queue) \in S
  BY HeadTailProperties
<1>2. /\ DOMAIN queue = 1..Len(queue) /\ DOMAIN Tail(queue) = 1..Len(Tail(queue))
      /\ Len(queue) \in Nat \ {0}
  BY <1>1, LenProperties, EmptySeq
<1> QED BY <1>1, <1>2

LEMMA QueueAppend ==
  ASSUME NEW S, NEW queue \in Seq(S), NEW new \in S
  PROVE  /\ Append(queue, new) \in Seq(S) /\ Len(Append(queue, new)) = Len(queue) + 1
         /\ DOMAIN Append(queue, new) = 1..(Len(queue) + 1) /\ DOMAIN queue = 1..Len(queue)
         /\ Len(queue) \in Nat
         /\ \A i \in DOMAIN queue : Append(queue, new)[i] = queue[i]
         /\ Append(queue, new)[Len(queue) + 1] = new
BY AppendProperties, LenProperties

LEMMA QueueConcat ==
  ASSUME NEW S, NEW front \in Seq(S), NEW back \in Seq(S)
  PROVE  /\ front \o back \in Seq(S) /\ Len(front \o back) = Len(front) + Len(back)
         /\ Len(front) \in Nat /\ Len(back) \in Nat
         /\ \A i \in DOMAIN (front \o back) : i \in Nat
         /\ \A i \in DOMAIN (front \o back) :
              \/ i \in DOMAIN front /\ (front \o back)[i] = front[i]
              \/ i - Len(front) \in DOMAIN back /\ (front \o back)[i] = back[i - Len(front)]
<1>1. /\ front \o back \in Seq(S) /\ Len(front \o back) = Len(front) + Len(back)
      /\ \A i \in 1..(Len(front) + Len(back)) :
           (front \o back)[i] = IF i <= Len(front) THEN front[i] ELSE back[i - Len(front)]
  BY ConcatProperties
<1>2. /\ DOMAIN front = 1..Len(front) /\ DOMAIN back = 1..Len(back)
      /\ DOMAIN (front \o back) = 1..(Len(front) + Len(back))
      /\ Len(front) \in Nat /\ Len(back) \in Nat
  BY <1>1, LenProperties
<1> DEFINE whole == front \o back
<1> HIDE DEF whole
<1>3. ASSUME NEW i \in 1..(Len(front) + Len(back))
      PROVE  \/ i \in DOMAIN front /\ whole[i] = front[i]
             \/ i - Len(front) \in DOMAIN back /\ whole[i] = back[i - Len(front)]
  <2>1. CASE i <= Len(front)
    BY <1>1, <1>2, <2>1 DEF whole
  <2>2. CASE ~(i <= Len(front))
    <3>1. whole[i] = back[i - Len(front)]
      BY <1>1, <2>2 DEF whole
    <3>2. i - Len(front) \in 1..Len(back)
      BY <1>2, <2>2
    <3> QED BY <1>2, <3>1, <3>2
  <2> QED BY <2>1, <2>2
<1>4. \A i \in 1..(Len(front) + Len(back)) : i \in Nat
  BY <1>2
<1> QED BY <1>1, <1>2, <1>3, <1>4 DEF whole

(* How many answers to commands a queue of replies holds.                   *)
LEMMA DebtsFinite ==
  ASSUME NEW queue \in Seq(Answers)
  PROVE  /\ IsFiniteSet({i \in DOMAIN queue : queue[i].call # 0})
         /\ Debts(queue) \in Nat
<1>1. DOMAIN queue = 1..Len(queue) /\ Len(queue) \in Nat
  BY LenProperties
<1>2. IsFiniteSet(1..Len(queue))
  BY <1>1, FS_Interval
<1>3. IsFiniteSet({i \in DOMAIN queue : queue[i].call # 0})
  BY <1>1, <1>2, FS_Subset
<1> QED BY <1>3, FS_CardinalityType DEF Debts

LEMMA DebtsAppend ==
  ASSUME NEW queue \in Seq(Answers), NEW answer \in Answers
  PROVE  Debts(Append(queue, answer)) = IF answer.call # 0 THEN Debts(queue) + 1 ELSE Debts(queue)
<1> DEFINE longer == Append(queue, answer)
           old == {i \in DOMAIN queue : queue[i].call # 0}
           new == {i \in DOMAIN longer : longer[i].call # 0}
<1>1. /\ DOMAIN longer = 1..(Len(queue) + 1) /\ DOMAIN queue = 1..Len(queue) /\ Len(queue) \in Nat
      /\ \A i \in DOMAIN queue : longer[i] = queue[i]
      /\ longer[Len(queue) + 1] = answer
  BY QueueAppend
<1> HIDE DEF longer
<1>2. new = IF answer.call # 0 THEN old \cup {Len(queue) + 1} ELSE old
  BY <1>1
<1>3. Len(queue) + 1 \notin old
  BY <1>1
<1>4. IsFiniteSet(old)
  BY DebtsFinite
<1> HIDE DEF old, new
<1>5. Cardinality(new) = IF answer.call # 0 THEN Cardinality(old) + 1 ELSE Cardinality(old)
  BY <1>2, <1>3, <1>4, FS_AddElement
<1> QED BY <1>5 DEF Debts, old, new, longer

LEMMA DebtsTail ==
  ASSUME NEW queue \in Seq(Answers), queue # << >>
  PROVE  Debts(Tail(queue)) = IF Head(queue).call # 0 THEN Debts(queue) - 1 ELSE Debts(queue)
<1> DEFINE old == {i \in DOMAIN queue : queue[i].call # 0}
           new == {i \in DOMAIN Tail(queue) : Tail(queue)[i].call # 0}
           f == [i \in new |-> i + 1]
<1>1. /\ DOMAIN queue = 1..Len(queue) /\ DOMAIN Tail(queue) = 1..(Len(queue) - 1)
      /\ Len(queue) \in Nat \ {0} /\ Tail(queue) \in Seq(Answers)
      /\ \A i \in DOMAIN Tail(queue) : Tail(queue)[i] = queue[i + 1]
      /\ Head(queue) = queue[1]
  BY QueueTail
<1>2. f \in Bijection(new, old \ {1})
  <2>1. \A i \in new : i + 1 \in old \ {1}
    BY <1>1
  <2>2. ASSUME NEW j \in old \ {1} PROVE j - 1 \in new /\ f[j - 1] = j
    <3>1. j \in 1..Len(queue) /\ queue[j].call # 0 /\ j # 1
      BY <1>1
    <3>2. j - 1 \in 1..(Len(queue) - 1) /\ (j - 1) + 1 = j
      BY <1>1, <3>1
    <3>3. Tail(queue)[j - 1] = queue[j]
      BY <1>1, <3>2
    <3> QED BY <1>1, <3>1, <3>2, <3>3
  <2>3. \A i, j \in new : f[i] = f[j] => i = j
    BY <1>1
  <2> HIDE DEF new, old
  <2>4. f \in [new -> old \ {1}]
    BY <2>1
  <2> HIDE DEF f
  <2> QED BY <2>2, <2>3, <2>4, Fun_IsBij
<1>3. IsFiniteSet(old) /\ IsFiniteSet(new)
  BY <1>1, DebtsFinite
<1> HIDE DEF old, new, f
<1>4. Cardinality(new) = Cardinality(old \ {1})
  BY <1>2, <1>3, FS_Bijection DEF ExistsBijection
<1>5. Cardinality(old \ {1}) = IF 1 \in old THEN Cardinality(old) - 1 ELSE Cardinality(old)
  BY <1>3, FS_RemoveElement
<1>6. 1 \in old <=> Head(queue).call # 0
  BY <1>1 DEF old
<1> QED BY <1>4, <1>5, <1>6 DEF Debts, old, new

LEMMA DebtsEmpty == Debts(<< >>) = 0
<1>1. {i \in DOMAIN << >> : << >>[i].call # 0} = {}
  OBVIOUS
<1> QED BY <1>1, FS_EmptySet DEF Debts

-----------------------------------------------------------------------------
(* The plans and the preferences.                                           *)

LEMMA CommandSets == Range(Reads) = SetReads /\ Range(Writes) = SetWrites /\ Commands = SetReads \cup SetWrites
<1>1. Range(Reads) = SetReads
  BY DEF Range, Reads, SetReads
<1>2. Range(Writes) = SetWrites
  BY DEF Range, Writes, SetWrites
<1> QED BY <1>1, <1>2 DEF Commands

(* Tuples put together.                                                     *)
LEMMA Joined ==
  ASSUME NEW S, NEW front \in Seq(S), NEW back \in Seq(S), NEW whole \in Seq(S),
         Len(whole) = Len(front) + Len(back),
         \A i \in 1..Len(front) : whole[i] = front[i],
         \A i \in 1..Len(back) : whole[Len(front) + i] = back[i]
  PROVE  front \o back = whole
<1> DEFINE joined == front \o back
<1>1. /\ joined \in Seq(S) /\ Len(joined) = Len(front) + Len(back)
      /\ \A i \in 1..(Len(front) + Len(back)) :
           joined[i] = IF i <= Len(front) THEN front[i] ELSE back[i - Len(front)]
  BY ConcatProperties
<1>2. Len(front) \in Nat /\ Len(back) \in Nat
  BY LenProperties
<1> HIDE DEF joined
<1>3. ASSUME NEW i \in 1..Len(joined) PROVE joined[i] = whole[i]
  <2>1. CASE i <= Len(front)
    BY <1>1, <1>2, <2>1
  <2>2. CASE ~(i <= Len(front))
    <3>1. i - Len(front) \in 1..Len(back) /\ Len(front) + (i - Len(front)) = i
      BY <1>1, <1>2, <2>2
    <3>2. joined[i] = back[i - Len(front)]
      BY <1>1, <2>2
    <3> QED BY <3>1, <3>2
  <2> QED BY <2>1, <2>2
<1>4. joined = whole
  BY <1>1, <1>3, SeqEqual
<1> QED BY <1>4 DEF joined

LEMMA Join11 ==
  ASSUME NEW a, NEW b
  PROVE  <<a>> \o <<b>> = <<a, b>>
<1> DEFINE S == {a, b}
           front == <<a>>
           back == <<b>>
           whole == <<a, b>>
<1>1. front \in Seq(S) /\ back \in Seq(S) /\ whole \in Seq(S)
  OBVIOUS
<1>2. Len(front) = 1 /\ Len(back) = 1 /\ Len(whole) = 2
  OBVIOUS
<1>3. /\ whole[1] = front[1]
      /\ whole[2] = back[1]
  OBVIOUS
<1> HIDE DEF S, front, back, whole
<1>4. /\ \A i \in 1..Len(front) : whole[i] = front[i]
      /\ \A i \in 1..Len(back) : whole[Len(front) + i] = back[i]
      /\ Len(whole) = Len(front) + Len(back)
  BY <1>2, <1>3
<1>5. front \o back = whole
  BY <1>1, <1>4, Joined
<1> QED BY <1>5 DEF front, back, whole

LEMMA Join21 ==
  ASSUME NEW a, NEW b, NEW c
  PROVE  <<a, b>> \o <<c>> = <<a, b, c>>
<1> DEFINE S == {a, b, c}
           front == <<a, b>>
           back == <<c>>
           whole == <<a, b, c>>
<1>1. front \in Seq(S) /\ back \in Seq(S) /\ whole \in Seq(S)
  OBVIOUS
<1>2. Len(front) = 2 /\ Len(back) = 1 /\ Len(whole) = 3
  OBVIOUS
<1>3. /\ whole[1] = front[1] /\ whole[2] = front[2]
      /\ whole[3] = back[1]
  OBVIOUS
<1> HIDE DEF S, front, back, whole
<1>4. /\ \A i \in 1..Len(front) : whole[i] = front[i]
      /\ \A i \in 1..Len(back) : whole[Len(front) + i] = back[i]
      /\ Len(whole) = Len(front) + Len(back)
  BY <1>2, <1>3
<1>5. front \o back = whole
  BY <1>1, <1>4, Joined
<1> QED BY <1>5 DEF front, back, whole

LEMMA Join13 ==
  ASSUME NEW a, NEW b, NEW c, NEW d
  PROVE  <<a>> \o <<b, c, d>> = <<a, b, c, d>>
<1> DEFINE S == {a, b, c, d}
           front == <<a>>
           back == <<b, c, d>>
           whole == <<a, b, c, d>>
<1>1. front \in Seq(S) /\ back \in Seq(S) /\ whole \in Seq(S)
  OBVIOUS
<1>2. Len(front) = 1 /\ Len(back) = 3 /\ Len(whole) = 4
  OBVIOUS
<1>3. /\ whole[1] = front[1]
      /\ whole[2] = back[1] /\ whole[3] = back[2] /\ whole[4] = back[3]
  OBVIOUS
<1> HIDE DEF S, front, back, whole
<1>4. /\ \A i \in 1..Len(front) : whole[i] = front[i]
      /\ \A i \in 1..Len(back) : whole[Len(front) + i] = back[i]
      /\ Len(whole) = Len(front) + Len(back)
  BY <1>2, <1>3
<1>5. front \o back = whole
  BY <1>1, <1>4, Joined
<1> QED BY <1>5 DEF front, back, whole

LEMMA Join23 ==
  ASSUME NEW a, NEW b, NEW c, NEW d, NEW e
  PROVE  <<a, b>> \o <<c, d, e>> = <<a, b, c, d, e>>
<1> DEFINE S == {a, b, c, d, e}
           front == <<a, b>>
           back == <<c, d, e>>
           whole == <<a, b, c, d, e>>
<1>1. front \in Seq(S) /\ back \in Seq(S) /\ whole \in Seq(S)
  OBVIOUS
<1>2. Len(front) = 2 /\ Len(back) = 3 /\ Len(whole) = 5
  OBVIOUS
<1>3. /\ whole[1] = front[1] /\ whole[2] = front[2]
      /\ whole[3] = back[1] /\ whole[4] = back[2] /\ whole[5] = back[3]
  OBVIOUS
<1> HIDE DEF S, front, back, whole
<1>4. /\ \A i \in 1..Len(front) : whole[i] = front[i]
      /\ \A i \in 1..Len(back) : whole[Len(front) + i] = back[i]
      /\ Len(whole) = Len(front) + Len(back)
  BY <1>2, <1>3
<1>5. front \o back = whole
  BY <1>1, <1>4, Joined
<1> QED BY <1>5 DEF front, back, whole

LEMMA Join33 ==
  ASSUME NEW a, NEW b, NEW c, NEW d, NEW e, NEW f
  PROVE  <<a, b, c>> \o <<d, e, f>> = <<a, b, c, d, e, f>>
<1> DEFINE S == {a, b, c, d, e, f}
           front == <<a, b, c>>
           back == <<d, e, f>>
           whole == <<a, b, c, d, e, f>>
<1>1. front \in Seq(S) /\ back \in Seq(S) /\ whole \in Seq(S)
  OBVIOUS
<1>2. Len(front) = 3 /\ Len(back) = 3 /\ Len(whole) = 6
  OBVIOUS
<1>3. /\ whole[1] = front[1] /\ whole[2] = front[2] /\ whole[3] = front[3]
      /\ whole[4] = back[1] /\ whole[5] = back[2] /\ whole[6] = back[3]
  OBVIOUS
<1> HIDE DEF S, front, back, whole
<1>4. /\ \A i \in 1..Len(front) : whole[i] = front[i]
      /\ \A i \in 1..Len(back) : whole[Len(front) + i] = back[i]
      /\ Len(whole) = Len(front) + Len(back)
  BY <1>2, <1>3
<1>5. front \o back = whole
  BY <1>1, <1>4, Joined
<1> QED BY <1>5 DEF front, back, whole

(* A plan is worked off from its head.                                      *)
LEMMA PlanSteps ==
  ASSUME NEW plan \in Plans
  PROVE  /\ Head(plan) \in SetReads \cup SetWrites /\ plan # << >>
         /\ Head(plan) \in SetWrites => Tail(plan) \in Plans
         /\ Head(plan) = "manual" => "auto" \notin Range(plan)
         /\ \A c \in Range(plan) : c = Head(plan) \/ c \in Range(Tail(plan))
         /\ Head(plan) \in SetReads => SetWrites \cap Range(plan) = {}
         /\ Head(plan) = "info" => Len(plan) > 1 /\ Tail(plan) \in Plans /\ Head(Tail(plan)) = "autoadd"
         /\ Head(plan) = "autoadd" => Len(plan) > 1 /\ Tail(plan) \in Plans /\ Head(Tail(plan)) = "device"
         /\ Head(plan) = "device" => ~(Len(plan) > 1)
<1>1. CASE plan = <<"device">>
  <2>1. Range(plan) = {"device"} /\ Head(plan) = "device" /\ Len(plan) = 1
    BY <1>1 DEF Range
  <2> QED BY <1>1, <2>1 DEF SetReads, SetWrites
<1>2. CASE plan = <<"autoadd", "device">>
  <2>1. Range(plan) = {"autoadd", "device"} /\ Head(plan) = "autoadd" /\ Len(plan) = 2
    BY <1>2 DEF Range
  <2>2. Tail(plan) = <<"device">>
    BY <1>2
  <2>3. Range(<<"device">>) = {"device"} /\ Head(<<"device">>) = "device"
    BY DEF Range
  <2> QED BY <1>2, <2>1, <2>2, <2>3 DEF SetReads, SetWrites, Plans, ReadPlans, WritePlans
<1>3. CASE plan = <<"info", "autoadd", "device">>
  <2>1. Range(plan) = {"info", "autoadd", "device"} /\ Head(plan) = "info" /\ Len(plan) = 3
    BY <1>3 DEF Range
  <2>2. Tail(plan) = <<"autoadd", "device">>
    BY <1>3
  <2>3. Range(<<"autoadd", "device">>) = {"autoadd", "device"} /\ Head(<<"autoadd", "device">>) = "autoadd"
    BY DEF Range
  <2> QED BY <1>3, <2>1, <2>2, <2>3 DEF SetReads, SetWrites, Plans, ReadPlans, WritePlans
<1>4. CASE plan = <<"auto", "info", "autoadd", "device">>
  <2>1. Range(plan) = {"auto", "info", "autoadd", "device"} /\ Head(plan) = "auto" /\ Len(plan) = 4
    BY <1>4 DEF Range
  <2>2. Tail(plan) = <<"info", "autoadd", "device">>
    BY <1>4
  <2>3. Range(<<"info", "autoadd", "device">>) = {"info", "autoadd", "device"} /\ Head(<<"info", "autoadd", "device">>) = "info"
    BY DEF Range
  <2> QED BY <1>4, <2>1, <2>2, <2>3 DEF SetReads, SetWrites, Plans, ReadPlans, WritePlans
<1>5. CASE plan = <<"manual", "info", "autoadd", "device">>
  <2>1. Range(plan) = {"manual", "info", "autoadd", "device"} /\ Head(plan) = "manual" /\ Len(plan) = 4
    BY <1>5 DEF Range
  <2>2. Tail(plan) = <<"info", "autoadd", "device">>
    BY <1>5
  <2>3. Range(<<"info", "autoadd", "device">>) = {"info", "autoadd", "device"} /\ Head(<<"info", "autoadd", "device">>) = "info"
    BY DEF Range
  <2> QED BY <1>5, <2>1, <2>2, <2>3 DEF SetReads, SetWrites, Plans, ReadPlans, WritePlans
<1>6. CASE plan = <<"mode", "info", "autoadd", "device">>
  <2>1. Range(plan) = {"mode", "info", "autoadd", "device"} /\ Head(plan) = "mode" /\ Len(plan) = 4
    BY <1>6 DEF Range
  <2>2. Tail(plan) = <<"info", "autoadd", "device">>
    BY <1>6
  <2>3. Range(<<"info", "autoadd", "device">>) = {"info", "autoadd", "device"} /\ Head(<<"info", "autoadd", "device">>) = "info"
    BY DEF Range
  <2> QED BY <1>6, <2>1, <2>2, <2>3 DEF SetReads, SetWrites, Plans, ReadPlans, WritePlans
<1>7. CASE plan = <<"auto", "manual", "info", "autoadd", "device">>
  <2>1. Range(plan) = {"auto", "manual", "info", "autoadd", "device"} /\ Head(plan) = "auto" /\ Len(plan) = 5
    BY <1>7 DEF Range
  <2>2. Tail(plan) = <<"manual", "info", "autoadd", "device">>
    BY <1>7
  <2>3. Range(<<"manual", "info", "autoadd", "device">>) = {"manual", "info", "autoadd", "device"} /\ Head(<<"manual", "info", "autoadd", "device">>) = "manual"
    BY DEF Range
  <2> QED BY <1>7, <2>1, <2>2, <2>3 DEF SetReads, SetWrites, Plans, ReadPlans, WritePlans
<1>8. CASE plan = <<"auto", "mode", "info", "autoadd", "device">>
  <2>1. Range(plan) = {"auto", "mode", "info", "autoadd", "device"} /\ Head(plan) = "auto" /\ Len(plan) = 5
    BY <1>8 DEF Range
  <2>2. Tail(plan) = <<"mode", "info", "autoadd", "device">>
    BY <1>8
  <2>3. Range(<<"mode", "info", "autoadd", "device">>) = {"mode", "info", "autoadd", "device"} /\ Head(<<"mode", "info", "autoadd", "device">>) = "mode"
    BY DEF Range
  <2> QED BY <1>8, <2>1, <2>2, <2>3 DEF SetReads, SetWrites, Plans, ReadPlans, WritePlans
<1>9. CASE plan = <<"manual", "mode", "info", "autoadd", "device">>
  <2>1. Range(plan) = {"manual", "mode", "info", "autoadd", "device"} /\ Head(plan) = "manual" /\ Len(plan) = 5
    BY <1>9 DEF Range
  <2>2. Tail(plan) = <<"mode", "info", "autoadd", "device">>
    BY <1>9
  <2>3. Range(<<"mode", "info", "autoadd", "device">>) = {"mode", "info", "autoadd", "device"} /\ Head(<<"mode", "info", "autoadd", "device">>) = "mode"
    BY DEF Range
  <2> QED BY <1>9, <2>1, <2>2, <2>3 DEF SetReads, SetWrites, Plans, ReadPlans, WritePlans
<1>10. CASE plan = <<"auto", "manual", "mode", "info", "autoadd", "device">>
  <2>1. Range(plan) = {"auto", "manual", "mode", "info", "autoadd", "device"} /\ Head(plan) = "auto" /\ Len(plan) = 6
    BY <1>10 DEF Range
  <2>2. Tail(plan) = <<"manual", "mode", "info", "autoadd", "device">>
    BY <1>10
  <2>3. Range(<<"manual", "mode", "info", "autoadd", "device">>) = {"manual", "mode", "info", "autoadd", "device"} /\ Head(<<"manual", "mode", "info", "autoadd", "device">>) = "manual"
    BY DEF Range
  <2> QED BY <1>10, <2>1, <2>2, <2>3 DEF SetReads, SetWrites, Plans, ReadPlans, WritePlans
<1> QED BY <1>1, <1>2, <1>3, <1>4, <1>5, <1>6, <1>7, <1>8, <1>9, <1>10 DEF Plans, ReadPlans, WritePlans

LEMMA AfterWrite ==
  ASSUME NEW plan \in Plans, Head(plan) \in SetWrites
  PROVE  Head(Tail(plan)) \notin {"autoadd", "device"}
<1>1. plan \in WritePlans
  BY DEF Plans, ReadPlans, SetWrites
<1>2. Head(Tail(plan)) \in {"info", "manual", "mode"}
  BY <1>1 DEF WritePlans
<1> QED BY <1>2

LEMMA DesiredProperties ==
  ASSUME NEW p \in Patch, NEW raw \in Preferences
  PROVE  /\ Desired(p, raw) \in Preferences
         /\ Desired(p, raw).rest = raw.rest /\ Desired(p, raw).hops = raw.hops
         /\ Desired(p, raw).auto = DesiredAuto(p, raw.auto)
         /\ Desired(p, raw).manual = DesiredManual(p, raw.manual)
         /\ Desired(p, raw).mode = DesiredMode(p, raw.mode)
<1>1. DesiredAuto(p, raw.auto) \in SUBSET Bits
  BY SettingsAssumption DEF DesiredAuto, Preferences
<1>2. DesiredManual(p, raw.manual) \in SUBSET Manual
  BY SettingsAssumption DEF DesiredManual, Preferences
<1>3. DesiredMode(p, raw.mode) \in Modes
  <2>1. CASE p.path = {}
    BY <2>1 DEF DesiredMode, Preferences
  <2>2. CASE p.path # {}
    <3>1. (CHOOSE size \in p.path : TRUE) \in 1..3
      BY <2>2 DEF Patch, Optional
    <3> QED BY <2>2, <3>1 DEF DesiredMode, Modes
  <2> QED BY <2>1, <2>2
<1> QED BY <1>1, <1>2, <1>3 DEF Desired, Preferences

LEMMA SamePreferences ==
  ASSUME NEW one \in Preferences, NEW other \in Preferences,
         one.auto = other.auto, one.manual = other.manual, one.mode = other.mode,
         one.rest = other.rest, one.hops = other.hops
  PROVE  one = other
BY DEF Preferences

(* The writes of a transaction, in the order of their plan.                 *)
LEMMA ChangedPlan ==
  ASSUME NEW raw \in Preferences
  PROVE  Changed(raw) # << >> =>
           /\ Changed(raw) \o Reads \in WritePlans
           /\ Head(Changed(raw) \o Reads) \in SetWrites
           /\ \A w \in SetWrites : Desired(patch, raw)[w] # raw[w] => w \in Range(Changed(raw) \o Reads)
<1> DEFINE differs(w) == Desired(patch, raw)[w] # raw[w]
<1>0. /\ Writes[1] = "auto" /\ Writes[2] = "manual" /\ Writes[3] = "mode"
      /\ Reads = <<"info", "autoadd", "device">>
  BY DEF Writes, Reads
<1>1. Changed(raw) = ((IF differs("auto") THEN <<"auto">> ELSE << >>)
                       \o (IF differs("manual") THEN <<"manual">> ELSE << >>))
                     \o (IF differs("mode") THEN <<"mode">> ELSE << >>)
  BY <1>0 DEF Changed
<1> HIDE DEF differs
<1>2. SUFFICES Changed(raw) # << >> =>
           /\ Changed(raw) \o Reads \in WritePlans
           /\ Head(Changed(raw) \o Reads) \in SetWrites
           /\ \A w \in SetWrites : differs(w) => w \in Range(Changed(raw) \o Reads)
  BY DEF differs
<1>3. << >> \o << >> = << >> /\ \A c : << >> \o <<c>> = <<c>> /\ <<c>> \o << >> = <<c>>
  <2>1. << >> \in Seq({}) 
    OBVIOUS
  <2>2. ASSUME NEW c PROVE <<c>> \in Seq({c}) /\ << >> \in Seq({c})
    OBVIOUS
  <2> QED BY <2>1, <2>2, ConcatEmptySeq
<1>4. \A c, d : <<c, d>> \o << >> = <<c, d>>
  <2>1. ASSUME NEW c, NEW d PROVE <<c, d>> \in Seq({c, d})
    OBVIOUS
  <2> QED BY <2>1, ConcatEmptySeq
<1>5. CASE ~differs("auto") /\ ~differs("manual") /\ ~differs("mode")
  BY <1>1, <1>3, <1>5
<1>6. CASE differs("auto") /\ ~differs("manual") /\ ~differs("mode")
  <2>1. Changed(raw) = <<"auto">>
    BY <1>1, <1>3, <1>4, <1>6
  <2>2. Changed(raw) \o Reads = <<"auto", "info", "autoadd", "device">>
    BY <1>0, <2>1, Join13
  <2>3. /\ Head(<<"auto", "info", "autoadd", "device">>) = "auto"
        /\ Range(<<"auto", "info", "autoadd", "device">>) = {"auto", "info", "autoadd", "device"}
    BY DEF Range
  <2> QED BY <1>6, <2>2, <2>3 DEF WritePlans, SetWrites
<1>7. CASE ~differs("auto") /\ differs("manual") /\ ~differs("mode")
  <2>1. Changed(raw) = <<"manual">>
    BY <1>1, <1>3, <1>4, <1>7
  <2>2. Changed(raw) \o Reads = <<"manual", "info", "autoadd", "device">>
    BY <1>0, <2>1, Join13
  <2>3. /\ Head(<<"manual", "info", "autoadd", "device">>) = "manual"
        /\ Range(<<"manual", "info", "autoadd", "device">>) = {"manual", "info", "autoadd", "device"}
    BY DEF Range
  <2> QED BY <1>7, <2>2, <2>3 DEF WritePlans, SetWrites
<1>8. CASE differs("auto") /\ differs("manual") /\ ~differs("mode")
  <2>1. Changed(raw) = <<"auto", "manual">>
    BY <1>1, <1>3, <1>4, <1>8, Join11
  <2>2. Changed(raw) \o Reads = <<"auto", "manual", "info", "autoadd", "device">>
    BY <1>0, <2>1, Join23
  <2>3. /\ Head(<<"auto", "manual", "info", "autoadd", "device">>) = "auto"
        /\ Range(<<"auto", "manual", "info", "autoadd", "device">>) = {"auto", "manual", "info", "autoadd", "device"}
    BY DEF Range
  <2> QED BY <1>8, <2>2, <2>3 DEF WritePlans, SetWrites
<1>9. CASE ~differs("auto") /\ ~differs("manual") /\ differs("mode")
  <2>1. Changed(raw) = <<"mode">>
    BY <1>1, <1>3, <1>4, <1>9
  <2>2. Changed(raw) \o Reads = <<"mode", "info", "autoadd", "device">>
    BY <1>0, <2>1, Join13
  <2>3. /\ Head(<<"mode", "info", "autoadd", "device">>) = "mode"
        /\ Range(<<"mode", "info", "autoadd", "device">>) = {"mode", "info", "autoadd", "device"}
    BY DEF Range
  <2> QED BY <1>9, <2>2, <2>3 DEF WritePlans, SetWrites
<1>10. CASE differs("auto") /\ ~differs("manual") /\ differs("mode")
  <2>1. Changed(raw) = <<"auto", "mode">>
    BY <1>1, <1>3, <1>4, <1>10, Join11
  <2>2. Changed(raw) \o Reads = <<"auto", "mode", "info", "autoadd", "device">>
    BY <1>0, <2>1, Join23
  <2>3. /\ Head(<<"auto", "mode", "info", "autoadd", "device">>) = "auto"
        /\ Range(<<"auto", "mode", "info", "autoadd", "device">>) = {"auto", "mode", "info", "autoadd", "device"}
    BY DEF Range
  <2> QED BY <1>10, <2>2, <2>3 DEF WritePlans, SetWrites
<1>11. CASE ~differs("auto") /\ differs("manual") /\ differs("mode")
  <2>1. Changed(raw) = <<"manual", "mode">>
    BY <1>1, <1>3, <1>4, <1>11, Join11
  <2>2. Changed(raw) \o Reads = <<"manual", "mode", "info", "autoadd", "device">>
    BY <1>0, <2>1, Join23
  <2>3. /\ Head(<<"manual", "mode", "info", "autoadd", "device">>) = "manual"
        /\ Range(<<"manual", "mode", "info", "autoadd", "device">>) = {"manual", "mode", "info", "autoadd", "device"}
    BY DEF Range
  <2> QED BY <1>11, <2>2, <2>3 DEF WritePlans, SetWrites
<1>12. CASE differs("auto") /\ differs("manual") /\ differs("mode")
  <2>1. Changed(raw) = <<"auto", "manual", "mode">>
    <3>1. Changed(raw) = (<<"auto">> \o <<"manual">>) \o <<"mode">>
      BY <1>1, <1>12
    <3>2. <<"auto">> \o <<"manual">> = <<"auto", "manual">>
      BY Join11
    <3>3. <<"auto", "manual">> \o <<"mode">> = <<"auto", "manual", "mode">>
      BY Join21
    <3> QED BY <3>1, <3>2, <3>3
  <2>2. Changed(raw) \o Reads = <<"auto", "manual", "mode", "info", "autoadd", "device">>
    BY <1>0, <2>1, Join33
  <2>3. /\ Head(<<"auto", "manual", "mode", "info", "autoadd", "device">>) = "auto"
        /\ Range(<<"auto", "manual", "mode", "info", "autoadd", "device">>) = {"auto", "manual", "mode", "info", "autoadd", "device"}
    BY DEF Range
  <2> QED BY <1>12, <2>2, <2>3 DEF WritePlans, SetWrites
<1> QED BY <1>5, <1>6, <1>7, <1>8, <1>9, <1>10, <1>11, <1>12

LEMMA BlankType == Blank \in Preferences
<1>1. (CHOOSE r \in Rest : TRUE) \in Rest
  BY SettingsAssumption
<1> QED BY <1>1 DEF Blank, Preferences, Modes

LEMMA Sizes ==
  ASSUME IInv
  PROVE  /\ Len(wire) \in Nat /\ Len(late) \in Nat /\ Debts(replies) \in Nat
         /\ calls \in Nat /\ MaxCalls \in Nat
<1>1. wire \in Seq(Frames) /\ late \in Seq(Frames) /\ replies \in Seq(Answers)
  BY DEF IInv, ValuesInv
<1>2. MaxCalls \in Nat
  BY SettingsAssumption, LenProperties DEF MaxCalls
<1>3. calls \in 0..MaxCalls
  BY DEF IInv, ValuesInv
<1>4. Len(wire) \in Nat /\ Len(late) \in Nat
  BY <1>1, LenProperties
<1>5. Debts(replies) \in Nat
  BY <1>1, DebtsFinite
<1> QED BY <1>2, <1>3, <1>4, <1>5

(* Before the lock is taken and between two commands nothing of the call is *)
(* on its way.                                                              *)
LEMMA NothingOwn ==
  ASSUME IInv, pc \in {"lock", "send"}, ~misread
  PROVE  /\ NoOwn(wire) /\ NoOwn(late) /\ NoOwn(replies)
         /\ applied \subseteq written /\ (~ignored => written \subseteq applied)
BY DEF IInv, OwnInv, NoOwn, Unknown

LEMMA DebtStays ==
  ASSUME IInv, UNCHANGED <<wire, late, replies, calls>>, pc' \in {"lock", "send"} => pc \in {"lock", "send"}
  PROVE  DebtInv'
<1>1. Debts(replies') = Debts(replies)
  OBVIOUS
<1> QED BY <1>1, Sizes DEF IInv, DebtInv

-----------------------------------------------------------------------------
(* The steps that leave the queues of frames alone.                         *)

LEMMA FinishKeeps ==
  ASSUME IInv, pc \in {"lock", "send"}, NEW status \in Statuses, Finish(status),
         UNCHANGED <<companion, link, patch, written, calls, events, ghosts, mixed>>,
         status \notin {"none", "verified"},
         status \in {"disconnected", "busy", "expired", "rejected", "unsupported"} => written = {}
  PROVE  IInv'
<1>1. ValuesInv'
  BY BlankType DEF IInv, ValuesInv, Finish, companion, ghosts
<1>2. DebtInv'
  BY DebtStays DEF Finish, companion
<1>3. PlanInv'
  BY DEF IInv, PlanInv, Waiting, Second, Finish, companion, ghosts
<1>4. OwnInv'
  <2> SUFFICES ASSUME ~misread' PROVE OwnInv'
    BY DEF OwnInv
  <2>1. NoOwn(wire)' /\ NoOwn(late)' /\ NoOwn(replies)'
    BY NothingOwn DEF NoOwn, Own, companion, ghosts
  <2>2. /\ applied' \subseteq written' /\ (~ignored' => written' \subseteq applied')
        /\ pc' = "idle" /\ "auto" \in SetWrites
    BY NothingOwn DEF Finish, ghosts, SetWrites
  <2> QED BY <2>1, <2>2 DEF OwnInv, NoOwn, OneOwn
<1>5. PrefsInv'
  <2> SUFFICES ASSUME ~misread', ~foreign' PROVE PrefsInv'
    BY DEF PrefsInv
  <2>1. NoOwn(late)' /\ NoOwn(replies)'
    BY NothingOwn DEF NoOwn, Own, companion, ghosts
  <2>2. /\ prefs = Halfway(applied) /\ ("manual" \in applied => AutoFirst)
        /\ Halfway(applied)' = Halfway(applied) /\ AutoFirst' = AutoFirst
    BY DEF IInv, PrefsInv, Halfway, AutoFirst, ghosts
  <2> QED BY <2>1, <2>2 DEF PrefsInv, NoOwn, Waiting, Finish, companion, ghosts
<1>6. ConnInv'
  BY DEF IInv, ConnInv, PlanInv, Own, Stale, Waiting, Finish, companion, ghosts
<1> QED BY <1>1, <1>2, <1>3, <1>4, <1>5, <1>6 DEF IInv

LEMMA BusyKeeps == ASSUME IInv, Busy PROVE IInv'
<1>1. written = {}
  BY DEF Busy, IInv, PlanInv
<1> QED BY <1>1, FinishKeeps DEF Busy, Statuses

LEMMA ExpiredKeeps == ASSUME IInv, Expired PROVE IInv'
BY FinishKeeps DEF Expired, Stopped, Statuses

LEMMA CancelledWaitingKeeps == ASSUME IInv, CancelledWaiting PROVE IInv'
BY FinishKeeps DEF CancelledWaiting, Statuses

LEMMA TakeLockKeeps == ASSUME IInv, TakeLock PROVE IInv'
<1>1. CASE link = "down"
  <2>1. written = {}
    BY DEF TakeLock, IInv, PlanInv
  <2> QED BY <1>1, <2>1, FinishKeeps DEF TakeLock, Statuses, ghosts
<1>2. CASE link # "down"
  <2>1. /\ pc = "lock" /\ holder' = "settings" /\ pc' = "send" /\ todo' = Reads
        /\ was' = prefs /\ foreign' = FALSE
        /\ UNCHANGED <<companion, link, patch, written, calls, events, applied, ignored, misread, mixed>>
        /\ UNCHANGED <<seen, before, missed, result>>
    BY <1>2 DEF TakeLock
  <2>2. ValuesInv'
    BY <2>1 DEF IInv, ValuesInv, companion
  <2>3. DebtInv'
    BY <2>1, DebtStays DEF companion
  <2>4. Reads \in Plans /\ Head(Reads) = "info" /\ written = {} /\ ~misread
    BY <2>1 DEF Reads, Plans, ReadPlans, IInv, PlanInv
  <2>5. calls > 0
    BY <2>1, Sizes DEF IInv, DebtInv
  <2>6. PlanInv'
    BY <1>2, <2>1, <2>4, <2>5 DEF IInv, PlanInv, Waiting, Second, SetWrites, companion
  <2>7. NoOwn(wire)' /\ NoOwn(late)' /\ NoOwn(replies)' /\ applied = {}
    BY <2>1, <2>4, NothingOwn DEF NoOwn, Own, companion
  <2>8. OwnInv'
    BY <2>1, <2>4, <2>7 DEF OwnInv, NoOwn, OneOwn, Unknown
  <2>9. PrefsInv'
    <3>1. prefs \in Preferences /\ prefs' = prefs
      BY <2>1 DEF IInv, ValuesInv, companion
    <3>2. prefs = [auto |-> prefs.auto, manual |-> prefs.manual, mode |-> prefs.mode,
                   rest |-> prefs.rest, hops |-> prefs.hops]
      BY <3>1 DEF Preferences
    <3>3. prefs' = Halfway(applied)'
      BY <2>1, <2>7, <3>1, <3>2 DEF Halfway
    <3> QED BY <2>1, <2>4, <2>7, <3>3 DEF PrefsInv, NoOwn, Waiting, Second, SetWrites, IInv, PlanInv
  <2>10. ConnInv'
    BY <2>1, <2>4 DEF IInv, ConnInv, PlanInv, Own, Stale, Waiting, companion
  <2> QED BY <2>2, <2>3, <2>6, <2>8, <2>9, <2>10 DEF IInv
<1> QED BY <1>1, <1>2

(* Steps of others that concern neither the frames nor the call.            *)
LEMMA TextLockKeeps == ASSUME IInv, TextBegins \/ TextEnds \/ Teardown PROVE IInv'
<1>1. /\ UNCHANGED <<prefs, wire, replies, late, pc, call, result, calls, ghosts, mixed>>
      /\ holder # "settings" /\ holder' # "settings" /\ (link' # "up" => link # "up")
  BY DEF TextBegins, TextEnds, Teardown, companion
<1>2. ValuesInv'
  <2>1. owes' \in BOOLEAN /\ holder' \in {"nobody", "text"} /\ link' \in {"up", "dead", "down"}
    BY DEF TextBegins, TextEnds, Teardown, companion, IInv, ValuesInv
  <2>2. events' \in 0..MaxEvents
    BY SettingsAssumption DEF TextBegins, TextEnds, Teardown, IInv, ValuesInv
  <2> QED BY <1>1, <2>1, <2>2 DEF IInv, ValuesInv, call, ghosts
<1>3. DebtInv'
  BY <1>1, DebtStays
<1>4. PlanInv'
  BY <1>1 DEF IInv, PlanInv, Waiting, Second, call, ghosts
<1>5. OwnInv'
  BY <1>1 DEF IInv, OwnInv, Own, NoOwn, OneOwn, Unknown, call, ghosts
<1>6. PrefsInv'
  BY <1>1 DEF IInv, PrefsInv, Own, Waiting, Second, Halfway, AutoFirst, call, ghosts
<1>7. ConnInv'
  BY <1>1 DEF IInv, ConnInv, Own, Stale, Waiting, call, ghosts
<1> QED BY <1>2, <1>3, <1>4, <1>5, <1>6, <1>7 DEF IInv

LEMMA OtherAppKeeps == ASSUME IInv, OtherApp PROVE IInv'
<1>1. /\ UNCHANGED <<wire, replies, late, owes, link, holder, pc, call, result, calls, was, applied,
                     ignored, misread, mixed>>
      /\ foreign' /\ prefs' \in Possible
  BY DEF OtherApp
<1>2. ValuesInv'
  <2>1. events' \in 0..MaxEvents /\ prefs' \in Preferences /\ foreign' \in BOOLEAN
    BY <1>1, SettingsAssumption, PossibleAssumption DEF OtherApp, IInv, ValuesInv
  <2> QED BY <1>1, <2>1 DEF IInv, ValuesInv, call
<1>3. DebtInv'
  BY <1>1, DebtStays
<1>4. PlanInv'
  BY <1>1 DEF IInv, PlanInv, Waiting, Second, call
<1>5. OwnInv'
  BY <1>1 DEF IInv, OwnInv, Own, NoOwn, OneOwn, Unknown, call
<1>6. PrefsInv'
  BY <1>1 DEF PrefsInv
<1>7. ConnInv'
  BY <1>1 DEF IInv, ConnInv, Own, Stale, Waiting, call
<1> QED BY <1>2, <1>3, <1>4, <1>5, <1>6, <1>7 DEF IInv

-----------------------------------------------------------------------------
(* A call begins, a command is sent.                                        *)

LEMMA CallKeeps == ASSUME IInv, Call PROVE IInv'
<1>1. /\ pc = "idle" /\ calls < MaxCalls /\ calls' = calls + 1 /\ written' = {}
      /\ patch' \in Patches[calls + 1]
      /\ applied' = {} /\ ignored' = FALSE /\ foreign' = FALSE /\ misread' = FALSE /\ was' = prefs
      /\ UNCHANGED <<companion, link, events, mixed>>
      /\ UNCHANGED <<todo, missed>> \/ (todo' = << >> /\ missed' = 0)
      /\ UNCHANGED <<seen, before>> \/ (seen' = Blank /\ before' = Blank)
      /\ (pc' = "idle" /\ result' = "disconnected") \/ (pc' = "lock" /\ result' = "none")
      /\ UNCHANGED holder \/ holder' = IF holder = "settings" THEN "nobody" ELSE holder
  BY DEF Call, Finish
<1>2. holder # "settings" /\ todo = << >> /\ missed = 0
  BY <1>1 DEF IInv, PlanInv, Waiting
<1>3. calls' \in 0..MaxCalls /\ patch' \in Patch /\ calls \in Nat
  <2>1. calls + 1 \in 1..Len(Patches)
    BY <1>1, Sizes DEF MaxCalls
  <2>2. Patches[calls + 1] \subseteq Patch
    BY <2>1, SettingsAssumption
  <2> QED BY <1>1, <2>1, <2>2, Sizes
<1>4. ValuesInv'
  <2>1. /\ \A i \in DOMAIN wire : wire[i].call \in 1..calls'
        /\ \A i \in DOMAIN late : late[i].call \in 1..calls'
        /\ \A i \in DOMAIN replies : replies[i].call \in 0..calls'
    BY <1>1, <1>3 DEF IInv, ValuesInv
  <2> QED BY <1>1, <1>2, <1>3, <2>1, BlankType DEF IInv, ValuesInv, companion, Statuses
<1>5. DebtInv'
  <2>1. Debts(replies') = Debts(replies) /\ UNCHANGED <<wire, late>>
    BY <1>1 DEF companion
  <2> QED BY <1>1, <2>1, Sizes DEF IInv, DebtInv
<1>6. PlanInv'
  BY <1>1, <1>2 DEF IInv, PlanInv, Waiting, Second, companion
<1>7. NoOwn(wire)' /\ NoOwn(late)' /\ NoOwn(replies)'
  <2>1. ASSUME NEW n \in 0..calls PROVE n # calls'
    BY <1>1, <1>3
  <2>2. /\ \A i \in DOMAIN wire : wire[i].call # calls'
        /\ \A i \in DOMAIN late : late[i].call # calls'
        /\ \A i \in DOMAIN replies : replies[i].call # calls'
    BY <1>3, <2>1 DEF IInv, ValuesInv
  <2> QED BY <1>1, <2>2 DEF NoOwn, Own, companion
<1>8. OwnInv'
  BY <1>1, <1>7 DEF OwnInv, NoOwn, OneOwn, Unknown
<1>9. PrefsInv'
  <2>1. prefs \in Preferences /\ prefs' = prefs
    BY <1>1 DEF IInv, ValuesInv, companion
  <2>2. prefs = [auto |-> prefs.auto, manual |-> prefs.manual, mode |-> prefs.mode,
                 rest |-> prefs.rest, hops |-> prefs.hops]
    BY <2>1 DEF Preferences
  <2>3. prefs' = Halfway(applied)'
    BY <1>1, <2>1, <2>2 DEF Halfway
  <2> QED BY <1>1, <1>7, <2>3 DEF PrefsInv, NoOwn, Waiting
<1>10. ConnInv'
  BY <1>1, <1>2 DEF IInv, ConnInv, Own, Stale, Waiting, companion
<1> QED BY <1>4, <1>5, <1>6, <1>8, <1>9, <1>10 DEF IInv

LEMMA SendKeeps == ASSUME IInv, Send PROVE IInv'
<1>1. /\ pc = "send" /\ pc' = "reply" /\ UNCHANGED <<prefs, replies, late, owes, link, holder>>
      /\ UNCHANGED <<call, result, calls, events, ghosts, mixed>>
  BY DEF Send
<1>2. todo \in Plans /\ Head(todo) \in SetReads \cup SetWrites /\ calls > 0 /\ link # "down" /\ missed = 0
  BY <1>1, PlanSteps DEF IInv, PlanInv, Waiting
<1> DEFINE frame == [command |-> Head(todo), value |-> Desired(patch, before), call |-> calls]
<1>3. frame \in Frames /\ frame.call \in 1..calls
  BY <1>2, CommandSets, DesiredProperties, Sizes DEF Frames, IInv, ValuesInv
<1>4. wire \in Seq(Frames)
  BY DEF IInv, ValuesInv
<1>5. \/ wire' = wire
      \/ link = "up" /\ wire' = Append(wire, frame)
  BY <1>2 DEF Send, IInv, ValuesInv
<1>6. /\ wire' \in Seq(Frames) /\ Len(wire') <= Len(wire) + 1 /\ Len(wire') \in Nat
      /\ DOMAIN wire' = 1..Len(wire')
      /\ \A i \in DOMAIN wire' : \/ i \in DOMAIN wire /\ wire'[i] = wire[i]
                                 \/ i = Len(wire') /\ wire'[i] = frame
  <2> HIDE DEF frame
  <2>1. CASE wire' = wire
    BY <1>4, <2>1, LenProperties
  <2>2. CASE wire' = Append(wire, frame)
    BY <1>3, <1>4, <2>2, QueueAppend
  <2> QED BY <1>5, <2>1, <2>2
<1> HIDE DEF frame
<1>7. ValuesInv'
  BY <1>1, <1>3, <1>6 DEF IInv, ValuesInv, call, ghosts
<1>8. DebtInv'
  <2>1. Debts(replies') = Debts(replies) /\ late' = late /\ calls' = calls
    BY <1>1
  <2> QED BY <1>1, <1>6, <2>1, Sizes DEF IInv, DebtInv
<1>9. PlanInv'
  BY <1>1, <1>5 DEF IInv, PlanInv, Waiting, Second, call, ghosts
<1>10. frame.command = Head(todo) /\ frame.value = Desired(patch, before) /\ frame.call = calls
  BY DEF frame
<1>11. OwnInv'
  <2> SUFFICES ASSUME ~misread' PROVE OwnInv'
    BY DEF OwnInv
  <2>1. /\ NoOwn(wire) /\ NoOwn(late) /\ NoOwn(replies)
        /\ applied \subseteq written /\ (~ignored => written \subseteq applied)
    BY <1>1, NothingOwn DEF ghosts
  <2>2. NoOwn(late)' /\ NoOwn(replies)'
    BY <1>1, <2>1 DEF NoOwn, Own
  <2>3. \A i \in DOMAIN wire' : Own(wire'[i]) => i = Len(wire') /\ wire'[i] = frame
    BY <1>6, <2>1 DEF NoOwn
  <2> QED BY <1>1, <1>10, <2>1, <2>2, <2>3 DEF OwnInv, NoOwn, OneOwn, Own, Unknown, call, ghosts
<1>12. PrefsInv'
  BY <1>1 DEF IInv, PrefsInv, Own, Waiting, Second, Halfway, AutoFirst, call, ghosts
<1>13. ConnInv'
  <2> SUFFICES ASSUME ~mixed' PROVE ConnInv'
    BY DEF ConnInv
  <2>1. DOMAIN wire = {} /\ ~misread
    BY <1>1 DEF IInv, ConnInv, Waiting
  <2>2. \A i \in DOMAIN replies : ~(Own(replies[i]) /\ pc = "reply")
    BY <1>1
  <2> QED BY <1>1, <1>2, <1>6, <1>10, <2>1, <2>2 DEF IInv, ConnInv, Own, Stale, Waiting, call, ghosts
<1> QED BY <1>7, <1>8, <1>9, <1>11, <1>12, <1>13 DEF IInv

-----------------------------------------------------------------------------
(* A connection ends: what is on the wire may still be carried out.         *)

LEMMA LateGrows ==
  ASSUME IInv, late' \in {late, late \o wire}
  PROVE  /\ late' \in Seq(Frames) /\ Len(late') \in Nat /\ Len(late') <= Len(wire) + Len(late)
         /\ \A i \in DOMAIN late' : \/ \E j \in DOMAIN late : late'[i] = late[j]
                                    \/ \E j \in DOMAIN wire : late'[i] = wire[j]
         /\ ~misread => \A i, j \in DOMAIN late' : Own(late'[i]) /\ Own(late'[j]) => i = j
<1>1. late \in Seq(Frames) /\ wire \in Seq(Frames) /\ Len(late) \in Nat /\ Len(wire) \in Nat
  BY Sizes DEF IInv, ValuesInv
<1>2. CASE late' = late
  BY <1>1, <1>2 DEF IInv, OwnInv, OneOwn
<1>3. CASE late' = late \o wire
  <2>1. /\ late' \in Seq(Frames) /\ Len(late') = Len(late) + Len(wire)
        /\ \A i \in DOMAIN late' : i \in Nat
        /\ \A i \in DOMAIN late' :
             \/ i \in DOMAIN late /\ late'[i] = late[i]
             \/ i - Len(late) \in DOMAIN wire /\ late'[i] = wire[i - Len(late)]
    BY <1>1, <1>3, QueueConcat
  <2>2. Len(late') \in Nat /\ Len(late') <= Len(wire) + Len(late) /\ DOMAIN late' = 1..Len(late')
    BY <1>1, <2>1, LenProperties
  <2>3. ASSUME ~misread, NEW i \in DOMAIN late', NEW j \in DOMAIN late', Own(late'[i]), Own(late'[j])
        PROVE  i = j
    <3>1. CASE i \in DOMAIN late /\ late'[i] = late[i]
      <4>1. NoOwn(wire)
        BY <2>3, <3>1 DEF IInv, OwnInv, NoOwn
      <4>2. j \in DOMAIN late /\ late'[j] = late[j]
        BY <2>1, <2>3, <4>1 DEF NoOwn
      <4> QED BY <2>3, <3>1, <4>2 DEF IInv, OwnInv, OneOwn
    <3>2. CASE i - Len(late) \in DOMAIN wire /\ late'[i] = wire[i - Len(late)]
      <4>1. NoOwn(late) /\ i - Len(late) = Len(wire)
        BY <2>3, <3>2 DEF IInv, OwnInv
      <4>2. j - Len(late) \in DOMAIN wire /\ late'[j] = wire[j - Len(late)]
        BY <2>1, <2>3, <4>1 DEF NoOwn
      <4>3. j - Len(late) = Len(wire)
        BY <2>3, <4>2 DEF IInv, OwnInv
      <4>4. i \in Nat /\ j \in Nat
        BY <2>1
      <4> QED BY <1>1, <4>1, <4>3, <4>4
    <3> QED BY <2>1, <3>1, <3>2
  <2> QED BY <2>1, <2>2, <2>3
<1> QED BY <1>2, <1>3

(* The flags come before the manual byte.                                   *)
LEMMA AutoBeforeManual ==
  ASSUME IInv, Waiting, Head(todo) = "manual", ~misread, ~foreign
  PROVE  AutoFirst
<1>1. Second /\ before = was /\ todo \in Plans
  BY DEF IInv, PlanInv, PrefsInv, Second, SetWrites
<1>2. "auto" \in SetWrites /\ "auto" \notin Range(todo)
  BY <1>1, PlanSteps DEF SetWrites
<1>3. Desired(patch, was)["auto"] # was["auto"] => "auto" \in written
  BY <1>1, <1>2 DEF IInv, PlanInv
<1>4. ~ignored => written \subseteq applied
  BY DEF IInv, OwnInv
<1> QED BY <1>3, <1>4 DEF AutoFirst

(* What a lost connection carries out later, it would have carried out.     *)
LEMMA LateWrites ==
  ASSUME IInv, late' \in {late, late \o wire}, ~misread, ~foreign,
         UNCHANGED <<patch, was, calls, applied, ignored>>
  PROVE  \A i \in DOMAIN late' : Own(late'[i]) /\ late'[i].command \in SetWrites =>
           /\ late'[i].value = Desired(patch, was)
           /\ late'[i].command = "manual" => AutoFirst
<1>1. ASSUME NEW j \in DOMAIN wire, Own(wire[j]), wire[j].command \in SetWrites
      PROVE  wire[j].value = Desired(patch, was) /\ (wire[j].command = "manual" => AutoFirst)
  <2>1. Waiting /\ wire[j].command = Head(todo) /\ wire[j].value = Desired(patch, before)
    BY <1>1 DEF IInv, OwnInv, Waiting
  <2>2. before = was
    BY <1>1, <2>1 DEF IInv, PrefsInv, Second
  <2> QED BY <2>1, <2>2, AutoBeforeManual
<1>2. \A j \in DOMAIN late : Own(late[j]) /\ late[j].command \in SetWrites =>
           /\ late[j].value = Desired(patch, was)
           /\ late[j].command = "manual" => AutoFirst
  BY DEF IInv, PrefsInv
<1> QED BY <1>1, <1>2, LateGrows

LEMMA ClosedKeeps ==
  ASSUME IInv, pc \in {"send", "reply"}, CloseSocket, Finish("unknown"),
         UNCHANGED <<prefs, patch, written, calls, events, was, applied, ignored, foreign, mixed>>,
         misread' \in BOOLEAN, misread => misread'
  PROVE  IInv'
<1>1. /\ link' = "down" /\ late' \in {late, late \o wire}
      /\ wire' = << >> /\ replies' = << >> /\ owes' = FALSE
  BY DEF CloseSocket
<1>2. /\ pc' = "idle" /\ result' = "unknown" /\ holder' = "nobody"
      /\ todo' = << >> /\ seen' = Blank /\ before' = Blank /\ missed' = 0
  BY DEF Finish, IInv, PlanInv, Waiting
<1>3. /\ late' \in Seq(Frames) /\ Len(late') \in Nat /\ Len(late') <= Len(wire) + Len(late)
      /\ \A i \in DOMAIN late' : \/ \E j \in DOMAIN late : late'[i] = late[j]
                                 \/ \E j \in DOMAIN wire : late'[i] = wire[j]
      /\ ~misread => \A i, j \in DOMAIN late' : Own(late'[i]) /\ Own(late'[j]) => i = j
  BY <1>1, LateGrows
<1>4. ValuesInv'
  <2>1. \A i \in DOMAIN late' : late'[i].call \in 1..calls'
    BY <1>3 DEF IInv, ValuesInv
  <2>2. wire' \in Seq(Frames) /\ replies' \in Seq(Answers) /\ DOMAIN wire' = {} /\ DOMAIN replies' = {}
    BY <1>1
  <2>3. /\ \A i \in DOMAIN wire' : wire'[i].call \in 1..calls'
        /\ \A i \in DOMAIN replies' :
             replies'[i].call \in 0..calls' /\ (replies'[i].call = 0 => replies'[i].code \in {"err", "other"})
    BY <2>2
  <2>4. link' = "down" /\ owes' \in BOOLEAN /\ "unknown" \in Statuses
    BY <1>1 DEF Statuses
  <2>5. ignored' \in BOOLEAN /\ foreign' \in BOOLEAN /\ mixed' \in BOOLEAN
    BY DEF IInv, ValuesInv
  <2>6. /\ prefs' \in Preferences /\ was' \in Preferences /\ patch' \in Patch
        /\ written' \subseteq SetWrites /\ applied' \subseteq SetWrites
        /\ calls' \in 0..MaxCalls /\ events' \in 0..MaxEvents
    BY DEF IInv, ValuesInv
  <2> QED BY <1>2, <1>3, <2>1, <2>2, <2>3, <2>4, <2>5, <2>6, BlankType DEF ValuesInv
<1>5. DebtInv'
  <2>1. Debts(replies') = 0 /\ Len(wire') = 0
    BY <1>1, DebtsEmpty
  <2> QED BY <1>2, <1>3, <2>1, Sizes DEF IInv, DebtInv
<1>6. PlanInv'
  BY <1>1, <1>2 DEF PlanInv, Waiting
<1>7. OwnInv'
  <2> SUFFICES ASSUME ~misread' PROVE OwnInv'
    BY DEF OwnInv
  <2>1. ~misread
    OBVIOUS
  <2>2. \A i \in DOMAIN late' : Own(late'[i]) => applied \subseteq written
    BY <1>3, <2>1 DEF IInv, OwnInv
  <2>3. \E last \in SetWrites : applied \subseteq written \cup {last}
    <3>1. applied \subseteq written \cup ({Head(todo)} \cap SetWrites)
      BY <2>1 DEF IInv, OwnInv, Unknown
    <3>2. "auto" \in SetWrites
      BY DEF SetWrites
    <3>3. CASE Head(todo) \in SetWrites
      BY <3>1, <3>3
    <3>4. CASE Head(todo) \notin SetWrites
      BY <3>1, <3>2, <3>4
    <3> QED BY <3>3, <3>4
  <2>4. DOMAIN wire' = {} /\ DOMAIN replies' = {}
    BY <1>1
  <2>5. \A frame : Own(frame)' <=> Own(frame)
    BY DEF Own
  <2>6. Unknown' /\ pc' # "reply" /\ NoOwn(replies)' /\ OneOwn(replies)' /\ OneOwn(late)'
    BY <1>2, <1>3, <2>1, <2>4 DEF Unknown, NoOwn, OneOwn, Own
  <2>7. ~ignored' => written' \subseteq applied'
    BY <2>1 DEF IInv, OwnInv
  <2> QED BY <2>2, <2>3, <2>4, <2>6, <2>7 DEF OwnInv, Own
<1>8. PrefsInv'
  <2> SUFFICES ASSUME ~misread', ~foreign' PROVE PrefsInv'
    BY DEF PrefsInv
  <2>1. \A i \in DOMAIN late' : Own(late'[i]) /\ late'[i].command \in SetWrites =>
           /\ late'[i].value = Desired(patch, was)
           /\ late'[i].command = "manual" => AutoFirst
    BY <1>1, LateWrites
  <2>2. /\ prefs = Halfway(applied) /\ ("manual" \in applied => AutoFirst)
        /\ Halfway(applied)' = Halfway(applied) /\ AutoFirst' = AutoFirst
    BY DEF IInv, PrefsInv, Halfway, AutoFirst
  <2>3. DOMAIN replies' = {}
    BY <1>1
  <2> QED BY <1>2, <2>1, <2>2, <2>3 DEF PrefsInv, Waiting, Own
<1>9. ConnInv'
  <2>1. DOMAIN wire' = {} /\ DOMAIN replies' = {}
    BY <1>1
  <2> QED BY <1>2, <2>1 DEF ConnInv, Waiting
<1> QED BY <1>4, <1>5, <1>6, <1>7, <1>8, <1>9 DEF IInv

LEMMA UncertainKeeps == ASSUME IInv, Uncertain PROVE IInv'
<1>1. misread' = misread /\ misread \in BOOLEAN
  BY DEF Uncertain, ghosts, IInv, ValuesInv
<1> QED BY <1>1, ClosedKeeps DEF Uncertain, ghosts

LEMMA PeerLostKeeps == ASSUME IInv, PeerLost PROVE IInv'
<1>1. /\ link' = "dead" /\ late' \in {late, late \o wire} /\ wire' = << >> /\ replies' \in {replies, << >>}
      /\ UNCHANGED <<prefs, owes, holder, pc, call, result, calls, events, ghosts, mixed>>
  BY DEF PeerLost
<1>2. /\ late' \in Seq(Frames) /\ Len(late') \in Nat /\ Len(late') <= Len(wire) + Len(late)
      /\ \A i \in DOMAIN late' : \/ \E j \in DOMAIN late : late'[i] = late[j]
                                 \/ \E j \in DOMAIN wire : late'[i] = wire[j]
      /\ ~misread => \A i, j \in DOMAIN late' : Own(late'[i]) /\ Own(late'[j]) => i = j
  BY <1>1, LateGrows
<1>3. wire' \in Seq(Frames) /\ DOMAIN wire' = {} /\ Len(wire') = 0
  BY <1>1
<1>4. /\ replies' \in Seq(Answers)
      /\ replies' = replies \/ DOMAIN replies' = {}
  <2>1. << >> \in Seq(Answers) /\ DOMAIN << >> = {} /\ replies \in Seq(Answers)
    BY DEF IInv, ValuesInv
  <2>2. CASE replies' = << >>
    BY <2>1, <2>2
  <2> QED BY <1>1, <2>1, <2>2
<1>5. ValuesInv'
  <2>1. \A i \in DOMAIN late' : late'[i].call \in 1..calls
    BY <1>2 DEF IInv, ValuesInv
  <2>2. \A i \in DOMAIN replies' :
             replies'[i].call \in 0..calls /\ (replies'[i].call = 0 => replies'[i].code \in {"err", "other"})
    BY <1>4 DEF IInv, ValuesInv
  <2>3. link' \in {"up", "dead", "down"} /\ \A i \in DOMAIN wire' : wire'[i].call \in 1..calls
    BY <1>1, <1>3
  <2>4. UNCHANGED <<prefs, owes, holder, pc, call, result, calls, events, ghosts, mixed>>
    BY <1>1
  <2> QED BY <1>2, <1>3, <1>4, <2>1, <2>2, <2>3, <2>4 DEF IInv, ValuesInv, call, ghosts
<1>6. DebtInv'
  <2>1. Debts(replies') <= Debts(replies) /\ Debts(replies') \in Nat
    BY <1>1, <1>4, DebtsEmpty, Sizes
  <2>2. UNCHANGED <<calls, pc>>
    BY <1>1
  <2> QED BY <1>2, <1>3, <2>1, <2>2, Sizes DEF IInv, DebtInv
<1>7. PlanInv'
  BY <1>1 DEF IInv, PlanInv, Waiting, Second, call, ghosts
<1>8. OwnInv'
  <2> SUFFICES ASSUME ~misread PROVE OwnInv'
    BY <1>1 DEF OwnInv, ghosts
  <2>1. \A i \in DOMAIN late' : Own(late'[i]) =>
          /\ Unknown \/ (pc = "reply" /\ late'[i].command = Head(todo) /\ late'[i].value = Desired(patch, before))
          /\ NoOwn(replies) /\ applied \subseteq written
    BY <1>2 DEF IInv, OwnInv
  <2>2. UNCHANGED <<pc, call, result, calls, ghosts>>
    BY <1>1
  <2>3. NoOwn(replies) => NoOwn(replies)'
    BY <1>4, <2>2 DEF NoOwn, Own
  <2>4. OneOwn(late)' /\ OneOwn(replies)'
    BY <1>2, <1>4, <2>2 DEF OneOwn, Own, IInv, OwnInv
  <2>5. \A i \in DOMAIN wire' : FALSE
    BY <1>3
  <2>6. \A i \in DOMAIN replies' : replies' = replies
    BY <1>4
  <2> QED BY <2>1, <2>2, <2>3, <2>4, <2>5, <2>6 DEF IInv, OwnInv, Own, Unknown, call, ghosts
<1>9. PrefsInv'
  <2> SUFFICES ASSUME ~misread, ~foreign PROVE PrefsInv'
    BY <1>1 DEF PrefsInv, ghosts
  <2>1. \A i \in DOMAIN late' : Own(late'[i]) /\ late'[i].command \in SetWrites =>
           /\ late'[i].value = Desired(patch, was)
           /\ late'[i].command = "manual" => AutoFirst
    BY <1>1, LateWrites DEF call, ghosts
  <2>2. UNCHANGED <<prefs, pc, call, result, calls, ghosts>>
    BY <1>1
  <2>3. Halfway(applied)' = Halfway(applied) /\ AutoFirst' = AutoFirst
    BY <2>2 DEF Halfway, AutoFirst, call, ghosts
  <2>4. \A i \in DOMAIN replies' : replies' = replies
    BY <1>4
  <2> QED BY <2>1, <2>2, <2>3, <2>4 DEF IInv, PrefsInv, Own, Waiting, Second, call, ghosts
<1>10. ConnInv'
  BY <1>1, <1>3, <1>4 DEF IInv, ConnInv, Own, Stale, Waiting, call, ghosts
<1> QED BY <1>5, <1>6, <1>7, <1>8, <1>9, <1>10 DEF IInv

LEMMA ReconnectKeeps == ASSUME IInv, Reconnect PROVE IInv'
<1>1. /\ link = "down" /\ holder = "nobody" /\ link' = "up" /\ replies' = << >> /\ owes' = FALSE /\ mixed' = FALSE
      /\ UNCHANGED <<prefs, wire, late, holder, pc, call, result, calls, events, ghosts>>
  BY DEF Reconnect
<1>2. wire = << >> /\ DOMAIN wire = {} /\ ~Waiting
  BY <1>1 DEF IInv, PlanInv
<1>3. replies' \in Seq(Answers) /\ DOMAIN replies' = {} /\ Debts(replies') = 0
  BY <1>1, DebtsEmpty
<1>4. ValuesInv'
  <2>1. \A i \in DOMAIN replies' :
             replies'[i].call \in 0..calls /\ (replies'[i].call = 0 => replies'[i].code \in {"err", "other"})
    BY <1>3
  <2>2. link' \in {"up", "dead", "down"} /\ owes' \in BOOLEAN /\ mixed' \in BOOLEAN
    BY <1>1
  <2>3. UNCHANGED <<prefs, wire, late, holder, pc, call, result, calls, events, ghosts>>
    BY <1>1
  <2> QED BY <1>3, <2>1, <2>2, <2>3 DEF IInv, ValuesInv, call, ghosts
<1>5. DebtInv'
  BY <1>1, <1>3, Sizes DEF IInv, DebtInv
<1>6. PlanInv'
  BY <1>1, <1>2 DEF IInv, PlanInv, Waiting, Second, call, ghosts
<1>7. OwnInv'
  BY <1>1, <1>3 DEF IInv, OwnInv, Own, NoOwn, OneOwn, Unknown, call, ghosts
<1>8. PrefsInv'
  BY <1>1, <1>3 DEF IInv, PrefsInv, Own, Waiting, Second, Halfway, AutoFirst, call, ghosts
<1>9. ConnInv'
  <2>1. ~Waiting' /\ DOMAIN wire' = {}
    BY <1>1, <1>2 DEF Waiting
  <2> QED BY <1>3, <2>1 DEF ConnInv
<1> QED BY <1>4, <1>5, <1>6, <1>7, <1>8, <1>9 DEF IInv

LEMMA TextReplyLateKeeps == ASSUME IInv, TextReplyLate PROVE IInv'
<1>1. PICK code \in {"err", "other"} :
        /\ replies' = Append(replies, [code |-> code, raw |-> Blank, call |-> 0])
        /\ mixed' = (mixed \/ code = "err" \/ missed = 1 \/ \E i \in DOMAIN replies : replies[i].call = 0)
  BY DEF TextReplyLate
<1>2. /\ owes' = FALSE
      /\ UNCHANGED <<prefs, wire, late, link, holder, pc, call, result, calls, events, ghosts>>
  BY DEF TextReplyLate
<1> DEFINE frame == [code |-> code, raw |-> Blank, call |-> 0]
<1>3. frame \in Answers /\ frame.call = 0 /\ frame.code = code
  BY BlankType DEF Answers, Codes
<1>4. replies \in Seq(Answers) /\ replies' = Append(replies, frame)
  BY <1>1 DEF IInv, ValuesInv
<1> HIDE DEF frame
<1>5. /\ replies' \in Seq(Answers)
      /\ \A i \in DOMAIN replies' : \/ i \in DOMAIN replies /\ replies'[i] = replies[i]
                                    \/ i = Len(replies) + 1 /\ replies'[i] = frame
  BY <1>3, <1>4, QueueAppend
<1>6. ~Own(frame) /\ Debts(replies') = Debts(replies)
  BY <1>3, <1>4, DebtsAppend, Sizes DEF Own
<1>7. ValuesInv'
  <2>1. \A i \in DOMAIN replies' :
             replies'[i].call \in 0..calls /\ (replies'[i].call = 0 => replies'[i].code \in {"err", "other"})
    BY <1>3, <1>5, Sizes DEF IInv, ValuesInv
  <2>2. owes' \in BOOLEAN /\ mixed' \in BOOLEAN
    BY <1>1, <1>2
  <2>3. UNCHANGED <<prefs, wire, late, link, holder, pc, call, result, calls, events, ghosts>>
    BY <1>2
  <2> QED BY <1>5, <2>1, <2>2, <2>3 DEF IInv, ValuesInv, call, ghosts
<1>8. DebtInv'
  BY <1>2, <1>6, Sizes DEF IInv, DebtInv
<1>9. PlanInv'
  BY <1>2 DEF IInv, PlanInv, Waiting, Second, call, ghosts
<1>10. \A i \in DOMAIN replies' : Own(replies'[i]) => i \in DOMAIN replies /\ replies'[i] = replies[i]
  BY <1>5, <1>6
<1>11. OwnInv'
  BY <1>2, <1>10 DEF IInv, OwnInv, Own, NoOwn, OneOwn, Unknown, call, ghosts
<1>12. PrefsInv'
  BY <1>2, <1>10 DEF IInv, PrefsInv, Own, Waiting, Second, Halfway, AutoFirst, call, ghosts
<1>13. ConnInv'
  <2> SUFFICES ASSUME ~mixed' PROVE ConnInv'
    BY DEF ConnInv
  <2>1. ~mixed /\ code = "other" /\ missed # 1 /\ \A i \in DOMAIN replies : replies[i].call # 0
    BY <1>1
  <2>2. missed = 0
    BY <2>1 DEF IInv, ValuesInv
  <2> QED BY <1>2, <1>3, <1>5, <2>1, <2>2 DEF IInv, ConnInv, Own, Stale, Waiting, call, ghosts
<1> QED BY <1>7, <1>8, <1>9, <1>11, <1>12, <1>13 DEF IInv

-----------------------------------------------------------------------------
(* The call reads frames.                                                   *)

LEMMA RepliesShift ==
  ASSUME IInv, replies # << >>, replies' = Tail(replies)
  PROVE  /\ replies' \in Seq(Answers) /\ Head(replies) = replies[1] /\ 1 \in DOMAIN replies
         /\ Head(replies) \in Answers
         /\ \A i \in DOMAIN replies' : i + 1 \in DOMAIN replies /\ i + 1 # 1 /\ replies'[i] = replies[i + 1]
         /\ \A i, j \in DOMAIN replies' : i + 1 = j + 1 => i = j
         /\ Debts(replies') = IF Head(replies).call # 0 THEN Debts(replies) - 1 ELSE Debts(replies)
         /\ Debts(replies') <= Debts(replies) /\ Debts(replies') \in Nat
<1>1. replies \in Seq(Answers)
  BY DEF IInv, ValuesInv
<1>2. Debts(replies') = IF Head(replies).call # 0 THEN Debts(replies) - 1 ELSE Debts(replies)
  BY <1>1, DebtsTail
<1>3. replies' \in Seq(Answers)
  BY <1>1, QueueTail
<1>4. Debts(replies') \in Nat /\ Debts(replies) \in Nat
  BY <1>1, <1>3, DebtsFinite
<1>5. Debts(replies') <= Debts(replies)
  BY <1>2, <1>4
<1> QED BY <1>1, <1>2, <1>3, <1>4, <1>5, QueueTail

LEMMA SkipKeeps == ASSUME IInv, Skip PROVE IInv'
<1>1. /\ pc = "reply" /\ replies # << >> /\ missed = 0 /\ missed' = 1 /\ replies' = Tail(replies)
      /\ Head(replies).code \notin Expected
      /\ UNCHANGED <<prefs, wire, late, owes, link, holder, pc, patch, todo, written, seen, before,
                     result, calls, events, ghosts, mixed>>
  BY DEF Skip
<1>2. /\ replies' \in Seq(Answers) /\ Head(replies) = replies[1] /\ 1 \in DOMAIN replies
      /\ \A i \in DOMAIN replies' : i + 1 \in DOMAIN replies /\ i + 1 # 1 /\ replies'[i] = replies[i + 1]
      /\ \A i, j \in DOMAIN replies' : i + 1 = j + 1 => i = j
      /\ Debts(replies') <= Debts(replies) /\ Debts(replies') \in Nat
  BY <1>1, RepliesShift
<1>3. ValuesInv'
  <2>1. \A i \in DOMAIN replies' :
             replies'[i].call \in 0..calls /\ (replies'[i].call = 0 => replies'[i].code \in {"err", "other"})
    BY <1>2 DEF IInv, ValuesInv
  <2>2. missed' \in 0..1
    BY <1>1
  <2>3. UNCHANGED <<prefs, wire, late, owes, link, holder, pc, patch, todo, written, seen, before,
                    result, calls, events, ghosts, mixed>>
    BY <1>1
  <2> QED BY <1>2, <2>1, <2>2, <2>3 DEF IInv, ValuesInv, ghosts
<1>4. DebtInv'
  BY <1>1, <1>2, Sizes DEF IInv, DebtInv
<1>5. PlanInv'
  BY <1>1 DEF IInv, PlanInv, Waiting, Second, ghosts
<1>6. OwnInv'
  BY <1>1, <1>2 DEF IInv, OwnInv, Own, NoOwn, OneOwn, Unknown, ghosts
<1>7. PrefsInv'
  BY <1>1, <1>2 DEF IInv, PrefsInv, Own, Waiting, Second, Halfway, AutoFirst, ghosts
<1>8. ConnInv'
  <2> SUFFICES ASSUME ~mixed PROVE ConnInv'
    BY <1>1 DEF ConnInv
  <2>1. ~misread /\ todo \in Plans
    BY <1>1 DEF IInv, ConnInv, PlanInv, Waiting
  <2>2. ~Own(replies[1])
    <3> SUFFICES ASSUME Own(replies[1]) PROVE FALSE
      OBVIOUS
    <3>1. Head(todo) \in SetReads \cup SetWrites
      BY <2>1, PlanSteps
    <3> QED BY <1>1, <1>2, <2>1, <3>1, CommandSets DEF IInv, OwnInv, Expected
  <2>3. Stale(replies[1])
    BY <1>2, <2>2 DEF IInv, ConnInv
  <2>4. \A i \in DOMAIN replies' : ~Stale(replies'[i])
    BY <1>2, <2>3 DEF IInv, ConnInv
  <2> QED BY <1>1, <1>2, <2>1, <2>4 DEF IInv, ConnInv, Own, Stale, Waiting, ghosts
<1> QED BY <1>3, <1>4, <1>5, <1>6, <1>7, <1>8 DEF IInv

-----------------------------------------------------------------------------
(* The Companion carries out a command.                                     *)

LEMMA CarriedType == ASSUME IInv, NEW frame \in Frames PROVE Carried(frame) \in Preferences
BY DEF Carried, Frames, Preferences, IInv, ValuesInv

LEMMA CarriedHalfway ==
  ASSUME IInv, ~misread, ~foreign, NEW frame \in Frames,
         frame.command \in SetWrites => frame.value = Desired(patch, was),
         frame.command \notin SetWrites => frame.command \in SetReads
  PROVE  /\ Carried(frame) = Halfway(applied \cup ({frame.command} \cap SetWrites))
         /\ frame.command \notin SetWrites => Carried(frame) = prefs
<1>1. prefs = Halfway(applied) /\ was \in Preferences /\ prefs \in Preferences /\ patch \in Patch
  BY DEF IInv, ValuesInv, PrefsInv
<1>2. Desired(patch, was) \in Preferences /\ Desired(patch, was).rest = was.rest
  BY <1>1, DesiredProperties
<1>3. /\ prefs.rest = was.rest /\ prefs.hops = was.hops
      /\ prefs.auto = IF "auto" \in applied THEN Desired(patch, was).auto ELSE was.auto
      /\ prefs.manual = IF "manual" \in applied THEN Desired(patch, was).manual ELSE was.manual
      /\ prefs.mode = IF "mode" \in applied THEN Desired(patch, was).mode ELSE was.mode
  BY <1>1 DEF Halfway
<1> DEFINE more == applied \cup ({frame.command} \cap SetWrites)
<1>4. Halfway(more) \in Preferences
  BY <1>1, <1>2 DEF Halfway, Preferences
<1>5. Carried(frame) \in Preferences
  BY CarriedType
<1>6. CASE frame.command \notin SetWrites
  <2>1. Carried(frame) = prefs
    BY <1>6 DEF Carried, SetWrites
  <2>2. more = applied
    BY <1>6
  <2> QED BY <1>1, <1>6, <2>1, <2>2
<1>7. CASE frame.command = "auto"
  <2>1. Carried(frame) = [prefs EXCEPT !.auto = Desired(patch, was).auto] /\ more = applied \cup {"auto"}
    BY <1>7 DEF Carried, SetWrites
  <2> HIDE DEF more
  <2>2. Carried(frame) = Halfway(more)
    BY <1>1, <1>2, <1>3, <1>4, <1>5, <2>1, SamePreferences DEF Halfway, Preferences
  <2> QED BY <1>7, <2>2 DEF more, SetWrites
<1>8. CASE frame.command = "manual"
  <2>1. /\ Carried(frame) = [prefs EXCEPT !.manual = Desired(patch, was).manual, !.rest = was.rest]
        /\ more = applied \cup {"manual"}
    BY <1>2, <1>8 DEF Carried, SetWrites
  <2> HIDE DEF more
  <2>2. Carried(frame) = Halfway(more)
    BY <1>1, <1>2, <1>3, <1>4, <1>5, <2>1, SamePreferences DEF Halfway, Preferences
  <2> QED BY <1>8, <2>2 DEF more, SetWrites
<1>9. CASE frame.command = "mode"
  <2>1. Carried(frame) = [prefs EXCEPT !.mode = Desired(patch, was).mode] /\ more = applied \cup {"mode"}
    BY <1>9 DEF Carried, SetWrites
  <2> HIDE DEF more
  <2>2. Carried(frame) = Halfway(more)
    BY <1>1, <1>2, <1>3, <1>4, <1>5, <2>1, SamePreferences DEF Halfway, Preferences
  <2> QED BY <1>9, <2>2 DEF more, SetWrites
<1> QED BY <1>6, <1>7, <1>8, <1>9 DEF SetWrites

LEMMA ServeLateKeeps == ASSUME IInv, ServeLate PROVE IInv'
<1>1. PICK frame : frame = Head(late)
  OBVIOUS
<1>2. /\ late # << >> /\ late' = Tail(late) /\ prefs' = Carried(frame)
      /\ IF frame.call = calls
           THEN applied' = applied \cup ({frame.command} \cap SetWrites) /\ UNCHANGED foreign
           ELSE foreign' = TRUE /\ UNCHANGED applied
      /\ UNCHANGED <<wire, replies, owes, link, holder, pc, call, result, calls, events, was, ignored,
                     misread, mixed>>
  BY <1>1, CommandSets DEF ServeLate, Mine
<1>3. late \in Seq(Frames)
  BY DEF IInv, ValuesInv
<1>4. /\ late' \in Seq(Frames) /\ frame = late[1] /\ 1 \in DOMAIN late /\ frame \in Frames
      /\ \A i \in DOMAIN late' : i + 1 \in DOMAIN late /\ i + 1 # 1 /\ late'[i] = late[i + 1]
      /\ \A i, j \in DOMAIN late' : i + 1 = j + 1 => i = j
      /\ Len(late') <= Len(late) /\ Len(late') \in Nat
  BY <1>1, <1>2, <1>3, QueueTail
<1>5. frame.call \in 1..calls /\ frame.command \in SetReads \cup SetWrites
  BY <1>4, CommandSets DEF IInv, ValuesInv, Frames
<1>6. Own(frame) <=> frame.call = calls
  BY <1>5, Sizes DEF Own
<1>7. ValuesInv'
  <2>1. prefs' \in Preferences
    BY <1>2, <1>4, CarriedType
  <2>2. \A i \in DOMAIN late' : late'[i].call \in 1..calls
    BY <1>4 DEF IInv, ValuesInv
  <2>3. foreign' \in BOOLEAN /\ applied' \subseteq SetWrites
    BY <1>2 DEF IInv, ValuesInv
  <2>4. UNCHANGED <<wire, replies, owes, link, holder, pc, call, result, calls, events, was, ignored,
                    misread, mixed>>
    BY <1>2
  <2> QED BY <1>4, <2>1, <2>2, <2>3, <2>4 DEF IInv, ValuesInv, call
<1>8. DebtInv'
  BY <1>2, <1>4, Sizes DEF IInv, DebtInv
<1>9. PlanInv'
  BY <1>2 DEF IInv, PlanInv, Waiting, Second, call
<1>10. ConnInv'
  BY <1>2 DEF IInv, ConnInv, Own, Stale, Waiting, call
<1>11. CASE ~Own(frame)
  <2>1. OwnInv'
    BY <1>2, <1>4, <1>6, <1>11 DEF IInv, OwnInv, Own, NoOwn, OneOwn, Unknown, call
  <2>2. PrefsInv'
    BY <1>2, <1>6, <1>11 DEF PrefsInv
  <2> QED BY <1>7, <1>8, <1>9, <1>10, <2>1, <2>2 DEF IInv
<1>12. CASE Own(frame)
  <2>1. applied' = applied \cup ({frame.command} \cap SetWrites) /\ UNCHANGED foreign
    BY <1>2, <1>6, <1>12
  <2>2. ASSUME ~misread
        PROVE  /\ NoOwn(wire) /\ NoOwn(replies) /\ NoOwn(late)' /\ applied \subseteq written
               /\ Unknown \/ (pc = "reply" /\ frame.command = Head(todo) /\ frame.value = Desired(patch, before))
    BY <1>2, <1>4, <1>12, <2>2 DEF IInv, OwnInv, NoOwn, OneOwn, Own
  <2>3. OwnInv'
    <3> SUFFICES ASSUME ~misread PROVE OwnInv'
      BY <1>2 DEF OwnInv
    <3>1. NoOwn(wire)' /\ NoOwn(replies)' /\ NoOwn(late)'
      BY <1>2, <2>2 DEF NoOwn, Own
    <3>2. ~ignored' => written' \subseteq applied'
      BY <1>2, <2>1 DEF IInv, OwnInv, call
    <3>3. /\ Unknown => \E last \in SetWrites : applied' \subseteq written \cup {last}
          /\ pc = "reply" => applied' \subseteq written \cup ({Head(todo)} \cap SetWrites)
      BY <2>1, <2>2 DEF SetWrites, Unknown
    <3>4. Unknown' = Unknown /\ UNCHANGED <<pc, written, todo>>
      BY <1>2 DEF Unknown, call
    <3> QED BY <2>2, <3>1, <3>2, <3>3, <3>4 DEF OwnInv, NoOwn, OneOwn
  <2>4. PrefsInv'
    <3> SUFFICES ASSUME ~misread, ~foreign PROVE PrefsInv'
      BY <1>2, <2>1 DEF PrefsInv
    <3>1. /\ frame.command \in SetWrites => frame.value = Desired(patch, was)
          /\ frame.command = "manual" => AutoFirst
      BY <1>4, <1>12 DEF IInv, PrefsInv, SetWrites
    <3>2. /\ prefs' = Halfway(applied')
          /\ frame.command \notin SetWrites => prefs' = prefs
      BY <1>2, <1>4, <1>5, <2>1, <3>1, CarriedHalfway
    <3>3. Halfway(applied)' = Halfway(applied')
      BY <1>2 DEF Halfway, call
    <3>4. "manual" \in applied' => AutoFirst'
      BY <1>2, <2>1, <3>1 DEF IInv, PrefsInv, AutoFirst, call
    <3>5. NoOwn(late)' /\ NoOwn(replies)'
      BY <1>2, <2>2 DEF NoOwn, Own
    <3>6. result # "verified"
      BY <2>2 DEF Unknown, IInv, PlanInv
    <3>7. Waiting /\ Head(todo) \in SetReads => prefs' = prefs
      BY <2>2, <3>2 DEF Waiting, Unknown, SetReads, SetWrites
    <3>8. Waiting /\ Head(todo) \in {"autoadd", "device"} => Head(todo) \in SetReads
      BY DEF SetReads
    <3>9. UNCHANGED <<pc, call, result, was>> /\ (Waiting' <=> Waiting) /\ (Second' <=> Second)
      BY <1>2 DEF Waiting, Second, call
    <3>10. /\ Waiting /\ Second => before = was
           /\ Waiting /\ Head(todo) \in {"autoadd", "device"} => seen.manual = prefs.manual /\ seen.rest = prefs.rest
           /\ Waiting /\ Head(todo) = "device" => seen.auto = prefs.auto /\ seen.hops = prefs.hops
      BY DEF IInv, PrefsInv
    <3> QED BY <3>2, <3>3, <3>4, <3>5, <3>6, <3>7, <3>8, <3>9, <3>10 DEF PrefsInv, NoOwn, call
  <2> QED BY <1>7, <1>8, <1>9, <1>10, <2>3, <2>4 DEF IInv
<1> QED BY <1>11, <1>12

(* What Serve does, whatever the Companion makes of the command.            *)
ServeEffect(frame, code) ==
  /\ wire # << >> /\ frame = wire[1] /\ frame \in Frames /\ link = "up"
  /\ wire' = Tail(wire)
  /\ replies' = Append(replies, [code |-> code, raw |-> prefs, call |-> frame.call])
  /\ \/ /\ UNCHANGED <<prefs, applied, foreign>>
        /\ UNCHANGED ignored \/ ignored' = TRUE
     \/ /\ frame.command \in SetWrites /\ code \in {"ok", "long"} /\ UNCHANGED ignored
        /\ prefs' = Carried(frame)
        /\ IF frame.call = calls THEN applied' = applied \cup {frame.command} /\ UNCHANGED foreign
           ELSE foreign' = TRUE /\ UNCHANGED applied
  /\ IF frame.command \in SetReads THEN code \in {frame.command, "short", "err"}
     ELSE frame.command \in SetWrites /\ code \in {"ok", "long", "err"}
  /\ code # "err" /\ frame.command \in SetWrites /\ frame.call = calls /\ ~ignored' =>
       frame.command \in applied'
  /\ code = "err" \/ frame.command \in SetReads => UNCHANGED <<prefs, applied>>
  /\ UNCHANGED <<late, owes, link, holder, pc, call, result, calls, events, was, misread, mixed>>

LEMMA ServeHasEffect == ASSUME IInv, Serve PROVE \E frame, code : ServeEffect(frame, code)
<1>1. PICK frame : frame = Head(wire)
  OBVIOUS
<1>2. /\ wire # << >> /\ wire' = Tail(wire) /\ link = "up"
      /\ UNCHANGED <<late, owes, link, holder, pc, call, result, calls, events, was, misread, mixed>>
  BY DEF Serve
<1>3. wire \in Seq(Frames)
  BY DEF IInv, ValuesInv
<1>4. frame = wire[1] /\ frame \in Frames
  BY <1>1, <1>2, <1>3, QueueTail
<1>5. frame.command \in SetReads \cup SetWrites
  BY <1>4, CommandSets DEF Frames
<1>6. SetReads \cap SetWrites = {}
  BY DEF SetReads, SetWrites
<1>7. CASE frame.command \in SetReads
  <2>1. PICK code \in {frame.command, "short", "err"} :
          replies' = Append(replies, [code |-> code, raw |-> prefs, call |-> frame.call])
    BY <1>1, <1>7, CommandSets DEF Serve, Reply
  <2>2. UNCHANGED <<prefs, applied, ignored, foreign>>
    BY <1>1, <1>7, CommandSets DEF Serve
  <2> QED BY <1>2, <1>4, <1>6, <1>7, <2>1, <2>2 DEF ServeEffect
<1>8. CASE frame.command \in SetWrites
  <2>1. CASE /\ \E code \in {"ok", "long"} : replies' = Reply(frame, code)
             /\ prefs' = Carried(frame)
             /\ Mine(frame) /\ UNCHANGED ignored
    <3>1. PICK code \in {"ok", "long"} :
            replies' = Append(replies, [code |-> code, raw |-> prefs, call |-> frame.call])
      BY <2>1 DEF Reply
    <3>2. IF frame.call = calls THEN applied' = applied \cup {frame.command} /\ UNCHANGED foreign
          ELSE foreign' = TRUE /\ UNCHANGED applied
      BY <1>8, <2>1, CommandSets DEF Mine
    <3> QED BY <1>2, <1>4, <1>6, <1>8, <2>1, <3>1, <3>2 DEF ServeEffect
  <2>2. CASE replies' = Reply(frame, "ok") /\ ignored' = TRUE /\ UNCHANGED <<prefs, applied, foreign>>
    <3>1. ServeEffect(frame, "ok")
      BY <1>2, <1>4, <1>6, <1>8, <2>2 DEF ServeEffect, Reply
    <3> QED BY <3>1
  <2>3. CASE replies' = Reply(frame, "err") /\ UNCHANGED <<prefs, applied, ignored, foreign>>
    <3>1. ServeEffect(frame, "err")
      BY <1>2, <1>4, <1>6, <1>8, <2>3 DEF ServeEffect, Reply
    <3> QED BY <3>1
  <2> QED BY <1>1, <1>6, <1>8, <2>1, <2>2, <2>3, CommandSets DEF Serve
<1> QED BY <1>5, <1>7, <1>8

LEMMA ServeKeeps == ASSUME IInv, Serve PROVE IInv'
<1>1. PICK frame, code : ServeEffect(frame, code)
  BY ServeHasEffect
<1> DEFINE answer == [code |-> code, raw |-> prefs, call |-> frame.call]
<1>2. wire \in Seq(Frames) /\ replies \in Seq(Answers) /\ wire # << >> /\ wire' = Tail(wire)
  BY <1>1 DEF IInv, ValuesInv, ServeEffect
<1>3. /\ wire' \in Seq(Frames) /\ 1 \in DOMAIN wire
      /\ \A i \in DOMAIN wire' : i + 1 \in DOMAIN wire /\ wire'[i] = wire[i + 1]
      /\ Len(wire') = Len(wire) - 1 /\ Len(wire) \in Nat \ {0} /\ DOMAIN wire' = 1..(Len(wire) - 1)
  BY <1>2, QueueTail
<1>4. /\ frame = wire[1] /\ frame \in Frames /\ frame.call \in 1..calls
      /\ frame.command \in SetReads \cup SetWrites
  BY <1>1, <1>3, CommandSets DEF ServeEffect, IInv, ValuesInv, Frames
<1>5. /\ answer \in Answers /\ answer.call = frame.call /\ answer.code = code /\ answer.raw = prefs
      /\ answer.call # 0 /\ (Own(answer) <=> frame.call = calls) /\ (Own(frame) <=> frame.call = calls)
  <2>1. code \in Codes
    BY <1>1, CommandSets DEF ServeEffect, Codes
  <2> QED BY <1>4, <2>1, Sizes DEF Answers, Frames, IInv, ValuesInv, Own
<1>6. replies' = Append(replies, answer)
  BY <1>1 DEF ServeEffect
<1> HIDE DEF answer
<1>7. /\ replies' \in Seq(Answers)
      /\ \A i \in DOMAIN replies' : \/ i \in DOMAIN replies /\ replies'[i] = replies[i]
                                    \/ i = Len(replies) + 1 /\ replies'[i] = answer
  BY <1>2, <1>5, <1>6, QueueAppend
<1>8. Debts(replies') = Debts(replies) + 1
  BY <1>2, <1>5, <1>6, DebtsAppend
<1>9. UNCHANGED <<late, owes, link, holder, pc, call, result, calls, events, was, misread, mixed>> /\ link = "up"
  BY <1>1 DEF ServeEffect
<1>10. ValuesInv'
  <2>1. prefs' \in Preferences /\ applied' \subseteq SetWrites /\ foreign' \in BOOLEAN /\ ignored' \in BOOLEAN
    BY <1>1, CarriedType DEF ServeEffect, IInv, ValuesInv
  <2>2. \A i \in DOMAIN wire' : wire'[i].call \in 1..calls
    BY <1>3 DEF IInv, ValuesInv
  <2>3. answer.call \in 0..calls
    BY <1>4, <1>5, Sizes
  <2>4. \A i \in DOMAIN replies :
             replies[i].call \in 0..calls /\ (replies[i].call = 0 => replies[i].code \in {"err", "other"})
    BY DEF IInv, ValuesInv
  <2>5. \A i \in DOMAIN replies' :
             replies'[i].call \in 0..calls /\ (replies'[i].call = 0 => replies'[i].code \in {"err", "other"})
    BY <1>5, <1>7, <2>3, <2>4
  <2> QED BY <1>3, <1>7, <1>9, <2>1, <2>2, <2>5 DEF IInv, ValuesInv, call
<1>11. DebtInv'
  BY <1>3, <1>8, <1>9, Sizes DEF IInv, DebtInv
<1>12. PlanInv'
  BY <1>9 DEF IInv, PlanInv, Waiting, Second, call
<1>13. ConnInv'
  BY <1>3, <1>4, <1>5, <1>7, <1>9 DEF IInv, ConnInv, Own, Stale, Waiting, call
<1>14. CASE ~Own(frame)
  <2>1. /\ ~Own(answer) /\ applied' = applied
        /\ UNCHANGED ignored \/ ignored' = TRUE
        /\ UNCHANGED <<prefs, foreign>> \/ foreign' = TRUE
    BY <1>1, <1>5, <1>14 DEF ServeEffect
  <2>2. \A i \in DOMAIN replies' : Own(replies'[i]) => i \in DOMAIN replies /\ replies'[i] = replies[i]
    BY <1>7, <2>1
  <2>3. OwnInv'
    <3> SUFFICES ASSUME ~misread PROVE OwnInv'
      BY <1>9 DEF OwnInv
    <3>1. ASSUME NEW i \in DOMAIN wire', Own(wire'[i])
          PROVE  /\ pc = "reply" /\ i = Len(wire')
                 /\ wire'[i].command = Head(todo) /\ wire'[i].value = Desired(patch, before)
                 /\ NoOwn(late) /\ NoOwn(replies) /\ applied \subseteq written
      <4>1. i + 1 \in DOMAIN wire /\ wire'[i] = wire[i + 1]
        BY <1>3
      <4>2. i + 1 = Len(wire)
        BY <3>1, <4>1 DEF IInv, OwnInv
      <4>3. i = Len(wire')
        BY <1>3, <4>2
      <4> QED BY <3>1, <4>1, <4>3 DEF IInv, OwnInv
    <3>2. NoOwn(replies) => NoOwn(replies)'
      BY <1>9, <2>2 DEF NoOwn, Own
    <3>3. OneOwn(replies)' /\ OneOwn(late)' /\ (NoOwn(late) => NoOwn(late)')
      BY <1>9, <2>2 DEF OneOwn, NoOwn, Own, IInv, OwnInv
    <3> QED BY <1>9, <2>1, <2>2, <3>1, <3>2, <3>3 DEF IInv, OwnInv, Own, Unknown, call
  <2>4. PrefsInv'
    <3>1. CASE foreign' = TRUE
      BY <3>1 DEF PrefsInv
    <3>2. CASE UNCHANGED <<prefs, foreign>>
      BY <1>9, <2>1, <2>2, <3>2 DEF IInv, PrefsInv, Own, Waiting, Second, Halfway, AutoFirst, call
    <3> QED BY <2>1, <3>1, <3>2
  <2> QED BY <1>10, <1>11, <1>12, <1>13, <2>3, <2>4 DEF IInv
<1>15. CASE Own(frame)
  <2>1. ASSUME ~misread
        PROVE  /\ pc = "reply" /\ Len(wire) = 1 /\ NoOwn(late) /\ NoOwn(replies) /\ applied \subseteq written
               /\ frame.command = Head(todo) /\ frame.value = Desired(patch, before)
    <3>1. 1 = Len(wire)
      BY <1>3, <1>4, <1>15, <2>1 DEF IInv, OwnInv
    <3> QED BY <1>3, <1>4, <1>15, <2>1, <3>1 DEF IInv, OwnInv
  <2>2. /\ UNCHANGED foreign
        /\ \/ UNCHANGED <<prefs, applied>>
           \/ /\ frame.command \in SetWrites /\ applied' = applied \cup {frame.command}
              /\ prefs' = Carried(frame) /\ UNCHANGED ignored
        /\ UNCHANGED ignored \/ ignored' = TRUE
        /\ code = "err" \/ frame.command \in SetReads => UNCHANGED <<prefs, applied>>
        /\ code # "err" /\ frame.command \in SetWrites /\ ~ignored' => frame.command \in applied'
        /\ IF frame.command \in SetReads THEN code \in {frame.command, "short", "err"}
           ELSE code \in {"ok", "long", "err"}
    BY <1>1, <1>5, <1>15 DEF ServeEffect
  <2>3. ASSUME ~misread
        PROVE  /\ DOMAIN wire' = {} /\ NoOwn(late)'
               /\ \A i \in DOMAIN replies' : Own(replies'[i]) => i = Len(replies) + 1 /\ replies'[i] = answer
    <3>1. DOMAIN wire' = {}
      <4>1. Len(wire) = 1
        BY <2>1, <2>3
      <4>2. DOMAIN wire' = 1..(Len(wire) - 1)
        BY <1>3
      <4>3. DOMAIN wire' = 1..(1 - 1)
        BY <4>1, <4>2
      <4> QED BY <4>3
    <3>2. NoOwn(late)'
      BY <1>9, <2>1, <2>3 DEF NoOwn, Own
    <3>3. NoOwn(replies)
      BY <2>1, <2>3
    <3> QED BY <1>7, <3>1, <3>2, <3>3 DEF NoOwn
  <2>4. OwnInv'
    <3> SUFFICES ASSUME ~misread PROVE OwnInv'
      BY <1>9 DEF OwnInv
    <3>1. /\ applied' \subseteq written \cup ({Head(todo)} \cap SetWrites)
          /\ code = "err" => applied' \subseteq written
      BY <2>1, <2>2
    <3>2. ~ignored' => written \subseteq applied'
      BY <2>2 DEF IInv, OwnInv
    <3>3. \A f : Own(f)' <=> Own(f)
      BY <1>9 DEF Own
    <3>4. OneOwn(replies)' /\ OneOwn(late)'
      BY <2>3, <3>3 DEF OneOwn, NoOwn
    <3>5. \A i \in DOMAIN replies' : Own(replies'[i]) =>
             /\ pc = "reply"
             /\ IF Head(todo) \in SetReads THEN replies'[i].code \in {Head(todo), "short", "err"}
                ELSE /\ replies'[i].code \in {"ok", "long", "err"}
                     /\ replies'[i].code = "err" => applied' \subseteq written
                     /\ replies'[i].code # "err" /\ ~ignored' => Head(todo) \in applied'
      BY <1>4, <1>5, <2>1, <2>2, <2>3, <3>1
    <3>6. UNCHANGED <<pc, todo, written, patch, before, misread, late>> /\ pc = "reply"
      BY <1>9, <2>1 DEF call
    <3> QED BY <2>3, <3>1, <3>2, <3>3, <3>4, <3>5, <3>6 DEF OwnInv, NoOwn
  <2>5. PrefsInv'
    <3> SUFFICES ASSUME ~misread, ~foreign PROVE PrefsInv'
      BY <1>9, <2>2 DEF PrefsInv
    <3>1. Waiting /\ result = "none" /\ frame.command = Head(todo)
      BY <2>1 DEF Waiting, IInv, PlanInv
    <3>2. frame.command \in SetWrites =>
            /\ frame.value = Desired(patch, was)
            /\ frame.command = "manual" => AutoFirst
      BY <2>1, <3>1, AutoBeforeManual DEF IInv, PrefsInv, Second
    <3>3. prefs = Halfway(applied) /\ ("manual" \in applied => AutoFirst)
      BY DEF IInv, PrefsInv
    <3>4. prefs' = Halfway(applied')
      <4>1. CASE UNCHANGED <<prefs, applied>>
        BY <3>3, <4>1 DEF Halfway
      <4>2. CASE /\ frame.command \in SetWrites /\ applied' = applied \cup {frame.command}
                 /\ prefs' = Carried(frame)
        <5>1. {frame.command} \cap SetWrites = {frame.command}
          BY <4>2
        <5> QED BY <1>4, <3>2, <4>2, <5>1, CarriedHalfway
      <4> QED BY <2>2, <4>1, <4>2
    <3>5. Halfway(applied)' = Halfway(applied')
      BY <1>9 DEF Halfway, call
    <3>6. "manual" \in applied' => AutoFirst'
      BY <1>9, <2>2, <3>2, <3>3 DEF AutoFirst, call
    <3>7. Head(todo) \in SetReads => prefs' = prefs
      BY <2>2, <3>1
    <3>8. {"autoadd", "device"} \subseteq SetReads
      BY DEF SetReads
    <3>9. UNCHANGED <<pc, call, result, was>> /\ (Waiting' <=> Waiting) /\ (Second' <=> Second)
      BY <1>9 DEF Waiting, Second, call
    <3>10. /\ Waiting /\ Second => before = was
           /\ Waiting /\ Head(todo) \in {"autoadd", "device"} => seen.manual = prefs.manual /\ seen.rest = prefs.rest
           /\ Waiting /\ Head(todo) = "device" => seen.auto = prefs.auto /\ seen.hops = prefs.hops
      BY DEF IInv, PrefsInv
    <3>12. \A i \in DOMAIN replies' : Own(replies'[i]) => replies'[i].raw = prefs
      BY <1>5, <2>3
    <3>13. \A i \in DOMAIN late' : ~Own(late'[i])
      BY <1>9, <2>1 DEF NoOwn
    <3>14. result' = "none" /\ UNCHANGED todo
      BY <3>1, <3>9 DEF call
    <3>15. \A i \in DOMAIN replies' : Own(replies'[i]) /\ Head(todo') \in SetReads => replies'[i].raw = prefs'
      BY <3>7, <3>12, <3>14
    <3>16. /\ Waiting' /\ Second' => before' = was'
           /\ Waiting' /\ Head(todo') \in {"autoadd", "device"} => seen'.manual = prefs'.manual /\ seen'.rest = prefs'.rest
           /\ Waiting' /\ Head(todo') = "device" => seen'.auto = prefs'.auto /\ seen'.hops = prefs'.hops
      BY <3>7, <3>8, <3>9, <3>10 DEF call
    <3> QED BY <1>9, <3>4, <3>5, <3>6, <3>13, <3>14, <3>15, <3>16 DEF PrefsInv, Own
  <2> QED BY <1>10, <1>11, <1>12, <1>13, <2>4, <2>5 DEF IInv
<1> QED BY <1>14, <1>15

-----------------------------------------------------------------------------
(* A frame is taken for the reply.                                          *)

LEMMA ReplyTaken ==
  ASSUME IInv, pc = "reply", replies # << >>, Takes(Head(replies))
  PROVE  /\ misread' \in BOOLEAN /\ (misread => misread')
         /\ ~mixed => ~misread' /\ DOMAIN wire = {}
         /\ ~misread' =>
              /\ ~misread /\ Own(Head(replies)) /\ NoOwn(wire) /\ NoOwn(late)
              /\ \A i \in DOMAIN replies : Own(replies[i]) => i = 1
              /\ IF Head(todo) \in SetReads THEN Head(replies).code \in {Head(todo), "short", "err"}
                 ELSE /\ Head(replies).code \in {"ok", "long", "err"}
                      /\ Head(replies).code = "err" => applied \subseteq written
                      /\ Head(replies).code # "err" /\ ~ignored => Head(todo) \in applied
<1>1. Head(replies) = replies[1] /\ 1 \in DOMAIN replies /\ replies \in Seq(Answers)
  BY QueueTail DEF IInv, ValuesInv
<1>2. /\ misread' = (misread \/ Head(replies).call # calls)
      /\ Head(replies).code \in Expected \/ missed = 1
  BY DEF Takes
<1>3. misread \in BOOLEAN /\ calls > 0 /\ todo \in Plans
  BY DEF IInv, ValuesInv, PlanInv, Waiting
<1>4. misread' \in BOOLEAN /\ (misread => misread')
  BY <1>2, <1>3
<1>5. ASSUME ~misread'
      PROVE  /\ ~misread /\ Own(Head(replies)) /\ NoOwn(wire) /\ NoOwn(late)
             /\ \A i \in DOMAIN replies : Own(replies[i]) => i = 1
             /\ IF Head(todo) \in SetReads THEN Head(replies).code \in {Head(todo), "short", "err"}
                ELSE /\ Head(replies).code \in {"ok", "long", "err"}
                     /\ Head(replies).code = "err" => applied \subseteq written
                     /\ Head(replies).code # "err" /\ ~ignored => Head(todo) \in applied
  <2>1. ~misread /\ Own(replies[1])
    BY <1>1, <1>2, <1>3, <1>5 DEF Own
  <2>2. NoOwn(wire) /\ NoOwn(late)
    BY <1>1, <2>1 DEF IInv, OwnInv, NoOwn
  <2>3. \A i \in DOMAIN replies : Own(replies[i]) => i = 1
    BY <1>1, <2>1 DEF IInv, OwnInv, OneOwn
  <2>4. IF Head(todo) \in SetReads THEN replies[1].code \in {Head(todo), "short", "err"}
        ELSE /\ replies[1].code \in {"ok", "long", "err"}
             /\ replies[1].code = "err" => applied \subseteq written
             /\ replies[1].code # "err" /\ ~ignored => Head(todo) \in applied
    BY <1>1, <2>1 DEF IInv, OwnInv
  <2> QED BY <1>1, <2>1, <2>2, <2>3, <2>4
<1>6. ASSUME ~mixed
      PROVE  ~misread' /\ DOMAIN wire = {}
  <2>1. "other" \notin Expected
    <3>1. Head(todo) \in SetReads \cup SetWrites
      BY <1>3, PlanSteps
    <3> QED BY <3>1 DEF Expected, SetReads, SetWrites
  <2>2. Own(replies[1])
    BY <1>1, <1>2, <1>6, <2>1 DEF IInv, ConnInv
  <2>3. ~misread'
    BY <1>1, <1>2, <1>6, <2>2 DEF IInv, ConnInv, Waiting, Own
  <2>4. NoOwn(wire) /\ \A i \in DOMAIN wire : Own(wire[i])
    BY <1>5, <1>6, <2>3 DEF IInv, ConnInv
  <2> QED BY <2>3, <2>4 DEF NoOwn
<1> QED BY <1>4, <1>5, <1>6

(* What the two steps that read a reply have in common.                     *)
LEMMA ReplyKeeps ==
  ASSUME IInv, pc = "reply", replies # << >>, Consumes(Head(replies)),
         pc' \in {"idle", "send"}, missed' = 0, result' \in Statuses, holder' \in {"nobody", "settings"},
         seen' \in Preferences, before' \in Preferences, written' \subseteq SetWrites,
         pc' = "send" => Head(replies).call # 0,
         PlanInv', result' # "unknown",
         ~misread' => applied \subseteq written' /\ (~ignored => written' \subseteq applied),
         ~misread' /\ ~foreign =>
           /\ Waiting' /\ Second' => before' = was
           /\ Waiting' /\ Head(todo') \in {"autoadd", "device"} => seen'.manual = prefs.manual /\ seen'.rest = prefs.rest
           /\ Waiting' /\ Head(todo') = "device" => seen'.auto = prefs.auto /\ seen'.hops = prefs.hops
           /\ result' = "verified" => prefs = Desired(patch, was)
  PROVE  IInv'
<1>1. /\ replies' = Tail(replies) /\ Takes(Head(replies))
      /\ UNCHANGED <<wire, late, owes, link, prefs, patch, calls, events, was, applied, ignored, foreign, mixed>>
  BY DEF Consumes, Takes
<1>2. /\ replies' \in Seq(Answers) /\ Head(replies) = replies[1] /\ 1 \in DOMAIN replies
      /\ \A i \in DOMAIN replies' : i + 1 \in DOMAIN replies /\ i + 1 # 1 /\ replies'[i] = replies[i + 1]
      /\ \A i, j \in DOMAIN replies' : i + 1 = j + 1 => i = j
      /\ Debts(replies') = IF Head(replies).call # 0 THEN Debts(replies) - 1 ELSE Debts(replies)
  BY <1>1, RepliesShift
<1>3. /\ misread' \in BOOLEAN /\ (misread => misread')
      /\ ~mixed => ~misread' /\ DOMAIN wire = {}
      /\ ~misread' =>
           /\ ~misread /\ NoOwn(wire) /\ NoOwn(late)
           /\ \A i \in DOMAIN replies : Own(replies[i]) => i = 1
  BY <1>1, ReplyTaken
<1>4. ASSUME ~misread'
      PROVE  ~misread /\ NoOwn(wire)' /\ NoOwn(late)' /\ NoOwn(replies)'
  BY <1>1, <1>2, <1>3, <1>4 DEF NoOwn, Own
<1>5. ValuesInv'
  <2>1. \A i \in DOMAIN replies' :
             replies'[i].call \in 0..calls /\ (replies'[i].call = 0 => replies'[i].code \in {"err", "other"})
    BY <1>2 DEF IInv, ValuesInv
  <2>2. missed' \in 0..1 /\ pc' \in {"idle", "lock", "send", "reply"} /\ holder' \in {"nobody", "text", "settings"}
    OBVIOUS
  <2>3. UNCHANGED <<wire, late, owes, link, prefs, patch, calls, events, was, applied, ignored, foreign, mixed>>
    BY <1>1
  <2> QED BY <1>2, <1>3, <2>1, <2>2, <2>3 DEF IInv, ValuesInv
<1>6. DebtInv'
  BY <1>1, <1>2, Sizes DEF IInv, DebtInv
<1>7. OwnInv'
  <2> SUFFICES ASSUME ~misread' PROVE OwnInv'
    BY DEF OwnInv
  <2>1. ~Unknown' /\ pc' # "reply"
    BY DEF Unknown
  <2>2. applied' \subseteq written' /\ (~ignored' => written' \subseteq applied')
    BY <1>1
  <2> QED BY <1>4, <2>1, <2>2 DEF OwnInv, NoOwn, OneOwn
<1>8. PrefsInv'
  <2> SUFFICES ASSUME ~misread', ~foreign' PROVE PrefsInv'
    BY DEF PrefsInv
  <2>1. ~misread /\ ~foreign /\ NoOwn(late)' /\ NoOwn(replies)'
    BY <1>1, <1>4
  <2>2. /\ prefs = Halfway(applied) /\ ("manual" \in applied => AutoFirst)
        /\ Halfway(applied)' = Halfway(applied) /\ AutoFirst' = AutoFirst
    BY <1>1, <2>1 DEF IInv, PrefsInv, Halfway, AutoFirst
  <2> QED BY <1>1, <2>1, <2>2 DEF PrefsInv, NoOwn
<1>9. ConnInv'
  <2> SUFFICES ASSUME ~mixed PROVE ConnInv'
    BY <1>1 DEF ConnInv
  <2>1. ~misread' /\ DOMAIN wire' = {}
    BY <1>1, <1>3
  <2>2. \A i \in DOMAIN replies' : ~Own(replies'[i])
    BY <1>2, <1>3, <2>1
  <2>3. \A i \in DOMAIN replies' : Stale(replies'[i]) /\ replies'[i].code = "other"
    BY <1>2, <2>2 DEF IInv, ConnInv
  <2>4. \A i, j \in DOMAIN replies' : i = j
    BY <1>2, <2>3 DEF IInv, ConnInv
  <2> QED BY <2>1, <2>3, <2>4 DEF ConnInv, Stale
<1> QED BY <1>5, <1>6, <1>7, <1>8, <1>9 DEF IInv

LEMMA ReplyEnds ==
  ASSUME IInv, pc = "reply", replies # << >>, Consumes(Head(replies)),
         NEW status \in Statuses, status \notin {"none", "unknown"}, Finish(status), UNCHANGED written,
         status \in {"disconnected", "busy", "expired", "rejected", "unsupported"} => written = {},
         ~misread' => applied \subseteq written,
         status = "verified" /\ ~misread' /\ ~foreign => prefs = Desired(patch, was)
  PROVE  IInv'
<1>1. /\ pc' = "idle" /\ result' = status /\ holder' = "nobody"
      /\ todo' = << >> /\ seen' = Blank /\ before' = Blank /\ missed' = 0
  BY DEF Finish, IInv, PlanInv, Waiting
<1>2. UNCHANGED <<wire, link, patch>> /\ Takes(Head(replies))
  BY DEF Consumes, Takes
<1>3. misread => misread'
  BY <1>2, ReplyTaken
<1>4. ~misread' => (~ignored => written \subseteq applied)
  BY <1>3 DEF IInv, OwnInv
<1>5. PlanInv'
  BY <1>1, <1>2 DEF IInv, PlanInv, Waiting
<1>6. seen' \in Preferences /\ before' \in Preferences /\ written' \subseteq SetWrites /\ ~Waiting'
  BY <1>1, BlankType DEF Waiting, IInv, ValuesInv
<1> QED BY <1>1, <1>4, <1>5, <1>6, ReplyKeeps

LEMMA WriteReplyKeeps == ASSUME IInv, WriteReply PROVE IInv'
<1>1. /\ pc = "reply" /\ replies # << >> /\ Consumes(Head(replies)) /\ Head(todo) \in Range(Writes)
      /\ IF Head(replies).code = "err" THEN Finish(Stopped("rejected")) /\ UNCHANGED written
         ELSE written' = written \cup {Head(todo)} /\ Continue(Tail(todo), seen, before)
      /\ Head(replies).code \in {"ok", "err"}
  BY DEF WriteReply
<1>2. Takes(Head(replies)) /\ UNCHANGED <<wire, link, patch, prefs, applied>>
  BY <1>1 DEF Consumes, Takes
<1>3. Head(todo) \in SetWrites /\ Head(todo) \notin SetReads
  BY <1>1, CommandSets DEF SetReads, SetWrites
<1>4. ASSUME ~misread'
      PROVE  /\ ~misread
             /\ Head(replies).code = "err" => applied \subseteq written
             /\ Head(replies).code # "err" /\ ~ignored => Head(todo) \in applied
  BY <1>1, <1>2, <1>3, <1>4, ReplyTaken
<1>5. CASE Head(replies).code = "err"
  <2>1. Finish(Stopped("rejected")) /\ UNCHANGED written
    BY <1>1, <1>5
  <2>2. /\ Stopped("rejected") \in Statuses /\ Stopped("rejected") \notin {"none", "unknown", "verified"}
        /\ Stopped("rejected") \in {"disconnected", "busy", "expired", "rejected", "unsupported"} => written = {}
    BY DEF Stopped, Statuses
  <2> QED BY <1>1, <1>4, <1>5, <2>1, <2>2, ReplyEnds
<1>6. CASE Head(replies).code = "ok"
  <2>1. /\ written' = written \cup {Head(todo)} /\ pc' = "send" /\ todo' = Tail(todo)
        /\ seen' = seen /\ before' = before /\ missed' = 0 /\ UNCHANGED <<holder, result>>
    BY <1>1, <1>6 DEF Continue
  <2>2. /\ todo \in Plans /\ calls > 0 /\ holder = "settings" /\ result = "none" /\ link # "down"
        /\ (link # "up" => wire = << >>)
    BY <1>1 DEF IInv, PlanInv, Waiting
  <2>3. todo' \in Plans /\ \A c \in Range(todo) : c = Head(todo) \/ c \in Range(todo')
    BY <1>3, <2>1, <2>2, PlanSteps
  <2>4. Second /\ UNCHANGED <<patch, calls, before>>
    BY <1>2, <1>3, <2>1 DEF Second, Takes
  <2>5. \A w \in SetWrites : Desired(patch, before)[w] # before[w] => w \in written' \cup Range(todo')
    BY <1>1, <2>1, <2>3, <2>4 DEF IInv, PlanInv, Waiting
  <2>6. PlanInv'
    BY <1>2, <2>1, <2>2, <2>3, <2>4, <2>5 DEF PlanInv, Waiting
  <2>7. Head(replies).call # 0
    <3>1. Head(replies) = replies[1] /\ 1 \in DOMAIN replies
      BY <1>1, QueueTail DEF IInv, ValuesInv
    <3> QED BY <1>6, <3>1 DEF IInv, ValuesInv
  <2>8. /\ seen' \in Preferences /\ before' \in Preferences /\ written' \subseteq SetWrites
        /\ result' \in Statuses /\ holder' \in {"nobody", "settings"} /\ result' # "unknown"
    BY <1>3, <2>1, <2>2 DEF IInv, ValuesInv
  <2>9. ~misread' => applied \subseteq written' /\ (~ignored => written' \subseteq applied)
    <3> SUFFICES ASSUME ~misread' PROVE applied \subseteq written' /\ (~ignored => written' \subseteq applied)
      OBVIOUS
    <3>1. applied \subseteq written \cup {Head(todo)}
      BY <1>1, <1>3, <1>4 DEF IInv, OwnInv
    <3>2. ~ignored => written \subseteq applied /\ Head(todo) \in applied
      BY <1>4, <1>6 DEF IInv, OwnInv
    <3> QED BY <2>1, <3>1, <3>2
  <2>10. ~misread' /\ ~foreign => before' = was
    BY <1>1, <1>4, <2>1, <2>4 DEF IInv, PrefsInv, Waiting
  <2>11. ~misread' /\ ~foreign =>
           /\ Waiting' /\ Head(todo') \in {"autoadd", "device"} => seen'.manual = prefs.manual /\ seen'.rest = prefs.rest
           /\ Waiting' /\ Head(todo') = "device" => seen'.auto = prefs.auto /\ seen'.hops = prefs.hops
    <3>1. Head(todo') \notin {"autoadd", "device"}
      BY <1>3, <2>1, <2>2, AfterWrite
    <3> QED BY <3>1
  <2> QED BY <1>1, <2>1, <2>2, <2>6, <2>7, <2>8, <2>9, <2>10, <2>11, ReplyKeeps
<1> QED BY <1>1, <1>5, <1>6

LEMMA OddReplyKeeps == ASSUME IInv, OddReply PROVE IInv'
<1>1. /\ pc = "reply" /\ replies # << >> /\ Takes(Head(replies))
      /\ CloseSocket /\ Finish("unknown") /\ UNCHANGED written
  BY DEF OddReply
<1>2. misread' \in BOOLEAN /\ (misread => misread')
  BY <1>1, ReplyTaken
<1>3. UNCHANGED <<prefs, patch, written, calls, events, was, applied, ignored, foreign, mixed>>
  BY <1>1 DEF Takes
<1> QED BY <1>1, <1>2, <1>3, ClosedKeeps

(* The read of a pass that has more to read.                                *)
LEMMA ReadContinues ==
  ASSUME IInv, pc = "reply", replies # << >>, Consumes(Head(replies)), Head(todo) \in SetReads,
         UNCHANGED written, Head(replies).code = Head(todo), Len(todo) > 1,
         Continue(Tail(todo), Learnt(Head(replies).raw), before)
  PROVE  IInv'
<1> DEFINE raw == Head(replies).raw
<1>1. /\ pc' = "send" /\ todo' = Tail(todo) /\ seen' = Learnt(raw) /\ before' = before /\ missed' = 0
      /\ UNCHANGED <<holder, result>>
  BY DEF Continue
<1>2. Takes(Head(replies)) /\ UNCHANGED <<wire, link, patch, prefs, applied, calls>>
  BY DEF Consumes, Takes
<1>3. /\ todo \in Plans /\ calls > 0 /\ holder = "settings" /\ result = "none" /\ link # "down"
      /\ (link # "up" => wire = << >>)
  BY DEF IInv, PlanInv, Waiting
<1>4. Head(replies) = replies[1] /\ 1 \in DOMAIN replies /\ Head(replies) \in Answers
  BY QueueTail DEF IInv, ValuesInv
<1>5. raw \in Preferences /\ seen \in Preferences
  BY <1>4 DEF Answers, IInv, ValuesInv
<1>6. \/ Head(todo) = "info" /\ Head(todo') = "autoadd" /\ todo' \in Plans
      \/ Head(todo) = "autoadd" /\ Head(todo') = "device" /\ todo' \in Plans
  BY <1>1, <1>3, PlanSteps DEF SetReads
<1>7. /\ Head(todo) = "info" => seen' = [seen EXCEPT !.manual = raw.manual, !.rest = raw.rest]
      /\ Head(todo) = "autoadd" => seen' = [seen EXCEPT !.auto = raw.auto, !.hops = raw.hops]
  BY <1>1 DEF Learnt
<1>8. ASSUME ~misread' PROVE ~misread /\ Own(Head(replies))
  BY <1>2, <1>8, ReplyTaken
<1>9. Head(replies).call # 0
  BY <1>4 DEF IInv, ValuesInv, SetReads
<1> HIDE DEF raw
<1>10. /\ seen' \in Preferences
       /\ Head(todo) = "info" => seen'.manual = raw.manual /\ seen'.rest = raw.rest
       /\ Head(todo) = "autoadd" =>
            seen'.auto = raw.auto /\ seen'.hops = raw.hops /\ seen'.manual = seen.manual /\ seen'.rest = seen.rest
  BY <1>5, <1>6, <1>7 DEF Preferences
<1>11. SetWrites \cap Range(todo) = {} /\ Head(todo') \notin SetWrites /\ Head(todo) \notin SetWrites
  BY <1>3, <1>6, PlanSteps DEF SetWrites
<1>12. PlanInv'
  <2>1. Second' <=> Second
    BY <1>11 DEF Second
  <2>2. Second => \A w \in SetWrites : Desired(patch, before)[w] # before[w] => w \in written
    BY <1>11 DEF IInv, PlanInv, Waiting
  <2> QED BY <1>1, <1>2, <1>3, <1>6, <2>1, <2>2 DEF PlanInv, Waiting
<1>13. ~misread' => applied \subseteq written' /\ (~ignored => written' \subseteq applied)
  BY <1>8, <1>11 DEF IInv, OwnInv
<1>14. ASSUME ~misread', ~foreign
       PROVE  /\ Waiting' /\ Second' => before' = was
              /\ Waiting' /\ Head(todo') \in {"autoadd", "device"} => seen'.manual = prefs.manual /\ seen'.rest = prefs.rest
              /\ Waiting' /\ Head(todo') = "device" => seen'.auto = prefs.auto /\ seen'.hops = prefs.hops
  <2>1. ~misread /\ raw = prefs
    BY <1>4, <1>8, <1>14 DEF raw, IInv, PrefsInv
  <2>2. Waiting /\ (Second' => Second)
    BY <1>11 DEF Waiting, Second
  <2>3. Second => before = was
    BY <1>14, <2>1, <2>2 DEF IInv, PrefsInv
  <2>4. Head(todo) = "autoadd" => seen.manual = prefs.manual /\ seen.rest = prefs.rest
    BY <1>14, <2>1, <2>2 DEF IInv, PrefsInv
  <2> QED BY <1>1, <1>6, <1>10, <2>1, <2>2, <2>3, <2>4
<1>15. /\ before' \in Preferences /\ written' \subseteq SetWrites
       /\ result' \in Statuses /\ holder' \in {"nobody", "settings"} /\ result' \notin {"unknown", "verified"}
  BY <1>1, <1>3 DEF IInv, ValuesInv
<1> QED BY <1>1, <1>9, <1>10, <1>12, <1>13, <1>14, <1>15, ReplyKeeps

(* The last read of a pass: unless frames were mixed up or somebody else    *)
(* changes them, what was read is what the preferences are.                 *)
LEMMA ReadCompletes ==
  ASSUME IInv, pc = "reply", replies # << >>, Takes(Head(replies)), Head(todo) = "device",
         ~misread', ~foreign
  PROVE  /\ Learnt(Head(replies).raw) = prefs
         /\ written # {} => before = was
         /\ written = {} => prefs = was
<1>1. Head(replies) = replies[1] /\ 1 \in DOMAIN replies /\ Head(replies) \in Answers
  BY QueueTail DEF IInv, ValuesInv
<1>2. ~misread /\ Own(Head(replies)) /\ Waiting /\ Head(todo) \in SetReads /\ Head(todo) \notin SetWrites
  BY ReplyTaken DEF Waiting, SetReads, SetWrites
<1>3. Head(replies).raw = prefs
  BY <1>1, <1>2 DEF IInv, PrefsInv
<1>4. /\ seen.manual = prefs.manual /\ seen.rest = prefs.rest
      /\ seen.auto = prefs.auto /\ seen.hops = prefs.hops
  BY <1>2 DEF IInv, PrefsInv
<1>5. prefs \in Preferences /\ seen \in Preferences /\ was \in Preferences
  BY DEF IInv, ValuesInv
<1>6. Learnt(Head(replies).raw) = [seen EXCEPT !.mode = prefs.mode]
  BY <1>3 DEF Learnt
<1>7. Learnt(Head(replies).raw) = prefs
  <2>1. [seen EXCEPT !.mode = prefs.mode] \in Preferences
    BY <1>5 DEF Preferences
  <2> QED BY <1>4, <1>5, <1>6, <2>1, SamePreferences DEF Preferences
<1>8. written # {} => before = was
  BY <1>2 DEF IInv, PrefsInv, Second
<1>9. written = {} => prefs = was
  <2> SUFFICES ASSUME written = {} PROVE prefs = was
    OBVIOUS
  <2>1. applied = {}
    BY <1>2 DEF IInv, OwnInv
  <2>2. prefs = Halfway({})
    BY <1>2, <2>1 DEF IInv, PrefsInv
  <2>3. /\ prefs.auto = was.auto /\ prefs.manual = was.manual /\ prefs.mode = was.mode
        /\ prefs.rest = was.rest /\ prefs.hops = was.hops
    BY <2>2 DEF Halfway
  <2> QED BY <1>5, <2>3, SamePreferences
<1> QED BY <1>7, <1>8, <1>9

LEMMA ReadReplyKeeps == ASSUME IInv, ReadReply PROVE IInv'
<1>1. PICK read : read = Learnt(Head(replies).raw)
  OBVIOUS
<1>2. /\ pc = "reply" /\ replies # << >> /\ Consumes(Head(replies)) /\ Takes(Head(replies))
      /\ Head(todo) \in SetReads /\ UNCHANGED written
  BY CommandSets DEF ReadReply, Consumes
<1>3. \/ /\ Head(replies).code # Head(todo) /\ Finish(Stopped("unsupported"))
      \/ /\ Head(replies).code = Head(todo) /\ Len(todo) > 1 /\ Continue(Tail(todo), read, before)
      \/ /\ Head(replies).code = Head(todo) /\ ~(Len(todo) > 1)
         /\ IF written = {} /\ Changed(read) # << >>
              THEN Continue(Changed(read) \o Reads, Blank, read)
              ELSE Finish(Verdict(read, IF written = {} THEN read ELSE before))
  BY <1>1 DEF ReadReply
<1>4. UNCHANGED <<wire, link, patch, prefs, applied, calls>>
  BY <1>2 DEF Consumes, Takes
<1>5. /\ todo \in Plans /\ calls > 0 /\ holder = "settings" /\ result = "none" /\ link # "down"
      /\ (link # "up" => wire = << >>)
  BY <1>2 DEF IInv, PlanInv, Waiting
<1>6. Head(todo) \notin SetWrites
  BY <1>2 DEF SetReads, SetWrites
<1>7. ~misread' => ~misread /\ applied \subseteq written /\ (~ignored => written \subseteq applied)
  <2>1. ~misread' => ~misread
    BY <1>2, ReplyTaken
  <2> QED BY <1>2, <1>6, <2>1 DEF IInv, OwnInv
<1>8. CASE Head(replies).code # Head(todo) /\ Finish(Stopped("unsupported"))
  <2>1. /\ Stopped("unsupported") \in Statuses /\ Stopped("unsupported") \notin {"none", "unknown", "verified"}
        /\ Stopped("unsupported") \in {"disconnected", "busy", "expired", "rejected", "unsupported"} => written = {}
    BY DEF Stopped, Statuses
  <2> QED BY <1>2, <1>7, <1>8, <2>1, ReplyEnds
<1>9. CASE Head(replies).code = Head(todo) /\ Len(todo) > 1 /\ Continue(Tail(todo), read, before)
  BY <1>1, <1>2, <1>9, ReadContinues
<1>10. CASE /\ Head(replies).code = Head(todo) /\ ~(Len(todo) > 1)
            /\ IF written = {} /\ Changed(read) # << >>
                 THEN Continue(Changed(read) \o Reads, Blank, read)
                 ELSE Finish(Verdict(read, IF written = {} THEN read ELSE before))
  <2>1. Head(todo) = "device"
    BY <1>2, <1>5, <1>10, PlanSteps DEF SetReads
  <2>2. Head(replies) \in Answers /\ Head(replies) = replies[1] /\ 1 \in DOMAIN replies
    BY <1>2, QueueTail DEF IInv, ValuesInv
  <2>3. read \in Preferences
    <3>1. read = [seen EXCEPT !.mode = Head(replies).raw.mode]
      BY <1>1, <2>1 DEF Learnt
    <3> QED BY <2>2, <3>1 DEF Answers, Preferences, IInv, ValuesInv
  <2>4. ASSUME ~misread', ~foreign
        PROVE  read = prefs /\ (written # {} => before = was) /\ (written = {} => prefs = was)
    BY <1>1, <1>2, <2>1, <2>4, ReadCompletes
  <2>5. CASE written = {} /\ Changed(read) # << >>
    <3>1. /\ pc' = "send" /\ todo' = Changed(read) \o Reads /\ seen' = Blank /\ before' = read /\ missed' = 0
          /\ UNCHANGED <<holder, result>>
      BY <1>10, <2>5 DEF Continue
    <3>2. /\ todo' \in WritePlans /\ Head(todo') \in SetWrites
          /\ \A w \in SetWrites : Desired(patch, read)[w] # read[w] => w \in Range(todo')
      BY <2>3, <2>5, <3>1, ChangedPlan
    <3>3. PlanInv'
      BY <1>4, <1>5, <3>1, <3>2 DEF PlanInv, Waiting, Plans
    <3>4. Head(replies).call # 0
      BY <1>10, <2>1, <2>2 DEF IInv, ValuesInv
    <3>5. Head(todo') \notin {"autoadd", "device"}
      BY <3>2 DEF SetWrites
    <3>6. /\ seen' \in Preferences /\ before' \in Preferences /\ written' \subseteq SetWrites
          /\ result' \in Statuses /\ holder' \in {"nobody", "settings"} /\ result' \notin {"unknown", "verified"}
      BY <1>2, <1>5, <2>3, <3>1, BlankType DEF IInv, ValuesInv
    <3>7. ~misread' /\ ~foreign => before' = was
      BY <2>4, <2>5, <3>1
    <3>8. ~misread' => applied \subseteq written' /\ (~ignored => written' \subseteq applied)
      BY <1>2, <1>7
    <3> QED BY <1>2, <3>1, <3>3, <3>4, <3>5, <3>6, <3>7, <3>8, ReplyKeeps
  <2>6. CASE ~(written = {} /\ Changed(read) # << >>)
    <3>1. PICK first : first = IF written = {} THEN read ELSE before
      OBVIOUS
    <3>2. Finish(Verdict(read, first))
      BY <1>10, <2>6, <3>1
    <3>3. /\ Verdict(read, first) \in {"verified", "mismatch"}
          /\ Verdict(read, first) = "verified" => read = Desired(patch, first)
      BY DEF Verdict
    <3>4. Verdict(read, first) = "verified" /\ ~misread' /\ ~foreign => prefs = Desired(patch, was)
      BY <2>4, <3>1, <3>3
    <3>5. /\ Verdict(read, first) \in Statuses
          /\ Verdict(read, first) \notin {"none", "unknown", "disconnected", "busy", "expired", "rejected", "unsupported"}
      BY <3>3 DEF Statuses
    <3> QED BY <1>2, <1>7, <3>2, <3>4, <3>5, ReplyEnds
  <2> QED BY <2>5, <2>6
<1> QED BY <1>3, <1>8, <1>9, <1>10

-----------------------------------------------------------------------------
(* The invariant.                                                           *)

LEMMA InitInv == ASSUME Init PROVE IInv
<1>1. /\ prefs \in Possible /\ was = prefs /\ link = "up" /\ holder = "nobody" /\ pc = "idle" /\ result = "none"
      /\ wire = << >> /\ replies = << >> /\ late = << >> /\ owes = FALSE
      /\ patch = (CHOOSE p \in Patch : TRUE) /\ todo = << >> /\ written = {} /\ seen = Blank /\ before = Blank
      /\ missed = 0 /\ calls = 0 /\ events = 0
      /\ applied = {} /\ ignored = FALSE /\ foreign = FALSE /\ misread = FALSE /\ mixed = FALSE
  BY DEF Init
<1>2. DOMAIN wire = {} /\ DOMAIN replies = {} /\ DOMAIN late = {}
  BY <1>1
<1>3. MaxCalls \in Nat
  BY SettingsAssumption, LenProperties DEF MaxCalls
<1>4. ValuesInv
  <2>1. patch \in Patch
    <3>1. [autoAdd |-> {}, overwrite |-> {}, path |-> {}] \in Patch
      BY DEF Patch, Optional
    <3> QED BY <1>1, <3>1
  <2>2. prefs \in Preferences /\ was \in Preferences
    BY <1>1, PossibleAssumption
  <2>3. wire \in Seq(Frames) /\ late \in Seq(Frames) /\ replies \in Seq(Answers)
    BY <1>1
  <2>4. calls \in 0..MaxCalls /\ events \in 0..MaxEvents /\ missed \in 0..1
    BY <1>1, <1>3, SettingsAssumption
  <2>5. /\ \A i \in DOMAIN wire : wire[i].call \in 1..calls
        /\ \A i \in DOMAIN late : late[i].call \in 1..calls
        /\ \A i \in DOMAIN replies :
             replies[i].call \in 0..calls /\ (replies[i].call = 0 => replies[i].code \in {"err", "other"})
    BY <1>2
  <2>6. /\ link \in {"up", "dead", "down"} /\ holder \in {"nobody", "text", "settings"}
        /\ owes \in BOOLEAN /\ ignored \in BOOLEAN /\ foreign \in BOOLEAN /\ misread \in BOOLEAN /\ mixed \in BOOLEAN
        /\ pc \in {"idle", "lock", "send", "reply"}
        /\ written \subseteq SetWrites /\ applied \subseteq SetWrites /\ result \in Statuses
    BY <1>1 DEF Statuses
  <2> QED BY <1>1, <2>1, <2>2, <2>3, <2>4, <2>5, <2>6, BlankType DEF ValuesInv
<1>5. DebtInv
  <2>1. Len(wire) = 0 /\ Len(late) = 0 /\ Debts(replies) = 0
    BY <1>1, DebtsEmpty
  <2> QED BY <1>1, <2>1 DEF DebtInv
<1>6. PlanInv
  BY <1>1 DEF PlanInv, Waiting
<1>7. OwnInv
  BY <1>1, <1>2 DEF OwnInv, NoOwn, OneOwn, Unknown
<1>8. PrefsInv
  <2>1. prefs \in Preferences
    BY <1>1, PossibleAssumption
  <2>2. prefs = [auto |-> prefs.auto, manual |-> prefs.manual, mode |-> prefs.mode,
                 rest |-> prefs.rest, hops |-> prefs.hops]
    BY <2>1 DEF Preferences
  <2>3. prefs = Halfway(applied)
    BY <1>1, <2>2 DEF Halfway
  <2> QED BY <1>1, <1>2, <2>3 DEF PrefsInv, Waiting
<1>9. ConnInv
  BY <1>1, <1>2 DEF ConnInv, Waiting
<1> QED BY <1>4, <1>5, <1>6, <1>7, <1>8, <1>9 DEF IInv

LEMMA StutterKeeps == ASSUME IInv, UNCHANGED vars PROVE IInv'
<1>1. /\ UNCHANGED <<prefs, wire, replies, late, owes, link, holder, pc, result, calls, events, mixed>>
      /\ UNCHANGED <<patch, todo, written, seen, before, missed, was, applied, ignored, foreign, misread>>
  BY DEF vars, companion, call, ghosts
<1>2. ValuesInv'
  BY <1>1 DEF IInv, ValuesInv
<1>3. DebtInv'
  BY <1>1, DebtStays
<1>4. PlanInv'
  BY <1>1 DEF IInv, PlanInv, Waiting, Second
<1>5. OwnInv'
  BY <1>1 DEF IInv, OwnInv, Own, NoOwn, OneOwn, Unknown
<1>6. PrefsInv'
  BY <1>1 DEF IInv, PrefsInv, Own, Waiting, Second, Halfway, AutoFirst
<1>7. ConnInv'
  BY <1>1 DEF IInv, ConnInv, Own, Stale, Waiting
<1> QED BY <1>2, <1>3, <1>4, <1>5, <1>6, <1>7 DEF IInv

LEMMA StepInv == ASSUME IInv, [Next]_vars PROVE IInv'
<1>1. CASE Call BY <1>1, CallKeeps
<1>2. CASE Busy BY <1>2, BusyKeeps
<1>3. CASE TakeLock BY <1>3, TakeLockKeeps
<1>4. CASE Expired BY <1>4, ExpiredKeeps
<1>5. CASE Send BY <1>5, SendKeeps
<1>6. CASE Skip BY <1>6, SkipKeeps
<1>7. CASE ReadReply BY <1>7, ReadReplyKeeps
<1>8. CASE WriteReply BY <1>8, WriteReplyKeeps
<1>9. CASE OddReply BY <1>9, OddReplyKeeps
<1>10. CASE Uncertain BY <1>10, UncertainKeeps
<1>11. CASE CancelledWaiting BY <1>11, CancelledWaitingKeeps
<1>12. CASE Serve BY <1>12, ServeKeeps
<1>13. CASE ServeLate BY <1>13, ServeLateKeeps
<1>14. CASE OtherApp BY <1>14, OtherAppKeeps
<1>15. CASE TextBegins \/ TextEnds \/ Teardown BY <1>15, TextLockKeeps
<1>16. CASE TextReplyLate BY <1>16, TextReplyLateKeeps
<1>17. CASE PeerLost BY <1>17, PeerLostKeeps
<1>18. CASE Reconnect BY <1>18, ReconnectKeeps
<1>19. CASE Done \/ UNCHANGED vars BY <1>19, StutterKeeps DEF Done
<1> QED
  BY <1>1, <1>2, <1>3, <1>4, <1>5, <1>6, <1>7, <1>8, <1>9, <1>10, <1>11, <1>12, <1>13, <1>14, <1>15, <1>16,
     <1>17, <1>18, <1>19 DEF Next, Operate

(* The call holds the lock exactly while it has commands; until it takes    *)
(* another command's reply for its own, its commands are on the way,        *)
(* answered or lost one at a time; and the preferences are on the way from  *)
(* those the call found to those it wants.                                  *)
THEOREM SettingsInvariant == Spec => []IInv
<1>1. Init => IInv
  BY InitInv
<1>2. IInv /\ [Next]_vars => IInv'
  BY StepInv
<1> QED BY <1>1, <1>2, PTL DEF Spec

-----------------------------------------------------------------------------
(* What it means for those who use the settings page.                       *)

(* Every variable has the type its comment announces, and no more commands  *)
(* are left to closed connections than there were calls.                    *)
THEOREM TypesHold == Spec => []TypeOK
<1>1. ASSUME IInv PROVE TypeOK
  <2>1. Len(late) <= MaxCalls
    BY <1>1, Sizes DEF IInv, ValuesInv, DebtInv
  <2>2. Range(todo) \subseteq Commands
    <3>1. CASE todo = << >>
      BY <3>1 DEF Range
    <3>2. CASE todo \in Plans
      <4> DEFINE All == {"info", "autoadd", "device", "auto", "manual", "mode"}
      <4>1. \A plan \in Plans : plan \in Seq(All)
        <5>1. /\ <<"info", "autoadd", "device">> \in Seq(All) /\ <<"autoadd", "device">> \in Seq(All)
              /\ <<"device">> \in Seq(All)
          OBVIOUS
        <5>2. /\ <<"auto", "info", "autoadd", "device">> \in Seq(All)
              /\ <<"manual", "info", "autoadd", "device">> \in Seq(All)
              /\ <<"mode", "info", "autoadd", "device">> \in Seq(All)
          OBVIOUS
        <5>3. /\ <<"auto", "manual", "info", "autoadd", "device">> \in Seq(All)
              /\ <<"auto", "mode", "info", "autoadd", "device">> \in Seq(All)
              /\ <<"manual", "mode", "info", "autoadd", "device">> \in Seq(All)
          OBVIOUS
        <5>4. <<"auto", "manual", "mode", "info", "autoadd", "device">> \in Seq(All)
          OBVIOUS
        <5> HIDE DEF All
        <5> QED BY <5>1, <5>2, <5>3, <5>4 DEF Plans, ReadPlans, WritePlans
      <4>2. todo \in Seq(Commands)
        BY <3>2, <4>1, CommandSets DEF SetReads, SetWrites
      <4>3. \A i \in DOMAIN todo : todo[i] \in Commands
        BY <4>2, LenProperties, ElementOfSeq
      <4> QED BY <4>3 DEF Range
    <3> QED BY <1>1, <3>1, <3>2 DEF IInv, PlanInv
  <2>3. \A i \in DOMAIN wire : wire[i].command \in Commands
    <3>1. wire \in Seq(Frames)
      BY <1>1 DEF IInv, ValuesInv
    <3>2. \A i \in DOMAIN wire : wire[i] \in Frames
      BY <3>1, LenProperties, ElementOfSeq
    <3> QED BY <3>2 DEF Frames
  <2>4. \A i \in DOMAIN replies : replies[i].code \in Codes
    <3>1. replies \in Seq(Answers)
      BY <1>1 DEF IInv, ValuesInv
    <3>2. \A i \in DOMAIN replies : replies[i] \in Answers
      BY <3>1, LenProperties, ElementOfSeq
    <3> QED BY <3>2 DEF Answers
  <2> QED BY <1>1, <2>1, <2>2, <2>3, <2>4, CommandSets DEF TypeOK, IInv, ValuesInv
<1> QED BY <1>1, SettingsInvariant, PTL

(* "verified" is true: if nobody else changed the preferences and no reply  *)
(* was mistaken, they are what the patch makes of those the call found.     *)
THEOREM VerifiedHolds == Spec => []VerifiedIsTrue
<1>1. ASSUME IInv PROVE VerifiedIsTrue
  BY <1>1 DEF IInv, PrefsInv, VerifiedIsTrue
<1> QED BY <1>1, SettingsInvariant, PTL

(* Whatever fails or is carried out late, no flag, byte or policy but the   *)
(* ones the patch names has changed.                                        *)
THEOREM UntouchedHolds == Spec => []Untouched
<1>1. ASSUME IInv PROVE Untouched
  <2> SUFFICES ASSUME ~foreign, ~misread PROVE Untouched
    BY DEF Untouched
  <2>1. patch \in Patch /\ was \in Preferences /\ prefs = Halfway(applied)
    BY <1>1 DEF IInv, ValuesInv, PrefsInv
  <2>2. /\ prefs.rest = was.rest /\ prefs.hops = was.hops
        /\ prefs.auto \in {was.auto, DesiredAuto(patch, was.auto)}
        /\ prefs.manual \in {was.manual, DesiredManual(patch, was.manual)}
        /\ prefs.mode \in {was.mode, DesiredMode(patch, was.mode)}
    BY <2>1, DesiredProperties DEF Halfway
  <2>3. /\ DesiredManual(patch, was.manual) \ {0} = was.manual \ {0}
        /\ patch.autoAdd = {} => DesiredManual(patch, was.manual) = was.manual
    BY DEF DesiredManual
  <2>4. patch.path = {} => DesiredMode(patch, was.mode) = was.mode
    BY DEF DesiredMode
  <2>5. 0 \notin TypeBits
    BY DEF TypeBits
  <2>6. /\ DesiredAuto(patch, was.auto) \ (TypeBits \cup {0}) = was.auto \ (TypeBits \cup {0})
        /\ patch.overwrite = {} => DesiredAuto(patch, was.auto) \cap {0} = was.auto \cap {0}
    BY <2>5 DEF DesiredAuto
  <2>7. "none" \notin patch.autoAdd => DesiredAuto(patch, was.auto) \cap TypeBits = was.auto \cap TypeBits
    BY <2>5 DEF DesiredAuto
  <2> QED BY <2>2, <2>3, <2>4, <2>6, <2>7 DEF Untouched
<1> QED BY <1>1, SettingsInvariant, PTL

(* At no time is a policy in force that was neither the old one nor the one *)
(* asked for.                                                               *)
THEOREM NoPolicyPasses == Spec => []NoPassingPolicy
<1>1. ASSUME IInv PROVE NoPassingPolicy
  <2> SUFFICES ASSUME ~foreign, ~misread, ~ignored PROVE AutoAdd(prefs) \in {AutoAdd(was)} \cup patch.autoAdd
    BY DEF NoPassingPolicy
  <2>1. /\ patch \in Patch /\ was \in Preferences /\ prefs = Halfway(applied)
        /\ "manual" \in applied => AutoFirst
    BY <1>1 DEF IInv, ValuesInv, PrefsInv
  <2>2. patch.autoAdd \in {{}, {"all"}, {"none"}} /\ 0 \notin TypeBits
    BY <2>1 DEF Patch, Optional, TypeBits
  <2>3. /\ prefs.auto = IF "auto" \in applied THEN DesiredAuto(patch, was.auto) ELSE was.auto
        /\ prefs.manual = IF "manual" \in applied THEN DesiredManual(patch, was.manual) ELSE was.manual
    BY <2>1, DesiredProperties DEF Halfway
  <2>4. patch.autoAdd # {"none"} => DesiredAuto(patch, was.auto) \cap TypeBits = was.auto \cap TypeBits
    BY <2>2 DEF DesiredAuto
  <2>5. patch.autoAdd # {"none"} => prefs.auto \cap TypeBits = was.auto \cap TypeBits
    BY <2>3, <2>4
  <2>6. CASE patch.autoAdd = {}
    <3>1. prefs.manual = was.manual
      BY <2>3, <2>6 DEF DesiredManual
    <3>2. prefs.auto \cap TypeBits = was.auto \cap TypeBits
      BY <2>5, <2>6
    <3> QED BY <3>1, <3>2 DEF AutoAdd
  <2>7. CASE patch.autoAdd = {"all"}
    <3>1. prefs.auto \cap TypeBits = was.auto \cap TypeBits
      BY <2>5, <2>7
    <3>2. prefs.manual = was.manual \/ 0 \notin prefs.manual
      BY <2>3, <2>7 DEF DesiredManual
    <3> QED BY <2>7, <3>1, <3>2 DEF AutoAdd
  <2>8. CASE patch.autoAdd = {"none"}
    <3>1. DesiredAuto(patch, was.auto) \cap TypeBits = {}
      BY <2>2, <2>8 DEF DesiredAuto
    <3>2. CASE "manual" \in applied
      <4>1. prefs.auto = DesiredAuto(patch, was.auto)
        BY <2>1, <2>3, <3>2, DesiredProperties DEF AutoFirst
      <4>2. 0 \in prefs.manual
        BY <2>3, <2>8, <3>2 DEF DesiredManual
      <4> QED BY <2>8, <3>1, <4>1, <4>2 DEF AutoAdd
    <3>3. CASE "manual" \notin applied
      <4>1. prefs.manual = was.manual
        BY <2>3, <3>3
      <4>2. prefs.auto = was.auto \/ prefs.auto \cap TypeBits = {}
        BY <2>3, <3>1
      <4> QED BY <2>8, <4>1, <4>2 DEF AutoAdd
    <3> QED BY <3>2, <3>3
  <2> QED BY <2>2, <2>6, <2>7, <2>8
<1> QED BY <1>1, SettingsInvariant, PTL

(* A call says of itself what it did: nothing, exactly what it lists, or at *)
(* most one command more whose fate it does not know.                       *)
THEOREM CallIsHonest == Spec => []Honest
<1>1. ASSUME IInv PROVE Honest
  <2> SUFFICES ASSUME ~misread, ~ignored PROVE Honest
    BY DEF Honest
  <2>1. written \subseteq applied /\ (result # "none" => pc = "idle")
    BY <1>1 DEF IInv, OwnInv, PlanInv
  <2>2. result \notin {"none", "unknown"} => applied = written
    BY <1>1, <2>1 DEF IInv, OwnInv, Unknown
  <2>3. result \in {"disconnected", "busy", "expired", "rejected", "unsupported"} => written = {}
    BY <1>1, <2>1 DEF IInv, PlanInv
  <2>4. ASSUME result = "unknown" PROVE Cardinality(applied \ written) <= 1
    <3>1. PICK last \in SetWrites : applied \subseteq written \cup {last}
      BY <1>1, <2>1, <2>4 DEF IInv, OwnInv, Unknown
    <3>2. applied \ written \in {{}, {last}}
      BY <3>1
    <3>3. Cardinality({}) = 0 /\ Cardinality({last}) = 1
      BY FS_EmptySet, FS_Singleton
    <3> QED BY <3>2, <3>3
  <2> QED BY <2>1, <2>2, <2>3, <2>4 DEF Honest
<1> QED BY <1>1, SettingsInvariant, PTL

(* A call mistakes another command's reply for its own only on a connection *)
(* where a send_text was refused late or two late replies came in a row.    *)
THEOREM RepliesAreOwn == Spec => OwnReplies
<1>1. ASSUME IInv, [Next]_vars PROVE [misread' /\ ~misread => mixed]_vars
  <2> SUFFICES ASSUME Next, misread', ~misread PROVE mixed
    BY <1>1
  <2>1. misread' # misread
    BY <1>1 DEF IInv, ValuesInv
  <2>2. CASE Operate
    <3>1. CASE Busy \/ TakeLock \/ Expired \/ Send \/ Skip
      BY <2>1, <3>1 DEF Busy, TakeLock, Expired, Send, Skip, ghosts
    <3>2. CASE ReadReply \/ WriteReply \/ OddReply
      <4>1. pc = "reply" /\ replies # << >> /\ Takes(Head(replies))
        BY <3>2 DEF ReadReply, WriteReply, OddReply, Consumes
      <4> QED BY <1>1, <4>1, ReplyTaken
    <3> QED BY <2>2, <3>1, <3>2 DEF Operate
  <2>3. CASE Call
    BY <2>3 DEF Call
  <2>4. CASE Uncertain \/ CancelledWaiting \/ OtherApp \/ Done \/ Reconnect
    BY <2>1, <2>4 DEF Uncertain, CancelledWaiting, OtherApp, Done, Reconnect, ghosts, vars
  <2>5. CASE Serve \/ ServeLate
    BY <2>1, <2>5 DEF Serve, ServeLate
  <2>6. CASE TextBegins \/ TextEnds \/ TextReplyLate \/ PeerLost \/ Teardown
    BY <2>1, <2>6 DEF TextBegins, TextEnds, TextReplyLate, PeerLost, Teardown, ghosts
  <2> QED BY <2>2, <2>3, <2>4, <2>5, <2>6 DEF Next
<1> QED BY <1>1, SettingsInvariant, PTL DEF Spec, OwnReplies

=============================================================================
