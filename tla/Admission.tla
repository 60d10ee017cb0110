----------------------------- MODULE Admission -----------------------------
(***************************************************************************)
(* BridgeService._dispatch_message, main.py, with its DuplicateCache and   *)
(* its RequestRateLimiter: which incoming messages become a task.          *)
(*                                                                         *)
(* Time is a number of ticks.  A stored time is kept as its age, so that   *)
(* the clock itself needs no variable and no bound: the limiter's `now`    *)
(* has age 0 and `now - window` age Window; a cache entry, stored as the   *)
(* time it expires at, is kept as the time since it was added.             *)
(***************************************************************************)
EXTENDS Naturals, Sequences, FiniteSetsExt

CONSTANTS Senders, Texts,
          PerSender, Global, MaxPending,
          Window, Ttl

(* config.py, _validate. *)
ASSUME LimitAssumption ==
  /\ PerSender \in Nat \ {0} /\ Global \in Nat \ {0} /\ MaxPending \in Nat \ {0}
  /\ PerSender <= Global
  /\ Window \in Nat \ {0} /\ Ttl \in Nat \ {0}

VARIABLES
  seen,       \* DuplicateCache._data: message -> age of its entry
  global,     \* RequestRateLimiter._global: ages, oldest first
  senders,    \* RequestRateLimiter._senders: sender -> ages, oldest first
  inflight,   \* how many tasks _inflight holds
  log,        \* ghost: the messages admitted lately: [msg, age]
  verdict     \* ghost: what became of the latest message

limiterVars == <<global, senders>>
vars == <<seen, limiterVars, inflight, log, verdict>>

Gate == INSTANCE RequestGate WITH running <- inflight

Messages == [sender : Senders, text : Texts]

(* Every variable has the type its comment announces. *)
TypeOK ==
  /\ DOMAIN seen \subseteq Messages /\ seen \in [DOMAIN seen -> 0..Ttl]
  /\ global \in Seq(0..Window)
  /\ DOMAIN senders \subseteq Senders /\ senders \in [DOMAIN senders -> Seq(0..Window)]
  /\ inflight \in 0..MaxPending
  /\ log \subseteq [msg : Messages, age : 0..(Gate!Horizon - 1)]
  /\ verdict \in Gate!Verdicts

Init ==
  /\ seen = << >> /\ global = << >> /\ senders = << >>
  /\ inflight = 0
  /\ log = {} /\ verdict = "none"

-----------------------------------------------------------------------------
(* DuplicateCache.                                                          *)
Fresh == {m \in DOMAIN seen : seen[m] < Ttl}
PrunedCache == [m \in Fresh |-> seen[m]]
WithEntry(cache, m) == [n \in DOMAIN cache \cup {m} |-> IF n = m THEN 0 ELSE cache[n]]

(* RequestRateLimiter: _prune, and what allow() works with after pruning.   *)
Prune(events) ==
  LET recent == {i \in DOMAIN events : events[i] < Window}
  IN IF recent = {} THEN << >> ELSE SubSeq(events, Min(recent), Len(events))
KeepsEmpty == [s \in DOMAIN senders |-> Prune(senders[s])]  \* mutant of PrunedSenders
PrunedSenders ==
  [s \in {t \in DOMAIN senders : Prune(senders[t]) # << >>} |-> Prune(senders[s])]
EventsOf(s) == IF s \in DOMAIN PrunedSenders THEN PrunedSenders[s] ELSE << >>
WithEvents(s, events) ==
  [t \in DOMAIN PrunedSenders \cup {s} |-> IF t = s THEN events ELSE PrunedSenders[t]]
Room(s) == Len(Prune(global)) < Global /\ Len(EventsOf(s)) < PerSender

-----------------------------------------------------------------------------
(* _dispatch_message.  Messages that are not text, are blank or come from a *)
(* sender that is not allowed return before anything is touched.            *)

DropDuplicate(m) ==
  /\ m \in Fresh
  /\ seen' = PrunedCache
  /\ verdict' = "duplicate"
  /\ UNCHANGED <<limiterVars, inflight, log>>

DropFull(m) ==
  /\ m \notin Fresh /\ inflight >= MaxPending
  /\ seen' = PrunedCache
  /\ verdict' = "full"
  /\ UNCHANGED <<limiterVars, inflight, log>>

(* A refused request leaves its sender's deque behind, maybe empty.         *)
DropLimitedRemembers(m) ==  \* mutant of DropLimited: seen() in place of contains()
  /\ m \notin Fresh /\ inflight < MaxPending /\ ~Room(m.sender)
  /\ seen' = WithEntry(PrunedCache, m)
  /\ global' = Prune(global)
  /\ senders' = WithEvents(m.sender, EventsOf(m.sender))
  /\ verdict' = "limited"
  /\ UNCHANGED <<inflight, log>>
DropLimited(m) ==
  /\ m \notin Fresh /\ inflight < MaxPending /\ ~Room(m.sender)
  /\ seen' = PrunedCache
  /\ global' = Prune(global)
  /\ senders' = WithEvents(m.sender, EventsOf(m.sender))
  /\ verdict' = "limited"
  /\ UNCHANGED <<inflight, log>>

AdmitOneMore(m) ==  \* mutant of Admit: > in place of >=
  /\ m \notin Fresh /\ inflight <= MaxPending /\ Room(m.sender)
  /\ seen' = WithEntry(PrunedCache, m)
  /\ global' = Append(Prune(global), 0)
  /\ senders' = WithEvents(m.sender, Append(EventsOf(m.sender), 0))
  /\ inflight' = inflight + 1
  /\ log' = log \cup {[msg |-> m, age |-> 0]}
  /\ verdict' = "admitted"
Admit(m) ==
  /\ m \notin Fresh /\ inflight < MaxPending /\ Room(m.sender)
  /\ seen' = WithEntry(PrunedCache, m)
  /\ global' = Append(Prune(global), 0)
  /\ senders' = WithEvents(m.sender, Append(EventsOf(m.sender), 0))
  /\ inflight' = inflight + 1
  /\ log' = log \cup {[msg |-> m, age |-> 0]}
  /\ verdict' = "admitted"

(* _finish_task, the done callback of a message task.                       *)
FinishTask ==
  /\ inflight > 0
  /\ inflight' = inflight - 1
  /\ UNCHANGED <<seen, limiterVars, log, verdict>>

(* Time passes; whatever is past its limit ages no further.                 *)
Older(events) == [i \in DOMAIN events |-> IF events[i] < Window THEN events[i] + 1 ELSE Window]
Tick ==
  /\ seen' = [m \in DOMAIN seen |-> IF seen[m] < Ttl THEN seen[m] + 1 ELSE Ttl]
  /\ global' = Older(global)
  /\ senders' = [s \in DOMAIN senders |-> Older(senders[s])]
  /\ Gate!Pass
  /\ UNCHANGED <<inflight, verdict>>

Dispatch(m) == DropDuplicate(m) \/ DropFull(m) \/ DropLimited(m) \/ Admit(m)
Next == Tick \/ FinishTask \/ \E m \in Messages : Dispatch(m)
Spec == Init /\ [][Next]_vars

-----------------------------------------------------------------------------
(* The cache and the limiter together decide exactly as RequestGate says:   *)
(* every admitted request keeps to the limits, and every refused one would  *)
(* have broken one of them; in particular a refused message is not          *)
(* remembered, so its sender may repeat it later.                           *)
GateSpec == Gate!Spec

(* The limits hold, of starts and of memory: no stretch of the window,     *)
(* wherever it starts, holds more than they allow; and however many senders *)
(* there are, the limiter keeps a deque for at most Global of them, and one *)
(* more for a sender it has just refused.                                   *)
LimitsHold == Gate!WindowBound /\ Cardinality(DOMAIN senders) <= Global + 1
=============================================================================
