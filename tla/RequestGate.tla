---------------------------- MODULE RequestGate ----------------------------
(***************************************************************************)
(* What the admission of requests promises (README.md, config.json): the   *)
(* bridge starts work for a message unless it has started work for the     *)
(* same message within the last Ttl, has MaxPending requests unfinished,   *)
(* or has started its limit of requests, from anybody or from this sender, *)
(* within the last Window.  Nothing else is remembered of a message.       *)
(***************************************************************************)
EXTENDS Naturals, FiniteSets

CONSTANTS Senders, Texts,
          PerSender, Global, MaxPending,
          Window, Ttl     \* in ticks of the clock

VARIABLES
  log,       \* the requests admitted lately: [msg, age]
  running,   \* how many of the admitted requests are unfinished
  verdict    \* what became of the latest message

gateVars == <<log, running, verdict>>

Messages == [sender : Senders, text : Texts]
Verdicts == {"none", "admitted", "duplicate", "full", "limited"}
Horizon  == IF Ttl > Window THEN Ttl ELSE Window

Started(within)      == {e \in log : e.age < within}
StartedBy(s, within) == {e \in Started(within) : e.msg.sender = s}
Repeated(m) == \E e \in Started(Ttl) : e.msg = m
RateFull(s) == \/ Cardinality(Started(Window)) >= Global
               \/ Cardinality(StartedBy(s, Window)) >= PerSender

Init == log = {} /\ running = 0 /\ verdict = "none"

Arrive(m) ==
  \/ /\ Repeated(m)
     /\ verdict' = "duplicate" /\ UNCHANGED <<log, running>>
  \/ /\ ~Repeated(m) /\ running >= MaxPending
     /\ verdict' = "full" /\ UNCHANGED <<log, running>>
  \/ /\ ~Repeated(m) /\ running < MaxPending /\ RateFull(m.sender)
     /\ verdict' = "limited" /\ UNCHANGED <<log, running>>
  \/ /\ ~Repeated(m) /\ running < MaxPending /\ ~RateFull(m.sender)
     /\ verdict' = "admitted"
     /\ log' = log \cup {[msg |-> m, age |-> 0]}
     /\ running' = running + 1

Finish == running > 0 /\ running' = running - 1 /\ UNCHANGED <<log, verdict>>

Pass ==
  /\ log' = {[e EXCEPT !.age = @ + 1] : e \in Started(Horizon - 1)}
  /\ UNCHANGED <<running, verdict>>

Next == Pass \/ Finish \/ \E m \in Messages : Arrive(m)

Spec == Init /\ [][Next]_gateVars

(* No stretch of Window holds more than Global starts, or more than         *)
(* PerSender of one sender.                                                 *)
WindowBound ==
  /\ Cardinality(Started(Window)) <= Global
  /\ \A s \in Senders : Cardinality(StartedBy(s, Window)) <= PerSender

(* No message is answered twice within Ttl.                                 *)
AnsweredOnce ==
  \A d, e \in Started(Ttl) : d.msg = e.msg => d = e
=============================================================================
