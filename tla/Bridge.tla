------------------------------- MODULE Bridge -------------------------------
(***************************************************************************)
(* BridgeService, main.py: what becomes of an admitted message.  Every     *)
(* message is a task of its own, _handle_message, that takes one of        *)
(* MaxConcurrent slots (an asyncio.Semaphore), asks NOMAD or clears the    *)
(* sender's memory, and answers through _send_text, which lets one task at *)
(* a time talk to the Companion, paced over all of them.  _shutdown waits  *)
(* for the tasks, then cancels them.  Which messages are admitted is in    *)
(* Admission; here one may arrive whenever a member of Tasks is free.      *)
(*                                                                         *)
(* Times are kept as the number of ticks left, so the clock needs no       *)
(* variable and no bound.                                                  *)
(***************************************************************************)
EXTENDS Naturals, Sequences, SequencesExt, FiniteSets

CONSTANTS
  Tasks,           \* places in _inflight: max_pending_requests of them
  MaxConcurrent,   \* max_concurrent_requests
  BusyWaits,       \* settings of busy_wait_seconds, in ticks
  Delay,           \* reply_chunk_delay_seconds, in ticks
  MaxChunks        \* max_reply_chunks

ASSUME SettingsAssumption ==
  /\ IsFiniteSet(Tasks)
  /\ MaxConcurrent \in Nat \ {0} /\ MaxConcurrent <= Cardinality(Tasks)
  /\ BusyWaits \subseteq Nat /\ Delay \in Nat /\ MaxChunks \in Nat \ {0}

VARIABLES
  phase,     \* where each task is suspended, "free" when it is not in _inflight
  work,      \* what each task is to do, and then what it is to send
  left,      \* how many chunks each task has left after the one it is sending
  patience,  \* time left of each task's wait for a slot
  free,      \* value of the semaphore
  waiters,   \* tasks queued on the semaphore
  line,      \* tasks queued on _send_lock; the first one holds it
  gap,       \* time left until _next_send_at
  main,      \* where run() is
  busyWait,  \* the setting in force
  quiet      \* ghost: time since the last send ended, as far as Delay

taskVars == <<phase, work, left, patience>>
vars == <<taskVars, free, waiters, line, gap, main, busyWait, quiet>>

Phases == {"free", "new", "slot", "granted", "ask", "reset", "line", "pace", "send", "done"}
Requests == {"ask", "reset", "too_long"}
Replies == {"too_long", "busy", "cleared", "unavailable", "chunk"}

(* The finally of _handle_message releases the slot after the notices that  *)
(* are sent inside the try, and before the chunks of an answer.             *)
Sending(t) == phase[t] \in {"line", "pace", "send"}
HoldsSlot(t) == \/ phase[t] \in {"granted", "ask", "reset"}
                \/ Sending(t) /\ work[t] \in {"cleared", "unavailable"}

(* Every variable has the type its comment announces. *)
TypeOK ==
  /\ phase \in [Tasks -> Phases]
  /\ work \in [Tasks -> Requests \cup Replies]
  /\ left \in [Tasks -> 0..(MaxChunks - 1)]
  /\ patience \in [Tasks -> {0} \cup UNION {0..wait : wait \in BusyWaits}]
  /\ free \in 0..MaxConcurrent
  /\ waiters \in Seq(Tasks) /\ line \in Seq(Tasks)
  /\ gap \in 0..Delay /\ quiet \in 0..Delay
  /\ main \in {"run", "drain", "reap", "closed"} /\ busyWait \in BusyWaits

Init ==
  /\ phase = [t \in Tasks |-> "free"]
  /\ work = [t \in Tasks |-> "ask"]
  /\ left = [t \in Tasks |-> 0]
  /\ patience = [t \in Tasks |-> 0]
  /\ free = MaxConcurrent
  /\ waiters = << >> /\ line = << >>
  /\ gap = 0 /\ quiet = Delay
  /\ main = "run"
  /\ busyWait \in BusyWaits

-----------------------------------------------------------------------------
(* asyncio.Semaphore and asyncio.Lock (external): both serve in turn, and a *)
(* released slot passes straight to the first waiter.                       *)

Locked == free = 0 \/ waiters # << >>
Without(queue, t) == RemoveFirst(queue, t)

Move(t, where) == phase' = [phase EXCEPT ![t] = where]
ReleaseSlot(t, where) ==
  IF waiters = << >>
    THEN /\ Move(t, where)
         /\ free' = free + 1 /\ UNCHANGED waiters
    ELSE /\ phase' = [phase EXCEPT ![t] = where, ![Head(waiters)] = "granted"]
         /\ waiters' = Tail(waiters) /\ UNCHANGED free
KeepSlot(t, where) == Move(t, where) /\ UNCHANGED <<free, waiters>>

(* The task ends; its finally gives back the slot it may have.              *)
Drop(t) == work' = [work EXCEPT ![t] = "ask"] /\ left' = [left EXCEPT ![t] = 0]
EndLeaks(t) == KeepSlot(t, "done") /\ Drop(t)  \* mutant of End: a notice that fails keeps the slot
End(t) ==
  /\ IF HoldsSlot(t) THEN ReleaseSlot(t, "done") ELSE KeepSlot(t, "done")
  /\ Drop(t)

(* _send_text, up to the wait for _send_lock.                               *)
Say(t, reply) == work' = [work EXCEPT ![t] = reply] /\ line' = Append(line, t)

(* A task proceeds normally until it is cancelled.                          *)
Runs == main \in {"run", "drain"}

-----------------------------------------------------------------------------
(* _dispatch_message hands over a message, _finish_task sees its task end.  *)

Deliver(t) ==
  /\ main = "run" /\ phase[t] = "free"
  /\ Move(t, "new")
  /\ \E request \in Requests : work' = [work EXCEPT ![t] = request]
  /\ UNCHANGED <<left, patience, free, waiters, line, gap, main, busyWait, quiet>>

FinishTask(t) ==
  /\ phase[t] = "done"
  /\ Move(t, "free")
  /\ UNCHANGED <<work, left, patience, free, waiters, line, gap, main, busyWait, quiet>>

-----------------------------------------------------------------------------
(* _handle_message.                                                         *)

TooLong(t) ==
  /\ Runs /\ phase[t] = "new" /\ work[t] = "too_long"
  /\ Say(t, "too_long") /\ Move(t, "line")
  /\ UNCHANGED <<left, patience, free, waiters, gap, main, busyWait, quiet>>

(* busy_wait_seconds = 0: no waiting.                                       *)
BusyNow(t) ==
  /\ Runs /\ phase[t] = "new" /\ work[t] # "too_long"
  /\ busyWait = 0 /\ Locked
  /\ Say(t, "busy") /\ Move(t, "line")
  /\ UNCHANGED <<left, patience, free, waiters, gap, main, busyWait, quiet>>

TakeSlot(t) ==
  /\ Runs /\ phase[t] = "new" /\ work[t] # "too_long" /\ ~Locked
  /\ free' = free - 1
  /\ Move(t, work[t])
  /\ UNCHANGED <<work, left, patience, waiters, line, gap, main, busyWait, quiet>>

WaitForSlot(t) ==
  /\ Runs /\ phase[t] = "new" /\ work[t] # "too_long"
  /\ busyWait > 0 /\ Locked
  /\ waiters' = Append(waiters, t)
  /\ patience' = [patience EXCEPT ![t] = busyWait]
  /\ Move(t, "slot")
  /\ UNCHANGED <<work, left, free, line, gap, main, busyWait, quiet>>

SlotGranted(t) ==
  /\ Runs /\ phase[t] = "granted"
  /\ Move(t, work[t])
  /\ patience' = [patience EXCEPT ![t] = 0]
  /\ UNCHANGED <<work, left, free, waiters, line, gap, main, busyWait, quiet>>

(* The timeout of wait_for also wins over a slot granted in the same turn   *)
(* of the event loop: Semaphore.acquire then gives it back.                 *)
SlotTimeout(t) ==
  /\ Runs /\ patience[t] = 0
  /\ \/ phase[t] = "slot" /\ waiters' = Without(waiters, t) /\ Move(t, "line") /\ UNCHANGED free
     \/ phase[t] = "granted" /\ ReleaseSlot(t, "line")
  /\ Say(t, "busy")
  /\ UNCHANGED <<left, patience, gap, main, busyWait, quiet>>

NomadAnswersLong(t) ==  \* mutant of NomadAnswers: one chunk more than max_reply_chunks
  /\ Runs /\ phase[t] = "ask"
  /\ ReleaseSlot(t, "line") /\ Say(t, "chunk")
  /\ \E chunks \in 1..MaxChunks : left' = [left EXCEPT ![t] = chunks]
  /\ UNCHANGED <<patience, gap, main, busyWait, quiet>>
NomadAnswers(t) ==
  /\ Runs /\ phase[t] = "ask"
  /\ ReleaseSlot(t, "line")
  /\ Say(t, "chunk")
  /\ \E chunks \in 1..MaxChunks : left' = [left EXCEPT ![t] = chunks - 1]
  /\ UNCHANGED <<patience, gap, main, busyWait, quiet>>

(* Still inside the try: the slot is kept until the notice has been sent.   *)
NomadFails(t) ==
  /\ Runs /\ phase[t] = "ask"
  /\ Say(t, "unavailable") /\ KeepSlot(t, "line")
  /\ UNCHANGED <<left, patience, gap, main, busyWait, quiet>>

(* An error other than NomadUnavailable ends the task.                      *)
NomadRaises(t) ==
  /\ Runs /\ phase[t] = "ask"
  /\ End(t)
  /\ UNCHANGED <<patience, line, gap, main, busyWait, quiet>>

Cleared(t) ==
  /\ Runs /\ phase[t] = "reset"
  /\ Say(t, "cleared") /\ KeepSlot(t, "line")
  /\ UNCHANGED <<left, patience, gap, main, busyWait, quiet>>

-----------------------------------------------------------------------------
(* _send_text.                                                              *)

TakeTurn(t) ==
  /\ Runs /\ phase[t] = "line" /\ Head(line) = t
  /\ Move(t, IF gap > 0 THEN "pace" ELSE "send")
  /\ UNCHANGED <<work, left, patience, free, waiters, line, gap, main, busyWait, quiet>>

PaceOver(t) ==
  /\ Runs /\ phase[t] = "pace" /\ gap = 0
  /\ Move(t, "send")
  /\ UNCHANGED <<work, left, patience, free, waiters, line, gap, main, busyWait, quiet>>

(* MeshCoreClient.send_text returns True or False, or raises.  Only an      *)
(* accepted chunk is followed by the next one.                              *)
PacedIfAccepted(result) ==  \* mutant of Paced: only an accepted send is paced
  gap' = (IF result = "accepted" THEN Delay ELSE gap) /\ quiet' = 0
Paced(result) == gap' = Delay /\ quiet' = 0
SendEndsHolding(t) ==  \* mutant of SendEnds: acquire() and release() without a finally
  /\ Runs /\ phase[t] = "send"
  /\ \E result \in {"accepted", "raised"} :
       /\ Paced(result) /\ End(t)
       /\ line' = IF result = "raised" THEN line ELSE Tail(line)
  /\ UNCHANGED <<patience, main, busyWait>>
SendEnds(t) ==
  /\ Runs /\ phase[t] = "send"
  /\ \E result \in {"accepted", "refused", "raised"} :
       /\ Paced(result)
       /\ IF work[t] = "chunk" /\ result = "accepted" /\ left[t] > 0
            THEN /\ left' = [left EXCEPT ![t] = @ - 1]
                 /\ KeepSlot(t, "line")
                 /\ line' = Append(Tail(line), t) /\ UNCHANGED work
            ELSE /\ End(t)
                 /\ line' = Tail(line)
  /\ UNCHANGED <<patience, main, busyWait>>

-----------------------------------------------------------------------------
(* run and _shutdown.                                                       *)

Over == \A t \in Tasks : phase[t] \in {"free", "done"}

RunReturns ==
  /\ main = "run" /\ main' = "drain"
  /\ UNCHANGED <<taskVars, free, waiters, line, gap, busyWait, quiet>>

(* Ten seconds are over: the unfinished tasks are cancelled and awaited.    *)
GraceOver ==
  /\ main = "drain" /\ ~Over
  /\ main' = "reap"
  /\ UNCHANGED <<taskVars, free, waiters, line, gap, busyWait, quiet>>

Close ==
  /\ main \in {"drain", "reap"} /\ Over
  /\ main' = "closed"
  /\ UNCHANGED <<taskVars, free, waiters, line, gap, busyWait, quiet>>

Cancelled(t) ==
  /\ main = "reap" /\ phase[t] \notin {"free", "done"}
  /\ IF phase[t] = "slot"
       THEN Move(t, "done") /\ Drop(t) /\ waiters' = Without(waiters, t) /\ UNCHANGED free
       ELSE End(t)
  /\ line' = Without(line, t)
  /\ IF phase[t] = "send" THEN gap' = Delay /\ quiet' = 0 ELSE UNCHANGED <<gap, quiet>>
  /\ patience' = [patience EXCEPT ![t] = 0]
  /\ UNCHANGED <<main, busyWait>>

Less(n) == IF n > 0 THEN n - 1 ELSE 0
Tick ==
  /\ gap' = Less(gap)
  /\ quiet' = IF quiet < Delay THEN quiet + 1 ELSE Delay
  /\ patience' = [t \in Tasks |-> Less(patience[t])]
  /\ UNCHANGED <<phase, work, left, free, waiters, line, main, busyWait>>

Terminated == main = "closed" /\ UNCHANGED vars

TaskStep(t) ==
  \/ TooLong(t) \/ BusyNow(t) \/ TakeSlot(t) \/ WaitForSlot(t) \/ SlotGranted(t) \/ SlotTimeout(t)
  \/ NomadAnswers(t) \/ NomadFails(t) \/ NomadRaises(t) \/ Cleared(t)
  \/ TakeTurn(t) \/ PaceOver(t) \/ SendEnds(t) \/ Cancelled(t) \/ FinishTask(t)

Next ==
  \/ Tick \/ RunReturns \/ GraceOver \/ Close \/ Terminated
  \/ \E t \in Tasks : Deliver(t) \/ TaskStep(t)

Spec == Init /\ [][Next]_vars

(* Time passes, NOMAD's deadline and the client's timeouts end every await, *)
(* and a runnable task is run.  Nothing makes messages or a stop arrive.    *)
FairSpec ==
  /\ Spec
  /\ WF_vars(Tick) /\ WF_vars(GraceOver) /\ WF_vars(Close)
  /\ \A t \in Tasks : WF_vars(TaskStep(t))

-----------------------------------------------------------------------------
(* Every slot is free or has one task that will give it back, whichever way *)
(* the tasks ended; and no slot is free while a task waits for one.         *)
SlotsConserved ==
  /\ free + Cardinality({t \in Tasks : HoldsSlot(t)}) = MaxConcurrent
  /\ waiters # << >> => free = 0

(* A send never starts before the delay has passed since the end of the     *)
(* previous one, whoever sent it and however it ended.                      *)
PacedSends == [][\A t \in Tasks : phase[t] # "send" /\ phase'[t] = "send" => quiet = Delay]_vars

(* Every admitted message is done with, however slots and turns are shared, *)
(* and a shutdown ends, whatever the tasks are waiting for.                 *)
RequestsEnd ==
  /\ \A t \in Tasks : phase[t] # "free" ~> phase[t] = "free"
  /\ main = "drain" ~> main = "closed"
=============================================================================
