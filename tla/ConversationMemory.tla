------------------------- MODULE ConversationMemory -------------------------
(***************************************************************************)
(* NomadClient, nomad_client.py, with one_shot = false: the conversations  *)
(* it remembers, one per sender, while several tasks of the bridge ask and *)
(* reset.  A sender's operations are serialized by a lock that senders of  *)
(* the same stripe share; a conversation is dropped by a reset, by its     *)
(* timer, by pruning, or to make room for another sender's.                *)
(*                                                                         *)
(* A question is known by its number among its sender's (its turn) and the *)
(* size it has; a pair, question and answer, likewise.  Times are the      *)
(* number of ticks left.                                                   *)
(***************************************************************************)
EXTENDS Naturals, Sequences, FiniteSets, SequencesExt

CONSTANTS
  Senders,
  Tasks,        \* tasks that may call at the same time
  Stripe,       \* hash(sender_id) % len(_sender_locks)
  MaxSenders,   \* MAX_CONVERSATION_SENDERS
  MaxPairs,     \* half of MAX_SESSION_HISTORY_MESSAGES
  Budget,       \* MAX_SESSION_HISTORY_BYTES
  Ttl,          \* CONVERSATION_TTL_SECONDS
  Sizes,        \* of each sender: sizes its questions and their answers may have
  MaxTurns      \* bound of the model: questions of each sender

ASSUME MemoryAssumption ==
  /\ IsFiniteSet(Senders) /\ IsFiniteSet(Tasks)
  /\ DOMAIN Stripe = Senders
  /\ MaxSenders \in Nat \ {0} /\ MaxPairs \in Nat \ {0}
  /\ Budget \in Nat \ {0} /\ Ttl \in Nat \ {0}
  /\ Sizes \in [Senders -> SUBSET (Nat \ {0})]
  /\ MaxTurns \in [Senders -> Nat]

VARIABLES
  memory,   \* _histories, oldest entry first: sender, pairs, time left
  timers,   \* the timers call_later has pending
  job,      \* what each task is doing
  queue,    \* the tasks at each lock; the first one holds it
  turns,    \* questions each sender has asked
  cleared   \* ghost: the sender's last turn before its last reset

vars == <<memory, timers, job, queue, turns, cleared>>

Pair == [turn : Nat, size : Nat]
Entry == [sender : Senders, pairs : Seq(Pair), left : 0..Ttl]
Idle == [does |-> "idle"]
Job == {Idle} \cup
       [does : {"ask", "reset"}, sender : Senders, turn : Nat, size : Nat] \cup
       [does : {"chat"}, sender : Senders, turn : Nat, size : Nat, history : Seq(Pair)]

(* Every variable has the type its comment announces. *)
TypeOK ==
  /\ memory \in Seq(Entry)
  /\ timers \subseteq [sender : Senders, left : 0..Ttl]
  /\ job \in [Tasks -> Job]
  /\ queue \in [{Stripe[s] : s \in Senders} -> Seq(Tasks)]
  /\ turns \in [Senders -> Nat]
  /\ cleared \in [Senders -> Nat]

Init ==
  /\ memory = << >> /\ timers = {}
  /\ job = [k \in Tasks |-> Idle]
  /\ queue = [n \in {Stripe[s] : s \in Senders} |-> << >>]
  /\ turns = [s \in Senders |-> 0]
  /\ cleared = [s \in Senders |-> 0]

-----------------------------------------------------------------------------
Weight(pairs) ==
  LET sum[n \in 0..Len(pairs)] == IF n = 0 THEN 0 ELSE sum[n - 1] + pairs[n].size
  IN  sum[Len(pairs)]
Newest(pairs, n) == SubSeq(pairs, Len(pairs) - n + 1, Len(pairs))

(* _limit_pairs: as many of the newest pairs as the budget and the limit on *)
(* messages have room for.                                                  *)
LimitPairsNoCount(pairs, budget) ==  \* mutant of LimitPairs: no limit on messages
  Newest(pairs, CHOOSE n \in 0..Len(pairs) :
    /\ Weight(Newest(pairs, n)) <= budget
    /\ \A m \in (n + 1)..Len(pairs) : Weight(Newest(pairs, m)) > budget)
LimitPairs(pairs, budget) ==
  LET Fits(n) == n <= MaxPairs /\ Weight(Newest(pairs, n)) <= budget
  IN  Newest(pairs, CHOOSE n \in 0..Len(pairs) :
                      Fits(n) /\ \A m \in (n + 1)..Len(pairs) : ~Fits(m))

Remembered == {e.sender : e \in Range(memory)}
PairsOf(s) == UNION {Range(e.pairs) : e \in {f \in Range(memory) : f.sender = s}}
EntryOf(s) == CHOOSE e \in Range(memory) : e.sender = s
HistoryOf(s) == IF s \in Remembered THEN EntryOf(s).pairs ELSE << >>

(* _forget for each sender of a set, which cancels their timers: the other  *)
(* entries stay, in their order.                                            *)
Kept(entries, who) == {i \in DOMAIN entries : entries[i].sender \notin who}
Nth(places, n) == CHOOSE i \in places : Cardinality({j \in places : j <= i}) = n
Forgetting(entries, who) ==
  [n \in 1..Cardinality(Kept(entries, who)) |-> entries[Nth(Kept(entries, who), n)]]
CancelNoTimer(who) == timers  \* mutant of CancelTimersOf: the entry is popped, its timer runs on
CancelTimersOf(who) == {t \in timers : t.sender \notin who}

(* The senders _prune forgets.                                              *)
Expired == {e.sender : e \in {f \in Range(memory) : f.left = 0}}

Holds(k) == job[k].does # "idle" /\ Head(queue[Stripe[job[k].sender]]) = k

(* The task leaves the `async with` of its lock.                            *)
Leave(k) ==
  /\ queue' = [queue EXCEPT ![Stripe[job[k].sender]] = RemoveFirst(@, k)]
  /\ job' = [job EXCEPT ![k] = Idle]

-----------------------------------------------------------------------------
(* A task of the bridge calls ask_for_sender or reset_session_for_sender.   *)
Ask(k, s) ==
  /\ job[k] = Idle /\ turns[s] < MaxTurns[s]
  /\ turns' = [turns EXCEPT ![s] = @ + 1]
  /\ \E size \in Sizes[s] :
       job' = [job EXCEPT ![k] = [does |-> "ask", sender |-> s, turn |-> turns[s] + 1, size |-> size]]
  /\ queue' = [queue EXCEPT ![Stripe[s]] = Append(@, k)]
  /\ UNCHANGED <<memory, timers, cleared>>

Reset(k, s) ==
  /\ job[k] = Idle
  /\ job' = [job EXCEPT ![k] = [does |-> "reset", sender |-> s, turn |-> turns[s], size |-> 0]]
  /\ queue' = [queue EXCEPT ![Stripe[s]] = Append(@, k)]
  /\ UNCHANGED <<memory, timers, turns, cleared>>

BeginUnlocked(k) ==  \* mutant of Begin: asks of a sender are not serialized
  /\ job[k].does = "ask" /\ job[k].size <= Budget
  /\ job' = [job EXCEPT ![k] =
                [does |-> "chat", sender |-> job[k].sender, turn |-> job[k].turn, size |-> job[k].size,
                 history |-> LimitPairs(HistoryOf(job[k].sender), Budget - job[k].size)]]
  /\ UNCHANGED <<memory, timers, queue, turns, cleared>>
(* ask_for_sender has the lock: it prunes, and sends what history fits.     *)
Begin(k) ==
  /\ job[k].does = "ask" /\ Holds(k)
  /\ memory' = Forgetting(memory, Expired)
  /\ timers' = CancelTimersOf(Expired)
  /\ LET s == job[k].sender
         kept == IF s \in Expired THEN << >> ELSE HistoryOf(s)
     IN  IF job[k].size > Budget
           THEN Leave(k)
           ELSE /\ job' = [job EXCEPT ![k] =
                             [does |-> "chat", sender |-> s, turn |-> job[k].turn, size |-> job[k].size,
                              history |-> LimitPairs(kept, Budget - job[k].size)]]
                /\ UNCHANGED queue
  /\ UNCHANGED <<turns, cleared>>

(* NOMAD's answer is committed: the sender's entry becomes the youngest,    *)
(* the oldest ones make room for it.                                        *)
NotOldest(entries) ==  \* mutant of Oldest: the youngest entry makes room
  {e.sender : e \in Range(SubSeq(entries, MaxSenders, Len(entries)))}
Oldest(entries) == {e.sender : e \in Range(SubSeq(entries, 1, Len(entries) + 1 - MaxSenders))}
DeadlineAdded(s) ==  \* mutant of Deadline: the time left is added up
  Ttl + (IF s \in Remembered THEN EntryOf(s).left ELSE 0)
Deadline(s) == Ttl
Answer(k) ==
  /\ job[k].does = "chat"
  /\ \E size \in Sizes[job[k].sender] :
       LET s == job[k].sender
           pair == [turn |-> job[k].turn, size |-> job[k].size + size]
           history == LimitPairs(Append(job[k].history, pair), Budget)
           others == Forgetting(memory, Expired \cup {s})
           evicted == IF history = << >> THEN {} ELSE Oldest(others)
           stopped == CancelTimersOf(Expired \cup {s} \cup evicted)
       IN  IF history = << >>
             THEN memory' = others /\ timers' = stopped
             ELSE /\ memory' = Append(Forgetting(others, evicted),
                                      [sender |-> s, pairs |-> history, left |-> Deadline(s)])
                  /\ timers' = stopped \cup {[sender |-> s, left |-> Deadline(s)]}
  /\ Leave(k)
  /\ UNCHANGED <<turns, cleared>>

FailHolding(k) ==  \* mutant of Fail: acquire() and release() without a finally
  /\ job[k] # Idle
  /\ job' = [job EXCEPT ![k] = Idle]
  /\ UNCHANGED <<memory, timers, queue, turns, cleared>>
(* NomadUnavailable, or the task is cancelled while it waits.               *)
Fail(k) ==
  /\ job[k] # Idle
  /\ Leave(k)
  /\ UNCHANGED <<memory, timers, turns, cleared>>

ForgetSenderUnlocked(k) ==  \* mutant of ForgetSender: the reset does not wait for the lock
  /\ job[k].does = "reset"
  /\ memory' = Forgetting(memory, Expired \cup {job[k].sender})
  /\ timers' = CancelTimersOf(Expired \cup {job[k].sender})
  /\ cleared' = [cleared EXCEPT ![job[k].sender] = job[k].turn]
  /\ Leave(k)
  /\ UNCHANGED turns
ForgetSender(k) ==
  /\ job[k].does = "reset" /\ Holds(k)
  /\ memory' = Forgetting(memory, Expired \cup {job[k].sender})
  /\ timers' = CancelTimersOf(Expired \cup {job[k].sender})
  /\ cleared' = [cleared EXCEPT ![job[k].sender] = job[k].turn]
  /\ Leave(k)
  /\ UNCHANGED turns

TimerFires(t) ==
  /\ t.left = 0
  /\ memory' = Forgetting(memory, {t.sender})
  /\ timers' = CancelTimersOf({t.sender}) \ {t}
  /\ UNCHANGED <<job, queue, turns, cleared>>

Close ==
  /\ memory # << >> /\ \A k \in Tasks : job[k] = Idle
  /\ memory' = << >> /\ timers' = CancelTimersOf(Remembered)
  /\ UNCHANGED <<job, queue, turns, cleared>>

Less(n) == IF n > 0 THEN n - 1 ELSE 0
Tick ==
  /\ memory' = [i \in DOMAIN memory |-> [memory[i] EXCEPT !.left = Less(@)]]
  /\ timers' = {[t EXCEPT !.left = Less(@)] : t \in timers}
  /\ UNCHANGED <<job, queue, turns, cleared>>

TaskStep(k) == Begin(k) \/ Answer(k) \/ Fail(k) \/ ForgetSender(k)

Next ==
  \/ Tick \/ Close
  \/ \E t \in timers : TimerFires(t)
  \/ \E k \in Tasks : TaskStep(k) \/ \E s \in Senders : Ask(k, s) \/ Reset(k, s)

Spec == Init /\ [][Next]_vars

(* The event loop runs what is runnable and fires what is due; a request to *)
(* NOMAD ends by its deadline.  Nothing makes anyone ask.                   *)
FairSpec ==
  /\ Spec
  /\ WF_vars(Tick)
  /\ WF_vars(\E t \in timers : TimerFires(t))
  /\ \A k \in Tasks : WF_vars(Begin(k) \/ ForgetSender(k)) /\ WF_vars(job[k].does = "chat" /\ TaskStep(k))

-----------------------------------------------------------------------------
(* Memory is bounded whatever is asked and answered: in senders, in pairs,  *)
(* in bytes, and so is every request sent to NOMAD.                         *)
MemoryBounded ==
  /\ Len(memory) <= MaxSenders
  /\ \A e \in Range(memory) : Len(e.pairs) \in 1..MaxPairs /\ Weight(e.pairs) <= Budget
  /\ \A k \in Tasks : job[k].does = "chat" => Weight(job[k].history) <= Budget - job[k].size

(* The pending timers are those of the entries: an earlier timer of the     *)
(* same sender never cuts a renewed conversation short, and no conversation *)
(* is left without one.                                                     *)
TimersMatch ==
  /\ timers = {[sender |-> e.sender, left |-> e.left] : e \in Range(memory)}
  /\ Cardinality(Remembered) = Len(memory)

(* A reset waits for the asks before it: what was asked before a completed  *)
(* reset is neither remembered nor part of a later request.                 *)
ResetForgets ==
  /\ \A s \in Senders : \A p \in PairsOf(s) : p.turn > cleared[s]
  /\ \A k \in Tasks : job[k].does = "chat" =>
       \A p \in Range(job[k].history) : p.turn > cleared[job[k].sender]

(* The conversation that makes room for another is the one whose last       *)
(* successful answer is the oldest.                                         *)
EvictsOldest ==
  [][\A k \in Tasks : Answer(k) =>
       \A e \in Range(memory), f \in Range(memory') :
         /\ e.sender \notin Expired \cup {job[k].sender} /\ e.sender \notin {g.sender : g \in Range(memory')}
         /\ f.sender # job[k].sender
         => e.left <= f.left]_vars

(* A conversation is not interrupted by another's turn: the turns a request *)
(* carries and those remembered are in the order they were asked in.        *)
InOrder ==
  LET Ordered(pairs) == \A i, j \in DOMAIN pairs : i < j => pairs[i].turn < pairs[j].turn
  IN  /\ \A e \in Range(memory) : Ordered(e.pairs)
      /\ \A k \in Tasks : job[k].does = "chat" =>
           Ordered(Append(job[k].history, [turn |-> job[k].turn, size |-> 0]))

(* Every call returns, however the callers share the locks; and             *)
(* conversations that nobody continues are forgotten, with nobody asking:   *)
(* MaxTurns ends every one of them, and then the memory empties itself.     *)
ComesToRest ==
  /\ \A k \in Tasks : job[k] # Idle ~> job[k] = Idle
  /\ memory # << >> ~> memory = << >>

(* README.md: memory expires 30 minutes after the last successful answer.   *)
(* A turn that has left the memory, here by expiry, does not come back to   *)
(* it: what a step adds to the memory is the turn of the step.              *)
ForgottenStaysForgotten ==
  [][\A s \in Senders : \A p \in PairsOf(s)' \ PairsOf(s) :
       \E k \in Tasks : job[k].does = "chat" /\ job[k].sender = s /\ job[k].turn = p.turn]_vars
=============================================================================
