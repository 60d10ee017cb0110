--------------------------- MODULE MeshCoreClient ---------------------------
(***************************************************************************)
(* The Companion TCP client, meshcore_client.py: one connection at a time, *)
(* a reader task that queues every response frame, and tasks that take    *)
(* turns, under one asyncio.Lock, to write a command and to read the next *)
(* frames of that queue as its reply.  Frames carry no transaction id, so *)
(* which command a frame answers is known only from the order; the `to`   *)
(* field below is a ghost that the code does not have.                    *)
(*                                                                         *)
(* Tasks: Main runs run() and everything it awaits; a Texter calls        *)
(* send_text; a Controller calls send_advert, get_contacts and            *)
(* remove_contact.  One action is one stretch of code between two points  *)
(* at which the event loop may switch tasks.                              *)
(***************************************************************************)
EXTENDS Naturals, Sequences, FiniteSets

CONSTANTS Main, Texters, Controllers,
          MaxConns,     \* bound: connections ever opened
          MaxCalls,     \* bound: calls each Texter and Controller makes
          MaxQueue,     \* bound: frames nobody has read when one more arrives
          MaxPipe,      \* bound: commands the Companion keeps, one more is lost
          MaxRetries    \* max_retries of send_text, 3 in the code

ASSUME TaskAssumption ==
  /\ Texters \cap Controllers = {}
  /\ Main \notin Texters \cup Controllers
ASSUME BoundAssumption ==
  /\ MaxConns \in Nat /\ MaxCalls \in Nat /\ MaxQueue \in Nat /\ MaxPipe \in Nat
  /\ MaxRetries \in Nat \ {0}

VARIABLES
  connected,    \* _connected
  writer,       \* the connection _writer belongs to, 0 for None
  readerTask,   \* the connection _reader_task reads, 0 for None
  gen,          \* connections opened; _response_queue was made for this one
  queue,        \* _response_queue: frames [code, to], heartbeats left out
  sock,         \* of each connection: "open" or "closed"
  reader,       \* of each connection: "off", "run", "failed" (not awaited yet)
  pipe,         \* of each connection: commands its reader may still see answered
  holder,       \* the holders of _command_lock: {} or a singleton
  pc,           \* where each task is suspended
  req,          \* the command each task has outstanding
  calls,        \* the number of the call each task is in
  stop,         \* stop_event
  desync,       \* ghost: the queue has, or will get, a reply nobody waits for
  givenUp       \* ghost: a control command was uncertain on this connection

linkVars  == <<connected, writer, readerTask, gen, sock, reader>>
taskVars  == <<pc, req, holder, calls>>
ghostVars == <<desync, givenUp>>
vars == <<linkVars, queue, pipe, taskVars, stop, ghostVars>>

-----------------------------------------------------------------------------
Clients == Texters \cup Controllers
Tasks   == Clients \cup {Main}
Conns   == 1..MaxConns
NoConn  == 0

ControlLabels == {"send_advert", "get_contacts", "remove_contact"}
HelloLabels   == {"app_start", "device_query"}
Labels  == ControlLabels \cup HelloLabels \cup {"send_text", "sync_next_message"}

(* What the Companion still owes for one command: a contact list is any     *)
(* number of frames, so answering "get_contacts" leaves the list owed.      *)
Owed  == Labels \cup {"contact_list"}
Codes == {"OK", "ERR", "SENT", "NO_MORE_MESSAGES", "CONTACT_MSG", "SELF_INFO",
          "DEVICE_INFO", "CONTACTS_START", "CONTACT", "END_OF_CONTACTS"}

Tags   == [task : Tasks, call : 0..MaxCalls]
Debts  == [owes : Owed, to : Tags]
Frames == [code : Codes, to : Tags]
Tag(t) == [task |-> t, call |-> calls[t]]

(* expected_codes at each call of _send_command_expect. *)
Expected(label) ==
  CASE label \in HelloLabels -> Codes
    [] label = "sync_next_message" -> {"NO_MORE_MESSAGES", "CONTACT_MSG"}
    [] label = "send_text" -> {"SENT", "ERR"}
    [] label = "get_contacts" -> {"CONTACTS_START", "ERR"}
    [] OTHER -> {"OK", "ERR"}

(* max_unexpected: that many frames off the list and the last one is the    *)
(* reply all the same.                                                      *)
MaxUnexpected(label) == IF label \in {"send_text", "sync_next_message"} THEN 4 ELSE 2

MainStates   == {"down", "connecting", "hello", "await", "live", "leaving", "done", "sweep", "closed"}
ClientStates == {"idle", "lock", "await", "collect"}

Request(label, attempt) == [label |-> label, on |-> NoConn, unexpected |-> 0, attempt |-> attempt]
NoReq == Request("app_start", 0)
Requests == [label : Labels, on : 0..MaxConns, unexpected : 0..4, attempt : 0..MaxRetries]

(* Every variable has the type its comment announces. *)
TypeOK ==
  /\ connected \in BOOLEAN /\ stop \in BOOLEAN
  /\ writer \in 0..MaxConns /\ readerTask \in 0..MaxConns /\ gen \in 0..MaxConns
  /\ queue \in Seq(Frames)
  /\ sock \in [Conns -> {"open", "closed"}]
  /\ reader \in [Conns -> {"off", "run", "failed"}]
  /\ pipe \in [Conns -> Seq(Debts)]
  /\ holder \in SUBSET Tasks
  /\ pc \in [Tasks -> MainStates \cup ClientStates]
  /\ req \in [Tasks -> Requests]
  /\ calls \in [Tasks -> 0..MaxCalls]
  /\ desync \in BOOLEAN /\ givenUp \in BOOLEAN

Init ==
  /\ connected = FALSE /\ stop = FALSE
  /\ writer = NoConn /\ readerTask = NoConn /\ gen = 0
  /\ queue = << >>
  /\ sock = [g \in Conns |-> "closed"]
  /\ reader = [g \in Conns |-> "off"]
  /\ pipe = [g \in Conns |-> << >>]
  /\ holder = {}
  /\ pc = [t \in Tasks |-> IF t = Main THEN "down" ELSE "idle"]
  /\ req = [t \in Tasks |-> NoReq]
  /\ calls = [t \in Tasks |-> 0]
  /\ desync = FALSE /\ givenUp = FALSE

-----------------------------------------------------------------------------
(* The Companion and the network (external).                               *)

Replies(owed) ==
  CASE owed = "app_start"         -> {"SELF_INFO"}
    [] owed = "device_query"      -> {"DEVICE_INFO"}
    [] owed = "sync_next_message" -> {"NO_MORE_MESSAGES", "CONTACT_MSG"}
    [] owed = "send_text"         -> {"SENT", "ERR"}
    [] owed = "get_contacts"      -> {"CONTACTS_START", "ERR"}
    [] owed = "contact_list"      -> {"CONTACT", "END_OF_CONTACTS"}
    [] OTHER                      -> {"OK", "ERR"}
StillOwed(code, to) ==
  IF code \in {"CONTACTS_START", "CONTACT"} THEN <<[owes |-> "contact_list", to |-> to]>> ELSE << >>

(* The Companion answers, in order, what it was sent.  A reader task puts   *)
(* the frame in the queue self._response_queue names now, whichever         *)
(* connection the frame came from; bytes already buffered are still read    *)
(* after the socket was closed.                                             *)
AnswerWith(g, code) ==
  /\ reader[g] = "run" /\ pipe[g] # << >> /\ Len(queue) < MaxQueue
  /\ code \in Replies(Head(pipe[g]).owes)
  /\ LET to == Head(pipe[g]).to IN
       /\ pipe' = [pipe EXCEPT ![g] = StillOwed(code, to) \o Tail(@)]
       /\ queue' = Append(queue, [code |-> code, to |-> to])
  /\ desync' = (desync \/ g # gen)
  /\ UNCHANGED <<linkVars, taskVars, stop, givenUp>>
Answer(g) == \E code \in Codes : AnswerWith(g, code)

(* The transport notices that the peer went away.  Until it does a write    *)
(* still succeeds and no answer comes, as from a Companion that is silent.  *)
PeerLost ==
  /\ \E g \in Conns : g = writer /\ sock[g] = "open" /\ sock' = [sock EXCEPT ![g] = "closed"]
  /\ UNCHANGED <<connected, writer, readerTask, gen, reader, queue, pipe, taskVars,
                 stop, ghostVars>>

(* _reader_loop ends: end of stream, a socket error, or a bad prefix byte.  *)
ReaderExit ==
  /\ \E g \in Conns :
       /\ g = readerTask /\ reader[g] = "run"
       /\ reader' = [reader EXCEPT ![g] = "failed"]
       /\ pipe' = [pipe EXCEPT ![g] = << >>]
  /\ UNCHANGED <<connected, writer, readerTask, gen, sock, queue, taskVars,
                 stop, ghostVars>>

(* The reader of a connection the client lost track of still ends with its  *)
(* connection, or is collected by the interpreter, or runs for ever.        *)
LeakedReaderEnds(g) ==
  /\ reader[g] = "run" /\ g # readerTask
  /\ reader' = [reader EXCEPT ![g] = "off"]
  /\ pipe' = [pipe EXCEPT ![g] = << >>]
  /\ UNCHANGED <<connected, writer, readerTask, gen, sock, queue, taskVars, stop,
                 ghostVars>>

RequestStop ==
  /\ ~stop
  /\ stop' = TRUE
  /\ UNCHANGED <<linkVars, queue, pipe, taskVars, ghostVars>>

-----------------------------------------------------------------------------
(* Steps the operations share.                                              *)

(* _send_command.  A write to a lost peer still appears to succeed; only a  *)
(* connection that is open and read will ever show an answer.               *)
WriteRaises == \A g \in Conns : g = writer => sock[g] = "closed"
Send(t, label) ==
  /\ ~WriteRaises
  /\ pipe' = IF sock[writer] = "open" /\ reader[writer] = "run" /\ Len(pipe[writer]) < MaxPipe
               THEN [pipe EXCEPT ![writer] = Append(@, [owes |-> label, to |-> Tag(t)])]
               ELSE pipe
  /\ req' = [req EXCEPT ![t] = [label |-> label, on |-> gen, unexpected |-> 0, attempt |-> @.attempt]]
  /\ pc' = [pc EXCEPT ![t] = "await"]

LockFree == holder = {}
Release(t) == holder' = holder \ {t}

(* The call of t is over.                                                   *)
Return(t) ==
  /\ pc' = [pc EXCEPT ![t] = "idle"]
  /\ req' = [req EXCEPT ![t] = NoReq]

(* What a call makes of its reply: "none" is a contact list that begins.    *)
Verdict(label, code) ==
  CASE label = "get_contacts"   -> IF code = "ERR" THEN "rejected" ELSE "none"
    [] label = "remove_contact" -> IF code = "OK" THEN "accepted" ELSE "rejected"
    [] label = "send_text" /\ code = "SENT"  -> "accepted"
    [] label = "send_advert" /\ code = "OK"  -> "accepted"
    [] code = "ERR"             -> "rejected"
    [] OTHER                    -> "unknown"

DiscardLeavesOpen ==  \* mutant of Discard: forgets _writer.close()
  connected' = FALSE /\ givenUp' = TRUE /\ UNCHANGED <<writer, readerTask, gen, sock, reader>>

(* An uncertain control command closes the connection it was sent on.       *)
Discard ==
  /\ connected' = FALSE
  /\ sock' = [g \in Conns |-> IF g = writer THEN "closed" ELSE sock[g]]
  /\ givenUp' = TRUE
  /\ UNCHANGED <<writer, readerTask, gen, reader>>

(* _teardown_connection up to the end of `await task`.  A reader that had   *)
(* already failed makes that await raise, past the code that closes and     *)
(* forgets the writer.                                                      *)
StopReader(g) ==
  /\ reader' = [h \in Conns |-> IF h = g THEN "off" ELSE reader[h]]
  /\ pipe' = [h \in Conns |-> IF h = g THEN << >> ELSE pipe[h]]
ReaderFailed == \E g \in Conns : g = readerTask /\ reader[g] = "failed"
Leave ==
  /\ connected' = FALSE
  /\ readerTask' = NoConn
  /\ StopReader(readerTask)
  /\ pc' = [pc EXCEPT ![Main] = IF ReaderFailed THEN "down" ELSE "leaving"]
  /\ UNCHANGED <<writer, gen, sock>>

(* The next frame of the queue the task waits on, if it has been replaced   *)
(* nothing ever comes.                                                      *)
Waiting(t) == pc[t] \in {"await", "collect"}
HasFrame(t) == Waiting(t) /\ req[t].on = gen /\ queue # << >>
Frame == Head(queue)
Matches(t) == \/ Frame.code \in Expected(req[t].label)
              \/ req[t].unexpected + 1 >= MaxUnexpected(req[t].label)
TakeReply(t) == pc[t] = "await" /\ HasFrame(t) /\ Matches(t) /\ queue' = Tail(queue)
TimedOut(t) == Waiting(t) /\ ~HasFrame(t)
(* If the task stops waiting now, its reply will still be queued.           *)
Orphans(t) == req[t].on = gen /\ reader[gen] = "run"

(* _next_command_response throws a heartbeat (CURR_TIME) away and waits     *)
(* another 30 s.  The Companion sends as many as it likes, unasked, and one *)
(* leaves no trace but the time: see HeartbeatsPause.                       *)
SkipHeartbeat(t) == Waiting(t) /\ req[t].on = gen /\ reader[gen] = "run" /\ UNCHANGED vars

SkipUnexpected(t) ==
  /\ pc[t] = "await" /\ HasFrame(t) /\ ~Matches(t)
  /\ queue' = Tail(queue)
  /\ req' = [req EXCEPT ![t].unexpected = @ + 1]
  /\ UNCHANGED <<linkVars, pipe, pc, holder, calls, stop, ghostVars>>

-----------------------------------------------------------------------------
(* run, _connect_and_process, _startup_handshake, _drain_messages.          *)

StartConnect ==
  /\ pc[Main] = "down" /\ ~stop
  /\ pc' = [pc EXCEPT ![Main] = "connecting"]
  /\ UNCHANGED <<linkVars, queue, pipe, req, holder, calls, stop, ghostVars>>

ConnectRefused ==
  /\ pc[Main] = "connecting"
  /\ connected' = FALSE
  /\ pc' = [pc EXCEPT ![Main] = "down"]
  /\ UNCHANGED <<writer, readerTask, gen, sock, reader, queue, pipe, req, holder, calls, stop, ghostVars>>

Connected ==
  /\ pc[Main] = "connecting" /\ gen < MaxConns
  /\ gen' = gen + 1 /\ writer' = gen + 1 /\ readerTask' = gen + 1
  /\ sock' = [sock EXCEPT ![gen + 1] = "open"]
  /\ reader' = [reader EXCEPT ![gen + 1] = "run"]
  /\ queue' = << >>
  /\ desync' = FALSE /\ givenUp' = FALSE
  /\ pc' = [pc EXCEPT ![Main] = "hello"]
  /\ UNCHANGED <<connected, pipe, req, holder, calls, stop>>

(* A failed handshake leaves _connect_and_process before its try: nothing   *)
(* is torn down.                                                            *)
HelloFails ==
  /\ Release(Main)
  /\ connected' = FALSE
  /\ pc' = [pc EXCEPT ![Main] = "down"]
  /\ req' = [req EXCEPT ![Main] = NoReq]
  /\ UNCHANGED <<writer, readerTask, gen, sock, reader, pipe>>

SendAppStart ==
  /\ pc[Main] = "hello" /\ LockFree
  /\ \/ Send(Main, "app_start") /\ holder' = {Main} /\ UNCHANGED linkVars
     \/ WriteRaises /\ HelloFails
  /\ UNCHANGED <<queue, calls, stop, ghostVars>>

AppStartReply ==
  /\ TakeReply(Main) /\ req[Main].label = "app_start"
  /\ \/ Send(Main, "device_query") /\ UNCHANGED <<linkVars, holder>>
     \/ WriteRaises /\ HelloFails
  /\ UNCHANGED <<calls, stop, ghostVars>>

DeviceQueryReply ==
  /\ TakeReply(Main) /\ req[Main].label = "device_query"
  /\ Release(Main)
  /\ req' = [req EXCEPT ![Main] = NoReq]
  /\ IF stop
       THEN Leave
       ELSE /\ connected' = TRUE
            /\ pc' = [pc EXCEPT ![Main] = "live"]
            /\ UNCHANGED <<writer, readerTask, gen, sock, reader, pipe>>
  /\ UNCHANGED <<calls, stop, ghostVars>>

HelloTimeout ==
  /\ TimedOut(Main) /\ req[Main].label \in HelloLabels
  /\ HelloFails
  /\ desync' = (desync \/ Orphans(Main))
  /\ UNCHANGED <<queue, calls, stop, givenUp>>

SendSync ==
  /\ pc[Main] = "live" /\ LockFree
  /\ \/ Send(Main, "sync_next_message") /\ holder' = {Main} /\ UNCHANGED linkVars
     \/ WriteRaises /\ Leave /\ UNCHANGED <<req, holder>>
  /\ UNCHANGED <<queue, calls, stop, ghostVars>>

SyncReplyNoStop ==  \* mutant of SyncReply: stop_event not looked at
  /\ TakeReply(Main) /\ req[Main].label = "sync_next_message"
  /\ Release(Main)
  /\ req' = [req EXCEPT ![Main] = NoReq]
  /\ IF Frame.code = "NO_MORE_MESSAGES" /\ ReaderFailed
       THEN Leave
       ELSE pc' = [pc EXCEPT ![Main] = "live"] /\ UNCHANGED <<linkVars, pipe>>
  /\ UNCHANGED <<calls, stop, ghostVars>>
SyncReply ==
  /\ TakeReply(Main) /\ req[Main].label = "sync_next_message"
  /\ Release(Main)
  /\ req' = [req EXCEPT ![Main] = NoReq]
  /\ IF Frame.code = "NO_MORE_MESSAGES" /\ (stop \/ ReaderFailed)
       THEN Leave
       ELSE /\ pc' = [pc EXCEPT ![Main] = "live"]
            /\ UNCHANGED <<linkVars, pipe>>
  /\ UNCHANGED <<calls, stop, ghostVars>>

SyncTimeoutStays ==  \* mutant of SyncTimeout: goes on with the connection
  /\ TimedOut(Main) /\ req[Main].label = "sync_next_message"
  /\ Release(Main)
  /\ pc' = [pc EXCEPT ![Main] = "live"] /\ req' = [req EXCEPT ![Main] = NoReq]
  /\ UNCHANGED <<linkVars, pipe, queue, calls, stop, ghostVars>>
SyncTimeout ==
  /\ TimedOut(Main) /\ req[Main].label = "sync_next_message"
  /\ Release(Main) /\ Leave
  /\ req' = [req EXCEPT ![Main] = NoReq]
  /\ UNCHANGED <<queue, calls, stop, ghostVars>>

Teardown ==
  /\ pc[Main] = "leaving"
  /\ writer' = NoConn
  /\ sock' = [g \in Conns |-> IF g = writer THEN "closed" ELSE sock[g]]
  /\ pc' = [pc EXCEPT ![Main] = "down"]
  /\ UNCHANGED <<connected, readerTask, gen, reader, queue, pipe, req, holder, calls, stop, ghostVars>>

RunEnds ==
  /\ pc[Main] = "down" /\ stop
  /\ pc' = [pc EXCEPT ![Main] = "done"]
  /\ UNCHANGED <<linkVars, queue, pipe, req, holder, calls, stop, ghostVars>>

(* _shutdown: the control loop has been cancelled and awaited; after 10 s   *)
(* every message task that is still running is cancelled.                   *)
CancelTexts ==
  /\ pc[Main] = "done" /\ \A c \in Controllers : pc[c] = "idle"
  /\ pc' = [pc EXCEPT ![Main] = "sweep"]
  /\ UNCHANGED <<linkVars, queue, pipe, req, holder, calls, stop, ghostVars>>

(* close, called last.  A failed reader task makes it raise half way too.   *)
Close ==
  /\ pc[Main] = "sweep" /\ \A t \in Clients : pc[t] = "idle"
  /\ connected' = FALSE
  /\ IF ReaderFailed
       THEN UNCHANGED <<writer, readerTask, sock, reader, pipe>>
       ELSE /\ StopReader(readerTask)
            /\ sock' = [g \in Conns |-> IF g = writer THEN "closed" ELSE sock[g]]
            /\ readerTask' = NoConn /\ writer' = NoConn
  /\ pc' = [pc EXCEPT ![Main] = "closed"]
  /\ UNCHANGED <<gen, queue, req, holder, calls, stop, ghostVars>>

-----------------------------------------------------------------------------
(* send_text: waits for the lock as long as it takes, whether or not the    *)
(* client is connected, and tries again after a timeout on whatever         *)
(* connection there is then.                                                *)

CallText(t) ==
  /\ pc[t] = "idle" /\ calls[t] < MaxCalls /\ pc[Main] \notin {"sweep", "closed"}
  /\ calls' = [calls EXCEPT ![t] = @ + 1]
  /\ req' = [req EXCEPT ![t] = Request("send_text", 1)]
  /\ pc' = [pc EXCEPT ![t] = "lock"]
  /\ UNCHANGED <<linkVars, queue, pipe, holder, stop, ghostVars>>

SendText(t) ==
  /\ pc[t] = "lock" /\ LockFree /\ pc[Main] \notin {"sweep", "closed"}
  /\ \/ Send(t, "send_text") /\ holder' = {t}
     \/ WriteRaises /\ Return(t) /\ UNCHANGED <<pipe, holder>>
  /\ UNCHANGED <<linkVars, queue, calls, stop, ghostVars>>

TextReply(t) ==
  /\ TakeReply(t)
  /\ Release(t)
  /\ Return(t)
  /\ UNCHANGED <<linkVars, pipe, calls, stop, ghostVars>>

TextTimeoutForever(t) ==  \* mutant of TextTimeout: does not count its attempts
  /\ TimedOut(t) /\ Release(t)
  /\ desync' = (desync \/ Orphans(t))
  /\ req' = [req EXCEPT ![t] = Request("send_text", 1)]
  /\ pc' = [pc EXCEPT ![t] = "lock"]
  /\ UNCHANGED <<linkVars, queue, pipe, calls, stop, givenUp>>
TextTimeout(t) ==
  /\ TimedOut(t)
  /\ Release(t)
  /\ desync' = (desync \/ Orphans(t))
  /\ IF req[t].attempt = MaxRetries
       THEN Return(t)
       ELSE /\ req' = [req EXCEPT ![t] = Request("send_text", req[t].attempt + 1)]
            /\ pc' = [pc EXCEPT ![t] = "lock"]
  /\ UNCHANGED <<linkVars, queue, pipe, calls, stop, givenUp>>

TextCancelled(t) ==
  /\ pc[Main] = "sweep" /\ pc[t] # "idle"
  /\ Release(t) /\ Return(t)
  /\ UNCHANGED <<linkVars, queue, pipe, calls, stop, ghostVars>>

-----------------------------------------------------------------------------
(* send_advert, get_contacts, remove_contact: one attempt, on a connection  *)
(* that is usable before and after the wait for the lock.                   *)

CallControl(c) ==
  /\ pc[c] = "idle" /\ calls[c] < MaxCalls /\ pc[Main] \notin {"done", "sweep", "closed"}
  /\ calls' = [calls EXCEPT ![c] = @ + 1]
  /\ IF connected
       THEN /\ pc' = [pc EXCEPT ![c] = "lock"]
            /\ \E label \in ControlLabels : req' = [req EXCEPT ![c] = Request(label, 0)]
       ELSE Return(c)
  /\ UNCHANGED <<linkVars, queue, pipe, holder, stop, ghostVars>>

ControlBusy(c) ==
  /\ pc[c] = "lock" /\ ~LockFree
  /\ Return(c)
  /\ UNCHANGED <<linkVars, queue, pipe, holder, calls, stop, ghostVars>>

SendControlUnchecked(c) ==  \* mutant of SendControl: no second look at connected
  /\ pc[c] = "lock" /\ LockFree
  /\ \/ /\ Send(c, req[c].label) /\ holder' = {c}
        /\ UNCHANGED <<linkVars, givenUp>>
     \/ /\ WriteRaises /\ Discard /\ Return(c)
        /\ UNCHANGED <<pipe, holder>>
  /\ UNCHANGED <<queue, calls, stop, desync>>
SendControl(c) ==
  /\ pc[c] = "lock" /\ LockFree /\ connected
  /\ \/ /\ Send(c, req[c].label)
        /\ holder' = {c}
        /\ UNCHANGED <<linkVars, givenUp>>
     \/ /\ WriteRaises /\ Discard /\ Return(c)
        /\ UNCHANGED <<pipe, holder>>
  /\ UNCHANGED <<queue, calls, stop, desync>>

(* The second check of `connected`, and may_send.                           *)
ControlDeclined(c) ==
  /\ pc[c] = "lock" /\ LockFree
  /\ Return(c)
  /\ UNCHANGED <<linkVars, queue, pipe, holder, calls, stop, ghostVars>>

ControlReply(c) ==
  LET verdict == Verdict(req[c].label, Frame.code) IN
  /\ TakeReply(c)
  /\ IF verdict = "none"
       THEN /\ pc' = [pc EXCEPT ![c] = "collect"]
            /\ UNCHANGED <<linkVars, req, holder, givenUp>>
       ELSE /\ Release(c) /\ Return(c)
            /\ IF verdict = "unknown" THEN Discard ELSE UNCHANGED <<linkVars, givenUp>>
  /\ UNCHANGED <<pipe, calls, stop, desync>>

CollectContact(c) ==
  /\ pc[c] = "collect" /\ HasFrame(c)
  /\ queue' = Tail(queue)
  /\ IF Frame.code = "END_OF_CONTACTS"
       THEN Release(c) /\ Return(c)
       ELSE UNCHANGED <<holder, pc, req>>
  /\ UNCHANGED <<linkVars, pipe, calls, stop, ghostVars>>

(* 10 or 15 s for the whole reply, 10 s for each frame of a list: neither   *)
(* heartbeats nor frames it did not expect give a control command more.     *)
ControlTimeoutKeeps(c) ==  \* mutant of ControlTimeout: keeps the connection
  /\ Waiting(c)
  /\ Release(c) /\ Return(c)
  /\ UNCHANGED <<linkVars, givenUp, queue, pipe, calls, stop, desync>>
ControlTimeout(c) ==
  /\ Waiting(c)
  /\ Release(c) /\ Discard /\ Return(c)
  /\ UNCHANGED <<queue, pipe, calls, stop, desync>>

ControlCancelled(c) ==
  /\ pc[Main] = "done" /\ pc[c] # "idle"
  /\ Return(c)
  /\ IF Waiting(c) THEN Release(c) /\ Discard ELSE UNCHANGED <<linkVars, holder, givenUp>>
  /\ UNCHANGED <<queue, pipe, calls, stop, desync>>

-----------------------------------------------------------------------------
Environment ==
  \/ RequestStop \/ PeerLost \/ ReaderExit
  \/ \E g \in Conns : Answer(g) \/ LeakedReaderEnds(g)

MainStep ==
  \/ StartConnect \/ ConnectRefused \/ Connected
  \/ SendAppStart \/ AppStartReply \/ DeviceQueryReply \/ HelloTimeout
  \/ SendSync \/ SyncReply \/ SyncTimeout
  \/ Teardown \/ RunEnds \/ CancelTexts \/ Close

TextStep(t) ==
  CallText(t) \/ SendText(t) \/ TextReply(t) \/ TextTimeout(t) \/ TextCancelled(t)

ControlStep(c) ==
  \/ CallControl(c) \/ ControlBusy(c) \/ SendControl(c) \/ ControlDeclined(c)
  \/ ControlReply(c) \/ CollectContact(c) \/ ControlTimeout(c) \/ ControlCancelled(c)

Terminated == pc[Main] = "closed" /\ UNCHANGED vars

Next ==
  \/ Environment
  \/ MainStep
  \/ \E t \in Texters : TextStep(t)
  \/ \E c \in Controllers : ControlStep(c)
  \/ \E t \in Tasks : SkipHeartbeat(t) \/ SkipUnexpected(t)
  \/ Terminated

Spec == Init /\ [][Next]_vars

(* A task that can go on does: asyncio resumes it, and asyncio.Lock grants  *)
(* the lock in turn.  Three kinds of wait end by themselves: of a control   *)
(* command for its reply, since no frame gives it more than its 10 or 15 s; *)
(* for the lock, after 5 s; of open_connection, by the system's timeout.    *)
(* Main and a Texter wait 30 s from the last heartbeat: the end of that is  *)
(* not assumed here, nor anything of the Companion, the network or callers. *)
MainGoesOn ==
  \/ StartConnect \/ ConnectRefused \/ Connected
  \/ SendAppStart \/ AppStartReply \/ DeviceQueryReply
  \/ SendSync \/ SyncReply \/ SkipUnexpected(Main)
  \/ Teardown \/ RunEnds \/ CancelTexts \/ Close
TextGoesOn(t) == SendText(t) \/ TextReply(t) \/ SkipUnexpected(t) \/ TextCancelled(t)
ControlGoesOn(c) ==
  \/ ControlBusy(c) \/ SendControl(c) \/ ControlDeclined(c) \/ SkipUnexpected(c)
  \/ ControlReply(c) \/ CollectContact(c) \/ ControlTimeout(c) \/ ControlCancelled(c)
Fairness ==
  /\ WF_vars(MainGoesOn)
  /\ \A t \in Texters : SF_vars(TextGoesOn(t))
  /\ \A c \in Controllers : WF_vars(ControlGoesOn(c))
FairSpec == Spec /\ Fairness

-----------------------------------------------------------------------------
(* A frame ends the call of t, which reports it as accepted or rejected.    *)
Decides(t) ==
  /\ HasFrame(t) /\ queue' = Tail(queue) /\ pc'[t] = "idle"
  /\ pc[t] = "collect" \/ Verdict(req[t].label, Frame.code) \in {"accepted", "rejected"}
Own(t) == Frame.to = Tag(t)

(* A reply decides only the call it answers: what a call reports as         *)
(* accepted or rejected it read from a frame the Companion sent for that    *)
(* very call, unless the queue was out of step (a send_text or a handshake  *)
(* gave up on a reply that may still come, or the reader of an earlier      *)
(* connection still feeds the queue).                                       *)
AckIsOwn == [][\A t \in Clients : Decides(t) /\ ~desync => Own(t)]_vars

(* While a control command waits for its reply, the connection it used is   *)
(* the one and only current connection: Main cannot replace it, so the      *)
(* writer that an uncertain outcome closes is the right one.                *)
ControlOnCurrent ==
  \A c \in Controllers :
    Waiting(c) => /\ req[c].on = gen /\ writer = gen /\ readerTask = gen
                  /\ pc[Main] = "live"
                  /\ holder = {c}

(* `connected` is shown to callers only on a finished handshake, with a     *)
(* writer and a reader task that belong together.                           *)
ConnectedIsUsable ==
  connected => pc[Main] \in {"live", "await"} /\ writer = gen /\ readerTask = gen

(* After a control command ended with an unknown outcome no task ever sends *)
(* a command on its connection again: everything waits for a new one.       *)
Sends(t) == pc'[t] = "await" /\ (pc[t] # "await" \/ req'[t].label # req[t].label)
DiscardedStaysSilent == [][\A t \in Tasks : Sends(t) => ~givenUp]_vars

(* A message taken from the Companion's queue is handed to Main: no other   *)
(* task throws its frame away, unless the queue was already out of step.    *)
SwallowsNoMessage ==
  [][\A t \in Clients :
       HasFrame(t) /\ Frame.code = "CONTACT_MSG" /\ ~desync => queue' # Tail(queue)]_vars

(* What a Companion has to do for the client to get on, each named for what *)
(* it does not do for ever: send heartbeats less than 30 s apart while a    *)
(* task waits for something else; go on with a list of contacts; have one   *)
(* more message for each one that is fetched.                               *)
Arrives(code) == Len(queue') > Len(queue) /\ queue'[Len(queue')].code = code
HeartbeatsPause == WF_vars(HelloTimeout \/ SyncTimeout \/ \E t \in Texters : TextTimeout(t))
ListsEnd        == <>[][~Arrives("CONTACT")]_vars
InboxEmpties    == <>[][~Arrives("CONTACT_MSG")]_vars

(* With such a Companion a requested stop ends in close(), however often    *)
(* connections are lost and made again, whoever holds the lock.  It needs *)
(* all three: _drain_messages looks at no stop_event while messages come.   *)
StopEndsRun == HeartbeatsPause /\ ListsEnd /\ InboxEmpties => (stop ~> pc[Main] = "closed")

(* Every call comes back: a control command although heartbeats never pause *)
(* and whoever else holds the lock, if only lists of contacts end; a text   *)
(* also after its retries, and after the calls it waits for.                *)
CallsReturn ==
  /\ ListsEnd => \A c \in Controllers : pc[c] # "idle" ~> pc[c] = "idle"
  /\ HeartbeatsPause /\ ListsEnd => \A t \in Texters : pc[t] # "idle" ~> pc[t] = "idle"

(* What the README promises of a reply sent in chunks, each of them one     *)
(* send_text: an unconfirmed chunk stops the rest, so a chunk that counts   *)
(* as accepted is one the Companion accepted.                               *)
ChunkAckIsOwn ==
  [][\A t \in Texters : Decides(t) /\ Verdict("send_text", Frame.code) = "accepted" => Own(t)]_vars
=============================================================================
