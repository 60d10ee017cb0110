------------------------ MODULE MeshCoreClientProofs ------------------------
(***************************************************************************)
(* Proofs about MeshCoreClient, for any tasks and any bounds.              *)
(***************************************************************************)
EXTENDS MeshCoreClient, TLAPS, SequenceTheorems

USE TaskAssumption, BoundAssumption

-----------------------------------------------------------------------------
(* Type correctness.                                                        *)

LEMMA RepliesType ==
  ASSUME NEW o \in Owed
  PROVE  Replies(o) \subseteq Codes
BY DEF Replies, Owed, Codes, Labels, ControlLabels, HelloLabels

LEMMA SingletonType ==
  ASSUME NEW S, NEW e \in S PROVE <<e>> \in Seq(S)
OBVIOUS

LEMMA AppendType ==
  ASSUME NEW S, NEW s \in Seq(S), NEW e \in S PROVE Append(s, e) \in Seq(S)
OBVIOUS

LEMMA EmptyType ==
  ASSUME NEW S PROVE << >> \in Seq(S)
OBVIOUS

LEMMA HeadTailType ==
  ASSUME NEW S, NEW s \in Seq(S), s # << >>
  PROVE  Head(s) \in S /\ Tail(s) \in Seq(S)
OBVIOUS

LEMMA TailOfOne ==
  ASSUME NEW S, NEW s \in Seq(S), Len(s) = 1 PROVE Tail(s) = << >>
<1>1. Tail(s) \in Seq(S) /\ Len(Tail(s)) = 0
  OBVIOUS
<1>2. QED
  BY <1>1, EmptySeq

LEMMA AtMostOne ==
  ASSUME NEW s, NEW e, s = << >> \/ s = <<e>>
  PROVE  Len(s) <= 1 /\ \A i \in 1..Len(s) : s[i] = e
<1>1. CASE s = << >>
  BY <1>1
<1>2. CASE s = <<e>>
  <2>1. Len(<<e>>) = 1 /\ <<e>>[1] = e
    OBVIOUS
  <2>2. \A i \in 1..1 : i = 1
    OBVIOUS
  <2>3. QED
    BY <1>2, <2>1, <2>2
<1>3. QED
  BY <1>1, <1>2

LEMMA NotEmpty ==
  ASSUME NEW S, NEW s \in Seq(S), s # << >> PROVE Len(s) \in Nat \ {0}
BY EmptySeq

LEMMA AppendToEmpty ==
  ASSUME NEW e PROVE Append(<< >>, e) = <<e>>
OBVIOUS

LEMMA ConcatType ==
  ASSUME NEW S, NEW s \in Seq(S), NEW u \in Seq(S) PROVE s \o u \in Seq(S)
OBVIOUS

LEMMA StillOwedType ==
  ASSUME NEW code \in Codes, NEW to \in Tags
  PROVE  StillOwed(code, to) \in Seq(Debts)
<1> DEFINE Debt(o) == [owes |-> o, to |-> to]
<1>1. Debt("contact_list") \in Debts
  BY DEF Owed, Debts
<1>2. StillOwed(code, to) \in {<< >>, <<Debt("contact_list")>>}
  BY DEF StillOwed
<1>3. << >> \in Seq(Debts)
  BY EmptyType
<1> HIDE DEF Debt
<1>4. <<Debt("contact_list")>> \in Seq(Debts)
  BY <1>1, SingletonType
<1>5. QED
  BY <1>2, <1>3, <1>4

LEMMA TagType == TypeOK => \A t \in Tasks : Tag(t) \in Tags
BY DEF TypeOK, Tag, Tags

LEMMA SendType ==
  ASSUME TypeOK, NEW t \in Tasks, NEW label \in Labels, Send(t, label)
  PROVE  /\ pipe' \in [Conns -> Seq(Debts)]
         /\ req' \in [Tasks -> Requests]
         /\ pc' \in [Tasks -> MainStates \cup ClientStates]
<1>1. [owes |-> label, to |-> Tag(t)] \in Debts
  BY TagType DEF Owed, Debts
<1>2. writer \in Conns
  BY DEF Send, WriteRaises, TypeOK, Conns
<1>3. pipe' \in [Conns -> Seq(Debts)]
  <2>1. Append(pipe[writer], [owes |-> label, to |-> Tag(t)]) \in Seq(Debts)
    BY <1>1, <1>2, AppendType DEF TypeOK
  <2>2. QED
    BY <1>2, <2>1 DEF Send, TypeOK
<1>4. [label |-> label, on |-> gen, unexpected |-> 0, attempt |-> req[t].attempt] \in Requests
  <2>1. req[t] \in Requests /\ gen \in 0..MaxConns
    BY DEF TypeOK
  <2>2. QED
    BY <2>1 DEF Requests
<1>5. req' \in [Tasks -> Requests]
  BY <1>4 DEF Send, TypeOK
<1>6. QED
  BY <1>3, <1>5 DEF Send, TypeOK, ClientStates, MainStates

LEMMA ReturnType ==
  ASSUME TypeOK, NEW t \in Clients, Return(t)
  PROVE  /\ pc' \in [Tasks -> MainStates \cup ClientStates]
         /\ req' \in [Tasks -> Requests]
<1>1. NoReq \in Requests
  BY DEF NoReq, Request, Requests, Labels, HelloLabels, NoConn
<1>2. QED
  BY <1>1 DEF Return, TypeOK, Tasks, ClientStates

LEMMA StopReaderType ==
  ASSUME TypeOK, NEW g, StopReader(g)
  PROVE  /\ reader' \in [Conns -> {"off", "run", "failed"}]
         /\ pipe' \in [Conns -> Seq(Debts)]
<1>1. << >> \in Seq(Debts)
  BY EmptyType
<1>2. QED
  BY <1>1 DEF TypeOK, StopReader

LEMMA LeaveType ==
  ASSUME TypeOK, Leave
  PROVE  /\ connected' \in BOOLEAN
         /\ writer' \in 0..MaxConns /\ readerTask' \in 0..MaxConns /\ gen' \in 0..MaxConns
         /\ sock' \in [Conns -> {"open", "closed"}]
         /\ reader' \in [Conns -> {"off", "run", "failed"}]
         /\ pipe' \in [Conns -> Seq(Debts)]
         /\ pc' \in [Tasks -> MainStates \cup ClientStates]
<1>2. pipe' \in [Conns -> Seq(Debts)] /\ reader' \in [Conns -> {"off", "run", "failed"}]
  BY StopReaderType DEF Leave
<1>4. pc' \in [Tasks -> MainStates \cup ClientStates]
  BY DEF TypeOK, Leave, MainStates
<1>5. /\ connected' \in BOOLEAN
      /\ writer' \in 0..MaxConns /\ readerTask' \in 0..MaxConns /\ gen' \in 0..MaxConns
  <2>1. UNCHANGED <<writer, gen>> /\ connected' = FALSE /\ readerTask' = 0
    BY DEF Leave, NoConn
  <2>2. writer \in 0..MaxConns /\ gen \in 0..MaxConns /\ 0 \in 0..MaxConns
    BY DEF TypeOK
  <2>3. QED
    BY <2>1, <2>2
<1>6. sock' \in [Conns -> {"open", "closed"}]
  BY DEF TypeOK, Leave
<1>7. QED
  BY <1>2, <1>4, <1>5, <1>6

LEMMA DiscardType ==
  ASSUME TypeOK, Discard
  PROVE  /\ connected' \in BOOLEAN
         /\ writer' \in 0..MaxConns /\ readerTask' \in 0..MaxConns /\ gen' \in 0..MaxConns
         /\ sock' \in [Conns -> {"open", "closed"}]
         /\ reader' \in [Conns -> {"off", "run", "failed"}]
         /\ givenUp' \in BOOLEAN
BY DEF TypeOK, Discard

LEMMA HelloFailsType ==
  ASSUME TypeOK, HelloFails
  PROVE  /\ connected' \in BOOLEAN
         /\ holder' \in SUBSET Tasks
         /\ pc' \in [Tasks -> MainStates \cup ClientStates]
         /\ req' \in [Tasks -> Requests]
         /\ UNCHANGED <<writer, readerTask, gen, sock, reader, pipe>>
<1>1. NoReq \in Requests
  BY DEF NoReq, Request, Requests, Labels, HelloLabels, NoConn
<1>2. QED
  BY <1>1 DEF TypeOK, HelloFails, Release, MainStates

LEMMA InitType == Init => TypeOK
<1> SUFFICES ASSUME Init PROVE TypeOK
  OBVIOUS
<1>1. NoReq \in Requests
  BY DEF NoReq, Request, Requests, Labels, HelloLabels, NoConn
<1>2. << >> \in Seq(Debts) /\ << >> \in Seq(Frames)
  BY EmptyType
<1>3. pipe \in [Conns -> Seq(Debts)] /\ queue \in Seq(Frames)
  BY <1>2 DEF Init
<1>4. /\ pc \in [Tasks -> MainStates \cup ClientStates]
      /\ req \in [Tasks -> Requests]
  BY <1>1 DEF Init, MainStates, ClientStates
<1>5. /\ writer \in 0..MaxConns /\ readerTask \in 0..MaxConns /\ gen \in 0..MaxConns
      /\ calls \in [Tasks -> 0..MaxCalls]
  BY DEF Init, NoConn
<1>6. /\ sock \in [Conns -> {"open", "closed"}]
      /\ reader \in [Conns -> {"off", "run", "failed"}]
      /\ holder \in SUBSET Tasks
      /\ connected \in BOOLEAN /\ stop \in BOOLEAN /\ desync \in BOOLEAN /\ givenUp \in BOOLEAN
  BY DEF Init
<1>7. QED
  BY <1>3, <1>4, <1>5, <1>6 DEF TypeOK

LEMMA EnvironmentType == TypeOK /\ Environment => TypeOK'
<1> SUFFICES ASSUME TypeOK, Environment PROVE TypeOK'
  OBVIOUS
<1> USE DEF TypeOK, linkVars, taskVars, ghostVars
<1>1. CASE RequestStop
  BY <1>1 DEF RequestStop
<1>2. CASE PeerLost
  BY <1>2 DEF PeerLost
<1>3. CASE ReaderExit
  BY <1>3, EmptyType DEF ReaderExit
<1>4. ASSUME NEW g \in Conns, LeakedReaderEnds(g) PROVE TypeOK'
  BY <1>4, EmptyType DEF LeakedReaderEnds
<1>5. ASSUME NEW g \in Conns, Answer(g) PROVE TypeOK'
  <2>1. PICK code \in Codes : AnswerWith(g, code)
    BY <1>5 DEF Answer
  <2>2. pipe[g] \in Seq(Debts) /\ pipe[g] # << >>
    BY <2>1 DEF AnswerWith
  <2>3. Head(pipe[g]) \in Debts /\ Tail(pipe[g]) \in Seq(Debts)
    BY <2>2, HeadTailType
  <2> DEFINE to == Head(pipe[g]).to
  <2>4. to \in Tags
    BY <2>3 DEF Debts
  <2>5. /\ pipe' = [pipe EXCEPT ![g] = StillOwed(code, to) \o Tail(@)]
        /\ queue' = Append(queue, [code |-> code, to |-> to])
    BY <2>1 DEF AnswerWith
  <2>6. StillOwed(code, to) \o Tail(pipe[g]) \in Seq(Debts)
    BY <2>3, <2>4, StillOwedType, ConcatType
  <2>7. pipe' \in [Conns -> Seq(Debts)]
    BY <2>5, <2>6
  <2>8. [code |-> code, to |-> to] \in Frames
    BY <2>4 DEF Frames
  <2>9. queue' \in Seq(Frames)
    BY <2>5, <2>8, AppendType
  <2>10. QED
    BY <2>1, <2>7, <2>9 DEF AnswerWith
<1>6. QED
  BY <1>1, <1>2, <1>3, <1>4, <1>5 DEF Environment

LEMMA MainStepType == TypeOK /\ MainStep => TypeOK'
<1> SUFFICES ASSUME TypeOK, MainStep PROVE TypeOK'
  OBVIOUS
<1> USE DEF linkVars, taskVars, ghostVars
<1>1. NoReq \in Requests
  BY DEF NoReq, Request, Requests, Labels, HelloLabels, NoConn
<1>2. HasFrame(Main) => Tail(queue) \in Seq(Frames)
  BY HeadTailType DEF HasFrame, TypeOK
<1>3. {"app_start", "device_query", "sync_next_message"} \subseteq Labels /\ Main \in Tasks
  BY DEF Labels, HelloLabels, Tasks
<1>4. CASE StartConnect
  BY <1>4 DEF StartConnect, TypeOK, MainStates
<1>5. CASE ConnectRefused
  BY <1>5 DEF ConnectRefused, TypeOK, MainStates
<1>6. CASE Connected
  <2>1. << >> \in Seq(Frames)
    BY EmptyType
  <2>2. gen + 1 \in Conns /\ gen + 1 \in 0..MaxConns
    BY <1>6 DEF Connected, TypeOK, Conns
  <2>3. QED
    BY <1>6, <2>1, <2>2 DEF Connected, TypeOK, MainStates
<1>7. CASE SendAppStart
  <2>1. CASE Send(Main, "app_start") /\ holder' = {Main} /\ UNCHANGED linkVars
    BY <1>3, <1>7, <2>1, SendType DEF SendAppStart, TypeOK
  <2>2. CASE HelloFails
    BY <1>7, <2>2, HelloFailsType DEF SendAppStart, TypeOK
  <2>3. QED
    BY <1>7, <2>1, <2>2 DEF SendAppStart
<1>8. CASE AppStartReply
  <2>1. queue' \in Seq(Frames)
    BY <1>2, <1>8 DEF AppStartReply, TakeReply
  <2>2. CASE Send(Main, "device_query") /\ UNCHANGED <<linkVars, holder>>
    BY <1>3, <1>8, <2>1, <2>2, SendType DEF AppStartReply, TypeOK
  <2>3. CASE HelloFails
    BY <1>8, <2>1, <2>3, HelloFailsType DEF AppStartReply, TypeOK
  <2>4. QED
    BY <1>8, <2>2, <2>3 DEF AppStartReply
<1>9. CASE DeviceQueryReply
  <2>1. queue' \in Seq(Frames) /\ holder' \in SUBSET Tasks /\ req' \in [Tasks -> Requests]
    BY <1>1, <1>2, <1>9 DEF DeviceQueryReply, TakeReply, Release, TypeOK
  <2>2. CASE Leave
    BY <1>9, <2>1, <2>2, LeaveType DEF DeviceQueryReply, TypeOK
  <2>3. CASE ~stop
    BY <1>9, <2>1, <2>3 DEF DeviceQueryReply, TypeOK, MainStates
  <2>4. QED
    BY <1>9, <2>2, <2>3 DEF DeviceQueryReply
<1>10. CASE HelloTimeout
  <2>1. desync' \in BOOLEAN
    BY <1>10 DEF HelloTimeout, TypeOK, Orphans
  <2>2. QED
    BY <1>10, <2>1, HelloFailsType DEF HelloTimeout, TypeOK
<1>11. CASE SendSync
  <2>1. CASE Send(Main, "sync_next_message") /\ holder' = {Main} /\ UNCHANGED linkVars
    BY <1>3, <1>11, <2>1, SendType DEF SendSync, TypeOK
  <2>2. CASE Leave /\ UNCHANGED <<req, holder>>
    BY <1>11, <2>2, LeaveType DEF SendSync, TypeOK
  <2>3. QED
    BY <1>11, <2>1, <2>2 DEF SendSync
<1>12. CASE SyncReply
  <2>1. queue' \in Seq(Frames) /\ holder' \in SUBSET Tasks /\ req' \in [Tasks -> Requests]
    BY <1>1, <1>2, <1>12 DEF SyncReply, TakeReply, Release, TypeOK
  <2>2. CASE Leave
    BY <1>12, <2>1, <2>2, LeaveType DEF SyncReply, TypeOK
  <2>3. CASE pc' = [pc EXCEPT ![Main] = "live"] /\ UNCHANGED <<linkVars, pipe>>
    BY <1>12, <2>1, <2>3 DEF SyncReply, TypeOK, MainStates
  <2>4. QED
    BY <1>12, <2>2, <2>3 DEF SyncReply
<1>13. CASE SyncTimeout
  <2>1. holder' \in SUBSET Tasks /\ req' \in [Tasks -> Requests]
    BY <1>1, <1>13 DEF SyncTimeout, Release, TypeOK
  <2>2. QED
    BY <1>13, <2>1, LeaveType DEF SyncTimeout, TypeOK
<1>14. CASE Teardown
  <2>1. sock' \in [Conns -> {"open", "closed"}]
    BY <1>14 DEF Teardown, TypeOK
  <2>2. writer' \in 0..MaxConns
    BY <1>14 DEF Teardown, NoConn
  <2>3. QED
    BY <1>14, <2>1, <2>2 DEF Teardown, TypeOK, MainStates
<1>15. CASE RunEnds
  BY <1>15 DEF RunEnds, TypeOK, MainStates
<1>16. CASE CancelTexts
  BY <1>16 DEF CancelTexts, TypeOK, MainStates
<1>17. CASE Close
  <2>2. pipe' \in [Conns -> Seq(Debts)] /\ reader' \in [Conns -> {"off", "run", "failed"}]
    BY <1>17, StopReaderType DEF Close, TypeOK
  <2>3. sock' \in [Conns -> {"open", "closed"}]
    BY <1>17 DEF Close, TypeOK
  <2>4. readerTask' \in 0..MaxConns /\ writer' \in 0..MaxConns
    BY <1>17 DEF Close, TypeOK, NoConn
  <2>5. QED
    BY <1>17, <2>2, <2>3, <2>4 DEF Close, TypeOK, MainStates
<1>18. QED
  BY <1>4, <1>5, <1>6, <1>7, <1>8, <1>9, <1>10, <1>11, <1>12, <1>13, <1>14, <1>15,
     <1>16, <1>17 DEF MainStep

LEMMA TextStepType ==
  ASSUME TypeOK, NEW t \in Texters, TextStep(t) PROVE TypeOK'
<1> USE DEF linkVars, taskVars, ghostVars
<1>1. t \in Tasks /\ t \in Clients
  BY DEF Tasks, Clients
<1>2. "send_text" \in Labels
  BY DEF Labels
<1>3. \A n \in 0..MaxRetries : Request("send_text", n) \in Requests
  BY <1>2 DEF Request, Requests, NoConn
<1>4. HasFrame(t) => Tail(queue) \in Seq(Frames)
  BY HeadTailType DEF HasFrame, TypeOK
<1>5. CASE CallText(t)
  <2>1. calls' \in [Tasks -> 0..MaxCalls]
    BY <1>1, <1>5 DEF CallText, TypeOK
  <2>2. req' \in [Tasks -> Requests]
    BY <1>1, <1>3, <1>5 DEF CallText, TypeOK
  <2>3. QED
    BY <1>1, <1>5, <2>1, <2>2 DEF CallText, TypeOK, ClientStates
<1>6. CASE SendText(t)
  <2>1. CASE Send(t, "send_text") /\ holder' = {t}
    BY <1>1, <1>2, <1>6, <2>1, SendType DEF SendText, TypeOK
  <2>2. CASE Return(t) /\ UNCHANGED <<pipe, holder>>
    BY <1>1, <1>2, <1>6, <2>2, ReturnType DEF SendText, TypeOK
  <2>3. QED
    BY <1>6, <2>1, <2>2 DEF SendText
<1>7. CASE TextReply(t)
  <2>1. queue' \in Seq(Frames)
    BY <1>4, <1>7 DEF TextReply, TakeReply
  <2>2. holder' \in SUBSET Tasks
    BY <1>7 DEF TextReply, Release, TypeOK
  <2>3. QED
    BY <1>1, <1>7, <2>1, <2>2, ReturnType DEF TextReply, TypeOK
<1>8. CASE TextTimeout(t)
  <2>1. holder' \in SUBSET Tasks /\ desync' \in BOOLEAN
    BY <1>8 DEF TextTimeout, Release, Orphans, TypeOK
  <2>2. CASE Return(t)
    BY <1>1, <1>2, <1>8, <2>1, <2>2, ReturnType DEF TextTimeout, TypeOK
  <2>3. CASE /\ req[t].attempt # MaxRetries
             /\ req' = [req EXCEPT ![t] = Request("send_text", req[t].attempt + 1)]
             /\ pc' = [pc EXCEPT ![t] = "lock"]
    <3>1. req[t].attempt + 1 \in 0..MaxRetries
      BY <1>1, <2>3 DEF TypeOK, Requests
    <3>2. req' \in [Tasks -> Requests]
      BY <1>1, <1>3, <2>3, <3>1 DEF TypeOK
    <3>3. QED
      BY <1>1, <1>8, <2>1, <2>3, <3>2 DEF TextTimeout, TypeOK, ClientStates
  <2>4. QED
    BY <1>8, <2>2, <2>3 DEF TextTimeout
<1>9. CASE TextCancelled(t)
  <2>1. holder' \in SUBSET Tasks
    BY <1>9 DEF TextCancelled, Release, TypeOK
  <2>2. QED
    BY <1>1, <1>2, <1>9, <2>1, ReturnType DEF TextCancelled, TypeOK
<1>10. QED
  BY <1>5, <1>6, <1>7, <1>8, <1>9 DEF TextStep

LEMMA ControlStepType ==
  ASSUME TypeOK, NEW c \in Controllers, ControlStep(c) PROVE TypeOK'
<1> USE DEF linkVars, taskVars, ghostVars
<1>1. c \in Tasks /\ c \in Clients
  BY DEF Tasks, Clients
<1>2. ControlLabels \subseteq Labels
  BY DEF Labels
<1>3. \A label \in ControlLabels : Request(label, 0) \in Requests
  BY <1>2 DEF Request, Requests, NoConn
<1>4. HasFrame(c) => Tail(queue) \in Seq(Frames)
  BY HeadTailType DEF HasFrame, TypeOK
<1>5. req[c].label \in Labels
  BY <1>1 DEF TypeOK, Requests
<1>6. CASE CallControl(c)
  <2>1. calls' \in [Tasks -> 0..MaxCalls]
    BY <1>1, <1>6 DEF CallControl, TypeOK
  <2>2. CASE connected
    <3>1. PICK label \in ControlLabels : req' = [req EXCEPT ![c] = Request(label, 0)]
      BY <1>6, <2>2 DEF CallControl
    <3>2. req' \in [Tasks -> Requests]
      BY <1>1, <1>3, <3>1 DEF TypeOK
    <3>3. QED
      BY <1>1, <1>6, <2>1, <2>2, <3>2 DEF CallControl, TypeOK, ClientStates
  <2>3. CASE ~connected
    BY <1>1, <1>6, <2>1, <2>3, ReturnType DEF CallControl, TypeOK
  <2>4. QED
    BY <2>2, <2>3
<1>7. CASE ControlBusy(c)
  BY <1>1, <1>7, ReturnType DEF ControlBusy, TypeOK
<1>8. CASE SendControl(c)
  <2>1. CASE /\ Send(c, req[c].label) /\ holder' = {c}
             /\ UNCHANGED <<linkVars, givenUp>>
    BY <1>1, <1>5, <1>8, <2>1, SendType DEF SendControl, TypeOK
  <2>2. CASE Discard /\ Return(c) /\ UNCHANGED <<pipe, holder>>
    BY <1>1, <1>8, <2>2, ReturnType, DiscardType DEF SendControl, TypeOK
  <2>3. QED
    BY <1>8, <2>1, <2>2 DEF SendControl
<1>9. CASE ControlDeclined(c)
  BY <1>1, <1>9, ReturnType DEF ControlDeclined, TypeOK
<1>10. CASE ControlReply(c)
  <2> DEFINE verdict == Verdict(req[c].label, Frame.code)
  <2>1. queue' \in Seq(Frames) /\ UNCHANGED <<pipe, calls, stop, desync>>
    BY <1>4, <1>10 DEF ControlReply, TakeReply
  <2>2. CASE verdict = "none"
    <3>1. pc' \in [Tasks -> MainStates \cup ClientStates]
      BY <1>1, <1>10, <2>2 DEF ControlReply, TypeOK, ClientStates
    <3>2. QED
      BY <1>10, <2>1, <2>2, <3>1 DEF ControlReply, TypeOK
  <2>3. CASE verdict # "none"
    <3>1. holder' \in SUBSET Tasks
      BY <1>10, <2>3 DEF ControlReply, Release, TypeOK
    <3>2. /\ pc' \in [Tasks -> MainStates \cup ClientStates]
          /\ req' \in [Tasks -> Requests]
      BY <1>1, <1>10, <2>3, ReturnType DEF ControlReply
    <3>3. CASE Discard
      BY <2>1, <3>1, <3>2, <3>3, DiscardType DEF TypeOK
    <3>4. CASE UNCHANGED <<linkVars, givenUp>>
      BY <2>1, <3>1, <3>2, <3>4 DEF TypeOK
    <3>5. QED
      BY <1>10, <2>3, <3>3, <3>4 DEF ControlReply
  <2>4. QED
    BY <2>2, <2>3
<1>11. CASE CollectContact(c)
  <2>1. queue' \in Seq(Frames)
    BY <1>4, <1>11 DEF CollectContact
  <2>2. CASE Release(c) /\ Return(c)
    BY <1>1, <1>11, <2>1, <2>2, ReturnType DEF CollectContact, Release, TypeOK
  <2>3. CASE UNCHANGED <<holder, pc, req>>
    BY <1>11, <2>1, <2>3 DEF CollectContact, TypeOK
  <2>4. QED
    BY <1>11, <2>2, <2>3 DEF CollectContact
<1>12. CASE ControlTimeout(c)
  BY <1>1, <1>12, ReturnType, DiscardType DEF ControlTimeout, Release, TypeOK
<1>13. CASE ControlCancelled(c)
  <2>1. CASE Release(c) /\ Discard
    BY <1>1, <1>13, <2>1, ReturnType, DiscardType DEF ControlCancelled, Release, TypeOK
  <2>2. CASE UNCHANGED <<linkVars, holder, givenUp>>
    BY <1>1, <1>13, <2>2, ReturnType DEF ControlCancelled, TypeOK
  <2>3. QED
    BY <1>13, <2>1, <2>2 DEF ControlCancelled
<1>14. QED
  BY <1>6, <1>7, <1>8, <1>9, <1>10, <1>11, <1>12, <1>13 DEF ControlStep

LEMMA SkipType ==
  ASSUME TypeOK, NEW t \in Tasks, SkipUnexpected(t) PROVE TypeOK'
<1> USE DEF linkVars, taskVars, ghostVars
<1>1. queue' \in Seq(Frames)
  BY HeadTailType DEF SkipUnexpected, HasFrame, TypeOK
<1>2. req[t].unexpected + 1 \in 0..4 /\ req[t] \in Requests
  BY DEF SkipUnexpected, Matches, MaxUnexpected, TypeOK, Requests
<1>3. [req[t] EXCEPT !.unexpected = req[t].unexpected + 1] \in Requests
  BY <1>2 DEF Requests
<1>4. req' \in [Tasks -> Requests]
  BY <1>3 DEF SkipUnexpected, TypeOK
<1>5. QED
  BY <1>1, <1>4 DEF SkipUnexpected, TypeOK

(* Every behaviour keeps every variable within its type. *)
THEOREM TypeCorrect == Spec => []TypeOK
<1>1. TypeOK /\ [Next]_vars => TypeOK'
  <2> SUFFICES ASSUME TypeOK, [Next]_vars PROVE TypeOK'
    OBVIOUS
  <2>1. CASE UNCHANGED vars
    BY <2>1 DEF TypeOK, vars, linkVars, taskVars, ghostVars
  <2>2. CASE Next
    BY <2>1, <2>2, EnvironmentType, MainStepType, TextStepType, ControlStepType, SkipType
       DEF Next, Terminated, SkipHeartbeat
  <2>3. QED
    BY <2>1, <2>2
<1>2. QED
  BY <1>1, InitType, PTL DEF Spec

-----------------------------------------------------------------------------
(* Who may be waiting for a reply, and on which connection.                 *)

LockInv == \A t \in Tasks : Waiting(t) => holder = {t}

MainInv ==
  /\ pc[Main] \in {"hello", "await", "live"} =>
       gen \in Conns /\ writer = gen /\ readerTask = gen
  /\ pc[Main] = "await" => req[Main].on = gen
  /\ pc[Main] # "collect"
  /\ connected => pc[Main] \in {"await", "live"}
  /\ writer \in {NoConn, gen}

WaiterInv ==
  /\ \A t \in Tasks : Waiting(t) => req[t].on \in 1..gen
  /\ \A c \in Controllers :
       Waiting(c) => req[c].on = gen /\ writer = gen /\ readerTask = gen /\ pc[Main] = "live"

Turns   == LockInv /\ MainInv /\ WaiterInv
TurnInv == TypeOK /\ Turns

(* The facts of TypeOK that the proof of Turns needs. *)
LEMMA TurnTypes ==
  ASSUME TypeOK
  PROVE  /\ gen \in Nat /\ gen \in 0..MaxConns /\ writer \in 0..MaxConns
         /\ DOMAIN pc = Tasks /\ DOMAIN req = Tasks
         /\ pc = [t \in Tasks |-> pc[t]] /\ req = [t \in Tasks |-> req[t]]
         /\ holder \subseteq Tasks
BY DEF TypeOK

LEMMA TaskKinds ==
  /\ Main \in Tasks
  /\ \A t \in Texters : t \in Tasks /\ t \in Clients /\ t # Main /\ t \notin Controllers
  /\ \A c \in Controllers : c \in Tasks /\ c \in Clients /\ c # Main /\ c \notin Texters
BY DEF Tasks, Clients

LEMMA TurnsInit == Init => Turns
BY TaskKinds DEF Init, Turns, LockInv, MainInv, WaiterInv, Waiting, NoConn

(* What Turns depends on. *)
turnVars == <<connected, writer, readerTask, gen, pc, req, holder>>
LEMMA TurnsStutter == Turns /\ UNCHANGED turnVars => Turns'
BY DEF Turns, LockInv, MainInv, WaiterInv, Waiting, turnVars

(* A task that finds the lock free and sends a command.                     *)
LEMMA TurnsSend ==
  ASSUME TurnInv, NEW t \in Tasks, NEW label \in Labels, LockFree, Send(t, label), holder' = {t},
         UNCHANGED linkVars,
         t = Main => pc[Main] \in {"hello", "live"},
         t \in Controllers => connected
  PROVE  Turns'
<1> USE TurnTypes, TaskKinds DEF TurnInv, Turns, linkVars
<1>1. \A u \in Tasks : ~Waiting(u)
  BY DEF LockInv, LockFree
<1>2. writer = gen /\ gen \in Conns /\ gen \in 1..gen
  BY DEF Send, WriteRaises, MainInv, NoConn, Conns
<1>3. \A u \in Tasks : u # t => pc'[u] = pc[u] /\ req'[u] = req[u]
  BY DEF Send
<1>4. pc'[t] = "await" /\ req'[t].on = gen
  BY DEF Send
<1>5. LockInv'
  BY <1>1, <1>3 DEF LockInv, Waiting
<1>6. MainInv'
  BY <1>1, <1>2, <1>3, <1>4 DEF MainInv
<1>7. t \in Controllers => pc[Main] = "live" /\ readerTask = gen
  BY <1>1 DEF MainInv, Waiting
<1>8. WaiterInv'
  BY <1>1, <1>2, <1>3, <1>4, <1>7 DEF WaiterInv, Waiting
<1>9. QED
  BY <1>5, <1>6, <1>8

(* A client whose call is over, or that goes back to wait for the lock, on a *)
(* link that is left alone or discarded.                                    *)
LEMMA TurnsClient ==
  ASSUME TurnInv, NEW t \in Clients, NEW state \in {"idle", "lock"},
         pc' = [pc EXCEPT ![t] = state], NEW r, req' = [req EXCEPT ![t] = r],
         holder' = holder \ {t} \/ (holder' = holder /\ ~Waiting(t)),
         UNCHANGED linkVars \/ Discard
  PROVE  Turns'
<1> USE TurnTypes, TaskKinds DEF TurnInv, Turns, linkVars
<1>1. t \in Tasks /\ t # Main
  BY DEF Clients
<1>2. \A u \in Tasks : u # t => pc'[u] = pc[u] /\ req'[u] = req[u]
  OBVIOUS
<1>3. ~Waiting(t)'
  BY <1>1 DEF Waiting
<1>4. /\ UNCHANGED <<writer, readerTask, gen>>
      /\ connected' => connected
  BY DEF Discard
<1>5. \A u \in Tasks : u # t /\ Waiting(u) => t \notin holder
  BY <1>1 DEF LockInv
<1>6. LockInv'
  BY <1>2, <1>3, <1>5 DEF LockInv, Waiting
<1>7. MainInv'
  BY <1>1, <1>2, <1>4 DEF MainInv
<1>8. WaiterInv'
  BY <1>1, <1>2, <1>3, <1>4 DEF WaiterInv, Waiting
<1>9. QED
  BY <1>6, <1>7, <1>8

(* Main moves on while no control command is outstanding.                   *)
LEMMA TurnsMain ==
  ASSUME TurnInv, NEW state, state \notin {"await", "collect"},
         pc' = [pc EXCEPT ![Main] = state],
         req' = req \/ (\E r : req' = [req EXCEPT ![Main] = r]),
         holder' = holder \ {Main} \/ (holder' = holder /\ ~Waiting(Main)),
         gen' = gen \/ gen' = gen + 1,
         \A c \in Controllers : ~Waiting(c),
         writer' \in {NoConn, gen'},
         state \in {"hello", "live"} => gen' \in Conns /\ writer' = gen' /\ readerTask' = gen',
         connected' => state = "live"
  PROVE  Turns'
<1> USE TurnTypes, TaskKinds DEF TurnInv, Turns
<1>1. \A u \in Tasks : u # Main => pc'[u] = pc[u] /\ req'[u] = req[u]
  OBVIOUS
<1>2. ~Waiting(Main)' /\ pc'[Main] = state
  BY DEF Waiting
<1>3. \A u \in Tasks : u # Main /\ Waiting(u) => Main \notin holder
  BY DEF LockInv
<1>4. LockInv'
  BY <1>1, <1>2, <1>3 DEF LockInv, Waiting
<1>5. MainInv'
  BY <1>2 DEF MainInv
<1>6. \A n \in 1..gen : n \in 1..gen'
  OBVIOUS
<1>7. WaiterInv'
  BY <1>1, <1>2, <1>6 DEF WaiterInv, Waiting
<1>8. QED
  BY <1>4, <1>5, <1>7

LEMMA TurnsLeave ==
  ASSUME TurnInv, Leave, \A c \in Controllers : ~Waiting(c),
         req' = req \/ (\E r : req' = [req EXCEPT ![Main] = r]),
         holder' = holder \ {Main} \/ (holder' = holder /\ ~Waiting(Main))
  PROVE  Turns'
<1>1. PICK state \in {"down", "leaving"} : pc' = [pc EXCEPT ![Main] = state]
  BY DEF Leave
<1>2. /\ writer' = writer /\ gen' = gen /\ connected' = FALSE
      /\ writer \in {NoConn, gen}
  BY DEF Leave, TurnInv, Turns, MainInv
<1>3. QED
  BY <1>1, <1>2, TurnsMain

LEMMA TurnsMainStep == TurnInv /\ MainStep => Turns'
<1> SUFFICES ASSUME TurnInv, MainStep PROVE Turns'
  OBVIOUS
<1> USE TurnTypes, TaskKinds DEF TurnInv
<1>1. pc[Main] # "live" => \A c \in Controllers : ~Waiting(c)
  BY DEF Turns, WaiterInv
<1>2. LockFree => \A t \in Tasks : ~Waiting(t)
  BY DEF Turns, LockInv, LockFree
<1>3. /\ pc[Main] \in {"hello", "await", "live"} => gen \in Conns /\ writer = gen /\ readerTask = gen
      /\ connected => pc[Main] \in {"await", "live"}
      /\ writer \in {NoConn, gen}
      /\ pc[Main] # "collect"
  BY DEF Turns, MainInv
<1>4. pc[Main] \notin {"await", "collect"} => ~Waiting(Main)
  BY DEF Waiting
<1>5. {"app_start", "device_query", "sync_next_message"} \subseteq Labels
  BY DEF Labels, HelloLabels
<1>6. ASSUME HelloFails, pc[Main] \in {"hello", "await"} PROVE Turns'
  BY <1>1, <1>3, <1>6, TurnsMain DEF HelloFails, Release
<1>7. ASSUME Leave, pc[Main] = "await", holder' = holder \ {Main},
             req' = [req EXCEPT ![Main] = NoReq]
      PROVE  Turns'
  BY <1>1, <1>7, TurnsLeave
<1>8. CASE StartConnect
  BY <1>1, <1>3, <1>4, <1>8, TurnsMain DEF StartConnect, linkVars
<1>9. CASE ConnectRefused
  BY <1>1, <1>3, <1>4, <1>9, TurnsMain DEF ConnectRefused
<1>10. CASE Connected
  <2>1. /\ pc[Main] = "connecting" /\ pc' = [pc EXCEPT ![Main] = "hello"]
        /\ req' = req /\ holder' = holder /\ connected' = connected
        /\ gen' = gen + 1 /\ writer' = gen' /\ readerTask' = gen' /\ gen < MaxConns
    BY <1>10 DEF Connected
  <2>2. gen' \in Conns /\ ~connected
    BY <1>3, <2>1 DEF Conns
  <2>3. QED
    BY <1>1, <1>4, <2>1, <2>2, TurnsMain
<1>11. CASE SendAppStart
  <2>1. CASE Send(Main, "app_start") /\ holder' = {Main} /\ UNCHANGED linkVars
    BY <1>5, <1>11, <2>1, TurnsSend DEF SendAppStart
  <2>2. QED
    BY <1>6, <1>11, <2>1 DEF SendAppStart
<1>12. CASE AppStartReply
  <2>1. pc[Main] = "await"
    BY <1>12 DEF AppStartReply, TakeReply
  <2>2. CASE Send(Main, "device_query") /\ UNCHANGED <<linkVars, holder>>
    <3>1. pc' = pc
      BY <2>1, <2>2 DEF Send
    <3>2. \A u \in Tasks : u # Main => req'[u] = req[u]
      BY <2>2 DEF Send
    <3>3. req'[Main].on = gen
      BY <2>2 DEF Send
    <3>4. QED
      BY <1>3, <2>1, <2>2, <3>1, <3>2, <3>3 DEF Turns, LockInv, MainInv, WaiterInv, Waiting, linkVars
  <2>3. QED
    BY <1>6, <1>12, <2>1, <2>2 DEF AppStartReply
<1>13. CASE DeviceQueryReply
  <2>1. pc[Main] = "await"
    BY <1>13 DEF DeviceQueryReply, TakeReply
  <2>2. CASE ~stop
    BY <1>1, <1>3, <1>13, <2>1, <2>2, TurnsMain DEF DeviceQueryReply, Release
  <2>3. QED
    BY <1>7, <1>13, <2>1, <2>2 DEF DeviceQueryReply, Release
<1>14. CASE HelloTimeout
  BY <1>3, <1>6, <1>14 DEF HelloTimeout, TimedOut, Waiting
<1>15. CASE SendSync
  <2>1. CASE Send(Main, "sync_next_message") /\ holder' = {Main} /\ UNCHANGED linkVars
    BY <1>5, <1>15, <2>1, TurnsSend DEF SendSync
  <2>2. CASE Leave /\ UNCHANGED <<req, holder>>
    BY <1>2, <1>15, <2>2, TurnsLeave DEF SendSync
  <2>3. QED
    BY <1>15, <2>1, <2>2 DEF SendSync
<1>16. CASE SyncReply
  <2>1. pc[Main] = "await"
    BY <1>16 DEF SyncReply, TakeReply
  <2>2. CASE pc' = [pc EXCEPT ![Main] = "live"] /\ UNCHANGED <<linkVars, pipe>>
    BY <1>1, <1>3, <1>16, <2>1, <2>2, TurnsMain DEF SyncReply, Release, linkVars
  <2>3. QED
    BY <1>7, <1>16, <2>1, <2>2 DEF SyncReply, Release
<1>17. CASE SyncTimeout
  BY <1>3, <1>7, <1>17 DEF SyncTimeout, TimedOut, Waiting, Release
<1>18. CASE Teardown
  BY <1>1, <1>3, <1>4, <1>18, TurnsMain DEF Teardown
<1>19. CASE RunEnds
  BY <1>1, <1>3, <1>4, <1>19, TurnsMain DEF RunEnds, linkVars
<1>20. CASE CancelTexts
  BY <1>1, <1>3, <1>4, <1>20, TurnsMain DEF CancelTexts, linkVars
<1>21. CASE Close
  BY <1>1, <1>3, <1>4, <1>21, TurnsMain DEF Close
<1>22. QED
  BY <1>8, <1>9, <1>10, <1>11, <1>12, <1>13, <1>14, <1>15, <1>16, <1>17, <1>18, <1>19,
     <1>20, <1>21 DEF MainStep

LEMMA TurnsClientStep ==
  ASSUME TurnInv, NEW t \in Clients,
         (t \in Texters /\ TextStep(t)) \/ (t \in Controllers /\ ControlStep(t))
  PROVE  Turns'
<1> USE TaskKinds DEF linkVars
<1>1. t \in Tasks /\ t # Main
  BY DEF Clients
<1>2. pc[t] \in {"idle", "lock"} => ~Waiting(t)
  BY DEF Waiting
<1>3. ASSUME Return(t),
             holder' = holder \ {t} \/ (holder' = holder /\ ~Waiting(t)),
             UNCHANGED linkVars \/ Discard
      PROVE  Turns'
  <2>1. pc' = [pc EXCEPT ![t] = "idle"] /\ req' = [req EXCEPT ![t] = NoReq]
    BY <1>3 DEF Return
  <2>2. QED
    BY <1>3, <2>1, TurnsClient
<1>4. CASE t \in Texters /\ CallText(t)
  <2>1. /\ pc' = [pc EXCEPT ![t] = "lock"] /\ req' = [req EXCEPT ![t] = Request("send_text", 1)]
        /\ holder' = holder /\ ~Waiting(t)
    BY <1>2, <1>4 DEF CallText
  <2>2. QED
    BY <1>4, <2>1, TurnsClient DEF CallText
<1>5. CASE t \in Texters /\ SendText(t)
  <2>1. CASE Send(t, "send_text") /\ holder' = {t}
    BY <1>1, <1>5, <2>1, TurnsSend DEF SendText, Labels
  <2>2. CASE Return(t) /\ UNCHANGED <<pipe, holder>>
    BY <1>2, <1>3, <1>5, <2>2 DEF SendText
  <2>3. QED
    BY <1>5, <2>1, <2>2 DEF SendText
<1>6. CASE t \in Texters /\ TextReply(t)
  BY <1>3, <1>6 DEF TextReply, Release
<1>7. CASE t \in Texters /\ TextTimeout(t)
  <2>1. CASE Return(t)
    BY <1>3, <1>7, <2>1 DEF TextTimeout, Release
  <2>2. CASE /\ req' = [req EXCEPT ![t] = Request("send_text", req[t].attempt + 1)]
             /\ pc' = [pc EXCEPT ![t] = "lock"]
    BY <1>7, <2>2, TurnsClient DEF TextTimeout, Release
  <2>3. QED
    BY <1>7, <2>1, <2>2 DEF TextTimeout
<1>8. CASE t \in Texters /\ TextCancelled(t)
  BY <1>3, <1>8 DEF TextCancelled, Release
<1>9. CASE t \in Controllers /\ CallControl(t)
  <2>1. CASE connected
    <3>1. PICK label \in ControlLabels : req' = [req EXCEPT ![t] = Request(label, 0)]
      BY <1>9, <2>1 DEF CallControl
    <3>2. /\ pc' = [pc EXCEPT ![t] = "lock"] /\ holder' = holder /\ ~Waiting(t)
      BY <1>2, <1>9, <2>1 DEF CallControl
    <3>3. QED
      BY <1>9, <3>1, <3>2, TurnsClient DEF CallControl
  <2>2. CASE ~connected
    BY <1>2, <1>3, <1>9, <2>2 DEF CallControl
  <2>3. QED
    BY <2>1, <2>2
<1>10. CASE t \in Controllers /\ ControlBusy(t)
  BY <1>2, <1>3, <1>10 DEF ControlBusy
<1>11. CASE t \in Controllers /\ SendControl(t)
  <2>1. CASE Send(t, req[t].label) /\ holder' = {t} /\ UNCHANGED <<linkVars, givenUp>>
    <3>1. req[t].label \in Labels
      BY <1>1 DEF TurnInv, TypeOK, Requests
    <3>2. QED
      BY <1>1, <1>11, <2>1, <3>1, TurnsSend DEF SendControl
  <2>2. CASE Discard /\ Return(t) /\ UNCHANGED <<pipe, holder>>
    BY <1>2, <1>3, <1>11, <2>2 DEF SendControl
  <2>3. QED
    BY <1>11, <2>1, <2>2 DEF SendControl
<1>12. CASE t \in Controllers /\ ControlDeclined(t)
  BY <1>2, <1>3, <1>12 DEF ControlDeclined
<1>13. CASE t \in Controllers /\ ControlReply(t)
  <2> DEFINE verdict == Verdict(req[t].label, Frame.code)
  <2>1. CASE verdict = "none"
    <3>1. /\ pc[t] = "await" /\ pc' = [pc EXCEPT ![t] = "collect"]
          /\ UNCHANGED <<linkVars, req, holder>>
      BY <1>13, <2>1 DEF ControlReply, TakeReply
    <3>2. \A u \in Tasks : Waiting(u)' <=> Waiting(u)
      BY <1>1, <3>1, TurnTypes DEF TurnInv, Waiting
    <3>3. pc'[Main] = pc[Main]
      BY <1>1, <3>1, TurnTypes DEF TurnInv
    <3>4. QED
      BY <3>1, <3>2, <3>3 DEF TurnInv, Turns, LockInv, MainInv, WaiterInv
  <2>2. CASE verdict # "none"
    BY <1>3, <1>13, <2>2 DEF ControlReply, Release
  <2>3. QED
    BY <2>1, <2>2
<1>14. CASE t \in Controllers /\ CollectContact(t)
  <2>1. CASE Release(t) /\ Return(t)
    BY <1>3, <1>14, <2>1 DEF CollectContact, Release
  <2>2. CASE UNCHANGED <<holder, pc, req>>
    BY <1>14, <2>2, TurnsStutter DEF CollectContact, TurnInv, turnVars
  <2>3. QED
    BY <1>14, <2>1, <2>2 DEF CollectContact
<1>15. CASE t \in Controllers /\ ControlTimeout(t)
  BY <1>3, <1>15 DEF ControlTimeout, Release
<1>16. CASE t \in Controllers /\ ControlCancelled(t)
  BY <1>3, <1>16 DEF ControlCancelled, Release
<1>17. QED
  BY <1>4, <1>5, <1>6, <1>7, <1>8, <1>9, <1>10, <1>11, <1>12, <1>13, <1>14, <1>15, <1>16
     DEF TextStep, ControlStep

LEMMA TurnsOtherStep ==
  ASSUME TurnInv, Environment \/ Terminated \/ \E t \in Tasks : SkipHeartbeat(t) \/ SkipUnexpected(t)
  PROVE  Turns'
<1> USE DEF linkVars, taskVars, turnVars
<1>1. CASE Environment
  BY <1>1, TurnsStutter DEF Environment, RequestStop, PeerLost, ReaderExit, Answer,
     AnswerWith, LeakedReaderEnds, TurnInv
<1>2. CASE Terminated \/ \E t \in Tasks : SkipHeartbeat(t)
  BY <1>2, TurnsStutter DEF Terminated, SkipHeartbeat, vars, TurnInv
<1>3. ASSUME NEW t \in Tasks, SkipUnexpected(t) PROVE Turns'
  <2>1. /\ UNCHANGED <<connected, writer, readerTask, gen, pc, holder>>
        /\ req' = [req EXCEPT ![t].unexpected = @ + 1]
    BY <1>3 DEF SkipUnexpected
  <2>2. req[t] \in Requests
    BY DEF TurnInv, TypeOK
  <2>3. \A u \in Tasks : req'[u].on = req[u].on
    BY <2>1, <2>2, TurnTypes DEF TurnInv, Requests
  <2>4. QED
    BY <2>1, <2>3, TaskKinds DEF TurnInv, Turns, LockInv, MainInv, WaiterInv, Waiting
<1>4. QED
  BY <1>1, <1>2, <1>3

THEOREM TurnsCorrect == Spec => []TurnInv
<1>1. TurnInv /\ [Next]_vars => Turns'
  <2> SUFFICES ASSUME TurnInv, [Next]_vars PROVE Turns'
    OBVIOUS
  <2>1. CASE UNCHANGED vars
    BY <2>1, TurnsStutter DEF TurnInv, vars, turnVars, linkVars, taskVars
  <2>2. CASE Next
    <3>1. CASE MainStep
      BY <3>1, TurnsMainStep
    <3>2. ASSUME NEW t \in Texters, TextStep(t) PROVE Turns'
      <4>1. t \in Clients
        BY TaskKinds
      <4>2. (t \in Texters /\ TextStep(t)) \/ (t \in Controllers /\ ControlStep(t))
        BY <3>2
      <4>3. QED
        BY <4>1, <4>2, TurnsClientStep
    <3>3. ASSUME NEW c \in Controllers, ControlStep(c) PROVE Turns'
      BY <3>3, TaskKinds, TurnsClientStep
    <3>4. CASE Environment \/ Terminated \/ \E t \in Tasks : SkipHeartbeat(t) \/ SkipUnexpected(t)
      BY <3>4, TurnsOtherStep
    <3>5. QED
      BY <2>2, <3>1, <3>2, <3>3, <3>4 DEF Next
  <2>3. QED
    BY <2>1, <2>2
<1>2. Init => TurnInv
  BY TurnsInit, InitType DEF TurnInv
<1>3. TurnInv <=> TypeOK /\ Turns
  BY DEF TurnInv
<1>4. QED
  BY <1>1, <1>2, <1>3, TypeCorrect, PTL DEF Spec

(* While a control command is outstanding the link it was sent on stays the *)
(* current one, with Main waiting its turn.                                 *)
THEOREM ControlOnCurrentCorrect == Spec => []ControlOnCurrent
<1>1. TurnInv => ControlOnCurrent
  BY TaskKinds DEF TurnInv, Turns, LockInv, WaiterInv, ControlOnCurrent
<1>2. QED
  BY <1>1, TurnsCorrect, PTL

(* `connected` implies a finished handshake and a matching writer and reader. *)
THEOREM ConnectedIsUsableCorrect == Spec => []ConnectedIsUsable
<1>1. TurnInv => ConnectedIsUsable
  BY DEF TurnInv, Turns, MainInv, ConnectedIsUsable
<1>2. QED
  BY <1>1, TurnsCorrect, PTL

-----------------------------------------------------------------------------
(* What is in the response queue and on the wire while the queue is in step: *)
(* nothing, or what is left of the reply to the one outstanding command.    *)

WaitsOn(t) == Waiting(t) /\ req[t].on = gen
Listing    == {"get_contacts", "contact_list"}
Terminal(code) == code \notin {"CONTACTS_START", "CONTACT"}

OwnDebt(t, d) ==
  /\ d.to = Tag(t)
  /\ d.owes \in Listing => req[t].label = "get_contacts"
  /\ d.owes = "sync_next_message" => req[t].label = "sync_next_message"
OwnFrame(t, f) ==
  /\ f.to = Tag(t)
  /\ ~Terminal(f.code) => req[t].label = "get_contacts"
  /\ f.code = "CONTACT_MSG" => req[t].label = "sync_next_message"

OwnBacklog(t) ==
  /\ Len(pipe[gen]) <= 1
  /\ \A i \in 1..Len(pipe[gen]) : OwnDebt(t, pipe[gen][i])
  /\ \A i \in 1..Len(queue) :
       /\ OwnFrame(t, queue[i])
       /\ Terminal(queue[i].code) => i = Len(queue) /\ pipe[gen] = << >>

EmptyBacklog == queue = << >> /\ (gen \in Conns => pipe[gen] = << >>)

LinkInv ==
  /\ \A g \in Conns : g > gen => pipe[g] = << >>
  /\ \A g \in Conns : reader[g] # "run" => pipe[g] = << >>
  /\ givenUp => WriteRaises /\ \A t \in Tasks : ~WaitsOn(t)

Ended == pc[Main] \in {"sweep", "closed"}
InStep ==
  ~desync /\ ~givenUp =>
    /\ Ended \/ (\E t \in Tasks : WaitsOn(t)) \/ EmptyBacklog
    /\ \A t \in Tasks : WaitsOn(t) => OwnBacklog(t)


LEMMA OneWaiter ==
  ASSUME TurnInv
  PROVE  /\ \A t, u \in Tasks : Waiting(t) /\ Waiting(u) => t = u
         /\ LockFree => \A t \in Tasks : ~Waiting(t)
         /\ \A t \in Tasks : Waiting(t) => gen \in Conns /\ gen \in 1..gen
BY TurnTypes DEF TurnInv, Turns, LockInv, LockFree, WaiterInv, Conns

(* A step that touches neither the queue nor whoever waits on it.           *)
LEMMA StepKeep ==
  ASSUME TurnInv, LinkInv, InStep, gen' = gen, queue' = queue,
         \A u \in Tasks : WaitsOn(u)' <=> WaitsOn(u),
         \A u \in Tasks : WaitsOn(u) => calls'[u] = calls[u] /\ req'[u].label = req[u].label,
         \A g \in Conns : pipe'[g] = pipe[g] \/ pipe'[g] = << >>,
         \A g \in Conns : reader'[g] # "run" => reader[g] # "run" \/ pipe'[g] = << >>,
         desync => desync', givenUp' = givenUp, WriteRaises => WriteRaises', Ended => Ended'
  PROVE  LinkInv' /\ InStep'
<1> USE TurnTypes DEF TurnInv
<1>1. LinkInv'
  BY DEF LinkInv
<1>2. EmptyBacklog => EmptyBacklog'
  BY DEF EmptyBacklog
<1>3. ASSUME NEW u \in Tasks, WaitsOn(u), OwnBacklog(u), gen \in Conns PROVE OwnBacklog(u)'
  <2>1. pipe'[gen] = pipe[gen] \/ pipe'[gen] = << >>
    BY <1>3
  <2>2. Tag(u)' = Tag(u)
    BY <1>3 DEF Tag
  <2>3. \A f : OwnFrame(u, f) => OwnFrame(u, f)'
    BY <1>3, <2>2 DEF OwnFrame
  <2>4. \A d : OwnDebt(u, d) => OwnDebt(u, d)'
    BY <1>3, <2>2 DEF OwnDebt
  <2>5. \A i \in 1..Len(pipe'[gen]) : i \in 1..Len(pipe[gen]) /\ pipe'[gen][i] = pipe[gen][i]
    BY <2>1
  <2>6. Len(pipe'[gen]) <= 1
    BY <1>3, <2>1 DEF OwnBacklog
  <2>7. pipe[gen] = << >> => pipe'[gen] = << >>
    BY <2>1
  <2>8. QED
    BY <1>3, <2>3, <2>4, <2>5, <2>6, <2>7 DEF OwnBacklog
<1>4. \A u \in Tasks : WaitsOn(u) => gen \in Conns
  BY OneWaiter DEF WaitsOn
<1>5. QED
  BY <1>1, <1>2, <1>3, <1>4 DEF InStep

(* The links after a step that opens none and writes nothing.               *)
LEMMA LinkKeep ==
  ASSUME TypeOK, LinkInv, gen' = gen,
         \A g \in Conns : pipe'[g] = pipe[g] \/ pipe'[g] = << >>,
         \A g \in Conns : reader'[g] # "run" => reader[g] # "run" \/ pipe'[g] = << >>,
         givenUp' => WriteRaises' /\ \A u \in Tasks : ~WaitsOn(u)'
  PROVE  LinkInv'
BY TurnTypes DEF LinkInv

(* The one waiter stops waiting.                                            *)
LEMMA StepDone ==
  ASSUME LinkInv', \A u \in Tasks : ~WaitsOn(u)',
         ~desync' /\ ~givenUp' => Ended' \/ EmptyBacklog'
  PROVE  LinkInv' /\ InStep'
BY DEF InStep

(* The next frame of a queue in step is the waiter's own, and the last one  *)
(* of its reply leaves nothing behind.                                      *)
LEMMA FrameIsOwn ==
  ASSUME TurnInv, LinkInv, InStep, ~desync, NEW t \in Tasks, HasFrame(t)
  PROVE  /\ OwnFrame(t, Frame) /\ OwnBacklog(t) /\ gen \in Conns
         /\ Terminal(Frame.code) => Tail(queue) = << >> /\ pipe[gen] = << >>
<1> USE DEF TurnInv
<1>1. WaitsOn(t)
  BY DEF HasFrame, WaitsOn
<1>2. ~givenUp
  BY <1>1 DEF LinkInv
<1>3. OwnBacklog(t) /\ gen \in Conns
  BY <1>1, <1>2, OneWaiter DEF InStep, WaitsOn
<1>4. queue \in Seq(Frames) /\ queue # << >>
  BY DEF TypeOK, HasFrame
<1>5. Frame = queue[1] /\ 1 \in 1..Len(queue)
  BY <1>4 DEF Frame
<1>6. OwnFrame(t, Frame) /\ (Terminal(Frame.code) => Len(queue) = 1 /\ pipe[gen] = << >>)
  BY <1>3, <1>5 DEF OwnBacklog
<1>7. Len(queue) = 1 => Tail(queue) = << >>
  BY <1>4, TailOfOne
<1>8. QED
  BY <1>3, <1>6, <1>7

(* The waiter takes a frame and goes on waiting.                            *)
LEMMA StepTake ==
  ASSUME TurnInv, LinkInv, InStep, NEW t \in Tasks, HasFrame(t), queue' = Tail(queue),
         UNCHANGED <<linkVars, pipe, calls, desync, givenUp>>,
         \A u \in Tasks : Waiting(u)' <=> Waiting(u),
         \A u \in Tasks : req'[u].on = req[u].on /\ req'[u].label = req[u].label
  PROVE  LinkInv' /\ InStep'
<1> USE DEF linkVars, TurnInv
<1>1. \A u \in Tasks : WaitsOn(u)' <=> WaitsOn(u)
  BY DEF WaitsOn
<1>2. LinkInv'
  BY <1>1 DEF LinkInv, WriteRaises
<1>3. WaitsOn(t) /\ \A u \in Tasks : WaitsOn(u) => u = t
  BY OneWaiter DEF HasFrame, WaitsOn
<1>4. ASSUME ~desync PROVE OwnBacklog(t)'
  <2>1. OwnBacklog(t)
    BY <1>4, FrameIsOwn
  <2>2. queue \in Seq(Frames) /\ queue # << >>
    BY DEF TypeOK, HasFrame
  <2>3. \A i \in 1..Len(queue') : i + 1 \in 1..Len(queue) /\ queue'[i] = queue[i + 1]
    BY <2>2
  <2>4. Len(queue') = Len(queue) - 1
    BY <2>2
  <2>5. \A f : OwnFrame(t, f) => OwnFrame(t, f)'
    BY DEF OwnFrame, Tag
  <2>6. \A d : OwnDebt(t, d) => OwnDebt(t, d)'
    BY DEF OwnDebt, Tag
  <2>7. ASSUME NEW i \in 1..Len(queue'), NEW f, f = queue'[i]
        PROVE  /\ OwnFrame(t, f)'
               /\ Terminal(f.code) => i = Len(queue') /\ pipe[gen] = << >>
    <3>1. /\ OwnFrame(t, queue[i + 1])
          /\ Terminal(queue[i + 1].code) => i + 1 = Len(queue) /\ pipe[gen] = << >>
      BY <2>1, <2>3 DEF OwnBacklog
    <3>2. Len(queue) \in Nat /\ i \in Nat
      BY <2>2
    <3>3. QED
      BY <2>3, <2>4, <2>5, <2>7, <3>1, <3>2
  <2>8. Len(pipe'[gen']) <= 1 /\ \A i \in 1..Len(pipe'[gen']) : OwnDebt(t, pipe[gen][i])'
    BY <2>1, <2>6 DEF OwnBacklog
  <2>9. QED
    BY <2>7, <2>8 DEF OwnBacklog
<1>5. QED
  BY <1>1, <1>2, <1>3, <1>4 DEF InStep

(* A command is sent on a queue that is empty, or out of step already.      *)
LEMMA StepSend ==
  ASSUME TurnInv, LinkInv, NEW t \in Tasks, NEW label \in Labels, Send(t, label),
         UNCHANGED <<linkVars, calls, desync, givenUp>>,
         \A u \in Tasks : u # t => ~Waiting(u),
         ~desync => queue' = << >> /\ (gen \in Conns => pipe[gen] = << >>)
  PROVE  LinkInv' /\ InStep'
<1> USE TurnTypes DEF TurnInv, linkVars
<1>1. ~WriteRaises /\ ~givenUp
  BY DEF Send, LinkInv
<1>2. writer = gen /\ gen \in Conns
  BY <1>1 DEF WriteRaises, Turns, MainInv, Conns, NoConn
<1>3. pc'[t] = "await" /\ req'[t].on = gen /\ req'[t].label = label
  BY DEF Send
<1>4. \A u \in Tasks : u # t => ~Waiting(u)'
  BY DEF Send, Waiting
<1> DEFINE debt == [owes |-> label, to |-> Tag(t)]
<1> HIDE DEF debt
<1>5. pipe' = pipe \/ (pipe' = [pipe EXCEPT ![gen] = Append(@, debt)] /\ reader[gen] = "run")
  BY <1>2 DEF Send, debt
<1>6. /\ \A g \in Conns : g # gen => pipe'[g] = pipe[g]
      /\ pipe'[gen] \in {pipe[gen], Append(pipe[gen], debt)}
  BY <1>2, <1>5 DEF TypeOK
<1>7. LinkInv'
  BY <1>1, <1>5, <1>6 DEF LinkInv
<1>8. ASSUME ~desync PROVE OwnBacklog(t)'
  <2>1. queue' = << >> /\ pipe[gen] = << >>
    BY <1>2, <1>8
  <2>2. pipe'[gen] = << >> \/ pipe'[gen] = <<debt>>
    BY <1>6, <2>1, AppendToEmpty
  <2>3. OwnDebt(t, debt)'
    BY <1>3 DEF debt, OwnDebt, Tag, Listing, Labels, ControlLabels, HelloLabels
  <2>4. Len(pipe'[gen]) <= 1 /\ \A i \in 1..Len(pipe'[gen]) : pipe'[gen][i] = debt
    BY <2>2, AtMostOne
  <2>5. \A i \in 1..Len(queue') : FALSE
    BY <2>1
  <2>6. debt' = debt
    BY DEF debt, Tag
  <2>7. \A i \in 1..Len(pipe'[gen]) : OwnDebt(t, pipe[gen][i])'
    BY <2>3, <2>4, <2>6 DEF OwnDebt
  <2>8. QED
    BY <2>4, <2>5, <2>7 DEF OwnBacklog
<1>9. WaitsOn(t)' /\ \A u \in Tasks : u # t => ~WaitsOn(u)'
  BY <1>3, <1>4 DEF WaitsOn, Waiting
<1>10. QED
  BY <1>7, <1>8, <1>9 DEF InStep

(* The Companion answers: what it still owes shrinks, or turns into the     *)
(* rest of a contact list.                                                  *)
LEMMA AnswerOwn ==
  ASSUME NEW t, NEW d, OwnDebt(t, d), NEW code \in Replies(d.owes), d.owes \in Owed
  PROVE  /\ OwnFrame(t, [code |-> code, to |-> d.to])
         /\ Terminal(code) => StillOwed(code, d.to) = << >>
         /\ \/ StillOwed(code, d.to) = << >>
            \/ \E e : OwnDebt(t, e) /\ StillOwed(code, d.to) = <<e>>
<1>1. ~Terminal(code) => d.owes \in Listing
  BY DEF Terminal, Replies, Listing, Owed, Labels, ControlLabels, HelloLabels
<1>5. code = "CONTACT_MSG" => d.owes = "sync_next_message"
  BY DEF Replies, Owed, Labels, ControlLabels, HelloLabels
<1>2. OwnFrame(t, [code |-> code, to |-> d.to])
  BY <1>1, <1>5 DEF OwnFrame, OwnDebt
<1>3. Terminal(code) => StillOwed(code, d.to) = << >>
  BY DEF Terminal, StillOwed
<1>4. ASSUME ~Terminal(code) PROVE \E e : OwnDebt(t, e) /\ StillOwed(code, d.to) = <<e>>
  <2>1. StillOwed(code, d.to) = <<[owes |-> "contact_list", to |-> d.to]>>
    BY <1>4 DEF Terminal, StillOwed
  <2>2. OwnDebt(t, [owes |-> "contact_list", to |-> d.to])
    BY <1>1, <1>4 DEF OwnDebt
  <2>3. QED
    BY <2>1, <2>2
<1>6. QED
  BY <1>2, <1>3, <1>4

LEMMA StepAnswer ==
  ASSUME TurnInv, LinkInv, InStep, NEW g \in Conns, Answer(g)
  PROVE  LinkInv' /\ InStep'
<1> USE TurnTypes DEF TurnInv, linkVars, taskVars
<1> DEFINE debt == Head(pipe[g])
<1>1. PICK code \in Replies(debt.owes) :
        /\ pipe' = [pipe EXCEPT ![g] = StillOwed(code, debt.to) \o Tail(@)]
        /\ queue' = Append(queue, [code |-> code, to |-> debt.to])
  BY DEF Answer, AnswerWith
<1>2. /\ reader[g] = "run" /\ pipe[g] # << >> /\ pipe[g] \in Seq(Debts)
      /\ UNCHANGED <<linkVars, taskVars, givenUp>>
      /\ desync' = (desync \/ g # gen)
  BY DEF Answer, AnswerWith, TypeOK
<1>3. \A h \in Conns : h # g => pipe'[h] = pipe[h]
  BY <1>1
<1>4. ~(g > gen)
  BY <1>2 DEF LinkInv
<1>5. \A u \in Tasks : WaitsOn(u)' <=> WaitsOn(u)
  BY <1>2 DEF WaitsOn, Waiting
<1>6. LinkInv'
  BY <1>2, <1>3, <1>4, <1>5 DEF LinkInv, WriteRaises
<1>7. ASSUME ~desync', ~givenUp PROVE \A t \in Tasks : WaitsOn(t) => OwnBacklog(t)'
  <2> SUFFICES ASSUME NEW t \in Tasks, WaitsOn(t) PROVE OwnBacklog(t)'
    OBVIOUS
  <2>1. g = gen /\ OwnBacklog(t)
    BY <1>2, <1>7 DEF InStep
  <2>2. Len(pipe[g]) = 1
    <3>1. pipe[g] \in Seq(Debts) /\ pipe[g] # << >>
      BY <1>2
    <3>2. Len(pipe[g]) \in Nat \ {0}
      BY <3>1, NotEmpty, Zenon
    <3>3. Len(pipe[g]) <= 1
      BY <2>1 DEF OwnBacklog
    <3>4. \A n \in Nat \ {0} : n <= 1 => n = 1
      OBVIOUS
    <3>5. QED
      BY <3>2, <3>3, <3>4
  <2>3. Tail(pipe[g]) = << >> /\ debt = pipe[g][1] /\ debt \in Debts
    BY <1>2, <2>2, TailOfOne, HeadTailType
  <2>4. OwnDebt(t, debt) /\ debt.owes \in Owed
    BY <2>1, <2>2, <2>3 DEF OwnBacklog, Debts
  <2> DEFINE frame == [code |-> code, to |-> debt.to]
             rest  == StillOwed(code, debt.to)
  <2>5. /\ OwnFrame(t, frame)
        /\ Terminal(code) => rest = << >>
        /\ rest = << >> \/ \E e : OwnDebt(t, e) /\ rest = <<e>>
    BY <2>4, AnswerOwn
  <2> HIDE DEF rest, debt
  <2>6. pipe'[g] = rest
    <3>1. rest \o << >> = rest
      BY <2>5
    <3>2. pipe'[g] = rest \o Tail(pipe[g])
      BY <1>1 DEF rest, TypeOK
    <3>3. QED
      BY <2>3, <3>1, <3>2
  <2>7. Len(pipe'[g]) <= 1 /\ \A i \in 1..Len(pipe'[g]) : OwnDebt(t, pipe'[g][i])
    <3>1. CASE rest = << >>
      BY <2>6, <3>1
    <3>2. ASSUME NEW e, OwnDebt(t, e), rest = <<e>>
          PROVE  Len(pipe'[g]) <= 1 /\ \A i \in 1..Len(pipe'[g]) : OwnDebt(t, pipe'[g][i])
      BY <2>6, <3>2
    <3>3. QED
      BY <2>5, <3>1, <3>2
  <2>8. \A i \in 1..Len(queue) : OwnFrame(t, queue[i]) /\ ~Terminal(queue[i].code)
    BY <1>2, <2>1 DEF OwnBacklog
  <2>9. queue \in Seq(Frames) /\ queue' = Append(queue, frame)
    BY <1>1 DEF TypeOK
  <2>10. /\ Len(queue') = Len(queue) + 1 /\ queue'[Len(queue) + 1] = frame
         /\ \A i \in 1..Len(queue) : queue'[i] = queue[i]
         /\ Len(queue) \in Nat
    <3> HIDE DEF frame
    <3>1. Append(queue, frame)[Len(queue) + 1] = frame /\ Len(Append(queue, frame)) = Len(queue) + 1
      BY <2>9
    <3>2. \A i \in 1..Len(queue) : Append(queue, frame)[i] = queue[i]
      BY <2>9
    <3>3. QED
      BY <2>9, <3>1, <3>2
  <2>11. ASSUME NEW i \in 1..Len(queue')
         PROVE  /\ OwnFrame(t, queue'[i])
                /\ Terminal(queue'[i].code) => i = Len(queue') /\ pipe'[g] = << >>
    <3>1. CASE i = Len(queue) + 1
      BY <2>5, <2>6, <2>10, <3>1
    <3>2. CASE i \in 1..Len(queue)
      BY <2>8, <2>10, <3>2
    <3>3. QED
      BY <2>10, <3>1, <3>2
  <2>12. /\ \A f : OwnFrame(t, f)' <=>
              /\ f'.to = Tag(t)
              /\ ~Terminal(f'.code) => req[t].label = "get_contacts"
              /\ f'.code = "CONTACT_MSG" => req[t].label = "sync_next_message"
         /\ gen' = g
    BY <1>2, <2>1 DEF OwnFrame, Tag, Terminal
  <2>13. QED
    BY <1>2, <2>1, <2>7, <2>11 DEF OwnBacklog, OwnFrame, OwnDebt, Tag, Terminal
<1>8. ~desync' /\ ~givenUp => Ended \/ \E t \in Tasks : WaitsOn(t)
  BY <1>2 DEF InStep, EmptyBacklog
<1>9. QED
  BY <1>2, <1>5, <1>6, <1>7, <1>8 DEF InStep, Ended

(* The shape of every step: some task sends a command, or some task comes   *)
(* to rest in another state, or no task moves.                              *)
(* What a task may wait for: only Main asks the Companion for messages.     *)
MayAsk(t, label) ==
  /\ t \in Texters => label \in {"send_text", "app_start"}
  /\ t \in Controllers => label # "sync_next_message"
CallLabels == \A t \in Clients : MayAsk(t, req[t].label)

Sending == \E t \in Tasks, label \in Labels :
             /\ Send(t, label)
             /\ (t \in Texters => label = "send_text") /\ (t \in Controllers => label = req[t].label)
Settling ==
  \E t \in Tasks, state \in (MainStates \cup ClientStates) \ {"await"} :
    /\ pc' = [pc EXCEPT ![t] = state]
    /\ \/ req' = req
       \/ \E r : req' = [req EXCEPT ![t] = r] /\ MayAsk(t, r.label)
Resting == pc' = pc /\ \A t \in Tasks : req'[t].label = req[t].label

LEMMA NoReqLabel == NoReq.label = "app_start"
BY DEF NoReq, Request

LEMMA ShapeMain == MainStep => Sending \/ Settling
<1> SUFFICES ASSUME MainStep PROVE Sending \/ Settling
  OBVIOUS
<1>1. Main \in Tasks /\ Main \notin Texters /\ Main \notin Controllers
  BY TaskKinds DEF Clients
<1>2. ASSUME NEW state \in {"down", "connecting", "hello", "live", "leaving", "done", "sweep", "closed"},
             pc' = [pc EXCEPT ![Main] = state],
             req' = req \/ req' = [req EXCEPT ![Main] = NoReq]
      PROVE  Settling
  <2>1. state \in (MainStates \cup ClientStates) \ {"await"}
    BY DEF MainStates
  <2>2. \/ req' = req
        \/ \E r : req' = [req EXCEPT ![Main] = r] /\ MayAsk(Main, r.label)
    BY <1>1, <1>2 DEF MayAsk
  <2>3. QED
    BY <1>1, <1>2, <2>1, <2>2 DEF Settling
<1>3. ASSUME NEW label \in {"app_start", "device_query", "sync_next_message"}, Send(Main, label)
      PROVE  Sending
  BY <1>1, <1>3 DEF Sending, Labels, HelloLabels
<1>4. ASSUME Leave, req' = req \/ req' = [req EXCEPT ![Main] = NoReq] PROVE Settling
  <2>1. PICK state \in {"down", "leaving"} : pc' = [pc EXCEPT ![Main] = state]
    BY <1>4 DEF Leave
  <2>2. QED
    BY <1>2, <1>4, <2>1
<1>5. HelloFails => Settling
  BY <1>2 DEF HelloFails
<1>6. CASE StartConnect
  BY <1>2, <1>6 DEF StartConnect
<1>7. CASE ConnectRefused
  BY <1>2, <1>7 DEF ConnectRefused
<1>8. CASE Connected
  BY <1>2, <1>8 DEF Connected
<1>9. CASE SendAppStart
  BY <1>3, <1>5, <1>9 DEF SendAppStart
<1>10. CASE AppStartReply
  BY <1>3, <1>5, <1>10 DEF AppStartReply
<1>11. CASE DeviceQueryReply
  BY <1>2, <1>4, <1>11 DEF DeviceQueryReply
<1>12. CASE HelloTimeout
  BY <1>5, <1>12 DEF HelloTimeout
<1>13. CASE SendSync
  BY <1>3, <1>4, <1>13 DEF SendSync
<1>14. CASE SyncReply
  <2>1. req' = [req EXCEPT ![Main] = NoReq] /\ (Leave \/ pc' = [pc EXCEPT ![Main] = "live"])
    BY <1>14 DEF SyncReply
  <2>2. QED
    BY <1>2, <1>4, <2>1
<1>15. CASE SyncTimeout
  BY <1>4, <1>15 DEF SyncTimeout
<1>16. CASE Teardown
  BY <1>2, <1>16 DEF Teardown
<1>17. CASE RunEnds
  BY <1>2, <1>17 DEF RunEnds
<1>18. CASE CancelTexts
  BY <1>2, <1>18 DEF CancelTexts
<1>19. CASE Close
  BY <1>2, <1>19 DEF Close
<1>20. QED
  BY <1>6, <1>7, <1>8, <1>9, <1>10, <1>11, <1>12, <1>13, <1>14, <1>15, <1>16, <1>17, <1>18,
     <1>19 DEF MainStep

LEMMA ShapeClient ==
  ASSUME TypeOK, NEW t \in Clients,
         (t \in Texters /\ TextStep(t)) \/ (t \in Controllers /\ ControlStep(t))
  PROVE  Sending \/ Settling \/ Resting
<1>1. t \in Tasks
  BY DEF Tasks
<1>2. ASSUME NEW state \in {"idle", "lock", "collect"}, pc' = [pc EXCEPT ![t] = state],
             \/ req' = req
             \/ \E r : req' = [req EXCEPT ![t] = r] /\ MayAsk(t, r.label)
      PROVE  Settling
  <2>1. state \in (MainStates \cup ClientStates) \ {"await"}
    BY DEF ClientStates
  <2>2. QED
    BY <1>1, <1>2, <2>1 DEF Settling
<1>3. ASSUME Return(t) PROVE Settling
  <2>1. pc' = [pc EXCEPT ![t] = "idle"] /\ req' = [req EXCEPT ![t] = NoReq]
    BY <1>3 DEF Return
  <2>2. QED
    BY <1>2, <2>1, NoReqLabel DEF MayAsk
<1>4. \A n : Request("send_text", n).label = "send_text"
  BY DEF Request
<1>5. ASSUME NEW label \in Labels, Send(t, label), t \in Texters => label = "send_text",
             t \in Controllers => label = req[t].label
      PROVE  Sending
  BY <1>1, <1>5 DEF Sending
<1>6. CASE t \in Texters /\ CallText(t)
  BY <1>2, <1>4, <1>6 DEF CallText, MayAsk
<1>7. CASE t \in Texters /\ SendText(t)
  BY <1>3, <1>5, <1>7, TaskKinds DEF SendText, Labels
<1>8. CASE t \in Texters /\ TextReply(t)
  BY <1>3, <1>8 DEF TextReply
<1>9. CASE t \in Texters /\ TextTimeout(t)
  BY <1>2, <1>3, <1>4, <1>9 DEF TextTimeout, MayAsk
<1>10. CASE t \in Texters /\ TextCancelled(t)
  BY <1>3, <1>10 DEF TextCancelled
<1>11. CASE t \in Controllers /\ CallControl(t)
  <2>1. CASE connected
    <3>1. PICK label \in ControlLabels : req' = [req EXCEPT ![t] = Request(label, 0)]
      BY <1>11, <2>1 DEF CallControl
    <3>2. pc' = [pc EXCEPT ![t] = "lock"] /\ t \notin Texters
      BY <1>11, <2>1, TaskKinds DEF CallControl
    <3>3. Request(label, 0).label # "sync_next_message"
      BY <3>1 DEF Request, ControlLabels
    <3>4. QED
      BY <1>2, <3>1, <3>2, <3>3 DEF MayAsk
  <2>2. QED
    BY <1>3, <1>11, <2>1 DEF CallControl
<1>12. CASE t \in Controllers /\ ControlBusy(t)
  BY <1>3, <1>12 DEF ControlBusy
<1>13. CASE t \in Controllers /\ SendControl(t)
  <2>1. req[t].label \in Labels /\ t \notin Texters
    BY <1>1, <1>13, TaskKinds DEF TypeOK, Requests
  <2>2. QED
    BY <1>3, <1>5, <1>13, <2>1 DEF SendControl
<1>14. CASE t \in Controllers /\ ControlDeclined(t)
  BY <1>3, <1>14 DEF ControlDeclined
<1>15. CASE t \in Controllers /\ ControlReply(t)
  BY <1>2, <1>3, <1>15 DEF ControlReply
<1>16. CASE t \in Controllers /\ CollectContact(t)
  <2>1. CASE UNCHANGED <<holder, pc, req>>
    BY <2>1 DEF Resting
  <2>2. QED
    BY <1>3, <1>16, <2>1 DEF CollectContact
<1>17. CASE t \in Controllers /\ ControlTimeout(t)
  BY <1>3, <1>17 DEF ControlTimeout
<1>18. CASE t \in Controllers /\ ControlCancelled(t)
  BY <1>3, <1>18 DEF ControlCancelled
<1>19. QED
  BY <1>6, <1>7, <1>8, <1>9, <1>10, <1>11, <1>12, <1>13, <1>14, <1>15, <1>16, <1>17, <1>18
     DEF TextStep, ControlStep

LEMMA Shape == TypeOK /\ [Next]_vars => Sending \/ Settling \/ Resting
<1> SUFFICES ASSUME TypeOK, [Next]_vars PROVE Sending \/ Settling \/ Resting
  OBVIOUS
<1>1. ASSUME NEW t \in Tasks, SkipUnexpected(t) PROVE Resting
  <2>1. pc' = pc /\ req' = [req EXCEPT ![t].unexpected = @ + 1]
    BY <1>1 DEF SkipUnexpected
  <2>2. req[t] \in Requests /\ req = [u \in Tasks |-> req[u]]
    BY DEF TypeOK
  <2>3. QED
    BY <2>1, <2>2 DEF Resting, Requests
<1>2. \/ Environment \/ Terminated \/ UNCHANGED vars
      \/ \E t \in Tasks : SkipHeartbeat(t)
      => pc' = pc /\ req' = req
  BY DEF Environment, Terminated, vars, taskVars, RequestStop, PeerLost, ReaderExit, Answer,
     AnswerWith, LeakedReaderEnds, SkipHeartbeat
<1>3. pc' = pc /\ req' = req => Resting
  BY DEF Resting
<1>4. ASSUME NEW t \in Texters, TextStep(t) PROVE Sending \/ Settling \/ Resting
  BY <1>4, ShapeClient, TaskKinds
<1>5. ASSUME NEW t \in Controllers, ControlStep(t) PROVE Sending \/ Settling \/ Resting
  BY <1>5, ShapeClient, TaskKinds
<1>6. QED
  BY <1>1, <1>2, <1>3, <1>4, <1>5, ShapeMain DEF Next

LEMMA CallLabelsStep == TypeOK /\ CallLabels /\ [Next]_vars => CallLabels'
<1> SUFFICES ASSUME TypeOK, CallLabels, [Next]_vars, NEW t \in Clients
             PROVE  MayAsk(t, req'[t].label)
  BY DEF CallLabels, MayAsk
<1>1. t \in Tasks /\ MayAsk(t, req[t].label) /\ req = [u \in Tasks |-> req[u]]
  BY DEF TypeOK, CallLabels, Tasks
<1>2. ASSUME NEW u \in Tasks, NEW label \in Labels, Send(u, label),
             u \in Texters => label = "send_text", u \in Controllers => label = req[u].label
      PROVE  MayAsk(t, req'[t].label)
  <2>1. u = t => req'[t].label = label
    BY <1>1, <1>2 DEF Send
  <2>2. u # t => req'[t] = req[t]
    BY <1>1, <1>2 DEF Send
  <2>3. QED
    BY <1>1, <1>2, <2>1, <2>2 DEF MayAsk
<1>3. CASE Settling
  <2>1. PICK u \in Tasks :
          \/ req' = req
          \/ \E r : req' = [req EXCEPT ![u] = r] /\ MayAsk(u, r.label)
    BY <1>3 DEF Settling
  <2>2. CASE \E r : req' = [req EXCEPT ![u] = r] /\ MayAsk(u, r.label)
    <3>1. PICK r : req' = [req EXCEPT ![u] = r] /\ MayAsk(u, r.label)
      BY <2>2
    <3>2. u = t => req'[t] = r
      BY <1>1, <3>1
    <3>3. u # t => req'[t] = req[t]
      BY <1>1, <3>1
    <3>4. QED
      BY <1>1, <3>1, <3>2, <3>3
  <2>3. CASE req' = req
    BY <1>1, <2>3
  <2>4. QED
    BY <2>1, <2>2, <2>3
<1>4. CASE Resting
  BY <1>1, <1>4 DEF Resting
<1>5. QED
  BY <1>2, <1>3, <1>4, Shape DEF Sending

-----------------------------------------------------------------------------
(* The steps, one by one.                                                   *)

(* What the ways to leave a link do to it.                                  *)
LinkShrinks ==
  /\ gen' = gen
  /\ \A g \in Conns : pipe'[g] = pipe[g] \/ pipe'[g] = << >>
  /\ \A g \in Conns : reader'[g] # "run" => reader[g] # "run" \/ pipe'[g] = << >>
  /\ WriteRaises => WriteRaises'

LEMMA LinkEffect ==
  ASSUME TypeOK,
         \/ UNCHANGED <<linkVars, pipe>>
         \/ Discard /\ pipe' = pipe
         \/ Leave
         \/ HelloFails
  PROVE  LinkShrinks /\ (Discard => WriteRaises')
<1> USE DEF LinkShrinks
<1>1. CASE UNCHANGED <<linkVars, pipe>> \/ HelloFails
  <2>1. UNCHANGED <<writer, readerTask, gen, sock, reader, pipe>>
    BY <1>1 DEF linkVars, HelloFails
  <2>2. Discard => WriteRaises'
    BY <2>1 DEF Discard, WriteRaises
  <2>3. QED
    BY <2>1, <2>2 DEF WriteRaises
<1>2. CASE Discard /\ pipe' = pipe
  BY <1>2 DEF Discard, WriteRaises
<1>3. CASE Leave
  <2>1. /\ UNCHANGED <<writer, gen, sock>>
        /\ reader' = [h \in Conns |-> IF h = readerTask THEN "off" ELSE reader[h]]
        /\ pipe' = [h \in Conns |-> IF h = readerTask THEN << >> ELSE pipe[h]]
    BY <1>3 DEF Leave, StopReader
  <2>2. Discard => WriteRaises'
    BY <2>1 DEF Discard, WriteRaises
  <2>3. QED
    BY <2>1, <2>2 DEF WriteRaises
<1>4. QED
  BY <1>1, <1>2, <1>3

StepInv == TurnInv /\ LinkInv /\ InStep /\ CallLabels

(* A task that was not waiting moves on without sending.                    *)
LEMMA StepMove ==
  ASSUME TurnInv, LinkInv, InStep, NEW t \in Tasks,
         ~Waiting(t), ~Waiting(t)',
         \A u \in Tasks : u # t =>
           pc'[u] = pc[u] /\ req'[u] = req[u] /\ calls'[u] = calls[u],
         LinkShrinks, queue' = queue, UNCHANGED <<desync, givenUp>>, Ended => Ended'
  PROVE  LinkInv' /\ InStep'
<1>1. /\ gen' = gen
      /\ \A g \in Conns : pipe'[g] = pipe[g] \/ pipe'[g] = << >>
      /\ \A g \in Conns : reader'[g] # "run" => reader[g] # "run" \/ pipe'[g] = << >>
      /\ WriteRaises => WriteRaises'
  BY DEF LinkShrinks
<1>2. \A u \in Tasks : WaitsOn(u)' <=> WaitsOn(u)
  BY <1>1 DEF WaitsOn, Waiting
<1>3. \A u \in Tasks : WaitsOn(u) => u # t
  BY DEF WaitsOn
<1>4. \A u \in Tasks : WaitsOn(u) => calls'[u] = calls[u] /\ req'[u].label = req[u].label
  BY <1>3
<1>5. QED
  BY <1>1, <1>2, <1>4, StepKeep

(* The one waiting task takes the end of its reply, or gives up.            *)
LEMMA StepEnd ==
  ASSUME TurnInv, LinkInv, InStep, NEW t \in Tasks, Waiting(t), ~Waiting(t)',
         \A u \in Tasks : u # t => pc'[u] = pc[u],
         LinkShrinks, givenUp' = givenUp \/ WriteRaises',
         ~desync' /\ ~givenUp' =>
           Ended' \/ (queue' = << >> /\ (gen \in Conns => pipe'[gen] = << >>))
  PROVE  LinkInv' /\ InStep'
<1>1. /\ gen' = gen
      /\ \A g \in Conns : pipe'[g] = pipe[g] \/ pipe'[g] = << >>
      /\ \A g \in Conns : reader'[g] # "run" => reader[g] # "run" \/ pipe'[g] = << >>
      /\ WriteRaises => WriteRaises'
  BY DEF LinkShrinks
<1>2. \A u \in Tasks : u # t => ~Waiting(u)
  BY OneWaiter
<1>3. \A u \in Tasks : ~WaitsOn(u)'
  BY <1>2 DEF WaitsOn, Waiting
<1>4. givenUp' => WriteRaises'
  BY <1>1 DEF LinkInv
<1>5. LinkInv'
  BY <1>1, <1>3, <1>4, LinkKeep DEF TurnInv
<1>6. ~desync' /\ ~givenUp' => Ended' \/ EmptyBacklog'
  BY <1>1 DEF EmptyBacklog
<1>7. QED
  BY <1>3, <1>5, <1>6, StepDone

(* Giving up leaves nothing behind, or the queue counts as out of step.     *)
LEMMA TimeoutIsClean ==
  ASSUME TurnInv, LinkInv, InStep, NEW t \in Tasks, TimedOut(t), ~Orphans(t), ~desync, ~givenUp
  PROVE  Ended \/ (queue = << >> /\ (gen \in Conns => pipe[gen] = << >>))
<1>1. CASE req[t].on = gen
  <2>1. gen \in Conns /\ reader[gen] # "run" /\ queue = << >>
    BY <1>1, OneWaiter DEF TimedOut, Orphans, HasFrame
  <2>2. QED
    BY <2>1 DEF LinkInv
<1>2. CASE req[t].on # gen
  <2>1. \A u \in Tasks : ~WaitsOn(u)
    BY <1>2, OneWaiter DEF TimedOut, WaitsOn
  <2>2. QED
    BY <2>1 DEF InStep, EmptyBacklog
<1>3. QED
  BY <1>1, <1>2

LEMMA NothingLeft ==
  ASSUME LinkInv, InStep, ~desync, ~WriteRaises, ~Ended, \A u \in Tasks : ~Waiting(u)
  PROVE  queue = << >> /\ (gen \in Conns => pipe[gen] = << >>)
BY DEF LinkInv, InStep, WaitsOn, EmptyBacklog

LEMMA LastFrame ==
  ASSUME TurnInv, LinkInv, InStep, ~desync, NEW t \in Tasks, HasFrame(t),
         Terminal(Frame.code) \/ req[t].label # "get_contacts"
  PROVE  Tail(queue) = << >> /\ pipe[gen] = << >>
BY FrameIsOwn DEF OwnFrame, Frame

LEMMA StepMain ==
  ASSUME TurnInv, LinkInv, InStep, MainStep PROVE LinkInv' /\ InStep'
<1> USE TaskKinds DEF TurnInv
<1>1. pc = [t \in Tasks |-> pc[t]] /\ req = [t \in Tasks |-> req[t]]
  BY TurnTypes
<1>2. pc[Main] \notin {"await", "collect"} <=> ~Waiting(Main)
  BY DEF Waiting
<1>3. /\ LockFree => \A u \in Tasks : ~Waiting(u)
      /\ TypeOK
  BY OneWaiter
<1>4. ASSUME NEW state \in {"down", "connecting", "hello", "live", "leaving", "done", "sweep", "closed"},
             pc' = [pc EXCEPT ![Main] = state],
             req' = req \/ req' = [req EXCEPT ![Main] = NoReq]
      PROVE  /\ ~Waiting(Main)' /\ pc'[Main] = state
             /\ \A u \in Tasks : u # Main => pc'[u] = pc[u] /\ req'[u] = req[u]
  BY <1>1, <1>4 DEF Waiting
<1>5. ASSUME NEW state \in {"down", "connecting", "hello", "live", "leaving", "done", "sweep", "closed"},
             pc' = [pc EXCEPT ![Main] = state],
             req' = req \/ req' = [req EXCEPT ![Main] = NoReq],
             ~Waiting(Main), Ended => state \in {"sweep", "closed"},
             LinkShrinks, queue' = queue, UNCHANGED <<calls, desync, givenUp>>
      PROVE  LinkInv' /\ InStep'
  <2>1. /\ ~Waiting(Main)' /\ pc'[Main] = state
        /\ \A u \in Tasks : u # Main => pc'[u] = pc[u] /\ req'[u] = req[u]
    BY <1>4, <1>5
  <2>2. Ended => Ended'
    BY <1>5, <2>1 DEF Ended
  <2>3. QED
    BY <1>5, <2>1, <2>2, StepMove
<1>6. ASSUME NEW state \in {"down", "connecting", "hello", "live", "leaving", "done", "sweep", "closed"},
             pc' = [pc EXCEPT ![Main] = state],
             req' = req \/ req' = [req EXCEPT ![Main] = NoReq],
             Waiting(Main), LinkShrinks, givenUp' = givenUp,
             ~desync' /\ ~givenUp =>
               queue' = << >> /\ (gen \in Conns => pipe'[gen] = << >>)
      PROVE  LinkInv' /\ InStep'
  BY <1>4, <1>6, StepEnd
<1>7. UNCHANGED <<linkVars, pipe>> \/ Leave \/ HelloFails => LinkShrinks
  BY <1>3, LinkEffect
<1>8. Leave => \E state \in {"down", "leaving"} : pc' = [pc EXCEPT ![Main] = state]
  BY DEF Leave
<1>9. HelloFails => pc' = [pc EXCEPT ![Main] = "down"] /\ req' = [req EXCEPT ![Main] = NoReq]
  BY DEF HelloFails
<1>10. ASSUME TakeReply(Main), req[Main].label # "get_contacts", ~desync
       PROVE  queue' = << >> /\ pipe[gen] = << >>
  BY <1>10, LastFrame DEF TakeReply
<1>11. LinkShrinks => \A g \in Conns : pipe[g] = << >> => pipe'[g] = << >>
  BY DEF LinkShrinks
<1>12. CASE StartConnect
  BY <1>2, <1>5, <1>7, <1>12 DEF StartConnect, ghostVars, Ended
<1>13. CASE ConnectRefused
  <2>1. LinkShrinks
    BY <1>13 DEF ConnectRefused, LinkShrinks, WriteRaises
  <2>2. QED
    BY <1>2, <1>5, <1>13, <2>1 DEF ConnectRefused, ghostVars, Ended
<1>14. CASE Connected
  <2>1. /\ gen < MaxConns /\ gen' = gen + 1 /\ queue' = << >> /\ givenUp' = FALSE
        /\ pipe' = pipe /\ req' = req /\ pc' = [pc EXCEPT ![Main] = "hello"]
        /\ reader' = [reader EXCEPT ![gen + 1] = "run"]
    BY <1>14 DEF Connected
  <2>2. gen \in Nat /\ gen + 1 \in Conns /\ reader = [g \in Conns |-> reader[g]]
    BY <2>1, TurnTypes DEF Conns, TypeOK
  <2>3. \A g \in Conns : g \in Nat /\ (g > gen + 1 => g > gen)
    BY <2>2 DEF Conns
  <2>4. LinkInv'
    BY <2>1, <2>2, <2>3 DEF LinkInv
  <2>5. \A u \in Tasks : Waiting(u) => req[u].on # gen + 1
    BY <2>2 DEF Turns, WaiterInv
  <2>6. \A u \in Tasks : ~WaitsOn(u)'
    BY <1>1, <2>1, <2>5 DEF WaitsOn, Waiting
  <2>7. EmptyBacklog'
    BY <2>1, <2>2, <2>3 DEF EmptyBacklog, LinkInv
  <2>8. QED
    BY <2>4, <2>6, <2>7, StepDone
<1>15. CASE SendAppStart
  <2>1. CASE Send(Main, "app_start") /\ holder' = {Main} /\ UNCHANGED linkVars
    <3>1. ~WriteRaises /\ ~Ended /\ queue' = queue /\ UNCHANGED <<calls, ghostVars>>
      BY <1>15, <2>1 DEF SendAppStart, Send, Ended
    <3>2. ~desync => queue' = << >> /\ (gen \in Conns => pipe[gen] = << >>)
      BY <1>3, <1>15, <3>1, NothingLeft DEF SendAppStart
    <3>3. "app_start" \in Labels /\ \A u \in Tasks : ~Waiting(u)
      BY <1>3, <1>15 DEF SendAppStart, Labels, HelloLabels
    <3>4. QED
      BY <2>1, <3>1, <3>2, <3>3, StepSend DEF ghostVars
  <2>2. CASE HelloFails
    BY <1>2, <1>5, <1>7, <1>9, <1>15, <2>2 DEF SendAppStart, ghostVars, Ended
  <2>3. QED
    BY <1>15, <2>1, <2>2 DEF SendAppStart
<1>16. CASE AppStartReply
  <2>1. /\ TakeReply(Main) /\ req[Main].label = "app_start"
        /\ UNCHANGED <<calls, desync, givenUp>> /\ Waiting(Main)
    BY <1>16 DEF AppStartReply, ghostVars, TakeReply, Waiting
  <2>2. ~desync => queue' = << >> /\ pipe[gen] = << >>
    BY <1>10, <2>1
  <2>3. CASE Send(Main, "device_query") /\ UNCHANGED <<linkVars, holder>>
    <3>1. "device_query" \in Labels /\ \A u \in Tasks : u # Main => ~Waiting(u)
      BY <2>1, OneWaiter DEF Labels, HelloLabels
    <3>2. QED
      BY <2>1, <2>2, <2>3, <3>1, StepSend
  <2>4. CASE HelloFails
    BY <1>6, <1>7, <1>9, <1>11, <2>1, <2>2, <2>4
  <2>5. QED
    BY <1>16, <2>3, <2>4 DEF AppStartReply
<1>17. CASE DeviceQueryReply
  <2>1. /\ TakeReply(Main) /\ req[Main].label = "device_query" /\ req' = [req EXCEPT ![Main] = NoReq]
        /\ UNCHANGED <<calls, desync, givenUp>> /\ Waiting(Main)
    BY <1>17 DEF DeviceQueryReply, ghostVars, TakeReply, Waiting
  <2>2. ~desync => queue' = << >> /\ pipe[gen] = << >>
    BY <1>10, <2>1
  <2>3. CASE Leave
    BY <1>6, <1>7, <1>8, <1>11, <2>1, <2>2, <2>3
  <2>4. CASE pc' = [pc EXCEPT ![Main] = "live"] /\ UNCHANGED <<writer, readerTask, gen, sock, reader, pipe>>
    <3>1. LinkShrinks
      BY <2>4 DEF LinkShrinks, WriteRaises
    <3>2. QED
      BY <1>6, <1>11, <2>1, <2>2, <2>4, <3>1
  <2>5. QED
    BY <1>17, <2>3, <2>4 DEF DeviceQueryReply
<1>18. CASE HelloTimeout
  <2>1. /\ TimedOut(Main) /\ HelloFails /\ desync' = (desync \/ Orphans(Main))
        /\ UNCHANGED <<queue, calls, givenUp>> /\ Waiting(Main)
    BY <1>18 DEF HelloTimeout, TimedOut
  <2>2. ~Ended
    BY <2>1 DEF Ended, Waiting
  <2>3. ~desync' /\ ~givenUp => queue' = << >> /\ (gen \in Conns => pipe'[gen] = << >>)
    BY <1>7, <1>11, <2>1, <2>2, TimeoutIsClean
  <2>4. QED
    BY <1>6, <1>7, <1>9, <2>1, <2>3
<1>19. CASE SendSync
  <2>1. CASE Send(Main, "sync_next_message") /\ holder' = {Main} /\ UNCHANGED linkVars
    <3>1. ~WriteRaises /\ ~Ended /\ queue' = queue /\ UNCHANGED <<calls, ghostVars>>
      BY <1>19, <2>1 DEF SendSync, Send, Ended
    <3>2. ~desync => queue' = << >> /\ (gen \in Conns => pipe[gen] = << >>)
      BY <1>3, <1>19, <3>1, NothingLeft DEF SendSync
    <3>3. "sync_next_message" \in Labels /\ \A u \in Tasks : ~Waiting(u)
      BY <1>3, <1>19 DEF SendSync, Labels
    <3>4. QED
      BY <2>1, <3>1, <3>2, <3>3, StepSend DEF ghostVars
  <2>2. CASE Leave /\ UNCHANGED <<req, holder>>
    BY <1>2, <1>5, <1>7, <1>8, <1>19, <2>2 DEF SendSync, ghostVars, Ended
  <2>3. QED
    BY <1>19, <2>1, <2>2 DEF SendSync
<1>20. CASE SyncReply
  <2>1. /\ TakeReply(Main) /\ req[Main].label = "sync_next_message" /\ req' = [req EXCEPT ![Main] = NoReq]
        /\ UNCHANGED <<calls, desync, givenUp>> /\ Waiting(Main)
    BY <1>20 DEF SyncReply, ghostVars, TakeReply, Waiting
  <2>2. ~desync => queue' = << >> /\ pipe[gen] = << >>
    BY <1>10, <2>1
  <2>3. CASE Leave
    BY <1>6, <1>7, <1>8, <1>11, <2>1, <2>2, <2>3
  <2>4. CASE pc' = [pc EXCEPT ![Main] = "live"] /\ UNCHANGED <<linkVars, pipe>>
    BY <1>6, <1>7, <1>11, <2>1, <2>2, <2>4
  <2>5. QED
    BY <1>20, <2>3, <2>4 DEF SyncReply
<1>21. CASE SyncTimeout
  <2>1. /\ TimedOut(Main) /\ Leave /\ req' = [req EXCEPT ![Main] = NoReq]
        /\ UNCHANGED <<queue, calls, desync, givenUp>> /\ Waiting(Main)
    BY <1>21 DEF SyncTimeout, ghostVars, TimedOut
  <2>2. gen \in Conns /\ readerTask = gen /\ req[Main].on = gen
    BY <1>2, <2>1 DEF Turns, MainInv, Waiting
  <2>3. queue' = << >> /\ pipe'[gen] = << >>
    BY <2>1, <2>2 DEF TimedOut, HasFrame, Leave, StopReader
  <2>4. QED
    BY <1>6, <1>7, <1>8, <2>1, <2>3
<1>22. CASE Teardown
  <2>1. LinkShrinks
    BY <1>22 DEF Teardown, LinkShrinks, WriteRaises, Conns, NoConn
  <2>2. QED
    BY <1>2, <1>5, <1>22, <2>1 DEF Teardown, ghostVars, Ended
<1>23. CASE RunEnds
  BY <1>2, <1>5, <1>7, <1>23 DEF RunEnds, ghostVars, Ended
<1>24. CASE CancelTexts
  BY <1>2, <1>5, <1>7, <1>24 DEF CancelTexts, ghostVars, Ended
<1>25. CASE Close
  <2>1. LinkShrinks
    <3>1. CASE ReaderFailed
      BY <1>25, <3>1 DEF Close, LinkShrinks, WriteRaises
    <3>2. CASE ~ReaderFailed
      BY <1>25, <3>2 DEF Close, StopReader, LinkShrinks, WriteRaises, Conns, NoConn
    <3>3. QED
      BY <3>1, <3>2
  <2>2. QED
    BY <1>2, <1>5, <1>25, <2>1 DEF Close, ghostVars, Ended
<1>26. QED
  BY <1>12, <1>13, <1>14, <1>15, <1>16, <1>17, <1>18, <1>19, <1>20, <1>21, <1>22, <1>23, <1>24,
     <1>25 DEF MainStep

LEMMA StepClient ==
  ASSUME TurnInv, LinkInv, InStep, CallLabels, NEW t \in Clients,
         (t \in Texters /\ TextStep(t)) \/ (t \in Controllers /\ ControlStep(t))
  PROVE  LinkInv' /\ InStep'
<1> USE TaskKinds DEF TurnInv
<1>1. /\ pc = [u \in Tasks |-> pc[u]] /\ req = [u \in Tasks |-> req[u]]
      /\ t \in Tasks /\ t # Main /\ calls = [u \in Tasks |-> calls[u]]
  BY TurnTypes DEF Tasks, TypeOK
<1>2. pc[t] \notin {"await", "collect"} <=> ~Waiting(t)
  BY DEF Waiting
<1>3. /\ LockFree => \A u \in Tasks : ~Waiting(u)
      /\ TypeOK
  BY OneWaiter
<1>4. Return(t) =>
        /\ pc' = [pc EXCEPT ![t] = "idle"]
        /\ \E r : req' = [req EXCEPT ![t] = r]
  BY DEF Return
<1>5. ASSUME NEW state \in {"idle", "lock"}, pc' = [pc EXCEPT ![t] = state],
             \E r : req' = [req EXCEPT ![t] = r],
             ~Waiting(t), LinkShrinks, queue' = queue, UNCHANGED <<desync, givenUp>>,
             \A u \in Tasks : u # t => calls'[u] = calls[u]
      PROVE  LinkInv' /\ InStep'
  <2>1. /\ ~Waiting(t)' /\ pc'[Main] = pc[Main]
        /\ \A u \in Tasks : u # t => pc'[u] = pc[u] /\ req'[u] = req[u]
    BY <1>1, <1>5 DEF Waiting
  <2>2. Ended => Ended'
    BY <2>1 DEF Ended
  <2>3. QED
    BY <1>1, <1>5, <2>1, <2>2, StepMove
<1>6. ASSUME NEW state \in {"idle", "lock"}, pc' = [pc EXCEPT ![t] = state],
             Waiting(t), LinkShrinks, givenUp' = givenUp \/ WriteRaises',
             ~desync' /\ ~givenUp' =>
               Ended \/ (queue' = << >> /\ (gen \in Conns => pipe'[gen] = << >>))
      PROVE  LinkInv' /\ InStep'
  <2>1. /\ ~Waiting(t)' /\ pc'[Main] = pc[Main]
        /\ \A u \in Tasks : u # t => pc'[u] = pc[u]
    BY <1>1, <1>6 DEF Waiting
  <2>2. Ended => Ended'
    BY <2>1 DEF Ended
  <2>3. QED
    BY <1>1, <1>6, <2>1, <2>2, StepEnd
<1>7. /\ UNCHANGED <<linkVars, pipe>> => LinkShrinks
      /\ Discard /\ pipe' = pipe => LinkShrinks /\ WriteRaises' /\ givenUp'
  BY <1>3, LinkEffect DEF Discard
<1>8. UNCHANGED <<linkVars, pipe>> => pipe' = pipe
  OBVIOUS
<1>9. ASSUME HasFrame(t), queue' = Tail(queue), UNCHANGED <<linkVars, pipe, desync, givenUp>>,
              Terminal(Frame.code) \/ req[t].label # "get_contacts", Return(t)
       PROVE  LinkInv' /\ InStep'
  <2>1. ~desync => queue' = << >> /\ pipe[gen] = << >>
    BY <1>1, <1>9, LastFrame
  <2>2. QED
    BY <1>4, <1>6, <1>7, <1>9, <2>1 DEF HasFrame
<1>10. ASSUME NEW label \in Labels, Send(t, label), LockFree, ~Ended, queue' = queue,
              UNCHANGED <<linkVars, calls, desync, givenUp>>
       PROVE  LinkInv' /\ InStep'
  <2>1. ~WriteRaises /\ \A u \in Tasks : ~Waiting(u)
    BY <1>3, <1>10 DEF Send
  <2>2. ~desync => queue' = << >> /\ (gen \in Conns => pipe[gen] = << >>)
    BY <1>10, <2>1, NothingLeft
  <2>3. QED
    BY <1>1, <1>10, <2>1, <2>2, StepSend
<1>11. CASE t \in Texters /\ CallText(t)
  <2>1. /\ pc' = [pc EXCEPT ![t] = "lock"] /\ req' = [req EXCEPT ![t] = Request("send_text", 1)]
        /\ calls' = [calls EXCEPT ![t] = @ + 1] /\ ~Waiting(t) /\ queue' = queue
        /\ UNCHANGED <<linkVars, pipe, desync, givenUp>>
    BY <1>2, <1>11 DEF CallText, ghostVars
  <2>2. \A u \in Tasks : u # t => calls'[u] = calls[u]
    BY <1>1, <2>1
  <2>3. QED
    BY <1>5, <1>7, <2>1, <2>2
<1>12. CASE t \in Texters /\ SendText(t)
  <2>1. /\ LockFree /\ ~Ended /\ queue' = queue /\ ~Waiting(t)
        /\ UNCHANGED <<linkVars, calls, desync, givenUp>>
    BY <1>2, <1>12 DEF SendText, ghostVars, Ended
  <2>2. CASE Send(t, "send_text")
    BY <1>10, <2>1, <2>2 DEF Labels
  <2>3. CASE Return(t) /\ UNCHANGED pipe
    BY <1>4, <1>5, <1>7, <2>1, <2>3
  <2>4. QED
    BY <1>12, <2>2, <2>3 DEF SendText
<1>13. CASE t \in Texters /\ TextReply(t)
  <2>1. Return(t)
    BY <1>13 DEF TextReply
  <2>2. /\ HasFrame(t) /\ queue' = Tail(queue) /\ UNCHANGED <<linkVars, pipe, desync, givenUp>>
    BY <1>13 DEF TextReply, TakeReply, ghostVars
  <2>3. req[t].label # "get_contacts"
    BY <1>13, TaskKinds DEF CallLabels, MayAsk
  <2>4. QED
    BY <1>9, <2>1, <2>2, <2>3
<1>14. CASE t \in Texters /\ TextTimeout(t)
  <2>1. /\ TimedOut(t) /\ Waiting(t) /\ desync' = (desync \/ Orphans(t)) /\ queue' = queue
        /\ UNCHANGED <<linkVars, pipe, calls, givenUp>>
    BY <1>14 DEF TextTimeout, TimedOut
  <2>2. ~desync' /\ ~givenUp => Ended \/ (queue' = << >> /\ (gen \in Conns => pipe'[gen] = << >>))
    BY <1>1, <2>1, TimeoutIsClean
  <2>3. CASE Return(t)
    BY <1>4, <1>6, <1>7, <2>1, <2>2, <2>3
  <2>4. CASE pc' = [pc EXCEPT ![t] = "lock"]
    BY <1>6, <1>7, <2>1, <2>2, <2>4
  <2>5. QED
    BY <1>14, <2>3, <2>4 DEF TextTimeout
<1>15. CASE t \in Texters /\ TextCancelled(t)
  <2>1. /\ Return(t) /\ Ended /\ queue' = queue
        /\ UNCHANGED <<linkVars, pipe, calls, desync, givenUp>>
    BY <1>15 DEF TextCancelled, ghostVars, Ended
  <2>2. QED
    BY <1>4, <1>5, <1>6, <1>7, <2>1
<1>16. CASE t \in Controllers /\ CallControl(t)
  <2>1. /\ calls' = [calls EXCEPT ![t] = @ + 1] /\ ~Waiting(t) /\ queue' = queue
        /\ UNCHANGED <<linkVars, pipe, desync, givenUp>>
    BY <1>2, <1>16 DEF CallControl, ghostVars
  <2>2. \A u \in Tasks : u # t => calls'[u] = calls[u]
    BY <1>1, <2>1
  <2>3. CASE connected
    <3>1. /\ pc' = [pc EXCEPT ![t] = "lock"]
          /\ \E r : req' = [req EXCEPT ![t] = r]
      BY <1>16, <2>3 DEF CallControl
    <3>2. QED
      BY <1>5, <1>7, <2>1, <2>2, <3>1
  <2>4. CASE Return(t)
    BY <1>4, <1>5, <1>7, <2>1, <2>2, <2>4
  <2>5. QED
    BY <1>16, <2>3, <2>4 DEF CallControl
<1>17. CASE t \in Controllers /\ (ControlBusy(t) \/ ControlDeclined(t))
  <2>1. Return(t)
    BY <1>17 DEF ControlBusy, ControlDeclined
  <2>2. /\ ~Waiting(t) /\ queue' = queue /\ UNCHANGED <<linkVars, pipe, calls, desync, givenUp>>
    BY <1>2, <1>17 DEF ControlBusy, ControlDeclined, ghostVars
  <2>3. QED
    BY <1>4, <1>5, <1>7, <2>1, <2>2
<1>18. CASE t \in Controllers /\ SendControl(t)
  <2>1. /\ LockFree /\ connected /\ queue' = queue /\ ~Waiting(t) /\ UNCHANGED <<calls, desync>>
    BY <1>2, <1>18 DEF SendControl
  <2>2. ~Ended
    BY <2>1 DEF Turns, MainInv, Ended
  <2>3. CASE Send(t, req[t].label) /\ UNCHANGED <<linkVars, givenUp>>
    <3>1. req[t].label \in Labels
      BY <1>1 DEF TypeOK, Requests
    <3>2. QED
      BY <1>10, <2>1, <2>2, <2>3, <3>1
  <2>4. CASE WriteRaises /\ Discard /\ Return(t) /\ UNCHANGED pipe
    <3>1. \A u \in Tasks : ~Waiting(u) /\ ~Waiting(u)'
      BY <1>1, <1>3, <2>1, <2>4 DEF Return, Waiting
    <3>2. \A u \in Tasks : ~WaitsOn(u)'
      BY <3>1 DEF WaitsOn
    <3>3. LinkInv'
      BY <1>7, <2>4, <3>2, LinkKeep DEF LinkShrinks
    <3>4. QED
      BY <1>7, <2>4, <3>2, <3>3, StepDone
  <2>5. QED
    BY <1>18, <2>3, <2>4 DEF SendControl
<1>19. CASE t \in Controllers /\ ControlReply(t)
  <2> DEFINE verdict == Verdict(req[t].label, Frame.code)
  <2>1. /\ HasFrame(t) /\ queue' = Tail(queue) /\ pc[t] = "await" /\ Waiting(t)
        /\ UNCHANGED <<pipe, calls, desync>>
    BY <1>19 DEF ControlReply, TakeReply, HasFrame
  <2>2. CASE verdict = "none"
    <3>1. pc' = [pc EXCEPT ![t] = "collect"] /\ UNCHANGED <<linkVars, req, givenUp>>
      BY <1>19, <2>2 DEF ControlReply
    <3>2. \A u \in Tasks : Waiting(u)' <=> Waiting(u)
      BY <1>1, <2>1, <3>1 DEF Waiting
    <3>3. QED
      BY <1>1, <2>1, <3>1, <3>2, StepTake
  <2>3. CASE verdict \notin {"none", "unknown"}
    <3>1. Return(t) /\ UNCHANGED <<linkVars, givenUp>>
      BY <1>19, <2>3 DEF ControlReply
    <3>2. Terminal(Frame.code) \/ req[t].label # "get_contacts"
      BY <2>3 DEF Verdict, Terminal
    <3>3. QED
      BY <1>9, <2>1, <3>1, <3>2
  <2>4. CASE verdict = "unknown"
    <3>1. Return(t) /\ Discard
      BY <1>19, <2>4 DEF ControlReply
    <3>2. QED
      BY <1>4, <1>6, <1>7, <2>1, <3>1
  <2>5. QED
    BY <2>2, <2>3, <2>4
<1>20. CASE t \in Controllers /\ CollectContact(t)
  <2>1. /\ HasFrame(t) /\ queue' = Tail(queue)
        /\ UNCHANGED <<linkVars, pipe, calls, desync, givenUp>>
    BY <1>20 DEF CollectContact, ghostVars
  <2>2. CASE Frame.code = "END_OF_CONTACTS"
    <3>1. Return(t) /\ Terminal(Frame.code)
      BY <1>20, <2>2 DEF CollectContact, Terminal
    <3>2. QED
      BY <1>9, <2>1, <3>1
  <2>3. CASE Frame.code # "END_OF_CONTACTS"
    <3>1. UNCHANGED <<pc, req>>
      BY <1>20, <2>3 DEF CollectContact
    <3>2. \A u \in Tasks : Waiting(u)' <=> Waiting(u)
      BY <3>1 DEF Waiting
    <3>3. QED
      BY <1>1, <2>1, <3>1, <3>2, StepTake
  <2>4. QED
    BY <2>2, <2>3
<1>21. CASE t \in Controllers /\ ControlTimeout(t)
  <2>1. /\ Waiting(t) /\ Discard /\ Return(t) /\ pipe' = pipe
    BY <1>21 DEF ControlTimeout
  <2>2. QED
    BY <1>4, <1>6, <1>7, <2>1
<1>22. CASE t \in Controllers /\ ControlCancelled(t)
  <2>1. /\ Return(t) /\ pipe' = pipe /\ queue' = queue /\ UNCHANGED <<calls, desync>>
    BY <1>22 DEF ControlCancelled
  <2>2. CASE Waiting(t)
    <3>1. Discard
      BY <1>22, <2>2 DEF ControlCancelled
    <3>2. QED
      BY <1>4, <1>6, <1>7, <2>1, <2>2, <3>1
  <2>3. CASE ~Waiting(t)
    <3>1. UNCHANGED <<linkVars, givenUp>>
      BY <1>22, <2>3 DEF ControlCancelled
    <3>2. QED
      BY <1>4, <1>5, <1>7, <2>1, <2>3, <3>1
  <2>4. QED
    BY <2>2, <2>3
<1>23. QED
  BY <1>11, <1>12, <1>13, <1>14, <1>15, <1>16, <1>17, <1>18, <1>19, <1>20, <1>21, <1>22
     DEF TextStep, ControlStep

LEMMA StepOther ==
  ASSUME TurnInv, LinkInv, InStep,
         Environment \/ Terminated \/ (\E t \in Tasks : SkipUnexpected(t)) \/ UNCHANGED vars
  PROVE  LinkInv' /\ InStep'
<1> USE DEF linkVars, taskVars, ghostVars
<1>1. TypeOK
  BY DEF TurnInv
<1>2. ASSUME LinkShrinks, UNCHANGED <<queue, pc, req, calls, desync, givenUp>>
      PROVE  LinkInv' /\ InStep'
  <2>1. /\ Ended => Ended'
        /\ \A u \in Tasks : WaitsOn(u)' <=> WaitsOn(u)
    BY <1>2 DEF Ended, WaitsOn, Waiting, LinkShrinks
  <2>2. QED
    BY <1>2, <2>1, StepKeep DEF LinkShrinks
<1>3. UNCHANGED <<linkVars, pipe>> => LinkShrinks
  BY DEF LinkShrinks, WriteRaises
<1>4. CASE RequestStop \/ Terminated \/ UNCHANGED vars
  BY <1>2, <1>3, <1>4 DEF RequestStop, Terminated, vars
<1>5. CASE PeerLost
  <2>1. PICK g \in Conns : sock' = [sock EXCEPT ![g] = "closed"]
    BY <1>5 DEF PeerLost
  <2>2. \A h \in Conns : sock[h] = "closed" => sock'[h] = "closed"
    BY <1>1, <2>1 DEF TypeOK
  <2>3. UNCHANGED <<writer, gen, reader, pipe>>
    BY <1>5 DEF PeerLost
  <2>4. LinkShrinks
    BY <2>2, <2>3 DEF LinkShrinks, WriteRaises
  <2>5. QED
    BY <1>2, <1>5, <2>4 DEF PeerLost
<1>6. ASSUME NEW g \in Conns, NEW state, reader' = [reader EXCEPT ![g] = state],
             pipe' = [pipe EXCEPT ![g] = << >>], UNCHANGED <<writer, gen, sock>>
      PROVE  LinkShrinks
  BY <1>1, <1>6 DEF TypeOK, LinkShrinks, WriteRaises
<1>7. CASE ReaderExit
  BY <1>2, <1>6, <1>7 DEF ReaderExit
<1>8. ASSUME NEW g \in Conns, LeakedReaderEnds(g) PROVE LinkInv' /\ InStep'
  BY <1>2, <1>6, <1>8 DEF LeakedReaderEnds
<1>9. ASSUME NEW g \in Conns, Answer(g) PROVE LinkInv' /\ InStep'
  BY <1>9, StepAnswer
<1>10. ASSUME NEW t \in Tasks, SkipUnexpected(t) PROVE LinkInv' /\ InStep'
  <2>1. /\ HasFrame(t) /\ queue' = Tail(queue) /\ req' = [req EXCEPT ![t].unexpected = @ + 1]
        /\ UNCHANGED <<linkVars, pipe, calls, desync, givenUp, pc>>
    BY <1>10 DEF SkipUnexpected
  <2>2. req[t] \in Requests /\ req = [u \in Tasks |-> req[u]]
    BY <1>1 DEF TypeOK
  <2>3. \A u \in Tasks : req'[u].on = req[u].on /\ req'[u].label = req[u].label
    BY <2>1, <2>2 DEF Requests
  <2>4. \A u \in Tasks : Waiting(u)' <=> Waiting(u)
    BY <2>1 DEF Waiting
  <2>5. QED
    BY <2>1, <2>3, <2>4, StepTake
<1>11. QED
  BY <1>4, <1>5, <1>7, <1>8, <1>9, <1>10 DEF Environment

LEMMA StepInit == Init => LinkInv /\ InStep /\ CallLabels
<1> SUFFICES ASSUME Init PROVE LinkInv /\ InStep /\ CallLabels
  OBVIOUS
<1>1. LinkInv
  BY DEF Init, LinkInv
<1>2. InStep
  BY TaskKinds DEF Init, InStep, EmptyBacklog, WaitsOn, Waiting
<1>3. CallLabels
  BY TaskKinds, NoReqLabel DEF Init, CallLabels, MayAsk, Clients
<1>4. QED
  BY <1>1, <1>2, <1>3

LEMMA StepNext == StepInv /\ [Next]_vars => LinkInv' /\ InStep' /\ CallLabels'
<1> SUFFICES ASSUME StepInv, [Next]_vars PROVE LinkInv' /\ InStep' /\ CallLabels'
  OBVIOUS
<1>1. TurnInv /\ LinkInv /\ InStep /\ CallLabels /\ TypeOK
  BY DEF StepInv, TurnInv
<1>2. CallLabels'
  BY <1>1, CallLabelsStep
<1>3. CASE MainStep
  BY <1>1, <1>2, <1>3, StepMain
<1>4. CASE Environment \/ Terminated \/ (\E t \in Tasks : SkipUnexpected(t)) \/ UNCHANGED vars
  BY <1>1, <1>2, <1>4, StepOther
<1>5. ASSUME NEW t \in Texters, TextStep(t) PROVE LinkInv' /\ InStep'
  BY <1>1, <1>5, TaskKinds, StepClient
<1>6. ASSUME NEW c \in Controllers, ControlStep(c) PROVE LinkInv' /\ InStep'
  BY <1>1, <1>6, TaskKinds, StepClient
<1>7. QED
  BY <1>2, <1>3, <1>4, <1>5, <1>6 DEF Next, SkipHeartbeat

THEOREM StepCorrect == Spec => []StepInv
<1>1. Init => LinkInv /\ InStep /\ CallLabels
  BY StepInit
<1>2. StepInv /\ [Next]_vars => LinkInv' /\ InStep' /\ CallLabels'
  BY StepNext
<1>3. StepInv <=> TurnInv /\ LinkInv /\ InStep /\ CallLabels
  BY DEF StepInv
<1>4. QED
  BY <1>1, <1>2, <1>3, TurnsCorrect, PTL DEF Spec

(* While the queue is in step a call is decided only by a frame that the    *)
(* Companion sent for that very call.                                       *)
THEOREM AckIsOwnCorrect == Spec => AckIsOwn
<1>1. StepInv => \A t \in Clients : HasFrame(t) /\ ~desync => Own(t)
  <2> SUFFICES ASSUME StepInv, NEW t \in Clients, HasFrame(t), ~desync PROVE Own(t)
    OBVIOUS
  <2>1. t \in Tasks /\ TurnInv /\ LinkInv /\ InStep
    BY DEF Tasks, StepInv
  <2>2. QED
    BY <2>1, FrameIsOwn DEF OwnFrame, Own
<1>2. StepInv /\ [Next]_vars => [\A t \in Clients : Decides(t) /\ ~desync => Own(t)]_vars
  BY <1>1 DEF Decides
<1>3. QED
  BY <1>2, StepCorrect, PTL DEF Spec, AckIsOwn

(* Nothing is sent on a connection a control command gave up on.            *)
THEOREM DiscardedStaysSilentCorrect == Spec => DiscardedStaysSilent
<1>1. StepInv /\ [Next]_vars => [\A t \in Tasks : Sends(t) => ~givenUp]_vars
  <2> SUFFICES ASSUME StepInv, [Next]_vars, NEW t \in Tasks, Sends(t) PROVE ~givenUp
    OBVIOUS
  <2>1. TypeOK /\ LinkInv /\ pc = [u \in Tasks |-> pc[u]] /\ req = [u \in Tasks |-> req[u]]
    BY TurnTypes DEF StepInv, TurnInv
  <2>2. CASE Sending
    <3>1. ~WriteRaises
      BY <2>2 DEF Sending, Send
    <3>2. QED
      BY <2>1, <3>1 DEF LinkInv
  <2>3. CASE Settling
    <3>0. PICK u \in Tasks : \E state :
            /\ state # "await" /\ pc' = [pc EXCEPT ![u] = state]
            /\ req' = req \/ \E r : req' = [req EXCEPT ![u] = r]
      BY <2>3 DEF Settling
    <3>1. PICK state :
            /\ state # "await" /\ pc' = [pc EXCEPT ![u] = state]
            /\ req' = req \/ \E r : req' = [req EXCEPT ![u] = r]
      BY <3>0
    <3>2. t # u => pc'[t] = pc[t] /\ req'[t] = req[t]
      BY <2>1, <3>1
    <3>3. t = u => pc'[t] = state
      BY <2>1, <3>1
    <3>4. QED
      BY <3>1, <3>2, <3>3 DEF Sends
  <2>4. CASE Resting
    BY <2>4 DEF Resting, Sends
  <2>5. QED
    BY <2>1, <2>2, <2>3, <2>4, Shape
<1>2. QED
  BY <1>1, StepCorrect, PTL DEF Spec, DiscardedStaysSilent

(* No call throws away a message the Companion handed out: while the queue  *)
(* is in step, whoever finds a message at its head has asked for one, and   *)
(* only Main asks.                                                          *)
THEOREM SwallowsNoMessageCorrect == Spec => SwallowsNoMessage
<1>1. StepInv => \A t \in Clients : HasFrame(t) /\ ~desync => Frame.code # "CONTACT_MSG"
  <2> SUFFICES ASSUME StepInv, NEW t \in Clients, HasFrame(t), ~desync, Frame.code = "CONTACT_MSG"
               PROVE  FALSE
    OBVIOUS
  <2>1. t \in Tasks /\ TurnInv /\ LinkInv /\ InStep
    BY DEF Tasks, StepInv
  <2>2. OwnFrame(t, Frame)
    BY <2>1, FrameIsOwn
  <2>3. req[t].label = "sync_next_message"
    BY <2>2 DEF OwnFrame
  <2>4. MayAsk(t, req[t].label)
    BY DEF StepInv, CallLabels
  <2>5. QED
    BY <2>3, <2>4 DEF MayAsk, Clients
<1>2. StepInv /\ [Next]_vars =>
        [\A t \in Clients :
           HasFrame(t) /\ Frame.code = "CONTACT_MSG" /\ ~desync => queue' # Tail(queue)]_vars
  BY <1>1
<1>3. QED
  BY <1>2, StepCorrect, PTL DEF Spec, SwallowsNoMessage

=============================================================================
