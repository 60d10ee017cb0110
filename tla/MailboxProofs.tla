---------------------------- MODULE MailboxProofs ----------------------------
(***************************************************************************)
(* Theorems about Mailbox, for any number of requests of any kinds, any    *)
(* lifetime of a challenge, and whatever fails or stops.                   *)
(***************************************************************************)
EXTENDS Mailbox, TLAPS

Busy == at \in {"lock", "guard", "reading", "changing"}

(* A request that has been carried out names no challenge that counts any   *)
(* more; one whose page is still new never did.                             *)
TokenInv ==
  \A r \in Requests :
    /\ page[r] = "new" => r \notin holders
    /\ page[r] = "new" \/ r \in holders => calls[r] = 0
    /\ calls[r] <= 1
    /\ changed[r] => calls[r] # 0

(* What the control task knows of the request it is carrying out.           *)
ActInv ==
  /\ Busy => act \in Requests /\ calls[act] = 1 /\ kind[act] \notin {"favorite", "unfavorite"}
  /\ ~Busy => act = Nothing /\ ~written
  /\ at = "lock" => ~written
  /\ at \in {"lock", "guard", "reading"} /\ ~written => ~changed[act]
  /\ at = "changing" => changed[act]
  /\ at = "reading" => kind[act] \notin {"advert", "remove"}

(* A status that may be told of a request, now and from now on.             *)
Truthful(r, status) ==
  /\ r \notin holders /\ page[r] # "new"
  /\ status = "not_sent" => ~changed[r] /\ act # r
  /\ status = "accepted" /\ kind[r] \in {"advert", "remove"} => changed[r]
Recorded(results) ==
  \A b \in Boxes : results[b].id \in Requests => Truthful(results[b].id, results[b].status)
PageInv == \A r \in Requests : page[r] \in {"not_sent", "accepted"} => Truthful(r, page[r])

TruthInv ==
  /\ TypeOK /\ TokenInv /\ ActInv
  /\ Recorded(result) /\ Recorded(shown) /\ PageInv

-----------------------------------------------------------------------------
(* What a step may do to what the task and the pages know of the requests:  *)
(* it forgets, takes up a request, sends, or a page moves.                  *)
Forgets ==
  /\ UNCHANGED <<page, kind, calls, changed>>
  /\ holders' \subseteq holders /\ act' \in {act, Nothing}
TakesUp ==
  \E r \in holders :
    /\ r \in Requests /\ act' = r /\ holders' \subseteq holders \ {r}
    /\ calls' = [calls EXCEPT ![r] = IF @ < 2 THEN @ + 1 ELSE 2]
    /\ UNCHANGED <<page, kind, changed>>
Commands ==
  /\ Busy
  /\ \E changes \in BOOLEAN : changed' = [changed EXCEPT ![act] = @ \/ changes]
  /\ UNCHANGED <<page, kind, calls, holders, act>>
PageMoves ==
  \E r \in Requests : \E status \in {"looked", "posted"} \cup Statuses :
    /\ page' = [page EXCEPT ![r] = status]
    /\ holders' = holders \/ (page[r] = "new" /\ holders' = holders \cup {r})
    /\ UNCHANGED <<kind, calls, changed, act>>

LEMMA BoxOfType == TypeOK => \A r \in Requests : BoxOf(r) \in Boxes
BY DEF TypeOK, BoxOf, Boxes

LEMMA Shape ==
  ASSUME TypeOK, ActInv, [Next]_vars
  PROVE  Forgets \/ TakesUp \/ Commands \/ PageMoves
<1> USE DEF challenge, ghosts, memory, plugin
<1>1. ASSUME NEW b \in Boxes, Pass(b) PROVE Forgets
  BY <1>1 DEF Pass, Rotate, Forgets
<1>2. ASSUME NEW b \in Boxes, Announce(b) PROVE Forgets \/ TakesUp
  <2>1. config \in holders /\ holders' \subseteq holders \ {config} /\ UNCHANGED <<page, kind, changed>>
    BY <1>2 DEF Announce, Consume, Matches
  <2>2. CASE at' = "lock"
    BY <1>2, <2>1, <2>2, MailboxAssumption DEF Announce, TakesUp, TypeOK
  <2>3. CASE at' # "lock"
    BY <1>2, <2>1, <2>3 DEF Announce, Forgets
  <2>4. QED
    BY <2>2, <2>3
<1>3. CASE Mark \/ RejectKey
  BY <1>3 DEF Mark, RejectKey, Consume, Forgets
<1>4. CASE Wake \/ Conclude
  BY <1>4 DEF Wake, Conclude, Forgets
<1>5. CASE Refused \/ Expires \/ Succeeds \/ IsRefused \/ Uncertain
  BY <1>5 DEF Refused, Expires, Succeeds, IsRefused, Uncertain, Returns, Forgets
<1>6. CASE Sends
  BY <1>6 DEF Sends, Commands, Busy
<1>7. CASE Continues
  BY <1>7 DEF Continues, Forgets
<1>8. CASE Stop \/ Crash
  BY <1>8 DEF Stop, Crash, Ended, Forgets
<1>9. CASE Start \/ Tick \/ Save
  BY <1>9 DEF Start, Tick, Save, Forgets
<1>10. ASSUME NEW r \in Requests, Repeat(r) PROVE Forgets
  BY <1>10 DEF Repeat, Forgets
<1>11. ASSUME NEW r \in Requests, Look(r) \/ Post(r) \/ GivesUp(r) PROVE PageMoves
  BY <1>11 DEF Look, Post, GivesUp, PageMoves, Statuses
<1>12. ASSUME NEW r \in Requests, IsTold(r) PROVE PageMoves
  <2>1. shown[BoxOf(r)].status \in Statuses
    BY BoxOfType DEF TypeOK, Result
  <2>2. QED
    BY <1>12, <2>1 DEF IsTold, PageMoves
<1>13. CASE UNCHANGED vars
  BY <1>13 DEF vars, Forgets
<1>14. QED
  BY <1>1, <1>2, <1>3, <1>4, <1>5, <1>6, <1>7, <1>8, <1>9, <1>10, <1>11, <1>12, <1>13
     DEF Next, TickStep, Call, Pages

LEMMA TokenStep ==
  ASSUME TypeOK, TokenInv, ActInv, [Next]_vars
  PROVE  TokenInv'
<1> USE DEF TypeOK, TokenInv
<1>1. CASE Forgets
  BY <1>1 DEF Forgets
<1>2. CASE TakesUp
  BY <1>2 DEF TakesUp
<1>3. CASE Commands
  BY <1>3 DEF Commands, ActInv
<1>4. CASE PageMoves
  BY <1>4 DEF PageMoves, Statuses
<1>5. QED
  BY <1>1, <1>2, <1>3, <1>4, Shape

LEMMA TruthfulStep ==
  ASSUME TypeOK, TokenInv, ActInv, [Next]_vars,
         NEW r \in Requests, NEW status, Truthful(r, status)
  PROVE  Truthful(r, status)'
<1> USE DEF TypeOK, Truthful
<1>1. CASE Forgets
  BY <1>1, MailboxAssumption DEF Forgets
<1>2. CASE TakesUp
  BY <1>2 DEF TakesUp
<1>3. CASE Commands
  BY <1>3 DEF Commands, ActInv
<1>4. CASE PageMoves
  BY <1>4 DEF PageMoves, Statuses
<1>5. QED
  BY <1>1, <1>2, <1>3, <1>4, Shape

LEMMA ActStep ==
  ASSUME TypeOK, TokenInv, ActInv, [Next]_vars
  PROVE  ActInv'
<1> USE DEF challenge, ghosts, memory, plugin, TypeOK, ActInv, Busy
<1>1. ASSUME NEW b \in Boxes, Pass(b) PROVE ActInv'
  BY <1>1 DEF Pass, Rotate, Following, Boxes
<1>2. ASSUME NEW b \in Boxes, Announce(b) PROVE ActInv'
  <2>1. config \in Requests /\ calls[config] = 0 /\ ~changed[config] /\ ~Busy
    BY <1>2, MailboxAssumption DEF Announce, Consume, Matches, TokenInv, Boxes
  <2>2. CASE at' = "lock"
    BY <1>2, <2>1, <2>2 DEF Announce
  <2>3. CASE at' # "lock"
    BY <1>2, <2>1, <2>3 DEF Announce, Publish
  <2>4. QED
    BY <2>2, <2>3
<1>3. CASE Mark \/ RejectKey
  BY <1>3 DEF Mark, RejectKey, Consume, AtOnce, Publish
<1>4. CASE Wake \/ Conclude
  BY <1>4 DEF Wake, Conclude, Publish
<1>5. CASE Refused \/ Expires \/ Succeeds \/ IsRefused \/ Uncertain
  BY <1>5 DEF Refused, Expires, Succeeds, IsRefused, Uncertain, Returns, Following, BoxOf
<1>6. CASE Sends
  BY <1>6 DEF Sends
<1>7. CASE Continues
  BY <1>7 DEF Continues
<1>8. CASE Stop \/ Crash
  BY <1>8 DEF Stop, Crash, Ended
<1>9. CASE Start \/ Tick \/ Save
  BY <1>9 DEF Start, Tick, Save
<1>10. CASE Pages
  BY <1>10 DEF Pages, Look, Post, IsTold, GivesUp, Repeat
<1>11. CASE UNCHANGED vars
  BY <1>11 DEF vars
<1>12. QED
  BY <1>1, <1>2, <1>3, <1>4, <1>5, <1>6, <1>7, <1>8, <1>9, <1>10, <1>11
     DEF Next, TickStep, Call

LEMMA TypeStep ==
  ASSUME TypeOK, ActInv, [Next]_vars
  PROVE  TypeOK'
<1> USE DEF challenge, ghosts, memory, plugin, TypeOK
<1>0. \A r \in Requests : BoxOf(r) \in Boxes
  BY BoxOfType
<1>1. ASSUME NEW b \in Boxes, Pass(b) PROVE TypeOK'
  BY <1>1, MailboxAssumption DEF Pass, Rotate, Renewed, Following, Boxes
<1>2. ASSUME NEW b \in Boxes, Announce(b) PROVE TypeOK'
  <2>1. config \in Requests
    BY <1>2 DEF Announce, Consume, Matches
  <2>2. [result EXCEPT ![b] = Outcome(config, "pending")] \in [Boxes -> Result]
    BY <1>2, <2>1 DEF Outcome, Result, Statuses
  <2>3. /\ shown' \in [Boxes -> Result] /\ result' \in [Boxes -> Result] /\ fresh' \subseteq Boxes
        /\ at' \in {"sleep", "lock"}
    BY <1>2, <2>2 DEF Announce, Publish, Snapshot, NoSnapshot
  <2>4. holders' \subseteq Requests /\ fuse' \in [Boxes -> 0..Lifetime]
    BY <1>2, MailboxAssumption DEF Announce, Consume, Renewed
  <2>5. act' \in Requests \cup {Nothing} /\ budget' \in 0..Lifetime
    BY <1>2, <2>1 DEF Announce
  <2>6. calls' \in [Requests -> 0..2]
    <3>1. (IF calls[config] < 2 THEN calls[config] + 1 ELSE 2) \in 0..2
      BY <2>1
    <3>2. calls' = calls \/ calls' = [calls EXCEPT ![config] = IF @ < 2 THEN @ + 1 ELSE 2]
      BY <1>2 DEF Announce
    <3>3. QED
      BY <3>1, <3>2
  <2>7. QED
    BY <1>2, <2>3, <2>4, <2>5, <2>6 DEF Announce
<1>3. CASE Mark \/ RejectKey
  <2>1. config \in Requests
    BY <1>3 DEF Mark, RejectKey, Consume, Matches
  <2>2. ASSUME NEW status \in Statuses
        PROVE  [result EXCEPT !["contacts"] = Outcome(config, status)] \in [Boxes -> Result]
    BY <2>1 DEF Outcome, Result, Boxes
  <2>3. /\ shown' \in [Boxes -> Result] /\ result' \in [Boxes -> Result] /\ fresh' \subseteq Boxes
        /\ at' \in {"sleep", "advert"}
    BY <1>3, <2>2 DEF Mark, RejectKey, AtOnce, Publish, Snapshot, NoSnapshot, Statuses
  <2>4. holders' \subseteq Requests /\ fuse' \in [Boxes -> 0..Lifetime]
    BY <1>3, MailboxAssumption DEF Mark, RejectKey, Consume, Renewed
  <2>5. favorites' \subseteq Contacts /\ saved' \subseteq Contacts /\ loaded' \in BOOLEAN
    BY <1>3 DEF Mark, RejectKey, Marked, Saves, SaveFails, Contacts
  <2>6. QED
    BY <1>3, <2>3, <2>4, <2>5 DEF Mark, RejectKey, Boxes
<1>4. CASE Wake \/ Conclude
  BY <1>4 DEF Wake, Conclude, Publish, Snapshot, NoSnapshot, Boxes
<1>5. CASE Refused \/ Expires \/ Succeeds \/ IsRefused \/ Uncertain
  <2>1. act \in Requests
    BY <1>5 DEF ActInv, Busy, Refused, Expires, Succeeds, IsRefused, Uncertain
  <2>2. PICK status \in Statuses : Returns(status)
    BY <1>5 DEF Refused, Expires, WhenExpired, Succeeds, IsRefused, Uncertain, Statuses
  <2>3. result' \in [Boxes -> Result]
    BY <1>0, <2>1, <2>2 DEF Returns, Outcome, Result
  <2>4. at' \in Boxes \cup {"publish"}
    BY <1>0, <2>1, <2>2 DEF Returns, Following, Boxes
  <2>5. favorites' \subseteq Contacts /\ saved' \subseteq Contacts /\ loaded' \in BOOLEAN
    BY <1>5 DEF Refused, Expires, Succeeds, IsRefused, Uncertain, Saves, SaveFails
  <2>6. QED
    <3>0. act' = Nothing /\ budget' = 0 /\ written' = FALSE
      BY <2>2 DEF Returns
    <3>1. budget' \in 0..Lifetime
      BY <3>0, MailboxAssumption
    <3>2. UNCHANGED <<config, shown, fresh, holders, fuse, page, kind, calls, changed>>
      BY <2>2 DEF Returns
    <3>3. QED
      BY <2>3, <2>4, <2>5, <3>0, <3>1, <3>2
<1>6. CASE Sends
  BY <1>6 DEF Sends
<1>7. CASE Continues
  BY <1>7 DEF Continues
<1>8. CASE Stop \/ Crash
  <2>1. shown' \in [Boxes -> Result]
    <3>1. CASE at = "sleep" \/ shown' = shown
      BY <1>8, <3>1 DEF Stop, Crash, Waits
    <3>2. CASE Waits /\ shown' = [result EXCEPT ![BoxOf(act)] = Outcome(act, "unknown")]
      <4>1. act \in Requests
        BY <3>2 DEF Waits, ActInv, Busy
      <4>2. QED
        BY <1>0, <3>2, <4>1 DEF Outcome, Result, Statuses
    <3>3. QED
      BY <1>8, <3>1, <3>2 DEF Stop, Crash
  <2>2. QED
    <3>1. Ended /\ UNCHANGED <<config, saved, page, kind, calls, changed>>
      BY <1>8 DEF Stop, Crash
    <3>2. NoResult \in Result /\ 0 \in 0..Lifetime
      BY MailboxAssumption DEF NoResult, Result, Statuses
    <3>3. result' \in [Boxes -> Result] /\ fuse' \in [Boxes -> 0..Lifetime]
      BY <3>1, <3>2 DEF Ended
    <3>4. favorites' \subseteq Contacts /\ saved' \subseteq Contacts /\ loaded' \in BOOLEAN
      BY <3>1 DEF Ended
    <3>5. /\ at' = "stopped" /\ act' = Nothing /\ budget' = 0 /\ written' = FALSE
          /\ fresh' = {} /\ holders' = {}
      BY <3>1 DEF Ended
    <3>6. /\ config' \in Requests \cup {Nothing}
          /\ page' \in [Requests -> {"new", "looked", "posted"} \cup Statuses]
          /\ kind' \in [Requests -> Kinds]
          /\ calls' \in [Requests -> 0..2] /\ changed' \in [Requests -> BOOLEAN]
      BY <3>1
    <3>7. budget' \in 0..Lifetime
      BY <3>2, <3>5
    <3>8. QED
      BY <2>1, <3>3, <3>4, <3>5, <3>6, <3>7
<1>9. CASE Start \/ Tick \/ Save
  <2>1. \A n \in 0..Lifetime : Less(n) \in 0..Lifetime
    BY MailboxAssumption DEF Less
  <2>2. CASE Start
    <3>1. fuse' \in [Boxes -> 0..Lifetime]
      BY <2>2, MailboxAssumption DEF Start
    <3>2. favorites' \subseteq Contacts /\ loaded' \in BOOLEAN
      BY <2>2 DEF Start, Loads, LoadFails
    <3>3. QED
      BY <2>2, <3>1, <3>2 DEF Start
  <2>3. CASE Tick \/ Save
    BY <2>1, <2>3, MailboxAssumption DEF Tick, Save
  <2>4. QED
    BY <1>9, <2>2, <2>3
<1>10. ASSUME NEW r \in Requests, Look(r) \/ Post(r) \/ GivesUp(r) \/ Repeat(r) PROVE TypeOK'
  BY <1>10 DEF Look, Post, GivesUp, Repeat, Statuses
<1>11. ASSUME NEW r \in Requests, IsTold(r) PROVE TypeOK'
  <2>1. shown[BoxOf(r)].status \in Statuses
    BY <1>0 DEF Result
  <2>2. QED
    BY <1>11, <2>1 DEF IsTold
<1>12. CASE UNCHANGED vars
  BY <1>12 DEF vars
<1>13. QED
  BY <1>1, <1>2, <1>3, <1>4, <1>5, <1>6, <1>7, <1>8, <1>9, <1>10, <1>11, <1>12
     DEF Next, TickStep, Call, Pages

-----------------------------------------------------------------------------
(* A result is replaced only by one that tells the truth of its request.    *)
LEMMA ResultStep ==
  ASSUME TypeOK, TokenInv, ActInv, [Next]_vars, NEW b \in Boxes
  PROVE  \/ result'[b] \in {result[b], NoResult}
         \/ \E r \in Requests, status \in Statuses :
              result'[b] = Outcome(r, status) /\ Truthful(r, status)'
<1> DEFINE New == \E r \in Requests, status \in Statuses :
                    result'[b] = Outcome(r, status) /\ Truthful(r, status)'
<1> USE DEF challenge, ghosts, memory, plugin, TypeOK
<1>1. ASSUME NEW c \in Boxes, Announce(c) PROVE result'[b] = result[b] \/ New
  <2>1. PICK r \in Requests : r = config /\ Truthful(r, "pending")'
    BY <1>1 DEF Announce, Consume, Matches, TokenInv, Truthful
  <2>2. result' = [result EXCEPT ![c] = Outcome(config, "pending")]
    BY <1>1 DEF Announce, Publish
  <2>3. QED
    BY <2>1, <2>2 DEF Statuses
<1>2. CASE Mark \/ RejectKey
  <2>1. PICK status \in {"accepted", "not_sent"} :
          AtOnce(status) /\ (status = "accepted" => kind[config] \notin {"advert", "remove"})
    BY <1>2 DEF Mark, RejectKey
  <2>2. PICK r \in Requests :
          /\ r = config /\ r \notin holders' /\ page'[r] # "new" /\ ~changed'[r]
          /\ act' = Nothing /\ kind' = kind
    <3>1. config \in Requests /\ config \in holders /\ at = "contacts" /\ config \notin holders'
      BY <1>2 DEF Mark, RejectKey, Consume, Matches
    <3>2. UNCHANGED <<page, changed, act, kind>>
      BY <1>2 DEF Mark, RejectKey
    <3>3. page[config] # "new" /\ ~changed[config] /\ act = Nothing
      BY <3>1 DEF TokenInv, ActInv, Busy
    <3>4. QED
      BY <3>1, <3>2, <3>3
  <2>3. Truthful(r, status)'
    BY <2>1, <2>2, MailboxAssumption DEF Truthful
  <2>4. result' = [result EXCEPT !["contacts"] = Outcome(r, status)]
    BY <2>1, <2>2 DEF AtOnce, Publish
  <2>5. QED
    BY <2>3, <2>4 DEF Statuses
<1>3. CASE Refused \/ Expires \/ Succeeds \/ IsRefused \/ Uncertain
  <2>1. act \in Requests /\ act \notin holders /\ page[act] # "new"
    <3>1. Busy
      BY <1>3 DEF Refused, Expires, Succeeds, IsRefused, Uncertain, Busy
    <3>2. QED
      BY <3>1 DEF ActInv, TokenInv
  <2>2. PICK status \in Statuses :
          /\ Returns(status)
          /\ status = "not_sent" => ~changed[act]
          /\ status = "accepted" /\ kind[act] \in {"advert", "remove"} => changed[act]
    BY <1>3 DEF Refused, Expires, WhenExpired, Succeeds, IsRefused, Uncertain, Statuses, ActInv
  <2>3. PICK r \in Requests : r = act /\ Truthful(r, status)'
    BY <2>1, <2>2, MailboxAssumption DEF Returns, Truthful
  <2>4. result' = [result EXCEPT ![BoxOf(r)] = Outcome(r, status)]
    BY <2>2, <2>3 DEF Returns
  <2>5. QED
    BY <2>3, <2>4
<1>4. CASE Stop \/ Crash
  BY <1>4 DEF Stop, Crash, Ended
<1>5. ASSUME NEW c \in Boxes, Pass(c) PROVE result' = result
  BY <1>5 DEF Pass
<1>6. CASE Wake \/ Conclude \/ Sends \/ Continues \/ Start \/ Tick \/ Save \/ Pages
  BY <1>6 DEF Wake, Conclude, Publish, Sends, Continues, Start, Tick, Save, Pages,
              Look, Post, IsTold, GivesUp, Repeat
<1>7. CASE UNCHANGED vars
  BY <1>7 DEF vars
<1>8. QED
  BY <1>1, <1>2, <1>3, <1>4, <1>5, <1>6, <1>7 DEF Next, TickStep, Call

LEMMA ShownStep ==
  ASSUME TypeOK, TokenInv, ActInv, [Next]_vars, NEW b \in Boxes
  PROVE  \/ shown'[b] \in {shown[b], result[b], result'[b]}
         \/ \E r \in Requests, status \in Statuses :
              shown'[b] = Outcome(r, status) /\ Truthful(r, status)'
<1> USE DEF challenge, ghosts, memory, plugin, TypeOK
<1>1. ASSUME NEW c \in Boxes, Pass(c) \/ Announce(c) PROVE shown' \in {shown, result'}
  BY <1>1 DEF Pass, Announce, Publish, Snapshot, NoSnapshot
<1>2. CASE Mark \/ RejectKey \/ Conclude
  BY <1>2 DEF Mark, RejectKey, Conclude, AtOnce, Publish, Snapshot, NoSnapshot
<1>3. CASE Stop
  <2>1. CASE UNCHANGED shown
    BY <2>1
  <2>2. CASE Waits /\ shown' = [result EXCEPT ![BoxOf(act)] = Outcome(act, "unknown")]
    <3>1. act \in Requests /\ page[act] # "new"
      BY <2>2 DEF Waits, ActInv, Busy, TokenInv
    <3>2. \E r \in Requests : r = act /\ Truthful(r, "unknown")'
      BY <1>3, <3>1 DEF Stop, Ended, Truthful
    <3>3. QED
      BY <2>2, <3>1, <3>2, BoxOfType DEF Statuses
  <2>3. QED
    BY <1>3, <2>1, <2>2 DEF Stop
<1>4. CASE Call
  BY <1>4 DEF Call, Refused, Expires, Sends, Succeeds, IsRefused, Uncertain, Returns
<1>5. CASE Wake \/ Continues \/ Crash \/ Start \/ Tick \/ Save \/ Pages
  BY <1>5 DEF Wake, Continues, Crash, Start, Tick, Save, Pages, Look, Post, IsTold, GivesUp, Repeat
<1>6. CASE UNCHANGED vars
  BY <1>6 DEF vars
<1>7. QED
  BY <1>1, <1>2, <1>3, <1>4, <1>5, <1>6 DEF Next, TickStep

LEMMA PageStep ==
  ASSUME TypeOK, Recorded(shown), [Next]_vars, NEW r \in Requests
  PROVE  \/ page'[r] = page[r]
         \/ page'[r] \in {"not_sent", "accepted"} => Truthful(r, page'[r])
<1> USE DEF challenge, ghosts, memory, plugin, TypeOK
<1>1. ASSUME NEW q \in Requests, IsTold(q)
      PROVE  page'[r] = page[r] \/ Truthful(r, page'[r])
  <2>1. q = r => shown[BoxOf(r)].id = r /\ page'[r] = shown[BoxOf(r)].status
    BY <1>1 DEF IsTold
  <2>2. q # r => page'[r] = page[r]
    BY <1>1 DEF IsTold
  <2>3. QED
    BY <2>1, <2>2, BoxOfType DEF Recorded
<1>2. ASSUME NEW q \in Requests, Look(q) \/ Post(q) \/ GivesUp(q) \/ Repeat(q)
      PROVE  page'[r] = page[r] \/ page'[r] \notin {"not_sent", "accepted"}
  BY <1>2 DEF Look, Post, GivesUp, Repeat
<1>3. CASE ~Pages
  <2>1. CASE UNCHANGED vars
    BY <2>1 DEF vars
  <2>2. ASSUME NEW b \in Boxes, Pass(b) \/ Announce(b) PROVE page' = page
    BY <2>2 DEF Pass, Announce
  <2>3. CASE Mark \/ RejectKey \/ Wake \/ Conclude \/ Sends \/ Continues
    BY <2>3 DEF Mark, RejectKey, Wake, Conclude, Sends, Continues
  <2>4. CASE Refused \/ Expires \/ Succeeds \/ IsRefused \/ Uncertain
    BY <2>4 DEF Refused, Expires, Succeeds, IsRefused, Uncertain, Returns
  <2>5. CASE Stop \/ Crash \/ Start \/ Tick \/ Save
    BY <2>5 DEF Stop, Crash, Start, Tick, Save
  <2>6. QED
    BY <1>3, <2>1, <2>2, <2>3, <2>4, <2>5 DEF Next, TickStep, Call
<1>4. QED
  BY <1>1, <1>2, <1>3 DEF Pages

LEMMA RecordsStep ==
  ASSUME TruthInv, [Next]_vars
  PROVE  Recorded(result)' /\ Recorded(shown)' /\ PageInv'
<1> USE DEF TruthInv
<1>0. TypeOK'
  BY TypeStep
<1>1. ASSUME NEW b \in Boxes, NEW r \in Requests, NEW status \in Statuses,
             Outcome(r, status) \in {result[b], shown[b]}
      PROVE  Truthful(r, status)'
  <2>1. Truthful(r, status)
    BY <1>1 DEF Recorded, Outcome
  <2>2. QED
    BY <2>1, TruthfulStep
<1>2. ASSUME NEW b \in Boxes, NEW r \in Requests, NEW status \in Statuses,
             Outcome(r, status) = result'[b]
      PROVE  Truthful(r, status)'
  <2>1. Outcome(r, status) # NoResult
    BY MailboxAssumption DEF Outcome, NoResult
  <2>2. \A q \in Requests, s \in Statuses : Outcome(q, s) = Outcome(r, status) => q = r /\ s = status
    BY DEF Outcome
  <2>3. QED
    BY <1>1, <1>2, <2>1, <2>2, ResultStep
<1>3. ASSUME NEW b \in Boxes, NEW r \in Requests, NEW status \in Statuses,
             Outcome(r, status) = shown'[b]
      PROVE  Truthful(r, status)'
  <2>1. \A q \in Requests, s \in Statuses : Outcome(q, s) = Outcome(r, status) => q = r /\ s = status
    BY DEF Outcome
  <2>2. QED
    BY <1>1, <1>2, <1>3, <2>1, ShownStep
<1>4. ASSUME NEW b \in Boxes
      PROVE  /\ (result[b].id \in Requests => Truthful(result[b].id, result[b].status))'
             /\ (shown[b].id \in Requests => Truthful(shown[b].id, shown[b].status))'
  <2>1. /\ result'[b].id \in Requests =>
             \E r \in Requests, status \in Statuses : result'[b] = Outcome(r, status)
        /\ shown'[b].id \in Requests =>
             \E r \in Requests, status \in Statuses : shown'[b] = Outcome(r, status)
    BY <1>0 DEF TypeOK, Result, Outcome
  <2>2. ASSUME NEW r \in Requests, NEW status \in Statuses
        PROVE  Outcome(r, status).id = r /\ Outcome(r, status).status = status
    BY DEF Outcome
  <2>3. (result[b].id \in Requests => Truthful(result[b].id, result[b].status))'
    BY <1>2, <2>1, <2>2
  <2>4. (shown[b].id \in Requests => Truthful(shown[b].id, shown[b].status))'
    BY <1>3, <2>1, <2>2
  <2>5. QED
    BY <2>3, <2>4
<1>5. PageInv'
  <2> SUFFICES ASSUME NEW r \in Requests, page'[r] \in {"not_sent", "accepted"}
               PROVE  Truthful(r, page[r])'
    BY DEF PageInv
  <2>1. Truthful(r, page'[r])
    BY PageStep DEF PageInv
  <2>2. PICK status : status = page'[r]
    OBVIOUS
  <2>3. Truthful(r, status)'
    BY <2>1, <2>2, TruthfulStep
  <2>4. QED
    BY <2>2, <2>3 DEF Truthful
<1>6. QED
  BY <1>4, <1>5 DEF Recorded

LEMMA AnnouncedStep ==
  ASSUME TypeOK, TokenInv, ActInv, Announced, [Next]_vars
  PROVE  Announced'
<1> USE DEF challenge, ghosts, memory, plugin, TypeOK, Busy
<1>1. kind' = kind
  BY Shape DEF Forgets, TakesUp, Commands, PageMoves
<1>2. ASSUME Busy, Busy', act' = act, shown' = shown
      PROVE  Announced'
  <2>1. BoxOf(act)' = BoxOf(act)
    BY <1>1, <1>2 DEF BoxOf
  <2>2. QED
    BY <1>2, <2>1 DEF Announced
<1>3. ASSUME ~Busy' PROVE Announced'
  BY <1>3 DEF Announced
<1>4. ASSUME NEW b \in Boxes, Pass(b) PROVE Announced'
  BY <1>3, <1>4 DEF Pass, Following, Boxes
<1>5. ASSUME NEW b \in Boxes, Announce(b) PROVE Announced'
  <2>1. CASE at' = "lock"
    <3>1. /\ act' = config /\ BoxOf(config) = b
          /\ shown' = [result EXCEPT ![b] = Outcome(config, "pending")]
      BY <1>5, <2>1 DEF Announce, Consume, Matches, Publish, Snapshot
    <3>2. BoxOf(act)' = b
      BY <1>1, <3>1 DEF BoxOf
    <3>3. shown'[b] = Outcome(act', "pending")
      BY <3>1
    <3>4. QED
      BY <3>2, <3>3 DEF Announced, Outcome
  <2>2. CASE at' # "lock"
    BY <1>3, <1>5, <2>2 DEF Announce, Publish
  <2>3. QED
    BY <2>1, <2>2
<1>6. CASE Mark \/ RejectKey \/ Wake \/ Conclude
  BY <1>3, <1>6 DEF Mark, RejectKey, AtOnce, Wake, Conclude, Publish
<1>7. CASE Refused \/ Expires \/ Succeeds \/ IsRefused \/ Uncertain
  BY <1>3, <1>7 DEF Refused, Expires, Succeeds, IsRefused, Uncertain, Returns, Following, BoxOf
<1>8. CASE Sends \/ Continues
  BY <1>2, <1>8 DEF Sends, Continues
<1>9. CASE Stop \/ Crash \/ Start
  BY <1>3, <1>9 DEF Stop, Crash, Ended, Start
<1>10. ASSUME UNCHANGED <<at, act, shown>> PROVE Announced'
  BY <1>2, <1>3, <1>10
<1>11. CASE Tick \/ Save \/ Pages \/ UNCHANGED vars
  BY <1>10, <1>11 DEF Tick, Save, Pages, Look, Post, IsTold, GivesUp, Repeat, vars
<1>12. QED
  BY <1>4, <1>5, <1>6, <1>7, <1>8, <1>9, <1>11 DEF Next, TickStep, Call

(* What a step may do to the favorites: nothing, a request's own change of  *)
(* its contact, an end, or a start.                                         *)
LEMMA FavoritesShape ==
  ASSUME TypeOK, [Next]_vars
  PROVE  \/ UNCHANGED <<memory, saved>>
         \/ at' = "stopped" /\ ~loaded' /\ saved' = saved
         \/ at = "stopped" /\ saved' = saved /\ (Loads \/ LoadFails)
         \/ \E mark \in {"favorite", "unfavorite"} : Saves(Marked(mark))
<1> USE DEF challenge, ghosts, memory, plugin
<1>1. ASSUME NEW b \in Boxes, Pass(b) \/ Announce(b) PROVE UNCHANGED <<memory, saved>>
  BY <1>1 DEF Pass, Announce
<1>2. CASE RejectKey \/ Wake \/ Conclude \/ Sends \/ Continues
  BY <1>2 DEF RejectKey, Wake, Conclude, Sends, Continues
<1>3. CASE Mark
  BY <1>3 DEF Mark, SaveFails
<1>4. CASE Refused \/ Expires \/ IsRefused \/ Uncertain
  BY <1>4 DEF Refused, Expires, IsRefused, Uncertain
<1>5. CASE Succeeds
  BY <1>5 DEF Succeeds, SaveFails, Marked
<1>6. CASE Stop \/ Crash
  BY <1>6 DEF Stop, Crash, Ended
<1>7. CASE Start
  BY <1>7 DEF Start
<1>8. CASE Tick \/ Save \/ Pages \/ UNCHANGED vars
  BY <1>8 DEF Tick, Save, Pages, Look, Post, IsTold, GivesUp, Repeat, vars
<1>9. QED
  BY <1>1, <1>2, <1>3, <1>4, <1>5, <1>6, <1>7, <1>8 DEF Next, TickStep, Call

LEMMA MarksStep ==
  ASSUME TypeOK, ActInv, MarksKept, [Next]_vars
  PROVE  MarksKept'
<1> USE DEF challenge, ghosts, memory, plugin, TypeOK
<1>1. kind' = kind
  BY Shape DEF Forgets, TakesUp, Commands, PageMoves
<1>2. ASSUME result'["contacts"] = result["contacts"], saved' = saved PROVE MarksKept'
  BY <1>1, <1>2 DEF MarksKept, Outcome
<1>3. ASSUME NEW r \in Requests, NEW status, status # "accepted", result'["contacts"] = Outcome(r, status)
      PROVE  MarksKept'
  BY <1>3 DEF MarksKept, Outcome
<1>4. ASSUME NEW b \in Boxes, Pass(b) PROVE MarksKept'
  BY <1>2, <1>4 DEF Pass
<1>5. ASSUME NEW b \in Boxes, Announce(b) PROVE MarksKept'
  <2>1. config \in Requests /\ saved' = saved /\ result' = [result EXCEPT ![b] = Outcome(config, "pending")]
    BY <1>5 DEF Announce, Consume, Matches, Publish
  <2>2. QED
    BY <1>2, <1>3, <2>1 DEF Boxes
<1>6. CASE Mark
  <2>1. config \in Requests /\ kind[config] \in {"favorite", "unfavorite"}
    BY <1>6 DEF Mark, Consume, Matches
  <2>2. CASE Saves(Marked(kind[config])) /\ AtOnce("accepted")
    <3>1. result'["contacts"] = Outcome(config, "accepted")
      BY <2>2 DEF AtOnce, Publish, Boxes
    <3>2. \A r \in Requests : Outcome(config, "accepted") = Outcome(r, "accepted") => r = config
      BY DEF Outcome
    <3>3. saved' = Marked(kind[config])
      BY <2>2 DEF Saves
    <3>4. /\ kind[config] = "favorite" => "named" \in saved'
          /\ kind[config] = "unfavorite" => "named" \notin saved'
      BY <3>3 DEF Marked
    <3>5. QED
      BY <1>1, <3>1, <3>2, <3>4 DEF MarksKept, Outcome
  <2>3. CASE AtOnce("not_sent")
    <3>1. result'["contacts"] = Outcome(config, "not_sent")
      BY <2>3 DEF AtOnce, Publish, Boxes
    <3>2. QED
      BY <1>3, <2>1, <3>1
  <2>4. QED
    BY <1>6, <2>2, <2>3 DEF Mark
<1>7. CASE RejectKey
  <2>1. config \in Requests /\ result'["contacts"] = Outcome(config, "not_sent")
    BY <1>7 DEF RejectKey, Consume, Matches, AtOnce, Publish, Boxes
  <2>2. QED
    BY <1>3, <2>1
<1>8. CASE Refused \/ Expires \/ Succeeds \/ IsRefused \/ Uncertain
  <2>1. act \in Requests /\ kind[act] \notin {"favorite", "unfavorite"}
    BY <1>8 DEF ActInv, Busy, Refused, Expires, Succeeds, IsRefused, Uncertain
  <2>2. PICK status : Returns(status)
    BY <1>8 DEF Refused, Expires, Succeeds, IsRefused, Uncertain
  <2>3. CASE BoxOf(act) = "contacts"
    <3>1. result'["contacts"] = Outcome(act, status)
      BY <2>2, <2>3 DEF Returns, Boxes
    <3>2. \A r \in Requests : result'["contacts"] = Outcome(r, "accepted") => r = act
      BY <3>1 DEF Outcome
    <3>3. QED
      BY <1>1, <2>1, <3>2 DEF MarksKept, Outcome
  <2>4. CASE BoxOf(act) # "contacts"
    <3>1. result'["contacts"] = result["contacts"]
      BY <2>2, <2>4 DEF Returns
    <3>2. saved' = saved
      BY <1>8, <2>4 DEF Refused, Expires, Succeeds, IsRefused, Uncertain, BoxOf
    <3>3. QED
      BY <1>2, <3>1, <3>2
  <2>5. QED
    BY <2>3, <2>4
<1>9. CASE Stop \/ Crash
  <2>1. result'["contacts"] = NoResult
    BY <1>9 DEF Stop, Crash, Ended, Boxes
  <2>2. QED
    BY <2>1, MailboxAssumption DEF MarksKept, NoResult, Outcome
<1>10. CASE Wake \/ Conclude \/ Sends \/ Continues \/ Start \/ Tick \/ Save \/ Pages \/ UNCHANGED vars
  BY <1>2, <1>10 DEF Wake, Conclude, Publish, Sends, Continues, Start, Tick, Save, Pages,
                     Look, Post, IsTold, GivesUp, Repeat, vars
<1>11. QED
  BY <1>4, <1>5, <1>6, <1>7, <1>8, <1>9, <1>10 DEF Next, TickStep, Call

LEMMA FavoritesStep ==
  ASSUME TypeOK, ActInv, FavoritesKept, [Next]_vars
  PROVE  FavoritesKept'
<1>1. MarksKept'
  BY MarksStep DEF FavoritesKept
<1>2. loaded' => favorites' = saved'
  <2>1. CASE UNCHANGED <<memory, saved>>
    BY <2>1 DEF FavoritesKept, memory
  <2>2. CASE at' = "stopped" /\ ~loaded'
    BY <2>2
  <2>3. CASE saved' = saved /\ (Loads \/ LoadFails)
    BY <2>3 DEF Loads, LoadFails
  <2>4. ASSUME NEW mark \in {"favorite", "unfavorite"}, Saves(Marked(mark))
        PROVE  favorites' = saved'
    BY <2>4 DEF Saves
  <2>5. QED
    BY <2>1, <2>2, <2>3, <2>4, FavoritesShape
<1>3. QED
  BY <1>1, <1>2 DEF FavoritesKept

-----------------------------------------------------------------------------
MailboxInv == TruthInv /\ Announced /\ FavoritesKept

(* The inductive invariant that the theorems below follow from.             *)
THEOREM MailboxCorrect == Spec => []MailboxInv
<1>1. Init => MailboxInv
  <2> SUFFICES ASSUME Init PROVE MailboxInv
    OBVIOUS
  <2>1. TypeOK
    <3>1. NoResult \in Result /\ Lifetime \in 0..Lifetime /\ 0 \in 0..Lifetime
      BY MailboxAssumption DEF NoResult, Result, Statuses
    <3>2. /\ fuse \in [Boxes -> 0..Lifetime] /\ budget \in 0..Lifetime
          /\ shown \in [Boxes -> Result] /\ result \in [Boxes -> Result]
      BY <3>1 DEF Init
    <3>3. /\ favorites \subseteq Contacts /\ saved \subseteq Contacts
          /\ loaded \in BOOLEAN /\ written \in BOOLEAN
      BY MailboxAssumption DEF Init
    <3>4. /\ page \in [Requests -> {"new", "looked", "posted"} \cup Statuses]
          /\ calls \in [Requests -> 0..2] /\ changed \in [Requests -> BOOLEAN]
      BY DEF Init
    <3>5. QED
      BY <3>2, <3>3, <3>4 DEF Init, TypeOK
  <2>2. TokenInv
    BY DEF Init, TokenInv
  <2>3. ActInv
    BY DEF Init, ActInv, Busy
  <2>4. Announced /\ FavoritesKept
    BY MailboxAssumption DEF Init, Announced, FavoritesKept, MarksKept, NoResult, Outcome, Boxes
  <2>5. Recorded(result) /\ Recorded(shown) /\ PageInv
    BY MailboxAssumption DEF Init, Recorded, PageInv, NoResult
  <2>6. QED
    BY <2>1, <2>2, <2>3, <2>4, <2>5 DEF MailboxInv, TruthInv
<1>2. MailboxInv /\ [Next]_vars => MailboxInv'
  <2> SUFFICES ASSUME MailboxInv, [Next]_vars PROVE MailboxInv'
    OBVIOUS
  <2>1. TypeOK' /\ TokenInv' /\ ActInv'
    BY TypeStep, TokenStep, ActStep DEF MailboxInv, TruthInv
  <2>2. Recorded(result)' /\ Recorded(shown)' /\ PageInv'
    BY RecordsStep DEF MailboxInv
  <2>3. Announced' /\ FavoritesKept'
    BY AnnouncedStep, FavoritesStep DEF MailboxInv, TruthInv
  <2>4. QED
    BY <2>1, <2>2, <2>3 DEF MailboxInv, TruthInv
<1>3. QED
  BY <1>1, <1>2, PTL DEF Spec

(* Every variable keeps its type.                                           *)
THEOREM TypeCorrect == Spec => []TypeOK
<1>1. MailboxInv => TypeOK
  BY DEF MailboxInv, TruthInv
<1>2. QED
  BY <1>1, MailboxCorrect, PTL

(* No request is carried out twice, whatever is saved, restored or          *)
(* restarted: Consume replaces the challenge before anything is sent.       *)
THEOREM NoReplayCorrect == Spec => []NoReplay
<1>1. MailboxInv => NoReplay
  BY DEF MailboxInv, TruthInv, TokenInv, NoReplay
<1>2. QED
  BY <1>1, MailboxCorrect, PTL

(* Nothing is carried out that runtime.json does not show as pending.       *)
THEOREM AnnouncedCorrect == Spec => []Announced
<1>1. MailboxInv => Announced
  BY DEF MailboxInv
<1>2. QED
  BY <1>1, MailboxCorrect, PTL

(* A page told that nothing was sent, or of success, is told the truth.     *)
THEOREM ToldTheTruthCorrect == Spec => []ToldTheTruth
<1>1. MailboxInv => ToldTheTruth
  BY DEF MailboxInv, TruthInv, PageInv, Truthful, ToldTheTruth
<1>2. QED
  BY <1>1, MailboxCorrect, PTL

(* The favorites in memory are those on the disk, unless these could not be *)
(* read; and a mark reported as done is there.                              *)
THEOREM FavoritesKeptCorrect == Spec => []FavoritesKept
<1>1. MailboxInv => FavoritesKept
  BY DEF MailboxInv
<1>2. QED
  BY <1>1, MailboxCorrect, PTL

(* A favorite leaves the file only when a request names it, unless a        *)
(* process writes over a file it could not read.                            *)
THEOREM OthersKeptCorrect == Spec => OthersKept
<1>1. TypeOK /\ FavoritesKept /\ [Next]_vars => [saved \subseteq saved' \cup {"named"} \/ ~loaded]_vars
  BY FavoritesShape DEF FavoritesKept, Saves, Marked
<1>2. QED
  BY <1>1, TypeCorrect, FavoritesKeptCorrect, PTL DEF Spec, OthersKept

=============================================================================
