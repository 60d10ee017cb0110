------------------------------- MODULE Mailbox -------------------------------
(***************************************************************************)
(* The action mailbox: advert_control.py, companion_control.py and         *)
(* contacts_control.py on the plugin's side, app.js on the page's.  A page *)
(* has the manager write a request into config.json; AdvertControl.run     *)
(* looks at that file every half second, one box after the other, and      *)
(* publishes in runtime.json a one-use token for each box and the result   *)
(* of its last request.  Files, processes and the page fail and restart    *)
(* independently of each other.                                            *)
(*                                                                         *)
(* The client's part is in MeshCoreClient; here it is the moments at which *)
(* it asks may_send, writes a command and gets a reply.  A token is a      *)
(* random number of 256 bits, only ever compared with the current one: it  *)
(* is known here by who has the current one.                               *)
(***************************************************************************)
EXTENDS Naturals, FiniteSets

CONSTANTS
  Requests,     \* ids of the requests pages make
  Kinds,        \* what they ask for
  Lifetime,     \* ticks a challenge lasts: 30 s
  DiskFails,    \* whether the plugin's writes, and its load of the favorites, may fail
  Ends,         \* how the plugin may end: "stop", "crash"
  Earlier,      \* the favorites the file holds at first
  Nothing       \* no request

Boxes == {"companion", "contacts", "advert"}
ContactKinds == {"list", "remove", "favorite", "unfavorite"}
Contacts == {"named", "other"}  \* the one that requests name, and another

ASSUME MailboxAssumption ==
  /\ Kinds \subseteq {"advert", "settings"} \cup ContactKinds /\ Kinds # {}
  /\ IsFiniteSet(Requests)
  /\ Lifetime \in Nat \ {0} /\ DiskFails \in BOOLEAN /\ Ends \subseteq {"stop", "crash"}
  /\ Earlier \subseteq Contacts
  /\ Nothing \notin Requests

VARIABLES
  config,     \* the request in config.json
  shown,      \* runtime.json: each box's result,
  fresh,      \*   and for which boxes it holds the current challenge
  fuse,       \* the time each box's challenge has left,
  result,     \*   and the result of its last request
  at,         \* where the control task is
  act,        \* the request it is carrying out,
  budget,     \*   the time that is left for it,
  written,    \*   and whether it has changed the Companion's settings
  favorites,  \* the favorite contacts, in the plugin's memory
  saved,      \*   and in its file
  loaded,     \* ghost: those in memory are the file's, as loaded or last saved
  page,       \* each request in the eyes of its page
  kind,       \* what it asks for
  holders,    \* the requests that name their box's current challenge
  calls,      \* ghost: how often each request has been carried out
  changed     \* ghost: whether a command that changes something was sent for it

memory == <<favorites, loaded>>
plugin == <<fuse, result, at, act, budget, written, memory>>
challenge == <<fresh, holders>>
ghosts == <<calls, changed>>
vars == <<config, shown, challenge, plugin, saved, page, kind, ghosts>>

Statuses == {"none", "pending", "not_sent", "accepted", "refused", "partial", "unknown"}
Result == [id : Requests \cup {Nothing}, status : Statuses]
NoResult == [id |-> Nothing, status |-> "none"]

(* Every variable has the type its comment announces. *)
TypeOK ==
  /\ config \in Requests \cup {Nothing}
  /\ shown \in [Boxes -> Result] /\ fresh \subseteq Boxes /\ holders \subseteq Requests
  /\ fuse \in [Boxes -> 0..Lifetime]
  /\ result \in [Boxes -> Result]
  /\ at \in {"sleep", "lock", "guard", "reading", "changing", "publish", "stopped"} \cup Boxes
  /\ act \in Requests \cup {Nothing} /\ budget \in 0..Lifetime /\ written \in BOOLEAN
  /\ favorites \subseteq Contacts /\ saved \subseteq Contacts /\ loaded \in BOOLEAN
  /\ page \in [Requests -> {"new", "looked", "posted"} \cup Statuses]
  /\ kind \in [Requests -> Kinds]
  /\ calls \in [Requests -> 0..2] /\ changed \in [Requests -> BOOLEAN]

BoxOf(r) == CASE kind[r] = "advert" -> "advert" [] kind[r] = "settings" -> "companion" [] OTHER -> "contacts"

Init ==
  /\ config = Nothing
  /\ shown = [b \in Boxes |-> NoResult] /\ fresh = {} /\ holders = {}
  /\ fuse = [b \in Boxes |-> 0]
  /\ result = [b \in Boxes |-> NoResult]
  /\ at = "stopped" /\ act = Nothing /\ budget = 0 /\ written = FALSE
  /\ favorites = {} /\ saved = Earlier /\ loaded = FALSE
  /\ page = [r \in Requests |-> "new"] /\ kind \in [Requests -> Kinds]
  /\ calls = [r \in Requests |-> 0] /\ changed = [r \in Requests |-> FALSE]

-----------------------------------------------------------------------------
(* _rotate: a new challenge, that nobody has been shown.                    *)
Renewed(b) == Lifetime
Rotate(b) ==
  /\ fresh' = fresh \ {b}
  /\ holders' = {r \in holders : BoxOf(r) # b}
  /\ fuse' = [fuse EXCEPT ![b] = Renewed(b)]

(* _request: a file that cannot be read or parsed holds no request.         *)
Readings == {config, Nothing}

(* What a tick does after the box.                                          *)
Following(b) == CASE b = "companion" -> "contacts" [] b = "contacts" -> "advert" [] b = "advert" -> "publish"

(* _publish: runtime.json is replaced as a whole, or the tick ends with an  *)
(* OSError, which run logs.  known: the boxes whose challenge was published *)
(* before this step and has not been replaced in it.                        *)
Snapshot(results) == shown' = results /\ fresh' = Boxes
NoSnapshot(known) == DiskFails /\ UNCHANGED shown /\ fresh' = known
Publish(results, known, next) ==
  /\ result' = results
  /\ \/ Snapshot(results) /\ at' = next
     \/ NoSnapshot(known) /\ at' = "sleep"

(* _save_favorites replaces the file; the memory follows if that succeeds.  *)
Saves(value) == saved' = value /\ favorites' = value /\ loaded' = TRUE
SaveFailsLate(value) ==  \* mutant of SaveFails: the memory changes first
  DiskFails /\ favorites' = value /\ UNCHANGED <<saved, loaded>>
SaveFails(value) == DiskFails /\ UNCHANGED <<saved, memory>>

(* _load_favorites: a file that cannot be read, or holds no list, leaves    *)
(* the memory empty.                                                        *)
Loads == favorites' = saved /\ loaded' = TRUE
LoadFails == DiskFails /\ favorites' = {} /\ loaded' = FALSE

Outcome(r, status) == [id |-> r, status |-> status]

-----------------------------------------------------------------------------
(* The tick of a box finds nothing new for it; an expired challenge is      *)
(* replaced.                                                                *)
Matches(b, r) == r \in holders /\ BoxOf(r) = b /\ fuse[b] > 0

Pass(b) ==
  /\ at = b
  /\ \E r \in Readings : ~Matches(b, r)
  /\ IF fuse[b] = 0 THEN Rotate(b) ELSE UNCHANGED <<challenge, fuse>>
  /\ at' = Following(b)
  /\ UNCHANGED <<config, shown, result, act, budget, written, memory, saved, page, kind, ghosts>>

(* It finds a request that names the current challenge, and replaces that   *)
(* before anything else.                                                    *)
ConsumeLater(b) ==  \* mutant of Consume: the challenge stays until it expires
  /\ at = b /\ Matches(b, config)
  /\ UNCHANGED <<holders, fuse>>
Consume(b) ==
  /\ at = b /\ Matches(b, config)
  /\ holders' = {r \in holders : BoxOf(r) # b}
  /\ fuse' = [fuse EXCEPT ![b] = Renewed(b)]

(* For the Companion: shown as pending, then handed to the client.          *)
Announce(b) ==
  /\ Consume(b) /\ kind[config] \in {"advert", "settings", "list", "remove"}
  /\ Publish([result EXCEPT ![b] = Outcome(config, "pending")], fresh \ {b}, "lock")
  /\ IF at' = "lock"
       THEN /\ act' = config /\ budget' = fuse[b]
            /\ calls' = [calls EXCEPT ![config] = IF @ < 2 THEN @ + 1 ELSE 2]
       ELSE UNCHANGED <<act, budget, calls>>
  /\ UNCHANGED <<config, written, memory, saved, page, kind, changed>>

(* favorite, unfavorite: done and published on the spot.                    *)
MarkedAlone(mark) == IF mark = "favorite" THEN {"named"} ELSE {}  \* mutant of Marked: forgets the others
Marked(mark) == IF mark = "favorite" THEN favorites \cup {"named"} ELSE favorites \ {"named"}
AtOnce(status) ==
  Publish([result EXCEPT !["contacts"] = Outcome(config, status)], fresh \ {"contacts"}, "advert")
Mark ==
  /\ Consume("contacts") /\ kind[config] \in {"favorite", "unfavorite"}
  /\ \/ Saves(Marked(kind[config])) /\ AtOnce("accepted")
     \/ SaveFails(Marked(kind[config])) /\ AtOnce("not_sent")
  /\ UNCHANGED <<config, act, budget, written, page, kind, ghosts>>

(* Or rejected there: the key it names is none.                             *)
RejectKey ==
  /\ Consume("contacts") /\ kind[config] \in {"favorite", "unfavorite", "remove"}
  /\ AtOnce("not_sent")
  /\ UNCHANGED <<config, act, budget, written, memory, saved, page, kind, ghosts>>

-----------------------------------------------------------------------------
(* The client (meshcore_client.py, companion_settings.py) carries it out.   *)

Waits == at \in {"lock", "reading", "changing"}

(* The call returns: the result is kept and the tick goes on to the next    *)
(* box.                                                                     *)
Returns(status) ==
  /\ result' = [result EXCEPT ![BoxOf(act)] = Outcome(act, status)]
  /\ at' = Following(BoxOf(act))
  /\ act' = Nothing /\ budget' = 0 /\ written' = FALSE
  /\ UNCHANGED <<config, shown, challenge, fuse, page, kind, ghosts>>

(* Not connected, or the command lock is not free within five seconds.      *)
Refused ==
  /\ at = "lock"
  /\ Returns("not_sent")
  /\ UNCHANGED <<memory, saved>>

(* may_send, with the lock held, before every command.                      *)
MaySend(r) == budget > 0 /\ r = act

WhenExpiredAlways == "not_sent"  \* mutant of WhenExpired: what was written is not looked at
WhenExpired == IF written THEN "partial" ELSE "not_sent"
Expires ==
  /\ at \in {"lock", "guard"}
  /\ \E r \in Readings : ~MaySend(r)
  /\ Returns(WhenExpired)
  /\ UNCHANGED <<memory, saved>>

Sends ==
  /\ at \in {"lock", "guard"}
  /\ MaySend(config)
  /\ \E changes \in BOOLEAN :
       /\ kind[act] \in {"advert", "remove"} => changes
       /\ kind[act] = "list" => ~changes
       /\ at' = (IF changes THEN "changing" ELSE "reading")
       /\ changed' = [changed EXCEPT ![act] = @ \/ changes]
  /\ UNCHANGED <<config, shown, challenge, fuse, result, act, budget, written, memory, saved, page, kind, calls>>

(* companion_settings goes on to its next command.                          *)
Continues ==
  /\ at \in {"reading", "changing"} /\ kind[act] = "settings"
  /\ written' = (written \/ at = "changing")
  /\ at' = "guard"
  /\ UNCHANGED <<config, shown, challenge, fuse, result, act, budget, memory, saved, page, kind, ghosts>>

(* The last command is acknowledged; a removed contact is no favorite.      *)
Succeeds ==
  /\ at \in {"reading", "changing"} /\ (kind[act] = "settings" => at = "reading")
  /\ Returns("accepted")
  /\ IF kind[act] = "remove" /\ "named" \in favorites
       THEN LET rest == favorites \ {"named"} IN Saves(rest) \/ SaveFails(rest)
       ELSE UNCHANGED <<memory, saved>>

(* An ERR reply; settings that read back different are as good as partial.  *)
IsRefused ==
  /\ at \in {"reading", "changing"}
  /\ Returns(IF written THEN "partial" ELSE "refused")
  /\ UNCHANGED <<memory, saved>>

(* No reply, or a failure of the connection.                                *)
Uncertain ==
  /\ at \in {"reading", "changing"}
  /\ Returns("unknown")
  /\ UNCHANGED <<memory, saved>>

-----------------------------------------------------------------------------
(* run: every half second a tick, which ends by publishing.                 *)

Wake ==
  /\ at = "sleep" /\ at' = "companion"
  /\ UNCHANGED <<config, shown, challenge, fuse, result, act, budget, written, memory, saved, page, kind, ghosts>>

Conclude ==
  /\ at = "publish"
  /\ Publish(result, fresh, "sleep")
  /\ UNCHANGED <<config, holders, fuse, act, budget, written, memory, saved, page, kind, ghosts>>

(* The process is over, and with it all it remembers: no later one honours  *)
(* its challenges.                                                          *)
Ended ==
  /\ at' = "stopped" /\ act' = Nothing /\ budget' = 0 /\ written' = FALSE
  /\ fresh' = {} /\ holders' = {} /\ fuse' = [b \in Boxes |-> 0]
  /\ result' = [b \in Boxes |-> NoResult] /\ favorites' = {} /\ loaded' = FALSE

(* The bridge stops and cancels the task: what it waits for is unknown.     *)
Stop ==
  /\ "stop" \in Ends
  /\ \/ at = "sleep" /\ UNCHANGED shown
     \/ Waits /\ shown' = [result EXCEPT ![BoxOf(act)] = Outcome(act, "unknown")]
     \/ Waits /\ DiskFails /\ UNCHANGED shown
  /\ Ended
  /\ UNCHANGED <<config, saved, page, kind, ghosts>>

Crash ==
  /\ "crash" \in Ends /\ at # "stopped"
  /\ Ended
  /\ UNCHANGED <<config, shown, saved, page, kind, ghosts>>

(* A new process, the first one too: new challenges, no result, and the     *)
(* favorites of the file if it can be read.                                 *)
Start ==
  /\ at = "stopped" /\ at' = "sleep"
  /\ fuse' = [b \in Boxes |-> Lifetime]
  /\ Loads \/ LoadFails
  /\ UNCHANGED <<config, shown, challenge, result, act, budget, written, saved, page, kind, ghosts>>

Less(n) == IF n > 0 THEN n - 1 ELSE 0
Tick ==
  /\ fuse' = [b \in Boxes |-> Less(fuse[b])] /\ budget' = Less(budget)
  /\ UNCHANGED <<config, shown, challenge, result, at, act, written, memory, saved, page, kind, ghosts>>

-----------------------------------------------------------------------------
(* app.js, and the manager that writes config.json.                         *)

(* A page acts only while no result it looks at is pending, and takes the   *)
(* challenge it is shown.  After a removal it asks for the list without     *)
(* looking (refreshContactsList).                                           *)
Blocking(b) == IF b = "contacts" THEN Boxes ELSE {"advert", "companion"}
Look(r) ==
  /\ page[r] = "new"
  /\ \/ \A b \in Blocking(BoxOf(r)) : shown[b].status # "pending"
     \/ kind[r] = "list" /\ \E q \in Requests : kind[q] = "remove" /\ page[q] = "accepted"
  /\ page' = [page EXCEPT ![r] = "looked"]
  /\ holders' = IF BoxOf(r) \in fresh THEN holders \cup {r} ELSE holders
  /\ UNCHANGED <<config, shown, fresh, plugin, saved, kind, ghosts>>

(* The document a page posts holds no request but its own.                  *)
Post(r) ==
  /\ page[r] = "looked"
  /\ page' = [page EXCEPT ![r] = "posted"]
  /\ config' = r
  /\ UNCHANGED <<shown, challenge, plugin, saved, kind, ghosts>>

IsTold(r) ==
  /\ page[r] = "posted"
  /\ shown[BoxOf(r)].id = r /\ shown[BoxOf(r)].status # "pending"
  /\ page' = [page EXCEPT ![r] = shown[BoxOf(r)].status]
  /\ UNCHANGED <<config, shown, challenge, plugin, saved, kind, ghosts>>

(* Its time is up: it calls the outcome unknown.                            *)
GivesUp(r) ==
  /\ page[r] = "posted"
  /\ page' = [page EXCEPT ![r] = "unknown"]
  /\ UNCHANGED <<config, shown, challenge, plugin, saved, kind, ghosts>>

(* Settings are saved, without any request; or another editor puts a        *)
(* document back that holds an old one.                                     *)
Save ==
  /\ config # Nothing /\ config' = Nothing
  /\ UNCHANGED <<shown, challenge, plugin, saved, page, kind, ghosts>>

Repeat(r) ==
  /\ page[r] \notin {"new", "looked"} /\ config # r
  /\ config' = r
  /\ UNCHANGED <<shown, challenge, plugin, saved, page, kind, ghosts>>

-----------------------------------------------------------------------------
TickStep ==
  \/ \E b \in Boxes : Pass(b) \/ Announce(b)
  \/ Mark \/ RejectKey \/ Wake \/ Conclude
Call == Refused \/ Expires \/ Sends \/ Succeeds \/ IsRefused \/ Uncertain
Pages == \E r \in Requests : Look(r) \/ Post(r) \/ IsTold(r) \/ GivesUp(r) \/ Repeat(r)

Next == TickStep \/ Call \/ Continues \/ Stop \/ Crash \/ Start \/ Tick \/ Save \/ Pages

Spec == Init /\ [][Next]_vars

(* The event loop runs the task, and the client's timeouts end every wait.  *)
(* The disk does not fail for ever.  Nobody has to restart the plugin or to *)
(* make a request.                                                          *)
FairSpec ==
  /\ Spec
  /\ WF_vars(TickStep) /\ WF_vars(at = "guard" /\ Call) /\ SF_vars(Waits /\ Call)
  /\ SF_vars(Conclude /\ at' = "sleep" /\ Snapshot(result))

-----------------------------------------------------------------------------
(* A request is carried out at most once, whatever is saved, posted again,  *)
(* restored or restarted (advert_control.py: "cannot replay an RF action"). *)
NoReplay == \A r \in Requests : calls[r] <= 1

(* Nothing is carried out that has not been published as pending, so that   *)
(* no page takes the mailbox for free.                                      *)
Announced ==
  at \in {"lock", "guard", "reading", "changing"} => shown[BoxOf(act)] = Outcome(act, "pending")

(* A page told that nothing was sent may ask again: no command that changes *)
(* anything was sent, nor ever will be.  One told of success is not misled. *)
ToldTheTruth ==
  \A r \in Requests :
    /\ page[r] = "not_sent" => ~changed[r]
    /\ page[r] = "accepted" /\ kind[r] \in {"advert", "remove"} => changed[r]

MarksKept ==
  \A r \in Requests :
    result["contacts"] = Outcome(r, "accepted") =>
      /\ kind[r] = "favorite" => "named" \in saved
      /\ kind[r] = "unfavorite" => "named" \notin saved

(* While the plugin runs, its favorites are those a restart would load,     *)
(* unless the file could not be read and has not been written since; and a  *)
(* mark it reports as done is in the file, whichever writes fail.           *)
FavoritesKept == (loaded => favorites = saved) /\ MarksKept

(* A favorite leaves the file only when a request names it, whatever fails, *)
(* stops and restarts; but a process that could not read the file writes    *)
(* over what it did not read.                                               *)
OthersKept == [][saved \subseteq saved' \cup {"named"} \/ ~loaded]_vars

(* app.js: "Another Companion action is pending; wait for its result."      *)
(* What is shown as pending has its result shown some day.                  *)
PendingEnds == \A b \in Boxes : shown[b].status = "pending" ~> shown[b].status # "pending"
=============================================================================
