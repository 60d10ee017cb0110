# A TLA+ verification of the openHop NOMAD plugin

The plugin lets people on a MeshCore radio mesh ask questions of a NOMAD server. It keeps one
TCP connection to a Companion (a radio node), takes direct messages from it, asks NOMAD over
HTTP and sends the answer back in radio-sized chunks. A web page asks for adverts, Companion
settings and contact actions through two files. Scripts run by CI publish a release of the plugin
and propose it to a catalogue. This directory holds TLA+ models of that program and those scripts,
their TLC configurations, and TLAPS proofs about each of them.

`PROJECT.json` lists the components, the runs, the source lines every definition stands for
(`map`), a bug per property that the property catches (`mutants`), the hazards and the theorems.

    tlc -workers 2 -config MCClient.cfg MCMeshCoreClient           # and so on, section 3
    tlapm MeshCoreClientProofs.tla                                 # likewise Admission, Bridge,
                                                                   # ConversationMemory, Mailbox,
                                                                   # CompanionSettings, TextSplit, Release

## 1. The system

All of it is one asyncio event loop: tasks switch only at `await`s, so one action of a model is
one stretch of code between two points where a task may be suspended.

| Part | Source | State | Operations |
|---|---|---|---|
| Companion client | `meshcore_client.py` | connected flag, writer, reader task, response queue, command lock | `run`, handshake, drain, reader loop, teardown, `close`, `send_text`, `send_advert`, `get_contacts`, `remove_contact` |
| Admission | `main.py` 29-83, 129-169 | duplicate cache, sliding-window limiter, set of tasks | `_dispatch_message`, `_finish_task` |
| Bridge | `main.py` 86-295 | semaphore, send lock, time of the next send, stop event | `_handle_message`, `_send_text`, `run`, `_shutdown` |
| Conversation memory | `nomad_client.py` | histories, timers, 64 lock stripes | `ask_for_sender`, `reset_session_for_sender`, `close`, expiry |
| HTTP transport | `nomad_client.py` 197-303 | none | one aiohttp request under a deadline and a body cap |
| Action mailbox | `advert_control.py`, `companion_control.py`, `contacts_control.py` | token, deadline and result per box, favourites, `runtime.json` | `tick`, `run`, `_publish`, `_save_favorites` |
| Settings transaction | `companion_settings.py` | what was read and written so far; the Companion's preferences | `operate` |
| Web UI | `ui/app.js` | what a page is waiting for | look, post, poll, give up |
| Configuration | `config.py` | none after start | `_validate` |
| Radio text | `text.py` | none | clean, split into numbered parts |
| Release publication | `scripts/publish_release.py`, `release_automation.py` (inspect-build) | tag, release and its assets on GitHub | inspect, create, upload, read back |
| Catalogue proposal | `release_automation.py` (prepare), `publish_catalogue.py` | the catalogue's main, a branch and a pull request per version | verify the public release, push under a lease, open or update the pull request |

How they interact. The client calls `_dispatch_message` from its drain loop; an admitted message
becomes a task that takes a slot, calls `NomadClient` and then `send_text`, so it competes with
the drain loop and the control task for the client's command lock. The control task
(`AdvertControl.run`) reads `config.json`, which the manager writes on behalf of a page,
publishes `runtime.json`, which the page reads, and calls the client. A signal sets the stop
event, which the client, the control task and `_shutdown` look at. A settings request of the
mailbox becomes one `operate`, which holds the client's command lock for several commands. The
release scripts are a system of their own: jobs that share nothing but GitHub.

What is hard about it:

* the Companion protocol has no transaction ids: only the order tells which reply is whose, and
  every timeout puts the order at risk;
* calls that wait for the lock find a different connection than the one they checked;
* every await may be cancelled or time out, holding a slot, a lock or half a transaction;
* state is read before an await and used after it (histories, requests in a file);
* files, page and plugin fail and restart independently;
* the Companion's preferences are shared with other apps, and a write whose reply is lost may still
  be carried out, in the middle of the next transaction;
* the numbers in front of the parts of an answer take room that depends on how many parts there are;
* a publication may stop between two uploads, and tag, release, branch and pull request change
  between the moment a job reads them and the moment it relies on them.

What makes each part correct: an outcome is decided by the call's own reply, a doubtful
connection is not used again, and calls and a stop end if the Companion lets them (client); limits hold over every window and only
admitted messages are remembered (admission); slots and turns are never lost, sends are paced,
shutdown ends quietly (bridge); memory is bounded, isolated in time, forgotten when reset or
idle (memory); a request is carried out at most once, after it was announced, its page is not
misled, and favourites are lost to nothing but an unreadable file (mailbox); what a patch does not name stays, and what is reported is true
(settings); parts fit a packet, count themselves and add up to the answer (text); a release holds
the files of one build (release); the catalogue names what was public and never goes back
(catalogue).

## 2. The modules

`M.tla` is a model, `MCM.tla` the instance TLC checks, `*.cfg` a run. No module uses RECURSIVE.
Operators marked "mutant of X" are plausible bugs, used by no specification; they are
there to show that a property can fail.

### MeshCoreClient

| Variable | Code |
|---|---|
| `connected`, `writer`, `readerTask` | `_connected`, `_writer`, `_reader_task` (the latter two by the connection they belong to) |
| `gen` | connections opened so far; the queue belongs to the latest |
| `queue` | `_response_queue`, as response codes, heartbeats left out |
| `sock`, `reader`, `pipe` | each connection's socket, its reader task, and the commands still to be answered |
| `holder`, `pc`, `req` | `_command_lock`, where each task is suspended, and its outstanding command |
| `calls` | the number of the call each task is in |
| `stop` | the stop event |
| `desync`, `givenUp` | ghosts: the queue is out of step; a control command was uncertain here |

Tasks are `Main` (`run` and all it awaits, then `_shutdown`), `Texters` (`send_text`) and
`Controllers` (the control calls). Each frame carries a ghost `to`, the call it answers, which
the code lacks: AckIsOwn compares it with the call that the frame decides. The
Companion answers in order; the network may be lost with or without notice; the reader may fail
at any time. A handshake that fails before the `try` leaks its reader, which then feeds the next
connection's queue, and a reader that had already failed makes teardown raise before it closes
the writer; both are in the model, as the code has them. AckIsOwn excepts a queue that is out of step
(`desync`): it is about control commands that time out or are cancelled, unexpected frames, and
connections that change, and says nothing of what follows a timed-out `send_text` (MCClientChunk shows
that) or of what a leaked reader delivers, which the code does nothing against.

The Companion may hand out messages for ever, send a list of contacts that never ends (`StillOwed`:
after CONTACTS_START and after each CONTACT more of the list is owed), and send heartbeats. A
heartbeat is read and thrown away by `_next_command_response`, which then waits another 30 s
(`SkipHeartbeat`, a step that changes nothing but whose possibility is why no timeout of 30 s is ever
assumed to strike: section 3, fairness). `MaxQueue` bounds the frames nobody has read when one more
arrives, `MaxPipe` the commands the Companion keeps: one more is lost, as by a Companion that is silent.

Abstracted: channel messages are contact messages; the two-second wait for `MSG_WAITING` is part of
`live`; retry and reconnect delays are steps; a transport's write buffer is empty when it is closed.
A 30 s timeout may strike whenever no frame is queued; a frame that is queued in the same turn is not
modelled to lose against it. The deadline of a control command (10 s, 15 s, or 10 s for each frame of a
list) may strike at any time while it waits.

### RequestGate, Admission

`RequestGate` is the promise: from a log of recent admissions it says when a message is a
duplicate, when too many are pending and when a limit is reached. `Admission` is the code:
cache, global deque, one deque per sender, with their pruning. It carries the log as a history
variable and implements the gate (`Gate!Spec`, with `running <- inflight`). Times are ages,
capped at their limits, so no clock has to be bounded. The log is a set: two admissions of one
message at one moment would be one element, and AnsweredOnce, which is proved, says that there is
none.

### Bridge

`phase` says at which await a task is; `free` and `waiters` are the semaphore, `line` is
`_send_lock` with its queue, `gap` the time left until `_next_send_at`, `busyWait` the configured
`busy_wait_seconds` (one of `BusyWaits`; zero takes another branch of the code). The notices "cleared"
and "unavailable" are sent inside the `try`, with the slot held; "busy" and chunks without. A
send may be accepted, refused or raise. `main` goes run, drain (up to ten seconds), reap
(cancelled tasks are awaited), closed. `quiet` is a ghost clock for the pacing property.

### ConversationMemory

`memory` is the ordered dictionary, `timers` the pending `call_later`s, `queue` the lock of each
stripe, `job` where each task is in `ask_for_sender` or `reset_session_for_sender` and the history
it took with it. A pair is known by its turn and its size. `cleared` is a ghost: the last turn
before a reset. `Stripe` is `hash % 64`: it is a constant, so that shared and separate stripes can
both be checked, and `Sizes` and `MaxTurns` are given per sender, so that one sender can fill the
pairs, one the bytes, and one only compete for room.

### Mailbox

`config` is the request in `config.json`, `shown` what `runtime.json` holds, `fuse` the time
each challenge has, `at` where the control task is. A token is 256 random bits that are only
compared with the current one; it is modelled by who holds the current one (`fresh`: it is in
`runtime.json`; `holders`: requests that name it). The client is reduced to the moments it asks
`may_send`, writes, and gets a reply; `companion_settings` asks again before every command.
`may_send` and the write that follows are one step, because no await separates them; the manager
is another process, and could write the file between the two. `page` is what a request's page
believes. A page is allowed more than `app.js` allows it (its busy and staleness checks are left
out). "mismatch" is counted as "partial", and a failing `unlink` after `os.replace` is left out.

`favorites` and `saved` are sets of two contacts, the one that the requests name and one that none
names. `Start` is every start of the process, the first included: `_load_favorites` either reads the
file (`Loads`) or, on an OSError, on a ValueError or on something that is no list, leaves the memory
empty (`LoadFails`). The next mark is then saved over a file that may have held more. `loaded`, a
ghost, tells such a process from one whose memory is the file's. A page looks at the results before
it acts (`Look`), but `refreshContactsList` asks for the list after a removal without looking.

### CompanionSettings

| Variable | Code |
|---|---|
| `prefs` | the Companion's preferences: `auto` and `manual` (flag bytes, as sets of bits), `mode`, and bytes that are carried along |
| `holder`, `pc` | `_command_lock`; where `operate` is suspended |
| `patch`, `todo`, `written`, `seen`, `before` | the patch, the commands that remain, `written`, what the present `read()` has found, `before` |
| `wire`, `replies`, `late` | commands on their way, `_response_queue`, commands of a closed connection that may still be carried out |
| `link`, `owes`, `missed` | the connection; a `send_text` that timed out and whose reply is to come; unexpected frames so far |
| `was`, `applied`, `ignored`, `foreign`, `misread`, `mixed` | ghosts |

`operate` is one action per await: `Call`, `TakeLock` or `Busy`, then `Send` and one of `ReadReply`,
`WriteReply`, `OddReply` and `Skip` for each command, `Expired` when the guard says no, `Uncertain`
for every timeout, error and cancellation. The Companion answers a read with its frame, a short one
or ERR, and a write with OK, OK and more bytes, or ERR; it may acknowledge and ignore. Another app
may change everything at once. As in `_send_command_expect`, the second unexpected frame is taken
for the reply. A texter that timed out leaves a frame behind, as MeshCoreClient shows.

### TextSplit

`text` is the stripped answer; `total`, `pieces`, `rest` are the loop variables of
`split_for_meshcore` and `_split_with_capacities`. `TakePiece` is `_take_piece`, `NextTotal` the next
round of the loop over totals, `Truncate` what is done when `max_chunks` are not enough. The regular
expressions of `_best_split_point` are sets of positions (`SentenceEnds`, `Numbered`). A character is
a width and a role. `RoomAssumption` is what `config.py` 306-309 guarantees. `Base` is the first
number that takes two digits: 10, and less in the run, so that four parts are enough to see a prefix
grow.

### Release, Catalogue

`Release` has the tag, the release (`status`, `assets`) and one `pc` per run of the Build Wheel
workflow: `Inspect` (inspect-build and the build), then `publish` statement by statement: `Look`,
`Create` or `Upload`, one `UploadAsset` per file, `Again`, `Download`, `Verified`. A run may `Fail`
between any two and be repeated (`Retry`) with the files it has built. `gh release create` is
a visible release that is filled asset by asset. (gh hides it as a draft meanwhile, which is not
modelled: a job that stops in between leaves less behind than here.) The concurrency group of the
workflow is `Turn`. Maintainers publish, delete, edit and retag by hand, `MaxEdits` times.

`Catalogue` EXTENDS it with the proposal: `Prepare` to `Observe` are `prepare` and the four moments at
which `public_release` looks at the release; `CheckMain` to `Confirm` are `publish` and
`push_candidate`. `job` is what the job knows, from the checked out entry to the lease.
A commit is its base, the entry of its base and its own entry; whether a pull request may be
merged is the catalogue's business and modelled by the one thing that must hold of any merge: the
entry it replaces is the entry it was made from. Version 1 is an earlier release nobody touches, so
that proposals of two versions compete. `Origin` accepts what `origin` accepts, and in the run every
build may have been dispatched by hand, which accepts most. Three variables are ghosts. `witnessed`
is what the release has been while it was complete and its two files agreed; `since` counts the edits
of the release since the job read its evidence; `crowded` says that a verification has passed which
more edits met than `Bearable`. The job reads tag, evidence, wheel, ZIP and everything once more at four
moments and compares bytes: a file that is replaced before it is read and put back afterwards goes
unnoticed, so with enough edits at the right moments it may prove a release that never was.
PublicOnce excepts that and nothing else.

### The proof modules

MeshCoreClientProofs, AdmissionProofs, BridgeProofs, ConversationMemoryProofs, MailboxProofs,
CompanionSettingsProofs, TextSplitProofs and ReleaseProofs have the theorems about the modules they
are named for, section 5; ReleaseProofs also those about Catalogue. Some operators of the models have the form they have because the provers
look into it and not into another: a deque is pruned by the index of its first recent entry, the
entries that stay are numbered (`Nth`), and the bytes of a history are summed by a recursive
function, where SelectSeq and the folds would be shorter; the letters of a text are a FlattenSeq, so
that what is proved of parts put together serves for both.

## 3. The runs

| Run | Properties | Bounds | Fairness |
|---|---|---|---|
| MCClient | ControlOnCurrent, AckIsOwn, DiscardedStaysSilent, SwallowsNoMessage, StopEndsRun, CallsReturn | 1 texter, 1 controller, 2 connections, 1 call each, 2 attempts, 1 frame in the queue, 1 command on its way | FairSpec |
| MCAdmission | TypeOK, LimitsHold, GateSpec | 5 senders, 2 texts, limits 2 per sender, 3 global, 2 pending, window 2, ttl 3 | - |
| MCBridge | TypeOK, SlotsConserved, PacedSends, RequestsEnd | 3 tasks, 1 slot, 2 chunks, delay 1, `busy_wait_seconds` 0 or 1 | FairSpec |
| MCMemory | TypeOK, MemoryBounded, TimersMatch, ResetForgets, InOrder, EvictsOldest, ComesToRest | 3 senders on 2 stripes, 2 tasks, room for 2 senders and 2 pairs, budget 6, lifetime 2; 3 questions of one sender, 1 of the others | FairSpec |
| MCMailboxSafety | NoReplay, FavoritesKept, ToldTheTruth, OthersKept | 2 requests (settings, remove, favorite, list), the other contact is a favourite at first, disk faults, stop, crash | - |
| MCCompanionSettings | TypeOK, VerifiedIsTrue, Untouched, NoPassingPolicy, Honest, OwnReplies, LockReturns | 2 calls with 3 and 1 patches, 1 event (another app, or a `send_text` that times out), bits 0, 2, 5 and 0, 7 | FairSpec |
| MCRadioText | Fits, PartsAgree, NothingLost, WordsKept | answers of up to 5 out of 7 fragments, 17 bytes, 4 parts, two digits from 3 on | - |
| MCRelease | OneBuild, Published, PublicOnce, NoDowngrade | 2 runs, 2 sources, 2 edits (release and catalogue together), 1 repetition, 2 proposal jobs | - |

Four more runs show promises of the repository that the code does not keep (section 4). The type
invariants of MeshCoreClient, Mailbox and Catalogue are proved (section 5) and not run again, and so
are ConnectedIsUsable and Announced.

Why the bounds are enough for what they check. Two client tasks and Main are three contenders
for one lock, so one holds, one waits and one gives up, and the late reply of one call meets the
next; two connections let a stale task, a leaked reader and a discarded writer meet the next
connection. With one frame in the queue the Companion still sends as many as it likes, one after the
other; longer queues, and more commands on their way, are left to the proofs. The proofs of section 5
remove these bounds, and those of every other run, for all that is safety. In
MCAdmission every limit is below what the senders can demand, and the duplicate time outlasts the
window. Three bridge tasks on one slot give a holder, a waiter whose patience ends and one that is
granted. Three senders and room for two force an eviction, with asks of two tasks overlapping; two
senders share a stripe; of two pairs and three questions one is dropped, a pair of the second sender
fills the whole budget, or its question is too long to be sent. Two
requests are the pair a replay, an overwrite or a mix-up of two pages needs; a lifetime of one tick
lets a challenge expire at every step. Two kinds of request are left to their twins and to the
proofs: "advert" does what "remove" does without the favourites (MCMailboxStuck has it),
"unfavorite" saves what "remove" saves.
Two settings calls are a call and the one that meets what the first left behind; the three patches
leave each field out in turn, and the two starts of the Companion differ in every field and in
whether contacts are selected. In MCRadioText packets are small enough for every cut: within a word,
in front of a wide character, at a blank, a line, a sentence, a numbered item, and at the
truncation; and the number of parts takes its second digit early enough for a sentence to pay
as a piece only then, so that fewer parts are made than are announced (section 4). Two builds of one tag with one repetition are what it takes to complete another's
half-finished upload; two edits let a file be replaced between two reads, or the tag be moved
and the release emptied; two jobs are two versions, or one version twice. Runs and sources are
symmetric there (no liveness is checked).
Deadlock is checked everywhere but in MCRelease, where everything may come to rest; a finished
shutdown, splitting or series of settings calls is an explicit stuttering step.

Fairness. asyncio runs what is ready: weak fairness of every task's steps. asyncio.Lock and
Semaphore serve in turn: strong fairness of a texter's steps in MeshCoreClient, explicit queues
elsewhere. What ends by a deadline of the code alone is fair too: a control command's wait for the
lock (5 s) and for its reply (10 or 15 s, which no other frame prolongs), the connection attempt.
Main and `send_text` wait 30 s from the last frame, and a heartbeat starts the wait anew, so their
timeouts are not fair: whether they strike depends on the Companion. What the client's liveness needs
of the Companion is therefore stated, as premises of the two properties, and each is named for what
the Companion does not do for ever:

* `HeartbeatsPause`: weak fairness of the 30 s timeouts; heartbeats do not come for ever less than 30 s
  apart while a reply stays out (`_next_command_response` 586-594).
* `ListsEnd`: from some time on no CONTACT arrives; the list has a deadline for each frame and none for
  the whole (`get_contacts` 251-261), and holds the command lock.
* `InboxEmpties`: from some time on no message arrives; `_drain_messages` looks at the stop event
  between drains only (491).

StopEndsRun needs all three. CallsReturn needs ListsEnd for a control command and ListsEnd with
HeartbeatsPause for a text. Without any one of them TLC finds a behaviour in which the Companion keeps
the client busy for ever; a control command comes back whatever the heartbeats do. Nothing else is
assumed of the Companion, and nothing of the network, NOMAD, senders, or pages. In Mailbox, publishing succeeds infinitely
often if it is tried infinitely often, and the wait for a reply is under strong fairness because
it is disabled and enabled by other steps of the same task; that `operate` ends whatever the
Companion does is LockReturns. In CompanionSettings the wait for the lock (5 s), the transaction
(10 s) and a `send_text` have their timeouts: weak fairness of `Operate`, `Uncertain` and `TextEnds`,
and nothing of the Companion. The release scripts are checked for safety only: a job may fail
for ever, and nobody has to start one.

## 4. Where the code and its documentation part

* **MCClientChunk.** "A rejected or unconfirmed chunk stops the rest of that answer": the late
  SENT of an attempt that timed out is the confirmation of a later chunk.
* **MCMemoryExpired.** "Memory expires 30 minutes after the last successful answer": an ask in
  flight holds a copy of the history and commits it again after the expiry.
* **MCMailboxStuck.** "Another Companion action is pending; wait for its result": if the publish
  that announces an action fails, the action is dropped (as intended) but its result stays
  "pending" in memory, is published by the next tick, and is never replaced. The actions that
  look at that result first are refused until a restart (an advert does not look at a pending
  contact action, nor does the contacts page when it refreshes its list after a removal).
* **MCRadioTextWords.** "Otherwise splitting falls back to a word boundary": `_best_split_point`
  falls back to the last blank only. A single line break is neither a paragraph nor a blank: where it
  is the only boundary of the window, the piece ends inside the word behind it, although that word
  fits in the next part. TLC's example: 11 bytes a part and "x", a line break,
  "xuux", a line break, "xuu", with u of four bytes.

Also seen, with no run of their own: the same late reply of a `send_text` can be taken by a control
call (`send_advert` discards its connection "so a late OK cannot acknowledge a subsequent action",
`send_text` does not: its late ERR answers the next advert, whose OK then acknowledges the action
after that; AckIsOwn therefore excepts `desync`); `run`'s back-off index is reset only when
`_connect_and_process` returns in an orderly way, which it does only on a stop, so after five
losses every reconnection waits 30 s; with the default settings (`max_pending_requests` =
`max_concurrent_requests` = 1) the "busy" notice cannot be sent; `advertRuntime` in the page
does not count a pending contact action as pending; another app's change between the first read of
a settings transaction and SET_OTHER_PARAMS is overwritten with the bytes read before and still
reported as "verified" (the README says as much: not atomic, shared with other apps; the properties
except `foreign`); a refused `send_text` whose reply is late can decide a settings command (OwnReplies
excepts exactly that, and two late replies while one command waits: `mixed`); `split_for_meshcore`
can announce more parts than it sends: when `total` goes from 9 to 10 every capacity shrinks, a
sentence break that did not pay now does, the piece it makes room for is longer, and all is taken in
fewer than 10 pieces, which `text.py` 45-52 returns labelled "/10" (19 times "x", a blank, 58 times
"y", ".", a newline and 800 times "w", with `max_bytes` 107 and `max_chunks` 12, is sent as [1/10] to
[9/10], where `test_text.py` 22-29 expects the total to be the number of chunks; not with the default
of four chunks, nor up to nine; PartsAgree says what holds); a proposal names the commit the tag points to now, and whether
the public wheel was built from it is left to the catalogue's policy, which is not in this
repository.

## 5. What is proved

### The client

`MeshCoreClientProofs` proves, for any finite or infinite sets of texters and controllers and any
`MaxConns`, `MaxCalls`, `MaxQueue`, `MaxPipe`, `MaxRetries` allowed by the two assumptions of MeshCoreClient
(the kinds of task are disjoint; the bounds are naturals and there is at least one attempt):

| Theorem | Statement |
|---|---|
| TypeCorrect | `Spec => []TypeOK` |
| TurnsCorrect | `Spec => []TurnInv` |
| ControlOnCurrentCorrect | `Spec => []ControlOnCurrent` |
| ConnectedIsUsableCorrect | `Spec => []ConnectedIsUsable` |
| StepCorrect | `Spec => []StepInv` |
| AckIsOwnCorrect | `Spec => AckIsOwn` |
| DiscardedStaysSilentCorrect | `Spec => DiscardedStaysSilent` |
| SwallowsNoMessageCorrect | `Spec => SwallowsNoMessage` |

The argument. None of the safety properties is inductive. `TurnInv` adds to `TypeOK` who may
wait for what: `LockInv` (a task that waits for a reply holds the lock, and it alone), `MainInv`
(which of writer, reader task and connection agree in each state of Main) and `WaiterInv` (a
controller that waits does so on the current connection while Main is in its drain loop).
ControlOnCurrent and ConnectedIsUsable follow. `StepInv` adds `LinkInv` (a connection that a
control command gave up on is closed and stays so), `InStep` (while `desync` is false, queue and
pipe together hold at most the frames owed to the one outstanding command, of the kinds that
command is answered with: nothing is owed to anybody else) and `CallLabels` (a texter waits for a
text, and only Main asks for messages, so no other task can find one at the head of a queue in
step). A step preserves it by one case per action; the lemma `Shape` sorts the actions into those that send, those that
settle a call and those that leave the calls alone, so that the action property needs three cases
rather than thirty.

### Admission

`AdmissionProofs` proves, for any senders and texts and any limits `config.py` accepts
(LimitAssumption):

| Theorem | Statement |
|---|---|
| AdmissionInvariant | `Spec => []IInv` |
| TypesHold | `Spec => []TypeOK` |
| LimitsAreHeld | `Spec => []LimitsHold` |
| RepeatsAreDropped | `Spec => []Gate!AnsweredOnce` |
| GateIsImplemented | `Spec => GateSpec` |

The argument. `IInv` says what the code's three structures know of the log. `CacheInv`: for every age
up to the lifetime, the cache has a younger entry of a message exactly if the log has. `Tally`: for
every age up to the window, a deque has as many younger times as the log has entries, of all senders or
of its own; and a deque is sorted (`Deque`), which is what makes dropping its front right. Then
`allow` counts what `RateFull` counts, `contains` finds what `Repeated` finds, each branch of
`_dispatch_message` is the branch of `Arrive` of the same verdict (GateIsImplemented, step by
step), and the window bounds follow because a start is let in only below them and growing older
moves nobody into a window. The deques number Global + 1 at most because each but one of them has a
recent start, and all of these are among the log's.

### The bridge

`BridgeProofs` proves, for any finite set of tasks and any number of slots, chunks, delay and busy
waits (SettingsAssumption):

| Theorem | Statement |
|---|---|
| BridgeInvariant | `Spec => []IInv` |
| TypesHold | `Spec => []TypeOK` |
| SlotsAreConserved | `Spec => []SlotsConserved` |
| OneTalksAtATime | `Spec => []OneTalks` |
| SendsArePaced | `Spec => PacedSends` |

The argument. SlotsConserved needs that the queue of the semaphore holds each task that waits, once
(`SlotsInv`): otherwise a slot could be granted to a task that has gone. `LineInv` is the same for
`_send_lock`, and adds that whoever paces or sends is at its head, so that at most one does. `TimeInv`
ties the code's clock to the ghost's: what is left of the gap and the quiet since the last send add up
to the delay. `WorkInv` says what a task may be about to do at each await.

### The memory

`ConversationMemoryProofs` proves, for any finite sets of senders and tasks, any assignment of
senders to stripes and any limits and sizes (MemoryAssumption):

| Theorem | Statement |
|---|---|
| MemoryInvariant | `Spec => []IInv` |
| TypesHold | `Spec => []TypeOK` |
| MemoryStaysBounded | `Spec => []MemoryBounded` |
| TimersAreThoseOfEntries | `Spec => []TimersMatch` |
| ResetsForget | `Spec => []ResetForgets` |
| ConversationsInOrder | `Spec => []InOrder` |
| OldestMakesRoom | `Spec => EvictsOldest` |

The argument. ResetForgets and InOrder are about turns in the memory and in the requests under way;
what keeps them is the order at the locks. `QueuesMatch` and `ChatsHold`: a task that is not idle is
once in the queue of its sender's lock, and asks NOMAD only at its head. `TurnsQueued`: of one sender,
the queue has the turns in order, and a reset behind the asks it must wait for. `TurnsFresh`: what is
still unanswered is younger than everything remembered of its sender and than its last reset. So the
answer that is committed goes to the end of a conversation that is older, and a reset can leave
nothing behind. For the bounds, `_limit_pairs` is shown to return a stretch of newest pairs that fits
whatever sizes there are (`Weight` of such stretches grows with their length: induction by a least
counterexample), and for EvictsOldest the entries are in the order of their deadlines (`Aging`),
which a renewal keeps because it moves the entry to the end with the longest one.

### The mailbox

`MailboxProofs` proves, for any finite set of requests of any kinds, any lifetime of a challenge,
with or without disk failures, stops and crashes (MailboxAssumption: the kinds are those of the
page, the lifetime is positive, `Nothing` is no request):

| Theorem | Statement |
|---|---|
| MailboxCorrect | `Spec => []MailboxInv` |
| TypeCorrect | `Spec => []TypeOK` |
| NoReplayCorrect | `Spec => []NoReplay` |
| AnnouncedCorrect | `Spec => []Announced` |
| ToldTheTruthCorrect | `Spec => []ToldTheTruth` |
| FavoritesKeptCorrect | `Spec => []FavoritesKept` |
| OthersKeptCorrect | `Spec => OthersKept` |

The argument. `TokenInv`: a request that names a challenge that still counts has not been carried
out, so replacing the challenge before the request is announced is enough against a replay.
`ActInv`: what the task knows of its request at each await (what was sent, what was written).
`Truthful(r, s)`: status `s` may be told of `r` now and later, because `r` can no longer be taken
up; every record in memory and in `runtime.json` is truthful (`Recorded`), and so is what a page
believes (`PageInv`). The lemma `Shape` says what a step may do to requests: forget, take one up,
send for it, or move its page; a truthful status survives all four (`TruthfulStep`), and each new
record is truthful when it is made (`ResultStep`, `ShownStep`). For the favourites, `FavoritesShape`
lists what a step may do to memory and file: nothing, forget the memory, load it, fail to load it, or
write one set to both. A write adds or takes away the named contact only, so that it loses another one
only where the memory was not the file's: OthersKept says that this is a process whose load failed, and
the code does lose them there. FavoritesKept has `loaded` for the same reason; what it says of
marks (`MarksStep`) holds without it.

### The settings transaction

`CompanionSettingsProofs` proves, for any bits, preferences, patches, number of calls and of events
from outside (SettingsAssumption, PossibleAssumption):

| Theorem | Statement |
|---|---|
| SettingsInvariant | `Spec => []IInv` |
| TypesHold | `Spec => []TypeOK` |
| VerifiedHolds | `Spec => []VerifiedIsTrue` |
| UntouchedHolds | `Spec => []Untouched` |
| NoPolicyPasses | `Spec => []NoPassingPolicy` |
| CallIsHonest | `Spec => []Honest` |
| RepliesAreOwn | `Spec => OwnReplies` |

The argument. `PlanInv`: the call holds the lock exactly while commands remain, and those are one of
ten lists. `OwnInv`: until a reply is misread, the present command is in one place, on the wire, in a
closed connection's buffer or answered, and the Companion has carried out what was acknowledged and at
most this one more; Honest follows. `PrefsInv`: unless somebody else interferes, the preferences
are those the call found with the carried-out commands applied (`Halfway`), what a pass has read
of them is still true, and "manual" is written after "auto" (`AutoFirst`), which is NoPassingPolicy. A
command that a closed connection still owes carries bytes computed from what the call found, so
it can disturb a later call only as `foreign`. `DebtInv` bounds what closed connections may
owe: one command a call. `ConnInv`, for OwnReplies: while late replies came one at a time and none was a
refusal, at most one stale frame is queued, and the one unexpected frame the code allows is it.

### The splitting of answers

`TextSplitProofs` proves, for any set of texts over characters of one to four bytes and any packet
with room for a prefix, the marker and a character (WidthAssumption, TextAssumption, RoomAssumption:
`config.py` 306-309 with fewer than 100 chunks):

| Theorem | Statement |
|---|---|
| SplitInvariant | `Spec => []IInv` |
| FitsCorrect | `Spec => []Fits` |
| PartsAgreeCorrect | `Spec => []PartsAgree` |
| NothingSkipped | `Spec => []Consecutive` |
| NothingLostCorrect | `Spec => []NothingLost` |
| WordsKeptCorrect | `Spec => []WordsKept` |
| SplitGetsOn | `Spec => [][GetsOn]_vars` |

The argument. First what the operators return: a slice of a text is a text and has no more bytes
(`Slice`, by counting one cell for each byte), the strips take a slice and leave no space at that end,
`HardCut` fits and takes at least one character, and a boundary found by `BestSplit` lies before it. So
each piece fits its capacity, something is left to take or the split is over (`Written`), and the
marker fits what `_truncate_to_bytes` keeps for it. PartsAgree is about two rounds of the loop: that
the last total was tried means that the one before left something over. `Tried` keeps, for each
smaller total, the chain of rests its split went through; where two totals have the same capacities
their chains are the same (`SameStart`, by the least place where they differ), so the shorter one has
not finished before its last piece. Where the capacities differ nothing follows, and the proof that
failed there showed what section 4 reports. `Consecutive` says in positions what NothingLost and
WordsKept say in letters: there are places in the text, in order, at which the pieces begin and end,
with only space in between; `rest` is what follows the last; whole parts reach the end and cut ones do
not; and a piece that breaks a word has no blank to break at (a line break is none: WordsKept says what the
code does, and WordBoundary, which is false, what the README says). From there to letters it takes the laws
of FlattenSeq, a recursive function: it exists (`Cumulated`, by induction over a set of lengths, `UpToN`),
adds part after part (`FlattenBySteps`) and distributes over concatenation (`FlattenConcat`, so
`LettersConcat`). Then the letters of the first n pieces are those of the text up to where the next one
starts (`Gathered`), which is NothingLost, and as a beginning with a letter more has more letters
(`MoreLetters`), only one end of a word has the letters that were sent, which is WordsKept. SplitGetsOn
is why the loops end: TLC's deadlock check shows that some step can always be taken, the theorem
that each brings the end nearer.

### The release

`ReleaseProofs` proves, for any set of runs and of sources and any number of edits and repetitions
(ReleaseAssumption: no run is called "maintainer", there is a source, the bounds are naturals):

| Theorem | Statement |
|---|---|
| ReleaseInvariant | `ReleaseSpec => []IInv` |
| Implements | `Spec => ReleaseSpec` |
| OneBuildHolds | `Spec => []OneBuild` |
| PublishedHolds | `Spec => []Published` |

The argument. `OneBuild` alone does not tell who may upload. `IInv` adds that one run at most is
past its inspection (`OneTurn`), that there are no assets without a release (`AbsentIsEmpty`), and,
as long as no maintainer changed assets, that a run that uploads found nothing and what is there it
has put there (`UploadsOwn`) and that compared files stay (`ComparedStays`). Most steps only move a
run (`Quiet`) and keep all of it; `Inspect`, `Download` and `UploadAsset` are cases of their own.
`Implements` is the composition: every step of the workflows together is a step of the release or
leaves it alone, so what is proved of the release holds beside any number of proposal jobs, merges
and people.

### The catalogue

`ReleaseProofs` proves, under ReleaseAssumption and CatalogueAssumption:

| Theorem | Statement |
|---|---|
| CatalogueInvariant | `Spec => []CInv` |
| NeverDowngrades | `Spec => NoDowngrade` |
| PublicOnceHolds | `Spec => []PublicOnce` |
| TypesHold | `Spec => []TypeOK` |

The argument. `Accepted`: every branch, and every job past its preparation, carries an entry that
`upsert` accepted against the entry of its own base. A merge requires that this entry is still
main's, so what main gets was accepted against what main had. Without that condition (a catalogue
that merges conflicting entries) NoDowngrade would be false; the scripts cannot ensure it. That a push
replaces only the commit the job has observed is git's lease: one guard, `Leased`, and no property.

For PublicOnce, `ReadSince` says what a job in its verification knows: without an edit since the evidence,
the release still is what it read and what it read is witnessed; after one, either
what it has read since belongs to one state of the release, which is witnessed, or the next comparison
fails. `ReleaseMoves` and `GhostsMove` say what a step of the release may do to this (workflow runs
only add files), `Counted` ties `since` to the edits there have been, and `Noted` carries
what was verified to the branch and, by a merge, to main. `Bearable` cannot be greater: with two edits
allowed where the evidence is of two builds (`MaxEdits = 4`), or three where it is of one (three runs,
three repetitions, `MaxEdits = 3`), TLC finds PublicOnce violated in the same model.

### Only model-checked

All liveness: StopEndsRun, CallsReturn, RequestsEnd, ComesToRest and LockReturns (TLAPS has no backend
for ENABLED). Every invariant and every action property of the runs is a theorem.

The proofs found five things about the models. PartsAgree said that the parts are always as many as
their numbers say, which is false of the code (section 4): in the run no sentence ended where it
matters, and now one does. OwnReplies was false for more events than the run has:
two texts that time out leave two frames, the first of which is skipped and the second taken; the
exception `mixed` covers it now, as the code does exactly that. And a patch was a set per key where
the code has at most one value; `Optional` says so. NothingLost said that an answer that was cut short, dots
aside, differs from the whole; it does not if all that was dropped is "...". It now compares what comes before
the marker, where something always is missing. And PublicOnce held in the run only because
edits are few; it now says how many a verification bears.

## 6. Not modelled

The HTTP transport (one request without state; its outcomes, an answer or a failure within the
deadline, are actions of ConversationMemory); `clean_for_radio` (substitutions in one string; the
splitter is modelled for any text); configuration parsing (its constraints are the ASSUMEs);
rendering, the configuration form and filters in the page; of the release scripts `check_versions`,
`event_tag`, tokens and identities, git plumbing, drafts of releases and pull requests, and the JSON
of the receipt; the catalogue's own policy (`publishing_policy.py` is another repository's);
packaging and the workflow files, apart from their concurrency groups. `PROJECT.json` gives the
reason for each. Cancellation races inside `asyncio.wait_for` itself are taken as documented.

## 7. Plan

In order of importance; all but the last are done.

1. MeshCoreClient with its safety, liveness and a finding; proofs up to AckIsOwn.
2. Admission against the abstract RequestGate.
3. Bridge: slots, turns, pacing, shutdown.
4. ConversationMemory.
5. Mailbox, with client and page reduced to what the mailbox sees; its safety proved.
6. CompanionSettings: what a patch leaves alone, partial writes, late commands, read-back.
7. TextSplit: the cuts, the capacities and the truncation.
8. Release and Catalogue, their composition, and the proofs of OneBuild, Published and NoDowngrade.
9. Proofs of the safety of Admission (with its refinement), Bridge, ConversationMemory,
   CompanionSettings and TextSplit, and of SwallowsNoMessage.
10. PublicOnce, NothingLost and WordsKept as theorems.
11. PublicOnce without its exception, if the catalogue's `verify_release` is ever part of this repository
    and turns out to compare the identities of assets, which GitHub never reuses.
