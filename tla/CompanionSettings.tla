--------------------------- MODULE CompanionSettings ---------------------------
(***************************************************************************)
(* companion_settings.py: operate() reads the Companion's preferences,     *)
(* changes what a patch names, writes the changed bytes with one command   *)
(* each and reads everything back, all under the command lock.  The        *)
(* Companion is shared with other apps, a command may be refused, ignored, *)
(* lost or carried out late, and a send_text that timed out may have left  *)
(* a reply on the way.  When the request may be sent, and who asks for it, *)
(* is in Mailbox; here the guard may say no before any command.            *)
(*                                                                         *)
(* A byte of flags is the set of its bits that are 1.                      *)
(***************************************************************************)
EXTENDS Naturals, Sequences, SequencesExt, FiniteSets

CONSTANTS
  Bits,      \* bits of the Auto Add byte that may be set
  Manual,    \* bits of the manual_add_contacts byte that may be set
  Rest,      \* values of the telemetry, location and ACK bytes
  Possible,  \* preferences the Companion starts with or another app gives it
  Patches,   \* what a page may ask for in the first call of operate, the second, ...
  MaxEvents  \* changes by other apps and send_texts that time out

MaxCalls == Len(Patches)
TypeBits == 1..4       \* TYPE_BITS = 0x1E
Modes == 0..2
Optional(S) == {{}} \cup {{x} : x \in S}   \* a key of the patch: absent, or one value
Patch == [autoAdd : Optional({"all", "none"}), overwrite : Optional(BOOLEAN), path : Optional(1..3)]

ASSUME SettingsAssumption ==
  /\ Bits \subseteq 0..7 /\ 0 \in Bits /\ Manual \subseteq 0..7 /\ 0 \in Manual
  /\ Patches \in Seq(SUBSET Patch) /\ Patches # << >> /\ Rest # {}
  /\ MaxEvents \in Nat

VARIABLES
  prefs,    \* the Companion's preferences
  link,     \* "up", "dead" (lost, unnoticed) or "down" (not connected)
  holder,   \* of _command_lock: "nobody", "text" or "settings"
  wire,     \* commands of operate on their way to the Companion
  replies,  \* frames for _response_queue, those on the way included
  late,     \* commands of connections that are closed, still to be carried out
  owes,     \* a send_text has timed out: its reply is still to come
  pc,       \* "idle", "lock", "send" or "reply"
  patch,    \* of the present or the last call
  todo,     \* commands that remain, the present one first
  written,  \* commands that were acknowledged
  seen,     \* what the present pass has read
  before,   \* what the first pass read
  missed,   \* unexpected frames while waiting for the present reply
  result,   \* status of the last call
  calls, events,
  was,      \* ghost: the preferences when the present call took the lock
  applied,  \* ghost: commands of the present call that the Companion carried out
  ignored,  \* ghost: one of them was acknowledged and not carried out
  foreign,  \* ghost: the preferences were changed by another app or an earlier call
  misread,  \* ghost: the present call took a reply that was not its own
  mixed     \* ghost: on this connection late replies to send_text came in a row, or one refused

companion == <<prefs, wire, replies, late, owes>>
call == <<patch, todo, written, seen, before, missed>>
ghosts == <<was, applied, ignored, foreign, misread>>
vars == <<companion, link, holder, pc, call, result, calls, events, ghosts, mixed>>

Preferences ==
  [auto : SUBSET Bits, manual : SUBSET Manual, mode : Modes, rest : Rest, hops : Rest]
ASSUME PossibleAssumption == Possible \subseteq Preferences

Reads == <<"info", "autoadd", "device">>
WritesManualFirst == <<"manual", "auto", "mode">>  \* mutant of Writes: the order swapped
Writes == <<"auto", "manual", "mode">>
Commands == Range(Reads) \cup Range(Writes)
Codes == Range(Reads) \cup {"ok", "long", "err", "short", "other"}
Statuses == {"none", "disconnected", "busy", "verified", "mismatch", "rejected", "partial",
             "expired", "unsupported", "unknown"}

(* Every variable has the type its comment announces. *)
TypeOK ==
  /\ {prefs, seen, before, was} \subseteq Preferences
  /\ link \in {"up", "dead", "down"} /\ holder \in {"nobody", "text", "settings"}
  /\ \A i \in DOMAIN wire : wire[i].command \in Commands /\ wire[i].call \in 1..calls
  /\ \A i \in DOMAIN replies : replies[i].code \in Codes /\ replies[i].call \in 0..calls
  /\ Len(late) <= MaxCalls
  /\ {owes, ignored, foreign, misread, mixed} \subseteq BOOLEAN
  /\ pc \in {"idle", "lock", "send", "reply"} /\ patch \in Patch
  /\ Range(todo) \subseteq Commands /\ {written, applied} \subseteq SUBSET Range(Writes)
  /\ missed \in 0..1 /\ result \in Statuses
  /\ calls \in 0..MaxCalls /\ events \in 0..MaxEvents

Blank == [auto |-> {}, manual |-> {}, mode |-> 0, rest |-> CHOOSE r \in Rest : TRUE,
          hops |-> CHOOSE r \in Rest : TRUE]
Init ==
  /\ prefs \in Possible /\ was = prefs
  /\ link = "up" /\ holder = "nobody" /\ pc = "idle" /\ result = "none"
  /\ wire = << >> /\ replies = << >> /\ late = << >> /\ owes = FALSE
  /\ patch = (CHOOSE p \in Patch : TRUE) /\ todo = << >> /\ written = {} /\ seen = Blank /\ before = Blank /\ missed = 0
  /\ calls = 0 /\ events = 0
  /\ applied = {} /\ ignored = FALSE /\ foreign = FALSE /\ misread = FALSE /\ mixed = FALSE

-----------------------------------------------------------------------------
(* What a patch asks of the preferences, and how they are shown.            *)

DesiredAuto(p, auto) ==
  LET kept == IF p.autoAdd = {"none"} THEN auto \ TypeBits ELSE auto
  IN IF p.overwrite = {} THEN kept ELSE (kept \ {0}) \cup {b \in {0} : TRUE \in p.overwrite}
DesiredManualAnew(p, manual) ==  \* mutant of DesiredManual: the other flags are not kept
  IF p.autoAdd = {} THEN manual ELSE {b \in {0} : "none" \in p.autoAdd}
DesiredManual(p, manual) ==
  IF p.autoAdd = {} THEN manual ELSE (manual \ {0}) \cup {b \in {0} : "none" \in p.autoAdd}
DesiredModeBytes(p, mode) ==  \* mutant of DesiredMode: bytes are not mode + 1
  IF p.path = {} THEN mode ELSE CHOOSE size \in p.path : TRUE
DesiredMode(p, mode) == IF p.path = {} THEN mode ELSE (CHOOSE size \in p.path : TRUE) - 1
Desired(p, raw) ==
  [raw EXCEPT !.auto = DesiredAuto(p, @), !.manual = DesiredManual(p, @), !.mode = DesiredMode(p, @)]

AutoAdd(raw) ==
  IF 0 \notin raw.manual THEN "all" ELSE IF raw.auto \cap TypeBits # {} THEN "selected" ELSE "none"

(* What the Companion does with a write: SET_OTHER_PARAMS carries the bytes *)
(* beside the manual one as well.                                           *)
Carried(frame) ==
  CASE frame.command = "auto" -> [prefs EXCEPT !.auto = frame.value.auto]
    [] frame.command = "manual" -> [prefs EXCEPT !.manual = frame.value.manual, !.rest = frame.value.rest]
    [] frame.command = "mode" -> [prefs EXCEPT !.mode = frame.value.mode]
    [] OTHER -> prefs

-----------------------------------------------------------------------------
(* operate: the call, the lock, the commands.                               *)

FinishHolding(status) ==  \* mutant of Finish: a partial result leaves the lock taken
  /\ pc' = "idle" /\ result' = status
  /\ holder' = IF holder = "settings" /\ status # "partial" THEN "nobody" ELSE holder
  /\ todo' = << >> /\ seen' = Blank /\ before' = Blank /\ missed' = 0
Finish(status) ==
  /\ pc' = "idle" /\ result' = status
  /\ holder' = IF holder = "settings" THEN "nobody" ELSE holder
  /\ todo' = << >> /\ seen' = Blank /\ before' = Blank /\ missed' = 0

Call ==
  /\ pc = "idle" /\ calls < MaxCalls
  /\ patch' \in Patches[calls + 1] /\ written' = {}
  /\ applied' = {} /\ ignored' = FALSE /\ foreign' = FALSE /\ misread' = FALSE /\ was' = prefs
  /\ calls' = calls + 1
  /\ IF link = "down" THEN Finish("disconnected")
     ELSE pc' = "lock" /\ result' = "none" /\ UNCHANGED <<holder, todo, seen, before, missed>>
  /\ UNCHANGED <<companion, link, events, mixed>>

Busy ==
  /\ pc = "lock" /\ holder # "nobody"
  /\ Finish("busy")
  /\ UNCHANGED <<companion, link, patch, written, calls, events, ghosts, mixed>>

TakeLock ==
  /\ pc = "lock" /\ holder = "nobody"
  /\ IF link = "down" THEN Finish("disconnected") /\ UNCHANGED <<was, foreign>>
     ELSE /\ holder' = "settings" /\ pc' = "send" /\ todo' = Reads
          /\ was' = prefs /\ foreign' = FALSE
          /\ UNCHANGED <<seen, before, missed, result>>
  /\ UNCHANGED <<companion, link, patch, written, calls, events, applied, ignored, misread, mixed>>

StoppedPlain(status) == status  \* mutant of Stopped: what was written is forgotten
Stopped(status) == IF written = {} THEN status ELSE "partial"

(* The guard is asked before every command.                                 *)
Expired ==
  /\ pc = "send" /\ Finish(Stopped("expired"))
  /\ UNCHANGED <<companion, link, patch, written, calls, events, ghosts, mixed>>
Send ==
  /\ pc = "send" /\ pc' = "reply"
  /\ wire' = IF link = "dead" THEN wire
             ELSE Append(wire, [command |-> Head(todo), value |-> Desired(patch, before), call |-> calls])
  /\ UNCHANGED <<prefs, replies, late, owes, link, holder, call, result, calls, events, ghosts, mixed>>

(* Timeouts, a write that fails, an answer nobody expects, a cancellation   *)
(* (CompanionControl calls it unknown too): the socket is closed, whatever  *)
(* is still on its way.                                                     *)
CloseSocketNot ==  \* mutant of CloseSocket: the connection is used on
  UNCHANGED <<link, late, wire, replies, owes>>
CloseSocket ==
  /\ link' = "down" /\ late' \in {late, late \o wire}
  /\ wire' = << >> /\ replies' = << >> /\ owes' = FALSE
Uncertain ==
  /\ pc \in {"send", "reply"}
  /\ CloseSocket
  /\ Finish("unknown")
  /\ UNCHANGED <<prefs, patch, written, calls, events, ghosts, mixed>>
CancelledWaiting ==
  /\ pc = "lock" /\ Finish("unknown")
  /\ UNCHANGED <<companion, link, patch, written, calls, events, ghosts, mixed>>

-----------------------------------------------------------------------------
(* _send_command_expect: the replies.                                       *)

Expected == IF Head(todo) \in Range(Reads) THEN {Head(todo), "short", "err"} ELSE {"ok", "long", "err"}
Skip ==
  /\ pc = "reply" /\ replies # << >> /\ Head(replies).code \notin Expected /\ missed = 0
  /\ missed' = 1 /\ replies' = Tail(replies)
  /\ UNCHANGED <<prefs, wire, late, owes, link, holder, pc, patch, todo, written, seen, before,
                 result, calls, events, ghosts, mixed>>

(* The second unexpected frame is taken for the reply.                      *)
Takes(frame) ==
  /\ frame.code \in Expected \/ missed = 1
  /\ misread' = (misread \/ frame.call # calls)
  /\ UNCHANGED <<prefs, patch, calls, events, was, applied, ignored, foreign, mixed>>
Consumes(frame) == Takes(frame) /\ replies' = Tail(replies) /\ UNCHANGED <<wire, late, owes, link>>

Learnt(raw) ==
  CASE Head(todo) = "info" -> [seen EXCEPT !.manual = raw.manual, !.rest = raw.rest]
    [] Head(todo) = "autoadd" -> [seen EXCEPT !.auto = raw.auto, !.hops = raw.hops]
    [] OTHER -> [seen EXCEPT !.mode = raw.mode]
Changed(raw) ==
  LET IfChanged(w) == IF Desired(patch, raw)[w] # raw[w] THEN <<w>> ELSE << >>
  IN IfChanged(Writes[1]) \o IfChanged(Writes[2]) \o IfChanged(Writes[3])
VerdictWritten(read, first) == "verified"  \* mutant of Verdict: acknowledged is verified
Verdict(read, first) == IF read = Desired(patch, first) THEN "verified" ELSE "mismatch"
Continue(rest, read, first) ==
  /\ pc' = "send" /\ todo' = rest /\ seen' = read /\ before' = first /\ missed' = 0
  /\ UNCHANGED <<holder, result>>

ReadReply ==
  /\ pc = "reply" /\ replies # << >>
  /\ LET frame == Head(replies) IN
    /\ Consumes(frame) /\ Head(todo) \in Range(Reads) /\ UNCHANGED written
    /\ LET read == Learnt(frame.raw) IN
       CASE frame.code # Head(todo) -> Finish(Stopped("unsupported"))
         [] frame.code = Head(todo) /\ Len(todo) > 1 -> Continue(Tail(todo), read, before)
         [] OTHER ->
              IF written = {} /\ Changed(read) # << >>
                THEN Continue(Changed(read) \o Reads, Blank, read)
                ELSE Finish(Verdict(read, IF written = {} THEN read ELSE before))

WriteReply ==
  /\ pc = "reply" /\ replies # << >>
  /\ LET frame == Head(replies) IN
    /\ Consumes(frame) /\ Head(todo) \in Range(Writes) /\ frame.code \in {"ok", "err"}
    /\ IF frame.code = "err" THEN Finish(Stopped("rejected")) /\ UNCHANGED written
       ELSE written' = written \cup {Head(todo)} /\ Continue(Tail(todo), seen, before)

(* Neither ERR nor the one byte OK.                                         *)
OddReply ==
  /\ pc = "reply" /\ replies # << >>
  /\ LET frame == Head(replies) IN
    /\ Takes(frame) /\ Head(todo) \in Range(Writes) /\ frame.code \notin {"ok", "err"}
    /\ CloseSocket /\ Finish("unknown") /\ UNCHANGED written

-----------------------------------------------------------------------------
(* The Companion and its other users (external).                            *)

Reply(command, code) == Append(replies, [code |-> code, raw |-> prefs, call |-> command.call])
Mine(frame) ==  \* for the ghosts: a command of the present or the last call?
  IF frame.call = calls
    THEN applied' = applied \cup ({frame.command} \cap Range(Writes)) /\ UNCHANGED foreign
    ELSE foreign' = TRUE /\ UNCHANGED applied
Serve ==
  /\ link = "up" /\ wire # << >> /\ wire' = Tail(wire)
  /\ LET frame == Head(wire) IN
     IF frame.command \in Range(Reads)
       THEN /\ \E code \in {frame.command, "short", "err"} : replies' = Reply(frame, code)
            /\ UNCHANGED <<prefs, applied, ignored, foreign>>
       ELSE \/ /\ \E code \in {"ok", "long"} : replies' = Reply(frame, code)
               /\ prefs' = Carried(frame)
               /\ Mine(frame) /\ UNCHANGED ignored
            \/ /\ replies' = Reply(frame, "ok") /\ ignored' = TRUE /\ UNCHANGED <<prefs, applied, foreign>>
            \/ /\ replies' = Reply(frame, "err") /\ UNCHANGED <<prefs, applied, ignored, foreign>>
  /\ UNCHANGED <<late, owes, link, holder, pc, call, result, calls, events, was, misread, mixed>>

ServeLate ==
  /\ late # << >> /\ late' = Tail(late) /\ prefs' = Carried(Head(late))
  /\ Mine(Head(late))
  /\ UNCHANGED <<wire, replies, owes, link, holder, pc, call, result, calls, events, was, ignored,
                 misread, mixed>>

OtherApp ==  \* between two calls it only makes another start
  /\ pc # "idle" /\ events < MaxEvents /\ events' = events + 1
  /\ prefs' \in Possible \ {prefs} /\ foreign' = TRUE
  /\ UNCHANGED <<wire, replies, late, owes, link, holder, pc, call, result, calls, was, applied,
                 ignored, misread, mixed>>

TextBegins ==
  /\ holder = "nobody" /\ link = "up" /\ holder' = "text"
  /\ UNCHANGED <<companion, link, pc, call, result, calls, events, ghosts, mixed>>
TextEnds ==
  /\ holder = "text" /\ holder' = "nobody"
  /\ \/ UNCHANGED <<owes, events>>
     \/ owes' = TRUE /\ events < MaxEvents /\ events' = events + 1
  /\ UNCHANGED <<prefs, wire, replies, late, link, pc, call, result, calls, ghosts, mixed>>
TextReplyLate ==
  /\ owes /\ link = "up" /\ owes' = FALSE
  /\ \E code \in {"err", "other"} :
       /\ replies' = Append(replies, [code |-> code, raw |-> Blank, call |-> 0])
       /\ mixed' = (mixed \/ code = "err" \/ missed = 1 \/ \E i \in DOMAIN replies : replies[i].call = 0)
  /\ UNCHANGED <<prefs, wire, late, link, holder, pc, call, result, calls, events, ghosts>>

(* The connection is lost; between calls Main notices and connects again.   *)
(* After the last call it makes no difference.                              *)
PeerLost ==
  /\ pc # "idle" \/ calls < MaxCalls
  /\ link = "up" /\ link' = "dead"
  /\ late' \in {late, late \o wire} /\ wire' = << >> /\ replies' \in {replies, << >>}
  /\ UNCHANGED <<prefs, owes, holder, pc, call, result, calls, events, ghosts, mixed>>
Teardown ==
  /\ link = "dead" /\ holder = "nobody" /\ link' = "down"
  /\ UNCHANGED <<companion, holder, pc, call, result, calls, events, ghosts, mixed>>
Reconnect ==
  /\ link = "down" /\ holder = "nobody" /\ link' = "up"
  /\ replies' = << >> /\ owes' = FALSE /\ mixed' = FALSE
  /\ UNCHANGED <<prefs, wire, late, holder, pc, call, result, calls, events, ghosts>>

Done == pc = "idle" /\ calls = MaxCalls /\ UNCHANGED vars

Operate ==
  Busy \/ TakeLock \/ Expired \/ Send \/ Skip \/ ReadReply \/ WriteReply \/ OddReply
Next ==
  \/ Call \/ Operate \/ Uncertain \/ CancelledWaiting
  \/ Serve \/ ServeLate \/ OtherApp \/ TextBegins \/ TextEnds \/ TextReplyLate
  \/ PeerLost \/ Teardown \/ Reconnect \/ Done

Spec == Init /\ [][Next]_vars

(* The waits for the lock and for a reply time out, a send_text ends.       *)
FairSpec == Spec /\ WF_vars(Operate) /\ WF_vars(Uncertain) /\ WF_vars(TextEnds)

-----------------------------------------------------------------------------
(* "verified" is true: unless somebody else changed the preferences, they   *)
(* are what the patch made of those the call found.                         *)
VerifiedIsTrue ==
  result = "verified" /\ ~foreign /\ ~misread => prefs = Desired(patch, was)

(* Whatever fails, half done or carried out late included: no flag, byte or *)
(* policy but the ones the patch names has changed.                         *)
Untouched ==
  ~foreign /\ ~misread =>
    /\ prefs.rest = was.rest /\ prefs.hops = was.hops
    /\ prefs.manual \ {0} = was.manual \ {0}
    /\ prefs.auto \ (TypeBits \cup {0}) = was.auto \ (TypeBits \cup {0})
    /\ patch.autoAdd = {} => prefs.manual = was.manual
    /\ "none" \notin patch.autoAdd => prefs.auto \cap TypeBits = was.auto \cap TypeBits
    /\ patch.overwrite = {} => prefs.auto \cap {0} = was.auto \cap {0}
    /\ patch.path = {} => prefs.mode = was.mode

(* At no time is a policy in force that was neither the old one nor the one *)
(* asked for: going from All to None never enables the selected types.      *)
NoPassingPolicy ==
  ~foreign /\ ~misread /\ ~ignored => AutoAdd(prefs) \in {AutoAdd(was)} \cup patch.autoAdd

(* What a call says of itself: nothing was sent, or exactly what it lists,  *)
(* or at most the one command whose fate it does not know.                  *)
Honest ==
  ~misread /\ ~ignored =>
    /\ result \in {"disconnected", "busy", "expired", "rejected", "unsupported"} => applied = {}
    /\ result \in {"partial", "verified", "mismatch"} => applied = written
    /\ result = "unknown" => written \subseteq applied /\ Cardinality(applied \ written) <= 1

(* One stale frame does no harm, unless it is a refusal: a call takes       *)
(* another command's reply for its own only if a send_text on this          *)
(* connection was refused after it had timed out, or the late replies of    *)
(* two came while one command waited.                                       *)
OwnReplies == [][misread' /\ ~misread => mixed]_vars

(* The command lock comes back, whatever the Companion does.                *)
LockReturns == holder = "settings" ~> holder = "nobody"
=============================================================================
