-------------------------------- MODULE Release --------------------------------
(***************************************************************************)
(* The Build Wheel workflow for one tag: release_automation.py inspects,   *)
(* the job builds a wheel and its ZIP, publish_release.py publishes them   *)
(* on GitHub.  Runs of one tag are serialised; any of them may fail        *)
(* between two steps and be repeated, while maintainers publish, edit and  *)
(* empty the release in GitHub's UI and move the tag.                      *)
(*                                                                         *)
(* The bytes of an asset are who built them, from which source: two builds *)
(* of one source differ.                                                   *)
(***************************************************************************)
EXTENDS Naturals, FiniteSets

CONSTANTS
  Runs,       \* runs of the workflow
  Sources,    \* commits on the trusted main that the tag may name
  MaxEdits,   \* edits by maintainers
  MaxRetries  \* repetitions of a failed publication job

ASSUME ReleaseAssumption ==
  "maintainer" \notin Runs /\ Sources # {} /\ MaxEdits \in Nat /\ MaxRetries \in Nat

VARIABLES
  tag,      \* the commit the tag names
  status,   \* "absent", "prerelease" or "final"
  assets,   \* bytes of the wheel and the ZIP, or None
  pc,       \* where each run is
  sha,      \* SOURCE_SHA of each run
  edits, retries,
  moved,    \* ghost: the tag was moved
  touched   \* ghost: a maintainer has changed assets

releaseVars == <<tag, status, assets, pc, sha, edits, retries, moved, touched>>

Names == {"wheel", "zip"}     \* asset_names
None == [run |-> "none"]
Bytes == [run : Runs \cup {"maintainer"}, source : Sources]
Empty == [name \in Names |-> None]
Mine(r) == [name \in Names |-> [run |-> r, source |-> sha[r]]]  \* expected

Succeeded == {"published", "existing"}
Idle == {"new", "rejected", "failed"} \cup Succeeded
Uploading == {"uploading", "wheelLeft", "zipLeft"}
Steps == Idle \cup Uploading \cup {"built", "create", "upload", "again", "download", "check"}

(* Every variable has the type its comment announces.                       *)
ReleaseTypeOK ==
  /\ tag \in Sources /\ status \in {"absent", "prerelease", "final"}
  /\ assets \in [Names -> Bytes \cup {None}]
  /\ pc \in [Runs -> Steps] /\ sha \in [Runs -> Sources]
  /\ edits \in 0..MaxEdits /\ retries \in 0..MaxRetries
  /\ moved \in BOOLEAN /\ touched \in BOOLEAN

ReleaseInit ==
  /\ tag \in Sources /\ status = "absent" /\ assets = Empty
  /\ pc = [r \in Runs |-> "new"] /\ sha = [r \in Runs |-> tag]
  /\ edits = 0 /\ retries = 0 /\ moved = FALSE /\ touched = FALSE

-----------------------------------------------------------------------------
(* release_state: "build", "verify", or an error.                           *)

Complete == \A name \in Names : assets[name] # None
ReleaseStateLax ==  \* mutant of ReleaseState: what is missing may be added
  IF status = "prerelease" THEN "error" ELSE IF Complete THEN "verify" ELSE "build"
ReleaseState ==
  CASE status = "absent" -> "build"
    [] status = "final" /\ assets = Empty -> "build"
    [] status = "final" /\ Complete -> "verify"
    [] OTHER -> "error"

Stay == UNCHANGED <<tag, status, edits, moved, touched>>
Move(r, step) == pc' = [pc EXCEPT ![r] = step]
Turn(r) == \A other \in Runs \ {r} : pc[other] \in Idle   \* the concurrency group
TagHolds(r) == tag = sha[r]                               \* check_tag

(* inspect-build, then tests and build.  Of an existing release the ZIP     *)
(* must hold exactly the wheel.                                             *)
Inspect(r) ==
  /\ pc[r] = "new" /\ Turn(r)
  /\ sha' = [sha EXCEPT ![r] = tag]
  /\ Move(r, CASE ReleaseState = "build" -> "built"
               [] ReleaseState = "verify" /\ assets["wheel"] = assets["zip"] -> "existing"
               [] OTHER -> "rejected")
  /\ UNCHANGED <<assets, retries>> /\ Stay

(* A failed publication job is repeated with the bytes its run has built.   *)
Retry(r) ==
  /\ pc[r] = "failed" /\ Turn(r) /\ retries < MaxRetries
  /\ retries' = retries + 1 /\ Move(r, "built")
  /\ UNCHANGED <<assets, sha>> /\ Stay

-----------------------------------------------------------------------------
(* publish with the callbacks of main.  The second look of a publication    *)
(* compares whatever it finds.                                              *)

Require(r, from, condition, step) ==
  /\ pc[r] = from
  /\ Move(r, IF condition THEN step ELSE "failed")
  /\ UNCHANGED <<assets, sha, retries>> /\ Stay

Look(r) ==        \* inspect
  Require(r, "built", TagHolds(r) /\ ReleaseState # "error",
          CASE status = "absent" -> "create"
            [] status # "absent" /\ ReleaseState = "build" -> "upload"
            [] OTHER -> "download")

Create(r) ==      \* gh release create, refused when there is a release
  /\ pc[r] = "create"
  /\ IF TagHolds(r) /\ status = "absent"
     THEN Move(r, "uploading") /\ status' = "final"
     ELSE Move(r, "failed") /\ UNCHANGED status
  /\ UNCHANGED <<tag, assets, sha, edits, retries, moved, touched>>

MayUpload == status # "absent" /\ ReleaseState = "build"
Upload(r) ==      \* the checks of upload
  Require(r, "upload", TagHolds(r) /\ MayUpload, "uploading")

(* gh uploads the assets one by one, in any order, and is refused when one  *)
(* of that name is there.                                                   *)
ToUpload(r) == [uploading |-> Names, wheelLeft |-> {"wheel"}, zipLeft |-> {"zip"}][pc[r]]
Refused(name) == status = "absent" \/ assets[name] # None
UploadAsset(r, name) ==
  /\ pc[r] \in Uploading /\ name \in ToUpload(r)
  /\ IF Refused(name)
     THEN Move(r, "failed") /\ UNCHANGED assets
     ELSE /\ assets' = [assets EXCEPT ![name] = Mine(r)[name]]
          /\ Move(r, IF ToUpload(r) = {name} THEN "again"
                     ELSE IF name = "zip" THEN "wheelLeft" ELSE "zipLeft")
  /\ UNCHANGED <<sha, retries>> /\ Stay

Again(r) ==       \* the second inspect
  Require(r, "again", TagHolds(r) /\ status # "absent" /\ ReleaseState = "verify", "download")

SameSizes(r) == Complete    \* mutant of Same: there are assets of these names
Same(r) == assets = Mine(r) \* before == expected
Download(r) == Require(r, "download", Same(r), "check")

Verified(r) ==    \* verified
  Require(r, "check", TagHolds(r), "published")

(* An API error, a lost connection, a cancelled or killed job.              *)
Fail(r) ==
  /\ pc[r] \notin Idle
  /\ Move(r, "failed") /\ UNCHANGED <<assets, sha, retries>> /\ Stay

-----------------------------------------------------------------------------
(* Maintainers.                                                             *)

Edit == edits < MaxEdits /\ edits' = edits + 1 /\ UNCHANGED <<pc, sha, retries>>
MoveTag ==
  /\ Edit /\ tag' \in Sources \ {tag} /\ moved' = TRUE
  /\ UNCHANGED <<status, assets, touched>>
PublishEmpty ==
  /\ Edit /\ status = "absent" /\ status' = "final"
  /\ UNCHANGED <<tag, assets, moved, touched>>
TogglePrerelease ==
  /\ Edit /\ status # "absent"
  /\ status' = IF status = "final" THEN "prerelease" ELSE "final"
  /\ UNCHANGED <<tag, assets, moved, touched>>
DeleteRelease ==
  /\ Edit /\ status # "absent" /\ status' = "absent" /\ assets' = Empty
  /\ touched' = TRUE /\ UNCHANGED <<tag, moved>>
ChangeAsset ==
  /\ Edit /\ status # "absent" /\ touched' = TRUE /\ UNCHANGED <<tag, status, moved>>
  /\ \E name \in Names, bytes \in {None, [run |-> "maintainer", source |-> tag]} :
       assets' = [assets EXCEPT ![name] = bytes]

Elsewhere == Edit /\ UNCHANGED <<tag, status, assets, moved, touched>>  \* in the catalogue

RunNext ==
  \E r \in Runs :
    \/ Inspect(r) \/ Retry(r) \/ Look(r) \/ Create(r) \/ Upload(r)
    \/ \E name \in Names : UploadAsset(r, name)
    \/ Again(r) \/ Download(r) \/ Verified(r) \/ Fail(r)
MaintainerNext ==
  MoveTag \/ PublishEmpty \/ TogglePrerelease \/ DeleteRelease \/ ChangeAsset
ReleaseNext == RunNext \/ MaintainerNext
ReleaseSpec == ReleaseInit /\ [][ReleaseNext \/ Elsewhere]_releaseVars

-----------------------------------------------------------------------------
(* However runs fail and are repeated, the assets of a release no           *)
(* maintainer changed come from one build: no run completes what another    *)
(* left behind.                                                             *)
OneBuild ==
  touched \/ \E build \in Bytes : \A name \in Names : assets[name] \in {None, build}

(* A run that reported success has published its own two files, and they    *)
(* stay: later runs and retries leave them alone.                           *)
Published ==
  \A r \in Runs : pc[r] = "published" /\ ~touched => assets = Mine(r)
=============================================================================
