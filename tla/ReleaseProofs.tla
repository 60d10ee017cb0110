----------------------------- MODULE ReleaseProofs -----------------------------
(***************************************************************************)
(* Proofs about Release for every number of runs, sources and edits, that  *)
(* the composition in Catalogue keeps them (each of its steps is a step of *)
(* Release or leaves the release alone), and that the catalogue's main     *)
(* never goes back, for every number of jobs.                              *)
(***************************************************************************)
EXTENDS Catalogue, TLAPS

Active(r) == pc[r] \notin Idle

(* At most one run is between its inspection and its end.                   *)
OneTurn == \A r, q \in Runs : Active(r) /\ Active(q) => r = q

(* Without a release there are no assets.                                   *)
AbsentIsEmpty == status = "absent" => assets = Empty

(* A run that uploads found nothing: what is there it has put there.        *)
UploadsOwn ==
  \A r \in Runs : pc[r] \in Uploading /\ ~touched =>
    \A name \in Names : assets[name] = IF name \in ToUpload(r) THEN None ELSE Mine(r)[name]

(* What has been compared stays.                                            *)
ComparedStays ==
  \A r \in Runs : pc[r] \in {"check", "published"} /\ ~touched => assets = Mine(r)

IInv == ReleaseTypeOK /\ OneTurn /\ AbsentIsEmpty /\ UploadsOwn /\ ComparedStays /\ OneBuild

-----------------------------------------------------------------------------
(* A run's own files are bytes, and bytes are never None.                   *)
LEMMA MineIsBytes ==
  ASSUME sha \in [Runs -> Sources], NEW r \in Runs, NEW name \in Names
  PROVE  Mine(r)[name] \in Bytes /\ Mine(r)[name] = [run |-> r, source |-> sha[r]]
BY DEF Mine, Bytes

LEMMA BytesAreNotNone == \A bytes \in Bytes : bytes # None
BY DEF Bytes, None

(* The initial state satisfies the invariant.                               *)
LEMMA InitInv == ASSUME ReleaseInit PROVE IInv
<1>1. ReleaseTypeOK
  <2>1. tag \in Sources /\ status \in {"absent", "prerelease", "final"}
    BY DEF ReleaseInit
  <2>2. assets \in [Names -> Bytes \cup {None}]
    BY DEF ReleaseInit, Empty
  <2>3. pc \in [Runs -> Steps] /\ sha \in [Runs -> Sources]
    BY DEF ReleaseInit, Steps, Idle
  <2>4. edits \in 0..MaxEdits /\ retries \in 0..MaxRetries
    BY ReleaseAssumption DEF ReleaseInit
  <2>5. moved \in BOOLEAN /\ touched \in BOOLEAN
    BY DEF ReleaseInit
  <2> QED BY <2>1, <2>2, <2>3, <2>4, <2>5 DEF ReleaseTypeOK
<1>2. OneTurn /\ AbsentIsEmpty /\ UploadsOwn /\ ComparedStays
  BY DEF ReleaseInit, OneTurn, Active, AbsentIsEmpty, UploadsOwn, ComparedStays, Idle, Uploading
<1>3. OneBuild
  <2> DEFINE build == [run |-> "maintainer", source |-> tag]
  <2>1. build \in Bytes
    BY DEF Bytes, ReleaseInit
  <2>2. \A name \in Names : assets[name] \in {None, build}
    BY DEF ReleaseInit, Empty
  <2> QED BY <2>1, <2>2 DEF OneBuild
<1> QED BY <1>1, <1>2, <1>3 DEF IInv

-----------------------------------------------------------------------------
(* The steps that only move a run: everything a file depends on stays, and  *)
(* only the comparison leads to "check", only a check to "published".       *)
Quiet(r) ==
  \E step \in Steps \ {"check"} :
    /\ pc' = [pc EXCEPT ![r] = step]
    /\ step \in Uploading => step = "uploading" /\ assets = Empty
    /\ step = "published" => pc[r] = "check"
    /\ step \in Idle \/ Active(r) \/ Turn(r)

LEMMA QuietStep ==
  ASSUME NEW r \in Runs, NEW step, step \in Steps \ {"check"},
         step \in Uploading => step = "uploading" /\ assets = Empty,
         step = "published" => pc[r] = "check",
         step \in Idle \/ Active(r) \/ Turn(r),
         pc' = [pc EXCEPT ![r] = step]
  PROVE  Quiet(r)
BY DEF Quiet

(* A step that requires a condition.                                        *)
LEMMA RequireIsQuiet ==
  ASSUME NEW r \in Runs, NEW from, NEW condition, NEW step, Require(r, from, condition, step),
         condition => step \in Steps \ {"check"},
         condition /\ step \in Uploading => step = "uploading" /\ assets = Empty,
         condition /\ step = "published" => from = "check",
         from \in Steps \ Idle
  PROVE  Quiet(r) /\ UNCHANGED <<assets, sha, touched, tag, status, edits, moved, retries>>
<1> DEFINE to == IF condition THEN step ELSE "failed"
<1>1. pc[r] = from /\ pc' = [pc EXCEPT ![r] = to]
  BY DEF Require, Move
<1>2. Active(r)
  BY <1>1 DEF Active
<1>3. CASE condition
  <2>1. to = step
    BY <1>3
  <2> QED BY <1>1, <1>2, <1>3, <2>1, QuietStep DEF Require, Stay
<1>4. CASE ~condition
  <2>1. to = "failed"
    BY <1>4
  <2>2. "failed" \in Steps \ {"check"} /\ "failed" \notin Uploading /\ "failed" # "published"
    BY DEF Steps, Idle, Uploading
  <2>3. Quiet(r)
    BY <1>1, <1>2, <2>1, <2>2, QuietStep
  <2> QED BY <2>3 DEF Require, Stay
<1> QED BY <1>3, <1>4

LEMMA MovesAreQuiet ==
  ASSUME ReleaseTypeOK, AbsentIsEmpty, NEW r \in Runs,
         Look(r) \/ Create(r) \/ Upload(r) \/ Again(r) \/ Verified(r) \/ Fail(r) \/ Retry(r)
  PROVE  Quiet(r) /\ UNCHANGED <<assets, sha, touched>>
<1> USE DEF Steps, Idle, Succeeded, Uploading
<1>1. CASE Look(r)
  <2> DEFINE step == CASE status = "absent" -> "create"
                       [] status # "absent" /\ ReleaseState = "build" -> "upload"
                       [] OTHER -> "download"
  <2>1. step \in {"create", "upload", "download"}
    OBVIOUS
  <2>2. Require(r, "built", TagHolds(r) /\ ReleaseState # "error", step)
    BY <1>1 DEF Look
  <2> HIDE DEF step
  <2> QED BY <2>1, <2>2, RequireIsQuiet
<1>2. CASE Create(r)
  <2>1. Active(r) /\ UNCHANGED <<assets, sha, touched>>
    BY <1>2 DEF Create, Active
  <2>2. CASE TagHolds(r) /\ status = "absent"
    <3>1. pc' = [pc EXCEPT ![r] = "uploading"] /\ assets = Empty
      BY <1>2, <2>2 DEF Create, Move, AbsentIsEmpty
    <3> QED BY <2>1, <3>1, QuietStep
  <2>3. CASE ~(TagHolds(r) /\ status = "absent")
    <3>1. pc' = [pc EXCEPT ![r] = "failed"]
      BY <1>2, <2>3 DEF Create, Move
    <3> QED BY <2>1, <3>1, QuietStep
  <2> QED BY <2>2, <2>3
<1>3. CASE Upload(r)
  <2>1. MayUpload => assets = Empty
    BY DEF MayUpload, ReleaseState
  <2>2. Require(r, "upload", TagHolds(r) /\ MayUpload, "uploading")
    BY <1>3 DEF Upload
  <2> QED BY <2>1, <2>2, RequireIsQuiet
<1>4. CASE Again(r)
  <2>1. Require(r, "again", TagHolds(r) /\ status # "absent" /\ ReleaseState = "verify", "download")
    BY <1>4 DEF Again
  <2> QED BY <2>1, RequireIsQuiet
<1>5. CASE Verified(r)
  <2>1. Require(r, "check", TagHolds(r), "published")
    BY <1>5 DEF Verified
  <2> QED BY <2>1, RequireIsQuiet
<1>6. CASE Fail(r)
  BY <1>6 DEF Fail, Stay, Move, Quiet, Active
<1>7. CASE Retry(r)
  BY <1>7 DEF Retry, Stay, Move, Quiet, Active
<1> QED BY <1>1, <1>2, <1>3, <1>4, <1>5, <1>6, <1>7

-----------------------------------------------------------------------------
LEMMA QuietKeeps ==
  ASSUME IInv, NEW r \in Runs, Quiet(r), UNCHANGED <<assets, sha, touched>>
  PROVE  OneTurn' /\ UploadsOwn' /\ ComparedStays' /\ OneBuild'
<1>1. PICK step \in Steps \ {"check"} :
        /\ pc' = [pc EXCEPT ![r] = step]
        /\ step \in Uploading => step = "uploading" /\ assets = Empty
        /\ step = "published" => pc[r] = "check"
        /\ step \in Idle \/ Active(r) \/ Turn(r)
  BY DEF Quiet
<1>2. pc \in [Runs -> Steps]
  BY DEF IInv, ReleaseTypeOK
<1>3. OneTurn'
  <2> SUFFICES ASSUME NEW p \in Runs, NEW q \in Runs, Active(p)', Active(q)' PROVE p = q
    BY DEF OneTurn
  <2> QED BY <1>1, <1>2 DEF IInv, OneTurn, Active, Turn
<1>4. UploadsOwn'
  <2> SUFFICES ASSUME NEW q \in Runs, pc'[q] \in Uploading, ~touched', NEW name \in Names
               PROVE assets'[name] = IF name \in ToUpload(q)' THEN None ELSE Mine(q)'[name]
    BY DEF UploadsOwn
  <2>1. CASE q = r
    BY <1>1, <1>2, <2>1 DEF ToUpload, Empty
  <2>2. CASE q # r
    <3>1. pc'[q] = pc[q]
      BY <1>1, <1>2, <2>2
    <3> QED BY <3>1 DEF IInv, UploadsOwn, ToUpload, Mine
  <2> QED BY <2>1, <2>2
<1>5. ComparedStays'
  BY <1>1, <1>2 DEF IInv, ComparedStays, Mine
<1>6. OneBuild'
  BY DEF IInv, OneBuild
<1> QED BY <1>3, <1>4, <1>5, <1>6

LEMMA InspectKeeps ==
  ASSUME IInv, NEW r \in Runs, Inspect(r)
  PROVE  OneTurn' /\ UploadsOwn' /\ ComparedStays' /\ OneBuild'
<1>1. PICK step \in {"built", "existing", "rejected"} : pc' = [pc EXCEPT ![r] = step]
  <2> DEFINE to == CASE ReleaseState = "build" -> "built"
                     [] ReleaseState = "verify" /\ assets["wheel"] = assets["zip"] -> "existing"
                     [] OTHER -> "rejected"
  <2>1. to \in {"built", "existing", "rejected"} /\ pc' = [pc EXCEPT ![r] = to]
    BY DEF Inspect, Move
  <2> QED BY <2>1
<1>2. pc[r] = "new" /\ Turn(r) /\ UNCHANGED <<assets, touched>> /\ sha' = [sha EXCEPT ![r] = tag]
  BY DEF Inspect, Stay
<1>3. pc \in [Runs -> Steps] /\ sha \in [Runs -> Sources]
  BY DEF IInv, ReleaseTypeOK
<1>4. OneTurn'
  <2> SUFFICES ASSUME NEW p \in Runs, NEW q \in Runs, Active(p)', Active(q)' PROVE p = q
    BY DEF OneTurn
  <2> QED BY <1>1, <1>2, <1>3 DEF IInv, OneTurn, Active, Turn
<1>5. \A q \in Runs : pc'[q] \in Uploading \cup {"check", "published"} =>
        q # r /\ pc'[q] = pc[q] /\ sha'[q] = sha[q]
  BY <1>1, <1>2, <1>3 DEF Uploading
<1>6. UploadsOwn'
  <2> SUFFICES ASSUME NEW q \in Runs, pc'[q] \in Uploading, ~touched', NEW name \in Names
               PROVE assets'[name] = IF name \in ToUpload(q)' THEN None ELSE Mine(q)'[name]
    BY DEF UploadsOwn
  <2>1. pc'[q] = pc[q] /\ sha'[q] = sha[q]
    BY <1>5
  <2> QED BY <1>2, <2>1 DEF IInv, UploadsOwn, ToUpload, Mine
<1>7. ComparedStays'
  BY <1>2, <1>5 DEF IInv, ComparedStays, Mine
<1>8. OneBuild'
  BY <1>2 DEF IInv, OneBuild
<1> QED BY <1>4, <1>6, <1>7, <1>8

LEMMA DownloadKeeps ==
  ASSUME IInv, NEW r \in Runs, Download(r)
  PROVE  OneTurn' /\ UploadsOwn' /\ ComparedStays' /\ OneBuild'
<1>1. pc[r] = "download" /\ UNCHANGED <<assets, touched, sha>>
  BY DEF Download, Require, Stay
<1>2. PICK step \in {"check", "failed"} :
        pc' = [pc EXCEPT ![r] = step] /\ (step = "check" => assets = Mine(r))
  BY DEF Download, Require, Move, Same
<1>3. pc \in [Runs -> Steps]
  BY DEF IInv, ReleaseTypeOK
<1>4. OneTurn'
  <2> SUFFICES ASSUME NEW p \in Runs, NEW q \in Runs, Active(p)', Active(q)' PROVE p = q
    BY DEF OneTurn
  <2> QED BY <1>1, <1>2, <1>3 DEF IInv, OneTurn, Active, Idle, Succeeded
<1>5. UploadsOwn'
  <2> SUFFICES ASSUME NEW q \in Runs, pc'[q] \in Uploading, ~touched', NEW name \in Names
               PROVE assets'[name] = IF name \in ToUpload(q)' THEN None ELSE Mine(q)'[name]
    BY DEF UploadsOwn
  <2>1. pc'[q] = pc[q]
    BY <1>2, <1>3 DEF Uploading
  <2> QED BY <1>1, <2>1 DEF IInv, UploadsOwn, ToUpload, Mine
<1>6. ComparedStays'
  BY <1>1, <1>2, <1>3 DEF IInv, ComparedStays, Mine
<1>7. OneBuild'
  BY <1>1 DEF IInv, OneBuild
<1> QED BY <1>4, <1>5, <1>6, <1>7

(* An upload adds a file of its own run to files of its own run.            *)
LEMMA UploadKeeps ==
  ASSUME IInv, NEW r \in Runs, NEW name \in Names, UploadAsset(r, name)
  PROVE  OneTurn' /\ UploadsOwn' /\ ComparedStays' /\ OneBuild'
<1> DEFINE own == [run |-> r, source |-> sha[r]]
<1>1. pc[r] \in Uploading /\ name \in ToUpload(r) /\ UNCHANGED <<sha, touched>>
  BY DEF UploadAsset, Stay
<1>2. pc \in [Runs -> Steps] /\ sha \in [Runs -> Sources] /\ assets \in [Names -> Bytes \cup {None}]
  BY DEF IInv, ReleaseTypeOK
<1>3. own \in Bytes /\ own # None /\ \A n \in Names : Mine(r)[n] = own
  BY <1>2, MineIsBytes, BytesAreNotNone DEF Bytes, Mine
<1>4. Active(r)
  BY <1>1 DEF Active, Uploading, Idle, Succeeded
<1>5. CASE Refused(name)
  <2>1. pc' = [pc EXCEPT ![r] = "failed"] /\ UNCHANGED assets
    BY <1>5 DEF UploadAsset, Move
  <2>2. Quiet(r)
    BY <1>4, <2>1, QuietStep DEF Steps, Idle, Uploading
  <2> QED BY <1>1, <2>1, <2>2, QuietKeeps
<1>6. CASE ~Refused(name)
  <2>1. assets' = [assets EXCEPT ![name] = own] /\ assets[name] = None
    BY <1>3, <1>6 DEF UploadAsset, Refused
  <2>2. PICK step \in {"again", "wheelLeft", "zipLeft"} :
          /\ pc' = [pc EXCEPT ![r] = step]
          /\ step = "wheelLeft" => name = "zip" /\ ToUpload(r) # {name}
          /\ step = "zipLeft" => name = "wheel" /\ ToUpload(r) # {name}
    BY <1>6 DEF UploadAsset, Move, Names
  <2>3. ToUpload(r) # {name} => pc[r] = "uploading" /\ ToUpload(r) = Names
    BY <1>1 DEF ToUpload, Uploading
  <2>4. OneTurn'
    <3> SUFFICES ASSUME NEW p \in Runs, NEW q \in Runs, Active(p)', Active(q)' PROVE p = q
      BY DEF OneTurn
    <3> QED BY <1>2, <1>4, <2>2 DEF IInv, OneTurn, Active
  <2>5. \A q \in Runs \ {r} : pc'[q] = pc[q] /\ pc[q] \in Idle
    BY <1>2, <1>4, <2>2 DEF IInv, OneTurn, Active
  <2>6. UploadsOwn'
    <3> SUFFICES ASSUME NEW q \in Runs, pc'[q] \in Uploading, ~touched', NEW n \in Names
                 PROVE assets'[n] = IF n \in ToUpload(q)' THEN None ELSE Mine(q)'[n]
      BY DEF UploadsOwn
    <3>1. q = r
      BY <2>5 DEF Uploading, Idle, Succeeded
    <3>2. pc'[r] \in {"wheelLeft", "zipLeft"} /\ pc'[r] = step
      BY <1>2, <2>2, <3>1 DEF Uploading
    <3>3. \A m \in Names : assets[m] = None
      BY <1>1, <2>2, <2>3, <3>2 DEF IInv, UploadsOwn
    <3>4. Mine(q)'[n] = own
      BY <1>1, <1>3, <3>1 DEF Mine
    <3>5. CASE step = "wheelLeft"
      <4>1. ToUpload(q)' = {"wheel"} /\ name = "zip"
        BY <2>2, <3>1, <3>2, <3>5 DEF ToUpload
      <4> QED BY <1>2, <2>1, <3>3, <3>4, <4>1 DEF Names
    <3>6. CASE step = "zipLeft"
      <4>1. ToUpload(q)' = {"zip"} /\ name = "wheel"
        BY <2>2, <3>1, <3>2, <3>6 DEF ToUpload
      <4> QED BY <1>2, <2>1, <3>3, <3>4, <4>1 DEF Names
    <3> QED BY <3>2, <3>5, <3>6
  <2>7. ComparedStays'
    <3> SUFFICES ASSUME NEW q \in Runs, pc'[q] \in {"check", "published"}, ~touched'
                 PROVE FALSE
      BY DEF ComparedStays
    <3>1. q # r /\ pc[q] = pc'[q]
      BY <1>2, <2>2, <2>5
    <3>2. assets = Mine(q)
      BY <1>1, <3>1 DEF IInv, ComparedStays
    <3> QED BY <1>2, <2>1, <3>2, MineIsBytes, BytesAreNotNone
  <2>8. OneBuild'
    <3> SUFFICES ASSUME ~touched' PROVE \A n \in Names : assets'[n] \in {None, own}
      BY <1>3 DEF OneBuild
    <3>1. \A n \in Names : assets[n] \in {None, own}
      BY <1>1, <1>3 DEF IInv, UploadsOwn
    <3> QED BY <1>2, <2>1, <3>1
  <2> QED BY <2>4, <2>6, <2>7, <2>8
<1> QED BY <1>5, <1>6

(* A maintainer either leaves the assets alone or is on record.             *)
LEMMA MaintainerKeeps ==
  ASSUME IInv, MaintainerNext
  PROVE  OneTurn' /\ AbsentIsEmpty' /\ UploadsOwn' /\ ComparedStays' /\ OneBuild'
<1>1. UNCHANGED <<pc, sha>>
  BY DEF MaintainerNext, MoveTag, PublishEmpty, TogglePrerelease, DeleteRelease, ChangeAsset, Edit
<1>2. touched' \/ UNCHANGED <<assets, touched>>
  BY DEF MaintainerNext, MoveTag, PublishEmpty, TogglePrerelease, DeleteRelease, ChangeAsset
<1>3. AbsentIsEmpty'
  BY DEF IInv, AbsentIsEmpty, MaintainerNext, MoveTag, PublishEmpty, TogglePrerelease,
         DeleteRelease, ChangeAsset
<1>4. OneTurn'
  BY <1>1 DEF IInv, OneTurn, Active
<1>5. UploadsOwn'
  BY <1>1, <1>2 DEF IInv, UploadsOwn, ToUpload, Mine
<1>6. ComparedStays'
  BY <1>1, <1>2 DEF IInv, ComparedStays, Mine
<1>7. OneBuild'
  BY <1>2 DEF IInv, OneBuild
<1> QED BY <1>3, <1>4, <1>5, <1>6, <1>7

-----------------------------------------------------------------------------
LEMMA StatusOfAbsent ==
  ASSUME AbsentIsEmpty, RunNext
  PROVE  AbsentIsEmpty'
<1>1. PICK r \in Runs :
        \/ Inspect(r) \/ Retry(r) \/ Look(r) \/ Create(r) \/ Upload(r)
        \/ \E name \in Names : UploadAsset(r, name)
        \/ Again(r) \/ Download(r) \/ Verified(r) \/ Fail(r)
  BY DEF RunNext
<1>2. CASE Create(r)
  BY <1>2 DEF Create, AbsentIsEmpty
<1>3. CASE \E name \in Names : UploadAsset(r, name)
  BY <1>3 DEF UploadAsset, Refused, Stay, AbsentIsEmpty
<1>4. CASE ~Create(r) /\ ~(\E name \in Names : UploadAsset(r, name))
  <2>1. UNCHANGED <<assets, status>>
    BY <1>1, <1>4 DEF Inspect, Retry, Look, Upload, Again, Download, Verified, Fail, Require, Stay
  <2> QED BY <2>1 DEF AbsentIsEmpty
<1> QED BY <1>2, <1>3, <1>4

(* Types: a step of a run.                                                  *)
LEMMA RunTypes ==
  ASSUME IInv, RunNext
  PROVE  ReleaseTypeOK'
<1>1. PICK r \in Runs :
        \/ Inspect(r) \/ Retry(r) \/ Look(r) \/ Create(r) \/ Upload(r)
        \/ \E name \in Names : UploadAsset(r, name)
        \/ Again(r) \/ Download(r) \/ Verified(r) \/ Fail(r)
  BY DEF RunNext
<1> USE DEF IInv, ReleaseTypeOK
<1>2. pc' \in [Runs -> Steps]
  <2>1. PICK step \in Steps : pc' = [pc EXCEPT ![r] = step]
    <3>1. CASE Inspect(r)
      <4> DEFINE to == CASE ReleaseState = "build" -> "built"
                         [] ReleaseState = "verify" /\ assets["wheel"] = assets["zip"] -> "existing"
                         [] OTHER -> "rejected"
      <4>1. to \in Steps /\ pc' = [pc EXCEPT ![r] = to]
        BY <3>1 DEF Inspect, Move, Steps, Idle, Succeeded
      <4> QED BY <4>1
    <3>2. CASE Download(r)
      BY <3>2 DEF Download, Require, Move, Steps, Idle
    <3>3. CASE \E name \in Names : UploadAsset(r, name)
      <4>1. PICK name \in Names : UploadAsset(r, name)
        BY <3>3
      <4> DEFINE to == IF Refused(name) THEN "failed"
                       ELSE IF ToUpload(r) = {name} THEN "again"
                       ELSE IF name = "zip" THEN "wheelLeft" ELSE "zipLeft"
      <4>2. to \in Steps /\ pc' = [pc EXCEPT ![r] = to]
        BY <4>1 DEF UploadAsset, Move, Steps, Idle, Uploading
      <4> QED BY <4>2
    <3>4. CASE Quiet(r)
      BY <3>4 DEF Quiet
    <3> QED BY <1>1, <3>1, <3>2, <3>3, <3>4, MovesAreQuiet
  <2> QED BY <2>1
<1>3. sha' \in [Runs -> Sources] /\ tag' \in Sources
  BY <1>1 DEF Inspect, Retry, Look, Create, Upload, UploadAsset, Again, Download, Verified, Fail,
              Require, Stay
<1>4. status' \in {"absent", "prerelease", "final"}
  BY <1>1 DEF Inspect, Retry, Look, Create, Upload, UploadAsset, Again, Download, Verified, Fail,
              Require, Stay
<1>5. assets' \in [Names -> Bytes \cup {None}]
  <2>1. CASE \E name \in Names : UploadAsset(r, name)
    <3>1. PICK name \in Names : UploadAsset(r, name)
      BY <2>1
    <3>2. assets' = assets \/ assets' = [assets EXCEPT ![name] = Mine(r)[name]]
      BY <3>1 DEF UploadAsset
    <3> QED BY <3>2, MineIsBytes
  <2>2. CASE ~\E name \in Names : UploadAsset(r, name)
    BY <1>1, <2>2 DEF Inspect, Retry, Look, Create, Upload, Again, Download, Verified, Fail,
                      Require, Stay
  <2> QED BY <2>1, <2>2
<1>6. edits' \in 0..MaxEdits /\ retries' \in 0..MaxRetries
  BY <1>1, ReleaseAssumption
     DEF Inspect, Retry, Look, Create, Upload, UploadAsset, Again, Download, Verified, Fail,
         Require, Stay
<1>7. moved' = moved /\ touched' = touched
  BY <1>1 DEF Inspect, Retry, Look, Create, Upload, UploadAsset, Again, Download, Verified, Fail,
              Require, Stay
<1> QED BY <1>2, <1>3, <1>4, <1>5, <1>6, <1>7

(* Types: an edit.                                                          *)
LEMMA MaintainerTypes ==
  ASSUME IInv, MaintainerNext
  PROVE  ReleaseTypeOK'
<1> USE DEF IInv, ReleaseTypeOK
<1>1. UNCHANGED <<pc, sha, retries>> /\ edits' \in 0..MaxEdits
  BY ReleaseAssumption
     DEF MaintainerNext, MoveTag, PublishEmpty, TogglePrerelease, DeleteRelease, ChangeAsset, Edit
<1>2. tag' \in Sources /\ status' \in {"absent", "prerelease", "final"}
  BY DEF MaintainerNext, MoveTag, PublishEmpty, TogglePrerelease, DeleteRelease, ChangeAsset
<1>3. assets' \in [Names -> Bytes \cup {None}]
  BY DEF MaintainerNext, MoveTag, PublishEmpty, TogglePrerelease, DeleteRelease, ChangeAsset,
         Empty, Bytes
<1>4. moved' \in {moved, TRUE} /\ touched' \in {touched, TRUE}
  BY DEF MaintainerNext, MoveTag, PublishEmpty, TogglePrerelease, DeleteRelease, ChangeAsset
<1> QED BY <1>1, <1>2, <1>3, <1>4

LEMMA NextInv == ASSUME IInv, [ReleaseNext \/ Elsewhere]_releaseVars PROVE IInv'
<1>1. CASE MaintainerNext
  BY <1>1, MaintainerKeeps, MaintainerTypes DEF IInv
<1>2. CASE RunNext
  <2>1. PICK r \in Runs :
          \/ Inspect(r) \/ Retry(r) \/ Look(r) \/ Create(r) \/ Upload(r)
          \/ \E name \in Names : UploadAsset(r, name)
          \/ Again(r) \/ Download(r) \/ Verified(r) \/ Fail(r)
    BY <1>2 DEF RunNext
  <2>2. OneTurn' /\ UploadsOwn' /\ ComparedStays' /\ OneBuild'
    <3>1. IInv => ReleaseTypeOK /\ AbsentIsEmpty
      BY DEF IInv
    <3> QED BY <2>1, <3>1, InspectKeeps, DownloadKeeps, UploadKeeps, MovesAreQuiet, QuietKeeps
  <2>3. AbsentIsEmpty'
    BY <1>2, StatusOfAbsent DEF IInv
  <2> QED BY <1>2, <2>2, <2>3, RunTypes DEF IInv
<1>3. CASE UNCHANGED releaseVars \/ Elsewhere
  <2>1. UNCHANGED <<tag, status, assets, pc, sha, retries, moved, touched>>
    BY <1>3 DEF releaseVars, Elsewhere, Edit
  <2>2. ReleaseTypeOK'
    <3>1. edits' \in 0..MaxEdits
      BY <1>3, ReleaseAssumption DEF releaseVars, Elsewhere, Edit, IInv, ReleaseTypeOK
    <3> QED BY <2>1, <3>1 DEF IInv, ReleaseTypeOK
  <2>3. OneTurn' /\ AbsentIsEmpty' /\ ComparedStays' /\ OneBuild'
    BY <2>1 DEF IInv, OneTurn, Active, AbsentIsEmpty, Mine, ComparedStays, OneBuild
  <2>4. UploadsOwn'
    BY <2>1 DEF IInv, UploadsOwn, ToUpload, Mine
  <2> QED BY <2>2, <2>3, <2>4 DEF IInv
<1> QED BY <1>1, <1>2, <1>3 DEF ReleaseNext

LEMMA EditsGrow ==
  ASSUME [ReleaseNext \/ Elsewhere]_releaseVars PROVE edits' = edits \/ edits' = edits + 1
BY DEF ReleaseNext, Elsewhere, releaseVars, MaintainerNext, MoveTag, PublishEmpty, TogglePrerelease,
       DeleteRelease, ChangeAsset, Edit, RunNext, Inspect, Retry, Look, Create, Upload, UploadAsset,
       Again, Download, Verified, Fail, Require, Stay

(* Whatever the runs, the failures and the edits, the invariant holds.      *)
THEOREM ReleaseInvariant == ReleaseSpec => []IInv
<1>1. ReleaseInit => IInv
  BY InitInv
<1>2. IInv /\ [ReleaseNext \/ Elsewhere]_releaseVars => IInv'
  BY NextInv
<1> QED BY <1>1, <1>2, PTL DEF ReleaseSpec

-----------------------------------------------------------------------------
(* Proposals and the catalogue's people never touch a release: the          *)
(* composition implements Release.                                          *)
LEMMA CatalogueStep ==
  ASSUME [Next]_vars PROVE [ReleaseNext \/ Elsewhere]_releaseVars
<1>1. CASE JobNext
  <2>1. UNCHANGED releaseVars
    BY <1>1 DEF JobNext, Prepare, Evidence, DownloadWheel, DownloadBundle, Readback, Observe,
                CheckMain, ListPulls, Push, Landed, Propose, Confirm, Stop, Step
  <2> QED BY <2>1
<1>2. CASE CatalogueNext
  BY <1>2 DEF CatalogueNext, OtherWork, Merge, PersonPushes, PersonCloses, Other
<1>3. CASE UNCHANGED vars
  BY <1>3 DEF vars
<1> QED BY <1>1, <1>2, <1>3 DEF Next

THEOREM Implements == Spec => ReleaseSpec
<1>1. Init => ReleaseInit
  BY DEF Init
<1>2. [Next]_vars => [ReleaseNext \/ Elsewhere]_releaseVars
  BY CatalogueStep
<1> QED BY <1>1, <1>2, PTL DEF Spec, ReleaseSpec

(* No run ever completes what another left behind, in the release alone and *)
(* beside the catalogue.                                                    *)
THEOREM OneBuildHolds == Spec => []OneBuild
<1>1. IInv => OneBuild
  BY DEF IInv
<1> QED BY <1>1, Implements, ReleaseInvariant, PTL

(* What a successful run has published stays as it is.                      *)
THEOREM PublishedHolds == Spec => []Published
<1>1. IInv => Published
  BY DEF IInv, ComparedStays, Published
<1> QED BY <1>1, Implements, ReleaseInvariant, PTL

-----------------------------------------------------------------------------
(* The types of the composition, and the catalogue.                         *)

Jobs == [step : JobSteps, version : Versions, base : 0..MaxEdits + MaxJobs,
         from : Entries, evidence : [Names -> Bytes \cup {None, OldBytes}], entry : Entries,
         lease : Commits \cup {None}, known : BOOLEAN]

(* The part of TypeOK that a proposal or a merge changes.                   *)
CatalogueTypeOK ==
  /\ mainSha \in 0..MaxEdits + MaxJobs /\ mainEntry \in Entries
  /\ branch \in [Versions -> Commits \cup {None}]
  /\ pr \in [Versions -> {"none", "open", "closed"}]
  /\ job \in Jobs /\ jobs \in 0..MaxJobs

(* What has passed upsert: no downgrade, no other bytes of one version.     *)
Checked == {"main", "pulls", "push", "landed", "propose", "confirm"}
Accepted ==
  /\ job.step \in Checked => Upsert(job.from, job.entry)
  /\ \A v \in Versions : branch[v] # None => Upsert(branch[v].from, branch[v].entry)

CInv == ReleaseTypeOK /\ CatalogueTypeOK /\ Accepted

-----------------------------------------------------------------------------
LEMMA FirstIsEntry == First \in Entries
BY DEF First, Entries

LEMMA NoJobIsJob ==
  /\ NoJob \in Jobs
  /\ \A step \in JobSteps : [NoJob EXCEPT !.step = step] \in Jobs
<1>1. 0 \in 0..MaxEdits + MaxJobs
  BY ReleaseAssumption, CatalogueAssumption
<1>2. Empty \in [Names -> Bytes \cup {None, OldBytes}]
  BY DEF Empty
<1>3. "idle" \in JobSteps
  BY DEF JobSteps, Over
<1> QED BY <1>1, <1>2, <1>3, FirstIsEntry DEF NoJob, Jobs, Versions

LEMMA CandidateIsCommit == ASSUME job \in Jobs PROVE Candidate \in Commits /\ Candidate # None
BY DEF Candidate, Commits, Jobs, None

LEMMA AssetsOfType ==
  ASSUME ReleaseTypeOK, NEW v \in Versions
  PROVE  AssetsOf(v) \in [Names -> Bytes \cup {None, OldBytes}]
BY DEF ReleaseTypeOK, AssetsOf

LEMMA CatalogueInit == ASSUME Init PROVE CInv
<1>1. ReleaseTypeOK
  BY InitInv DEF Init, IInv
<1>2. 0 \in 0..MaxEdits + MaxJobs /\ 0 \in 0..MaxJobs
  BY ReleaseAssumption, CatalogueAssumption
<1>3. CatalogueTypeOK
  BY <1>2, FirstIsEntry, NoJobIsJob DEF Init, CatalogueTypeOK
<1>4. Accepted
  BY DEF Init, Accepted, NoJob, Checked
<1> QED BY <1>1, <1>3, <1>4 DEF CInv

-----------------------------------------------------------------------------
(* A job that stops, and a step of a job that leaves the branches alone.    *)
LEMMA StopKeeps ==
  ASSUME CInv, NEW step \in Over, job' = [NoJob EXCEPT !.step = step],
         UNCHANGED <<mainSha, mainEntry, branch, pr>>, jobs' \in 0..MaxJobs
  PROVE  CatalogueTypeOK' /\ Accepted'
<1>1. job' \in Jobs
  BY NoJobIsJob DEF JobSteps
<1>2. job'.step = step /\ step \notin Checked
  BY DEF NoJob, Over, Checked
<1> QED BY <1>1, <1>2 DEF CInv, CatalogueTypeOK, Accepted

LEMMA StepKeeps ==
  ASSUME CInv, NEW from, NEW condition, NEW learnt, Step(from, condition, learnt), Remote,
         condition => learnt \in Jobs,
         condition /\ learnt.step \in Checked => Upsert(learnt.from, learnt.entry)
  PROVE  CatalogueTypeOK' /\ Accepted'
<1>1. UNCHANGED <<mainSha, mainEntry, branch, pr, jobs>>
  BY DEF Step, Remote
<1>2. CASE condition
  <2>1. job' = learnt
    BY <1>2 DEF Step
  <2> QED BY <1>1, <1>2, <2>1 DEF CInv, CatalogueTypeOK, Accepted
<1>3. CASE ~condition
  <2>1. job' = [NoJob EXCEPT !.step = "stopped"]
    BY <1>3 DEF Step
  <2> QED BY <1>1, <2>1, StopKeeps DEF CInv, CatalogueTypeOK, Over
<1> QED BY <1>2, <1>3

(* The steps before upsert gather what it needs.                            *)
LEMMA PrepareKeeps == ASSUME CInv, NEW v \in Versions, Prepare(v) PROVE CatalogueTypeOK' /\ Accepted'
<1>1. UNCHANGED <<mainSha, mainEntry, branch, pr>> /\ jobs' \in 0..MaxJobs
  BY CatalogueAssumption DEF Prepare, CInv, CatalogueTypeOK
<1>2. CASE Origin(v)
  <2> DEFINE to == [NoJob EXCEPT !.step = "evidence", !.version = v, !.base = mainSha,
                      !.from = mainEntry, !.entry = Entry(v, TagOf(v), First.wheel)]
  <2>1. Entry(v, TagOf(v), First.wheel) \in Entries
    BY DEF Entry, Entries, TagOf, First, Versions, CInv, ReleaseTypeOK
  <2>2. mainSha \in 0..MaxEdits + MaxJobs /\ mainEntry \in Entries
    BY DEF CInv, CatalogueTypeOK
  <2>3. to \in Jobs /\ to.step = "evidence"
    BY <2>1, <2>2, NoJobIsJob DEF Jobs, JobSteps
  <2>4. job' = to
    BY <1>2 DEF Prepare
  <2> HIDE DEF to
  <2> QED BY <1>1, <2>3, <2>4 DEF CInv, CatalogueTypeOK, Accepted, Checked
<1>3. CASE ~Origin(v)
  <2>1. job' = [NoJob EXCEPT !.step = "stopped"]
    BY <1>3 DEF Prepare
  <2> QED BY <1>1, <2>1, StopKeeps DEF Over
<1> QED BY <1>2, <1>3

LEMMA GatherKeeps ==
  ASSUME CInv, Evidence \/ DownloadWheel \/ DownloadBundle \/ Readback
  PROVE  CatalogueTypeOK' /\ Accepted'
<1>1. job \in Jobs /\ job.version \in Versions
  BY DEF CInv, CatalogueTypeOK, Jobs
<1>2. AssetsOf(job.version) \in [Names -> Bytes \cup {None, OldBytes}]
  BY <1>1, AssetsOfType DEF CInv
<1>3. CASE Evidence
  <2> DEFINE to == [job EXCEPT !.step = "wheel", !.evidence = AssetsOf(job.version)]
  <2>1. to \in Jobs /\ to.step \notin Checked
    BY <1>1, <1>2 DEF Jobs, JobSteps, Checked
  <2> QED BY <1>3, <2>1, StepKeeps DEF Evidence
<1>4. CASE DownloadWheel
  <2> DEFINE wheel == AssetsOf(job.version)["wheel"]
             to == [job EXCEPT !.step = "bundle", !.entry.wheel = wheel]
  <2>1. [job.entry EXCEPT !.wheel = wheel] \in Entries
    BY <1>1, <1>2 DEF Jobs, Entries, Names
  <2>2. to \in Jobs /\ to.step \notin Checked
    BY <1>1, <2>1 DEF Jobs, JobSteps, Checked
  <2> QED BY <1>4, <2>2, StepKeeps DEF DownloadWheel
<1>5. CASE DownloadBundle
  <2> DEFINE to == [job EXCEPT !.step = "readback"]
  <2>1. to \in Jobs /\ to.step \notin Checked
    BY <1>1 DEF Jobs, JobSteps, Checked
  <2> QED BY <1>5, <2>1, StepKeeps DEF DownloadBundle
<1>6. CASE Readback
  <2> DEFINE to == [job EXCEPT !.step = "observe"]
  <2>1. to \in Jobs /\ to.step \notin Checked
    BY <1>1 DEF Jobs, JobSteps, Checked
  <2> QED BY <1>6, <2>1, StepKeeps DEF Readback
<1> QED BY <1>3, <1>4, <1>5, <1>6

(* upsert is where a job becomes acceptable.                                *)
LEMMA ObserveKeeps == ASSUME CInv, Observe PROVE CatalogueTypeOK' /\ Accepted'
<1> DEFINE accepted == [job EXCEPT !.step = "main", !.lease = branch[job.version], !.evidence = Empty]
           done == [NoJob EXCEPT !.step = "unchanged"]
           learnt == IF job.entry = job.from THEN done ELSE accepted
<1>1. job \in Jobs /\ job.version \in Versions /\ branch[job.version] \in Commits \cup {None}
  BY DEF CInv, CatalogueTypeOK, Jobs
<1>2. accepted \in Jobs /\ accepted.from = job.from /\ accepted.entry = job.entry
  BY <1>1 DEF Jobs, JobSteps, Empty
<1>3. done \in Jobs /\ done.step \notin Checked
  BY NoJobIsJob DEF JobSteps, Over, Checked, NoJob
<1>4. Step("observe", Upsert(job.from, job.entry), learnt) /\ Remote
  BY DEF Observe
<1>5. learnt \in Jobs
        /\ (Upsert(job.from, job.entry) /\ learnt.step \in Checked
              => Upsert(learnt.from, learnt.entry))
  BY <1>2, <1>3
<1> HIDE DEF learnt
<1> QED BY <1>4, <1>5, StepKeeps

(* From then on the job carries its candidate unchanged.                    *)
LEMMA CarryKeeps ==
  ASSUME CInv, CheckMain \/ ListPulls \/ Landed \/ Confirm
  PROVE  CatalogueTypeOK' /\ Accepted'
<1>1. job \in Jobs
  BY DEF CInv, CatalogueTypeOK
<1>2. ASSUME NEW step \in Checked, NEW known \in BOOLEAN
      PROVE  /\ [job EXCEPT !.step = step] \in Jobs
             /\ [job EXCEPT !.step = step, !.known = known] \in Jobs
  BY <1>1, <1>2 DEF Jobs, JobSteps, Checked
<1>3. CASE CheckMain
  <2> DEFINE to == [job EXCEPT !.step = "pulls"]
  <2>1. Step("main", mainSha = job.base, to) /\ Remote /\ job.step = "main"
    BY <1>3 DEF CheckMain, Step
  <2>2. to \in Jobs /\ to.from = job.from /\ to.entry = job.entry
    BY <1>1, <1>2 DEF Jobs, Checked
  <2>3. Upsert(job.from, job.entry)
    BY <2>1 DEF CInv, Accepted, Checked
  <2> HIDE DEF to
  <2> QED BY <2>1, <2>2, <2>3, StepKeeps
<1>4. CASE ListPulls
  <2> DEFINE to == [job EXCEPT !.step = "push", !.known = pr[job.version] = "open"]
  <2>1. Step("pulls", TRUE, to) /\ Remote /\ job.step = "pulls"
    BY <1>4 DEF ListPulls, Step
  <2>2. to \in Jobs /\ to.from = job.from /\ to.entry = job.entry
    <3>1. (pr[job.version] = "open") \in BOOLEAN
      OBVIOUS
    <3>2. to \in Jobs
      BY <1>2, <3>1 DEF Checked
    <3> QED BY <1>1, <3>2 DEF Jobs
  <2>3. Upsert(job.from, job.entry)
    BY <2>1 DEF CInv, Accepted, Checked
  <2> HIDE DEF to
  <2> QED BY <2>1, <2>2, <2>3, StepKeeps
<1>5. CASE Landed
  <2> DEFINE to == [job EXCEPT !.step = "propose"]
  <2>1. Step("landed", branch[job.version] = Candidate, to) /\ Remote /\ job.step = "landed"
    BY <1>5 DEF Landed, Step
  <2>2. to \in Jobs /\ to.from = job.from /\ to.entry = job.entry
    BY <1>1, <1>2 DEF Jobs, Checked
  <2>3. Upsert(job.from, job.entry)
    BY <2>1 DEF CInv, Accepted, Checked
  <2> HIDE DEF to
  <2> QED BY <2>1, <2>2, <2>3, StepKeeps
<1>6. CASE Confirm
  <2> DEFINE to == [NoJob EXCEPT !.step = "proposed"]
  <2>1. Step("confirm", Live, to) /\ Remote
    BY <1>6 DEF Confirm
  <2>2. to \in Jobs /\ to.step \notin Checked
    BY NoJobIsJob DEF JobSteps, Over, Checked, NoJob
  <2> HIDE DEF to
  <2> QED BY <2>1, <2>2, StepKeeps
<1> QED BY <1>3, <1>4, <1>5, <1>6

(* A push puts what was accepted on the branch.                             *)
LEMMA PushKeeps == ASSUME CInv, Push PROVE CatalogueTypeOK' /\ Accepted'
<1>1. job \in Jobs /\ job.step = "push" /\ UNCHANGED <<mainSha, mainEntry, jobs, pr>>
  BY DEF Push, Step, CInv, CatalogueTypeOK
<1>2. Upsert(job.from, job.entry) /\ job.version \in Versions
  BY <1>1 DEF CInv, Accepted, Checked, Jobs
<1>3. Candidate \in Commits /\ Candidate.from = job.from /\ Candidate.entry = job.entry
  BY <1>1, CandidateIsCommit DEF Candidate
<1>4. branch \in [Versions -> Commits \cup {None}]
  BY DEF CInv, CatalogueTypeOK
<1>5. /\ branch' \in [Versions -> Commits \cup {None}]
      /\ \A v \in Versions : branch'[v] # None => Upsert(branch'[v].from, branch'[v].entry)
  <2>1. branch' = branch \/ branch' = [branch EXCEPT ![job.version] = Candidate]
    BY DEF Push
  <2> QED BY <1>2, <1>3, <1>4, <2>1 DEF CInv, Accepted
<1>6. job' \in Jobs /\ (job'.step \in Checked => Upsert(job'.from, job'.entry))
  <2>1. CASE Leased
    <3>1. job' = [job EXCEPT !.step = "landed"]
      BY <2>1 DEF Push, Step
    <3> QED BY <1>1, <1>2, <3>1 DEF Jobs, JobSteps
  <2>2. CASE ~Leased
    <3>1. job' = [NoJob EXCEPT !.step = "stopped"]
      BY <2>2 DEF Push, Step
    <3> QED BY <3>1, NoJobIsJob DEF JobSteps, Over, Checked, NoJob
  <2> QED BY <2>1, <2>2
<1> QED BY <1>1, <1>5, <1>6 DEF CInv, CatalogueTypeOK, Accepted

LEMMA ProposeKeeps == ASSUME CInv, Propose PROVE CatalogueTypeOK' /\ Accepted'
<1>1. job \in Jobs /\ job.step = "propose" /\ UNCHANGED <<mainSha, mainEntry, jobs, branch>>
  BY DEF Propose, Step, CInv, CatalogueTypeOK
<1>2. Upsert(job.from, job.entry)
  BY <1>1 DEF CInv, Accepted, Checked
<1>3. pr' \in [Versions -> {"none", "open", "closed"}]
  BY DEF Propose, CInv, CatalogueTypeOK
<1>4. job' \in Jobs /\ (job'.step \in Checked => Upsert(job'.from, job'.entry))
  <2>1. CASE job.known \/ Opens
    <3>1. job' = [job EXCEPT !.step = "confirm"]
      BY <2>1 DEF Propose, Step
    <3> QED BY <1>1, <1>2, <3>1 DEF Jobs, JobSteps
  <2>2. CASE ~(job.known \/ Opens)
    <3>1. job' = [NoJob EXCEPT !.step = "stopped"]
      BY <2>2 DEF Propose, Step
    <3> QED BY <3>1, NoJobIsJob DEF JobSteps, Over, Checked, NoJob
  <2> QED BY <2>1, <2>2
<1> QED BY <1>1, <1>3, <1>4 DEF CInv, CatalogueTypeOK, Accepted

(* A merge approves what a branch carries; people change who, not what.     *)
LEMMA PeopleKeep == ASSUME CInv, CatalogueNext PROVE CatalogueTypeOK' /\ Accepted'
<1>1. UNCHANGED <<job, jobs>>
  BY DEF CatalogueNext, OtherWork, Merge, PersonPushes, PersonCloses, Other
<1>2. branch \in [Versions -> Commits \cup {None}]
  BY DEF CInv, CatalogueTypeOK
<1>3. /\ branch' \in [Versions -> Commits \cup {None}]
      /\ \A v \in Versions : branch'[v] # None => Upsert(branch'[v].from, branch'[v].entry)
  <2>1. CASE \E v \in Versions : PersonPushes(v)
    <3>1. PICK v \in Versions : PersonPushes(v)
      BY <2>1
    <3>2. branch[v] \in Commits /\ branch' = [branch EXCEPT ![v].by = "person"]
      BY <1>2, <3>1 DEF PersonPushes
    <3>3. [branch[v] EXCEPT !.by = "person"] \in Commits
      BY <3>2 DEF Commits
    <3> QED BY <1>2, <3>1, <3>2, <3>3 DEF CInv, Accepted, Commits, PersonPushes
  <2>2. CASE ~\E v \in Versions : PersonPushes(v)
    <3>1. \A v \in Versions : branch'[v] \in {branch[v], None}
      BY <1>2, <2>2 DEF CatalogueNext, OtherWork, Merge, PersonCloses
    <3>2. branch' \in [Versions -> Commits \cup {None}]
      BY <1>2, <2>2 DEF CatalogueNext, OtherWork, Merge, PersonCloses
    <3> QED BY <3>1, <3>2 DEF CInv, Accepted
  <2> QED BY <2>1, <2>2
<1>4. mainEntry' \in Entries
  <2>1. \A v \in Versions : Merge(v) => branch[v].entry \in Entries
    BY <1>2 DEF Merge, Commits
  <2> QED BY <2>1 DEF CatalogueNext, OtherWork, Merge, PersonPushes, PersonCloses, CInv, CatalogueTypeOK
<1>5. mainSha' \in 0..MaxEdits + MaxJobs
  BY ReleaseAssumption, CatalogueAssumption
     DEF CatalogueNext, OtherWork, Merge, PersonPushes, PersonCloses, CInv, CatalogueTypeOK
<1>6. pr' \in [Versions -> {"none", "open", "closed"}]
  BY DEF CatalogueNext, OtherWork, Merge, PersonPushes, PersonCloses, CInv, CatalogueTypeOK
<1> QED BY <1>1, <1>3, <1>4, <1>5, <1>6 DEF CInv, CatalogueTypeOK, Accepted

-----------------------------------------------------------------------------
LEMMA ReleaseTypes == Spec => []ReleaseTypeOK
<1>1. IInv => ReleaseTypeOK
  BY DEF IInv
<1> QED BY <1>1, Implements, ReleaseInvariant, PTL

LEMMA CatalogueNextInv ==
  ASSUME CInv, [Next]_vars PROVE CatalogueTypeOK' /\ Accepted'
<1>1. CASE ReleaseNext /\ UNCHANGED catalogueVars
  BY <1>1 DEF catalogueVars, CInv, CatalogueTypeOK, Accepted
<1>2. CASE JobNext
  <2>1. CASE \E v \in Versions : Prepare(v)
    BY <2>1, PrepareKeeps
  <2>2. CASE Stop
    BY <2>2, StopKeeps DEF Stop, Over, CInv, CatalogueTypeOK
  <2> QED BY <1>2, <2>1, <2>2, GatherKeeps, ObserveKeeps, CarryKeeps, PushKeeps, ProposeKeeps DEF JobNext
<1>3. CASE CatalogueNext
  BY <1>3, PeopleKeep
<1>4. CASE UNCHANGED vars
  BY <1>4 DEF vars, catalogueVars, ghosts, CInv, CatalogueTypeOK, Accepted
<1> QED BY <1>1, <1>2, <1>3, <1>4 DEF Next

(* Types, and that what is on a branch has passed upsert.                   *)
THEOREM CatalogueInvariant == Spec => []CInv
<1>1. Init => CInv
  BY CatalogueInit
<1>2. CInv /\ ReleaseTypeOK' /\ [Next]_vars => CInv'
  BY CatalogueNextInv DEF CInv
<1> QED BY <1>1, <1>2, ReleaseTypes, PTL DEF Spec

(* main's entry changes only by a merge, of a branch that passed upsert     *)
(* against exactly the entry it replaces.                                   *)
THEOREM NeverDowngrades == Spec => NoDowngrade
<1>1. CInv /\ [Next]_vars =>
        [mainEntry'.version >= mainEntry.version
         /\ (mainEntry'.version = mainEntry.version => mainEntry' = mainEntry)]_vars
  <2> SUFFICES ASSUME CInv, [Next]_vars
               PROVE  mainEntry'.version >= mainEntry.version
                      /\ (mainEntry'.version = mainEntry.version => mainEntry' = mainEntry)
    OBVIOUS
  <2>1. mainEntry.version \in Nat
    BY DEF CInv, CatalogueTypeOK, Entries
  <2>2. CASE \E v \in Versions : Merge(v)
    <3>1. PICK v \in Versions : Merge(v)
      BY <2>2
    <3>2. Upsert(mainEntry, branch[v].entry) /\ mainEntry' = branch[v].entry
      BY <3>1 DEF Merge, CInv, Accepted
    <3> QED BY <3>2 DEF Upsert
  <2>3. CASE ~\E v \in Versions : Merge(v)
    <3>1. mainEntry' = mainEntry
      BY <2>3 DEF Next, vars, catalogueVars, JobNext, Prepare, Evidence, DownloadWheel,
         DownloadBundle, Readback, Observe, CheckMain, ListPulls, Push, Landed, Propose, Confirm,
         Stop, Step, CatalogueNext, OtherWork, PersonPushes, PersonCloses
    <3> QED BY <2>1, <3>1
  <2> QED BY <2>2, <2>3
<1> QED BY <1>1, CatalogueInvariant, PTL DEF Spec, NoDowngrade

(* The ghosts: what has been shown, and no more edits than there were.      *)
Counted == witnessed \subseteq Sources \X Bytes /\ since \in Nat /\ since <= edits /\ crowded \in BOOLEAN

LEMMA CountedKeeps ==
  ASSUME Counted, ReleaseTypeOK, ReleaseTypeOK', [Next]_vars PROVE Counted'
<1>1. CASE UNCHANGED vars
  BY <1>1 DEF vars, ghosts, releaseVars, Counted
<1>2. CASE Next
  <2>1. witnessed' \subseteq Sources \X Bytes
    <3>1. Shown' \subseteq Sources \X Bytes
      BY DEF Shown, Complete, ReleaseTypeOK, Names
    <3> QED BY <1>2, <3>1 DEF Next, Counted
  <2>2. edits \in Nat /\ edits' \in Nat /\ edits <= edits'
    <3>1. edits' = edits \/ edits' = edits + 1
      BY <1>2, CatalogueStep, EditsGrow
    <3> QED BY <3>1, ReleaseAssumption DEF ReleaseTypeOK
  <2>3. since' \in Nat /\ since' <= edits'
    <3>1. since' \in {0, since} \/ (since' = since + 1 /\ edits' # edits)
      <4>1. since' = IF job'.step \in Reading THEN since + (IF Edited THEN 1 ELSE 0) ELSE 0
        BY <1>2 DEF Next
      <4>2. Edited => edits' # edits
        BY DEF Edited
      <4> HIDE DEF Edited
      <4> QED BY <4>1, <4>2 DEF Counted
    <3> QED BY <2>2, <3>1 DEF Counted
  <2>4. crowded' \in BOOLEAN
    BY <1>2 DEF Next
  <2> QED BY <2>1, <2>3, <2>4 DEF Counted
<1> QED BY <1>1, <1>2

LEMMA CountedHolds == Spec => []Counted
<1>1. Init => Counted
  <2> SUFFICES ASSUME Init PROVE Counted
    OBVIOUS
  <2>1. witnessed = {} /\ since = 0 /\ edits = 0
    BY DEF Init, ReleaseInit
  <2>2. crowded \in BOOLEAN
    BY DEF Init
  <2> QED BY <2>1, <2>2 DEF Counted
<1>2. Counted /\ ReleaseTypeOK /\ ReleaseTypeOK' /\ [Next]_vars => Counted'
  BY CountedKeeps
<1> QED BY <1>1, <1>2, ReleaseTypes, PTL DEF Spec

(* Every variable of the composition has its type.                          *)
THEOREM TypesHold == Spec => []TypeOK
<1>1. ReleaseTypeOK /\ CInv /\ Counted => TypeOK
  <2> SUFFICES ASSUME ReleaseTypeOK, CInv, Counted PROVE TypeOK
    OBVIOUS
  <2>1. since \in 0..MaxEdits
    BY ReleaseAssumption DEF ReleaseTypeOK, Counted
  <2> QED BY <2>1 DEF CInv, CatalogueTypeOK, Jobs, TypeOK, Counted
<1> QED BY <1>1, ReleaseTypes, CatalogueInvariant, CountedHolds, PTL

-----------------------------------------------------------------------------
(* What a job has read while it verifies.                                   *)

(* What is shown now has been noted.                                        *)
ShownNoted == Shown \subseteq witnessed

HasRead(name) == job.step = "readback" \/ (name = "wheel" /\ job.step = "bundle")
Noted(bytes) == <<job.entry.source, bytes>> \in witnessed

(* An asset that was replaced is not what the evidence says until another   *)
(* edit, and what was read is either.  Two edits can put back what was      *)
(* there, but not both assets one after the other: before the second edit   *)
(* the release showed what has been read of it.                             *)
ReadSince ==
  job.version = 2 /\ job.step \in Reading =>
    /\ \A name \in Names : job.evidence[name] # None
    /\ job.evidence["wheel"] = job.evidence["zip"] => Noted(job.evidence["wheel"])
    /\ since = 0 => assets = job.evidence /\ status = "final" /\ tag = job.entry.source
    /\ since = 1 /\ assets # job.evidence => tag = job.entry.source /\ status # "prerelease"
    /\ \A name \in Names : HasRead(name) =>
         /\ job.entry.wheel # None
         /\ since \in {0, 1} => job.entry.wheel \in {job.evidence[name], assets[name]}
    /\ job.step = "readback" /\ since = 2 /\ job.evidence["wheel"] = job.evidence["zip"] =>
         job.entry.wheel \in {job.evidence["zip"], assets["zip"]} \/ Noted(job.entry.wheel)

(* From the start the entry is of the job's version, and from upsert on it  *)
(* is of a release that was public.                                         *)
HasRelease ==
  /\ job.step \notin Over => job.entry.version = job.version
  /\ job.step \in {"observe"} \cup Checked /\ job.version = 2 => crowded \/ Noted(job.entry.wheel)

SinceZero == job.step \notin Reading => since = 0

PInv == ShownNoted /\ SinceZero /\ ReadSince /\ HasRelease /\ PublicOnce

LEMMA PublicInit == ASSUME Init PROVE PInv
<1>1. status = "absent" /\ job = NoJob /\ mainEntry = First /\ \A v \in Versions : branch[v] = None
  BY DEF Init, ReleaseInit
<1>2. ShownNoted /\ SinceZero
  BY <1>1 DEF Init, ShownNoted, Shown, SinceZero
<1>3. job.step = "idle"
  BY <1>1 DEF NoJob
<1>4. ReadSince /\ HasRelease
  BY <1>3 DEF ReadSince, HasRelease, Reading, Over, Checked
<1>5. PublicOnce
  BY <1>1 DEF PublicOnce, First
<1> QED BY <1>2, <1>4, <1>5 DEF PInv

(* A step of the release alone: runs only fill in what is missing, and an   *)
(* edit that changes assets leaves the tag alone.                           *)
LEMMA ReleaseMoves ==
  ASSUME ReleaseTypeOK, ReleaseNext
  PROVE  \/ UNCHANGED <<tag, status, assets>> /\ ~Edited
         \/ /\ ~Edited /\ tag' = tag /\ status' \in {status, "final"}
            /\ status' # status => status = "absent"
            /\ \A name \in Names : assets[name] # None => assets'[name] = assets[name]
         \/ Edited /\ (assets' = assets \/ (tag' = tag /\ status' \in {status, "absent"}))
<1>1. CASE MaintainerNext
  <2>1. assets' = assets \/ (tag' = tag /\ status' \in {status, "absent"})
    BY <1>1 DEF MaintainerNext, MoveTag, PublishEmpty, TogglePrerelease, DeleteRelease, ChangeAsset
  <2>2. edits' # edits
    BY <1>1 DEF MaintainerNext, MoveTag, PublishEmpty, TogglePrerelease, DeleteRelease, ChangeAsset,
                Edit, ReleaseTypeOK
  <2> QED BY <2>1, <2>2 DEF Edited
<1>2. CASE RunNext
  <2>1. PICK r \in Runs :
          \/ Inspect(r) \/ Retry(r) \/ Look(r) \/ Create(r) \/ Upload(r)
          \/ \E name \in Names : UploadAsset(r, name)
          \/ Again(r) \/ Download(r) \/ Verified(r) \/ Fail(r)
    BY <1>2 DEF RunNext
  <2>2. UNCHANGED <<edits, tag>>
    BY <2>1 DEF Inspect, Retry, Look, Create, Upload, UploadAsset, Again, Download, Verified, Fail,
                Require, Stay
  <2>3. status' \in {status, "final"} /\ (status' # status => status = "absent")
    BY <2>1 DEF Inspect, Retry, Look, Create, Upload, UploadAsset, Again, Download, Verified, Fail,
                Require, Stay
  <2>4. \A name \in Names : assets[name] # None => assets'[name] = assets[name]
    <3>1. CASE \E name \in Names : UploadAsset(r, name)
      BY <3>1 DEF UploadAsset, Refused, ReleaseTypeOK
    <3>2. CASE ~\E name \in Names : UploadAsset(r, name)
      BY <2>1, <3>2 DEF Inspect, Retry, Look, Create, Upload, Again, Download, Verified, Fail,
                        Require, Stay
    <3> QED BY <3>1, <3>2
  <2> QED BY <2>2, <2>3, <2>4 DEF Edited
<1> QED BY <1>1, <1>2 DEF ReleaseNext

(* What the ghosts do in any step.                                          *)
LEMMA GhostsMove ==
  ASSUME Next
  PROVE  /\ witnessed \subseteq witnessed' /\ ShownNoted' /\ SinceZero'
         /\ since' = IF job'.step \in Reading THEN since + (IF Edited THEN 1 ELSE 0) ELSE 0
         /\ crowded => crowded'
         /\ job.version = 2 /\ job'.step = "observe" /\ since > Bearable => crowded'
BY DEF Next, ShownNoted, SinceZero

(* What a merge, a push or a person may leave on main and on the branches   *)
(* was there or is the job's candidate.                                     *)
LEMMA PublicStays ==
  ASSUME PublicOnce, Next,
         \A v \in Versions : branch'[v] # None =>
           \/ branch[v] # None /\ branch'[v].entry = branch[v].entry
           \/ /\ branch'[v].entry.version = 2
                 => crowded \/ <<branch'[v].entry.source, branch'[v].entry.wheel>> \in witnessed,
         mainEntry' = mainEntry \/ \E v \in Versions : branch[v] # None /\ mainEntry' = branch[v].entry
  PROVE  PublicOnce'
<1>1. witnessed \subseteq witnessed' /\ (crowded => crowded')
  BY GhostsMove
<1>2. SUFFICES ASSUME ~crowded PROVE PublicOnce'
  BY <1>1 DEF PublicOnce
<1>3. ASSUME NEW v \in Versions, branch[v] # None
      PROVE  branch[v].entry.version = 2 => <<branch[v].entry.source, branch[v].entry.wheel>> \in witnessed
  BY <1>2, <1>3 DEF PublicOnce
<1>4. mainEntry.version = 2 => <<mainEntry.source, mainEntry.wheel>> \in witnessed
  BY <1>2 DEF PublicOnce
<1>5. mainEntry'.version = 2 => <<mainEntry'.source, mainEntry'.wheel>> \in witnessed
  BY <1>3, <1>4
<1>6. ASSUME NEW v \in Versions, branch'[v] # None
      PROVE  branch'[v].entry.version = 2 => <<branch'[v].entry.source, branch'[v].entry.wheel>> \in witnessed
  BY <1>2, <1>3, <1>6
<1> QED BY <1>1, <1>5, <1>6 DEF PublicOnce

(* While the release moves on its own, the job is where it was.             *)
LEMMA ReleaseKeepsReading ==
  ASSUME PInv, CInv, AbsentIsEmpty, Counted, ReleaseTypeOK', Next, ReleaseNext, UNCHANGED catalogueVars
  PROVE  ReadSince'
<1> SUFFICES ASSUME job.version = 2, job.step \in Reading, ReadSince PROVE ReadSince'
  BY DEF catalogueVars, PInv, ReadSince
<1> DEFINE E == job.evidence
           W == job.entry.wheel
<1>1. /\ \A name \in Names : E[name] # None
      /\ E["wheel"] = E["zip"] => Noted(E["wheel"])
      /\ since = 0 => assets = E /\ status = "final" /\ tag = job.entry.source
      /\ since = 1 /\ assets # E => tag = job.entry.source /\ status # "prerelease"
      /\ \A name \in Names : HasRead(name) => W # None /\ (since \in {0, 1} => W \in {E[name], assets[name]})
      /\ job.step = "readback" /\ since = 2 /\ E["wheel"] = E["zip"] => W \in {E["zip"], assets["zip"]} \/ Noted(W)
  BY DEF ReadSince
<1>2. /\ job' = job /\ witnessed \subseteq witnessed'
      /\ since' = since + (IF Edited THEN 1 ELSE 0)
  BY GhostsMove DEF catalogueVars
<1>3. \A bytes : Noted(bytes) => Noted(bytes)'
  BY <1>2 DEF Noted
<1>4. \A name \in Names : HasRead(name)' = HasRead(name)
  BY <1>2 DEF HasRead
<1>5. since \in Nat /\ ReleaseTypeOK /\ E \in [Names -> Bytes \cup {None, OldBytes}]
  BY DEF Counted, CInv, CatalogueTypeOK, Jobs
<1>6. assets \in [Names -> Bytes \cup {None}] /\ assets' \in [Names -> Bytes \cup {None}]
  BY <1>5 DEF ReleaseTypeOK
<1> HIDE DEF E, W
<1>7. CASE UNCHANGED <<tag, status, assets>> /\ ~Edited
  <2>1. since' = since /\ assets' = assets /\ tag' = tag /\ status' = status
    BY <1>2, <1>5, <1>7
  <2> QED BY <1>1, <1>2, <1>3, <1>4, <2>1 DEF ReadSince, E, W
<1>8. CASE /\ ~Edited /\ tag' = tag /\ status' \in {status, "final"}
           /\ status' # status => status = "absent"
           /\ \A name \in Names : assets[name] # None => assets'[name] = assets[name]
  <2>1. since' = since
    BY <1>2, <1>5, <1>8
  <2>2. assets = E => assets' = E
    BY <1>1, <1>5, <1>6, <1>8
  <2>3. \A name \in Names : \A bytes : bytes # None /\ assets[name] = bytes => assets'[name] = bytes
    BY <1>8
  <2>4. "zip" \in Names
    BY DEF Names
  <2>5. since = 0 => assets' = E /\ status' = "final" /\ tag' = job.entry.source
    BY <1>1, <1>8, <2>2
  <2>6. since = 1 /\ assets' # E => tag' = job.entry.source /\ status' # "prerelease"
    BY <1>1, <1>8, <2>2
  <2>7. \A name \in Names : HasRead(name) => W # None /\ (since \in {0, 1} => W \in {E[name], assets'[name]})
    BY <1>1, <2>3
  <2>8. job.step = "readback" => HasRead("zip")
    BY DEF HasRead
  <2>9. job.step = "readback" /\ since = 2 /\ E["wheel"] = E["zip"]
          => W \in {E["zip"], assets'["zip"]} \/ Noted(W)
    BY <1>1, <2>3, <2>4, <2>8
  <2> QED BY <1>1, <1>2, <1>3, <1>4, <2>1, <2>5, <2>6, <2>7, <2>9 DEF ReadSince, E, W
<1>9. CASE Edited /\ (assets' = assets \/ (tag' = tag /\ status' \in {status, "absent"}))
  <2>1. since' = since + 1
    BY <1>2, <1>9
  <2>2. since' # 0 /\ (since' = 1 => since = 0) /\ (since' = 2 => since = 1) /\ since' \notin {0}
    BY <1>5, <2>1
  <2>3. since' = 1 /\ assets' # E => tag' = job.entry.source /\ status' # "prerelease"
    BY <1>1, <1>9, <2>2
  <2>4. \A name \in Names : HasRead(name) => W # None /\ (since' \in {0, 1} => W \in {E[name], assets'[name]})
    BY <1>1, <2>2
  <2>5. ASSUME job.step = "readback", since' = 2, E["wheel"] = E["zip"], W # E["zip"]
        PROVE  Noted(W)
    <3>1. HasRead("wheel") /\ HasRead("zip") /\ "wheel" \in Names /\ "zip" \in Names /\ since = 1
      BY <2>2, <2>5 DEF HasRead, Names
    <3>2. W # None /\ assets["wheel"] = W /\ assets["zip"] = W
      BY <1>1, <2>5, <3>1
    <3>3. assets # E /\ assets # Empty
      BY <2>5, <3>1, <3>2 DEF Empty
    <3>4. tag = job.entry.source /\ status = "final"
      BY <1>1, <1>5, <3>1, <3>3 DEF AbsentIsEmpty, ReleaseTypeOK
    <3>5. <<tag, W>> \in Shown
      BY <3>2, <3>4 DEF Shown, Complete, Names
    <3> QED BY <3>4, <3>5 DEF PInv, ShownNoted, Noted
  <2> QED BY <1>1, <1>2, <1>3, <1>4, <2>2, <2>3, <2>4, <2>5 DEF ReadSince, E, W
<1> QED BY <1>5, <1>7, <1>8, <1>9, ReleaseMoves

LEMMA ReleaseKeepsPublic ==
  ASSUME PInv, CInv, AbsentIsEmpty, Counted, ReleaseTypeOK', Next, ReleaseNext, UNCHANGED catalogueVars
  PROVE  PInv'
<1>1. HasRelease'
  BY GhostsMove DEF PInv, HasRelease, Noted, catalogueVars
<1>2. PublicOnce'
  BY PublicStays DEF PInv, catalogueVars
<1> QED BY <1>1, <1>2, GhostsMove, ReleaseKeepsReading DEF PInv

-----------------------------------------------------------------------------
(* While a job or a person moves, the release is where it was.              *)
LEMMA StillShown ==
  ASSUME ReleaseTypeOK, JobNext \/ CatalogueNext PROVE UNCHANGED <<tag, status, assets>> /\ ~Edited
BY DEF JobNext, Prepare, Evidence, DownloadWheel, DownloadBundle, Readback, Observe, CheckMain,
       ListPulls, Push, Landed, Propose, Confirm, Stop, Step, releaseVars, CatalogueNext, OtherWork,
       Merge, PersonPushes, PersonCloses, Other, Elsewhere, Edited

LEMMA PeopleKeepPublic ==
  ASSUME PInv, CInv, Counted, Next, CatalogueNext
  PROVE  PInv'
<1>1. UNCHANGED <<tag, status, assets, job>> /\ ~Edited
  BY StillShown DEF CInv, CatalogueNext, OtherWork, Merge, PersonPushes, PersonCloses, Other
<1>2. since' = IF job.step \in Reading THEN since ELSE 0
  BY <1>1, GhostsMove DEF Counted
<1>3. ReadSince'
  BY <1>1, <1>2, GhostsMove DEF PInv, ReadSince, Noted, HasRead
<1>4. HasRelease'
  BY <1>1, GhostsMove DEF PInv, HasRelease, Noted
<1>5. PublicOnce'
  <2>1. branch \in [Versions -> Commits \cup {None}]
    BY DEF CInv, CatalogueTypeOK
  <2>2. ASSUME NEW v \in Versions, branch'[v] # None
        PROVE  branch[v] # None /\ branch'[v].entry = branch[v].entry
    <3>1. CASE \E u \in Versions : PersonPushes(u)
      <4>1. PICK u \in Versions : PersonPushes(u)
        BY <3>1
      <4>2. branch[u] \in Commits /\ branch[u] # None /\ branch' = [branch EXCEPT ![u].by = "person"]
        BY <2>1, <4>1 DEF PersonPushes
      <4>3. [branch[u] EXCEPT !.by = "person"].entry = branch[u].entry
        BY <4>2 DEF Commits
      <4> QED BY <2>1, <2>2, <4>2, <4>3
    <3>2. CASE ~\E u \in Versions : PersonPushes(u)
      BY <2>1, <2>2, <3>2 DEF CatalogueNext, OtherWork, Merge, PersonCloses
    <3> QED BY <3>1, <3>2
  <2>3. mainEntry' = mainEntry \/ \E v \in Versions : branch[v] # None /\ mainEntry' = branch[v].entry
    BY DEF CatalogueNext, OtherWork, Merge, PersonPushes, PersonCloses
  <2> QED BY <2>2, <2>3, PublicStays DEF PInv
<1> QED BY <1>3, <1>4, <1>5, GhostsMove DEF PInv

(* A job that is over, or that has not begun to read.                       *)
LEMMA AsideKeepsPublic ==
  ASSUME PInv, CInv, Next, job'.step \in Over \cup {"evidence"},
         job'.step \notin Over => job'.entry.version = job'.version, UNCHANGED <<mainEntry, branch>>
  PROVE  PInv'
<1>1. ReadSince' /\ HasRelease'
  BY DEF ReadSince, HasRelease, Reading, Over, Checked
<1>2. PublicOnce'
  BY PublicStays DEF PInv
<1> QED BY <1>1, <1>2, GhostsMove DEF PInv

(* verify_release: what the evidence shows is what is there.                *)
LEMMA EvidenceKeepsPublic ==
  ASSUME PInv, CInv, Counted, Next, Evidence
  PROVE  PInv'
<1>1. job \in Jobs /\ UNCHANGED <<tag, status, assets, mainEntry, branch>> /\ job.step = "evidence"
  BY StillShown DEF CInv, CatalogueTypeOK, Evidence, Step, Remote, JobNext
<1>2. CASE ~(Final(job.version) /\ TagOf(job.version) = job.entry.source)
  <2>1. job'.step = "stopped"
    BY <1>2 DEF Evidence, Step, NoJob
  <2> QED BY <1>1, <2>1, AsideKeepsPublic DEF Over
<1>3. CASE Final(job.version) /\ TagOf(job.version) = job.entry.source
  <2>1. job' = [job EXCEPT !.step = "wheel", !.evidence = AssetsOf(job.version)]
    BY <1>3 DEF Evidence, Step
  <2>2. /\ job'.step = "wheel" /\ job'.evidence = AssetsOf(job.version)
        /\ job'.version = job.version /\ job'.entry = job.entry
    BY <1>1, <2>1 DEF Jobs
  <2>3. since' = 0
    <3>1. ~Edited
      BY StillShown DEF CInv, JobNext
    <3>2. since = 0
      BY <1>1 DEF PInv, SinceZero, Reading
    <3> QED BY <2>2, <3>1, <3>2, GhostsMove DEF Reading
  <2>4. ReadSince'
    <3> SUFFICES ASSUME job.version = 2 PROVE ReadSince'
      BY <2>2 DEF ReadSince
    <3>1. status = "final" /\ Complete /\ tag = job.entry.source /\ job'.evidence = assets
      BY <1>3, <2>2 DEF Final, TagOf, AssetsOf
    <3>2. assets["wheel"] = assets["zip"] => Noted(assets["wheel"])
      BY <3>1 DEF PInv, ShownNoted, Shown, Noted
    <3>3. assets["wheel"] = assets["zip"] => Noted(assets["wheel"])'
      BY <1>1, <2>2, <3>2, GhostsMove DEF Noted
    <3>4. ~HasRead("wheel")' /\ ~HasRead("zip")'
      BY <2>2 DEF HasRead
    <3> QED BY <1>1, <2>2, <2>3, <3>1, <3>3, <3>4 DEF ReadSince, Complete, Names
  <2>5. HasRelease'
    BY <1>1, <2>2 DEF PInv, HasRelease, Over, Checked
  <2>6. PublicOnce'
    BY <1>1, PublicStays DEF PInv
  <2> QED BY <2>4, <2>5, <2>6, GhostsMove DEF PInv
<1> QED BY <1>2, <1>3

LEMMA WheelKeepsPublic ==
  ASSUME PInv, CInv, Counted, Next, DownloadWheel
  PROVE  PInv'
<1>1. job \in Jobs /\ UNCHANGED <<tag, status, assets, mainEntry, branch>> /\ ~Edited /\ job.step = "wheel"
  BY StillShown DEF CInv, CatalogueTypeOK, DownloadWheel, Step, Remote, JobNext
<1> DEFINE wheel == AssetsOf(job.version)["wheel"]
<1>2. CASE wheel = None
  <2>1. job'.step = "stopped"
    BY <1>2 DEF DownloadWheel, Step, NoJob
  <2> QED BY <1>1, <2>1, AsideKeepsPublic DEF Over
<1>3. CASE wheel # None
  <2>1. job' = [job EXCEPT !.step = "bundle", !.entry.wheel = wheel]
    BY <1>3 DEF DownloadWheel, Step
  <2>2. /\ job'.step = "bundle" /\ job'.evidence = job.evidence /\ job'.version = job.version
        /\ job'.entry.source = job.entry.source /\ job'.entry.version = job.entry.version
        /\ job'.entry.wheel = wheel
    BY <1>1, <2>1 DEF Jobs, Entries
  <2>3. since' = since
    BY <1>1, <2>2, GhostsMove DEF Reading, Counted
  <2>4. \A bytes : Noted(bytes) => Noted(bytes)'
    BY <2>2, GhostsMove DEF Noted
  <2>5. ReadSince'
    <3> SUFFICES ASSUME job.version = 2 PROVE ReadSince'
      BY <2>2 DEF ReadSince
    <3>1. wheel = assets["wheel"]
      BY DEF AssetsOf
    <3>2. \A name \in Names : HasRead(name)' => name = "wheel"
      BY <2>2 DEF HasRead
    <3> HIDE DEF wheel
    <3> QED BY <1>1, <1>3, <2>2, <2>3, <2>4, <3>1, <3>2 DEF PInv, ReadSince, Reading
  <2>6. HasRelease'
    BY <1>1, <2>2 DEF PInv, HasRelease, Over, Checked
  <2>7. PublicOnce'
    BY <1>1, PublicStays DEF PInv
  <2> QED BY <2>5, <2>6, <2>7, GhostsMove DEF PInv
<1> QED BY <1>2, <1>3

LEMMA BundleKeepsPublic ==
  ASSUME PInv, CInv, Counted, Next, DownloadBundle
  PROVE  PInv'
<1>1. job \in Jobs /\ UNCHANGED <<tag, status, assets, mainEntry, branch>> /\ ~Edited /\ job.step = "bundle"
  BY StillShown DEF CInv, CatalogueTypeOK, DownloadBundle, Step, Remote, JobNext
<1>2. CASE AssetsOf(job.version)["zip"] # job.entry.wheel
  <2>1. job'.step = "stopped"
    BY <1>2 DEF DownloadBundle, Step, NoJob
  <2> QED BY <1>1, <2>1, AsideKeepsPublic DEF Over
<1>3. CASE AssetsOf(job.version)["zip"] = job.entry.wheel
  <2>1. job' = [job EXCEPT !.step = "readback"]
    BY <1>3 DEF DownloadBundle, Step
  <2>2. /\ job'.step = "readback" /\ job'.evidence = job.evidence /\ job'.version = job.version
        /\ job'.entry = job.entry
    BY <1>1, <2>1 DEF Jobs
  <2>3. since' = since
    BY <1>1, <2>2, GhostsMove DEF Reading, Counted
  <2>4. \A bytes : Noted(bytes) => Noted(bytes)'
    BY <2>2, GhostsMove DEF Noted
  <2>5. ReadSince'
    <3> SUFFICES ASSUME job.version = 2 PROVE ReadSince'
      BY <2>2 DEF ReadSince
    <3>1. job.entry.wheel = assets["zip"]
      BY <1>3 DEF AssetsOf
    <3>2. HasRead("wheel")
      BY <1>1 DEF HasRead
    <3>3. Names = {"wheel", "zip"}
      BY DEF Names
    <3> QED BY <1>1, <2>2, <2>3, <2>4, <3>1, <3>2, <3>3 DEF PInv, ReadSince, Reading
  <2>6. HasRelease'
    BY <1>1, <2>2 DEF PInv, HasRelease, Over, Checked
  <2>7. PublicOnce'
    BY <1>1, PublicStays DEF PInv
  <2> QED BY <2>5, <2>6, <2>7, GhostsMove DEF PInv
<1> QED BY <1>2, <1>3

(* The read-back: the evidence is there again.                              *)
LEMMA ReadbackKeepsPublic ==
  ASSUME PInv, CInv, Counted, Next, Readback
  PROVE  PInv'
<1>1. job \in Jobs /\ UNCHANGED <<tag, status, assets, mainEntry, branch>> /\ job.step = "readback"
  BY StillShown DEF CInv, CatalogueTypeOK, Readback, Step, Remote, JobNext
<1>2. CASE ~SameRelease
  <2>1. job'.step = "stopped"
    BY <1>2 DEF Readback, Step, NoJob
  <2> QED BY <1>1, <2>1, AsideKeepsPublic DEF Over
<1>3. CASE SameRelease
  <2>1. job' = [job EXCEPT !.step = "observe"]
    BY <1>3 DEF Readback, Step
  <2>2. job'.step = "observe" /\ job'.version = job.version /\ job'.entry = job.entry
    BY <1>1, <2>1 DEF Jobs
  <2>3. ReadSince'
    BY <2>2 DEF ReadSince, Reading
  <2>4. ASSUME job.version = 2, ~(since > Bearable) PROVE Noted(job.entry.wheel)
    <3>1. assets = job.evidence
      BY <1>3, <2>4 DEF SameRelease, AssetsOf
    <3>2. HasRead("wheel") /\ HasRead("zip") /\ "wheel" \in Names /\ "zip" \in Names
      BY <1>1 DEF HasRead, Names
    <3>3. since \in {0, 1} \/ (since = 2 /\ job.evidence["wheel"] = job.evidence["zip"])
      BY <2>4 DEF Bearable, Counted
    <3> QED BY <1>1, <2>4, <3>1, <3>2, <3>3 DEF PInv, ReadSince, Reading
  <2>5. job.version = 2 => crowded' \/ Noted(job.entry.wheel)'
    <3>1. Noted(job.entry.wheel) => Noted(job.entry.wheel)'
      BY <2>2, GhostsMove DEF Noted
    <3> QED BY <2>2, <2>4, <3>1, GhostsMove
  <2>6. HasRelease'
    BY <1>1, <2>2, <2>5 DEF PInv, HasRelease, Over
  <2>7. PublicOnce'
    BY <1>1, PublicStays DEF PInv
  <2> QED BY <2>3, <2>6, <2>7, GhostsMove DEF PInv
<1> QED BY <1>2, <1>3

(* From upsert to the end the job carries its entry, and a push leaves it   *)
(* on the branch.                                                           *)
LEMMA CarriesKeepsPublic ==
  ASSUME PInv, CInv, Next, job \in Jobs, job.step \in {"observe"} \cup Checked,
         \/ job'.step \in Over
         \/ job'.step \in Checked /\ job'.version = job.version /\ job'.entry = job.entry,
         mainEntry' = mainEntry, \A v \in Versions : branch'[v] \in {branch[v], Candidate}
  PROVE  PInv'
<1>1. ReadSince'
  BY DEF ReadSince, Reading, Over, Checked
<1>2. HasRelease'
  <2>1. CASE job'.step \in Over
    BY <2>1 DEF HasRelease, Over, Checked
  <2>2. CASE job'.step \in Checked /\ job'.version = job.version /\ job'.entry = job.entry
    <3>1. job.step \notin Over
      BY DEF Over, Checked
    <3>2. job.version = 2 => crowded \/ Noted(job.entry.wheel)
      BY DEF PInv, HasRelease
    <3>3. job.version = 2 => crowded' \/ Noted(job.entry.wheel)'
      BY <2>2, <3>2, GhostsMove DEF Noted
    <3> QED BY <2>2, <3>1, <3>3 DEF PInv, HasRelease
  <2> QED BY <2>1, <2>2
<1>3. PublicOnce'
  <2>1. Candidate.entry = job.entry
    BY DEF Candidate
  <2>2. job.entry.version = 2 => crowded \/ <<job.entry.source, job.entry.wheel>> \in witnessed
    BY DEF PInv, HasRelease, Noted, Over, Checked
  <2> QED BY <2>1, <2>2, PublicStays DEF PInv
<1> QED BY <1>1, <1>2, <1>3, GhostsMove DEF PInv

LEMMA JobKeepsPublic ==
  ASSUME PInv, CInv, Counted, Next, JobNext
  PROVE  PInv'
<1>1. job \in Jobs /\ mainEntry' = mainEntry
  BY DEF CInv, CatalogueTypeOK, JobNext, Prepare, Evidence, DownloadWheel, DownloadBundle, Readback,
         Observe, CheckMain, ListPulls, Push, Landed, Propose, Confirm, Stop, Step
<1>2. CASE \E v \in Versions : Prepare(v)
  <2>1. PICK v \in Versions : Prepare(v)
    BY <1>2
  <2>2. branch' = branch
    BY <2>1 DEF Prepare
  <2>3. job'.step \in Over \/ (job'.step = "evidence" /\ job'.entry.version = job'.version)
    BY <2>1 DEF Prepare, NoJob, Over, Entry
  <2> QED BY <1>1, <2>2, <2>3, AsideKeepsPublic
<1>3. CASE Stop
  <2>1. job'.step = "stopped" /\ branch' = branch
    BY <1>3 DEF Stop, NoJob
  <2> QED BY <1>1, <2>1, AsideKeepsPublic DEF Over
<1>4. CASE Observe \/ CheckMain \/ ListPulls \/ Push \/ Landed \/ Propose \/ Confirm
  <2>1. job.step \in {"observe"} \cup Checked
    BY <1>4 DEF Observe, CheckMain, ListPulls, Push, Landed, Propose, Confirm, Step, Checked
  <2>2. \/ job'.step \in Over
        \/ job'.step \in Checked /\ job'.version = job.version /\ job'.entry = job.entry
    BY <1>1, <1>4 DEF Observe, CheckMain, ListPulls, Push, Landed, Propose, Confirm, Step, Checked,
                      Over, NoJob, Jobs
  <2>3. \A v \in Versions : branch'[v] \in {branch[v], Candidate}
    BY <1>4 DEF Observe, CheckMain, ListPulls, Push, Landed, Propose, Confirm, Remote, CInv,
                CatalogueTypeOK
  <2> QED BY <1>1, <2>1, <2>2, <2>3, CarriesKeepsPublic
<1> QED BY <1>2, <1>3, <1>4, EvidenceKeepsPublic, WheelKeepsPublic, BundleKeepsPublic,
           ReadbackKeepsPublic DEF JobNext

LEMMA StutterKeepsPublic == ASSUME PInv, UNCHANGED vars PROVE PInv'
BY DEF vars, catalogueVars, releaseVars, ghosts, PInv, ShownNoted, SinceZero, ReadSince, HasRelease,
       PublicOnce, Shown, Complete, Noted, HasRead

(* What main and the branches say of the release was public at one moment,  *)
(* for any number of runs, sources, edits, retries and jobs.                *)
THEOREM PublicOnceHolds == Spec => []PublicOnce
<1>1. Init => PInv
  BY PublicInit
<1>2. PInv /\ CInv /\ IInv /\ Counted /\ ReleaseTypeOK' /\ [Next]_vars => PInv'
  BY ReleaseKeepsPublic, JobKeepsPublic, PeopleKeepPublic, StutterKeepsPublic DEF Next, IInv
<1>3. PInv => PublicOnce
  BY DEF PInv
<1> QED BY <1>1, <1>2, <1>3, Implements, ReleaseInvariant, CatalogueInvariant, CountedHolds, ReleaseTypes,
           PTL DEF Spec

=============================================================================
