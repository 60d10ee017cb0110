------------------------------- MODULE Catalogue -------------------------------
(***************************************************************************)
(* The Propose workflow beside the release it proposes: prepare verifies   *)
(* the public release against the catalogue's main, push_candidate pushes  *)
(* a branch under a lease and publish opens or updates its pull request.   *)
(* Jobs of all versions are serialised: one at a time runs.  Main moves by *)
(* merges, people push to the branch, close the pull request and merge     *)
(* other work, and a job may fail at any step.                             *)
(*                                                                         *)
(* Version 2 is Release's, version 1 an earlier release nobody edits.  A   *)
(* commit is its base, the entry of its base and its own entry; the policy *)
(* of the catalogue merges a pull request whose entry does not conflict.   *)
(***************************************************************************)
EXTENDS Release

CONSTANTS
  ManualRuns,  \* runs dispatched by hand on main: their head is not the source
  OldSource,   \* the source of the earlier release
  MaxJobs      \* proposal jobs

ASSUME CatalogueAssumption ==
  ManualRuns \subseteq Runs /\ OldSource \notin Sources /\ MaxJobs \in Nat

VARIABLES
  mainSha,   \* the number of commits on main
  mainEntry, \* NOMAD's entry on main
  branch,    \* the tip of each version's branch, or None
  pr,        \* "none", "open" or "closed": the pull request of each branch
  job,       \* the proposal job
  jobs,
  witnessed, \* ghost: sources and wheels that a complete public release had
  since,     \* ghost: edits of the release since the job read its evidence
  crowded    \* ghost: a verification has passed that too many edits met

catalogueVars == <<mainSha, mainEntry, branch, pr, job, jobs>>
ghosts == <<witnessed, since, crowded>>
vars == <<releaseVars, catalogueVars, ghosts>>

Versions == {1, 2}
OldBytes == [run |-> "maintainer", source |-> OldSource]
Entry(v, source, wheel) == [version |-> v, source |-> source, wheel |-> wheel]
Entries == [version : 0..2, source : Sources \cup {OldSource}, wheel : Bytes \cup {None, OldBytes}]
Commits == [base : 0..MaxEdits + MaxJobs, from : Entries, entry : Entries,
            by : {"publisher", "person"}]

Over == {"idle", "proposed", "unchanged", "stopped"}
JobSteps == Over \cup {"evidence", "wheel", "bundle", "readback", "observe",
                       "main", "pulls", "push", "landed", "propose", "confirm"}
First == [version |-> 0, source |-> OldSource, wheel |-> OldBytes]
NoJob == [step |-> "idle", version |-> 1, base |-> 0, from |-> First, evidence |-> Empty,
          entry |-> First, lease |-> None, known |-> FALSE]

(* Every variable has the type its comment announces.                       *)
TypeOK ==
  /\ ReleaseTypeOK
  /\ mainSha \in 0..MaxEdits + MaxJobs /\ mainEntry \in Entries
  /\ branch \in [Versions -> Commits \cup {None}]
  /\ pr \in [Versions -> {"none", "open", "closed"}]
  /\ job \in [step : JobSteps, version : Versions, base : 0..MaxEdits + MaxJobs,
              from : Entries, evidence : [Names -> Bytes \cup {None, OldBytes}], entry : Entries,
              lease : Commits \cup {None}, known : BOOLEAN]
  /\ jobs \in 0..MaxJobs
  /\ witnessed \subseteq Sources \X Bytes /\ since \in 0..MaxEdits /\ crowded \in BOOLEAN

Init ==
  /\ ReleaseInit
  /\ mainSha = 0 /\ mainEntry = First
  /\ branch = [v \in Versions |-> None] /\ pr = [v \in Versions |-> "none"]
  /\ job = NoJob /\ jobs = 0
  /\ witnessed = {} /\ since = 0 /\ crowded = FALSE

-----------------------------------------------------------------------------
(* What the public release of a version shows at this moment.               *)

TagOf(v) == IF v = 2 THEN tag ELSE OldSource
AssetsOf(v) == IF v = 2 THEN assets ELSE [name \in Names |-> OldBytes]
Final(v) == v = 2 => status = "final" /\ Complete   \* verify_release
Origin(v) ==  \* a successful Build Wheel run bound to the tag and its source
  v = 2 => \E r \in Runs : pc[r] \in Succeeded /\ (sha[r] = tag \/ r \in ManualRuns)

(* One step of the job: the condition it requires, and what it learns.      *)
Step(from, condition, learnt) ==
  /\ job.step = from
  /\ job' = IF condition THEN learnt ELSE [NoJob EXCEPT !.step = "stopped"]
  /\ UNCHANGED <<releaseVars, mainSha, mainEntry, jobs>>
Remote == UNCHANGED <<branch, pr>>

-----------------------------------------------------------------------------
(* prepare, and the wheel and bundle reads of public_release.               *)

Prepare(v) ==   \* main as checked out, trusted_source, origin
  /\ job.step \in Over /\ jobs < MaxJobs
  /\ jobs' = jobs + 1
  /\ job' = IF Origin(v)
            THEN [NoJob EXCEPT !.step = "evidence", !.version = v, !.base = mainSha,
                    !.from = mainEntry, !.entry = Entry(v, TagOf(v), First.wheel)]
            ELSE [NoJob EXCEPT !.step = "stopped"]
  /\ UNCHANGED <<releaseVars, mainSha, mainEntry, branch, pr>>

Evidence ==     \* verify_release
  Step("evidence", Final(job.version) /\ TagOf(job.version) = job.entry.source,
       [job EXCEPT !.step = "wheel", !.evidence = AssetsOf(job.version)]) /\ Remote

DownloadWheel ==
  Step("wheel", AssetsOf(job.version)["wheel"] # None,
       [job EXCEPT !.step = "bundle", !.entry.wheel = AssetsOf(job.version)["wheel"]]) /\ Remote

DownloadBundle ==  \* verify_bundle
  Step("bundle", AssetsOf(job.version)["zip"] = job.entry.wheel,
       [job EXCEPT !.step = "readback"]) /\ Remote

SameReleaseNot == TRUE  \* mutant of SameRelease: the release is not read back
SameRelease ==
  /\ Final(job.version) /\ TagOf(job.version) = job.entry.source
  /\ AssetsOf(job.version) = job.evidence
Readback == Step("readback", SameRelease, [job EXCEPT !.step = "observe"]) /\ Remote

(* upsert against the checked out entry, then the branch as it is now.      *)
UpsertAnything(base, entry) == TRUE  \* mutant of Upsert: any release replaces the entry
Upsert(base, entry) ==
  entry.version >= base.version /\ (entry.version = base.version => entry = base)
Observe ==
  Step("observe", Upsert(job.from, job.entry),
       IF job.entry = job.from THEN [NoJob EXCEPT !.step = "unchanged"]
       ELSE [job EXCEPT !.step = "main", !.lease = branch[job.version], !.evidence = Empty]) /\ Remote

-----------------------------------------------------------------------------
(* publish and push_candidate.                                              *)

CheckMain == Step("main", mainSha = job.base, [job EXCEPT !.step = "pulls"]) /\ Remote
ListPulls ==
  Step("pulls", TRUE, [job EXCEPT !.step = "push", !.known = pr[job.version] = "open"]) /\ Remote

Candidate == [base |-> job.base, from |-> job.from, entry |-> job.entry, by |-> "publisher"]
Leased == branch[job.version] = job.lease
Push ==
  /\ Step("push", Leased, [job EXCEPT !.step = "landed"])
  /\ branch' = IF Leased THEN [branch EXCEPT ![job.version] = Candidate] ELSE branch
  /\ UNCHANGED pr
Landed ==     \* the branch read back
  Step("landed", branch[job.version] = Candidate, [job EXCEPT !.step = "propose"]) /\ Remote

(* PATCH of the pull request that was open, or POST of a new one, which     *)
(* GitHub refuses when one is open or the branch is gone.                   *)
Opens == branch[job.version] # None /\ pr[job.version] # "open"
Propose ==
  /\ Step("propose", job.known \/ Opens, [job EXCEPT !.step = "confirm"])
  /\ pr' = IF job.known \/ ~Opens THEN pr ELSE [pr EXCEPT ![job.version] = "open"]
  /\ UNCHANGED branch
Live == pr[job.version] = "open" /\ branch[job.version] = Candidate
Confirm == Step("confirm", Live, [NoJob EXCEPT !.step = "proposed"]) /\ Remote

(* An API error, a failing destination test, a cancelled job.               *)
Stop ==
  /\ job.step \notin Over /\ job' = [NoJob EXCEPT !.step = "stopped"]
  /\ UNCHANGED <<releaseVars, mainSha, mainEntry, branch, pr, jobs>>

-----------------------------------------------------------------------------
(* The catalogue: merges by its own policy, and people.                     *)

Other == Elsewhere /\ UNCHANGED <<job, jobs>>   \* in the bound of the release's edits
Merge(v) ==
  /\ pr[v] = "open" /\ branch[v] # None /\ branch[v].from = mainEntry
  /\ mainSha < MaxEdits + MaxJobs
  /\ mainSha' = mainSha + 1 /\ mainEntry' = branch[v].entry
  /\ pr' = [pr EXCEPT ![v] = "closed"]
  /\ branch' \in {branch, [branch EXCEPT ![v] = None]}
  /\ UNCHANGED <<releaseVars, job, jobs>>
OtherWork ==
  /\ Other /\ mainSha < MaxEdits + MaxJobs /\ mainSha' = mainSha + 1
  /\ UNCHANGED <<mainEntry, branch, pr>>
PersonPushes(v) ==
  /\ Other /\ branch[v] # None /\ branch' = [branch EXCEPT ![v].by = "person"]
  /\ UNCHANGED <<mainSha, mainEntry, pr>>
PersonCloses(v) ==
  /\ Other /\ pr[v] = "open" /\ pr' = [pr EXCEPT ![v] = "closed"]
  /\ UNCHANGED <<mainSha, mainEntry, branch>>

JobNext ==
  \/ \E v \in Versions : Prepare(v)
  \/ Evidence \/ DownloadWheel \/ DownloadBundle \/ Readback \/ Observe
  \/ CheckMain \/ ListPulls \/ Push \/ Landed \/ Propose \/ Confirm \/ Stop
CatalogueNext ==
  OtherWork \/ \E v \in Versions : Merge(v) \/ PersonPushes(v) \/ PersonCloses(v)

(* The ghosts: every moment at which the release is complete and its two    *)
(* files agree, and the edits that met a verification.  One edit is found   *)
(* or does no harm; two can replace a file and put it back unseen, and      *)
(* where the evidence was of one build that takes three.                    *)
Shown == IF status = "final" /\ Complete /\ assets["wheel"] = assets["zip"]
         THEN {<<tag, assets["wheel"]>>} ELSE {}
Reading == {"wheel", "bundle", "readback"}
Edited == edits' # edits /\ <<tag, status, assets>>' # <<tag, status, assets>>
Bearable == IF job.evidence["wheel"] = job.evidence["zip"] THEN 2 ELSE 1
Next ==
  /\ (ReleaseNext /\ UNCHANGED catalogueVars) \/ JobNext \/ CatalogueNext
  /\ witnessed' = witnessed \cup Shown'
  /\ since' = IF job'.step \in Reading THEN since + (IF Edited THEN 1 ELSE 0) ELSE 0
  /\ crowded' = (crowded \/ (job.version = 2 /\ job'.step = "observe" /\ since > Bearable))
Spec == Init /\ [][Next]_vars

-----------------------------------------------------------------------------
(* Tag, release, wheel and ZIP are read at four moments while maintainers   *)
(* edit; what a branch proposes or main approves still is what the public   *)
(* release really was at one moment, unless more edits than Bearable fell   *)
(* into the verification: a file can then be replaced and put back.         *)
PublicOnce ==
  crowded \/ \A entry \in {mainEntry} \cup {branch[v].entry : v \in {u \in Versions : branch[u] # None}} :
    entry.version = 2 => <<entry.source, entry.wheel>> \in witnessed

(* However proposals of two versions, merges and retries interleave, main   *)
(* never goes back to an older release and never changes what it approved.  *)
NoDowngrade ==
  [][mainEntry'.version >= mainEntry.version
     /\ (mainEntry'.version = mainEntry.version => mainEntry' = mainEntry)]_vars
=============================================================================
