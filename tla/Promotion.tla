------------------------------ MODULE Promotion ------------------------------
(***************************************************************************)
(* The check of a pull request that promotes an enforcement-health proof   *)
(* (enforcement_health_promotion.ts, enforcement_health_promotion_cli.ts,  *)
(* enforcement_health_github.ts and enforcement_health_record.ts of        *)
(* harness/src).  A hosted run measures the carrier and uploads it with    *)
(* its provenance; a pull request commits both and a row that names the    *)
(* run; the check asks GitHub and git, one call after the other, whether   *)
(* the three belong together.  While it waits the run may be re-run.       *)
(***************************************************************************)
EXTENDS ArtifactDownload, ExitCodes

CONSTANTS
  RunIds,       \* The hosted runs that exist; a row may name another.
  Carriers,     \* Contents of the carrier; equal digests are equal contents.
  Binaries,     \* Digests of the extracted binary.
  Commits,      \* Commits that a run was dispatched on.
  SurfaceOf,    \* The measurement surface in the tree of each.
  Recording,    \* Versions of the workflow that upload what record_cli wrote.
  OtherPairs,   \* What any other workflow may upload under the same name.
  BaseRows,     \* Rows of the trusted base.
  Heads,        \* Trees of the promoting head.
  MaxAttempts   \* Bound on the attempts of a run.

VARIABLES
  runs,     \* [run -> what GitHub knows of it]
  baseRow,  \* The row of the trusted base.
  head,     \* The tree that is promoted.
  pc,       \* The call that the check waits for.
  commit,   \* head_sha, as getRun() answered.
  files,    \* The pair that was downloaded.
  verdict,  \* The verdict, or Undecided.
  broke     \* Whether a call failed to answer.

checkVars == <<baseRow, head, pc, commit, files, verdict, broke>>
promotionVars == <<runs, checkVars, downloadVars>>

WORKFLOW_PATH == "harness-ci.yml"
PINNED_RELEASE_ASSET_DIGEST == "pinned"

(* MEASUREMENT_SURFACE_PATHS *)
WORKFLOW == "workflow"
PROBE == "probe script"
POLICY == "probe policy"

ASSUME PinnedAssumption == PINNED_RELEASE_ASSET_DIGEST \notin Carriers
ASSUME AttemptsAssumption == MaxAttempts \in Nat

Null == "null"        \* No conclusion yet, no run id, no committed files.
Garbled == [kind |-> "garbled"]  \* Provenance that is not JSON.
NoRow == [hosted_run |-> Null]
NoFiles == [carrier |-> Null, provenance |-> Garbled]
Undecided == [status |-> "none", code |-> Null]

NoAttempt == [path |-> Null, commit |-> Null, probe_only |-> FALSE,
              conclusion |-> Null, probe |-> Null, uploads |-> {},
              attempts |-> 0, clean |-> FALSE]

-----------------------------------------------------------------------------
(***************************************************************************)
(* GitHub: a run and its attempts.                                         *)
(***************************************************************************)
(* buildEnforcementHealthProvenance(), in the checkout of the run. *)
Recorded(r, carrier, binary) ==
  [hosted_run |-> r, binary |-> binary, fixture |-> SurfaceOf[runs[r].commit][POLICY],
   artifact |-> carrier, release |-> PINNED_RELEASE_ASSET_DIGEST]

RecordedPairs(r) ==
  {[carrier |-> c, provenance |-> Recorded(r, c, b)] :
     c \in Carriers, b \in Binaries \ {PINNED_RELEASE_ASSET_DIGEST}}

(* The workflow at the run's commit says what is uploaded, and by which job. *)
Recorder(r) ==
  runs[r].path = WORKFLOW_PATH /\ SurfaceOf[runs[r].commit][WORKFLOW] \in Recording

Uploadable(r) == IF Recorder(r) THEN RecordedPairs(r) ELSE OtherPairs

Dispatch(r, path, c, probe_only) ==
  /\ runs[r].attempts = 0
  /\ runs' = [runs EXCEPT ![r] = [runs[r] EXCEPT
                !.path = path, !.commit = c, !.probe_only = probe_only, !.attempts = 1]]

ReRun(r) ==
  /\ runs[r].attempts \in 1..MaxAttempts - 1
  /\ runs[r].conclusion # Null
  /\ runs' = [runs EXCEPT ![r] = [runs[r] EXCEPT
                !.conclusion = Null, !.probe = Null, !.attempts = @ + 1]]

(* The upload is the last step of the probe job. *)
ProbeSucceeds(r) ==
  /\ runs[r].attempts > 0 /\ runs[r].conclusion = Null
  /\ runs[r].probe_only
  /\ \E pair \in Uploadable(r), conclusion \in {"success", "failure"} :
       runs' = [runs EXCEPT ![r] = [runs[r] EXCEPT
                  !.conclusion = conclusion, !.probe = "success",
                  !.uploads = @ \cup {pair},
                  !.clean = @ \/ conclusion = "success"]]

(* The job fails, with or without its files uploaded. *)
ProbeFails(r) ==
  /\ runs[r].attempts > 0 /\ runs[r].conclusion = Null
  /\ runs[r].probe_only
  /\ \E left \in {{}} \cup {{pair} : pair \in Uploadable(r)} :
       runs' = [runs EXCEPT ![r] = [runs[r] EXCEPT
                  !.conclusion = "failure", !.probe = "failure",
                  !.uploads = @ \cup left]]

(* A run for another purpose skips the job; in another workflow some other *)
(* job may upload under the artifact's name.                               *)
ProbeSkipped(r) ==
  /\ runs[r].attempts > 0 /\ runs[r].conclusion = Null
  /\ ~runs[r].probe_only
  /\ \E conclusion \in {"success", "failure"},
        left \in {{}} \cup {{pair} : pair \in IF Recorder(r) THEN {} ELSE OtherPairs} :
       runs' = [runs EXCEPT ![r] = [runs[r] EXCEPT
                  !.conclusion = conclusion, !.probe = "skipped",
                  !.uploads = @ \cup left]]

GithubNext ==
  /\ \E r \in RunIds :
       \/ \E path \in {WORKFLOW_PATH, "other.yml"}, c \in Commits, probe_only \in BOOLEAN :
            Dispatch(r, path, c, probe_only)
       \/ ReRun(r) \/ ProbeSucceeds(r) \/ ProbeFails(r) \/ ProbeSkipped(r)
  /\ UNCHANGED <<checkVars, downloadVars>>

-----------------------------------------------------------------------------
(***************************************************************************)
(* The check.                                                              *)
(***************************************************************************)
PromotionInit ==
  /\ DownloadInit
  /\ runs = [r \in RunIds |-> NoAttempt]
  /\ baseRow = NoRow /\ head = Null
  /\ pc = "idle" /\ commit = Null /\ files = NoFiles
  /\ verdict = Undecided /\ broke = FALSE

Decide(status, code) ==
  /\ verdict' = [status |-> status, code |-> code]
  /\ pc' = "done"

Fail(code) == Decide("failed", code)

Proceed(next) == pc' = next /\ UNCHANGED verdict

StartCheck(base, h) ==
  /\ pc = "idle"
  /\ baseRow' = base /\ head' = h
  /\ IF base.hosted_run = h.row.hosted_run THEN Decide("skipped", "hosted_run_unchanged")
     ELSE IF h.row.hosted_run = Null THEN Fail("digest_mismatch")
     ELSE Proceed("run")
  /\ UNCHANGED <<runs, commit, files, broke, downloadVars>>

Run == runs[head.row.hosted_run]
Known == head.row.hosted_run \in RunIds /\ Run.attempts > 0

GetRun ==
  /\ pc = "run" /\ Known
  /\ commit' = Run.commit
  /\ IF Run.path # WORKFLOW_PATH THEN Fail("wrong_workflow")
     ELSE IF Run.conclusion # "success" THEN Fail("job_not_success")
     ELSE Proceed("jobs")
  /\ UNCHANGED <<runs, baseRow, head, files, broke, downloadVars>>

(* A slip: a job that was skipped will do. *)
GetJobsLoosely ==
  /\ pc = "jobs"
  /\ IF Run.probe \in {"success", "skipped"} THEN Proceed("ancestor") ELSE Fail("job_not_success")
  /\ UNCHANGED <<runs, baseRow, head, commit, files, broke, downloadVars>>

GetJobs ==
  /\ pc = "jobs"
  /\ IF Run.probe = "success" THEN Proceed("ancestor") ELSE Fail("job_not_success")
  /\ UNCHANGED <<runs, baseRow, head, commit, files, broke, downloadVars>>

IsAncestor ==
  /\ pc = "ancestor"
  /\ IF commit \in head.ancestors THEN Proceed("diff") ELSE Fail("non_ancestor")
  /\ UNCHANGED <<runs, baseRow, head, commit, files, broke, downloadVars>>

(* A slip: the policy is no part of the surface. *)
ChangedPathsNarrow ==
  /\ pc = "diff"
  /\ IF \A path \in {WORKFLOW, PROBE} : SurfaceOf[commit][path] = head.surface[path]
     THEN Proceed("list") ELSE Fail("measurement_surface_changed")
  /\ UNCHANGED <<runs, baseRow, head, commit, files, broke, downloadVars>>

ChangedPaths ==
  /\ pc = "diff"
  /\ IF SurfaceOf[commit] = head.surface THEN Proceed("list")
     ELSE Fail("measurement_surface_changed")
  /\ UNCHANGED <<runs, baseRow, head, commit, files, broke, downloadVars>>

(* getArtifactFiles(): the first artifact of that name, of whichever       *)
(* attempt.                                                                *)
ListArtifacts ==
  /\ pc = "list"
  /\ \/ /\ Run.uploads = {}
        /\ Fail("artifact_missing")
        /\ UNCHANGED <<files, downloadVars>>
     \/ /\ files' \in Run.uploads
        /\ \E r \in Responses : StartDownload(r)
        /\ Proceed("download")
  /\ UNCHANGED <<runs, baseRow, head, commit, broke>>

Download ==
  /\ pc = "download"
  /\ DownloadNext
  /\ UNCHANGED <<runs, checkVars>>

DownloadEnds ==
  /\ pc = "download"
  /\ stage \in {"ok", "failed"}
  /\ IF stage = "ok" THEN Proceed("committed") ELSE Fail("api_failure")
  /\ broke' = (broke \/ stage = "failed")
  /\ UNCHANGED <<runs, baseRow, head, commit, files, downloadVars>>

ProvenanceFits(p, row) ==
  /\ p # Garbled
  /\ p.hosted_run = row.hosted_run
  /\ p.binary = row.binary
  /\ p.fixture = row.fixture
  /\ p.artifact = row.artifact
  /\ p.release = PINNED_RELEASE_ASSET_DIGEST
  /\ p.release # p.binary

(* A slip: the committed copy is taken to be the uploaded one. *)
CompareCommittedUnread ==
  /\ pc = "committed"
  /\ IF /\ head.row.artifact = files.carrier
        /\ ProvenanceFits(files.provenance, head.row)
     THEN Decide("passed", Null) ELSE Fail("digest_mismatch")
  /\ UNCHANGED <<runs, baseRow, head, commit, files, broke, downloadVars>>

CompareCommitted ==
  /\ pc = "committed"
  /\ head.pair # NoFiles
  /\ IF head.pair # files THEN Fail("artifact_changed")
     ELSE IF /\ head.row.artifact = files.carrier
             /\ ProvenanceFits(files.provenance, head.row)
     THEN Decide("passed", Null) ELSE Fail("digest_mismatch")
  /\ UNCHANGED <<runs, baseRow, head, commit, files, broke, downloadVars>>

(* A slip: a call that does not answer is made up for by the next. *)
CallFailsOpen ==
  /\ pc \in {"run", "jobs", "ancestor", "diff", "list", "committed"}
  /\ broke' = TRUE
  /\ IF pc = "ancestor" THEN Proceed("diff") ELSE Fail("api_failure")
  /\ UNCHANGED <<runs, baseRow, head, commit, files, downloadVars>>

(* A call ends with a status, with a payload of another shape, or with an  *)
(* exception, one for an unknown run or for a missing committed file among *)
(* them.                                                                   *)
CallFails ==
  /\ pc \in {"run", "jobs", "ancestor", "diff", "list", "committed"}
  /\ broke' = TRUE
  /\ Fail("api_failure")
  /\ UNCHANGED <<runs, baseRow, head, commit, files, downloadVars>>

CheckNext ==
  \/ \E base \in BaseRows, h \in Heads : StartCheck(base, h)
  \/ GetRun \/ GetJobs \/ IsAncestor \/ ChangedPaths
  \/ ListArtifacts \/ Download \/ DownloadEnds \/ CompareCommitted
  \/ CallFails

PromotionNext == GithubNext \/ CheckNext

PromotionSpec == PromotionInit /\ [][PromotionNext]_promotionVars

ExitFor == IF verdict.status \in {"passed", "skipped"} THEN SUCCESS ELSE ARTIFACT_CONTRACT

-----------------------------------------------------------------------------
(***************************************************************************)
(* Properties.                                                             *)
(***************************************************************************)
(* Whatever attempts came and went between the calls, a promotion that     *)
(* passes commits a pair that its run uploaded, and that run is one of the *)
(* workflow, on an ancestor, with an attempt that succeeded.               *)
PassedPairWasUploaded ==
  verdict.status = "passed" =>
    /\ Known
    /\ head.pair \in Run.uploads
    /\ Run.path = WORKFLOW_PATH
    /\ Run.commit \in head.ancestors
    /\ Run.clean

(* The row of a promotion that passes describes the tree it is part of:    *)
(* the carrier and the probe policy that are committed beside it and the   *)
(* pinned release, although the check never reads the policy of the head.  *)
PassedProofFitsTheHead ==
  verdict.status = "passed" =>
    /\ head.row.artifact = head.pair.carrier
    /\ head.pair.provenance.hosted_run = head.row.hosted_run
    /\ head.surface[WORKFLOW] \in Recording =>
         head.row.fixture = head.surface[POLICY]

(* The command succeeds for a new run only if every call it made answered. *)
PromotionFailsClosed ==
  /\ pc = "done" /\ ExitFor = SUCCESS
  /\ baseRow.hosted_run # head.row.hosted_run
  => ~broke /\ stage = "ok"
=============================================================================
