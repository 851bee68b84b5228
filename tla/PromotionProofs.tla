-------------------------- MODULE PromotionProofs ---------------------------
(***************************************************************************)
(* The bounds of the download and the soundness of a promotion that passes *)
(* (ArtifactDownload, Promotion), for any runs, commits, surfaces, answers *)
(* of the server and attempts of a run between the calls of the check.     *)
(***************************************************************************)
EXTENDS Promotion, TLAPS

-----------------------------------------------------------------------------
(***************************************************************************)
(* The download.                                                           *)
(***************************************************************************)
(* The two files of the artifact, each once, as listEntries() wants them.  *)
TwoEntries ==
  IsInjective(response.entries) /\ ToSet(response.entries) = REQUIRED_ARTIFACT_ENTRIES

DownloadInv ==
  /\ response.declared \in Nat
  /\ response.chunks \in Seq(Nat \ {0})
  /\ response.entries \in Seq(STRING)
  /\ response = [declared |-> response.declared, chunks |-> response.chunks,
                 entries |-> response.entries, size |-> response.size]
  /\ written \in Nat
  /\ written <= MaxZip /\ written <= response.declared
  /\ stage \in {"stream", "list", "extract", "ok"} => response.declared \in 1..MaxZip
  /\ stage \in {"extract", "ok"} => TwoEntries
  /\ stage = "ok" =>
       \A name \in REQUIRED_ARTIFACT_ENTRIES : response.size[name] <= MaxEntry

(* An injective listing of the two names has length 2. *)
LEMMA TwoNames ==
  ASSUME NEW s \in Seq(STRING), IsInjective(s), ToSet(s) = REQUIRED_ARTIFACT_ENTRIES
  PROVE  Len(s) = 2
<1>1. PICK i \in 1..Len(s), j \in 1..Len(s) :
        s[i] = CARRIER_FILE /\ s[j] = PROVENANCE_FILE
  BY DEF ToSet, REQUIRED_ARTIFACT_ENTRIES
<1>2. \A k \in 1..Len(s) : k = i \/ k = j
  <2>1. TAKE k \in 1..Len(s)
  <2>2. DOMAIN s = 1..Len(s)
    OBVIOUS
  <2>3. s[k] \in ToSet(s)
    BY <2>2 DEF ToSet
  <2>4. s[k] = CARRIER_FILE \/ s[k] = PROVENANCE_FILE
    BY <2>3, Zenon DEF REQUIRED_ARTIFACT_ENTRIES
  <2>5. QED
    BY <1>1, <2>2, <2>4 DEF IsInjective
<1>3. i # j
  BY <1>1 DEF CARRIER_FILE, PROVENANCE_FILE
<1>4. Len(s) \in Nat
  OBVIOUS
<1>5. ~(Len(s) < 2)
  BY <1>3, <1>4
<1>6. ~(Len(s) > 2)
  <2>1. SUFFICES ASSUME Len(s) > 2 PROVE FALSE
    OBVIOUS
  <2>2. 1 \in 1..Len(s) /\ 2 \in 1..Len(s) /\ 3 \in 1..Len(s)
    BY <1>4, <2>1
  <2>3. QED
    BY <1>2, <2>2
<1>7. \A n \in Nat : ~(n < 2) /\ ~(n > 2) => n = 2
  OBVIOUS
<1>8. QED
  BY <1>4, <1>5, <1>6, <1>7, Zenon

LEMMA DownloadInitInv == DownloadInit => DownloadInv
<1> SUFFICES ASSUME DownloadInit PROVE DownloadInv
  OBVIOUS
<1>1. response = [declared |-> 0, chunks |-> <<>>, entries |-> <<>>,
                  size |-> [name \in REQUIRED_ARTIFACT_ENTRIES |-> 0]]
  BY DEF DownloadInit, NoResponse, NoLength
<1>2. <<>> \in Seq(Nat \ {0}) /\ <<>> \in Seq(STRING)
  OBVIOUS
<1>3. written = 0 /\ stage = "idle"
  BY DEF DownloadInit
<1>4. QED
  BY <1>1, <1>2, <1>3, BoundsAssumption DEF DownloadInv

LEMMA StartDownloadInv ==
  ASSUME NEW r \in Responses, StartDownload(r)
  PROVE  DownloadInv'
BY BoundsAssumption, ResponsesAssumption DEF StartDownload, DownloadInv, NoLength

LEMMA DownloadNextInv ==
  ASSUME DownloadInv, DownloadNext
  PROVE  DownloadInv'
<1>1. CASE Chunk
  <2> DEFINE total == written + Head(response.chunks)
             over == total > MaxZip \/ total > response.declared
  <2>1. response' = [declared |-> response.declared, chunks |-> Tail(response.chunks),
                     entries |-> response.entries, size |-> response.size]
    BY <1>1 DEF Chunk, DownloadInv
  <2>2. Tail(response.chunks) \in Seq(Nat \ {0}) /\ Head(response.chunks) \in Nat
    BY <1>1 DEF Chunk, DownloadInv
  <2>3. written' \in Nat /\ written' <= MaxZip /\ written' <= response.declared
    BY <1>1, <2>2, BoundsAssumption DEF Chunk, DownloadInv
  <2>4. stage = "stream" /\ stage' \in {"stream", "failed"}
    BY <1>1 DEF Chunk
  <2>5. QED
    BY <2>1, <2>2, <2>3, <2>4 DEF DownloadInv
<1>2. CASE EndOfBody
  BY <1>2 DEF EndOfBody, DownloadInv
<1>3. CASE ListEntries
  BY <1>3 DEF ListEntries, DownloadInv, TwoEntries
<1>4. CASE ExtractEntries
  BY <1>4 DEF ExtractEntries, DownloadInv, TwoEntries
<1>5. CASE DownloadFails
  BY <1>5 DEF DownloadFails, DownloadInv
<1>6. QED
  BY <1>1, <1>2, <1>3, <1>4, <1>5 DEF DownloadNext

LEMMA BoundedFromInv == DownloadInv => AcceptedDownloadIsBounded
BY TwoNames DEF DownloadInv, AcceptedDownloadIsBounded, TwoEntries

-----------------------------------------------------------------------------
(***************************************************************************)
(* The runs: what a job leaves behind, whichever attempt is looked at.     *)
(***************************************************************************)
Pairs ==
  OtherPairs \cup
  {[carrier |-> c,
    provenance |-> [hosted_run |-> r, binary |-> b, fixture |-> SurfaceOf[k][POLICY],
                    artifact |-> c, release |-> PINNED_RELEASE_ASSET_DIGEST]] :
     c \in Carriers, b \in Binaries, k \in Commits, r \in RunIds}

Attempts ==
  [path : {Null, WORKFLOW_PATH, "other.yml"}, commit : Commits \cup {Null},
   probe_only : BOOLEAN, conclusion : {Null, "success", "failure"},
   probe : {Null, "success", "failure", "skipped"}, uploads : SUBSET Pairs,
   attempts : Nat, clean : BOOLEAN]

RunInv(r) ==
  /\ runs[r].attempts = 0 => runs[r].uploads = {} /\ runs[r].conclusion = Null
                             /\ runs[r].probe = Null /\ runs[r].path = Null
  /\ runs[r].attempts > 0 => runs[r].commit \in Commits
  /\ runs[r].probe = "success" => runs[r].probe_only
  /\ runs[r].conclusion = "success" /\ runs[r].probe_only => runs[r].clean
  /\ Recorder(r) => runs[r].uploads \subseteq RecordedPairs(r)

RunsInv == runs \in [RunIds -> Attempts] /\ \A r \in RunIds : RunInv(r)

(* What the check has established, call by call; the facts are about the   *)
(* run as it is now, since a later attempt cannot undo them.               *)
CheckInv ==
  /\ pc \in {"idle", "run", "jobs", "ancestor", "diff", "list", "download", "committed", "done"}
  /\ pc \notin {"idle", "run", "done"} =>
       /\ Known /\ Run.path = WORKFLOW_PATH /\ Run.commit = commit
       /\ Run.probe_only => Run.clean
  /\ pc \notin {"idle", "run", "jobs", "done"} => Run.clean
  /\ pc \in {"diff", "list", "download", "committed"} => commit \in head.ancestors
  /\ pc \in {"list", "download", "committed"} => SurfaceOf[commit] = head.surface
  /\ pc \in {"download", "committed"} => files \in Run.uploads
  /\ pc = "committed" => stage = "ok"
  /\ pc # "done" => ~broke /\ verdict.status = "none"

(* What a verdict stands for. *)
VerdictInv ==
  /\ verdict.status \in {"none", "passed", "failed", "skipped"}
  /\ verdict.status = "passed" =>
       /\ ~broke /\ stage = "ok" /\ pc = "done"
       /\ Known /\ Run.path = WORKFLOW_PATH /\ Run.clean
       /\ Run.commit \in head.ancestors /\ SurfaceOf[Run.commit] = head.surface
       /\ head.pair \in Run.uploads
       /\ head.row.artifact = head.pair.carrier
       /\ ProvenanceFits(head.pair.provenance, head.row)
  /\ verdict.status = "skipped" => baseRow.hosted_run = head.row.hosted_run

IInv == DownloadInv /\ RunsInv /\ CheckInv /\ VerdictInv

-----------------------------------------------------------------------------
(* What no step of GitHub takes back: where a run came from, that one of   *)
(* its attempts was clean, and what it uploaded.                           *)
Kept(r) ==
  /\ runs[r].attempts > 0 =>
       /\ runs'[r].attempts > 0
       /\ runs'[r].path = runs[r].path /\ runs'[r].commit = runs[r].commit
       /\ runs'[r].probe_only = runs[r].probe_only
  /\ runs[r].clean => runs'[r].clean
  /\ runs[r].uploads \subseteq runs'[r].uploads

RunStep(r) ==
  \/ \E path \in {WORKFLOW_PATH, "other.yml"}, c \in Commits, probe_only \in BOOLEAN :
       Dispatch(r, path, c, probe_only)
  \/ ReRun(r) \/ ProbeSucceeds(r) \/ ProbeFails(r) \/ ProbeSkipped(r)

(* Every upload is one of a recording workflow or one of another. *)
LEMMA UploadablePairs ==
  ASSUME NEW r \in RunIds, runs[r].commit \in Commits
  PROVE  Uploadable(r) \subseteq Pairs
BY DEF Uploadable, RecordedPairs, Recorded, Pairs

(* One run changes to a, which keeps its part of the invariant and takes   *)
(* nothing back.                                                           *)
LEMMA OneRun ==
  ASSUME RunsInv, NEW r \in RunIds, NEW a \in Attempts,
         runs' = [runs EXCEPT ![r] = a], RunInv(r)', Kept(r)
  PROVE  RunsInv' /\ \A q \in RunIds : Kept(q)
<1>1. runs' \in [RunIds -> Attempts]
  BY DEF RunsInv
<1>2. ASSUME NEW q \in RunIds, q # r PROVE RunInv(q)' /\ Kept(q)
  <2>1. runs'[q] = runs[q]
    BY <1>2 DEF RunsInv
  <2>2. RunInv(q)
    BY DEF RunsInv
  <2>3. Recorder(q)' = Recorder(q) /\ RecordedPairs(q)' = RecordedPairs(q)
    BY <2>1 DEF Recorder, RecordedPairs, Recorded
  <2>4. RunInv(q)'
    BY <2>1, <2>2, <2>3 DEF RunInv
  <2>5. Kept(q)
    BY <2>1 DEF Kept
  <2>6. QED
    BY <2>4, <2>5
<1>3. QED
  BY <1>1, <1>2, Zenon DEF RunsInv

(* What GitHub does to a run keeps its record, and takes nothing back. *)
LEMMA RunStepInv ==
  ASSUME RunsInv, NEW r \in RunIds, RunStep(r)
  PROVE  RunsInv' /\ \A q \in RunIds : Kept(q)
<1> DEFINE old == runs[r]
<1>1. /\ runs \in [RunIds -> Attempts] /\ old \in Attempts
      /\ RunInv(r)
  BY DEF RunsInv
<1>2. ASSUME NEW path \in {WORKFLOW_PATH, "other.yml"}, NEW c \in Commits,
             NEW probe_only \in BOOLEAN, Dispatch(r, path, c, probe_only)
      PROVE  RunsInv' /\ \A q \in RunIds : Kept(q)
  <2> DEFINE a == [old EXCEPT !.path = path, !.commit = c,
                              !.probe_only = probe_only, !.attempts = 1]
  <2>1. old.attempts = 0 /\ runs' = [runs EXCEPT ![r] = a]
    BY <1>1, <1>2 DEF Dispatch, Attempts
  <2>2. a \in Attempts
    BY <1>1 DEF Attempts
  <2>3. runs'[r] = a
    BY <1>1, <2>1
  <2>4. /\ a.uploads = {} /\ a.conclusion = Null /\ a.probe = Null
        /\ a.attempts = 1 /\ a.commit \in Commits /\ a.clean = old.clean
    BY <1>1, <2>1 DEF Attempts, RunInv
  <2>5. RunInv(r)'
    BY <2>3, <2>4 DEF RunInv, Null
  <2>6. Kept(r)
    BY <1>1, <2>1, <2>3, <2>4 DEF Kept, RunInv
  <2>7. QED
    BY <2>1, <2>2, <2>5, <2>6, OneRun
<1>3. CASE ReRun(r)
  <2> DEFINE a == [old EXCEPT !.conclusion = Null, !.probe = Null, !.attempts = @ + 1]
  <2>1. runs' = [runs EXCEPT ![r] = a]
    BY <1>3 DEF ReRun
  <2>1a. old.attempts > 0
    BY <1>1, <1>3, AttemptsAssumption DEF ReRun, Attempts
  <2>2. a \in Attempts
    <3>1. old.attempts + 1 \in Nat
      BY <1>1 DEF Attempts
    <3>2. QED
      BY <1>1, <3>1 DEF Attempts
  <2>3. runs'[r] = a
    BY <1>1, <2>1
  <2>4. /\ a.conclusion = Null /\ a.probe = Null /\ a.attempts > 0
        /\ a.path = old.path /\ a.commit = old.commit /\ a.probe_only = old.probe_only
        /\ a.uploads = old.uploads /\ a.clean = old.clean
    BY <1>1, <2>1a DEF Attempts
  <2>5. RunInv(r)'
    BY <1>1, <2>1a, <2>3, <2>4
    DEF RunInv, Null, Recorder, RecordedPairs, Recorded, Attempts
  <2>6. Kept(r)
    BY <2>3, <2>4 DEF Kept
  <2>7. QED
    BY <2>1, <2>2, <2>5, <2>6, OneRun
<1>4. ASSUME NEW conclusion \in {"success", "failure"},
             NEW probe \in {"success", "failure", "skipped"}, NEW left \in SUBSET Uploadable(r),
             NEW clean \in BOOLEAN,
             old.attempts > 0,
             probe = "success" => old.probe_only,
             probe = "skipped" => ~old.probe_only,
             clean <=> old.clean \/ (probe = "success" /\ conclusion = "success"),
             conclusion = "success" => probe # "failure",
             runs' = [runs EXCEPT ![r] = [old EXCEPT !.conclusion = conclusion, !.probe = probe,
                                          !.uploads = old.uploads \cup left, !.clean = clean]]
      PROVE  RunsInv' /\ \A q \in RunIds : Kept(q)
  <2> DEFINE a == [old EXCEPT !.conclusion = conclusion, !.probe = probe,
                              !.uploads = old.uploads \cup left, !.clean = clean]
  <2>1. old.commit \in Commits
    BY <1>1, <1>4 DEF RunInv
  <2>2. a \in Attempts
    <3>1. left \subseteq Pairs
      BY <2>1, UploadablePairs
    <3>2. QED
      BY <1>1, <3>1 DEF Attempts
  <2>3. runs'[r] = a
    BY <1>1, <1>4
  <2>4. /\ a.conclusion = conclusion /\ a.probe = probe /\ a.attempts = old.attempts
        /\ a.path = old.path /\ a.commit = old.commit /\ a.probe_only = old.probe_only
        /\ a.uploads = old.uploads \cup left /\ a.clean = clean
    BY <1>1 DEF Attempts
  <2>5. Recorder(r)' => (runs[r].uploads \subseteq RecordedPairs(r))'
    <3>1. Recorder(r)' = Recorder(r) /\ RecordedPairs(r)' = RecordedPairs(r)
      BY <2>3, <2>4 DEF Recorder, RecordedPairs, Recorded
    <3>2. Recorder(r) => left \subseteq RecordedPairs(r) /\ old.uploads \subseteq RecordedPairs(r)
      BY <1>1 DEF Uploadable, RunInv
    <3>3. QED
      BY <2>3, <2>4, <3>1, <3>2
  <2>6. /\ (runs[r].attempts = 0 => FALSE)' /\ (runs[r].commit \in Commits)'
        /\ (runs[r].probe = "success" => runs[r].probe_only)'
        /\ (runs[r].conclusion = "success" /\ runs[r].probe_only => runs[r].clean)'
    <3>1. (runs[r].attempts # 0)'
      BY <1>1, <1>4, <2>3, <2>4 DEF Attempts
    <3>2. (runs[r].commit \in Commits)'
      BY <2>1, <2>3, <2>4
    <3>3. (runs[r].probe = "success" => runs[r].probe_only)'
      BY <1>4, <2>3, <2>4, Zenon
    <3>4. conclusion = "success" /\ old.probe_only => clean
      BY <1>4, Zenon
    <3>5. QED
      BY <2>3, <2>4, <3>1, <3>2, <3>3, <3>4, Zenon
  <2>7. RunInv(r)'
    BY <2>5, <2>6, Zenon DEF RunInv
  <2>8. Kept(r)
    BY <1>4, <2>3, <2>4 DEF Kept
  <2>9. QED
    BY <1>4, <2>2, <2>7, <2>8, OneRun
<1>5. CASE ProbeSucceeds(r)
  <2>1. PICK pair \in Uploadable(r), conclusion \in {"success", "failure"} :
          runs' = [runs EXCEPT ![r] =
            [old EXCEPT !.conclusion = conclusion, !.probe = "success",
                        !.uploads = old.uploads \cup {pair},
                        !.clean = (old.clean \/ conclusion = "success")]]
    BY <1>5 DEF ProbeSucceeds
  <2>2. old.attempts > 0 /\ old.probe_only
    BY <1>5 DEF ProbeSucceeds
  <2>3. (old.clean \/ conclusion = "success") \in BOOLEAN
    OBVIOUS
  <2>4. QED
    BY <2>1, <2>2, <2>3, <1>4
<1>6. CASE ProbeFails(r)
  <2>1. PICK left \in {{}} \cup {{pair} : pair \in Uploadable(r)} :
          runs' = [runs EXCEPT ![r] =
            [old EXCEPT !.conclusion = "failure", !.probe = "failure",
                        !.uploads = old.uploads \cup left]]
    BY <1>6 DEF ProbeFails
  <2>1a. left \in SUBSET Uploadable(r)
    BY <2>1
  <2>1b. [old EXCEPT !.conclusion = "failure", !.probe = "failure",
                     !.uploads = old.uploads \cup left]
         = [old EXCEPT !.conclusion = "failure", !.probe = "failure",
                       !.uploads = old.uploads \cup left, !.clean = old.clean]
    BY <1>1 DEF Attempts
  <2>2. old.attempts > 0
    BY <1>6 DEF ProbeFails
  <2>3. old.clean \in BOOLEAN
    BY <1>1 DEF Attempts
  <2>4. QED
    BY <2>1, <2>1a, <2>1b, <2>2, <2>3, <1>4
<1>7. CASE ProbeSkipped(r)
  <2>1. PICK conclusion \in {"success", "failure"},
             left \in {{}} \cup {{pair} : pair \in IF Recorder(r) THEN {} ELSE OtherPairs} :
          runs' = [runs EXCEPT ![r] =
            [old EXCEPT !.conclusion = conclusion, !.probe = "skipped",
                        !.uploads = old.uploads \cup left]]
    BY <1>7 DEF ProbeSkipped
  <2>1a. left \in SUBSET Uploadable(r)
    BY <2>1 DEF Uploadable
  <2>1b. [old EXCEPT !.conclusion = conclusion, !.probe = "skipped",
                     !.uploads = old.uploads \cup left]
         = [old EXCEPT !.conclusion = conclusion, !.probe = "skipped",
                       !.uploads = old.uploads \cup left, !.clean = old.clean]
    BY <1>1 DEF Attempts
  <2>2. old.attempts > 0 /\ ~old.probe_only
    BY <1>7 DEF ProbeSkipped
  <2>3. old.clean \in BOOLEAN
    BY <1>1 DEF Attempts
  <2>4. QED
    BY <2>1, <2>1a, <2>1b, <2>2, <2>3, <1>4
<1>8. QED
  BY <1>2, <1>3, <1>5, <1>6, <1>7 DEF RunStep

-----------------------------------------------------------------------------
(***************************************************************************)
(* The check.                                                              *)
(***************************************************************************)
LEMMA InitIInv == PromotionInit => IInv
<1> SUFFICES ASSUME PromotionInit PROVE IInv
  OBVIOUS
<1>1. DownloadInv
  BY DownloadInitInv DEF PromotionInit
<1>2. RunsInv
  <2>1. NoAttempt \in Attempts
    BY DEF NoAttempt, Attempts
  <2>2. \A r \in RunIds : runs[r] = NoAttempt
    BY DEF PromotionInit
  <2>3. runs \in [RunIds -> Attempts]
    BY <2>1 DEF PromotionInit
  <2>4. \A r \in RunIds : RunInv(r)
    BY <2>2 DEF RunInv, NoAttempt, Null, Recorder
  <2>5. QED
    BY <2>3, <2>4 DEF RunsInv
<1>3. CheckInv /\ VerdictInv
  BY DEF PromotionInit, CheckInv, VerdictInv, Undecided
<1>4. QED
  BY <1>1, <1>2, <1>3 DEF IInv

(* What GitHub does while the check waits takes nothing from under it.     *)
LEMMA GithubIInv ==
  ASSUME IInv, GithubNext
  PROVE  IInv'
<1>1. UNCHANGED <<checkVars, downloadVars>>
  BY DEF GithubNext
<1>2. RunsInv' /\ \A q \in RunIds : Kept(q)
  <2>1. PICK r \in RunIds : RunStep(r)
    BY DEF GithubNext, RunStep
  <2>2. QED
    BY <2>1, RunStepInv DEF IInv
<1>3. DownloadInv'
  BY <1>1 DEF IInv, DownloadInv, downloadVars, TwoEntries
<1>4. Known =>
        /\ Known' /\ Run'.path = Run.path /\ Run'.commit = Run.commit
        /\ Run'.probe_only = Run.probe_only
        /\ (Run.clean => Run'.clean)
        /\ Run.uploads \subseteq Run'.uploads
  <2>1. head' = head
    BY <1>1 DEF checkVars
  <2>2. QED
    BY <1>2, <2>1 DEF Known, Run, Kept
<1>5. CheckInv'
  <2>1. UNCHANGED <<pc, commit, files, head, stage, broke, verdict>>
    BY <1>1 DEF checkVars, downloadVars
  <2>2. QED
    BY <1>4, <2>1, Zenon DEF IInv, CheckInv
<1>6. VerdictInv'
  <2>1. UNCHANGED <<pc, baseRow, head, stage, broke, verdict>>
    BY <1>1 DEF checkVars, downloadVars
  <2>2. QED
    BY <1>4, <2>1 DEF IInv, VerdictInv, ProvenanceFits
<1>7. QED
  BY <1>2, <1>3, <1>5, <1>6 DEF IInv

(* Every step of the check, and what it concludes from the answer.         *)
LEMMA CheckIInv ==
  ASSUME IInv, CheckNext
  PROVE  IInv'
<1> USE DEF IInv
<1>1. runs' = runs /\ RunsInv'
  <2>1. runs' = runs
    BY DEF CheckNext, StartCheck, GetRun, GetJobs, IsAncestor, ChangedPaths, ListArtifacts,
           Download, DownloadEnds, CompareCommitted, CallFails
  <2>2. QED
    BY <2>1 DEF RunsInv, RunInv, Recorder, RecordedPairs, Recorded
<1>2. ASSUME UNCHANGED downloadVars PROVE DownloadInv'
  BY <1>2 DEF downloadVars, DownloadInv, TwoEntries
<1>3. ASSUME head' = head
      PROVE  Known' = Known /\ Run' = Run
  BY <1>1, <1>3 DEF Known, Run
<1>4. ASSUME NEW base \in BaseRows, NEW h \in Heads, StartCheck(base, h)
      PROVE  IInv'
  <2>1. DownloadInv'
    BY <1>2, <1>4 DEF StartCheck
  <2>2. pc = "idle" /\ ~broke /\ broke' = broke
    BY <1>4 DEF StartCheck, CheckInv
  <2>3. \/ pc' = "done" /\ verdict'.status = "skipped" /\ baseRow'.hosted_run = head'.row.hosted_run
        \/ pc' = "done" /\ verdict'.status = "failed"
        \/ pc' = "run" /\ verdict' = verdict /\ verdict.status = "none"
    BY <1>4, <2>2 DEF StartCheck, Decide, Fail, Proceed, CheckInv
  <2>4. CheckInv' /\ VerdictInv'
    BY <2>2, <2>3 DEF CheckInv, VerdictInv
  <2>5. QED
    BY <1>1, <2>1, <2>4
<1>5. ASSUME pc \notin {"idle", "done"}, UNCHANGED <<head, baseRow>>, DownloadInv',
             pc' = "done", verdict'.status = "failed"
      PROVE  IInv'
  <2>1. CheckInv' /\ VerdictInv'
    BY <1>5 DEF CheckInv, VerdictInv
  <2>2. QED
    BY <1>1, <1>5, <2>1
<1>6. CASE GetRun
  <2>1. UNCHANGED <<head, baseRow, files, broke, downloadVars>> /\ pc = "run" /\ DownloadInv'
    BY <1>2, <1>6 DEF GetRun
  <2>2. CASE Fail("wrong_workflow") \/ Fail("job_not_success")
    BY <1>5, <2>1, <2>2 DEF Fail, Decide
  <2>3. CASE Proceed("jobs") /\ Run.path = WORKFLOW_PATH /\ Run.conclusion = "success"
    <3>1. Known /\ commit' = Run.commit
      BY <1>6 DEF GetRun
    <3>2. Run.probe_only => Run.clean
      BY <2>3, <3>1 DEF RunsInv, RunInv, Known, Run
    <3>3. CheckInv' /\ VerdictInv'
      BY <1>3, <2>1, <2>3, <3>1, <3>2 DEF CheckInv, VerdictInv, Proceed
    <3>4. QED
      BY <1>1, <2>1, <3>3
  <2>4. QED
    BY <1>6, <2>2, <2>3 DEF GetRun
<1>7. CASE GetJobs
  <2>1. /\ UNCHANGED <<head, baseRow, commit, files, broke, downloadVars>>
        /\ pc = "jobs" /\ DownloadInv'
    BY <1>2, <1>7 DEF GetJobs
  <2>2. CASE Fail("job_not_success")
    BY <1>5, <2>1, <2>2 DEF Fail, Decide
  <2>3. CASE Proceed("ancestor") /\ Run.probe = "success"
    <3>1. Run.probe_only
      BY <2>1, <2>3 DEF CheckInv, RunsInv, RunInv, Known, Run
    <3>2. CheckInv' /\ VerdictInv'
      BY <1>3, <2>1, <2>3, <3>1 DEF CheckInv, VerdictInv, Proceed
    <3>3. QED
      BY <1>1, <2>1, <3>2
  <2>4. QED
    BY <1>7, <2>2, <2>3 DEF GetJobs
<1>8. CASE IsAncestor
  <2>1. /\ UNCHANGED <<head, baseRow, commit, files, broke, downloadVars>>
        /\ pc = "ancestor" /\ DownloadInv'
    BY <1>2, <1>8 DEF IsAncestor
  <2>2. CASE Fail("non_ancestor")
    BY <1>5, <2>1, <2>2 DEF Fail, Decide
  <2>3. CASE Proceed("diff") /\ commit \in head.ancestors
    <3>1. CheckInv' /\ VerdictInv'
      BY <1>3, <2>1, <2>3 DEF CheckInv, VerdictInv, Proceed
    <3>2. QED
      BY <1>1, <2>1, <3>1
  <2>4. QED
    BY <1>8, <2>2, <2>3 DEF IsAncestor
<1>9. CASE ChangedPaths
  <2>1. /\ UNCHANGED <<head, baseRow, commit, files, broke, downloadVars>>
        /\ pc = "diff" /\ DownloadInv'
    BY <1>2, <1>9 DEF ChangedPaths
  <2>2. CASE Fail("measurement_surface_changed")
    BY <1>5, <2>1, <2>2 DEF Fail, Decide
  <2>3. CASE Proceed("list") /\ SurfaceOf[commit] = head.surface
    <3>1. CheckInv' /\ VerdictInv'
      BY <1>3, <2>1, <2>3 DEF CheckInv, VerdictInv, Proceed
    <3>2. QED
      BY <1>1, <2>1, <3>1
  <2>4. QED
    BY <1>9, <2>2, <2>3 DEF ChangedPaths
<1>10. CASE ListArtifacts
  <2>1. UNCHANGED <<head, baseRow, commit, broke>> /\ pc = "list"
    BY <1>10 DEF ListArtifacts
  <2>2. CASE Fail("artifact_missing") /\ UNCHANGED <<files, downloadVars>>
    BY <1>2, <1>5, <2>1, <2>2 DEF Fail, Decide
  <2>3. CASE /\ files' \in Run.uploads /\ (\E r \in Responses : StartDownload(r))
             /\ Proceed("download")
    <3>1. DownloadInv'
      BY <2>3, StartDownloadInv
    <3>2. CheckInv' /\ VerdictInv'
      BY <1>3, <2>1, <2>3 DEF CheckInv, VerdictInv, Proceed
    <3>3. QED
      BY <1>1, <3>1, <3>2
  <2>4. QED
    BY <1>10, <2>2, <2>3 DEF ListArtifacts
<1>11. CASE Download
  <2>1. UNCHANGED checkVars /\ pc = "download"
    BY <1>11 DEF Download
  <2>2. DownloadInv'
    BY <1>11, DownloadNextInv DEF Download
  <2>3. UNCHANGED <<pc, head, baseRow, commit, files, broke, verdict>>
    BY <2>1 DEF checkVars
  <2>4. CheckInv' /\ VerdictInv'
    BY <1>3, <2>1, <2>3 DEF CheckInv, VerdictInv
  <2>5. QED
    BY <1>1, <2>2, <2>4
<1>12. CASE DownloadEnds
  <2>1. UNCHANGED <<head, baseRow, commit, files, downloadVars>> /\ pc = "download" /\ DownloadInv'
    BY <1>2, <1>12 DEF DownloadEnds
  <2>2. CASE Fail("api_failure")
    BY <1>5, <2>1, <2>2 DEF Fail, Decide
  <2>3. CASE stage = "ok" /\ Proceed("committed")
    <3>1. ~broke'
      BY <1>12, <2>1, <2>3 DEF DownloadEnds, CheckInv
    <3>2. CheckInv' /\ VerdictInv'
      BY <1>3, <2>1, <2>3, <3>1 DEF CheckInv, VerdictInv, Proceed, downloadVars
    <3>3. QED
      BY <1>1, <2>1, <3>2
  <2>4. QED
    BY <1>12, <2>2, <2>3 DEF DownloadEnds
<1>13. CASE CompareCommitted
  <2>1. /\ UNCHANGED <<head, baseRow, commit, files, broke, downloadVars>>
        /\ pc = "committed" /\ DownloadInv'
    BY <1>2, <1>13 DEF CompareCommitted
  <2>2. CASE Fail("artifact_changed") \/ Fail("digest_mismatch")
    BY <1>5, <2>1, <2>2 DEF Fail, Decide
  <2>3. CASE /\ Decide("passed", Null) /\ head.pair = files
             /\ head.row.artifact = files.carrier /\ ProvenanceFits(files.provenance, head.row)
    <3>1. /\ Known' /\ Run' = Run /\ Known /\ Run.path = WORKFLOW_PATH /\ Run.clean
          /\ Run.commit = commit /\ commit \in head.ancestors
          /\ SurfaceOf[commit] = head.surface /\ files \in Run.uploads
          /\ stage = "ok" /\ stage' = stage /\ ~broke
      BY <1>3, <2>1 DEF CheckInv, downloadVars
    <3>2. ProvenanceFits(head.pair.provenance, head.row)'
      BY <2>1, <2>3 DEF ProvenanceFits
    <3>3. pc' = "done" /\ verdict'.status = "passed"
      BY <2>3 DEF Decide
    <3>4. CheckInv' /\ VerdictInv'
      BY <2>1, <2>3, <3>1, <3>2, <3>3 DEF CheckInv, VerdictInv
    <3>5. QED
      BY <1>1, <2>1, <3>4
  <2>4. QED
    BY <1>13, <2>2, <2>3 DEF CompareCommitted
<1>14. CASE CallFails
  <2>1. UNCHANGED <<head, baseRow, downloadVars>> /\ pc \notin {"idle", "done"} /\ DownloadInv'
    BY <1>2, <1>14 DEF CallFails
  <2>2. QED
    BY <1>5, <1>14, <2>1 DEF CallFails, Fail, Decide
<1>15. QED
  BY <1>4, <1>6, <1>7, <1>8, <1>9, <1>10, <1>11, <1>12, <1>13, <1>14 DEF CheckNext

(* For any runs and answers: every reachable state satisfies the invariant. *)
THEOREM Invariance == PromotionSpec => []IInv
<1>1. IInv /\ UNCHANGED promotionVars => IInv'
  BY DEF promotionVars, checkVars, downloadVars, IInv, DownloadInv, TwoEntries, RunsInv,
     RunInv, Recorder, RecordedPairs, Recorded, CheckInv, VerdictInv, Known, Run, ProvenanceFits
<1>2. IInv /\ [PromotionNext]_promotionVars => IInv'
  BY <1>1, GithubIInv, CheckIInv DEF PromotionNext
<1>3. QED
  BY <1>2, InitIInv, PTL DEF PromotionSpec

(* No answer of the server, however it is declared, chunked or packed,     *)
(* puts more than its bound on the disk or gets an odd artifact accepted.  *)
THEOREM DownloadsAreBounded == PromotionSpec => []AcceptedDownloadIsBounded
<1>1. IInv => AcceptedDownloadIsBounded
  BY BoundedFromInv DEF IInv
<1>2. QED
  BY <1>1, Invariance, PTL

(* However often the run is re-run between the calls of the check, what a  *)
(* promotion that passes commits was uploaded by that run.                 *)
THEOREM PromotedPairsWereUploaded == PromotionSpec => []PassedPairWasUploaded
<1>1. IInv => PassedPairWasUploaded
  BY DEF IInv, VerdictInv, PassedPairWasUploaded
<1>2. QED
  BY <1>1, Invariance, PTL

(* The fixture that the row names is the policy of the promoted tree: the  *)
(* run recorded the policy of its own commit, and the surface of that      *)
(* commit is the head's.                                                   *)
THEOREM PromotedProofsFit == PromotionSpec => []PassedProofFitsTheHead
<1>1. ASSUME IInv, verdict.status = "passed"
      PROVE  /\ head.row.artifact = head.pair.carrier
             /\ head.pair.provenance.hosted_run = head.row.hosted_run
             /\ head.surface[WORKFLOW] \in Recording =>
                  head.row.fixture = head.surface[POLICY]
  <2>1. /\ head.row.artifact = head.pair.carrier
        /\ head.pair.provenance.hosted_run = head.row.hosted_run
        /\ head.row.fixture = head.pair.provenance.fixture
    BY <1>1 DEF IInv, VerdictInv, ProvenanceFits
  <2>2. ASSUME head.surface[WORKFLOW] \in Recording
        PROVE  head.pair.provenance.fixture = head.surface[POLICY]
    <3>1. /\ head.row.hosted_run \in RunIds /\ RunInv(head.row.hosted_run)
          /\ Run.path = WORKFLOW_PATH /\ SurfaceOf[Run.commit] = head.surface
          /\ head.pair \in Run.uploads
      BY <1>1 DEF IInv, VerdictInv, RunsInv, Known
    <3>2. Recorder(head.row.hosted_run)
      BY <2>2, <3>1 DEF Recorder, Run
    <3>3. head.pair \in RecordedPairs(head.row.hosted_run)
      BY <3>1, <3>2 DEF RunInv, Run
    <3>4. QED
      BY <3>1, <3>3 DEF RecordedPairs, Recorded, Run
  <2>3. QED
    BY <2>1, <2>2
<1>2. IInv => PassedProofFitsTheHead
  BY <1>1 DEF PassedProofFitsTheHead
<1>3. QED
  BY <1>2, Invariance, PTL

(* A call that does not answer, wherever it comes, never ends in success.  *)
THEOREM ChecksFailClosed == PromotionSpec => []PromotionFailsClosed
<1>1. IInv => PromotionFailsClosed
  BY DEF IInv, CheckInv, VerdictInv, PromotionFailsClosed, ExitFor, SUCCESS, ARTIFACT_CONTRACT
<1>2. QED
  BY <1>1, Invariance, PTL
=============================================================================
