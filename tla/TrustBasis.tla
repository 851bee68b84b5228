----------------------------- MODULE TrustBasis -----------------------------
(***************************************************************************)
(* trust-basis gate and trust-basis report (trust_basis_gate.ts,           *)
(* trust_basis_report.ts, cli_trust_basis.ts of harness/src).  The gate    *)
(* runs the assay binary, a child with a bound on its time and its output, *)
(* and leaves the diff it printed in a file; the report reads that file,   *)
(* validates it more closely, and writes up to two projections of it.      *)
(***************************************************************************)
EXTENDS ExitCodes

CONSTANT Diffs   \* The well-formed diffs that assay may print.

ASSUME DiffsAssumption ==
  Diffs \subseteq [kind : {"diff"}, regressed : Nat, removed : Nat,
                   counts_match : BOOLEAN, has_regressions : BOOLEAN]

VARIABLES
  child,       \* How the child ended, what it printed, and on which inputs.
  out,         \* The diff file of the gate.
  gate,        \* The exit code of the gate, or NotDecided.
  diff,        \* The diff the report holds while it writes.
  projecting,  \* The projections that the report has yet to write.
  projected,   \* [projection -> the diff that the file on disk shows]
  wrote,       \* The projections of the report that ended last.
  report       \* The exit code of the report, or NotDecided.

trustVars == <<child, out, gate, diff, projecting, projected, wrote, report>>

NotDecided == 99

(* A diff: the lengths of its two blocking lists, whether the counts of    *)
(* its summary are those lengths, and its flag.                            *)
NoDiff == [kind |-> "absent"]      \* No file, or no output.
BadDiff == [kind |-> "malformed"]  \* Not JSON, or of another shape.
Printed == Diffs \cup {NoDiff, BadDiff}

NoChild == [ended |-> "never ran", status |-> NotDecided, printed |-> NoDiff]

(* assay's own exit codes under --fail-on-regression. *)
Statuses == {0, 1, 2}

-----------------------------------------------------------------------------
(***************************************************************************)
(* The gate.                                                               *)
(***************************************************************************)
TrustInit ==
  /\ child = NoChild
  /\ out = NoDiff
  /\ gate = NotDecided
  /\ diff = NoDiff /\ projecting = {}
  /\ projected = [p \in {"summary", "junit"} |-> NoDiff] /\ wrote = {}
  /\ report = NotDecided

(* A new gate in the same workspace: the files of the last one are there.  *)
GateStarts ==
  /\ gate # NotDecided /\ projecting = {}
  /\ gate' = NotDecided /\ child' = NoChild /\ report' = NotDecided /\ wrote' = {}
  /\ UNCHANGED <<out, diff, projecting, projected>>

InputMissing ==
  /\ gate = NotDecided /\ child = NoChild
  /\ gate' = CONFIG_ERROR
  /\ UNCHANGED <<child, out, diff, projecting, projected, wrote, report>>

ChildExits ==
  /\ gate = NotDecided /\ child = NoChild
  /\ \E status \in Statuses, printed \in Printed :
       child' = [ended |-> "exit", status |-> status, printed |-> printed]
  /\ UNCHANGED <<out, gate, diff, projecting, projected, wrote, report>>

(* It runs out of time or of buffer, which spawnSync reports as an error,  *)
(* or is killed from elsewhere, which leaves a status of null; what it     *)
(* printed until then may be a whole report.                               *)
ChildKilled ==
  /\ gate = NotDecided /\ child = NoChild
  /\ \E how \in {"error", "signal"}, printed \in Printed :
       child' = [ended |-> how, status |-> NotDecided, printed |-> printed]
  /\ UNCHANGED <<out, gate, diff, projecting, projected, wrote, report>>

(* A slip: assay's status alone decides. *)
HasRegressionsByStatus == child.status = 1

HasRegressions == child.status = 1 \/ child.printed.has_regressions

(* A slip: what was printed counts, however the child ended. *)
AcceptedByOutput == child.printed \in Diffs

Accepted == child.ended = "exit" /\ child.status \in {0, 1} /\ child.printed \in Diffs

(* The diff is written only once it is accepted; a write that fails is an  *)
(* error like any other.                                                   *)
GateDecides ==
  /\ gate = NotDecided /\ child # NoChild
  /\ \/ /\ Accepted
        /\ out' = child.printed
        /\ gate' = IF HasRegressions THEN REGRESSION ELSE SUCCESS
     \/ /\ out' \in IF Accepted THEN {out, BadDiff} ELSE {out}
        /\ gate' = CONFIG_ERROR
  /\ UNCHANGED <<child, diff, projecting, projected, wrote, report>>

-----------------------------------------------------------------------------
(***************************************************************************)
(* The report.                                                             *)
(***************************************************************************)
(* A slip: the lists are not counted. *)
ReadableUncounted(d) == d \in Diffs

(* trustBasisDiffValidationError(). *)
Readable(d) ==
  /\ d \in Diffs
  /\ d.counts_match
  /\ d.has_regressions = (d.regressed > 0 \/ d.removed > 0)

(* Without an output path the summary goes to stdout. *)
ReportReads(projections) ==
  /\ gate # NotDecided /\ report = NotDecided /\ projecting = {}
  /\ IF ~Readable(out) THEN report' = CONFIG_ERROR /\ UNCHANGED <<diff, projecting>>
     ELSE IF projections = {} THEN report' = SUCCESS /\ UNCHANGED <<diff, projecting>>
     ELSE diff' = out /\ projecting' = projections /\ UNCHANGED report
  /\ wrote' = {}
  /\ UNCHANGED <<child, out, gate, projected>>

(* The summary comes first. *)
NextProjection == IF "summary" \in projecting THEN "summary" ELSE "junit"

ReportWrites ==
  /\ projecting # {}
  /\ projected' = [projected EXCEPT ![NextProjection] = diff]
  /\ wrote' = wrote \cup {NextProjection}
  /\ projecting' = projecting \ {NextProjection}
  /\ IF projecting' = {} THEN report' = SUCCESS /\ diff' = NoDiff
     ELSE UNCHANGED <<report, diff>>
  /\ UNCHANGED <<child, out, gate>>

(* A write fails; what is left of the file is anything, and the projection *)
(* after it stays as an earlier report has left it.                        *)
ReportFails ==
  /\ projecting # {}
  /\ projected' \in {projected, [projected EXCEPT ![NextProjection] = BadDiff]}
  /\ projecting' = {} /\ diff' = NoDiff
  /\ report' = CI_FORMATTER
  /\ UNCHANGED <<child, out, gate, wrote>>

TrustNext ==
  \/ GateStarts \/ InputMissing \/ ChildExits \/ ChildKilled \/ GateDecides
  \/ \E projections \in SUBSET {"summary", "junit"} : ReportReads(projections)
  \/ ReportWrites \/ ReportFails

TrustSpec == TrustInit /\ [][TrustNext]_trustVars

-----------------------------------------------------------------------------
(***************************************************************************)
(* Properties.                                                             *)
(***************************************************************************)
(* formatTrustBasisJUnit() fails one case per regressed or removed claim.  *)
JUnitFailures(d) == d.regressed + d.removed

(* The gate's verdict and the reviewer's view of it agree although they    *)
(* come from two validations of one file: when the gate passes and the     *)
(* report succeeds, what it wrote is of this gate's diff, with no failure. *)
PassedGateHasCleanReport ==
  gate = SUCCESS /\ report = SUCCESS =>
    \A p \in wrote : projected[p] = child.printed /\ JUnitFailures(projected[p]) = 0

(* A verdict of the gate rests on a child that ended by itself, and the    *)
(* file beside a verdict is what this child printed; a child that was      *)
(* killed, however much it had printed, gives neither.                     *)
VerdictRestsOnItsDiff ==
  gate \in {SUCCESS, REGRESSION} =>
    /\ child.ended = "exit"
    /\ gate = SUCCESS => child.status = 0
    /\ out = child.printed
=============================================================================
