------------------------------- MODULE CliRun --------------------------------
(***************************************************************************)
(* `assay-harness run` (cmdRun of harness/src/cli_run.ts) around one call  *)
(* of runHarness(): the policy file, the run, the evidence file, the exit  *)
(* code of the process.                                                    *)
(***************************************************************************)
EXTENDS HarnessRun, ExitCodes

Running == 99   \* The process has not exited.

VARIABLES
  policyFile,  \* What --policy names: "valid", "missing" or "invalid".
  file,        \* The lines this process left in --output.
  exit         \* The exit code, or Running.

cliVars == <<policyFile, file, exit>>

CliInit ==
  /\ Init
  /\ policyFile \in {"valid", "missing", "invalid"}
  /\ file = <<>>
  /\ exit = Running

Exit(code) == exit' = code /\ UNCHANGED <<policyFile, vars>>

(* existsSync() fails. *)
PolicyMissing ==
  /\ exit = Running
  /\ policyFile = "missing"
  /\ Exit(CONFIG_ERROR)
  /\ UNCHANGED file

(* PolicyEngine.fromFile() throws out of cmdRun(). *)
PolicyInvalid ==
  /\ exit = Running
  /\ policyFile = "invalid"
  /\ Exit(UNCAUGHT)
  /\ UNCHANGED file

(* runHarness() runs; the flags never leave autoApprove unset. *)
Run ==
  /\ exit = Running
  /\ policyFile = "valid"
  /\ Next
  /\ UNCHANGED cliVars

(* A slip: the evidence of a failed run is written as well. *)
RunFailedWriting(r) ==
  /\ exit = Running
  /\ pc[r] = "failed"
  /\ \E code \in {RESUME_ERROR, UNCAUGHT} : Exit(code)
  /\ file' = log[r]

(* The run failed.  An error whose text mentions resuming is a resume      *)
(* error, any other is not caught; the guard's own error does, but cannot  *)
(* occur in a process that makes one run.                                  *)
RunFailed(r) ==
  /\ exit = Running
  /\ pc[r] = "failed"
  /\ \E code \in {RESUME_ERROR, UNCAUGHT} : Exit(code)
  /\ UNCHANGED file

(* Evidence cannot be written, or not all of it: the file is truncated and  *)
(* then written, up to any byte.  The error is not caught.                  *)
WriteFails(r) ==
  /\ exit = Running
  /\ pc[r] = "returned"
  /\ Exit(UNCAUGHT)
  /\ file' \in Beginnings(log[r])
               \cup {Append(cut, HalfLine) : cut \in Beginnings(Front(log[r]))}

(* A slip: the denials do not reach the exit code. *)
ReportQuiet(r) ==
  /\ exit = Running
  /\ pc[r] = "returned"
  /\ file' = log[r]
  /\ Exit(SUCCESS)

(* The evidence is written and the denials decide the exit code. *)
Report(r) ==
  /\ exit = Running
  /\ pc[r] = "returned"
  /\ file' = log[r]
  /\ Exit(IF denied[r] # {} THEN POLICY_VIOLATION ELSE SUCCESS)

CliNext ==
  \/ PolicyMissing
  \/ PolicyInvalid
  \/ Run
  \/ \E r \in Runs : RunFailed(r) \/ WriteFails(r) \/ Report(r)

CliSpec == CliInit /\ [][CliNext]_<<vars, cliVars>>

-----------------------------------------------------------------------------
(* A run that exits with 0 has written evidence that is closed by its      *)
(* summary, and if the agent never asked for approval that evidence holds  *)
(* no denial.                                                              *)
SuccessIsEvident ==
  exit = SUCCESS =>
    /\ file # <<>> /\ IsSummary(Last(file))
    /\ (\E n \in DOMAIN file : IsDeny(file[n])) =>
         \E n \in DOMAIN file : IsInterruption(file[n])

(* Evidence is left only by a run that returned: the whole of its log       *)
(* beside 0 or beside the 1 of a violation, and the beginning of it beside  *)
(* the 1 of a write that failed, where only the last line may be no event.  *)
(* So no file beside another code, and none of a run that failed, can be    *)
(* taken for evidence, and no file that was cut for that of a clean run.    *)
WrittenEvidenceFitsExit ==
  file # <<>> =>
    \E r \in Runs :
      /\ pc[r] = "returned"
      /\ exit = SUCCESS => denied[r] = {} /\ Len(file) = Len(log[r])
      /\ exit # SUCCESS => exit \in {POLICY_VIOLATION, UNCAUGHT}
      /\ Len(file) <= Len(log[r])
      /\ \A n \in DOMAIN file :
           \/ file[n] = log[r][n]
           \/ file[n] = HalfLine /\ n = Len(file) /\ exit = UNCAUGHT

(* What the exit code contract says of `run`: with denials present it      *)
(* exits with 1.                                                           *)
DenialsPresentExitOne ==
  (\E n \in DOMAIN file : IsDeny(file[n])) => exit = POLICY_VIOLATION

(* What the exit code contract says of `run`: a policy file that is missing *)
(* or invalid exits with 2.                                                *)
BadPolicyIsConfigError ==
  exit # Running /\ policyFile # "valid" => exit = CONFIG_ERROR
=============================================================================
