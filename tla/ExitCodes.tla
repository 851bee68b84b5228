----------------------------- MODULE ExitCodes ------------------------------
(***************************************************************************)
(* The exit codes of the command line (harness/src/cli_exit.ts).           *)
(***************************************************************************)
EXTENDS Naturals

SUCCESS == 0
POLICY_VIOLATION == 1
CONFIG_ERROR == 2
ARTIFACT_CONTRACT == 3
RESUME_ERROR == 5
REGRESSION == 6
CI_FORMATTER == 7

UNCAUGHT == 1   \* The status of a process that dies of an uncaught error.
=============================================================================
