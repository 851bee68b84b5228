----------------------------- MODULE PolicedRun ------------------------------
(***************************************************************************)
(* The run command under a policy file: the decisions of CliRun are those  *)
(* that PolicyEngine takes from the lists of the file.  The `policy`       *)
(* command asks the same file beforehand, and an MCP lane may be judged by *)
(* its mcp section.                                                        *)
(***************************************************************************)
EXTENDS CliRun, PolicyEngine

(* A tool has a name, and the SDK takes none that is empty. *)
ASSUME ToolNamesAssumption == \A t \in Tools : String(t) /\ t # <<>>

PolicedInit ==
  /\ CliInit
  /\ EngineInit
  /\ policy = [t \in Tools |-> EvaluateTool(t)]

(* One of the two, before the run: they share nothing with it but the file. *)
Ask ==
  /\ exit = Running /\ \A r \in Runs : pc[r] = "idle"
  /\ asked = NotAsked /\ lane = <<>>
  /\ \E name \in Names : PolicyCommand(name, policyFile) \/ EvaluateMcpCall(name)
  /\ UNCHANGED <<vars, cliVars>>

PolicedNext == Ask \/ (CliNext /\ UNCHANGED engineVars)

PolicedSpec == PolicedInit /\ [][PolicedNext]_<<vars, cliVars, engineVars>>

-----------------------------------------------------------------------------
(* What the evidence of a run, the `policy` command and the MCP lane say    *)
(* of a tool is what the lists in the policy file mean for its name: no    *)
(* call that a deny or approval pattern covers is ever recorded as         *)
(* allowed, whichever of the forms of pattern covers it, and the command's *)
(* answer is the verdict the run records.                                  *)
VerdictsFollowThePatterns ==
  /\ \A n \in DOMAIN file : IsDecision(file[n]) =>
       /\ Governed(config.tools, file[n].tool, file[n].decision)
       /\ file[n].tool = asked.tool =>
            (asked.exit = POLICY_VIOLATION <=> file[n].decision = "deny")
  /\ \A n \in DOMAIN lane : lane[n].type = "mcp-interaction" =>
       /\ Governed(config.mcp, lane[n].tool, lane[n].decision)
       /\ lane[n - 1].type = "policy-decision"
       /\ lane[n - 1].decision = lane[n].decision
=============================================================================
