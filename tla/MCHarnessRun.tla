---------------------------- MODULE MCHarnessRun -----------------------------
(***************************************************************************)
(* HarnessRun and PolicedRun on two tools that only a dot tells apart.  A  *)
(* behaviour is either of several runs in a process of some user of        *)
(* runHarness(), under any decisions, or of the `run` command, which makes *)
(* one run under a policy whose lists have at most one pattern each, of    *)
(* every form there is.                                                    *)
(***************************************************************************)
EXTENDS PolicedRun, TLC

VARIABLE subject

mc_vars == <<vars, cliVars, engineVars, subject>>

(* The runs of a process and the states are only compared for equality. *)
Symmetry == Permutations(Runs) \cup Permutations(Refs)

-----------------------------------------------------------------------------
MCRead == <<"mcp", ".", "read">>
MCWrite == <<"mcp", "_", "read">>
MCTools == {MCRead, MCWrite}
MCApprovalTools == {MCWrite}
MCNames == {<<>>, MCRead, <<"mcp", ".", "fs", ".", "read">>}

MCPatterns ==
  {MCRead,                              \* exact
   <<"*", ".", "read">>,                \* first
   <<"mcp", ".", "*">>,                 \* last
   <<"mcp", "*", "read">>,              \* in the middle
   <<"*", "read", "*">>,                \* on both sides
   <<"*", ".", "read", "*">>,           \* first, and once more
   <<"mcp", ".", "*", ".", "*">>}       \* last, and once more

MCLists == {{}} \cup {{p} : p \in MCPatterns}

MCSections ==
  {s \in [deny : MCLists, require_approval : MCLists, allow : MCLists] :
     {} \in {s.deny, s.require_approval, s.allow}}

MCConfigs ==
  {[tools |-> s, mcp |-> s] : s \in MCSections}
    \cup {[tools |-> [NoSection EXCEPT !.allow = {MCRead}], mcp |-> NoSection]}

-----------------------------------------------------------------------------
(* The other variables of a behaviour about the runs are of no account. *)
NoFile ==
  /\ policyFile = "valid" /\ file = <<>> /\ exit = Running
  /\ config = [tools |-> NoSection, mcp |-> NoSection] /\ asked = NotAsked /\ lane = <<>>

MCInit ==
  \/ subject = "runs" /\ Init /\ NoFile
  \/ subject = "command" /\ PolicedInit

MCNext ==
  \/ /\ subject = "runs"
     /\ Next
     /\ UNCHANGED <<cliVars, engineVars, subject>>
  \/ /\ subject = "command"
     /\ PolicedNext
     /\ Cardinality({r \in Runs : pc'[r] # "idle"}) <= 1
     /\ UNCHANGED subject

MCSpec == MCInit /\ [][MCNext]_mc_vars
=============================================================================
