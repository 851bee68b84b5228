------------------------------ MODULE PeerLease ------------------------------
(***************************************************************************)
(* What SingleStartMcpServer (harness/src/mcp.ts) promises its users: a    *)
(* lease on one peer process at a time.  A peer is started only when no    *)
(* other runs, serves only while it is the one held, and is given up at    *)
(* most once; which promises interleave on the way is not visible here.    *)
(***************************************************************************)
EXTENDS Naturals

VARIABLES
  phase,    \* "down", "starting" or "usable".
  holder,   \* The peer that is held, 0 when the phase is down.
  running,  \* The peers whose process runs.
  started   \* Peers started so far.

vars == <<phase, holder, running, started>>

Init ==
  /\ phase = "down"
  /\ holder = 0
  /\ running = {}
  /\ started = 0

(* A new peer is held; its process runs unless it could not be started. *)
Start ==
  /\ phase = "down"
  /\ running = {}
  /\ phase' = "starting"
  /\ started' = started + 1
  /\ holder' = started'
  /\ running' \in {{}, {started'}}

Serve ==
  /\ phase = "starting"
  /\ phase' = "usable"
  /\ UNCHANGED <<holder, running, started>>

(* The peer is given up; its process may still run for a while. *)
GiveUp ==
  /\ phase # "down"
  /\ phase' = "down"
  /\ holder' = 0
  /\ UNCHANGED <<running, started>>

(* A process ends, whether it was asked to or not. *)
Exit ==
  /\ running # {}
  /\ running' = {}
  /\ UNCHANGED <<phase, holder, started>>

Next == Start \/ Serve \/ GiveUp \/ Exit

Spec == Init /\ [][Next]_vars
=============================================================================
