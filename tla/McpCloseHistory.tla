--------------------------- MODULE McpCloseHistory ---------------------------
(***************************************************************************)
(* McpServer with one history variable: the order in which the calls that  *)
(* are suspended were made.                                                *)
(***************************************************************************)
EXTENDS McpServer

VARIABLE born   \* The number of the call each caller made last.

HistoryInit == Init /\ born = [p \in Callers |-> 0]

HistoryNext ==
  \/ \E p \in Callers : Call(p) /\ born' = [born EXCEPT ![p] = calls']
  \/ /\ \/ \E p \in Callers : Resume(p)
        \/ Teardown
        \/ Crash
     /\ UNCHANGED born

HistorySpec == HistoryInit /\ [][HistoryNext]_<<vars, born>>

(* When close() resolves, no child of a connect() that was called before it *)
(* is running: the promise the compatibility test states as "close must     *)
(* terminate every fixture child".                                          *)
CloseTerminatesEarlierPeers ==
  \A p, q \in Callers :
    pc[p] = "closed" /\ pc[q] = "handshake" /\ sess[q] \in live
      => born[q] > born[p]
=============================================================================
