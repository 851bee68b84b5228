--------------------------- MODULE McpServerProofs ---------------------------
(***************************************************************************)
(* Proofs about McpServer, for any set of callers, any cursors and any     *)
(* number of calls.  IInv is inductive; the safety properties and the      *)
(* refinement of PeerLease follow from it.                                 *)
(***************************************************************************)
EXTENDS McpServer, TLAPS

(* The empty listing is a listing. *)
LEMMA NoToolsType == NoTools \in Listing
  BY DEF NoTools, Listing, ToolKinds

(* The initial state satisfies the invariant. *)
LEMMA InitInv == Init => IInv
<1> SUFFICES ASSUME Init PROVE IInv
  OBVIOUS
<1> USE DEF Init
<1>1. TypeOK
  <2>1. initialized \in BOOLEAN /\ connecting \in BOOLEAN
    OBVIOUS
  <2>2. pc \in [Callers -> PcStates]
    BY DEF PcStates
  <2> QED
    BY <2>1, <2>2, NoToolsType DEF TypeOK
<1>2. OneConnector
  BY DEF OneConnector, ConnectStates
<1>3. ConnectProgress
  BY DEF ConnectProgress
<1>4. CloseCaptures /\ NoOrphanPeer
  BY DEF CloseCaptures, NoOrphanPeer
<1>5. ListingInFlight
  BY DEF ListingInFlight
<1>6. ToolsCurrent /\ ValidatedBySameSession
  BY DEF ToolsCurrent, ValidatedBySameSession
<1> QED
  BY <1>1, <1>2, <1>3, <1>4, <1>5, <1>6 DEF IInv

-----------------------------------------------------------------------------
(* close() called by anyone keeps the typing of the server's fields. *)
LEMMA CloseTypes ==
  ASSUME TypeOK, CallClose
  PROVE  /\ client' \in 0..spawned
         /\ target' \in 0..spawned
         /\ initialized' \in BOOLEAN
         /\ closing' \in {"none", "cache", "transport"}
         /\ generation' \in Nat
         /\ tools' \in Listing
<1>2. CASE closing # "none" /\ UNCHANGED <<closing, target, client, initialized,
                                          generation, tools>>
  BY <1>2 DEF TypeOK
<1>3. CASE StartCloseSession
  <2>1. initialized' \in BOOLEAN
    BY <1>3 DEF StartCloseSession
  <2> QED
    BY <1>3, <2>1, NoToolsType DEF TypeOK, StartCloseSession, InvalidateListing
<1> QED
  BY <1>2, <1>3 DEF CallClose

(* Every step keeps the types. *)
LEMMA TypeStep == IInv /\ [Next]_vars => TypeOK'
<1> SUFFICES ASSUME TypeOK, ConnectProgress, [Next]_vars PROVE TypeOK'
  BY DEF IInv
<1> USE NoToolsType DEF TypeOK, PcStates, ConnectStates, server, process, locals
<1>0. CASE UNCHANGED vars
  BY <1>0 DEF vars
<1>1. ASSUME NEW p \in Callers, Connect(p) PROVE TypeOK'
  BY <1>1, CloseTypes DEF Connect, Enter
<1>2. ASSUME NEW p \in Callers, Close(p) PROVE TypeOK'
  BY <1>2, CloseTypes DEF Close, Enter
<1>3. ASSUME NEW p \in Callers, ListTools(p) PROVE TypeOK'
  BY <1>3 DEF ListTools, Enter, Listing, ToolKinds
<1>4. ASSUME NEW p \in Callers, Invalidate(p) PROVE TypeOK'
  BY <1>4 DEF Invalidate, InvalidateListing, Enter
<1>5. ASSUME NEW p \in Callers, CallTool(p) PROVE TypeOK'
  BY <1>5 DEF CallTool, Enter
<1>6. ASSUME NEW p \in Callers, ResourceRequest(p) PROVE TypeOK'
  BY <1>6 DEF ResourceRequest, Enter
<1>7. ASSUME NEW p \in Callers, RefusedCall(p) PROVE TypeOK'
  BY <1>7 DEF RefusedCall, Enter
<1>8. ASSUME NEW p \in Callers, OpenSession(p) PROVE TypeOK'
  <2>1. PICK opened \in {"handshake", "refused"} :
           pc' = [pc EXCEPT ![p] = opened]
    BY <1>8 DEF OpenSession
  <2>2. pc' \in [Callers -> PcStates]
    BY <2>1
  <2>3. /\ live' \subseteq live \cup {spawned'}
        /\ 1..spawned \subseteq 1..spawned'
        /\ spawned' \in 1..spawned'
    BY <1>8 DEF OpenSession
  <2>4. sess' \in [Callers -> 0..spawned']
    BY <1>8 DEF OpenSession
  <2> QED
    BY <1>8, <2>2, <2>3, <2>4 DEF OpenSession
<1>9. ASSUME NEW p \in Callers, HandshakeOk(p) PROVE TypeOK'
  BY <1>9 DEF HandshakeOk
<1>10. ASSUME NEW p \in Callers, HandshakeFail(p) PROVE TypeOK'
  <2>1. sess[p] \in 1..spawned
    BY <1>10 DEF HandshakeFail, ConnectProgress
  <2>2. shutting' \subseteq 1..spawned
    BY <1>10, <2>1 DEF HandshakeFail, BeginShut
  <2> QED
    BY <1>10, <2>2 DEF HandshakeFail
<1>11. ASSUME NEW p \in Callers, Initialize(p) PROVE TypeOK'
  BY <1>11 DEF Initialize
<1>12. ASSUME NEW p \in Callers, UndoConnect(p) PROVE TypeOK'
  <2>1. CallClose
    BY <1>12 DEF UndoConnect
  <2>2. pc' \in [Callers -> PcStates]
    BY <1>12 DEF UndoConnect
  <2> QED
    BY <1>12, <2>1, <2>2, CloseTypes DEF UndoConnect
<1>13. ASSUME NEW p \in Callers, EndConnect(p) PROVE TypeOK'
  <2>1. connecting' \in BOOLEAN
    BY <1>13 DEF EndConnect
  <2> QED
    BY <1>13, <2>1 DEF EndConnect, Return
<1>14. ASSUME NEW p \in Callers, CloseReturns(p) PROVE TypeOK'
  BY <1>14 DEF CloseReturns, Return
<1>15. ASSUME NEW p \in Callers, PageArrives(p) PROVE TypeOK'
  <2>1. PICK next \in {{}} \cup {{c} : c \in Cursors}, kind \in ToolKinds :
           /\ reply' = [reply EXCEPT ![p] = next]
           /\ held' = [held EXCEPT ![p].kind = IF @ = "none" THEN kind ELSE @]
    BY <1>15 DEF PageArrives
  <2>2. reply' \in [Callers -> SUBSET Cursors]
    BY <2>1
  <2>3. held' \in [Callers -> Listing]
    BY <2>1 DEF Listing
  <2>4. pc' \in [Callers -> PcStates]
    BY <1>15 DEF PageArrives
  <2> QED
    BY <1>15, <2>2, <2>3, <2>4 DEF PageArrives
<1>16. ASSUME NEW p \in Callers, NextPage(p) PROVE TypeOK'
  BY <1>16 DEF NextPage
<1>17. ASSUME NEW p \in Callers, InstallTools(p) PROVE TypeOK'
  BY <1>17 DEF InstallTools, Return
<1>18. ASSUME NEW p \in Callers, DropListing(p) PROVE TypeOK'
  BY <1>18 DEF DropListing, Return
<1>19. ASSUME NEW p \in Callers, RequestSettles(p) PROVE TypeOK'
  BY <1>19 DEF RequestSettles, Return
<1>20. CASE CloseTransport
  <2>1. shutting' = shutting \/ (target # 0 /\ shutting' = shutting \cup {target})
    BY <1>20 DEF CloseTransport, BeginShut
  <2>2. target # 0 => target \in 1..spawned
    OBVIOUS
  <2>3. shutting' \subseteq 1..spawned
    BY <2>1, <2>2
  <2> QED
    BY <1>20, <2>3 DEF CloseTransport
<1>21. CASE FinishClose
  <2>1. \A q \in Callers : Released(pc[q]) \in PcStates
    BY DEF Released
  <2>2. pc' \in [Callers -> PcStates]
    BY <1>21, <2>1 DEF FinishClose
  <2> QED
    BY <1>21, <2>2 DEF FinishClose
<1>22. ASSUME NEW s \in shutting, TransportClosed(s) PROVE TypeOK'
  BY <1>22 DEF TransportClosed
<1>23. ASSUME NEW s \in shutting, ChildKilled(s) PROVE TypeOK'
  BY <1>23 DEF ChildKilled
<1>24. ASSUME NEW s \in live, ChildCrashes(s) PROVE TypeOK'
  BY <1>24 DEF ChildCrashes
<1> QED
  BY <1>0, <1>1, <1>2, <1>3, <1>4, <1>5, <1>6, <1>7, <1>8, <1>9, <1>10, <1>11,
     <1>12, <1>13, <1>14, <1>15, <1>16, <1>17, <1>18, <1>19, <1>20, <1>21,
     <1>22, <1>23, <1>24
  DEF Next, Call, Resume, Teardown, Crash

-----------------------------------------------------------------------------
(* The part of IInv about sessions, children and the two guards. *)
SessionInv ==
  /\ OneConnector
  /\ ConnectProgress
  /\ CloseCaptures
  /\ NoOrphanPeer
  /\ shut \cap live = {}
  /\ initialized => client # 0

(* A step of the calls that only use a session does not disturb it. *)
LEMMA UseStep ==
  ASSUME SessionInv,
         UNCHANGED <<client, initialized, connecting, closing, target, live, shut>>,
         \A q \in Callers :
           \/ pc'[q] = pc[q] /\ sess'[q] = sess[q]
           \/ pc[q] \notin ConnectStates /\ pc'[q] \notin ConnectStates
  PROVE  SessionInv'
<1> USE DEF SessionInv, ConnectStates
<1>1. OneConnector'
  BY DEF OneConnector
<1>2. ConnectProgress'
  BY DEF ConnectProgress
<1>3. CloseCaptures'
  BY DEF CloseCaptures
<1>4. NoOrphanPeer'
  BY DEF NoOrphanPeer
<1> QED
  BY <1>1, <1>2, <1>3, <1>4

(* Whoever calls close(), the running child is either still the server's   *)
(* session or the one the close captured.                                  *)
LEMMA CloseStep ==
  ASSUME TypeOK, SessionInv, CallClose, UNCHANGED <<live, shut>>
  PROVE  /\ NoOrphanPeer'
         /\ shut' \cap live' = {}
         /\ initialized' => client' # 0
         /\ closing' # "none"
         /\ client' \in {0, client}
         /\ client' # 0 => client' = client /\ closing # "none" /\ target' = target
         /\ client = 0 /\ target = 0 => client' = 0 /\ target' = 0
  BY DEF TypeOK, SessionInv, CallClose, StartCloseSession, NoOrphanPeer, CloseCaptures

(* Every step keeps the session part. *)
LEMMA SessionStep == TypeOK /\ SessionInv /\ [Next]_vars => SessionInv'
<1> SUFFICES ASSUME TypeOK, SessionInv, [Next]_vars PROVE SessionInv'
  OBVIOUS
<1> USE DEF ConnectStates, server, process, locals
<1>0. CASE UNCHANGED vars
  BY <1>0, UseStep DEF vars
<1>1. ASSUME NEW p \in Callers, Connect(p) PROVE SessionInv'
  <2>1. /\ CallClose /\ UNCHANGED <<live, shut>>
        /\ pc[p] = "idle" /\ ~connecting /\ connecting'
        /\ pc' = [pc EXCEPT ![p] = "connClose"]
    BY <1>1 DEF Connect, Enter
  <2>2. \A q \in Callers : pc[q] \notin ConnectStates
    BY <2>1 DEF SessionInv, OneConnector
  <2>3. closing # "none" => client = 0
    BY <2>2 DEF SessionInv, CloseCaptures
  <2>4. closing' # "none" /\ client' = 0
    BY <2>1, <2>3, CloseStep DEF CallClose, StartCloseSession
  <2>5. \A q \in Callers : q # p => pc'[q] \notin ConnectStates
    BY <2>1, <2>2 DEF TypeOK
  <2>6. OneConnector'
    BY <2>1, <2>5 DEF OneConnector
  <2>7. ConnectProgress'
    BY <2>1, <2>4, <2>5 DEF ConnectProgress, TypeOK
  <2>8. CloseCaptures'
    BY <2>4 DEF CloseCaptures
  <2> QED
    BY <2>1, <2>6, <2>7, <2>8, CloseStep DEF SessionInv
<1>2. ASSUME NEW p \in Callers, Close(p) PROVE SessionInv'
  <2>1. /\ CallClose /\ UNCHANGED <<live, shut, connecting, sess>>
        /\ pc[p] = "idle"
        /\ pc' = [pc EXCEPT ![p] = "closeWait"]
    BY <1>2 DEF Close, Enter
  <2>2. \A q \in Callers : pc'[q] \in ConnectStates \/ pc[q] \in ConnectStates
                           => q # p /\ pc'[q] = pc[q]
    BY <2>1 DEF TypeOK
  <2>3. OneConnector'
    BY <2>1, <2>2 DEF SessionInv, OneConnector
  <2>4. ConnectProgress'
    BY <2>1, <2>2, CloseStep DEF SessionInv, ConnectProgress
  <2>5. CloseCaptures'
    BY <2>1, <2>2, CloseStep DEF SessionInv, CloseCaptures
  <2> QED
    BY <2>1, <2>3, <2>4, <2>5, CloseStep DEF SessionInv
<1>3. ASSUME NEW p \in Callers, ListTools(p) PROVE SessionInv'
  BY <1>3, UseStep DEF ListTools, Enter, TypeOK
<1>4. ASSUME NEW p \in Callers, Invalidate(p) PROVE SessionInv'
  BY <1>4, UseStep DEF Invalidate, Enter, TypeOK
<1>5. ASSUME NEW p \in Callers, CallTool(p) PROVE SessionInv'
  BY <1>5, UseStep DEF CallTool, Enter, TypeOK
<1>6. ASSUME NEW p \in Callers, ResourceRequest(p) PROVE SessionInv'
  BY <1>6, UseStep DEF ResourceRequest, Enter, TypeOK
<1>7. ASSUME NEW p \in Callers, RefusedCall(p) PROVE SessionInv'
  BY <1>7, UseStep DEF RefusedCall, Enter, TypeOK
<1>8. ASSUME NEW p \in Callers, OpenSession(p) PROVE SessionInv'
  <2>1. /\ pc[p] = "connOpen" /\ client' = spawned + 1
        /\ sess' = [sess EXCEPT ![p] = spawned + 1]
        /\ UNCHANGED <<initialized, connecting, closing, target, shut>>
    BY <1>8 DEF OpenSession
  <2>2. client = 0 /\ target = 0 /\ live = {} /\ ~initialized
    BY <2>1 DEF SessionInv, ConnectProgress
  <2>3. PICK opened \in {"handshake", "refused"} :
           /\ pc' = [pc EXCEPT ![p] = opened]
           /\ live' = IF opened = "handshake" THEN {spawned + 1} ELSE {}
    BY <1>8, <2>2 DEF OpenSession
  <2>4. \A q \in Callers : q # p => pc'[q] \notin ConnectStates
    BY <2>1, <2>3 DEF SessionInv, OneConnector, TypeOK
  <2>5. OneConnector'
    BY <2>1, <2>4 DEF SessionInv, OneConnector
  <2>6. ConnectProgress'
    BY <2>1, <2>3, <2>4 DEF ConnectProgress, TypeOK
  <2>7. CloseCaptures'
    BY <2>1, <2>2, <2>3 DEF SessionInv, CloseCaptures, TypeOK
  <2>8. NoOrphanPeer' /\ shut' \cap live' = {}
    BY <2>1, <2>3 DEF NoOrphanPeer, TypeOK
  <2>9. initialized' => client' # 0
    BY <2>1, <2>2
  <2> QED
    BY <2>5, <2>6, <2>7, <2>8, <2>9 DEF SessionInv
<1>9. ASSUME NEW p \in Callers, HandshakeOk(p) PROVE SessionInv'
  <2>1. /\ pc[p] = "handshake" /\ Drained /\ pc' = [pc EXCEPT ![p] = "shaken"]
        /\ UNCHANGED <<client, initialized, connecting, closing, target, live, shut, sess>>
    BY <1>9 DEF HandshakeOk
  <2>2. closing # "none" => client = 0
    BY <2>1 DEF Drained, SessionInv, CloseCaptures, TypeOK
  <2>3. OneConnector'
    BY <2>1 DEF SessionInv, OneConnector, TypeOK
  <2>4. ConnectProgress'
    BY <2>1 DEF SessionInv, ConnectProgress, TypeOK
  <2>5. CloseCaptures'
    BY <2>1, <2>2 DEF SessionInv, CloseCaptures
  <2> QED
    BY <2>1, <2>3, <2>4, <2>5 DEF SessionInv, NoOrphanPeer
<1>10. ASSUME NEW p \in Callers, HandshakeFail(p) PROVE SessionInv'
  <2>1. /\ pc[p] = "handshake" /\ Drained /\ pc' = [pc EXCEPT ![p] = "refused"]
        /\ UNCHANGED <<client, initialized, connecting, closing, target, live, shut, sess>>
    BY <1>10 DEF HandshakeFail
  <2>2. closing # "none" => client = 0
    BY <2>1 DEF Drained, SessionInv, CloseCaptures, TypeOK
  <2>3. OneConnector'
    BY <2>1 DEF SessionInv, OneConnector, TypeOK
  <2>4. ConnectProgress'
    BY <2>1 DEF SessionInv, ConnectProgress, TypeOK
  <2>5. CloseCaptures'
    BY <2>1, <2>2 DEF SessionInv, CloseCaptures
  <2> QED
    BY <2>1, <2>3, <2>4, <2>5 DEF SessionInv, NoOrphanPeer
<1>11. ASSUME NEW p \in Callers, Initialize(p) PROVE SessionInv'
  <2>1. /\ pc[p] = "shaken" /\ sess[p] = client /\ initialized'
        /\ pc' = [pc EXCEPT ![p] = "connEnd"]
        /\ UNCHANGED <<client, connecting, closing, target, live, shut, sess>>
    BY <1>11 DEF Initialize
  <2>2. client # 0
    BY <2>1 DEF SessionInv, ConnectProgress
  <2>3. OneConnector'
    BY <2>1 DEF SessionInv, OneConnector, TypeOK
  <2>4. ConnectProgress'
    BY <2>1 DEF SessionInv, ConnectProgress, TypeOK
  <2>5. CloseCaptures'
    BY <2>1 DEF SessionInv, CloseCaptures, OneConnector, TypeOK
  <2> QED
    BY <2>1, <2>2, <2>3, <2>4, <2>5 DEF SessionInv, NoOrphanPeer
<1>12. ASSUME NEW p \in Callers, UndoConnect(p) PROVE SessionInv'
  <2>1. /\ CallClose /\ UNCHANGED <<live, shut, connecting, sess>>
        /\ pc[p] \in {"refused", "shaken"}
        /\ pc' = [pc EXCEPT ![p] = "connUndo"]
    BY <1>12 DEF UndoConnect
  <2>2. \A q \in Callers : q # p => pc'[q] = pc[q] /\ pc[q] \notin ConnectStates
    BY <2>1 DEF SessionInv, OneConnector, TypeOK
  <2>3. pc'[p] = "connUndo"
    BY <2>1 DEF TypeOK
  <2>4. OneConnector'
    BY <2>1, <2>2 DEF SessionInv, OneConnector
  <2>5. ConnectProgress'
    BY <2>2, <2>3 DEF ConnectProgress
  <2>6. client' # 0 => target' = 0 /\ client' \notin live'
    BY <2>1, <2>2, CloseStep DEF SessionInv, CloseCaptures
  <2>7. CloseCaptures'
    BY <2>1, <2>3, <2>6, CloseStep DEF CloseCaptures
  <2> QED
    BY <2>1, <2>4, <2>5, <2>7, CloseStep DEF SessionInv
<1>13. ASSUME NEW p \in Callers, EndConnect(p) PROVE SessionInv'
  <2>1. /\ pc[p] = "connEnd" /\ ~connecting'
        /\ pc' = [pc EXCEPT ![p] = "idle"]
        /\ UNCHANGED <<client, initialized, closing, target, live, shut>>
    BY <1>13 DEF EndConnect, Return
  <2>2. \A q \in Callers : q # p => pc[q] \notin ConnectStates
    BY <2>1 DEF SessionInv, OneConnector
  <2>3. \A q \in Callers : pc'[q] \notin ConnectStates
    BY <2>1, <2>2 DEF TypeOK
  <2>4. closing # "none" => client = 0
    BY <2>1, <2>2 DEF SessionInv, CloseCaptures
  <2>5. OneConnector' /\ ConnectProgress'
    BY <2>3 DEF OneConnector, ConnectProgress
  <2>6. CloseCaptures'
    BY <2>1, <2>4 DEF SessionInv, CloseCaptures
  <2> QED
    BY <2>1, <2>5, <2>6 DEF SessionInv, NoOrphanPeer
<1>14. ASSUME NEW p \in Callers, CloseReturns(p) PROVE SessionInv'
  BY <1>14, UseStep DEF CloseReturns, Return, TypeOK
<1>15. ASSUME NEW p \in Callers, PageArrives(p) PROVE SessionInv'
  BY <1>15, UseStep DEF PageArrives, TypeOK
<1>16. ASSUME NEW p \in Callers, NextPage(p) PROVE SessionInv'
  BY <1>16, UseStep DEF NextPage, TypeOK
<1>17. ASSUME NEW p \in Callers, InstallTools(p) PROVE SessionInv'
  BY <1>17, UseStep DEF InstallTools, Return, TypeOK
<1>18. ASSUME NEW p \in Callers, DropListing(p) PROVE SessionInv'
  BY <1>18, UseStep DEF DropListing, Return, TypeOK
<1>19. ASSUME NEW p \in Callers, RequestSettles(p) PROVE SessionInv'
  BY <1>19, UseStep DEF RequestSettles, Return, TypeOK
<1>20. CASE CloseTransport
  <2>1. /\ closing = "cache" /\ closing' = "transport"
        /\ UNCHANGED <<client, initialized, connecting, target, live, shut, pc, sess>>
    BY <1>20 DEF CloseTransport
  <2>2. OneConnector' /\ ConnectProgress'
    BY <2>1 DEF SessionInv, OneConnector, ConnectProgress
  <2>3. CloseCaptures' /\ NoOrphanPeer'
    BY <2>1 DEF SessionInv, CloseCaptures, NoOrphanPeer
  <2> QED
    BY <2>1, <2>2, <2>3 DEF SessionInv
<1>21. CASE FinishClose
  <2>1. /\ closing = "transport" /\ (target = 0 \/ target \in shut)
        /\ closing' = "none" /\ target' = 0
        /\ pc' = [q \in Callers |-> Released(pc[q])]
        /\ UNCHANGED <<client, initialized, connecting, live, shut, sess>>
    BY <1>21 DEF FinishClose
  <2>2. target \notin live
    BY <2>1 DEF SessionInv, TypeOK
  <2>3. \A q \in Callers :
           /\ pc'[q] \in ConnectStates => pc[q] \in ConnectStates
           /\ pc'[q] # "connClose"
           /\ pc'[q] = "connOpen" => pc[q] \in {"connClose", "connOpen"}
           /\ pc'[q] \in {"handshake", "shaken"} => pc'[q] = pc[q]
    BY <2>1 DEF Released
  <2>4. OneConnector'
    BY <2>1, <2>3 DEF SessionInv, OneConnector
  <2>5. client = 0 => live = {}
    BY <2>2 DEF SessionInv, NoOrphanPeer, TypeOK
  <2>6. ConnectProgress'
    BY <2>1, <2>3, <2>5 DEF SessionInv, ConnectProgress
  <2>7. CloseCaptures' /\ NoOrphanPeer'
    BY <2>1, <2>2 DEF SessionInv, CloseCaptures, NoOrphanPeer
  <2> QED
    BY <2>1, <2>4, <2>6, <2>7 DEF SessionInv
<1>22. ASSUME NEW s \in shutting, TransportClosed(s) PROVE SessionInv'
  BY <1>22 DEF TransportClosed, SessionInv, OneConnector, ConnectProgress,
               CloseCaptures, NoOrphanPeer
<1>23. ASSUME NEW s \in live, ChildKilled(s) \/ ChildCrashes(s) PROVE SessionInv'
  BY <1>23 DEF ChildKilled, ChildCrashes, SessionInv, OneConnector,
               ConnectProgress, CloseCaptures, NoOrphanPeer
<1> QED
  BY <1>0, <1>1, <1>2, <1>3, <1>4, <1>5, <1>6, <1>7, <1>8, <1>9, <1>10, <1>11,
     <1>12, <1>13, <1>14, <1>15, <1>16, <1>17, <1>18, <1>19, <1>20, <1>21,
     <1>22, <1>23
  DEF Next, Call, Resume, Teardown, Crash, ChildKilled

-----------------------------------------------------------------------------
(* The part of IInv about listings and the calls that use them. *)
ListingInv == ListingInFlight /\ ToolsCurrent /\ ValidatedBySameSession

(* A step that changes neither the session nor the listing of the server,  *)
(* and starts no listing and no call, keeps it.                            *)
LEMMA IdleStep ==
  ASSUME ListingInv,
         UNCHANGED <<client, initialized, generation, tools>>,
         \A q \in Callers :
           \/ UNCHANGED <<pc[q], sess[q], held[q]>>
           \/ pc'[q] \notin {"listWait", "listPage", "callWait"}
  PROVE  ListingInv'
<1> USE DEF ListingInv
<1>1. ListingInFlight'
  BY DEF ListingInFlight
<1>2. ToolsCurrent'
  BY DEF ToolsCurrent, Connected
<1>3. ValidatedBySameSession'
  BY DEF ValidatedBySameSession
<1> QED
  BY <1>1, <1>2, <1>3

(* Forgetting the listing keeps it, if the generation moves. *)
LEMMA InvalidateStep ==
  ASSUME TypeOK, ListingInv, InvalidateListing, client' \in {0, client},
         client' # 0 => UNCHANGED initialized,
         \A q \in Callers :
           \/ UNCHANGED <<pc[q], sess[q], held[q]>>
           \/ pc'[q] \notin {"listWait", "listPage", "callWait"}
  PROVE  ListingInv'
<1> USE DEF ListingInv, InvalidateListing
<1>1. ASSUME NEW q \in Callers, pc'[q] \in {"listWait", "listPage"}
      PROVE  /\ sess'[q] # 0
             /\ held'[q].session = sess'[q]
             /\ held'[q].gen <= generation'
             /\ held'[q].gen # generation'
  <2>1. sess[q] # 0 /\ held[q].session = sess[q] /\ held[q].gen <= generation
    BY <1>1 DEF ListingInFlight
  <2>2. held[q].gen \in Nat /\ generation \in Nat
    BY DEF TypeOK, Listing
  <2> QED
    BY <1>1, <2>1, <2>2
<1>2. ListingInFlight'
  BY <1>1 DEF ListingInFlight
<1>3. ToolsCurrent'
  BY DEF ToolsCurrent
<1>4. ValidatedBySameSession'
  BY DEF ValidatedBySameSession
<1> QED
  BY <1>2, <1>3, <1>4

(* close() keeps it, whoever calls it. *)
LEMMA CloseListingStep ==
  ASSUME TypeOK, ListingInv, CallClose,
         \A q \in Callers :
           \/ UNCHANGED <<pc[q], sess[q], held[q]>>
           \/ pc'[q] \notin {"listWait", "listPage", "callWait"}
  PROVE  ListingInv'
  BY IdleStep, InvalidateStep DEF CallClose, StartCloseSession

(* Every step keeps the listing part. *)
LEMMA ListingStep == TypeOK /\ SessionInv /\ ListingInv /\ [Next]_vars => ListingInv'
<1> SUFFICES ASSUME TypeOK, SessionInv, ListingInv, [Next]_vars PROVE ListingInv'
  OBVIOUS
<1> USE DEF server, process, locals
<1>0. CASE UNCHANGED vars
  BY <1>0, IdleStep DEF vars
<1>1. ASSUME NEW p \in Callers, Connect(p) PROVE ListingInv'
  BY <1>1, CloseListingStep DEF Connect, Enter, TypeOK
<1>2. ASSUME NEW p \in Callers, Close(p) PROVE ListingInv'
  BY <1>2, CloseListingStep DEF Close, Enter, TypeOK
<1>3. ASSUME NEW p \in Callers, ListTools(p) PROVE ListingInv'
  <2>1. /\ pc' = [pc EXCEPT ![p] = "listWait"]
        /\ sess' = [sess EXCEPT ![p] = client]
        /\ held' = [held EXCEPT ![p] = [session |-> client, gen |-> generation,
                                       kind |-> "none"]]
        /\ client # 0 /\ initialized
        /\ UNCHANGED <<client, initialized, generation, tools>>
    BY <1>3 DEF ListTools, Enter, Connected
  <2>2. ListingInFlight'
    BY <2>1 DEF ListingInv, ListingInFlight, TypeOK
  <2>3. ToolsCurrent'
    BY <2>1 DEF ListingInv, ToolsCurrent, Connected
  <2>4. ValidatedBySameSession'
    BY <2>1 DEF ListingInv, ValidatedBySameSession, TypeOK
  <2> QED
    BY <2>2, <2>3, <2>4 DEF ListingInv
<1>4. ASSUME NEW p \in Callers, Invalidate(p) PROVE ListingInv'
  BY <1>4, InvalidateStep DEF Invalidate, Enter, TypeOK
<1>5. ASSUME NEW p \in Callers, CallTool(p) PROVE ListingInv'
  <2>1. /\ pc' = [pc EXCEPT ![p] = "callWait"]
        /\ sess' = [sess EXCEPT ![p] = client]
        /\ held' = [held EXCEPT ![p] = IF tools.kind = "none" THEN NoTools ELSE tools]
        /\ UNCHANGED <<client, initialized, generation, tools>>
    BY <1>5 DEF CallTool, Enter
  <2>2. ListingInFlight'
    BY <2>1 DEF ListingInv, ListingInFlight, TypeOK
  <2>3. ToolsCurrent'
    BY <2>1 DEF ListingInv, ToolsCurrent, Connected
  <2>4. held'[p] = NoTools \/ held'[p].session = sess'[p]
    BY <2>1 DEF ListingInv, ToolsCurrent, TypeOK
  <2>5. ValidatedBySameSession'
    BY <2>1, <2>4 DEF ListingInv, ValidatedBySameSession, TypeOK
  <2> QED
    BY <2>2, <2>3, <2>5 DEF ListingInv
<1>6. ASSUME NEW p \in Callers, ResourceRequest(p) PROVE ListingInv'
  <2>1. /\ pc' = [pc EXCEPT ![p] = "callWait"]
        /\ held' = [held EXCEPT ![p] = NoTools]
        /\ \A q \in Callers : q # p => sess'[q] = sess[q]
        /\ UNCHANGED <<client, initialized, generation, tools>>
    BY <1>6 DEF ResourceRequest, Enter, TypeOK
  <2>2. ListingInFlight' /\ ValidatedBySameSession'
    BY <2>1 DEF ListingInv, ListingInFlight, ValidatedBySameSession, TypeOK
  <2>3. ToolsCurrent'
    BY <2>1 DEF ListingInv, ToolsCurrent, Connected
  <2> QED
    BY <2>2, <2>3 DEF ListingInv
<1>7. ASSUME NEW p \in Callers, RefusedCall(p) PROVE ListingInv'
  BY <1>7, IdleStep DEF RefusedCall, Enter, TypeOK
<1>8. ASSUME NEW p \in Callers, OpenSession(p) PROVE ListingInv'
  <2>1. /\ pc[p] = "connOpen" /\ client = 0 /\ ~initialized
        /\ client' = spawned + 1
        /\ sess' = [sess EXCEPT ![p] = spawned + 1]
        /\ UNCHANGED <<initialized, generation, tools, held>>
    BY <1>8 DEF OpenSession, SessionInv, ConnectProgress
  <2>2. pc'[p] \in {"handshake", "refused"} /\ \A q \in Callers : q # p => pc'[q] = pc[q]
    BY <1>8 DEF OpenSession, TypeOK
  <2>3. \A q \in Callers : q # p => sess'[q] = sess[q] /\ sess[q] # client'
    BY <2>1 DEF TypeOK
  <2>4. ListingInFlight'
    BY <2>1, <2>2, <2>3 DEF ListingInv, ListingInFlight
  <2>5. ToolsCurrent'
    BY <2>1 DEF ListingInv, ToolsCurrent, Connected
  <2>6. ValidatedBySameSession'
    BY <2>1, <2>2, <2>3 DEF ListingInv, ValidatedBySameSession
  <2> QED
    BY <2>4, <2>5, <2>6 DEF ListingInv
<1>9. ASSUME NEW p \in Callers, HandshakeOk(p) PROVE ListingInv'
  BY <1>9, IdleStep DEF HandshakeOk, TypeOK
<1>10. ASSUME NEW p \in Callers, HandshakeFail(p) PROVE ListingInv'
  BY <1>10, IdleStep DEF HandshakeFail, TypeOK
<1>11. ASSUME NEW p \in Callers, Initialize(p) PROVE ListingInv'
  <2>1. /\ initialized' /\ pc' = [pc EXCEPT ![p] = "connEnd"]
        /\ UNCHANGED <<client, generation, tools, sess, held>>
    BY <1>11 DEF Initialize
  <2>2. ListingInFlight' /\ ValidatedBySameSession'
    BY <2>1 DEF ListingInv, ListingInFlight, ValidatedBySameSession, TypeOK
  <2>3. ToolsCurrent'
    BY <2>1 DEF ListingInv, ToolsCurrent, Connected
  <2> QED
    BY <2>2, <2>3 DEF ListingInv
<1>12. ASSUME NEW p \in Callers, UndoConnect(p) PROVE ListingInv'
  BY <1>12, CloseListingStep DEF UndoConnect, TypeOK
<1>13. ASSUME NEW p \in Callers, EndConnect(p) PROVE ListingInv'
  BY <1>13, IdleStep DEF EndConnect, Return, TypeOK
<1>14. ASSUME NEW p \in Callers, CloseReturns(p) PROVE ListingInv'
  BY <1>14, IdleStep DEF CloseReturns, Return, TypeOK
<1>15. ASSUME NEW p \in Callers, PageArrives(p) PROVE ListingInv'
  <2>1. PICK kind \in ToolKinds :
           held' = [held EXCEPT ![p].kind = IF @ = "none" THEN kind ELSE @]
    BY <1>15 DEF PageArrives
  <2>2. /\ pc[p] = "listWait" /\ pc' = [pc EXCEPT ![p] = "listPage"]
        /\ UNCHANGED <<client, initialized, generation, tools, sess>>
    BY <1>15 DEF PageArrives
  <2>3. \A q \in Callers : /\ held'[q].session = held[q].session
                           /\ held'[q].gen = held[q].gen
                           /\ q # p => held'[q] = held[q]
    BY <2>1 DEF TypeOK, Listing
  <2>4. ListingInFlight'
    BY <2>2, <2>3 DEF ListingInv, ListingInFlight, TypeOK
  <2>5. ToolsCurrent'
    BY <2>2 DEF ListingInv, ToolsCurrent, Connected
  <2>6. ValidatedBySameSession'
    BY <2>2, <2>3 DEF ListingInv, ValidatedBySameSession, TypeOK
  <2> QED
    BY <2>4, <2>5, <2>6 DEF ListingInv
<1>16. ASSUME NEW p \in Callers, NextPage(p) PROVE ListingInv'
  <2>1. /\ pc[p] = "listPage" /\ pc' = [pc EXCEPT ![p] = "listWait"]
        /\ UNCHANGED <<client, initialized, generation, tools, sess, held>>
    BY <1>16 DEF NextPage
  <2>2. ListingInFlight' /\ ValidatedBySameSession'
    BY <2>1 DEF ListingInv, ListingInFlight, ValidatedBySameSession, TypeOK
  <2>3. ToolsCurrent'
    BY <2>1 DEF ListingInv, ToolsCurrent, Connected
  <2> QED
    BY <2>2, <2>3 DEF ListingInv
<1>17. ASSUME NEW p \in Callers, InstallTools(p) PROVE ListingInv'
  <2>1. /\ pc[p] = "listPage" /\ sess[p] = client /\ held[p].gen = generation
        /\ tools' = held[p]
        /\ UNCHANGED <<client, initialized, generation>>
    BY <1>17 DEF InstallTools, StillCurrent
  <2>2. /\ pc' = [pc EXCEPT ![p] = "idle"]
        /\ sess' = [sess EXCEPT ![p] = 0]
        /\ held' = [held EXCEPT ![p] = NoTools]
    BY <1>17 DEF InstallTools, Return
  <2>3. ToolsCurrent'
    BY <2>1 DEF ListingInv, ListingInFlight, ToolsCurrent, Connected
  <2>4. ListingInFlight' /\ ValidatedBySameSession'
    BY <2>1, <2>2 DEF ListingInv, ListingInFlight, ValidatedBySameSession, TypeOK
  <2> QED
    BY <2>3, <2>4 DEF ListingInv
<1>18. ASSUME NEW p \in Callers, DropListing(p) PROVE ListingInv'
  BY <1>18, IdleStep DEF DropListing, Return, TypeOK
<1>19. ASSUME NEW p \in Callers, RequestSettles(p) PROVE ListingInv'
  BY <1>19, IdleStep DEF RequestSettles, Return, TypeOK
<1>20. CASE CloseTransport
  BY <1>20, IdleStep DEF CloseTransport
<1>21. CASE FinishClose
  <2>1. /\ pc' = [q \in Callers |-> Released(pc[q])]
        /\ UNCHANGED <<client, initialized, generation, tools, sess, held>>
    BY <1>21 DEF FinishClose
  <2>2. \A q \in Callers : \/ pc'[q] = pc[q]
                           \/ pc'[q] \notin {"listWait", "listPage", "callWait"}
    BY <2>1 DEF Released
  <2> QED
    BY <2>1, <2>2, IdleStep
<1>22. ASSUME NEW s \in shutting, TransportClosed(s) PROVE ListingInv'
  BY <1>22, IdleStep DEF TransportClosed
<1>23. ASSUME NEW s \in live, ChildKilled(s) \/ ChildCrashes(s) PROVE ListingInv'
  BY <1>23, IdleStep DEF ChildKilled, ChildCrashes
<1> QED
  BY <1>0, <1>1, <1>2, <1>3, <1>4, <1>5, <1>6, <1>7, <1>8, <1>9, <1>10, <1>11,
     <1>12, <1>13, <1>14, <1>15, <1>16, <1>17, <1>18, <1>19, <1>20, <1>21,
     <1>22, <1>23
  DEF Next, Call, Resume, Teardown, Crash, ChildKilled

-----------------------------------------------------------------------------
(* At any time at most one child of a server object runs, and it is the    *)
(* session the server holds or the one its pending close() captured.       *)
LEMMA OnePeer == IInv => AtMostOnePeer
  BY DEF IInv, TypeOK, AtMostOnePeer, NoOrphanPeer, CloseCaptures

(* IInv holds in every reachable state. *)
THEOREM Invariance == Spec => []IInv
<1>1. IInv /\ [Next]_vars => IInv'
  BY TypeStep, SessionStep, ListingStep DEF IInv, SessionInv, ListingInv
<1> QED
  BY InitInv, <1>1, PTL DEF Spec

(* Type correctness of the whole server object. *)
THEOREM TypeCorrect == Spec => []TypeOK
<1>1. IInv => TypeOK
  BY DEF IInv
<1> QED
  BY Invariance, <1>1, PTL

(* Two children of one server never run together. *)
THEOREM PeerExclusion == Spec => []AtMostOnePeer
  BY Invariance, OnePeer, PTL

(* No interleaving of connect, close and failing handshakes loses a child. *)
THEOREM NoOrphans == Spec => []NoOrphanPeer
<1>1. IInv => NoOrphanPeer
  BY DEF IInv
<1> QED
  BY Invariance, <1>1, PTL

(* Tools are looked up in, and structured output is validated with, a      *)
(* listing of the session and the generation in force.                     *)
THEOREM ListingsCurrent == Spec => [](ToolsCurrent /\ ValidatedBySameSession)
<1>1. IInv => ToolsCurrent /\ ValidatedBySameSession
  BY DEF IInv
<1> QED
  BY Invariance, <1>1, PTL

(* callTool() validates with a definition that the connected session      *)
(* listed, however many sessions came between.                             *)
THEOREM CallsAreOfTheirSession == Spec => []ValidatedBySameSession
BY ListingsCurrent, PTL

-----------------------------------------------------------------------------
(* The initial state of the server is an initial state of the lease. *)
LEMMA LeaseInit == Init => Lease!Init
  BY DEF Init, Lease!Init

(* close() gives the lease up, or finds nothing to give up. *)
LEMMA LeaseClose ==
  ASSUME IInv, CallClose, UNCHANGED <<live, spawned>>
  PROVE  Lease!GiveUp \/ UNCHANGED Lease!vars
  BY DEF CallClose, StartCloseSession, Lease!GiveUp, Lease!vars

(* Every step of the server is a step of the lease or leaves it alone. *)
LEMMA LeaseStep == IInv /\ [Next]_vars => [Lease!Next]_(Lease!vars)
<1> SUFFICES ASSUME IInv, [Next]_vars PROVE Lease!Next \/ UNCHANGED Lease!vars
  OBVIOUS
<1> USE DEF server, process, locals
<1>0. CASE UNCHANGED <<client, initialized, live, spawned>>
  BY <1>0 DEF Lease!vars
<1>1. ASSUME NEW p \in Callers, Connect(p) \/ Close(p) \/ UndoConnect(p)
      PROVE  Lease!GiveUp \/ UNCHANGED Lease!vars
  BY <1>1, LeaseClose DEF Connect, Close, UndoConnect
<1>2. ASSUME NEW p \in Callers, OpenSession(p) PROVE Lease!Start
  <2>1. client = 0 /\ live = {} /\ ~initialized /\ ~initialized'
    BY <1>2 DEF OpenSession, IInv, ConnectProgress
  <2>2. spawned' = spawned + 1 /\ client' = spawned' /\ spawned' # 0
    BY <1>2 DEF OpenSession, IInv, TypeOK
  <2>3. live' \in {{}, {spawned'}}
    BY <1>2, <2>1, <2>2 DEF OpenSession
  <2> QED
    BY <2>1, <2>2, <2>3 DEF Lease!Start
<1>3. ASSUME NEW p \in Callers, Initialize(p)
      PROVE  Lease!Serve \/ UNCHANGED Lease!vars
  <2>1. client # 0
    BY <1>3 DEF Initialize, IInv, ConnectProgress
  <2> QED
    BY <1>3, <2>1 DEF Initialize, Lease!Serve, Lease!vars
<1>4. ASSUME NEW s \in live, ChildKilled(s) \/ ChildCrashes(s) PROVE Lease!Exit
  <2>1. live = {s}
    BY OnePeer DEF AtMostOnePeer
  <2> QED
    BY <1>4, <2>1 DEF ChildKilled, ChildCrashes, Lease!Exit
<1>5. CASE UNCHANGED vars
  BY <1>0, <1>5 DEF vars
<1>6. ASSUME NEW p \in Callers,
             \/ ListTools(p) \/ Invalidate(p) \/ CallTool(p) \/ ResourceRequest(p)
             \/ RefusedCall(p) \/ HandshakeOk(p) \/ HandshakeFail(p)
             \/ EndConnect(p) \/ CloseReturns(p) \/ PageArrives(p) \/ NextPage(p)
             \/ InstallTools(p) \/ DropListing(p) \/ RequestSettles(p)
      PROVE  UNCHANGED <<client, initialized, live, spawned>>
  BY <1>6 DEF ListTools, Invalidate, CallTool, ResourceRequest, RefusedCall,
              HandshakeOk, HandshakeFail, EndConnect, CloseReturns, PageArrives,
              NextPage, InstallTools, DropListing, RequestSettles
<1>7. ASSUME NEW s, CloseTransport \/ FinishClose \/ TransportClosed(s)
      PROVE  UNCHANGED <<client, initialized, live, spawned>>
  BY <1>7 DEF CloseTransport, FinishClose, TransportClosed
<1> QED
  BY <1>0, <1>1, <1>2, <1>3, <1>4, <1>5, <1>6, <1>7
  DEF Next, Call, Resume, Teardown, Crash, ChildKilled, Lease!Next

(* The server implements the lease on one peer at a time. *)
THEOREM Refinement == Spec => ImplementsLease
  BY LeaseInit, LeaseStep, Invariance, PTL DEF Spec, ImplementsLease, Lease!Spec
=============================================================================
