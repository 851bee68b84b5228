------------------------------ MODULE McpServer ------------------------------
(***************************************************************************)
(* SingleStartMcpServer of harness/src/mcp.ts: one object that owns at     *)
(* most one MCP client over one stdio child process, driven by callers     *)
(* whose promises interleave at every await.                               *)
(*                                                                         *)
(* A caller runs one API call at a time; pc[p] names the await it is       *)
(* suspended at.  A session is the pair (transport, client) made by one    *)
(* connectOnce; sessions are numbered in the order they are spawned and 0  *)
(* stands for undefined.  this.transport and this.client are always        *)
(* assigned together and are one variable here.  The library behind them   *)
(* (spawn, the wire, the kill sequence of the base transport) is external. *)
(***************************************************************************)
EXTENDS Naturals, FiniteSets

CONSTANTS
  Callers,   \* Callers holding a reference to the server object.
  Cursors,   \* Values a peer may send as nextCursor.
  MaxCalls   \* Bound on the API calls made in one behaviour.

ASSUME MaxCallsAssumption == MaxCalls \in Nat

VARIABLES
  client,       \* this.client and this.transport: a session, or 0.
  initialized,  \* this.initialized.
  connecting,   \* this.connecting, the guard of connect().
  closing,      \* this.closing: "none", or where closeSession is suspended.
  target,       \* The session closeSession captured; 0 if it had none.
  generation,   \* this.listingGeneration.
  tools,        \* this.tools: the listing the server validates calls with.
  spawned,      \* Sessions created so far.
  live,         \* Sessions whose child process is running.
  shutting,     \* Sessions whose transport.close() has been called.
  shut,         \* Sessions whose transport.close() has resolved.
  pc,           \* Where each caller is suspended.
  sess,         \* The local `client` of each suspended call.
  held,         \* The listing a call is building, or validates with.
  seen,         \* The local `seen` of a listing.
  reply,        \* The page just received: {} or {nextCursor}.
  calls         \* API calls made so far.

server == <<client, initialized, connecting, closing, target, generation, tools>>
process == <<spawned, live, shutting, shut>>
locals == <<sess, held, seen, reply>>
vars == <<server, process, pc, locals, calls>>

(***************************************************************************)
(* A listing: the session and generation it was requested under, and what  *)
(* it says of the one tool that is tracked: "none" (not listed), "plain",  *)
(* or "task" (execution.taskSupport = "required").                         *)
(***************************************************************************)
ToolKinds == {"none", "plain", "task"}
Listing == [session : Nat, gen : Nat, kind : ToolKinds]
NoTools == [session |-> 0, gen |-> 0, kind |-> "none"]

ConnectStates == {"connClose", "connOpen", "handshake", "shaken", "refused",
                  "connUndo", "connEnd"}
PcStates == ConnectStates \cup {"idle", "closeWait", "closed", "listWait",
                                "listPage", "callWait"}

(* Where a caller that awaited this.closing resumes once it resolves. *)
Released(state) ==
  CASE state = "connClose" -> "connOpen"
    [] state = "connUndo"  -> "connEnd"
    [] state = "closeWait" -> "closed"
    [] OTHER               -> state

-----------------------------------------------------------------------------
Init ==
  /\ client = 0
  /\ initialized = FALSE
  /\ connecting = FALSE
  /\ closing = "none"
  /\ target = 0
  /\ generation = 0
  /\ tools = NoTools
  /\ spawned = 0
  /\ live = {}
  /\ shutting = {}
  /\ shut = {}
  /\ pc = [p \in Callers |-> "idle"]
  /\ sess = [p \in Callers |-> 0]
  /\ held = [p \in Callers |-> NoTools]
  /\ seen = [p \in Callers |-> {}]
  /\ reply = [p \in Callers |-> {}]
  /\ calls = 0

(* A caller enters an API method. *)
Enter(p, state) ==
  /\ pc[p] = "idle"
  /\ calls < MaxCalls
  /\ calls' = calls + 1
  /\ pc' = [pc EXCEPT ![p] = state]

(* A caller's promise settles: its locals are gone. *)
Return(p) ==
  /\ pc' = [pc EXCEPT ![p] = "idle"]
  /\ sess' = [sess EXCEPT ![p] = 0]
  /\ held' = [held EXCEPT ![p] = NoTools]
  /\ seen' = [seen EXCEPT ![p] = {}]
  /\ reply' = [reply EXCEPT ![p] = {}]
  /\ UNCHANGED calls

(* A slip: the listing of the old session stays. *)
InvalidateKeepingTools ==
  /\ generation' = generation + 1
  /\ UNCHANGED tools

(* invalidateToolsCache(), up to its await. *)
InvalidateListing ==
  /\ generation' = generation + 1
  /\ tools' = NoTools

(* A slip: the session is forgotten before it is captured. *)
StartCloseForgetting ==
  /\ closing' = "cache"
  /\ target' = 0
  /\ client' = 0
  /\ initialized' = FALSE
  /\ InvalidateListing

(* closeSession(), up to its first await. *)
StartCloseSession ==
  /\ closing' = "cache"
  /\ target' = client
  /\ client' = 0
  /\ initialized' = FALSE
  /\ InvalidateListing

(* this.close(): joins the close in progress, or starts one. *)
CallClose ==
  \/ /\ closing # "none"
     /\ UNCHANGED <<closing, target, client, initialized, generation, tools>>
  \/ /\ closing = "none"
     /\ StartCloseSession

(* The session's transport starts to close; a second close() joins it. *)
BeginShut(s) == shutting' = IF s \in shut THEN shutting ELSE shutting \cup {s}

(* Continuations of settled promises run before the event loop takes the   *)
(* next event from a pipe or a timer.  invalidateServerToolsCache() only    *)
(* touches memory, so the await on it is such a continuation too.           *)
Drained ==
  /\ closing # "cache"
  /\ closing = "transport" => target # 0 /\ target \notin shut
  /\ \A p \in Callers : pc[p] \notin {"connOpen", "shaken", "refused", "connEnd",
                                    "closed", "listPage"}

-----------------------------------------------------------------------------
(***************************************************************************)
(* connect() and connectOnce().                                            *)
(***************************************************************************)
Connect(p) ==
  /\ Enter(p, "connClose")
  /\ ~connecting
  /\ connecting' = TRUE
  /\ CallClose
  /\ UNCHANGED <<process, locals>>

(* new transport, new client, client.connect(): the child is spawned, or  *)
(* the spawn fails and the handshake is refused.                          *)
OpenSession(p) ==
  /\ pc[p] = "connOpen"
  /\ spawned' = spawned + 1
  /\ client' = spawned + 1
  /\ sess' = [sess EXCEPT ![p] = spawned + 1]
  /\ \/ /\ live' = live \cup {spawned + 1}
        /\ pc' = [pc EXCEPT ![p] = "handshake"]
     \/ /\ pc' = [pc EXCEPT ![p] = "refused"]
        /\ UNCHANGED live
  /\ UNCHANGED <<initialized, connecting, closing, target, generation, tools,
                 shutting, shut, held, seen, reply, calls>>

(* client.connect() settles.  On a timeout, or when the peer is gone, the *)
(* library rejects and starts to close the transport itself.              *)
HandshakeOk(p) ==
  /\ pc[p] = "handshake"
  /\ Drained
  /\ sess[p] \in live
  /\ pc' = [pc EXCEPT ![p] = "shaken"]
  /\ UNCHANGED <<server, process, locals, calls>>

HandshakeFail(p) ==
  /\ pc[p] = "handshake"
  /\ Drained
  /\ pc' = [pc EXCEPT ![p] = "refused"]
  /\ BeginShut(sess[p])
  /\ UNCHANGED <<server, spawned, live, shut, locals, calls>>

(* A slip: the session is not checked after the await. *)
InitializeUnchecked(p) ==
  /\ pc[p] = "shaken"
  /\ initialized' = TRUE
  /\ pc' = [pc EXCEPT ![p] = "connEnd"]
  /\ UNCHANGED <<client, connecting, closing, target, generation, tools,
                 process, locals, calls>>

(* The continuation of a successful handshake checks that the session is   *)
(* still the server's own before it marks it usable.                       *)
Initialize(p) ==
  /\ pc[p] = "shaken"
  /\ sess[p] = client
  /\ initialized' = TRUE
  /\ pc' = [pc EXCEPT ![p] = "connEnd"]
  /\ UNCHANGED <<client, connecting, closing, target, generation, tools,
                 process, locals, calls>>

(* The catch block: "session changed", or the handshake's own failure. *)
UndoConnect(p) ==
  /\ \/ pc[p] = "refused"
     \/ pc[p] = "shaken" /\ sess[p] # client
  /\ CallClose
  /\ pc' = [pc EXCEPT ![p] = "connUndo"]
  /\ UNCHANGED <<connecting, process, locals, calls>>

(* The finally block of connect(). *)
EndConnect(p) ==
  /\ pc[p] = "connEnd"
  /\ connecting' = FALSE
  /\ Return(p)
  /\ UNCHANGED <<client, initialized, closing, target, generation, tools, process>>

-----------------------------------------------------------------------------
(***************************************************************************)
(* close() and closeSession().                                             *)
(***************************************************************************)
Close(p) ==
  /\ Enter(p, "closeWait")
  /\ CallClose
  /\ UNCHANGED <<connecting, process, locals>>

(* A slip: transport.close(), without a look at what was captured. *)
CloseTransportBlindly ==
  /\ closing = "cache"
  /\ closing' = "transport"
  /\ BeginShut(target)
  /\ UNCHANGED <<client, initialized, connecting, target, generation, tools,
                 spawned, live, shut, pc, locals, calls>>

(* The cache invalidation resolved: transport?.close() is called. *)
CloseTransport ==
  /\ closing = "cache"
  /\ closing' = "transport"
  /\ IF target = 0 THEN UNCHANGED shutting ELSE BeginShut(target)
  /\ UNCHANGED <<client, initialized, connecting, target, generation, tools,
                 spawned, live, shut, pc, locals, calls>>

(* transport and client closed: this.closing is cleared, every caller that *)
(* awaited it becomes runnable.                                            *)
FinishClose ==
  /\ closing = "transport"
  /\ target = 0 \/ target \in shut
  /\ closing' = "none"
  /\ target' = 0
  /\ pc' = [p \in Callers |-> Released(pc[p])]
  /\ UNCHANGED <<client, initialized, connecting, generation, tools, process,
                 locals, calls>>

CloseReturns(p) ==
  /\ pc[p] = "closed"
  /\ Return(p)
  /\ UNCHANGED <<server, process>>

(* A slip: the signal is taken for the exit. *)
TransportClosedEarly(s) ==
  /\ s \in shutting
  /\ shutting' = shutting \ {s}
  /\ shut' = shut \cup {s}
  /\ UNCHANGED <<server, spawned, live, pc, locals, calls>>

(* JoiningStdioTransport.closeOnce(): the base transport has signalled the *)
(* child, and the close event of the child has been joined.                *)
TransportClosed(s) ==
  /\ s \in shutting
  /\ s \notin live
  /\ shutting' = shutting \ {s}
  /\ shut' = shut \cup {s}
  /\ UNCHANGED <<server, spawned, live, pc, locals, calls>>

(* The child exits: killed by a closing transport, or on its own. *)
ChildKilled(s) ==
  /\ s \in shutting \cap live
  /\ live' = live \ {s}
  /\ UNCHANGED <<server, spawned, shutting, shut, pc, locals, calls>>

ChildCrashes(s) ==
  /\ s \in live \ shutting
  /\ live' = live \ {s}
  /\ UNCHANGED <<server, spawned, shutting, shut, pc, locals, calls>>

-----------------------------------------------------------------------------
(***************************************************************************)
(* listTools() and invalidateToolsCache().                                 *)
(***************************************************************************)
(* connected() *)
Connected == client # 0 /\ initialized

ListTools(p) ==
  /\ Enter(p, "listWait")
  /\ Connected
  /\ sess' = [sess EXCEPT ![p] = client]
  /\ held' = [held EXCEPT ![p] = [session |-> client, gen |-> generation,
                                  kind |-> "none"]]
  /\ UNCHANGED <<server, process, seen, reply>>

(* A page of the captured client arrives; the tool is listed on it or not. *)
PageArrives(p) ==
  /\ pc[p] = "listWait"
  /\ Drained
  /\ sess[p] \in live
  /\ \E next \in {{}} \cup {{c} : c \in Cursors}, kind \in ToolKinds :
       /\ reply' = [reply EXCEPT ![p] = next]
       /\ held' = [held EXCEPT ![p].kind = IF @ = "none" THEN kind ELSE @]
  /\ pc' = [pc EXCEPT ![p] = "listPage"]
  /\ UNCHANGED <<server, process, sess, seen, calls>>

(* A slip: the cursors already seen are not consulted. *)
NextPageUnseen(p) ==
  /\ pc[p] = "listPage"
  /\ reply[p] # {}
  /\ seen' = [seen EXCEPT ![p] = @ \cup reply[p]]
  /\ reply' = [reply EXCEPT ![p] = {}]
  /\ pc' = [pc EXCEPT ![p] = "listWait"]
  /\ UNCHANGED <<server, process, sess, held, calls>>

(* Another page is announced, and its cursor is new. *)
NextPage(p) ==
  /\ pc[p] = "listPage"
  /\ reply[p] # {}
  /\ reply[p] \cap seen[p] = {}
  /\ seen' = [seen EXCEPT ![p] = @ \cup reply[p]]
  /\ reply' = [reply EXCEPT ![p] = {}]
  /\ pc' = [pc EXCEPT ![p] = "listWait"]
  /\ UNCHANGED <<server, process, sess, held, calls>>

(* A slip: only the session is compared. *)
SameSession(p) == sess[p] = client

(* The session and the generation a listing started under still hold. *)
StillCurrent(p) == sess[p] = client /\ held[p].gen = generation

(* The last page: the listing becomes the server's. *)
InstallTools(p) ==
  /\ pc[p] = "listPage"
  /\ reply[p] = {}
  /\ StillCurrent(p)
  /\ tools' = held[p]
  /\ Return(p)
  /\ UNCHANGED <<client, initialized, connecting, closing, target, generation, process>>

(* A repeated cursor, or a session that changed: the listing is dropped. *)
DropListing(p) ==
  /\ pc[p] = "listPage"
  /\ \/ reply[p] \cap seen[p] # {}
     \/ reply[p] = {} /\ ~StillCurrent(p)
  /\ Return(p)
  /\ UNCHANGED <<server, process>>

(* invalidateToolsCache() called from outside, as the Agents SDK may. *)
Invalidate(p) ==
  /\ Enter(p, "idle")
  /\ InvalidateListing
  /\ UNCHANGED <<client, initialized, connecting, closing, target, process, locals>>

-----------------------------------------------------------------------------
(***************************************************************************)
(* callToolResult(), callTool() and the resource methods.                  *)
(***************************************************************************)
(* The listed definition, if any, goes with the request and validates the *)
(* structured output; a task-only tool is refused before any request.     *)
CallTool(p) ==
  /\ Enter(p, "callWait")
  /\ tools.kind # "task"
  /\ Connected
  /\ sess' = [sess EXCEPT ![p] = client]
  /\ held' = [held EXCEPT ![p] = IF tools.kind = "none" THEN NoTools ELSE tools]
  /\ UNCHANGED <<server, process, seen, reply>>

(* listResources, listResourceTemplates, readResource: no definition. *)
ResourceRequest(p) ==
  /\ Enter(p, "callWait")
  /\ Connected
  /\ sess' = [sess EXCEPT ![p] = client]
  /\ held' = [held EXCEPT ![p] = NoTools]
  /\ UNCHANGED <<server, process, seen, reply>>

(* A call the server refuses before it does anything: a connect() while one *)
(* is in progress, a call without a usable session, a task-only tool.       *)
RefusedCall(p) ==
  /\ Enter(p, "idle")
  /\ connecting \/ ~Connected \/ tools.kind = "task"
  /\ UNCHANGED <<server, process, locals>>

(* A request settles without a further state change: an answer while the  *)
(* peer runs, otherwise a timeout, an abort or a closed connection.       *)
RequestSettles(p) ==
  /\ pc[p] \in {"callWait", "listWait"}
  /\ Return(p)
  /\ UNCHANGED <<server, process>>

-----------------------------------------------------------------------------
Call(p) ==
  \/ Connect(p)
  \/ Close(p)
  \/ ListTools(p)
  \/ Invalidate(p)
  \/ CallTool(p)
  \/ ResourceRequest(p)
  \/ RefusedCall(p)

(* The continuations and library events a suspended call waits for. *)
Resume(p) ==
  \/ OpenSession(p)
  \/ HandshakeOk(p)
  \/ HandshakeFail(p)
  \/ Initialize(p)
  \/ UndoConnect(p)
  \/ EndConnect(p)
  \/ CloseReturns(p)
  \/ PageArrives(p)
  \/ NextPage(p)
  \/ InstallTools(p)
  \/ DropListing(p)
  \/ RequestSettles(p)

Teardown ==
  \/ CloseTransport
  \/ FinishClose
  \/ \E s \in shutting : TransportClosed(s) \/ ChildKilled(s)

Crash == \E s \in live : ChildCrashes(s)

Next ==
  \/ \E p \in Callers : Call(p) \/ Resume(p)
  \/ Teardown
  \/ Crash

Spec == Init /\ [][Next]_vars

(***************************************************************************)
(* The event loop runs every continuation that is ready, each request and  *)
(* the handshake have a timeout, and the base transport escalates to       *)
(* SIGKILL.  Calls and crashes are never forced.                           *)
(***************************************************************************)
Fairness ==
  /\ \A p \in Callers : WF_vars(Resume(p))
  /\ WF_vars(Teardown)

FairSpec == Spec /\ Fairness

-----------------------------------------------------------------------------
(***************************************************************************)
(* Properties.                                                             *)
(***************************************************************************)
(* Every variable stays in its type: sessions are numbered up to spawned,  *)
(* closing and pc take the values of the awaits of connect/close/list/call. *)
TypeOK ==
  /\ spawned \in Nat
  /\ client \in 0..spawned
  /\ target \in 0..spawned
  /\ initialized \in BOOLEAN
  /\ connecting \in BOOLEAN
  /\ closing \in {"none", "cache", "transport"}
  /\ generation \in Nat
  /\ tools \in Listing
  /\ live \subseteq 1..spawned
  /\ shutting \subseteq 1..spawned
  /\ shut \subseteq 1..spawned
  /\ pc \in [Callers -> PcStates]
  /\ sess \in [Callers -> 0..spawned]
  /\ held \in [Callers -> Listing]
  /\ seen \in [Callers -> SUBSET Cursors]
  /\ reply \in [Callers -> SUBSET Cursors]
  /\ calls \in Nat

(* connect() runs only after the close it awaits, and close() resolves only *)
(* after the physical exit: two children of one server never run together.  *)
AtMostOnePeer == \A s, t \in live : s = t

(* No step of connect(), close() or a failed handshake loses a running      *)
(* child: it is the server's session, or the one a pending close() waits    *)
(* for.                                                                     *)
NoOrphanPeer ==
  \A s \in live : s = client \/ (s = target /\ closing # "none")

(* A listing that outlived an invalidation or its session is never the one  *)
(* callToolResult() looks its tools up in.                                  *)
ToolsCurrent ==
  tools # NoTools =>
    tools.session = client /\ tools.gen = generation /\ Connected

(* The definition a call carries was listed by the session the request goes *)
(* to, however close, reconnect and listing interleave.                     *)
ValidatedBySameSession ==
  \A p \in Callers :
    pc[p] = "callWait" => held[p] = NoTools \/ held[p].session = sess[p]

(* What the server promises its users, one peer at a time: see PeerLease.   *)
Lease == INSTANCE PeerLease WITH
  phase   <- IF client = 0 THEN "down"
             ELSE IF initialized THEN "usable" ELSE "starting",
  holder  <- client,
  running <- live,
  started <- spawned

(* connect/close implement the lease: a peer starts only when none runs and *)
(* none is held, becomes usable only while held, is never swapped.          *)
ImplementsLease == Lease!Spec

-----------------------------------------------------------------------------
(***************************************************************************)
(* The inductive invariant behind these properties.                        *)
(***************************************************************************)
(* Only the caller that holds the connecting guard is inside connect(). *)
OneConnector ==
  /\ \A p \in Callers : pc[p] \in ConnectStates => connecting
  /\ \A p, q \in Callers :
       pc[p] \in ConnectStates /\ pc[q] \in ConnectStates => p = q

(* What connect() has established at each of its awaits. *)
ConnectProgress ==
  \A p \in Callers :
    /\ pc[p] = "connClose" => closing # "none" /\ client = 0
    /\ pc[p] = "connOpen"  => client = 0 /\ target = 0 /\ live = {}
    /\ pc[p] \in {"handshake", "shaken"} => sess[p] # 0

(* A close captured the session it found.  One that found none can overlap *)
(* with the start of a session, but is over before its handshake is.       *)
CloseCaptures ==
  /\ closing = "none" => target = 0
  /\ closing # "none" /\ client # 0 =>
       /\ target = 0
       /\ \E q \in Callers :
            \/ pc[q] = "handshake"
            \/ pc[q] \in {"refused", "connUndo"} /\ client \notin live

(* A listing in flight cannot become current again once it is stale. *)
ListingInFlight ==
  \A p \in Callers :
    pc[p] \in {"listWait", "listPage"} =>
      /\ sess[p] # 0
      /\ held[p].session = sess[p]
      /\ held[p].gen <= generation
      /\ sess[p] = client /\ held[p].gen = generation => initialized

(* Everything above, the part that is inductive: what connect, close and   *)
(* the listings rely on from each other at every await.                    *)
IInv ==
  /\ TypeOK
  /\ OneConnector
  /\ ConnectProgress
  /\ CloseCaptures
  /\ NoOrphanPeer
  /\ shut \cap live = {}
  /\ initialized => client # 0
  /\ ListingInFlight
  /\ ToolsCurrent
  /\ ValidatedBySameSession

-----------------------------------------------------------------------------
(* Every call settles: a listing ends whatever cursors the peer repeats, a  *)
(* close() joins the child that is being killed.                            *)
EveryCallSettles == \A p \in Callers : pc[p] # "idle" ~> pc[p] = "idle"

(* A child the server no longer holds is eventually gone.                   *)
PeerReleased == \A s \in 1..MaxCalls : s \in live /\ s # client ~> s \notin live
=============================================================================
