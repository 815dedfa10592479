----------------------------- MODULE Dashboard -----------------------------
(***************************************************************************)
(* The live dashboard: the hook useDashboardData of one open tab           *)
(* (frontend hooks/useDashboardData.js), the one-use tickets it connects   *)
(* with (utils/wsTicket.js), and the socket server that builds and pushes  *)
(* payloads (ws/dashboardSocket.server.js).                                *)
(*                                                                         *)
(* A ticket names the socket opened with it.  A payload is the version of  *)
(* the user's data it was built from; its range is the socket's.           *)
(***************************************************************************)
EXTENDS Integers, FiniteSets, Sequences

CONSTANTS
  Tickets,    \* values issueTicket may return; a value is free again when nothing refers to it
  Ranges,     \* ranges the user may select
  MaxPending, \* cap on the map of tickets
  TTL,        \* life of a ticket, in ticks
  MaxVersion, \* bound on changes of the user's data
  MaxMoves,   \* bound on selections of another range
  MaxIdle,    \* bound on tickets asked for and not used: other tabs, abandoned requests
  MaxBuilds,  \* bound on payloads being built together
  MaxQueue,   \* bound on payloads on their way in one socket
  MaxFaults,  \* bound on lost replies and connections, slow handshakes and crashes
  None

ASSUME DashboardAssumption ==
  /\ MaxPending \in Nat \ {0} /\ TTL \in Nat \ {0}
  /\ {MaxVersion, MaxMoves, MaxIdle, MaxBuilds, MaxQueue, MaxFaults} \subseteq Nat
  /\ None \notin Tickets \cup Ranges \cup Int

VARIABLES
  pending,  \* the map of tickets: age of each, None when it has no entry
  socks,    \* the sockets, by ticket
  builds,   \* payloads being built: the version read, and the sockets they are for
  version,  \* version of the user's data in the database
  page,     \* the hook: the range, where its current effect stands, and its socket (or ticket)
  shown,    \* what setData holds: version and range, None at first
  moves, idle, faults

vars == <<pending, socks, builds, version, page, shown, moves, idle, faults>>

NoSocket == [state |-> "none", range |-> None, queue |-> <<>>]
Fault == faults < MaxFaults /\ faults' = faults + 1

Init ==
  /\ pending = [t \in Tickets |-> None] /\ socks = [t \in Tickets |-> NoSocket] /\ builds = {}
  /\ version = 0 /\ shown = None /\ moves = 0 /\ idle = 0 /\ faults = 0
  /\ \E r \in Ranges : page = [range |-> r, stage |-> "ask", ws |-> None]

Entries == {t \in Tickets : pending[t] # None}
Valid(t) == pending[t] # None /\ pending[t] < TTL
Unused(t) == pending[t] = None /\ socks[t] = NoSocket /\ page.ws # t

-----------------------------------------------------------------------------
(* utils/wsTicket.js *)

\* Mutant: every entry goes.
PruneAll == {}

\* What prune leaves of the map: it runs only when the map is full.
Pruned == IF Cardinality(Entries) >= MaxPending THEN {t \in Entries : Valid(t)} ELSE Entries

\* issueTicket: a new entry, unless the map is full of tickets that are still valid.
issueTicket(t) ==
  /\ Cardinality(Pruned) < MaxPending /\ Unused(t)
  /\ pending' = [u \in Tickets |-> IF u = t THEN 0 ELSE IF u \in Pruned THEN pending[u] ELSE None]

\* consumeTicket: the entry goes, used or too old.
consumeTicket(t) == pending' = [pending EXCEPT ![t] = None]

-----------------------------------------------------------------------------
(* The hook. *)

\* POST /auth/ws-ticket is answered with a ticket.
AskTicket ==
  /\ page.stage = "ask"
  /\ \E t \in Tickets : issueTicket(t) /\ page' = [page EXCEPT !.stage = "got", !.ws = t]
  /\ UNCHANGED <<socks, builds, version, shown, moves, idle, faults>>

\* 503, the map is full: scheduleReconnect.
TicketRefused ==
  /\ page.stage = "ask" /\ Cardinality(Pruned) >= MaxPending
  /\ page' = [page EXCEPT !.stage = "wait"]
  /\ UNCHANGED <<pending, socks, builds, version, shown, moves, idle, faults>>

\* The request or its reply is lost, the ticket issued or not.
TicketLost ==
  /\ page.stage \in {"ask", "got"} /\ Fault
  /\ page' = [page EXCEPT !.stage = "wait", !.ws = None]
  /\ UNCHANGED <<pending, socks, builds, version, shown, moves, idle>>

\* new WebSocket(...ticket...range)
Connect ==
  /\ page.stage = "got"
  /\ socks' = [socks EXCEPT ![page.ws] = [NoSocket EXCEPT !.state = "connecting", !.range = page.range]]
  /\ page' = [page EXCEPT !.stage = "socket"]
  /\ UNCHANGED <<pending, builds, version, shown, moves, idle, faults>>

\* Mutant: isComponentMounted is not looked at.
OnMessageAlways(t) ==
  /\ socks[t].queue # <<>>
  /\ socks' = [socks EXCEPT ![t].queue = Tail(@)]
  /\ shown' = [version |-> Head(socks[t].queue), range |-> socks[t].range]
  /\ UNCHANGED <<pending, builds, version, page, moves, idle, faults>>

\* onmessage; the socket of an effect that was cleaned up may still deliver.
OnMessage(t) ==
  /\ socks[t].queue # <<>>
  /\ socks' = [socks EXCEPT ![t].queue = Tail(@)]
  /\ shown' = IF t = page.ws THEN [version |-> Head(socks[t].queue), range |-> socks[t].range] ELSE shown
  /\ UNCHANGED <<pending, builds, version, page, moves, idle, faults>>

\* Mutant: no reconnection is scheduled.
OnCloseGivesUp(t) ==
  /\ socks[t].state = "closed" /\ socks[t].queue = <<>>
  /\ socks' = [socks EXCEPT ![t] = NoSocket]
  /\ UNCHANGED <<pending, builds, version, page, shown, moves, idle, faults>>

\* onclose: scheduleReconnect, for the socket of the current effect.
OnClose(t) ==
  /\ socks[t].state = "closed" /\ socks[t].queue = <<>>
  /\ socks' = [socks EXCEPT ![t] = NoSocket]
  /\ page' = IF t = page.ws THEN [page EXCEPT !.stage = "wait", !.ws = None] ELSE page
  /\ UNCHANGED <<pending, builds, version, shown, moves, idle, faults>>

\* The timer of scheduleReconnect.
Reconnect ==
  /\ page.stage = "wait"
  /\ page' = [page EXCEPT !.stage = "ask"]
  /\ UNCHANGED <<pending, socks, builds, version, shown, moves, idle, faults>>

\* Mutant: the cleanup clears the timer and leaves the socket.
SelectRangeKeepsSocket(r) ==
  /\ moves < MaxMoves /\ r # page.range /\ moves' = moves + 1
  /\ page' = [range |-> r, stage |-> "ask", ws |-> None]
  /\ UNCHANGED <<pending, socks, builds, version, shown, idle, faults>>

\* Another range: the effect is cleaned up, its socket closed and its timer cleared, and a new one connects.
SelectRange(r) ==
  /\ moves < MaxMoves /\ r # page.range /\ moves' = moves + 1
  /\ page' = [range |-> r, stage |-> "ask", ws |-> None]
  /\ socks' = IF page.stage = "socket" THEN [socks EXCEPT ![page.ws].state = "closed"] ELSE socks
  /\ UNCHANGED <<pending, builds, version, shown, idle, faults>>

-----------------------------------------------------------------------------
(* The server. *)

\* on 'connection': a valid ticket, and the first payload is being built; otherwise close(4001).
Connection(t) ==
  /\ socks[t].state = "connecting"
  /\ consumeTicket(t)
  /\ socks' = [socks EXCEPT ![t].state = IF Valid(t) THEN "open" ELSE "closed"]
  /\ builds' = IF Valid(t) THEN builds \cup {[version |-> version, to |-> {t}]} ELSE builds
  /\ UNCHANGED <<version, page, shown, moves, idle, faults>>

\* refreshAndBroadcast: the sockets that are open now, and what the queries find, by range.
RefreshAndBroadcast ==
  /\ Cardinality(builds) < MaxBuilds
  /\ \E r \in Ranges :
       LET to == {t \in Tickets : socks[t].state = "open" /\ socks[t].range = r}
       IN  to # {} /\ builds' = builds \cup {[version |-> version, to |-> to]}
  /\ UNCHANGED <<pending, socks, version, page, shown, moves, idle, faults>>

\* A payload is ready, in any order: it goes to the sockets that are still open.
Push ==
  /\ \E b \in builds :
       /\ \A t \in b.to : Len(socks[t].queue) < MaxQueue
       /\ builds' = builds \ {b}
       /\ socks' = [t \in Tickets |-> IF t \in b.to /\ socks[t].state = "open"
                                      THEN [socks[t] EXCEPT !.queue = Append(@, b.version)] ELSE socks[t]]
  /\ UNCHANGED <<pending, version, page, shown, moves, idle, faults>>

BuildFails ==
  /\ Fault /\ \E b \in builds : builds' = builds \ {b}
  /\ UNCHANGED <<pending, socks, version, page, shown, moves, idle>>

-----------------------------------------------------------------------------
(* The rest of the world. *)

DataChanges ==
  /\ version < MaxVersion /\ version' = version + 1
  /\ UNCHANGED <<pending, socks, builds, page, shown, moves, idle, faults>>

\* A ticket nobody will use: another tab that was closed, a request of an effect that was cleaned up.
IssueUnused ==
  /\ idle < MaxIdle /\ idle' = idle + 1
  /\ \E t \in Tickets : issueTicket(t)
  /\ UNCHANGED <<socks, builds, version, page, shown, moves, faults>>

\* The tab's own ticket does not run out while it connects, but for a fault.
Tick ==
  /\ \E t \in Tickets : Valid(t)
  /\ IF page.ws # None /\ Valid(page.ws) /\ pending[page.ws] = TTL - 1 THEN Fault ELSE UNCHANGED faults
  /\ pending' = [t \in Tickets |-> IF Valid(t) THEN pending[t] + 1 ELSE pending[t]]
  /\ UNCHANGED <<socks, builds, version, page, shown, moves, idle>>

ConnectionLost(t) ==
  /\ socks[t].state \in {"connecting", "open"} /\ Fault
  /\ socks' = [socks EXCEPT ![t].state = "closed", ![t].queue = <<>>]
  /\ UNCHANGED <<pending, builds, version, page, shown, moves, idle>>

Crash ==
  /\ Fault
  /\ pending' = [t \in Tickets |-> None] /\ builds' = {}
  /\ socks' = [t \in Tickets |-> IF socks[t].state \in {"connecting", "open"}
                                 THEN [socks[t] EXCEPT !.state = "closed"] ELSE socks[t]]
  /\ UNCHANGED <<version, page, shown, moves, idle>>

Next ==
  \/ AskTicket \/ TicketRefused \/ TicketLost \/ Connect \/ Reconnect
  \/ \E r \in Ranges : SelectRange(r)
  \/ \E t \in Tickets : OnMessage(t) \/ OnClose(t) \/ Connection(t) \/ ConnectionLost(t)
  \/ RefreshAndBroadcast \/ Push \/ BuildFails
  \/ DataChanges \/ IssueUnused \/ Tick \/ Crash

Spec == Init /\ [][Next]_vars

\* Requests are answered, timers fire, queries end, and sockets deliver what is sent.
FairSpec ==
  /\ Spec
  /\ WF_vars(AskTicket \/ TicketRefused \/ Connect \/ Reconnect)
  /\ \A t \in Tickets : WF_vars(OnMessage(t) \/ OnClose(t) \/ Connection(t))
  /\ WF_vars(RefreshAndBroadcast) /\ WF_vars(Push) /\ WF_vars(Tick)

-----------------------------------------------------------------------------
Socket == [state : {"none", "connecting", "open", "closed"}, range : Ranges \cup {None}, queue : Seq(0 .. MaxVersion)]
Hook == [range : Ranges, stage : {"ask", "got", "wait", "socket"}, ws : Tickets \cup {None}]
Build == [version : 0 .. MaxVersion, to : SUBSET Tickets]
Data == [version : 0 .. MaxVersion, range : Ranges]

TypeOK ==
  /\ pending \in [Tickets -> (0 .. TTL) \cup {None}] /\ version \in 0 .. MaxVersion
  /\ socks \in [Tickets -> Socket] /\ \A t \in Tickets : Len(socks[t].queue) <= MaxQueue
  /\ builds \subseteq Build /\ page \in Hook /\ shown \in Data \cup {None}
  /\ moves \in 0 .. MaxMoves /\ idle \in 0 .. MaxIdle /\ faults \in 0 .. MaxFaults

\* The map of tickets is finite and within its cap.
MapInv == IsFiniteSet(Entries) /\ Cardinality(Entries) <= MaxPending

\* The hook holds nothing, a ticket that has no socket yet, or the socket opened with it.
HookInv ==
  /\ page.stage \in {"got", "socket"} <=> page.ws # None
  /\ page.stage = "got" => socks[page.ws] = NoSocket

\* A socket that works, or that the hook holds, is that of the current effect and range; one that is open has used
\* up its ticket.
SocketInv ==
  \A t \in Tickets :
    /\ socks[t].state \in {"connecting", "open"} => page.ws = t
    /\ page.ws = t /\ socks[t] # NoSocket => socks[t].range = page.range
    /\ socks[t].state = "open" => pending[t] = None
    /\ socks[t].state = "none" => socks[t] = NoSocket

\* The inductive invariant.
IInv == TypeOK /\ MapInv /\ HookInv /\ SocketInv

(* Types; the map stays within its cap; and every socket at work belongs to the tab's current effect, with the *)
(* range it shows, and came from a ticket nobody can use again: whatever effects, crashes and lost replies      *)
(* there were, no second stream is left running behind the page.                                               *)
OneStream ==
  /\ TypeOK /\ Cardinality(Entries) <= MaxPending
  /\ \A t \in Tickets : socks[t].state \in {"connecting", "open"} =>
       /\ page.ws = t /\ page.range = socks[t].range
       /\ socks[t].state = "open" => pending[t] = None

(* A ticket that has not expired is lost only by the socket it opens or with the process: making room for     *)
(* others never takes it.                                                                                     *)
TicketsLast ==
  [][\A t \in Tickets : Valid(t) /\ pending'[t] = None => socks[t].state = "connecting" \/ Entries' = {}]_vars

(* Whatever is shown next is of the range selected then: payloads of the previous range that are still on     *)
(* their way are not shown under the new one.                                                                 *)
ShowsSelectedRange == [][shown' # shown => shown'.range = page.range]_vars

(* Once the data stops changing the dashboard shows it, for the range selected: after expired and refused     *)
(* tickets, lost connections, failed builds, crashes, and payloads that overtake each other.                  *)
CatchesUp == []<>(shown # None /\ shown.version = version /\ shown.range = page.range)
=============================================================================
