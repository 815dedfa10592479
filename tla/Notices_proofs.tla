-------------------------- MODULE Notices_proofs ---------------------------
(***************************************************************************)
(* Proofs about what the user is told: Dashboard, for any tickets, ranges  *)
(* and bounds, and Alerts, for any alerts, prices, calls, quiet hours and  *)
(* bounds.  The two share no variable; each theorem speaks of the          *)
(* specification it names.                                                 *)
(***************************************************************************)
EXTENDS Dashboard, Alerts, FiniteSetTheorems, SequenceTheorems, TLAPS

LEMMA Bounds ==
  /\ MaxPending \in Nat /\ TTL \in Nat /\ MaxVersion \in Nat /\ MaxMoves \in Nat
  /\ MaxIdle \in Nat /\ MaxBuilds \in Nat /\ MaxQueue \in Nat /\ MaxFaults \in Nat
BY DashboardAssumption

LEMMA InvInit == Init => IInv
<1> SUFFICES ASSUME Init PROVE IInv
  OBVIOUS
<1>1. NoSocket \in Socket /\ Len(NoSocket.queue) = 0 /\ NoSocket.state = "none"
  BY DEF NoSocket, Socket
<1>2. TypeOK
  BY <1>1, DashboardAssumption DEF Init, TypeOK, Hook
<1>3. Entries = {} /\ 0 <= MaxPending
  BY DashboardAssumption DEF Init, Entries
<1>4. MapInv
  BY <1>3, FS_EmptySet DEF MapInv
<1>5. HookInv /\ SocketInv
  BY <1>1, DashboardAssumption DEF Init, HookInv, SocketInv
<1>6. QED
  BY <1>2, <1>4, <1>5 DEF IInv

-----------------------------------------------------------------------------
(* What a step of each part has to show.                                   *)

\* A map that only loses entries stays finite and within its cap.
LEMMA MapShrinks ==
  ASSUME IInv, Entries' \subseteq Entries
  PROVE  MapInv'
<1>1. IsFiniteSet(Entries) /\ Cardinality(Entries) <= MaxPending
  BY DEF IInv, MapInv
<1>2. IsFiniteSet(Entries') /\ Cardinality(Entries') <= Cardinality(Entries)
  BY <1>1, FS_Subset
<1>3. Cardinality(Entries') \in Nat /\ Cardinality(Entries) \in Nat /\ MaxPending \in Nat
  BY <1>1, <1>2, FS_CardinalityType, DashboardAssumption
<1>4. QED
  BY <1>1, <1>2, <1>3 DEF MapInv

\* issueTicket adds one entry to what prune leaves, and only where there is room for it.
LEMMA Issued ==
  ASSUME IInv, NEW t \in Tickets, issueTicket(t)
  PROVE  /\ pending' \in [Tickets -> (0 .. TTL) \cup {None}]
         /\ MapInv'
         /\ \A u \in Tickets : u # t /\ pending[u] = None => pending'[u] = None
<1>1. /\ Cardinality(Pruned) < MaxPending /\ pending[t] = None
      /\ pending' = [u \in Tickets |-> IF u = t THEN 0 ELSE IF u \in Pruned THEN pending[u] ELSE None]
  BY DEF issueTicket, Unused
<1>2. Pruned \subseteq Entries /\ t \notin Pruned
  BY <1>1 DEF Pruned, Entries
<1>3. Entries' = Pruned \cup {t}
  BY <1>1, <1>2, DashboardAssumption DEF Entries
<1>4. IsFiniteSet(Pruned)
  BY <1>2, FS_Subset DEF IInv, MapInv
<1>5. IsFiniteSet(Entries') /\ Cardinality(Entries') = Cardinality(Pruned) + 1
  BY <1>2, <1>3, <1>4, FS_AddElement
<1>6. MapInv'
  BY <1>1, <1>4, <1>5, FS_CardinalityType, DashboardAssumption DEF MapInv
<1>7. pending' \in [Tickets -> (0 .. TTL) \cup {None}]
  BY <1>1, DashboardAssumption DEF IInv, TypeOK
<1>8. \A u \in Tickets : u # t /\ pending[u] = None => pending'[u] = None
  BY <1>1, <1>2 DEF Entries
<1>9. QED
  BY <1>6, <1>7, <1>8

\* The rest of the state, one socket at a time.
LEMMA SocketFacts ==
  ASSUME IInv, NEW t \in Tickets
  PROVE  /\ socks[t] \in Socket /\ Len(socks[t].queue) <= MaxQueue
         /\ pending[t] \in (0 .. TTL) \cup {None}
         /\ socks[t].state \in {"connecting", "open"} => page.ws = t
         /\ page.ws = t /\ socks[t] # NoSocket => socks[t].range = page.range
         /\ socks[t].state = "open" => pending[t] = None
         /\ socks[t].state = "none" => socks[t] = NoSocket
BY DEF IInv, TypeOK, SocketInv

\* One socket changes, and the hook at most lets go of it: OnMessage, OnClose, Connection and ConnectionLost.
LEMMA SocketStep ==
  ASSUME IInv, NEW t \in Tickets, NEW sock \in Socket,
         socks' = [socks EXCEPT ![t] = sock], Len(sock.queue) <= MaxQueue,
         pending' = pending \/ pending' = [pending EXCEPT ![t] = None],
         builds' \subseteq Build, shown' \in Data \cup {None},
         faults' \in 0 .. MaxFaults, UNCHANGED <<version, moves, idle>>,
         socks[t] # NoSocket,
         sock.state \in {"connecting", "open"} => socks[t].state \in {"connecting", "open"} /\ page' = page,
         sock.state = "open" => pending'[t] = None,
         sock = NoSocket \/ (sock.state # "none" /\ sock.range = socks[t].range),
         \/ page' = page
         \/ page.ws = t /\ page' = [page EXCEPT !.stage = "wait", !.ws = None]
  PROVE  IInv'
<1>1. /\ socks'[t] = sock /\ \A u \in Tickets : u # t => socks'[u] = socks[u]
      /\ \A u \in Tickets : pending[u] = None => pending'[u] = None
      /\ pending' \in [Tickets -> (0 .. TTL) \cup {None}] /\ page \in Hook
  BY DEF IInv, TypeOK
<1>2. page' \in Hook
  BY <1>1 DEF Hook
<1>3. TypeOK'
  BY <1>1, <1>2 DEF IInv, TypeOK
<1>4. MapInv'
  <2>1. Entries' \subseteq Entries
    BY <1>1 DEF Entries
  <2>2. QED
    BY <2>1, MapShrinks
<1>5. HookInv'
  <2>1. CASE page' = page
    BY <1>1, <2>1 DEF IInv, HookInv
  <2>2. CASE page' = [page EXCEPT !.stage = "wait", !.ws = None]
    BY <1>1, <2>2 DEF HookInv, Hook
  <2>3. QED
    BY <2>1, <2>2
<1>6. SocketInv'
  <2> SUFFICES ASSUME NEW u \in Tickets
               PROVE  /\ socks'[u].state \in {"connecting", "open"} => page'.ws = u
                      /\ page'.ws = u /\ socks'[u] # NoSocket => socks'[u].range = page'.range
                      /\ socks'[u].state = "open" => pending'[u] = None
                      /\ socks'[u].state = "none" => socks'[u] = NoSocket
    BY DEF SocketInv
  <2>1. page'.ws \in {page.ws, None} /\ page'.range = page.range
    BY <1>1 DEF Hook
  <2>2. CASE u = t
    BY <1>1, <2>1, <2>2, SocketFacts, DashboardAssumption
  <2>3. CASE u # t
    <3>1. socks'[u] = socks[u] /\ page'.ws = u => page.ws = u
      BY <1>1, <2>1, <2>3, DashboardAssumption
    <3>2. page.ws = u => page'.ws = u
      BY <2>3
    <3>3. QED
      BY <1>1, <2>1, <2>3, <3>1, <3>2, SocketFacts
  <2>4. QED
    BY <2>2, <2>3
<1>7. QED
  BY <1>3, <1>4, <1>5, <1>6 DEF IInv

\* Only the hook's stage, or what the database, the builds and the counters hold, changes.
LEMMA QuietStep ==
  ASSUME IInv, UNCHANGED <<pending, socks>>, builds' \subseteq Build, version' \in 0 .. MaxVersion, shown' = shown,
         moves' = moves, idle' = idle, faults' \in 0 .. MaxFaults,
         \/ page' = page
         \/ page.stage \in {"ask", "wait"} /\ \E stage \in {"ask", "wait"} : page' = [page EXCEPT !.stage = stage]
  PROVE  IInv'
<1>1. page \in Hook
  BY DEF IInv, TypeOK
<1>2. page' \in Hook /\ page'.ws = page.ws /\ page'.range = page.range
  BY <1>1 DEF Hook
<1>3. TypeOK'
  BY <1>2 DEF IInv, TypeOK
<1>4. MapInv'
  BY DEF IInv, MapInv, Entries
<1>5. HookInv'
  BY <1>1, <1>2 DEF IInv, HookInv, Hook
<1>6. SocketInv'
  BY <1>2 DEF IInv, SocketInv
<1>7. QED
  BY <1>3, <1>4, <1>5, <1>6 DEF IInv

-----------------------------------------------------------------------------
(* The hook                                                                *)

LEMMA AskTicketInv ==
  ASSUME IInv, AskTicket
  PROVE  IInv'
<1>1. PICK t \in Tickets : issueTicket(t) /\ page' = [page EXCEPT !.stage = "got", !.ws = t]
  BY DEF AskTicket
<1>2. page \in Hook /\ page.stage = "ask" /\ socks[t] = NoSocket /\ page.ws # t
  BY <1>1 DEF IInv, TypeOK, AskTicket, issueTicket, Unused
<1>3. page' \in Hook /\ page'.stage = "got" /\ page'.ws = t /\ page'.range = page.range
  BY <1>1, <1>2 DEF Hook
<1>4. TypeOK'
  BY <1>1, <1>3, Issued DEF IInv, TypeOK, AskTicket
<1>5. HookInv'
  BY <1>2, <1>3, DashboardAssumption DEF HookInv, AskTicket
<1>6. page.ws = None
  BY <1>2 DEF IInv, HookInv
<1>7. SocketInv'
  <2> SUFFICES ASSUME NEW u \in Tickets
               PROVE  /\ socks[u].state \in {"connecting", "open"} => page'.ws = u
                      /\ page'.ws = u /\ socks[u] # NoSocket => socks[u].range = page'.range
                      /\ socks[u].state = "open" => pending'[u] = None
                      /\ socks[u].state = "none" => socks[u] = NoSocket
    BY DEF SocketInv, AskTicket
  <2>1. socks[u].state \notin {"connecting", "open"}
    BY <1>6, SocketFacts, DashboardAssumption
  <2>2. QED
    BY <1>2, <1>3, <2>1, SocketFacts
<1>8. QED
  BY <1>1, <1>4, <1>5, <1>7, Issued DEF IInv

LEMMA TicketLostInv ==
  ASSUME IInv, TicketLost
  PROVE  IInv'
<1>1. /\ page.stage \in {"ask", "got"} /\ page' = [page EXCEPT !.stage = "wait", !.ws = None]
      /\ faults < MaxFaults /\ faults' = faults + 1
      /\ UNCHANGED <<pending, socks, builds, version, shown, moves, idle>>
  BY DEF TicketLost, Fault
<1>2. page \in Hook /\ faults \in 0 .. MaxFaults
  BY DEF IInv, TypeOK
<1>3. page' \in Hook /\ page'.stage = "wait" /\ page'.ws = None
  BY <1>1, <1>2 DEF Hook
<1>4. faults' \in 0 .. MaxFaults
  BY <1>1, <1>2, DashboardAssumption
<1>5. TypeOK'
  BY <1>1, <1>3, <1>4 DEF IInv, TypeOK
<1>6. MapInv' /\ HookInv'
  BY <1>1, <1>3 DEF IInv, MapInv, HookInv, Entries
<1>7. ASSUME NEW u \in Tickets
      PROVE  socks[u].state \notin {"connecting", "open"}
  <2>1. CASE page.ws = u
    BY <1>1, <2>1, DashboardAssumption DEF IInv, HookInv, NoSocket
  <2>2. CASE page.ws # u
    BY <2>2, SocketFacts
  <2>3. QED
    BY <2>1, <2>2
<1>8. SocketInv'
  BY <1>1, <1>3, <1>7, DashboardAssumption DEF IInv, SocketInv
<1>9. QED
  BY <1>5, <1>6, <1>8 DEF IInv

LEMMA ConnectInv ==
  ASSUME IInv, Connect
  PROVE  IInv'
<1> DEFINE t == page.ws
           sock == [NoSocket EXCEPT !.state = "connecting", !.range = page.range]
<1>1. /\ page.stage = "got" /\ socks' = [socks EXCEPT ![t] = sock]
      /\ page' = [page EXCEPT !.stage = "socket"]
      /\ UNCHANGED <<pending, builds, version, shown, moves, idle, faults>>
  BY DEF Connect
<1>2. page \in Hook /\ t \in Tickets
  BY <1>1 DEF IInv, TypeOK, HookInv, Hook
<1>3. page' \in Hook /\ page'.stage = "socket" /\ page'.ws = t /\ page'.range = page.range
  BY <1>1, <1>2 DEF Hook
<1>4. sock \in Socket /\ sock.state = "connecting" /\ sock.range = page.range /\ Len(sock.queue) = 0
  <2>1. NoSocket \in Socket /\ Len(NoSocket.queue) = 0
    BY DEF NoSocket, Socket
  <2>2. page.range \in Ranges
    BY <1>2 DEF Hook
  <2>3. sock \in Socket /\ sock.state = "connecting" /\ sock.range = page.range /\ sock.queue = NoSocket.queue
    BY <2>1, <2>2 DEF Socket
  <2>4. QED
    BY <2>1, <2>3
<1>5. socks'[t] = sock /\ \A u \in Tickets : u # t => socks'[u] = socks[u]
  BY <1>1, <1>2 DEF IInv, TypeOK
<1>6. TypeOK'
  <2>1. socks' \in [Tickets -> Socket]
    BY <1>1, <1>4 DEF IInv, TypeOK
  <2>2. \A u \in Tickets : Len(socks'[u].queue) <= MaxQueue
    <3> TAKE u \in Tickets
    <3>1. CASE u = t
      <4>1. socks'[u] = sock
        BY <1>5, <3>1
      <4> HIDE DEF sock
      <4>2. QED
        BY <1>4, <4>1, Bounds
    <3>2. CASE u # t
      BY <1>5, <3>2, SocketFacts
    <3>3. QED
      BY <3>1, <3>2
  <2>3. QED
    BY <1>1, <1>3, <2>1, <2>2 DEF IInv, TypeOK
<1>7. MapInv' /\ HookInv'
  BY <1>1, <1>2, <1>3, DashboardAssumption DEF IInv, MapInv, HookInv, Entries
<1>8. SocketInv'
  <2> SUFFICES ASSUME NEW u \in Tickets
               PROVE  /\ socks'[u].state \in {"connecting", "open"} => t = u
                      /\ t = u /\ socks'[u] # NoSocket => socks'[u].range = page.range
                      /\ socks'[u].state = "open" => pending[u] = None
                      /\ socks'[u].state = "none" => socks'[u] = NoSocket
    BY <1>1, <1>3 DEF SocketInv
  <2>1. CASE u = t
    BY <1>4, <1>5, <2>1
  <2>2. CASE u # t
    BY <1>5, <2>2, SocketFacts
  <2>3. QED
    BY <2>1, <2>2
<1>9. QED
  BY <1>6, <1>7, <1>8 DEF IInv

LEMMA SelectRangeInv ==
  ASSUME IInv, NEW r \in Ranges, SelectRange(r)
  PROVE  IInv'
<1>1. /\ moves < MaxMoves /\ moves' = moves + 1 /\ page' = [range |-> r, stage |-> "ask", ws |-> None]
      /\ socks' = IF page.stage = "socket" THEN [socks EXCEPT ![page.ws].state = "closed"] ELSE socks
      /\ UNCHANGED <<pending, builds, version, shown, idle, faults>>
  BY DEF SelectRange
<1>2. page \in Hook /\ moves \in 0 .. MaxMoves /\ socks \in [Tickets -> Socket]
  BY DEF IInv, TypeOK
<1>3. page' \in Hook /\ page'.stage = "ask" /\ page'.ws = None
  BY <1>1 DEF Hook
<1>4. moves' \in 0 .. MaxMoves
  BY <1>1, <1>2, DashboardAssumption
<1>5. ASSUME NEW u \in Tickets
      PROVE  /\ socks'[u] \in Socket /\ Len(socks'[u].queue) <= MaxQueue
             /\ socks'[u].state \notin {"connecting", "open"}
             /\ socks'[u].state = "none" => socks'[u] = NoSocket
  <2>1. CASE page.stage = "socket" /\ page.ws = u
    <3>1. socks'[u] = [socks[u] EXCEPT !.state = "closed"]
      BY <1>1, <1>2, <2>1
    <3>2. QED
      BY <3>1, SocketFacts DEF Socket
  <2>2. CASE page.stage # "socket" /\ page.ws = u
    <3>1. socks'[u] = NoSocket
      BY <1>1, <2>2, DashboardAssumption DEF IInv, TypeOK, HookInv, Hook
    <3>2. NoSocket.state = "none" /\ socks[u] = NoSocket
      BY <1>1, <2>2, <3>1 DEF NoSocket
    <3>3. QED
      BY <3>1, <3>2, SocketFacts
  <2>3. CASE page.ws # u
    <3>1. socks'[u] = socks[u]
      BY <1>1, <1>2, <2>3
    <3>2. QED
      BY <2>3, <3>1, SocketFacts
  <2>4. QED
    BY <2>1, <2>2, <2>3
<1>6. socks' \in [Tickets -> Socket]
  <2>1. socks' = [u \in Tickets |-> socks'[u]]
    BY <1>1, <1>2
  <2>2. QED
    BY <1>5, <2>1
<1>7. TypeOK'
  BY <1>1, <1>3, <1>4, <1>5, <1>6 DEF IInv, TypeOK
<1>8. MapInv' /\ HookInv'
  BY <1>1, <1>3 DEF IInv, MapInv, HookInv, Entries
<1>9. SocketInv'
  BY <1>1, <1>3, <1>5, DashboardAssumption DEF SocketInv
<1>10. QED
  BY <1>7, <1>8, <1>9 DEF IInv

-----------------------------------------------------------------------------
(* The sockets                                                             *)

LEMMA OnMessageInv ==
  ASSUME IInv, NEW t \in Tickets, OnMessage(t)
  PROVE  IInv'
<1> DEFINE sock == [socks[t] EXCEPT !.queue = Tail(socks[t].queue)]
<1>1. /\ socks[t].queue # <<>> /\ socks' = [socks EXCEPT ![t] = sock]
      /\ shown' = IF t = page.ws THEN [version |-> Head(socks[t].queue), range |-> socks[t].range] ELSE shown
      /\ UNCHANGED <<pending, builds, version, page, moves, idle, faults>>
  BY DEF OnMessage
<1>2. /\ socks[t] \in Socket /\ socks[t].queue \in Seq(0 .. MaxVersion) /\ Len(socks[t].queue) <= MaxQueue
      /\ socks[t] # NoSocket /\ socks[t].state # "none"
  BY <1>1, SocketFacts DEF Socket, NoSocket
<1>3. /\ Tail(socks[t].queue) \in Seq(0 .. MaxVersion) /\ Len(Tail(socks[t].queue)) <= MaxQueue
      /\ Head(socks[t].queue) \in 0 .. MaxVersion
  <2> DEFINE q == socks[t].queue
  <2>1. q \in Seq(0 .. MaxVersion) /\ q # <<>> /\ Len(q) <= MaxQueue
    BY <1>1, <1>2
  <2> HIDE DEF q
  <2>2. Tail(q) \in Seq(0 .. MaxVersion) /\ Len(Tail(q)) = Len(q) - 1 /\ Len(q) \in Nat
    BY <2>1
  <2>3. Head(q) \in 0 .. MaxVersion
    BY <2>1, HeadTailProperties
  <2>4. Len(Tail(q)) <= MaxQueue
    BY <2>1, <2>2, Bounds
  <2>5. QED
    BY <2>2, <2>3, <2>4 DEF q
<1>4. /\ sock \in Socket /\ Len(sock.queue) <= MaxQueue
      /\ sock.state = socks[t].state /\ sock.range = socks[t].range
  BY <1>2, <1>3 DEF Socket
<1>5. shown' \in Data \cup {None}
  <2>1. t = page.ws => socks[t].range \in Ranges
    BY <1>2, SocketFacts DEF IInv, TypeOK, Hook
  <2>2. QED
    BY <1>1, <1>3, <2>1 DEF IInv, TypeOK, Data
<1>6. builds' \subseteq Build /\ faults' \in 0 .. MaxFaults
  BY <1>1 DEF IInv, TypeOK
<1> HIDE DEF sock
<1>7. QED
  BY <1>1, <1>2, <1>4, <1>5, <1>6, SocketFacts, SocketStep

LEMMA OnCloseInv ==
  ASSUME IInv, NEW t \in Tickets, OnClose(t)
  PROVE  IInv'
<1>1. /\ socks[t].state = "closed" /\ socks' = [socks EXCEPT ![t] = NoSocket]
      /\ page' = IF t = page.ws THEN [page EXCEPT !.stage = "wait", !.ws = None] ELSE page
      /\ UNCHANGED <<pending, builds, version, shown, moves, idle, faults>>
  BY DEF OnClose
<1>2. NoSocket \in Socket /\ Len(NoSocket.queue) = 0 /\ NoSocket.state = "none"
  BY DEF NoSocket, Socket
<1>3. builds' \subseteq Build /\ shown' \in Data \cup {None} /\ faults' \in 0 .. MaxFaults
  BY <1>1 DEF IInv, TypeOK
<1>4. QED
  <2>1. socks[t] # NoSocket /\ Len(NoSocket.queue) <= MaxQueue /\ pending' = pending
    BY <1>1, <1>2, Bounds
  <2>2. page' = page \/ (page.ws = t /\ page' = [page EXCEPT !.stage = "wait", !.ws = None])
    BY <1>1
  <2>3. UNCHANGED <<version, moves, idle>>
    BY <1>1
  <2>4. QED
    BY <1>1, <1>2, <1>3, <2>1, <2>2, <2>3, SocketStep

LEMMA ConnectionInv ==
  ASSUME IInv, NEW t \in Tickets, Connection(t)
  PROVE  IInv'
<1> DEFINE sock == [socks[t] EXCEPT !.state = IF Valid(t) THEN "open" ELSE "closed"]
<1>1. /\ socks[t].state = "connecting" /\ socks' = [socks EXCEPT ![t] = sock]
      /\ pending' = [pending EXCEPT ![t] = None]
      /\ builds' = IF Valid(t) THEN builds \cup {[version |-> version, to |-> {t}]} ELSE builds
      /\ UNCHANGED <<version, page, shown, moves, idle, faults>>
  BY DEF Connection, consumeTicket
<1>2. /\ socks[t] \in Socket /\ socks[t] # NoSocket /\ Len(socks[t].queue) <= MaxQueue
      /\ pending'[t] = None
  BY <1>1, SocketFacts DEF NoSocket, IInv, TypeOK
<1>3. /\ sock \in Socket /\ sock.queue = socks[t].queue /\ sock.range = socks[t].range
      /\ sock.state \in {"open", "closed"}
  BY <1>2 DEF Socket
<1>4. builds' \subseteq Build /\ shown' \in Data \cup {None} /\ faults' \in 0 .. MaxFaults
  BY <1>1 DEF IInv, TypeOK, Build
<1> HIDE DEF sock
<1>5. QED
  BY <1>1, <1>2, <1>3, <1>4, SocketStep

LEMMA ConnectionLostInv ==
  ASSUME IInv, NEW t \in Tickets, ConnectionLost(t)
  PROVE  IInv'
<1> DEFINE sock == [socks[t] EXCEPT !.state = "closed", !.queue = <<>>]
<1>1. /\ socks[t].state \in {"connecting", "open"} /\ faults < MaxFaults /\ faults' = faults + 1
      /\ UNCHANGED <<pending, builds, version, page, shown, moves, idle>>
  BY DEF ConnectionLost, Fault
<1>2. socks' = [socks EXCEPT ![t] = sock]
  BY SocketFacts DEF ConnectionLost, IInv, TypeOK, Socket
<1>3. socks[t] \in Socket /\ socks[t] # NoSocket
  BY <1>1, SocketFacts DEF NoSocket
<1>4. /\ sock \in Socket /\ Len(sock.queue) = 0 /\ sock.range = socks[t].range /\ sock.state = "closed"
  <2>1. \A e \in Seq(0 .. MaxVersion) : [socks[t] EXCEPT !.state = "closed", !.queue = e] \in Socket
    BY <1>3 DEF Socket
  <2>2. <<>> \in Seq(0 .. MaxVersion) /\ Len(<<>>) = 0
    OBVIOUS
  <2>3. sock \in Socket
    BY <2>1, <2>2
  <2>4. sock.range = socks[t].range /\ sock.state = "closed" /\ sock.queue = <<>>
    BY <1>3 DEF Socket
  <2>5. QED
    BY <2>2, <2>3, <2>4
<1>5. builds' \subseteq Build /\ shown' \in Data \cup {None} /\ faults' \in 0 .. MaxFaults
  BY <1>1, Bounds DEF IInv, TypeOK
<1> HIDE DEF sock
<1>6. QED
  <2>1. Len(sock.queue) <= MaxQueue
    BY <1>4, Bounds
  <2>2. QED
    BY <1>1, <1>2, <1>3, <1>4, <1>5, <2>1, SocketStep

-----------------------------------------------------------------------------
(* The server and the rest of the world                                    *)

LEMMA PushInv ==
  ASSUME IInv, Push
  PROVE  IInv'
<1>1. PICK b \in builds :
        /\ \A t \in b.to : Len(socks[t].queue) < MaxQueue
        /\ builds' = builds \ {b}
        /\ socks' = [t \in Tickets |-> IF t \in b.to /\ socks[t].state = "open"
                                       THEN [socks[t] EXCEPT !.queue = Append(@, b.version)] ELSE socks[t]]
  BY DEF Push
<1>2. UNCHANGED <<pending, version, page, shown, moves, idle, faults>>
  BY DEF Push
<1>3. b.version \in 0 .. MaxVersion /\ builds' \subseteq Build
  BY <1>1 DEF IInv, TypeOK, Build
<1>4. ASSUME NEW t \in Tickets
      PROVE  /\ socks'[t] \in Socket /\ Len(socks'[t].queue) <= MaxQueue
             /\ socks'[t].state = socks[t].state /\ socks'[t].range = socks[t].range
             /\ socks'[t] = socks[t] \/ socks[t].state = "open"
  <2>1. CASE t \in b.to /\ socks[t].state = "open"
    <3> DEFINE q == socks[t].queue
    <3>1. socks[t] \in Socket /\ q \in Seq(0 .. MaxVersion) /\ Len(q) < MaxQueue
      BY <1>1, <2>1, SocketFacts DEF Socket
    <3>2. socks'[t] = [socks[t] EXCEPT !.queue = Append(q, b.version)]
      BY <1>1, <2>1
    <3>3. Append(q, b.version) \in Seq(0 .. MaxVersion) /\ Len(Append(q, b.version)) = Len(q) + 1 /\ Len(q) \in Nat
      BY <1>3, <3>1
    <3> HIDE DEF q
    <3>4. Len(Append(q, b.version)) <= MaxQueue
      BY <3>1, <3>3, Bounds
    <3>5. /\ socks'[t] \in Socket /\ socks'[t].queue = Append(q, b.version)
          /\ socks'[t].state = socks[t].state /\ socks'[t].range = socks[t].range
      BY <3>1, <3>2, <3>3 DEF Socket
    <3>6. QED
      BY <2>1, <3>4, <3>5
  <2>2. CASE ~(t \in b.to /\ socks[t].state = "open")
    <3>1. socks'[t] = socks[t]
      BY <1>1, <2>2
    <3>2. QED
      BY <3>1, SocketFacts
  <2>3. QED
    BY <2>1, <2>2
<1>5. socks' \in [Tickets -> Socket]
  <2>1. socks' = [t \in Tickets |-> socks'[t]]
    BY <1>1
  <2>2. QED
    BY <1>4, <2>1
<1>6. TypeOK'
  BY <1>2, <1>3, <1>4, <1>5 DEF IInv, TypeOK
<1>7. MapInv'
  BY <1>2 DEF IInv, MapInv, Entries
<1>8. HookInv'
  <2>1. page.stage = "got" => page.ws \in Tickets /\ socks[page.ws] = NoSocket
    BY DEF IInv, TypeOK, HookInv, Hook
  <2>2. page.stage = "got" => socks'[page.ws] = socks[page.ws]
    BY <1>4, <2>1 DEF NoSocket
  <2>3. QED
    BY <1>2, <2>1, <2>2 DEF IInv, HookInv
<1>9. SocketInv'
  <2> SUFFICES ASSUME NEW t \in Tickets
               PROVE  /\ socks'[t].state \in {"connecting", "open"} => page.ws = t
                      /\ page.ws = t /\ socks'[t] # NoSocket => socks'[t].range = page.range
                      /\ socks'[t].state = "open" => pending[t] = None
                      /\ socks'[t].state = "none" => socks'[t] = NoSocket
    BY <1>2 DEF SocketInv
  <2>1. CASE socks'[t] = socks[t]
    BY <2>1, SocketFacts
  <2>2. CASE socks[t].state = "open"
    <3>1. socks[t] # NoSocket
      BY <2>2 DEF NoSocket
    <3>2. QED
      BY <1>4, <2>2, <3>1, SocketFacts
  <2>3. QED
    BY <1>4, <2>1, <2>2
<1>10. QED
  BY <1>6, <1>7, <1>8, <1>9 DEF IInv

LEMMA IssueUnusedInv ==
  ASSUME IInv, IssueUnused
  PROVE  IInv'
<1>1. PICK t \in Tickets : issueTicket(t)
  BY DEF IssueUnused
<1>2. /\ idle < MaxIdle /\ idle' = idle + 1 /\ UNCHANGED <<socks, builds, version, page, shown, moves, faults>>
      /\ socks[t] = NoSocket
  BY <1>1 DEF IssueUnused, issueTicket, Unused
<1>3. idle' \in 0 .. MaxIdle
  BY <1>2, Bounds DEF IInv, TypeOK
<1>4. TypeOK' /\ MapInv'
  BY <1>1, <1>2, <1>3, Issued DEF IInv, TypeOK
<1>5. HookInv'
  BY <1>2 DEF IInv, HookInv
<1>6. SocketInv'
  <2> SUFFICES ASSUME NEW u \in Tickets, socks[u].state = "open"
               PROVE  pending'[u] = None
    BY <1>2 DEF IInv, SocketInv
  <2>1. u # t
    BY <1>2 DEF NoSocket
  <2>2. QED
    BY <1>1, <2>1, Issued, SocketFacts
<1>7. QED
  BY <1>4, <1>5, <1>6 DEF IInv

LEMMA TickInv ==
  ASSUME IInv, Tick
  PROVE  IInv'
<1>1. /\ pending' = [t \in Tickets |-> IF Valid(t) THEN pending[t] + 1 ELSE pending[t]]
      /\ faults' = faults \/ (faults < MaxFaults /\ faults' = faults + 1)
      /\ UNCHANGED <<socks, builds, version, page, shown, moves, idle>>
  BY DEF Tick, Fault
<1>2. ASSUME NEW t \in Tickets
      PROVE  pending'[t] \in (0 .. TTL) \cup {None} /\ (pending'[t] = None <=> pending[t] = None)
  <2>1. CASE Valid(t)
    BY <1>1, <2>1, SocketFacts, Bounds, DashboardAssumption DEF Valid
  <2>2. CASE ~Valid(t)
    BY <1>1, <2>2, SocketFacts
  <2>3. QED
    BY <2>1, <2>2
<1>3. pending' \in [Tickets -> (0 .. TTL) \cup {None}]
  <2>1. pending' = [t \in Tickets |-> pending'[t]]
    BY <1>1
  <2>2. QED
    BY <1>2, <2>1
<1>4. faults' \in 0 .. MaxFaults
  BY <1>1, Bounds DEF IInv, TypeOK
<1>5. TypeOK'
  BY <1>1, <1>3, <1>4 DEF IInv, TypeOK
<1>6. MapInv'
  <2>1. Entries' \subseteq Entries
    BY <1>2 DEF Entries
  <2>2. QED
    BY <2>1, MapShrinks
<1>7. HookInv' /\ SocketInv'
  BY <1>1, <1>2 DEF IInv, HookInv, SocketInv
<1>8. QED
  BY <1>5, <1>6, <1>7 DEF IInv

LEMMA CrashInv ==
  ASSUME IInv, Crash
  PROVE  IInv'
<1>1. /\ faults < MaxFaults /\ faults' = faults + 1 /\ builds' = {} /\ pending' = [t \in Tickets |-> None]
      /\ socks' = [t \in Tickets |-> IF socks[t].state \in {"connecting", "open"}
                                     THEN [socks[t] EXCEPT !.state = "closed"] ELSE socks[t]]
      /\ UNCHANGED <<version, page, shown, moves, idle>>
  BY DEF Crash, Fault
<1>2. ASSUME NEW t \in Tickets
      PROVE  /\ socks'[t] \in Socket /\ Len(socks'[t].queue) <= MaxQueue
             /\ socks'[t].state \notin {"connecting", "open"} /\ socks'[t].range = socks[t].range
             /\ socks'[t].state = "none" => socks'[t] = NoSocket
             /\ socks[t] = NoSocket => socks'[t] = NoSocket
  <2>1. CASE socks[t].state \in {"connecting", "open"}
    <3>1. socks'[t] = [socks[t] EXCEPT !.state = "closed"] /\ socks[t] # NoSocket
      BY <1>1, <2>1 DEF NoSocket
    <3>2. QED
      BY <3>1, SocketFacts DEF Socket
  <2>2. CASE socks[t].state \notin {"connecting", "open"}
    <3>1. socks'[t] = socks[t]
      BY <1>1, <2>2
    <3>2. QED
      BY <2>2, <3>1, SocketFacts
  <2>3. QED
    BY <2>1, <2>2
<1>3. socks' \in [Tickets -> Socket]
  <2>1. socks' = [t \in Tickets |-> socks'[t]]
    BY <1>1
  <2>2. QED
    BY <1>2, <2>1
<1>4. faults' \in 0 .. MaxFaults
  BY <1>1, Bounds DEF IInv, TypeOK
<1>5. TypeOK'
  BY <1>1, <1>2, <1>3, <1>4 DEF IInv, TypeOK
<1>6. MapInv'
  <2>1. Entries' \subseteq Entries
    BY <1>1 DEF Entries
  <2>2. QED
    BY <2>1, MapShrinks
<1>7. HookInv'
  BY <1>1, <1>2 DEF IInv, TypeOK, HookInv, Hook
<1>8. SocketInv'
  BY <1>1, <1>2, SocketFacts DEF SocketInv
<1>9. QED
  BY <1>5, <1>6, <1>7, <1>8 DEF IInv

\* The steps that touch neither the map of tickets nor a socket.
LEMMA QuietInv ==
  ASSUME IInv, TicketRefused \/ Reconnect \/ RefreshAndBroadcast \/ BuildFails \/ DataChanges
  PROVE  IInv'
<1>1. UNCHANGED <<pending, socks>> /\ shown' = shown /\ moves' = moves /\ idle' = idle
  BY DEF TicketRefused, Reconnect, RefreshAndBroadcast, BuildFails, DataChanges
<1>2. builds' \subseteq Build
  <2>1. builds \subseteq Build /\ version \in 0 .. MaxVersion
    BY DEF IInv, TypeOK
  <2>2. CASE RefreshAndBroadcast
    BY <2>1, <2>2 DEF RefreshAndBroadcast, Build
  <2>3. CASE TicketRefused \/ Reconnect \/ BuildFails \/ DataChanges
    BY <2>1, <2>3 DEF TicketRefused, Reconnect, BuildFails, DataChanges
  <2>4. QED
    BY <2>2, <2>3
<1>3. version' \in 0 .. MaxVersion /\ faults' \in 0 .. MaxFaults
  <2>1. /\ version' = version \/ (version < MaxVersion /\ version' = version + 1)
        /\ faults' = faults \/ (faults < MaxFaults /\ faults' = faults + 1)
    BY DEF TicketRefused, Reconnect, RefreshAndBroadcast, BuildFails, DataChanges, Fault
  <2>2. version \in 0 .. MaxVersion /\ faults \in 0 .. MaxFaults
    BY DEF IInv, TypeOK
  <2>3. QED
    BY <2>1, <2>2, Bounds
<1>4. \/ page' = page
      \/ page.stage \in {"ask", "wait"} /\ \E stage \in {"ask", "wait"} : page' = [page EXCEPT !.stage = stage]
  BY DEF TicketRefused, Reconnect, RefreshAndBroadcast, BuildFails, DataChanges
<1>5. QED
  BY <1>1, <1>2, <1>3, <1>4, QuietStep

-----------------------------------------------------------------------------
LEMMA StepInv == IInv /\ [Next]_vars => IInv'
<1> SUFFICES ASSUME IInv, [Next]_vars PROVE IInv'
  OBVIOUS
<1>1. CASE UNCHANGED vars
  BY <1>1 DEF vars, IInv, TypeOK, MapInv, HookInv, SocketInv, Entries
<1>2. ASSUME NEW t \in Tickets, OnMessage(t) \/ OnClose(t) \/ Connection(t) \/ ConnectionLost(t)
      PROVE  IInv'
  BY <1>2, OnMessageInv, OnCloseInv, ConnectionInv, ConnectionLostInv
<1>3. ASSUME NEW r \in Ranges, SelectRange(r)
      PROVE  IInv'
  BY <1>3, SelectRangeInv
<1>4. CASE AskTicket \/ TicketLost \/ Connect
  BY <1>4, AskTicketInv, TicketLostInv, ConnectInv
<1>5. CASE TicketRefused \/ Reconnect \/ RefreshAndBroadcast \/ BuildFails \/ DataChanges
  BY <1>5, QuietInv
<1>6. CASE Push \/ IssueUnused \/ Tick \/ Crash
  BY <1>6, PushInv, IssueUnusedInv, TickInv, CrashInv
<1>7. QED
  BY <1>1, <1>2, <1>3, <1>4, <1>5, <1>6 DEF Next

(* The map of tickets, the hook and the sockets agree, however effects, faults and crashes interleave      *)
(* (useDashboardData.js, wsTicket.js, dashboardSocket.server.js).                                          *)
THEOREM InvCorrect == Spec => []IInv
BY InvInit, StepInv, PTL DEF Spec

(* Types, the cap of the map, and one stream at most, of the range selected: the cleanup of an effect      *)
(* closes its socket, and a reconnection starts only when the socket before is gone.                       *)
THEOREM OneStreamHolds == Spec => []OneStream
<1>1. IInv => OneStream
  <2> SUFFICES ASSUME IInv PROVE OneStream
    OBVIOUS
  <2>1. ASSUME NEW t \in Tickets, socks[t].state \in {"connecting", "open"}
        PROVE  /\ page.ws = t /\ page.range = socks[t].range
               /\ socks[t].state = "open" => pending[t] = None
    <3>1. socks[t] # NoSocket
      BY <2>1 DEF NoSocket
    <3>2. QED
      BY <2>1, <3>1, SocketFacts
  <2>2. QED
    BY <2>1 DEF IInv, MapInv, OneStream
<1>2. QED
  BY <1>1, InvCorrect, PTL

\* The payload shown next comes from the socket of the current effect.
LEMMA ShownStep ==
  ASSUME IInv, [Next]_vars, shown' # shown
  PROVE  shown'.range = page.range
<1>1. PICK t \in Tickets : OnMessage(t)
  BY DEF Next, vars, AskTicket, TicketRefused, TicketLost, Connect, Reconnect, SelectRange, OnClose, Connection,
         ConnectionLost, RefreshAndBroadcast, Push, BuildFails, DataChanges, IssueUnused, Tick, Crash
<1>2. t = page.ws /\ shown'.range = socks[t].range /\ socks[t].queue # <<>>
  BY <1>1 DEF OnMessage
<1>3. socks[t] # NoSocket
  BY <1>2 DEF NoSocket
<1>4. QED
  BY <1>2, <1>3, SocketFacts

(* A payload of a range the user left is never shown under the one he selected: the messages of a socket   *)
(* whose effect was cleaned up are dropped (useDashboardData.js:53).                                       *)
THEOREM RangeShown == Spec => ShowsSelectedRange
<1>1. IInv /\ [Next]_vars => (shown' # shown => shown'.range = page.range)
  BY ShownStep
<1>2. Spec => [][shown' # shown => shown'.range = page.range]_vars
  BY <1>1, InvCorrect, PTL DEF Spec
<1>3. QED
  BY <1>2 DEF ShowsSelectedRange

\* Only the socket of a ticket or the end of the process takes an entry that is still valid.
LEMMA TicketStep ==
  ASSUME IInv, [Next]_vars, NEW t \in Tickets, Valid(t), pending'[t] = None
  PROVE  socks[t].state = "connecting" \/ Entries' = {}
<1>1. pending[t] \in 0 .. TTL /\ pending[t] # None /\ t \in Pruned
  BY SocketFacts DEF Valid, Pruned, Entries
<1>2. ASSUME NEW u \in Tickets, issueTicket(u)
      PROVE  FALSE
  <2>1. pending'[t] = IF t = u THEN 0 ELSE pending[t]
    BY <1>1, <1>2 DEF issueTicket
  <2>2. QED
    BY <1>1, <2>1, DashboardAssumption
<1>3. CASE \E u \in Tickets : Connection(u)
  <2>1. PICK u \in Tickets : socks[u].state = "connecting" /\ pending' = [pending EXCEPT ![u] = None]
    BY <1>3 DEF Connection, consumeTicket
  <2>2. u # t => pending'[t] = pending[t]
    BY <2>1 DEF IInv, TypeOK
  <2>3. QED
    BY <1>1, <2>1, <2>2
<1>4. CASE Crash
  BY <1>4 DEF Crash, Entries
<1>5. CASE Tick
  BY <1>1, <1>5, Bounds, DashboardAssumption DEF Tick
<1>6. CASE AskTicket \/ IssueUnused
  BY <1>2, <1>6 DEF AskTicket, IssueUnused
<1>7. ASSUME pending' = pending
      PROVE  FALSE
  BY <1>1, <1>7
<1>8. QED
  BY <1>2, <1>3, <1>4, <1>5, <1>6, <1>7
     DEF Next, vars, TicketRefused, TicketLost, Connect, Reconnect, SelectRange, OnMessage, OnClose, ConnectionLost,
         RefreshAndBroadcast, Push, BuildFails, DataChanges

(* prune and issueTicket never take a ticket that has not expired from the tab that holds it               *)
(* (wsTicket.js:24-34).                                                                                    *)
THEOREM TicketsKept == Spec => TicketsLast
<1> DEFINE A == \A t \in Tickets : Valid(t) /\ pending'[t] = None => socks[t].state = "connecting" \/ Entries' = {}
<1>1. IInv /\ [Next]_vars => A
  BY TicketStep
<1> HIDE DEF A
<1>2. Spec => [][A]_vars
  BY <1>1, InvCorrect, PTL DEF Spec
<1>3. QED
  BY <1>2 DEF A, TicketsLast

-----------------------------------------------------------------------------
(* Alerts.                                                                 *)

LEMMA AlertsBounds ==
  /\ DayLength \in Nat \ {0} /\ Snooze \in Nat /\ MaxEdits \in Nat /\ MaxFailures \in Nat
  /\ QuietStart \in 0 .. DayLength - 1 /\ QuietEnd \in 0 .. DayLength - 1
  /\ Null \notin Int /\ \A t \in Targets : t \in Int
  /\ ProcessOf \in [Ticks -> Processes]
BY AlertsAssumption

\* One row, and how often it was armed.
LEMMA AlertFacts ==
  ASSUME AlertsInv, NEW a \in Alerts
  PROVE  /\ alerts[a] \in Row \cup {Null} /\ arm[a] \in 0 .. MaxEdits + 1
         /\ arm[a] <= edits + 1 /\ (alerts[a] # Null => arm[a] >= 1)
         /\ edits \in 0 .. MaxEdits
BY DEF AlertsInv, AlertsTypes, ArmInv, Exists

\* One call.
LEMMA CallFacts ==
  ASSUME AlertsInv, NEW i \in Ticks
  PROVE  /\ run[i] \in Call /\ run[i].batch \subseteq Copy
         /\ ProcessOf[i] \in Processes /\ isRunning \in [Processes -> BOOLEAN]
         /\ run[i].stage # "idle" => isRunning[ProcessOf[i]] /\ Alone(i)
         /\ run[i].stage = "idle" => run[i].batch = {}
         /\ run[i].stage = "notify" => run[i].cur \in Copy \ run[i].batch /\ Spent(run[i].cur.firing)
         /\ \A c, d \in InHand(i) : c.firing[1] = d.firing[1] => c = d
         /\ \A c \in InHand(i) : <<ProcessOf[i], c.firing>> \notin notified /\ c.firing[2] <= arm[c.firing[1]]
<1>1. run[i] \in Call
  BY DEF AlertsInv, AlertsTypes
<1>2. run[i].batch \subseteq Copy
  BY <1>1 DEF Call
<1>3. ProcessOf[i] \in Processes /\ isRunning \in [Processes -> BOOLEAN]
  BY AlertsBounds DEF AlertsInv, AlertsTypes
<1>4. QED
  BY <1>1, <1>2, <1>3 DEF AlertsInv, CallInv

\* What the invariant says of one call.
CallOk(i) ==
  /\ run[i].stage # "idle" => isRunning[ProcessOf[i]] /\ Alone(i)
  /\ run[i].stage = "idle" => run[i].batch = {}
  /\ run[i].stage = "notify" => run[i].cur \in Copy \ run[i].batch /\ Spent(run[i].cur.firing)
  /\ \A c, d \in InHand(i) : c.firing[1] = d.firing[1] => c = d
  /\ \A c \in InHand(i) : <<ProcessOf[i], c.firing>> \notin notified /\ c.firing[2] <= arm[c.firing[1]]

\* A call that does not move, and whose process does not either, stays right while the table grows older and
\* other processes notify.
LEMMA CallStays ==
  ASSUME AlertsInv, NEW j \in Ticks, run'[j] = run[j], isRunning'[ProcessOf[j]] = isRunning[ProcessOf[j]],
         \A k \in Ticks : ProcessOf[k] = ProcessOf[j] => run'[k] = run[k],
         \A a \in Alerts : arm[a] \in Int /\ arm'[a] \in Int /\ arm[a] <= arm'[a],
         \A f \in Firing : Spent(f) => Spent(f)',
         \A f \in Firing : <<ProcessOf[j], f>> \in notified' => <<ProcessOf[j], f>> \in notified
  PROVE  CallOk(j)'
<1>1. InHand(j)' = InHand(j) /\ InHand(j) \subseteq Copy
  BY CallFacts DEF InHand
<1>2. \A c \in Copy : c.firing \in Firing /\ c.firing[1] \in Alerts /\ c.firing[2] \in Int
  BY AlertsBounds DEF Copy, Firing
<1>3. run[j].stage # "idle" => isRunning'[ProcessOf[j]] /\ Alone(j)'
  BY CallFacts DEF Alone
<1>4. run[j].stage = "notify" => run[j].cur \in Copy \ run[j].batch /\ Spent(run[j].cur.firing)'
  <2> SUFFICES ASSUME run[j].stage = "notify"
               PROVE  run[j].cur \in Copy \ run[j].batch /\ Spent(run[j].cur.firing)'
    OBVIOUS
  <2>1. run[j].cur \in Copy \ run[j].batch /\ Spent(run[j].cur.firing)
    BY CallFacts
  <2>2. run[j].cur.firing \in Firing
    BY <1>2, <2>1
  <2>3. Spent(run[j].cur.firing) => Spent(run[j].cur.firing)'
    BY <2>2 DEF Spent, Exists
  <2>4. QED
    BY <2>1, <2>3
<1>5. \A c \in InHand(j) : <<ProcessOf[j], c.firing>> \notin notified' /\ c.firing[2] <= arm'[c.firing[1]]
  BY <1>1, <1>2, CallFacts
<1>6. QED
  BY <1>1, <1>3, <1>4, <1>5, CallFacts DEF CallOk, Spent, Exists

\* A step of one call: the only one at work in its process, or the first.  The others of its process are idle, those
\* of other processes stay as they are.
LEMMA CallStep ==
  ASSUME AlertsInv, NEW i \in Ticks, run[i].stage # "idle" \/ ~isRunning[ProcessOf[i]],
         NEW r \in Call, run' = [run EXCEPT ![i] = r],
         NEW b \in BOOLEAN, isRunning' = [isRunning EXCEPT ![ProcessOf[i]] = b],
         r.stage # "idle" => b,
         r.stage = "idle" => r.batch = {},
         arm' = arm,
         \A f \in Firing : Spent(f) => Spent(f)',
         \A q \in Processes, f \in Firing : q # ProcessOf[i] /\ <<q, f>> \in notified' => <<q, f>> \in notified,
         r.stage = "notify" =>
           /\ r.cur \in Copy \ r.batch
           /\ r.cur.firing[2] <= arm'[r.cur.firing[1]]
           /\ alerts'[r.cur.firing[1]] # Null /\ ~alerts'[r.cur.firing[1]].triggered
                => r.cur.firing[2] < arm'[r.cur.firing[1]],
         NEW hand, hand = r.batch \cup (IF r.stage = "notify" THEN {r.cur} ELSE {}),
         \A c, d \in hand : c.firing[1] = d.firing[1] => c = d,
         \A c \in hand : <<ProcessOf[i], c.firing>> \notin notified' /\ c.firing[2] <= arm'[c.firing[1]]
  PROVE  run' \in [Ticks -> Call] /\ isRunning' \in [Processes -> BOOLEAN] /\ CallInv'
<1>1. run' \in [Ticks -> Call] /\ run'[i] = r /\ \A j \in Ticks \ {i} : run'[j] = run[j]
  BY DEF AlertsInv, AlertsTypes
<1>2. /\ isRunning' \in [Processes -> BOOLEAN] /\ isRunning'[ProcessOf[i]] = b
      /\ \A q \in Processes : q # ProcessOf[i] => isRunning'[q] = isRunning[q]
  BY CallFacts
<1>3. \A j \in Ticks \ {i} : ProcessOf[j] = ProcessOf[i] => run[j].stage = "idle" /\ run[j].batch = {}
  BY CallFacts DEF Alone
<1>4. InHand(i)' = hand
  BY <1>1 DEF InHand
<1>5. CallOk(i)'
  <2>1. r.stage # "idle" => isRunning'[ProcessOf[i]] /\ Alone(i)'
    BY <1>1, <1>2, <1>3 DEF Alone
  <2>2. r.stage = "notify" => r.cur \in Copy \ r.batch /\ Spent(run[i].cur.firing)'
    BY <1>1 DEF Spent, Exists
  <2>3. QED
    BY <1>1, <1>4, <2>1, <2>2 DEF CallOk
<1>6. ASSUME NEW j \in Ticks, j # i, ProcessOf[j] = ProcessOf[i] PROVE CallOk(j)'
  <2>1. run'[j].stage = "idle" /\ run'[j].batch = {}
    BY <1>1, <1>3, <1>6
  <2>2. InHand(j)' = {}
    BY <2>1 DEF InHand
  <2>3. QED
    BY <2>1, <2>2 DEF CallOk
<1>7. ASSUME NEW j \in Ticks, ProcessOf[j] # ProcessOf[i] PROVE CallOk(j)'
  <2>1. ProcessOf[j] \in Processes /\ j # i
    BY <1>7, AlertsBounds
  <2>2. run'[j] = run[j] /\ isRunning'[ProcessOf[j]] = isRunning[ProcessOf[j]]
    BY <1>1, <1>2, <1>7, <2>1
  <2>3. \A k \in Ticks : ProcessOf[k] = ProcessOf[j] => run'[k] = run[k]
    BY <1>1, <1>7
  <2>4. \A a \in Alerts : arm[a] \in Int /\ arm'[a] \in Int /\ arm[a] <= arm'[a]
    BY AlertFacts, AlertsBounds
  <2>5. \A f \in Firing : <<ProcessOf[j], f>> \in notified' => <<ProcessOf[j], f>> \in notified
    BY <1>7, <2>1
  <2>6. QED
    BY <2>2, <2>3, <2>4, <2>5, CallStays
<1>8. \A j \in Ticks : CallOk(j)'
  BY <1>5, <1>6, <1>7
<1>9. CallInv'
  BY <1>8 DEF CallInv, CallOk
<1>10. QED
  BY <1>1, <1>2, <1>9

\* A call that goes on with part of its batch.
LEMMA GoOnStep ==
  ASSUME AlertsInv, NEW i \in Ticks, run[i].stage # "idle", NEW batch, batch \subseteq run[i].batch, GoOn(i, batch),
         UNCHANGED <<arm, alerts>>, \A c \in batch : <<ProcessOf[i], c.firing>> \notin notified',
         \A q \in Processes, f \in Firing : q # ProcessOf[i] /\ <<q, f>> \in notified' => <<q, f>> \in notified
  PROVE  run' \in [Ticks -> Call] /\ CallInv' /\ isRunning' \in [Processes -> BOOLEAN]
<1>1. isRunning[ProcessOf[i]] /\ run[i] \in Call /\ batch \subseteq Copy /\ isRunning \in [Processes -> BOOLEAN]
  BY CallFacts
<1>2. /\ \A c, d \in batch : c.firing[1] = d.firing[1] => c = d
      /\ \A c \in batch : c.firing[2] <= arm[c.firing[1]]
  BY CallFacts DEF InHand
<1>3. \A f \in Firing : Spent(f) => Spent(f)'
  BY DEF Spent, Exists
<1>4. CASE batch = {}
  <2>1. Idle \in Call /\ Idle.stage = "idle" /\ Idle.batch = {}
    BY DEF Idle, Call
  <2>2. run' = [run EXCEPT ![i] = Idle] /\ isRunning' = [isRunning EXCEPT ![ProcessOf[i]] = FALSE]
    BY <1>4 DEF GoOn, Finish
  <2>3. QED
    BY <1>3, <2>1, <2>2, CallStep
<1>5. CASE batch # {}
  <2> DEFINE stage == IF \E c \in batch : c.symbol = run[i].symbol THEN "compare" ELSE "fetch"
             r == [run[i] EXCEPT !.batch = batch, !.cur = Null, !.stage = stage]
  <2>1. run' = [run EXCEPT ![i] = r] /\ isRunning' = isRunning
    BY <1>5 DEF GoOn
  <2>2. r \in Call /\ r.batch = batch /\ r.stage \in {"compare", "fetch"}
    BY <1>1 DEF Call
  <2> HIDE DEF r
  <2>3. batch = r.batch \cup (IF r.stage = "notify" THEN {r.cur} ELSE {})
    BY <2>2
  <2>4. isRunning' = [isRunning EXCEPT ![ProcessOf[i]] = TRUE]
    BY <1>1, <2>1
  <2>5. QED
    BY <1>2, <1>3, <2>1, <2>2, <2>3, <2>4, CallStep
<1>6. QED
  BY <1>4, <1>5

\* Nobody notifies and no call moves; rows change, and one that may fire again was armed again.
LEMMA TableStep ==
  ASSUME AlertsInv, UNCHANGED <<checker, notified>>,
         arm' \in [Alerts -> Int],
         \A a \in Alerts : arm[a] <= arm'[a],
         \A a \in Alerts : alerts'[a] # Null /\ ~alerts'[a].triggered =>
                             (alerts[a] # Null /\ ~alerts[a].triggered) \/ arm[a] < arm'[a]
  PROVE  NotifiedInv' /\ CallInv'
<1>1. \A a \in Alerts : arm[a] \in Int /\ arm'[a] \in Int /\ arm[a] <= arm'[a]
  BY AlertFacts
<1>2. \A f \in Firing : Spent(f) => Spent(f)'
  <2> SUFFICES ASSUME NEW f \in Firing, Spent(f) PROVE Spent(f)'
    OBVIOUS
  <2>1. f[1] \in Alerts /\ f[2] \in Int
    BY AlertsBounds DEF Firing
  <2>2. QED
    BY <1>1, <2>1 DEF Spent, Exists
<1>3. UNCHANGED <<isRunning, run, notified>>
  BY DEF checker
<1>4. NotifiedInv'
  <2> SUFFICES ASSUME NEW n \in notified PROVE Spent(n[2])'
    BY <1>3 DEF NotifiedInv
  <2>1. n[2] \in Firing
    BY DEF AlertsInv, AlertsTypes, Notice
  <2>2. Spent(n[2])
    BY DEF AlertsInv, NotifiedInv
  <2>3. QED
    BY <1>2, <2>1, <2>2 DEF Spent, Exists
<1>5. ASSUME NEW j \in Ticks PROVE CallOk(j)'
  BY <1>1, <1>2, <1>3, CallStays
<1>6. CallInv'
  BY <1>5 DEF CallInv, CallOk
<1>7. QED
  BY <1>4, <1>6

\* The digest moves rows of the queue; the table, the calls and what was notified stay.
LEMMA FlushStep ==
  ASSUME AlertsInv, UNCHANGED <<table, checker, notified>>
  PROVE  NotifiedInv' /\ CallInv' /\ PauseInv' /\ ArmInv'
<1>1. UNCHANGED <<alerts, arm, manual, edits, isRunning, run, notified>>
  BY DEF table, checker
<1>2. \A f : Spent(f)' = Spent(f)
  BY <1>1 DEF Spent, Exists
<1>3. NotifiedInv' /\ PauseInv' /\ ArmInv'
  BY <1>1, <1>2 DEF AlertsInv, NotifiedInv, PauseInv, ArmInv, Exists
<1>4. \A i : InHand(i)' = InHand(i) /\ Alone(i)' = Alone(i)
  BY <1>1 DEF InHand, Alone
<1>5. \A i \in Ticks : Spent(run[i].cur.firing)' = Spent(run[i].cur.firing)
  BY <1>1 DEF Spent, Exists
<1>6. CallInv'
  BY <1>1, <1>4, <1>5 DEF AlertsInv, CallInv
<1>7. QED
  BY <1>3, <1>6
-----------------------------------------------------------------------------
\* The initial states.
LEMMA AlertsInvInit == AlertsInit => AlertsInv
<1> SUFFICES ASSUME AlertsInit PROVE AlertsInv
  OBVIOUS
<1>1. Idle \in Call /\ Idle.stage = "idle" /\ Idle.batch = {}
  BY DEF Idle, Call
<1>2. Stored \subseteq Row /\ \A r \in Stored : r.until # Null => r.paused
  BY DEF Stored
<1>3. AlertsTypes
  <2>1. alerts \in [Alerts -> Row \cup {Null}] /\ run \in [Ticks -> Call]
    BY <1>1, <1>2 DEF AlertsInit
  <2>2. arm \in [Alerts -> 0 .. MaxEdits + 1]
    BY AlertsBounds DEF AlertsInit
  <2>3. queue = {} /\ owed = {} /\ notified = {} /\ manual \subseteq Alerts
    BY DEF AlertsInit
  <2>4. digest \in [Processes -> [stage : {"idle", "read", "send", "mark"}, items : SUBSET Notice]]
    BY DEF AlertsInit, NoDigest
  <2>5. isRunning \in [Processes -> BOOLEAN]
    BY DEF AlertsInit
  <2>6. now \in 0 .. DayLength - 1 /\ edits \in 0 .. MaxEdits /\ failures \in 0 .. MaxFailures
    BY AlertsBounds DEF AlertsInit
  <2>7. QED
    BY <2>1, <2>2, <2>3, <2>4, <2>5, <2>6 DEF AlertsTypes
<1>4. PauseInv /\ ArmInv
  BY <1>2 DEF AlertsInit, PauseInv, ArmInv, Exists
<1>5. NotifiedInv
  BY DEF AlertsInit, NotifiedInv
<1>6. CallInv
  BY <1>1 DEF AlertsInit, CallInv, InHand
<1>7. QED
  BY <1>3, <1>4, <1>5, <1>6 DEF AlertsInv

\* What the actions of the checker leave alone.
LEMMA CheckerFrame ==
  ASSUME AlertsInv, UNCHANGED <<table, flush, now>>, failures' \in 0 .. MaxFailures,
         run' \in [Ticks -> Call], isRunning' \in [Processes -> BOOLEAN], CallInv'
  PROVE  AlertsInv'
<1>1. UNCHANGED <<alerts, arm, manual, edits, queue, owed, notified, digest, now>>
  BY DEF table, flush
<1>2. AlertsTypes'
  BY <1>1 DEF AlertsInv, AlertsTypes
<1>3. PauseInv' /\ ArmInv'
  BY <1>1 DEF AlertsInv, PauseInv, ArmInv, Exists
<1>4. NotifiedInv'
  BY <1>1 DEF AlertsInv, NotifiedInv, Spent, Exists
<1>5. QED
  BY <1>2, <1>3, <1>4 DEF AlertsInv

\* A failure is counted within its bound.
LEMMA FailureFacts == AlertsInv => /\ failures \in 0 .. MaxFailures
                                   /\ Failure => failures' \in 0 .. MaxFailures
BY AlertsBounds DEF AlertsInv, AlertsTypes, Failure

\* The rows that are read were not triggered since they were armed: no process notified their firings.
LEMMA LoadCorrect == ASSUME AlertsInv, NEW i \in Ticks, LoadAlerts(i) PROVE AlertsInv'
<1> DEFINE batch == {CopyOf(a) : a \in {b \in Alerts : Active(b)}}
           r == [Idle EXCEPT !.stage = "fetch", !.batch = batch]
<1>1. /\ ~isRunning[ProcessOf[i]] /\ run' = [run EXCEPT ![i] = r]
      /\ isRunning' = [isRunning EXCEPT ![ProcessOf[i]] = TRUE]
      /\ UNCHANGED <<table, flush, now, failures>>
  BY DEF LoadAlerts
<1>2. ASSUME NEW a \in Alerts, Active(a)
      PROVE  /\ CopyOf(a) \in Copy /\ CopyOf(a).firing = <<a, arm[a]>>
             /\ <<ProcessOf[i], CopyOf(a).firing>> \notin notified
  <2>1. alerts[a] \in Row /\ arm[a] \in 1 .. MaxEdits + 1
    BY <1>2, AlertFacts, AlertsBounds DEF Active, Exists
  <2>2. CopyOf(a) \in Copy /\ CopyOf(a).firing = <<a, arm[a]>>
    BY <2>1 DEF CopyOf, Copy, Firing, Row
  <2>3. ~Spent(<<a, arm[a]>>)
    BY <1>2, <2>1 DEF Spent, Active
  <2>4. <<ProcessOf[i], <<a, arm[a]>>>> \notin notified
    BY <2>3 DEF AlertsInv, NotifiedInv
  <2>5. QED
    BY <2>2, <2>4
<1>3. batch \subseteq Copy
  BY <1>2
<1>4. r \in Call /\ r.batch = batch /\ r.stage = "fetch"
  BY <1>3 DEF Idle, Call
<1>5. UNCHANGED <<alerts, arm, notified>>
  BY <1>1 DEF table, flush
<1>6. \A c \in batch : <<ProcessOf[i], c.firing>> \notin notified' /\ c.firing[2] <= arm'[c.firing[1]]
  <2> SUFFICES ASSUME NEW a \in Alerts, Active(a)
               PROVE  /\ <<ProcessOf[i], CopyOf(a).firing>> \notin notified'
                      /\ CopyOf(a).firing[2] <= arm'[CopyOf(a).firing[1]]
    OBVIOUS
  <2>1. arm[a] <= arm[a]
    BY AlertFacts
  <2>2. QED
    BY <1>2, <1>5, <2>1
<1>7. \A c, d \in batch : c.firing[1] = d.firing[1] => c = d
  <2>1. ASSUME NEW a \in Alerts, NEW b \in Alerts, Active(a), Active(b), CopyOf(a).firing[1] = CopyOf(b).firing[1]
        PROVE  a = b
    <3>1. CopyOf(a).firing = <<a, arm[a]>> /\ CopyOf(b).firing = <<b, arm[b]>>
      BY <2>1, <1>2
    <3>2. CopyOf(a).firing[1] = a /\ CopyOf(b).firing[1] = b
      BY <3>1
    <3>3. QED
      BY <2>1, <3>2
  <2>2. QED
    BY <2>1
<1> HIDE DEF r, batch
<1>8. batch = r.batch \cup (IF r.stage = "notify" THEN {r.cur} ELSE {})
  BY <1>4
<1>9. \A f \in Firing : Spent(f) => Spent(f)'
  BY <1>5 DEF Spent, Exists
<1>10. run' \in [Ticks -> Call] /\ isRunning' \in [Processes -> BOOLEAN] /\ CallInv'
  BY <1>1, <1>4, <1>5, <1>6, <1>7, <1>8, <1>9, CallStep
<1>11. QED
  BY <1>1, <1>10, CheckerFrame, FailureFacts

\* The call finds a price, or drops what it cannot or need not notify.
LEMMA FetchCorrect == ASSUME AlertsInv, NEW i \in Ticks, FetchPrice(i) PROVE AlertsInv'
<1>1. PICK c \in run[i].batch, p \in Prices :
        run' = [run EXCEPT ![i] = [@ EXCEPT !.stage = "compare", !.symbol = c.symbol, !.price = p]]
  BY DEF FetchPrice
<1>2. run[i].stage = "fetch" /\ UNCHANGED <<table, isRunning, flush, now, failures>>
  BY DEF FetchPrice
<1> DEFINE r == [run[i] EXCEPT !.stage = "compare", !.symbol = c.symbol, !.price = p]
<1>3. /\ run[i] \in Call /\ c.symbol \in Symbols /\ isRunning \in [Processes -> BOOLEAN]
      /\ isRunning[ProcessOf[i]]
  BY <1>2, CallFacts DEF Copy
<1>4. r \in Call /\ r.batch = run[i].batch /\ r.stage = "compare"
  BY <1>3 DEF Call
<1>5. run' = [run EXCEPT ![i] = r]
  BY <1>1
<1> HIDE DEF r
<1>6. UNCHANGED <<alerts, arm, notified>> /\ isRunning' = [isRunning EXCEPT ![ProcessOf[i]] = TRUE]
  BY <1>2, <1>3 DEF table, flush
<1>7. InHand(i) = run[i].batch
  BY <1>2 DEF InHand
<1>8. InHand(i) = r.batch \cup (IF r.stage = "notify" THEN {r.cur} ELSE {})
  BY <1>4, <1>7
<1>9. /\ \A d, e \in InHand(i) : d.firing[1] = e.firing[1] => d = e
      /\ \A d \in InHand(i) : <<ProcessOf[i], d.firing>> \notin notified' /\ d.firing[2] <= arm'[d.firing[1]]
  BY <1>6, CallFacts
<1>10. \A f \in Firing : Spent(f) => Spent(f)'
  BY <1>6 DEF Spent, Exists
<1>11. run' \in [Ticks -> Call] /\ isRunning' \in [Processes -> BOOLEAN] /\ CallInv'
  BY <1>2, <1>4, <1>5, <1>6, <1>8, <1>9, <1>10, CallStep
<1>12. QED
  BY <1>2, <1>11, CheckerFrame, FailureFacts

\* A call that leaves part of its batch: no price, condition not met.
LEMMA DropCorrect ==
  ASSUME AlertsInv, NEW i \in Ticks, run[i].stage # "idle", NEW batch, batch \subseteq run[i].batch, GoOn(i, batch),
         UNCHANGED <<table, flush, now>>, failures' \in 0 .. MaxFailures
  PROVE  AlertsInv'
<1>1. UNCHANGED <<arm, alerts, notified>>
  BY DEF table, flush
<1>2. \A c \in batch : <<ProcessOf[i], c.firing>> \notin notified'
  BY <1>1, CallFacts DEF InHand
<1>3. run' \in [Ticks -> Call] /\ CallInv' /\ isRunning' \in [Processes -> BOOLEAN]
  BY <1>1, <1>2, GoOnStep
<1>4. QED
  BY <1>3, CheckerFrame

\* The call ends on an error: the flag is reset, and nothing is in hand.
LEMMA CheckFailsCorrect == ASSUME AlertsInv, NEW i \in Ticks, CheckFails(i) PROVE AlertsInv'
<1>1. run[i].stage # "idle" /\ Finish(i) /\ UNCHANGED <<table, flush, now>> /\ Failure
  BY DEF CheckFails
<1>2. GoOn(i, {})
  BY <1>1 DEF GoOn
<1>3. QED
  BY <1>1, <1>2, DropCorrect, FailureFacts

\* The row is marked, so that its firing is spent when it is notified.
LEMMA MarkCorrect == ASSUME AlertsInv, NEW i \in Ticks, MarkTriggered(i) PROVE AlertsInv'
<1>1. run[i].stage = "compare" /\ UNCHANGED <<arm, manual, edits, isRunning, flush, now, failures>>
  BY DEF MarkTriggered
<1>2. PICK c \in run[i].batch :
        /\ alerts' = IF Exists(c.firing[1]) THEN [alerts EXCEPT ![c.firing[1]].triggered = TRUE] ELSE alerts
        /\ run' = [run EXCEPT ![i] = [@ EXCEPT !.stage = "notify", !.cur = c, !.batch = run[i].batch \ {c},
                                               !.quiet = isWithinQuietHours(now)]]
  BY DEF MarkTriggered
<1> DEFINE r == [run[i] EXCEPT !.stage = "notify", !.cur = c, !.batch = run[i].batch \ {c},
                              !.quiet = isWithinQuietHours(now)]
           a == c.firing[1]
<1>3. /\ run[i] \in Call /\ isRunning \in [Processes -> BOOLEAN] /\ isRunning[ProcessOf[i]] /\ c \in Copy /\ a \in Alerts /\ run[i].batch \subseteq Copy
      /\ InHand(i) = run[i].batch
  BY <1>1, CallFacts DEF Copy, Firing, InHand
<1>4. isWithinQuietHours(now) \in BOOLEAN
  BY DEF isWithinQuietHours
<1>5. r \in Call /\ r.batch = run[i].batch \ {c} /\ r.stage = "notify" /\ r.cur = c
  BY <1>3, <1>4 DEF Call
<1>6. run' = [run EXCEPT ![i] = r]
  BY <1>2
<1>7. /\ alerts' \in [Alerts -> Row \cup {Null}]
      /\ \A b \in Alerts : b # a => alerts'[b] = alerts[b]
      /\ alerts[a] = Null => alerts'[a] = Null
      /\ alerts[a] # Null => /\ alerts[a] \in Row
                             /\ alerts'[a] = [alerts[a] EXCEPT !.triggered = TRUE]
  <2>1. alerts \in [Alerts -> Row \cup {Null}]
    BY DEF AlertsInv, AlertsTypes
  <2>2. CASE alerts[a] = Null
    BY <1>2, <2>1, <2>2 DEF Exists
  <2>3. CASE alerts[a] # Null
    <3>1. alerts[a] \in Row /\ [alerts[a] EXCEPT !.triggered = TRUE] \in Row
      BY <1>3, <2>1, <2>3 DEF Row
    <3>2. alerts' = [alerts EXCEPT ![a] = [alerts[a] EXCEPT !.triggered = TRUE]]
      BY <1>2, <2>3 DEF Exists
    <3>3. QED
      BY <1>3, <2>1, <2>3, <3>1, <3>2
  <2>4. QED
    BY <2>2, <2>3
<1>8. alerts[a] # Null => /\ alerts'[a] # Null /\ alerts'[a].triggered
                          /\ alerts'[a].paused = alerts[a].paused /\ alerts'[a].until = alerts[a].until
  <2>1. alerts[a] # Null => [alerts[a] EXCEPT !.triggered = TRUE] \in Row
    BY <1>7 DEF Row
  <2>2. QED
    BY <1>7, <2>1, NullAssumption DEF Row
<1>9. /\ UNCHANGED <<arm, queue, owed, notified, manual, edits, now, digest>>
      /\ isRunning' = [isRunning EXCEPT ![ProcessOf[i]] = TRUE]
  BY <1>1, <1>3 DEF flush
<1> HIDE DEF r
<1>10. InHand(i) = r.batch \cup (IF r.stage = "notify" THEN {r.cur} ELSE {})
  BY <1>3, <1>5
<1>11. /\ \A d, e \in InHand(i) : d.firing[1] = e.firing[1] => d = e
       /\ \A d \in InHand(i) : <<ProcessOf[i], d.firing>> \notin notified' /\ d.firing[2] <= arm'[d.firing[1]]
  BY <1>9, CallFacts
<1>12. /\ r.cur \in Copy \ r.batch
       /\ r.cur.firing[2] <= arm'[r.cur.firing[1]]
       /\ ~(alerts'[r.cur.firing[1]] # Null /\ ~alerts'[r.cur.firing[1]].triggered)
  BY <1>3, <1>5, <1>7, <1>8, <1>11
<1>13. /\ \A f \in Firing : Spent(f) => Spent(f)'
       /\ run' \in [Ticks -> Call] /\ isRunning' \in [Processes -> BOOLEAN] /\ CallInv'
  <2>1. \A b \in Alerts : alerts'[b] # Null /\ ~alerts'[b].triggered => alerts[b] # Null /\ ~alerts[b].triggered
    BY <1>7, <1>8
  <2>2. \A f \in Firing : f[1] \in Alerts
    BY DEF Firing
  <2>3. \A f \in Firing : Spent(f) => Spent(f)'
    BY <1>9, <2>1, <2>2 DEF Spent, Exists
  <2>4. run[i].stage # "idle" /\ UNCHANGED <<arm, notified>>
    BY <1>1, <1>9
  <2>5. QED
    BY <1>5, <1>6, <1>9, <1>10, <1>11, <1>12, <2>3, <2>4, CallStep
<1>14. AlertsTypes'
  BY <1>1, <1>7, <1>9, <1>13 DEF AlertsInv, AlertsTypes
<1>15. PauseInv' /\ ArmInv'
  <2>1. ASSUME NEW b \in Alerts
        PROVE  /\ alerts'[b] = Null <=> alerts[b] = Null
               /\ alerts[b] # Null => alerts'[b].paused = alerts[b].paused /\ alerts'[b].until = alerts[b].until
    BY <1>7, <1>8
  <2>2. manual \subseteq Alerts
    BY DEF AlertsInv, AlertsTypes
  <2>3. PauseInv'
    BY <1>9, <2>1, <2>2 DEF AlertsInv, PauseInv, Exists
  <2>4. ArmInv'
    BY <1>9, <2>1 DEF AlertsInv, ArmInv, Exists
  <2>5. QED
    BY <2>3, <2>4
<1>16. NotifiedInv'
  <2> SUFFICES ASSUME NEW n \in notified PROVE Spent(n[2])'
    BY <1>9 DEF NotifiedInv
  <2>1. Spent(n[2]) /\ n[2] \in Firing
    BY DEF AlertsInv, AlertsTypes, NotifiedInv, Notice
  <2>2. QED
    BY <1>13, <2>1 DEF Spent, Exists
<1>17. QED
  BY <1>13, <1>14, <1>15, <1>16 DEF AlertsInv

\* The firing in hand is notified; the rest of the batch are firings of other alerts.
LEMMA NotifyCorrect == ASSUME AlertsInv, NEW i \in Ticks, Notify(i) PROVE AlertsInv'
<1> DEFINE f == run[i].cur.firing
           row == <<ProcessOf[i], f>>
<1>1. /\ run[i].stage = "notify" /\ GoOn(i, run[i].batch) /\ UNCHANGED <<table, digest, now>>
      /\ notified' = notified \cup {row}
      /\ queue' \in {queue, queue \cup {row}} /\ owed' \in {owed, owed \cup {row}}
      /\ failures' \in 0 .. MaxFailures
  BY FailureFacts DEF Notify
<1>2. /\ run[i].cur \in Copy \ run[i].batch /\ Spent(f) /\ f \in Firing /\ run[i].batch \subseteq Copy
      /\ run[i].cur \in InHand(i) /\ run[i].batch \subseteq InHand(i)
  BY <1>1, CallFacts DEF Copy, InHand
<1>3. UNCHANGED <<alerts, arm, manual, edits, digest, now>>
  BY <1>1 DEF table
<1>4. row \in Notice
  BY <1>2, CallFacts DEF Notice
<1>5. queue' \subseteq Notice /\ owed' \subseteq Notice /\ notified' \subseteq Notice
  BY <1>1, <1>4 DEF AlertsInv, AlertsTypes
<1>6. \A c \in run[i].batch : <<ProcessOf[i], c.firing>> \notin notified'
  <2> SUFFICES ASSUME NEW c \in run[i].batch PROVE <<ProcessOf[i], c.firing>> \notin notified /\ c.firing # f
    BY <1>1
  <2>1. <<ProcessOf[i], c.firing>> \notin notified /\ (c.firing[1] = f[1] => c = run[i].cur)
    BY <1>2, CallFacts
  <2>2. QED
    BY <1>2, <2>1
<1>7. \A q \in Processes, g \in Firing : q # ProcessOf[i] /\ <<q, g>> \in notified' => <<q, g>> \in notified
  BY <1>1
<1>8. run' \in [Ticks -> Call] /\ CallInv' /\ isRunning' \in [Processes -> BOOLEAN]
  BY <1>1, <1>3, <1>6, <1>7, GoOnStep
<1>9. AlertsTypes'
  BY <1>1, <1>3, <1>5, <1>8 DEF AlertsInv, AlertsTypes
<1>10. PauseInv' /\ ArmInv'
  BY <1>3 DEF AlertsInv, PauseInv, ArmInv, Exists
<1>11. NotifiedInv'
  <2>1. \A g : Spent(g)' = Spent(g)
    BY <1>3 DEF Spent, Exists
  <2>2. QED
    BY <1>1, <1>2, <2>1 DEF AlertsInv, NotifiedInv
<1>12. QED
  BY <1>8, <1>9, <1>10, <1>11 DEF AlertsInv

-----------------------------------------------------------------------------
(* runDailyDigest, the user and the clock. *)

\* Each step of the digest mails or closes what was held back, and nothing else.
LEMMA DigestCorrect == ASSUME AlertsInv, NEW p \in Processes, runDailyDigest(p) PROVE AlertsInv'
<1> DEFINE Digest == [stage : {"idle", "read", "send", "mark"}, items : SUBSET Notice]
<1>1. digest \in [Processes -> Digest] /\ queue \subseteq Notice /\ owed \subseteq Notice /\ NoDigest \in Digest
  BY DEF AlertsInv, AlertsTypes, NoDigest
<1>2. /\ UNCHANGED <<table, checker, notified, now>> /\ failures' \in 0 .. MaxFailures
      /\ queue' \subseteq Notice /\ owed' \subseteq Notice /\ digest' \in [Processes -> Digest]
  <2>1. CASE ReadDigest(p)
    <3>1. PICK d \in Digest : digest' = [digest EXCEPT ![p] = d]
      BY <1>1, <2>1 DEF ReadDigest
    <3>2. QED
      BY <1>1, <2>1, <3>1, FailureFacts DEF ReadDigest
  <2>2. CASE SendDigest(p)
    <3>1. PICK d \in Digest : digest' = [digest EXCEPT ![p] = d]
      <4>1. [digest[p] EXCEPT !.stage = "mark"] \in Digest
        BY <1>1
      <4>2. QED
        BY <1>1, <2>2, <4>1 DEF SendDigest
    <3>2. UNCHANGED <<table, checker, queue, notified, now>> /\ owed' \in {owed, owed \ digest[p].items}
          /\ failures' \in 0 .. MaxFailures
      BY <2>2, FailureFacts DEF SendDigest
    <3>3. QED
      BY <1>1, <3>1, <3>2
  <2>3. CASE MarkSent(p)
    <3>1. UNCHANGED <<table, checker, owed, notified, now>> /\ digest' = [digest EXCEPT ![p] = NoDigest]
          /\ failures' \in 0 .. MaxFailures /\ queue' \in {queue, queue \ digest[p].items}
      BY <2>3, FailureFacts DEF MarkSent
    <3>2. QED
      BY <1>1, <3>1
  <2>4. QED
    BY <2>1, <2>2, <2>3 DEF runDailyDigest
<1>3. NotifiedInv' /\ CallInv' /\ PauseInv' /\ ArmInv'
  BY <1>2, FlushStep
<1>4. AlertsTypes'
  BY <1>2 DEF AlertsInv, AlertsTypes, table, checker
<1>5. QED
  BY <1>3, <1>4 DEF AlertsInv

\* A step that only changes the table, and the count of commands.
LEMMA UserStep ==
  ASSUME AlertsInv, UNCHANGED <<checker, flush, now, failures>>, edits' \in edits .. MaxEdits,
         alerts' \in [Alerts -> Row \cup {Null}], arm' \in [Alerts -> 0 .. MaxEdits + 1], manual' \subseteq Alerts,
         ArmInv', PauseInv',
         \A a \in Alerts : arm[a] <= arm'[a],
         \A a \in Alerts : alerts'[a] # Null /\ ~alerts'[a].triggered =>
                             (alerts[a] # Null /\ ~alerts[a].triggered) \/ arm[a] < arm'[a]
  PROVE  AlertsInv'
<1>1. UNCHANGED <<isRunning, run, queue, owed, notified, digest, now, failures>> /\ edits' \in 0 .. MaxEdits
  BY AlertsBounds DEF checker, flush, AlertsInv, AlertsTypes
<1>2. AlertsTypes'
  BY <1>1 DEF AlertsInv, AlertsTypes
<1>3. NotifiedInv' /\ CallInv'
  BY <1>1, AlertsBounds, TableStep DEF checker
<1>4. QED
  BY <1>2, <1>3 DEF AlertsInv

\* What the commands of the user start from.
LEMMA TableFacts ==
  ASSUME AlertsInv
  PROVE  /\ alerts \in [Alerts -> Row \cup {Null}] /\ arm \in [Alerts -> 0 .. MaxEdits + 1] /\ manual \subseteq Alerts
         /\ edits \in 0 .. MaxEdits /\ PauseInv /\ ArmInv
         /\ Edit => edits' = edits + 1 /\ edits' \in edits .. MaxEdits /\ UNCHANGED <<checker, flush, now, failures>>
<1>1. edits \in 0 .. MaxEdits
  BY DEF AlertsInv, AlertsTypes
<1>2. Edit => edits' = edits + 1 /\ edits' \in edits .. MaxEdits /\ UNCHANGED <<checker, flush, now, failures>>
  BY <1>1, AlertsBounds DEF Edit
<1>3. QED
  BY <1>1, <1>2 DEF AlertsInv, AlertsTypes

\* A command that changes one row and does not touch its mark.
LEMMA RowStep ==
  ASSUME AlertsInv, NEW a \in Alerts, Exists(a), NEW row \in Row, Change(a, row), Edit, arm' = arm,
         row.triggered = alerts[a].triggered,
         row.until # Null => row.paused,
         manual' \subseteq manual \cup {a},
         a \in manual' => row.paused /\ row.until = Null
  PROVE  AlertsInv'
<1>1. alerts' \in [Alerts -> Row \cup {Null}] /\ alerts'[a] = row /\ \A b \in Alerts \ {a} : alerts'[b] = alerts[b]
  BY TableFacts DEF Change
<1>2. ArmInv'
  BY <1>1, TableFacts, AlertsBounds DEF ArmInv, Exists
<1>3. PauseInv'
  <2>1. \A b \in Alerts : Exists(b)' /\ alerts'[b].until # Null => alerts'[b].paused
    BY <1>1, TableFacts DEF PauseInv, Exists
  <2>2. \A b \in manual' : Exists(b)' /\ alerts'[b].paused /\ alerts'[b].until = Null
    BY <1>1, TableFacts, NullAssumption DEF PauseInv, Exists
  <2>3. QED
    BY <2>1, <2>2 DEF PauseInv
<1>4. \A b \in Alerts : arm[b] <= arm'[b]
  BY TableFacts
<1>5. \A b \in Alerts : alerts'[b] # Null /\ ~alerts'[b].triggered => alerts[b] # Null /\ ~alerts[b].triggered
  BY <1>1 DEF Exists
<1>6. QED
  BY <1>1, <1>2, <1>3, <1>4, <1>5, TableFacts, UserStep

\* A new row is armed for the first time.
LEMMA CreateCorrect ==
  ASSUME AlertsInv, NEW a \in Alerts, NEW row \in Fresh, createAlert(a, row) PROVE AlertsInv'
<1>1. row \in Row /\ row.until = Null /\ ~row.triggered
  BY DEF Fresh, Row
<1>2. /\ alerts' = [alerts EXCEPT ![a] = row] /\ arm' = [arm EXCEPT ![a] = 1] /\ manual' = manual
      /\ ~Exists(a) /\ arm[a] = 0 /\ Edit
  BY DEF createAlert, Change
<1>3. /\ alerts' \in [Alerts -> Row \cup {Null}] /\ alerts'[a] = row /\ \A b \in Alerts \ {a} : alerts'[b] = alerts[b]
      /\ arm'[a] = 1 /\ \A b \in Alerts \ {a} : arm'[b] = arm[b]
      /\ arm' \in [Alerts -> 0 .. MaxEdits + 1]
  BY <1>1, <1>2, TableFacts, AlertsBounds
<1>4. ArmInv'
  BY <1>2, <1>3, TableFacts, AlertsBounds DEF ArmInv, Exists
<1>5. PauseInv'
  <2>1. a \notin manual
    BY <1>2, TableFacts DEF PauseInv
  <2>2. QED
    BY <1>1, <1>2, <1>3, <2>1, TableFacts DEF PauseInv, Exists
<1>6. \A b \in Alerts : arm[b] <= arm'[b]
  BY <1>2, <1>3, TableFacts
<1>7. \A b \in Alerts : alerts'[b] # Null /\ ~alerts'[b].triggered =>
                          (alerts[b] # Null /\ ~alerts[b].triggered) \/ arm[b] < arm'[b]
  BY <1>2, <1>3
<1>8. QED
  BY <1>2, <1>3, <1>4, <1>5, <1>6, <1>7, TableFacts, UserStep

\* The commands that change one row of an alert that is there.
LEMMA CommandsCorrect ==
  ASSUME AlertsInv, NEW a \in Alerts,
         \/ \E s \in Symbols, t \in Targets : updateAlert(a, s, t)
         \/ \E f \in {"instant", "digest"} : setEmailFrequency(a, f)
         \/ togglePause(a) \/ snoozeAlert(a)
  PROVE  AlertsInv'
<1>1. Exists(a) /\ alerts[a] \in Row /\ (alerts[a].until # Null => alerts[a].paused)
      /\ (a \in manual => alerts[a].paused /\ alerts[a].until = Null)
  BY TableFacts DEF updateAlert, setEmailFrequency, togglePause, snoozeAlert, Exists, PauseInv
<1>2. ASSUME NEW s \in Symbols, NEW t \in Targets, updateAlert(a, s, t) PROVE AlertsInv'
  <2> DEFINE row == [alerts[a] EXCEPT !.symbol = s, !.target = t]
  <2>1. /\ row \in Row /\ row.triggered = alerts[a].triggered /\ row.until = alerts[a].until
        /\ row.paused = alerts[a].paused
    BY <1>1 DEF Row
  <2>2. Change(a, row) /\ Edit /\ UNCHANGED <<arm, manual>>
    BY <1>2 DEF updateAlert
  <2> HIDE DEF row
  <2>3. QED
    BY <1>1, <2>1, <2>2, RowStep
<1>3. ASSUME NEW f \in {"instant", "digest"}, setEmailFrequency(a, f) PROVE AlertsInv'
  <2> DEFINE row == [alerts[a] EXCEPT !.freq = f]
  <2>1. /\ row \in Row /\ row.triggered = alerts[a].triggered /\ row.until = alerts[a].until
        /\ row.paused = alerts[a].paused
    BY <1>1 DEF Row
  <2>2. Change(a, row) /\ Edit /\ UNCHANGED <<arm, manual>>
    BY <1>3 DEF setEmailFrequency
  <2> HIDE DEF row
  <2>3. QED
    BY <1>1, <2>1, <2>2, RowStep
<1>4. CASE togglePause(a)
  <2> DEFINE row == [alerts[a] EXCEPT !.paused = ~alerts[a].paused, !.until = Null]
  <2>1. /\ row \in Row /\ row.triggered = alerts[a].triggered /\ row.until = Null
        /\ row.paused = ~alerts[a].paused
    BY <1>1 DEF Row
  <2>2. /\ Change(a, row) /\ Edit /\ arm' = arm
        /\ manual' = IF alerts[a].paused THEN manual \ {a} ELSE manual \cup {a}
    BY <1>4 DEF togglePause
  <2>3. manual' \subseteq manual \cup {a} /\ (a \in manual' => row.paused)
    BY <2>1, <2>2
  <2> HIDE DEF row
  <2>4. QED
    BY <1>1, <2>1, <2>2, <2>3, RowStep
<1>5. CASE snoozeAlert(a)
  <2> DEFINE row == [alerts[a] EXCEPT !.paused = TRUE, !.until = Snooze]
  <2>1. row \in Row /\ row.triggered = alerts[a].triggered /\ row.paused
    <3>1. Snooze \in 0 .. Snooze
      BY AlertsBounds
    <3>2. QED
      BY <1>1, <3>1 DEF Row
  <2>2. Change(a, row) /\ Edit /\ arm' = arm /\ manual' = manual \ {a}
    BY <1>5 DEF snoozeAlert
  <2>3. manual' \subseteq manual \cup {a} /\ a \notin manual'
    BY <2>2
  <2> HIDE DEF row
  <2>4. QED
    BY <1>1, <2>1, <2>2, <2>3, RowStep
<1>6. QED
  BY <1>2, <1>3, <1>4, <1>5

\* A reset arms the alert again: its new firing is none of those dealt with.
LEMMA ResetCorrect == ASSUME AlertsInv, NEW a \in Alerts, resetAlert(a) PROVE AlertsInv'
<1> DEFINE row == [alerts[a] EXCEPT !.triggered = FALSE, !.paused = FALSE, !.until = Null]
<1>1. /\ Exists(a) /\ alerts' = [alerts EXCEPT ![a] = row] /\ arm' = [arm EXCEPT ![a] = arm[a] + 1]
      /\ manual' = manual \ {a} /\ Edit
  BY DEF resetAlert, Change
<1>2. row \in Row /\ row.until = Null
  BY <1>1, TableFacts DEF Exists, Row
<1> HIDE DEF row
<1>3. arm[a] <= edits + 1 /\ edits' = edits + 1 /\ edits' \in 1 .. MaxEdits /\ arm[a] \in Nat
  BY <1>1, TableFacts, AlertsBounds DEF ArmInv
<1>4. arm[a] + 1 \in 0 .. MaxEdits + 1 /\ arm[a] + 1 <= edits' + 1
  BY <1>3, TableFacts, AlertsBounds
<1>5. /\ alerts' \in [Alerts -> Row \cup {Null}] /\ alerts'[a] = row /\ \A b \in Alerts \ {a} : alerts'[b] = alerts[b]
      /\ arm'[a] = arm[a] + 1 /\ \A b \in Alerts \ {a} : arm'[b] = arm[b]
      /\ arm' \in [Alerts -> 0 .. MaxEdits + 1]
  BY <1>1, <1>2, <1>4, TableFacts
<1>6. ArmInv'
  BY <1>1, <1>3, <1>4, <1>5, TableFacts, AlertsBounds DEF ArmInv, Exists
<1>7. PauseInv'
  BY <1>1, <1>2, <1>5, TableFacts DEF PauseInv, Exists
<1>8. \A b \in Alerts : arm[b] <= arm'[b] /\ (b # a \/ arm[b] < arm'[b])
  BY <1>3, <1>5, TableFacts, AlertsBounds
<1>9. QED
  BY <1>1, <1>5, <1>6, <1>7, <1>8, TableFacts, UserStep

\* Rows go.
LEMMA RemoveStep ==
  ASSUME AlertsInv, NEW S, Edit, alerts' = [a \in Alerts |-> IF a \in S THEN Null ELSE alerts[a]],
         manual' = manual \ S, arm' = arm
  PROVE  AlertsInv'
<1>1. /\ alerts' \in [Alerts -> Row \cup {Null}]
      /\ \A a \in Alerts : alerts'[a] = IF a \in S THEN Null ELSE alerts[a]
  BY TableFacts
<1>2. ArmInv'
  BY <1>1, TableFacts, AlertsBounds DEF ArmInv, Exists
<1>3. PauseInv'
  BY <1>1, TableFacts DEF PauseInv, Exists
<1>4. \A a \in Alerts : arm[a] <= arm'[a]
  BY TableFacts
<1>5. \A a \in Alerts : alerts'[a] # Null /\ ~alerts'[a].triggered => alerts[a] # Null /\ ~alerts[a].triggered
  BY <1>1
<1>6. QED
  BY <1>1, <1>2, <1>3, <1>4, <1>5, TableFacts, UserStep

\* One row goes ...
LEMMA DeleteCorrect == ASSUME AlertsInv, NEW a \in Alerts, deleteAlert(a) PROVE AlertsInv'
<1>1. alerts' = [alerts EXCEPT ![a] = Null] /\ manual' = manual \ {a} /\ arm' = arm /\ Edit
  BY DEF deleteAlert, Change
<1>2. alerts' = [b \in Alerts |-> IF b \in {a} THEN Null ELSE alerts[b]]
  BY <1>1, TableFacts
<1>3. QED
  BY <1>1, <1>2, RemoveStep

\* ... or all that are triggered.
LEMMA ClearCorrect == ASSUME AlertsInv, clearAllTriggered PROVE AlertsInv'
BY RemoveStep DEF clearAllTriggered

\* Rows whose snooze is lifted or gets shorter.
LEMMA SnoozeStep ==
  ASSUME AlertsInv, NEW rows, alerts' = rows, rows \in [Alerts -> Row \cup {Null}], UNCHANGED <<arm, manual, edits>>,
         \A a \in Alerts : rows[a] = alerts[a] \/
           /\ Exists(a) /\ alerts[a].until # Null /\ rows[a] # Null
           /\ rows[a].triggered = alerts[a].triggered
           /\ rows[a].until # Null => rows[a].paused
  PROVE  /\ ArmInv' /\ PauseInv' /\ \A a \in Alerts : arm[a] <= arm'[a]
         /\ \A a \in Alerts : alerts'[a] # Null /\ ~alerts'[a].triggered => alerts[a] # Null /\ ~alerts[a].triggered
<1>1. ArmInv'
  BY TableFacts, AlertsBounds DEF ArmInv, Exists
<1>2. PauseInv'
  BY TableFacts DEF PauseInv, Exists
<1>3. QED
  BY <1>1, <1>2, TableFacts DEF Exists

\* Loading the page lifts what ran out ...
LEMMA ReleaseCorrect == ASSUME AlertsInv, releaseExpiredSnoozes PROVE AlertsInv'
<1> DEFINE lifted(a) == [alerts[a] EXCEPT !.paused = FALSE, !.until = Null]
           rows == [a \in Alerts |-> IF Exists(a) /\ alerts[a].until = 0 THEN lifted(a) ELSE alerts[a]]
<1>1. alerts' = rows /\ UNCHANGED <<arm, manual, edits, checker, flush, now, failures>>
  BY DEF releaseExpiredSnoozes
<1>2. ASSUME NEW a \in Alerts
      PROVE  /\ rows[a] \in Row \cup {Null}
             /\ \/ rows[a] = alerts[a]
                \/ /\ Exists(a) /\ alerts[a].until # Null /\ rows[a] # Null
                   /\ rows[a].triggered = alerts[a].triggered
                   /\ rows[a].until # Null => rows[a].paused
  <2>1. CASE Exists(a) /\ alerts[a].until = 0
    <3>1. alerts[a] \in Row
      BY <2>1, TableFacts DEF Exists
    <3>2. /\ lifted(a) \in Row /\ lifted(a).triggered = alerts[a].triggered /\ lifted(a).until = Null
      BY <3>1 DEF Row
    <3>3. rows[a] = lifted(a)
      BY <2>1
    <3> HIDE DEF rows, lifted
    <3>4. QED
      BY <2>1, <3>2, <3>3, AlertsBounds, NullAssumption
  <2>2. CASE ~(Exists(a) /\ alerts[a].until = 0)
    BY <2>2, TableFacts
  <2>3. QED
    BY <2>1, <2>2
<1>3. rows \in [Alerts -> Row \cup {Null}]
  BY <1>2
<1> HIDE DEF rows
<1>4. UNCHANGED <<arm, manual, edits>>
  BY <1>1
<1>5. /\ ArmInv' /\ PauseInv' /\ \A a \in Alerts : arm[a] <= arm'[a]
      /\ \A a \in Alerts : alerts'[a] # Null /\ ~alerts'[a].triggered => alerts[a] # Null /\ ~alerts[a].triggered
  BY <1>1, <1>2, <1>3, <1>4, SnoozeStep
<1>6. edits' \in edits .. MaxEdits /\ alerts' \in [Alerts -> Row \cup {Null}] /\ arm' \in [Alerts -> 0 .. MaxEdits + 1]
      /\ manual' \subseteq Alerts
  BY <1>1, <1>3, TableFacts, AlertsBounds
<1>7. QED
  BY <1>1, <1>5, <1>6, UserStep

\* Every command of the user.
LEMMA UserCorrect == ASSUME AlertsInv, User PROVE AlertsInv'
BY CreateCorrect, CommandsCorrect, ResetCorrect, DeleteCorrect, ClearCorrect, ReleaseCorrect DEF User

\* ... and the clock runs the others down, and starts the digest.
LEMMA ClockCorrect == ASSUME AlertsInv, ClockTicks PROVE AlertsInv'
<1> DEFINE shorter(a) == [alerts[a] EXCEPT !.until = alerts[a].until - 1]
           rows == [a \in Alerts |-> IF Exists(a) /\ alerts[a].until \notin {0, Null} THEN shorter(a) ELSE alerts[a]]
<1>1. /\ alerts' = rows /\ now' = (now + 1) % DayLength
      /\ UNCHANGED <<arm, manual, edits, checker, queue, owed, notified, failures>>
  BY DEF ClockTicks
<1>2. ASSUME NEW a \in Alerts
      PROVE  /\ rows[a] \in Row \cup {Null}
             /\ \/ rows[a] = alerts[a]
                \/ /\ Exists(a) /\ alerts[a].until # Null /\ rows[a] # Null
                   /\ rows[a].triggered = alerts[a].triggered
                   /\ rows[a].until # Null => rows[a].paused
  <2>1. CASE Exists(a) /\ alerts[a].until \notin {0, Null}
    <3>1. alerts[a] \in Row /\ alerts[a].until \in 1 .. Snooze /\ alerts[a].paused
      BY <2>1, TableFacts, AlertsBounds DEF Exists, Row, PauseInv
    <3>2. alerts[a].until - 1 \in 0 .. Snooze
      BY <3>1, AlertsBounds
    <3>3. /\ shorter(a) \in Row /\ shorter(a).triggered = alerts[a].triggered /\ shorter(a).paused = alerts[a].paused
      BY <3>1, <3>2 DEF Row
    <3>4. rows[a] = shorter(a)
      BY <2>1
    <3> HIDE DEF rows, shorter
    <3>5. QED
      BY <2>1, <3>1, <3>3, <3>4, NullAssumption
  <2>2. CASE ~(Exists(a) /\ alerts[a].until \notin {0, Null})
    BY <2>2, TableFacts
  <2>3. QED
    BY <2>1, <2>2
<1>3. rows \in [Alerts -> Row \cup {Null}]
  BY <1>2
<1> HIDE DEF rows
<1>4. UNCHANGED <<arm, manual, edits>>
  BY <1>1
<1>5. /\ ArmInv' /\ PauseInv' /\ \A a \in Alerts : arm[a] <= arm'[a]
      /\ \A a \in Alerts : alerts'[a] # Null /\ ~alerts'[a].triggered => alerts[a] # Null /\ ~alerts[a].triggered
  BY <1>1, <1>2, <1>3, <1>4, SnoozeStep
<1>6. digest' \in [Processes -> [stage : {"idle", "read", "send", "mark"}, items : SUBSET Notice]]
  <2> DEFINE Digest == [stage : {"idle", "read", "send", "mark"}, items : SUBSET Notice]
  <2>1. digest \in [Processes -> Digest] /\ [NoDigest EXCEPT !.stage = "read"] \in Digest
    BY DEF AlertsInv, AlertsTypes, NoDigest
  <2> HIDE DEF Digest
  <2>2. digest' \in [Processes -> Digest]
    BY <2>1 DEF ClockTicks
  <2>3. QED
    BY <2>2 DEF Digest
<1>7. arm' \in [Alerts -> Int]
  BY <1>1, TableFacts, AlertsBounds
<1>8. NotifiedInv' /\ CallInv'
  BY <1>1, <1>5, <1>7, TableStep
<1>9. now' \in 0 .. DayLength - 1
  BY <1>1, AlertsBounds DEF AlertsInv, AlertsTypes
<1>10. AlertsTypes'
  BY <1>1, <1>3, <1>6, <1>9 DEF AlertsInv, AlertsTypes, checker
<1>11. QED
  BY <1>5, <1>8, <1>10 DEF AlertsInv

\* A crash drops what its process had in hand; rows that were marked stay marked.
LEMMA StopCorrect == ASSUME AlertsInv, NEW p \in Processes, ServerStops(p) PROVE AlertsInv'
<1> DEFINE Digest == [stage : {"idle", "read", "send", "mark"}, items : SUBSET Notice]
<1>1. /\ UNCHANGED <<alerts, arm, manual, edits, queue, owed, notified, now>> /\ failures' \in 0 .. MaxFailures
      /\ isRunning' = [isRunning EXCEPT ![p] = FALSE] /\ digest' = [digest EXCEPT ![p] = NoDigest]
      /\ run' = [i \in Ticks |-> IF ProcessOf[i] = p THEN Idle ELSE run[i]]
  BY FailureFacts DEF ServerStops, table
<1>2. Idle \in Call /\ Idle.stage = "idle" /\ Idle.batch = {} /\ NoDigest \in Digest
  BY DEF Idle, Call, NoDigest
<1>3. /\ run \in [Ticks -> Call] /\ isRunning \in [Processes -> BOOLEAN] /\ digest \in [Processes -> Digest]
      /\ ProcessOf \in [Ticks -> Processes]
  BY AlertsBounds DEF AlertsInv, AlertsTypes
<1>4. run' \in [Ticks -> Call] /\ isRunning' \in [Processes -> BOOLEAN] /\ digest' \in [Processes -> Digest]
  BY <1>1, <1>2, <1>3
<1>5. AlertsTypes'
  BY <1>1, <1>4 DEF AlertsInv, AlertsTypes
<1>6. PauseInv' /\ ArmInv' /\ NotifiedInv'
  BY <1>1 DEF AlertsInv, PauseInv, ArmInv, NotifiedInv, Spent, Exists
<1>7. ASSUME NEW j \in Ticks, ProcessOf[j] = p PROVE CallOk(j)'
  <2>1. run'[j].stage = "idle" /\ run'[j].batch = {}
    BY <1>1, <1>2, <1>7
  <2>2. InHand(j)' = {}
    BY <2>1 DEF InHand
  <2>3. QED
    BY <2>1, <2>2 DEF CallOk
<1>8. ASSUME NEW j \in Ticks, ProcessOf[j] # p PROVE CallOk(j)'
  <2>1. run'[j] = run[j] /\ isRunning'[ProcessOf[j]] = isRunning[ProcessOf[j]]
    BY <1>1, <1>3, <1>8
  <2>2. \A k \in Ticks : ProcessOf[k] = ProcessOf[j] => run'[k] = run[k]
    BY <1>1, <1>8
  <2>3. \A a \in Alerts : arm[a] \in Int /\ arm'[a] \in Int /\ arm[a] <= arm'[a]
    BY <1>1, AlertFacts, AlertsBounds
  <2>4. \A f \in Firing : Spent(f) => Spent(f)'
    BY <1>1 DEF Spent, Exists
  <2>5. \A f \in Firing : <<ProcessOf[j], f>> \in notified' => <<ProcessOf[j], f>> \in notified
    BY <1>1
  <2>6. QED
    BY <2>1, <2>2, <2>3, <2>4, <2>5, CallStays
<1>9. \A j \in Ticks : CallOk(j)'
  BY <1>7, <1>8
<1>10. CallInv'
  BY <1>9 DEF CallInv, CallOk
<1>11. QED
  BY <1>5, <1>6, <1>10 DEF AlertsInv

\* Every step preserves the invariant.
LEMMA AlertsInvStep == AlertsInv /\ [AlertsNext]_alertsVars => AlertsInv'
<1> SUFFICES ASSUME AlertsInv, [AlertsNext]_alertsVars PROVE AlertsInv'
  OBVIOUS
<1>1. ASSUME NEW i \in Ticks, checkAlerts(i) \/ NoPrice(i) \/ CheckFails(i) PROVE AlertsInv'
  <2>1. CASE NoPrice(i)
    <3>1. PICK c \in run[i].batch : GoOn(i, {d \in run[i].batch : d.symbol # c.symbol})
      BY <2>1 DEF NoPrice
    <3>2. QED
      BY <2>1, <3>1, DropCorrect, FailureFacts DEF NoPrice
  <2>2. CASE NotMet(i)
    <3>1. PICK c \in run[i].batch : GoOn(i, run[i].batch \ {c})
      BY <2>2 DEF NotMet
    <3>2. QED
      BY <2>2, <3>1, DropCorrect, FailureFacts DEF NotMet
  <2>3. QED
    BY <1>1, <2>1, <2>2, LoadCorrect, FetchCorrect, MarkCorrect, NotifyCorrect, CheckFailsCorrect DEF checkAlerts
<1>2. CASE UNCHANGED alertsVars
  <2>1. UNCHANGED <<table, flush, now, failures, isRunning, run, checker, notified>>
    BY <1>2 DEF alertsVars, checker, flush
  <2>2. CallInv'
    BY <2>1, FlushStep
  <2>3. QED
    BY <2>1, <2>2, CheckerFrame DEF AlertsInv, AlertsTypes
<1>3. QED
  BY <1>1, <1>2, DigestCorrect, UserCorrect, ClockCorrect, StopCorrect DEF AlertsNext

-----------------------------------------------------------------------------
(* In every process at most one call of the checker works, and it holds no firing this process notified; *)
(* the row of a notified firing is marked until it is armed again (alertChecker.service.js:107-285): the  *)
(* inductive invariant of Alerts.                                                                         *)
THEOREM AlertsCorrect == AlertsSpec => []AlertsInv
<1>1. AlertsInit => AlertsInv
  BY AlertsInvInit
<1>2. AlertsInv /\ [AlertsNext]_alertsVars => AlertsInv'
  BY AlertsInvStep
<1>3. QED
  BY <1>1, <1>2, PTL DEF AlertsSpec

(* A pause without end outlives every snooze before it, and a running snooze is a pause, whatever the    *)
(* user does in whatever order (alerts.controller.js:421-423).                                            *)
THEOREM PausesStand == AlertsSpec => []PausesHold
<1>1. AlertsInv => PausesHold
  BY DEF AlertsInv, PauseInv, PausesHold
<1>2. QED
  BY <1>1, AlertsCorrect, PTL

(* No process notifies a firing twice, and no firing that any process notified is due again, for any      *)
(* number of processes: not after crashes, overlapping calls of cron, resets, deletions or failed mails   *)
(* (alertChecker.service.js:116-124, :166-169).                                                           *)
THEOREM NotifiesOnce == AlertsSpec => []NotifiedOnce
<1>1. ASSUME AlertsInv PROVE NotifiedOnce
  <2>1. \A i \in Ticks : run[i].stage = "notify" => <<ProcessOf[i], run[i].cur.firing>> \notin notified
    BY <1>1, CallFacts DEF InHand
  <2>2. ASSUME NEW n \in notified, Active(n[2][1]), n[2][2] = arm[n[2][1]] PROVE FALSE
    <3>1. Spent(n[2]) /\ n[2][1] \in Alerts
      BY <1>1 DEF AlertsInv, AlertsTypes, NotifiedInv, Notice, Firing
    <3>2. arm[n[2][1]] < arm[n[2][1]]
      BY <2>2, <3>1 DEF Spent, Active
    <3>3. QED
      BY <1>1, <3>1, <3>2, AlertFacts, AlertsBounds
  <2>3. QED
    BY <2>1, <2>2 DEF NotifiedOnce
<1>2. AlertsInv => NotifiedOnce
  BY <1>1
<1>3. QED
  BY <1>2, AlertsCorrect, PTL

\* Quiet hours compared as numbers, with a case for those that span midnight, are quiet hours round the clock.
LEMMA QuietSpan == \A t \in 0 .. DayLength - 1 : isWithinQuietHours(t) = InQuietSpan(t)
<1> SUFFICES ASSUME NEW t \in 0 .. DayLength - 1 PROVE isWithinQuietHours(t) = InQuietSpan(t)
  OBVIOUS
<1>1. \A x \in 0 .. DayLength - 1, y \in 0 .. DayLength - 1 :
        (x - y) % DayLength = IF y <= x THEN x - y ELSE x - y + DayLength
  BY AlertsBounds
<1>2. isWithinQuietHours(t) <=> InQuietSpan(t)
  BY <1>1, AlertsBounds DEF isWithinQuietHours, InQuietSpan
<1>3. isWithinQuietHours(t) \in BOOLEAN /\ InQuietSpan(t) \in BOOLEAN
  BY DEF isWithinQuietHours, InQuietSpan
<1>4. QED
  BY <1>2, <1>3

(* What the checker decides by comparing the hours is where the clock stands round the day, for quiet    *)
(* hours within a day and across midnight.                                                                *)
THEOREM QuietHoursAreKept == AlertsSpec => QuietHoursKept
<1> DEFINE A == \A i \in Ticks : run[i].stage = "compare" /\ run'[i].stage = "notify" => run'[i].quiet = InQuietSpan(now)
<1>1. AlertsInv /\ [AlertsNext]_alertsVars => [A]_alertsVars
  <2> SUFFICES ASSUME AlertsInv, AlertsNext, NEW i \in Ticks, run[i].stage = "compare", run'[i].stage = "notify"
               PROVE  run'[i].quiet = InQuietSpan(now)
    OBVIOUS
  <2>1. run[i] \in Call /\ run' # run
    BY CallFacts
  <2>2. ASSUME NEW j \in Ticks, NEW batch, run[j].stage # "idle", GoOn(j, batch) PROVE FALSE
    <3>1. i = j
      <4>1. i # j => run'[i] = run[i]
        BY <2>2 DEF GoOn, Finish, AlertsInv, AlertsTypes
      <4>2. QED
        BY <4>1
    <3>2. run \in [Ticks -> Call]
      BY DEF AlertsInv, AlertsTypes
    <3>3. CASE batch = {}
      BY <2>2, <3>1, <3>2, <3>3 DEF GoOn, Finish, Idle
    <3>4. CASE batch # {}
      <4> DEFINE stage == IF \E c \in batch : c.symbol = run[i].symbol THEN "compare" ELSE "fetch"
      <4>1. run' = [run EXCEPT ![i] = [run[i] EXCEPT !.batch = batch, !.cur = Null, !.stage = stage]]
        BY <2>2, <3>1, <3>4 DEF GoOn
      <4>2. stage # "notify"
        OBVIOUS
      <4> HIDE DEF stage
      <4>3. QED
        BY <2>1, <3>2, <4>1, <4>2 DEF Call
    <3>5. QED
      BY <3>3, <3>4
  <2>3. ASSUME NEW j \in Ticks, MarkTriggered(j) PROVE run'[i].quiet = InQuietSpan(now)
    <3>1. i = j
      <4>1. i # j => run'[i] = run[i]
        BY <2>3 DEF MarkTriggered, AlertsInv, AlertsTypes
      <4>2. QED
        BY <4>1
    <3>2. run'[i].quiet = isWithinQuietHours(now)
      BY <2>1, <2>3, <3>1 DEF MarkTriggered, AlertsInv, AlertsTypes, Call
    <3>3. now \in 0 .. DayLength - 1
      BY DEF AlertsInv, AlertsTypes
    <3>4. QED
      BY <3>2, <3>3, QuietSpan
  <2>4. ASSUME NEW j \in Ticks, checkAlerts(j) \/ NoPrice(j) \/ CheckFails(j), ~MarkTriggered(j) PROVE FALSE
    <3>1. CASE LoadAlerts(j)
      BY <3>1, CallFacts DEF LoadAlerts
    <3>2. CASE FetchPrice(j)
      BY <3>2, CallFacts DEF FetchPrice
    <3>3. CASE NotMet(j) \/ NoPrice(j) \/ Notify(j)
      BY <2>2, <3>3 DEF NotMet, NoPrice, Notify
    <3>4. CASE CheckFails(j)
      <4>1. GoOn(j, {}) /\ run[j].stage # "idle"
        BY <3>4 DEF CheckFails, GoOn
      <4>2. QED
        BY <2>2, <4>1
    <3>5. QED
      BY <2>4, <3>1, <3>2, <3>3, <3>4 DEF checkAlerts
  <2>5. ASSUME NEW p \in Processes, runDailyDigest(p) PROVE FALSE
    BY <2>1, <2>5 DEF runDailyDigest, ReadDigest, SendDigest, MarkSent, checker
  <2>6. CASE User \/ ClockTicks
    BY <2>1, <2>6 DEF User, ClockTicks, checker, Edit, createAlert, updateAlert, setEmailFrequency, togglePause,
       snoozeAlert, resetAlert, deleteAlert, clearAllTriggered, releaseExpiredSnoozes
  <2>7. ASSUME NEW p \in Processes, ServerStops(p) PROVE FALSE
    BY <2>7 DEF ServerStops, Idle
  <2>8. QED
    BY <2>3, <2>4, <2>5, <2>6, <2>7 DEF AlertsNext
<1>2. QED
  BY <1>1, AlertsCorrect, PTL DEF AlertsSpec, QuietHoursKept
=============================================================================
