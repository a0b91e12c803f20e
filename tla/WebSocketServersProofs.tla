------------------------ MODULE WebSocketServersProofs ------------------------
(***************************************************************************)
(* What is proved of WebSocketServers for any number of servers and of     *)
(* connections.                                                            *)
(***************************************************************************)
EXTENDS WebSocketServers, TLAPS

-----------------------------------------------------------------------------
(* The inductive invariant *)

\* What main() has done with a server.
Fresh(s) == ~m_running[s] /\ ~listening[s] /\ run[s] = "none"
Started(s) == m_running[s] /\ listening[s] /\ run[s] = "running"
BeingStopped(s) == m_running[s] /\ ~listening[s] /\ run[s] \in {"running", "done"}
Stopped(s) == ~m_running[s] /\ ~listening[s] /\ run[s] = "joined"

\* main() goes over the servers in their order, twice, and the packet threads
\* live in between.
Phases ==
  /\ main_pc = "start" =>
       /\ \A s \in Servers : IF s < main_at THEN Started(s) ELSE Fresh(s)
       /\ \A p \in PacketServers : send_pc[p] = "none"
  /\ main_pc = "join" =>
       /\ main_at = 1
       /\ \A s \in Servers : Started(s)
       /\ \A p \in PacketServers : send_pc[p] # "none"
  /\ main_pc \in {"stop", "close", "join_run"} =>
       /\ \A s \in Servers : /\ s < main_at => Stopped(s)
                             /\ s > main_at => Started(s)
       /\ IF main_pc = "stop" THEN Started(main_at) ELSE BeingStopped(main_at)
       /\ \A p \in PacketServers : send_pc[p] = "exited"

\* Connections need the thread in run().
NeedsRun == \A s \in Servers, c \in Connections :
              session[s][c] # "none" => run[s] = "running"

\* Nothing is left to send between two calls of send_to_all.
NothingLeftToSend ==
  \A p \in PacketServers : send_pc[p] # "sending" => todo[p] = {}

\* As long as no client leaves, connections are closed only by stop().
ClosedByStop ==
  ~left => \A s \in Servers, c \in Connections : session[s][c] = "closing" =>
             main_pc \notin {"start", "join", "stop"} /\ s = main_at

\* What the loops of send_to_all and stop have yet to visit is open, as long as
\* no client leaves and m_connections is left alone.
LoopsFindOpen ==
  ~left /\ ~disturbed =>
    /\ \A p \in PacketServers : \A c \in todo[p] : session[p][c] = "open"
    /\ main_pc = "close" => \A c \in close_todo : session[main_at][c] = "open"

ServersInv == /\ TypeOK /\ Phases /\ NeedsRun /\ NothingLeftToSend
              /\ ClosedByStop /\ LoopsFindOpen
              /\ NeverMisused /\ ConnectionsAreThose /\ ReturnIsClean
              /\ AbortHasCause

-----------------------------------------------------------------------------
(* Type correctness *)

\* Packet servers are servers.
LEMMA ServerNumbers ==
  /\ 1 \in Servers /\ NumServers \in Servers
  /\ PacketServers \subseteq Servers
  /\ \A s \in Servers : s \in Int
BY ServersAssumption DEF Servers, PacketServers

\* The state of one connection of one server is set.
LEMMA SessionSet ==
  ASSUME TypeOK, NEW s \in Servers, NEW c \in Connections,
         NEW v \in {"none", "handshake", "open", "closing"},
         session' = [session EXCEPT ![s][c] = v]
  PROVE  /\ session' \in [Servers ->
               [Connections -> {"none", "handshake", "open", "closing"}]]
         /\ session'[s][c] = v
         /\ \A r \in Servers, d \in Connections :
              r # s \/ d # c => session'[r][d] = session[r][d]
BY DEF TypeOK

\* Insert and erase keep the types, however the iterations go on.
LEMMA ChangeConnectionsTypes ==
  ASSUME TypeOK, NEW s \in Servers, NEW con \in SUBSET Connections,
         ChangeConnections(s, con)
  PROVE  /\ m_connections' \in [Servers -> SUBSET Connections]
         /\ main_pc' \in {main_pc, "aborted"}
         /\ send_pc' = send_pc /\ others' = others
         /\ todo' \in [PacketServers -> SUBSET Connections]
         /\ close_todo' \subseteq Connections
         /\ disturbed' \in BOOLEAN
<1> USE DEF TypeOK, sendVars
<1>1. m_connections' \in [Servers -> SUBSET Connections] /\ disturbed' \in BOOLEAN
  BY DEF ChangeConnections
<1>2. CASE UNCHANGED <<main_pc, sendVars, close_todo>>
  BY <1>1, <1>2
<1>3. CASE main_pc' = "aborted" /\ UNCHANGED <<sendVars, close_todo>>
  BY <1>1, <1>3
<1>4. CASE /\ s \in PacketServers
           /\ \E rest \in SUBSET con : todo' = [todo EXCEPT ![s] = rest]
           /\ UNCHANGED <<main_pc, send_pc, others, close_todo>>
  BY <1>1, <1>4
<1>5. CASE close_todo' \in SUBSET con /\ UNCHANGED <<main_pc, sendVars>>
  BY <1>1, <1>5
<1>6. QED
  BY <1>2, <1>3, <1>4, <1>5 DEF ChangeConnections

\* A step of main() keeps the types.
LEMMA MainTypeOK ==
  ASSUME TypeOK, Main
  PROVE  TypeOK'
<1> USE DEF TypeOK, serverVars, netVars, sendVars, historyVars, LeaveTry
<1>1. CASE StartServer
  BY <1>1, ServerNumbers, ServersAssumption DEF StartServer, Servers
<1>2. CASE StartServerFails
  BY <1>2 DEF StartServerFails
<1>3. CASE JoinThreads
  BY <1>3 DEF JoinThreads
<1>4. CASE StopListening
  <2>1. misused' \in BOOLEAN
    BY <1>4 DEF StopListening
  <2>2. listening' \in [Servers -> BOOLEAN] /\ close_todo' \subseteq Connections
    <3>1. CASE m_running[main_at]
      <4>1. /\ listening' = [listening EXCEPT ![main_at] = FALSE]
            /\ close_todo' = m_connections[main_at]
        BY <1>4, <3>1 DEF StopListening
      <4>2. listening' \in [Servers -> BOOLEAN]
        BY <4>1
      <4>3. m_connections[main_at] \in SUBSET Connections
        OBVIOUS
      <4>4. QED
        BY <4>1, <4>2, <4>3
    <3>2. CASE ~m_running[main_at]
      BY <1>4, <3>2 DEF StopListening
    <3>3. QED
      BY <3>1, <3>2
  <2>3. main_pc' \in {"close", "aborted", "returned"}
    BY <1>4 DEF StopListening
  <2>4. QED
    BY <1>4, <2>1, <2>2, <2>3 DEF StopListening
<1>5. ASSUME NEW c \in Connections, CloseClient(c) PROVE TypeOK'
  <2>1. CASE session[main_at][c] = "open"
    <3>1. session' = [session EXCEPT ![main_at][c] = "closing"]
      BY <1>5, <2>1 DEF CloseClient
    <3>2. session' \in [Servers ->
            [Connections -> {"none", "handshake", "open", "closing"}]]
      BY <1>5, <3>1, SessionSet
    <3>3. main_pc' = main_pc /\ close_todo' = close_todo \ {c}
      BY <1>5, <2>1 DEF CloseClient
    <3>4. QED
      BY <1>5, <3>2, <3>3 DEF CloseClient
  <2>2. CASE session[main_at][c] # "open"
    <3>1. main_pc' \in {"aborted", "returned"}
      BY <1>5, <2>2 DEF CloseClient
    <3>2. session' = session /\ close_todo' = close_todo
      BY <1>5, <2>2 DEF CloseClient
    <3>3. QED
      BY <1>5, <3>1, <3>2 DEF CloseClient
  <2>3. QED
    BY <2>1, <2>2
<1>6. CASE EndClose
  BY <1>6 DEF EndClose
<1>7. CASE JoinRun
  BY <1>7, ServerNumbers, ServersAssumption DEF JoinRun, Servers
<1>8. QED
  BY <1>1, <1>2, <1>3, <1>4, <1>5, <1>6, <1>7 DEF Main

\* A step of a server's thread keeps the types.
LEMMA AsioTypeOK ==
  ASSUME TypeOK, NEW s \in Servers, Asio(s)
  PROVE  TypeOK'
<1> USE DEF serverVars, netVars, sendVars, historyVars, mainVars
<1>1. ASSUME NEW c \in Connections, OpenConnection(s, c) PROVE TypeOK'
  BY <1>1, ChangeConnectionsTypes, SessionSet DEF OpenConnection, TypeOK
<1>2. ASSUME NEW c \in Connections, HandshakeFails(s, c) PROVE TypeOK'
  BY <1>2, SessionSet DEF HandshakeFails, TypeOK
<1>3. ASSUME NEW c \in Connections, CloseConnection(s, c) PROVE TypeOK'
  BY <1>3, ChangeConnectionsTypes, SessionSet DEF CloseConnection, TypeOK
<1>4. CASE RunReturns(s)
  BY <1>4 DEF RunReturns, TypeOK
<1>5. QED
  BY <1>1, <1>2, <1>3, <1>4 DEF Asio

\* A step of a packet thread keeps the types.
LEMMA PacketThreadTypeOK ==
  ASSUME TypeOK, NEW s \in PacketServers, PacketThread(s)
  PROVE  TypeOK'
<1> USE DEF TypeOK, serverVars, netVars, sendVars, historyVars, mainVars
<1>1. CASE BeginSend(s)
  BY <1>1, ServerNumbers, ZenonT(30) DEF BeginSend
<1>2. CASE EndSend(s)
  BY <1>2 DEF EndSend
<1>3. CASE SenderExit(s)
  BY <1>3 DEF SenderExit
<1>4. ASSUME NEW c \in Connections, SendTo(s, c) PROVE TypeOK'
  BY <1>4 DEF SendTo
<1>5. QED
  BY <1>1, <1>2, <1>3, <1>4 DEF PacketThread

\* Every step keeps the types.
LEMMA NextTypeOK ==
  ASSUME TypeOK, [Next]_vars
  PROVE  TypeOK'
<1>1. CASE UNCHANGED vars
  BY <1>1 DEF vars, TypeOK
<1>2. ASSUME NEW s \in Servers, NEW c \in Connections, Accept(s, c)
      PROVE  TypeOK'
  BY <1>2, SessionSet DEF Accept, TypeOK, mainVars, sendVars, historyVars
<1>3. ASSUME NEW s \in Servers, NEW c \in Connections, ClientLeaves(s, c)
      PROVE  TypeOK'
  BY <1>3, SessionSet DEF ClientLeaves, TypeOK, mainVars, sendVars
<1>4. CASE RequestShutdown
  BY <1>4 DEF RequestShutdown, TypeOK, mainVars, netVars, sendVars, historyVars
<1>5. ASSUME NEW s \in Servers, NEW c \in Connections, HandleMessage(s, c)
      PROVE  TypeOK'
  <2>1. main_pc' \in {main_pc, "aborted"} /\ unopened' \in BOOLEAN
    BY <1>5 DEF HandleMessage, TypeOK
  <2>2. UNCHANGED <<shutdown_requested, main_at, m_running, listening, run, session,
                    m_connections, send_pc, todo, others, close_todo, disturbed,
                    left, misused>>
    BY <1>5 DEF HandleMessage, serverVars, netVars, sendVars
  <2>3. QED
    BY <2>1, <2>2 DEF TypeOK
<1>6. CASE OthersEnd
  BY <1>6 DEF OthersEnd, TypeOK, mainVars, netVars, historyVars
<1>7. QED
  BY <1>1, <1>2, <1>3, <1>4, <1>5, <1>6, MainTypeOK, AsioTypeOK,
     PacketThreadTypeOK DEF Next, Terminated

\* Nothing runs at first.
LEMMA InitTypeOK == Init => TypeOK
<1> SUFFICES ASSUME Init PROVE TypeOK
  OBVIOUS
<1>1. /\ shutdown_requested \in BOOLEAN
      /\ disturbed \in BOOLEAN /\ left \in BOOLEAN /\ misused \in BOOLEAN
      /\ unopened \in BOOLEAN /\ others \in {"none", "running", "ended"}
  BY DEF Init
<1>2. /\ main_at \in Servers
      /\ main_pc = "start" /\ close_todo \subseteq Connections
  BY ServerNumbers DEF Init
<1>3. /\ m_running \in [Servers -> BOOLEAN]
      /\ listening \in [Servers -> BOOLEAN]
      /\ run \in [Servers -> {"none", "running", "done", "joined"}]
  BY DEF Init
<1>4. /\ session \in [Servers ->
           [Connections -> {"none", "handshake", "open", "closing"}]]
      /\ m_connections \in [Servers -> SUBSET Connections]
      /\ send_pc \in [PacketServers -> {"none", "idle", "sending", "exited"}]
      /\ todo \in [PacketServers -> SUBSET Connections]
  BY DEF Init
<1>5. QED
  BY <1>1, <1>2, <1>3, <1>4 DEF TypeOK

\* main() starts and stops its servers only, and everything keeps its type,
\* also when m_connections changes under an iteration.
THEOREM TypeCorrect == Spec => []TypeOK
<1>1. TypeOK /\ [Next]_vars => TypeOK'
  BY NextTypeOK
<1>2. QED
  BY InitTypeOK, <1>1, PTL DEF Spec

-----------------------------------------------------------------------------
(* The steps of main() *)

\* The invariant but for the types.
LEMMA KeepsAll ==
  ASSUME TypeOK', Phases', NeedsRun', NothingLeftToSend', ClosedByStop',
         LoopsFindOpen', NeverMisused', ConnectionsAreThose', ReturnIsClean',
         AbortHasCause'
  PROVE  ServersInv'
BY DEF ServersInv

\* The program starts with every server fresh.
LEMMA InitServersInv == Init => ServersInv
<1> SUFFICES ASSUME Init PROVE ServersInv
  OBVIOUS
<1>1. TypeOK
  BY InitTypeOK
<1>2. Phases
  <2>1. \A s \in Servers : Fresh(s) /\ ~(s < main_at)
    BY ServersAssumption DEF Init, Fresh, Servers
  <2>2. QED
    BY <2>1 DEF Phases, Init
<1>3. NeedsRun /\ ClosedByStop /\ ConnectionsAreThose
  BY DEF Init, NeedsRun, ClosedByStop, ConnectionsAreThose
<1>4. NothingLeftToSend /\ LoopsFindOpen
  BY DEF Init, NothingLeftToSend, LoopsFindOpen
<1>5. NeverMisused /\ ReturnIsClean /\ AbortHasCause
  BY DEF Init, NeverMisused, ReturnIsClean, AbortHasCause
<1>6. QED
  BY <1>1, <1>2, <1>3, <1>4, <1>5 DEF ServersInv

\* start() of the next server; after the last one the packet threads exist.
LEMMA StartServerKeeps ==
  ASSUME ServersInv, TypeOK', StartServer
  PROVE  ServersInv'
<1> USE DEF ServersInv
<1> DEFINE s == main_at
<1>1. /\ main_pc = "start" /\ s \in Servers
      /\ \A r \in Servers : IF r < s THEN Started(r) ELSE Fresh(r)
      /\ \A p \in PacketServers : send_pc[p] = "none"
  BY DEF StartServer, Phases, TypeOK
<1>2. /\ m_running'[s] = TRUE /\ listening'[s] = TRUE /\ run'[s] = "running"
      /\ \A r \in Servers : r # s => /\ m_running'[r] = m_running[r]
                                     /\ listening'[r] = listening[r]
                                     /\ run'[r] = run[r]
  BY <1>1 DEF StartServer, TypeOK
<1>3. Phases'
  <2>1. CASE s < NumServers
    <3>1. main_at' = s + 1 /\ main_pc' = "start" /\ send_pc' = send_pc
      BY <1>1, <2>1 DEF StartServer
    <3>2. ASSUME NEW r \in Servers, r < s + 1
          PROVE  m_running'[r] /\ listening'[r] /\ run'[r] = "running"
      <4>1. r = s \/ r < s
        BY <1>1, <3>2, ServerNumbers
      <4>2. QED
        BY <1>1, <1>2, <4>1 DEF Started
    <3>3. ASSUME NEW r \in Servers, ~(r < s + 1)
          PROVE  ~m_running'[r] /\ ~listening'[r] /\ run'[r] = "none"
      <4>1. r # s /\ ~(r < s)
        BY <1>1, <3>3, ServerNumbers
      <4>2. QED
        BY <1>1, <1>2, <4>1 DEF Fresh
    <3>4. QED
      BY <1>1, <3>1, <3>2, <3>3 DEF Phases, Started, Fresh
  <2>2. CASE ~(s < NumServers)
    <3>1. main_at' = 1 /\ main_pc' = "join" /\ send_pc' = [p \in PacketServers |-> "idle"]
      BY <2>2 DEF StartServer
    <3>2. ASSUME NEW r \in Servers
          PROVE  m_running'[r] /\ listening'[r] /\ run'[r] = "running"
      <4>1. r = s \/ r < s
        BY <1>1, <2>2, ServersAssumption DEF Servers
      <4>2. QED
        BY <1>1, <1>2, <4>1 DEF Started
    <3>3. QED
      BY <3>1, <3>2 DEF Phases, Started
  <2>3. QED
    BY <2>1, <2>2
<1>4. NeedsRun'
  BY <1>1, <1>2 DEF StartServer, NeedsRun, Started, netVars, TypeOK
<1>5. NothingLeftToSend' /\ LoopsFindOpen'
  <2>1. \A p \in PacketServers : todo'[p] = {}
    BY <1>1 DEF StartServer, NothingLeftToSend
  <2>2. main_pc' # "close"
    BY <1>1 DEF StartServer
  <2>3. QED
    BY <2>1, <2>2 DEF NothingLeftToSend, LoopsFindOpen
<1>6. ClosedByStop'
  BY <1>1 DEF StartServer, ClosedByStop, netVars, historyVars
<1>7. NeverMisused' /\ ConnectionsAreThose'
  BY DEF StartServer, NeverMisused, ConnectionsAreThose, netVars, historyVars
<1>8. ReturnIsClean' /\ AbortHasCause'
  BY <1>1 DEF StartServer, ReturnIsClean, AbortHasCause
<1>9. QED
  BY <1>3, <1>4, <1>5, <1>6, <1>7, <1>8, KeepsAll

\* When no port is free the program aborts if a server was already started.
LEMMA StartServerFailsKeeps ==
  ASSUME ServersInv, TypeOK', StartServerFails
  PROVE  ServersInv'
<1> USE DEF ServersInv
<1>1. /\ main_pc = "start" /\ main_at \in Servers
      /\ \A s \in Servers : IF s < main_at THEN Started(s) ELSE Fresh(s)
      /\ \A p \in PacketServers : send_pc[p] = "none"
  BY DEF StartServerFails, Phases, TypeOK
<1>2. main_pc' \in {"returned", "aborted"}
  BY DEF StartServerFails, LeaveTry
<1>3. UNCHANGED <<main_at, m_running, listening, run, session, m_connections,
                  send_pc, todo, close_todo, disturbed, left, misused, unopened>>
  BY DEF StartServerFails, serverVars, netVars, sendVars, historyVars
<1>4. Phases' /\ NeedsRun' /\ NothingLeftToSend' /\ ClosedByStop' /\ LoopsFindOpen'
  BY <1>1, <1>2, <1>3 DEF Phases, NeedsRun, NothingLeftToSend, ClosedByStop,
     LoopsFindOpen
<1>5. NeverMisused' /\ ConnectionsAreThose'
  BY <1>3 DEF NeverMisused, ConnectionsAreThose
<1>6. ReturnIsClean'
  <2>1. SUFFICES ASSUME main_pc' = "returned", NEW s \in Servers
                 PROVE  run[s] \in {"none", "joined"} /\ m_connections[s] = {}
    BY <1>3 DEF ReturnIsClean
  <2>2. run[s] \notin {"running", "done"}
    BY <2>1 DEF StartServerFails, LeaveTry
  <2>3. \A c \in Connections : session[s][c] = "none"
    BY <2>2 DEF NeedsRun
  <2>4. QED
    BY <2>2, <2>3 DEF ConnectionsAreThose, TypeOK
<1>7. AbortHasCause'
  <2>1. Fresh(main_at)
    BY <1>1, ServerNumbers
  <2>2. QED
    BY <1>1, <1>3, <2>1 DEF AbortHasCause, Fresh
<1>8. QED
  BY <1>4, <1>5, <1>6, <1>7, KeepsAll

\* The packet threads have exited when their join returns.
LEMMA JoinThreadsKeeps ==
  ASSUME ServersInv, TypeOK', JoinThreads
  PROVE  ServersInv'
<1> USE DEF ServersInv
<1>1. /\ main_pc = "join" /\ main_pc' = "stop" /\ main_at = 1
      /\ \A s \in Servers : Started(s)
      /\ \A p \in PacketServers : send_pc[p] = "exited"
  BY DEF JoinThreads, Phases
<1>2. UNCHANGED <<main_at, m_running, listening, run, session, m_connections,
                  send_pc, todo, close_todo, disturbed, left, misused, unopened>>
  BY DEF JoinThreads, serverVars, netVars, sendVars, historyVars
<1>3. Phases'
  <2>1. \A s \in Servers : ~(s < 1)
    BY ServersAssumption DEF Servers
  <2>2. QED
    BY <1>1, <1>2, <2>1, ServerNumbers DEF Phases, Started
<1>4. NeedsRun' /\ NothingLeftToSend' /\ ClosedByStop' /\ LoopsFindOpen'
  BY <1>1, <1>2 DEF NeedsRun, NothingLeftToSend, ClosedByStop, LoopsFindOpen
<1>5. NeverMisused' /\ ConnectionsAreThose' /\ ReturnIsClean' /\ AbortHasCause'
  BY <1>1, <1>2 DEF NeverMisused, ConnectionsAreThose, ReturnIsClean, AbortHasCause
<1>6. QED
  BY <1>3, <1>4, <1>5, KeepsAll

\* stop() finds its server running, and its loop begins with connections that
\* are open unless a client has left.
LEMMA StopListeningKeeps ==
  ASSUME ServersInv, TypeOK', StopListening
  PROVE  ServersInv'
<1> USE DEF ServersInv
<1>1. /\ main_pc = "stop" /\ main_at \in Servers /\ Started(main_at)
      /\ \A s \in Servers : /\ s < main_at => Stopped(s)
                            /\ s > main_at => Started(s)
      /\ \A p \in PacketServers : send_pc[p] = "exited"
  BY DEF StopListening, Phases, TypeOK
<1>2. m_running[main_at] = TRUE /\ run[main_at] = "running"
  BY <1>1 DEF Started, TypeOK
<1>3. /\ main_pc' = "close"
      /\ listening' = [listening EXCEPT ![main_at] = FALSE]
      /\ close_todo' = m_connections[main_at]
  BY <1>2 DEF StopListening
<1>4. misused' = FALSE
  BY <1>2 DEF StopListening, NeverMisused, TypeOK
<1>5. UNCHANGED <<main_at, m_running, run, session, m_connections, send_pc, todo,
                  disturbed, left, unopened>>
  BY DEF StopListening, netVars, sendVars
<1>6. listening'[main_at] = FALSE
      /\ \A s \in Servers : s # main_at => listening'[s] = listening[s]
  BY <1>1, <1>3 DEF TypeOK
<1>7. Phases'
  <2>1. \A s \in Servers : s < main_at \/ s > main_at => s # main_at
    BY <1>1, ServerNumbers
  <2>2. QED
    BY <1>1, <1>2, <1>3, <1>5, <1>6, <2>1 DEF Phases, Started, Stopped, BeingStopped
<1>8. NeedsRun' /\ NothingLeftToSend' /\ ClosedByStop'
  BY <1>1, <1>3, <1>5 DEF NeedsRun, NothingLeftToSend, ClosedByStop
<1>9. LoopsFindOpen'
  <2>1. SUFFICES ASSUME ~left, ~disturbed
                 PROVE  \A c \in m_connections[main_at] : session[main_at][c] = "open"
    BY <1>3, <1>5 DEF LoopsFindOpen
  <2>2. QED
    BY <1>1, <2>1 DEF ConnectionsAreThose, ClosedByStop
<1>10. NeverMisused' /\ ConnectionsAreThose'
  BY <1>4, <1>5 DEF NeverMisused, ConnectionsAreThose
<1>11. ReturnIsClean' /\ AbortHasCause'
  BY <1>3 DEF ReturnIsClean, AbortHasCause
<1>12. QED
  BY <1>7, <1>8, <1>9, <1>10, <1>11, KeepsAll

\* m_server.close() finds the connection open, or the program aborts because a
\* client has left or the loop was disturbed.
LEMMA CloseClientKeeps ==
  ASSUME ServersInv, TypeOK', NEW c \in Connections, CloseClient(c)
  PROVE  ServersInv'
<1> USE DEF ServersInv
<1>1. /\ main_pc = "close" /\ main_at \in Servers /\ BeingStopped(main_at)
      /\ \A p \in PacketServers : send_pc[p] = "exited"
  BY DEF CloseClient, Phases, TypeOK
<1>2. UNCHANGED <<main_at, m_running, listening, run, m_connections,
                  send_pc, todo, disturbed, left, misused, unopened>>
  BY DEF CloseClient, serverVars, sendVars, historyVars
<1>3. \A p \in PacketServers : todo'[p] = {}
  BY <1>1, <1>2 DEF NothingLeftToSend
<1>4. CASE session[main_at][c] = "open"
  <2>1. /\ session' = [session EXCEPT ![main_at][c] = "closing"]
        /\ close_todo' = close_todo \ {c} /\ main_pc' = "close"
    BY <1>1, <1>4 DEF CloseClient
  <2>2. /\ session'[main_at][c] = "closing"
        /\ \A s \in Servers, d \in Connections :
             s # main_at \/ d # c => session'[s][d] = session[s][d]
    BY <1>1, <2>1 DEF TypeOK
  <2>3. Phases'
    BY <1>1, <1>2, <2>1 DEF Phases, Started, Stopped, BeingStopped
  <2>4. NeedsRun' /\ NothingLeftToSend' /\ ClosedByStop'
    BY <1>1, <1>2, <1>3, <1>4, <2>1, <2>2 DEF NeedsRun, NothingLeftToSend, ClosedByStop
  <2>5. LoopsFindOpen'
    BY <1>1, <1>2, <1>3, <2>1, <2>2 DEF LoopsFindOpen, TypeOK
  <2>6. ConnectionsAreThose'
    BY <1>2, <1>4, <2>2 DEF ConnectionsAreThose
  <2>7. NeverMisused' /\ ReturnIsClean' /\ AbortHasCause'
    BY <1>2, <2>1 DEF NeverMisused, ReturnIsClean, AbortHasCause
  <2>8. QED
    BY <2>3, <2>4, <2>5, <2>6, <2>7, KeepsAll
<1>5. CASE session[main_at][c] # "open"
  <2>1. main_pc' = "aborted" /\ session' = session /\ close_todo' = close_todo
    BY <1>1, <1>5 DEF CloseClient, LeaveTry, BeingStopped
  <2>2. left \/ disturbed
    BY <1>1, <1>5 DEF CloseClient, LoopsFindOpen
  <2>3. Phases' /\ NeedsRun' /\ NothingLeftToSend' /\ ClosedByStop'
    BY <1>1, <1>2, <2>1 DEF Phases, NeedsRun, NothingLeftToSend, ClosedByStop
  <2>4. LoopsFindOpen' /\ NeverMisused' /\ ConnectionsAreThose'
    BY <1>2, <1>3, <2>1 DEF LoopsFindOpen, NeverMisused, ConnectionsAreThose
  <2>5. ReturnIsClean' /\ AbortHasCause'
    BY <1>2, <2>1, <2>2 DEF ReturnIsClean, AbortHasCause
  <2>6. QED
    BY <2>3, <2>4, <2>5, KeepsAll
<1>6. QED
  BY <1>4, <1>5

\* The loop of stop() ends.
LEMMA EndCloseKeeps ==
  ASSUME ServersInv, TypeOK', EndClose
  PROVE  ServersInv'
<1> USE DEF ServersInv
<1>1. main_pc = "close" /\ main_pc' = "join_run"
  BY DEF EndClose
<1>2. UNCHANGED <<main_at, m_running, listening, run, session, m_connections,
                  send_pc, todo, close_todo, disturbed, left, misused, unopened>>
  BY DEF EndClose, serverVars, netVars, sendVars, historyVars
<1>3. Phases'
  BY <1>1, <1>2 DEF Phases, Started, Stopped, BeingStopped
<1>4. NeedsRun' /\ NothingLeftToSend' /\ ClosedByStop' /\ LoopsFindOpen'
  BY <1>1, <1>2 DEF NeedsRun, NothingLeftToSend, ClosedByStop, LoopsFindOpen
<1>5. NeverMisused' /\ ConnectionsAreThose' /\ ReturnIsClean' /\ AbortHasCause'
  BY <1>1, <1>2 DEF NeverMisused, ConnectionsAreThose, ReturnIsClean, AbortHasCause
<1>6. QED
  BY <1>3, <1>4, <1>5, KeepsAll

\* A server whose thread was joined has no connections; main() returns after
\* the last one.
LEMMA JoinRunKeeps ==
  ASSUME ServersInv, TypeOK', JoinRun
  PROVE  ServersInv'
<1> USE DEF ServersInv
<1> DEFINE s == main_at
<1>1. /\ main_pc = "join_run" /\ s \in Servers /\ BeingStopped(s)
      /\ \A r \in Servers : (r < s => Stopped(r)) /\ (r > s => Started(r))
      /\ \A p \in PacketServers : send_pc[p] = "exited"
      /\ run[s] = "done"
  BY DEF JoinRun, Phases, TypeOK
<1>2. UNCHANGED <<listening, session, m_connections, send_pc, todo, close_todo,
                  disturbed, left, misused, unopened>>
  BY DEF JoinRun, netVars, sendVars, historyVars
<1>3. /\ m_running'[s] = FALSE /\ run'[s] = "joined" /\ listening[s] = FALSE
      /\ \A r \in Servers : r # s => m_running'[r] = m_running[r] /\ run'[r] = run[r]
  BY <1>1 DEF JoinRun, BeingStopped, TypeOK
<1>4. \A p \in PacketServers : todo'[p] = {}
  BY <1>1, <1>2 DEF NothingLeftToSend
<1>5. \A c \in Connections : session[s][c] = "none"
  BY <1>1 DEF NeedsRun
<1>6. \A r \in Servers : r < s => ~m_running[r] /\ ~listening[r] /\ run[r] = "joined"
  BY <1>1 DEF Stopped
<1>7. Phases'
  <2>1. CASE s < NumServers
    <3>1. main_at' = s + 1 /\ main_pc' = "stop"
      BY <2>1 DEF JoinRun
    <3>2. ASSUME NEW r \in Servers, r < s + 1
          PROVE  ~m_running'[r] /\ ~listening[r] /\ run'[r] = "joined"
      <4>1. r = s \/ (r # s /\ r < s)
        BY <1>1, <3>2, ServerNumbers
      <4>2. QED
        BY <1>3, <1>6, <4>1
    <3>3. ASSUME NEW r \in Servers, r > s
          PROVE  m_running'[r] /\ listening[r] /\ run'[r] = "running"
      <4>1. r # s
        BY <1>1, <3>3, ServerNumbers
      <4>2. QED
        BY <1>1, <1>3, <3>3, <4>1 DEF Started
    <3>4. s + 1 \in Servers /\ s + 1 > s /\ \A r \in Servers : r > s + 1 => r > s
      BY <1>1, <2>1, ServersAssumption DEF Servers
    <3>5. QED
      BY <1>1, <1>2, <3>1, <3>2, <3>3, <3>4 DEF Phases, Stopped, Started
  <2>2. CASE ~(s < NumServers)
    BY <2>2 DEF JoinRun, Phases
  <2>3. QED
    BY <2>1, <2>2
<1>8. main_pc' \in {"stop", "returned"}
  BY DEF JoinRun
<1>9. NeedsRun' /\ NothingLeftToSend'
  BY <1>2, <1>3, <1>4, <1>5 DEF NeedsRun, NothingLeftToSend
<1>10. ClosedByStop' /\ LoopsFindOpen'
  <2>1. ~left => \A r \in Servers, c \in Connections : session'[r][c] # "closing"
    BY <1>1, <1>2, <1>5 DEF ClosedByStop
  <2>2. QED
    BY <1>2, <1>4, <1>8, <2>1 DEF ClosedByStop, LoopsFindOpen
<1>11. NeverMisused' /\ ConnectionsAreThose' /\ AbortHasCause'
  BY <1>2, <1>8 DEF NeverMisused, ConnectionsAreThose, AbortHasCause
<1>12. ReturnIsClean'
  <2>1. SUFFICES ASSUME main_pc' = "returned", NEW r \in Servers
                 PROVE  run'[r] \in {"none", "joined"} /\ m_connections[r] = {}
    BY <1>2 DEF ReturnIsClean
  <2>2. r = s \/ (r # s /\ r < s)
    BY <1>1, <2>1, ServersAssumption DEF JoinRun, Servers
  <2>3. run'[r] = "joined"
    BY <1>3, <1>6, <2>2
  <2>4. \A c \in Connections : session[r][c] = "none"
    BY <1>5, <1>6, <2>2 DEF NeedsRun
  <2>5. QED
    BY <2>3, <2>4 DEF ConnectionsAreThose
<1>13. QED
  BY <1>7, <1>9, <1>10, <1>11, <1>12, KeepsAll

-----------------------------------------------------------------------------
(* The steps of the servers' threads *)

\* The open and the close handler change m_connections while nobody iterates
\* over it, or leave a trace of having done so.
LEMMA ChangeConnectionsKeeps ==
  ASSUME ServersInv, TypeOK', ~Ended,
         NEW s \in Servers, NEW c \in Connections, NEW con \in SUBSET Connections,
         session[s][c] # "none", session'[s][c] \in {"none", "open"},
         \A r \in Servers, d \in Connections :
           r # s \/ d # c => session'[r][d] = session[r][d],
         con = {d \in Connections : session'[s][d] \in {"open", "closing"}},
         ChangeConnections(s, con), UNCHANGED <<serverVars, left, misused, unopened>>
  PROVE  ServersInv'
<1> USE DEF ServersInv
<1>1. /\ UNCHANGED <<main_at, m_running, listening, run, send_pc, left, misused,
                      unopened>>
      /\ main_pc' \in {main_pc, "aborted"}
  BY ChangeConnectionsTypes DEF serverVars
<1>2. run[s] = "running"
  BY DEF NeedsRun
<1>3. Phases'
  BY <1>1 DEF Phases, Started, Stopped, Fresh, BeingStopped
<1>4. NeedsRun' /\ ClosedByStop'
  BY <1>1, <1>2 DEF NeedsRun, ClosedByStop
<1>5. NothingLeftToSend'
  BY <1>1, ZenonT(30) DEF NothingLeftToSend, ChangeConnections, sendVars, TypeOK
<1>6. LoopsFindOpen'
  <2>1. SUFFICES ASSUME ~left, ~disturbed'
                 PROVE  LoopsFindOpen'
    BY <1>1 DEF LoopsFindOpen
  <2>2. ~disturbed /\ ~Iterating(s)
    BY <2>1 DEF ChangeConnections, TypeOK
  <2>3. UNCHANGED <<main_pc, todo, close_todo>>
    BY <2>2 DEF ChangeConnections, Iterating, sendVars
  <2>4. \A p \in PacketServers : p = s => todo[p] = {}
    BY <2>2 DEF Iterating, NothingLeftToSend
  <2>5. ASSUME NEW p \in PacketServers, NEW d \in todo[p]
        PROVE  session'[p][d] = "open"
    <3>1. p # s /\ p \in Servers
      BY <2>4, ServerNumbers
    <3>2. d \in Connections
      BY DEF TypeOK
    <3>3. session[p][d] = "open"
      BY <2>1, <2>2 DEF LoopsFindOpen
    <3>4. QED
      BY <3>1, <3>2, <3>3
  <2>6. main_pc = "close" => \A d \in close_todo : session'[main_at][d] = "open"
    BY <2>1, <2>2 DEF LoopsFindOpen, Iterating, TypeOK
  <2>7. QED
    BY <1>1, <2>3, <2>5, <2>6 DEF LoopsFindOpen
<1>7. ConnectionsAreThose'
  BY DEF ChangeConnections, ConnectionsAreThose, TypeOK
<1>8. NeverMisused' /\ ReturnIsClean'
  BY <1>1 DEF NeverMisused, ReturnIsClean, Ended
<1>9. AbortHasCause'
  <2>1. main_pc' = "aborted" => Iterating(s)
    BY DEF ChangeConnections, Ended
  <2>2. disturbed' = (disturbed \/ Iterating(s))
    BY DEF ChangeConnections
  <2>3. QED
    BY <2>1, <2>2 DEF AbortHasCause
<1>10. QED
  BY <1>3, <1>4, <1>5, <1>6, <1>7, <1>8, <1>9, KeepsAll

\* A connection appears, changes or goes without a handler being called.
LEMMA SessionKeeps ==
  ASSUME ServersInv, TypeOK', ~Ended,
         NEW s \in Servers, NEW c \in Connections,
         run[s] = "running", session[s][c] \in {"none", "handshake"},
         session'[s][c] \in {"none", "handshake"},
         \A r \in Servers, d \in Connections :
           r # s \/ d # c => session'[r][d] = session[r][d],
         UNCHANGED <<mainVars, run, m_connections, sendVars, historyVars>>
  PROVE  ServersInv'
<1> USE DEF ServersInv, mainVars, sendVars, historyVars
<1>1. Phases'
  BY DEF Phases, Started, Stopped, Fresh, BeingStopped
<1>2. NeedsRun' /\ ClosedByStop' /\ NothingLeftToSend'
  BY DEF NeedsRun, ClosedByStop, NothingLeftToSend
<1>3. LoopsFindOpen'
  <2>1. \A p \in PacketServers : \A d \in todo[p] : d \in Connections /\ p \in Servers
    BY ServerNumbers DEF TypeOK
  <2>2. main_at \in Servers /\ \A d \in close_todo : d \in Connections
    BY DEF TypeOK
  <2>3. QED
    BY <2>1, <2>2 DEF LoopsFindOpen
<1>4. ConnectionsAreThose'
  BY DEF ConnectionsAreThose
<1>5. NeverMisused' /\ ReturnIsClean' /\ AbortHasCause'
  BY DEF NeverMisused, ReturnIsClean, AbortHasCause
<1>6. QED
  BY <1>1, <1>2, <1>3, <1>4, <1>5, KeepsAll

\* While main() has not ended, what listens has its thread running.
LEMMA ListeningRuns ==
  ASSUME ServersInv, ~Ended, NEW s \in Servers, listening[s]
  PROVE  run[s] = "running"
<1> USE DEF ServersInv
<1>1. CASE main_pc = "start"
  BY <1>1 DEF Phases, Started, Fresh
<1>2. CASE main_pc = "join"
  BY <1>2 DEF Phases, Started
<1>3. CASE main_pc \in {"stop", "close", "join_run"}
  <2>1. main_at \in Servers
    BY DEF TypeOK
  <2>2. s < main_at \/ s > main_at \/ s = main_at
    BY <2>1, ServerNumbers
  <2>3. QED
    BY <1>3, <2>2 DEF Phases, Started, Stopped, BeingStopped
<1>4. QED
  BY <1>1, <1>2, <1>3 DEF TypeOK, Ended

\* A client connects.
LEMMA AcceptKeeps ==
  ASSUME ServersInv, TypeOK', NEW s \in Servers, NEW c \in Connections, Accept(s, c)
  PROVE  ServersInv'
<1>1. TypeOK /\ session' = [session EXCEPT ![s][c] = "handshake"]
  BY DEF Accept, ServersInv
<1>2. /\ session'[s][c] = "handshake"
      /\ \A r \in Servers, d \in Connections :
           r # s \/ d # c => session'[r][d] = session[r][d]
  BY <1>1, SessionSet
<1>3. run[s] = "running"
  BY ListeningRuns DEF Accept
<1>4. QED
  BY <1>2, <1>3, SessionKeeps DEF Accept

\* Its handshake fails.
LEMMA HandshakeFailsKeeps ==
  ASSUME ServersInv, TypeOK', NEW s \in Servers, NEW c \in Connections,
         HandshakeFails(s, c)
  PROVE  ServersInv'
<1>1. TypeOK /\ session' = [session EXCEPT ![s][c] = "none"]
  BY DEF HandshakeFails, ServersInv
<1>2. /\ session'[s][c] = "none"
      /\ \A r \in Servers, d \in Connections :
           r # s \/ d # c => session'[r][d] = session[r][d]
  BY <1>1, SessionSet
<1>3. run[s] = "running"
  BY DEF HandshakeFails, ServersInv, NeedsRun
<1>4. QED
  BY <1>2, <1>3, SessionKeeps DEF HandshakeFails

\* The open handler.
LEMMA OpenHandlerKeeps ==
  ASSUME ServersInv, TypeOK', NEW s \in Servers, NEW c \in Connections,
         OpenConnection(s, c)
  PROVE  ServersInv'
<1>1. TypeOK /\ session' = [session EXCEPT ![s][c] = "open"]
  BY DEF OpenConnection, ServersInv
<1>2. /\ session'[s][c] = "open"
      /\ \A r \in Servers, d \in Connections :
           r # s \/ d # c => session'[r][d] = session[r][d]
  BY <1>1, SessionSet
<1>3. PICK con : con = m_connections[s] \cup {c}
  OBVIOUS
<1>4. con = {d \in Connections : session'[s][d] \in {"open", "closing"}}
  BY <1>2, <1>3 DEF ServersInv, ConnectionsAreThose
<1>5. con \in SUBSET Connections /\ session[s][c] # "none"
  BY <1>1, <1>3 DEF OpenConnection, TypeOK
<1>6. /\ ~Ended /\ ChangeConnections(s, con)
      /\ UNCHANGED <<serverVars, left, misused, unopened>>
  BY <1>3 DEF OpenConnection
<1>7. QED
  BY <1>2, <1>4, <1>5, <1>6, ChangeConnectionsKeeps

\* The close handler.
LEMMA CloseHandlerKeeps ==
  ASSUME ServersInv, TypeOK', NEW s \in Servers, NEW c \in Connections,
         CloseConnection(s, c)
  PROVE  ServersInv'
<1>1. TypeOK /\ session' = [session EXCEPT ![s][c] = "none"]
  BY DEF CloseConnection, ServersInv
<1>2. /\ session'[s][c] = "none"
      /\ \A r \in Servers, d \in Connections :
           r # s \/ d # c => session'[r][d] = session[r][d]
  BY <1>1, SessionSet
<1>3. PICK con : con = m_connections[s] \ {c}
  OBVIOUS
<1>4. con = {d \in Connections : session'[s][d] \in {"open", "closing"}}
  BY <1>2, <1>3 DEF ServersInv, ConnectionsAreThose
<1>5. con \in SUBSET Connections /\ session[s][c] # "none"
  BY <1>1, <1>3 DEF CloseConnection, TypeOK
<1>6. /\ ~Ended /\ ChangeConnections(s, con)
      /\ UNCHANGED <<serverVars, left, misused, unopened>>
  BY <1>3 DEF CloseConnection
<1>7. QED
  BY <1>2, <1>4, <1>5, <1>6, ChangeConnectionsKeeps

\* run() returns when its server has been told to stop and has no connections.
LEMMA RunReturnsKeeps ==
  ASSUME ServersInv, TypeOK', NEW s \in Servers, RunReturns(s)
  PROVE  ServersInv'
<1> USE DEF ServersInv
<1>1. UNCHANGED <<main_pc, main_at, m_running, listening, session, m_connections,
                  send_pc, todo, close_todo, disturbed, left, misused, unopened>>
  BY DEF RunReturns, mainVars, netVars, sendVars, historyVars
<1>2. /\ run[s] = "running" /\ run'[s] = "done" /\ ~listening[s]
      /\ \A r \in Servers : r # s => run'[r] = run[r]
      /\ \A c \in Connections : session[s][c] = "none"
  BY DEF RunReturns, TypeOK
<1>3. Phases'
  <2>1. main_pc \in {"start", "join", "stop", "close", "join_run"} /\ main_at \in Servers
    BY DEF RunReturns, Ended, TypeOK
  <2>2. s < main_at \/ s > main_at \/ s = main_at
    BY <2>1, ServerNumbers
  <2>3. main_pc \notin {"start", "join"}
    BY <1>2 DEF Phases, Started, Fresh
  <2>4. main_pc \in {"close", "join_run"} /\ s = main_at
    BY <1>2, <2>1, <2>2, <2>3 DEF Phases, Started, Stopped
  <2>5. \A r \in Servers : r < main_at \/ r > main_at => r # main_at
    BY <2>1, ServerNumbers
  <2>6. BeingStopped(main_at) /\ \A p \in PacketServers : send_pc[p] = "exited"
    BY <2>4 DEF Phases
  <2>7. \A r \in Servers : (r < main_at => Stopped(r)) /\ (r > main_at => Started(r))
    BY <2>4 DEF Phases
  <2>8. QED
    BY <1>1, <1>2, <2>4, <2>5, <2>6, <2>7 DEF Phases, Started, Stopped, BeingStopped
<1>4. NeedsRun'
  BY <1>1, <1>2 DEF NeedsRun
<1>5. NothingLeftToSend' /\ ClosedByStop' /\ LoopsFindOpen'
  BY <1>1 DEF NothingLeftToSend, ClosedByStop, LoopsFindOpen
<1>6. NeverMisused' /\ ConnectionsAreThose'
  BY <1>1 DEF NeverMisused, ConnectionsAreThose
<1>7. ReturnIsClean' /\ AbortHasCause'
  BY <1>1 DEF ReturnIsClean, AbortHasCause, RunReturns, Ended
<1>8. QED
  BY <1>3, <1>4, <1>5, <1>6, <1>7, KeepsAll

\* A client that leaves may be met by the loops before its close handler runs.
LEMMA ClientLeavesKeeps ==
  ASSUME ServersInv, TypeOK', NEW s \in Servers, NEW c \in Connections,
         ClientLeaves(s, c)
  PROVE  ServersInv'
<1>1. TypeOK /\ session' = [session EXCEPT ![s][c] = "closing"]
  BY DEF ClientLeaves, ServersInv
<1>2. /\ session'[s][c] = "closing" /\ session[s][c] = "open"
      /\ \A r \in Servers, d \in Connections :
           r # s \/ d # c => session'[r][d] = session[r][d]
  BY <1>1, SessionSet DEF ClientLeaves
<1> USE DEF ServersInv
<1>3. /\ UNCHANGED <<main_pc, main_at, m_running, listening, run, m_connections,
                     send_pc, todo, close_todo, disturbed, misused, unopened>>
      /\ left' = TRUE
  BY DEF ClientLeaves, mainVars, sendVars
<1>4. Phases' /\ NothingLeftToSend'
  BY <1>3 DEF Phases, Started, Stopped, Fresh, BeingStopped, NothingLeftToSend
<1>5. NeedsRun' /\ ConnectionsAreThose'
  BY <1>2, <1>3 DEF NeedsRun, ConnectionsAreThose
<1>6. ClosedByStop' /\ LoopsFindOpen'
  BY <1>3 DEF ClosedByStop, LoopsFindOpen
<1>7. NeverMisused' /\ ReturnIsClean' /\ AbortHasCause'
  BY <1>3 DEF NeverMisused, ReturnIsClean, AbortHasCause
<1>8. QED
  BY <1>4, <1>5, <1>6, <1>7, KeepsAll

-----------------------------------------------------------------------------
(* The steps of the packet threads *)

\* A packet thread lives between the last start() and the first stop().
LEMMA SenderIsServed ==
  ASSUME ServersInv, ~Ended, NEW s \in PacketServers, send_pc[s] \in {"idle", "sending"}
  PROVE  main_pc = "join" /\ m_running[s] = TRUE
<1> USE DEF ServersInv
<1>1. main_pc \in {"start", "join", "stop", "close", "join_run"}
  BY DEF Ended, TypeOK
<1>2. main_pc = "join"
  BY <1>1 DEF Phases
<1>3. QED
  BY <1>2, ServerNumbers DEF Phases, Started, TypeOK

\* The packet threads change nothing but their own state and what they still
\* have to send.
LEMMA SendKeeps ==
  ASSUME ServersInv, TypeOK', ~Ended, main_pc = "join",
         NEW s \in PacketServers, NEW rest \in SUBSET Connections,
         send_pc'[s] # "none",
         \A p \in PacketServers : p # s => send_pc'[p] = send_pc[p] /\ todo'[p] = todo[p],
         todo'[s] = rest, send_pc'[s] # "sending" => rest = {},
         ~left /\ ~disturbed => \A c \in rest : session[s][c] = "open",
         UNCHANGED <<main_pc, main_at, m_running, listening, run, session,
                     m_connections, close_todo, disturbed, left, misused, unopened>>
  PROVE  ServersInv'
<1> USE DEF ServersInv
<1>1. Phases'
  BY DEF Phases, Started
<1>2. NothingLeftToSend' /\ LoopsFindOpen'
  BY DEF NothingLeftToSend, LoopsFindOpen
<1>3. NeedsRun' /\ ClosedByStop' /\ ConnectionsAreThose'
  BY DEF NeedsRun, ClosedByStop, ConnectionsAreThose
<1>4. NeverMisused' /\ ReturnIsClean' /\ AbortHasCause'
  BY DEF NeverMisused, ReturnIsClean, AbortHasCause
<1>5. QED
  BY <1>1, <1>2, <1>3, <1>4, KeepsAll

\* send_to_all finds its server running, and connections that are open unless a
\* client has left.
LEMMA BeginSendKeeps ==
  ASSUME ServersInv, TypeOK', NEW s \in PacketServers, BeginSend(s)
  PROVE  ServersInv'
<1>1. main_pc = "join" /\ m_running[s] = TRUE
  BY SenderIsServed DEF BeginSend
<1>2. /\ send_pc' = [send_pc EXCEPT ![s] = "sending"]
      /\ todo' = [todo EXCEPT ![s] = m_connections[s]]
      /\ main_pc' = main_pc
  BY <1>1 DEF BeginSend
<1>3. misused = FALSE /\ misused' = FALSE
  BY <1>1 DEF BeginSend, ServersInv, NeverMisused, TypeOK
<1>4. UNCHANGED <<main_at, m_running, listening, run, session, m_connections,
                  close_todo, disturbed, left, unopened>>
  BY DEF BeginSend, serverVars, netVars
<1>5. PICK rest \in SUBSET Connections : rest = m_connections[s]
  BY ServerNumbers DEF ServersInv, TypeOK
<1>6. ~left => \A c \in rest : session[s][c] = "open"
  BY <1>1, <1>5, ServerNumbers DEF ServersInv, ConnectionsAreThose, ClosedByStop
<1>7. /\ send_pc'[s] = "sending" /\ todo'[s] = rest
      /\ \A p \in PacketServers : p # s => send_pc'[p] = send_pc[p] /\ todo'[p] = todo[p]
  BY <1>2, <1>5 DEF ServersInv, TypeOK
<1>8. QED
  BY <1>1, <1>2, <1>3, <1>4, <1>6, <1>7, SendKeeps DEF BeginSend

\* m_server.send() throws only for a connection that a client or a disturbed
\* iteration has put there.
LEMMA SendToKeeps ==
  ASSUME ServersInv, TypeOK', NEW s \in PacketServers, NEW c \in Connections,
         SendTo(s, c)
  PROVE  ServersInv'
<1>1. send_pc[s] = "sending"
  BY DEF SendTo, ServersInv, NothingLeftToSend
<1>2. main_pc = "join"
  BY <1>1, SenderIsServed DEF SendTo
<1>3. UNCHANGED <<main_at, m_running, listening, run, session, m_connections,
                  send_pc, close_todo, disturbed, left, misused, unopened>>
  BY DEF SendTo, serverVars, netVars, historyVars
<1>4. CASE session[s][c] = "open"
  <2>1. main_pc' = main_pc /\ todo' = [todo EXCEPT ![s] = todo[s] \ {c}]
    BY <1>4 DEF SendTo
  <2>2. PICK rest \in SUBSET Connections : rest = todo[s] \ {c}
    BY DEF ServersInv, TypeOK
  <2>3. ~left /\ ~disturbed => \A d \in rest : session[s][d] = "open"
    BY <2>2 DEF ServersInv, LoopsFindOpen
  <2>4. todo'[s] = rest /\ \A p \in PacketServers : p # s => todo'[p] = todo[p]
    BY <2>1, <2>2 DEF ServersInv, TypeOK
  <2>5. QED
    BY <1>1, <1>2, <1>3, <2>1, <2>3, <2>4, SendKeeps DEF SendTo
<1>5. CASE session[s][c] # "open"
  <2> USE DEF ServersInv
  <2>1. main_pc' = "aborted" /\ todo' = todo
    BY <1>5 DEF SendTo
  <2>2. left \/ disturbed
    BY <1>5 DEF SendTo, LoopsFindOpen
  <2>3. Phases' /\ NeedsRun' /\ NothingLeftToSend' /\ ClosedByStop' /\ LoopsFindOpen'
    BY <1>2, <1>3, <2>1 DEF Phases, NeedsRun, NothingLeftToSend, ClosedByStop,
       LoopsFindOpen
  <2>4. NeverMisused' /\ ConnectionsAreThose'
    BY <1>3 DEF NeverMisused, ConnectionsAreThose
  <2>5. ReturnIsClean' /\ AbortHasCause'
    BY <1>3, <2>1, <2>2 DEF ReturnIsClean, AbortHasCause
  <2>6. QED
    BY <2>3, <2>4, <2>5, KeepsAll
<1>6. QED
  BY <1>4, <1>5

\* The loop of send_to_all ends, or the thread exits at its top.
LEMMA EndSendKeeps ==
  ASSUME ServersInv, TypeOK', NEW s \in PacketServers, EndSend(s) \/ SenderExit(s)
  PROVE  ServersInv'
<1>1. send_pc[s] \in {"idle", "sending"} /\ ~Ended
  BY DEF EndSend, SenderExit
<1>2. main_pc = "join"
  BY <1>1, SenderIsServed
<1>3. UNCHANGED <<main_pc, main_at, m_running, listening, run, session, m_connections,
                  todo, close_todo, disturbed, left, misused, unopened>>
  BY DEF EndSend, SenderExit, mainVars, netVars, historyVars
<1>4. todo'[s] = {}
  BY <1>3 DEF EndSend, SenderExit, ServersInv, NothingLeftToSend
<1>5. /\ send_pc'[s] \in {"idle", "exited"}
      /\ \A p \in PacketServers : p # s => send_pc'[p] = send_pc[p]
  BY DEF EndSend, SenderExit, ServersInv, TypeOK
<1>6. QED
  BY <1>1, <1>2, <1>3, <1>4, <1>5, SendKeeps

-----------------------------------------------------------------------------
(* The theorems *)

\* Nothing but the request itself changes.
LEMMA NothingMoves ==
  ASSUME ServersInv, TypeOK',
         UNCHANGED <<main_pc, main_at, m_running, listening, run, session,
                     m_connections, send_pc, todo, close_todo, disturbed, left, misused,
                     unopened>>
  PROVE  ServersInv'
<1> USE DEF ServersInv
<1>1. Phases'
  BY DEF Phases, Started, Stopped, Fresh, BeingStopped
<1>2. NeedsRun' /\ NothingLeftToSend' /\ ClosedByStop' /\ LoopsFindOpen'
  BY DEF NeedsRun, NothingLeftToSend, ClosedByStop, LoopsFindOpen
<1>3. NeverMisused' /\ ConnectionsAreThose' /\ ReturnIsClean' /\ AbortHasCause'
  BY DEF NeverMisused, ConnectionsAreThose, ReturnIsClean, AbortHasCause
<1>4. QED
  BY <1>1, <1>2, <1>3, KeepsAll

\* The message handler changes nothing here, or ends the program because an
\* encoder could not be opened.
LEMMA HandleMessageKeeps ==
  ASSUME ServersInv, TypeOK', NEW s \in Servers, NEW c \in Connections,
         HandleMessage(s, c)
  PROVE  ServersInv'
<1>1. UNCHANGED <<main_at, m_running, listening, run, session, m_connections,
                  send_pc, todo, close_todo, disturbed, left, misused>>
  BY DEF HandleMessage, serverVars, netVars, sendVars
<1>2. CASE UNCHANGED <<main_pc, unopened>>
  BY <1>1, <1>2, NothingMoves
<1>3. CASE main_pc' = "aborted" /\ unopened' = TRUE
  <2> USE DEF ServersInv
  <2>1. Phases' /\ NeedsRun' /\ NothingLeftToSend'
    BY <1>1, <1>3 DEF Phases, NeedsRun, NothingLeftToSend
  <2>2. ClosedByStop' /\ LoopsFindOpen'
    BY <1>1, <1>3 DEF ClosedByStop, LoopsFindOpen
  <2>3. NeverMisused' /\ ConnectionsAreThose'
    BY <1>1 DEF NeverMisused, ConnectionsAreThose
  <2>4. ReturnIsClean' /\ AbortHasCause'
    BY <1>3 DEF ReturnIsClean, AbortHasCause
  <2>5. QED
    BY <2>1, <2>2, <2>3, <2>4, KeepsAll
<1>4. QED
  BY <1>2, <1>3 DEF HandleMessage

\* Every step keeps the invariant.
LEMMA NextServersInv ==
  ASSUME ServersInv, [Next]_vars
  PROVE  ServersInv'
<1>1. TypeOK'
  BY NextTypeOK DEF ServersInv
<1>2. CASE Main
  BY <1>1, <1>2, StartServerKeeps, StartServerFailsKeeps, JoinThreadsKeeps,
     StopListeningKeeps, CloseClientKeeps, EndCloseKeeps, JoinRunKeeps DEF Main
<1>3. ASSUME NEW s \in Servers, Asio(s) PROVE ServersInv'
  BY <1>1, <1>3, OpenHandlerKeeps, HandshakeFailsKeeps, CloseHandlerKeeps,
     RunReturnsKeeps DEF Asio
<1>4. ASSUME NEW s \in PacketServers, PacketThread(s) PROVE ServersInv'
  BY <1>1, <1>4, BeginSendKeeps, SendToKeeps, EndSendKeeps DEF PacketThread
<1>5. CASE RequestShutdown
  BY <1>1, <1>5, NothingMoves
  DEF RequestShutdown, mainVars, netVars, sendVars, historyVars
<1>6. CASE UNCHANGED vars
  BY <1>1, <1>6, NothingMoves DEF vars
<1>7. CASE OthersEnd
  BY <1>1, <1>7, NothingMoves DEF OthersEnd, mainVars, netVars, historyVars
<1>8. QED
  BY <1>1, <1>2, <1>3, <1>4, <1>5, <1>6, <1>7, AcceptKeeps, ClientLeavesKeeps,
     HandleMessageKeeps DEF Next, Terminated

\* The specification keeps the inductive invariant.
LEMMA ServersInvHolds == Spec => []ServersInv
<1>1. ServersInv /\ [Next]_vars => ServersInv'
  BY NextServersInv
<1>2. QED
  BY InitServersInv, <1>1, PTL DEF Spec

\* send_to_all and stop() always find their server running: the packet threads
\* live between the last start() and the first stop().
THEOREM ServersAreNotMisused == Spec => []NeverMisused
<1>1. ServersInv => NeverMisused
  BY DEF ServersInv
<1>2. QED
  BY ServersInvHolds, <1>1, PTL

\* m_connections holds the connections between their open and their close
\* handler, whatever stop() and send_to_all do meanwhile.
THEOREM ConnectionsAreKept == Spec => []ConnectionsAreThose
<1>1. ServersInv => ConnectionsAreThose
  BY DEF ServersInv
<1>2. QED
  BY ServersInvHolds, <1>1, PTL

\* When main() returns every server that was started is stopped, its thread
\* joined and its connections closed.
THEOREM MainReturnsClean == Spec => []ReturnIsClean
<1>1. ServersInv => ReturnIsClean
  BY DEF ServersInv
<1>2. QED
  BY ServersInvHolds, <1>1, PTL

\* main(), the packet threads and the handlers of the servers end the program
\* by an abort only if a port was taken, a client left by itself, an encoder
\* could not be opened for a camera message or m_connections changed under an
\* iteration.
THEOREM AbortsHaveCauses == Spec => []AbortHasCause
<1>1. ServersInv => AbortHasCause
  BY DEF ServersInv
<1>2. QED
  BY ServersInvHolds, <1>1, PTL
=============================================================================
