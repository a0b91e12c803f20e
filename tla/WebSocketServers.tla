-------------------------- MODULE WebSocketServers --------------------------
(***************************************************************************)
(* The websocket servers and the beginning and end of main().  main()      *)
(* starts the servers one after the other (four PacketStreamServers, then  *)
(* the CameraControlServer), starts the threads of the program, joins them *)
(* when a shutdown was requested, and stops the servers.  Each server has  *)
(* a thread in m_server.run(), which opens and closes connections and      *)
(* keeps m_connections; the receive_packet_thread of a packet server calls *)
(* send_to_all, and main() calls stop, which both iterate over             *)
(* m_connections.  There is no lock.  The other threads main() joins are   *)
(* here only as running or ended; what they do is in the other modules.    *)
(*                                                                         *)
(* Steps.  An insert into or erase from m_connections while another thread *)
(* iterates over it is undefined: the program ends, or the iteration goes  *)
(* on with any of the connections.  An exception on a packet thread or in  *)
(* a handler of a server, and leaving main's try block while a server's    *)
(* thread is joinable, end the program, too.                               *)
(*                                                                         *)
(* websocketpp is external: send() and close() throw when the connection   *)
(* is not open; a handshake, and a close once begun, end within their      *)
(* timeouts; run() returns when the server does not listen and has no      *)
(* connections.                                                            *)
(***************************************************************************)
EXTENDS Integers, FiniteSets

CONSTANTS NumServers,     \* in the order main() starts and stops them
          Connections     \* bound: simultaneous connections of a server

ASSUME ServersAssumption == /\ NumServers \in Nat \ {0}
                            /\ IsFiniteSet(Connections)

VARIABLES
  shutdown_requested,
  main_pc,         \* where main() is
  main_at,         \* the server it starts or stops
  m_running,
  listening,
  run,             \* the thread in run() of each server
  session,         \* state of each connection of each server
  m_connections,
  send_pc,         \* where the packet thread of each packet server is
  todo,            \* connections its loop in send_to_all still visits
  others,          \* the threads of the pipeline and of the renderers
  close_todo,      \* the same of the loop in stop()
  disturbed,       \* history: m_connections changed during an iteration
  left,            \* history: a client closed its connection
  misused,         \* history: a server was used that was not running
  unopened         \* history: an encoder could not be opened for a message

mainVars == <<main_pc, main_at, m_running, listening, close_todo>>
serverVars == <<shutdown_requested, main_at, m_running, listening, run>>
netVars == <<session, m_connections>>
sendVars == <<send_pc, todo, others>>
historyVars == <<disturbed, left, misused, unopened>>
vars == <<shutdown_requested, main_pc, main_at, m_running, listening, run,
          session, m_connections, send_pc, todo, others, close_todo, disturbed,
          left, misused, unopened>>

Servers == 1..NumServers
\* All but the last, the CameraControlServer, send packets.
PacketServers == 1..NumServers - 1

Init ==
  /\ shutdown_requested = FALSE
  /\ main_pc = "start"
  /\ main_at = 1
  /\ m_running = [s \in Servers |-> FALSE]
  /\ listening = [s \in Servers |-> FALSE]
  /\ run = [s \in Servers |-> "none"]
  /\ session = [s \in Servers |-> [c \in Connections |-> "none"]]
  /\ m_connections = [s \in Servers |-> {}]
  /\ send_pc = [s \in PacketServers |-> "none"]
  /\ todo = [s \in PacketServers |-> {}]
  /\ others = "none"
  /\ close_todo = {}
  /\ disturbed = FALSE
  /\ left = FALSE
  /\ misused = FALSE
  /\ unopened = FALSE

Ended == main_pc \in {"returned", "aborted"}

-----------------------------------------------------------------------------
(* main: start *)

\* WebSocketServer::start; after the last one the threads are created.
StartServer ==
  LET s == main_at IN
  /\ main_pc = "start"
  /\ m_running' = [m_running EXCEPT ![s] = TRUE]
  /\ listening' = [listening EXCEPT ![s] = TRUE]
  /\ run' = [run EXCEPT ![s] = "running"]
  /\ IF s < NumServers
     THEN /\ main_at' = s + 1
          /\ UNCHANGED <<main_pc, send_pc, others>>
     ELSE /\ main_pc' = "join"
          /\ main_at' = 1
          /\ send_pc' = [p \in PacketServers |-> "idle"]
          /\ others' = "running"
  /\ UNCHANGED <<shutdown_requested, netVars, todo, close_todo, historyVars>>

\* Mutant of LeaveTry: the threads are left to themselves.
LeaveTryQuietly == "returned"

\* The end of main's try block by an exception: the servers are destroyed.
LeaveTry == IF \E s \in Servers : run[s] \in {"running", "done"}
            THEN "aborted" ELSE "returned"

\* listen() throws, for instance because the port is in use.
StartServerFails ==
  /\ main_pc = "start"
  /\ main_pc' = LeaveTry
  /\ UNCHANGED <<serverVars, netVars, sendVars, close_todo, historyVars>>

-----------------------------------------------------------------------------
(* m_server.run(): connections *)

Iterating(s) == \/ s \in PacketServers /\ send_pc[s] = "sending"
                \/ main_pc = "close" /\ main_at = s

\* m_connections of server s becomes con.
ChangeConnections(s, con) ==
  /\ m_connections' = [m_connections EXCEPT ![s] = con]
  /\ disturbed' = (disturbed \/ Iterating(s))
  /\ \/ UNCHANGED <<main_pc, sendVars, close_todo>>
     \/ /\ Iterating(s)
        /\ main_pc' = "aborted"
        /\ UNCHANGED <<sendVars, close_todo>>
     \/ /\ s \in PacketServers /\ send_pc[s] = "sending"
        /\ \E rest \in SUBSET con : todo' = [todo EXCEPT ![s] = rest]
        /\ UNCHANGED <<main_pc, send_pc, others, close_todo>>
     \/ /\ main_pc = "close" /\ main_at = s
        /\ close_todo' \in SUBSET con
        /\ UNCHANGED <<main_pc, sendVars>>

Accept(s, c) ==
  /\ ~Ended /\ listening[s]
  /\ session[s][c] = "none"
  /\ session' = [session EXCEPT ![s][c] = "handshake"]
  /\ UNCHANGED <<shutdown_requested, mainVars, run, m_connections, sendVars,
                 historyVars>>

\* The open handler.
OpenConnection(s, c) ==
  /\ ~Ended
  /\ session[s][c] = "handshake"
  /\ session' = [session EXCEPT ![s][c] = "open"]
  /\ ChangeConnections(s, m_connections[s] \cup {c})
  /\ UNCHANGED <<serverVars, left, misused, unopened>>

HandshakeFails(s, c) ==
  /\ ~Ended
  /\ session[s][c] = "handshake"
  /\ session' = [session EXCEPT ![s][c] = "none"]
  /\ UNCHANGED <<shutdown_requested, mainVars, run, m_connections, sendVars,
                 historyVars>>

ClientLeaves(s, c) ==
  /\ ~Ended
  /\ session[s][c] = "open"
  /\ session' = [session EXCEPT ![s][c] = "closing"]
  /\ left' = TRUE
  /\ UNCHANGED <<shutdown_requested, mainVars, run, m_connections, sendVars,
                 disturbed, misused, unopened>>

\* The message handler.  A packet server's ignores the message; the camera
\* server's is ResolutionChange's matter, except that it throws out of run()
\* when an encoder cannot be opened.
HandleMessage(s, c) ==
  /\ ~Ended
  /\ session[s][c] = "open"
  /\ \/ UNCHANGED <<main_pc, unopened>>
     \/ s = NumServers /\ main_pc' = "aborted" /\ unopened' = TRUE
  /\ UNCHANGED <<serverVars, netVars, sendVars, close_todo, disturbed, left,
                 misused>>

\* Mutant of CloseConnection: a closed connection is not erased.
CloseConnectionKeeps(s, c) ==
  /\ ~Ended
  /\ session[s][c] = "closing"
  /\ session' = [session EXCEPT ![s][c] = "none"]
  /\ UNCHANGED <<shutdown_requested, mainVars, run, m_connections, sendVars,
                 historyVars>>

\* The close handler.
CloseConnection(s, c) ==
  /\ ~Ended
  /\ session[s][c] = "closing"
  /\ session' = [session EXCEPT ![s][c] = "none"]
  /\ ChangeConnections(s, m_connections[s] \ {c})
  /\ UNCHANGED <<serverVars, left, misused, unopened>>

RunReturns(s) ==
  /\ ~Ended
  /\ run[s] = "running" /\ ~listening[s]
  /\ \A c \in Connections : session[s][c] = "none"
  /\ run' = [run EXCEPT ![s] = "done"]
  /\ UNCHANGED <<shutdown_requested, mainVars, netVars, sendVars, historyVars>>

Asio(s) == \/ \E c \in Connections : \/ OpenConnection(s, c)
                                     \/ HandshakeFails(s, c)
                                     \/ CloseConnection(s, c)
           \/ RunReturns(s)

-----------------------------------------------------------------------------
(* receive_packet_thread: consume_packet and send_to_all *)

\* send_to_all: if (!m_running) throw; then the loop begins.
BeginSend(s) ==
  /\ ~Ended /\ send_pc[s] = "idle"
  /\ misused' = (misused \/ ~m_running[s])
  /\ IF m_running[s]
     THEN /\ send_pc' = [send_pc EXCEPT ![s] = "sending"]
          /\ todo' = [todo EXCEPT ![s] = m_connections[s]]
          /\ UNCHANGED main_pc
     ELSE /\ main_pc' = "aborted"
          /\ UNCHANGED sendVars
  /\ UNCHANGED <<serverVars, netVars, others, close_todo, disturbed, left,
                 unopened>>

\* m_server.send()
SendTo(s, c) ==
  /\ ~Ended /\ c \in todo[s]
  /\ IF session[s][c] = "open"
     THEN /\ todo' = [todo EXCEPT ![s] = @ \ {c}]
          /\ UNCHANGED main_pc
     ELSE /\ main_pc' = "aborted"
          /\ UNCHANGED todo
  /\ UNCHANGED <<serverVars, netVars, send_pc, others, close_todo, historyVars>>

EndSend(s) ==
  /\ ~Ended /\ send_pc[s] = "sending" /\ todo[s] = {}
  /\ send_pc' = [send_pc EXCEPT ![s] = IF shutdown_requested THEN "exited"
                                                             ELSE "idle"]
  /\ UNCHANGED <<shutdown_requested, mainVars, run, netVars, todo, others,
                 historyVars>>

SenderExit(s) ==
  /\ ~Ended /\ send_pc[s] = "idle" /\ shutdown_requested
  /\ send_pc' = [send_pc EXCEPT ![s] = "exited"]
  /\ UNCHANGED <<shutdown_requested, mainVars, run, netVars, todo, others,
                 historyVars>>

PacketThread(s) == \/ BeginSend(s) \/ EndSend(s) \/ SenderExit(s)
                   \/ \E c \in Connections : SendTo(s, c)

\* The last of the other threads ends.
OthersEnd ==
  /\ ~Ended /\ others = "running" /\ shutdown_requested
  /\ others' = "ended"
  /\ UNCHANGED <<shutdown_requested, mainVars, run, netVars, send_pc, todo,
                 historyVars>>

-----------------------------------------------------------------------------
(* main: join and stop *)

\* Mutant of JoinThreads: the servers are stopped first.
JoinLater ==
  /\ main_pc = "join" /\ shutdown_requested
  /\ main_pc' = "stop"
  /\ UNCHANGED <<serverVars, netVars, sendVars, close_todo, historyVars>>

\* join() of every thread has returned.
JoinThreads ==
  /\ main_pc = "join"
  /\ others = "ended"
  /\ \A s \in PacketServers : send_pc[s] = "exited"
  /\ main_pc' = "stop"
  /\ UNCHANGED <<serverVars, netVars, sendVars, close_todo, historyVars>>

\* Mutant of StopListening: the acceptor stays open.
StopAccepting ==
  LET s == main_at IN
  /\ main_pc = "stop"
  /\ misused' = (misused \/ ~m_running[s])
  /\ IF m_running[s]
     THEN main_pc' = "close" /\ close_todo' = m_connections[s]
     ELSE main_pc' = LeaveTry /\ UNCHANGED close_todo
  /\ UNCHANGED <<serverVars, netVars, sendVars, disturbed, left, unopened>>

\* WebSocketServer::stop up to its loop.
StopListening ==
  LET s == main_at IN
  /\ main_pc = "stop"
  /\ misused' = (misused \/ ~m_running[s])
  /\ IF m_running[s]
     THEN /\ main_pc' = "close"
          /\ listening' = [listening EXCEPT ![s] = FALSE]
          /\ close_todo' = m_connections[s]
     ELSE /\ main_pc' = LeaveTry
          /\ UNCHANGED <<listening, close_todo>>
  /\ UNCHANGED <<shutdown_requested, main_at, m_running, run, netVars, sendVars,
                 disturbed, left, unopened>>

\* Mutant of CloseClient: the loop stays at the connection.
CloseClientTwice(c) ==
  /\ main_pc = "close" /\ c \in close_todo
  /\ session' = [session EXCEPT ![main_at][c] = "closing"]
  /\ main_pc' = IF session[main_at][c] = "open" THEN main_pc ELSE LeaveTry
  /\ UNCHANGED <<serverVars, m_connections, sendVars, close_todo, historyVars>>

\* m_server.close()
CloseClient(c) ==
  /\ main_pc = "close" /\ c \in close_todo
  /\ IF session[main_at][c] = "open"
     THEN /\ session' = [session EXCEPT ![main_at][c] = "closing"]
          /\ close_todo' = close_todo \ {c}
          /\ UNCHANGED main_pc
     ELSE /\ main_pc' = LeaveTry
          /\ UNCHANGED <<session, close_todo>>
  /\ UNCHANGED <<serverVars, m_connections, sendVars, historyVars>>

EndClose ==
  /\ main_pc = "close" /\ close_todo = {}
  /\ main_pc' = "join_run"
  /\ UNCHANGED <<serverVars, netVars, sendVars, close_todo, historyVars>>

\* Mutant of JoinRun: the last server is not told apart.
JoinRunOneMore ==
  LET s == main_at IN
  /\ main_pc = "join_run" /\ run[s] = "done"
  /\ run' = [run EXCEPT ![s] = "joined"]
  /\ m_running' = [m_running EXCEPT ![s] = FALSE]
  /\ main_at' = s + 1 /\ main_pc' = "stop"
  /\ UNCHANGED <<shutdown_requested, listening, netVars, sendVars, close_todo,
                 historyVars>>

\* m_thread->join() returns; on to the next server, or the end of main().
JoinRun ==
  LET s == main_at IN
  /\ main_pc = "join_run" /\ run[s] = "done"
  /\ run' = [run EXCEPT ![s] = "joined"]
  /\ m_running' = [m_running EXCEPT ![s] = FALSE]
  /\ IF s < NumServers
     THEN main_at' = s + 1 /\ main_pc' = "stop"
     ELSE main_pc' = "returned" /\ UNCHANGED main_at
  /\ UNCHANGED <<shutdown_requested, listening, netVars, sendVars, close_todo,
                 historyVars>>

Main == \/ StartServer \/ StartServerFails \/ JoinThreads \/ StopListening
        \/ \E c \in Connections : CloseClient(c)
        \/ EndClose \/ JoinRun

\* signal_handler
RequestShutdown ==
  /\ ~Ended /\ ~shutdown_requested
  /\ shutdown_requested' = TRUE
  /\ UNCHANGED <<mainVars, run, netVars, sendVars, historyVars>>

Terminated == Ended /\ UNCHANGED vars

Next == \/ Main
        \/ \E s \in Servers : Asio(s)
        \/ \E s \in Servers, c \in Connections :
             Accept(s, c) \/ ClientLeaves(s, c) \/ HandleMessage(s, c)
        \/ \E s \in PacketServers : PacketThread(s)
        \/ OthersEnd
        \/ RequestShutdown
        \/ Terminated

Spec == Init /\ [][Next]_vars

\* main(), the packet threads and the servers' threads keep running; clients
\* need not leave, and the other threads need not end (a renderer may be silent).
FairSpec == /\ Spec
            /\ WF_vars(Main)
            /\ \A s \in Servers : WF_vars(Asio(s))
            /\ \A s \in PacketServers : WF_vars(PacketThread(s))

-----------------------------------------------------------------------------
(* Properties *)

\* The types of the variables; main() starts and stops its servers only.
TypeOK ==
  /\ shutdown_requested \in BOOLEAN
  /\ main_pc \in {"start", "join", "stop", "close", "join_run", "returned",
                  "aborted"}
  /\ main_at \in Servers
  /\ m_running \in [Servers -> BOOLEAN]
  /\ listening \in [Servers -> BOOLEAN]
  /\ run \in [Servers -> {"none", "running", "done", "joined"}]
  /\ session \in [Servers ->
       [Connections -> {"none", "handshake", "open", "closing"}]]
  /\ m_connections \in [Servers -> SUBSET Connections]
  /\ send_pc \in [PacketServers -> {"none", "idle", "sending", "exited"}]
  /\ todo \in [PacketServers -> SUBSET Connections]
  /\ close_todo \subseteq Connections
  /\ others \in {"none", "running", "ended"}
  /\ disturbed \in BOOLEAN /\ left \in BOOLEAN /\ misused \in BOOLEAN
  /\ unopened \in BOOLEAN

\* send_to_all and stop never find their server not running: main() creates the
\* packet threads after the last start and joins them before the first stop.
NeverMisused == ~misused

\* m_connections is exactly the set of connections whose open handler has run
\* and whose close handler has not, also while the program is being stopped.
ConnectionsAreThose ==
  \A s \in Servers :
    m_connections[s] = {c \in Connections : session[s][c] \in {"open", "closing"}}

\* main() returns only when nothing runs any more: every server that was
\* started is stopped, its thread joined, its connections closed.
ReturnIsClean ==
  main_pc = "returned" =>
    \A s \in Servers : /\ run[s] \in {"none", "joined"}
                       /\ m_connections[s] = {}

\* main(), the packet threads and the handlers of the servers do not abort the
\* program as long as every port is free, no client leaves by itself, the
\* encoders open for every camera message and m_connections is left alone while
\* it is iterated over.
AbortHasCause ==
  main_pc = "aborted" =>
    \/ disturbed \/ left \/ unopened
    \/ \E s \in Servers : ~m_running[s] /\ run[s] = "none"

\* stop() waits for a client its loop did not close.
Overlooked == \E c \in Connections :
                main_pc = "join_run" /\ session[main_at][c] = "open"

Arriving == \E s \in Servers, c \in Connections : session[s][c] = "handshake"

\* A shutdown ends the program, or stop() waits for good for a client that it
\* has overlooked: one that finished its handshake behind the loop that closes
\* the connections, or that the loop missed when the set changed under it.
\* Before, join() may wait for good for a client thread that reads from a silent
\* renderer (ShutdownUnlessSilent of RendererConnection).  Clients that arrive
\* for ever may disturb the packet threads for ever.
ShutdownReturns ==
  shutdown_requested ~>
    (Ended \/ []Overlooked \/ []<>Arriving \/ [](others = "running"))
=============================================================================
