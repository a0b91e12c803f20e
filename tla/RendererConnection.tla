------------------------- MODULE RendererConnection -------------------------
(***************************************************************************)
(* The connections to the renderers: the socket_manage_thread of each      *)
(* renderer creates a socket, connects, runs a socket_client_thread on it  *)
(* and starts over when that ends.  The client thread sends a request and  *)
(* reads one answer, both with a length prefix.                            *)
(*                                                                         *)
(* Steps.  The manager waits in join() while its client runs, so the two   *)
(* are one thread of control per renderer.  Every read() is a step, since  *)
(* it may return any part of what is wanted; the send() calls of a request *)
(* are one step, because nobody sees a part of a request.  What becomes of *)
(* the answer is FramePipeline's matter.  A byte is a pair of the answer's *)
(* number and its position in the answer; numbers are told apart modulo    *)
(* NumberSpace, as a client has only one request outstanding.              *)
(*                                                                         *)
(* Renderers and TCP are external: a renderer may go away at any time,     *)
(* also in the middle of an answer, come back, or say nothing.  After its  *)
(* end was closed a read gets the rest and then end of file, at once.  A   *)
(* send is still accepted, and so are more until the reset it brings about *)
(* has arrived; from then on every call fails.                             *)
(***************************************************************************)
EXTENDS Integers, Sequences, FiniteSets

CONSTANTS Renderers,
          MaxFds,        \* descriptors the process may have open
          ErrorLimit,    \* failed connects between two log lines, 30
          PrefixSize,    \* sizeof(size_t)
          MaxBody,       \* bound: sizes of answers
          NumberSpace,
          MaxFailures    \* bound: how often renderers go away

ASSUME ConnectionAssumption ==
  /\ IsFiniteSet(Renderers)
  /\ MaxFds \in Nat /\ ErrorLimit \in Nat /\ MaxBody \in Nat /\ MaxFailures \in Nat
  /\ PrefixSize \in Nat \ {0}
  /\ NumberSpace \in Nat \ {0, 1}

VARIABLES
  shutdown_requested,
  up,            \* the renderer accepts connections
  conn,          \* the TCP connection of each renderer: "closed" by the
                 \* renderer, "refused" once something was sent behind that
  owed,          \* requests a renderer has not answered yet
  inbox,         \* bytes that can be read from each socket
  failures,      \* bound: renderer failures so far
  fds,           \* open descriptors
  pc,            \* where manager and client of each renderer are
  error_times,
  number,        \* frame number of the running iteration
  data,          \* bytes read for the size or the body
  want,          \* how many bytes that takes
  next_number,   \* the shared counter of frame numbers
  unconnected,   \* history: sockets whose connect() failed
  wasted         \* history: numbers drawn since the connection was reset

renderVars == <<up, conn, owed, inbox, failures>>
clientVars == <<number, data, want, next_number>>
historyVars == <<unconnected, wasted>>
vars == <<shutdown_requested, up, conn, owed, inbox, failures, fds, pc,
          error_times, number, data, want, next_number, unconnected, wasted>>

Manager == {"socket", "connect"}
Reading == {"size", "body"}
PC == Manager \cup Reading \cup {"top", "send", "push", "close", "exited"}

Init ==
  /\ shutdown_requested = FALSE
  /\ up \in [Renderers -> BOOLEAN]
  /\ conn = [r \in Renderers |-> "none"]
  /\ owed = [r \in Renderers |-> <<>>]
  /\ inbox = [r \in Renderers |-> <<>>]
  /\ failures = 0
  /\ fds = 0
  /\ pc = [r \in Renderers |-> "socket"]
  /\ error_times = [r \in Renderers |-> 0]
  /\ number = [r \in Renderers |-> 0]
  /\ data = [r \in Renderers |-> <<>>]
  /\ want = [r \in Renderers |-> 0]
  /\ next_number = 0
  /\ unconnected = 0
  /\ wasted = [r \in Renderers |-> 0]

Go(r, from, to) == pc[r] = from /\ pc' = [pc EXCEPT ![r] = to]

\* Mutant of ManageTop: while (true).
ManageAgain == "socket"

\* while (!shutdown_requested) of socket_manage_thread.
ManageTop == IF shutdown_requested THEN "exited" ELSE "socket"

-----------------------------------------------------------------------------
(* socket_manage_thread *)

CreateSocket(r) ==
  /\ fds < MaxFds
  /\ Go(r, "socket", "connect")
  /\ fds' = fds + 1
  /\ UNCHANGED <<shutdown_requested, renderVars, error_times, clientVars,
                 historyVars>>

CreateSocketFails(r) ==
  /\ fds >= MaxFds
  /\ Go(r, "socket", ManageTop)
  /\ UNCHANGED <<shutdown_requested, renderVars, fds, error_times, clientVars,
                 historyVars>>

\* connect() succeeds; the client thread starts.
Connect(r) ==
  /\ up[r]
  /\ Go(r, "connect", "top")
  /\ conn' = [conn EXCEPT ![r] = "open"]
  /\ wasted' = [wasted EXCEPT ![r] = 0]
  /\ UNCHANGED <<shutdown_requested, up, owed, inbox, failures, fds,
                 error_times, clientVars, unconnected>>

\* Mutant of CountError: the counter is not reset.
CountErrorOnly(n) == n + 1

\* error_times++, and back to 0 behind the limit.
CountError(n) == IF n + 1 > ErrorLimit THEN 0 ELSE n + 1

\* connect() fails.  The socket is not closed.
ConnectFails(r) ==
  /\ ~up[r]
  /\ Go(r, "connect", ManageTop)
  /\ error_times' = [error_times EXCEPT ![r] = CountError(@)]
  /\ unconnected' = unconnected + 1
  /\ UNCHANGED <<shutdown_requested, renderVars, fds, clientVars, wasted>>

-----------------------------------------------------------------------------
(* socket_client_thread *)

\* A number is drawn for the next request.
DrawNumber(r) ==
  /\ ~shutdown_requested
  /\ Go(r, "top", "send")
  /\ number' = [number EXCEPT ![r] = next_number]
  /\ next_number' = (next_number + 1) % NumberSpace
  /\ wasted' = [wasted EXCEPT ![r] = IF conn[r] = "reset" THEN @ + 1 ELSE @]
  /\ UNCHANGED <<shutdown_requested, renderVars, fds, error_times, data, want,
                 unconnected>>

\* socket_receive_blocking for the n bytes of a part of the answer.
Expect(r, n) == /\ data' = [data EXCEPT ![r] = <<>>]
                /\ want' = [want EXCEPT ![r] = n]

\* socket_send_blocking_lpf
SendRequest(r) ==
  /\ conn[r] # "reset"
  /\ Go(r, "send", "size")
  /\ Expect(r, PrefixSize)
  /\ IF conn[r] = "open"
     THEN /\ owed' = [owed EXCEPT ![r] = Append(@, number[r])]
          /\ UNCHANGED conn
     ELSE /\ conn' = [conn EXCEPT ![r] = "refused"]
          /\ UNCHANGED owed
  /\ UNCHANGED <<shutdown_requested, up, inbox, failures, fds, error_times, number,
                 next_number, historyVars>>

\* Mutant of SendRequestFails: the error is not looked at.
SendErrorIgnored(r) ==
  /\ conn[r] = "reset"
  /\ Go(r, "send", "size")
  /\ Expect(r, PrefixSize)
  /\ UNCHANGED <<shutdown_requested, renderVars, fds, error_times, number,
                 next_number, historyVars>>

\* ret < 0 ends the loop.
SendRequestFails(r) ==
  /\ conn[r] = "reset"
  /\ Go(r, "send", "close")
  /\ UNCHANGED <<shutdown_requested, renderVars, fds, error_times, clientVars,
                 historyVars>>

\* Answers of different numbers have different sizes, and some are empty.
BodySize(i) == i % (MaxBody + 1)

Message(i) == [k \in 1..PrefixSize + BodySize(i) |-> <<i, k>>]

\* What a read() may return: read(fd, buf + recv, size - recv).
TakeBytes(r) == {n \in 1..want[r] - Len(data[r]) : n <= Len(inbox[r])}

\* One read() of socket_receive_blocking.
Read(r) ==
  /\ pc[r] \in Reading
  /\ conn[r] # "reset"
  /\ \E n \in TakeBytes(r) :
       /\ data' = [data EXCEPT ![r] = @ \o SubSeq(inbox[r], 1, n)]
       /\ inbox' = [inbox EXCEPT ![r] = SubSeq(@, n + 1, Len(@))]
  /\ UNCHANGED <<shutdown_requested, up, conn, owed, failures, fds, pc,
                 error_times, number, want, next_number, historyVars>>

\* Mutant of Complete: one read() is taken for all of it.
CompleteAtOnce(r) == want[r] = 0 \/ data[r] # <<>>

Complete(r) == Len(data[r]) >= want[r]

\* The size is known: a buffer is made and the body is read.
SizeRead(r) ==
  /\ Complete(r)
  /\ Go(r, "size", "body")
  /\ Expect(r, BodySize(data[r][1][1]))
  /\ UNCHANGED <<shutdown_requested, renderVars, fds, error_times, number,
                 next_number, historyVars>>

BodyRead(r) ==
  /\ Complete(r)
  /\ Go(r, "body", "push")
  /\ UNCHANGED <<shutdown_requested, renderVars, fds, error_times, clientVars,
                 historyVars>>

\* An error or end of file in the middle of an answer.  The exception is
\* caught and the loop goes on; ret is still 0.
ReadFails(r) ==
  /\ pc[r] \in Reading
  /\ ~Complete(r)
  /\ \/ conn[r] = "reset"
     \/ conn[r] \in {"closed", "refused"} /\ inbox[r] = <<>>
  /\ pc' = [pc EXCEPT ![r] = "top"]
  /\ Expect(r, 0)
  /\ UNCHANGED <<shutdown_requested, renderVars, fds, error_times, number,
                 next_number, historyVars>>

\* The frame is pushed, or does not parse and is forgotten.
FinishFrame(r) ==
  /\ Go(r, "push", "top")
  /\ Expect(r, 0)
  /\ UNCHANGED <<shutdown_requested, renderVars, fds, error_times, number,
                 next_number, historyVars>>

\* The loop sees shutdown_requested.
ClientStops(r) ==
  /\ shutdown_requested
  /\ Go(r, "top", "close")
  /\ UNCHANGED <<shutdown_requested, renderVars, fds, error_times, clientVars,
                 historyVars>>

\* Mutant of CloseSocket: the socket is not closed.
CloseForgotten(r) ==
  /\ Go(r, "close", ManageTop)
  /\ conn' = [conn EXCEPT ![r] = "none"]
  /\ owed' = [owed EXCEPT ![r] = <<>>]
  /\ inbox' = [inbox EXCEPT ![r] = <<>>]
  /\ error_times' = [error_times EXCEPT ![r] = 0]
  /\ UNCHANGED <<shutdown_requested, up, failures, fds, clientVars, historyVars>>

\* Mutant of CloseSocket: the manager connects only once.
CloseAndEnd(r) ==
  /\ Go(r, "close", "exited")
  /\ fds' = fds - 1
  /\ conn' = [conn EXCEPT ![r] = "none"]
  /\ owed' = [owed EXCEPT ![r] = <<>>]
  /\ inbox' = [inbox EXCEPT ![r] = <<>>]
  /\ UNCHANGED <<shutdown_requested, up, failures, error_times, clientVars,
                 historyVars>>

\* close(); join() returns and the manager starts over.
CloseSocket(r) ==
  /\ Go(r, "close", ManageTop)
  /\ fds' = fds - 1
  /\ conn' = [conn EXCEPT ![r] = "none"]
  /\ owed' = [owed EXCEPT ![r] = <<>>]
  /\ inbox' = [inbox EXCEPT ![r] = <<>>]
  /\ error_times' = [error_times EXCEPT ![r] = 0]
  /\ UNCHANGED <<shutdown_requested, up, failures, clientVars, historyVars>>

Thread(r) ==
  \/ CreateSocket(r) \/ CreateSocketFails(r) \/ Connect(r) \/ ConnectFails(r)
  \/ DrawNumber(r) \/ SendRequest(r) \/ SendRequestFails(r)
  \/ Read(r) \/ SizeRead(r) \/ BodyRead(r) \/ ReadFails(r) \/ FinishFrame(r)
  \/ ClientStops(r) \/ CloseSocket(r)

-----------------------------------------------------------------------------
(* Renderers and TCP *)

Answer(r) ==
  /\ conn[r] = "open"
  /\ owed[r] # <<>>
  /\ inbox' = [inbox EXCEPT ![r] = @ \o Message(Head(owed[r]))]
  /\ owed' = [owed EXCEPT ![r] = Tail(@)]
  /\ UNCHANGED <<shutdown_requested, up, conn, failures, fds, pc, error_times,
                 clientVars, historyVars>>

\* The renderer ends, after part of what it was sending, or is unreachable.
GoAway(r) ==
  /\ up[r]
  /\ failures < MaxFailures
  /\ failures' = failures + 1
  /\ up' = [up EXCEPT ![r] = FALSE]
  /\ \/ /\ conn[r] = "open"
        /\ \/ /\ conn' = [conn EXCEPT ![r] = "closed"]
              /\ \E n \in 0..Len(inbox[r]) :
                   inbox' = [inbox EXCEPT ![r] = SubSeq(@, 1, n)]
           \/ /\ conn' = [conn EXCEPT ![r] = "reset"]
              /\ inbox' = [inbox EXCEPT ![r] = <<>>]
     \/ conn[r] # "open" /\ UNCHANGED <<conn, inbox>>
  /\ owed' = [owed EXCEPT ![r] = <<>>]
  /\ UNCHANGED <<shutdown_requested, fds, pc, error_times, clientVars,
                 historyVars>>

ComeUp(r) ==
  /\ ~up[r]
  /\ up' = [up EXCEPT ![r] = TRUE]
  /\ UNCHANGED <<shutdown_requested, conn, owed, inbox, failures, fds, pc,
                 error_times, clientVars, historyVars>>

\* The answer of the renderer's host to what was sent after the end was closed,
\* or the kernel gives the connection up.
ResetArrives(r) ==
  /\ conn[r] = "refused"
  /\ conn' = [conn EXCEPT ![r] = "reset"]
  /\ inbox' = [inbox EXCEPT ![r] = <<>>]
  /\ UNCHANGED <<shutdown_requested, up, owed, failures, fds, pc, error_times,
                 clientVars, historyVars>>

-----------------------------------------------------------------------------
RequestShutdown ==
  /\ ~shutdown_requested
  /\ shutdown_requested' = TRUE
  /\ UNCHANGED <<renderVars, fds, pc, error_times, clientVars, historyVars>>

\* socket_main_thread has joined every manager.
Terminated == (\A r \in Renderers : pc[r] = "exited") /\ UNCHANGED vars

Next == \/ \E r \in Renderers : \/ Thread(r) \/ Answer(r) \/ GoAway(r)
                               \/ ComeUp(r) \/ ResetArrives(r)
        \/ RequestShutdown
        \/ Terminated

Spec == Init /\ [][Next]_vars

\* The threads keep running and sleep_for ends.  Nothing is assumed of the
\* renderers; of TCP, that data sent to a closed end is refused in the end, by a
\* reset or by the kernel's own timeout.
FairSpec ==
  Spec /\ \A r \in Renderers : WF_vars(Thread(r)) /\ WF_vars(ResetArrives(r))

-----------------------------------------------------------------------------
(* Properties *)

\* Types; the error counter stays within its limit.
TypeOK ==
  /\ shutdown_requested \in BOOLEAN
  /\ up \in [Renderers -> BOOLEAN]
  /\ conn \in [Renderers -> {"none", "open", "closed", "refused", "reset"}]
  /\ owed \in [Renderers -> Seq(Nat)]
  /\ inbox \in [Renderers -> Seq(Nat \X Nat)]
  /\ failures \in 0..MaxFailures
  /\ fds \in 0..MaxFds
  /\ pc \in [Renderers -> PC]
  /\ error_times \in [Renderers -> 0..ErrorLimit]
  /\ number \in [Renderers -> 0..NumberSpace - 1]
  /\ data \in [Renderers -> Seq(Nat \X Nat)]
  /\ want \in [Renderers -> Nat]
  /\ next_number \in 0..NumberSpace - 1
  /\ unconnected \in Nat
  /\ wasted \in [Renderers -> Nat]

\* However the bytes of an answer are cut up, and whatever happened to earlier
\* exchanges, the client ends up with exactly the body of the answer to the
\* request it has just sent (the loops of socket_receive_blocking under the
\* length prefix).
AnswerIsWhole ==
  \A r \in Renderers : pc[r] = "push" =>
    data[r] = SubSeq(Message(number[r]), PrefixSize + 1,
                     PrefixSize + BodySize(number[r]))

\* A connection that was reset costs at most one more frame number, wherever the
\* client is when the reset arrives: the loop goes on after a failed read, but
\* ends with the next send (server.cpp 133-180).  While the reset is still on
\* its way there is no limit: sends are accepted, reads fail at once, and each
\* time round costs a number.
ResetCostsOne == \A r \in Renderers : wasted[r] <= 1

\* Every descriptor of a client thread is closed once; what stays open are
\* exactly the sockets whose connect() failed (server.cpp 211, 255-264).
OnlyFailedConnectsLeak ==
  fds = unconnected + Cardinality({r \in Renderers :
                                     pc[r] \notin {"socket", "exited"}})

\* A renderer that comes back and stays is connected again, however the old
\* connection ended - unless the sockets of failed connects have used up the
\* descriptors of the process.
RendererIsReconnected ==
  \A r \in Renderers :
    <>[]up[r] => []<>(conn[r] = "open" \/ fds = MaxFds \/ shutdown_requested)

\* The client waits for an answer on a connection that is alive.
Waiting(r) == pc[r] \in Reading /\ conn[r] = "open" /\ inbox[r] = <<>>
              /\ ~Complete(r)

\* After a shutdown request the threads of a renderer end, whatever state the
\* connection is in; the one exception is a renderer that is connected and
\* never answers (read() has no timeout).
ShutdownUnlessSilent ==
  \A r \in Renderers :
    shutdown_requested ~> (pc[r] = "exited" \/ []Waiting(r))
=============================================================================
