---------------------- MODULE RendererConnectionProofs ----------------------
(***************************************************************************)
(* What is proved of RendererConnection for any finite set of renderers,   *)
(* any sizes of prefix and body, and any number of failures.               *)
(***************************************************************************)
EXTENDS RendererConnection, FiniteSetTheorems, TLAPS

-----------------------------------------------------------------------------
(* The parts of the inductive invariant *)

\* A socket is connected exactly while its client runs.
ConnectedWhileServed(r) ==
  conn[r] = "none" <=> pc[r] \in {"socket", "connect", "exited"}

\* Between two exchanges nothing is outstanding, so no answer is taken for that
\* of another request.
Quiet(r) == inbox[r] = <<>> /\ owed[r] = <<>>

\* What of the answer was read before the bytes in data.
Skipped(r) == IF pc[r] = "size" THEN 0 ELSE PrefixSize

AnswerSize(r) == PrefixSize + BodySize(number[r])

\* data and inbox are consecutive parts of the answer to the last request.
PartsFit(r) ==
  /\ Skipped(r) + Len(data[r]) + Len(inbox[r]) <= AnswerSize(r)
  /\ \A k \in 1..Len(data[r]) : data[r][k] = <<number[r], Skipped(r) + k>>
  /\ \A k \in 1..Len(inbox[r]) :
       inbox[r][k] = <<number[r], Skipped(r) + Len(data[r]) + k>>

Exchange(r) ==
  /\ pc[r] \notin Reading => Quiet(r)
  /\ pc[r] \in Reading =>
       /\ want[r] = IF pc[r] = "size" THEN PrefixSize ELSE BodySize(number[r])
       /\ Len(data[r]) <= want[r]
       /\ PartsFit(r)
       /\ conn[r] = "reset" => inbox[r] = <<>>
       /\ \/ owed[r] = <<>>
          \/ /\ conn[r] = "open" /\ owed[r] = <<number[r]>> /\ pc[r] = "size"
             /\ data[r] = <<>> /\ inbox[r] = <<>>
  /\ pc[r] = "push" => PartsFit(r) /\ Len(data[r]) = BodySize(number[r])

\* How many numbers a reset can have cost by now.
WastedSoFar(r) ==
  /\ conn[r] \in {"open", "closed", "refused"} => wasted[r] = 0
  /\ conn[r] = "reset" =>
       wasted[r] <= IF pc[r] \in {"send", "close"} THEN 1 ELSE 0
  /\ wasted[r] <= 1

RendererInv(r) == ConnectedWhileServed(r) /\ Exchange(r) /\ WastedSoFar(r)

ConnectionInv ==
  /\ TypeOK
  /\ OnlyFailedConnectsLeak
  /\ \A r \in Renderers : RendererInv(r)

-----------------------------------------------------------------------------
(* Sizes and answers *)

\* The size of a body is a number.
LEMMA BodySizeType == \A i \in Nat : BodySize(i) \in Nat
BY ConnectionAssumption DEF BodySize

\* The bytes of an answer.
LEMMA MessageType ==
  ASSUME NEW i \in Nat
  PROVE  /\ Message(i) \in Seq(Nat \X Nat)
         /\ Len(Message(i)) = PrefixSize + BodySize(i)
         /\ \A k \in 1..PrefixSize + BodySize(i) : Message(i)[k] = <<i, k>>
<1>1. PrefixSize + BodySize(i) \in Nat
  BY ConnectionAssumption, BodySizeType
<1>2. PICK n \in Nat : n = PrefixSize + BodySize(i)
  BY <1>1
<1>3. Message(i) = [k \in 1..n |-> <<i, k>>]
  BY <1>2 DEF Message
<1>4. Message(i) \in [1..n -> Nat \X Nat]
  BY <1>3
<1>5. QED
  BY <1>2, <1>3, <1>4

\* Nothing has been read yet.
LEMMA NothingIsTyped == <<>> \in Seq(Nat \X Nat)
OBVIOUS

\* What a read() takes and what it leaves.
LEMMA RestIsTyped ==
  ASSUME NEW s \in Seq(Nat \X Nat), NEW n \in 0..Len(s)
  PROVE  /\ SubSeq(s, 1, n) \in Seq(Nat \X Nat) /\ Len(SubSeq(s, 1, n)) = n
         /\ SubSeq(s, n + 1, Len(s)) \in Seq(Nat \X Nat)
         /\ Len(SubSeq(s, n + 1, Len(s))) = Len(s) - n
         /\ \A k \in 1..n : SubSeq(s, 1, n)[k] = s[k]
         /\ \A k \in 1..Len(s) - n : SubSeq(s, n + 1, Len(s))[k] = s[n + k]
<1>1. SubSeq(s, 1, n) \in Seq(Nat \X Nat) /\ Len(SubSeq(s, 1, n)) = n
      /\ \A k \in 1..n : SubSeq(s, 1, n)[k] = s[k]
  OBVIOUS
<1>2. CASE n = Len(s)
  BY <1>1, <1>2
<1>3. CASE n < Len(s)
  <2>1. \A k \in n + 1..Len(s) : s[k] \in Nat \X Nat
    OBVIOUS
  <2>2. QED
    BY <1>1, <1>3, <2>1
<1>4. QED
  BY <1>2, <1>3

\* The next number is a number.
LEMMA NextNumberType ==
  ASSUME NEW n \in Nat
  PROVE  (n + 1) % NumberSpace \in 0..NumberSpace - 1
BY ConnectionAssumption

\* No step changes what belongs to another renderer.
LEMMA OtherRenderer ==
  ASSUME NEW q \in Renderers, RendererInv(q),
         conn'[q] = conn[q], pc'[q] = pc[q], inbox'[q] = inbox[q],
         owed'[q] = owed[q], data'[q] = data[q], want'[q] = want[q],
         number'[q] = number[q], wasted'[q] = wasted[q]
  PROVE  RendererInv(q)'
BY DEF RendererInv, ConnectedWhileServed, Exchange, Quiet, PartsFit, Skipped,
       AnswerSize, WastedSoFar, BodySize

\* The same, of all that a step leaves alone.
Untouched(q) ==
  /\ conn'[q] = conn[q] /\ pc'[q] = pc[q] /\ inbox'[q] = inbox[q]
  /\ owed'[q] = owed[q] /\ data'[q] = data[q] /\ want'[q] = want[q]
  /\ number'[q] = number[q] /\ wasted'[q] = wasted[q]

\* A step of one renderer, or of its thread, is none of another.
LEMMA OnlyOneMoves ==
  ASSUME TypeOK, NEW r \in Renderers, NEW q \in Renderers, q # r,
         Thread(r) \/ Answer(r) \/ GoAway(r) \/ ComeUp(r) \/ ResetArrives(r)
  PROVE  Untouched(q)
<1> USE DEF renderVars, clientVars, historyVars, TypeOK, Untouched
<1>1. CASE CreateSocket(r) \/ CreateSocketFails(r) \/ Connect(r) \/ ConnectFails(r)
  BY <1>1, SMTT(30) DEF CreateSocket, CreateSocketFails, Connect, ConnectFails, Go
<1>2. CASE DrawNumber(r) \/ SendRequest(r) \/ SendRequestFails(r)
  <2>1. CASE DrawNumber(r)
    BY <2>1 DEF DrawNumber, Go
  <2>2. CASE SendRequest(r)
    BY <2>2 DEF SendRequest, Go, Expect
  <2>3. CASE SendRequestFails(r)
    BY <2>3 DEF SendRequestFails, Go
  <2>4. QED
    BY <1>2, <2>1, <2>2, <2>3
<1>3. CASE Read(r) \/ SizeRead(r) \/ BodyRead(r) \/ ReadFails(r)
  BY <1>3 DEF Read, SizeRead, BodyRead, ReadFails, Go, Expect
<1>4. CASE FinishFrame(r) \/ ClientStops(r) \/ CloseSocket(r)
  BY <1>4, SMTT(30) DEF FinishFrame, ClientStops, CloseSocket, Go, Expect
<1>5. CASE Answer(r) \/ GoAway(r) \/ ComeUp(r) \/ ResetArrives(r)
  BY <1>5 DEF Answer, GoAway, ComeUp, ResetArrives
<1>6. QED
  BY <1>1, <1>2, <1>3, <1>4, <1>5 DEF Thread

-----------------------------------------------------------------------------
(* Types *)

\* A complete prefix gives the size of the answer to the last request.
LEMMA SizeOfAnswer ==
  ASSUME ConnectionInv, NEW r \in Renderers, SizeRead(r)
  PROVE  BodySize(data[r][1][1]) = BodySize(number[r]) /\ Len(data[r]) = PrefixSize
<1>1. TypeOK /\ pc[r] = "size" /\ Len(data[r]) >= want[r] /\ RendererInv(r)
  BY DEF ConnectionInv, SizeRead, Complete, Go
<1>2. PartsFit(r) /\ want[r] = PrefixSize /\ Len(data[r]) <= want[r]
  BY <1>1 DEF RendererInv, Exchange, Reading
<1>3. Len(data[r]) \in Nat /\ Len(data[r]) = PrefixSize /\ 1 \in 1..Len(data[r])
  BY <1>1, <1>2, ConnectionAssumption DEF TypeOK
<1>4. data[r][1] = <<number[r], Skipped(r) + 1>>
  BY <1>2, <1>3 DEF PartsFit
<1>5. QED
  BY <1>3, <1>4

\* The steps of a thread keep the types.
LEMMA ThreadTypes ==
  ASSUME ConnectionInv, NEW r \in Renderers, Thread(r)
  PROVE  TypeOK'
<1> USE ConnectionAssumption
    DEF renderVars, clientVars, historyVars, PC, Manager, Reading, Go
<1>0. TypeOK
  BY DEF ConnectionInv
<1>1. CASE CreateSocket(r) \/ CreateSocketFails(r)
  <2>1. pc' \in [Renderers -> PC]
    <3>1. ManageTop \in PC
      BY DEF ManageTop
    <3>2. QED
      BY <1>0, <1>1, <3>1 DEF CreateSocket, CreateSocketFails, TypeOK
  <2>3. fds' \in 0..MaxFds
    BY <1>0, <1>1, SMTT(30) DEF CreateSocket, CreateSocketFails, TypeOK
  <2>2. QED
    BY <1>0, <1>1, <2>1, <2>3 DEF CreateSocket, CreateSocketFails, TypeOK
<1>11. CASE Connect(r)
  BY <1>0, <1>11 DEF Connect, TypeOK
<1>2. CASE ConnectFails(r)
  <2>1. ManageTop \in PC
    BY DEF ManageTop
  <2>2. pc' \in [Renderers -> PC]
    BY <1>0, <1>2, <2>1 DEF ConnectFails, TypeOK
  <2>3. \A n \in 0..ErrorLimit : CountError(n) \in 0..ErrorLimit
    BY ConnectionAssumption DEF CountError
  <2>4. error_times' \in [Renderers -> 0..ErrorLimit]
    BY <1>0, <1>2, <2>3 DEF ConnectFails, TypeOK
  <2>5. unconnected' \in Nat
    BY <1>0, <1>2 DEF ConnectFails, TypeOK
  <2>6. QED
    BY <1>0, <1>2, <2>2, <2>4, <2>5 DEF ConnectFails, TypeOK
<1>3. CASE DrawNumber(r)
  <2>1. next_number' \in 0..NumberSpace - 1
    BY <1>0, <1>3, NextNumberType DEF DrawNumber, TypeOK
  <2>2. QED
    BY <1>0, <1>3, <2>1, SMTT(30) DEF DrawNumber, TypeOK
<1>4. CASE SendRequest(r)
  <2>1. Append(owed[r], number[r]) \in Seq(Nat) /\ <<>> \in Seq(Nat \X Nat)
    BY <1>0 DEF TypeOK
  <2>2. QED
    BY <1>0, <1>4, <2>1 DEF SendRequest, Expect, TypeOK
<1>5. CASE SendRequestFails(r) \/ BodyRead(r) \/ ClientStops(r)
  BY <1>0, <1>5 DEF SendRequestFails, BodyRead, ClientStops, TypeOK
<1>6. CASE Read(r)
  <2>1. PICK n \in TakeBytes(r) :
          /\ data' = [data EXCEPT ![r] = @ \o SubSeq(inbox[r], 1, n)]
          /\ inbox' = [inbox EXCEPT ![r] = SubSeq(@, n + 1, Len(@))]
    BY <1>6 DEF Read
  <2>2. n \in 1..Len(inbox[r]) /\ inbox[r] \in Seq(Nat \X Nat)
        /\ data[r] \in Seq(Nat \X Nat)
    BY <1>0 DEF TakeBytes, TypeOK
  <2>3. /\ SubSeq(inbox[r], 1, n) \in Seq(Nat \X Nat)
        /\ SubSeq(inbox[r], n + 1, Len(inbox[r])) \in Seq(Nat \X Nat)
    <3>1. n \in 0..Len(inbox[r])
      BY <2>2
    <3>2. QED
      BY <2>2, <3>1, RestIsTyped
  <2>4. data[r] \o SubSeq(inbox[r], 1, n) \in Seq(Nat \X Nat)
    BY <2>2, <2>3
  <2>5. data' \in [Renderers -> Seq(Nat \X Nat)]
        /\ inbox' \in [Renderers -> Seq(Nat \X Nat)]
    BY <1>0, <2>1, <2>3, <2>4 DEF TypeOK
  <2>6. QED
    BY <1>0, <1>6, <2>5 DEF Read, TypeOK
<1>7. CASE SizeRead(r)
  <2>1. BodySize(data[r][1][1]) \in Nat
    BY <1>0, <1>7, SizeOfAnswer, BodySizeType DEF TypeOK
  <2>2. QED
    <3>1. pc' \in [Renderers -> PC]
      BY <1>0, <1>7 DEF SizeRead, TypeOK
    <3>2. data' \in [Renderers -> Seq(Nat \X Nat)]
      BY <1>0, <1>7, NothingIsTyped DEF SizeRead, Expect, TypeOK
    <3>3. want' \in [Renderers -> Nat]
      BY <1>0, <1>7, <2>1 DEF SizeRead, Expect, TypeOK
    <3>4. QED
      BY <1>0, <1>7, <3>1, <3>2, <3>3 DEF SizeRead, TypeOK
<1>8. CASE ReadFails(r)
  <2>1. /\ pc' = [pc EXCEPT ![r] = "top"] /\ Expect(r, 0)
        /\ UNCHANGED <<shutdown_requested, renderVars, fds, error_times, number,
                       next_number, historyVars>>
    BY <1>8 DEF ReadFails
  <2>2. data' \in [Renderers -> Seq(Nat \X Nat)]
    BY <1>0, <2>1, NothingIsTyped DEF Expect, TypeOK
  <2>3. want' \in [Renderers -> Nat]
    BY <1>0, <2>1 DEF Expect, TypeOK
  <2>4. QED
    BY <1>0, <2>1, <2>2, <2>3 DEF TypeOK
<1>12. CASE FinishFrame(r)
  <2>1. pc' \in [Renderers -> PC]
    BY <1>0, <1>12 DEF FinishFrame, TypeOK
  <2>2. data' \in [Renderers -> Seq(Nat \X Nat)]
    BY <1>0, <1>12, NothingIsTyped DEF FinishFrame, Expect, TypeOK
  <2>3. want' \in [Renderers -> Nat]
    BY <1>0, <1>12 DEF FinishFrame, Expect, TypeOK
  <2>4. QED
    BY <1>0, <1>12, <2>1, <2>2, <2>3 DEF FinishFrame, TypeOK
<1>9. CASE CloseSocket(r)
  <2>1. fds >= 1
    <3> DEFINE S == {q \in Renderers : pc[q] \notin {"socket", "exited"}}
    <3>1. r \in S
      BY <1>9 DEF CloseSocket
    <3>2. IsFiniteSet(S)
      BY FS_Subset
    <3>3. Cardinality(S) \in Nat /\ Cardinality(S) # 0
      BY <3>1, <3>2, FS_CardinalityType, FS_EmptySet
    <3>4. fds = unconnected + Cardinality(S)
      BY DEF ConnectionInv, OnlyFailedConnectsLeak
    <3> HIDE DEF S
    <3>5. QED
      BY <1>0, <3>3, <3>4 DEF TypeOK
  <2>2. QED
    BY <1>0, <1>9, <2>1 DEF CloseSocket, TypeOK, ManageTop
<1>10. QED
  BY <1>1, <1>2, <1>3, <1>4, <1>5, <1>6, <1>7, <1>8, <1>9, <1>11, <1>12
  DEF Thread

\* The steps of a renderer keep the types.
LEMMA RendererTypes ==
  ASSUME ConnectionInv, NEW r \in Renderers,
         Answer(r) \/ GoAway(r) \/ ComeUp(r) \/ ResetArrives(r)
  PROVE  TypeOK'
<1> USE ConnectionAssumption DEF clientVars, historyVars
<1>0. TypeOK
  BY DEF ConnectionInv
<1>1. CASE Answer(r)
  <2>1. /\ inbox[r] \in Seq(Nat \X Nat) /\ owed[r] \in Seq(Nat)
        /\ owed[r] # <<>>
    BY <1>0, <1>1 DEF TypeOK, Answer
  <2>2. Head(owed[r]) \in Nat /\ Tail(owed[r]) \in Seq(Nat)
    BY <2>1
  <2>3. Message(Head(owed[r])) \in Seq(Nat \X Nat)
    BY <2>2, MessageType
  <2>4. inbox[r] \o Message(Head(owed[r])) \in Seq(Nat \X Nat)
    BY <2>1, <2>3
  <2>5. QED
    BY <1>0, <1>1, <2>2, <2>4 DEF TypeOK, Answer
<1>2. CASE GoAway(r)
  <2>1. \A n \in 0..Len(inbox[r]) : SubSeq(inbox[r], 1, n) \in Seq(Nat \X Nat)
    BY <1>0 DEF TypeOK
  <2>2. conn' \in [Renderers -> {"none", "open", "closed", "refused", "reset"}]
        /\ inbox' \in [Renderers -> Seq(Nat \X Nat)]
    <3>1. /\ conn \in [Renderers -> {"none", "open", "closed", "refused", "reset"}]
          /\ inbox \in [Renderers -> Seq(Nat \X Nat)]
      BY <1>0 DEF TypeOK
    <3>2. CASE UNCHANGED <<conn, inbox>>
      BY <3>1, <3>2
    <3>3. CASE /\ conn' = [conn EXCEPT ![r] = "reset"]
               /\ inbox' = [inbox EXCEPT ![r] = <<>>]
      BY <3>1, <3>3
    <3>4. ASSUME NEW n \in 0..Len(inbox[r]),
                 conn' = [conn EXCEPT ![r] = "closed"],
                 inbox' = [inbox EXCEPT ![r] = SubSeq(@, 1, n)]
          PROVE  conn' \in [Renderers -> {"none", "open", "closed", "refused", "reset"}]
                 /\ inbox' \in [Renderers -> Seq(Nat \X Nat)]
      BY <2>1, <3>1, <3>4
    <3>5. QED
      BY <1>2, <3>2, <3>3, <3>4 DEF GoAway
  <2>3. /\ failures' = failures + 1 /\ failures < MaxFailures
        /\ up' = [up EXCEPT ![r] = FALSE] /\ owed' = [owed EXCEPT ![r] = <<>>]
        /\ UNCHANGED <<shutdown_requested, fds, pc, error_times, clientVars,
                       historyVars>>
    BY <1>2 DEF GoAway
  <2>4. /\ failures' \in 0..MaxFailures /\ up' \in [Renderers -> BOOLEAN]
        /\ owed' \in [Renderers -> Seq(Nat)]
    BY <1>0, <2>3 DEF TypeOK
  <2>5. QED
    BY <1>0, <2>2, <2>3, <2>4 DEF TypeOK
<1>3. CASE ComeUp(r)
  BY <1>0, <1>3 DEF TypeOK, ComeUp
<1>4. CASE ResetArrives(r)
  <2>1. /\ conn' \in [Renderers -> {"none", "open", "closed", "refused", "reset"}]
        /\ inbox' \in [Renderers -> Seq(Nat \X Nat)]
    BY <1>0, <1>4 DEF TypeOK, ResetArrives
  <2>2. QED
    BY <1>0, <1>4, <2>1 DEF TypeOK, ResetArrives
<1>5. QED
  BY <1>1, <1>2, <1>3, <1>4

-----------------------------------------------------------------------------
(* Descriptors *)

\* The renderers whose manager has a socket of its own.
Holding == {r \in Renderers : pc[r] \notin {"socket", "exited"}}

\* The threads that hold a socket can be counted.
LEMMA HoldingFinite == IsFiniteSet(Holding) /\ Cardinality(Holding) \in Nat
<1>1. IsFiniteSet(Holding)
  BY ConnectionAssumption, FS_Subset DEF Holding
<1>2. QED
  BY <1>1, FS_CardinalityType

\* Sockets are opened and given back one at a time.
LEMMA LeakStep ==
  ASSUME TypeOK, OnlyFailedConnectsLeak, [Next]_vars
  PROVE  OnlyFailedConnectsLeak'
<1> USE DEF renderVars, clientVars, historyVars
<1>0. /\ fds \in Nat /\ unconnected \in Nat
      /\ fds = unconnected + Cardinality(Holding)
      /\ IsFiniteSet(Holding) /\ Cardinality(Holding) \in Nat
      /\ pc \in [Renderers -> PC]
  BY HoldingFinite, ConnectionAssumption
  DEF TypeOK, OnlyFailedConnectsLeak, Holding
<1>1. SUFFICES fds' = unconnected' + Cardinality(Holding')
  BY DEF OnlyFailedConnectsLeak, Holding
<1>2. CASE /\ UNCHANGED <<fds, unconnected>>
           /\ \A r \in Renderers : pc[r] \in {"socket", "exited"}
                                    <=> pc'[r] \in {"socket", "exited"}
  <2>1. Holding' = Holding
    BY <1>2 DEF Holding
  <2>2. QED
    BY <1>0, <1>2, <2>1
<1>3. ASSUME NEW r \in Renderers, CreateSocket(r)
      PROVE  fds' = unconnected' + Cardinality(Holding')
  <2>1. fds' = fds + 1 /\ unconnected' = unconnected
    BY <1>3 DEF CreateSocket
  <2>2. r \notin Holding /\ Holding' = Holding \cup {r}
    BY <1>0, <1>3 DEF CreateSocket, Go, Holding
  <2>3. Cardinality(Holding \cup {r}) = Cardinality(Holding) + 1
    BY <1>0, <2>2, FS_AddElement
  <2>4. QED
    BY <1>0, <2>1, <2>2, <2>3
<1>4. ASSUME NEW r \in Renderers, ConnectFails(r) \/ CloseSocket(r)
      PROVE  fds' = unconnected' + Cardinality(Holding')
  <2>1. fds' - unconnected' = (fds - unconnected) - 1
        /\ fds' \in Int /\ unconnected' \in Int
    BY <1>0, <1>4 DEF ConnectFails, CloseSocket
  <2>2. r \in Holding /\ Holding' = Holding \ {r}
    <3>1. ManageTop \in {"socket", "exited"}
      BY DEF ManageTop
    <3>2. QED
      BY <1>0, <1>4, <3>1 DEF ConnectFails, CloseSocket, Go, Holding
  <2>3. Cardinality(Holding \ {r}) = Cardinality(Holding) - 1
    BY <1>0, <2>2, FS_RemoveElement
  <2>4. QED
    BY <1>0, <2>1, <2>2, <2>3
<1>5. ASSUME NEW r \in Renderers, Thread(r), ~CreateSocket(r), ~ConnectFails(r),
             ~CloseSocket(r)
      PROVE  /\ UNCHANGED <<fds, unconnected>>
             /\ \A q \in Renderers : pc[q] \in {"socket", "exited"}
                                      <=> pc'[q] \in {"socket", "exited"}
  <2> USE <1>0
  <2>1. CASE CreateSocketFails(r)
    <3>1. ManageTop \in {"socket", "exited"}
      BY DEF ManageTop
    <3>2. QED
      BY <2>1, <3>1 DEF CreateSocketFails, Go
  <2>2. CASE Connect(r) \/ DrawNumber(r) \/ SendRequest(r) \/ SendRequestFails(r)
    BY <2>2 DEF Connect, DrawNumber, SendRequest, SendRequestFails, Go
  <2>3. CASE Read(r) \/ SizeRead(r) \/ BodyRead(r) \/ ReadFails(r)
    BY <2>3 DEF Read, SizeRead, BodyRead, ReadFails, Go, Reading
  <2>4. CASE FinishFrame(r) \/ ClientStops(r)
    BY <2>4 DEF FinishFrame, ClientStops, Go
  <2>5. QED
    BY <1>5, <2>1, <2>2, <2>3, <2>4 DEF Thread
<1>6. ASSUME NEW r \in Renderers,
             Answer(r) \/ GoAway(r) \/ ComeUp(r) \/ ResetArrives(r)
      PROVE  UNCHANGED <<fds, unconnected, pc>>
  BY <1>6 DEF Answer, GoAway, ComeUp, ResetArrives
<1>7. CASE RequestShutdown \/ UNCHANGED vars
  BY <1>2, <1>7 DEF RequestShutdown, vars
<1>8. QED
  BY <1>2, <1>3, <1>4, <1>5, <1>6, <1>7 DEF Next, Terminated

-----------------------------------------------------------------------------
(* One exchange *)

\* The manager's steps and the ends of a connection.
LEMMA ManagerStep ==
  ASSUME ConnectionInv, NEW r \in Renderers,
         \/ CreateSocket(r) \/ CreateSocketFails(r) \/ Connect(r)
         \/ ConnectFails(r) \/ ClientStops(r) \/ CloseSocket(r)
  PROVE  RendererInv(r)'
<1> USE DEF renderVars, clientVars, historyVars, RendererInv, Reading
<1>0. TypeOK /\ RendererInv(r) /\ ManageTop \in {"socket", "exited"}
  BY DEF ConnectionInv, ManageTop
<1>1. CASE CreateSocket(r) \/ CreateSocketFails(r) \/ ConnectFails(r)
  <2>1. /\ pc[r] \in {"socket", "connect"}
        /\ pc'[r] \in {"socket", "connect", "exited"}
        /\ UNCHANGED <<conn, inbox, owed, wasted>>
    BY <1>0, <1>1 DEF CreateSocket, CreateSocketFails, ConnectFails, Go, TypeOK
  <2>2. QED
    BY <1>0, <2>1 DEF ConnectedWhileServed, Exchange, Quiet, WastedSoFar
<1>2. CASE Connect(r)
  <2>1. /\ pc[r] = "connect" /\ pc'[r] = "top" /\ conn'[r] = "open"
        /\ wasted'[r] = 0 /\ UNCHANGED <<inbox, owed>>
    BY <1>0, <1>2 DEF Connect, Go, TypeOK
  <2>2. QED
    BY <1>0, <2>1 DEF ConnectedWhileServed, Exchange, Quiet, WastedSoFar
<1>3. CASE ClientStops(r)
  <2>1. /\ pc[r] = "top" /\ pc'[r] = "close"
        /\ UNCHANGED <<conn, inbox, owed, wasted>> /\ wasted[r] \in Nat
    BY <1>0, <1>3 DEF ClientStops, Go, TypeOK
  <2>2. QED
    BY <1>0, <2>1 DEF ConnectedWhileServed, Exchange, Quiet, WastedSoFar
<1>4. CASE CloseSocket(r)
  <2>1. /\ pc[r] = "close" /\ pc'[r] \in {"socket", "exited"}
        /\ conn'[r] = "none" /\ inbox'[r] = <<>> /\ owed'[r] = <<>>
        /\ wasted' = wasted
    BY <1>0, <1>4 DEF CloseSocket, Go, TypeOK
  <2>2. QED
    BY <1>0, <2>1 DEF ConnectedWhileServed, Exchange, Quiet, WastedSoFar
<1>5. QED
  BY <1>1, <1>2, <1>3, <1>4

\* A request is sent only when nothing of an earlier exchange is left.
LEMMA RequestStep ==
  ASSUME ConnectionInv, NEW r \in Renderers,
         DrawNumber(r) \/ SendRequest(r) \/ SendRequestFails(r)
  PROVE  RendererInv(r)'
<1> USE DEF renderVars, clientVars, historyVars, RendererInv, Reading
<1>0. TypeOK /\ RendererInv(r) /\ wasted[r] \in Nat
  BY DEF ConnectionInv, TypeOK
<1>1. CASE DrawNumber(r)
  <2>1. /\ pc[r] = "top" /\ pc'[r] = "send" /\ UNCHANGED <<conn, inbox, owed>>
        /\ wasted'[r] = IF conn[r] = "reset" THEN wasted[r] + 1 ELSE wasted[r]
        /\ conn[r] \in {"none", "open", "closed", "refused", "reset"}
    BY <1>0, <1>1 DEF DrawNumber, Go, TypeOK
  <2>2. QED
    BY <1>0, <2>1 DEF ConnectedWhileServed, Exchange, Quiet, WastedSoFar
<1>2. CASE SendRequest(r)
  <2>1. /\ pc[r] = "send" /\ pc'[r] = "size" /\ conn[r] # "reset"
        /\ data'[r] = <<>> /\ want'[r] = PrefixSize
        /\ wasted' = wasted /\ number' = number
        /\ conn[r] \in {"none", "open", "closed", "refused", "reset"}
        /\ number[r] \in Nat
    BY <1>0, <1>2 DEF SendRequest, Go, Expect, TypeOK
  <2>2. inbox[r] = <<>> /\ owed[r] = <<>> /\ conn[r] # "none"
    BY <1>0, <2>1 DEF Exchange, Quiet, ConnectedWhileServed
  <2>3. /\ inbox'[r] = <<>>
        /\ \/ conn[r] = "open" /\ conn'[r] = "open" /\ owed'[r] = <<number[r]>>
           \/ /\ conn[r] \in {"closed", "refused"} /\ conn'[r] = "refused"
              /\ owed'[r] = <<>>
    BY <1>0, <1>2, <2>1, <2>2 DEF SendRequest, TypeOK
  <2>4. PartsFit(r)'
    BY <2>1, <2>3, BodySizeType, ConnectionAssumption
    DEF PartsFit, Skipped, AnswerSize, BodySize
  <2>5. Exchange(r)'
    BY <2>1, <2>3, <2>4, ConnectionAssumption DEF Exchange
  <2>6. ConnectedWhileServed(r)' /\ WastedSoFar(r)'
    BY <1>0, <2>1, <2>3 DEF ConnectedWhileServed, WastedSoFar
  <2>7. QED
    BY <2>5, <2>6
<1>3. CASE SendRequestFails(r)
  <2>1. /\ pc[r] = "send" /\ pc'[r] = "close"
        /\ UNCHANGED <<conn, inbox, owed, wasted>>
    BY <1>0, <1>3 DEF SendRequestFails, Go, TypeOK
  <2>2. QED
    BY <1>0, <2>1 DEF ConnectedWhileServed, Exchange, Quiet, WastedSoFar
<1>4. QED
  BY <1>1, <1>2, <1>3

\* The types of what belongs to one renderer.
LEMMA RendererTyped ==
  ASSUME ConnectionInv, NEW r \in Renderers
  PROVE  /\ TypeOK /\ RendererInv(r)
         /\ number[r] \in Nat /\ want[r] \in Nat /\ wasted[r] \in Nat
         /\ data[r] \in Seq(Nat \X Nat) /\ inbox[r] \in Seq(Nat \X Nat)
         /\ Len(data[r]) \in Nat /\ Len(inbox[r]) \in Nat
         /\ PrefixSize \in Nat \ {0} /\ BodySize(number[r]) \in Nat
         /\ Skipped(r) \in Nat /\ AnswerSize(r) \in Nat
<1>1. TypeOK /\ RendererInv(r)
  BY DEF ConnectionInv
<1>2. /\ number[r] \in Nat /\ want[r] \in Nat /\ wasted[r] \in Nat
      /\ data[r] \in Seq(Nat \X Nat) /\ inbox[r] \in Seq(Nat \X Nat)
  BY <1>1, ConnectionAssumption DEF TypeOK
<1>3. PrefixSize \in Nat \ {0} /\ BodySize(number[r]) \in Nat
  BY <1>2, BodySizeType, ConnectionAssumption
<1>4. Skipped(r) \in Nat /\ AnswerSize(r) \in Nat
  BY <1>3 DEF Skipped, AnswerSize
<1>5. QED
  BY <1>1, <1>2, <1>3, <1>4

\* A read() moves the next bytes of the answer from the socket to the buffer.
LEMMA ReadStep ==
  ASSUME ConnectionInv, NEW r \in Renderers, Read(r)
  PROVE  RendererInv(r)'
<1>0. /\ TypeOK /\ RendererInv(r) /\ pc[r] \in Reading /\ number[r] \in Nat
      /\ want[r] \in Nat /\ data[r] \in Seq(Nat \X Nat)
      /\ inbox[r] \in Seq(Nat \X Nat)
  BY RendererTyped DEF Read
<1>1. /\ UNCHANGED <<pc, conn, owed, want, number, wasted>>
      /\ conn[r] # "reset"
  BY DEF Read, historyVars
<1>2. PICK n \in TakeBytes(r) :
        /\ data' = [data EXCEPT ![r] = @ \o SubSeq(inbox[r], 1, n)]
        /\ inbox' = [inbox EXCEPT ![r] = SubSeq(@, n + 1, Len(@))]
  BY DEF Read
<1>3. PICK d \in Seq(Nat \X Nat) : d = data[r]
  BY <1>0
<1>4. PICK b \in Seq(Nat \X Nat) : b = inbox[r]
  BY <1>0
<1>5. /\ n \in 1..Len(b) /\ n <= want[r] - Len(d)
      /\ data'[r] = d \o SubSeq(b, 1, n) /\ inbox'[r] = SubSeq(b, n + 1, Len(b))
  <2>1. n \in 1..want[r] - Len(d) /\ n <= Len(b)
    BY <1>3, <1>4 DEF TakeBytes
  <2>2. Len(b) \in Nat /\ Len(d) \in Nat
    OBVIOUS
  <2>3. n \in 1..Len(b) /\ n <= want[r] - Len(d)
    BY <1>0, <2>1, <2>2
  <2>4. QED
    BY <1>0, <1>2, <1>3, <1>4, <2>3 DEF TypeOK
<1>a. n \in 0..Len(b) /\ n \in Nat /\ Len(b) \in Nat /\ Len(d) \in Nat
  BY <1>5, SMTT(30)
<1>6. PICK front \in Seq(Nat \X Nat) : front = SubSeq(b, 1, n)
  BY <1>a, RestIsTyped
<1>7. /\ Len(front) = n /\ \A k \in 1..n : front[k] = b[k]
      /\ Len(inbox'[r]) = Len(b) - n
      /\ \A k \in 1..Len(b) - n : inbox'[r][k] = b[n + k]
  <2>1. /\ Len(SubSeq(b, 1, n)) = n
        /\ Len(SubSeq(b, n + 1, Len(b))) = Len(b) - n
        /\ \A k \in 1..n : SubSeq(b, 1, n)[k] = b[k]
        /\ \A k \in 1..Len(b) - n : SubSeq(b, n + 1, Len(b))[k] = b[n + k]
    BY <1>a, RestIsTyped
  <2>2. PICK rest : rest = SubSeq(b, n + 1, Len(b))
    OBVIOUS
  <2>3. /\ Len(front) = n /\ \A k \in 1..n : front[k] = b[k]
        /\ Len(rest) = Len(b) - n
        /\ \A k \in 1..Len(b) - n : rest[k] = b[n + k]
    BY <1>6, <2>1, <2>2
  <2>4. QED
    BY <1>5, <2>2, <2>3
<1>8. /\ Len(data'[r]) = Len(d) + n
      /\ \A k \in 1..Len(d) : data'[r][k] = d[k]
      /\ \A k \in 1..n : data'[r][Len(d) + k] = front[k]
  <2>1. data'[r] = d \o front
    BY <1>5, <1>6
  <2>2. /\ Len(d \o front) = Len(d) + n
        /\ \A k \in 1..Len(d) : (d \o front)[k] = d[k]
        /\ \A k \in 1..n : (d \o front)[Len(d) + k] = front[k]
    <3>1. /\ Len(d \o front) = Len(d) + Len(front)
          /\ \A k \in 1..Len(d) : (d \o front)[k] = d[k]
          /\ \A k \in 1..Len(front) : (d \o front)[Len(d) + k] = front[k]
      OBVIOUS
    <3>2. QED
      BY <1>7, <3>1
  <2>3. QED
    BY <2>1, <2>2
<1>9. PICK skipped \in Nat : skipped = Skipped(r)
  BY RendererTyped
<1>10. PICK size \in Nat : size = AnswerSize(r)
  BY RendererTyped
<1>11. /\ skipped + Len(d) + Len(b) <= size
       /\ \A k \in 1..Len(d) : d[k] = <<number[r], skipped + k>>
       /\ \A k \in 1..Len(b) : b[k] = <<number[r], skipped + Len(d) + k>>
       /\ Len(d) <= want[r]
  BY <1>0, <1>3, <1>4, <1>9, <1>10 DEF RendererInv, Exchange, PartsFit
<1>12. Skipped(r)' = skipped /\ AnswerSize(r)' = size
  BY <1>1, <1>9, <1>10 DEF Skipped, AnswerSize, BodySize
<1>13. \A k \in 1..Len(data'[r]) : data'[r][k] = <<number[r], skipped + k>>
  <2> SUFFICES ASSUME NEW k \in 1..Len(data'[r])
               PROVE  data'[r][k] = <<number[r], skipped + k>>
    OBVIOUS
  <2>1. CASE k \in 1..Len(d)
    BY <1>8, <1>11, <2>1
  <2>2. CASE k \in Len(d) + 1..Len(d) + n
    <3>1. PICK j \in 1..n : k = Len(d) + j
      <4>1. k - Len(d) \in 1..n /\ k = Len(d) + (k - Len(d))
        BY <1>a, <2>2
      <4>2. QED
        BY <4>1
    <3>2. j \in 1..Len(b) /\ skipped + Len(d) + j = skipped + k
      BY <1>a, <3>1
    <3>3. data'[r][k] = b[j]
      BY <1>7, <1>8, <3>1
    <3>4. QED
      BY <1>11, <3>2, <3>3
  <2>3. k \in 1..Len(d) + n
    BY <1>8
  <2>4. k \in 1..Len(d) \/ k \in Len(d) + 1..Len(d) + n
    BY <1>a, <2>3
  <2>5. QED
    BY <2>1, <2>2, <2>4
<1>14. \A k \in 1..Len(inbox'[r]) :
         inbox'[r][k] = <<number[r], skipped + Len(data'[r]) + k>>
  <2> SUFFICES ASSUME NEW k \in 1..Len(b) - n
               PROVE  inbox'[r][k] = <<number[r], skipped + Len(data'[r]) + k>>
    BY <1>7
  <2>1. n + k \in 1..Len(b)
        /\ skipped + Len(d) + (n + k) = skipped + (Len(d) + n) + k
    BY <1>a
  <2>2. inbox'[r][k] = <<number[r], skipped + Len(d) + (n + k)>>
    BY <1>7, <1>11, <2>1
  <2>3. QED
    BY <1>8, <2>1, <2>2
<1>15. /\ skipped + Len(data'[r]) + Len(inbox'[r]) <= size
       /\ Len(data'[r]) <= want[r]
  <2>1. skipped + (Len(d) + n) + (Len(b) - n) = skipped + Len(d) + Len(b)
        /\ Len(d) + n <= want[r]
    <3>1. skipped + (Len(d) + n) + (Len(b) - n) = skipped + Len(d) + Len(b)
      BY <1>a
    <3>2. Len(d) + n <= want[r]
      BY <1>0, <1>a, <1>5, SMTT(30)
    <3>3. QED
      BY <3>1, <3>2
  <2>2. QED
    BY <1>7, <1>8, <1>11, <2>1
<1>16. PartsFit(r)'
  BY <1>1, <1>12, <1>13, <1>14, <1>15 DEF PartsFit
<1>17. owed[r] = <<>>
  <2>1. inbox[r] # <<>>
    BY <1>4, <1>5
  <2>2. QED
    BY <1>0, <2>1 DEF RendererInv, Exchange
<1>18. Exchange(r)'
  <2>1. want[r] = IF pc[r] = "size" THEN PrefixSize ELSE BodySize(number[r])
    BY <1>0 DEF RendererInv, Exchange
  <2>2. pc'[r] \in Reading /\ pc'[r] # "push"
    BY <1>0, <1>1 DEF Reading
  <2>3. QED
    BY <1>1, <1>15, <1>16, <1>17, <2>1, <2>2 DEF Exchange, BodySize
<1>19. ConnectedWhileServed(r)' /\ WastedSoFar(r)'
  BY <1>0, <1>1 DEF RendererInv, ConnectedWhileServed, WastedSoFar
<1>20. QED
  BY <1>18, <1>19 DEF RendererInv

\* After the prefix the body is wanted, of the size the answer has.
LEMMA SizeReadStep ==
  ASSUME ConnectionInv, NEW r \in Renderers, SizeRead(r)
  PROVE  RendererInv(r)'
<1>0. /\ TypeOK /\ RendererInv(r) /\ number[r] \in Nat
      /\ data[r] \in Seq(Nat \X Nat) /\ inbox[r] \in Seq(Nat \X Nat)
      /\ Len(data[r]) = PrefixSize
      /\ BodySize(number[r]) \in Nat /\ PrefixSize \in Nat \ {0}
  BY SizeOfAnswer, RendererTyped
<1>1. /\ pc[r] = "size" /\ pc'[r] = "body" /\ data'[r] = <<>>
      /\ want'[r] = BodySize(number[r])
      /\ UNCHANGED <<conn, inbox, owed, number, wasted>>
  BY <1>0, SizeOfAnswer
  DEF SizeRead, Go, Expect, TypeOK, renderVars, historyVars
<1>2. /\ PartsFit(r) /\ (conn[r] = "reset" => inbox[r] = <<>>)
      /\ owed[r] = <<>>
  <2>1. data[r] # <<>>
    BY <1>0
  <2>2. QED
    BY <1>0, <1>1, <2>1 DEF RendererInv, Exchange, Reading
<1>3. /\ Skipped(r) = 0 /\ Skipped(r)' = PrefixSize
      /\ AnswerSize(r)' = AnswerSize(r) /\ AnswerSize(r) \in Nat
  BY <1>0, <1>1 DEF Skipped, AnswerSize, BodySize
<1>4. /\ PrefixSize + Len(inbox[r]) <= AnswerSize(r)
      /\ \A k \in 1..Len(inbox[r]) : inbox[r][k] = <<number[r], PrefixSize + k>>
  <2>1. Len(inbox[r]) \in Nat
    BY RendererTyped
  <2>2. /\ 0 + PrefixSize + Len(inbox[r]) <= AnswerSize(r)
        /\ \A k \in 1..Len(inbox[r]) :
             inbox[r][k] = <<number[r], 0 + PrefixSize + k>>
    BY <1>0, <1>2, <1>3 DEF PartsFit
  <2>3. 0 + PrefixSize = PrefixSize
    BY <1>0
  <2>4. QED
    BY <2>2, <2>3
<1>5. PartsFit(r)'
  <2>1. Len(data'[r]) = 0 /\ PrefixSize + 0 = PrefixSize
    BY <1>0, <1>1
  <2>2. QED
    BY <1>1, <1>3, <1>4, <2>1 DEF PartsFit
<1>6. Exchange(r)'
  BY <1>0, <1>1, <1>2, <1>5 DEF Exchange, Reading, BodySize
<1>7. ConnectedWhileServed(r)' /\ WastedSoFar(r)'
  BY <1>0, <1>1 DEF RendererInv, ConnectedWhileServed, WastedSoFar
<1>8. QED
  BY <1>6, <1>7 DEF RendererInv

\* After the body nothing of the answer is left.
LEMMA BodyReadStep ==
  ASSUME ConnectionInv, NEW r \in Renderers, BodyRead(r)
  PROVE  RendererInv(r)'
<1>0. /\ TypeOK /\ RendererInv(r) /\ number[r] \in Nat
      /\ data[r] \in Seq(Nat \X Nat) /\ inbox[r] \in Seq(Nat \X Nat)
      /\ BodySize(number[r]) \in Nat /\ PrefixSize \in Nat \ {0}
  BY RendererTyped
<1>1. /\ pc[r] = "body" /\ pc'[r] = "push" /\ Len(data[r]) >= want[r]
      /\ UNCHANGED <<conn, inbox, owed, number, wasted, data>>
  BY <1>0 DEF BodyRead, Go, Complete, TypeOK, renderVars, historyVars, clientVars
<1>2. /\ PartsFit(r) /\ owed[r] = <<>> /\ want[r] = BodySize(number[r])
      /\ Len(data[r]) <= want[r]
  BY <1>0, <1>1 DEF RendererInv, Exchange, Reading
<1>3. Len(data[r]) = BodySize(number[r])
  BY <1>0, <1>1, <1>2
<1>4. /\ Skipped(r) = PrefixSize /\ Skipped(r)' = PrefixSize
      /\ AnswerSize(r)' = AnswerSize(r)
      /\ AnswerSize(r) = PrefixSize + BodySize(number[r])
  BY <1>1 DEF Skipped, AnswerSize, BodySize
<1>5. inbox[r] = <<>>
  <2>1. PrefixSize + Len(data[r]) + Len(inbox[r]) <= PrefixSize + BodySize(number[r])
    BY <1>2, <1>4 DEF PartsFit
  <2>2. Len(inbox[r]) = 0
    BY <1>0, <1>3, <2>1
  <2>3. QED
    BY <1>0, <2>2
<1>6. PartsFit(r)'
  BY <1>1, <1>2, <1>4 DEF PartsFit
<1>7. Exchange(r)'
  BY <1>1, <1>2, <1>3, <1>5, <1>6 DEF Exchange, Reading, Quiet, BodySize
<1>8. ConnectedWhileServed(r)' /\ WastedSoFar(r)'
  BY <1>0, <1>1 DEF RendererInv, ConnectedWhileServed, WastedSoFar
<1>9. QED
  BY <1>7, <1>8 DEF RendererInv

\* The end of an iteration leaves nothing behind.
LEMMA IterationEnds ==
  ASSUME ConnectionInv, NEW r \in Renderers, ReadFails(r) \/ FinishFrame(r)
  PROVE  RendererInv(r)'
<1>0. TypeOK /\ RendererInv(r) /\ wasted[r] \in Nat
  BY DEF ConnectionInv, TypeOK
<1>1. pc'[r] = "top" /\ UNCHANGED <<conn, inbox, owed, wasted>>
  BY <1>0 DEF ReadFails, FinishFrame, Go, TypeOK, renderVars, historyVars
<1>2. Quiet(r) /\ pc[r] \in {"size", "body", "push"}
  <2>1. CASE ReadFails(r)
    <3>1. /\ pc[r] \in Reading
          /\ \/ conn[r] = "reset"
             \/ conn[r] \in {"closed", "refused"} /\ inbox[r] = <<>>
      BY <2>1 DEF ReadFails
    <3>2. QED
      BY <1>0, <3>1 DEF RendererInv, Exchange, Quiet, Reading
  <2>2. CASE FinishFrame(r)
    BY <1>0, <2>2 DEF FinishFrame, Go, RendererInv, Exchange, Reading
  <2>3. QED
    BY <2>1, <2>2
<1>3. QED
  BY <1>0, <1>1, <1>2
  DEF RendererInv, ConnectedWhileServed, Exchange, Quiet, WastedSoFar, Reading

\* An answer is put behind an empty inbox.
LEMMA AnswerStep ==
  ASSUME ConnectionInv, NEW r \in Renderers, Answer(r)
  PROVE  RendererInv(r)'
<1>0. TypeOK /\ RendererInv(r) /\ number[r] \in Nat
  BY SMTT(30) DEF ConnectionInv, TypeOK
<1>1. /\ conn[r] = "open" /\ owed[r] # <<>>
      /\ inbox'[r] = inbox[r] \o Message(Head(owed[r]))
      /\ owed'[r] = Tail(owed[r])
      /\ UNCHANGED <<conn, pc, data, want, number, wasted>>
  BY <1>0 DEF Answer, TypeOK, clientVars, historyVars
<1>2. /\ owed[r] = <<number[r]>> /\ pc[r] = "size" /\ data[r] = <<>>
      /\ inbox[r] = <<>> /\ want[r] = PrefixSize
  BY <1>0, <1>1 DEF RendererInv, Exchange, Quiet
<1>3. PICK m \in Seq(Nat \X Nat) : m = Message(number[r])
  BY <1>0, MessageType
<1>4. inbox'[r] = m /\ owed'[r] = <<>>
  BY <1>0, <1>1, <1>2, <1>3
<1>5. /\ Len(m) = PrefixSize + BodySize(number[r])
      /\ \A k \in 1..Len(m) : m[k] = <<number[r], k>>
  BY <1>0, <1>3, MessageType
<1>6. /\ Skipped(r)' = 0 /\ AnswerSize(r)' = PrefixSize + BodySize(number[r])
      /\ data'[r] = <<>>
  BY <1>1, <1>2 DEF Skipped, AnswerSize, BodySize
<1>7. PartsFit(r)'
  <2>1. Len(data'[r]) = 0 /\ Len(inbox'[r]) = Len(m) /\ Len(m) \in Nat
    BY <1>4, <1>6
  <2>2. /\ 0 + 0 + Len(m) = Len(m)
        /\ \A k \in 1..Len(m) : 0 + 0 + k = k
    BY <2>1
  <2>3. \A k \in 1..Len(m) : inbox'[r][k] = <<number'[r], 0 + 0 + k>>
    BY <1>1, <1>4, <1>5, <2>2
  <2>4. 0 + 0 + Len(m) <= PrefixSize + BodySize(number[r])
    BY <1>5, <2>1
  <2>5. QED
    BY <1>6, <2>1, <2>3, <2>4 DEF PartsFit
<1>8. Exchange(r)'
  BY <1>1, <1>2, <1>4, <1>7, ConnectionAssumption DEF Exchange, Reading
<1>9. ConnectedWhileServed(r)' /\ WastedSoFar(r)'
  BY <1>0, <1>1 DEF RendererInv, ConnectedWhileServed, WastedSoFar
<1>10. QED
  BY <1>8, <1>9 DEF RendererInv

\* A renderer that goes away takes the end of its answer with it.
LEMMA GoAwayStep ==
  ASSUME ConnectionInv, NEW r \in Renderers, GoAway(r)
  PROVE  RendererInv(r)'
<1>0. /\ TypeOK /\ RendererInv(r) /\ number[r] \in Nat /\ wasted[r] \in Nat
      /\ inbox[r] \in Seq(Nat \X Nat) /\ data[r] \in Seq(Nat \X Nat)
  BY DEF ConnectionInv, TypeOK
<1>1. /\ owed'[r] = <<>> /\ UNCHANGED <<pc, data, want, number, wasted>>
  BY <1>0 DEF GoAway, TypeOK, clientVars, historyVars
<1>2. \/ conn'[r] = conn[r] /\ inbox'[r] = inbox[r]
      \/ /\ conn[r] = "open" /\ conn'[r] \in {"closed", "reset"}
         /\ \E n \in 0..Len(inbox[r]) : inbox'[r] = SubSeq(inbox[r], 1, n)
         /\ conn'[r] = "reset" => inbox'[r] = <<>>
  <2>1. CASE UNCHANGED <<conn, inbox>>
    BY <2>1
  <2>2. CASE /\ conn[r] = "open" /\ conn' = [conn EXCEPT ![r] = "reset"]
             /\ inbox' = [inbox EXCEPT ![r] = <<>>]
    <3>1. conn'[r] = "reset" /\ inbox'[r] = <<>>
      BY <1>0, <2>2 DEF TypeOK
    <3>2. 0 \in 0..Len(inbox[r]) /\ SubSeq(inbox[r], 1, 0) = <<>>
      BY <1>0
    <3>3. QED
      BY <2>2, <3>1, <3>2
  <2>3. ASSUME NEW n \in 0..Len(inbox[r]), conn[r] = "open",
               conn' = [conn EXCEPT ![r] = "closed"],
               inbox' = [inbox EXCEPT ![r] = SubSeq(@, 1, n)]
        PROVE  /\ conn'[r] = "closed"
               /\ inbox'[r] = SubSeq(inbox[r], 1, n)
    BY <1>0, <2>3 DEF TypeOK
  <2>4. QED
    BY <2>1, <2>2, <2>3 DEF GoAway
<1>3. ConnectedWhileServed(r)' /\ WastedSoFar(r)'
  BY <1>0, <1>1, <1>2 DEF RendererInv, ConnectedWhileServed, WastedSoFar
<1>4. PICK n \in 0..Len(inbox[r]) : inbox'[r] = SubSeq(inbox[r], 1, n)
  <2>1. Len(inbox[r]) \in 0..Len(inbox[r])
        /\ SubSeq(inbox[r], 1, Len(inbox[r])) = inbox[r]
    BY <1>0
  <2>2. QED
    BY <1>2, <2>1
<1>5. /\ Len(inbox'[r]) = n /\ n <= Len(inbox[r]) /\ n \in Nat
      /\ \A k \in 1..n : inbox'[r][k] = inbox[r][k]
      /\ inbox[r] = <<>> => inbox'[r] = <<>>
  BY <1>0, <1>4, RestIsTyped
<1>6. ASSUME PartsFit(r)
      PROVE  PartsFit(r)'
  <2>1. Skipped(r)' = Skipped(r) /\ AnswerSize(r)' = AnswerSize(r)
        /\ Skipped(r) \in Nat /\ AnswerSize(r) \in Nat
        /\ Len(data[r]) \in Nat /\ Len(inbox[r]) \in Nat
    <3>1. Skipped(r)' = Skipped(r) /\ AnswerSize(r)' = AnswerSize(r)
      BY <1>1 DEF Skipped, AnswerSize, BodySize
    <3>2. QED
      BY <3>1, RendererTyped
  <2>2. Skipped(r) + Len(data[r]) + n <= AnswerSize(r)
    BY <1>5, <1>6, <2>1 DEF PartsFit
  <2>3. \A k \in 1..n :
          inbox'[r][k] = <<number[r], Skipped(r) + Len(data[r]) + k>>
    <3>1. \A k \in 1..n : k \in 1..Len(inbox[r])
      BY <1>5, <2>1
    <3>2. \A k \in 1..Len(inbox[r]) :
            inbox[r][k] = <<number[r], Skipped(r) + Len(data[r]) + k>>
      BY <1>6 DEF PartsFit
    <3>3. QED
      BY <1>5, <3>1, <3>2
  <2>4. QED
    BY <1>1, <1>5, <1>6, <2>1, <2>2, <2>3 DEF PartsFit
<1>7. conn'[r] = "reset" => conn[r] = "reset" \/ inbox'[r] = <<>>
  BY <1>2
<1>8. Exchange(r)'
  BY <1>0, <1>1, <1>5, <1>6, <1>7
  DEF RendererInv, Exchange, Quiet, Reading, BodySize
<1>9. QED
  BY <1>3, <1>8 DEF RendererInv

\* A reset takes what was not read with it.
LEMMA ResetStep ==
  ASSUME ConnectionInv, NEW r \in Renderers, ResetArrives(r)
  PROVE  RendererInv(r)'
<1>0. /\ TypeOK /\ RendererInv(r) /\ number[r] \in Nat /\ wasted[r] \in Nat
      /\ inbox[r] \in Seq(Nat \X Nat) /\ data[r] \in Seq(Nat \X Nat)
  BY DEF ConnectionInv, TypeOK
<1>1. /\ conn[r] = "refused" /\ conn'[r] = "reset" /\ inbox'[r] = <<>>
      /\ UNCHANGED <<owed, pc, data, want, number, wasted>>
  BY <1>0 DEF ResetArrives, TypeOK, clientVars, historyVars
<1>2. ConnectedWhileServed(r)' /\ WastedSoFar(r)'
  BY <1>0, <1>1 DEF RendererInv, ConnectedWhileServed, WastedSoFar
<1>3. ASSUME PartsFit(r)
      PROVE  PartsFit(r)'
  <2>1. Skipped(r)' = Skipped(r) /\ AnswerSize(r)' = AnswerSize(r)
    BY <1>1 DEF Skipped, AnswerSize, BodySize
  <2>2. /\ Skipped(r) \in Nat /\ AnswerSize(r) \in Nat
        /\ Len(data[r]) \in Nat /\ Len(inbox[r]) \in Nat
    BY <1>0, RendererTyped
  <2>3. Skipped(r) + Len(data[r]) + 0 <= AnswerSize(r)
    BY <1>3, <2>2 DEF PartsFit
  <2>4. Len(inbox'[r]) = 0
    BY <1>1
  <2>5. QED
    BY <1>1, <1>3, <2>1, <2>3, <2>4 DEF PartsFit
<1>4. owed[r] = <<>>
  BY <1>0, <1>1 DEF RendererInv, Exchange, Quiet
<1>5. Exchange(r)'
  BY <1>0, <1>1, <1>3, <1>4
  DEF RendererInv, Exchange, Quiet, Reading, BodySize
<1>6. QED
  BY <1>2, <1>5 DEF RendererInv

-----------------------------------------------------------------------------
(* Theorems *)

\* Every step keeps the invariant.
LEMMA InvStep == ConnectionInv /\ [Next]_vars => ConnectionInv'
<1> SUFFICES ASSUME ConnectionInv, [Next]_vars
             PROVE  ConnectionInv'
  OBVIOUS
<1> USE DEF renderVars, clientVars, historyVars
<1>0. TypeOK /\ OnlyFailedConnectsLeak
  BY DEF ConnectionInv
<1>1. OnlyFailedConnectsLeak'
  BY <1>0, LeakStep
<1>2. ASSUME NEW r \in Renderers,
             Thread(r) \/ Answer(r) \/ GoAway(r) \/ ComeUp(r) \/ ResetArrives(r)
      PROVE  TypeOK' /\ \A q \in Renderers : RendererInv(q)'
  <2>1. TypeOK'
    BY <1>2, ThreadTypes, RendererTypes
  <2>2. ASSUME NEW q \in Renderers, q # r
        PROVE  RendererInv(q)'
    <3>1. Untouched(q) /\ RendererInv(q)
      BY <1>0, <1>2, <2>2, OnlyOneMoves DEF ConnectionInv
    <3>2. QED
      BY <3>1, OtherRenderer DEF Untouched
  <2>3. ASSUME ComeUp(r)
        PROVE  RendererInv(r)'
    <3>1. RendererInv(r)
      BY DEF ConnectionInv
    <3>2. QED
      BY <2>3, <3>1, OtherRenderer DEF ComeUp
  <2>4. RendererInv(r)'
    BY <1>2, <2>3, ManagerStep, RequestStep, ReadStep, SizeReadStep,
       BodyReadStep, IterationEnds, AnswerStep, GoAwayStep, ResetStep
    DEF Thread
  <2>5. QED
    BY <2>1, <2>2, <2>4
<1>3. CASE RequestShutdown \/ UNCHANGED vars
  <2>1. UNCHANGED <<up, conn, owed, inbox, failures, fds, pc, error_times, number,
                    data, want, next_number, unconnected, wasted>>
        /\ shutdown_requested' \in BOOLEAN
    BY <1>0, <1>3 DEF RequestShutdown, vars, TypeOK
  <2>2. TypeOK'
    BY <1>0, <2>1 DEF TypeOK
  <2>3. \A q \in Renderers : RendererInv(q)'
    BY <2>1, OtherRenderer DEF ConnectionInv
  <2>4. QED
    BY <1>1, <2>2, <2>3 DEF ConnectionInv
<1>4. QED
  BY <1>1, <1>2, <1>3 DEF ConnectionInv, Next, Terminated

\* The invariant holds before any renderer is connected.
LEMMA InitInv == Init => ConnectionInv
<1> SUFFICES ASSUME Init
             PROVE  ConnectionInv
  OBVIOUS
<1>1. TypeOK
  <2>1. /\ conn \in [Renderers -> {"none", "open", "closed", "refused", "reset"}]
        /\ owed \in [Renderers -> Seq(Nat)]
        /\ inbox \in [Renderers -> Seq(Nat \X Nat)]
        /\ data \in [Renderers -> Seq(Nat \X Nat)]
        /\ pc \in [Renderers -> PC]
    BY DEF Init, PC, Manager
  <2>2. /\ error_times \in [Renderers -> 0..ErrorLimit]
        /\ number \in [Renderers -> 0..NumberSpace - 1]
        /\ want \in [Renderers -> Nat] /\ wasted \in [Renderers -> Nat]
        /\ failures \in 0..MaxFailures /\ fds \in 0..MaxFds
        /\ next_number \in 0..NumberSpace - 1 /\ unconnected \in Nat
    BY ConnectionAssumption DEF Init
  <2>3. shutdown_requested \in BOOLEAN /\ up \in [Renderers -> BOOLEAN]
    BY DEF Init
  <2>4. QED
    BY <2>1, <2>2, <2>3 DEF TypeOK
<1>2. OnlyFailedConnectsLeak
  <2>1. {r \in Renderers : pc[r] \notin {"socket", "exited"}} = {}
    BY DEF Init
  <2>2. fds = 0 /\ unconnected = 0
    BY DEF Init
  <2>3. QED
    BY <2>1, <2>2, FS_EmptySet DEF OnlyFailedConnectsLeak
<1>3. ASSUME NEW r \in Renderers
      PROVE  RendererInv(r)
  BY DEF Init, RendererInv, ConnectedWhileServed, Exchange, Quiet, WastedSoFar,
         Reading
<1>4. QED
  BY <1>1, <1>2, <1>3 DEF ConnectionInv

\* The inductive invariant holds in every reachable state.
LEMMA InvAlways == Spec => []ConnectionInv
BY InitInv, InvStep, PTL DEF Spec

\* The variables have their types: the counter of failed connects stays within
\* its limit, and no descriptor is closed that is not open (socket_manage_thread).
THEOREM TypeCorrect == Spec => []TypeOK
BY InvAlways, PTL DEF ConnectionInv

\* However read() cuts up the bytes of an answer, whatever the sizes of prefix
\* and body, and whenever renderers go away and come back, the client ends up
\* with exactly the body of the answer to its last request
\* (socket_receive_blocking).
THEOREM AnswersAreWhole == Spec => []AnswerIsWhole
<1>1. ConnectionInv => AnswerIsWhole
  <2> SUFFICES ASSUME ConnectionInv, NEW r \in Renderers, pc[r] = "push"
               PROVE  data[r] = SubSeq(Message(number[r]), PrefixSize + 1,
                                       PrefixSize + BodySize(number[r]))
    BY DEF AnswerIsWhole
  <2>1. /\ number[r] \in Nat /\ data[r] \in Seq(Nat \X Nat)
        /\ PrefixSize \in Nat /\ BodySize(number[r]) \in Nat
    BY BodySizeType, ConnectionAssumption DEF ConnectionInv, TypeOK
  <2>2. PartsFit(r) /\ Len(data[r]) = BodySize(number[r])
    BY DEF ConnectionInv, RendererInv, Exchange
  <2>3. \A k \in 1..Len(data[r]) : data[r][k] = <<number[r], PrefixSize + k>>
    BY <2>2 DEF PartsFit, Skipped
  <2>4. PICK m \in Seq(Nat \X Nat) : m = Message(number[r])
    BY <2>1, MessageType
  <2>5. /\ Len(m) = PrefixSize + BodySize(number[r])
        /\ \A k \in 1..Len(m) : m[k] = <<number[r], k>>
    BY <2>1, <2>4, MessageType
  <2>6. PICK body \in Seq(Nat \X Nat) : body = SubSeq(m, PrefixSize + 1, Len(m))
    <3>1. PrefixSize \in 0..Len(m)
      BY <2>1, <2>5
    <3>2. QED
      BY <3>1, RestIsTyped
  <2>7. /\ Len(body) = BodySize(number[r])
        /\ \A k \in 1..BodySize(number[r]) : body[k] = m[PrefixSize + k]
    <3>1. PrefixSize \in 0..Len(m) /\ Len(m) - PrefixSize = BodySize(number[r])
      BY <2>1, <2>5
    <3>2. QED
      <4>1. /\ Len(SubSeq(m, PrefixSize + 1, Len(m))) = Len(m) - PrefixSize
            /\ \A k \in 1..Len(m) - PrefixSize :
                 SubSeq(m, PrefixSize + 1, Len(m))[k] = m[PrefixSize + k]
        BY <3>1, RestIsTyped
      <4>2. QED
        BY <2>6, <3>1, <4>1
  <2>8. \A k \in 1..BodySize(number[r]) : data[r][k] = body[k]
    <3>1. \A k \in 1..BodySize(number[r]) : PrefixSize + k \in 1..Len(m)
      BY <2>1, <2>5
    <3>2. QED
      BY <2>2, <2>3, <2>5, <2>7, <3>1
  <2>9. data[r] = body
    BY <2>1, <2>2, <2>7, <2>8
  <2>10. QED
    BY <2>4, <2>5, <2>6, <2>9
<1>2. QED
  BY <1>1, InvAlways, PTL

\* From the moment a reset has arrived the connection costs at most one more
\* frame number, wherever its client was (socket_client_thread).
THEOREM ResetsCostOne == Spec => []ResetCostsOne
<1>1. ConnectionInv => ResetCostsOne
  BY DEF ConnectionInv, RendererInv, WastedSoFar, ResetCostsOne
<1>2. QED
  BY <1>1, InvAlways, PTL

\* The descriptors that stay open are exactly the sockets of failed connects,
\* for any number of renderers (socket_manage_thread).
THEOREM DescriptorsAreAccounted == Spec => []OnlyFailedConnectsLeak
BY InvAlways, PTL DEF ConnectionInv
=============================================================================
