---------------------------- MODULE FrameMonitors ----------------------------
(***************************************************************************)
(* FrameQueue and FrameMap of a view with their mutexes and condition      *)
(* variables: what FramePipeline takes as the single steps push, pop,      *)
(* insert, get_delete and LockTimeout.  The threads are those of the view: *)
(* client threads push, the process thread pops and inserts in turn, the   *)
(* sender gets.                                                            *)
(*                                                                         *)
(* Everything a thread does while it holds a mutex is one step.  wait_for  *)
(* with a predicate tests it, sleeps, and tests it again on each wake-up;  *)
(* after the timeout it tests it a last time.  A thread is                 *)
(*   idle     outside                                                      *)
(*   active   before the mutex: it has just called, or was woken           *)
(*   expired  before the mutex: its time is up                             *)
(*   waiting  asleep on the condition variable of its call                 *)
(* Of the queue only the number of frames is kept, of the map the indices, *)
(* because a getter waits for one of them.                                 *)
(***************************************************************************)
EXTENDS Integers, FiniteSets

CONSTANTS Pushers,                      \* the socket_client_threads
          Processor,                    \* the process_frame_thread
          Senders,                      \* the send_frame_thread
          kFrameQueueMaxSize,
          kFrameMapMaxSize,
          kFrameMapDropFramesInterval,
          MaxIndex                      \* bound: greatest index of a frame

ASSUME MonitorAssumption ==
  /\ IsFiniteSet(Pushers) /\ IsFiniteSet(Senders)
  /\ Processor \notin Pushers \cup Senders
  /\ Pushers \cap Senders = {}
  /\ kFrameQueueMaxSize \in Nat \ {0}
  /\ kFrameMapMaxSize \in Nat \ {0}
  /\ kFrameMapDropFramesInterval \in Nat \ {0}
  /\ MaxIndex \in Nat

VARIABLES size,    \* FrameQueue: m_queue.size()
          m_map,   \* FrameMap: the indices in m_map
          pc,      \* where each thread is
          call,    \* what it calls: push, pop, insert or get_delete
          index    \* the argument of insert or get_delete

vars == <<size, m_map, pc, call, index>>

Threads == Pushers \cup {Processor} \cup Senders
Indices == 0..MaxIndex

Init == /\ size = 0
        /\ m_map = {}
        /\ pc = [t \in Threads |-> "idle"]
        /\ call = [t \in Threads |-> CASE t \in Pushers -> "push"
                                       [] t = Processor -> "pop"
                                       [] t \in Senders -> "get_delete"]
        /\ index = [t \in Threads |-> 0]

\* The threads asleep on m_pusher, m_popper, m_inserter or m_getter.
Waiting(c) == {t \in Threads : pc[t] = "waiting" /\ call[t] = c}
Awake(c) == {t \in Threads : pc[t] \in {"active", "expired"} /\ call[t] = c}

\* The predicate of the thread's wait_for.
Ready(t) == CASE call[t] = "push" -> size < kFrameQueueMaxSize
              [] call[t] = "pop" -> size > 0
              [] call[t] = "insert" -> Cardinality(m_map) < kFrameMapMaxSize
              [] call[t] = "get_delete" -> index[t] \in m_map

\* No frame is inserted whose index is in the map: a view's indices are distinct.
Call(t) ==
  /\ pc[t] = "idle"
  /\ pc' = [pc EXCEPT ![t] = "active"]
  /\ \E i \in CASE call[t] = "insert" -> Indices \ m_map
                [] call[t] = "get_delete" -> Indices
                [] OTHER -> {0} :
       index' = [index EXCEPT ![t] = i]
  /\ UNCHANGED <<size, m_map, call>>

\* notify_one: whom it may wake.
NotifyOne(c) == IF Waiting(c) = {} THEN {{}} ELSE {{t} : t \in Waiting(c)}

\* Thread t returns from its call c and the threads woken are awake.
Return(t, c, woken) ==
  /\ t \in Awake(c)
  /\ pc' = [u \in Threads |-> IF u = t THEN "idle"
                              ELSE IF u \in woken THEN "active" ELSE pc[u]]

-----------------------------------------------------------------------------
(* FrameQueue *)

\* Mutant of Push: another pusher is notified.
PushNotifiesPusher(t) ==
  /\ size < kFrameQueueMaxSize
  /\ size' = size + 1
  /\ \E woken \in NotifyOne("push") : Return(t, "push", woken)
  /\ UNCHANGED <<m_map, call, index>>

Push(t) ==
  /\ size < kFrameQueueMaxSize
  /\ size' = size + 1
  /\ \E woken \in NotifyOne("pop") : Return(t, "push", woken)
  /\ UNCHANGED <<m_map, call, index>>

\* Mutant of Pop: wait_for without its predicate.
PopUnchecked(t) ==
  /\ size' = size - 1
  /\ \E woken \in NotifyOne("push") : Return(t, "pop", woken)
  /\ call' = [call EXCEPT ![t] = "insert"]
  /\ UNCHANGED <<m_map, index>>

\* The process thread inserts next what it has popped.
Pop(t) ==
  /\ size > 0
  /\ size' = size - 1
  /\ \E woken \in NotifyOne("push") : Return(t, "pop", woken)
  /\ call' = [call EXCEPT ![t] = "insert"]
  /\ UNCHANGED <<m_map, index>>

-----------------------------------------------------------------------------
(* FrameMap *)

\* notify_all
Insert(t) ==
  /\ Cardinality(m_map) < kFrameMapMaxSize
  /\ m_map' = m_map \cup {index[t]}
  /\ Return(t, "insert", Waiting("get_delete"))
  /\ call' = [call EXCEPT ![t] = "pop"]
  /\ UNCHANGED <<size, index>>

\* What erase and, at the interval, erase_if leave.
Remaining(i) ==
  {j \in m_map \ {i} : i % kFrameMapDropFramesInterval = 0 => j >= i}

\* Mutant of GetDelete: the inserter is notified only if frames were dropped.
GetDeleteNotifiesLater(t) ==
  /\ index[t] \in m_map
  /\ m_map' = Remaining(index[t])
  /\ \E woken \in IF m_map' = m_map \ {index[t]} THEN {{}} ELSE NotifyOne("insert") :
       Return(t, "get_delete", woken)
  /\ UNCHANGED <<size, call, index>>

GetDelete(t) ==
  /\ index[t] \in m_map
  /\ m_map' = Remaining(index[t])
  /\ \E woken \in NotifyOne("insert") : Return(t, "get_delete", woken)
  /\ UNCHANGED <<size, call, index>>

-----------------------------------------------------------------------------
(* wait_for when the predicate does not hold *)

Sleep(t) == /\ pc[t] = "active" /\ ~Ready(t)
            /\ pc' = [pc EXCEPT ![t] = "waiting"]
            /\ UNCHANGED <<size, m_map, call, index>>

\* LockTimeout; the process thread drops the frame it could not insert.
GiveUp(t) == /\ pc[t] = "expired" /\ ~Ready(t)
             /\ pc' = [pc EXCEPT ![t] = "idle"]
             /\ call' = [call EXCEPT ![t] = IF t = Processor THEN "pop" ELSE @]
             /\ UNCHANGED <<size, m_map, index>>

Expire(t) == /\ pc[t] = "waiting"
             /\ pc' = [pc EXCEPT ![t] = "expired"]
             /\ UNCHANGED <<size, m_map, call, index>>

\* A condition variable may wake a thread nobody notified.
WakeSpuriously(t) == /\ pc[t] = "waiting"
                     /\ pc' = [pc EXCEPT ![t] = "active"]
                     /\ UNCHANGED <<size, m_map, call, index>>

Enter(t) == \/ Push(t) \/ Pop(t) \/ Insert(t) \/ GetDelete(t)
            \/ Sleep(t) \/ GiveUp(t)

Next == \E t \in Threads : Call(t) \/ Enter(t) \/ Expire(t) \/ WakeSpuriously(t)

Spec == Init /\ [][Next]_vars

\* A thread that is awake gets the mutex in the end.  Neither timeouts nor
\* spurious wake-ups can be relied upon, nor that anybody calls again.
FairSpec == Spec /\ \A t \in Threads : WF_vars(Enter(t))

-----------------------------------------------------------------------------
(* Properties *)

\* The types, and that neither container is overfull or gives what it has not.
TypeOK == /\ size \in 0..kFrameQueueMaxSize
          /\ m_map \subseteq Indices
          /\ Cardinality(m_map) <= kFrameMapMaxSize
          /\ pc \in [Threads -> {"idle", "active", "expired", "waiting"}]
          /\ call \in [Threads -> {"push", "pop", "insert", "get_delete"}]
          /\ index \in [Threads -> Indices]

\* No wake-up is missed.  While a client sleeps on m_pusher at least as many are
\* awake as there is room; nobody sleeps on another condition variable whose
\* predicate holds: not the process thread, also after a clean-up that made room
\* for several frames, nor a getter, whichever insert brought its frame.
NoMissedWakeup ==
  /\ Waiting("push") # {} =>
       kFrameQueueMaxSize - size <= Cardinality(Awake("push"))
  /\ \A c \in {"pop", "insert", "get_delete"} : \A t \in Waiting(c) : ~Ready(t)

\* Without any help from the timeouts: a call whose predicate holds returns, or
\* has to wait again because another thread was faster.
ReadyReturns ==
  \A t \in Threads : (pc[t] # "idle" /\ Ready(t)) ~> (pc[t] = "idle" \/ ~Ready(t))
=============================================================================
