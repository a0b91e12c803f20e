------------------------- MODULE FrameMonitorsProofs -------------------------
(***************************************************************************)
(* What is proved of FrameMonitors for any number of client threads and    *)
(* senders and any sizes of the queue and the map.                         *)
(***************************************************************************)
EXTENDS FrameMonitors, FiniteSetTheorems, TLAPS

\* Each thread makes the calls of its kind only, so nobody but the process
\* thread ever sleeps on m_popper or m_inserter.
Roles == /\ \A t \in Pushers : call[t] = "push"
         /\ call[Processor] \in {"pop", "insert"}
         /\ \A t \in Senders : call[t] = "get_delete"

\* The two parts of NoMissedWakeup: on m_pusher, and on the others.
EnoughPushersAwake ==
  Waiting("push") # {} => kFrameQueueMaxSize - size <= Cardinality(Awake("push"))

NobodySleepsReady ==
  \A c \in {"pop", "insert", "get_delete"} : \A t \in Waiting(c) : ~Ready(t)

\* The inductive invariant.
MonitorInv == TypeOK /\ Roles /\ EnoughPushersAwake /\ NobodySleepsReady

-----------------------------------------------------------------------------
(* Cardinalities *)

\* The map is a finite set of indices.
LEMMA MapIsFinite ==
  ASSUME TypeOK
  PROVE  IsFiniteSet(m_map) /\ Cardinality(m_map) \in Nat
<1>1. IsFiniteSet(Indices)
  BY MonitorAssumption, FS_Interval DEF Indices
<1>2. m_map \in SUBSET Indices
  BY DEF TypeOK
<1>3. QED
  BY <1>1, <1>2, FS_Subset, FS_CardinalityType

\* There are finitely many threads, so those awake in a call can be counted.
LEMMA ThreadsAreFinite ==
  IsFiniteSet(Threads)
<1>1. IsFiniteSet(Pushers \cup {Processor})
  BY MonitorAssumption, FS_AddElement
<1>2. IsFiniteSet((Pushers \cup {Processor}) \cup Senders)
  BY <1>1, MonitorAssumption, FS_Union
<1>3. QED
  BY <1>2 DEF Threads

\* The same, for a set of threads given by a predicate.
LEMMA CountThreads ==
  ASSUME NEW A \in SUBSET Threads
  PROVE  IsFiniteSet(A) /\ Cardinality(A) \in Nat
BY ThreadsAreFinite, FS_Subset, FS_CardinalityType

\* One element more makes a set at most one larger.
LEMMA OneMore ==
  ASSUME NEW A, IsFiniteSet(A), NEW x
  PROVE  /\ Cardinality(A \cup {x}) \in Nat
         /\ Cardinality(A \cup {x}) <= Cardinality(A) + 1
<1>1. Cardinality(A) \in Nat
  BY FS_CardinalityType
<1>2. /\ IsFiniteSet(A \cup {x})
      /\ Cardinality(A \cup {x}) = IF x \in A THEN Cardinality(A)
                                              ELSE Cardinality(A) + 1
  BY FS_AddElement
<1>3. QED
  BY <1>1, <1>2

\* What get_delete leaves was in the map.
LEMMA RemainingShrinks ==
  ASSUME TypeOK, NEW i
  PROVE  /\ Remaining(i) \subseteq m_map
         /\ Cardinality(Remaining(i)) <= Cardinality(m_map)
<1>1. Remaining(i) \in SUBSET m_map
  BY DEF Remaining
<1>2. QED
  BY <1>1, MapIsFinite, FS_Subset

-----------------------------------------------------------------------------
(* Type correctness *)

\* The containers are empty and every thread is outside.
LEMMA InitTypeOK == Init => TypeOK /\ Roles
<1> SUFFICES ASSUME Init PROVE TypeOK /\ Roles
  OBVIOUS
<1>1. Cardinality(m_map) = 0 /\ m_map \subseteq Indices
  BY FS_EmptySet DEF Init
<1>2. call \in [Threads -> {"push", "pop", "insert", "get_delete"}] /\ Roles
  BY MonitorAssumption DEF Init, Threads, Roles
<1>3. 0 \in Indices
  BY MonitorAssumption DEF Indices
<1>4. /\ size \in 0..kFrameQueueMaxSize
      /\ pc \in [Threads -> {"idle", "active", "expired", "waiting"}]
      /\ index \in [Threads -> Indices]
  BY <1>3, MonitorAssumption DEF Init
<1>5. QED
  BY <1>1, <1>2, <1>4, MonitorAssumption DEF TypeOK

\* push keeps the limit of the queue, pop does not take from an empty one,
\* insert keeps the limit of the map, and each thread goes on with the calls of
\* its kind.
LEMMA NextTypeOK ==
  ASSUME TypeOK, Roles, [Next]_vars
  PROVE  TypeOK' /\ Roles'
<1> USE DEF TypeOK, Roles
<1>1. CASE UNCHANGED vars
  BY <1>1 DEF vars
<1>2. ASSUME NEW t \in Threads, Call(t) PROVE TypeOK' /\ Roles'
  <2>1. PICK i \in CASE call[t] = "insert" -> Indices \ m_map
                     [] call[t] = "get_delete" -> Indices
                     [] OTHER -> {0} :
               index' = [index EXCEPT ![t] = i]
    BY <1>2 DEF Call
  <2>2. 0 \in Indices
    BY MonitorAssumption DEF Indices
  <2>3. i \in Indices
    BY <2>2
  <2>4. QED
    BY <1>2, <2>1, <2>3 DEF Call
<1>3. ASSUME NEW t \in Threads, Push(t) PROVE TypeOK' /\ Roles'
  BY <1>3, MonitorAssumption DEF Push, Return
<1>4. ASSUME NEW t \in Threads, Pop(t) PROVE TypeOK' /\ Roles'
  <2>1. t = Processor
    BY <1>4 DEF Pop, Return, Awake, Threads
  <2>2. size' \in 0..kFrameQueueMaxSize
    BY <1>4, MonitorAssumption DEF Pop
  <2>3. Roles'
    BY <1>4, <2>1, MonitorAssumption DEF Pop, Threads
  <2>4. QED
    BY <1>4, <2>2, <2>3 DEF Pop, Return
<1>5. ASSUME NEW t \in Threads, Insert(t) PROVE TypeOK' /\ Roles'
  <2>1. t = Processor
    BY <1>5 DEF Insert, Return, Awake, Threads
  <2>2. Cardinality(m_map') <= kFrameMapMaxSize
    <3>1. /\ Cardinality(m_map \cup {index[t]}) <= Cardinality(m_map) + 1
          /\ Cardinality(m_map \cup {index[t]}) \in Nat
      BY MapIsFinite, OneMore
    <3>2. QED
      BY <1>5, <3>1, MapIsFinite, MonitorAssumption DEF Insert
  <2>3. Roles'
    BY <1>5, <2>1, MonitorAssumption DEF Insert, Threads
  <2>4. QED
    BY <1>5, <2>2, <2>3 DEF Insert, Return
<1>6. ASSUME NEW t \in Threads, GetDelete(t) PROVE TypeOK' /\ Roles'
  <2>1. /\ m_map' \subseteq m_map
        /\ Cardinality(m_map') <= Cardinality(m_map)
    BY <1>6, RemainingShrinks DEF GetDelete
  <2>2. Cardinality(m_map') \in Nat
    BY <2>1, MapIsFinite, FS_Subset, FS_CardinalityType
  <2>3. QED
    BY <1>6, <2>1, <2>2, MapIsFinite, MonitorAssumption DEF GetDelete, Return
<1>7. ASSUME NEW t \in Threads, Sleep(t) PROVE TypeOK' /\ Roles'
  BY <1>7 DEF Sleep
<1>8. ASSUME NEW t \in Threads, GiveUp(t) PROVE TypeOK' /\ Roles'
  BY <1>8, MonitorAssumption DEF GiveUp, Threads
<1>9. ASSUME NEW t \in Threads, Expire(t) PROVE TypeOK' /\ Roles'
  BY <1>9 DEF Expire
<1>10. ASSUME NEW t \in Threads, WakeSpuriously(t) PROVE TypeOK' /\ Roles'
  BY <1>10 DEF WakeSpuriously
<1>11. QED
  BY <1>1, <1>2, <1>3, <1>4, <1>5, <1>6, <1>7, <1>8, <1>9, <1>10 DEF Next, Enter

\* Neither container of a view is ever overfull or gives what it has not,
\* however many threads push, pop, insert and get.
THEOREM TypeCorrect == Spec => []TypeOK
<1>1. TypeOK /\ Roles /\ [Next]_vars => (TypeOK /\ Roles)'
  BY NextTypeOK
<1>2. QED
  BY InitTypeOK, <1>1, PTL DEF Spec
-----------------------------------------------------------------------------
(* No wake-up is missed on m_pusher *)

\* Who is awake can be counted, before and after a step.
LEMMA AwakeIsFinite ==
  /\ IsFiniteSet(Awake("push")) /\ Cardinality(Awake("push")) \in Nat
  /\ IsFiniteSet(Awake("push")') /\ Cardinality(Awake("push")') \in Nat
<1>1. Awake("push") \in SUBSET Threads /\ Awake("push")' \in SUBSET Threads
  BY DEF Awake
<1>2. QED
  BY <1>1, CountThreads

\* A step that makes no room, puts no pusher to sleep and lets none return
\* keeps it.
LEMMA MorePushersAwake ==
  ASSUME EnoughPushersAwake, TypeOK, TypeOK', size' >= size,
         Waiting("push")' \subseteq Waiting("push"),
         Awake("push") \subseteq Awake("push")'
  PROVE  EnoughPushersAwake'
<1>1. Cardinality(Awake("push")) <= Cardinality(Awake("push")')
  BY AwakeIsFinite, FS_Subset
<1>2. QED
  BY <1>1, AwakeIsFinite, MonitorAssumption DEF EnoughPushersAwake, TypeOK

\* While the queue is full pushers may sleep or give up.
LEMMA FullQueue ==
  ASSUME TypeOK', size' = kFrameQueueMaxSize
  PROVE  EnoughPushersAwake'
BY AwakeIsFinite, MonitorAssumption DEF EnoughPushersAwake, TypeOK

\* A push takes one pusher and one place.
LEMMA PushKeepsPushers ==
  ASSUME MonitorInv, TypeOK', NEW t \in Threads, Push(t)
  PROVE  EnoughPushersAwake'
<1> USE DEF MonitorInv
<1>1. PICK woken \in NotifyOne("pop") : Return(t, "push", woken)
  BY DEF Push
<1>2. t \in Awake("push")
  BY <1>1 DEF Return
<1>3. \A u \in woken : u \in Threads /\ call[u] = "pop"
  BY DEF NotifyOne, Waiting
<1>4. Waiting("push")' = Waiting("push")
  BY <1>1, <1>2, <1>3 DEF Push, Return, Waiting, Awake, TypeOK
<1>5. Awake("push")' = Awake("push") \ {t}
  BY <1>1, <1>2, <1>3 DEF Push, Return, Awake, TypeOK
<1>6. Cardinality(Awake("push")') = Cardinality(Awake("push")) - 1
  BY <1>2, <1>5, AwakeIsFinite, FS_RemoveElement
<1>7. size' = size + 1
  BY DEF Push
<1>8. QED
  BY <1>4, <1>6, <1>7, AwakeIsFinite, MonitorAssumption
  DEF EnoughPushersAwake, TypeOK

\* A pop makes room for one and wakes one pusher, if any sleeps.
LEMMA PopKeepsPushers ==
  ASSUME MonitorInv, TypeOK', NEW t \in Threads, Pop(t)
  PROVE  EnoughPushersAwake'
<1> USE DEF MonitorInv
<1>1. PICK woken \in NotifyOne("push") : Return(t, "pop", woken)
  BY DEF Pop
<1>2. call[t] = "pop" /\ call'[t] = "insert"
  BY <1>1 DEF Return, Awake, Pop, TypeOK
<1>3. \A u \in Threads \ {t} : call'[u] = call[u]
  BY DEF Pop, TypeOK
<1>4. CASE Waiting("push") = {}
  <2>1. woken = {}
    BY <1>1, <1>4 DEF NotifyOne
  <2>2. Waiting("push")' = {}
    BY <1>1, <1>2, <1>3, <1>4, <2>1 DEF Return, Waiting
  <2>3. QED
    BY <2>2 DEF EnoughPushersAwake
<1>5. CASE Waiting("push") # {}
  <2>1. PICK u \in Waiting("push") : woken = {u}
    BY <1>1, <1>5 DEF NotifyOne
  <2>2. /\ u \in Threads /\ u # t /\ u \notin Awake("push")
        /\ call[u] = "push" /\ pc[u] = "waiting"
    BY <1>2 DEF Waiting, Awake
  <2>3. Awake("push")' = Awake("push") \cup {u}
    BY <1>1, <1>2, <1>3, <2>1, <2>2 DEF Return, Awake
  <2>4. Cardinality(Awake("push")') = Cardinality(Awake("push")) + 1
    BY <2>2, <2>3, AwakeIsFinite, FS_AddElement
  <2>5. size' = size - 1
    BY DEF Pop
  <2>6. QED
    BY <1>5, <2>4, <2>5, AwakeIsFinite, MonitorAssumption
    DEF EnoughPushersAwake, TypeOK
<1>6. QED
  BY <1>4, <1>5

\* The other steps: nothing wakes or makes room, but a pusher sleeps or gives
\* up only when the queue is full.
LEMMA NextKeepsPushers ==
  ASSUME MonitorInv, TypeOK', [Next]_vars
  PROVE  EnoughPushersAwake'
<1> USE DEF MonitorInv
<1> DEFINE Quiet == /\ size' >= size
                    /\ Waiting("push")' \subseteq Waiting("push")
                    /\ Awake("push") \subseteq Awake("push")'
<1>1. Quiet => EnoughPushersAwake'
  BY MorePushersAwake
<1>2. size \in Int
  BY MonitorAssumption DEF TypeOK
<1>3. CASE UNCHANGED vars
  BY <1>1, <1>2, <1>3 DEF vars, Waiting, Awake
<1>4. ASSUME NEW t \in Threads, Call(t) PROVE EnoughPushersAwake'
  <2>1. Quiet
    BY <1>2, <1>4 DEF Call, Waiting, Awake, TypeOK
  <2>2. QED
    BY <1>1, <2>1
<1>5. ASSUME NEW t \in Threads, Insert(t) PROVE EnoughPushersAwake'
  <2>1. Quiet
    BY <1>2, <1>5 DEF Insert, Return, Waiting, Awake, TypeOK
  <2>2. QED
    BY <1>1, <2>1
<1>6. ASSUME NEW t \in Threads, GetDelete(t) PROVE EnoughPushersAwake'
  <2>1. PICK woken \in NotifyOne("insert") : Return(t, "get_delete", woken)
    BY <1>6 DEF GetDelete
  <2>2. Quiet
    BY <1>2, <1>6, <2>1 DEF GetDelete, Return, Waiting, Awake, TypeOK
  <2>3. QED
    BY <1>1, <2>2
<1>7. ASSUME NEW t \in Threads, Sleep(t) PROVE EnoughPushersAwake'
  <2>1. CASE call[t] = "push"
    <3>1. size' = kFrameQueueMaxSize
      BY <1>7, <2>1, MonitorAssumption DEF Sleep, Ready, TypeOK
    <3>2. QED
      BY <3>1, FullQueue
  <2>2. CASE call[t] # "push"
    <3>1. Quiet
      BY <1>2, <1>7, <2>2 DEF Sleep, Waiting, Awake, TypeOK
    <3>2. QED
      BY <1>1, <3>1
  <2>3. QED
    BY <2>1, <2>2
<1>8. ASSUME NEW t \in Threads, GiveUp(t) PROVE EnoughPushersAwake'
  <2>1. CASE call[t] = "push"
    <3>1. size' = kFrameQueueMaxSize
      BY <1>8, <2>1, MonitorAssumption DEF GiveUp, Ready, TypeOK
    <3>2. QED
      BY <3>1, FullQueue
  <2>2. CASE call[t] # "push"
    <3>1. Quiet
      BY <1>2, <1>8, <2>2 DEF GiveUp, Waiting, Awake, TypeOK
    <3>2. QED
      BY <1>1, <3>1
  <2>3. QED
    BY <2>1, <2>2
<1>9. ASSUME NEW t \in Threads, Expire(t) PROVE EnoughPushersAwake'
  <2>1. Quiet
    BY <1>2, <1>9 DEF Expire, Waiting, Awake, TypeOK
  <2>2. QED
    BY <1>1, <2>1
<1>10. ASSUME NEW t \in Threads, WakeSpuriously(t) PROVE EnoughPushersAwake'
  <2>1. Quiet
    BY <1>2, <1>10 DEF WakeSpuriously, Waiting, Awake, TypeOK
  <2>2. QED
    BY <1>1, <2>1
<1>11. QED
  BY <1>3, <1>4, <1>5, <1>6, <1>7, <1>8, <1>9, <1>10,
     PushKeepsPushers, PopKeepsPushers DEF Next, Enter

-----------------------------------------------------------------------------
(* No wake-up is missed on m_popper, m_inserter and m_getter *)

\* push wakes the process thread if it sleeps on m_popper.
LEMMA PushWakesPopper ==
  ASSUME MonitorInv, TypeOK', Roles', NEW t \in Threads, Push(t)
  PROVE  NobodySleepsReady'
<1> USE DEF MonitorInv
<1>1. PICK woken \in NotifyOne("pop") : Return(t, "push", woken)
  BY DEF Push
<1>2. SUFFICES ASSUME NEW c \in {"pop", "insert", "get_delete"},
                      NEW u \in Waiting(c)'
               PROVE  ~Ready(u)'
  BY DEF NobodySleepsReady
<1>3. u \in Threads /\ pc'[u] = "waiting" /\ call'[u] = c
  BY DEF Waiting
<1>4. pc[u] = "waiting" /\ call[u] = c /\ u \notin woken
  BY <1>1, <1>3 DEF Return, Push
<1>5. c # "pop"
  <2>1. SUFFICES ASSUME c = "pop" PROVE FALSE
    OBVIOUS
  <2>2. u = Processor /\ Waiting("pop") = {u}
    BY <1>3, <1>4, <2>1 DEF Waiting, Roles, Threads
  <2>3. woken = {u}
    BY <1>1, <2>2 DEF NotifyOne
  <2>4. QED
    BY <1>4, <2>3
<1>6. u \in Waiting(c) /\ ~Ready(u)
  BY <1>3, <1>4 DEF Waiting, NobodySleepsReady
<1>7. QED
  BY <1>3, <1>4, <1>5, <1>6 DEF Push, Ready

\* pop leaves less in the queue; nobody else waits for that.
LEMMA PopWakesNobodyLate ==
  ASSUME MonitorInv, TypeOK', Roles', NEW t \in Threads, Pop(t)
  PROVE  NobodySleepsReady'
<1> USE DEF MonitorInv
<1>1. PICK woken \in NotifyOne("push") : Return(t, "pop", woken)
  BY DEF Pop
<1>2. SUFFICES ASSUME NEW c \in {"pop", "insert", "get_delete"},
                      NEW u \in Waiting(c)'
               PROVE  ~Ready(u)'
  BY DEF NobodySleepsReady
<1>3. u \in Threads /\ pc'[u] = "waiting" /\ call'[u] = c /\ u # t
  BY <1>1 DEF Waiting, Return
<1>4. pc[u] = "waiting" /\ call[u] = c
  BY <1>1, <1>3 DEF Return, Pop, TypeOK
<1>5. u \in Waiting(c) /\ ~Ready(u)
  BY <1>3, <1>4 DEF Waiting, NobodySleepsReady
<1>6. size' = size - 1 /\ size \in Int
  BY MonitorAssumption DEF Pop, TypeOK
<1>7. QED
  BY <1>3, <1>4, <1>5, <1>6 DEF Pop, Ready

\* insert wakes every getter, whichever index it waits for.
LEMMA InsertWakesGetters ==
  ASSUME MonitorInv, TypeOK', Roles', NEW t \in Threads, Insert(t)
  PROVE  NobodySleepsReady'
<1> USE DEF MonitorInv
<1>1. t = Processor /\ pc'[t] = "idle"
  BY DEF Insert, Return, Awake, Roles, Threads
<1>2. SUFFICES ASSUME NEW c \in {"pop", "insert", "get_delete"},
                      NEW u \in Waiting(c)'
               PROVE  FALSE
  BY DEF NobodySleepsReady
<1>3. u \in Threads /\ pc'[u] = "waiting" /\ call'[u] = c /\ u # t
  BY <1>1 DEF Waiting
<1>4. pc[u] = "waiting" /\ call[u] = c /\ u \notin Waiting("get_delete")
  BY <1>3 DEF Insert, Return, TypeOK
<1>5. call[u] = "get_delete"
  BY <1>1, <1>2, <1>3, <1>4 DEF Roles, Threads
<1>6. QED
  BY <1>3, <1>4, <1>5 DEF Waiting

\* get_delete wakes the process thread if it sleeps on m_inserter, and one
\* notify_one is enough however many frames were dropped; the other getters'
\* frames do not appear.
LEMMA GetDeleteWakesInserter ==
  ASSUME MonitorInv, TypeOK', Roles', NEW t \in Threads, GetDelete(t)
  PROVE  NobodySleepsReady'
<1> USE DEF MonitorInv
<1>1. PICK woken \in NotifyOne("insert") : Return(t, "get_delete", woken)
  BY DEF GetDelete
<1>2. SUFFICES ASSUME NEW c \in {"pop", "insert", "get_delete"},
                      NEW u \in Waiting(c)'
               PROVE  ~Ready(u)'
  BY DEF NobodySleepsReady
<1>3. u \in Threads /\ pc'[u] = "waiting" /\ call'[u] = c
  BY DEF Waiting
<1>4. pc[u] = "waiting" /\ call[u] = c /\ u \notin woken
  BY <1>1, <1>3 DEF Return, GetDelete
<1>5. c # "insert"
  <2>1. SUFFICES ASSUME c = "insert" PROVE FALSE
    OBVIOUS
  <2>2. u = Processor /\ Waiting("insert") = {u}
    BY <1>3, <1>4, <2>1 DEF Waiting, Roles, Threads
  <2>3. woken = {u}
    BY <1>1, <2>2 DEF NotifyOne
  <2>4. QED
    BY <1>4, <2>3
<1>6. u \in Waiting(c) /\ ~Ready(u)
  BY <1>3, <1>4 DEF Waiting, NobodySleepsReady
<1>7. m_map' \subseteq m_map
  BY RemainingShrinks DEF GetDelete
<1>8. QED
  BY <1>3, <1>4, <1>5, <1>6, <1>7 DEF GetDelete, Ready

\* The other steps put a thread to sleep only after it has tested its predicate.
LEMMA NextKeepsSleepers ==
  ASSUME MonitorInv, TypeOK', Roles', [Next]_vars
  PROVE  NobodySleepsReady'
<1> USE DEF MonitorInv
<1>1. CASE UNCHANGED vars
  BY <1>1 DEF vars, NobodySleepsReady, Waiting, Ready
<1>2. ASSUME NEW t \in Threads, Call(t) PROVE NobodySleepsReady'
  <2>1. \A u \in Threads \ {t} : pc'[u] = pc[u] /\ index'[u] = index[u]
    BY <1>2 DEF Call, TypeOK
  <2>2. pc'[t] = "active"
    BY <1>2 DEF Call, TypeOK
  <2>3. QED
    BY <1>2, <2>1, <2>2 DEF Call, NobodySleepsReady, Waiting, Ready
<1>3. ASSUME NEW t \in Threads, Sleep(t) PROVE NobodySleepsReady'
  BY <1>3 DEF Sleep, NobodySleepsReady, Waiting, Ready, TypeOK
<1>4. ASSUME NEW t \in Threads, GiveUp(t) PROVE NobodySleepsReady'
  <2>1. \A u \in Threads \ {t} : pc'[u] = pc[u] /\ call'[u] = call[u]
    BY <1>4 DEF GiveUp, TypeOK
  <2>2. pc'[t] = "idle"
    BY <1>4 DEF GiveUp, TypeOK
  <2>3. QED
    <3>1. UNCHANGED <<size, m_map, index>>
      BY <1>4 DEF GiveUp
    <3>2. ASSUME NEW u \in Threads, pc'[u] = "waiting"
          PROVE  u # t /\ pc[u] = "waiting" /\ call'[u] = call[u]
                 /\ (Ready(u)' <=> Ready(u))
      BY <2>1, <2>2, <3>1, <3>2 DEF Ready
    <3>3. QED
      BY <3>2 DEF NobodySleepsReady, Waiting
<1>5. ASSUME NEW t \in Threads, Expire(t) PROVE NobodySleepsReady'
  BY <1>5 DEF Expire, NobodySleepsReady, Waiting, Ready, TypeOK
<1>6. ASSUME NEW t \in Threads, WakeSpuriously(t) PROVE NobodySleepsReady'
  BY <1>6 DEF WakeSpuriously, NobodySleepsReady, Waiting, Ready, TypeOK
<1>7. QED
  BY <1>1, <1>2, <1>3, <1>4, <1>5, <1>6, PushWakesPopper, PopWakesNobodyLate,
     InsertWakesGetters, GetDeleteWakesInserter DEF Next, Enter

\* Nobody sleeps at first.
LEMMA InitMonitorInv == Init => MonitorInv
<1> SUFFICES ASSUME Init PROVE MonitorInv
  OBVIOUS
<1>1. \A c : Waiting(c) = {}
  BY DEF Init, Waiting
<1>2. QED
  BY <1>1, InitTypeOK DEF MonitorInv, EnoughPushersAwake, NobodySleepsReady

\* While a client sleeps on m_pusher as many clients are awake as there is room
\* in the queue, and nobody sleeps on m_popper, m_inserter or m_getter whose
\* predicate holds: no wake-up is missed, for any number of clients and senders.
\* It rests on there being one process thread, and on insert notifying all.
THEOREM NoWakeupIsMissed == Spec => []NoMissedWakeup
<1>1. MonitorInv /\ [Next]_vars => MonitorInv'
  <2> SUFFICES ASSUME MonitorInv, [Next]_vars PROVE MonitorInv'
    OBVIOUS
  <2>1. TypeOK' /\ Roles'
    BY NextTypeOK DEF MonitorInv
  <2>2. QED
    BY <2>1, NextKeepsPushers, NextKeepsSleepers DEF MonitorInv
<1>2. MonitorInv => NoMissedWakeup
  BY DEF MonitorInv, EnoughPushersAwake, NobodySleepsReady, NoMissedWakeup
<1>3. QED
  BY InitMonitorInv, <1>1, <1>2, PTL DEF Spec
=============================================================================
