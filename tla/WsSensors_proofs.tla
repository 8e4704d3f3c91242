-------------------------- MODULE WsSensors_proofs --------------------------
(***************************************************************************)
(* For every number of slots and every set of descriptors: WsInv is an      *)
(* inductive invariant of WsSensors, hence type correctness, exclusive      *)
(* ownership and the absence of leaks; and WsSensors implements WsService.  *)
(***************************************************************************)
EXTENDS WsSensors, TLAPS

LEMMA RangeAppend ==
    ASSUME NEW S, NEW q \in Seq(S), NEW e \in S
    PROVE  /\ Append(q, e) \in Seq(S)
           /\ Range(Append(q, e)) = Range(q) \cup {e}
           /\ IsInjective(q) /\ e \notin Range(q) => IsInjective(Append(q, e))
<1>1. /\ Append(q, e) \in Seq(S) /\ DOMAIN Append(q, e) = 1 .. Len(q) + 1
      /\ DOMAIN q = 1 .. Len(q) /\ Len(q) \in Nat
      /\ \A k \in 1 .. Len(q) : Append(q, e)[k] = q[k]
      /\ Append(q, e)[Len(q) + 1] = e
  OBVIOUS
<1>2. Range(Append(q, e)) = Range(q) \cup {e}
  <2>1. Range(Append(q, e)) \subseteq Range(q) \cup {e}
    BY <1>1 DEF Range
  <2>2. e \in Range(Append(q, e))
    BY <1>1 DEF Range
  <2>3. Range(q) \subseteq Range(Append(q, e))
    BY <1>1 DEF Range
  <2>. QED BY <2>1, <2>2, <2>3
<1>3. ASSUME IsInjective(q), e \notin Range(q) PROVE IsInjective(Append(q, e))
  BY <1>1, <1>3 DEF Range, IsInjective
<1>. QED BY <1>1, <1>2, <1>3

LEMMA NoSlotIsNotQueued ==
    ASSUME NEW q \in Seq(Slots) PROVE NoSlot \notin Range(q)
<1>1. \A k \in DOMAIN q : q[k] \in Slots
  OBVIOUS
<1>. QED BY <1>1, WsAssumption DEF Range, Slots, NoSlot

LEMMA RangeTail ==
    ASSUME NEW S, NEW q \in Seq(S), q # <<>>, IsInjective(q)
    PROVE  /\ Head(q) \in S
           /\ Head(q) \in Range(q)
           /\ Tail(q) \in Seq(S)
           /\ Range(Tail(q)) = Range(q) \ {Head(q)}
           /\ IsInjective(Tail(q))
<1>1. /\ Head(q) \in S /\ Head(q) \in Range(q) /\ Tail(q) \in Seq(S)
      /\ Len(Tail(q)) = Len(q) - 1 /\ Len(q) \in Nat \ {0}
      /\ \A k \in 1 .. Len(q) - 1 : Tail(q)[k] = q[k + 1]
  BY DEF Range
<1>2. IsInjective(Tail(q))
  BY <1>1 DEF IsInjective
<1>3. Range(Tail(q)) \subseteq Range(q) \ {Head(q)}
  BY <1>1 DEF Range, IsInjective
<1>4. ASSUME NEW e \in Range(q) \ {Head(q)} PROVE e \in Range(Tail(q))
  <2>1. PICK k \in 1 .. Len(q) : q[k] = e
    BY DEF Range
  <2>2. k - 1 \in 1 .. Len(q) - 1 /\ q[(k - 1) + 1] = e
    BY <2>1
  <2>3. k - 1 \in DOMAIN Tail(q) /\ Tail(q)[k - 1] = e
    BY <1>1, <2>2
  <2>. QED BY <2>3 DEF Range
<1>. QED BY <1>1, <1>2, <1>3, <1>4
(* What submitting the work item of a slot that has none does to the queue. *)
LEMMA SubmitQueues ==
    ASSUME TypeOK, OnePlacePerWorkItem, NEW i \in Slots, i \notin Range(queue), Submit(i)
    PROVE  /\ delayed' = delayed \ {i}
           /\ queue' \in Seq(Slots)
           /\ Range(queue') = Range(queue) \cup {i}
           /\ IsInjective(queue')
  BY RangeAppend DEF Submit, TypeOK, OnePlacePerWorkItem

(***************************************************************************)
(* Inductiveness, one lemma per thread.  Range(queue) is all the proof      *)
(* needs to know of the queue.                                              *)
(***************************************************************************)
LEMMA InitWsInv == Init => WsInv
<1>. SUFFICES ASSUME Init PROVE WsInv
  OBVIOUS
<1>. USE WsAssumption DEF Init
<1>1. Range(queue) = {} /\ IsInjective(queue) /\ queue \in Seq(Slots)
  BY DEF Range, IsInjective
<1>2. TypeOK
  BY <1>1 DEF TypeOK, ConnStates
<1>3. \A i \in Slots : ~Driven(i)
  BY <1>1 DEF Driven, Slots, NoSlot
<1>. QED
  BY <1>1, <1>2, <1>3 DEF WsInv, ThreadsConsistent, OnePlacePerWorkItem,
     NewSockIsAllocated, ScanFindsFreeSlot, DrivenSlotOwnsSocket,
     NoDescriptorLeak, HeldSlotIsDriven, StuckStaysHeld

LEMMA HttpThreadKeepsWsInv == WsInv /\ HttpThread => WsInv'
<1>. SUFFICES ASSUME WsInv, HttpThread PROVE WsInv'
  OBVIOUS
<1>. USE WsAssumption DEF Slots, NoSlot, wqVars, httpVars
<1>0. /\ TypeOK /\ ThreadsConsistent /\ OnePlacePerWorkItem
      /\ NewSockIsAllocated /\ ScanFindsFreeSlot /\ DrivenSlotOwnsSocket
      /\ NoDescriptorLeak /\ HeldSlotIsDriven /\ StuckStaysHeld
  BY DEF WsInv
<1>1. CASE ScanSlot
  <2>. USE <1>1 DEF ScanSlot
  <2>1. \A i : Driven(i)' = Driven(i)
    BY DEF Driven
  <2>2. TypeOK'
    BY <1>0 DEF TypeOK
  <2>3. ThreadsConsistent'
    BY <1>0, <2>1 DEF ThreadsConsistent, TypeOK
  <2>4. ScanFindsFreeSlot'
    BY <1>0 DEF ScanFindsFreeSlot, TypeOK
  <2>. QED
    BY <1>0, <2>1, <2>2, <2>3, <2>4 DEF WsInv, OnePlacePerWorkItem,
       NewSockIsAllocated, DrivenSlotOwnsSocket, NoDescriptorLeak,
       HeldSlotIsDriven, StuckStaysHeld, Unclaimed
<1>2. CASE RefuseUpgrade
  <2>. USE <1>2 DEF RefuseUpgrade, CallbackReturns
  <2>1. \A i : Driven(i)' = Driven(i)
    BY DEF Driven
  <2>2. TypeOK'
    BY <1>0 DEF TypeOK, ConnStates
  <2>3. newSock \in Socks /\ \A s \in Socks : conn'[s] = IF s = newSock THEN "free" ELSE conn[s]
    BY <1>0 DEF TypeOK, ThreadsConsistent
  <2>4. DrivenSlotOwnsSocket'
    BY <1>0, <2>1, <2>3 DEF DrivenSlotOwnsSocket, NewSockIsAllocated, Unclaimed
  <2>5. NoDescriptorLeak'
    BY <1>0, <2>1, <2>3 DEF NoDescriptorLeak
  <2>. QED
    BY <1>0, <2>1, <2>2, <2>4, <2>5 DEF WsInv, OnePlacePerWorkItem, ThreadsConsistent,
       NewSockIsAllocated, ScanFindsFreeSlot, HeldSlotIsDriven, StuckStaysHeld
<1>3. CASE Claim
  <2>. USE <1>3 DEF Claim
  <2>1. \A i : Driven(i)' = Driven(i)
    BY DEF Driven
  <2>2. TypeOK'
    BY <1>0 DEF TypeOK
  <2>3. /\ newSock \in Socks /\ slot \in Slots /\ sock[slot] = NoSock
        /\ \A i \in Slots : sock'[i] = IF i = slot THEN newSock ELSE sock[i]
    BY <1>0 DEF TypeOK, ThreadsConsistent
  <2>4. ~Driven(slot) /\ (wqPc = "clear" => run # slot)
    BY <1>0, <2>3 DEF DrivenSlotOwnsSocket, ThreadsConsistent
  <2>5. run # slot
    BY <1>0, <2>3, <2>4 DEF Driven
  <2>6. ThreadsConsistent'
    BY <1>0, <2>1, <2>3, <2>4, <2>5 DEF ThreadsConsistent, TypeOK
  <2>7. DrivenSlotOwnsSocket'
    BY <1>0, <2>1, <2>3, <2>4 DEF DrivenSlotOwnsSocket, Unclaimed
  <2>8. NewSockIsAllocated'
    BY <1>0, <2>1, <2>3, <2>4 DEF NewSockIsAllocated
  <2>9. NoDescriptorLeak'
    BY <1>0, <2>1, <2>3, <2>4 DEF NoDescriptorLeak
  <2>10. HeldSlotIsDriven' /\ StuckStaysHeld'
    BY <1>0, <2>1, <2>3, <2>4 DEF HeldSlotIsDriven, StuckStaysHeld, ThreadsConsistent, TypeOK, Driven
  <2>. QED
    BY <1>0, <2>2, <2>6, <2>7, <2>8, <2>9, <2>10
    DEF WsInv, OnePlacePerWorkItem, ScanFindsFreeSlot
<1>4. CASE Schedule
  <2>. USE <1>4 DEF Schedule, CallbackReturns
  <2>1. /\ newSock \in Socks /\ slot \in Slots /\ sock[slot] = newSock
        /\ ~Driven(slot) /\ run # slot
        /\ slot \notin delayed /\ slot \notin Range(queue)
    BY <1>0 DEF TypeOK, ThreadsConsistent, Driven
  <2>2. CASE Submit(slot) /\ UNCHANGED <<conn, stuck>>
    <3>1. /\ delayed' = delayed \ {slot}
          /\ queue' \in Seq(Slots)
          /\ Range(queue') = Range(queue) \cup {slot}
          /\ IsInjective(queue')
      BY <1>0, <2>1, <2>2, SubmitQueues
    <3>2. \A i : Driven(i)' <=> Driven(i) \/ i = slot
      BY <2>1, <3>1 DEF Driven
    <3>3. TypeOK'
      BY <1>0, <2>2, <3>1 DEF TypeOK
    <3>4. OnePlacePerWorkItem'
      BY <1>0, <2>1, <3>1 DEF OnePlacePerWorkItem
    <3>5. ThreadsConsistent'
      BY <1>0 DEF ThreadsConsistent
    <3>6. DrivenSlotOwnsSocket'
      BY <1>0, <2>1, <2>2, <3>2 DEF DrivenSlotOwnsSocket, NewSockIsAllocated, Unclaimed
    <3>7. NoDescriptorLeak'
      BY <1>0, <2>1, <2>2, <3>2 DEF NoDescriptorLeak
    <3>8. HeldSlotIsDriven' /\ StuckStaysHeld'
      BY <1>0, <2>1, <3>2 DEF HeldSlotIsDriven, StuckStaysHeld, ThreadsConsistent, TypeOK, Driven
    <3>. QED
      BY <1>0, <3>3, <3>4, <3>5, <3>6, <3>7, <3>8 DEF WsInv, NewSockIsAllocated, ScanFindsFreeSlot
  <2>3. CASE /\ RescheduleMayFail
             /\ conn' = [conn EXCEPT ![newSock] = "free"]
             /\ stuck' = stuck \cup {slot}
             /\ UNCHANGED <<delayed, queue>>
    <3>1. \A i : Driven(i)' = Driven(i)
      BY <2>3 DEF Driven
    <3>2. TypeOK'
      BY <1>0, <2>1, <2>3 DEF TypeOK, ConnStates
    <3>3. \A s \in Socks : conn'[s] = IF s = newSock THEN "free" ELSE conn[s]
      BY <1>0, <2>3 DEF TypeOK
    <3>4. DrivenSlotOwnsSocket'
      BY <1>0, <3>1, <3>3 DEF DrivenSlotOwnsSocket, NewSockIsAllocated, Unclaimed
    <3>5. NoDescriptorLeak'
      BY <1>0, <3>1, <3>3 DEF NoDescriptorLeak
    <3>6. HeldSlotIsDriven' /\ StuckStaysHeld'
      BY <1>0, <2>1, <2>3, <3>1 DEF HeldSlotIsDriven, StuckStaysHeld
    <3>. QED
      BY <1>0, <2>3, <3>1, <3>2, <3>4, <3>5, <3>6 DEF WsInv, OnePlacePerWorkItem,
         ThreadsConsistent, NewSockIsAllocated, ScanFindsFreeSlot
  <2>. QED BY <2>2, <2>3
<1>. QED BY <1>1, <1>2, <1>3, <1>4 DEF HttpThread

LEMMA TimerKeepsWsInv ==
    ASSUME WsInv, NEW i \in Slots, TimerExpires(i)
    PROVE  WsInv'
<1>. USE WsAssumption DEF Slots, NoSlot, wqVars, httpVars, TimerExpires
<1>0. /\ TypeOK /\ ThreadsConsistent /\ OnePlacePerWorkItem
      /\ NewSockIsAllocated /\ ScanFindsFreeSlot /\ DrivenSlotOwnsSocket
      /\ NoDescriptorLeak /\ HeldSlotIsDriven /\ StuckStaysHeld
  BY DEF WsInv
<1>1. i \in delayed /\ i \notin Range(queue) /\ i # run
  BY <1>0 DEF OnePlacePerWorkItem
<1>2. /\ delayed' = delayed \ {i}
      /\ queue' \in Seq(Slots)
      /\ Range(queue') = Range(queue) \cup {i}
      /\ IsInjective(queue')
  BY <1>0, <1>1, SubmitQueues
<1>3. \A j : Driven(j)' <=> Driven(j)
  BY <1>1, <1>2 DEF Driven
<1>4. TypeOK'
  BY <1>0, <1>2 DEF TypeOK
<1>5. OnePlacePerWorkItem'
  BY <1>0, <1>1, <1>2 DEF OnePlacePerWorkItem
<1>. QED
  BY <1>0, <1>3, <1>4, <1>5 DEF WsInv, ThreadsConsistent, NewSockIsAllocated, Unclaimed,
     ScanFindsFreeSlot, DrivenSlotOwnsSocket, NoDescriptorLeak, HeldSlotIsDriven, StuckStaysHeld

LEMMA WorkQueueThreadKeepsWsInv == WsInv /\ WorkQueueThread => WsInv'
<1>. SUFFICES ASSUME WsInv, WorkQueueThread PROVE WsInv'
  OBVIOUS
<1>. USE WsAssumption DEF Slots, NoSlot, wqVars, httpVars
<1>0. /\ TypeOK /\ ThreadsConsistent /\ OnePlacePerWorkItem
      /\ NewSockIsAllocated /\ ScanFindsFreeSlot /\ DrivenSlotOwnsSocket
      /\ NoDescriptorLeak /\ HeldSlotIsDriven /\ StuckStaysHeld
  BY DEF WsInv
<1>1. CASE TakeWork
  <2>. USE <1>1 DEF TakeWork
  <2>1. /\ run' \in Range(queue) /\ run' \in Slots
        /\ queue' \in Seq(Slots)
        /\ Range(queue') = Range(queue) \ {run'}
        /\ IsInjective(queue')
    BY <1>0, RangeTail DEF TypeOK, OnePlacePerWorkItem
  <2>2. \A i : i \in Slots => (Driven(i)' <=> Driven(i))
    BY <1>0, <2>1 DEF Driven, ThreadsConsistent
  <2>3. TypeOK'
    BY <1>0, <2>1 DEF TypeOK
  <2>4. OnePlacePerWorkItem'
    BY <1>0, <2>1 DEF OnePlacePerWorkItem
  <2>5. ThreadsConsistent'
    BY <1>0, <2>1, <2>2 DEF ThreadsConsistent, Driven
  <2>6. StuckStaysHeld'
    BY <1>0, <2>1, <2>2 DEF StuckStaysHeld, TypeOK, Driven
  <2>. QED
    BY <1>0, <2>2, <2>3, <2>4, <2>5, <2>6 DEF WsInv, NewSockIsAllocated, Unclaimed,
       ScanFindsFreeSlot, DrivenSlotOwnsSocket, NoDescriptorLeak, HeldSlotIsDriven
<1>2. CASE Collect
  <2>. USE <1>2 DEF Collect
  <2>1. \A i : Driven(i)' <=> Driven(i)
    BY DEF Driven
  <2>. QED
    BY <1>0, <2>1 DEF WsInv, TypeOK, OnePlacePerWorkItem, ThreadsConsistent, NewSockIsAllocated,
       Unclaimed, ScanFindsFreeSlot, DrivenSlotOwnsSocket, NoDescriptorLeak, HeldSlotIsDriven, StuckStaysHeld
<1>3. CASE Send
  <2>. USE <1>3 DEF Send
  <2>1. \A i : Driven(i)' <=> Driven(i)
    BY DEF Driven
  <2>2. /\ conn' \in [Socks -> ConnStates]
        /\ \A s \in Socks : conn'[s] = "free" <=> conn[s] = "free"
    BY <1>0 DEF TypeOK, ConnStates
  <2>3. TypeOK'
    BY <1>0, <2>2 DEF TypeOK
  <2>4. newSock \in Socks \/ httpPc = "poll"
    BY <1>0 DEF TypeOK, ThreadsConsistent
  <2>5. ThreadsConsistent'
    BY <1>0, <2>1 DEF ThreadsConsistent
  <2>6. NewSockIsAllocated' /\ DrivenSlotOwnsSocket' /\ NoDescriptorLeak'
    BY <1>0, <2>1, <2>2, <2>4 DEF NewSockIsAllocated, Unclaimed, DrivenSlotOwnsSocket, NoDescriptorLeak
  <2>7. OnePlacePerWorkItem' /\ ScanFindsFreeSlot' /\ HeldSlotIsDriven' /\ StuckStaysHeld'
    BY <1>0, <2>1 DEF OnePlacePerWorkItem, ScanFindsFreeSlot, HeldSlotIsDriven, StuckStaysHeld
  <2>. QED
    BY <2>3, <2>5, <2>6, <2>7 DEF WsInv
<1>4. CASE Reschedule
  <2>. USE <1>4 DEF Reschedule
  <2>1. run \in Slots
    BY <1>0 DEF TypeOK, ThreadsConsistent
  <2>2. \A i \in Slots : Driven(i)' <=> Driven(i)
    BY <2>1 DEF Driven
  <2>3. TypeOK' /\ OnePlacePerWorkItem'
    <3>1. NoSlot \notin Range(queue)
      BY <1>0, NoSlotIsNotQueued DEF TypeOK
    <3>2. delayed \subseteq Slots
      BY <1>0 DEF TypeOK
    <3>3. OnePlacePerWorkItem'
      BY <1>0, <2>1, <3>1, <3>2 DEF OnePlacePerWorkItem
    <3>4. TypeOK'
      BY <1>0, <2>1 DEF TypeOK
    <3>. QED BY <3>3, <3>4
  <2>4. ThreadsConsistent'
    BY <1>0, <2>1, <2>2 DEF ThreadsConsistent
  <2>5. StuckStaysHeld'
    BY <1>0, <2>1, <2>2 DEF StuckStaysHeld, TypeOK
  <2>. QED
    BY <1>0, <2>2, <2>3, <2>4, <2>5 DEF WsInv, NewSockIsAllocated, Unclaimed,
       ScanFindsFreeSlot, DrivenSlotOwnsSocket, NoDescriptorLeak, HeldSlotIsDriven
<1>5. CASE Unregister
  <2>. USE <1>5 DEF Unregister
  <2>1. run \in Slots /\ Driven(run) /\ sock[run] \in Socks
    BY <1>0 DEF TypeOK, ThreadsConsistent, DrivenSlotOwnsSocket, Driven
  <2>2. \A i \in Slots : Driven(i)' <=> Driven(i) /\ i # run
    BY <1>0, <2>1 DEF Driven, OnePlacePerWorkItem
  <2>3. \A s \in Socks : conn'[s] = IF s = sock[run] THEN "free" ELSE conn[s]
    BY <1>0 DEF TypeOK
  <2>4. TypeOK' /\ OnePlacePerWorkItem'
    BY <1>0 DEF TypeOK, OnePlacePerWorkItem, ConnStates
  <2>5. ThreadsConsistent'
    BY <1>0, <2>1, <2>2 DEF ThreadsConsistent
  <2>6. newSock \in Socks \/ httpPc = "poll"
    BY <1>0 DEF TypeOK, ThreadsConsistent
  <2>7. NewSockIsAllocated'
    BY <1>0, <2>1, <2>2, <2>3, <2>6 DEF NewSockIsAllocated
  <2>8. DrivenSlotOwnsSocket'
    BY <1>0, <2>1, <2>2, <2>3 DEF DrivenSlotOwnsSocket, Unclaimed
  <2>9. NoDescriptorLeak'
    BY <1>0, <2>1, <2>2, <2>3 DEF NoDescriptorLeak
  <2>10. HeldSlotIsDriven' /\ StuckStaysHeld'
    BY <1>0, <2>2 DEF HeldSlotIsDriven, StuckStaysHeld, ThreadsConsistent, TypeOK, Driven
  <2>. QED
    BY <1>0, <2>4, <2>5, <2>7, <2>8, <2>9, <2>10 DEF WsInv, ScanFindsFreeSlot
<1>6. CASE Clear
  <2>. USE <1>6 DEF Clear
  <2>1. run \in Slots /\ ~Driven(run)
    BY <1>0 DEF TypeOK, ThreadsConsistent, Driven, OnePlacePerWorkItem
  <2>2. \A i \in Slots : Driven(i)' <=> Driven(i)
    BY <2>1 DEF Driven
  <2>3. \A i \in Slots : sock'[i] = IF i = run THEN NoSock ELSE sock[i]
    BY <1>0 DEF TypeOK
  <2>4. TypeOK' /\ OnePlacePerWorkItem'
    <3>1. NoSlot \notin Range(queue)
      BY <1>0, NoSlotIsNotQueued DEF TypeOK
    <3>2. delayed \subseteq Slots
      BY <1>0 DEF TypeOK
    <3>3. OnePlacePerWorkItem'
      BY <1>0, <3>1, <3>2 DEF OnePlacePerWorkItem
    <3>4. TypeOK'
      BY <1>0 DEF TypeOK
    <3>. QED BY <3>3, <3>4
  <2>5. ThreadsConsistent'
    BY <1>0, <2>1, <2>2, <2>3 DEF ThreadsConsistent
  <2>6. ScanFindsFreeSlot'
    BY <1>0, <2>3 DEF ScanFindsFreeSlot
  <2>7. NewSockIsAllocated' /\ DrivenSlotOwnsSocket' /\ NoDescriptorLeak'
    BY <1>0, <2>1, <2>2, <2>3 DEF NewSockIsAllocated, Unclaimed, DrivenSlotOwnsSocket, NoDescriptorLeak
  <2>8. HeldSlotIsDriven' /\ StuckStaysHeld'
    BY <1>0, <2>1, <2>2, <2>3 DEF HeldSlotIsDriven, StuckStaysHeld, ThreadsConsistent, TypeOK, Driven
  <2>. QED
    BY <2>4, <2>5, <2>6, <2>7, <2>8 DEF WsInv
<1>. QED BY <1>1, <1>2, <1>3, <1>4, <1>5, <1>6 DEF WorkQueueThread

LEMMA EnvironmentKeepsWsInv == WsInv /\ Environment => WsInv'
<1>. SUFFICES ASSUME WsInv, NEW s \in Socks,
                     \/ Upgrade(s)
                     \/ PeerStalls(s) \/ PeerResumes(s) \/ PeerCloses(s) \/ PeerResets(s)
              PROVE  WsInv'
  BY DEF Environment
<1>. USE WsAssumption DEF Slots, NoSlot, wqVars, httpVars
<1>0. /\ TypeOK /\ ThreadsConsistent /\ OnePlacePerWorkItem
      /\ NewSockIsAllocated /\ ScanFindsFreeSlot /\ DrivenSlotOwnsSocket
      /\ NoDescriptorLeak /\ HeldSlotIsDriven /\ StuckStaysHeld
  BY DEF WsInv
<1>1. CASE Upgrade(s)
  <2>. USE <1>1 DEF Upgrade
  <2>1. \A i : Driven(i)' <=> Driven(i)
    BY DEF Driven
  <2>2. \A d \in Socks : conn'[d] = IF d = s THEN "open" ELSE conn[d]
    BY <1>0 DEF TypeOK
  <2>3. \A i \in Slots : Driven(i) => sock[i] # s
    BY <1>0 DEF DrivenSlotOwnsSocket
  <2>4. TypeOK' /\ OnePlacePerWorkItem'
    BY <1>0 DEF TypeOK, OnePlacePerWorkItem, ConnStates
  <2>5. ThreadsConsistent'
    BY <1>0, <2>1 DEF ThreadsConsistent
  <2>6. ScanFindsFreeSlot'
    BY DEF ScanFindsFreeSlot
  <2>7. NewSockIsAllocated' /\ DrivenSlotOwnsSocket' /\ NoDescriptorLeak'
    BY <1>0, <2>1, <2>2, <2>3 DEF NewSockIsAllocated, Unclaimed, DrivenSlotOwnsSocket, NoDescriptorLeak
  <2>8. HeldSlotIsDriven' /\ StuckStaysHeld'
    BY <1>0, <2>1 DEF HeldSlotIsDriven, StuckStaysHeld, ThreadsConsistent, TypeOK, Driven
  <2>. QED
    BY <2>4, <2>5, <2>6, <2>7, <2>8 DEF WsInv
<1>2. CASE PeerStalls(s) \/ PeerResumes(s) \/ PeerCloses(s) \/ PeerResets(s)
  <2>. USE <1>2 DEF PeerStalls, PeerResumes, PeerCloses, PeerResets, PeerStep
  <2>1. UNCHANGED <<sock, delayed, queue, run, wqPc, httpPc, newSock, slot, full, stuck>>
    OBVIOUS
  <2>2. /\ conn' \in [Socks -> ConnStates]
        /\ \A d \in Socks : conn'[d] = "free" <=> conn[d] = "free"
    BY <1>0 DEF TypeOK, ConnStates
  <2>3. \A i : Driven(i)' <=> Driven(i)
    BY <2>1 DEF Driven
  <2>4. newSock \in Socks \/ httpPc = "poll"
    BY <1>0 DEF TypeOK, ThreadsConsistent
  <2>5. TypeOK' /\ OnePlacePerWorkItem' /\ ThreadsConsistent' /\ ScanFindsFreeSlot'
    BY <1>0, <2>1, <2>2, <2>3 DEF TypeOK, OnePlacePerWorkItem, ThreadsConsistent, ScanFindsFreeSlot
  <2>6. NewSockIsAllocated' /\ DrivenSlotOwnsSocket' /\ NoDescriptorLeak'
    BY <1>0, <2>1, <2>2, <2>3, <2>4
    DEF NewSockIsAllocated, Unclaimed, DrivenSlotOwnsSocket, NoDescriptorLeak
  <2>7. HeldSlotIsDriven' /\ StuckStaysHeld'
    BY <1>0, <2>1, <2>3 DEF HeldSlotIsDriven, StuckStaysHeld, ThreadsConsistent, TypeOK, Driven
  <2>. QED
    BY <2>5, <2>6, <2>7 DEF WsInv
<1>. QED BY <1>1, <1>2

LEMMA NextKeepsWsInv == WsInv /\ [Next]_vars => WsInv'
<1>. SUFFICES ASSUME WsInv, [Next]_vars PROVE WsInv'
  OBVIOUS
<1>1. CASE UNCHANGED vars
  BY <1>1 DEF vars, WsInv, TypeOK, OnePlacePerWorkItem, ThreadsConsistent, NewSockIsAllocated,
     Unclaimed, ScanFindsFreeSlot, DrivenSlotOwnsSocket, NoDescriptorLeak, HeldSlotIsDriven, StuckStaysHeld, Driven
<1>. QED
  BY <1>1, HttpThreadKeepsWsInv, WorkQueueThreadKeepsWsInv, TimerKeepsWsInv,
     EnvironmentKeepsWsInv DEF Next

(***************************************************************************)
(* The theorems.                                                            *)
(***************************************************************************)

(* The inductive invariant: what ws_sensors_setup and sensor_handler may    *)
(* assume at each of their program points, whatever the interleaving.       *)
THEOREM WsInvariant == Spec => []WsInv
<1>1. Init => WsInv
  BY InitWsInv
<1>2. WsInv /\ [Next]_vars => WsInv'
  BY NextKeepsWsInv
<1>. QED BY <1>1, <1>2, PTL DEF Spec

(* Every variable keeps its type: no slot index outside ctx[] is used. *)
THEOREM WsTypeCorrect == Spec => []TypeOK
<1>1. WsInv => TypeOK
  BY DEF WsInv
<1>. QED BY <1>1, WsInvariant, PTL

(* sensor_handler only ever sends on and unregisters its own connection's   *)
(* descriptor, with any number of slots and any reuse of descriptors.       *)
THEOREM WsExclusiveOwnership == Spec => []DrivenSlotOwnsSocket
<1>1. WsInv => DrivenSlotOwnsSocket
  BY DEF WsInv
<1>. QED BY <1>1, WsInvariant, PTL

(* Every descriptor allocated by an upgrade has an owner that will release  *)
(* it, even when k_work_reschedule fails.                                   *)
THEOREM WsNoDescriptorLeak == Spec => []NoDescriptorLeak
<1>1. WsInv => NoDescriptorLeak
  BY DEF WsInv
<1>. QED BY <1>1, WsInvariant, PTL

(* No slot is held for ever by nobody, but one whose first k_work_reschedule *)
(* failed.                                                                   *)
THEOREM WsNoSlotLeak == Spec => []HeldSlotIsDriven
<1>1. WsInv => HeldSlotIsDriven
  BY DEF WsInv
<1>. QED BY <1>1, WsInvariant, PTL

(***************************************************************************)
(* Refinement.                                                              *)
(***************************************************************************)
LEMMA InitRefines == Init => Service!Init
<1>. SUFFICES ASSUME Init PROVE Service!Init
  OBVIOUS
<1>1. /\ ServiceAsking = NoSock /\ ServiceClosing = {} /\ ServiceFull = FALSE
      /\ ServiceServing = [i \in Slots |-> NoSock]
  BY DEF Init, ServiceAsking, ServiceClosing, ServiceFull, ServiceServing, Closing, Unclaimed
<1>. QED BY <1>1 DEF Service!Init

LEMMA StepRefines ==
    ASSUME WsInv, [Next]_vars
    PROVE  [Service!Next]_(Service!vars)
<1>. USE WsAssumption DEF Slots, NoSlot, wqVars, httpVars, ServiceAsking, ServiceServing,
         ServiceClosing, ServiceFull, Closing, Unclaimed
<1>0. /\ TypeOK /\ ThreadsConsistent /\ ScanFindsFreeSlot /\ DrivenSlotOwnsSocket
      /\ HeldSlotIsDriven /\ StuckStaysHeld
  BY DEF WsInv
<1>1. CASE UNCHANGED <<sock, run, wqPc, httpPc, newSock, full, stuck>>
  BY <1>1 DEF Service!vars
<1>2. ASSUME NEW s \in Socks, Upgrade(s) PROVE Service!Ask(s)
  <2>. USE <1>2 DEF Upgrade
  <2>1. \A i \in Slots : sock[i] # s \/ Closing(i)
    BY <1>0 DEF HeldSlotIsDriven, DrivenSlotOwnsSocket, ThreadsConsistent
  <2>2. \A i \in Slots : Service!Taken(i) <=> sock[i] # NoSock
    BY <1>0 DEF Service!Taken, ThreadsConsistent, StuckStaysHeld
  <2>3. ServiceServing' = ServiceServing
    OBVIOUS
  <2>4. s # NoSock /\ \A i \in Slots : ServiceServing[i] # s
    BY <2>1
  <2>. QED BY <2>2, <2>3, <2>4, <1>0 DEF Service!Ask
<1>3. CASE ScanSlot
  BY <1>3 DEF ScanSlot, Service!vars
<1>4. CASE RefuseUpgrade
  <2>1. full
    BY <1>0, <1>4 DEF RefuseUpgrade, ScanFindsFreeSlot, TypeOK
  <2>. QED
    BY <1>0, <1>4, <2>1 DEF RefuseUpgrade, CallbackReturns, ThreadsConsistent, Service!Refuse,
       Service!Next
<1>5. CASE Claim
  <2>. USE <1>5 DEF Claim
  <2>1. slot \in Slots /\ sock[slot] = NoSock /\ newSock \in Socks
    BY <1>0 DEF ThreadsConsistent, TypeOK
  <2>2. ~Closing(slot)
    BY <1>0, <2>1 DEF ThreadsConsistent, StuckStaysHeld
  <2>3. ~Service!Taken(slot)
    BY <2>1, <2>2 DEF Service!Taken
  <2>4. ServiceServing' = [ServiceServing EXCEPT ![slot] = newSock]
    BY <1>0, <2>1, <2>2 DEF TypeOK
  <2>. QED BY <2>1, <2>3, <2>4 DEF Service!Accept, Service!Next
<1>6. CASE Schedule
  <2>. USE <1>6 DEF Schedule, CallbackReturns
  <2>1. CASE UNCHANGED stuck
    BY <2>1 DEF Service!vars
  <2>2. CASE stuck' = stuck \cup {slot}
    <3>1. /\ slot \in Slots /\ sock[slot] \in Socks /\ ~Closing(slot)
      BY <1>0 DEF ThreadsConsistent, StuckStaysHeld, TypeOK
    <3>2. \A i \in Slots : Closing(i)' <=> Closing(i) \/ i = slot
      BY <2>2
    <3>3. /\ ServiceServing' = [ServiceServing EXCEPT ![slot] = NoSock]
          /\ ServiceClosing' = ServiceClosing \cup {slot}
      BY <3>1, <3>2
    <3>. QED BY <3>1, <3>3 DEF Service!Drop, Service!Next
  <2>. QED BY <2>1, <2>2
<1>7. CASE Unregister
  <2>. USE <1>7 DEF Unregister
  <2>1. run \in Slots /\ sock[run] \in Socks
    BY <1>0 DEF TypeOK, ThreadsConsistent, DrivenSlotOwnsSocket, Driven
  <2>2. ServiceServing' = [ServiceServing EXCEPT ![run] = NoSock]
    BY <1>0, <2>1 DEF TypeOK
  <2>3. ServiceClosing' = ServiceClosing \cup {run}
    BY <1>0, <2>1
  <2>4. ~Closing(run)
    BY <1>0, <2>1 DEF StuckStaysHeld
  <2>5. ServiceServing[run] # NoSock
    BY <2>1, <2>4
  <2>. QED BY <2>1, <2>2, <2>3, <2>5 DEF Service!Drop, Service!Next
<1>8. CASE Clear
  <2>. USE <1>8 DEF Clear
  <2>1. run \in Slots
    BY <1>0 DEF TypeOK, ThreadsConsistent
  <2>2. ServiceServing' = ServiceServing
    BY <1>0, <2>1 DEF TypeOK
  <2>3. run \in ServiceClosing /\ ServiceClosing' = ServiceClosing \ {run}
    BY <1>0, <2>1 DEF StuckStaysHeld
  <2>. QED BY <2>1, <2>2, <2>3 DEF Service!Release, Service!Next
<1>9. CASE TakeWork \/ Collect \/ Send \/ Reschedule
  BY <1>9 DEF TakeWork, Collect, Send, Reschedule, Service!vars
<1>10. CASE \E i \in Slots : TimerExpires(i)
  BY <1>1, <1>10 DEF TimerExpires
<1>11. CASE \E s \in Socks : PeerStalls(s) \/ PeerResumes(s) \/ PeerCloses(s) \/ PeerResets(s)
  BY <1>1, <1>11 DEF PeerStalls, PeerResumes, PeerCloses, PeerResets, PeerStep
<1>12. CASE UNCHANGED vars
  BY <1>1, <1>12 DEF vars
<1>. QED
  BY <1>2, <1>3, <1>4, <1>5, <1>6, <1>7, <1>8, <1>9, <1>10, <1>11, <1>12
  DEF Next, HttpThread, WorkQueueThread, Environment, Service!Next

(* The threads, timers and stale slot numbers implement the pool of slots.  *)
THEOREM WsImplementsService == Spec => ImplementsService
<1>1. WsInv /\ [Next]_vars => [Service!Next]_(Service!vars)
  BY StepRefines
<1>. QED BY <1>1, InitRefines, WsInvariant, PTL DEF Spec, ImplementsService, Service!Spec

(* A pool that is asked for fresh descriptors only, and gives each slot to  *)
(* one client, never serves a connection twice.  Shown of WsService alone.  *)
LEMMA ServiceIsExclusive == Service!Spec => []Service!Exclusive
<1>. DEFINE Inv == /\ Service!Exclusive
                  /\ ServiceServing \in [Slots -> Socks \cup {NoSock}]
                  /\ ServiceAsking \in Socks \cup {NoSock}
<1>1. Service!Init => Inv
  BY DEF Service!Init, Service!Exclusive
<1>2. Inv /\ [Service!Next]_(Service!vars) => Inv'
  BY DEF Service!Next, Service!vars, Service!Exclusive, Service!Ask, Service!Accept,
     Service!Taken, Service!Refuse, Service!Drop, Service!Release
<1>3. Inv => Service!Exclusive
  OBVIOUS
<1>. HIDE DEF Inv
<1>. QED BY <1>1, <1>2, <1>3, PTL DEF Service!Spec

(* So it is with ctx[]: whatever numbers the HTTP server uses again, and    *)
(* whenever the work queue unregisters one, the readings of a connection    *)
(* are sent by one slot, and none is sent on a descriptor being upgraded.   *)
THEOREM WsServesExclusively == Spec => []Service!Exclusive
BY WsImplementsService, ServiceIsExclusive, PTL DEF ImplementsService
=============================================================================
