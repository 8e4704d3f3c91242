----------------------------- MODULE WsSensors -----------------------------
(***************************************************************************)
(* The sensor websocket of src/main.c: a fixed array of slots               *)
(* (ws_sensors_ctx), claimed by the HTTP server thread in ws_sensors_setup  *)
(* and driven, all of them, by one delayable work item each on the single   *)
(* system work queue thread (sensor_handler).  Nothing locks ctx[i].sock:   *)
(* the two threads interleave at every access to it.                        *)
(*                                                                          *)
(* External, modelled from how the code uses it: the descriptors (numbers   *)
(* the network stack hands out and reuses), k_work_reschedule, the HTTP     *)
(* server, which unregisters the descriptor of a refused upgrade, and the   *)
(* browser at the far end, which may stop reading, resume, or go away.      *)
(***************************************************************************)
EXTENDS Integers, Sequences, Functions

CONSTANTS
    NumSlots,           \* CONFIG_NET_SAMPLE_NUM_WEBSOCKET_HANDLERS
    Socks,              \* the descriptors the network stack can hand out
    NoSock,             \* the value -1 of ctx[i].sock
    RescheduleMayFail   \* can k_work_reschedule return an error?

ASSUME WsAssumption ==
    /\ NumSlots \in Nat \ {0}       \* Kconfig: at least one slot
    /\ NoSock \notin Socks          \* descriptors are >= 0, the sentinel is -1
    /\ RescheduleMayFail \in BOOLEAN

Slots  == 0 .. NumSlots - 1
NoSlot == -1

VARIABLES
    sock,       \* ctx[i].sock
    delayed,    \* the slots whose work item waits for its 50 ms timer
    queue,      \* the system work queue: slots whose work item is submitted
    run,        \* the slot whose handler is running, or NoSlot
    wqPc,       \* where in sensor_handler the work queue thread is
    httpPc,     \* where in ws_sensors_setup the HTTP thread is
    newSock,    \* its argument ws_socket
    slot,       \* its local: the index scanned, then the slot chosen
    conn,       \* each descriptor and the peer behind it
    full,       \* auxiliary: was every slot held when newSock arrived?
    stuck       \* auxiliary: the slots whose first k_work_reschedule failed

wqVars   == <<run, wqPc>>
httpVars == <<httpPc, newSock, slot, full, stuck>>
vars     == <<sock, delayed, queue, run, wqPc, httpPc, newSock, slot, conn,
          full, stuck>>

(* A descriptor is free, or open on a peer that reads, that stopped reading *)
(* with the send window full, that closed (the next send is still accepted  *)
(* and answered by a reset), or that reset the connection.                  *)
ConnStates == {"free", "open", "stalled", "closed", "reset"}

Init ==     \* ws_sensors_init
    /\ sock = [i \in Slots |-> NoSock]
    /\ delayed = {}
    /\ queue = <<>>
    /\ run = NoSlot /\ wqPc = "idle"
    /\ httpPc = "poll" /\ newSock = NoSock /\ slot = NoSlot
    /\ conn = [s \in Socks |-> "free"]
    /\ full = FALSE /\ stuck = {}

----------------------------------------------------------------------------
(* The HTTP server thread. *)

(* A websocket upgrade: a descriptor is registered and handed to the        *)
(* callback, which starts to look for a slot.                               *)
Upgrade(s) ==
    /\ httpPc = "poll"
    /\ conn[s] = "free"
    /\ conn' = [conn EXCEPT ![s] = "open"]
    /\ newSock' = s /\ slot' = 0 /\ httpPc' = "scan"
    /\ full' = (\A i \in Slots : sock[i] # NoSock)
    /\ UNCHANGED <<sock, delayed, queue, wqVars, stuck>>

(* Mutants of ScanSlot: a loop that runs one index too far, and one that    *)
(* stops one index too early.                                               *)
ScanSlotPastTheEnd ==
    /\ httpPc = "scan"
    /\ slot <= NumSlots
    /\ IF slot \in Slots /\ sock[slot] = NoSock
       THEN httpPc' = "claim" /\ slot' = slot
       ELSE httpPc' = "scan"  /\ slot' = slot + 1
    /\ UNCHANGED <<sock, delayed, queue, wqVars, newSock, conn, full, stuck>>

ScanSlotSkipsTheLast ==
    /\ httpPc = "scan"
    /\ slot < NumSlots
    /\ IF slot < NumSlots - 1 /\ sock[slot] = NoSock
       THEN httpPc' = "claim" /\ slot' = slot
       ELSE httpPc' = "scan"  /\ slot' = slot + 1
    /\ UNCHANGED <<sock, delayed, queue, wqVars, newSock, conn, full, stuck>>

(* get_free_sensor_slot: one iteration of its loop. *)
ScanSlot ==
    /\ httpPc = "scan"
    /\ slot < NumSlots
    /\ IF sock[slot] = NoSock
       THEN httpPc' = "claim" /\ slot' = slot
       ELSE httpPc' = "scan"  /\ slot' = slot + 1
    /\ UNCHANGED <<sock, delayed, queue, wqVars, newSock, conn, full, stuck>>

(* The callback is over; the server goes back to its sockets. *)
CallbackReturns ==
    /\ httpPc' = "poll" /\ newSock' = NoSock /\ slot' = NoSlot
    /\ full' = FALSE

(* No slot: -ENOMEM, and the server unregisters the descriptor. *)
RefuseUpgrade ==
    /\ httpPc = "scan"
    /\ slot = NumSlots
    /\ conn' = [conn EXCEPT ![newSock] = "free"]
    /\ CallbackReturns
    /\ UNCHANGED <<sock, delayed, queue, wqVars, stuck>>

Claim ==    \* ctx[slot].sock = ws_socket
    /\ httpPc = "claim"
    /\ sock' = [sock EXCEPT ![slot] = newSock]
    /\ httpPc' = "schedule"
    /\ UNCHANGED <<delayed, queue, wqVars, newSock, slot, conn, full, stuck>>

(* k_work_reschedule(.., K_NO_WAIT): stop the timer, submit unless queued. *)
Submit(i) ==
    /\ delayed' = delayed \ {i}
    /\ queue' = IF i \in Range(queue) THEN queue ELSE Append(queue, i)

(* Mutant of Schedule: the first k_work_reschedule is forgotten. *)
ScheduleForgotten ==
    /\ httpPc = "schedule"
    /\ CallbackReturns
    /\ UNCHANGED <<sock, delayed, queue, wqVars, conn, stuck>>

(* On an error the callback returns it, without resetting ctx[slot].sock,   *)
(* and the server unregisters the descriptor.                               *)
Schedule ==
    /\ httpPc = "schedule"
    /\ \/ Submit(slot) /\ UNCHANGED <<conn, stuck>>
       \/ /\ RescheduleMayFail
          /\ conn' = [conn EXCEPT ![newSock] = "free"]
          /\ stuck' = stuck \cup {slot}
          /\ UNCHANGED <<delayed, queue>>
    /\ CallbackReturns
    /\ UNCHANGED <<sock, wqVars>>

HttpThread == ScanSlot \/ RefuseUpgrade \/ Claim \/ Schedule

----------------------------------------------------------------------------
(* The timers and the system work queue thread. *)

TimerExpires(i) ==
    /\ i \in delayed
    /\ Submit(i)
    /\ UNCHANGED <<sock, wqVars, httpVars, conn>>

TakeWork ==
    /\ wqPc = "idle"
    /\ queue # <<>>
    /\ run' = Head(queue) /\ queue' = Tail(queue)
    /\ wqPc' = "collect"
    /\ UNCHANGED <<sock, delayed, httpVars, conn>>

Collect ==      \* sensors_get_json may fail
    /\ wqPc = "collect"
    /\ wqPc' \in {"send", "unregister"}
    /\ UNCHANGED <<sock, delayed, queue, run, httpVars, conn>>

(* Mutant of Send: its result is not looked at. *)
SendUnchecked ==
    /\ wqPc = "send"
    /\ conn[sock[run]] # "stalled"
    /\ conn' = [conn EXCEPT ![sock[run]] = IF @ = "closed" THEN "reset" ELSE @]
    /\ wqPc' = "reschedule"
    /\ UNCHANGED <<sock, delayed, queue, run, httpVars>>

(* websocket_send_msg(.., SYS_FOREVER_MS): not enabled, the thread blocked, *)
(* as long as the peer is stalled.                                          *)
Send ==
    /\ wqPc = "send"
    /\ \/ /\ conn[sock[run]] = "open"
          /\ wqPc' = "reschedule" /\ UNCHANGED conn
       \/ /\ conn[sock[run]] = "closed"
          /\ wqPc' = "reschedule"
          /\ conn' = [conn EXCEPT ![sock[run]] = "reset"]
       \/ /\ conn[sock[run]] \in {"closed", "reset", "free"}
          /\ wqPc' = "unregister" /\ UNCHANGED conn
    /\ UNCHANGED <<sock, delayed, queue, run, httpVars>>

(* Mutant of Reschedule: no return before the label unregister. *)
RescheduleFallsThrough ==
    /\ wqPc = "reschedule"
    /\ delayed' = delayed \cup {run}
    /\ wqPc' = "unregister"
    /\ UNCHANGED <<sock, queue, run, httpVars, conn>>

Reschedule ==   \* k_work_reschedule(.., 50 ms), and the handler returns
    /\ wqPc = "reschedule"
    /\ \/ /\ delayed' = delayed \cup {run}
          /\ wqPc' = "idle" /\ run' = NoSlot
       \/ /\ RescheduleMayFail
          /\ wqPc' = "unregister" /\ UNCHANGED <<delayed, run>>
    /\ UNCHANGED <<sock, queue, httpVars, conn>>

(* Mutant of Unregister: the slot is cleared, its descriptor is not given back. *)
UnregisterForgotten ==
    /\ wqPc = "unregister"
    /\ wqPc' = "clear"
    /\ UNCHANGED <<sock, delayed, queue, run, httpVars, conn>>

Unregister ==   \* websocket_unregister(ctx->sock): the number can be reused
    /\ wqPc = "unregister"
    /\ conn' = [conn EXCEPT ![sock[run]] = "free"]
    /\ wqPc' = "clear"
    /\ UNCHANGED <<sock, delayed, queue, run, httpVars>>

(* Mutant of Clear: ctx->sock keeps the old number. *)
ClearForgotten ==
    /\ wqPc = "clear"
    /\ run' = NoSlot /\ wqPc' = "idle"
    /\ UNCHANGED <<sock, delayed, queue, httpVars, conn>>

Clear ==        \* ctx->sock = -1, and the handler returns
    /\ wqPc = "clear"
    /\ sock' = [sock EXCEPT ![run] = NoSock]
    /\ run' = NoSlot /\ wqPc' = "idle"
    /\ UNCHANGED <<delayed, queue, httpVars, conn>>

WorkQueueThread == TakeWork \/ Collect \/ Send \/ Reschedule \/ Unregister \/ Clear

----------------------------------------------------------------------------
(* The browsers. *)

PeerStep(s, from, to) ==
    /\ conn[s] \in from
    /\ conn' = [conn EXCEPT ![s] = to]
    /\ UNCHANGED <<sock, delayed, queue, wqVars, httpVars>>

PeerStalls(s)  == PeerStep(s, {"open"}, "stalled")
PeerResumes(s) == PeerStep(s, {"stalled"}, "open")
PeerCloses(s)  == PeerStep(s, {"open"}, "closed")
PeerResets(s)  == PeerStep(s, {"open", "stalled", "closed"}, "reset")

Environment ==
    \E s \in Socks :
        Upgrade(s) \/ PeerStalls(s) \/ PeerResumes(s) \/ PeerCloses(s) \/ PeerResets(s)

Next ==
    \/ HttpThread
    \/ WorkQueueThread
    \/ \E i \in Slots : TimerExpires(i)
    \/ Environment

Spec == Init /\ [][Next]_vars

(* The kernel runs every thread that is not blocked and fires every timer.  *)
ThreadFairness ==
    /\ WF_vars(HttpThread)
    /\ WF_vars(WorkQueueThread)
    /\ \A i \in Slots : WF_vars(TimerExpires(i))

(* A peer that stops reading resumes or is given up by the TCP stack, and a *)
(* sender blocked on it is woken each time the peer opens its window.       *)
StallsEnd ==
    /\ \A s \in Socks : WF_vars(PeerResumes(s) \/ PeerResets(s))
    /\ SF_vars(Send)

FairSpec      == Spec /\ ThreadFairness
FairPeersSpec == FairSpec /\ StallsEnd

----------------------------------------------------------------------------
TypeOK ==
    /\ sock \in [Slots -> Socks \cup {NoSock}]
    /\ delayed \subseteq Slots
    /\ queue \in Seq(Slots)
    /\ run \in Slots \cup {NoSlot}
    /\ wqPc \in {"idle", "collect", "send", "reschedule", "unregister", "clear"}
    /\ httpPc \in {"poll", "scan", "claim", "schedule"}
    /\ newSock \in Socks \cup {NoSock}
    /\ slot \in Slots \cup {NoSlot, NumSlots}
    /\ conn \in [Socks -> ConnStates]
    /\ full \in BOOLEAN
    /\ stuck \subseteq Slots

(* The work item of slot i will still use ctx[i].sock.                      *)
Driven(i) ==
    \/ i \in delayed
    \/ i \in Range(queue)
    \/ run = i /\ wqPc # "clear"

(* The HTTP thread still decides about its descriptor.                      *)
Unclaimed == httpPc \in {"scan", "claim"}

(* sensor_handler never sends on, nor unregisters, a descriptor that is not *)
(* its slot's own: every slot with work pending holds an allocated one that *)
(* no other such slot and no upgrade in progress holds, although the number *)
(* is free for reuse before ctx->sock is reset.                             *)
DrivenSlotOwnsSocket ==
    \A i \in Slots : Driven(i) =>
        /\ sock[i] \in Socks
        /\ conn[sock[i]] # "free"
        /\ Unclaimed => sock[i] # newSock
        /\ \A j \in Slots \ {i} : Driven(j) => sock[j] # sock[i]

(* No descriptor is lost: each one allocated is in the hands of the HTTP    *)
(* thread or of a slot whose work item will unregister it some day.         *)
NoDescriptorLeak ==
    \A s \in Socks : conn[s] # "free" =>
        \/ httpPc # "poll" /\ newSock = s
        \/ \E i \in Slots : Driven(i) /\ sock[i] = s

(* No slot is lost but by a failed k_work_reschedule: one that is held has   *)
(* its work item pending, is being claimed, or is being cleared.            *)
HeldSlotIsDriven ==
    \A i \in Slots \ stuck : sock[i] # NoSock =>
        \/ Driven(i)
        \/ httpPc = "schedule" /\ slot = i
        \/ run = i /\ wqPc = "clear"

(* The inductive invariant: what the two threads know at each of their      *)
(* program points.  A work item is in one place only, and a slot between    *)
(* its claim and its first submission has none anywhere.                    *)
ThreadsConsistent ==
    /\ run = NoSlot <=> wqPc = "idle"
    /\ httpPc = "poll" <=> newSock = NoSock
    /\ httpPc = "scan" => slot \in 0 .. NumSlots
    /\ httpPc \in {"claim", "schedule"} => slot \in Slots
    /\ httpPc = "claim" => sock[slot] = NoSock
    /\ httpPc = "schedule" => sock[slot] = newSock /\ ~Driven(slot) /\ run # slot
    /\ wqPc = "clear" => sock[run] \in Socks

OnePlacePerWorkItem ==
    /\ IsInjective(queue)
    /\ delayed \cap Range(queue) = {}
    /\ run \notin delayed \cup Range(queue)

(* A stuck slot is held by nobody and found free by no scan.                *)
StuckStaysHeld ==
    \A i \in stuck :
        /\ sock[i] \in Socks
        /\ ~Driven(i) /\ run # i
        /\ httpPc = "schedule" => slot # i

NewSockIsAllocated ==
    httpPc # "poll" =>
        /\ conn[newSock] # "free"
        /\ \A i \in Slots : Driven(i) => sock[i] # newSock

(* A scan that is going to fail began with every slot held. *)
ScanFindsFreeSlot ==
    httpPc = "scan" /\ ~full =>
        \E i \in Slots : i >= slot /\ sock[i] = NoSock

WsInv ==
    /\ TypeOK
    /\ ThreadsConsistent
    /\ OnePlacePerWorkItem
    /\ StuckStaysHeld
    /\ NewSockIsAllocated
    /\ ScanFindsFreeSlot
    /\ DrivenSlotOwnsSocket
    /\ NoDescriptorLeak
    /\ HeldSlotIsDriven

----------------------------------------------------------------------------
(* The websocket service this implements: a slot serves from the claim to   *)
(* the moment its descriptor is unregistered; a stuck one closes for ever.  *)
Closing(i)     == i \in stuck \/ (run = i /\ wqPc = "clear")
ServiceAsking  == IF Unclaimed THEN newSock ELSE NoSock
ServiceServing == [i \in Slots |-> IF Closing(i) THEN NoSock ELSE sock[i]]
ServiceClosing == {i \in Slots : Closing(i)}
ServiceFull    == Unclaimed /\ full

Service == INSTANCE WsService WITH
    asking  <- ServiceAsking,
    serving <- ServiceServing,
    closing <- ServiceClosing,
    full    <- ServiceFull

(* The scan, the claim and the work items implement the pool of slots: no   *)
(* slot is given to two connections, none serves a descriptor given to      *)
(* another, and a client is refused only if it found every slot held.       *)
ImplementsService == Service!Spec

(* Every slot held by a connection is served again and again.               *)
SlotsKeepBeingServed ==
    \A i \in Slots :
        []<>(sock[i] = NoSock \/ i \in stuck \/ (run = i /\ wqPc = "reschedule"))

(* A connection its peer gave up is found out and its descriptor given back.*)
DeadPeerIsReleased ==
    \A s \in Socks : conn[s] \in {"closed", "reset"} ~> conn[s] = "free"

(* Kconfig NET_SAMPLE_NUM_WEBSOCKET_HANDLERS, "Each websocket connection is *)
(* served by a thread": a peer that stops reading holds up its own slot     *)
(* only, every other slot is served again and again.                        *)
StalledPeerHoldsItsOwnSlotOnly ==
    \A i \in Slots :
        []<>( \/ sock[i] = NoSock
              \/ run = i /\ wqPc = "reschedule"
              \/ conn[sock[i]] = "stalled" )
=============================================================================
