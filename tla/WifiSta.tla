------------------------------ MODULE WifiSta ------------------------------
(***************************************************************************)
(* The Wi-Fi station of src/wifi.c: the start_app thread, which waits for    *)
(* the Wi-Fi driver to be ready, requests a connection and polls for its     *)
(* result; the network-management thread, which delivers connect and         *)
(* disconnect events in order; and wifi_ready_cb.  They share, without a     *)
(* lock, context.connected, context.connect_result and wifi_ready_status,    *)
(* and one binary semaphore.  The first connection starts the web server     *)
(* and turns the LED green (wifi_connected_handler of src/main.c).           *)
(*                                                                          *)
(* External: the supplicant, which associates, loses the link and posts the  *)
(* events, and the shell's "wifi_cred auto_connect".  A request made on a    *)
(* link that is up takes it down first.  context.disconnect_requested is     *)
(* left out: nothing in the program sets it.                                *)
(***************************************************************************)
EXTENDS Integers, Sequences

CONSTANTS
    MaxEvents,          \* bound: events waiting in the management queue
    RequestMayFail      \* can NET_REQUEST_WIFI_CONNECT_STORED be refused?

ASSUME WifiAssumption ==
    /\ MaxEvents \in Nat \ {0}
    /\ RequestMayFail \in BOOLEAN

VARIABLES
    ready,          \* wifi_ready_status
    readyPc,        \* wifi_ready_cb: "idle", or between its two statements
    sem,            \* wifi_ready_state_changed_sem
    seen,           \* auxiliary: wifi_ready_status as start_app last read it
    pc,             \* start_app
    connected,      \* context.connected
    connectResult,  \* context.connect_result
    link,           \* the supplicant's link
    refused,        \* auxiliary: was the last connection request refused?
    events,         \* events posted and not yet delivered, oldest first
    handler,        \* the connect-result handler
    server,         \* has http_server_start been called?
    led             \* the front LED, as this component sets it

readyVars == <<ready, readyPc>>
startVars == <<seen, pc>>
flags     == <<connected, connectResult>>
radio     == <<link, events, refused>>
mgmtVars  == <<handler, server, led>>
vars      == <<ready, readyPc, sem, seen, pc, connected, connectResult,
               link, events, refused, handler, server, led>>

Events == {"connOk", "connFail", "disc"}

Init ==     \* net_mgmt_callback_init, then the thread is started
    /\ ready = FALSE /\ readyPc = "idle" /\ sem = 0 /\ seen = FALSE
    /\ pc = "waitReady"
    /\ connected = FALSE /\ connectResult = FALSE
    /\ link = "down" /\ events = <<>> /\ refused = FALSE
    /\ handler = "idle" /\ server = FALSE /\ led = "red"

----------------------------------------------------------------------------
(* wifi_ready_cb: two statements, not atomic. *)

ReadyChanges(b) ==
    /\ readyPc = "idle"
    /\ ready' = b /\ readyPc' = "give"
    /\ UNCHANGED <<sem, startVars, flags, radio, mgmtVars>>

GiveReadySem ==
    /\ readyPc = "give"
    /\ sem' = 1 /\ readyPc' = "idle"
    /\ UNCHANGED <<ready, startVars, flags, radio, mgmtVars>>

----------------------------------------------------------------------------
(* The start_app thread. *)

TakeReadySem ==     \* at the top of the loop, or while connected
    /\ pc \in {"waitReady", "waitChange"}
    /\ sem = 1
    /\ sem' = 0 /\ pc' = "check"
    /\ UNCHANGED <<readyVars, seen, flags, radio, mgmtVars>>

CheckReady ==       \* check_wifi_ready
    /\ pc = "check"
    /\ seen' = ready
    /\ pc' = IF ready THEN "clear" ELSE "waitReady"
    /\ UNCHANGED <<readyVars, sem, flags, radio, mgmtVars>>

ClearFlags ==       \* wifi_connect; the thread is cooperative, not preempted between
    /\ pc = "clear"
    /\ connected' = FALSE /\ connectResult' = FALSE
    /\ pc' = "request"
    /\ UNCHANGED <<readyVars, sem, seen, radio, mgmtVars>>

Post(e) == Len(events) < MaxEvents /\ events' = Append(events, e)

ConnectStored ==    \* the supplicant accepts a connection request
    /\ link' = "associating" /\ refused' = FALSE
    /\ IF link = "up" THEN Post("disc") ELSE UNCHANGED events

RequestConnect ==   \* wifi_connect, whose result start_app ignores
    /\ pc = "request"
    /\ pc' = "poll"
    /\ \/ ConnectStored
       \/ RequestMayFail /\ refused' = TRUE /\ UNCHANGED <<link, events>>
    /\ UNCHANGED <<readyVars, sem, seen, flags, mgmtVars>>

(* Mutant of PollResult: it also resets the semaphore. *)
PollResultResetsSem ==
    /\ pc = "poll"
    /\ connectResult
    /\ pc' = IF connected THEN "waitChange" ELSE "waitReady"
    /\ sem' = 0
    /\ UNCHANGED <<readyVars, seen, flags, radio, mgmtVars>>

PollResult ==       \* leaves the polling loop, which has no time limit
    /\ pc = "poll"
    /\ connectResult
    /\ pc' = IF connected THEN "waitChange" ELSE "waitReady"
    /\ UNCHANGED <<readyVars, sem, seen, flags, radio, mgmtVars>>

StartThread == TakeReadySem \/ CheckReady \/ ClearFlags \/ RequestConnect \/ PollResult

----------------------------------------------------------------------------
(* The network-management thread: one event at a time. *)

Take(e) ==
    /\ handler = "idle"
    /\ events # <<>> /\ Head(events) = e
    /\ events' = Tail(events)

(* Mutants: a failure that does not set connect_result; a test of           *)
(* connect_result where the code tests connected; connected set before the  *)
(* callback; a disconnection that leaves the flag.                          *)
ConnectFailsSilently ==
    /\ Take("connFail")
    /\ UNCHANGED <<readyVars, sem, startVars, flags, link, refused, mgmtVars>>

ConnectSucceedsTestsResult ==
    /\ Take("connOk")
    /\ handler' = IF connectResult THEN "idle" ELSE "serve"
    /\ UNCHANGED <<readyVars, sem, startVars, flags, link, refused, server, led>>

ConnectSucceedsSetsFirst ==
    /\ Take("connOk")
    /\ handler' = IF connected THEN "idle" ELSE "serve"
    /\ connected' = TRUE
    /\ UNCHANGED <<readyVars, sem, startVars, connectResult, link, refused, server, led>>

DisconnectedForgotten ==
    /\ Take("disc")
    /\ UNCHANGED <<readyVars, sem, startVars, flags, link, refused, mgmtVars>>

(* handle_wifi_connect_result *)
ConnectFails ==
    /\ Take("connFail")
    /\ connectResult' = (connectResult \/ ~connected)
    /\ UNCHANGED <<readyVars, sem, startVars, connected, link, refused, mgmtVars>>

ConnectSucceeds ==
    /\ Take("connOk")
    /\ handler' = IF connected THEN "idle" ELSE "serve"
    /\ UNCHANGED <<readyVars, sem, startVars, flags, link, refused, server, led>>

(* The rest of handle_wifi_connect_result: wifi_connected_handler, which    *)
(* starts the server and sets the LED (that may fail), then the two flags:  *)
(* two steps, since a management thread configured preemptible gives way to *)
(* the cooperative start_app thread between them.                           *)
StartServer ==
    /\ handler = "serve"
    /\ server' = TRUE /\ handler' = "led"
    /\ UNCHANGED <<readyVars, sem, startVars, flags, radio, led>>

SetLed ==
    /\ handler = "led"
    /\ led' \in {"green", led} /\ handler' = "connected"
    /\ UNCHANGED <<readyVars, sem, startVars, flags, radio, server>>

SetConnected ==
    /\ handler = "connected"
    /\ connected' = TRUE /\ handler' = "result"
    /\ UNCHANGED <<readyVars, sem, startVars, connectResult, radio, server, led>>

SetResult ==
    /\ handler = "result"
    /\ connectResult' = TRUE /\ handler' = "idle"
    /\ UNCHANGED <<readyVars, sem, startVars, connected, radio, server, led>>

(* handle_wifi_disconnect_result *)
Disconnected ==
    /\ Take("disc")
    /\ connected' = FALSE
    /\ UNCHANGED <<readyVars, sem, startVars, connectResult, link, refused, mgmtVars>>

MgmtThread ==
    \/ ConnectFails \/ ConnectSucceeds \/ StartServer \/ SetLed
    \/ SetConnected \/ SetResult \/ Disconnected

----------------------------------------------------------------------------
(* The supplicant and the shell. *)

LinkStep(from, to, e) ==
    /\ link = from /\ link' = to
    /\ Post(e)
    /\ UNCHANGED <<readyVars, sem, startVars, flags, refused, mgmtVars>>

AttemptSucceeds == LinkStep("associating", "up", "connOk")
AttemptFails    == LinkStep("associating", "down", "connFail")
LinkLost        == LinkStep("up", "down", "disc")

AttemptEnds == AttemptSucceeds \/ AttemptFails

(* The shell's auto_connect, or an attempt of the supplicant's own. *)
ShellConnect ==
    /\ ConnectStored
    /\ UNCHANGED <<readyVars, sem, startVars, flags, mgmtVars>>

Environment ==
    \/ AttemptEnds
    \/ LinkLost
    \/ ShellConnect
    \/ \E b \in BOOLEAN : ReadyChanges(b)

Next == StartThread \/ MgmtThread \/ GiveReadySem \/ Environment

Spec == Init /\ [][Next]_vars

(* The kernel runs each thread that can go on. *)
ThreadFairness == WF_vars(StartThread) /\ WF_vars(MgmtThread) /\ WF_vars(GiveReadySem)

(* And the supplicant answers an attempt: the code has no time limit of its *)
(* own, and nothing reads Kconfig's STA_CONN_TIMEOUT_SEC.                    *)
FairAttemptsSpec == Spec /\ ThreadFairness /\ WF_vars(AttemptEnds)

----------------------------------------------------------------------------
TypeOK ==
    /\ ready \in BOOLEAN /\ readyPc \in {"idle", "give"} /\ sem \in {0, 1}
    /\ seen \in BOOLEAN
    /\ pc \in {"waitReady", "check", "clear", "request", "poll", "waitChange"}
    /\ connected \in BOOLEAN /\ connectResult \in BOOLEAN
    /\ link \in {"down", "associating", "up"}
    /\ events \in Seq(Events) /\ refused \in BOOLEAN
    /\ handler \in {"idle", "serve", "led", "connected", "result"}
    /\ server \in BOOLEAN /\ led \in {"red", "green"}

(* A change of the driver's readiness is never lost, although the binary    *)
(* semaphore merges several and start_app does not look while it polls.     *)
NoLostReadyChange ==
    ready # seen => sem = 1 \/ readyPc = "give" \/ pc = "check"

(* The web server runs before anything says that the board is connected:    *)
(* the flag start_app reads and the LED the user reads.                     *)
ConnectedMeansServing == connected \/ led = "green" => server

(* start_app never polls in vain: while no result has come, the attempt it  *)
(* asked for is under way, its result queued or being handled, unless the   *)
(* request was refused.  Neither a stale result, a disconnection nor a      *)
(* shell command in between takes that away.                                *)
PollIsAnswered ==
    pc = "poll" /\ ~connectResult =>
        \/ link = "associating"
        \/ \E k \in DOMAIN events : events[k] \in {"connOk", "connFail"}
        \/ handler # "idle"
        \/ refused

(* Every event is delivered and its handler has finished. *)
Quiet == events = <<>> /\ handler = "idle"

(* Once the events are delivered, context.connected is TRUE only on a link  *)
(* that is up, whatever requests, losses and stale results came between.    *)
ConnectedIsTrue == Quiet /\ connected => link = "up"

(* And it is TRUE on every such link: no connection goes unnoticed, except  *)
(* while wifi_connect is replacing it, or was refused.                      *)
LinkIsNoticed == Quiet /\ link = "up" => connected \/ pc = "request" \/ refused

(* How the two are kept: an event still on its way corrects the flag. *)
DiscAfter(k) == \E l \in DOMAIN events : l > k /\ events[l] = "disc"

DownIsAnnounced ==
    link # "up" =>
        /\ connected \/ handler \notin {"idle", "result"} => DiscAfter(0)
        /\ \A k \in DOMAIN events : events[k] = "connOk" => DiscAfter(k)

UpIsAnnounced ==
    link = "up" =>
        \/ \E k \in DOMAIN events : events[k] = "connOk" /\ ~DiscAfter(k)
        \/ /\ ~DiscAfter(0)
           /\ handler \notin {"idle", "result"} \/ connected \/ pc = "request"
        \/ refused

(* What the handler of a new connection has done at each of its steps. *)
HandlerInv ==
    /\ handler \in {"led", "connected", "result"} => server
    /\ handler \in {"serve", "led", "connected"} => ~connected
    /\ connected => connectResult \/ handler = "result"

WifiInv ==
    /\ TypeOK
    /\ NoLostReadyChange
    /\ ConnectedMeansServing
    /\ HandlerInv
    /\ PollIsAnswered
    /\ DownIsAnnounced
    /\ UpIsAnnounced

(* For the rest of the firmware the three threads and the supplicant are a  *)
(* Station: the server before the flag, in one handling at a time.          *)
AbstractStation == INSTANCE Station WITH
    handling <- handler \in {"led", "connected"}

ImplementsStation == AbstractStation!Spec

(* start_app learns the result of an attempt the supplicant accepted.       *)
PollEnds == pc = "poll" ~> pc # "poll" \/ refused

(* A driver that becomes ready is asked for a connection, whatever start_app *)
(* was waiting for: the only thing that makes it try again after a failure. *)
ReadyIsFollowed ==
    readyPc = "give" /\ ready ~> pc = "request" \/ ~ready \/ refused

(* The flag settles with the link. *)
FlagSettles ==
    /\ <>[](link = "up") => <>[](connected \/ refused)
    /\ <>[](link # "up") => <>[]~connected
=============================================================================
