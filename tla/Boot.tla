-------------------------------- MODULE Boot --------------------------------
(***************************************************************************)
(* The boot of the board and its LED.  main of src/main.c checks the PWM     *)
(* devices, shows red, and initialises one part after the other, returning   *)
(* at most errors; the network-management thread starts the web server when *)
(* the station is connected, and shows green; the HTTP thread shows the      *)
(* colour of a POST /led, and yellow, then green, for a POST /jwt.  All       *)
(* three call pwm_set_color, which sets the three channels one after the     *)
(* other with no lock.  Button 1 resets the board at any time once           *)
(* dk_buttons_init is done.                                                 *)
(*                                                                          *)
(* External: the supplicant and the shell, which connect and lose the link   *)
(* (WifiSta has their events in detail, Station what both modules promise; a *)
(* connection made before the event callback is registered is not noticed), *)
(* and the HTTP server, which calls a resource's callback if there is one.  *)
(***************************************************************************)
EXTENDS Integers

CONSTANTS
    Gamma,          \* apply_gamma with gamma 2.2: a byte for every byte
    Period,         \* of the PWM, 20 ms
    Word,           \* 2^32, in the unit of Period
    Posted,         \* the colours browsers post: any int for each channel
    MaxFailures,    \* bound: calls that fail
    MaxPresses      \* bound: presses of button 1, but for those that restart
                    \* a board that has stopped

Byte     == 0 .. 255
Channels == 1 .. 3  \* red, green, blue
Threads  == {"main", "mgmt", "http"}

ASSUME GammaAssumption ==
    /\ Gamma \in [Byte -> Byte]
    /\ Gamma[0] = 0 /\ Gamma[255] = 255
    /\ \A a, b \in Byte : a <= b => Gamma[a] <= Gamma[b]

ASSUME BootAssumption ==
    /\ Period \in Nat \ {0} /\ Word \in Nat \ {0}
    /\ Posted \subseteq [Channels -> Int]
    /\ MaxFailures \in Nat /\ MaxPresses \in Nat

Off    == <<0, 0, 0>>
Red    == <<255, 0, 0>>
Green  == <<0, 255, 0>>
Yellow == <<255, 255, 0>>

(* The resources with a callback, NULL until main sets it. *)
Resources == {"led", "jwt", "ws", "location"}

VARIABLES
    main,       \* the step of main: what it does next, or "stopped", "ended"
    done,       \* the steps of main that succeeded
    callbacks,  \* the resources whose callback is set
    mgmt,       \* the network-management thread: "idle", or at the "led"
    connected,  \* context.connected
    server,     \* has http_server_start been called?
    http,       \* the HTTP thread: "idle", "yellow", or at the last colour
    at,         \* the channel each thread sets next, 0 outside pwm_set_color
    bytes,      \* the bytes it was called with
    led,        \* the pulse of each channel
    recent,     \* auxiliary: the thread of the latest call of pwm_set_color
                \* and those that were still in a call when it began
    failed,     \* auxiliary: has a call failed since then?
    failures,   \* calls that failed so far
    presses     \* presses so far

mainVars == <<main, done, callbacks>>
mgmtVars == <<mgmt, connected, server>>
pwmVars  == <<at, bytes, led, recent, failed>>
vars     == <<main, done, callbacks, mgmt, connected, server, http,
              at, bytes, led, recent, failed, failures, presses>>

Reset ==    \* the RAM and the peripherals after a reset
    /\ main' = "pwm" /\ done' = {} /\ callbacks' = {}
    /\ mgmt' = "idle" /\ connected' = FALSE /\ server' = FALSE /\ http' = "idle"
    /\ at' = [t \in Threads |-> 0] /\ bytes' = [t \in Threads |-> Off]
    /\ led' = Off /\ recent' = {"main"} /\ failed' = FALSE

Init ==
    /\ main = "pwm" /\ done = {} /\ callbacks = {}
    /\ mgmt = "idle" /\ connected = FALSE /\ server = FALSE /\ http = "idle"
    /\ at = [t \in Threads |-> 0] /\ bytes = [t \in Threads |-> Off]
    /\ led = Off /\ recent = {"main"} /\ failed = FALSE
    /\ failures = 0 /\ presses = 0

Fail == failures < MaxFailures /\ failures' = failures + 1

----------------------------------------------------------------------------
(* pwm_set_color *)

(* A float converted to a byte: undefined out of range, saturated or        *)
(* reduced by the processor.                                                *)
Converted(v) == IF v \in Byte THEN {v} ELSE {0, 255, v % 256}

(* What the colour c is converted to; blue is scaled by 0.8, towards 0. *)
Scaled(v) == IF v < 0 THEN -((-4 * v) \div 5) ELSE (4 * v) \div 5

ToBytes(c) ==
    {<<r, g, b>> : r \in Converted(c[1]), g \in Converted(c[2]),
                   b \in Converted(Scaled(c[3]))}

(* A pulse: the product has 32 bits. *)
Pulse(b) == ((Gamma[b] * Period) % Word) \div 255

(* Mutant of SetChannel: blue is not set. *)
SetChannelSkipsBlue(t) ==
    /\ at[t] # 0
    /\ led' = [led EXCEPT ![at[t]] = Pulse(bytes[t][at[t]])]
    /\ at' = [at EXCEPT ![t] = IF @ = 2 THEN 0 ELSE @ + 1]
    /\ UNCHANGED <<bytes, recent, failed, failures>>

SetColor(t, c) ==   \* the call, up to the first channel
    \E b \in ToBytes(c) :
        /\ at' = [at EXCEPT ![t] = 1]
        /\ bytes' = [bytes EXCEPT ![t] = b]
        /\ recent' = {t} \cup {u \in Threads : at[u] # 0}
        /\ failed' = FALSE
        /\ UNCHANGED led

SetChannel(t) ==    \* pwm_set_pulse_dt, whose failure ends the call
    /\ at[t] # 0
    /\ \/ /\ led' = [led EXCEPT ![at[t]] = Pulse(bytes[t][at[t]])]
          /\ at' = [at EXCEPT ![t] = IF @ = 3 THEN 0 ELSE @ + 1]
          /\ UNCHANGED <<failed, failures>>
       \/ /\ Fail
          /\ at' = [at EXCEPT ![t] = 0] /\ failed' = TRUE
          /\ UNCHANGED led
    /\ UNCHANGED <<bytes, recent>>

Pwm ==
    /\ \E t \in Threads : SetChannel(t)
    /\ UNCHANGED <<mainVars, mgmtVars, http, presses>>

----------------------------------------------------------------------------
(* main: a step that succeeds leads to the next, one that fails returns. *)

(* Mutant of Try: a failure is ignored. *)
TryIgnoresFailure(step, next) ==
    /\ main = step /\ at["main"] = 0
    /\ main' = next
    /\ \/ done' = done \cup {step} /\ UNCHANGED failures
       \/ Fail /\ UNCHANGED done
    /\ UNCHANGED <<callbacks, mgmtVars, http, pwmVars, presses>>

Try(step, next) ==
    /\ main = step /\ at["main"] = 0
    /\ \/ main' = next /\ done' = done \cup {step} /\ UNCHANGED failures
       \/ Fail /\ main' = "stopped" /\ UNCHANGED done
    /\ UNCHANGED <<callbacks, mgmtVars, http, pwmVars, presses>>

CheckPwm == Try("pwm", "red")

ShowRed ==          \* a failure is only logged
    /\ main = "red" /\ main' = "buttons"
    /\ SetColor("main", Red)
    /\ UNCHANGED <<done, callbacks, mgmtVars, http, failures, presses>>

InitButtons   == Try("buttons", "sensors")
InitSensors   == Try("sensors", "certificate")
CertProvision == Try("certificate", "handlers")

(* Mutant of SetHandlers: the callbacks are forgotten. *)
SetHandlersForgotten ==
    /\ main = "handlers" /\ main' = "events"
    /\ UNCHANGED <<done, callbacks, mgmtVars, http, pwmVars, failures, presses>>

SetHandlers ==      \* of the resources, and wifi_sta_set_wifi_connected_cb
    /\ main = "handlers" /\ main' = "events"
    /\ done' = done \cup {"handlers"} /\ callbacks' = Resources
    /\ UNCHANGED <<mgmtVars, http, pwmVars, failures, presses>>

InitEvents ==       \* net_mgmt_callback_init
    /\ main = "events" /\ main' = "scan"
    /\ done' = done \cup {"events"} /\ connected' = FALSE
    /\ UNCHANGED <<callbacks, mgmt, server, http, pwmVars, failures, presses>>

ScanWifi      == Try("scan", "ready")   \* WifiScan has it in detail
RegisterReady == Try("ready", "thread")

(* Mutant of StartThread: the thread that asks for connections is not       *)
(* started.                                                                 *)
StartThreadForgotten ==
    /\ main = "thread" /\ main' = "ended"
    /\ UNCHANGED <<done, callbacks, mgmtVars, http, pwmVars, failures, presses>>

StartThread ==      \* k_thread_start
    /\ main = "thread" /\ main' = "ended"
    /\ done' = done \cup {"thread"}
    /\ UNCHANGED <<callbacks, mgmtVars, http, pwmVars, failures, presses>>

Main ==
    \/ CheckPwm \/ ShowRed \/ InitButtons \/ InitSensors \/ CertProvision
    \/ SetHandlers \/ InitEvents \/ ScanWifi \/ RegisterReady \/ StartThread

----------------------------------------------------------------------------
(* The network-management thread: handle_wifi_connect_result. *)

(* Mutant of Connected: the LED first, the server at the end. *)
ConnectedShowsFirst ==
    /\ "events" \in done
    /\ mgmt = "idle" /\ ~connected
    /\ mgmt' = "led" /\ SetColor("mgmt", Green)
    /\ UNCHANGED <<mainVars, connected, server, http, failures, presses>>

Connected ==        \* calls wifi_connected_handler, if main has set it
    /\ "events" \in done
    /\ mgmt = "idle" /\ ~connected
    /\ mgmt' = "led"
    /\ IF "handlers" \in done
       THEN server' = TRUE /\ SetColor("mgmt", Green)
       ELSE UNCHANGED <<server, pwmVars>>
    /\ UNCHANGED <<mainVars, connected, http, failures, presses>>

SetConnected ==
    /\ mgmt = "led" /\ at["mgmt"] = 0
    /\ mgmt' = "idle" /\ connected' = TRUE
    /\ UNCHANGED <<mainVars, server, http, pwmVars, failures, presses>>

Disconnected ==     \* handle_wifi_disconnect_result
    /\ mgmt = "idle" /\ connected
    /\ connected' = FALSE
    /\ UNCHANGED <<mainVars, mgmt, server, http, pwmVars, failures, presses>>

Mgmt == Connected \/ SetConnected \/ Disconnected

----------------------------------------------------------------------------
(* The HTTP thread. *)

PostLed ==          \* parse_led_post does not look at the range of the values
    /\ server /\ http = "idle" /\ "led" \in callbacks
    /\ http' = "led"
    /\ \E c \in Posted : SetColor("http", c)
    /\ UNCHANGED <<mainVars, mgmtVars, failures, presses>>

PostJwt ==          \* parse_jwt_post
    /\ server /\ http = "idle" /\ "jwt" \in callbacks
    /\ http' = "yellow" /\ SetColor("http", Yellow)
    /\ UNCHANGED <<mainVars, mgmtVars, failures, presses>>

(* After the request, whatever became of it.  The return after a failing    *)
(* snprintf, which would leave the LED yellow, is left out: copying a string *)
(* does not fail.                                                           *)
Located ==
    /\ http = "yellow" /\ at["http"] = 0
    /\ http' = "led" /\ SetColor("http", Green)
    /\ UNCHANGED <<mainVars, mgmtVars, failures, presses>>

PostEnds ==
    /\ http = "led" /\ at["http"] = 0
    /\ http' = "idle"
    /\ UNCHANGED <<mainVars, mgmtVars, pwmVars, failures, presses>>

Http == PostLed \/ PostJwt \/ Located \/ PostEnds

----------------------------------------------------------------------------
(* Button 1. *)

(* button_handler, called from the system work queue.  A websocket that      *)
(* stalls holds that queue up (WsSensors), so a press may come late; a board *)
(* that does not serve has no websocket.                                    *)
PressButton ==
    /\ "buttons" \in done
    /\ IF main = "stopped"
       THEN UNCHANGED presses
       ELSE presses < MaxPresses /\ presses' = presses + 1
    /\ Reset
    /\ UNCHANGED failures

Next == Main \/ Pwm \/ Mgmt \/ Http \/ PressButton

Spec == Init /\ [][Next]_vars

(* The threads run; the network accepts the station once start_app asks for  *)
(* a connection; and somebody presses the button of a board that stopped    *)
(* without serving, whose work queue nothing holds up.                      *)
FairSpec ==
    /\ Spec
    /\ WF_vars(Main) /\ WF_vars(Pwm) /\ WF_vars(SetConnected)
    /\ WF_vars("thread" \in done /\ Connected)
    /\ WF_vars(main = "stopped" /\ ~server /\ PressButton)

----------------------------------------------------------------------------
TypeOK ==
    /\ main \in {"pwm", "red", "buttons", "sensors", "certificate", "handlers",
                 "events", "scan", "ready", "thread", "ended", "stopped"}
    /\ done \subseteq {"pwm", "buttons", "sensors", "certificate", "handlers",
                       "events", "scan", "ready", "thread"}
    /\ callbacks \subseteq Resources
    /\ mgmt \in {"idle", "led"} /\ connected \in BOOLEAN /\ server \in BOOLEAN
    /\ http \in {"idle", "yellow", "led"}
    /\ at \in [Threads -> 0 .. 3] /\ bytes \in [Threads -> [Channels -> Byte]]
    /\ led \in [Channels -> 0 .. Period] /\ recent \subseteq Threads
    /\ failed \in BOOLEAN
    /\ failures \in 0 .. MaxFailures /\ presses \in 0 .. MaxPresses

(* No request and no connection meets a board that is half set up: the       *)
(* server runs only when the sensors, the certificate and every callback    *)
(* are there, though it is another thread than main that starts it, as soon *)
(* as events are delivered; and a connection always starts it.              *)
ServerHasHandlers ==
    /\ server => callbacks = Resources /\ {"sensors", "certificate"} \subseteq done
    /\ connected => server

(* Readme.md: "The website is active when the front-facing LED turns green." *)
GreenMeansActive == led[2] # 0 => server

(* Once every call has ended, and unless one failed since the latest began, *)
(* each channel shows what the latest asked for or a call that it overtook: *)
(* never a leftover of a call that was over by then, never a brighter value, *)
(* and the exact part of the period unless its product exceeds 32 bits.     *)
(* Different channels may show different calls.                             *)
Exact(b) == (Gamma[b] * Period) \div 255

LedShowsRecentCalls ==
    (\A t \in Threads : at[t] = 0) /\ ~failed =>
        \A ch \in Channels : \E t \in recent :
            LET b == bytes[t][ch] IN
            /\ led[ch] <= Exact(b)
            /\ Gamma[b] * Period < Word => led[ch] = Exact(b)

(* The exception to what follows: with the PWM not ready or the button not   *)
(* initialised main has returned with nothing that could bring the board up *)
(* again.                                                                   *)
Dead == main = "stopped" /\ "buttons" \notin done /\ ~server

(* A board whose main returned on an error comes to serve: it was already    *)
(* connected, or resets bring it through every step of main and to a        *)
(* connection, unless it ends up stopped before the button works.           *)
RecoversByReset == main = "stopped" ~> server \/ Dead

DeadIsForGood == [](Dead => []Dead)

(* Why: what main has done before another step, and what it had done before *)
(* it stopped.                                                              *)
Before(a, b) == b \in done => a \in done

BootOrder ==
    /\ Before("buttons", "sensors") /\ Before("sensors", "certificate")
    /\ Before("certificate", "handlers") /\ Before("handlers", "events")
    /\ main = "sensors" => "buttons" \in done
    /\ main = "certificate" => "sensors" \in done
    /\ main = "handlers" => "certificate" \in done
    /\ main = "events" => "handlers" \in done
    /\ main \in {"scan", "ready", "thread", "ended"} => "events" \in done
    /\ main \in {"pwm", "red", "buttons", "sensors", "certificate", "handlers", "events"}
         => "events" \notin done
    /\ "handlers" \in done => callbacks = Resources

(* Only red is shown before the server runs, and only the three callers     *)
(* show anything.                                                           *)
CallsInv ==
    /\ server => "events" \in done
    /\ connected \/ mgmt = "led" => server
    /\ at["mgmt"] # 0 => mgmt = "led"
    /\ at["http"] # 0 => http # "idle"
    /\ http # "idle" => server
    /\ ~server => bytes["main"][2] = 0
    /\ main \in {"pwm", "red"} => at["main"] = 0

(* A call that runs is a recent one, and a channel that every running call   *)
(* has passed shows a recent one.                                           *)
Passed(ch) == \A t \in Threads : at[t] # 0 => ch < at[t]

GroupInv ==
    /\ \A t \in Threads : at[t] # 0 => t \in recent
    /\ ~failed => \A ch \in Channels : Passed(ch) =>
          \E t \in recent : led[ch] = Pulse(bytes[t][ch])

BootInv ==
    /\ TypeOK /\ BootOrder /\ CallsInv /\ GroupInv
    /\ ServerHasHandlers /\ GreenMeansActive

(* For main, the button and the server the network-management thread is the *)
(* Station that WifiSta implements, restarted by the button.                *)
AbstractStation == INSTANCE Station WITH handling <- mgmt = "led"

ImplementsStation == AbstractStation!RestartSpec
=============================================================================
