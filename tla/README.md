# TLA+ verification of the Thingy:91 X suitcase demo

The program is a Zephyr application for the nRF5340 of a Nordic Thingy:91 X. It
joins a Wi-Fi network, serves a web page, pushes sensor readings to the page over
websockets, sets an RGB LED on the page's command, and asks nRF Cloud where the
board is, with the scanned Wi-Fi access points and a token the user pastes into
the page. This directory holds TLA+ modules of it, TLC configurations that check
them on small instances, and TLAPS proofs for every value of the constants.

Contents: [1 inventory](#1-inventory), [2 modules](#2-modules-and-plan),
[3 how state and actions correspond to the code](#3-how-the-modules-correspond-to-the-code),
[4 runs](#4-runs), [5 fairness](#5-fairness), [6 proofs](#6-proofs),
[7 findings](#7-what-the-code-does-and-its-comments-deny),
[8 what is left out](#8-what-is-left-out).

## 1. Inventory

Threads and contexts that matter:

| context | priority | runs |
|---|---|---|
| HTTP server | one preemptible thread | every resource callback: `led_handler`, `jwt_handler`, `location_handler`, `ws_sensors_setup`, and inside `jwt_handler` the whole location request |
| system work queue | one cooperative thread | `sensor_handler` of every websocket |
| network management | one cooperative thread | the Wi-Fi event handlers, and `wifi_connected_handler`, which starts the server |
| `start_app` | cooperative (`K_PRIO_COOP`) | waits for the driver, connects, polls |
| supplicant | its own | `wifi_ready_cb`, posts events |
| `sensor_gas_thread` | preemptible, priority 7 | measures the BME680 every 250 ms |
| `main` | preemptible | initialises everything, then returns |
| `button_handler` | on the system work queue, from the button library | cold reboot |

There is not one mutex or atomic in `src/src`: what is shared is shared bare.

| component | state it keeps | operations | what makes it correct |
|---|---|---|---|
| Sensor websocket (`main.c`) | `ws_sensors_ctx[]`: a descriptor and a delayable work item per slot | `ws_sensors_init`, `get_free_sensor_slot`, `ws_sensors_setup`, `sensor_handler` | no slot or descriptor is used by two connections or lost; a connection keeps being served, and a dead one is noticed |
| Wi-Fi station (`wifi.c`) | `context.connected`, `.connect_result`, `wifi_ready_status`, a binary semaphore | `start_app`, `wifi_connect`, the two result handlers, `wifi_ready_cb` | the flags agree with the link in the end; no change of readiness is missed; the server runs before the board says it is connected |
| POST resources (`main.c`) | `post_payload_buf`, `cursor` of `/led` and `/jwt` | `led_handler`, `jwt_handler`, `parse_led_post`, `parse_jwt_post` | the parsers read the body that was posted |
| Location resource and its page (`main.c`, `main.js`) | `location_buf`, `response_sent`; the page's attempts | `location_handler`, `postJWT`, `fetchLocation` | a page shows the location that is known |
| nRF Cloud request (`https_request.c`) | `send_buf`, `recv_buf`, the descriptor and address list of a request | `send_http_request`, `tls_setup` | every path gives back what it took; the answer read is this request's |
| Sensors (`sensors.c`) | `temp`, `press`, `hum`, `gas` | `sensor_gas_thread`, `sensor_measure`, `sensors_get_json` | a message is a snapshot of one moment |
| Wi-Fi scan (`wifi.c`) | `nrfcloud_api_str`, its cursor, a semaphore | `wifi_scan`, the scan handlers, `get_nrfcloud_api_str` | the list is complete and within its buffer |
| RGB LED (`main.c`) | three PWM channels | `pwm_set_color`, called by `main`, `wifi_connected_handler`, `parse_led_post`, `parse_jwt_post` | the LED ends with the colour of a call that nothing followed; green means the server was started |
| Boot and reset button (`main.c`) | the callbacks of the resources and of the station | `main`, `button_handler` | nothing is used before it is initialised; a reset helps |
| TLS credentials (`https_request.c`) | an entry of the credential store | `cert_provision` | there before the first request |
| Web page (`main.js`) | plots, orientation, colour wheel, websocket | callbacks | the page follows the board |
| Static resources, build | none | none | |

How they interact. `wifi_connected_handler` starts the server from the
network-management thread. `jwt_handler` calls `parse_jwt_post`, which calls
`get_nrfcloud_api_str` and `send_http_request` on the HTTP thread, so that a slow
cloud stops the web server, and stores the outcome in `location_buf`, which
`location_handler` sends later to any page. `ws_sensors_setup` claims a slot on the
HTTP thread, `sensor_handler` frees it on the work queue. `sensor_handler` calls
`sensors_get_json`, which reads the globals of the gas thread. `main` sets the
callbacks of the resources and of the station before `net_mgmt_callback_init`, from
which on other threads may run them; `main`, the network-management thread and the
HTTP thread all set the LED.

What is hard here: the HTTP thread and the work queue meet in `ctx[].sock` while
descriptor numbers are reused; the flags of the station are written by two threads
and refer to events still in a queue; the handlers keep static cursors, flags and
buffers across requests of different clients; error paths return from the middle;
blocking calls have no time limit. `PROJECT.json` lists these hazards, each at its
line with the properties that would catch it, or the reason none does.

## 2. Modules and plan

| module | of | state |
|---|---|---|
| `WsService` | what the websocket resource promises: a pool of slots (abstract) | done |
| `WsSensors` | the websocket resource, thread step by thread step; implements `WsService` | done, proved |
| `Station` | what the station promises to the rest of the firmware (abstract) | done |
| `WifiSta` | the station; implements `Station` | done, proved |
| `PostHandlers` | the POST resources | done, proved |
| `Location` | `/location` and the pages that fetch it | done, proved |
| `CloudRequest` | what a location request promises to the HTTP server and the page (abstract) | done |
| `HttpsRequest` | the location request; implements `CloudRequest` | done, proved |
| `Sensors` | the gas thread and the work queue's copy of its readings | done, proved |
| `WifiScan` | the scan at boot, its list appended by events and copied by the HTTP thread | done, proved |
| `Boot` | `main` step by step, what other threads do to a board half set up, the LED, resets; implements `Station` with resets | done, proved |

What could come next: `WebServer`, `PostHandlers`, `Location` and `HttpsRequest` under the one
HTTP thread, with the theorem that it implements each of them. They are
checked apart, each with the others' steps as its environment.

Each `X` comes with `MCX` (constants for TLC) and `X_proofs` (theorems), and with its
properties and their mutants: a definition above the original it replaces, marked as
a mutant in its comment, is a plausible bug in that code, and under it the named
property fails. `WsService`, `Station` and `CloudRequest` are abstract; each other module is a component with its
environment: a request in `HttpsRequest` is the `locating` step of `PostHandlers`, the
`jwt` step of `Location` and the `yellow` step of `Boot`; a scan in `WifiScan` is `ScanWifi` of
`Boot`; a connection in `WifiSta` is `Connected` of `Boot`. That `Boot`'s few station actions are
no other station than `WifiSta`'s is what `Station` is for: both implement it.

The order follows what the program loses by a mistake: first the state two threads
share and a client occupies for ever, then the state every request shares, then what
one request can lose, at last what main has set up when requests begin.

## 3. How the modules correspond to the code

One action is one stretch of code between two points where another thread can
interfere or a call can fail. Each definition's lines are in `PROJECT.json`, "map".

**WsSensors.** `sock` is `ctx[i].sock`. The HTTP thread: `Upgrade` (the server hands a
descriptor over), `ScanSlot` (one iteration of `get_free_sensor_slot`), `RefuseUpgrade`,
`Claim` and `Schedule` (two statements of `ws_sensors_setup`, between which the work
queue runs). The work queue: `TakeWork`, `Collect`, `Send`, `Reschedule`, `Unregister`,
`Clear`, the steps of `sensor_handler`. `delayed` and `queue` are where Zephyr keeps a
delayable work item. `conn` is the world's view of each descriptor: free numbers are
handed out again at once, which is what makes the gap between
`websocket_unregister` and `ctx->sock = -1` interesting. `Send` is not enabled while the
peer is stalled: it waits with `SYS_FOREVER_MS`.

`full` and `stuck` are auxiliary: whether every slot was held when the upgrade came,
and the slots whose first `k_work_reschedule` failed, which the code neither serves
nor frees.

**WifiSta.** `pc` is `start_app`'s place in its loops; `handler` is the place of the
network-management thread in `handle_wifi_connect_result`; `events` is the queue of
the management thread. `start_app` is cooperative, so the two assignments of
`wifi_connect` are one step; the handler's two assignments are two, so that
the model also covers a management thread configured preemptible (a write of one of
the bit-fields is taken as whole, as it is between cooperative threads). A request while the link is up brings it down, and its
disconnection is announced. `context.disconnect_requested` is left out: nothing sets
it. The real queue drops an event when it stays full for
`NET_MGMT_EVENT_QUEUE_TIMEOUT`; here the sender waits. Auxiliary: `seen`, the readiness
`start_app` last read; `refused`, whether the last request was refused. As a `Station`,
a connection is being handled from the start of the server to the setting of the flag
(`handler` at the LED or the flag), and `wifi_connect`'s clearing of the flag is a loss
of the connection like an announced one.

**PostHandlers.** A byte is a cell [request, place]. `Begin`, `More`, `FinalLed`,
`FinalJwt`, `Overflow` and `Abort` are the calls the server makes of the handlers, with
a chunk of any size; `Located` is the return from the location request, during which
the thread serves nobody, and the reset of the cursor that follows it. `parsed` is what
the parsers were handed. A body is never read by its content: only where each byte
came from matters, and a body has any length, also less than the frame `{"jwt":"..."}`
that the page puts around a token. `String` is what `snprintf` reads from `buf + 8` on, to
the first zero byte; a buffer that is full has none, and the read goes on into the
memory behind it: up to `MaxBeyond` bytes, any number of them. `Left` is what
`temp_buff` keeps of it: what it has room for, without the last two characters. Of a
string shorter than those two, or longer than `temp_buff` by more than them, the code
sets a byte outside `temp_buff` to zero: what that overwrites is not modelled
(a hazard without a property).

**Location.** `ServeGet`, `AnswerLocation`, `AnswerEnd` and `AnswerAborted` are the calls
the server makes of `location_handler`: again and again until it returns 0.
`ServeJwt` and `SetLocation` bracket `parse_jwt_post`, which overwrites `location_buf` with
the new outcome, empty when the request failed early. The pages are `SubmitJwt`,
`StartFetching`, `FetchAgain`; a delay of five seconds is an arbitrary one. A page that
opens and each press of its button run a chain of `fetchLocation` calls that knows of no
other, so a member of `Chains` is such a chain: two of them are two pages, or a button
pressed again while the first fetch still runs, and one that is over may be taken for
the next press. An answer in `Json` ends a chain; any other, empty or the garbage that
the parsing of an answer cut short leaves, makes `response.json()` throw and costs an
attempt. Auxiliary: `missed`, the requests answered empty since the location was set;
`shown`, what a chain made the page show.

**HttpsRequest.** One action per call that can fail, in the order of the code, with
its label: `LookupFails` and `LookupSucceeds` (the retry loop), `OpenSocket`, `SetupTls`,
`Connect`, `Format`, `Send` (one iteration of its loop, which takes any part of what is left),
`SendFails`, `Receive` (the same of the other loop), `ReceiveFails`, `ReceiveEnds`, `Answer`, `CleanUp`.
`Format` and `SendFails` have the two returns that skip `clean_up`. `recvBuf` says which request wrote
each unit, `text` is how far the string functions read. `pc = "fault"` is where the
code reads address 4. Auxiliary: `abandoned`. As a `CloudRequest`, a request is busy from
the call to its return, its outcome is `location_str`, and the contexts of the
abandoned requests are the lost ones; a context in use is not.

**WifiScan.** `main` is the place of the boot thread in `wifi_scan`. The driver's results
and ends wait in `events`, which has the places of the real queue and drops what finds
it full. `HandleResult` counts in `scanResult` and appends, `HandleDone` resets and gives the
semaphore. A character of the list is a cell [scan, result, place], so that a copy of
the beginning of one list and the end of another would show. The append is one
step, since the network-management thread is cooperative; `ScanTimesOut` needs a
semaphore not given, as `k_sem_give` wakes the waiter and ends its time limit; the copy on the
preemptible HTTP thread is one step a character (`CopyCharacter`) up to the zero byte,
behind which `strncpy` fills the copy with zeros, to no effect on the string. Auxiliary:
`own`, which scan is main's; `lost`, whether an event was dropped, and `endLost`, the scans
whose end was. The HTTP thread may copy
before main's scan ends: the shell can connect the board, and so start the server, in
the second that `net_mgmt_callback_init` sleeps. The scan's events are taken to be
delivered: the mask of `wifi.h:12` does not name them, and how the library matches it
is not in the repository.

**Sensors.** The gas thread stores a word a step (`StoreWord`), fails at any
`sensor_channel_get` (`GetFails`) and then ends; the work queue copies all words in one
step (`FetchAdxl367`), since it is cooperative and blocks only in a driver.

**Boot.** `main` is the step that comes next, `done` the steps that succeeded, `callbacks`
the resources whose `cb` is no longer NULL. A step is `Try`: it succeeds and leads on, or
fails and main returns (`"stopped"`), the other threads running on. `Connected` and
`SetConnected` are `handle_wifi_connect_result` before and after the callback,
`Disconnected` the other handler; a connection may come at any moment, as the shell can ask
for one. `PostLed`, `PostJwt`, `Located` and `PostEnds` are the HTTP thread. Any of the three
threads calls `pwm_set_color`: `SetColor` converts the colour and `SetChannel` sets one
channel, or fails and leaves the rest; `at` is each thread's channel, `bytes` its colour.
`Converted` is the float passed as a `uint8_t`, undefined for the values a client may post
out of range; `Gamma` is the table of `apply_gamma`; `Pulse` has the product in 32 bits.
`PressButton` resets RAM and peripherals. It runs on the system work queue, which a
stalled websocket holds up: it may come at any time, and is fair only on a board that
does not serve, which has no websocket. `parse_jwt_post`'s return between yellow and
green, for a failing `snprintf`, is left out. Auxiliary: `recent`, the threads whose
calls of `pwm_set_color` count for what the LED shows, the latest and those it met still
running, and `failed`, whether a call failed since.

## 4. Runs

Twelve runs. A passing run checks a component's properties; a violating one checks
a single sentence of the repository's comments or Kconfig that the code does not keep.

| run | instance | shows |
|---|---|---|
| `ws_sensors` | 2 slots, 3 descriptors, reschedules may fail | the two threads never share a slot or a descriptor and lose none (`DrivenSlotOwnsSocket`, `NoDescriptorLeak`, `HeldSlotIsDriven`); the code implements the pool (`ImplementsService`); connections keep being served and dead ones are released when stalls end |
| `ws_head_of_line` | 2 slots, 2 descriptors | a peer that stops reading stops the other slots |
| `wifi_sta` | 3 events waiting, requests may be refused | the flag agrees with the link and no change of readiness is missed (`NoLostReadyChange`, `ConnectedIsTrue`, `LinkIsNoticed`); the code implements `Station`: the server first, then the flag (`ImplementsStation`); `PollEnds`, `ReadyIsFollowed`, `FlagSettles` |
| `post_assembly` | 3 requests, buffers of 2 and 4 cells | `AssembledBody`, and where the token handed to the cloud request ends (`TokenEndsUnlessLongerBefore`) |
| `post_stale_token` | the same | a token has the end of an older, longer one behind it |
| `location` | 2 chains of fetches, 2 tokens each, 3 attempts, 1 broken connection, an answer that is JSON and one that is not | `OneMissAtMost`, `SpareAttemptsAreKept`, `FetchSucceeds` |
| `location_withheld` | the same | a known location is answered with nothing |
| `https_request` | 2 TLS contexts, 4 requests, sent in up to 4 pieces, lists of 0, 1 and 9 access points | `OnlyAbandonedRequestsLeak`, `AnswerIsFresh`, `RequestProgresses`, `RequestEnds`; the code implements `CloudRequest` (`ImplementsCloudRequest`) |
| `https_too_long` | the same, 1 request | a full scan and a long token do not fit `send_buf` |
| `wifi_scan` | 3 scans of up to 3 results, 2 listed of each, a queue of 3, a string of 3½ entries | `CopyIsTheList`, `BootListIsComplete`, `EveryScanIsListed` |
| `sensors_snapshot` | 4 values, 3 measurements | `TornAtOnePlace`, `ReadingsGoForward` |
| `boot_led` | 2 failing calls, 1 press while running, 3 posted colours, the real gamma table and period | `ServerHasHandlers`, `GreenMeansActive`, `LedShowsRecentCalls`, `RecoversByReset` |

Every passing run also checks the component's inductive invariant, the one that is
proved; the module's `TypeOK` is a part of it, and so are `ConnectedMeansServing`
(`WifiInv`), `LedCommandIsTheBody` and `TokenBeginsWithPosted` (`PostInv`), `WholeEntries`,
`CountIsReset` and `MainIsWoken` (`ScanInv`).

Why the bounds are enough:

- Slots: two is the code's default. Three descriptors let both slots be held while a
  third client asks, and let a number come back as that third client's while its old
  slot is being cleared. More of either adds only copies: no statement compares
  more than one slot with the upgrade in progress.
- Events: three holds a connection, its loss and the next connection at once, which is
  what the handlers' tests of `connected` could confuse. The proof is for any number.
- Requests: a buffer remembers at most what two older requests left and the current
  one writes. The buffers are small enough to be filled, overrun by one and partly
  overwritten, and the JSON frame of one and one cell leaves a token of two, and bodies
  shorter than it. One byte read behind the buffer is enough to be seen, and is one too
  many for a `temp_buff` of three.
- Chains of fetches: two, so that the flag left over by one meets a request of the other. Three
  attempts are two more than one break can spoil.
- Location requests: two TLS contexts (`prj.conf`), so four requests can leak both and
  then find none. The lengths are those the program can meet: 57 characters an
  access point, the 502 characters of token that `jwt_handler` lets through, and the
  845 characters the fixed text of 178 leaves of `send_buf`. A request of four units is
  sent in one to four pieces, of different sizes.
- Scans: the first two entries of three results are listed, so the code's limit counts; two
  scans fill the string and cut an entry, the third finds it full.
- Boot: a board that stops, restarts and stops again needs two failures, a reset in
  the middle of anything one press. Resets of a stopped board are not counted. Times
  are in units of 256 ns, so that the 20 ms of the overlay and 2^32 ns are exact
  (78125 and 16777216) and TLC's integers hold the products. The colours are one in the
  range of the product, one beyond it and one that is no colour.
- Measurements: three, so that a copy could mix the first with the last, and does not.

`CHECK_DEADLOCK FALSE` is in the runs of `Location`, `HttpsRequest`, `WifiScan` and `Boot` only, where
the bounded tokens, requests and scans come to an end, the request has faulted, or
main has returned (in `Boot`, before the button works).

## 5. Fairness

The kernel runs a thread that can run and fires every timer: weak fairness of each
thread and timer. Nothing else is taken for granted of the code. Of the environment:

- `StallsEnd` (`WsSensors`): a peer that stops reading resumes or is reset by TCP, and a
  sender blocked on the window is woken when it opens (strong fairness of `Send`, as a
  peer may stall again at once). Without it, `ws_head_of_line` is what happens.
- `WF(AttemptEnds)` (`WifiSta`): the supplicant answers an attempt. It has time limits
  of its own; `start_app` has none: nothing reads the limit of Kconfig (section 7).
- `WF(Connected)` once `start_app` runs, `WF(PressButton)` of a board that stopped and does
  not serve (`Boot`): the network accepts the station in the end, and somebody who sees
  no web page resets the board, whose work queue then has no websocket to wait for.
  The rest of `Boot` is threads that run.
- `SF(ServeGet(c))`, `SF(ServeJwt(c))` (`Location`): the server polls its sockets in turn and
  passes over no request for ever.
- `WF(CloudTakes)` and `WF(CloudEnds)` (`HttpsRequest`): the cloud reads what is sent, and
  answers "Connection: close" by closing, or TCP gives up. Neither `send()` nor `recv()` has
  a time limit of its own.

## 6. Proofs

All are of the form `Spec => []Inv`, `Spec => [][A]_vars` or `Spec => AbstractSpec`, by one
inductive invariant a module, for any number of slots, descriptors, events, requests,
chains of fetches, contexts, scans, values and for any buffer size. Every invariant, action property
and refinement a run checks is a theorem.

| module | inductive invariant | why the property alone is not inductive |
|---|---|---|
| `WsSensors_proofs` | `WsInv` | that two slots never hold one descriptor needs that a fresh number is held by no slot still driven; that needs that a work item is in one place only (`OnePlacePerWorkItem`), that a slot between claim and first submission has none anywhere, and that no-one but the HTTP thread fills a free slot (`ThreadsConsistent`) |
| `WifiSta_proofs` | `WifiInv` | that the flag tells the truth when the queue is empty needs what the queue holds when it is not: on a link that is down, a disconnection comes behind every connection announced (`DownIsAnnounced`); on one that is up, a connection not followed by one (`UpIsAnnounced`). That the server precedes the flag needs what is true while the handler is between the two (`HandlerInv`) |
| `PostHandlers_proofs` | `PostInv` | what was parsed is the body because the buffer is, at every chunk, the beginning of the current one (`AssembledBody`). What follows a token depends on every earlier body: that the bytes ever written are the beginning of the buffer, each at its own place (`WrittenInv`), and that the token goes on to the first zero (`TokenInv`) |
| `Location_proofs` | `LocationInv` | one miss at most, because the miss itself clears the flag and a response in progress carries the location (`FlagInv`) |
| `HttpsRequest_proofs` | `HttpsInv` | what leaks is known between requests only if what is held is known at each label (`InfoInv`, `ContextInv`), and which bytes are fresh at each `recv` (`BufferInv`); that a request has one outcome at most needs that there is none before `Answer` (`OutcomeInv`) |
| `WifiScan_proofs` | `ScanInv` | the copy is the list when it ends because at every character it is the beginning of the list (`CopyIsAPrefix`): the list is never cleared nor changed, only appended to; a list that starts over at each scan, as one may wish it did, breaks this. That main's list is complete needs what the queue still holds while the scan runs (`OwnScan`, `Pending`), that main is woken (`MainIsWoken`), that an end comes behind its results (`EndComesLast`), and that every scan is listed, how far each event still queued will take the count (`CountInv`) |
| `Sensors_proofs` | `SensorsInv` | the copy is torn at one place because the globals are (`GasInv`), and readings go forward because no copy is newer than the globals |
| `Boot_proofs` | `BootInv` | that the server meets no board half set up needs which steps lie behind main at each step (`BootOrder`) and that events come only after them (`CallsInv`); that the LED ends with recent calls, that a channel which every running call has passed already shows one of them (`GroupInv`) |

Four refinements, each under the module's invariant: the initial state maps to the
abstract one's and every step to a step of it or a stutter.

- `WsImplementsService`. A slot serves from the claim until its descriptor is
  unregistered (`ServiceServing`), a slot being cleared, or stuck, is closing
  (`ServiceClosing`), a client is asking while it is not claimed (`ServiceAsking`).
  `ScanFindsFreeSlot`, a part of `WsInv`, is what shows that nobody is refused while a slot
  was free all along: the scan goes forward, and slots that become free behind it are
  the only ones it misses. What follows of the pool alone, that no connection is served
  twice, is proved of `WsService` and carried over (`WsServesExclusively`).
- `WifiImplementsStation` and `BootImplementsStation`. `Boot` starts the server and sets
  the flag in two steps that may come at any moment; `WifiSta` gets there through the
  supplicant, the event queue and two handlers. Both are the same `Station`, `Boot` with
  resets, so the LED and the order of set-up are checked against the station there is.
- `HttpsImplementsCloudRequest`. The step that matters is `CleanUp`, which must give back
  the context of its own request and never that of an abandoned one: the descriptor
  that `clean_up` closes is -1 or this request's (`ContextInv`). `CloudRequest` then has a
  consequence a user sees, proved of it and carried over: once the last context is lost
  no request gets a location again (`HttpsExhaustionIsForGood`); with the two of
  `prj.conf`, after two requests too long or failing in `send()`.

Liveness itself is out of the prover's reach; what can be proved of it is the safety
argument it rests on:

| liveness, model-checked | its safety core, proved |
|---|---|
| `SlotsKeepBeingServed` | `WsNoSlotLeak`: a held slot is between claim and submission, has its work item pending or running, or is stuck |
| `DeadPeerIsReleased` | `WsNoDescriptorLeak`, `WsExclusiveOwnership`: the descriptor has one owner, who is the one to release it |
| `ReadyIsFollowed` | `WifiNoLostReadyChange`: a change that `start_app` has not read has left the semaphore given, or is about to be |
| `FlagSettles` | `WifiConnectedIsTrue`, `WifiLinkIsNoticed`: with every event handled the flag is the link's |
| `FetchSucceeds` | `LocationSparesAttempts`: with a location known that is JSON, only what a break or a leftover flag costs is ever taken off the attempts a chain has to spare |
| `PollEnds` | `WifiPollIsAnswered`: while `start_app` polls, an attempt is open or its answer on the way, or the request was refused |
| `RequestEnds` | `HttpsRequestProgresses`: every step of a request, every piece sent and received among them, lowers a natural number, so it waits in a call or ends |
| `RecoversByReset` | `BootDeadIsForGood`: its exception is final, a board that stopped before the button works never serves |

`ScanTimeOutHasACause` has no liveness property behind it: main waits with a limit, and
the theorem says when it can be reached.

The assumptions are the ones named in the modules: at least one slot, a sentinel
that is no descriptor, positive limits, a JSON frame that fits its buffer, with a token that
fits `temp_buff`. TLC evaluates
each on its instance.

`Boot_proofs` also has two theorems of the pulse alone: while the product fits 32 bits a
brighter byte has a pulse at least as long (`BootBrighterIsLonger`), and when 255
periods do not fit, full scale is not the full period (`BootFullScaleIsCut`).

Only model-checked: the liveness properties (`SlotsKeepBeingServed`,
`DeadPeerIsReleased`, `PollEnds`, `ReadyIsFollowed`, `FlagSettles`, `FetchSucceeds`, `RequestEnds`,
`RecoversByReset`), since the prover does neither fairness nor ENABLED, and the violations,
which are traces. Conversely some theorems are about properties that no run lists, to
keep the runs to one property a question: `ConnectedMeansServing`, `PollIsAnswered`,
`LedCommandIsTheBody`, `TokenBeginsWithPosted` and `WholeEntries` are conjuncts of the
invariants the runs check; `Exclusive` follows from the refinement, `ExhaustionIsForGood`,
`DeadIsForGood`, `OneValueIsTorn`, `TimeOutHasACause` and `Boot`'s `ImplementsStation` hold on the
instances of their modules' runs as well.

## 7. What the code does and its comments deny

- `ws_head_of_line`: Kconfig says each websocket is served by a thread. All are served by the
  one work queue thread, and one that stops reading blocks it.
- `post_stale_token`: the token is cut out of the buffer up to its first zero byte,
  not of the body posted. After a longer body, the end of that one follows.
- `location_withheld`: `response_sent` says a response was sent. It stays set when there was
  no location to send, and the next request, of any client, gets an empty answer.
- `https_too_long`: the buffer is "large enough to hold headers and body". Nine access points and the
  longest token are too long for it, and that return leaks a descriptor.

Two facts no run is about, as no sentence of the repository denies them in a way a run
could show. Kconfig has a connection timeout of 70 s that nothing reads. And
`corrected_red * period` has 32 bits, while the overlay's period is 20 ms: corrected values
from 215 on wrap, which a posted red or green of 236 reaches. 235 lights the channel for 84 %
of the period, 236 for 0.1 %, 255 for 15.8 %; so the green of a connected board is dim.
Blue, scaled by 0.8, stays below. `BootFullScaleIsCut` is exact about it, and
`LedShowsRecentCalls` says what is left for such values: no channel is ever too bright.

Three facts hold in a weaker form than one would wish, and the properties say so:
`BootListIsComplete` speaks of a first scan that is main's own (the end of a scan of
the shell, asked for in the second before it, wakes main as well, and main's list is
then the beginning of one), `HeldSlotIsDriven` excepts a slot whose first `k_work_reschedule` failed, which is lost
until reboot, and `OnlyAbandonedRequestsLeak` names the two returns that leak.
`RecoversByReset` has an exception as well, the board whose main returned before
`dk_buttons_init`: a board that stops is connected already, comes to serve after resets, or
ends up as that one. And the three channels of the LED may end with different calls:
`LedShowsRecentCalls` says with which, no more.

## 8. What is left out

- The heap listeners of `main.c`: they only log.
- `sensors_get_json`'s formatting and the timestamp: wording, except that the timestamp
  wraps (a hazard without a property): the code only hands the counter on.
- The web page's plots, orientation filter and colour wheel: drawing and floating-point
  arithmetic. Its websocket is never reopened; a property of it would restate that.
- Static resources, the build and boot loader configuration: data.
- Zephyr itself, the supplicant, the browsers and nRF Cloud appear as far as the code
  calls them: each module's header says how.
