---------------------------- MODULE Boot_proofs ----------------------------
(***************************************************************************)
(* The proofs of Boot: the order of main's steps keeps the other threads    *)
(* from a board that is half set up, and the LED shows what it was told to  *)
(* of late, whatever the colours, the failures and the resets.             *)
(***************************************************************************)
EXTENDS Boot, TLAPS

LEMMA ProductBound ==
    ASSUME NEW b \in Byte
    PROVE  Gamma[b] * Period \in Nat /\ Gamma[b] * Period <= 255 * Period
<1>1. Gamma[b] \in Byte
  BY GammaAssumption
<1>2. Gamma[b] \in Nat /\ 255 - Gamma[b] \in Nat /\ Period \in Nat
  BY <1>1, BootAssumption DEF Byte
<1>3. (255 - Gamma[b]) * Period \in Nat
  BY <1>2
<1>. QED BY <1>2, <1>3

(* A pulse is a part of the period, and no pulse for 0. *)
LEMMA PulseBound ==
    /\ \A b \in Byte : Pulse(b) \in 0 .. Period
    /\ Pulse(0) = 0
<1>0. Period \in Nat /\ Word \in Nat /\ Word # 0
  BY BootAssumption
<1>1. ASSUME NEW b \in Byte PROVE Pulse(b) \in 0 .. Period
  <2>. DEFINE p == Gamma[b] * Period
  <2>1. p \in Nat /\ p <= 255 * Period
    BY ProductBound
  <2>. HIDE DEF p
  <2>2. p % Word \in Nat /\ p % Word <= p
    BY <1>0, <2>1
  <2>3. (p % Word) \div 255 \in 0 .. Period
    BY <1>0, <2>1, <2>2
  <2>. QED BY <2>3 DEF Pulse, p
<1>2. Pulse(0) = 0
  <2>1. Gamma[0] * Period = 0
    BY <1>0, GammaAssumption
  <2>2. 0 % Word = 0
    BY <1>0
  <2>. QED BY <2>1, <2>2 DEF Pulse
<1>. QED BY <1>1, <1>2

(* Whatever is posted, pwm_set_color works with bytes; red is red. *)
LEMMA BytesOfColour ==
    /\ \A c \in [Channels -> Int] : \A b \in ToBytes(c) : b \in [Channels -> Byte]
    /\ \A b \in ToBytes(Red) : b[2] = 0
<1>1. \A v \in Int : Converted(v) \subseteq Byte
  BY DEF Converted, Byte
<1>2. Converted(0) = {0}
  BY DEF Converted, Byte
<1>3. ASSUME NEW c \in [Channels -> Int], NEW b \in ToBytes(c)
      PROVE  b \in [Channels -> Byte]
  <2>1. c[1] \in Int /\ c[2] \in Int /\ Scaled(c[3]) \in Int
    BY DEF Channels, Scaled
  <2>2. PICK r \in Converted(c[1]), g \in Converted(c[2]), l \in Converted(Scaled(c[3])) :
            b = <<r, g, l>>
    BY DEF ToBytes
  <2>. QED BY <1>1, <2>1, <2>2 DEF Channels
<1>4. ASSUME NEW b \in ToBytes(Red) PROVE b[2] = 0
  <2>1. PICK r \in Converted(Red[1]), g \in Converted(Red[2]), l \in Converted(Scaled(Red[3])) :
            b = <<r, g, l>>
    BY DEF ToBytes
  <2>. QED BY <1>2, <2>1 DEF Red
<1>. QED BY <1>3, <1>4

LEMMA Colours == {Red, Green, Yellow} \cup Posted \subseteq [Channels -> Int]
BY BootAssumption DEF Red, Green, Yellow, Channels

PwmType ==
    /\ at \in [Threads -> 0 .. 3] /\ bytes \in [Threads -> [Channels -> Byte]]
    /\ led \in [Channels -> 0 .. Period] /\ recent \subseteq Threads
    /\ failed \in BOOLEAN

(* A call begins. *)
LEMMA SetColorKeeps ==
    ASSUME PwmType, GroupInv, NEW t \in Threads, at[t] = 0,
           NEW c \in [Channels -> Int], SetColor(t, c)
    PROVE  /\ PwmType' /\ GroupInv'
           /\ led' = led
           /\ \A u \in Threads \ {t} : at'[u] = at[u] /\ bytes'[u] = bytes[u]
           /\ bytes'[t] \in ToBytes(c)
<1>1. PICK b \in ToBytes(c) :
        /\ at' = [at EXCEPT ![t] = 1] /\ bytes' = [bytes EXCEPT ![t] = b]
        /\ recent' = {t} \cup {u \in Threads : at[u] # 0} /\ failed' = FALSE /\ led' = led
  BY DEF SetColor
<1>2. b \in [Channels -> Byte]
  BY BytesOfColour
<1>3. PwmType'
  <2>1. recent' \subseteq Threads
    BY <1>1
  <2>2. at' \in [Threads -> 0 .. 3] /\ bytes' \in [Threads -> [Channels -> Byte]]
    BY <1>1, <1>2 DEF PwmType
  <2>. QED BY <1>1, <2>1, <2>2 DEF PwmType
<1>4. GroupInv'
  <2>1. \A u \in Threads : at'[u] # 0 => u \in recent'
    BY <1>1 DEF PwmType
  <2>2. \A ch \in Channels : ~Passed(ch)'
    BY <1>1 DEF PwmType, Passed, Channels
  <2>. QED BY <2>1, <2>2 DEF GroupInv
<1>. QED BY <1>1, <1>3, <1>4 DEF PwmType

(* A channel is set, or the call fails. *)
LEMMA SetChannelKeeps ==
    ASSUME PwmType, GroupInv, NEW t \in Threads, SetChannel(t)
    PROVE  /\ PwmType' /\ GroupInv'
           /\ bytes' = bytes
           /\ \A u \in Threads : at'[u] # 0 => at[u] # 0
           /\ led'[2] \in {led[2], Pulse(bytes[t][2])}
<1>0. at[t] \in Channels /\ at[t] # 0
  BY DEF SetChannel, PwmType, Channels
<1>1. CASE /\ led' = [led EXCEPT ![at[t]] = Pulse(bytes[t][at[t]])]
           /\ at' = [at EXCEPT ![t] = IF @ = 3 THEN 0 ELSE @ + 1]
           /\ UNCHANGED <<bytes, recent, failed>>
  <2>1. Pulse(bytes[t][at[t]]) \in 0 .. Period
    BY <1>0, PulseBound DEF PwmType
  <2>2. PwmType'
    BY <1>0, <1>1, <2>1 DEF PwmType, Channels
  <2>3. GroupInv'
    <3>1. \A u \in Threads : at'[u] # 0 => u \in recent
      BY <1>0, <1>1 DEF GroupInv, PwmType
    <3>2. ASSUME ~failed, NEW ch \in Channels, Passed(ch)'
          PROVE  \E u \in recent : led'[ch] = Pulse(bytes[u][ch])
      <4>1. at'[t] # 0 => ch < at'[t]
        BY <3>2 DEF Passed
      <4>2. ch = at[t] \/ ch < at[t]
        BY <1>0, <1>1, <4>1 DEF PwmType, Channels
      <4>3. CASE ch = at[t]
        <5>1. t \in recent /\ led'[ch] = Pulse(bytes[t][ch])
          BY <1>0, <1>1, <4>3 DEF PwmType, GroupInv
        <5>. QED BY <5>1
      <4>4. CASE ch < at[t]
        <5>1. Passed(ch)
          BY <1>1, <3>2, <4>4 DEF Passed, PwmType
        <5>2. led'[ch] = led[ch]
          BY <1>0, <1>1, <4>4 DEF PwmType, Channels
        <5>. QED BY <3>2, <5>1, <5>2 DEF GroupInv
      <4>. QED BY <4>2, <4>3, <4>4
    <3>. QED BY <1>1, <3>1, <3>2 DEF GroupInv
  <2>. QED BY <1>0, <1>1, <2>2, <2>3 DEF PwmType, Channels
<1>2. CASE /\ at' = [at EXCEPT ![t] = 0] /\ failed' = TRUE
           /\ UNCHANGED <<bytes, recent, led>>
  BY <1>2 DEF PwmType, GroupInv
<1>. QED BY <1>1, <1>2 DEF SetChannel

LEMMA InitBootInv == Init => BootInv
<1>. SUFFICES ASSUME Init PROVE BootInv
  OBVIOUS
<1>1. Off \in [Channels -> Byte] /\ Off \in [Channels -> 0 .. Period] /\ \A ch \in Channels : Off[ch] = 0
  BY BootAssumption DEF Off, Channels, Byte
<1>2. TypeOK
  <2>1. at \in [Threads -> 0 .. 3] /\ bytes \in [Threads -> [Channels -> Byte]]
    BY <1>1 DEF Init
  <2>2. 0 \in 0 .. MaxFailures /\ 0 \in 0 .. MaxPresses
    BY BootAssumption
  <2>3. recent \subseteq Threads
    BY DEF Init, Threads
  <2>. QED BY <1>1, <2>1, <2>2, <2>3 DEF Init, TypeOK
<1>3. GroupInv
  <2>1. "main" \in recent /\ \A t \in Threads : at[t] = 0
    BY DEF Init
  <2>2. \A ch \in Channels : led[ch] = Pulse(bytes["main"][ch])
    BY <1>1, PulseBound DEF Init, Threads
  <2>. QED BY <2>1, <2>2 DEF GroupInv
<1>4. BootOrder /\ CallsInv /\ ServerHasHandlers /\ GreenMeansActive
  BY <1>1 DEF Init, BootOrder, Before, CallsInv, ServerHasHandlers, GreenMeansActive, Threads, Channels
<1>. QED BY <1>2, <1>3, <1>4 DEF BootInv

(* A step of main that may fail. *)
LEMMA TryKeeps ==
    ASSUME BootInv,
           NEW s \in {"pwm", "buttons", "sensors", "certificate", "scan", "ready"}, NEW n,
           <<s, n>> \in {<<"pwm", "red">>, <<"buttons", "sensors">>, <<"sensors", "certificate">>,
                         <<"certificate", "handlers">>, <<"scan", "ready">>, <<"ready", "thread">>},
           Try(s, n)
    PROVE  BootInv'
<1>. USE DEF mainVars, mgmtVars, pwmVars
<1>1. TypeOK /\ BootOrder /\ CallsInv /\ GroupInv /\ ServerHasHandlers /\ GreenMeansActive
  BY DEF BootInv
<1>2. /\ main = s /\ main' \in {n, "stopped"} /\ done' \in {done, done \cup {s}}
      /\ main' = n => done' = done \cup {s}
      /\ main' = "stopped" => done' = done
      /\ UNCHANGED <<callbacks, mgmtVars, http, pwmVars, presses>>
      /\ failures' \in 0 .. MaxFailures
  BY <1>1, BootAssumption DEF Try, Fail, TypeOK
<1>3. TypeOK'
  BY <1>1, <1>2 DEF TypeOK
<1>4. BootOrder'
  <2>1. CASE main' = "stopped"
    BY <1>1, <1>2, <2>1 DEF BootOrder, Before
  <2>2. CASE main' = n
    <3>1. \/ s = "pwm" /\ n = "red"
          \/ s = "buttons" /\ n = "sensors"
          \/ s = "sensors" /\ n = "certificate"
          \/ s = "certificate" /\ n = "handlers"
          \/ s = "scan" /\ n = "ready"
          \/ s = "ready" /\ n = "thread"
      OBVIOUS
    <3>. QED BY <1>1, <1>2, <2>2, <3>1 DEF BootOrder, Before
  <2>. QED BY <1>2, <2>1, <2>2
<1>5. GroupInv'
  BY <1>1, <1>2 DEF GroupInv, Passed
<1>6. CallsInv'
  BY <1>1, <1>2 DEF CallsInv
<1>7. ServerHasHandlers' /\ GreenMeansActive'
  BY <1>1, <1>2 DEF ServerHasHandlers, GreenMeansActive
<1>. QED BY <1>3, <1>4, <1>5, <1>6, <1>7 DEF BootInv

LEMMA MainKeeps == BootInv /\ Main => BootInv'
<1>. SUFFICES ASSUME BootInv, Main PROVE BootInv'
  OBVIOUS
<1>. USE DEF mainVars, mgmtVars, pwmVars
<1>0. TypeOK /\ BootOrder /\ CallsInv /\ GroupInv /\ ServerHasHandlers /\ GreenMeansActive
  BY DEF BootInv
<1>1. CASE CheckPwm \/ InitButtons \/ InitSensors \/ CertProvision \/ ScanWifi \/ RegisterReady
  BY <1>1, TryKeeps DEF CheckPwm, InitButtons, InitSensors, CertProvision, ScanWifi, RegisterReady
<1>2. CASE ShowRed
  <2>1. PwmType /\ at["main"] = 0 /\ "main" \in Threads /\ Red \in [Channels -> Int]
    BY <1>0, <1>2, Colours DEF TypeOK, PwmType, CallsInv, ShowRed, Threads
  <2>2. /\ PwmType' /\ GroupInv' /\ led' = led
        /\ \A u \in Threads \ {"main"} : at'[u] = at[u] /\ bytes'[u] = bytes[u]
        /\ bytes'["main"] \in ToBytes(Red)
    BY <1>0, <1>2, <2>1, SetColorKeeps DEF ShowRed
  <2>3. bytes'["main"][2] = 0
    BY <2>2, BytesOfColour
  <2>4. TypeOK'
    BY <1>0, <1>2, <2>2 DEF TypeOK, PwmType, ShowRed
  <2>5. BootOrder' /\ ServerHasHandlers' /\ GreenMeansActive'
    BY <1>0, <1>2, <2>2 DEF BootOrder, Before, ServerHasHandlers, GreenMeansActive, ShowRed
  <2>6. CallsInv'
    BY <1>0, <1>2, <2>2, <2>3 DEF CallsInv, ShowRed, Threads
  <2>. QED BY <2>2, <2>4, <2>5, <2>6 DEF BootInv
<1>3. CASE SetHandlers
  BY <1>0, <1>3 DEF SetHandlers, BootInv, TypeOK, BootOrder, Before, CallsInv, GroupInv, Passed,
     ServerHasHandlers, GreenMeansActive
<1>4. CASE InitEvents
  <2>1. ~server /\ mgmt # "led"
    BY <1>0, <1>4 DEF InitEvents, BootOrder, CallsInv
  <2>. QED BY <1>0, <1>4, <2>1 DEF InitEvents, BootInv, TypeOK, BootOrder, Before, CallsInv, GroupInv,
             Passed, ServerHasHandlers, GreenMeansActive
<1>5. CASE StartThread
  BY <1>0, <1>5 DEF StartThread, BootInv, TypeOK, BootOrder, Before, CallsInv, GroupInv, Passed,
     ServerHasHandlers, GreenMeansActive
<1>. QED BY <1>1, <1>2, <1>3, <1>4, <1>5 DEF Main

LEMMA PwmKeeps == BootInv /\ Pwm => BootInv'
<1>. SUFFICES ASSUME BootInv, Pwm PROVE BootInv'
  OBVIOUS
<1>. USE DEF mainVars, mgmtVars
<1>0. TypeOK /\ BootOrder /\ CallsInv /\ GroupInv /\ ServerHasHandlers /\ GreenMeansActive
  BY DEF BootInv
<1>1. PICK t \in Threads : SetChannel(t)
  BY DEF Pwm
<1>2. PwmType
  BY <1>0 DEF TypeOK, PwmType
<1>3. /\ PwmType' /\ GroupInv' /\ bytes' = bytes
      /\ \A u \in Threads : at'[u] # 0 => at[u] # 0
      /\ led'[2] \in {led[2], Pulse(bytes[t][2])}
  BY <1>0, <1>1, <1>2, SetChannelKeeps
<1>4. UNCHANGED <<mainVars, mgmtVars, http, presses>> /\ failures' \in 0 .. MaxFailures
  BY <1>0, <1>1, BootAssumption DEF Pwm, SetChannel, Fail, TypeOK
<1>5. TypeOK'
  BY <1>0, <1>3, <1>4 DEF TypeOK, PwmType
<1>6. BootOrder' /\ ServerHasHandlers'
  BY <1>0, <1>4 DEF BootOrder, Before, ServerHasHandlers
<1>7. CallsInv'
  <2>1. "main" \in Threads /\ "mgmt" \in Threads /\ "http" \in Threads /\ at \in [Threads -> 0 .. 3]
        /\ at' \in [Threads -> 0 .. 3]
    BY <1>2, <1>3 DEF Threads, PwmType
  <2>. QED BY <1>0, <1>3, <1>4, <2>1 DEF CallsInv
<1>8. GreenMeansActive'
  <2>. SUFFICES ASSUME ~server PROVE led'[2] = 0
    BY <1>4 DEF GreenMeansActive
  <2>1. led[2] = 0
    BY <1>0 DEF GreenMeansActive
  <2>2. at["mgmt"] = 0 /\ at["http"] = 0 /\ bytes["main"][2] = 0
    BY <1>0 DEF CallsInv
  <2>3. t = "main"
    BY <1>1, <2>2 DEF SetChannel, Threads
  <2>. QED BY <1>3, <2>1, <2>2, <2>3, PulseBound
<1>. QED BY <1>3, <1>5, <1>6, <1>7, <1>8 DEF BootInv

LEMMA MgmtKeeps == BootInv /\ Mgmt => BootInv'
<1>. SUFFICES ASSUME BootInv, Mgmt PROVE BootInv'
  OBVIOUS
<1>. USE DEF mainVars, mgmtVars, pwmVars
<1>0. TypeOK /\ BootOrder /\ CallsInv /\ GroupInv /\ ServerHasHandlers /\ GreenMeansActive
  BY DEF BootInv
<1>1. CASE Connected
  <2>1. "handlers" \in done /\ callbacks = Resources /\ {"sensors", "certificate"} \subseteq done
    BY <1>0, <1>1 DEF Connected, BootOrder, Before
  <2>2. PwmType /\ at["mgmt"] = 0 /\ "mgmt" \in Threads /\ Green \in [Channels -> Int]
    BY <1>0, <1>1, Colours DEF TypeOK, PwmType, CallsInv, Connected, Threads
  <2>3. /\ PwmType' /\ GroupInv' /\ led' = led
        /\ \A u \in Threads \ {"mgmt"} : at'[u] = at[u] /\ bytes'[u] = bytes[u]
    BY <1>0, <1>1, <2>1, <2>2, SetColorKeeps DEF Connected
  <2>4. /\ mgmt' = "led" /\ server' = TRUE
        /\ UNCHANGED <<mainVars, connected, http, failures, presses>>
    BY <1>1, <2>1 DEF Connected
  <2>5. TypeOK'
    BY <1>0, <2>3, <2>4 DEF TypeOK, PwmType
  <2>6. BootOrder' /\ ServerHasHandlers' /\ GreenMeansActive'
    BY <1>0, <2>1, <2>4 DEF BootOrder, Before, ServerHasHandlers, GreenMeansActive
  <2>7. CallsInv'
    BY <1>0, <1>1, <2>3, <2>4 DEF CallsInv, Threads, Connected
  <2>. QED BY <2>3, <2>5, <2>6, <2>7 DEF BootInv
<1>2. CASE SetConnected
  BY <1>0, <1>2 DEF SetConnected, BootInv, TypeOK, BootOrder, Before, CallsInv, GroupInv, Passed,
     ServerHasHandlers, GreenMeansActive
<1>3. CASE Disconnected
  BY <1>0, <1>3 DEF Disconnected, BootInv, TypeOK, BootOrder, Before, CallsInv, GroupInv, Passed,
     ServerHasHandlers, GreenMeansActive
<1>. QED BY <1>1, <1>2, <1>3 DEF Mgmt

LEMMA HttpKeeps == BootInv /\ Http => BootInv'
<1>. SUFFICES ASSUME BootInv, Http PROVE BootInv'
  OBVIOUS
<1>. USE DEF mainVars, mgmtVars, pwmVars
<1>0. TypeOK /\ BootOrder /\ CallsInv /\ GroupInv /\ ServerHasHandlers /\ GreenMeansActive
  BY DEF BootInv
<1>1. ASSUME NEW c \in [Channels -> Int], SetColor("http", c), server, at["http"] = 0,
             UNCHANGED <<mainVars, mgmtVars, failures, presses>>, http' \in {"yellow", "led"}
      PROVE  BootInv'
  <2>1. PwmType /\ "http" \in Threads
    BY <1>0 DEF TypeOK, PwmType, Threads
  <2>2. /\ PwmType' /\ GroupInv' /\ led' = led
        /\ \A u \in Threads \ {"http"} : at'[u] = at[u] /\ bytes'[u] = bytes[u]
    BY <1>0, <1>1, <2>1, SetColorKeeps
  <2>3. TypeOK'
    BY <1>0, <1>1, <2>2 DEF TypeOK, PwmType
  <2>4. BootOrder' /\ ServerHasHandlers' /\ GreenMeansActive'
    BY <1>0, <1>1, <2>2 DEF BootOrder, Before, ServerHasHandlers, GreenMeansActive
  <2>5. CallsInv'
    BY <1>0, <1>1, <2>2 DEF CallsInv, Threads
  <2>. QED BY <2>2, <2>3, <2>4, <2>5 DEF BootInv
<1>2. CASE PostLed
  <2>1. PICK c \in Posted : SetColor("http", c)
    BY <1>2 DEF PostLed
  <2>2. c \in [Channels -> Int]
    BY Colours
  <2>3. server /\ at["http"] = 0 /\ http' = "led" /\ UNCHANGED <<mainVars, mgmtVars, failures, presses>>
    BY <1>0, <1>2 DEF PostLed, CallsInv
  <2>. QED BY <1>1, <2>1, <2>2, <2>3
<1>3. CASE PostJwt
  <2>1. Yellow \in [Channels -> Int]
    BY Colours
  <2>2. server /\ at["http"] = 0 /\ http' = "yellow" /\ UNCHANGED <<mainVars, mgmtVars, failures, presses>>
    BY <1>0, <1>3 DEF PostJwt, CallsInv
  <2>. QED BY <1>1, <1>3, <2>1, <2>2 DEF PostJwt
<1>4. CASE Located
  <2>1. Green \in [Channels -> Int]
    BY Colours
  <2>2. server /\ at["http"] = 0 /\ http' = "led" /\ UNCHANGED <<mainVars, mgmtVars, failures, presses>>
    BY <1>0, <1>4 DEF Located, CallsInv
  <2>. QED BY <1>1, <1>4, <2>1, <2>2 DEF Located
<1>5. CASE PostEnds
  BY <1>0, <1>5 DEF PostEnds, BootInv, TypeOK, BootOrder, Before, CallsInv, GroupInv, Passed,
     ServerHasHandlers, GreenMeansActive
<1>. QED BY <1>2, <1>3, <1>4, <1>5 DEF Http

LEMMA PressKeeps == BootInv /\ PressButton => BootInv'
<1>. SUFFICES ASSUME BootInv, PressButton PROVE BootInv'
  OBVIOUS
<1>0. TypeOK
  BY DEF BootInv
<1>1. failures' \in 0 .. MaxFailures /\ presses' \in 0 .. MaxPresses
  BY <1>0, BootAssumption DEF TypeOK, PressButton
<1>2. Reset
  BY DEF PressButton
<1>3. Off \in [Channels -> Byte] /\ Off \in [Channels -> 0 .. Period] /\ \A ch \in Channels : Off[ch] = 0
  BY BootAssumption DEF Off, Channels, Byte
<1>4. TypeOK'
  <2>1. at' \in [Threads -> 0 .. 3] /\ bytes' \in [Threads -> [Channels -> Byte]]
    BY <1>2, <1>3 DEF Reset
  <2>2. recent' \subseteq Threads
    BY <1>2 DEF Reset, Threads
  <2>. QED BY <1>1, <1>2, <1>3, <2>1, <2>2 DEF Reset, TypeOK
<1>5. GroupInv'
  <2>1. "main" \in recent' /\ \A t \in Threads : at'[t] = 0
    BY <1>2 DEF Reset
  <2>2. \A ch \in Channels : led'[ch] = Pulse(bytes'["main"][ch])
    BY <1>2, <1>3, PulseBound DEF Reset, Threads
  <2>. QED BY <2>1, <2>2 DEF GroupInv
<1>6. BootOrder' /\ CallsInv' /\ ServerHasHandlers' /\ GreenMeansActive'
  BY <1>2, <1>3 DEF Reset, BootOrder, Before, CallsInv, ServerHasHandlers, GreenMeansActive,
     Threads, Channels
<1>. QED BY <1>4, <1>5, <1>6 DEF BootInv

(* The invariant, which holds initially and is kept by every step. *)
LEMMA NextKeepsBootInv == BootInv /\ [Next]_vars => BootInv'
<1>1. ASSUME BootInv, UNCHANGED vars PROVE BootInv'
  BY <1>1 DEF vars, BootInv, TypeOK, BootOrder, Before, CallsInv, GroupInv, Passed,
     ServerHasHandlers, GreenMeansActive
<1>. QED BY <1>1, MainKeeps, PwmKeeps, MgmtKeeps, HttpKeeps, PressKeeps DEF Next

(* For any gamma table, any colours posted, any failures and any presses the *)
(* board and its LED keep BootInv.                                          *)
THEOREM BootInvariant == Spec => []BootInv
<1>. QED BY InitBootInv, NextKeepsBootInv, PTL DEF Spec

(* The web server never serves a board that is half set up. *)
THEOREM BootServerHasHandlers == Spec => []ServerHasHandlers
<1>1. BootInv => ServerHasHandlers
  BY DEF BootInv
<1>. QED BY <1>1, BootInvariant, PTL

(* No green is shown before the website is active. *)
THEOREM BootGreenMeansActive == Spec => []GreenMeansActive
<1>1. BootInv => GreenMeansActive
  BY DEF BootInv
<1>. QED BY <1>1, BootInvariant, PTL

(* When every call has ended the LED shows no call but the latest and those  *)
(* it overtook, exactly where 32 bits hold the product, else darker.        *)
THEOREM BootLedShowsRecentCalls == Spec => []LedShowsRecentCalls
<1>1. ASSUME BootInv PROVE LedShowsRecentCalls
  <2>. SUFFICES ASSUME \A t \in Threads : at[t] = 0, ~failed, NEW ch \in Channels
                PROVE  \E t \in recent :
                          /\ led[ch] <= Exact(bytes[t][ch])
                          /\ Gamma[bytes[t][ch]] * Period < Word => led[ch] = Exact(bytes[t][ch])
    BY DEF LedShowsRecentCalls
  <2>1. PICK t \in recent : led[ch] = Pulse(bytes[t][ch])
    BY <1>1 DEF BootInv, GroupInv, Passed
  <2>2. bytes[t][ch] \in Byte
    BY <1>1 DEF BootInv, TypeOK
  <2>. DEFINE p == Gamma[bytes[t][ch]] * Period
  <2>3. p \in Nat /\ Word \in Nat \ {0}
    BY <2>2, ProductBound, BootAssumption
  <2>. HIDE DEF p
  <2>4. p % Word \in Nat /\ p % Word <= p /\ (p < Word => p % Word = p)
    BY <2>3
  <2>5. (p % Word) \div 255 <= p \div 255
    BY <2>3, <2>4
  <2>. QED BY <2>1, <2>4, <2>5 DEF Pulse, Exact, p
<1>. QED BY <1>1, BootInvariant, PTL

(* The exception of RecoversByReset is one that lasts: nothing resets or     *)
(* connects a board that stopped before the button worked.                  *)
THEOREM BootDeadIsForGood == Spec => DeadIsForGood
<1>1. ASSUME BootInv, Dead, [Next]_vars
      PROVE  Dead'
  <2>. USE <1>1 DEF Dead
  <2>1. "events" \notin done /\ http = "idle" /\ mgmt # "led" /\ ~connected
    BY DEF BootInv, BootOrder, Before, CallsInv
  <2>2. ~Main /\ ~Mgmt
    BY <2>1 DEF Main, CheckPwm, InitButtons, InitSensors, CertProvision, ScanWifi,
       RegisterReady, Try, ShowRed, SetHandlers, InitEvents, StartThread,
       Mgmt, Connected, SetConnected, Disconnected
  <2>3. CASE Pwm
    BY <2>3 DEF Pwm, mainVars, mgmtVars
  <2>4. CASE Http \/ PressButton
    BY <2>1, <2>4 DEF Http, PostLed, PostJwt, Located, PostEnds, PressButton
  <2>5. CASE UNCHANGED vars
    BY <2>5 DEF vars
  <2>. QED BY <2>2, <2>3, <2>4, <2>5 DEF Next
<1>. QED BY <1>1, BootInvariant, PTL DEF Spec, DeadIsForGood

(* Every step maps to a step of the abstract station, a press of the button  *)
(* to its restart; that a connection always starts the server rests on the  *)
(* order of main's steps.                                                   *)
LEMMA NextRefinesStation ==
    ASSUME BootInv, [Next]_vars
    PROVE  [AbstractStation!Next \/ AbstractStation!Restart]_(AbstractStation!vars)
<1>. USE DEF mainVars, mgmtVars, AbstractStation!Next, AbstractStation!vars
<1>1. /\ connected \in BOOLEAN
      /\ "events" \in done => "handlers" \in done
      /\ main = "events" => "events" \notin done
      /\ connected => server
      /\ server => "events" \in done
  BY DEF BootInv, TypeOK, BootOrder, Before, CallsInv, ServerHasHandlers
<1>2. CASE Main
  <2>1. CASE InitEvents
    BY <1>1, <2>1 DEF InitEvents
  <2>2. CASE ~InitEvents
    BY <1>2, <2>2 DEF Main, CheckPwm, InitButtons, InitSensors, CertProvision, ScanWifi,
       RegisterReady, Try, ShowRed, SetHandlers, StartThread
  <2>. QED BY <2>1, <2>2
<1>3. CASE Connected
  <2>1. ~connected /\ mgmt = "idle" /\ mgmt' = "led" /\ connected' = connected
    BY <1>3 DEF Connected
  <2>2. server' = TRUE
    BY <1>1, <1>3 DEF Connected
  <2>. QED BY <2>1, <2>2 DEF AbstractStation!Connecting
<1>4. CASE SetConnected
  <2>1. mgmt = "led" /\ mgmt' = "idle" /\ connected' = TRUE /\ server' = server
    BY <1>4 DEF SetConnected
  <2>. QED BY <2>1 DEF AbstractStation!Connected
<1>5. CASE Disconnected
  BY <1>5 DEF Disconnected, AbstractStation!Disconnected
<1>6. CASE PressButton
  BY <1>6 DEF PressButton, Reset, AbstractStation!Restart
<1>7. CASE Pwm \/ Http \/ UNCHANGED vars
  BY <1>7 DEF Pwm, Http, PostLed, PostJwt, Located, PostEnds, vars
<1>. QED BY <1>2, <1>3, <1>4, <1>5, <1>6, <1>7 DEF Next, Mgmt

(* What Boot assumes of the connections is what WifiSta is proved to        *)
(* provide: both implement the same Station.                                *)
THEOREM BootImplementsStation == Spec => ImplementsStation
<1>1. Init => AbstractStation!Init
  BY DEF Init, AbstractStation!Init
<1>. QED
  BY <1>1, NextRefinesStation, BootInvariant, PTL
  DEF Spec, ImplementsStation, AbstractStation!RestartSpec

LEMMA Difference ==
    ASSUME NEW x \in 0 .. 255, NEW y \in 0 .. 255, x <= y
    PROVE  x \in Nat /\ y \in Nat /\ y - x \in Nat
OBVIOUS

LEMMA GammaGrows ==
    ASSUME NEW a \in Byte, NEW b \in Byte, a <= b
    PROVE  Gamma[a] \in Nat /\ Gamma[b] \in Nat /\ Gamma[b] - Gamma[a] \in Nat
<1>1. Gamma[a] <= Gamma[b] /\ Gamma[a] \in Byte /\ Gamma[b] \in Byte
  BY GammaAssumption
<1>2. Byte = 0 .. 255
  BY DEF Byte
<1>. QED BY <1>1, <1>2, Difference, Zenon

(* Where 32 bits hold the products, a brighter value is a longer pulse... *)
THEOREM BootBrighterIsLonger ==
    ASSUME NEW a \in Byte, NEW b \in Byte, a <= b, Gamma[b] * Period < Word
    PROVE  Pulse(a) <= Pulse(b)
<1>. DEFINE d == Gamma[b] - Gamma[a]
            p == Gamma[a] * Period
            q == Gamma[b] * Period
<1>. HIDE DEF d, p, q
<1>1. Gamma[a] \in Nat /\ Gamma[b] \in Nat /\ d \in Nat
  BY GammaGrows DEF d
<1>2. Gamma[b] = Gamma[a] + d
  BY <1>1 DEF d
<1>3. p \in Nat /\ q \in Nat /\ q < Word /\ Word \in Nat
  BY ProductBound, BootAssumption DEF p, q
<1>4. p <= q
  <2>1. d * Period \in Nat /\ (Gamma[a] + d) * Period = Gamma[a] * Period + d * Period
    BY <1>1, BootAssumption
  <2>. QED BY <1>2, <1>3, <2>1 DEF p, q
<1>5. p % Word = p /\ q % Word = q
  BY <1>3, <1>4
<1>6. p \div 255 <= q \div 255
  BY <1>3, <1>4
<1>. QED BY <1>5, <1>6 DEF Pulse, p, q

(* ... but the greatest value is not shown in full when the period's product *)
(* with 255 exceeds 32 bits, as that of 20 ms does.                         *)
THEOREM BootFullScaleIsCut ==
    ASSUME Word <= 255 * Period
    PROVE  Pulse(255) < Period
<1>. DEFINE p == 255 * Period
<1>1. p \in Nat /\ Word \in Nat \ {0} /\ Word <= p /\ Period \in Nat
  BY BootAssumption
<1>2. Gamma[255] * Period = p
  BY GammaAssumption
<1>3. p % Word < Word /\ p % Word \in Nat
  BY <1>1
<1>4. (p % Word) < 255 * Period
  BY <1>1, <1>3
<1>5. (p % Word) \div 255 < Period
  BY <1>1, <1>3, <1>4
<1>. QED BY <1>2, <1>5 DEF Pulse
=============================================================================
