--------------------------- MODULE WifiSta_proofs ---------------------------
(***************************************************************************)
(* For every length of the event queue: WifiInv is an inductive invariant,  *)
(* so no change of readiness is lost, nothing says "connected" before the   *)
(* server runs, and context.connected agrees with the link once the events  *)
(* on their way are delivered.                                              *)
(***************************************************************************)
EXTENDS WifiSta, TLAPS

(* Posting an event, and taking the oldest one. *)
LEMMA PostEvent ==
    ASSUME NEW q \in Seq(Events), NEW e \in Events, NEW r, r = Append(q, e)
    PROVE  /\ r \in Seq(Events)
           /\ DOMAIN q = 1 .. Len(q) /\ DOMAIN r = 1 .. Len(q) + 1 /\ Len(q) \in Nat
           /\ \A k \in 1 .. Len(q) : r[k] = q[k]
           /\ r[Len(q) + 1] = e
  OBVIOUS

LEMMA TakeEvent ==
    ASSUME NEW q \in Seq(Events), q # <<>>, NEW r, r = Tail(q)
    PROVE  /\ r \in Seq(Events)
           /\ DOMAIN q = 1 .. Len(q) /\ DOMAIN r = 1 .. Len(q) - 1 /\ Len(q) \in Nat \ {0}
           /\ Head(q) = q[1]
           /\ \A k \in 1 .. Len(q) - 1 : r[k] = q[k + 1]
<1>1. q \in Seq(Events) /\ DOMAIN q = 1 .. Len(q) /\ Len(q) \in Nat \ {0} /\ Head(q) = q[1]
  OBVIOUS
<1>2. r \in Seq(Events) /\ Len(r) = Len(q) - 1
  OBVIOUS
<1>3. DOMAIN r = 1 .. Len(q) - 1
  BY <1>2
<1>4. \A k \in 1 .. Len(q) - 1 : r[k] = q[k + 1]
  OBVIOUS
<1>. QED BY <1>1, <1>2, <1>3, <1>4

LEMMA InitWifiInv == Init => WifiInv
<1>. SUFFICES ASSUME Init PROVE WifiInv
  OBVIOUS
<1>1. events \in Seq(Events) /\ DOMAIN events = {}
  BY DEF Init
<1>2. TypeOK
  BY <1>1 DEF Init, TypeOK
<1>3. NoLostReadyChange /\ ConnectedMeansServing /\ HandlerInv /\ PollIsAnswered
  BY DEF Init, NoLostReadyChange, ConnectedMeansServing, HandlerInv, PollIsAnswered
<1>4. DownIsAnnounced /\ UpIsAnnounced
  BY <1>1 DEF Init, DownIsAnnounced, UpIsAnnounced
<1>. QED BY <1>2, <1>3, <1>4 DEF WifiInv

(* The parts of WifiInv that do not look at the queue. *)
LEMMA NextKeepsFlags ==
    ASSUME WifiInv, [Next]_vars
    PROVE  NoLostReadyChange' /\ ConnectedMeansServing' /\ HandlerInv'
<1>. USE DEF WifiInv, TypeOK, readyVars, startVars, flags, radio, mgmtVars,
         NoLostReadyChange, ConnectedMeansServing, HandlerInv
<1>1. CASE StartThread
  BY <1>1 DEF StartThread, TakeReadySem, CheckReady, ClearFlags, RequestConnect, PollResult
<1>2. CASE MgmtThread
  BY <1>2 DEF MgmtThread, ConnectFails, ConnectSucceeds, StartServer, SetLed, SetConnected, SetResult,
     Disconnected, Take
<1>3. CASE GiveReadySem
  BY <1>3 DEF GiveReadySem
<1>4. CASE Environment
  BY <1>4 DEF Environment, AttemptEnds, AttemptSucceeds, AttemptFails, LinkLost, LinkStep,
     ShellConnect, ReadyChanges
<1>5. CASE UNCHANGED vars
  BY <1>5 DEF vars
<1>. QED BY <1>1, <1>2, <1>3, <1>4, <1>5 DEF Next

(***************************************************************************)
(* The result start_app polls for.                                          *)
(***************************************************************************)

(* A result that is queued stays queued until its handler takes it.         *)
ResultQueued == \E k \in DOMAIN events : events[k] \in {"connOk", "connFail"}

LEMMA PostKeepsResult ==
    ASSUME events \in Seq(Events), NEW e \in Events, events' = Append(events, e)
    PROVE  /\ ResultQueued => ResultQueued'
           /\ e \in {"connOk", "connFail"} => ResultQueued'
<1>1. /\ DOMAIN events = 1 .. Len(events) /\ DOMAIN events' = 1 .. Len(events) + 1
      /\ Len(events) \in Nat
      /\ \A k \in 1 .. Len(events) : events'[k] = events[k]
      /\ events'[Len(events) + 1] = e
  BY PostEvent
<1>. QED BY <1>1 DEF ResultQueued

LEMMA TakeKeepsOtherResults ==
    ASSUME events \in Seq(Events), NEW e, Take(e)
    PROVE  ResultQueued => ResultQueued' \/ e \in {"connOk", "connFail"}
<1>1. /\ DOMAIN events = 1 .. Len(events) /\ DOMAIN events' = 1 .. Len(events) - 1
      /\ Len(events) \in Nat \ {0} /\ events[1] = e
      /\ \A k \in 1 .. Len(events) - 1 : events'[k] = events[k + 1]
  BY TakeEvent DEF Take
<1>. SUFFICES ASSUME NEW k \in DOMAIN events, events[k] \in {"connOk", "connFail"}, k # 1
              PROVE  ResultQueued'
  BY <1>1 DEF ResultQueued
<1>2. k - 1 \in DOMAIN events' /\ events'[k - 1] = events[k]
  BY <1>1
<1>. QED BY <1>2 DEF ResultQueued

LEMMA NextKeepsPollIsAnswered ==
    ASSUME WifiInv, [Next]_vars
    PROVE  PollIsAnswered'
<1>. DEFINE Answered == link = "associating" \/ ResultQueued \/ handler # "idle" \/ refused
<1>. USE DEF readyVars, startVars, flags, radio, mgmtVars
<1>1. /\ events \in Seq(Events) /\ refused \in BOOLEAN
      /\ pc = "poll" /\ ~connectResult => Answered
      /\ connected => connectResult \/ handler = "result"
  BY DEF WifiInv, TypeOK, HandlerInv, PollIsAnswered, ResultQueued
<1>2. SUFFICES ASSUME pc' = "poll", ~connectResult' PROVE Answered'
  BY DEF PollIsAnswered, ResultQueued
<1>3. CASE StartThread
  <2>1. CASE RequestConnect
    BY <1>2, <2>1 DEF RequestConnect, ConnectStored
  <2>2. CASE TakeReadySem \/ CheckReady \/ ClearFlags \/ PollResult
    BY <1>2, <2>2 DEF TakeReadySem, CheckReady, ClearFlags, PollResult
  <2>. QED BY <1>3, <2>1, <2>2 DEF StartThread
<1>4. CASE ConnectFails
  <2>1. connectResult' = (connectResult \/ ~connected) /\ handler = "idle"
    BY <1>4 DEF ConnectFails, Take
  <2>. QED BY <1>1, <1>2, <2>1
<1>5. CASE ConnectSucceeds
  <2>1. CASE connected
    <3>1. connectResult /\ connectResult' = connectResult
      BY <1>1, <1>5, <2>1 DEF ConnectSucceeds, Take
    <3>. QED BY <1>2, <3>1
  <2>2. CASE ~connected
    BY <1>5, <2>2 DEF ConnectSucceeds
  <2>. QED BY <2>1, <2>2
<1>6. CASE Disconnected
  <2>1. Take("disc") /\ UNCHANGED <<pc, connectResult, link, refused, handler>>
    BY <1>6 DEF Disconnected
  <2>2. ResultQueued => ResultQueued'
    BY <1>1, <2>1, TakeKeepsOtherResults
  <2>. QED BY <1>1, <1>2, <2>1, <2>2
<1>7. CASE StartServer \/ SetLed \/ SetConnected \/ SetResult
  BY <1>2, <1>7 DEF StartServer, SetLed, SetConnected, SetResult
<1>8. CASE AttemptEnds
  <2>1. PICK e \in {"connOk", "connFail"} : events' = Append(events, e)
    BY <1>8 DEF AttemptEnds, AttemptSucceeds, AttemptFails, LinkStep, Post
  <2>. QED BY <1>1, <2>1, PostKeepsResult DEF Events
<1>9. CASE LinkLost
  <2>1. link = "up" /\ events' = Append(events, "disc") /\ UNCHANGED <<pc, connectResult, refused, handler>>
    BY <1>9 DEF LinkLost, LinkStep, Post
  <2>2. ResultQueued => ResultQueued'
    BY <1>1, <2>1, PostKeepsResult DEF Events
  <2>. QED BY <1>1, <1>2, <2>1, <2>2
<1>10. CASE ShellConnect
  BY <1>10 DEF ShellConnect, ConnectStored
<1>11. CASE GiveReadySem \/ (\E b \in BOOLEAN : ReadyChanges(b)) \/ UNCHANGED vars
  <2>1. UNCHANGED <<pc, connectResult, link, events, refused, handler>>
    BY <1>11 DEF GiveReadySem, ReadyChanges, vars
  <2>. QED BY <1>1, <1>2, <2>1 DEF ResultQueued
<1>. QED
  BY <1>3, <1>4, <1>5, <1>6, <1>7, <1>8, <1>9, <1>10, <1>11 DEF Next, MgmtThread, Environment

(***************************************************************************)
(* The queue, for each kind of step that touches the link, the events, the  *)
(* handler or the flag.                                                     *)
(***************************************************************************)

QueueInv ==
    /\ events \in Seq(Events)
    /\ link \in {"down", "associating", "up"}
    /\ refused \in BOOLEAN
    /\ DownIsAnnounced
    /\ UpIsAnnounced

LEMMA ConnectStoredKeepsQueueInv ==
    ASSUME QueueInv, ConnectStored, UNCHANGED <<connected, handler>>
    PROVE  QueueInv'
<1>. USE DEF QueueInv, ConnectStored, Post, DownIsAnnounced, UpIsAnnounced, DiscAfter, Events
<1>1. CASE link = "up"
  <2>1. events' = Append(events, "disc") /\ "disc" \in Events
    BY <1>1
  <2>2. /\ events' \in Seq(Events)
        /\ DOMAIN events = 1 .. Len(events) /\ DOMAIN events' = 1 .. Len(events) + 1
        /\ Len(events) \in Nat
        /\ \A k \in 1 .. Len(events) : events'[k] = events[k]
        /\ events'[Len(events) + 1] = "disc"
    BY <2>1, PostEvent DEF QueueInv
  <2>3. DiscAfter(0)' /\ \A k \in 1 .. Len(events) : DiscAfter(k)'
    BY <2>2
  <2>4. DownIsAnnounced'
    BY <2>2, <2>3
  <2>. QED BY <2>2, <2>4
<1>2. CASE link # "up"
  BY <1>2
<1>. QED BY <1>1, <1>2

LEMMA LinkStepKeepsQueueInv ==
    ASSUME QueueInv, AttemptEnds \/ LinkLost
    PROVE  QueueInv'
<1>. USE DEF QueueInv, LinkStep, Post, DownIsAnnounced, UpIsAnnounced, DiscAfter, mgmtVars, flags
<1>1. ASSUME NEW e \in Events, events' = Append(events, e)
      PROVE  /\ events' \in Seq(Events)
             /\ DOMAIN events = 1 .. Len(events) /\ DOMAIN events' = 1 .. Len(events) + 1
             /\ Len(events) \in Nat
             /\ \A k \in 1 .. Len(events) : events'[k] = events[k]
             /\ events'[Len(events) + 1] = e
  BY <1>1, PostEvent
<1>2. CASE AttemptSucceeds
  BY <1>1, <1>2 DEF AttemptSucceeds, Events
<1>3. CASE AttemptFails
  BY <1>1, <1>3 DEF AttemptFails, Events
<1>4. CASE LinkLost
  BY <1>1, <1>4 DEF LinkLost, Events
<1>. QED BY <1>2, <1>3, <1>4 DEF AttemptEnds

LEMMA MgmtThreadKeepsQueueInv ==
    ASSUME QueueInv, handler \in {"idle", "serve", "led", "connected", "result"}, connected \in BOOLEAN,
           MgmtThread
    PROVE  QueueInv'
<1>. USE DEF QueueInv, DownIsAnnounced, UpIsAnnounced, startVars, flags, radio, mgmtVars
<1>1. ASSUME NEW e, Take(e)
      PROVE  /\ events' \in Seq(Events) /\ events[1] = e
             /\ DOMAIN events = 1 .. Len(events) /\ DOMAIN events' = 1 .. Len(events) - 1
             /\ Len(events) \in Nat \ {0}
             /\ \A k \in 1 .. Len(events) - 1 : events'[k] = events[k + 1]
             /\ handler = "idle"
  BY <1>1, TakeEvent DEF Take
<1>2. ASSUME NEW e, Take(e), NEW k \in Nat
      PROVE  DiscAfter(k)' <=> DiscAfter(k + 1)
  <2>1. ASSUME DiscAfter(k)' PROVE DiscAfter(k + 1)
    <3>1. PICK l \in 1 .. Len(events) - 1 : l > k /\ events[l + 1] = "disc"
      BY <1>1, <1>2, <2>1 DEF DiscAfter
    <3>2. l + 1 \in DOMAIN events /\ l + 1 > k + 1
      BY <1>1, <1>2, <3>1
    <3>. QED BY <3>1, <3>2 DEF DiscAfter
  <2>2. ASSUME DiscAfter(k + 1) PROVE DiscAfter(k)'
    <3>1. PICK l \in 1 .. Len(events) : l > k + 1 /\ events[l] = "disc"
      BY <1>1, <1>2, <2>2 DEF DiscAfter
    <3>2. l - 1 \in 1 .. Len(events) - 1 /\ l - 1 > k /\ (l - 1) + 1 = l
      BY <1>1, <1>2, <3>1
    <3>3. l - 1 \in DOMAIN events' /\ events'[l - 1] = "disc"
      BY <1>1, <1>2, <3>1, <3>2
    <3>. QED BY <3>2, <3>3 DEF DiscAfter
  <2>. QED BY <2>1, <2>2
<1>3. ASSUME NEW e, Take(e)
      PROVE  /\ e # "disc" => (DiscAfter(0) <=> DiscAfter(0)')
             /\ \A k \in DOMAIN events' : k + 1 \in DOMAIN events /\ k \in Nat
                  /\ events'[k] = events[k + 1] /\ (DiscAfter(k)' <=> DiscAfter(k + 1))
             /\ e = "disc" => DiscAfter(0)
             /\ DiscAfter(0)' <=> DiscAfter(1)
  <2>1. e # "disc" => (DiscAfter(0) <=> DiscAfter(1))
    BY <1>1, <1>3 DEF DiscAfter
  <2>2. DiscAfter(0)' <=> DiscAfter(0 + 1)
    BY <1>2, <1>3
  <2>3. \A k \in DOMAIN events' : k + 1 \in DOMAIN events /\ k \in Nat
                  /\ events'[k] = events[k + 1]
    BY <1>1, <1>3
  <2>4. e = "disc" => DiscAfter(0)
    BY <1>1, <1>3 DEF DiscAfter
  <2>5. \A k \in DOMAIN events' : DiscAfter(k)' <=> DiscAfter(k + 1)
    BY <2>3, <1>2, <1>3
  <2>. QED BY <2>1, <2>2, <2>3, <2>4, <2>5
<1>4. ASSUME NEW e, Take(e), UNCHANGED link
      PROVE  /\ (link # "up" => \A k \in DOMAIN events : events[k] = "connOk" => DiscAfter(k))'
             /\ /\ link = "up" /\ ~refused
                /\ ~(e = "connOk" /\ ~DiscAfter(0))
                /\ ~(~DiscAfter(0) /\ (connected \/ pc = "request"))
                => (\E k \in DOMAIN events : events[k] = "connOk" /\ ~DiscAfter(k))'
  <2>1. (link # "up" => \A k \in DOMAIN events : events[k] = "connOk" => DiscAfter(k))'
    BY <1>3, <1>4
  <2>2. ASSUME link = "up", ~refused, ~(e = "connOk" /\ ~DiscAfter(0)),
               ~(~DiscAfter(0) /\ (connected \/ pc = "request"))
        PROVE  (\E k \in DOMAIN events : events[k] = "connOk" /\ ~DiscAfter(k))'
    <3>1. PICK k \in DOMAIN events : events[k] = "connOk" /\ ~DiscAfter(k)
      BY <1>1, <1>4, <2>2
    <3>2. k # 1
      <4>1. SUFFICES ASSUME k = 1 PROVE FALSE
        OBVIOUS
      <4>2. e = "connOk" /\ ~DiscAfter(1)
        BY <1>1, <1>4, <3>1, <4>1
      <4>3. ~DiscAfter(0)
        BY <1>1, <1>4, <4>2 DEF DiscAfter
      <4>. QED BY <2>2, <4>2, <4>3
    <3>3. k - 1 \in DOMAIN events' /\ (k - 1) + 1 = k
      BY <1>1, <1>4, <3>1, <3>2
    <3>. QED BY <1>3, <1>4, <3>1, <3>3
  <2>. QED BY <2>1, <2>2
<1>5. CASE ConnectFails
  BY <1>1, <1>3, <1>4, <1>5 DEF ConnectFails
<1>6. CASE ConnectSucceeds
  BY <1>1, <1>3, <1>4, <1>6 DEF ConnectSucceeds
<1>7. CASE Disconnected
  BY <1>1, <1>3, <1>4, <1>7 DEF Disconnected
<1>8. CASE StartServer \/ SetLed \/ SetConnected \/ SetResult
  BY <1>8 DEF StartServer, SetLed, SetConnected, SetResult, DiscAfter
<1>. QED BY <1>5, <1>6, <1>7, <1>8 DEF MgmtThread

LEMMA NextKeepsTypes == ASSUME TypeOK, [Next]_vars PROVE TypeOK'
<1>. USE DEF TypeOK, readyVars, startVars, flags, radio, mgmtVars
<1>1. CASE StartThread
  <2>1. ConnectStored => events' \in Seq(Events) /\ link' = "associating" /\ refused' = FALSE
    BY PostEvent DEF ConnectStored, Post, Events
  <2>. QED
    BY <1>1, <2>1 DEF StartThread, TakeReadySem, CheckReady, ClearFlags, RequestConnect, PollResult
<1>2. CASE MgmtThread
  <2>1. ASSUME NEW e, Take(e) PROVE events' \in Seq(Events)
    BY <2>1, TakeEvent DEF Take
  <2>. QED
    BY <1>2, <2>1 DEF MgmtThread, ConnectFails, ConnectSucceeds, StartServer, SetLed, SetConnected, SetResult,
       Disconnected
<1>3. CASE GiveReadySem
  BY <1>3 DEF GiveReadySem
<1>4. CASE Environment
  <2>1. ASSUME NEW e \in Events, Post(e) PROVE events' \in Seq(Events)
    BY <2>1, PostEvent DEF Post
  <2>2. {"connOk", "connFail", "disc"} = Events
    BY DEF Events
  <2>3. CASE AttemptEnds \/ LinkLost
    BY <2>1, <2>2, <2>3 DEF AttemptEnds, AttemptSucceeds, AttemptFails, LinkLost, LinkStep
  <2>4. CASE ShellConnect
    BY <2>1, <2>2, <2>4 DEF ShellConnect, ConnectStored
  <2>5. CASE \E b \in BOOLEAN : ReadyChanges(b)
    BY <2>5 DEF ReadyChanges
  <2>. QED BY <1>4, <2>3, <2>4, <2>5 DEF Environment
<1>5. CASE UNCHANGED vars
  BY <1>5 DEF vars
<1>. QED BY <1>1, <1>2, <1>3, <1>4, <1>5 DEF Next

LEMMA NextKeepsQueueInv ==
    ASSUME WifiInv, [Next]_vars
    PROVE  QueueInv'
<1>1. QueueInv /\ handler \in {"idle", "serve", "led", "connected", "result"} /\ connected \in BOOLEAN
  BY DEF WifiInv, TypeOK, QueueInv
<1>2. CASE StartThread
  <2>1. CASE ClearFlags
    BY <1>1, <2>1 DEF ClearFlags, QueueInv, DownIsAnnounced, UpIsAnnounced, DiscAfter,
       radio, mgmtVars
  <2>2. CASE RequestConnect /\ ConnectStored
    BY <1>1, <2>2, ConnectStoredKeepsQueueInv DEF RequestConnect, flags, mgmtVars
  <2>3. CASE RequestConnect /\ refused' = TRUE /\ UNCHANGED <<link, events>>
    BY <1>1, <2>3 DEF RequestConnect, QueueInv, DownIsAnnounced, UpIsAnnounced, DiscAfter,
       flags, mgmtVars
  <2>4. CASE TakeReadySem \/ CheckReady \/ PollResult
    BY <1>1, <2>4 DEF TakeReadySem, CheckReady, PollResult, QueueInv, DownIsAnnounced,
       UpIsAnnounced, DiscAfter, flags, radio, mgmtVars
  <2>. QED BY <1>2, <2>1, <2>2, <2>3, <2>4 DEF StartThread, RequestConnect
<1>3. CASE MgmtThread
  BY <1>1, <1>3, MgmtThreadKeepsQueueInv
<1>4. CASE AttemptEnds \/ LinkLost
  BY <1>1, <1>4, LinkStepKeepsQueueInv
<1>5. CASE ShellConnect
  BY <1>1, <1>5, ConnectStoredKeepsQueueInv DEF ShellConnect, flags, mgmtVars
<1>6. CASE GiveReadySem \/ \E b \in BOOLEAN : ReadyChanges(b)
  BY <1>1, <1>6 DEF GiveReadySem, ReadyChanges, QueueInv, DownIsAnnounced, UpIsAnnounced,
     DiscAfter, startVars, flags, radio, mgmtVars
<1>7. CASE UNCHANGED vars
  BY <1>1, <1>7 DEF vars, QueueInv, DownIsAnnounced, UpIsAnnounced, DiscAfter
<1>. QED BY <1>2, <1>3, <1>4, <1>5, <1>6, <1>7 DEF Next, Environment

(***************************************************************************)
(* The theorems.                                                            *)
(***************************************************************************)

(* The inductive invariant of the three threads and the supplicant. *)
THEOREM WifiInvariant == Spec => []WifiInv
<1>1. WifiInv /\ [Next]_vars => WifiInv'
  <2>1. WifiInv => TypeOK
    BY DEF WifiInv
  <2>. QED BY <2>1, NextKeepsTypes, NextKeepsFlags, NextKeepsPollIsAnswered, NextKeepsQueueInv
       DEF WifiInv, QueueInv
<1>. QED BY <1>1, InitWifiInv, PTL DEF Spec

(* Every variable keeps its type; the semaphore stays binary. *)
THEOREM WifiTypeCorrect == Spec => []TypeOK
<1>1. WifiInv => TypeOK
  BY DEF WifiInv
<1>. QED BY <1>1, WifiInvariant, PTL

(* start_app misses no change of wifi_ready_status. *)
THEOREM WifiNoLostReadyChange == Spec => []NoLostReadyChange
<1>1. WifiInv => NoLostReadyChange
  BY DEF WifiInv
<1>. QED BY <1>1, WifiInvariant, PTL

(* Neither the flag nor the green LED ever precedes the web server. *)
THEOREM WifiServesWhenConnected == Spec => []ConnectedMeansServing
<1>1. WifiInv => ConnectedMeansServing
  BY DEF WifiInv
<1>. QED BY <1>1, WifiInvariant, PTL

(* With the events delivered, connected is TRUE only on a link that is up.  *)
THEOREM WifiConnectedIsTrue == Spec => []ConnectedIsTrue
<1>1. WifiInv => ConnectedIsTrue
  BY DEF WifiInv, TypeOK, ConnectedIsTrue, Quiet, DownIsAnnounced, DiscAfter
<1>. QED BY <1>1, WifiInvariant, PTL

(* And on every link that is up, unless the last request was refused. *)
THEOREM WifiLinkIsNoticed == Spec => []LinkIsNoticed
<1>1. WifiInv => LinkIsNoticed
  BY DEF WifiInv, TypeOK, LinkIsNoticed, Quiet, UpIsAnnounced, DiscAfter
<1>. QED BY <1>1, WifiInvariant, PTL

(* The safety core of PollEnds: start_app never polls for a result that     *)
(* nobody is going to deliver, unless its request was refused.              *)
THEOREM WifiPollIsAnswered == Spec => []PollIsAnswered
<1>1. WifiInv => PollIsAnswered
  BY DEF WifiInv
<1>. QED BY <1>1, WifiInvariant, PTL

(* Every step of the threads and of the supplicant is one of the abstract   *)
(* station's or leaves it alone.                                            *)
LEMMA NextRefinesStation ==
    ASSUME WifiInv, [Next]_vars
    PROVE  [AbstractStation!Next]_(AbstractStation!vars)
<1>. USE DEF readyVars, startVars, flags, radio, mgmtVars,
         AbstractStation!Next, AbstractStation!vars
<1>1. connected \in BOOLEAN /\ server \in BOOLEAN /\ HandlerInv
  BY DEF WifiInv, TypeOK
<1>2. CASE ClearFlags       \* wifi_connect takes a connection back
  BY <1>1, <1>2 DEF ClearFlags, AbstractStation!Disconnected
<1>3. CASE TakeReadySem \/ CheckReady \/ RequestConnect \/ PollResult
  BY <1>3 DEF TakeReadySem, CheckReady, RequestConnect, PollResult
<1>4. CASE StartServer
  BY <1>1, <1>4 DEF StartServer, HandlerInv, AbstractStation!Connecting
<1>5. CASE SetConnected
  BY <1>5 DEF SetConnected, AbstractStation!Connected
<1>6. CASE Disconnected
  BY <1>1, <1>6 DEF Disconnected, Take, AbstractStation!Disconnected
<1>7. CASE ConnectFails \/ ConnectSucceeds \/ SetLed \/ SetResult
  BY <1>7 DEF ConnectFails, ConnectSucceeds, SetLed, SetResult, Take
<1>8. CASE GiveReadySem \/ Environment \/ UNCHANGED vars
  BY <1>8 DEF GiveReadySem, Environment, AttemptEnds, AttemptSucceeds, AttemptFails, LinkLost,
     LinkStep, ShellConnect, ReadyChanges, vars
<1>. QED
  BY <1>2, <1>3, <1>4, <1>5, <1>6, <1>7, <1>8 DEF Next, StartThread, MgmtThread

(* start_app, the event handlers and the supplicant implement the Station   *)
(* that the rest of the firmware is written against: the server is started  *)
(* before the flag is set and for good, one connection at a time.           *)
THEOREM WifiImplementsStation == Spec => ImplementsStation
<1>1. Init => AbstractStation!Init
  BY DEF Init, AbstractStation!Init
<1>. QED
  BY <1>1, NextRefinesStation, WifiInvariant, PTL DEF Spec, ImplementsStation, AbstractStation!Spec
=============================================================================
