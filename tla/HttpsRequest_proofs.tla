------------------------ MODULE HttpsRequest_proofs ------------------------
(* Proofs about HttpsRequest, for any number of TLS contexts, resolver      *)
(* attempts, requests, and any lengths of lists, tokens and buffers.        *)
EXTENDS HttpsRequest, TLAPS

LEMMA InitHttpsInv == Init => HttpsInv
<1> SUFFICES ASSUME Init PROVE HttpsInv
  OBVIOUS
<1> USE HttpsAssumption
<1>1. TypeOK
  BY DEF Init, TypeOK
<1>2. RequestInv /\ InfoInv
  BY DEF Init, RequestInv, InfoInv, Active
<1>3. ContextInv /\ BufferInv /\ OutcomeInv
  BY DEF Init, ContextInv, BufferInv, OutcomeInv, Opened
<1> QED BY <1>1, <1>2, <1>3 DEF HttpsInv

(* What a request holds: the part of HttpsInv that is about the contexts,    *)
(* the address lists and recv_buf.                                          *)
HoldingInv == TypeOK /\ RequestInv /\ InfoInv /\ ContextInv /\ BufferInv

(* A request that returns early leaves its context and its address list to  *)
(* the abandoned ones.                                                      *)
LEMMA AbandonKeepsHolding ==
    ASSUME HttpsInv, pc \in {"format", "send"}, Abandon,
           UNCHANGED <<req, tries, list, token, fd, holder, infos, recvBuf, off, text, location>>
    PROVE  HoldingInv'
<1> USE HttpsAssumption
<1>1. /\ pc' = "idle" /\ abandoned' = abandoned \cup {req}
      /\ req \in Requests /\ req \in 0 .. MaxRequests /\ req' = req
  BY DEF Abandon, HttpsInv, TypeOK, RequestInv
<1>2. fd \in Contexts /\ holder[fd] = req /\ holder' = holder /\ fd' = fd
  BY DEF HttpsInv, ContextInv, Opened
<1>3. TypeOK'
  BY <1>1, <1>2 DEF HttpsInv, TypeOK
<1>4. RequestInv'
  BY <1>1 DEF HttpsInv, RequestInv, Requests
<1>5. InfoInv'
  BY <1>1 DEF HttpsInv, InfoInv, Active
<1>6. ContextInv'
  BY <1>1, <1>2 DEF HttpsInv, ContextInv, Opened
<1>7. BufferInv'
  BY <1>1 DEF BufferInv
<1> QED BY <1>3, <1>4, <1>5, <1>6, <1>7 DEF HoldingInv

(* No step of a request, of the resolver or of the cloud disturbs what the  *)
(* request holds.                                                           *)
LEMMA NextKeepsHolding ==
    ASSUME HttpsInv, Next
    PROVE  HoldingInv'
<1> USE HttpsAssumption
<1> USE DEF sockets, buffer, inputs
<1>1. CASE Call
  <2>1. TypeOK'
    BY <1>1 DEF HttpsInv, TypeOK, RequestInv, Requests, Call
  <2>2. RequestInv'
    BY <1>1 DEF HttpsInv, TypeOK, RequestInv, Requests, Call
  <2>3. InfoInv'
    BY <1>1 DEF HttpsInv, TypeOK, RequestInv, InfoInv, Active, Requests, Call
  <2>4. ContextInv'
    BY <1>1 DEF HttpsInv, TypeOK, RequestInv, ContextInv, Opened, Requests, Call
  <2>5. BufferInv'
    BY <1>1 DEF HttpsInv, TypeOK, BufferInv, Call
  <2> QED BY <2>1, <2>2, <2>3, <2>4, <2>5 DEF HoldingInv
<1>2. CASE LookupFails
  <2>1. TypeOK'
    BY <1>2 DEF HttpsInv, TypeOK, RequestInv, Requests, LookupFails
  <2>2. RequestInv'
    BY <1>2 DEF HttpsInv, TypeOK, RequestInv, Requests, LookupFails
  <2>3. InfoInv'
    BY <1>2 DEF HttpsInv, TypeOK, RequestInv, InfoInv, Active, Requests, LookupFails
  <2>4. ContextInv'
    BY <1>2 DEF HttpsInv, TypeOK, RequestInv, ContextInv, Opened, Requests, LookupFails
  <2>5. BufferInv'
    BY <1>2 DEF HttpsInv, TypeOK, BufferInv, LookupFails
  <2> QED BY <2>1, <2>2, <2>3, <2>4, <2>5 DEF HoldingInv
<1>3. CASE LookupSucceeds
  <2>1. TypeOK'
    BY <1>3 DEF HttpsInv, TypeOK, RequestInv, Requests, LookupSucceeds
  <2>2. RequestInv'
    BY <1>3 DEF HttpsInv, TypeOK, RequestInv, Requests, LookupSucceeds
  <2>3. InfoInv'
    BY <1>3 DEF HttpsInv, TypeOK, RequestInv, InfoInv, Active, Requests, LookupSucceeds
  <2>4. ContextInv'
    BY <1>3 DEF HttpsInv, TypeOK, RequestInv, ContextInv, Opened, Requests, LookupSucceeds
  <2>5. BufferInv'
    BY <1>3 DEF HttpsInv, TypeOK, BufferInv, LookupSucceeds
  <2> QED BY <2>1, <2>2, <2>3, <2>4, <2>5 DEF HoldingInv
<1>4. CASE OpenSocket
  <2>1. TypeOK'
    BY <1>4 DEF HttpsInv, TypeOK, RequestInv, Requests, OpenSocket
  <2>2. RequestInv'
    BY <1>4 DEF HttpsInv, TypeOK, RequestInv, Requests, OpenSocket
  <2>3. InfoInv'
    BY <1>4 DEF HttpsInv, TypeOK, RequestInv, InfoInv, Active, Requests, OpenSocket
  <2>4. ContextInv'
    BY <1>4 DEF HttpsInv, TypeOK, RequestInv, ContextInv, Opened, Requests, OpenSocket
  <2>5. BufferInv'
    BY <1>4 DEF HttpsInv, TypeOK, BufferInv, OpenSocket
  <2> QED BY <2>1, <2>2, <2>3, <2>4, <2>5 DEF HoldingInv
<1>5. CASE SetupTls
  <2>1. TypeOK'
    BY <1>5 DEF HttpsInv, TypeOK, RequestInv, Requests, SetupTls
  <2>2. RequestInv'
    BY <1>5 DEF HttpsInv, TypeOK, RequestInv, Requests, SetupTls
  <2>3. InfoInv'
    BY <1>5 DEF HttpsInv, TypeOK, RequestInv, InfoInv, Active, Requests, SetupTls
  <2>4. ContextInv'
    BY <1>5 DEF HttpsInv, TypeOK, RequestInv, ContextInv, Opened, Requests, SetupTls
  <2>5. BufferInv'
    BY <1>5 DEF HttpsInv, TypeOK, BufferInv, SetupTls
  <2> QED BY <2>1, <2>2, <2>3, <2>4, <2>5 DEF HoldingInv
<1>6. CASE Connect
  <2>1. TypeOK'
    BY <1>6 DEF HttpsInv, TypeOK, RequestInv, Requests, Connect
  <2>2. RequestInv'
    BY <1>6 DEF HttpsInv, TypeOK, RequestInv, Requests, Connect
  <2>3. InfoInv'
    BY <1>6 DEF HttpsInv, TypeOK, RequestInv, InfoInv, Active, Requests, Connect
  <2>4. ContextInv'
    BY <1>6 DEF HttpsInv, TypeOK, RequestInv, ContextInv, Opened, Requests, Connect
  <2>5. BufferInv'
    BY <1>6 DEF HttpsInv, TypeOK, BufferInv, Connect
  <2> QED BY <2>1, <2>2, <2>3, <2>4, <2>5 DEF HoldingInv
<1>7. CASE Format
  <2>1. /\ pc = "format"
        /\ UNCHANGED <<req, tries, list, token, fd, holder, infos, recvBuf, text, location>>
    BY <1>7 DEF Format
  <2>2. CASE Abandon /\ off' = off
    BY <2>1, <2>2, AbandonKeepsHolding
  <2>3. CASE pc' = "send" /\ off' = 0 /\ abandoned' = abandoned
    <3>1. TypeOK' /\ RequestInv'
      BY <2>1, <2>3 DEF HttpsInv, TypeOK, RequestInv
    <3>2. InfoInv' /\ ContextInv' /\ BufferInv'
      BY <2>1, <2>3 DEF HttpsInv, TypeOK, InfoInv, Active, ContextInv, Opened, BufferInv
    <3> QED BY <3>1, <3>2 DEF HoldingInv
  <2> QED BY <1>7, <2>2, <2>3 DEF Format
<1>8. CASE CloudTakes
  <2>1. CASE SendFails
    BY <2>1, AbandonKeepsHolding DEF SendFails
  <2>2. ASSUME NEW n \in 1 .. SendSize, Send(n)
        PROVE  HoldingInv'
    <3>1. /\ pc = "send" /\ pc' \in {"send", "receive"} /\ off' \in Nat
          /\ pc' = "send" => off' < SendSize
          /\ pc' = "receive" => off' = 0
          /\ UNCHANGED <<req, tries, list, token, fd, holder, infos, recvBuf, text, location, abandoned>>
      <4>1. off \in Nat /\ n \in Nat /\ off + n \in Nat /\ off + n <= SendSize /\ SendSize \in Nat
        BY <2>2 DEF Send, HttpsInv, TypeOK
      <4>2. CASE off + n = SendSize
        BY <2>2, <4>2 DEF Send
      <4>3. CASE off + n # SendSize
        <5>1. off + n < SendSize
          BY <4>1, <4>3
        <5> QED BY <2>2, <4>1, <4>3, <5>1 DEF Send
      <4> QED BY <4>2, <4>3
    <3>2. TypeOK' /\ RequestInv'
      BY <3>1 DEF HttpsInv, TypeOK, RequestInv
    <3>3. InfoInv'
      BY <3>1 DEF HttpsInv, InfoInv, Active
    <3>4. ContextInv'
      BY <3>1 DEF HttpsInv, ContextInv, Opened
    <3>5. pc' # "answer" /\ (pc' = "receive" => 0 .. off' - 1 = {})
      <4>1. pc' \in {"send", "receive"} /\ (pc' = "receive" => off' = 0)
        BY <3>1
      <4> QED BY <4>1
    <3>6. BufferInv'
      BY <3>5 DEF BufferInv
    <3> QED BY <3>2, <3>3, <3>4, <3>6 DEF HoldingInv
  <2> QED BY <1>8, <2>1, <2>2 DEF CloudTakes
<1>9. ASSUME NEW n \in 1 .. RecvSize, Receive(n)
      PROVE  HoldingInv'
  <2>1. TypeOK'
    BY <1>9 DEF HttpsInv, TypeOK, RequestInv, Requests, Receive
  <2>2. RequestInv'
    BY <1>9 DEF HttpsInv, TypeOK, RequestInv, Requests, Receive
  <2>3. InfoInv'
    BY <1>9 DEF HttpsInv, TypeOK, RequestInv, InfoInv, Active, Requests, Receive
  <2>4. ContextInv'
    BY <1>9 DEF HttpsInv, TypeOK, RequestInv, ContextInv, Opened, Requests, Receive
  <2>5. BufferInv'
    BY <1>9 DEF HttpsInv, TypeOK, BufferInv, Receive
  <2> QED BY <2>1, <2>2, <2>3, <2>4, <2>5 DEF HoldingInv
<1>10. CASE ReceiveFails
  <2>1. TypeOK'
    BY <1>10 DEF HttpsInv, TypeOK, RequestInv, Requests, ReceiveFails
  <2>2. RequestInv'
    BY <1>10 DEF HttpsInv, TypeOK, RequestInv, Requests, ReceiveFails
  <2>3. InfoInv'
    BY <1>10 DEF HttpsInv, TypeOK, RequestInv, InfoInv, Active, Requests, ReceiveFails
  <2>4. ContextInv'
    BY <1>10 DEF HttpsInv, TypeOK, RequestInv, ContextInv, Opened, Requests, ReceiveFails
  <2>5. BufferInv'
    BY <1>10 DEF HttpsInv, TypeOK, BufferInv, ReceiveFails
  <2> QED BY <2>1, <2>2, <2>3, <2>4, <2>5 DEF HoldingInv
<1>11. CASE ReceiveEnds
  <2>1. TypeOK'
    BY <1>11 DEF HttpsInv, TypeOK, RequestInv, Requests, ReceiveEnds
  <2>2. RequestInv'
    BY <1>11 DEF HttpsInv, TypeOK, RequestInv, Requests, ReceiveEnds
  <2>3. InfoInv'
    BY <1>11 DEF HttpsInv, TypeOK, RequestInv, InfoInv, Active, Requests, ReceiveEnds
  <2>4. ContextInv'
    BY <1>11 DEF HttpsInv, TypeOK, RequestInv, ContextInv, Opened, Requests, ReceiveEnds
  <2>5. BufferInv'
    BY <1>11 DEF HttpsInv, TypeOK, BufferInv, ReceiveEnds
  <2> QED BY <2>1, <2>2, <2>3, <2>4, <2>5 DEF HoldingInv
<1>12. ASSUME NEW code \in Codes, NEW headersEnd \in BOOLEAN,
             Answer(code, headersEnd)
      PROVE  HoldingInv'
  <2>1. TypeOK'
    BY <1>12 DEF HttpsInv, TypeOK, RequestInv, Requests, Answer
  <2>2. RequestInv'
    BY <1>12 DEF HttpsInv, TypeOK, RequestInv, Requests, Answer
  <2>3. InfoInv'
    BY <1>12 DEF HttpsInv, TypeOK, RequestInv, InfoInv, Active, Requests, Answer
  <2>4. ContextInv'
    BY <1>12 DEF HttpsInv, TypeOK, RequestInv, ContextInv, Opened, Requests, Answer
  <2>5. BufferInv'
    BY <1>12 DEF HttpsInv, TypeOK, BufferInv, Answer
  <2> QED BY <2>1, <2>2, <2>3, <2>4, <2>5 DEF HoldingInv
<1>13. CASE CleanUp
  <2>1. TypeOK'
    BY <1>13 DEF HttpsInv, TypeOK, RequestInv, Requests, CleanUp
  <2>2. RequestInv'
    BY <1>13 DEF HttpsInv, TypeOK, RequestInv, Requests, CleanUp
  <2>3. InfoInv'
    BY <1>13 DEF HttpsInv, TypeOK, RequestInv, InfoInv, Active, Requests, CleanUp
  <2>4. ContextInv'
    BY <1>13 DEF HttpsInv, TypeOK, RequestInv, ContextInv, Opened, Requests, CleanUp
  <2>5. BufferInv'
    BY <1>13 DEF HttpsInv, TypeOK, BufferInv, CleanUp
  <2> QED BY <2>1, <2>2, <2>3, <2>4, <2>5 DEF HoldingInv
<1> QED
  BY <1>1, <1>2, <1>3, <1>4, <1>5, <1>6, <1>7, <1>8, <1>9, <1>10, <1>11, <1>12, <1>13
     DEF Next, Proceeds, CloudTakes, CloudSends, CloudEnds, Answers

(* Only the answer and a new call touch location_str. *)
LEMMA NextKeepsOutcome ==
    ASSUME HttpsInv, Next
    PROVE  OutcomeInv'
<1> USE DEF HttpsInv, OutcomeInv, sockets, buffer, inputs
<1>1. CASE Call
  BY <1>1 DEF Call
<1>2. CASE LookupFails \/ LookupSucceeds \/ OpenSocket \/ SetupTls \/ Connect
  BY <1>2 DEF LookupFails, LookupSucceeds, OpenSocket, SetupTls, Connect
<1>3. CASE Format \/ CloudTakes
  BY <1>3 DEF Format, CloudTakes, Send, SendFails, Abandon
<1>4. CASE CloudSends \/ CloudEnds
  BY <1>4 DEF CloudSends, Receive, CloudEnds, ReceiveFails, ReceiveEnds
<1>5. CASE Answers \/ CleanUp
  BY <1>5 DEF Answers, Answer, CleanUp
<1> QED BY <1>1, <1>2, <1>3, <1>4, <1>5 DEF Next, Proceeds

(* What each path of send_http_request holds, in every reachable state.     *)
THEOREM HttpsInvariant == Spec => []HttpsInv
<1>1. HttpsInv /\ [Next]_vars => HttpsInv'
  <2> SUFFICES ASSUME HttpsInv, [Next]_vars
               PROVE  HttpsInv'
    OBVIOUS
  <2>1. CASE Next
    BY <2>1, NextKeepsHolding, NextKeepsOutcome DEF HoldingInv, HttpsInv
  <2>2. CASE UNCHANGED vars
    BY <2>2 DEF HttpsInv, TypeOK, RequestInv, InfoInv, ContextInv, BufferInv, OutcomeInv,
                Active, Opened, vars
  <2> QED BY <2>1, <2>2
<1> QED BY <1>1, InitHttpsInv, PTL DEF Spec

(* Type correctness: no index passes the end of recv_buf, no attempt is     *)
(* made beyond CONFIG_DNS_ATTEMPTS.                                         *)
THEOREM HttpsTypeCorrect == Spec => []TypeOK
<1>1. HttpsInv => TypeOK
  BY DEF HttpsInv
<1> QED BY <1>1, HttpsInvariant, PTL

(* Whatever fails, a request that reaches clean_up, or fails before it has  *)
(* anything, leaves nothing behind.                                         *)
THEOREM HttpsLeaks == Spec => []OnlyAbandonedRequestsLeak
<1>1. HttpsInv => OnlyAbandonedRequestsLeak
  <2> SUFFICES ASSUME HttpsInv, pc = "idle"
               PROVE  /\ infos = abandoned
                      /\ {holder[c] : c \in Contexts} \ {0} = abandoned
                      /\ \A c, d \in Contexts : holder[c] = holder[d] /\ c # d => holder[c] = 0
    BY DEF OnlyAbandonedRequestsLeak
  <2>1. infos = abandoned
    BY DEF HttpsInv, InfoInv, Active
  <2>2. 0 \notin abandoned
    BY HttpsAssumption DEF HttpsInv, TypeOK, Requests
  <2>3. {holder[c] : c \in Contexts} \ {0} = abandoned
    BY <2>2 DEF HttpsInv, ContextInv
  <2> QED BY <2>1, <2>3 DEF HttpsInv, ContextInv
<1> QED BY <1>1, HttpsInvariant, PTL

(* The answer is never looked for in bytes an earlier request received.     *)
THEOREM HttpsAnswerIsFresh == Spec => []AnswerIsFresh
<1>1. HttpsInv => AnswerIsFresh
  BY DEF HttpsInv, TypeOK, BufferInv, AnswerIsFresh
<1> QED BY <1>1, HttpsInvariant, PTL

(***************************************************************************)
(* The steps of a request are numbered down to its return.                  *)
(***************************************************************************)

LEMMA StatementsRank ==
    /\ Statements["fault"] = 0 /\ Statements["idle"] = 0 /\ Statements["cleanup"] = 1
    /\ Statements["answer"] = 2 /\ Statements["receive"] = 3 /\ Statements["send"] = 4
    /\ Statements["format"] = 5 /\ Statements["connect"] = 6 /\ Statements["setup"] = 7
    /\ Statements["socket"] = 8 /\ Statements["lookup"] = 9
BY DEF Statements

(* The rank is a natural number: it cannot decrease for ever.               *)
LEMMA StepsLeftIsNat == HttpsInv => StepsLeft \in 0 .. 9 + DnsAttempts + SendSize + RecvSize
<1> SUFFICES ASSUME HttpsInv PROVE StepsLeft \in 0 .. 9 + DnsAttempts + SendSize + RecvSize
  OBVIOUS
<1>1. /\ DnsAttempts \in Nat /\ SendSize \in Nat /\ RecvSize \in Nat
      /\ tries \in Nat /\ tries <= DnsAttempts - 1 /\ off \in Nat
      /\ pc = "send" => off < SendSize
      /\ pc = "receive" => off <= RecvSize
      /\ pc \in {"idle", "lookup", "socket", "setup", "connect", "format", "send",
                 "receive", "answer", "cleanup", "fault"}
  BY HttpsAssumption DEF HttpsInv, TypeOK
<1>2. Statements[pc] \in 0 .. 9
  BY <1>1, StatementsRank
<1>3. Left("send", SendSize) \in 0 .. SendSize /\ Left("receive", RecvSize) \in 0 .. RecvSize
  BY <1>1 DEF Left
<1> HIDE DEF Statements
<1> QED BY <1>1, <1>2, <1>3 DEF StepsLeft

LEMMA NextProgresses ==
    ASSUME HttpsInv, Next, pc \notin {"idle", "fault"}
    PROVE  StepsLeft' < StepsLeft
<1>1. /\ DnsAttempts \in Nat /\ SendSize \in Nat \ {0} /\ RecvSize \in Nat \ {0}
      /\ tries \in Nat /\ tries <= DnsAttempts - 1 /\ off \in Nat
      /\ pc = "send" => off < SendSize
      /\ pc = "receive" => off <= RecvSize
  BY HttpsAssumption DEF HttpsInv, TypeOK
<1> USE <1>1, StatementsRank DEF StepsLeft, Left, sockets, buffer, inputs
<1>2. CASE LookupFails
  BY <1>2 DEF LookupFails
<1>3. CASE LookupSucceeds
  BY <1>3 DEF LookupSucceeds
<1>4. CASE OpenSocket
  BY <1>4 DEF OpenSocket
<1>5. CASE SetupTls
  BY <1>5 DEF SetupTls
<1>6. CASE Connect
  BY <1>6 DEF Connect
<1>7. CASE Format
  BY <1>7 DEF Format, Abandon
<1>8. CASE CloudTakes
  <2>1. CASE SendFails
    BY <2>1 DEF SendFails, Abandon
  <2>2. ASSUME NEW n \in 1 .. SendSize, Send(n)
        PROVE  StepsLeft' < StepsLeft
    BY <2>2 DEF Send
  <2> QED BY <1>8, <2>1, <2>2 DEF CloudTakes
<1>9. ASSUME NEW n \in 1 .. RecvSize, Receive(n)
      PROVE  StepsLeft' < StepsLeft
  BY <1>9 DEF Receive
<1>10. CASE ReceiveFails \/ ReceiveEnds
  BY <1>10 DEF ReceiveFails, ReceiveEnds
<1>11. ASSUME NEW code \in Codes, NEW headersEnd \in BOOLEAN, Answer(code, headersEnd)
       PROVE  StepsLeft' < StepsLeft
  BY <1>11 DEF Answer
<1>12. CASE CleanUp
  BY <1>12 DEF CleanUp
<1> QED
  BY <1>2, <1>3, <1>4, <1>5, <1>6, <1>7, <1>8, <1>9, <1>10, <1>11, <1>12
  DEF Next, Call, Proceeds, CloudTakes, CloudSends, CloudEnds, Answers

(* The safety core of RequestEnds: send_http_request has no step that can be *)
(* repeated for ever, whatever the resolver and the cloud do; each leaves    *)
(* StepsLeft, a natural number (StepsLeftIsNat), smaller.                   *)
THEOREM HttpsRequestProgresses == Spec => RequestProgresses
<1>1. ASSUME HttpsInv, [Next]_vars
      PROVE  [pc \notin {"idle", "fault"} => StepsLeft' < StepsLeft]_vars
  BY <1>1, NextProgresses
<1> QED BY <1>1, HttpsInvariant, PTL DEF Spec, RequestProgresses

(***************************************************************************)
(* The refinement of CloudRequest.                                          *)
(***************************************************************************)

Lost  == {c \in Contexts : holder[c] \in abandoned}
Phase == IF pc \in {"idle", "fault"} THEN pc ELSE "busy"

(* A request that has its context cannot find every context lost, and a     *)
(* step that leaves holder and abandoned alone loses none.                  *)
LEMMA OpenedIsUsable ==
    ASSUME HttpsInv, Opened
    PROVE  fd \in Contexts /\ holder[fd] = req /\ fd \notin Lost /\ Lost # Contexts
<1>1. fd \in Contexts /\ holder[fd] = req
  BY DEF HttpsInv, ContextInv
<1>2. req \notin abandoned
  BY DEF HttpsInv, RequestInv, Opened
<1> QED BY <1>1, <1>2 DEF Lost

(* Only a request that is abandoned loses a context: the one it opened.     *)
LEMMA AbandonLoses ==
    ASSUME HttpsInv, pc \in {"format", "send"}, Abandon, UNCHANGED <<holder, location>>
    PROVE  \E c \in Contexts : Cloud!Lose(c)
<1> USE DEF Opened
<1>1. fd \in Contexts /\ holder[fd] = req /\ fd \notin Lost
  BY OpenedIsUsable
<1>2. \A c \in Contexts : holder[c] = req => c = fd
  <2>1. req # 0
    BY DEF HttpsInv, RequestInv, Requests
  <2> QED BY <1>1, <2>1 DEF HttpsInv, ContextInv
<1>3. Lost' = Lost \cup {fd}
  BY <1>1, <1>2 DEF Abandon, Lost
<1>4. Phase = "busy" /\ Phase' = "idle" /\ location = "empty" /\ location' = location
  BY DEF Abandon, Phase, HttpsInv, OutcomeInv
<1> QED BY <1>1, <1>3, <1>4 DEF Cloud!Lose, Cloud!Pending, Lost, Phase

LEMMA NextRefinesCloudRequest ==
    ASSUME HttpsInv, [Next]_vars
    PROVE  [Cloud!Next]_(Cloud!vars)
<1> USE DEF sockets, buffer, inputs
<1>1. ASSUME UNCHANGED <<Phase, location, Lost>>
      PROVE  UNCHANGED Cloud!vars
  BY <1>1 DEF Cloud!vars, Phase, Lost
<1>2. CASE Call
  <2>1. Phase = "idle" /\ Phase' = "busy" /\ location' = "empty" /\ Lost' = Lost
    BY <1>2 DEF Call, Phase, Lost
  <2> QED BY <2>1 DEF Cloud!Call, Cloud!Next, Phase, Lost
<1>3. CASE LookupFails
  <2>1. /\ Phase = "busy" /\ Phase' \in {"busy", "idle"}
        /\ location' = location /\ Lost' = Lost
    BY <1>3 DEF LookupFails, Phase, Lost
  <2>2. CASE Phase' = "busy"
    BY <1>1, <2>1, <2>2
  <2>3. CASE Phase' = "idle"
    BY <2>1, <2>3 DEF Cloud!Return, Cloud!Next, Phase, Lost
  <2> QED BY <2>1, <2>2, <2>3
<1>4. CASE OpenSocket
  <2>1. 0 \notin abandoned /\ req \notin abandoned /\ holder \in [Contexts -> 0 .. MaxRequests]
    BY <1>4 DEF OpenSocket, HttpsInv, TypeOK, RequestInv, Requests
  <2>2. UNCHANGED <<Phase, location, Lost>>
    BY <1>4, <2>1 DEF OpenSocket, Phase, Lost
  <2> QED BY <1>1, <2>2
<1>5. CASE LookupSucceeds \/ SetupTls \/ Connect \/ CloudSends \/ CloudEnds
  <2>1. UNCHANGED <<Phase, location, Lost>>
    BY <1>5 DEF LookupSucceeds, SetupTls, Connect, CloudSends, Receive, CloudEnds,
       ReceiveFails, ReceiveEnds, Phase, Lost
  <2> QED BY <1>1, <2>1
<1>6. CASE Format \/ CloudTakes
  <2>1. pc \in {"format", "send"} /\ UNCHANGED <<holder, location>>
    BY <1>6 DEF Format, CloudTakes, Send, SendFails
  <2>2. CASE Abandon
    BY <2>1, <2>2, AbandonLoses DEF Cloud!Next
  <2>3. CASE ~Abandon
    <3>1. UNCHANGED <<Phase, location, Lost>>
      BY <1>6, <2>1, <2>3 DEF Format, CloudTakes, Send, SendFails, Phase, Lost
    <3> QED BY <1>1, <3>1
  <2> QED BY <2>2, <2>3
<1>7. ASSUME NEW code \in Codes, NEW headersEnd \in BOOLEAN, Answer(code, headersEnd)
      PROVE  Cloud!Next
  <2>1. /\ Phase = "busy" /\ location = "empty" /\ Lost' = Lost /\ Lost # Contexts
    BY <1>7, OpenedIsUsable DEF Answer, Phase, Lost, HttpsInv, OutcomeInv, Opened
  <2>2. CASE pc' = "cleanup" /\ location' \in {"message", "body", "garbage"}
    <3>1. Phase' = Phase
      BY <2>1, <2>2 DEF Phase
    <3> QED BY <2>1, <2>2, <3>1 DEF Cloud!Answer, Cloud!Pending, Cloud!AllLost, Cloud!Next,
               Phase, Lost
  <2>3. CASE pc' = "fault" /\ location' = location
    <3>1. Phase' = "fault"
      BY <2>3 DEF Phase
    <3> QED BY <2>1, <2>3, <3>1 DEF Cloud!Crash, Cloud!Pending, Cloud!AllLost, Cloud!Next,
               Phase, Lost
  <2> QED BY <1>7, <2>2, <2>3 DEF Answer
<1>8. CASE CleanUp
  <2>1. 0 \notin abandoned /\ req \notin abandoned
    BY <1>8 DEF CleanUp, HttpsInv, TypeOK, RequestInv, Requests
  <2>2. Lost' = Lost
    BY <1>8, <2>1 DEF CleanUp, Lost, HttpsInv, ContextInv
  <2>3. Phase = "busy" /\ Phase' = "idle" /\ location' = location
    BY <1>8 DEF CleanUp, Phase
  <2> QED BY <2>2, <2>3 DEF Cloud!Return, Cloud!Next, Phase, Lost
<1>9. CASE UNCHANGED vars
  BY <1>1, <1>9 DEF vars, Phase, Lost
<1> QED
  BY <1>2, <1>3, <1>4, <1>5, <1>6, <1>7, <1>8, <1>9 DEF Next, Proceeds, Answers

(* With every return of send_http_request, and the two that leak, a request *)
(* is what CloudRequest says: one outcome at most, taken from a context     *)
(* that is not lost, and at most one context lost, without an outcome.      *)
THEOREM HttpsImplementsCloudRequest == Spec => ImplementsCloudRequest
<1>1. Init => Cloud!Init
  <2> SUFFICES ASSUME Init PROVE Cloud!Init
    OBVIOUS
  <2>1. Lost = {} /\ Phase = "idle" /\ location = "empty"
    BY DEF Init, Lost, Phase
  <2> QED BY <2>1 DEF Cloud!Init, Lost, Phase
<1> QED
  BY <1>1, NextRefinesCloudRequest, HttpsInvariant, PTL
  DEF Spec, ImplementsCloudRequest, Cloud!Spec

(* When the last context is lost the request that lost it has no outcome,   *)
(* and no later one gets any: without a reset the page never sees a         *)
(* location again.  Shown of CloudRequest, which is where the reason lies.  *)
LEMMA CloudExhaustion == Cloud!Spec => Cloud!ExhaustionIsForGood
<1> DEFINE Inv == (Cloud!AllLost => Cloud!Exhausted) /\ Lost \subseteq Contexts
<1> USE DEF Cloud!AllLost, Cloud!Exhausted, Lost
<1>1. Cloud!Init => Inv
  BY DEF Cloud!Init
<1>2. Inv /\ [Cloud!Next]_(Cloud!vars) => Inv'
  BY DEF Cloud!Next, Cloud!vars, Cloud!Call, Cloud!Answer, Cloud!Crash, Cloud!Return,
     Cloud!Lose, Cloud!Pending
<1>3. Inv /\ Cloud!AllLost /\ [Cloud!Next]_(Cloud!vars) => Cloud!AllLost'
  BY DEF Cloud!Next, Cloud!vars, Cloud!Call, Cloud!Answer, Cloud!Crash, Cloud!Return,
     Cloud!Lose, Cloud!Pending
<1> QED
  <2> HIDE DEF Cloud!AllLost, Cloud!Exhausted, Lost
  <2> QED BY <1>1, <1>2, <1>3, PTL DEF Cloud!Spec, Cloud!ExhaustionIsForGood

(* So it is with the code: with the two contexts of prj.conf, two requests  *)
(* that are too long or fail in send() end the location service.            *)
THEOREM HttpsExhaustionIsForGood == Spec => ExhaustionIsForGood
BY HttpsImplementsCloudRequest, CloudExhaustion DEF ImplementsCloudRequest, ExhaustionIsForGood
=============================================================================
