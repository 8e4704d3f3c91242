---------------------------- MODULE HttpsRequest ----------------------------
(***************************************************************************)
(* send_http_request of src/https_request.c: the HTTP server thread looks    *)
(* up the cloud, opens a TLS socket, posts the scanned access points with    *)
(* the user's token, reads the answer into the static recv_buf and turns it  *)
(* into location_str.  Requests follow one another; what one leaves behind,  *)
(* a descriptor, an address list or bytes in recv_buf, the next one finds.   *)
(*                                                                          *)
(* External: the resolver, the sockets and the cloud, any of whose calls     *)
(* may fail.  A TLS context is taken by socket() and given back by close().  *)
(***************************************************************************)
EXTENDS Integers

CONSTANTS
    Contexts,       \* the TLS contexts (NET_SOCKETS_TLS_MAX_CONTEXTS of them)
    NoFd,           \* the -1 of a socket() that failed
    DnsAttempts,    \* CONFIG_DNS_ATTEMPTS
    MaxRequests,    \* bound: location requests made
    ListLengths,    \* strlen of api_str, from the Wi-Fi scan
    TokenLengths,   \* strlen of auth_token
    Room,           \* what SEND_BUF_SIZE leaves for the list and the token
    SendSize,       \* a request, in units send() takes
    RecvSize        \* RECV_BUF_SIZE, in units the cloud answers in

ASSUME HttpsAssumption ==
    /\ NoFd \notin Contexts
    /\ DnsAttempts \in Nat \ {0} /\ MaxRequests \in Nat
    /\ SendSize \in Nat \ {0} /\ RecvSize \in Nat \ {0}
    /\ ListLengths \subseteq Nat /\ TokenLengths \subseteq Nat /\ Room \in Nat

Requests == 1 .. MaxRequests

VARIABLES
    pc,         \* where in send_http_request the thread is
    req,        \* the number of the request, 0 before the first
    tries,      \* i of the resolver's loop
    list,       \* strlen(api_str)
    token,      \* strlen(auth_token)
    fd,         \* fd, unless it was never assigned
    holder,     \* the request that opened each TLS context, 0 if it is free
    infos,      \* the requests whose address list is not freed
    recvBuf,    \* the request whose answer wrote each unit of recv_buf, or 0
    off,        \* units sent, then received
    text,       \* how much of recv_buf the string functions read
    location,   \* location_str
    abandoned   \* auxiliary: the requests that returned without clean_up

sockets == <<fd, holder, infos>>
buffer  == <<recvBuf, off, text>>
inputs  == <<req, list, token>>
vars    == <<pc, req, tries, list, token, fd, holder, infos,
             recvBuf, off, text, location, abandoned>>

(* The status codes 200 and 401, whose body is copied; the other ones that  *)
(* are known, whose body is logged; and everything else.                    *)
Codes == {"copied", "logged", "other"}

Init ==
    /\ pc = "idle" /\ req = 0 /\ tries = 0 /\ list = 0 /\ token = 0
    /\ fd = NoFd /\ holder = [c \in Contexts |-> 0] /\ infos = {}
    /\ recvBuf = [k \in 0 .. RecvSize - 1 |-> 0] /\ off = 0 /\ text = 0
    /\ location = "empty" /\ abandoned = {}

----------------------------------------------------------------------------
(* The call, from parse_jwt_post: location_str is cleared. *)
Call ==
    /\ pc = "idle" /\ req < MaxRequests
    /\ req' = req + 1
    /\ list' \in ListLengths /\ token' \in TokenLengths
    /\ location' = "empty"
    /\ tries' = 0 /\ pc' = "lookup"
    /\ UNCHANGED <<sockets, buffer, abandoned>>

(* Mutant of LookupFails: the count starts again, the loop never gives up. *)
LookupFailsForEver ==
    /\ pc = "lookup"
    /\ tries' = IF tries = DnsAttempts - 1 THEN 0 ELSE tries + 1
    /\ UNCHANGED <<pc, inputs, sockets, buffer, location, abandoned>>

LookupFails ==      \* the last failed attempt returns, with nothing to free
    /\ pc = "lookup"
    /\ IF tries = DnsAttempts - 1
       THEN pc' = "idle" /\ UNCHANGED tries
       ELSE tries' = tries + 1 /\ UNCHANGED pc
    /\ UNCHANGED <<inputs, sockets, buffer, location, abandoned>>

LookupSucceeds ==
    /\ pc = "lookup"
    /\ infos' = infos \cup {req}
    /\ pc' = "socket"
    /\ UNCHANGED <<inputs, tries, fd, holder, buffer, location, abandoned>>

(* Mutant of OpenSocket: the -1 is not stored, clean_up closes an older fd. *)
OpenSocketKeepsFd ==
    /\ pc = "socket"
    /\ \/ \E c \in Contexts :
            /\ holder[c] = 0
            /\ fd' = c /\ holder' = [holder EXCEPT ![c] = req]
            /\ pc' = "setup"
       \/ pc' = "cleanup" /\ UNCHANGED <<fd, holder>>
    /\ UNCHANGED <<inputs, tries, infos, buffer, location, abandoned>>

OpenSocket ==       \* socket(), which needs a free TLS context, and may fail
    /\ pc = "socket"
    /\ \/ \E c \in Contexts :
            /\ holder[c] = 0
            /\ fd' = c /\ holder' = [holder EXCEPT ![c] = req]
            /\ pc' = "setup"
       \/ fd' = NoFd /\ pc' = "cleanup" /\ UNCHANGED holder
    /\ UNCHANGED <<inputs, tries, infos, buffer, location, abandoned>>

(* Mutant of SetupTls: an error returns instead of cleaning up. *)
SetupTlsReturns ==
    /\ pc = "setup"
    /\ pc' \in {"connect", "idle"}
    /\ UNCHANGED <<inputs, tries, sockets, buffer, location, abandoned>>

SetupTls ==         \* tls_setup
    /\ pc = "setup"
    /\ pc' \in {"connect", "cleanup"}
    /\ UNCHANGED <<inputs, tries, sockets, buffer, location, abandoned>>

Connect ==
    /\ pc = "connect"
    /\ pc' \in {"format", "cleanup"}
    /\ UNCHANGED <<inputs, tries, sockets, buffer, location, abandoned>>

(* A return that frees neither the address list nor the descriptor. *)
Abandon ==
    /\ abandoned' = abandoned \cup {req}
    /\ pc' = "idle"

(* The comma that ends the list is dropped: from an empty list, which has   *)
(* none, the byte in front of api_str is cleared instead.                   *)
ListSent == IF list = 0 THEN 0 ELSE list - 1

RequestTooLong == ListSent + token > Room

Format ==           \* snprintf of the request, and the test for truncation
    /\ pc = "format"
    /\ IF RequestTooLong
       THEN Abandon /\ UNCHANGED off
       ELSE pc' = "send" /\ off' = 0 /\ UNCHANGED abandoned
    /\ UNCHANGED <<inputs, tries, sockets, recvBuf, text, location>>

(* Mutant of Send: each call starts anew behind what the last one took.     *)
SendForgetsOffset(n) ==
    /\ pc = "send"
    /\ off + n <= SendSize
    /\ IF off + n = SendSize THEN pc' = "receive" /\ off' = 0 ELSE UNCHANGED pc /\ off' = n
    /\ UNCHANGED <<inputs, tries, sockets, recvBuf, text, location, abandoned>>

(* send() takes n units from off on; one that takes none is tried again.    *)
Send(n) ==
    /\ pc = "send"
    /\ off + n <= SendSize
    /\ IF off + n = SendSize THEN pc' = "receive" /\ off' = 0 ELSE UNCHANGED pc /\ off' = off + n
    /\ UNCHANGED <<inputs, tries, sockets, recvBuf, text, location, abandoned>>

SendFails ==        \* returns
    /\ pc = "send"
    /\ Abandon
    /\ UNCHANGED <<inputs, tries, sockets, buffer, location>>

(* Mutant of Receive: room for one unit more is asked for. *)
ReceivePastTheEnd(n) ==
    /\ pc = "receive"
    /\ off + n <= RecvSize + 1
    /\ recvBuf' = [k \in DOMAIN recvBuf |->
                      IF k \in off .. off + n - 1 THEN req ELSE recvBuf[k]]
    /\ off' = off + n
    /\ UNCHANGED <<pc, inputs, tries, sockets, text, location, abandoned>>

(* recv() fills n units behind off. *)
Receive(n) ==
    /\ pc = "receive"
    /\ off + n <= RecvSize
    /\ recvBuf' = [k \in DOMAIN recvBuf |->
                      IF k \in off .. off + n - 1 THEN req ELSE recvBuf[k]]
    /\ off' = off + n
    /\ UNCHANGED <<pc, inputs, tries, sockets, text, location, abandoned>>

ReceiveFails ==
    /\ pc = "receive"
    /\ pc' = "cleanup"
    /\ UNCHANGED <<inputs, tries, sockets, buffer, location, abandoned>>

(* Mutant of ReceiveEnds: recv_buf is not terminated, the whole is read. *)
ReceiveEndsUnterminated ==
    /\ pc = "receive"
    /\ text' = RecvSize
    /\ pc' = "answer"
    /\ UNCHANGED <<inputs, tries, sockets, recvBuf, off, location, abandoned>>

(* recv() returned 0: the peer closed, or no room is left.  A zero byte ends *)
(* the text, in place of the last unit if the buffer is full.               *)
ReceiveEnds ==
    /\ pc = "receive"
    /\ text' = IF off < RecvSize THEN off ELSE RecvSize - 1
    /\ pc' = "answer"
    /\ UNCHANGED <<inputs, tries, sockets, recvBuf, off, location, abandoned>>

(* The switch on the status code.  The body is read from behind the         *)
(* headers; if their end is not in recv_buf, header_end + 4 is address 4:   *)
(* what is there is copied or logged, or the access faults.                 *)
Answer(code, headersEnd) ==
    /\ pc = "answer"
    /\ text = 0 => code = "other" /\ ~headersEnd
    /\ \/ /\ location' = IF code # "copied" THEN "message"
                         ELSE IF headersEnd THEN "body" ELSE "garbage"
          /\ pc' = "cleanup"
       \/ /\ code # "other" /\ ~headersEnd
          /\ pc' = "fault" /\ UNCHANGED location
    /\ UNCHANGED <<inputs, tries, sockets, buffer, abandoned>>

CleanUp ==          \* freeaddrinfo and close, of a failed socket() too
    /\ pc = "cleanup"
    /\ infos' = infos \ {req}
    /\ holder' = [c \in Contexts |-> IF c = fd THEN 0 ELSE holder[c]]
    /\ pc' = "idle"
    /\ UNCHANGED <<inputs, tries, fd, buffer, location, abandoned>>

CloudTakes == SendFails \/ \E n \in 1 .. SendSize : Send(n)
CloudSends == \E n \in 1 .. RecvSize : Receive(n)
Answers    == \E code \in Codes, headersEnd \in BOOLEAN : Answer(code, headersEnd)

Proceeds ==
    \/ LookupFails \/ LookupSucceeds \/ OpenSocket \/ SetupTls \/ Connect
    \/ Format \/ Answers \/ CleanUp

CloudEnds == ReceiveFails \/ ReceiveEnds

Next == Call \/ Proceeds \/ CloudTakes \/ CloudSends \/ CloudEnds

Spec == Init /\ [][Next]_vars

(* Every call but send() and recv() returns.  These two have no time limit:  *)
(* that the request is taken, and that the answer ends, is the cloud's doing *)
(* ("Connection: close") or the TCP stack's.                                *)
FairSpec == Spec /\ WF_vars(Proceeds) /\ WF_vars(CloudTakes) /\ WF_vars(CloudEnds)

----------------------------------------------------------------------------
Active(r) == r = req /\ pc \notin {"idle", "lookup"}

TypeOK ==
    /\ pc \in {"idle", "lookup", "socket", "setup", "connect", "format", "send",
               "receive", "answer", "cleanup", "fault"}
    /\ req \in 0 .. MaxRequests /\ tries \in 0 .. DnsAttempts - 1
    /\ list \in Nat /\ token \in Nat
    /\ fd \in Contexts \cup {NoFd} /\ holder \in [Contexts -> 0 .. MaxRequests]
    /\ infos \subseteq Requests /\ abandoned \subseteq Requests
    /\ recvBuf \in [0 .. RecvSize - 1 -> 0 .. MaxRequests]
    /\ off \in Nat /\ text \in 0 .. RecvSize
    /\ pc = "send" => off < SendSize
    /\ pc \in {"receive", "answer"} => off <= RecvSize
    /\ location \in {"empty", "message", "body", "garbage"}

(* Between requests, exactly those that were cut short by a request too     *)
(* long or by a failed send() still hold an address list and a TLS context, *)
(* one each; every other path gives back what it took, and only that.       *)
OnlyAbandonedRequestsLeak ==
    pc = "idle" =>
        /\ infos = abandoned
        /\ {holder[c] : c \in Contexts} \ {0} = abandoned
        /\ \A c, d \in Contexts : holder[c] = holder[d] /\ c # d => holder[c] = 0

(* The status code and the body are looked for in the answer to this        *)
(* request alone, although recv_buf still holds the end of a longer one.    *)
AnswerIsFresh ==
    pc = "answer" => \A k \in 0 .. text - 1 : recvBuf[k] = req

(* A request that the cloud does not leave hanging returns to the server.   *)
RequestEnds == pc \notin {"idle", "fault"} ~> pc \in {"idle", "fault"}

(* Why, from the call to the return of every path: the request counts as    *)
(* abandoned only when it returns ...                                       *)
RequestInv ==
    /\ pc # "idle" => req \in Requests /\ req \notin abandoned
    /\ \A r \in abandoned : r <= req

(* ... it holds its address list from the lookup on ... *)
InfoInv == infos = abandoned \cup {r \in Requests : Active(r)}

(* ... and the context it was given, if any, since socket() ... *)
Opened == pc \in {"setup", "connect", "format", "send", "receive", "answer", "fault"}

ContextInv ==
    /\ Opened => fd \in Contexts /\ holder[fd] = req
    /\ pc = "cleanup" /\ fd \in Contexts => holder[fd] = req
    /\ \A c \in Contexts :
         /\ holder[c] # 0 => holder[c] \in abandoned \/ (c = fd /\ holder[c] = req)
         /\ pc \in {"idle", "lookup", "socket"} /\ holder[c] # 0 => holder[c] \in abandoned
    /\ \A c, d \in Contexts : holder[c] = holder[d] /\ c # d => holder[c] = 0
    /\ \A r \in abandoned : \E c \in Contexts : holder[c] = r

(* ... and what it received so far is the beginning of recv_buf. *)
BufferInv ==
    /\ pc \in {"receive", "answer"} => \A k \in 0 .. off - 1 : recvBuf[k] = req
    /\ pc = "answer" => text <= off

(* Until the answer is there, location_str is as the call left it. *)
OutcomeInv == pc \notin {"idle", "cleanup"} => location = "empty"

HttpsInv == TypeOK /\ RequestInv /\ InfoInv /\ ContextInv /\ BufferInv /\ OutcomeInv

(* How much a request can still do: the statements before it returns, the   *)
(* attempts of the resolver, what is to be sent and the room in recv_buf.   *)
Statements ==
    [fault |-> 0, idle |-> 0, cleanup |-> 1, answer |-> 2, receive |-> 3, send |-> 4,
     format |-> 5, connect |-> 6, setup |-> 7, socket |-> 8, lookup |-> 9]

Left(step, size) ==     \* of a loop over size units of a buffer
    IF pc = step THEN size - off
    ELSE IF Statements[pc] > Statements[step] THEN size ELSE 0

StepsLeft ==
    Statements[pc]
        + (IF pc = "lookup" THEN DnsAttempts - tries ELSE 0)
        + Left("send", SendSize) + Left("receive", RecvSize)

(* Every step of a request leaves it less to do, so none of its three loops *)
(* goes round for ever: only a send() or recv() that does not return, or a  *)
(* send() that takes nothing again and again, can keep it from ending.      *)
RequestProgresses ==
    [][pc \notin {"idle", "fault"} => StepsLeft' < StepsLeft]_vars

(* For its caller and the page send_http_request is a CloudRequest: the     *)
(* contexts of abandoned requests are lost, and no other.                   *)
Cloud == INSTANCE CloudRequest WITH
    Outcomes <- {"message", "body", "garbage"}, None <- "empty", outcome <- location,
    phase <- IF pc \in {"idle", "fault"} THEN pc ELSE "busy",
    lost <- {c \in Contexts : holder[c] \in abandoned}

ImplementsCloudRequest == Cloud!Spec

(* Once that is every context, the page gets no location until a reset.     *)
ExhaustionIsForGood == Cloud!ExhaustionIsForGood

(* Comment of SEND_BUF_SIZE, "Define a buffer large enough to hold headers  *)
(* and body": every request that is formatted fits.                         *)
RequestFits == pc = "format" => ~RequestTooLong
=============================================================================
