------------------------------ MODULE Location ------------------------------
(***************************************************************************)
(* GET /location: location_handler of src/main.c with its static flag       *)
(* response_sent, the buffer location_buf that parse_jwt_post overwrites     *)
(* with the outcome of every location request, and the page's JavaScript     *)
(* (static_web_resources/main.js), which posts a token, waits five seconds   *)
(* and fetches the location, again after each attempt that fails.            *)
(*                                                                          *)
(* External: the HTTP server, one thread; it calls location_handler with     *)
(* FINAL until it returns 0, sending what it returns, and with ABORTED when  *)
(* the connection breaks while the response is being sent.                   *)
(*                                                                          *)
(* Every page that opens and every press of its button starts a chain of     *)
(* fetches of its own; those of a page do not know of each other, so that    *)
(* two chains stand for two pages, or for two presses on one.               *)
(*                                                                          *)
(* A location is Empty (nothing known, or the request failed before an      *)
(* answer came) or an answer: JSON, a position or a message, or the garbage  *)
(* that get_location makes of an answer cut short.                          *)
(***************************************************************************)
EXTENDS Integers

CONSTANTS
    Chains,         \* of calls of fetchLocation
    Answers,        \* what the cloud answers: non-empty texts
    Json,           \* those that response.json() takes
    MaxAttempts,    \* fetchLocation's argument after a press of the button
    MaxSubmits,     \* bound: tokens posted in the name of each chain
    MaxBreaks       \* bound: connections that break during a response

Empty == "empty"    \* no text, and what location_buf holds at first

ASSUME LocationAssumption ==
    /\ MaxAttempts \in Nat \ {0}
    /\ MaxSubmits \in Nat
    /\ Empty \notin Answers /\ Json \subseteq Answers
    /\ MaxBreaks \in Nat

VARIABLES
    location,       \* location_buf
    responseSent,   \* location_handler's static response_sent
    http,           \* the HTTP thread: "poll", "jwt", "first" or "again"
    client,         \* the chain whose request it serves, or NoChain
    reply,          \* what has been sent of the response being made
    request,        \* each chain's request waiting at the server
    attempts,       \* attempts_left of its fetchLocation, 0: none runs
    posted,         \* is it between postJWT and its fetchLocation?
    shown,          \* auxiliary: what the chain made the page show, or Empty
    submits,        \* tokens posted so far
    breaks,         \* connections broken so far
    missed          \* auxiliary: answers Empty given since location was set
                    \* while location was known

httpVars == <<http, client, reply, breaks>>
chainVars == <<request, attempts, posted, shown, submits>>
vars     == <<location, responseSent, http, client, reply,
              request, attempts, posted, shown, submits, breaks, missed>>

NoChain == "no chain"

Init ==     \* the pages just opened run fetchLocation(1)
    /\ location = Empty /\ responseSent = FALSE
    /\ http = "poll" /\ client = NoChain /\ reply = Empty
    /\ \E opened \in SUBSET Chains :
         /\ request = [c \in Chains |-> IF c \in opened THEN {"get"} ELSE {}]
         /\ attempts = [c \in Chains |-> IF c \in opened THEN 1 ELSE 0]
    /\ posted = [c \in Chains |-> FALSE]
    /\ shown = [c \in Chains |-> Empty]
    /\ submits = [c \in Chains |-> 0]
    /\ breaks = 0 /\ missed = 0

----------------------------------------------------------------------------
(* The HTTP thread. *)

ServeJwt(c) ==      \* jwt_handler's FINAL: the location is being requested
    /\ http = "poll"
    /\ "jwt" \in request[c]
    /\ http' = "jwt" /\ client' = c
    /\ request' = [request EXCEPT ![c] = @ \ {"jwt"}]
    /\ UNCHANGED <<location, responseSent, reply, breaks, attempts, posted, shown, submits, missed>>

(* http_resources_set_location, also with Empty after a failed request.     *)
SetLocation ==
    /\ http = "jwt"
    /\ location' \in Answers \cup {Empty}
    /\ missed' = 0
    /\ http' = "poll" /\ client' = NoChain
    /\ UNCHANGED <<responseSent, reply, breaks, chainVars>>

ServeGet(c) ==
    /\ http = "poll"
    /\ "get" \in request[c]
    /\ http' = "first" /\ client' = c /\ reply' = Empty
    /\ request' = [request EXCEPT ![c] = @ \ {"get"}]
    /\ UNCHANGED <<location, responseSent, breaks, attempts, posted, shown, submits, missed>>

(* fetchLocation of chain c gets the response text: an empty one or another  *)
(* that is no JSON counts as a failure, as a broken connection does.        *)
Respond(c, text) ==
    /\ missed' = IF text = Empty /\ location # Empty THEN missed + 1 ELSE missed
    /\ IF text \in Json
       THEN shown' = [shown EXCEPT ![c] = text] /\ attempts' = [attempts EXCEPT ![c] = 0]
       ELSE attempts' = [attempts EXCEPT ![c] = @ - 1] /\ UNCHANGED shown
    /\ http' = "poll" /\ client' = NoChain /\ reply' = Empty
    /\ UNCHANGED <<location, request, posted, submits, breaks>>

(* location_handler(FINAL), not yet answered: the number of bytes returned  *)
(* says whether it is called again.                                         *)
AnswerLocation ==
    /\ http \in {"first", "again"}
    /\ ~responseSent
    /\ responseSent' = TRUE
    /\ IF location = Empty
       THEN Respond(client, reply)
       ELSE /\ reply' = location /\ http' = "again"
            /\ UNCHANGED <<location, client, chainVars, breaks, missed>>

(* Mutant of AnswerEnd: the end of a response leaves the flag set. *)
AnswerEndKeepsFlag ==
    /\ http \in {"first", "again"}
    /\ responseSent
    /\ UNCHANGED responseSent
    /\ Respond(client, reply)

(* location_handler(FINAL), already answered: 0 ends the response. *)
AnswerEnd ==
    /\ http \in {"first", "again"}
    /\ responseSent
    /\ responseSent' = FALSE
    /\ Respond(client, reply)

(* Mutant of AnswerAborted: ABORTED leaves the flag set. *)
AnswerAbortedKeepsFlag ==
    /\ breaks < MaxBreaks
    /\ breaks' = breaks + 1
    /\ http = "again"
    /\ UNCHANGED responseSent
    /\ attempts' = [attempts EXCEPT ![client] = @ - 1]
    /\ http' = "poll" /\ client' = NoChain /\ reply' = Empty
    /\ UNCHANGED <<location, request, posted, shown, submits, missed>>

(* The connection breaks while the location is sent: ABORTED.               *)
AnswerAborted ==
    /\ breaks < MaxBreaks
    /\ breaks' = breaks + 1
    /\ http = "again"
    /\ responseSent' = FALSE
    /\ attempts' = [attempts EXCEPT ![client] = @ - 1]
    /\ http' = "poll" /\ client' = NoChain /\ reply' = Empty
    /\ UNCHANGED <<location, request, posted, shown, submits, missed>>

HttpThread ==
    \/ \E c \in Chains : ServeJwt(c) \/ ServeGet(c)
    \/ SetLocation \/ AnswerLocation \/ AnswerEnd

----------------------------------------------------------------------------
(* The chains, run by the pages. *)

(* The submit button: postJWT, then a wait of five seconds.  A press while   *)
(* other fetches run is that of a chain that is over or not yet begun.      *)
SubmitJwt(c) ==
    /\ submits[c] < MaxSubmits
    /\ attempts[c] = 0 /\ ~posted[c] /\ "jwt" \notin request[c]
    /\ submits' = [submits EXCEPT ![c] = @ + 1]
    /\ posted' = [posted EXCEPT ![c] = TRUE]
    /\ request' = [request EXCEPT ![c] = @ \cup {"jwt"}]
    /\ UNCHANGED <<location, responseSent, httpVars, attempts, shown, missed>>

(* ... and fetchLocation(5), whether or not the token was dealt with.       *)
StartFetching(c) ==
    /\ posted[c]
    /\ posted' = [posted EXCEPT ![c] = FALSE]
    /\ attempts' = [attempts EXCEPT ![c] = MaxAttempts]
    /\ request' = [request EXCEPT ![c] = @ \cup {"get"}]
    /\ shown' = [shown EXCEPT ![c] = Empty]
    /\ UNCHANGED <<location, responseSent, httpVars, submits, missed>>

(* The GET of chain c is being answered. *)
Fetching(c) == http \in {"first", "again"} /\ client = c

(* fetchLocation(attempts_left - 1), five seconds after a failure. *)
FetchAgain(c) ==
    /\ attempts[c] > 0 /\ "get" \notin request[c] /\ ~Fetching(c)
    /\ request' = [request EXCEPT ![c] = @ \cup {"get"}]
    /\ UNCHANGED <<location, responseSent, httpVars, attempts, posted, shown, submits, missed>>

Next ==
    \/ HttpThread \/ AnswerAborted
    \/ \E c \in Chains : SubmitJwt(c) \/ StartFetching(c) \/ FetchAgain(c)

Spec == Init /\ [][Next]_vars

(* The server serves every waiting request, the chains' timers fire.        *)
FairSpec ==
    /\ Spec
    /\ WF_vars(HttpThread)
    /\ \A c \in Chains :
         /\ SF_vars(ServeGet(c)) /\ SF_vars(ServeJwt(c))
         /\ WF_vars(StartFetching(c)) /\ WF_vars(FetchAgain(c))

----------------------------------------------------------------------------
TypeOK ==
    /\ location \in Answers \cup {Empty} /\ responseSent \in BOOLEAN
    /\ http \in {"poll", "jwt", "first", "again"}
    /\ client \in Chains \cup {NoChain} /\ reply \in Answers \cup {Empty}
    /\ request \in [Chains -> SUBSET {"jwt", "get"}]
    /\ attempts \in [Chains -> 0 .. MaxAttempts]
    /\ posted \in [Chains -> BOOLEAN]
    /\ shown \in [Chains -> Answers \cup {Empty}]
    /\ submits \in [Chains -> 0 .. MaxSubmits]
    /\ breaks \in 0 .. MaxBreaks /\ missed \in Nat

(* However many chains fetch, break off or find the location unknown, a      *)
(* known location is withheld from one request at most.                     *)
OneMissAtMost == missed <= 1

(* Why: the leftover response_sent that withholds a location is cleared by  *)
(* doing so, and a response being sent always carries the location.         *)
FlagInv ==
    /\ missed \in {0, 1}
    /\ missed = 1 => location # Empty /\ (http # "again" => ~responseSent)
    /\ http = "again" => responseSent /\ reply = location /\ location # Empty
    /\ http = "first" => reply = Empty

(* One request of a chain at a time is answered, and is one it still counts. *)
ChainInv ==
    /\ http \in {"first", "again"} => client \in Chains
    /\ \A c \in Chains :
         /\ "get" \in request[c] \/ Fetching(c) => attempts[c] > 0
         /\ ~("get" \in request[c] /\ Fetching(c))
         /\ posted[c] => attempts[c] = 0

LocationInv == TypeOK /\ FlagInv /\ ChainInv

(* With a location that is JSON known from then on, a fetch with two         *)
(* attempts more left than connections still break shows it.                *)
FetchSucceeds ==
    \A c \in Chains :
        []( attempts[c] >= 2 + MaxBreaks - breaks /\ [](location \in Json)
              => <>(attempts[c] = 0 /\ shown[c] # Empty) )

(* The attempts chain c has left beyond those that connections still to      *)
(* break and a leftover response_sent can cost it.                          *)
Spare(c) ==
    attempts[c] - (MaxBreaks - breaks)
                - (IF responseSent /\ http # "again" THEN 1 ELSE 0)

(* What makes a fetch succeed: while the location is known and JSON, no step *)
(* of another chain, of the HTTP thread or of the network uses up an attempt *)
(* that a chain has to spare, until the page shows what it was sent.        *)
SpareAttemptsAreKept ==
    [][ (location \in Json /\ location' \in Json) =>
          \A c \in Chains :
             \/ Spare(c)' >= Spare(c)
             \/ attempts'[c] = 0 /\ shown'[c] # Empty ]_vars

(* Comment of location_handler, "Response already sent": a response is      *)
(* ended only when the location of this request was sent.                   *)
KnownLocationIsSent == missed = 0
=============================================================================
