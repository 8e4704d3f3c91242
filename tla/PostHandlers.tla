---------------------------- MODULE PostHandlers ----------------------------
(***************************************************************************)
(* The two POST resources of src/main.c: led_handler and jwt_handler each   *)
(* assemble a request body, which arrives in chunks, in a static buffer at a *)
(* static cursor, and parse it when the last chunk is in.  The buffers are   *)
(* never cleared between requests.                                          *)
(*                                                                          *)
(* External: the HTTP server, one thread that calls the handlers; it gives   *)
(* a resource to one request at a time (others are answered 409), reports a  *)
(* connection that ends early as ABORTED, and closes the connection, with an *)
(* ABORTED, of a request whose handler returned an error.  A body is of any  *)
(* length; what the page posts to /jwt, {"jwt":"..."}, is at least Prefix +  *)
(* Suffix long.                                                             *)
(*                                                                          *)
(* Not modelled: what temp_buff[ret - 2] = 0 overwrites when ret < 2, or     *)
(* when ret - 2 is beyond temp_buff.                                        *)
(*                                                                          *)
(* A byte is a cell [post, at]: which request it came from and where in its  *)
(* body it was; Nul is the zero byte of a cell never written.                *)
(***************************************************************************)
EXTENDS Integers

CONSTANTS
    Posts,          \* request bodies
    Nul,            \* a cell never written; also "no request"
    LedSize,        \* sizeof post_payload_buf of led_handler
    JwtSize,        \* sizeof post_payload_buf of jwt_handler
    Prefix,         \* the length of {"jwt":"
    Suffix,         \* the length of "}
    TempSize,       \* sizeof temp_buff of parse_jwt_post
    MaxBeyond       \* bound: non-zero bytes in the memory behind JwtSize

Cells == [post : Posts, at : Nat]

ASSUME PostAssumption ==
    /\ Nul \notin Posts \cup Cells
    /\ LedSize \in Nat /\ JwtSize \in Nat /\ Prefix \in Nat /\ Suffix \in Nat \ {0}
    /\ MaxBeyond \in Nat
    /\ Prefix + Suffix <= JwtSize
    /\ TempSize \in Nat /\ Suffix <= TempSize /\ JwtSize - Prefix - Suffix < TempSize

Resources == {"led", "jwt"}
Size(r)   == IF r = "led" THEN LedSize ELSE JwtSize

(* The first n bytes of the body of request p. *)
Body(p, n) == [k \in 0 .. n - 1 |-> [post |-> p, at |-> k]]

VARIABLES
    buf,        \* post_payload_buf of each resource
    cursor,     \* cursor of each resource
    owner,      \* the request that holds each resource, or Nul
    sent,       \* auxiliary: the bytes of that request handed to the handler
    http,       \* the HTTP thread: "poll", or "locating" inside parse_jwt_post
    parsed      \* what the last parse of each resource was given

vars == <<buf, cursor, owner, sent, http, parsed>>

NothingParsed == [post |-> Nul, len |-> 0, text |-> [k \in {} |-> Nul]]

Init ==
    /\ buf = [r \in Resources |-> [k \in 0 .. Size(r) - 1 |-> Nul]]
    /\ cursor = [r \in Resources |-> 0]
    /\ owner = [r \in Resources |-> Nul]
    /\ sent = [r \in Resources |-> 0]
    /\ http = "poll"
    /\ parsed = [r \in Resources |-> NothingParsed]

(* A request the buffer holds no byte of gets the resource. *)
Begin(r, p) ==
    /\ http = "poll"
    /\ owner[r] = Nul
    /\ \A k \in DOMAIN buf[r] : buf[r][k] # Nul => buf[r][k].post # p
    /\ owner' = [owner EXCEPT ![r] = p]
    /\ sent' = [sent EXCEPT ![r] = 0]
    /\ UNCHANGED <<buf, cursor, http, parsed>>

Release(r) ==
    /\ owner' = [owner EXCEPT ![r] = Nul]
    /\ sent' = [sent EXCEPT ![r] = 0]

(* The next n bytes of the request, copied behind the cursor. *)
Copied(r, n) ==
    [k \in DOMAIN buf[r] |->
        IF k \in cursor[r] .. cursor[r] + n - 1
        THEN [post |-> owner[r], at |-> sent[r] + (k - cursor[r])]
        ELSE buf[r][k]]

(* Mutant of Fits: off by one. *)
FitsOneMore(r, n) == n + cursor[r] <= Size(r) + 1

Fits(r, n) == n + cursor[r] <= Size(r)

More(r, n) ==
    /\ http = "poll" /\ owner[r] # Nul
    /\ Fits(r, n)
    /\ buf' = [buf EXCEPT ![r] = Copied(r, n)]
    /\ cursor' = [cursor EXCEPT ![r] = @ + n]
    /\ sent' = [sent EXCEPT ![r] = @ + n]
    /\ UNCHANGED <<owner, http, parsed>>

(* Mutant of Abort: the cursor is left where it is. *)
AbortKeepsCursor(r) ==
    /\ http = "poll" /\ owner[r] # Nul
    /\ Release(r)
    /\ UNCHANGED <<buf, cursor, http, parsed>>

(* HTTP_SERVER_DATA_ABORTED: the peer went away in the middle. *)
Abort(r) ==
    /\ http = "poll" /\ owner[r] # Nul
    /\ cursor' = [cursor EXCEPT ![r] = 0]
    /\ Release(r)
    /\ UNCHANGED <<buf, http, parsed>>

(* -ENOMEM, then the server's ABORTED: the cursor is reset, nothing parsed. *)
Overflow(r, n) ==
    /\ http = "poll" /\ owner[r] # Nul
    /\ ~Fits(r, n)
    /\ cursor' = [cursor EXCEPT ![r] = 0]
    /\ Release(r)
    /\ UNCHANGED <<buf, http, parsed>>

(* What json_obj_parse is given: the first len cells. *)
FirstCells(b, len) == [k \in 0 .. len - 1 |-> b[k]]

(* The last chunk of a POST to /led: json_obj_parse is given cursor bytes.  *)
FinalLed(n) ==
    /\ http = "poll" /\ owner["led"] # Nul
    /\ Fits("led", n)
    /\ buf' = [buf EXCEPT !["led"] = Copied("led", n)]
    /\ LET len == cursor["led"] + n IN
       parsed' = [parsed EXCEPT !["led"] =
           [post |-> owner["led"], len |-> sent["led"] + n,
            text |-> FirstCells(Copied("led", n), len)]]
    /\ cursor' = [cursor EXCEPT !["led"] = 0]
    /\ Release("led")
    /\ UNCHANGED http

(* The places of the string at buf + Prefix: it runs to the first zero byte, *)
(* whatever the length of the request.  A buffer that is full has none: the  *)
(* read goes on beyond it, over whatever follows.                           *)
String(b, beyond) ==
    {k \in Prefix .. JwtSize + beyond - 1 :
        \A l \in DOMAIN b : l >= Prefix /\ b[l] = Nul => k < l}

(* The places of it that are left in temp_buff: not those that snprintf has  *)
(* no room for, nor the last Suffix (of a shorter string those are outside). *)
Left(string) ==
    {k \in string :
        /\ k < Prefix + TempSize - 1
        /\ Prefix + Suffix - 1 \in string => k + Suffix \in string}

Token(b, beyond) ==
    [k \in Left(String(b, beyond)) |-> IF k \in DOMAIN b THEN b[k] ELSE Nul]

(* The last chunk of a POST to /jwt: parse_jwt_post blocks the thread in     *)
(* the location request; the cursor is reset after it.                      *)
FinalJwt(n) ==
    /\ http = "poll" /\ owner["jwt"] # Nul
    /\ Fits("jwt", n)
    /\ buf' = [buf EXCEPT !["jwt"] = Copied("jwt", n)]
    /\ cursor' = [cursor EXCEPT !["jwt"] = @ + n]
    /\ sent' = [sent EXCEPT !["jwt"] = @ + n]
    /\ \E beyond \in 0 .. MaxBeyond :
         parsed' = [parsed EXCEPT !["jwt"] =
             [post |-> owner["jwt"], len |-> sent["jwt"] + n,
              text |-> Token(Copied("jwt", n), beyond)]]
    /\ http' = "locating"
    /\ UNCHANGED owner

(* Mutant of Located: the cursor is not reset after the location request. *)
LocatedKeepsCursor ==
    /\ http = "locating"
    /\ http' = "poll"
    /\ Release("jwt")
    /\ UNCHANGED <<buf, cursor, parsed>>

Located ==
    /\ http = "locating"
    /\ http' = "poll"
    /\ cursor' = [cursor EXCEPT !["jwt"] = 0]
    /\ Release("jwt")
    /\ UNCHANGED <<buf, parsed>>

Next ==
    \/ \E r \in Resources :
         \/ \E p \in Posts : Begin(r, p)
         \/ \E n \in 0 .. Size(r) + 1 : More(r, n) \/ Overflow(r, n)
         \/ Abort(r)
    \/ \E n \in 0 .. LedSize : FinalLed(n)
    \/ \E n \in 0 .. JwtSize : FinalJwt(n)
    \/ Located

Spec == Init /\ [][Next]_vars

----------------------------------------------------------------------------
TypeOK ==
    /\ buf = [r \in Resources |-> buf[r]]
    /\ cursor \in [Resources -> Nat]
    /\ \A r \in Resources :
         /\ buf[r] \in [0 .. Size(r) - 1 -> Cells \cup {Nul}]
         /\ cursor[r] <= Size(r)
    /\ parsed = [r \in Resources |-> parsed[r]]
    /\ owner \in [Resources -> Posts \cup {Nul}]
    /\ sent \in [Resources -> Nat]
    /\ http \in {"poll", "locating"}

(* The buffer holds the beginning of the body of the request in progress,   *)
(* every byte of it and no byte of another, in order: whatever requests     *)
(* were cut short, refused or completed before.                             *)
AssembledBody ==
    \A r \in Resources :
        /\ owner[r] = Nul => cursor[r] = 0
        /\ owner[r] # Nul => cursor[r] = sent[r]
        /\ \A k \in 0 .. cursor[r] - 1 : buf[r][k] = [post |-> owner[r], at |-> k]

(* The JSON parser of the LED command reads exactly the body posted.        *)
LedCommandIsTheBody ==
    parsed["led"].text = Body(parsed["led"].post, parsed["led"].len)

(* What parse_jwt_post sends to the cloud begins with the whole token       *)
(* posted.                                                                  *)
TokenBeginsWithPosted ==
    \A k \in Prefix .. parsed["jwt"].len - Suffix - 1 :
        /\ k \in DOMAIN parsed["jwt"].text
        /\ parsed["jwt"].text[k] = [post |-> parsed["jwt"].post, at |-> k]

(* A byte of some earlier body that was longer is still behind this one's.   *)
LongerBefore ==
    \E k \in DOMAIN buf["jwt"] : k >= Prefix /\ k >= sent["jwt"] /\ buf["jwt"][k] # Nul

(* A body of len bytes without its Prefix and, if it has one, its Suffix. *)
Posted(len) == Prefix .. (IF len >= Prefix + Suffix THEN len - Suffix ELSE len) - 1

(* And it is the token posted, unless a longer body, complete or not, came   *)
(* before: then bytes of that one follow every token, that is every body    *)
(* with room for Prefix and Suffix (in one that fills the buffer the token   *)
(* ends where the memory behind the buffer has a zero).                     *)
TokenEndsUnlessLongerBefore ==
    /\ TokenBeginsWithPosted
    /\ http = "locating" /\ sent["jwt"] < JwtSize =>
         /\ ~LongerBefore => DOMAIN parsed["jwt"].text = Posted(sent["jwt"])
         /\ LongerBefore /\ sent["jwt"] >= Prefix + Suffix
              => DOMAIN parsed["jwt"].text # Posted(sent["jwt"])

(* The bytes ever written are the beginning of a buffer, each at its own    *)
(* place in the body it came with, also those left of earlier requests.     *)
WrittenInv ==
    \A r \in Resources : \A k \in DOMAIN buf[r] :
        buf[r][k] # Nul =>
            /\ buf[r][k].at = k
            /\ \A l \in 0 .. k : buf[r][l] # Nul

(* A token is parsed while its request holds /jwt, and its bytes are there. *)
TokenInv ==
    http = "locating" =>
        /\ owner["jwt"] # Nul
        /\ parsed["jwt"].len = sent["jwt"]
        /\ \E beyond \in 0 .. MaxBeyond : parsed["jwt"].text = Token(buf["jwt"], beyond)

PostInv ==
    /\ TypeOK
    /\ AssembledBody
    /\ WrittenInv
    /\ TokenInv
    /\ LedCommandIsTheBody
    /\ TokenBeginsWithPosted

(* Comments of parse_jwt_post, "Remove leading {"jwt":"" and "Remove        *)
(* trailing "}": what is left of the body is the token posted, no more.     *)
TokenIsThePosted ==
    parsed["jwt"].len >= Prefix + Suffix =>
      \A k \in DOMAIN parsed["jwt"].text :
          parsed["jwt"].text[k] = [post |-> parsed["jwt"].post, at |-> k]
=============================================================================
