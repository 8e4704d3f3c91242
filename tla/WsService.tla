----------------------------- MODULE WsService -----------------------------
(***************************************************************************)
(* What the sensor websocket promises to the browsers, with no thread, no   *)
(* work queue and no slot scan: a pool of Slots, each serving at most one   *)
(* connection; a client that asks is given a free slot, and is turned away  *)
(* only if it found every slot taken when it asked.  A slot whose           *)
(* connection ended is closing for a while before it is free again.         *)
(***************************************************************************)
CONSTANTS
    Slots,      \* the serving slots
    Socks,      \* the descriptors of upgraded connections
    NoSock      \* "no descriptor"

VARIABLES
    asking,     \* the connection waiting for a slot, or NoSock
    serving,    \* the connection each slot serves, or NoSock
    closing,    \* the slots that are being given back
    full        \* was every slot taken when the asking client arrived?

vars == <<asking, serving, closing, full>>

Taken(i) == serving[i] # NoSock \/ i \in closing

Init ==
    /\ asking = NoSock
    /\ serving = [i \in Slots |-> NoSock]
    /\ closing = {}
    /\ full = FALSE

(* A new connection asks; nobody else is using its descriptor. *)
Ask(s) ==
    /\ asking = NoSock
    /\ \A i \in Slots : serving[i] # s
    /\ asking' = s
    /\ full' = (\A i \in Slots : Taken(i))
    /\ UNCHANGED <<serving, closing>>

Accept(i) ==
    /\ asking # NoSock
    /\ ~Taken(i)
    /\ serving' = [serving EXCEPT ![i] = asking]
    /\ asking' = NoSock
    /\ full' = FALSE
    /\ UNCHANGED closing

Refuse ==
    /\ asking # NoSock
    /\ full
    /\ asking' = NoSock
    /\ full' = FALSE
    /\ UNCHANGED <<serving, closing>>

Drop(i) ==
    /\ serving[i] # NoSock
    /\ serving' = [serving EXCEPT ![i] = NoSock]
    /\ closing' = closing \cup {i}
    /\ UNCHANGED <<asking, full>>

Release(i) ==
    /\ i \in closing
    /\ closing' = closing \ {i}
    /\ UNCHANGED <<asking, serving, full>>

Next ==
    \/ \E s \in Socks : Ask(s)
    \/ Refuse
    \/ \E i \in Slots : Accept(i) \/ Drop(i) \/ Release(i)

Spec == Init /\ [][Next]_vars

(* What a client may count on: no other slot serves its connection, and no  *)
(* slot the descriptor of the one that is asking.                           *)
Exclusive ==
    /\ \A i, j \in Slots : serving[i] = serving[j] /\ i # j => serving[i] = NoSock
    /\ \A i \in Slots : serving[i] = asking => asking = NoSock
=============================================================================
