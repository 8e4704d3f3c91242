------------------------------ MODULE Station ------------------------------
(***************************************************************************)
(* What the Wi-Fi station promises to the rest of the firmware, with no      *)
(* supplicant, event queue or polling thread: the web server is started for  *)
(* a connection before the board counts as connected, is never stopped       *)
(* again, and a connection is lost between two of them only.                 *)
(*                                                                          *)
(* WifiSta implements it; Boot, which leaves the supplicant out, is written  *)
(* against it and implements it with the resets of the board added.          *)
(***************************************************************************)
VARIABLES
    connected,  \* context.connected of src/wifi.c
    server,     \* has http_server_start been called?
    handling    \* is a new connection being handled?

vars == <<connected, server, handling>>

Init == ~connected /\ ~server /\ ~handling

Connecting ==       \* wifi_connected_handler starts the server ...
    /\ ~connected /\ ~handling
    /\ handling' = TRUE /\ server' = TRUE
    /\ UNCHANGED connected

Connected ==        \* ... and then the flag is set
    /\ handling
    /\ connected' = TRUE /\ handling' = FALSE
    /\ UNCHANGED server

Disconnected ==
    /\ connected
    /\ connected' = FALSE
    /\ UNCHANGED <<server, handling>>

Next == Connecting \/ Connected \/ Disconnected

Spec == Init /\ [][Next]_vars

(* The same with resets, which leave nothing of the RAM. *)
Restart == connected' = FALSE /\ server' = FALSE /\ handling' = FALSE

RestartSpec == Init /\ [][Next \/ Restart]_vars
=============================================================================
