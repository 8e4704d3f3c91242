---------------------------- MODULE CloudRequest ----------------------------
(***************************************************************************)
(* What a location request promises to the HTTP server and the page, with   *)
(* no resolver, socket call or buffer: requests are made one at a time, each *)
(* starts with no outcome and gets at most one, which takes a TLS context.   *)
(* A request may lose a context for good, and then has no outcome.          *)
(***************************************************************************)
CONSTANTS
    Contexts,   \* the TLS contexts
    Outcomes,   \* what an answer of the cloud is turned into
    None        \* no outcome

VARIABLES
    phase,      \* "idle", "busy", or "fault" when the board crashed
    outcome,    \* of the last request
    lost        \* the contexts lost so far

vars == <<phase, outcome, lost>>

Init == phase = "idle" /\ outcome = None /\ lost = {}

Call ==
    /\ phase = "idle"
    /\ phase' = "busy" /\ outcome' = None
    /\ UNCHANGED lost

Pending == phase = "busy" /\ outcome = None
AllLost == lost = Contexts

(* An outcome needs a context, as does a crash over an answer. *)
Answer(o) ==
    /\ Pending /\ ~AllLost
    /\ outcome' = o
    /\ UNCHANGED <<phase, lost>>

Crash ==
    /\ Pending /\ ~AllLost
    /\ phase' = "fault"
    /\ UNCHANGED <<outcome, lost>>

Return ==
    /\ phase = "busy"
    /\ phase' = "idle"
    /\ UNCHANGED <<outcome, lost>>

Lose(c) ==
    /\ Pending
    /\ c \notin lost /\ lost' = lost \cup {c}
    /\ phase' = "idle"
    /\ UNCHANGED outcome

Next ==
    \/ Call \/ Return \/ Crash
    \/ \E o \in Outcomes : Answer(o)
    \/ \E c \in Contexts : Lose(c)

Spec == Init /\ [][Next]_vars

(* Once every context is lost the board never locates itself again.         *)
Exhausted == AllLost /\ outcome = None

ExhaustionIsForGood == [](AllLost => []Exhausted)
=============================================================================
