------------------------------ MODULE Sensors ------------------------------
(***************************************************************************)
(* src/sensors.c: sensor_gas_thread measures the BME680 and stores four      *)
(* readings in the globals temp, press, hum and gas, one struct sensor_value *)
(* of two words after the other; sensor_measure, on the system work queue,   *)
(* fetches the two accelerometers, then copies those globals.  No lock       *)
(* protects them.                                                           *)
(*                                                                          *)
(* External: the drivers, any call of which may fail, and the scheduler: the *)
(* work queue thread is cooperative and blocks only in a driver, so that its *)
(* copy of the globals is one step, and the gas thread of priority 7 is      *)
(* preempted between any two stores.                                        *)
(***************************************************************************)
EXTENDS Integers

CONSTANTS
    NumValues,      \* globals the gas thread stores: temp, press, hum, gas
    MaxSamples      \* bound: measurements of the BME680

ASSUME SensorsAssumption == NumValues \in Nat \ {0} /\ MaxSamples \in Nat

(* The words of the globals in the order in which they are stored: val1 and *)
(* val2 of each.                                                            *)
Words      == 1 .. 2 * NumValues
FirstOf(w) == w % 2 = 1

VARIABLES
    word,       \* the measurement each stored word is of, 0 at first
    sample,     \* the number of the BME680's last measurement
    gasPc,      \* sensor_gas_thread: "fetch", "store", "sleep" or "ended"
    next,       \* the word it stores next
    wqPc,       \* sensor_measure: "idle", "bmi270" or "adxl367"
    sent        \* the last copy: its words, and sample when it was made

gasVars == <<word, sample, gasPc, next>>
vars    == <<word, sample, gasPc, next, wqPc, sent>>

Init ==
    /\ word = [w \in Words |-> 0] /\ sample = 0
    /\ gasPc = "fetch" /\ next = 1      \* started by sensors_init
    /\ wqPc = "idle" /\ sent = [words |-> word, at |-> 0]

----------------------------------------------------------------------------
(* sensor_gas_thread: any error ends it. *)

GasEnds ==
    /\ gasPc' = "ended"
    /\ UNCHANGED <<word, sample, next>>

FetchGas ==
    /\ gasPc = "fetch"
    /\ \/ /\ sample < MaxSamples
          /\ sample' = sample + 1
          /\ gasPc' = "store" /\ next' = 1
          /\ UNCHANGED word
       \/ GasEnds
    /\ UNCHANGED <<wqPc, sent>>

(* Mutant of StoreWord: val2 of each value before its val1. *)
StoreWordVal2First ==
    /\ gasPc = "store"
    /\ word' = [word EXCEPT ![IF next % 2 = 1 THEN next + 1 ELSE next - 1] = sample]
    /\ IF next + 1 \in Words
       THEN next' = next + 1 /\ UNCHANGED gasPc
       ELSE gasPc' = "sleep" /\ UNCHANGED next
    /\ UNCHANGED <<sample, wqPc, sent>>

StoreWord ==
    /\ gasPc = "store"
    /\ word' = [word EXCEPT ![next] = sample]
    /\ IF next + 1 \in Words
       THEN next' = next + 1 /\ UNCHANGED gasPc
       ELSE gasPc' = "sleep" /\ UNCHANGED next
    /\ UNCHANGED <<sample, wqPc, sent>>

(* Mutants of GetFails: the thread goes on with the next measurement; the   *)
(* failed value is cleared.                                                 *)
GetFailsClears ==
    /\ gasPc = "store" /\ FirstOf(next)
    /\ word' = [word EXCEPT ![next] = 0]
    /\ gasPc' = "ended"
    /\ UNCHANGED <<sample, next, wqPc, sent>>

GetFailsGoesOn ==
    /\ gasPc = "store" /\ FirstOf(next)
    /\ gasPc' = "sleep"
    /\ UNCHANGED <<word, sample, next, wqPc, sent>>

GetFails ==     \* sensor_channel_get, before it stores anything
    /\ gasPc = "store" /\ FirstOf(next)
    /\ GasEnds
    /\ UNCHANGED <<wqPc, sent>>

WakeUp ==       \* after k_sleep(K_MSEC(250))
    /\ gasPc = "sleep"
    /\ gasPc' = "fetch"
    /\ UNCHANGED <<word, sample, next, wqPc, sent>>

GasThread == FetchGas \/ StoreWord \/ GetFails \/ WakeUp

----------------------------------------------------------------------------
(* sensor_measure: an accelerometer's error returns -1, nothing is sent.     *)

Measure ==
    /\ wqPc = "idle" /\ wqPc' = "bmi270"
    /\ UNCHANGED <<gasVars, sent>>

FetchBmi270 ==
    /\ wqPc = "bmi270" /\ wqPc' \in {"adxl367", "idle"}
    /\ UNCHANGED <<gasVars, sent>>

FetchAdxl367 ==
    /\ wqPc = "adxl367" /\ wqPc' = "idle"
    /\ sent' \in {sent, [words |-> word, at |-> sample]}
    /\ UNCHANGED gasVars

Next == GasThread \/ Measure \/ FetchBmi270 \/ FetchAdxl367

Spec == Init /\ [][Next]_vars

----------------------------------------------------------------------------
TypeOK ==
    /\ word \in [Words -> 0 .. MaxSamples] /\ sample \in 0 .. MaxSamples
    /\ gasPc \in {"fetch", "store", "sleep", "ended"} /\ next \in Words
    /\ wqPc \in {"idle", "bmi270", "adxl367"}
    /\ sent \in [words : [Words -> 0 .. MaxSamples], at : 0 .. MaxSamples]

(* Words of measurement n up to some place, of the one before it after that. *)
TornAt(words, n) ==
    \E k \in 0 .. 2 * NumValues :
        \A w \in Words : words[w] = IF w <= k THEN n ELSE n - 1

(* What the page is sent mixes two measurements at most, the last begun and  *)
(* the one before it, and the newer words come first: it may tear one value  *)
(* (one measurement's val1, another's val2), never more.                     *)
TornAtOnePlace == TornAt(sent.words, sent.at)

(* Value v has val1 and val2 of different measurements. *)
Torn(words, v) == words[2 * v - 1] # words[2 * v]

(* Of the values of a message at most one mixes two measurements.           *)
OneValueIsTorn ==
    \A v, u \in 1 .. NumValues : Torn(sent.words, v) /\ Torn(sent.words, u) => v = u

(* From one message to the next no reading goes back to an earlier           *)
(* measurement.                                                             *)
ReadingsGoForward ==
    [][\A w \in Words : sent'.words[w] >= sent.words[w]]_vars

(* What the gas thread has stored of its measurement. *)
Stored == IF gasPc = "store" THEN next - 1 ELSE 2 * NumValues

GasInv ==
    IF gasPc = "ended"
    THEN TornAt(word, sample)
    ELSE \A w \in Words : word[w] = IF w <= Stored THEN sample ELSE sample - 1

(* A copy that is sent is no newer than the globals. *)
SensorsInv ==
    /\ TypeOK
    /\ GasInv
    /\ TornAtOnePlace
    /\ \A w \in Words : sent.words[w] <= word[w]
=============================================================================
