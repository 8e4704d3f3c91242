--------------------------- MODULE Sensors_proofs ---------------------------
(* Proofs about Sensors, for any number of values and of measurements.      *)
EXTENDS Sensors, TLAPS

(* The gas thread keeps the globals in order: newer words first. *)
LEMMA GasKeepsInv ==
    ASSUME TypeOK, GasInv, GasThread
    PROVE  GasInv' /\ (\A w \in Words : word'[w] >= word[w])
<1> USE SensorsAssumption
<1>1. CASE FetchGas
  <2>1. CASE sample' = sample + 1 /\ gasPc' = "store" /\ next' = 1 /\ word' = word
    BY <1>1, <2>1 DEF FetchGas, TypeOK, GasInv, Stored, Words
  <2>2. CASE GasEnds
    <3>1. \A w \in Words : word[w] = IF w <= 2 * NumValues THEN sample ELSE sample - 1
      BY <1>1 DEF FetchGas, GasInv, Stored
    <3> QED BY <2>2, <3>1 DEF GasEnds, GasInv, TornAt, TypeOK
  <2> QED BY <1>1, <2>1, <2>2 DEF FetchGas
<1>2. CASE StoreWord
  <2>1. \A w \in Words : word[w] = IF w <= next - 1 THEN sample ELSE sample - 1
    BY <1>2 DEF StoreWord, GasInv, Stored
  <2>2. \A w \in Words : word'[w] = IF w <= next THEN sample ELSE sample - 1
    BY <1>2, <2>1 DEF StoreWord, TypeOK, Words
  <2>3. \A w \in Words : word'[w] >= word[w]
    <3> SUFFICES ASSUME NEW w \in Words PROVE word'[w] >= word[w]
      OBVIOUS
    <3>1. w \in Int /\ next \in Int /\ sample \in Int
      BY DEF TypeOK, Words
    <3>2. word[w] = (IF w <= next - 1 THEN sample ELSE sample - 1)
      BY <2>1
    <3>3. word'[w] = (IF w <= next THEN sample ELSE sample - 1)
      BY <2>2
    <3> QED BY <3>1, <3>2, <3>3
  <2>4. GasInv'
    <3>1. CASE next + 1 \in Words
      BY <1>2, <2>2, <3>1 DEF StoreWord, GasInv, Stored, TypeOK, Words
    <3>2. CASE next + 1 \notin Words
      <4>1. next = 2 * NumValues
        BY <3>2 DEF TypeOK, Words
      <4> QED BY <1>2, <2>2, <3>2, <4>1 DEF StoreWord, GasInv, Stored
    <3> QED BY <3>1, <3>2
  <2> QED BY <2>3, <2>4
<1>3. CASE GetFails
  <2>1. \A w \in Words : word[w] = IF w <= next - 1 THEN sample ELSE sample - 1
    BY <1>3 DEF GetFails, GasInv, Stored
  <2>2. next - 1 \in 0 .. 2 * NumValues
    BY DEF TypeOK, Words
  <2>3. TornAt(word, sample)
    BY <2>1, <2>2 DEF TornAt
  <2> QED BY <1>3, <2>3 DEF GetFails, GasEnds, GasInv, TornAt, TypeOK
<1>4. CASE WakeUp
  BY <1>4 DEF WakeUp, GasInv, Stored, TypeOK
<1> QED BY <1>1, <1>2, <1>3, <1>4 DEF GasThread

(* At any instant the globals are torn at one place at most. *)
LEMMA GlobalsTorn ==
    ASSUME TypeOK, GasInv
    PROVE  TornAt(word, sample)
<1> USE SensorsAssumption
<1>1. CASE gasPc = "ended"
  BY <1>1 DEF GasInv
<1>2. CASE gasPc # "ended"
  <2>1. Stored \in 0 .. 2 * NumValues
    BY DEF Stored, TypeOK, Words
  <2> QED BY <1>2, <2>1 DEF GasInv, TornAt
<1> QED BY <1>1, <1>2

LEMMA NextKeepsSensorsInv ==
    ASSUME SensorsInv, Next
    PROVE  SensorsInv' /\ (\A w \in Words : sent'.words[w] >= sent.words[w])
<1> USE SensorsAssumption
<1>1. CASE GasThread
  <2>1. TypeOK' /\ sent' = sent
    <3>1. CASE FetchGas
      <4>1. 1 \in Words
        BY DEF Words
      <4> QED BY <3>1, <4>1 DEF SensorsInv, TypeOK, FetchGas, GasEnds
    <3>2. CASE StoreWord
      BY <3>2 DEF SensorsInv, TypeOK, StoreWord
    <3>3. CASE GetFails
      BY <3>3 DEF SensorsInv, TypeOK, GetFails, GasEnds
    <3>4. CASE WakeUp
      BY <3>4 DEF SensorsInv, TypeOK, WakeUp
    <3> QED BY <1>1, <3>1, <3>2, <3>3, <3>4 DEF GasThread
  <2>2. GasInv' /\ (\A w \in Words : word'[w] >= word[w])
    BY <1>1, GasKeepsInv DEF SensorsInv
  <2>3. \A w \in Words : sent'.words[w] <= word'[w]
    <3> SUFFICES ASSUME NEW w \in Words PROVE sent.words[w] <= word'[w]
      BY <2>1
    <3>1. sent.words[w] <= word[w] /\ word[w] <= word'[w]
      BY <2>2 DEF SensorsInv
    <3>2. sent.words[w] \in Int /\ word[w] \in Int /\ word'[w] \in Int
      BY <2>1 DEF SensorsInv, TypeOK
    <3> QED BY <3>1, <3>2
  <2>4. \A w \in Words : sent'.words[w] >= sent.words[w]
    BY <2>1 DEF SensorsInv, TypeOK
  <2>5. TornAtOnePlace'
    BY <2>1 DEF SensorsInv, TornAtOnePlace, TornAt
  <2> QED BY <2>1, <2>2, <2>3, <2>4, <2>5 DEF SensorsInv
<1>2. CASE Measure \/ FetchBmi270
  BY <1>2 DEF SensorsInv, TypeOK, Measure, FetchBmi270, gasVars, GasInv, Stored,
              TornAtOnePlace, TornAt
<1>3. CASE FetchAdxl367
  <2>1. UNCHANGED gasVars /\ wqPc' = "idle"
    BY <1>3 DEF FetchAdxl367
  <2>2. GasInv'
    BY <2>1 DEF gasVars, SensorsInv, GasInv, Stored, TornAt
  <2>3. CASE sent' = sent
    BY <2>1, <2>2, <2>3 DEF SensorsInv, TypeOK, gasVars, TornAtOnePlace, TornAt
  <2>4. CASE sent' = [words |-> word, at |-> sample]
    <3>1. TypeOK' /\ TornAtOnePlace'
      BY <2>1, <2>4, GlobalsTorn DEF SensorsInv, TypeOK, gasVars, TornAtOnePlace, TornAt
    <3> QED BY <2>1, <2>2, <2>4, <3>1 DEF SensorsInv, TypeOK, gasVars
  <2> QED BY <1>3, <2>3, <2>4 DEF FetchAdxl367
<1> QED BY <1>1, <1>2, <1>3 DEF Next

(* The globals are stored in order and every copy is one that they held.    *)
THEOREM SensorsInvariant == Spec => []SensorsInv
<1>1. Init => SensorsInv
  BY SensorsAssumption
     DEF Init, SensorsInv, TypeOK, GasInv, Stored, TornAtOnePlace, TornAt, Words
<1>2. SensorsInv /\ [Next]_vars => SensorsInv'
  <2> SUFFICES ASSUME SensorsInv, [Next]_vars
               PROVE  SensorsInv'
    OBVIOUS
  <2>1. CASE Next
    BY <2>1, NextKeepsSensorsInv
  <2>2. CASE UNCHANGED vars
    BY <2>2 DEF SensorsInv, TypeOK, GasInv, Stored, TornAtOnePlace, TornAt, vars
  <2> QED BY <2>1, <2>2
<1> QED BY <1>1, <1>2, PTL DEF Spec

(* Type correctness: no word but the globals' own is stored.                *)
THEOREM SensorsTypeCorrect == Spec => []TypeOK
<1>1. SensorsInv => TypeOK
  BY DEF SensorsInv
<1> QED BY <1>1, SensorsInvariant, PTL

(* What is sent mixes two successive measurements at most.                  *)
THEOREM SensorsTornOnce == Spec => []TornAtOnePlace
<1>1. SensorsInv => TornAtOnePlace
  BY DEF SensorsInv
<1> QED BY <1>1, SensorsInvariant, PTL

(* Of temperature, pressure, humidity and gas one is torn at most.          *)
THEOREM SensorsOneValueIsTorn == Spec => []OneValueIsTorn
<1>1. TypeOK /\ TornAtOnePlace => OneValueIsTorn
  <2> SUFFICES ASSUME TypeOK, TornAtOnePlace,
                      NEW v \in 1 .. NumValues, NEW u \in 1 .. NumValues,
                      Torn(sent.words, v), Torn(sent.words, u)
               PROVE  v = u
    BY DEF OneValueIsTorn
  <2>1. PICK k \in 0 .. 2 * NumValues :
          \A w \in Words : sent.words[w] = IF w <= k THEN sent.at ELSE sent.at - 1
    BY DEF TornAtOnePlace, TornAt
  <2>2. ASSUME NEW x \in 1 .. NumValues, Torn(sent.words, x)
        PROVE  k = 2 * x - 1
    <3>1. 2 * x - 1 \in Words /\ 2 * x \in Words
      BY SensorsAssumption DEF Words
    <3>2. ~(2 * x <= k) /\ 2 * x - 1 <= k
      BY <2>1, <2>2, <3>1, SensorsAssumption DEF Torn, Words
    <3> QED BY <3>2, SensorsAssumption
  <2>3. k = 2 * v - 1 /\ k = 2 * u - 1
    BY <2>2
  <2> QED BY <2>3, SensorsAssumption
<1> QED BY <1>1, SensorsTypeCorrect, SensorsTornOnce, PTL

(* No reading sent is older than the one sent before it.                    *)
THEOREM SensorsGoForward == Spec => ReadingsGoForward
<1>1. SensorsInv /\ [Next]_vars => [\A w \in Words : sent'.words[w] >= sent.words[w]]_vars
  BY NextKeepsSensorsInv
<1> QED BY <1>1, SensorsInvariant, PTL DEF Spec, ReadingsGoForward
=============================================================================
