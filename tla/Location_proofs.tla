--------------------------- MODULE Location_proofs ---------------------------
(* Proofs about Location, for any set of chains of fetches and of answers.  *)
EXTENDS Location, TLAPS

(* A response ends: the page got JSON, or an attempt is spent.              *)
LEMMA RespondKeepsInv ==
    ASSUME LocationInv, http \in {"first", "again"},
           NEW text \in Answers \cup {Empty},
           Respond(client, text), responseSent' \in BOOLEAN,
           missed' \in {0, 1}, missed' = 1 => location # Empty /\ ~responseSent'
    PROVE  LocationInv'
<1> USE LocationAssumption
<1>1. client \in Chains /\ attempts[client] > 0 /\ attempts[client] \in 0 .. MaxAttempts
  BY DEF LocationInv, TypeOK, ChainInv, Fetching
<1>2. /\ http' = "poll" /\ client' = NoChain /\ reply' = Empty
      /\ UNCHANGED <<location, request, posted, submits, breaks>>
  BY DEF Respond
<1>3. \/ attempts' = [attempts EXCEPT ![client] = 0]
      \/ attempts' = [attempts EXCEPT ![client] = @ - 1]
  BY DEF Respond
<1>4. attempts' \in [Chains -> 0 .. MaxAttempts]
  BY <1>1, <1>3 DEF LocationInv, TypeOK
<1>5. shown' \in [Chains -> Answers \cup {Empty}]
  BY DEF Respond, LocationInv, TypeOK
<1>6. TypeOK'
  BY <1>2, <1>4, <1>5 DEF LocationInv, TypeOK
<1>7. FlagInv'
  BY <1>2 DEF FlagInv
<1>8. ChainInv'
  <2>1. ASSUME NEW c \in Chains, c # client
        PROVE  attempts'[c] = attempts[c]
    BY <1>3, <2>1 DEF LocationInv, TypeOK
  <2>2. "get" \notin request[client]
    BY <1>1 DEF LocationInv, ChainInv, Fetching
  <2>3. ~posted[client]
    BY <1>1 DEF LocationInv, ChainInv
  <2> QED BY <1>2, <2>1, <2>2, <2>3 DEF LocationInv, ChainInv, Fetching
<1> QED BY <1>6, <1>7, <1>8 DEF LocationInv

(* Every step keeps the record of what the flag may hide.                   *)
LEMMA NextKeepsInv ==
    ASSUME LocationInv, Next
    PROVE  LocationInv'
<1> USE LocationAssumption
<1>1. ASSUME NEW c \in Chains, ServeJwt(c)
      PROVE  LocationInv'
  <2>2. TypeOK'
    BY <1>1 DEF LocationInv, TypeOK, ServeJwt
  <2>3. FlagInv'
    BY <1>1 DEF LocationInv, FlagInv, ServeJwt
  <2>4. ChainInv'
    BY <1>1 DEF LocationInv, TypeOK, ChainInv, Fetching, ServeJwt
  <2> QED BY <2>2, <2>3, <2>4 DEF LocationInv
<1>2. ASSUME NEW c \in Chains, ServeGet(c)
      PROVE  LocationInv'
  <2>2. TypeOK'
    BY <1>2 DEF LocationInv, TypeOK, ServeGet
  <2>3. FlagInv'
    BY <1>2 DEF LocationInv, FlagInv, ServeGet
  <2>4. ChainInv'
    BY <1>2 DEF LocationInv, TypeOK, ChainInv, Fetching, ServeGet
  <2> QED BY <2>2, <2>3, <2>4 DEF LocationInv
<1>3. CASE SetLocation
  <2>2. TypeOK'
    BY <1>3 DEF LocationInv, TypeOK, SetLocation, chainVars
  <2>3. FlagInv'
    BY <1>3 DEF LocationInv, FlagInv, SetLocation, chainVars
  <2>4. ChainInv'
    BY <1>3 DEF LocationInv, TypeOK, ChainInv, Fetching, SetLocation, chainVars
  <2> QED BY <2>2, <2>3, <2>4 DEF LocationInv
<1>4. CASE AnswerLocation
  <2>1. CASE location = Empty
    <3>1. reply = Empty
      BY <1>4, <2>1 DEF LocationInv, FlagInv, AnswerLocation
    <3>2. Respond(client, Empty) /\ responseSent' = TRUE
      BY <1>4, <2>1, <3>1 DEF AnswerLocation
    <3>3. missed' = missed
      BY <2>1, <3>2 DEF Respond
    <3>4. missed' = 0
      BY <2>1, <3>3 DEF LocationInv, FlagInv
    <3> QED BY <1>4, <3>2, <3>4, RespondKeepsInv DEF AnswerLocation
  <2>2. CASE location # Empty
    <3>1. /\ reply' = location /\ http' = "again" /\ responseSent' = TRUE
          /\ UNCHANGED <<location, client, chainVars, breaks, missed>>
      BY <1>4, <2>2 DEF AnswerLocation
    <3>2. TypeOK'
      BY <3>1 DEF LocationInv, TypeOK, chainVars
    <3>3. FlagInv'
      BY <2>2, <3>1 DEF LocationInv, FlagInv
    <3>4. ChainInv'
      BY <1>4, <3>1 DEF LocationInv, ChainInv, Fetching, chainVars, AnswerLocation
    <3> QED BY <3>2, <3>3, <3>4 DEF LocationInv
  <2> QED BY <2>1, <2>2
<1>5. CASE AnswerEnd
  <2>1. reply \in Answers \cup {Empty} /\ Respond(client, reply) /\ responseSent' = FALSE
    BY <1>5 DEF LocationInv, TypeOK, AnswerEnd
  <2>2. missed' \in {0, 1} /\ (missed' = 1 => location # Empty)
    <3>1. CASE http = "first"
      <4>1. missed = 0
        BY <1>5, <3>1 DEF LocationInv, FlagInv, AnswerEnd
      <4> QED BY <2>1, <4>1 DEF Respond
    <3>2. CASE http = "again"
      BY <2>1, <3>2 DEF LocationInv, FlagInv, Respond
    <3> QED BY <1>5, <3>1, <3>2 DEF AnswerEnd
  <2> QED BY <1>5, <2>1, <2>2, RespondKeepsInv DEF AnswerEnd
<1>6. CASE AnswerAborted
  <2>1. client \in Chains /\ attempts[client] > 0 /\ attempts[client] \in 0 .. MaxAttempts
    BY <1>6 DEF LocationInv, TypeOK, ChainInv, Fetching, AnswerAborted
  <2>2. TypeOK'
    <3>1. attempts' \in [Chains -> 0 .. MaxAttempts]
      <4>1. attempts' = [attempts EXCEPT ![client] = attempts[client] - 1]
        BY <1>6 DEF AnswerAborted
      <4>2. attempts[client] - 1 \in 0 .. MaxAttempts
        BY <2>1
      <4> QED BY <4>1, <4>2 DEF LocationInv, TypeOK
    <3>2. breaks' \in 0 .. MaxBreaks
      BY <1>6 DEF LocationInv, TypeOK, AnswerAborted
    <3> QED BY <1>6, <3>1, <3>2 DEF LocationInv, TypeOK, AnswerAborted
  <2>3. FlagInv'
    BY <1>6 DEF LocationInv, FlagInv, AnswerAborted
  <2>4. ChainInv'
    BY <1>6, <2>1 DEF LocationInv, TypeOK, ChainInv, Fetching, AnswerAborted
  <2> QED BY <2>2, <2>3, <2>4 DEF LocationInv
<1>7. ASSUME NEW c \in Chains, SubmitJwt(c)
      PROVE  LocationInv'
  <2>2. TypeOK'
    BY <1>7 DEF LocationInv, TypeOK, SubmitJwt, httpVars
  <2>3. FlagInv'
    BY <1>7 DEF LocationInv, FlagInv, SubmitJwt, httpVars
  <2>4. ChainInv'
    BY <1>7 DEF LocationInv, TypeOK, ChainInv, Fetching, SubmitJwt, httpVars
  <2> QED BY <2>2, <2>3, <2>4 DEF LocationInv
<1>8. ASSUME NEW c \in Chains, StartFetching(c)
      PROVE  LocationInv'
  <2>2. TypeOK'
    BY <1>8 DEF LocationInv, TypeOK, StartFetching, httpVars
  <2>3. FlagInv'
    BY <1>8 DEF LocationInv, FlagInv, StartFetching, httpVars
  <2>4. ChainInv'
    BY <1>8 DEF LocationInv, TypeOK, ChainInv, Fetching, StartFetching, httpVars
  <2> QED BY <2>2, <2>3, <2>4 DEF LocationInv
<1>9. ASSUME NEW c \in Chains, FetchAgain(c)
      PROVE  LocationInv'
  <2>2. TypeOK'
    BY <1>9 DEF LocationInv, TypeOK, FetchAgain, httpVars
  <2>3. FlagInv'
    BY <1>9 DEF LocationInv, FlagInv, FetchAgain, httpVars
  <2>4. ChainInv'
    BY <1>9 DEF LocationInv, TypeOK, ChainInv, Fetching, FetchAgain, httpVars
  <2> QED BY <2>2, <2>3, <2>4 DEF LocationInv
<1> QED
  BY <1>1, <1>2, <1>3, <1>4, <1>5, <1>6, <1>7, <1>8, <1>9 DEF Next, HttpThread

(* The flag of location_handler can hide a known location only until the    *)
(* next request: LocationInv holds in every reachable state.                *)
THEOREM LocationInvariant == Spec => []LocationInv
<1>1. Init => LocationInv
  <2> SUFFICES ASSUME Init PROVE LocationInv
    OBVIOUS
  <2> PICK opened \in SUBSET Chains :
        /\ request = [c \in Chains |-> IF c \in opened THEN {"get"} ELSE {}]
        /\ attempts = [c \in Chains |-> IF c \in opened THEN 1 ELSE 0]
    BY DEF Init
  <2>1. 1 \in 0 .. MaxAttempts /\ 0 \in 0 .. MaxSubmits /\ 0 \in 0 .. MaxBreaks
    BY LocationAssumption
  <2>2. TypeOK
    <3>1. attempts \in [Chains -> 0 .. MaxAttempts]
      BY LocationAssumption
    <3>2. {"get"} \in SUBSET {"jwt", "get"} /\ {} \in SUBSET {"jwt", "get"}
      OBVIOUS
    <3>3. request \in [Chains -> SUBSET {"jwt", "get"}]
      <4> DEFINE S == SUBSET {"jwt", "get"}
      <4> HIDE DEF S
      <4>1. {"get"} \in S /\ {} \in S
        BY <3>2 DEF S
      <4>2. request \in [Chains -> S]
        BY <4>1
      <4> QED BY <4>2 DEF S
    <3> QED BY <2>1, <3>1, <3>3 DEF Init, TypeOK
  <2>3. FlagInv
    BY DEF Init, FlagInv
  <2>4. ChainInv
    BY DEF Init, ChainInv, Fetching
  <2> QED BY <2>2, <2>3, <2>4 DEF LocationInv
<1>2. LocationInv /\ [Next]_vars => LocationInv'
  <2> SUFFICES ASSUME LocationInv, [Next]_vars
               PROVE  LocationInv'
    OBVIOUS
  <2>1. CASE Next
    BY <2>1, NextKeepsInv
  <2>2. CASE UNCHANGED vars
    BY <2>2 DEF LocationInv, TypeOK, FlagInv, ChainInv, Fetching, vars,
                 httpVars, chainVars
  <2> QED BY <2>1, <2>2
<1> QED BY <1>1, <1>2, PTL DEF Spec

(* Type correctness of location_handler, its caller and the chains.         *)
THEOREM LocationTypeCorrect == Spec => []TypeOK
<1>1. LocationInv => TypeOK
  BY DEF LocationInv
<1> QED BY <1>1, LocationInvariant, PTL

(* A location that is known is withheld from one request at most, however   *)
(* many chains fetch, break off, or found it unknown before.                *)
THEOREM LocationWithheldOnce == Spec => []OneMissAtMost
<1>1. LocationInv => OneMissAtMost
  BY DEF LocationInv, FlagInv, OneMissAtMost
<1> QED BY <1>1, LocationInvariant, PTL

(* The end of a response, and a connection that breaks, pay for the attempt *)
(* they cost: with the flag, or with one break fewer to come.               *)
LEMMA NextKeepsSpare ==
    ASSUME LocationInv, Next, location \in Json, location' \in Json, NEW c \in Chains
    PROVE  Spare(c)' >= Spare(c) \/ (attempts'[c] = 0 /\ shown'[c] # Empty)
<1> USE LocationAssumption DEF Spare
<1>1. /\ attempts \in [Chains -> Int] /\ attempts[c] \in 0 .. MaxAttempts
      /\ breaks \in Int /\ MaxBreaks \in Int /\ responseSent \in BOOLEAN
      /\ http \in {"first", "again"} => client \in Chains
      /\ http = "again" => responseSent /\ reply = location
      /\ http = "first" => reply = Empty
      /\ shown \in [Chains -> Answers \cup {Empty}]
  <2>1. attempts \in [Chains -> 0 .. MaxAttempts] /\ MaxAttempts \in Nat
    BY DEF LocationInv, TypeOK
  <2>2. attempts \in [Chains -> Int] /\ attempts[c] \in 0 .. MaxAttempts
    BY <2>1
  <2> QED BY <2>2 DEF LocationInv, TypeOK, FlagInv, ChainInv
<1>2. ASSUME NEW d \in Chains, ServeJwt(d) \/ ServeGet(d)
      PROVE  Spare(c)' = Spare(c)
  BY <1>2 DEF ServeJwt, ServeGet
<1>3. CASE SetLocation
  BY <1>3, <1>1 DEF SetLocation, chainVars
<1>4. CASE AnswerLocation
  BY <1>4, <1>1 DEF AnswerLocation, chainVars
<1>5. CASE AnswerEnd
  <2>1. /\ breaks' = breaks /\ responseSent = TRUE /\ responseSent' = FALSE /\ http' = "poll"
        /\ http \in {"first", "again"} /\ Respond(client, reply)
    BY <1>5 DEF AnswerEnd, Respond
  <2>2. CASE c # client
    <3>1. attempts'[c] = attempts[c]
      BY <1>1, <2>1, <2>2 DEF Respond
    <3> QED BY <1>1, <2>1, <3>1
  <2>3. CASE c = client /\ http = "again"
    <3>1. attempts'[c] = 0 /\ shown'[c] = reply /\ reply # Empty
      BY <1>1, <2>1, <2>3 DEF Respond
    <3> QED BY <3>1
  <2>4. CASE c = client /\ http = "first"
    <3>1. attempts'[c] = attempts[c] - 1
      BY <1>1, <2>1, <2>4 DEF Respond
    <3> QED BY <1>1, <2>1, <2>4, <3>1
  <2> QED BY <2>1, <2>2, <2>3, <2>4
<1>6. CASE AnswerAborted
  <2>1. /\ breaks' = breaks + 1 /\ responseSent' = FALSE /\ http' = "poll" /\ http = "again"
        /\ attempts' = [attempts EXCEPT ![client] = attempts[client] - 1]
    BY <1>6 DEF AnswerAborted
  <2>2. attempts'[c] >= attempts[c] - 1 /\ attempts'[c] \in Int
    BY <1>1, <2>1
  <2> QED BY <1>1, <2>1, <2>2
<1>7. ASSUME NEW d \in Chains, SubmitJwt(d) \/ FetchAgain(d)
      PROVE  Spare(c)' = Spare(c)
  BY <1>7 DEF SubmitJwt, FetchAgain, httpVars
<1>8. ASSUME NEW d \in Chains, StartFetching(d)
      PROVE  Spare(c)' >= Spare(c)
  <2>1. /\ attempts' = [attempts EXCEPT ![d] = MaxAttempts] /\ MaxAttempts \in Nat
        /\ UNCHANGED <<breaks, responseSent, http>>
    BY <1>8 DEF StartFetching, httpVars
  <2>2. attempts'[c] >= attempts[c] /\ attempts'[c] \in Int
    BY <1>1, <2>1
  <2> QED BY <1>1, <2>1, <2>2
<1>9. Spare(c) \in Int
  BY <1>1
<1> QED
  BY <1>2, <1>3, <1>4, <1>5, <1>6, <1>7, <1>8, <1>9 DEF Next, HttpThread

(* The safety core of FetchSucceeds: with the location known, an attempt    *)
(* that a chain has to spare stays spare until the page shows an answer,    *)
(* for any number of chains, attempts and breaks.                           *)
THEOREM LocationSparesAttempts == Spec => SpareAttemptsAreKept
<1>1. ASSUME LocationInv, [Next]_vars
      PROVE  [ (location \in Json /\ location' \in Json) =>
                 \A c \in Chains :
                    \/ Spare(c)' >= Spare(c)
                    \/ attempts'[c] = 0 /\ shown'[c] # Empty ]_vars
  BY <1>1, NextKeepsSpare
<1> QED BY <1>1, LocationInvariant, PTL DEF Spec, SpareAttemptsAreKept
=============================================================================
