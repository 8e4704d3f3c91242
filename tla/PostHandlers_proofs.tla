------------------------ MODULE PostHandlers_proofs ------------------------
(***************************************************************************)
(* For buffers and tokens of every size: PostInv is an inductive invariant  *)
(* of the two POST handlers, so each parses the body of the request in       *)
(* progress, whatever requests came before it.                              *)
(***************************************************************************)
EXTENDS PostHandlers, TLAPS

LEMMA InitPostInv == Init => PostInv
<1>. SUFFICES ASSUME Init PROVE PostInv
  OBVIOUS
<1>. USE PostAssumption DEF Init, Resources, Size
<1>1. TypeOK
  BY DEF TypeOK
<1>2. AssembledBody
  BY DEF AssembledBody
<1>3. LedCommandIsTheBody
  BY DEF LedCommandIsTheBody, Body, NothingParsed
<1>4. TokenBeginsWithPosted
  BY DEF TokenBeginsWithPosted, NothingParsed
<1>5. WrittenInv /\ TokenInv
  BY DEF WrittenInv, TokenInv
<1>. QED BY <1>1, <1>2, <1>3, <1>4, <1>5 DEF PostInv

(* A chunk that fits leaves the cells before the cursor alone and continues  *)
(* the body behind it.                                                      *)
LEMMA CopyContinuesTheBody ==
    ASSUME PostInv, NEW r \in Resources, owner[r] # Nul, NEW n \in Nat, Fits(r, n)
    PROVE  /\ Copied(r, n) \in [0 .. Size(r) - 1 -> Cells \cup {Nul}]
           /\ cursor[r] = sent[r] /\ cursor[r] + n \in 0 .. Size(r)
           /\ \A k \in 0 .. cursor[r] + n - 1 :
                k \in 0 .. Size(r) - 1 /\ Copied(r, n)[k] = [post |-> owner[r], at |-> k]
<1>. USE PostAssumption
<1>1. /\ cursor[r] = sent[r] /\ cursor[r] \in Nat /\ Size(r) \in Nat
      /\ cursor[r] + n <= Size(r) /\ owner[r] \in Posts
      /\ buf[r] \in [0 .. Size(r) - 1 -> Cells \cup {Nul}]
      /\ \A k \in 0 .. cursor[r] - 1 : buf[r][k] = [post |-> owner[r], at |-> k]
  BY DEF PostInv, TypeOK, AssembledBody, Fits, Size
<1>2. DOMAIN buf[r] = 0 .. Size(r) - 1
  BY <1>1
<1>3. ASSUME NEW k \in 0 .. Size(r) - 1
      PROVE  Copied(r, n)[k] \in Cells \cup {Nul}
  BY <1>1, <1>2 DEF Copied, Cells
<1>4. ASSUME NEW k \in 0 .. cursor[r] + n - 1
      PROVE  k \in 0 .. Size(r) - 1 /\ Copied(r, n)[k] = [post |-> owner[r], at |-> k]
  <2>1. k \in 0 .. Size(r) - 1 /\ sent[r] + (k - cursor[r]) = k
    BY <1>1
  <2>. QED BY <1>1, <1>2, <2>1 DEF Copied
<1>5. Copied(r, n) \in [0 .. Size(r) - 1 -> Cells \cup {Nul}]
  BY <1>2, <1>3 DEF Copied
<1>. QED BY <1>1, <1>4, <1>5

(* The part of PostInv about the request in progress and the last parse.    *)
AssemblyInv ==
    /\ TypeOK
    /\ AssembledBody
    /\ http = "locating" => owner["jwt"] # Nul
    /\ LedCommandIsTheBody
    /\ TokenBeginsWithPosted

LEMMA NextKeepsAssembly == PostInv /\ [Next]_vars => AssemblyInv'
<1>. SUFFICES ASSUME PostInv, [Next]_vars PROVE AssemblyInv'
  OBVIOUS
<1>. USE PostAssumption DEF Release
<1>0. TypeOK /\ AssembledBody /\ LedCommandIsTheBody /\ TokenBeginsWithPosted
  BY DEF PostInv
<1>j. http = "locating" => owner["jwt"] # Nul
  BY DEF PostInv, TokenInv
<1>d. DOMAIN parsed = Resources /\ DOMAIN buf = Resources
  BY <1>0 DEF TypeOK
<1>1. ASSUME NEW r \in Resources, NEW p \in Posts, Begin(r, p) PROVE AssemblyInv'
  <2>. USE <1>1 DEF Begin
  <2>1. TypeOK'
    BY <1>0 DEF TypeOK
  <2>2. \A q \in Resources : /\ owner'[q] = IF q = r THEN p ELSE owner[q]
                             /\ sent'[q] = IF q = r THEN 0 ELSE sent[q]
    BY <1>0 DEF TypeOK
  <2>3. AssembledBody'
    BY <1>0, <2>2 DEF AssembledBody
  <2>4. http' # "locating"
    OBVIOUS
  <2>. QED BY <1>0, <2>1, <2>3, <2>4 DEF AssemblyInv, LedCommandIsTheBody, TokenBeginsWithPosted
<1>2. ASSUME NEW r \in Resources, NEW n \in Nat, More(r, n) PROVE AssemblyInv'
  <2>. USE <1>2 DEF More
  <2>1. TypeOK'
    <3>1. /\ Copied(r, n) \in [0 .. Size(r) - 1 -> Cells \cup {Nul}]
          /\ cursor[r] + n \in Nat /\ cursor[r] + n <= Size(r) /\ sent[r] + n \in Nat
      BY <1>0, CopyContinuesTheBody DEF TypeOK
    <3>2. \A q \in Resources :
            /\ buf'[q] = IF q = r THEN Copied(r, n) ELSE buf[q]
            /\ cursor'[q] = IF q = r THEN cursor[r] + n ELSE cursor[q]
      BY <1>0 DEF TypeOK
    <3>3. buf' = [q \in Resources |-> buf'[q]]
      BY <1>0 DEF TypeOK
    <3>. QED BY <1>0, <3>1, <3>2, <3>3 DEF TypeOK
  <2>2. AssembledBody'
    BY <1>0, CopyContinuesTheBody DEF TypeOK, AssembledBody
  <2>. QED BY <1>0, <2>1, <2>2 DEF AssemblyInv, LedCommandIsTheBody, TokenBeginsWithPosted
<1>3. ASSUME NEW r \in Resources, Abort(r) \/ \E n \in Nat : Overflow(r, n) PROVE AssemblyInv'
  <2>. USE <1>3 DEF Abort, Overflow
  <2>1. TypeOK'
    <3>1. /\ cursor' = [cursor EXCEPT ![r] = 0] /\ owner' = [owner EXCEPT ![r] = Nul]
          /\ sent' = [sent EXCEPT ![r] = 0] /\ UNCHANGED <<buf, http, parsed>>
      OBVIOUS
    <3>2. Size(r) \in Nat
      BY DEF Size
    <3>. QED BY <1>0, <3>1, <3>2 DEF TypeOK
  <2>2. \A q \in Resources : /\ owner'[q] = IF q = r THEN Nul ELSE owner[q]
                             /\ sent'[q] = IF q = r THEN 0 ELSE sent[q]
                             /\ cursor'[q] = IF q = r THEN 0 ELSE cursor[q]
    BY <1>0 DEF TypeOK
  <2>3. AssembledBody'
    BY <1>0, <2>2 DEF AssembledBody
  <2>4. http' # "locating"
    OBVIOUS
  <2>. QED BY <1>0, <2>1, <2>3, <2>4 DEF AssemblyInv, LedCommandIsTheBody, TokenBeginsWithPosted
<1>4. ASSUME NEW n \in Nat, FinalLed(n) PROVE AssemblyInv'
  <2>. USE <1>4 DEF FinalLed
  <2>. DEFINE c == Copied("led", n)
  <2>1. /\ c \in [0 .. Size("led") - 1 -> Cells \cup {Nul}]
        /\ cursor["led"] = sent["led"] /\ sent["led"] \in Nat
        /\ \A k \in 0 .. cursor["led"] + n - 1 :
             c[k] = [post |-> owner["led"], at |-> k]
    BY <1>0, CopyContinuesTheBody DEF Resources, TypeOK
  <2>2. TypeOK'
    <3>1. parsed' = [r \in Resources |-> parsed'[r]] /\ buf' = [r \in Resources |-> buf'[r]]
      BY <1>0, <1>d DEF TypeOK
    <3>2. \A r \in Resources : buf'[r] \in [0 .. Size(r) - 1 -> Cells \cup {Nul}]
      BY <1>0, <1>d, <2>1 DEF TypeOK
    <3>. QED BY <1>0, <3>1, <3>2 DEF TypeOK, Resources, Size
  <2>3. AssembledBody'
    BY <1>0 DEF TypeOK, AssembledBody, Resources
  <2>4. /\ parsed'["led"].text = FirstCells(c, cursor["led"] + n)
        /\ parsed'["led"].post = owner["led"]
        /\ parsed'["led"].len = sent["led"] + n
        /\ parsed'["jwt"] = parsed["jwt"]
    BY <1>d DEF Resources
  <2>5. FirstCells(c, cursor["led"] + n) = Body(owner["led"], sent["led"] + n)
    <3>. HIDE DEF c
    <3>. QED BY <2>1 DEF Body, FirstCells
  <2>5a. LedCommandIsTheBody'
    BY <2>4, <2>5 DEF LedCommandIsTheBody
  <2>6. TokenBeginsWithPosted'
    BY <1>0, <2>4 DEF TokenBeginsWithPosted
  <2>. QED BY <2>2, <2>3, <2>5a, <2>6 DEF AssemblyInv
<1>5. ASSUME NEW n \in Nat, FinalJwt(n) PROVE AssemblyInv'
  <2>. USE <1>5 DEF FinalJwt
  <2>. DEFINE c == Copied("jwt", n)
              len == sent["jwt"] + n
  <2>0. PICK beyond \in 0 .. MaxBeyond :
          parsed' = [parsed EXCEPT !["jwt"] =
              [post |-> owner["jwt"], len |-> len, text |-> Token(c, beyond)]]
    OBVIOUS
  <2>1. /\ c \in [0 .. Size("jwt") - 1 -> Cells \cup {Nul}]
        /\ cursor["jwt"] = sent["jwt"] /\ sent["jwt"] \in Nat
        /\ cursor["jwt"] + n \in 0 .. Size("jwt") /\ len <= JwtSize
        /\ \A k \in 0 .. len - 1 : k \in 0 .. Size("jwt") - 1 /\ c[k] = [post |-> owner["jwt"], at |-> k]
    <3>1. "jwt" \in Resources /\ Size("jwt") = JwtSize /\ sent["jwt"] \in Nat
      BY <1>0 DEF Resources, TypeOK, Size
    <3>2. owner["jwt"] # Nul /\ Fits("jwt", n)
      OBVIOUS
    <3>. HIDE DEF FinalJwt
    <3>. QED BY <3>1, <3>2, CopyContinuesTheBody
  <2>2. TypeOK'
    <3>1. parsed' = [r \in Resources |-> parsed'[r]] /\ buf' = [r \in Resources |-> buf'[r]]
      BY <1>0, <1>d, <2>0 DEF TypeOK
    <3>2. \A r \in Resources : buf'[r] \in [0 .. Size(r) - 1 -> Cells \cup {Nul}]
      BY <1>0, <1>d, <2>1 DEF TypeOK
    <3>. QED BY <1>0, <2>1, <3>1, <3>2 DEF TypeOK, Resources, Size
  <2>3. AssembledBody'
    BY <1>0, <2>1 DEF TypeOK, AssembledBody, Resources
  <2>4. /\ parsed'["jwt"].text = Token(c, beyond)
        /\ parsed'["jwt"].post = owner["jwt"]
        /\ parsed'["jwt"].len = len
        /\ parsed'["led"] = parsed["led"]
    BY <1>d, <2>0 DEF Resources
  <2>5. ASSUME NEW k \in Prefix .. len - Suffix - 1
        PROVE  k \in DOMAIN Token(c, beyond) /\ Token(c, beyond)[k] = [post |-> owner["jwt"], at |-> k]
    <3>. HIDE DEF c
    <3>1. \A l \in DOMAIN c : c[l] = Nul => l >= len
      <4>1. \A l \in 0 .. len - 1 : c[l] \in Cells
        <5>1. owner["jwt"] \in Posts
          BY <1>0 DEF TypeOK, Resources
        <5>2. \A l \in Nat : [post |-> owner["jwt"], at |-> l] \in Cells
          BY <5>1 DEF Cells
        <5>3. len \in Int
          BY <2>1
        <5>. HIDE DEF len
        <5>4. ASSUME NEW l \in 0 .. len - 1 PROVE c[l] \in Cells
          <6>1. l \in Nat
            BY <5>3
          <6>2. c[l] = [post |-> owner["jwt"], at |-> l]
            BY <2>1
          <6>. QED BY <5>2, <6>1, <6>2
        <5>. QED BY <5>4
      <4>2. Nul \notin Cells
        OBVIOUS
      <4>. QED BY <2>1, <4>1, <4>2
    <3>. HIDE DEF len
    <3>2. k \in 0 .. len - 1 /\ k \in Prefix .. JwtSize - Suffix - 1 /\ len \in Int
      BY <2>1 DEF len
    <3>3. k \in String(c, beyond) /\ k + Suffix \in String(c, beyond)
      <4>1. k + Suffix \in Nat /\ k + Suffix < len /\ len <= JwtSize /\ DOMAIN c \subseteq Nat
        BY <2>1, <3>2 DEF len, Size
      <4>2. \A l \in DOMAIN c : c[l] = Nul => k + Suffix < l /\ k < l
        BY <3>1, <3>2, <4>1
      <4>. QED BY <3>2, <4>1, <4>2 DEF String
    <3>4. k \in Left(String(c, beyond))
      BY <3>2, <3>3 DEF Left
    <3>5. k \in DOMAIN c
      BY <2>1, <3>2
    <3>. QED BY <2>1, <3>2, <3>4, <3>5 DEF Token
  <2>6. TokenBeginsWithPosted'
    BY <2>4, <2>5 DEF TokenBeginsWithPosted
  <2>7. LedCommandIsTheBody'
    BY <1>0, <2>4 DEF LedCommandIsTheBody
  <2>. QED BY <2>2, <2>3, <2>6, <2>7 DEF AssemblyInv
<1>6. CASE Located
  <2>. USE <1>6 DEF Located
  <2>1. TypeOK'
    BY <1>0 DEF TypeOK, Size, Resources
  <2>2. AssembledBody'
    BY <1>0 DEF TypeOK, AssembledBody, Resources
  <2>. QED BY <1>0, <2>1, <2>2 DEF AssemblyInv, LedCommandIsTheBody, TokenBeginsWithPosted
<1>7. CASE UNCHANGED vars
  BY <1>0, <1>7 DEF vars, PostInv, TokenInv, AssemblyInv, TypeOK, AssembledBody, LedCommandIsTheBody,
     TokenBeginsWithPosted
<1>8. \A r \in Resources : 0 .. Size(r) + 1 \subseteq Nat
  BY DEF Size
<1>. QED
  BY <1>1, <1>2, <1>3, <1>4, <1>5, <1>6, <1>7, <1>8 DEF Next

(* A copy extends what was written, or overwrites it place by place.        *)
LEMMA CopyKeepsWritten ==
    ASSUME PostInv, NEW r \in Resources, owner[r] # Nul, NEW n \in Nat, Fits(r, n),
           NEW k \in DOMAIN buf[r], Copied(r, n)[k] # Nul
    PROVE  /\ Copied(r, n)[k].at = k
           /\ \A l \in 0 .. k : Copied(r, n)[l] # Nul
<1>. USE PostAssumption
<1>1. /\ cursor[r] = sent[r] /\ cursor[r] \in Nat /\ owner[r] \in Posts
      /\ DOMAIN buf[r] = 0 .. Size(r) - 1 /\ Size(r) \in Nat
      /\ \A j \in 0 .. cursor[r] + n - 1 :
            j \in 0 .. Size(r) - 1 /\ Copied(r, n)[j] = [post |-> owner[r], at |-> j]
  <2>1. /\ cursor[r] = sent[r] /\ \A j \in 0 .. cursor[r] + n - 1 :
            j \in 0 .. Size(r) - 1 /\ Copied(r, n)[j] = [post |-> owner[r], at |-> j]
    BY CopyContinuesTheBody
  <2>. QED BY <2>1 DEF PostInv, TypeOK, Size
<1>2. \A j \in 0 .. Size(r) - 1 : j \notin 0 .. cursor[r] + n - 1 => Copied(r, n)[j] = buf[r][j]
  BY <1>1 DEF Copied
<1>3. ASSUME NEW j \in 0 .. cursor[r] + n - 1
      PROVE  Copied(r, n)[j].at = j /\ Copied(r, n)[j] # Nul
  <2>1. j \in Nat /\ Copied(r, n)[j] = [post |-> owner[r], at |-> j]
    BY <1>1
  <2>2. Copied(r, n)[j] \in Cells
    BY <1>1, <2>1 DEF Cells
  <2>. QED BY <2>1, <2>2
<1>. HIDE DEF Copied
<1>4. k \in 0 .. Size(r) - 1 /\ \A l \in 0 .. k : l \in 0 .. Size(r) - 1
  BY <1>1
<1>5. CASE k \in 0 .. cursor[r] + n - 1
  <2>1. \A l \in 0 .. k : l \in 0 .. cursor[r] + n - 1
    BY <1>1, <1>5
  <2>. QED BY <1>3, <1>5, <2>1
<1>6. CASE k \notin 0 .. cursor[r] + n - 1
  <2>1. buf[r][k].at = k /\ \A l \in 0 .. k : buf[r][l] # Nul
    BY <1>2, <1>4, <1>6 DEF PostInv, WrittenInv
  <2>2. ASSUME NEW l \in 0 .. k PROVE Copied(r, n)[l] # Nul
    <3>1. CASE l \in 0 .. cursor[r] + n - 1
      BY <1>3, <3>1
    <3>2. CASE l \notin 0 .. cursor[r] + n - 1
      BY <1>2, <1>4, <2>1, <3>2
    <3>. QED BY <3>1, <3>2
  <2>. QED BY <1>2, <1>4, <1>6, <2>1, <2>2
<1>. QED BY <1>5, <1>6

LEMMA NextKeepsWritten ==
    ASSUME PostInv, [Next]_vars
    PROVE  WrittenInv'
<1>0. DOMAIN buf = Resources /\ WrittenInv
  BY DEF PostInv, TypeOK
<1>1. ASSUME NEW r \in Resources, NEW n \in Nat, owner[r] # Nul, Fits(r, n),
             buf' = [buf EXCEPT ![r] = Copied(r, n)]
      PROVE  WrittenInv'
  <2>1. buf'[r] = Copied(r, n) /\ \A q \in Resources \ {r} : buf'[q] = buf[q]
    BY <1>0, <1>1
  <2>2. DOMAIN Copied(r, n) = DOMAIN buf[r]
    BY DEF Copied
  <2>. QED BY <1>0, <1>1, <2>1, <2>2, CopyKeepsWritten DEF WrittenInv
<1>2. UNCHANGED buf => WrittenInv'
  BY <1>0 DEF WrittenInv
<1>3. \A r \in Resources : 0 .. Size(r) + 1 \subseteq Nat
  BY PostAssumption DEF Size
<1>4. CASE Next
  BY <1>1, <1>2, <1>3, <1>4
  DEF Next, Begin, More, Overflow, Abort, FinalLed, FinalJwt, Located, Resources
<1>. QED BY <1>2, <1>4 DEF vars

LEMMA NextKeepsToken ==
    ASSUME PostInv, [Next]_vars
    PROVE  TokenInv'
<1>1. CASE \E n \in 0 .. JwtSize : FinalJwt(n)
  <2>1. PICK n \in 0 .. JwtSize : FinalJwt(n)
    BY <1>1
  <2>2. PICK beyond \in 0 .. MaxBeyond :
          parsed' = [parsed EXCEPT !["jwt"] =
              [post |-> owner["jwt"], len |-> sent["jwt"] + n,
               text |-> Token(Copied("jwt", n), beyond)]]
    BY <2>1 DEF FinalJwt
  <2>3. /\ DOMAIN buf = Resources /\ DOMAIN sent = Resources /\ DOMAIN parsed = Resources
        /\ owner["jwt"] # Nul /\ owner' = owner
    BY <2>1 DEF PostInv, TypeOK, FinalJwt
  <2>4. buf'["jwt"] = Copied("jwt", n) /\ sent'["jwt"] = sent["jwt"] + n
    BY <2>1, <2>3 DEF FinalJwt, Resources
  <2>5. /\ parsed'["jwt"].len = sent["jwt"] + n
        /\ parsed'["jwt"].text = Token(Copied("jwt", n), beyond)
    BY <2>2, <2>3 DEF Resources
  <2>. QED BY <2>3, <2>4, <2>5 DEF TokenInv
<1>2. CASE Next /\ ~(\E n \in 0 .. JwtSize : FinalJwt(n))
  <2>1. http' = "poll"
    BY <1>2 DEF Next, Begin, More, Overflow, Abort, FinalLed, Located
  <2>. QED BY <2>1 DEF TokenInv
<1>3. CASE UNCHANGED vars
  BY <1>3 DEF vars, PostInv, TokenInv
<1>. QED BY <1>1, <1>2, <1>3

(* The inductive invariant of the two handlers. *)
THEOREM PostInvariant == Spec => []PostInv
<1>1. PostInv /\ [Next]_vars => PostInv'
  BY NextKeepsAssembly, NextKeepsWritten, NextKeepsToken DEF AssemblyInv, PostInv
<1>. QED BY <1>1, InitPostInv, PTL DEF Spec

(* Buffers, cursors and owners keep their types: no cursor passes the end.  *)
THEOREM PostTypeCorrect == Spec => []TypeOK
<1>1. PostInv => TypeOK
  BY DEF PostInv
<1>. QED BY <1>1, PostInvariant, PTL

(* The bytes before the cursor are the request's own, all and in order.     *)
THEOREM PostAssemblesBody == Spec => []AssembledBody
<1>1. PostInv => AssembledBody
  BY DEF PostInv
<1>. QED BY <1>1, PostInvariant, PTL

(* The LED command parsed is the one posted. *)
THEOREM LedParsesTheBody == Spec => []LedCommandIsTheBody
<1>1. PostInv => LedCommandIsTheBody
  BY DEF PostInv
<1>. QED BY <1>1, PostInvariant, PTL

(* The token sent to the cloud begins with the token posted. *)
THEOREM JwtTokenBegins == Spec => []TokenBeginsWithPosted
<1>1. PostInv => TokenBeginsWithPosted
  BY DEF PostInv
<1>. QED BY <1>1, PostInvariant, PTL

(* A buffer with no byte behind the len of this request: the token is theirs. *)
LEMMA TokenIsPosted ==
    ASSUME NEW b, NEW len \in Nat, NEW beyond \in Nat,
           DOMAIN b = 0 .. JwtSize - 1, len < JwtSize,
           \A k \in 0 .. len - 1 : b[k] # Nul,
           \A k \in Prefix .. JwtSize - 1 : k >= len => b[k] = Nul
    PROVE  DOMAIN Token(b, beyond) = Posted(len)
<1>. USE PostAssumption
<1>1. String(b, beyond) = Prefix .. len - 1
  <2>1. ASSUME NEW k \in Prefix .. len - 1
        PROVE  k \in String(b, beyond)
    <3>1. \A l \in DOMAIN b : l >= Prefix /\ b[l] = Nul => k < l
      OBVIOUS
    <3>2. k \in Prefix .. JwtSize + beyond - 1
      OBVIOUS
    <3>. QED BY <3>1, <3>2 DEF String
  <2>2. ASSUME NEW k \in String(b, beyond)
        PROVE  k \in Prefix .. len - 1
    <3>. DEFINE l == IF len >= Prefix THEN len ELSE Prefix
    <3>1. l \in DOMAIN b /\ l >= Prefix /\ b[l] = Nul
      OBVIOUS
    <3>2. k < l /\ k \in Int /\ k >= Prefix
      BY <3>1 DEF String
    <3>. QED BY <3>2
  <2>. QED BY <2>1, <2>2
<1>2. Left(Prefix .. len - 1) = Posted(len)
  <2>1. CASE len >= Prefix + Suffix
    BY <2>1 DEF Left, Posted
  <2>2. CASE ~(len >= Prefix + Suffix)
    BY <2>2 DEF Left, Posted
  <2>. QED BY <2>1, <2>2
<1>. QED BY <1>1, <1>2 DEF Token

(* A buffer with a byte behind them: the token does not end with them. *)
LEMMA TokenGoesOn ==
    ASSUME NEW b, NEW len \in Nat, NEW beyond \in Nat,
           DOMAIN b = 0 .. JwtSize - 1, len < JwtSize, len >= Prefix + Suffix,
           \A k \in 0 .. len : b[k] # Nul
    PROVE  DOMAIN Token(b, beyond) # Posted(len)
<1>. USE PostAssumption
<1>1. \A k \in 0 .. len : k >= Prefix => k \in String(b, beyond)
  <2>1. SUFFICES ASSUME NEW k \in 0 .. len, k >= Prefix PROVE k \in String(b, beyond)
    OBVIOUS
  <2>2. \A l \in DOMAIN b : b[l] = Nul => k < l
    OBVIOUS
  <2>3. k \in Prefix .. JwtSize + beyond - 1
    BY <2>1
  <2>. QED BY <2>2, <2>3 DEF String
<1>2. len - Suffix \in String(b, beyond) /\ (len - Suffix) + Suffix \in String(b, beyond)
  BY <1>1
<1>3. len - Suffix < Prefix + TempSize - 1
  OBVIOUS
<1>4. len - Suffix \in DOMAIN Token(b, beyond)
  BY <1>2, <1>3 DEF Left, Token
<1>5. len - Suffix \notin Posted(len)
  BY DEF Posted
<1>. QED BY <1>4, <1>5

(* ... and bytes of another body follow it exactly if a longer one came     *)
(* before: the stale tail is not a race, it needs nothing but two posts.    *)
THEOREM JwtTokenEndsUnlessLongerBefore == Spec => []TokenEndsUnlessLongerBefore
<1>1. ASSUME PostInv, http = "locating", sent["jwt"] < JwtSize
      PROVE  /\ ~LongerBefore => DOMAIN parsed["jwt"].text = Posted(sent["jwt"])
             /\ LongerBefore /\ sent["jwt"] >= Prefix + Suffix
                  => DOMAIN parsed["jwt"].text # Posted(sent["jwt"])
  <2>. USE PostAssumption
  <2>. DEFINE b == buf["jwt"]  len == sent["jwt"]
  <2>1. len \in Nat /\ len < JwtSize /\ DOMAIN b = 0 .. JwtSize - 1
    BY <1>1 DEF PostInv, TypeOK, Resources, Size
  <2>2. PICK beyond \in 0 .. MaxBeyond : parsed["jwt"].text = Token(b, beyond)
    BY <1>1 DEF PostInv, TokenInv
  <2>3. ASSUME NEW k \in 0 .. len - 1 PROVE b[k] # Nul
    <3>1. cursor["jwt"] = len /\ owner["jwt"] \in Posts
      BY <1>1 DEF PostInv, AssembledBody, TokenInv, TypeOK, Resources
    <3>2. b[k] = [post |-> owner["jwt"], at |-> k] /\ k \in Nat
      BY <1>1, <2>1, <3>1 DEF PostInv, AssembledBody, Resources
    <3>3. b[k] \in Cells
      BY <3>1, <3>2 DEF Cells
    <3>. QED BY <3>3
  <2>4. LongerBefore <=> \E k \in 0 .. JwtSize - 1 : k >= Prefix /\ k >= len /\ b[k] # Nul
    BY <2>1 DEF LongerBefore
  <2>5. beyond \in Nat
    OBVIOUS
  <2>. HIDE DEF len, b
  <2>6. ASSUME ~LongerBefore PROVE DOMAIN parsed["jwt"].text = Posted(len)
    <3>1. \A k \in Prefix .. JwtSize - 1 : k >= len => b[k] = Nul
      BY <2>4, <2>6
    <3>. QED BY <2>1, <2>2, <2>3, <2>5, <3>1, TokenIsPosted
  <2>7. ASSUME LongerBefore, len >= Prefix + Suffix
        PROVE  DOMAIN parsed["jwt"].text # Posted(len)
    <3>1. b[len] # Nul
      <4>1. PICK k \in 0 .. JwtSize - 1 : k >= len /\ b[k] # Nul
        BY <2>4, <2>7
      <4>2. k \in DOMAIN b /\ len \in 0 .. k
        BY <2>1, <4>1
      <4>. QED BY <1>1, <4>1, <4>2 DEF PostInv, WrittenInv, Resources, b
    <3>2. \A k \in 0 .. len : b[k] # Nul
      BY <2>1, <2>3, <3>1
    <3>. QED BY <2>1, <2>2, <2>5, <2>7, <3>2, TokenGoesOn
  <2>. QED BY <2>6, <2>7 DEF len
<1>2. PostInv => TokenEndsUnlessLongerBefore
  BY <1>1 DEF PostInv, TokenEndsUnlessLongerBefore
<1>. QED BY <1>2, PostInvariant, PTL
=============================================================================
