-------------------------- MODULE WifiScan_proofs --------------------------
(***************************************************************************)
(* The proofs of WifiScan: the list is made of whole entries, and the copy  *)
(* the HTTP thread takes without a lock is the list.                        *)
(***************************************************************************)
EXTENDS WifiScan, TLAPS

(* What an append does to the string: it keeps the characters there are and *)
(* adds those of one entry, all of them or as many as there is room for.    *)
LEMMA AppendKeeps ==
    ASSUME NEW s \in Seq(Cells), Len(s) < StrSize, NEW e \in Results
    PROVE  /\ Appended(s, e) \in Seq(Cells)
           /\ Len(Appended(s, e)) = AtMost(Len(s) + EntryLen, StrSize - 1)
           /\ Len(s) <= Len(Appended(s, e)) /\ Len(Appended(s, e)) < StrSize
           /\ \A i \in 1 .. Len(s) : Appended(s, e)[i] = s[i]
           /\ \A i \in Len(s) + 1 .. Len(Appended(s, e)) :
                Appended(s, e)[i] = Character(e, i - Len(s))
<1>. USE ScanAssumption
<1>. DEFINE n == AtMost(Len(s) + EntryLen, StrSize - 1)
<1>1. n \in Nat /\ Len(s) <= n /\ n < StrSize /\ n <= Len(s) + EntryLen
  BY DEF AtMost
<1>. HIDE DEF n
<1>2. \A i \in 1 .. n : i > Len(s) => Character(e, i - Len(s)) \in Cells
  BY <1>1 DEF Character, Cells, Results
<1>3. \A i \in 1 .. n : (IF i <= Len(s) THEN s[i] ELSE Character(e, i - Len(s))) \in Cells
  BY <1>1, <1>2
<1>4. Appended(s, e) = [i \in 1 .. n |-> IF i <= Len(s) THEN s[i] ELSE Character(e, i - Len(s))]
  BY DEF Appended, n
<1>5. Appended(s, e) \in Seq(Cells) /\ Len(Appended(s, e)) = n
  BY <1>1, <1>3, <1>4
<1>. QED BY <1>1, <1>4, <1>5 DEF n

(* A list of whole entries is one after an append, too. *)
LEMMA AppendKeepsWhole ==
    ASSUME NEW s \in Seq(Cells), Len(s) < StrSize, NEW e \in Results, Whole(s)
    PROVE  Whole(Appended(s, e))
<1>. DEFINE t == Appended(s, e)
<1>1. /\ t \in Seq(Cells) /\ Len(t) = AtMost(Len(s) + EntryLen, StrSize - 1)
      /\ Len(s) <= Len(t)
      /\ \A i \in 1 .. Len(s) : t[i] = s[i]
      /\ \A i \in Len(s) + 1 .. Len(t) : t[i] = Character(e, i - Len(s))
  BY AppendKeeps
<1>. HIDE DEF t
<1>2. Len(s) \in Nat /\ Len(t) \in Nat /\ EntryLen \in Nat /\ StrSize \in Nat
  BY <1>1, ScanAssumption
<1>3. ASSUME NEW i \in 1 .. Len(t), t[i].at < EntryLen, i # StrSize - 1
      PROVE  Continues(t, i)
  <2>1. CASE i <= Len(s)
    <3>1. t[i] = s[i] /\ i \in 1 .. Len(s)
      BY <1>1, <1>2, <2>1
    <3>2. Continues(s, i)
      BY <1>3, <3>1 DEF Whole
    <3>3. i + 1 \in 1 .. Len(s)
      BY <1>2, <3>1, <3>2 DEF Continues
    <3>4. t[i + 1] = s[i + 1] /\ i < Len(t)
      BY <1>1, <1>2, <3>3
    <3>. QED BY <3>1, <3>2, <3>4 DEF Continues
  <2>2. CASE i > Len(s)
    <3>1. i \in Len(s) + 1 .. Len(t)
      BY <1>2, <2>2
    <3>2. t[i] = Character(e, i - Len(s))
      BY <1>1, <3>1
    <3>3. i - Len(s) < EntryLen
      BY <1>3, <3>2 DEF Character
    <3>4. i < Len(t)
      <4>1. Len(t) = Len(s) + EntryLen \/ Len(t) = StrSize - 1
        BY <1>1 DEF AtMost
      <4>. QED BY <1>2, <1>3, <3>1, <3>3, <4>1
    <3>5. i + 1 \in Len(s) + 1 .. Len(t) /\ (i + 1) - Len(s) = (i - Len(s)) + 1
      BY <1>2, <3>1, <3>4
    <3>6. t[i + 1] = Character(e, (i - Len(s)) + 1)
      BY <1>1, <3>5
    <3>. QED BY <3>2, <3>4, <3>6 DEF Continues, Character
  <2>. QED BY <1>2, <2>1, <2>2
<1>. QED BY <1>3 DEF Whole, t

LEMMA InitScanInv == Init => ScanInv
<1>. SUFFICES ASSUME Init PROVE ScanInv
  OBVIOUS
<1>1. 0 \in 0 .. MaxScans /\ 0 < StrSize
  BY ScanAssumption
<1>2. found \in [Scans -> Nat]
  BY DEF Init
<1>3. /\ events \in Seq(Results \cup {Done}) /\ copy \in Seq(Cells)
      /\ list \in Seq(Cells) /\ Len(list) = 0
  BY DEF Init
<1>4. TypeOK
  BY <1>1, <1>2, <1>3 DEF Init, TypeOK
<1>5. BeforeScans /\ OwnScan /\ CountIsReset /\ EndComesLast /\ MainIsWoken /\ CountInv
  BY <1>1 DEF Init, BeforeScans, OwnScan, CountIsReset, EndComesLast, MainIsWoken, CountInv
<1>. QED BY <1>3, <1>4, <1>5 DEF Init, ScanInv, CopyIsAPrefix, WholeEntries, Whole

(* The part of the invariant that is about the copy and the entries. *)
CopyInv == TypeOK /\ (running => scans # 0) /\ CopyIsAPrefix /\ WholeEntries

LEMMA NextKeepsCopyInv == ScanInv /\ [Next]_vars => CopyInv'
<1>. SUFFICES ASSUME ScanInv, [Next]_vars PROVE CopyInv'
  OBVIOUS
<1>. USE DEF driverVars, queueVars, listVars, copyVars
<1>0. TypeOK /\ CopyIsAPrefix /\ WholeEntries /\ (running => scans # 0)
  BY DEF ScanInv
<1>a. MaxScans \in Nat /\ EntryLen \in Nat /\ StrSize \in Nat
  BY ScanAssumption
<1>p. ASSUME NEW e \in Results \cup {Done}, Post(e)
      PROVE  events' \in Seq(Results \cup {Done}) /\ lost' \in BOOLEAN
  <2>1. events \in Seq(Results \cup {Done}) /\ lost \in BOOLEAN
    BY <1>0 DEF TypeOK
  <2>2. Append(events, e) \in Seq(Results \cup {Done})
    BY <2>1
  <2>. QED BY <1>p, <2>1, <2>2 DEF Post
<1>s. ASSUME StartScan
      PROVE  scans' \in 1 .. MaxScans /\ scans' = scans + 1 /\ running' = TRUE /\ found' = found
  BY <1>0, <1>a, <1>s DEF StartScan, TypeOK
<1>u. ASSUME UNCHANGED <<listVars, copyVars>> PROVE CopyIsAPrefix' /\ WholeEntries'
  BY <1>0, <1>u DEF CopyIsAPrefix, WholeEntries
<1>1. CASE Main
  <2>1. CASE RequestScan
    <3>1. UNCHANGED <<sem, queueVars, listVars, copyVars, found>> /\ main' \in {"wait", "stopped"}
      BY <1>s, <2>1 DEF RequestScan
    <3>2. scans' \in 0 .. MaxScans /\ own' \in 0 .. MaxScans /\ running' \in BOOLEAN
          /\ (running' => scans' # 0)
      <4>1. scans \in 0 .. MaxScans /\ own \in 0 .. MaxScans /\ running \in BOOLEAN
        BY <1>0 DEF TypeOK
      <4>2. CASE StartScan /\ own' = scans + 1
        BY <1>a, <1>s, <4>1, <4>2
      <4>3. CASE UNCHANGED <<own, driverVars>>
        BY <1>0, <4>1, <4>3
      <4>. QED BY <2>1, <4>2, <4>3 DEF RequestScan
    <3>3. TypeOK'
      BY <1>0, <3>1, <3>2 DEF TypeOK
    <3>. QED BY <1>u, <3>1, <3>2, <3>3 DEF CopyInv
  <2>2. CASE TakeScanSem
    BY <1>0, <1>u, <2>2 DEF TakeScanSem, TypeOK, CopyInv
  <2>3. CASE ScanTimesOut
    BY <1>0, <1>u, <2>3 DEF ScanTimesOut, TypeOK, CopyInv
  <2>. QED BY <1>1, <2>1, <2>2, <2>3 DEF Main
<1>2. CASE DriverFinds
  <2>1. scans \in Scans /\ found[scans] + 1 \in Nat
    BY <1>0, <1>a, <1>2 DEF TypeOK, Scans, DriverFinds
  <2>2. [scan |-> scans, nr |-> found[scans] + 1] \in Results
    BY <2>1 DEF Results
  <2>3. events' \in Seq(Results \cup {Done}) /\ lost' \in BOOLEAN
    BY <1>2, <1>p, <2>2 DEF DriverFinds
  <2>4. found' \in [Scans -> Nat]
    BY <1>0, <1>2, <2>1 DEF TypeOK, DriverFinds
  <2>5. TypeOK'
    BY <1>0, <1>2, <2>3, <2>4 DEF TypeOK, DriverFinds
  <2>. QED BY <1>0, <1>2, <1>u, <2>5 DEF CopyInv, DriverFinds
<1>3. CASE DriverEnds
  <2>1. events' \in Seq(Results \cup {Done}) /\ lost' \in BOOLEAN
    BY <1>3, <1>p DEF DriverEnds
  <2>2. scans \in Scans
    BY <1>0, <1>a, <1>3 DEF TypeOK, Scans, DriverEnds
  <2>3. endLost' \subseteq Scans
    BY <1>0, <1>3, <2>2 DEF DriverEnds, TypeOK
  <2>. QED BY <1>0, <1>3, <1>u, <2>1, <2>3 DEF DriverEnds, TypeOK, CopyInv
<1>4. CASE ShellScan
  <2>1. scans' \in 0 .. MaxScans /\ scans' # 0
    BY <1>a, <1>4, <1>s DEF ShellScan
  <2>. QED BY <1>0, <1>4, <1>s, <1>u, <2>1 DEF ShellScan, TypeOK, CopyInv
<1>5. CASE HandleDone
  <2>1. events' \in Seq(Results \cup {Done})
    BY <1>0, <1>5 DEF HandleDone, TypeOK
  <2>2. CopyIsAPrefix' /\ WholeEntries'
    BY <1>0, <1>5 DEF HandleDone, CopyIsAPrefix, WholeEntries
  <2>. QED BY <1>0, <1>5, <2>1, <2>2 DEF HandleDone, TypeOK, CopyInv
<1>6. CASE HandleResult
  <2>1. events \in Seq(Results \cup {Done}) /\ list \in Seq(Cells) /\ Len(list) < StrSize
    BY <1>0 DEF TypeOK
  <2>2. Head(events) \in Results /\ events' \in Seq(Results \cup {Done})
    BY <1>6, <2>1 DEF HandleResult
  <2>3. /\ list' \in Seq(Cells) /\ Len(list) <= Len(list') /\ Len(list') < StrSize
        /\ \A i \in 1 .. Len(list) : list'[i] = list[i]
        /\ Whole(list')
    <3>1. CASE list' = list
      BY <1>0, <1>a, <2>1, <3>1 DEF WholeEntries
    <3>2. CASE list' = Appended(list, Head(events))
      BY <1>0, <2>1, <2>2, <3>2, AppendKeeps, AppendKeepsWhole DEF WholeEntries
    <3>. QED BY <1>6, <3>1, <3>2 DEF HandleResult
  <2>4. TypeOK'
    BY <1>0, <1>6, <2>2, <2>3 DEF HandleResult, TypeOK
  <2>5. CopyIsAPrefix'
    <3>1. UNCHANGED <<copying, copy>>
      BY <1>6 DEF HandleResult
    <3>2. copy \in Seq(Cells)
      BY <1>0 DEF TypeOK
    <3>. QED BY <1>0, <2>1, <2>3, <3>1, <3>2 DEF CopyIsAPrefix
  <2>. QED BY <1>0, <1>6, <2>3, <2>4, <2>5 DEF CopyInv, HandleResult, WholeEntries
<1>7. CASE HttpThread
  <2>1. WholeEntries' /\ (running' => scans' # 0)
    BY <1>0, <1>7 DEF HttpThread, BeginCopy, CopyCharacter, EndCopy, WholeEntries
  <2>2. CASE BeginCopy
    <3>1. copy' = <<>> /\ list' = list /\ list \in Seq(Cells)
      BY <1>0, <2>2 DEF BeginCopy, TypeOK
    <3>2. CopyIsAPrefix'
      BY <3>1 DEF CopyIsAPrefix
    <3>. QED BY <1>0, <2>1, <2>2, <3>2 DEF BeginCopy, TypeOK, CopyInv
  <2>3. CASE CopyCharacter
    <3>1. /\ list[Len(copy) + 1] \in Cells /\ copy \in Seq(Cells) /\ list \in Seq(Cells)
          /\ copy' = Append(copy, list[Len(copy) + 1]) /\ Len(copy) < Len(list)
      BY <1>0, <2>3 DEF CopyCharacter, TypeOK
    <3>2. TypeOK'
      BY <1>0, <2>3, <3>1 DEF CopyCharacter, TypeOK
    <3>3. CopyIsAPrefix'
      BY <1>0, <2>3, <3>1 DEF CopyCharacter, CopyIsAPrefix
    <3>. QED BY <2>1, <3>2, <3>3 DEF CopyInv
  <2>4. CASE EndCopy
    BY <1>0, <2>1, <2>4 DEF EndCopy, TypeOK, CopyInv, CopyIsAPrefix
  <2>. QED BY <1>7, <2>2, <2>3, <2>4 DEF HttpThread
<1>8. CASE UNCHANGED vars
  BY <1>0, <1>8 DEF vars, CopyInv, TypeOK, CopyIsAPrefix, WholeEntries
<1>. QED BY <1>1, <1>2, <1>3, <1>4, <1>5, <1>6, <1>7, <1>8 DEF Next

(* What is listed stays so after an append. *)
LEMMA AppendKeepsListed ==
    ASSUME TypeOK, HandleResult
    PROVE  /\ Head(events) \in Results /\ events # <<>> /\ events' = Tail(events)
           /\ \A i \in 1 .. Len(list) : i \in 1 .. Len(list') /\ list'[i] = list[i]
           /\ \A n : \A s : Listed(s, n) => Listed(s, n)'
<1>1. events \in Seq(Results \cup {Done}) /\ list \in Seq(Cells) /\ Len(list) < StrSize
  BY DEF TypeOK
<1>2. Head(events) \in Results /\ events # <<>> /\ events' = Tail(events)
  BY <1>1 DEF HandleResult
<1>3. list' = list \/ list' = Appended(list, Head(events))
  BY DEF HandleResult
<1>4. \A i \in 1 .. Len(list) : i \in 1 .. Len(list') /\ list'[i] = list[i]
  <2>1. CASE list' = list
    BY <2>1
  <2>2. CASE list' = Appended(list, Head(events))
    <3>1. /\ list' \in Seq(Cells) /\ Len(list) <= Len(list')
          /\ \A i \in 1 .. Len(list) : list'[i] = list[i]
      BY <1>1, <1>2, <2>2, AppendKeeps
    <3>. QED BY <1>1, <3>1
  <2>. QED BY <1>3, <2>1, <2>2
<1>. QED BY <1>2, <1>4 DEF Listed

(* The entry of a result for which there is room is listed. *)
LEMMA ResultIsListed ==
    ASSUME TypeOK, HandleResult, Len(list) <= scanResult * EntryLen
    PROVE  /\ Len(list') <= (scanResult + 1) * EntryLen
           /\ scanResult + 1 < MaxMac =>
                \A s, n : s = Head(events).scan /\ n = Head(events).nr => Listed(s, n)'
<1>1. events \in Seq(Results \cup {Done}) /\ list \in Seq(Cells) /\ Len(list) < StrSize
      /\ scanResult \in Nat
  BY DEF TypeOK
<1>2. Head(events) \in Results
  BY <1>1 DEF HandleResult
<1>3. EntryLen \in Nat \ {0} /\ StrSize \in Nat /\ MaxMac \in Nat
  BY ScanAssumption
<1>. DEFINE room == scanResult * EntryLen
<1>4. room \in Nat /\ (scanResult + 1) * EntryLen = room + EntryLen
  BY <1>1, <1>3
<1>. HIDE DEF room
<1>5. CASE scanResult + 1 < MaxMac
  <2>1. list' = Appended(list, Head(events))
    BY <1>5 DEF HandleResult
  <2>2. /\ list' \in Seq(Cells)
        /\ Len(list') = AtMost(Len(list) + EntryLen, StrSize - 1)
        /\ \A i \in Len(list) + 1 .. Len(list') : list'[i] = Character(Head(events), i - Len(list))
    BY <1>1, <1>2, <2>1, AppendKeeps
  <2>3. room + EntryLen <= (MaxMac - 1) * EntryLen
    <3>. DEFINE d == MaxMac - 1 - (scanResult + 1)
    <3>1. d \in Nat /\ MaxMac - 1 = (scanResult + 1) + d
      BY <1>1, <1>3, <1>5
    <3>. HIDE DEF d
    <3>2. d * EntryLen \in Nat
          /\ ((scanResult + 1) + d) * EntryLen = (scanResult + 1) * EntryLen + d * EntryLen
      BY <1>1, <1>3, <3>1
    <3>. QED BY <1>3, <1>4, <3>1, <3>2
  <2>4. Len(list) + EntryLen <= StrSize - 1
    BY <1>1, <1>3, <1>4, <2>3, ListFits DEF room
  <2>5. Len(list') = Len(list) + EntryLen /\ Len(list) \in Nat
    BY <1>1, <2>2, <2>4 DEF AtMost
  <2>6. Len(list) + 1 \in Len(list) + 1 .. Len(list') /\ Len(list) + 1 \in 1 .. Len(list')
    BY <1>3, <2>5
  <2>7. list'[Len(list) + 1] = [scan |-> Head(events).scan, nr |-> Head(events).nr, at |-> 1]
    <3>1. (Len(list) + 1) - Len(list) = 1
      BY <2>5
    <3>. QED BY <2>2, <2>6, <3>1 DEF Character
  <2>8. Len(list') <= room + EntryLen
    BY <1>3, <1>4, <2>5 DEF room
  <2>9. \A s, n : s = Head(events).scan /\ n = Head(events).nr => Listed(s, n)'
    BY <2>6, <2>7 DEF Listed
  <2>. QED BY <1>4, <2>8, <2>9
<1>6. CASE ~(scanResult + 1 < MaxMac)
  <2>1. list' = list
    BY <1>6 DEF HandleResult
  <2>2. Len(list) <= room + EntryLen
    BY <1>1, <1>3, <1>4 DEF room
  <2>. QED BY <1>4, <1>6, <2>1, <2>2
<1>. QED BY <1>5, <1>6

LEMMA BeforeScansKept == ScanInv /\ Next => BeforeScans'
<1>. SUFFICES ASSUME ScanInv, Next PROVE BeforeScans'
  OBVIOUS
<1>. USE DEF driverVars, queueVars, listVars, copyVars
<1>0. TypeOK /\ BeforeScans /\ (running => scans # 0)
  BY DEF ScanInv
<1>1. scans \in Nat /\ own \in Nat
  BY <1>0, ScanAssumption DEF TypeOK
<1>2. CASE RequestScan
  BY <1>0, <1>1, <1>2 DEF RequestScan, StartScan, BeforeScans
<1>3. CASE ShellScan
  BY <1>0, <1>1, <1>3 DEF ShellScan, StartScan, BeforeScans
<1>4. CASE TakeScanSem \/ ScanTimesOut \/ HandleResult \/ HandleDone
  BY <1>0, <1>4 DEF TakeScanSem, ScanTimesOut, HandleResult, HandleDone, BeforeScans
<1>5. CASE DriverFinds \/ DriverEnds
  BY <1>0, <1>5 DEF DriverFinds, DriverEnds, BeforeScans
<1>6. CASE HttpThread
  BY <1>0, <1>6 DEF HttpThread, BeginCopy, CopyCharacter, EndCopy, BeforeScans
<1>. QED BY <1>2, <1>3, <1>4, <1>5, <1>6 DEF Next, Main

(* Main's scan, once handled completely, stays so: later results are        *)
(* appended, and another scan has another number.                           *)
LEMMA CompleteKept ==
    ASSUME ScanInv, Next, own = 1, Complete, ~OwnRuns
    PROVE  Complete' /\ ~OwnRuns'
<1>. USE DEF driverVars, queueVars, listVars, copyVars
<1>0. TypeOK /\ BeforeScans /\ (running => scans # 0)
  BY DEF ScanInv
<1>1. scans \in Nat /\ scans >= 1 /\ main # "boot"
  BY <1>0, ScanAssumption DEF TypeOK, BeforeScans
<1>2. CASE HandleResult
  <2>1. \A n : Listed(1, n) => Listed(1, n)'
    BY <1>0, <1>2, AppendKeepsListed
  <2>2. UNCHANGED <<found, running, scans>>
    BY <1>2 DEF HandleResult
  <2>. QED BY <2>1, <2>2 DEF Complete, OwnRuns
<1>3. CASE DriverFinds
  <2>1. scans # 1
    BY <1>3 DEF DriverFinds, OwnRuns
  <2>2. found'[1] = found[1] /\ UNCHANGED <<list, running, scans>>
    BY <1>3, <2>1 DEF DriverFinds
  <2>. QED BY <2>2 DEF Complete, OwnRuns, Listed
<1>4. CASE ShellScan
  BY <1>1, <1>4 DEF ShellScan, StartScan, Complete, OwnRuns, Listed
<1>5. CASE DriverEnds
  BY <1>5 DEF DriverEnds, Complete, OwnRuns, Listed
<1>6. CASE TakeScanSem \/ ScanTimesOut \/ HandleDone
  BY <1>6 DEF TakeScanSem, ScanTimesOut, HandleDone, Complete, OwnRuns, Listed
<1>7. CASE HttpThread
  BY <1>7 DEF HttpThread, BeginCopy, CopyCharacter, EndCopy, Complete, OwnRuns, Listed
<1>8. CASE RequestScan
  BY <1>1, <1>8 DEF RequestScan
<1>. QED BY <1>2, <1>3, <1>4, <1>5, <1>6, <1>7, <1>8 DEF Next, Main

(* A result handled, or the end: the list gets on, or is complete. *)
LEMMA PendingHandled ==
    ASSUME ScanInv, own = 1, Pending, HandleResult \/ HandleDone
    PROVE  (Complete /\ ~OwnRuns)' \/ Pending'
<1>. USE DEF driverVars, copyVars
<1>. DEFINE left == found[1] - scanResult
<1>0. TypeOK /\ BeforeScans
  BY DEF ScanInv
<1>1. /\ 1 \in Scans /\ found[1] \in Nat /\ scanResult \in Nat /\ left \in Nat
      /\ events \in Seq(Results \cup {Done}) /\ list \in Seq(Cells)
  BY <1>0, ScanAssumption DEF TypeOK, BeforeScans, Scans, Pending
<1>2. /\ sem = 0 /\ main \in {"wait", "timedOut"} /\ Len(list) <= scanResult * EntryLen
      /\ \A n \in 1 .. scanResult : n < MaxMac => Listed(1, n)
      /\ left <= Len(events)
      /\ \A i \in 1 .. left : events[i] = [scan |-> 1, nr |-> scanResult + i]
      /\ IF OwnRuns THEN Len(events) = left
                    ELSE left < Len(events) /\ events[left + 1] = Done
  BY DEF Pending
<1>. HIDE DEF left
<1>3. events # <<>> /\ events' = Tail(events) /\ Head(events) = events[1]
  BY <1>1 DEF HandleResult, HandleDone
<1>4. CASE HandleDone
  <2>1. Head(events) = Done
    BY <1>4 DEF HandleDone
  <2>2. left = 0
    <3>. SUFFICES ASSUME left # 0 PROVE FALSE
      OBVIOUS
    <3>1. events[1] = [scan |-> 1, nr |-> scanResult + 1]
      BY <1>1, <1>2
    <3>. QED BY <1>3, <2>1, <3>1 DEF Done
  <2>3. ~OwnRuns /\ found[1] = scanResult
    <3>1. Len(events) # 0
      BY <1>1, <1>3
    <3>. QED BY <1>1, <1>2, <2>2, <3>1 DEF left
  <2>4. UNCHANGED <<found, list, running, scans>>
    BY <1>4 DEF HandleDone
  <2>. QED BY <1>2, <2>3, <2>4 DEF Complete, OwnRuns, Listed
<1>5. CASE HandleResult
  <2>1. Head(events) # Done /\ scanResult' = scanResult + 1
        /\ UNCHANGED <<main, sem, found, running, scans>>
    BY <1>5 DEF HandleResult
  <2>2. left # 0
    BY <1>1, <1>2, <1>3, <2>1
  <2>3. Head(events) = [scan |-> 1, nr |-> scanResult + 1] /\ Head(events).scan = 1
        /\ Head(events).nr = scanResult + 1
    <3>1. 1 \in 1 .. left
      BY <1>1, <2>2
    <3>2. events[1] = [scan |-> 1, nr |-> scanResult + 1]
      BY <1>2, <3>1
    <3>. QED BY <1>3, <3>2
  <2>4. /\ Len(list') <= (scanResult + 1) * EntryLen
        /\ scanResult + 1 < MaxMac => \A n : n = scanResult + 1 => Listed(1, n)'
    <3>1. /\ Len(list') <= (scanResult + 1) * EntryLen
          /\ scanResult + 1 < MaxMac =>
               \A s, n : s = Head(events).scan /\ n = Head(events).nr => Listed(s, n)'
      BY <1>0, <1>2, <1>5, ResultIsListed DEF Listed
    <3>. QED BY <2>3, <3>1 DEF Listed
  <2>5. \A n \in 1 .. scanResult + 1 : n < MaxMac => Listed(1, n)'
    <3>1. \A n : Listed(1, n) => Listed(1, n)'
      BY <1>0, <1>5, AppendKeepsListed
    <3>2. \A n \in 1 .. scanResult + 1 : n \in 1 .. scanResult \/ n = scanResult + 1
      BY <1>1
    <3>. QED BY <1>2, <2>4, <3>1, <3>2
  <2>6. Len(events') = Len(events) - 1 /\ Len(events) \in Nat
        /\ \A i \in 1 .. Len(events) - 1 : events'[i] = events[i + 1]
    BY <1>1, <1>3
  <2>. DEFINE rest == found[1] - (scanResult + 1)
  <2>7. rest = left - 1 /\ rest \in Nat /\ scanResult + 1 <= found[1] /\ rest + 1 = left
    BY <1>1, <2>2 DEF left
  <2>. HIDE DEF rest
  <2>8. rest <= Len(events')
    BY <1>1, <1>2, <2>6, <2>7
  <2>9. \A i \in 1 .. rest : events'[i] = [scan |-> 1, nr |-> (scanResult + 1) + i]
    <3>. SUFFICES ASSUME NEW i \in 1 .. rest
                  PROVE  events'[i] = [scan |-> 1, nr |-> (scanResult + 1) + i]
      OBVIOUS
    <3>1. i + 1 \in 1 .. left /\ i \in 1 .. Len(events) - 1 /\ scanResult + (i + 1) = (scanResult + 1) + i
      BY <1>1, <1>2, <2>6, <2>7
    <3>. QED BY <1>2, <2>6, <3>1
  <2>10. IF OwnRuns THEN Len(events') = rest
                    ELSE rest < Len(events') /\ events'[rest + 1] = Done
    <3>1. CASE OwnRuns
      BY <1>1, <1>2, <2>6, <2>7, <3>1
    <3>2. CASE ~OwnRuns
      <4>1. left < Len(events) /\ events[left + 1] = Done
        BY <1>2, <3>2
      <4>2. rest < Len(events') /\ rest + 1 \in 1 .. Len(events) - 1
        BY <1>1, <2>6, <2>7, <4>1
      <4>. QED BY <2>6, <2>7, <3>2, <4>1, <4>2
    <3>. QED BY <3>1, <3>2
  <2>11. OwnRuns' = OwnRuns
    BY <2>1 DEF OwnRuns
  <2>. QED BY <1>2, <2>1, <2>4, <2>5, <2>7, <2>8, <2>9, <2>10, <2>11 DEF Pending, rest
<1>. QED BY <1>4, <1>5

(* The driver posts what is missing in the events, and then the end. *)
LEMMA PendingPosted ==
    ASSUME ScanInv, own = 1, ~lost', Pending, DriverFinds \/ DriverEnds
    PROVE  Pending'
<1>. USE DEF listVars
<1>. DEFINE left == found[1] - scanResult
<1>0. TypeOK /\ BeforeScans /\ (running => scans # 0)
  BY DEF ScanInv
<1>1. /\ 1 \in Scans /\ found[1] \in Nat /\ scanResult \in Nat /\ left \in Nat
      /\ events \in Seq(Results \cup {Done}) /\ scans \in Scans /\ found[scans] \in Nat
  BY <1>0, ScanAssumption DEF TypeOK, BeforeScans, Scans, Pending, DriverFinds, DriverEnds
<1>2. /\ left <= Len(events)
      /\ \A i \in 1 .. left : events[i] = [scan |-> 1, nr |-> scanResult + i]
      /\ IF OwnRuns THEN Len(events) = left
                    ELSE left < Len(events) /\ events[left + 1] = Done
  BY DEF Pending
<1>3. UNCHANGED <<main, sem, list, scanResult, scans>>
  BY DEF DriverFinds, DriverEnds
<1>4. ASSUME NEW e \in Results \cup {Done}, events' = Append(events, e)
      PROVE  /\ Len(events') = Len(events) + 1 /\ Len(events) \in Nat
             /\ \A i \in 1 .. Len(events) : events'[i] = events[i]
             /\ events'[Len(events) + 1] = e
  BY <1>1, <1>4
<1>. HIDE DEF left
<1>5. CASE DriverFinds
  <2>. DEFINE e == [scan |-> scans, nr |-> found[scans] + 1]
  <2>1. running /\ running' = running /\ found' = [found EXCEPT ![scans] = @ + 1]
    BY <1>5 DEF DriverFinds
  <2>2. e \in Results
    BY <1>1 DEF Results
  <2>3. events' = Append(events, e)
    BY <1>5 DEF DriverFinds, Post
  <2>. HIDE DEF e
  <2>4. /\ Len(events') = Len(events) + 1 /\ Len(events) \in Nat
        /\ \A i \in 1 .. Len(events) : events'[i] = events[i]
        /\ events'[Len(events) + 1] = e
    BY <1>4, <2>2, <2>3
  <2>5. OwnRuns' = OwnRuns /\ (OwnRuns <=> scans = 1)
    BY <1>3, <2>1 DEF OwnRuns
  <2>6. CASE scans = 1
    <3>1. found'[1] = found[1] + 1 /\ e = [scan |-> 1, nr |-> found[1] + 1]
      BY <1>0, <1>1, <2>1, <2>6 DEF e, TypeOK
    <3>2. Len(events) = left /\ found'[1] - scanResult = left + 1 /\ scanResult + (left + 1) = found[1] + 1
          /\ scanResult <= found'[1] /\ scanResult <= found[1]
      BY <1>1, <1>2, <2>5, <2>6, <3>1 DEF left
    <3>3. \A i \in 1 .. left + 1 : events'[i] = [scan |-> 1, nr |-> scanResult + i]
      <4>. SUFFICES ASSUME NEW i \in 1 .. left + 1
                    PROVE  events'[i] = [scan |-> 1, nr |-> scanResult + i]
        OBVIOUS
      <4>1. i \in 1 .. left \/ i = left + 1
        BY <1>1
      <4>. QED BY <1>2, <2>4, <3>1, <3>2, <4>1
    <3>4. Len(events') = left + 1
      BY <2>4, <3>2
    <3>. QED BY <1>1, <1>3, <2>5, <2>6, <3>2, <3>3, <3>4 DEF Pending, Listed
  <2>7. CASE scans # 1
    <3>1. found'[1] = found[1] /\ ~OwnRuns
      BY <2>1, <2>5, <2>7
    <3>2. left < Len(events) /\ events[left + 1] = Done
      BY <1>2, <3>1
    <3>3. left < Len(events') /\ left <= Len(events') /\ left + 1 \in 1 .. Len(events)
      BY <1>1, <2>4, <3>2
    <3>4. \A i \in 1 .. left : i \in 1 .. Len(events)
      BY <1>1, <2>4, <3>2
    <3>. QED BY <1>2, <1>3, <2>4, <2>5, <3>1, <3>2, <3>3, <3>4 DEF Pending, Listed, left
  <2>. QED BY <2>6, <2>7
<1>6. CASE DriverEnds
  <2>1. running /\ running' = FALSE /\ found' = found /\ events' = Append(events, Done) /\ ~OwnRuns'
    BY <1>6 DEF DriverEnds, Post, OwnRuns
  <2>2. /\ Len(events') = Len(events) + 1 /\ Len(events) \in Nat
        /\ \A i \in 1 .. Len(events) : events'[i] = events[i]
        /\ events'[Len(events) + 1] = Done
    BY <1>4, <2>1
  <2>3. left < Len(events') /\ left <= Len(events') /\ events'[left + 1] = Done
    <3>1. CASE OwnRuns
      BY <1>1, <1>2, <2>2, <3>1
    <3>2. CASE ~OwnRuns
      <4>1. left < Len(events) /\ events[left + 1] = Done
        BY <1>2, <3>2
      <4>2. left + 1 \in 1 .. Len(events) /\ left < Len(events') /\ left <= Len(events')
        BY <1>1, <2>2, <4>1
      <4>. QED BY <2>2, <4>1, <4>2
    <3>. QED BY <3>1, <3>2
  <2>4. \A i \in 1 .. left : i \in 1 .. Len(events)
    BY <1>1, <1>2, <2>2
  <2>. QED BY <1>2, <1>3, <2>1, <2>2, <2>3, <2>4 DEF Pending, Listed, left
<1>. QED BY <1>5, <1>6

(* The end of a scan is the last event there is, and resets the count. *)
LEMMA CountKept == ScanInv /\ Next => CountIsReset' /\ EndComesLast'
<1>. SUFFICES ASSUME ScanInv, Next PROVE CountIsReset' /\ EndComesLast'
  OBVIOUS
<1>. USE DEF driverVars, queueVars, listVars, copyVars
<1>0. TypeOK /\ CountIsReset /\ EndComesLast /\ events \in Seq(Results \cup {Done})
  BY DEF ScanInv, TypeOK
<1>1. CASE RequestScan \/ ShellScan
  BY <1>0, <1>1 DEF RequestScan, ShellScan, StartScan, CountIsReset, EndComesLast
<1>2. CASE TakeScanSem \/ ScanTimesOut \/ HttpThread
  BY <1>0, <1>2 DEF TakeScanSem, ScanTimesOut, HttpThread, BeginCopy, CopyCharacter, EndCopy,
     CountIsReset, EndComesLast
<1>3. CASE DriverFinds
  BY <1>3 DEF DriverFinds, CountIsReset, EndComesLast
<1>4. CASE DriverEnds
  <2>1. CASE events' = Append(events, Done)
    <3>1. events' # <<>> /\ events'[Len(events')] = Done
      BY <1>0, <2>1
    <3>. QED BY <3>1 DEF CountIsReset, EndComesLast
  <2>2. CASE scans' \in endLost'
    BY <2>2 DEF CountIsReset, EndComesLast
  <2>. QED BY <1>4, <2>1, <2>2 DEF DriverEnds, Post
<1>5. CASE HandleResult \/ HandleDone
  <2>1. /\ events # <<>> /\ events' = Tail(events) /\ UNCHANGED <<endLost, scans, running>>
        /\ Head(events) = Done => scanResult' = 0
    BY <1>5 DEF HandleResult, HandleDone
  <2>2. /\ Len(events') = Len(events) - 1 /\ Len(events) \in Nat \ {0} /\ Head(events) = events[1]
        /\ \A i \in 1 .. Len(events) - 1 : events'[i] = events[i + 1]
        /\ Len(events) = 1 => events' = <<>>
    <3>1. events' \in Seq(Results \cup {Done}) /\ Len(events') = Len(events) - 1
      BY <1>0, <2>1
    <3>. QED BY <1>0, <2>1, <3>1
  <2>. SUFFICES ASSUME scans \notin endLost, ~running PROVE CountIsReset' /\ EndComesLast'
    BY <2>1 DEF CountIsReset, EndComesLast
  <2>3. events[Len(events)] = Done
    BY <1>0, <2>1 DEF EndComesLast
  <2>4. CASE Len(events) = 1
    <3>1. events' = <<>> /\ scanResult' = 0
      BY <2>1, <2>2, <2>3, <2>4
    <3>. QED BY <3>1 DEF CountIsReset, EndComesLast
  <2>5. CASE Len(events) # 1
    <3>1. Len(events') \in 1 .. Len(events) - 1 /\ Len(events') + 1 = Len(events)
      BY <2>2, <2>5
    <3>2. events' # <<>> /\ events'[Len(events')] = Done
      BY <2>2, <2>3, <3>1
    <3>. QED BY <3>2 DEF CountIsReset, EndComesLast
  <2>. QED BY <2>4, <2>5
<1>. QED BY <1>1, <1>2, <1>3, <1>4, <1>5 DEF Next, Main

(* The events behind the latest end are those of the scan it let begin. *)
LEMMA CountInvKept == ScanInv /\ Next => CountInv'
<1>. SUFFICES ASSUME ScanInv, Next PROVE CountInv'
  OBVIOUS
<1>. USE DEF driverVars, queueVars, listVars, copyVars
<1>0. TypeOK /\ CountIsReset /\ EndComesLast /\ CountInv /\ (running => scans # 0)
  BY DEF ScanInv
<1>1. /\ events \in Seq(Results \cup {Done}) /\ scanResult \in Nat /\ scans \in 0 .. MaxScans
      /\ found \in [Scans -> Nat] /\ MaxScans \in Nat /\ Len(events) \in Nat
  BY <1>0, ScanAssumption DEF TypeOK
<1>2. CASE RequestScan \/ ShellScan
  <2>1. CASE StartScan
    <3>1. scans' = scans + 1 /\ ~running /\ found' = found /\ scans + 1 \in Scans
      BY <1>1, <2>1 DEF StartScan, Scans
    <3>0. UNCHANGED <<events, endLost, scanResult>>
      BY <1>2 DEF RequestScan, ShellScan
    <3>2. found[scans + 1] = 0 /\ \A s \in Scans : s > scans + 1 => found[s] = 0
      BY <1>0, <1>1, <3>1 DEF CountInv, Scans
    <3>3. ASSUME scans \notin endLost PROVE CountedTo(0, Len(events), events, scanResult)
      <4>1. CASE events = <<>>
        BY <1>0, <1>1, <3>1, <3>3, <4>1 DEF CountIsReset, CountedTo
      <4>2. CASE events # <<>>
        <5>1. events[Len(events)] = Done /\ Len(events) \in 1 .. Len(events)
              /\ Len(events) - Len(events) <= 0
          BY <1>0, <1>1, <3>1, <3>3, <4>2 DEF EndComesLast
        <5>. QED BY <5>1 DEF CountedTo
      <4>. QED BY <4>1, <4>2
    <3>4. scans' - 1 = scans
      BY <1>1, <3>1
    <3>5. found'[scans'] = 0 /\ \A s \in Scans : s > scans' => found'[s] = 0
      BY <3>1, <3>2
    <3>. QED BY <1>0, <3>0, <3>1, <3>3, <3>4, <3>5 DEF CountInv
  <2>2. CASE UNCHANGED <<driverVars, queueVars, scanResult>>
    BY <1>0, <2>2 DEF CountInv, CountedTo
  <2>. QED BY <1>2, <2>1, <2>2 DEF RequestScan, ShellScan
<1>3. CASE TakeScanSem \/ ScanTimesOut \/ HttpThread
  BY <1>0, <1>3 DEF TakeScanSem, ScanTimesOut, HttpThread, BeginCopy, CopyCharacter, EndCopy,
     CountInv, CountedTo
<1>4. ASSUME NEW e \in Results \cup {Done}, events' = Append(events, e), scanResult' = scanResult
      PROVE  /\ Len(events') = Len(events) + 1 /\ events'[Len(events) + 1] = e
             /\ \A i \in 1 .. Len(events) : events'[i] = events[i]
             /\ \A i \in 0 .. Len(events) : \A n \in Nat :
                  CountedTo(n, i, events, scanResult) =>
                    /\ CountedTo(n, i, events', scanResult')
                    /\ CountedTo(n + 1, i + 1, events', scanResult')
  <2>1. /\ Len(events') = Len(events) + 1 /\ events'[Len(events) + 1] = e
        /\ \A i \in 1 .. Len(events) : events'[i] = events[i]
    BY <1>1, <1>4
  <2>2. ASSUME NEW i \in 0 .. Len(events), NEW n \in Nat, CountedTo(n, i, events, scanResult)
        PROVE  CountedTo(n, i, events', scanResult') /\ CountedTo(n + 1, i + 1, events', scanResult')
    <3>1. CASE scanResult + i <= n
      <4>1. scanResult + (i + 1) <= n + 1
        BY <1>1, <3>1
      <4>. QED BY <1>4, <3>1, <4>1 DEF CountedTo
    <3>2. CASE \E j \in 1 .. i : events[j] = Done /\ i - j <= n
      <4>1. PICK j \in 1 .. i : events[j] = Done /\ i - j <= n
        BY <3>2
      <4>2. j \in 1 .. Len(events) /\ j \in 1 .. i + 1 /\ (i + 1) - j <= n + 1
        BY <1>1, <4>1
      <4>3. events'[j] = Done
        BY <2>1, <4>1, <4>2
      <4>. QED BY <4>1, <4>2, <4>3 DEF CountedTo
    <3>. QED BY <2>2, <3>1, <3>2 DEF CountedTo
  <2>. QED BY <2>1, <2>2
<1>5. CASE DriverFinds
  <2>. DEFINE e == [scan |-> scans, nr |-> found[scans] + 1]
  <2>1. /\ running /\ scans \in Scans /\ found[scans] \in Nat /\ e \in Results
        /\ found' = [found EXCEPT ![scans] = @ + 1]
        /\ UNCHANGED <<running, scans, endLost, scanResult>>
    BY <1>0, <1>1, <1>5 DEF DriverFinds, Scans, Results
  <2>2. found'[scans] = found[scans] + 1 /\ \A s \in Scans : s > scans => found'[s] = 0
    BY <1>0, <1>1, <2>1 DEF CountInv
  <2>3. CASE events' = Append(events, e)
    <3>. HIDE DEF e
    <3>1. /\ Len(events') = Len(events) + 1 /\ events'[Len(events) + 1] = e
          /\ \A i \in 1 .. Len(events) : events'[i] = events[i]
          /\ \A i \in 0 .. Len(events) : \A n \in Nat :
               CountedTo(n, i, events, scanResult) =>
                 /\ CountedTo(n, i, events', scanResult')
                 /\ CountedTo(n + 1, i + 1, events', scanResult')
      BY <1>4, <2>1, <2>3
    <3>2. ASSUME scans - 1 \notin endLost
          PROVE  CountedTo(found[scans] + 1, Len(events) + 1, events', scanResult')
      <4>1. CountedTo(found[scans], Len(events), events, scanResult)
        BY <1>0, <2>1, <3>2 DEF CountInv
      <4>2. Len(events) \in 0 .. Len(events)
        BY <1>1
      <4>. QED BY <2>1, <3>1, <4>1, <4>2
    <3>3. ASSUME NEW i \in 1 .. Len(events'), events'[i] # Done, events'[i].scan - 1 \notin endLost
          PROVE  CountedTo(events'[i].nr, i, events', scanResult')
      <4>1. CASE i = Len(events) + 1
        <5>1. events'[i] = [scan |-> scans, nr |-> found[scans] + 1]
          BY <3>1, <4>1 DEF e
        <5>2. scans - 1 \notin endLost /\ events'[i].nr = found[scans] + 1
          BY <3>3, <5>1
        <5>. QED BY <3>2, <4>1, <5>2
      <4>2. CASE i # Len(events) + 1
        <5>1. i \in 1 .. Len(events) /\ i \in 0 .. Len(events)
          BY <1>1, <3>1, <4>2
        <5>2. events'[i] = events[i] /\ events[i] \in Results \cup {Done}
          BY <1>1, <3>1, <5>1
        <5>3. events[i].nr \in Nat
          BY <3>3, <5>2 DEF Results
        <5>4. CountedTo(events[i].nr, i, events, scanResult)
          BY <1>0, <3>3, <5>1, <5>2 DEF CountInv
        <5>5. \A n \in Nat : CountedTo(n, i, events, scanResult) => CountedTo(n, i, events', scanResult')
          BY <3>1, <5>1
        <5>. QED BY <5>2, <5>3, <5>4, <5>5
      <4>. QED BY <4>1, <4>2
    <3>4. CountedTo(found[scans] + 1, Len(events) + 1, events', scanResult')
             <=> CountedTo(found'[scans'], Len(events'), events', scanResult')
      BY <2>1, <2>2, <3>1
    <3>. QED BY <2>1, <2>2, <3>2, <3>3, <3>4 DEF CountInv
  <2>4. CASE events' = events
    <3>1. ASSUME scans - 1 \notin endLost PROVE CountedTo(found[scans] + 1, Len(events), events, scanResult)
      <4>1. CountedTo(found[scans], Len(events), events, scanResult)
        BY <1>0, <2>1, <3>1 DEF CountInv
      <4>. QED BY <1>1, <2>1, <4>1 DEF CountedTo
    <3>. QED BY <1>0, <2>1, <2>2, <2>4, <3>1 DEF CountInv, CountedTo
  <2>. QED BY <1>5, <2>3, <2>4 DEF DriverFinds, Post
<1>6. CASE DriverEnds
  <2>1. /\ ~running' /\ UNCHANGED <<scans, found, scanResult>>
        /\ \A s : s \notin endLost' => s \notin endLost
    BY <1>6 DEF DriverEnds
  <2>2. CASE events' = Append(events, Done)
    <3>1. /\ Len(events') = Len(events) + 1 /\ events'[Len(events) + 1] = Done
          /\ \A i \in 1 .. Len(events) : events'[i] = events[i]
          /\ \A i \in 0 .. Len(events) : \A n \in Nat :
               CountedTo(n, i, events, scanResult) => CountedTo(n, i, events', scanResult')
      BY <1>4, <2>1, <2>2
    <3>2. ASSUME NEW i \in 1 .. Len(events'), events'[i] # Done, events'[i].scan - 1 \notin endLost'
          PROVE  CountedTo(events'[i].nr, i, events', scanResult')
      <4>1. i \in 1 .. Len(events) /\ i \in 0 .. Len(events)
        BY <1>1, <3>1, <3>2
      <4>2. events'[i] = events[i] /\ events[i] \in Results \cup {Done}
        BY <1>1, <3>1, <4>1
      <4>3. events[i].nr \in Nat /\ events[i].scan - 1 \notin endLost
        BY <2>1, <3>2, <4>2 DEF Results
      <4>4. CountedTo(events[i].nr, i, events, scanResult)
        BY <1>0, <3>2, <4>1, <4>2, <4>3 DEF CountInv
      <4>5. \A n \in Nat : CountedTo(n, i, events, scanResult) => CountedTo(n, i, events', scanResult')
        BY <3>1, <4>1
      <4>. QED BY <4>2, <4>3, <4>4, <4>5
    <3>. QED BY <1>0, <2>1, <3>2 DEF CountInv
  <2>3. CASE events' = events
    BY <1>0, <2>1, <2>3 DEF CountInv, CountedTo
  <2>. QED BY <1>6, <2>2, <2>3 DEF DriverEnds, Post
<1>7. CASE HandleResult \/ HandleDone
  <2>1. /\ events # <<>> /\ events' = Tail(events) /\ UNCHANGED <<endLost, scans, running, found>>
        /\ \/ Head(events) = Done /\ scanResult' = 0
           \/ Head(events) # Done /\ scanResult' = scanResult + 1
    BY <1>7 DEF HandleResult, HandleDone
  <2>2. /\ Len(events') = Len(events) - 1 /\ Len(events) \in Nat \ {0} /\ Head(events) = events[1]
        /\ \A i \in 1 .. Len(events) - 1 : events'[i] = events[i + 1]
    BY <1>1, <2>1
  <2>3. ASSUME NEW i \in 1 .. Len(events), NEW n \in Nat, CountedTo(n, i, events, scanResult)
        PROVE  CountedTo(n, i - 1, events', scanResult')
    <3>1. CASE scanResult + i <= n
      <4>1. scanResult' + (i - 1) <= n
        BY <1>1, <2>1, <2>2, <3>1
      <4>. QED BY <4>1 DEF CountedTo
    <3>2. CASE \E j \in 1 .. i : events[j] = Done /\ i - j <= n
      <4>1. PICK j \in 1 .. i : events[j] = Done /\ i - j <= n
        BY <3>2
      <4>2. CASE j = 1
        <5>1. scanResult' = 0 /\ 0 + (i - 1) <= n
          BY <2>1, <2>2, <4>1, <4>2
        <5>. QED BY <5>1 DEF CountedTo
      <4>3. CASE j # 1
        <5>1. j - 1 \in 1 .. i - 1 /\ j - 1 \in 1 .. Len(events) - 1 /\ (i - 1) - (j - 1) <= n
              /\ (j - 1) + 1 = j
          BY <2>2, <4>1, <4>3
        <5>2. events'[j - 1] = Done
          BY <2>2, <4>1, <5>1
        <5>. QED BY <5>1, <5>2 DEF CountedTo
      <4>. QED BY <4>2, <4>3
    <3>. QED BY <2>3, <3>1, <3>2 DEF CountedTo
  <2>4. ASSUME running, scans - 1 \notin endLost
        PROVE  CountedTo(found[scans], Len(events'), events', scanResult')
    <3>1. CountedTo(found[scans], Len(events), events, scanResult) /\ found[scans] \in Nat
      BY <1>0, <1>1, <2>4 DEF CountInv, Scans
    <3>2. Len(events) \in 1 .. Len(events)
      BY <2>2
    <3>3. CountedTo(found[scans], Len(events) - 1, events', scanResult')
      BY <2>3, <3>1, <3>2
    <3>. QED BY <2>2, <3>3
  <2>5. ASSUME NEW i \in 1 .. Len(events'), events'[i] # Done, events'[i].scan - 1 \notin endLost
        PROVE  CountedTo(events'[i].nr, i, events', scanResult')
    <3>1. i + 1 \in 1 .. Len(events) /\ i \in 1 .. Len(events) - 1 /\ (i + 1) - 1 = i
      BY <2>2, <2>5
    <3>2. events'[i] = events[i + 1] /\ events[i + 1] \in Results \cup {Done}
      BY <1>1, <2>2, <3>1
    <3>3. events[i + 1].nr \in Nat
      BY <2>5, <3>2 DEF Results
    <3>4. CountedTo(events[i + 1].nr, i + 1, events, scanResult)
      BY <1>0, <2>5, <3>1, <3>2 DEF CountInv
    <3>5. \A n \in Nat : CountedTo(n, i + 1, events, scanResult) => CountedTo(n, i, events', scanResult')
      BY <2>3, <3>1
    <3>. QED BY <3>2, <3>3, <3>4, <3>5
  <2>. QED BY <1>0, <2>1, <2>4, <2>5 DEF CountInv
<1>. QED BY <1>2, <1>3, <1>5, <1>6, <1>7 DEF Next, Main

(* The semaphore is given with the last event, and taken by main alone. *)
LEMMA WokenKept == ScanInv /\ Next => MainIsWoken'
<1>. SUFFICES ASSUME ScanInv, Next PROVE MainIsWoken'
  OBVIOUS
<1>. USE DEF driverVars, queueVars, listVars, copyVars
<1>0. TypeOK /\ EndComesLast /\ MainIsWoken /\ events \in Seq(Results \cup {Done})
  BY DEF ScanInv, TypeOK
<1>1. CASE RequestScan \/ ShellScan
  BY <1>0, <1>1 DEF RequestScan, ShellScan, StartScan, MainIsWoken
<1>2. CASE TakeScanSem \/ ScanTimesOut \/ HttpThread \/ DriverFinds
  BY <1>0, <1>2 DEF TakeScanSem, ScanTimesOut, HttpThread, BeginCopy, CopyCharacter, EndCopy,
     DriverFinds, MainIsWoken
<1>3. CASE DriverEnds
  <2>1. CASE events' = Append(events, Done)
    <3>1. events' # <<>>
      BY <1>0, <2>1
    <3>. QED BY <3>1 DEF MainIsWoken
  <2>2. CASE scans' \in endLost'
    BY <2>2 DEF MainIsWoken
  <2>. QED BY <1>3, <2>1, <2>2 DEF DriverEnds, Post
<1>4. CASE HandleResult
  <2>1. events # <<>> /\ events' = Tail(events) /\ Head(events) = events[1]
    BY <1>0, <1>4 DEF HandleResult
  <2>2. /\ Len(events) \in Nat \ {0}
        /\ Len(events) # 1 => events' # <<>>
    <3>1. /\ events' \in Seq(Results \cup {Done}) /\ Len(events') = Len(events) - 1
          /\ Len(events) \in Nat \ {0}
      BY <1>0, <2>1
    <3>2. Len(events) # 1 => Len(events') # 0
      BY <3>1
    <3>. QED BY <3>1, <3>2
  <2>. SUFFICES ASSUME scans \notin endLost, ~running, Len(events) = 1 PROVE FALSE
    BY <1>4, <2>2 DEF HandleResult, MainIsWoken
  <2>3. Head(events) = Done
    BY <1>0, <2>1 DEF EndComesLast
  <2>. QED BY <1>4, <2>3 DEF HandleResult
<1>5. CASE HandleDone
  BY <1>5 DEF HandleDone, MainIsWoken
<1>. QED BY <1>1, <1>2, <1>3, <1>4, <1>5 DEF Next, Main

LEMMA OwnScanKept == ScanInv /\ Next => OwnScan'
<1>. SUFFICES ASSUME ScanInv, Next, own' = 1, ~lost'
              PROVE  (Complete /\ ~OwnRuns)' \/ Pending'
  BY DEF OwnScan
<1>. USE DEF driverVars, queueVars, listVars, copyVars
<1>0. TypeOK /\ BeforeScans /\ OwnScan
  BY DEF ScanInv
<1>1. CASE RequestScan
  <2>1. own = 0
    BY <1>0, <1>1 DEF RequestScan, BeforeScans
  <2>2. StartScan /\ main' = "wait" /\ own' = scans + 1 /\ UNCHANGED <<sem, events, list, scanResult>>
    BY <1>1, <2>1 DEF RequestScan
  <2>3. scans = 0 /\ scans' = 1 /\ running' = TRUE /\ found' = found /\ 1 \in Scans
    BY <1>0, <2>2, ScanAssumption DEF StartScan, TypeOK, Scans
  <2>4. events = <<>> /\ list = <<>> /\ scanResult = 0 /\ sem = 0 /\ found[1] = 0
    BY <1>0, <2>3 DEF BeforeScans
  <2>5. 0 * EntryLen = 0
    BY ScanAssumption
  <2>6. OwnRuns'
    BY <2>3 DEF OwnRuns
  <2>7. Pending'
    BY <2>2, <2>3, <2>4, <2>5, <2>6 DEF Pending
  <2>. QED BY <2>7
<1>2. CASE ~RequestScan
  <2>1. own = 1 /\ ~lost
    BY <1>2 DEF Next, Main, TakeScanSem, ScanTimesOut, HandleResult, HandleDone, HttpThread,
           BeginCopy, CopyCharacter, EndCopy, DriverFinds, DriverEnds, ShellScan, Post
  <2>2. CASE Complete /\ ~OwnRuns
    BY <2>1, <2>2, CompleteKept
  <2>3. CASE Pending
    <3>1. CASE HandleResult \/ HandleDone
      BY <2>1, <2>3, <3>1, PendingHandled
    <3>2. CASE DriverFinds \/ DriverEnds
      BY <2>1, <2>3, <3>2, PendingPosted
    <3>3. CASE ShellScan
      <4>1. scans \in Nat /\ scans >= 1
        BY <1>0, <2>1, ScanAssumption DEF TypeOK, BeforeScans
      <4>2. ~OwnRuns /\ ~OwnRuns' /\ UNCHANGED <<main, sem, events, list, scanResult, found>>
        BY <3>3, <4>1 DEF ShellScan, StartScan, OwnRuns
      <4>. QED BY <2>3, <4>2 DEF Pending, Listed
    <3>4. CASE TakeScanSem
      BY <2>3, <3>4 DEF TakeScanSem, Pending
    <3>5. CASE ScanTimesOut
      BY <2>3, <3>5 DEF ScanTimesOut, Pending, Listed, OwnRuns
    <3>6. CASE HttpThread
      BY <2>3, <3>6 DEF HttpThread, BeginCopy, CopyCharacter, EndCopy, Pending, Listed, OwnRuns
    <3>. QED BY <1>2, <3>1, <3>2, <3>3, <3>4, <3>5, <3>6 DEF Next, Main
  <2>. QED BY <1>0, <2>1, <2>2, <2>3 DEF OwnScan
<1>. QED BY <1>1, <1>2

LEMMA NextKeepsScanInv == ScanInv /\ [Next]_vars => ScanInv'
<1>. SUFFICES ASSUME ScanInv, [Next]_vars PROVE ScanInv'
  OBVIOUS
<1>1. CopyInv'
  BY NextKeepsCopyInv
<1>2. CASE Next
  BY <1>1, <1>2, BeforeScansKept, CountKept, CountInvKept, WokenKept, OwnScanKept DEF CopyInv, ScanInv
<1>3. CASE UNCHANGED vars
  <2>1. BeforeScans' /\ OwnScan' /\ CountIsReset' /\ EndComesLast' /\ MainIsWoken'
        /\ CountInv'
    BY <1>3 DEF vars, ScanInv, BeforeScans, OwnScan, Complete, OwnRuns, Pending, Listed,
       CountIsReset, EndComesLast, MainIsWoken, CountInv, CountedTo
  <2>. QED BY <1>1, <2>1 DEF CopyInv, ScanInv
<1>. QED BY <1>2, <1>3

(* The inductive invariant of the scan holds for any number of scans and    *)
(* results, any length of an entry and any size of the buffer.              *)
THEOREM ScanInvariant == Spec => []ScanInv
BY InitScanInv, NextKeepsScanInv, PTL DEF Spec

(* Every variable of the scan keeps its type, the string its bound.         *)
THEOREM ScanTypeCorrect == Spec => []TypeOK
<1>1. ScanInv => TypeOK
  BY DEF ScanInv
<1>. QED BY <1>1, ScanInvariant, PTL

(* No entry of the list is cut but at the end of the buffer.                *)
THEOREM ScanWholeEntries == Spec => []WholeEntries
<1>1. ScanInv => WholeEntries
  BY DEF ScanInv
<1>. QED BY <1>1, ScanInvariant, PTL

(* The list main's own scan leaves is complete: no access point is skipped  *)
(* by a shell's scan, a copy or the order of the events, unless one is lost. *)
THEOREM ScanBootListIsComplete == Spec => []BootListIsComplete
<1>1. ScanInv => BootListIsComplete
  BY DEF ScanInv, OwnScan, BootListIsComplete, Complete, Pending
<1>. QED BY <1>1, ScanInvariant, PTL

(* Whatever is queued, dropped or copied meanwhile, every scan gets its      *)
(* first access points listed unless the end of the scan before was dropped. *)
THEOREM ScanEveryScanIsListed == Spec => EveryScanIsListed
<1>. DEFINE Listing ==
        LET e == Head(events) IN
        events # <<>> /\ events' = Tail(events) /\ e # Done
        /\ e.nr < MaxMac /\ e.scan - 1 \notin endLost
           => list' = Appended(list, e)
<1>1. ASSUME ScanInv, [Next]_vars PROVE [Listing]_vars
  <2>. SUFFICES ASSUME Next, events # <<>>, events' = Tail(events), Head(events) # Done,
                       Head(events).nr < MaxMac, Head(events).scan - 1 \notin endLost
                PROVE  list' = Appended(list, Head(events))
    BY <1>1 DEF vars
  <2>1. /\ events \in Seq(Results \cup {Done}) /\ scanResult \in Nat /\ MaxMac \in Nat
        /\ CountInv
    BY <1>1, ScanAssumption DEF ScanInv, TypeOK
  <2>2. /\ Head(events) = events[1] /\ 1 \in 1 .. Len(events) /\ events[1] \in Results
        /\ Len(Tail(events)) = Len(events) - 1 /\ Len(events) \in Nat
    BY <2>1
  <2>3. events' # events /\ \A e \in Results \cup {Done} : events' # Append(events, e)
    <3>1. \A e \in Results \cup {Done} : Len(Append(events, e)) = Len(events) + 1
      BY <2>1
    <3>2. Len(events') = Len(events) - 1
      BY <2>2
    <3>3. \A k \in Nat : k - 1 # k /\ k - 1 # k + 1
      OBVIOUS
    <3>4. events' # events
      BY <2>2, <3>2, <3>3, Zenon
    <3>5. ASSUME NEW e \in Results \cup {Done}, events' = Append(events, e) PROVE FALSE
      <4>1. Len(events') = Len(events) + 1
        BY <3>1, <3>5, Zenon
      <4>. QED BY <2>2, <3>2, <3>3, <4>1, Zenon
    <3>. QED BY <3>4, <3>5
  <2>4. HandleResult
    <3>1. ~DriverFinds
      <4>. SUFFICES ASSUME DriverFinds PROVE FALSE
        OBVIOUS
      <4>1. scans \in Scans /\ found[scans] + 1 \in Nat
        BY <1>1, ScanAssumption DEF ScanInv, TypeOK, Scans, DriverFinds
      <4>2. [scan |-> scans, nr |-> found[scans] + 1] \in Results
        BY <4>1 DEF Results
      <4>. QED BY <2>3, <4>2 DEF DriverFinds, Post
    <3>2. ~DriverEnds
      BY <2>3 DEF DriverEnds, Post
    <3>3. ~RequestScan /\ ~ShellScan /\ ~TakeScanSem /\ ~ScanTimesOut
      BY <2>3 DEF RequestScan, ShellScan, TakeScanSem, ScanTimesOut, queueVars
    <3>4. ~HttpThread
      BY <2>3 DEF HttpThread, BeginCopy, CopyCharacter, EndCopy, queueVars
    <3>5. ~HandleDone
      BY DEF HandleDone
    <3>. QED BY <3>1, <3>2, <3>3, <3>4, <3>5 DEF Next, Main
  <2>5. CountedTo(events[1].nr, 1, events, scanResult)
    BY <2>1, <2>2 DEF CountInv
  <2>6. scanResult + 1 <= events[1].nr
    BY <2>2, <2>5 DEF CountedTo
  <2>7. scanResult + 1 < MaxMac
    BY <2>1, <2>2, <2>6 DEF Results
  <2>. QED BY <2>4, <2>7 DEF HandleResult
<1>. QED BY <1>1, ScanInvariant, PTL DEF Spec, EveryScanIsListed

(* Unless the end was dropped, main's wait ends by its time limit only while     *)
(* there is still something to find or to handle, whoever else scans.       *)
THEOREM ScanTimeOutHasACause == Spec => TimeOutHasACause
<1>1. ScanInv /\ [Next]_vars =>
        [main = "wait" /\ main' = "timedOut" => running \/ events # <<>> \/ scans \in endLost]_vars
  <2>. SUFFICES ASSUME ScanInv, Next, main = "wait", main' = "timedOut"
                PROVE  running \/ events # <<>> \/ scans \in endLost
    BY DEF vars
  <2>1. ScanTimesOut
    BY DEF Next, Main, RequestScan, TakeScanSem, HandleResult, HandleDone, HttpThread,
           BeginCopy, CopyCharacter, EndCopy, DriverFinds, DriverEnds, ShellScan
  <2>. QED BY <2>1 DEF ScanTimesOut, ScanInv, MainIsWoken
<1>. QED BY <1>1, ScanInvariant, PTL DEF Spec, TimeOutHasACause

(* The copy taken without a lock is the list.                               *)
THEOREM ScanCopyIsTheList == Spec => CopyIsTheList
<1>1. ScanInv /\ [Next]_vars => [copying /\ ~copying' => copy' = list]_vars
  <2>. SUFFICES ASSUME ScanInv, Next, copying, ~copying' PROVE copy' = list
    BY DEF vars
  <2>1. EndCopy
    BY DEF Next, Main, RequestScan, TakeScanSem, ScanTimesOut, HandleResult, HandleDone,
           HttpThread, BeginCopy, CopyCharacter, DriverFinds, DriverEnds, ShellScan, copyVars
  <2>2. /\ copy \in Seq(Cells) /\ list \in Seq(Cells)
        /\ Len(copy) = Len(list)
        /\ \A i \in 1 .. Len(copy) : copy[i] = list[i]
    BY <2>1 DEF EndCopy, ScanInv, TypeOK, CopyIsAPrefix
  <2>3. copy = list
    BY <2>2
  <2>. QED BY <2>1, <2>3 DEF EndCopy
<1>. QED BY <1>1, ScanInvariant, PTL DEF Spec, CopyIsTheList
=============================================================================
