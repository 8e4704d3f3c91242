------------------------------ MODULE WifiScan ------------------------------
(***************************************************************************)
(* The Wi-Fi scan of src/wifi.c: main asks for one at boot and waits for its *)
(* end (wifi_scan), the network-management thread appends each access point  *)
(* found to nrfcloud_api_str, and the HTTP thread copies that string         *)
(* (get_nrfcloud_api_str) character by character, with no lock, while a late *)
(* scan or one asked for in the shell may still append to it.                *)
(*                                                                          *)
(* External: the driver, one scan at a time, the shell's "wifi scan", and    *)
(* the event queue of QueueSize places, which drops an event that finds it   *)
(* full for too long.  The network-management thread is cooperative: the     *)
(* HTTP thread sees all of an append or nothing of it.                       *)
(*                                                                          *)
(* A character is a cell [scan, nr, at]: the at-th one of the entry of the   *)
(* scan's nr-th result.  Every entry has EntryLen of them.                   *)
(***************************************************************************)
EXTENDS Integers, Sequences

CONSTANTS
    MaxMac,         \* CONFIG_WIFI_SCAN_STR_MAX_MAC_ADDR
    EntryLen,       \* the length of an entry, 57: "%-4d" makes them all alike
    StrSize,        \* sizeof nrfcloud_api_str
    QueueSize,      \* places in the event queue
    MaxScans,       \* bound: scans
    MaxResults      \* bound: results of a scan

ASSUME ScanAssumption ==
    /\ MaxMac \in Nat \ {0} /\ EntryLen \in Nat \ {0}
    /\ QueueSize \in Nat \ {0} /\ MaxScans \in Nat /\ MaxResults \in Nat
    /\ StrSize \in Nat \ {0}

ASSUME ListFits == (MaxMac - 1) * EntryLen < StrSize    \* 9 * 57 < 650

Scans   == 1 .. MaxScans
Results == [scan : Scans, nr : Nat]
Cells   == [scan : Scans, nr : Nat, at : 1 .. EntryLen]
Done    == [scan |-> 0, nr |-> 0]

VARIABLES
    main,       \* main: "boot", in wifi_scan "wait", then "scanned",
                \* "timedOut", or "stopped" after a refused request
    sem,        \* scan_sem
    scans,      \* scans started so far
    running,    \* is the driver scanning?
    found,      \* results of each scan
    events,     \* events posted and not yet handled, oldest first
    lost,       \* auxiliary: was an event dropped?
    endLost,    \* auxiliary: the scans whose end was
    own,        \* auxiliary: the scan main asked for, 0 before
    list,       \* nrfcloud_api_str
    scanResult, \* scan_result
    copying,    \* is the HTTP thread in get_nrfcloud_api_str?
    copy        \* what it has copied

driverVars == <<scans, running, found>>
queueVars  == <<events, lost, endLost>>
listVars   == <<list, scanResult>>
copyVars   == <<copying, copy>>
vars       == <<main, sem, scans, running, found, events, lost, endLost,
                own, list, scanResult, copying, copy>>

Init ==     \* main, after net_mgmt_callback_init
    /\ main = "boot" /\ sem = 0 /\ own = 0
    /\ scans = 0 /\ running = FALSE /\ found = [s \in Scans |-> 0]
    /\ events = <<>> /\ lost = FALSE /\ endLost = {}
    /\ list = <<>> /\ scanResult = 0
    /\ copying = FALSE /\ copy = <<>>

----------------------------------------------------------------------------
(* The driver and the event queue. *)

StartScan ==
    /\ ~running /\ scans < MaxScans
    /\ running' = TRUE /\ scans' = scans + 1
    /\ UNCHANGED found

Post(e) ==
    IF Len(events) < QueueSize
    THEN events' = Append(events, e) /\ UNCHANGED lost
    ELSE lost' = TRUE /\ UNCHANGED events

DriverFinds ==
    /\ running /\ found[scans] < MaxResults
    /\ found' = [found EXCEPT ![scans] = @ + 1]
    /\ Post([scan |-> scans, nr |-> found[scans] + 1])
    /\ UNCHANGED <<main, sem, scans, running, endLost, own, listVars, copyVars>>

DriverEnds ==
    /\ running
    /\ running' = FALSE
    /\ Post(Done)
    /\ endLost' = IF Len(events) < QueueSize THEN endLost ELSE endLost \cup {scans}
    /\ UNCHANGED <<main, sem, scans, found, own, listVars, copyVars>>

ShellScan ==
    /\ StartScan
    /\ UNCHANGED <<main, sem, own, queueVars, listVars, copyVars>>

----------------------------------------------------------------------------
(* main, in wifi_scan. *)

RequestScan ==      \* refused if a scan is running: main returns
    /\ main = "boot"
    /\ \/ StartScan /\ main' = "wait" /\ own' = scans + 1
       \/ main' = "stopped" /\ UNCHANGED <<own, driverVars>>
    /\ UNCHANGED <<sem, queueVars, listVars, copyVars>>

TakeScanSem ==
    /\ main = "wait" /\ sem = 1
    /\ main' = "scanned" /\ sem' = 0
    /\ UNCHANGED <<driverVars, queueVars, own, listVars, copyVars>>

ScanTimesOut ==     \* after SCAN_TIMEOUT_MS; wifi_scan returns 0 all the same
    /\ main = "wait" /\ sem = 0
    /\ main' = "timedOut"
    /\ UNCHANGED <<sem, driverVars, queueVars, own, listVars, copyVars>>

Main == RequestScan \/ TakeScanSem \/ ScanTimesOut

----------------------------------------------------------------------------
(* The network-management thread. *)

Character(e, i) == [scan |-> e.scan, nr |-> e.nr, at |-> i]

AtMost(n, limit) == IF n <= limit THEN n ELSE limit

(* Mutant of Appended: the entry is written over the last character. *)
AppendedOverComma(s, e) ==
    LET kept == IF s = <<>> THEN 0 ELSE Len(s) - 1
    IN [i \in 1 .. AtMost(kept + EntryLen, StrSize - 1) |->
           IF i <= kept THEN s[i] ELSE Character(e, i - kept)]

(* snprintf of an entry behind the string, cut at the end of the buffer. *)
Appended(s, e) ==
    [i \in 1 .. AtMost(Len(s) + EntryLen, StrSize - 1) |->
        IF i <= Len(s) THEN s[i] ELSE Character(e, i - Len(s))]

(* Mutants of HandleResult: each scan starts a new list; the case falls     *)
(* through to the end of the scan.                                          *)
HandleResultStartsOver ==
    /\ events # <<>> /\ Head(events) # Done
    /\ events' = Tail(events)
    /\ scanResult' = scanResult + 1
    /\ list' = Appended(IF scanResult = 0 THEN <<>> ELSE list, Head(events))
    /\ UNCHANGED <<main, sem, driverVars, lost, endLost, own, copyVars>>

HandleResultFallsThrough ==
    /\ events # <<>> /\ Head(events) # Done
    /\ events' = Tail(events)
    /\ scanResult' = 0 /\ sem' = 1
    /\ list' = Appended(list, Head(events))
    /\ UNCHANGED <<main, driverVars, lost, endLost, own, copyVars>>

HandleResult ==     \* handle_wifi_scan_result
    /\ events # <<>> /\ Head(events) # Done
    /\ events' = Tail(events)
    /\ scanResult' = scanResult + 1
    /\ list' = IF scanResult + 1 < MaxMac THEN Appended(list, Head(events)) ELSE list
    /\ UNCHANGED <<main, sem, driverVars, lost, endLost, own, copyVars>>

(* Mutant of HandleDone: the count is not reset. *)
HandleDoneKeepsCount ==
    /\ events # <<>> /\ Head(events) = Done
    /\ events' = Tail(events)
    /\ sem' = 1
    /\ UNCHANGED <<main, driverVars, lost, endLost, own, listVars, copyVars>>

HandleDone ==       \* handle_wifi_scan_done
    /\ events # <<>> /\ Head(events) = Done
    /\ events' = Tail(events)
    /\ scanResult' = 0 /\ sem' = 1
    /\ UNCHANGED <<main, driverVars, lost, endLost, own, list, copyVars>>

----------------------------------------------------------------------------
(* The HTTP thread: a connection made in the shell may have started the     *)
(* server before or during main's scan.                                     *)

BeginCopy ==
    /\ ~copying
    /\ copying' = TRUE /\ copy' = <<>>
    /\ UNCHANGED <<main, sem, driverVars, queueVars, own, listVars>>

CopyCharacter ==    \* one character of the strncpy
    /\ copying /\ Len(copy) < Len(list)
    /\ copy' = Append(copy, list[Len(copy) + 1])
    /\ UNCHANGED <<main, sem, driverVars, queueVars, own, listVars, copying>>

EndCopy ==          \* it reads the zero byte, behind which strncpy only pads
    /\ copying /\ Len(copy) >= Len(list)
    /\ copying' = FALSE
    /\ UNCHANGED <<main, sem, driverVars, queueVars, own, listVars, copy>>

HttpThread == BeginCopy \/ CopyCharacter \/ EndCopy

Next ==
    \/ Main \/ HandleResult \/ HandleDone \/ HttpThread
    \/ DriverFinds \/ DriverEnds \/ ShellScan

Spec == Init /\ [][Next]_vars

----------------------------------------------------------------------------
TypeOK ==
    /\ main \in {"boot", "wait", "scanned", "timedOut", "stopped"}
    /\ sem \in {0, 1} /\ own \in 0 .. MaxScans
    /\ scans \in 0 .. MaxScans /\ running \in BOOLEAN
    /\ found \in [Scans -> Nat]
    /\ events \in Seq(Results \cup {Done}) /\ lost \in BOOLEAN
    /\ endLost \subseteq Scans
    /\ list \in Seq(Cells) /\ Len(list) < StrSize /\ scanResult \in Nat
    /\ copying \in BOOLEAN /\ copy \in Seq(Cells)

(* The list the HTTP thread takes with it is the one there is when its copy  *)
(* ends, however many entries were appended while it was copying: never the *)
(* beginning of one and the end of another.                                 *)
CopyIsTheList == [][copying /\ ~copying' => copy' = list]_vars

Continues(s, i) ==
    i < Len(s) /\ s[i + 1] = [scan |-> s[i].scan, nr |-> s[i].nr, at |-> s[i].at + 1]

Whole(s) ==
    \A i \in 1 .. Len(s) : s[i].at < EntryLen => Continues(s, i) \/ i = StrSize - 1

(* The list is made of whole entries, as many scans as there are; only the   *)
(* end of the buffer may cut the last one.                                  *)
WholeEntries == Whole(list)

(* When its own scan, the first, woke main, the list holds all its results, *)
(* or the first MaxMac - 1 of them.                                         *)
Listed(s, n) == \E i \in 1 .. Len(list) : list[i] = [scan |-> s, nr |-> n, at |-> 1]

BootListIsComplete ==
    main = "scanned" /\ own = 1 /\ ~lost =>
        \A n \in 1 .. found[1] : n < MaxMac => Listed(1, n)

(* Each scan, of main or of the shell, has its first MaxMac - 1 access       *)
(* points appended, counted from its own first result, though the count is  *)
(* reset by events that are queued behind it: only the loss of the very end *)
(* of the scan before costs it some.                                        *)
EveryScanIsListed ==
    [][LET e == Head(events) IN
       events # <<>> /\ events' = Tail(events) /\ e # Done
       /\ e.nr < MaxMac /\ e.scan - 1 \notin endLost
          => list' = Appended(list, e)]_vars

(* Why: the count of a scan is left to the next only if its end was dropped. *)
CountIsReset == scans \notin endLost /\ ~running /\ events = <<>> => scanResult = 0

(* Why: the end of a scan comes behind its results. *)
EndComesLast ==
    scans \notin endLost /\ ~running /\ events # <<>> => events[Len(events)] = Done

(* main does not wait in vain: its time limit cuts short only a scan that is *)
(* still running, events that are still to be handled, or the wait for an    *)
(* end that was dropped.                                                    *)
TimeOutHasACause ==
    [][main = "wait" /\ main' = "timedOut" => running \/ events # <<>> \/ scans \in endLost]_vars

(* Why: when nothing is left to find or to handle, scan_sem is given.        *)
MainIsWoken ==
    main = "wait" /\ scans \notin endLost /\ ~running /\ events = <<>> => sem = 1

(* Why: the i-th event of the queue will be counted to n at most: from the   *)
(* latest end before it, or from the count if there is none.                *)
CountedTo(n, i, queue, count) ==
    \/ \E j \in 1 .. i : queue[j] = Done /\ i - j <= n
    \/ count + i <= n

CountInv ==
    /\ \A s \in Scans : s > scans => found[s] = 0
    /\ running /\ scans - 1 \notin endLost =>
        CountedTo(found[scans], Len(events), events, scanResult)
    /\ \A i \in 1 .. Len(events) :
          events[i] # Done /\ events[i].scan - 1 \notin endLost
             => CountedTo(events[i].nr, i, events, scanResult)

(* Why: no append changes what was copied.                                  *)
CopyIsAPrefix ==
    copying =>
        /\ Len(copy) <= Len(list)
        /\ \A i \in 1 .. Len(copy) : copy[i] = list[i]

(* Nothing is listed or posted before the first scan, and main asks once.   *)
BeforeScans ==
    /\ scans = 0 => /\ events = <<>> /\ list = <<>> /\ scanResult = 0 /\ sem = 0
                    /\ ~running /\ \A s \in Scans : found[s] = 0
    /\ main = "boot" => own = 0
    /\ own <= scans

(* Of main's scan, if the first, either everything has been handled, or the *)
(* list has the results handled so far, the events are led by the others,   *)
(* and the end follows them unless the scan is still running.               *)
Complete == \A n \in 1 .. found[1] : n < MaxMac => Listed(1, n)

OwnRuns == running /\ scans = 1

Pending ==
    /\ sem = 0 /\ main \in {"wait", "timedOut"}
    /\ scanResult <= found[1] /\ Len(list) <= scanResult * EntryLen
    /\ \A n \in 1 .. scanResult : n < MaxMac => Listed(1, n)
    /\ LET left == found[1] - scanResult
       IN /\ left <= Len(events)
          /\ \A i \in 1 .. left : events[i] = [scan |-> 1, nr |-> scanResult + i]
          /\ IF OwnRuns THEN Len(events) = left
                        ELSE left < Len(events) /\ events[left + 1] = Done

OwnScan == own = 1 /\ ~lost => (Complete /\ ~OwnRuns) \/ Pending

ScanInv ==
    /\ TypeOK
    /\ running => scans # 0
    /\ CopyIsAPrefix
    /\ WholeEntries
    /\ CountIsReset /\ EndComesLast /\ MainIsWoken
    /\ CountInv
    /\ BeforeScans
    /\ OwnScan
=============================================================================
