\* Two entries a scan, as three results come in; the second scan fills the
\* string and has its last entry cut, the third finds it full.  The bounded
\* scans come to an end.
CONSTANTS
    MaxMac = 3
    EntryLen = 2
    StrSize = 8
    QueueSize = 3
    MaxScans = 3
    MaxResults = 3
SPECIFICATION Spec
CHECK_DEADLOCK FALSE
INVARIANTS BootListIsComplete ScanInv
PROPERTIES EveryScanIsListed CopyIsTheList
