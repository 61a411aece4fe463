------------------------------ MODULE LogPages ------------------------------
(***************************************************************************)
(* The log overlay of the TUI: the records that the log file had when the  *)
(* session began, loaded a page at a time, newest first, by reading the    *)
(* file backwards (internal/core/logs/logs.go, and the paging of           *)
(* internal/tui/status.go), while this and other processes append to it.   *)
(***************************************************************************)
EXTENDS Naturals, Sequences

CONSTANTS
    Chunk,     \* readChunk: the bytes read at a time
    PageSize,  \* logPageSize
    MaxBytes   \* bound: the size of the file

ASSUME LogPagesAssumption ==
    Chunk \in Nat \ {0} /\ PageSize \in Nat \ {0} /\ MaxBytes \in Nat

VARIABLES
    size, newlines,   \* the file: its bytes, and where its line ends are
    records,   \* where a line begins that is a record
    began,     \* the end of the file when the session began
    cursor, older, loading, exhausted,   \* logCursor, logOlder (by where they
               \* begin), logLoading and logExhausted
    scan     \* Before: its progress, one call at a time

logVars == <<size, newlines, records, began, cursor, older, loading, exhausted, scan>>
logFile == <<size, newlines, records, began>>

\* end: what is before it is to be read; base: where the first whole line of the
\* chunk begins; width: the bytes to read next; got: the records found.
NoScan == [pc |-> "none", end |-> 0, base |-> 0, width |-> Chunk, got |-> <<>>]
NotYet == MaxBytes + 1

InitLog ==
    /\ size = 0 /\ newlines = {} /\ records = {} /\ began = NotYet
    /\ cursor = 0 /\ older = <<>> /\ loading = FALSE /\ exhausted = FALSE
    /\ scan = NoScan

LineBegins(n) == n = 0 \/ n - 1 \in newlines

\* A write of n bytes to a file opened with O_APPEND: a record; or else a line that
\* is none, or a write cut short, to which the next one is appended.
AppendLine(n, ok, whole) ==
    /\ size + n <= MaxBytes
    /\ size' = size + n
    /\ newlines' = IF whole THEN newlines \cup {size + n - 1} ELSE newlines
    /\ records' = IF ok /\ whole /\ n > 1 /\ LineBegins(size) THEN records \cup {size} ELSE records
    /\ UNCHANGED <<began, cursor, older, loading, exhausted, scan>>

\* newApp: logs.Service.End.
StartSession ==
    /\ began = NotYet /\ began' = size
    /\ cursor' = size /\ exhausted' = (size = 0)
    /\ UNCHANGED <<size, newlines, records, older, loading, scan>>

\* openLog, scrolling to the bottom, and a page shown that does not fill the view.
loadOlderLog ==
    /\ began # NotYet /\ ~ loading /\ ~ exhausted
    /\ loading' = TRUE
    /\ scan' = [NoScan EXCEPT !.pc = "read", !.end = cursor, !.base = cursor]
    /\ UNCHANGED <<logFile, cursor, older, exhausted>>

-----------------------------------------------------------------------------
(* Before. *)

Reading == scan.pc = "read" /\ Len(scan.got) < PageSize
UnchangedPages == UNCHANGED <<logFile, cursor, older, loading, exhausted>>

From(n, w) == IF n > w THEN n - w ELSE 0
\* The line ends in [a, b).
EndsIn(a, b) == {n \in newlines : a <= n /\ n < b}

NextChunk == Reading /\ scan.end > 0 /\ scan.base = scan.end

\* Fault: the line that the chunk cuts is taken for one.
ReadAtStart ==
    /\ NextChunk
    /\ scan' = [scan EXCEPT !.base = From(scan.end, scan.width), !.width = Chunk]
    /\ UnchangedPages

\* The first line of a chunk may be cut; a chunk with no whole line is widened.
ReadChunk ==
    LET start == From(scan.end, scan.width)
        Ends == EndsIn(start, scan.end - 1)
    IN  /\ NextChunk
        /\ \/ /\ start = 0
              /\ scan' = [scan EXCEPT !.base = 0, !.width = Chunk]
           \/ /\ start > 0 /\ Ends = {}
              /\ scan' = [scan EXCEPT !.width = 2 * scan.width]
           \/ /\ start > 0
              /\ \E n \in Ends : /\ \A x \in Ends : n <= x
                                 /\ scan' = [scan EXCEPT !.base = n + 1, !.width = Chunk]
        /\ UnchangedPages

\* The last line of what is left of the chunk; what is not a whole record is skipped.
TakeLine ==
    /\ Reading /\ scan.base < scan.end
    /\ \E s \in {scan.base} \cup {n + 1 : n \in EndsIn(scan.base, scan.end - 1)} :
         /\ EndsIn(s, scan.end - 1) = {}
         /\ scan' = [scan EXCEPT !.end = s,
                         !.got = IF s \in records /\ scan.end - 1 \in newlines
                                 THEN Append(@, s) ELSE @]
    /\ UnchangedPages

ReadFails == NextChunk /\ scan' = [scan EXCEPT !.pc = "failed"] /\ UnchangedPages

-----------------------------------------------------------------------------
(* logPageMsg. *)

PageLoaded ==
    /\ scan.pc = "read" /\ (scan.end = 0 \/ Len(scan.got) = PageSize)
    /\ older' = older \o scan.got /\ cursor' = scan.end /\ exhausted' = (scan.end = 0)
    /\ loading' = FALSE /\ scan' = NoScan
    /\ UNCHANGED logFile

PageFailed ==
    /\ scan.pc = "failed"
    /\ exhausted' = TRUE /\ loading' = FALSE /\ scan' = NoScan
    /\ UNCHANGED <<logFile, cursor, older>>

NextLog ==
    \/ \E n \in 1..MaxBytes, ok, whole \in BOOLEAN : AppendLine(n, ok, whole)
    \/ StartSession \/ loadOlderLog
    \/ ReadChunk \/ TakeLine \/ ReadFails \/ PageLoaded \/ PageFailed

LogSpec == InitLog /\ [][NextLog]_logVars

-----------------------------------------------------------------------------
(* Properties. *)

LogTypeOK ==
    /\ size \in 0..MaxBytes /\ newlines \subseteq 0..MaxBytes /\ records \subseteq 0..MaxBytes
    /\ began \in 0..NotYet /\ cursor \in 0..MaxBytes /\ older \in Seq(0..MaxBytes)
    /\ loading \in BOOLEAN /\ exhausted \in BOOLEAN
    /\ scan \in [pc : {"none", "read", "failed"}, end : 0..MaxBytes, base : 0..MaxBytes,
                   width : Nat \ {0}, got : Seq(0..MaxBytes)]

\* The overlay shows the records of earlier sessions that begin after the cursor,
\* all of them, once each and newest first, wherever the chunks cut the lines and
\* whatever is appended (logs.go, Before).
PagesAreWhole ==
    began # NotYet =>
      /\ {older[k] : k \in 1..Len(older)} = {n \in records : cursor <= n /\ n < began}
      /\ \A k \in 1..Len(older), l \in 1..Len(older) : k < l => older[l] < older[k]

=============================================================================
