------------------------------ MODULE EventLog ------------------------------
(***************************************************************************)
(* EventLogManager of ConsoleApplication1: GetLogEntries reads the system  *)
(* log forwards, a buffer at a time, until a record comes from "DCOM";     *)
(* processRecord looks its text up in message libraries, which it caches.  *)
(*                                                                         *)
(* Record n of the log is records[n]: is it from DCOM?  Other processes    *)
(* may append records at any time.                                         *)
(***************************************************************************)
EXTENDS Integers, Sequences, FiniteSets

CONSTANTS
  MaxRecords,   \* bound: the records of the log
  MaxCalls,     \* bound: the calls of GetLogEntries
  Files         \* the message libraries

VARIABLES
  pc,                 \* "none", "idle", "read", "record", "files", "closed"
  records,            \* the log
  position,           \* the record after which ReadEventLog reads on, of the handle
  last_record_read,
  seek,               \* is EVENTLOG_SEEK_READ set in read_flag?
  buffer,             \* the numbers of the records read and not looked at
  names,              \* the libraries that the record's registry key names, to be visited
  results,            \* the result of every call: a record's number, or 0
  failed,             \* did a read fail, or was a record from DCOM passed over?
  dll_cache,
  loads               \* LoadLibraryEx less FreeLibrary, of every library

vars == << pc, records, position, last_record_read, seek, buffer, names, results, failed,
           dll_cache, loads >>

Init ==
  /\ pc = "none" /\ records = << >> /\ position = 0 /\ last_record_read = 0 /\ seek = FALSE
  /\ buffer = << >> /\ names = {} /\ results = << >> /\ failed = FALSE
  /\ dll_cache = {} /\ loads = [f \in Files |-> 0]

(* The log when the manager is made. *)
Open(log) ==
  /\ pc = "none" /\ pc' = "idle" /\ records' = log
  /\ UNCHANGED << position, last_record_read, seek, buffer, names, results, failed, dll_cache, loads >>

Logged(dcom) ==
  /\ pc \notin {"none", "closed"} /\ Len(records) < MaxRecords
  /\ records' = Append(records, dcom)
  /\ UNCHANGED << pc, position, last_record_read, seek, buffer, names, results, failed, dll_cache, loads >>

-----------------------------------------------------------------------------
(* The flags are chosen once for all reads of a call. *)
GetLogEntries ==
  /\ pc = "idle" /\ Len(results) < MaxCalls
  /\ seek' = (last_record_read # 0) /\ pc' = "read"
  /\ UNCHANGED << records, position, last_record_read, buffer, names, results, failed, dll_cache, loads >>

Return(n) ==
  /\ pc' = "idle" /\ buffer' = << >> /\ results' = Append(results, n)

(* Mutant: a sequential read begins where the last one ended. *)
FirstReadAgain == IF seek \/ position > 0 THEN IF seek THEN last_record_read ELSE position ELSE 1

(* The record that ReadEventLog reads first: the one sought, or the next.  *)
FirstRead == IF seek THEN last_record_read ELSE position + 1

(* ReadEventLog fills the buffer with some records. *)
ReadEventLog ==
  /\ pc = "read"
  /\ \E last \in FirstRead..Len(records) :
       /\ buffer' = [i \in 1..(last - FirstRead + 1) |-> FirstRead + i - 1]
       /\ position' = last
  /\ pc' = "record"
  /\ UNCHANGED << records, last_record_read, seek, names, results, failed, dll_cache, loads >>

(* ERROR_HANDLE_EOF ends the loop. *)
ReadEof ==
  /\ pc = "read" /\ FirstRead > Len(records)
  /\ Return(0)
  /\ UNCHANGED << records, position, last_record_read, seek, names, failed, dll_cache, loads >>

(* ERROR_INSUFFICIENT_BUFFER enlarges the buffer, but status is no longer  *)
(* ERROR_SUCCESS and the loop ends, as it does after any other error.  So  *)
(* does a call without a log handle or without memory for the buffer.      *)
ReadFails ==
  /\ pc = "read" /\ failed' = TRUE
  /\ Return(0)
  /\ UNCHANGED << records, position, last_record_read, seek, names, dll_cache, loads >>

(* The buffer is used up. *)
ReadOn ==
  /\ pc = "record" /\ buffer = << >> /\ pc' = "read"
  /\ UNCHANGED << records, position, last_record_read, seek, buffer, names, results, failed,
                  dll_cache, loads >>

-----------------------------------------------------------------------------
(* Mutant: a record is taken for read before it is looked at, and the next *)
(* one is looked at too.                                                   *)
OtherSourcePair ==
  /\ pc = "record" /\ buffer # << >> /\ ~records[Head(buffer)]
  /\ last_record_read' = Head(buffer)
  /\ buffer' = IF Len(buffer) > 1 THEN Tail(Tail(buffer)) ELSE << >>
  /\ UNCHANGED << pc, records, position, seek, names, results, failed, dll_cache, loads >>

(* processRecord returns nothing for another source. *)
OtherSource ==
  /\ pc = "record" /\ buffer # << >> /\ ~records[Head(buffer)]
  /\ last_record_read' = Head(buffer)
  /\ buffer' = Tail(buffer)
  /\ UNCHANGED << pc, records, position, seek, names, results, failed, dll_cache, loads >>

(* ExpandEnvironmentStrings fails: the record is passed over as well. *)
ExpandFails ==
  /\ pc = "record" /\ buffer # << >> /\ records[Head(buffer)]
  /\ last_record_read' = Head(buffer)
  /\ buffer' = Tail(buffer) /\ failed' = TRUE
  /\ UNCHANGED << pc, records, position, seek, names, results, dll_cache, loads >>

(* The registry names the libraries; without the value EventMessageFile    *)
(* the names come from memory that was never written.                      *)
FromDcom ==
  /\ pc = "record" /\ buffer # << >> /\ records[Head(buffer)]
  /\ names' \in SUBSET Files /\ pc' = "files"
  /\ UNCHANGED << records, position, last_record_read, seek, buffer, results, failed, dll_cache, loads >>

(* A library comes from the cache, or is loaded and put into it. *)
VisitFile ==
  \E f \in names :
    /\ pc = "files" /\ dll_cache' = dll_cache \cup {f}
    /\ loads' = IF f \in dll_cache THEN loads ELSE [loads EXCEPT ![f] = @ + 1]
    /\ names' = names \ {f}
    /\ UNCHANGED << pc, records, position, last_record_read, seek, buffer, results, failed >>

(* The entry is returned: after the last library, or as soon as one cannot *)
(* be loaded or the message cannot be formatted.  last_record_read is not  *)
(* the number of this record but of the one before it.                     *)
EntryFound ==
  /\ pc = "files"
  /\ Return(Head(buffer)) /\ names' = {}
  /\ UNCHANGED << records, position, last_record_read, seek, failed, dll_cache, loads >>

(* ~EventLogManager() *)
Close ==
  /\ pc = "idle" /\ pc' = "closed"
  /\ loads' = [f \in Files |-> IF f \in dll_cache THEN loads[f] - 1 ELSE loads[f]]
  /\ UNCHANGED << records, position, last_record_read, seek, buffer, names, results, failed, dll_cache >>

Reads ==
  \/ ReadEventLog \/ ReadEof \/ ReadFails \/ ReadOn
  \/ OtherSource \/ ExpandFails \/ FromDcom \/ VisitFile \/ EntryFound

Next ==
  \/ \E n \in 0..MaxRecords : \E log \in [1..n -> BOOLEAN] : Open(log)
  \/ \E dcom \in BOOLEAN : Logged(dcom)
  \/ GetLogEntries \/ Reads \/ Close

Spec == Init /\ [][Next]_vars /\ WF_vars(Reads)

-----------------------------------------------------------------------------
Matches == {n \in 1..Len(records) : records[n]}

(* The first call returns the first record from DCOM, and nothing only if  *)
(* there is none among the records it read to the end of the log, unless   *)
(* it met an error; records that are appended while it reads are not lost. *)
(* A second call returns the same record, as it seeks the one before,      *)
(* where last_record_read was left; only after a match on the very first   *)
(* record is nothing sought.                                               *)
CallsFindFirst ==
  /\ pc = "idle" /\ Len(results) = 1 /\ ~failed =>
       IF results[1] = 0 THEN \A n \in Matches : n > position
       ELSE results[1] \in Matches /\ \A n \in Matches : results[1] <= n
  /\ pc = "idle" /\ Len(results) = 2 /\ ~failed /\ results[1] > 1 => results[2] = results[1]

(* Every library that was loaded is in the cache once, and freed once.     *)
LibrariesFreedOnce ==
  \A f \in Files :
    loads[f] = IF f \in dll_cache /\ pc # "closed" THEN 1 ELSE 0

(* The first call returns.  (A later one need not: it seeks the last       *)
(* record of the log again and again if that does not match.)              *)
FirstCallReturns == pc = "read" /\ results = << >> ~> results # << >>
=============================================================================
