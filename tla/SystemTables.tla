---------------------------- MODULE SystemTables ----------------------------
(***************************************************************************)
(* The tables of the Windows kernel that ConsoleApplication1 lists: the    *)
(* processes (Processes.cpp, by EnumProcesses or from a snapshot) and the  *)
(* sockets (Sockets.cpp, and sockets() in ConsoleApplication1.cpp).        *)
(*                                                                         *)
(* The kernel's tables change between two calls, and every query of a      *)
(* process may fail.  A socket is the five fields that the sort compares;  *)
(* addresses are numbers, in the order of std::string::compare.            *)
(***************************************************************************)
EXTENDS Integers, Sequences, SequencesExt, FiniteSets

CONSTANTS
  Pids,          \* bound: the processes
  Limit,         \* the first current_limit (512 in the code)
  Tables,        \* bound: the socket tables, sequences of sockets
  SystemPids     \* the processes that need no lookup (0 and 4 in the code)

VARIABLES
  pc,
  listing,    \* "enum", "snapshot" or "sockets"
  table,      \* the kernel's table: process identifiers, or the sockets of a protocol
  pending,    \* the entries still to be looked at
  listed,     \* the entries that were reported, in order
  handles,    \* the processes of which a listing of processes has an open handle
  kept,       \* the process of each handle that the socket listing opened, in order
  snap,       \* is the handle of the snapshot open?
  blocks,     \* the arrays that are allocated
  size,       \* the entries that the array has room for
  refused     \* the entries of which a query failed

vars == << pc, listing, table, pending, listed, handles, kept, snap, blocks, size, refused >>

Init ==
  /\ pc = "none" /\ listing = "none" /\ table = << >> /\ pending = << >> /\ listed = << >>
  /\ handles = {} /\ kept = << >> /\ snap = FALSE /\ blocks = {} /\ size = 0 /\ refused = {}

ProcessLists == {s \in UNION {[1..n -> Pids] : n \in 0..Cardinality(Pids)} :
                   \A i, j \in 1..Len(s) : i < j => s[i] < s[j]}

Start(what, t) ==
  /\ pc = "none" /\ listing' = what /\ table' = t
  /\ pc' = CASE what = "enum" -> "EnumProcesses" [] what = "snapshot" -> "CreateSnapshot"
             [] what = "sockets" -> "size TCP"
  /\ UNCHANGED << pending, listed, handles, kept, snap, blocks, size, refused >>

Returned == pc' = "done" /\ UNCHANGED << listing, table, listed, kept, size, refused >>

-----------------------------------------------------------------------------
(* The bytes that EnumProcesses reports never exceed the array's, so the   *)
(* do-while loop ends after one round: a longer list is cut off.           *)
EnumProcesses ==
  /\ pc = "EnumProcesses" /\ blocks' = blocks \cup {"processes"}
  /\ pending' = SubSeq(table, 1, IF Len(table) < Limit THEN Len(table) ELSE Limit)
  /\ size' = Limit
  /\ pc' = "process"
  /\ UNCHANGED << listing, table, listed, handles, kept, snap, refused >>

(* It fails: the array is deleted. *)
EnumFails ==
  /\ pc = "EnumProcesses" /\ Returned /\ UNCHANGED << pending, handles, snap, blocks >>

CreateSnapshot ==
  /\ pc = "CreateSnapshot"
  /\ \/ Returned /\ UNCHANGED << pending, handles, snap, blocks >>
     \/ /\ snap' = TRUE /\ pending' = table
        /\ pc' = "Process32First"
        /\ UNCHANGED << listing, table, listed, handles, kept, blocks, size, refused >>

Process32First ==
  /\ pc = "Process32First"
  /\ \/ Returned /\ snap' = FALSE /\ UNCHANGED << pending, handles, blocks >>
     \/ /\ pending # << >> /\ pc' = "process"
        /\ UNCHANGED << listing, table, pending, listed, handles, kept, snap, blocks, size, refused >>

(* OpenProcess; a NULL handle is noticed by GetProcessMemoryInfo. *)
OpenProcess ==
  /\ pc = "process" /\ pending # << >>
  /\ handles' \in {handles, handles \cup {Head(pending)}}
  /\ pc' = "query"
  /\ UNCHANGED << listing, table, pending, listed, kept, snap, blocks, size, refused >>

(* The name, the memory, the priority or the times cannot be queried: the  *)
(* handle is closed, and "continue" goes to the next process.              *)
SkipProcess ==
  /\ pc = "query"
  /\ refused' = refused \cup {Head(pending)}
  /\ handles' = handles \ {Head(pending)}
  /\ pending' = Tail(pending) /\ pc' = "process"
  /\ UNCHANGED << listing, table, listed, kept, snap, blocks, size >>

ReportProcess ==
  /\ pc = "query" /\ Head(pending) \in handles
  /\ listed' = Append(listed, Head(pending))
  /\ handles' = handles \ {Head(pending)}
  /\ pending' = Tail(pending) /\ pc' = "process"
  /\ UNCHANGED << listing, table, kept, snap, blocks, size, refused >>

(* The snapshot is closed; the array of EnumProcesses is not deleted. *)
ProcessesEnd ==
  /\ pc = "process" /\ pending = << >>
  /\ Returned /\ snap' = FALSE /\ UNCHANGED << pending, handles, blocks >>

-----------------------------------------------------------------------------
Protocols == {"TCP", "UDP"}
Unset == 0   \* an empty string, which is before all others, or a port never assigned
Sized(p) == IF p = "TCP" THEN "size TCP" ELSE "size UDP"
Fetch(p) == IF p = "TCP" THEN "fetch TCP" ELSE "fetch UDP"
Rows(p) == IF p = "TCP" THEN "rows TCP" ELSE "rows UDP"
After(p) == IF p = "TCP" THEN "size UDP" ELSE "sort"

(* The table changes while no call looks at it. *)
TableChanges(t) ==
  /\ \E p \in Protocols : pc \in {Sized(p), Fetch(p)}
  /\ table' = t
  /\ UNCHANGED << pc, listing, pending, listed, handles, kept, snap, blocks, size, refused >>

(* GetExtendedTcpTable and GetExtendedUdpTable, asked for the size. *)
SizeTable(p) ==
  /\ pc = Sized(p)
  /\ \/ pc' = Fetch(p) /\ size' = Len(table) /\ blocks' = blocks \cup {"table"}
     \/ pc' = After(p) /\ UNCHANGED << size, blocks >>
  /\ UNCHANGED << listing, table, pending, listed, handles, kept, snap, refused >>

(* Mutant: what fits is taken. *)
FetchTableCut(p) ==
  /\ pc = Fetch(p)
  /\ pc' = Rows(p) /\ UNCHANGED << blocks, table >>
  /\ pending' = SubSeq(table, 1, IF Len(table) < size THEN Len(table) ELSE size)
  /\ UNCHANGED << listing, listed, handles, kept, snap, size, refused >>

(* The table is copied if the array still has room for it; otherwise, and  *)
(* after any other error, the function returns without a socket.           *)
FetchTable(p) ==
  /\ pc = Fetch(p)
  /\ \/ /\ Len(table) <= size
        /\ pc' = Rows(p) /\ pending' = table /\ UNCHANGED blocks
     \/ /\ pc' = After(p) /\ blocks' = blocks \ {"table"} /\ UNCHANGED pending
  /\ UNCHANGED << listing, table, listed, handles, kept, snap, size, refused >>

(* getProcessFromPID(): the two system processes are not opened. *)
Opens(s) == s.pid \notin SystemPids

(* The fields that are set: a UDP socket has no remote side. *)
Filled(p, s) ==
  IF p = "TCP" THEN s ELSE [s EXCEPT !.remote_addr = Unset, !.remote_port = Unset]

(* A socket and the process that owns it.  The handle of the process is    *)
(* never closed: each socket adds one to those of its process.             *)
ReportSocket(p) ==
  /\ pc = Rows(p) /\ pending # << >>
  /\ listed' = Append(listed, Filled(p, Head(pending))) /\ pending' = Tail(pending)
  /\ kept' \in {kept} \cup (IF Opens(Head(pending)) THEN {Append(kept, Head(pending).pid)} ELSE {})
  /\ UNCHANGED << pc, listing, table, handles, snap, blocks, size, refused >>

TableEnds(p) ==
  /\ pc = Rows(p) /\ pending = << >>
  /\ pc' = After(p) /\ blocks' = blocks \ {"table"}
  /\ UNCHANGED << listing, table, pending, listed, handles, kept, snap, size, refused >>

(* The comparison of std::sort in sockets(). *)
SocketLess(a, b) ==
  IF a.local_addr # b.local_addr THEN a.local_addr < b.local_addr
  ELSE IF a.local_port # b.local_port THEN a.local_port < b.local_port
  ELSE IF a.remote_addr # b.remote_addr THEN a.remote_addr < b.remote_addr
  ELSE IF a.remote_port # b.remote_port THEN a.remote_port < b.remote_port
  ELSE a.pid < b.pid

SortSockets ==
  /\ pc = "sort" /\ pc' = "done"
  /\ \E place \in [DOMAIN listed -> DOMAIN listed] :
       /\ \A i \in DOMAIN listed : \E j \in DOMAIN listed : place[j] = i
       /\ \A i, j \in DOMAIN listed : i < j => ~SocketLess(listed[place[j]], listed[place[i]])
       /\ listed' = [i \in DOMAIN listed |-> listed[place[i]]]
  /\ UNCHANGED << listing, table, pending, handles, kept, snap, blocks, size, refused >>

-----------------------------------------------------------------------------
GetFromEnum == EnumProcesses \/ EnumFails
GetFromSnapshot == CreateSnapshot \/ Process32First
ListProcess == OpenProcess \/ SkipProcess \/ ReportProcess \/ ProcessesEnd

snapshot ==
  \E p \in Protocols : SizeTable(p) \/ FetchTable(p) \/ ReportSocket(p) \/ TableEnds(p)

Next ==
  \/ pc = "none" /\ \E t \in ProcessLists : Start("enum", t) \/ Start("snapshot", t)
  \/ \E t \in Tables : Start("sockets", t) \/ TableChanges(t)
  \/ GetFromEnum \/ GetFromSnapshot \/ ListProcess \/ snapshot \/ SortSockets

Spec == Init /\ [][Next]_vars

-----------------------------------------------------------------------------
IsProcesses == listing \in {"enum", "snapshot"}

(* A process is missing from a listing only if one of its queries failed,  *)
(* or if it is beyond the first array of EnumProcesses; the others are     *)
(* listed in the order of their identifiers, the kernel's, each once.      *)
ProcessesListed ==
  pc = "process" /\ pending = << >> =>
    LET seen == IF listing = "enum" /\ Len(table) > Limit THEN 1..Limit ELSE 1..Len(table)
    IN  /\ {listed[i] : i \in 1..Len(listed)} = {table[i] : i \in seen} \ refused
        /\ \A i, j \in 1..Len(listed) : i < j => listed[i] < listed[j]

(* The listings of processes hold at most one process handle at a time and *)
(* close every handle.  The socket listing frees its arrays and keeps      *)
(* handles, at most one for every socket it lists, of the process that     *)
(* owns the socket, and none of a system process.                          *)
HandlesClosed ==
  /\ IsProcesses => \A a, b \in handles : a = b
  /\ pc = "done" => ~snap /\ handles = {}
  /\ pc = "done" /\ listing = "sockets" =>
       /\ blocks = {}
       /\ Len(kept) <= Len(listed)
       /\ \A i \in 1..Len(kept) :
            kept[i] \notin SystemPids /\ \E j \in 1..Len(listed) : listed[j].pid = kept[i]

(* While the sockets of one protocol are listed, the sockets added to the  *)
(* result are a prefix of the kernel's table as it was when it was         *)
(* fetched: a table that outgrew the array adds nothing.                   *)
TablesAreWhole ==
  \A p \in Protocols :
    pc = Rows(p) =>
      /\ IsSuffix(pending, table)
      /\ IsSuffix([i \in 1..(Len(table) - Len(pending)) |-> Filled(p, table[i])], listed)

=============================================================================
