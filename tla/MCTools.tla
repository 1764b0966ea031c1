------------------------------ MODULE MCTools -------------------------------
(***************************************************************************)
(* The parts of ConsoleApplication1 and pcap2vxlan, which do not interact: *)
(* each behaviour is that of one of them.                                  *)
(***************************************************************************)
EXTENDS Encapsulate

CONSTANTS MaxRecords, MaxCalls, Files, MaxRows, Limit, Pids, SystemPids,
          Directories, Flags, Limits, Tables

ASSUME RecordsAssumption == MaxRecords \in Nat
ASSUME ProcessesAssumption == Limit \in Nat /\ Pids \subseteq Nat

VARIABLES
  g_pc, g_args, g_rest, g_found, g_block, g_glob, g_result, g_handle, g_failed,
  w_pc, w_method, w_refs, w_wql, w_var, w_field, w_rows, w_out, w_leaked, w_failures,
  t_pc, t_listing, t_table, t_pending, t_listed, t_handles, t_kept,
  t_snap, t_blocks, t_size, t_refused,
  l_pc, l_records, l_position, l_last_record_read, l_seek, l_buffer, l_names, l_results, l_failed,
  l_dll_cache, l_loads

-----------------------------------------------------------------------------
Name(dir, dots, hidden) == [dir |-> dir, dots |-> dots, hidden |-> hidden]
File == Name(FALSE, FALSE, FALSE)
HiddenFile == Name(FALSE, FALSE, TRUE)
Folder == Name(TRUE, FALSE, FALSE)
Dots == Name(TRUE, TRUE, TRUE)

(* What a search names: nothing, "." and "..", and files of every kind. *)
SomeDirectories ==
  {<< >>, << File >>, << Dots >>, << HiddenFile, File >>, << File, HiddenFile, Folder >>,
   << Dots, Dots, Folder >>, << File, Folder, File >>}

SomeFlags ==
  {{}, {"PERIOD"}, {"PERIOD", "NODOTSDIRS"}, {"ONLYDIR"}, {"NOSORT"}, {"LIMIT"},
   {"LIMIT", "NOCHECK"}, {"NOMAGIC"}, {"TILDE"}, {"TILDE", "TILDE_CHECK", "NOCHECK"}}

Sock(la, lp, ra, rp, pid) ==
  [local_addr |-> la, local_port |-> lp, remote_addr |-> ra, remote_port |-> rp, pid |-> pid]

(* Socket tables in which each field decides an order. *)
SomeTables ==
  {<< >>, << Sock(1, 2, 1, 1, 4) >>, << Sock(2, 1, 1, 1, 5), Sock(1, 2, 1, 2, 5) >>,
   << Sock(1, 2, 1, 1, 6), Sock(1, 2, 1, 1, 5) >>, << Sock(1, 2, 2, 1, 6), Sock(1, 2, 1, 2, 5) >>}

Row(key, value) == [key |-> key, value |-> value, valid |-> TRUE]

(* As pcap2vxlan.conf: its port has the key XLAN_PORT. *)
Conf ==
  << Row("OUTER_SRC_MAC", "10"), Row("OUTER_DST_MAC", "20"), Row("OUTER_SRC_IP", << 49320, 65535 >>),
     Row("OUTER_DST_IP", << 2560, 65535 >>), Row("XLAN_PORT", 4789), Row("VXLAN_VNI", 100) >>

SomeConfs ==
  {Conf, Tail(Conf), Append(Conf, Row("VXLAN_PORT", 4789)),
   Append(Conf, [Row("OUTER_SRC_IP", << 0, 0 >>) EXCEPT !.valid = FALSE]), SubSeq(Conf, 1, 2)}

-----------------------------------------------------------------------------
G == INSTANCE Glob WITH
  pc <- g_pc, args <- g_args, rest <- g_rest, found <- g_found, block <- g_block, glob <- g_glob,
  result <- g_result, handle <- g_handle, failed <- g_failed

W == INSTANCE WmiManager WITH
  pc <- w_pc, method <- w_method, refs <- w_refs, wql <- w_wql, var <- w_var, field <- w_field,
  rows <- w_rows, out <- w_out, leaked <- w_leaked, failures <- w_failures

T == INSTANCE SystemTables WITH
  pc <- t_pc, listing <- t_listing, table <- t_table, pending <- t_pending, listed <- t_listed,
  handles <- t_handles, kept <- t_kept, snap <- t_snap, blocks <- t_blocks, size <- t_size,
  refused <- t_refused

L == INSTANCE EventLog WITH
  pc <- l_pc, records <- l_records, position <- l_position, last_record_read <- l_last_record_read,
  seek <- l_seek, buffer <- l_buffer, names <- l_names, results <- l_results, failed <- l_failed,
  dll_cache <- l_dll_cache, loads <- l_loads

(* A directory names files, a limit is a number, and the fields of a       *)
(* socket can be compared.                                                 *)
ASSUME ListingsAssumption ==
  /\ Limits \subseteq Nat
  /\ \A names \in Directories : names \in Seq(G!Names)
  /\ \A t \in Tables :
       t \in Seq([local_addr : Int, local_port : Int, remote_addr : Int, remote_port : Int,
                  pid : Int])

gvars == << g_pc, g_args, g_rest, g_found, g_block, g_glob, g_result, g_handle, g_failed >>
wvars == << w_pc, w_method, w_refs, w_wql, w_var, w_field, w_rows, w_out, w_leaked, w_failures >>
tvars == << t_pc, t_listing, t_table, t_pending, t_listed, t_handles, t_kept, t_snap, t_blocks,
            t_size, t_refused >>
lvars == << l_pc, l_records, l_position, l_last_record_read, l_seek, l_buffer, l_names, l_results,
            l_failed, l_dll_cache, l_loads >>

ToolsInit == EncapInit /\ G!Init /\ W!Init /\ T!Init /\ L!Init

Unused(pcs) == \A p \in pcs : p = "none"

ToolsNext ==
  \/ Unused({g_pc, w_pc, t_pc, l_pc}) /\ EncapNext /\ UNCHANGED << gvars, wvars, tvars, lvars >>
  \/ Unused({step, w_pc, t_pc, l_pc}) /\ G!Next /\ UNCHANGED << encapVars, wvars, tvars, lvars >>
  \/ Unused({step, g_pc, t_pc, l_pc}) /\ W!Next /\ UNCHANGED << encapVars, gvars, tvars, lvars >>
  \/ Unused({step, g_pc, w_pc, l_pc}) /\ T!Next /\ UNCHANGED << encapVars, gvars, wvars, lvars >>
  \/ Unused({step, g_pc, w_pc, t_pc}) /\ L!Next /\ UNCHANGED << encapVars, gvars, wvars, tvars >>

ToolsSpec ==
  /\ ToolsInit /\ [][ToolsNext]_<< encapVars, gvars, wvars, tvars, lvars >>
  /\ WF_lvars(L!Reads)

-----------------------------------------------------------------------------
(* Libraries, the buffer and the search of glob(), and COM objects are     *)
(* released once, except on the paths that the modules name.               *)
Released == L!LibrariesFreedOnce /\ G!FreedOnce /\ W!AllReleased

(* No dead COM pointer is used unless one of four calls failed. *)
DefinedUnlessFailed == W!DefinedUnlessFailed

(* No entry of a directory, row of a query, process or socket is missing   *)
(* without a reason that the modules name: glob() finds every entry, if it *)
(* keeps the first, or as many as its limit says.  The listings close      *)
(* their handles, but for those of the sockets.                            *)
ListingsComplete ==
  /\ G!FindsAll /\ G!LimitKept
  /\ W!RowsComplete
  /\ T!ProcessesListed /\ T!TablesAreWhole /\ T!HandlesClosed

(* GLOB_NOMATCH means that no entry of the directory passes the tests of   *)
(* glob(), as Glob.h says.  It does not hold.                              *)
NoMatchMeansNone == G!NoMatchMeansNone

(* The calls on the event log find the first record from DCOM, and lose    *)
(* none that is appended meanwhile.                                        *)
CallsFindFirst == L!CallsFindFirst

(* The first call on the event log returns. *)
FirstCallReturns == L!FirstCallReturns
=============================================================================
