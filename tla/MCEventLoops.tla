---------------------------- MODULE MCEventLoops ----------------------------
(***************************************************************************)
(* The programs that wait for events: the lookups of c-ares, the loops on  *)
(* libpcap and those on pipes.  Each behaviour is that of one program.     *)
(***************************************************************************)
EXTENDS AresLookup

CONSTANTS MaxPackets, ReadAhead, MaxTimeouts, MaxBytes, ReadSize, MaxPipe

(* A read() asks for something, and a loop that counts timeouts allows one. *)
ASSUME LoopAssumption ==
  /\ {MaxPackets, MaxBytes, MaxPipe} \subseteq Nat
  /\ {ReadAhead, ReadSize, MaxTimeouts} \subseteq Nat \ {0}

VARIABLES
  c_prog, c_pc, c_backend, c_left, c_ahead, c_intact, c_fd, c_fault, c_count, c_expected,
  p_prog, p_pc, p_regular, p_fd, p_avail, p_coming, p_writer, p_eof, p_last, p_pipe,
  p_batch, p_count, p_fault

Captures == INSTANCE CaptureLoops WITH
  prog <- c_prog, pc <- c_pc, backend <- c_backend, left <- c_left, ahead <- c_ahead,
  intact <- c_intact, fd <- c_fd, fault <- c_fault, count <- c_count, expected <- c_expected

Pipes == INSTANCE PipeLoops WITH
  prog <- p_prog, pc <- p_pc, regular <- p_regular, fd <- p_fd, avail <- p_avail,
  coming <- p_coming, writer <- p_writer, eof <- p_eof, last <- p_last, pipe <- p_pipe,
  batch <- p_batch, count <- p_count, fault <- p_fault

captureVars ==
  << c_prog, c_pc, c_backend, c_left, c_ahead, c_intact, c_fd, c_fault, c_count, c_expected >>
pipeVars ==
  << p_prog, p_pc, p_regular, p_fd, p_avail, p_coming, p_writer, p_eof, p_last, p_pipe,
     p_batch, p_count, p_fault >>

MCInit == Init /\ Captures!Init /\ Pipes!Init

MCNext ==
  \/ c_pc = "none" /\ p_pc = "none" /\ Next /\ UNCHANGED << captureVars, pipeVars >>
  \/ pc = "none" /\ p_pc = "none" /\ Captures!Next /\ UNCHANGED << vars, pipeVars >>
  \/ pc = "none" /\ c_pc = "none" /\ Pipes!Next /\ UNCHANGED << vars, captureVars >>

MCSpec ==
  /\ MCInit /\ [][MCNext]_<< vars, captureVars, pipeVars >>
  /\ Fairness /\ Captures!Fairness /\ Pipes!Fairness

-----------------------------------------------------------------------------
(* The variables of the three modules have their types. *)
TypesOK == TypeOK /\ Captures!TypeOK /\ Pipes!TypeOK

(* A loop over a capture file, a file or a named pipe ends at the end of   *)
(* what there is to read.                                                  *)
LoopsReadToTheEnd == Captures!LoopsReadToTheEnd /\ Pipes!LoopsReadToTheEnd

(* ReturnsOrParks, CapturesEnd and FilesEnd in one, as only one program    *)
(* runs: each loop that should come to an end does.                        *)
LoopsEnd ==
  (EndDue \/ Captures!EndDue \/ Pipes!EndDue)
    ~> (EndReached \/ Captures!EndReached \/ Pipes!EndReached)

(* PacketsAreFetched and PipeIsRead: what is queued for an interface is    *)
(* fetched, and what the thread of kqueue-fifos writes is read.            *)
DataIsRead ==
  (Captures!DataDue \/ Pipes!DataDue) ~> (Captures!DataTaken \/ Pipes!DataTaken)
=============================================================================
