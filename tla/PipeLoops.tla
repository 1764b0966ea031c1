----------------------------- MODULE PipeLoops -----------------------------
(***************************************************************************)
(* The loops that read bytes from a file or a named pipe: mode "f" of      *)
(* ioloop/main.cc and ioloop/poll.cc, and kqueue-fifos.cc, which reads a   *)
(* named pipe that another process writes and a pipe that its own thread   *)
(* writes.                                                                 *)
(*                                                                         *)
(* Data is a number of bytes.  libuv and the kernel are external.          *)
(***************************************************************************)
EXTENDS Integers, Sequences

CONSTANTS
  MaxBytes,     \* bound: bytes that are ever in the file or the named pipe
  ReadSize,     \* the bytes a read() asks for: 500
  MaxPipe,      \* bound: bytes the pipe holds before the thread blocks
  MaxTimeouts   \* the timeouts after which kqueue-fifos gives up: 50

VARIABLES
  prog,      \* "none", "uv_file", "poll_file" or "fifos"
  pc,        \* "none", "open", "loop", "end" or, by exit(0), "exit"
  regular,   \* is it a file, not a named pipe?
  fd,        \* was a descriptor obtained, and registered?
  avail,     \* bytes to read
  coming,    \* bytes that a writer may still write
  writer,    \* is the named pipe open for writing?
  eof,       \* has its last writer closed it?
  last,      \* what the last read() returned
  pipe,      \* bytes in the pipe of kqueue-fifos
  batch,     \* its events that are still to be handled
  count,     \* the timeouts it has counted
  fault      \* has an event said EV_ERROR?

vars ==
  << prog, pc, regular, fd, avail, coming, writer, eof, last, pipe, batch, count, fault >>

Init ==
  /\ prog = "none" /\ pc = "none" /\ regular = FALSE /\ fd = FALSE
  /\ avail = 0 /\ coming = 0 /\ writer = FALSE /\ eof = FALSE /\ last = 0
  /\ pipe = 0 /\ batch = << >> /\ count = 0 /\ fault = FALSE

(* A file has its bytes; a named pipe gets them from a writer. *)
Start(p, n, file) ==
  /\ pc = "none"
  /\ p = "fifos" => ~file
  /\ prog' = p /\ pc' = "open" /\ regular' = file
  /\ avail' = IF file THEN n ELSE 0
  /\ coming' = IF file THEN 0 ELSE n
  /\ UNCHANGED << fd, writer, eof, last, pipe, batch, count, fault >>

-----------------------------------------------------------------------------
(* main.cc, mode "f", and poll.cc *)

(* open() and uv_poll_init(), which epoll makes fail for a file: libuv's   *)
(* loop has no handle then and returns.  poll.cc checks nothing.           *)
OpenFile ==
  /\ pc = "open" /\ prog # "fifos"
  /\ fd' \in BOOLEAN
  /\ pc' = IF fd' \/ prog = "poll_file" THEN "loop" ELSE "end"
  /\ UNCHANGED << prog, regular, avail, coming, writer, eof, last, pipe, batch, count, fault >>

(* Is the callback of libuv run?  A file at its end is not reported. *)
Reported == avail > 0 \/ eof

(* read(): -1 without a descriptor, or from a named pipe that has a writer *)
(* and no data.                                                            *)
BytesRead ==
  IF ~fd \/ (avail = 0 /\ writer) THEN -1
  ELSE IF avail < ReadSize THEN avail ELSE ReadSize

(* The code tests for 1 where read() returns -1. *)
EndsAfter(bytes) == bytes \in {1, 0}

ReadFile ==
  /\ pc = "loop" /\ prog # "fifos"
  /\ prog = "uv_file" => Reported
  /\ last' = BytesRead
  /\ avail' = IF BytesRead > 0 THEN avail - BytesRead ELSE avail
  /\ pc' = IF EndsAfter(BytesRead) THEN "end" ELSE "loop"
  /\ UNCHANGED << prog, regular, fd, coming, writer, eof, pipe, batch, count, fault >>

(* poll() returns -1 in poll.cc. *)
PollFails ==
  /\ pc = "loop" /\ prog = "poll_file"
  /\ pc' = "exit"
  /\ UNCHANGED << prog, regular, fd, avail, coming, writer, eof, last, pipe, batch, count, fault >>

-----------------------------------------------------------------------------
(* kqueue-fifos.cc *)

(* mkfifo(), open() and pipe(): exit(-1) if one fails. *)
OpenFifos ==
  /\ pc = "open" /\ prog = "fifos"
  /\ fd' \in BOOLEAN
  /\ pc' = IF fd' THEN "loop" ELSE "end"
  /\ UNCHANGED << prog, regular, avail, coming, writer, eof, last, pipe, batch, count, fault >>

(* pipe_thread *)
WritePipe ==
  /\ pc = "loop" /\ prog = "fifos"
  /\ pipe + 4 <= MaxPipe
  /\ pipe' = pipe + 4
  /\ UNCHANGED << prog, pc, regular, fd, avail, coming, writer, eof, last, batch, count, fault >>

(* After its last writer the named pipe has an event with EV_EOF. *)
Ready ==
  {e \in {[ident |-> "pipe", eof |-> FALSE], [ident |-> "fifo", eof |-> eof]} :
     IF e.ident = "pipe" THEN pipe > 0 ELSE avail > 0 \/ eof}

InKevent == pc = "loop" /\ prog = "fifos" /\ batch = << >>

(* The kernel returns each event once, in any order. *)
KeventReturns ==
  /\ InKevent /\ Ready # {}
  /\ \E n \in 1..2 : \E b \in [1..n -> Ready] :
       /\ {b[i] : i \in 1..n} = Ready /\ \A i, j \in 1..n : b[i] = b[j] => i = j
       /\ batch' = b
  /\ UNCHANGED << prog, pc, regular, fd, avail, coming, writer, eof, last, pipe, count, fault >>

KeventTimesOut ==
  /\ InKevent /\ Ready = {}
  /\ count' = count + 1
  /\ pc' = IF count' = MaxTimeouts THEN "end" ELSE "loop"
  /\ UNCHANGED << prog, regular, fd, avail, coming, writer, eof, last, pipe, batch, fault >>

KeventFails ==
  /\ InKevent
  /\ pc' = "end"
  /\ UNCHANGED << prog, regular, fd, avail, coming, writer, eof, last, pipe, batch, count, fault >>

(* What read() leaves of n bytes when it asks for 10. *)
AfterRead(n) == IF n < 10 THEN 0 ELSE n - 10

(* Mutant: each of the two branches reads the descriptor of the other. *)
HandleEventSwapped ==
  /\ pc = "loop" /\ batch # << >>
  /\ LET event == Head(batch)
     IN /\ batch' = IF event.eof THEN << >> ELSE Tail(batch)
        /\ pipe' = IF ~event.eof /\ event.ident = "fifo" THEN AfterRead(pipe) ELSE pipe
        /\ avail' = IF ~event.eof /\ event.ident = "pipe" THEN AfterRead(avail) ELSE avail
  /\ UNCHANGED << prog, pc, regular, fd, coming, writer, eof, last, count, fault >>

(* The body of the for loop.  "break" leaves the events that follow. *)
HandleEvent ==
  /\ pc = "loop" /\ batch # << >>
  /\ LET event == Head(batch)
     IN /\ batch' = IF event.eof THEN << >> ELSE Tail(batch)
        /\ pipe' = IF ~event.eof /\ event.ident = "pipe" THEN AfterRead(pipe) ELSE pipe
        /\ avail' = IF ~event.eof /\ event.ident = "fifo" THEN AfterRead(avail) ELSE avail
  /\ UNCHANGED << prog, pc, regular, fd, coming, writer, eof, last, count, fault >>

(* The event says EV_ERROR: "break", too. *)
ErrorEvent ==
  /\ pc = "loop" /\ batch # << >>
  /\ batch' = << >>
  /\ fault' = TRUE
  /\ UNCHANGED << prog, pc, regular, fd, avail, coming, writer, eof, last, pipe, count >>

-----------------------------------------------------------------------------
(* The process at the other end of the named pipe, while that is open. *)

WriterOpens ==
  /\ pc = "loop" /\ fd /\ ~regular /\ ~writer /\ coming > 0
  /\ writer' = TRUE
  /\ eof' = FALSE
  /\ UNCHANGED << prog, pc, regular, fd, avail, coming, last, pipe, batch, count, fault >>

WriterWrites(n) ==
  /\ pc = "loop" /\ writer /\ n <= coming
  /\ avail' = avail + n /\ coming' = coming - n
  /\ UNCHANGED << prog, pc, regular, fd, writer, eof, last, pipe, batch, count, fault >>

WriterCloses ==
  /\ pc = "loop" /\ writer
  /\ writer' = FALSE
  /\ eof' = TRUE
  /\ UNCHANGED << prog, pc, regular, fd, avail, coming, last, pipe, batch, count, fault >>

Loop ==
  \/ OpenFile \/ ReadFile \/ OpenFifos
  \/ KeventReturns \/ KeventTimesOut \/ HandleEvent
Others ==
  \/ WritePipe \/ PollFails \/ KeventFails \/ ErrorEvent \/ WriterOpens \/ WriterCloses
  \/ \E n \in 1..MaxBytes : WriterWrites(n)

Next ==
  \/ \E p \in {"uv_file", "poll_file", "fifos"}, n \in 0..MaxBytes, file \in BOOLEAN :
       Start(p, n, file)
  \/ Loop \/ Others

(* A program that can go on does. *)
Fairness == WF_vars(Loop)

FairSpec == Init /\ [][Next]_vars /\ Fairness

-----------------------------------------------------------------------------
(* What the variables hold. *)
TypeOK ==
  /\ prog \in {"none", "uv_file", "poll_file", "fifos"}
  /\ pc \in {"none", "open", "loop", "end", "exit"}
  /\ regular \in BOOLEAN /\ fd \in BOOLEAN /\ writer \in BOOLEAN /\ eof \in BOOLEAN
  /\ avail \in 0..MaxBytes /\ coming \in 0..MaxBytes /\ last \in -1..ReadSize
  /\ pipe \in 0..MaxPipe /\ count \in 0..MaxTimeouts
  /\ Len(batch) <= 2 /\ fault \in BOOLEAN

(* A loop on a file or a named pipe that ran ends only when all was read   *)
(* and no writer is connected, or after a read() of one byte, which the    *)
(* code takes for an error; a read() that fails never ends it.             *)
LoopsReadToTheEnd ==
  pc = "end" /\ fd /\ prog # "fifos" => (avail = 0 /\ ~writer) \/ last = 1

(* Once nobody writes any more the loops come to an end: poll.cc always if *)
(* it has a descriptor, libuv's when it is told that the writer has gone.  *)
EndDue ==
  pc = "loop" /\ fd /\ ((prog = "poll_file" /\ ~writer) \/ (prog = "uv_file" /\ eof))
EndReached == pc \in {"end", "exit"} \/ writer
FilesEnd == EndDue ~> EndReached

(* What the thread writes is read, and the thread is not blocked for good, *)
(* as long as the named pipe is not left by its writers and no event is an *)
(* error: EV_EOF makes the for loop break, each time, before it gets to    *)
(* the pipe.                                                               *)
DataDue == prog = "fifos" /\ pipe > 0
DataTaken == prog = "fifos" /\ (pipe = 0 \/ eof \/ fault \/ pc = "end")
PipeIsRead == DataDue ~> DataTaken
=============================================================================
