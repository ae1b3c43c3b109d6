------------------------------ MODULE RingOpen ------------------------------
(***************************************************************************)
(* How the processes on the two ends of a ring come to share it: opening,  *)
(* creating and closing (camio_istream_ring.c and camio_ostream_ring.c),   *)
(* one action per system call or use of the memory that matters.           *)
(*                                                                         *)
(* The ring is a file, known by its name.  Whoever finds no file there     *)
(* creates one: it truncates, resizes, maps and zeroes it.  A writer that  *)
(* closes removes the name; processes that have the file mapped keep it.   *)
(* Nothing keeps two processes from opening at the same time.  Touching    *)
(* the memory of a file that is too short kills the process (SIGBUS), and  *)
(* any process may die at any point, which closes its files and leaves the *)
(* name; it may then be started again.  Writers come one after the other,  *)
(* as generations of one; of the records in a file the first slot tells    *)
(* apart which writer they are from.                                       *)
(***************************************************************************)
EXTENDS Integers, FiniteSets

CONSTANTS RingReaders, \* the reading processes
          RingWriter,  \* the writing one
          MaxFiles,    \* bound on the files created under the name
          MaxGen       \* bound on the generations of the writer

ASSUME RingOpenAssumption ==
  /\ RingWriter \notin RingReaders
  /\ MaxFiles \in Nat /\ MaxGen \in Nat \ {0}

VARIABLES
  name,    \* the file the name refers to, 0 if none
  files,   \* how many files have been created
  full,    \* full[f]: whether file f has the size of a ring
  first,   \* first[f]: generation that wrote its first slot, 0 if zeroed
  pc,      \* pc[p]: "start", "create", "resize", "zero", "open" or "killed"
  fd,      \* fd[p]: the file process p has open, 0 if none
  gen,     \* generation of the writer
  seen,    \* seen[r]: generation of the record reader r found in its ring
  closed,  \* history: the newest generation that has closed its ring
  before   \* history: before[r]: the value of closed when r opened

disk == <<name, files, full, first>>
open_vars == <<disk, pc, fd, gen, seen, closed, before>>

Processes == RingReaders \union {RingWriter}
Files == 1..MaxFiles

OpenTypeOK ==
  /\ name \in 0..files /\ files \in 0..MaxFiles
  /\ full \in [Files -> BOOLEAN]
  /\ first \in [Files -> 0..MaxGen]
  /\ pc \in [Processes -> {"start", "create", "resize", "zero", "open", "killed"}]
  /\ fd \in [Processes -> 0..files]
  /\ \A p \in Processes : pc[p] \in {"start", "create"} <=> fd[p] = 0
  /\ gen \in 1..MaxGen
  /\ seen \in [RingReaders -> 0..MaxGen]
  /\ closed \in 0..MaxGen
  /\ before \in [RingReaders -> 0..MaxGen]

OpenInit ==
  /\ name = 0 /\ files = 0
  /\ full = [f \in Files |-> FALSE]
  /\ first = [f \in Files |-> 0]
  /\ pc = [p \in Processes |-> "start"]
  /\ fd = [p \in Processes |-> 0]
  /\ gen = 1 /\ closed = 0
  /\ seen = [r \in RingReaders |-> 0]
  /\ before = [r \in RingReaders |-> 0]

Goes(p, where) == pc' = [pc EXCEPT ![p] = where]

(* The memory of p's file is there; otherwise p is killed.                 *)
Touch(p) == full[fd[p]]
Killed(p) == ~Touch(p) /\ Goes(p, "killed")

-----------------------------------------------------------------------------
(* open.                                                                   *)

(* open and mmap of a file that exists, whatever its size; or no file yet. *)
OpenExisting(p) ==
  /\ pc[p] = "start"
  /\ IF name # 0 THEN fd' = [fd EXCEPT ![p] = name] /\ Goes(p, "open")
                 ELSE fd' = fd /\ Goes(p, "create")
  /\ before' = [r \in RingReaders |-> IF r = p THEN closed ELSE before[r]]
  /\ UNCHANGED <<disk, gen, seen, closed>>

(* A mutant of Create: a new file takes the place of one that is there.    *)
CreateReplaces(p) ==
  /\ pc[p] = "create"
  /\ files < MaxFiles
  /\ files' = files + 1 /\ name' = files + 1
  /\ UNCHANGED <<full, first>>
  /\ fd' = [fd EXCEPT ![p] = name']
  /\ Goes(p, "resize")
  /\ UNCHANGED <<gen, seen, closed, before>>

(* open with O_CREAT | O_TRUNC: somebody else may have created it by now.  *)
Create(p) ==
  /\ pc[p] = "create"
  /\ \/ /\ name = 0 /\ files < MaxFiles
        /\ files' = files + 1 /\ name' = files + 1
        /\ UNCHANGED <<full, first>>
     \/ /\ name # 0
        /\ full' = [full EXCEPT ![name] = FALSE]
        /\ first' = [first EXCEPT ![name] = 0]
        /\ UNCHANGED <<name, files>>
  /\ fd' = [fd EXCEPT ![p] = name']
  /\ Goes(p, "resize")
  /\ UNCHANGED <<gen, seen, closed, before>>

(* lseek, a write of the last byte, and mmap.                              *)
Resize(p) ==
  /\ pc[p] = "resize"
  /\ full' = [full EXCEPT ![fd[p]] = TRUE]
  /\ Goes(p, "zero")
  /\ UNCHANGED <<name, files, first, fd, gen, seen, closed, before>>

(* memset.                                                                 *)
Zero(p) ==
  /\ pc[p] = "zero"
  /\ \/ Touch(p) /\ first' = [first EXCEPT ![fd[p]] = 0] /\ Goes(p, "open")
     \/ Killed(p) /\ UNCHANGED first
  /\ UNCHANGED <<name, files, full, fd, gen, seen, closed, before>>

-----------------------------------------------------------------------------
(* Using and closing the ring.                                             *)

(* end_write of the record in the first slot.                              *)
Publish ==
  /\ pc[RingWriter] = "open"
  /\ \/ Touch(RingWriter) /\ first' = [first EXCEPT ![fd[RingWriter]] = gen] /\ UNCHANGED pc
     \/ Killed(RingWriter) /\ UNCHANGED first
  /\ UNCHANGED <<name, files, full, fd, gen, seen, closed, before>>

(* prepare_next of the first record.                                       *)
Look(r) ==
  /\ pc[r] = "open" /\ seen[r] = 0
  /\ \/ Touch(r) /\ seen' = [seen EXCEPT ![r] = first[fd[r]]] /\ UNCHANGED pc
     \/ Killed(r) /\ UNCHANGED seen
  /\ UNCHANGED <<disk, fd, gen, closed, before>>

(* The writer unmaps the file and unlinks whatever has the name now; then  *)
(* another one is started.  The first is a mutant that leaves the name.    *)
WriterCloseKeepsName ==
  /\ pc[RingWriter] = "open" /\ gen < MaxGen
  /\ gen' = gen + 1 /\ closed' = gen
  /\ fd' = [fd EXCEPT ![RingWriter] = 0]
  /\ Goes(RingWriter, "start")
  /\ UNCHANGED <<disk, seen, before>>

WriterCloses ==
  /\ pc[RingWriter] = "open" /\ gen < MaxGen
  /\ name' = 0
  /\ gen' = gen + 1 /\ closed' = gen
  /\ fd' = [fd EXCEPT ![RingWriter] = 0]
  /\ Goes(RingWriter, "start")
  /\ UNCHANGED <<files, full, first, seen, before>>

(* A mutant of ReaderCloses: a reader that unlinks the file as well.       *)
ReaderCloseUnlinks(r) ==
  /\ pc[r] = "open"
  /\ name' = 0
  /\ fd' = [fd EXCEPT ![r] = 0]
  /\ seen' = [seen EXCEPT ![r] = 0]
  /\ Goes(r, "start")
  /\ UNCHANGED <<files, full, first, gen, closed, before>>

(* A reader only unmaps and closes the file; it may come back.             *)
ReaderCloses(r) ==
  /\ pc[r] = "open"
  /\ fd' = [fd EXCEPT ![r] = 0]
  /\ seen' = [seen EXCEPT ![r] = 0]
  /\ Goes(r, "start")
  /\ UNCHANGED <<disk, gen, closed, before>>

(* p dies, or has been killed, and is started again: nothing is unlinked.  *)
Dies(p) ==
  /\ pc[p] # "start"
  /\ IF p = RingWriter THEN gen < MaxGen /\ gen' = gen + 1 /\ seen' = seen
                   ELSE gen' = gen /\ seen' = [seen EXCEPT ![p] = 0]
  /\ fd' = [fd EXCEPT ![p] = 0]
  /\ Goes(p, "start")
  /\ UNCHANGED <<disk, closed, before>>

Open(p) == OpenExisting(p) \/ Create(p) \/ Resize(p) \/ Zero(p)

OpenNext ==
  \/ \E p \in Processes : Open(p) \/ Dies(p)
  \/ Publish \/ WriterCloses
  \/ \E r \in RingReaders : Look(r) \/ ReaderCloses(r)

OpenSpec == OpenInit /\ [][OpenNext]_open_vars

-----------------------------------------------------------------------------
(* "Delete the file so reader can't get confused": a reader never finds a  *)
(* record of a writer that had closed the ring when the reader opened it,  *)
(* nor of any writer before that one, whether that one closed or died: the *)
(* only old records a reader can find are those of writers that died since *)
(* the last one that closed.                                               *)
NotConfused == \A r \in RingReaders : seen[r] # 0 => seen[r] > before[r]

(* However the two sides race to create the file, and however often either *)
(* dies and is started again, a reader and the writer that are both there  *)
(* have the same file, unless a writer closed the ring since the reader    *)
(* began to open it.                                                       *)
SameRing ==
  \A r \in RingReaders :
    (pc[r] = "open" /\ pc[RingWriter] = "open" /\ before[r] = closed) =>
      fd[r] = fd[RingWriter]

(* Both rest on these facts.  The name is taken away by a closing writer   *)
(* only, and never given to another file while it is in use, so a file     *)
(* opened since the last close still has the name, and holds records of    *)
(* later writers only; and no file a reader has open holds a record of a   *)
(* writer from before.  Only a reader that is there has seen one.          *)
OpenInv ==
  /\ OpenTypeOK
  /\ closed < gen
  /\ \A r \in RingReaders : before[r] <= closed /\ (seen[r] # 0 => pc[r] = "open")
  /\ \A f \in Files : f > files => first[f] = 0
  /\ fd[RingWriter] # 0 => fd[RingWriter] = name
  /\ name # 0 /\ first[name] # 0 => first[name] > closed
  /\ \A r \in RingReaders : fd[r] # 0 =>
       /\ before[r] = closed => fd[r] = name
       /\ first[fd[r]] # 0 => first[fd[r]] > before[r]
  /\ NotConfused
=============================================================================
