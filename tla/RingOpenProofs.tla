--------------------------- MODULE RingOpenProofs ---------------------------
(***************************************************************************)
(* Proofs about the opening and closing of a ring, for any number of       *)
(* readers, files and generations of the writer.                           *)
(***************************************************************************)
EXTENDS RingOpen, TLAPS

(* Nothing is open and no file exists.                                     *)
LEMMA NothingOpenYet == OpenInit => OpenInv
<1> SUFFICES ASSUME OpenInit PROVE OpenInv
  OBVIOUS
<1> QED
  BY RingOpenAssumption DEF OpenInit, OpenInv, OpenTypeOK, NotConfused, Files, Processes

(* A process finds the file that has the name, or none.                    *)
LEMMA OpenExistingInv ==
  ASSUME OpenInv, NEW p \in Processes, OpenExisting(p)
  PROVE  OpenInv'
<1> USE RingOpenAssumption DEF OpenInv
<1>1. OpenTypeOK'
  BY DEF OpenTypeOK, OpenExisting, Goes, disk, Processes
<1>2. \A r \in RingReaders : before'[r] <= closed' /\ (seen'[r] # 0 => pc'[r] = "open")
  BY DEF OpenTypeOK, OpenExisting, Goes, Processes
<1>3. fd'[RingWriter] # 0 => fd'[RingWriter] = name'
  BY DEF OpenTypeOK, OpenExisting, disk, Processes
<1>4. ASSUME NEW r \in RingReaders, fd'[r] # 0
      PROVE  /\ before'[r] = closed' => fd'[r] = name'
             /\ first'[fd'[r]] # 0 => first'[fd'[r]] > before'[r]
  <2>1. CASE r = p
    <3>1. name # 0 /\ fd'[r] = name
      BY <1>4, <2>1 DEF OpenTypeOK, OpenExisting
    <3> QED
      BY <2>1, <3>1 DEF OpenTypeOK, OpenExisting, disk
  <2>2. CASE r # p
    BY <1>4, <2>2 DEF OpenTypeOK, OpenExisting, disk, Processes
  <2> QED
    BY <2>1, <2>2
<1>5. NotConfused'
  <2> SUFFICES ASSUME NEW r \in RingReaders, seen'[r] # 0 PROVE seen'[r] > before'[r]
    BY DEF NotConfused
  <2>1. CASE r = p
    BY <2>1 DEF OpenExisting, OpenTypeOK, NotConfused
  <2>2. CASE r # p
    BY <2>2 DEF OpenExisting, NotConfused
  <2> QED
    BY <2>1, <2>2
<1> QED
  BY <1>1, <1>2, <1>3, <1>4, <1>5 DEF OpenExisting, disk

(* The file a process creates or truncates holds no record.                *)
LEMMA CreateInv ==
  ASSUME OpenInv, NEW p \in Processes, Create(p)
  PROVE  OpenInv'
<1> USE RingOpenAssumption DEF OpenInv
<1>1. /\ name' # 0 /\ name' \in Files /\ first'[name'] = 0
      /\ name # 0 => name' = name
      /\ files' >= files /\ files' \in 0..MaxFiles /\ name' <= files'
      /\ \A f \in Files : first'[f] \in {0, first[f]}
      /\ full' \in [Files -> BOOLEAN] /\ first' \in [Files -> 0..MaxGen]
  <2>1. CASE name = 0
    <3>1. /\ files < MaxFiles /\ files' = files + 1 /\ name' = files + 1
          /\ full' = full /\ first' = first
      BY <2>1 DEF Create
    <3>2. files + 1 \in Files /\ files \in Nat
      BY <3>1 DEF OpenTypeOK, Files
    <3> QED
      BY <2>1, <3>1, <3>2 DEF OpenTypeOK
  <2>2. CASE name # 0
    <3>1. /\ name \in Files /\ name' = name /\ files' = files
          /\ full' = [full EXCEPT ![name] = FALSE]
          /\ first' = [first EXCEPT ![name] = 0]
      BY <2>2 DEF OpenTypeOK, Create, Files
    <3> QED
      BY <2>2, <3>1 DEF OpenTypeOK
  <2> QED
    BY <2>1, <2>2
<1>2. /\ pc[p] = "create" /\ fd[p] = 0
      /\ fd' = [fd EXCEPT ![p] = name']
      /\ pc' = [pc EXCEPT ![p] = "resize"]
      /\ UNCHANGED <<gen, seen, closed, before>>
  BY DEF OpenTypeOK, Create, Goes
<1>3. OpenTypeOK'
  <2>1. name' \in 0..files' /\ fd' \in [Processes -> 0..files']
    BY <1>1, <1>2 DEF OpenTypeOK, Files
  <2>2. /\ pc' \in [Processes -> {"start", "create", "resize", "zero", "open", "killed"}]
        /\ \A q \in Processes : pc'[q] \in {"start", "create"} <=> fd'[q] = 0
    BY <1>1, <1>2 DEF OpenTypeOK
  <2> QED
    BY <1>1, <1>2, <2>1, <2>2 DEF OpenTypeOK
<1>4. \A r \in RingReaders : before'[r] <= closed' /\ (seen'[r] # 0 => pc'[r] = "open")
  BY <1>2 DEF OpenTypeOK, Processes
<1>5. ASSUME NEW f \in Files, f > files' PROVE first'[f] = 0
  <2>1. f \in Int /\ files \in Int /\ files' \in Int
    BY <1>1 DEF Files, OpenTypeOK
  <2>2. f > files
    BY <1>1, <1>5, <2>1
  <2> QED
    BY <1>1, <2>2
<1>6. fd'[RingWriter] # 0 => fd'[RingWriter] = name'
  BY <1>1, <1>2 DEF OpenTypeOK, Processes
<1>7. ASSUME NEW r \in RingReaders, fd'[r] # 0
      PROVE  /\ before'[r] = closed' => fd'[r] = name'
             /\ first'[fd'[r]] # 0 => first'[fd'[r]] > before'[r]
  <2>1. CASE r = p
    BY <1>1, <1>2, <2>1 DEF OpenTypeOK, Processes
  <2>2. CASE r # p
    <3>1. fd'[r] = fd[r] /\ fd[r] \in Files /\ fd[r] # 0
      BY <1>2, <1>7, <2>2 DEF OpenTypeOK, Processes, Files
    <3>2. before[r] = closed => fd[r] = name
      BY <3>1
    <3> QED
      BY <1>1, <1>2, <3>1, <3>2
  <2> QED
    BY <2>1, <2>2
<1>8. NotConfused'
  BY <1>2 DEF NotConfused
<1> QED
  BY <1>1, <1>2, <1>3, <1>4, <1>5, <1>6, <1>7, <1>8

(* Resizing changes the size of a file only, and zeroing takes records     *)
(* away.                                                                   *)
LEMMA ResizeZeroInv ==
  ASSUME OpenInv, NEW p \in Processes, Resize(p) \/ Zero(p)
  PROVE  OpenInv'
<1> USE RingOpenAssumption DEF OpenInv
<1>1. /\ fd[p] # 0 /\ fd[p] \in Files
      /\ pc[p] \in {"resize", "zero"}
      /\ \E w \in {"zero", "open", "killed"} : pc' = [pc EXCEPT ![p] = w]
      /\ UNCHANGED <<name, files, fd, gen, seen, closed, before>>
      /\ full' \in [Files -> BOOLEAN] /\ first' \in [Files -> 0..MaxGen]
      /\ \A f \in Files : first'[f] \in {0, first[f]}
  <2>1. pc[p] \in {"resize", "zero"} /\ fd[p] # 0 /\ fd[p] \in Files
    <3>1. pc[p] \in {"resize", "zero"}
      BY DEF Resize, Zero
    <3>2. fd[p] \in 0..files /\ fd[p] # 0 /\ files \in 0..MaxFiles
      BY <3>1 DEF OpenTypeOK
    <3> QED
      BY <3>1, <3>2 DEF Files
  <2>2. CASE Resize(p)
    BY <2>1, <2>2 DEF OpenTypeOK, Resize, Goes
  <2>3. CASE Zero(p)
    BY <2>1, <2>3 DEF OpenTypeOK, Zero, Goes, Killed
  <2> QED
    BY <2>1, <2>2, <2>3
<1>2. OpenTypeOK'
  BY <1>1 DEF OpenTypeOK
<1>3. \A r \in RingReaders : seen'[r] # 0 => pc'[r] = "open"
  BY <1>1 DEF OpenTypeOK, Processes
<1>4. \A r \in RingReaders : fd[r] # 0 => fd[r] \in Files
  BY DEF OpenTypeOK, Processes, Files
<1>5. name # 0 => name \in Files
  BY DEF OpenTypeOK, Files
<1> QED
  BY <1>1, <1>2, <1>3, <1>4, <1>5 DEF NotConfused

(* The writer writes to the file that has the name.                        *)
LEMMA PublishInv ==
  ASSUME OpenInv, Publish
  PROVE  OpenInv'
<1> USE RingOpenAssumption DEF OpenInv
<1>1. /\ fd[RingWriter] # 0 /\ fd[RingWriter] = name /\ name \in Files /\ name <= files
      /\ pc' \in {pc, [pc EXCEPT ![RingWriter] = "killed"]}
      /\ UNCHANGED <<name, files, full, fd, gen, seen, closed, before>>
      /\ first' \in {first, [first EXCEPT ![name] = gen]}
      /\ pc[RingWriter] = "open" /\ gen \in 1..MaxGen
  BY DEF OpenTypeOK, Publish, Goes, Killed, Touch, Files, Processes
<1>2. OpenTypeOK'
  BY <1>1 DEF OpenTypeOK, Processes
<1>3. \A r \in RingReaders : seen'[r] # 0 => pc'[r] = "open"
  BY <1>1 DEF OpenTypeOK, Processes
<1>4. \A f \in Files : f > files' => first'[f] = 0
  BY <1>1 DEF OpenTypeOK, Files
<1>5. first'[name] # 0 => first'[name] > closed
  BY <1>1 DEF OpenTypeOK
<1>6. ASSUME NEW r \in RingReaders, fd'[r] # 0, first'[fd'[r]] # 0
      PROVE  first'[fd'[r]] > before'[r]
  <2>1. fd[r] \in Files /\ before[r] <= closed /\ closed < gen /\ closed \in Nat /\ before[r] \in Nat /\ gen \in Nat
    BY <1>1, <1>6 DEF OpenTypeOK, Processes, Files
  <2>2. first'[fd[r]] \in {first[fd[r]], gen}
    BY <1>1, <2>1 DEF OpenTypeOK
  <2> QED
    BY <1>1, <1>6, <2>1, <2>2
<1> QED
  BY <1>1, <1>2, <1>3, <1>4, <1>5, <1>6 DEF NotConfused

(* A reader finds a record of a writer that closed after it opened, if at  *)
(* all.                                                                    *)
LEMMA ReaderInv ==
  ASSUME OpenInv, NEW r \in RingReaders, Look(r) \/ ReaderCloses(r)
  PROVE  OpenInv'
<1> USE RingOpenAssumption DEF OpenInv
<1>1. r \in Processes /\ r # RingWriter /\ pc[r] = "open" /\ fd[r] \in Files
  BY DEF OpenTypeOK, Look, ReaderCloses, Processes, Files
<1>2. UNCHANGED <<disk, gen, closed, before>>
  BY DEF Look, ReaderCloses
<1>3. CASE Look(r)
  <2>1. fd' = fd /\ pc' \in {pc, [pc EXCEPT ![r] = "killed"]}
    BY <1>3 DEF Look, Goes, Killed, disk
  <2>2. \/ seen' = [seen EXCEPT ![r] = first[fd[r]]] /\ pc' = pc
        \/ seen' = seen /\ seen[r] = 0
    BY <1>3 DEF Look, Killed
  <2>3. OpenTypeOK'
    BY <1>1, <1>2, <2>1, <2>2 DEF OpenTypeOK, disk
  <2>4. \A q \in RingReaders : seen'[q] # 0 => pc'[q] = "open"
    BY <1>1, <2>1, <2>2 DEF OpenTypeOK, Processes
  <2>5. NotConfused'
    BY <1>1, <1>2, <2>2 DEF NotConfused, OpenTypeOK
  <2> QED
    BY <1>2, <2>1, <2>3, <2>4, <2>5 DEF disk
<1>4. CASE ReaderCloses(r)
  <2>1. /\ fd' = [fd EXCEPT ![r] = 0]
        /\ pc' = [pc EXCEPT ![r] = "start"]
        /\ seen' = [seen EXCEPT ![r] = 0]
    BY <1>4 DEF ReaderCloses, Goes
  <2>2. OpenTypeOK'
    BY <1>1, <1>2, <2>1 DEF OpenTypeOK, disk
  <2>3. \A q \in RingReaders : seen'[q] # 0 => pc'[q] = "open"
    BY <1>1, <2>1 DEF OpenTypeOK, Processes
  <2>4. NotConfused'
    BY <1>2, <2>1 DEF NotConfused, OpenTypeOK
  <2>5. fd'[RingWriter] = fd[RingWriter] /\ \A q \in RingReaders : fd'[q] # 0 => fd'[q] = fd[q]
    BY <1>1, <2>1 DEF OpenTypeOK, Processes
  <2> QED
    BY <1>2, <2>2, <2>3, <2>4, <2>5 DEF disk
<1> QED
  BY <1>3, <1>4

(* The name goes; what readers have open is from writers up to this one.   *)
LEMMA WriterCloseInv ==
  ASSUME OpenInv, WriterCloses
  PROVE  OpenInv'
<1> USE RingOpenAssumption DEF OpenInv
<1>1. /\ gen' = gen + 1 /\ gen \in 1..MaxGen /\ gen' \in 1..MaxGen
      /\ name' = 0
      /\ fd' = [fd EXCEPT ![RingWriter] = 0]
      /\ pc' = [pc EXCEPT ![RingWriter] = "start"]
      /\ closed' = gen
      /\ UNCHANGED <<files, full, first, seen, before>>
  BY DEF OpenTypeOK, WriterCloses, Goes
<1>2. OpenTypeOK'
  BY <1>1 DEF OpenTypeOK, Processes
<1>3. \A r \in RingReaders : /\ before'[r] <= closed' /\ before'[r] # closed'
                         /\ fd'[r] = fd[r] /\ pc'[r] = pc[r]
  BY <1>1 DEF OpenTypeOK, Processes
<1>4. fd'[RingWriter] = 0
  BY <1>1 DEF OpenTypeOK, Processes
<1> QED
  BY <1>1, <1>2, <1>3, <1>4 DEF NotConfused

(* A process that dies leaves the file and its name as they are.           *)
LEMMA DiesInv ==
  ASSUME OpenInv, NEW p \in Processes, Dies(p)
  PROVE  OpenInv'
<1> USE RingOpenAssumption DEF OpenInv
<1>1. /\ fd' = [fd EXCEPT ![p] = 0]
      /\ pc' = [pc EXCEPT ![p] = "start"]
      /\ UNCHANGED <<name, files, full, first, closed, before>>
      /\ gen' \in {gen, gen + 1} /\ gen \in 1..MaxGen /\ gen' \in 1..MaxGen
  BY DEF OpenTypeOK, Dies, Goes, disk
<1>2. /\ seen' \in [RingReaders -> 0..MaxGen]
      /\ \A r \in RingReaders : seen'[r] # 0 => seen'[r] = seen[r] /\ r # p
  BY DEF OpenTypeOK, Dies
<1>3. OpenTypeOK'
  BY <1>1, <1>2 DEF OpenTypeOK
<1>4. closed' < gen'
  BY <1>1 DEF OpenTypeOK
<1>5. \A r \in RingReaders : seen'[r] # 0 => pc'[r] = "open"
  BY <1>1, <1>2 DEF OpenTypeOK, Processes
<1>6. \A q \in Processes : fd'[q] # 0 => fd'[q] = fd[q]
  BY <1>1 DEF OpenTypeOK
<1>7. NotConfused'
  BY <1>1, <1>2 DEF NotConfused
<1> QED
  BY <1>1, <1>3, <1>4, <1>5, <1>6, <1>7 DEF Processes

(* The invariant, for every number of readers, files and writers.          *)
THEOREM OpenInvariant == OpenSpec => []OpenInv
<1>1. OpenInv /\ [OpenNext]_open_vars => OpenInv'
  <2> SUFFICES ASSUME OpenInv, [OpenNext]_open_vars PROVE OpenInv'
    OBVIOUS
  <2>1. CASE OpenNext
    BY <2>1, OpenExistingInv, CreateInv, ResizeZeroInv, PublishInv, ReaderInv,
       WriterCloseInv, DiesInv DEF OpenNext, Open
  <2>2. CASE UNCHANGED open_vars
    BY <2>2 DEF open_vars, disk, OpenInv, OpenTypeOK, NotConfused
  <2> QED
    BY <2>1, <2>2
<1> QED
  BY <1>1, NothingOpenYet, PTL DEF OpenSpec

(* camio_ostream_ring.c, "Delete the file so reader can't get confused": a *)
(* reader finds no record of a writer that closed before it opened.        *)
THEOREM ReadersNotConfused == OpenSpec => []NotConfused
<1>1. OpenInv => NotConfused
  BY DEF OpenInv
<1> QED
  BY <1>1, OpenInvariant, PTL

(* Racing to open, create and truncate never leaves the two ends of a ring *)
(* with different files.                                                   *)
THEOREM EndsShareRing == OpenSpec => []SameRing
<1>1. OpenInv => SameRing
  BY DEF OpenInv, SameRing, OpenTypeOK, Processes
<1> QED
  BY <1>1, OpenInvariant, PTL
=============================================================================
