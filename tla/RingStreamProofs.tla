-------------------------- MODULE RingStreamProofs --------------------------
(***************************************************************************)
(* Proofs about the ring streams, for every number of slots, slot size,    *)
(* set of readers and set of record lengths.  RingInv is inductive: one    *)
(* lemma per action shows that it is preserved, with one step per conjunct. *)
(* The stamps are described by Newest and Due, relative to the writer's    *)
(* index, so that no leaf needs arithmetic modulo N except NextSlot.       *)
(***************************************************************************)
EXTENDS RingStream, TLAPS

(* The index of the next slot, without the remainder.                      *)
LEMMA NextSlot ==
  ASSUME NEW i \in Slots
  PROVE  /\ (i + 1) % N = IF i + 1 = N THEN 0 ELSE i + 1
         /\ (i + 1) % N \in Slots
<1>1. N \in Nat \ {0} /\ i \in Nat /\ i + 1 <= N
  BY RingAssumption DEF Slots
<1>2. CASE i + 1 = N
  <2>1. N % N = 0
    BY <1>1
  <2> QED BY <1>1, <1>2, <2>1 DEF Slots
<1>3. CASE i + 1 < N
  <2>1. (i + 1) % N = i + 1
    BY <1>1, <1>3
  <2> QED BY <1>1, <1>3, <2>1 DEF Slots
<1> QED BY <1>1, <1>2, <1>3

(* The types of the numbers the arithmetic below is about.                 *)
LEMMA ReaderTypes ==
  ASSUME TypeOK, NEW r \in Readers
  PROVE  /\ N \in Nat \ {0} /\ windex \in 0..(N - 1) /\ windex \in Slots
         /\ sync_count \in Nat /\ sync_count \in 0..MaxSync
         /\ rindex[r] \in 0..(N - 1) /\ rindex[r] \in Slots
         /\ sync_counter[r] \in Nat \ {0} /\ sync_counter[r] \in 1..(MaxSync + 1)
         /\ last[r] \in Nat
<1>1. /\ N \in Nat \ {0} /\ windex \in Slots /\ sync_count \in 0..MaxSync
  BY RingAssumption DEF TypeOK
<1>2. rindex[r] \in Slots
  BY DEF TypeOK
<1>3. sync_counter[r] \in 1..(MaxSync + 1) /\ last[r] \in 0..MaxSync
  BY DEF TypeOK
<1> QED
  BY <1>1, <1>2, <1>3, RingAssumption DEF Slots

(* A stamp is that of a committed record, one of the last N.               *)
LEMMA StampBounds ==
  ASSUME TypeOK, StampsConsistent, NEW i \in Slots
  PROVE  /\ sync[i] \in 0..sync_count
         /\ sync[i] # 0 => sync_count < sync[i] + N
<1>1. /\ N \in Nat \ {0} /\ i \in 0..(N - 1) /\ windex \in 0..(N - 1)
      /\ sync_count \in Nat
  BY RingAssumption DEF TypeOK, Slots
<1>2. /\ LapStart = 0 \/ LapStart >= N
      /\ sync[i] = Newest(i)
  BY DEF StampsConsistent
<1> QED
  BY <1>1, <1>2 DEF Newest, LapStart

(* A reader that finds a larger stamp than expected is a whole lap or more *)
(* behind: stamps of one slot are N apart.                                 *)
LEMMA OverrunIsALap ==
  ASSUME TypeOK, StampsConsistent, ReaderInStep, NEW r \in Readers,
         sync_counter[r] < sync[rindex[r]]
  PROVE  sync_counter[r] + N <= sync[rindex[r]]
<1>1. /\ N \in Nat \ {0} /\ windex \in 0..(N - 1) /\ sync_count \in Nat
      /\ rindex[r] \in 0..(N - 1) /\ rindex[r] \in Slots /\ sync_counter[r] \in Nat
  BY RingAssumption DEF TypeOK, Slots
<1>2. sync[rindex[r]] = Newest(rindex[r]) /\ (LapStart = 0 \/ LapStart >= N)
  BY <1>1 DEF StampsConsistent
<1>3. Newest(rindex[r]) < Due(rindex[r])
  BY <1>1, <1>2 DEF Newest, Due, LapStart
<1>4. Newest(rindex[r]) \in Int /\ Due(rindex[r]) \in Int
  BY <1>1 DEF Newest, Due, LapStart
<1> QED
  BY <1>1, <1>2, <1>3, <1>4 DEF ReaderInStep

(* The zeroed ring and the freshly constructed streams satisfy the         *)
(* invariant.                                                              *)
LEMMA InitInv == Init => RingInv
<1> SUFFICES ASSUME Init PROVE RingInv
  OBVIOUS
<1> USE RingAssumption DEF Init
<1>1. TypeOK
  BY DEF TypeOK, Slots, Words, Records, WriterStates, ReaderStates, Blank, Unread
<1>2. StampsConsistent
  BY DEF StampsConsistent, Newest, LapStart, Slots
<1>3. WriteProgress
  BY DEF WriteProgress
<1>4. SettledSlots
  BY DEF SettledSlots
<1>5. ReaderInStep
  BY DEF ReaderInStep, Newest, Due, LapStart, Slots
<1>6. ReaderProgress
  BY DEF ReaderProgress
<1>7. IntactUnlessOverwriting
  BY DEF IntactUnlessOverwriting
<1> QED
  BY <1>1, <1>2, <1>3, <1>4, <1>5, <1>6, <1>7 DEF RingInv

(* start_write changes only where the writer is.                           *)
LEMMA StartWriteInv ==
  ASSUME RingInv, NEW l \in Lengths, StartWrite(l)
  PROVE  RingInv'
<1> USE RingAssumption DEF RingInv
<1>1. TypeOK'
  <2>1. wlen' \in 0..(W + 1) /\ todo' \subseteq 1..(W + 1)
    BY DEF StartWrite
  <2> QED
    BY <2>1 DEF StartWrite, TypeOK, WriterStates, ringVars, readerVars
<1>2. StampsConsistent'
  BY DEF StartWrite, StampsConsistent, Newest, LapStart, ringVars, readerVars, writerVars
<1>3. WriteProgress'
  <2>1. \A w \in Words : ~(w <= wlen' /\ w \notin todo')
    BY DEF StartWrite, Words
  <2>2. wstate' = "filling" /\ sync_count' < MaxSync
    BY DEF StartWrite, ringVars, readerVars
  <2> QED
    BY <2>1, <2>2 DEF StartWrite, WriteProgress
<1>4. SettledSlots'
  BY DEF StartWrite, SettledSlots, Overwriting, ringVars, readerVars, writerVars
<1>5. ReaderInStep'
  BY DEF StartWrite, ReaderInStep, Newest, Due, LapStart, ringVars, readerVars, writerVars
<1>6. ReaderProgress'
  BY DEF StartWrite, ReaderProgress, ringVars, readerVars, writerVars
<1>7. IntactUnlessOverwriting'
  BY DEF StartWrite, IntactUnlessOverwriting, Overwriting, ringVars, readerVars, writerVars
<1> QED
  BY <1>1, <1>2, <1>3, <1>4, <1>5, <1>6, <1>7

(* assign_write changes only where the writer is.                          *)
LEMMA AssignWriteInv ==
  ASSUME RingInv, NEW l \in Lengths, AssignWrite(l)
  PROVE  RingInv'
<1> USE RingAssumption DEF RingInv
<1>1. TypeOK'
  BY DEF AssignWrite, TypeOK, Slots, Words, Records, WriterStates, ReaderStates, ringVars,
     readerVars, writerVars
<1>2. StampsConsistent'
  BY DEF AssignWrite, StampsConsistent, Newest, LapStart, ringVars, readerVars, writerVars
<1>3. WriteProgress'
  BY DEF AssignWrite, WriteProgress, ringVars, readerVars, writerVars
<1>4. SettledSlots'
  BY DEF AssignWrite, SettledSlots, Overwriting, ringVars, readerVars, writerVars
<1>5. ReaderInStep'
  BY DEF AssignWrite, ReaderInStep, Newest, Due, LapStart, ringVars, readerVars, writerVars
<1>6. ReaderProgress'
  BY DEF AssignWrite, ReaderProgress, ringVars, readerVars, writerVars
<1>7. IntactUnlessOverwriting'
  BY DEF AssignWrite, IntactUnlessOverwriting, Overwriting, ringVars, readerVars, writerVars
<1> QED
  BY <1>1, <1>2, <1>3, <1>4, <1>5, <1>6, <1>7

(* Storing a word touches only the slot being overwritten, about which the *)
(* invariant claims nothing but progress.                                  *)
LEMMA StoreWordInv ==
  ASSUME RingInv, NEW w \in 1..(W + 1), StoreWord(w)
  PROVE  RingInv'
<1> USE RingAssumption DEF RingInv
<1>1. TypeOK'
  <2>1. todo' \subseteq 1..(W + 1)
    BY DEF StoreWord, TypeOK
  <2>2. sync_count + 1 \in 0..MaxSync
    BY DEF StoreWord, TypeOK, WriteProgress
  <2>3. data' \in [Slots -> [Words -> 0..MaxSync]]
    <3>1. CASE UNCHANGED data
      BY <3>1 DEF StoreWord, TypeOK
    <3>2. CASE w \in Words /\ data' = [data EXCEPT ![windex][w] = sync_count + 1]
      <4>1. [data[windex] EXCEPT ![w] = sync_count + 1] \in [Words -> 0..MaxSync]
        BY <2>2, <3>2 DEF StoreWord, TypeOK
      <4> QED
        BY <3>2, <4>1 DEF StoreWord, TypeOK
    <3> QED
      BY <3>1, <3>2 DEF StoreWord
  <2>4. len' \in [Slots -> 0..(W + 1)]
    BY DEF StoreWord, TypeOK
  <2> QED
    BY <2>1, <2>3, <2>4 DEF StoreWord, TypeOK, readerVars
<1>2. StampsConsistent'
  BY DEF StoreWord, StampsConsistent, Newest, LapStart, ringVars, readerVars, writerVars
<1>3. WriteProgress'
  <2>1. wstate' = wstate /\ wlen' = wlen /\ windex' = windex /\ sync_count' = sync_count
    BY DEF StoreWord
  <2>2. ASSUME NEW v \in Words, v <= wlen, v \notin todo'
        PROVE  data'[windex][v] = sync_count + 1
    <3>1. CASE w \in Words
      BY <2>2, <3>1 DEF StoreWord, WriteProgress, TypeOK, Words
    <3>2. CASE w = W + 1
      BY <2>2, <3>2 DEF StoreWord, WriteProgress, TypeOK, Words
    <3> QED
      BY <3>1, <3>2 DEF StoreWord
  <2> QED
    BY <2>1, <2>2 DEF StoreWord, WriteProgress
<1>4. SettledSlots'
  <2> SUFFICES ASSUME NEW i \in Slots, sync'[i] # 0, ~Overwriting(i)'
               PROVE  /\ len'[i] = sent'[sync'[i]]
                      /\ \A v \in Words : v <= len'[i] => data'[i][v] = sync'[i]
    BY DEF StoreWord, SettledSlots
  <2>1. i # windex /\ ~Overwriting(i)
    BY DEF StoreWord, Overwriting
  <2>2. len'[i] = len[i] /\ data'[i] = data[i] /\ sync' = sync /\ sent' = sent
    BY <2>1 DEF StoreWord, TypeOK
  <2> QED
    BY <2>1, <2>2 DEF StoreWord, SettledSlots
<1>5. ReaderInStep'
  BY DEF StoreWord, ReaderInStep, Newest, Due, LapStart, ringVars, readerVars, writerVars
<1>6. ReaderProgress'
  BY DEF StoreWord, ReaderProgress, ringVars, readerVars, writerVars
<1>7. IntactUnlessOverwriting'
  BY DEF StoreWord, IntactUnlessOverwriting, Overwriting, ringVars, readerVars, writerVars
<1> QED
  BY <1>1, <1>2, <1>3, <1>4, <1>5, <1>6, <1>7

(* Entering end_write: the check, and for an assigned buffer the copy      *)
(* still to do.                                                            *)
LEMMA EndWriteInv ==
  ASSUME RingInv, NEW l \in Lengths, EndWrite(l)
  PROVE  RingInv'
<1> USE RingAssumption DEF RingInv
<1>1. TypeOK'
  <2>1. wlen' \in 0..(W + 1)
    BY DEF EndWrite
  <2>2. todo' \subseteq 1..(W + 1)
    BY DEF EndWrite, TypeOK
  <2>3. wstate' \in WriterStates
    BY DEF EndWrite, WriterStates
  <2> QED
    BY <2>1, <2>2, <2>3 DEF EndWrite, TypeOK, ringVars, readerVars
<1>2. StampsConsistent'
  BY DEF EndWrite, StampsConsistent, Newest, LapStart, ringVars, readerVars, writerVars
<1>3. WriteProgress'
  <2>0. UNCHANGED <<data, windex, sync_count>> /\ wlen' = l /\ l <= wlen
    BY DEF EndWrite, ringVars
  <2>a. l \in Int /\ wlen \in Int /\ sync_count < MaxSync
    BY DEF EndWrite, TypeOK, WriteProgress
  <2>1. CASE l > W /\ wstate' = "exited" /\ UNCHANGED todo
    BY <2>0, <2>1, <2>a DEF EndWrite, WriteProgress
  <2>2. CASE l <= W /\ wstate' = "copying" /\ todo' = 1..l
    <3>1. \A w \in Words : ~(w <= wlen' /\ w \notin todo')
      BY <2>0, <2>2, <2>a DEF EndWrite, Words
    <3> QED
      BY <2>0, <2>2, <2>a, <3>1 DEF EndWrite, WriteProgress
  <2>3. CASE l <= W /\ wstate = "filling" /\ wstate' = "len" /\ UNCHANGED todo
    <3>1. \A w \in Words : w <= l => w <= wlen
      BY <2>0, <2>a DEF EndWrite, Words
    <3>2. \A w \in Words : w <= l => data[windex][w] = sync_count + 1
      BY <2>3, <3>1 DEF EndWrite, WriteProgress
    <3> QED
      BY <2>0, <2>3, <2>a, <3>2 DEF EndWrite, WriteProgress
  <2> QED
    BY <2>1, <2>2, <2>3 DEF EndWrite
<1>4. SettledSlots'
  <2>1. \A i \in Slots : ~Overwriting(i)' => ~Overwriting(i)
    BY DEF EndWrite, Overwriting
  <2> QED
    BY <2>1 DEF EndWrite, SettledSlots, ringVars
<1>5. ReaderInStep'
  BY DEF EndWrite, ReaderInStep, Newest, Due, LapStart, ringVars, readerVars, writerVars
<1>6. ReaderProgress'
  BY DEF EndWrite, ReaderProgress, ringVars, readerVars, writerVars
<1>7. IntactUnlessOverwriting'
  <2>1. \A i : ~Overwriting(i)' => ~Overwriting(i)
    BY DEF EndWrite, Overwriting
  <2> QED
    BY <2>1 DEF EndWrite, IntactUnlessOverwriting, ringVars, readerVars
<1> QED
  BY <1>1, <1>2, <1>3, <1>4, <1>5, <1>6, <1>7

(* Storing the length touches only the slot being overwritten.             *)
LEMMA EndWriteLenInv ==
  ASSUME RingInv, EndWriteLen
  PROVE  RingInv'
<1> USE RingAssumption DEF RingInv
<1>1. TypeOK'
  BY DEF EndWriteLen, TypeOK, Slots, Words, Records, WriterStates, ReaderStates, ringVars,
     readerVars, writerVars
<1>2. StampsConsistent'
  BY DEF EndWriteLen, StampsConsistent, Newest, LapStart, ringVars, readerVars, writerVars
<1>3. WriteProgress'
  <2>1. wstate' = "sync" /\ todo' = {} /\ UNCHANGED <<data, windex, sync_count, wlen>>
    BY DEF EndWriteLen, WriteProgress
  <2>2. sync_count < MaxSync /\ wlen <= W
    BY DEF EndWriteLen, WriteProgress
  <2>3. \A w \in Words : w <= wlen => data[windex][w] = sync_count + 1
    BY DEF EndWriteLen, WriteProgress
  <2>4. len'[windex] = wlen
    BY DEF EndWriteLen, TypeOK
  <2> QED
    BY <2>1, <2>2, <2>3, <2>4 DEF EndWriteLen, WriteProgress
<1>4. SettledSlots'
  BY DEF EndWriteLen, SettledSlots, Overwriting, ringVars, readerVars, writerVars
<1>5. ReaderInStep'
  BY DEF EndWriteLen, ReaderInStep, Newest, Due, LapStart, ringVars, readerVars, writerVars
<1>6. ReaderProgress'
  BY DEF EndWriteLen, ReaderProgress, ringVars, readerVars, writerVars
<1>7. IntactUnlessOverwriting'
  BY DEF EndWriteLen, IntactUnlessOverwriting, Overwriting, ringVars, readerVars, writerVars
<1> QED
  BY <1>1, <1>2, <1>3, <1>4, <1>5, <1>6, <1>7

(* The commit: the slot becomes settled, its stamp moves on by a lap, and  *)
(* a reader that was reading the old record there can no longer accept it. *)
LEMMA EndWriteCommitInv ==
  ASSUME RingInv, EndWriteCommit
  PROVE  RingInv'
<1> USE RingAssumption DEF RingInv
<1>1. TypeOK'
  <2>1. sync_count + 1 \in 1..MaxSync /\ wlen \in 0..W
    BY DEF EndWriteCommit, TypeOK, WriteProgress
  <2>2. windex' \in Slots
    BY NextSlot DEF EndWriteCommit, TypeOK
  <2>3. /\ sync' \in [Slots -> 0..MaxSync]
        /\ sent' \in [Records -> 0..W]
        /\ sync_count' \in 0..MaxSync
    BY <2>1 DEF EndWriteCommit, TypeOK, Records
  <2>4. wlen' \in 0..(W + 1) /\ wstate' \in WriterStates
    BY DEF EndWriteCommit, WriterStates
  <2> QED
    BY <2>2, <2>3, <2>4 DEF EndWriteCommit, TypeOK, readerVars
<1>2. StampsConsistent'
  <2>1. /\ N \in Nat \ {0} /\ windex \in 0..(N - 1) /\ sync_count \in Nat
    BY DEF TypeOK, Slots
  <2>2. windex' = IF windex + 1 = N THEN 0 ELSE windex + 1
    BY NextSlot DEF EndWriteCommit, TypeOK
  <2>3. LapStart = 0 \/ LapStart >= N
    BY DEF StampsConsistent
  <2>4. LapStart' = IF windex + 1 = N THEN LapStart + N ELSE LapStart
    BY <2>1, <2>2 DEF EndWriteCommit, LapStart
  <2>5. LapStart' = 0 \/ LapStart' >= N
    BY <2>1, <2>3, <2>4 DEF LapStart
  <2>6. ASSUME NEW i \in Slots
        PROVE  sync'[i] = Newest(i)'
    <3>1. i \in 0..(N - 1)
      BY DEF EndWriteCommit, Slots
    <3>2. CASE i = windex
      <4>1. sync'[i] = sync_count + 1
        BY <3>2 DEF EndWriteCommit, TypeOK
      <4> QED
        BY <2>1, <2>2, <2>4, <3>2, <4>1 DEF Newest, LapStart
    <3>3. CASE i # windex
      <4>1. sync'[i] = Newest(i)
        BY <3>3 DEF EndWriteCommit, TypeOK, StampsConsistent
      <4> QED
        BY <2>1, <2>2, <2>3, <2>4, <3>1, <3>3, <4>1 DEF Newest, LapStart
    <3> QED
      BY <3>2, <3>3
  <2> QED
    BY <2>5, <2>6 DEF EndWriteCommit, StampsConsistent
<1>3. WriteProgress'
  BY DEF EndWriteCommit, WriteProgress
<1>4. SettledSlots'
  <2> SUFFICES ASSUME NEW i \in Slots, sync'[i] # 0
               PROVE  /\ len'[i] = sent'[sync'[i]]
                      /\ \A w \in Words : w <= len'[i] => data'[i][w] = sync'[i]
    BY DEF EndWriteCommit, SettledSlots
  <2>1. sync_count + 1 \in Records
    BY DEF EndWriteCommit, TypeOK, WriteProgress, Records
  <2>2. CASE i = windex
    <3>1. sync'[i] = sync_count + 1 /\ sent'[sync_count + 1] = wlen
      BY <2>1, <2>2 DEF EndWriteCommit, TypeOK
    <3>2. len'[i] = wlen
      BY <2>2 DEF EndWriteCommit, WriteProgress
    <3>3. \A w \in Words : w <= wlen => data'[i][w] = sync_count + 1
      BY <2>2 DEF EndWriteCommit, WriteProgress
    <3> QED
      BY <3>1, <3>2, <3>3
  <2>3. CASE i # windex
    <3>1. sync'[i] = sync[i] /\ len'[i] = len[i] /\ data'[i] = data[i]
      BY <2>3 DEF EndWriteCommit, TypeOK
    <3>2. sync[i] # sync_count + 1 /\ sync[i] \in Records
      <4>1. sync[i] \in 0..sync_count /\ sync_count \in 0..MaxSync
        BY StampBounds DEF EndWriteCommit, TypeOK
      <4> QED
        BY <2>1, <3>1, <4>1 DEF EndWriteCommit, Records
    <3>3. sent'[sync[i]] = sent[sync[i]]
      BY <3>2 DEF EndWriteCommit, TypeOK
    <3>4. ~Overwriting(i)
      BY <2>3 DEF EndWriteCommit, Overwriting
    <3> QED
      BY <3>1, <3>3, <3>4 DEF EndWriteCommit, SettledSlots
  <2> QED
    BY <2>2, <2>3
<1>5. ReaderInStep'
  <2> SUFFICES ASSUME NEW r \in Readers
               PROVE  \/ sync_counter[r] = Newest(rindex[r])'
                      \/ sync_counter[r] = Due(rindex[r])'
                      \/ sync_counter[r] + N <= Newest(rindex[r])'
    BY DEF EndWriteCommit, ReaderInStep, readerVars
  <2>1. /\ N \in Nat \ {0} /\ windex \in 0..(N - 1) /\ sync_count \in Nat
        /\ rindex[r] \in 0..(N - 1) /\ sync_counter[r] \in Nat \ {0}
        /\ rindex' = rindex
    BY ReaderTypes DEF EndWriteCommit, readerVars
  <2>2. windex' = IF windex + 1 = N THEN 0 ELSE windex + 1
    BY NextSlot DEF EndWriteCommit, TypeOK
  <2>3. LapStart = 0 \/ LapStart >= N
    BY DEF StampsConsistent
  <2>4. LapStart' = IF windex + 1 = N THEN LapStart + N ELSE LapStart
    BY <2>1, <2>2 DEF EndWriteCommit, LapStart
  <2>5. \/ sync_counter[r] = Newest(rindex[r])
        \/ sync_counter[r] = Due(rindex[r])
        \/ sync_counter[r] + N <= Newest(rindex[r])
    BY DEF ReaderInStep
  <2>6. CASE rindex[r] = windex
    <3>1. Newest(rindex[r])' = Due(rindex[r])
      BY <2>1, <2>2, <2>4, <2>6 DEF Newest, Due, LapStart
    <3>2. Newest(rindex[r]) = 0 \/ Newest(rindex[r]) + N = Due(rindex[r])
      BY <2>1, <2>3, <2>6 DEF Newest, Due, LapStart
    <3>3. Newest(rindex[r]) \in Int /\ Due(rindex[r]) \in Int
      BY <2>1 DEF Newest, Due, LapStart
    <3> QED
      BY <2>1, <2>5, <3>1, <3>2, <3>3
  <2>7. CASE rindex[r] # windex
    <3>1. Newest(rindex[r])' = Newest(rindex[r]) /\ Due(rindex[r])' = Due(rindex[r])
      BY <2>1, <2>2, <2>3, <2>4, <2>7 DEF Newest, Due, LapStart
    <3> QED
      BY <2>5, <3>1
  <2> QED
    BY <2>6, <2>7
<1>6. ReaderProgress'
  <2> SUFFICES ASSUME NEW r \in Readers
               PROVE  /\ last[r] < sync_counter[r]
                      /\ sync_counter[r] <= sync_count + 2
                      /\ \/ sync_counter[r] = last[r] + 1
                         \/ last[r] + 1 + N <= sync_count + 1
                      /\ rstate[r] \in {"len", "ready"} =>
                           sync_counter[r] <= sync'[rindex[r]]
                      /\ rstate[r] # "ready" => view[r] = Blank
    BY DEF EndWriteCommit, ReaderProgress, readerVars, Blank, TypeOK
  <2>1. /\ N \in Nat /\ sync_count \in Nat /\ last[r] \in Nat /\ sync_counter[r] \in Nat
        /\ rindex[r] \in Slots
    BY DEF EndWriteCommit, TypeOK
  <2>2. sync[rindex[r]] \in 0..sync_count
    BY <2>1, StampBounds DEF EndWriteCommit
  <2>3. sync[rindex[r]] <= sync'[rindex[r]]
    BY <2>1, <2>2 DEF EndWriteCommit, TypeOK
  <2>4. sync'[rindex[r]] \in Int /\ sync[rindex[r]] \in Int
    BY <2>1, <2>2 DEF EndWriteCommit, TypeOK
  <2> QED
    BY <2>1, <2>3, <2>4 DEF EndWriteCommit, ReaderProgress
<1>7. IntactUnlessOverwriting'
  <2> SUFFICES ASSUME NEW r \in Readers, rstate[r] = "ready",
                      sync'[rindex[r]] = sync_counter[r]
               PROVE  /\ read_size[r] = sent'[sync_counter[r]]
                      /\ \A w \in Words : view[r][w] \in {Unread, sync_counter[r]}
    BY DEF EndWriteCommit, IntactUnlessOverwriting, readerVars
  <2>1. /\ rindex[r] \in Slots /\ sync_count \in 0..MaxSync
        /\ sync_counter[r] \in 1..(MaxSync + 1)
    BY DEF EndWriteCommit, TypeOK
  <2>2. sync_counter[r] <= sync[rindex[r]] /\ sync[rindex[r]] \in 0..sync_count
    BY <2>1, StampBounds DEF EndWriteCommit, ReaderProgress
  <2>3. sync_counter[r] # sync_count + 1 /\ sync_counter[r] \in Records
    BY <2>1, <2>2 DEF EndWriteCommit, Records
  <2>4. rindex[r] # windex
    BY <2>1, <2>3 DEF EndWriteCommit, TypeOK
  <2>5. sync[rindex[r]] = sync_counter[r] /\ ~Overwriting(rindex[r])
    BY <2>1, <2>4 DEF EndWriteCommit, TypeOK, Overwriting
  <2>6. sent'[sync_counter[r]] = sent[sync_counter[r]]
    BY <2>3 DEF EndWriteCommit, TypeOK
  <2> QED
    BY <2>5, <2>6 DEF EndWriteCommit, IntactUnlessOverwriting
<1> QED
  BY <1>1, <1>2, <1>3, <1>4, <1>5, <1>6, <1>7

(* close changes only where the writer is.                                 *)
LEMMA WriterCloseInv ==
  ASSUME RingInv, WriterClose
  PROVE  RingInv'
<1> USE RingAssumption DEF RingInv
<1>1. TypeOK'
  BY DEF WriterClose, TypeOK, Slots, Words, Records, WriterStates, ReaderStates, ringVars,
     readerVars, writerVars
<1>2. StampsConsistent'
  BY DEF WriterClose, StampsConsistent, Newest, LapStart, ringVars, readerVars, writerVars
<1>3. WriteProgress'
  BY DEF WriterClose, WriteProgress, ringVars, readerVars, writerVars
<1>4. SettledSlots'
  BY DEF WriterClose, SettledSlots, Overwriting, ringVars, readerVars, writerVars
<1>5. ReaderInStep'
  BY DEF WriterClose, ReaderInStep, Newest, Due, LapStart, ringVars, readerVars, writerVars
<1>6. ReaderProgress'
  BY DEF WriterClose, ReaderProgress, ringVars, readerVars, writerVars
<1>7. IntactUnlessOverwriting'
  BY DEF WriterClose, IntactUnlessOverwriting, Overwriting, ringVars, readerVars, writerVars
<1> QED
  BY <1>1, <1>2, <1>3, <1>4, <1>5, <1>6, <1>7

(* Loading the stamp: a reader that was lapped resumes at the record it    *)
(* finds, which is one of its slot.                                        *)
LEMMA PrepareNextInv ==
  ASSUME RingInv, NEW r \in Readers, PrepareNext(r)
  PROVE  RingInv'
<1> USE RingAssumption DEF RingInv
<1>1. TypeOK'
  <2>1. rindex[r] \in Slots /\ sync[rindex[r]] \in 0..MaxSync
    BY DEF PrepareNext, TypeOK
  <2>2. sync_counter' \in [Readers -> 1..(MaxSync + 1)]
    BY <2>1 DEF PrepareNext, TypeOK
  <2>3. rstate' \in [Readers -> ReaderStates]
    BY DEF PrepareNext, TypeOK, ReaderStates
  <2> QED
    BY <2>2, <2>3 DEF PrepareNext, TypeOK, ringVars, writerVars
<1>2. StampsConsistent'
  BY DEF PrepareNext, StampsConsistent, Newest, LapStart, ringVars, readerVars, writerVars
<1>3. WriteProgress'
  BY DEF PrepareNext, WriteProgress, ringVars, readerVars, writerVars
<1>4. SettledSlots'
  BY DEF PrepareNext, SettledSlots, Overwriting, ringVars, readerVars, writerVars
<1>5. ReaderInStep'
  <2>1. UNCHANGED <<windex, sync_count, rindex>>
    BY DEF PrepareNext, writerVars
  <2>2. sync[rindex[r]] = Newest(rindex[r])
    BY DEF PrepareNext, StampsConsistent, TypeOK
  <2>3. \A q \in Readers : \/ sync_counter'[q] = sync_counter[q]
                           \/ q = r /\ sync_counter'[q] = sync[rindex[r]]
    BY DEF PrepareNext, TypeOK
  <2>4. \A i : Newest(i)' = Newest(i) /\ Due(i)' = Due(i)
    BY <2>1 DEF Newest, Due, LapStart
  <2> QED
    BY <2>1, <2>2, <2>3, <2>4 DEF PrepareNext, ReaderInStep
<1>6. ReaderProgress'
  <2> SUFFICES ASSUME NEW q \in Readers
               PROVE  /\ last[q] < sync_counter'[q]
                      /\ sync_counter'[q] <= sync_count + 1
                      /\ sync_counter'[q] = last[q] + 1 \/ last[q] + 1 + N <= sync_count
                      /\ rstate'[q] \in {"len", "ready"} =>
                           sync_counter'[q] <= sync[rindex[q]]
                      /\ rstate'[q] # "ready" => view[q] = Blank
    BY DEF PrepareNext, ReaderProgress, ringVars, writerVars, Blank
  <2>1. /\ N \in Nat /\ sync_count \in Nat /\ last[q] \in Nat /\ sync_counter[q] \in Nat
        /\ rindex[q] \in Slots /\ sync[rindex[q]] \in 0..sync_count
    BY StampBounds, ReaderTypes
  <2>2. CASE q # r \/ (q = r /\ sync[rindex[r]] < sync_counter[r])
    BY <2>2 DEF PrepareNext, ReaderProgress, TypeOK
  <2>3. CASE q = r /\ sync[rindex[r]] = sync_counter[r]
    BY <2>1, <2>3 DEF PrepareNext, ReaderProgress, TypeOK
  <2>4. CASE q = r /\ sync[rindex[r]] > sync_counter[r]
    <3>1. sync_counter'[q] = sync[rindex[q]] /\ rstate'[q] = "len"
      BY <2>1, <2>4 DEF PrepareNext, TypeOK
    <3>2. sync_counter[q] + N <= sync[rindex[q]]
      BY <2>4, OverrunIsALap DEF PrepareNext
    <3>3. last[q] < sync_counter[q] /\ (rstate[q] # "ready" => view[q] = Blank)
      BY DEF PrepareNext, ReaderProgress
    <3> QED
      BY <2>1, <2>4, <3>1, <3>2, <3>3 DEF PrepareNext
  <2> QED
    BY <2>1, <2>2, <2>3, <2>4 DEF PrepareNext, TypeOK
<1>7. IntactUnlessOverwriting'
  <2>1. \A q \in Readers : rstate'[q] = "ready" =>
          rstate[q] = "ready" /\ sync_counter'[q] = sync_counter[q]
    BY DEF PrepareNext, TypeOK
  <2> QED
    BY <2>1 DEF PrepareNext, IntactUnlessOverwriting, Overwriting, ringVars, writerVars
<1> QED
  BY <1>1, <1>2, <1>3, <1>4, <1>5, <1>6, <1>7

(* Loading the length: it is that of the expected record unless the slot   *)
(* is being overwritten.                                                   *)
LEMMA PrepareLenInv ==
  ASSUME RingInv, NEW r \in Readers, PrepareLen(r)
  PROVE  RingInv'
<1> USE RingAssumption DEF RingInv
<1>1. TypeOK'
  BY DEF PrepareLen, TypeOK, Slots, Words, Records, WriterStates, ReaderStates, ringVars,
     readerVars, writerVars
<1>2. StampsConsistent'
  BY DEF PrepareLen, StampsConsistent, Newest, LapStart, ringVars, readerVars, writerVars
<1>3. WriteProgress'
  BY DEF PrepareLen, WriteProgress, ringVars, readerVars, writerVars
<1>4. SettledSlots'
  BY DEF PrepareLen, SettledSlots, Overwriting, ringVars, readerVars, writerVars
<1>5. ReaderInStep'
  BY DEF PrepareLen, ReaderInStep, Newest, Due, LapStart, ringVars, readerVars, writerVars
<1>6. ReaderProgress'
  BY DEF PrepareLen, ReaderProgress, ringVars, readerVars, writerVars
<1>7. IntactUnlessOverwriting'
  <2> SUFFICES ASSUME NEW q \in Readers, rstate'[q] = "ready",
                      sync[rindex[q]] = sync_counter[q], ~Overwriting(rindex[q])
               PROVE  /\ read_size'[q] = sent[sync_counter[q]]
                      /\ \A w \in Words : view[q][w] \in {Unread, sync_counter[q]}
    BY DEF PrepareLen, IntactUnlessOverwriting, Overwriting, ringVars, writerVars
  <2>1. CASE q # r
    BY <2>1 DEF PrepareLen, IntactUnlessOverwriting, TypeOK
  <2>2. CASE q = r
    <3>1. read_size'[q] = len[rindex[q]] /\ view[q] = Blank
      BY <2>2 DEF PrepareLen, TypeOK, ReaderProgress
    <3>2. rindex[q] \in Slots /\ sync[rindex[q]] # 0
      BY DEF PrepareLen, TypeOK
    <3>3. len[rindex[q]] = sent[sync_counter[q]]
      BY <3>2 DEF PrepareLen, SettledSlots
    <3> QED
      BY <3>1, <3>3 DEF PrepareLen, Blank
  <2> QED
    BY <2>1, <2>2
<1> QED
  BY <1>1, <1>2, <1>3, <1>4, <1>5, <1>6, <1>7

(* Copying a word out of the slot.                                         *)
LEMMA ReadWordInv ==
  ASSUME RingInv, NEW r \in Readers, NEW w \in Words, ReadWord(r, w)
  PROVE  RingInv'
<1> USE RingAssumption DEF RingInv
<1>1. TypeOK'
  <2>1. data[rindex[r]][w] \in 0..MaxSync
    BY DEF ReadWord, TypeOK
  <2>2. [view[r] EXCEPT ![w] = data[rindex[r]][w]] \in [Words -> {Unread} \union 0..MaxSync]
    BY <2>1 DEF ReadWord, TypeOK
  <2>3. view' \in [Readers -> [Words -> {Unread} \union 0..MaxSync]]
    BY <2>2 DEF ReadWord, TypeOK
  <2> QED
    BY <2>3 DEF ReadWord, TypeOK, ringVars, writerVars
<1>2. StampsConsistent'
  BY DEF ReadWord, StampsConsistent, Newest, LapStart, ringVars, readerVars, writerVars
<1>3. WriteProgress'
  BY DEF ReadWord, WriteProgress, ringVars, readerVars, writerVars
<1>4. SettledSlots'
  BY DEF ReadWord, SettledSlots, Overwriting, ringVars, readerVars, writerVars
<1>5. ReaderInStep'
  <2>1. \A i : Newest(i)' = Newest(i) /\ Due(i)' = Due(i)
    BY DEF ReadWord, Newest, Due, LapStart, writerVars
  <2> QED
    BY <2>1 DEF ReadWord, ReaderInStep
<1>6. ReaderProgress'
  <2>1. \A q \in Readers : rstate[q] # "ready" => view'[q] = view[q]
    BY DEF ReadWord, TypeOK
  <2> QED
    BY <2>1 DEF ReadWord, ReaderProgress, ringVars, writerVars, Blank
<1>7. IntactUnlessOverwriting'
  <2> SUFFICES ASSUME NEW q \in Readers, rstate[q] = "ready",
                      sync[rindex[q]] = sync_counter[q], ~Overwriting(rindex[q]),
                      NEW v \in Words
               PROVE  /\ read_size[q] = sent[sync_counter[q]]
                      /\ view'[q][v] \in {Unread, sync_counter[q]}
    BY DEF ReadWord, IntactUnlessOverwriting, Overwriting, ringVars, writerVars
  <2>1. /\ read_size[q] = sent[sync_counter[q]]
        /\ view[q][v] \in {Unread, sync_counter[q]}
    BY DEF ReadWord, IntactUnlessOverwriting
  <2>2. CASE q # r \/ v # w
    BY <2>1, <2>2 DEF ReadWord, TypeOK
  <2>3. CASE q = r /\ v = w
    <3>1. view'[q][v] = data[rindex[r]][w]
      BY <2>3 DEF ReadWord, TypeOK
    <3>2. rindex[r] \in Slots /\ sync[rindex[r]] # 0
      BY <2>3 DEF ReadWord, TypeOK
    <3>3. w <= len[rindex[r]]
      BY <2>1, <2>3, <3>2 DEF ReadWord, SettledSlots
    <3> QED
      BY <2>1, <2>3, <3>1, <3>2, <3>3 DEF ReadWord, SettledSlots
  <2> QED
    BY <2>2, <2>3
<1> QED
  BY <1>1, <1>2, <1>3, <1>4, <1>5, <1>6, <1>7

(* An accepting end_read: the next slot holds the next record, or it is    *)
(* due there.                                                              *)
LEMMA EndReadAcceptInv ==
  ASSUME RingInv, NEW r \in Readers, EndReadAccept(r)
  PROVE  RingInv'
<1> USE RingAssumption DEF RingInv
<1>1. TypeOK'
  <2>1. rindex[r] \in Slots /\ sync_counter[r] \in 0..MaxSync
    BY DEF EndReadAccept, TypeOK
  <2>2. (rindex[r] + 1) % N \in Slots
    BY <2>1, NextSlot DEF EndReadAccept
  <2>3. Blank \in [Words -> {Unread} \union 0..MaxSync]
    BY DEF EndReadAccept, Blank
  <2>4. /\ last' \in [Readers -> 0..MaxSync]
        /\ sync_counter' \in [Readers -> 1..(MaxSync + 1)]
        /\ rindex' \in [Readers -> Slots]
    BY <2>1, <2>2 DEF EndReadAccept, TypeOK
  <2>5. /\ read_size' \in [Readers -> 0..(W + 1)]
        /\ rstate' \in [Readers -> ReaderStates]
        /\ view' \in [Readers -> [Words -> {Unread} \union 0..MaxSync]]
    BY <2>3 DEF EndReadAccept, TypeOK, ReaderStates
  <2> QED
    BY <2>4, <2>5 DEF EndReadAccept, TypeOK, ringVars, writerVars
<1>2. StampsConsistent'
  BY DEF EndReadAccept, StampsConsistent, Newest, LapStart, ringVars, readerVars, writerVars
<1>3. WriteProgress'
  BY DEF EndReadAccept, WriteProgress, ringVars, readerVars, writerVars
<1>4. SettledSlots'
  BY DEF EndReadAccept, SettledSlots, Overwriting, ringVars, readerVars, writerVars
<1>5. ReaderInStep'
  <2>0. \A i : Newest(i)' = Newest(i) /\ Due(i)' = Due(i)
    BY DEF EndReadAccept, Newest, Due, LapStart, writerVars
  <2> SUFFICES ASSUME NEW q \in Readers
               PROVE  \/ sync_counter'[q] = Newest(rindex'[q])
                      \/ sync_counter'[q] = Due(rindex'[q])
                      \/ sync_counter'[q] + N <= Newest(rindex'[q])
    BY <2>0 DEF EndReadAccept, ReaderInStep
  <2>1. CASE q # r
    BY <2>1 DEF EndReadAccept, ReaderInStep, TypeOK
  <2>2. CASE q = r
    <3>1. /\ N \in Nat \ {0} /\ windex \in 0..(N - 1) /\ sync_count \in Nat
          /\ rindex[r] \in 0..(N - 1) /\ sync_counter[r] \in Nat \ {0}
      BY ReaderTypes
    <3>2. LapStart = 0 \/ LapStart >= N
      BY DEF StampsConsistent
    <3>3. sync_counter[r] = Newest(rindex[r])
      BY DEF EndReadAccept, StampsConsistent, TypeOK
    <3>4. /\ sync_counter'[q] = sync_counter[r] + 1
          /\ rindex'[q] = (rindex[r] + 1) % N
      BY <2>2 DEF EndReadAccept, TypeOK
    <3>5. rindex'[q] = IF rindex[r] + 1 = N THEN 0 ELSE rindex[r] + 1
      BY <3>4, NextSlot DEF EndReadAccept, TypeOK
    <3>6. sync_counter'[q] = Newest(rindex'[q]) \/ sync_counter'[q] = Due(rindex'[q])
      <4>1. CASE rindex[r] + 1 = N
        BY <3>1, <3>2, <3>3, <3>4, <3>5, <4>1 DEF Newest, Due, LapStart
      <4>2. CASE rindex[r] + 1 # N /\ rindex[r] < windex
        <5>1. sync_counter'[q] = LapStart + rindex'[q] + 1 /\ rindex'[q] = rindex[r] + 1
          BY <3>1, <3>3, <3>4, <3>5, <4>2 DEF Newest, LapStart
        <5>2. rindex'[q] < windex \/ rindex'[q] = windex
          BY <3>1, <4>2, <5>1
        <5> QED
          BY <5>1, <5>2 DEF Newest, Due
      <4>3. CASE rindex[r] + 1 # N /\ windex <= rindex[r]
        BY <3>1, <3>2, <3>3, <3>4, <3>5, <4>3 DEF Newest, Due, LapStart
      <4> QED
        BY <3>1, <4>1, <4>2, <4>3
    <3> QED
      BY <3>6
  <2> QED
    BY <2>1, <2>2
<1>6. ReaderProgress'
  <2> SUFFICES ASSUME NEW q \in Readers
               PROVE  /\ last'[q] < sync_counter'[q]
                      /\ sync_counter'[q] <= sync_count + 1
                      /\ sync_counter'[q] = last'[q] + 1 \/ last'[q] + 1 + N <= sync_count
                      /\ rstate'[q] \in {"len", "ready"} =>
                           sync_counter'[q] <= sync[rindex'[q]]
                      /\ rstate'[q] # "ready" => view'[q] = Blank
    BY DEF EndReadAccept, ReaderProgress, ringVars, writerVars, Blank
  <2>1. CASE q # r
    BY <2>1 DEF EndReadAccept, ReaderProgress, TypeOK
  <2>2. CASE q = r
    <3>1. rindex[r] \in Slots /\ sync_counter[r] \in Nat /\ sync_count \in Nat
      BY DEF EndReadAccept, TypeOK
    <3>2. sync_counter[r] <= sync_count
      BY <3>1, StampBounds DEF EndReadAccept
    <3>3. /\ last'[q] = sync_counter[r] /\ sync_counter'[q] = sync_counter[r] + 1
          /\ rstate'[q] = "idle" /\ view'[q] = Blank
      BY <2>2 DEF EndReadAccept, TypeOK
    <3> QED
      BY <3>1, <3>2, <3>3
  <2> QED
    BY <2>1, <2>2
<1>7. IntactUnlessOverwriting'
  <2>1. \A q \in Readers : rstate'[q] = "ready" => q # r
    BY DEF EndReadAccept, TypeOK
  <2>2. \A q \in Readers : q # r =>
          /\ sync_counter'[q] = sync_counter[q] /\ rindex'[q] = rindex[q]
          /\ read_size'[q] = read_size[q] /\ view'[q] = view[q] /\ rstate'[q] = rstate[q]
    BY DEF EndReadAccept, TypeOK
  <2> QED
    BY <2>1, <2>2 DEF EndReadAccept, IntactUnlessOverwriting, Overwriting, ringVars, writerVars
<1> QED
  BY <1>1, <1>2, <1>3, <1>4, <1>5, <1>6, <1>7

(* A refusing end_read: the reader resumes at the newer record of the same *)
(* slot.                                                                   *)
LEMMA EndReadOverrunInv ==
  ASSUME RingInv, NEW r \in Readers, EndReadOverrun(r)
  PROVE  RingInv'
<1> USE RingAssumption DEF RingInv
<1>1. TypeOK'
  <2>1. sync[rindex[r]] \in 1..(MaxSync + 1)
    BY DEF EndReadOverrun, TypeOK, ReaderProgress
  <2>2. Blank \in [Words -> {Unread} \union 0..MaxSync]
    BY DEF EndReadOverrun, Blank
  <2>3. sync_counter' \in [Readers -> 1..(MaxSync + 1)]
    BY <2>1 DEF EndReadOverrun, TypeOK
  <2>4. /\ read_size' \in [Readers -> 0..(W + 1)]
        /\ rstate' \in [Readers -> ReaderStates]
        /\ view' \in [Readers -> [Words -> {Unread} \union 0..MaxSync]]
    BY <2>2 DEF EndReadOverrun, TypeOK, ReaderStates
  <2> QED
    BY <2>3, <2>4 DEF EndReadOverrun, TypeOK, ringVars, writerVars
<1>2. StampsConsistent'
  BY DEF EndReadOverrun, StampsConsistent, Newest, LapStart, ringVars, readerVars, writerVars
<1>3. WriteProgress'
  BY DEF EndReadOverrun, WriteProgress, ringVars, readerVars, writerVars
<1>4. SettledSlots'
  BY DEF EndReadOverrun, SettledSlots, Overwriting, ringVars, readerVars, writerVars
<1>5. ReaderInStep'
  <2>1. UNCHANGED <<windex, sync_count, rindex>>
    BY DEF EndReadOverrun, writerVars
  <2>2. sync[rindex[r]] = Newest(rindex[r])
    BY DEF EndReadOverrun, StampsConsistent, TypeOK
  <2>3. \A q \in Readers : \/ sync_counter'[q] = sync_counter[q]
                           \/ q = r /\ sync_counter'[q] = sync[rindex[r]]
    BY DEF EndReadOverrun, TypeOK
  <2>4. \A i : Newest(i)' = Newest(i) /\ Due(i)' = Due(i)
    BY <2>1 DEF Newest, Due, LapStart
  <2> QED
    BY <2>1, <2>2, <2>3, <2>4 DEF EndReadOverrun, ReaderInStep
<1>6. ReaderProgress'
  <2> SUFFICES ASSUME NEW q \in Readers
               PROVE  /\ last[q] < sync_counter'[q]
                      /\ sync_counter'[q] <= sync_count + 1
                      /\ sync_counter'[q] = last[q] + 1 \/ last[q] + 1 + N <= sync_count
                      /\ rstate'[q] \in {"len", "ready"} =>
                           sync_counter'[q] <= sync[rindex[q]]
                      /\ rstate'[q] # "ready" => view'[q] = Blank
    BY DEF EndReadOverrun, ReaderProgress, ringVars, writerVars, Blank
  <2>1. CASE q # r
    BY <2>1 DEF EndReadOverrun, ReaderProgress, TypeOK
  <2>2. CASE q = r
    <3>1. /\ N \in Nat /\ sync_count \in Nat /\ last[q] \in Nat /\ sync_counter[q] \in Nat
          /\ rindex[q] \in Slots /\ sync[rindex[q]] \in 0..sync_count
      BY StampBounds, ReaderTypes
    <3>2. sync_counter'[q] = sync[rindex[q]] /\ rstate'[q] = "idle" /\ view'[q] = Blank
      BY <2>2 DEF EndReadOverrun, TypeOK
    <3>3. sync_counter[q] < sync[rindex[q]] /\ last[q] < sync_counter[q]
      BY <2>2, <3>1 DEF EndReadOverrun, ReaderProgress
    <3>4. sync_counter[q] + N <= sync[rindex[q]]
      BY <3>3, OverrunIsALap DEF EndReadOverrun
    <3> QED
      BY <3>1, <3>2, <3>3, <3>4
  <2> QED
    BY <2>1, <2>2
<1>7. IntactUnlessOverwriting'
  <2>1. \A q \in Readers : rstate'[q] = "ready" => q # r
    BY DEF EndReadOverrun, TypeOK
  <2>2. \A q \in Readers : q # r =>
          /\ sync_counter'[q] = sync_counter[q]
          /\ read_size'[q] = read_size[q] /\ view'[q] = view[q] /\ rstate'[q] = rstate[q]
    BY DEF EndReadOverrun, TypeOK
  <2> QED
    BY <2>1, <2>2 DEF EndReadOverrun, IntactUnlessOverwriting, Overwriting, ringVars, writerVars
<1> QED
  BY <1>1, <1>2, <1>3, <1>4, <1>5, <1>6, <1>7

(* close changes only where the reader is.                                 *)
LEMMA ReaderCloseInv ==
  ASSUME RingInv, NEW r \in Readers, ReaderClose(r)
  PROVE  RingInv'
<1> USE RingAssumption DEF RingInv
<1>1. TypeOK'
  BY DEF ReaderClose, TypeOK, Slots, Words, Records, WriterStates, ReaderStates, ringVars,
     readerVars, writerVars
<1>2. StampsConsistent'
  BY DEF ReaderClose, StampsConsistent, Newest, LapStart, ringVars, readerVars, writerVars
<1>3. WriteProgress'
  BY DEF ReaderClose, WriteProgress, ringVars, readerVars, writerVars
<1>4. SettledSlots'
  BY DEF ReaderClose, SettledSlots, Overwriting, ringVars, readerVars, writerVars
<1>5. ReaderInStep'
  BY DEF ReaderClose, ReaderInStep, Newest, Due, LapStart, ringVars, readerVars, writerVars
<1>6. ReaderProgress'
  BY DEF ReaderClose, ReaderProgress, ringVars, readerVars, writerVars
<1>7. IntactUnlessOverwriting'
  BY DEF ReaderClose, IntactUnlessOverwriting, Overwriting, ringVars, readerVars, writerVars
<1> QED
  BY <1>1, <1>2, <1>3, <1>4, <1>5, <1>6, <1>7

(* Every step of the writer or of a reader preserves the invariant.        *)
LEMMA StepInv == RingInv /\ [Next]_vars => RingInv'
<1> SUFFICES ASSUME RingInv, [Next]_vars PROVE RingInv'
  OBVIOUS
<1>1. ASSUME NEW l \in Lengths, StartWrite(l) \/ AssignWrite(l) \/ EndWrite(l)
      PROVE  RingInv'
  BY <1>1, StartWriteInv, AssignWriteInv, EndWriteInv
<1>2. ASSUME NEW w \in 1..(W + 1), StoreWord(w)
      PROVE  RingInv'
  BY <1>2, StoreWordInv
<1>3. CASE EndWriteLen \/ EndWriteCommit \/ WriterClose
  BY <1>3, EndWriteLenInv, EndWriteCommitInv, WriterCloseInv
<1>4. ASSUME NEW r \in Readers, PrepareNext(r) \/ PrepareLen(r)
      PROVE  RingInv'
  BY <1>4, PrepareNextInv, PrepareLenInv
<1>5. ASSUME NEW r \in Readers, NEW w \in Words, ReadWord(r, w)
      PROVE  RingInv'
  BY <1>5, ReadWordInv
<1>6. ASSUME NEW r \in Readers, EndReadAccept(r) \/ EndReadOverrun(r) \/ ReaderClose(r)
      PROVE  RingInv'
  BY <1>6, EndReadAcceptInv, EndReadOverrunInv, ReaderCloseInv
<1>7. CASE UNCHANGED vars
  BY <1>7 DEF vars, ringVars, writerVars, readerVars, RingInv, TypeOK,
       StampsConsistent, WriteProgress, SettledSlots, ReaderInStep, ReaderProgress,
       IntactUnlessOverwriting, Newest, Due, LapStart, Overwriting, Blank
<1> QED
  BY <1>1, <1>2, <1>3, <1>4, <1>5, <1>6, <1>7 DEF Next, Writer, Reader, ReadStep

(* RingInv holds in every reachable state, for every ring size, slot size, *)
(* set of readers and set of lengths: the types, the stamps, the readers'  *)
(* places and the records they read are as stated there.                   *)
THEOREM RingInvariant == Spec => []RingInv
<1> QED
  BY InitInv, StepInv, PTL DEF Spec

(* Type correctness of the ring (camio_istream_ring_t, camio_ostream_ring_t *)
(* and the mapped slots).                                                   *)
THEOREM TypeCorrect == Spec => []TypeOK
<1>1. RingInv => TypeOK
  BY DEF RingInv
<1> QED
  BY <1>1, RingInvariant, PTL

(* The ring always holds exactly the last N committed records' stamps, and *)
(* readers never lose step with them, not even after an overrun.           *)
THEOREM InStep == Spec => [](StampsConsistent /\ ReaderInStep)
<1>1. RingInv => StampsConsistent /\ ReaderInStep
  BY DEF RingInv
<1> QED
  BY <1>1, RingInvariant, PTL

(* What end_read accepts from a slot nobody is writing is one whole record *)
(* with its own length.                                                    *)
THEOREM AcceptedIntact == Spec => []IntactUnlessOverwriting
<1>1. RingInv => IntactUnlessOverwriting
  BY DEF RingInv
<1> QED
  BY <1>1, RingInvariant, PTL

-----------------------------------------------------------------------------
(* Torn records.                                                           *)

(* The record in the writer's slot is a lap older than the one being       *)
(* written.                                                                *)
LEMMA WriterALapAhead ==
  ASSUME RingInv, sync[windex] # 0
  PROVE  sync[windex] + N = sync_count + 1
<1>1. N \in Nat \ {0} /\ windex \in Slots /\ windex \in 0..(N - 1) /\ sync_count \in Nat
  BY RingAssumption DEF RingInv, TypeOK, Slots
<1>2. sync[windex] = Newest(windex)
  BY <1>1 DEF RingInv, StampsConsistent
<1> QED
  BY <1>1, <1>2 DEF Newest, LapStart

(* A word stored by the writer belongs to the record a lap later.          *)
LEMMA StoreWordTorn ==
  ASSUME RingInv, NeighbourWords, TornBetweenNeighbours,
         NEW w \in 1..(W + 1), StoreWord(w)
  PROVE  NeighbourWords' /\ TornBetweenNeighbours'
<1>1. UNCHANGED <<sync, sent, readerVars>>
  BY DEF StoreWord
<1>2. \A i \in Slots, v \in Words :
        \/ data'[i][v] = data[i][v]
        \/ i = windex /\ data'[i][v] = sync_count + 1
  BY DEF StoreWord, RingInv, TypeOK
<1>3. NeighbourWords'
  <2> SUFFICES ASSUME NEW i \in Slots, sync[i] # 0, NEW v \in Words, v <= sent[sync[i]]
               PROVE  data'[i][v] \in {sync[i], sync[i] + N}
    BY <1>1 DEF NeighbourWords
  <2>1. CASE data'[i][v] = data[i][v]
    BY <2>1 DEF NeighbourWords
  <2>2. CASE i = windex /\ data'[i][v] = sync_count + 1
    BY <2>2, WriterALapAhead
  <2> QED
    BY <1>2, <2>1, <2>2
<1>4. TornBetweenNeighbours'
  BY <1>1 DEF TornBetweenNeighbours, readerVars
<1> QED
  BY <1>3, <1>4

(* A commit replaces the record of the slot by one that is all there; no   *)
(* reader expects it yet.                                                  *)
LEMMA EndWriteCommitTorn ==
  ASSUME RingInv, NeighbourWords, TornBetweenNeighbours, EndWriteCommit
  PROVE  NeighbourWords' /\ TornBetweenNeighbours'
<1> DEFINE c == sync_count + 1
<1>1. /\ windex \in Slots /\ sync_count \in Nat /\ N \in Nat \ {0} /\ c \in Records
      /\ wlen \in 0..W
  BY RingAssumption DEF EndWriteCommit, RingInv, TypeOK, WriteProgress, Records
<1>2. /\ sync' = [sync EXCEPT ![windex] = c] /\ sent' = [sent EXCEPT ![c] = wlen]
      /\ UNCHANGED <<data, readerVars>>
  BY DEF EndWriteCommit
<1>3. \A i \in Slots : sync[i] \in 0..sync_count
  BY StampBounds DEF RingInv
<1>4. \A i \in Slots : i # windex =>
        sync'[i] = sync[i] /\ (sync[i] # 0 => sent'[sync[i]] = sent[sync[i]])
  BY <1>1, <1>2, <1>3 DEF RingInv, TypeOK
<1>5. NeighbourWords'
  <2> SUFFICES ASSUME NEW i \in Slots, sync'[i] # 0, NEW w \in Words, w <= sent'[sync'[i]]
               PROVE  data[i][w] \in {sync'[i], sync'[i] + N}
    BY <1>2 DEF NeighbourWords
  <2>1. CASE i # windex
    BY <1>4, <2>1 DEF NeighbourWords
  <2>2. CASE i = windex
    <3>1. sync'[i] = c /\ sent'[c] = wlen
      BY <1>1, <1>2, <2>2 DEF RingInv, TypeOK
    <3>2. data[windex][w] = c
      BY <3>1 DEF EndWriteCommit, RingInv, WriteProgress
    <3> QED
      BY <2>2, <3>1, <3>2
  <2> QED
    BY <2>1, <2>2
<1>6. TornBetweenNeighbours'
  <2> SUFFICES ASSUME NEW r \in Readers, rstate[r] = "ready",
                      sync'[rindex[r]] = sync_counter[r],
                      NEW w \in Words, w <= sent'[sync_counter[r]]
               PROVE  view[r][w] \in {Unread, sync_counter[r], sync_counter[r] + N}
    BY <1>2 DEF TornBetweenNeighbours, readerVars
  <2>1. rindex[r] \in Slots /\ sync_counter[r] \in Nat \ {0}
    BY ReaderTypes DEF RingInv
  <2>2. sync_counter[r] <= sync[rindex[r]] /\ sync[rindex[r]] \in 0..sync_count
    BY <1>3, <2>1 DEF RingInv, ReaderProgress
  <2>3. rindex[r] # windex
    BY <1>1, <1>2, <2>1, <2>2 DEF RingInv, TypeOK
  <2>4. sync[rindex[r]] = sync_counter[r] /\ sent'[sync_counter[r]] = sent[sync_counter[r]]
    BY <1>4, <2>1, <2>3
  <2> QED
    BY <2>4 DEF TornBetweenNeighbours
<1> QED
  BY <1>5, <1>6

(* A reader copies words of the slot it stands at; it starts with none.    *)
LEMMA ReadStepTorn ==
  ASSUME RingInv, NeighbourWords, TornBetweenNeighbours,
         NEW r \in Readers, Reader(r)
  PROVE  NeighbourWords' /\ TornBetweenNeighbours'
<1>1. UNCHANGED <<sync, sent, data>>
  BY DEF Reader, ReadStep, PrepareNext, PrepareLen, ReadWord, EndReadAccept,
         EndReadOverrun, ReaderClose, ringVars
<1>2. NeighbourWords'
  BY <1>1 DEF NeighbourWords
<1>3. \A q \in Readers : q # r =>
        /\ rstate'[q] = rstate[q] /\ sync_counter'[q] = sync_counter[q]
        /\ rindex'[q] = rindex[q] /\ view'[q] = view[q]
  BY DEF Reader, ReadStep, PrepareNext, PrepareLen, ReadWord, EndReadAccept,
         EndReadOverrun, ReaderClose, RingInv, TypeOK
<1>4. \/ rstate'[r] # "ready"
      \/ view'[r] = Blank
      \/ \E w \in Words : ReadWord(r, w)
  <2>1. CASE PrepareNext(r)
    BY <2>1 DEF PrepareNext, RingInv, TypeOK
  <2>2. CASE PrepareLen(r)
    BY <2>2 DEF PrepareLen, RingInv, ReaderProgress, TypeOK
  <2>3. CASE EndReadAccept(r)
    BY <2>3 DEF EndReadAccept, RingInv, TypeOK
  <2>4. CASE EndReadOverrun(r)
    BY <2>4 DEF EndReadOverrun, RingInv, TypeOK
  <2>5. CASE ReaderClose(r)
    BY <2>5 DEF ReaderClose, RingInv, TypeOK
  <2> QED
    BY <2>1, <2>2, <2>3, <2>4, <2>5 DEF Reader, ReadStep
<1>5. TornBetweenNeighbours'
  <2> SUFFICES ASSUME NEW q \in Readers, rstate'[q] = "ready",
                      sync[rindex'[q]] = sync_counter'[q],
                      NEW v \in Words, v <= sent[sync_counter'[q]]
               PROVE  view'[q][v] \in {Unread, sync_counter'[q], sync_counter'[q] + N}
    BY <1>1 DEF TornBetweenNeighbours
  <2>1. CASE q # r
    BY <1>3, <2>1 DEF TornBetweenNeighbours
  <2>2. CASE q = r /\ view'[r] = Blank
    BY <2>2 DEF Blank
  <2>3. ASSUME q = r, NEW w \in Words, ReadWord(r, w)
        PROVE  view'[q][v] \in {Unread, sync_counter'[q], sync_counter'[q] + N}
    <3>1. /\ rindex'[q] = rindex[q] /\ sync_counter'[q] = sync_counter[q]
          /\ rstate[q] = "ready"
      BY <2>3 DEF ReadWord
    <3>2. view'[q][v] = view[q][v] \/ view'[q][v] = data[rindex[q]][v]
      BY <2>3 DEF ReadWord, RingInv, TypeOK
    <3>3. rindex[q] \in Slots /\ sync_counter[q] # 0
      BY ReaderTypes DEF RingInv
    <3>4. data[rindex[q]][v] \in {sync_counter[q], sync_counter[q] + N}
      BY <3>1, <3>3 DEF NeighbourWords
    <3>5. view[q][v] \in {Unread, sync_counter[q], sync_counter[q] + N}
      BY <3>1 DEF TornBetweenNeighbours
    <3> QED
      BY <3>1, <3>2, <3>4, <3>5
  <2> QED
    BY <1>4, <2>1, <2>2, <2>3
<1> QED
  BY <1>2, <1>5

(* What end_read accepts is a mix of at most two neighbouring laps, for    *)
(* every ring, every set of readers and every interleaving of the copies.  *)
THEOREM TornByOneLap == Spec => []TornBetweenNeighbours
<1>1. Init => NeighbourWords /\ TornBetweenNeighbours
  BY DEF Init, NeighbourWords, TornBetweenNeighbours
<1>2. RingInv /\ NeighbourWords /\ TornBetweenNeighbours /\ [Next]_vars
        => NeighbourWords' /\ TornBetweenNeighbours'
  <2> SUFFICES ASSUME RingInv, NeighbourWords, TornBetweenNeighbours, [Next]_vars
               PROVE  NeighbourWords' /\ TornBetweenNeighbours'
    OBVIOUS
  <2>1. ASSUME NEW w \in 1..(W + 1), StoreWord(w)
        PROVE  NeighbourWords' /\ TornBetweenNeighbours'
    BY <2>1, StoreWordTorn
  <2>2. CASE EndWriteCommit
    BY <2>2, EndWriteCommitTorn
  <2>3. CASE UNCHANGED <<sync, data, sent, readerVars>>
    BY <2>3 DEF NeighbourWords, TornBetweenNeighbours, readerVars
  <2>4. ASSUME NEW r \in Readers, Reader(r)
        PROVE  NeighbourWords' /\ TornBetweenNeighbours'
    BY <2>4, ReadStepTorn
  <2>5. ASSUME NEW l \in Lengths, StartWrite(l) \/ AssignWrite(l) \/ EndWrite(l)
        PROVE  UNCHANGED <<sync, data, sent, readerVars>>
    BY <2>5 DEF StartWrite, AssignWrite, EndWrite, ringVars
  <2>6. EndWriteLen \/ WriterClose \/ UNCHANGED vars
          => UNCHANGED <<sync, data, sent, readerVars>>
    BY DEF EndWriteLen, WriterClose, vars, ringVars
  <2> QED
    BY <2>1, <2>2, <2>3, <2>4, <2>5, <2>6 DEF Next, Writer
<1> QED
  BY <1>1, <1>2, RingInvariant, PTL DEF Spec

-----------------------------------------------------------------------------
(* The refinement.                                                         *)

(* An empty ring is an empty channel.                                      *)
LEMMA RefinementInit == Init => Channel!Init
BY DEF Init, Channel!Init, Records, Channel!Records

(* The commit is the publication of the next record.                       *)
LEMMA CommitPublishes ==
  ASSUME RingInv, EndWriteCommit
  PROVE  Channel!Publish
<1>1. sync_count < MaxSync /\ wlen \in 0..W
  BY RingAssumption DEF RingInv, TypeOK, WriteProgress, EndWriteCommit
<1> QED
  BY <1>1 DEF EndWriteCommit, Channel!Publish

(* An accepting end_read accepts a retained record in order.               *)
LEMMA AcceptAccepts ==
  ASSUME RingInv, NEW r \in Readers, EndReadAccept(r)
  PROVE  \E c \in Channel!Records : Channel!Accept(r, c)
<1> USE RingAssumption DEF RingInv
<1>1. rindex[r] \in Slots /\ sync_counter[r] \in 1..MaxSync
  BY DEF TypeOK, EndReadAccept
<1>2. sync_counter[r] \in 0..sync_count /\ sync_count < sync_counter[r] + N
  BY <1>1, StampBounds DEF EndReadAccept
<1>3. /\ last[r] < sync_counter[r]
      /\ sync_counter[r] = last[r] + 1 \/ last[r] + 1 + N <= sync_count
  BY DEF ReaderProgress
<1>4. UNCHANGED <<sync_count, sent>> /\ last' = [last EXCEPT ![r] = sync_counter[r]]
  BY DEF EndReadAccept, writerVars
<1>5. Channel!Accept(r, sync_counter[r])
  BY <1>1, <1>2, <1>3, <1>4 DEF Channel!Accept
<1> QED
  BY <1>1, <1>5 DEF Channel!Records

(* Every step of the ring is a step of the channel or leaves it alone.     *)
LEMMA RefinementStep == RingInv /\ [Next]_vars => [Channel!Next]_(Channel!vars)
<1> SUFFICES ASSUME RingInv, [Next]_vars PROVE [Channel!Next]_(Channel!vars)
  OBVIOUS
<1>1. CASE EndWriteCommit
  BY <1>1, CommitPublishes DEF Channel!Next
<1>2. ASSUME NEW r \in Readers, EndReadAccept(r)
      PROVE  Channel!Next
  BY <1>2, AcceptAccepts DEF Channel!Next
<1>3. ASSUME NEW l \in Lengths, StartWrite(l) \/ AssignWrite(l) \/ EndWrite(l)
      PROVE  UNCHANGED Channel!vars
  BY <1>3 DEF StartWrite, AssignWrite, EndWrite, Channel!vars
<1>4. ASSUME NEW w \in 1..(W + 1), StoreWord(w)
      PROVE  UNCHANGED Channel!vars
  BY <1>4 DEF StoreWord, Channel!vars
<1>5. CASE EndWriteLen \/ WriterClose
  BY <1>5 DEF EndWriteLen, WriterClose, Channel!vars
<1>6. ASSUME NEW r \in Readers,
             PrepareNext(r) \/ PrepareLen(r) \/ EndReadOverrun(r) \/ ReaderClose(r)
      PROVE  UNCHANGED Channel!vars
  BY <1>6 DEF PrepareNext, PrepareLen, EndReadOverrun, ReaderClose, writerVars, Channel!vars
<1>7. ASSUME NEW r \in Readers, NEW w \in Words, ReadWord(r, w)
      PROVE  UNCHANGED Channel!vars
  BY <1>7 DEF ReadWord, writerVars, Channel!vars
<1>8. CASE UNCHANGED vars
  BY <1>8 DEF vars, writerVars, Channel!vars
<1> QED
  BY <1>1, <1>2, <1>3, <1>4, <1>5, <1>6, <1>7, <1>8 DEF Next, Writer, Reader, ReadStep

(* The ring implements the lossy channel: a reader gets committed records  *)
(* in order and without duplicates, each among the last N, and misses one  *)
(* only after being lapped, whatever the interleaving of the copies.       *)
THEOREM RingRefinesChannel == Spec => ImplementsChannel
<1> QED
  BY RefinementInit, RefinementStep, RingInvariant, PTL
     DEF Spec, ImplementsChannel, Channel!Spec
=============================================================================
