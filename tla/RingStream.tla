----------------------------- MODULE RingStream -----------------------------
(***************************************************************************)
(* The ring streams of camio: one camio_ostream_ring and any number of     *)
(* camio_istream_ring over the same memory-mapped file, each in a process  *)
(* of its own.  The file is an array of fixed-size slots.  A slot is W     *)
(* words of payload followed by a length word and a stamp word; the writer *)
(* stores payload, length and stamp in that order, and the stamp commits   *)
(* the record.  There is no lock and no flow control: a reader compares    *)
(* the stamp with the number it expects, before the payload is used (ready *)
(* or start_read) and after (end_read), to find out that it was lapped.    *)
(*                                                                         *)
(* Every load and store of shared memory is a step of its own, in program  *)
(* order (the order an x86 build keeps).  The words of a payload may be    *)
(* copied in any order.  Updates of private fields are part of the step    *)
(* with the neighbouring shared access.  A payload word is the number of   *)
(* the record it belongs to, which is all the properties tell apart.  The  *)
(* stamps are uint64_t in the code; MaxSync bounds them.                   *)
(***************************************************************************)
EXTENDS Integers

CONSTANTS N,        \* slots in the ring: RING_SIZE / RING_SLOT_SIZE
          W,        \* payload words of a slot: RING_SLOT_SIZE - 16 bytes
          Readers,  \* the reading processes
          Lengths,  \* the record lengths, in words, that callers ask for
          MaxSync   \* bound on the number of records committed

(* A request longer than W + 1 words is refused by start_write, which      *)
(* returns NULL and changes nothing, so W + 1 is the longest one modelled. *)
ASSUME RingAssumption ==
  /\ N \in Nat \ {0}
  /\ W \in Nat \ {0}
  /\ MaxSync \in Nat
  /\ Lengths \subseteq 0..(W + 1)

VARIABLES
  sync,          \* sync[i]: stamp word of slot i
  len,           \* len[i]: length word of slot i
  data,          \* data[i][w]: payload word w of slot i
  sync_count,    \* ostream: number of records committed
  windex,        \* ostream: index of the slot curr points at
  wstate,        \* ostream: where the writing process is
  wlen,          \* ostream: length of the write in progress
  todo,          \* ostream: words of that write not yet stored
  sync_counter,  \* istream: stamp expected at the current slot
  rindex,        \* istream: index of the slot curr points at
  read_size,     \* istream: length of the record being read, 0 if none
  rstate,        \* istream: where the reading process is
  view,          \* the words the reader's caller has copied out of the slot
  sent,          \* history: sent[c] is the length record c was committed with
  last           \* history: last record for which end_read returned 0

ringVars == <<sync, len, data>>
writerVars == <<sync_count, windex, wstate, wlen, todo>>
readerVars == <<sync_counter, rindex, read_size, rstate, view>>
vars == <<ringVars, writerVars, readerVars, sent, last>>

Slots == 0..(N - 1)
Words == 1..W
Records == 1..MaxSync
Unread == -1
Blank == [w \in Words |-> Unread]

WriterStates ==
  {"idle", "filling", "assigned", "copying", "len", "sync", "exited", "closed"}
ReaderStates == {"idle", "len", "ready", "closed"}

TypeOK ==
  /\ sync \in [Slots -> 0..MaxSync]
  /\ len \in [Slots -> 0..(W + 1)]
  /\ data \in [Slots -> [Words -> 0..MaxSync]]
  /\ sync_count \in 0..MaxSync
  /\ windex \in Slots
  /\ wstate \in WriterStates
  /\ wlen \in 0..(W + 1)
  /\ todo \subseteq 1..(W + 1)
  /\ sync_counter \in [Readers -> 1..(MaxSync + 1)]
  /\ rindex \in [Readers -> Slots]
  /\ read_size \in [Readers -> 0..(W + 1)]
  /\ rstate \in [Readers -> ReaderStates]
  /\ view \in [Readers -> [Words -> {Unread} \union 0..MaxSync]]
  /\ sent \in [Records -> 0..W]
  /\ last \in [Readers -> 0..MaxSync]

(* The file has been created, zeroed and mapped by everybody; the opening  *)
(* protocol itself is not part of this module.                             *)
Init ==
  /\ sync = [i \in Slots |-> 0]
  /\ len = [i \in Slots |-> 0]
  /\ data = [i \in Slots |-> [w \in Words |-> 0]]
  /\ sync_count = 0
  /\ windex = 0
  /\ wstate = "idle"
  /\ wlen = 0
  /\ todo = {}
  /\ sync_counter = [r \in Readers |-> 1]
  /\ rindex = [r \in Readers |-> 0]
  /\ read_size = [r \in Readers |-> 0]
  /\ rstate = [r \in Readers |-> "idle"]
  /\ view = [r \in Readers |-> Blank]
  /\ sent = [c \in Records |-> 0]
  /\ last = [r \in Readers |-> 0]

-----------------------------------------------------------------------------
(* The writer.                                                             *)

(* start_write hands out a pointer into the shared slot itself, which the  *)
(* caller then fills.                                                      *)
StartWrite(l) ==
  /\ wstate = "idle"
  /\ sync_count < MaxSync
  /\ wstate' = "filling"
  /\ wlen' = l
  /\ todo' = 1..l
  /\ UNCHANGED <<ringVars, sync_count, windex, readerVars, sent, last>>

(* assign_write only remembers the caller's buffer; end_write copies it.   *)
AssignWrite(l) ==
  /\ wstate = "idle"
  /\ sync_count < MaxSync
  /\ wstate' = "assigned"
  /\ wlen' = l
  /\ UNCHANGED <<ringVars, sync_count, windex, todo, readerVars, sent, last>>

(* One word of payload reaches the slot, stored by the caller of           *)
(* start_write or by the memcpy in end_write.  Word W + 1, which           *)
(* start_write allows, is the length word: what a reader then finds there  *)
(* is payload, any number, W + 1 standing for all that exceed the slot.    *)
StoreWord(w) ==
  /\ wstate \in {"filling", "copying"}
  /\ w \in todo
  /\ todo' = todo \ {w}
  /\ \/ /\ w \in Words
        /\ data' = [data EXCEPT ![windex][w] = sync_count + 1]
        /\ UNCHANGED len
     \/ /\ w = W + 1
        /\ \E garbage \in 0..(W + 1) : len' = [len EXCEPT ![windex] = garbage]
        /\ UNCHANGED data
  /\ UNCHANGED <<sync, sync_count, windex, wstate, wlen, readerVars, sent, last>>

(* Mutant: end_write forgets to copy an assigned buffer.                   *)
EndWriteForgetsCopy(l) ==
  /\ wstate \in {"filling", "assigned"}
  /\ todo = {}
  /\ l <= wlen
  /\ wlen' = l
  /\ wstate' = IF l > W THEN "exited" ELSE "len"
  /\ UNCHANGED <<ringVars, sync_count, windex, todo, readerVars, sent, last>>

(* end_write is called with at most the length of start_write.  It exits   *)
(* the process when the record does not fit.                               *)
EndWrite(l) ==
  /\ wstate \in {"filling", "assigned"}
  /\ todo = {}
  /\ l <= wlen
  /\ wlen' = l
  /\ \/ /\ l > W
        /\ wstate' = "exited"
        /\ UNCHANGED todo
     \/ /\ l <= W
        /\ wstate = "assigned"
        /\ wstate' = "copying"
        /\ todo' = 1..l
     \/ /\ l <= W
        /\ wstate = "filling"
        /\ wstate' = "len"
        /\ UNCHANGED todo
  /\ UNCHANGED <<ringVars, sync_count, windex, readerVars, sent, last>>

(* Mutant: the length word is not stored.                                  *)
EndWriteSkipsLen ==
  /\ wstate = "len" \/ (wstate = "copying" /\ todo = {})
  /\ wstate' = "sync"
  /\ UNCHANGED <<ringVars, sync_count, windex, wlen, todo, readerVars, sent, last>>

EndWriteLen ==
  /\ wstate = "len" \/ (wstate = "copying" /\ todo = {})
  /\ len' = [len EXCEPT ![windex] = wlen]
  /\ wstate' = "sync"
  /\ UNCHANGED <<sync, data, sync_count, windex, wlen, todo, readerVars, sent, last>>

(* "Write is now committed", and the writer moves to the next slot.        *)
EndWriteCommit ==
  /\ wstate = "sync"
  /\ sync_count' = sync_count + 1
  /\ sync' = [sync EXCEPT ![windex] = sync_count + 1]
  /\ sent' = [sent EXCEPT ![sync_count + 1] = wlen]
  /\ windex' = (windex + 1) % N
  /\ wstate' = "idle"
  /\ wlen' = 0
  /\ UNCHANGED <<len, data, todo, readerVars, last>>

(* close unmaps and unlinks the file; the readers keep their mapping.      *)
WriterClose ==
  /\ wstate = "idle"
  /\ wstate' = "closed"
  /\ UNCHANGED <<ringVars, sync_count, windex, wlen, todo, readerVars, sent, last>>

Writer ==
  \/ \E l \in Lengths : StartWrite(l) \/ AssignWrite(l) \/ EndWrite(l)
  \/ \E w \in 1..(W + 1) : StoreWord(w)
  \/ EndWriteLen
  \/ EndWriteCommit
  \/ WriterClose

-----------------------------------------------------------------------------
(* A reader.                                                               *)

(* ready, or an iteration of the loop of start_read, loads the stamp of    *)
(* the current slot.  A smaller stamp means there is no new record yet; a  *)
(* larger one means that the reader was lapped, and it catches up.         *)
PrepareNext(r) ==
  LET curr_sync_count == sync[rindex[r]] IN
  /\ rstate[r] = "idle"
  /\ \/ /\ curr_sync_count = sync_counter[r]
        /\ rstate' = [rstate EXCEPT ![r] = "len"]
        /\ UNCHANGED sync_counter
     \/ /\ curr_sync_count > sync_counter[r]
        /\ sync_counter' = [sync_counter EXCEPT ![r] = curr_sync_count]
        /\ rstate' = [rstate EXCEPT ![r] = "len"]
     \/ /\ curr_sync_count < sync_counter[r]
        /\ UNCHANGED <<rstate, sync_counter>>
  /\ UNCHANGED <<ringVars, writerVars, rindex, read_size, view, sent, last>>

(* ... and then the length word.  A length of 0 leaves read_size at 0,     *)
(* which is how the code says that nothing is waiting.                     *)
PrepareLen(r) ==
  /\ rstate[r] = "len"
  /\ read_size' = [read_size EXCEPT ![r] = len[rindex[r]]]
  /\ rstate' = [rstate EXCEPT ![r] = IF len[rindex[r]] = 0 THEN "idle" ELSE "ready"]
  /\ UNCHANGED <<ringVars, writerVars, sync_counter, rindex, view, sent, last>>

(* Between start_read and end_read the caller reads the record in place,   *)
(* in the shared slot.                                                     *)
ReadWord(r, w) ==
  /\ rstate[r] = "ready"
  /\ w <= read_size[r]
  /\ view[r][w] = Unread
  /\ view' = [view EXCEPT ![r][w] = data[rindex[r]][w]]
  /\ UNCHANGED <<ringVars, writerVars, sync_counter, rindex, read_size, rstate, sent, last>>

(* Mutants: end_read does not look at the stamp again; on an overrun it    *)
(* moves to the next slot; on an overrun it expects the record after.      *)
EndReadUnchecked(r) ==
  /\ rstate[r] = "ready"
  /\ last' = [last EXCEPT ![r] = sync_counter[r]]
  /\ sync_counter' = [sync_counter EXCEPT ![r] = @ + 1]
  /\ rindex' = [rindex EXCEPT ![r] = (@ + 1) % N]
  /\ read_size' = [read_size EXCEPT ![r] = 0]
  /\ rstate' = [rstate EXCEPT ![r] = "idle"]
  /\ view' = [view EXCEPT ![r] = Blank]
  /\ UNCHANGED <<ringVars, writerVars, sent>>

EndReadOverrunTo(r, s, i) ==
  /\ rstate[r] = "ready"
  /\ sync[rindex[r]] # sync_counter[r]
  /\ sync_counter' = [sync_counter EXCEPT ![r] = s]
  /\ rindex' = [rindex EXCEPT ![r] = i]
  /\ read_size' = [read_size EXCEPT ![r] = 0]
  /\ rstate' = [rstate EXCEPT ![r] = "idle"]
  /\ view' = [view EXCEPT ![r] = Blank]
  /\ UNCHANGED <<ringVars, writerVars, sent, last>>
EndReadOverrunMoves(r) ==
  EndReadOverrunTo(r, sync[rindex[r]], (rindex[r] + 1) % N)
EndReadOverrunSkips(r) ==
  EndReadOverrunTo(r, sync[rindex[r]] + 1, rindex[r])

(* end_read returns 0 and moves on when the stamp is still the expected    *)
(* one, otherwise it returns -1 and stays at the slot.                     *)
EndReadAccept(r) ==
  /\ rstate[r] = "ready"
  /\ sync[rindex[r]] = sync_counter[r]
  /\ last' = [last EXCEPT ![r] = sync_counter[r]]
  /\ sync_counter' = [sync_counter EXCEPT ![r] = @ + 1]
  /\ rindex' = [rindex EXCEPT ![r] = (@ + 1) % N]
  /\ read_size' = [read_size EXCEPT ![r] = 0]
  /\ rstate' = [rstate EXCEPT ![r] = "idle"]
  /\ view' = [view EXCEPT ![r] = Blank]
  /\ UNCHANGED <<ringVars, writerVars, sent>>

EndReadOverrun(r) ==
  /\ rstate[r] = "ready"
  /\ sync[rindex[r]] # sync_counter[r]
  /\ sync_counter' = [sync_counter EXCEPT ![r] = sync[rindex[r]]]
  /\ read_size' = [read_size EXCEPT ![r] = 0]
  /\ rstate' = [rstate EXCEPT ![r] = "idle"]
  /\ view' = [view EXCEPT ![r] = Blank]
  /\ UNCHANGED <<ringVars, writerVars, rindex, sent, last>>

(* delete closes the stream, between two records.                          *)
ReaderClose(r) ==
  /\ rstate[r] = "idle"
  /\ rstate' = [rstate EXCEPT ![r] = "closed"]
  /\ UNCHANGED <<ringVars, writerVars, sync_counter, rindex, read_size, view, sent, last>>

ReadStep(r) ==
  \/ PrepareNext(r)
  \/ PrepareLen(r)
  \/ \E w \in Words : ReadWord(r, w)
  \/ EndReadAccept(r)
  \/ EndReadOverrun(r)

Reader(r) == ReadStep(r) \/ ReaderClose(r)

Next == Writer \/ \E r \in Readers : Reader(r)

Spec == Init /\ [][Next]_vars

(* start_read spins until there is a record and camio_cat's loop calls it  *)
(* again and again, so a reader that can go on does.  Nothing is assumed   *)
(* of the writer, which may stop or die at any step.                       *)
FairSpec == Spec /\ \A r \in Readers : WF_vars(ReadStep(r))

-----------------------------------------------------------------------------
(* What the ring promises.                                                 *)

(* The writer has a write in progress, possibly abandoned, in slot i.      *)
Overwriting(i) == i = windex /\ wstate \notin {"idle", "closed"}

(* The first record of the writer's current lap is LapStart + 1.           *)
LapStart == sync_count - windex

(* The newest record committed in slot i, 0 if none, and the next one due. *)
Newest(i) ==
  IF i < windex THEN LapStart + i + 1
  ELSE IF LapStart = 0 THEN 0
  ELSE LapStart + i + 1 - N
Due(i) == IF i < windex THEN LapStart + N + i + 1 ELSE LapStart + i + 1

(* Every slot carries the stamp of the newest record committed in it, so   *)
(* the ring always holds the last N records and nothing else               *)
(* (camio_ostream_ring_end_write: stamp, index and curr move together).    *)
StampsConsistent ==
  /\ LapStart = 0 \/ LapStart >= N
  /\ \A i \in Slots : sync[i] = Newest(i)

(* Readers do not lose their place: at its current slot a reader expects   *)
(* the record that is there, the one that is due there next, or one that   *)
(* was overwritten there whole laps ago, never a record of another slot.   *)
(* It holds across overruns found by prepare_next and by end_read.         *)
ReaderInStep ==
  \A r \in Readers :
    LET i == rindex[r]  s == sync_counter[r] IN
    s = Newest(i) \/ s = Due(i) \/ s + N <= Newest(i)

(* When end_read is about to return 0 and no write has begun in the slot,  *)
(* what the caller copied is one whole record with its own length: stamps  *)
(* checked before and after the copy detect every completed overwrite.     *)
IntactUnlessOverwriting ==
  \A r \in Readers :
    LET i == rindex[r]  s == sync_counter[r] IN
    (rstate[r] = "ready" /\ sync[i] = s /\ ~Overwriting(i)) =>
      /\ read_size[r] = sent[s]
      /\ \A w \in Words : view[r][w] \in {Unread, s}

(* Even while a write is in progress in the slot, the record that end_read *)
(* accepts is a mix of at most two, the expected one and the one a lap     *)
(* later: no word of it is older, or from two laps later.                  *)
TornBetweenNeighbours ==
  \A r \in Readers :
    LET i == rindex[r]  s == sync_counter[r] IN
    (rstate[r] = "ready" /\ sync[i] = s) =>
      \A w \in Words : w <= sent[s] => view[r][w] \in {Unread, s, s + N}

(* The ring implements the lossy channel: commits publish, an accepting    *)
(* end_read accepts; no duplicate, no reordering, no record from before    *)
(* the last N, and none missing unless the reader was lapped.              *)
Channel == INSTANCE LossyChannel
             WITH Window <- N, MaxRecords <- MaxSync, Sizes <- 0..W,
                  published <- sync_count
ImplementsChannel == Channel!Spec

(* Reader r stands at a record whose length word is 0, which prepare_next  *)
(* and start_read take for no record at all.                               *)
AtEmptyRecord(r) == sync[rindex[r]] >= sync_counter[r] /\ len[rindex[r]] = 0

(* Once the writer stops, wherever it stops, a reader that is not closed   *)
(* ends up with the newest committed record, unless it is stuck for good   *)
(* at an empty one: nothing else makes start_read spin for ever.           *)
CatchesUp ==
  \A r \in Readers :
    <>[](rstate[r] = "closed" \/ last[r] = sync_count \/ AtEmptyRecord(r))

-----------------------------------------------------------------------------
(* The inductive invariant behind these properties.                        *)

(* How far the write in progress has come: what it stored is in place, and *)
(* a write that passed end_write's check fits in the slot.                 *)
WriteProgress ==
  /\ wstate \notin {"filling", "copying"} => todo = {}
  /\ wstate \notin {"idle", "closed"} => sync_count < MaxSync
  /\ wstate \in {"copying", "len", "sync"} => wlen <= W
  /\ wstate \in {"filling", "copying", "len", "sync"} =>
       \A w \in Words : (w <= wlen /\ w \notin todo) =>
         data[windex][w] = sync_count + 1
  /\ wstate = "sync" => len[windex] = wlen

(* A slot in which no write is in progress holds the record of its stamp.  *)
SettledSlots ==
  \A i \in Slots : (sync[i] # 0 /\ ~Overwriting(i)) =>
    /\ len[i] = sent[sync[i]]
    /\ \A w \in Words : w <= len[i] => data[i][w] = sync[i]

(* The words of a slot's record are still there, or already those of the   *)
(* record a lap later.                                                     *)
NeighbourWords ==
  \A i \in Slots : sync[i] # 0 =>
    \A w \in Words : w <= sent[sync[i]] => data[i][w] \in {sync[i], sync[i] + N}

(* A reader is past what it accepted, at most one record ahead of the      *)
(* writer, and once it has seen a stamp it never sees a smaller one there. *)
ReaderProgress ==
  \A r \in Readers :
    /\ last[r] < sync_counter[r]
    /\ sync_counter[r] <= sync_count + 1
    /\ sync_counter[r] = last[r] + 1 \/ last[r] + 1 + N <= sync_count
    /\ rstate[r] \in {"len", "ready"} => sync_counter[r] <= sync[rindex[r]]
    /\ rstate[r] # "ready" => view[r] = Blank

(* The conjunction of all parts; preserved by every step.                  *)
RingInv ==
  /\ TypeOK
  /\ StampsConsistent
  /\ WriteProgress
  /\ SettledSlots
  /\ ReaderInStep
  /\ ReaderProgress
  /\ IntactUnlessOverwriting

-----------------------------------------------------------------------------
(* What a comment in the repository says of the ring and the code does not *)
(* do; it is checked, and refuted, in a run of its own.                    *)

(* istreams/camio_istream.h on end_read: "Returns 0 if the contents of     *)
(* out_bytes have NOT changed since the call to start_read".               *)
EndReadDetectsChange ==
  [][\A r \in Readers : EndReadAccept(r) =>
       \A w \in Words : view[r][w] \in {Unread, sync_counter[r]}]_vars
=============================================================================
