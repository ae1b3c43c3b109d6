------------------------------ MODULE CamioCat ------------------------------
(***************************************************************************)
(* camio_cat (camio_cat.c): the loop that reads a record from whichever    *)
(* input the selector returns and writes it to every output, composed with *)
(* what the streams do at each call of the loop.                           *)
(*                                                                         *)
(* An input is a file (the log istream) or a ring.  A file hands out its   *)
(* lines and needs nothing back.  A ring hands out a pointer into memory   *)
(* the writer goes on overwriting, payload first and stamp afterwards, and *)
(* end_read tells whether the stamp has changed.  The single words of a    *)
(* payload are the subject of RingStream; here the payload of a slot is    *)
(* that of one record, and each call of the loop is one step.  An output   *)
(* either takes over the buffer of the input until end_write (all but      *)
(* netmap do) or has it copied into its own (netmap), if the record fits   *)
(* there.  Of the selector the loop uses only that it returns a ready      *)
(* stream it watches.                                                      *)
(*                                                                         *)
(* A record is known by its input and its number there, from 1.            *)
(***************************************************************************)
EXTENDS Integers, Sequences, SequencesExt

CONSTANTS Files, Rings,   \* the inputs there are
          Setups,         \* the command lines: [inputs, outputs, assigning],
                          \* the inputs used, the number of outputs, and those
                          \* of them whose can_assign_write is true
          N,              \* slots of a ring
          MaxWrites,      \* bound on the records written to a ring
          MaxLines,       \* bound on the lines of a file
          Lengths         \* lengths of lines: blank, short, or too long to
                          \* fit a copying output

BlankLine == 0
Short == 1
Long == 2

ASSUME CatAssumption ==
  /\ Files \intersect Rings = {} /\ Files \union Rings # {}
  /\ "null" \notin Files \union Rings
  /\ Setups \subseteq [inputs : SUBSET (Files \union Rings), outputs : Nat \ {0},
                       assigning : SUBSET Nat]
  /\ N \in Nat /\ N >= 2
  /\ MaxWrites \in Nat /\ MaxLines \in Nat
  /\ Lengths \subseteq {BlankLine, Short, Long}

VARIABLES
  setup,         \* the command line
  lines,         \* lines[f]: the lengths of the lines of file f
  next,          \* next[f]: how many of them start_read has returned
  slots,         \* slots[r][x]: the stamp of slot x, 0 if none: a record number
  payload,       \* payload[r][x]: the record whose bytes are in slot x
  sync_count,    \* sync_count[r]: records written to ring r
  sync_counter,  \* sync_counter[r]: the number the reader of r expects
  index,         \* index[r]: the slot it expects it in
  streams,       \* the inputs the selector watches
  pc,            \* "select", "write", "commit", "end", "exited" or "failed"
  in,            \* the input selected
  i,             \* the output in turn
  in_buff,       \* where the record is, or NullBuffer
  assigned,      \* the buffer the output has taken over, or NullBuffer
  copied,        \* the record in the output's own buffer, or NullBuffer
  written,       \* written[o]: what output o has written: [of, rec]
  accepted,      \* history: accepted[o], those of them no overrun was
                 \* reported for: [of, rec, data], the record end_read
                 \* vouched for and the one whose bytes were written
  selected       \* history: the records start_read returned: [of, rec]

inputs == <<setup, lines, next, slots, payload, sync_count, sync_counter, index>>
buffers == <<in_buff, assigned, copied>>
history == <<accepted, selected>>
vars == <<inputs, streams, pc, in, i, buffers, written, history>>

Inputs == Files \union Rings
Outputs == setup.outputs
Assigning == setup.assigning
NullBuffer == [of |-> "null", at |-> 0]
Pointers == {NullBuffer} \union [of : Files, at : 1..MaxLines]
                   \union [of : Rings, at : 0..(N - 1)]
Numbers == 0..(IF MaxLines > MaxWrites THEN MaxLines ELSE MaxWrites)
Records == [of : Inputs, rec : Numbers]
Readings == [of : Inputs, rec : Numbers, data : Numbers]
Contents == UNION {[1..n -> Lengths] : n \in 0..MaxLines}

TypeOK ==
  /\ setup \in Setups
  /\ lines \in [Files -> Contents]
  /\ next \in [Files -> 0..MaxLines] /\ \A f \in Files : next[f] <= Len(lines[f])
  /\ slots \in [Rings -> [0..(N - 1) -> 0..MaxWrites]]
  /\ payload \in [Rings -> [0..(N - 1) -> 0..MaxWrites]]
  /\ sync_count \in [Rings -> 0..MaxWrites]
  /\ sync_counter \in [Rings -> 0..(MaxWrites + 1)]
  /\ index \in [Rings -> 0..(N - 1)]
  /\ streams \subseteq Inputs
  /\ pc \in {"select", "write", "commit", "end", "exited", "failed"}
  /\ in \in Inputs
  /\ i \in 1..Outputs
  /\ in_buff \in Pointers /\ assigned \in Pointers
  /\ copied \in {NullBuffer} \union Records
  /\ written \in [1..Outputs -> Seq(Records)]
  /\ accepted \in [1..Outputs -> Seq(Readings)]
  /\ selected \in Seq(Records)

Init ==
  /\ setup \in Setups
  /\ lines \in [Files -> Contents]
  /\ \A f \in Files \ setup.inputs : lines[f] = <<>>
  /\ next = [f \in Files |-> 0]
  /\ slots = [r \in Rings |-> [x \in 0..(N - 1) |-> 0]]
  /\ payload = slots
  /\ sync_count = [r \in Rings |-> 0]
  /\ sync_counter = [r \in Rings |-> 1]
  /\ index = [r \in Rings |-> 0]
  /\ streams = setup.inputs
  /\ pc = "select"
  /\ in = CHOOSE x \in Inputs : TRUE
  /\ i = 1
  /\ in_buff = NullBuffer /\ assigned = NullBuffer /\ copied = NullBuffer
  /\ written = [o \in 1..Outputs |-> <<>>]
  /\ accepted = [o \in 1..Outputs |-> <<>>]
  /\ selected = <<>>

-----------------------------------------------------------------------------
(* The writer of a ring, a process of its own that waits for nobody.  It    *)
(* copies a record into the next slot and then stores its number there; in  *)
(* between the slot has the new bytes under the old stamp.                  *)

NextSlot(r) == sync_count[r] % N

Store(r) ==
  /\ sync_count[r] < MaxWrites
  /\ payload[r][NextSlot(r)] # sync_count[r] + 1
  /\ payload' = [payload EXCEPT ![r][NextSlot(r)] = sync_count[r] + 1]
  /\ UNCHANGED <<setup, lines, next, slots, sync_count, sync_counter, index, streams, pc,
                 in, i, buffers, written, history>>

Publish(r) ==
  /\ payload[r][NextSlot(r)] = sync_count[r] + 1
  /\ sync_count' = [sync_count EXCEPT ![r] = @ + 1]
  /\ slots' = [slots EXCEPT ![r][NextSlot(r)] = sync_count[r] + 1]
  /\ UNCHANGED <<setup, lines, next, payload, sync_counter, index, streams, pc, in, i,
                 buffers, written, history>>

-----------------------------------------------------------------------------
(* select, and start_read of the stream it returned.                       *)

SelectLine(f) ==
  /\ pc = "select"
  /\ f \in streams
  /\ next[f] < Len(lines[f]) /\ lines[f][next[f] + 1] # BlankLine
  /\ next' = [next EXCEPT ![f] = @ + 1]
  /\ in_buff' = [of |-> f, at |-> next[f] + 1]
  /\ selected' = Append(selected, [of |-> f, rec |-> next[f] + 1])
  /\ in' = f
  /\ i' = 1
  /\ pc' = "write"
  /\ UNCHANGED <<setup, lines, slots, payload, sync_count, sync_counter, index, streams,
                 assigned, copied, written, accepted>>

(* Without the removal; a mutant of RemoveInput.                           *)
RemoveInputKeeps(f) ==
  /\ pc = "select"
  /\ f \in streams
  /\ next[f] < Len(lines[f]) => lines[f][next[f] + 1] = BlankLine
  /\ next' = [next EXCEPT ![f] = IF @ < Len(lines[f]) THEN @ + 1 ELSE @]
  /\ in' = f
  /\ UNCHANGED <<setup, lines, slots, payload, sync_count, sync_counter, index, streams, pc, i,
                 buffers, written, history>>

(* start_read returned 0: the file is closed, or the line is blank.        *)
RemoveInput(f) ==
  /\ pc = "select"
  /\ f \in streams
  /\ next[f] < Len(lines[f]) => lines[f][next[f] + 1] = BlankLine
  /\ next' = [next EXCEPT ![f] = IF @ < Len(lines[f]) THEN @ + 1 ELSE @]
  /\ streams' = streams \ {f}
  /\ in' = f
  /\ UNCHANGED <<setup, lines, slots, payload, sync_count, sync_counter, index, pc, i, buffers,
                 written, history>>

(* Without catching up after an overflow; a mutant of SelectRecord.        *)
SelectRecordBehind(r) ==
  LET stamp == slots[r][index[r]] IN
  /\ pc = "select"
  /\ r \in streams
  /\ stamp > 0 /\ stamp >= sync_counter[r]
  /\ in_buff' = [of |-> r, at |-> index[r]]
  /\ selected' = Append(selected, [of |-> r, rec |-> stamp])
  /\ in' = r
  /\ i' = 1
  /\ pc' = "write"
  /\ UNCHANGED <<inputs, streams, assigned, copied, written, accepted>>

(* The ring is ready if the slot holds the record expected or a later one. *)
SelectRecord(r) ==
  LET stamp == slots[r][index[r]] IN
  /\ pc = "select"
  /\ r \in streams
  /\ stamp > 0 /\ stamp >= sync_counter[r]
  /\ sync_counter' = [sync_counter EXCEPT ![r] = stamp]
  /\ in_buff' = [of |-> r, at |-> index[r]]
  /\ selected' = Append(selected, [of |-> r, rec |-> stamp])
  /\ in' = r
  /\ i' = 1
  /\ pc' = "write"
  /\ UNCHANGED <<setup, lines, next, slots, payload, sync_count, index, streams, assigned,
                 copied, written, accepted>>

-----------------------------------------------------------------------------
(* The body of the loop over the outputs.                                  *)

(* What is behind a pointer now.                                           *)
Content(p) == [of |-> p.of, rec |-> IF p.of \in Rings THEN payload[p.of][p.at]
                                                      ELSE p.at]

Fits(rec) == rec.of \in Files => lines[rec.of][rec.rec] # Long

NextOutput ==
  IF i < Outputs THEN i' = i + 1 /\ pc' = "write"
                 ELSE i' = i /\ pc' = "select"

(* assign_write; it exits the program on a null buffer.                    *)
Assign ==
  /\ pc = "write"
  /\ i \in Assigning
  /\ assigned' = in_buff
  /\ in_buff' = NullBuffer
  /\ pc' = IF in_buff = NullBuffer THEN "failed" ELSE "commit"
  /\ UNCHANGED <<inputs, streams, in, i, copied, written, history>>

(* The buffer forgotten after the copy too; a mutant of Copy.              *)
CopyForgets ==
  /\ pc = "write"
  /\ i \notin Assigning
  /\ in_buff # NullBuffer => Fits(Content(in_buff))
  /\ copied' = IF in_buff = NullBuffer THEN NullBuffer ELSE Content(in_buff)
  /\ in_buff' = NullBuffer
  /\ pc' = IF in_buff = NullBuffer THEN "failed" ELSE "commit"
  /\ UNCHANGED <<inputs, streams, in, i, assigned, written, history>>

(* start_write and memcpy (from a null pointer, if the buffer is gone).    *)
Copy ==
  /\ pc = "write"
  /\ i \notin Assigning
  /\ in_buff # NullBuffer => Fits(Content(in_buff))
  /\ copied' = IF in_buff = NullBuffer THEN NullBuffer ELSE Content(in_buff)
  /\ pc' = IF in_buff = NullBuffer THEN "failed" ELSE "commit"
  /\ UNCHANGED <<inputs, streams, in, i, in_buff, assigned, written, history>>

(* A break where the code has a continue; a mutant of NoBuffer.            *)
NoBufferStops ==
  /\ pc = "write"
  /\ i \notin Assigning
  /\ in_buff # NullBuffer /\ ~Fits(Content(in_buff))
  /\ pc' = "select"
  /\ UNCHANGED <<inputs, streams, in, i, buffers, written, history>>

(* start_write has no buffer of that size: on to the next output.          *)
NoBuffer ==
  /\ pc = "write"
  /\ i \notin Assigning
  /\ in_buff # NullBuffer /\ ~Fits(Content(in_buff))
  /\ NextOutput
  /\ UNCHANGED <<inputs, streams, in, buffers, written, history>>

(* end_write: what is in the buffer now goes out.                          *)
EndWrite ==
  LET out == IF assigned # NullBuffer THEN Content(assigned) ELSE copied IN
  /\ pc = "commit"
  /\ written' = [written EXCEPT ![i] = Append(@, out)]
  /\ assigned' = NullBuffer
  /\ copied' = NullBuffer
  /\ pc' = "end"
  /\ UNCHANGED <<inputs, streams, in, i, in_buff, history>>

(* end_read of a file does nothing.  That of a ring compares the slot with *)
(* the number expected; it reports an overrun, after the fact, or moves    *)
(* on to the next slot.                                                    *)
Overrun(r) == slots[r][index[r]] # sync_counter[r]

(* What output i has just written, and for which record.                   *)
Reading == [of |-> in, rec |-> IF in \in Rings THEN sync_counter[in] ELSE next[in],
            data |-> Last(written[i]).rec]

(* Without the check; a mutant of EndRead.                                 *)
EndReadUnchecked ==
  /\ pc = "end"
  /\ NextOutput
  /\ sync_counter' = [r \in Rings |-> sync_counter[r] + IF r = in THEN 1 ELSE 0]
  /\ index' = [r \in Rings |-> IF r = in THEN (index[r] + 1) % N ELSE index[r]]
  /\ accepted' = [accepted EXCEPT ![i] = Append(@, Reading)]
  /\ UNCHANGED <<setup, lines, next, slots, payload, sync_count, streams, in, buffers,
                 written, selected>>

EndRead ==
  /\ pc = "end"
  /\ NextOutput
  /\ IF in \in Rings /\ Overrun(in)
     THEN /\ sync_counter' = [sync_counter EXCEPT ![in] = slots[in][index[in]]]
          /\ UNCHANGED <<index, accepted>>
     ELSE /\ sync_counter' = [r \in Rings |-> sync_counter[r] + IF r = in THEN 1 ELSE 0]
          /\ index' = [r \in Rings |-> IF r = in THEN (index[r] + 1) % N ELSE index[r]]
          /\ accepted' = [accepted EXCEPT ![i] = Append(@, Reading)]
  /\ UNCHANGED <<setup, lines, next, slots, payload, sync_count, streams, in, buffers,
                 written, selected>>

(* No input is left: term() deletes the streams and exits.                 *)
Exit ==
  /\ pc = "select"
  /\ streams = {}
  /\ pc' = "exited"
  /\ UNCHANGED <<inputs, streams, in, i, buffers, written, history>>

Select == \/ \E f \in Files : SelectLine(f) \/ RemoveInput(f)
          \/ \E r \in Rings : SelectRecord(r)
Write == Assign \/ Copy \/ NoBuffer \/ EndWrite
Cat == Select \/ Write \/ EndRead \/ Exit

Next == Cat \/ \E r \in Rings : Store(r) \/ Publish(r)

Spec == Init /\ [][Next]_vars

(* camio_cat is scheduled; nothing is assumed of the writers.              *)
FairSpec == Spec /\ WF_vars(Cat)

-----------------------------------------------------------------------------
(* What end_read lets pass of the last output, the one that takes the      *)
(* buffer over, interleaves the inputs: no record twice, none out of       *)
(* order, and no line of a file missing or changed.  The bytes of a record *)
(* of a ring may be those of the record a lap later, which its writer was  *)
(* storing under the hands of the loop, but never older ones and never any *)
(* later ones.                                                             *)
Merged == INSTANCE Merge WITH Lossless <- Files, Lap <- N,
            MaxRecord <- IF MaxLines > MaxWrites THEN MaxLines ELSE MaxWrites,
            merged <- accepted[Outputs]
MergesInputs == Merged!Spec

(* "Overrun detected for output": end_read reports an overrun only if the  *)
(* writer has overwritten the record this output was given.                *)
OverrunIsReal ==
  [][\A r \in Rings : (EndRead /\ in = r /\ Overrun(r)) =>
       /\ selected[Len(selected)].rec = sync_counter[r]
       /\ sync_count[r] >= sync_counter[r] + N]_vars

(* Between two records, every output has written exactly the records       *)
(* selected so far that it has room for, in the order of selection, if no  *)
(* ring changes them on the way.                                           *)
OnlyFiles == setup.inputs \subseteq Files
HasRoom(o, rec) == o \in Assigning \/ Fits(rec)
WroteUpTo(o, n) ==
  \E f \in [DOMAIN written[o] -> 1..n] :
    /\ \A k \in DOMAIN written[o] : written[o][k] = selected[f[k]]
    /\ \A k, l \in DOMAIN written[o] : k < l => f[k] < f[l]
    /\ {f[k] : k \in DOMAIN written[o]} = {l \in 1..n : HasRoom(o, selected[l])}
EveryOutputComplete ==
  (pc = "select" /\ OnlyFiles) =>
    \A o \in 1..Outputs : WroteUpTo(o, Len(selected))

(* Every file is written up to its first blank line, at which camio_cat    *)
(* takes it for ended, to every output that has room for its lines; and    *)
(* the program exits, unless it has a ring to wait for.                    *)
BeforeBlank(f, k) == \A l \in 1..k : lines[f][l] # BlankLine
AllFilesWritten ==
  <>(~OnlyFiles \/
     (pc = "exited" /\
      \A f \in setup.inputs : \A k \in DOMAIN lines[f] : \A o \in 1..Outputs :
        LET line == [of |-> f, rec |-> k] IN
        BeforeBlank(f, k) /\ HasRoom(o, line) => line \in Range(written[o])))

(* No output is handed a null buffer, as long as the only one that takes   *)
(* the buffer over comes last.                                             *)
NeverFails == pc # "failed"
=============================================================================
