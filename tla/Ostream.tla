------------------------------ MODULE Ostream ------------------------------
(***************************************************************************)
(* The ostreams that hand their data to a descriptor: log (with and        *)
(* without its escape option), blob, udp and raw.  The caller asks for a   *)
(* buffer (start_write) or has the stream take over one of its own         *)
(* (assign_write), and commits it with end_write, which writes it in one   *)
(* or several system calls.  A system call, with what it may return, is a  *)
(* step.                                                                   *)
(*                                                                         *)
(* Writes are numbered, and position p of write w is the item [w, p, as],  *)
(* where as is how the byte appears; position len + 1 is the newline.  An  *)
(* escape sequence that is cut by a short write counts as not written.     *)
(* ready() is not implemented by these streams and exits.                  *)
(***************************************************************************)
EXTENDS Integers, Sequences, FiniteSetsExt

CONSTANTS Kinds,        \* the kinds of ostream there are
          InitSize,     \* initial size of the buffer: 4 MB, 4 kB, a page
          InitWrite,    \* CAMIO_OSTREAM_BLOB_INIT_WRITE_SIZE
          Size,         \* 2^64: size_t counts modulo this
          MaxLen,       \* bound on the length of a write
          MaxWrites,    \* bound on the number of writes
          MaxFailures   \* bound on the system calls that fail

ASSUME OstreamAssumption ==
  /\ Kinds \subseteq {"log", "escape", "blob", "udp", "raw"}
  /\ InitSize \in Nat /\ InitWrite \in Nat \ {0} /\ Size \in Nat
  /\ MaxLen \in Nat /\ MaxLen + 1 < Size /\ InitWrite < Size
  /\ MaxWrites \in Nat /\ MaxFailures \in Nat

VARIABLES
  kind,             \* which ostream this is
  unprintable,      \* the positions whose bytes the escape option rewrites
  buffer,           \* the write whose data the stream's own buffer holds
  buffer_size,
  assigned_buffer,  \* the write whose buffer was taken over, 0 if NULL
  write_size,       \* of blob: what one system call attempts
  pc,               \* "idle"; "filled" when data is ready to be committed;
                    \* "writing" in end_write; "closed"; "exited"; "corrupt"
  room,             \* the length start_write or assign_write was given
  len,              \* the length end_write was given
  done,             \* positions end_write is past: total_written, begin
  writes,           \* history: writes begun
  failures,         \* history: system calls that failed
  output,           \* history: the items the descriptor has accepted
  asked,            \* history: the items committed with end_write
  fell,             \* history: a system call wrote less than it was given
  lost_tail         \* history: the escaping log was given a line that goes on
                    \* after its last unprintable byte

stream == <<kind, unprintable>>
own == <<buffer, buffer_size>>
history == <<writes, failures, output, asked, fell, lost_tail>>
vars == <<stream, own, assigned_buffer, write_size, pc, room, len, done, history>>

Lines == {"log", "escape"}      \* end in a newline
Sockets == {"udp", "raw"}

Item(w, p, as) == [w |-> w, p |-> p, as |-> as]
Forms == {"byte", "hex", "newline"}
Items == [w : 1..MaxWrites, p : 1..(MaxLen + 1), as : Forms]

TypeOK ==
  /\ kind \in Kinds
  /\ unprintable \subseteq 1..MaxLen
  /\ buffer \in 0..MaxWrites /\ buffer_size \in Nat
  /\ assigned_buffer \in 0..MaxWrites
  /\ write_size \in 0..(Size - 1)
  /\ pc \in {"idle", "filled", "writing", "closed", "exited", "corrupt"}
  /\ room \in 0..MaxLen /\ len \in 0..MaxLen
  /\ done \in 0..(Size - 1)
  /\ writes \in 0..MaxWrites /\ failures \in 0..MaxFailures
  /\ output \in Seq(Items) /\ asked \in Seq(Items)
  /\ fell \in BOOLEAN /\ lost_tail \in BOOLEAN

Init ==
  /\ kind \in Kinds
  /\ unprintable \in IF kind = "escape" THEN SUBSET (1..MaxLen) ELSE {{}}
  /\ buffer = 0 /\ buffer_size = InitSize
  /\ assigned_buffer = 0
  /\ write_size = InitWrite
  /\ pc = "idle"
  /\ room = 0 /\ len = 0 /\ done = 0
  /\ writes = 0 /\ failures = 0
  /\ output = <<>> /\ asked = <<>>
  /\ fell = FALSE /\ lost_tail = FALSE

-----------------------------------------------------------------------------
(* The calls of the caller.                                                *)

SpaceFor(l) == IF kind \in Lines THEN l + 1 ELSE l

(* start_write(l), after which the caller fills the buffer.                *)
StartWrite(l) ==
  /\ pc = "idle" /\ writes < MaxWrites
  /\ buffer_size' = Max({buffer_size, SpaceFor(l)})
  /\ writes' = writes + 1
  /\ buffer' = writes'
  /\ room' = l
  /\ pc' = "filled"
  /\ UNCHANGED <<stream, assigned_buffer, write_size, len, done, failures,
                 output, asked, fell, lost_tail>>

(* assign_write(b, l) with a buffer b that the caller has filled, in place *)
(* of start_write or after it.                                             *)
AssignWrite(l) ==
  /\ pc \in {"idle", "filled"} /\ writes < MaxWrites
  /\ writes' = writes + 1
  /\ assigned_buffer' = writes'
  /\ room' = l
  /\ pc' = "filled"
  /\ UNCHANGED <<stream, own, write_size, len, done, failures, output, asked, fell,
                 lost_tail>>

(* Positions from a to b of write w, of length l, as they are to appear.   *)
Form(p, l) ==
  IF p > l THEN "newline" ELSE IF p \in unprintable THEN "hex" ELSE "byte"
Text(w, a, b, l) == [k \in 1..Max({0, b - a + 1}) |-> Item(w, a + k - 1, Form(a + k - 1, l))]

(* What a write of length l commits, from position a on: all of it, and of *)
(* a line the newline.                                                     *)
CommittedFrom(a, l) == Text(writes, a, IF kind \in Lines THEN l + 1 ELSE l, l)

(* A line the escape option does not put out whole: the loop writes what   *)
(* is before an unprintable byte when it comes to one, and after the last  *)
(* one nothing but the newline.                                            *)
LosesTail(l) == kind = "escape" /\ l > 0 /\ l \notin unprintable

(* What end_write(l) touches of the stream's own buffer.                   *)
Touched(l) == IF kind = "log" THEN l + 1 ELSE l

(* end_write(l).  log stores the newline behind the data in its own buffer *)
(* first; past the end of the buffer, nothing is known from there on.      *)
EndWrite(l) ==
  /\ pc = "filled" /\ l <= room
  /\ len' = l
  /\ done' = 0
  /\ asked' = asked \o CommittedFrom(1, l)
  /\ lost_tail' = (lost_tail \/ LosesTail(l))
  /\ pc' = IF assigned_buffer = 0 /\ Touched(l) > buffer_size THEN "corrupt"
           ELSE "writing"
  /\ UNCHANGED <<stream, own, assigned_buffer, write_size, room, writes, failures,
                 output, fell>>

-----------------------------------------------------------------------------
(* The system calls of end_write.                                          *)

End == IF kind \in Lines THEN len + 1 ELSE len
ToEscape == {p \in unprintable : done < p /\ p <= len}

Source == IF assigned_buffer # 0 THEN assigned_buffer ELSE buffer

(* The next call is given the positions from From to To.                   *)
From == IF kind = "escape" /\ ToEscape = {} THEN len + 1 ELSE done + 1

(* A run of printable bytes taken as far as the next escape sequence; a    *)
(* mutant of To.                                                           *)
ToEscaped ==
  CASE kind = "log"    -> IF assigned_buffer # 0 /\ done < len THEN len ELSE len + 1
    [] kind = "escape" -> IF ToEscape = {} THEN len + 1 ELSE Max(ToEscape)
    [] kind = "blob"   -> done + Min({len - done, write_size})
    [] OTHER           -> len

To ==
  CASE kind = "log"    -> IF assigned_buffer # 0 /\ done < len THEN len ELSE len + 1
    [] kind = "escape" -> IF ToEscape = {} THEN len + 1
                          ELSE IF done + 1 \in ToEscape THEN done + 1
                          ELSE Min(ToEscape) - 1
    [] kind = "blob"   -> done + Min({len - done, write_size})
    [] OTHER           -> len

(* The first n items the next call is given, as it puts them out.          *)
Sent(n) ==
  [k \in 1..n |-> Item(Source, From + k - 1,
     IF From + k - 1 > len THEN "newline" ELSE IF From \in ToEscape THEN "hex" ELSE "byte")]

(* Without the test for an overflow; a mutant of Grown.                    *)
GrownWrapping(n) ==
  IF kind # "blob" \/ n < write_size THEN write_size ELSE (write_size * 8) % Size

(* blob multiplies what it attempts by 8 when a call wrote all of that,    *)
(* or failed: -1 is Size - 1 as a size_t.                                  *)
Grown(n) ==
  IF kind # "blob" \/ n < write_size THEN write_size
  ELSE IF (write_size * 8) % Size < write_size THEN Size - 1
  ELSE (write_size * 8) % Size

(* The position advanced by what was attempted, not by what was written; a *)
(* mutant of Writes.                                                       *)
WritesAttempted(n) ==
  /\ pc = "writing" /\ done < End
  /\ n \in 1..(To - From + 1)
  /\ kind \in Sockets => n = To - From + 1
  /\ output' = output \o Sent(n)
  /\ done' = To
  /\ write_size' = Grown(n)
  /\ fell' = (fell \/ (kind # "blob" /\ n < To - From + 1))
  /\ UNCHANGED <<stream, own, assigned_buffer, pc, room, len, writes, failures, asked,
                 lost_tail>>

(* The call writes n items, all or some of what it was given; only blob    *)
(* looks at how many, and goes on from there.                              *)
Writes(n) ==
  /\ pc = "writing" /\ done < End
  /\ n \in 1..(To - From + 1)
  /\ kind \in Sockets => n = To - From + 1
  /\ output' = output \o Sent(n)
  /\ done' = IF kind = "blob" THEN done + n ELSE To
  /\ write_size' = Grown(n)
  /\ fell' = (fell \/ (kind # "blob" /\ n < To - From + 1))
  /\ UNCHANGED <<stream, own, assigned_buffer, pc, room, len, writes, failures, asked,
                 lost_tail>>

(* The call fails.  The log streams do not notice; blob adds the -1 to the *)
(* bytes written, which goes back by one byte or, from 0, past the end.    *)
Fails ==
  /\ pc = "writing" /\ done < End /\ kind \notin Sockets
  /\ failures < MaxFailures
  /\ failures' = failures + 1
  /\ done' = IF kind = "blob" THEN (done + Size - 1) % Size ELSE To
  /\ write_size' = Grown(Size - 1)
  /\ fell' = TRUE
  /\ UNCHANGED <<stream, own, assigned_buffer, pc, room, len, writes, output, asked,
                 lost_tail>>

(* send fails, or is given nothing to send: the program exits.             *)
SendFails ==
  /\ pc = "writing" /\ kind \in Sockets /\ (done < len \/ len = 0)
  /\ len = 0 \/ failures < MaxFailures
  /\ pc' = "exited"
  /\ UNCHANGED <<stream, own, assigned_buffer, write_size, room, len, done, history>>

Returns ==
  /\ pc = "writing" /\ done >= End
  /\ kind \in Sockets => len # 0
  /\ assigned_buffer' = 0
  /\ pc' = "idle"
  /\ room' = 0 /\ len' = 0 /\ done' = 0
  /\ UNCHANGED <<stream, own, write_size, history>>

Close ==
  /\ pc = "idle"
  /\ pc' = "closed"
  /\ UNCHANGED <<stream, own, assigned_buffer, write_size, room, len, done, history>>

Lengths == 0..MaxLen
Call == (\E l \in Lengths : StartWrite(l) \/ AssignWrite(l) \/ EndWrite(l)) \/ Close
Step == (\E n \in 1..(MaxLen + 1) : Writes(n)) \/ Fails \/ SendFails \/ Returns

Next == Call \/ Step

Spec == Init /\ [][Next]_vars

(* The system calls come back.                                             *)
FairSpec == Spec /\ WF_vars(Step)

-----------------------------------------------------------------------------
(* Nothing is written past the end of the stream's own buffer, newline     *)
(* included, and end_write reads what the caller of this write filled.     *)
OstreamInv ==
  /\ TypeOK
  /\ pc # "corrupt"
  /\ pc = "filled" /\ assigned_buffer = 0 => SpaceFor(room) <= buffer_size
  /\ pc \in {"filled", "writing"} => Source = writes
  /\ pc \in {"idle", "closed"} => assigned_buffer = 0
  /\ len <= room
  /\ write_size > 0

(* As long as no system call wrote less than it was given (a blob: failed) *)
(* and the escaping log was given no line that goes on after its last      *)
(* unprintable byte, the output is, item by item, what was committed with  *)
(* end_write, up to where the call in progress is: however the line is cut *)
(* into system calls, whichever buffer it is in.                           *)
OutputFollows ==
  ~fell /\ ~lost_tail =>
    output \o (IF pc \in {"writing", "exited"} THEN CommittedFrom(done + 1, len)
               ELSE <<>>) = asked

(* end_write commits the data, all of it, if the system calls do as they   *)
(* are told: the claim of the interface, which the escaping log breaks.    *)
CommitsAll == pc = "idle" /\ ~fell => output = asked

(* Also when system calls fail or fall short, the output is in order, and  *)
(* of log, udp and raw has nothing twice.  A failing call makes blob       *)
(* repeat bytes of the write in progress; it skips one only by breaking    *)
(* off.                                                                    *)
OutputInOrder ==
  \A k \in 1..(Len(output) - 1) :
    LET a == output[k]
        b == output[k + 1] IN
    IF kind = "blob"
    THEN (b.w = a.w /\ b.p <= a.p + 1) \/ (b.w > a.w /\ b.p = 1)
    ELSE (b.w = a.w /\ b.p > a.p) \/ b.w > a.w

(* end_write comes back, or the program exits: no sequence of short and    *)
(* failing writes keeps it in its loop.                                    *)
EndWriteReturns == (pc = "writing") ~> (pc # "writing")

=============================================================================
