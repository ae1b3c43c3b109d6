----------------------------- MODULE LogIstream -----------------------------
(***************************************************************************)
(* The log istream (istreams/camio_istream_log.c): lines read from a file  *)
(* descriptor through a buffer that is refilled, shifted and grown.        *)
(*                                                                         *)
(* The input is a sequence of bytes that other processes make available    *)
(* piece by piece; read() returns what is available, as far as it fits.    *)
(* Bytes are ordinary ("c"), newlines ("n") or carriage returns ("r").     *)
(* The buffer holds positions of the input instead of bytes, so that bytes *)
(* lost, repeated or out of order show; position 0 is memory malloc or     *)
(* realloc returned and nobody wrote, whose value is any byte.  Escaping   *)
(* is switched off by the constructor and not modelled.                    *)
(***************************************************************************)
EXTENDS Integers, Sequences, FiniteSetsExt

CONSTANTS Length,     \* the length of the input
          Bytes,      \* the kinds of bytes it is made of
          InitSize,   \* CAMIO_ISTREAM_ISTREAM_LOG_BUFF_INIT
          MaxSize     \* bound on the size the buffer grows to

ASSUME LogAssumption ==
  /\ Length \in Nat
  /\ Bytes \subseteq {"c", "n", "r"}
  /\ InitSize \in Nat /\ InitSize >= 2
  /\ MaxSize \in Nat /\ InitSize <= MaxSize

VARIABLES
  input,              \* the bytes of the input
  available,          \* how many of them read() can return so far
  hungup,             \* whether the input has ended
  line_buffer,        \* positions of the input, by offset
  line_buffer_size,
  line_buffer_count,  \* buffered bytes not yet returned
  data_head_ptr,      \* offset of the first of them
  read_size,          \* size of the line that is ready, 0 if none
  is_closed,
  log_blocking,       \* mode of the prepare_next in progress
  log_pc,             \* "idle", "prepare" (in prepare_next) or "corrupt"
  fetched,            \* history: bytes read so far
  taken,              \* history: bytes returned so far, newlines included
  returned_line       \* history: the last line start_read returned

env == <<input, available, hungup>>
buffer == <<line_buffer, line_buffer_size, line_buffer_count, data_head_ptr>>
log_vars == <<env, buffer, read_size, is_closed, log_blocking, log_pc, fetched, taken,
              returned_line>>

Offsets == 0..(MaxSize - 1)
Input == 1..Length
Unset == 0

LogTypeOK ==
  /\ input \in [Input -> Bytes]
  /\ available \in 0..Length
  /\ hungup \in BOOLEAN
  /\ line_buffer \in [Offsets -> Input \union {Unset}]
  /\ line_buffer_size \in InitSize..MaxSize
  /\ line_buffer_count \in -1..(line_buffer_size - 1)
  /\ data_head_ptr \in 0..line_buffer_size
  /\ read_size \in 0..line_buffer_size
  /\ is_closed \in BOOLEAN
  /\ log_blocking \in BOOLEAN
  /\ log_pc \in {"idle", "prepare", "corrupt"}
  /\ fetched \in 0..available
  /\ taken \in 0..(Length + 1)
  /\ returned_line \in Seq(Input \union {Unset})

LogInit ==
  /\ input \in [Input -> Bytes]
  /\ available = 0
  /\ hungup = FALSE
  /\ line_buffer = [o \in Offsets |-> Unset]
  /\ line_buffer_size = InitSize
  /\ line_buffer_count = 0
  /\ data_head_ptr = 0
  /\ read_size = 0
  /\ is_closed = FALSE
  /\ log_blocking = FALSE
  /\ log_pc = "idle"
  /\ fetched = 0
  /\ taken = 0
  /\ returned_line = <<>>

-----------------------------------------------------------------------------
(* The other end of the descriptor.                                        *)

ArriveByte ==
  /\ available < Length
  /\ available' \in (available + 1)..Length
  /\ UNCHANGED <<input, hungup, buffer, read_size, is_closed, log_blocking, log_pc,
                 fetched, taken, returned_line>>

HangUp ==
  /\ available = Length /\ ~hungup
  /\ hungup' = TRUE
  /\ UNCHANGED <<input, available, buffer, read_size, is_closed, log_blocking, log_pc,
                 fetched, taken, returned_line>>

-----------------------------------------------------------------------------
(* prepare_next.                                                           *)

(* ready() on an open stream without a line, and start_read(), which then  *)
(* blocks, enter prepare_next.                                             *)
PrepareLine ==
  /\ log_pc = "idle" /\ ~is_closed /\ read_size = 0
  /\ log_pc' = "prepare"
  /\ log_blocking' \in BOOLEAN
  /\ UNCHANGED <<env, buffer, read_size, is_closed, fetched, taken, returned_line>>

(* read_to_buff: read to offset at of the buffer, whose contents and size  *)
(* are then buf and size.  Its last byte is never filled.  A read of 0     *)
(* bytes closes the stream; that, and EAGAIN, end prepare_next.            *)
ReadToBuff(buf, size, at) ==
  LET bytes == Min({size - 1 - at, available - fetched}) IN
  /\ line_buffer_size' = size
  /\ fetched' = fetched + bytes
  /\ line_buffer_count' = line_buffer_count + bytes
  /\ line_buffer' = [o \in Offsets |->
       IF o \in at..(at + bytes - 1) THEN fetched + o - at + 1 ELSE buf[o]]
  /\ \/ /\ bytes > 0
        /\ UNCHANGED <<log_pc, is_closed>>
     \/ /\ bytes = 0
        /\ hungup \/ available > fetched
        /\ is_closed' = TRUE
        /\ log_pc' = "idle"
     \/ /\ available = fetched /\ ~hungup
        /\ ~log_blocking
        /\ log_pc' = "idle"
        /\ UNCHANGED is_closed
  /\ UNCHANGED <<env, read_size, log_blocking, taken, returned_line>>

IsNewline(k) == k # Unset /\ input[k] \in {"n", "r"}
Buffered(k) == line_buffer[data_head_ptr + k]
(* The search one byte short; a mutant of NewlineOffsets.                  *)
NewlineOffsetsShort == {k \in 0..(line_buffer_count - 2) : IsNewline(Buffered(k))}

NewlineOffsets == {k \in 0..(line_buffer_count - 1) : IsNewline(Buffered(k))}
(* Without the spare byte that read_to_buff keeps; a mutant of Room.       *)
RoomToTheEnd == data_head_ptr + line_buffer_count < line_buffer_size

Room == data_head_ptr + line_buffer_count < line_buffer_size - 1

FillEmpty ==
  /\ log_pc = "prepare"
  /\ line_buffer_count = 0
  /\ data_head_ptr' = 0
  /\ ReadToBuff(line_buffer, line_buffer_size, 0)

(* The line ends at the first newline or carriage return, and includes a   *)
(* newline right after it.  That byte is looked at whether or not it is    *)
(* among those buffered.                                                   *)
FollowedByNewline(k) ==
  IF Buffered(k + 1) = Unset THEN BOOLEAN ELSE {input[Buffered(k + 1)] = "n"}

FindLine ==
  /\ log_pc = "prepare"
  /\ NewlineOffsets # {}
  /\ LET k == Min(NewlineOffsets) IN
     \E two \in FollowedByNewline(k) : read_size' = IF two THEN k + 2 ELSE k + 1
  /\ log_pc' = "idle"
  /\ UNCHANGED <<env, buffer, is_closed, log_blocking, fetched, taken, returned_line>>

NoLine ==
  /\ log_pc = "prepare"
  /\ line_buffer_count # 0
  /\ NewlineOffsets = {}

FillRest ==
  /\ NoLine
  /\ Room
  /\ UNCHANGED data_head_ptr
  /\ ReadToBuff(line_buffer, line_buffer_size, data_head_ptr + line_buffer_count)

(* Without the reset of the read pointer; a mutant of Shift.               *)
ShiftKeepsHead ==
  /\ NoLine
  /\ ~Room /\ data_head_ptr # 0
  /\ UNCHANGED data_head_ptr
  /\ ReadToBuff([o \in Offsets |-> IF o < line_buffer_count THEN Buffered(o)
                                   ELSE line_buffer[o]],
                line_buffer_size, line_buffer_count)

(* memmove the line that has begun to the front.                           *)
Shift ==
  /\ NoLine
  /\ ~Room /\ data_head_ptr # 0
  /\ data_head_ptr' = 0
  /\ ReadToBuff([o \in Offsets |-> IF o < line_buffer_count THEN Buffered(o)
                                   ELSE line_buffer[o]],
                line_buffer_size, line_buffer_count)

(* realloc; MaxSize bounds the model.                                      *)
Grow ==
  /\ NoLine
  /\ ~Room /\ data_head_ptr = 0
  /\ 2 * line_buffer_size <= MaxSize
  /\ UNCHANGED data_head_ptr
  /\ ReadToBuff(line_buffer, 2 * line_buffer_size, line_buffer_count)

-----------------------------------------------------------------------------
(* Without the advance of the read pointer; a mutant of StartReadLine.     *)
StartReadStays ==
  /\ log_pc = "idle" /\ ~is_closed /\ read_size > 0
  /\ returned_line' = [k \in 1..(read_size - 1) |-> Buffered(k - 1)]
  /\ line_buffer_count' = line_buffer_count - read_size
  /\ taken' = taken + read_size
  /\ read_size' = 0
  /\ log_pc' = IF read_size > line_buffer_count THEN "corrupt" ELSE "idle"
  /\ UNCHANGED <<env, line_buffer, line_buffer_size, data_head_ptr, is_closed,
                 log_blocking, fetched>>

(* start_read, when a line is ready: it returns the line without its last  *)
(* byte and forgets about the line.  line_buffer_count is a size_t; a line *)
(* longer than what is buffered wraps it around, and nothing is known of   *)
(* the stream from there on.                                               *)
StartReadLine ==
  /\ log_pc = "idle" /\ ~is_closed /\ read_size > 0
  /\ returned_line' = [k \in 1..(read_size - 1) |-> Buffered(k - 1)]
  /\ data_head_ptr' = data_head_ptr + read_size
  /\ line_buffer_count' = line_buffer_count - read_size
  /\ taken' = taken + read_size
  /\ read_size' = 0
  /\ log_pc' = IF read_size > line_buffer_count THEN "corrupt" ELSE "idle"
  /\ UNCHANGED <<env, line_buffer, line_buffer_size, is_closed, log_blocking, fetched>>

Read == FillEmpty \/ FillRest \/ Shift \/ Grow
Stream == PrepareLine \/ FindLine \/ Read \/ StartReadLine

LogNext == ArriveByte \/ HangUp \/ Stream

LogSpec == LogInit /\ [][LogNext]_log_vars

(* The input arrives and ends, and the caller reads on, for ever.          *)
LogFairSpec ==
  LogSpec /\ WF_log_vars(ArriveByte) /\ WF_log_vars(HangUp) /\ WF_log_vars(Stream)

-----------------------------------------------------------------------------
(* The buffered bytes are, in order, those that come after the bytes       *)
(* returned, through every refill, shift and growth of the buffer; none is *)
(* lost or repeated, and the spare byte at the end stays free.             *)
BufferInOrder ==
  log_pc # "corrupt" =>
    /\ taken + line_buffer_count = fetched
    /\ data_head_ptr + line_buffer_count <= line_buffer_size - 1
    /\ \A k \in 0..(line_buffer_count - 1) : Buffered(k) = taken + k + 1

(* A newline or carriage return at e takes the newline after it with it,   *)
(* when that has been read by then.                                        *)
TakesNext(e) == e < fetched /\ input[e + 1] = "n"

(* A call of start_read goes on right after the bytes of the one before,   *)
(* and up to the first newline there, wherever the buffer ended: it        *)
(* returns what is before that newline.  The exception is a newline with   *)
(* another one after it in the buffer, be it the end of a line of Windows  *)
(* or a blank line: both are consumed, and the first of them is returned   *)
(* as part of the line.                                                    *)
ReturnsNextLine ==
  [][(StartReadLine /\ read_size <= line_buffer_count) =>
       \E e \in (taken + 1)..fetched :
         /\ IsNewline(e) /\ \A k \in (taken + 1)..(e - 1) : ~IsNewline(k)
         /\ taken' = IF TakesNext(e) THEN e + 1 ELSE e
         /\ returned_line' = [k \in 1..(taken' - taken - 1) |-> taken + k]]_log_vars

(* The stream closes only at the end of the input, never because there was *)
(* no room left to read into.                                              *)
ClosesOnlyAtEnd == is_closed => (hungup /\ fetched = Length)

(* However the input is cut into reads, every line that is terminated is   *)
(* returned, and then the stream closes.                                   *)
EveryLineReturned ==
  (available > 0) ~>
    (log_pc = "corrupt" \/ (is_closed /\ \A k \in (taken + 1)..Length : ~IsNewline(k)))

-----------------------------------------------------------------------------
(* "Forget about the bytes just read" (camio_istream_log.c): a line is     *)
(* never longer than what is buffered.  Refuted, in a run of its own.      *)
ForgetsWhatItRead == read_size <= line_buffer_count \/ log_pc = "corrupt"

(* "Strip off the newline": no line that is returned has a newline or a    *)
(* carriage return in it.  Refuted, in a run of its own.                   *)
StripsNewline ==
  log_pc # "corrupt" => \A k \in DOMAIN returned_line : ~IsNewline(returned_line[k])

=============================================================================
