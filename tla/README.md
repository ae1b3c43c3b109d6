# camio: verification project

camio is a C library of *streams*. An input stream (istream) hands its caller
records, an output stream (ostream) takes them, and both have the same few
operations whatever is behind them: a file, a shared-memory ring, a socket, a
capture card, a timer. A *selector* waits for any of several istreams. The one
program of the repository, `camio_cat`, copies from many inputs to many
outputs.

This directory holds TLA+ models of that code, the TLC runs that check them and
the theorems TLAPS proves about them. `PROJECT.json` is the index: the source
lines each definition stands for, the runs with their properties, the mutants
that show each property can fail, the hazards and the findings.

    tlc -workers 2 -config Ring.cfg MCRing.tla
    tlapm RingStreamProofs.tla

## 1. The system

### 1.1 The contract of the streams

`istreams/camio_istream.h` and `ostreams/camio_ostream.h` declare it:

| call | contract |
|---|---|
| `ready` | non-zero if `start_read` will not block |
| `start_read(&out)` | blocks for a record, returns its size and where it is; 0 also means the stream has ended |
| `end_read(free)` | done with the record; non-zero if it was overwritten meanwhile |
| `start_write(len)` | room for `len` bytes, or NULL |
| `can_assign_write`, `assign_write(buf,len)` | the output takes over a buffer of the caller instead |
| `end_write(len)` | commits; may return a buffer in exchange for the one taken over |

Records are passed by pointer, often into memory somebody else goes on
writing. No operation takes a lock and nothing runs in threads: concurrency is
between *processes* (rings), with *the kernel or a card* (sockets, netmap, DAG)
and with *signals* (`camio_cat`'s `term`).

### 1.2 Components

| component | source | state | operations | interacts through |
|---|---|---|---|---|
| ring streams | `istreams/camio_istream_ring.c`, `ostreams/camio_ostream_ring.c` | shared file of slots (payload, length, stamp); writer: count, index; reader: expected stamp, index, size | open/create/zero, write, read, overrun, close/unlink | shared memory, the file's name |
| selectors | `selectors/*.c` | table of entries, count, next position | insert, remove, count, select | calls `ready` of every stream, or `poll()` |
| log istream | `istreams/camio_istream_log.c` | growing buffer, head, count, line found | ready, start_read, read_to_buff, shift, grow | `read()` |
| camio_cat | `camio_cat.c` | lists of streams, one record in flight | the loop; `term` on signals | everything above |
| log, blob ostreams | `ostreams/camio_ostream_{log,blob}.c` | own buffer, assigned buffer, chunk size | start/assign/end_write | `write()` |
| blob istream | `istreams/camio_istream_blob.c` | mapping, offset | one read of the whole file | the file |
| udp, raw streams | `{i,o}streams/*_{udp,raw}.c` | one datagram | receive, send | sockets |
| DAG, ExaNIC istreams | `istreams/camio_istream_{dag,exa}.c` | one record, port in turn | receive | card |
| netmap streams | `{i,o}streams/*_netmap.c` | cur/head of kernel rings, buffer exchange | receive, send, zero-copy send | memory shared with the kernel |
| timers | `istreams/camio_istream_periodic_timeout{,_fast}.c` | expiries; next aim | ready, read | timerfd, clock |
| factories | `{i,o}streams/camio_{i,o}stream.c`, `selectors/camio_selector.c` | none | name to constructor | |
| descriptions, options, numbers, lists | `camio_descr.c`, `options/`, `parsing/`, `camio_types.c` | parser state, lists | parse, add | command line |
| vendored | `dag/`, `netmap/`, `netmap_eg/` | | | not part of the project's own logic |

### 1.3 What is hard, and what makes each component correct

* **Rings.** Writer and readers share memory without lock or flow control; the
  stamp is the only protocol. A reader must never accept a record that was
  replaced, must not lose its place after being lapped, and must catch up. Two
  processes may create the ring at the same time, and a writer that leaves must
  not let later readers find its records.
* **Selectors.** Streams become ready at any moment, before or after their own
  test; entries are cleared but never reused. The count decides when the
  program ends; the starting point of the scan decides who starves.
* **Log istream.** A line arrives in arbitrary pieces, and the buffer is
  refilled, shifted and grown in between. No byte may be lost or repeated, and
  a full buffer must not look like the end of the file.
* **camio_cat.** One record goes to several outputs by pointer, while the owner
  of the memory may overwrite it; return value 0 has three meanings.
* **Packet istreams** (sockets, cards, netmap, timers). Which record is held
  between the calls and in which field that is remembered, what happens on
  "nothing there", on errors and on records without data, and which port is
  served next.
* **Ostreams** on a descriptor. A line is cut into several system calls, each of
  which may write part of what it is given or fail; the size asked for by
  `start_write` must have room for what `end_write` adds.
* **Netmap transmission.** Who owns a buffer, and up to where the driver has
  been told of frames: the two pointers of a ring move together on one path
  and apart on the other.
* **Parsers.** Boundaries: overflow, prefixes, missing separators, defaults
  that stay in a list.

Every hazard is listed in `PROJECT.json` at its line with the properties that
cover it, or a note saying what is missing.

## 2. The modules

    LossyChannel <--implements-- RingStream <--EXTENDS-- RingStreamProofs
                                 RingOpen   <--EXTENDS-- RingOpenProofs
                                 Selector   <--EXTENDS-- SelectorProofs
                                 LogIstream <--EXTENDS-- LogIstreamProofs
    PacketQueue  <--implements-- PacketIstream <--EXTENDS-- PacketIstreamProofs
                                 Ostream, Netmap <--EXTENDS-- OstreamProofs
                                 Options, DescrParser <--EXTENDS-- CommandLineProofs
                                 CamioCat   <--EXTENDS-- CamioCatProofs
    Merge        <--implements-- CamioCat  (loop + log istream, ring, outputs
                                            at the granularity of their calls)
                                    ^--EXTENDS-- MCCamioCat (its command lines)

The components that do not interact share a run: a behaviour of one of these
modules is a behaviour of one of the modules it extends, as its variable `part`
(or `is_netmap`) says, and the state of the others does not change.

    MCRing       --EXTENDS--> RingStream, RingOpen
    MCIstreams   --EXTENDS--> LogIstream, PacketIstream
    MCOstreams   --EXTENDS--> Ostream, Netmap
    MCProgram    --EXTENDS--> MCCamioCat, Options (with NumberParser), DescrParser

### RingStream: the ring at the granularity of memory accesses

One writer and any set of readers. A step is one load or store of shared
memory; private updates join the neighbouring access. `sync`, `len` and `data`
are the three parts of the slots; a payload word is the number of the record it
belongs to, which is all the properties distinguish.

| action | code |
|---|---|
| `StartWrite`, `StoreWord` while "filling" | `start_write` and the caller filling the slot in place |
| `AssignWrite`, `StoreWord` while "copying" | `assign_write`, and the `memcpy` in `end_write` |
| `EndWrite`, `EndWriteLen`, `EndWriteCommit` | the length check (exit when too long), the length word, the stamp with index and count |
| `PrepareNext`, `PrepareLen` | the stamp test, the resynchronisation of a lapped reader, the load of the length |
| `ReadWord` | the caller reading in place |
| `EndReadAccept`, `EndReadOverrun` | the two outcomes of `end_read` |
| `WriterClose`, `ReaderClose` | `close` |

The words of a payload may be copied in any order; the order payload, length,
stamp is program order. The code has no barriers, so this relies on x86 (stores
are not reordered) and on `volatile` for the compiler.

`LossyChannel` is what a ring promises its users: numbered records accepted in
order and never twice, only among the last `N` published, and none skipped
unless the writer is more than `N` ahead. `RingStream!ImplementsChannel` maps
`published` to `sync_count`; the other two variables of the channel are the
history variables `sent` and `last`.

### RingOpen: how both ends come to share the file

One action per system call: `OpenExisting` or `Create` (`O_TRUNC`), `Resize`,
`Zero`, then use, then `ReaderClose` or `WriterClose` (which removes the name).
Readers and successive generations of the writer (`RingReaders`, `RingWriter`)
do this in any order. A file
is abstracted to whether it has its full size and which generation wrote its
first slot. Touching a file before it has its size kills the process (`Killed`,
external: mmap's SIGBUS), and any process may die at any step (`Dies`), which
leaves the name and the records, and be started again.

### Selector: spin, seq and poll

`policy` is chosen in `Init`, so the runs and the theorems speak of all three
implementations. The table, `stream_count`, `stream_avail` and `last` are the
code's. `Select` sets where the scan starts, `Poll` takes the snapshot of
`revents`, and `ScanNext`, `ScanHit`, `ScanEnd` are single iterations between
which any stream may become ready (`Arrive`). `PollHangUp` is the return of
`poll()` for a hang-up or an error: nothing is readable, and the scan falls
through. The caller follows `camio_cat`:
`Read`, or `Remove` when the read returned 0. `GetLost` is what becomes of the
caller when `select` returns `~0`.

### LogIstream: lines through a buffer

The buffer holds *positions of the input* rather than bytes, so that a byte
lost, repeated or moved is visible, and position 0 is memory nobody wrote.
`prepare_next` is split at its calls of `read_to_buff`: `FillEmpty`,
`FindLine`, `FillRest`, `Shift`, `Grow`. `ReadToBuff` has the outcomes of
`read()`: some of what arrived, nothing yet (EAGAIN), the end. `returned_line` is
what `start_read` gave out, position by position.

### CamioCat: the loop and what it is connected to

Select, read, the loop over the outputs (assign or copy, `end_write`,
`end_read`), removal at length 0 (the end of a file, or a blank line of it), exit.
Ring inputs have a writer that copies a record into its slot (`Store`) and then
stores the stamp (`Publish`), at any moment, so that the loop may copy a record
that changes under its stamp; a call of the ring's reader is one step here (its
inside is RingStream's subject). An output either takes the buffer over (log, blob, ring, udp, raw)
or copies it (netmap), if it fits. `Merge` is what concatenation promises:
accepted records are an interleaving of the inputs, lossless for files; the data
of a ring's record may be that of the one a lap later, which RingStream's
`TornBetweenNeighbours` allows too. `MergesInputs` maps the accepted part of the last output to it.

`MCCamioCat` holds the command lines of the runs: which inputs and outputs go
together. `Program.cfg` checks two of them in one run.

### PacketIstream: seven streams that receive a record at a time

`kind` is chosen in `Init`: udp, raw, dag, exa, netmap, and the timers
periodic (a timerfd) and fast (the clock). Their `ready`, `start_read`,
`end_read` and `prepare_next` have the same skeleton and differ in guards and
in the fields they clear. Records are numbered per port as they arrive; for a
timer a record is one expiry, or one tick of the clock. `size` stands for
`bytes_read`, `read_size`, `data_size`, `packet_size` and `is_ready`, `data`
for `dag_data` and `packet`.

| action | code |
|---|---|
| `Ready`, `StartRead` | the tests at the head of `ready` and `start_read` |
| `SetBlocking`, then `Recv`, `ReadExpiries` or `WouldBlock` | `fcntl` and the one `recv` or `read` of udp, raw and periodic; `EAGAIN` |
| `TimerFires`, `TimerWaits` | the fast timer's look at the clock |
| `TakeRecord`, `NotErf`, `NoRecord` | the three outcomes of dag's `prepare_next` |
| `ReceiveFrame`, `BadFrame`, `NoFrame`, `BeforeTheArray` | one `exanic_receive_frame`, on the port whose turn it is; the step of a negative port index |
| `TakeSlot`, `NoSlot`, `RxSync` | one ring of netmap's scan; the ioctl when none has a slot |
| `HandOut` | the end of `start_read` |
| `EndRead` | `end_read` |
| `Arrive` | the network, the card, the clock (external) |

A `prepare_next` that found nothing goes back to the caller of `ready`, spins
inside `start_read`, or makes `start_read` return 0 (`FoundNothing`).

`PacketQueue` is what all seven promise their reader: a queue for each port,
from which the records come in the order of their arrival, each once, all with
data; packets one at a time, ticks as many together as have come. Records
without data are dropped, no others. `PacketIstream!ImplementsQueue` maps
`done`, the records that have left the queue, to `Done`: what was consumed, less
the record that is held and not handed out yet. So `Return` is `start_read`
handing a record out, and `Drop` is a bad frame, a record of another type or an
empty datagram, whatever steps of the code come between.

### Ostream: log, blob, udp and raw

`kind` is chosen in `Init`; "escape" is the log stream with its option. The
caller's side is `StartWrite`, `AssignWrite` and `EndWrite`; then every system
call of `end_write` is a step with what it may return: `Writes(n)` (all or a part
of what it was given), `Fails`, and for sockets `SendFails`, which exits. `From`
and `To` say what the next call is given: for log the line, or line and newline
in two calls when the buffer is the caller's; for escape a run of printable bytes,
or one escape sequence, or the newline; for blob a chunk of `write_size`. Only
blob looks at what a call wrote. Its `-1` is the largest `size_t` (`Size - 1`),
which the arithmetic then wraps. The output is a sequence of items: which write, which
position, and how it appears; `asked` is all that was committed with `end_write`
(`CommittedFrom`), whatever the option does to it, and `lost_tail` that a line
was given which the escape option does not put out whole (`LosesTail`).

### Netmap: a forwarder between two interfaces

| action | code |
|---|---|
| `NmStartRead`, `RxSync`, `NmEndRead` | `start_read`, `prepare_next` with its ioctl, `end_read` with the buffer to put into the slot |
| `Forward` | the caller's choice: copy, or assign the frame's buffer, or one from elsewhere |
| `Poll`, `PollTimesOut` | `get_free_slot` when no ring has space |
| `NmStartWrite`, `EndWriteCopied`, `EndWriteOutside` | the copying paths: `cur` and `head` move, and a full ring is handed to the driver |
| `EndWriteSwapped` | the zero-copy path: buffers change places, `cur` moves, `head` stays |
| `NmClose` | the flush of `close` |
| `Receive`, `Transmit`, `TxSync` | the driver (external): it sends up to the `head` it was told of, and returns what it has sent |

A buffer is named by the slot it starts in, a frame by its number. `camio_cat`
itself never assigns a buffer to netmap (`can_assign_write` returns 0); the
swapping path is there for other callers of the library, and the model has it.

### NumberParser, DescrParser and Options: the command line

`NumberParser` is `parse_number` character by character, one operator per
state of the code; `Meaning` says, without states, what a text means: blanks,
sign, numeral, and a tail of blanks or with a prefix. `Extended` is what digits
written after a number make of it. Doubles are fractions; a blank is `SP`. `DescrParser` is
`camio_descr_parse` scan by scan. `Options` is `camio_options_parse` over what
`getopt_long` hands it, one element a step: `ProcessOption`, `LongFlag` (which
getopt stores itself), `Extra` (arguments of no option), `HelpOrUnknown`, and
`Constraints` at the end. The arguments of numeric options are read by
`Meaning`, which the same run shows to be what the parser computes; what the
code makes of them is `ParsedAs`. What an option *should* hold is defined apart
from it, by `Suits`, `Promoted` and `Worth`.

## 3. The runs

| run | instance | shows |
|---|---|---|
| `ring` | RingStream: 2 slots of 2 words, 1 reader, 5 records of 0, 2 or 3 words, fair reader | reader position, intact records, a torn one mixes neighbours only, refinement of the channel; the reader ends up with the newest record, or at an empty one, wherever the writer stops |
| | RingOpen: 2 readers, 4 writers in turn, 3 files, deaths anywhere | nobody finds records of a writer from before the last close; both ends share one file |
| `selector` | each policy, table of 3, 4 streams, fair caller | count, readiness, no stream passed over twice (spin), earlier first (seq), no starvation (spin) |
| `istreams` | LogIstream: every input of 4 bytes of 3 kinds, buffer 2 growing to 8, fair | no byte lost or repeated, lines exact, closes only at the end, every terminated line returned |
| | PacketIstream: each kind, 2 ports of 3 records, 4 records or ticks otherwise, period 2, fair caller | a yes of `ready` stays true; refinement of the queue: no record lost, repeated or out of order; 0 only for an empty datagram; periods kept; no port starves; `ready` comes back; every record returned |
| `ostreams` | Ostream, each kind: 2 writes of up to 3 bytes, buffer 1, chunk 2, 3 failures, `size_t` of 16 values, fair system calls | the output is what was committed, item by item; in order even when calls fail; `end_write` comes back |
| | Netmap, a forwarder: 3 slots, 2 transmit rings, 6 frames, fair driver | no buffer in two slots; frames sent once, in order, unchanged; `poll` times out only behind swapped frames; all is sent after close |
| `program` | CamioCat: a file and a ring of 2 slots with 5 writes to 1 output; 2 files of up to 2 lines, blank ones too, to 2 copying outputs and 1 assigning; fair | the accepted records merge the inputs; no false overrun; every output gets what fits it; the program ends with every line before a blank one written |
| | NumberParser, DescrParser, Options: every text of 4 of 14 characters; every description of 6 of 4 characters; 3 elements for 8 options, and 3 forms of a flag in any order | numbers are what they mean; nothing of a description is lost; options have the worth of what they were given, with three exceptions by name |

and the runs that TLC finds violated, with what the repository says of the code:

| run | instance | shows |
|---|---|---|
| `ring_torn` | 3 records | `end_read` does not notice an overwrite in progress |
| `selector_poll_end` | poll, 2 streams | the "unreachable" return of `~0` is reached |
| `log_stale` | 4 bytes | a byte that was not read is taken for the second half of a line ending |
| `log_blank` | 4 bytes of 3 kinds | a blank line is swallowed, and the line before it keeps its newline |
| `cat_false_overrun` | the ring of `program`, 2 outputs | overruns are reported that did not happen |
| `udp_exits` | udp, raw | `ready` of udp ends the program |
| `escape_lost` | escape, one line of up to 2 bytes | what follows the last unprintable byte is not written |

Deadlock checking is off because the modelled systems stop: writers reach their
bound or die, streams are closed, the program exits, or a blocking call waits
for an input that never comes.

### Why the bounds are enough

* *Ring:* with `N = 2` and `MaxSync = 5` the writer laps a reader twice, so a
  reader can be 0, 1, 2 or more laps behind and the index wraps more than once;
  two words are the smallest payload that can be torn; length `W + 1` passes
  `start_write` and fails `end_write`. All other uses of the stamp compare it
  with one neighbour. The safety results are proved for all values.
* *RingOpen:* four generations and three files give a reader that outlives two
  writers, of which one died and one closed, and a file that is recreated under
  the eyes of another.
* *Selector:* three positions distinguish "next", "first" and "wrapped"; the
  fourth stream is refused. The safety results that concern the table are
  proved for any size.
* *LogIstream:* four bytes through a buffer that starts at two force shift and
  two growths, with each line ending in every position of the buffer.
* *CamioCat:* five writes to two slots lap the loop twice within one record; two
  outputs are the fewest with a second call of `end_read`, three the fewest
  with two copies before an assignment; the lengths of lines are blank, short and
  too long for a copying output.
* *PacketIstream:* four ticks and a period of 2 give an expiry on time, a late
  one and one after it; three records on each of two ports give every order of
  good and bad frames with both ports waiting at once. The kinds do not
  interact. The safety results are proved for all values.
* *Ostream:* three bytes with every set of unprintable ones give runs before,
  between and after escape sequences; a chunk of 2 grows once and overflows at
  the next time modulo 16; three failures take a blob back over the beginning.
* *Netmap:* three slots are the fewest where `cur`, `head` and `tail` all differ;
  six frames fill both transmit rings and go round. The safety results are
  proved for all values.
* *Parsers:* four characters reach every state, and every pair of states that
  follow each other, with a character left over. Three elements repeat an
  option and overflow a list of two, one argument has the highest bit of the 12-bit numbers
  set, and another is negative; a flag needs three, long, short and long
  again, to tell what it was given from how often it was given. The results are
  proved for all of them.

### Fairness

`RingStream!FairSpec`: weak fairness of each reader's steps, since `start_read`
spins; none of the writer, which may stop anywhere, mid-record included.
`Selector!FairSpec`: of the scan and of the caller's loop. None of `Arrive`.
`LogIstream!LogFairSpec`: of the caller, and of the input arriving and ending.
`CamioCat!FairSpec`: of the program only. `PacketIstream!FairSpec`: of the steps
inside a call, and of a caller that asks `ready` until it says yes, then reads
and ends the read; none of `Arrive`, so a blocking read may wait for ever.
`Ostream`: of the system calls
of an `end_write` that has begun. `Netmap`: of `Transmit`, since the hardware
sends what it was given. Weak fairness suffices because
nothing these processes wait for is taken away again. The MC modules have the
same conditions, each for the behaviours of its part.

## 4. The proofs

| module | theorem | states |
|---|---|---|
| RingStreamProofs | `RingInvariant`, `TypeCorrect`, `InStep`, `AcceptedIntact`, `TornByOneLap` | `RingInv`, `TypeOK`, `ReaderInStep`, `IntactUnlessOverwriting`, `TornBetweenNeighbours` always hold |
| | `RingRefinesChannel` | `Spec => ImplementsChannel` |
| RingOpenProofs | `OpenInvariant`, `ReadersNotConfused`, `EndsShareRing` | `OpenInv`, `NotConfused`, `SameRing` |
| SelectorProofs | `SelectorInvariant`, `CountCorrect`, `SelectedReady`, `FrontServedFirst`, `NonePassedTwice` | `SelectorInv`, `CountIsWatched`, `ReturnsReadyStream`, `EarlierStreamsFirst`, `NoneIsPassedTwice` |
| LogIstreamProofs | `LogInvariant`, `BufferedInOrder`, `ClosedOnlyAtEnd`, `NextLineReturned` | `LogInv`, `BufferInOrder`, `ClosesOnlyAtEnd`, `ReturnsNextLine` |
| PacketIstreamProofs | `PacketInvariant`, `NoRecordLost`, `ReadyKeepsItsWord`, `EndedByEmptyDatagram`, `PeriodsApart`, `PortsTakeTurns` | `PacketInv`, `NothingLost`, `ReadyTruthful`, `EndsAtEmptyOnly`, `PeriodKept`, `NoPortStarves` |
| | `PacketRefinesQueue` | `Spec => ImplementsQueue` |
| CamioCatProofs | `CatTypeCorrect`, `OutputsComplete` | `TypeOK`, `EveryOutputComplete` |
| | `BufferIsKept` (A), `OverrunsAreReal` (B) | `NeverFails`, `OverrunIsReal` |
| | `CatRefinesMerge` (B, C) | `Spec => MergesInputs` |
| CommandLineProofs | `DescriptionsAreKept`, `OptionsAsGiven`, `NumbersAsWritten` | `DescrLossless`, `VariablesAsGiven`, `NumberAsWritten` |
| OstreamProofs | `OstreamInvariant`, `ItemsInOrder`, `OutputIsAsAsked` | `OstreamInv`, `OutputInOrder`, `OutputFollows` |
| | `EachBufferInOneSlot`, `FramesSentAsCommitted`, `CopiedFramesMakeRoom` | `NmInv`, `SentAsCommitted`, `TimeoutOnlyIfSwapped` |

They hold for every number of slots, slot size, set of readers, policy, table
size and so on, under the `ASSUME`s of the modules only (positive sizes,
distinct names). Three theorems about camio_cat say what they need of the
streams it is given, because the program is wrong without it (section 5):

* A, `AssigningLast`: an output that takes the buffer over is the last one.
* B, `OneReader`: with a ring among the inputs there is one output.
* C, `LastTakesAll`: the last output takes the buffer over, or no line is too
  long for it.

Both setups of `cat` satisfy all three; the one of `cat_false_overrun` does not
satisfy B. `OutputsComplete` needs none of them.

**Ring.** What a reader needs is `IntactUnlessOverwriting`, which is not
inductive: it speaks of a reader about to finish, and says nothing of how the
words came to be right. `RingInv` adds: each slot has the stamp of the newest
record committed there, computed from the lap and the index
(`StampsConsistent`); what the writer has stored so far is in place
(`WriteProgress`); a slot nobody is writing holds exactly the record of its
stamp (`SettledSlots`); a reader expects a stamp that belongs to its slot
(`ReaderInStep`), is past what it accepted and never sees stamps go down
(`ReaderProgress`). The arithmetic is in lemmas about `Newest` and `Due`:
they differ by `N`, and distinct slots have distinct stamps. The refinement
uses the same invariant: a commit is a `Publish`, an accepting `end_read` is an
`Accept` because of `ReaderProgress` and `StampsConsistent`, all other steps
stutter. `TornBetweenNeighbours` is the part of it about what a reader has
copied: while the stamp is the one it expects, the slot has been written to by
one later lap at most.

**Opening.** `SameRing` holds because the name is only ever removed by a closing
writer and only given to a new file while there is none (`Create` finds a file
another process has just made), so a file opened since the last close still has
the name. `OpenInv` says so for every process, and that a file with a name
holds only records of writers that came after the last one that closed: a
writer that dies leaves its records to be found, a closing one does not.

**Selector.** `CountIsWatched` needs that a number occurs at most once in the
table and that entries beyond `stream_count` are blank; `ReturnsReadyStream`
needs that the events of a poll remain true until `select` returns, because
only the caller makes a stream not ready. `NoneIsPassedTwice` is not inductive;
`PassedInv` is: a stream has been passed over at most as often as it is entries
from it round to the one served last, because each stream served is one entry
nearer to it.

**Log istream.** `BufferInOrder` is inductive with the phases of `prepare_next`
(`Phases`: no line is ready while it searches) and `LineReady`: what it found
is the first newline after what was taken, and the byte after it exactly if that
is a newline too and has been read. From it `ReturnsNextLine` follows, which says
what is returned, position by position: what is before the newline. It has one
exception, the newline that follows another, in the words of `TakesNext`; the run
`log_blank` shows what it costs. The one place where the buffer is left is the stale byte of `log_stale`, where the
count wraps ("corrupt").

**camio_cat.** What is in flight depends on where the loop is: `CatInv` says
which input is being handled and that it is still there, `Kept` that the buffer
is there as long as an output wants it. `EveryOutputComplete` speaks of the
moments between two records only; `Progress` adds how far each output is while
one is in work: those before the current one have got it, the others have not,
and an output without room never gets it. `OverrunIsReal` needs `Expecting`: the
loop expects the stamp that follows the one it gave out last, and a stamp in a
slot can only have grown since it was read (`RecordInFlight`). The refinement
maps the accepted part of what the last output wrote to `Merge`; `Delivered`
says that it has every line of a file that was read except the one in work, and of
a ring only records older than the one expected. So accepting a record is the
step of `Merge`, and all others stutter. What its data are depends on the writer:
a slot holds the record of its stamp or, while the writer is between `Store` and
`Publish`, the one a lap later (`Stored`), so the data an output has taken
from it are one of the two as long as the stamp has not changed.

**Command line.** `DescrLossless` joins the parts of a description, a fold over
the options found. Its invariant `DescrInv` says so of what is behind
`head_ptr` (`Cut`), that a part that ended has no delimiter in it (`Clean`) and
that an option whose name is read but not its value has none yet (`Unnamed`).
One more option is one more item in the fold (`FlattenAppend`), by least
counterexample instead of induction. `VariablesAsGiven` speaks of the end of the
command line, and compares the variables with the worth of the arguments, which
does not mention how the code reads them; where the code departs from it the
exceptions have names (`SignTaken`, `BitsTaken`, `Restored`), and `ParsedStands`
shows that these are all; `OptionsInv` says the same of the elements dealt with (`Kept`), and
what `found` counts: everything an option was given, except the long form of a
flag, which getopt stores by itself (`Counted`). What is given next comes
behind what was given before, so places in a list stay (`PlacesStay`,
`ListAppended`); a list that is too long stays so (`StaysTooLong`).

`NumberAsWritten` compares the parser, which sees a character at a time and
keeps a running value modulo `Size`, with a meaning that looks at the whole
text. Its invariant `NumberInv` says, for each state, which form the characters
read so far have and what `acc`, `frac`, `base` and `prefix` hold of them
(`ReadAs`, `EndAs`). One more digit is one more step of `Extended`
(`ExtendedByOne`, by least counterexample), and reducing at each step is
reducing at the end (`ModuloStep`). `FormsGrow` says which forms of a numeral a
longer text can still have, so a refusal is right whatever follows (`Refuse...`).
There is one lemma for each state's action (`FromInitStep` to
`FromEndFloatStep`). Nothing bounds the length of the text or the width of the
integers.

**Ostreams.** `OstreamInv` (nothing is written past the buffer, and the data is
that of this write) needs to know in which phase the positions are 0.
`OutputInOrder` speaks of neighbours in the output; `LastBefore` says how the
last item stands to the position of the next call: behind it, except that a
blob may have gone back over it. `OutputFollows` says that the output and what
is still to come of the present write are together all that was committed
(`FollowsInv`), until a call falls short or the escape option is given a line
that goes on after its last unprintable byte: a call that writes all it was given
moves the text from the second to the first, because the text of a line can be
cut anywhere (`CutAt`), a line that ends in an unprintable byte has no bytes
between its last escape sequence and its newline (`Whole`), and an ostream other
than "escape" never meets an unprintable byte (`Printable`).

**Netmap.** `NmInv` is inductive: the only steps that change `buf_idx` exchange
two buffers or put the returned one into the slot of the one given away.
`SentAsCommitted` needs `OrderInv`: going round from what has been sent, come
what the driver was given, `head`, `cur` and `tail` in this order, and the slots
from sent to `cur` hold the frames committed and not sent yet; so nobody writes
to a buffer that waits. `TimeoutOnlyIfSwapped` needs that `head` lags behind
`cur` only after a swapped frame (`Untold`), and that a ring whose frames were
all told and sent has space.

**Packet istreams.** `NothingLost` needs to know which record the fields stand
for: `FieldsFollowCall` says when `size` and the pointer are set, `HeldIsNext`
that what is held is the newest record consumed (for netmap, the next to be,
since `cur` moves at `end_read`). The refinement adds `HeldReturnable`: what is held
carries data, and is one record unless it is ticks. Then handing out is the
`Return` of the queue (`ReturnsNext`), the steps that meet a record without data
are its `Drop` (`DropsRecord`), `Arrive` is `Arrive`, and all others leave `Done`
as it was: consuming a record and holding it cancel out in it
(`FetchIsQuiet`). `EndsAtEmptyOnly` needs `FlagFollowsCall`: the descriptor is
in the mode the call wants, and periodic's cache of it is right.
`NoPortStarves` is not inductive; `PassedComesNearer` is: the number of frames
taken while a port waits, plus the distance from `port` to it, stays below the
number of ports, since every frame moves `port` past the one served and the
scan has not yet gone past the waiting one.

**Model-checked only.** Liveness (`CatchesUp`, `NoStarvation`,
`EveryLineReturned`, `AllFilesWritten`, `ReadyReturns`, `EveryRecordReturned`,
`EndWriteReturns`, `SentAfterClose`), which these provers do not reach. Every
invariant and action property of the passing runs, and the three refinements,
are proved.

## 5. What was found

With a run that shows it violated (`PROJECT.json`, findings):

* `end_read` returns 0 although the contents changed, while an overwrite is in
  progress (`camio_istream.h:24` against `camio_istream_ring.c:150`).
* The poll selector's scan does not wrap: if only streams up to the last one
  served are ready, it returns `~0` (`camio_selector_poll.c:97`). So it does when
  `poll()` returns for a hang-up or an error alone.
* The log istream looks at the byte after a newline whether it was read or not
  (`camio_istream_log.c:191`).
* It takes a blank line for the second half of a line ending: the blank line is
  lost, and the line before it keeps its newline (`camio_istream_log.c:267`
  "Strip off the newline" against `:191`).
* `camio_cat` calls `end_read` once per output; with a ring input and two
  outputs it reports overruns that did not happen (`camio_cat.c:107`).
* `ready` of udp exits the program when nothing is there
  (`camio_istream_udp.c:135` against `camio_istream.h:22`), where raw and the
  timer return 0; so a udp stream cannot be polled.
* With its escape option the log ostream leaves out the text after the last
  unprintable byte, and a line without one altogether
  (`camio_ostream.h:24` against `camio_ostream_log.c:136`).

As an exception that a property of a passing run names (without it TLC finds the
property violated):

* `camio_cat` removes an input at its first blank line (`camio_cat.c:81`): the
  rest of the file is never written. `AllFilesWritten` is about the lines before.
* The `port` of exa is never initialised (`camio_istream_exa.c:229`) and is
  used modulo the number of ports as an index, which is negative if it is.
  `EveryRecordReturned` excepts it, and the model ends in "corrupt".
* An integer given for DOUBLES is stored as the bits it has
  (`camio_options.c:272`), a negative integer is refused as a DOUBLE, as the test
  for it tests for UINT64 twice (`:257`, `:261`), and an unsigned one with the
  highest bit set becomes negative. `VariablesAsGiven` names `BitsTaken` and
  `SignTaken`.
* A short flag after the long one restores the default (`camio_options.c:334`),
  since both turn over what is there: `Restored`.

Seen while modelling, without a run of their own:

* A record of length 0 can be written to a ring but not read from it, and stops
  the reader until it is lapped (`camio_istream.h:23` against
  `camio_istream_ring.c:135`); `CatchesUp` has the exception.
* A failing write makes the blob ostream repeat a byte, or, as the first of an
  `end_write`, drop all of it (`camio_ostream_blob.c:104`).
* A frame copied to netmap is told to the driver only when the ring fills, by
  `poll` or at the end; a swapped one not before a copied one follows it
  (`camio_ostream_netmap.c:421`). `TimeoutOnlyIfSwapped` and `SentAfterClose`
  have the exception.
* Opening a netmap ostream reads `priv->params` (`camio_ostream_netmap.c:237`),
  which is null when `camio_cat` constructs it.
* The periodic sync of netmap's `end_read` never comes: its counter is only
  counted up once it is not 0 (`camio_istream_netmap.c:312`).
* A decimal number followed by a blank is none: the test for a blank has become
  the body of another if (`numeric_parser.c:173`). What follows a prefix is not
  looked at (`:233`), with a point `Ki` is `K` (`:252`), a signed zero is refused
  (`:144`), and large numbers wrap (`:166`). `Meaning` says so.
* `is_list_type` has no DOUBLES (`camio_options.c:79`), so those may not be
  repeated.
* The default of a list of strings goes with the first value, that of other
  lists stays (`camio_options.c:302`). A flag given long is not counted as found.
* A list that is full is grown in bytes, not items, and the block `realloc`
  returns is dropped (`camio_types.c:13-17`): the next item is out of bounds.
* `start_write` of the ring accepts payloads up to the slot size less 8 bytes,
  `end_write` exits above slot size less 16 (`camio_ostream_ring.c:101,120`).
  RingStream has lengths up to `W + 1` for this reason.
* `remove` clears the *first* entry with the number, live or not
  (`camio_selector.h:22,25`): a number used again after its removal is never
  removed. The model's caller, like `camio_cat`, never reuses one.
* With two outputs that take the buffer over `camio_cat` hands the second a null
  pointer and exits (`camio_cat.c:93`); TLC finds it in a setup with two assigning
  outputs.
* A CR and LF that two reads split end a line and an empty one
  (`camio_istream_log.c:191`).
* A udp datagram without payload is consumed and read as the end of the stream
  (`camio_istream_udp.c:139`).
* netmap's scan always starts at its first ring (`camio_istream_netmap.c:239`),
  so a busy one keeps the others waiting; exa's rotates.
* The timerfd stream reduces the nanoseconds before it carries them into the
  seconds, so nothing is ever carried (`camio_istream_periodic_timeout.c:47`).

## 6. What is not modelled, and assumptions

* Exits on failing system calls, and wording of messages.
* Rings: a reader whose expected stamp a restarted writer has yet to reach,
  several writers at once, wrap-around of the 64-bit stamps, and machines that
  reorder stores.
* CamioCat: ring records are non-empty and fit every output; signals.
* LogIstream: unescaping (the constructor switches it off) and read errors.
* PacketIstream: opening and closing, callers that do not end a read, and slots
  of length 0. Records the hardware or kernel drops before the program could see
  them have no number.
* Ostream: opening; a `write` of 0 bytes for a request that is not empty, and a
  `send` that takes part of a datagram. An escape sequence or a newline is
  written as a whole or not at all.
* Netmap: opening, and frames longer than a buffer (`end_write` exits). One
  receive ring; the scan of several is in PacketIstream.
* Parsers: rounding of doubles, upper-case letters, which are treated as lower-case
  ones, exponents (a decimal with an `E` is no number), and
  abbreviated long options, which are getopt's.
* The blob istream, which returns the mapping of its file once.
* The composition of the poll selector with a log istream that has a line
  buffered: `poll()` does not know of it (`camio_selector_poll.c:84`).
* Outcomes that a model has and no property forbids, because the code allows
  them and nothing in the repository says otherwise: a reader left waiting in an
  unlinked ring, a ring truncated while it is in use, bytes after the last
  newline of a log, bytes dropped by a short or failing write, frames of a card
  that are bad, two options of a description that become one, numbers that wrap,
  a list written past its end. The notes of the hazards say which.
* Components marked `not_modelled` in `PROJECT.json`; pcap is a header without
  code, factories only compare names, and the vendored trees are not the
  project's own logic.

## 7. Plan

Done: every module of section 2, and a theorem for every safety property of the
passing runs.

Left, most important first:

1. **poll over buffered streams**: Selector with the `ready` of LogIstream, to
   show when `poll()` sleeps on a line that is there.
2. **Rings**: the stamps of RingStream across a writer that dies and returns,
   and two writers at once.
3. **CamioCat**: rings whose records do not fit an output (the loop at
   `camio_cat.c:100`), and the signals that delete the streams.

4. **RingOpen**: the reader of an unlinked ring, as a property once the code has
   a way for it to notice.
