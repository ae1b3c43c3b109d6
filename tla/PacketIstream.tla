--------------------------- MODULE PacketIstream ---------------------------
(***************************************************************************)
(* The istreams that receive a packet, or a tick, at a time: udp, raw,     *)
(* dag, exa, netmap and the two timers (periodic, fast), each behind the   *)
(* same ready / start_read / end_read.  They differ in where a record      *)
(* waits, in the fields that remember that one has been fetched, in when   *)
(* these are cleared, and in what they do with nothing and with records    *)
(* that carry no data.                                                     *)
(*                                                                         *)
(* The records of a port (of a card, of a netmap interface; the others     *)
(* have one) are numbered from 1 as they arrive.  A tick of a timer is a   *)
(* record too: an expiry of the timerfd, a unit of time of the clock.      *)
(* One system call, or one look at a port, is a step.  The caller keeps to *)
(* the contract: start_read at any time, with or without asking ready      *)
(* first, and end_read after each record.                                  *)
(***************************************************************************)
EXTENDS Integers, FiniteSets

CONSTANTS Kinds,       \* the kinds of istream there are
          P,           \* number of ports: EXANIC_PORTS, nm_rx_rings
          MaxRecords,  \* bound on the records that arrive
          PortRecords, \* bound on them at each port, if there are several
          Period       \* period of the fast timer, in ticks

Descriptors == {"udp", "raw", "periodic"}  \* read with a system call
Cards == {"exa", "netmap"}                 \* have several ports

ASSUME PacketAssumption ==
  /\ Kinds \subseteq Descriptors \union Cards \union {"dag", "fast"}
  /\ P \in Nat \ {0}
  /\ MaxRecords \in Nat /\ PortRecords \in 0..MaxRecords
  /\ Period \in Nat \ {0}

VARIABLES
  kind,        \* which istream this is
  class,       \* class[p][n]: "data", "empty" (no payload) or "bad"
  arrived,     \* arrived[p]: records that have arrived at port p
  tail,        \* tail[p]: the last of them netmap has made visible
  next,        \* next[p]: records consumed from port p
  aim,         \* ns_aim of the fast timer
  size,        \* bytes_read, read_size, data_size, packet_size or is_ready:
               \* 0, or 1 for any size
  data,        \* dag_data, packet: 0 if null, else 1
  held,        \* the record in the buffer or pointed to: [port, first, last],
               \* several records for a timer that was read late
  port,        \* the port exa looks at first
  o_nonblock,  \* the flag of the descriptor
  blocking,    \* what periodic takes the flag to be
  pc,          \* "idle", "prepare", "recv", "found", "reading"; "ended" when
               \* start_read returned 0, "exited" when the program did,
               \* "corrupt" when anything may have happened
  mode,        \* the call in progress: "ready" or "read"
  i,           \* position of the scan of the ports
  answer,      \* what ready said last, "none" after a read
  returned,    \* history: returned[p]: the records start_read has returned
  passed       \* history: passed[p]: records exa took from other ports while
               \*          one waited at p

source == <<kind, class, arrived, tail, next, aim>>
fields == <<size, data, held, port>>
flags == <<o_nonblock, blocking>>
call == <<pc, mode, i, answer>>
vars == <<source, fields, flags, call, returned, passed>>

Ports == 0..(P - 1)
Used == IF kind \in Cards THEN Ports ELSE {0}
Records == 1..MaxRecords
Classes == {"data", "empty", "bad"}
ClassesOf(k) == CASE k = "udp" -> {"data", "empty"}  \* a frame has a header
                  [] k \in {"dag", "exa"} -> {"data", "bad"}
                  [] OTHER -> {"data"}

SourceTypes ==
  /\ kind \in Kinds
  /\ class \in [Ports -> [Records -> Classes]]
  /\ arrived \in [Ports -> 0..MaxRecords]
  /\ tail \in [Ports -> 0..MaxRecords]
  /\ next \in [Ports -> 0..MaxRecords]
  /\ aim \in Nat
FieldTypes ==
  /\ size \in {0, 1} /\ data \in {0, 1}
  /\ held \in [port : Ports, first : 1..(MaxRecords + 1), last : 0..MaxRecords]
  /\ port \in (1 - 2 * P)..P
  /\ o_nonblock \in {0, 1} /\ blocking \in {0, 1}
CallTypes ==
  /\ pc \in {"idle", "prepare", "recv", "found", "reading", "ended", "exited",
            "corrupt"}
  /\ mode \in {"ready", "read"}
  /\ i \in Ports
  /\ answer \in {"yes", "no", "none"}
TypeOK ==
  /\ SourceTypes /\ FieldTypes /\ CallTypes
  /\ returned \in [Ports -> SUBSET Records]
  /\ passed \in [Ports -> Nat]

(* The constructor of exa leaves port as malloc found it.  Only its rest   *)
(* modulo P matters, and for a negative one whether it is within P of 0.   *)
PortAtFirst == IF kind = "exa" THEN (1 - 2 * P)..(P - 1) ELSE {0}

Init ==
  /\ kind \in Kinds
  /\ class = [p \in Ports |-> [n \in Records |-> "data"]]
  /\ arrived = [p \in Ports |-> 0]
  /\ tail = [p \in Ports |-> 0]
  /\ next = [p \in Ports |-> 0]
  /\ aim = Period
  /\ size = 0 /\ data = 0
  /\ held = [port |-> 0, first |-> 1, last |-> 0]
  /\ port \in PortAtFirst
  /\ o_nonblock = 0 /\ blocking = 1
  /\ pc = "idle"
  /\ mode = "ready"
  /\ i = 0
  /\ answer = "none"
  /\ returned = [p \in Ports |-> {}]
  /\ passed = [p \in Ports |-> 0]

(* A datagram, a frame, an expiry, the passing of time.                    *)
Arrive(p, c) ==
  /\ p \in Used /\ c \in ClassesOf(kind)
  /\ arrived[p] < IF kind \in Cards THEN PortRecords ELSE MaxRecords
  /\ arrived' = [arrived EXCEPT ![p] = @ + 1]
  /\ class' = [class EXCEPT ![p][arrived[p] + 1] = c]
  /\ UNCHANGED <<kind, tail, next, aim, fields, flags, call, returned, passed>>

-----------------------------------------------------------------------------
(* The calls, up to prepare_next.                                          *)

(* Without the look at size; a mutant of Ready.                            *)
ReadyRefetches ==
  /\ pc = "idle"
  /\ mode' = "ready"
  /\ i' = 0
  /\ pc' = "prepare"
  /\ UNCHANGED <<source, fields, flags, answer, returned, passed>>

(* ready looks at the size, the prepare_next of dag and netmap at the      *)
(* pointer: set, it returns the size.                                      *)
Ready ==
  /\ pc = "idle"
  /\ mode' = "ready"
  /\ i' = 0
  /\ pc' = IF size = 0 /\ data = 0 THEN "prepare" ELSE pc
  /\ answer' = IF size > 0 THEN "yes" ELSE IF data > 0 THEN "no" ELSE answer
  /\ UNCHANGED <<source, fields, flags, returned, passed>>

StartRead ==
  /\ pc = "idle"
  /\ mode' = "read"
  /\ i' = 0
  /\ pc' = IF size > 0 THEN "found" ELSE "prepare"
  /\ UNCHANGED <<source, fields, flags, answer, returned, passed>>

(* prepare_next returns: to ready, or to start_read, which hands out what  *)
(* was found.  With nothing found start_read of a descriptor returns 0,    *)
(* those of the others call prepare_next again.                            *)
Found ==
  /\ IF mode = "ready" THEN pc' = "idle" /\ answer' = "yes"
                       ELSE pc' = "found" /\ answer' = answer
  /\ UNCHANGED <<mode, i>>

FoundNothing ==
  /\ i' = 0
  /\ mode' = mode
  /\ IF mode = "ready" THEN pc' = "idle" /\ answer' = "no"
     ELSE /\ pc' = IF kind \in Descriptors THEN "ended" ELSE "prepare"
          /\ answer' = answer

Looking == pc = "prepare" /\ data = 0

-----------------------------------------------------------------------------
(* udp, raw, periodic: one system call, blocking or not.                   *)

(* With the flag the wrong way round, and without noting what it was set   *)
(* to; mutants of SetBlocking.                                             *)
SetBlockingInverted ==
  /\ pc = "prepare"
  /\ kind \in Descriptors
  /\ o_nonblock' = IF mode = "read" THEN 1 ELSE 0
  /\ pc' = "recv"
  /\ UNCHANGED <<source, fields, blocking, mode, i, answer, returned, passed>>

SetBlockingForgets ==
  LET wanted == IF mode = "read" THEN 1 ELSE 0 IN
  /\ pc = "prepare"
  /\ kind \in Descriptors
  /\ o_nonblock' = IF kind = "periodic" /\ blocking = wanted THEN o_nonblock
                                                             ELSE 1 - wanted
  /\ pc' = "recv"
  /\ UNCHANGED <<source, fields, blocking, mode, i, answer, returned, passed>>

(* periodic saves the fcntl if it thinks the flag is right; the others     *)
(* have no such cache.                                                     *)
SetBlocking ==
  LET wanted == IF mode = "read" THEN 1 ELSE 0 IN
  /\ pc = "prepare"
  /\ kind \in Descriptors
  /\ o_nonblock' = IF kind = "periodic" /\ blocking = wanted THEN o_nonblock
                                                             ELSE 1 - wanted
  /\ blocking' = IF kind = "periodic" THEN wanted ELSE blocking
  /\ pc' = "recv"
  /\ UNCHANGED <<source, fields, mode, i, answer, returned, passed>>

(* An empty datagram reported as found; a mutant of Recv.                  *)
RecvFindsEmpty ==
  /\ pc = "recv"
  /\ kind \in {"udp", "raw"}
  /\ next[0] < arrived[0]
  /\ next' = [next EXCEPT ![0] = @ + 1]
  /\ held' = [port |-> 0, first |-> next[0] + 1, last |-> next[0] + 1]
  /\ size' = IF class[0][next[0] + 1] = "data" THEN 1 ELSE 0
  /\ Found
  /\ UNCHANGED <<kind, class, arrived, tail, aim, data, port, flags, returned, passed>>

(* A datagram without payload is consumed, and leaves bytes_read 0.        *)
Recv ==
  /\ pc = "recv"
  /\ kind \in {"udp", "raw"}
  /\ next[0] < arrived[0]
  /\ next' = [next EXCEPT ![0] = @ + 1]
  /\ held' = [port |-> 0, first |-> next[0] + 1, last |-> next[0] + 1]
  /\ IF class[0][next[0] + 1] = "data" THEN size' = 1 /\ Found
                                       ELSE size' = 0 /\ FoundNothing
  /\ UNCHANGED <<kind, class, arrived, tail, aim, data, port, flags, returned, passed>>

(* read of a timerfd returns all the expiries since the last one.          *)
ReadExpiries ==
  /\ pc = "recv"
  /\ kind = "periodic"
  /\ next[0] < arrived[0]
  /\ next' = [next EXCEPT ![0] = arrived[0]]
  /\ held' = [port |-> 0, first |-> next[0] + 1, last |-> arrived[0]]
  /\ size' = 1
  /\ Found
  /\ UNCHANGED <<kind, class, arrived, tail, aim, data, port, flags, returned, passed>>

(* EAGAIN, which a blocking descriptor never gives; udp takes it for an    *)
(* error like any other.                                                   *)
WouldBlock ==
  /\ pc = "recv"
  /\ next[0] = arrived[0]
  /\ o_nonblock = 1
  /\ IF kind = "udp" THEN pc' = "exited" /\ UNCHANGED <<mode, i, answer>>
                     ELSE FoundNothing
  /\ UNCHANGED <<source, fields, flags, returned, passed>>

-----------------------------------------------------------------------------
(* fast: the clock is read and compared with the aim.                      *)

(* The next aim counted from the last one; a mutant of TimerFires.         *)
TimerCatchesUp ==
  /\ Looking
  /\ kind = "fast"
  /\ arrived[0] >= aim
  /\ aim' = aim + Period
  /\ next' = [next EXCEPT ![0] = arrived[0]]
  /\ held' = [port |-> 0, first |-> next[0] + 1, last |-> arrived[0]]
  /\ size' = 1
  /\ Found
  /\ UNCHANGED <<kind, class, arrived, tail, data, port, flags, returned, passed>>

TimerFires ==
  /\ Looking
  /\ kind = "fast"
  /\ arrived[0] >= aim
  /\ aim' = arrived[0] + Period
  /\ next' = [next EXCEPT ![0] = arrived[0]]
  /\ held' = [port |-> 0, first |-> next[0] + 1, last |-> arrived[0]]
  /\ size' = 1
  /\ Found
  /\ UNCHANGED <<kind, class, arrived, tail, data, port, flags, returned, passed>>

TimerWaits ==
  /\ Looking
  /\ kind = "fast"
  /\ arrived[0] < aim
  /\ FoundNothing
  /\ UNCHANGED <<source, fields, flags, returned, passed>>

-----------------------------------------------------------------------------
(* dag: the next record of the card's buffer.                              *)

TakeRecord ==
  /\ Looking
  /\ kind = "dag"
  /\ next[0] < arrived[0]
  /\ class[0][next[0] + 1] = "data"
  /\ next' = [next EXCEPT ![0] = @ + 1]
  /\ held' = [port |-> 0, first |-> next[0] + 1, last |-> next[0] + 1]
  /\ size' = 1
  /\ data' = 1
  /\ Found
  /\ UNCHANGED <<kind, class, arrived, tail, aim, port, flags, returned, passed>>

(* "Not ERF payload": the card has moved on, the record is dropped.        *)
NotErf ==
  /\ Looking
  /\ kind = "dag"
  /\ next[0] < arrived[0]
  /\ class[0][next[0] + 1] = "bad"
  /\ next' = [next EXCEPT ![0] = @ + 1]
  /\ FoundNothing
  /\ UNCHANGED <<kind, class, arrived, tail, aim, fields, flags, returned, passed>>

NoRecord ==
  /\ Looking
  /\ kind = "dag"
  /\ next[0] = arrived[0]
  /\ FoundNothing
  /\ UNCHANGED <<source, fields, flags, returned, passed>>

-----------------------------------------------------------------------------
(* exa: exanic_receive_frame on one port after the other, from the one     *)
(* after the last that had a frame.                                        *)

(* The remainder as C has it: of a negative number it is not positive.     *)
ExaPort == IF port + i >= 0 THEN (port + i) % P ELSE -((-(port + i)) % P)

NextPort == IF i + 1 < P THEN i' = i + 1 /\ UNCHANGED <<pc, mode, answer>>
                         ELSE FoundNothing

Waiting(p) == next[p] < arrived[p] /\ class[p][next[p] + 1] = "data"

(* The port not moved; a mutant of ReceiveFrame.                           *)

ReceiveFrameStays ==
  /\ Looking
  /\ kind = "exa"
  /\ ExaPort >= 0
  /\ Waiting(ExaPort)
  /\ next' = [next EXCEPT ![ExaPort] = @ + 1]
  /\ held' = [port |-> ExaPort, first |-> next[ExaPort] + 1, last |-> next[ExaPort] + 1]
  /\ size' = 1
  /\ passed' = [p \in Ports |-> IF p # ExaPort /\ Waiting(p) THEN passed[p] + 1 ELSE 0]
  /\ Found
  /\ UNCHANGED <<kind, class, arrived, tail, aim, data, port, flags, returned>>

ReceiveFrame ==
  /\ Looking
  /\ kind = "exa"
  /\ ExaPort >= 0
  /\ Waiting(ExaPort)
  /\ next' = [next EXCEPT ![ExaPort] = @ + 1]
  /\ held' = [port |-> ExaPort, first |-> next[ExaPort] + 1, last |-> next[ExaPort] + 1]
  /\ size' = 1
  /\ port' = ExaPort + 1
  /\ passed' = [p \in Ports |-> IF p # ExaPort /\ Waiting(p) THEN passed[p] + 1 ELSE 0]
  /\ Found
  /\ UNCHANGED <<kind, class, arrived, tail, aim, data, flags, returned>>

(* A frame aborted, corrupt or lost: a negative result is no result.       *)
BadFrame ==
  /\ Looking
  /\ kind = "exa"
  /\ ExaPort >= 0
  /\ next[ExaPort] < arrived[ExaPort]
  /\ class[ExaPort][next[ExaPort] + 1] = "bad"
  /\ next' = [next EXCEPT ![ExaPort] = @ + 1]
  /\ NextPort
  /\ UNCHANGED <<kind, class, arrived, tail, aim, fields, flags, returned, passed>>

NoFrame ==
  /\ Looking
  /\ kind = "exa"
  /\ ExaPort >= 0
  /\ next[ExaPort] = arrived[ExaPort]
  /\ NextPort
  /\ UNCHANGED <<source, fields, flags, returned, passed>>

(* A negative index: what is in front of the array of ports is skipped, if *)
(* it is null, or used as one.                                             *)
BeforeTheArray ==
  /\ Looking
  /\ kind = "exa"
  /\ ExaPort < 0
  /\ \/ NextPort
     \/ pc' = "corrupt" /\ UNCHANGED <<mode, i, answer>>
  /\ UNCHANGED <<source, fields, flags, returned, passed>>

-----------------------------------------------------------------------------
(* netmap: the slot at cur of the first ring that has any.  next[p] is the *)
(* number of slots ring p's cur (and head) has passed.                     *)

TakeSlot ==
  /\ Looking
  /\ kind = "netmap"
  /\ next[i] < tail[i]
  /\ held' = [port |-> i, first |-> next[i] + 1, last |-> next[i] + 1]
  /\ size' = 1
  /\ data' = 1
  /\ Found
  /\ UNCHANGED <<source, port, flags, returned, passed>>

NoSlot ==
  /\ Looking
  /\ kind = "netmap"
  /\ next[i] = tail[i]
  /\ i + 1 < P
  /\ i' = i + 1
  /\ UNCHANGED <<source, fields, flags, pc, mode, answer, returned, passed>>

(* No ring has any: NIOCRXSYNC makes what has arrived visible, for the     *)
(* next call.                                                              *)
RxSync ==
  /\ Looking
  /\ kind = "netmap"
  /\ next[i] = tail[i]
  /\ i + 1 = P
  /\ tail' = arrived
  /\ FoundNothing
  /\ UNCHANGED <<kind, class, arrived, next, aim, fields, flags, returned, passed>>

-----------------------------------------------------------------------------
(* The rest of start_read, and end_read.                                   *)

Held == held.first..held.last

(* The size left for end_read to clear; a mutant of HandOut.               *)
HandOutKeeps ==
  /\ pc = "found"
  /\ returned' = [returned EXCEPT ![held.port] = @ \union Held]
  /\ pc' = "reading"
  /\ answer' = "none"
  /\ UNCHANGED <<source, fields, flags, mode, i, passed>>

(* Those that read into a buffer with a system call forget the record      *)
(* here, the others at end_read.                                           *)
HandOut ==
  /\ pc = "found"
  /\ returned' = [returned EXCEPT ![held.port] = @ \union Held]
  /\ size' = IF kind \in Descriptors THEN 0 ELSE size
  /\ pc' = "reading"
  /\ answer' = "none"
  /\ UNCHANGED <<source, data, held, port, flags, mode, i, passed>>

(* The pointer not cleared; a mutant of EndRead.                           *)
EndReadKeepsPointer ==
  /\ pc = "reading"
  /\ size' = IF kind \in Descriptors THEN size ELSE 0
  /\ next' = IF kind = "netmap" THEN [next EXCEPT ![held.port] = @ + 1] ELSE next
  /\ pc' = "idle"
  /\ UNCHANGED <<kind, class, arrived, tail, aim, data, held, port, flags, mode, i, answer,
                 returned, passed>>

(* netmap moves cur and head past the slot only now.                       *)
EndRead ==
  /\ pc = "reading"
  /\ size' = IF kind \in Descriptors THEN size ELSE 0
  /\ data' = 0
  /\ next' = IF kind = "netmap" THEN [next EXCEPT ![held.port] = @ + 1] ELSE next
  /\ pc' = "idle"
  /\ UNCHANGED <<kind, class, arrived, tail, aim, held, port, flags, mode, i, answer,
                 returned, passed>>

Prepare == \/ SetBlocking \/ Recv \/ ReadExpiries \/ WouldBlock
           \/ TimerFires \/ TimerWaits
           \/ TakeRecord \/ NotErf \/ NoRecord
           \/ ReceiveFrame \/ BadFrame \/ NoFrame \/ BeforeTheArray
           \/ TakeSlot \/ NoSlot \/ RxSync

Next == \/ Ready \/ StartRead \/ Prepare \/ HandOut \/ EndRead
        \/ \E p \in Ports, c \in Classes : Arrive(p, c)

Spec == Init /\ [][Next]_vars

(* A caller that goes on asking, reads when told to, and finishes its      *)
(* reads, as the loop of camio_cat.  Nothing need ever arrive.             *)
FairSpec ==
  /\ Spec
  /\ WF_vars(Prepare \/ HandOut)
  /\ WF_vars(Ready /\ answer # "yes")
  /\ WF_vars(StartRead /\ answer = "yes")
  /\ WF_vars(EndRead)

-----------------------------------------------------------------------------
(* "Returns non-zero if a call to start_read will be non-blocking": what   *)
(* ready has found is still there when start_read comes for it.            *)
ReadyTruthful ==
  (answer = "yes" /\ pc \in {"idle", "prepare", "recv", "found"}) =>
    size = 1 /\ pc \in {"idle", "found"}

(* ready returns, whether or not anything ever arrives.  That of udp does  *)
(* when there is a datagram; nothing is claimed of it when there is none.  *)
ReadyReturns ==
  (mode = "ready" /\ pc \in {"prepare", "recv"}
     /\ (kind = "udp" => next[0] < arrived[0])) ~> pc \in {"idle", "corrupt"}

(* ready only "returns non-zero if a call to start_read will be            *)
(* non-blocking", so it returns.  Refuted for udp, in a run of its own.    *)
ReadyNeverExits == mode = "ready" => pc # "exited"

(* Whatever has been consumed at a port was returned, is held for the next *)
(* read, or had nothing in it.                                             *)
HeldAt(p) == IF size = 1 /\ held.port = p THEN Held ELSE {}
NothingLost ==
  \A p \in Ports : \A n \in 1..next[p] :
    class[p][n] = "data" => n \in returned[p] \union HeldAt(p)

(* The records that have left a port: those consumed, without the one that *)
(* is held for the next read; netmap consumes a slot after handing it out. *)
Left(p) ==
  CASE held.port = p /\ size = 1 /\ kind # "netmap" /\ pc # "reading" -> held.first - 1
    [] held.port = p /\ size = 1 /\ kind = "netmap" /\ pc = "reading" -> next[p] + 1
    [] OTHER -> next[p]
Done == [p \in Ports |-> Left(p)]
Ticks == kind \in {"periodic", "fast"}

(* Each kind of istream is a queue of records: one is returned after those *)
(* that arrived before it, and once, and only those without data are       *)
(* dropped.                                                                *)
Queue == INSTANCE PacketQueue WITH ticks <- Ticks, done <- Done
ImplementsQueue == Queue!Spec

(* start_read returns 0, the sign for a stream at its end, only when a     *)
(* datagram had no payload; only udp ends the program.                     *)
EndsAtEmptyOnly ==
  /\ pc = "ended" => /\ kind = "udp"
                     /\ next[0] > 0 /\ class[0][next[0]] = "empty"
  /\ pc = "exited" => kind = "udp"

(* Two expiries of the fast timer are a period apart or more, however late *)
(* the first was noticed.                                                  *)
PeriodKept == (kind = "fast" /\ size = 1) => held.last - held.first + 1 >= Period

(* A port of an ExaNIC that has a frame waiting is passed over by each of  *)
(* the others at most once.                                                *)
NoPortStarves == \A p \in Ports : passed[p] < P

(* The inductive invariant behind the safety properties.                   *)
(* size and the pointer agree, and follow the call in progress.            *)
FieldsFollowCall ==
  /\ data = IF kind \in {"dag", "netmap"} THEN size ELSE 0
  /\ pc \in {"prepare", "recv", "ended", "exited", "corrupt"} => size = 0
  /\ pc = "found" => size = 1
  /\ pc = "reading" => size = IF kind \in Descriptors THEN 0 ELSE 1
  /\ pc = "recv" => kind \in Descriptors
  /\ answer = "yes" => size = 1 /\ pc \in {"idle", "found"}

(* The flag is as the call in progress wants it, and as periodic knows it. *)
FlagFollowsCall ==
  /\ pc = "recv" => o_nonblock = IF mode = "ready" THEN 1 ELSE 0
  /\ kind = "periodic" => blocking = 1 - o_nonblock

(* No port has handed out more than has arrived, or is visible.            *)
CountsInOrder ==
  /\ \A p \in Ports : next[p] <= arrived[p]
  /\ kind = "netmap" => \A p \in Ports : next[p] <= tail[p] /\ tail[p] <= arrived[p]
  /\ kind = "fast" => aim = next[0] + Period
  /\ \A p \in Ports : \A n \in Records : class[p][n] \in ClassesOf(kind)

(* The record held is the newest consumed, for netmap the next to be.      *)
HeldIsNext ==
  size = 1 =>
    /\ held.first <= held.last
    /\ IF kind = "netmap"
         THEN /\ held.first = next[held.port] + 1 /\ held.last = held.first
              /\ held.last <= tail[held.port]
         ELSE held.last = next[held.port]

(* What was returned was consumed before the record held.                  *)
ReturnedBefore ==
  /\ \A p \in Ports : \A n \in returned[p] :
       \/ n <= next[p]
       \/ kind = "netmap" /\ pc = "reading" /\ p = held.port /\ n = next[p] + 1
  /\ (size = 1 /\ pc # "reading") => \A n \in returned[held.port] : n < held.first
  /\ pc = "reading" => Held \subseteq returned[held.port]

(* A port that was passed over comes nearer with every frame taken.        *)
Ahead(p) == IF p < port THEN p + P - port ELSE p - port
PassedComesNearer ==
  \A p \in Ports : passed[p] > 0 =>
    /\ kind = "exa" /\ port >= 0 /\ Waiting(p)
    /\ passed[p] + Ahead(p) < P
    /\ pc = "prepare" => i <= Ahead(p)

PacketInv ==
  /\ TypeOK
  /\ FieldsFollowCall /\ FlagFollowsCall
  /\ CountsInOrder /\ HeldIsNext /\ ReturnedBefore
  /\ NothingLost /\ EndsAtEmptyOnly /\ PeriodKept
  /\ PassedComesNearer

(* Beside it, for the queue: what is held may be returned.                 *)
HeldReturnable ==
  size = 1 => /\ Ticks \/ held.first = held.last
              /\ \A n \in Held : class[held.port][n] = "data"

(* Every record with data is returned in the end, unless the stream ended  *)
(* at an empty datagram, the program ended at an EAGAIN, or an exa began   *)
(* with a negative port: it looks at port 0 and before the array only,     *)
(* until port 0 has a frame.                                               *)
EveryRecordReturned ==
  \A p \in Ports : \A n \in Records :
    (arrived[p] >= n /\ class[p][n] = "data" /\ kind # "fast") ~>
      (n \in returned[p] \/ pc \in {"ended", "exited", "corrupt"} \/ port < 0)
=============================================================================
