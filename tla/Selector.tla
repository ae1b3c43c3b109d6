------------------------------ MODULE Selector ------------------------------
(***************************************************************************)
(* The three selectors of camio (spin, seq and poll) and the loop that     *)
(* drives one, as camio_cat does: insert the input streams, then, while    *)
(* the selector counts any, select one, read from it or remove it.         *)
(*                                                                         *)
(* A selector keeps a fixed table.  insert appends an entry, remove clears *)
(* the stream of an entry and leaves the entry where it is; no entry is    *)
(* ever used again.  The streams are known to the caller by a number of    *)
(* its own (the "index" argument), which stands for the stream here.  They *)
(* become ready on their own, at any moment of a scan; only the caller's   *)
(* reads make one not ready.  Entries are tested one by one.               *)
(***************************************************************************)
EXTENDS Integers, FiniteSets

CONSTANTS Policies,  \* which of "spin", "seq" and "poll" there are
          Max,       \* size of the table: CAMIO_SELECTOR_*_MAX_STREAMS
          Streams    \* the numbers the caller gives its streams

ASSUME SelectorAssumption ==
  /\ Policies \subseteq {"spin", "seq", "poll"}
  /\ Max \in Nat \ {0}
  /\ Streams \subseteq Nat

VARIABLES
  policy,        \* which selector this is
  streams,       \* the table: [index, live], live meaning istream # NULL
  stream_count,  \* entries used so far
  stream_avail,  \* what count() returns
  last,          \* position of the stream select returned last
  i,             \* position of the scan in select
  revents,       \* the positions poll() reported
  pc,            \* where the caller is
  which,         \* what select returned
  ready,         \* the streams a read of which would not block
  watched,       \* history: streams inserted with success and not removed
  waiting,       \* history: streams ready when the current select began
  passed         \* history: passed[s]: selects that took another stream
                 \*          while s was ready (not counted beyond Max)

table == <<policy, streams, stream_count, stream_avail>>
vars == <<table, last, i, revents, pc, which, ready, watched, waiting, passed>>

None == -1                     \* the ~0 after the loop of select
Positions == 0..(Max - 1)
Used == 0..(stream_count - 1)
Live == {p \in Used : streams[p].live}
Entry(s) == [index |-> s, live |-> TRUE]

TypeOK ==
  /\ policy \in Policies
  /\ streams \in [Positions -> [index : Streams \union {0}, live : BOOLEAN]]
  /\ stream_count \in 0..Max
  /\ stream_avail \in 0..Max
  /\ last \in Positions
  /\ i \in 0..Max
  /\ revents \subseteq Positions
  /\ pc \in {"caller", "poll", "scan", "selected", "lost"}
  /\ which \in Streams \union {None}
  /\ ready \subseteq Streams
  /\ watched \subseteq Streams
  /\ waiting \subseteq Streams
  /\ passed \in [Streams -> 0..Max]

Init ==
  /\ policy \in Policies
  /\ streams = [p \in Positions |-> [index |-> 0, live |-> FALSE]]
  /\ stream_count = 0
  /\ stream_avail = 0
  /\ last = 0
  /\ i = 0
  /\ revents = {}
  /\ pc = "caller"
  /\ which = None
  /\ ready = {}
  /\ watched = {}
  /\ waiting = {}
  /\ passed = [s \in Streams |-> 0]

(* insert of a full table returns -1 and the caller goes on without it.    *)
(* It numbers its streams consecutively: no number is used again, which    *)
(* remove depends on (it clears the first entry with the number, cleared   *)
(* before or not).                                                         *)
Inserted == {streams[p].index : p \in Used}
MayInsert(s) == s \notin Inserted

Insert(s) ==
  /\ pc = "caller"
  /\ MayInsert(s)
  /\ stream_count < Max
  /\ streams' = [streams EXCEPT ![stream_count] = Entry(s)]
  /\ stream_count' = stream_count + 1
  /\ stream_avail' = stream_avail + 1
  /\ watched' = watched \union {s}
  /\ UNCHANGED <<policy, last, i, revents, pc, which, ready, waiting, passed>>

(* Streams become ready on their own: data arrives, or the stream ends.    *)
Arrive(s) ==
  /\ s \notin ready
  /\ ready' = ready \union {s}
  /\ UNCHANGED <<table, last, i, revents, pc, which, watched, waiting, passed>>

-----------------------------------------------------------------------------
(* select.                                                                 *)

(* Where the scan begins: after the stream that was served last, "to avoid *)
(* starvation", or at the front, "to ensure starvation".                   *)
FromTheFront == 0                                             \* mutants
FromTheLast == last % stream_count
FromTheNext == (last + 1) % stream_count
FirstPosition == IF policy = "seq" THEN 0 ELSE (last + 1) % stream_count

Select ==
  /\ pc = "caller"
  /\ stream_avail > 0
  /\ i' = FirstPosition
  /\ waiting' = ready
  /\ pc' = IF policy = "poll" THEN "poll" ELSE "scan"
  /\ UNCHANGED <<table, last, revents, which, ready, watched, passed>>

(* poll() blocks until a descriptor that was not set to -1 is readable,    *)
(* and reports those that are.                                             *)
Poll ==
  LET readable == {p \in Live : streams[p].index \in ready} IN
  /\ pc = "poll"
  /\ readable # {}
  /\ revents' = readable
  /\ pc' = "scan"
  /\ UNCHANGED <<table, last, i, which, ready, watched, waiting, passed>>

(* It also returns, with nothing readable, when one has hung up or has an  *)
(* error; what the scan looks for is then not there.                       *)
PollHangUp ==
  /\ pc = "poll"
  /\ \A p \in Live : streams[p].index \notin ready
  /\ Live # {}
  /\ revents' = {}
  /\ pc' = "scan"
  /\ UNCHANGED <<table, last, i, which, ready, watched, waiting, passed>>

IgnoresCleared(p) == streams[p].index \in ready               \* mutant
IsReady(p) ==
  /\ streams[p].live
  /\ IF policy = "poll" THEN p \in revents ELSE streams[p].index \in ready

ScanNext ==
  /\ pc = "scan"
  /\ i < stream_count
  /\ ~IsReady(i)
  /\ i' = i + 1
  /\ UNCHANGED <<table, last, revents, pc, which, ready, watched, waiting, passed>>

(* The end of the table: spin and seq go round, poll gives up.             *)
ScanEnd ==
  /\ pc = "scan"
  /\ i >= stream_count
  /\ \/ /\ policy # "poll"
        /\ i' = 0
        /\ UNCHANGED <<pc, which>>
     \/ /\ policy = "poll"
        /\ which' = None
        /\ pc' = "selected"
        /\ UNCHANGED i
  /\ UNCHANGED <<table, last, revents, ready, watched, waiting, passed>>

(* seq keeps no last; the variable is then never used.                     *)
ScanHit ==
  /\ pc = "scan"
  /\ i < stream_count
  /\ IsReady(i)
  /\ which' = streams[i].index
  /\ last' = IF policy = "seq" THEN last ELSE i
  /\ pc' = "selected"
  /\ passed' = [s \in Streams |->
                 IF s \in ready \intersect watched /\ s # streams[i].index
                 THEN IF passed[s] < Max THEN passed[s] + 1 ELSE Max
                 ELSE 0]
  /\ UNCHANGED <<table, i, revents, ready, watched, waiting>>

-----------------------------------------------------------------------------
(* The caller, once select has returned.                                   *)

(* It reads; there may be more to read, or not.                            *)
Read ==
  /\ pc = "selected"
  /\ which # None
  /\ ready' \in {ready, ready \ {which}}
  /\ pc' = "caller"
  /\ UNCHANGED <<table, last, i, revents, which, watched, waiting, passed>>

(* The read returned 0 bytes, and it removes the stream.  The search goes  *)
(* over the whole table, cleared and unused entries included.              *)
Matches == {p \in Positions : streams[p].index = which}

(* Mutant: the table is shrunk from the tail.                              *)
RemoveFromTail ==
  /\ pc = "selected"
  /\ which # None
  /\ streams' = [streams EXCEPT ![CHOOSE p \in Matches : TRUE].live = FALSE]
  /\ stream_avail' = stream_avail - 1
  /\ stream_count' = stream_count - 1
  /\ watched' = watched \ {which}
  /\ pc' = "caller"
  /\ UNCHANGED <<policy, last, i, revents, which, ready, waiting, passed>>

Remove ==
  /\ pc = "selected"
  /\ which # None
  /\ \E p \in Matches :
       /\ \A q \in Matches : p <= q
       /\ streams' = [streams EXCEPT ![p].live = FALSE]
  /\ stream_avail' = stream_avail - 1
  /\ watched' = watched \ {which}
  /\ pc' = "caller"
  /\ UNCHANGED <<policy, stream_count, last, i, revents, which, ready, waiting,
                 passed>>

(* It takes ~0 for a stream and uses it as an index into its own list.     *)
GetLost ==
  /\ pc = "selected"
  /\ which = None
  /\ pc' = "lost"
  /\ UNCHANGED <<table, last, i, revents, which, ready, watched, waiting, passed>>

Scan == Poll \/ ScanNext \/ ScanEnd \/ ScanHit
Caller == Select \/ Read \/ Remove \/ GetLost

Next ==
  \/ \E s \in Streams : Insert(s) \/ Arrive(s)
  \/ Scan \/ PollHangUp
  \/ Caller

Spec == Init /\ [][Next]_vars

(* The caller's loop and the scan it calls run whenever they can; no       *)
(* stream has to hang up.                                                  *)
FairSpec == Spec /\ WF_vars(Scan) /\ WF_vars(Caller)

-----------------------------------------------------------------------------
(* count() is the number of streams that are watched, and exactly those    *)
(* are live in the table: the caller's loop ends when, and only when,      *)
(* every stream it inserted has been removed.                              *)
CountIsWatched ==
  /\ stream_avail = Cardinality(watched)
  /\ watched = {streams[p].index : p \in Live}

(* A stream that is returned was ready, is watched, and reading from it    *)
(* will not block.                                                         *)
ReturnsReadyStream ==
  (pc = "selected" /\ which # None) => which \in ready \intersect watched

(* The two properties are inductive with these facts: entries beyond       *)
(* stream_count are blank, no number is in the table twice, and the events *)
(* of a poll stay true until select returns.                               *)
SelectorInv ==
  /\ TypeOK
  /\ stream_avail <= stream_count
  /\ \A p \in Positions \ Used : ~streams[p].live
  /\ \A p, q \in Used : streams[p].index = streams[q].index => p = q
  /\ IsFiniteSet(watched)
  /\ CountIsWatched
  /\ (pc = "scan" /\ policy = "poll") =>
       \A p \in revents : streams[p].index \in ready
  /\ ReturnsReadyStream

(* "Start from the next stream to avoid starvation": spin passes over a    *)
(* stream that is ready at most once for each of the others.               *)
NoneIsPassedTwice == policy = "spin" => \A s \in watched : passed[s] < stream_count

(* The same as a liveness property: spin selects a stream that is ready,   *)
(* unless it is removed meanwhile.                                         *)
NoStarvation ==
  \A s \in Streams :
    (policy = "spin" /\ s \in ready \intersect watched) ~> (which = s \/ s \notin watched)

(* "Start from zero every time": seq never returns a stream while one      *)
(* inserted before it has been ready since select was called.              *)
EarlierStreamsFirst ==
  (policy = "seq" /\ pc = "selected") =>
    \A p \in Live : streams[p].index \in waiting =>
      \E q \in Used : q <= p /\ streams[q].index = which

(* camio_selector_poll.c calls the return of ~0 "Unreachable"; of the      *)
(* calls in which poll() did report a readable stream that is refuted, in  *)
(* a run of its own.                                                       *)
EndOfSelectUnreachable == (pc = "selected" /\ revents # {}) => which # None
=============================================================================
