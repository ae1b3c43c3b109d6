--------------------------- MODULE SelectorProofs ---------------------------
(***************************************************************************)
(* Proofs about the selectors, for each policy, table size and set of      *)
(* streams.                                                                *)
(***************************************************************************)
EXTENDS Selector, FiniteSetTheorems, TLAPS

(* The freshly constructed selector satisfies the invariant.               *)
LEMMA SelectorInit == Init => SelectorInv
<1> SUFFICES ASSUME Init PROVE SelectorInv
  OBVIOUS
<1>1. TypeOK
  BY SelectorAssumption DEF Init, TypeOK, Positions, None
<1>2. Used = {} /\ Live = {}
  BY DEF Init, Used, Live
<1>3. IsFiniteSet(watched) /\ Cardinality(watched) = 0
  BY FS_EmptySet DEF Init
<1> QED
  BY <1>1, <1>2, <1>3 DEF Init, SelectorInv, CountIsWatched, ReturnsReadyStream

(* The table and the history it is compared with stay as they are.         *)
LEMMA TableUnchanged ==
  ASSUME CountIsWatched, UNCHANGED <<table, watched>>
  PROVE  CountIsWatched' /\ Used' = Used /\ Live' = Live
BY DEF CountIsWatched, table, Used, Live

(* insert: the new entry is the only one with its number.                  *)
LEMMA InsertInv ==
  ASSUME SelectorInv, NEW s \in Streams, Insert(s)
  PROVE  SelectorInv'
<1> USE SelectorAssumption DEF SelectorInv
<1>1. /\ stream_count \in Positions /\ stream_count \notin Used
      /\ Used' = Used \union {stream_count}
      /\ s \notin Inserted /\ s \notin watched
  BY DEF TypeOK, Positions, Used, Insert, MayInsert, Inserted, CountIsWatched, Live
<1>2. /\ streams'[stream_count] = Entry(s)
      /\ \A p \in Positions : p # stream_count => streams'[p] = streams[p]
  BY <1>1 DEF TypeOK, Insert
<1>3. Used \subseteq Positions
  BY DEF TypeOK, Positions, Used
<1>4. TypeOK'
  <2>1. streams' \in [Positions -> [index : Streams \union {0}, live : BOOLEAN]]
    BY DEF TypeOK, Insert, Entry
  <2>2. /\ stream_count' \in 0..Max
        /\ stream_avail' \in 0..Max
        /\ watched' \subseteq Streams
    BY DEF TypeOK, Insert
  <2> QED
    BY <2>1, <2>2 DEF TypeOK, Insert
<1>5. stream_avail' <= stream_count'
  BY DEF TypeOK, Insert
<1>6. \A p \in Positions \ Used' : ~streams'[p].live
  BY <1>1, <1>2
<1>7. \A p, q \in Used' : streams'[p].index = streams'[q].index => p = q
  <2>1. \A p \in Used : streams[p].index # s
    BY <1>1 DEF Inserted
  <2>2. \A p \in Used : streams'[p] = streams[p]
    BY <1>1, <1>2, <1>3
  <2> QED
    BY <1>1, <1>2, <2>1, <2>2 DEF Entry
<1>8. IsFiniteSet(watched') /\ Cardinality(watched') = Cardinality(watched) + 1
  BY <1>1, FS_AddElement DEF Insert
<1>9. CountIsWatched'
  <2>1. Live' = Live \union {stream_count}
    BY <1>1, <1>2, <1>3 DEF Live, Entry
  <2>2. \A p \in Live : streams'[p].index = streams[p].index
    BY <1>1, <1>2, <1>3 DEF Live
  <2>3. watched' = {streams'[p].index : p \in Live'}
    BY <1>2, <2>1, <2>2 DEF CountIsWatched, Insert, Entry
  <2> QED
    BY <1>8, <2>3 DEF CountIsWatched, Insert
<1>10. ReturnsReadyStream' /\ pc' = "caller"
  BY DEF Insert, ReturnsReadyStream
<1> QED
  BY <1>4, <1>5, <1>6, <1>7, <1>8, <1>9, <1>10

(* A stream becoming ready only adds to what may be returned.              *)
LEMMA ArriveInv ==
  ASSUME SelectorInv, NEW s \in Streams, Arrive(s)
  PROVE  SelectorInv'
<1> USE DEF SelectorInv
<1>1. CountIsWatched' /\ Used' = Used /\ Live' = Live
  BY TableUnchanged DEF Arrive
<1>2. TypeOK'
  BY DEF TypeOK, Arrive, table
<1>3. ReturnsReadyStream'
  BY DEF Arrive, ReturnsReadyStream
<1> QED
  BY <1>1, <1>2, <1>3 DEF Arrive, table

(* The scan starts inside the table and returns live entries only.         *)
LEMMA SelectInv ==
  ASSUME SelectorInv, Select
  PROVE  SelectorInv'
<1> USE DEF SelectorInv
<1>1. CountIsWatched' /\ Used' = Used /\ Live' = Live
  BY TableUnchanged DEF Select, table
<1>2. stream_count \in Nat \ {0} /\ stream_count <= Max /\ last \in Nat /\ Max \in Nat
  BY SelectorAssumption DEF TypeOK, Select, Positions
<1>3. (last + 1) % stream_count \in 0..(stream_count - 1)
  BY <1>2
<1>4. FirstPosition \in 0..Max
  BY <1>2, <1>3 DEF FirstPosition
<1>5. TypeOK'
  BY <1>4 DEF TypeOK, Select, table
<1> QED
  BY <1>1, <1>5 DEF Select, table, ReturnsReadyStream

(* poll() reports live entries that are ready, or none.                    *)
LEMMA PollInv ==
  ASSUME SelectorInv, Poll \/ PollHangUp
  PROVE  SelectorInv'
<1> USE DEF SelectorInv
<1>1. CountIsWatched' /\ Used' = Used /\ Live' = Live
  BY TableUnchanged DEF Poll, PollHangUp, table
<1>2. Live \subseteq Positions
  BY SelectorAssumption DEF Live, Used, Positions, TypeOK
<1>3. TypeOK'
  BY <1>2 DEF TypeOK, Poll, PollHangUp, table
<1> QED
  BY <1>1, <1>3 DEF Poll, PollHangUp, table, ReturnsReadyStream

(* Each test of an entry, and the end of the table.                        *)
LEMMA ScanInv ==
  ASSUME SelectorInv, ScanNext \/ ScanEnd \/ ScanHit
  PROVE  SelectorInv'
<1> USE DEF SelectorInv
<1>1. CountIsWatched' /\ Used' = Used /\ Live' = Live
  BY TableUnchanged DEF ScanNext, ScanEnd, ScanHit, table
<1>2. CASE ScanNext
  <2>1. i' \in 0..Max
    BY <1>2, SelectorAssumption DEF ScanNext, TypeOK
  <2>2. TypeOK'
    BY <1>2, <2>1 DEF ScanNext, TypeOK, table
  <2> QED
    BY <1>1, <1>2, <2>2 DEF ScanNext, table, ReturnsReadyStream
<1>3. CASE ScanEnd
  <2>1. TypeOK'
    BY <1>3, SelectorAssumption DEF ScanEnd, TypeOK, table
  <2> QED
    BY <1>1, <1>3, <2>1 DEF ScanEnd, table, ReturnsReadyStream
<1>4. CASE ScanHit
  <2>1. i \in Positions /\ i \in Used
    BY <1>4, SelectorAssumption DEF ScanHit, TypeOK, Positions, Used
  <2>2. i \in Live
    BY <1>4, <2>1 DEF ScanHit, IsReady, Live
  <2>3. which' \in watched
    BY <1>4, <2>2 DEF ScanHit, CountIsWatched
  <2>4. which' \in ready
    BY <1>4 DEF ScanHit, IsReady
  <2>5. passed' \in [Streams -> 0..Max]
    <3>1. \A s \in Streams : passed[s] \in 0..Max /\ Max \in Nat
      BY SelectorAssumption DEF TypeOK
    <3> QED
      BY <1>4, <3>1 DEF ScanHit
  <2>6. TypeOK'
    BY <1>4, <2>1, <2>3, <2>5 DEF ScanHit, TypeOK, table
  <2> QED
    BY <1>1, <1>4, <2>3, <2>4, <2>6 DEF ScanHit, table, ReturnsReadyStream
<1> QED
  BY <1>2, <1>3, <1>4

(* A read can only make the stream just returned not ready.                *)
LEMMA ReadInv ==
  ASSUME SelectorInv, Read \/ GetLost
  PROVE  SelectorInv'
<1> USE DEF SelectorInv
<1>1. CountIsWatched' /\ Used' = Used /\ Live' = Live
  BY TableUnchanged DEF Read, GetLost, table
<1>2. TypeOK'
  BY DEF Read, GetLost, TypeOK, table
<1> QED
  BY <1>1, <1>2 DEF Read, GetLost, table, ReturnsReadyStream

(* remove finds the live entry of the stream: numbers are distinct, and    *)
(* blank entries, which carry the number 0 too, come after it.             *)
LEMMA RemoveInv ==
  ASSUME SelectorInv, Remove
  PROVE  SelectorInv'
<1> USE SelectorAssumption DEF SelectorInv
<1>1. which \in watched
  BY DEF Remove, ReturnsReadyStream
<1>2. PICK p0 \in Live : streams[p0].index = which
  BY <1>1 DEF CountIsWatched
<1>3. PICK p \in Matches : /\ \A q \in Matches : p <= q
                           /\ streams' = [streams EXCEPT ![p].live = FALSE]
  BY DEF Remove
<1>4. Used \subseteq Positions /\ Positions \subseteq Nat /\ Live \subseteq Used
  BY DEF TypeOK, Positions, Used, Live
<1>5. p0 \in Matches
  BY <1>2, <1>4 DEF Matches
<1>6. p = p0
  <2>1. p <= p0 /\ p \in Positions /\ streams[p].index = which
    BY <1>3, <1>5 DEF Matches
  <2>2. p \in Used
    BY <1>2, <1>4, <2>1 DEF Used, Positions, TypeOK
  <2> QED
    BY <1>2, <1>4, <2>1, <2>2
<1>7. UNCHANGED <<stream_count, revents, ready, which>> /\ pc' = "caller" /\ Used' = Used
  BY DEF Remove, Used
<1>8. /\ \A q \in Positions : streams'[q].index = streams[q].index
      /\ \A q \in Positions : streams'[q].live = (streams[q].live /\ q # p)
  BY <1>3 DEF TypeOK, Matches
<1>9. IsFiniteSet(watched') /\ Cardinality(watched') = Cardinality(watched) - 1
  BY <1>1, FS_RemoveElement DEF Remove
<1>10. Cardinality(watched) \in Nat /\ Cardinality(watched) - 1 \in Nat
  BY <1>9, FS_CardinalityType
<1>11. TypeOK'
  <2>1. [streams[p] EXCEPT !.live = FALSE] \in [index : Streams \union {0}, live : BOOLEAN]
    BY <1>3 DEF TypeOK, Matches
  <2>2. streams' \in [Positions -> [index : Streams \union {0}, live : BOOLEAN]]
    BY <1>3, <2>1 DEF TypeOK
  <2>a. /\ stream_avail' = stream_avail - 1 /\ stream_avail = Cardinality(watched)
        /\ stream_avail \in 0..Max /\ Max \in Nat
    BY DEF Remove, TypeOK, CountIsWatched
  <2>b. stream_avail' \in 0..Max
    BY <1>10, <2>a
  <2>3. stream_avail' \in 0..Max /\ watched' \subseteq Streams
    BY <2>b DEF Remove, TypeOK
  <2> QED
    BY <1>7, <2>2, <2>3 DEF Remove, TypeOK
<1>12. CountIsWatched'
  <2>1. Live' = Live \ {p}
    BY <1>4, <1>7, <1>8 DEF Live
  <2>2. \A q \in Live : q # p => streams[q].index # which
    BY <1>2, <1>4, <1>6
  <2>3. \A q \in Live : streams'[q].index = streams[q].index
    BY <1>4, <1>8
  <2>4. watched' = watched \ {which}
    BY DEF Remove
  <2>5. \A x \in watched' : \E q \in Live' : x = streams'[q].index
    BY <1>2, <1>6, <2>1, <2>3, <2>4 DEF CountIsWatched
  <2>6. \A q \in Live' : streams'[q].index \in watched'
    BY <2>1, <2>2, <2>3, <2>4 DEF CountIsWatched
  <2>7. watched' = {streams'[q].index : q \in Live'}
    BY <2>5, <2>6
  <2> QED
    BY <1>9, <2>7 DEF CountIsWatched, Remove
<1>13. stream_avail' <= stream_count'
  BY <1>7 DEF Remove, TypeOK
<1>14. \A q \in Positions \ Used' : ~streams'[q].live
  BY <1>7, <1>8
<1>15. \A q, q1 \in Used' : streams'[q].index = streams'[q1].index => q = q1
  BY <1>4, <1>7, <1>8
<1> QED
  BY <1>7, <1>9, <1>11, <1>12, <1>13, <1>14, <1>15 DEF ReturnsReadyStream

(* Every step preserves the invariant.                                     *)
LEMMA SelectorStep ==
  SelectorInv /\ [Next]_vars => SelectorInv'
<1> SUFFICES ASSUME SelectorInv, [Next]_vars PROVE SelectorInv'
  OBVIOUS
<1>1. CASE UNCHANGED vars
  <2>1. UNCHANGED <<table, watched>>
    BY <1>1 DEF vars
  <2>2. CountIsWatched' /\ Used' = Used /\ Live' = Live
    BY <2>1, TableUnchanged DEF SelectorInv
  <2> QED
    BY <1>1, <2>2 DEF vars, table, SelectorInv, TypeOK, ReturnsReadyStream
<1>2. CASE Next
  BY <1>2, InsertInv, ArriveInv, SelectInv, PollInv, ScanInv, ReadInv, RemoveInv
     DEF Next, Scan, Caller
<1> QED
  BY <1>1, <1>2

(* Types, the agreement of count() with the table, and the readiness of    *)
(* what select returns hold for every policy and any number of streams.    *)
THEOREM SelectorInvariant ==
  Spec => []SelectorInv
<1> QED
  BY SelectorInit, SelectorStep, PTL DEF Spec

(* camio_cat's loop (camio_cat.c, while(selector->count(selector))) ends   *)
(* exactly when every stream it inserted has been removed.                 *)
THEOREM CountCorrect ==
  Spec => []CountIsWatched
<1>1. SelectorInv => CountIsWatched
  BY DEF SelectorInv
<1> QED
  BY <1>1, SelectorInvariant, PTL

(* What select returns was ready and has not been removed.                 *)
THEOREM SelectedReady ==
  Spec => []ReturnsReadyStream
<1>1. SelectorInv => ReturnsReadyStream
  BY DEF SelectorInv
<1> QED
  BY <1>1, SelectorInvariant, PTL

-----------------------------------------------------------------------------
(* Which stream select returns.                                            *)

(* What was ready when the scan of seq began still is, and the scan has    *)
(* not gone past any of it.                                                *)
FrontInv ==
  /\ pc = "poll" => policy = "poll"
  /\ (policy = "seq" /\ pc = "scan") =>
       waiting \subseteq ready /\ \A p \in Live : p < i => streams[p].index \notin waiting
  /\ EarlierStreamsFirst

LEMMA FrontStep == SelectorInv /\ FrontInv /\ [Next]_vars => FrontInv'
<1> SUFFICES ASSUME SelectorInv, FrontInv, [Next]_vars PROVE FrontInv'
  OBVIOUS
<1>1. TypeOK /\ CountIsWatched /\ Live \subseteq Used
  BY DEF SelectorInv, Live
<1>2. ASSUME NEW s \in Streams, Insert(s) PROVE FrontInv'
  BY <1>2 DEF Insert, FrontInv, EarlierStreamsFirst
<1>3. CASE UNCHANGED vars \/ \E s \in Streams : Arrive(s)
  <2>1. Used' = Used /\ Live' = Live
    BY <1>1, <1>3, TableUnchanged DEF Arrive, vars
  <2>2. UNCHANGED <<table, i, pc, which, waiting>> /\ ready \subseteq ready'
    BY <1>3 DEF Arrive, vars
  <2>3. FrontInv!1' /\ FrontInv!2'
    BY <2>1, <2>2 DEF FrontInv, table
  <2>4. EarlierStreamsFirst'
    BY <2>1, <2>2 DEF FrontInv, EarlierStreamsFirst, table
  <2> QED
    BY <2>3, <2>4 DEF FrontInv
<1>4. CASE Select
  <2>1. policy = "seq" => i' = 0 /\ \A p \in Live' : ~(p < 0)
    <3>1. Live' = Live /\ \A p \in Live : ~(p < 0)
      BY <1>1, <1>4, TableUnchanged, SelectorAssumption DEF Select, TypeOK, Used
    <3> QED
      BY <1>4, <3>1 DEF Select, FirstPosition
  <2> QED
    BY <1>4, <2>1 DEF Select, FrontInv, EarlierStreamsFirst, table
<1>5. CASE Poll \/ PollHangUp
  BY <1>5 DEF Poll, PollHangUp, FrontInv, EarlierStreamsFirst, table
<1>6. CASE ScanNext
  <2>1. Live' = Live /\ i \in Nat /\ \A p \in Live : p \in Int
    BY <1>1, <1>6, TableUnchanged, SelectorAssumption DEF ScanNext, TypeOK, Used
  <2>2. ASSUME policy = "seq", NEW p \in Live, p < i + 1 PROVE streams[p].index \notin waiting
    <3>1. p < i \/ p = i
      BY <2>1, <2>2
    <3> QED
      BY <1>6, <2>2, <3>1 DEF ScanNext, IsReady, Live, FrontInv
  <2> QED
    BY <1>6, <2>1, <2>2 DEF ScanNext, FrontInv, EarlierStreamsFirst, table
<1>7. CASE ScanEnd
  <2>1. Live' = Live /\ \A p \in Live : ~(p < 0)
    BY <1>1, <1>7, TableUnchanged, SelectorAssumption DEF ScanEnd, TypeOK, Used
  <2> QED
    BY <1>7, <2>1 DEF ScanEnd, FrontInv, EarlierStreamsFirst, table
<1>8. CASE ScanHit
  <2>1. Used' = Used /\ Live' = Live /\ i \in Used /\ \A p \in Live : p \in Int /\ i \in Int
    BY <1>1, <1>8, TableUnchanged, SelectorAssumption DEF ScanHit, TypeOK, Used
  <2>2. ASSUME policy = "seq", NEW p \in Live, streams[p].index \in waiting PROVE i <= p
    BY <1>8, <2>1, <2>2 DEF ScanHit, FrontInv
  <2> QED
    BY <1>8, <2>1, <2>2 DEF ScanHit, FrontInv, EarlierStreamsFirst, table
<1>9. CASE Read \/ Remove \/ GetLost
  BY <1>9 DEF Read, Remove, GetLost, FrontInv, EarlierStreamsFirst
<1> QED
  BY <1>2, <1>3, <1>4, <1>5, <1>6, <1>7, <1>8, <1>9 DEF Next, Scan, Caller

(* seq serves, of the streams that were ready when select was called, the  *)
(* one inserted first, or one that is before it.                           *)
THEOREM FrontServedFirst ==
  Spec => []EarlierStreamsFirst
<1>1. Init => FrontInv
  BY DEF Init, FrontInv, EarlierStreamsFirst
<1>2. FrontInv => EarlierStreamsFirst
  BY DEF FrontInv
<1> QED
  BY <1>1, <1>2, SelectorInit, SelectorStep, FrontStep, PTL DEF Spec

(* How far b is ahead of a, going round the table.                         *)
Ahead(a, b) == IF a <= b THEN b - a ELSE b - a + stream_count

(* The entry that is tested next, and the one after the last served.       *)
At == IF i >= stream_count THEN 0 ELSE i
NextPosition == IF last + 1 >= stream_count THEN 0 ELSE last + 1

(* A stream that is ready has been passed at most as often as there are    *)
(* entries from it to the one served last; and in a scan of spin, it has   *)
(* not been passed at all unless the scan has not come to it yet.          *)
PassedInv ==
  /\ last < stream_count \/ (last = 0 /\ stream_count = 0)
  /\ \A s \in Streams \ (ready \intersect watched) : passed[s] = 0
  /\ (pc = "selected" /\ which # None) => passed[which] = 0
  /\ pc = "poll" => policy = "poll"
  /\ pc = "scan" => stream_count > 0
  /\ policy = "spin" => \A p \in Live : passed[streams[p].index] <= Ahead(p, last)
  /\ (policy = "spin" /\ pc = "scan") =>
       \A p \in Live : passed[streams[p].index] = 0 \/ Ahead(At, p) <= Ahead(NextPosition, p)

(* Going round: past the entry served, each of the others comes one step   *)
(* nearer; and the way from the next entry to p and from p to the one      *)
(* served last makes up the rest of the table.                             *)
LEMMA Round ==
  ASSUME NEW c \in Nat, stream_count = c, NEW p \in 0..(c - 1), NEW q \in 0..(c - 1)
  PROVE  /\ Ahead(p, q) \in 0..(c - 1)
         /\ p # q => Ahead(p, q) >= 1 /\ Ahead(p, q) + Ahead(q, p) = c
         /\ p # q => Ahead(IF q + 1 >= c THEN 0 ELSE q + 1, p) = Ahead(q, p) - 1
         /\ Ahead(p, q) + Ahead(IF q + 1 >= c THEN 0 ELSE q + 1, p) = c - 1
BY DEF Ahead

(* What is known of a live entry.                                          *)
LEMMA LiveFacts ==
  ASSUME SelectorInv, NEW p \in Live
  PROVE  /\ p \in 0..(stream_count - 1) /\ stream_count \in Nat /\ stream_count <= Max
         /\ p \in Positions
         /\ streams[p].index \in watched /\ streams[p].index \in Streams
         /\ passed[streams[p].index] \in Nat
<1>1. p \in 0..(stream_count - 1) /\ stream_count \in Nat /\ stream_count <= Max
  BY SelectorAssumption DEF SelectorInv, TypeOK, Live, Used
<1>2. streams[p].index \in watched /\ watched \subseteq Streams
  BY DEF SelectorInv, CountIsWatched, TypeOK
<1>3. passed[streams[p].index] \in 0..Max /\ Max \in Nat
  BY <1>2, SelectorAssumption DEF SelectorInv, TypeOK
<1>4. p \in Positions
  BY <1>1, <1>3 DEF Positions
<1>5. passed[streams[p].index] \in Nat
  BY <1>3
<1> QED
  BY <1>1, <1>2, <1>4, <1>5

(* A new entry makes the way round longer, never shorter.                  *)
LEMMA InsertPassed ==
  ASSUME SelectorInv, SelectorInv', PassedInv, NEW s \in Streams, Insert(s)
  PROVE  PassedInv'
<1>1. /\ pc = "caller" /\ pc' = "caller" /\ stream_count' = stream_count + 1
      /\ watched' = watched \union {s} /\ UNCHANGED <<policy, ready, last, passed>>
      /\ streams' = [streams EXCEPT ![stream_count] = Entry(s)]
  BY DEF Insert
<1>2. stream_count \in Nat /\ last \in Nat /\ stream_count \in Positions /\ Max \in Nat
  BY SelectorAssumption DEF SelectorInv, TypeOK, Insert, Positions
<1>3. last < stream_count + 1
  BY <1>2 DEF PassedInv
<1>4. \A r \in Streams \ (ready' \intersect watched') : passed'[r] = 0
  BY <1>1 DEF PassedInv
<1>5. ASSUME policy = "spin", NEW p \in Live'
      PROVE  passed'[streams'[p].index] <= Ahead(p, last)'
  <2>1. p \in 0..stream_count
    BY <1>1, <1>2 DEF Live, Used
  <2>2. CASE p = stream_count
    <3>1. s \notin watched
      BY DEF Insert, MayInsert, Inserted, SelectorInv, CountIsWatched, Live
    <3>2. passed[s] = 0 /\ streams'[p].index = s
      BY <1>1, <1>2, <2>2, <3>1 DEF PassedInv, SelectorInv, TypeOK, Entry
    <3>3. (IF p <= last THEN last - p ELSE last - p + (stream_count + 1)) >= 0
      BY <1>2, <1>3, <2>2
    <3> QED
      BY <1>1, <3>2, <3>3 DEF Ahead
  <2>3. CASE p # stream_count
    <3>1. p \in Live /\ streams'[p] = streams[p]
      BY <1>1, <1>2, <2>1, <2>3 DEF SelectorInv, TypeOK, Live, Used, Positions
    <3>2. passed[streams[p].index] <= Ahead(p, last) /\ passed[streams[p].index] \in Nat
      BY <1>5, <3>1, LiveFacts DEF PassedInv
    <3>3. Ahead(p, last) <= (IF p <= last THEN last - p ELSE last - p + (stream_count + 1))
      BY <1>2, <2>1 DEF Ahead
    <3>4. passed[streams[p].index] <= (IF p <= last THEN last - p ELSE last - p + (stream_count + 1))
      BY <1>2, <2>1, <3>2, <3>3 DEF Ahead
    <3> QED
      BY <1>1, <3>1, <3>4 DEF Ahead
  <2> QED
    BY <2>2, <2>3
<1> QED
  BY <1>1, <1>3, <1>4, <1>5 DEF PassedInv

(* Each step of a scan of spin: an entry that is not taken was not ready,  *)
(* so its stream has not been passed.                                      *)
LEMMA ScanPassed ==
  ASSUME SelectorInv, PassedInv, ScanNext \/ ScanEnd
  PROVE  PassedInv'
<1>1. /\ pc = "scan" /\ UNCHANGED <<table, last, ready, watched, passed>>
      /\ Live' = Live
  BY TableUnchanged DEF SelectorInv, ScanNext, ScanEnd, table
<1>2. stream_count \in Nat /\ last \in Nat /\ i \in Nat /\ stream_count > 0 /\ last < stream_count
  BY <1>1, SelectorAssumption DEF SelectorInv, TypeOK, Positions, PassedInv
<1>3. CASE ScanEnd
  <2>1. policy = "spin" => At' = At /\ NextPosition' = NextPosition
    BY <1>1, <1>2, <1>3 DEF ScanEnd, At, NextPosition, table
  <2> QED
    BY <1>1, <1>3, <2>1 DEF ScanEnd, PassedInv, Ahead, table
<1>4. CASE ScanNext
  <2>1. i \in 0..(stream_count - 1) /\ i' = i + 1 /\ At = i
    BY <1>2, <1>4 DEF ScanNext, At
  <2>2. ASSUME policy = "spin", NEW p \in Live
        PROVE  passed[streams[p].index] = 0
                 \/ Ahead(IF i + 1 >= stream_count THEN 0 ELSE i + 1, p) <= Ahead(NextPosition, p)
    <3>1. CASE p = i
      BY <1>4, <2>2, <3>1, LiveFacts DEF ScanNext, IsReady, Live, PassedInv
    <3>2. CASE p # i
      <4>1. p \in 0..(stream_count - 1)
        BY LiveFacts
      <4>2. NextPosition \in 0..(stream_count - 1)
        BY <1>2 DEF NextPosition
      <4>3. /\ Ahead(IF i + 1 >= stream_count THEN 0 ELSE i + 1, p) = Ahead(i, p) - 1
        BY <1>2, <2>1, <3>2, <4>1 DEF Ahead
      <4>6. Ahead(i, p) \in 0..(stream_count - 1)
        BY <1>2, <2>1, <4>1, Round
      <4>5. Ahead(NextPosition, p) \in 0..(stream_count - 1)
        BY <1>2, <4>1, <4>2, Round
      <4>4. passed[streams[p].index] = 0 \/ Ahead(i, p) <= Ahead(NextPosition, p)
        BY <1>1, <2>1, <2>2 DEF PassedInv
      <4> QED
        BY <1>2, <4>3, <4>4, <4>5, <4>6
    <3> QED
      BY <3>1, <3>2
  <2>3. /\ At' = IF i + 1 >= stream_count THEN 0 ELSE i + 1
        /\ NextPosition' = NextPosition
        /\ UNCHANGED <<policy, streams, stream_count>>
    BY <1>1, <2>1 DEF At, NextPosition, table
  <2> QED
    BY <1>1, <1>4, <2>2, <2>3 DEF ScanNext, PassedInv, Ahead
<1> QED
  BY <1>3, <1>4

(* The entry that is taken is the new last: what it leaves behind was      *)
(* passed once more, and is one nearer.                                    *)
LEMMA HitPassed ==
  ASSUME SelectorInv, PassedInv, ScanHit
  PROVE  PassedInv'
<1>1. /\ pc = "scan" /\ pc' = "selected" /\ UNCHANGED <<table, ready, watched>>
      /\ which' = streams[i].index
      /\ last' = IF policy = "seq" THEN last ELSE i
      /\ passed' = [s \in Streams |->
                     IF s \in ready \intersect watched /\ s # streams[i].index
                     THEN IF passed[s] < Max THEN passed[s] + 1 ELSE Max
                     ELSE 0]
      /\ Live' = Live
  BY TableUnchanged DEF ScanHit, SelectorInv, table
<1>2. /\ stream_count \in Nat /\ last \in Nat /\ i \in Nat /\ Max \in Nat
      /\ i < stream_count /\ last < stream_count
  BY SelectorAssumption DEF SelectorInv, TypeOK, Positions, PassedInv, ScanHit
<1>3. i \in Live
  BY <1>2 DEF ScanHit, IsReady, Live, Used
<1>4. streams[i].index \in Streams
  BY <1>3, LiveFacts
<1>5. ASSUME policy = "spin", NEW p \in Live
      PROVE  passed'[streams[p].index] <= Ahead(p, i)
  <2>1. /\ p \in 0..(stream_count - 1) /\ streams[p].index \in Streams
        /\ passed[streams[p].index] \in Nat /\ passed[streams[p].index] <= Max
    BY <1>5, LiveFacts DEF SelectorInv, TypeOK
  <2>2. i \in 0..(stream_count - 1) /\ last \in 0..(stream_count - 1)
    BY <1>2
  <2>3. Ahead(p, i) \in 0..(stream_count - 1)
    BY <1>2, <2>1, <2>2, Round
  <2>4. CASE passed'[streams[p].index] = 0
    BY <1>2, <2>3, <2>4
  <2>5. CASE passed'[streams[p].index] # 0
    <3>1. /\ streams[p].index # streams[i].index
          /\ passed'[streams[p].index] <= passed[streams[p].index] + 1
      BY <1>1, <1>2, <2>1, <2>5
    <3>2. p # i
      BY <3>1
    <3>3. Ahead(p, i) >= 1 /\ Ahead(p, i) + Ahead(i, p) = stream_count
      BY <1>2, <2>1, <2>2, <3>2, Round
    <3>4. Ahead(p, last) + Ahead(NextPosition, p) = stream_count - 1
      BY <1>2, <2>1, <2>2, Round DEF NextPosition
    <3>5. Ahead(i, p) \in 0..(stream_count - 1) /\ Ahead(p, last) \in 0..(stream_count - 1)
      BY <1>2, <2>1, <2>2, Round
    <3>6. NextPosition \in 0..(stream_count - 1)
      BY <1>2 DEF NextPosition
    <3>7. Ahead(NextPosition, p) \in 0..(stream_count - 1)
      BY <1>2, <2>1, <3>6, Round
    <3>8. passed[streams[p].index] <= Ahead(p, last)
      BY <1>5 DEF PassedInv
    <3>9. passed[streams[p].index] = 0 \/ Ahead(i, p) <= Ahead(NextPosition, p)
      BY <1>1, <1>2, <1>5 DEF PassedInv, At
    <3>10. passed[streams[p].index] + 1 <= Ahead(p, i)
      BY <1>2, <2>1, <2>3, <3>3, <3>4, <3>5, <3>7, <3>8, <3>9
    <3>11. passed'[streams[p].index] \in Nat
      BY <1>1, <1>2, <2>1
    <3> QED
      BY <1>2, <2>1, <2>3, <3>1, <3>10, <3>11
  <2> QED
    BY <2>4, <2>5
<1>6. policy = "spin" => \A p \in Live : passed'[streams[p].index] <= Ahead(p, i)
  BY <1>5
<1>7. \A s \in Streams \ (ready \intersect watched) : passed'[s] = 0
  BY <1>1
<1>8. passed'[which'] = 0
  BY <1>1, <1>4
<1>9. policy = "spin" => \A p \in Live' : (passed[streams[p].index] <= Ahead(p, last))'
  BY <1>1, <1>6 DEF table, Ahead
<1> QED
  BY <1>1, <1>2, <1>7, <1>8, <1>9 DEF PassedInv, table

(* What the scan starts with is the position after the last.               *)
LEMMA RoundTheTable ==
  ASSUME NEW c \in Nat, NEW l \in 0..(c - 1)
  PROVE  (l + 1) % c = IF l + 1 >= c THEN 0 ELSE l + 1
<1>1. CASE l + 1 >= c
  BY <1>1
<1>2. CASE l + 1 < c
  BY <1>2
<1> QED
  BY <1>1, <1>2

LEMMA SelectPassed ==
  ASSUME SelectorInv, PassedInv, Select
  PROVE  PassedInv'
<1>1. /\ UNCHANGED <<table, last, which, ready, watched, passed>>
      /\ pc' = IF policy = "poll" THEN "poll" ELSE "scan"
      /\ i' = FirstPosition /\ Live' = Live
  BY TableUnchanged DEF Select, SelectorInv, table
<1>2. stream_count \in Nat /\ last \in Nat /\ stream_count > 0 /\ last < stream_count
  BY SelectorAssumption DEF SelectorInv, TypeOK, Positions, PassedInv, Select
<1>3. policy = "spin" => i' = NextPosition /\ NextPosition < stream_count
  BY <1>1, <1>2, RoundTheTable DEF FirstPosition, NextPosition
<1>4. policy = "spin" => At' = NextPosition /\ NextPosition' = NextPosition
  BY <1>1, <1>2, <1>3 DEF At, NextPosition, table
<1>5. policy = "spin" => \A p \in Live : p \in 0..(stream_count - 1)
  BY LiveFacts
<1>6. policy = "spin" => \A p \in Live' : (Ahead(At, p) <= Ahead(NextPosition, p))'
  <2> SUFFICES ASSUME policy = "spin", NEW p \in Live
               PROVE  (Ahead(At, p) <= Ahead(NextPosition, p))'
    BY <1>1
  <2>1. Ahead(NextPosition, p) \in 0..(stream_count - 1)
    BY <1>2, <1>3, <1>5 DEF NextPosition, Ahead
  <2> QED
    BY <1>1, <1>2, <1>4, <2>1 DEF Ahead, table
<1>7. \A p \in Live' : policy = "spin" => (passed[streams[p].index] <= Ahead(p, last))'
  BY <1>1 DEF PassedInv, Ahead, table
<1> QED
  BY <1>1, <1>2, <1>6, <1>7 DEF PassedInv, table

(* What the caller does with a stream that has just been served, and data  *)
(* that arrives, change nothing of the order.                              *)
LEMMA CallerPassed ==
  ASSUME SelectorInv, PassedInv, Read \/ Remove \/ GetLost
  PROVE  PassedInv'
<1>1. /\ pc = "selected" /\ pc' # "selected" /\ pc' # "poll" /\ pc' # "scan"
      /\ UNCHANGED <<policy, stream_count, last, passed>>
      /\ ready \ ready' \subseteq {which} /\ watched \ watched' \subseteq {which}
      /\ ready' \subseteq ready /\ watched' \subseteq watched
      /\ (which = None => watched' = watched /\ ready' = ready)
  BY DEF Read, Remove, GetLost, table
<1>2. \A p \in Live' : p \in Live /\ streams'[p].index = streams[p].index
  <2>1. CASE Remove
    <3>1. PICK q \in Positions : streams' = [streams EXCEPT ![q].live = FALSE]
      BY <2>1 DEF Remove, Matches
    <3> QED
      BY <1>1, <3>1, SelectorAssumption DEF SelectorInv, TypeOK, Live, Used, Positions
  <2>2. CASE Read \/ GetLost
    BY <2>2 DEF Read, GetLost, Live, Used, table
  <2> QED
    BY <2>1, <2>2
<1>3. \A s \in Streams \ (ready' \intersect watched') : passed'[s] = 0
  BY <1>1 DEF PassedInv
<1>4. policy' = "spin" => \A p \in Live' : (passed[streams[p].index] <= Ahead(p, last))'
  BY <1>1, <1>2 DEF PassedInv, Ahead
<1> QED
  BY <1>1, <1>3, <1>4 DEF PassedInv

LEMMA PassedStep ==
  ASSUME SelectorInv, SelectorInv', PassedInv, [Next]_vars
  PROVE  PassedInv'
<1>1. CASE UNCHANGED vars
  BY <1>1 DEF PassedInv, vars, table, Live, Used, Ahead, At, NextPosition
<1>2. ASSUME NEW s \in Streams, Insert(s) PROVE PassedInv'
  BY <1>2, InsertPassed
<1>3. ASSUME NEW s \in Streams, Arrive(s) PROVE PassedInv'
  BY <1>3 DEF Arrive, PassedInv, table, Live, Used, Ahead, At, NextPosition
<1>4. CASE Select
  BY <1>4, SelectPassed
<1>5. CASE Poll \/ PollHangUp
  <2>1. policy = "poll" /\ stream_count' = stream_count /\ UNCHANGED <<table, last, which, ready, watched, passed>>
        /\ pc = "poll" /\ pc' = "scan"
    BY <1>5 DEF Poll, PollHangUp, PassedInv, table
  <2>2. stream_count > 0
    BY <1>5, SelectorAssumption DEF Poll, PollHangUp, Live, Used, SelectorInv, TypeOK
  <2> QED
    BY <2>1, <2>2 DEF PassedInv, table
<1>6. CASE ScanNext \/ ScanEnd
  BY <1>6, ScanPassed
<1>7. CASE ScanHit
  BY <1>7, HitPassed
<1>8. CASE Read \/ Remove \/ GetLost
  BY <1>8, CallerPassed
<1> QED
  BY <1>1, <1>2, <1>3, <1>4, <1>5, <1>6, <1>7, <1>8 DEF Next, Scan, Caller

(* spin passes over a stream that is ready at most once for each of the    *)
(* other entries of its table.                                             *)
THEOREM NonePassedTwice ==
  Spec => []NoneIsPassedTwice
<1>1. Init => PassedInv
  BY DEF Init, PassedInv, Live, Used
<1>2. ASSUME SelectorInv, PassedInv PROVE NoneIsPassedTwice
  <2> SUFFICES ASSUME policy = "spin", NEW s \in watched PROVE passed[s] < stream_count
    BY DEF NoneIsPassedTwice
  <2>1. PICK p \in Live : streams[p].index = s
    BY <1>2 DEF SelectorInv, CountIsWatched
  <2>2. p \in 0..(stream_count - 1) /\ stream_count \in Nat /\ passed[s] \in Nat
    BY <1>2, <2>1, LiveFacts
  <2>3. last \in 0..(stream_count - 1)
    BY <1>2, <2>2, SelectorAssumption DEF SelectorInv, TypeOK, Positions, PassedInv
  <2>4. Ahead(p, last) \in 0..(stream_count - 1)
    BY <2>2, <2>3, Round
  <2>5. passed[s] <= Ahead(p, last)
    BY <1>2, <2>1 DEF PassedInv
  <2> QED
    BY <2>2, <2>4, <2>5
<1> QED
  BY <1>1, <1>2, SelectorInit, SelectorStep, PassedStep, PTL DEF Spec
=============================================================================
