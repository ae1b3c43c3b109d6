------------------------ MODULE PacketIstreamProofs ------------------------
(***************************************************************************)
(* Proofs about the packet istreams, for every kind, number of ports and   *)
(* period.                                                                 *)
(***************************************************************************)
EXTENDS PacketIstream, TLAPS

-----------------------------------------------------------------------------
(* The ports of an ExaNIC: the one i places after port, and how far ahead  *)
(* a port is.                                                              *)

LEMMA ExaPortIs ==
  ASSUME TypeOK
  PROVE  /\ ExaPort \in Int
         /\ ExaPort >= 0 => ExaPort \in Ports
         /\ port >= 0 => ExaPort = IF port + i < P THEN port + i ELSE port + i - P
<1> USE PacketAssumption
<1>1. /\ port \in Int /\ 1 - 2 * P <= port /\ port <= P
      /\ i \in 0..(P - 1) /\ P \in Nat \ {0}
  BY DEF TypeOK, FieldTypes, CallTypes, Ports
<1>2. CASE port + i < 0
  <2> DEFINE x == -(port + i)
  <2>1. x \in Nat /\ ExaPort = -(x % P)
    BY <1>1, <1>2 DEF ExaPort
  <2> HIDE DEF x
  <2>2. x % P \in 0..(P - 1)
    BY <1>1, <2>1
  <2> QED
    BY <1>1, <1>2, <2>1, <2>2 DEF Ports
<1>3. CASE 0 <= port + i /\ port + i < P
  <2>1. (port + i) % P = port + i
    BY <1>1, <1>3
  <2> QED
    BY <1>1, <1>3, <2>1 DEF ExaPort, Ports
<1>4. CASE port + i >= P
  <2>1. (port + i - P) % P = port + i - P
    BY <1>1, <1>4
  <2>2. (port + i) % P = (port + i - P) % P
    BY <1>1, <1>4
  <2> QED
    BY <1>1, <1>4, <2>1, <2>2 DEF ExaPort, Ports
<1> QED
  BY <1>1, <1>2, <1>3, <1>4

LEMMA AheadIsDistance ==
  ASSUME TypeOK, NEW p \in Ports, port >= 0
  PROVE  Ahead(p) \in 0..(P - 1) /\ (ExaPort = p <=> i = Ahead(p))
<1>1. /\ port \in 0..P /\ i \in 0..(P - 1) /\ P \in Nat \ {0} /\ p \in 0..(P - 1)
  BY PacketAssumption DEF TypeOK, FieldTypes, CallTypes, Ports
<1>2. ExaPort = IF port + i < P THEN port + i ELSE port + i - P
  BY ExaPortIs
<1>3. CASE p < port
  <2>1. Ahead(p) = p + P - port
    BY <1>3 DEF Ahead
  <2> QED
    BY <1>1, <1>2, <1>3, <2>1
<1>4. CASE p >= port
  <2>1. Ahead(p) = p - port
    BY <1>1, <1>4 DEF Ahead
  <2> QED
    BY <1>1, <1>2, <1>4, <2>1
<1> QED
  BY <1>1, <1>3, <1>4

-----------------------------------------------------------------------------
(* What steps have in common.                                              *)

(* The records and what is held stay as they are.                          *)
LEMMA QuietStep ==
  ASSUME PacketInv, CallTypes', o_nonblock' \in {0, 1}, blocking' \in {0, 1},
         UNCHANGED <<source, fields, returned, passed>>, pc # "reading", pc' # "reading"
  PROVE  /\ TypeOK' /\ CountsInOrder' /\ HeldIsNext' /\ ReturnedBefore'
         /\ NothingLost' /\ PeriodKept'
<1> USE DEF source, fields
<1>1. TypeOK'
  BY DEF PacketInv, TypeOK, SourceTypes, FieldTypes
<1>2. CountsInOrder' /\ HeldIsNext' /\ PeriodKept'
  BY DEF PacketInv, CountsInOrder, HeldIsNext, PeriodKept
<1>3. ReturnedBefore' /\ NothingLost'
  BY DEF PacketInv, ReturnedBefore, NothingLost, HeldAt, Held
<1> QED
  BY <1>1, <1>2, <1>3

(* No record is looked at, so that nobody is passed over.                  *)
LEMMA NobodyPassed ==
  ASSUME PacketInv, UNCHANGED <<kind, class, arrived, next, port, passed>>, i' = 0
  PROVE  PassedComesNearer'
<1>1. \A p \in Ports : Waiting(p)' = Waiting(p) /\ Ahead(p)' = Ahead(p)
  BY DEF Waiting, Ahead
<1>2. \A p \in Ports : passed[p] > 0 => 0 <= Ahead(p)
  BY AheadIsDistance DEF PacketInv, PassedComesNearer
<1> QED
  BY <1>1, <1>2 DEF PacketInv, PassedComesNearer

(* Records up to k are consumed at a port; the counts stay in order.       *)
LEMMA ConsumeCounts ==
  ASSUME PacketInv, NEW p \in Ports, NEW k \in Nat, next[p] < k, k <= arrived[p],
         next' = [next EXCEPT ![p] = k], UNCHANGED <<kind, class, arrived, tail>>,
         kind # "netmap", aim' = IF kind = "fast" THEN k + Period ELSE aim,
         kind = "fast" => p = 0
  PROVE  SourceTypes' /\ CountsInOrder'
<1>1. next \in [Ports -> 0..MaxRecords] /\ arrived \in [Ports -> 0..MaxRecords]
  BY DEF PacketInv, TypeOK, SourceTypes
<1>2. k \in 0..MaxRecords /\ MaxRecords \in Nat /\ Period \in Nat
  BY <1>1, PacketAssumption
<1>3. SourceTypes'
  BY <1>2 DEF PacketInv, TypeOK, SourceTypes
<1>4. /\ next'[p] = k
      /\ \A q \in Ports : q # p => next'[q] = next[q]
  BY <1>1
<1>5. \A q \in Ports : next'[q] <= arrived'[q]
  BY <1>1, <1>4 DEF PacketInv, CountsInOrder
<1>6. kind' = "fast" => aim' = next'[0] + Period
  BY <1>4
<1> QED
  BY <1>3, <1>5, <1>6 DEF PacketInv, CountsInOrder

LEMMA AllReturned ==
  ASSUME PacketInv, size = 0, NEW q \in Ports, NEW n \in 1..next[q], class[q][n] = "data"
  PROVE  n \in returned[q]
<1>1. HeldAt(q) = {}
  BY DEF HeldAt
<1> QED
  BY <1>1 DEF PacketInv, NothingLost

(* They are held: nothing is lost, and what is held is new.                *)
LEMMA ConsumeHolds ==
  ASSUME PacketInv, NEW p \in Ports, NEW k \in Nat, next[p] < k, k <= arrived[p],
         next' = [next EXCEPT ![p] = k], UNCHANGED <<kind, class, returned>>,
         kind # "netmap", size = 0, size' = 1, pc # "reading", pc' # "reading",
         held' = [port |-> p, first |-> next[p] + 1, last |-> k]
  PROVE  HeldIsNext' /\ ReturnedBefore' /\ NothingLost'
<1>1. /\ next \in [Ports -> 0..MaxRecords] /\ arrived \in [Ports -> 0..MaxRecords]
      /\ \A q \in Ports : returned[q] \subseteq Records
  BY DEF PacketInv, TypeOK, SourceTypes
<1>2. /\ next'[p] = k
      /\ \A q \in Ports : q # p => next'[q] = next[q]
  BY <1>1
<1>3. held'.port = p /\ held'.first = next[p] + 1 /\ held'.last = k
  OBVIOUS
<1>4. HeldIsNext'
  BY <1>1, <1>2, <1>3 DEF HeldIsNext
<1>5. \A q \in Ports : \A n \in returned[q] : n \in Nat /\ n <= next[q]
  BY <1>1, PacketAssumption DEF PacketInv, ReturnedBefore, Records
<1>6. ReturnedBefore'
  BY <1>1, <1>2, <1>3, <1>5 DEF ReturnedBefore
<1>7. ASSUME NEW q \in Ports, NEW n \in 1..next'[q], class[q][n] = "data"
      PROVE  n \in returned[q] \union HeldAt(q)'
  <2>1. CASE n <= next[q]
    <3>1. n \in 1..next[q]
      BY <1>1, <1>2, <2>1
    <3> QED
      BY <3>1, <1>7, AllReturned
  <2>2. CASE n > next[q]
    BY <1>1, <1>2, <1>3, <2>2 DEF HeldAt, Held
  <2> QED
    BY <1>1, <1>2, <2>1, <2>2
<1> QED
  BY <1>4, <1>6, <1>7 DEF NothingLost

(* One without data is dropped.                                            *)
LEMMA DropLosesNothing ==
  ASSUME PacketInv, NEW p \in Ports, next[p] < arrived[p],
         class[p][next[p] + 1] # "data",
         next' = [next EXCEPT ![p] = @ + 1], UNCHANGED <<kind, class, returned>>,
         kind # "netmap", size = 0, size' = 0, pc # "reading", pc' # "reading"
  PROVE  HeldIsNext' /\ ReturnedBefore' /\ NothingLost' /\ PeriodKept'
<1>1. /\ next \in [Ports -> 0..MaxRecords]
      /\ \A q \in Ports : returned[q] \subseteq Records
  BY DEF PacketInv, TypeOK, SourceTypes
<1>2. /\ next'[p] = next[p] + 1
      /\ \A q \in Ports : q # p => next'[q] = next[q]
  BY <1>1
<1>3. HeldIsNext' /\ PeriodKept'
  BY DEF HeldIsNext, PeriodKept
<1>4. \A q \in Ports : \A n \in returned[q] : n \in Nat /\ n <= next[q]
  BY <1>1, PacketAssumption DEF PacketInv, ReturnedBefore, Records
<1>5. ReturnedBefore'
  BY <1>1, <1>2, <1>4 DEF ReturnedBefore
<1>6. ASSUME NEW q \in Ports, NEW n \in 1..next'[q], class[q][n] = "data"
      PROVE  n \in returned[q]
  <2>1. ~(q = p /\ n = next[p] + 1)
    BY <1>6
  <2>2. n \in 1..next[q]
    BY <1>1, <1>2, <2>1
  <2> QED
    BY <1>6, <2>2, AllReturned
<1> QED
  BY <1>3, <1>5, <1>6 DEF NothingLost

-----------------------------------------------------------------------------
(* Each step preserves the invariant.  First those that only look.         *)

(* The call begins: with what is held, or at the first port.               *)
LEMMA ReadyInv ==
  ASSUME PacketInv, Ready
  PROVE  PacketInv'
<1> USE DEF Ready, Looking, FoundNothing
<1>1. CallTypes' /\ o_nonblock' \in {0, 1} /\ blocking' \in {0, 1}
  BY PacketAssumption DEF PacketInv, TypeOK, CallTypes, FieldTypes, Ports, flags
<1>2. pc # "reading" /\ pc' # "reading"
  OBVIOUS
<1>3. /\ TypeOK' /\ CountsInOrder' /\ HeldIsNext' /\ ReturnedBefore'
      /\ NothingLost' /\ PeriodKept'
  BY <1>1, <1>2, QuietStep
<1>4. FieldsFollowCall' /\ FlagFollowsCall'
  BY DEF PacketInv, TypeOK, FieldTypes, CallTypes, FieldsFollowCall, FlagFollowsCall,
         fields, flags, source, Descriptors
<1>5. EndsAtEmptyOnly'
  BY DEF PacketInv, EndsAtEmptyOnly, FlagFollowsCall, FieldsFollowCall, TypeOK,
         CallTypes, source, Descriptors
<1>6. PassedComesNearer'
  BY NobodyPassed DEF source, fields
<1> QED
  BY <1>3, <1>4, <1>5, <1>6 DEF PacketInv

(* The same for start_read.                                                *)
LEMMA StartReadInv ==
  ASSUME PacketInv, StartRead
  PROVE  PacketInv'
<1> USE DEF StartRead, Looking, FoundNothing
<1>1. CallTypes' /\ o_nonblock' \in {0, 1} /\ blocking' \in {0, 1}
  BY PacketAssumption DEF PacketInv, TypeOK, CallTypes, FieldTypes, Ports, flags
<1>2. pc # "reading" /\ pc' # "reading"
  OBVIOUS
<1>3. /\ TypeOK' /\ CountsInOrder' /\ HeldIsNext' /\ ReturnedBefore'
      /\ NothingLost' /\ PeriodKept'
  BY <1>1, <1>2, QuietStep
<1>4. FieldsFollowCall' /\ FlagFollowsCall'
  BY DEF PacketInv, TypeOK, FieldTypes, CallTypes, FieldsFollowCall, FlagFollowsCall,
         fields, flags, source, Descriptors
<1>5. EndsAtEmptyOnly'
  BY DEF PacketInv, EndsAtEmptyOnly, FlagFollowsCall, FieldsFollowCall, TypeOK,
         CallTypes, source, Descriptors
<1>6. PassedComesNearer'
  BY NobodyPassed DEF source, fields
<1> QED
  BY <1>3, <1>4, <1>5, <1>6 DEF PacketInv

(* The flag becomes what the call wants.                                   *)
LEMMA SetBlockingInv ==
  ASSUME PacketInv, SetBlocking
  PROVE  PacketInv'
<1> USE DEF SetBlocking, Looking, FoundNothing
<1>1. CallTypes' /\ o_nonblock' \in {0, 1} /\ blocking' \in {0, 1}
  BY PacketAssumption DEF PacketInv, TypeOK, CallTypes, FieldTypes, Ports, flags
<1>2. pc # "reading" /\ pc' # "reading"
  OBVIOUS
<1>3. /\ TypeOK' /\ CountsInOrder' /\ HeldIsNext' /\ ReturnedBefore'
      /\ NothingLost' /\ PeriodKept'
  BY <1>1, <1>2, QuietStep
<1>4. FieldsFollowCall' /\ FlagFollowsCall'
  BY DEF PacketInv, TypeOK, FieldTypes, CallTypes, FieldsFollowCall, FlagFollowsCall,
         fields, flags, source, Descriptors
<1>5. EndsAtEmptyOnly'
  BY DEF PacketInv, EndsAtEmptyOnly, FlagFollowsCall, FieldsFollowCall, TypeOK,
         CallTypes, source, Descriptors
<1>6. PassedComesNearer'
  BY DEF PacketInv, PassedComesNearer, Waiting, Ahead, source, fields
<1> QED
  BY <1>3, <1>4, <1>5, <1>6 DEF PacketInv

(* Nothing there and not blocking: ready returns, or udp exits.            *)
LEMMA WouldBlockInv ==
  ASSUME PacketInv, WouldBlock
  PROVE  PacketInv'
<1> USE DEF WouldBlock, Looking, FoundNothing
<1>1. CallTypes' /\ o_nonblock' \in {0, 1} /\ blocking' \in {0, 1}
  BY PacketAssumption DEF PacketInv, TypeOK, CallTypes, FieldTypes, Ports, flags
<1>2. pc # "reading" /\ pc' # "reading"
  OBVIOUS
<1>3. /\ TypeOK' /\ CountsInOrder' /\ HeldIsNext' /\ ReturnedBefore'
      /\ NothingLost' /\ PeriodKept'
  BY <1>1, <1>2, QuietStep
<1>4. FieldsFollowCall' /\ FlagFollowsCall'
  BY DEF PacketInv, TypeOK, FieldTypes, CallTypes, FieldsFollowCall, FlagFollowsCall,
         fields, flags, source, Descriptors
<1>5. EndsAtEmptyOnly'
  BY DEF PacketInv, EndsAtEmptyOnly, FlagFollowsCall, FieldsFollowCall, TypeOK,
         CallTypes, source, Descriptors
<1>6. PassedComesNearer'
  <2>1. kind # "exa"
    BY DEF PacketInv, FieldsFollowCall, Descriptors
  <2> QED
    BY <2>1 DEF PacketInv, PassedComesNearer, source
<1> QED
  BY <1>3, <1>4, <1>5, <1>6 DEF PacketInv

(* Not yet: ready returns, start_read looks again.                         *)
LEMMA TimerWaitsInv ==
  ASSUME PacketInv, TimerWaits
  PROVE  PacketInv'
<1> USE DEF TimerWaits, Looking, FoundNothing
<1>1. CallTypes' /\ o_nonblock' \in {0, 1} /\ blocking' \in {0, 1}
  BY PacketAssumption DEF PacketInv, TypeOK, CallTypes, FieldTypes, Ports, flags
<1>2. pc # "reading" /\ pc' # "reading"
  OBVIOUS
<1>3. /\ TypeOK' /\ CountsInOrder' /\ HeldIsNext' /\ ReturnedBefore'
      /\ NothingLost' /\ PeriodKept'
  BY <1>1, <1>2, QuietStep
<1>4. FieldsFollowCall' /\ FlagFollowsCall'
  BY DEF PacketInv, TypeOK, FieldTypes, CallTypes, FieldsFollowCall, FlagFollowsCall,
         fields, flags, source, Descriptors
<1>5. EndsAtEmptyOnly'
  BY DEF PacketInv, EndsAtEmptyOnly, FlagFollowsCall, FieldsFollowCall, TypeOK,
         CallTypes, source, Descriptors
<1>6. PassedComesNearer'
  BY NobodyPassed DEF source, fields
<1> QED
  BY <1>3, <1>4, <1>5, <1>6 DEF PacketInv

(* The same of a dag.                                                      *)
LEMMA NoRecordInv ==
  ASSUME PacketInv, NoRecord
  PROVE  PacketInv'
<1> USE DEF NoRecord, Looking, FoundNothing
<1>1. CallTypes' /\ o_nonblock' \in {0, 1} /\ blocking' \in {0, 1}
  BY PacketAssumption DEF PacketInv, TypeOK, CallTypes, FieldTypes, Ports, flags
<1>2. pc # "reading" /\ pc' # "reading"
  OBVIOUS
<1>3. /\ TypeOK' /\ CountsInOrder' /\ HeldIsNext' /\ ReturnedBefore'
      /\ NothingLost' /\ PeriodKept'
  BY <1>1, <1>2, QuietStep
<1>4. FieldsFollowCall' /\ FlagFollowsCall'
  BY DEF PacketInv, TypeOK, FieldTypes, CallTypes, FieldsFollowCall, FlagFollowsCall,
         fields, flags, source, Descriptors
<1>5. EndsAtEmptyOnly'
  BY DEF PacketInv, EndsAtEmptyOnly, FlagFollowsCall, FieldsFollowCall, TypeOK,
         CallTypes, source, Descriptors
<1>6. PassedComesNearer'
  BY NobodyPassed DEF source, fields
<1> QED
  BY <1>3, <1>4, <1>5, <1>6 DEF PacketInv

(* On to the next ring.                                                    *)
LEMMA NoSlotInv ==
  ASSUME PacketInv, NoSlot
  PROVE  PacketInv'
<1> USE DEF NoSlot, Looking, FoundNothing
<1>1. CallTypes' /\ o_nonblock' \in {0, 1} /\ blocking' \in {0, 1}
  BY PacketAssumption DEF PacketInv, TypeOK, CallTypes, FieldTypes, Ports, flags
<1>2. pc # "reading" /\ pc' # "reading"
  OBVIOUS
<1>3. /\ TypeOK' /\ CountsInOrder' /\ HeldIsNext' /\ ReturnedBefore'
      /\ NothingLost' /\ PeriodKept'
  BY <1>1, <1>2, QuietStep
<1>4. FieldsFollowCall' /\ FlagFollowsCall'
  BY DEF PacketInv, TypeOK, FieldTypes, CallTypes, FieldsFollowCall, FlagFollowsCall,
         fields, flags, source, Descriptors
<1>5. EndsAtEmptyOnly'
  BY DEF PacketInv, EndsAtEmptyOnly, FlagFollowsCall, FieldsFollowCall, TypeOK,
         CallTypes, source, Descriptors
<1>6. PassedComesNearer'
  BY DEF PacketInv, PassedComesNearer, Waiting, Ahead, source, fields
<1> QED
  BY <1>3, <1>4, <1>5, <1>6 DEF PacketInv

(* The scan goes on past a port without a frame: none that was passed over *)
(* before is there, for those have one.                                    *)
LEMMA ScanGoesOn ==
  ASSUME PacketInv, NextPort, pc = "prepare", kind = "exa", ~Waiting(ExaPort),
         UNCHANGED <<kind, class, arrived, port, passed>>,
         \A p \in Ports : p # ExaPort => next'[p] = next[p]
  PROVE  PassedComesNearer'
<1> USE PacketAssumption
<1>1. i \in 0..(P - 1) /\ passed \in [Ports -> Nat]
  BY DEF PacketInv, TypeOK, CallTypes, Ports
<1>2. \A p \in Ports : Ahead(p)' = Ahead(p)
  BY DEF Ahead
<1>3. ASSUME NEW p \in Ports, passed[p] > 0
      PROVE  p # ExaPort /\ Waiting(p)' /\ i < Ahead(p)
  <2>1. port >= 0 /\ Waiting(p) /\ i <= Ahead(p)
    BY <1>3 DEF PacketInv, PassedComesNearer
  <2>2. p # ExaPort
    BY <2>1
  <2>3. i # Ahead(p)
    BY <2>1, <2>2, AheadIsDistance DEF PacketInv
  <2>4. Ahead(p) \in 0..(P - 1)
    BY <2>1, AheadIsDistance DEF PacketInv
  <2> QED
    BY <1>1, <2>1, <2>2, <2>3, <2>4 DEF Waiting
<1>4. i' = 0 \/ i' = i + 1
  BY DEF NextPort, FoundNothing
<1>5. ASSUME NEW p \in Ports, passed[p] > 0
      PROVE  /\ i' <= Ahead(p)' /\ Waiting(p)' /\ port >= 0
             /\ passed[p] + Ahead(p)' < P
  <2>1. port >= 0 /\ passed[p] + Ahead(p) < P
    BY <1>5 DEF PacketInv, PassedComesNearer
  <2>2. Ahead(p) \in 0..(P - 1) /\ Ahead(p)' = Ahead(p)
    BY <1>2, <2>1, AheadIsDistance DEF PacketInv
  <2>3. Waiting(p)' /\ i < Ahead(p)
    BY <1>3, <1>5
  <2> QED
    BY <1>1, <1>4, <2>1, <2>2, <2>3
<1> QED
  BY <1>5 DEF PassedComesNearer

(* No frame at this port.                                                  *)
LEMMA NoFrameInv ==
  ASSUME PacketInv, NoFrame
  PROVE  PacketInv'
<1> USE DEF NoFrame, Looking, FoundNothing, NextPort
<1>1. CallTypes' /\ o_nonblock' \in {0, 1} /\ blocking' \in {0, 1}
  BY PacketAssumption DEF PacketInv, TypeOK, CallTypes, FieldTypes, Ports, flags
<1>2. pc # "reading" /\ pc' # "reading"
  BY DEF Descriptors
<1>3. /\ TypeOK' /\ CountsInOrder' /\ HeldIsNext' /\ ReturnedBefore'
      /\ NothingLost' /\ PeriodKept'
  BY <1>1, <1>2, QuietStep
<1>4. FieldsFollowCall' /\ FlagFollowsCall'
  BY DEF PacketInv, TypeOK, FieldTypes, CallTypes, FieldsFollowCall, FlagFollowsCall,
         fields, flags, source, Descriptors
<1>5. EndsAtEmptyOnly'
  BY DEF PacketInv, EndsAtEmptyOnly, source, Descriptors
<1>6. ~Waiting(ExaPort)
  BY ExaPortIs DEF PacketInv, TypeOK, SourceTypes, Waiting
<1>7. PassedComesNearer'
  BY <1>6, ScanGoesOn DEF source, fields
<1> QED
  BY <1>3, <1>4, <1>5, <1>7 DEF PacketInv

(* An index in front of the array: nobody has been passed over yet.        *)
LEMMA BeforeTheArrayInv ==
  ASSUME PacketInv, BeforeTheArray
  PROVE  PacketInv'
<1> USE DEF BeforeTheArray, Looking, FoundNothing, NextPort
<1>1. CallTypes' /\ o_nonblock' \in {0, 1} /\ blocking' \in {0, 1}
  BY PacketAssumption DEF PacketInv, TypeOK, CallTypes, FieldTypes, Ports, flags
<1>2. pc # "reading" /\ pc' # "reading"
  BY DEF Descriptors
<1>3. /\ TypeOK' /\ CountsInOrder' /\ HeldIsNext' /\ ReturnedBefore'
      /\ NothingLost' /\ PeriodKept'
  BY <1>1, <1>2, QuietStep
<1>4. FieldsFollowCall' /\ FlagFollowsCall'
  BY DEF PacketInv, TypeOK, FieldTypes, CallTypes, FieldsFollowCall, FlagFollowsCall,
         fields, flags, source, Descriptors
<1>5. EndsAtEmptyOnly'
  BY DEF PacketInv, EndsAtEmptyOnly, source, Descriptors
<1>6. port \in Int /\ ~(port >= 0)
  <2>1. port \in Int /\ i \in Nat /\ P \in Nat \ {0}
    BY PacketAssumption DEF PacketInv, TypeOK, FieldTypes, CallTypes, Ports
  <2> SUFFICES ASSUME port >= 0 PROVE FALSE
    BY <2>1
  <2>2. port + i \in Nat
    BY <2>1
  <2>3. (port + i) % P \in 0..(P - 1)
    BY <2>1, <2>2
  <2> QED
    BY <2>2, <2>3 DEF ExaPort
<1>7. PassedComesNearer'
  BY <1>6 DEF PacketInv, PassedComesNearer, fields
<1> QED
  BY <1>3, <1>4, <1>5, <1>7 DEF PacketInv

(* A bad frame is dropped.                                                 *)
LEMMA BadFrameInv ==
  ASSUME PacketInv, BadFrame
  PROVE  PacketInv'
<1> USE DEF BadFrame, Looking, FoundNothing
<1>1. ExaPort \in Ports /\ ~Waiting(ExaPort)
  BY ExaPortIs DEF PacketInv, Waiting
<1>2. next \in [Ports -> 0..MaxRecords] /\ arrived \in [Ports -> 0..MaxRecords]
  BY DEF PacketInv, TypeOK, SourceTypes
<1>3. SourceTypes' /\ CountsInOrder'
  <2>1. next[ExaPort] + 1 \in Nat /\ next[ExaPort] < next[ExaPort] + 1
        /\ next[ExaPort] + 1 <= arrived[ExaPort]
    BY <1>1, <1>2
  <2> QED
    BY <1>1, <2>1, ConsumeCounts
<1>4. size = 0 /\ size' = 0 /\ pc # "reading" /\ pc' # "reading"
  BY DEF PacketInv, FieldsFollowCall, NextPort, Descriptors, fields
<1>5. HeldIsNext' /\ ReturnedBefore' /\ NothingLost' /\ PeriodKept'
  BY <1>1, <1>4, DropLosesNothing
<1>6. TypeOK'
  <2>1. CallTypes'
    BY PacketAssumption DEF PacketInv, TypeOK, CallTypes, NextPort, Ports
  <2>2. FieldTypes' /\ UNCHANGED <<returned, passed>>
    BY DEF PacketInv, TypeOK, FieldTypes, fields, flags
  <2> QED
    BY <1>3, <2>1, <2>2 DEF PacketInv, TypeOK
<1>7. FieldsFollowCall' /\ FlagFollowsCall' /\ EndsAtEmptyOnly'
  BY DEF PacketInv, FieldsFollowCall, FlagFollowsCall, EndsAtEmptyOnly, NextPort,
         fields, flags, Descriptors
<1>8. PassedComesNearer'
  BY <1>1, <1>2, ScanGoesOn DEF fields
<1> QED
  BY <1>3, <1>5, <1>6, <1>7, <1>8 DEF PacketInv

(* A frame is taken: every port that waits and is not this one was behind  *)
(* it, or comes nearer.                                                    *)
LEMMA TakenComesNearer ==
  ASSUME PacketInv, ReceiveFrame
  PROVE  PassedComesNearer'
<1> USE PacketAssumption DEF ReceiveFrame, Looking
<1>1. /\ i \in 0..(P - 1) /\ port \in Int /\ port <= P /\ P \in Nat \ {0}
      /\ passed \in [Ports -> Nat] /\ next \in [Ports -> 0..MaxRecords]
  <2>1. port \in (1 - 2 * P)..P /\ P \in Nat \ {0}
    BY DEF PacketInv, TypeOK, FieldTypes
  <2>2. port \in Int /\ port <= P
    BY <2>1
  <2> QED
    BY <2>2 DEF PacketInv, TypeOK, SourceTypes, CallTypes, Ports
<1>2. /\ ExaPort \in Ports
      /\ port >= 0 => ExaPort = IF port + i < P THEN port + i ELSE port + i - P
  BY ExaPortIs DEF PacketInv
<1>3. ASSUME NEW p \in Ports, passed'[p] > 0
      PROVE  p # ExaPort /\ Waiting(p) /\ passed'[p] = passed[p] + 1
  BY <1>1, <1>3
<1>4. ASSUME NEW p \in Ports, passed'[p] > 0
      PROVE  Waiting(p)'
  BY <1>1, <1>3, <1>4 DEF Waiting
<1>5. ASSUME NEW p \in Ports, passed'[p] > 0
      PROVE  passed'[p] + Ahead(p)' < P
  <2>1. CASE passed[p] = 0
    BY <1>1, <1>2, <1>3, <1>5, <2>1 DEF Ahead, Ports
  <2>2. CASE passed[p] > 0
    <3>1. port >= 0 /\ passed[p] + Ahead(p) < P /\ i <= Ahead(p)
      BY <2>2 DEF PacketInv, PassedComesNearer
    <3>2. i # Ahead(p) /\ Ahead(p) \in 0..(P - 1)
      BY <1>3, <1>5, <3>1, AheadIsDistance DEF PacketInv
    <3>3. Ahead(p)' = Ahead(p) - i - 1
      <4>1. p \in 0..(P - 1) /\ i < Ahead(p)
        BY <1>1, <3>1, <3>2 DEF Ports
      <4>2. Ahead(p)' = IF p < port' THEN p + P - port' ELSE p - port'
        BY DEF Ahead
      <4>3. port' = IF port + i < P THEN port + i + 1 ELSE port + i - P + 1
        BY <1>1, <1>2, <3>1
      <4>4. CASE p < port
        <5>1. Ahead(p) = p + P - port
          BY <4>4 DEF Ahead
        <5> QED
          BY <1>1, <3>1, <4>1, <4>2, <4>3, <4>4, <5>1
      <4>5. CASE p >= port
        <5>1. Ahead(p) = p - port
          BY <1>1, <4>1, <4>5 DEF Ahead
        <5> QED
          BY <1>1, <3>1, <4>1, <4>2, <4>3, <4>5, <5>1
      <4> QED
        BY <1>1, <4>1, <4>4, <4>5
    <3> QED
      BY <1>1, <1>3, <1>5, <3>1, <3>2, <3>3
  <2> QED
    BY <1>1, <2>1, <2>2
<1>6. pc' # "prepare" /\ port' >= 0 /\ kind' = "exa"
  BY <1>1, <1>2 DEF Found, Ports
<1> QED
  BY <1>4, <1>5, <1>6 DEF PassedComesNearer

-----------------------------------------------------------------------------
(* The steps that take a record.                                           *)

(* All expiries so far are taken as one.                                   *)
LEMMA ReadExpiriesInv ==
  ASSUME PacketInv, ReadExpiries
  PROVE  PacketInv'
<1> USE PacketAssumption DEF ReadExpiries, Looking, Found
<1>1. /\ next \in [Ports -> 0..MaxRecords] /\ arrived \in [Ports -> 0..MaxRecords]
      /\ 0 \in Ports
  <2>1. 0 \in Ports
    BY DEF Ports
  <2> QED
    BY <2>1 DEF PacketInv, TypeOK, SourceTypes
<1>2. PICK p \in Ports, k \in Nat : p = 0 /\ k = arrived[0]
  BY <1>1
<1>3. next[p] < k /\ k <= arrived[p]
  BY <1>1, <1>2
<1>4. size = 0 /\ size' = 1 /\ pc # "reading" /\ pc' # "reading" /\ kind # "netmap"
  BY DEF PacketInv, FieldsFollowCall
<1>5. /\ next' = [next EXCEPT ![p] = k]
      /\ held' = [port |-> p, first |-> next[p] + 1, last |-> k]
      /\ UNCHANGED <<kind, class, arrived, tail, returned>>
      /\ aim' = IF kind = "fast" THEN k + Period ELSE aim
      /\ kind = "fast" => p = 0
  BY <1>2
<1>6. SourceTypes' /\ CountsInOrder'
  BY <1>3, <1>4, <1>5, ConsumeCounts
<1>7. HeldIsNext' /\ ReturnedBefore' /\ NothingLost'
  BY <1>3, <1>4, <1>5, ConsumeHolds
<1>8. TypeOK'
  <2>1. next[p] + 1 \in 1..(MaxRecords + 1) /\ k \in 0..MaxRecords
    <3>1. next[p] \in 0..MaxRecords /\ arrived[p] \in 0..MaxRecords
      BY <1>1
    <3> QED
      BY <1>3, <3>1
  <2> port' \in (1 - 2 * P)..P
    BY <1>1 DEF PacketInv, TypeOK, FieldTypes, Ports
  <2>2. held' \in [port : Ports, first : 1..(MaxRecords + 1), last : 0..MaxRecords]
    BY <1>5, <2>1
  <2>3. FieldTypes' /\ CallTypes'
    BY <2>1, <2>2 DEF PacketInv, TypeOK, FieldTypes, CallTypes, flags
  <2> QED
    BY <1>6, <2>3 DEF PacketInv, TypeOK
<1>9. FieldsFollowCall' /\ FlagFollowsCall' /\ EndsAtEmptyOnly'
  BY DEF PacketInv, FieldsFollowCall, FlagFollowsCall, EndsAtEmptyOnly, flags, Descriptors
<1>10. PeriodKept'
  BY <1>1 DEF PacketInv, PeriodKept, CountsInOrder
<1>11. PassedComesNearer'
  BY DEF PacketInv, PassedComesNearer
<1> QED
  BY <1>6, <1>7, <1>8, <1>9, <1>10, <1>11 DEF PacketInv

(* The timer fires: a period has passed since it did last.                 *)
LEMMA TimerFiresInv ==
  ASSUME PacketInv, TimerFires
  PROVE  PacketInv'
<1> USE PacketAssumption DEF TimerFires, Looking, Found
<1>1. /\ next \in [Ports -> 0..MaxRecords] /\ arrived \in [Ports -> 0..MaxRecords]
      /\ 0 \in Ports
  <2>1. 0 \in Ports
    BY DEF Ports
  <2> QED
    BY <2>1 DEF PacketInv, TypeOK, SourceTypes
<1>2. PICK p \in Ports, k \in Nat : p = 0 /\ k = arrived[0]
  BY <1>1
<1>3. next[p] < k /\ k <= arrived[p]
  BY <1>1, <1>2 DEF PacketInv, CountsInOrder
<1>4. size = 0 /\ size' = 1 /\ pc # "reading" /\ pc' # "reading" /\ kind # "netmap"
  BY DEF PacketInv, FieldsFollowCall
<1>5. /\ next' = [next EXCEPT ![p] = k]
      /\ held' = [port |-> p, first |-> next[p] + 1, last |-> k]
      /\ UNCHANGED <<kind, class, arrived, tail, returned>>
      /\ aim' = IF kind = "fast" THEN k + Period ELSE aim
      /\ kind = "fast" => p = 0
  BY <1>2
<1>6. SourceTypes' /\ CountsInOrder'
  BY <1>3, <1>4, <1>5, ConsumeCounts
<1>7. HeldIsNext' /\ ReturnedBefore' /\ NothingLost'
  BY <1>3, <1>4, <1>5, ConsumeHolds
<1>8. TypeOK'
  <2>1. next[p] + 1 \in 1..(MaxRecords + 1) /\ k \in 0..MaxRecords
    <3>1. next[p] \in 0..MaxRecords /\ arrived[p] \in 0..MaxRecords
      BY <1>1
    <3> QED
      BY <1>3, <3>1
  <2> port' \in (1 - 2 * P)..P
    BY <1>1 DEF PacketInv, TypeOK, FieldTypes, Ports
  <2>2. held' \in [port : Ports, first : 1..(MaxRecords + 1), last : 0..MaxRecords]
    BY <1>5, <2>1
  <2>3. FieldTypes' /\ CallTypes'
    BY <2>1, <2>2 DEF PacketInv, TypeOK, FieldTypes, CallTypes, flags
  <2> QED
    BY <1>6, <2>3 DEF PacketInv, TypeOK
<1>9. FieldsFollowCall' /\ FlagFollowsCall' /\ EndsAtEmptyOnly'
  BY DEF PacketInv, FieldsFollowCall, FlagFollowsCall, EndsAtEmptyOnly, flags, Descriptors
<1>10. PeriodKept'
  BY <1>1 DEF PacketInv, PeriodKept, CountsInOrder
<1>11. PassedComesNearer'
  BY DEF PacketInv, PassedComesNearer
<1> QED
  BY <1>6, <1>7, <1>8, <1>9, <1>10, <1>11 DEF PacketInv

(* The next record of a dag.                                               *)
LEMMA TakeRecordInv ==
  ASSUME PacketInv, TakeRecord
  PROVE  PacketInv'
<1> USE PacketAssumption DEF TakeRecord, Looking, Found
<1>1. /\ next \in [Ports -> 0..MaxRecords] /\ arrived \in [Ports -> 0..MaxRecords]
      /\ 0 \in Ports
  <2>1. 0 \in Ports
    BY DEF Ports
  <2> QED
    BY <2>1 DEF PacketInv, TypeOK, SourceTypes
<1>2. PICK p \in Ports, k \in Nat : p = 0 /\ k = next[0] + 1
  BY <1>1
<1>3. next[p] < k /\ k <= arrived[p]
  BY <1>1, <1>2
<1>4. size = 0 /\ size' = 1 /\ pc # "reading" /\ pc' # "reading" /\ kind # "netmap"
  BY DEF PacketInv, FieldsFollowCall
<1>5. /\ next' = [next EXCEPT ![p] = k]
      /\ held' = [port |-> p, first |-> next[p] + 1, last |-> k]
      /\ UNCHANGED <<kind, class, arrived, tail, returned>>
      /\ aim' = IF kind = "fast" THEN k + Period ELSE aim
      /\ kind = "fast" => p = 0
  BY <1>2
<1>6. SourceTypes' /\ CountsInOrder'
  BY <1>3, <1>4, <1>5, ConsumeCounts
<1>7. HeldIsNext' /\ ReturnedBefore' /\ NothingLost'
  BY <1>3, <1>4, <1>5, ConsumeHolds
<1>8. TypeOK'
  <2>1. next[p] + 1 \in 1..(MaxRecords + 1) /\ k \in 0..MaxRecords
    <3>1. next[p] \in 0..MaxRecords /\ arrived[p] \in 0..MaxRecords
      BY <1>1
    <3> QED
      BY <1>3, <3>1
  <2> port' \in (1 - 2 * P)..P
    BY <1>1 DEF PacketInv, TypeOK, FieldTypes, Ports
  <2>2. held' \in [port : Ports, first : 1..(MaxRecords + 1), last : 0..MaxRecords]
    BY <1>5, <2>1
  <2>3. FieldTypes' /\ CallTypes'
    BY <2>1, <2>2 DEF PacketInv, TypeOK, FieldTypes, CallTypes, flags
  <2> QED
    BY <1>6, <2>3 DEF PacketInv, TypeOK
<1>9. FieldsFollowCall' /\ FlagFollowsCall' /\ EndsAtEmptyOnly'
  BY DEF PacketInv, FieldsFollowCall, FlagFollowsCall, EndsAtEmptyOnly, flags, Descriptors
<1>10. PeriodKept'
  BY <1>1 DEF PacketInv, PeriodKept, CountsInOrder
<1>11. PassedComesNearer'
  BY DEF PacketInv, PassedComesNearer
<1> QED
  BY <1>6, <1>7, <1>8, <1>9, <1>10, <1>11 DEF PacketInv

(* A frame of a port of an exanic.                                         *)
LEMMA ReceiveFrameInv ==
  ASSUME PacketInv, ReceiveFrame
  PROVE  PacketInv'
<1> USE PacketAssumption DEF ReceiveFrame, Looking, Found
<1>1. /\ next \in [Ports -> 0..MaxRecords] /\ arrived \in [Ports -> 0..MaxRecords]
      /\ ExaPort \in Ports
  BY ExaPortIs DEF PacketInv, TypeOK, SourceTypes, Ports
<1>2. PICK p \in Ports, k \in Nat : p = ExaPort /\ k = next[ExaPort] + 1
  BY <1>1
<1>3. next[p] < k /\ k <= arrived[p]
  BY <1>1, <1>2 DEF Waiting
<1>4. size = 0 /\ size' = 1 /\ pc # "reading" /\ pc' # "reading" /\ kind # "netmap"
  BY DEF PacketInv, FieldsFollowCall
<1>5. /\ next' = [next EXCEPT ![p] = k]
      /\ held' = [port |-> p, first |-> next[p] + 1, last |-> k]
      /\ UNCHANGED <<kind, class, arrived, tail, returned>>
      /\ aim' = IF kind = "fast" THEN k + Period ELSE aim
      /\ kind = "fast" => p = 0
  BY <1>2
<1>6. SourceTypes' /\ CountsInOrder'
  BY <1>3, <1>4, <1>5, ConsumeCounts
<1>7. HeldIsNext' /\ ReturnedBefore' /\ NothingLost'
  BY <1>3, <1>4, <1>5, ConsumeHolds
<1>8. TypeOK'
  <2>1. next[p] + 1 \in 1..(MaxRecords + 1) /\ k \in 0..MaxRecords
    <3>1. next[p] \in 0..MaxRecords /\ arrived[p] \in 0..MaxRecords
      BY <1>1
    <3> QED
      BY <1>3, <3>1
  <2> port' \in (1 - 2 * P)..P
    BY <1>1 DEF PacketInv, TypeOK, FieldTypes, Ports
  <2>2. held' \in [port : Ports, first : 1..(MaxRecords + 1), last : 0..MaxRecords]
    BY <1>5, <2>1
  <2>3. FieldTypes' /\ CallTypes'
    BY <2>1, <2>2 DEF PacketInv, TypeOK, FieldTypes, CallTypes, flags
  <2> QED
    BY <1>6, <2>3 DEF PacketInv, TypeOK
<1>9. FieldsFollowCall' /\ FlagFollowsCall' /\ EndsAtEmptyOnly'
  BY DEF PacketInv, FieldsFollowCall, FlagFollowsCall, EndsAtEmptyOnly, flags, Descriptors
<1>10. PeriodKept'
  BY <1>1 DEF PacketInv, PeriodKept, CountsInOrder
<1>11. PassedComesNearer'
  BY TakenComesNearer
<1> QED
  BY <1>6, <1>7, <1>8, <1>9, <1>10, <1>11 DEF PacketInv

(* A datagram: held if it has data, dropped if it is empty.                *)
LEMMA RecvInv ==
  ASSUME PacketInv, Recv
  PROVE  PacketInv'
<1> USE PacketAssumption DEF Recv, Found, FoundNothing
<1>1. /\ next \in [Ports -> 0..MaxRecords] /\ arrived \in [Ports -> 0..MaxRecords]
      /\ 0 \in Ports
  <2>1. 0 \in Ports
    BY DEF Ports
  <2> QED
    BY <2>1 DEF PacketInv, TypeOK, SourceTypes
<1>2. PICK p \in Ports, k \in Nat : p = 0 /\ k = next[0] + 1
  BY <1>1
<1>3. next[p] < k /\ k <= arrived[p] /\ next[p] < arrived[p] /\ k \in Records
  BY <1>1, <1>2 DEF Records
<1>4. /\ size = 0 /\ pc # "reading" /\ pc' # "reading"
      /\ kind \in Descriptors /\ kind # "netmap" /\ kind # "fast" /\ kind # "exa"
  BY DEF PacketInv, FieldsFollowCall, Descriptors
<1>5. /\ next' = [next EXCEPT ![p] = k] /\ next' = [next EXCEPT ![p] = @ + 1]
      /\ held' = [port |-> p, first |-> next[p] + 1, last |-> k]
      /\ UNCHANGED <<kind, class, arrived, tail, returned>>
      /\ aim' = IF kind = "fast" THEN k + Period ELSE aim
      /\ kind = "fast" => p = 0
  BY <1>2, <1>4
<1>6. SourceTypes' /\ CountsInOrder'
  BY <1>3, <1>4, <1>5, ConsumeCounts
<1>7. HeldIsNext' /\ ReturnedBefore' /\ NothingLost'
  <2>1. CASE class[0][next[0] + 1] = "data"
    BY <1>3, <1>4, <1>5, <2>1, ConsumeHolds
  <2>2. CASE class[0][next[0] + 1] # "data"
    <3>1. class[p][next[p] + 1] # "data" /\ size' = 0
      BY <1>2, <2>2
    <3> QED
      BY <1>3, <1>4, <1>5, <3>1, DropLosesNothing
  <2> QED
    BY <2>1, <2>2
<1>8. TypeOK'
  <2>1. next[p] + 1 \in 1..(MaxRecords + 1) /\ k \in 0..MaxRecords
    BY <1>3, <1>2, <1>1 DEF Records
  <2>2. held' \in [port : Ports, first : 1..(MaxRecords + 1), last : 0..MaxRecords]
    BY <1>5, <2>1
  <2>3. FieldTypes' /\ CallTypes'
    BY <2>2 DEF PacketInv, TypeOK, FieldTypes, CallTypes, flags, Ports
  <2> QED
    BY <1>6, <2>3 DEF PacketInv, TypeOK
<1>9. FieldsFollowCall' /\ FlagFollowsCall'
  BY <1>4 DEF PacketInv, FieldsFollowCall, FlagFollowsCall, flags, Descriptors
<1>10. EndsAtEmptyOnly'
  <2>1. CASE pc' = "ended"
    <3>1. class[p][k] # "data" /\ class[p][k] \in ClassesOf(kind)
      BY <1>2, <1>3, <2>1 DEF PacketInv, CountsInOrder
    <3>2. class'[0][next'[0]] = "empty" /\ next'[0] > 0
      BY <1>1, <1>2, <1>3, <1>5, <3>1 DEF ClassesOf
    <3>3. kind' = "udp"
      BY <1>5, <3>1 DEF ClassesOf
    <3> QED
      BY <2>1, <3>2, <3>3 DEF EndsAtEmptyOnly
  <2>2. CASE pc' # "ended"
    BY <2>2 DEF EndsAtEmptyOnly
  <2> QED
    BY <2>1, <2>2
<1>11. PeriodKept' /\ PassedComesNearer'
  BY <1>4 DEF PacketInv, PeriodKept, PassedComesNearer
<1> QED
  BY <1>6, <1>7, <1>8, <1>9, <1>10, <1>11 DEF PacketInv

(* A record of a dag that is no ERF is dropped.                            *)
LEMMA NotErfInv ==
  ASSUME PacketInv, NotErf
  PROVE  PacketInv'
<1> USE PacketAssumption DEF NotErf, Looking, FoundNothing
<1>1. /\ next \in [Ports -> 0..MaxRecords] /\ arrived \in [Ports -> 0..MaxRecords]
      /\ 0 \in Ports
  <2>1. 0 \in Ports
    BY DEF Ports
  <2> QED
    BY <2>1 DEF PacketInv, TypeOK, SourceTypes
<1>2. PICK p \in Ports, k \in Nat : p = 0 /\ k = next[0] + 1
  BY <1>1
<1>3. /\ next[p] < k /\ k <= arrived[p] /\ next[p] < arrived[p]
      /\ class[p][next[p] + 1] # "data"
  BY <1>1, <1>2
<1>4. /\ size = 0 /\ size' = 0 /\ pc # "reading" /\ pc' # "reading" /\ kind # "netmap"
      /\ kind # "fast" /\ kind # "exa"
  BY DEF PacketInv, FieldsFollowCall, Descriptors, fields
<1>5. /\ next' = [next EXCEPT ![p] = k] /\ next' = [next EXCEPT ![p] = @ + 1]
      /\ UNCHANGED <<kind, class, arrived, tail, returned>>
      /\ aim' = IF kind = "fast" THEN k + Period ELSE aim
      /\ kind = "fast" => p = 0
  BY <1>2, <1>4
<1>6. SourceTypes' /\ CountsInOrder'
  BY <1>3, <1>4, <1>5, ConsumeCounts
<1>7. HeldIsNext' /\ ReturnedBefore' /\ NothingLost' /\ PeriodKept'
  BY <1>3, <1>4, <1>5, DropLosesNothing
<1>8. TypeOK'
  BY <1>6 DEF PacketInv, TypeOK, FieldTypes, CallTypes, fields, flags, Ports
<1>9. FieldsFollowCall' /\ FlagFollowsCall' /\ EndsAtEmptyOnly'
  BY DEF PacketInv, FieldsFollowCall, FlagFollowsCall, EndsAtEmptyOnly, fields,
         flags, Descriptors
<1>10. PassedComesNearer'
  BY <1>4 DEF PacketInv, PassedComesNearer
<1> QED
  BY <1>6, <1>7, <1>8, <1>9, <1>10 DEF PacketInv

(* A slot of a netmap ring: held, and consumed later.                      *)
LEMMA TakeSlotInv ==
  ASSUME PacketInv, TakeSlot
  PROVE  PacketInv'
<1> USE PacketAssumption DEF TakeSlot, Looking, Found, source
<1>1. /\ next \in [Ports -> 0..MaxRecords] /\ tail \in [Ports -> 0..MaxRecords]
      /\ i \in Ports
  BY DEF PacketInv, TypeOK, SourceTypes, CallTypes
<1>2. size = 0 /\ pc # "reading" /\ pc' # "reading"
  BY DEF PacketInv, FieldsFollowCall
<1>3. /\ held'.port = i /\ held'.first = next[i] + 1 /\ held'.last = next[i] + 1
      /\ next[i] + 1 \in 1..(MaxRecords + 1) /\ next[i] + 1 \in 0..MaxRecords
      /\ next[i] \in Nat
  BY <1>1
<1>4. TypeOK'
  BY <1>1, <1>3 DEF PacketInv, TypeOK, SourceTypes, FieldTypes, CallTypes, flags
<1>5. HeldIsNext'
  BY <1>1, <1>3 DEF HeldIsNext
<1>6. ReturnedBefore'
  <2>1. \A p \in Ports : \A n \in returned[p] : n <= next[p] /\ n \in Nat
    BY <1>2 DEF PacketInv, ReturnedBefore, TypeOK, Records
  <2> QED
    BY <1>1, <1>2, <1>3, <2>1 DEF ReturnedBefore
<1>7. NothingLost'
  BY <1>2, AllReturned DEF NothingLost
<1>8. FieldsFollowCall' /\ FlagFollowsCall' /\ EndsAtEmptyOnly'
  BY DEF PacketInv, FieldsFollowCall, FlagFollowsCall, EndsAtEmptyOnly, flags, Descriptors
<1>9. CountsInOrder' /\ PeriodKept' /\ PassedComesNearer'
  BY DEF PacketInv, CountsInOrder, PeriodKept, PassedComesNearer
<1> QED
  BY <1>4, <1>5, <1>6, <1>7, <1>8, <1>9 DEF PacketInv

-----------------------------------------------------------------------------
(* The rest.                                                               *)

(* More becomes visible.                                                   *)
LEMMA RxSyncInv ==
  ASSUME PacketInv, RxSync
  PROVE  PacketInv'
<1> USE PacketAssumption DEF RxSync, Looking, FoundNothing, fields
<1>1. size = 0 /\ size' = 0 /\ pc # "reading" /\ pc' # "reading"
  BY DEF PacketInv, FieldsFollowCall, Descriptors
<1>2. TypeOK'
  <2>1. SourceTypes'
    BY DEF PacketInv, TypeOK, SourceTypes
  <2>2. FieldTypes' /\ CallTypes'
    BY DEF PacketInv, TypeOK, FieldTypes, CallTypes, flags, Ports
  <2> QED
    BY <2>1, <2>2 DEF PacketInv, TypeOK
<1>3. CountsInOrder'
  BY DEF PacketInv, TypeOK, SourceTypes, CountsInOrder
<1>4. HeldIsNext' /\ ReturnedBefore' /\ PeriodKept'
  BY <1>1 DEF PacketInv, HeldIsNext, ReturnedBefore, PeriodKept
<1>5. NothingLost'
  BY <1>1, AllReturned DEF NothingLost
<1>6. FieldsFollowCall' /\ FlagFollowsCall' /\ EndsAtEmptyOnly'
  BY DEF PacketInv, FieldsFollowCall, FlagFollowsCall, EndsAtEmptyOnly, flags, Descriptors
<1>7. PassedComesNearer'
  BY DEF PacketInv, PassedComesNearer
<1> QED
  BY <1>2, <1>3, <1>4, <1>5, <1>6, <1>7 DEF PacketInv

(* start_read returns what is held.                                        *)
LEMMA HandOutInv ==
  ASSUME PacketInv, HandOut
  PROVE  PacketInv'
<1> USE PacketAssumption DEF HandOut, source
<1>1. /\ size = 1 /\ held.port \in Ports /\ returned \in [Ports -> SUBSET Records]
      /\ next \in [Ports -> 0..MaxRecords] /\ tail \in [Ports -> 0..MaxRecords]
      /\ held.first \in 1..(MaxRecords + 1) /\ held.last \in 0..MaxRecords
  BY DEF PacketInv, TypeOK, SourceTypes, FieldTypes, FieldsFollowCall
<1>2. Held \subseteq Records /\ Held' = Held
  BY <1>1 DEF Held, Records
<1>3. /\ returned'[held.port] = returned[held.port] \union Held
      /\ \A p \in Ports : p # held.port => returned'[p] = returned[p]
  BY <1>1
<1>4. TypeOK'
  BY <1>1, <1>2, <1>3 DEF PacketInv, TypeOK, SourceTypes, FieldTypes, CallTypes, flags
<1>5. HeldIsNext' /\ CountsInOrder' /\ PeriodKept'
  BY DEF PacketInv, HeldIsNext, CountsInOrder, PeriodKept
<1>6. ReturnedBefore'
  <2>1. \A p \in Ports : \A n \in returned[p] : n <= next[p]
    BY DEF PacketInv, ReturnedBefore
  <2>2. \A n \in Held : \/ n <= next[held.port]
                        \/ kind = "netmap" /\ n = next[held.port] + 1
    BY <1>1 DEF PacketInv, HeldIsNext, Held
  <2> QED
    BY <1>1, <1>2, <1>3, <2>1, <2>2 DEF ReturnedBefore
<1>7. NothingLost'
  <2>1. \A p \in Ports : HeldAt(p) \subseteq returned'[p]
    BY <1>3 DEF HeldAt
  <2>2. \A p \in Ports : returned[p] \subseteq returned'[p]
    BY <1>3
  <2> QED
    BY <2>1, <2>2 DEF PacketInv, NothingLost
<1>8. FieldsFollowCall' /\ FlagFollowsCall' /\ EndsAtEmptyOnly'
  BY <1>1 DEF PacketInv, FieldsFollowCall, FlagFollowsCall, EndsAtEmptyOnly, flags,
              Descriptors
<1>9. PassedComesNearer'
  BY DEF PacketInv, PassedComesNearer, Waiting, Ahead
<1> QED
  BY <1>4, <1>5, <1>6, <1>7, <1>8, <1>9 DEF PacketInv

(* end_read forgets the record, which has been returned.                   *)
LEMMA EndReadInv ==
  ASSUME PacketInv, EndRead
  PROVE  PacketInv'
<1> USE PacketAssumption DEF EndRead
<1>1. /\ held.port \in Ports /\ size \in {0, 1}
      /\ next \in [Ports -> 0..MaxRecords] /\ tail \in [Ports -> 0..MaxRecords]
      /\ \A p \in Ports : returned[p] \subseteq Records
  BY DEF PacketInv, TypeOK, SourceTypes, FieldTypes
<1>2. size' = 0
  BY <1>1 DEF PacketInv, FieldsFollowCall, TypeOK, FieldTypes, Descriptors
<1>3. kind = "netmap" =>
        /\ size = 1 /\ next[held.port] + 1 <= tail[held.port]
        /\ Held = {next[held.port] + 1}
        /\ next'[held.port] = next[held.port] + 1
        /\ \A p \in Ports : p # held.port => next'[p] = next[p]
  BY <1>1 DEF PacketInv, FieldsFollowCall, HeldIsNext, Held, Descriptors
<1>4. next' \in [Ports -> 0..MaxRecords]
  BY <1>1, <1>3
<1>5. TypeOK'
  BY <1>2, <1>4 DEF PacketInv, TypeOK, SourceTypes, FieldTypes, CallTypes, flags
<1>6. CountsInOrder'
  <2>1. CASE kind = "netmap"
    BY <1>1, <1>3, <2>1 DEF PacketInv, CountsInOrder, TypeOK, SourceTypes
  <2>2. CASE kind # "netmap"
    BY <2>2 DEF PacketInv, CountsInOrder
  <2> QED
    BY <2>1, <2>2
<1>7. HeldIsNext' /\ PeriodKept'
  BY <1>2 DEF HeldIsNext, PeriodKept
<1>8. ReturnedBefore'
  <2>1. CASE kind = "netmap"
    <3>1. ASSUME NEW p \in Ports, NEW n \in returned[p]
          PROVE  n <= next'[p]
      BY <1>1, <1>3, <2>1 DEF PacketInv, ReturnedBefore, Records
    <3> QED
      BY <1>2, <3>1 DEF ReturnedBefore
  <2>2. CASE kind # "netmap"
    BY <1>2, <2>2 DEF PacketInv, ReturnedBefore
  <2> QED
    BY <2>1, <2>2
<1>9. NothingLost'
  <2>1. Held \subseteq returned[held.port]
    BY DEF PacketInv, ReturnedBefore
  <2>2. \A p \in Ports : \A n \in 1..next[p] : class[p][n] = "data" => n \in returned[p]
    BY <2>1 DEF PacketInv, NothingLost, HeldAt
  <2>3. ASSUME NEW p \in Ports, NEW n \in 1..next'[p], class[p][n] = "data"
        PROVE  n \in returned[p]
    <3>1. CASE n \in 1..next[p]
      BY <2>2, <2>3, <3>1
    <3>2. CASE n \notin 1..next[p]
      BY <1>1, <1>3, <2>1, <3>2
    <3> QED
      BY <3>1, <3>2
  <2> QED
    BY <2>3 DEF NothingLost
<1>10. FieldsFollowCall' /\ FlagFollowsCall' /\ EndsAtEmptyOnly'
  BY <1>2 DEF PacketInv, FieldsFollowCall, FlagFollowsCall, EndsAtEmptyOnly, flags
<1>11. PassedComesNearer'
  BY DEF PacketInv, PassedComesNearer, Waiting, Ahead
<1> QED
  BY <1>5, <1>6, <1>7, <1>8, <1>9, <1>10, <1>11 DEF PacketInv

(* An arrival: what arrived before stays what it is.                       *)
LEMMA ArriveInv ==
  ASSUME PacketInv, NEW p \in Ports, NEW c \in Classes, Arrive(p, c)
  PROVE  PacketInv'
<1> USE PacketAssumption DEF Arrive
<1>1. /\ class \in [Ports -> [Records -> Classes]] /\ c \in ClassesOf(kind)
      /\ arrived \in [Ports -> 0..MaxRecords] /\ next \in [Ports -> 0..MaxRecords]
      /\ tail \in [Ports -> 0..MaxRecords]
      /\ arrived[p] + 1 \in Records
  BY DEF PacketInv, TypeOK, SourceTypes, Records
<1>2. /\ class' \in [Ports -> [Records -> Classes]]
      /\ arrived' \in [Ports -> 0..MaxRecords]
  BY <1>1 DEF Records
<1>3. \A q \in Ports : \A n \in Records :
        class'[q][n] = IF q = p /\ n = arrived[p] + 1 THEN c ELSE class[q][n]
  BY <1>1
<1>4. \A q \in Ports : arrived'[q] = IF q = p THEN arrived[p] + 1 ELSE arrived[q]
  BY <1>1
<1>5. \A q \in Ports : \A n \in 1..arrived[q] :
        n \in Records /\ class'[q][n] = class[q][n] /\ n <= arrived'[q]
  BY <1>1, <1>3, <1>4 DEF Records
<1>6. \A q \in Ports : next[q] <= arrived[q] /\ next[q] \in Nat /\ arrived[q] \in Nat
  BY <1>1 DEF PacketInv, CountsInOrder
<1>7. TypeOK'
  BY <1>2 DEF PacketInv, TypeOK, SourceTypes, FieldTypes, CallTypes, fields, flags, call
<1>8. CountsInOrder'
  <2>1. \A q \in Ports : \A n \in Records : class'[q][n] \in ClassesOf(kind)
    BY <1>1, <1>3 DEF PacketInv, CountsInOrder
  <2>2. \A q \in Ports : arrived[q] <= arrived'[q]
    BY <1>4, <1>6
  <2>3. \A q \in Ports : next[q] <= arrived'[q]
    BY <1>4, <1>6
  <2>4. kind = "netmap" => \A q \in Ports : tail[q] <= arrived'[q]
    BY <1>1, <1>4, <1>6 DEF PacketInv, CountsInOrder
  <2> QED
    BY <2>1, <2>3, <2>4 DEF PacketInv, CountsInOrder
<1>9. HeldIsNext' /\ PeriodKept' /\ FieldsFollowCall' /\ FlagFollowsCall'
  BY DEF PacketInv, HeldIsNext, PeriodKept, FieldsFollowCall, FlagFollowsCall, fields,
         flags, call
<1>10. ReturnedBefore'
  BY DEF PacketInv, ReturnedBefore, Held, fields, call
<1>11. NothingLost'
  <2>1. \A q \in Ports : HeldAt(q)' = HeldAt(q)
    BY DEF HeldAt, Held, fields
  <2>2. \A q \in Ports : \A n \in 1..next[q] : class'[q][n] = class[q][n]
    BY <1>5, <1>6
  <2> QED
    BY <2>1, <2>2 DEF PacketInv, NothingLost
<1>12. EndsAtEmptyOnly'
  <2>1. 0 \in Ports
    BY DEF Ports
  <2>2. next[0] > 0 => class'[0][next[0]] = class[0][next[0]]
    BY <1>5, <1>6, <2>1
  <2> QED
    BY <2>2 DEF PacketInv, EndsAtEmptyOnly, call
<1>13. PassedComesNearer'
  <2>1. \A q \in Ports : Waiting(q) => Waiting(q)'
    <3>1. ASSUME NEW q \in Ports, Waiting(q)
          PROVE  Waiting(q)'
      <4>1. next[q] + 1 \in 1..arrived[q] /\ next[q] < arrived'[q]
        BY <1>4, <1>6, <3>1 DEF Waiting
      <4>2. class'[q][next[q] + 1] = class[q][next[q] + 1]
        BY <1>5, <4>1
      <4> QED
        BY <3>1, <4>1, <4>2 DEF Waiting
    <3> QED
      BY <3>1
  <2>2. \A q \in Ports : Ahead(q)' = Ahead(q)
    BY DEF Ahead, fields
  <2> QED
    BY <2>1, <2>2 DEF PacketInv, PassedComesNearer, call, fields
<1> QED
  BY <1>7, <1>8, <1>9, <1>10, <1>11, <1>12, <1>13 DEF PacketInv

-----------------------------------------------------------------------------
(* Nothing has arrived and nothing is held.                                *)
LEMMA PacketInit == Init => PacketInv
<1> SUFFICES ASSUME Init PROVE PacketInv
  OBVIOUS
<1> USE PacketAssumption DEF Init, PortAtFirst
<1>1. 0 \in Ports /\ Ports \subseteq 0..P
  BY DEF Ports
<1>2. SourceTypes
  BY DEF SourceTypes, Classes
<1>3. held \in [port : Ports, first : 1..(MaxRecords + 1), last : 0..MaxRecords]
  BY <1>1
<1>4. TypeOK
  BY <1>1, <1>2, <1>3 DEF TypeOK, FieldTypes, CallTypes
<1>5. FieldsFollowCall /\ FlagFollowsCall /\ HeldIsNext /\ PeriodKept /\ EndsAtEmptyOnly
  BY DEF FieldsFollowCall, FlagFollowsCall, HeldIsNext, PeriodKept, EndsAtEmptyOnly
<1>6. CountsInOrder
  BY <1>1 DEF CountsInOrder, ClassesOf
<1>7. ReturnedBefore /\ NothingLost /\ PassedComesNearer
  BY DEF ReturnedBefore, NothingLost, PassedComesNearer
<1> QED
  BY <1>4, <1>5, <1>6, <1>7 DEF PacketInv

LEMMA PacketStep == PacketInv /\ [Next]_vars => PacketInv'
<1> SUFFICES ASSUME PacketInv, [Next]_vars PROVE PacketInv'
  OBVIOUS
<1>1. CASE Prepare
  BY <1>1, SetBlockingInv, RecvInv, ReadExpiriesInv, WouldBlockInv, TimerFiresInv,
     TimerWaitsInv, TakeRecordInv, NotErfInv, NoRecordInv, ReceiveFrameInv,
     BadFrameInv, NoFrameInv, BeforeTheArrayInv, TakeSlotInv, NoSlotInv, RxSyncInv DEF Prepare
<1>2. CASE Ready \/ StartRead \/ HandOut \/ EndRead
  BY <1>2, ReadyInv, StartReadInv, HandOutInv, EndReadInv
<1>3. CASE \E p \in Ports, c \in Classes : Arrive(p, c)
  BY <1>3, ArriveInv
<1>4. CASE UNCHANGED vars
  <2> USE <1>4 DEF vars, source, fields, flags, call
  <2>1. TypeOK' /\ FieldsFollowCall' /\ FlagFollowsCall' /\ CountsInOrder'
    BY DEF PacketInv, TypeOK, SourceTypes, FieldTypes, CallTypes, FieldsFollowCall,
           FlagFollowsCall, CountsInOrder
  <2>2. HeldIsNext' /\ ReturnedBefore' /\ NothingLost'
    BY DEF PacketInv, HeldIsNext, ReturnedBefore, NothingLost, HeldAt, Held
  <2>3. EndsAtEmptyOnly' /\ PeriodKept' /\ PassedComesNearer'
    BY DEF PacketInv, EndsAtEmptyOnly, PeriodKept, PassedComesNearer, Waiting, Ahead
  <2> QED
    BY <2>1, <2>2, <2>3 DEF PacketInv
<1> QED
  BY <1>1, <1>2, <1>3, <1>4 DEF Next

(* The invariant of the packet istreams holds of every kind.               *)
THEOREM PacketInvariant == Spec => []PacketInv
<1>1. Init => PacketInv
  BY PacketInit
<1>2. PacketInv /\ [Next]_vars => PacketInv'
  BY PacketStep
<1> QED
  BY <1>1, <1>2, PTL DEF Spec

(* Every record with data that was consumed is returned or about to be:    *)
(* prepare_next, start_read and end_read of all kinds agree on which       *)
(* record is held.                                                         *)
THEOREM NoRecordLost == Spec => []NothingLost
<1>1. PacketInv => NothingLost
  BY DEF PacketInv
<1> QED
  BY <1>1, PacketInvariant, PTL

(* What ready has announced is still there when start_read comes for it.   *)
THEOREM ReadyKeepsItsWord == Spec => []ReadyTruthful
<1>1. PacketInv => ReadyTruthful
  BY DEF PacketInv, ReadyTruthful, FieldsFollowCall
<1> QED
  BY <1>1, PacketInvariant, PTL

(* Only an empty datagram makes a packet istream look ended, and only udp  *)
(* can end the program: the other kinds wait for as long as it takes.      *)
THEOREM EndedByEmptyDatagram == Spec => []EndsAtEmptyOnly
<1>1. PacketInv => EndsAtEmptyOnly
  BY DEF PacketInv
<1> QED
  BY <1>1, PacketInvariant, PTL

(* The fast timer never reports two expiries less than a period apart,     *)
(* however late the caller comes to ask.                                   *)
THEOREM PeriodsApart == Spec => []PeriodKept
<1>1. PacketInv => PeriodKept
  BY DEF PacketInv
<1> QED
  BY <1>1, PacketInvariant, PTL

(* A port of an ExaNIC with a frame is passed over by fewer frames than    *)
(* there are ports: the search starts after the port of the last frame.    *)
THEOREM PortsTakeTurns == Spec => []NoPortStarves
<1>1. PacketInv => NoPortStarves
  <2> SUFFICES ASSUME PacketInv, NEW p \in Ports PROVE passed[p] < P
    BY DEF NoPortStarves
  <2>1. passed[p] \in Nat /\ (passed[p] > 0 => Ahead(p) \in 0..(P - 1))
    BY AheadIsDistance DEF PacketInv, TypeOK, PassedComesNearer
  <2> QED
    BY <2>1, PacketAssumption DEF PacketInv, PassedComesNearer
<1> QED
  BY <1>1, PacketInvariant, PTL
-----------------------------------------------------------------------------
(* Every istream is a queue of records.                                    *)

LEMMA HeldReturnableStep ==
  ASSUME PacketInv, HeldReturnable, [Next]_vars
  PROVE  HeldReturnable'
<1> USE DEF source, fields, Ticks, Held
<1>1. CASE \/ Ready \/ StartRead \/ SetBlocking \/ WouldBlock \/ TimerWaits \/ NotErf
           \/ NoRecord \/ BadFrame \/ NoFrame \/ BeforeTheArray \/ NoSlot \/ RxSync
           \/ UNCHANGED vars
  <2>1. UNCHANGED <<kind, class, size, held>>
    BY <1>1 DEF Ready, StartRead, SetBlocking, WouldBlock, TimerWaits, NotErf, NoRecord,
       BadFrame, NoFrame, BeforeTheArray, NoSlot, RxSync, vars
  <2> QED
    BY <2>1 DEF HeldReturnable
<1>2. CASE HandOut \/ EndRead
  <2>1. UNCHANGED <<kind, class, held>> /\ size' \in {0, size}
    BY <1>2 DEF HandOut, EndRead
  <2> QED
    BY <2>1 DEF HeldReturnable
<1>3. CASE Recv \/ TakeRecord \/ ReceiveFrame
  <2>1. PICK p \in Ports : /\ held' = [port |-> p, first |-> next[p] + 1, last |-> next[p] + 1]
                           /\ size' = 1 => class[p][next[p] + 1] = "data"
                           /\ UNCHANGED class
    <3>1. 0 \in Ports
      BY PacketAssumption DEF Ports
    <3>2. ReceiveFrame => ExaPort \in Ports
      BY ExaPortIs DEF PacketInv, ReceiveFrame
    <3> QED
      BY <1>3, <3>1, <3>2 DEF Recv, TakeRecord, ReceiveFrame, Waiting
  <2>2. next[p] \in Nat
    BY PacketAssumption DEF PacketInv, TypeOK, SourceTypes
  <2>3. held'.port = p /\ held'.first = next[p] + 1 /\ held'.last = next[p] + 1
    BY <2>1
  <2>4. \A n \in Held' : n = next[p] + 1
    BY <2>2, <2>3
  <2> QED
    BY <2>1, <2>3, <2>4 DEF HeldReturnable
<1>4. CASE ReadExpiries \/ TimerFires \/ TakeSlot
  <2>1. PICK p \in Ports : /\ held'.port = p
                           /\ held'.first = next[p] + 1
                           /\ held'.last \in 0..MaxRecords
                           /\ Ticks' \/ held'.last = held'.first
                           /\ UNCHANGED class
    <3>1. /\ 0 \in Ports /\ i \in Ports /\ arrived[0] \in 0..MaxRecords
          /\ \A p \in Ports : next[p] \in Nat /\ tail[p] \in 0..MaxRecords
      BY PacketAssumption DEF Ports, PacketInv, TypeOK, SourceTypes, CallTypes
    <3>2. CASE ReadExpiries \/ TimerFires
      BY <3>1, <3>2 DEF ReadExpiries, TimerFires
    <3>3. CASE TakeSlot
      <4>1. next[i] + 1 \in 0..MaxRecords
        BY <3>1, <3>3, PacketAssumption DEF TakeSlot
      <4> QED
        BY <3>1, <3>3, <4>1 DEF TakeSlot
    <3> QED
      BY <1>4, <3>2, <3>3
  <2>2. next[p] \in Nat
    BY PacketAssumption DEF PacketInv, TypeOK, SourceTypes
  <2>3. \A n \in Held' : n \in Records
    BY <2>1, <2>2, PacketAssumption DEF Records
  <2>4. \A n \in Records : class[p][n] = "data"
    <3>1. kind \in {"periodic", "fast", "netmap"}
      BY <1>4 DEF ReadExpiries, TimerFires, TakeSlot
    <3> QED
      BY <3>1 DEF PacketInv, CountsInOrder, ClassesOf
  <2> QED
    BY <2>1, <2>3, <2>4 DEF HeldReturnable
<1>5. ASSUME NEW p \in Ports, NEW c \in Classes, Arrive(p, c)
      PROVE  HeldReturnable'
  <2>1. UNCHANGED <<kind, size, held>> /\ class' = [class EXCEPT ![p][arrived[p] + 1] = c]
    BY <1>5 DEF Arrive
  <2>2. ASSUME size = 1, NEW n \in Held
        PROVE  class'[held.port][n] = class[held.port][n]
    <3>1. /\ class \in [Ports -> [Records -> Classes]] /\ held.port \in Ports
          /\ held.first \in Nat /\ held.last \in Nat
          /\ \A q \in Ports : next[q] \in Nat /\ tail[q] \in Nat /\ arrived[q] \in Nat
      BY PacketAssumption DEF PacketInv, TypeOK, SourceTypes, FieldTypes
    <3>2. held.last <= arrived[held.port]
      BY <2>2, <3>1 DEF PacketInv, HeldIsNext, CountsInOrder
    <3>3. n # arrived[held.port] + 1
      BY <3>1, <3>2
    <3> QED
      BY <2>1, <3>1, <3>3
  <2>3. Ticks' = Ticks /\ held' = held /\ Held' = Held /\ size' = size
    BY <2>1
  <2> QED
    BY <2>2, <2>3 DEF HeldReturnable
<1> QED
  BY <1>1, <1>2, <1>3, <1>4, <1>5 DEF Next, Prepare

(* What has left a port, by the state of the call.                         *)
LEMMA LeftIs ==
  /\ size # 1 => Done = [p \in Ports |-> next[p]]
  /\ (size = 1 /\ kind # "netmap" /\ pc # "reading") =>
       Done = [p \in Ports |-> IF p = held.port THEN held.first - 1 ELSE next[p]]
  /\ (size = 1 /\ kind # "netmap" /\ pc = "reading") => Done = [p \in Ports |-> next[p]]
  /\ (size = 1 /\ kind = "netmap" /\ pc # "reading") => Done = [p \in Ports |-> next[p]]
  /\ (size = 1 /\ kind = "netmap" /\ pc = "reading") =>
       Done = [p \in Ports |-> IF p = held.port THEN next[p] + 1 ELSE next[p]]
BY DEF Done, Left


(* A step that leaves the records alone is none of the queue's.            *)
LEMMA QueueStutters ==
  ASSUME UNCHANGED <<kind, class, arrived, returned>>, Done' = Done
  PROVE  [Queue!Next]_(Queue!vars)
BY DEF Queue!vars, Ticks

(* Nothing is consumed, or only what a ready or an end_read changes.       *)
LEMMA QuietKeepsDone ==
  ASSUME PacketInv,
         \/ Ready \/ StartRead \/ SetBlocking \/ WouldBlock \/ TimerWaits \/ NoRecord
         \/ NoFrame \/ BeforeTheArray \/ NoSlot \/ RxSync \/ UNCHANGED vars
  PROVE  UNCHANGED <<kind, class, arrived, returned>> /\ Done' = Done
<1> USE DEF source, fields
<1>1. UNCHANGED <<kind, class, arrived, returned, next, size, held>>
  BY DEF Ready, StartRead, SetBlocking, WouldBlock, TimerWaits, NoRecord, NoFrame,
     BeforeTheArray, NoSlot, RxSync, vars
<1>2. (pc = "reading") = (pc' = "reading")
  BY DEF Ready, StartRead, SetBlocking, WouldBlock, TimerWaits, NoRecord, NoFrame,
     BeforeTheArray, NoSlot, RxSync, vars, call, Found, FoundNothing, NextPort, Looking
<1> QED
  BY <1>1, <1>2 DEF Done, Left

(* A record that is fetched to be held has not left its port yet.          *)
LEMMA FetchKeepsDone ==
  ASSUME PacketInv, size = 0, size' = 1, kind # "netmap", pc' # "reading",
         NEW p \in Ports, NEW k, next' = [next EXCEPT ![p] = k],
         held'.port = p, held'.first = next[p] + 1, kind' = kind
  PROVE  Done' = Done
<1>1. next \in [Ports -> 0..MaxRecords] /\ \A q \in Ports : next[q] \in Int
  BY PacketAssumption DEF PacketInv, TypeOK, SourceTypes
<1>2. Done = [q \in Ports |-> next[q]]
  BY LeftIs
<1>3. Done' = [q \in Ports |-> IF q = p THEN held'.first - 1 ELSE next'[q]]
  BY DEF Done, Left
<1>4. \A q \in Ports : next[q] = IF q = p THEN held'.first - 1 ELSE next'[q]
  BY <1>1
<1> QED
  BY <1>2, <1>3, <1>4

LEMMA FetchIsQuiet ==
  ASSUME PacketInv,
         \/ Recv /\ size' = 1
         \/ ReadExpiries \/ TimerFires \/ TakeRecord \/ ReceiveFrame \/ TakeSlot
  PROVE  UNCHANGED <<kind, class, arrived, returned>> /\ Done' = Done
<1>1. size = 0 /\ size' = 1 /\ pc' # "reading"
  BY DEF PacketInv, FieldsFollowCall, Recv, ReadExpiries, TimerFires, TakeRecord,
     ReceiveFrame, TakeSlot, Looking, Found, FoundNothing
<1>2. UNCHANGED <<kind, class, arrived, returned>>
  BY DEF source, Recv, ReadExpiries, TimerFires, TakeRecord, ReceiveFrame, TakeSlot
<1>3. CASE TakeSlot
  <2>1. kind = "netmap" /\ kind' = "netmap" /\ next' = next
    BY <1>3 DEF TakeSlot, source
  <2> QED
    BY <1>1, <1>2, <2>1 DEF Done, Left
<1>4. CASE ~TakeSlot
  <2>1. kind # "netmap"
    BY <1>4 DEF Recv, ReadExpiries, TimerFires, TakeRecord, ReceiveFrame
  <2>2. 0 \in Ports /\ (ReceiveFrame => ExaPort \in Ports)
    BY PacketAssumption, ExaPortIs DEF Ports, PacketInv, ReceiveFrame
  <2>3. PICK p \in Ports, k \in Int : /\ next' = [next EXCEPT ![p] = k]
                                      /\ held'.port = p /\ held'.first = next[p] + 1
    <3>1. /\ \A q \in Ports : next[q] + 1 \in Int
          /\ arrived[0] \in Int
      BY <2>2, PacketAssumption DEF PacketInv, TypeOK, SourceTypes
    <3>2. CASE ReadExpiries \/ TimerFires
      BY <2>2, <3>1, <3>2 DEF ReadExpiries, TimerFires
    <3>3. CASE Recv \/ TakeRecord
      <4>1. /\ next' = [next EXCEPT ![0] = next[0] + 1]
            /\ held'.port = 0 /\ held'.first = next[0] + 1
        BY <3>3 DEF Recv, TakeRecord
      <4> QED
        BY <2>2, <3>1, <4>1
    <3>4. CASE ReceiveFrame
      <4>1. /\ next' = [next EXCEPT ![ExaPort] = next[ExaPort] + 1]
            /\ held'.port = ExaPort /\ held'.first = next[ExaPort] + 1
        BY <3>4 DEF ReceiveFrame
      <4> QED
        BY <2>2, <3>1, <3>4, <4>1
    <3> QED
      BY <1>4, <3>2, <3>3, <3>4
  <2> QED
    BY <1>1, <1>2, <2>1, <2>3, FetchKeepsDone
<1> QED
  BY <1>2, <1>3, <1>4

(* An end_read moves netmap's cur past a slot that has been handed out.    *)
LEMMA EndReadKeepsDone ==
  ASSUME PacketInv, EndRead
  PROVE  UNCHANGED <<kind, class, arrived, returned>> /\ Done' = Done
<1>1. /\ pc = "reading" /\ pc' = "idle" /\ size' = 0
      /\ size = IF kind \in Descriptors THEN 0 ELSE 1
      /\ UNCHANGED <<kind, class, arrived, returned, held>>
  BY DEF EndRead, PacketInv, FieldsFollowCall
<1>2. next \in [Ports -> 0..MaxRecords] /\ held.port \in Ports
  BY DEF PacketInv, TypeOK, SourceTypes, FieldTypes
<1>3. Done' = [p \in Ports |-> next'[p]]
  BY <1>1 DEF Done, Left
<1>4. CASE kind = "netmap"
  <2>1. Done = [p \in Ports |-> IF p = held.port THEN next[p] + 1 ELSE next[p]]
    BY <1>1, <1>4, LeftIs DEF Descriptors
  <2>2. \A p \in Ports : next'[p] = IF p = held.port THEN next[p] + 1 ELSE next[p]
    BY <1>2, <1>4 DEF EndRead
  <2> QED
    BY <1>1, <1>3, <2>1, <2>2
<1>5. CASE kind # "netmap"
  <2>1. Done = [p \in Ports |-> next[p]] /\ next' = next
    BY <1>1, <1>5, LeftIs DEF EndRead
  <2> QED
    BY <1>1, <1>3, <2>1
<1> QED
  BY <1>4, <1>5

(* A datagram without payload, a record that is no packet, a bad frame.    *)
LEMMA DropsRecord ==
  ASSUME PacketInv, (Recv /\ size' # 1) \/ NotErf \/ BadFrame
  PROVE  \E p \in Ports : Queue!Drop(p)
<1>1. size = 0 /\ size' = 0
  BY DEF PacketInv, FieldsFollowCall, Recv, NotErf, BadFrame, Looking, fields, TypeOK,
     FieldTypes
<1>2. next \in [Ports -> 0..MaxRecords] /\ arrived \in [Ports -> 0..MaxRecords]
  BY DEF PacketInv, TypeOK, SourceTypes
<1>3. PICK p \in Ports : /\ next[p] < arrived[p]
                         /\ class[p][next[p] + 1] # "data"
                         /\ next' = [next EXCEPT ![p] = @ + 1]
                         /\ UNCHANGED <<kind, class, arrived, returned>>
  <2>1. 0 \in Ports /\ (BadFrame => ExaPort \in Ports)
    BY PacketAssumption, ExaPortIs DEF Ports, PacketInv, BadFrame
  <2> QED
    BY <2>1 DEF Recv, NotErf, BadFrame
<1>4. Done = next /\ Done' = next'
  <2>1. Done = [q \in Ports |-> next[q]] /\ Done' = [q \in Ports |-> next'[q]]
    BY <1>1 DEF Done, Left
  <2>2. next = [q \in Ports |-> next[q]] /\ next' = [q \in Ports |-> next'[q]]
    BY <1>2, <1>3
  <2> QED
    BY <2>1, <2>2
<1>5. Ticks' = Ticks
  BY <1>3 DEF Ticks
<1> QED
  BY <1>3, <1>4, <1>5 DEF Queue!Drop

(* What start_read hands out is next in its queue.                         *)
LEMMA ReturnsNext ==
  ASSUME PacketInv, HeldReturnable, HandOut
  PROVE  \E p \in Ports, n \in Queue!Records : Queue!Return(p, n)
<1>1. /\ pc = "found" /\ pc' = "reading" /\ size = 1
      /\ size' = IF kind \in Descriptors THEN 0 ELSE 1
      /\ returned' = [returned EXCEPT ![held.port] = @ \union Held]
      /\ UNCHANGED <<kind, class, arrived, next, held>>
  BY DEF HandOut, PacketInv, FieldsFollowCall, source
<1>2. /\ next \in [Ports -> 0..MaxRecords] /\ held.port \in Ports
      /\ held.first \in 1..(MaxRecords + 1) /\ held.last \in 0..MaxRecords
      /\ tail[held.port] \in Int /\ arrived[held.port] \in Int /\ MaxRecords \in Nat
      /\ next[held.port] \in Int
  BY PacketAssumption DEF PacketInv, TypeOK, SourceTypes, FieldTypes
<1> DEFINE p == held.port
           n == held.last
<1>3. /\ held.first <= n /\ n <= arrived[p]
      /\ IF kind = "netmap" THEN held.first = next[p] + 1 /\ n = held.first
                            ELSE n = next[p]
  BY <1>1, <1>2 DEF PacketInv, HeldIsNext, CountsInOrder
<1>4. Done[p] = held.first - 1 /\ Done' = [Done EXCEPT ![p] = n]
  <2>1. CASE kind = "netmap"
    <3>1. /\ Done = [q \in Ports |-> next[q]]
          /\ Done' = [q \in Ports |-> IF q = p THEN next[q] + 1 ELSE next[q]]
      BY <1>1, <2>1 DEF Done, Left, Descriptors
    <3> QED
      BY <1>2, <1>3, <2>1, <3>1
  <2>2. CASE kind # "netmap"
    <3>1. /\ Done = [q \in Ports |-> IF q = p THEN held.first - 1 ELSE next[q]]
          /\ Done' = [q \in Ports |-> next[q]]
      BY <1>1, <2>2 DEF Done, Left
    <3> QED
      BY <1>2, <1>3, <2>2, <3>1
  <2> QED
    BY <2>1, <2>2
<1>5. (Done[p] + 1)..n = Held /\ Done[p] < n /\ (Ticks \/ n = Done[p] + 1)
      /\ \A m \in Held : class[p][m] = "data"
  BY <1>1, <1>2, <1>3, <1>4 DEF Held, HeldReturnable
<1>6. n \in Queue!Records
  BY <1>2, <1>3 DEF Queue!Records
<1>7. Ticks' = Ticks
  BY <1>1 DEF Ticks
<1> HIDE DEF p, n
<1>8. returned' = [returned EXCEPT ![p] = @ \union Held] /\ p \in Ports
  BY <1>1, <1>2 DEF p
<1>9. Queue!Return(p, n)
  BY <1>1, <1>3, <1>4, <1>5, <1>7, <1>8 DEF Queue!Return
<1> QED
  BY <1>6, <1>8, <1>9

LEMMA ArrivesInQueue ==
  ASSUME PacketInv, NEW p \in Ports, NEW c \in Classes, Arrive(p, c)
  PROVE  Queue!Arrive(p, c)
<1>1. arrived[p] < MaxRecords
  BY PacketAssumption DEF Arrive, PacketInv, TypeOK, SourceTypes
<1>2. UNCHANGED <<kind, next, size, held, pc>>
  BY DEF Arrive, fields, call
<1>3. Done' = Done /\ Ticks' = Ticks
  BY <1>2 DEF Done, Left, Ticks
<1> QED
  BY <1>1, <1>3 DEF Arrive, Queue!Arrive

LEMMA QueueInit == Init => Queue!Init
<1> SUFFICES ASSUME Init PROVE Queue!Init
  OBVIOUS
<1>1. Ticks \in BOOLEAN
  BY DEF Ticks
<1>2. Done = [p \in Ports |-> 0]
  BY DEF Init, Done, Left
<1> QED
  BY <1>1, <1>2 DEF Init, Queue!Init, Records, Queue!Records

LEMMA QueueStep ==
  ASSUME PacketInv, HeldReturnable, [Next]_vars
  PROVE  [Queue!Next]_(Queue!vars)
<1>1. CASE \/ Ready \/ StartRead \/ SetBlocking \/ WouldBlock \/ TimerWaits \/ NoRecord
           \/ NoFrame \/ BeforeTheArray \/ NoSlot \/ RxSync \/ UNCHANGED vars
  BY <1>1, QuietKeepsDone, QueueStutters
<1>2. CASE \/ Recv /\ size' = 1
           \/ ReadExpiries \/ TimerFires \/ TakeRecord \/ ReceiveFrame \/ TakeSlot
  BY <1>2, FetchIsQuiet, QueueStutters
<1>3. CASE EndRead
  BY <1>3, EndReadKeepsDone, QueueStutters
<1>4. CASE (Recv /\ size' # 1) \/ NotErf \/ BadFrame
  BY <1>4, DropsRecord DEF Queue!Next
<1>5. CASE HandOut
  BY <1>5, ReturnsNext DEF Queue!Next
<1>6. ASSUME NEW p \in Ports, NEW c \in Classes, Arrive(p, c)
      PROVE  [Queue!Next]_(Queue!vars)
  BY <1>6, ArrivesInQueue DEF Queue!Next
<1> QED
  BY <1>1, <1>2, <1>3, <1>4, <1>5, <1>6 DEF Next, Prepare

(* Every kind of packet istream and timer implements the queue: whatever   *)
(* the fields ready, start_read and end_read pass each other the record    *)
(* in, the reader gets all of a port's records that carry data, in the     *)
(* order of their arrival, each once, packets one at a time.               *)
THEOREM PacketRefinesQueue == Spec => ImplementsQueue
<1>1. Init => HeldReturnable
  BY DEF Init, HeldReturnable
<1>2. PacketInv /\ HeldReturnable /\ [Next]_vars => HeldReturnable'
  BY HeldReturnableStep
<1> QED
  BY <1>1, <1>2, PacketInvariant, QueueInit, QueueStep, PTL
     DEF Spec, ImplementsQueue, Queue!Spec

=============================================================================
