--------------------------- MODULE CamioCatProofs ---------------------------
(***************************************************************************)
(* Proofs about camio_cat, for every number of inputs and outputs, every   *)
(* command line and every bound.                                           *)
(***************************************************************************)
EXTENDS CamioCat, SequenceTheorems, TLAPS

(* A record is on its way from an input to the outputs.                    *)
Busy == pc \in {"write", "commit", "end"}

(* Between the calls, buffers are held only where the loop stands between  *)
(* the call that takes one and the call that gives it back.                *)
Handling ==
  /\ streams \subseteq setup.inputs
  /\ Busy => in \in streams
  /\ pc \notin {"commit", "failed"} => assigned = NullBuffer /\ copied = NullBuffer
  /\ pc = "commit" => assigned # NullBuffer \/ copied # NullBuffer
  /\ pc = "end" => written[i] # <<>>

CatInv == TypeOK /\ Handling

(* The line that is on its way is the one last read, wherever it is held.  *)
LineInFlight ==
  LET rec == [of |-> in, rec |-> next[in]]
      ptr == [of |-> in, at |-> next[in]] IN
  (Busy /\ in \in Files) =>
    /\ next[in] >= 1
    /\ selected # <<>> /\ selected[Len(selected)] = rec
    /\ in_buff \in {NullBuffer, ptr}
    /\ assigned \in {NullBuffer, ptr}
    /\ copied \in {NullBuffer, rec}
    /\ pc = "commit" => HasRoom(i, rec)
    /\ pc = "end" => written[i][Len(written[i])] = rec

(* w consists of those of the first n elements of s that are in S.         *)
Chosen(w, s, n, S) ==
  \E f \in [DOMAIN w -> 1..n] :
    /\ \A k \in DOMAIN w : w[k] = s[f[k]]
    /\ \A k, l \in DOMAIN w : k < l => f[k] < f[l]
    /\ {f[k] : k \in DOMAIN w} = {l \in 1..n : s[l] \in S}

Room(o) == {rec \in Records : HasRoom(o, rec)}

(* Outputs before the one in turn have the record on its way already.      *)
Due(o) ==
  IF Busy /\ (o > i \/ (o = i /\ pc # "end")) THEN Len(selected) - 1 ELSE Len(selected)
Progress ==
  (pc # "failed" /\ OnlyFiles) =>
    \A o \in 1..Outputs : Chosen(written[o], selected, Due(o), Room(o))

(* The buffer is still there for the next output.                          *)
Kept == (pc = "write" \/ (pc \in {"commit", "end"} /\ i < Outputs)) => in_buff # NullBuffer

-----------------------------------------------------------------------------
(* Arithmetic modulo N.                                                    *)

LEMMA Division ==
  ASSUME NEW a \in Int
  PROVE  a \div N \in Int /\ a % N \in 0..(N - 1) /\ a = N * (a \div N) + (a % N)
BY CatAssumption

LEMMA Remainder ==
  ASSUME NEW a \in Int, NEW q \in Int, NEW r \in 0..(N - 1), a = N * q + r
  PROVE  a % N = r
BY CatAssumption

LEMMA Multiple ==
  ASSUME NEW k \in Int, k >= 1
  PROVE  N * k >= N
BY CatAssumption

(* Two numbers that share a slot are N apart, or more.                     *)
LEMMA SameSlot ==
  ASSUME NEW a \in Int, NEW b \in Int, a % N = b % N, a < b
  PROVE  b >= a + N
<1>1. /\ a \div N \in Int /\ b \div N \in Int /\ a % N \in Int
      /\ a = N * (a \div N) + (a % N) /\ b = N * (b \div N) + (b % N)
  BY Division, CatAssumption
<1>2. PICK k \in Int, l \in Int : a = N * k + (a % N) /\ b = N * l + (b % N)
  BY <1>1
<1>3. b - a = N * (l - k)
  BY <1>1, <1>2, CatAssumption
<1>4. l - k >= 1
  BY <1>3, CatAssumption
<1> QED
  BY <1>3, <1>4, Multiple, CatAssumption

LEMMA NextRemainder ==
  ASSUME NEW a \in Int
  PROVE  (a + 1) % N = ((a % N) + 1) % N
<1> DEFINE k == a \div N
           r == a % N
<1>1. k \in Int /\ r \in 0..(N - 1) /\ a = N * k + r
  BY Division
<1> HIDE DEF k, r
<1>2. CASE r + 1 < N
  <2>1. r + 1 \in 0..(N - 1) /\ a + 1 = N * k + (r + 1) /\ r + 1 = N * 0 + (r + 1)
    BY <1>1, <1>2, CatAssumption
  <2>2. (a + 1) % N = r + 1 /\ (r + 1) % N = r + 1
    BY <1>1, <2>1, Remainder, CatAssumption
  <2> QED
    BY <2>2 DEF r
<1>3. CASE r + 1 = N
  <2>1. a + 1 = N * (k + 1) + 0 /\ r + 1 = N * 1 + 0 /\ 0 \in 0..(N - 1)
    BY <1>1, <1>3, CatAssumption
  <2>2. (a + 1) % N = 0 /\ (r + 1) % N = 0
    BY <1>1, <2>1, Remainder, CatAssumption
  <2> QED
    BY <2>2 DEF r
<1> QED
  BY <1>1, <1>2, <1>3, CatAssumption

-----------------------------------------------------------------------------
(* The command lines and the numbers of records.                           *)

LEMMA SetupFacts ==
  ASSUME setup \in Setups
  PROVE  Outputs \in Nat /\ Outputs >= 1 /\ Assigning \subseteq Nat
         /\ setup.inputs \subseteq Inputs
<1>1. setup \in [inputs : SUBSET (Files \union Rings), outputs : Nat \ {0}, assigning : SUBSET Nat]
  BY CatAssumption
<1> QED
  BY <1>1 DEF Outputs, Assigning, Inputs

LEMMA NumbersFacts ==
  /\ MaxLines \in Nat /\ MaxWrites \in Nat /\ N \in Nat /\ N >= 2
  /\ Numbers \subseteq Nat
  /\ 0..MaxLines \subseteq Numbers /\ 0..MaxWrites \subseteq Numbers
BY CatAssumption DEF Numbers

LEMMA NullFacts ==
  /\ NullBuffer \notin Records
  /\ NullBuffer \in Pointers
  /\ \A f \in Files : \A n \in 1..MaxLines :
       [of |-> f, at |-> n] \in Pointers /\ [of |-> f, at |-> n] # NullBuffer
  /\ \A r \in Rings : \A x \in 0..(N - 1) :
       [of |-> r, at |-> x] \in Pointers /\ [of |-> r, at |-> x] # NullBuffer
  /\ \A p \in Pointers \ {NullBuffer} :
       \/ p \in [of : Files, at : 1..MaxLines] /\ p.of \notin Rings
       \/ p \in [of : Rings, at : 0..(N - 1)]
<1>1. NullBuffer \notin Records
  BY CatAssumption DEF NullBuffer, Records, Inputs
<1>2. "null" \notin Files /\ "null" \notin Rings /\ Files \intersect Rings = {}
  BY CatAssumption
<1>3. ASSUME NEW f \in Files, NEW n \in 1..MaxLines
      PROVE  [of |-> f, at |-> n] \in Pointers /\ [of |-> f, at |-> n] # NullBuffer
  BY <1>2 DEF NullBuffer, Pointers
<1>4. ASSUME NEW r \in Rings, NEW x \in 0..(N - 1)
      PROVE  [of |-> r, at |-> x] \in Pointers /\ [of |-> r, at |-> x] # NullBuffer
  BY <1>2 DEF NullBuffer, Pointers
<1>5. ASSUME NEW p \in Pointers \ {NullBuffer}
      PROVE  \/ p \in [of : Files, at : 1..MaxLines] /\ p.of \notin Rings
             \/ p \in [of : Rings, at : 0..(N - 1)]
  BY <1>2 DEF Pointers
<1> QED
  BY <1>1, <1>3, <1>4, <1>5 DEF Pointers

(* What is behind a pointer is a record.                                   *)
LEMMA ContentIsRecord ==
  ASSUME TypeOK, NEW p \in Pointers \ {NullBuffer}
  PROVE  Content(p) \in Records
<1>1. CASE p \in [of : Files, at : 1..MaxLines] /\ p.of \notin Rings
  BY <1>1, NumbersFacts DEF Content, Records, Inputs
<1>2. CASE p \in [of : Rings, at : 0..(N - 1)]
  <2>2. p.of \in Rings /\ p.at \in 0..(N - 1)
    BY <1>2
  <2>1. payload \in [Rings -> [0..(N - 1) -> 0..MaxWrites]]
    BY DEF TypeOK
  <2>3. payload[p.of][p.at] \in 0..MaxWrites
    BY <2>1, <2>2
  <2> QED
    BY <2>2, <2>3, NumbersFacts DEF Content, Records, Inputs
<1> QED
  BY <1>1, <1>2, NullFacts

LEMMA LineLength ==
  ASSUME TypeOK, NEW f \in Files
  PROVE  Len(lines[f]) \in 0..MaxLines /\ lines[f] \in Seq(Lengths)
         /\ next[f] \in 0..Len(lines[f])
<1>1. lines[f] \in Contents /\ next[f] \in 0..MaxLines /\ next[f] <= Len(lines[f])
  BY DEF TypeOK
<1>2. PICK n \in 0..MaxLines : lines[f] \in [1..n -> Lengths]
  BY <1>1 DEF Contents
<1>3. n \in Nat
  BY <1>2, CatAssumption
<1>4. lines[f] \in Seq(Lengths) /\ Len(lines[f]) = n
  BY <1>2, <1>3, IsASeq
<1> QED
  BY <1>1, <1>2, <1>4

-----------------------------------------------------------------------------
(* The type invariant.                                                     *)

LEMMA CatInvInit == Init => CatInv
<1> SUFFICES ASSUME Init PROVE CatInv
  OBVIOUS
<1>1. setup \in Setups /\ setup.inputs \subseteq Inputs /\ Outputs \in Nat /\ Outputs >= 1
  BY SetupFacts DEF Init
<1>2. in \in Inputs
  BY CatAssumption DEF Init, Inputs
<1>3. \A f \in Files : Len(lines[f]) >= 0
  <2> SUFFICES ASSUME NEW f \in Files PROVE Len(lines[f]) >= 0
    OBVIOUS
  <2>4. lines[f] \in Contents
    BY DEF Init
  <2>1. PICK n \in 0..MaxLines : lines[f] \in [1..n -> Lengths]
    BY <2>4 DEF Contents
  <2>2. n \in Nat
    BY CatAssumption
  <2>3. Len(lines[f]) = n
    BY <2>1, <2>2, IsASeq
  <2> QED
    BY <2>2, <2>3
<1>4. TypeOK
  BY <1>1, <1>2, <1>3, NumbersFacts, NullFacts DEF Init, TypeOK
<1>5. Handling
  BY DEF Init, Handling, Busy
<1> QED
  BY <1>4, <1>5 DEF CatInv

(* A writer stores a record, and publishes it.                             *)
LEMMA WriterFacts ==
  ASSUME TypeOK, NEW r \in Rings
  PROVE  /\ NextSlot(r) \in 0..(N - 1) /\ payload[r][NextSlot(r)] \in 0..MaxWrites
         /\ sync_count[r] \in Nat /\ sync_count[r] \in 0..MaxWrites
         /\ NextSlot(r) = sync_count[r] % N
<1>1. sync_count[r] \in 0..MaxWrites /\ sync_count[r] \in Nat
  BY NumbersFacts DEF TypeOK
<1>2. NextSlot(r) \in 0..(N - 1)
  BY <1>1, Division DEF NextSlot
<1>3. payload[r] \in [0..(N - 1) -> 0..MaxWrites]
  BY DEF TypeOK
<1> QED
  BY <1>1, <1>2, <1>3 DEF NextSlot

LEMMA StoreType ==
  ASSUME CatInv, NEW r \in Rings, Store(r)
  PROVE  CatInv'
<1>1. sync_count[r] + 1 \in 0..MaxWrites
  BY WriterFacts, NumbersFacts DEF Store, CatInv
<1>2. payload' \in [Rings -> [0..(N - 1) -> 0..MaxWrites]]
  BY <1>1 DEF Store, CatInv, TypeOK
<1>3. TypeOK'
  BY <1>2 DEF Store, CatInv, TypeOK, buffers, history, Outputs
<1> QED
  BY <1>3 DEF Store, CatInv, Handling, Busy, buffers, history

LEMMA PublishType ==
  ASSUME CatInv, NEW r \in Rings, Publish(r)
  PROVE  CatInv'
<1>2. sync_count[r] + 1 \in 0..MaxWrites
  BY WriterFacts DEF Publish, CatInv
<1>3. sync_count' \in [Rings -> 0..MaxWrites]
  BY <1>2 DEF Publish, CatInv, TypeOK
<1>4. slots' \in [Rings -> [0..(N - 1) -> 0..MaxWrites]]
  BY <1>2 DEF Publish, CatInv, TypeOK
<1>5. TypeOK'
  BY <1>3, <1>4 DEF Publish, CatInv, TypeOK, buffers, history, Outputs
<1> QED
  BY <1>5 DEF Publish, CatInv, Handling, Busy, buffers, history

LEMMA SelectLineType ==
  ASSUME CatInv, NEW f \in Files, SelectLine(f)
  PROVE  CatInv'
<1>1. next[f] \in 0..Len(lines[f]) /\ Len(lines[f]) \in 0..MaxLines /\ next[f] < Len(lines[f])
  BY LineLength DEF SelectLine, CatInv
<1>2. next[f] + 1 \in 1..MaxLines /\ next[f] + 1 <= Len(lines[f])
  BY <1>1, NumbersFacts
<1>3. next' \in [Files -> 0..MaxLines] /\ \A g \in Files : next'[g] <= Len(lines'[g])
  BY <1>2, NumbersFacts DEF SelectLine, CatInv, TypeOK
<1>4. in_buff' \in Pointers
  BY <1>2, NullFacts DEF SelectLine
<1>5. [of |-> f, rec |-> next[f] + 1] \in Records
  BY <1>2, NumbersFacts DEF Records, Inputs
<1>6. selected' \in Seq(Records)
  BY <1>5 DEF SelectLine, CatInv, TypeOK
<1>7. 1 \in 1..Outputs /\ f \in Inputs
  BY SetupFacts DEF CatInv, TypeOK, Inputs
<1>8. TypeOK'
  BY <1>3, <1>4, <1>6, <1>7 DEF SelectLine, CatInv, TypeOK, Outputs
<1> QED
  BY <1>8 DEF SelectLine, CatInv, Handling, Busy

LEMMA RemoveInputType ==
  ASSUME CatInv, NEW f \in Files, RemoveInput(f)
  PROVE  CatInv'
<1>1. next[f] \in 0..Len(lines[f]) /\ Len(lines[f]) \in 0..MaxLines
  BY LineLength DEF CatInv
<1>2. next' \in [Files -> 0..MaxLines] /\ \A g \in Files : next'[g] <= Len(lines'[g])
  BY <1>1, NumbersFacts DEF RemoveInput, CatInv, TypeOK
<1>3. TypeOK'
  BY <1>2 DEF RemoveInput, CatInv, TypeOK, Outputs, buffers, history, Inputs
<1> QED
  BY <1>3 DEF RemoveInput, CatInv, Handling, Busy, buffers, history

LEMMA SelectRecordType ==
  ASSUME CatInv, NEW r \in Rings, SelectRecord(r)
  PROVE  CatInv'
<1>1. index[r] \in 0..(N - 1) /\ slots[r][index[r]] \in 0..MaxWrites
  BY DEF CatInv, TypeOK
<1>2. sync_counter' \in [Rings -> 0..(MaxWrites + 1)]
  BY <1>1, NumbersFacts DEF SelectRecord, CatInv, TypeOK
<1>3. in_buff' \in Pointers
  BY <1>1, NullFacts DEF SelectRecord
<1>4. [of |-> r, rec |-> slots[r][index[r]]] \in Records
  BY <1>1, NumbersFacts DEF Records, Inputs
<1>5. selected' \in Seq(Records)
  BY <1>4 DEF SelectRecord, CatInv, TypeOK
<1>6. 1 \in 1..Outputs /\ r \in Inputs
  BY SetupFacts DEF CatInv, TypeOK, Inputs
<1>7. TypeOK'
  BY <1>2, <1>3, <1>5, <1>6 DEF SelectRecord, CatInv, TypeOK, Outputs
<1> QED
  BY <1>7 DEF SelectRecord, CatInv, Handling, Busy

LEMMA NextOutputType ==
  ASSUME setup \in Setups, i \in 1..Outputs, NextOutput
  PROVE  i' \in 1..Outputs /\ pc' \in {"write", "select"}
BY SetupFacts DEF NextOutput

(* The calls that take a buffer or find none.                              *)
LEMMA TakeType ==
  ASSUME CatInv, Assign \/ Copy \/ NoBuffer
  PROVE  CatInv'
<1>1. CASE Assign
  <2>1. TypeOK'
    BY <1>1, NullFacts DEF Assign, CatInv, TypeOK, Outputs, inputs, history
  <2> QED
    BY <1>1, <2>1 DEF Assign, CatInv, Handling, Busy, inputs, history
<1>2. CASE Copy
  <2>1. copied' \in {NullBuffer} \union Records /\ (in_buff # NullBuffer => copied' # NullBuffer)
    BY <1>2, ContentIsRecord, NullFacts DEF Copy, CatInv, TypeOK
  <2>2. TypeOK'
    BY <1>2, <2>1 DEF Copy, CatInv, TypeOK, Outputs, inputs, history
  <2> QED
    BY <1>2, <2>1, <2>2 DEF Copy, CatInv, Handling, Busy, inputs, history
<1>3. CASE NoBuffer
  <2>1. i' \in 1..Outputs /\ pc' \in {"write", "select"}
    BY <1>3, NextOutputType DEF NoBuffer, CatInv, TypeOK
  <2>2. TypeOK'
    BY <1>3, <2>1 DEF NoBuffer, CatInv, TypeOK, Outputs, inputs, history, buffers
  <2> QED
    BY <1>3, <2>1, <2>2 DEF NoBuffer, CatInv, Handling, Busy, inputs, history, buffers
<1> QED
  BY <1>1, <1>2, <1>3

(* What goes out is a record.                                              *)
Out == IF assigned # NullBuffer THEN Content(assigned) ELSE copied

LEMMA EndWriteType ==
  ASSUME CatInv, EndWrite
  PROVE  /\ CatInv' /\ Out \in Records
         /\ written' = [written EXCEPT ![i] = Append(@, Out)]
<1>1. Out \in Records
  BY ContentIsRecord DEF Out, EndWrite, CatInv, TypeOK, Handling
<1>2. written' = [written EXCEPT ![i] = Append(@, Out)]
  BY DEF EndWrite, Out
<1>3. written \in [1..Outputs -> Seq(Records)] /\ i \in 1..Outputs
  BY DEF CatInv, TypeOK
<1>4. written' \in [1..Outputs -> Seq(Records)] /\ written'[i] # <<>>
  <2>1. Append(written[i], Out) \in Seq(Records) /\ Append(written[i], Out) # <<>>
    BY <1>1, <1>3, AppendProperties
  <2> QED
    BY <1>2, <1>3, <2>1
<1>5. TypeOK'
  BY <1>4, NullFacts DEF EndWrite, CatInv, TypeOK, Outputs, inputs, history
<1>6. Handling'
  BY <1>4 DEF EndWrite, CatInv, Handling, Busy, inputs, history
<1> QED
  BY <1>1, <1>2, <1>5, <1>6 DEF CatInv

(* end_read accepts what was written last, unless there was an overrun.    *)
LEMMA EndReadType ==
  ASSUME CatInv, EndRead
  PROVE  CatInv'
<1>1. i' \in 1..Outputs /\ pc' \in {"write", "select"}
  BY NextOutputType DEF EndRead, CatInv, TypeOK
<1>2. CASE in \in Rings /\ Overrun(in)
  <2>1. slots[in][index[in]] \in 0..MaxWrites
    BY <1>2 DEF CatInv, TypeOK
  <2>4. /\ sync_counter' = [sync_counter EXCEPT ![in] = slots[in][index[in]]]
        /\ slots[in][index[in]] \in 0..(MaxWrites + 1)
    BY <1>2, <2>1, NumbersFacts DEF EndRead
  <2>2. sync_counter' \in [Rings -> 0..(MaxWrites + 1)]
    BY <2>4 DEF CatInv, TypeOK
  <2>3. TypeOK'
    BY <1>1, <1>2, <2>2 DEF EndRead, CatInv, TypeOK, Outputs, buffers
  <2> QED
    BY <1>1, <1>2, <2>3 DEF EndRead, CatInv, Handling, Busy, buffers
<1>3. CASE ~(in \in Rings /\ Overrun(in))
  <2>1. ASSUME NEW r \in Rings, r = in PROVE sync_counter[r] \in 0..MaxWrites
    <3>1. index[r] \in 0..(N - 1) /\ slots[r] \in [0..(N - 1) -> 0..MaxWrites]
      BY DEF CatInv, TypeOK
    <3>2. slots[r][index[r]] = sync_counter[r]
      BY <1>3, <2>1 DEF Overrun
    <3> QED
      BY <3>1, <3>2
  <2>2. sync_counter' \in [Rings -> 0..(MaxWrites + 1)]
    <3>1. sync_counter' = [r \in Rings |-> sync_counter[r] + IF r = in THEN 1 ELSE 0]
      BY <1>3 DEF EndRead
    <3>2. ASSUME NEW r \in Rings
          PROVE  sync_counter[r] + (IF r = in THEN 1 ELSE 0) \in 0..(MaxWrites + 1)
      <4>1. sync_counter[r] \in 0..(MaxWrites + 1)
        BY DEF CatInv, TypeOK
      <4> QED
        BY <2>1, <4>1, NumbersFacts
    <3> QED
      BY <3>1, <3>2
  <2>3. index' \in [Rings -> 0..(N - 1)]
    <3>1. index' = [r \in Rings |-> IF r = in THEN (index[r] + 1) % N ELSE index[r]]
      BY <1>3 DEF EndRead
    <3>2. ASSUME NEW r \in Rings
          PROVE  (index[r] + 1) % N \in 0..(N - 1) /\ index[r] \in 0..(N - 1)
      <4>1. index[r] \in 0..(N - 1)
        BY DEF CatInv, TypeOK
      <4> QED
        BY <4>1, NumbersFacts, Division
    <3> QED
      BY <3>1, <3>2
  <2>4. accepted' \in [1..Outputs -> Seq(Readings)]
    <3>1. written[i] \in Seq(Records) /\ written[i] # <<>> /\ i \in 1..Outputs /\ in \in Inputs
      BY DEF EndRead, CatInv, TypeOK, Handling
    <3>2. Last(written[i]) \in Records
      BY <3>1 DEF Last
    <3>5. Last(written[i]).rec \in Numbers
      BY <3>2 DEF Records
    <3>6. in \in Rings => sync_counter[in] \in Numbers
      BY <2>1, NumbersFacts
    <3>7. in \notin Rings => next[in] \in Numbers
      <4>1. in \notin Rings => next[in] \in 0..MaxLines
        BY <3>1 DEF CatInv, TypeOK, Inputs
      <4> QED
        BY <4>1, NumbersFacts
    <3>8. Reading \in Readings
      BY <3>1, <3>5, <3>6, <3>7 DEF Reading, Readings
    <3>3. accepted' = [accepted EXCEPT ![i] = Append(@, Reading)]
      BY <1>3 DEF EndRead
    <3>4. accepted \in [1..Outputs -> Seq(Readings)]
      BY DEF CatInv, TypeOK
    <3>9. Append(accepted[i], Reading) \in Seq(Readings)
      BY <3>1, <3>4, <3>8, AppendProperties
    <3> QED
      BY <3>3, <3>4, <3>9
  <2>5. TypeOK'
    BY <1>1, <2>2, <2>3, <2>4 DEF EndRead, CatInv, TypeOK, Outputs, buffers
  <2> QED
    BY <1>1, <2>5 DEF EndRead, CatInv, Handling, Busy, buffers
<1> QED
  BY <1>2, <1>3

LEMMA CatInvStep == CatInv /\ [Next]_vars => CatInv'
<1> SUFFICES ASSUME CatInv, [Next]_vars PROVE CatInv'
  OBVIOUS
<1>1. CASE Exit
  <2>1. TypeOK'
    BY <1>1 DEF Exit, CatInv, TypeOK, Outputs, inputs, buffers, history
  <2> QED
    BY <1>1, <2>1 DEF Exit, CatInv, Handling, Busy, inputs, buffers, history
<1>2. CASE UNCHANGED vars
  <2>1. TypeOK'
    BY <1>2 DEF vars, CatInv, TypeOK, Outputs, inputs, buffers, history
  <2> QED
    BY <1>2, <2>1 DEF vars, CatInv, Handling, Busy, inputs, buffers, history
<1> QED
  BY <1>1, <1>2, StoreType, PublishType, SelectLineType, RemoveInputType, SelectRecordType, TakeType,
     EndWriteType, EndReadType DEF Next, Cat, Select, Write

(* Whatever is given on the command line, pointers point at records there  *)
(* are, and a buffer is held only between the call that takes it and the   *)
(* call that gives it back.                                                *)
THEOREM CatTypeCorrect == Spec => []TypeOK
<1>1. CatInv => TypeOK
  BY DEF CatInv
<1> QED
  BY <1>1, CatInvInit, CatInvStep, PTL DEF Spec

-----------------------------------------------------------------------------
(* No output is handed a null buffer.                                      *)

(* Only the last output takes the buffer over.                             *)
AssigningLast == \A s \in Setups : \A o \in s.assigning : o >= s.outputs

LEMMA SelectKeeps ==
  ASSUME CatInv,
         \/ \E f \in Files : SelectLine(f)
         \/ \E r \in Rings : SelectRecord(r)
  PROVE  in_buff' # NullBuffer /\ pc' = "write"
<1>1. ASSUME NEW f \in Files, SelectLine(f) PROVE in_buff' # NullBuffer /\ pc' = "write"
  <2>1. next[f] + 1 \in 1..MaxLines
    <3>1. next[f] \in Nat /\ next[f] < Len(lines[f]) /\ Len(lines[f]) \in 0..MaxLines
      BY <1>1, LineLength, NumbersFacts DEF SelectLine, CatInv
    <3> QED
      BY <3>1, NumbersFacts
  <2> QED
    BY <1>1, <2>1, NullFacts DEF SelectLine
<1>2. ASSUME NEW r \in Rings, SelectRecord(r) PROVE in_buff' # NullBuffer /\ pc' = "write"
  <2>1. index[r] \in 0..(N - 1)
    BY DEF CatInv, TypeOK
  <2> QED
    BY <1>2, <2>1, NullFacts DEF SelectRecord
<1> QED
  BY <1>1, <1>2

LEMMA KeptStep ==
  ASSUME AssigningLast, CatInv, Kept, NeverFails, [Next]_vars
  PROVE  Kept' /\ NeverFails'
<1>1. i \in Assigning => i >= Outputs
  BY DEF AssigningLast, CatInv, TypeOK, Assigning, Outputs
<1>2. i \in 1..Outputs /\ Outputs \in Nat /\ UNCHANGED setup
  BY SetupFacts DEF CatInv, TypeOK, Next, Cat, Select, Write, Store, Publish, SelectLine, RemoveInput,
     SelectRecord, Assign, Copy, NoBuffer, EndWrite, EndRead, Exit, vars, inputs
<1>3. CASE \/ \E f \in Files : SelectLine(f)
           \/ \E r \in Rings : SelectRecord(r)
  BY <1>3, SelectKeeps DEF Kept, NeverFails
<1>4. CASE Assign
  BY <1>1, <1>2, <1>4 DEF Assign, Kept, NeverFails, Outputs
<1>5. CASE Copy
  BY <1>2, <1>5 DEF Copy, Kept, NeverFails, Outputs
<1>6. CASE NoBuffer
  BY <1>2, <1>6 DEF NoBuffer, NextOutput, Kept, NeverFails, buffers
<1>7. CASE EndWrite
  BY <1>2, <1>7 DEF EndWrite, Kept, NeverFails, Outputs
<1>8. CASE EndRead
  BY <1>2, <1>8 DEF EndRead, NextOutput, Kept, NeverFails, buffers
<1>9. CASE \/ \E f \in Files : RemoveInput(f)
           \/ \E r \in Rings : Store(r) \/ Publish(r)
           \/ Exit
           \/ UNCHANGED vars
  BY <1>2, <1>9 DEF RemoveInput, Store, Publish, Exit, vars, buffers, Kept, NeverFails, Outputs
<1> QED
  BY <1>3, <1>4, <1>5, <1>6, <1>7, <1>8, <1>9 DEF Next, Cat, Select, Write

(* If the only output that takes the buffer over is the last one, no       *)
(* output, however many there are, is handed a null buffer: the copying    *)
(* ones before it leave the buffer where it is, also when it is too long   *)
(* for them.                                                               *)
THEOREM BufferIsKept ==
  ASSUME AssigningLast
  PROVE  Spec => []NeverFails
<1>1. Init => Kept /\ NeverFails
  BY DEF Init, Kept, NeverFails
<1>2. CatInv /\ Kept /\ NeverFails /\ [Next]_vars => Kept' /\ NeverFails'
  BY KeptStep
<1> QED
  BY <1>1, <1>2, CatInvInit, CatInvStep, PTL DEF Spec

-----------------------------------------------------------------------------
(* Lines on their way, and what every output has of them.                  *)

LEMMA LineSelected ==
  ASSUME CatInv, NEW f \in Files, SelectLine(f)
  PROVE  LineInFlight'
<1>1. /\ in' = f /\ next' = [next EXCEPT ![f] = @ + 1] /\ pc' = "write"
      /\ in_buff' = [of |-> f, at |-> next[f] + 1]
      /\ selected' = Append(selected, [of |-> f, rec |-> next[f] + 1])
      /\ pc = "select" /\ UNCHANGED <<assigned, copied>>
  BY DEF SelectLine
<1>2. next[f] \in Nat /\ next'[f] = next[f] + 1 /\ assigned = NullBuffer /\ copied = NullBuffer
  <2>1. next \in [Files -> 0..MaxLines]
    BY DEF CatInv, TypeOK
  <2> QED
    BY <1>1, <2>1, NumbersFacts DEF CatInv, Handling
<1>3. selected' # <<>> /\ selected'[Len(selected')] = [of |-> f, rec |-> next[f] + 1]
  <2>1. selected \in Seq(Records)
    BY DEF CatInv, TypeOK
  <2> QED
    BY <1>1, <2>1
<1> QED
  BY <1>1, <1>2, <1>3 DEF LineInFlight

LEMMA LineStep ==
  ASSUME CatInv, LineInFlight, [Next]_vars
  PROVE  LineInFlight'
<1>0. in \in Inputs /\ Files \intersect Rings = {}
  BY CatAssumption DEF CatInv, TypeOK
<1>1. ASSUME NEW f \in Files, SelectLine(f) PROVE LineInFlight'
  BY <1>1, LineSelected
<1>2. ASSUME NEW r \in Rings, SelectRecord(r) PROVE LineInFlight'
  BY <1>0, <1>2 DEF SelectRecord, LineInFlight
<1>3. CASE Exit \/ \E f \in Files : RemoveInput(f)
  BY <1>3 DEF Exit, RemoveInput, LineInFlight, Busy
<1>4. CASE UNCHANGED vars \/ \E r \in Rings : Store(r) \/ Publish(r)
  BY <1>4 DEF vars, Store, Publish, LineInFlight, Busy, inputs, buffers, history, HasRoom, Fits, Assigning
<1>5. ASSUME Busy, in \in Files
      PROVE  /\ next[in] >= 1 /\ selected # <<>>
             /\ selected[Len(selected)] = [of |-> in, rec |-> next[in]]
             /\ in_buff \in {NullBuffer, [of |-> in, at |-> next[in]]}
             /\ assigned \in {NullBuffer, [of |-> in, at |-> next[in]]}
             /\ copied \in {NullBuffer, [of |-> in, rec |-> next[in]]}
             /\ pc = "commit" => HasRoom(i, [of |-> in, rec |-> next[in]])
             /\ pc = "end" => written[i][Len(written[i])] = [of |-> in, rec |-> next[in]]
             /\ Content([of |-> in, at |-> next[in]]) = [of |-> in, rec |-> next[in]]
  BY <1>0, <1>5 DEF LineInFlight, Content
<1>6. CASE Assign
  BY <1>5, <1>6 DEF Assign, LineInFlight, Busy, inputs, history, HasRoom, Fits, Assigning
<1>7. CASE Copy
  BY <1>5, <1>7 DEF Copy, LineInFlight, Busy, inputs, history, HasRoom, Fits, Assigning
<1>8. CASE NoBuffer
  BY <1>5, <1>8 DEF NoBuffer, NextOutput, LineInFlight, Busy, inputs, history, buffers
<1>9. CASE EndWrite
  <2>1. ASSUME in \in Files PROVE Out = [of |-> in, rec |-> next[in]]
    BY <1>5, <1>9, <2>1 DEF EndWrite, Busy, Out, CatInv, Handling
  <2>2. written' = [written EXCEPT ![i] = Append(@, Out)] /\ Out \in Records
    BY <1>9, EndWriteType
  <2>3. written \in [1..Outputs -> Seq(Records)] /\ i \in 1..Outputs
    BY DEF CatInv, TypeOK
  <2>4. written'[i][Len(written'[i])] = Out
    BY <2>2, <2>3
  <2> QED
    BY <1>5, <1>9, <2>1, <2>4 DEF EndWrite, LineInFlight, Busy, inputs, history
<1>10. CASE EndRead
  BY <1>5, <1>10 DEF EndRead, NextOutput, LineInFlight, Busy, buffers, CatInv, Handling
<1> QED
  BY <1>1, <1>2, <1>3, <1>4, <1>6, <1>7, <1>8, <1>9, <1>10 DEF Next, Cat, Select, Write

LEMMA ChosenSame ==
  ASSUME NEW w, NEW s, NEW t, NEW n \in Nat, NEW S, \A l \in 1..n : t[l] = s[l],
         Chosen(w, s, n, S)
  PROVE  Chosen(w, t, n, S)
<1>1. PICK f \in [DOMAIN w -> 1..n] :
         /\ \A k \in DOMAIN w : w[k] = s[f[k]]
         /\ \A k, l \in DOMAIN w : k < l => f[k] < f[l]
         /\ {f[k] : k \in DOMAIN w} = {l \in 1..n : s[l] \in S}
  BY DEF Chosen
<1>2. \A k \in DOMAIN w : w[k] = t[f[k]]
  BY <1>1
<1>3. {f[k] : k \in DOMAIN w} = {l \in 1..n : t[l] \in S}
  BY <1>1
<1> QED
  BY <1>1, <1>2, <1>3 DEF Chosen

LEMMA ChosenSkip ==
  ASSUME NEW w, NEW s, NEW n \in Nat, NEW S, s[n + 1] \notin S, Chosen(w, s, n, S)
  PROVE  Chosen(w, s, n + 1, S)
<1>1. PICK f \in [DOMAIN w -> 1..n] :
         /\ \A k \in DOMAIN w : w[k] = s[f[k]]
         /\ \A k, l \in DOMAIN w : k < l => f[k] < f[l]
         /\ {f[k] : k \in DOMAIN w} = {l \in 1..n : s[l] \in S}
  BY DEF Chosen
<1>2. f \in [DOMAIN w -> 1..(n + 1)]
  BY <1>1
<1>3. {l \in 1..(n + 1) : s[l] \in S} = {l \in 1..n : s[l] \in S}
  OBVIOUS
<1> QED
  BY <1>1, <1>2, <1>3 DEF Chosen

LEMMA ChosenMore ==
  ASSUME NEW R, NEW w \in Seq(R), NEW s, NEW n \in Nat, NEW S, NEW x \in R,
         s[n + 1] \in S, x = s[n + 1], Chosen(w, s, n, S)
  PROVE  Chosen(Append(w, x), s, n + 1, S)
<1>1. PICK f \in [DOMAIN w -> 1..n] :
         /\ \A k \in DOMAIN w : w[k] = s[f[k]]
         /\ \A k, l \in DOMAIN w : k < l => f[k] < f[l]
         /\ {f[k] : k \in DOMAIN w} = {l \in 1..n : s[l] \in S}
  BY DEF Chosen
<1> DEFINE v == Append(w, x)
           g == [k \in DOMAIN v |-> IF k \in DOMAIN w THEN f[k] ELSE n + 1]
<1>2. /\ Len(w) \in Nat /\ DOMAIN w = 1..Len(w) /\ DOMAIN v = 1..(Len(w) + 1)
      /\ \A k \in DOMAIN w : v[k] = w[k]
      /\ v[Len(w) + 1] = x
  OBVIOUS
<1> HIDE DEF v
<1>3. /\ \A k \in DOMAIN w : k \in DOMAIN v /\ g[k] = f[k] /\ f[k] \in 1..n
      /\ Len(w) + 1 \in DOMAIN v /\ Len(w) + 1 \notin DOMAIN w /\ g[Len(w) + 1] = n + 1
      /\ \A k \in DOMAIN v : k \in DOMAIN w \/ k = Len(w) + 1
  BY <1>1, <1>2
<1>4. g \in [DOMAIN v -> 1..(n + 1)]
  BY <1>1, <1>2
<1> HIDE DEF g
<1>5. \A k \in DOMAIN v : v[k] = s[g[k]]
  BY <1>1, <1>2, <1>3
<1>6. ASSUME NEW k \in DOMAIN v, NEW l \in DOMAIN v, k < l PROVE g[k] < g[l]
  <2>1. CASE l \in DOMAIN w
    <3>1. k \in DOMAIN w
      BY <1>2, <1>6, <2>1
    <3> QED
      BY <1>1, <1>3, <1>6, <2>1, <3>1
  <2>2. CASE l = Len(w) + 1
    <3>1. k \in DOMAIN w
      BY <1>2, <1>6, <2>2
    <3>2. g[k] \in 1..n /\ g[l] = n + 1
      BY <1>3, <2>2, <3>1
    <3> QED
      BY <3>2
  <2> QED
    BY <1>3, <2>1, <2>2
<1>7. {g[k] : k \in DOMAIN v} = {l \in 1..(n + 1) : s[l] \in S}
  <2>1. {g[k] : k \in DOMAIN v} = {f[k] : k \in DOMAIN w} \union {n + 1}
    BY <1>3
  <2>2. {l \in 1..(n + 1) : s[l] \in S} = {l \in 1..n : s[l] \in S} \union {n + 1}
    OBVIOUS
  <2> QED
    BY <1>1, <2>1, <2>2
<1>8. Chosen(v, s, n + 1, S)
  BY <1>4, <1>5, <1>6, <1>7 DEF Chosen
<1> QED
  BY <1>8 DEF v

LEMMA ProgressInit == Init => Progress
<1> SUFFICES ASSUME Init, NEW o \in 1..Outputs
             PROVE  Chosen(written[o], selected, Due(o), Room(o))
  BY DEF Progress
<1>1. written[o] = <<>> /\ selected = <<>> /\ Due(o) = 0
  BY DEF Init, Due, Busy
<1>2. Chosen(<<>>, <<>>, 0, Room(o))
  <2> DEFINE f == [k \in {} |-> 0]
  <2>1. DOMAIN <<>> = {} /\ 1..0 = {}
    OBVIOUS
  <2>2. f \in [DOMAIN <<>> -> 1..0]
    BY <2>1
  <2>3. {f[k] : k \in DOMAIN <<>>} = {l \in 1..0 : <<>>[l] \in Room(o)}
    BY <2>1
  <2>4. /\ \A k \in DOMAIN <<>> : <<>>[k] = <<>>[f[k]]
        /\ \A k, l \in DOMAIN <<>> : k < l => f[k] < f[l]
    BY <2>1
  <2> QED
    BY <2>2, <2>3, <2>4 DEF Chosen
<1> QED
  BY <1>1, <1>2

(* What each step does to the outputs' progress.                           *)
LEMMA ProgressStep ==
  ASSUME CatInv, LineInFlight, Progress, [Next]_vars
  PROVE  Progress'
<1> SUFFICES ASSUME pc' # "failed", OnlyFiles', NEW o \in (1..Outputs)'
             PROVE  Chosen(written'[o], selected', Due(o)', Room(o)')
  BY DEF Progress
<1>1. UNCHANGED <<setup, lines>>
  BY DEF Next, Cat, Select, Write, Store, Publish, SelectLine, RemoveInput, SelectRecord, Assign,
     Copy, NoBuffer, EndWrite, EndRead, Exit, vars, inputs
<1>2. OnlyFiles /\ o \in 1..Outputs /\ Outputs' = Outputs /\ Room(o)' = Room(o)
  BY <1>1 DEF OnlyFiles, Outputs, Room, HasRoom, Fits, Assigning
<1>3. pc = "failed" => pc' = "failed"
  BY DEF Next, Cat, Select, Write, Store, Publish, SelectLine, RemoveInput, SelectRecord, Assign,
     Copy, NoBuffer, EndWrite, EndRead, Exit, vars
<1>4. Chosen(written[o], selected, Due(o), Room(o))
  BY <1>2, <1>3 DEF Progress
<1>5. /\ selected \in Seq(Records) /\ Len(selected) \in Nat /\ i \in 1..Outputs /\ i \in Nat
      /\ o \in Nat /\ Outputs \in Nat /\ written \in [1..Outputs -> Seq(Records)] /\ streams \subseteq setup.inputs
  BY <1>2, SetupFacts DEF CatInv, TypeOK, Handling
<1>6. Busy => /\ in \in Files /\ selected # <<>> /\ Len(selected) >= 1
              /\ selected[Len(selected)] = [of |-> in, rec |-> next[in]]
              /\ selected[Len(selected)] \in Records
  BY <1>2, <1>5 DEF CatInv, Handling, LineInFlight, OnlyFiles
<1>7. CASE UNCHANGED <<written, selected>> /\ Due(o)' = Due(o)
  BY <1>2, <1>4, <1>7
<1>8. ASSUME NEW f \in Files, SelectLine(f)
      PROVE  Chosen(written'[o], selected', Due(o)', Room(o)')
  <2>1. /\ selected' = Append(selected, [of |-> f, rec |-> next[f] + 1]) /\ pc' = "write"
        /\ pc = "select" /\ i' = 1 /\ written' = written
    BY <1>8 DEF SelectLine
  <2>2. Due(o) = Len(selected) /\ Due(o)' = Len(selected)
    <3>1. Len(selected') = Len(selected) + 1
      BY <1>5, <2>1
    <3> QED
      BY <1>5, <2>1, <3>1, <1>2 DEF Due, Busy
  <2>3. \A l \in 1..Len(selected) : selected'[l] = selected[l]
    BY <1>5, <2>1
  <2> QED
    BY <1>2, <1>4, <1>5, <2>1, <2>2, <2>3, ChosenSame
<1>9. ASSUME NEW r \in Rings, SelectRecord(r) PROVE FALSE
  BY <1>2, <1>5, <1>9, CatAssumption DEF SelectRecord, OnlyFiles
<1>10. CASE \/ \E f \in Files : RemoveInput(f)
            \/ \E r \in Rings : Store(r) \/ Publish(r)
            \/ Assign \/ Copy \/ Exit \/ UNCHANGED vars
  <2>1. UNCHANGED <<written, selected>>
    BY <1>10 DEF RemoveInput, Store, Publish, Assign, Copy, Exit, vars, history
  <2>2. Due(o)' = Due(o)
    BY <1>10, <2>1 DEF RemoveInput, Store, Publish, Assign, Copy, Exit, vars, Due, Busy
  <2> QED
    BY <1>7, <2>1, <2>2
<1>11. CASE NoBuffer
  <2>1. /\ pc = "write" /\ NextOutput /\ UNCHANGED <<written, selected>>
        /\ i \notin Assigning /\ in_buff # NullBuffer /\ ~Fits(Content(in_buff))
    BY <1>11 DEF NoBuffer, history
  <2>2. CASE o = i
    <3>1. Due(o) = Len(selected) - 1 /\ Due(o)' = Len(selected)
      BY <1>2, <1>5, <2>1, <2>2 DEF Due, Busy, NextOutput
    <3>2. Content(in_buff) = selected[Len(selected)]
      BY <1>6, <2>1, CatAssumption DEF Busy, LineInFlight, Content
    <3>3. selected[Len(selected)] \notin Room(o)
      BY <2>1, <2>2, <3>2 DEF Room, HasRoom
    <3> DEFINE n == Len(selected) - 1
    <3>4. n \in Nat /\ Len(selected) = n + 1
      BY <1>5, <1>6, <2>1 DEF Busy
    <3>5. Chosen(written[o], selected, n + 1, Room(o))
      <4> HIDE DEF n
      <4> QED
        BY <1>4, <3>1, <3>3, <3>4, ChosenSkip DEF n
    <3> QED
      BY <1>2, <2>1, <3>1, <3>4, <3>5
  <2>3. CASE o # i
    <3>1. Due(o)' = Due(o)
      BY <1>2, <1>5, <2>1, <2>3 DEF Due, Busy, NextOutput
    <3> QED
      BY <1>7, <2>1, <3>1
  <2> QED
    BY <2>2, <2>3
<1>12. CASE EndWrite
  <2>1. /\ pc = "commit" /\ pc' = "end" /\ i' = i /\ UNCHANGED selected
        /\ written' = [written EXCEPT ![i] = Append(@, Out)] /\ Out \in Records
    BY <1>12, EndWriteType DEF EndWrite, history
  <2>2. CASE o = i
    <3>1. Due(o) = Len(selected) - 1 /\ Due(o)' = Len(selected)
      BY <1>2, <1>5, <2>1, <2>2 DEF Due, Busy
    <3>2. Out = selected[Len(selected)]
      BY <1>6, <2>1, CatAssumption DEF Busy, LineInFlight, Content, Out, CatInv, Handling
    <3>3. selected[Len(selected)] \in Room(o)
      BY <1>6, <2>1, <2>2 DEF Busy, LineInFlight, Room
    <3> DEFINE n == Len(selected) - 1
    <3>4. n \in Nat /\ Len(selected) = n + 1
      BY <1>5, <1>6, <2>1 DEF Busy
    <3>5. written'[o] = Append(written[o], Out) /\ written[o] \in Seq(Records)
      BY <1>2, <1>5, <2>1, <2>2
    <3>6. Chosen(Append(written[o], Out), selected, n + 1, Room(o))
      <4>1. Chosen(written[o], selected, n, Room(o))
        BY <1>4, <3>1
      <4> HIDE DEF n
      <4> QED
        BY <2>1, <3>2, <3>3, <3>4, <3>5, <4>1, ChosenMore
    <3> QED
      BY <1>2, <2>1, <3>1, <3>4, <3>5, <3>6
  <2>3. CASE o # i
    <3>1. Due(o)' = Due(o) /\ written'[o] = written[o]
      BY <1>2, <1>5, <2>1, <2>3 DEF Due, Busy
    <3> QED
      BY <1>2, <1>4, <2>1, <3>1
  <2> QED
    BY <2>2, <2>3
<1>13. CASE EndRead
  <2>1. pc = "end" /\ NextOutput /\ UNCHANGED <<written, selected>>
    BY <1>13 DEF EndRead
  <2>2. Due(o)' = Due(o)
    BY <1>2, <1>5, <2>1 DEF Due, Busy, NextOutput
  <2> QED
    BY <1>7, <2>1, <2>2
<1> QED
  BY <1>8, <1>9, <1>10, <1>11, <1>12, <1>13 DEF Next, Cat, Select, Write

(* Whatever the outputs and their order: between two records, what an      *)
(* output has written is the lines read that it has room for, in the order *)
(* in which they were read.  An output with no buffer for a line costs the *)
(* others nothing.                                                         *)
THEOREM OutputsComplete == Spec => []EveryOutputComplete
<1>1. Init => LineInFlight
  BY DEF Init, LineInFlight, Busy
<1>2. CatInv /\ Progress => EveryOutputComplete
  <2> SUFFICES ASSUME CatInv, Progress, pc = "select", OnlyFiles, NEW o \in 1..Outputs
               PROVE  WroteUpTo(o, Len(selected))
    BY DEF EveryOutputComplete
  <2>1. Chosen(written[o], selected, Len(selected), Room(o))
    BY DEF Progress, Due, Busy
  <2>2. selected \in Seq(Records)
    BY DEF CatInv, TypeOK
  <2>3. {l \in 1..Len(selected) : selected[l] \in Room(o)}
          = {l \in 1..Len(selected) : HasRoom(o, selected[l])}
    BY <2>2 DEF Room
  <2> QED
    BY <2>1, <2>3 DEF Chosen, WroteUpTo
<1> QED
  BY <1>1, <1>2, CatInvInit, CatInvStep, LineStep, ProgressInit, ProgressStep, PTL DEF Spec

-----------------------------------------------------------------------------
(* A ring: slot x holds a record that belongs there, the reader expects a  *)
(* record where it belongs, and the slot it reads only gets newer.         *)
Expecting ==
  \A r \in Rings :
    /\ \A x \in 0..(N - 1) :
         /\ slots[r][x] <= sync_count[r]
         /\ slots[r][x] > 0 => (slots[r][x] - 1) % N = x
    /\ sync_counter[r] >= 1 /\ (sync_counter[r] - 1) % N = index[r]
    /\ Busy /\ in = r =>
         /\ slots[r][index[r]] >= sync_counter[r]
         /\ selected[Len(selected)].rec = sync_counter[r]

(* The slots hold the last N stamps, and the payloads that belong to them; *)
(* only the slot next in turn may have its next payload already.           *)
Stored ==
  \A r \in Rings : \A x \in 0..(N - 1) :
    /\ slots[r][x] + N >= sync_count[r] + 1
    /\ slots[r][x] = 0 => x >= sync_count[r]
    /\ \/ payload[r][x] = slots[r][x]
       \/ x = NextSlot(r) /\ payload[r][x] = sync_count[r] + 1

(* What is on its way from a ring is the record expected, or one that has  *)
(* overwritten it.                                                         *)
NotOlder(rec) ==
  /\ rec.of = in
  /\ sync_counter[in] <= rec.rec /\ rec.rec <= payload[in][index[in]]
  /\ (rec.rec - 1) % N = index[in]

RecordInFlight ==
  (Busy /\ in \in Rings) =>
    /\ in_buff \in {NullBuffer, [of |-> in, at |-> index[in]]}
    /\ assigned \in {NullBuffer, [of |-> in, at |-> index[in]]}
    /\ copied # NullBuffer => NotOlder(copied)
    /\ pc = "end" => NotOlder(written[i][Len(written[i])])

(* What the last output has of each input.                                 *)
AcceptedOf(x) ==
  {accepted[Outputs][k].rec : k \in {l \in DOMAIN accepted[Outputs] :
                                       accepted[Outputs][l].of = x}}

Delivered ==
  /\ \A r \in Rings : \A n \in AcceptedOf(r) : n < sync_counter[r]
  /\ pc # "failed" => \A f \in streams \intersect Files :
       AcceptedOf(f) = 1..(next[f] - IF Busy /\ in = f THEN 1 ELSE 0)

(* A ring is read for one output only: end_read is called once per record. *)
OneReader == \A s \in Setups : s.inputs \subseteq Files \/ s.outputs = 1

(* The last output has room for every line.                                *)
LastTakesAll == \A s \in Setups : s.outputs \in s.assigning \/ Long \notin Lengths

LEMMA RingTypes ==
  ASSUME TypeOK, NEW r \in Rings
  PROVE  /\ index[r] \in 0..(N - 1) /\ slots[r] \in [0..(N - 1) -> 0..MaxWrites]
         /\ slots[r][index[r]] \in 0..MaxWrites /\ slots[r][index[r]] \in Nat
         /\ sync_count[r] \in 0..MaxWrites /\ sync_count[r] \in Nat
         /\ sync_counter[r] \in 0..(MaxWrites + 1) /\ sync_counter[r] \in Nat
         /\ \A x \in 0..(N - 1) : slots[r][x] \in Nat /\ payload[r][x] \in Nat
<1>1. /\ index[r] \in 0..(N - 1) /\ slots[r] \in [0..(N - 1) -> 0..MaxWrites]
      /\ sync_count[r] \in 0..MaxWrites /\ sync_counter[r] \in 0..(MaxWrites + 1)
  BY DEF TypeOK
<1>3. payload[r] \in [0..(N - 1) -> 0..MaxWrites]
  BY DEF TypeOK
<1>2. /\ slots[r][index[r]] \in 0..MaxWrites
      /\ \A x \in 0..(N - 1) : slots[r][x] \in 0..MaxWrites /\ payload[r][x] \in 0..MaxWrites
  BY <1>1, <1>3
<1> QED
  BY <1>1, <1>2, NumbersFacts

LEMMA RingAlone ==
  ASSUME OneReader, CatInv, Busy, in \in Rings
  PROVE  Outputs = 1 /\ i = 1 /\ in \notin Files
<1>1. in \in setup.inputs /\ in \notin Files /\ setup \in Setups /\ i \in 1..Outputs
  BY CatAssumption DEF CatInv, TypeOK, Handling
<1>2. Outputs = 1
  BY <1>1 DEF OneReader, Outputs
<1> QED
  BY <1>1, <1>2

LEMMA ExpectingInit == ASSUME Init PROVE Expecting
<1>1. (1 - 1) % N = 0
  <2>1. 0 \in 0..(N - 1) /\ 0 = N * 0 + 0
    BY NumbersFacts
  <2> QED
    BY <2>1, Remainder
<1>2. 0 \in 0..(N - 1)
  BY NumbersFacts
<1> QED
  BY <1>1, <1>2 DEF Init, Expecting, Busy

LEMMA ExpectingPublish ==
  ASSUME CatInv, Expecting, NEW q \in Rings, Publish(q)
  PROVE  Expecting'
<1> DEFINE c == sync_count[q]
<1>1. c \in Nat /\ c % N \in 0..(N - 1)
  BY RingTypes, Division DEF CatInv
<1>2. /\ sync_count' = [sync_count EXCEPT ![q] = c + 1]
      /\ slots' = [slots EXCEPT ![q] = [slots[q] EXCEPT ![c % N] = c + 1]]
      /\ UNCHANGED <<sync_counter, index, pc, in, selected>>
  BY DEF Publish, history, NextSlot
<1>3. /\ sync_count \in [Rings -> 0..MaxWrites]
      /\ slots \in [Rings -> [0..(N - 1) -> 0..MaxWrites]]
  BY DEF CatInv, TypeOK
<1> HIDE DEF c
<1>4. /\ sync_count'[q] = c + 1 /\ \A r \in Rings \ {q} : sync_count'[r] = sync_count[r]
      /\ \A r \in Rings \ {q} : slots'[r] = slots[r]
      /\ slots'[q] = [slots[q] EXCEPT ![c % N] = c + 1]
  BY <1>2, <1>3
<1>5. \A x \in 0..(N - 1) : slots'[q][x] = IF x = c % N THEN c + 1 ELSE slots[q][x]
  <2>1. slots[q] \in [0..(N - 1) -> 0..MaxWrites]
    BY <1>3
  <2> QED
    BY <1>4, <2>1
<1>6. \A x \in 0..(N - 1) :
        /\ slots'[q][x] <= c + 1
        /\ slots'[q][x] > 0 => (slots'[q][x] - 1) % N = x
        /\ slots'[q][x] >= slots[q][x]
  <2> SUFFICES ASSUME NEW x \in 0..(N - 1)
               PROVE  /\ slots'[q][x] <= c + 1
                      /\ slots'[q][x] > 0 => (slots'[q][x] - 1) % N = x
                      /\ slots'[q][x] >= slots[q][x]
    OBVIOUS
  <2>1. slots[q][x] \in Nat /\ slots[q][x] <= c
    BY RingTypes DEF Expecting, CatInv, c
  <2>2. slots[q][x] > 0 => (slots[q][x] - 1) % N = x
    BY DEF Expecting
  <2>3. CASE x = c % N
    <3>1. slots'[q][x] = c + 1 /\ (c + 1) - 1 = c
      BY <1>1, <1>5, <2>3
    <3> QED
      BY <1>1, <2>1, <2>3, <3>1
  <2>4. CASE x # c % N
    <3>1. slots'[q][x] = slots[q][x]
      BY <1>5, <2>4
    <3> QED
      BY <1>1, <2>1, <2>2, <3>1
  <2> QED
    BY <2>3, <2>4
<1>7. ASSUME Busy, in = q PROVE slots'[q][index[q]] >= sync_counter[q]
  <2>1. slots[q][index[q]] >= sync_counter[q] /\ index[q] \in 0..(N - 1)
    BY <1>7, RingTypes DEF Expecting, CatInv
  <2>2. slots'[q][index[q]] >= slots[q][index[q]]
    BY <1>6, <2>1
  <2>3. /\ slots[q][index[q]] \in Nat /\ sync_counter[q] \in Nat
        /\ slots'[q][index[q]] \in Int
    BY <1>1, <1>5, <2>1, RingTypes DEF CatInv
  <2> QED
    BY <2>1, <2>2, <2>3
<1> QED
  BY <1>2, <1>4, <1>6, <1>7 DEF Expecting, Busy

LEMMA ExpectingStep ==
  ASSUME OneReader, CatInv, Expecting, [Next]_vars
  PROVE  Expecting'
<1>1. CASE \E r \in Rings : Publish(r)
  BY <1>1, ExpectingPublish
<1>6. CASE \E r \in Rings : Store(r)
  BY <1>6 DEF Store, history, Expecting, Busy
<1>2. ASSUME NEW q \in Rings, SelectRecord(q) PROVE Expecting'
  <2> DEFINE stamp == slots[q][index[q]]
  <2>1. stamp \in Nat /\ stamp >= 1 /\ (stamp - 1) % N = index[q]
    BY <1>2, RingTypes DEF SelectRecord, Expecting, CatInv
  <2>2. /\ sync_counter' = [sync_counter EXCEPT ![q] = stamp] /\ in' = q
        /\ selected' = Append(selected, [of |-> q, rec |-> stamp])
        /\ UNCHANGED <<slots, sync_count, index>>
    BY <1>2 DEF SelectRecord
  <2>3. /\ sync_counter'[q] = stamp
        /\ \A r \in Rings \ {q} : sync_counter'[r] = sync_counter[r]
        /\ selected'[Len(selected')].rec = stamp
    BY <2>2 DEF CatInv, TypeOK
  <2> HIDE DEF stamp
  <2> QED
    BY <2>1, <2>2, <2>3 DEF Expecting, stamp
<1>3. CASE \/ \E f \in Files : SelectLine(f) \/ RemoveInput(f)
           \/ Exit
  <2>1. UNCHANGED <<slots, sync_count, index, sync_counter>>
    BY <1>3 DEF SelectLine, RemoveInput, Exit, inputs
  <2>2. in' \in Rings => pc' \notin {"write", "commit", "end"}
    BY <1>3, CatAssumption DEF SelectLine, RemoveInput, Exit
  <2> QED
    BY <2>1, <2>2 DEF Expecting, Busy
<1>4. CASE Assign \/ Copy \/ NoBuffer \/ EndWrite \/ UNCHANGED vars
  <2>1. UNCHANGED <<slots, sync_count, index, sync_counter, selected, in>>
    BY <1>4 DEF Assign, Copy, NoBuffer, EndWrite, vars, inputs, history
  <2>2. Busy' => Busy
    BY <1>4 DEF Assign, Copy, NoBuffer, EndWrite, vars, Busy
  <2> QED
    BY <2>1, <2>2 DEF Expecting
<1>5. CASE EndRead
  <2>1. UNCHANGED <<slots, sync_count, in, selected>> /\ pc = "end" /\ NextOutput
    BY <1>5 DEF EndRead
  <2>2. in \in Rings => pc' = "select"
    BY <2>1, RingAlone DEF Busy, NextOutput
  <2>3. CASE in \in Rings /\ Overrun(in)
    <3> DEFINE stamp == slots[in][index[in]]
    <3>1. /\ sync_counter' = [sync_counter EXCEPT ![in] = stamp] /\ UNCHANGED index
          /\ \A r \in Rings : sync_counter'[r] = IF r = in THEN stamp ELSE sync_counter[r]
      BY <1>5, <2>3 DEF EndRead, CatInv, TypeOK
    <3>2. stamp \in Nat /\ stamp >= 1
      BY <2>1, <2>3, RingTypes DEF Expecting, CatInv, Busy
    <3>3. (stamp - 1) % N = index[in]
      BY <2>3, <3>2, RingTypes DEF Expecting, CatInv
    <3> HIDE DEF stamp
    <3> QED
      BY <2>1, <2>2, <2>3, <3>1, <3>2, <3>3 DEF Expecting, Busy
  <2>4. CASE ~(in \in Rings /\ Overrun(in))
    <3>1. \A r \in Rings :
            /\ sync_counter'[r] = sync_counter[r] + (IF r = in THEN 1 ELSE 0)
            /\ index'[r] = IF r = in THEN (index[r] + 1) % N ELSE index[r]
      BY <1>5, <2>4 DEF EndRead
    <3>2. ASSUME NEW r \in Rings
          PROVE  sync_counter'[r] >= 1 /\ (sync_counter'[r] - 1) % N = index'[r]
      <4>1. /\ sync_counter[r] \in Nat /\ sync_counter[r] >= 1
            /\ (sync_counter[r] - 1) % N = index[r]
        BY RingTypes DEF Expecting, CatInv
      <4>2. CASE r = in
        <5>1. PICK a \in Nat : sync_counter[r] = a + 1
          BY <4>1
        <5>2. a % N = index[r] /\ (a + 1) % N = ((a % N) + 1) % N
          BY <4>1, <5>1, NextRemainder
        <5>3. sync_counter'[r] = (a + 1) + 1 /\ index'[r] = (index[r] + 1) % N
          BY <3>1, <4>2, <5>1
        <5> QED
          BY <5>2, <5>3
      <4>3. CASE r # in
        <5>1. sync_counter'[r] = sync_counter[r] /\ index'[r] = index[r]
          BY <3>1, <4>1, <4>3
        <5> QED
          BY <4>1, <5>1
      <4> QED
        BY <4>2, <4>3
    <3> QED
      BY <2>1, <2>2, <3>2 DEF Expecting, Busy
  <2> QED
    BY <2>3, <2>4
<1> QED
  BY <1>1, <1>2, <1>3, <1>4, <1>5, <1>6 DEF Next, Cat, Select, Write

(* Where a ring is read for one output, camio_cat reports an overrun only  *)
(* of the record it has just given to that output, and only when its       *)
(* writer is a whole turn of the ring ahead.                               *)
THEOREM OverrunsAreReal ==
  ASSUME OneReader
  PROVE  Spec => OverrunIsReal
<1>1. ASSUME CatInv, Expecting, NEW r \in Rings, EndRead, in = r, Overrun(r)
      PROVE  /\ selected[Len(selected)].rec = sync_counter[r]
             /\ sync_count[r] >= sync_counter[r] + N
  <2> DEFINE stamp == slots[r][index[r]]
  <2>1. /\ stamp \in Nat /\ sync_counter[r] \in Nat /\ sync_count[r] \in Nat
        /\ stamp # sync_counter[r] /\ index[r] \in 0..(N - 1)
    BY <1>1, RingTypes DEF Overrun, CatInv
  <2>2. /\ Busy /\ stamp >= sync_counter[r] /\ sync_counter[r] >= 1 /\ stamp <= sync_count[r]
        /\ selected[Len(selected)].rec = sync_counter[r]
        /\ (sync_counter[r] - 1) % N = index[r]
    BY <1>1, <2>1 DEF Expecting, EndRead, Busy
  <2>3. (stamp - 1) % N = index[r]
    BY <1>1, <2>1, <2>2 DEF Expecting
  <2> HIDE DEF stamp
  <2>4. stamp - 1 >= (sync_counter[r] - 1) + N
    BY <2>1, <2>2, <2>3, SameSlot
  <2> QED
    BY <2>1, <2>2, <2>4, NumbersFacts
<1>2. CatInv /\ Expecting =>
        [\A r \in Rings : (EndRead /\ in = r /\ Overrun(r)) =>
           /\ selected[Len(selected)].rec = sync_counter[r]
           /\ sync_count[r] >= sync_counter[r] + N]_vars
  BY <1>1
<1>3. Init => Expecting
  BY ExpectingInit
<1>4. CatInv /\ Expecting /\ [Next]_vars => Expecting'
  BY ExpectingStep
<1> QED
  BY <1>2, <1>3, <1>4, CatInvInit, CatInvStep, PTL DEF Spec, OverrunIsReal

-----------------------------------------------------------------------------
(* Stamps and payloads.                                                    *)

LEMMA StoredInit == ASSUME Init PROVE Stored
BY NumbersFacts DEF Init, Stored

LEMMA StoredPublish ==
  ASSUME CatInv, Expecting, Stored, NEW q \in Rings, Publish(q)
  PROVE  Stored'
<1>1. PICK c : c = sync_count[q]
  OBVIOUS
<1>2. PICK y : y = NextSlot(q)
  OBVIOUS
<1>3. c \in Nat /\ y \in 0..(N - 1) /\ y = c % N
  BY <1>1, <1>2, WriterFacts DEF CatInv
<1>4. /\ sync_count' = [sync_count EXCEPT ![q] = c + 1] /\ payload' = payload
      /\ slots' = [slots EXCEPT ![q] = [slots[q] EXCEPT ![y] = c + 1]]
      /\ payload[q][y] = c + 1
  BY <1>1, <1>2 DEF Publish
<1>5. /\ sync_count \in [Rings -> 0..MaxWrites]
      /\ slots \in [Rings -> [0..(N - 1) -> 0..MaxWrites]]
      /\ slots[q] \in [0..(N - 1) -> 0..MaxWrites]
  BY DEF CatInv, TypeOK
<1>6. ASSUME NEW r \in Rings, NEW x \in 0..(N - 1), r # q
      PROVE  UNCHANGED <<slots[r], sync_count[r], payload[r], NextSlot(r)>>
  BY <1>4, <1>5, <1>6 DEF NextSlot
<1>7. ASSUME NEW x \in 0..(N - 1)
      PROVE  /\ slots'[q][x] + N >= c + 2
             /\ slots'[q][x] = 0 => x >= c + 1
             /\ payload[q][x] = slots'[q][x]
  <2>1. slots'[q][x] = IF x = y THEN c + 1 ELSE slots[q][x]
    BY <1>4, <1>5
  <2>2. CASE x = y
    BY <1>3, <1>4, <2>1, <2>2, NumbersFacts
  <2>3. CASE x # y
    <3>1. /\ slots[q][x] + N >= c + 1 /\ (slots[q][x] = 0 => x >= c)
          /\ payload[q][x] = slots[q][x] /\ slots[q][x] \in Nat
          /\ slots[q][x] > 0 => (slots[q][x] - 1) % N = x
      BY <1>1, <1>2, <2>3, RingTypes DEF Stored, Expecting, CatInv
    <3>2. ASSUME slots[q][x] > 0, slots[q][x] + N = c + 1 PROVE FALSE
      <4>1. PICK a \in Nat : a = slots[q][x] - 1
        BY <3>1, <3>2
      <4>2. a % N = x /\ c = a + N
        BY <3>1, <3>2, <4>1, <1>3, NumbersFacts
      <4>3. /\ a \div N \in Int /\ a % N \in 0..(N - 1)
            /\ a = N * (a \div N) + (a % N)
        BY Division
      <4>4. PICK k \in Int : a = N * k + x
        BY <4>2, <4>3
      <4>5. c = N * (k + 1) + x
        BY <4>2, <4>4, NumbersFacts
      <4>6. k + 1 \in Int
        OBVIOUS
      <4>7. c % N = x
        BY <4>5, <4>6, <1>3, Remainder
      <4> QED
        BY <1>3, <2>3, <4>7
    <3>3. ASSUME x = c PROVE FALSE
      <4>1. c = N * 0 + x
        BY <1>3, <3>3, NumbersFacts
      <4>2. c % N = x
        BY <1>3, <4>1, Remainder
      <4> QED
        BY <1>3, <2>3, <4>2
    <3>4. slots[q][x] = 0 => slots[q][x] + N # c + 1
      BY <1>3, <3>1, <3>3, NumbersFacts
    <3>5. PICK v \in Nat : v = slots[q][x]
      BY <3>1
    <3>6. v + N >= c + 2 /\ (v = 0 => x >= c + 1)
      BY <1>3, <3>1, <3>2, <3>3, <3>4, <3>5, NumbersFacts
    <3> QED
      BY <2>1, <2>3, <3>1, <3>5, <3>6
  <2> QED
    BY <2>2, <2>3
<1>8. sync_count'[q] = c + 1 /\ c + 2 = (c + 1) + 1
  BY <1>3, <1>4, <1>5
<1>9. ASSUME NEW r \in Rings, NEW x \in 0..(N - 1)
      PROVE  /\ slots'[r][x] + N >= sync_count'[r] + 1
             /\ slots'[r][x] = 0 => x >= sync_count'[r]
             /\ \/ payload'[r][x] = slots'[r][x]
                \/ x = NextSlot(r)' /\ payload'[r][x] = sync_count'[r] + 1
  <2>1. CASE r = q
    BY <1>4, <1>7, <1>8, <2>1
  <2>2. CASE r # q
    BY <1>6, <2>2 DEF Stored
  <2> QED
    BY <2>1, <2>2
<1> QED
  BY <1>9 DEF Stored

LEMMA StoredStep ==
  ASSUME CatInv, Expecting, Stored, [Next]_vars
  PROVE  Stored'
<1>1. ASSUME NEW q \in Rings, Publish(q) PROVE Stored'
  BY <1>1, StoredPublish
<1>2. ASSUME NEW q \in Rings, Store(q) PROVE Stored'
  <2>1. /\ UNCHANGED <<slots, sync_count>>
        /\ payload' = [payload EXCEPT ![q] = [payload[q] EXCEPT ![NextSlot(q)] = sync_count[q] + 1]]
    BY <1>2 DEF Store
  <2>2. payload[q] \in [0..(N - 1) -> 0..MaxWrites] /\ payload \in [Rings -> [0..(N - 1) -> 0..MaxWrites]]
    BY DEF CatInv, TypeOK
  <2>3. \A r \in Rings, x \in 0..(N - 1) :
          payload'[r][x] = IF r = q /\ x = NextSlot(q) THEN sync_count[q] + 1 ELSE payload[r][x]
    BY <2>1, <2>2
  <2>4. \A r \in Rings : NextSlot(r)' = NextSlot(r)
    BY <2>1 DEF NextSlot
  <2> QED
    BY <2>1, <2>3, <2>4 DEF Stored
<1>3. CASE ~\E q \in Rings : Store(q) \/ Publish(q)
  <2>1. UNCHANGED <<slots, payload, sync_count>>
    BY <1>3 DEF Next, Cat, Select, Write, SelectLine, RemoveInput, SelectRecord, Assign, Copy,
       NoBuffer, EndWrite, EndRead, Exit, vars, inputs
  <2> QED
    BY <2>1 DEF Stored, NextSlot
<1> QED
  BY <1>1, <1>2, <1>3

(* The bytes in a slot are those its stamp says, or of the record a lap    *)
(* later.                                                                  *)
LEMMA PayloadOfSlot ==
  ASSUME CatInv, Expecting, Stored, NEW r \in Rings, NEW x \in 0..(N - 1), slots[r][x] > 0
  PROVE  /\ payload[r][x] \in {slots[r][x], slots[r][x] + N}
         /\ (payload[r][x] - 1) % N = x
<1>1. PICK c : c = sync_count[r]
  OBVIOUS
<1>2. PICK s : s = slots[r][x]
  OBVIOUS
<1>3. c \in Nat /\ s \in Nat /\ s > 0 /\ NextSlot(r) = c % N
  BY <1>1, <1>2, WriterFacts, RingTypes DEF CatInv
<1>4. s <= c /\ (s - 1) % N = x /\ s + N >= c + 1
  BY <1>1, <1>2 DEF Expecting, Stored
<1>5. CASE payload[r][x] = s
  BY <1>2, <1>4, <1>5
<1>6. CASE x = c % N /\ payload[r][x] = c + 1
  <2>1. PICK a \in Nat : s = a + 1
    BY <1>3
  <2>2. a % N = c % N /\ a < c
    BY <1>3, <1>4, <1>6, <2>1
  <2>3. c >= a + N
    BY <1>3, <2>2, SameSlot
  <2>4. c + 1 = s + N /\ (c + 1) - 1 = c
    BY <1>3, <1>4, <2>1, <2>3, NumbersFacts
  <2> QED
    BY <1>2, <1>6, <2>4
<1> QED
  BY <1>1, <1>2, <1>3, <1>5, <1>6 DEF Stored

-----------------------------------------------------------------------------
(* The refinement of Merge.                                                *)

LEMMA RecordStep ==
  ASSUME OneReader, CatInv, Expecting, Stored, RecordInFlight, [Next]_vars
  PROVE  RecordInFlight'
<1>0. in \in Inputs /\ Files \intersect Rings = {}
  BY CatAssumption DEF CatInv, TypeOK
<1>1. ASSUME NEW q \in Rings, Store(q) PROVE RecordInFlight'
  <2>1. /\ UNCHANGED <<index, sync_counter, in, pc, i, buffers, written>>
        /\ payload' = [payload EXCEPT ![q] = [payload[q] EXCEPT ![NextSlot(q)] = sync_count[q] + 1]]
        /\ payload[q][NextSlot(q)] # sync_count[q] + 1
        /\ NextSlot(q) \in 0..(N - 1) /\ sync_count[q] \in Nat
    BY <1>1, WriterFacts DEF Store, CatInv
  <2>2. ASSUME in \in Rings
        PROVE  /\ payload'[in][index[in]] \in Nat /\ payload[in][index[in]] \in Nat
               /\ payload'[in][index[in]] >= payload[in][index[in]]
    <3>1. /\ index[in] \in 0..(N - 1) /\ payload[in][index[in]] \in Nat
          /\ payload[q] \in [0..(N - 1) -> 0..MaxWrites]
          /\ payload \in [Rings -> [0..(N - 1) -> 0..MaxWrites]]
      BY <2>2, RingTypes DEF CatInv, TypeOK
    <3>2. CASE in = q /\ index[in] = NextSlot(q)
      <4>1. /\ payload[in][index[in]] = slots[in][index[in]]
            /\ slots[in][index[in]] <= sync_count[q]
        BY <2>1, <3>1, <3>2 DEF Stored, Expecting
      <4>2. payload'[in][index[in]] = sync_count[q] + 1
        BY <2>1, <3>1, <3>2
      <4> QED
        BY <2>1, <3>1, <4>1, <4>2
    <3>3. CASE ~(in = q /\ index[in] = NextSlot(q))
      <4>1. payload'[in][index[in]] = payload[in][index[in]]
        BY <2>1, <2>2, <3>1, <3>3
      <4> QED
        BY <3>1, <4>1
    <3> QED
      BY <3>2, <3>3
  <2>4. ASSUME NEW rec, in \in Rings, NotOlder(rec), rec \in Records
        PROVE  NotOlder(rec)'
    <3>1. rec.rec \in Nat
      BY <2>4, NumbersFacts DEF Records
    <3> QED
      BY <2>1, <2>2, <2>4, <3>1 DEF NotOlder
  <2>5. copied # NullBuffer => copied \in Records
    BY DEF CatInv, TypeOK
  <2>6. pc = "end" => written[i][Len(written[i])] \in Records
    <3>1. written[i] \in Seq(Records) /\ (pc = "end" => written[i] # <<>>)
      BY DEF CatInv, TypeOK, Handling
    <3> QED
      BY <3>1
  <2> QED
    BY <2>1, <2>4, <2>5, <2>6 DEF RecordInFlight, Busy, buffers, NotOlder
<1>10. ASSUME NEW q \in Rings, Publish(q) PROVE RecordInFlight'
  BY <1>10 DEF Publish, RecordInFlight, Busy, NotOlder, buffers
<1>2. ASSUME NEW q \in Rings, SelectRecord(q) PROVE RecordInFlight'
  <2>1. /\ in' = q /\ pc' = "write" /\ in_buff' = [of |-> q, at |-> index[q]]
        /\ UNCHANGED <<index, assigned, copied>> /\ assigned = NullBuffer /\ copied = NullBuffer
    BY <1>2 DEF SelectRecord, CatInv, Handling
  <2> QED
    BY <2>1 DEF RecordInFlight
<1>3. CASE \/ \E f \in Files : SelectLine(f) \/ RemoveInput(f)
           \/ Exit
  <2>1. in' \in Rings => pc' \notin {"write", "commit", "end"}
    BY <1>3, CatAssumption DEF SelectLine, RemoveInput, Exit
  <2> QED
    BY <2>1 DEF RecordInFlight, Busy
<1>4. ASSUME in \in Rings, Busy
      PROVE  /\ in_buff \in {NullBuffer, [of |-> in, at |-> index[in]]}
             /\ assigned \in {NullBuffer, [of |-> in, at |-> index[in]]}
             /\ copied # NullBuffer => NotOlder(copied)
             /\ pc = "end" => NotOlder(written[i][Len(written[i])])
             /\ NotOlder(Content([of |-> in, at |-> index[in]]))
  <2>1. /\ slots[in][index[in]] \in Nat /\ sync_counter[in] \in Nat
        /\ slots[in][index[in]] >= sync_counter[in] /\ sync_counter[in] >= 1
        /\ index[in] \in 0..(N - 1) /\ payload[in][index[in]] \in Nat
    BY <1>4, RingTypes DEF CatInv, Expecting
  <2>2. /\ payload[in][index[in]] \in {slots[in][index[in]], slots[in][index[in]] + N}
        /\ (payload[in][index[in]] - 1) % N = index[in]
    BY <1>4, <2>1, PayloadOfSlot
  <2>3. payload[in][index[in]] >= sync_counter[in]
    BY <2>1, <2>2, NumbersFacts
  <2>4. NotOlder(Content([of |-> in, at |-> index[in]]))
    BY <1>4, <2>1, <2>2, <2>3 DEF NotOlder, Content
  <2> QED
    BY <1>4, <2>4 DEF RecordInFlight
<1>5. CASE Assign
  BY <1>4, <1>5 DEF Assign, RecordInFlight, Busy, NotOlder, inputs, history
<1>6. CASE Copy
  BY <1>4, <1>6 DEF Copy, RecordInFlight, Busy, NotOlder, inputs, history
<1>7. CASE NoBuffer \/ EndRead
  <2>1. in' = in /\ NextOutput /\ Busy
    BY <1>7 DEF NoBuffer, EndRead, Busy
  <2>2. in \in Rings => pc' = "select"
    BY <2>1, RingAlone DEF NextOutput
  <2> QED
    BY <2>1, <2>2 DEF RecordInFlight, Busy
<1>8. CASE EndWrite
  <2>1. /\ pc = "commit" /\ written' = [written EXCEPT ![i] = Append(@, Out)]
        /\ Out \in Records /\ assigned' = NullBuffer /\ copied' = NullBuffer
        /\ UNCHANGED <<inputs, in, i, in_buff>>
    BY <1>8, EndWriteType DEF EndWrite
  <2>2. in \in Rings => NotOlder(Out)
    BY <1>4, <2>1 DEF Out, Busy, CatInv, Handling
  <2>3. written'[i][Len(written'[i])] = Out
    <3>1. written[i] \in Seq(Records) /\ written'[i] = Append(written[i], Out)
      BY <2>1 DEF CatInv, TypeOK
    <3> QED
      BY <2>1, <3>1
  <2> QED
    BY <1>4, <2>1, <2>2, <2>3 DEF RecordInFlight, Busy, NotOlder, inputs
<1>9. CASE UNCHANGED vars
  BY <1>9 DEF vars, inputs, buffers, RecordInFlight, Busy, NotOlder
<1> QED
  BY <1>1, <1>2, <1>3, <1>5, <1>6, <1>7, <1>8, <1>9, <1>10 DEF Next, Cat, Select, Write

(* The step that adds to what the last output has accepted.                *)
Accepts ==
  /\ EndRead /\ i = Outputs /\ ~(in \in Rings /\ Overrun(in))

LEMMA AcceptedRecord ==
  ASSUME CatInv, LineInFlight, Expecting, Stored, RecordInFlight, Accepts
  PROVE  /\ accepted'[Outputs] = Append(accepted[Outputs], Reading)
         /\ Reading \in Readings
         /\ Reading.of = in
         /\ Reading.rec = IF in \in Files THEN next[in] ELSE sync_counter[in]
         /\ Reading.data = Reading.rec
            \/ (in \notin Files /\ Reading.data = Reading.rec + N)
<1>1. /\ pc = "end" /\ accepted' = [accepted EXCEPT ![i] = Append(@, Reading)]
      /\ i = Outputs /\ Busy /\ in \in Inputs /\ i \in 1..Outputs
      /\ accepted \in [1..Outputs -> Seq(Readings)]
  BY DEF Accepts, EndRead, Busy, CatInv, TypeOK
<1>2. accepted'[Outputs] = Append(accepted[Outputs], Reading)
  BY <1>1
<1>3. PICK w : w = written[i][Len(written[i])]
  OBVIOUS
<1>4. /\ Reading.of = in /\ Reading.data = w.rec
      /\ Reading.rec = IF in \in Rings THEN sync_counter[in] ELSE next[in]
      /\ Reading = [of |-> in, rec |-> Reading.rec, data |-> w.rec]
  BY <1>3 DEF Reading, Last
<1>5. w \in Records /\ w.rec \in Numbers /\ w.rec \in Nat
  <2>1. written[i] \in Seq(Records) /\ written[i] # <<>>
    BY <1>1 DEF CatInv, TypeOK, Handling
  <2>2. w \in Records
    BY <1>3, <2>1
  <2> QED
    BY <2>2, NumbersFacts DEF Records
<1>6. CASE in \in Files
  <2>1. w = [of |-> in, rec |-> next[in]] /\ in \notin Rings
    BY <1>1, <1>3, <1>6, CatAssumption DEF LineInFlight
  <2> QED
    BY <1>1, <1>2, <1>4, <1>5, <1>6, <2>1 DEF Readings
<1>7. CASE in \in Rings
  <2>1. in \notin Files
    BY <1>7, CatAssumption
  <2> DEFINE n == sync_counter[in]
             p == payload[in][index[in]]
  <2>2. /\ NotOlder(w) /\ slots[in][index[in]] = n
        /\ n \in Nat /\ n >= 1 /\ (n - 1) % N = index[in] /\ index[in] \in 0..(N - 1)
        /\ n \in 0..MaxWrites
    BY <1>1, <1>3, <1>7, RingTypes DEF RecordInFlight, Accepts, Overrun, CatInv, Expecting
  <2>3. p \in {n, n + N}
    BY <1>7, <2>2, PayloadOfSlot
  <2>4. n <= w.rec /\ w.rec <= p /\ (w.rec - 1) % N = index[in]
    BY <2>2 DEF NotOlder
  <2>5. Reading.rec = n /\ n \in Numbers
    BY <1>4, <1>7, <2>2, NumbersFacts
  <2> HIDE DEF n, p
  <2>6. w.rec = n \/ w.rec = n + N
    <3>1. CASE n < w.rec
      <4>1. (n - 1) % N = (w.rec - 1) % N /\ n - 1 < w.rec - 1
        BY <1>5, <2>2, <2>4, <3>1
      <4>2. w.rec - 1 >= (n - 1) + N
        BY <1>5, <2>2, <4>1, SameSlot
      <4> QED
        BY <1>5, <2>2, <2>3, <2>4, <4>2, NumbersFacts
    <3> QED
      BY <1>5, <2>2, <2>4, <3>1
  <2>7. Reading \in Readings
    BY <1>1, <1>4, <1>5, <2>5 DEF Readings
  <2> QED
    BY <1>2, <1>4, <1>7, <2>1, <2>6, <2>7 DEF n
<1> QED
  BY <1>1, <1>6, <1>7 DEF Inputs

LEMMA AcceptedKept ==
  ASSUME CatInv, [Next]_vars, ~Accepts
  PROVE  accepted'[Outputs] = accepted[Outputs]
<1>1. accepted \in [1..Outputs -> Seq(Readings)] /\ i \in 1..Outputs /\ Outputs \in 1..Outputs
  BY SetupFacts DEF CatInv, TypeOK
<1>2. CASE EndRead
  BY <1>1, <1>2 DEF EndRead, Accepts
<1>3. CASE ~EndRead
  <2>1. UNCHANGED accepted
    BY <1>3 DEF Next, Cat, Select, Write, Store, Publish, SelectLine, RemoveInput, SelectRecord,
       Assign, Copy, NoBuffer, EndWrite, Exit, vars, history
  <2> QED
    BY <2>1
<1> QED
  BY <1>2, <1>3

LEMMA SetupKept ==
  ASSUME [Next]_vars
  PROVE  UNCHANGED <<setup, lines>> /\ Outputs' = Outputs
BY DEF Next, Cat, Select, Write, Store, Publish, SelectLine, RemoveInput, SelectRecord, Assign,
   Copy, NoBuffer, EndWrite, EndRead, Exit, vars, inputs, Outputs

RecordsOf(s, x) == {s[k].rec : k \in {l \in DOMAIN s : s[l].of = x}}

WithRecord(R, rec, x) == R \union (IF rec.of = x THEN {rec.rec} ELSE {})

LEMMA RecordsOfAppended ==
  ASSUME NEW s \in Seq(Readings), NEW rec \in Readings, NEW x,
         NEW t, t = Append(s, rec)
  PROVE  RecordsOf(t, x) = WithRecord(RecordsOf(s, x), rec, x)
<1>1. /\ Len(s) \in Nat /\ DOMAIN s = 1..Len(s) /\ DOMAIN t = 1..(Len(s) + 1)
      /\ \A k \in DOMAIN s : t[k] = s[k]
      /\ t[Len(s) + 1] = rec
  OBVIOUS
<1>2. /\ \A k \in DOMAIN s : k \in DOMAIN t
      /\ Len(s) + 1 \in DOMAIN t
      /\ \A k \in DOMAIN t : k \in DOMAIN s \/ k = Len(s) + 1
  BY <1>1
<1> QED
  BY <1>1, <1>2 DEF RecordsOf, WithRecord

(* What the last output has accepted grows by the record on its way, or    *)
(* not at all.                                                             *)
LEMMA AcceptedGrows ==
  ASSUME CatInv, LineInFlight, Expecting, Stored, RecordInFlight, [Next]_vars, NEW x
  PROVE  AcceptedOf(x)' =
           AcceptedOf(x) \union
             (IF Accepts /\ in = x
              THEN {IF in \in Files THEN next[in] ELSE sync_counter[in]} ELSE {})
<1>1. Outputs' = Outputs
  BY SetupKept
<1>2. CASE ~Accepts
  BY <1>1, <1>2, AcceptedKept DEF AcceptedOf
<1>3. CASE Accepts
  <2>1. PICK rec : rec = Reading
    OBVIOUS
  <2>2. /\ accepted'[Outputs] = Append(accepted[Outputs], rec) /\ rec \in Readings
        /\ rec.of = in /\ rec.rec = IF in \in Files THEN next[in] ELSE sync_counter[in]
    BY <1>3, <2>1, AcceptedRecord
  <2>3. PICK s, t : s = accepted[Outputs] /\ t = accepted'[Outputs]
    OBVIOUS
  <2>4. s \in Seq(Readings) /\ t = Append(s, rec)
    BY <2>2, <2>3, SetupFacts DEF CatInv, TypeOK
  <2>5. RecordsOf(t, x) = WithRecord(RecordsOf(s, x), rec, x)
    BY <2>2, <2>4, RecordsOfAppended
  <2>6. AcceptedOf(x) = RecordsOf(s, x)
    BY <2>3 DEF AcceptedOf, RecordsOf
  <2>7. AcceptedOf(x)' = RecordsOf(t, x)
    BY <1>1, <2>3 DEF AcceptedOf, RecordsOf
  <2> QED
    BY <1>3, <2>2, <2>5, <2>6, <2>7 DEF WithRecord
<1> QED
  BY <1>2, <1>3

LEMMA DeliveredStep ==
  ASSUME OneReader, LastTakesAll, CatInv, LineInFlight, Expecting, Stored, RecordInFlight,
         Delivered, [Next]_vars
  PROVE  Delivered'
<1>0. in \in Inputs /\ Files \intersect Rings = {} /\ i \in 1..Outputs /\ Outputs \in Nat
      /\ streams \subseteq setup.inputs /\ setup \in Setups
  BY CatAssumption, SetupFacts DEF CatInv, TypeOK, Handling
<1>1. ASSUME NEW r \in Rings, NEW n \in AcceptedOf(r)' PROVE n < sync_counter'[r]
  <2>1. CASE n \in AcceptedOf(r)
    <3>1. n < sync_counter[r] /\ n \in Nat /\ sync_counter[r] \in Nat
      <4>1. accepted[Outputs] \in Seq(Readings)
        BY <1>0, SetupFacts DEF CatInv, TypeOK
      <4>2. PICK k \in DOMAIN accepted[Outputs] : n = accepted[Outputs][k].rec
        BY <2>1 DEF AcceptedOf
      <4>3. accepted[Outputs][k] \in Readings
        BY <4>1
      <4>4. n \in Nat
        BY <4>2, <4>3, NumbersFacts DEF Readings
      <4> QED
        BY <2>1, <4>4, RingTypes DEF Delivered, CatInv
    <3>2. sync_counter'[r] >= sync_counter[r] /\ sync_counter'[r] \in Nat
      <4>1. CASE \E q \in Rings : SelectRecord(q)
        <5>1. PICK q \in Rings : SelectRecord(q)
          BY <4>1
        <5>2. slots[q][index[q]] \in Nat /\ slots[q][index[q]] >= sync_counter[q]
          BY <5>1, RingTypes DEF SelectRecord, CatInv
        <5>3. sync_counter'[r] = IF r = q THEN slots[q][index[q]] ELSE sync_counter[r]
          BY <5>1 DEF SelectRecord, CatInv, TypeOK
        <5> QED
          BY <3>1, <5>2, <5>3
      <4>2. CASE EndRead
        <5>1. sync_counter'[r] \in {sync_counter[r], sync_counter[r] + 1, slots[r][index[r]]}
          BY <3>1, <4>2 DEF EndRead, CatInv, TypeOK
        <5>2. r # in => sync_counter'[r] = sync_counter[r]
          BY <3>1, <4>2 DEF EndRead, CatInv, TypeOK
        <5>3. r = in => slots[r][index[r]] >= sync_counter[r]
          BY <4>2 DEF EndRead, Expecting, Busy
        <5>4. slots[r][index[r]] \in Nat
          BY RingTypes DEF CatInv
        <5> QED
          BY <3>1, <5>1, <5>2, <5>3, <5>4
      <4>3. CASE ~EndRead /\ ~\E q \in Rings : SelectRecord(q)
        <5>1. UNCHANGED sync_counter
          BY <4>3 DEF Next, Cat, Select, Write, Store, Publish, SelectLine, RemoveInput,
             Assign, Copy, NoBuffer, EndWrite, Exit, vars, inputs
        <5> QED
          BY <3>1, <5>1
      <4> QED
        BY <4>1, <4>2, <4>3
    <3> QED
      BY <3>1, <3>2
  <2>2. CASE n \notin AcceptedOf(r)
    <3>1. Accepts /\ in = r /\ n = sync_counter[r]
      BY <1>0, <1>1, <2>2, AcceptedGrows
    <3>2. sync_counter'[r] = sync_counter[r] + 1 /\ sync_counter[r] \in Nat
      BY <3>1, RingTypes DEF Accepts, EndRead, CatInv
    <3> QED
      BY <3>1, <3>2
  <2> QED
    BY <2>1, <2>2
<1>2. ASSUME pc' # "failed", NEW f \in streams' \intersect Files
      PROVE  AcceptedOf(f)' = 1..(next'[f] - IF Busy' /\ in' = f THEN 1 ELSE 0)
  <2>1. streams' \subseteq streams
    BY DEF Next, Cat, Select, Write, Store, Publish, SelectLine, RemoveInput, SelectRecord, Assign,
       Copy, NoBuffer, EndWrite, EndRead, Exit, vars
  <2>2. pc # "failed"
    BY <1>2 DEF Next, Cat, Select, Write, Store, Publish, SelectLine, RemoveInput, SelectRecord, Assign,
       Copy, NoBuffer, EndWrite, EndRead, Exit, vars
  <2>3. /\ AcceptedOf(f) = 1..(next[f] - IF Busy /\ in = f THEN 1 ELSE 0)
        /\ f \in streams /\ f \in Files /\ f \notin Rings /\ next[f] \in Nat
    BY <1>0, <1>2, <2>1, <2>2, LineLength DEF Delivered, CatInv
  <2>4. AcceptedOf(f)' = AcceptedOf(f) \union (IF Accepts /\ in = f THEN {next[f]} ELSE {})
    BY <2>3, AcceptedGrows
  <2>5. ASSUME NEW g \in Files, SelectLine(g)
        PROVE  AcceptedOf(f)' = 1..(next'[f] - IF Busy' /\ in' = f THEN 1 ELSE 0)
    <3>1. /\ pc = "select" /\ pc' = "write" /\ in' = g /\ ~Accepts /\ next' = [next EXCEPT ![g] = @ + 1]
      BY <2>5 DEF SelectLine, Accepts, EndRead
    <3>2. next'[f] = IF g = f THEN next[f] + 1 ELSE next[f]
      BY <2>3, <3>1 DEF CatInv, TypeOK
    <3> QED
      BY <2>3, <2>4, <3>1, <3>2 DEF Busy
  <2>6. ASSUME NEW g \in Files, RemoveInput(g)
        PROVE  AcceptedOf(f)' = 1..(next'[f] - IF Busy' /\ in' = f THEN 1 ELSE 0)
    <3>1. /\ pc = "select" /\ pc' = "select" /\ ~Accepts /\ f # g
          /\ next' = [next EXCEPT ![g] = IF @ < Len(lines[g]) THEN @ + 1 ELSE @]
      BY <1>2, <2>6 DEF RemoveInput, Accepts, EndRead
    <3>2. next'[f] = next[f]
      BY <2>3, <3>1 DEF CatInv, TypeOK
    <3> QED
      BY <2>3, <2>4, <3>1, <3>2 DEF Busy
  <2>7. ASSUME NEW q \in Rings, SelectRecord(q)
        PROVE  AcceptedOf(f)' = 1..(next'[f] - IF Busy' /\ in' = f THEN 1 ELSE 0)
    <3>1. /\ pc = "select" /\ pc' = "write" /\ in' = q /\ ~Accepts /\ next' = next
      BY <2>7 DEF SelectRecord, Accepts, EndRead
    <3> QED
      BY <2>3, <2>4, <3>1 DEF Busy
  <2>8. CASE NoBuffer
    <3>1. /\ UNCHANGED <<next, in>> /\ pc = "write" /\ NextOutput /\ ~Accepts
          /\ i \notin Assigning /\ in_buff # NullBuffer /\ ~Fits(Content(in_buff))
      BY <2>8 DEF NoBuffer, Accepts, EndRead, inputs
    <3>2. in = f => i # Outputs
      <4> SUFFICES ASSUME in = f, i = Outputs PROVE FALSE
        OBVIOUS
      <4>1. /\ in_buff = [of |-> f, at |-> next[f]] /\ next[f] >= 1
        BY <2>3, <3>1 DEF LineInFlight, Busy
      <4>2. Content(in_buff) = [of |-> f, rec |-> next[f]]
        BY <2>3, <4>1 DEF Content
      <4>3. lines[f][next[f]] = Long
        BY <2>3, <3>1, <4>2 DEF Fits
      <4>4. lines[f][next[f]] \in Lengths
        BY <2>3, <4>1, LineLength DEF CatInv
      <4>5. Outputs \in Assigning
        BY <1>0, <4>3, <4>4 DEF LastTakesAll, Outputs, Assigning
      <4> QED
        BY <3>1, <4>5
    <3>3. (Busy' /\ in' = f) <=> (Busy /\ in = f)
      BY <1>0, <3>1, <3>2 DEF NextOutput, Busy
    <3> QED
      BY <2>3, <2>4, <3>1, <3>3
  <2>9. CASE EndRead
    <3>1. UNCHANGED <<next, in>> /\ pc = "end" /\ NextOutput
      BY <2>9 DEF EndRead
    <3>2. CASE in = f /\ i = Outputs
      <4>1. Accepts /\ pc' = "select" /\ next[f] >= 1
        BY <2>3, <2>9, <3>1, <3>2, <1>0 DEF Accepts, NextOutput, LineInFlight, Busy
      <4>2. AcceptedOf(f)' = 1..(next[f] - 1) \union {next[f]}
        BY <2>3, <2>4, <3>1, <3>2, <4>1 DEF Busy
      <4>3. 1..(next[f] - 1) \union {next[f]} = 1..next[f]
        BY <2>3, <4>1
      <4> QED
        BY <2>3, <3>1, <4>1, <4>2, <4>3 DEF Busy
    <3>3. CASE in # f \/ i # Outputs
      <4>1. ~(Accepts /\ in = f) /\ ((Busy' /\ in' = f) <=> (Busy /\ in = f))
        BY <1>0, <3>1, <3>3 DEF Accepts, NextOutput, Busy
      <4> QED
        BY <2>3, <2>4, <3>1, <4>1
    <3> QED
      BY <3>2, <3>3
  <2>10. CASE Assign \/ Copy \/ EndWrite \/ Exit \/ (\E q \in Rings : Store(q) \/ Publish(q)) \/ UNCHANGED vars
    <3>1. UNCHANGED <<next, in>> /\ Busy' = Busy
      BY <1>2, <2>10 DEF Assign, Copy, EndWrite, Exit, Store, Publish, vars, inputs, Busy
    <3>2. AcceptedOf(f)' = AcceptedOf(f)
      <4>1. UNCHANGED accepted
        BY <2>10 DEF Assign, Copy, EndWrite, Exit, Store, Publish, vars, history
      <4> QED
        BY <4>1, SetupKept DEF AcceptedOf
    <3> QED
      BY <2>3, <3>1, <3>2
  <2> QED
    BY <2>5, <2>6, <2>7, <2>8, <2>9, <2>10 DEF Next, Cat, Select, Write
<1> QED
  BY <1>1, <1>2 DEF Delivered

(* A step of camio_cat is a step of Merge, or leaves its output as it is.  *)
LEMMA MergeStep ==
  ASSUME CatInv, LineInFlight, Expecting, Stored, RecordInFlight, Delivered, [Next]_vars
  PROVE  [Merged!Next]_(accepted[Outputs])
<1>1. (accepted[Outputs])' = accepted'[Outputs]
  BY SetupKept
<1>2. CASE ~Accepts
  BY <1>1, <1>2, AcceptedKept
<1>3. CASE Accepts
  <2> DEFINE M == IF MaxLines > MaxWrites THEN MaxLines ELSE MaxWrites
  <2>1. PICK n, d : n = Reading.rec /\ d = Reading.data
    OBVIOUS
  <2>2. /\ accepted'[Outputs] = Append(accepted[Outputs], [of |-> in, rec |-> n, data |-> d])
        /\ n \in Numbers /\ d \in Numbers /\ n \in Nat /\ d \in Nat
        /\ n = IF in \in Files THEN next[in] ELSE sync_counter[in]
        /\ d = n \/ (in \notin Files /\ d = n + N)
    <3>1. Reading = [of |-> in, rec |-> n, data |-> d]
      BY <2>1 DEF Reading
    <3>2. n \in Numbers /\ d \in Numbers
      BY <1>3, <2>1, AcceptedRecord DEF Readings
    <3> QED
      BY <1>3, <2>1, <3>1, <3>2, AcceptedRecord, NumbersFacts
  <2>3. in \in Inputs /\ in \in streams /\ Busy /\ pc # "failed"
    BY <1>3 DEF Accepts, EndRead, Busy, CatInv, TypeOK, Handling
  <2>4. Merged!Taken(in) = AcceptedOf(in)
    BY DEF Merged!Taken, AcceptedOf
  <2>5. n >= 1 /\ (\A m \in AcceptedOf(in) : m < n)
        /\ (in \in Files => n = 1 \/ n - 1 \in AcceptedOf(in))
    <3>1. CASE in \in Files
      <4>1. AcceptedOf(in) = 1..(n - 1) /\ n >= 1
        BY <2>2, <2>3, <3>1 DEF Delivered, LineInFlight
      <4> QED
        BY <2>2, <4>1
    <3>2. CASE in \in Rings
      <4>1. in \notin Files /\ n = sync_counter[in]
        BY <2>2, <3>2, CatAssumption
      <4> QED
        BY <3>2, <4>1 DEF Delivered, Expecting
    <3> QED
      BY <2>3, <3>1, <3>2 DEF Inputs
  <2>6. n \in 1..M /\ d \in 1..M
    BY <2>2, <2>5, NumbersFacts DEF Numbers
  <2>7. Merged!Append1(in, n, d)
    BY <1>1, <2>2, <2>4, <2>5 DEF Merged!Append1
  <2> HIDE DEF M
  <2>8. Merged!Next
    BY <2>3, <2>6, <2>7 DEF Merged!Next, M
  <2> QED
    BY <2>8
<1> QED
  BY <1>2, <1>3

(* camio_cat merges its inputs: what the last output has of them, where no *)
(* overrun was reported, is an interleaving of the inputs, with every line *)
(* of a file in its place, whatever the writers of the rings store, and    *)
(* however far, under the hands of the loop.  In the place of a record of  *)
(* a ring it has that record, or the one a lap later.  It takes that a     *)
(* ring is read for one output only and that the last output has room for  *)
(* every line.                                                             *)
THEOREM CatRefinesMerge ==
  ASSUME OneReader, LastTakesAll
  PROVE  Spec => MergesInputs
<1> DEFINE Inv == CatInv /\ LineInFlight /\ Expecting /\ Stored /\ RecordInFlight /\ Delivered
<1>1. Init => Merged!Init
  <2> SUFFICES ASSUME Init PROVE accepted[Outputs] = <<>>
    BY DEF Merged!Init
  <2>1. Outputs \in 1..Outputs
    BY SetupFacts DEF Init
  <2> QED
    BY <2>1 DEF Init
<1>2. Init => Inv
  <2> SUFFICES ASSUME Init PROVE LineInFlight /\ RecordInFlight /\ Delivered
    BY CatInvInit, ExpectingInit, StoredInit
  <2>1. LineInFlight /\ RecordInFlight
    BY DEF Init, LineInFlight, RecordInFlight, Busy
  <2>2. accepted[Outputs] = <<>>
    BY SetupFacts DEF Init
  <2>3. \A x : AcceptedOf(x) = {}
    BY <2>2 DEF AcceptedOf
  <2>4. \A f \in Files : 1..(next[f] - IF Busy /\ in = f THEN 1 ELSE 0) = {}
    BY DEF Init, Busy
  <2> QED
    BY <2>1, <2>3, <2>4 DEF Delivered
<1>3. Inv /\ [Next]_vars => Inv'
  BY CatInvStep, LineStep, ExpectingStep, StoredStep, RecordStep, DeliveredStep
<1>4. Inv /\ [Next]_vars => [Merged!Next]_(accepted[Outputs])
  BY MergeStep
<1> QED
  BY <1>1, <1>2, <1>3, <1>4, PTL DEF Spec, MergesInputs, Merged!Spec

=============================================================================
