---------------------------- MODULE OstreamProofs ----------------------------
(***************************************************************************)
(* Proofs about the ostreams that write to a descriptor (Ostream), for     *)
(* every length, number of writes, buffer size and width of size_t, and    *)
(* about those that put frames into a netmap (Netmap), for rings of every  *)
(* size, any number of transmit rings and any number of frames.            *)
(***************************************************************************)
EXTENDS Ostream, Netmap, WellFoundedInduction, TLAPS

(***************************************************************************)
(* The ostreams that write to a descriptor.                                *)
(***************************************************************************)

(* A set of natural numbers that is not empty has a least one.             *)
LEMMA MinOf ==
  ASSUME NEW S, S \subseteq Nat, S # {}
  PROVE  Min(S) \in S /\ \A x \in S : Min(S) <= x
<1>1. PICK m \in S : \A y \in S : ~ (<<y, m>> \in OpToRel(<, Nat))
  BY NatLessThanWellFounded, WFMin
<1>2. \A y \in S : m <= y
  <2> SUFFICES ASSUME NEW y \in S, y < m PROVE FALSE
    OBVIOUS
  <2>1. <<y, m>> \in OpToRel(<, Nat)
    BY DEF OpToRel
  <2> QED
    BY <1>1, <2>1
<1> QED
  BY <1>1, <1>2 DEF Min

(* A set of natural numbers that is bounded and not empty has a largest.   *)
LEMMA MaxOf ==
  ASSUME NEW n \in Nat, NEW S, S \subseteq 0..n, S # {}
  PROVE  Max(S) \in S /\ \A x \in S : x <= Max(S)
<1> DEFINE T == {n - x : x \in S}
<1>1. \A x \in S : x \in 0..n /\ n - x \in Nat
  <2> SUFFICES ASSUME NEW x \in S PROVE x \in 0..n /\ n - x \in Nat
    OBVIOUS
  <2>1. x \in 0..n
    OBVIOUS
  <2> QED
    BY <2>1
<1>5. T \subseteq Nat /\ T # {}
  BY <1>1
<1>2. Min(T) \in T /\ \A y \in T : Min(T) <= y
  <2> HIDE DEF T
  <2> QED
    BY <1>5, MinOf
<1>3. PICK m \in S : Min(T) = n - m
  BY <1>2
<1>4. \A x \in S : x <= m
  <2> SUFFICES ASSUME NEW x \in S PROVE x <= m
    OBVIOUS
  <2>1. Min(T) <= n - x
    BY <1>2
  <2>2. n - m <= n - x /\ x \in 0..n /\ m \in 0..n
    BY <1>1, <1>3, <2>1
  <2> QED
    BY <2>2
<1> QED
  BY <1>3, <1>4 DEF Max

LEMMA MinOfTwo ==
  ASSUME NEW a \in Int, NEW b \in Int
  PROVE  Min({a, b}) = IF a <= b THEN a ELSE b
BY DEF Min

LEMMA MaxOfTwo ==
  ASSUME NEW a \in Int, NEW b \in Int
  PROVE  Max({a, b}) = IF a <= b THEN b ELSE a
BY DEF Max

-----------------------------------------------------------------------------

(* What is left over of a call is as the phase of the write wants it.      *)
Phases ==
  /\ pc \in {"idle", "filled", "closed"} => len = 0 /\ done = 0
  /\ pc \in {"filled", "writing"} => writes \in 1..MaxWrites

StreamInv == OstreamInv /\ Phases

-----------------------------------------------------------------------------
(* What end_write is to put out is made of items.                          *)
LEMMA TextItems ==
  ASSUME NEW w \in 1..MaxWrites, NEW a \in 1..(MaxLen + 1), NEW b \in 0..(MaxLen + 1),
         NEW l \in 0..MaxLen
  PROVE  Text(w, a, b, l) \in Seq(Items)
<1> DEFINE n == IF b - a + 1 <= 0 THEN 0 ELSE b - a + 1
<1>1. Max({0, b - a + 1}) = n
  <2>1. b - a + 1 \in Int /\ 0 \in Int
    BY OstreamAssumption
  <2>2. Max({0, b - a + 1}) = IF 0 <= b - a + 1 THEN b - a + 1 ELSE 0
    BY <2>1, MaxOfTwo
  <2> QED
    BY <2>1, <2>2
<1>2. n \in Nat
  BY OstreamAssumption
<1>3. ASSUME NEW k \in 1..n PROVE Item(w, a + k - 1, Form(a + k - 1, l)) \in Items
  <2>1. a + k - 1 \in 1..(MaxLen + 1)
    BY <1>3, OstreamAssumption
  <2>2. Form(a + k - 1, l) \in Forms
    BY DEF Form, Forms
  <2> QED
    BY <2>1, <2>2 DEF Item, Items
<1>4. Text(w, a, b, l) = [k \in 1..n |-> Item(w, a + k - 1, Form(a + k - 1, l))]
  BY <1>1 DEF Text
<1> HIDE DEF n
<1> QED
  BY <1>2, <1>3, <1>4

LEMMA CommittedItems ==
  ASSUME TypeOK, writes \in 1..MaxWrites, NEW l \in 0..MaxLen
  PROVE  CommittedFrom(1, l) \in Seq(Items)
<1>1. 1 \in 1..(MaxLen + 1) /\ l \in 0..(MaxLen + 1) /\ l + 1 \in 0..(MaxLen + 1)
  BY OstreamAssumption
<1> QED
  BY <1>1, TextItems DEF CommittedFrom

-----------------------------------------------------------------------------
(* The next system call begins after what is done and stays in the write.  *)
LEMMA Given ==
  ASSUME StreamInv, pc = "writing", done < End
  PROVE  /\ len \in 0..MaxLen /\ done \in Nat /\ write_size \in Nat /\ write_size > 0
         /\ From \in 1..(MaxLen + 1) /\ To \in 0..(MaxLen + 1) /\ From > done
         /\ To >= done
         /\ kind = "blob" => From = done + 1 /\ To <= len
         /\ Source = writes /\ writes \in 1..MaxWrites
<1>1. /\ len \in 0..MaxLen /\ done \in Nat /\ write_size \in Nat /\ write_size > 0
      /\ MaxLen \in Nat /\ Source = writes /\ writes \in 1..MaxWrites
      /\ unprintable \subseteq 1..MaxLen
  BY OstreamAssumption DEF StreamInv, OstreamInv, TypeOK, Phases
<1>2. done < len + 1 /\ (kind \notin Lines => done < len)
  BY <1>1 DEF End, Lines
<1>3. From \in 1..(MaxLen + 1) /\ From > done
  BY <1>1, <1>2 DEF From
<1>4. To \in 0..(MaxLen + 1) /\ To >= done
  <2>1. CASE kind = "log"
    BY <1>1, <1>2, <2>1 DEF To
  <2>2. CASE kind = "escape"
    <3>1. CASE ToEscape = {}
      BY <1>1, <1>2, <2>2, <3>1 DEF To
    <3>2. CASE ToEscape # {}
      <4>1. ToEscape \subseteq Nat /\ \A x \in ToEscape : done < x /\ x <= len
        <5>1. ToEscape \subseteq unprintable /\ unprintable \subseteq Nat
          BY <1>1 DEF ToEscape
        <5>2. \A x \in ToEscape : done < x /\ x <= len
          BY DEF ToEscape
        <5> QED
          BY <5>1, <5>2
      <4>2. Min(ToEscape) \in ToEscape
        BY <3>2, <4>1, MinOf
      <4>3. Min(ToEscape) \in Nat /\ done < Min(ToEscape) /\ Min(ToEscape) <= len
        BY <4>1, <4>2
      <4> QED
        BY <1>1, <1>2, <2>2, <3>2, <4>1, <4>3 DEF To
    <3> QED
      BY <3>1, <3>2
  <2>3. CASE kind = "blob"
    <3>1. len - done \in Int /\ write_size \in Int
      BY <1>1
    <3>2. Min({len - done, write_size}) = IF len - done <= write_size THEN len - done ELSE write_size
      BY <3>1, MinOfTwo
    <3>3. To = done + Min({len - done, write_size})
      BY <2>3 DEF To
    <3>4. kind \notin Lines
      BY <2>3 DEF Lines
    <3> QED
      BY <1>1, <1>2, <3>2, <3>3, <3>4
  <2>4. CASE kind \in Sockets
    BY <1>1, <1>2, <2>4 DEF To, Sockets, Lines
  <2> QED
    BY <2>1, <2>2, <2>3, <2>4, OstreamAssumption DEF StreamInv, OstreamInv, TypeOK, Sockets
<1>5. kind = "blob" => From = done + 1 /\ To <= len
  <2> SUFFICES ASSUME kind = "blob" PROVE From = done + 1 /\ To <= len
    OBVIOUS
  <2>1. len - done \in Int /\ write_size \in Int
    BY <1>1
  <2>2. Min({len - done, write_size}) = IF len - done <= write_size THEN len - done ELSE write_size
    BY <2>1, MinOfTwo
  <2> QED
    BY <1>1, <2>2 DEF To, From
<1> QED
  BY <1>1, <1>3, <1>4, <1>5

(* What a call puts out are items of the write in progress, in order.      *)
LEMMA SentItems ==
  ASSUME StreamInv, pc = "writing", done < End, NEW n \in 1..(To - From + 1)
  PROVE  /\ Sent(n) \in Seq(Items) /\ Len(Sent(n)) = n
         /\ n \in Nat /\ n >= 1 /\ From + n - 1 <= To
         /\ \A k \in 1..n : Sent(n)[k].w = writes /\ Sent(n)[k].p = From + k - 1
<1>1. /\ From \in 1..(MaxLen + 1) /\ To \in 0..(MaxLen + 1) /\ MaxLen \in Nat
      /\ Source = writes /\ writes \in 1..MaxWrites
  BY Given, OstreamAssumption
<1>2. n \in Nat /\ n >= 1 /\ From + n - 1 <= To
  BY <1>1
<1> DEFINE as(k) == IF From + k - 1 > len THEN "newline"
                    ELSE IF From \in ToEscape THEN "hex" ELSE "byte"
<1>3. Sent(n) = [k \in 1..n |-> Item(Source, From + k - 1, as(k))]
  BY DEF Sent
<1>4. \A k \in 1..n : as(k) \in Forms
  BY DEF Forms
<1> HIDE DEF as
<1>5. ASSUME NEW k \in 1..n PROVE Sent(n)[k] \in Items /\ Sent(n)[k].w = writes /\ Sent(n)[k].p = From + k - 1
  <2>1. From + k - 1 \in 1..(MaxLen + 1)
    BY <1>1, <1>2
  <2>2. Sent(n)[k] = [w |-> writes, p |-> From + k - 1, as |-> as(k)]
    BY <1>1, <1>3 DEF Item
  <2>3. as(k) \in Forms
    BY <1>4
  <2>4. [w |-> writes, p |-> From + k - 1, as |-> as(k)] \in Items
    BY <1>1, <2>1, <2>3 DEF Items
  <2> QED
    BY <2>2, <2>4
<1>6. Sent(n) \in Seq(Items) /\ Len(Sent(n)) = n
  <2>1. n \in Nat /\ Sent(n) = [k \in 1..n |-> Sent(n)[k]] /\ \A k \in 1..n : Sent(n)[k] \in Items
    BY <1>2, <1>3, <1>5
  <2> QED
    BY <2>1
<1> QED
  BY <1>2, <1>5, <1>6

(* The chunk blob attempts stays a size, and is never nothing.             *)
LEMMA GrownSize ==
  ASSUME TypeOK, write_size > 0, NEW n \in Nat
  PROVE  Grown(n) \in 0..(Size - 1) /\ Grown(n) > 0
<1>1. Size \in Nat /\ Size > 1 /\ write_size \in Nat /\ write_size \in 0..(Size - 1)
  BY OstreamAssumption DEF TypeOK
<1>2. (write_size * 8) % Size \in 0..(Size - 1)
  BY <1>1
<1> QED
  BY <1>1, <1>2 DEF Grown

-----------------------------------------------------------------------------
(* The invariant, call by call.                                            *)
LEMMA StreamInit == Init => StreamInv
<1> SUFFICES ASSUME Init PROVE StreamInv
  OBVIOUS
<1>1. unprintable \subseteq 1..MaxLen
  BY DEF Init
<1>2. /\ 0 \in 0..MaxWrites /\ 0 \in 0..MaxLen /\ 0 \in 0..MaxFailures
      /\ 0 \in 0..(Size - 1) /\ InitWrite \in 0..(Size - 1) /\ InitSize \in Nat
  BY OstreamAssumption
<1>3. <<>> \in Seq(Items)
  OBVIOUS
<1>4. TypeOK
  BY <1>1, <1>2, <1>3 DEF Init, TypeOK
<1> QED
  BY <1>4, OstreamAssumption DEF Init, StreamInv, OstreamInv, Phases

LEMMA StartWriteInv ==
  ASSUME StreamInv, NEW l \in Lengths, StartWrite(l)
  PROVE  StreamInv'
<1>1. /\ buffer_size \in Nat /\ SpaceFor(l) \in Nat /\ writes \in 0..MaxWrites
      /\ MaxWrites \in Nat /\ l \in 0..MaxLen /\ MaxLen \in Nat
  BY OstreamAssumption DEF StreamInv, OstreamInv, TypeOK, SpaceFor, Lengths
<1>2. Max({buffer_size, SpaceFor(l)}) =
        IF buffer_size <= SpaceFor(l) THEN SpaceFor(l) ELSE buffer_size
  BY <1>1, MaxOfTwo
<1>3. buffer_size' \in Nat /\ SpaceFor(l) <= buffer_size'
  BY <1>1, <1>2 DEF StartWrite
<1>4. writes' \in 1..MaxWrites
  BY <1>1 DEF StartWrite
<1>5. TypeOK'
  BY <1>1, <1>3, <1>4 DEF StartWrite, StreamInv, OstreamInv, TypeOK, stream
<1>6. OstreamInv'
  BY <1>1, <1>3, <1>5, OstreamAssumption DEF StartWrite, StreamInv, OstreamInv, Phases, Source,
     SpaceFor, stream
<1> QED
  BY <1>4, <1>6 DEF StartWrite, StreamInv, Phases

LEMMA AssignWriteInv ==
  ASSUME StreamInv, NEW l \in Lengths, AssignWrite(l)
  PROVE  StreamInv'
<1>1. writes \in 0..MaxWrites /\ MaxWrites \in Nat /\ l \in 0..MaxLen /\ MaxLen \in Nat
  BY OstreamAssumption DEF StreamInv, OstreamInv, TypeOK, Lengths
<1>2. writes' \in 1..MaxWrites
  BY <1>1 DEF AssignWrite
<1>3. TypeOK'
  BY <1>1, <1>2 DEF AssignWrite, StreamInv, OstreamInv, TypeOK, stream, own
<1>4. /\ assigned_buffer' = writes' /\ assigned_buffer' # 0 /\ pc' = "filled"
      /\ len' = 0 /\ room' = l /\ write_size' = write_size
  BY <1>2 DEF AssignWrite, StreamInv, Phases
<1>5. OstreamInv'
  BY <1>1, <1>3, <1>4 DEF StreamInv, OstreamInv, Source
<1> QED
  BY <1>2, <1>5 DEF AssignWrite, StreamInv, Phases

LEMMA EndWriteInv ==
  ASSUME StreamInv, NEW l \in Lengths, EndWrite(l)
  PROVE  StreamInv'
<1>1. /\ l \in 0..MaxLen /\ l \in Nat /\ room \in Nat /\ l <= room /\ writes \in 1..MaxWrites
      /\ Size > 0 /\ Size \in Nat
  BY OstreamAssumption DEF EndWrite, StreamInv, OstreamInv, TypeOK, Lengths, Phases
<1>2. CommittedFrom(1, l) \in Seq(Items)
  BY <1>1, CommittedItems DEF StreamInv, OstreamInv, Lengths
<1>3. pc' = "writing"
  <2>1. Touched(l) <= SpaceFor(room)
    BY <1>1 DEF Touched, SpaceFor, Lines
  <2>2. Touched(l) \in Nat /\ SpaceFor(room) \in Nat /\ buffer_size \in Nat
    BY <1>1 DEF Touched, SpaceFor, StreamInv, OstreamInv, TypeOK
  <2> QED
    BY <2>1, <2>2 DEF EndWrite, StreamInv, OstreamInv
<1>4. asked' \in Seq(Items)
  BY <1>2 DEF EndWrite, StreamInv, OstreamInv, TypeOK
<1>5. done' \in 0..(Size - 1)
  BY <1>1 DEF EndWrite
<1>6. TypeOK'
  BY <1>1, <1>3, <1>4, <1>5 DEF EndWrite, StreamInv, OstreamInv, TypeOK, stream, own
<1>7. OstreamInv'
  BY <1>1, <1>3, <1>6 DEF EndWrite, StreamInv, OstreamInv, Source, own
<1> QED
  BY <1>1, <1>3, <1>7 DEF EndWrite, StreamInv, Phases

LEMMA WritesInv ==
  ASSUME StreamInv, NEW n \in 1..(MaxLen + 1), Writes(n)
  PROVE  StreamInv'
<1>1. pc = "writing" /\ done < End /\ n \in 1..(To - From + 1) /\ n \in Nat
  BY OstreamAssumption DEF Writes
<1>2. output' \in Seq(Items)
  <2>1. output \in Seq(Items) /\ Sent(n) \in Seq(Items)
    BY <1>1, SentItems DEF StreamInv, OstreamInv, TypeOK
  <2> QED
    BY <2>1 DEF Writes
<1>3. done' \in 0..(Size - 1)
  <2>1. /\ done \in Nat /\ From \in 1..(MaxLen + 1) /\ To \in 0..(MaxLen + 1)
        /\ (kind = "blob" => From = done + 1) /\ MaxLen \in Nat /\ Size \in Nat /\ MaxLen + 1 < Size
    BY <1>1, Given, OstreamAssumption
  <2>2. From + n - 1 <= To
    BY <1>1, <2>1
  <2>3. CASE kind = "blob"
    <3>1. done' = done + n
      BY <2>3 DEF Writes
    <3>2. done + n \in 0..(Size - 1)
      BY <1>1, <2>1, <2>2, <2>3
    <3> QED
      BY <3>1, <3>2
  <2>4. CASE kind # "blob"
    <3>1. done' = To
      BY <2>4 DEF Writes
    <3> QED
      BY <2>1, <3>1
  <2> QED
    BY <2>3, <2>4
<1>4. write_size' \in 0..(Size - 1) /\ write_size' > 0
  BY <1>1, GrownSize DEF Writes, StreamInv, OstreamInv
<1>5. fell' \in BOOLEAN
  BY DEF Writes, StreamInv, OstreamInv, TypeOK
<1>6. TypeOK'
  BY <1>2, <1>3, <1>4, <1>5 DEF Writes, StreamInv, OstreamInv, TypeOK, stream, own
<1>7. OstreamInv'
  BY <1>1, <1>4, <1>6 DEF Writes, StreamInv, OstreamInv, Source, own
<1> QED
  BY <1>1, <1>7 DEF Writes, StreamInv, Phases

LEMMA FailsInv ==
  ASSUME StreamInv, Fails
  PROVE  StreamInv'
<1>1. pc = "writing" /\ done < End
  BY DEF Fails
<1>2. done' \in 0..(Size - 1)
  <2>1. done \in Nat /\ To \in 0..(MaxLen + 1) /\ MaxLen \in Nat /\ Size \in Nat /\ MaxLen + 1 < Size
    BY <1>1, Given, OstreamAssumption
  <2>2. (done + Size - 1) % Size \in 0..(Size - 1)
    BY <2>1
  <2> QED
    BY <2>1, <2>2 DEF Fails
<1>3. write_size' \in 0..(Size - 1) /\ write_size' > 0
  <2>1. Size - 1 \in Nat
    BY OstreamAssumption
  <2> QED
    BY <2>1, GrownSize DEF Fails, StreamInv, OstreamInv
<1>4. failures' \in 0..MaxFailures
  BY OstreamAssumption DEF Fails, StreamInv, OstreamInv, TypeOK
<1>5. TypeOK'
  BY <1>2, <1>3, <1>4 DEF Fails, StreamInv, OstreamInv, TypeOK, stream, own
<1>6. OstreamInv'
  BY <1>1, <1>3, <1>5 DEF Fails, StreamInv, OstreamInv, Source, own
<1> QED
  BY <1>1, <1>6 DEF Fails, StreamInv, Phases

LEMMA StreamStep == StreamInv /\ [Next]_vars => StreamInv'
<1> SUFFICES ASSUME StreamInv, [Next]_vars PROVE StreamInv'
  OBVIOUS
<1>1. ASSUME NEW l \in Lengths, StartWrite(l) \/ AssignWrite(l) \/ EndWrite(l) PROVE StreamInv'
  BY <1>1, StartWriteInv, AssignWriteInv, EndWriteInv
<1>2. ASSUME NEW n \in 1..(MaxLen + 1), Writes(n) PROVE StreamInv'
  BY <1>2, WritesInv
<1>3. CASE Fails
  BY <1>3, FailsInv
<1>4. CASE SendFails
  <2>1. TypeOK'
    BY <1>4 DEF SendFails, StreamInv, OstreamInv, TypeOK, stream, own, history
  <2> QED
    BY <1>4, <2>1 DEF SendFails, StreamInv, OstreamInv, Phases, stream, own, history
<1>5. CASE Returns
  <2>1. TypeOK'
    BY <1>5, OstreamAssumption DEF Returns, StreamInv, OstreamInv, TypeOK, stream, own, history
  <2> QED
    BY <1>5, <2>1 DEF Returns, StreamInv, OstreamInv, Phases, stream, own, history
<1>6. CASE Close
  <2>1. TypeOK'
    BY <1>6 DEF Close, StreamInv, OstreamInv, TypeOK, stream, own, history
  <2> QED
    BY <1>6, <2>1 DEF Close, StreamInv, OstreamInv, Phases, stream, own, history
<1>7. CASE UNCHANGED vars
  <2>1. TypeOK'
    BY <1>7 DEF vars, StreamInv, OstreamInv, TypeOK, stream, own, history
  <2> QED
    BY <1>7, <2>1 DEF vars, StreamInv, OstreamInv, Phases, Source, SpaceFor, stream, own, history
<1> QED
  BY <1>1, <1>2, <1>3, <1>4, <1>5, <1>6, <1>7 DEF Next, Call, Step

(* Whatever the lengths, no write of a log line, its newline included, is  *)
(* past the end of the buffer, and end_write reads the buffer its caller   *)
(* filled: start_write's or the one assign_write was given.                *)
THEOREM OstreamInvariant == Spec => []OstreamInv
<1>1. StreamInv => OstreamInv
  BY DEF StreamInv
<1> QED
  BY <1>1, StreamInit, StreamStep, PTL DEF Spec

-----------------------------------------------------------------------------
(* The order of the output.                                                *)

(* b may follow a.                                                         *)
Follows(a, b) ==
  IF kind = "blob"
  THEN (b.w = a.w /\ b.p <= a.p + 1) \/ (b.w > a.w /\ b.p = 1)
  ELSE (b.w = a.w /\ b.p > a.p) \/ b.w > a.w

(* The first item of the next call may follow the last one of the output:  *)
(* done is behind it, or for blob before it, or where nothing more is      *)
(* written.                                                                *)
LastBefore ==
  LET b == output[Len(output)] IN
  Len(output) > 0 =>
    /\ b.w <= writes
    /\ pc = "filled" => b.w < writes
    /\ pc = "writing" /\ done < End =>
         IF kind = "blob" THEN IF b.w = writes THEN done <= b.p ELSE done = 0
         ELSE b.w < writes \/ b.p <= done

OrderInv == OutputInOrder /\ LastBefore

(* Two pieces, each in order, that fit together.                           *)
LEMMA InOrderJoined ==
  ASSUME NEW a \in Seq(Items), NEW b \in Seq(Items), Len(b) > 0,
         \A k \in 1..(Len(a) - 1) : Follows(a[k], a[k + 1]),
         \A k \in 1..(Len(b) - 1) : Follows(b[k], b[k + 1]),
         Len(a) > 0 => Follows(a[Len(a)], b[1])
  PROVE  \A k \in 1..(Len(a \o b) - 1) : Follows((a \o b)[k], (a \o b)[k + 1])
<1> SUFFICES ASSUME NEW k \in 1..(Len(a \o b) - 1) PROVE Follows((a \o b)[k], (a \o b)[k + 1])
  OBVIOUS
<1>1. Len(a) \in Nat /\ Len(b) \in Nat /\ Len(a \o b) = Len(a) + Len(b) /\ k \in Nat
  OBVIOUS
<1>2. CASE k < Len(a)
  <2>1. (a \o b)[k] = a[k] /\ (a \o b)[k + 1] = a[k + 1] /\ k \in 1..(Len(a) - 1)
    BY <1>1, <1>2
  <2> QED
    BY <2>1
<1>3. CASE k = Len(a)
  <2>1. (a \o b)[k] = a[k] /\ (a \o b)[k + 1] = b[1] /\ Len(a) > 0
    BY <1>1, <1>3
  <2> QED
    BY <1>3, <2>1
<1>4. CASE k > Len(a)
  <2>3. k - Len(a) \in 1..(Len(b) - 1) /\ k = Len(a) + (k - Len(a))
    BY <1>1, <1>4
  <2>1. PICK j \in 1..(Len(b) - 1) : k = Len(a) + j
    BY <2>3
  <2>2. (a \o b)[k] = b[j] /\ (a \o b)[k + 1] = b[j + 1]
    BY <1>1, <2>1
  <2> QED
    BY <2>2
<1> QED
  BY <1>1, <1>2, <1>3, <1>4

LEMMA LastOfJoined ==
  ASSUME NEW a \in Seq(Items), NEW b \in Seq(Items), Len(b) > 0
  PROVE  /\ Len(a) \in Nat /\ Len(a \o b) = Len(a) + Len(b)
         /\ (a \o b)[Len(a \o b)] = b[Len(b)]
OBVIOUS

LEMMA WritesOrder ==
  ASSUME StreamInv, OrderInv, NEW n \in 1..(MaxLen + 1), Writes(n)
  PROVE  OrderInv'
<1>1. pc = "writing" /\ done < End /\ n \in 1..(To - From + 1) /\ pc' = pc
      /\ kind' = kind /\ writes' = writes /\ output' = output \o Sent(n)
  BY DEF Writes, stream
<1>2. /\ Sent(n) \in Seq(Items) /\ Len(Sent(n)) = n /\ n \in Nat /\ n >= 1
      /\ From + n - 1 <= To
      /\ \A k \in 1..n : Sent(n)[k].w = writes /\ Sent(n)[k].p = From + k - 1
  BY <1>1, SentItems
<1>3. /\ From \in Nat /\ To \in Nat /\ done \in Nat /\ From > done
      /\ (kind = "blob" => From = done + 1) /\ writes \in Nat
  BY <1>1, Given, OstreamAssumption
<1>4. output \in Seq(Items)
  BY DEF StreamInv, OstreamInv, TypeOK
<1>5. \A k \in 1..(Len(output) - 1) : Follows(output[k], output[k + 1])
  BY DEF OrderInv, OutputInOrder, Follows
<1>6. ASSUME NEW k \in 1..(Len(Sent(n)) - 1) PROVE Follows(Sent(n)[k], Sent(n)[k + 1])
  <2>1. k \in Nat /\ k \in 1..n /\ k + 1 \in 1..n
    BY <1>2
  <2>2. /\ Sent(n)[k].w = writes /\ Sent(n)[k + 1].w = writes
        /\ Sent(n)[k].p = From + k - 1 /\ Sent(n)[k + 1].p = From + (k + 1) - 1
    BY <1>2, <2>1
  <2> QED
    BY <1>3, <2>1, <2>2 DEF Follows
<1>7. Len(output) > 0 => Follows(output[Len(output)], Sent(n)[1])
  <2> SUFFICES ASSUME Len(output) > 0 PROVE Follows(output[Len(output)], Sent(n)[1])
    OBVIOUS
  <2>1. Sent(n)[1].w = writes /\ Sent(n)[1].p = From
    BY <1>2, <1>3
  <2>2. output[Len(output)] \in Items
    BY <1>4
  <2>3. output[Len(output)].w \in Nat /\ output[Len(output)].p \in Nat
    BY <2>2, OstreamAssumption DEF Items
  <2> QED
    BY <1>1, <1>3, <2>1, <2>3 DEF OrderInv, LastBefore, Follows
<1>8. OutputInOrder'
  <2>1. \A k \in 1..(Len(output \o Sent(n)) - 1) :
          Follows((output \o Sent(n))[k], (output \o Sent(n))[k + 1])
    <3> DEFINE s == Sent(n)
    <3>1. s \in Seq(Items) /\ Len(s) > 0
      BY <1>2
    <3>2. \A k \in 1..(Len(s) - 1) : Follows(s[k], s[k + 1])
      BY <1>6
    <3>3. Len(output) > 0 => Follows(output[Len(output)], s[1])
      BY <1>7
    <3> HIDE DEF s
    <3>4. \A k \in 1..(Len(output \o s) - 1) : Follows((output \o s)[k], (output \o s)[k + 1])
      BY <1>4, <1>5, <3>1, <3>2, <3>3, InOrderJoined
    <3> QED
      BY <3>4 DEF s
  <2> QED
    BY <1>1, <2>1 DEF OutputInOrder, Follows
<1>9. LastBefore'
  <2>1. Len(Sent(n)) > 0
    BY <1>2
  <2>2. output'[Len(output')] = Sent(n)[n]
    BY <1>1, <1>2, <1>4, <2>1, LastOfJoined
  <2>3. Sent(n)[n].w = writes /\ Sent(n)[n].p = From + n - 1
    BY <1>2
  <2>4. kind = "blob" => done' = From + n - 1
    <3>1. kind = "blob" => done' = done + n /\ From = done + 1
      BY <1>3 DEF Writes
    <3> QED
      BY <1>2, <1>3, <3>1
  <2>5. kind # "blob" => done' = To
    BY DEF Writes
  <2> QED
    BY <1>1, <1>2, <1>3, <2>2, <2>3, <2>4, <2>5 DEF LastBefore
<1> QED
  BY <1>8, <1>9 DEF OrderInv

LEMMA OrderStep ==
  ASSUME StreamInv, OrderInv, [Next]_vars
  PROVE  OrderInv'
<1>1. ASSUME NEW n \in 1..(MaxLen + 1), Writes(n) PROVE OrderInv'
  BY <1>1, WritesOrder
<1>2. CASE Fails
  <2>1. /\ pc = "writing" /\ done < End /\ pc' = pc /\ End' = End
        /\ UNCHANGED <<kind, writes, output>>
    BY <1>2 DEF Fails, stream, End
  <2>2. OutputInOrder'
    BY <2>1 DEF OrderInv, OutputInOrder
  <2>3. /\ done \in Nat /\ To \in Nat /\ To >= done /\ len \in Nat /\ Size \in Nat
        /\ len < Size - 1 /\ done <= len
    <3>1. done \in Nat /\ To \in 0..(MaxLen + 1) /\ To >= done /\ len \in 0..MaxLen
      BY <2>1, Given
    <3> QED
      BY <2>1, <3>1, OstreamAssumption DEF End
  <2>4. CASE kind # "blob"
    <3>1. done' = To
      BY <1>2, <2>4 DEF Fails
    <3>2. Len(output) > 0 => output[Len(output)].p \in Nat
      <4>1. Len(output) > 0 => output[Len(output)] \in Items
        BY DEF StreamInv, OstreamInv, TypeOK
      <4> QED
        BY <4>1, OstreamAssumption DEF Items
    <3>3. LastBefore'
      BY <2>1, <2>3, <2>4, <3>1, <3>2 DEF OrderInv, LastBefore
    <3> QED
      BY <2>2, <3>3 DEF OrderInv
  <2>5. CASE kind = "blob"
    <3>1. done' = (done + Size - 1) % Size /\ End = len
      BY <1>2, <2>5 DEF Fails, End, Lines
    <3>2. (done + Size - 1) % Size = IF done = 0 THEN Size - 1 ELSE done - 1
      <4>1. CASE done = 0
        BY <2>3, <4>1
      <4>2. CASE done > 0
        <5>1. PICK m \in Nat : done = m + 1
          BY <2>3, <4>2
        <5>2. (m + Size) % Size = m
          BY <2>3, <5>1
        <5> QED
          BY <2>3, <5>1, <5>2
      <4> QED
        BY <2>3, <4>1, <4>2
    <3>3. Len(output) > 0 => output[Len(output)].p \in Nat
      <4>1. Len(output) > 0 => output[Len(output)] \in Items
        BY DEF StreamInv, OstreamInv, TypeOK
      <4> QED
        BY <4>1, OstreamAssumption DEF Items
    <3>4. LastBefore'
      BY <2>1, <2>3, <2>5, <3>1, <3>2, <3>3 DEF OrderInv, LastBefore
    <3> QED
      BY <2>2, <3>4 DEF OrderInv
  <2> QED
    BY <2>4, <2>5
<1>3. ASSUME NEW l \in Lengths, StartWrite(l) \/ AssignWrite(l) PROVE OrderInv'
  <2>1. /\ pc' = "filled" /\ writes' = writes + 1 /\ UNCHANGED <<kind, output>>
        /\ writes \in Nat
    BY <1>3, OstreamAssumption DEF StartWrite, AssignWrite, stream, StreamInv, OstreamInv, TypeOK
  <2>2. Len(output) > 0 => output[Len(output)].w \in Nat
    <3>1. Len(output) > 0 => output[Len(output)] \in Items
      BY DEF StreamInv, OstreamInv, TypeOK
    <3> QED
      BY <3>1, OstreamAssumption DEF Items
  <2> QED
    BY <2>1, <2>2 DEF OrderInv, OutputInOrder, LastBefore
<1>4. ASSUME NEW l \in Lengths, EndWrite(l) PROVE OrderInv'
  <2>1. pc = "filled" /\ done' = 0 /\ UNCHANGED <<kind, writes, output>> /\ writes \in Nat
        /\ (pc' = "writing" \/ pc' = "corrupt")
    BY <1>4, OstreamAssumption DEF EndWrite, stream, StreamInv, OstreamInv, TypeOK
  <2>2. Len(output) > 0 => output[Len(output)].w \in Nat
    <3>1. Len(output) > 0 => output[Len(output)] \in Items
      BY DEF StreamInv, OstreamInv, TypeOK
    <3> QED
      BY <3>1, OstreamAssumption DEF Items
  <2>3. OutputInOrder'
    BY <2>1 DEF OrderInv, OutputInOrder
  <2>4. LastBefore'
    BY <2>1, <2>2 DEF OrderInv, LastBefore
  <2> QED
    BY <2>3, <2>4 DEF OrderInv
<1>5. CASE SendFails \/ Returns \/ Close
  <2>1. /\ pc' \notin {"filled", "writing"} /\ UNCHANGED <<kind, writes, output>>
    BY <1>5 DEF SendFails, Returns, Close, stream, history
  <2> QED
    BY <2>1 DEF OrderInv, OutputInOrder, LastBefore
<1>6. CASE UNCHANGED vars
  BY <1>6 DEF vars, stream, history, OrderInv, OutputInOrder, LastBefore, End
<1> QED
  BY <1>1, <1>2, <1>3, <1>4, <1>5, <1>6 DEF Next, Call, Step

(* What a descriptor is given is in order, however the calls fall short or *)
(* fail: log, udp and raw repeat nothing; blob repeats bytes of the write  *)
(* in progress, and skips none but by breaking a write off.                *)
THEOREM ItemsInOrder == Spec => []OutputInOrder
<1>1. Init => OrderInv
  BY DEF Init, OrderInv, OutputInOrder, LastBefore
<1>2. OrderInv => OutputInOrder
  BY DEF OrderInv
<1> QED
  BY <1>1, <1>2, StreamInit, StreamStep, OrderStep, PTL DEF Spec

-----------------------------------------------------------------------------
(* The output follows what end_write was asked.                            *)

LEMMA TextIs ==
  ASSUME NEW w, NEW a \in Int, NEW b \in Int, NEW l, b >= a - 1
  PROVE  /\ Text(w, a, b, l) = [k \in 1..(b - a + 1) |-> Item(w, a + k - 1, Form(a + k - 1, l))]
         /\ b - a + 1 \in Nat
<1>1. Max({0, b - a + 1}) = b - a + 1
  <2>1. b - a + 1 \in Int /\ 0 \in Int /\ 0 <= b - a + 1
    OBVIOUS
  <2> QED
    BY <2>1, MaxOfTwo
<1> QED
  BY <1>1 DEF Text

LEMMA TextEmpty ==
  ASSUME NEW w, NEW a \in Int, NEW b \in Int, NEW l, b < a
  PROVE  Text(w, a, b, l) = <<>>
<1>1. Max({0, b - a + 1}) = 0
  <2>1. b - a + 1 \in Int /\ 0 \in Int /\ b - a + 1 <= 0
    OBVIOUS
  <2> QED
    BY <2>1, MaxOfTwo
<1>2. Text(w, a, b, l) = [k \in 1..0 |-> Item(w, a + k - 1, Form(a + k - 1, l))]
  BY <1>1 DEF Text
<1> QED
  BY <1>2

LEMMA SeqOf ==
  ASSUME NEW S, NEW n \in Nat, NEW f \in [1..n -> S]
  PROVE  f \in Seq(S) /\ Len(f) = n
OBVIOUS

JoinedAs(u, v, m, n) ==
  /\ u \o v = [k \in 1..(m + n) |-> (u \o v)[k]]
  /\ \A k \in 1..m : (u \o v)[k] = u[k]
  /\ \A k \in 1..n : (u \o v)[m + k] = v[k]

LEMMA Joined ==
  ASSUME NEW S, NEW m \in Nat, NEW n \in Nat, NEW u \in [1..m -> S], NEW v \in [1..n -> S]
  PROVE  JoinedAs(u, v, m, n)
<1>1. u \in Seq(S) /\ Len(u) = m /\ v \in Seq(S) /\ Len(v) = n
  BY SeqOf
<1>2. u \o v \in Seq(S) /\ Len(u \o v) = m + n
  BY <1>1
<1>3. u \o v = [k \in 1..(m + n) |-> (u \o v)[k]]
  <2> DEFINE w == u \o v
  <2>1. w \in Seq(S) /\ Len(w) = m + n
    BY <1>2
  <2> HIDE DEF w
  <2>2. w = [k \in 1..Len(w) |-> w[k]]
    BY <2>1
  <2> QED
    BY <2>1, <2>2 DEF w
<1>4. \A k \in 1..m : (u \o v)[k] = u[k]
  BY <1>1
<1>5. \A k \in 1..n : (u \o v)[m + k] = v[k]
  BY <1>1
<1> QED
  BY <1>3, <1>4, <1>5 DEF JoinedAs

(* A text cut in two.                                                      *)
CutAt(w, a, b, l, c) == Text(w, a, b, l) = Text(w, a, c, l) \o Text(w, c + 1, b, l)

LEMMA TextCut ==
  ASSUME NEW w, NEW a \in Int, NEW b \in Int, NEW c \in Int, NEW l, a - 1 <= c, c <= b
  PROVE  CutAt(w, a, b, l, c)
<1> DEFINE m == c - a + 1
           n == b - c
           item(p) == Item(w, p, Form(p, l))
<1>1. /\ m \in Nat /\ n \in Nat /\ b - a + 1 = m + n /\ b - (c + 1) + 1 = n
      /\ Text(w, a, b, l) = [k \in 1..(m + n) |-> item(a + k - 1)]
      /\ Text(w, a, c, l) = [k \in 1..m |-> item(a + k - 1)]
      /\ Text(w, c + 1, b, l) = [k \in 1..n |-> item((c + 1) + k - 1)]
  <2>1. b - a + 1 = m + n /\ b - (c + 1) + 1 = n /\ m \in Nat /\ n \in Nat
    OBVIOUS
  <2>2. Text(w, a, b, l) = [k \in 1..(m + n) |-> item(a + k - 1)]
    BY <2>1, TextIs
  <2>3. Text(w, a, c, l) = [k \in 1..m |-> item(a + k - 1)]
    BY TextIs
  <2>4. Text(w, c + 1, b, l) = [k \in 1..n |-> item((c + 1) + k - 1)]
    <3>1. c + 1 \in Int /\ b >= (c + 1) - 1
      OBVIOUS
    <3> QED
      BY <2>1, <3>1, TextIs
  <2> QED
    BY <2>1, <2>2, <2>3, <2>4
<1>2. m = c - a + 1
  OBVIOUS
<1> HIDE DEF m, n, item
<1>3. ASSUME NEW k \in 1..n PROVE item(a + (m + k) - 1) = item((c + 1) + k - 1)
  <2>1. a + (m + k) - 1 = (c + 1) + k - 1
    BY <1>1, <1>2
  <2> QED
    BY <2>1
<1>4. [k \in 1..(m + n) |-> item(a + k - 1)] =
        [k \in 1..m |-> item(a + k - 1)] \o [k \in 1..n |-> item((c + 1) + k - 1)]
  <2> DEFINE u == [k \in 1..m |-> item(a + k - 1)]
             v == [k \in 1..n |-> item((c + 1) + k - 1)]
             S == {item(a + k - 1) : k \in 1..m} \union {item((c + 1) + k - 1) : k \in 1..n}
  <2>1. /\ u \in [1..m -> S] /\ \A k \in 1..m : u[k] = item(a + k - 1)
        /\ v \in [1..n -> S] /\ \A k \in 1..n : v[k] = item((c + 1) + k - 1)
    OBVIOUS
  <2> HIDE DEF u, v, S
  <2>2. /\ u \o v = [k \in 1..(m + n) |-> (u \o v)[k]]
        /\ \A k \in 1..m : (u \o v)[k] = u[k]
        /\ \A k \in 1..n : (u \o v)[m + k] = v[k]
    <3>1. m \in Nat /\ n \in Nat
      BY <1>1
    <3>2. JoinedAs(u, v, m, n)
      BY <2>1, <3>1, Joined
    <3> QED
      BY <3>2 DEF JoinedAs
  <2>3. ASSUME NEW k \in 1..(m + n) PROVE (u \o v)[k] = item(a + k - 1)
    <3>1. CASE k <= m
      <4>1. k \in 1..m
        BY <1>1, <3>1
      <4> QED
        BY <2>1, <2>2, <4>1
    <3>2. CASE k > m
      <4>1. k - m \in 1..n /\ k = m + (k - m)
        BY <1>1, <3>2
      <4>2. PICK j \in 1..n : k = m + j
        BY <4>1
      <4> QED
        BY <1>3, <2>1, <2>2, <4>2
    <3>3. k <= m \/ k > m
      BY <1>1
    <3> QED
      BY <3>1, <3>2, <3>3
  <2>5. u \o v = [k \in 1..(m + n) |-> item(a + k - 1)]
    BY <2>2, <2>3
  <2> QED
    BY <2>5 DEF u, v
<1> QED
  BY <1>1, <1>4 DEF CutAt

LEMMA TextSeq ==
  ASSUME NEW w, NEW a \in Int, NEW b \in Int, NEW l
  PROVE  \E S : Text(w, a, b, l) \in Seq(S)
<1>1. CASE b < a
  <2>1. Text(w, a, b, l) = <<>>
    BY <1>1, TextEmpty
  <2>2. <<>> \in Seq({})
    OBVIOUS
  <2> QED
    BY <2>1, <2>2
<1>2. CASE b >= a
  <2> DEFINE n == b - a + 1
             f == [k \in 1..n |-> Item(w, a + k - 1, Form(a + k - 1, l))]
  <2>1. n \in Nat /\ Text(w, a, b, l) = f
    <3>1. b >= a - 1
      BY <1>2
    <3> QED
      BY <3>1, TextIs
  <2> HIDE DEF n
  <2>2. f \in [1..n -> {f[i] : i \in 1..n}]
    OBVIOUS
  <2> HIDE DEF f
  <2>3. f \in Seq({f[i] : i \in 1..n})
    BY <2>1, <2>2, SeqOf
  <2> QED
    BY <2>1, <2>3
<1> QED
  BY <1>1, <1>2

(* When nothing is left of a line, nothing of it is committed.             *)
LEMMA NothingLeft ==
  ASSUME StreamInv, pc = "writing", done >= End
  PROVE  CommittedFrom(done + 1, len) = <<>>
<1>1. len \in Nat /\ done \in Nat
  BY OstreamAssumption DEF StreamInv, OstreamInv, TypeOK
<1>2. CommittedFrom(done + 1, len) = Text(writes, done + 1, End, len)
  BY DEF CommittedFrom, End
<1>3. End \in Int /\ done + 1 \in Int /\ End < done + 1
  BY <1>1 DEF End
<1> QED
  BY <1>2, <1>3, TextEmpty

(* Only the escape option rewrites bytes.                                  *)
Printable == kind # "escape" => unprintable = {}

(* What a call puts out is what the line has there.                        *)
LEMMA SentIsText ==
  ASSUME StreamInv, Printable, pc = "writing", done < End, NEW n \in 1..(To - From + 1)
  PROVE  Sent(n) = Text(writes, From, From + n - 1, len)
<1>1. /\ From \in Nat /\ To \in Nat /\ len \in Nat /\ n \in Nat /\ n >= 1 /\ From + n - 1 <= To
      /\ Source = writes /\ done \in Nat /\ From > done /\ unprintable \subseteq Nat
  <2>1. From \in Nat /\ To \in Nat /\ len \in Nat /\ Source = writes /\ done \in Nat /\ From > done
    BY Given, OstreamAssumption
  <2>2. unprintable \subseteq Nat
    BY OstreamAssumption DEF StreamInv, OstreamInv, TypeOK
  <2> QED
    BY <2>1, <2>2
<1>2. ASSUME NEW k \in 1..n
      PROVE  (IF From + k - 1 > len THEN "newline" ELSE IF From \in ToEscape THEN "hex" ELSE "byte")
               = Form(From + k - 1, len)
  <2>1. From + k - 1 \in Nat /\ From <= From + k - 1 /\ From + k - 1 <= To
    BY <1>1
  <2>2. CASE From + k - 1 > len
    BY <2>2 DEF Form
  <2>3. CASE From + k - 1 <= len /\ kind # "escape"
    <3>1. unprintable = {} /\ ToEscape = {}
      BY <2>3 DEF Printable, ToEscape
    <3> QED
      BY <1>1, <2>1, <2>3, <3>1 DEF Form
  <2>4. CASE From + k - 1 <= len /\ kind = "escape"
    <3>1. ToEscape # {} /\ From = done + 1
      BY <1>1, <2>1, <2>4 DEF From
    <3>2. CASE From \in ToEscape
      <4>1. To = done + 1
        BY <2>4, <3>1, <3>2 DEF To
      <4>2. From + k - 1 = From
        BY <1>1, <2>1, <3>1, <4>1
      <4>3. From \in unprintable /\ From <= len
        BY <3>2 DEF ToEscape
      <4> QED
        BY <1>1, <3>2, <4>2, <4>3 DEF Form
    <3>3. CASE From \notin ToEscape
      <4>1. To = Min(ToEscape) - 1
        BY <2>4, <3>1, <3>3 DEF To
      <4>2. ToEscape \subseteq Nat
        BY <1>1 DEF ToEscape
      <4>3. Min(ToEscape) \in Nat /\ \A x \in ToEscape : Min(ToEscape) <= x
        BY <3>1, <4>2, MinOf
      <4>4. From + k - 1 \notin ToEscape
        BY <2>1, <4>1, <4>3
      <4>5. From + k - 1 \notin unprintable
        BY <1>1, <2>1, <2>4, <4>4 DEF ToEscape
      <4> QED
        BY <1>1, <2>1, <2>4, <3>3, <4>5 DEF Form
    <3> QED
      BY <3>2, <3>3
  <2> QED
    BY <1>1, <2>1, <2>2, <2>3, <2>4
<1>3. Text(writes, From, From + n - 1, len)
        = [k \in 1..n |-> Item(writes, From + k - 1, Form(From + k - 1, len))]
  <2>1. (From + n - 1) - From + 1 = n /\ From \in Int /\ From + n - 1 \in Int
        /\ From + n - 1 >= From - 1
    BY <1>1
  <2> QED
    BY <2>1, TextIs
<1>4. Sent(n) = [k \in 1..n |-> Item(writes, From + k - 1, Form(From + k - 1, len))]
  BY <1>1, <1>2 DEF Sent
<1> QED
  BY <1>3, <1>4

(* The line in progress is one the escape option puts out whole.           *)
Whole == kind = "escape" => len = 0 \/ len \in unprintable

(* A call that wrote all it was given, or of blob some of it, leaves the   *)
(* rest of what was committed.                                             *)
LEMMA CommitAdvances ==
  ASSUME StreamInv, Printable, Whole, pc = "writing", done < End, NEW n \in 1..(To - From + 1),
         kind # "blob" => n = To - From + 1,
         NEW d, d = IF kind = "blob" THEN done + n ELSE To
  PROVE  CommittedFrom(done + 1, len) = Sent(n) \o CommittedFrom(d + 1, len)
<1>1. /\ From \in Nat /\ To \in Nat /\ len \in Nat /\ n \in Nat /\ n >= 1 /\ From + n - 1 <= To
      /\ done \in Nat /\ From > done /\ To >= done /\ unprintable \subseteq Nat
      /\ kind = "blob" => From = done + 1 /\ To <= len
  <2>1. /\ From \in Nat /\ To \in Nat /\ len \in Nat /\ done \in Nat /\ From > done /\ To >= done
        /\ kind = "blob" => From = done + 1 /\ To <= len
    BY Given, OstreamAssumption
  <2>2. unprintable \subseteq Nat
    BY OstreamAssumption DEF StreamInv, OstreamInv, TypeOK
  <2> QED
    BY <2>1, <2>2
<1>2. d = From + n - 1 /\ d \in Nat
  BY <1>1
<1>3. Sent(n) = Text(writes, From, d, len)
  BY <1>2, SentIsText
<1>4. From = done + 1
  <2>1. CASE kind = "escape" /\ ToEscape = {}
    <3>1. From = len + 1 /\ done < len + 1
      BY <2>1 DEF From, End, Lines
    <3>2. len # 0 => ~(done < len)
      BY <1>1, <2>1 DEF Whole, ToEscape
    <3> QED
      BY <1>1, <3>1, <3>2
  <2> QED
    BY <2>1 DEF From
<1>5. d <= End /\ End \in Int
  <2>1. CASE kind = "log"
    BY <1>1, <1>2, <2>1 DEF To, End, Lines
  <2>2. CASE kind = "escape" /\ ToEscape = {}
    BY <1>1, <1>2, <2>2 DEF To, End, Lines
  <2>3. CASE kind = "escape" /\ ToEscape # {}
    <3>1. ToEscape \subseteq Nat /\ \A x \in ToEscape : x <= len
      BY <1>1 DEF ToEscape
    <3>2. Min(ToEscape) \in ToEscape
      BY <2>3, <3>1, MinOf
    <3>3. To <= len
      <4>1. Min(ToEscape) \in Nat /\ Min(ToEscape) <= len
        BY <3>1, <3>2
      <4>2. To = IF done + 1 \in ToEscape THEN done + 1 ELSE Min(ToEscape) - 1
        BY <2>3 DEF To
      <4> QED
        BY <1>1, <3>1, <4>1, <4>2
    <3> QED
      BY <1>1, <1>2, <2>3, <3>3 DEF End, Lines
  <2>4. CASE kind \notin Lines
    <3>1. kind # "blob" => To = len
      BY <2>4 DEF To, Lines
    <3> QED
      BY <1>1, <1>2, <2>4, <3>1 DEF End
  <2> QED
    BY <2>1, <2>2, <2>3, <2>4 DEF Lines
<1>6. CutAt(writes, done + 1, End, len, d)
  <2>1. done + 1 \in Int /\ d \in Int /\ (done + 1) - 1 <= d
    BY <1>1, <1>2, <1>4
  <2> QED
    BY <1>5, <2>1, TextCut
<1>7. /\ CommittedFrom(done + 1, len) = Text(writes, done + 1, End, len)
      /\ CommittedFrom(d + 1, len) = Text(writes, d + 1, End, len)
  BY DEF CommittedFrom, End
<1> QED
  BY <1>3, <1>4, <1>6, <1>7 DEF CutAt

LEMMA CommittedSeq ==
  ASSUME NEW a \in Int, NEW l \in Nat
  PROVE  \E S : CommittedFrom(a, l) \in Seq(S)
<1>1. l + 1 \in Int /\ l \in Int
  OBVIOUS
<1> QED
  BY <1>1, TextSeq DEF CommittedFrom

LEMMA CommitKept ==
  ASSUME UNCHANGED <<kind, unprintable, writes>>
  PROVE  CommittedFrom(done + 1, len)' = CommittedFrom(done' + 1, len')
BY DEF CommittedFrom, Text, Form

FollowsInv == OutputFollows /\ Printable /\ (pc = "writing" /\ ~lost_tail => Whole)

(* What is still to come of the write in progress.                         *)
Rest == IF pc \in {"writing", "exited"} THEN CommittedFrom(done + 1, len) ELSE <<>>

LEMMA RestKept ==
  ASSUME UNCHANGED <<output, asked, fell, lost_tail>>, Rest' = Rest, FollowsInv
  PROVE  OutputFollows'
<1>1. OutputFollows = (~fell /\ ~lost_tail => output \o Rest = asked)
  BY DEF OutputFollows, Rest
<1>2. OutputFollows' = (~fell' /\ ~lost_tail' => output' \o Rest' = asked')
  BY DEF OutputFollows, Rest
<1> QED
  BY <1>1, <1>2 DEF FollowsInv

LEMMA WritesFollow ==
  ASSUME StreamInv, FollowsInv, NEW n \in 1..(MaxLen + 1), Writes(n)
  PROVE  OutputFollows'
<1> SUFFICES ASSUME ~fell' /\ ~lost_tail' PROVE OutputFollows'
  BY DEF OutputFollows
<1> DEFINE d == IF kind = "blob" THEN done + n ELSE To
<1>1. /\ pc = "writing" /\ done < End /\ n \in 1..(To - From + 1) /\ pc' = "writing"
      /\ output' = output \o Sent(n) /\ asked' = asked /\ len' = len
      /\ UNCHANGED <<kind, unprintable, writes>> /\ done' = d
      /\ ~fell /\ ~lost_tail /\ (kind # "blob" => ~(n < To - From + 1))
  BY DEF Writes, stream
<1>2. /\ From \in Nat /\ To \in Nat /\ From > done /\ done \in Nat /\ len \in Nat /\ n \in Nat
      /\ unprintable \subseteq Int
  <2>1. From \in Nat /\ To \in Nat /\ From > done /\ done \in Nat /\ len \in Nat /\ n \in Nat
    BY <1>1, Given, OstreamAssumption
  <2>2. unprintable \subseteq Int
    BY OstreamAssumption DEF StreamInv, OstreamInv, TypeOK
  <2> QED
    BY <2>1, <2>2
<1>3. kind # "blob" => n = To - From + 1
  BY <1>1, <1>2
<1>4. d \in Nat
  BY <1>2
<1> DEFINE rest == CommittedFrom(done' + 1, len)
<1>5. CommittedFrom(done + 1, len) = Sent(n) \o rest
  BY <1>1, <1>3, CommitAdvances DEF FollowsInv
<1>6. PICK S : rest \in Seq(S)
  <2>1. done' + 1 \in Int
    BY <1>1, <1>4
  <2> QED
    BY <1>2, <2>1, CommittedSeq
<1> DEFINE s == Sent(n)
<1>7. s \in Seq(Items) /\ output \in Seq(Items)
  BY <1>1, SentItems DEF StreamInv, OstreamInv, TypeOK
<1>8. output \o (s \o rest) = asked
  BY <1>1, <1>5 DEF FollowsInv, OutputFollows
<1>9. CommittedFrom(done + 1, len)' = rest
  BY <1>1, CommitKept
<1>10. output' = output \o s
  BY <1>1
<1> HIDE DEF s, rest, d
<1>11. (output \o s) \o rest = output \o (s \o rest)
  BY <1>6, <1>7
<1>12. output' \o CommittedFrom(done + 1, len)' = asked'
  BY <1>1, <1>8, <1>9, <1>10, <1>11
<1> QED
  BY <1>1, <1>12 DEF OutputFollows

LEMMA EndWriteFollows ==
  ASSUME StreamInv, StreamInv', FollowsInv, NEW l \in Lengths, EndWrite(l)
  PROVE  OutputFollows'
<1> SUFFICES ASSUME ~fell' /\ ~lost_tail' PROVE OutputFollows'
  BY DEF OutputFollows
<1>1. /\ pc = "filled" /\ pc' = "writing" /\ ~fell /\ ~lost_tail /\ done' = 0 /\ len' = l
      /\ asked' = asked \o CommittedFrom(1, l) /\ output' = output
      /\ UNCHANGED <<kind, unprintable, writes>>
  BY DEF EndWrite, StreamInv, OstreamInv, stream
<1>2. output = asked
  <2>1. output \in Seq(Items)
    BY DEF StreamInv, OstreamInv, TypeOK
  <2>2. output \o <<>> = asked
    BY <1>1 DEF FollowsInv, OutputFollows
  <2> QED
    BY <2>1, <2>2
<1>3. CommittedFrom(done + 1, len)' = CommittedFrom(1, l)
  <2>1. done' + 1 = 1
    BY <1>1
  <2>2. CommittedFrom(done + 1, len)' = CommittedFrom(done' + 1, len')
    BY <1>1, CommitKept
  <2>3. CommittedFrom(done' + 1, len') = CommittedFrom(1, l)
    BY <1>1, <2>1
  <2> QED
    BY <2>2, <2>3
<1>4. output' \o CommittedFrom(done + 1, len)' = asked'
  BY <1>1, <1>2, <1>3
<1> QED
  BY <1>1, <1>4 DEF OutputFollows

LEMMA FollowsStep ==
  ASSUME StreamInv, StreamInv', FollowsInv, [Next]_vars
  PROVE  FollowsInv'
<1>1. Printable'
  <2>1. UNCHANGED <<kind, unprintable>>
    BY DEF Next, Call, Step, StartWrite, AssignWrite, EndWrite, Close, Writes, Fails,
       SendFails, Returns, vars, stream
  <2> QED
    BY <2>1 DEF FollowsInv, Printable
<1>10. pc' = "writing" /\ ~lost_tail' => Whole'
  <2>1. ASSUME NEW l \in Lengths, EndWrite(l), ~lost_tail' PROVE Whole'
    <3>1. len' = l /\ ~LosesTail(l) /\ l \in Nat /\ UNCHANGED <<kind, unprintable>>
      <4>1. l \in Nat
        BY OstreamAssumption DEF Lengths
      <4>2. lost_tail' = (lost_tail \/ LosesTail(l)) /\ len' = l /\ UNCHANGED <<kind, unprintable>>
        BY <2>1 DEF EndWrite, stream
      <4> QED
        BY <2>1, <4>1, <4>2
    <3> QED
      BY <3>1 DEF LosesTail, Whole
  <2>2. ASSUME NEW l \in Lengths, StartWrite(l) \/ AssignWrite(l) PROVE pc' # "writing"
    BY <2>2 DEF StartWrite, AssignWrite
  <2>3. CASE SendFails \/ Returns \/ Close
    BY <2>3 DEF SendFails, Returns, Close
  <2>4. CASE Fails \/ UNCHANGED vars \/ \E n \in 1..(MaxLen + 1) : Writes(n)
    <3>1. UNCHANGED <<kind, unprintable, len, lost_tail, pc>>
      BY <2>4 DEF Fails, Writes, vars, stream, history
    <3> QED
      BY <3>1 DEF FollowsInv, Whole
  <2> QED
    BY <2>1, <2>2, <2>3, <2>4 DEF Next, Call, Step
<1>2. ASSUME NEW l \in Lengths, StartWrite(l) \/ AssignWrite(l) PROVE OutputFollows'
  <2>1. /\ pc \in {"idle", "filled"} /\ pc' = "filled"
        /\ UNCHANGED <<output, asked, fell, lost_tail>>
    BY <1>2 DEF StartWrite, AssignWrite
  <2> QED
    BY <2>1 DEF FollowsInv, OutputFollows
<1>3. ASSUME NEW l \in Lengths, EndWrite(l) PROVE OutputFollows'
  BY <1>3, EndWriteFollows
<1>4. ASSUME NEW n \in 1..(MaxLen + 1), Writes(n) PROVE OutputFollows'
  BY <1>4, WritesFollow
<1>5. CASE Fails
  <2>1. fell' = TRUE
    BY <1>5 DEF Fails
  <2> QED
    BY <1>1, <1>10, <2>1 DEF OutputFollows, FollowsInv
<1>6. CASE SendFails
  <2>1. /\ pc = "writing" /\ pc' = "exited"
        /\ UNCHANGED <<kind, unprintable, writes, done, len, output, asked, fell, lost_tail>>
    BY <1>6 DEF SendFails, stream, history
  <2>2. CommittedFrom(done + 1, len)' = CommittedFrom(done + 1, len)
    BY <2>1, CommitKept
  <2>3. Rest' = Rest
    BY <2>1, <2>2 DEF Rest
  <2> QED
    BY <1>1, <1>10, <2>1, <2>3, RestKept DEF FollowsInv
<1>7. CASE Returns
  <2>1. /\ pc = "writing" /\ done >= End /\ pc' = "idle" /\ UNCHANGED <<output, asked, fell, lost_tail>>
    BY <1>7 DEF Returns, history
  <2>2. CommittedFrom(done + 1, len) = <<>>
    BY <2>1, NothingLeft
  <2>3. Rest' = Rest
    BY <2>1, <2>2 DEF Rest
  <2> QED
    BY <1>1, <1>10, <2>1, <2>3, RestKept DEF FollowsInv
<1>8. CASE Close
  <2>1. pc = "idle" /\ pc' = "closed" /\ UNCHANGED <<output, asked, fell, lost_tail>>
    BY <1>8 DEF Close, history
  <2>3. Rest' = Rest
    BY <2>1 DEF Rest
  <2> QED
    BY <1>1, <1>10, <2>1, <2>3, RestKept DEF FollowsInv
<1>9. CASE UNCHANGED vars
  <2>1. UNCHANGED <<pc, kind, unprintable, writes, done, len, output, asked, fell, lost_tail>>
    BY <1>9 DEF vars, stream, history
  <2>2. CommittedFrom(done + 1, len)' = CommittedFrom(done + 1, len)
    BY <2>1, CommitKept
  <2>3. Rest' = Rest
    BY <2>1, <2>2 DEF Rest
  <2> QED
    BY <1>1, <1>10, <2>1, <2>3, RestKept DEF FollowsInv
<1> QED
  BY <1>1, <1>2, <1>3, <1>4, <1>5, <1>6, <1>7, <1>8, <1>9, <1>10 DEF Next, Call, Step, FollowsInv

(* Unless a call fails or falls short, or the escaping log is given a line *)
(* that goes on after its last unprintable byte, what the descriptor was   *)
(* given is, item by item, all that was committed with end_write, up to    *)
(* where the write in progress is: however a line is cut into calls, an    *)
(* escape sequence put in, blob's chunks grown, and whichever buffer the   *)
(* data is in.                                                             *)
THEOREM OutputIsAsAsked == Spec => []OutputFollows
<1>1. Init => FollowsInv
  <2> SUFFICES ASSUME Init PROVE FollowsInv
    OBVIOUS
  <2>1. Printable
    BY DEF Init, Printable
  <2>2. OutputFollows
    BY DEF Init, OutputFollows
  <2> QED
    BY <2>1, <2>2 DEF FollowsInv, Init
<1>2. FollowsInv => OutputFollows
  BY DEF FollowsInv
<1>3. StreamInv /\ StreamInv' /\ FollowsInv /\ [Next]_vars => FollowsInv'
  BY FollowsStep
<1> QED
  BY <1>1, <1>2, <1>3, StreamInit, StreamStep, PTL DEF Spec

-----------------------------------------------------------------------------
(***************************************************************************)
(* The netmap streams.                                                     *)
(***************************************************************************)


(* The neighbours of a slot are slots.                                     *)
LEMMA Neighbours == \A i \in Slots : Succ(i) \in Slots /\ Pred(i) \in Slots
BY NetmapAssumption DEF Slots, Succ, Pred

(* The slots of the rings are places, all of them different, and none of   *)
(* them is None.                                                           *)
LEMMA PlaceFacts ==
  /\ \A i \in Slots : <<Rx, i>> \in Places
  /\ \A r \in TxRings, i \in Slots :
       <<r, i>> \in Places /\ \A j \in Slots : <<r, i>> # <<Rx, j>>
  /\ \A p \in Places : p # None
<1>1. \A r \in TxRings : r # Rx
  BY NetmapAssumption DEF Rx
<1>2. \A r, i : <<r, i>> # <<>>
  OBVIOUS
<1> QED
  BY <1>1, <1>2 DEF Places, TxSlots, RxSlots, None

LEMMA NmInitType == NmInit => NmTypeOK
<1> SUFFICES ASSUME NmInit PROVE NmTypeOK
  OBVIOUS
<1>1. 0 \in Slots /\ N - 1 \in Slots
  BY NetmapAssumption DEF Slots
<1>2. \A x \in {cur, head, tail, given, sent} : x \in [TxRings -> Slots]
  BY <1>1 DEF NmInit
<1>3. committed \in [TxRings -> Seq(0..MaxFrames)] /\ transmitted \in [TxRings -> Seq(0..MaxFrames)]
  BY DEF NmInit
<1>4. buf_idx \in [Places -> Buffers] /\ content \in [Buffers -> 0..MaxFrames]
  BY NetmapAssumption DEF NmInit, Buffers
<1> QED
  BY <1>1, <1>2, <1>3, <1>4, NetmapAssumption DEF NmInit, NmTypeOK

(* What is at hand in the proofs that follow, about the current state.     *)
LEMMA NmTyped ==
  ASSUME NmTypeOK
  PROVE  /\ <<Rx, rx_cur>> \in Places /\ <<Rx, filled>> \in Places
         /\ \A r \in TxRings : <<r, cur[r]>> \in Places /\ <<r, sent[r]>> \in Places
         /\ \A p \in Places : buf_idx[p] \in Buffers /\ content[buf_idx[p]] \in 0..MaxFrames
         /\ ThisFrame \in 0..MaxFrames
<1> USE DEF NmTypeOK
<1>1. \A p \in Places : buf_idx[p] \in Buffers /\ content[buf_idx[p]] \in 0..MaxFrames
  OBVIOUS
<1> QED
  BY <1>1, PlaceFacts DEF ThisFrame

LEMMA TxSyncType ==
  ASSUME NmTypeOK, NEW h \in [TxRings -> Slots], TxSync(h)
  PROVE  given' \in [TxRings -> Slots] /\ tail' \in [TxRings -> Slots]
BY Neighbours DEF NmTypeOK, TxSync

LEMMA CommitType ==
  ASSUME NmTypeOK, NEW r \in TxRings, Commit(r)
  PROVE  /\ \A x \in {cur', head', tail', given'} : x \in [TxRings -> Slots]
         /\ committed' \in [TxRings -> Seq(0..MaxFrames)]
         /\ swapped' \in [TxRings -> BOOLEAN]
<1>1. cur' \in [TxRings -> Slots] /\ head' \in [TxRings -> Slots]
  BY Neighbours DEF NmTypeOK, Commit
<1>2. given' \in [TxRings -> Slots] /\ tail' \in [TxRings -> Slots]
  BY <1>1, TxSyncType DEF NmTypeOK, Commit
<1>3. committed' \in [TxRings -> Seq(0..MaxFrames)]
  BY NmTyped DEF NmTypeOK, Commit
<1> QED
  BY <1>1, <1>2, <1>3 DEF NmTypeOK, Commit

LEMMA CopyToType ==
  ASSUME NmTypeOK, NEW r \in TxRings, CopyTo(r)
  PROVE  content' \in [Buffers -> 0..MaxFrames]
BY NmTyped DEF NmTypeOK, CopyTo

LEMMA NmTypeStep == NmTypeOK /\ [NmNext]_nm_vars => NmTypeOK'
<1> SUFFICES ASSUME NmTypeOK, [NmNext]_nm_vars PROVE NmTypeOK'
  OBVIOUS
<1> USE DEF tx_ring, rx_ring, memory, logs
<1>1. CASE Receive
  <2>1. arrived' \in 0..MaxFrames
    BY <1>1, NetmapAssumption DEF Receive, NmTypeOK
  <2>2. content' \in [Buffers -> 0..MaxFrames] /\ filled' \in Slots
    BY <1>1, <2>1, NmTyped, Neighbours DEF Receive, NmTypeOK
  <2> QED
    BY <1>1, <2>1, <2>2 DEF Receive, NmTypeOK
<1>2. ASSUME NEW r \in TxRings, Transmit(r) PROVE NmTypeOK'
  <2>1. sent' \in [TxRings -> Slots]
    BY <1>2, Neighbours DEF Transmit, NmTypeOK
  <2>2. transmitted' \in [TxRings -> Seq(0..MaxFrames)]
    <3> DEFINE f == content[buf_idx[<<r, sent[r]>>]]
    <3>1. f \in 0..MaxFrames
      BY NmTyped
    <3>2. transmitted' = [transmitted EXCEPT ![r] = Append(@, f)]
      BY <1>2 DEF Transmit
    <3> HIDE DEF f
    <3> QED
      BY <3>1, <3>2 DEF NmTypeOK
  <2> QED
    BY <1>2, <2>1, <2>2 DEF Transmit, NmTypeOK
<1>3. CASE NmStartRead
  BY <1>3 DEF NmStartRead, NmTypeOK
<1>4. CASE RxSync
  BY <1>4, Neighbours DEF RxSync, NmTypeOK
<1>5. CASE NmEndRead
  <2>1. buf_idx' \in [Places -> Buffers]
    BY <1>5, NmTyped DEF NmEndRead, NmTypeOK
  <2> QED
    BY <1>5, <2>1, Neighbours DEF NmEndRead, NmTypeOK
<1>6. CASE Forward
  BY <1>6 DEF Forward, NmTypeOK
<1>7. CASE Poll \/ NmClose
  <2>1. given' \in [TxRings -> Slots] /\ tail' \in [TxRings -> Slots]
    BY <1>7, TxSyncType DEF Poll, NmClose, NmTypeOK
  <2> QED
    BY <1>7, <2>1 DEF Poll, NmClose, NmTypeOK
<1>8. CASE PollTimesOut
  BY <1>8 DEF PollTimesOut, NmTypeOK
<1>9. CASE NmStartWrite
  <2>1. content' \in [Buffers -> 0..MaxFrames] /\ ring_num' \in TxRings
    BY <1>9, CopyToType DEF NmStartWrite
  <2> QED
    BY <1>9, <2>1 DEF NmStartWrite, NmTypeOK
<1>10. CASE EndWriteCopied
  <2>1. ring_num \in TxRings /\ Commit(ring_num)
    BY <1>10 DEF EndWriteCopied, NmTypeOK
  <2> QED
    <3>1. /\ \A x \in {cur', head', tail', given'} : x \in [TxRings -> Slots]
          /\ committed' \in [TxRings -> Seq(0..MaxFrames)]
          /\ swapped' \in [TxRings -> BOOLEAN]
      BY <2>1, CommitType
    <3>2. nm_pc' = "written" /\ UNCHANGED <<sent, rx_ring, memory, ring_num, result, transmitted>>
      BY <1>10, <2>1 DEF EndWriteCopied, Commit
    <3> QED
      BY <3>1, <3>2 DEF NmTypeOK, rx_ring, memory
<1>11. CASE EndWriteOutside
  <2> PICK r \in TxRings : ring_num' = r /\ CopyTo(r) /\ Commit(r)
    BY <1>11 DEF EndWriteOutside
  <2>1. /\ \A x \in {cur', head', tail', given'} : x \in [TxRings -> Slots]
        /\ committed' \in [TxRings -> Seq(0..MaxFrames)]
        /\ swapped' \in [TxRings -> BOOLEAN]
    BY CommitType
  <2>2. content' \in [Buffers -> 0..MaxFrames]
    BY CopyToType
  <2>3. nm_pc' = "written"
    BY DEF Commit
  <2> QED
    BY <1>11, <2>1, <2>2, <2>3 DEF EndWriteOutside, NmTypeOK
<1>12. CASE EndWriteSwapped
  <2> PICK r \in TxRings :
        /\ ring_num' = r
        /\ result' = buf_idx[<<r, cur[r]>>]
        /\ buf_idx' = [buf_idx EXCEPT ![<<r, cur[r]>>] = buf_idx[<<Rx, rx_cur>>]]
        /\ cur' = [cur EXCEPT ![r] = Succ(@)]
        /\ committed' = [committed EXCEPT ![r] = Append(@, ThisFrame)]
        /\ swapped' = [swapped EXCEPT ![r] = TRUE]
    BY <1>12 DEF EndWriteSwapped
  <2>1. result' \in Buffers /\ buf_idx' \in [Places -> Buffers]
    BY NmTyped DEF NmTypeOK
  <2>2. cur' \in [TxRings -> Slots] /\ swapped' \in [TxRings -> BOOLEAN]
    BY Neighbours DEF NmTypeOK
  <2>3. committed' \in [TxRings -> Seq(0..MaxFrames)]
    BY NmTyped DEF NmTypeOK
  <2> QED
    BY <1>12, <2>1, <2>2, <2>3 DEF EndWriteSwapped, NmTypeOK
<1>13. CASE UNCHANGED nm_vars
  BY <1>13 DEF nm_vars, NmTypeOK
<1> QED
  BY <1>1, <1>2, <1>3, <1>4, <1>5, <1>6, <1>7, <1>8, <1>9, <1>10, <1>11, <1>12, <1>13
     DEF NmNext, Driver, Istream, Writer

-----------------------------------------------------------------------------
(* Where the buffers are.                                                  *)

(* Steps that move no buffer: those that leave alone the slots, the result *)
(* and, while a buffer is returned, the caller's place in the program.     *)
LEMMA UnmovedInv ==
  ASSUME NmInv, NmTypeOK', UNCHANGED <<buf_idx, result>>,
         result # None => UNCHANGED <<nm_pc, rx_cur>>
  PROVE  NmInv'
BY DEF NmInv

(* end_read puts the buffer that was returned where one was given away.    *)
LEMMA EndReadInv ==
  ASSUME NmInv, NmTypeOK', NmEndRead
  PROVE  NmInv'
<1>1. CASE result = None
  BY <1>1 DEF NmInv, NmEndRead
<1>2. CASE result # None
  <2> DEFINE here == <<Rx, rx_cur>>
  <2>1. here \in Places
    BY NmTyped DEF NmInv
  <2>2. /\ buf_idx'[here] = result
        /\ \A p \in Places \ {here} : buf_idx'[p] = buf_idx[p]
    BY <1>2, <2>1 DEF NmInv, NmTypeOK, NmEndRead
  <2>3. \A p, q \in Places \ {here} : (p # q => buf_idx[p] # buf_idx[q]) /\ buf_idx[p] # result
    BY <1>2 DEF NmInv
  <2> HIDE DEF here
  <2>4. \A p, q \in Places : p # q => buf_idx'[p] # buf_idx'[q]
    BY <2>2, <2>3
  <2>5. \A p \in Places : buf_idx'[p] # None
    BY PlaceFacts DEF NmTypeOK, Buffers
  <2> QED
    BY <2>4, <2>5 DEF NmInv, NmEndRead
<1> QED
  BY <1>1, <1>2

(* end_write takes the buffer of the receive slot for one of a transmit    *)
(* slot, which from then on is the returned one.                           *)
LEMMA SwapInv ==
  ASSUME NmInv, NmTypeOK', EndWriteSwapped
  PROVE  NmInv'
<1> PICK r \in TxRings :
      /\ result' = buf_idx[<<r, cur[r]>>]
      /\ buf_idx' = [buf_idx EXCEPT ![<<r, cur[r]>>] = buf_idx[<<Rx, rx_cur>>]]
  BY DEF EndWriteSwapped
<1> DEFINE here  == <<Rx, rx_cur>>
           there == <<r, cur[r]>>
<1>1. here \in Places /\ there \in Places /\ here # there
  BY NmTyped, PlaceFacts DEF NmInv, NmTypeOK
<1>2. result = None
  BY DEF NmInv, EndWriteSwapped
<1>3. \A p, q \in Places : p # q => buf_idx[p] # buf_idx[q]
  BY <1>2 DEF NmInv
<1>4. /\ result' = buf_idx[there] /\ buf_idx'[there] = buf_idx[here]
      /\ \A p \in Places \ {there} : buf_idx'[p] = buf_idx[p]
  BY <1>1 DEF NmInv, NmTypeOK
<1>5. result' # None /\ <<Rx, rx_cur'>> = here /\ nm_pc' = "written"
  BY <1>1, <1>4, PlaceFacts DEF NmInv, NmTypeOK, Buffers, EndWriteSwapped, rx_ring
<1> HIDE DEF here, there
<1>6. \A p, q \in Places \ {here} : (p # q => buf_idx'[p] # buf_idx'[q]) /\ buf_idx'[p] # result'
  BY <1>1, <1>3, <1>4
<1> QED
  BY <1>5, <1>6 DEF NmInv

LEMMA NmInvStep == NmInv /\ [NmNext]_nm_vars => NmInv'
<1> SUFFICES ASSUME NmInv, [NmNext]_nm_vars PROVE NmInv'
  OBVIOUS
<1>1. NmTypeOK'
  BY NmTypeStep DEF NmInv
<1>2. CASE NmEndRead
  BY <1>1, <1>2, EndReadInv
<1>3. CASE EndWriteSwapped
  BY <1>1, <1>3, SwapInv
<1>4. CASE ~NmEndRead /\ ~EndWriteSwapped
  <2>1. UNCHANGED <<buf_idx, result>> /\ (result # None => UNCHANGED <<nm_pc, rx_cur>>)
    BY <1>4 DEF NmInv, NmNext, Driver, Istream, Writer, Receive, Transmit, NmStartRead,
                RxSync, Forward, Poll, PollTimesOut, NmStartWrite, EndWriteCopied,
                EndWriteOutside, NmClose, Commit, Wanting,
                tx_ring, rx_ring, memory, logs, nm_vars
  <2> QED
    BY <1>1, <2>1, UnmovedInv
<1> QED
  BY <1>2, <1>3, <1>4

LEMMA NmInitInv == NmInit => NmInv
<1> SUFFICES ASSUME NmInit PROVE NmInv
  OBVIOUS
<1>1. result = None /\ \A p \in Places : buf_idx[p] = p
  BY DEF NmInit
<1> QED
  BY <1>1, NmInitType, PlaceFacts DEF NmInv

(* No buffer of the shared memory is ever in two slots of the rings.       *)
THEOREM EachBufferInOneSlot == NmSpec => []NmInv
BY NmInitInv, NmInvStep, PTL DEF NmSpec

-----------------------------------------------------------------------------
(* The order of the positions in a ring, and what waits between them.      *)

(* How many slots j is ahead of i.                                         *)
Dist(i, j) == IF i <= j THEN j - i ELSE j - i + N

(* On the way round from what has been sent, the driver has been given no  *)
(* more than head, the program has filled at least that, and the slots     *)
(* that are in nobody's hands come last.                                   *)
RingOrder(r) ==
  /\ Dist(sent[r], given[r]) <= Dist(sent[r], head[r])
  /\ Dist(sent[r], head[r]) <= Dist(sent[r], cur[r])
  /\ Dist(sent[r], cur[r]) <= Dist(sent[r], tail[r])

(* What has been committed is what has been sent, followed by what is in   *)
(* the slots that have not been sent.                                      *)
Waiting(r) ==
  /\ Len(committed[r]) = Len(transmitted[r]) + Dist(sent[r], cur[r])
  /\ \A k \in 1..Len(transmitted[r]) : transmitted[r][k] = committed[r][k]
  /\ \A i \in Slots : Dist(sent[r], i) < Dist(sent[r], cur[r]) =>
       content[buf_idx[<<r, i>>]] = committed[r][Len(transmitted[r]) + Dist(sent[r], i) + 1]

(* The frame that is being forwarded is in a slot the driver may not fill. *)
Holding == Wanting \union {"read", "filled", "written"}
RxOrder ==
  /\ Dist(rx_cur, rx_tail) <= Dist(rx_cur, filled)
  /\ Dist(rx_cur, filled) <= Dist(rx_cur, limit)
  /\ nm_pc \in Holding => rx_cur # rx_tail

(* A slot that has been filled and not committed holds the frame.          *)
Prepared == nm_pc = "filled" =>
  /\ cur[ring_num] # tail[ring_num]
  /\ content[buf_idx[<<ring_num, cur[ring_num]>>]] = ThisFrame

NmOrderInv == (\A r \in TxRings : RingOrder(r) /\ Waiting(r)) /\ RxOrder /\ Prepared

LEMMA DistFacts ==
  /\ \A i, j \in Slots : Dist(i, j) \in Nat /\ Dist(i, j) < N /\ (Dist(i, j) = 0 <=> i = j)
  /\ \A i \in Slots : Dist(i, Pred(i)) = N - 1 /\ Dist(Succ(i), i) = N - 1
  /\ \A i, j \in Slots : i # j => Dist(Succ(i), j) = Dist(i, j) - 1
  /\ \A i, j \in Slots : Dist(i, j) # N - 1 => Dist(i, Succ(j)) = Dist(i, j) + 1
  /\ \A i, j, k \in Slots : Dist(i, j) = Dist(i, k) => j = k
BY NetmapAssumption DEF Slots, Dist, Succ, Pred

(* A position that has not reached a later one may move on.                *)
LEMMA MoveOn ==
  ASSUME NEW i \in Slots, NEW j \in Slots, NEW k \in Slots,
         Dist(i, j) <= Dist(i, k), j # k
  PROVE  Dist(i, Succ(j)) = Dist(i, j) + 1 /\ Dist(i, Succ(j)) <= Dist(i, k)
<1>1. /\ Dist(i, j) \in Nat /\ Dist(i, k) \in Nat
      /\ Dist(i, k) < N /\ Dist(i, j) # Dist(i, k)
  BY DistFacts
<1>2. Dist(i, j) < Dist(i, k)
  BY <1>1
<1> QED
  BY <1>1, <1>2, DistFacts, NetmapAssumption

(* The frames that wait on ring r are still where they were.               *)
Kept(r) ==
  \A i \in Slots : Dist(sent[r], i) < Dist(sent[r], cur[r]) =>
    content'[buf_idx'[<<r, i>>]] = content[buf_idx[<<r, i>>]]

LEMMA NothingSent ==
  ASSUME NEW r \in TxRings, Waiting(r), Kept(r),
         UNCHANGED <<sent[r], cur[r], committed[r], transmitted[r]>>
  PROVE  Waiting(r)'
BY DEF Waiting, Kept

(* One more frame waits.                                                   *)
LEMMA OneAdded ==
  ASSUME NmTypeOK, NEW r \in TxRings, NEW f \in 0..MaxFrames,
         RingOrder(r), Waiting(r), Kept(r), cur[r] # tail[r],
         UNCHANGED <<sent[r], transmitted[r]>>,
         cur'[r] = Succ(cur[r]),
         committed'[r] = Append(committed[r], f),
         content'[buf_idx'[<<r, cur[r]>>]] = f
  PROVE  Waiting(r)' /\ Dist(sent[r], cur'[r]) = Dist(sent[r], cur[r]) + 1
         /\ Dist(sent[r], cur'[r]) <= Dist(sent[r], tail[r])
<1> DEFINE n == Len(committed[r])
           t == Len(transmitted[r])
           d(i) == Dist(sent[r], i)
<1>1. /\ sent[r] \in Slots /\ cur[r] \in Slots /\ tail[r] \in Slots
      /\ committed[r] \in Seq(0..MaxFrames) /\ transmitted[r] \in Seq(0..MaxFrames)
  BY DEF NmTypeOK
<1>2. d(cur'[r]) = d(cur[r]) + 1 /\ d(cur'[r]) <= d(tail[r])
  BY <1>1, MoveOn DEF RingOrder
<1>3. n \in Nat /\ t \in Nat /\ d(cur[r]) \in Nat /\ n = t + d(cur[r])
  <2>1. n \in Nat /\ t \in Nat
    BY <1>1
  <2>2. d(cur[r]) \in Nat
    BY <1>1, DistFacts
  <2>3. n = t + d(cur[r])
    BY DEF Waiting
  <2> QED
    BY <2>1, <2>2, <2>3
<1>4. /\ Len(committed'[r]) = n + 1
      /\ committed'[r][n + 1] = f
      /\ \A k \in 1..n : committed'[r][k] = committed[r][k]
  BY <1>1
<1>5. \A k \in 1..t : transmitted'[r][k] = committed'[r][k]
  BY <1>3, <1>4 DEF Waiting
<1>6. ASSUME NEW i \in Slots, d(i) < d(cur'[r])
      PROVE  content'[buf_idx'[<<r, i>>]] = committed'[r][t + d(i) + 1]
  <2>1. d(i) \in Nat
    BY <1>1, DistFacts
  <2>2. CASE d(i) = d(cur[r])
    <3>1. i = cur[r]
      BY <1>1, <2>2, DistFacts
    <3>2. t + d(i) + 1 = n + 1
      BY <1>3, <2>2
    <3> QED
      BY <1>4, <3>1, <3>2
  <2>3. CASE d(i) < d(cur[r])
    <3>1. t + d(i) + 1 \in 1..n
      BY <1>3, <2>1, <2>3
    <3> QED
      BY <1>4, <2>3, <3>1 DEF Waiting, Kept
  <2>4. d(i) = d(cur[r]) \/ d(i) < d(cur[r])
    <3>1. d(i) < d(cur[r]) + 1
      BY <1>2, <1>6
    <3>2. d(cur[r]) \in Nat
      BY <1>3
    <3> HIDE DEF d
    <3> QED
      BY <2>1, <3>1, <3>2
  <2> QED
    BY <2>2, <2>3, <2>4
<1>7. Len(committed'[r]) = t + d(cur'[r])
  <2>1. /\ Len(committed'[r]) = n + 1 /\ d(cur'[r]) = d(cur[r]) + 1
        /\ n \in Nat /\ t \in Nat /\ d(cur[r]) \in Nat /\ n = t + d(cur[r])
    BY <1>2, <1>3, <1>4
  <2> HIDE DEF n, t, d
  <2> QED
    BY <2>1
<1> QED
  BY <1>2, <1>5, <1>6, <1>7 DEF Waiting

(* One frame less waits: the first.                                        *)
LEMMA OneSent ==
  ASSUME NmTypeOK, NEW r \in TxRings, RingOrder(r), Waiting(r), Transmit(r)
  PROVE  RingOrder(r)' /\ Waiting(r)'
<1> DEFINE t == Len(transmitted[r])
           d(i) == Dist(sent[r], i)
           e(i) == Dist(sent'[r], i)
           f == content[buf_idx[<<r, sent[r]>>]]
<1>1. /\ \A x \in {cur[r], head[r], tail[r], given[r], sent[r]} : x \in Slots
      /\ committed[r] \in Seq(0..MaxFrames) /\ transmitted[r] \in Seq(0..MaxFrames)
  BY DEF NmTypeOK
<1>2. /\ sent[r] # given[r] /\ sent'[r] = Succ(sent[r])
      /\ transmitted'[r] = Append(transmitted[r], f)
      /\ UNCHANGED <<cur, head, tail, given, committed, content, buf_idx>>
  BY DEF Transmit, NmTypeOK, memory
<1>3. \A x \in {cur[r], head[r], tail[r], given[r]} :
        d(x) \in Nat \ {0} /\ d(x) < N /\ e(x) = d(x) - 1
  <2>1. \A x \in {cur[r], head[r], tail[r], given[r], sent[r]} :
          d(x) \in Nat /\ d(x) < N /\ (d(x) = 0 <=> x = sent[r])
    BY <1>1, DistFacts
  <2>2. d(given[r]) > 0 /\ d(head[r]) > 0 /\ d(cur[r]) > 0 /\ d(tail[r]) > 0
    BY <1>2, <2>1 DEF RingOrder
  <2> SUFFICES ASSUME NEW x \in {cur[r], head[r], tail[r], given[r]}
               PROVE  d(x) \in Nat \ {0} /\ d(x) < N /\ e(x) = d(x) - 1
    OBVIOUS
  <2>3. x \in Slots /\ d(x) \in Nat \ {0} /\ d(x) < N /\ x # sent[r]
    BY <1>1, <2>1, <2>2
  <2>4. Dist(Succ(sent[r]), x) = d(x) - 1
    BY <1>1, <2>3, DistFacts
  <2> QED
    BY <1>2, <2>3, <2>4
<1>4. RingOrder(r)'
  BY <1>2, <1>3 DEF RingOrder
<1>5. t \in Nat /\ Len(transmitted'[r]) = t + 1 /\ f = committed[r][t + 1]
  <2>1. d(sent[r]) = 0 /\ d(sent[r]) < d(cur[r])
    <3>1. d(sent[r]) = 0
      BY <1>1, DistFacts
    <3>2. d(cur[r]) \in Nat \ {0}
      BY <1>3
    <3> QED
      BY <3>1, <3>2
  <2>2. f = committed[r][t + d(sent[r]) + 1]
    BY <1>1, <2>1 DEF Waiting
  <2> QED
    BY <1>1, <1>2, <2>1, <2>2
<1>6. \A k \in 1..(t + 1) : transmitted'[r][k] = committed'[r][k]
  <2>1. \A k \in 1..t : transmitted'[r][k] = transmitted[r][k]
    BY <1>1, <1>2
  <2>2. transmitted'[r][t + 1] = f
    BY <1>1, <1>2
  <2> QED
    BY <1>2, <1>5, <2>1, <2>2 DEF Waiting
<1>7. Len(committed'[r]) = t + 1 + e(cur'[r])
  BY <1>2, <1>3, <1>5 DEF Waiting
<1>8. ASSUME NEW i \in Slots, e(i) < e(cur'[r])
      PROVE  content'[buf_idx'[<<r, i>>]] = committed'[r][t + 1 + e(i) + 1]
  <2>1. i # sent[r]
    <3>1. Dist(Succ(sent[r]), sent[r]) = N - 1
      BY <1>1, DistFacts
    <3>2. e(cur'[r]) = d(cur[r]) - 1 /\ d(cur[r]) \in Nat /\ d(cur[r]) < N
      BY <1>2, <1>3
    <3> QED
      BY <1>2, <1>8, <3>1, <3>2, NetmapAssumption
  <2>2. d(i) \in Nat /\ e(i) = d(i) - 1
    BY <1>1, <1>2, <2>1, DistFacts
  <2>3. d(i) < d(cur[r]) /\ t + 1 + e(i) + 1 = t + d(i) + 1
    <3>1. e(cur'[r]) = d(cur[r]) - 1 /\ d(cur[r]) \in Nat
      BY <1>2, <1>3
    <3>2. e(i) < e(cur'[r])
      BY <1>8
    <3>3. t \in Nat
      BY <1>5
    <3> HIDE DEF t, d, e
    <3>4. d(i) - 1 < d(cur[r]) - 1
      BY <2>2, <3>1, <3>2
    <3>5. d(i) < d(cur[r])
      BY <2>2, <3>1, <3>4
    <3>6. t + 1 + e(i) + 1 = t + d(i) + 1
      BY <2>2, <3>3
    <3> QED
      BY <3>5, <3>6
  <2> QED
    BY <1>2, <2>3 DEF Waiting
<1> QED
  BY <1>4, <1>5, <1>6, <1>7, <1>8 DEF Waiting

(* A sync leaves the driver with all up to head, and frees what was sent.  *)
LEMMA SyncOrder ==
  ASSUME NmTypeOK', NEW r \in TxRings, sent'[r] = sent[r],
         TxSync(head'), sent[r] \in Slots,
         Dist(sent'[r], head'[r]) <= Dist(sent'[r], cur'[r])
  PROVE  RingOrder(r)'
<1>1. given'[r] = head'[r] /\ tail'[r] = Pred(sent[r])
  BY DEF TxSync
<1>2. head'[r] \in Slots /\ cur'[r] \in Slots
  BY DEF NmTypeOK
<1>3. /\ Dist(sent'[r], tail'[r]) = N - 1
      /\ Dist(sent'[r], head'[r]) \in Nat
      /\ Dist(sent'[r], cur'[r]) \in Nat /\ Dist(sent'[r], cur'[r]) < N
  BY <1>1, <1>2, DistFacts
<1> QED
  BY <1>1, <1>3, NetmapAssumption DEF RingOrder

(* end_write commits a slot that holds the frame.                          *)
LEMMA CommitOrder ==
  ASSUME NmTypeOK, NmTypeOK', NEW r \in TxRings, Commit(r), cur[r] # tail[r],
         \A q \in TxRings : RingOrder(q) /\ Waiting(q) /\ Kept(q),
         content'[buf_idx'[<<r, cur[r]>>]] = ThisFrame,
         UNCHANGED <<sent, transmitted>>
  PROVE  \A q \in TxRings : RingOrder(q)' /\ Waiting(q)'
<1>1. /\ cur'[r] = Succ(cur[r]) /\ head'[r] = cur'[r]
      /\ committed'[r] = Append(committed[r], ThisFrame)
      /\ \A q \in TxRings \ {r} : UNCHANGED <<cur[q], head[q], committed[q]>>
  BY DEF Commit, NmTypeOK
<1> SUFFICES ASSUME NEW q \in TxRings PROVE RingOrder(q)' /\ Waiting(q)'
  OBVIOUS
<1>2. \A x \in {cur[q], head[q], given[q], tail[q], cur'[q], head'[q], sent[q]} : x \in Slots
  BY DEF NmTypeOK
<1>3. \A x \in {cur[q], head[q], given[q], tail[q], cur'[q], head'[q]} : Dist(sent[q], x) \in Nat
  BY <1>2, DistFacts
<1>4. Waiting(q)' /\ Dist(sent[q], cur[q]) <= Dist(sent[q], cur'[q])
      /\ Dist(sent[q], cur'[q]) <= Dist(sent[q], tail[q])
  <2>1. CASE q = r
    <3>1. /\ RingOrder(r) /\ Waiting(r) /\ Kept(r)
          /\ sent'[r] = sent[r] /\ transmitted'[r] = transmitted[r]
          /\ ThisFrame \in 0..MaxFrames
      BY NmTyped
    <3>2. Waiting(r)' /\ Dist(sent[r], cur'[r]) = Dist(sent[r], cur[r]) + 1
          /\ Dist(sent[r], cur'[r]) <= Dist(sent[r], tail[r])
      BY <1>1, <3>1, OneAdded
    <3> QED
      BY <1>3, <2>1, <3>2
  <2>2. CASE q # r
    BY <1>1, <1>3, <2>2, NothingSent DEF RingOrder
  <2> QED
    BY <2>1, <2>2
<1>5. /\ Dist(sent[q], given[q]) <= Dist(sent[q], head'[q])
      /\ Dist(sent[q], head'[q]) <= Dist(sent[q], cur'[q])
  BY <1>1, <1>3, <1>4 DEF RingOrder
<1>6. RingOrder(q)'
  <2>1. CASE TxSync(head')
    BY <1>2, <1>5, <2>1, SyncOrder
  <2>2. CASE UNCHANGED <<given, tail>>
    BY <1>4, <1>5, <2>2 DEF RingOrder
  <2> QED
    BY <2>1, <2>2 DEF Commit
<1> QED
  BY <1>4, <1>6

(* Steps that touch neither the transmit rings nor what is in their slots. *)
LEMMA SlotsKept ==
  ASSUME NmOrderInv, UNCHANGED <<tx_ring, committed, transmitted>>,
         \A r \in TxRings, i \in Slots :
           content'[buf_idx'[<<r, i>>]] = content[buf_idx[<<r, i>>]]
  PROVE  \A r \in TxRings : RingOrder(r)' /\ Waiting(r)'
BY NothingSent DEF NmOrderInv, Kept, RingOrder, tx_ring

(* The driver does not write to a frame that is being forwarded.           *)
LEMMA NotFilled ==
  ASSUME NmTypeOK, RxOrder, nm_pc \in Holding
  PROVE  filled # rx_cur
<1>1. rx_cur \in Slots /\ rx_tail \in Slots /\ filled \in Slots
  BY DEF NmTypeOK
<1>2. Dist(rx_cur, rx_tail) \in Nat \ {0} /\ Dist(rx_cur, filled) \in Nat
  BY <1>1, DistFacts DEF RxOrder
<1>3. Dist(rx_cur, filled) # 0
  BY <1>2 DEF RxOrder
<1> QED
  BY <1>1, <1>3, DistFacts

LEMMA ReceiveOrder ==
  ASSUME NmInv, NmOrderInv, Receive
  PROVE  NmOrderInv'
<1> USE DEF rx_ring, tx_ring, logs
<1>1. NmTypeOK
  BY DEF NmInv
<1>2. nm_pc = "written" => filled # rx_cur
  BY <1>1, NotFilled DEF NmOrderInv, Holding
<1>3. \A r \in TxRings, i \in Slots : buf_idx[<<r, i>>] # buf_idx[<<Rx, filled>>]
  BY <1>1, <1>2, PlaceFacts, NmTyped DEF NmInv
<1>4. \A r \in TxRings, i \in Slots :
        content'[buf_idx'[<<r, i>>]] = content[buf_idx[<<r, i>>]]
  BY <1>1, <1>3, PlaceFacts DEF Receive, NmTypeOK
<1>5. \A r \in TxRings : RingOrder(r)' /\ Waiting(r)'
  BY <1>4, SlotsKept DEF Receive
<1>6. RxOrder'
  <2>1. {rx_cur, rx_tail, filled, limit} \subseteq Slots
    BY <1>1 DEF NmTypeOK
  <2>2. Dist(rx_cur, Succ(filled)) = Dist(rx_cur, filled) + 1
        /\ Dist(rx_cur, Succ(filled)) <= Dist(rx_cur, limit)
    BY <2>1, MoveOn DEF Receive, NmOrderInv, RxOrder
  <2>3. Dist(rx_cur, rx_tail) \in Nat /\ Dist(rx_cur, filled) \in Nat
    BY <2>1, DistFacts
  <2> QED
    BY <2>2, <2>3 DEF Receive, NmOrderInv, RxOrder
<1>7. Prepared'
  <2> SUFFICES ASSUME nm_pc = "filled" PROVE Prepared'
    BY DEF Receive, Prepared
  <2>1. filled # rx_cur /\ result = None
    BY <1>1, NotFilled DEF NmOrderInv, Holding, NmInv
  <2>2. buf_idx[<<Rx, rx_cur>>] # buf_idx[<<Rx, filled>>]
    BY <1>1, <2>1, NmTyped DEF NmInv
  <2>3. ThisFrame' = ThisFrame
    BY <1>1, <2>2, NmTyped DEF Receive, ThisFrame, NmTypeOK
  <2>4. cur[ring_num] \in Slots /\ ring_num \in TxRings
    BY <1>1 DEF NmTypeOK
  <2> QED
    BY <1>4, <2>3, <2>4 DEF Receive, NmOrderInv, Prepared
<1> QED
  BY <1>5, <1>6, <1>7 DEF NmOrderInv

LEMMA TransmitOrder ==
  ASSUME NmInv, NmOrderInv, NEW r \in TxRings, Transmit(r)
  PROVE  NmOrderInv'
<1> USE DEF rx_ring, memory
<1>1. ASSUME NEW q \in TxRings PROVE RingOrder(q)' /\ Waiting(q)'
  <2>1. CASE q = r
    BY <2>1, OneSent DEF NmInv, NmOrderInv
  <2>2. CASE q # r
    <3>1. UNCHANGED <<sent[q], cur[q], head[q], tail[q], given[q], committed[q], transmitted[q]>>
      BY <2>2 DEF Transmit, NmInv, NmTypeOK
    <3>2. Kept(q)
      BY DEF Kept, Transmit
    <3> QED
      BY <3>1, <3>2, NothingSent DEF NmOrderInv, RingOrder
  <2> QED
    BY <2>1, <2>2
<1>2. RxOrder' /\ Prepared'
  BY DEF Transmit, NmOrderInv, RxOrder, Prepared, ThisFrame
<1> QED
  BY <1>1, <1>2 DEF NmOrderInv

(* The steps of the istream.                                               *)
LEMMA IstreamOrder ==
  ASSUME NmInv, NmInv', NmOrderInv, Istream
  PROVE  NmOrderInv'
<1> USE DEF rx_ring, tx_ring, memory, logs
<1>1. NmTypeOK
  BY DEF NmInv
<1>2. \A r \in TxRings, i \in Slots :
        content'[buf_idx'[<<r, i>>]] = content[buf_idx[<<r, i>>]]
  BY <1>1, PlaceFacts DEF Istream, NmStartRead, RxSync, NmEndRead, NmTypeOK
<1>3. \A r \in TxRings : RingOrder(r)' /\ Waiting(r)'
  BY <1>2, SlotsKept DEF Istream, NmStartRead, RxSync, NmEndRead
<1>4. {rx_cur, rx_tail, filled, limit} \subseteq Slots
  BY <1>1 DEF NmTypeOK
<1>5. RxOrder'
  <2>1. CASE NmStartRead
    BY <2>1 DEF NmStartRead, NmOrderInv, RxOrder
  <2>2. CASE RxSync
    <3>1. /\ Dist(rx_cur, filled) \in Nat /\ Dist(rx_cur, filled) < N
          /\ Dist(rx_cur, Pred(rx_cur)) = N - 1
      BY <1>4, DistFacts
    <3> QED
      BY <2>2, <3>1, NetmapAssumption DEF RxSync, RxOrder, Holding, Wanting
  <2>3. CASE NmEndRead
    <3>1. rx_cur # rx_tail /\ rx_cur' = Succ(rx_cur) /\ nm_pc' = "idle"
      BY <2>3 DEF NmEndRead, NmOrderInv, RxOrder, Holding
    <3>2. /\ Dist(rx_cur, rx_tail) \in Nat \ {0}
          /\ Dist(rx_cur, filled) \in Nat /\ Dist(rx_cur, limit) \in Nat
      BY <1>4, <3>1, DistFacts
    <3>3. rx_cur # filled /\ rx_cur # limit
      BY <1>4, <3>2, DistFacts DEF NmOrderInv, RxOrder
    <3>4. /\ Dist(rx_cur', rx_tail) = Dist(rx_cur, rx_tail) - 1
          /\ Dist(rx_cur', filled) = Dist(rx_cur, filled) - 1
          /\ Dist(rx_cur', limit) = Dist(rx_cur, limit) - 1
      BY <1>4, <3>1, <3>3, DistFacts
    <3> QED
      BY <2>3, <3>1, <3>2, <3>4 DEF NmEndRead, NmOrderInv, RxOrder, Holding, Wanting
  <2> QED
    BY <2>1, <2>2, <2>3 DEF Istream
<1>6. Prepared'
  BY DEF Istream, NmStartRead, RxSync, NmEndRead, Prepared
<1> QED
  BY <1>3, <1>5, <1>6 DEF NmOrderInv

-----------------------------------------------------------------------------
(* The steps of the ostream.                                               *)

(* Syncing, in poll or at close.                                           *)
LEMMA PollOrder ==
  ASSUME NmInv, NmInv', NmOrderInv, Poll \/ NmClose
  PROVE  NmOrderInv'
<1> USE DEF rx_ring, memory
<1>1. TxSync(head') /\ UNCHANGED <<cur, head, sent, committed, transmitted, content, buf_idx>>
  BY DEF Poll, NmClose, TxSync, logs
<1>2. ASSUME NEW r \in TxRings PROVE RingOrder(r)' /\ Waiting(r)'
  <2>1. Kept(r) /\ sent[r] \in Slots
    BY <1>1 DEF Kept, NmInv, NmTypeOK
  <2>2. Dist(sent'[r], head'[r]) <= Dist(sent'[r], cur'[r])
    BY <1>1 DEF NmOrderInv, RingOrder
  <2> QED
    BY <1>1, <2>1, <2>2, NothingSent, SyncOrder DEF NmOrderInv, NmInv
<1>3. nm_pc # "filled" /\ nm_pc' # "filled"
  BY DEF Poll, NmClose, Wanting
<1>4. nm_pc' \in Holding => nm_pc \in Holding
  BY DEF Poll, NmClose, Holding, Wanting
<1>5. RxOrder' /\ Prepared'
  BY <1>3, <1>4 DEF Poll, NmClose, NmOrderInv, RxOrder, Prepared
<1> QED
  BY <1>2, <1>5 DEF NmOrderInv

(* The frame is copied to a free slot: the frames that wait stay as they   *)
(* are, and so does the original.                                          *)
LEMMA CopyOrder ==
  ASSUME NmInv, NmOrderInv, NEW r \in TxRings, cur[r] # tail[r], result = None,
         CopyTo(r), UNCHANGED <<buf_idx, rx_cur>>
  PROVE  /\ \A q \in TxRings : Kept(q)
         /\ content'[buf_idx'[<<r, cur[r]>>]] = ThisFrame
         /\ ThisFrame' = ThisFrame
<1> DEFINE there == <<r, cur[r]>>
<1>1. /\ NmTypeOK /\ there \in Places /\ <<Rx, rx_cur>> \in Places /\ there # <<Rx, rx_cur>>
      /\ cur[r] \in Slots
  BY NmTyped, PlaceFacts DEF NmInv, NmTypeOK
<1>2. content'[buf_idx[there]] = ThisFrame
  BY <1>1, NmTyped DEF CopyTo, NmTypeOK
<1>3. \A p \in Places \ {there} : content'[buf_idx[p]] = content[buf_idx[p]]
  BY <1>1, NmTyped DEF NmInv, CopyTo, NmTypeOK
<1>4. ASSUME NEW q \in TxRings PROVE Kept(q)
  <2> SUFFICES ASSUME NEW i \in Slots, Dist(sent[q], i) < Dist(sent[q], cur[q])
               PROVE  content'[buf_idx'[<<q, i>>]] = content[buf_idx[<<q, i>>]]
    BY DEF Kept
  <2>1. Dist(sent[q], cur[q]) \in Nat /\ Dist(sent[q], i) \in Nat
    BY <1>1, DistFacts DEF NmTypeOK
  <2>2. i # cur[q]
    BY <2>1
  <2>3. <<q, i>> # there /\ <<q, i>> \in Places
    BY <2>2, PlaceFacts
  <2> QED
    BY <1>3, <2>3
<1>5. ThisFrame' = ThisFrame
  BY <1>1, <1>3 DEF ThisFrame
<1> QED
  BY <1>2, <1>4, <1>5

LEMMA StartWriteOrder ==
  ASSUME NmInv, NmOrderInv, NmStartWrite
  PROVE  NmOrderInv'
<1> USE DEF rx_ring, tx_ring, logs
<1> PICK r \in TxRings : FirstFree(r) /\ ring_num' = r /\ CopyTo(r)
  BY DEF NmStartWrite
<1>1. cur[r] # tail[r] /\ result = None
  BY DEF FirstFree, NmInv, NmStartWrite
<1>2. /\ \A q \in TxRings : Kept(q)
      /\ content'[buf_idx'[<<r, cur[r]>>]] = ThisFrame /\ ThisFrame' = ThisFrame
  BY <1>1, CopyOrder DEF NmStartWrite
<1>3. \A q \in TxRings : RingOrder(q)' /\ Waiting(q)'
  BY <1>2, NothingSent DEF NmOrderInv, NmStartWrite, RingOrder
<1>4. RxOrder' /\ Prepared'
  BY <1>1, <1>2 DEF NmStartWrite, NmOrderInv, RxOrder, Prepared, Holding, Wanting
<1> QED
  BY <1>3, <1>4 DEF NmOrderInv

LEMMA CopiedOrder ==
  ASSUME NmInv, NmInv', NmOrderInv, EndWriteCopied
  PROVE  NmOrderInv'
<1> USE DEF rx_ring, memory
<1>1. /\ NmTypeOK /\ NmTypeOK' /\ ring_num \in TxRings /\ Commit(ring_num)
      /\ cur[ring_num] # tail[ring_num]
      /\ content'[buf_idx'[<<ring_num, cur[ring_num]>>]] = ThisFrame
  BY DEF NmInv, NmTypeOK, EndWriteCopied, NmOrderInv, Prepared
<1>2. \A q \in TxRings : Kept(q)
  BY DEF EndWriteCopied, Kept
<1>3. \A q \in TxRings : RingOrder(q)' /\ Waiting(q)'
  BY <1>1, <1>2, CommitOrder DEF EndWriteCopied, NmOrderInv
<1>4. RxOrder' /\ Prepared'
  BY <1>1 DEF EndWriteCopied, Commit, NmOrderInv, RxOrder, Prepared, Holding
<1> QED
  BY <1>3, <1>4 DEF NmOrderInv

LEMMA OutsideOrder ==
  ASSUME NmInv, NmInv', NmOrderInv, EndWriteOutside
  PROVE  NmOrderInv'
<1> USE DEF rx_ring
<1> PICK r \in TxRings : FirstFree(r) /\ CopyTo(r) /\ Commit(r)
  BY DEF EndWriteOutside
<1>1. cur[r] # tail[r] /\ result = None
  BY DEF FirstFree, NmInv, EndWriteOutside
<1>2. \A q \in TxRings : Kept(q)
  BY <1>1, CopyOrder DEF EndWriteOutside
<1>3. content'[buf_idx'[<<r, cur[r]>>]] = ThisFrame
  BY <1>1, CopyOrder DEF EndWriteOutside
<1>4. \A q \in TxRings : RingOrder(q)' /\ Waiting(q)'
  BY <1>1, <1>2, <1>3, CommitOrder DEF EndWriteOutside, NmOrderInv, NmInv
<1>5. RxOrder' /\ Prepared'
  BY DEF EndWriteOutside, Commit, NmOrderInv, RxOrder, Prepared, Holding, Wanting
<1> QED
  BY <1>4, <1>5 DEF NmOrderInv

LEMMA SwapOrder ==
  ASSUME NmInv, NmInv', NmOrderInv, EndWriteSwapped
  PROVE  NmOrderInv'
<1> USE DEF rx_ring
<1>0. PICK r \in TxRings :
      /\ FirstFree(r)
      /\ buf_idx' = [buf_idx EXCEPT ![<<r, cur[r]>>] = buf_idx[<<Rx, rx_cur>>]]
      /\ cur' = [cur EXCEPT ![r] = Succ(@)]
      /\ committed' = [committed EXCEPT ![r] = Append(@, ThisFrame)]
  BY DEF EndWriteSwapped
<1>1. /\ NmTypeOK /\ cur[r] # tail[r] /\ <<r, cur[r]>> \in Places /\ ThisFrame \in 0..MaxFrames
      /\ UNCHANGED <<head, tail, given, sent, content, transmitted>>
  BY <1>0, NmTyped DEF FirstFree, NmInv, EndWriteSwapped
<1>2. /\ content'[buf_idx'[<<r, cur[r]>>]] = ThisFrame
      /\ \A p \in Places \ {<<r, cur[r]>>} : content'[buf_idx'[p]] = content[buf_idx[p]]
  BY <1>0, <1>1 DEF NmTypeOK, ThisFrame
<1>3. ASSUME NEW q \in TxRings PROVE Kept(q)
  <2> SUFFICES ASSUME NEW i \in Slots, Dist(sent[q], i) < Dist(sent[q], cur[q])
               PROVE  content'[buf_idx'[<<q, i>>]] = content[buf_idx[<<q, i>>]]
    BY DEF Kept
  <2>1. Dist(sent[q], cur[q]) \in Nat /\ Dist(sent[q], i) \in Nat
    BY <1>1, DistFacts DEF NmTypeOK
  <2>2. <<q, i>> # <<r, cur[r]>> /\ <<q, i>> \in Places
    BY <2>1, PlaceFacts
  <2> QED
    BY <1>2, <2>2
<1>4. /\ cur'[r] = Succ(cur[r]) /\ committed'[r] = Append(committed[r], ThisFrame)
      /\ \A q \in TxRings \ {r} : UNCHANGED <<cur[q], committed[q]>>
  BY <1>0, <1>1 DEF NmTypeOK
<1>5. ASSUME NEW q \in TxRings PROVE RingOrder(q)' /\ Waiting(q)'
  <2>1. CASE q = r
    <3>1. RingOrder(r) /\ Waiting(r) /\ Kept(r)
      BY <1>3 DEF NmOrderInv
    <3>2. Waiting(r)' /\ Dist(sent[r], cur'[r]) = Dist(sent[r], cur[r]) + 1
          /\ Dist(sent[r], cur'[r]) <= Dist(sent[r], tail[r])
      <4>1. sent'[r] = sent[r] /\ transmitted'[r] = transmitted[r]
        BY <1>1
      <4> QED
        BY <1>1, <1>2, <1>4, <3>1, <4>1, OneAdded
    <3>3. Dist(sent[r], cur[r]) \in Nat /\ Dist(sent[r], head[r]) \in Nat
      <4>1. sent[r] \in Slots /\ cur[r] \in Slots /\ head[r] \in Slots
        BY <1>1 DEF NmTypeOK
      <4> QED
        BY <4>1, DistFacts
    <3> QED
      BY <1>1, <2>1, <3>1, <3>2, <3>3 DEF RingOrder
  <2>2. CASE q # r
    BY <1>1, <1>3, <1>4, <2>2, NothingSent DEF NmOrderInv, RingOrder
  <2> QED
    BY <2>1, <2>2
<1>6. RxOrder' /\ Prepared'
  BY DEF EndWriteSwapped, NmOrderInv, RxOrder, Prepared, Holding, Wanting
<1> QED
  BY <1>5, <1>6 DEF NmOrderInv

LEMMA NmOrderStep == NmInv /\ NmOrderInv /\ [NmNext]_nm_vars => NmOrderInv'
<1> SUFFICES ASSUME NmInv, NmOrderInv, [NmNext]_nm_vars PROVE NmOrderInv'
  OBVIOUS
<1>1. NmInv'
  BY NmInvStep
<1>2. CASE Forward \/ PollTimesOut
  <2>1. \A r \in TxRings : RingOrder(r)' /\ Waiting(r)'
    BY <1>2, SlotsKept DEF Forward, PollTimesOut, memory, logs
  <2>2. RxOrder' /\ Prepared'
    BY <1>2 DEF Forward, PollTimesOut, NmOrderInv, RxOrder, Prepared, Holding, Wanting, rx_ring
  <2> QED
    BY <2>1, <2>2 DEF NmOrderInv
<1>3. CASE UNCHANGED nm_vars
  <2>1. \A r \in TxRings : RingOrder(r)' /\ Waiting(r)'
    BY <1>3, SlotsKept DEF nm_vars, memory, logs
  <2>2. RxOrder' /\ Prepared'
    BY <1>3 DEF nm_vars, NmOrderInv, RxOrder, Prepared, ThisFrame, rx_ring, tx_ring, memory
  <2> QED
    BY <2>1, <2>2 DEF NmOrderInv
<1> QED
  BY <1>1, <1>2, <1>3, ReceiveOrder, TransmitOrder, IstreamOrder, PollOrder, StartWriteOrder,
     CopiedOrder, OutsideOrder, SwapOrder
     DEF NmNext, Driver, Writer

LEMMA NmOrderInit == NmInit => NmOrderInv
<1> SUFFICES ASSUME NmInit PROVE NmOrderInv
  OBVIOUS
<1>1. 0 \in Slots /\ N - 1 \in Slots /\ Dist(0, 0) = 0 /\ Dist(0, N - 1) = N - 1
  BY NetmapAssumption DEF Slots, Dist
<1>2. ASSUME NEW r \in TxRings PROVE RingOrder(r) /\ Waiting(r)
  <2>1. /\ sent[r] = 0 /\ cur[r] = 0 /\ head[r] = 0 /\ given[r] = 0 /\ tail[r] = N - 1
        /\ committed[r] = <<>> /\ transmitted[r] = <<>>
    BY DEF NmInit
  <2>2. \A i \in Slots : Dist(0, i) \in Nat
    BY <1>1, DistFacts
  <2> QED
    BY <1>1, <2>1, <2>2, NetmapAssumption DEF RingOrder, Waiting
<1>3. RxOrder /\ Prepared
  BY <1>1, NetmapAssumption DEF NmInit, RxOrder, Prepared, Holding, Wanting
<1> QED
  BY <1>2, <1>3 DEF NmOrderInv

(* The driver sends the committed frames of a ring, each as it was, in     *)
(* their order, whichever way they were put in their slots.                *)
THEOREM FramesSentAsCommitted == NmSpec => []SentAsCommitted
<1>1. NmInv /\ NmOrderInv => SentAsCommitted
  <2> SUFFICES ASSUME NmInv, NmOrderInv, NEW r \in TxRings
               PROVE  /\ Len(transmitted[r]) <= Len(committed[r])
                      /\ \A k \in 1..Len(transmitted[r]) : transmitted[r][k] = committed[r][k]
    BY DEF SentAsCommitted
  <2>1. Dist(sent[r], cur[r]) \in Nat
    BY DistFacts DEF NmInv, NmTypeOK
  <2>2. Len(transmitted[r]) \in Nat
    BY DEF NmInv, NmTypeOK
  <2> QED
    BY <2>1, <2>2 DEF NmOrderInv, Waiting
<1> QED
  BY <1>1, NmInitInv, NmInvStep, NmOrderInit, NmOrderStep, PTL DEF NmSpec

-----------------------------------------------------------------------------
(* The wait for a slot.                                                    *)

(* The driver has not been told of a slot only if a frame was swapped in.  *)
Untold ==
  /\ \A r \in TxRings : cur[r] # head[r] => swapped[r]
  /\ nm_pc = "exited" => \A r \in TxRings : cur[r] # head[r]

LEMMA UntoldStep == NmTypeOK /\ Untold /\ [NmNext]_nm_vars => Untold'
<1> SUFFICES ASSUME NmTypeOK, Untold, [NmNext]_nm_vars PROVE Untold'
  OBVIOUS
<1>1. CASE PollTimesOut
  <2>1. ASSUME NEW r \in TxRings PROVE cur[r] # head[r]
    <3>1. cur[r] = Pred(head[r]) /\ head[r] \in Slots
      BY <1>1 DEF PollTimesOut, NoSpace, NmTypeOK
    <3> QED
      BY <3>1, NetmapAssumption DEF Pred, Slots
  <2> QED
    BY <1>1, <2>1 DEF PollTimesOut, Untold, tx_ring, logs
<1>2. ASSUME NEW r \in TxRings, Commit(r), nm_pc' # "exited" PROVE Untold'
  BY <1>2 DEF Commit, Untold, NmTypeOK
<1>3. CASE EndWriteCopied \/ EndWriteOutside
  BY <1>2, <1>3 DEF EndWriteCopied, EndWriteOutside, Commit, NmTypeOK
<1>4. CASE EndWriteSwapped
  BY <1>4 DEF EndWriteSwapped, Untold, NmTypeOK
<1>5. CASE ~PollTimesOut /\ ~EndWriteCopied /\ ~EndWriteOutside /\ ~EndWriteSwapped
  <2>1. UNCHANGED <<cur, head, swapped>> /\ (nm_pc' = "exited" => nm_pc = "exited")
    BY <1>5 DEF NmNext, Driver, Istream, Writer, Receive, Transmit, NmStartRead, RxSync,
                NmEndRead, Forward, Poll, NmStartWrite, NmClose, Wanting,
                tx_ring, rx_ring, memory, logs, nm_vars
  <2> QED
    BY <2>1 DEF Untold
<1> QED
  BY <1>1, <1>3, <1>4, <1>5

(* A wait for a slot that fails leaves swapped frames behind on every ring.*)
THEOREM CopiedFramesMakeRoom == NmSpec => []TimeoutOnlyIfSwapped
<1>1. NmInit => Untold
  BY DEF NmInit, Untold
<1>2. Untold => TimeoutOnlyIfSwapped
  BY DEF Untold, TimeoutOnlyIfSwapped
<1>3. NmInit => NmTypeOK
  BY NmInitType
<1> QED
  BY <1>1, <1>2, <1>3, NmTypeStep, UntoldStep, PTL DEF NmSpec

=============================================================================
