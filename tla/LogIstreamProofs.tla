-------------------------- MODULE LogIstreamProofs --------------------------
(***************************************************************************)
(* Proofs about the log istream, for inputs of every length and content,   *)
(* however they arrive, and buffers of every size.                         *)
(***************************************************************************)
EXTENDS LogIstream, WellFoundedInduction, TLAPS

(* A set of natural numbers that is not empty has a least one.             *)
LEMMA MinOf ==
  ASSUME NEW S, S \subseteq Nat, S # {}
  PROVE  Min(S) \in S /\ \A x \in S : Min(S) <= x
<1>1. PICK m \in S : \A y \in S : ~ (<<y, m>> \in OpToRel(<, Nat))
  BY NatLessThanWellFounded, WFMin
<1>2. \A y \in S : m <= y
  <2> SUFFICES ASSUME NEW y \in S, y < m PROVE FALSE
    OBVIOUS
  <2>1. <<y, m>> \in OpToRel(<, Nat)
    BY DEF OpToRel
  <2> QED
    BY <1>1, <2>1
<1> QED
  BY <1>1, <1>2 DEF Min

LEMMA MinOfTwo ==
  ASSUME NEW a \in Int, NEW b \in Int
  PROVE  Min({a, b}) = IF a <= b THEN a ELSE b
BY DEF Min

(* A line that has been found ends at the first newline of the rest of the *)
(* input, and takes the newline after it with it; unless it takes a byte   *)
(* that is not buffered.                                                   *)
LineReady ==
  (read_size > 0 /\ read_size <= line_buffer_count) =>
    \E e \in (taken + 1)..fetched :
      /\ IsNewline(e) /\ \A k \in (taken + 1)..(e - 1) : ~IsNewline(k)
      /\ taken + read_size = IF TakesNext(e) THEN e + 1 ELSE e

(* The stream searches only when no line is ready, and a line goes at most *)
(* one byte beyond what is buffered.                                       *)
Phases ==
  /\ hungup => available = Length
  /\ log_pc = "prepare" => read_size = 0 /\ ~is_closed
  /\ read_size > 0 => log_pc = "idle" /\ read_size <= line_buffer_count + 1
  /\ line_buffer_count = -1 => log_pc = "corrupt"

LogInv == LogTypeOK /\ BufferInOrder /\ ClosesOnlyAtEnd /\ Phases /\ LineReady

LEMMA InitLog == LogInit => LogInv
<1> SUFFICES ASSUME LogInit PROVE LogInv
  OBVIOUS
<1>1. LogTypeOK
  <2>1. /\ line_buffer_count \in -1..(line_buffer_size - 1)
        /\ line_buffer_size \in InitSize..MaxSize
        /\ data_head_ptr \in 0..line_buffer_size /\ read_size \in 0..line_buffer_size
    BY LogAssumption DEF LogInit
  <2>2. returned_line \in Seq(Input \union {Unset}) /\ line_buffer \in [Offsets -> Input \union {Unset}]
    BY DEF LogInit
  <2>3. available \in 0..Length /\ fetched \in 0..available /\ taken \in 0..(Length + 1)
    BY LogAssumption DEF LogInit
  <2>4. /\ input \in [Input -> Bytes] /\ log_pc \in {"idle", "prepare", "corrupt"}
        /\ hungup \in BOOLEAN /\ is_closed \in BOOLEAN /\ log_blocking \in BOOLEAN
    BY DEF LogInit
  <2> QED
    BY <2>1, <2>2, <2>3, <2>4 DEF LogTypeOK
<1>2. BufferInOrder /\ ClosesOnlyAtEnd /\ Phases /\ LineReady
  BY LogAssumption DEF LogInit, BufferInOrder, ClosesOnlyAtEnd, Phases, LineReady
<1> QED
  BY <1>1, <1>2 DEF LogInv

(* The arguments of read_to_buff: a buffer of some size, whose bytes from  *)
(* the read pointer up to at are those not yet returned, and which has     *)
(* room there.                                                             *)
Fits(buf, size, at) ==
  /\ buf \in [Offsets -> Input \union {Unset}]
  /\ size \in line_buffer_size..MaxSize
  /\ at \in Nat /\ at < size - 1
  /\ data_head_ptr' \in Nat /\ at = data_head_ptr' + line_buffer_count
  /\ \A k \in 0..(line_buffer_count - 1) : buf[data_head_ptr' + k] = taken + k + 1

LEMMA ReadInv ==
  ASSUME LogInv, log_pc = "prepare", NEW buf, NEW size, NEW at,
         Fits(buf, size, at), ReadToBuff(buf, size, at)
  PROVE  LogInv'
<1> DEFINE bytes == Min({size - 1 - at, available - fetched})
<1>1. /\ at \in Nat /\ size \in Nat /\ at < size - 1
      /\ MaxSize \in Nat /\ size <= MaxSize
  <2>1. line_buffer_size \in Nat /\ size \in line_buffer_size..MaxSize /\ MaxSize \in Nat
    BY LogAssumption DEF LogInv, LogTypeOK, Fits
  <2> QED
    BY <2>1 DEF Fits
<1>2. /\ Length \in Nat /\ available \in Nat /\ available <= Length
      /\ fetched \in Nat /\ fetched <= available
      /\ line_buffer_count \in Nat /\ taken \in Nat
  <2>1. line_buffer_count # -1
    BY DEF LogInv, Phases
  <2>2. line_buffer_size \in Nat
    BY LogAssumption DEF LogInv, LogTypeOK
  <2> QED
    BY <2>1, <2>2, LogAssumption DEF LogInv, LogTypeOK
<1>a. PICK h \in Nat : h = data_head_ptr' /\ at = h + line_buffer_count
  BY DEF Fits
<1>b. at = h + line_buffer_count
  BY <1>a
<1>c. taken + line_buffer_count = fetched
  BY DEF LogInv, BufferInOrder
<1>3. /\ bytes \in Nat /\ at + bytes <= size - 1 /\ fetched + bytes <= available
      /\ bytes = 0 => fetched = available
  <2> DEFINE a == size - 1 - at
             b == available - fetched
  <2>1. a \in Nat /\ b \in Nat /\ a # 0
    BY <1>1, <1>2
  <2>2. bytes = Min({a, b})
    OBVIOUS
  <2> HIDE DEF a, b, bytes
  <2>3. bytes = IF a <= b THEN a ELSE b
    BY <2>1, <2>2, MinOfTwo
  <2>4. bytes \in Nat /\ bytes <= a /\ bytes <= b /\ (bytes = 0 => b = 0)
    BY <2>1, <2>3
  <2> QED
    BY <1>1, <1>2, <2>4 DEF a, b
<1>4. /\ line_buffer_size' = size
      /\ fetched' = fetched + bytes
      /\ line_buffer_count' = line_buffer_count + bytes
      /\ line_buffer' = [o \in Offsets |->
           IF o \in at..(at + bytes - 1) THEN fetched + o - at + 1 ELSE buf[o]]
      /\ UNCHANGED <<env, read_size, log_blocking, taken, returned_line>>
      /\ log_pc' \in {"idle", "prepare"}
      /\ log_pc' = "prepare" => is_closed' = is_closed
      /\ is_closed' = is_closed
           \/ (is_closed' = TRUE /\ bytes = 0 /\ (hungup \/ available > fetched))
  BY DEF ReadToBuff
<1> HIDE DEF bytes
<1>5. line_buffer' \in [Offsets -> Input \union {Unset}]
  <2> SUFFICES ASSUME NEW o \in Offsets, o \in at..(at + bytes - 1)
               PROVE  fetched + o - at + 1 \in Input
    BY <1>4 DEF Fits
  <2>1. o \in Nat /\ at <= o /\ o <= at + bytes - 1
    BY <1>1, <1>3
  <2>2. fetched + o - at + 1 \in 1..Length
    BY <1>1, <1>2, <1>3, <2>1
  <2> QED
    BY <2>2 DEF Input
<1>6. LogTypeOK'
  <2>1. line_buffer_size' \in InitSize..MaxSize
    <3>1. size \in line_buffer_size..MaxSize /\ line_buffer_size \in InitSize..MaxSize
      BY DEF LogInv, LogTypeOK, Fits
    <3> QED
      BY <1>1, <1>4, <3>1, LogAssumption
  <2>2. line_buffer_count' \in -1..(line_buffer_size' - 1) /\ data_head_ptr' \in 0..line_buffer_size'
    <3>1. line_buffer_count + bytes \in -1..(size - 1) /\ h <= at
      BY <1>1, <1>2, <1>3, <1>b
    <3> QED
      BY <1>1, <1>4, <1>a, <3>1
  <2>3. read_size' \in 0..line_buffer_size'
    <3>1. read_size = 0
      BY DEF LogInv, Phases
    <3> QED
      BY <1>1, <1>4, <3>1
  <2>4. fetched' \in 0..available' /\ UNCHANGED <<input, available, hungup>>
    BY <1>2, <1>3, <1>4 DEF env
  <2>5. is_closed' \in BOOLEAN /\ log_blocking' \in BOOLEAN
    BY <1>4 DEF LogInv, LogTypeOK
  <2> QED
    BY <1>4, <1>5, <2>1, <2>2, <2>3, <2>4, <2>5 DEF LogInv, LogTypeOK
<1>7. BufferInOrder'
  <2>1. /\ taken' + line_buffer_count' = fetched'
        /\ data_head_ptr' + line_buffer_count' <= line_buffer_size' - 1
    <3>1. h + (line_buffer_count + bytes) <= size - 1
      BY <1>1, <1>2, <1>3, <1>b
    <3>2. taken + (line_buffer_count + bytes) = fetched + bytes
      BY <1>2, <1>3, <1>c
    <3> QED
      BY <1>4, <1>a, <3>1, <3>2
  <2>2. ASSUME NEW k \in 0..(line_buffer_count' - 1)
        PROVE  line_buffer'[data_head_ptr' + k] = taken' + k + 1
    <3> DEFINE o == h + k
    <3>1. k \in Nat /\ k < line_buffer_count + bytes
      BY <1>2, <1>3, <1>4
    <3>a. o \in Nat /\ o < at + bytes
      BY <1>2, <1>3, <1>b, <3>1
    <3>b. o < MaxSize
      BY <1>1, <1>3, <3>a
    <3>2. o \in Offsets
      <4> HIDE DEF o
      <4> QED
        BY <1>1, <3>a, <3>b DEF Offsets
    <3>3. line_buffer'[o] = IF o \in at..(at + bytes - 1) THEN fetched + o - at + 1 ELSE buf[o]
      BY <1>4, <3>2
    <3>4. ASSUME k < line_buffer_count PROVE line_buffer'[o] = taken + k + 1
      <4>1. buf[o] = taken + k + 1
        BY <1>2, <1>a, <3>1, <3>4 DEF Fits
      <4>2. o < at
        BY <1>2, <1>b, <3>1, <3>4
      <4>3. o \notin at..(at + bytes - 1)
        BY <1>1, <3>a, <4>2
      <4> QED
        BY <3>3, <4>1, <4>3
    <3>5. ASSUME k >= line_buffer_count PROVE line_buffer'[o] = taken + k + 1
      <4>1. at <= o
        BY <1>2, <1>b, <3>1, <3>5
      <4>2. o \in at..(at + bytes - 1)
        BY <1>1, <1>3, <3>a, <4>1
      <4>3. o - at = k - line_buffer_count
        BY <1>2, <1>b, <3>1
      <4>4. fetched + o - at + 1 = taken + k + 1
        BY <1>1, <1>2, <1>c, <3>1, <3>a, <4>3
      <4> QED
        BY <3>3, <4>2, <4>4
    <3> QED
      <4>1. line_buffer'[o] = taken + k + 1
        BY <1>2, <3>1, <3>4, <3>5
      <4> QED
        BY <1>4, <1>a, <4>1
  <2> QED
    BY <2>1, <2>2 DEF BufferInOrder, Buffered
<1>8. ClosesOnlyAtEnd' /\ Phases'
  <2>1. read_size = 0 /\ ~is_closed
    BY DEF LogInv, Phases
  <2>2. UNCHANGED <<available, hungup>> /\ (hungup => available = Length)
    BY <1>4 DEF LogInv, Phases, env
  <2>3. is_closed' => hungup /\ fetched' = Length
    <3> SUFFICES ASSUME is_closed' PROVE hungup /\ fetched' = Length
      OBVIOUS
    <3>1. bytes = 0 /\ (hungup \/ available > fetched)
      BY <1>4, <2>1
    <3>2. available = fetched /\ ~(available > fetched)
      BY <1>2, <1>3, <3>1
    <3> QED
      BY <1>2, <1>4, <2>2, <3>1, <3>2
  <2>4. line_buffer_count' # -1
    BY <1>2, <1>3, <1>4
  <2> QED
    BY <1>4, <2>1, <2>2, <2>3, <2>4 DEF ClosesOnlyAtEnd, Phases
<1>9. LineReady'
  BY <1>4 DEF LogInv, Phases, LineReady
<1> QED
  BY <1>6, <1>7, <1>8, <1>9 DEF LogInv

(* What is known of the buffer between two reads.                          *)
LEMMA Facts ==
  ASSUME LogInv, log_pc # "corrupt"
  PROVE  /\ line_buffer_size \in Nat /\ 2 <= line_buffer_size /\ line_buffer_size <= MaxSize
         /\ MaxSize \in Nat
         /\ line_buffer_count \in Nat /\ data_head_ptr \in Nat /\ taken \in Nat
         /\ read_size \in Nat /\ read_size <= line_buffer_count + 1
         /\ data_head_ptr + line_buffer_count <= line_buffer_size - 1
         /\ \A k \in 0..(line_buffer_count - 1) : Buffered(k) = taken + k + 1
<1>1. line_buffer_size \in Nat /\ 2 <= line_buffer_size /\ line_buffer_size <= MaxSize
  BY LogAssumption DEF LogInv, LogTypeOK
<1>2. line_buffer_count \in Nat /\ data_head_ptr \in Nat /\ read_size \in Nat /\ taken \in Nat
  BY <1>1, LogAssumption DEF LogInv, LogTypeOK, Phases
<1>3. read_size <= line_buffer_count + 1
  BY <1>2 DEF LogInv, Phases
<1> QED
  BY <1>1, <1>2, <1>3, LogAssumption DEF LogInv, BufferInOrder

LEMMA ReadsInv ==
  ASSUME LogInv, Read
  PROVE  LogInv'
<1>1. log_pc = "prepare" /\ log_pc # "corrupt"
  BY DEF Read, FillEmpty, FillRest, Shift, Grow, NoLine
<1>2. line_buffer \in [Offsets -> Input \union {Unset}]
  BY DEF LogInv, LogTypeOK
<1>3. CASE FillEmpty
  <2>1. ReadToBuff(line_buffer, line_buffer_size, 0) /\ data_head_ptr' = 0 /\ line_buffer_count = 0
    BY <1>3 DEF FillEmpty
  <2>2. Fits(line_buffer, line_buffer_size, 0)
    BY <1>1, <1>2, <2>1, Facts DEF Fits
  <2> QED
    BY <1>1, <2>1, <2>2, ReadInv
<1>4. CASE FillRest
  <2> DEFINE at == data_head_ptr + line_buffer_count
  <2>1. ReadToBuff(line_buffer, line_buffer_size, at) /\ data_head_ptr' = data_head_ptr
        /\ at < line_buffer_size - 1
    BY <1>4 DEF FillRest, Room
  <2>2. at \in Nat
    BY <1>1, Facts
  <2>3. Fits(line_buffer, line_buffer_size, at)
    BY <1>1, <1>2, <2>1, <2>2, Facts DEF Fits, Buffered
  <2> HIDE DEF at
  <2> QED
    BY <1>1, <2>1, <2>3, ReadInv
<1>5. CASE Shift
  <2> DEFINE buf == [o \in Offsets |-> IF o < line_buffer_count THEN Buffered(o) ELSE line_buffer[o]]
  <2>1. ReadToBuff(buf, line_buffer_size, line_buffer_count) /\ data_head_ptr' = 0
        /\ data_head_ptr # 0
    BY <1>5 DEF Shift
  <2>2. line_buffer_count < line_buffer_size - 1
    BY <1>1, <2>1, Facts
  <2>3. \A k \in 0..(line_buffer_count - 1) :
          k \in Offsets /\ k < line_buffer_count /\ data_head_ptr + k \in Offsets
    BY <1>1, Facts DEF Offsets
  <2>4. \A k \in 0..(line_buffer_count - 1) : buf[k] = taken + k + 1
    BY <1>1, <2>3, Facts
  <2>5. buf \in [Offsets -> Input \union {Unset}]
    <3> SUFFICES ASSUME NEW o \in Offsets, o < line_buffer_count
                 PROVE  Buffered(o) \in Input \union {Unset}
      BY <1>2
    <3>1. o \in 0..(line_buffer_count - 1)
      BY <1>1, Facts DEF Offsets
    <3> QED
      BY <1>2, <2>3, <3>1 DEF Buffered
  <2> HIDE DEF buf
  <2>6. Fits(buf, line_buffer_size, line_buffer_count)
    BY <1>1, <2>1, <2>2, <2>4, <2>5, Facts DEF Fits
  <2> QED
    BY <1>1, <2>1, <2>6, ReadInv
<1>6. CASE Grow
  <2> DEFINE size == 2 * line_buffer_size
  <2>1. ReadToBuff(line_buffer, size, line_buffer_count) /\ data_head_ptr' = data_head_ptr
        /\ data_head_ptr = 0 /\ size <= MaxSize
    BY <1>6 DEF Grow
  <2>2. size \in line_buffer_size..MaxSize /\ line_buffer_count < size - 1
    BY <1>1, <2>1, Facts
  <2> HIDE DEF size
  <2>3. Fits(line_buffer, size, line_buffer_count)
    BY <1>1, <1>2, <2>1, <2>2, Facts DEF Fits, Buffered
  <2> QED
    BY <1>1, <2>1, <2>3, ReadInv
<1> QED
  BY <1>3, <1>4, <1>5, <1>6 DEF Read

(* The first newline of the buffer is the first of what is not returned.   *)
LEMMA FindLineInv ==
  ASSUME LogInv, FindLine
  PROVE  LogInv'
<1> DEFINE j == Min(NewlineOffsets)
           e == taken + j + 1
<1>1. log_pc = "prepare" /\ log_pc # "corrupt" /\ log_pc' = "idle"
      /\ UNCHANGED <<env, buffer, is_closed, log_blocking, fetched, taken, returned_line>>
  BY DEF FindLine
<1>2. read_size' \in {j + 1, j + 2}
  BY DEF FindLine
<1>3. NewlineOffsets \subseteq Nat /\ NewlineOffsets # {}
  BY <1>1, Facts DEF FindLine, NewlineOffsets
<1>4. j \in NewlineOffsets /\ \A k \in NewlineOffsets : j <= k
  BY <1>3, MinOf
<1> HIDE DEF j
<1>5. j \in Nat /\ j <= line_buffer_count - 1 /\ line_buffer_count \in Nat /\ taken \in Nat
      /\ IsNewline(Buffered(j))
  BY <1>1, <1>4, Facts DEF NewlineOffsets
<1>6. IsNewline(e) /\ e > taken
  BY <1>1, <1>5, Facts
<1>7. \A k \in (taken + 1)..(e - 1) : ~IsNewline(k)
  <2> SUFFICES ASSUME NEW k \in (taken + 1)..(e - 1), IsNewline(k) PROVE FALSE
    OBVIOUS
  <2> DEFINE m == k - taken - 1
  <2>1. m \in 0..(line_buffer_count - 1) /\ m < j /\ taken + m + 1 = k
    BY <1>5
  <2> HIDE DEF m
  <2>2. Buffered(m) = k
    BY <1>1, <2>1, Facts
  <2>3. m \in NewlineOffsets
    BY <2>1, <2>2 DEF NewlineOffsets
  <2>4. j <= m
    BY <1>4, <2>3
  <2> QED
    BY <1>5, <2>1, <2>4
<1>8. read_size' \in Nat /\ read_size' > 0 /\ read_size' <= line_buffer_count + 1
  BY <1>2, <1>5
<1>9. LogTypeOK'
  <2>1. read_size' \in 0..line_buffer_size
    BY <1>1, <1>8, Facts
  <2> QED
    BY <1>1, <2>1 DEF LogInv, LogTypeOK, env, buffer
<1>10. BufferInOrder' /\ ClosesOnlyAtEnd'
  BY <1>1 DEF LogInv, BufferInOrder, ClosesOnlyAtEnd, Buffered, env, buffer
<1>11. Phases'
  BY <1>1, <1>8 DEF LogInv, Phases, env, buffer
<1>12. LineReady'
  <2> SUFFICES ASSUME read_size' <= line_buffer_count PROVE LineReady'
    BY <1>1 DEF LineReady, buffer
  <2>1. taken' = taken /\ input' = input /\ fetched' = fetched
    BY <1>1 DEF env
  <2>2. e \in (taken + 1)..fetched /\ (e < fetched <=> j + 1 < line_buffer_count)
    <3>1. taken + line_buffer_count = fetched
      BY <1>1 DEF LogInv, BufferInOrder
    <3> QED
      BY <1>5, <3>1
  <2>3. taken + read_size' = IF TakesNext(e) THEN e + 1 ELSE e
    <3>1. CASE j + 1 < line_buffer_count
      <4>1. Buffered(j + 1) = e + 1 /\ e + 1 # Unset
        <5>1. j + 1 \in 0..(line_buffer_count - 1) /\ taken + (j + 1) + 1 = e + 1 /\ e + 1 # 0
          BY <1>5, <3>1
        <5>2. Buffered(j + 1) = taken + (j + 1) + 1
          BY <1>1, <5>1, Facts
        <5> QED
          BY <5>1, <5>2 DEF Unset
      <4>2. PICK two \in FollowedByNewline(j) :
              read_size' = IF two THEN j + 2 ELSE j + 1
        BY DEF FindLine, j
      <4>3. two = (input[e + 1] = "n")
        BY <4>1, <4>2 DEF FollowedByNewline
      <4>4. TakesNext(e) <=> two
        BY <2>2, <3>1, <4>3 DEF TakesNext
      <4>5. taken + (j + 2) = e + 1 /\ taken + (j + 1) = e
        BY <1>5
      <4> QED
        BY <4>2, <4>4, <4>5
    <3>2. CASE ~(j + 1 < line_buffer_count)
      <4>1. read_size' = j + 1 /\ taken + (j + 1) = e
        BY <1>2, <1>5, <3>2
      <4> QED
        BY <2>2, <3>2, <4>1 DEF TakesNext
    <3> QED
      BY <3>1, <3>2
  <2> HIDE DEF e
  <2>4. PICK x : x = e
    OBVIOUS
  <2>5. /\ x \in (taken' + 1)..fetched'
        /\ IsNewline(x)' /\ \A k \in (taken' + 1)..(x - 1) : ~IsNewline(k)'
        /\ taken' + read_size' = IF TakesNext(x)' THEN x + 1 ELSE x
    BY <1>6, <1>7, <2>1, <2>2, <2>3, <2>4 DEF IsNewline, TakesNext
  <2> QED
    BY <2>5 DEF LineReady
<1> QED
  BY <1>9, <1>10, <1>11, <1>12 DEF LogInv

(* The line that was found is taken from the front of the buffer.          *)
LEMMA StartReadInv ==
  ASSUME LogInv, StartReadLine
  PROVE  LogInv'
<1>1. /\ log_pc = "idle" /\ log_pc # "corrupt" /\ ~is_closed /\ read_size > 0 /\ read_size' = 0
      /\ returned_line' = [k \in 1..(read_size - 1) |-> Buffered(k - 1)]
      /\ data_head_ptr' = data_head_ptr + read_size
      /\ line_buffer_count' = line_buffer_count - read_size
      /\ taken' = taken + read_size
      /\ log_pc' = IF read_size > line_buffer_count THEN "corrupt" ELSE "idle"
      /\ UNCHANGED <<env, line_buffer, line_buffer_size, is_closed, log_blocking, fetched>>
  BY DEF StartReadLine
<1>a. log_pc # "corrupt" /\ read_size > 0
  BY <1>1
<1>2. taken + line_buffer_count = fetched /\ fetched \in 0..available /\ available \in 0..Length
  BY <1>1 DEF LogInv, BufferInOrder, LogTypeOK
<1>3. LogTypeOK'
  <2>1. returned_line' \in Seq(Input \union {Unset})
    <3> DEFINE n == read_size - 1
    <3>1. n \in Nat
      <4>1. read_size \in Nat
        BY <1>a, Facts
      <4> QED
        BY <1>a, <4>1
    <3>2. ASSUME NEW k \in 1..n PROVE Buffered(k - 1) \in Input \union {Unset}
      <4>1. data_head_ptr + (k - 1) \in Offsets
        <5>1. k \in Nat /\ k >= 1 /\ k <= line_buffer_count
          BY <1>a, Facts
        <5>2. data_head_ptr + (k - 1) \in 0..(MaxSize - 1)
          BY <1>a, <5>1, Facts
        <5> QED
          BY <5>2 DEF Offsets
      <4> QED
        BY <4>1 DEF LogInv, LogTypeOK, Buffered
    <3>3. returned_line' = [k \in 1..n |-> Buffered(k - 1)]
      BY <1>1
    <3> HIDE DEF n
    <3> QED
      BY <3>1, <3>2, <3>3
  <2>2. line_buffer_count - read_size \in -1..(line_buffer_size - 1)
        /\ data_head_ptr + read_size \in 0..line_buffer_size
    BY <1>a, Facts
  <2>3. taken + read_size \in 0..(Length + 1)
    BY <1>a, <1>2, Facts, LogAssumption
  <2>4. 0 \in 0..line_buffer_size
    BY <1>1, Facts
  <2>5. /\ line_buffer_count' \in -1..(line_buffer_size' - 1)
        /\ data_head_ptr' \in 0..line_buffer_size' /\ taken' \in 0..(Length + 1)
        /\ read_size' \in 0..line_buffer_size'
    BY <1>1, <2>2, <2>3, <2>4
  <2> QED
    BY <1>1, <2>1, <2>5 DEF LogInv, LogTypeOK, env
<1>4. BufferInOrder'
  <2> SUFFICES ASSUME read_size <= line_buffer_count PROVE BufferInOrder'
    <3>1. read_size > line_buffer_count => log_pc' = "corrupt"
      BY <1>1
    <3>2. read_size <= line_buffer_count \/ read_size > line_buffer_count
      BY <1>1, Facts
    <3> QED
      BY <3>1, <3>2 DEF BufferInOrder
  <2>1. /\ (taken + read_size) + (line_buffer_count - read_size) = fetched
        /\ (data_head_ptr + read_size) + (line_buffer_count - read_size) <= line_buffer_size - 1
    BY <1>a, <1>2, Facts
  <2>2. ASSUME NEW k \in 0..(line_buffer_count - read_size - 1)
        PROVE  line_buffer[(data_head_ptr + read_size) + k] = (taken + read_size) + k + 1
    <3> DEFINE m == read_size + k
    <3>1. m \in 0..(line_buffer_count - 1) /\ data_head_ptr + m = (data_head_ptr + read_size) + k
          /\ taken + m + 1 = (taken + read_size) + k + 1
      BY <1>a, Facts
    <3> HIDE DEF m
    <3>2. Buffered(m) = taken + m + 1
      BY <1>1, <3>1, Facts
    <3> QED
      BY <3>1, <3>2 DEF Buffered
  <2> QED
    BY <1>1, <2>1, <2>2 DEF BufferInOrder, Buffered
<1>5. ClosesOnlyAtEnd' /\ LineReady'
  BY <1>1 DEF ClosesOnlyAtEnd, LineReady
<1>6. Phases'
  <2>1. line_buffer_count - read_size = -1 => read_size > line_buffer_count
    BY <1>1, Facts
  <2>2. log_pc' # "prepare" /\ (line_buffer_count' = -1 => log_pc' = "corrupt")
    BY <1>1, <2>1
  <2> QED
    BY <1>1, <2>2 DEF LogInv, Phases, env
<1> QED
  BY <1>3, <1>4, <1>5, <1>6 DEF LogInv

(* The steps that leave the buffer alone.                                  *)
LEMMA OtherInv ==
  ASSUME LogInv, ArriveByte \/ HangUp \/ PrepareLine \/ UNCHANGED log_vars
  PROVE  LogInv'
<1>0. available \in Nat /\ available <= Length /\ Length \in Nat
  BY LogAssumption DEF LogInv, LogTypeOK
<1>a. /\ UNCHANGED <<input, buffer, read_size, is_closed, fetched, taken, returned_line>>
      /\ hungup' \in BOOLEAN /\ log_blocking' \in BOOLEAN
      /\ log_pc' = log_pc \/ (log_pc' = "prepare" /\ log_pc = "idle" /\ ~is_closed /\ read_size = 0)
  BY DEF LogInv, LogTypeOK, ArriveByte, HangUp, PrepareLine, log_vars, env
<1>b. available' \in available..Length
  <2>1. CASE ArriveByte
    BY <1>0, <2>1 DEF ArriveByte
  <2>2. CASE available' = available
    BY <1>0, <2>2
  <2> QED
    BY <2>1, <2>2 DEF HangUp, PrepareLine, log_vars, env
<1>1. /\ UNCHANGED <<input, buffer, read_size, is_closed, fetched, taken, returned_line>>
      /\ available' \in available..Length /\ hungup' \in BOOLEAN /\ log_blocking' \in BOOLEAN
      /\ log_pc' = log_pc \/ (log_pc' = "prepare" /\ log_pc = "idle" /\ ~is_closed /\ read_size = 0)
  BY <1>a, <1>b
<1>2. hungup => UNCHANGED <<hungup, available>>
  <2>1. hungup => ~ArriveByte /\ ~HangUp
    <3>1. hungup => ~(available < Length)
      BY <1>0 DEF LogInv, Phases
    <3> QED
      BY <3>1 DEF ArriveByte, HangUp
  <2> QED
    BY <2>1 DEF PrepareLine, log_vars, env
<1>3. hungup' => available' = Length
  BY <1>2 DEF LogInv, Phases, ArriveByte, HangUp, PrepareLine, log_vars, env
<1>4. LogTypeOK'
  <2>1. available' \in 0..Length /\ fetched' \in 0..available'
    BY <1>1, LogAssumption DEF LogInv, LogTypeOK
  <2> QED
    BY <1>1, <2>1 DEF LogInv, LogTypeOK, buffer
<1>5. BufferInOrder' /\ ClosesOnlyAtEnd' /\ LineReady'
  BY <1>1, <1>2 DEF LogInv, BufferInOrder, ClosesOnlyAtEnd, LineReady, Buffered, IsNewline,
                   TakesNext, buffer
<1>6. Phases'
  BY <1>1, <1>3 DEF LogInv, Phases, buffer
<1> QED
  BY <1>4, <1>5, <1>6 DEF LogInv

LEMMA LogStep == LogInv /\ [LogNext]_log_vars => LogInv'
BY ReadsInv, FindLineInv, StartReadInv, OtherInv DEF LogNext, Stream

THEOREM LogInvariant == LogSpec => []LogInv
BY InitLog, LogStep, PTL DEF LogSpec

(* Through every refill, shift and growth the buffer holds, in order, what *)
(* comes after the bytes returned.                                         *)
THEOREM BufferedInOrder == LogSpec => []BufferInOrder
<1>1. LogInv => BufferInOrder
  BY DEF LogInv
<1> QED
  BY <1>1, LogInvariant, PTL

(* A full buffer never makes the stream close.                             *)
THEOREM ClosedOnlyAtEnd == LogSpec => []ClosesOnlyAtEnd
<1>1. LogInv => ClosesOnlyAtEnd
  BY DEF LogInv
<1> QED
  BY <1>1, LogInvariant, PTL

(* start_read returns the input up to its next newline, or up to the       *)
(* second of two newlines.                                                 *)
THEOREM NextLineReturned == LogSpec => ReturnsNextLine
<1> DEFINE EndsAt(e) ==
             /\ IsNewline(e) /\ \A k \in (taken + 1)..(e - 1) : ~IsNewline(k)
             /\ taken' = IF TakesNext(e) THEN e + 1 ELSE e
             /\ returned_line' = [k \in 1..(taken' - taken - 1) |-> taken + k]
           Returned ==
             (StartReadLine /\ read_size <= line_buffer_count) =>
               \E e \in (taken + 1)..fetched : EndsAt(e)
<1>1. LogInv => Returned
  <2> SUFFICES ASSUME LogInv, StartReadLine, read_size <= line_buffer_count PROVE Returned
    OBVIOUS
  <2>1. /\ log_pc # "corrupt" /\ read_size > 0 /\ taken' = taken + read_size
        /\ returned_line' = [k \in 1..(read_size - 1) |-> Buffered(k - 1)]
    BY DEF StartReadLine
  <2>2. \A k \in 1..(read_size - 1) : Buffered(k - 1) = taken + k
    <3> SUFFICES ASSUME NEW k \in 1..(read_size - 1) PROVE Buffered(k - 1) = taken + k
      OBVIOUS
    <3>1. k - 1 \in 0..(line_buffer_count - 1) /\ taken + (k - 1) + 1 = taken + k
      BY <2>1, Facts
    <3> QED
      BY <2>1, <3>1, Facts
  <2>3. taken' - taken - 1 = read_size - 1
    BY <2>1, Facts
  <2>4. returned_line' = [k \in 1..(taken' - taken - 1) |-> taken + k]
    BY <2>1, <2>2, <2>3
  <2>5. PICK e \in (taken + 1)..fetched :
          /\ IsNewline(e) /\ \A k \in (taken + 1)..(e - 1) : ~IsNewline(k)
          /\ taken + read_size = IF TakesNext(e) THEN e + 1 ELSE e
    BY <2>1 DEF LogInv, LineReady
  <2>6. EndsAt(e)
    BY <2>1, <2>4, <2>5
  <2> QED
    BY <2>6
<1> QED
  BY <1>1, LogInvariant, PTL DEF ReturnsNextLine

=============================================================================
