------------------------- MODULE CommandLineProofs -------------------------
(***************************************************************************)
(* Proofs about the parser of descriptions, for every alphabet and         *)
(* description, about the parser of options, for all definitions,          *)
(* arguments and command lines, and about the parser of numbers, for every *)
(* text.                                                                   *)
(***************************************************************************)
EXTENDS Options, DescrParser, SequenceTheorems, FiniteSetTheorems, WellFoundedInduction,
        TLAPS

(* A set of natural numbers that is not empty has a least one.             *)
LEMMA MinOf ==
  ASSUME NEW S, S \subseteq Nat, S # {}
  PROVE  Min(S) \in S /\ \A x \in S : Min(S) <= x
<1>1. PICK m \in S : \A y \in S : ~ (<<y, m>> \in OpToRel(<, Nat))
  BY NatLessThanWellFounded, WFMin
<1>2. \A y \in S : m <= y
  <2> SUFFICES ASSUME NEW y \in S, y < m PROVE FALSE
    OBVIOUS
  <2>1. <<y, m>> \in OpToRel(<, Nat)
    BY DEF OpToRel
  <2> QED
    BY <1>1, <2>1
<1> QED
  BY <1>1, <1>2 DEF Min

(***************************************************************************)
(* Sequences joined one after the other.                                   *)
(***************************************************************************)

(* f[i] is the first i of s joined.                                        *)
Flattens(s, n, f) == f = [i \in 1..n |-> IF i = 1 THEN s[i] ELSE f[i - 1] \o s[i]]

LEMMA FlattensAt ==
  ASSUME NEW s, NEW n, NEW f, Flattens(s, n, f)
  PROVE  \A i \in 1..n : f[i] = IF i = 1 THEN s[i] ELSE f[i - 1] \o s[i]
<1> DEFINE e(i) == IF i = 1 THEN s[i] ELSE f[i - 1] \o s[i]
<1>1. f = [i \in 1..n |-> e(i)]
  BY DEF Flattens
<1>2. \A i \in 1..n : e(i) = IF i = 1 THEN s[i] ELSE f[i - 1] \o s[i]
  OBVIOUS
<1> HIDE DEF e
<1>3. \A i \in 1..n : f[i] = e(i)
  BY <1>1
<1> QED
  BY <1>2, <1>3

LEMMA FlattenExists ==
  ASSUME NEW s
  PROVE  \A n \in Nat : \E f : Flattens(s, n, f)
<1> DEFINE Bad == {n \in Nat : ~\E f : Flattens(s, n, f)}
<1> SUFFICES ASSUME Bad # {} PROVE FALSE
  OBVIOUS
<1>1. PICK m \in Bad : \A y \in Bad : ~ (<<y, m>> \in OpToRel(<, Nat))
  <2>1. Bad \subseteq Nat
    OBVIOUS
  <2> HIDE DEF Bad
  <2> QED
    BY <2>1, NatLessThanWellFounded, WFMin
<1>2. m \in Nat /\ \A f : ~Flattens(s, m, f)
  OBVIOUS
<1>3. ASSUME NEW k \in Nat, k < m PROVE \E f : Flattens(s, k, f)
  <2>1. <<k, m>> \in OpToRel(<, Nat)
    BY <1>2, <1>3 DEF OpToRel
  <2>2. k \notin Bad
    BY <1>1, <2>1
  <2> QED
    BY <2>2
<1> HIDE DEF Bad
<1>4. CASE m = 0
  <2> DEFINE f == [i \in 1..0 |-> s]
  <2>1. Flattens(s, 0, f)
    BY DEF Flattens
  <2> QED
    BY <1>2, <1>4, <2>1
<1>5. CASE m > 0
  <2>1. PICK k \in Nat : m = k + 1
    BY <1>2, <1>5
  <2>2. PICK g : Flattens(s, k, g)
    BY <1>3, <2>1
  <2> DEFINE f == [i \in 1..m |-> IF i <= k THEN g[i] ELSE IF i = 1 THEN s[i] ELSE g[i - 1] \o s[i]]
  <2>3. ASSUME NEW i \in 1..m PROVE f[i] = IF i = 1 THEN s[i] ELSE f[i - 1] \o s[i]
    <3>1. CASE i <= k
      <4>1. g[i] = IF i = 1 THEN s[i] ELSE g[i - 1] \o s[i]
        <5>1. i \in 1..k
          BY <2>1, <3>1
        <5> QED
          BY <2>2, <5>1, FlattensAt
      <4>2. i # 1 => i - 1 \in 1..m /\ i - 1 <= k
        BY <1>2, <2>1, <3>1
      <4> QED
        BY <3>1, <4>1, <4>2
    <3>2. CASE i > k
      <4>1. i # 1 => i - 1 \in 1..m /\ i - 1 <= k
        BY <1>2, <2>1, <3>2
      <4>2. ~(i <= k)
        BY <2>1, <3>2
      <4> QED
        BY <4>1, <4>2
    <3> QED
      BY <2>1, <3>1, <3>2
  <2>4. DOMAIN f = 1..m /\ f = [i \in 1..m |-> f[i]]
    OBVIOUS
  <2> HIDE DEF f
  <2>5. Flattens(s, m, f)
    BY <2>3, <2>4 DEF Flattens
  <2> QED
    BY <1>2, <2>5
<1> QED
  BY <1>2, <1>4, <1>5

(* What is joined does not depend on what comes after.                     *)
Agree(s, t, m, n) == \A i \in 1..m : i <= n => s[i] = t[i]

LEMMA FlattenSame ==
  ASSUME NEW s, NEW t, NEW m \in Nat, NEW n \in Nat, NEW f, NEW g,
         Agree(s, t, m, n), Flattens(s, m, f), Flattens(t, n, g)
  PROVE  Agree(f, g, m, n)
<1> DEFINE Bad == {i \in 1..m : i <= n /\ f[i] # g[i]}
<1> SUFFICES ASSUME Bad # {} PROVE FALSE
  BY DEF Agree
<1>1. PICK k \in Bad : \A y \in Bad : ~ (<<y, k>> \in OpToRel(<, Nat))
  <2>1. Bad \subseteq Nat
    OBVIOUS
  <2> HIDE DEF Bad
  <2> QED
    BY <2>1, NatLessThanWellFounded, WFMin
<1>2. k \in 1..m /\ k <= n /\ f[k] # g[k] /\ s[k] = t[k]
  BY DEF Agree
<1>3. f[k] = (IF k = 1 THEN s[k] ELSE f[k - 1] \o s[k])
  BY <1>2, FlattensAt
<1>4. g[k] = (IF k = 1 THEN t[k] ELSE g[k - 1] \o t[k])
  <2>1. k \in 1..n
    BY <1>2
  <2> QED
    BY <2>1, FlattensAt
<1>5. CASE k = 1
  BY <1>2, <1>3, <1>4, <1>5
<1>6. CASE k # 1
  <2>1. k - 1 \in 1..m /\ k - 1 <= n /\ k - 1 \in Nat /\ k \in Nat /\ k - 1 < k
    BY <1>2, <1>6
  <2>2. <<k - 1, k>> \in OpToRel(<, Nat)
    BY <2>1 DEF OpToRel
  <2>3. f[k - 1] = g[k - 1]
    BY <1>1, <2>1, <2>2
  <2> QED
    BY <1>2, <1>3, <1>4, <1>6, <2>3
<1> QED
  BY <1>5, <1>6

LEMMA FlattenIs ==
  ASSUME NEW s, Len(s) \in Nat, Len(s) > 0
  PROVE  \E f : Flattens(s, Len(s), f) /\ FlattenSeq(s) = f[Len(s)]
<1> DEFINE h == CHOOSE f : Flattens(s, Len(s), f)
<1>1. Flattens(s, Len(s), h)
  BY FlattenExists
<1>2. FlattenSeq(s) = h[Len(s)]
  BY DEF FlattenSeq, Flattens
<1> QED
  BY <1>1, <1>2

LEMMA FlattenEmpty == FlattenSeq(<<>>) = <<>>
<1>1. Len(<<>>) = 0
  OBVIOUS
<1> QED
  BY <1>1 DEF FlattenSeq

LEMMA FlattenType ==
  ASSUME NEW S, NEW s \in Seq(Seq(S))
  PROVE  FlattenSeq(s) \in Seq(S)
<1>1. CASE Len(s) = 0
  <2>1. s = <<>> /\ <<>> \in Seq(S)
    BY <1>1
  <2> QED
    BY <2>1, FlattenEmpty
<1>2. CASE Len(s) > 0
  <2>0. Len(s) \in Nat
    OBVIOUS
  <2>1. PICK f : Flattens(s, Len(s), f) /\ FlattenSeq(s) = f[Len(s)]
    <3>1. \E f : Flattens(s, Len(s), f) /\ FlattenSeq(s) = f[Len(s)]
      BY <1>2, <2>0, FlattenIs
    <3> QED
      BY <3>1
  <2> DEFINE Bad == {i \in 1..Len(s) : f[i] \notin Seq(S)}
  <2>2. CASE Bad = {}
    BY <1>2, <2>1, <2>2
  <2>3. CASE Bad # {}
    <3>1. PICK k \in Bad : \A y \in Bad : ~ (<<y, k>> \in OpToRel(<, Nat))
      <4>1. Bad \subseteq Nat
        OBVIOUS
      <4> HIDE DEF Bad
      <4> QED
        BY <2>3, <4>1, NatLessThanWellFounded, WFMin
    <3>2. k \in 1..Len(s) /\ f[k] \notin Seq(S) /\ s[k] \in Seq(S)
      OBVIOUS
    <3>3. f[k] = IF k = 1 THEN s[k] ELSE f[k - 1] \o s[k]
      BY <2>1, <3>2, FlattensAt
    <3>4. k # 1
      BY <3>2, <3>3
    <3>5. k - 1 \in 1..Len(s) /\ k - 1 \in Nat /\ k \in Nat /\ k - 1 < k
      BY <3>2, <3>4
    <3>6. <<k - 1, k>> \in OpToRel(<, Nat)
      BY <3>5 DEF OpToRel
    <3>7. f[k - 1] \in Seq(S)
      BY <3>1, <3>5, <3>6
    <3>8. f[k - 1] \o s[k] \in Seq(S)
      BY <3>2, <3>7
    <3> QED
      BY <3>2, <3>3, <3>4, <3>8
  <2> QED
    BY <2>2, <2>3
<1> QED
  BY <1>1, <1>2

LEMMA FlattenAppend ==
  ASSUME NEW S, NEW s \in Seq(Seq(S)), NEW x \in Seq(S)
  PROVE  FlattenSeq(Append(s, x)) = FlattenSeq(s) \o x
<1> DEFINE n == Len(s)
           t == Append(s, x)
<1>1. PICK m \in Nat : m = n + 1
  OBVIOUS
<1>2. n \in Nat /\ Len(t) = m /\ t[m] = x /\ \A i \in 1..n : t[i] = s[i]
  BY <1>1, AppendProperties
<1> HIDE DEF t
<1>3. PICK f : Flattens(t, m, f) /\ FlattenSeq(t) = f[m]
  BY <1>1, <1>2, FlattenIs
<1>4. f[m] = IF m = 1 THEN t[m] ELSE f[m - 1] \o t[m]
  <2>1. m \in 1..m
    BY <1>1, <1>2
  <2> QED
    BY <1>3, <2>1, FlattensAt
<1>5. CASE n = 0
  <2>1. s = <<>>
    BY <1>5
  <2>2. <<>> \o x = x
    OBVIOUS
  <2> QED
    BY <1>1, <1>2, <1>3, <1>4, <1>5, <2>1, <2>2, FlattenEmpty DEF t
<1>6. CASE n > 0
  <2>1. PICK g : Flattens(s, n, g) /\ FlattenSeq(s) = g[n]
    BY <1>2, <1>6, FlattenIs
  <2>2. f[n] = g[n]
    <3>1. Agree(t, s, m, n)
      BY <1>2 DEF Agree
    <3>2. Agree(f, g, m, n)
      BY <1>1, <1>2, <1>3, <2>1, <3>1, FlattenSame
    <3>3. n \in 1..m /\ n <= n
      BY <1>1, <1>2, <1>6
    <3> HIDE DEF n
    <3> QED
      BY <3>2, <3>3 DEF Agree
  <2>3. m # 1 /\ m - 1 = n
    BY <1>1, <1>2, <1>6
  <2> QED
    BY <1>2, <1>3, <1>4, <2>1, <2>2, <2>3 DEF t
<1> QED
  BY <1>2, <1>5, <1>6


-----------------------------------------------------------------------------
(***************************************************************************)
(* The parser of descriptions.                                             *)
(***************************************************************************)
Chars == DescrAlphabet \union {":", ",", "="}
Option == [name : Seq(Chars), value : Seq(Chars)]

(* A part of the description put together again.                           *)
Piece(o) == <<",">> \o o.name \o <<"=">> \o o.value
AllOptions(os) == FlattenSeq([k \in 1..Len(os) |-> Piece(os[k])])
Queried(q) == IF q = <<>> THEN <<>> ELSE <<":">> \o q[1]
JoinedOf(p, q, os) == (p \o Queried(q)) \o AllOptions(os)

(* What is before the head pointer.                                        *)
Behind == SubSeq(descr_str, 1, head_ptr)

DescrTyped ==
  /\ descr_str \in Seq(DescrAlphabet)
  /\ scan \in {"protocol", "query", "name", "value", "done", "exited"}
  /\ scan \in DOMAIN Ends => head_ptr \in 0..Len(descr_str)
  /\ protocol \in Seq(Chars)
  /\ query \in {<<>>} \union {<<q>> : q \in Seq(Chars)}
  /\ opts \in Seq(Option)

(* The parts so far are what is before the head pointer, but for the comma *)
(* before a name that is still to be scanned.                              *)
Cut ==
  /\ scan = "protocol" => head_ptr = 0 /\ protocol = <<>> /\ query = <<>> /\ opts = <<>>
  /\ scan = "query" => protocol \o <<":">> = Behind /\ query = <<>> /\ opts = <<>>
  /\ scan = "name" => /\ head_ptr > 0 /\ descr_str[head_ptr] = ","
                      /\ JoinedOf(protocol, query, opts) \o <<",">> = Behind
  /\ scan = "value" => /\ opts # <<>> /\ opts[Len(opts)].value = <<>>
                       /\ JoinedOf(protocol, query, opts) = Behind
  /\ scan = "done" => JoinedOf(protocol, query, opts) = descr_str

(* No part has a delimiter in it that would have ended it.                 *)
Without(s, chars) == \A x \in ToSet(s) : x \notin chars
Clean ==
  /\ Without(protocol, Ends["protocol"])
  /\ \A q \in ToSet(query) : Without(q, Ends["query"])
  /\ \A o \in ToSet(opts) : Without(o.name, Ends["name"]) /\ Without(o.value, Ends["value"])

(* Why the program exits.                                                  *)
Unnamed ==
  scan = "exited" =>
    descr_str = <<>> \/ \E k \in 1..Len(descr_str) :
                          /\ descr_str[k] = ","
                          /\ "=" \notin ToSet(SubSeq(descr_str, k, Len(descr_str)))

DescrInv == DescrTyped /\ Cut /\ Clean /\ Unnamed

LEMMA JoinedIs == Joined = JoinedOf(protocol, query, opts)
BY DEF Joined, JoinedOf, Queried, AllOptions, Piece

LEMMA Implied == DescrInv => DescrLossless
<1> SUFFICES ASSUME DescrInv PROVE DescrLossless
  OBVIOUS
<1>1. scan = "done" => Joined = descr_str
  BY JoinedIs DEF DescrInv, Cut
<1>2. \A x \in ToSet(protocol) : x \notin {":", ","}
  BY DEF DescrInv, Clean, Without, Ends
<1>3. \A q \in ToSet(query) : "," \notin ToSet(q)
  BY DEF DescrInv, Clean, Without, Ends
<1>4. \A o \in ToSet(opts) : "=" \notin ToSet(o.name) /\ "," \notin ToSet(o.value)
  BY DEF DescrInv, Clean, Without, Ends
<1> QED
  BY <1>1, <1>2, <1>3, <1>4 DEF DescrLossless, DescrInv, Unnamed

(* The delimiter a scan stops at is the first one.                         *)
LEMMA StopIs ==
  ASSUME DescrTyped, scan \in DOMAIN Ends
  PROVE  /\ head_ptr \in Nat /\ Len(descr_str) \in Nat
         /\ Stop \in head_ptr..Len(descr_str)
         /\ \A k \in (head_ptr + 1)..Stop : descr_str[k] \notin Ends[scan]
         /\ Stop < Len(descr_str) => descr_str[Stop + 1] \in Ends[scan]
<1> DEFINE n == Len(descr_str)
           Found == {j \in (head_ptr + 1)..n : descr_str[j] \in Ends[scan]}
           S == {k - 1 : k \in Found} \union {n}
<1>1. n \in Nat /\ head_ptr \in 0..n /\ head_ptr \in Nat
  BY DEF DescrTyped
<1>2. S \subseteq head_ptr..n /\ S # {} /\ S \subseteq Nat
  BY <1>1
<1>3. Stop = Min(S)
  BY DEF Stop
<1>4. Min(S) \in S /\ \A x \in S : Min(S) <= x
  <2> HIDE DEF S
  <2> QED
    BY <1>2, MinOf
<1>5. Stop \in head_ptr..n
  <2> HIDE DEF S
  <2> QED
    BY <1>2, <1>3, <1>4
<1>6. ASSUME NEW k \in (head_ptr + 1)..Stop PROVE descr_str[k] \notin Ends[scan]
  <2> SUFFICES ASSUME descr_str[k] \in Ends[scan] PROVE FALSE
    OBVIOUS
  <2>1. k \in Found
    BY <1>1, <1>5
  <2>2. k - 1 \in S
    BY <2>1
  <2> HIDE DEF S
  <2> QED
    BY <1>1, <1>3, <1>4, <1>5, <2>2
<1>7. Stop < n => descr_str[Stop + 1] \in Ends[scan]
  <2> SUFFICES ASSUME Stop < n PROVE descr_str[Stop + 1] \in Ends[scan]
    OBVIOUS
  <2>1. Stop \in {k - 1 : k \in Found}
    BY <1>1, <1>3, <1>4, <1>5
  <2>2. PICK k \in Found : Stop = k - 1
    BY <2>1
  <2>3. Stop + 1 = k
    BY <1>1, <2>2
  <2> QED
    BY <2>2, <2>3
<1> QED
  BY <1>1, <1>5, <1>6, <1>7


LEMMA OneMore ==
  ASSUME NEW S, NEW s \in Seq(S), NEW n \in Nat, n < Len(s), NEW m, m = n + 1
  PROVE  SubSeq(s, 1, m) = SubSeq(s, 1, n) \o <<s[m]>>
<1>1. PICK k \in Nat : k = m
  OBVIOUS
<1>2. 1 \in 1..Len(s) /\ k \in 1..Len(s)
  BY <1>1
<1>3. SubSeq(s, 1, k) = SubSeq(s, 1, k - 1) \o <<s[k]>>
  BY <1>2, SubSeqRecursiveSecond
<1>4. k - 1 = n
  BY <1>1
<1> QED
  BY <1>1, <1>3, <1>4

(* A scan goes on from what is behind the head pointer.                    *)
LEMMA ScanIs ==
  ASSUME DescrTyped, scan \in DOMAIN Ends
  PROVE  /\ Scanned \in Seq(Chars) /\ Behind \in Seq(Chars)
         /\ Without(Scanned, Ends[scan])
         /\ Delimiter = "end" => Behind \o Scanned = descr_str
         /\ Delimiter # "end" =>
              /\ Stop < Len(descr_str) /\ Stop + 1 \in 1..Len(descr_str)
              /\ Delimiter = descr_str[Stop + 1] /\ Delimiter \in Ends[scan]
              /\ (Behind \o Scanned) \o <<Delimiter>> = SubSeq(descr_str, 1, Stop + 1)
         /\ Delimiter = "end" => Stop = Len(descr_str)
<1> DEFINE n == Len(descr_str)
<1>1. /\ head_ptr \in Nat /\ n \in Nat /\ Stop \in head_ptr..n /\ Stop \in Nat
      /\ head_ptr <= Stop /\ Stop <= n
      /\ \A k \in (head_ptr + 1)..Stop : descr_str[k] \notin Ends[scan]
      /\ Stop < n => descr_str[Stop + 1] \in Ends[scan]
  BY StopIs
<1>2. descr_str \in Seq(DescrAlphabet) /\ \A k \in 1..n : descr_str[k] \in DescrAlphabet
  BY DEF DescrTyped
<1>2a. \A k \in 1..n : descr_str[k] \in Chars /\ descr_str[k] # "end"
  BY <1>2, DescrAssumption DEF Chars
<1>3. SubSeq(descr_str, 1, head_ptr) \o SubSeq(descr_str, head_ptr + 1, Stop) = SubSeq(descr_str, 1, Stop)
  <2>1. 1 \in 1..(n + 1) /\ head_ptr \in (1 - 1)..n /\ Stop \in head_ptr..n
    BY <1>1
  <2> QED
    BY <1>2, <2>1, ConcatAdjacentSubSeq
<1>4. Behind \o Scanned = SubSeq(descr_str, 1, Stop)
  BY <1>3 DEF Behind, Scanned
<1>5. SubSeq(descr_str, 1, n) = descr_str
  BY <1>2, SubSeqFull
<1>6. Scanned \in Seq(Chars) /\ Without(Scanned, Ends[scan])
  <2>1. \A k \in (head_ptr + 1)..Stop : descr_str[k] \in Chars
    <3>1. \A k \in (head_ptr + 1)..Stop : k \in 1..n
      BY <1>1
    <3> QED
      BY <1>2a, <3>1
  <2>2. PICK a \in Nat : a = head_ptr + 1
    BY <1>1
  <2>3. \A k \in a..Stop : descr_str[k] \in Chars
    BY <2>1, <2>2
  <2> DEFINE s == SubSeq(descr_str, a, Stop)
  <2>4. /\ s \in Seq(Chars)
        /\ Len(s) = IF a <= Stop THEN Stop - a + 1 ELSE 0
        /\ \A i \in 1..(Stop - a + 1) : s[i] = descr_str[a + i - 1]
    BY <1>1, <2>3, SubSeqProperties
  <2>5. s = Scanned
    BY <2>2 DEF Scanned
  <2> HIDE DEF s
  <2>6. ASSUME NEW i \in DOMAIN s PROVE s[i] \notin Ends[scan]
    <3>1. i \in 1..(Stop - a + 1) /\ a + i - 1 \in (head_ptr + 1)..Stop
      BY <1>1, <2>2, <2>4
    <3> QED
      BY <1>1, <2>4, <3>1
  <2> QED
    BY <2>4, <2>5, <2>6 DEF Without, ToSet
<1>7. Behind \in Seq(Chars)
  <2>1. \A k \in 1..head_ptr : descr_str[k] \in Chars
    <3>1. \A k \in 1..head_ptr : k \in 1..n
      BY <1>1
    <3> QED
      BY <1>2a, <3>1
  <2>2. 1 \in Int /\ head_ptr \in Int
    BY <1>1
  <2> QED
    BY <2>1, <2>2, SubSeqProperties DEF Behind
<1>8. Delimiter = "end" => Stop = n
  <2> SUFFICES ASSUME Stop # n PROVE Delimiter # "end"
    OBVIOUS
  <2>1. Stop + 1 \in 1..n
    BY <1>1
  <2>2. Delimiter = descr_str[Stop + 1]
    BY DEF Delimiter
  <2> QED
    BY <1>2a, <2>1, <2>2
<1> HIDE DEF n
<1>9. Delimiter # "end" => Stop < n /\ Stop + 1 \in 1..n /\ Delimiter = descr_str[Stop + 1]
  <2> SUFFICES ASSUME Delimiter # "end" PROVE Stop < n /\ Stop + 1 \in 1..n /\ Delimiter = descr_str[Stop + 1]
    OBVIOUS
  <2>1. Stop # n
    BY DEF Delimiter, n
  <2>4. Delimiter = descr_str[Stop + 1]
    BY DEF Delimiter, n
  <2>2. Stop \in Nat /\ n \in Nat /\ Stop <= n
    BY <1>1
  <2>3. Stop < n /\ Stop + 1 \in 1..n
    BY <2>1, <2>2
  <2> QED
    BY <2>3, <2>4
<1>10. Stop < n => SubSeq(descr_str, 1, Stop + 1) = SubSeq(descr_str, 1, Stop) \o <<descr_str[Stop + 1]>>
  <2> SUFFICES ASSUME Stop < n
      PROVE SubSeq(descr_str, 1, Stop + 1) = SubSeq(descr_str, 1, Stop) \o <<descr_str[Stop + 1]>>
    OBVIOUS
  <2>1. PICK m : m = Stop + 1
    OBVIOUS
  <2>2. SubSeq(descr_str, 1, m) = SubSeq(descr_str, 1, Stop) \o <<descr_str[m]>>
    BY <1>1, <1>2, <2>1, OneMore DEF n
  <2> QED
    BY <2>1, <2>2
<1> QED
  BY <1>1, <1>4, <1>5, <1>6, <1>7, <1>8, <1>9, <1>10 DEF n

LEMMA Delimiters == <<",">> \in Seq(Chars) /\ <<"=">> \in Seq(Chars) /\ <<":">> \in Seq(Chars)
<1>1. "," \in Chars /\ "=" \in Chars /\ ":" \in Chars
  BY DEF Chars
<1>2. \A x \in Chars : <<x>> \in Seq(Chars)
  OBVIOUS
<1> QED
  BY <1>1, <1>2

(* The options put together, one more or one replaced.                     *)
LEMMA PieceType ==
  ASSUME NEW o \in Option
  PROVE  /\ Piece(o) \in Seq(Chars)
         /\ (<<",">> \o o.name) \o <<"=">> \in Seq(Chars)
         /\ Piece(o) = ((<<",">> \o o.name) \o <<"=">>) \o o.value
<1> DEFINE a == <<",">>
           b == o.name
           c1 == <<"=">>
           d == o.value
<1>1. a \in Seq(Chars) /\ b \in Seq(Chars) /\ c1 \in Seq(Chars) /\ d \in Seq(Chars)
  <2>1. a \in Seq(Chars) /\ c1 \in Seq(Chars)
    BY Delimiters
  <2>2. b \in Seq(Chars) /\ d \in Seq(Chars)
    BY DEF Option
  <2> QED
    BY <2>1, <2>2
<1>2. Piece(o) = ((a \o b) \o c1) \o d
  BY DEF Piece
<1> HIDE DEF a, b, c1, d
<1>3. a \o b \in Seq(Chars)
  BY <1>1, ConcatProperties
<1>4. (a \o b) \o c1 \in Seq(Chars)
  BY <1>1, <1>3, ConcatProperties
<1>5. ((a \o b) \o c1) \o d \in Seq(Chars)
  BY <1>1, <1>4, ConcatProperties
<1> QED
  BY <1>2, <1>4, <1>5 DEF a, b, c1, d

LEMMA OptionsJoined ==
  ASSUME NEW os \in Seq(Option), NEW o \in Option
  PROVE  /\ AllOptions(os) \in Seq(Chars)
         /\ AllOptions(Append(os, o)) = AllOptions(os) \o Piece(o)
<1> DEFINE s == [k \in 1..Len(os) |-> Piece(os[k])]
           os2 == Append(os, o)
           t == [k \in 1..Len(os2) |-> Piece(os2[k])]
<1>1. /\ os2 \in Seq(Option) /\ Len(os2) = Len(os) + 1 /\ os2[Len(os) + 1] = o
      /\ \A k \in 1..Len(os) : os2[k] = os[k]
  BY AppendProperties
<1>2. Len(os) \in Nat /\ \A k \in 1..Len(os) : os[k] \in Option
  OBVIOUS
<1>3. s \in Seq(Seq(Chars)) /\ Len(s) = Len(os)
  <2>1. \A k \in 1..Len(os) : Piece(os[k]) \in Seq(Chars)
    BY <1>2, PieceType
  <2> QED
    BY <1>2, <2>1
<1>4. Piece(o) \in Seq(Chars)
  BY PieceType
<1>5. t = Append(s, Piece(o))
  <2> HIDE DEF os2
  <2>1. Append(s, Piece(o)) = [k \in 1..(Len(s) + 1) |-> IF k <= Len(s) THEN s[k] ELSE Piece(o)]
    BY <1>3, <1>4
  <2>2. ASSUME NEW k \in 1..(Len(os) + 1) PROVE Piece(os2[k]) = IF k <= Len(s) THEN s[k] ELSE Piece(o)
    BY <1>1, <1>2, <1>3
  <2> HIDE DEF s
  <2> QED
    BY <1>1, <1>3, <2>1, <2>2
<1>6. FlattenSeq(s) \in Seq(Chars)
  <2> HIDE DEF s
  <2> QED
    BY <1>3, FlattenType
<1>7. FlattenSeq(t) = FlattenSeq(s) \o Piece(o)
  <2> HIDE DEF s, t
  <2> QED
    BY <1>3, <1>4, <1>5, FlattenAppend
<1>8. AllOptions(os) = FlattenSeq(s) /\ AllOptions(Append(os, o)) = FlattenSeq(t)
  BY DEF AllOptions
<1> QED
  BY <1>6, <1>7, <1>8

LEMMA NoOptions == AllOptions(<<>>) = <<>>
<1>1. Len(<<>>) = 0 /\ [k \in 1..0 |-> Piece(<<>>[k])] = <<>>
  OBVIOUS
<1> QED
  BY <1>1, FlattenEmpty DEF AllOptions


(* What is appended to the last part is appended to the whole.             *)
JoinsOne(p, q, os, o, v) ==
  /\ JoinedOf(p, q, Append(os, o)) = ((JoinedOf(p, q, os) \o <<",">>) \o o.name) \o <<"=">>
  /\ JoinedOf(p, q, Append(os, [o EXCEPT !.value = v])) = JoinedOf(p, q, Append(os, o)) \o v

Associates(x, y, z) == x \o (y \o z) = (x \o y) \o z

LEMMA Associative ==
  ASSUME NEW S, NEW x \in Seq(S), NEW y \in Seq(S), NEW z \in Seq(S)
  PROVE  Associates(x, y, z)
BY DEF Associates

LEMMA OneMoreOption ==
  ASSUME NEW p \in Seq(Chars), NEW q \in {<<>>} \union {<<x>> : x \in Seq(Chars)},
         NEW os \in Seq(Option), NEW o \in Option, NEW v \in Seq(Chars), o.value = <<>>
  PROVE  JoinsOne(p, q, os, o, v)
<1> DEFINE new == [o EXCEPT !.value = v]
           a == <<",">>
           b == o.name
           e == <<"=">>
           j == JoinedOf(p, q, os)
           r == p \o Queried(q)
           s == AllOptions(os)
           t == AllOptions(Append(os, o))
           u == AllOptions(Append(os, new))
<1>1. a \in Seq(Chars) /\ e \in Seq(Chars)
  BY Delimiters
<1>2. b \in Seq(Chars) /\ new \in Option /\ new.name = b /\ new.value = v
  BY DEF Option
<1>3. s \in Seq(Chars) /\ t = s \o Piece(o) /\ u = s \o Piece(new)
  BY <1>2, OptionsJoined
<1>4. r \in Seq(Chars)
  <2>1. Queried(q) \in Seq(Chars)
    <3>1. CASE q = <<>>
      BY <3>1 DEF Queried
    <3>2. CASE q # <<>>
      <4>1. PICK x \in Seq(Chars) : q = <<x>>
        BY <3>2
      <4>2. <<":">> \in Seq(Chars) /\ q[1] = x
        BY <4>1, Delimiters
      <4>3. <<":">> \o x \in Seq(Chars)
        BY <4>2, ConcatProperties
      <4> QED
        BY <3>2, <4>2, <4>3 DEF Queried
    <3> QED
      BY <3>1, <3>2
  <2> DEFINE z == Queried(q)
  <2>2. z \in Seq(Chars)
    BY <2>1
  <2> HIDE DEF z
  <2>3. p \o z \in Seq(Chars)
    BY <2>2, ConcatProperties
  <2> QED
    BY <2>3 DEF z
<1>5. Piece(o) = ((a \o b) \o e) \o <<>> /\ Piece(new) = ((a \o b) \o e) \o v
  BY <1>2 DEF Piece
<1>6. j = r \o s /\ JoinedOf(p, q, Append(os, o)) = r \o t /\ JoinedOf(p, q, Append(os, new)) = r \o u
  BY DEF JoinedOf
<1> HIDE DEF new, a, b, e, j, r, s, t, u
<1>7. j \in Seq(Chars)
  BY <1>3, <1>4, <1>6, ConcatProperties
<1>8. a \o b \in Seq(Chars) /\ (a \o b) \o e \in Seq(Chars)
  BY <1>1, <1>2, ConcatProperties
<1>9. ((a \o b) \o e) \o <<>> = (a \o b) \o e
  BY <1>8, ConcatEmptySeq
<1>10. r \o t = ((j \o a) \o b) \o e
  <2>1. t = s \o ((a \o b) \o e)
    BY <1>3, <1>5, <1>9
  <2>2. r \o t = (r \o s) \o ((a \o b) \o e)
    <3>1. r \o (s \o ((a \o b) \o e)) = (r \o s) \o ((a \o b) \o e)
      <4> DEFINE X == (a \o b) \o e
      <4>1. X \in Seq(Chars)
        BY <1>8
      <4> HIDE DEF X
      <4>2. s \in Seq(Chars)
        BY <1>3
      <4>3. r \o (s \o X) = (r \o s) \o X
        <5>1. Associates(r, s, X)
          BY <1>4, <4>1, <4>2, Associative
        <5> QED
          BY <5>1 DEF Associates
      <4> QED
        BY <4>3 DEF X
    <3> QED
      BY <2>1, <3>1
  <2>3. j \o ((a \o b) \o e) = (j \o (a \o b)) \o e
    <3> DEFINE X == a \o b
    <3>1. X \in Seq(Chars)
      BY <1>8
    <3> HIDE DEF X
    <3>2. j \o (X \o e) = (j \o X) \o e
      <4>1. Associates(j, X, e)
        BY <1>1, <1>7, <3>1, Associative
      <4> QED
        BY <4>1 DEF Associates
    <3> QED
      BY <3>2 DEF X
  <2>4. j \o (a \o b) = (j \o a) \o b
    <3>1. Associates(j, a, b)
      BY <1>1, <1>2, <1>7, Associative
    <3> QED
      BY <3>1 DEF Associates
  <2> QED
    BY <1>6, <2>2, <2>3, <2>4
<1>11. r \o u = (r \o t) \o v
  <2>1. u = s \o (((a \o b) \o e) \o v) /\ t = s \o ((a \o b) \o e)
    BY <1>3, <1>5, <1>9
  <2>2. u = t \o v
    <3>1. s \o (((a \o b) \o e) \o v) = (s \o ((a \o b) \o e)) \o v
      <4> DEFINE X == (a \o b) \o e
      <4>1. X \in Seq(Chars)
        BY <1>8
      <4> HIDE DEF X
      <4>2. s \o (X \o v) = (s \o X) \o v
        <5>1. Associates(s, X, v)
          BY <1>3, <4>1, Associative
        <5> QED
          BY <5>1 DEF Associates
      <4> QED
        BY <4>2 DEF X
    <3> QED
      BY <2>1, <3>1
  <2>3. t \in Seq(Chars)
    BY <1>3, <1>8, <2>1, ConcatProperties
  <2> QED
    BY <1>4, <2>2, <2>3
<1> QED
  BY <1>6, <1>10, <1>11 DEF JoinsOne, new, a, b, e, j


-----------------------------------------------------------------------------
(* The scans.                                                              *)

(* What the parser is like at the next scan, where this one stopped.       *)
LEMMA ScanGoesOn ==
  ASSUME DescrInv, scan \in DOMAIN Ends, NEW next, Continue(next),
         next \in DOMAIN Ends => Delimiter # "end"
  PROVE  /\ descr_str' \in Seq(DescrAlphabet) /\ descr_str' = descr_str /\ scan' = next
         /\ next \in DOMAIN Ends =>
              /\ head_ptr' \in 0..Len(descr_str') /\ head_ptr' > 0
              /\ descr_str'[head_ptr'] = Delimiter
              /\ Behind' = (Behind \o Scanned) \o <<Delimiter>>
<1>1. descr_str' = descr_str /\ scan' = next /\ head_ptr' = Stop + 1
      /\ descr_str \in Seq(DescrAlphabet) /\ DescrTyped
  BY DEF Continue, DescrInv, DescrTyped
<1>2. ASSUME next \in DOMAIN Ends
      PROVE  /\ head_ptr' \in 0..Len(descr_str') /\ head_ptr' > 0
             /\ descr_str'[head_ptr'] = Delimiter
             /\ Behind' = (Behind \o Scanned) \o <<Delimiter>>
  <2>1. /\ Stop + 1 \in 1..Len(descr_str)
        /\ Delimiter = descr_str[Stop + 1]
        /\ (Behind \o Scanned) \o <<Delimiter>> = SubSeq(descr_str, 1, Stop + 1)
    BY <1>1, <1>2, ScanIs
  <2>2. Behind' = SubSeq(descr_str, 1, Stop + 1)
    BY <1>1 DEF Behind
  <2>3. Len(descr_str) \in Nat
    BY <1>1
  <2>4. head_ptr' \in 0..Len(descr_str') /\ head_ptr' > 0
    BY <1>1, <2>1, <2>3
  <2>5. descr_str'[head_ptr'] = Delimiter
    BY <1>1, <2>1
  <2>6. Behind' = (Behind \o Scanned) \o <<Delimiter>>
    BY <2>1, <2>2
  <2> QED
    BY <2>4, <2>5, <2>6
<1> QED
  BY <1>1, <1>2

LEMMA ProtocolScanned ==
  ASSUME DescrInv, ScanProtocol
  PROVE  DescrInv'
<1> DEFINE next == CASE Delimiter = "end" -> "done" [] Delimiter = "," -> "name" [] OTHER -> "query"
<1>1. /\ scan = "protocol" /\ protocol' = Scanned /\ Continue(next)
      /\ query' = query /\ opts' = opts
  BY DEF ScanProtocol
<1>2. scan \in DOMAIN Ends /\ Ends[scan] = {":", ","}
  BY <1>1 DEF Ends
<1>3. /\ query = <<>> /\ opts = <<>> /\ head_ptr = 0 /\ DescrTyped
  BY <1>1 DEF DescrInv, Cut
<1>4. /\ Delimiter = "end" => next = "done"
      /\ Delimiter # "end" => Delimiter \in {":", ","}
      /\ Delimiter = "," => next = "name"
      /\ Delimiter = ":" => next = "query"
  BY <1>2, <1>3, ScanIs
<1>5. next \in {"done", "name", "query"} /\ (next \in DOMAIN Ends => Delimiter # "end")
      /\ (next = "name" => Delimiter = ",") /\ (next = "query" => Delimiter = ":")
      /\ (next = "done" => Delimiter = "end")
  BY <1>4 DEF Ends
<1> HIDE DEF next
<1>6. /\ Scanned \in Seq(Chars) /\ Without(Scanned, Ends["protocol"])
      /\ Delimiter = "end" => Behind \o Scanned = descr_str
  BY <1>1, <1>2, <1>3, ScanIs
<1>7. /\ descr_str' \in Seq(DescrAlphabet) /\ descr_str' = descr_str /\ scan' = next
      /\ next \in DOMAIN Ends =>
           /\ head_ptr' \in 0..Len(descr_str') /\ head_ptr' > 0
           /\ descr_str'[head_ptr'] = Delimiter
           /\ Behind' = (Behind \o Scanned) \o <<Delimiter>>
  BY <1>1, <1>2, <1>5, ScanGoesOn
<1>8. DescrTyped'
  <2>1. scan' \in {"protocol", "query", "name", "value", "done", "exited"}
    BY <1>5, <1>7
  <2>2. scan' \in DOMAIN Ends => head_ptr' \in 0..Len(descr_str')
    BY <1>7
  <2> QED
    BY <1>1, <1>3, <1>6, <1>7, <2>1, <2>2 DEF DescrTyped
<1>9. Behind = <<>> /\ <<>> \o Scanned = Scanned
  <2>1. Behind = <<>>
    BY <1>3, SubSeqEmpty DEF Behind
  <2>2. <<>> \o Scanned = Scanned
    BY <1>6, ConcatEmptySeq
  <2> QED
    BY <2>1, <2>2
<1>10. JoinedOf(Scanned, <<>>, <<>>) = Scanned
  <2>1. Scanned \o <<>> = Scanned
    BY <1>6, ConcatEmptySeq
  <2>2. Queried(<<>>) = <<>>
    BY DEF Queried
  <2> QED
    BY <2>1, <2>2, NoOptions DEF JoinedOf
<1>11. Cut'
  <2>1. CASE next = "done"
    BY <1>1, <1>3, <1>5, <1>6, <1>7, <1>9, <1>10, <2>1 DEF Cut
  <2>2. CASE next = "name"
    <3>1. head_ptr' > 0 /\ descr_str'[head_ptr'] = "," /\ Behind' = Scanned \o <<",">>
      BY <1>5, <1>7, <1>9, <2>2 DEF Ends
    <3> QED
      BY <1>1, <1>3, <1>7, <1>10, <2>2, <3>1 DEF Cut
  <2>3. CASE next = "query"
    <3>1. Behind' = Scanned \o <<":">>
      BY <1>5, <1>7, <1>9, <2>3 DEF Ends
    <3> QED
      BY <1>1, <1>3, <1>7, <2>3, <3>1 DEF Cut
  <2> QED
    BY <1>5, <2>1, <2>2, <2>3
<1>12. Clean'
  BY <1>1, <1>6 DEF DescrInv, Clean
<1>13. Unnamed'
  BY <1>5, <1>7 DEF Unnamed
<1> QED
  BY <1>8, <1>11, <1>12, <1>13 DEF DescrInv

LEMMA QueryScanned ==
  ASSUME DescrInv, ScanQuery
  PROVE  DescrInv'
<1> DEFINE next == IF Delimiter = "end" THEN "done" ELSE "name"
<1>1. /\ scan = "query" /\ query' = <<Scanned>> /\ Continue(next)
      /\ protocol' = protocol /\ opts' = opts
  BY DEF ScanQuery
<1>2. scan \in DOMAIN Ends /\ Ends[scan] = {","}
  BY <1>1 DEF Ends
<1>3. /\ query = <<>> /\ opts = <<>> /\ protocol \o <<":">> = Behind /\ DescrTyped
      /\ protocol \in Seq(Chars)
  BY <1>1 DEF DescrInv, Cut, DescrTyped
<1>4. /\ next \in {"done", "name"} /\ (next \in DOMAIN Ends => Delimiter # "end")
      /\ (next = "done" => Delimiter = "end") /\ (next = "name" => Delimiter = ",")
  <2>1. Delimiter # "end" => Delimiter \in {","}
    BY <1>2, <1>3, ScanIs
  <2> QED
    BY <2>1 DEF Ends
<1> HIDE DEF next
<1>5. /\ Scanned \in Seq(Chars) /\ Without(Scanned, Ends["query"])
      /\ Delimiter = "end" => Behind \o Scanned = descr_str
  BY <1>1, <1>2, <1>3, ScanIs
<1>6. /\ descr_str' \in Seq(DescrAlphabet) /\ descr_str' = descr_str /\ scan' = next
      /\ next \in DOMAIN Ends =>
           /\ head_ptr' \in 0..Len(descr_str') /\ head_ptr' > 0
           /\ descr_str'[head_ptr'] = Delimiter
           /\ Behind' = (Behind \o Scanned) \o <<Delimiter>>
  BY <1>1, <1>2, <1>4, ScanGoesOn
<1>7. DescrTyped'
  <2>1. scan' \in {"protocol", "query", "name", "value", "done", "exited"}
    BY <1>4, <1>6
  <2>2. scan' \in DOMAIN Ends => head_ptr' \in 0..Len(descr_str')
    BY <1>6
  <2> QED
    BY <1>1, <1>3, <1>5, <1>6, <2>1, <2>2 DEF DescrTyped
<1>8. JoinedOf(protocol, <<Scanned>>, <<>>) = Behind \o Scanned
  <2> DEFINE x == <<":">>
             s == Scanned
  <2>1. x \in Seq(Chars) /\ s \in Seq(Chars)
    BY <1>5, Delimiters
  <2>2. Queried(<<s>>) = x \o s
    BY DEF Queried
  <2> HIDE DEF x, s
  <2>3. protocol \o (x \o s) = (protocol \o x) \o s
    BY <1>3, <2>1
  <2>4. (protocol \o x) \o s \in Seq(Chars)
    BY <1>3, <2>1
  <2>5. ((protocol \o x) \o s) \o <<>> = (protocol \o x) \o s
    BY <2>4, ConcatEmptySeq
  <2>6. JoinedOf(protocol, <<s>>, <<>>) = (protocol \o x) \o s
    BY <2>2, <2>3, <2>5, NoOptions DEF JoinedOf
  <2> QED
    BY <1>3, <2>6 DEF x, s
<1>9. Cut'
  <2>1. CASE next = "done"
    BY <1>1, <1>3, <1>4, <1>5, <1>6, <1>8, <2>1 DEF Cut
  <2>2. CASE next = "name"
    <3>1. head_ptr' > 0 /\ descr_str'[head_ptr'] = "," /\ Behind' = (Behind \o Scanned) \o <<",">>
      BY <1>4, <1>6, <2>2 DEF Ends
    <3> QED
      BY <1>1, <1>3, <1>6, <1>8, <2>2, <3>1 DEF Cut
  <2> QED
    BY <1>4, <2>1, <2>2
<1>10. Clean'
  <2>1. \A q \in ToSet(query') : q = Scanned
    BY <1>1 DEF ToSet
  <2> QED
    BY <1>1, <1>5, <2>1 DEF DescrInv, Clean
<1>11. Unnamed'
  BY <1>4, <1>6 DEF Unnamed
<1> QED
  BY <1>7, <1>9, <1>10, <1>11 DEF DescrInv


(* A name that the description ends in: its comma is the last one, and no  *)
(* = comes after it.                                                       *)
LEMMA NoName ==
  ASSUME DescrInv, scan = "name", Delimiter = "end"
  PROVE  \E k \in 1..Len(descr_str) :
           /\ descr_str[k] = ","
           /\ "=" \notin ToSet(SubSeq(descr_str, k, Len(descr_str)))
<1>1. /\ DescrTyped /\ scan \in DOMAIN Ends /\ Ends[scan] = {"="}
      /\ head_ptr > 0 /\ descr_str[head_ptr] = ","
  BY DEF DescrInv, Cut, Ends
<1> DEFINE n == Len(descr_str)
<1>2. /\ head_ptr \in 1..n /\ n \in Nat /\ Stop = n
      /\ \A k \in (head_ptr + 1)..Stop : descr_str[k] \notin Ends[scan]
  <2>1. /\ head_ptr \in Nat /\ n \in Nat /\ Stop \in head_ptr..n
        /\ \A k \in (head_ptr + 1)..Stop : descr_str[k] \notin Ends[scan]
    BY <1>1, StopIs
  <2>2. Stop = n
    BY <1>1, ScanIs
  <2>3. head_ptr \in 1..n
    <3> HIDE DEF n
    <3>1. head_ptr \in Nat /\ n \in Nat /\ n \in head_ptr..n /\ head_ptr > 0
      BY <1>1, <2>1, <2>2
    <3> QED
      BY <3>1
  <2> QED
    BY <2>1, <2>2, <2>3
<1>3. \A k \in head_ptr..n : descr_str[k] # "="
  <2> SUFFICES ASSUME NEW k \in head_ptr..n PROVE descr_str[k] # "="
    OBVIOUS
  <2>1. CASE k = head_ptr
    BY <1>1, <2>1
  <2>2. CASE k # head_ptr
    <3>1. k \in (head_ptr + 1)..Stop
      BY <1>2, <2>2
    <3> QED
      BY <1>1, <1>2, <3>1
  <2> QED
    BY <2>1, <2>2
<1> DEFINE s == SubSeq(descr_str, head_ptr, n)
<1>4. /\ s \in Seq(DescrAlphabet) /\ Len(s) = n - head_ptr + 1
      /\ \A i \in 1..(n - head_ptr + 1) : s[i] = descr_str[head_ptr + i - 1]
  <2>1. \A i \in head_ptr..n : descr_str[i] \in DescrAlphabet
    <3>1. descr_str \in Seq(DescrAlphabet)
      BY <1>1 DEF DescrTyped
    <3>2. \A i \in 1..n : descr_str[i] \in DescrAlphabet
      BY <3>1
    <3> HIDE DEF n
    <3>3. \A i \in head_ptr..n : i \in 1..n
      BY <1>2
    <3> QED
      BY <3>2, <3>3
  <2>2. head_ptr \in Int /\ n \in Int /\ head_ptr <= n
    BY <1>2
  <2> QED
    BY <2>1, <2>2, SubSeqProperties
<1> HIDE DEF s
<1>5. "=" \notin ToSet(s)
  <2> SUFFICES ASSUME NEW i \in DOMAIN s PROVE s[i] # "="
    BY DEF ToSet
  <2>1. i \in 1..(n - head_ptr + 1)
    BY <1>4
  <2>2. head_ptr + i - 1 \in head_ptr..n
    BY <1>2, <2>1
  <2> QED
    BY <1>3, <1>4, <2>1, <2>2
<1> QED
  BY <1>1, <1>2, <1>5 DEF s

LEMMA NameScanned ==
  ASSUME DescrInv, ScanName
  PROVE  DescrInv'
<1>1. /\ scan = "name" /\ protocol' = protocol /\ query' = query
      /\ scan \in DOMAIN Ends /\ Ends[scan] = {"="}
      /\ DescrTyped
  BY DEF ScanName, DescrInv, Ends
<1>2. CASE Delimiter = "end"
  <2>1. opts' = opts /\ scan' = "exited" /\ descr_str' = descr_str
    BY <1>2 DEF ScanName, Continue
  <2>2. DescrTyped'
    BY <1>1, <2>1 DEF DescrTyped, Ends
  <2>3. Cut' /\ Clean'
    BY <1>1, <2>1 DEF DescrInv, Cut, Clean
  <2>4. Unnamed'
    BY <1>1, <1>2, <2>1, NoName DEF Unnamed
  <2> QED
    BY <2>2, <2>3, <2>4 DEF DescrInv
<1>3. CASE Delimiter # "end"
  <2> DEFINE o == [name |-> Scanned, value |-> <<>>]
             j == JoinedOf(protocol, query, opts)
             a == <<",">>
             s == Scanned
             e == <<"=">>
  <2>1. opts' = Append(opts, o) /\ Continue("value")
    BY <1>3 DEF ScanName
  <2>2. /\ s \in Seq(Chars) /\ Without(s, Ends["name"]) /\ Delimiter = "="
    BY <1>1, <1>3, ScanIs
  <2>3. /\ descr_str' \in Seq(DescrAlphabet) /\ descr_str' = descr_str /\ scan' = "value"
        /\ head_ptr' \in 0..Len(descr_str')
        /\ Behind' = (Behind \o s) \o e
    <3>1. "value" \in DOMAIN Ends
      BY DEF Ends
    <3> QED
      BY <1>1, <1>3, <2>1, <2>2, <3>1, ScanGoesOn
  <2>4. o \in Option /\ o.name = s /\ o.value = <<>> /\ o = [o EXCEPT !.value = <<>>]
        /\ <<>> \in Seq(Chars)
    BY <2>2 DEF Option
  <2>5. /\ protocol \in Seq(Chars) /\ query \in {<<>>} \union {<<q>> : q \in Seq(Chars)}
        /\ opts \in Seq(Option)
    BY <1>1 DEF DescrTyped
  <2>6. /\ opts' \in Seq(Option) /\ opts' # <<>> /\ opts'[Len(opts')] = o
        /\ Len(opts') = Len(opts) + 1 /\ \A i \in 1..Len(opts) : opts'[i] = opts[i]
    <3> HIDE DEF o
    <3> QED
      BY <2>1, <2>4, <2>5, AppendProperties
  <2>7. JoinedOf(protocol, query, Append(opts, o)) = ((j \o a) \o s) \o e
    <3> HIDE DEF o, s
    <3>1. JoinsOne(protocol, query, opts, o, <<>>)
      BY <2>4, <2>5, OneMoreOption
    <3> QED
      BY <2>4, <3>1 DEF JoinsOne
  <2>8. j \o a = Behind
    BY <1>1 DEF DescrInv, Cut
  <2>9. DescrTyped'
    BY <1>1, <2>3, <2>5, <2>6 DEF DescrTyped
  <2>10. Cut'
    <3>1. opts'[Len(opts')].value = <<>>
      BY <2>4, <2>6
    <3>2. JoinedOf(protocol', query', opts') = Behind'
      BY <1>1, <2>1, <2>3, <2>7, <2>8
    <3> QED
      BY <2>3, <2>6, <3>1, <3>2 DEF Cut
  <2>11. Clean'
    <3>1. ASSUME NEW p \in ToSet(opts')
          PROVE  Without(p.name, Ends["name"]) /\ Without(p.value, Ends["value"])
      <4>1. PICK i \in 1..Len(opts') : p = opts'[i]
        BY <2>6 DEF ToSet
      <4>2. CASE i <= Len(opts)
        <5>1. p \in ToSet(opts)
          BY <2>5, <2>6, <4>1, <4>2 DEF ToSet
        <5> QED
          BY <5>1 DEF DescrInv, Clean
      <4>3. CASE i > Len(opts)
        <5>1. p = o
          BY <2>5, <2>6, <4>1, <4>3
        <5>2. Without(<<>>, Ends["value"])
          BY DEF Without, ToSet
        <5> QED
          BY <2>2, <2>4, <5>1, <5>2
      <4> QED
        BY <2>5, <4>1, <4>2, <4>3
    <3> QED
      BY <1>1, <3>1 DEF DescrInv, Clean
  <2>12. Unnamed'
    BY <2>3 DEF Unnamed
  <2> QED
    BY <2>9, <2>10, <2>11, <2>12 DEF DescrInv
<1> QED
  BY <1>2, <1>3

LEMMA ValueScanned ==
  ASSUME DescrInv, ScanValue
  PROVE  DescrInv'
<1> DEFINE next == IF Delimiter = "end" THEN "done" ELSE "name"
           os == Front(opts)
           o == Last(opts)
           s == Scanned
           new == [o EXCEPT !.value = s]
           a == <<",">>
<1>1. /\ scan = "value" /\ protocol' = protocol /\ query' = query
      /\ scan \in DOMAIN Ends /\ Ends[scan] = {","}
      /\ DescrTyped /\ opts' = Append(os, new) /\ Continue(next)
  BY DEF ScanValue, DescrInv, Ends
<1>2. /\ next \in {"done", "name"} /\ (next \in DOMAIN Ends => Delimiter # "end")
      /\ (next = "done" => Delimiter = "end") /\ (next = "name" => Delimiter = ",")
  <2>1. Delimiter # "end" => Delimiter \in {","}
    BY <1>1, ScanIs
  <2> QED
    BY <2>1 DEF Ends
<1> HIDE DEF next
<1>3. /\ s \in Seq(Chars) /\ Without(s, Ends["value"])
      /\ Delimiter = "end" => Behind \o s = descr_str
  BY <1>1, ScanIs
<1>4. /\ descr_str' \in Seq(DescrAlphabet) /\ descr_str' = descr_str /\ scan' = next
      /\ next \in DOMAIN Ends =>
           /\ head_ptr' \in 0..Len(descr_str') /\ head_ptr' > 0
           /\ descr_str'[head_ptr'] = Delimiter
           /\ Behind' = (Behind \o s) \o <<Delimiter>>
  BY <1>1, <1>2, ScanGoesOn
<1>5. /\ protocol \in Seq(Chars) /\ query \in {<<>>} \union {<<q>> : q \in Seq(Chars)}
      /\ opts \in Seq(Option) /\ opts # <<>> /\ o.value = <<>>
      /\ JoinedOf(protocol, query, opts) = Behind
  BY <1>1 DEF DescrInv, DescrTyped, Cut, Last
<1>6. os \in Seq(Option) /\ o \in Option /\ opts = Append(os, o)
      /\ o \in ToSet(opts) /\ \A p \in ToSet(os) : p \in ToSet(opts)
  <2>1. PICK t \in Seq(Option), l \in Option : opts = Append(t, l)
    BY <1>5, SequenceEmptyOrAppend
  <2>2. /\ Len(opts) = Len(t) + 1 /\ Len(t) \in Nat /\ \A i \in 1..Len(t) : opts[i] = t[i]
        /\ opts[Len(t) + 1] = l
    BY <2>1, AppendProperties
  <2>3. o = l
    BY <2>2 DEF Last
  <2>4. os = t
    <3>1. Len(opts) - 1 = Len(t)
      BY <2>2
    <3>2. \A i \in 1..Len(t) : opts[i] \in Option
      BY <2>1, <2>2
    <3>3. /\ SubSeq(opts, 1, Len(t)) \in Seq(Option)
          /\ Len(SubSeq(opts, 1, Len(t))) = Len(t)
          /\ \A i \in 1..Len(t) : SubSeq(opts, 1, Len(t))[i] = opts[i]
      <4> DEFINE n == Len(t)
      <4>1. n \in Int /\ 1 \in Int /\ n - 1 + 1 = n /\ (1 <= n \/ n = 0)
        BY <2>2
      <4>2. \A i \in 1..n : opts[i] \in Option
        BY <3>2
      <4> HIDE DEF n
      <4>3. /\ SubSeq(opts, 1, n) \in Seq(Option)
            /\ Len(SubSeq(opts, 1, n)) = IF 1 <= n THEN n - 1 + 1 ELSE 0
            /\ \A i \in 1..(n - 1 + 1) : SubSeq(opts, 1, n)[i] = opts[1 + i - 1]
        BY <4>1, <4>2, SubSeqProperties
      <4>4. \A i \in 1..n : 1 + i - 1 = i
        BY <4>1
      <4> QED
        BY <4>1, <4>3, <4>4 DEF n
    <3>4. SubSeq(opts, 1, Len(t)) = t
      BY <2>1, <2>2, <3>3, SeqEqual
    <3> QED
      BY <3>1, <3>4 DEF Front
  <2>5. l \in ToSet(opts)
    <3>1. Len(opts) \in DOMAIN opts /\ opts[Len(opts)] = l
      BY <1>5, <2>2
    <3> QED
      BY <3>1 DEF ToSet
  <2>6. \A p \in ToSet(t) : p \in ToSet(opts)
    BY <1>5, <2>1, <2>2 DEF ToSet
  <2> QED
    BY <2>1, <2>3, <2>4, <2>5, <2>6
<1> HIDE DEF os, o, s
<1>7. new \in Option /\ new.name = o.name /\ new.value = s
  BY <1>3, <1>6 DEF Option
<1>8. JoinedOf(protocol, query, Append(os, new)) = Behind \o s
  <2>1. JoinsOne(protocol, query, os, o, s)
    BY <1>3, <1>5, <1>6, OneMoreOption
  <2> QED
    BY <1>5, <1>6, <2>1 DEF JoinsOne
<1> HIDE DEF new
<1>9. opts' \in Seq(Option) /\ \A p \in ToSet(opts') : p \in ToSet(os) \/ p = new
  <2>1. /\ opts' \in Seq(Option) /\ Len(opts') = Len(os) + 1
        /\ \A i \in 1..Len(os) : opts'[i] = os[i]
        /\ opts'[Len(os) + 1] = new /\ Len(os) \in Nat
    <3>1. new \in Option /\ os \in Seq(Option)
      BY <1>6, <1>7
    <3> DEFINE t == Append(os, new)
    <3>2. /\ t \in Seq(Option) /\ Len(t) = Len(os) + 1
          /\ \A i \in 1..Len(os) : t[i] = os[i]
          /\ t[Len(os) + 1] = new /\ Len(os) \in Nat
      BY <3>1, AppendProperties
    <3> HIDE DEF t
    <3>3. opts' = t
      BY <1>1 DEF t
    <3> QED
      BY <3>2, <3>3
  <2>2. ASSUME NEW i \in 1..Len(opts') PROVE opts'[i] \in ToSet(os) \/ opts'[i] = new
    BY <1>6, <2>1 DEF ToSet
  <2> QED
    BY <2>1, <2>2 DEF ToSet
<1>10. DescrTyped'
  <2>1. scan' \in {"protocol", "query", "name", "value", "done", "exited"}
    BY <1>2, <1>4
  <2>2. scan' \in DOMAIN Ends => head_ptr' \in 0..Len(descr_str')
    BY <1>4
  <2> QED
    BY <1>1, <1>4, <1>5, <1>9, <2>1, <2>2 DEF DescrTyped
<1>11. JoinedOf(protocol', query', opts') = Behind \o s
  BY <1>1, <1>8
<1>12. Cut'
  <2>1. CASE next = "done"
    BY <1>2, <1>3, <1>4, <1>11, <2>1 DEF Cut
  <2>2. CASE next = "name"
    <3>1. head_ptr' > 0 /\ descr_str'[head_ptr'] = "," /\ Behind' = (Behind \o s) \o a
      BY <1>2, <1>4, <2>2 DEF Ends
    <3> QED
      BY <1>4, <1>11, <2>2, <3>1 DEF Cut
  <2> QED
    BY <1>2, <2>1, <2>2
<1>13. Clean'
  BY <1>1, <1>3, <1>6, <1>7, <1>9 DEF DescrInv, Clean
<1>14. Unnamed'
  BY <1>2, <1>4 DEF Unnamed
<1> QED
  BY <1>10, <1>12, <1>13, <1>14 DEF DescrInv

(* Whatever the description, if it is accepted its parts put together are  *)
(* the description again, none has a delimiter in it that should have      *)
(* ended it, and the program exits only for the empty description and for  *)
(* one whose last comma has no = after it.                                 *)
THEOREM DescriptionsAreKept == DescrSpec => []DescrLossless
<1>1. (\E d \in Descriptions : DescrInit(d)) => DescrInv
  <2> SUFFICES ASSUME NEW d \in Descriptions, DescrInit(d) PROVE DescrInv
    OBVIOUS
  <2>1. d \in Seq(DescrAlphabet)
    <3>1. PICK n \in 0..MaxDescr : d \in [1..n -> DescrAlphabet]
      BY DEF Descriptions, BoundedSeq, SeqOf
    <3>2. n \in Nat
      BY DescrAssumption
    <3> QED
      BY <3>1, <3>2
  <2>2. /\ descr_str = d /\ head_ptr = 0 /\ scan \in {"protocol", "exited"}
        /\ (scan = "exited" => d = <<>>)
        /\ protocol = <<>> /\ query = <<>> /\ opts = <<>>
    BY DEF DescrInit
  <2>3. DescrTyped
    <3>1. <<>> \in Seq(Chars) /\ <<>> \in Seq(Option) /\ 0 \in 0..Len(d)
      BY <2>1
    <3> QED
      BY <2>1, <2>2, <3>1 DEF DescrTyped
  <2>4. Cut /\ Unnamed
    BY <2>2 DEF Cut, Unnamed
  <2>5. Clean
    BY <2>2 DEF Clean, Without, ToSet
  <2> QED
    BY <2>3, <2>4, <2>5 DEF DescrInv
<1>2. DescrInv /\ [DescrNext]_descr_vars => DescrInv'
  <2> SUFFICES ASSUME DescrInv, [DescrNext]_descr_vars PROVE DescrInv'
    OBVIOUS
  <2>1. CASE UNCHANGED descr_vars
    BY <2>1 DEF descr_vars, DescrInv, DescrTyped, Cut, Clean, Unnamed, Behind
  <2> QED
    BY <2>1, ProtocolScanned, QueryScanned, NameScanned, ValueScanned DEF DescrNext
<1> QED
  BY <1>1, <1>2, Implied, PTL DEF DescrSpec

(***************************************************************************)
(* The parser of options.                                                  *)
(***************************************************************************)

(* Every list is a sequence.                                               *)
IsSeq(s) == s \in Seq({s[k] : k \in DOMAIN s})

OptionsTyped ==
  /\ argv \in Seq(Elements \union Others)
  /\ optind \in 0..Len(argv)
  /\ outcome \in {"none", "parsed", "usage", "corrupt"}
  /\ var = [o \in Opts |-> var[o]]
  /\ found \in [Opts -> Nat]
  /\ \A o \in Opts : Type(o) \in Lists => IsSeq(var[o])

(* found counts what was given, but not the long form of a flag: it is not *)
(* found, and the short form is found but once.                            *)
Counted(o, n) ==
  /\ ~IsFlag(o) => found[o] = Cardinality(GivenTo(o, n))
  /\ Type(o) \notin ListTypes => found[o] <= 1
  /\ IsFlag(o) /\ found[o] = 0 => \A k \in GivenTo(o, n) : argv[k].long

(* What is stored of an argument: what ParsedAs makes of it.               *)
ValueOf(o, k) == ParsedAs(argv[k].arg, Type(o)).val
Stores(o, n) ==
  /\ IsFlag(o) => var[o] = (Turned(o, n) # Defs[o].default)
  /\ ~IsFlag(o) => \A k \in GivenTo(o, n) : ParsedAs(argv[k].arg, Type(o)).ok
  /\ ~IsFlag(o) /\ Type(o) \in Scalars =>
       /\ GivenTo(o, n) = {} => var[o] = Defs[o].default
       /\ \A k \in GivenTo(o, n) : GivenTo(o, n) = {k} /\ var[o] = ValueOf(o, k)
  /\ Type(o) \in Lists =>
       /\ Len(var[o]) = Default(o, n) + Cardinality(GivenTo(o, n))
       /\ Default(o, n) = 1 => var[o][1] = Defs[o].default
       /\ \A k \in GivenTo(o, n) : var[o][Default(o, n) + Place(o, n, k)] = ValueOf(o, k)

Kept(o, n) == Counted(o, n) /\ Stores(o, n)

TooLong(o, n) ==
  Type(o) \in Lists /\ Default(o, n) + Cardinality(GivenTo(o, n)) > ListSize

OptionsInv ==
  /\ OptionsTyped
  /\ outcome \in {"none", "parsed"} => \A o \in Opts : Kept(o, optind)
  /\ outcome = "parsed" =>
       /\ optind = Len(argv)
       /\ \A o \in Opts : Defs[o].mode = "REQUIRED" => GivenTo(o, optind) # {}
  /\ outcome = "corrupt" => \E o \in Opts : TooLong(o, Len(argv))

(* What Stores says of a value v of option o.                               *)
IsFor(o, k) == argv[k].opt = o \/ (argv[k].opt = "argument" /\ o \in Unlimited)
AsGiven(o, n) == \A k \in GivenTo(o, n) : ParsedAs(argv[k].arg, Type(o)).ok
FlagIs(v, o, n) == v = (Turned(o, n) # Defs[o].default)
ScalarIs(v, o, n) ==
  /\ GivenTo(o, n) = {} => v = Defs[o].default
  /\ \A k \in GivenTo(o, n) : GivenTo(o, n) = {k} /\ v = ValueOf(o, k)
ListIs(v, o, n) ==
  /\ Len(v) = Default(o, n) + Cardinality(GivenTo(o, n))
  /\ Default(o, n) = 1 => v[1] = Defs[o].default
  /\ \A k \in GivenTo(o, n) : v[Default(o, n) + Place(o, n, k)] = ValueOf(o, k)
StoresIn(v, o, n) ==
  /\ IsFlag(o) => FlagIs(v, o, n)
  /\ ~IsFlag(o) => AsGiven(o, n)
  /\ ~IsFlag(o) /\ Type(o) \in Scalars => ScalarIs(v, o, n)
  /\ Type(o) \in Lists => ListIs(v, o, n)

LEMMA HoldsNow ==
  ASSUME NEW o, NEW n PROVE Stores(o, n) <=> StoresIn(var[o], o, n)
BY DEF Stores, StoresIn, FlagIs, AsGiven, ScalarIs, ListIs

LEMMA HoldsNext ==
  ASSUME NEW o, argv' = argv
  PROVE  Stores(o, optind)' <=> StoresIn(var'[o], o, optind')
<1>1. GivenTo(o, optind)' = GivenTo(o, optind')
  BY DEF GivenTo
<1>2. Turned(o, optind)' = Turned(o, optind')
  BY <1>1 DEF Turned, Restored
<1>3. Default(o, optind)' = Default(o, optind')
  BY <1>1 DEF Default
<1>4. ASSUME NEW k PROVE Place(o, optind, k)' = Place(o, optind', k)
  BY <1>1 DEF Place
<1>5. ASSUME NEW k
      PROVE  ValueOf(o, k)' = ValueOf(o, k) /\ argv'[k].arg = argv[k].arg
  BY DEF ValueOf
<1>6. FlagIs(var[o], o, optind)' <=> FlagIs(var'[o], o, optind')
  BY <1>2 DEF FlagIs
<1>7. AsGiven(o, optind)' <=> AsGiven(o, optind')
  BY <1>1, <1>5 DEF AsGiven
<1>8. ScalarIs(var[o], o, optind)' <=> ScalarIs(var'[o], o, optind')
  BY <1>1, <1>5 DEF ScalarIs
<1>9. ListIs(var[o], o, optind)' <=> ListIs(var'[o], o, optind')
  BY <1>1, <1>3, <1>4, <1>5 DEF ListIs
<1>10. Stores(o, optind)' <=> StoresIn(var[o], o, optind)'
  BY DEF Stores, StoresIn, FlagIs, AsGiven, ScalarIs, ListIs
<1> QED
  BY <1>6, <1>7, <1>8, <1>9, <1>10 DEF StoresIn

(* A list with one item more.                                              *)
LEMMA AppendIs ==
  ASSUME NEW s, IsSeq(s), NEW v
  PROVE  /\ IsSeq(Append(s, v)) /\ Len(s) \in Nat /\ Len(Append(s, v)) = Len(s) + 1
         /\ \A k \in 1..Len(s) : Append(s, v)[k] = s[k]
         /\ Append(s, v)[Len(s) + 1] = v
<1> DEFINE S == {s[k] : k \in DOMAIN s} \union {v}
           t == Append(s, v)
<1>1. s \in Seq(S) /\ v \in S
  <2>1. s \in Seq({s[k] : k \in DOMAIN s})
    BY DEF IsSeq
  <2>2. s \in [1..Len(s) -> {s[k] : k \in DOMAIN s}] /\ Len(s) \in Nat
    BY <2>1
  <2>3. s \in [1..Len(s) -> S]
    BY <2>2
  <2> QED
    BY <2>2, <2>3
<1> HIDE DEF S
<1>2. /\ t \in Seq(S) /\ Len(s) \in Nat /\ Len(t) = Len(s) + 1
      /\ \A k \in 1..Len(s) : t[k] = s[k]
      /\ t[Len(s) + 1] = v
  BY <1>1, AppendProperties
<1> HIDE DEF t
<1>3. IsSeq(t)
  <2>1. t = [k \in 1..Len(t) |-> t[k]] /\ Len(t) \in Nat /\ DOMAIN t = 1..Len(t)
    BY <1>2
  <2>2. t \in [1..Len(t) -> {t[k] : k \in DOMAIN t}]
    BY <2>1
  <2> QED
    BY <2>1, <2>2 DEF IsSeq
<1> QED
  BY <1>2, <1>3 DEF t

LEMMA NoItems == IsSeq(<<>>) /\ Len(<<>>) = 0
BY DEF IsSeq

LEMMA Given ==
  ASSUME NEW o, NEW n \in Nat
  PROVE  /\ GivenTo(o, n) \subseteq 1..n
         /\ IsFiniteSet(GivenTo(o, n))
         /\ Cardinality(GivenTo(o, n)) \in Nat
         /\ Cardinality(GivenTo(o, n)) = 0 <=> GivenTo(o, n) = {}
<1>1. GivenTo(o, n) \subseteq 1..n
  BY DEF GivenTo
<1>2. IsFiniteSet(1..n)
  BY FS_Interval
<1>3. IsFiniteSet(GivenTo(o, n))
  BY <1>1, <1>2, FS_Subset
<1> QED
  BY <1>1, <1>3, FS_CardinalityType, FS_EmptySet

(* One element more, for another option or for o.                          *)
LEMMA NotGiven ==
  ASSUME NEW o, NEW n \in Nat, NEW m, m = n + 1, ~IsFor(o, m)
  PROVE  GivenTo(o, m) = GivenTo(o, n)
<1>1. \A k : k \in 1..m <=> k \in 1..n \/ k = m
  OBVIOUS
<1> QED
  BY <1>1 DEF GivenTo, IsFor

LEMMA OneMoreGiven ==
  ASSUME NEW o, NEW n \in Nat, NEW m, m = n + 1, IsFor(o, m)
  PROVE  /\ GivenTo(o, m) = GivenTo(o, n) \union {m} /\ m \notin GivenTo(o, n)
         /\ Cardinality(GivenTo(o, m)) = Cardinality(GivenTo(o, n)) + 1
<1>1. \A k : k \in 1..m <=> k \in 1..n \/ k = m
  OBVIOUS
<1>2. GivenTo(o, m) = GivenTo(o, n) \union {m}
  BY <1>1 DEF GivenTo, IsFor
<1>3. m \notin GivenTo(o, n) /\ IsFiniteSet(GivenTo(o, n))
  <2>1. m \notin 1..n
    OBVIOUS
  <2> QED
    BY <2>1, Given
<1> QED
  BY <1>2, <1>3, FS_AddElement

LEMMA PlaceIs ==
  ASSUME NEW o, NEW n \in Nat, NEW k \in GivenTo(o, n)
  PROVE  Place(o, n, k) \in 1..Cardinality(GivenTo(o, n))
<1> DEFINE S == {j \in GivenTo(o, n) : j <= k}
<1>1. S \subseteq GivenTo(o, n) /\ k \in S
  BY Given
<1> HIDE DEF S
<1>2. IsFiniteSet(S) /\ Cardinality(S) <= Cardinality(GivenTo(o, n))
  BY <1>1, Given, FS_Subset
<1>3. Cardinality(S) \in Nat /\ Cardinality(S) # 0
  BY <1>1, <1>2, FS_CardinalityType, FS_EmptySet
<1>4. Place(o, n, k) = Cardinality(S)
  BY DEF Place, S
<1> QED
  BY <1>2, <1>3, <1>4, Given

LEMMA PlacesStay ==
  ASSUME NEW o, NEW n \in Nat, NEW m, m = n + 1, IsFor(o, m)
  PROVE  /\ \A k \in GivenTo(o, n) : Place(o, m, k) = Place(o, n, k)
         /\ Place(o, m, m) = Cardinality(GivenTo(o, n)) + 1
<1>1. /\ GivenTo(o, m) = GivenTo(o, n) \union {m} /\ GivenTo(o, n) \subseteq 1..n
      /\ Cardinality(GivenTo(o, m)) = Cardinality(GivenTo(o, n)) + 1
  BY OneMoreGiven, Given
<1>2. ASSUME NEW k \in GivenTo(o, n) PROVE Place(o, m, k) = Place(o, n, k)
  <2>1. {j \in GivenTo(o, m) : j <= k} = {j \in GivenTo(o, n) : j <= k}
    <3>1. k \in 1..n /\ ~(m <= k)
      BY <1>1
    <3> QED
      BY <1>1, <3>1
  <2> QED
    BY <2>1 DEF Place
<1>3. {j \in GivenTo(o, m) : j <= m} = GivenTo(o, m)
  <2>1. \A j \in GivenTo(o, m) : j <= m
    BY <1>1
  <2> QED
    BY <2>1
<1> QED
  BY <1>1, <1>2, <1>3 DEF Place

(* What is given next is kept.                                             *)
LEMMA ListAppended ==
  ASSUME NEW o, NEW n \in Nat, NEW m, m = n + 1, IsFor(o, m),
         NEW v, IsSeq(v), ListIs(v, o, n)
  PROVE  LET t == Append(IF Type(o) = "STRINGS" /\ GivenTo(o, n) = {} THEN <<>> ELSE v,
                         ValueOf(o, m)) IN
         ListIs(t, o, m) /\ IsSeq(t)
<1> DEFINE G == GivenTo(o, n)
           l == IF Type(o) = "STRINGS" /\ G = {} THEN <<>> ELSE v
           t == Append(l, ValueOf(o, m))
<1>1. /\ GivenTo(o, m) = G \union {m} /\ m \notin G /\ Cardinality(G) \in Nat
      /\ Cardinality(GivenTo(o, m)) = Cardinality(G) + 1
      /\ Cardinality(G) = 0 <=> G = {}
  BY OneMoreGiven, Given
<1>2. IsSeq(l)
  BY NoItems
<1>3. Len(l) = Default(o, m) + Cardinality(G)
  <2>1. CASE Type(o) = "STRINGS" /\ G = {}
    BY <1>1, <2>1, NoItems DEF Default
  <2>2. CASE ~(Type(o) = "STRINGS" /\ G = {})
    <3>1. Default(o, m) = Default(o, n) /\ l = v
      BY <1>1, <2>2 DEF Default
    <3> QED
      BY <3>1 DEF ListIs
  <2> QED
    BY <2>1, <2>2
<1>4. /\ IsSeq(t) /\ Len(l) \in Nat /\ Len(t) = Len(l) + 1
      /\ \A k \in 1..Len(l) : t[k] = l[k]
      /\ t[Len(l) + 1] = ValueOf(o, m)
  <2> HIDE DEF l
  <2> QED
    BY <1>2, AppendIs
<1>5. Default(o, m) \in {0, 1}
  BY DEF Default
<1>6. Default(o, m) = 1 => t[1] = Defs[o].default
  <2> SUFFICES ASSUME Default(o, m) = 1 PROVE t[1] = Defs[o].default
    OBVIOUS
  <2>1. Default(o, n) = 1 /\ l = v /\ Type(o) # "STRINGS"
    BY <1>1 DEF Default
  <2>2. 1 \in 1..Len(l)
    BY <1>1, <1>3
  <2>3. v[1] = Defs[o].default
    BY <2>1 DEF ListIs
  <2> HIDE DEF t, l
  <2> QED
    BY <1>4, <2>1, <2>2, <2>3
<1>7. ASSUME NEW k \in GivenTo(o, m)
      PROVE  t[Default(o, m) + Place(o, m, k)] = ValueOf(o, k)
  <2>1. CASE k = m
    <3>1. Default(o, m) + Place(o, m, k) = Len(l) + 1
      BY <1>1, <1>3, <1>5, <2>1, PlacesStay
    <3> HIDE DEF t
    <3> QED
      BY <1>4, <2>1, <3>1
  <2>2. CASE k \in G
    <3>1. Default(o, m) = Default(o, n) /\ l = v
      BY <1>1, <2>2 DEF Default
    <3>2. Place(o, m, k) = Place(o, n, k) /\ Place(o, n, k) \in 1..Cardinality(G)
      BY <2>2, PlacesStay, PlaceIs
    <3>3. v[Default(o, n) + Place(o, n, k)] = ValueOf(o, k)
      BY <2>2 DEF ListIs
    <3>4. Default(o, m) + Place(o, m, k) \in 1..Len(l)
      BY <1>1, <1>3, <1>5, <3>2
    <3> HIDE DEF t, l
    <3> QED
      BY <1>4, <3>1, <3>2, <3>3, <3>4
  <2> QED
    BY <1>1, <2>1, <2>2
<1>8. Len(t) = Default(o, m) + Cardinality(GivenTo(o, m))
  BY <1>1, <1>3, <1>4, <1>5
<1> HIDE DEF t
<1>9. ListIs(t, o, m)
  BY <1>6, <1>7, <1>8 DEF ListIs
<1> QED
  BY <1>4, <1>9 DEF t

LEMMA ScalarTaken ==
  ASSUME NEW o, NEW n \in Nat, NEW m, m = n + 1, IsFor(o, m), GivenTo(o, n) = {}
  PROVE  ScalarIs(ValueOf(o, m), o, m)
BY OneMoreGiven DEF ScalarIs

LEMMA ReadTaken ==
  ASSUME NEW o, NEW n \in Nat, NEW m, m = n + 1, IsFor(o, m), AsGiven(o, n),
         ParsedAs(argv[m].arg, Type(o)).ok
  PROVE  AsGiven(o, m)
BY OneMoreGiven DEF AsGiven

(* The long form of a flag leaves it turned over, the short form turns it  *)
(* over if it is the first.                                                *)
LEMMA FlagTaken ==
  ASSUME NEW o, NEW n \in Nat, NEW m, m = n + 1, IsFor(o, m)
  PROVE  /\ argv[m].long => Turned(o, m)
         /\ ~argv[m].long => (Turned(o, m) <=> GivenTo(o, n) = {})
<1>1. /\ GivenTo(o, m) = GivenTo(o, n) \union {m} /\ GivenTo(o, n) \subseteq 1..n
  BY OneMoreGiven, Given
<1>2. /\ \A k \in GivenTo(o, m) : k <= m /\ k \in Nat /\ (k = m \/ k < m)
      /\ \A k \in GivenTo(o, n) : k < m /\ ~(m <= k)
  BY <1>1
<1> QED
  BY <1>1, <1>2 DEF Turned, Restored

(* Elements that come later leave a list too long.                         *)
LEMMA StaysTooLong ==
  ASSUME NEW o, NEW n \in Nat, NEW m \in Nat, n <= m, GivenTo(o, n) # {}, TooLong(o, n),
         ListSize \in Nat
  PROVE  TooLong(o, m)
<1>1. GivenTo(o, n) \subseteq GivenTo(o, m)
  BY DEF GivenTo
<1>2. /\ Cardinality(GivenTo(o, n)) <= Cardinality(GivenTo(o, m))
      /\ Cardinality(GivenTo(o, n)) \in Nat /\ Cardinality(GivenTo(o, m)) \in Nat
  BY <1>1, Given, FS_Subset
<1>3. Default(o, m) = Default(o, n) /\ Default(o, n) \in Nat
  BY <1>1 DEF Default
<1> QED
  BY <1>2, <1>3 DEF TooLong

(***************************************************************************)
(* The steps of the parser of options.                                     *)
(***************************************************************************)
LEMMA SameHolds ==
  ASSUME NEW o, NEW n \in Nat, NEW m, m = n + 1, ~IsFor(o, m), NEW v, StoresIn(v, o, n)
  PROVE  StoresIn(v, o, m)
<1>1. GivenTo(o, m) = GivenTo(o, n)
  BY NotGiven
<1> QED
  BY <1>1 DEF StoresIn, FlagIs, AsGiven, ScalarIs, ListIs, Turned, Restored, Default, Place

LEMMA Taken ==
  ASSUME OptionsTyped, Takes
  PROVE  /\ optind \in Nat /\ optind' = optind + 1 /\ optind' \in 0..Len(argv)
         /\ Element = argv[optind'] /\ Element \in Elements \union Others
         /\ argv' = argv /\ outcome = "none"
<1>1. /\ argv \in Seq(Elements \union Others) /\ optind \in 0..Len(argv)
      /\ optind < Len(argv) /\ optind' = optind + 1 /\ Len(argv) \in Nat
  BY DEF OptionsTyped, Takes
<1>2. optind' \in 1..Len(argv)
  BY <1>1
<1>3. argv[optind'] \in Elements \union Others
  <2> HIDE DEF Elements, Others
  <2> QED
    BY <1>1, <1>2
<1> QED
  BY <1>1, <1>2, <1>3 DEF Takes, Element

LEMMA CountedNext ==
  ASSUME NEW o, argv' = argv
  PROVE  Counted(o, optind)' <=>
           /\ ~IsFlag(o) => found'[o] = Cardinality(GivenTo(o, optind'))
           /\ Type(o) \notin ListTypes => found'[o] <= 1
           /\ IsFlag(o) /\ found'[o] = 0 => \A k \in GivenTo(o, optind') : argv[k].long
<1>1. GivenTo(o, optind)' = GivenTo(o, optind')
  BY DEF GivenTo
<1> QED
  BY <1>1 DEF Counted

(* What is not for an option leaves it as it is.                           *)
LEMMA Untouched ==
  ASSUME OptionsTyped, Takes, NEW o \in Opts, Kept(o, optind), ~IsFor(o, optind'),
         var'[o] = var[o], found'[o] = found[o]
  PROVE  Kept(o, optind)'
<1>1. optind \in Nat /\ optind' = optind + 1 /\ argv' = argv
  BY Taken
<1>2. StoresIn(var[o], o, optind) /\ Counted(o, optind)
  BY HoldsNow DEF Kept
<1>3. PICK m : m = optind'
  OBVIOUS
<1>4. StoresIn(var[o], o, m)
  BY <1>1, <1>2, <1>3, SameHolds
<1>5. Stores(o, optind)'
  BY <1>1, <1>3, <1>4, HoldsNext
<1>6. GivenTo(o, m) = GivenTo(o, optind)
  BY <1>1, <1>3, NotGiven
<1>7. Counted(o, optind)'
  <2>1. Counted(o, optind)' <=>
           /\ ~IsFlag(o) => found'[o] = Cardinality(GivenTo(o, optind'))
           /\ Type(o) \notin ListTypes => found'[o] <= 1
           /\ IsFlag(o) /\ found'[o] = 0 => \A k \in GivenTo(o, optind') : argv[k].long
    BY <1>1, CountedNext
  <2> QED
    BY <1>2, <1>3, <1>6, <2>1 DEF Counted
<1> QED
  BY <1>5, <1>7 DEF Kept

(* An element is handled for an option alone.                              *)
Handled(o) ==
  /\ outcome' \in {"none", "usage", "corrupt"}
  /\ var' = [q \in Opts |-> var'[q]] /\ found' \in [Opts -> Nat]
  /\ \A q \in Opts \ {o} : var'[q] = var[q] /\ found'[q] = found[q]
  /\ Type(o) \in Lists => IsSeq(var'[o])
  /\ outcome' = "none" => Kept(o, optind)'
  /\ outcome' = "corrupt" => TooLong(o, Len(argv))'

LEMMA HandledForOne ==
  ASSUME OptionsInv, Takes, NEW o \in Opts, Handled(o),
         \A q \in Opts \ {o} : ~IsFor(q, optind')
  PROVE  OptionsInv'
<1>1. OptionsTyped /\ outcome = "none" /\ optind' \in 0..Len(argv) /\ argv' = argv
  BY Taken DEF OptionsInv
<1>2. OptionsTyped'
  <2>1. ASSUME NEW q \in Opts, Type(q) \in Lists PROVE IsSeq(var'[q])
    BY <1>1, <2>1 DEF Handled, OptionsTyped
  <2> QED
    BY <1>1, <2>1 DEF Handled, OptionsTyped
<1>3. ASSUME outcome' = "none", NEW q \in Opts PROVE Kept(q, optind)'
  <2>1. CASE q = o
    BY <1>3, <2>1 DEF Handled
  <2>2. CASE q # o
    <3>1. Kept(q, optind)
      BY <1>1 DEF OptionsInv
    <3> QED
      BY <1>1, <2>2, <3>1, Untouched DEF Handled
  <2> QED
    BY <2>1, <2>2
<1> QED
  BY <1>2, <1>3 DEF Handled, OptionsInv

(* The argument of an option is read and kept.                             *)
LEMMA ArgumentKept ==
  ASSUME OptionsTyped, Takes, NEW o \in Opts, ~IsFlag(o), IsFor(o, optind'),
         Kept(o, optind), Find(o), found'[o] <= 1 \/ Type(o) \in ListTypes,
         ParseArgument(o, Element.arg)
  PROVE  Handled(o)
<1> DEFINE n == optind
           r == ParsedAs(Element.arg, Type(o))
<1>1. /\ optind \in Nat /\ optind' = optind + 1 /\ optind' \in 0..Len(argv)
      /\ Element = argv[optind'] /\ argv' = argv /\ outcome = "none"
  BY Taken
<1>2. /\ found' \in [Opts -> Nat] /\ found[o] \in Nat /\ found'[o] = found[o] + 1
      /\ \A q \in Opts \ {o} : found'[q] = found[q]
  BY DEF Find, OptionsTyped
<1>3. PICK m : m = optind'
  OBVIOUS
<1>4. /\ Counted(o, n) /\ StoresIn(var[o], o, n) /\ found[o] = Cardinality(GivenTo(o, n))
      /\ Cardinality(GivenTo(o, n)) = 0 <=> GivenTo(o, n) = {}
  BY <1>1, HoldsNow, Given DEF Kept, Counted
<1>5. Counted(o, optind)'
  <2>1. Cardinality(GivenTo(o, m)) = Cardinality(GivenTo(o, n)) + 1
    BY <1>1, <1>3, OneMoreGiven
  <2>2. Counted(o, optind)' <=>
           /\ ~IsFlag(o) => found'[o] = Cardinality(GivenTo(o, optind'))
           /\ Type(o) \notin ListTypes => found'[o] <= 1
           /\ IsFlag(o) /\ found'[o] = 0 => \A k \in GivenTo(o, optind') : argv[k].long
    BY <1>1, CountedNext
  <2> QED
    BY <1>2, <1>3, <1>4, <2>1, <2>2
<1>6. CASE ~r.ok
  <2>1. outcome' = "usage" /\ var' = var
    BY <1>6 DEF ParseArgument
  <2> QED
    BY <1>2, <2>1 DEF Handled, OptionsTyped
<1>7. CASE r.ok /\ Type(o) \in Scalars
  <2>1. var' = [var EXCEPT ![o] = r.val] /\ outcome' = "none"
    BY <1>1, <1>7 DEF ParseArgument
  <2>2. /\ var' = [q \in Opts |-> var'[q]] /\ var'[o] = r.val
        /\ \A q \in Opts \ {o} : var'[q] = var[q]
    BY <2>1 DEF OptionsTyped
  <2>3. Type(o) \notin Lists /\ Type(o) \notin ListTypes
    BY <1>7 DEF Scalars, Lists, ListTypes
  <2>4. GivenTo(o, n) = {}
    BY <1>2, <1>4, <2>3
  <2>5. r.val = ValueOf(o, m)
    BY <1>1, <1>3 DEF ValueOf
  <2>6. ScalarIs(ValueOf(o, m), o, m)
    BY <1>1, <1>3, <2>4, ScalarTaken
  <2>7. AsGiven(o, m)
    BY <1>1, <1>3, <1>4, <1>7, ReadTaken DEF StoresIn
  <2>8. StoresIn(var'[o], o, m)
    BY <2>2, <2>3, <2>5, <2>6, <2>7 DEF StoresIn
  <2>9. Kept(o, optind)'
    BY <1>1, <1>3, <1>5, <2>8, HoldsNext DEF Kept
  <2> QED
    BY <1>2, <2>1, <2>2, <2>3, <2>9 DEF Handled
<1>8. CASE r.ok /\ Type(o) \notin Scalars
  <2> DEFINE l == IF Type(o) = "STRINGS" /\ GivenTo(o, n) = {} THEN <<>> ELSE var[o]
             t == Append(l, ValueOf(o, m))
  <2>1. r.val = ValueOf(o, m)
    BY <1>1, <1>3 DEF ValueOf
  <2>2. found'[o] = 1 <=> GivenTo(o, n) = {}
    BY <1>2, <1>4
  <2>3. ListAdd(o, l, ValueOf(o, m))
    BY <1>8, <2>1, <2>2 DEF ParseArgument
  <2>4. Type(o) \in Lists /\ IsSeq(var[o]) /\ ListSize \in Nat
    BY <1>8, OptionsAssumption DEF OptionsTyped, Opts, Type
  <2>5. ListIs(t, o, m) /\ IsSeq(t)
    <3>1. ListIs(var[o], o, n)
      BY <1>4, <2>4 DEF StoresIn
    <3> QED
      BY <1>1, <1>3, <2>4, <3>1, ListAppended
  <2>6. Len(t) = Len(l) + 1 /\ Len(l) \in Nat
    BY <2>4, AppendIs, NoItems
  <2> HIDE DEF l
  <2>7. var' = [var EXCEPT ![o] = t] /\ outcome' = IF Len(l) = ListSize THEN "corrupt" ELSE "none"
    BY <2>3 DEF ListAdd
  <2> HIDE DEF t
  <2>8. /\ var' = [q \in Opts |-> var'[q]] /\ var'[o] = t
        /\ \A q \in Opts \ {o} : var'[q] = var[q]
    BY <2>7 DEF OptionsTyped
  <2>9. Kept(o, optind)'
    <3>1. AsGiven(o, m)
      BY <1>1, <1>3, <1>4, <1>8, ReadTaken DEF StoresIn
    <3>2. StoresIn(t, o, m)
      BY <1>8, <2>5, <3>1 DEF StoresIn
    <3> QED
      BY <1>1, <1>3, <1>5, <2>8, <3>2, HoldsNext DEF Kept
  <2>10. outcome' = "corrupt" => TooLong(o, Len(argv))'
    <3> SUFFICES ASSUME Len(l) = ListSize PROVE TooLong(o, Len(argv))'
      BY <2>7
    <3>1. Default(o, m) + Cardinality(GivenTo(o, m)) > ListSize
      BY <2>4, <2>5, <2>6 DEF ListIs
    <3>2. GivenTo(o, m) # {} /\ m \in Nat /\ m <= Len(argv) /\ Len(argv) \in Nat
      <4>1. GivenTo(o, m) = GivenTo(o, n) \union {m}
        BY <1>1, <1>3, OneMoreGiven
      <4>2. Len(argv) \in Nat
        BY DEF OptionsTyped
      <4>3. GivenTo(o, m) # {}
        BY <4>1
      <4> QED
        BY <1>1, <1>3, <4>2, <4>3
    <3>3. TooLong(o, Len(argv))
      <4>1. TooLong(o, m)
        BY <2>4, <3>1 DEF TooLong
      <4> QED
        BY <2>4, <3>2, <4>1, StaysTooLong
    <3> QED
      BY <1>1, <3>3 DEF TooLong, Default, GivenTo
  <2>11. outcome' \in {"none", "usage", "corrupt"}
    BY <2>7
  <2> QED
    BY <1>2, <2>5, <2>8, <2>9, <2>10, <2>11 DEF Handled
<1> QED
  BY <1>6, <1>7, <1>8

LEMMA HelpKept == OptionsInv /\ HelpOrUnknown => OptionsInv'
<1> SUFFICES ASSUME OptionsInv, HelpOrUnknown PROVE OptionsInv'
  OBVIOUS
<1>1. OptionsTyped /\ Takes /\ outcome' = "usage" /\ var' = var /\ found' = found
  BY DEF OptionsInv, HelpOrUnknown, Usage
<1>2. optind' \in 0..Len(argv) /\ argv' = argv
  BY <1>1, Taken
<1>3. OptionsTyped'
  BY <1>1, <1>2 DEF OptionsTyped
<1> QED
  BY <1>1, <1>3 DEF OptionsInv

(* An element with the letter of an option is for no other.                *)
LEMMA ForOne ==
  ASSUME OptionsTyped, Takes, Element.opt \in Opts
  PROVE  /\ IsFor(Element.opt, optind')
         /\ \A q \in Opts \ {Element.opt} : ~IsFor(q, optind')
<1>1. Element = argv[optind']
  BY Taken
<1>2. Element.opt # "argument"
  BY OptionsAssumption DEF Opts
<1> QED
  BY <1>1, <1>2 DEF IsFor

LEMMA LongFlagKept == OptionsInv /\ LongFlag => OptionsInv'
<1> SUFFICES ASSUME OptionsInv, LongFlag PROVE OptionsInv'
  OBVIOUS
<1>0. PICK o \in Opts : o = Element.opt
  BY DEF LongFlag
<1>1. /\ OptionsTyped /\ Takes /\ Element.long
      /\ var' = [var EXCEPT ![o] = ~Defs[o].default] /\ found' = found /\ outcome' = outcome
  BY <1>0 DEF OptionsInv, LongFlag
<1>2. /\ optind \in Nat /\ optind' = optind + 1 /\ Element = argv[optind'] /\ argv' = argv
      /\ Element \in Elements \union Others /\ outcome = "none"
  BY <1>1, Taken
<1>3. IsFlag(o) /\ Type(o) = "BOOL" /\ Defs[o].default \in BOOLEAN
  <2>1. IsFlag(o)
    <3>1. Element \in Elements \/ Element \in Others
      BY <1>2
    <3>2. Element \notin Others
      BY <1>0, OptionsAssumption DEF Others, Opts
    <3> QED
      BY <1>0, <1>1, <3>1, <3>2 DEF Elements
  <2> QED
    BY <1>1, <2>1, OptionsAssumption DEF IsFlag, Type, Opts
<1>4. IsFor(o, optind') /\ \A q \in Opts \ {o} : ~IsFor(q, optind')
  BY <1>0, <1>1, ForOne
<1>5. PICK m : m = optind'
  OBVIOUS
<1>6. Kept(o, optind)
  BY <1>1, <1>2 DEF OptionsInv
<1>7. /\ var' = [q \in Opts |-> var'[q]] /\ var'[o] = ~Defs[o].default
      /\ \A q \in Opts \ {o} : var'[q] = var[q]
  BY <1>1 DEF OptionsTyped
<1>8. Turned(o, m) = TRUE
  <2>1. argv[m].long
    BY <1>1, <1>2, <1>5
  <2>2. Turned(o, m)
    BY <1>2, <1>4, <1>5, <2>1, FlagTaken
  <2> QED
    BY <2>2 DEF Turned, Restored
<1>9. StoresIn(var'[o], o, m)
  <2>1. FlagIs(var'[o], o, m)
    BY <1>3, <1>7, <1>8 DEF FlagIs
  <2>2. Type(o) \notin Lists
    BY <1>3 DEF Lists
  <2> QED
    BY <1>3, <2>1, <2>2 DEF StoresIn
<1>10. Counted(o, optind)'
  <2>1. Counted(o, optind)' <=>
           /\ ~IsFlag(o) => found'[o] = Cardinality(GivenTo(o, optind'))
           /\ Type(o) \notin ListTypes => found'[o] <= 1
           /\ IsFlag(o) /\ found'[o] = 0 => \A k \in GivenTo(o, optind') : argv[k].long
    BY <1>2, CountedNext
  <2>2. GivenTo(o, m) = GivenTo(o, optind) \union {m} /\ argv[m].long
    BY <1>1, <1>2, <1>4, <1>5, OneMoreGiven
  <2> QED
    BY <1>1, <1>3, <1>5, <1>6, <2>1, <2>2 DEF Kept, Counted
<1>11. Kept(o, optind)'
  BY <1>2, <1>5, <1>9, <1>10, HoldsNext DEF Kept
<1>12. Handled(o)
  <2>1. Type(o) \notin Lists
    BY <1>3 DEF Lists
  <2> QED
    BY <1>1, <1>2, <1>7, <1>11, <2>1 DEF Handled, OptionsTyped
<1> QED
  BY <1>1, <1>4, <1>12, HandledForOne

LEMMA ShortFlagKept ==
  ASSUME OptionsInv, Takes, NEW o \in Opts, o = Element.opt, ~Element.long, IsFlag(o),
         Find(o), found'[o] <= 1, var' = [var EXCEPT ![o] = ~@], outcome' = outcome
  PROVE  OptionsInv'
<1>1. OptionsTyped
  BY DEF OptionsInv
<1>2. /\ optind \in Nat /\ optind' = optind + 1 /\ Element = argv[optind'] /\ argv' = argv
      /\ outcome = "none"
  BY <1>1, Taken
<1>3. Type(o) = "BOOL" /\ Defs[o].default \in BOOLEAN
  BY OptionsAssumption DEF IsFlag, Type, Opts
<1>4. IsFor(o, optind') /\ \A q \in Opts \ {o} : ~IsFor(q, optind')
  BY <1>1, ForOne
<1>5. PICK m : m = optind'
  OBVIOUS
<1>6. Counted(o, optind) /\ StoresIn(var[o], o, optind)
  BY <1>2, HoldsNow DEF OptionsInv, Kept
<1>7. /\ found' \in [Opts -> Nat] /\ found[o] \in Nat /\ found'[o] = found[o] + 1
      /\ \A q \in Opts \ {o} : found'[q] = found[q]
  BY <1>1 DEF Find, OptionsTyped
<1>8. found[o] = 0 /\ found'[o] = 1 /\ \A k \in GivenTo(o, optind) : argv[k].long
  <2>1. found[o] = 0 /\ found'[o] = 1
    BY <1>7
  <2> QED
    BY <1>6, <2>1 DEF Counted
<1>9. /\ var' = [q \in Opts |-> var'[q]] /\ var'[o] = ~var[o]
      /\ \A q \in Opts \ {o} : var'[q] = var[q]
  BY <1>1 DEF OptionsTyped
<1>10. Turned(o, optind) <=> GivenTo(o, optind) # {}
  BY <1>8 DEF Turned, Restored
<1>11. Turned(o, m) <=> GivenTo(o, optind) = {}
  <2>1. ~argv[m].long
    BY <1>2, <1>5
  <2> QED
    BY <1>2, <1>4, <1>5, <2>1, FlagTaken
<1>12. FlagIs(var'[o], o, m)
  <2>1. Turned(o, optind) \in BOOLEAN /\ Turned(o, m) \in BOOLEAN
    BY DEF Turned, Restored
  <2>2. Turned(o, m) = ~Turned(o, optind)
    BY <1>10, <1>11, <2>1
  <2>3. var[o] = (Turned(o, optind) # Defs[o].default)
    BY <1>6 DEF StoresIn, FlagIs
  <2>4. ASSUME NEW t \in BOOLEAN, NEW u \in BOOLEAN, u = ~t, NEW d \in BOOLEAN
        PROVE  (~(t # d)) = (u # d)
    BY <2>4
  <2>5. (~(Turned(o, optind) # Defs[o].default)) = (Turned(o, m) # Defs[o].default)
    BY <1>3, <2>1, <2>2, <2>4
  <2> QED
    BY <1>9, <2>3, <2>5 DEF FlagIs
<1>13. Kept(o, optind)'
  <2>1. Type(o) \notin Lists
    BY <1>3 DEF Lists
  <2>2. StoresIn(var'[o], o, m)
    BY <1>12, <2>1 DEF StoresIn
  <2>3. Counted(o, optind)' <=>
           /\ ~IsFlag(o) => found'[o] = Cardinality(GivenTo(o, optind'))
           /\ Type(o) \notin ListTypes => found'[o] <= 1
           /\ IsFlag(o) /\ found'[o] = 0 => \A k \in GivenTo(o, optind') : argv[k].long
    BY <1>2, CountedNext
  <2>4. Counted(o, optind)'
    BY <1>8, <2>3
  <2> QED
    BY <1>2, <1>5, <2>2, <2>4, HoldsNext DEF Kept
<1>14. Handled(o)
  <2>1. Type(o) \notin Lists
    BY <1>3 DEF Lists
  <2> QED
    BY <1>2, <1>7, <1>9, <1>13, <2>1 DEF Handled
<1> QED
  BY <1>4, <1>14, HandledForOne

LEMMA OptionKept == OptionsInv /\ ProcessOption => OptionsInv'
<1> SUFFICES ASSUME OptionsInv, ProcessOption PROVE OptionsInv'
  OBVIOUS
<1>1. PICK o \in Opts : o = Element.opt
  BY DEF ProcessOption
<1>2. OptionsTyped /\ Takes /\ ~Element.long /\ Find(o)
  BY <1>1 DEF OptionsInv, ProcessOption
<1>3. IsFor(o, optind') /\ \A q \in Opts \ {o} : ~IsFor(q, optind')
  BY <1>1, <1>2, ForOne
<1>4. /\ found' \in [Opts -> Nat] /\ \A q \in Opts \ {o} : found'[q] = found[q]
  BY <1>2 DEF Find, OptionsTyped
<1>5. CASE found'[o] > 1 /\ Type(o) \notin ListTypes
  <2>1. outcome' = "usage" /\ var' = var
    BY <1>1, <1>5 DEF ProcessOption
  <2>2. Handled(o)
    BY <1>2, <1>4, <2>1 DEF Handled, OptionsTyped
  <2> QED
    BY <1>2, <1>3, <2>2, HandledForOne
<1>6. CASE ~(found'[o] > 1 /\ Type(o) \notin ListTypes) /\ IsFlag(o)
  <2>1. var' = [var EXCEPT ![o] = ~@] /\ outcome' = outcome
    BY <1>1, <1>6 DEF ProcessOption
  <2>2. found'[o] <= 1
    <3>1. Type(o) = "BOOL"
      BY <1>6, OptionsAssumption DEF IsFlag, Type, Opts
    <3>2. Type(o) \notin ListTypes
      BY <3>1 DEF ListTypes, Lists
    <3> QED
      BY <1>4, <1>6, <3>2
  <2> QED
    BY <1>1, <1>2, <1>6, <2>1, <2>2, ShortFlagKept
<1>7. CASE ~(found'[o] > 1 /\ Type(o) \notin ListTypes) /\ ~IsFlag(o)
  <2>1. ParseArgument(o, Element.arg)
    BY <1>1, <1>7 DEF ProcessOption
  <2>2. found'[o] <= 1 \/ Type(o) \in ListTypes
    BY <1>4, <1>7
  <2>3. Kept(o, optind)
    BY <1>2, Taken DEF OptionsInv
  <2>4. Handled(o)
    BY <1>2, <1>3, <1>7, <2>1, <2>2, <2>3, ArgumentKept
  <2> QED
    BY <1>2, <1>3, <2>4, HandledForOne
<1> QED
  BY <1>5, <1>6, <1>7

LEMMA ExtraKept == OptionsInv /\ Extra => OptionsInv'
<1> SUFFICES ASSUME OptionsInv, Extra PROVE OptionsInv'
  OBVIOUS
<1>1. OptionsTyped /\ Takes /\ Element.opt = "argument"
  BY DEF OptionsInv, Extra
<1>2. optind' \in 0..Len(argv) /\ argv' = argv /\ Element = argv[optind'] /\ outcome = "none"
  BY <1>1, Taken
<1>3. CASE Unlimited = {}
  <2>1. outcome' = "usage" /\ var' = var
    BY <1>3 DEF Extra, Usage
  <2>2. found' = found
    BY <1>3 DEF Extra, Usage
  <2>3. OptionsTyped'
    BY <1>1, <1>2, <2>1, <2>2 DEF OptionsTyped
  <2> QED
    BY <2>1, <2>3 DEF OptionsInv
<1>4. CASE Unlimited # {}
  <2>1. PICK o \in Unlimited : Find(o) /\ ParseArgument(o, Element.arg)
    BY <1>4 DEF Extra
  <2>2. /\ o \in Opts /\ ~IsFlag(o) /\ Type(o) \in ListTypes
        /\ \A q \in Opts \ {o} : q \notin Unlimited
    BY OptionsAssumption DEF Unlimited, IsFlag, Type, Opts
  <2>3. IsFor(o, optind')
    BY <1>1, <1>2 DEF IsFor
  <2>4. ASSUME NEW q \in Opts \ {o} PROVE ~IsFor(q, optind')
    <3>1. q # "argument"
      BY OptionsAssumption DEF Opts
    <3> QED
      BY <1>1, <1>2, <2>2, <3>1 DEF IsFor
  <2>5. Kept(o, optind)
    BY <1>2, <2>2 DEF OptionsInv
  <2>6. Handled(o)
    BY <1>1, <2>1, <2>2, <2>3, <2>5, ArgumentKept
  <2> QED
    BY <1>1, <2>2, <2>4, <2>6, HandledForOne
<1> QED
  BY <1>3, <1>4

LEMMA KeptStays ==
  ASSUME NEW o \in Opts, Kept(o, optind),
         argv' = argv, optind' = optind, var' = var, found' = found
  PROVE  Kept(o, optind)'
<1>1. StoresIn(var[o], o, optind) /\ Counted(o, optind)
  BY HoldsNow DEF Kept
<1>2. Stores(o, optind)'
  <2>1. StoresIn(var'[o], o, optind')
    BY <1>1
  <2> QED
    BY <2>1, HoldsNext
<1>3. Counted(o, optind)'
  <2>1. Counted(o, optind)' <=>
           /\ ~IsFlag(o) => found'[o] = Cardinality(GivenTo(o, optind'))
           /\ Type(o) \notin ListTypes => found'[o] <= 1
           /\ IsFlag(o) /\ found'[o] = 0 => \A k \in GivenTo(o, optind') : argv[k].long
    BY CountedNext
  <2> QED
    BY <1>1, <2>1 DEF Counted
<1> QED
  BY <1>2, <1>3 DEF Kept

LEMMA ConstraintsKept == OptionsInv /\ Constraints => OptionsInv'
<1> SUFFICES ASSUME OptionsInv, Constraints PROVE OptionsInv'
  OBVIOUS
<1>1. /\ OptionsTyped /\ outcome = "none" /\ optind = Len(argv)
      /\ outcome' = IF Missing = {} THEN "parsed" ELSE "usage"
      /\ argv' = argv /\ optind' = optind /\ var' = var /\ found' = found
  BY DEF OptionsInv, Constraints
<1>2. OptionsTyped'
  BY <1>1 DEF OptionsTyped
<1>3. CASE Missing # {}
  BY <1>1, <1>2, <1>3 DEF OptionsInv
<1>4. CASE Missing = {}
  <2>1. optind \in Nat
    BY <1>1 DEF OptionsTyped
  <2>2. ASSUME NEW o \in Opts PROVE Kept(o, optind) /\ Kept(o, optind)'
    <3>1. Kept(o, optind)
      BY <1>1 DEF OptionsInv
    <3> QED
      BY <1>1, <3>1, KeptStays
  <2>3. ASSUME NEW o \in Opts, Defs[o].mode = "REQUIRED" PROVE GivenTo(o, optind)' # {}
    <3>1. ~(found[o] < 1) /\ ~IsFlag(o) /\ found[o] \in Nat
      BY <1>1, <1>4, <2>3 DEF Missing, IsFlag, OptionsTyped
    <3>2. found[o] = Cardinality(GivenTo(o, optind))
      BY <2>2, <3>1 DEF Kept, Counted
    <3>3. GivenTo(o, optind) # {}
      BY <2>1, <3>1, <3>2, Given
    <3> QED
      BY <1>1, <3>3 DEF GivenTo
  <2> QED
    BY <1>1, <1>2, <1>4, <2>2, <2>3 DEF OptionsInv
<1> QED
  BY <1>3, <1>4

(* What Before finds: the first of chars, or the end.                      *)
IsFirst(s, chars, k) ==
  /\ k \in 0..Len(s)
  /\ \A j \in 1..Len(s) : j <= k => s[j] \notin chars
  /\ k < Len(s) => s[k + 1] \in chars

LEMMA BeforeIs ==
  ASSUME NEW s, Len(s) \in Nat, NEW chars
  PROVE  IsFirst(s, chars, Before(s, chars))
<1> DEFINE B == {k - 1 : k \in {j \in 1..Len(s) : s[j] \in chars}} \union {Len(s)}
<1>1. B \subseteq Nat /\ B # {} /\ \A b \in B : b \in 0..Len(s)
  OBVIOUS
<1>2. /\ \A b \in B : b = Len(s) \/ (b + 1 \in 1..Len(s) /\ s[b + 1] \in chars)
      /\ \A j \in 1..Len(s) : s[j] \in chars => j - 1 \in B
      /\ Before(s, chars) = Min(B)
  BY DEF Before
<1> HIDE DEF B
<1>3. Min(B) \in B /\ \A x \in B : Min(B) <= x
  BY <1>1, MinOf
<1> DEFINE k == Min(B)
<1>5. k \in B /\ \A j \in 1..Len(s) : s[j] \in chars => k <= j - 1
  BY <1>2, <1>3
<1> HIDE DEF k
<1>4. k \in 0..Len(s) /\ (k < Len(s) => s[k + 1] \in chars)
  BY <1>1, <1>2, <1>5
<1>6. \A j \in 1..Len(s) : j <= k => s[j] \notin chars
  BY <1>4, <1>5
<1> QED
  BY <1>2, <1>4, <1>6 DEF IsFirst, k

(* What is stored is what an argument is worth, but for the two exceptions. *)
LEMMA BoolStands ==
  ASSUME NEW a \in Seq(Alphabet), AsBool(a).ok
  PROVE  FirstIs(a, {"0", "1"}) /\ AsBool(a).val = FirstIs(a, {"1"})
<1>1. PICK k : k = Blanks(a) + 1
  OBVIOUS
<1>2. IsFirst(a, Alphabet \ {Blank}, Blanks(a))
  BY BeforeIs DEF Blanks
<1>3. Blanks(a) \in 0..Len(a) /\ Len(a) \in Nat /\ DOMAIN a = 1..Len(a)
      /\ \A j \in 1..Len(a) : a[j] \in Alphabet
  BY <1>2 DEF IsFirst
<1>4. AsBool(a) = IF k > Len(a) \/ a[k] \notin {"0", "1"} THEN Refused ELSE Read(a[k] = "1")
  BY <1>1 DEF AsBool
<1>5. ~Refused.ok
  BY DEF Refused
<1>6. k <= Len(a) /\ a[k] \in {"0", "1"}
  <2>1. k \in Nat
    BY <1>1, <1>3
  <2>2. ~(k > Len(a) \/ a[k] \notin {"0", "1"})
    BY <1>4, <1>5, Zenon
  <2> QED
    BY <1>3, <2>1, <2>2
<1>7. AsBool(a).val = (a[k] = "1")
  <2>1. ~(k > Len(a) \/ a[k] \notin {"0", "1"})
    BY <1>4, <1>5, Zenon
  <2>2. AsBool(a) = Read(a[k] = "1")
    BY <1>4, <2>1, Zenon
  <2>3. \A v : Read(v).val = v
    BY DEF Read
  <2> QED
    BY <2>2, <2>3, Zenon
<1>8. k \in 1..Len(a) /\ k - 1 \in 0..Len(a)
  BY <1>1, <1>3, <1>6
<1>9. ASSUME NEW j \in 1..Len(a), j < k PROVE a[j] = Blank
  <2>1. j <= Blanks(a)
    BY <1>1, <1>3, <1>9
  <2>2. a[j] \notin Alphabet \ {Blank}
    BY <1>2, <2>1 DEF IsFirst
  <2> QED
    BY <1>3, <2>2
<1>10. Only(Upto(a, k - 1), {Blank})
  <2>1. /\ DOMAIN Upto(a, k - 1) = 1..(k - 1)
        /\ \A j \in 1..(k - 1) : Upto(a, k - 1)[j] = a[j]
    BY <1>8 DEF Upto
  <2>2. ASSUME NEW j \in 1..(k - 1) PROVE Upto(a, k - 1)[j] = Blank
    <3>1. j \in 1..Len(a) /\ j < k
      BY <1>8
    <3> QED
      BY <1>9, <2>1, <3>1
  <2> HIDE DEF Blank
  <2> QED
    BY <2>1, <2>2 DEF Only
<1>11. FirstIs(a, {"0", "1"})
  BY <1>3, <1>6, <1>8, <1>10 DEF FirstIs
<1>12. a[k] = "1" => FirstIs(a, {"1"})
  BY <1>3, <1>8, <1>10 DEF FirstIs
<1>13. FirstIs(a, {"1"}) => a[k] = "1"
  <2> SUFFICES ASSUME NEW l \in 1..Len(a), a[l] = "1", Only(Upto(a, l - 1), {Blank})
               PROVE  a[k] = "1"
    BY <1>3 DEF FirstIs
  <2>1. CASE l < k
    BY <1>9, <2>1 DEF Blank
  <2>2. CASE k < l
    <3>1. k \in 1..(l - 1) /\ l - 1 \in 0..Len(a)
      BY <1>8, <2>2
    <3>2. Upto(a, l - 1)[k] = a[k] /\ k \in DOMAIN Upto(a, l - 1)
      BY <3>1 DEF Upto
    <3>3. a[k] = Blank
      BY <3>2 DEF Only
    <3> QED
      BY <1>6, <3>3 DEF Blank
  <2> QED
    BY <1>8, <2>1, <2>2
<1>14. FirstIs(a, {"1"}) \in BOOLEAN
  BY DEF FirstIs
<1> QED
  BY <1>7, <1>11, <1>12, <1>13, <1>14

LEMMA ParsedStands ==
  ASSUME NEW a \in Seq(Alphabet), NEW type \in Scalars \union Lists, ParsedAs(a, type).ok
  PROVE  Suits(a, type) /\ Stands(ParsedAs(a, type).val, a, type)
<1>0. ~Refused.ok /\ \A v : Read(v).ok /\ Read(v).val = v
  BY DEF Refused, Read
<1>1. CASE type \in {"STRING", "STRINGS"}
  BY <1>0, <1>1 DEF ParsedAs, Suits, Stands, Worth
<1>2. CASE type \in {"BOOL", "BOOLS"}
  <2>1. ParsedAs(a, type) = AsBool(a)
    BY <1>2 DEF ParsedAs
  <2>2. FirstIs(a, {"0", "1"}) /\ AsBool(a).val = FirstIs(a, {"1"})
    BY <2>1, BoolStands
  <2>3. (Suits(a, type) <=> FirstIs(a, {"0", "1"})) /\ Worth(a, type) = FirstIs(a, {"1"})
    BY <1>2 DEF Suits, Worth
  <2>4. AsBool(a).val = Worth(a, type)
    BY <2>2, <2>3
  <2> QED
    BY <2>1, <2>2, <2>3, <2>4 DEF Stands
<1> DEFINE n == Meaning(a)
<1>3. CASE type \in {"UINT64", "UINT64S"}
  <2>1. ParsedAs(a, type) = AsUint(n) /\ Worth(a, type) = n.val
    BY <1>3 DEF ParsedAs, Worth
  <2>2. (Suits(a, type) <=> n.type = "CAMIO_UINT64")
    BY <1>3 DEF Suits
  <2> HIDE DEF n
  <2>3. n.type = "CAMIO_UINT64" /\ AsUint(n).val = n.val
    BY <1>0, <2>1 DEF AsUint
  <2> QED
    BY <2>1, <2>2, <2>3 DEF Stands
<1>4. CASE type \in {"INT64", "INT64S"}
  <2>1. ParsedAs(a, type) = AsInt(n) /\ Worth(a, type) = n.val
    BY <1>4 DEF ParsedAs, Worth
  <2>2. /\ (Suits(a, type) <=> n.type \in {"CAMIO_UINT64", "CAMIO_INT64"})
        /\ \A v : SignTaken(v, a, type) <=>
              n.type = "CAMIO_UINT64" /\ 2 * n.val >= Size /\ v = n.val - Size
    BY <1>4 DEF Suits, SignTaken
  <2> HIDE DEF n
  <2>3. /\ n.type \in {"CAMIO_UINT64", "CAMIO_INT64"}
        /\ \/ AsInt(n).val = n.val
           \/ n.type = "CAMIO_UINT64" /\ 2 * n.val >= Size /\ AsInt(n).val = n.val - Size
    BY <1>0, <2>1 DEF AsInt
  <2> QED
    BY <2>1, <2>2, <2>3 DEF Stands
<1>5. CASE type = "DOUBLE"
  <2>1. ParsedAs(a, type) = AsDouble(n, FALSE) /\ Worth(a, type) = Promoted(n)
    BY <1>5 DEF ParsedAs, Worth
  <2>2. /\ (Suits(a, type) <=> n.type # "CAMIO_NO_TYPE")
        /\ \A v : SignTaken(v, a, type) <=>
              n.type = "CAMIO_UINT64" /\ 2 * n.val >= Size /\ v = <<n.val - Size, 1>>
    BY <1>5 DEF Suits, SignTaken
  <2> HIDE DEF n
  <2>3. n.type \in {"CAMIO_DOUBLE", "CAMIO_UINT64"}
    BY <1>0, <2>1 DEF AsDouble
  <2>4. CASE n.type = "CAMIO_DOUBLE"
    <3>1. AsDouble(n, FALSE).val = Promoted(n)
      BY <1>0, <2>4 DEF AsDouble, Promoted
    <3> QED
      BY <2>1, <2>2, <2>4, <3>1 DEF Stands
  <2>5. CASE n.type = "CAMIO_UINT64"
    <3>1. AsDouble(n, FALSE).val = <<AsInt(n).val, 1>>
      BY <1>0, <2>5 DEF AsDouble
    <3>2. AsInt(n).val = IF 2 * n.val >= Size THEN n.val - Size ELSE n.val
      BY <1>0, <2>5 DEF AsInt
    <3>3. Promoted(n) = <<n.val, 1>>
      BY <2>5 DEF Promoted
    <3> QED
      BY <2>1, <2>2, <2>5, <3>1, <3>2, <3>3 DEF Stands
  <2> QED
    BY <2>3, <2>4, <2>5
<1>6. CASE type = "DOUBLES"
  <2>1. ParsedAs(a, type) = AsDouble(n, TRUE) /\ Worth(a, type) = Promoted(n)
    BY <1>6 DEF ParsedAs, Worth
  <2>2. /\ (Suits(a, type) <=> n.type # "CAMIO_NO_TYPE")
        /\ \A v : BitsTaken(v, a, type) <=> n.type = "CAMIO_UINT64" /\ v = <<n.val, 0>>
    BY <1>6 DEF Suits, BitsTaken
  <2> HIDE DEF n
  <2>3. n.type \in {"CAMIO_DOUBLE", "CAMIO_UINT64"}
    BY <1>0, <2>1 DEF AsDouble
  <2>4. CASE n.type = "CAMIO_DOUBLE"
    <3>1. AsDouble(n, TRUE).val = Promoted(n)
      BY <1>0, <2>4 DEF AsDouble, Promoted
    <3> QED
      BY <2>1, <2>2, <2>4, <3>1 DEF Stands
  <2>5. CASE n.type = "CAMIO_UINT64"
    <3>1. AsDouble(n, TRUE).val = <<n.val, 0>>
      BY <1>0, <2>5 DEF AsDouble
    <3> QED
      BY <2>1, <2>2, <2>5, <3>1 DEF Stands
  <2> QED
    BY <2>3, <2>4, <2>5
<1> QED
  BY <1>1, <1>2, <1>3, <1>4, <1>5, <1>6 DEF Scalars, Lists

(* An argument of an option that is no flag is one of Arguments.           *)
LEMMA GivenText ==
  ASSUME OptionsTyped, NEW o \in Opts, ~IsFlag(o), NEW n \in Nat, n <= Len(argv),
         NEW k \in GivenTo(o, n)
  PROVE  argv[k].arg \in Seq(Alphabet)
<1>1. k \in 1..n /\ Len(argv) \in Nat /\ k \in 1..Len(argv)
  BY DEF GivenTo, OptionsTyped
<1>2. argv[k] \in Elements \union Others
  <2> HIDE DEF Elements, Others
  <2> QED
    BY <1>1 DEF OptionsTyped
<1>3. argv[k].opt = o \/ argv[k].opt = "argument"
  BY DEF GivenTo
<1>4. o \notin {"?", "h", "argument"} /\ Arguments \subseteq Seq(Alphabet)
  BY OptionsAssumption DEF Opts
<1>5. CASE argv[k] \in Others
  BY <1>4, <1>5 DEF Others
<1>6. CASE argv[k] \in Elements
  <2>1. argv[k].opt = o
    BY <1>3, <1>4, <1>6, OptionsAssumption DEF Elements, Opts
  <2>2. CASE argv[k] \in {[opt |-> p, long |-> l, arg |-> a] : p \in {q \in Opts : ~IsFlag(q)},
                                                       l \in {FALSE}, a \in Arguments}
    BY <1>4, <2>2
  <2>3. CASE argv[k] \in {[opt |-> p, long |-> l, arg |-> NoText] : p \in {q \in Opts : IsFlag(q)},
                                                            l \in BOOLEAN}
    BY <2>1, <2>3
  <2>4. CASE argv[k] \in {[opt |-> p, long |-> FALSE, arg |-> NoText] : p \in {"?", "h"}}
    BY <1>4, <2>1, <2>4
  <2> QED
    BY <1>6, <2>2, <2>3, <2>4 DEF Elements
<1> QED
  BY <1>2, <1>5, <1>6

LEMMA StoresHolds ==
  ASSUME OptionsTyped, NEW o \in Opts, NEW n \in Nat, n <= Len(argv), Stores(o, n)
  PROVE  Holds(o, n)
<1>1. Type(o) \in Scalars \union Lists /\ (IsFlag(o) => Type(o) \notin Lists)
  BY OptionsAssumption DEF Type, Opts, IsFlag, Lists
<1>2. ASSUME ~IsFlag(o), NEW k \in GivenTo(o, n)
      PROVE  /\ Suits(argv[k].arg, Type(o))
             /\ Stands(ValueOf(o, k), argv[k].arg, Type(o))
  <2>1. argv[k].arg \in Seq(Alphabet)
    BY <1>2, GivenText
  <2>2. ParsedAs(argv[k].arg, Type(o)).ok
    BY <1>2 DEF Stores
  <2> QED
    BY <1>1, <2>1, <2>2, ParsedStands DEF ValueOf
<1>3. ASSUME ~IsFlag(o), Type(o) \in Scalars
      PROVE  /\ GivenTo(o, n) = {} => var[o] = Defs[o].default
             /\ \A k \in GivenTo(o, n) :
                  GivenTo(o, n) = {k} /\ Stands(var[o], argv[k].arg, Type(o))
  BY <1>2, <1>3 DEF Stores
<1>4. ASSUME Type(o) \in Lists
      PROVE  /\ Len(var[o]) = Default(o, n) + Cardinality(GivenTo(o, n))
             /\ Default(o, n) = 1 => var[o][1] = Defs[o].default
             /\ \A k \in GivenTo(o, n) :
                  Stands(var[o][Default(o, n) + Place(o, n, k)], argv[k].arg, Type(o))
  BY <1>1, <1>2, <1>4 DEF Stores
<1>5. IsFlag(o) => var[o] = (Turned(o, n) # Defs[o].default)
  BY DEF Stores
<1> QED
  BY <1>2, <1>3, <1>4, <1>5 DEF Holds

(* Whatever the options, their arguments and the command line, an accepted *)
(* one leaves every option with the worth of what it was given, in order,  *)
(* or with its default, but for the exceptions SignTaken, BitsTaken and    *)
(* Restored; and memory is overwritten only by a list longer than its      *)
(* initial size.                                                           *)
THEOREM OptionsAsGiven == OptionsSpec => []VariablesAsGiven
<1>1. (\E a \in CommandLines : OptionsInit(a)) => OptionsInv
  <2> SUFFICES ASSUME NEW a \in CommandLines, OptionsInit(a) PROVE OptionsInv
    OBVIOUS
  <2>1. a \in Seq(Elements \union Others)
    <3> DEFINE E == Elements \union Others
    <3> HIDE DEF E
    <3>1. a \in BoundedSeq(E, MaxArgs)
      BY DEF CommandLines, E
    <3>2. PICK n \in 0..MaxArgs : a \in [1..n -> E]
      BY <3>1 DEF BoundedSeq, SeqOf
    <3>3. n \in Nat
      BY OptionsAssumption
    <3>4. a \in Seq(E)
      BY <3>2, <3>3
    <3> QED
      BY <3>4 DEF E
  <2>2. /\ argv = a /\ optind = 0 /\ outcome = "none" /\ found = [o \in Opts |-> 0]
        /\ var = [o \in Opts |-> IF Type(o) \in Lists THEN <<Defs[o].default>>
                                 ELSE Defs[o].default]
    BY DEF OptionsInit
  <2>3. ASSUME NEW o \in Opts
        PROVE  /\ Type(o) \in Lists => IsSeq(var[o]) /\ Len(var[o]) = 1
                                       /\ var[o][1] = Defs[o].default
               /\ Type(o) \notin Lists => var[o] = Defs[o].default
    <3> DEFINE d == Defs[o].default
    <3>1. Append(<<>>, d) = <<d>>
      OBVIOUS
    <3>2. IsSeq(Append(<<>>, d))
      BY NoItems, AppendIs
    <3>3. Len(<<d>>) = 1 /\ <<d>>[1] = d
      OBVIOUS
    <3> QED
      BY <2>2, <3>1, <3>2, <3>3
  <2>4. OptionsTyped
    <3>1. optind \in 0..Len(argv)
      BY <2>1, <2>2
    <3> HIDE DEF Elements, Others
    <3> QED
      BY <2>1, <2>2, <2>3, <3>1 DEF OptionsTyped
  <2>5. ASSUME NEW o \in Opts PROVE Kept(o, optind)
    <3>1. GivenTo(o, 0) = {} /\ Cardinality({}) = 0 /\ found[o] = 0
      BY <2>2, FS_EmptySet DEF GivenTo
    <3>2. Counted(o, 0)
      BY <3>1 DEF Counted
    <3>3. StoresIn(var[o], o, 0)
      <4>1. ASSUME IsFlag(o) PROVE FlagIs(var[o], o, 0)
        <5>1. Type(o) = "BOOL" /\ Defs[o].default \in BOOLEAN
          BY <4>1, OptionsAssumption DEF IsFlag, Type, Opts
        <5>2. Type(o) \notin Lists
          BY <5>1 DEF Lists
        <5>3. Turned(o, 0) = FALSE
          BY <3>1 DEF Turned, Restored
        <5>4. var[o] = Defs[o].default
          BY <2>3, <5>2
        <5> QED
          BY <5>1, <5>3, <5>4 DEF FlagIs
      <4>2. AsGiven(o, 0)
        BY <3>1 DEF AsGiven
      <4>3. ASSUME Type(o) \in Scalars PROVE ScalarIs(var[o], o, 0)
        <5>1. Type(o) \notin Lists
          BY <4>3 DEF Scalars, Lists
        <5> QED
          BY <2>3, <3>1, <5>1 DEF ScalarIs
      <4>4. ASSUME Type(o) \in Lists PROVE ListIs(var[o], o, 0)
        <5>1. Default(o, 0) = 1
          BY <3>1 DEF Default
        <5>2. Cardinality(GivenTo(o, 0)) = 0
          BY <3>1
        <5>3. Len(var[o]) = 1 /\ var[o][1] = Defs[o].default
          BY <2>3, <4>4
        <5>4. \A k \in GivenTo(o, 0) : FALSE
          BY <3>1
        <5> QED
          BY <5>1, <5>2, <5>3, <5>4 DEF ListIs
      <4> QED
        BY <4>1, <4>2, <4>3, <4>4 DEF StoresIn
    <3> QED
      BY <2>2, <3>2, <3>3, HoldsNow DEF Kept
  <2> QED
    BY <2>2, <2>4, <2>5 DEF OptionsInv
<1>2. OptionsInv /\ [OptionsNext]_options_vars => OptionsInv'
  <2> SUFFICES ASSUME OptionsInv, [OptionsNext]_options_vars PROVE OptionsInv'
    OBVIOUS
  <2>1. CASE UNCHANGED options_vars
    <3>1. /\ argv' = argv /\ optind' = optind /\ var' = var /\ found' = found
          /\ outcome' = outcome
      BY <2>1 DEF options_vars
    <3>2. OptionsTyped'
      BY <3>1 DEF OptionsInv, OptionsTyped
    <3>3. ASSUME NEW o \in Opts PROVE GivenTo(o, optind)' = GivenTo(o, optind)
      BY <3>1 DEF GivenTo
    <3>4. ASSUME NEW o \in Opts PROVE TooLong(o, Len(argv))' <=> TooLong(o, Len(argv))
      BY <3>1 DEF TooLong, Default, GivenTo
    <3> QED
      BY <3>1, <3>2, <3>3, <3>4, KeptStays DEF OptionsInv
  <2> QED
    BY <2>1, HelpKept, LongFlagKept, OptionKept, ExtraKept, ConstraintsKept DEF OptionsNext
<1>3. OptionsInv => VariablesAsGiven
  <2> SUFFICES ASSUME OptionsInv PROVE VariablesAsGiven
    OBVIOUS
  <2>1. ASSUME outcome = "parsed", NEW o \in Opts PROVE Holds(o, Len(argv))
    BY <2>1, StoresHolds DEF OptionsInv, Kept
  <2> QED
    BY <2>1 DEF OptionsInv, TooLong, VariablesAsGiven
<1> QED
  BY <1>1, <1>2, <1>3, PTL DEF OptionsSpec

(***************************************************************************)
(* The parser of numbers.  Extended is what a sequence of digits is worth; *)
(* a numeral is known by its form, character by character, so that what a  *)
(* character more makes of it can be told; the invariant of the parser     *)
(* says which form the characters read so far have, and what they are      *)
(* worth.                                                                  *)
(***************************************************************************)

(* What the digits are.                                                    *)
LEMMA DigitsAre ==
  /\ Digits[2] = {"0", "1"}
  /\ Digits[8] = {"0", "1", "7"}
  /\ Digits[10] = {"0", "1", "7", "9"}
  /\ Digits[16] = {"0", "1", "7", "9", "a", "b"}
  /\ \A d \in Digits[16] : Value[d] \in Nat
  /\ Value["0"] = 0
<1>1. /\ DOMAIN Value = {"0", "1", "7", "9", "a", "b"}
      /\ Value["0"] = 0 /\ Value["1"] = 1 /\ Value["7"] = 7 /\ Value["9"] = 9
      /\ Value["a"] = 10 /\ Value["b"] = 11
  BY DEF Value
<1>2. ASSUME NEW r \in {2, 8, 10, 16}
      PROVE  Digits[r] = {d \in {"0", "1", "7", "9", "a", "b"} : Value[d] < r}
  BY <1>1 DEF Digits
<1>3. Digits[2] = {"0", "1"}
  BY <1>1, <1>2
<1>4. Digits[8] = {"0", "1", "7"}
  BY <1>1, <1>2
<1>5. Digits[10] = {"0", "1", "7", "9"}
  BY <1>1, <1>2
<1>6. Digits[16] = {"0", "1", "7", "9", "a", "b"}
  BY <1>1, <1>2
<1> QED
  BY <1>1, <1>3, <1>4, <1>5, <1>6

LEMMA BeforeOnly ==
  ASSUME NEW s, Len(s) \in Nat, NEW chars, NEW k, IsFirst(s, chars, k)
  PROVE  Before(s, chars) = k
<1>1. IsFirst(s, chars, Before(s, chars))
  BY BeforeIs
<1> DEFINE b == Before(s, chars)
<1> HIDE DEF b
<1>2. IsFirst(s, chars, b)
  BY <1>1 DEF b
<1>3. b \in Int /\ k \in Int /\ Len(s) \in Int /\ b <= Len(s) /\ k <= Len(s) /\ 0 <= b /\ 0 <= k
  BY <1>2 DEF IsFirst
<1>4. ~(b < k)
  <2> SUFFICES ASSUME b < k PROVE FALSE
    OBVIOUS
  <2>1. b + 1 \in 1..Len(s) /\ b + 1 <= k /\ b < Len(s)
    BY <1>3
  <2> QED
    BY <1>2, <2>1 DEF IsFirst
<1>5. ~(k < b)
  <2> SUFFICES ASSUME k < b PROVE FALSE
    OBVIOUS
  <2>1. k + 1 \in 1..Len(s) /\ k + 1 <= b /\ k < Len(s)
    BY <1>3
  <2> QED
    BY <1>2, <2>1 DEF IsFirst
<1> QED
  BY <1>3, <1>4, <1>5 DEF b

(* The value of one digit more.                                            *)
Extends(v, n, s, radix, m) ==
  v = [k \in 0..m |-> IF k = 0 THEN n ELSE v[k - 1] * radix + Value[s[k]]]

LEMMA ExtendsAt ==
  ASSUME NEW v, NEW n, NEW s, NEW radix, NEW m \in Nat, Extends(v, n, s, radix, m)
  PROVE  v[0] = n /\ \A k \in 1..m : v[k] = v[k - 1] * radix + Value[s[k]]
<1> DEFINE e(k) == IF k = 0 THEN n ELSE v[k - 1] * radix + Value[s[k]]
<1>1. v = [k \in 0..m |-> e(k)]
  BY DEF Extends
<1>2. e(0) = n /\ \A k \in 1..m : e(k) = v[k - 1] * radix + Value[s[k]]
  OBVIOUS
<1> HIDE DEF e
<1>3. \A k \in 0..m : v[k] = e(k)
  BY <1>1
<1> QED
  BY <1>2, <1>3

LEMMA ExtendsExists ==
  ASSUME NEW n, NEW s, NEW radix
  PROVE  \A m \in Nat : \E v : Extends(v, n, s, radix, m)
<1> DEFINE Bad == {m \in Nat : ~\E v : Extends(v, n, s, radix, m)}
<1> SUFFICES ASSUME Bad # {} PROVE FALSE
  OBVIOUS
<1>1. PICK m \in Bad : \A y \in Bad : ~ (<<y, m>> \in OpToRel(<, Nat))
  <2>1. Bad \subseteq Nat
    OBVIOUS
  <2> HIDE DEF Bad
  <2> QED
    BY <2>1, NatLessThanWellFounded, WFMin
<1>2. m \in Nat /\ \A v : ~Extends(v, n, s, radix, m)
  OBVIOUS
<1>3. ASSUME NEW k \in Nat, k < m PROVE \E v : Extends(v, n, s, radix, k)
  <2>1. <<k, m>> \in OpToRel(<, Nat)
    BY <1>2, <1>3 DEF OpToRel
  <2>2. k \notin Bad
    BY <1>1, <2>1
  <2> QED
    BY <2>2
<1> HIDE DEF Bad
<1>4. CASE m = 0
  <2> DEFINE v == [k \in 0..0 |-> n]
  <2>1. Extends(v, n, s, radix, 0)
    BY DEF Extends
  <2> QED
    BY <1>2, <1>4, <2>1
<1>5. CASE m > 0
  <2>1. PICK l \in Nat : m = l + 1
    BY <1>2, <1>5
  <2>2. PICK g : Extends(g, n, s, radix, l)
    BY <1>3, <2>1
  <2>3. g[0] = n /\ \A k \in 1..l : g[k] = g[k - 1] * radix + Value[s[k]]
    BY <2>2, ExtendsAt
  <2> DEFINE last == g[l] * radix + Value[s[m]]
             v == [k \in 0..m |-> IF k <= l THEN g[k] ELSE last]
  <2> HIDE DEF last
  <2>4. /\ \A k \in 0..m : k <= l => v[k] = g[k]
        /\ v[m] = last
    BY <1>2, <2>1
  <2>5. ASSUME NEW k \in 0..m
        PROVE  v[k] = IF k = 0 THEN n ELSE v[k - 1] * radix + Value[s[k]]
    <3>1. CASE k = 0
      BY <2>1, <2>3, <2>4, <3>1
    <3>2. CASE k \in 1..l
      <4>1. k - 1 \in 0..m /\ k - 1 <= l /\ k \in 0..m /\ k <= l /\ k # 0
        BY <2>1, <3>2
      <4> QED
        BY <2>3, <2>4, <3>2, <4>1
    <3>3. CASE k = m
      <4>1. m - 1 \in 0..m /\ m - 1 <= l /\ m - 1 = l /\ m # 0
        BY <1>2, <1>5, <2>1
      <4> QED
        BY <2>4, <3>3, <4>1 DEF last
    <3> QED
      BY <2>1, <3>1, <3>2, <3>3
  <2>6. v = [k \in 0..m |-> v[k]]
    OBVIOUS
  <2> HIDE DEF v
  <2>7. Extends(v, n, s, radix, m)
    BY <2>5, <2>6 DEF Extends
  <2> QED
    BY <1>2, <2>7
<1> QED
  BY <1>2, <1>4, <1>5

LEMMA ExtendedIs ==
  ASSUME NEW n, NEW s, NEW radix, Len(s) \in Nat
  PROVE  \E v : Extends(v, n, s, radix, Len(s)) /\ Extended(n, s, radix) = v[Len(s)]
<1> DEFINE h == CHOOSE v : Extends(v, n, s, radix, Len(s))
<1>1. Extends(h, n, s, radix, Len(s))
  BY ExtendsExists
<1>2. Extended(n, s, radix) = h[Len(s)]
  BY DEF Extended, Extends
<1> QED
  BY <1>1, <1>2

(* Values of the same digits are the same, whatever comes after.           *)
SameTo(s, t, m) == \A k \in 1..m : s[k] = t[k]

LEMMA ExtendsSame ==
  ASSUME NEW n, NEW s, NEW t, NEW radix, NEW m \in Nat, NEW l \in Nat, m <= l,
         SameTo(s, t, m), NEW v, Extends(v, n, s, radix, m), NEW w, Extends(w, n, t, radix, l)
  PROVE  \A k \in 0..m : v[k] = w[k]
<1> DEFINE Bad == {k \in 0..m : v[k] # w[k]}
<1> SUFFICES ASSUME Bad # {} PROVE FALSE
  OBVIOUS
<1>1. PICK k \in Bad : \A y \in Bad : ~ (<<y, k>> \in OpToRel(<, Nat))
  <2>1. Bad \subseteq Nat
    OBVIOUS
  <2> HIDE DEF Bad
  <2> QED
    BY <2>1, NatLessThanWellFounded, WFMin
<1>2. k \in 0..m /\ v[k] # w[k]
  OBVIOUS
<1>3. v[0] = n /\ w[0] = n
  BY ExtendsAt
<1>4. k # 0
  BY <1>2, <1>3
<1>5. /\ k \in 1..m /\ k \in 1..l /\ s[k] = t[k]
      /\ k - 1 \in 0..m /\ k - 1 \in Nat /\ k \in Nat /\ k - 1 < k
  BY <1>2, <1>4 DEF SameTo
<1>6. v[k] = v[k - 1] * radix + Value[s[k]] /\ w[k] = w[k - 1] * radix + Value[t[k]]
  BY <1>5, ExtendsAt
<1>7. <<k - 1, k>> \in OpToRel(<, Nat)
  BY <1>5 DEF OpToRel
<1>8. v[k - 1] = w[k - 1]
  BY <1>1, <1>5, <1>7
<1> QED
  BY <1>2, <1>5, <1>6, <1>8

LEMMA ExtendedEmpty ==
  ASSUME NEW n, NEW radix
  PROVE  Extended(n, <<>>, radix) = n
<1>1. Len(<<>>) = 0
  OBVIOUS
<1>2. PICK v : Extends(v, n, <<>>, radix, 0) /\ Extended(n, <<>>, radix) = v[0]
  BY <1>1, ExtendedIs
<1> QED
  BY <1>2, ExtendsAt

LEMMA ExtendedType ==
  ASSUME NEW n \in Nat, NEW radix \in Nat, NEW s, Len(s) \in Nat,
         \A k \in 1..Len(s) : Value[s[k]] \in Nat
  PROVE  Extended(n, s, radix) \in Nat
<1>1. PICK v : Extends(v, n, s, radix, Len(s)) /\ Extended(n, s, radix) = v[Len(s)]
  BY ExtendedIs
<1>2. v[0] = n /\ \A k \in 1..Len(s) : v[k] = v[k - 1] * radix + Value[s[k]]
  BY <1>1, ExtendsAt
<1> DEFINE Bad == {k \in 0..Len(s) : v[k] \notin Nat}
<1>3. CASE Bad = {}
  BY <1>1, <1>3
<1>4. CASE Bad # {}
  <2>1. PICK k \in Bad : \A y \in Bad : ~ (<<y, k>> \in OpToRel(<, Nat))
    <3>1. Bad \subseteq Nat
      OBVIOUS
    <3> HIDE DEF Bad
    <3> QED
      BY <1>4, <3>1, NatLessThanWellFounded, WFMin
  <2>2. k \in 0..Len(s) /\ v[k] \notin Nat /\ k # 0
    BY <1>2
  <2>3. k \in 1..Len(s) /\ k - 1 \in 0..Len(s) /\ k - 1 \in Nat /\ k \in Nat /\ k - 1 < k
    BY <2>2
  <2>4. <<k - 1, k>> \in OpToRel(<, Nat)
    BY <2>3 DEF OpToRel
  <2>5. v[k - 1] \in Nat
    BY <2>1, <2>3, <2>4
  <2>6. v[k] = v[k - 1] * radix + Value[s[k]] /\ Value[s[k]] \in Nat
    BY <1>2, <2>3
  <2>7. v[k - 1] * radix \in Nat
    BY <2>5
  <2> QED
    BY <2>2, <2>6, <2>7
<1> QED
  BY <1>3, <1>4

LEMMA ExtendedByOne ==
  ASSUME NEW n, NEW radix, NEW X, NEW s \in Seq(X), NEW d \in X
  PROVE  Extended(n, Append(s, d), radix) = Extended(n, s, radix) * radix + Value[d]
<1> DEFINE m == Len(s)
           t == Append(s, d)
<1>1. m \in Nat /\ Len(t) = m + 1 /\ t[m + 1] = d /\ \A k \in 1..m : s[k] = t[k]
  OBVIOUS
<1> HIDE DEF m, t
<1>2. PICK v : Extends(v, n, s, radix, m) /\ Extended(n, s, radix) = v[m]
  BY <1>1, ExtendedIs DEF m
<1>3. PICK w : Extends(w, n, t, radix, m + 1) /\ Extended(n, t, radix) = w[m + 1]
  <2>1. Len(t) \in Nat
    BY <1>1
  <2> QED
    BY <1>1, <2>1, ExtendedIs
<1>4. w[m + 1] = w[m + 1 - 1] * radix + Value[t[m + 1]]
  BY <1>1, <1>3, ExtendsAt
<1>5. v[m] = w[m]
  <2>1. \A k \in 0..m : v[k] = w[k]
    <3>1. PICK l \in Nat : l = m + 1 /\ m <= l
      BY <1>1
    <3>2. Extends(w, n, t, radix, l)
      BY <1>3, <3>1
    <3>3. SameTo(s, t, m)
      BY <1>1 DEF SameTo
    <3> QED
      BY <1>1, <1>2, <3>1, <3>2, <3>3, ExtendsSame
  <2> QED
    BY <1>1, <2>1
<1>6. m + 1 - 1 = m
  BY <1>1
<1> QED
  BY <1>1, <1>2, <1>3, <1>4, <1>5, <1>6 DEF t

(* Modulo Size, a digit more needs only the value modulo Size.             *)
LEMMA Remainder ==
  ASSUME NEW a \in Nat, NEW q \in Nat, NEW r \in Nat, r < Size, a = Size * q + r
  PROVE  a % Size = r
<1>1. Size \in Nat \ {0}
  BY NumberAssumption
<1> QED
  BY <1>1

LEMMA ModuloSum ==
  ASSUME NEW a \in Nat, NEW q \in Nat
  PROVE  (a + q * Size) % Size = a % Size
<1>1. Size \in Nat \ {0}
  BY NumberAssumption
<1>2. PICK p \in Nat, r \in Nat : r = a % Size /\ a = Size * p + r /\ r < Size
  BY <1>1
<1>3. a + q * Size = Size * (p + q) + r
  BY <1>1, <1>2
<1>4. a + q * Size \in Nat /\ p + q \in Nat
  BY <1>1
<1> QED
  BY <1>2, <1>3, <1>4, Remainder

LEMMA ModuloStep ==
  ASSUME NEW n \in Nat, NEW radix \in Nat, NEW d \in Nat
  PROVE  ((n % Size) * radix + d) % Size = (n * radix + d) % Size
<1>1. Size \in Nat \ {0}
  BY NumberAssumption
<1>2. PICK p \in Nat, r \in Nat : r = n % Size /\ n = Size * p + r
  BY <1>1
<1>3. n * radix + d = (r * radix + d) + (p * radix) * Size
  <2>1. n * radix = r * radix + (p * radix) * Size
    BY <1>1, <1>2
  <2> QED
    BY <1>1, <1>2, <2>1
<1>4. r * radix + d \in Nat /\ p * radix \in Nat
  BY <1>2
<1> QED
  BY <1>2, <1>3, <1>4, ModuloSum

-----------------------------------------------------------------------------
(* What the ends of a sequence are.                                        *)

LEMMA SameSeq ==
  ASSUME NEW X, NEW s \in Seq(X), NEW t \in Seq(X), Len(s) = Len(t), SameTo(s, t, Len(s))
  PROVE  s = t
BY DEF SameTo

LEMMA UptoIs ==
  ASSUME NEW X, NEW s \in Seq(X), NEW k \in 0..Len(s)
  PROVE  /\ Upto(s, k) \in Seq(X) /\ Len(Upto(s, k)) = k
         /\ \A j \in 1..k : Upto(s, k)[j] = s[j]
<1>1. Len(s) \in Nat
  OBVIOUS
<1>2. \A j \in 1..k : j \in 1..Len(s)
  BY <1>1
<1> QED
  BY <1>1, <1>2, SubSeqProperties DEF Upto

LEMMA AfterIs ==
  ASSUME NEW X, NEW s \in Seq(X), NEW k \in 0..Len(s)
  PROVE  /\ After(s, k) \in Seq(X) /\ Len(After(s, k)) = Len(s) - k
         /\ \A j \in 1..(Len(s) - k) : After(s, k)[j] = s[k + j]
<1>1. Len(s) \in Nat
  OBVIOUS
<1>2. \A j \in (k + 1)..Len(s) : j \in 1..Len(s)
  BY <1>1
<1>3. /\ After(s, k) \in Seq(X)
      /\ Len(After(s, k)) = IF k + 1 <= Len(s) THEN Len(s) - (k + 1) + 1 ELSE 0
      /\ \A j \in 1..(Len(s) - k) : After(s, k)[j] = s[(k + 1) + j - 1]
  BY <1>1, <1>2, SubSeqProperties DEF After
<1> QED
  BY <1>1, <1>3

LEMMA AppendAt ==
  ASSUME NEW X, NEW s \in Seq(X), NEW d \in X
  PROVE  /\ Append(s, d) \in Seq(X) /\ Len(Append(s, d)) = Len(s) + 1 /\ Len(s) \in Nat
         /\ \A j \in 1..Len(s) : Append(s, d)[j] = s[j]
         /\ Append(s, d)[Len(s) + 1] = d
OBVIOUS

LEMMA UptoNext ==
  ASSUME NEW X, NEW s \in Seq(X), NEW k \in 0..Len(s), k < Len(s)
  PROVE  Upto(s, k + 1) = Append(Upto(s, k), s[k + 1])
<1> DEFINE a == Upto(s, k)
           d == s[k + 1]
           t == Append(a, d)
<1>1. d \in X /\ Len(s) \in Nat
  OBVIOUS
<1>2. a \in Seq(X) /\ Len(a) = k /\ \A j \in 1..k : a[j] = s[j]
  BY UptoIs
<1> HIDE DEF a, d
<1>3. t \in Seq(X) /\ Len(t) = k + 1 /\ t[k + 1] = d /\ \A j \in 1..k : t[j] = a[j]
  BY <1>1, <1>2, AppendAt
<1>4. PICK l \in 0..Len(s) : l = k + 1
  BY <1>1
<1>5. Upto(s, l) \in Seq(X) /\ Len(Upto(s, l)) = l /\ \A j \in 1..l : Upto(s, l)[j] = s[j]
  BY UptoIs
<1> HIDE DEF t
<1>6. SameTo(Upto(s, l), t, l)
  BY <1>2, <1>3, <1>4, <1>5 DEF SameTo, d
<1> DEFINE b == Upto(s, l)
<1> HIDE DEF b
<1>7. b = t
  BY <1>3, <1>4, <1>5, <1>6, SameSeq DEF b
<1> QED
  BY <1>4, <1>7 DEF b, t, a, d

LEMMA UptoAll ==
  ASSUME NEW X, NEW s \in Seq(X)
  PROVE  Upto(s, Len(s)) = s
<1>1. Len(s) \in 0..Len(s)
  OBVIOUS
<1> DEFINE b == Upto(s, Len(s))
<1>2. b \in Seq(X) /\ Len(b) = Len(s) /\ \A j \in 1..Len(s) : b[j] = s[j]
  BY <1>1, UptoIs
<1> HIDE DEF b
<1>3. SameTo(b, s, Len(b))
  BY <1>2 DEF SameTo
<1> QED
  BY <1>2, <1>3, SameSeq DEF b

LEMMA UptoAppended ==
  ASSUME NEW X, NEW s \in Seq(X), NEW d \in X, NEW k \in 0..Len(s)
  PROVE  Upto(Append(s, d), k) = Upto(s, k)
<1> DEFINE t == Append(s, d)
<1>1. /\ t \in Seq(X) /\ Len(t) = Len(s) + 1 /\ Len(s) \in Nat
      /\ \A j \in 1..Len(s) : t[j] = s[j]
  BY AppendAt
<1> HIDE DEF t
<1>2. k \in 0..Len(t)
  BY <1>1
<1> DEFINE a == Upto(s, k)
           b == Upto(t, k)
<1>3. /\ a \in Seq(X) /\ Len(a) = k /\ \A j \in 1..k : a[j] = s[j]
      /\ b \in Seq(X) /\ Len(b) = k /\ \A j \in 1..k : b[j] = t[j]
  BY <1>1, <1>2, UptoIs
<1> HIDE DEF a, b
<1>6. \A j \in 1..k : j \in 1..Len(s)
  BY <1>1
<1>4. SameTo(b, a, Len(b))
  BY <1>1, <1>3, <1>6 DEF SameTo
<1>5. b = a
  BY <1>3, <1>4, SameSeq
<1> QED
  BY <1>5 DEF a, b, t

LEMMA AfterAppended ==
  ASSUME NEW X, NEW s \in Seq(X), NEW d \in X, NEW k \in 0..Len(s)
  PROVE  After(Append(s, d), k) = Append(After(s, k), d)
<1> DEFINE t == Append(s, d)
<1>1. /\ t \in Seq(X) /\ Len(t) = Len(s) + 1 /\ Len(s) \in Nat /\ t[Len(s) + 1] = d
      /\ \A j \in 1..Len(s) : t[j] = s[j]
  BY AppendAt
<1> HIDE DEF t
<1>2. k \in 0..Len(t)
  BY <1>1
<1> DEFINE a == After(s, k)
           b == After(t, k)
           e == Append(a, d)
<1>3. /\ a \in Seq(X) /\ Len(a) = Len(s) - k /\ \A j \in 1..(Len(s) - k) : a[j] = s[k + j]
      /\ b \in Seq(X) /\ Len(b) = Len(t) - k /\ \A j \in 1..(Len(t) - k) : b[j] = t[k + j]
  <2>1. a \in Seq(X) /\ Len(a) = Len(s) - k /\ \A j \in 1..(Len(s) - k) : a[j] = s[k + j]
    BY AfterIs
  <2>2. b \in Seq(X) /\ Len(b) = Len(t) - k /\ \A j \in 1..(Len(t) - k) : b[j] = t[k + j]
    BY <1>1, <1>2, AfterIs
  <2> QED
    BY <2>1, <2>2
<1> HIDE DEF a, b
<1>4. /\ e \in Seq(X) /\ Len(e) = Len(a) + 1 /\ e[Len(a) + 1] = d
      /\ \A j \in 1..Len(a) : e[j] = a[j]
  BY <1>3, AppendAt
<1> HIDE DEF e
<1>5. ASSUME NEW j \in 1..Len(b) PROVE b[j] = e[j]
  <2>1. CASE j <= Len(s) - k
    <3>1. j \in 1..Len(a) /\ j \in 1..(Len(s) - k) /\ k + j \in 1..Len(s)
          /\ j \in 1..(Len(t) - k)
      BY <1>1, <1>3, <2>1
    <3> QED
      BY <1>1, <1>3, <1>4, <3>1
  <2>2. CASE j = Len(s) - k + 1
    <3>1. k + j = Len(s) + 1 /\ j = Len(a) + 1 /\ j \in 1..(Len(t) - k)
      BY <1>1, <1>3, <2>2
    <3> QED
      BY <1>1, <1>3, <1>4, <3>1
  <2> QED
    BY <1>1, <1>3, <2>1, <2>2
<1>6. SameTo(b, e, Len(b)) /\ Len(b) = Len(e)
  BY <1>1, <1>3, <1>4, <1>5 DEF SameTo
<1>7. b = e
  BY <1>3, <1>4, <1>6, SameSeq
<1> QED
  BY <1>7 DEF a, b, e, t

(* A nought more.                                                          *)
LEMMA PowerByOne ==
  ASSUME NEW X, NEW s \in Seq(X), NEW d \in X
  PROVE  Power(Append(s, d)) = Power(s) * 10
<1> DEFINE n(x) == [k \in DOMAIN x |-> "0"]
<1>1. Power(s) = Extended(1, n(s), 10) /\ Power(Append(s, d)) = Extended(1, n(Append(s, d)), 10)
  BY DEF Power
<1>2. n(s) \in Seq({"0"}) /\ Len(n(s)) = Len(s)
  OBVIOUS
<1>3. n(Append(s, d)) = Append(n(s), "0")
  OBVIOUS
<1> HIDE DEF n
<1>4. Extended(1, Append(n(s), "0"), 10) = Extended(1, n(s), 10) * 10 + Value["0"]
  BY <1>2, ExtendedByOne
<1>5. Value["0"] = 0 /\ \A k \in 1..Len(n(s)) : Value[n(s)[k]] \in Nat
  BY <1>2, DigitsAre DEF n
<1>7. Len(n(s)) \in Nat
  BY <1>2
<1>6. Extended(1, n(s), 10) \in Nat
  BY <1>2, <1>5, <1>7, ExtendedType
<1> QED
  BY <1>1, <1>3, <1>4, <1>5, <1>6

-----------------------------------------------------------------------------
(* The forms of a numeral, character by character.                         *)

DecimalForm(s) == Len(s) > 0 /\ s[1] # "0" /\ \A j \in 1..Len(s) : s[j] \in Digits[10]
OctalForm(s) == Len(s) > 0 /\ s[1] = "0" /\ \A j \in 2..Len(s) : s[j] \in Digits[8]
MarkedForm(s, m, radix) ==
  Len(s) > 1 /\ s[1] = "0" /\ s[2] = m /\ \A j \in 3..Len(s) : s[j] \in Digits[radix]
LeftForm(s, signed) ==
  /\ \A j \in 1..Len(s) : s[j] \in Digits[10]
  /\ Len(s) < 2 \/ s[1] # "0" \/ (signed /\ \A j \in 1..Len(s) : s[j] = "0")
FloatForm(s, signed, p) ==
  /\ p \in 1..Len(s) /\ s[p] = "."
  /\ \A j \in 1..Len(s) : j # p => s[j] \in Digits[10]
  /\ p < 3 \/ s[1] # "0" \/ (signed /\ \A j \in 1..Len(s) : j < p => s[j] = "0")

LEMMA DecimalIs ==
  ASSUME NEW X, NEW s \in Seq(X)
  PROVE  IsDecimal(s) <=> DecimalForm(s)
<1>1. Len(s) \in Nat /\ DOMAIN s = 1..Len(s) /\ (s # <<>> <=> Len(s) > 0)
  OBVIOUS
<1> QED
  BY <1>1 DEF IsDecimal, DecimalForm, Only

LEMMA OctalIs ==
  ASSUME NEW X, NEW s \in Seq(X)
  PROVE  IsMarked(s, <<"0">>, 8) <=> OctalForm(s)
<1>1. Len(<<"0">>) = 1 /\ <<"0">>[1] = "0" /\ Len(s) \in Nat /\ <<"0">> \in Seq({"0"})
  OBVIOUS
<1>2. CASE Len(s) = 0
  BY <1>1, <1>2 DEF IsMarked, OctalForm
<1>3. CASE Len(s) > 0
  <2>1. 1 \in 0..Len(s)
    BY <1>1, <1>3
  <2>2. /\ Upto(s, 1) \in Seq(X) /\ Len(Upto(s, 1)) = 1
        /\ \A j \in 1..1 : Upto(s, 1)[j] = s[j]
    BY <2>1, UptoIs
  <2>5. /\ After(s, 1) \in Seq(X) /\ Len(After(s, 1)) = Len(s) - 1
        /\ \A j \in 1..(Len(s) - 1) : After(s, 1)[j] = s[1 + j]
    BY <2>1, AfterIs
  <2>3. Upto(s, 1) = <<"0">> <=> s[1] = "0"
    <3> DEFINE a == Upto(s, 1)
    <3>1. a \in Seq(X) /\ Len(a) = 1 /\ a[1] = s[1]
      BY <2>2
    <3> HIDE DEF a
    <3>2. a = <<s[1]>>
      BY <3>1
    <3> QED
      BY <3>2 DEF a
  <2>4. Only(After(s, 1), Digits[8]) <=> \A j \in 2..Len(s) : s[j] \in Digits[8]
    <3> DEFINE a == After(s, 1)
    <3>1. DOMAIN a = 1..(Len(s) - 1) /\ \A j \in 1..(Len(s) - 1) : a[j] = s[1 + j]
      BY <2>5
    <3> HIDE DEF a
    <3>2. \A j \in 2..Len(s) : j - 1 \in 1..(Len(s) - 1) /\ 1 + (j - 1) = j
      BY <1>1
    <3>3. \A j \in 1..(Len(s) - 1) : 1 + j \in 2..Len(s)
      BY <1>1
    <3>4. \A j \in 2..Len(s) : a[j - 1] = s[j]
      BY <3>1, <3>2
    <3> QED
      BY <3>1, <3>2, <3>3, <3>4 DEF Only, a
  <2> QED
    BY <1>1, <1>3, <2>3, <2>4 DEF IsMarked, OctalForm
<1> QED
  BY <1>1, <1>2, <1>3

LEMMA MarkedIs ==
  ASSUME NEW X, NEW s \in Seq(X), NEW m, NEW radix
  PROVE  IsMarked(s, <<"0", m>>, radix) <=> MarkedForm(s, m, radix)
<1>1. Len(<<"0", m>>) = 2 /\ Len(s) \in Nat
  OBVIOUS
<1>2. CASE Len(s) < 2
  BY <1>1, <1>2 DEF IsMarked, MarkedForm
<1>3. CASE Len(s) > 1
  <2>1. 2 \in 0..Len(s)
    BY <1>1, <1>3
  <2>2. /\ Upto(s, 2) \in Seq(X) /\ Len(Upto(s, 2)) = 2
        /\ \A j \in 1..2 : Upto(s, 2)[j] = s[j]
    BY <2>1, UptoIs
  <2>5. /\ After(s, 2) \in Seq(X) /\ Len(After(s, 2)) = Len(s) - 2
        /\ \A j \in 1..(Len(s) - 2) : After(s, 2)[j] = s[2 + j]
    BY <2>1, AfterIs
  <2>3. Upto(s, 2) = <<"0", m>> <=> s[1] = "0" /\ s[2] = m
    <3> DEFINE a == Upto(s, 2)
    <3>1. a \in Seq(X) /\ Len(a) = 2 /\ a[1] = s[1] /\ a[2] = s[2]
      BY <2>2
    <3> HIDE DEF a
    <3>2. a = <<s[1], s[2]>>
      BY <3>1
    <3> QED
      BY <3>2 DEF a
  <2>4. Only(After(s, 2), Digits[radix]) <=> \A j \in 3..Len(s) : s[j] \in Digits[radix]
    <3> DEFINE a == After(s, 2)
    <3>1. DOMAIN a = 1..(Len(s) - 2) /\ \A j \in 1..(Len(s) - 2) : a[j] = s[2 + j]
      BY <2>5
    <3> HIDE DEF a
    <3>2. \A j \in 3..Len(s) : j - 2 \in 1..(Len(s) - 2) /\ 2 + (j - 2) = j
      BY <1>1
    <3>3. \A j \in 1..(Len(s) - 2) : 2 + j \in 3..Len(s)
      BY <1>1
    <3>4. \A j \in 3..Len(s) : a[j - 2] = s[j]
      BY <3>1, <3>2
    <3> QED
      BY <3>1, <3>2, <3>3, <3>4 DEF Only, a
  <2> QED
    BY <1>1, <1>3, <2>3, <2>4 DEF IsMarked, MarkedForm
<1> QED
  BY <1>1, <1>2, <1>3

LEMMA LeftIs ==
  ASSUME NEW X, NEW s \in Seq(X), NEW signed \in BOOLEAN
  PROVE  IsLeft(s, signed) <=> LeftForm(s, signed)
<1>1. /\ Len(s) \in Nat /\ DOMAIN s = 1..Len(s) /\ (s = <<>> <=> Len(s) = 0)
      /\ (s = <<"0">> <=> Len(s) = 1 /\ s[1] = "0")
  OBVIOUS
<1>2. "0" \in Digits[10]
  BY DigitsAre
<1>3. IsDecimal(s) <=> DecimalForm(s)
  BY DecimalIs
<1> QED
  BY <1>1, <1>2, <1>3 DEF IsLeft, DecimalForm, LeftForm, Only

(* The point of a float is where its left part ends.                       *)
LEMMA PointIs ==
  ASSUME NEW X, NEW s \in Seq(X), NEW signed, NEW p, FloatForm(s, signed, p)
  PROVE  Before(s, {"."}) = p - 1 /\ Left(s) = Upto(s, p - 1) /\ Right(s) = After(s, p)
<1>1. Len(s) \in Nat /\ p \in 1..Len(s) /\ s[p] = "."
  BY DEF FloatForm
<1>2. PICK k \in 0..Len(s) : k = p - 1 /\ k + 1 = p
  BY <1>1
<1>3. \A j \in 1..Len(s) : j <= k => s[j] \in Digits[10]
  BY <1>2 DEF FloatForm
<1>4. IsFirst(s, {"."}, k)
  BY <1>1, <1>2, <1>3, DigitsAre DEF IsFirst
<1>5. Before(s, {"."}) = k
  BY <1>1, <1>4, BeforeOnly
<1> QED
  BY <1>2, <1>5 DEF Left, Right

LEMMA FloatIs ==
  ASSUME NEW X, NEW s \in Seq(X), NEW signed \in BOOLEAN
  PROVE  IsFloat(s, signed) <=> \E p \in 1..Len(s) : FloatForm(s, signed, p)
<1>1. Len(s) \in Nat
  OBVIOUS
<1> DEFINE k == Before(s, {"."})
<1>2. IsFirst(s, {"."}, k)
  BY <1>1, BeforeIs
<1>3. Left(s) = Upto(s, k) /\ Right(s) = After(s, k + 1)
  BY DEF Left, Right
<1>4. (\E p \in 1..Len(s) : FloatForm(s, signed, p)) => FloatForm(s, signed, k + 1) /\ k < Len(s)
  <2> SUFFICES ASSUME NEW p \in 1..Len(s), FloatForm(s, signed, p)
               PROVE  FloatForm(s, signed, k + 1) /\ k < Len(s)
    OBVIOUS
  <2>1. k = p - 1
    BY PointIs
  <2>2. k + 1 = p /\ k < Len(s)
    BY <1>1, <2>1
  <2> QED
    BY <2>2
<1>5. IsFloat(s, signed) <=> /\ k < Len(s) /\ Only(Right(s), Digits[10])
                             /\ IsLeft(Left(s), signed)
  BY DEF IsFloat
<1> HIDE DEF k
<1>6. CASE k >= Len(s)
  BY <1>1, <1>2, <1>4, <1>5, <1>6 DEF IsFirst
<1>7. CASE k < Len(s)
  <2>1. PICK p \in 1..Len(s) : p = k + 1 /\ k \in 0..Len(s) /\ p \in 0..Len(s)
    BY <1>1, <1>2, <1>7 DEF IsFirst
  <2>2. s[p] = "." /\ \A j \in 1..Len(s) : j <= k => s[j] # "."
    BY <1>2, <1>7, <2>1 DEF IsFirst
  <2> DEFINE a == Upto(s, k)
             b == After(s, p)
  <2>3. /\ a \in Seq(X) /\ Len(a) = k /\ \A j \in 1..k : a[j] = s[j]
    BY <2>1, UptoIs
  <2>4. /\ b \in Seq(X) /\ Len(b) = Len(s) - p /\ \A j \in 1..(Len(s) - p) : b[j] = s[p + j]
    BY <2>1, AfterIs
  <2>5. Left(s) = a /\ Right(s) = b
    BY <1>3, <2>1
  <2> HIDE DEF a, b
  <2>6. Only(b, Digits[10]) <=> \A j \in 1..Len(s) : j > p => s[j] \in Digits[10]
    <3>1. DOMAIN b = 1..(Len(s) - p)
      BY <2>4
    <3>2. \A j \in 1..Len(s) : j > p => j - p \in 1..(Len(s) - p) /\ p + (j - p) = j
      BY <1>1, <2>1
    <3>3. \A j \in 1..(Len(s) - p) : p + j \in 1..Len(s) /\ p + j > p
      BY <1>1, <2>1
    <3>4. \A j \in 1..Len(s) : j > p => b[j - p] = s[j]
      BY <2>4, <3>2
    <3> QED
      BY <2>4, <3>1, <3>2, <3>3, <3>4 DEF Only
  <2>7. IsLeft(a, signed) <=> LeftForm(a, signed)
    BY <2>3, LeftIs
  <2>8. \A j : j \in 1..k <=> j \in 1..Len(s) /\ j < p
    BY <1>1, <2>1
  <2>9. LeftForm(a, signed) <=>
          /\ \A j \in 1..Len(s) : j < p => s[j] \in Digits[10]
          /\ p < 3 \/ s[1] # "0" \/ (signed /\ \A j \in 1..Len(s) : j < p => s[j] = "0")
    <3>1. k < 2 <=> p < 3
      BY <2>1
    <3>2. p >= 3 => a[1] = s[1]
      BY <2>1, <2>3
    <3>3. (\A j \in 1..Len(a) : a[j] \in Digits[10])
            <=> \A j \in 1..Len(s) : j < p => s[j] \in Digits[10]
      BY <2>3, <2>8
    <3>4. (\A j \in 1..Len(a) : a[j] = "0") <=> \A j \in 1..Len(s) : j < p => s[j] = "0"
      BY <2>3, <2>8
    <3> QED
      BY <2>3, <3>1, <3>2, <3>3, <3>4 DEF LeftForm
  <2>10. FloatForm(s, signed, p) <=>
           /\ \A j \in 1..Len(s) : j > p => s[j] \in Digits[10]
           /\ \A j \in 1..Len(s) : j < p => s[j] \in Digits[10]
           /\ p < 3 \/ s[1] # "0" \/ (signed /\ \A j \in 1..Len(s) : j < p => s[j] = "0")
    <3>1. \A j \in 1..Len(s) : j # p <=> j > p \/ j < p
      BY <1>1, <2>1
    <3> QED
      BY <2>2, <3>1 DEF FloatForm
  <2> QED
    BY <1>4, <1>5, <1>7, <2>1, <2>5, <2>6, <2>7, <2>9, <2>10
<1> QED
  BY <1>1, <1>2, <1>6, <1>7 DEF IsFirst

(* A numeral has one form at most, which gives its value.                  *)
Formed(s, signed) ==
  \/ DecimalForm(s)
  \/ ~signed /\ (OctalForm(s) \/ MarkedForm(s, "b", 2) \/ MarkedForm(s, "x", 16))
  \/ \E p \in 1..Len(s) : FloatForm(s, signed, p)

LEMMA NumeralIs ==
  ASSUME NEW X, NEW s \in Seq(X), NEW signed \in BOOLEAN
  PROVE  /\ DecimalForm(s) => Numeral(s, signed) = Uint(Number(s, 10))
         /\ ~signed /\ OctalForm(s) => Numeral(s, signed) = Uint(Number(After(s, 1), 8))
         /\ ~signed /\ MarkedForm(s, "b", 2) =>
              Numeral(s, signed) = Uint(Number(After(s, 2), 2))
         /\ ~signed /\ MarkedForm(s, "x", 16) =>
              Numeral(s, signed) = Uint(Number(After(s, 2), 16))
         /\ (\E p \in 1..Len(s) : FloatForm(s, signed, p)) => Numeral(s, signed) = Float(s)
         /\ ~Formed(s, signed) => Numeral(s, signed) = NotANumber
<1> DEFINE dec == IsDecimal(s)
           oct == ~signed /\ IsMarked(s, <<"0">>, 8)
           bin == ~signed /\ IsMarked(s, <<"0", "b">>, 2)
           hex == ~signed /\ IsMarked(s, <<"0", "x">>, 16)
           flo == IsFloat(s, signed)
<1>1. Numeral(s, signed) =
        CASE dec -> Uint(Number(s, 10))
          [] oct -> Uint(Number(After(s, 1), 8))
          [] bin -> Uint(Number(After(s, 2), 2))
          [] hex -> Uint(Number(After(s, 2), 16))
          [] flo -> Float(s)
          [] OTHER -> NotANumber
  BY DEF Numeral
<1>2. /\ dec <=> DecimalForm(s)
      /\ oct <=> ~signed /\ OctalForm(s)
      /\ bin <=> ~signed /\ MarkedForm(s, "b", 2)
      /\ hex <=> ~signed /\ MarkedForm(s, "x", 16)
      /\ flo <=> \E p \in 1..Len(s) : FloatForm(s, signed, p)
  BY DecimalIs, OctalIs, MarkedIs, FloatIs
<1> HIDE DEF dec, oct, bin, hex, flo
<1>3. Len(s) \in Nat
  OBVIOUS
<1>4. dec => ~oct /\ ~bin /\ ~hex
  BY <1>2 DEF DecimalForm, OctalForm, MarkedForm
<1>5. oct => ~bin /\ ~hex
  <2>1. Len(s) > 1 => 2 \in 2..Len(s)
    BY <1>3
  <2> QED
    BY <1>2, <2>1, DigitsAre DEF OctalForm, MarkedForm
<1>6. ~(bin /\ hex)
  BY <1>2 DEF MarkedForm
<1>7. flo => ~dec /\ ~oct /\ ~bin /\ ~hex
  <2> SUFFICES ASSUME flo PROVE ~dec /\ ~oct /\ ~bin /\ ~hex
    OBVIOUS
  <2>1. PICK p \in 1..Len(s) : FloatForm(s, signed, p)
    BY <1>2
  <2>2. s[p] = "."
    BY <2>1 DEF FloatForm
  <2>3. p = 1 \/ p = 2 \/ p \in 3..Len(s)
    BY <1>3
  <2>4. p # 1 => p \in 2..Len(s)
    BY <1>3
  <2> QED
    BY <1>2, <2>2, <2>3, <2>4, DigitsAre DEF DecimalForm, OctalForm, MarkedForm
<1>8. /\ dec => Numeral(s, signed) = Uint(Number(s, 10))
      /\ oct => Numeral(s, signed) = Uint(Number(After(s, 1), 8))
      /\ bin => Numeral(s, signed) = Uint(Number(After(s, 2), 2))
      /\ hex => Numeral(s, signed) = Uint(Number(After(s, 2), 16))
      /\ flo => Numeral(s, signed) = Float(s)
      /\ ~dec /\ ~oct /\ ~bin /\ ~hex /\ ~flo => Numeral(s, signed) = NotANumber
  BY <1>1, <1>4, <1>5, <1>6, <1>7
<1> QED
  BY <1>2, <1>8 DEF Formed

(* A character more, and what it does to the forms.                        *)
LEMMA FormsGrow ==
  ASSUME NEW X, NEW s \in Seq(X), NEW d \in X, NEW signed \in BOOLEAN
  PROVE  /\ Len(s) = 0 /\ d \in Digits[10] \ {"0"} => DecimalForm(Append(s, d))
         /\ DecimalForm(s) /\ d \in Digits[10] => DecimalForm(Append(s, d))
         /\ OctalForm(s) /\ d \in Digits[8] => OctalForm(Append(s, d))
         /\ \A m \in {"b", "x"} : Len(s) = 1 /\ s[1] = "0" /\ d = m =>
              \A radix \in {2, 16} : MarkedForm(Append(s, d), m, radix)
         /\ \A m \in {"b", "x"}, radix \in {2, 16} :
              MarkedForm(s, m, radix) /\ d \in Digits[radix] =>
                MarkedForm(Append(s, d), m, radix)
         /\ LeftForm(s, signed) /\ d = "." => FloatForm(Append(s, d), signed, Len(s) + 1)
         /\ \A p \in 1..Len(s) : FloatForm(s, signed, p) /\ d \in Digits[10] =>
              FloatForm(Append(s, d), signed, p)
<1> DEFINE t == Append(s, d)
<1>1. /\ Len(t) = Len(s) + 1 /\ Len(s) \in Nat
      /\ \A j \in 1..Len(s) : t[j] = s[j]
      /\ t[Len(s) + 1] = d
  BY AppendAt
<1> HIDE DEF t
<1>2. \A j \in 1..Len(t) : j \in 1..Len(s) \/ j = Len(s) + 1
  BY <1>1
<1>3. Len(s) = 0 /\ d \in Digits[10] \ {"0"} => DecimalForm(t)
  BY <1>1, <1>2 DEF DecimalForm
<1>4. DecimalForm(s) /\ d \in Digits[10] => DecimalForm(t)
  BY <1>1, <1>2 DEF DecimalForm
<1>5. OctalForm(s) /\ d \in Digits[8] => OctalForm(t)
  BY <1>1, <1>2 DEF OctalForm
<1>6. ASSUME NEW m \in {"b", "x"}, NEW radix \in {2, 16}
      PROVE  /\ Len(s) = 1 /\ s[1] = "0" /\ d = m => MarkedForm(t, m, radix)
             /\ MarkedForm(s, m, radix) /\ d \in Digits[radix] => MarkedForm(t, m, radix)
  BY <1>1, <1>2 DEF MarkedForm
<1>7. LeftForm(s, signed) /\ d = "." => FloatForm(t, signed, Len(s) + 1)
  <2> SUFFICES ASSUME LeftForm(s, signed), d = "." PROVE FloatForm(t, signed, Len(s) + 1)
    OBVIOUS
  <2>1. Len(s) + 1 \in 1..Len(t) /\ t[Len(s) + 1] = "."
    BY <1>1
  <2>2. \A j \in 1..Len(t) : j # Len(s) + 1 => t[j] \in Digits[10]
    BY <1>1, <1>2 DEF LeftForm
  <2>3. \/ Len(s) + 1 < 3 \/ t[1] # "0"
        \/ signed /\ \A j \in 1..Len(t) : j < Len(s) + 1 => t[j] = "0"
    <3>1. CASE Len(s) < 2
      BY <1>1, <3>1
    <3>2. CASE Len(s) >= 2 /\ s[1] # "0"
      <4>1. 1 \in 1..Len(s)
        BY <1>1, <3>2
      <4> QED
        BY <1>1, <3>2, <4>1
    <3>3. CASE signed /\ \A j \in 1..Len(s) : s[j] = "0"
      BY <1>1, <1>2, <3>3
    <3> QED
      BY <1>1, <3>1, <3>2, <3>3 DEF LeftForm
  <2> QED
    BY <2>1, <2>2, <2>3 DEF FloatForm
<1>8. ASSUME NEW p \in 1..Len(s), FloatForm(s, signed, p), d \in Digits[10]
      PROVE  FloatForm(t, signed, p)
  <2>1. p \in 1..Len(t) /\ t[p] = "." /\ 1 \in 1..Len(s)
    BY <1>1, <1>8 DEF FloatForm
  <2>2. \A j \in 1..Len(t) : j # p => t[j] \in Digits[10]
    BY <1>1, <1>2, <1>8 DEF FloatForm
  <2>3. p < 3 \/ t[1] # "0" \/ (signed /\ \A j \in 1..Len(t) : j < p => t[j] = "0")
    <3>1. \A j \in 1..Len(t) : j < p => j \in 1..Len(s)
      BY <1>1
    <3> QED
      BY <1>1, <1>8, <2>1, <3>1 DEF FloatForm
  <2> QED
    BY <2>1, <2>2, <2>3 DEF FloatForm
<1> QED
  BY <1>3, <1>4, <1>5, <1>6, <1>7, <1>8 DEF t

-----------------------------------------------------------------------------
(* The value, as a digit more is added.                                    *)
AllDigits(s, radix) == \A j \in 1..Len(s) : s[j] \in Digits[radix]

LEMMA NumberType ==
  ASSUME NEW X, NEW s \in Seq(X), NEW radix \in {2, 8, 10, 16}, AllDigits(s, radix)
  PROVE  Number(s, radix) \in Nat
<1>1. Len(s) \in Nat
  OBVIOUS
<1>2. Digits[radix] \subseteq Digits[16]
  BY DigitsAre
<1>3. \A j \in 1..Len(s) : Value[s[j]] \in Nat
  BY <1>2, DigitsAre DEF AllDigits
<1> QED
  BY <1>1, <1>3, ExtendedType DEF Number

LEMMA Accumulates ==
  ASSUME NEW X, NEW s \in Seq(X), NEW d \in X, NEW radix \in {2, 8, 10, 16},
         AllDigits(s, radix), d \in Digits[radix]
  PROVE  ((Number(s, radix) % Size) * radix + Value[d]) % Size
           = Number(Append(s, d), radix) % Size
<1>1. PICK n \in Nat : n = Number(s, radix)
  BY NumberType
<1>2. Number(Append(s, d), radix) = n * radix + Value[d]
  BY <1>1, ExtendedByOne DEF Number
<1>3. Value[d] \in Nat
  <2>1. Digits[radix] \subseteq Digits[16]
    BY DigitsAre
  <2> QED
    BY <2>1, DigitsAre
<1>4. ((n % Size) * radix + Value[d]) % Size = (n * radix + Value[d]) % Size
  <2>1. radix \in Nat
    OBVIOUS
  <2> QED
    BY <1>3, <2>1, ModuloStep
<1> QED
  BY <1>1, <1>2, <1>4, Zenon

LEMMA MarkedAccumulates ==
  ASSUME NEW X, NEW s \in Seq(X), NEW d \in X, NEW radix \in {2, 8, 10, 16},
         NEW k \in 1..2, k <= Len(s), \A j \in 1..Len(s) : j > k => s[j] \in Digits[radix],
         d \in Digits[radix]
  PROVE  ((Number(After(s, k), radix) % Size) * radix + Value[d]) % Size
           = Number(After(Append(s, d), k), radix) % Size
<1>1. k \in 0..Len(s) /\ Len(s) \in Nat
  OBVIOUS
<1>2. /\ After(s, k) \in Seq(X) /\ Len(After(s, k)) = Len(s) - k
      /\ \A j \in 1..(Len(s) - k) : After(s, k)[j] = s[k + j]
  <2>1. After(s, k) \in Seq(X) /\ Len(After(s, k)) = Len(s) - k
    BY <1>1, AfterIs
  <2>2. \A j \in 1..(Len(s) - k) : After(s, k)[j] = s[k + j]
    BY <1>1, AfterIs
  <2> QED
    BY <2>1, <2>2
<1>3. After(Append(s, d), k) = Append(After(s, k), d)
  BY <1>1, AfterAppended
<1> DEFINE a == After(s, k)
<1>4. a \in Seq(X) /\ Len(a) = Len(s) - k /\ \A j \in 1..(Len(s) - k) : a[j] = s[k + j]
  BY <1>2
<1>6. After(Append(s, d), k) = Append(a, d)
  BY <1>3
<1> HIDE DEF a
<1>7. \A j \in 1..(Len(s) - k) : k + j \in 1..Len(s) /\ k + j > k
  BY <1>1
<1>5. AllDigits(a, radix)
  BY <1>4, <1>7 DEF AllDigits
<1>8. ((Number(a, radix) % Size) * radix + Value[d]) % Size = Number(Append(a, d), radix) % Size
  BY <1>4, <1>5, Accumulates
<1> QED
  BY <1>6, <1>8 DEF a

LEMMA FloatStarts ==
  ASSUME NEW X, NEW s \in Seq(X), "." \in X, NEW signed \in BOOLEAN, LeftForm(s, signed)
  PROVE  Float(Append(s, ".")) = [val |-> Number(s, 10) % Size, by |-> 1, is_float |-> TRUE]
<1> DEFINE t == Append(s, ".")
           p == Len(s) + 1
<1>1. t \in Seq(X) /\ Len(t) = p /\ Len(s) \in Nat
  BY AppendAt
<1>2. FloatForm(t, signed, p)
  BY FormsGrow
<1>3. Upto(t, Len(s)) = s
  <2>1. Len(s) \in 0..Len(s)
    BY <1>1
  <2>2. Upto(t, Len(s)) = Upto(s, Len(s))
    BY <2>1, UptoAppended
  <2> QED
    BY <2>2, UptoAll
<1> HIDE DEF t
<1>4. PICK q : q = p
  OBVIOUS
<1>5. Left(t) = Upto(t, q - 1) /\ Right(t) = After(t, q)
  BY <1>1, <1>2, <1>4, PointIs
<1>6. q - 1 = Len(s) /\ q \in 0..Len(t) /\ Len(t) - q = 0
  BY <1>1, <1>4
<1>7. After(t, q) \in Seq(X) /\ Len(After(t, q)) = Len(t) - q
  BY <1>1, <1>6, AfterIs
<1>8. Right(t) = <<>>
  BY <1>5, <1>6, <1>7
<1>9. Extended(Number(s, 10) % Size, <<>>, 10) = Number(s, 10) % Size
  BY ExtendedEmpty
<1>10. Power(<<>>) = 1
  <2>1. [k \in DOMAIN <<>> |-> "0"] = <<>>
    OBVIOUS
  <2>2. Extended(1, <<>>, 10) = 1
    BY ExtendedEmpty
  <2> QED
    BY <2>1, <2>2 DEF Power
<1> QED
  BY <1>3, <1>5, <1>6, <1>8, <1>9, <1>10 DEF Float, t

LEMMA FloatGrows ==
  ASSUME NEW X, NEW s \in Seq(X), NEW d \in X, NEW signed \in BOOLEAN, NEW p \in 1..Len(s),
         FloatForm(s, signed, p), d \in Digits[10]
  PROVE  /\ Float(Append(s, d)).val = Float(s).val * 10 + Value[d]
         /\ Float(Append(s, d)).by = Float(s).by * 10
<1> DEFINE t == Append(s, d)
           l == Upto(s, p - 1)
           r == After(s, p)
<1>1. t \in Seq(X) /\ Len(t) = Len(s) + 1 /\ Len(s) \in Nat
  BY AppendAt
<1>2. FloatForm(t, signed, p)
  BY FormsGrow
<1>3. PICK k : k = p - 1 /\ k \in 0..Len(s) /\ p \in 0..Len(s) /\ p \in 1..Len(t)
  BY <1>1
<1>4. Left(s) = l /\ Right(s) = r
  BY PointIs
<1>5. Left(t) = Upto(t, p - 1) /\ Right(t) = After(t, p)
  BY <1>1, <1>2, PointIs
<1>6. Upto(t, k) = Upto(s, k)
  BY <1>3, UptoAppended
<1>7. After(t, p) = Append(r, d)
  BY <1>3, AfterAppended
<1>8. r \in Seq(X)
  BY <1>3, AfterIs
<1>9. Left(t) = l /\ Right(t) = Append(r, d)
  BY <1>3, <1>5, <1>6, <1>7
<1> HIDE DEF t, l, r
<1> DEFINE n == Number(l, 10) % Size
<1> HIDE DEF n
<1>10. Extended(n, Append(r, d), 10) = Extended(n, r, 10) * 10 + Value[d]
  BY <1>8, ExtendedByOne
<1>11. Power(Append(r, d)) = Power(r) * 10
  BY <1>8, PowerByOne
<1>12. /\ Float(s) = [val |-> Extended(n, r, 10), by |-> Power(r), is_float |-> TRUE]
       /\ Float(t) = [val |-> Extended(n, Append(r, d), 10), by |-> Power(Append(r, d)),
                      is_float |-> TRUE]
  BY <1>4, <1>9 DEF Float, n
<1> QED
  BY <1>10, <1>11, <1>12 DEF t

-----------------------------------------------------------------------------
(* The parts of a text, and the place the reading is at.                   *)
Start(t) == IF Signed(t) THEN Blanks(t) + 1 ELSE Blanks(t)
Stem(t) == Upto(Body(t), NumeralEnd(Body(t)))
TailPart(t) == After(Body(t), NumeralEnd(Body(t)))
Enders == PrefixChars \union {Blank}

(* k characters of the body are read, they are s, and d comes next.        *)
At(t, k, s, d) ==
  /\ k \in 0..Len(Body(t)) /\ s = Upto(Body(t), k)
  /\ s \in Seq(Alphabet) /\ Len(s) = k
  /\ d = Null <=> k = Len(Body(t))
  /\ d # Null => d \in Alphabet /\ d = Body(t)[k + 1]

LEMMA CharsAre ==
  /\ PrefixChars = {"k", "M"}
  /\ Enders = {"k", "M", Blank}
  /\ Null \notin Alphabet /\ Null \notin Enders
  /\ \A r \in {2, 8, 10, 16} : Null \notin Digits[r] /\ "." \notin Digits[r]
                               /\ \A e \in Enders : e \notin Digits[r]
  /\ \A p \in PrefixChars : Prefix[p] \in Nat \ {0} /\ BinPrefix[p] \in Nat \ {0}
<1>1. PrefixChars = {"k", "M"}
  BY SMT DEF PrefixChars, Prefix
<1>2. Null \notin Alphabet
  BY NumberAssumption DEF Null, Blank
<1>3. \A p \in {"k", "M"} : Prefix[p] \in Nat \ {0} /\ BinPrefix[p] \in Nat \ {0}
  BY SMT DEF Prefix, BinPrefix
<1>4. Null \notin {"k", "M", Blank}
  BY DEF Null, Blank
<1>5. \A r \in {2, 8, 10, 16} : Null \notin Digits[r] /\ "." \notin Digits[r]
                               /\ \A e \in {"k", "M", Blank} : e \notin Digits[r]
  <2>1. \A r \in {2, 8, 10, 16} : Digits[r] \subseteq {"0", "1", "7", "9", "a", "b"}
    BY DigitsAre
  <2> QED
    BY <2>1 DEF Null, Blank
<1> QED
  BY <1>1, <1>2, <1>3, <1>4, <1>5 DEF Enders

LEMMA BodyIs ==
  ASSUME NEW t \in Seq(Alphabet)
  PROVE  /\ Blanks(t) \in 0..Len(t) /\ Start(t) \in 0..Len(t) /\ Signed(t) \in BOOLEAN
         /\ Body(t) \in Seq(Alphabet) /\ Len(Body(t)) = Len(t) - Start(t)
         /\ \A j \in 1..(Len(t) - Start(t)) : Body(t)[j] = t[Start(t) + j]
         /\ Blanks(t) < Len(t) => t[Blanks(t) + 1] # Blank
<1>1. Len(t) \in Nat
  OBVIOUS
<1>2. IsFirst(t, Alphabet \ {Blank}, Blanks(t))
  BY <1>1, BeforeIs DEF Blanks
<1> DEFINE b == Blanks(t)
           st == Start(t)
<1>3. b \in 0..Len(t) /\ (b < Len(t) => t[b + 1] # Blank)
  BY <1>2 DEF IsFirst
<1>4. Signed(t) <=> b < Len(t) /\ t[b + 1] \in {"-", "+"}
  BY DEF Signed
<1>5. st = IF Signed(t) THEN b + 1 ELSE b
  BY DEF Start
<1>6. Body(t) = After(t, st)
  BY DEF Body, Start
<1> HIDE DEF b, st
<1>7. st \in 0..Len(t)
  <2>1. CASE Signed(t)
    <3>1. st = b + 1 /\ b < Len(t)
      BY <1>4, <1>5, <2>1
    <3> QED
      BY <1>1, <1>3, <3>1
  <2>2. CASE ~Signed(t)
    BY <1>3, <1>5, <2>2
  <2> QED
    BY <2>1, <2>2
<1>8. /\ After(t, st) \in Seq(Alphabet) /\ Len(After(t, st)) = Len(t) - st
      /\ \A j \in 1..(Len(t) - st) : After(t, st)[j] = t[st + j]
  BY <1>7, AfterIs
<1>9. Signed(t) \in BOOLEAN
  BY DEF Signed
<1> QED
  BY <1>3, <1>6, <1>7, <1>8, <1>9 DEF b, st

(* The blanks, when the reading has passed them.                           *)
LEMMA BlanksPassed ==
  ASSUME NEW t \in Seq(Alphabet), NEW k \in 0..Len(t),
         \A j \in 1..Len(t) : j <= k => t[j] = Blank, k < Len(t) => t[k + 1] # Blank
  PROVE  Blanks(t) = k
<1>1. Len(t) \in Nat /\ \A j \in 1..Len(t) : t[j] \in Alphabet
  BY LenProperties, ElementOfSeq
<1>2. k < Len(t) => k + 1 \in 1..Len(t)
  <2> SUFFICES ASSUME k < Len(t) PROVE k + 1 \in 1..Len(t)
    OBVIOUS
  <2>1. k \in Nat
    BY <1>1
  <2> QED
    BY <1>1, <2>1
<1>3. IsFirst(t, Alphabet \ {Blank}, k)
  BY <1>1, <1>2 DEF IsFirst
<1> QED
  BY <1>1, <1>3, BeforeOnly DEF Blanks

LEMMA StemIs ==
  ASSUME NEW t \in Seq(Alphabet)
  PROVE  /\ NumeralEnd(Body(t)) \in 0..Len(Body(t))
         /\ Stem(t) \in Seq(Alphabet) /\ Len(Stem(t)) = NumeralEnd(Body(t))
         /\ \A j \in 1..NumeralEnd(Body(t)) : Stem(t)[j] = Body(t)[j]
         /\ TailPart(t) \in Seq(Alphabet)
         /\ Len(TailPart(t)) = Len(Body(t)) - NumeralEnd(Body(t))
         /\ \A j \in 1..(Len(Body(t)) - NumeralEnd(Body(t))) :
              TailPart(t)[j] = Body(t)[NumeralEnd(Body(t)) + j]
<1> DEFINE u == Body(t)
           e == NumeralEnd(u)
<1>1. u \in Seq(Alphabet) /\ Len(u) \in Nat
  <2>1. u \in Seq(Alphabet)
    BY BodyIs
  <2> QED
    BY <2>1, LenProperties
<1>2. IsFirst(u, Enders, e)
  BY <1>1, BeforeIs DEF NumeralEnd, Enders
<1>3. Stem(t) = Upto(u, e) /\ TailPart(t) = After(u, e)
  BY DEF Stem, TailPart
<1> HIDE DEF u, e
<1>4. e \in 0..Len(u)
  BY <1>2 DEF IsFirst
<1>5. Upto(u, e) \in Seq(Alphabet) /\ Len(Upto(u, e)) = e /\ \A j \in 1..e : Upto(u, e)[j] = u[j]
  BY <1>1, <1>4, UptoIs
<1>6. /\ After(u, e) \in Seq(Alphabet) /\ Len(After(u, e)) = Len(u) - e
      /\ \A j \in 1..(Len(u) - e) : After(u, e)[j] = u[e + j]
  BY <1>1, <1>4, AfterIs
<1> QED
  BY <1>3, <1>4, <1>5, <1>6 DEF u, e

(* At a blank, a prefix or the end the numeral is what was read, ...       *)
Plain(s) == \A j \in 1..Len(s) : s[j] \notin Enders

LEMMA EndsHere ==
  ASSUME NEW t \in Seq(Alphabet), NEW k, NEW s, NEW d, At(t, k, s, d), Plain(s),
         d \in {Null} \union Enders
  PROVE  /\ NumeralEnd(Body(t)) = k /\ Stem(t) = s
         /\ d = Null => TailPart(t) = <<>>
         /\ d # Null => Len(TailPart(t)) > 0 /\ TailPart(t)[1] = d
<1> DEFINE u == Body(t)
<1>1. u \in Seq(Alphabet) /\ Len(u) \in Nat
  <2>1. u \in Seq(Alphabet)
    BY BodyIs
  <2> QED
    BY <2>1, LenProperties
<1>2. /\ k \in 0..Len(u) /\ s = Upto(u, k) /\ Len(s) = k
      /\ d = Null <=> k = Len(u)
      /\ d # Null => d = u[k + 1]
  BY DEF At
<1>3. TailPart(t) = After(u, NumeralEnd(u)) /\ Stem(t) = Upto(u, NumeralEnd(u))
  BY DEF Stem, TailPart
<1>7. NumeralEnd(u) = Before(u, Enders)
  BY DEF NumeralEnd, Enders
<1> HIDE DEF u
<1>4. \A j \in 1..k : Upto(u, k)[j] = u[j]
  BY <1>1, <1>2, UptoIs
<1>5. IsFirst(u, Enders, k)
  <2>1. \A j \in 1..Len(u) : j <= k => j \in 1..k
    BY <1>2
  <2> QED
    BY <1>1, <1>2, <1>4, <2>1 DEF IsFirst, Plain
<1>6. NumeralEnd(u) = k
  BY <1>1, <1>5, <1>7, BeforeOnly
<1>8. /\ After(u, k) \in Seq(Alphabet) /\ Len(After(u, k)) = Len(u) - k
      /\ \A j \in 1..(Len(u) - k) : After(u, k)[j] = u[k + j]
  BY <1>1, <1>2, AfterIs
<1>9. d = Null => After(u, k) = <<>>
  BY <1>1, <1>2, <1>8
<1>10. ASSUME d # Null PROVE Len(After(u, k)) > 0 /\ After(u, k)[1] = d
  <2>1. 1 \in 1..(Len(u) - k) /\ Len(u) - k > 0
    BY <1>1, <1>2, <1>10
  <2> QED
    BY <1>2, <1>8, <1>10, <2>1
<1> QED
  BY <1>2, <1>3, <1>6, <1>9, <1>10 DEF u

(* ... and otherwise it goes on.                                           *)
Continued(s, d, r) ==
  /\ Len(s) < Len(r) /\ r[Len(s) + 1] = d
  /\ \A j \in 1..Len(s) : r[j] = s[j]

LEMMA GoesOn ==
  ASSUME NEW t \in Seq(Alphabet), NEW k, NEW s, NEW d, At(t, k, s, d), Plain(s),
         d \notin {Null} \union Enders
  PROVE  Continued(s, d, Stem(t))
<1> DEFINE u == Body(t)
           e == NumeralEnd(u)
           r == Stem(t)
<1>1. u \in Seq(Alphabet) /\ Len(u) \in Nat
  <2>1. u \in Seq(Alphabet)
    BY BodyIs
  <2> QED
    BY <2>1, LenProperties
<1>2. /\ k \in 0..Len(u) /\ s = Upto(u, k) /\ Len(s) = k /\ k # Len(u) /\ d = u[k + 1]
  BY DEF At
<1>3. /\ e \in 0..Len(u) /\ Len(r) = e /\ \A j \in 1..e : r[j] = u[j]
  BY StemIs
<1>7. IsFirst(u, Enders, e)
  BY <1>1, BeforeIs DEF NumeralEnd, Enders
<1> HIDE DEF u, e, r
<1>4. \A j \in 1..k : s[j] = u[j]
  BY <1>1, <1>2, UptoIs
<1>5. e < Len(u) => u[e + 1] \in Enders
  BY <1>7 DEF IsFirst
<1>6. k < e
  <2> SUFFICES ASSUME e <= k PROVE FALSE
    BY <1>2, <1>3
  <2>1. e < Len(u) /\ u[e + 1] \in Enders
    BY <1>1, <1>2, <1>3, <1>5
  <2>2. CASE e = k
    BY <1>2, <2>1, <2>2
  <2>3. CASE e < k
    <3>1. e + 1 \in 1..k
      BY <1>2, <1>3, <2>3
    <3> QED
      BY <1>2, <1>4, <2>1, <3>1 DEF Plain
  <2> QED
    BY <1>2, <1>3, <2>2, <2>3
<1>8. k + 1 \in 1..e /\ \A j \in 1..k : j \in 1..e
  BY <1>2, <1>3, <1>6
<1> QED
  BY <1>2, <1>3, <1>4, <1>6, <1>8 DEF Continued, r

(* What is no number.                                                      *)
IsRefused(t) == Meaning(t) = [type |-> "CAMIO_NO_TYPE"]

LEMMA MeaningIs ==
  ASSUME NEW t
  PROVE  Meaning(t) = Scaled(Numeral(Stem(t), Signed(t)),
                             Factor(TailPart(t), Stem(t), Numeral(Stem(t), Signed(t))), Minus(t))
BY DEF Meaning, Stem, TailPart

LEMMA Unformed ==
  ASSUME NEW t \in Seq(Alphabet), ~Formed(Stem(t), Signed(t))
  PROVE  IsRefused(t)
<1>1. Numeral(Stem(t), Signed(t)) = NotANumber
  BY BodyIs, StemIs, NumeralIs
<1> QED
  BY <1>1, MeaningIs DEF IsRefused, Scaled, NotANumber

LEMMA BadTail ==
  ASSUME NEW t, \A n : Factor(TailPart(t), Stem(t), n) = 0
  PROVE  IsRefused(t)
BY MeaningIs DEF IsRefused, Scaled

(* Sequences of no form, by the characters that show it.                   *)
LEMMA BadFirst ==
  ASSUME NEW X, NEW r \in Seq(X), NEW signed \in BOOLEAN,
         Len(r) = 0 \/ r[1] \notin Digits[10] \union {"."}
  PROVE  ~Formed(r, signed)
<1>1. Len(r) \in Nat
  OBVIOUS
<1>2. ~DecimalForm(r)
  <2>1. Len(r) > 0 => 1 \in 1..Len(r)
    BY <1>1
  <2> QED
    BY <2>1 DEF DecimalForm
<1>3. ~OctalForm(r) /\ ~MarkedForm(r, "b", 2) /\ ~MarkedForm(r, "x", 16)
  BY DigitsAre DEF OctalForm, MarkedForm
<1>4. ASSUME NEW p \in 1..Len(r), FloatForm(r, signed, p) PROVE FALSE
  <2>1. r[p] = "." /\ \A j \in 1..Len(r) : j # p => r[j] \in Digits[10]
    BY <1>4 DEF FloatForm
  <2>2. 1 \in 1..Len(r)
    BY <1>1
  <2> QED
    BY <1>1, <2>1, <2>2
<1> QED
  BY <1>2, <1>3, <1>4 DEF Formed

LEMMA BadZeros ==
  ASSUME NEW X, NEW r \in Seq(X), NEW l \in 1..Len(r), \A j \in 1..l : r[j] = "0",
         l = Len(r) \/ r[l + 1] \notin {"0", "."}
  PROVE  ~Formed(r, TRUE)
<1>1. Len(r) \in Nat /\ 1 \in 1..l /\ r[1] = "0" /\ l \in Nat
  OBVIOUS
<1>2. ~DecimalForm(r)
  BY <1>1 DEF DecimalForm
<1>3. ASSUME NEW p \in 1..Len(r), FloatForm(r, TRUE, p) PROVE FALSE
  <2>1. r[p] = "." /\ (p < 3 \/ \A j \in 1..Len(r) : j < p => r[j] = "0")
    BY <1>1, <1>3 DEF FloatForm
  <2>2. p \notin 1..l
    BY <2>1
  <2>3. l # Len(r) /\ p # l + 1
    BY <1>1, <2>1, <2>2
  <2>4. l + 1 \in 1..Len(r) /\ l + 1 < p /\ ~(p < 3)
    BY <1>1, <2>2, <2>3
  <2> QED
    BY <2>1, <2>3, <2>4
<1> QED
  BY <1>2, <1>3 DEF Formed

(* After a 0 without a sign only what the second character begins.         *)
LEMMA ZeroForms ==
  ASSUME NEW X, NEW r \in Seq(X), Len(r) > 1, r[1] = "0", r[2] # ".", Formed(r, FALSE)
  PROVE  \/ r[2] \in Digits[8] /\ \A j \in 2..Len(r) : r[j] \in Digits[8]
         \/ r[2] = "b" /\ \A j \in 3..Len(r) : r[j] \in Digits[2]
         \/ r[2] = "x" /\ \A j \in 3..Len(r) : r[j] \in Digits[16]
<1>1. Len(r) \in Nat /\ 2 \in 2..Len(r)
  OBVIOUS
<1>2. ~DecimalForm(r)
  BY DEF DecimalForm
<1>3. ASSUME NEW p \in 1..Len(r), FloatForm(r, FALSE, p) PROVE FALSE
  <2>1. r[p] = "." /\ p < 3
    BY <1>3 DEF FloatForm
  <2>2. p = 1 \/ p = 2
    BY <1>1, <2>1
  <2> QED
    BY <2>1, <2>2
<1> QED
  BY <1>1, <1>2, <1>3 DEF Formed, OctalForm, MarkedForm

LEMMA BadDecimal ==
  ASSUME NEW X, NEW r \in Seq(X), NEW signed \in BOOLEAN, Len(r) > 0, r[1] \in Digits[10] \ {"0"},
         NEW q \in 1..Len(r), r[q] \notin Digits[10] \union {"."}
  PROVE  ~Formed(r, signed)
<1>1. ~DecimalForm(r) /\ ~OctalForm(r) /\ ~MarkedForm(r, "b", 2) /\ ~MarkedForm(r, "x", 16)
  BY DEF DecimalForm, OctalForm, MarkedForm
<1>2. ASSUME NEW p \in 1..Len(r), FloatForm(r, signed, p) PROVE FALSE
  BY <1>2 DEF FloatForm
<1> QED
  BY <1>1, <1>2 DEF Formed

LEMMA BadFloat ==
  ASSUME NEW X, NEW r \in Seq(X), NEW signed \in BOOLEAN, NEW p \in 1..Len(r), r[p] = ".",
         NEW q \in 1..Len(r), q # p, r[q] \notin Digits[10]
  PROVE  ~Formed(r, signed)
<1>1. Len(r) \in Nat
  OBVIOUS
<1>2. "." \notin Digits[10] /\ "." \notin Digits[8] /\ "." \notin Digits[2] /\ "." \notin Digits[16]
  BY DigitsAre
<1>3. p = 1 \/ p = 2 \/ p \in 3..Len(r)
  BY <1>1
<1>4. p # 1 => p \in 2..Len(r)
  BY <1>1
<1>5. ~DecimalForm(r) /\ ~OctalForm(r) /\ ~MarkedForm(r, "b", 2) /\ ~MarkedForm(r, "x", 16)
  BY <1>2, <1>3, <1>4 DEF DecimalForm, OctalForm, MarkedForm
<1>6. ASSUME NEW k \in 1..Len(r), FloatForm(r, signed, k) PROVE FALSE
  BY <1>2, <1>6 DEF FloatForm
<1> QED
  BY <1>5, <1>6 DEF Formed

-----------------------------------------------------------------------------
(* The inductive invariant: what a state of the parser says of the         *)
(* characters read.                                                        *)
ReadingStates ==
  {"FOUND_SIGN", "MUST_BE_ZERO_OR_PERIOD", "FOUND_INIT_ZERO", "GET_DEC_DIGITS",
   "GET_OCT_DIGITS", "GET_BIN_DIGITS", "GET_HEX_DIGITS", "GET_FLO_DIGITS"}
Ending == {"END_UINT", "END_FLOAT"}
SignOf(t) == IF Minus(t) THEN -1 ELSE 1

ReadAs(signed, st, a, f, b, s) ==
  /\ Plain(s)
  /\ st = "FOUND_SIGN" => signed /\ Len(s) = 0 /\ a = 0 /\ b = 1
  /\ st = "MUST_BE_ZERO_OR_PERIOD" =>
       /\ signed /\ Len(s) > 0 /\ \A j \in 1..Len(s) : s[j] = "0"
       /\ Number(s, 10) % Size = 0 /\ a = 0 /\ b = 1
  /\ st = "FOUND_INIT_ZERO" => ~signed /\ Len(s) = 1 /\ s[1] = "0" /\ a = 0 /\ b = 1
  /\ st = "GET_DEC_DIGITS" => DecimalForm(s) /\ a = Number(s, 10) % Size /\ b = 1
  /\ st = "GET_OCT_DIGITS" =>
       ~signed /\ OctalForm(s) /\ Len(s) > 1 /\ a = Number(After(s, 1), 8) % Size
  /\ st = "GET_BIN_DIGITS" =>
       ~signed /\ MarkedForm(s, "b", 2) /\ a = Number(After(s, 2), 2) % Size
  /\ st = "GET_HEX_DIGITS" =>
       ~signed /\ MarkedForm(s, "x", 16) /\ a = Number(After(s, 2), 16) % Size
  /\ st = "GET_FLO_DIGITS" =>
       \E p \in 1..Len(s) : FloatForm(s, signed, p) /\ Float(s).val = f /\ Float(s).by = b

(* The numeral is over, and z characters of its tail are read.             *)
EndAs(t, st, a, f, b, pre, z) ==
  /\ z \in 1..Len(TailPart(t))
  /\ \A j \in 2..z : TailPart(t)[j] = Blank
  /\ pre = Null => TailPart(t)[1] = Blank /\ ~DecimalForm(Stem(t)) /\ Stem(t) # <<"0">>
  /\ pre # Null => TailPart(t)[1] = pre /\ pre \in PrefixChars
  /\ st = "END_UINT" =>
       Numeral(Stem(t), Signed(t)) = [val |-> a, by |-> 1, is_float |-> FALSE]
  /\ st = "END_FLOAT" =>
       Numeral(Stem(t), Signed(t)) = [val |-> f, by |-> b, is_float |-> TRUE]

Count == pos - 1 - Start(text)
Consumed == Upto(Body(text), Count)
NumberTyped ==
  /\ text \in Seq(Alphabet)
  /\ pos \in Nat \ {0}
  /\ state \in {"INIT"} \union ReadingStates \union Ending \union Finished
  /\ acc \in 0..(Size - 1) /\ frac \in Nat /\ base \in Nat \ {0} /\ sign \in {-1, 1}
NumberInv ==
  /\ NumberTyped
  /\ state = "INIT" =>
       /\ pos <= Len(text) + 1 /\ \A j \in 1..Len(text) : j < pos => text[j] = Blank
       /\ sign = 1 /\ prefix = Null /\ acc = 0 /\ base = 1
  /\ state \in ReadingStates =>
       /\ Count \in 0..Len(Body(text)) /\ sign = SignOf(text) /\ prefix = Null
       /\ ReadAs(Signed(text), state, acc, frac, base, Consumed)
  /\ state \in Ending =>
       /\ sign = SignOf(text)
       /\ EndAs(text, state, acc, frac, base, prefix, Count - NumeralEnd(Body(text)))
  /\ state \in Finished => num_result = Meaning(text)

(* Where a state in a numeral, or in its tail, is.                         *)
LEMMA Here ==
  ASSUME NumberTyped, Count \in 0..Len(Body(text))
  PROVE  At(text, Count, Consumed, c)
<1>1. text \in Seq(Alphabet) /\ Len(text) \in Nat /\ pos \in Nat
  BY DEF NumberTyped
<1> DEFINE u == Body(text)
           st == Start(text)
<1>2. /\ st \in 0..Len(text) /\ u \in Seq(Alphabet) /\ Len(u) = Len(text) - st
      /\ \A j \in 1..(Len(text) - st) : u[j] = text[st + j]
  BY <1>1, BodyIs
<1>3. Count = pos - 1 - st /\ Consumed = Upto(u, Count) /\ Count \in 0..Len(u)
  BY DEF Count, Consumed
<1> HIDE DEF u, st
<1>4. Consumed \in Seq(Alphabet) /\ Len(Consumed) = Count
  BY <1>2, <1>3, UptoIs
<1>5. pos > Len(text) <=> Count = Len(u)
  BY <1>1, <1>2, <1>3
<1>6. Count # Len(u) => c = u[Count + 1] /\ c \in Alphabet
  <2> SUFFICES ASSUME Count # Len(u) PROVE c = u[Count + 1] /\ c \in Alphabet
    OBVIOUS
  <2>1. Count + 1 \in 1..(Len(text) - st) /\ st + (Count + 1) = pos /\ pos \in 1..Len(text)
    BY <1>1, <1>2, <1>3
  <2>2. u[Count + 1] = text[pos] /\ text[pos] \in Alphabet
    BY <1>1, <1>2, <2>1
  <2> QED
    BY <1>5, <2>2 DEF c
<1>7. c = Null <=> Count = Len(u)
  BY <1>5, <1>6, CharsAre DEF c
<1> QED
  BY <1>3, <1>4, <1>6, <1>7 DEF At, u

Advance == pos' = pos + 1 /\ text' = text

LEMMA AppendOne ==
  ASSUME NEW t \in Seq(Alphabet), NEW k, NEW s, NEW d, At(t, k, s, d), d # Null
  PROVE  k + 1 \in 0..Len(Body(t)) /\ Upto(Body(t), k + 1) = Append(s, d) /\ d \in Alphabet
<1>1. Body(t) \in Seq(Alphabet) /\ Len(Body(t)) \in Nat
  BY BodyIs
<1>2. k \in 0..Len(Body(t)) /\ k < Len(Body(t)) /\ d = Body(t)[k + 1] /\ s = Upto(Body(t), k)
      /\ d \in Alphabet
  BY <1>1 DEF At
<1>3. Upto(Body(t), k + 1) = Append(Upto(Body(t), k), Body(t)[k + 1])
  BY <1>1, <1>2, UptoNext
<1> QED
  BY <1>1, <1>2, <1>3

LEMMA PlainAppended ==
  ASSUME NEW X, NEW s \in Seq(X), NEW d \in X, Plain(s), d \notin Enders
  PROVE  Plain(Append(s, d))
<1>1. /\ Len(Append(s, d)) = Len(s) + 1 /\ Len(s) \in Nat
      /\ \A j \in 1..Len(s) : Append(s, d)[j] = s[j]
      /\ Append(s, d)[Len(s) + 1] = d
  BY AppendAt
<1> DEFINE t == Append(s, d)
<1> HIDE DEF t
<1>2. \A j \in 1..Len(t) : j \in 1..Len(s) \/ j = Len(s) + 1
  BY <1>1 DEF t
<1>3. \A j \in 1..Len(t) : t[j] \notin Enders
  BY <1>1, <1>2 DEF Plain, t
<1> QED
  BY <1>3 DEF Plain, t

(* The outcomes of a step.                                                 *)
LEMMA ToNone ==
  ASSUME NumberTyped, Advance, Goto("NONE"), IsRefused(text)
  PROVE  NumberInv'
<1>1. NumberTyped'
  BY DEF NumberTyped, Advance, Goto, Finished
<1>2. num_result' = Meaning(text')
  BY DEF num_result, IsRefused, Goto, Advance
<1>3. state' = "NONE"
  BY DEF Goto
<1> QED
  BY <1>1, <1>2, <1>3 DEF NumberInv, ReadingStates, Ending

Typed(st, a, f, b) ==
  /\ st \in {"INIT"} \union ReadingStates \union Ending \union Finished
  /\ a \in 0..(Size - 1) /\ f \in Nat /\ b \in Nat \ {0}

LEMMA ToReading ==
  ASSUME NumberTyped, Advance, Typed(state', acc', frac', base'), state' \in ReadingStates,
         NEW k, k = Count + 1, k \in 0..Len(Body(text)),
         sign' = SignOf(text), prefix' = Null,
         ReadAs(Signed(text), state', acc', frac', base', Upto(Body(text), k))
  PROVE  NumberInv'
<1>1. sign' \in {-1, 1}
  BY DEF SignOf
<1>2. NumberTyped'
  BY <1>1 DEF NumberTyped, Advance, Typed
<1>3. Count' = k
  <2>1. Start(text) \in Int /\ pos \in Int
    BY BodyIs DEF NumberTyped
  <2> QED
    BY <2>1 DEF Count, Advance
<1>4. Consumed' = Upto(Body(text), k)
  BY <1>3 DEF Consumed, Advance
<1>5. state' # "INIT" /\ state' \notin Ending /\ state' \notin Finished
  BY DEF ReadingStates, Ending, Finished
<1>6. ReadAs(Signed(text'), state', acc', frac', base', Consumed')
  BY <1>4 DEF Advance
<1>7. Count' \in 0..Len(Body(text')) /\ sign' = SignOf(text')
  BY <1>3 DEF Advance
<1> QED
  BY <1>2, <1>5, <1>6, <1>7 DEF NumberInv

LEMMA ToEnding ==
  ASSUME NumberTyped, Advance, Typed(state', acc', frac', base'), state' \in Ending,
         sign' = SignOf(text), NEW z, z = Count + 1 - NumeralEnd(Body(text)),
         EndAs(text, state', acc', frac', base', prefix', z)
  PROVE  NumberInv'
<1>1. sign' \in {-1, 1}
  BY DEF SignOf
<1>2. NumberTyped'
  BY <1>1 DEF NumberTyped, Advance, Typed
<1>3. Count' = Count + 1
  <2>1. Start(text) \in Int /\ pos \in Int
    BY BodyIs DEF NumberTyped
  <2> QED
    BY <2>1 DEF Count, Advance
<1>4. state' # "INIT" /\ state' \notin ReadingStates /\ state' \notin Finished
  BY DEF ReadingStates, Ending, Finished
<1>5. EndAs(text', state', acc', frac', base', prefix', Count' - NumeralEnd(Body(text')))
  <2>1. NumeralEnd(Body(text')) = NumeralEnd(Body(text))
    BY DEF Advance
  <2>2. Count \in Int /\ NumeralEnd(Body(text)) \in Int
    <3>1. Start(text) \in Int /\ pos \in Int /\ NumeralEnd(Body(text)) \in Int
      <4>1. text \in Seq(Alphabet) /\ pos \in Int
        BY DEF NumberTyped
      <4>2. NumeralEnd(Body(text)) \in 0..Len(Body(text))
        BY <4>1, StemIs
      <4> QED
        BY <4>1, <4>2, BodyIs
    <3> QED
      BY <3>1 DEF Count
  <2> DEFINE e == NumeralEnd(Body(text))
             f == NumeralEnd(Body(text'))
             k == Count'
  <2> HIDE DEF e, f, k
  <2>3. z = k - f
    BY <1>3, <2>1, <2>2 DEF e, f, k
  <2> QED
    BY <2>3 DEF Advance, f, k
<1> QED
  BY <1>2, <1>4, <1>5 DEF NumberInv, Advance

(* num_result of a state.                                                  *)
Answer(st, a, f, b, sg) ==
  CASE st = "NONE"           -> [type |-> "CAMIO_NO_TYPE"]
    [] st = "FINISHED_FLOAT" -> [type |-> "CAMIO_DOUBLE", val |-> sg * f, by |-> b]
    [] st = "FINISHED_UINT"  ->
         IF sg = 1 THEN [type |-> "CAMIO_UINT64", val |-> a]
         ELSE LET v == (Size - a) % Size IN
              [type |-> "CAMIO_INT64", val |-> IF 2 * v >= Size THEN v - Size ELSE v]

LEMMA ToFinished ==
  ASSUME NumberTyped, Advance, Typed(state', acc', frac', base'), state' \in Finished,
         sign' = sign, Answer(state', acc', frac', base', sign') = Meaning(text)
  PROVE  NumberInv'
<1>1. NumberTyped'
  BY DEF NumberTyped, Advance, Typed
<1>2. state' # "INIT" /\ state' \notin ReadingStates /\ state' \notin Ending
  BY DEF ReadingStates, Ending, Finished
<1>3. num_result' = Answer(state', acc', frac', base', sign')
  BY DEF num_result, Answer
<1> QED
  BY <1>1, <1>2, <1>3 DEF NumberInv, Advance

LEMMA ToInit ==
  ASSUME NumberTyped, NumberInv, state = "INIT", Advance, Goto("INIT"), c = Blank
  PROVE  NumberInv'
<1>1. NumberTyped'
  BY DEF NumberTyped, Advance, Goto
<1>2. Len(text) \in Nat /\ pos \in Nat \ {0}
  BY DEF NumberTyped
<1>3. pos <= Len(text) /\ text[pos] = Blank
  BY <1>2 DEF c, Null, Blank
<1>4. \A j \in 1..Len(text) : j < pos + 1 => j < pos \/ j = pos
  BY <1>2
<1>5. \A j \in 1..Len(text) : j < pos + 1 => text[j] = Blank
  BY <1>3, <1>4 DEF NumberInv
<1>6. pos + 1 <= Len(text) + 1
  BY <1>2, <1>3
<1> QED
  BY <1>1, <1>5, <1>6 DEF NumberInv, Advance, Goto, ReadingStates, Ending, Finished

(* What a finished state answers.                                          *)
Times(a, f) == (a * f) % Size
Product(v, f) == v * f

LEMMA ResultUint ==
  ASSUME NEW a \in 0..(Size - 1), NEW f \in Nat \ {0},
         NEW r, r = Times(a, f), NEW fr, NEW b, NEW minus \in BOOLEAN,
         NEW sg, sg = IF minus THEN -1 ELSE 1
  PROVE  Answer("FINISHED_UINT", r, fr, b, sg)
           = Scaled([val |-> a, by |-> 1, is_float |-> FALSE], f, minus)
<1>1. Size \in Nat \ {0}
  BY NumberAssumption
<1> DEFINE n == [val |-> a, by |-> 1, is_float |-> FALSE]
<1>2. r \in Nat /\ r < Size
  <2>1. a * f \in Nat
    OBVIOUS
  <2> QED
    BY <1>1, <2>1 DEF Times
<1>3. n.val = a /\ n.by = 1 /\ n.is_float = FALSE
  OBVIOUS
<1>4. (n.val * f) % Size = r
  BY <1>3 DEF Times
<1> HIDE DEF n
<1>5. Scaled(n, f, minus) =
        IF minus THEN [type |-> "CAMIO_INT64",
                       val |-> IF 0 < r /\ r <= Size \div 2 THEN -r ELSE (Size - r) % Size]
        ELSE [type |-> "CAMIO_UINT64", val |-> r]
  BY <1>3, <1>4 DEF Scaled
<1> DEFINE w == (Size - r) % Size
           u == IF 2 * w >= Size THEN w - Size ELSE w
           v == IF 0 < r /\ r <= Size \div 2 THEN -r ELSE w
<1>6. Answer("FINISHED_UINT", r, fr, b, sg)
        = IF minus THEN [type |-> "CAMIO_INT64", val |-> u]
                   ELSE [type |-> "CAMIO_UINT64", val |-> r]
  BY DEF Answer
<1>7. w = IF r = 0 THEN 0 ELSE Size - r
  <2>1. CASE r = 0
    BY <1>1, <2>1
  <2>2. CASE r > 0
    <3>1. Size - r \in Nat /\ Size - r < Size /\ Size - r = Size * 0 + (Size - r)
      BY <1>1, <1>2, <2>2
    <3> QED
      BY <1>1, <2>2, <3>1, Remainder
  <2> QED
    BY <1>2, <2>1, <2>2
<1>8. u = v
  <2> HIDE DEF w
  <2>1. CASE r = 0
    BY <1>1, <1>7, <2>1
  <2>2. CASE r > 0
    <3>1. w = Size - r
      BY <1>7, <2>2
    <3>2. 2 * (Size - r) >= Size <=> r <= Size \div 2
      BY <1>1, <1>2
    <3> QED
      BY <1>1, <1>2, <2>2, <3>1, <3>2
  <2> QED
    BY <1>2, <2>1, <2>2
<1>9. Scaled(n, f, minus) = IF minus THEN [type |-> "CAMIO_INT64", val |-> v]
                                     ELSE [type |-> "CAMIO_UINT64", val |-> r]
  BY <1>5
<1> HIDE DEF u, v
<1> QED
  BY <1>6, <1>8, <1>9 DEF n

LEMMA ResultFloat ==
  ASSUME NEW v \in Nat, NEW b \in Nat \ {0}, NEW f \in Nat \ {0},
         NEW a, NEW r, r = Product(v, f), NEW minus \in BOOLEAN, NEW sg, sg = IF minus THEN -1 ELSE 1
  PROVE  Answer("FINISHED_FLOAT", a, r, b, sg)
           = Scaled([val |-> v, by |-> b, is_float |-> TRUE], f, minus)
<1> DEFINE n == [val |-> v, by |-> b, is_float |-> TRUE]
<1>1. n.val = v /\ n.by = b /\ n.is_float = TRUE
  OBVIOUS
<1> HIDE DEF n
<1>2. Scaled(n, f, minus) =
        [type |-> "CAMIO_DOUBLE", val |-> (IF minus THEN -1 ELSE 1) * v * f, by |-> b]
  BY <1>1 DEF Scaled
<1>3. Answer("FINISHED_FLOAT", a, r, b, sg) = [type |-> "CAMIO_DOUBLE", val |-> sg * r, by |-> b]
  BY DEF Answer
<1>4. sg * r = (IF minus THEN -1 ELSE 1) * v * f
  BY Z3 DEF Product
<1> QED
  BY <1>2, <1>3, <1>4 DEF n

-----------------------------------------------------------------------------
(* What is refused, by the state the reading is in.                        *)
LEMMA BlankTail ==
  ASSUME NEW t \in Seq(Alphabet), NEW k, NEW s, NEW d, At(t, k, s, d), Plain(s), d = Blank,
         DecimalForm(s) \/ s = <<"0">>
  PROVE  IsRefused(t)
<1>1. Stem(t) = s /\ Len(TailPart(t)) > 0 /\ TailPart(t)[1] = Blank
  <2>1. d \in {Null} \union Enders /\ d # Null
    BY CharsAre DEF Enders
  <2> QED
    BY <2>1, EndsHere
<1>2. IsDecimal(s) \/ s = <<"0">>
  <2>1. s \in Seq(Alphabet)
    BY DEF At
  <2> QED
    BY <2>1, DecimalIs
<1>3. TailPart(t) # <<>> /\ TailPart(t)[1] \notin PrefixChars
  <2>1. Len(<<>>) = 0
    OBVIOUS
  <2>2. Blank \notin PrefixChars
    BY CharsAre DEF Blank
  <2> QED
    BY <1>1, <2>1, <2>2
<1>4. ASSUME NEW n PROVE Factor(TailPart(t), Stem(t), n) = 0
  BY <1>1, <1>2, <1>3 DEF Factor
<1> QED
  BY <1>4, BadTail

LEMMA RefuseFirst ==
  ASSUME NEW t \in Seq(Alphabet), NEW k, NEW s, NEW d, At(t, k, s, d), Len(s) = 0,
         d \notin Digits[10] \union {"."}
  PROVE  IsRefused(t)
<1>1. s \in Seq(Alphabet) /\ Plain(s)
  BY DEF At, Plain
<1>2. Stem(t) \in Seq(Alphabet) /\ Signed(t) \in BOOLEAN
  BY BodyIs, StemIs
<1>3. Len(Stem(t)) = 0 \/ Stem(t)[1] = d
  <2>1. CASE d \in {Null} \union Enders
    BY <1>1, <2>1, EndsHere
  <2>2. CASE d \notin {Null} \union Enders
    <3>1. Continued(s, d, Stem(t))
      BY <1>1, <2>2, GoesOn
    <3> QED
      BY <3>1 DEF Continued
  <2> QED
    BY <2>1, <2>2
<1>4. ~Formed(Stem(t), Signed(t))
  BY <1>2, <1>3, BadFirst
<1> QED
  BY <1>4, Unformed

LEMMA RefuseZeros ==
  ASSUME NEW t \in Seq(Alphabet), NEW k, NEW s, NEW d, At(t, k, s, d), Plain(s),
         Signed(t), Len(s) > 0, \A j \in 1..Len(s) : s[j] = "0", d \notin {"0", "."}
  PROVE  IsRefused(t)
<1>1. s \in Seq(Alphabet) /\ Len(s) \in Nat
  <2>1. s \in Seq(Alphabet)
    BY DEF At
  <2> QED
    BY <2>1, LenProperties
<1>2. Stem(t) \in Seq(Alphabet) /\ Len(Stem(t)) \in Nat /\ Signed(t) = TRUE
  BY BodyIs, StemIs, LenProperties
<1> DEFINE r == Stem(t)
           l == Len(s)
<1>3. /\ l \in 1..Len(r) /\ \A j \in 1..l : r[j] = "0"
      /\ l = Len(r) \/ r[l + 1] \notin {"0", "."}
  <2>1. CASE d \in {Null} \union Enders
    <3>1. r = s
      BY <2>1, EndsHere
    <3> QED
      BY <1>1, <3>1
  <2>2. CASE d \notin {Null} \union Enders
    <3>1. Continued(s, d, r)
      BY <2>2, GoesOn
    <3>2. l \in 1..Len(r)
      BY <1>1, <1>2, <3>1 DEF Continued
    <3> QED
      BY <3>1, <3>2 DEF Continued
  <2> QED
    BY <2>1, <2>2
<1>4. ~Formed(r, TRUE)
  <2> HIDE DEF r, l
  <2>1. r \in Seq(Alphabet)
    BY <1>2 DEF r
  <2> QED
    BY <1>3, <2>1, BadZeros
<1> QED
  BY <1>2, <1>4, Unformed

LEMMA RefuseInitZero ==
  ASSUME NEW t \in Seq(Alphabet), NEW k, NEW s, NEW d, At(t, k, s, d), Plain(s),
         ~Signed(t), Len(s) = 1, s[1] = "0",
         d \notin {"x", "b", ".", Null} \union PrefixChars \union Digits[8]
  PROVE  IsRefused(t)
<1>1. s \in Seq(Alphabet)
  BY DEF At
<1>2. CASE d = Blank
  <2>1. s = <<"0">>
    BY <1>1
  <2> QED
    BY <1>2, <2>1, BlankTail
<1>3. CASE d # Blank
  <2> DEFINE r == Stem(t)
  <2>1. Continued(s, d, r)
    BY <1>3, GoesOn DEF Enders
  <2>2. r \in Seq(Alphabet) /\ Signed(t) = FALSE
    BY BodyIs, StemIs
  <2> HIDE DEF r
  <2>3. Len(r) > 1 /\ r[1] = "0" /\ r[2] = d
    <3>1. 1 \in 1..Len(s) /\ Len(s) + 1 = 2
      OBVIOUS
    <3> QED
      BY <2>1, <3>1 DEF Continued
  <2>4. ~Formed(r, FALSE)
    BY <2>2, <2>3, ZeroForms
  <2> QED
    BY <2>2, <2>4, Unformed DEF r
<1> QED
  BY <1>2, <1>3

LEMMA RefuseDecimal ==
  ASSUME NEW t \in Seq(Alphabet), NEW k, NEW s, NEW d, At(t, k, s, d), Plain(s),
         DecimalForm(s), d \notin Digits[10] \union {".", Null} \union PrefixChars
  PROVE  IsRefused(t)
<1>1. s \in Seq(Alphabet) /\ Len(s) \in Nat
  <2>1. s \in Seq(Alphabet)
    BY DEF At
  <2> QED
    BY <2>1, LenProperties
<1>2. CASE d = Blank
  BY <1>2, BlankTail
<1>3. CASE d # Blank
  <2> DEFINE r == Stem(t)
  <2>1. Continued(s, d, r)
    BY <1>3, GoesOn DEF Enders
  <2>2. r \in Seq(Alphabet) /\ Signed(t) \in BOOLEAN /\ Len(r) \in Nat
    BY BodyIs, StemIs, LenProperties
  <2> HIDE DEF r
  <2>3. 1 \in 1..Len(s) /\ s[1] \in Digits[10] \ {"0"}
    BY <1>1 DEF DecimalForm
  <2>4. Len(r) > 0 /\ r[1] \in Digits[10] \ {"0"}
    BY <1>1, <2>1, <2>2, <2>3 DEF Continued
  <2>5. Len(s) + 1 \in 1..Len(r) /\ r[Len(s) + 1] \notin Digits[10] \union {"."}
    BY <1>1, <2>1, <2>2 DEF Continued
  <2>6. ~Formed(r, Signed(t))
    BY <2>2, <2>4, <2>5, BadDecimal
  <2> QED
    BY <2>6, Unformed DEF r
<1> QED
  BY <1>2, <1>3

LEMMA RefuseDigits ==
  ASSUME NEW t \in Seq(Alphabet), NEW k, NEW s, NEW d, At(t, k, s, d), Plain(s), ~Signed(t),
         d \notin {Null} \union Enders,
         \/ OctalForm(s) /\ Len(s) > 1 /\ d \notin Digits[8]
         \/ MarkedForm(s, "b", 2) /\ d \notin Digits[2]
         \/ MarkedForm(s, "x", 16) /\ d \notin Digits[16]
  PROVE  IsRefused(t)
<1> DEFINE r == Stem(t)
<1>1. s \in Seq(Alphabet) /\ Len(s) \in Nat
  <2>1. s \in Seq(Alphabet)
    BY DEF At
  <2> QED
    BY <2>1, LenProperties
<1>2. Continued(s, d, r)
  BY GoesOn
<1>3. r \in Seq(Alphabet) /\ Signed(t) = FALSE /\ Len(r) \in Nat
  BY BodyIs, StemIs, LenProperties
<1> HIDE DEF r
<1>4. Len(s) > 1 /\ s[1] = "0" /\ 2 \in 2..Len(s) /\ 1 \in 1..Len(s) /\ 2 \in 1..Len(s)
  BY <1>1 DEF OctalForm, MarkedForm
<1>5. Len(r) > 1 /\ r[1] = "0" /\ r[2] = s[2]
  BY <1>1, <1>2, <1>3, <1>4 DEF Continued
<1>6. /\ Len(s) + 1 \in 2..Len(r) /\ Len(s) + 1 \in 3..Len(r) /\ r[Len(s) + 1] = d
  BY <1>1, <1>2, <1>3, <1>4 DEF Continued
<1>7. /\ s[2] \in Digits[8] => s[2] # "b" /\ s[2] # "x" /\ s[2] # "."
      /\ "b" \notin Digits[8] /\ "x" \notin Digits[8]
  BY DigitsAre
<1>8. r[2] # "."
  BY <1>4, <1>5, <1>7 DEF OctalForm, MarkedForm
<1>9. ~Formed(r, FALSE)
  <2> SUFFICES ASSUME Formed(r, FALSE) PROVE FALSE
    OBVIOUS
  <2>1. \/ r[2] \in Digits[8] /\ \A j \in 2..Len(r) : r[j] \in Digits[8]
        \/ r[2] = "b" /\ \A j \in 3..Len(r) : r[j] \in Digits[2]
        \/ r[2] = "x" /\ \A j \in 3..Len(r) : r[j] \in Digits[16]
    BY <1>3, <1>5, <1>8, ZeroForms
  <2>2. \/ s[2] \in Digits[8] /\ d \in Digits[8]
        \/ s[2] = "b" /\ d \in Digits[2]
        \/ s[2] = "x" /\ d \in Digits[16]
    BY <1>5, <1>6, <2>1
  <2> QED
    BY <1>4, <1>7, <2>2 DEF OctalForm, MarkedForm
<1> QED
  BY <1>3, <1>9, Unformed DEF r

LEMMA RefuseFloat ==
  ASSUME NEW t \in Seq(Alphabet), NEW k, NEW s, NEW d, At(t, k, s, d), Plain(s),
         NEW p \in 1..Len(s), FloatForm(s, Signed(t), p),
         d \notin {Null} \union Enders \union Digits[10]
  PROVE  IsRefused(t)
<1> DEFINE r == Stem(t)
<1>1. s \in Seq(Alphabet) /\ Len(s) \in Nat
  <2>1. s \in Seq(Alphabet)
    BY DEF At
  <2> QED
    BY <2>1, LenProperties
<1>2. Continued(s, d, r)
  BY GoesOn
<1>3. r \in Seq(Alphabet) /\ Signed(t) \in BOOLEAN /\ Len(r) \in Nat
  BY BodyIs, StemIs, LenProperties
<1> HIDE DEF r
<1>4. p \in 1..Len(r) /\ Len(s) + 1 \in 1..Len(r) /\ Len(s) + 1 # p
  BY <1>1, <1>2, <1>3 DEF Continued
<1>5. r[p] = "." /\ r[Len(s) + 1] \notin Digits[10]
  BY <1>2 DEF Continued, FloatForm
<1>6. ~Formed(r, Signed(t))
  BY <1>3, <1>4, <1>5, BadFloat
<1> QED
  BY <1>6, Unformed DEF r

-----------------------------------------------------------------------------
(* What a state in a numeral knows.                                        *)
InNumeral ==
  /\ text \in Seq(Alphabet) /\ Signed(text) \in BOOLEAN
  /\ At(text, Count, Consumed, c) /\ Consumed \in Seq(Alphabet) /\ Plain(Consumed)
  /\ ReadAs(Signed(text), state, acc, frac, base, Consumed)
  /\ sign = SignOf(text) /\ prefix = Null

LEMMA Reads ==
  ASSUME NumberInv, state \in ReadingStates
  PROVE  NumberTyped /\ InNumeral
<1>1. NumberTyped /\ text \in Seq(Alphabet)
  BY DEF NumberInv, NumberTyped
<1>2. /\ Count \in 0..Len(Body(text)) /\ sign = SignOf(text) /\ prefix = Null
      /\ ReadAs(Signed(text), state, acc, frac, base, Consumed)
  BY DEF NumberInv
<1>3. At(text, Count, Consumed, c)
  BY <1>1, <1>2, Here
<1>4. Consumed \in Seq(Alphabet)
  BY <1>3 DEF At
<1>5. Plain(Consumed)
  BY <1>2 DEF ReadAs
<1>6. Signed(text) \in BOOLEAN
  BY <1>1, BodyIs
<1> QED
  BY <1>1, <1>2, <1>3, <1>4, <1>5, <1>6 DEF InNumeral

(* The numeral a state has read, if it may end there.                      *)
UintStates == {"FOUND_INIT_ZERO", "GET_DEC_DIGITS"} \union DOMAIN Radix

LEMMA RadixIs ==
  /\ DOMAIN Radix = {"GET_OCT_DIGITS", "GET_BIN_DIGITS", "GET_HEX_DIGITS"}
  /\ Radix["GET_OCT_DIGITS"] = 8 /\ Radix["GET_BIN_DIGITS"] = 2 /\ Radix["GET_HEX_DIGITS"] = 16
BY DEF Radix

LEMMA UintRead ==
  ASSUME NEW s \in Seq(Alphabet), NEW signed \in BOOLEAN, NEW st \in UintStates,
         NEW a, NEW f, NEW b, ReadAs(signed, st, a, f, b, s)
  PROVE  Numeral(s, signed) = [val |-> a, by |-> 1, is_float |-> FALSE]
<1>1. CASE st = "GET_DEC_DIGITS"
  <2>1. DecimalForm(s) /\ a = Number(s, 10) % Size
    BY <1>1 DEF ReadAs
  <2>2. Numeral(s, signed) = Uint(Number(s, 10))
    BY <2>1, NumeralIs
  <2> QED
    BY <2>1, <2>2 DEF Uint
<1>2. CASE st = "GET_OCT_DIGITS"
  <2>1. ~signed /\ OctalForm(s) /\ a = Number(After(s, 1), 8) % Size
    BY <1>2 DEF ReadAs
  <2>2. Numeral(s, signed) = Uint(Number(After(s, 1), 8))
    BY <2>1, NumeralIs
  <2> QED
    BY <2>1, <2>2 DEF Uint
<1>3. CASE st = "GET_BIN_DIGITS"
  <2>1. ~signed /\ MarkedForm(s, "b", 2) /\ a = Number(After(s, 2), 2) % Size
    BY <1>3 DEF ReadAs
  <2>2. Numeral(s, signed) = Uint(Number(After(s, 2), 2))
    BY <2>1, NumeralIs
  <2> QED
    BY <2>1, <2>2 DEF Uint
<1>4. CASE st = "GET_HEX_DIGITS"
  <2>1. ~signed /\ MarkedForm(s, "x", 16) /\ a = Number(After(s, 2), 16) % Size
    BY <1>4 DEF ReadAs
  <2>2. Numeral(s, signed) = Uint(Number(After(s, 2), 16))
    BY <2>1, NumeralIs
  <2> QED
    BY <2>1, <2>2 DEF Uint
<1>5. CASE st = "FOUND_INIT_ZERO"
  <2>1. ~signed /\ Len(s) = 1 /\ s[1] = "0" /\ a = 0
    BY <1>5 DEF ReadAs
  <2>2. OctalForm(s)
    BY <2>1 DEF OctalForm
  <2>3. Numeral(s, signed) = Uint(Number(After(s, 1), 8))
    BY <2>1, <2>2, NumeralIs
  <2>4. After(s, 1) = <<>>
    <3>1. 1 \in 0..Len(s)
      BY <2>1
    <3>2. After(s, 1) \in Seq(Alphabet) /\ Len(After(s, 1)) = Len(s) - 1
      BY <3>1, AfterIs
    <3> QED
      BY <2>1, <3>2
  <2>5. Number(<<>>, 8) = 0
    BY ExtendedEmpty DEF Number
  <2>6. 0 % Size = 0
    BY NumberAssumption
  <2> QED
    BY <2>1, <2>3, <2>4, <2>5, <2>6 DEF Uint
<1> QED
  BY <1>1, <1>2, <1>3, <1>4, <1>5, RadixIs DEF UintStates

LEMMA FloatRead ==
  ASSUME NEW s \in Seq(Alphabet), NEW signed \in BOOLEAN,
         NEW a, NEW f, NEW b, ReadAs(signed, "GET_FLO_DIGITS", a, f, b, s)
  PROVE  Numeral(s, signed) = [val |-> f, by |-> b, is_float |-> TRUE]
<1>1. PICK p \in 1..Len(s) : FloatForm(s, signed, p) /\ Float(s).val = f /\ Float(s).by = b
  BY DEF ReadAs
<1>2. Numeral(s, signed) = Float(s)
  BY <1>1, NumeralIs
<1>3. Float(s) = [val |-> Float(s).val, by |-> Float(s).by, is_float |-> TRUE]
  BY DEF Float
<1> QED
  BY <1>1, <1>2, <1>3

(* The numeral ends the text ...                                           *)
LEMMA WholeMeaning ==
  ASSUME NEW t \in Seq(Alphabet), NEW k, NEW s, At(t, k, s, Null), Plain(s)
  PROVE  Meaning(t) = Scaled(Numeral(s, Signed(t)), 1, Minus(t))
<1>1. Stem(t) = s /\ TailPart(t) = <<>>
  BY EndsHere
<1>2. \A n : Factor(<<>>, s, n) = 1
  BY DEF Factor
<1> QED
  BY <1>1, <1>2, MeaningIs

LEMMA MinusBoolean ==
  ASSUME NEW t
  PROVE  Minus(t) \in BOOLEAN
BY DEF Minus

LEMMA FinishUint ==
  ASSUME NumberInv, state \in UintStates, Advance, c = Null, Goto("FINISHED_UINT")
  PROVE  NumberInv'
<1>1. state \in ReadingStates
  BY RadixIs DEF UintStates, ReadingStates
<1>2. NumberTyped /\ InNumeral
  BY <1>1, Reads
<1>3. Numeral(Consumed, Signed(text)) = [val |-> acc, by |-> 1, is_float |-> FALSE]
  BY <1>2, UintRead DEF InNumeral
<1>4. Meaning(text) = Scaled([val |-> acc, by |-> 1, is_float |-> FALSE], 1, Minus(text))
  BY <1>2, <1>3, WholeMeaning DEF InNumeral
<1>5. acc \in 0..(Size - 1) /\ acc' = Times(acc, 1)
  <2>1. acc \in 0..(Size - 1) /\ acc' = acc /\ Size \in Nat \ {0}
    BY <1>2, NumberAssumption DEF NumberTyped, Goto
  <2> QED
    BY <2>1 DEF Times
<1>6. state' = "FINISHED_UINT" /\ sign' = IF Minus(text) THEN -1 ELSE 1
  BY <1>2 DEF InNumeral, Goto, SignOf
<1>7. Answer(state', acc', frac', base', sign')
        = Scaled([val |-> acc, by |-> 1, is_float |-> FALSE], 1, Minus(text))
  BY <1>5, <1>6, MinusBoolean, ResultUint
<1>8. Typed(state', acc', frac', base') /\ sign' = sign /\ state' \in Finished
  BY <1>2 DEF Typed, Goto, NumberTyped, Finished
<1> QED
  BY <1>2, <1>4, <1>7, <1>8, ToFinished

LEMMA FinishFloat ==
  ASSUME NumberInv, state = "GET_FLO_DIGITS", Advance, c = Null, Goto("FINISHED_FLOAT")
  PROVE  NumberInv'
<1>1. state \in ReadingStates
  BY DEF ReadingStates
<1>2. NumberTyped /\ InNumeral
  BY <1>1, Reads
<1>3. Numeral(Consumed, Signed(text)) = [val |-> frac, by |-> base, is_float |-> TRUE]
  BY <1>2, FloatRead DEF InNumeral
<1>4. Meaning(text) = Scaled([val |-> frac, by |-> base, is_float |-> TRUE], 1, Minus(text))
  BY <1>2, <1>3, WholeMeaning DEF InNumeral
<1>5. frac \in Nat /\ base \in Nat \ {0} /\ frac' = Product(frac, 1) /\ base' = base
  BY <1>2 DEF NumberTyped, Goto, Product
<1>6. state' = "FINISHED_FLOAT" /\ sign' = IF Minus(text) THEN -1 ELSE 1
  BY <1>2 DEF InNumeral, Goto, SignOf
<1>7. Answer(state', acc', frac', base', sign')
        = Scaled([val |-> frac, by |-> base, is_float |-> TRUE], 1, Minus(text))
  BY <1>5, <1>6, MinusBoolean, ResultFloat
<1>8. Typed(state', acc', frac', base') /\ sign' = sign /\ state' \in Finished
  BY <1>2 DEF Typed, Goto, NumberTyped, Finished
<1> QED
  BY <1>2, <1>4, <1>7, <1>8, ToFinished

(* ... or a tail follows.                                                  *)
LEMMA TailBegins ==
  ASSUME NEW t \in Seq(Alphabet), NEW k, NEW s, NEW d, At(t, k, s, d), Plain(s), d \in Enders,
         NEW pre, pre = IF d = Blank THEN Null ELSE d,
         d = Blank => ~DecimalForm(s) /\ s # <<"0">>,
         NEW st, NEW a, NEW f, NEW b,
         st = "END_UINT" => Numeral(s, Signed(t)) = [val |-> a, by |-> 1, is_float |-> FALSE],
         st = "END_FLOAT" => Numeral(s, Signed(t)) = [val |-> f, by |-> b, is_float |-> TRUE],
         NEW z, z = k + 1 - NumeralEnd(Body(t))
  PROVE  EndAs(t, st, a, f, b, pre, z)
<1>1. d \in {Null} \union Enders /\ d # Null
  BY CharsAre
<1>2. /\ NumeralEnd(Body(t)) = k /\ Stem(t) = s
      /\ Len(TailPart(t)) > 0 /\ TailPart(t)[1] = d
  BY <1>1, EndsHere
<1>3. TailPart(t) \in Seq(Alphabet)
  BY StemIs
<1>4. Len(TailPart(t)) \in Nat
  BY <1>3, LenProperties
<1>5. z = 1
  <2>1. k \in Int
    BY DEF At
  <2> QED
    BY <1>2, <2>1
<1>6. z \in 1..Len(TailPart(t)) /\ \A j \in 2..z : FALSE
  BY <1>2, <1>4, <1>5
<1>7. d # Blank => d \in PrefixChars
  BY DEF Enders
<1> QED
  BY <1>1, <1>2, <1>6, <1>7 DEF EndAs

LEMMA UintTail ==
  ASSUME NumberInv, state \in UintStates, Advance,
         \/ c \in PrefixChars /\ PrefixTo("END_UINT")
         \/ c = Blank /\ Goto("END_UINT") /\ state \in DOMAIN Radix
  PROVE  NumberInv'
<1>1. state \in ReadingStates
  BY RadixIs DEF UintStates, ReadingStates
<1>2. NumberTyped /\ InNumeral
  BY <1>1, Reads
<1>3. Numeral(Consumed, Signed(text)) = [val |-> acc, by |-> 1, is_float |-> FALSE]
  BY <1>2, UintRead DEF InNumeral
<1>4. /\ state' = "END_UINT" /\ acc' = acc /\ frac' = frac /\ base' = base /\ sign' = sign
      /\ prefix' = IF c = Blank THEN Null ELSE c
      /\ c \in Enders
  <2>1. Blank \notin PrefixChars
    BY CharsAre DEF Blank
  <2> QED
    BY <1>2, <2>1 DEF InNumeral, PrefixTo, Goto, Enders
<1>5. c = Blank => ~DecimalForm(Consumed) /\ Consumed # <<"0">>
  <2> SUFFICES ASSUME c = Blank PROVE ~DecimalForm(Consumed) /\ Consumed # <<"0">>
    OBVIOUS
  <2>1. state \in DOMAIN Radix
    BY CharsAre DEF Blank
  <2>2. Len(Consumed) > 1 /\ Consumed[1] = "0"
    BY <1>2, <2>1, RadixIs DEF InNumeral, ReadAs, OctalForm, MarkedForm
  <2>3. Consumed # <<"0">>
    <3> SUFFICES ASSUME Consumed = <<"0">> PROVE FALSE
      OBVIOUS
    <3>1. Len(Consumed) = 1
      OBVIOUS
    <3> QED
      BY <2>2, <3>1
  <2>4. ~DecimalForm(Consumed)
    BY <2>2 DEF DecimalForm
  <2> QED
    BY <2>3, <2>4
<1> DEFINE z == Count + 1 - NumeralEnd(Body(text))
<1>6. EndAs(text, "END_UINT", acc, frac, base, prefix', z)
  <2>1. PICK w : w = z
    OBVIOUS
  <2>2. EndAs(text, "END_UINT", acc, frac, base, prefix', w)
    BY <1>2, <1>3, <1>4, <1>5, <2>1, TailBegins DEF InNumeral
  <2> QED
    BY <2>1, <2>2
<1> HIDE DEF z
<1>7. Typed(state', acc', frac', base') /\ state' \in Ending /\ sign' = SignOf(text)
  BY <1>2, <1>4 DEF Typed, NumberTyped, Ending, InNumeral
<1>8. EndAs(text, state', acc', frac', base', prefix', z)
  BY <1>4, <1>6
<1> QED
  BY <1>2, <1>7, <1>8, ToEnding DEF z

LEMMA FloatTail ==
  ASSUME NumberInv, state = "GET_FLO_DIGITS", Advance,
         \/ c \in PrefixChars /\ PrefixTo("END_FLOAT")
         \/ c = Blank /\ Goto("END_FLOAT")
  PROVE  NumberInv'
<1>1. state \in ReadingStates
  BY DEF ReadingStates
<1>2. NumberTyped /\ InNumeral
  BY <1>1, Reads
<1>3. Numeral(Consumed, Signed(text)) = [val |-> frac, by |-> base, is_float |-> TRUE]
  BY <1>2, FloatRead DEF InNumeral
<1>4. /\ state' = "END_FLOAT" /\ acc' = acc /\ frac' = frac /\ base' = base /\ sign' = sign
      /\ prefix' = IF c = Blank THEN Null ELSE c
      /\ c \in Enders
  <2>1. Blank \notin PrefixChars
    BY CharsAre DEF Blank
  <2> QED
    BY <1>2, <2>1 DEF InNumeral, PrefixTo, Goto, Enders
<1>5. ~DecimalForm(Consumed) /\ Consumed # <<"0">>
  <2>1. PICK p \in 1..Len(Consumed) : Consumed[p] = "."
    BY <1>2 DEF InNumeral, ReadAs, FloatForm
  <2>2. "." \notin Digits[10]
    BY DigitsAre
  <2>3. Consumed # <<"0">>
    <3> SUFFICES ASSUME Consumed = <<"0">> PROVE FALSE
      OBVIOUS
    <3>1. Len(Consumed) = 1 /\ Consumed[1] = "0"
      OBVIOUS
    <3>2. p = 1
      BY <3>1
    <3> QED
      BY <2>1, <3>1, <3>2
  <2> QED
    BY <2>1, <2>2, <2>3 DEF DecimalForm
<1> DEFINE z == Count + 1 - NumeralEnd(Body(text))
<1>6. EndAs(text, "END_FLOAT", acc, frac, base, prefix', z)
  <2>1. PICK w : w = z
    OBVIOUS
  <2>2. EndAs(text, "END_FLOAT", acc, frac, base, prefix', w)
    BY <1>2, <1>3, <1>4, <1>5, <2>1, TailBegins DEF InNumeral
  <2> QED
    BY <2>1, <2>2
<1> HIDE DEF z
<1>7. Typed(state', acc', frac', base') /\ state' \in Ending /\ sign' = SignOf(text)
  BY <1>2, <1>4 DEF Typed, NumberTyped, Ending, InNumeral
<1>8. EndAs(text, state', acc', frac', base', prefix', z)
  BY <1>4, <1>6
<1> QED
  BY <1>2, <1>7, <1>8, ToEnding DEF z

-----------------------------------------------------------------------------
(* A character more, state by state.                                       *)
LEMMA DigitIsPlain ==
  ASSUME NEW s \in Seq(Alphabet), Plain(s), NEW d \in Alphabet,
         d \in Digits[16] \union {".", "x", "b"}
  PROVE  Plain(Append(s, d))
<1>1. d \notin Enders
  BY CharsAre, DigitsAre DEF Blank
<1> QED
  BY <1>1, PlainAppended

LEMMA DigitsIn ==
  \A r \in {2, 8, 10, 16} : Digits[r] \subseteq Digits[16] /\ \A d \in Digits[r] : Value[d] \in Nat
<1>1. \A r \in {2, 8, 10, 16} : Digits[r] \subseteq Digits[16]
  BY DigitsAre
<1>2. \A d \in Digits[16] : Value[d] \in Nat
  BY DigitsAre
<1> QED
  BY <1>1, <1>2

LEMMA ZeroDigits ==
  ASSUME NEW X, NEW s \in Seq(X), "0" \in X, Number(s, 10) % Size = 0, AllDigits(s, 10)
  PROVE  Number(Append(s, "0"), 10) % Size = 0
<1>1. "0" \in Digits[10] /\ Value["0"] = 0
  BY DigitsAre
<1>2. ((Number(s, 10) % Size) * 10 + Value["0"]) % Size = Number(Append(s, "0"), 10) % Size
  BY <1>1, Accumulates
<1>3. 0 % Size = 0
  BY NumberAssumption
<1> QED
  BY <1>1, <1>2, <1>3

LEMMA EmptyNumber ==
  ASSUME NEW X, NEW s \in Seq(X), Len(s) = 0
  PROVE  \A r : s = <<>> /\ Number(s, r) % Size = 0
<1>1. s = <<>>
  OBVIOUS
<1>2. \A r : Number(<<>>, r) = 0
  BY ExtendedEmpty DEF Number
<1>3. 0 % Size = 0
  BY NumberAssumption
<1> QED
  BY <1>1, <1>2, <1>3

LEMMA AccumulatesTen ==
  ASSUME NEW s \in Seq(Alphabet), NEW d \in Alphabet, AllDigits(s, 10), d \in Digits[10]
  PROVE  ((Number(s, 10) % Size) * 10 + Value[d]) % Size = Number(Append(s, d), 10) % Size
BY Accumulates

LEMMA DecBegins ==
  ASSUME NEW s \in Seq(Alphabet), Len(s) = 0, NEW d \in Alphabet, d \in Digits[10] \ {"0"},
         NEW signed \in BOOLEAN, NEW f
  PROVE  ReadAs(signed, "GET_DEC_DIGITS", (0 * 10 + Value[d]) % Size, f, 1, Append(s, d))
<1>1. Plain(s) /\ AllDigits(s, 10)
  BY DEF Plain, AllDigits
<1>2. Plain(Append(s, d))
  BY <1>1, DigitIsPlain, DigitsIn
<1>3. DecimalForm(Append(s, d))
  BY FormsGrow
<1>4. (0 * 10 + Value[d]) % Size = Number(Append(s, d), 10) % Size
  <2>1. Number(s, 10) % Size = 0
    BY EmptyNumber
  <2>2. d \in Digits[10]
    OBVIOUS
  <2>3. ((Number(s, 10) % Size) * 10 + Value[d]) % Size = Number(Append(s, d), 10) % Size
    BY <1>1, <2>2, AccumulatesTen
  <2> QED
    BY <2>1, <2>3
<1> QED
  BY <1>2, <1>3, <1>4 DEF ReadAs

LEMMA DecGrows ==
  ASSUME NEW s \in Seq(Alphabet), NEW d \in Alphabet, d \in Digits[10],
         NEW signed \in BOOLEAN, NEW a, NEW f, NEW b,
         ReadAs(signed, "GET_DEC_DIGITS", a, f, b, s)
  PROVE  ReadAs(signed, "GET_DEC_DIGITS", (a * 10 + Value[d]) % Size, f, b, Append(s, d))
<1>1. Plain(s) /\ DecimalForm(s) /\ a = Number(s, 10) % Size /\ b = 1
  BY DEF ReadAs
<1>2. Plain(Append(s, d))
  BY <1>1, DigitIsPlain, DigitsIn
<1>3. DecimalForm(Append(s, d))
  BY <1>1, FormsGrow
<1>4. (a * 10 + Value[d]) % Size = Number(Append(s, d), 10) % Size
  <2>1. AllDigits(s, 10)
    BY <1>1 DEF DecimalForm, AllDigits
  <2>2. ((Number(s, 10) % Size) * 10 + Value[d]) % Size = Number(Append(s, d), 10) % Size
    BY <2>1, AccumulatesTen
  <2> QED
    BY <1>1, <2>2
<1> QED
  BY <1>1, <1>2, <1>3, <1>4 DEF ReadAs

LEMMA OctBegins ==
  ASSUME NEW s \in Seq(Alphabet), NEW d \in Alphabet, d \in Digits[8],
         NEW signed \in BOOLEAN, NEW a, NEW f, NEW b,
         ReadAs(signed, "FOUND_INIT_ZERO", a, f, b, s)
  PROVE  ReadAs(signed, "GET_OCT_DIGITS", (a * 8 + Value[d]) % Size, f, b, Append(s, d))
<1>1. Plain(s) /\ ~signed /\ Len(s) = 1 /\ s[1] = "0" /\ a = 0
  BY DEF ReadAs
<1>2. Plain(Append(s, d))
  BY <1>1, DigitIsPlain, DigitsIn
<1>3. OctalForm(s)
  BY <1>1 DEF OctalForm
<1>4. OctalForm(Append(s, d)) /\ Len(Append(s, d)) > 1
  BY <1>1, <1>3, FormsGrow, AppendAt
<1>5. Number(After(s, 1), 8) % Size = 0
  <2>1. 1 \in 0..Len(s)
    BY <1>1
  <2>2. After(s, 1) \in Seq(Alphabet) /\ Len(After(s, 1)) = Len(s) - 1
    BY <2>1, AfterIs
  <2>3. Len(After(s, 1)) = 0
    BY <1>1, <2>2
  <2> QED
    BY <2>2, <2>3, EmptyNumber
<1>6. (a * 8 + Value[d]) % Size = Number(After(Append(s, d), 1), 8) % Size
  <2>2. 1 <= Len(s) /\ \A j \in 1..Len(s) : j > 1 => s[j] \in Digits[8]
    BY <1>1
  <2>1. ((Number(After(s, 1), 8) % Size) * 8 + Value[d]) % Size
          = Number(After(Append(s, d), 1), 8) % Size
    BY <2>2, MarkedAccumulates
  <2> QED
    BY <1>1, <1>5, <2>1
<1> QED
  BY <1>1, <1>2, <1>4, <1>6 DEF ReadAs

LEMMA MarkBegins ==
  ASSUME NEW s \in Seq(Alphabet), NEW d \in Alphabet,
         NEW signed \in BOOLEAN, NEW a, NEW f, NEW b,
         ReadAs(signed, "FOUND_INIT_ZERO", a, f, b, s)
  PROVE  /\ d = "b" => ReadAs(signed, "GET_BIN_DIGITS", a, f, b, Append(s, d))
         /\ d = "x" => ReadAs(signed, "GET_HEX_DIGITS", a, f, b, Append(s, d))
<1>1. Plain(s) /\ ~signed /\ Len(s) = 1 /\ s[1] = "0" /\ a = 0
  BY DEF ReadAs
<1>2. d \in {"b", "x"} => Plain(Append(s, d))
  BY <1>1, DigitIsPlain
<1>3. /\ d = "b" => MarkedForm(Append(s, d), "b", 2)
      /\ d = "x" => MarkedForm(Append(s, d), "x", 16)
  BY <1>1, FormsGrow
<1>4. \A r : Number(After(Append(s, d), 2), r) % Size = 0
  <2> DEFINE t == Append(s, d)
  <2>1. t \in Seq(Alphabet) /\ Len(t) = 2
    <3>1. t \in Seq(Alphabet) /\ Len(t) = Len(s) + 1
      BY AppendAt
    <3> QED
      BY <1>1, <3>1
  <2> HIDE DEF t
  <2>2. 2 \in 0..Len(t)
    BY <2>1
  <2>3. After(t, 2) \in Seq(Alphabet) /\ Len(After(t, 2)) = Len(t) - 2
    BY <2>1, <2>2, AfterIs
  <2>4. Len(After(t, 2)) = 0
    BY <2>1, <2>3
  <2> QED
    BY <2>3, <2>4, EmptyNumber DEF t
<1> QED
  BY <1>1, <1>2, <1>3, <1>4 DEF ReadAs

LEMMA RadixGrows ==
  ASSUME NEW s \in Seq(Alphabet), NEW d \in Alphabet, NEW st \in DOMAIN Radix,
         d \in Digits[Radix[st]], NEW signed \in BOOLEAN, NEW a, NEW f, NEW b,
         ReadAs(signed, st, a, f, b, s)
  PROVE  ReadAs(signed, st, (a * Radix[st] + Value[d]) % Size, f, b, Append(s, d))
<1>1. Plain(Append(s, d))
  <2>1. Plain(s) /\ d \in Digits[16]
    BY RadixIs, DigitsIn DEF ReadAs
  <2> QED
    BY <2>1, DigitIsPlain
<1>2. CASE st = "GET_OCT_DIGITS"
  <2>1. ~signed /\ OctalForm(s) /\ Len(s) > 1 /\ a = Number(After(s, 1), 8) % Size /\ Radix[st] = 8
    BY <1>2, RadixIs DEF ReadAs
  <2>2. OctalForm(Append(s, d)) /\ Len(Append(s, d)) > 1
    BY <2>1, FormsGrow, AppendAt
  <2>3. 1 <= Len(s) /\ \A j \in 1..Len(s) : j > 1 => s[j] \in Digits[8]
    BY <2>1 DEF OctalForm
  <2>4. ((Number(After(s, 1), 8) % Size) * 8 + Value[d]) % Size
          = Number(After(Append(s, d), 1), 8) % Size
    BY <2>1, <2>3, MarkedAccumulates
  <2> QED
    BY <1>1, <1>2, <2>1, <2>2, <2>4 DEF ReadAs
<1>3. CASE st = "GET_BIN_DIGITS"
  <2>1. ~signed /\ MarkedForm(s, "b", 2) /\ a = Number(After(s, 2), 2) % Size /\ Radix[st] = 2
    BY <1>3, RadixIs DEF ReadAs
  <2>2. MarkedForm(Append(s, d), "b", 2)
    BY <2>1, FormsGrow
  <2>3. 2 <= Len(s) /\ \A j \in 1..Len(s) : j > 2 => s[j] \in Digits[2]
    BY <2>1 DEF MarkedForm
  <2>4. ((Number(After(s, 2), 2) % Size) * 2 + Value[d]) % Size
          = Number(After(Append(s, d), 2), 2) % Size
    BY <2>1, <2>3, MarkedAccumulates
  <2> QED
    BY <1>1, <1>3, <2>1, <2>2, <2>4 DEF ReadAs
<1>4. CASE st = "GET_HEX_DIGITS"
  <2>1. ~signed /\ MarkedForm(s, "x", 16) /\ a = Number(After(s, 2), 16) % Size /\ Radix[st] = 16
    BY <1>4, RadixIs DEF ReadAs
  <2>2. MarkedForm(Append(s, d), "x", 16)
    BY <2>1, FormsGrow
  <2>3. 2 <= Len(s) /\ \A j \in 1..Len(s) : j > 2 => s[j] \in Digits[16]
    BY <2>1 DEF MarkedForm
  <2>4. ((Number(After(s, 2), 16) % Size) * 16 + Value[d]) % Size
          = Number(After(Append(s, d), 2), 16) % Size
    BY <2>1, <2>3, MarkedAccumulates
  <2> QED
    BY <1>1, <1>4, <2>1, <2>2, <2>4 DEF ReadAs
<1> QED
  BY <1>2, <1>3, <1>4, RadixIs

LEMMA ZeroBegins ==
  ASSUME NEW s \in Seq(Alphabet), Len(s) = 0, "0" \in Alphabet, NEW f
  PROVE  ReadAs(FALSE, "FOUND_INIT_ZERO", 0, f, 1, Append(s, "0"))
<1>1. Plain(s) /\ "0" \in Digits[16]
  BY DigitsAre DEF Plain
<1>2. Plain(Append(s, "0"))
  BY <1>1, DigitIsPlain
<1>3. Len(Append(s, "0")) = 1 /\ Append(s, "0")[1] = "0"
  BY AppendAt
<1> QED
  BY <1>2, <1>3 DEF ReadAs

LEMMA SignedZeroGrows ==
  ASSUME NEW s \in Seq(Alphabet), "0" \in Alphabet, NEW signed \in BOOLEAN, NEW a, NEW f, NEW b,
         NEW st \in {"FOUND_SIGN", "MUST_BE_ZERO_OR_PERIOD"}, ReadAs(signed, st, a, f, b, s)
  PROVE  ReadAs(signed, "MUST_BE_ZERO_OR_PERIOD", a, f, b, Append(s, "0"))
<1>1. "0" \in Digits[16] /\ "0" \in Digits[10]
  BY DigitsAre
<1>2. Plain(s) /\ signed /\ a = 0 /\ b = 1
  BY DEF ReadAs
<1>3. \A j \in 1..Len(s) : s[j] = "0"
  BY DEF ReadAs
<1>4. Number(s, 10) % Size = 0
  BY EmptyNumber DEF ReadAs
<1>5. AllDigits(s, 10)
  BY <1>1, <1>3 DEF AllDigits
<1>6. Number(Append(s, "0"), 10) % Size = 0
  BY <1>4, <1>5, ZeroDigits
<1>7. Plain(Append(s, "0"))
  BY <1>1, <1>2, DigitIsPlain
<1>8. Len(Append(s, "0")) > 0 /\ \A j \in 1..Len(Append(s, "0")) : Append(s, "0")[j] = "0"
  <2> DEFINE t == Append(s, "0")
  <2>1. Len(t) = Len(s) + 1 /\ Len(s) \in Nat /\ t[Len(s) + 1] = "0"
        /\ \A j \in 1..Len(s) : t[j] = s[j]
    BY AppendAt
  <2> HIDE DEF t
  <2>2. \A j \in 1..Len(t) : j \in 1..Len(s) \/ j = Len(s) + 1
    BY <2>1
  <2>3. Len(t) > 0 /\ \A j \in 1..Len(t) : t[j] = "0"
    BY <1>3, <2>1, <2>2
  <2> QED
    BY <2>3 DEF t
<1> QED
  BY <1>2, <1>6, <1>7, <1>8 DEF ReadAs

(* What a state that takes a point has read.                               *)
PointStates == {"FOUND_SIGN", "MUST_BE_ZERO_OR_PERIOD", "FOUND_INIT_ZERO", "GET_DEC_DIGITS"}

LEMMA BeforePoint ==
  ASSUME NEW s \in Seq(Alphabet), NEW signed \in BOOLEAN, NEW a, NEW f, NEW b,
         NEW st \in PointStates, ReadAs(signed, st, a, f, b, s)
  PROVE  LeftForm(s, signed) /\ a = Number(s, 10) % Size /\ b = 1
<1>1. "0" \in Digits[10] /\ Len(s) \in Nat
  BY DigitsAre, LenProperties
<1>2. CASE st = "FOUND_SIGN"
  <2>1. signed /\ Len(s) = 0 /\ a = 0 /\ b = 1
    BY <1>2 DEF ReadAs
  <2>2. Number(s, 10) % Size = 0
    BY <2>1, EmptyNumber
  <2>3. LeftForm(s, signed)
    BY <2>1 DEF LeftForm
  <2> QED
    BY <2>1, <2>2, <2>3
<1>3. CASE st = "MUST_BE_ZERO_OR_PERIOD"
  <2>1. /\ signed /\ \A j \in 1..Len(s) : s[j] = "0"
        /\ Number(s, 10) % Size = 0 /\ a = 0 /\ b = 1
    BY <1>3 DEF ReadAs
  <2> QED
    BY <1>1, <2>1 DEF LeftForm
<1>4. CASE st = "FOUND_INIT_ZERO"
  <2>1. Len(s) = 1 /\ s[1] = "0" /\ a = 0 /\ b = 1
    BY <1>4 DEF ReadAs
  <2>2. s = Append(<<>>, "0")
    BY <2>1
  <2>3. <<>> \in Seq({"0"}) /\ Len(<<>>) = 0
    OBVIOUS
  <2>4. Number(<<>>, 10) % Size = 0
    BY <2>3, EmptyNumber
  <2>7. AllDigits(<<>>, 10)
    BY <2>3 DEF AllDigits
  <2>5. Number(Append(<<>>, "0"), 10) % Size = 0
    BY <2>3, <2>4, <2>7, ZeroDigits
  <2>6. LeftForm(s, signed)
    BY <1>1, <2>1 DEF LeftForm
  <2> QED
    BY <2>1, <2>2, <2>5, <2>6
<1>5. CASE st = "GET_DEC_DIGITS"
  BY <1>5 DEF ReadAs, DecimalForm, LeftForm
<1> QED
  BY <1>2, <1>3, <1>4, <1>5 DEF PointStates

LEMMA PointBegins ==
  ASSUME NEW s \in Seq(Alphabet), "." \in Alphabet, NEW signed \in BOOLEAN, Plain(s),
         LeftForm(s, signed), NEW a, a = Number(s, 10) % Size
  PROVE  ReadAs(signed, "GET_FLO_DIGITS", a, a, 1, Append(s, "."))
<1> DEFINE t == Append(s, ".")
<1>1. Plain(t)
  BY DigitIsPlain
<1>2. Float(t) = [val |-> a, by |-> 1, is_float |-> TRUE]
  BY FloatStarts
<1>3. FloatForm(t, signed, Len(s) + 1)
  BY FormsGrow
<1>4. Len(s) + 1 \in 1..Len(t)
  BY <1>3 DEF FloatForm
<1> HIDE DEF t
<1>5. \E p \in 1..Len(t) : FloatForm(t, signed, p) /\ Float(t).val = a /\ Float(t).by = 1
  BY <1>2, <1>3, <1>4
<1> QED
  BY <1>1, <1>5 DEF ReadAs, t

LEMMA FloGrows ==
  ASSUME NEW s \in Seq(Alphabet), NEW d \in Alphabet, d \in Digits[10],
         NEW signed \in BOOLEAN, NEW a, NEW f, NEW b,
         ReadAs(signed, "GET_FLO_DIGITS", a, f, b, s)
  PROVE  ReadAs(signed, "GET_FLO_DIGITS", a, f * 10 + Value[d], b * 10, Append(s, d))
<1> DEFINE t == Append(s, d)
<1>1. Plain(t)
  <2>1. Plain(s)
    BY DEF ReadAs
  <2> QED
    BY <2>1, DigitIsPlain, DigitsIn
<1>2. PICK p \in 1..Len(s) : FloatForm(s, signed, p) /\ Float(s).val = f /\ Float(s).by = b
  BY DEF ReadAs
<1>3. FloatForm(t, signed, p)
  BY <1>2, FormsGrow
<1>4. Float(t).val = f * 10 + Value[d] /\ Float(t).by = b * 10
  BY <1>2, FloatGrows
<1>5. p \in 1..Len(t)
  BY <1>3 DEF FloatForm
<1> HIDE DEF t
<1>6. \E q \in 1..Len(t) : FloatForm(t, signed, q) /\ Float(t).val = f * 10 + Value[d]
                           /\ Float(t).by = b * 10
  BY <1>3, <1>4, <1>5
<1> QED
  BY <1>1, <1>6 DEF ReadAs, t

-----------------------------------------------------------------------------
(* The actions preserve the invariant.                                     *)
LEMMA ReadOne ==
  ASSUME NumberTyped, Advance, At(text, Count, Consumed, c), c # Null,
         Typed(state', acc', frac', base'), state' \in ReadingStates,
         sign' = SignOf(text), prefix' = Null,
         ReadAs(Signed(text), state', acc', frac', base', Append(Consumed, c))
  PROVE  NumberInv'
<1>1. text \in Seq(Alphabet)
  BY DEF NumberTyped
<1>2. Count + 1 \in 0..Len(Body(text)) /\ Upto(Body(text), Count + 1) = Append(Consumed, c)
  BY <1>1, AppendOne
<1>3. PICK k : k = Count + 1
  OBVIOUS
<1>4. k \in 0..Len(Body(text)) /\ Upto(Body(text), k) = Append(Consumed, c)
  BY <1>2, <1>3
<1>5. ReadAs(Signed(text), state', acc', frac', base', Upto(Body(text), k))
  BY <1>4
<1> QED
  BY <1>3, <1>4, <1>5, ToReading

LEMMA DigitTyped ==
  ASSUME NumberTyped, NEW radix \in {2, 8, 10, 16}, NEW d \in Digits[radix]
  PROVE  (acc * radix + Value[d]) % Size \in 0..(Size - 1)
<1>1. Value[d] \in Nat /\ acc \in Nat /\ radix \in Nat /\ Size \in Nat \ {0}
  BY DigitsIn, NumberAssumption DEF NumberTyped
<1>2. acc * radix + Value[d] \in Nat
  BY <1>1
<1> QED
  BY <1>1, <1>2

(* Before the numeral: where it begins.                                    *)
LEMMA InitPlace ==
  ASSUME NumberInv, state = "INIT", c # Blank
  PROVE  /\ NumberTyped /\ text \in Seq(Alphabet)
         /\ prefix = Null /\ acc = 0 /\ base = 1 /\ sign = 1
         /\ Signed(text) <=> c \in {"-", "+"}
         /\ Minus(text) <=> c = "-"
         /\ Count = IF Signed(text) THEN -1 ELSE 0
         /\ Count + 1 \in 0..Len(Body(text)) \/ c = Null
         /\ ~Signed(text) => Count \in 0..Len(Body(text))
<1>1. /\ NumberTyped /\ text \in Seq(Alphabet) /\ pos \in Nat \ {0} /\ prefix = Null
      /\ acc = 0 /\ base = 1 /\ sign = 1 /\ pos <= Len(text) + 1
      /\ \A j \in 1..Len(text) : j < pos => text[j] = Blank
  BY DEF NumberInv, NumberTyped
<1>2. Len(text) \in Nat
  BY <1>1, LenProperties
<1>3. PICK k \in 0..Len(text) : k = pos - 1 /\ k + 1 = pos
  BY <1>1, <1>2
<1>4. k < Len(text) => c = text[k + 1]
  BY <1>1, <1>2, <1>3 DEF c
<1>5. ~(k < Len(text)) => c = Null
  BY <1>1, <1>2, <1>3 DEF c
<1>6. Blanks(text) = k
  <2>1. \A j \in 1..Len(text) : j <= k => text[j] = Blank
    BY <1>1, <1>2, <1>3
  <2>2. k < Len(text) => text[k + 1] # Blank
    BY <1>4
  <2> QED
    BY <1>1, <2>1, <2>2, BlanksPassed
<1>7. Signed(text) <=> c \in {"-", "+"}
  BY <1>2, <1>4, <1>5, <1>6 DEF Signed, Null
<1>8. Minus(text) <=> c = "-"
  BY <1>4, <1>5, <1>6, <1>7 DEF Minus, Null
<1>9. Start(text) = IF Signed(text) THEN pos ELSE k
  BY <1>3, <1>6 DEF Start
<1>10. Count = IF Signed(text) THEN -1 ELSE 0
  BY <1>1, <1>3, <1>9 DEF Count
<1>11. /\ Start(text) \in 0..Len(text) /\ Len(Body(text)) = Len(text) - Start(text)
       /\ Len(Body(text)) \in Nat
  <2>1. Body(text) \in Seq(Alphabet)
    BY <1>1, BodyIs
  <2>2. Len(Body(text)) \in Nat
    BY <2>1, LenProperties
  <2> QED
    BY <1>1, <2>2, BodyIs
<1>12. Count + 1 \in 0..Len(Body(text)) \/ c = Null
  <2>1. CASE Signed(text)
    BY <1>10, <1>11, <2>1
  <2>2. CASE ~Signed(text) /\ k < Len(text)
    <3>1. Start(text) = k /\ Count = 0
      BY <1>9, <1>10, <2>2
    <3> QED
      BY <1>2, <1>11, <2>2, <3>1
  <2> QED
    BY <1>5, <2>1, <2>2
<1>13. ~Signed(text) => Count \in 0..Len(Body(text))
  BY <1>10, <1>11
<1> QED
  BY <1>1, <1>7, <1>8, <1>10, <1>12, <1>13

LEMMA FromInitStep ==
  ASSUME NumberInv, Advance, FromInit
  PROVE  NumberInv'
<1>1. state = "INIT"
  BY DEF FromInit
<1>2. NumberTyped
  BY DEF NumberInv
<1>3. CASE c = Blank
  <2>1. Goto("INIT")
    BY <1>3, DigitsAre DEF FromInit, Blank
  <2> QED
    BY <1>1, <1>2, <1>3, <2>1, ToInit
<1>4. CASE c \in {"-", "+"}
  <2>1. c # Blank /\ c # Null
    BY <1>4 DEF Blank, Null
  <2>2. /\ state' = "FOUND_SIGN" /\ sign' = IF c = "-" THEN -1 ELSE 1
        /\ acc' = acc /\ frac' = frac /\ base' = base /\ prefix' = prefix
    BY <1>4, DigitsAre DEF FromInit, Blank
  <2>3. /\ text \in Seq(Alphabet) /\ prefix = Null /\ acc = 0 /\ base = 1
        /\ Signed(text) /\ (Minus(text) <=> c = "-") /\ Count = -1
        /\ Count + 1 \in 0..Len(Body(text))
    BY <1>1, <1>4, <2>1, InitPlace
  <2>4. PICK k \in 0..Len(Body(text)) : k = Count + 1 /\ k = 0
    BY <2>3
  <2>5. Upto(Body(text), k) \in Seq(Alphabet) /\ Len(Upto(Body(text), k)) = 0
    <3>1. Body(text) \in Seq(Alphabet)
      BY <2>3, BodyIs
    <3>2. Upto(Body(text), k) \in Seq(Alphabet) /\ Len(Upto(Body(text), k)) = k
      BY <3>1, UptoIs
    <3> QED
      BY <2>4, <3>2
  <2>6. ReadAs(Signed(text), "FOUND_SIGN", acc, frac, base, Upto(Body(text), k))
    <3> DEFINE s == Upto(Body(text), k)
    <3>1. Len(s) = 0
      BY <2>5
    <3> HIDE DEF s
    <3>2. Plain(s)
      BY <3>1 DEF Plain
    <3>3. ReadAs(Signed(text), "FOUND_SIGN", acc, frac, base, s)
      BY <2>3, <3>1, <3>2 DEF ReadAs
    <3> QED
      BY <3>3 DEF s
  <2>7. Typed(state', acc', frac', base') /\ state' \in ReadingStates /\ prefix' = Null
    BY <1>2, <2>2, <2>3 DEF Typed, NumberTyped, ReadingStates
  <2>8. sign' = SignOf(text)
    BY <2>2, <2>3 DEF SignOf
  <2>9. ReadAs(Signed(text), state', acc', frac', base', Upto(Body(text), k))
    BY <2>2, <2>6
  <2> QED
    BY <1>2, <2>4, <2>7, <2>8, <2>9, ToReading
<1>5. CASE c \notin {"-", "+", Blank}
  <2>1. /\ text \in Seq(Alphabet) /\ prefix = Null /\ acc = 0 /\ base = 1 /\ sign = 1
        /\ ~Signed(text) /\ ~Minus(text) /\ Count = 0 /\ Count \in 0..Len(Body(text))
    BY <1>1, <1>5, InitPlace
  <2>2. At(text, Count, Consumed, c)
    BY <1>2, <2>1, Here
  <2>3. Consumed \in Seq(Alphabet) /\ Len(Consumed) = 0 /\ (c # Null => c \in Alphabet)
    BY <2>1, <2>2 DEF At
  <2>4. sign = SignOf(text) /\ Signed(text) = FALSE
    BY <2>1, BodyIs DEF SignOf
  <2>5. CASE c = "."
    <3>1. Point
      BY <2>5, DigitsAre DEF FromInit, Blank
    <3>2. c # Null
      BY <2>5 DEF Null
    <3>3. Plain(Consumed) /\ LeftForm(Consumed, FALSE)
      BY <2>3 DEF Plain, LeftForm
    <3>4. acc = Number(Consumed, 10) % Size
      BY <2>1, <2>3, EmptyNumber
    <3>5. ReadAs(FALSE, "GET_FLO_DIGITS", acc, acc, 1, Append(Consumed, "."))
      BY <2>3, <2>5, <3>2, <3>3, <3>4, PointBegins
    <3>6. ReadAs(Signed(text), state', acc', frac', base', Append(Consumed, c))
      BY <2>1, <2>4, <2>5, <3>1, <3>5 DEF Point
    <3>7. /\ Typed(state', acc', frac', base') /\ state' \in ReadingStates
          /\ sign' = SignOf(text) /\ prefix' = Null
      BY <1>2, <2>1, <2>4, <3>1 DEF Typed, Point, NumberTyped, ReadingStates
    <3> QED
      BY <1>2, <2>2, <3>2, <3>6, <3>7, ReadOne
  <2>6. CASE c = "0"
    <3>1. Goto("FOUND_INIT_ZERO")
      BY <2>6, DigitsAre DEF FromInit, Blank
    <3>2. c # Null
      BY <2>6 DEF Null
    <3>3. ReadAs(FALSE, "FOUND_INIT_ZERO", 0, frac, 1, Append(Consumed, "0"))
      BY <2>3, <2>6, <3>2, ZeroBegins
    <3>4. ReadAs(Signed(text), state', acc', frac', base', Append(Consumed, c))
      BY <2>1, <2>4, <2>6, <3>1, <3>3 DEF Goto
    <3>5. /\ Typed(state', acc', frac', base') /\ state' \in ReadingStates
          /\ sign' = SignOf(text) /\ prefix' = Null
      BY <1>2, <2>1, <2>4, <3>1 DEF Typed, Goto, NumberTyped, ReadingStates
    <3> QED
      BY <1>2, <2>2, <3>2, <3>4, <3>5, ReadOne
  <2>7. CASE c \in Digits[10] \ {"0"}
    <3>1. Digit("GET_DEC_DIGITS", 10) /\ c # Null
      BY <2>7, DigitsAre DEF FromInit, Blank, Null
    <3>2. ReadAs(FALSE, "GET_DEC_DIGITS", (0 * 10 + Value[c]) % Size, frac, 1, Append(Consumed, c))
      BY <2>3, <2>7, <3>1, DecBegins
    <3>3. /\ state' = "GET_DEC_DIGITS" /\ acc' = (acc * 10 + Value[c]) % Size
          /\ frac' = frac /\ base' = base /\ sign' = sign /\ prefix' = prefix
      BY <3>1 DEF Digit
    <3>4. ReadAs(Signed(text), state', acc', frac', base', Append(Consumed, c))
      BY <2>1, <2>4, <3>2, <3>3
    <3>5. acc' \in 0..(Size - 1)
      BY <1>2, <2>7, <3>3, DigitTyped
    <3>6. /\ Typed(state', acc', frac', base') /\ state' \in ReadingStates
          /\ sign' = SignOf(text) /\ prefix' = Null
      BY <1>2, <2>1, <2>4, <3>3, <3>5 DEF Typed, NumberTyped, ReadingStates
    <3> QED
      BY <1>2, <2>2, <3>1, <3>4, <3>6, ReadOne
  <2>8. CASE c \notin Digits[10] \union {"."}
    <3>1. Goto("NONE")
      BY <1>5, <2>8, DigitsAre DEF FromInit
    <3>2. IsRefused(text)
      BY <2>1, <2>2, <2>3, <2>8, RefuseFirst
    <3> QED
      BY <1>2, <3>1, <3>2, ToNone
  <2> QED
    BY <2>5, <2>6, <2>7, <2>8
<1> QED
  BY <1>3, <1>4, <1>5

(* In the numeral.                                                         *)
LEMMA PointStep ==
  ASSUME NumberInv, Advance, state \in PointStates, c = ".", Point
  PROVE  NumberInv'
<1>1. state \in ReadingStates /\ c # Null
  BY DEF ReadingStates, PointStates, Null
<1>2. NumberTyped /\ InNumeral
  BY <1>1, Reads
<1>3. LeftForm(Consumed, Signed(text)) /\ acc = Number(Consumed, 10) % Size /\ base = 1
  BY <1>2, BeforePoint DEF InNumeral
<1>4. "." \in Alphabet
  BY <1>1, <1>2 DEF InNumeral, At
<1>5. ReadAs(Signed(text), "GET_FLO_DIGITS", acc, acc, 1, Append(Consumed, "."))
  BY <1>2, <1>3, <1>4, PointBegins DEF InNumeral
<1>6. ReadAs(Signed(text), state', acc', frac', base', Append(Consumed, c))
  BY <1>3, <1>5 DEF Point
<1>7. /\ Typed(state', acc', frac', base') /\ state' \in ReadingStates
      /\ sign' = SignOf(text) /\ prefix' = Null
  BY <1>2 DEF Typed, Point, NumberTyped, ReadingStates, InNumeral
<1> QED
  BY <1>1, <1>2, <1>6, <1>7, ReadOne DEF InNumeral

(* A digit, or a mark, is read.                                            *)
LEMMA DigitStep ==
  ASSUME NumberInv, Advance, state \in ReadingStates, c # Null,
         NEW st \in ReadingStates, NEW radix \in {2, 8, 10, 16}, c \in Digits[radix],
         Digit(st, radix),
         ReadAs(Signed(text), st, (acc * radix + Value[c]) % Size, frac, base, Append(Consumed, c))
  PROVE  NumberInv'
<1>1. NumberTyped /\ InNumeral
  BY Reads
<1>2. /\ state' = st /\ acc' = (acc * radix + Value[c]) % Size
      /\ frac' = frac /\ base' = base /\ sign' = sign /\ prefix' = prefix
  BY DEF Digit
<1>3. acc' \in 0..(Size - 1)
  BY <1>1, <1>2, DigitTyped
<1>4. ReadAs(Signed(text), state', acc', frac', base', Append(Consumed, c))
  BY <1>2
<1>5. /\ Typed(state', acc', frac', base') /\ state' \in ReadingStates
      /\ sign' = SignOf(text) /\ prefix' = Null
  BY <1>1, <1>2, <1>3 DEF Typed, NumberTyped, InNumeral
<1> QED
  BY <1>1, <1>4, <1>5, ReadOne DEF InNumeral

LEMMA GotoStep ==
  ASSUME NumberInv, Advance, state \in ReadingStates, c # Null, NEW st \in ReadingStates,
         Goto(st), ReadAs(Signed(text), st, acc, frac, base, Append(Consumed, c))
  PROVE  NumberInv'
<1>1. NumberTyped /\ InNumeral
  BY Reads
<1>2. /\ state' = st /\ acc' = acc
      /\ frac' = frac /\ base' = base /\ sign' = sign /\ prefix' = prefix
  BY DEF Goto
<1>3. ReadAs(Signed(text), state', acc', frac', base', Append(Consumed, c))
  BY <1>2
<1>4. /\ Typed(state', acc', frac', base') /\ state' \in ReadingStates
      /\ sign' = SignOf(text) /\ prefix' = Null
  BY <1>1, <1>2 DEF Typed, NumberTyped, InNumeral
<1> QED
  BY <1>1, <1>3, <1>4, ReadOne DEF InNumeral

LEMMA FromSignStep ==
  ASSUME NumberInv, Advance, FromSign
  PROVE  NumberInv'
<1>1. state = "FOUND_SIGN" /\ state \in ReadingStates /\ state \in PointStates
  BY DEF FromSign, ReadingStates, PointStates
<1>2. NumberTyped /\ InNumeral
  BY <1>1, Reads
<1>3. Signed(text) = TRUE /\ Len(Consumed) = 0 /\ acc = 0 /\ base = 1
      /\ ReadAs(Signed(text), "FOUND_SIGN", acc, frac, base, Consumed)
  BY <1>1, <1>2 DEF InNumeral, ReadAs
<1>4. c # Null => c \in Alphabet
  BY <1>2 DEF InNumeral, At
<1>5. CASE c = "0"
  <2>1. Goto("MUST_BE_ZERO_OR_PERIOD") /\ c # Null
    BY <1>5, DigitsAre DEF FromSign, Null
  <2>2. ReadAs(Signed(text), "MUST_BE_ZERO_OR_PERIOD", acc, frac, base, Append(Consumed, c))
    BY <1>2, <1>3, <1>4, <1>5, <2>1, SignedZeroGrows DEF InNumeral
  <2>3. "MUST_BE_ZERO_OR_PERIOD" \in ReadingStates
    BY DEF ReadingStates
  <2> QED
    BY <1>1, <2>1, <2>2, <2>3, GotoStep
<1>6. CASE c = "."
  <2>1. Point
    BY <1>6, DigitsAre DEF FromSign
  <2> QED
    BY <1>1, <1>6, <2>1, PointStep
<1>7. CASE c \in Digits[10] \ {"0"}
  <2>1. Digit("GET_DEC_DIGITS", 10) /\ c # Null /\ c # "."
    BY <1>7, DigitsAre DEF FromSign, Null
  <2>2. ReadAs(Signed(text), "GET_DEC_DIGITS", (0 * 10 + Value[c]) % Size, frac, 1,
             Append(Consumed, c))
    BY <1>2, <1>3, <1>4, <1>7, <2>1, DecBegins DEF InNumeral
  <2>3. ReadAs(Signed(text), "GET_DEC_DIGITS", (acc * 10 + Value[c]) % Size, frac, base,
             Append(Consumed, c))
    BY <1>3, <2>2
  <2>4. "GET_DEC_DIGITS" \in ReadingStates /\ c \in Digits[10]
    BY <1>7 DEF ReadingStates
  <2> QED
    BY <1>1, <2>1, <2>3, <2>4, DigitStep
<1>8. CASE c \notin Digits[10] \union {"."}
  <2>1. Goto("NONE")
    BY <1>8, DigitsAre DEF FromSign
  <2>2. IsRefused(text)
    BY <1>2, <1>3, <1>8, RefuseFirst DEF InNumeral
  <2> QED
    BY <1>2, <2>1, <2>2, ToNone
<1> QED
  BY <1>5, <1>6, <1>7, <1>8

LEMMA FromSignedZeroStep ==
  ASSUME NumberInv, Advance, FromSignedZero
  PROVE  NumberInv'
<1>1. state = "MUST_BE_ZERO_OR_PERIOD" /\ state \in ReadingStates /\ state \in PointStates
  BY DEF FromSignedZero, ReadingStates, PointStates
<1>2. NumberTyped /\ InNumeral
  BY <1>1, Reads
<1>3. Signed(text) /\ Len(Consumed) > 0 /\ \A j \in 1..Len(Consumed) : Consumed[j] = "0"
  BY <1>1, <1>2 DEF InNumeral, ReadAs
<1>4. CASE c = "0"
  <2>1. Goto("MUST_BE_ZERO_OR_PERIOD") /\ c # Null /\ c \in Alphabet
    BY <1>2, <1>4 DEF FromSignedZero, Null, InNumeral, At
  <2>2. ReadAs(Signed(text), "MUST_BE_ZERO_OR_PERIOD", acc, frac, base, Append(Consumed, c))
    BY <1>1, <1>2, <1>4, <2>1, SignedZeroGrows DEF InNumeral
  <2> QED
    BY <1>1, <2>1, <2>2, GotoStep
<1>5. CASE c = "."
  <2>1. Point
    BY <1>5 DEF FromSignedZero
  <2> QED
    BY <1>1, <1>5, <2>1, PointStep
<1>6. CASE c \notin {"0", "."}
  <2>1. Goto("NONE")
    BY <1>6 DEF FromSignedZero
  <2>2. IsRefused(text)
    BY <1>2, <1>3, <1>6, RefuseZeros DEF InNumeral
  <2> QED
    BY <1>2, <2>1, <2>2, ToNone
<1> QED
  BY <1>4, <1>5, <1>6

LEMMA FromInitZeroStep ==
  ASSUME NumberInv, Advance, FromInitZero
  PROVE  NumberInv'
<1>1. state = "FOUND_INIT_ZERO" /\ state \in ReadingStates /\ state \in PointStates
      /\ state \in UintStates
  BY DEF FromInitZero, ReadingStates, PointStates, UintStates
<1>2. NumberTyped /\ InNumeral
  BY <1>1, Reads
<1>3. ~Signed(text) /\ Len(Consumed) = 1 /\ Consumed[1] = "0" /\ acc = 0 /\ base = 1
      /\ ReadAs(Signed(text), "FOUND_INIT_ZERO", acc, frac, base, Consumed)
  BY <1>1, <1>2 DEF InNumeral, ReadAs
<1>4. c # Null => c \in Alphabet
  BY <1>2 DEF InNumeral, At
<1>5. CASE c = "x" \/ c = "b"
  <2>1. (c = "x" => Goto("GET_HEX_DIGITS")) /\ (c = "b" => Goto("GET_BIN_DIGITS")) /\ c # Null
    BY <1>5, DigitsAre, CharsAre DEF FromInitZero, Null
  <2>2. /\ c = "b" => ReadAs(Signed(text), "GET_BIN_DIGITS", acc, frac, base, Append(Consumed, c))
        /\ c = "x" => ReadAs(Signed(text), "GET_HEX_DIGITS", acc, frac, base, Append(Consumed, c))
    BY <1>2, <1>3, <1>4, <2>1, MarkBegins DEF InNumeral
  <2>3. "GET_BIN_DIGITS" \in ReadingStates /\ "GET_HEX_DIGITS" \in ReadingStates
    BY DEF ReadingStates
  <2>4. c = "b" => NumberInv'
    BY <1>1, <2>1, <2>2, <2>3, GotoStep
  <2>5. c = "x" => NumberInv'
    BY <1>1, <2>1, <2>2, <2>3, GotoStep
  <2> QED
    BY <1>5, <2>4, <2>5
<1>6. CASE c = "."
  <2>1. Point
    BY <1>6, DigitsAre, CharsAre DEF FromInitZero, Null
  <2> QED
    BY <1>1, <1>6, <2>1, PointStep
<1>7. CASE c = Null
  <2>1. Goto("FINISHED_UINT")
    BY <1>7, DigitsAre, CharsAre DEF FromInitZero, Null
  <2> QED
    BY <1>1, <1>7, <2>1, FinishUint
<1>8. CASE c \in PrefixChars
  <2>1. PrefixTo("END_UINT")
    BY <1>8, DigitsAre, CharsAre DEF FromInitZero, Null
  <2> QED
    BY <1>1, <1>8, <2>1, UintTail
<1>9. CASE c \in Digits[8]
  <2>1. Digit("GET_OCT_DIGITS", 8) /\ c # Null
    BY <1>9, DigitsAre, CharsAre DEF FromInitZero, Null
  <2>2. ReadAs(Signed(text), "GET_OCT_DIGITS", (acc * 8 + Value[c]) % Size, frac, base,
             Append(Consumed, c))
    BY <1>2, <1>3, <1>4, <1>9, <2>1, OctBegins DEF InNumeral
  <2>3. "GET_OCT_DIGITS" \in ReadingStates
    BY DEF ReadingStates
  <2> QED
    BY <1>1, <1>9, <2>1, <2>2, <2>3, DigitStep
<1>10. CASE c \notin {"x", "b", ".", Null} \union PrefixChars \union Digits[8]
  <2>1. Goto("NONE")
    BY <1>10, DigitsAre, CharsAre DEF FromInitZero
  <2>2. IsRefused(text)
    BY <1>2, <1>3, <1>10, RefuseInitZero DEF InNumeral
  <2> QED
    BY <1>2, <2>1, <2>2, ToNone
<1> QED
  BY <1>5, <1>6, <1>7, <1>8, <1>9, <1>10

LEMMA FromDecDigitsStep ==
  ASSUME NumberInv, Advance, FromDecDigits
  PROVE  NumberInv'
<1>1. state = "GET_DEC_DIGITS" /\ state \in ReadingStates /\ state \in PointStates
      /\ state \in UintStates
  BY DEF FromDecDigits, ReadingStates, PointStates, UintStates
<1>2. NumberTyped /\ InNumeral
  BY <1>1, Reads
<1>3. DecimalForm(Consumed) /\ ReadAs(Signed(text), "GET_DEC_DIGITS", acc, frac, base, Consumed)
  BY <1>1, <1>2 DEF InNumeral, ReadAs
<1>4. CASE c \in Digits[10]
  <2>1. Digit("GET_DEC_DIGITS", 10) /\ c # Null
    BY <1>4, DigitsAre, CharsAre DEF FromDecDigits, Null
  <2>2. c \in Alphabet
    BY <1>2, <2>1 DEF InNumeral, At
  <2>3. ReadAs(Signed(text), "GET_DEC_DIGITS", (acc * 10 + Value[c]) % Size, frac, base,
             Append(Consumed, c))
    BY <1>2, <1>3, <1>4, <2>2, DecGrows DEF InNumeral
  <2> QED
    BY <1>1, <1>4, <2>1, <2>3, DigitStep
<1>5. CASE c = "."
  <2>1. Point
    BY <1>5, DigitsAre, CharsAre DEF FromDecDigits, Null
  <2> QED
    BY <1>1, <1>5, <2>1, PointStep
<1>6. CASE c \in PrefixChars
  <2>1. PrefixTo("END_UINT")
    BY <1>6, DigitsAre, CharsAre DEF FromDecDigits, Null
  <2> QED
    BY <1>1, <1>6, <2>1, UintTail
<1>7. CASE c = Null
  <2>1. Goto("FINISHED_UINT")
    BY <1>7, DigitsAre, CharsAre DEF FromDecDigits, Null
  <2> QED
    BY <1>1, <1>7, <2>1, FinishUint
<1>8. CASE c \notin Digits[10] \union {".", Null} \union PrefixChars
  <2>1. Goto("NONE")
    BY <1>8 DEF FromDecDigits
  <2>2. IsRefused(text)
    BY <1>2, <1>3, <1>8, RefuseDecimal DEF InNumeral
  <2> QED
    BY <1>2, <2>1, <2>2, ToNone
<1> QED
  BY <1>4, <1>5, <1>6, <1>7, <1>8

LEMMA FromDigitsStep ==
  ASSUME NumberInv, Advance, FromDigits
  PROVE  NumberInv'
<1>1. state \in DOMAIN Radix /\ state \in ReadingStates /\ state \in UintStates
      /\ Radix[state] \in {2, 8, 16}
  BY RadixIs DEF FromDigits, ReadingStates, UintStates
<1>2. NumberTyped /\ InNumeral
  BY <1>1, Reads
<1> DEFINE radix == Radix[state]
<1>3. \A e \in Enders \union {Null} : e \notin Digits[radix]
  BY <1>1, CharsAre
<1>4. Blank \notin PrefixChars /\ Null \notin PrefixChars /\ Blank # Null
  BY CharsAre DEF Blank, Null
<1>5. FromDigits =
        (/\ state \in DOMAIN Radix
         /\ CASE c \in Digits[radix] -> Digit(state, radix)
              [] c \in PrefixChars -> PrefixTo("END_UINT")
              [] c = Blank         -> Goto("END_UINT")
              [] c = Null          -> Goto("FINISHED_UINT")
              [] OTHER             -> Goto("NONE"))
  BY DEF FromDigits
<1> HIDE DEF radix
<1>6. CASE c \in Digits[radix]
  <2>1. c \notin PrefixChars /\ c # Blank /\ c # Null
    BY <1>3, <1>6 DEF Enders
  <2>2. Digit(state, radix)
    BY <1>5, <1>6, <2>1
  <2>3. c \in Alphabet
    BY <1>2, <2>1 DEF InNumeral, At
  <2>4. ReadAs(Signed(text), state, (acc * radix + Value[c]) % Size, frac, base,
             Append(Consumed, c))
    BY <1>1, <1>2, <1>6, <2>3, RadixGrows DEF InNumeral, radix
  <2>5. radix \in {2, 8, 10, 16}
    BY <1>1 DEF radix
  <2> QED
    BY <1>1, <1>6, <2>1, <2>2, <2>4, <2>5, DigitStep
<1>7. CASE c \in PrefixChars
  <2>1. PrefixTo("END_UINT")
    BY <1>3, <1>4, <1>5, <1>7 DEF Enders
  <2> QED
    BY <1>1, <1>7, <2>1, UintTail
<1>8. CASE c = Blank
  <2>1. Goto("END_UINT")
    BY <1>3, <1>4, <1>5, <1>8 DEF Enders
  <2> QED
    BY <1>1, <1>8, <2>1, UintTail
<1>9. CASE c = Null
  <2>1. Goto("FINISHED_UINT")
    BY <1>3, <1>4, <1>5, <1>9
  <2> QED
    BY <1>1, <1>9, <2>1, FinishUint
<1>10. CASE c \notin Digits[radix] \union PrefixChars \union {Blank, Null}
  <2>1. Goto("NONE")
    BY <1>5, <1>10
  <2>2. /\ ~Signed(text)
        /\ \/ OctalForm(Consumed) /\ Len(Consumed) > 1 /\ c \notin Digits[8]
           \/ MarkedForm(Consumed, "b", 2) /\ c \notin Digits[2]
           \/ MarkedForm(Consumed, "x", 16) /\ c \notin Digits[16]
    BY <1>1, <1>2, <1>10, RadixIs DEF InNumeral, ReadAs, radix
  <2>3. c \notin {Null} \union Enders
    BY <1>10 DEF Enders
  <2>4. IsRefused(text)
    BY <1>2, <2>2, <2>3, RefuseDigits DEF InNumeral
  <2> QED
    BY <1>2, <2>1, <2>4, ToNone
<1> QED
  BY <1>6, <1>7, <1>8, <1>9, <1>10

LEMMA FromFloDigitsStep ==
  ASSUME NumberInv, Advance, FromFloDigits
  PROVE  NumberInv'
<1>1. state = "GET_FLO_DIGITS" /\ state \in ReadingStates
  BY DEF FromFloDigits, ReadingStates
<1>2. NumberTyped /\ InNumeral
  BY <1>1, Reads
<1>3. ReadAs(Signed(text), "GET_FLO_DIGITS", acc, frac, base, Consumed)
  BY <1>1, <1>2 DEF InNumeral
<1>4. CASE c \in Digits[10]
  <2>1. /\ state' = "GET_FLO_DIGITS" /\ frac' = frac * 10 + Value[c] /\ base' = base * 10
        /\ acc' = acc /\ sign' = sign /\ prefix' = prefix /\ c # Null
    BY <1>1, <1>4, DigitsAre, CharsAre DEF FromFloDigits, Null, Blank
  <2>2. c \in Alphabet
    BY <1>2, <2>1 DEF InNumeral, At
  <2>3. ReadAs(Signed(text), "GET_FLO_DIGITS", acc, frac * 10 + Value[c], base * 10,
             Append(Consumed, c))
    BY <1>2, <1>3, <1>4, <2>2, FloGrows DEF InNumeral
  <2>4. ReadAs(Signed(text), state', acc', frac', base', Append(Consumed, c))
    BY <2>1, <2>3
  <2>5. frac' \in Nat /\ base' \in Nat \ {0}
    <3>1. Value[c] \in Nat
      BY <1>4, DigitsIn
    <3> QED
      BY <1>2, <2>1, <3>1 DEF NumberTyped
  <2>6. /\ Typed(state', acc', frac', base') /\ state' \in ReadingStates
        /\ sign' = SignOf(text) /\ prefix' = Null
    BY <1>2, <2>1, <2>5 DEF Typed, NumberTyped, ReadingStates, InNumeral
  <2> QED
    BY <1>2, <2>1, <2>4, <2>6, ReadOne DEF InNumeral
<1>5. CASE c \in PrefixChars
  <2>1. PrefixTo("END_FLOAT")
    BY <1>5, DigitsAre, CharsAre DEF FromFloDigits, Null, Blank
  <2> QED
    BY <1>1, <1>5, <2>1, FloatTail
<1>6. CASE c = Blank
  <2>1. Goto("END_FLOAT")
    BY <1>6, DigitsAre, CharsAre DEF FromFloDigits, Null, Blank
  <2> QED
    BY <1>1, <1>6, <2>1, FloatTail
<1>7. CASE c = Null
  <2>1. Goto("FINISHED_FLOAT")
    BY <1>7, DigitsAre, CharsAre DEF FromFloDigits, Null, Blank
  <2> QED
    BY <1>1, <1>7, <2>1, FinishFloat
<1>8. CASE c \notin Digits[10] \union PrefixChars \union {Blank, Null}
  <2>1. Goto("NONE")
    BY <1>8 DEF FromFloDigits
  <2>2. PICK p \in 1..Len(Consumed) : FloatForm(Consumed, Signed(text), p)
    BY <1>3 DEF ReadAs
  <2>3. c \notin {Null} \union Enders \union Digits[10]
    BY <1>8 DEF Enders
  <2>4. IsRefused(text)
    BY <1>2, <2>2, <2>3, RefuseFloat DEF InNumeral
  <2> QED
    BY <1>2, <2>1, <2>4, ToNone
<1> QED
  BY <1>4, <1>5, <1>6, <1>7, <1>8

(* In the tail.                                                            *)
LEMMA InTail ==
  ASSUME NumberInv, state \in Ending
  PROVE  /\ NumberTyped /\ text \in Seq(Alphabet) /\ sign = SignOf(text)
         /\ Count \in Int /\ NumeralEnd(Body(text)) \in Int
         /\ TailPart(text) \in Seq(Alphabet)
         /\ \E z \in 1..Len(TailPart(text)) :
              /\ z = Count - NumeralEnd(Body(text))
              /\ EndAs(text, state, acc, frac, base, prefix, z)
              /\ z = Len(TailPart(text)) => c = Null
              /\ z < Len(TailPart(text)) => c = TailPart(text)[z + 1] /\ c # Null
<1>1. NumberTyped /\ text \in Seq(Alphabet) /\ pos \in Nat
  BY DEF NumberInv, NumberTyped
<1> DEFINE z == Count - NumeralEnd(Body(text))
           e == NumeralEnd(Body(text))
           tail == TailPart(text)
           st == Start(text)
           u == Body(text)
<1>2. sign = SignOf(text) /\ EndAs(text, state, acc, frac, base, prefix, z)
  BY DEF NumberInv
<1>3. z \in 1..Len(tail)
  BY <1>2 DEF EndAs
<1>4. /\ st \in 0..Len(text) /\ Len(u) = Len(text) - st
      /\ \A j \in 1..(Len(text) - st) : u[j] = text[st + j]
  BY <1>1, BodyIs
<1>5. /\ e \in 0..Len(u) /\ tail \in Seq(Alphabet) /\ Len(tail) = Len(u) - e
      /\ \A j \in 1..(Len(u) - e) : tail[j] = u[e + j]
  BY <1>1, StemIs
<1>6. z = pos - 1 - st - e /\ Count = pos - 1 - st
  BY DEF Count
<1>7. Len(text) \in Nat
  BY <1>1, LenProperties
<1> HIDE DEF z, e, tail, st, u
<1>8. Count \in Int /\ e \in Int
  BY <1>1, <1>4, <1>5, <1>6, <1>7
<1>9. z = Len(tail) => c = Null
  <2> SUFFICES ASSUME z = Len(tail) PROVE c = Null
    OBVIOUS
  <2>1. pos > Len(text)
    BY <1>1, <1>4, <1>5, <1>6, <1>7
  <2> QED
    BY <2>1 DEF c
<1>10. z < Len(tail) => c = tail[z + 1] /\ c # Null
  <2> SUFFICES ASSUME z < Len(tail) PROVE c = tail[z + 1] /\ c # Null
    OBVIOUS
  <2>1. /\ z + 1 \in 1..(Len(u) - e) /\ e + (z + 1) \in 1..(Len(text) - st)
        /\ st + (e + (z + 1)) = pos /\ pos \in 1..Len(text)
    BY <1>1, <1>3, <1>4, <1>5, <1>6, <1>7
  <2>2. tail[z + 1] = text[pos]
    BY <1>4, <1>5, <2>1
  <2>3. text[pos] \in Alphabet /\ ~(pos > Len(text))
    BY <1>1, <1>7, <2>1
  <2>4. c = text[pos]
    BY <2>3 DEF c
  <2> QED
    BY <2>2, <2>3, <2>4, CharsAre
<1>11. z = Count - e
  BY DEF z, e
<1> QED
  BY <1>1, <1>2, <1>3, <1>5, <1>8, <1>9, <1>10, <1>11 DEF tail, e

(* The factor of a tail, z characters of which are its blanks.             *)
LEMMA PrefixFactor ==
  ASSUME NEW tail \in Seq(Alphabet), NEW z \in 1..Len(tail), \A j \in 2..z : tail[j] = Blank,
         tail[1] \in PrefixChars, z < Len(tail) => tail[z + 1] # Blank, NEW s, NEW n
  PROVE  Factor(tail, s, n) = IF ~n.is_float /\ z < Len(tail) /\ tail[z + 1] = "i"
                              THEN BinPrefix[tail[1]] ELSE Prefix[tail[1]]
<1>1. Len(tail) \in Nat /\ \A j \in 1..Len(tail) : tail[j] \in Alphabet
  BY LenProperties, ElementOfSeq
<1>2. tail[1] # Blank /\ 1 \in 1..Len(tail) /\ DOMAIN tail = 1..Len(tail) /\ tail # <<>>
  <2>1. Blank \notin PrefixChars
    BY CharsAre DEF Blank
  <2>2. tail # <<>>
    BY <1>1
  <2> QED
    BY <1>1, <2>1, <2>2
<1>3. ~Only(tail, {Blank})
  BY <1>2 DEF Only
<1> DEFINE rest == After(tail, 1)
<1>4. 1 \in 0..Len(tail)
  BY <1>1
<1>5. /\ rest \in Seq(Alphabet) /\ Len(rest) = Len(tail) - 1
      /\ \A j \in 1..(Len(tail) - 1) : rest[j] = tail[1 + j]
  BY <1>4, AfterIs
<1> HIDE DEF rest
<1>6. PICK k \in 0..Len(rest) : k = z - 1 /\ k + 1 = z
  BY <1>1, <1>5
<1>7. IsFirst(rest, Alphabet \ {Blank}, k)
  <2>1. ASSUME NEW j \in 1..Len(rest), j <= k PROVE rest[j] = Blank
    <3>1. 1 + j \in 2..z /\ j \in 1..(Len(tail) - 1)
      BY <1>1, <1>5, <1>6, <2>1
    <3> QED
      BY <1>5, <3>1
  <2>2. ASSUME k < Len(rest) PROVE rest[k + 1] \in Alphabet \ {Blank}
    <3>1. z \in 1..(Len(tail) - 1) /\ 1 + z = z + 1 /\ z < Len(tail) /\ z + 1 \in 1..Len(tail)
      BY <1>1, <1>5, <1>6, <2>2
    <3>2. rest[z] = tail[z + 1]
      BY <1>5, <3>1
    <3> QED
      BY <1>1, <1>6, <3>1, <3>2
  <2> QED
    BY <2>1, <2>2 DEF IsFirst
<1>8. Len(rest) \in Nat
  BY <1>1, <1>5, <1>4
<1>9. Before(rest, Alphabet \ {Blank}) = k
  BY <1>7, <1>8, BeforeOnly
<1>10. IsBinary(tail) <=> z <= Len(rest) /\ rest[z] = "i"
  BY <1>6, <1>9 DEF IsBinary, rest
<1>11. IsBinary(tail) <=> z < Len(tail) /\ tail[z + 1] = "i"
  <2>1. z <= Len(rest) <=> z < Len(tail)
    BY <1>1, <1>5
  <2>2. ASSUME z < Len(tail) PROVE rest[z] = tail[z + 1]
    <3>1. z \in 1..(Len(tail) - 1) /\ 1 + z = z + 1
      BY <1>1, <2>2
    <3> QED
      BY <1>5, <3>1
  <2> QED
    BY <1>10, <2>1, <2>2
<1>12. Factor(tail, s, n) = IF ~n.is_float /\ IsBinary(tail)
                            THEN BinPrefix[tail[1]] ELSE Prefix[tail[1]]
  BY <1>2, <1>3 DEF Factor
<1> QED
  BY <1>11, <1>12

(* A blank more.                                                           *)
LEMMA TailGrows ==
  ASSUME NumberInv, Advance, state \in Ending, c = Blank, Goto(state)
  PROVE  NumberInv'
<1>1. /\ NumberTyped /\ text \in Seq(Alphabet) /\ sign = SignOf(text)
      /\ Count \in Int /\ NumeralEnd(Body(text)) \in Int /\ TailPart(text) \in Seq(Alphabet)
  BY InTail
<1> DEFINE tail == TailPart(text)
           e == NumeralEnd(Body(text))
<1>2. PICK z \in 1..Len(tail) :
        /\ z = Count - e
        /\ EndAs(text, state, acc, frac, base, prefix, z)
        /\ z = Len(tail) => c = Null
        /\ z < Len(tail) => c = tail[z + 1] /\ c # Null
  BY InTail
<1>3. Len(tail) \in Nat
  BY <1>1, LenProperties
<1>4. c # Null
  BY DEF Null, Blank
<1>5. PICK w \in 1..Len(tail) : w = z + 1 /\ \A j \in 2..w : j \in 2..z \/ j = w
  BY <1>2, <1>3, <1>4
<1>6. tail[w] = Blank
  BY <1>2, <1>3, <1>4, <1>5
<1>7. w = Count + 1 - e
  BY <1>1, <1>2, <1>5
<1>8. EndAs(text, state, acc, frac, base, prefix, w)
  <2>1. \A j \in 2..w : tail[j] = Blank
    BY <1>2, <1>5, <1>6 DEF EndAs
  <2> QED
    BY <1>2, <1>5, <2>1 DEF EndAs
<1> HIDE DEF tail
<1>9. /\ state' = state /\ acc' = acc /\ frac' = frac /\ base' = base
      /\ sign' = sign /\ prefix' = prefix
  BY DEF Goto
<1>10. Typed(state', acc', frac', base') /\ state' \in Ending /\ sign' = SignOf(text)
  BY <1>1, <1>9 DEF Typed, NumberTyped
<1>11. EndAs(text, state', acc', frac', base', prefix', w)
  BY <1>8, <1>9
<1> QED
  BY <1>1, <1>7, <1>10, <1>11, ToEnding

(* The end after blanks only.                                              *)
LEMMA BlanksMeaning ==
  ASSUME NEW t \in Seq(Alphabet), NEW z, z = Len(TailPart(t)),
         NEW st, NEW a, NEW f, NEW b, EndAs(t, st, a, f, b, Null, z)
  PROVE  Meaning(t) = Scaled(Numeral(Stem(t), Signed(t)), 1, Minus(t))
<1> DEFINE tail == TailPart(t)
           s == Stem(t)
<1>1. tail \in Seq(Alphabet) /\ s \in Seq(Alphabet)
  BY StemIs
<1>2. /\ z \in 1..Len(tail) /\ \A j \in 2..z : tail[j] = Blank
      /\ tail[1] = Blank /\ ~DecimalForm(s) /\ s # <<"0">>
  BY DEF EndAs
<1>3. z = Len(tail)
  OBVIOUS
<1>4. Meaning(t) = Scaled(Numeral(s, Signed(t)), Factor(tail, s, Numeral(s, Signed(t))), Minus(t))
  BY MeaningIs
<1> HIDE DEF tail, s
<1>5. DOMAIN tail = 1..Len(tail) /\ Len(tail) \in Nat
  BY <1>1, LenProperties
<1>6. \A j \in 1..Len(tail) : j = 1 \/ j \in 2..z
  BY <1>2, <1>3, <1>5
<1>7. Only(tail, {Blank})
  BY <1>2, <1>5, <1>6 DEF Only
<1>8. tail # <<>>
  BY <1>2, <1>5
<1>9. ~IsDecimal(s)
  BY <1>1, <1>2, DecimalIs
<1>10. tail[1] \notin PrefixChars
  BY <1>2, CharsAre DEF Blank
<1>11. \A n : Factor(tail, s, n) = 1
  BY <1>2, <1>7, <1>8, <1>9, <1>10 DEF Factor
<1> QED
  BY <1>4, <1>11 DEF s

(* Something else after blanks only.                                       *)
LEMMA RefuseTail ==
  ASSUME NEW t \in Seq(Alphabet), NEW z, z < Len(TailPart(t)), TailPart(t)[z + 1] # Blank,
         NEW st, NEW a, NEW f, NEW b, EndAs(t, st, a, f, b, Null, z)
  PROVE  IsRefused(t)
<1> DEFINE tail == TailPart(t)
<1>1. tail \in Seq(Alphabet) /\ Len(tail) \in Nat /\ DOMAIN tail = 1..Len(tail)
  BY StemIs, LenProperties
<1>2. z \in 1..Len(tail) /\ tail[1] = Blank
  BY DEF EndAs
<1>3. z < Len(tail) /\ tail[z + 1] # Blank
  OBVIOUS
<1> HIDE DEF tail
<1>4. z + 1 \in DOMAIN tail
  BY <1>1, <1>2, <1>3
<1>5. ~Only(tail, {Blank})
  BY <1>3, <1>4 DEF Only
<1>6. tail[1] \notin PrefixChars
  BY <1>2, CharsAre DEF Blank
<1>7. tail # <<>>
  BY <1>1, <1>2
<1>8. \A n : Factor(tail, Stem(t), n) = 0
  BY <1>5, <1>6, <1>7 DEF Factor
<1> QED
  BY <1>8, BadTail DEF tail

LEMMA FromEndUintStep ==
  ASSUME NumberInv, Advance, FromEndUint
  PROVE  NumberInv'
<1>1. state = "END_UINT" /\ state \in Ending
  BY DEF FromEndUint, Ending
<1>2. /\ NumberTyped /\ text \in Seq(Alphabet) /\ sign = SignOf(text)
      /\ TailPart(text) \in Seq(Alphabet)
  BY <1>1, InTail
<1> DEFINE tail == TailPart(text)
           n == [val |-> acc, by |-> 1, is_float |-> FALSE]
<1>3. PICK z \in 1..Len(tail) :
        /\ EndAs(text, state, acc, frac, base, prefix, z)
        /\ z = Len(tail) => c = Null
        /\ z < Len(tail) => c = tail[z + 1] /\ c # Null
  BY <1>1, InTail
<1>4. Numeral(Stem(text), Signed(text)) = n
  BY <1>1, <1>3 DEF EndAs
<1>5. n.is_float = FALSE
  OBVIOUS
<1> HIDE DEF tail, n
<1>6. z <= Len(tail) /\ Len(tail) \in Nat
  BY <1>2, <1>3, LenProperties DEF tail
<1>7. Blank # Null
  BY DEF Blank, Null
<1>8. CASE c = Blank
  <2>1. Goto("END_UINT")
    BY <1>7, <1>8 DEF FromEndUint
  <2> QED
    BY <1>1, <1>8, <2>1, TailGrows
<1>9. CASE c # Blank /\ prefix # Null
  <2> DEFINE f == IF c = "i" THEN BinPrefix[prefix] ELSE Prefix[prefix]
  <2>1. /\ state' = "FINISHED_UINT" /\ acc' = (acc * f) % Size
        /\ frac' = frac /\ base' = base /\ sign' = sign /\ prefix' = prefix
    BY <1>9 DEF FromEndUint
  <2>2. /\ \A j \in 2..z : tail[j] = Blank
        /\ tail[1] = prefix /\ prefix \in PrefixChars
    BY <1>3, <1>9 DEF EndAs, tail
  <2>3. f \in Nat \ {0}
    BY <2>2, CharsAre
  <2>4. c = "i" <=> z < Len(tail) /\ tail[z + 1] = "i"
    <3>1. Null # "i"
      BY DEF Null
    <3> QED
      BY <1>3, <1>6, <3>1
  <2>5. z < Len(tail) => tail[z + 1] # Blank
    BY <1>3, <1>9
  <2>6. Factor(tail, Stem(text), n) = IF ~n.is_float /\ z < Len(tail) /\ tail[z + 1] = "i"
                                      THEN BinPrefix[tail[1]] ELSE Prefix[tail[1]]
    <3>1. tail \in Seq(Alphabet)
      BY <1>2 DEF tail
    <3> QED
      BY <1>3, <2>2, <2>5, <3>1, PrefixFactor
  <2>7. Factor(tail, Stem(text), n) = f
    BY <1>5, <2>2, <2>4, <2>6
  <2>8. Meaning(text) = Scaled(n, f, Minus(text))
    BY <1>4, <2>7, MeaningIs DEF tail
  <2> HIDE DEF f
  <2>9. acc \in 0..(Size - 1) /\ sign' = IF Minus(text) THEN -1 ELSE 1
    BY <1>2, <2>1 DEF NumberTyped, SignOf
  <2>10. PICK r : r = Times(acc, f) /\ acc' = r
    BY <2>1 DEF Times
  <2>11. Answer("FINISHED_UINT", r, frac', base', sign') = Scaled(n, f, Minus(text))
    <3>1. PICK g \in Nat \ {0} : g = f /\ r = Times(acc, g)
      BY <2>3, <2>10
    <3>2. PICK minus \in BOOLEAN, sg \in {-1, 1} :
            minus = Minus(text) /\ sg = sign' /\ sg = IF minus THEN -1 ELSE 1
      BY <2>9, MinusBoolean
    <3>3. acc \in 0..(Size - 1) /\ r = Times(acc, g)
      BY <2>9, <3>1
    <3>4. Answer("FINISHED_UINT", r, frac', base', sg)
            = Scaled([val |-> acc, by |-> 1, is_float |-> FALSE], g, minus)
      BY <3>2, <3>3, ResultUint
    <3> QED
      BY <3>1, <3>2, <3>4 DEF n
  <2>12. Answer(state', acc', frac', base', sign') = Meaning(text)
    BY <2>1, <2>8, <2>10, <2>11
  <2>13. acc' \in 0..(Size - 1)
    <3>1. acc * f \in Nat /\ Size \in Nat \ {0}
      BY <2>3, <2>9, NumberAssumption
    <3> QED
      BY <2>1, <3>1
  <2>14. Typed(state', acc', frac', base') /\ state' \in Finished
    BY <1>2, <2>1, <2>13 DEF Typed, NumberTyped, Finished
  <2> QED
    BY <1>2, <2>1, <2>12, <2>14, ToFinished
<1>10. CASE c = Null /\ prefix = Null
  <2>1. Goto("FINISHED_UINT")
    BY <1>7, <1>10 DEF FromEndUint
  <2>2. z = Len(tail)
    BY <1>3, <1>6, <1>10
  <2>3. EndAs(text, state, acc, frac, base, Null, z)
    BY <1>3, <1>10
  <2>4. Meaning(text) = Scaled(n, 1, Minus(text))
    BY <1>2, <1>4, <2>2, <2>3, BlanksMeaning DEF tail
  <2>5. acc \in 0..(Size - 1) /\ sign' = IF Minus(text) THEN -1 ELSE 1
    BY <1>2, <2>1 DEF NumberTyped, SignOf, Goto
  <2>6. acc = Times(acc, 1)
    BY <2>5, NumberAssumption DEF Times
  <2>7. Answer("FINISHED_UINT", acc, frac', base', sign') = Scaled(n, 1, Minus(text))
    BY <2>5, <2>6, MinusBoolean, ResultUint DEF n
  <2>8. Answer(state', acc', frac', base', sign') = Meaning(text)
    BY <2>1, <2>4, <2>7 DEF Goto
  <2>9. Typed(state', acc', frac', base') /\ state' \in Finished /\ sign' = sign
    BY <1>2, <2>1 DEF Typed, NumberTyped, Finished, Goto
  <2> QED
    BY <1>2, <2>8, <2>9, ToFinished
<1>11. CASE c # Blank /\ c # Null /\ prefix = Null
  <2>1. Goto("NONE")
    BY <1>11 DEF FromEndUint
  <2>2. z < Len(tail) /\ tail[z + 1] # Blank
    BY <1>3, <1>6, <1>11
  <2>3. EndAs(text, state, acc, frac, base, Null, z)
    BY <1>3, <1>11
  <2>4. IsRefused(text)
    BY <1>2, <2>2, <2>3, RefuseTail DEF tail
  <2> QED
    BY <1>2, <2>1, <2>4, ToNone
<1> QED
  BY <1>8, <1>9, <1>10, <1>11

LEMMA FromEndFloatStep ==
  ASSUME NumberInv, Advance, FromEndFloat
  PROVE  NumberInv'
<1>1. state = "END_FLOAT" /\ state \in Ending
  BY DEF FromEndFloat, Ending
<1>2. /\ NumberTyped /\ text \in Seq(Alphabet) /\ sign = SignOf(text)
      /\ TailPart(text) \in Seq(Alphabet)
  BY <1>1, InTail
<1> DEFINE tail == TailPart(text)
           n == [val |-> frac, by |-> base, is_float |-> TRUE]
<1>3. PICK z \in 1..Len(tail) :
        /\ EndAs(text, state, acc, frac, base, prefix, z)
        /\ z = Len(tail) => c = Null
        /\ z < Len(tail) => c = tail[z + 1] /\ c # Null
  BY <1>1, InTail
<1>4. Numeral(Stem(text), Signed(text)) = n
  BY <1>1, <1>3 DEF EndAs
<1>5. n.is_float = TRUE
  OBVIOUS
<1> HIDE DEF tail, n
<1>6. z <= Len(tail) /\ Len(tail) \in Nat
  BY <1>2, <1>3, LenProperties DEF tail
<1>7. Blank # Null
  BY DEF Blank, Null
<1>12. frac \in Nat /\ base \in Nat \ {0}
  BY <1>2 DEF NumberTyped
<1>8. CASE c = Blank
  <2>1. Goto("END_FLOAT")
    BY <1>7, <1>8 DEF FromEndFloat
  <2> QED
    BY <1>1, <1>8, <2>1, TailGrows
<1>9. CASE c # Blank /\ prefix # Null
  <2> DEFINE f == Prefix[prefix]
  <2>1. /\ state' = "FINISHED_FLOAT" /\ frac' = frac * f
        /\ acc' = acc /\ base' = base /\ sign' = sign /\ prefix' = prefix
    BY <1>9 DEF FromEndFloat
  <2>2. /\ \A j \in 2..z : tail[j] = Blank
        /\ tail[1] = prefix /\ prefix \in PrefixChars
    BY <1>3, <1>9 DEF EndAs, tail
  <2>3. f \in Nat \ {0}
    BY <2>2, CharsAre
  <2>5. z < Len(tail) => tail[z + 1] # Blank
    BY <1>3, <1>9
  <2>6. Factor(tail, Stem(text), n) = IF ~n.is_float /\ z < Len(tail) /\ tail[z + 1] = "i"
                                      THEN BinPrefix[tail[1]] ELSE Prefix[tail[1]]
    <3>1. tail \in Seq(Alphabet)
      BY <1>2 DEF tail
    <3> QED
      BY <1>3, <2>2, <2>5, <3>1, PrefixFactor
  <2>7. Factor(tail, Stem(text), n) = f
    BY <1>5, <2>2, <2>6
  <2>8. Meaning(text) = Scaled(n, f, Minus(text))
    BY <1>4, <2>7, MeaningIs DEF tail
  <2> HIDE DEF f
  <2>9. sign' = IF Minus(text) THEN -1 ELSE 1
    BY <1>2, <2>1 DEF SignOf
  <2>10. PICK r : r = frac * f /\ frac' = r
    BY <2>1
  <2>11. Answer("FINISHED_FLOAT", acc', r, base, sign') = Scaled(n, f, Minus(text))
    <3>4. PICK v \in Nat : v = frac
      BY <1>12
    <3>5. PICK b \in Nat \ {0} : b = base
      BY <1>12
    <3>6. PICK g \in Nat \ {0} : g = f
      BY <2>3
    <3>1. r = Product(v, g)
      BY <2>10, <3>4, <3>6 DEF Product
    <3>2. PICK minus \in BOOLEAN, sg \in {-1, 1} :
            minus = Minus(text) /\ sg = sign' /\ sg = IF minus THEN -1 ELSE 1
      BY <2>9, MinusBoolean
    <3>3. Answer("FINISHED_FLOAT", acc', r, b, sg)
            = Scaled([val |-> v, by |-> b, is_float |-> TRUE], g, minus)
      BY <3>1, <3>2, ResultFloat, SMTT(30)
    <3>7. n = [val |-> v, by |-> b, is_float |-> TRUE]
      BY <3>4, <3>5 DEF n
    <3>8. Scaled(n, f, Minus(text)) = Scaled([val |-> v, by |-> b, is_float |-> TRUE], g, minus)
      BY <3>2, <3>6, <3>7, Zenon
    <3> HIDE DEF n
    <3> QED
      BY <3>2, <3>3, <3>5, <3>8, Zenon
  <2>12. Answer(state', acc', frac', base', sign') = Meaning(text)
    BY <2>1, <2>8, <2>10, <2>11
  <2>13. frac' \in Nat
    BY <1>12, <2>1, <2>3
  <2>14. Typed(state', acc', frac', base') /\ state' \in Finished
    BY <1>2, <2>1, <2>13 DEF Typed, NumberTyped, Finished
  <2> QED
    BY <1>2, <2>1, <2>12, <2>14, ToFinished
<1>10. CASE c = Null /\ prefix = Null
  <2>1. Goto("FINISHED_FLOAT")
    BY <1>7, <1>10 DEF FromEndFloat
  <2>2. z = Len(tail)
    BY <1>3, <1>6, <1>10
  <2>3. EndAs(text, state, acc, frac, base, Null, z)
    BY <1>3, <1>10
  <2>4. Meaning(text) = Scaled(n, 1, Minus(text))
    BY <1>2, <1>4, <2>2, <2>3, BlanksMeaning DEF tail
  <2>5. sign' = IF Minus(text) THEN -1 ELSE 1
    BY <1>2, <2>1 DEF SignOf, Goto
  <2>6. frac = Product(frac, 1)
    BY <1>12 DEF Product
  <2>7. Answer("FINISHED_FLOAT", acc', frac, base, sign') = Scaled(n, 1, Minus(text))
    BY <1>12, <2>5, <2>6, MinusBoolean, ResultFloat DEF n
  <2>8. Answer(state', acc', frac', base', sign') = Meaning(text)
    BY <2>1, <2>4, <2>7 DEF Goto
  <2>9. Typed(state', acc', frac', base') /\ state' \in Finished /\ sign' = sign
    BY <1>2, <2>1 DEF Typed, NumberTyped, Finished, Goto
  <2> QED
    BY <1>2, <2>8, <2>9, ToFinished
<1>11. CASE c # Blank /\ c # Null /\ prefix = Null
  <2>1. Goto("NONE")
    BY <1>11 DEF FromEndFloat
  <2>2. z < Len(tail) /\ tail[z + 1] # Blank
    BY <1>3, <1>6, <1>11
  <2>3. EndAs(text, state, acc, frac, base, Null, z)
    BY <1>3, <1>11
  <2>4. IsRefused(text)
    BY <1>2, <2>2, <2>3, RefuseTail DEF tail
  <2> QED
    BY <1>2, <2>1, <2>4, ToNone
<1> QED
  BY <1>8, <1>9, <1>10, <1>11

-----------------------------------------------------------------------------
LEMMA NumberStarts ==
  ASSUME NEW t \in Texts, NumberInit(t)
  PROVE  NumberInv
<1>1. text \in Seq(Alphabet)
  <2>1. t \in UNION {[1..m -> Alphabet] : m \in 0..MaxText}
    BY DEF Texts, BoundedSeq, SeqOf
  <2>2. \A m \in 0..MaxText : m \in Nat
    BY NumberAssumption
  <2>3. t \in Seq(Alphabet)
    BY <2>1, <2>2, SeqDef
  <2> QED
    BY <2>3 DEF NumberInit
<1>2. NumberTyped
  BY <1>1, NumberAssumption DEF NumberTyped, NumberInit, Finished
<1>3. Len(text) \in Nat
  BY <1>1, LenProperties
<1>4. CASE text = <<>>
  <2>1. Body(text) = <<>> /\ TailPart(text) = <<>> /\ Stem(text) = <<>>
    <3>1. Len(text) = 0
      BY <1>4
    <3>2. Start(text) \in 0..0 /\ Body(text) \in Seq(Alphabet) /\ Len(Body(text)) = 0 - Start(text)
      BY <1>1, <3>1, BodyIs
    <3>3. Body(text) = <<>>
      BY <3>2
    <3>4. /\ NumeralEnd(Body(text)) \in 0..0
          /\ Stem(text) \in Seq(Alphabet) /\ Len(Stem(text)) = NumeralEnd(Body(text))
          /\ TailPart(text) \in Seq(Alphabet) /\ Len(TailPart(text)) = 0 - NumeralEnd(Body(text))
      BY <1>1, <3>3, StemIs
    <3> QED
      BY <3>3, <3>4
  <2>2. ~Formed(Stem(text), Signed(text))
    BY <1>1, <2>1, BodyIs, StemIs, BadFirst
  <2>3. IsRefused(text)
    BY <1>1, <2>2, Unformed
  <2>4. state = "NONE" /\ num_result = Meaning(text)
    BY <1>4, <2>3 DEF NumberInit, IsRefused, num_result
  <2> QED
    BY <1>2, <2>4 DEF NumberInv, ReadingStates, Ending
<1>5. CASE text # <<>>
  <2>1. state = "INIT" /\ pos = 1 /\ sign = 1 /\ prefix = Null /\ acc = 0 /\ base = 1
    BY <1>5 DEF NumberInit
  <2>2. pos <= Len(text) + 1 /\ \A j \in 1..Len(text) : j < pos => text[j] = Blank
    BY <1>3, <2>1
  <2> QED
    BY <1>2, <2>1, <2>2 DEF NumberInv, ReadingStates, Ending, Finished
<1> QED
  BY <1>4, <1>5

LEMMA NumberStep ==
  NumberInv /\ [NumberNext]_number_vars => NumberInv'
<1> SUFFICES ASSUME NumberInv, [NumberNext]_number_vars PROVE NumberInv'
  OBVIOUS
<1>1. CASE NumberNext
  <2>1. Advance
    BY <1>1 DEF NumberNext, Advance
  <2>2. \/ FromInit \/ FromSign \/ FromSignedZero \/ FromInitZero \/ FromDecDigits
        \/ FromDigits \/ FromFloDigits \/ FromEndUint \/ FromEndFloat
    BY <1>1 DEF NumberNext
  <2> QED
    BY <2>1, <2>2, FromInitStep, FromSignStep, FromSignedZeroStep, FromInitZeroStep,
       FromDecDigitsStep, FromDigitsStep, FromFloDigitsStep, FromEndUintStep, FromEndFloatStep
<1>2. CASE UNCHANGED number_vars
  BY <1>2 DEF number_vars, NumberInv, NumberTyped, Count, Consumed, num_result
<1> QED
  BY <1>1, <1>2

(* Every text is read as what it means, of whatever length and with        *)
(* whatever characters, modulo whatever Size.                              *)
THEOREM NumbersAsWritten == NumberSpec => []NumberAsWritten
<1>1. (\E t \in Texts : NumberInit(t)) => NumberInv
  BY NumberStarts
<1>2. NumberInv /\ [NumberNext]_number_vars => NumberInv'
  BY NumberStep
<1>3. NumberInv => NumberAsWritten
  BY DEF NumberInv, NumberAsWritten
<1> QED
  BY <1>1, <1>2, <1>3, PTL DEF NumberSpec
=============================================================================
