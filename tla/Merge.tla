------------------------------- MODULE Merge --------------------------------
(***************************************************************************)
(* What concatenating inputs into an output promises: the output is an     *)
(* interleaving of the inputs.  Of every input it has some records, each   *)
(* once and in order; of a lossless input it has all up to some point, as  *)
(* they are.  An input that is not lossless stores its records in turn in  *)
(* a few places, and a place may be stored to anew before its record is    *)
(* out: then the data of the record a lap later is found in it.            *)
(***************************************************************************)
EXTENDS Integers, Sequences

CONSTANTS Inputs,     \* the inputs, whose records are numbered from 1
          Lossless,   \* those that may neither skip nor change a record
          Lap,        \* the number of places of the others
          MaxRecord   \* bound on the number of records of an input

VARIABLE merged       \* the output: a sequence of [of, rec, data]

Taken(i) == {merged[k].rec : k \in {l \in DOMAIN merged : merged[l].of = i}}

Init == merged = <<>>

Append1(i, n, d) ==
  /\ \A m \in Taken(i) : m < n
  /\ d = n \/ (i \notin Lossless /\ d = n + Lap)
  /\ i \in Lossless => n = 1 \/ n - 1 \in Taken(i)
  /\ merged' = Append(merged, [of |-> i, rec |-> n, data |-> d])

Next == \E i \in Inputs, n, d \in 1..MaxRecord : Append1(i, n, d)

Spec == Init /\ [][Next]_merged
=============================================================================
