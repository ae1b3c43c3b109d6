----------------------------- MODULE MCCamioCat -----------------------------
(* Command lines of camio_cat to check CamioCat with.                      *)
EXTENDS CamioCat

(* A file and a ring into one output that takes the buffer over; two files *)
(* into two outputs that copy and one that does not, last.                 *)
Working == {
  [inputs |-> {"a", "ring"}, outputs |-> 1, assigning |-> {1}],
  [inputs |-> {"a", "b"}, outputs |-> 3, assigning |-> {3}]}

(* A ring into an output that copies and one that takes the buffer over.   *)
RingToTwo == {[inputs |-> {"a", "ring"}, outputs |-> 2, assigning |-> {2}]}
=============================================================================
