---------------------------- MODULE LossyChannel ----------------------------
(***************************************************************************)
(* What the shared-memory ring of camio promises its users, with no ring   *)
(* in sight: one writer publishes a numbered sequence of records, and each *)
(* reader accepts some of them.  A reader sees records in order and never  *)
(* twice, it only sees published records that are among the Window newest, *)
(* and it misses a record only once the writer is more than Window records *)
(* ahead of the one it was due.  There is no flow control: Publish never   *)
(* waits for a reader.                                                     *)
(***************************************************************************)
EXTENDS Integers

CONSTANTS Window,      \* records the channel retains
          Readers,     \* the readers
          MaxRecords,  \* bound on the number of records published
          Sizes        \* the sizes a record may have

VARIABLES published,   \* number of records published so far
          sent,        \* sent[c]: the size record c was published with
          last         \* last[r]: the newest record r has accepted, 0 if none

vars == <<published, sent, last>>

Records == 1..MaxRecords

Init ==
  /\ published = 0
  /\ sent = [c \in Records |-> 0]
  /\ last = [r \in Readers |-> 0]

(* The writer appends one record; readers are not consulted.               *)
Publish ==
  /\ published < MaxRecords
  /\ published' = published + 1
  /\ \E size \in Sizes : sent' = [sent EXCEPT ![published + 1] = size]
  /\ UNCHANGED last

(* Reader r accepts record c: in order, still retained, and the successor  *)
(* of the previous one unless that successor is no longer retained.        *)
Accept(r, c) ==
  /\ last[r] < c
  /\ c <= published
  /\ published < c + Window
  /\ c = last[r] + 1 \/ last[r] + 1 + Window <= published
  /\ last' = [last EXCEPT ![r] = c]
  /\ UNCHANGED <<published, sent>>

Next == Publish \/ \E r \in Readers, c \in Records : Accept(r, c)

Spec == Init /\ [][Next]_vars
=============================================================================
