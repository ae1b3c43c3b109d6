----------------------------- MODULE PacketQueue ----------------------------
(***************************************************************************)
(* What an istream of packets or ticks promises its reader, whatever the   *)
(* card or socket behind it: a queue for each port.  The records of a port *)
(* leave it in the order of their arrival, each of them once, and every    *)
(* one that carries data goes to the reader.  Packets are handed out one   *)
(* at a time, ticks as many together as have come.                         *)
(***************************************************************************)
EXTENDS Integers

CONSTANTS Ports,
          MaxRecords,  \* bound on the records of a port
          Classes      \* "data", and the kinds of record without any

VARIABLES ticks,       \* the records are ticks, not packets
          class,       \* class[p][n]: what the n-th record of port p carries
          arrived,     \* arrived[p]: the records that have arrived
          done,        \* done[p]: those that have left the queue
          returned     \* returned[p]: those the reader got

vars == <<ticks, class, arrived, done, returned>>

Records == 1..MaxRecords

Init ==
  /\ ticks \in BOOLEAN
  /\ class = [p \in Ports |-> [n \in Records |-> "data"]]
  /\ arrived = [p \in Ports |-> 0]
  /\ done = [p \in Ports |-> 0]
  /\ returned = [p \in Ports |-> {}]

Arrive(p, c) ==
  /\ arrived[p] < MaxRecords
  /\ arrived' = [arrived EXCEPT ![p] = @ + 1]
  /\ class' = [class EXCEPT ![p][arrived[p] + 1] = c]
  /\ UNCHANGED <<ticks, done, returned>>

(* The reader gets the records up to n: one, if they are packets.          *)
Return(p, n) ==
  LET batch == (done[p] + 1)..n IN
  /\ done[p] < n /\ n <= arrived[p]
  /\ ticks \/ n = done[p] + 1
  /\ \A m \in batch : class[p][m] = "data"
  /\ returned' = [returned EXCEPT ![p] = @ \union batch]
  /\ done' = [done EXCEPT ![p] = n]
  /\ UNCHANGED <<ticks, class, arrived>>

(* A record without data is dropped.                                       *)
Drop(p) ==
  /\ done[p] < arrived[p]
  /\ class[p][done[p] + 1] # "data"
  /\ done' = [done EXCEPT ![p] = @ + 1]
  /\ UNCHANGED <<ticks, class, arrived, returned>>

Next == \E p \in Ports : \/ \E c \in Classes : Arrive(p, c)
                         \/ \E n \in Records : Return(p, n)
                         \/ Drop(p)

Spec == Init /\ [][Next]_vars
=============================================================================
