------------------------------- MODULE Netmap -------------------------------
(***************************************************************************)
(* A program that forwards frames from a netmap istream to a netmap        *)
(* ostream of the same interface memory, and the driver on the other side  *)
(* of the rings.  It may copy a frame into the buffer start_write returns, *)
(* assign a buffer from elsewhere, or assign the very buffer the frame     *)
(* arrived in: then end_write puts that buffer into the transmit slot and  *)
(* returns the one that was there, which the caller passes to end_read as  *)
(* the buffer of the receive slot.                                         *)
(*                                                                         *)
(* The driver is external: it sees the transmit rings during the calls of  *)
(* NIOCTXSYNC and poll, up to head, and sends what it has been given in    *)
(* its own time; it fills the receive slots it was given back by           *)
(* NIOCRXSYNC.  Positions in a ring are indexes 0..N-1, as in the code.    *)
(* The names carry the prefix nm where the module Ostream has the same.    *)
(***************************************************************************)
EXTENDS Integers, Sequences

CONSTANTS N,          \* nm_tx_slots, nm_rx_slots
          TxRings,    \* the transmit rings, begin..end-1
          MaxFrames   \* bound on the frames that arrive

ASSUME NetmapAssumption ==
  /\ N \in Nat /\ N >= 2
  /\ TxRings \subseteq Nat /\ TxRings # {}
  /\ MaxFrames \in Nat

VARIABLES
  cur, head, tail,    \* of every transmit ring
  given,              \* driver: up to where it knows of frames to send
  sent,               \* driver: up to where it has sent them
  rx_cur, rx_tail,    \* of the receive ring, whose head is always cur
  filled,             \* driver: up to where it has received
  limit,              \* driver: the slot it may not fill
  buf_idx,            \* the buffer of every slot
  content,            \* the frame in every buffer, 0 for none
  arrived,            \* frames received so far, which are numbered
  nm_pc,              \* "idle"; "read": has a frame; "copy", "swap", "outside":
                      \* the way the caller forwards it, waiting for a slot;
                      \* "filled"; "written"; "closed"; "exited"
  ring_num,           \* the transmit ring of the packet that is held
  result,             \* the buffer end_write returned, None if NULL
  committed,          \* history: the frames end_write took, by ring
  swapped,            \* history: the last of them was swapped in, by ring
  transmitted         \* history: the frames the driver sent, by ring

tx_ring == <<cur, head, tail, given, sent>>
rx_ring == <<rx_cur, rx_tail, filled, limit>>
memory == <<buf_idx, content, arrived>>
logs == <<committed, swapped, transmitted>>
nm_vars == <<tx_ring, rx_ring, memory, nm_pc, ring_num, result, logs>>

Slots == 0..(N - 1)
Rx == -1                    \* the receive ring, among the rings
TxSlots == TxRings \X Slots
RxSlots == {Rx} \X Slots
Places == TxSlots \union RxSlots
Buffers == Places           \* a buffer is named by the slot it starts in
None == <<>>
Frames == 1..MaxFrames

Succ(i) == IF i + 1 = N THEN 0 ELSE i + 1      \* nm_ring_next
Pred(i) == IF i = 0 THEN N - 1 ELSE i - 1

Wanting == {"copy", "swap", "outside"}

NmTypeOK ==
  /\ \A x \in {cur, head, tail, given, sent} : x \in [TxRings -> Slots]
  /\ {rx_cur, rx_tail, filled, limit} \subseteq Slots
  /\ buf_idx \in [Places -> Buffers]
  /\ content \in [Buffers -> 0..MaxFrames]
  /\ arrived \in 0..MaxFrames
  /\ nm_pc \in {"idle", "read", "filled", "written", "closed", "exited"} \union Wanting
  /\ ring_num \in TxRings
  /\ result \in Buffers \union {None}
  /\ committed \in [TxRings -> Seq(0..MaxFrames)]
  /\ swapped \in [TxRings -> BOOLEAN]
  /\ transmitted \in [TxRings -> Seq(0..MaxFrames)]

NmInit ==
  /\ cur = [r \in TxRings |-> 0] /\ head = cur /\ given = cur /\ sent = cur
  /\ tail = [r \in TxRings |-> N - 1]
  /\ rx_cur = 0 /\ rx_tail = 0 /\ filled = 0 /\ limit = N - 1
  /\ buf_idx = [p \in Places |-> p]
  /\ content = [b \in Buffers |-> 0]
  /\ arrived = 0
  /\ nm_pc = "idle"
  /\ ring_num \in TxRings
  /\ result = None
  /\ committed = [r \in TxRings |-> <<>>]
  /\ swapped = [r \in TxRings |-> FALSE]
  /\ transmitted = [r \in TxRings |-> <<>>]

-----------------------------------------------------------------------------
(* The driver.                                                             *)

Receive ==
  /\ filled # limit /\ arrived < MaxFrames
  /\ arrived' = arrived + 1
  /\ content' = [content EXCEPT ![buf_idx[<<Rx, filled>>]] = arrived']
  /\ filled' = Succ(filled)
  /\ UNCHANGED <<tx_ring, rx_cur, rx_tail, limit, buf_idx, nm_pc, ring_num,
                 result, logs>>

Transmit(r) ==
  /\ sent[r] # given[r]
  /\ sent' = [sent EXCEPT ![r] = Succ(@)]
  /\ transmitted' = [transmitted EXCEPT ![r] = Append(@, content[buf_idx[<<r, sent[r]>>]])]
  /\ UNCHANGED <<cur, head, tail, given, rx_ring, memory, nm_pc, ring_num, result,
                 committed, swapped>>

(* ioctl(NIOCTXSYNC), when the heads of the rings are h: the driver learns *)
(* of the frames before them, and returns the slots of those it has sent.  *)
TxSync(h) ==
  /\ given' = h
  /\ tail' = [r \in TxRings |-> Pred(sent[r])]

-----------------------------------------------------------------------------
(* The istream.                                                            *)

(* start_read finds a frame.                                               *)
NmStartRead ==
  /\ nm_pc = "idle"
  /\ rx_cur # rx_tail
  /\ nm_pc' = "read"
  /\ UNCHANGED <<tx_ring, rx_ring, memory, ring_num, result, logs>>

(* prepare_next finds none and calls ioctl(NIOCRXSYNC).                    *)
RxSync ==
  /\ nm_pc = "idle"
  /\ rx_cur = rx_tail
  /\ rx_tail' = filled
  /\ limit' = Pred(rx_cur)
  /\ UNCHANGED <<tx_ring, rx_cur, filled, memory, nm_pc, ring_num, result, logs>>

(* The buffer that was returned is not put into the slot; a mutant of      *)
(* NmEndRead.                                                              *)
EndReadDropsBuffer ==
  /\ nm_pc = "written"
  /\ UNCHANGED buf_idx
  /\ rx_cur' = Succ(rx_cur)
  /\ result' = None
  /\ nm_pc' = "idle"
  /\ UNCHANGED <<tx_ring, rx_tail, filled, limit, content, arrived, ring_num, logs>>

(* end_read(result).                                                       *)
NmEndRead ==
  /\ nm_pc = "written"
  /\ buf_idx' = IF result = None THEN buf_idx
                ELSE [buf_idx EXCEPT ![<<Rx, rx_cur>>] = result]
  /\ rx_cur' = Succ(rx_cur)
  /\ result' = None
  /\ nm_pc' = "idle"
  /\ UNCHANGED <<tx_ring, rx_tail, filled, limit, content, arrived, ring_num, logs>>

-----------------------------------------------------------------------------
(* The ostream.                                                            *)

(* The caller goes for start_write ("copy"), or assigns the buffer of the  *)
(* frame ("swap") or one that is not of this memory ("outside").           *)
Forward ==
  /\ nm_pc = "read"
  /\ nm_pc' \in Wanting
  /\ UNCHANGED <<tx_ring, rx_ring, memory, ring_num, result, logs>>

NoSpace == \A r \in TxRings : cur[r] = tail[r]
(* get_free_slot: the first ring with space.                               *)
FirstFree(r) == cur[r] # tail[r] /\ \A q \in TxRings : q < r => cur[q] = tail[q]

(* get_free_slot without one: poll, which syncs, and blocks for 10 s.      *)
Poll ==
  /\ nm_pc \in Wanting /\ NoSpace
  /\ TxSync(head)
  /\ UNCHANGED <<cur, head, sent, rx_ring, memory, nm_pc, ring_num, result, logs>>

(* The 10 s are over when all that was given to the driver has been sent   *)
(* for long, and still no slot is free.                                    *)
PollTimesOut ==
  /\ nm_pc \in Wanting /\ NoSpace
  /\ given = head /\ sent = given
  /\ \A r \in TxRings : tail[r] = Pred(sent[r])
  /\ nm_pc' = "exited"
  /\ UNCHANGED <<tx_ring, rx_ring, memory, ring_num, result, logs>>

ThisFrame == content[buf_idx[<<Rx, rx_cur>>]]

(* A copy of the frame goes to the buffer of slot s: start_write and the   *)
(* caller's memcpy, or end_write with a buffer from outside.               *)
CopyTo(r) == content' = [content EXCEPT ![buf_idx[<<r, cur[r]>>]] = ThisFrame]

NmStartWrite ==
  /\ nm_pc = "copy"
  /\ \E r \in TxRings : FirstFree(r) /\ ring_num' = r /\ CopyTo(r)
  /\ nm_pc' = "filled"
  /\ UNCHANGED <<tx_ring, rx_ring, buf_idx, arrived, result, logs>>

(* The head left behind, as in EndWriteSwapped; a mutant of Commit.        *)
CommitKeepsHead(r) ==
  /\ cur' = [cur EXCEPT ![r] = Succ(@)]
  /\ UNCHANGED head
  /\ IF cur'[r] = tail[r] THEN TxSync(head') ELSE UNCHANGED <<given, tail>>
  /\ committed' = [committed EXCEPT ![r] = Append(@, ThisFrame)]
  /\ swapped' = [swapped EXCEPT ![r] = FALSE]
  /\ nm_pc' = "written"

(* The second half of end_write: the slot is committed, and the driver is  *)
(* told when the ring is full.                                             *)
Commit(r) ==
  /\ cur' = [cur EXCEPT ![r] = Succ(@)]
  /\ head' = [head EXCEPT ![r] = Succ(cur[r])]
  /\ IF cur'[r] = tail[r] THEN TxSync(head') ELSE UNCHANGED <<given, tail>>
  /\ committed' = [committed EXCEPT ![r] = Append(@, ThisFrame)]
  /\ swapped' = [swapped EXCEPT ![r] = FALSE]
  /\ nm_pc' = "written"

(* end_write after start_write; and of an assigned buffer from outside,    *)
(* which is copied.                                                        *)
EndWriteCopied ==
  /\ nm_pc = "filled"
  /\ Commit(ring_num)
  /\ UNCHANGED <<sent, rx_ring, memory, ring_num, result, transmitted>>

EndWriteOutside ==
  /\ nm_pc = "outside"
  /\ \E r \in TxRings : FirstFree(r) /\ ring_num' = r /\ CopyTo(r) /\ Commit(r)
  /\ UNCHANGED <<sent, rx_ring, buf_idx, arrived, result, transmitted>>

(* end_write of an assigned buffer of the interface: it changes places     *)
(* with the one of the slot.  cur moves on, head does not.                 *)
EndWriteSwapped ==
  /\ nm_pc = "swap"
  /\ \E r \in TxRings :
       /\ FirstFree(r)
       /\ ring_num' = r
       /\ result' = buf_idx[<<r, cur[r]>>]
       /\ buf_idx' = [buf_idx EXCEPT ![<<r, cur[r]>>] = buf_idx[<<Rx, rx_cur>>]]
       /\ cur' = [cur EXCEPT ![r] = Succ(@)]
       /\ committed' = [committed EXCEPT ![r] = Append(@, ThisFrame)]
       /\ swapped' = [swapped EXCEPT ![r] = TRUE]
  /\ nm_pc' = "written"
  /\ UNCHANGED <<head, tail, given, sent, rx_ring, content, arrived, transmitted>>

(* Without the flush; a mutant of NmClose.                                 *)
CloseNoFlush ==
  /\ nm_pc = "idle"
  /\ nm_pc' = "closed"
  /\ UNCHANGED <<tx_ring, rx_ring, memory, ring_num, result, logs>>

(* close() of the ostream: one NIOCTXSYNC, and 2 s for the driver.         *)
NmClose ==
  /\ nm_pc = "idle"
  /\ nm_pc' = "closed"
  /\ TxSync(head)
  /\ UNCHANGED <<cur, head, sent, rx_ring, memory, ring_num, result, logs>>

Driver == Receive \/ \E r \in TxRings : Transmit(r)
Istream == NmStartRead \/ RxSync \/ NmEndRead
Writer == Poll \/ PollTimesOut \/ NmStartWrite \/ EndWriteCopied \/ EndWriteOutside
            \/ EndWriteSwapped \/ NmClose

NmNext == Driver \/ Istream \/ Forward \/ Writer

NmSpec == NmInit /\ [][NmNext]_nm_vars

(* The driver sends what it was given.                                     *)
NmFairSpec == NmSpec /\ \A r \in TxRings : WF_nm_vars(Transmit(r))

-----------------------------------------------------------------------------
(* No buffer is in two slots, of whatever ring, but the one of the receive *)
(* slot between end_write and end_read, whose replacement is in no slot.   *)
NmInv ==
  /\ NmTypeOK
  /\ result # None => nm_pc = "written"
  /\ LET given_away == IF result = None THEN {} ELSE {<<Rx, rx_cur>>} IN
     \A p, q \in Places \ given_away :
       /\ p # q => buf_idx[p] # buf_idx[q]
       /\ buf_idx[p] # result

(* The driver sends, on each ring, the frames that were committed, in that *)
(* order, each as it was when it was committed: nobody writes to a buffer  *)
(* that waits to be sent, and no slot is sent twice or skipped.            *)
SentAsCommitted ==
  \A r \in TxRings :
    /\ Len(transmitted[r]) <= Len(committed[r])
    /\ \A k \in 1..Len(transmitted[r]) : transmitted[r][k] = committed[r][k]

(* The wait for a slot fails only if the last frame of every ring was      *)
(* swapped in: the driver has not been told of it.  Copied frames always   *)
(* make room, and take the swapped ones before them along.                 *)
TimeoutOnlyIfSwapped == nm_pc = "exited" => \A r \in TxRings : swapped[r]

(* All that was committed on a ring is sent in the end when the stream is  *)
(* closed, unless its last frame was swapped in.                           *)
SentAfterClose ==
  (nm_pc = "closed") ~>
    \A r \in TxRings : ~swapped[r] => transmitted[r] = committed[r]

=============================================================================
