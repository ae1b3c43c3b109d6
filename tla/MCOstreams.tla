----------------------------- MODULE MCOstreams -----------------------------
(* The ostreams in one run: each behaviour is one of a stream on a         *)
(* descriptor (Ostream) or of one on netmap (Netmap), as is_netmap says.   *)
EXTENDS Ostream, Netmap

VARIABLE is_netmap

mc_vars == <<is_netmap, vars, nm_vars>>

MCInit ==
  /\ is_netmap \in BOOLEAN
  /\ Init /\ (is_netmap => kind = "raw")
  /\ NmInit /\ ring_num = 0

MCNext ==
  /\ UNCHANGED is_netmap
  /\ \/ ~is_netmap /\ Next /\ UNCHANGED nm_vars
     \/ is_netmap /\ NmNext /\ UNCHANGED vars

MCSpec ==
  /\ MCInit /\ [][MCNext]_mc_vars
  /\ WF_vars(Step)
  /\ \A r \in TxRings : WF_nm_vars(Transmit(r))
=============================================================================
