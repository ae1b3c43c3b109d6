------------------------------- MODULE MCRing -------------------------------
(* The ring in one run: each behaviour is one of its slots and indices     *)
(* (RingStream) or of its file and the processes that open it (RingOpen),  *)
(* as part says; the other part stays as it is at first.                   *)
EXTENDS RingStream, RingOpen

VARIABLE part

mc_vars == <<part, vars, open_vars>>

MCInit == part \in {"stream", "open"} /\ Init /\ OpenInit

MCNext ==
  /\ UNCHANGED part
  /\ \/ part = "stream" /\ Next /\ UNCHANGED open_vars
     \/ part = "open" /\ OpenNext /\ UNCHANGED vars

(* The fairness of RingStream's FairSpec.                                  *)
MCSpec ==
  /\ MCInit /\ [][MCNext]_mc_vars
  /\ \A r \in Readers : WF_vars(part = "stream" /\ ReadStep(r))
=============================================================================
