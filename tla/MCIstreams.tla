----------------------------- MODULE MCIstreams -----------------------------
(* The istreams in one run: each behaviour is one of the log istream       *)
(* (LogIstream) or of one of the others (PacketIstream), as part says; the *)
(* other part stays as it is at first.                                     *)
EXTENDS LogIstream, PacketIstream

VARIABLE part

mc_vars == <<part, log_vars, vars>>

(* The input and the kind of the stream that is not there do not matter.   *)
MCInit ==
  /\ part \in {"log", "packet"}
  /\ (part = "packet" => input = [k \in Input |-> "c"]) /\ LogInit
  /\ (part = "log" => kind = "raw") /\ Init

MCNext ==
  /\ UNCHANGED part
  /\ \/ part = "log" /\ LogNext /\ UNCHANGED vars
     \/ part = "packet" /\ Next /\ UNCHANGED log_vars

(* The fairness of LogFairSpec and of FairSpec.                            *)
MCSpec ==
  /\ MCInit /\ [][MCNext]_mc_vars
  /\ WF_log_vars(part = "log" /\ ArriveByte)
  /\ WF_log_vars(part = "log" /\ HangUp)
  /\ WF_log_vars(part = "log" /\ Stream)
  /\ WF_vars(part = "packet" /\ (Prepare \/ HandOut))
  /\ WF_vars(part = "packet" /\ Ready /\ answer # "yes")
  /\ WF_vars(part = "packet" /\ StartRead /\ answer = "yes")
  /\ WF_vars(part = "packet" /\ EndRead)
=============================================================================
