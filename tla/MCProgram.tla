----------------------------- MODULE MCProgram -----------------------------
(* camio_cat from its command line on, in one run: each behaviour is one   *)
(* of the parser of numbers, of descriptions or of options, or of the loop *)
(* (CamioCat), as part says; the other parts stay as they are at first.    *)
EXTENDS MCCamioCat, Options, DescrParser

(* Those of camio_cat, without the outputs, and one of each other kind.    *)
SomeDefs ==
  [i |-> [mode |-> "UNLIMITED", type |-> "STRINGS", default |-> <<"z">>],
   s |-> [mode |-> "OPTIONAL", type |-> "STRING", default |-> <<"z">>],
   n |-> [mode |-> "OPTIONAL", type |-> "INT64S", default |-> 7],
   d |-> [mode |-> "OPTIONAL", type |-> "DOUBLE", default |-> <<7, 1>>],
   l |-> [mode |-> "OPTIONAL", type |-> "DOUBLES", default |-> <<7, 1>>],
   u |-> [mode |-> "REQUIRED", type |-> "UINT64", default |-> 7],
   b |-> [mode |-> "OPTIONAL", type |-> "BOOL", default |-> FALSE],
   f |-> [mode |-> "FLAG", type |-> "BOOL", default |-> FALSE]]
(* Besides all the short command lines, one that has the flag three times  *)
(* and the required option.                                                *)
OfFlag == {[opt |-> "f", long |-> l, arg |-> NoText] : l \in BOOLEAN}
OfRequired == [opt |-> "u", long |-> FALSE, arg |-> <<"1">>]
FlagLines == {<<a, b, e, OfRequired>> : a \in OfFlag, b \in OfFlag, e \in OfFlag}

(* One with the highest bit of a number of 12 bits set among them.         *)
SomeArguments ==
  {<<"1">>, <<"-", "1">>, <<"1", ".", "1">>, <<"SP", "0", "x", "a", "b", "b">>}

VARIABLE part

mc_vars == <<part, vars, number_vars, descr_vars, options_vars>>

(* A loop that waits for its ring.                                         *)
Idle ==
  /\ setup = CHOOSE s \in Setups : s.inputs = {"a", "ring"}
  /\ lines = [f \in Files |-> <<>>]

MCInit ==
  \/ /\ part = "cat" /\ Init
     /\ NumberInit(<<>>) /\ DescrInit(<<>>) /\ OptionsInit(<<>>)
  \/ /\ part = "number" /\ \E t \in Texts : NumberInit(t)
     /\ Idle /\ Init /\ DescrInit(<<>>) /\ OptionsInit(<<>>)
  \/ /\ part = "description" /\ \E d \in Descriptions : DescrInit(d)
     /\ Idle /\ Init /\ NumberInit(<<>>) /\ OptionsInit(<<>>)
  \/ /\ part = "options" /\ \E a \in CommandLines \union FlagLines : OptionsInit(a)
     /\ Idle /\ Init /\ NumberInit(<<>>) /\ DescrInit(<<>>)

MCNext ==
  /\ UNCHANGED part
  /\ \/ part = "cat" /\ Next /\ UNCHANGED <<number_vars, descr_vars, options_vars>>
     \/ part = "number" /\ NumberNext /\ UNCHANGED <<vars, descr_vars, options_vars>>
     \/ part = "description" /\ DescrNext /\ UNCHANGED <<vars, number_vars, options_vars>>
     \/ part = "options" /\ OptionsNext /\ UNCHANGED <<vars, number_vars, descr_vars>>

(* The fairness of CamioCat's FairSpec.                                    *)
MCSpec == MCInit /\ [][MCNext]_mc_vars /\ WF_vars(part = "cat" /\ Cat)
=============================================================================
