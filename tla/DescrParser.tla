---------------------------- MODULE DescrParser ----------------------------
(***************************************************************************)
(* camio_descr_parse (camio_descr.c): a stream description, as in          *)
(* "udp:127.0.0.1,opt1=1,opt2=4", cut into a protocol, a query and a list  *)
(* of options.  Each scan for a delimiter is a step.  The characters are   *)
(* the delimiters and others; the end of the string is a delimiter too.    *)
(***************************************************************************)
EXTENDS Integers, Sequences, SequencesExt

CONSTANTS DescrAlphabet,   \* the characters of the descriptions
          MaxDescr         \* bound on their length

ASSUME DescrAssumption == "end" \notin DescrAlphabet /\ MaxDescr \in Nat

VARIABLES
  descr_str,
  head_ptr,    \* characters before the head pointer
  scan,        \* what is scanned: "protocol", "query", "name", "value";
               \* "done", or "exited" when the program did
  protocol,
  query,       \* <<>> for NULL, or <<q>>
  opts         \* the list from opt_head: sequence of [name, value]

descr_vars == <<descr_str, head_ptr, scan, protocol, query, opts>>

Ends == [protocol |-> {":", ","}, query |-> {","}, name |-> {"="}, value |-> {","}]

Descriptions == BoundedSeq(DescrAlphabet, MaxDescr)

DescrInit(d) ==
  /\ descr_str = d
  /\ head_ptr = 0
  /\ scan = IF descr_str = <<>> THEN "exited" ELSE "protocol"
  /\ protocol = <<>> /\ query = <<>> /\ opts = <<>>

(* Where a scan from the head pointer stops, the character there, "end" *)
(* at the end, and what was scanned.                                       *)
Stop == Min({k - 1 : k \in {j \in (head_ptr + 1)..Len(descr_str) :
                              descr_str[j] \in Ends[scan]}} \union {Len(descr_str)})
Delimiter == IF Stop = Len(descr_str) THEN "end" ELSE descr_str[Stop + 1]
Scanned == SubSeq(descr_str, head_ptr + 1, Stop)

(* The head pointer skips the delimiter, if there is one, before the next  *)
(* scan.                                                                   *)
Continue(next) ==
  /\ scan' = next
  /\ head_ptr' = Stop + 1
  /\ UNCHANGED descr_str

ScanProtocol ==
  /\ scan = "protocol"
  /\ protocol' = Scanned
  /\ Continue(CASE Delimiter = "end" -> "done" [] Delimiter = "," -> "name" [] OTHER -> "query")
  /\ UNCHANGED <<query, opts>>

ScanQuery ==
  /\ scan = "query"
  /\ query' = <<Scanned>>
  /\ Continue(IF Delimiter = "end" THEN "done" ELSE "name")
  /\ UNCHANGED <<protocol, opts>>

ScanName ==
  /\ scan = "name"
  /\ Continue(IF Delimiter = "end" THEN "exited" ELSE "value")
  /\ opts' = IF Delimiter = "end" THEN opts ELSE Append(opts, [name |-> Scanned, value |-> <<>>])
  /\ UNCHANGED <<protocol, query>>

(* The option is replaced at the head of the list, not linked to the one   *)
(* before; a mutant of ScanValue.                                          *)
ScanValueUnlinked ==
  /\ scan = "value"
  /\ opts' = <<[Last(opts) EXCEPT !.value = Scanned]>>
  /\ Continue(IF Delimiter = "end" THEN "done" ELSE "name")
  /\ UNCHANGED <<protocol, query>>

ScanValue ==
  /\ scan = "value"
  /\ opts' = Append(Front(opts), [Last(opts) EXCEPT !.value = Scanned])
  /\ Continue(IF Delimiter = "end" THEN "done" ELSE "name")
  /\ UNCHANGED <<protocol, query>>

DescrNext == ScanProtocol \/ ScanQuery \/ ScanName \/ ScanValue

DescrSpec == (\E d \in Descriptions : DescrInit(d)) /\ [][DescrNext]_descr_vars

-----------------------------------------------------------------------------
(* The parts joined again.                                                 *)
Joined ==
  protocol \o (IF query = <<>> THEN <<>> ELSE <<":">> \o query[1])
    \o FlattenSeq([k \in 1..Len(opts) |->
         <<",">> \o opts[k].name \o <<"=">> \o opts[k].value])

(* Nothing of a description is dropped, doubled or attributed to another   *)
(* part, and the parts are cut at the delimiters: joined, they are the     *)
(* description again, and only an option name that lacks its = runs on     *)
(* over a comma, so that two options become one.  An empty protocol before *)
(* a : or a comma is accepted; the program exits only for an empty         *)
(* description and for a comma that no = follows.                          *)
DescrLossless ==
  /\ scan = "done" =>
       /\ Joined = descr_str
       /\ \A x \in ToSet(protocol) : x \notin {":", ","}
       /\ \A q \in ToSet(query) : "," \notin ToSet(q)
       /\ \A o \in ToSet(opts) : "=" \notin ToSet(o.name) /\ "," \notin ToSet(o.value)
  /\ scan = "exited" =>
       descr_str = <<>> \/ \E k \in 1..Len(descr_str) :
                             /\ descr_str[k] = ","
                             /\ "=" \notin ToSet(SubSeq(descr_str, k, Len(descr_str)))
=============================================================================
