------------------------------ MODULE Options ------------------------------
(***************************************************************************)
(* camio_options_parse (options/camio_options.c) over the arguments of a   *)
(* command line, with the lists of camio_types.c that options may fill.    *)
(* getopt_long is external: it hands over the options, each with its       *)
(* argument, and then the other arguments.  An argument of a numeric       *)
(* option is read as NumberParser has it.                                  *)
(***************************************************************************)
EXTENDS NumberParser, FiniteSets

CONSTANTS Defs,        \* the definitions, a function from short_str to
                       \* [mode, type, default]
          Arguments,   \* the texts of arguments
          MaxArgs,     \* bound on the length of the command line
          ListSize     \* 512: the initial size of a list

Scalars == {"BOOL", "INT64", "UINT64", "DOUBLE", "STRING"}
Lists == {"BOOLS", "INT64S", "UINT64S", "DOUBLES", "STRINGS"}
Modes == {"FLAG", "REQUIRED", "OPTIONAL", "UNLIMITED"}

(* What camio_options_add insists on; is_list_type has no DOUBLES.         *)
ListTypes == Lists \ {"DOUBLES"}

ASSUME OptionsAssumption ==
  /\ {"?", "h", "argument"} \intersect DOMAIN Defs = {}
  /\ \A o \in DOMAIN Defs :
       /\ Defs[o].mode \in Modes /\ Defs[o].type \in Scalars \union Lists
       /\ Defs[o].mode = "FLAG" => Defs[o].type = "BOOL" /\ Defs[o].default \in BOOLEAN
       /\ Defs[o].mode = "UNLIMITED" =>
            Defs[o].type \in ListTypes /\ \A q \in DOMAIN Defs \ {o} : Defs[q].mode # "UNLIMITED"
  /\ Arguments \subseteq Seq(Alphabet)
  /\ MaxArgs \in Nat /\ ListSize \in Nat \ {0}

VARIABLES
  argv,      \* what getopt_long returns: sequence of [opt, long, arg]; opt is
             \* "?" for an unknown one, "argument" for an argument of none
  optind,    \* elements dealt with
  var,       \* the variable of every option; a list is a sequence
  found,     \* how often an option was found
  outcome    \* "none" yet, "parsed", "usage" when print_usage exited,
             \* "corrupt" when a list was written past its end

options_vars == <<argv, optind, var, found, outcome>>

Opts == DOMAIN Defs
Type(o) == Defs[o].type
IsFlag(o) == Defs[o].mode = "FLAG"
NoText == <<>>
Elements ==
  {[opt |-> o, long |-> l, arg |-> a] : o \in {p \in Opts : ~IsFlag(p)},
                                      l \in {FALSE}, a \in Arguments}
  \union {[opt |-> o, long |-> l, arg |-> NoText] : o \in {p \in Opts : IsFlag(p)},
                                                 l \in BOOLEAN}
  \union {[opt |-> o, long |-> FALSE, arg |-> NoText] : o \in {"?", "h"}}
Others == {[opt |-> "argument", long |-> FALSE, arg |-> a] : a \in Arguments}

CommandLines ==
  {a \in BoundedSeq(Elements \union Others, MaxArgs) :
     \A k \in 2..Len(a) : a[k - 1] \in Others => a[k] \in Others}

OptionsInit(a) ==
  /\ argv = a
  /\ optind = 0
  /\ var = [o \in Opts |-> IF Type(o) \in Lists THEN <<Defs[o].default>> ELSE Defs[o].default]
  /\ found = [o \in Opts |-> 0]
  /\ outcome = "none"

-----------------------------------------------------------------------------
(* What an argument is for an option of a type.                            *)
Refused == [ok |-> FALSE]
Read(v) == [ok |-> TRUE, val |-> v]

(* parse_bool: the first character that is no blank decides.               *)
AsBool(a) ==
  LET k == Blanks(a) + 1 IN
  IF k > Len(a) \/ a[k] \notin {"0", "1"} THEN Refused ELSE Read(a[k] = "1")

AsInt(n) ==
  CASE n.type = "CAMIO_UINT64" -> Read(IF 2 * n.val >= Size THEN n.val - Size ELSE n.val)
    [] n.type = "CAMIO_INT64"  -> Read(n.val)
    [] OTHER                   -> Refused

AsUint(n) == IF n.type = "CAMIO_UINT64" THEN Read(n.val) ELSE Refused

(* A negative integer is refused: the test for it tests for CAMIO_UINT64.  *)
(* An unsigned one is converted as if it were signed; a list gets its bits *)
(* as they are, here a double by 0.                                        *)
AsDouble(n, into_list) ==
  CASE n.type = "CAMIO_DOUBLE" -> Read(<<n.val, n.by>>)
    [] n.type = "CAMIO_UINT64" -> Read(IF into_list THEN <<n.val, 0>> ELSE <<AsInt(n).val, 1>>)
    [] OTHER                   -> Refused

ParsedAs(a, type) ==
  CASE type \in {"STRING", "STRINGS"} -> Read(a)
    [] type \in {"BOOL", "BOOLS"}     -> AsBool(a)
    [] type \in {"INT64", "INT64S"}   -> AsInt(Meaning(a))
    [] type \in {"UINT64", "UINT64S"} -> AsUint(Meaning(a))
    [] OTHER                          -> AsDouble(Meaning(a), type = "DOUBLES")

-----------------------------------------------------------------------------
(* One element of the command line.                                        *)

(* print_usage.                                                            *)
Usage == outcome' = "usage" /\ UNCHANGED <<var, found>>

(* camio_x_list_add.  A list that is full doubles its size; but the new    *)
(* size is passed to realloc as bytes, which cuts the block, and what      *)
(* realloc returns is dropped: the item is written past the end.           *)
ListAdd(o, list, v) ==
  /\ var' = [var EXCEPT ![o] = Append(list, v)]
  /\ outcome' = IF Len(list) = ListSize THEN "corrupt" ELSE "none"

(* The default dropped whenever one is found; a mutant of ParseArgument.   *)
ParseArgumentDropping(o, a) ==
  LET r == ParsedAs(a, Type(o)) IN
  IF ~r.ok THEN outcome' = "usage" /\ UNCHANGED var
  ELSE IF Type(o) \in Scalars
  THEN var' = [var EXCEPT ![o] = r.val] /\ UNCHANGED outcome
  ELSE ListAdd(o, IF Type(o) = "STRINGS" THEN <<>> ELSE var[o], r.val)

(* parse_argument: the default of a list of strings goes when the option   *)
(* is found for the first time; that of other lists stays.                 *)
ParseArgument(o, a) ==
  LET r == ParsedAs(a, Type(o)) IN
  IF ~r.ok THEN outcome' = "usage" /\ UNCHANGED var
  ELSE IF Type(o) \in Scalars
  THEN var' = [var EXCEPT ![o] = r.val] /\ UNCHANGED outcome
  ELSE ListAdd(o, IF Type(o) = "STRINGS" /\ found'[o] = 1 THEN <<>> ELSE var[o], r.val)

Find(o) == found' = [found EXCEPT ![o] = @ + 1]

Element == argv[optind + 1]
Takes == outcome = "none" /\ optind < Len(argv) /\ optind' = optind + 1 /\ UNCHANGED argv

(* -h, and an option getopt does not know.                                 *)
HelpOrUnknown == Takes /\ Element.opt \in {"h", "?"} /\ Usage

(* The long form of a flag: getopt itself stores what is not the default.  *)
LongFlag ==
  /\ Takes /\ Element.opt \in Opts /\ Element.long
  /\ var' = [var EXCEPT ![Element.opt] = ~Defs[Element.opt].default]
  /\ UNCHANGED <<found, outcome>>

(* process_option.                                                         *)
ProcessOption ==
  /\ Takes /\ Element.opt \in Opts /\ ~Element.long
  /\ LET o == Element.opt IN
     /\ Find(o)
     /\ IF found'[o] > 1 /\ Type(o) \notin ListTypes
        THEN outcome' = "usage" /\ UNCHANGED var
        ELSE IF IsFlag(o)
        THEN var' = [var EXCEPT ![o] = ~@] /\ UNCHANGED outcome
        ELSE ParseArgument(o, Element.arg)

(* An argument of no option goes to the unlimited one.                     *)
Unlimited == {o \in Opts : Defs[o].mode = "UNLIMITED"}
Extra ==
  /\ Takes /\ Element.opt = "argument"
  /\ IF Unlimited = {} THEN Usage
     ELSE \E o \in Unlimited : Find(o) /\ ParseArgument(o, Element.arg)

Missing == {o \in Opts : Defs[o].mode = "REQUIRED" /\ found[o] < 1}
Constraints ==
  /\ outcome = "none" /\ optind = Len(argv)
  /\ outcome' = IF Missing = {} THEN "parsed" ELSE "usage"
  /\ UNCHANGED <<argv, optind, var, found>>

OptionsNext == HelpOrUnknown \/ LongFlag \/ ProcessOption \/ Extra \/ Constraints

OptionsSpec == (\E a \in CommandLines : OptionsInit(a)) /\ [][OptionsNext]_options_vars

-----------------------------------------------------------------------------
(* The elements, of the first n, that are for an option, and the place of  *)
(* one among them.                                                         *)
GivenTo(o, n) ==
  {k \in 1..n : argv[k].opt = o \/ (argv[k].opt = "argument" /\ o \in Unlimited)}
Place(o, n, k) == Cardinality({j \in GivenTo(o, n) : j <= k})

(* What a text is as a value of a type, by the type alone, whatever the    *)
(* parser makes of it: a text itself, the 0 or 1 that comes first, the     *)
(* number that is written; a whole number is promoted to a double.         *)
FirstIs(a, chars) == \E k \in DOMAIN a : a[k] \in chars /\ Only(Upto(a, k - 1), {Blank})
Suits(a, type) ==
  CASE type \in {"STRING", "STRINGS"} -> TRUE
    [] type \in {"BOOL", "BOOLS"}     -> FirstIs(a, {"0", "1"})
    [] type \in {"INT64", "INT64S"}   -> Meaning(a).type \in {"CAMIO_UINT64", "CAMIO_INT64"}
    [] type \in {"UINT64", "UINT64S"} -> Meaning(a).type = "CAMIO_UINT64"
    [] OTHER                          -> Meaning(a).type # "CAMIO_NO_TYPE"
Promoted(n) == <<n.val, IF n.type = "CAMIO_DOUBLE" THEN n.by ELSE 1>>
Worth(a, type) ==
  CASE type \in {"STRING", "STRINGS"} -> a
    [] type \in {"BOOL", "BOOLS"}     -> FirstIs(a, {"1"})
    [] type \in {"DOUBLE", "DOUBLES"} -> Promoted(Meaning(a))
    [] OTHER                          -> Meaning(a).val

(* Two ways in which an option holds something else.  An unsigned number   *)
(* with the highest bit set is taken for a negative one; a list of doubles *)
(* gets the bits of a whole number, not its value: AsDouble.               *)
SignTaken(v, a, type) ==
  /\ type \in {"INT64", "INT64S", "DOUBLE"} /\ Meaning(a).type = "CAMIO_UINT64"
  /\ 2 * Meaning(a).val >= Size
  /\ v = IF type = "DOUBLE" THEN <<Meaning(a).val - Size, 1>> ELSE Meaning(a).val - Size
BitsTaken(v, a, type) ==
  type = "DOUBLES" /\ Meaning(a).type = "CAMIO_UINT64" /\ v = <<Meaning(a).val, 0>>
Stands(v, a, type) == v = Worth(a, type) \/ SignTaken(v, a, type) \/ BitsTaken(v, a, type)

(* A flag is turned over by being given; but the short form, which turns   *)
(* over what is there, restores the default when a long one was before it. *)
Restored(o, n) ==
  \E j, k \in GivenTo(o, n) :
    j < k /\ ~argv[k].long /\ \A l \in GivenTo(o, n) : l <= k
Turned(o, n) == GivenTo(o, n) # {} /\ ~Restored(o, n)

(* What an option is when n elements have been dealt with.  The default of *)
(* a list of strings gives way to what is given.                           *)
Default(o, n) == IF Type(o) = "STRINGS" /\ GivenTo(o, n) # {} THEN 0 ELSE 1
Holds(o, n) ==
  /\ IsFlag(o) => var[o] = (Turned(o, n) # Defs[o].default)
  /\ ~IsFlag(o) => \A k \in GivenTo(o, n) : Suits(argv[k].arg, Type(o))
  /\ ~IsFlag(o) /\ Type(o) \in Scalars =>
       /\ GivenTo(o, n) = {} => var[o] = Defs[o].default
       /\ \A k \in GivenTo(o, n) : GivenTo(o, n) = {k} /\ Stands(var[o], argv[k].arg, Type(o))
  /\ Type(o) \in Lists =>
       /\ Len(var[o]) = Default(o, n) + Cardinality(GivenTo(o, n))
       /\ Default(o, n) = 1 => var[o][1] = Defs[o].default
       /\ \A k \in GivenTo(o, n) :
            Stands(var[o][Default(o, n) + Place(o, n, k)], argv[k].arg, Type(o))

(* When the command line is accepted, every argument suits its option and  *)
(* every option has the worth of what it was given, or its default: a      *)
(* scalar at most one value, a list of strings all of them in order, any   *)
(* other list the default and then all of them; a flag is not its default  *)
(* exactly when it was given; and required options were given.  The only   *)
(* exceptions: SignTaken, BitsTaken and Restored.  A list is written past  *)
(* its end only by the argument that does not fit its initial size.        *)
VariablesAsGiven ==
  /\ outcome = "parsed" => \A o \in Opts :
       /\ Defs[o].mode = "REQUIRED" => GivenTo(o, Len(argv)) # {}
       /\ Holds(o, Len(argv))
  /\ outcome = "corrupt" => \E o \in Opts :
       /\ Type(o) \in Lists
       /\ Default(o, Len(argv)) + Cardinality(GivenTo(o, Len(argv))) > ListSize
=============================================================================
