------------------------------- MODULE Asking -------------------------------
(***************************************************************************)
(* How a Python caller's question becomes the one struct the engine reads: *)
(* the five parameter families (runtime/params.py), the tree request       *)
(* (_tree.py Corpus.search), a pattern's flag word (_flags.py) and the     *)
(* argv of the command line (request.py), and how each is read back on the *)
(* other side.  Text is not copied: the struct points into Python's        *)
(* buffers, and the engine reads them while the call runs, which is when   *)
(* whatever the caller's frame does not hold has been freed.               *)
(*                                                                         *)
(* A value is a number: NotGiven is None, 0 is the empty text, the switch  *)
(* that is off and the number zero, 1 and up the rest.                     *)
(***************************************************************************)
EXTENDS Integers, FiniteSetsExt, TLC

CONSTANTS Families,    \* the ones asked about
          MaxGiven     \* bound: plain fields given at once
ASSUME AskingAssumption == MaxGiven \in Nat

NotGiven   == -1
NoVariant == 2        \* a label the contract has not got, an axis the sweep has not got
Garbage == -9         \* what a freed buffer reads as

\* family -> field -> the kind of value it takes
FieldKinds ==
  [kinship   |-> [target |-> "text?", channel |-> "label", unit |-> "label",
                  max_distance |-> "threshold", min_echo |-> "threshold", min_grade |-> "label",
                  min_size |-> "count", min_lines |-> "count", top |-> "count",
                  no_index |-> "switch", distinct |-> "switch"],
   retrieval |-> [query |-> "text", top |-> "count"],
   sweep     |-> [patterns |-> "texts", under |-> "text?", top |-> "count",
                  fixed |-> "switch", ignore_case |-> "switch", by |-> "axis"],
   compose   |-> [text |-> "text?", patterns |-> "texts", max_distance |-> "threshold",
                  min_echo |-> "threshold", budget |-> "count", top |-> "count",
                  match_all |-> "switch", fixed |-> "switch", ignore_case |-> "switch"],
   rank      |-> [pattern |-> "text", top |-> "count", fixed |-> "switch", ignore_case |-> "switch"],
   tree      |-> [pattern |-> "text", fixed |-> "switch", ignore_case |-> "switch",
                  smart_case |-> "switch", word |-> "switch", unicode |-> "default",
                  invert |-> "switch", max_count |-> "ceiling", before |-> "count",
                  after |-> "count", timeout_ns |-> "count", max_results |-> "count"],
   pattern   |-> [fixed |-> "switch", ignore_case |-> "switch", word |-> "switch",
                  smart_case |-> "switch", unicode |-> "default", multiline |-> "switch",
                  dotall |-> "switch", verbose |-> "switch", pcre |-> "switch"],
   argv      |-> [multiline |-> "switch", multiline_dotall |-> "switch", unicode |-> "toggle",
                  before |-> "count", after |-> "count", context |-> "count",
                  max_count |-> "ceiling", max_depth |-> "count", no_index |-> "switch"]]

VARIABLES wanted,    \* the question: [family, v], v from fields to values
          struct,   \* what was lowered: [flags, v, ptr]
          held,     \* buffers the calling frame refers to
          reachable,     \* buffers not freed yet
          read,     \* borrowed fields the engine has read
          askStep
askVars == <<wanted, struct, held, reachable, read, askStep>>

Kind(f, x)    == FieldKinds[f][x]
FieldsIn(f)   == DOMAIN FieldKinds[f]
Borrowed(f)   == {x \in FieldsIn(f) : Kind(f, x) \in {"text", "text?", "texts"}}
ValueOf(f, kinds)  == {x \in FieldsIn(f) : Kind(f, x) \in kinds}
Plain == {"text", "count", "switch", "default"}
\* context is asked for on both sides or on each, not both ways at once
Questions(f)  ==
  {v \in {a @@ b @@ c @@ d @@ e : a \in [ValueOf(f, Plain) -> {0, 1}],
                             b \in [ValueOf(f, {"texts"}) -> 0 .. 2],
                             c \in [ValueOf(f, {"label"}) -> {NotGiven, 1, NoVariant}],
                             d \in [ValueOf(f, {"text?", "threshold", "ceiling", "toggle"})
                                           -> {NotGiven, 0, 1}],
                             e \in [ValueOf(f, {"axis"}) -> {NotGiven, 0, 1, NoVariant}]} :
     /\ f = "argv" /\ v["context"] # 0 => v["before"] = 0 /\ v["after"] = 0
     /\ Cardinality({x \in ValueOf(f, Plain) : v[x] = 1}) <= MaxGiven}

---------------------------------------------------------------------------
(* The Python side.                                                        *)
Analytic == {"kinship", "retrieval", "sweep", "compose", "rank"}
\* a flag: the field that sets it, the value that does, its bit
AnalyticBits == {<<"no_index", 1, 2>>, <<"fixed", 1, 3>>, <<"ignore_case", 1, 4>>,
                 <<"match_all", 1, 5>>, <<"by", 0, 6>>, <<"by", 1, 7>>, <<"distinct", 1, 8>>}
\* a fault: zero taken for unset
PresentIfTruthy(f) == {<<"max_distance", 1, 0>>, <<"min_echo", 1, 1>>}
Present(f)   == {<<"max_distance", n, 0>> : n \in 0 .. 1} \cup {<<"min_echo", n, 1>> : n \in 0 .. 1}
PlainBits    == {<<"fixed", 1, 0>>, <<"ignore_case", 1, 1>>, <<"word", 1, 2>>,
                 <<"smart_case", 1, 5>>, <<"unicode", 0, 6>>}
flag_bits    == PlainBits \cup {<<"pcre", 1, 8>>, <<"multiline", 1, 9>>, <<"dotall", 1, 10>>,
                                <<"verbose", 1, 11>>}
search_bits  == PlainBits \cup {<<"invert", 1, 7>>, <<"max_count", 0, 4>>, <<"max_count", 1, 4>>}
Bits(f) == CASE f \in Analytic -> AnalyticBits \cup Present(f)
             [] f = "tree" -> search_bits
             [] f = "pattern" -> flag_bits
             [] OTHER -> {}
Word(f, v) == MapThenSumSet(LAMBDA b : 2 ^ b[3],
                            {b \in Bits(f) : b[1] \in FieldsIn(f) /\ v[b[1]] = b[2]})

\* _text: None is the null pointer; _texts: so is the empty list
Buffers(f, v, x) == IF v[x] = NotGiven \/ (Kind(f, x) = "texts" /\ v[x] = 0) THEN {}
                    ELSE {<<x, n>> : n \in 0 .. v[x]}
Mislabelled(f, v) == \E x \in ValueOf(f, {"label"}) : v[x] = NoVariant
Ordinal(value)   == IF value = NotGiven THEN 0 ELSE value
Number(kind, value) == CASE kind = "label" -> Ordinal(value)
                         [] kind \in {"threshold", "ceiling"} -> IF value = NotGiven THEN 0 ELSE value
                         [] OTHER -> value
\* to_argv: an option is there with its value, or it is not there
Option(v, x) == CASE x \in {"max_count", "unicode"} -> v[x]
                  [] x = "context" /\ (v["before"] # 0 \/ v["after"] # 0) -> NotGiven
                  [] x = "multiline" /\ v["multiline_dotall"] = 1 -> 1
                  [] OTHER -> IF v[x] = 0 THEN NotGiven ELSE v[x]
Lowered(f, v) ==
  [flags |-> Word(f, v),
   v     |-> [x \in FieldsIn(f) |-> IF f = "argv" THEN Option(v, x) ELSE Number(Kind(f, x), v[x])],
   ptr   |-> [x \in Borrowed(f) |-> Buffers(f, v, x)]]
\* the buffers lower returns beside the struct
KeepAlive(f, v) == UNION {Buffers(f, v, x) : x \in Borrowed(f)}

AskingInit ==
  /\ \E f \in Families : \E v \in Questions(f) : wanted = [family |-> f, v |-> v]
  /\ struct = <<>> /\ held = {} /\ reachable = {} /\ read = <<>> /\ askStep = "asked"
Lower ==
  LET f == wanted.family  v == wanted.v IN
  /\ askStep = "asked" /\ ~Mislabelled(f, v) /\ askStep' = "running"
  /\ struct' = Lowered(f, v) /\ held' = KeepAlive(f, v)
  /\ reachable' = UNION {Buffers(f, v, x) : x \in Borrowed(f)}
  /\ read' = [x \in {} |-> 0] /\ UNCHANGED wanted
\* _ordinal raises a ValueError
LowerRaises ==
  /\ askStep = "asked" /\ Mislabelled(wanted.family, wanted.v) /\ askStep' = "raised"
  /\ UNCHANGED <<wanted, struct, held, reachable, read>>
Freed == /\ reachable # reachable \cap held /\ reachable' = reachable \cap held
         /\ UNCHANGED <<wanted, struct, held, read, askStep>>

---------------------------------------------------------------------------
(* The engine's side: rows.zig params, tree.zig search.                    *)
Bit(word, n) == (word \div 2 ^ n) % 2 = 1
KnownBits(f) == CASE f \in Analytic -> 0 .. 8
                  [] f = "tree" -> {0, 1, 2, 4, 5, 6, 7}
                  [] f = "pattern" -> {0, 1, 2, 5, 6, 8, 9, 10, 11}
                  [] OTHER -> {}
Refuses == \E n \in 0 .. 12 : Bit(struct.flags, n) /\ n \notin KnownBits(wanted.family)

\* the engine's own table of which bit says what
SaidBy(f) == IF f \in Analytic
             THEN [max_distance |-> 0, min_echo |-> 1, no_index |-> 2, fixed |-> 3,
                   ignore_case |-> 4, match_all |-> 5, distinct |-> 8]
             ELSE [fixed |-> 0, ignore_case |-> 1, word |-> 2, max_count |-> 4, smart_case |-> 5,
                   unicode |-> 6, invert |-> 7, pcre |-> 8, multiline |-> 9, dotall |-> 10,
                   verbose |-> 11]
\* request.zig, the command line: an option not given is its default, and an
\* explicit side outranks the context on its own side
Or(value, default) == IF value = NotGiven THEN default ELSE value
Parsed(x) == CASE x \in {"before", "after"} -> Or(struct.v[x], Or(struct.v["context"], 0))
               [] x \in {"max_count", "unicode"} -> struct.v[x]
               [] OTHER -> Or(struct.v[x], 0)
Is1(b) == IF b THEN 1 ELSE 0
Understood(x) ==
  LET f == wanted.family  k == Kind(f, x)  w == struct.flags IN
  IF f = "argv" THEN Parsed(x)
  ELSE CASE k = "switch"  -> Is1(Bit(w, SaidBy(f)[x]))
         [] k = "default" -> Is1(~Bit(w, SaidBy(f)[x]))
         [] k \in {"threshold", "ceiling"} -> IF Bit(w, SaidBy(f)[x]) THEN struct.v[x] ELSE NotGiven
         [] k = "axis"    -> IF Bit(w, 6) THEN 0 ELSE IF Bit(w, 7) THEN 1 ELSE NotGiven
         [] k \in {"text", "text?", "texts"} -> read[x]
         [] OTHER -> struct.v[x]

\* one borrowed field, some time during the call
ReadText(x) ==
  /\ askStep = "running" /\ ~Refuses /\ x \notin DOMAIN read
  /\ LET f == wanted.family IN
     read' = [y \in DOMAIN read \cup {x} |->
                IF y # x THEN read[y]
                ELSE IF struct.ptr[x] = {} THEN (IF Kind(f, x) = "texts" THEN 0 ELSE NotGiven)
                ELSE IF struct.ptr[x] \subseteq reachable THEN struct.v[x] ELSE Garbage]
  /\ UNCHANGED <<wanted, struct, held, reachable, askStep>>
InProcess ==
     /\ askStep = "running"
     /\ IF Refuses THEN askStep' = "refused"
        ELSE askStep' = "answered" /\ DOMAIN read = Borrowed(wanted.family)
     /\ held' = {}                      \* the frame is gone
     /\ UNCHANGED <<wanted, struct, reachable, read>>

AskingNext == \/ Lower \/ LowerRaises \/ Freed \/ InProcess
              \/ \E x \in Borrowed(wanted.family) : ReadText(x)

---------------------------------------------------------------------------
\* What the caller meant.  A context is lines on both sides, and dotall
\* implies multiline; a label nobody gave is the contract's default.  A sweep
\* by an axis there is not is a sweep by none: nobody is told (params.py 173-178).
Meant(x) ==
  LET v == wanted.v IN
  CASE wanted.family = "argv" /\ x \in {"before", "after"} -> v[x] + v["context"]
    [] wanted.family = "argv" /\ x = "multiline" -> Is1(v[x] + v["multiline_dotall"] > 0)
    [] Kind(wanted.family, x) = "label" /\ v[x] = NotGiven -> 0
    [] Kind(wanted.family, x) = "axis" /\ v[x] = NoVariant -> NotGiven
    [] OTHER -> v[x]

\* No question is refused, and the engine answers the one that was asked: zero
\* is told from unset, every bit means on both sides the same, and every text
\* is still there when it is read.  A label nobody knows never gets that far.
AskedIsRead ==
  /\ askStep # "refused"
  /\ askStep \in {"running", "answered"} => ~Mislabelled(wanted.family, wanted.v)
  /\ askStep = "answered" => \A x \in FieldsIn(wanted.family) : Understood(x) = Meant(x)
=============================================================================
