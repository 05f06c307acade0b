-------------------------------- MODULE Seam --------------------------------
(***************************************************************************)
(* Where the Python binding meets the C ABI: what a status and the         *)
(* thread's fault slot become (check of _abi.py, _blame of _set.py,        *)
(* Compiled, Needles), and how an answer of unknown length is sized (sink  *)
(* of _shape.py and its kin).                                              *)
(*                                                                         *)
(* The engine is external: a call of it clears this thread's fault slot    *)
(* and may leave a fault of its own, a declinature touches nothing, and    *)
(* the number of items that exist is what it says.  Faults are numbered by *)
(* the call that left them.                                                *)
(***************************************************************************)
EXTENDS Naturals, FiniteSets

CONSTANTS ListedAnswers,      \* bound: patterns of a set, needles of a list
          Rows,       \* bound: items an answer may have
          MaxCalls     \* bound: calls of a thread

ASSUME SeamAssumption == ListedAnswers \in Nat /\ Rows \in Nat /\ MaxCalls \in Nat

VARIABLES slot,     \* this thread's last fault
          calls,    \* calls made
          compiled,     \* what the last call really was
          told      \* what its caller was told

seamVars == <<slot, calls, compiled, told>>

NoFault == [call |-> 0, at |-> "nothing"]
NoVerb  == [verb |-> "none"]
Untold  == [kind |-> "none"]

SeamInit == slot = NoFault /\ calls = 0 /\ compiled = NoVerb /\ told = Untold

---------------------------------------------------------------------------
Status == {"match", "ok", "stale", "oom", "invalid"}
Spaces == {"pattern", "file", "nothing"}      \* the ruler a fault's `at` is measured in

(* What the engine leaves in the slot (external).                          *)
LeftBehind(status, space, adds) ==
        IF status = "stale" THEN slot
        ELSE IF status \in {"match", "ok"} \/ ~adds THEN NoFault
        ELSE [call |-> calls + 1, at |-> space]

(* check, given the slot as the call left it: a value, or what is raised.  *)
(* A declinature nobody has a fallback for never reads the slot.           *)
(* A fault: the slot is read first.                                        *)
CheckReadsFirst(status, fault, index) ==
  [kind |-> IF status \in {"match", "ok"} THEN "value"
            ELSE IF status = "oom" THEN "MemoryError" ELSE "error",
   fault |-> fault.call, pos |-> fault.at = "pattern", index |-> index]

Check(status, fault, index) ==
  CASE status \in {"match", "ok"} ->
         [kind |-> "value", fault |-> 0, pos |-> FALSE, index |-> ListedAnswers]
    [] status = "stale" ->
         [kind |-> "error", fault |-> 0, pos |-> FALSE, index |-> index]
    [] status = "oom" ->
         [kind |-> "MemoryError", fault |-> fault.call, pos |-> FALSE, index |-> ListedAnswers]
    [] OTHER ->
         [kind |-> "error", fault |-> fault.call, pos |-> fault.at = "pattern", index |-> index]

Unsupported(index) == [kind |-> "UnsupportedPattern", fault |-> 0, pos |-> FALSE, index |-> index]

(* compile: a pattern the linear grammar declines has a class of its own.  *)
CompileOne(status, fault) ==
  IF status = "stale" THEN Unsupported(ListedAnswers) ELSE Check(status, fault, ListedAnswers)

(* _CompiledSet and _blame: the refused index is seeded past the end.      *)
CompileSet(status, fault, at) ==
  IF at >= ListedAnswers THEN Check(status, fault, ListedAnswers)
  ELSE IF status = "stale" THEN Unsupported(at) ELSE Check(status, fault, at)

(* Needles: the same seeding, the same one exception for everything.       *)
CompileNeedles(status, fault, at) == Check(status, fault, at)

Compile(what, status, space, adds, at) ==
  /\ calls < MaxCalls
  /\ status \in {"match", "ok"} => at = ListedAnswers
  /\ status \in {"match", "ok", "stale"} => space = "nothing" /\ ~adds
  /\ what = "one" => at = ListedAnswers
  /\ LET fault == LeftBehind(status, space, adds)
     IN  /\ slot' = fault
         /\ compiled' = [verb |-> what, status |-> status, at |-> at, exist |-> 0,
                         hint |-> 0, then |-> 0]
         /\ told' = CASE what = "one" -> CompileOne(status, fault)
                      [] what = "set" -> CompileSet(status, fault, at)
                      [] OTHER        -> CompileNeedles(status, fault, at)
  /\ calls' = calls + 1

---------------------------------------------------------------------------
(* Sizing.  `exist` items at the first crossing and `then` at a second: a  *)
(* sink that came up short asks again at the count it was told.            *)
Sink(exist, then, hint) ==
  IF exist <= hint THEN [kind |-> "items", got |-> exist]
  ELSE IF then <= exist THEN [kind |-> "items", got |-> then]
  ELSE [kind |-> "error", fault |-> 0, pos |-> FALSE, index |-> ListedAnswers]

(* _needles_find_all: the same two passes, and no third look.              *)
FindHits(exist, then, window) ==
  IF exist <= window THEN [kind |-> "items", got |-> exist]
  ELSE [kind |-> "items", got |-> IF then < exist THEN then ELSE exist]

(* which: the list's own length is the window.                             *)
Which(exist) == [kind |-> "items", got |-> IF exist < ListedAnswers THEN exist ELSE ListedAnswers]

(* An answer: a declinature is None where the verb has one (Sieve._admit,  *)
(* Codex.locate, literals) and nothing but an error elsewhere.             *)
Admitted(verb, status, exist, then, hint, fault) ==
  IF status = "stale" /\ verb = "admit" THEN [kind |-> "declined"]
  ELSE IF status \notin {"match", "ok"} THEN Check(status, fault, ListedAnswers)
  ELSE CASE verb = "hits"  -> FindHits(exist, then, hint)
         [] verb = "which" -> Which(exist)
         [] OTHER          -> Sink(exist, then, hint)

AskRows(verb, status, space, adds, exist, then, hint) ==
      /\ calls < MaxCalls
      /\ verb = "which" => exist <= ListedAnswers /\ hint = 0
      /\ exist <= hint => then = exist
      /\ status \notin {"match", "ok"} => exist = 0 /\ hint = 0
      /\ status \in {"match", "ok", "stale"} => space = "nothing" /\ ~adds
      /\ LET fault == LeftBehind(status, space, adds)
         IN  /\ slot' = fault
             /\ compiled' = [verb |-> verb, status |-> status, at |-> ListedAnswers, exist |-> exist,
                             hint |-> IF verb = "which" THEN ListedAnswers ELSE hint, then |-> then]
             /\ told' = Admitted(verb, status, exist, then, hint, fault)
      /\ calls' = calls + 1

SeamNext ==
  \/ \E status \in Status, space \in Spaces, adds \in BOOLEAN :
       \/ \E what \in {"one", "set", "needles"}, at \in 0 .. ListedAnswers :
            Compile(what, status, space, adds, at)
       \/ \E verb \in {"rows", "admit", "hits", "which"}, exist, then, hint \in 0 .. Rows :
            AskRows(verb, status, space, adds, exist, then, hint)

---------------------------------------------------------------------------
(* What is raised is about the call that failed: the detail is of the      *)
(* fault that very call left, never of an earlier one still in the slot; a *)
(* position is one in the pattern; and the index is the refused pattern's, *)
(* or absent where the engine named none (_abi.py 648-683, _set.py 67-88,  *)
(* _needles.py 132-158, _pool.py 45-77).                                   *)
BlameTrue ==
  compiled.verb # "none" /\ told.kind \in {"value", "error", "MemoryError", "UnsupportedPattern"} =>
        /\ told.fault \in {0, calls}
        /\ told.pos => slot = [call |-> calls, at |-> "pattern"]
        /\ told.index # ListedAnswers => told.index = compiled.at
        /\ compiled.at # ListedAnswers /\ told.kind # "MemoryError" => told.index = compiled.at
        /\ told.kind = "value" => compiled.status \in {"match", "ok"}
        /\ told.kind = "UnsupportedPattern" => compiled.status = "stale"
        /\ told.kind = "MemoryError" <=> compiled.status = "oom"

(* An answer is every item there is, whatever window was guessed first; a  *)
(* count that moved between the crossings is reported and never cut, the   *)
(* needle plane's excepted; and only a declinature is answered with None   *)
(* (_shape.py 73-119, _engine.py 397-445).                                 *)
AnswerWhole ==
  /\ told.kind = "items" =>
       \/ told.got = IF compiled.exist <= compiled.hint THEN compiled.exist ELSE compiled.then
       \/ compiled.verb = "hits" /\ compiled.then > compiled.exist
  /\ told.kind = "error" /\ compiled.status \in {"match", "ok"} =>
       compiled.exist > compiled.hint /\ compiled.then > compiled.exist
  /\ told.kind = "declined" <=> compiled.verb = "admit" /\ compiled.status = "stale"
=============================================================================
