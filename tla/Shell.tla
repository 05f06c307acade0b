-------------------------------- MODULE Shell --------------------------------
(***************************************************************************)
(* bindings/python/irgx/runtime/shell.py: the product binaries driven as   *)
(* subprocesses, found once per process and asked many times.              *)
(*                                                                         *)
(* Where a binary may be found changes while the program runs: the         *)
(* variable, the checkout's zig-out, the wheel, PATH, a compiler to build  *)
(* one with.  What the binary answers is external: an exit code, whether   *)
(* its stdout holds rows, and what its stderr says.                        *)
(***************************************************************************)
EXTENDS Naturals, FiniteSets

CONSTANTS MaxChanges     \* bound: changes of the machine while the program runs

ASSUME ShellAssumption == MaxChanges \in Nat

VARIABLES place,     \* where a binary is to be found
          cached,    \* _resolve's cache: the rung and version first found
          changes,   \* changes so far
          proc,      \* the last run
          result     \* what its caller got

shellVars == <<place, cached, changes, proc, result>>

Rungs  == {"override", "checkout", "wheel", "path"}
NoRung == "nowhere"
NoProc == [verb |-> "none"]

Places == [override : {"unset", "file", "no file"}, checkout : BOOLEAN, wheel : BOOLEAN,
           path : BOOLEAN, source : BOOLEAN, zig : {"builds", "fails"}]

ShellInit ==
  /\ place \in {p \in Places : p.checkout => p.source}
  /\ cached = NoRung /\ changes = 0
  /\ proc = NoProc /\ result = "none"

---------------------------------------------------------------------------
(* _build_cli: best effort.                                                *)
BuiltCli == place.checkout \/ (place.source /\ place.zig = "builds")

NextRung == IF BuiltCli THEN "checkout"
            ELSE IF place.wheel THEN "wheel"
            ELSE IF place.path THEN "path" ELSE NoRung

(* _resolve: an override decides, also when it is no file; then what the   *)
(* checkout has or can build, the wheel, PATH.                             *)
Rung ==
  CASE place.override = "file"    -> "override"
    [] place.override = "no file" -> NoRung
    [] OTHER                      -> NextRung

Found == IF cached # NoRung THEN cached ELSE Rung

There(rung) == CASE rung = "override" -> place.override = "file"
                 [] rung = "checkout" -> BuiltCli
                 [] rung = "wheel"    -> place.wheel
                 [] rung = "path"     -> place.path
                 [] OTHER             -> FALSE

(* One thing about the machine changes under the program.                  *)
Change(p) ==
  /\ changes < MaxChanges /\ (p.checkout => p.source)
  /\ Cardinality({what \in DOMAIN p : p[what] # place[what]}) = 1
  /\ place' = p /\ changes' = changes + 1
  /\ UNCHANGED <<cached, proc, result>>

---------------------------------------------------------------------------
(* What a run is: how it ended, its rows, and what its stderr says.  The   *)
(* diagnostic repeats the pattern, so its markers may be the caller's own  *)
(* words; "malformed" is what the engine prints when both grammars refuse, *)
(* "linear" when only the linear one does.                                 *)
Ended    == {"matched", "no match", "error", "signal", "timeout"}
Reasons == {"malformed", "linear", "other"}
Runs    == [verb : {"run", "kin"}, ends : Ended, rows : BOOLEAN,
            reason : Reasons, echoes : SUBSET {"malformed", "linear"}]

(* A run that happens: rows come with a match, also with one that broke    *)
(* off, a reason with the error of a search.                               *)
Possible(r) ==
  /\ r.ends = "matched" => (r.rows \/ r.verb = "kin")
  /\ r.ends = "no match" => ~r.rows
  /\ r.ends # "error" \/ r.verb = "kin" \/ r.rows => r.reason = "other" /\ r.echoes = {}

Says(r, marker) == r.reason = marker \/ marker \in r.echoes

(* A fault: the weaker marker is looked for first.                         *)
BlamedWeakFirst(r) ==
  IF Says(r, "linear") THEN "UnsupportedPatternError"
  ELSE IF Says(r, "malformed") THEN "BadPatternError" ELSE "SearchFailedError"

(* _invoke: malformed is the stronger claim and tested first.              *)
Blamed(r) ==
  IF Says(r, "malformed") THEN "BadPatternError"
  ELSE IF Says(r, "linear") THEN "UnsupportedPatternError" ELSE "SearchFailedError"

(* Exit codes 0 and 1 are answers.  The error of a search is told by its    *)
(* text, that of another face's verb is not.                               *)
TakenVerb(r) ==
      CASE r.ends \in {"timeout", "signal"} -> "SearchFailedError"
        [] r.ends = "error" -> IF r.verb = "kin" THEN "SearchFailedError" ELSE Blamed(r)
        [] OTHER -> IF r.rows THEN "rows" ELSE "empty"

Invoke(r) ==
  /\ Possible(r)
  /\ cached' = IF cached = NoRung /\ Rung # NoRung THEN Rung ELSE cached
  /\ place' = IF cached = NoRung /\ Rung = "checkout" THEN [place EXCEPT !.checkout = TRUE] ELSE place
  /\ IF Found = NoRung \/ ~There(Found)
     THEN /\ result' = "GistNotFoundError"
          /\ proc' = NoProc
     ELSE /\ result' = TakenVerb(r)
          /\ proc' = r
  /\ UNCHANGED changes

ShellNext == (\E p \in Places : Change(p)) \/ (\E r \in Runs : Invoke(r))

---------------------------------------------------------------------------
(* Nothing that went wrong reads as an empty answer: a run that failed,    *)
(* timed out or was killed raises, and empty means the engine said that    *)
(* nothing matched.  A pattern is called unsupported, which asks for a     *)
(* retry through the other grammar, only when that could help, whatever    *)
(* words the pattern itself brings into the diagnostic                     *)
(* (shell.py 188-352).                                                     *)
FailuresLoud ==
  proc # NoProc =>
    /\ result = "empty" <=> (proc.ends \in {"matched", "no match"} /\ ~proc.rows)
    /\ result = "rows" <=> (proc.ends \in {"matched", "no match"} /\ proc.rows)
    /\ result = "UnsupportedPatternError" => proc.reason # "malformed"

(* The binary that answers is the one an override names, while one is set  *)
(* from the start, and never another in its place when it is no file       *)
(* (shell.py 103-131).                                                     *)
OverrideRules ==
  changes = 0 =>
    /\ place.override = "file" => cached \in {NoRung, "override"}
    /\ place.override = "no file" => cached = NoRung
=============================================================================
