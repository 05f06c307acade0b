------------------------------ MODULE Mutants ------------------------------
(***************************************************************************)
(* research/crest/mutation/mutate.py with the evidence half of contract.py *)
(* and, external, runner.zig: every mutation of the catalog is applied to  *)
(* one private copy of the sources, its one test is compiled and run       *)
(* there, and the copy is put back; a report says which mutants the tests  *)
(* killed, and --verify reads a report somebody kept.                      *)
(*                                                                         *)
(* What a compiler or a test binary does is chosen anew at every run.      *)
(***************************************************************************)
EXTENDS Naturals, Sequences, FiniteSets

CONSTANTS Catalog,    \* MUTATIONS: a sequence of names
          TestOf,     \* name -> its (test_path, test_filter)
          Expected,   \* name -> expected_sites
          MaxTampers, \* changes made to a kept report
          MaxSources  \* versions of the checkout

ASSUME MutantsAssumption == /\ Catalog \in Seq({Catalog[i] : i \in DOMAIN Catalog})
                            /\ MaxTampers \in Nat /\ MaxSources \in Nat \ {0}

VARIABLES mstage,    \* what run_suite or main is doing
          workspace, \* the mutations the private copy holds now
          sites,     \* name -> how often its needle is found in the copy
          next,      \* index of the mutation at work
          baselines, \* test -> what compiling and running it gave
          outcomes,  \* the rows so far
          truth,     \* what really happened: <<mutations held, test, result>>
          source,    \* version of the checkout
          captured,  \* the version the copy was made of
          report,    \* the report kept, none at first
          verified,  \* the report --verify accepted, and the version it saw
          tampers

mutVars == <<mstage, workspace, sites, next, baselines, outcomes, truth, source, captured,
             report, verified, tampers>>

Known == {Catalog[i] : i \in DOMAIN Catalog}
Tests == {TestOf[n] : n \in Known}
Never == [compile |-> "never", test |-> "none"]
NoReport == <<>>

---------------------------------------------------------------------------
(* run_focused_test: the binary of the last run is removed first, so what  *)
(* is run is what was compiled.  The runner (external) prints a selected   *)
(* record and one terminal record, and exits 0, 101, 102 or 103.           *)
Compiles == {"linked", "refused", "signal", "timeout"}
Endings  == {"passed", "failed Test", "failed other", "panicked",
             "runner_error", "silent zero", "signal", "timeout"}
Results  == {[compile |-> "linked", test |-> e] : e \in Endings}
            \cup {[compile |-> c, test |-> "none"] : c \in Compiles \ {"linked"}}

\* records and exit code, as test_evidence matches them
EvidenceFor(ending) ==
       CASE ending = "passed"      -> "passed"
         [] ending = "failed Test" -> "assertion_failed"
         [] ending = "panicked"    -> "panicked"
         [] OTHER                  -> "invalid"

Classified(result) ==
    IF result.compile # "linked" \/ result.test \in {"signal", "timeout"} THEN "invalid"
    ELSE CASE EvidenceFor(result.test) = "passed" -> "survived"
           [] EvidenceFor(result.test) \in {"assertion_failed", "panicked"} -> "killed"
           [] OTHER -> "invalid"

\* a row of the report; a precondition's row has no run behind it
Row(name, class, by, result) ==
    [name |-> name, class |-> class, by |-> by, result |-> result]
RefusedRow(name) == Row(name, "invalid", "precondition", Never)
Focused(name, result) == Row(name, Classified(result), "focused_test", result)

CountOf(rows, class) == Cardinality({i \in DOMAIN rows : rows[i].class = class})
SummaryOf(rows) ==
    [killed   |-> CountOf(rows, "killed"),  survived |-> CountOf(rows, "survived"),
     invalid  |-> CountOf(rows, "invalid"), total    |-> Len(rows),
     eligible |-> CountOf(rows, "killed") + CountOf(rows, "survived")]

---------------------------------------------------------------------------
MutantsInit ==
    /\ mstage = "capture" /\ workspace = {} /\ next = 1
    /\ sites \in [Known -> {0, 1, 2}]
    /\ baselines = [t \in Tests |-> Never] /\ outcomes = <<>> /\ truth = {}
    /\ source = 1 /\ captured = 0 /\ report = NoReport /\ verified = <<>> /\ tampers = 0

report_ == <<report, verified, tampers>>

Edited == /\ source < MaxSources /\ source' = source + 1
          /\ UNCHANGED <<mstage, workspace, sites, next, baselines, outcomes, truth,
                         captured, report_>>

\* capture_source (see Snapshot), then the whole suite if --publication
CaptureSource ==
          /\ mstage = "capture"
          /\ captured' = source
          /\ \/ mstage' = "baseline" /\ UNCHANGED outcomes
             \/ /\ mstage' = "render"
                /\ outcomes' = [i \in DOMAIN Catalog |-> RefusedRow(Catalog[i])]
          /\ UNCHANGED <<workspace, sites, next, baselines, truth, source, report_>>

Ran(test, result) == truth' = truth \cup {<<workspace, test, result>>}

\* one run per distinct test, on the pristine copy
Baseline ==
    /\ mstage = "baseline"
    /\ IF next > Len(Catalog)
       THEN mstage' = "mutate" /\ next' = 1 /\ UNCHANGED <<baselines, truth>>
       ELSE LET test == TestOf[Catalog[next]] IN
            /\ next' = next + 1 /\ UNCHANGED mstage
            /\ IF baselines[test] # Never
               THEN UNCHANGED <<baselines, truth>>
               ELSE \E result \in Results : /\ baselines' = [baselines EXCEPT ![test] = result]
                                            /\ Ran(test, result)
    /\ UNCHANGED <<workspace, sites, outcomes, source, captured, report_>>

\* baseline_*, path_escape and mutation_site: refused before anything is written
Admissible(name) ==
    /\ Classified(baselines[TestOf[name]]) = "survived"
    /\ sites[name] = Expected[name]

Mutate ==
    /\ mstage = "mutate"
    /\ IF next > Len(Catalog)
       THEN mstage' = "render" /\ UNCHANGED <<workspace, next, outcomes>>
       ELSE LET name == Catalog[next] IN
            IF Admissible(name)
            THEN mstage' = "focused" /\ workspace' = workspace \cup {name}
                 /\ UNCHANGED <<next, outcomes>>
            ELSE /\ outcomes' = Append(outcomes, RefusedRow(name))
                 /\ next' = next + 1 /\ UNCHANGED <<mstage, workspace>>
    /\ UNCHANGED <<sites, baselines, truth, source, captured, report_>>

PutBackIfRun(name, result) ==
    workspace' = IF result.compile = "linked" THEN workspace \ {name} ELSE workspace
\* finally: path.write_text(original)
PutBack(name, result) == workspace' = workspace \ {name}

Focus ==
    /\ mstage = "focused"
    /\ LET name == Catalog[next] IN
       \E result \in Results :
           /\ Ran(TestOf[name], result)
           /\ outcomes' = Append(outcomes, Focused(name, result))
           /\ PutBack(name, result)
    /\ mstage' = "mutate" /\ next' = next + 1
    /\ UNCHANGED <<sites, baselines, source, captured, report_>>

Render ==
    /\ mstage = "render" /\ mstage' = "kept"
    /\ report' = [rows |-> outcomes, summary |-> SummaryOf(outcomes), of |-> captured,
                  forged |-> FALSE]
    /\ UNCHANGED <<workspace, sites, next, baselines, outcomes, truth, source, captured,
                   verified, tampers>>

---------------------------------------------------------------------------
(* The report is a file: rows go, counts and verdicts are changed by hand. *)
(* A run made up from nothing (forged) is not what --verify can find.      *)
Dropped(rows, i) == SubSeq(rows, 1, i - 1) \o SubSeq(rows, i + 1, Len(rows))
Changed ==
    \/ \E i \in DOMAIN report.rows :
        \/ report' = [report EXCEPT !.rows = Dropped(@, i)]
        \/ report' = [report EXCEPT !.rows = Append(@, @[i])]
        \/ \E class \in {"killed", "survived", "invalid"} :
              report' = [report EXCEPT !.rows[i].class = class]
        \/ report' = [report EXCEPT !.rows[i] = RefusedRow(@.name)]
        \/ \E result \in Results : report' = [report EXCEPT !.rows[i] = Focused(@.name, result),
                                                            !.forged = TRUE]
    \/ report' = [report EXCEPT !.summary = SummaryOf(report.rows)]
    \/ report' = [report EXCEPT !.of = source]
Tamper ==
    /\ mstage = "kept" /\ tampers < MaxTampers /\ tampers' = tampers + 1
    /\ Changed
    /\ UNCHANGED <<mstage, workspace, sites, next, baselines, outcomes, truth, source,
                   captured, verified>>

\* verify_report: every verdict is worked out again from the row's evidence
RowHolds(row) == row = IF row.by = "precondition" THEN RefusedRow(row.name)
                       ELSE Focused(row.name, row.result)
AllRows(rows) == /\ Len(rows) = Cardinality(Known)
                 /\ {rows[i].name : i \in DOMAIN rows} = Known
Accepts(r, now) ==
    /\ r.of = now
    /\ \A i \in DOMAIN r.rows : RowHolds(r.rows[i])
    /\ AllRows(r.rows)
    /\ r.summary = SummaryOf(r.rows)

VerifyReport ==
          /\ mstage = "kept"
          /\ verified' = IF Accepts(report, source) THEN <<report, source>> ELSE <<>>
          /\ mstage' = "verified"
          /\ UNCHANGED <<workspace, sites, next, baselines, outcomes, truth, source, captured,
                         report, tampers>>

MutantsNext ==
    \/ Edited \/ CaptureSource \/ Baseline \/ Mutate \/ Focus \/ Render \/ Tamper \/ VerifyReport
MutantsSpec == MutantsInit /\ [][MutantsNext]_mutVars

---------------------------------------------------------------------------
\* A mutant is reported killed only where its test really told the difference:
\* the one test of the mutation passed on the untouched sources, and failed an
\* assertion or panicked on sources that held that mutation and no other.  A
\* report that --verify accepts and whose evidence nobody made up says no more
\* than that, has one row for every mutation, and counts its rows.
Told(name) ==
    /\ \E run \in truth : /\ run[1] = {} /\ run[2] = TestOf[name]
                          /\ run[3] = [compile |-> "linked", test |-> "passed"]
    /\ \E run \in truth : /\ run[1] = {name} /\ run[2] = TestOf[name]
                          /\ run[3].test \in {"failed Test", "panicked"}
KillsAreReal ==
    /\ \A i \in DOMAIN outcomes : outcomes[i].class = "killed" => Told(outcomes[i].name)
    /\ verified # <<>> =>
          LET rows == verified[1].rows IN
          /\ verified[1].of = verified[2]
          /\ {rows[i].name : i \in DOMAIN rows} = Known
          /\ verified[1].summary.killed = CountOf(rows, "killed")
          /\ verified[1].summary.total = Cardinality(Known)
          /\ ~verified[1].forged =>
                \A i \in DOMAIN rows : rows[i].class = "killed" => Told(rows[i].name)
=============================================================================
