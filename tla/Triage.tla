------------------------------- MODULE Triage -------------------------------
(***************************************************************************)
(* .github/scripts/triage.py, run by workflows/triage.yml on one pull      *)
(* request or issue and by labels.yml on the repository: labels are earned *)
(* from facts, while people retitle, push and label by hand and the label  *)
(* set itself is being synchronised.  The forge, GitHub or Forgejo, and    *)
(* the workflow's queue (one run per number, a new event cancels the run   *)
(* at work, a run's own changes raise no event) are external.              *)
(***************************************************************************)
EXTENDS Naturals, FiniteSets

CONSTANTS Taxonomies,  \* the label sets main may declare
          TypeLabels,  \* commit type -> its label
          PathLabel,   \* the row earned by a path
          Small, Large, Mark,  \* the size ramp and the row earned "when: unlabeled"
          HandLabels,  \* what people put on: bare, or declared without a rule
          OldLabel,    \* in a declared namespace, no longer declared
          MaxEvents, MaxSyncs


VARIABLES taxonomy,  \* what main declares: rows, and the names other configs cite
          forgeKind, \* "github" or "forgejo"
          pull,      \* whether the subject has a diff
          facts,     \* its title's type, its files
          on,        \* labels on the subject
          hand,      \* labels people put there that no rule earns on it
          exists,    \* labels the forge knows
          job,       \* the workflow run at work, and what it has read
          verdict,   \* the last answer of check
          syncing,   \* what a sync has still to do
          excusedLabels,   \* a person moved a label a rule earns; on an issue, a type was earned
          events, syncs

triVars == <<taxonomy, forgeKind, pull, facts, on, hand, exists, job, verdict, syncing,
             excusedLabels, events, syncs>>
subject_ == <<taxonomy, forgeKind, pull, events, syncs>>

Types == DOMAIN TypeLabels
TypeSet == {TypeLabels[t] : t \in Types}
MachineOwned == TypeSet \cup {PathLabel, Small, Large, Mark}

\* a row is earned one way; every row with a trigger is declared; what people put
\* on is declared or outside every namespace
ASSUME TriageAssumption ==
    /\ MaxEvents \in Nat /\ MaxSyncs \in Nat
    /\ Mark \notin TypeSet \cup {PathLabel, Small, Large} /\ PathLabel \notin TypeSet
    /\ MachineOwned \cap (HandLabels \cup {OldLabel}) = {}
    /\ \A t \in Taxonomies : /\ MachineOwned \subseteq t.declared
                             /\ HandLabels \cap t.namespaced \subseteq t.declared

\* Taxonomy.owned: a trigger is legible for one subject or the other
OwnedByAnyRule(isPull) == MachineOwned
Owned(isPull) == IF isPull THEN MachineOwned \ {Mark} ELSE TypeSet \cup {Mark}

\* typed: a title that does not parse earns nothing
Typed(title) == IF title \in Types THEN {TypeLabels[title]} ELSE {}
Sized(lines) == {IF lines = 0 THEN Small ELSE Large}
MatchedRule(touched) == IF touched THEN {PathLabel} ELSE {}
Earned(f) == MatchedRule(f.touched) \cup Sized(f.lines) \cup Typed(f.title)

\* sorts: the mark does not count as an answer, nor does what the title earns
SortsCountingMark(title, labels) == Typed(title) \cup (IF labels = {} THEN {Mark} ELSE {})
Sorts(title, labels) ==
    Typed(title) \cup (IF labels \ ({Mark} \cup Typed(title)) = {} THEN {Mark} ELSE {})

\* verify: every earned row in a namespace, every citation declared, and the
\* mark earned on a bare issue and released on a classified one
Namespaced(t) == MachineOwned \subseteq t.namespaced
Verified(t) == /\ Namespaced(t)
               /\ t.cited \subseteq t.declared
               /\ Mark \in Sorts("prose", {}) /\ Mark \notin Sorts("prose", {Mark, "bug"})

---------------------------------------------------------------------------
NoJob  == [step |-> "none"]
NoSync == [step |-> "none"]
Facts(isPull) == {f \in [title : Types \cup {"prose"}, touched : BOOLEAN, lines : {0, 1}] :
                    isPull \/ (~f.touched /\ f.lines = 0)}

\* the queue: one run per number, a new event cancels the one at work
RunJob(kind) == [step |-> "read", kind |-> kind, labels |-> {}, title |-> "",
                 add |-> {}, drop |-> {}]
Queued == RunJob(IF pull THEN "pr" ELSE "issue")

\* opened, by somebody
TriageInit ==
    /\ taxonomy \in Taxonomies
    /\ forgeKind \in {"github", "forgejo"} /\ pull \in BOOLEAN
    /\ facts \in Facts(pull)
    /\ on = {} /\ hand = {} /\ exists = {OldLabel} \cup HandLabels
    /\ job = Queued /\ verdict = "none" /\ syncing = NoSync
    /\ excusedLabels = (~pull /\ facts.title \in Types) /\ events = 0 /\ syncs = 0

Happens == /\ events < MaxEvents /\ events' = events + 1
           /\ UNCHANGED <<taxonomy, forgeKind, pull, exists, syncing, syncs>>

\* retitled, pushed to
EditIssue ==
         /\ \E f \in Facts(pull) : f # facts /\ facts' = f
         /\ job' = Queued
         /\ excusedLabels' = (excusedLabels \/ (~pull /\ facts'.title \in Types))
         /\ Happens /\ UNCHANGED <<on, hand, verdict>>

\* the labels no rule earns on this subject
ByHandOnly == HandLabels \cup {OldLabel, IF pull THEN Mark ELSE PathLabel}

\* by hand; only an issue's labels raise an event, on a pull request nothing runs
LabelByHand ==
         /\ \E l \in (HandLabels \cup {OldLabel, Mark, PathLabel} \cup TypeSet) \cap exists :
               /\ on' = IF l \in on THEN on \ {l} ELSE on \cup {l}
               /\ hand' = on' \cap ByHandOnly
               /\ excusedLabels' = (excusedLabels \/ l \in IF pull THEN MachineOwned \ {Mark} ELSE TypeSet)
         /\ IF pull THEN UNCHANGED job ELSE job' = Queued
         /\ Happens /\ UNCHANGED <<facts, verdict>>

\* On Forgejo an issue event fires for a pull request too.
Twin == /\ pull /\ forgeKind = "forgejo" /\ job = NoJob
        /\ job' = RunJob("issue")
        /\ UNCHANGED <<subject_, facts, on, hand, exists, verdict, syncing, excusedLabels>>

---------------------------------------------------------------------------
(* apply and check.                                                        *)
During(step) == job.step = step

ReadIssue ==
         /\ During("read")
         /\ job' = IF job.kind = "issue" /\ pull
                   THEN NoJob
                   ELSE [job EXCEPT !.labels = on, !.title = facts.title,
                                    !.step = IF pull THEN "files" ELSE "plan"]
         /\ verdict' = IF job.kind = "pr"
                       THEN IF Typed(facts.title) # {} THEN "ok" ELSE "refused"
                       ELSE verdict
         /\ UNCHANGED <<subject_, facts, on, hand, exists, syncing, excusedLabels>>

Planned(want) ==
    LET add  == want \ job.labels
        drop == (job.labels \cap Owned(pull)) \ want
    IN  job' = IF add \cup drop = {} THEN NoJob
               ELSE [job EXCEPT !.add = add, !.drop = drop, !.step = "write"]
Plan ==
    /\ \/ During("files") /\ Planned(Earned([facts EXCEPT !.title = job.title]))
       \/ During("plan")  /\ Planned(Sorts(job.title, job.labels))
    /\ UNCHANGED <<subject_, facts, on, hand, exists, verdict, syncing, excusedLabels>>

\* rows the forge has never heard of are written first
WriteMissing ==
    /\ During("write")
    /\ exists' = exists \cup job.add
    /\ job' = [job EXCEPT !.step = "add"]
    /\ UNCHANGED <<subject_, facts, on, hand, verdict, syncing, excusedLabels>>

\* (a sync at work erases no label a rule earns)
AddLabels ==
    /\ During("add")
    /\ on' = on \cup job.add
    /\ job' = IF job.drop = {} THEN NoJob ELSE [job EXCEPT !.step = "drop"]
    /\ UNCHANGED <<subject_, facts, hand, exists, verdict, syncing, excusedLabels>>
DropLabel ==
    /\ During("drop")
    /\ \E l \in job.drop :
          /\ on' = on \ {l}
          /\ job' = IF job.drop = {l} THEN NoJob ELSE [job EXCEPT !.drop = @ \ {l}]
    /\ UNCHANGED <<subject_, facts, hand, exists, verdict, syncing, excusedLabels>>

---------------------------------------------------------------------------
(* sync --prune.  The forge's list is read once.                           *)
SyncBegin ==
    /\ syncing = NoSync /\ syncs < MaxSyncs /\ syncs' = syncs + 1
    /\ syncing' = IF Verified(taxonomy)
                  THEN [step |-> "rows",
                        write |-> taxonomy.declared \ exists,
                        erase |-> (exists \cap taxonomy.namespaced) \ taxonomy.declared]
                  ELSE NoSync
    /\ UNCHANGED <<taxonomy, forgeKind, pull, facts, on, hand, exists, job, verdict,
                   excusedLabels, events>>
SyncStep ==
    /\ syncing # NoSync
    /\ \/ \E l \in syncing.write :
             /\ exists' = exists \cup {l} /\ syncing' = [syncing EXCEPT !.write = @ \ {l}]
             /\ UNCHANGED <<on, hand>>
       \/ /\ syncing.write = {}
          /\ \E l \in syncing.erase :
                /\ exists' = exists \ {l} /\ syncing' = [syncing EXCEPT !.erase = @ \ {l}]
                /\ on' = on \ {l} /\ hand' = hand \ {l}
       \/ /\ syncing.write \cup syncing.erase = {} /\ syncing' = NoSync
          /\ UNCHANGED <<exists, on, hand>>
    /\ UNCHANGED <<subject_, facts, job, verdict, excusedLabels>>

TriageNext ==
    \/ EditIssue \/ LabelByHand \/ Twin \/ ReadIssue \/ Plan \/ WriteMissing \/ AddLabels \/ DropLabel
    \/ SyncBegin \/ SyncStep
TriageSpec == TriageInit /\ [][TriageNext]_triVars

---------------------------------------------------------------------------
\* Whatever runs were cancelled half way and whatever people did meanwhile,
\* once no run is at work a pull request carries exactly the labels its files,
\* size and title earn (unless somebody moved one of these by hand, which
\* raises no event there) and its title was judged as it now reads; an issue
\* carries the type its title claims and no other, no mark beside a label
\* somebody chose, and the mark where nobody chose one - provided no type was
\* ever earned there (see UnreadIsMarked).  What no rule earns on the subject is left to people, and so
\* are the labels no rule declares when a sync prunes.
LabelsSettle ==
    /\ on \cap ByHandOnly = hand /\ HandLabels \subseteq exists
    /\ job = NoJob =>
          IF pull
          THEN /\ (verdict = "ok") <=> (facts.title \in Types)
               /\ excusedLabels \/ on \ ByHandOnly = Earned(facts)
          ELSE /\ on \cap TypeSet = Typed(facts.title)
               /\ Mark \in on => hand = {}
               /\ hand = {} /\ ~excusedLabels /\ syncs = 0 => Mark \in on

\* labels.json, "status/needs-triage: Not yet read by a maintainer": an issue that
\* carries no label at all, and that no run is working on, carries the mark -
\* unless the one label somebody gave it was pruned away by a sync.
UnreadIsMarked == ~pull /\ job = NoJob /\ syncs = 0 => on # {}
=============================================================================
