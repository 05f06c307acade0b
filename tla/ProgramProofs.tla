---------------------------- MODULE ProgramProofs ----------------------------
(***************************************************************************)
(* The programs around the engine, part by part: what a label, a           *)
(* certificate, a manifest of sources, a wheel, a release and a crate are  *)
(* promised, for every thread, every list of files, every matrix of        *)
(* targets and every number of edits meanwhile.                            *)
(***************************************************************************)
EXTENDS Triage, Certificate, Provenance, Wheels, Release, Crate, FiniteSetTheorems,
        SequenceTheorems, TLAPS

------------------------------------------------------------------------------
\* Triage. The labels of a thread settle on what its facts earn, and no hand
\* is overruled.

\* A run of the robot on a pull request or an issue.
TriageJobs == [step : {"read", "files", "plan", "write", "add", "drop"}, kind : {"pr", "issue"},
         labels : SUBSET (MachineOwned \cup HandLabels \cup {OldLabel}),
         title : Types \cup {"prose", ""},
         add : SUBSET MachineOwned, drop : SUBSET MachineOwned]

\* The types the steps keep.
TriTyped ==
    /\ taxonomy \in Taxonomies /\ pull \in BOOLEAN /\ facts \in Facts(pull)
    /\ on \subseteq MachineOwned \cup HandLabels \cup {OldLabel}
    /\ job = NoJob \/ job \in TriageJobs
    /\ excusedLabels \in BOOLEAN /\ syncs \in Nat

\* A sync of the label set erases no label the robot or a hand may put on.
SyncSpares ==
    \/ syncing = NoSync
    \/ /\ syncs > 0
       /\ syncing = [step |-> "rows", write |-> syncing.write, erase |-> syncing.erase]
       /\ syncing.erase \cap (MachineOwned \cup HandLabels) = {}

\* what the labels come to when the writes of the job are done
Coming == IF During("write") \/ During("add") THEN (on \cup job.add) \ job.drop
          ELSE IF During("drop") THEN on \ job.drop ELSE on

\* The run has decided what to write.
Writing == During("write") \/ During("add") \/ During("drop")

\* A pull request: once the robot has decided, what is on it and what is still
\* to be written make the labels its facts earn.
PullJob ==
    /\ During("plan") => FALSE
    /\ job # NoJob /\ job.kind = "issue" => During("read")
    /\ job = NoJob \/ job.kind = "issue" \/ ~During("read") =>
          ((verdict = "ok") <=> (facts.title \in Types))
    /\ During("files") => /\ job.title = facts.title
                          /\ ~excusedLabels => job.labels \ ByHandOnly = on \ ByHandOnly
    /\ Writing => job.add \cap ByHandOnly = {} /\ job.drop \cap ByHandOnly = {}
    /\ Writing \/ (job = NoJob) \/ (job # NoJob /\ job.kind = "issue") =>
          (excusedLabels \/ Coming \ ByHandOnly = Earned(facts))

\* An issue: what the robot is about to put on never holds a label kept for
\* hands, and never both a type and the mark that asks for one.
IssueJob ==
    /\ on \subseteq TypeSet \cup {Mark} \cup ByHandOnly
    /\ job # NoJob => job.kind = "issue" /\ ~During("files")
    /\ ~excusedLabels => on \cap TypeSet = {} /\ facts.title \notin Types
    /\ During("plan") => /\ job.title = facts.title /\ on \subseteq job.labels
                         /\ job.labels \subseteq on \cup {OldLabel}
                         /\ syncs = 0 => job.labels = on
    /\ Writing => /\ job.add \cap ByHandOnly = {} /\ job.drop \cap ByHandOnly = {}
                  /\ job.add \subseteq TypeSet \cup {Mark}
                  /\ ~excusedLabels => job.add \cap TypeSet = {}
    /\ Writing \/ job = NoJob =>
          /\ Coming \cap TypeSet = Typed(facts.title)
          /\ Mark \in Coming => hand = {}
          /\ hand = {} /\ ~excusedLabels /\ syncs = 0 => Mark \in Coming

\* The strengthening: the labels of a thread that is being written are on
\* their way to what its facts earn.
TriInv ==
    /\ TriTyped /\ SyncSpares
    /\ on \cap ByHandOnly = hand /\ HandLabels \subseteq exists
    /\ IF pull THEN PullJob ELSE IssueJob

\* What the invariant says is enough for LabelsSettle.
LEMMA TriInvImplies == TriInv => LabelsSettle
  BY DEF TriInv, LabelsSettle, PullJob, IssueJob, Coming, During, NoJob, TriTyped

\* The sets of labels keep apart what the robot owns and what hands own.
LEMMA TriLabels ==
    /\ Mark \notin TypeSet \cup {PathLabel, Small, Large} /\ PathLabel \notin TypeSet
    /\ \A f : Earned(f) \subseteq MachineOwned \ {Mark}
    /\ \A title, labels : Sorts(title, labels) \subseteq TypeSet \cup {Mark}
    /\ \A title : Typed(title) \subseteq TypeSet
    /\ TypeSet \cup {Mark} \subseteq MachineOwned
    /\ pull => (MachineOwned \ {Mark}) \cap ByHandOnly = {} /\ Owned(pull) = MachineOwned \ {Mark}
    /\ ~pull => (TypeSet \cup {Mark}) \cap ByHandOnly = {} /\ Owned(pull) = TypeSet \cup {Mark}
    /\ ByHandOnly \subseteq MachineOwned \cup HandLabels \cup {OldLabel}
    /\ pull => MachineOwned \cup HandLabels \cup {OldLabel} = (MachineOwned \ {Mark}) \cup ByHandOnly
  <1>1. /\ Mark \notin TypeSet \cup {PathLabel, Small, Large} /\ PathLabel \notin TypeSet
        /\ MachineOwned \cap (HandLabels \cup {OldLabel}) = {}
    BY TriageAssumption
  <1>2. \A title : Typed(title) \subseteq TypeSet
    BY DEF Typed, TypeSet
  <1>3. TypeSet \cup {PathLabel, Small, Large, Mark} = MachineOwned
    BY DEF MachineOwned
  <1>4. \A f : Earned(f) \subseteq MachineOwned \ {Mark}
    BY <1>1, <1>2, <1>3 DEF Earned, MatchedRule, Sized
  <1>5. \A title, labels : Sorts(title, labels) \subseteq TypeSet \cup {Mark}
    BY <1>2 DEF Sorts
  <1>6. /\ pull => (MachineOwned \ {Mark}) \cap ByHandOnly = {} /\ Owned(pull) = MachineOwned \ {Mark}
        /\ ~pull => (TypeSet \cup {Mark}) \cap ByHandOnly = {} /\ Owned(pull) = TypeSet \cup {Mark}
    BY <1>1, <1>3 DEF ByHandOnly, Owned
  <1>7. /\ ByHandOnly \subseteq MachineOwned \cup HandLabels \cup {OldLabel}
        /\ pull => MachineOwned \cup HandLabels \cup {OldLabel} = (MachineOwned \ {Mark}) \cup ByHandOnly
    BY <1>3 DEF ByHandOnly
  <1> QED
    BY <1>1, <1>2, <1>3, <1>4, <1>5, <1>6, <1>7

\* Before the first event nothing has been written.
LEMMA TriInitInv == TriageInit => TriInv
  <1> SUFFICES ASSUME TriageInit PROVE TriInv
    OBVIOUS
  <1>1. TriTyped
    BY DEF TriageInit, TriTyped, Queued, RunJob, TriageJobs
  <1>2. SyncSpares
    BY DEF TriageInit, SyncSpares
  <1>3. pull => PullJob
    BY DEF TriageInit, PullJob, Coming, Writing, During, NoJob, Queued, RunJob
  <1>4. ~pull => IssueJob
    BY DEF TriageInit, IssueJob, Coming, Writing, During, NoJob, Queued, RunJob
  <1> QED
    BY <1>1, <1>2, <1>3, <1>4 DEF TriInv, TriageInit

\* What a run holds when it begins.
LEMMA TriJobs ==
    /\ \A j \in TriageJobs :
          /\ j # NoJob /\ j.step # "none"
          /\ j.labels \subseteq MachineOwned \cup HandLabels \cup {OldLabel}
          /\ j.add \subseteq MachineOwned /\ j.drop \subseteq MachineOwned
    /\ \A kind \in {"pr", "issue"} : RunJob(kind) \in TriageJobs /\ RunJob(kind).step = "read" /\ RunJob(kind).kind = kind
    /\ NoJob.step = "none"
    /\ \A f \in Facts(pull) : f.title \in Types \cup {"prose"}
  <1>1. \A j \in TriageJobs : j.step \in {"read", "files", "plan", "write", "add", "drop"}
    BY DEF TriageJobs
  <1>2. NoJob.step = "none"
    BY DEF NoJob
  <1>3. \A j \in TriageJobs : j.labels \subseteq MachineOwned \cup HandLabels \cup {OldLabel}
    BY DEF TriageJobs
  <1>4. \A j \in TriageJobs : j.add \subseteq MachineOwned /\ j.drop \subseteq MachineOwned
    BY DEF TriageJobs
  <1>5. \A kind \in {"pr", "issue"} : RunJob(kind) \in TriageJobs /\ RunJob(kind).step = "read" /\ RunJob(kind).kind = kind
    BY DEF RunJob, TriageJobs
  <1>6. \A f \in Facts(pull) : f.title \in Types \cup {"prose"}
    BY DEF Facts
  <1> QED
    BY <1>1, <1>2, <1>3, <1>4, <1>5, <1>6

\* Whoever edits a title changes no label (triage.py, the edited event).
LEMMA TriEdits == TriInv /\ EditIssue => TriInv'
  <1> SUFFICES ASSUME TriInv, EditIssue PROVE TriInv'
    OBVIOUS
  <1>0. pull' = pull /\ ByHandOnly' = ByHandOnly /\ taxonomy' = taxonomy
    BY DEF EditIssue, Happens, ByHandOnly
  <1>a. job' \in TriageJobs /\ job'.step = "read" /\ job'.kind = (IF pull THEN "pr" ELSE "issue")
    BY TriJobs DEF EditIssue, Queued
  <1>1. TriTyped'
    BY <1>0, <1>a, TriLabels, TriJobs DEF EditIssue, Happens, TriInv, TriTyped, During
  <1>2. SyncSpares'
    BY DEF EditIssue, Happens, TriInv, SyncSpares, TriTyped, NoSync
  <1>3. on' \cap ByHandOnly' = hand' /\ (HandLabels \subseteq exists)'
    BY <1>0 DEF EditIssue, Happens, TriInv
  <1>4. ASSUME pull PROVE PullJob'
    BY <1>0, <1>a, <1>4, TriLabels, TriJobs DEF EditIssue, Happens, TriInv, TriTyped, PullJob, Coming, Writing, During
  <1>5. ASSUME ~pull PROVE IssueJob'
    BY <1>0, <1>a, <1>5, TriLabels, TriJobs DEF EditIssue, Happens, TriInv, TriTyped, IssueJob, Coming, Writing, During
  <1> QED
    BY <1>0, <1>1, <1>2, <1>3, <1>4, <1>5 DEF TriInv

\* A second delivery of one event begins the run again.
LEMMA TriTwins == TriInv /\ Twin => TriInv'
  <1> SUFFICES ASSUME TriInv, Twin PROVE TriInv'
    OBVIOUS
  <1>0. pull' = pull /\ ByHandOnly' = ByHandOnly /\ taxonomy' = taxonomy
    BY DEF Twin, subject_, ByHandOnly
  <1>a. job' \in TriageJobs /\ job'.step = "read" /\ job'.kind = "issue"
    BY TriJobs DEF Twin
  <1>1. TriTyped'
    BY <1>0, <1>a, TriLabels, TriJobs DEF Twin, subject_, TriInv, TriTyped, During
  <1>2. SyncSpares'
    BY DEF Twin, subject_, TriInv, SyncSpares, TriTyped, NoSync
  <1>3. on' \cap ByHandOnly' = hand' /\ (HandLabels \subseteq exists)'
    BY <1>0 DEF Twin, subject_, TriInv
  <1>4. ASSUME pull PROVE PullJob'
    BY <1>0, <1>a, <1>4, TriLabels, TriJobs DEF Twin, subject_, TriInv, TriTyped, PullJob, Coming, Writing, During
  <1>5. ASSUME ~pull PROVE IssueJob'
    BY <1>0, <1>a, <1>5, TriLabels, TriJobs DEF Twin, subject_, TriInv, TriTyped, IssueJob, Coming, Writing, During
  <1> QED
    BY <1>0, <1>1, <1>2, <1>3, <1>4, <1>5 DEF TriInv

\* Reading an issue takes its labels and its title.
LEMMA TriReads == TriInv /\ ReadIssue => TriInv'
  <1> SUFFICES ASSUME TriInv, ReadIssue PROVE TriInv'
    OBVIOUS
  <1>0. pull' = pull /\ ByHandOnly' = ByHandOnly /\ taxonomy' = taxonomy
    BY DEF ReadIssue, subject_, ByHandOnly
  <1>j. job \in TriageJobs
    BY TriJobs DEF TriInv, TriTyped, During, ReadIssue
  <1>a. /\ job.kind \in {"pr", "issue"}
        /\ IF job.kind = "issue" /\ pull
           THEN job' = NoJob
           ELSE /\ job' \in TriageJobs /\ job'.step = (IF pull THEN "files" ELSE "plan")
                /\ job'.kind = job.kind /\ job'.labels = on /\ job'.title = facts.title
                /\ job'.add = job.add /\ job'.drop = job.drop
    BY ZenonT(60), <1>j, TriJobs DEF ReadIssue, TriageJobs, TriInv, TriTyped
  <1>t. Typed(facts.title) # {} <=> facts.title \in Types
    BY DEF Typed
  <1>1. TriTyped'
    BY <1>0, <1>a, TriLabels, TriJobs DEF ReadIssue, subject_, TriInv, TriTyped, During
  <1>2. SyncSpares'
    BY DEF ReadIssue, subject_, TriInv, SyncSpares, TriTyped, NoSync
  <1>3. on' \cap ByHandOnly' = hand' /\ (HandLabels \subseteq exists)'
    BY <1>0 DEF ReadIssue, subject_, TriInv
  <1>4. ASSUME pull PROVE PullJob'
    BY <1>0, <1>a, <1>t, <1>4, TriLabels, TriJobs DEF ReadIssue, subject_, TriInv, TriTyped, PullJob, Coming, Writing, During
  <1>5. ASSUME ~pull PROVE IssueJob'
    BY <1>0, <1>a, <1>5, TriLabels, TriJobs DEF ReadIssue, subject_, TriInv, TriTyped, IssueJob, Coming, Writing, During
  <1> QED
    BY <1>0, <1>1, <1>2, <1>3, <1>4, <1>5 DEF TriInv

\* A label the repository lacks is made before it is put on.
LEMMA TriMissing == TriInv /\ WriteMissing => TriInv'
  <1> SUFFICES ASSUME TriInv, WriteMissing PROVE TriInv'
    OBVIOUS
  <1>0. pull' = pull /\ ByHandOnly' = ByHandOnly /\ taxonomy' = taxonomy
    BY DEF WriteMissing, subject_, ByHandOnly
  <1>j. job \in TriageJobs
    BY TriJobs DEF TriInv, TriTyped, During, WriteMissing
  <1>a. /\ job' \in TriageJobs /\ job'.step = "add" /\ job'.kind = job.kind
        /\ job'.add = job.add /\ job'.drop = job.drop
    BY <1>j DEF WriteMissing, TriageJobs
  <1>1. TriTyped'
    BY <1>0, <1>a, TriLabels, TriJobs DEF WriteMissing, subject_, TriInv, TriTyped, During
  <1>2. SyncSpares'
    BY DEF WriteMissing, subject_, TriInv, SyncSpares, TriTyped, NoSync
  <1>3. on' \cap ByHandOnly' = hand' /\ (HandLabels \subseteq exists)'
    BY <1>0 DEF WriteMissing, subject_, TriInv
  <1>4. ASSUME pull PROVE PullJob'
    BY <1>0, <1>a, <1>4, TriLabels, TriJobs DEF WriteMissing, subject_, TriInv, TriTyped, PullJob, Coming, Writing, During
  <1>5. ASSUME ~pull PROVE IssueJob'
    BY <1>0, <1>a, <1>5, TriLabels, TriJobs DEF WriteMissing, subject_, TriInv, TriTyped, IssueJob, Coming, Writing, During
  <1> QED
    BY <1>0, <1>1, <1>2, <1>3, <1>4, <1>5 DEF TriInv

\* Labels are added in one call.
LEMMA TriAdds == TriInv /\ AddLabels => TriInv'
  <1> SUFFICES ASSUME TriInv, AddLabels PROVE TriInv'
    OBVIOUS
  <1>0. pull' = pull /\ ByHandOnly' = ByHandOnly /\ taxonomy' = taxonomy
    BY DEF AddLabels, subject_, ByHandOnly
  <1>j. job \in TriageJobs
    BY TriJobs DEF TriInv, TriTyped, During, AddLabels
  <1>a. IF job.drop = {} THEN job' = NoJob
        ELSE /\ job' \in TriageJobs /\ job'.step = "drop" /\ job'.kind = job.kind
             /\ job'.add = job.add /\ job'.drop = job.drop
    BY <1>j DEF AddLabels, TriageJobs
  <1>1. TriTyped'
    BY <1>0, <1>a, TriLabels, TriJobs DEF AddLabels, subject_, TriInv, TriTyped, During
  <1>2. SyncSpares'
    BY DEF AddLabels, subject_, TriInv, SyncSpares, TriTyped, NoSync
  <1>3. on' \cap ByHandOnly' = hand' /\ (HandLabels \subseteq exists)'
    BY <1>0, <1>j, TriJobs DEF AddLabels, subject_, TriInv, TriTyped, PullJob, IssueJob, Writing, During
  <1>4. ASSUME pull PROVE PullJob'
    BY <1>0, <1>a, <1>4, TriLabels, TriJobs DEF AddLabels, subject_, TriInv, TriTyped, PullJob, Coming, Writing, During
  <1>5. ASSUME ~pull PROVE IssueJob'
    BY <1>0, <1>a, <1>5, TriLabels, TriJobs DEF AddLabels, subject_, TriInv, TriTyped, IssueJob, Coming, Writing, During
  <1> QED
    BY <1>0, <1>1, <1>2, <1>3, <1>4, <1>5 DEF TriInv

\* Labels are dropped one call each.
LEMMA TriDrops == TriInv /\ DropLabel => TriInv'
  <1> SUFFICES ASSUME TriInv, DropLabel PROVE TriInv'
    OBVIOUS
  <1>0. pull' = pull /\ ByHandOnly' = ByHandOnly /\ taxonomy' = taxonomy
    BY DEF DropLabel, subject_, ByHandOnly
  <1>j. job \in TriageJobs
    BY TriJobs DEF TriInv, TriTyped, During, DropLabel
  <1>b. PICK l \in job.drop : /\ on' = on \ {l}
                                /\ job' = IF job.drop = {l} THEN NoJob ELSE [job EXCEPT !.drop = @ \ {l}]
    BY DEF DropLabel
  <1>a. IF job.drop = {l} THEN job' = NoJob
        ELSE /\ job' \in TriageJobs /\ job'.step = "drop" /\ job'.kind = job.kind
             /\ job'.add = job.add /\ job'.drop = job.drop \ {l}
    BY <1>j, <1>b DEF DropLabel, During, TriageJobs
  <1>c. /\ on' = on \ {l} /\ During("drop") /\ UNCHANGED <<subject_, facts, hand, exists, verdict, syncing, excusedLabels>>
    BY <1>b DEF DropLabel
  <1>1. TriTyped'
    BY <1>0, <1>a, TriLabels, <1>c, TriJobs DEF subject_, TriInv, TriTyped, During
  <1>2. SyncSpares'
    BY DEF DropLabel, subject_, TriInv, SyncSpares, TriTyped, NoSync
  <1>3. on' \cap ByHandOnly' = hand' /\ (HandLabels \subseteq exists)'
    BY <1>0, <1>j, <1>c, TriJobs DEF subject_, TriInv, TriTyped, PullJob, IssueJob, Writing, During
  <1>4. ASSUME pull PROVE PullJob'
    BY <1>0, <1>a, <1>4, TriLabels, <1>c, TriJobs DEF subject_, TriInv, TriTyped, PullJob, Coming, Writing, During
  <1>5. ASSUME ~pull PROVE IssueJob'
    BY <1>0, <1>a, <1>5, TriLabels, <1>c, TriJobs DEF subject_, TriInv, TriTyped, IssueJob, Coming, Writing, During
  <1> QED
    BY <1>0, <1>1, <1>2, <1>3, <1>4, <1>5 DEF TriInv

\* The decision: what is earned, less what is on.
LEMMA TriPlans == TriInv /\ Plan => TriInv'
  <1> SUFFICES ASSUME TriInv, Plan PROVE TriInv'
    OBVIOUS
  <1>0. /\ pull' = pull /\ ByHandOnly' = ByHandOnly /\ taxonomy' = taxonomy
        /\ UNCHANGED <<subject_, facts, on, hand, exists, verdict, syncing, excusedLabels>>
    BY DEF Plan, ByHandOnly, subject_
  <1>j. job \in TriageJobs
    BY TriJobs DEF TriInv, TriTyped, Plan, During
  <1>1. PICK want :
          /\ Planned(want)
          /\ \/ During("files") /\ want = Earned([facts EXCEPT !.title = job.title])
             \/ During("plan") /\ want = Sorts(job.title, job.labels)
    BY DEF Plan
  <1> DEFINE add == want \ job.labels
             drop == (job.labels \cap Owned(pull)) \ want
  <1>w. want \subseteq MachineOwned /\ drop \subseteq MachineOwned
    BY <1>1, TriLabels DEF TriInv, TriTyped
  <1>a. IF add \cup drop = {} THEN job' = NoJob
        ELSE /\ job' \in TriageJobs /\ job'.step = "write" /\ job'.kind = job.kind
             /\ job'.add = add /\ job'.drop = drop
    BY <1>1, <1>j, <1>w DEF Planned, TriageJobs
  <1>2. TriTyped'
    BY <1>0, <1>a DEF subject_, TriInv, TriTyped
  <1>3. SyncSpares'
    BY <1>0 DEF subject_, TriInv, SyncSpares
  <1>4. on' \cap ByHandOnly' = hand' /\ (HandLabels \subseteq exists)'
    BY <1>0 DEF TriInv
  <1>5. ASSUME pull PROVE PullJob'
    <2>1. During("files") /\ job.title = facts.title /\ want = Earned(facts)
      <3>1. During("files") /\ job.title = facts.title
        BY <1>1, <1>5 DEF TriInv, PullJob
      <3> QED
        BY <3>1, <1>1, <1>5 DEF TriInv, TriTyped, Facts, During
    <2>2. want \subseteq MachineOwned \ {Mark} /\ drop \subseteq MachineOwned \ {Mark}
      BY <2>1, <1>5, TriLabels
    <2>3. excusedLabels \/ ((on \cup add) \ drop) \ ByHandOnly = Earned(facts)
      <3>1. ~excusedLabels => job.labels \ ByHandOnly = on \ ByHandOnly
        BY <1>5, <2>1 DEF TriInv, PullJob
      <3>2. on \subseteq (MachineOwned \ {Mark}) \cup ByHandOnly
        BY <1>5, TriLabels DEF TriInv, TriTyped
      <3> QED
        BY <3>1, <3>2, <1>5, <2>1, <2>2, TriLabels
    <2>4. job.kind # "issue" /\ ((verdict = "ok") <=> (facts.title \in Types))
      BY <1>5, <2>1, <1>j, TriJobs DEF TriInv, PullJob, During
    <2>5. CASE add \cup drop = {}
      BY <2>5, <1>0, <1>5, <1>a, <2>3, <2>4, TriJobs DEF PullJob, Coming, Writing, During
    <2>6. CASE add \cup drop # {}
      BY <2>6, <1>0, <1>5, <1>a, <2>2, <2>3, <2>4, TriJobs, TriLabels DEF PullJob, Coming, Writing, During
    <2> QED
      BY <2>5, <2>6
  <1>6. ASSUME ~pull PROVE IssueJob'
    <2>1. /\ During("plan") /\ job.title = facts.title /\ want = Sorts(facts.title, job.labels)
          /\ on \subseteq job.labels /\ job.labels \subseteq on \cup {OldLabel}
          /\ syncs = 0 => job.labels = on
          /\ job.kind = "issue" /\ on \subseteq TypeSet \cup {Mark} \cup ByHandOnly
          /\ ~excusedLabels => on \cap TypeSet = {} /\ facts.title \notin Types
      BY <1>1, <1>6, <1>j, TriJobs DEF TriInv, IssueJob, During
    <2>2. want \subseteq TypeSet \cup {Mark} /\ drop = (job.labels \cap (TypeSet \cup {Mark})) \ want
      BY <2>1, <1>6, TriLabels
    <2>3. OldLabel \notin TypeSet \cup {Mark} /\ OldLabel \in ByHandOnly
      BY TriageAssumption DEF MachineOwned, ByHandOnly
    <2>4. want \cap TypeSet = Typed(facts.title)
      BY <2>1, TriLabels DEF Sorts
    <2>5. (~excusedLabels) => want \cap TypeSet = {}
      BY <2>1, <2>4 DEF Typed
    <2>6. ((on \cup add) \ drop) \cap TypeSet = Typed(facts.title)
      BY <2>1, <2>2, <2>3, <2>4
    <2>7. (Mark \in (on \cup add) \ drop) => hand = {}
      <3>1. (Mark \in (on \cup add) \ drop) => Mark \in want
        BY <2>1, <2>2
      <3>2. (Mark \in want) => job.labels \subseteq {Mark} \cup TypeSet
        BY <2>1, TriLabels DEF Sorts
      <3> QED
        BY <3>1, <3>2, <2>1, <1>6, TriLabels DEF TriInv
    <2>8. hand = {} /\ ~excusedLabels /\ syncs = 0 => Mark \in (on \cup add) \ drop
      <3>1. hand = {} /\ ~excusedLabels => on \subseteq {Mark}
        BY <2>1 DEF TriInv
      <3>2. hand = {} /\ ~excusedLabels /\ syncs = 0 => Mark \in want
        BY <2>1, <3>1 DEF Sorts
      <3> QED
        BY <3>2, <2>1
    <2>9. add \cap ByHandOnly = {} /\ drop \cap ByHandOnly = {} /\ add \subseteq TypeSet \cup {Mark}
      BY <2>2, <1>6, TriLabels
    <2>10. CASE add \cup drop = {}
      <3>1. (on \cup add) \ drop = on /\ job' = NoJob
        BY <2>10, <1>a
      <3> HIDE DEF add, drop
      <3> QED
        BY <3>1, <1>0, <1>6, <2>1, <2>6, <2>7, <2>8, TriJobs DEF subject_, IssueJob, Coming, Writing, During
    <2>11. CASE add \cup drop # {}
      <3> DEFINE coming == (on \cup add) \ drop
      <3>1. /\ job' # NoJob /\ job'.step = "write" /\ job'.kind = "issue" /\ job'.add = add /\ job'.drop = drop
        BY <2>11, <1>a, <2>1, TriJobs
      <3>2. Coming' = coming
        BY <3>1, <1>0 DEF Coming, During
      <3>3. add \cap TypeSet \subseteq want \cap TypeSet
        OBVIOUS
      <3> HIDE DEF add, drop, coming
      <3>4. (~excusedLabels) => add \cap TypeSet = {}
        BY <3>3, <2>5
      <3>5. /\ coming \cap TypeSet = Typed(facts.title) /\ (Mark \in coming => hand = {})
            /\ hand = {} /\ ~excusedLabels /\ syncs = 0 => Mark \in coming
        BY <2>6, <2>7, <2>8 DEF coming
      <3>6. /\ on' = on /\ hand' = hand /\ facts' = facts /\ excusedLabels' = excusedLabels /\ syncs' = syncs
        BY <1>0 DEF subject_
      <3> QED
        BY <1>0, <1>6, <2>1, <2>9, <3>1, <3>2, <3>4, <3>5, <3>6 DEF IssueJob, Writing, During
    <2> QED
      BY <2>10, <2>11
  <1> QED
    BY <1>0, <1>2, <1>3, <1>4, <1>5, <1>6 DEF TriInv

\* A hand may put on or take off any label at any time.
LEMMA TriHands == TriInv /\ LabelByHand => TriInv'
  <1> SUFFICES ASSUME TriInv, LabelByHand PROVE TriInv'
    OBVIOUS
  <1>0. /\ pull' = pull /\ ByHandOnly' = ByHandOnly /\ taxonomy' = taxonomy
        /\ UNCHANGED <<facts, exists, verdict, syncing, syncs>>
    BY DEF LabelByHand, Happens, ByHandOnly
  <1>1. PICK l \in HandLabels \cup {OldLabel, Mark, PathLabel} \cup TypeSet :
          /\ on' = IF l \in on THEN on \ {l} ELSE on \cup {l}
          /\ hand' = on' \cap ByHandOnly
          /\ excusedLabels' = (excusedLabels \/ l \in IF pull THEN MachineOwned \ {Mark} ELSE TypeSet)
          /\ IF pull THEN UNCHANGED job ELSE job' = Queued
    BY DEF LabelByHand
  <1>a. ~pull => job' \in TriageJobs /\ job'.step = "read" /\ job'.kind = "issue"
    BY <1>1, TriJobs DEF Queued
  <1>b. HandLabels \cup {OldLabel, Mark, PathLabel} \cup TypeSet
            \subseteq MachineOwned \cup HandLabels \cup {OldLabel}
    BY DEF MachineOwned
  <1>2. TriTyped'
    BY <1>0, <1>1, <1>a, <1>b DEF TriInv, TriTyped
  <1>3. SyncSpares'
    BY <1>0 DEF TriInv, SyncSpares
  <1>4. on' \cap ByHandOnly' = hand' /\ (HandLabels \subseteq exists)'
    BY <1>0, <1>1 DEF TriInv
  <1>5. ASSUME pull PROVE PullJob'
    <2>1. l \in ByHandOnly \/ (l \in MachineOwned \ {Mark} /\ excusedLabels')
      BY <1>1, <1>b, <1>5 DEF ByHandOnly
    <2>2. ~excusedLabels' => ~excusedLabels /\ on' \ ByHandOnly = on \ ByHandOnly
      BY <2>1, <1>1
    <2>3. Writing => job.add \cap ByHandOnly = {} /\ job.drop \cap ByHandOnly = {}
      BY <1>5 DEF TriInv, PullJob
    <2>4. ~excusedLabels' /\ Writing => Coming' \ ByHandOnly = Coming \ ByHandOnly
      BY <2>2, <2>3, <1>1, <1>5 DEF Coming, During, Writing
    <2>5. ~excusedLabels' /\ ~Writing => Coming' \ ByHandOnly = Coming \ ByHandOnly
      BY <2>2, <1>1, <1>5 DEF Coming, During, Writing
    <2>6. excusedLabels' \in BOOLEAN /\ (excusedLabels => excusedLabels')
      BY <1>1 DEF TriInv, TriTyped
    <2>7. job' = job
      BY <1>1, <1>5
    <2> QED
      BY <1>0, <1>5, <2>2, <2>3, <2>4, <2>5, <2>6, <2>7 DEF TriInv, PullJob, During, Writing
  <1>6. ASSUME ~pull PROVE IssueJob'
    <2>1. on' \subseteq TypeSet \cup {Mark} \cup ByHandOnly
      BY <1>1, <1>6 DEF TriInv, IssueJob, ByHandOnly
    <2>2. ~excusedLabels' => on' \cap TypeSet = {} /\ facts.title \notin Types
      BY <1>1, <1>6 DEF TriInv, IssueJob, TriTyped
    <2> QED
      BY <1>0, <1>6, <1>a, <2>1, <2>2, TriJobs DEF IssueJob, During, Writing
  <1> QED
    BY <1>0, <1>2, <1>3, <1>4, <1>5, <1>6 DEF TriInv

\* A sync begins.
LEMMA TriBegins == TriInv /\ SyncBegin => TriInv'
  <1> SUFFICES ASSUME TriInv, SyncBegin PROVE TriInv'
    OBVIOUS
  <1>0. /\ pull' = pull /\ ByHandOnly' = ByHandOnly /\ syncs' = syncs + 1 /\ syncs \in Nat
        /\ UNCHANGED <<taxonomy, facts, on, hand, exists, job, verdict, excusedLabels>>
    BY DEF SyncBegin, ByHandOnly, TriInv, TriTyped
  <1>1. SyncSpares'
    <2>1. CASE Verified(taxonomy)
      <3>1. MachineOwned \subseteq taxonomy.declared /\ HandLabels \cap taxonomy.namespaced \subseteq taxonomy.declared
        BY TriageAssumption DEF TriInv, TriTyped
      <3>2. syncing' = [step |-> "rows", write |-> taxonomy.declared \ exists,
                        erase |-> (exists \cap taxonomy.namespaced) \ taxonomy.declared]
        BY <2>1 DEF SyncBegin
      <3>3. syncs' > 0
        BY <1>0
      <3> QED
        BY <3>1, <3>2, <3>3 DEF SyncSpares
    <2>2. CASE ~Verified(taxonomy)
      BY <2>2 DEF SyncBegin, SyncSpares
    <2> QED
      BY <2>1, <2>2
  <1>2. TriTyped'
    BY <1>0 DEF TriInv, TriTyped
  <1>3. syncs' # 0
    BY <1>0
  <1>4. pull => PullJob'
    BY <1>0 DEF TriInv, PullJob, Coming, Writing, During
  <1>5. ~pull => IssueJob'
    BY <1>0, <1>3 DEF TriInv, IssueJob, Coming, Writing, During
  <1> QED
    BY <1>0, <1>1, <1>2, <1>4, <1>5 DEF TriInv

\* A sync writes and erases rows.
LEMMA TriSyncs == TriInv /\ SyncStep => TriInv'
  <1> SUFFICES ASSUME TriInv, SyncStep PROVE TriInv'
    OBVIOUS
  <1>0. /\ pull' = pull /\ ByHandOnly' = ByHandOnly /\ syncs' = syncs
        /\ UNCHANGED <<taxonomy, facts, job, verdict, excusedLabels>>
    BY DEF SyncStep, subject_, ByHandOnly
  <1>1. /\ syncs > 0 /\ syncing.erase \cap (MachineOwned \cup HandLabels) = {}
        /\ syncing = [step |-> "rows", write |-> syncing.write, erase |-> syncing.erase]
    BY DEF TriInv, SyncSpares, SyncStep
  <1>2. PICK l :
          /\ on' \in {on, on \ {l}} 
          /\ l \in HandLabels \cup MachineOwned => on' = on /\ hand' = hand
          /\ \/ on' = on /\ hand' = hand
             \/ on' = on \ {l} /\ hand' = hand \ {l}
          /\ HandLabels \subseteq exists'
          /\ \/ syncing' = NoSync
             \/ syncing' = [step |-> "rows", write |-> syncing'.write, erase |-> syncing'.erase]
                /\ syncing'.erase \subseteq syncing.erase
    <2>1. HandLabels \subseteq exists
      BY DEF TriInv
    <2>2. CASE \E l \in syncing.write :
                 /\ exists' = exists \cup {l} /\ syncing' = [syncing EXCEPT !.write = @ \ {l}]
                 /\ UNCHANGED <<on, hand>>
      BY <1>1, <2>1, <2>2
    <2>3. CASE \E l \in syncing.erase :
                 /\ exists' = exists \ {l} /\ syncing' = [syncing EXCEPT !.erase = @ \ {l}]
                 /\ on' = on \ {l} /\ hand' = hand \ {l}
      <3>1. PICK l \in syncing.erase :
                 /\ exists' = exists \ {l} /\ syncing' = [syncing EXCEPT !.erase = @ \ {l}]
                 /\ on' = on \ {l} /\ hand' = hand \ {l}
        BY <2>3
      <3>2. l \notin HandLabels \cup MachineOwned
        BY <1>1, <3>1
      <3>3. /\ syncing' = [step |-> "rows", write |-> syncing'.write, erase |-> syncing'.erase]
            /\ syncing'.erase \subseteq syncing.erase
        BY <1>1, <3>1
      <3> QED
        BY <3>1, <3>2, <3>3, <2>1
    <2>4. CASE syncing' = NoSync /\ UNCHANGED <<exists, on, hand>>
      BY <2>1, <2>4
    <2> QED
      BY <2>2, <2>3, <2>4 DEF SyncStep
  <1>3. SyncSpares'
    BY <1>0, <1>1, <1>2 DEF SyncSpares
  <1>4. TriTyped'
    BY <1>0, <1>2 DEF TriInv, TriTyped
  <1>5. on' \cap ByHandOnly' = hand' /\ (HandLabels \subseteq exists)'
    BY <1>0, <1>2 DEF TriInv
  <1>6. on' \subseteq on /\ on \ on' \subseteq {OldLabel}
    BY <1>2 DEF TriInv, TriTyped
  <1>7. OldLabel \in ByHandOnly /\ OldLabel \notin MachineOwned
    BY TriageAssumption DEF ByHandOnly
  <1>8. Coming' \subseteq Coming /\ Coming \ Coming' \subseteq {OldLabel}
    BY <1>0, <1>6 DEF Coming, During
  <1>9. ASSUME pull PROVE PullJob'
    BY <1>0, <1>6, <1>7, <1>8, <1>9 DEF TriInv, PullJob, Writing, During
  <1>10. ASSUME ~pull PROVE IssueJob'
    <2>1. syncs' # 0 /\ (hand = {} => hand' = {})
      BY <1>0, <1>1, <1>2 DEF TriInv, TriTyped
    <2>2. TypeSet \cup {Mark} \subseteq MachineOwned
      BY TriLabels
    <2>3. Coming' \cap (TypeSet \cup {Mark}) = Coming \cap (TypeSet \cup {Mark})
      BY <1>7, <1>8, <2>2
    <2> QED
      BY <1>0, <1>6, <1>7, <2>1, <2>2, <2>3, <1>10 DEF TriInv, IssueJob, Writing, During
  <1> QED
    BY <1>0, <1>3, <1>4, <1>5, <1>9, <1>10 DEF TriInv

\* Every step of the robot, of hands and of the forge keeps it.
LEMMA TriStepInv == TriInv /\ [TriageNext]_triVars => TriInv'
  <1> SUFFICES ASSUME TriInv, [TriageNext]_triVars PROVE TriInv'
    OBVIOUS
  <1>1. CASE UNCHANGED triVars
    BY <1>1 DEF triVars, TriInv, TriTyped, SyncSpares, PullJob, IssueJob, Coming, Writing, During, ByHandOnly
  <1> QED
    BY <1>1, TriEdits, TriHands, TriTwins, TriReads, TriPlans, TriMissing, TriAdds, TriDrops,
       TriBegins, TriSyncs DEF TriageNext

------------------------------------------------------------------------------
\* Certificate. What is attested was minted, gated and whole.

\* What a bundle is copied in pieces of.
TreePieces == Files \cup {"sides"}

\* A bundle is a map of its pieces.
IsTree(b) == b = [f \in TreePieces |-> b[f]] /\ b.sides = [l \in Layers |-> b.sides[l]]

\* The certificate of a bundle is of a mint.
CertOf(b, m) == b.cert = [mint |-> m, layers |-> b.cert.layers, claims |-> b.cert.claims,
                          leaks |-> b.cert.leaks]

\* the files the script has gone past when it is at a step
PutBefore(ph) == IF ph = "machine" THEN {"cert"}
                 ELSE IF ph = "tools" THEN {"cert", "machine"}
                 ELSE IF ph = "manifest" THEN {"cert", "machine", "tools"}
                 ELSE IF ph \in {"sides", "gate", "record"} THEN Files ELSE {}

\* The phases of a copy out of the scratch bundle.
Publishing == {"cert", "machine", "tools", "manifest", "sides", "gate", "record"}

\* The types the steps keep.
CertTyped ==
    /\ mints \in Nat /\ (step # "idle" => mints >= 1)
    /\ run \in [to : PlaceTable, os : RequiredTables, missed : BOOLEAN]
    /\ step \in {"idle", "lanes", "provenance"} \cup Publishing
    /\ IsTree(out) /\ pub = [d \in PlaceTable |-> pub[d]] /\ complete = [d \in PlaceTable |-> complete[d]]
    /\ \A d \in PlaceTable : IsTree(pub[d]) /\ IsTree(complete[d])
    /\ ledger \in Seq(Range(ledger))

\* A bundle nobody tore, with nothing private in it.
WholeBundle(b) == OneMint(b) /\ PublicSafe(b)

\* The scratch bundle is of the mint under way, whole from the moment it is
\* copied out.
ScratchWhole ==
    /\ step # "idle" => CertOf(out, mints)
    /\ step \in {"provenance"} \cup Publishing => \A l \in out.cert.layers : out.sides[l] = mints
    /\ step \in Publishing => Valid(out) /\ OneMint(out)

\* A certificate that is out was minted, and that of the mint at work lies
\* where the run puts it.
MintsKnown ==
    \A d \in PlaceTable :
        /\ Holds(pub[d].cert) => pub[d].cert.mint \in 1 .. mints
        /\ Holds(complete[d].cert) => complete[d].cert.mint \in 1 .. mints
        /\ Holds(pub[d].cert) /\ pub[d].cert.mint = mints /\ step # "idle" =>
              d = run.to /\ PutBefore(step) # {}
        /\ Holds(complete[d].cert) /\ step # "idle" => complete[d].cert.mint # mints

\* No two places hold one mint's certificate, on disk or as last recorded.
SameMint(b, c) == Holds(b.cert) /\ Holds(c.cert) /\ b.cert.mint = c.cert.mint
OneHome ==
    \A d, e \in PlaceTable :
        SameMint(pub[d], pub[e]) \/ SameMint(pub[d], complete[e]) \/ SameMint(complete[d], complete[e]) => d = e

\* what was recorded last is whole, unless a copy failed on its way there
RecordedWhole ==
    \A d \in PlaceTable : Holds(complete[d].cert) => d \in short \/ WholeBundle(complete[d])

\* a row the publish recorded is of a whole bundle, as long as it stands and
\* every copy was made
LedgerWhole ==
    \A row \in Range(ledger) :
        /\ row.digest \in 1 .. mints
        /\ step # "idle" => row.digest # mints
        /\ \A d \in PlaceTable :
              Holds(pub[d].cert) /\ row.digest = pub[d].cert.mint /\ ~row.hand =>
                 d \in short \/ WholeBundle(pub[d])

\* what is published so far is the scratch bundle's, if no copy failed
CopiedSoFar ==
    /\ step \in Publishing /\ ~run.missed =>
          /\ \A f \in PutBefore(step) : pub[run.to][f] = out[f]
          /\ step \in {"sides", "gate", "record"} =>
                \A l \in Layers \ due : pub[run.to].sides[l] = out.sides[l]
    /\ step \in Publishing /\ run.missed => run.to \in short
    /\ step \in {"cert", "machine", "tools", "manifest"} => due = Layers
    /\ step \in {"gate", "record"} => due = {}
    /\ step = "record" => Valid(pub[run.to]) /\ PublicSafe(pub[run.to])
    /\ step \in {"lanes", "provenance"} => ~run.missed

\* The strengthening of ReleaseAttested: a mint's number is its own.
CertInv == CertTyped /\ ScratchWhole /\ MintsKnown /\ OneHome /\ RecordedWhole /\ LedgerWhole /\ CopiedSoFar

\* What the invariant says is enough for ReleaseAttested.
LEMMA CertInvImplies == CertInv => ReleaseAttested
  <1> SUFFICES ASSUME CertInv, ReleaseGate, VerifyTables, NEW p \in RequiredTables
               PROVE  HandEdit(pub[ChosenFor(p)]) \/ ChosenFor(p) \in short \/ WholeBundle(pub[ChosenFor(p)])
    BY DEF ReleaseAttested, WholeBundle
  <1>1. ChosenFor(p) \in PlaceTable
    BY DEF ChosenFor, Carries, PlaceTable
  <1>2. Holds(pub[ChosenFor(p)].cert)
    BY DEF ReleaseGate, Valid, Files
  <1>3. Recorded(pub[ChosenFor(p)])
    BY <1>1, <1>2 DEF VerifyTables, Bundles
  <1> QED
    BY <1>1, <1>2, <1>3 DEF CertInv, LedgerWhole, Recorded, HandEdit, Range

\* The order in which a bundle is copied out.
LEMMA CertSteps ==
    /\ After("cert") = "machine" /\ After("machine") = "tools" /\ After("tools") = "manifest"
    /\ After("manifest") = "sides" /\ After("sides") = "gate" /\ Copied[1] = "cert"
    /\ \A f \in Files : PutBefore(After(f)) = PutBefore(f) \cup {f}
    /\ PutBefore("cert") = {} /\ PutBefore("idle") = {} /\ PutBefore("lanes") = {} /\ PutBefore("provenance") = {}
    /\ PutBefore("sides") = Files /\ PutBefore("gate") = Files /\ PutBefore("record") = Files
    /\ \A f \in TreePieces : After(f) \in Publishing /\ PutBefore(After(f)) # {}
    /\ \A ph \in Publishing : PutBefore(ph) \subseteq Files /\ (ph # "cert" => "cert" \in PutBefore(ph))
    /\ TreePieces = {"cert", "machine", "tools", "manifest", "sides"} /\ TreePieces \subseteq Publishing
    /\ Files = {"cert", "machine", "tools", "manifest"}
  <1>1. /\ DOMAIN Copied = 1 .. 6 /\ Copied[1] = "cert" /\ Copied[2] = "machine" /\ Copied[3] = "tools"
        /\ Copied[4] = "manifest" /\ Copied[5] = "sides" /\ Copied[6] = "gate"
    BY DEF Copied
  <1>2. \A n \in 1 .. 5 : (CHOOSE i \in DOMAIN Copied : Copied[i] = Copied[n]) = n
    <2> TAKE n \in 1 .. 5
    <2>1. n \in DOMAIN Copied
      BY <1>1
    <2>2. \A i \in DOMAIN Copied : Copied[i] = Copied[n] => i = n
      BY <1>1
    <2> QED
      BY <2>1, <2>2
  <1>3. \A n \in 1 .. 5 : After(Copied[n]) = Copied[1 + n]
    BY <1>2 DEF After
  <1>4. /\ After("cert") = "machine" /\ After("machine") = "tools" /\ After("tools") = "manifest"
        /\ After("manifest") = "sides" /\ After("sides") = "gate"
    <2>1. After(Copied[1]) = Copied[2] /\ After(Copied[2]) = Copied[3] /\ After(Copied[3]) = Copied[4]
          /\ After(Copied[4]) = Copied[5] /\ After(Copied[5]) = Copied[6]
      BY <1>3
    <2> QED
      BY <2>1, <1>1
  <1>5. TreePieces = {"cert", "machine", "tools", "manifest", "sides"}
    BY DEF TreePieces, Files
  <1>6. \A f \in Files : PutBefore(After(f)) = PutBefore(f) \cup {f}
    BY <1>4, <1>5 DEF PutBefore, Files
  <1> QED
    BY <1>1, <1>4, <1>5, <1>6 DEF PutBefore, Publishing, Files

\* The rows of a ledger that is appended to or cut back.
LEMMA RowsOf ==
    ASSUME NEW q, q \in Seq(Range(q))
    PROVE  /\ \A row : Append(q, row) \in Seq(Range(Append(q, row))) /\ Range(Append(q, row)) = Range(q) \cup {row}
           /\ q # <<>> => Front(q) \in Seq(Range(Front(q))) /\ Range(Front(q)) \subseteq Range(q)
  <1>1. ASSUME NEW row PROVE Append(q, row) \in Seq(Range(Append(q, row))) /\ Range(Append(q, row)) = Range(q) \cup {row}
    <2> DEFINE T == Range(q) \cup {row}
    <2>1. q \in Seq(T)
      OBVIOUS
    <2>2. /\ Append(q, row) \in Seq(T) /\ Len(Append(q, row)) = Len(q) + 1 /\ Len(q) \in Nat
          /\ \A i \in 1 .. Len(q) : Append(q, row)[i] = q[i]
          /\ Append(q, row)[Len(q) + 1] = row
      BY <2>1
    <2>3. Range(Append(q, row)) \subseteq T
      BY <2>2 DEF Range
    <2>4. ASSUME NEW x \in Range(q) PROVE x \in Range(Append(q, row))
      <3>1. PICK i \in 1 .. Len(q) : q[i] = x
        BY <2>2 DEF Range
      <3>2. i \in DOMAIN Append(q, row) /\ Append(q, row)[i] = x
        BY <2>2, <3>1
      <3> QED
        BY <3>2 DEF Range
    <2>5. row \in Range(Append(q, row))
      <3>1. Len(q) + 1 \in DOMAIN Append(q, row)
        BY <2>2
      <3> QED
        BY <2>2, <3>1 DEF Range
    <2>6. Range(Append(q, row)) = T
      BY <2>3, <2>4, <2>5
    <2> QED
      BY <2>2, <2>6
  <1>2. ASSUME q # <<>> PROVE Front(q) \in Seq(Range(Front(q))) /\ Range(Front(q)) \subseteq Range(q)
    <2> DEFINE n == Len(q)
               f == Front(q)
    <2>1. n \in Nat /\ n >= 1 /\ DOMAIN q = 1 .. n
      BY <1>2
    <2>2. f = SubSeq(q, 1, n - 1)
      BY DEF Front
    <2>3. f = [i \in 1 .. n - 1 |-> q[i]]
      BY <2>1, <2>2
    <2>4. DOMAIN f = 1 .. n - 1 /\ n - 1 \in Nat /\ \A i \in 1 .. n - 1 : f[i] = q[i]
      BY <2>1, <2>3
    <2>5. Range(f) \subseteq Range(q)
      BY <2>1, <2>4 DEF Range
    <2>6. \A i \in 1 .. n - 1 : f[i] \in Range(f)
      BY <2>4 DEF Range
    <2>7. f = [i \in 1 .. n - 1 |-> f[i]]
      BY <2>3
    <2> HIDE DEF f, n
    <2>8. f \in Seq(Range(f))
      <3> DEFINE m == n - 1
      <3>1. m \in Nat /\ f \in [1 .. m -> Range(f)]
        BY <2>4, <2>6, <2>7
      <3> HIDE DEF m
      <3> QED
        BY <3>1
    <2> QED
      BY <2>5, <2>8 DEF f
  <1> QED
    BY <1>1, <1>2

\* Before the first mint no place holds a certificate.
LEMMA CertInitInv == CertificateInit => CertInv
  <1> SUFFICES ASSUME CertificateInit PROVE CertInv
    OBVIOUS
  <1>1. CertTyped
    <2>1. IsTree(EmptyTree)
      BY DEF IsTree, EmptyTree, TreePieces, Files
    <2>2. ledger = <<>> /\ <<>> \in Seq(Range(<<>>))
      BY DEF CertificateInit
    <2> QED
      BY <2>1, <2>2 DEF CertificateInit, CertTyped, PlaceTable
  <1>2. \A d \in PlaceTable : ~Holds(pub[d].cert) /\ ~Holds(complete[d].cert)
    BY DEF CertificateInit, Holds, EmptyTree
  <1>3. Range(ledger) = {}
    BY DEF CertificateInit, Range
  <1> QED
    BY <1>1, <1>2, <1>3, CertSteps DEF CertificateInit, CertInv, ScratchWhole, MintsKnown, OneHome, SameMint, RecordedWhole, LedgerWhole, CopiedSoFar, Publishing

\* A run takes the next mint.
LEMMA CertBegins == CertInv /\ BeginRun => CertInv'
  <1> SUFFICES ASSUME CertInv, BeginRun PROVE CertInv'
    OBVIOUS
  <1>0. /\ step = "idle" /\ step' = "lanes" /\ mints' = mints + 1 /\ mints \in Nat /\ mints' \in Nat
        /\ 1 .. mints \subseteq 1 .. mints' /\ mints' \notin 1 .. mints /\ mints' >= 1
        /\ pub' = pub /\ complete' = complete /\ ledger' = ledger /\ short' = short
    BY DEF BeginRun, CertInv, CertTyped
  <1>r. run' \in [to : PlaceTable, os : RequiredTables, missed : BOOLEAN] /\ ~run'.missed
    <2>1. run' \in [to : PlaceTable, os : RequiredTables, missed : {FALSE}]
      BY DEF BeginRun
    <2> QED
      BY <2>1
  <1>1. PICK leaks \in BOOLEAN, claims \in {{}, Claims} :
             out' = [out EXCEPT !.cert = [mint |-> mints', layers |-> {},
                                          claims |-> claims, leaks |-> leaks]]
    BY DEF BeginRun
  <1>2. IsTree(out') /\ CertOf(out', mints')
    BY <1>1, CertSteps DEF CertInv, CertTyped, IsTree, CertOf
  <1>3. CertTyped'
    BY <1>0, <1>r, <1>2 DEF CertInv, CertTyped
  <1>4. ScratchWhole'
    BY <1>0, <1>2 DEF ScratchWhole, Publishing
  <1>9. MintsKnown'
    BY <1>0, CertSteps DEF CertInv, MintsKnown
  <1>10. LedgerWhole'
    BY <1>0, CertSteps DEF CertInv, LedgerWhole
  <1>11. CopiedSoFar' /\ OneHome' /\ RecordedWhole'
    BY <1>0, <1>r DEF CertInv, CopiedSoFar, OneHome, RecordedWhole, Publishing
  <1> QED
    BY <1>3, <1>4, <1>9, <1>10, <1>11 DEF CertInv

\* The lanes are measured into the scratch bundle.
LEMMA CertLanes == CertInv /\ Lanes => CertInv'
  <1> SUFFICES ASSUME CertInv, Lanes PROVE CertInv'
    OBVIOUS
  <1>0. /\ step = "lanes" /\ step' = "provenance" /\ short' = short
        /\ run' = run /\ pub' = pub /\ complete' = complete /\ ledger' = ledger /\ mints' = mints
    BY DEF Lanes
  <1>1. PICK ran \in SUBSET Layers :
             out' = [out EXCEPT !.cert.layers = ran,
                                !.sides = [l \in Layers |-> IF l \in ran THEN mints ELSE @[l]]]
    BY DEF Lanes
  <1>2. IsTree(out) /\ CertOf(out, mints)
    BY <1>0 DEF CertInv, CertTyped, ScratchWhole
  <1>3. /\ IsTree(out') /\ out'.cert = [out.cert EXCEPT !.layers = ran]
        /\ out'.sides = [l \in Layers |-> IF l \in ran THEN mints ELSE out.sides[l]]
    BY <1>1, <1>2, CertSteps DEF IsTree
  <1>4. CertOf(out', mints') /\ out'.cert.layers = ran
    BY <1>0, <1>2, <1>3 DEF CertOf
  <1>5. CertTyped'
    BY <1>0, <1>3 DEF CertInv, CertTyped
  <1>6. ScratchWhole'
    BY <1>0, <1>3, <1>4 DEF ScratchWhole, Publishing
  <1>9. MintsKnown'
    BY <1>0, CertSteps DEF CertInv, MintsKnown
  <1>10. LedgerWhole'
    BY <1>0, CertSteps DEF CertInv, LedgerWhole
  <1>11. CopiedSoFar' /\ OneHome' /\ RecordedWhole'
    BY <1>0 DEF CertInv, CopiedSoFar, OneHome, RecordedWhole, Publishing
  <1> QED
    BY <1>5, <1>6, <1>9, <1>10, <1>11 DEF CertInv

\* The provenance is put to what was measured.
LEMMA CertProves == CertInv /\ ProvenanceOf => CertInv'
  <1> SUFFICES ASSUME CertInv, ProvenanceOf PROVE CertInv'
    OBVIOUS
  <1>0. /\ step = "provenance" /\ step' = (IF Valid(out') THEN "cert" ELSE "idle") /\ short' = short
        /\ due' = (IF Valid(out') THEN Layers ELSE {})
        /\ run' = run /\ pub' = pub /\ complete' = complete /\ ledger' = ledger /\ mints' = mints
    BY CertSteps DEF ProvenanceOf
  <1>1. PICK c \in Corpora, lines \in ToolLists :
            out' = [out EXCEPT
                !.tools = [mint |-> mints, lines |-> lines],
                !.manifest = [mint |-> mints, rows |-> c.rows],
                !.machine = [mint |-> mints, os |-> run.os, corpus |-> c.id, roots |-> c.roots,
                             sha |-> c.sha, files |-> Len(c.rows), bytes |-> FileBytes(c.rows),
                             leaks |-> c.leaks]]
    BY DEF ProvenanceOf
  <1>2. IsTree(out) /\ CertOf(out, mints) /\ \A l \in out.cert.layers : out.sides[l] = mints
    BY <1>0 DEF CertInv, CertTyped, ScratchWhole
  <1>3. /\ IsTree(out') /\ out'.cert = out.cert /\ out'.sides = out.sides
        /\ out'.tools.mint = mints /\ out'.manifest.mint = mints /\ out'.machine.mint = mints
    BY <1>1, <1>2, CertSteps DEF IsTree
  <1>4. CertOf(out', mints') /\ out'.cert.mint = mints
    BY <1>0, <1>2, <1>3 DEF CertOf
  <1>5. Valid(out') => OneMint(out')
    <2> SUFFICES ASSUME Valid(out') PROVE OneMint(out')
      OBVIOUS
    <2>1. out'.cert.layers = Layers
      BY DEF Valid, LayersShipped
    <2> QED
      BY <1>2, <1>3, <1>4, <2>1 DEF OneMint, Files
  <1>6. CertTyped'
    BY <1>0, <1>3 DEF CertInv, CertTyped, Publishing
  <1>7. ScratchWhole'
    BY <1>0, <1>2, <1>3, <1>4, <1>5 DEF ScratchWhole, Publishing
  <1>8. \A d \in PlaceTable : Holds(pub[d].cert) => pub[d].cert.mint # mints
    BY <1>0, CertSteps DEF CertInv, MintsKnown
  <1>9. MintsKnown'
    BY <1>0, <1>8, CertSteps DEF CertInv, MintsKnown
  <1>10. LedgerWhole' /\ OneHome' /\ RecordedWhole'
    BY <1>0 DEF CertInv, LedgerWhole, OneHome, RecordedWhole
  <1>11. CopiedSoFar'
    <2>1. /\ step' \in {"cert", "idle"} /\ PutBefore("cert") = {} /\ ~run'.missed
          /\ step' = "cert" => due' = Layers
      BY <1>0, CertSteps DEF CertInv, CopiedSoFar
    <2> QED
      BY <2>1 DEF CopiedSoFar, Publishing
  <1> QED
    BY <1>6, <1>7, <1>9, <1>10, <1>11 DEF CertInv

\* A piece more is copied out, or is not.
LEMMA CertCopies ==
    ASSUME CertInv, step \in TreePieces, step' \in Publishing,
           pub' = [pub EXCEPT ![run.to][step] = pub'[run.to][step]],
           out' = out, complete' = complete, ledger' = ledger, mints' = mints,
           run'.to = run.to, run' \in [to : PlaceTable, os : RequiredTables, missed : BOOLEAN],
           short \subseteq short', run'.missed => run.to \in short',
           PutBefore(step') # {}, step' # "record", step' = "gate" => due' = {},
           step' \in {"machine", "tools", "manifest"} => due' = Layers,
           IsTree(pub'[run.to]),
           step = "cert" => pub'[run.to].cert = out.cert
                            \/ (run.to \in short' /\ pub'[run.to].cert \in {pub[run.to].cert, NoTable}),
           ~run'.missed =>
              /\ \A f \in PutBefore(step') : pub'[run.to][f] = out[f]
              /\ step' \in {"sides", "gate"} => \A l \in Layers \ due' : pub'[run.to].sides[l] = out.sides[l]
    PROVE  CertInv'
  <1> DEFINE to == run.to
  <1>0. /\ to \in PlaceTable /\ step \in Publishing /\ step # "idle" /\ step' # "idle" /\ "cert" \in TreePieces
        /\ mints \in 1 .. mints
    BY CertSteps DEF CertInv, CertTyped, Publishing, TreePieces
  <1>1. /\ pub' = [d \in PlaceTable |-> pub'[d]]
        /\ \A d \in PlaceTable \ {to} : pub'[d] = pub[d]
        /\ \A f \in TreePieces \ {step} : pub'[to][f] = pub[to][f]
    BY <1>0 DEF CertInv, CertTyped, IsTree
  <1>2. CertTyped'
    BY <1>0, <1>1 DEF CertInv, CertTyped
  <1>3. ScratchWhole'
    BY <1>0 DEF CertInv, ScratchWhole, Publishing
  <1>4. CopiedSoFar'
    <2>1. step' \notin {"cert", "record", "lanes", "provenance"}
      BY CertSteps DEF Publishing
    <2> QED
      BY <2>1, <1>0 DEF CopiedSoFar
  <1>5. /\ Holds(out.cert) /\ out.cert.mint = mints
    BY <1>0 DEF CertInv, ScratchWhole, Valid, Files, CertOf
  <1>6. \/ pub'[to].cert = pub[to].cert /\ (step # "cert" \/ to \in short')
        \/ pub'[to].cert = out.cert
        \/ ~Holds(pub'[to].cert)
    BY <1>0, <1>1 DEF Holds
  <1>7. MintsKnown'
    <2> SUFFICES ASSUME NEW d \in PlaceTable
        PROVE /\ (Holds(pub[d].cert) => pub[d].cert.mint \in 1 .. mints)'
              /\ (Holds(complete[d].cert) => complete[d].cert.mint \in 1 .. mints)'
              /\ (Holds(pub[d].cert) /\ pub[d].cert.mint = mints /\ step # "idle" =>
                    d = run.to /\ PutBefore(step) # {})'
              /\ (Holds(complete[d].cert) /\ step # "idle" => complete[d].cert.mint # mints)'
      BY DEF MintsKnown
    <2>1. CASE d = to
      BY <2>1, <1>0, <1>5, <1>6 DEF CertInv, MintsKnown
    <2>2. CASE d # to
      BY <2>2, <1>0, <1>1 DEF CertInv, MintsKnown
    <2> QED
      BY <2>1, <2>2
  <1>8. OneHome'
    <2>1. \A d \in PlaceTable : \A c \in {pub[d], complete[d]} : Holds(c.cert) /\ c.cert.mint = mints => d = to
      BY <1>0 DEF CertInv, MintsKnown
    <2>2. /\ \A d \in PlaceTable \ {to} : ~SameMint(pub[to], pub[d]) /\ ~SameMint(pub[d], pub[to])
                                       /\ ~SameMint(pub[to], complete[d])
          /\ \A d, e \in PlaceTable : d # e => ~SameMint(complete[d], complete[e]) /\ ~SameMint(pub[d], complete[e])
                                               /\ ~SameMint(pub[d], pub[e])
      BY <1>0 DEF CertInv, OneHome
    <2>3. \A d \in PlaceTable \ {to} : ~SameMint(pub'[to], pub[d]) /\ ~SameMint(pub[d], pub'[to])
                                       /\ ~SameMint(pub'[to], complete[d])
      BY <1>5, <1>6, <2>1, <2>2 DEF SameMint
    <2> QED
      BY <1>0, <1>1, <2>2, <2>3 DEF OneHome
  <1>9. RecordedWhole'
    BY <1>0 DEF CertInv, RecordedWhole
  <1>10. LedgerWhole'
    <2> SUFFICES ASSUME NEW row \in Range(ledger)
        PROVE /\ row.digest \in 1 .. mints
              /\ row.digest # mints
              /\ \A d \in PlaceTable :
                   Holds(pub'[d].cert) /\ row.digest = pub'[d].cert.mint /\ ~row.hand =>
                      d \in short' \/ WholeBundle(pub'[d])
      BY <1>0 DEF LedgerWhole
    <2>1. row.digest \in 1 .. mints /\ row.digest # mints
      BY <1>0 DEF CertInv, LedgerWhole
    <2>2. \A d \in PlaceTable \ {to} :
                   Holds(pub'[d].cert) /\ row.digest = pub'[d].cert.mint /\ ~row.hand =>
                      d \in short' \/ WholeBundle(pub'[d])
      BY <1>1 DEF CertInv, LedgerWhole
    <2>3. ASSUME to \notin short', Holds(pub'[to].cert) PROVE pub'[to].cert = out.cert
      <3>1. ~run'.missed
        BY <2>3
      <3>2. "cert" \in PutBefore(step')
        BY <1>0, CertSteps
      <3> QED
        BY <3>1, <3>2
    <2> QED
      BY <2>1, <2>2, <2>3, <1>5
  <1> QED
    BY <1>2, <1>3, <1>4, <1>7, <1>8, <1>9, <1>10 DEF CertInv

\* A required file is copied, or its copy fails.
LEMMA CertCopiesFile == CertInv /\ CopyOut => CertInv'
  <1> SUFFICES ASSUME CertInv, CopyOut PROVE CertInv'
    OBVIOUS
  <1> DEFINE to == run.to
  <1>0. /\ step \in Files /\ step \in TreePieces /\ step \in Publishing /\ to \in PlaceTable /\ step' = After(step)
        /\ out' = out /\ complete' = complete /\ ledger' = ledger /\ mints' = mints /\ due' = due
        /\ step \in {"cert", "machine", "tools", "manifest"}
        /\ run \in [to : PlaceTable, os : RequiredTables, missed : BOOLEAN]
    BY CertSteps DEF CopyOut, TreePieces, CertInv, CertTyped
  <1>1. \/ pub' = [pub EXCEPT ![to][step] = out[step]] /\ run' = run /\ short' = short
        \/ /\ \E older \in {pub[to][step], NoTable} : pub' = [pub EXCEPT ![to][step] = older]
           /\ run' = [run EXCEPT !.missed = TRUE] /\ short' = short \cup {to}
    BY DEF CopyOut, CopyFails
  <1>2. IsTree(pub[to]) /\ pub = [d \in PlaceTable |-> pub[d]]
    BY <1>0 DEF CertInv, CertTyped
  <1>3. PICK x : /\ pub' = [pub EXCEPT ![to][step] = x]
                 /\ \/ x = out[step] /\ run' = run /\ short' = short
                    \/ /\ x \in {pub[to][step], NoTable}
                       /\ run' = [run EXCEPT !.missed = TRUE] /\ short' = short \cup {to}
    BY <1>1
  <1>4. /\ pub'[to] = [pub[to] EXCEPT ![step] = x] /\ pub'[to][step] = x /\ IsTree(pub'[to])
        /\ \A f \in TreePieces \ {step} : pub'[to][f] = pub[to][f]
    <2>1. pub'[to] = [pub[to] EXCEPT ![step] = x]
      BY <1>0, <1>2, <1>3
    <2> QED
      BY <1>0, <1>2, <2>1, CertSteps DEF IsTree
  <1>5. /\ step' \in Publishing /\ PutBefore(step') = PutBefore(step) \cup {step} /\ PutBefore(step) \subseteq Files
        /\ step' \in {"machine", "tools", "manifest", "sides"} /\ PutBefore(step') # {}
    BY <1>0, CertSteps
  <1>6. pub' = [pub EXCEPT ![to][step] = pub'[to][step]]
    BY <1>3, <1>4
  <1>7. run' \in [to : PlaceTable, os : RequiredTables, missed : BOOLEAN] /\ run'.to = to
    BY <1>0, <1>3
  <1>8. short \subseteq short' /\ (run'.missed => to \in short')
    <2>1. run.missed => to \in short
      BY <1>0 DEF CertInv, CopiedSoFar
    <2> QED
      BY <1>0, <1>3, <2>1
  <1>9. step = "cert" => pub'[to].cert = out.cert \/ (to \in short' /\ pub'[to].cert \in {pub[to].cert, NoTable})
    BY <1>3, <1>4
  <1>d. due = Layers
    BY <1>0 DEF CertInv, CopiedSoFar
  <1>10. ASSUME ~run'.missed
         PROVE  /\ \A f \in PutBefore(step') : pub'[to][f] = out[f]
                /\ step' \in {"sides", "gate"} => \A l \in Layers \ due' : pub'[to].sides[l] = out.sides[l]
    <2>1. x = out[step] /\ ~run.missed
      BY <1>0, <1>3, <1>10
    <2>2. \A f \in PutBefore(step) : pub[to][f] = out[f]
      BY <1>0, <2>1 DEF CertInv, CopiedSoFar
    <2>3. \A f \in PutBefore(step') : pub'[to][f] = out[f]
      BY <1>4, <1>5, <2>1, <2>2, CertSteps DEF TreePieces
    <2> QED
      BY <1>0, <1>d, <2>3
  <1> QED
    BY <1>0, <1>d, <1>4, <1>5, <1>6, <1>7, <1>8, <1>9, <1>10, CertCopies

\* A sidecar is copied, or its copy fails.
LEMMA CertCopiesSide == CertInv /\ CopySide => CertInv'
  <1> SUFFICES ASSUME CertInv, CopySide PROVE CertInv'
    OBVIOUS
  <1> DEFINE to == run.to
  <1>0. /\ step = "sides" /\ due # {} /\ to \in PlaceTable /\ step \in TreePieces /\ step \in Publishing
        /\ step' = (IF due' = {} THEN "gate" ELSE "sides")
        /\ out' = out /\ complete' = complete /\ ledger' = ledger /\ mints' = mints
        /\ run \in [to : PlaceTable, os : RequiredTables, missed : BOOLEAN]
    BY CertSteps DEF CopySide, TreePieces, CertInv, CertTyped
  <1>1. IsTree(pub[to]) /\ pub = [d \in PlaceTable |-> pub[d]]
    BY <1>0 DEF CertInv, CertTyped
  <1> DEFINE l == CHOOSE l \in due : TRUE
  <1>a. l \in due /\ due' = due \ {l}
    BY <1>0 DEF CopySide
  <1>b. \E x : /\ pub' = [pub EXCEPT ![to].sides[l] = x]
               /\ \/ x = out.sides[l] /\ run' = run /\ short' = short
                  \/ run' = [run EXCEPT !.missed = TRUE] /\ short' = short \cup {to}
    BY DEF CopySide, CopyFails
  <1> HIDE DEF l
  <1>2. PICK x : /\ pub' = [pub EXCEPT ![to].sides[l] = x]
                 /\ \/ x = out.sides[l] /\ run' = run /\ short' = short
                    \/ run' = [run EXCEPT !.missed = TRUE] /\ short' = short \cup {to}
    BY <1>b
  <1>3. /\ pub'[to].sides = [pub[to].sides EXCEPT ![l] = x] /\ IsTree(pub'[to])
        /\ \A f \in TreePieces \ {"sides"} : pub'[to][f] = pub[to][f]
    <2>1. pub'[to] = [pub[to] EXCEPT !.sides[l] = x]
      BY <1>0, <1>1, <1>2
    <2> QED
      BY <1>0, <1>1, <2>1, CertSteps DEF IsTree
  <1>4. pub' = [pub EXCEPT ![to]["sides"] = pub'[to].sides]
    <2>1. pub' = [d \in PlaceTable |-> IF d = to THEN [pub[to] EXCEPT !.sides = pub'[to].sides] ELSE pub[d]]
      BY <1>0, <1>1, <1>2, <1>3
    <2> QED
      BY <1>0, <1>1, <2>1
  <1>5. run' \in [to : PlaceTable, os : RequiredTables, missed : BOOLEAN] /\ run'.to = to
    BY <1>0, <1>2
  <1>6. short \subseteq short' /\ (run'.missed => to \in short')
    <2>1. run.missed => to \in short
      BY <1>0 DEF CertInv, CopiedSoFar
    <2> QED
      BY <1>0, <1>2, <2>1
  <1>7. step' \in Publishing /\ PutBefore(step') = Files /\ Files # {} /\ step' \in {"sides", "gate"}
    BY <1>0, CertSteps DEF Publishing
  <1>8. ASSUME ~run'.missed
        PROVE  /\ \A f \in PutBefore(step') : pub'[to][f] = out[f]
               /\ \A m \in Layers \ due' : pub'[to].sides[m] = out.sides[m]
    <2>1. x = out.sides[l] /\ ~run.missed
      BY <1>0, <1>2, <1>8
    <2>2. /\ \A f \in Files : pub[to][f] = out[f]
          /\ \A m \in Layers \ due : pub[to].sides[m] = out.sides[m]
      BY <1>0, <2>1, CertSteps DEF CertInv, CopiedSoFar
    <2>3. "sides" \notin Files /\ Files \subseteq TreePieces
      BY CertSteps DEF TreePieces
    <2>4. \A m \in Layers : pub'[to].sides[m] = IF m = l THEN x ELSE pub[to].sides[m]
      BY <1>1, <1>3 DEF IsTree
    <2> QED
      BY <1>a, <1>3, <1>7, <2>1, <2>2, <2>3, <2>4
  <1> QED
    BY <1>0, <1>3, <1>4, <1>5, <1>6, <1>7, <1>8, CertCopies

\* The privacy gate is passed, or the run ends.
LEMMA CertGates == CertInv /\ Gate => CertInv'
  <1> SUFFICES ASSUME CertInv, Gate PROVE CertInv'
    OBVIOUS
  <1>0. /\ step = "gate" /\ step' = (IF Valid(pub[run.to]) /\ PublicSafe(pub[run.to]) THEN "record" ELSE "idle")
        /\ short' = short /\ due' = due
        /\ out' = out /\ run' = run /\ pub' = pub /\ complete' = complete /\ ledger' = ledger /\ mints' = mints
    BY DEF Gate
  <1>1. CertTyped'
    BY <1>0 DEF CertInv, CertTyped, Publishing
  <1>2. ScratchWhole'
    BY <1>0 DEF CertInv, ScratchWhole, Publishing
  <1>3. MintsKnown'
    BY <1>0, CertSteps DEF CertInv, MintsKnown
  <1>4. LedgerWhole' /\ OneHome' /\ RecordedWhole'
    BY <1>0 DEF CertInv, LedgerWhole, OneHome, RecordedWhole
  <1>5. CopiedSoFar'
    <2>1. PutBefore("gate") = Files /\ PutBefore("record") = Files
      BY CertSteps
    <2> QED
      BY <1>0, <2>1 DEF CertInv, CopiedSoFar, Publishing
  <1> QED
    BY <1>1, <1>2, <1>3, <1>4, <1>5 DEF CertInv

\* The row is appended when the script has gone through every piece.
LEMMA CertRecords == CertInv /\ Record => CertInv'
  <1> SUFFICES ASSUME CertInv, Record PROVE CertInv'
    OBVIOUS
  <1> DEFINE to == run.to
             b == pub[to]
  <1>0. /\ step = "record" /\ step' = "idle" /\ ledger' = Append1(b, FALSE) /\ to \in PlaceTable
        /\ complete' = [complete EXCEPT ![to] = b]
        /\ short' = (IF run.missed THEN short ELSE short \ {to})
        /\ out' = out /\ run' = run /\ pub' = pub /\ mints' = mints
    BY DEF Record, CertInv, CertTyped
  <1>1. ASSUME ~run.missed PROVE b = out
    <2>1. IsTree(b) /\ IsTree(out) /\ \A f \in Files : b[f] = out[f]
      BY <1>0, <1>1, CertSteps DEF CertInv, CertTyped, CopiedSoFar, Publishing
    <2>2. \A l \in Layers : b.sides[l] = out.sides[l]
      BY <1>0, <1>1 DEF CertInv, CopiedSoFar, Publishing
    <2>3. b.sides = out.sides
      BY <2>1, <2>2 DEF IsTree
    <2> QED
      BY <2>1, <2>3 DEF IsTree, TreePieces
  <1>2. to \in short' \/ WholeBundle(b)
    <2>1. CASE run.missed
      BY <1>0, <2>1 DEF CertInv, CopiedSoFar, Publishing
    <2>2. CASE ~run.missed
      BY <1>0, <1>1, <2>2 DEF CertInv, ScratchWhole, CopiedSoFar, WholeBundle, Publishing
    <2> QED
      BY <2>1, <2>2
  <1>3. \A d \in PlaceTable \ {to} : d \in short' <=> d \in short
    BY <1>0
  <1>4. /\ complete' = [d \in PlaceTable |-> complete'[d]] /\ complete'[to] = b
        /\ \A d \in PlaceTable \ {to} : complete'[d] = complete[d]
    BY <1>0 DEF CertInv, CertTyped
  <1>5. Holds(b.cert) /\ b.cert.mint \in 1 .. mints
    <2>1. "cert" \in Files /\ PutBefore("record") = Files
      BY CertSteps
    <2>2. Holds(b.cert)
      BY <1>0, <2>1 DEF CertInv, CopiedSoFar, Valid
    <2> QED
      BY <1>0, <2>2 DEF CertInv, MintsKnown
  <1>6. /\ ledger' \in Seq(Range(ledger'))
        /\ \A row \in Range(ledger') : row \in Range(ledger) \/ row.digest = b.cert.mint
    <2>1. TableRow(b, FALSE).digest = b.cert.mint
      BY DEF TableRow
    <2>2. ledger \in Seq(Range(ledger)) /\ (ledger' = ledger \/ ledger' = Append(ledger, TableRow(b, FALSE)))
      BY <1>0 DEF Append1, CertInv, CertTyped
    <2>3. Append(ledger, TableRow(b, FALSE)) \in Seq(Range(Append(ledger, TableRow(b, FALSE))))
          /\ Range(Append(ledger, TableRow(b, FALSE))) = Range(ledger) \cup {TableRow(b, FALSE)}
      BY <2>2, RowsOf
    <2> HIDE DEF b
    <2> QED
      BY <2>1, <2>2, <2>3
  <1>7. CertTyped'
    <2>1. \A d \in PlaceTable : IsTree(complete'[d])
      BY <1>0, <1>4 DEF CertInv, CertTyped
    <2> QED
      BY <1>0, <1>4, <1>6, <2>1 DEF CertInv, CertTyped
  <1>8. ScratchWhole'
    BY <1>0 DEF ScratchWhole, Publishing
  <1>9. MintsKnown'
    BY <1>0, <1>4, <1>5 DEF CertInv, MintsKnown
  <1>10. OneHome'
    <2>1. \A d, e \in PlaceTable : d # e => ~SameMint(complete[d], complete[e]) /\ ~SameMint(pub[d], complete[e])
                                            /\ ~SameMint(pub[d], pub[e])
      BY DEF CertInv, OneHome
    <2>2. \A d, e \in PlaceTable : d # e => ~SameMint(complete'[d], complete'[e]) /\ ~SameMint(pub[d], complete'[e])
      BY <1>0, <1>4, <2>1 DEF SameMint
    <2> QED
      BY <1>0, <2>1, <2>2 DEF OneHome
  <1>11. RecordedWhole'
    BY <1>0, <1>2, <1>3, <1>4 DEF CertInv, RecordedWhole
  <1>12. \A d \in PlaceTable : Holds(pub[d].cert) /\ pub[d].cert.mint = b.cert.mint => d = to
    BY <1>0, <1>5 DEF CertInv, OneHome, SameMint
  <1>13. LedgerWhole'
    BY <1>0, <1>2, <1>3, <1>5, <1>6, <1>12 DEF CertInv, LedgerWhole
  <1>14. CopiedSoFar'
    BY <1>0 DEF CopiedSoFar, Publishing
  <1> QED
    BY <1>7, <1>8, <1>9, <1>10, <1>11, <1>13, <1>14 DEF CertInv

\* A run may die anywhere, and leaves what it has copied.
LEMMA CertCrashes == CertInv /\ Crash => CertInv'
  <1> SUFFICES ASSUME CertInv, Crash PROVE CertInv'
    OBVIOUS
  <1>0. /\ step' = "idle" /\ short' = short
        /\ out' = out /\ run' = run /\ pub' = pub /\ complete' = complete /\ ledger' = ledger /\ mints' = mints
    BY DEF Crash
  <1>1. CertTyped'
    BY <1>0 DEF CertInv, CertTyped
  <1>2. ScratchWhole'
    BY <1>0 DEF ScratchWhole, Publishing
  <1>3. MintsKnown'
    BY <1>0 DEF CertInv, MintsKnown
  <1>4. LedgerWhole'
    BY <1>0 DEF CertInv, LedgerWhole
  <1>5. CopiedSoFar' /\ OneHome' /\ RecordedWhole'
    BY <1>0 DEF CertInv, CopiedSoFar, OneHome, RecordedWhole, Publishing
  <1> QED
    BY <1>1, <1>2, <1>3, <1>4, <1>5 DEF CertInv

\* Tearing a bundle, writing a row by hand, or reverting a place, is not a
\* mint.
LEMMA CertEdits ==
    CertInv /\ (Torn \/ \E d \in PlaceTable : RecordByHand(d) \/ Revert(d)) => CertInv'
  <1> SUFFICES ASSUME CertInv, Torn \/ \E d \in PlaceTable : RecordByHand(d) \/ Revert(d) PROVE CertInv'
    OBVIOUS
  <1>0. /\ step = "idle" /\ step' = "idle" /\ out' = out /\ run' = run /\ complete' = complete /\ mints' = mints
        /\ short' = short
    BY DEF Torn, RecordByHand, Revert
  <1>1. ScratchWhole' /\ CopiedSoFar' /\ RecordedWhole'
    BY <1>0 DEF CertInv, ScratchWhole, CopiedSoFar, RecordedWhole, Publishing
  <1>2. CASE pub' = pub /\ Torn
    <2>1. Range(ledger') \subseteq Range(ledger) /\ ledger' \in Seq(Range(ledger'))
      BY <1>2, RowsOf DEF Torn, CertInv, CertTyped
    <2>2. CertTyped'
      BY <1>0, <1>2, <2>1 DEF CertInv, CertTyped
    <2>3. MintsKnown' /\ OneHome'
      BY <1>0, <1>2 DEF CertInv, MintsKnown, OneHome
    <2>4. LedgerWhole'
      BY <1>0, <1>2, <2>1 DEF CertInv, LedgerWhole
    <2> QED
      BY <1>1, <2>2, <2>3, <2>4 DEF CertInv
  <1>3. ASSUME NEW d \in PlaceTable, RecordByHand(d) PROVE CertInv'
    <2>0. pub' = pub /\ Holds(pub[d].cert) /\ ledger' = Append(ledger, TableRow(pub[d], TRUE))
      BY <1>3 DEF RecordByHand, Append1, Bundles
    <2>1. TableRow(pub[d], TRUE).hand = TRUE /\ TableRow(pub[d], TRUE).digest \in 1 .. mints
      BY <2>0 DEF TableRow, CertInv, MintsKnown
    <2>2. ledger' \in Seq(Range(ledger')) /\ Range(ledger') = Range(ledger) \cup {TableRow(pub[d], TRUE)}
      BY <2>0, RowsOf DEF CertInv, CertTyped
    <2>3. CertTyped'
      BY <1>0, <2>0, <2>2 DEF CertInv, CertTyped
    <2>4. MintsKnown' /\ OneHome'
      BY <1>0, <2>0 DEF CertInv, MintsKnown, OneHome
    <2>5. LedgerWhole'
      BY <1>0, <2>0, <2>1, <2>2 DEF CertInv, LedgerWhole
    <2> QED
      BY <1>1, <2>3, <2>4, <2>5 DEF CertInv
  <1>4. ASSUME NEW d \in PlaceTable, Revert(d) PROVE CertInv'
    <2>0. ledger' = ledger /\ pub' = [pub EXCEPT ![d] = complete[d]]
      BY <1>4 DEF Revert
    <2>1. /\ pub' = [e \in PlaceTable |-> pub'[e]] /\ pub'[d] = complete[d]
          /\ \A e \in PlaceTable \ {d} : pub'[e] = pub[e]
      BY <2>0 DEF CertInv, CertTyped
    <2>2. \A e \in PlaceTable : IsTree(pub'[e])
      BY <2>1 DEF CertInv, CertTyped
    <2>3. CertTyped'
      BY <1>0, <2>0, <2>1, <2>2 DEF CertInv, CertTyped
    <2>4. MintsKnown'
      BY <1>0, <2>1 DEF CertInv, MintsKnown
    <2>5. LedgerWhole'
      BY <1>0, <2>0, <2>1 DEF CertInv, RecordedWhole, LedgerWhole
    <2>6. OneHome'
      <3>1. \A e, h \in PlaceTable : e # h => ~SameMint(complete[e], complete[h]) /\ ~SameMint(pub[e], complete[h])
                                              /\ ~SameMint(pub[e], pub[h])
        BY DEF CertInv, OneHome
      <3>2. \A e, h \in PlaceTable : e # h => ~SameMint(pub'[e], pub'[h]) /\ ~SameMint(pub'[e], complete[h])
        BY <2>1, <3>1 DEF SameMint
      <3> QED
        BY <1>0, <3>1, <3>2 DEF OneHome
    <2> QED
      BY <1>1, <2>3, <2>4, <2>5, <2>6 DEF CertInv
  <1> QED
    BY <1>2, <1>3, <1>4 DEF Torn

\* Every step keeps the invariant.
LEMMA CertStepInv == CertInv /\ [CertificateNext]_certVars => CertInv'
  <1> SUFFICES ASSUME CertInv, [CertificateNext]_certVars PROVE CertInv'
    OBVIOUS
  <1>1. CASE UNCHANGED certVars
    <2>1. CertTyped' /\ ScratchWhole'
      BY <1>1 DEF certVars, CertInv, CertTyped, ScratchWhole
    <2>2. MintsKnown' /\ OneHome' /\ RecordedWhole'
      BY <1>1 DEF certVars, CertInv, MintsKnown, OneHome, RecordedWhole
    <2>3. LedgerWhole' /\ CopiedSoFar'
      BY <1>1 DEF certVars, CertInv, LedgerWhole, CopiedSoFar
    <2> QED
      BY <2>1, <2>2, <2>3 DEF CertInv
  <1> QED
    BY <1>1, CertBegins, CertLanes, CertProves, CertCopiesFile, CertCopiesSide, CertGates, CertRecords,
       CertCrashes, CertEdits DEF CertificateNext

------------------------------------------------------------------------------
\* Provenance. A row of a manifest is of one version of its file.

\* A row of the manifest.
ManifestRow == [path : PathOf, sha : Seq(Nat), size : Nat]

\* The files hashed before a place in the list.
HashedAt(c) == {ListedFiles[m] : m \in {n \in DOMAIN ListedFiles : n < c}}

\* The walk is at a file.
AtFile == stepOf \in {"stat", "read", "judge", "again"}

\* The types the steps keep.
ProvTyped ==
    /\ sources \in [PathOf -> Nat] /\ history \in [PathOf -> SUBSET Nat]
    /\ inode \in Nat /\ before \in Nat /\ chunks \in Seq(Nat)
    /\ allowDirty \in BOOLEAN /\ treeEdits \in Nat
    /\ clockAt \in 1 .. Len(ListedFiles) + 1 /\ (AtFile => clockAt <= Len(ListedFiles))
    /\ stepOf \in {"open", "stat", "read", "judge", "again", "machine", "done", "exit"}
    /\ manifestRows \in Seq(ManifestRow) /\ digest \in Seq(PathOf \X Nat)

\* every change has a version of its own, and what is open is no newer than the last
VersionsKnown ==
    /\ \A p \in PathOf : sources[p] \in history[p] /\ \A v \in history[p] : v <= treeEdits + 1
    /\ inode <= treeEdits + 1

\* what has been read of the file at hand: versions only go up
ReadWithin(low, high) == \A i \in DOMAIN chunks : low <= chunks[i] /\ chunks[i] <= high

\* A version of the file under the walk that it had at some time.
SoundVersion(v) == v # Vanished /\ v \in history[Current]

\* The versions one read sees go upward, from the one it was opened at.
ReadUpward ==
    /\ stepOf \in {"stat", "read"} => SoundVersion(inode)
    /\ stepOf = "stat" => chunks = <<>>
    /\ stepOf = "read" => SoundVersion(before) /\ before <= inode /\ ReadWithin(before, inode) /\ Len(chunks) <= 1
    /\ stepOf = "judge" /\ before # Vanished =>
          SoundVersion(before) /\ before <= inode /\ ReadWithin(before, inode) /\ Len(chunks) = 2
    /\ stepOf = "judge" /\ before = Vanished => inode = Vanished
    /\ stepOf = "again" => SoundVersion(before) /\ chunks = <<before, before>>

\* A row's hash and its size are of one version of the file; every file passed
\* is in a row or is named unstable.
RowsHonest ==
    /\ \A i \in DOMAIN manifestRows :
          LET row == manifestRows[i] IN
          row.sha = <<row.size, row.size>> /\ row.size \in history[row.path] \ {Vanished}
    /\ Range(Paths(manifestRows)) = HashedAt(clockAt) \ unstable /\ unstable \subseteq HashedAt(clockAt)
    /\ ListedOrder(Paths(manifestRows))
    /\ [i \in DOMAIN digest |-> digest[i][1]] = Paths(manifestRows)
    /\ ~allowDirty => unstable = {}

\* A manifest and the machine's entry are of the rows there are.
EntriesMade ==
    /\ \/ manifest = Earlier
       \/ /\ manifest = <<manifestRows>> /\ stepOf \in {"machine", "done", "exit"}
          /\ clockAt = Len(ListedFiles) + 1
    /\ \/ machine = Earlier
       \/ /\ stepOf \in {"done", "exit"}
          /\ machine = <<[files |-> Len(manifestRows), sha |-> digest, unstable |-> Cardinality(unstable)]>>
    /\ stepOf = "machine" => manifest = <<manifestRows>> /\ machine = Earlier

\* The strengthening of ManifestHonest: an edit never brings an old version
\* back.
ProvInv == ProvTyped /\ VersionsKnown /\ ReadUpward /\ RowsHonest /\ EntriesMade

\* What the invariant says is enough for ManifestHonest.
LEMMA ProvInvImplies == ProvInv => ManifestHonest
  <1> SUFFICES ASSUME ProvInv, manifest # Earlier PROVE ManifestHonest
    BY DEF ProvInv, ManifestHonest, Earlier
  <1>1. manifest = <<manifestRows>> /\ clockAt = Len(ListedFiles) + 1
    BY DEF ProvInv, EntriesMade
  <1>2. HashedAt(clockAt) = PathOf
    BY <1>1, ProvenanceAssumption DEF HashedAt, PathOf, Range
  <1>3. DOMAIN manifest = {1} /\ manifest[1] = manifestRows
    BY <1>1
  <1>4. machine # Earlier => /\ machine[1].files = Len(manifestRows)
                             /\ machine[1].unstable = Cardinality(unstable)
    BY DEF ProvInv, EntriesMade
  <1> QED
    BY <1>2, <1>3, <1>4 DEF ProvInv, RowsHonest, ManifestHonest

\* A file is listed once.
LEMMA ListedOnce ==
    ASSUME NEW c \in 1 .. Len(ListedFiles)
    PROVE  /\ HashedAt(c + 1) = HashedAt(c) \cup {ListedFiles[c]} /\ ListedFiles[c] \notin HashedAt(c)
           /\ ListedFiles[c] \in PathOf /\ c \in DOMAIN ListedFiles
  <1>1. c \in DOMAIN ListedFiles /\ DOMAIN ListedFiles = 1 .. Len(ListedFiles) /\ Len(ListedFiles) \in Nat
    BY ProvenanceAssumption
  <1>2. ListedFiles[c] \notin HashedAt(c)
    BY <1>1, ProvenanceAssumption DEF HashedAt
  <1>3. \A n \in DOMAIN ListedFiles : n < c + 1 <=> n < c \/ n = c
    BY <1>1
  <1>4. HashedAt(c + 1) = HashedAt(c) \cup {ListedFiles[c]}
    BY <1>1, <1>3 DEF HashedAt
  <1> QED
    BY <1>1, <1>2, <1>4 DEF PathOf, Range

\* A row more, of the next file, keeps the list's order.
LEMMA RowJoins ==
    ASSUME NEW rows \in Seq(ManifestRow), NEW c \in 1 .. Len(ListedFiles), NEW r \in ManifestRow,
           r.path = ListedFiles[c], Range(Paths(rows)) \subseteq HashedAt(c), ListedOrder(Paths(rows))
    PROVE  /\ Range(Paths(Append(rows, r))) = Range(Paths(rows)) \cup {r.path}
           /\ ListedOrder(Paths(Append(rows, r)))
  <1> DEFINE n == Len(rows)
             p == Paths(rows)
             q == Paths(Append(rows, r))
  <1>1. /\ n \in Nat /\ DOMAIN rows = 1 .. n /\ DOMAIN Append(rows, r) = 1 .. n + 1
        /\ \A i \in 1 .. n : Append(rows, r)[i] = rows[i]
        /\ Append(rows, r)[n + 1] = r
    OBVIOUS
  <1>2. /\ DOMAIN p = 1 .. n /\ DOMAIN q = 1 .. n + 1 /\ q[n + 1] = r.path
        /\ \A i \in 1 .. n : q[i] = p[i]
    BY <1>1 DEF Paths
  <1> HIDE DEF n, p, q
  <1>3. Range(q) = Range(p) \cup {r.path}
    <2>1. Range(q) \subseteq Range(p) \cup {r.path}
      BY <1>1, <1>2 DEF Range
    <2>2. \A i \in 1 .. n : p[i] \in Range(q)
      BY <1>1, <1>2 DEF Range
    <2>3. q[n + 1] \in Range(q)
      BY <1>1, <1>2 DEF Range
    <2> QED
      BY <1>2, <2>1, <2>2, <2>3 DEF Range
  <1>4. ASSUME NEW i \in DOMAIN q, NEW j \in DOMAIN q, NEW k \in DOMAIN ListedFiles, NEW l \in DOMAIN ListedFiles,
               i < j, q[i] = ListedFiles[k], q[j] = ListedFiles[l]
        PROVE  k < l
    <2>1. i \in 1 .. n
      BY <1>1, <1>2, <1>4
    <2>2. CASE j \in 1 .. n
      BY <1>2, <1>4, <2>1, <2>2 DEF p, ListedOrder
    <2>3. CASE j = n + 1
      <3>1. l = c
        BY <1>2, <1>4, <2>3, ProvenanceAssumption
      <3>2. q[i] \in HashedAt(c)
        BY <1>2, <2>1 DEF Range, p
      <3>3. k < c
        BY <1>4, <3>2, ProvenanceAssumption DEF HashedAt
      <3> QED
        BY <3>1, <3>3
    <2> QED
      BY <1>1, <1>2, <2>2, <2>3
  <1>5. ListedOrder(q)
    BY <1>4 DEF ListedOrder
  <1> QED
    BY <1>3, <1>5 DEF p, q

\* Before the walk there are no rows.
LEMMA ProvInitInv == ProvenanceInit => ProvInv
  <1> SUFFICES ASSUME ProvenanceInit PROVE ProvInv
    OBVIOUS
  <1>0. Len(ListedFiles) \in Nat /\ Paths(<<>>) = <<>> /\ Range(<<>>) = {} /\ HashedAt(1) = {}
    BY ProvenanceAssumption DEF Paths, Range, HashedAt
  <1>1. ProvTyped
    BY <1>0 DEF ProvenanceInit, ProvTyped, AtFile, Vanished
  <1>2. VersionsKnown
    BY DEF ProvenanceInit, VersionsKnown, Vanished
  <1>3. ReadUpward
    BY DEF ProvenanceInit, ReadUpward
  <1>4. RowsHonest
    <2>1. ListedOrder(<<>>)
      BY DEF ListedOrder
    <2>2. [i \in DOMAIN digest |-> digest[i][1]] = <<>>
      BY DEF ProvenanceInit
    <2>3. manifestRows = <<>> /\ unstable = {} /\ clockAt = 1 /\ DOMAIN manifestRows = {}
      BY DEF ProvenanceInit
    <2>4. Range(Paths(manifestRows)) = {} /\ ListedOrder(Paths(manifestRows)) /\ Paths(manifestRows) = <<>>
      BY <1>0, <2>1, <2>3
    <2>5. Range(Paths(manifestRows)) = HashedAt(clockAt) \ unstable /\ unstable \subseteq HashedAt(clockAt)
      BY <1>0, <2>3, <2>4
    <2> QED
      BY <2>2, <2>3, <2>4, <2>5 DEF RowsHonest
  <1>5. EntriesMade
    BY DEF ProvenanceInit, EntriesMade, Earlier
  <1> QED
    BY <1>1, <1>2, <1>3, <1>4, <1>5 DEF ProvInv

\* what is made of the manifest stays true as the tree's history grows
LEMMA RowsStand ==
    ASSUME ProvTyped, RowsHonest, UNCHANGED <<manifestRows, digest, unstable, allowDirty, clockAt>>,
           \A p \in PathOf : history[p] \subseteq history'[p]
    PROVE  RowsHonest'
  <1>1. \A i \in DOMAIN manifestRows : manifestRows[i].path \in PathOf
    <2>1. \A i \in DOMAIN manifestRows : manifestRows[i] \in ManifestRow
      BY DEF ProvTyped
    <2> QED
      BY <2>1 DEF ManifestRow
  <1> QED
    BY <1>1 DEF RowsHonest

\* An edit or a replacement makes a new version.
LEMMA ProvPuts ==
    ASSUME ProvInv, NEW p \in PathOf, EditFile(p) \/ ReplaceFile(p) PROVE ProvInv'
  <1>0. /\ UNCHANGED <<allowDirty, clockAt, stepOf, before, chunks, manifestRows, digest, unstable, manifest, machine>>
        /\ treeEdits' = treeEdits + 1 /\ treeEdits \in Nat
    BY DEF EditFile, ReplaceFile, Put, file, ManifestMade, entries, ProvInv, ProvTyped
  <1>1. PICK v \in {Vanished, treeEdits + 2} :
           /\ sources' = [sources EXCEPT ![p] = v] /\ history' = [history EXCEPT ![p] = @ \cup {v}]
           /\ \/ inode' = inode
              \/ /\ v = treeEdits + 2 /\ stepOf \in {"stat", "read", "judge"} /\ p = Current
                 /\ inode = sources[p] /\ sources[p] # Vanished /\ inode' = v
    BY DEF EditFile, ReplaceFile, Put, file
  <1>2. /\ v \in Nat /\ v <= treeEdits + 2
        /\ \A q \in PathOf : /\ history'[q] = IF q = p THEN history[q] \cup {v} ELSE history[q]
                             /\ sources'[q] = IF q = p THEN v ELSE sources[q]
        /\ \A q \in PathOf : history[q] \subseteq history'[q]
    <2>1. v \in Nat /\ v <= treeEdits + 2
      BY <1>0 DEF Vanished
    <2>2. sources \in [PathOf -> Nat] /\ history \in [PathOf -> SUBSET Nat]
      BY DEF ProvInv, ProvTyped
    <2>3. \A q \in PathOf : /\ history'[q] = IF q = p THEN history[q] \cup {v} ELSE history[q]
                            /\ sources'[q] = IF q = p THEN v ELSE sources[q]
      BY <1>1, <2>2
    <2> QED
      BY <2>1, <2>3
  <1>3. ProvTyped'
    BY <1>0, <1>1, <1>2 DEF ProvInv, ProvTyped, AtFile
  <1>4. VersionsKnown'
    <2>1. inode' <= treeEdits' + 1
      BY <1>0, <1>1, <1>2 DEF ProvInv, ProvTyped, VersionsKnown
    <2>2. ASSUME NEW q \in PathOf PROVE sources'[q] \in history'[q] /\ \A w \in history'[q] : w <= treeEdits' + 1
      <3>1. sources[q] \in history[q] /\ \A w \in history[q] : w \in Nat /\ w <= treeEdits + 1
        BY DEF ProvInv, ProvTyped, VersionsKnown
      <3>2. history'[q] \subseteq history[q] \cup {v} /\ sources'[q] \in history'[q]
        BY <1>2, <3>1
      <3>3. \A w \in history[q] : w <= treeEdits' + 1
        BY <1>0, <3>1
      <3>4. v <= treeEdits' + 1
        BY <1>0, <1>2
      <3> QED
        BY <3>2, <3>3, <3>4
    <2> QED
      BY <2>1, <2>2 DEF VersionsKnown
  <1>5. ReadUpward'
    <2>1. CASE ~AtFile
      BY <2>1, <1>0 DEF AtFile, ReadUpward
    <2>2. CASE AtFile
      <3>0. Current \in PathOf /\ Current' = Current
        BY <2>2, <1>0, ListedOnce DEF Current, ProvInv, ProvTyped
      <3>1. inode <= inode' /\ inode \in Nat /\ inode' \in Nat
        BY <1>0, <1>1, <1>3 DEF ProvInv, ProvTyped, VersionsKnown
      <3>2. SoundVersion(before) => SoundVersion(before)'
        BY <3>0, <1>0, <1>2 DEF SoundVersion
      <3>3. stepOf \in {"stat", "read"} => SoundVersion(inode)'
        <4> SUFFICES ASSUME stepOf \in {"stat", "read"} PROVE SoundVersion(inode)'
          OBVIOUS
        <4>1. inode # Vanished /\ inode \in history[Current]
          BY DEF SoundVersion, ProvInv, ReadUpward
        <4>2. CASE inode' = inode
          BY <3>0, <1>2, <4>1, <4>2 DEF SoundVersion, Vanished
        <4>3. CASE v = treeEdits + 2 /\ p = Current /\ inode' = v
          <5>1. v # Vanished
            BY <1>0, <4>3 DEF Vanished
          <5>2. v \in history'[Current]
            BY <3>0, <1>2, <4>3
          <5> QED
            BY <3>0, <4>3, <5>1, <5>2 DEF SoundVersion, Vanished
        <4> QED
          BY <1>1, <4>2, <4>3
      <3>4. ReadWithin(before, inode) => ReadWithin(before, inode')
        BY <3>1 DEF ReadWithin, ProvInv, ProvTyped
      <3>5. before <= inode => before <= inode'
        BY <3>1 DEF ProvInv, ProvTyped
      <3>6. stepOf = "judge" /\ before = Vanished => inode' = Vanished
        BY <1>1 DEF ProvInv, ReadUpward
      <3> QED
        BY <3>0, <3>2, <3>3, <3>4, <3>5, <3>6, <1>0 DEF ProvInv, ReadUpward, ReadWithin
    <2> QED
      BY <2>1, <2>2
  <1>6. RowsHonest'
    BY <1>0, <1>2, RowsStand DEF ProvInv
  <1>7. EntriesMade'
    BY <1>0 DEF ProvInv, EntriesMade
  <1> QED
    BY <1>3, <1>4, <1>5, <1>6, <1>7 DEF ProvInv

\* Opening, looking and reading a file see versions it had.
LEMMA ProvReads == ProvInv /\ (OpenFile \/ Stat \/ Chunk) => ProvInv'
  <1> SUFFICES ASSUME ProvInv, OpenFile \/ Stat \/ Chunk PROVE ProvInv'
    OBVIOUS
  <1>0. /\ UNCHANGED <<allowDirty, clockAt, manifestRows, digest, unstable, manifest, machine, sources, treeEdits, history>>
        /\ clockAt \in 1 .. Len(ListedFiles) /\ Current' = Current /\ Current \in PathOf
        /\ stepOf \in {"open", "stat", "read"} /\ stepOf' \in {"stat", "read", "judge"}
    BY ListedOnce DEF OpenFile, Stat, Chunk, Step, provWorld, ManifestMade, entries, Current, ProvInv, ProvTyped, AtFile
  <1>1. RowsHonest'
    BY <1>0, RowsStand DEF ProvInv
  <1>2. EntriesMade'
    BY <1>0 DEF ProvInv, EntriesMade
  <1>3. CASE OpenFile
    <2>0. /\ inode' = sources[Current] /\ before' = Vanished /\ chunks' = <<>>
          /\ stepOf' = (IF sources[Current] = Vanished THEN "judge" ELSE "stat")
          /\ sources[Current] \in Nat /\ sources[Current] \in history[Current] /\ sources[Current] <= treeEdits + 1
      BY <1>0, <1>3 DEF OpenFile, Step, ProvInv, ProvTyped, VersionsKnown
    <2>1. ProvTyped'
      BY <1>0, <2>0 DEF ProvInv, ProvTyped, AtFile, Vanished
    <2>2. VersionsKnown'
      BY <1>0, <2>0 DEF ProvInv, VersionsKnown
    <2>3. ReadUpward'
      BY <1>0, <2>0 DEF ReadUpward, SoundVersion
    <2> QED
      BY <1>1, <1>2, <2>1, <2>2, <2>3 DEF ProvInv
  <1>4. CASE Stat
    <2>0. stepOf = "stat" /\ before' = inode /\ stepOf' = "read" /\ inode' = inode /\ chunks' = chunks
      BY <1>4 DEF Stat, Step
    <2>1. ProvTyped'
      BY <1>0, <2>0 DEF ProvInv, ProvTyped, AtFile
    <2>2. VersionsKnown'
      BY <1>0, <2>0 DEF ProvInv, VersionsKnown
    <2>3. ReadUpward'
      BY <1>0, <2>0 DEF ProvInv, ProvTyped, ReadUpward, SoundVersion, ReadWithin
    <2> QED
      BY <1>1, <1>2, <2>1, <2>2, <2>3 DEF ProvInv
  <1>5. CASE Chunk
    <2>0. /\ stepOf = "read" /\ chunks' = Append(chunks, inode) /\ before' = before /\ inode' = inode
          /\ stepOf' = (IF Len(chunks) = 1 THEN "judge" ELSE "read")
          /\ chunks \in Seq(Nat) /\ inode \in Nat /\ before \in Nat /\ Len(chunks) \in Nat
      BY <1>5 DEF Chunk, Step, ProvInv, ProvTyped
    <2>1. ProvTyped'
      BY <1>0, <2>0 DEF ProvInv, ProvTyped, AtFile
    <2>2. VersionsKnown'
      BY <1>0, <2>0 DEF ProvInv, VersionsKnown
    <2>3. /\ SoundVersion(inode) /\ SoundVersion(before) /\ before <= inode /\ ReadWithin(before, inode) /\ Len(chunks) <= 1
          /\ before # Vanished
      BY <2>0 DEF ProvInv, ReadUpward, SoundVersion
    <2>4. ReadWithin(before, inode)' /\ Len(chunks') = Len(chunks) + 1
      BY <2>0, <2>3 DEF ReadWithin
    <2>5. SoundVersion(before)' /\ SoundVersion(inode)'
      BY <1>0, <2>0, <2>3 DEF SoundVersion
    <2> QED
      <3>1. ReadUpward'
        <4>1. before' <= inode' /\ before' # Vanished
          BY <2>0, <2>3
        <4>2. CASE Len(chunks) = 1
          <5>1. stepOf' = "judge" /\ Len(chunks') = 2
            BY <2>0, <2>4, <4>2
          <5> QED
            BY <2>4, <2>5, <4>1, <5>1 DEF ReadUpward
        <4>3. CASE Len(chunks) # 1
          <5>0. Len(chunks) = 0
            <6>1. Len(chunks) <= 1 /\ Len(chunks) \in Nat
              BY <2>0 DEF ProvInv, ProvTyped, ReadUpward
            <6>2. Len(chunks) # 1
              BY <4>3
            <6> DEFINE n == Len(chunks)
            <6>3. n <= 1 /\ n \in Nat /\ n # 1
              BY <6>1, <6>2
            <6> HIDE DEF n
            <6>4. n = 0
              BY <6>3
            <6> QED
              BY <6>4 DEF n
          <5>1. stepOf' = "read" /\ Len(chunks') <= 1
            BY <2>0, <2>4, <5>0
          <5> QED
            BY <2>4, <2>5, <4>1, <5>1 DEF ReadUpward
        <4> QED
          BY <4>2, <4>3
      <3> QED
        BY <1>1, <1>2, <2>1, <2>2, <3>1 DEF ProvInv
  <1> QED
    BY <1>3, <1>4, <1>5

\* The two looks and the two hashes decide (provenance.py, the stable read).
LEMMA ProvJudges == ProvInv /\ JudgeManifest => ProvInv'
  <1> SUFFICES ASSUME ProvInv, JudgeManifest PROVE ProvInv'
    OBVIOUS
  <1>0. /\ UNCHANGED <<allowDirty, manifestRows, digest, manifest, machine, sources, treeEdits, history, inode, before, chunks>>
        /\ clockAt \in 1 .. Len(ListedFiles) /\ stepOf = "judge"
    BY DEF JudgeManifest, Step, provWorld, file, entries, ProvInv, ProvTyped, AtFile
  <1>1. VersionsKnown'
    BY <1>0 DEF ProvInv, VersionsKnown
  <1>2. EntriesMade'
    BY <1>0 DEF ProvInv, EntriesMade, JudgeManifest, Step
  <1>3. CASE StableFile /\ stepOf' = "again" /\ UNCHANGED <<clockAt, unstable>>
    <2>1. ProvTyped'
      BY <1>0, <1>3 DEF ProvInv, ProvTyped, AtFile
    <2>2. RowsHonest'
      BY <1>0, <1>3, RowsStand DEF ProvInv
    <2>3. SoundVersion(before) /\ inode = before /\ ReadWithin(before, before) /\ Len(chunks) = 2 /\ chunks \in Seq(Nat) /\ before \in Nat
      BY <1>0, <1>3 DEF StableFile, ProvInv, ProvTyped, ReadUpward
    <2>4. chunks[1] = before /\ chunks[2] = before /\ chunks = <<chunks[1], chunks[2]>>
      <3>a. Len(chunks) = 2 /\ chunks \in Seq(Nat)
        BY <1>0, <1>3 DEF StableFile, ProvInv, ProvTyped, ReadUpward
      <3>0. Len(chunks) = 2 /\ chunks \in [1 .. Len(chunks) -> Nat]
        BY <3>a
      <3>1. chunks \in [1 .. 2 -> Nat]
        BY <3>0
      <3>2. chunks[1] \in Nat /\ chunks[2] \in Nat /\ 1 \in DOMAIN chunks /\ 2 \in DOMAIN chunks
        BY <3>1
      <3>3. chunks[1] = before /\ chunks[2] = before
        BY <2>3, <3>2 DEF ReadWithin
      <3> QED
        BY <3>1, <3>3
    <2>5. SoundVersion(before)'
      BY <1>0, <1>3, <2>3 DEF SoundVersion, Current
    <2>6. ReadUpward'
      BY <1>0, <1>3, <2>4, <2>5 DEF ReadUpward
    <2> QED
      BY <1>1, <1>2, <2>1, <2>2, <2>6 DEF ProvInv
  <1>4. CASE /\ allowDirty /\ unstable' = unstable \cup {Current} /\ clockAt' = clockAt + 1
             /\ stepOf' = "open"
    <2>1. clockAt' \in 1 .. Len(ListedFiles) + 1
      BY <1>0, <1>4, ProvenanceAssumption
    <2>2. ProvTyped'
      BY <1>0, <1>4, <2>1 DEF ProvInv, ProvTyped, AtFile
    <2>3. ReadUpward'
      BY <1>4 DEF ReadUpward
    <2>4. HashedAt(clockAt') = HashedAt(clockAt) \cup {Current} /\ Current \notin HashedAt(clockAt)
      BY <1>0, <1>4, ListedOnce DEF Current
    <2>5. RowsHonest'
      BY <1>0, <1>4, <2>4 DEF ProvInv, RowsHonest
    <2> QED
      BY <1>1, <1>2, <2>2, <2>3, <2>5 DEF ProvInv
  <1>5. CASE stepOf' = "exit" /\ UNCHANGED <<clockAt, unstable>>
    <2>1. ProvTyped'
      BY <1>0, <1>5 DEF ProvInv, ProvTyped, AtFile
    <2>2. RowsHonest'
      BY <1>0, <1>5, RowsStand DEF ProvInv
    <2>3. ReadUpward'
      BY <1>5 DEF ReadUpward
    <2> QED
      BY <1>1, <1>2, <2>1, <2>2, <2>3 DEF ProvInv
  <1> QED
    BY <1>3, <1>4, <1>5 DEF JudgeManifest, Step

\* A file that moved is read a second time.
LEMMA ProvReruns == ProvInv /\ Rerun => ProvInv'
  <1> SUFFICES ASSUME ProvInv, Rerun PROVE ProvInv'
    OBVIOUS
  <1>0. /\ UNCHANGED <<allowDirty, unstable, manifest, machine, sources, treeEdits, history, inode, before, chunks>>
        /\ clockAt \in 1 .. Len(ListedFiles) /\ stepOf = "again" /\ Current \in PathOf
        /\ stepOf' \in {"exit", "open"} /\ Len(ListedFiles) \in Nat
    BY ListedOnce, ProvenanceAssumption
       DEF Rerun, Step, provWorld, file, entries, ManifestMade, ProvInv, ProvTyped, AtFile, Current
  <1>1. VersionsKnown'
    BY <1>0 DEF ProvInv, VersionsKnown
  <1>2. EntriesMade'
    BY <1>0 DEF ProvInv, EntriesMade
  <1>3. ReadUpward'
    BY <1>0 DEF ReadUpward
  <1>4. CASE stepOf' = "exit" /\ UNCHANGED <<clockAt, ManifestMade>>
    <2>1. ProvTyped'
      BY <1>0, <1>4 DEF ProvInv, ProvTyped, AtFile, ManifestMade
    <2>2. RowsHonest'
      BY <1>0, <1>4, RowsStand DEF ProvInv, ManifestMade
    <2> QED
      BY <1>1, <1>2, <1>3, <2>1, <2>2 DEF ProvInv
  <1> DEFINE row == [path |-> Current, sha |-> chunks, size |-> before]
             pair == <<Current, sources[Current]>>
  <1>5. CASE /\ digest' = Append(digest, pair) /\ manifestRows' = Append(manifestRows, row)
             /\ clockAt' = clockAt + 1 /\ stepOf' = "open"
    <2>1. row \in ManifestRow /\ pair \in PathOf \X Nat /\ row.path = ListedFiles[clockAt] /\ row.path = Current
      BY <1>0 DEF ManifestRow, Current, ProvInv, ProvTyped
    <2>2. manifestRows \in Seq(ManifestRow) /\ digest \in Seq(PathOf \X Nat)
      BY DEF ProvInv, ProvTyped
    <2>3. row.sha = <<row.size, row.size>> /\ row.size \in history[row.path] \ {Vanished}
      BY <1>0 DEF ProvInv, ReadUpward, SoundVersion
    <2> HIDE DEF row
    <2>4. ProvTyped'
      <3>1. clockAt' \in 1 .. Len(ListedFiles) + 1
        BY <1>0, <1>5
      <3>2. manifestRows' \in Seq(ManifestRow) /\ digest' \in Seq(PathOf \X Nat)
        BY <1>5, <2>1, <2>2
      <3> QED
        BY <1>0, <1>5, <3>1, <3>2 DEF ProvInv, ProvTyped, AtFile
    <2>5. /\ Range(Paths(manifestRows)) = HashedAt(clockAt) \ unstable /\ unstable \subseteq HashedAt(clockAt)
          /\ ListedOrder(Paths(manifestRows))
      BY DEF ProvInv, RowsHonest
    <2>6. HashedAt(clockAt') = HashedAt(clockAt) \cup {Current} /\ Current \notin HashedAt(clockAt)
      BY <1>0, <1>5, ListedOnce DEF Current
    <2>7. /\ Range(Paths(manifestRows')) = Range(Paths(manifestRows)) \cup {Current}
          /\ ListedOrder(Paths(manifestRows'))
      BY <1>0, <1>5, <2>1, <2>2, <2>5, RowJoins
    <2>8. Range(Paths(manifestRows')) = HashedAt(clockAt') \ unstable' /\ unstable' \subseteq HashedAt(clockAt')
      BY <1>0, <2>5, <2>6, <2>7
    <2>9. [i \in DOMAIN digest' |-> digest'[i][1]] = Paths(manifestRows')
      <3> DEFINE n == Len(manifestRows)
      <3>1. [i \in DOMAIN digest |-> digest[i][1]] = [i \in DOMAIN manifestRows |-> manifestRows[i].path]
        BY DEF ProvInv, RowsHonest, Paths
      <3>2. n \in Nat /\ DOMAIN manifestRows = 1 .. n /\ DOMAIN digest = 1 .. Len(digest) /\ Len(digest) \in Nat
        BY <2>2
      <3>3. DOMAIN digest = 1 .. n /\ \A i \in 1 .. n : digest[i][1] = manifestRows[i].path
        BY <3>1, <3>2
      <3>4. Len(digest) = n
        <4> DEFINE d == Len(digest)
        <4>1. d \in Nat /\ n \in Nat /\ 1 .. d = 1 .. n
          BY <3>2, <3>3
        <4> HIDE DEF d, n
        <4>2. d <= n
          <5>1. d >= 1 => d \in 1 .. n
            BY <4>1
          <5> QED
            BY <4>1, <5>1
        <4>3. n <= d
          <5>1. n >= 1 => n \in 1 .. d
            BY <4>1
          <5> QED
            BY <4>1, <5>1
        <4>4. d = n
          BY <4>1, <4>2, <4>3
        <4> QED
          BY <4>4 DEF d
      <3>5. /\ DOMAIN manifestRows' = 1 .. n + 1 /\ \A i \in 1 .. n : manifestRows'[i] = manifestRows[i]
            /\ manifestRows'[n + 1] = row
        BY <1>5, <2>2
      <3>6. /\ DOMAIN digest' = 1 .. n + 1 /\ \A i \in 1 .. n : digest'[i] = digest[i] /\ digest'[n + 1] = pair
        BY <1>5, <2>2, <3>4
      <3>7. pair[1] = row.path
        BY <2>1
      <3> HIDE DEF n, pair
      <3>8. ASSUME NEW i \in 1 .. n + 1 PROVE digest'[i][1] = manifestRows'[i].path
        <4>1. CASE i \in 1 .. n
          BY <4>1, <3>3, <3>5, <3>6
        <4>2. CASE i = n + 1
          <5>1. digest'[n + 1] = pair
            BY <1>5, <2>2, <3>4, <3>2
          <5> QED
            BY <4>2, <5>1, <3>5, <3>7
        <4> QED
          BY <3>2, <4>1, <4>2
      <3> QED
        BY <3>5, <3>6, <3>8 DEF Paths
    <2>10. ASSUME NEW i \in DOMAIN manifestRows'
           PROVE  /\ manifestRows'[i].sha = <<manifestRows'[i].size, manifestRows'[i].size>>
                  /\ manifestRows'[i].size \in history'[manifestRows'[i].path] \ {Vanished}
      <3>1. (i \in DOMAIN manifestRows /\ manifestRows'[i] = manifestRows[i]) \/ manifestRows'[i] = row
        BY <1>5, <2>2, <2>10
      <3>2. CASE i \in DOMAIN manifestRows /\ manifestRows'[i] = manifestRows[i]
        BY <1>0, <3>2 DEF ProvInv, RowsHonest
      <3>3. CASE manifestRows'[i] = row
        BY <1>0, <2>3, <3>3
      <3> QED
        BY <3>1, <3>2, <3>3
    <2>11. ~allowDirty' => unstable' = {}
      BY <1>0 DEF ProvInv, RowsHonest
    <2>12. RowsHonest'
      BY <2>7, <2>8, <2>9, <2>10, <2>11 DEF RowsHonest
    <2> QED
      BY <1>1, <1>2, <1>3, <2>4, <2>12 DEF ProvInv
  <1> QED
    BY <1>4, <1>5 DEF Rerun, Step

\* The walk ends, writes its entries, or is killed.
LEMMA ProvEnds == ProvInv /\ (Finish \/ Machinery \/ Killed) => ProvInv'
  <1> SUFFICES ASSUME ProvInv, Finish \/ Machinery \/ Killed PROVE ProvInv'
    OBVIOUS
  <1>0. /\ UNCHANGED <<allowDirty, clockAt, manifestRows, digest, unstable, sources, treeEdits, history, inode, before, chunks>>
        /\ stepOf' \in {"exit", "machine", "done"} /\ Len(ListedFiles) \in Nat
    BY ProvenanceAssumption DEF Finish, Machinery, Killed, Step, provWorld, file, ManifestMade
  <1>1. ProvTyped'
    BY <1>0 DEF ProvInv, ProvTyped, AtFile
  <1>2. VersionsKnown'
    BY <1>0 DEF ProvInv, VersionsKnown
  <1>3. RowsHonest'
    BY <1>0, RowsStand DEF ProvInv
  <1>4. ReadUpward'
    BY <1>0 DEF ReadUpward
  <1>5. EntriesMade'
    <2>1. CASE Finish
      <3>1. clockAt = Len(ListedFiles) + 1 /\ stepOf = "open"
        BY <1>0, <2>1 DEF Finish, ProvInv, ProvTyped
      <3>2. manifest = Earlier /\ machine = Earlier
        BY <3>1 DEF ProvInv, EntriesMade
      <3> QED
        BY <1>0, <2>1, <3>1, <3>2 DEF Finish, Step, entries, EntriesMade
    <2>2. CASE Machinery
      BY <1>0, <2>2 DEF Machinery, Step, ProvInv, EntriesMade
    <2>3. CASE Killed
      BY <1>0, <2>3 DEF Killed, Step, entries, Running, ProvInv, EntriesMade
    <2> QED
      BY <2>1, <2>2, <2>3
  <1> QED
    BY <1>1, <1>2, <1>3, <1>4, <1>5 DEF ProvInv

\* Every step keeps the invariant.
LEMMA ProvStepInv == ProvInv /\ [ProvenanceNext]_provVars => ProvInv'
  <1> SUFFICES ASSUME ProvInv, [ProvenanceNext]_provVars PROVE ProvInv'
    OBVIOUS
  <1>1. CASE UNCHANGED provVars
    <2>1. ProvTyped' /\ VersionsKnown' /\ ReadUpward'
      BY <1>1 DEF provVars, ProvInv, ProvTyped, AtFile, VersionsKnown, ReadUpward, SoundVersion, Current, ReadWithin
    <2>2. RowsHonest'
      BY <1>1, RowsStand DEF provVars, ProvInv
    <2>3. EntriesMade'
      BY <1>1 DEF provVars, ProvInv, EntriesMade
    <2> QED
      BY <2>1, <2>2, <2>3 DEF ProvInv
  <1> QED
    BY <1>1, ProvPuts, ProvReads, ProvJudges, ProvReruns, ProvEnds DEF ProvenanceNext

------------------------------------------------------------------------------
\* Wheels. A release that is said to be whole has every wheel it owes.

\* A wheel is a record of what is in it.
IsWheel(w) == w = [target |-> w.target, abi3 |-> w.abi3, accel |-> w.accel, fits |-> w.fits, fresh |-> w.fresh]

\* A wheel claims the abi it was built for; one with an accelerator that is
\* new was built on the machine it runs on.
HonestWheel(w) == /\ w.abi3 = w.accel /\ w.abi3 \in BOOLEAN
                  /\ OsOf[w.target] = "macos" => w.fits
                  /\ w.abi3 /\ w.fresh => w.target = host

\* A target is being built.
WheelBuilding == wheelStage \in {"library", "portable", "accelerated"}

\* A target is still to come.
InLeft(q, t) == \E i \in DOMAIN q : q[i] = t

\* a full run owes every target a portable wheel, and the host's an accelerated one
\* beside it, unless the target is still to come or has failed
WheelsOwed ==
    /\ left \in Seq(Targets)
    /\ \A t \in Targets :
          \/ WheelBuilding /\ InLeft(left, t)
          \/ t \in failures
          \/ /\ \E w \in dist : w.target = t /\ ~w.abi3
             /\ t = host => \E w \in dist : w.abi3
    /\ \A w \in dist : w.target \in Targets
    /\ wheelStage \in {"portable", "accelerated"} => left # <<>>
    /\ wheelStage = "accelerated" =>
          \E w \in dist : w.target = Head(left) /\ ~w.abi3

\* So is every wheel there is.
WheelKinds == \A w \in dist : IsWheel(w) /\ HonestWheel(w)

\* Until it is told to build only one, a release owes every target.
WheelsObliged == (wheelStage # "idle" /\ status # "refused" /\ ~only /\ (WheelBuilding \/ status = "released")) => WheelsOwed

\* What a released matrix has built.
WheelsEnded == /\ status = "released" =>
                     /\ wheelStage = "done"
                     /\ only \/ (left = <<>> /\ failures = {} /\ (dist = {} \/ \E w \in dist : w.abi3))
               /\ status # "running" => wheelStage = "done"

\* The types the steps keep.
WheelsTyped == /\ host \in Targets \cup {NoTarget} /\ lib \in BOOLEAN
               /\ wheelStage \in {"idle", "library", "portable", "accelerated", "done"}
               /\ wheelStage = "accelerated" => Native(Head(left))
               /\ wheelStage = "idle" => (\A w \in dist : w.target \in Targets) /\ failures = {}

\* The strengthening of ReleaseWhole: what is owed at every moment of the
\* build.
WheelsInv == WheelsTyped /\ WheelKinds /\ WheelsObliged /\ WheelsEnded

\* What the invariant says is enough for ReleaseWhole.
LEMMA WheelsInvImplies == WheelsInv => ReleaseWhole
  <1> SUFFICES ASSUME WheelsInv PROVE ReleaseWhole
    OBVIOUS
  <1>1. \A w \in dist : /\ w.abi3 = w.accel
                        /\ OsOf[w.target] = "macos" => w.fits
                        /\ w.abi3 /\ w.fresh => w.target = host
    BY DEF WheelsInv, WheelsTyped, WheelKinds, WheelsObliged, WheelsEnded, HonestWheel
  <1>2. ASSUME status = "released", ~only, \A w \in dist : w.fresh
        PROVE  /\ \A t \in Targets : \E w \in dist : w.target = t /\ ~w.abi3
               /\ \E w \in dist : w.abi3
               /\ host # NoTarget
    <2>1. WheelsOwed /\ left = <<>> /\ failures = {} /\ (dist = {} \/ \E w \in dist : w.abi3)
      BY <1>2 DEF WheelsInv, WheelsTyped, WheelKinds, WheelsObliged, WheelsEnded
    <2>2. \A t \in Targets : \E w \in dist : w.target = t /\ ~w.abi3
      BY <2>1 DEF WheelsOwed, InLeft
    <2>3. Targets # {}
      <3>1. Matrix \in Seq(Targets) /\ Matrix # <<>>
        BY WheelsAssumption DEF WheelsAssumption
      <3>2. 1 \in 1 .. Len(Matrix)
        BY <3>1
      <3> QED
        BY <3>2 DEF Targets
    <2>4. PICK w \in dist : w.abi3
      BY <2>1, <2>2, <2>3
    <2>5. host \in Targets
      <3>1. w.target \in Targets
        BY <2>1, <2>4 DEF WheelsOwed
      <3>2. w.fresh
        BY <1>2, <2>4
      <3>3. w.target = host
        BY <2>4, <3>2 DEF WheelsInv, WheelsTyped, WheelKinds, WheelsObliged, WheelsEnded, HonestWheel
      <3> QED
        BY <3>1, <3>3
    <2> QED
      BY <2>2, <2>4, <2>5, WheelsAssumption DEF WheelsAssumption
  <1> QED
    BY <1>1, <1>2 DEF ReleaseWhole

\* What a build hook may leave.
WheelYielded(w, t, want, native) ==
    /\ IsWheel(w) /\ w.target = t /\ w.abi3 = w.accel /\ w.abi3 \in BOOLEAN
    /\ OsOf[t] = "macos" => w.fits
    /\ w.abi3 => native
    /\ want = "0" => ~w.abi3
    /\ want = "1" => w.abi3

\* The build hook leaves no wheel or one, and that one keeps its claims
\* (hatch_build.py, initialize).
LEMMA HookYields ==
    ASSUME NEW t, NEW want \in {"auto", "1", "0"}, NEW native \in BOOLEAN, NEW made \in Made,
           NEW xcrun \in BOOLEAN, NEW floor \in BOOLEAN
    PROVE  \/ Initialize(t, want, native, made, xcrun, floor) = {}
           \/ \E w : Initialize(t, want, native, made, xcrun, floor) = {w} /\ WheelYielded(w, t, want, native)
  <1> DEFINE accel == AccelOf(want, native, made)
             b == accel \in {"fits", "newer"}
             w == Wheel(t, b, b, floor /\ accel # "newer", TRUE)
  <1>1. /\ want = "0" => accel = "declined"
        /\ want = "1" => accel \in {"error", "fits", "newer"}
        /\ accel \in {"fits", "newer"} => native
    BY DEF AccelOf, Made
  <1>2. CASE Initialize(t, want, native, made, xcrun, floor) # {}
    <2>1. /\ FloorHolds(OsOf[t], xcrun, floor) /\ accel # "error"
          /\ accel \in {"fits", "newer"} => FloorHolds(OsOf[t], xcrun, accel = "fits")
          /\ Initialize(t, want, native, made, xcrun, floor) = {w}
      BY <1>2 DEF Initialize, Tagged
    <2>2. w.target = t /\ w.abi3 = b /\ w.accel = b /\ w.fits = (floor /\ accel # "newer") /\ IsWheel(w)
      BY DEF Wheel, IsWheel
    <2>3. b \in BOOLEAN /\ (b <=> accel \in {"fits", "newer"})
      OBVIOUS
    <2>4. OsOf[t] = "macos" => w.fits
      BY <2>1, <2>2 DEF FloorHolds
    <2>5. (b => native) /\ (want = "0" => ~b) /\ (want = "1" => b)
      BY <1>1, <2>1
    <2> HIDE DEF b, w
    <2>6. w.abi3 = w.accel /\ w.abi3 \in BOOLEAN
      BY <2>2, <2>3
    <2>7. (w.abi3 => native) /\ (want = "0" => ~w.abi3) /\ (want = "1" => w.abi3)
      BY <2>2, <2>5
    <2>8. WheelYielded(w, t, want, native)
      BY <2>2, <2>4, <2>6, <2>7 DEF WheelYielded
    <2> QED
      BY <2>1, <2>8
  <1> QED
    BY <1>2

\* A target of a list is its head or in its tail.
LEMMA HeadOrTail ==
    ASSUME NEW q \in Seq(Targets), q # <<>>
    PROVE  /\ Head(q) \in Targets /\ Tail(q) \in Seq(Targets)
           /\ \A t : InLeft(q, t) => t = Head(q) \/ InLeft(Tail(q), t)
  <1>1. Head(q) \in Targets /\ Tail(q) \in Seq(Targets) /\ Len(q) \in Nat /\ Len(q) >= 1
        /\ Len(Tail(q)) = Len(q) - 1 /\ \A i \in 1 .. Len(q) - 1 : Tail(q)[i] = q[i + 1]
    OBVIOUS
  <1>2. ASSUME NEW t, NEW i \in 1 .. Len(q), q[i] = t PROVE t = Head(q) \/ InLeft(Tail(q), t)
    <2>1. CASE i = 1
      BY <1>2, <2>1
    <2>2. CASE i # 1
      <3>1. PICK j \in 1 .. Len(q) - 1 : i = j + 1
        <4>1. i - 1 \in 1 .. Len(q) - 1 /\ i = (i - 1) + 1
          BY <1>1, <2>2
        <4> QED
          BY <4>1
      <3>2. Tail(q)[j] = t /\ j \in DOMAIN Tail(q)
        BY <1>1, <1>2, <3>1
      <3> QED
        BY <3>2 DEF InLeft
    <2> QED
      BY <2>1, <2>2
  <1> QED
    BY <1>1, <1>2 DEF InLeft

\* Before the build nothing is owed.
LEMMA WheelsInitInv == WheelsInit => WheelsInv
  <1> SUFFICES ASSUME WheelsInit PROVE WheelsInv
    OBVIOUS
  <1>1. ASSUME NEW w \in dist PROVE IsWheel(w) /\ HonestWheel(w) /\ w.target \in Targets
    <2>1. PICK t \in Targets : w = Wheel(t, TRUE, TRUE, TRUE, FALSE)
      BY <1>1 DEF WheelsInit
    <2> QED
      BY <2>1 DEF Wheel, IsWheel, HonestWheel
  <1> QED
    BY <1>1 DEF WheelsInit, WheelsInv, WheelsTyped, WheelKinds, WheelsObliged, WheelsEnded, WheelBuilding

\* A build takes the targets it was given.
LEMMA WheelsStarts == WheelsInv /\ (\E names \in {{}, {"native"}} \cup {{t} : t \in Targets} : Start(names)) => WheelsInv'
  <1> SUFFICES ASSUME WheelsInv, NEW names, Start(names) PROVE WheelsInv'
    OBVIOUS
  <1>1. /\ wheelStage = "idle" /\ (only' <=> names # {}) /\ UNCHANGED <<host, dist, failures, lib>>
        /\ wheelStage' \in {"library", "done"}
        /\ status' = "refused" \/ (status' = status /\ status = "running" /\ wheelStage' = "library")
        /\ status' = "refused" => wheelStage' = "done"
    BY DEF Start, WheelsInv, WheelsEnded, WheelsTyped
  <1>2. ASSUME status' # "refused", ~only' PROVE WheelsOwed'
    <2>1. left' = Matrix /\ wheelStage' = "library"
      BY <1>1, <1>2 DEF Start
    <2>2. Matrix \in Seq(Targets) /\ \A t \in Targets : InLeft(Matrix, t)
      BY WheelsAssumption DEF WheelsAssumption, Targets, InLeft
    <2> QED
      BY <1>1, <2>1, <2>2 DEF WheelsInv, WheelsTyped, WheelKinds, WheelsObliged, WheelsEnded, WheelsOwed, WheelBuilding
  <1>3. \A w \in dist' : IsWheel(w) /\ HonestWheel(w)'
    BY <1>1 DEF WheelsInv, WheelsTyped, WheelKinds, WheelsObliged, WheelsEnded, HonestWheel
  <1>4. WheelsTyped'
    BY <1>1 DEF WheelsInv, WheelsTyped
  <1>5. WheelsEnded'
    BY <1>1 DEF WheelsEnded
  <1> QED
    BY <1>2, <1>3, <1>4, <1>5 DEF WheelsInv, WheelKinds, WheelsObliged

\* A target that fails is noted.
LEMMA WheelsFails ==
    ASSUME WheelsInv, wheelStage \in {"library", "portable", "accelerated"}, Fail(Head(left)), left # <<>> \/ only,
           UNCHANGED <<host, only, status>>
    PROVE  WheelsInv'
  <1>1. /\ failures' = failures \cup {Head(left)} /\ left' = Tail(left) /\ wheelStage' = "library" /\ dist' = dist
        /\ status = "running" /\ lib' = lib
    BY DEF Fail, WheelsInv, WheelsEnded
  <1>2. ASSUME ~only PROVE WheelsOwed'
    <2>1. WheelsOwed /\ left \in Seq(Targets) /\ left # <<>>
      BY <1>1, <1>2 DEF WheelsInv, WheelsTyped, WheelKinds, WheelsObliged, WheelsEnded, WheelBuilding, WheelsOwed
    <2>2. left' \in Seq(Targets) /\ \A t : InLeft(left, t) => t = Head(left) \/ InLeft(left', t)
      BY <1>1, <2>1, HeadOrTail
    <2> QED
      BY <1>1, <2>1, <2>2 DEF WheelsOwed, WheelBuilding
  <1>3. \A w \in dist' : IsWheel(w) /\ HonestWheel(w)'
    BY <1>1 DEF WheelsInv, WheelsTyped, WheelKinds, WheelsObliged, WheelsEnded, HonestWheel
  <1>4. WheelsTyped'
    BY <1>1 DEF WheelsInv, WheelsTyped
  <1>5. WheelsEnded'
    BY <1>1 DEF WheelsEnded
  <1> QED
    BY <1>2, <1>3, <1>4, <1>5 DEF WheelsInv, WheelKinds, WheelsObliged

\* The library of a target is built or fails.
LEMMA WheelsLibrary == WheelsInv /\ BuildLibrary => WheelsInv'
  <1> SUFFICES ASSUME WheelsInv, BuildLibrary PROVE WheelsInv'
    OBVIOUS
  <1>1. wheelStage = "library" /\ left # <<>> /\ UNCHANGED <<host, only, status>>
    BY DEF BuildLibrary
  <1>2. CASE Fail(Head(left))
    BY <1>1, <1>2, WheelsFails
  <1>3. CASE lib' \in BOOLEAN /\ wheelStage' = "portable" /\ UNCHANGED <<left, failures, dist>>
    <2>1. (~only) => WheelsOwed'
      BY <1>1, <1>3 DEF WheelsInv, WheelsTyped, WheelKinds, WheelsObliged, WheelsEnded, WheelsOwed, WheelBuilding
    <2>2. \A w \in dist' : IsWheel(w) /\ HonestWheel(w)'
      BY <1>1, <1>3 DEF WheelsInv, WheelsTyped, WheelKinds, WheelsObliged, WheelsEnded, HonestWheel
    <2> QED
      BY <1>1, <1>3, <2>1, <2>2 DEF WheelsInv, WheelsTyped, WheelKinds, WheelsObliged, WheelsEnded
  <1> QED
    BY <1>2, <1>3 DEF BuildLibrary

\* A wheel is built from it or fails.
LEMMA WheelsBuilds ==
    ASSUME WheelsInv, NEW accel \in BOOLEAN, BuildWheel(accel) PROVE WheelsInv'
  <1>0. /\ wheelStage = (IF accel THEN "accelerated" ELSE "portable") /\ UNCHANGED <<host, only, status>>
        /\ status = "running"
    BY DEF BuildWheel, WheelsInv, WheelsEnded
  <1> DEFINE t == Head(left)
  <1>1. PICK made \in Made, xcrun \in BOOLEAN, backend \in BOOLEAN :
        LET got == IF backend THEN Initialize(t, Want(accel), Native(t), made, xcrun, lib) ELSE {}
        IN IF got = {} THEN Fail(t)
           ELSE /\ dist' = {w \in dist : ~\E g \in got : w.target = g.target /\ w.abi3 = g.abi3}
                           \cup got
                /\ IF ~accel /\ Native(t)
                   THEN wheelStage' = "accelerated" /\ UNCHANGED left
                   ELSE wheelStage' = "library" /\ left' = Tail(left)
                /\ UNCHANGED <<failures, lib>>
    BY DEF BuildWheel
  <1> DEFINE got == IF backend THEN Initialize(t, Want(accel), Native(t), made, xcrun, lib) ELSE {}
  <1>2. left # <<>> \/ only
    BY <1>0 DEF WheelsInv, WheelsTyped, WheelKinds, WheelsObliged, WheelsEnded, WheelsOwed, WheelBuilding
  <1>3. CASE got = {}
    <2>1. Fail(t)
      BY <1>1, <1>3
    <2> QED
      BY <1>0, <1>2, <2>1, WheelsFails
  <1>4. CASE got # {}
    <2>0. lib \in BOOLEAN /\ Native(t) \in BOOLEAN /\ Want(accel) \in {"auto", "1", "0"}
      BY DEF WheelsInv, WheelsTyped, WheelKinds, WheelsObliged, WheelsEnded, Native, Want
    <2>1. PICK g : got = {g} /\ WheelYielded(g, t, Want(accel), Native(t))
      <3>1. got = Initialize(t, Want(accel), Native(t), made, xcrun, lib)
        BY <1>4
      <3>2. \/ Initialize(t, Want(accel), Native(t), made, xcrun, lib) = {}
            \/ \E g : /\ Initialize(t, Want(accel), Native(t), made, xcrun, lib) = {g}
                     /\ WheelYielded(g, t, Want(accel), Native(t))
        <4>1. PICK n \in BOOLEAN : n = Native(t)
          BY <2>0
        <4>2. PICK l \in BOOLEAN : l = lib
          BY <2>0
        <4>3. \/ Initialize(t, Want(accel), n, made, xcrun, l) = {}
              \/ \E g : /\ Initialize(t, Want(accel), n, made, xcrun, l) = {g}
                       /\ WheelYielded(g, t, Want(accel), n)
          BY <2>0, HookYields
        <4> QED
          BY <4>1, <4>2, <4>3
      <3> QED
        BY <1>4, <3>1, <3>2
    <2>1a. /\ IsWheel(g) /\ g.target = t /\ g.abi3 = g.accel /\ g.abi3 \in BOOLEAN
           /\ OsOf[t] = "macos" => g.fits
           /\ g.abi3 => Native(t)
           /\ Want(accel) = "0" => ~g.abi3
           /\ Want(accel) = "1" => g.abi3
      BY <2>1 DEF WheelYielded
    <2>2. g.abi3 <=> accel
      BY <2>1a DEF Want
    <2>3. /\ dist' = {w \in dist : ~(w.target = t /\ w.abi3 = g.abi3)} \cup {g}
          /\ IF ~accel /\ Native(t)
             THEN wheelStage' = "accelerated" /\ UNCHANGED left
             ELSE wheelStage' = "library" /\ left' = Tail(left)
          /\ failures' = failures
      BY <1>1, <1>4, <2>1, <2>1a
    <2> HIDE DEF got
    <2>4. \A w \in dist' : IsWheel(w) /\ HonestWheel(w)'
      <3>1. HonestWheel(g)'
        BY <1>0, <2>1a DEF HonestWheel, Native
      <3>2. \A w \in dist : HonestWheel(w) => HonestWheel(w)'
        BY <1>0 DEF HonestWheel
      <3> QED
        BY <2>1, <2>1a, <2>3, <3>1, <3>2 DEF WheelsInv, WheelsTyped, WheelKinds, WheelsObliged, WheelsEnded
    <2>5. ASSUME ~only PROVE WheelsOwed'
      <3>1. WheelsOwed /\ left \in Seq(Targets) /\ left # <<>> /\ t \in Targets
        BY <1>0, <2>5, HeadOrTail DEF WheelsInv, WheelsTyped, WheelKinds, WheelsObliged, WheelsEnded, WheelBuilding, WheelsOwed
      <3>2. /\ \A s : (\E w \in dist : w.target = s /\ ~w.abi3) => (\E w \in dist' : w.target = s /\ ~w.abi3)
            /\ (\E w \in dist : w.abi3) => (\E w \in dist' : w.abi3)
        <4>1. g \in dist' /\ \A w \in dist : w \in dist' \/ (w.target = g.target /\ w.abi3 = g.abi3)
          BY <2>1, <2>1a, <2>3
        <4> QED
          BY <4>1
      <3>3. \A w \in dist' : w.target \in Targets
        BY <2>1, <2>1a, <2>3, <3>1 DEF WheelsOwed
      <3>4. g \in dist'
        BY <2>3
      <3>5. CASE ~accel /\ Native(t)
        <4>1. \E w \in dist' : w.target = Head(left') /\ ~w.abi3
          BY <2>1, <2>1a, <2>2, <2>3, <3>4, <3>5
        <4> QED
          BY <1>0, <2>3, <3>1, <3>2, <3>3, <3>5, <4>1 DEF WheelsOwed, WheelBuilding
      <3>6. CASE ~(~accel /\ Native(t))
        <4>1. left' = Tail(left) /\ wheelStage' = "library"
          BY <2>3, <3>6
        <4>2. left' \in Seq(Targets) /\ \A s : InLeft(left, s) => s = t \/ InLeft(left', s)
          BY <3>1, <4>1, HeadOrTail
        <4>3. \E w \in dist' : w.target = t /\ ~w.abi3
          <5>1. CASE accel
            <6>1. \E w \in dist : w.target = t /\ ~w.abi3
              BY <1>0, <3>1, <5>1 DEF WheelsOwed
            <6> QED
              BY <3>2, <6>1
          <5>2. CASE ~accel
            BY <2>1, <2>1a, <2>2, <3>4, <5>2
          <5> QED
            BY <5>1, <5>2
        <4>4. t = host => \E w \in dist' : w.abi3
          BY <2>2, <3>4, <3>6 DEF Native
        <4>5. ASSUME NEW s \in Targets
              PROVE  \/ WheelBuilding' /\ InLeft(left', s)
                     \/ s \in failures'
                     \/ /\ \E w \in dist' : w.target = s /\ ~w.abi3
                        /\ s = host' => \E w \in dist' : w.abi3
          <5>1. CASE WheelBuilding /\ InLeft(left, s)
            <6>1. s = t \/ InLeft(left', s)
              BY <4>2, <5>1
            <6> QED
              BY <1>0, <4>1, <4>3, <4>4, <6>1 DEF WheelBuilding
          <5>2. CASE s \in failures
            BY <2>3, <5>2
          <5>3. CASE (\E w \in dist : w.target = s /\ ~w.abi3) /\ (s = host => \E w \in dist : w.abi3)
            BY <1>0, <3>2, <5>3
          <5> QED
            BY <3>1, <5>1, <5>2, <5>3 DEF WheelsOwed
        <4> QED
          BY <3>3, <4>1, <4>2, <4>5 DEF WheelsOwed
      <3> QED
        BY <3>5, <3>6
    <2>6. wheelStage' = "accelerated" => Native(Head(left))'
      BY <1>0, <2>3 DEF Native
    <2>7. wheelStage' \in {"library", "accelerated"}
      BY <2>3
    <2>8. WheelsTyped'
      BY <1>0, <1>1, <1>4, <2>3, <2>6, <2>7 DEF WheelsInv, WheelsTyped, got
    <2>9. WheelsEnded'
      BY <1>0 DEF WheelsEnded
    <2>10. WheelKinds'
      BY <2>4 DEF WheelKinds
    <2>11. WheelsObliged'
      BY <1>0, <2>5 DEF WheelsObliged
    <2> QED
      BY <2>8, <2>9, <2>10, <2>11 DEF WheelsInv
  <1> QED
    BY <1>3, <1>4

\* The release says what it has.
LEMMA WheelsReports == WheelsInv /\ Report => WheelsInv'
  <1> SUFFICES ASSUME WheelsInv, Report PROVE WheelsInv'
    OBVIOUS
  <1>1. /\ wheelStage = "library" /\ left = <<>> /\ wheelStage' = "done" /\ UNCHANGED <<host, dist, left, lib, only, failures>>
        /\ status' = IF Shortfall \/ failures # {} THEN "failed" ELSE "released"
        /\ status = "running"
    BY DEF Report, WheelsInv, WheelsEnded
  <1>2. ASSUME ~only, status' = "released" PROVE WheelsOwed' /\ failures = {} /\ (dist = {} \/ \E w \in dist : w.abi3)
    <2>1. WheelsOwed
      BY <1>1, <1>2 DEF WheelsInv, WheelsTyped, WheelKinds, WheelsObliged, WheelsEnded, WheelBuilding
    <2>2. failures = {} /\ ~Shortfall
      BY <1>1, <1>2
    <2>3. \A t : ~InLeft(left, t)
      BY <1>1 DEF InLeft
    <2>4. WheelsOwed'
      BY <1>1, <2>1, <2>3 DEF WheelsOwed
    <2> QED
      BY <1>2, <2>2, <2>4 DEF Shortfall
  <1>3. \A w \in dist' : IsWheel(w) /\ HonestWheel(w)'
    BY <1>1 DEF WheelsInv, WheelsTyped, WheelKinds, WheelsObliged, WheelsEnded, HonestWheel
  <1> QED
    BY <1>1, <1>2, <1>3 DEF WheelsInv, WheelsTyped, WheelKinds, WheelsObliged, WheelsEnded, WheelBuilding

\* A build from source is of the machine it runs on.
LEMMA WheelsSources == WheelsInv /\ (\E want \in {"auto", "1", "0"} : SourceBuild(want)) => WheelsInv'
  <1> SUFFICES ASSUME WheelsInv, NEW want \in {"auto", "1", "0"}, SourceBuild(want) PROVE WheelsInv'
    OBVIOUS
  <1>0. /\ wheelStage = "idle" /\ host # NoTarget /\ wheelStage' = "done"
        /\ UNCHANGED <<host, left, lib, only, failures, status>> /\ status = "running"
    BY DEF SourceBuild, WheelsInv, WheelsEnded
  <1>1. PICK made \in Made, xcrun \in BOOLEAN, floor \in BOOLEAN :
        dist' = dist \cup Initialize(host, want, TRUE, made, xcrun, floor)
    BY DEF SourceBuild
  <1>2. \A w \in Initialize(host, want, TRUE, made, xcrun, floor) :
           IsWheel(w) /\ w.target = host /\ w.abi3 = w.accel /\ w.abi3 \in BOOLEAN /\ (OsOf[host] = "macos" => w.fits)
    <2> DEFINE got == Initialize(host, want, TRUE, made, xcrun, floor)
    <2>1. got = {} \/ \E w : got = {w} /\ WheelYielded(w, host, want, TRUE)
      <3>1. PICK n \in BOOLEAN : n = TRUE
        OBVIOUS
      <3>2. \/ Initialize(host, want, n, made, xcrun, floor) = {}
            \/ \E w : Initialize(host, want, n, made, xcrun, floor) = {w} /\ WheelYielded(w, host, want, n)
        BY HookYields
      <3> QED
        BY <3>1, <3>2
    <2> HIDE DEF got
    <2>2. \A w \in got : WheelYielded(w, host, want, TRUE)
      BY <2>1
    <2>3. \A w \in got : IsWheel(w) /\ w.target = host /\ w.abi3 = w.accel /\ w.abi3 \in BOOLEAN /\ (OsOf[host] = "macos" => w.fits)
      BY <2>2 DEF WheelYielded
    <2> QED
      BY <2>3 DEF got
  <1>3. \A w \in dist' : IsWheel(w) /\ HonestWheel(w)'
    <2>1. \A w \in dist : IsWheel(w) /\ HonestWheel(w)'
      BY <1>0 DEF WheelsInv, WheelsTyped, WheelKinds, WheelsObliged, WheelsEnded, HonestWheel
    <2>2. \A w \in Initialize(host, want, TRUE, made, xcrun, floor) : IsWheel(w) /\ HonestWheel(w)'
      BY <1>0, <1>2 DEF HonestWheel
    <2> QED
      BY <1>1, <2>1, <2>2
  <1> QED
    BY <1>0, <1>3 DEF WheelsInv, WheelsTyped, WheelKinds, WheelsObliged, WheelsEnded, WheelBuilding

\* Every step keeps the invariant.
LEMMA WheelsStepInv == WheelsInv /\ [WheelsNext]_wheelVars => WheelsInv'
  <1> SUFFICES ASSUME WheelsInv, [WheelsNext]_wheelVars PROVE WheelsInv'
    OBVIOUS
  <1>1. CASE UNCHANGED wheelVars
    <2>1. WheelsTyped'
      BY <1>1 DEF wheelVars, WheelsInv, WheelsTyped, Native
    <2>2. WheelKinds'
      BY <1>1 DEF wheelVars, WheelsInv, WheelKinds, HonestWheel
    <2>3. WheelsEnded'
      BY <1>1 DEF wheelVars, WheelsInv, WheelsEnded
    <2>4. WheelsObliged'
      BY <1>1 DEF wheelVars, WheelsInv, WheelsObliged, WheelsOwed, WheelBuilding
    <2> QED
      BY <2>1, <2>2, <2>3, <2>4 DEF WheelsInv
  <1> QED
    BY <1>1, WheelsStarts, WheelsLibrary, WheelsBuilds, WheelsReports, WheelsSources DEF WheelsNext

------------------------------------------------------------------------------
\* Release. A release that is green is of the tree that was minted.

\* what a target's build may have left in the tree
LinkedLibrary(a) == /\ a.abi \in 1 .. headerTree.abi /\ a.version \in Nat
                    /\ a.floor = TRUE /\ a.links = TRUE

\* The types the steps keep.
ReleaseTyped ==
    /\ headerTree \in [abi : Nat \ {0}, version : Nat \ {0}]
    /\ header \in [abi : Nat, structs : Nat] /\ vendored \in Nat
    /\ tagNames \in [Bindings -> Nat]
    /\ archive = [b \in Bindings |-> [p \in Platform |-> archive[b][p]]]
    /\ \A b \in Bindings, p \in Platform : LinkedLibrary(archive[b][p])
    /\ mirror = [f \in Mirror |-> mirror[f]]

\* nothing of the release is of another version
Minted == /\ \A b \in Bindings : ~BehindArchives(b)
          /\ corpora = headerTree.version /\ lockfile = headerTree.version

\* a check that is green holds of the tree as it stands
GreenHolds ==
    /\ chores # <<>> => green = {}
    /\ "mint" \in green => Minted
    /\ "versions" \in green => VersionsAgree
    /\ "parity" \in green => Audit

\* The strengthening: a check is green only for the tree it looked at.
ReleaseInv == ReleaseTyped /\ GreenHolds

\* What the invariant says is enough for ReleaseCurrent.
LEMMA ReleaseInvImplies == ReleaseInv => ReleaseCurrent
  <1> SUFFICES ASSUME ReleaseInv PROVE ReleaseCurrent
    OBVIOUS
  <1>1. \A b \in Bindings, p \in Platform : archive[b][p].floor /\ archive[b][p].links
    BY DEF ReleaseInv, ReleaseTyped, LinkedLibrary
  <1>2. ASSUME green = {"mint", "versions", "parity"}
        PROVE  /\ \A f \in Mirror : mirror[f] = headerTree.version /\ f \in manifested
               /\ corpora = headerTree.version /\ lockfile = headerTree.version
               /\ header.abi = headerTree.abi /\ vendored = header.structs
               /\ \A b \in Bindings, p \in Platform :
                     /\ archive[b][p].version = headerTree.version
                     /\ archive[b][p].abi = tagNames[b] /\ tagNames[b] = header.abi
    <2>1. Minted /\ VersionsAgree /\ Audit
      BY <1>2 DEF ReleaseInv, GreenHolds
    <2>2. headerTree.abi \in Nat
      BY DEF ReleaseInv, ReleaseTyped
    <2>3. \A b \in Bindings, p \in Platform : archive[b][p].abi \in Nat /\ archive[b][p].abi <= headerTree.abi
      BY <2>2 DEF ReleaseInv, ReleaseTyped, LinkedLibrary
    <2>4. \A b \in Bindings, p \in Platform : ~(archive[b][p].abi < headerTree.abi)
      BY <2>1 DEF Audit, StaleArchive
    <2>5. \A b \in Bindings, p \in Platform : archive[b][p].abi = headerTree.abi
      BY <2>2, <2>3, <2>4
    <2> QED
      BY <2>1, <2>5 DEF Minted, VersionsAgree, Audit, StaleHeader, BehindArchives
  <1> QED
    BY <1>1, <1>2 DEF ReleaseCurrent

\* The chores name nothing exactly if everything is minted.
LEMMA StaleNothing == Stale = <<>> <=> Minted
  <1> DEFINE Word == {"go", "rust", "corpus", "lock"}
             a == IF BehindArchives("go") THEN <<"go">> ELSE <<>>
             b == IF BehindArchives("rust") THEN <<"rust">> ELSE <<>>
             c == IF corpora # headerTree.version THEN <<"corpus">> ELSE <<>>
             d == IF lockfile # headerTree.version THEN <<"lock">> ELSE <<>>
  <1>1. a \in Seq(Word) /\ b \in Seq(Word) /\ c \in Seq(Word) /\ d \in Seq(Word)
    <2>1. <<>> \in Seq(Word) /\ <<"go">> \in Seq(Word) /\ <<"rust">> \in Seq(Word)
          /\ <<"corpus">> \in Seq(Word) /\ <<"lock">> \in Seq(Word)
      OBVIOUS
    <2> QED
      BY <2>1, Zenon
  <1>2. /\ Len(a) = IF BehindArchives("go") THEN 1 ELSE 0
        /\ Len(b) = IF BehindArchives("rust") THEN 1 ELSE 0
        /\ Len(c) = IF corpora # headerTree.version THEN 1 ELSE 0
        /\ Len(d) = IF lockfile # headerTree.version THEN 1 ELSE 0
    OBVIOUS
  <1>3. Stale = a \o b \o c \o d
    BY DEF Stale
  <1> HIDE DEF a, b, c, d
  <1>4. a \o b \in Seq(Word) /\ Len(a \o b) = Len(a) + Len(b)
    BY <1>1
  <1>5. a \o b \o c \in Seq(Word) /\ Len(a \o b \o c) = Len(a) + Len(b) + Len(c)
    BY <1>1, <1>4
  <1>6. a \o b \o c \o d \in Seq(Word) /\ Len(a \o b \o c \o d) = Len(a) + Len(b) + Len(c) + Len(d)
    BY <1>1, <1>5
  <1>7. Stale = <<>> <=> Len(a) + Len(b) + Len(c) + Len(d) = 0
    BY <1>3, <1>6, EmptySeq
  <1>8. (\A e \in Bindings : ~BehindArchives(e)) <=> ~BehindArchives("go") /\ ~BehindArchives("rust")
    BY DEF Bindings
  <1> QED
    BY <1>2, <1>7, <1>8 DEF Minted

\* The first tree is minted.
LEMMA ReleaseInitInv == ReleaseInit => ReleaseInv
  <1> SUFFICES ASSUME ReleaseInit PROVE ReleaseInv
    OBVIOUS
  <1>1. \A b \in Bindings, p \in Platform : archive[b][p] = Archive(1, 1)
    BY DEF ReleaseInit
  <1>2. \A b \in Bindings, p \in Platform : LinkedLibrary(archive[b][p])
    BY <1>1 DEF ReleaseInit, LinkedLibrary, Archive
  <1>3. archive = [b \in Bindings |-> [p \in Platform |-> archive[b][p]]]
    BY DEF ReleaseInit
  <1> QED
    BY <1>2, <1>3 DEF ReleaseInit, ReleaseInv, ReleaseTyped, GreenHolds

\* Whatever moves the tree takes the green away.
LEMMA TreeMoves ==
    ASSUME ReleaseInv, Bump \/ Grow \/ (\E declares \in BOOLEAN, binds \in SUBSET Bindings : Export(declares, binds))
                       \/ (\E b \in Bindings : Relink(b)) \/ (\E f \in Mirror : Unlist(f))
    PROVE  ReleaseInv'
  <1>1. chores = <<>> /\ chores' = chores /\ green' = {} /\ vendored' = vendored /\ archive' = archive
    BY DEF Bump, Grow, Export, Relink, Unlist, Moved, outputVars
  <1>2. GreenHolds'
    BY <1>1 DEF GreenHolds
  <1>3. headerTree \in [abi : Nat \ {0}, version : Nat \ {0}] /\ header \in [abi : Nat, structs : Nat]
    BY DEF ReleaseInv, ReleaseTyped
  <1>4. headerTree' \in [abi : Nat \ {0}, version : Nat \ {0}] /\ headerTree.abi <= headerTree'.abi
    BY <1>3 DEF Bump, Grow, Export, Relink, Unlist
  <1>5. header' \in [abi : Nat, structs : Nat]
    BY <1>3 DEF Bump, Grow, Export, Relink, Unlist
  <1>6. tagNames' \in [Bindings -> Nat] /\ mirror' = [f \in Mirror |-> mirror'[f]]
    BY <1>3 DEF Bump, Grow, Export, Relink, Unlist, ReleaseInv, ReleaseTyped
  <1>7. \A b \in Bindings, p \in Platform : LinkedLibrary(archive[b][p])'
    BY <1>1, <1>3, <1>4 DEF ReleaseInv, ReleaseTyped, LinkedLibrary
  <1> QED
    BY <1>1, <1>2, <1>4, <1>5, <1>6, <1>7 DEF ReleaseInv, ReleaseTyped

\* Relinking and vendoring keep the types.
LEMMA RefreshKeeps ==
    ASSUME ReleaseTyped, NEW b \in Bindings, NEW chosen \in SUBSET Platform, NEW export \in BOOLEAN, NEW ok \in BOOLEAN,
           Refresh(b, chosen, export, ok), UNCHANGED treeVars
    PROVE  ReleaseTyped'
  <1>1. PICK done \in SUBSET chosen : \E made \in [done -> Products(export)] :
          /\ \A p \in done : Committed(made[p])
          /\ archive' = [archive EXCEPT ![b] =
                [p \in Platform |-> IF p \in done THEN made[p] ELSE @[p]]]
    BY DEF Refresh
  <1>2. PICK made \in [done -> Products(export)] :
          /\ \A p \in done : Committed(made[p])
          /\ archive' = [archive EXCEPT ![b] =
                [p \in Platform |-> IF p \in done THEN made[p] ELSE @[p]]]
    BY <1>1
  <1>3. \A made_ \in Products(export) : /\ made_.abi \in 1 .. headerTree.abi /\ made_.version \in Nat
                                        /\ made_.floor \in BOOLEAN /\ made_.links \in BOOLEAN
    BY DEF Products, ReleaseTyped
  <1>4. \A p \in done : LinkedLibrary(made[p])
    BY <1>2, <1>3 DEF Committed, LinkedLibrary
  <1>5. archive' = [c \in Bindings |-> [p \in Platform |-> IF c = b /\ p \in done THEN made[p] ELSE archive[c][p]]]
    BY <1>2 DEF ReleaseTyped
  <1>6. archive' = [c \in Bindings |-> [p \in Platform |-> archive'[c][p]]]
    BY <1>5
  <1>7. \A c \in Bindings, p \in Platform : LinkedLibrary(archive'[c][p])
    BY <1>4, <1>5 DEF ReleaseTyped
  <1>8. vendored' \in Nat
    BY DEF Refresh, ReleaseTyped
  <1>9. headerTree' = headerTree /\ header' = header /\ tagNames' = tagNames /\ mirror' = mirror
    BY DEF treeVars
  <1> QED
    BY <1>6, <1>7, <1>8, <1>9 DEF ReleaseTyped, LinkedLibrary

\* Every step keeps the invariant.
LEMMA ReleaseStepInv == ReleaseInv /\ [ReleaseNext]_releaseVars => ReleaseInv'
  <1> SUFFICES ASSUME ReleaseInv, [ReleaseNext]_releaseVars PROVE ReleaseInv'
    OBVIOUS
  <1>1. CASE UNCHANGED <<treeVars, outputVars, chores, green>>
    <2>1. ReleaseTyped'
      BY <1>1 DEF treeVars, outputVars, ReleaseInv, ReleaseTyped, LinkedLibrary
    <2>2. GreenHolds'
      BY <1>1 DEF treeVars, outputVars, ReleaseInv, GreenHolds, Minted, VersionsAgree, Audit, BehindArchives,
                  StaleHeader, StaleArchive, StaleStamp
    <2> QED
      BY <2>1, <2>2 DEF ReleaseInv
  <1>2. ASSUME NEW b \in Bindings, NEW chosen \in SUBSET Platform, NEW export \in BOOLEAN, Vendor(b, chosen, export)
        PROVE  ReleaseInv'
    <2>1. ReleaseTyped'
      BY <1>2, RefreshKeeps DEF Vendor, ReleaseInv
    <2>2. GreenHolds'
      BY <1>2 DEF Vendor, GreenHolds
    <2> QED
      BY <2>1, <2>2 DEF ReleaseInv
  <1>3. CASE /\ UNCHANGED <<treeVars, outputVars>>
             /\ \/ MintCheck \/ Mint \/ AskRelease \/ CheckTree("versions", VersionsAgree) \/ CheckTree("parity", Audit)
    <2>1. ReleaseTyped'
      BY <1>3 DEF treeVars, outputVars, ReleaseInv, ReleaseTyped, LinkedLibrary
    <2>2. Minted' = Minted /\ VersionsAgree' = VersionsAgree /\ Audit' = Audit
      BY <1>3 DEF treeVars, outputVars, Minted, VersionsAgree, Audit, BehindArchives,
                  StaleHeader, StaleArchive, StaleStamp
    <2>3. chores' # <<>> => green' = {}
      BY <1>3 DEF MintCheck, Mint, AskRelease, CheckTree, ReleaseInv, GreenHolds
    <2>4. ("mint" \in green' => Minted) /\ ("versions" \in green' => VersionsAgree) /\ ("parity" \in green' => Audit)
      BY <1>3, StaleNothing DEF MintCheck, Mint, AskRelease, CheckTree, ReleaseInv, GreenHolds, Settled
    <2> QED
      BY <2>1, <2>2, <2>3, <2>4 DEF ReleaseInv, GreenHolds
  <1>4. ASSUME NEW b \in Bindings \cup {"corpus", "lock"}, Chore(b) PROVE ReleaseInv'
    <2>0. UNCHANGED treeVars /\ green' = green /\ green = {}
      BY <1>4 DEF Chore, ReleaseInv, GreenHolds
    <2>1. GreenHolds'
      BY <2>0 DEF GreenHolds
    <2>2. CASE b \in Bindings
      <3>0. b # "corpus" /\ b # "lock"
        BY <2>2 DEF Bindings
      <3>1. PICK ok \in BOOLEAN : Refresh(b, Platform, FALSE, ok)
        BY <1>4, <2>2, <3>0 DEF Chore
      <3>2. ReleaseTyped'
        BY <2>0, <2>2, <3>1, RefreshKeeps DEF ReleaseInv
      <3> QED
        BY <2>1, <3>2 DEF ReleaseInv
    <2>3. CASE b \notin Bindings
      <3>1. vendored' = vendored /\ archive' = archive
        BY <1>4, <2>3 DEF Chore, Bindings
      <3> QED
        <4>1. ReleaseTyped'
          BY <2>0, <3>1 DEF treeVars, ReleaseInv, ReleaseTyped, LinkedLibrary
        <4> QED
          BY <2>1, <4>1 DEF ReleaseInv
    <2> QED
      BY <2>1, <2>2, <2>3 DEF ReleaseInv
  <1>5. CASE ZigBuild
    BY <1>1, <1>5 DEF ZigBuild
  <1>6. CASE MintCheck \/ Mint \/ AskRelease \/ CheckTree("versions", VersionsAgree) \/ CheckTree("parity", Audit)
    <2>1. UNCHANGED <<treeVars, outputVars>>
      BY <1>6 DEF MintCheck, Mint, AskRelease, CheckTree
    <2> QED
      BY <1>3, <1>6, <2>1
  <1>7. CASE UNCHANGED releaseVars
    BY <1>1, <1>7 DEF releaseVars
  <1> QED
    BY <1>2, <1>4, <1>5, <1>6, <1>7, TreeMoves DEF ReleaseNext

------------------------------------------------------------------------------
\* Crate. What the registry takes is what was inspected.

\* The strengthening: what the registry took is what was inspected, byte for
\* byte.
CrateInv ==
    /\ original \in Crates /\ packed \in Crates
    /\ publishedCrate # NoCrate =>
          /\ Inflates(original) /\ ReadsWhole(original.tar) /\ Metadata(original.tar) # NoCrate
          /\ publishedCrate = [tar |-> original.tar, metadata |-> original.tar, small |-> TRUE]
    /\ heard = "published" => publishedCrate # NoCrate
    /\ heard = "refused" => sent = 0
    /\ sent \in {0, 1}

\* What the invariant says is enough for UploadVerified.
LEMMA CrateInvImplies == CrateInv => UploadVerified
  <1> SUFFICES ASSUME CrateInv PROVE UploadVerified
    OBVIOUS
  <1>1. original.tar \in Tars
    BY DEF CrateInv, Crates, Tried
  <1>2. ReadsWhole(original.tar) => original.tar.members = "plain"
    BY <1>1 DEF ReadsWhole, SafePath, Tars
  <1>3. Metadata(original.tar) # NoCrate => original.tar.vcs = "tagged" /\ original.tar.package = "tagged"
    BY DEF Metadata
  <1> QED
    BY <1>2, <1>3 DEF CrateInv, UploadVerified

\* Before the upload nothing is published.
LEMMA CrateInitInv == CrateInit => CrateInv
  <1> SUFFICES ASSUME CrateInit PROVE CrateInv
    OBVIOUS
  <1>1. packed \in Crates
    BY DEF CrateInit
  <1> QED
    BY <1>1 DEF CrateInit, CrateInv

\* The upload sends what it inspected, once (crates/).
LEMMA CrateUploads == CrateInv /\ Upload => CrateInv'
  <1> SUFFICES ASSUME CrateInv, Upload PROVE CrateInv'
    OBVIOUS
  <1>1. UNCHANGED <<original, packed, prepared>>
    BY DEF Upload
  <1>2. CASE ~Revalidated
    BY <1>1, <1>2 DEF Upload, CrateInv
  <1>3. CASE Revalidated
    <2>1. /\ Inflates(original) /\ ReadsWhole(original.tar) /\ Metadata(original.tar) # NoCrate
          /\ packed.tar = original.tar /\ packed.small /\ prepared = Metadata(original.tar)
      BY <1>3 DEF Revalidated, Prepare, SameTar
    <2>2. Metadata(original.tar) = original.tar
      BY <2>1 DEF Metadata
    <2>3. Framed(prepared, packed) = [tar |-> original.tar, metadata |-> original.tar, small |-> packed.small]
      BY <2>1, <2>2 DEF Framed
    <2>4. Framed(prepared, packed) # NoCrate
      BY <2>3 DEF NoCrate
    <2>5. PICK arrives \in BOOLEAN, answer \in {"lost", "redirect", "rejected", "garbled", "done"} :
                /\ answer \in {"rejected", "redirect"} => ~arrives
                /\ answer = "done" => arrives /\ publishedCrate = NoCrate
                /\ publishedCrate' = IF arrives /\ publishedCrate = NoCrate
                                     THEN Framed(prepared, packed) ELSE publishedCrate
                /\ heard' = CASE answer = "done" -> "published"
                              [] answer = "rejected" -> "rejected"
                              [] OTHER -> "inspect the registry"
      BY <1>3 DEF Upload
    <2>6. sent' = 1
      BY <1>3 DEF Upload
    <2>7. heard' # "refused" /\ (heard' = "published" => answer = "done")
      BY <2>5
    <2>8. packed.small = TRUE
      <3>1. packed.small \in BOOLEAN
        BY DEF CrateInv, Crates
      <3> QED
        BY <2>1, <3>1
    <2> QED
      BY <1>1, <2>1, <2>3, <2>4, <2>5, <2>6, <2>7, <2>8 DEF CrateInv
  <1> QED
    BY <1>2, <1>3

\* Every step keeps the invariant.
LEMMA CrateStepInv == CrateInv /\ [CrateNext]_crateVars => CrateInv'
  <1> SUFFICES ASSUME CrateInv, [CrateNext]_crateVars PROVE CrateInv'
    OBVIOUS
  <1>1. CASE Main \/ Alter \/ UNCHANGED crateVars
    <2>1. UNCHANGED <<original, packed, publishedCrate, sent, heard>>
      BY <1>1 DEF Main, Alter, crateVars
    <2> QED
      BY <2>1 DEF CrateInv
  <1> QED
    BY <1>1, CrateUploads DEF CrateNext
==============================================================================
