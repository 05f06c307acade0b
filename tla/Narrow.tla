------------------------------- MODULE Narrow -------------------------------
(***************************************************************************)
(* A search that opens few files: the Python sieve (_sieve.py) over the    *)
(* engine's (surface/ffi/sieve.zig), the literals a pattern promises       *)
(* (_literals.py), and the host that reads what they leave.  The artifacts *)
(* and their anchor are on disk, where an index build replaces them one    *)
(* after the other; an open sieve keeps the artifacts it opened and reads  *)
(* the anchor anew at every call.  The reading list crosses the seam       *)
(* twice, once to be counted and once to be filled, and the tree moves     *)
(* meanwhile.                                                              *)
(*                                                                         *)
(* A document's content is the set of the marks it has: "lit", a literal   *)
(* the postings know, and "run", a stretch the crest measures.             *)
(***************************************************************************)
EXTENDS Integers, FiniteSets

CONSTANTS Docs, Contents,
          AtFirst,   \* what a document may be when the first index is built
          DirArrives, \* whether directories are renamed into the tree
          MaxClock, MaxEdits, MaxBuilds
ASSUME NarrowAssumption == /\ MaxClock \in Nat /\ MaxEdits \in Nat /\ MaxBuilds \in Nat
                           /\ DirArrives \in BOOLEAN
                           /\ Contents \subseteq SUBSET {"lit", "run"}
                           /\ AtFirst \subseteq Contents \cup {{"gone"}}

Removed == {"gone"}
NoDocs == [d \in Docs |-> Removed]
NoAnchor == -1
NotCarried == -1
NoSieve == [open |-> FALSE, home |-> FALSE]
NoPlan == [need |-> {}, lits |-> FALSE, swell |-> FALSE, pcre |-> FALSE]

VARIABLES docs,      \* document -> content, or Removed
          touched,   \* when it last changed: the later of mtime and ctime
          carried,   \* the builds begun when a directory brought it last, NotCarried
          clock, docEdits, builds,
          indexing,  \* what a running build has read, and since when
          onDisk,    \* the published artifacts
          anchor,    \* the published instant
          handle,    \* the Sieve
          plan,      \* the Winnow: what the pattern needs, what of it can prune
          question,  \* the call under way, or answered
          then, saw, \* the tree when the list was filled, and when it was read
          found      \* what the host reports
narrowVars == <<docs, touched, carried, clock, docEdits, builds, indexing, onDisk, anchor, handle,
                plan, question, then, saw, found>>

PresentNow == {d \in Docs : docs[d] # Removed}
MatchesNow(content) == content # Removed /\ plan.need \subseteq content

(* The tree and the index build.                                           *)
\* the instant something is stamped with; any time may have gone by since the last
Passes == clock' \in clock .. MaxClock
EditDoc == \E d \in Docs, c \in Contents \cup {Removed} :
             /\ docEdits < MaxEdits /\ docEdits' = docEdits + 1 /\ c # docs[d] /\ Passes
             /\ docs' = [docs EXCEPT ![d] = c] /\ touched' = [touched EXCEPT ![d] = clock']
             /\ UNCHANGED <<carried, builds, indexing, onDisk, anchor, handle, plan, question, then, saw, found>>

(* A directory is renamed into the tree: the documents it brings keep the  *)
(* clocks they had where they were (fresh.zig 416-418).                    *)
CarryIn == /\ DirArrives /\ docEdits < MaxEdits /\ docEdits' = docEdits + 1
           /\ \E D \in SUBSET {d \in Docs : docs[d] = Removed} : \E brings \in [D -> Contents],
                stamps \in [D -> 0 .. clock] :
                /\ D # {}
                /\ docs' = [d \in Docs |-> IF d \in D THEN brings[d] ELSE docs[d]]
                /\ touched' = [d \in Docs |-> IF d \in D THEN stamps[d] ELSE touched[d]]
                /\ carried' = [d \in Docs |-> IF d \in D THEN builds ELSE carried[d]]
           /\ UNCHANGED <<clock, builds, indexing, onDisk, anchor, handle, plan, question, then, saw, found>>

BuildReads == /\ builds < MaxBuilds /\ indexing = <<>> /\ builds' = builds + 1 /\ Passes
              /\ indexing' = <<[built |-> docs, at |-> clock', no |-> builds']>>
              /\ UNCHANGED <<docs, touched, carried, docEdits, onDisk, anchor, handle, plan, question, then, saw, found>>
PublishIndex == /\ indexing # <<>> /\ onDisk # indexing /\ onDisk' = indexing
                /\ UNCHANGED <<docs, touched, carried, clock, docEdits, builds, indexing, anchor, handle, plan,
                               question, then, saw, found>>
WriteAnchor == /\ indexing # <<>> /\ onDisk = indexing
               /\ anchor' = indexing[1].at /\ indexing' = <<>>
               /\ UNCHANGED <<docs, touched, carried, clock, docEdits, builds, onDisk, handle, plan, question, then, saw, found>>
\* the anchor file is lost, or truncated
LoseAnchor == /\ anchor # NoAnchor /\ anchor' = NoAnchor
              /\ UNCHANGED <<docs, touched, carried, clock, docEdits, builds, indexing, onDisk, handle,
                             plan, question, then, saw, found>>

---------------------------------------------------------------------------
(* sieve(): None without an index; a directory of one's own is not dated   *)
(* by this tree's anchor.                                                  *)
OpenSieve(home, crest) ==
      /\ ~handle.open /\ question = <<>> /\ onDisk # <<>>
      /\ handle' = [open |-> TRUE, built |-> onDisk[1].built, at |-> onDisk[1].at,
                    no |-> onDisk[1].no, home |-> home, crest |-> crest, table |-> {d \in Docs : onDisk[1].built[d] # Removed}]
      /\ UNCHANGED <<docs, touched, carried, clock, docEdits, builds, indexing, onDisk, anchor, plan, question, then, saw, found>>

\* what a pattern may need, and the prunings derived from it: never one the
\* pattern does not force, and none that could not be derived (of a pattern that
\* forces no literal, that the crest has nothing on it tells as much as PCRE)
Winnows == {p \in [need : SUBSET {"lit", "run"}, lits : BOOLEAN, swell : BOOLEAN, pcre : BOOLEAN] :
              /\ p.lits => "lit" \in p.need
              /\ p.swell => "run" \in p.need /\ ~p.pcre
              /\ p.pcre => "lit" \in p.need}

IndexKnows(d) == handle.built[d] # Removed
Narrowed == IF plan.lits THEN {d \in Docs : IndexKnows(d) /\ "lit" \in handle.built[d]}
            ELSE handle.table
Prunes(d) == handle.crest /\ plan.swell /\ IndexKnows(d) /\ "run" \notin handle.built[d]
Seed == {d \in Narrowed : ~Prunes(d)}
\* candidates: as built; <<>> is None, the plan has no opinion
candidates == IF ~plan.lits /\ ~(handle.crest /\ plan.swell) THEN <<>> ELSE <<Seed>>

Posture == IF anchor = NoAnchor THEN "unanchored"
           ELSE IF handle.home THEN "anchored" ELSE "foreign"
ChangedSince == {d \in PresentNow : touched[d] >= anchor}
ReadingList == IF Posture # "anchored" THEN handle.table ELSE Seed \cup ChangedSince
stale_count == IF Posture # "anchored" THEN <<>> ELSE <<Cardinality(ChangedSince)>>

\* the list is counted, the buffer made, the list filled; a list that grew in
\* between is an error, and every call keeps the ids it made up
\* (what it was dated by, and what had been brought in behind the artifacts, is
\* noted where it was filled)
BehindIndex == IF handle.open THEN {d \in Docs : carried[d] >= handle.no} ELSE {}
Listing(step, cap, list) ==
  <<[step |-> step, cap |-> cap, list |-> list,
     posture |-> IF step = "read" THEN Posture ELSE "none",
     behind |-> IF step = "read" THEN BehindIndex ELSE {},
     dated |-> step = "read" /\ (~handle.open \/ anchor <= handle.at)]>>
BeginAsk == /\ question = <<>>
            /\ question' = IF handle.open THEN Listing("count", 0, {}) ELSE Listing("read", 0, Docs)
            /\ plan' \in Winnows          \* winnow(pattern)
            /\ then' = IF handle.open THEN then ELSE docs
            /\ UNCHANGED <<docs, touched, carried, clock, docEdits, builds, indexing, onDisk, anchor, handle,
                           saw, found>>
reading_list ==
  /\ question # <<>> /\ question[1].step \in {"count", "fill"}
  /\ LET size == Cardinality(ReadingList) IN
     question' = IF size <= question[1].cap THEN Listing("read", size, ReadingList)
                 ELSE Listing(IF question[1].step = "count" THEN "fill" ELSE "raised", size, {})
  /\ handle' = [handle EXCEPT !.table = @ \cup ReadingList]
  /\ then' = docs
  /\ UNCHANGED <<docs, touched, carried, clock, docEdits, builds, indexing, onDisk, anchor, plan, saw, found>>

---------------------------------------------------------------------------
(* literals(): the required literals and their grade.                      *)
Verdict == IF plan.pcre \/ "lit" \notin plan.need THEN "none"     \* literals() is None
           ELSE IF plan.need = {"lit"} THEN "exact" ELSE "candidate"
\* a fault: a candidate set read as an exact one
ReportsCandidates(content) == IF Verdict = "none" THEN MatchesNow(content)
                              ELSE content # Removed /\ "lit" \in content
\* what the host concludes of a document it opens: absence of every member
\* rules it out, presence decides only for an exact set
ReportsSet(content) == CASE Verdict = "exact" -> content # Removed /\ "lit" \in content
                         [] Verdict = "candidate" /\ "lit" \notin content -> FALSE
                         [] OTHER -> MatchesNow(content)
ReadDoc == /\ question # <<>> /\ question[1].step = "read"
           /\ found' = {d \in question[1].list : ReportsSet(docs[d])}
           /\ question' = <<[question[1] EXCEPT !.step = "done", !.cap = 0, !.list = {}]>>
           /\ saw' = docs
           /\ UNCHANGED <<docs, touched, carried, clock, docEdits, builds, indexing, onDisk, anchor, handle,
                          plan, then>>
Answered == \E a \in {question[i] : i \in DOMAIN question} : a.step \in {"done", "raised"}

(* What is done to the tree and to the artifacts, up to the host's answer: *)
(* nothing later bears on it.                                              *)
World == /\ ~Answered
         /\ EditDoc \/ CarryIn \/ BuildReads \/ PublishIndex \/ WriteAnchor \/ LoseAnchor
NarrowInit ==
  /\ docs \in [Docs -> AtFirst] /\ touched = [d \in Docs |-> 0]
  /\ carried = [d \in Docs |-> NotCarried]
  /\ clock = 0 /\ docEdits = 0 /\ builds = 0 /\ indexing = <<>>
  /\ onDisk = <<[built |-> docs, at |-> 0, no |-> 0]>> /\ anchor = 0
  /\ handle = NoSieve /\ plan = NoPlan
  /\ question = <<>> /\ then = NoDocs /\ saw = NoDocs /\ found = {}
NarrowNext == \/ World
              \/ \E home, crest \in BOOLEAN : OpenSieve(home, crest)
              \/ BeginAsk \/ reading_list \/ ReadDoc
NarrowSpec == NarrowInit /\ [][NarrowNext]_narrowVars

---------------------------------------------------------------------------
Done == question # <<>> /\ question[1].step = "done"
Missed == {d \in Docs : then[d] = saw[d] /\ MatchesNow(saw[d])} \ found

\* A host that reads the reading list misses no match that stood since the
\* list was filled, and reports none that is not one: while the anchor in force
\* is not younger than the artifacts it holds, but for the documents that came in
\* with a directory since these were built, whose clocks say nothing
\* (sweep.zig 157-178), and without an anchor as far as the documents of the
\* artifacts go.  What the plan admits as built leaves out none that matched
\* when the index was built.
NothingMissed ==
  /\ Done => found \subseteq {d \in Docs : MatchesNow(saw[d])}
  /\ Done => IF ~handle.open THEN Missed = {}
             ELSE IF question[1].posture # "anchored" THEN Missed \cap handle.table = {}
             ELSE question[1].dated => Missed \subseteq question[1].behind
  /\ handle.open /\ candidates # <<>> =>
       {d \in Docs : IndexKnows(d) /\ MatchesNow(handle.built[d])} \subseteq candidates[1]

\* sieve.zig: the reading list is "every document a correct search of the
\* CURRENT tree has to open", with an anchor or without, whatever a directory
\* brings.
ReadingListIsCurrent == Done => Missed = {}
=============================================================================
