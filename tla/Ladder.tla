------------------------------- MODULE Ladder -------------------------------
(***************************************************************************)
(* bindings/python/irgx/runtime/analytic.py: an analytic question is       *)
(* answered in process, by a cached engine over its corpus, or one tier    *)
(* down by the product's own CLI (cold.py); either way the caller holds a  *)
(* Rows, pulled in batches and closed at its end.  A full cache closes the *)
(* engine opened first, whoever is inside it.                              *)
(*                                                                         *)
(* Callers are threads; the process has one working directory, which any   *)
(* of them may change.  An engine is the number it was opened under and    *)
(* stands for the directory and roots of its key.  What the library and    *)
(* its engine do (statuses, rows) is external.                             *)
(***************************************************************************)
EXTENDS Naturals, Sequences, FiniteSets

CONSTANTS Caller, Dir, Root, Face,
          PlaneOf,      \* what loading and verifying a face's library finds
          MaxEngines,   \* _MAX_ENGINES
          MaxOpened,    \* bound: engines ever opened
          NRows         \* rows of an answer

ASSUME LadderAssumption == /\ MaxEngines \in Nat \ {0} /\ MaxOpened \in Nat /\ NRows \in Nat
                           /\ PlaneOf \in [Face -> {"none", "drifted", "agrees"}]
                           /\ Dir # {}

VARIABLES cwd,       \* the process's directory
          planes,    \* _plane_cache, per face
          engines,   \* _engines: keys with their engine, oldest first
          openedRows, \* engines opened so far
          openNow,   \* engines not closed
          corpus,    \* corpus[e]: the key engine e was opened for
          raced,     \* the directory changed between a key's reading and its opening
          ask        \* the callers

ladderVars == <<cwd, planes, engines, openedRows, openNow, corpus, raced, ask>>

Key == [dir : Dir, root : Root]
NoKey == [dir |-> "none", root |-> "none"]
NoAsk == [at |-> "idle", face |-> "none", root |-> "none", meant |-> "none", key |-> NoKey, engine |-> 0,
          crossed |-> FALSE, left |-> 0, got |-> 0, cursor |-> "none", stats |-> "none",
          rowsOf |-> NoKey, freed |-> FALSE]

LadderTypeOK ==
  /\ cwd \in Dir
  /\ planes \in [Face -> {"unknown", "none", "agrees"}]
  /\ Len(engines) <= MaxEngines
  /\ raced \in BOOLEAN
  /\ openedRows \in 0 .. MaxOpened /\ openNow \subseteq 1 .. openedRows
  /\ corpus \in [1 .. MaxOpened -> Key \cup {NoKey}]
  /\ \A c \in Caller :
        /\ ask[c].at \in {"idle", "plane", "key", "engine", "run", "rows", "cold", "raised"}
        /\ ask[c].left \in 0 .. NRows /\ ask[c].got \in 0 .. NRows
        /\ ask[c].cursor \in {"none", "open", "closed"}
        /\ ask[c].stats \in {"none", "early", "final"}
        /\ ask[c].rowsOf \in Key \cup {NoKey} /\ ask[c].freed \in BOOLEAN

LadderInit ==
  /\ cwd = CHOOSE d \in Dir : TRUE
  /\ planes = [f \in Face |-> "unknown"]
  /\ engines = <<>> /\ openedRows = 0 /\ openNow = {}
  /\ corpus = [e \in 1 .. MaxOpened |-> NoKey]
  /\ raced = FALSE
  /\ ask = [c \in Caller |-> NoAsk]

\* the question leaves this tier: of what it was only its face is kept
Leaves(c, where) == [ask EXCEPT ![c] = [NoAsk EXCEPT !.at = where, !.face = ask[c].face]]

---------------------------------------------------------------------------
chdir(d) ==
  /\ d # cwd /\ cwd' = d
  /\ ask' = [c \in Caller |-> IF ask[c].at \in {"plane", "key", "engine"}
                              THEN [ask[c] EXCEPT !.crossed = TRUE] ELSE ask[c]]
  /\ raced' = (raced \/ \E c \in Caller : ask[c].at = "engine")
  /\ UNCHANGED <<planes, engines, openedRows, openNow, corpus>>

(* answer: the caller names a directory or means the process's own.        *)
Answer(c, face, root, dir) ==
  /\ ask[c].at \in {"idle", "cold", "raised"} \/ (ask[c].at = "rows" /\ ask[c].cursor = "closed")
  /\ ask' = [ask EXCEPT ![c] = [NoAsk EXCEPT !.at = "plane", !.face = face, !.root = root, !.meant = dir]]
  /\ UNCHANGED <<cwd, planes, engines, openedRows, openNow, corpus, raced>>

(* _plane: the library is loaded and verified once; a drifted one raises   *)
(* and is not remembered, so that it raises again.                         *)
(* A fault: the drift is remembered as an absence.                        *)
DriftRemembered(f) == [planes EXCEPT ![f] = IF PlaneOf[f] = "agrees" THEN "agrees" ELSE "none"]

Remembered(f) ==
  IF PlaneOf[f] = "drifted" THEN planes ELSE [planes EXCEPT ![f] = PlaneOf[f]]

Plane(c) ==
  /\ ask[c].at = "plane"
  /\ LET f == ask[c].face
         plane == IF planes[f] = "unknown" THEN PlaneOf[f] ELSE planes[f]
     IN  /\ planes' = IF planes[f] = "unknown" THEN Remembered(f) ELSE planes
         /\ ask' = IF plane = "drifted" THEN Leaves(c, "raised")
                   ELSE IF plane = "none" \/ ask[c].meant # cwd     \* _is_process_cwd
                        THEN Leaves(c, "cold") ELSE [ask EXCEPT ![c].at = "key"]
  /\ UNCHANGED <<cwd, engines, openedRows, openNow, corpus, raced>>

(* _engine: the key reads the directory again, then the lock is taken.     *)
KeyOf(c) == [dir |-> cwd, root |-> ask[c].root]

TakeKey(c) ==
  /\ ask[c].at = "key"
  /\ ask' = [ask EXCEPT ![c].key = KeyOf(c), ![c].at = "engine"]
  /\ UNCHANGED <<cwd, planes, engines, openedRows, openNow, corpus, raced>>

CachedEngine(c) == {i \in 1 .. Len(engines) : engines[i].key = ask[c].key}

Engine(c) ==
  /\ ask[c].at = "engine"
  /\ \/ \E i \in CachedEngine(c) :
          /\ ask' = [ask EXCEPT ![c].engine = engines[i].engine, ![c].at = "run"]
          /\ UNCHANGED <<engines, openedRows, openNow, corpus, raced>>
     \/ /\ CachedEngine(c) = {} /\ openedRows < MaxOpened
        /\ LET full == Len(engines) >= MaxEngines
               new  == openedRows + 1
           IN  /\ engines' = Append(IF full THEN Tail(engines) ELSE engines,
                                    [key |-> ask[c].key, engine |-> new])
               /\ openNow' = (IF full THEN openNow \ {Head(engines).engine} ELSE openNow) \cup {new}
               /\ openedRows' = new
               /\ corpus' = [corpus EXCEPT ![new] = [dir |-> cwd, root |-> ask[c].root]]
               /\ ask' = [ask EXCEPT ![c].engine = new, ![c].at = "run"]
     \/ /\ CachedEngine(c) = {}                              \* irgx_engine_open refused
        /\ ask' = Leaves(c, "cold")
        /\ UNCHANGED <<engines, openedRows, openNow, corpus, raced>>
  /\ UNCHANGED <<cwd, planes, raced>>

(* <face>_run: a cursor, a declinature, or a fault.  "run" lasts from the  *)
(* taking of the engine to the end of the call.  Of an engine that was     *)
(* closed meanwhile (363-364) it may make anything: rows that are of no    *)
(* corpus, any number, or the end of the process, which is no state of it. *)
RunEngine(c) ==
        /\ ask[c].at = "run"
        /\ \/ /\ ask[c].engine \in openNow
              /\ ask' = [ask EXCEPT ![c].at = "rows", ![c].cursor = "open", ![c].left = NRows,
                                    ![c].rowsOf = corpus[ask[c].engine]]
           \/ /\ ask[c].engine \notin openNow
              /\ \E rows \in 0 .. NRows :
                   ask' = [ask EXCEPT ![c].at = "rows", ![c].cursor = "open", ![c].left = rows,
                                      ![c].rowsOf = NoKey, ![c].freed = TRUE]
           \/ ask' = Leaves(c, "cold")
           \/ ask' = Leaves(c, "raised")
        /\ UNCHANGED <<cwd, planes, engines, openedRows, openNow, corpus, raced>>

---------------------------------------------------------------------------
(* Rows.close: the counters are read before the arena goes.                *)
SnapshotRows(c) == IF ask[c].left = 0 THEN "final" ELSE "early"

ClosedRows(c, state) ==
  [ask EXCEPT ![c] = [NoAsk EXCEPT !.at = state, !.face = ask[c].face, !.cursor = "closed",
                                   !.stats = SnapshotRows(c), !.left = ask[c].left,
                                   !.got = ask[c].got, !.freed = ask[c].freed]]

(* batches: a pull of up to n rows; the end of the stream and a fault both *)
(* close, and so does a caller that abandons it.  The rows are in an arena *)
(* of their own (surface/ffi/answer.zig), so that an engine closed under   *)
(* them, though the header forbids it, leaves them as they are.            *)
Pull(c, n) ==
  /\ ask[c].at = "rows" /\ ask[c].cursor = "open"
  /\ LET took == IF ask[c].left < n THEN ask[c].left ELSE n
     IN  ask' = IF took = 0 THEN ClosedRows(c, "rows")
                ELSE [ask EXCEPT ![c].left = @ - took, ![c].got = @ + took]
  /\ UNCHANGED <<cwd, planes, engines, openedRows, openNow, corpus, raced>>

Abandon(c) ==
  /\ ask[c].at = "rows" /\ ask[c].cursor = "open"
  /\ \E state \in {"rows", "raised"} : ask' = ClosedRows(c, state)
  /\ UNCHANGED <<cwd, planes, engines, openedRows, openNow, corpus, raced>>

LadderNext ==
  \/ \E d \in Dir : chdir(d)
  \/ \E c \in Caller :
       \/ \E face \in Face, root \in Root, dir \in Dir : Answer(c, face, root, dir)
       \/ Plane(c) \/ TakeKey(c) \/ Engine(c) \/ RunEngine(c) \/ Abandon(c)
       \/ \E n \in 1 .. NRows : Pull(c, n)

---------------------------------------------------------------------------
(* The corpus that answers is the one the caller meant, its directory and  *)
(* its roots, unless the directory was changed while the question was on   *)
(* its way, or has ever been changed between the reading of a key and the  *)
(* opening under it: that engine stays in the cache under a directory it   *)
(* is not of (analytic.py 346-366); or unless the engine was closed while  *)
(* the question was put to it (363-364).                                   *)
CorpusRight ==
  \A c \in Caller : ~ask[c].crossed /\ ~raced =>
     LET meant == [dir |-> ask[c].meant, root |-> ask[c].root]
     IN  /\ ask[c].at = "run" => corpus[ask[c].engine] = meant
         /\ ask[c].cursor = "open" /\ ~ask[c].freed => ask[c].rowsOf = meant

(* Rows of a library whose schemas have moved are never decoded and never  *)
(* replaced in silence by the other tier: every question of its face       *)
(* raises, the second one as well as the first (analytic.py 283-315).      *)
DriftLoud ==
  \A c \in Caller : ask[c].face # "none" /\ PlaneOf[ask[c].face] = "drifted" =>
     ask[c].at \in {"idle", "plane", "raised"}

(* A stream that ended gave every row once, and its statistics are those   *)
(* of the whole answer: they are read while the cursor is still open       *)
(* (analytic.py 117-193, 406-445).                                         *)
RowsWhole ==
  \A c \in Caller : ask[c].cursor # "none" =>
     /\ ~ask[c].freed => ask[c].left + ask[c].got = NRows
     /\ ask[c].cursor = "closed" /\ ask[c].left = 0 => ask[c].stats = "final"

(* What the code gives of the header's rule: the engine of a call or of    *)
(* open rows stands until MaxEngines others have been opened after it, by  *)
(* whatever callers, and only a call that came to that is of a freed one.  *)
EngineStands ==
  \A c \in Caller :
     /\ ask[c].at = "run" \/ ask[c].cursor = "open" =>
          ask[c].engine \in openNow \/ ask[c].engine + MaxEngines <= openedRows
     /\ ask[c].cursor = "open" /\ ask[c].freed => ask[c].engine \notin openNow

(* The rule itself: an engine is closed only when nobody is inside it and  *)
(* its cursors are closed (include/irgx.h 1008).  The code breaks it.      *)
CursorsFirst ==
  \A c \in Caller : ask[c].at = "run" \/ ask[c].cursor = "open" => ask[c].engine \in openNow
=============================================================================
