----------------------------- MODULE KeepProofs -----------------------------
(* The change ledger's answer is complete, for any number of files, any cap  *)
(* and any queue, as long as the wall clock can be read when a watcher arms. *)
(* A recalled answer is current, for any number of files, workers and        *)
(* questions, any sizes and ceilings, as long as no directory is renamed;    *)
(* and what the keep counts as held is what it holds, renamed or not.        *)
EXTENDS Keep, FiniteSetTheorems, SequenceTheorems, WellFoundedInduction, TLAPS

------------------------------------------------------------------------------
(* The ledger. *)

(* The types the argument needs; no change or note is of the future. *)
LedgerTyped ==
    /\ clock \in Nat /\ floor_ns \in Nat
    /\ changed \in [Files -> Nat] /\ map \in [Files -> Nat]
    /\ \A f \in Files: changed[f] <= clock
    /\ kernel \subseteq Files \cup {Dir}

(* What the ledger knows of a change made since its floor: the record is still *)
(* queued, lost to an overflow that is, or noted at or after it.               *)
ChangesAccounted ==
    watched /\ prefix /\ ~doubt =>
        \A f \in Files \ carried: changed[f] >= floor_ns =>
            f \in kernel \/ overflow \/ map[f] >= changed[f]

LedgerInv == LedgerTyped /\ ChangesAccounted

(* Post, as the steps of the tree use it: a watched change is queued or the    *)
(* queue overflows, and nothing leaves the queue.                              *)
LEMMA PostKeeps ==
    ASSUME NEW e \in Files \cup {Dir}, Post(e), LedgerTyped
    PROVE  /\ kernel' \subseteq Files \cup {Dir}
           /\ watched' = watched
           /\ kernel \subseteq kernel' /\ (overflow => overflow')
           /\ watched => e \in kernel' \/ overflow'
  BY DEF Post, LedgerTyped, queue

(* A change to the files S, posted as e: the only file it leaves unaccounted  *)
(* for is one its directory carried.                                          *)
LEMMA ChangeKeeps ==
    ASSUME LedgerInv, NEW S \in SUBSET Files, NEW e \in Files \cup {Dir},
           e = Dir \/ S = {e}, Dir \notin Files, Change(S, e)
    PROVE  LedgerInv'
  <1> USE DEF LedgerInv
  <1>1. /\ UNCHANGED <<clock, prefix, floor_ns, doubt, blind, stamp, map>>
        /\ changed' = [f \in Files |-> IF f \in S THEN clock ELSE changed[f]]
        /\ carried' = IF e = Dir THEN carried \cup S ELSE carried \ S
        /\ Post(e)
    BY DEF Change, ledger
  <1>2. /\ kernel' \subseteq Files \cup {Dir}
        /\ watched' = watched
        /\ kernel \subseteq kernel' /\ (overflow => overflow')
        /\ watched => e \in kernel' \/ overflow'
    BY <1>1, PostKeeps
  <1>3. LedgerTyped'
    BY <1>1, <1>2 DEF LedgerTyped
  <1>4. ChangesAccounted'
    <2> SUFFICES ASSUME watched', prefix', ~doubt', NEW f \in Files \ carried',
                        changed'[f] >= floor_ns'
                 PROVE  f \in kernel' \/ overflow' \/ map'[f] >= changed'[f]
      BY DEF ChangesAccounted
    <2>1. CASE f \in S
      <3>1. e # Dir
        BY <1>1, <2>1
      <3>2. f = e
        BY <3>1, <2>1
      <3> QED  BY <3>2, <1>2
    <2>2. CASE f \notin S
      <3>1. f \notin carried /\ changed'[f] = changed[f]
        BY <2>2, <1>1
      <3> QED  BY <3>1, <1>1, <1>2 DEF ChangesAccounted
    <2> QED  BY <2>1, <2>2
  <1> QED  BY <1>3, <1>4

(* A note dates its path at the present, and what an eviction forgets lies     *)
(* below the raised floor.                                                     *)
LEMMA RecordKeeps ==
    ASSUME LedgerInv, NEW f \in Files, Record(f), prefix' = prefix, watched' = watched,
           kernel' = kernel \ {f}, overflow' = overflow,
           UNCHANGED <<clock, changed, carried>>
    PROVE  LedgerInv'
  <1> USE DEF LedgerInv
  <1>0. CASE doubt
    BY <1>0 DEF Record, LedgerTyped, ChangesAccounted
  <1>1. CASE ~doubt /\ map' = [map EXCEPT ![f] = clock] /\ UNCHANGED floor_ns
    <2>1. LedgerTyped'
      BY <1>1 DEF LedgerTyped
    <2>2. \A g \in Files: map'[g] = IF g = f THEN clock ELSE map[g]
      BY <1>1 DEF LedgerTyped
    <2>3. ChangesAccounted'
      BY <1>1, <2>2 DEF LedgerTyped, ChangesAccounted, Record
    <2> QED  BY <2>1, <2>3
  <1>2. ASSUME ~doubt, NEW cut \in Medians, Evict(f, cut)
        PROVE  LedgerInv'
    <2>1. cut \in Nat
      BY <1>2 DEF Medians, Noted, LedgerTyped
    <2>2. floor_ns' \in Nat /\ floor_ns' >= floor_ns /\ floor_ns' >= cut + 1
      BY <1>2, <2>1 DEF Evict, Later, LedgerTyped
    <2>3. /\ map' \in [Files -> Nat]
          /\ \A g \in Files: map'[g] = IF g = f THEN clock
                                       ELSE IF map[g] > cut THEN map[g] ELSE 0
      BY <1>2 DEF Evict, LedgerTyped, Unnoted
    <2>4. LedgerTyped'
      BY <2>2, <2>3 DEF LedgerTyped
    <2>5. ChangesAccounted'
      <3> SUFFICES ASSUME watched, prefix, NEW g \in Files \ carried,
                          changed[g] >= floor_ns'
                   PROVE  g \in kernel' \/ overflow \/ map'[g] >= changed[g]
        BY DEF ChangesAccounted
      <3>1. CASE g = f
        BY <3>1, <2>3 DEF LedgerTyped
      <3>2. CASE g # f
        <4>1. changed[g] \in Nat /\ map[g] \in Nat /\ floor_ns \in Nat
          BY DEF LedgerTyped
        <4>2. g \in kernel \/ overflow \/ map[g] >= changed[g]
          BY <1>2, <2>2, <4>1 DEF ChangesAccounted
        <4>3. map[g] >= changed[g] => map[g] > cut
          BY <2>1, <2>2, <4>1
        <4> QED  BY <3>2, <2>3, <4>2, <4>3
      <3> QED  BY <3>1, <3>2
    <2> QED  BY <2>4, <2>5
  <1> QED  BY <1>0, <1>1, <1>2 DEF Record

(* Arming raises the floor past every change made so far. *)
LEMMA ArmKeeps ==
    ASSUME LedgerInv, ~ClockFails, Arm
    PROVE  LedgerInv'
  <1>1. /\ clock' = clock + 1 /\ floor_ns' = clock + 1
        /\ UNCHANGED <<changed, map, kernel>>
    BY DEF Arm
  <1> QED  BY <1>1 DEF LedgerInv, LedgerTyped, ChangesAccounted

(* Every step of the tree, the watcher and the ledger keeps the accounts. *)
LEMMA AnnalsStep ==
    ASSUME LedgerInv, ~ClockFails, [AnnalsNext]_annals
    PROVE  LedgerInv'
  <1> USE AnnalsAssumption
  <1>1. Dir \notin Files
    BY DEF AnnalsAssumption, Dir
  <1>2. CASE ChangeFile
    BY <1>1, <1>2, ChangeKeeps DEF ChangeFile
  <1>3. CASE MoveDir
    BY <1>1, <1>3, ChangeKeeps DEF MoveDir, AnnalsAssumption
  <1>4. CASE Tick
    BY <1>4 DEF Tick, LedgerInv, LedgerTyped, ChangesAccounted, queue, ledger
  <1>5. CASE DeliverFile
    <2>1. PICK f \in kernel \cap Files: kernel' = kernel \ {f} /\ (Note(f) \/ Poison)
      BY <1>5 DEF DeliverFile
    <2>2. UNCHANGED <<tree, watched, overflow, prefix, blind>>
      BY <1>5 DEF DeliverFile
    <2>3. CASE Poison
      BY <2>1, <2>2, <2>3 DEF Poison, LedgerInv, LedgerTyped, ChangesAccounted, tree
    <2>4. CASE ~prefix /\ UNCHANGED <<doubt, stamp, map, floor_ns>>
      BY <2>1, <2>2, <2>4 DEF LedgerInv, LedgerTyped, ChangesAccounted, tree
    <2>5. CASE Record(f)
      BY <2>1, <2>2, <2>5, RecordKeeps DEF tree
    <2>6. CASE RecordFails(f)
      <3>1. map' \in [Files -> Nat]
        BY <2>6 DEF RecordFails, LedgerInv, LedgerTyped
      <3> QED  BY <2>1, <2>2, <2>6, <3>1 DEF RecordFails, LedgerInv, LedgerTyped, ChangesAccounted, tree
    <2> QED  BY <2>1, <2>3, <2>4, <2>5, <2>6 DEF Note
  <1>6. CASE DeliverDir
    <2>1. goBlind \/ UNCHANGED <<blind, doubt, stamp, map, floor_ns>>
      BY <1>6 DEF DeliverDir
    <2>2. kernel' = kernel \ {Dir} /\ UNCHANGED <<tree, watched, overflow, prefix>>
      BY <1>6 DEF DeliverDir
    <2> QED  BY <1>1, <2>1, <2>2 DEF goBlind, Poison, LedgerInv, LedgerTyped, ChangesAccounted, tree
  <1>7. CASE DeliverOverflow
    BY <1>7 DEF DeliverOverflow, goBlind, Poison, LedgerInv, LedgerTyped, ChangesAccounted, tree
  <1>8. CASE Arm
    BY <1>8, ArmKeeps
  <1>9. CASE Shed
    BY <1>9 DEF Shed, LedgerInv, LedgerTyped, ChangesAccounted, tree
  <1>10. CASE UNCHANGED annals
    BY <1>10 DEF annals, tree, queue, ledger, LedgerInv, LedgerTyped, ChangesAccounted
  <1> QED  BY <1>2, <1>3, <1>4, <1>5, <1>6, <1>7, <1>8, <1>9, <1>10 DEF AnnalsNext, Deliver

(* Annals.since, asked after a flush, never leaves out a file that changed,    *)
(* unless its directory carried it.                                            *)
THEOREM AnnalsSinceComplete == ~ClockFails => (AnnalsSpec => []SinceComplete)
  <1> SUFFICES ASSUME ~ClockFails PROVE AnnalsSpec => []SinceComplete
    OBVIOUS
  <1>1. AnnalsInit => LedgerInv
    BY AnnalsAssumption DEF AnnalsAssumption, AnnalsInit, LedgerInv, LedgerTyped, ChangesAccounted, Unopened, Unnoted
  <1>2. LedgerInv /\ [AnnalsNext]_annals => LedgerInv'
    BY AnnalsStep
  <1>3. LedgerInv => SinceComplete
    <2> SUFFICES ASSUME LedgerInv, Flushed, NEW t \in Instants, NEW ans \in since(t),
                        NEW f \in Files \ carried, changed[f] >= t
                 PROVE  f \in ans
      BY DEF SinceComplete
    <2>1. prefix /\ ~doubt /\ t >= floor_ns /\ ans = {g \in Noted: map[g] >= t}
      BY AnnalsAssumption DEF since, LedgerInv, LedgerTyped, Instants, AnnalsAssumption
    <2>2. t \in Nat /\ t >= 1 /\ floor_ns \in Nat /\ changed[f] \in Nat /\ map[f] \in Nat
      BY AnnalsAssumption DEF LedgerInv, LedgerTyped, Instants, AnnalsAssumption
    <2>3. map[f] >= changed[f]
      BY <2>1, <2>2 DEF LedgerInv, ChangesAccounted, Flushed
    <2> QED  BY <2>1, <2>2, <2>3 DEF Noted, Unnoted
  <1> QED  BY <1>1, <1>2, <1>3, PTL DEF AnnalsSpec

------------------------------------------------------------------------------
(* The keep. *)

(***************************************************************************)
(* The inductive invariant.                                                *)
(***************************************************************************)

(* The types the argument needs; without moves only files are queued. *)
CorpusTyped ==
    /\ changes \in Nat /\ corpus \in [Files -> Nat]
    /\ kernel \subseteq Files /\ stamp \in Nat
    /\ watched \in BOOLEAN /\ prefix \in BOOLEAN

Labels == {"idle", "flush", "epoch", "recall", "compute", "offer", "check", "retain", "serve"}
Partial == UNION {[S -> Nat]: S \in SUBSET Files}

WorkerTyped ==
    /\ pc \in [Workers -> Labels]
    /\ at \in [Workers -> SUBSET Nat]
    /\ answer \in [Workers -> Partial]
    /\ instants \in [Workers -> SUBSET [Files -> Nat]]
    /\ key \in [Workers -> Keys \cup {NoKey}]

(* Whose epoch and answer are set, and who needs the watcher to stay. *)
Posture(w) ==
    /\ pc[w] \in {"idle", "flush", "epoch"} => at[w] = {}
    /\ pc[w] \in {"idle", "flush", "epoch", "recall"} => answer[w] = <<>>
    /\ pc[w] \in {"recall", "compute", "offer", "check", "retain", "serve"} =>
           \E e \in 0 .. stamp: at[w] = {e}
    /\ pc[w] \in {"offer", "check", "retain"} => DOMAIN answer[w] = Files
    /\ pc[w] \in {"epoch", "recall", "check", "retain", "serve"} => watched
Postures == \A w \in Workers: Posture(w)

(* Under no coverage there is no epoch, and nothing was computed under one. *)
NothingUncovered == ~prefix => DOMAIN held = {} /\ \A w \in Workers: at[w] = {}

(* What was read under the epoch e is the corpus whenever the queue is empty,  *)
(* for as long as the epoch is e.                                             *)
Faithful(e, c) ==
    /\ e <= stamp
    /\ e = stamp => watched /\ (Flushed => \A f \in DOMAIN c: c[f] = corpus[f])

HeldFaithful ==
    \A k \in DOMAIN held: /\ held[k].epoch \in Nat /\ held[k].answer \in [Files -> Nat]
                          /\ Faithful(held[k].epoch, held[k].answer)
WorkFaithful == \A w \in Workers: \A e \in at[w]: Faithful(e, answer[w])

(* Whoever is being answered has seen the corpus as it stands. *)
Witnessed == \A w \in Workers: pc[w] # "idle" => corpus \in instants[w]

(* The epochs w would take an answer of, and the answers it might be given:    *)
(* those held, and those about to be.                                         *)
Expects(w) == IF pc[w] = "epoch" THEN {stamp} ELSE IF pc[w] = "recall" THEN at[w] ELSE {}
Offers(v, e) == e \in at[v] /\ (pc[v] = "retain" \/ (pc[v] = "check" /\ e = stamp))

HeldExpected ==
    \A w \in Workers: \A k \in DOMAIN held:
        held[k].epoch \in Expects(w) => held[k].answer \in instants[w]
OfferExpected ==
    \A w, v \in Workers: \A e \in Expects(w): Offers(v, e) => answer[v] \in instants[w]

IInv == /\ CorpusTyped /\ WorkerTyped /\ Postures /\ NothingUncovered
        /\ HeldFaithful /\ WorkFaithful /\ Witnessed
        /\ HeldExpected /\ OfferExpected /\ HeldAnswerCurrent

(***************************************************************************)
(* What the operators of the keep do, where the argument needs them.       *)
(***************************************************************************)

(* Storing an answer leaves every other as it was, or forgets it. *)
LEMMA StoreKeeps ==
    ASSUME NEW k, NEW e, Store(k, e)
    PROVE  /\ DOMAIN held' \subseteq DOMAIN held \cup {k}
           /\ \A j \in DOMAIN held': held'[j] = IF j = k THEN e ELSE held[j]
  <1>1. PICK S: held' = Restrict(With(held, k, e), DOMAIN With(held, k, e) \ S)
    BY DEF Store
  <1> QED  BY <1>1 DEF Restrict, With

LEMMA ReleaseKeeps ==
    ASSUME NEW k, Release(k)
    PROVE  DOMAIN held' \subseteq DOMAIN held /\ \A j \in DOMAIN held': held'[j] = held[j]
  BY DEF Release, Restrict

(* A worker reads one more file. *)
LEMMA ReadsOne ==
    ASSUME NEW c \in Partial, NEW f \in Files, corpus \in [Files -> Nat]
    PROVE  With(c, f, corpus[f]) \in Partial
  <1>1. PICK S \in SUBSET Files: c \in [S -> Nat]
    BY DEF Partial
  <1>2. With(c, f, corpus[f]) \in [S \cup {f} -> Nat]
    BY <1>1 DEF With
  <1> QED  BY <1>2 DEF Partial

(***************************************************************************)
(* Each conjunct is kept.                                                  *)
(***************************************************************************)

LEMMA CorpusKept ==
    ASSUME ~DirMoves, CorpusTyped, [Next]_vars  PROVE CorpusTyped'
  <1> USE DEF CorpusTyped
  <1>1. ASSUME NEW S \in SUBSET Files, NEW e \in Files, Change(S, e)  PROVE CorpusTyped'
    BY <1>1 DEF Change, Post, queue, ledger
  <1>2. ASSUME NEW f \in Files, Note(f) \/ Poison  PROVE stamp' \in Nat
    BY <1>2 DEF Note, Poison, Record, RecordFails
  <1>3. CASE Environment
    <2>1. CASE ChangeFile
      BY <1>1, <2>1 DEF ChangeFile
    <2>2. CASE Tick
      BY <2>2 DEF Tick, queue, ledger
    <2>3. CASE DeliverFile
      BY <1>2, <2>3 DEF DeliverFile, tree
    <2>4. CASE DeliverDir
      BY <2>4 DEF DeliverDir, goBlind, Poison, tree
    <2>5. CASE DeliverOverflow
      BY <2>5 DEF DeliverOverflow, goBlind, Poison, tree
    <2>6. CASE Arm
      <3>1. prefix' = prefix \/ prefix' = TRUE
        BY <2>6 DEF Arm
      <3>2. prefix' \in BOOLEAN /\ watched' \in BOOLEAN
        BY <2>6, <3>1 DEF Arm
      <3>3. UNCHANGED <<changes, corpus, kernel, stamp>>
        BY <2>6 DEF Arm
      <3> QED  BY <3>2, <3>3
    <2>7. CASE Shed
      <3>1. UNCHANGED <<changes, corpus, prefix>> /\ watched' \in BOOLEAN
        BY <2>7 DEF Shed, tree
      <3>2. kernel' = {} /\ stamp' = stamp + 1
        BY <2>7 DEF Shed
      <3> QED  BY <3>1, <3>2
    <2> QED  BY <1>3, <2>1, <2>2, <2>3, <2>4, <2>5, <2>6, <2>7 DEF Environment, MoveDir, Deliver
  <1>4. CASE UNCHANGED annals
    BY <1>4 DEF annals, tree, queue, ledger
  <1> QED  BY <1>3, <1>4 DEF Next, Work, Ask, Flush, ReadEpoch, recall, Compute, Check, retain, Serve,
                         Drop, vars

(* The environment in five kinds of step, as the rest of the argument sees it. *)
Written == UNCHANGED <<watched, stamp, prefix>> /\ (watched => ~Flushed')
Calm == UNCHANGED <<corpus, watched, kernel, overflow, stamp, prefix>>
Delivered == /\ UNCHANGED <<corpus, watched, prefix>>
             /\ stamp <= stamp' /\ (prefix => stamp < stamp')
Armed == /\ UNCHANGED <<corpus, stamp>> /\ ~watched /\ watched' /\ (prefix => prefix')
         /\ Quiescent
Lapsed == UNCHANGED <<corpus, prefix>> /\ ~watched' /\ stamp' = stamp + 1 /\ Quiescent

LEMMA Steps ==
    ASSUME ~DirMoves, CorpusTyped, Environment
    PROVE  Written \/ Calm \/ Delivered \/ Armed \/ Lapsed
  <1> USE DEF CorpusTyped
  <1>1. ASSUME DeliverFile  PROVE Delivered
    <2>1. PICK g \in Files: Note(g) \/ Poison
      BY <1>1 DEF DeliverFile
    <2>2. stamp <= stamp' /\ (prefix => stamp < stamp')
      BY <2>1 DEF Note, Poison, Record, RecordFails
    <2> QED  BY <1>1, <2>2 DEF DeliverFile, Delivered, tree
  <1>2. ASSUME DeliverDir PROVE Delivered
    BY <1>2, AnnalsAssumption DEF DeliverDir, Dir
  <1>3. ASSUME DeliverOverflow PROVE Delivered
    BY <1>3 DEF DeliverOverflow, Delivered, goBlind, Poison, tree
  <1>4. ASSUME NEW f \in Files, Change({f}, f)  PROVE Written
    <2>1. watched => f \in kernel' \/ overflow'
      BY <1>4 DEF Change, Post
    <2> QED  BY <1>4, <2>1 DEF Change, Post, Written, Flushed, queue, ledger
  <1>5. ASSUME Tick PROVE Calm
    BY <1>5 DEF Tick, Calm, queue, ledger
  <1>6. ASSUME Quiescent, Arm PROVE Armed
    <2>1. prefix' = prefix \/ prefix' = TRUE
      BY <1>6 DEF Arm
    <2> QED  BY <1>6, <2>1 DEF Arm, Armed
  <1>7. ASSUME Quiescent, Shed PROVE Lapsed
    BY <1>7 DEF Shed, Lapsed, tree
  <1> QED  BY <1>1, <1>2, <1>3, <1>4, <1>5, <1>6, <1>7
           DEF Environment, Deliver, ChangeFile, MoveDir

LEMMA FinishIdles ==
    ASSUME WorkerTyped, NEW w \in Workers, Finish(w)
    PROVE  /\ WorkerTyped'
           /\ pc'[w] = "idle" /\ at'[w] = {} /\ answer'[w] = <<>>
           /\ \A v \in Workers \ {w}:
                 /\ pc'[v] = pc[v] /\ at'[v] = at[v] /\ answer'[v] = answer[v]
                 /\ instants'[v] = instants[v]
  <1>1. <<>> \in [{} -> Nat]
    OBVIOUS
  <1>2. <<>> \in Partial
    BY <1>1 DEF Partial
  <1> QED  BY <1>2 DEF Finish, Goto, WorkerTyped, Labels

LEMMA WorkerKept ==
    ASSUME CorpusTyped, CorpusTyped', WorkerTyped, HeldFaithful, [Next]_vars
    PROVE  WorkerTyped'
  <1> USE DEF WorkerTyped, Labels, CorpusTyped, Goto
  <1>1. CASE Environment
    BY <1>1 DEF Environment, Remember
  <1>2. CASE Drop \/ UNCHANGED vars
    BY <1>2 DEF Drop, vars, worker
  <1>3. ASSUME NEW w \in Workers, Work(w)  PROVE WorkerTyped'
    <2>1. CASE \E k \in Keys: Ask(w, k)
      BY <2>1 DEF Ask
    <2>2. CASE Finish(w)
      BY <2>2, FinishIdles
    <2>3. CASE Flush(w) \/ ReadEpoch(w) \/ Check(w)
      BY <2>2, <2>3 DEF Flush, ReadEpoch, Check, epoch
    <2>4. CASE recall(w)
      <3>1. \A k \in DOMAIN held: held[k].answer \in Partial
        BY DEF HeldFaithful, Partial
      <3> QED  BY <2>4, <3>1 DEF recall
    <2>5. CASE \E f \in Files: Compute(w, f)
      <3>1. PICK f \in Files: Compute(w, f)
        BY <2>5
      <3>2. With(answer[w], f, corpus[f]) \in Partial
        BY ReadsOne
      <3> QED  BY <3>1, <3>2 DEF Compute
    <2>6. CASE \E size \in Sizes: retain(w, size)
      BY <2>2, <2>6 DEF retain
    <2>7. CASE Serve(w)
      BY <2>2, <2>7 DEF Serve
    <2> QED  BY <1>3, <2>1, <2>3, <2>4, <2>5, <2>6, <2>7 DEF Work
  <1> QED  BY <1>1, <1>2, <1>3 DEF Next

LEMMA PosturesKept ==
    ASSUME ~DirMoves, CorpusTyped, WorkerTyped, WorkerTyped', Postures, [Next]_vars
    PROVE  Postures'
  <1> SUFFICES ASSUME NEW v \in Workers PROVE Posture(v)'
    BY DEF Postures
  <1>0. Posture(v)
    BY DEF Postures
  <1> USE DEF CorpusTyped
  <1>1. CASE Environment
    <2>1. UNCHANGED <<pc, at, answer>>
      BY <1>1 DEF Environment, Remember
    <2>2. \A e \in 0 .. stamp: stamp <= stamp' /\ stamp' \in Nat => e \in 0 .. stamp'
      OBVIOUS
    <2>3. stamp <= stamp' /\ stamp' \in Nat
      BY <1>1, Steps, CorpusKept DEF Written, Calm, Delivered, Armed, Lapsed
    <2>4. watched => watched' \/ Quiescent
      BY <1>1, Steps DEF Written, Calm, Delivered, Armed, Lapsed
    <2> QED  BY <1>0, <2>1, <2>2, <2>3, <2>4 DEF Posture, Quiescent
  <1>2. CASE Drop \/ UNCHANGED vars
    BY <1>0, <1>2 DEF Drop, vars, worker, annals, queue, ledger, Posture
  <1>3. ASSUME NEW w \in Workers, Work(w)  PROVE Posture(v)'
    <2>0. UNCHANGED <<watched, stamp>>
      BY <1>3 DEF Work, Ask, Flush, ReadEpoch, recall, Compute, Check, retain, Serve,
                  annals, queue, ledger
    <2>1. CASE pc'[v] = pc[v] /\ at'[v] = at[v] /\ answer'[v] = answer[v]
      BY <1>0, <2>0, <2>1 DEF Posture
    <2>2. CASE Finish(w)
      BY <2>1, <2>2, FinishIdles DEF Posture
    <2>3. CASE v # w
      BY <1>3, <2>1, <2>2, <2>3
         DEF Work, Ask, Flush, ReadEpoch, recall, Compute, Check, retain, Serve, Goto, WorkerTyped
    <2>4. ASSUME v = w, ~Finish(w)  PROVE Posture(w)'
      <3> USE <1>0, <2>0, <2>4 DEF Posture, Goto, WorkerTyped
      <3>1. CASE \E k \in Keys: Ask(w, k)
        BY <3>1 DEF Ask
      <3>2. CASE Flush(w)
        BY <3>2 DEF Flush, Flushed
      <3>3. CASE ReadEpoch(w)
        BY <3>3 DEF ReadEpoch, epoch
      <3>4. CASE Check(w)
        BY <3>4 DEF Check
      <3>5. CASE recall(w)
        BY <3>5 DEF recall
      <3>6. CASE \E f \in Files: Compute(w, f)
        BY <3>6 DEF Compute, With
      <3> QED  BY <1>3, <3>1, <3>2, <3>3, <3>4, <3>5, <3>6 DEF Work, retain, Serve
    <2> QED  BY <2>2, <2>3, <2>4
  <1> QED  BY <1>1, <1>2, <1>3 DEF Next

(* A change is queued at once, and its delivery moves the epoch. *)
LEMMA FaithfulStands ==
    ASSUME ~DirMoves, CorpusTyped, prefix, Environment \/ UNCHANGED annals,
           NEW e \in Nat, NEW c, Faithful(e, c)
    PROVE  Faithful(e, c)'
  <1> USE DEF Faithful, CorpusTyped
  <1>1. CASE Environment
    <2>1. stamp' \in Nat
      BY <1>1, CorpusKept DEF Next
    <2>2. CASE Written
      BY <2>2 DEF Written, Flushed
    <2>3. CASE Calm
      BY <2>3 DEF Calm, Flushed
    <2>4. CASE Delivered \/ Lapsed
      <3>1. CASE Delivered
        BY <2>1, <3>1 DEF Delivered
      <3>2. CASE Lapsed
        BY <3>2 DEF Lapsed
      <3> QED  BY <2>4, <3>1, <3>2
    <2>5. CASE Armed
      <3>1. e # stamp
        BY <2>5 DEF Armed
      <3> QED  BY <2>5, <3>1 DEF Armed
    <2> QED  BY <1>1, Steps, <2>2, <2>3, <2>4, <2>5
  <1>2. CASE UNCHANGED annals
    BY <1>2 DEF annals, tree, queue, ledger, Flushed
  <1> QED  BY <1>1, <1>2

LEMMA WorkSpares ==
    ASSUME NEW w \in Workers, Work(w)  PROVE UNCHANGED annals
  BY DEF Work, Ask, Flush, ReadEpoch, recall, Compute, Check, retain, Serve

LEMMA NextIs ==
    ASSUME [Next]_vars
    PROVE  Environment \/ UNCHANGED annals
  BY WorkSpares DEF Next, Drop, vars

(* The only worker a step moves. *)
LEMMA OthersStand ==
    ASSUME WorkerTyped, NEW w \in Workers, Work(w), NEW v \in Workers, v # w
    PROVE  /\ pc'[v] = pc[v] /\ at'[v] = at[v] /\ answer'[v] = answer[v]
           /\ instants'[v] = instants[v]
  <1>1. CASE Finish(w)
    BY <1>1, FinishIdles
  <1> QED  BY <1>1 DEF Work, Ask, Flush, ReadEpoch, recall, Compute, Check, retain, Serve, Goto, WorkerTyped

(* What is held afterwards was held before, or is what a worker retained.      *)
LEMMA HeldFrom ==
    ASSUME WorkerTyped, Postures, [Next]_vars, NEW k \in DOMAIN held'
    PROVE  \/ k \in DOMAIN held /\ held'[k] = held[k]
           \/ \E w \in Workers: /\ pc[w] = "retain" /\ held'[k].epoch \in at[w]
                                /\ held'[k].answer = answer[w] /\ Finish(w)
  <1>1. CASE Environment \/ UNCHANGED vars
    BY <1>1 DEF Environment, Remember, keep, vars
  <1>2. CASE Drop
    BY <1>2 DEF Drop
  <1>3. ASSUME NEW w \in Workers, Work(w), ~UNCHANGED held
        PROVE  \/ k \in DOMAIN held /\ held'[k] = held[k]
               \/ pc[w] = "retain" /\ held'[k].epoch \in at[w] /\ held'[k].answer = answer[w] /\ Finish(w)
    <2>1. CASE recall(w)
      BY <1>3, <2>1, ReleaseKeeps DEF recall, keep
    <2>2. CASE \E size \in Sizes: retain(w, size)
      <3>1. PICK size \in Sizes: retain(w, size)
        BY <2>2
      <3>2. \E e \in at[w]: Store(key[w], [epoch |-> e, answer |-> answer[w], size |-> size])
        BY <1>3, <3>1 DEF retain, keep
      <3>3. PICK e \in at[w]: \E x: /\ x = [epoch |-> e, answer |-> answer[w], size |-> size]
                                   /\ Store(key[w], x)
        BY <3>2
      <3>4. PICK x: /\ x = [epoch |-> e, answer |-> answer[w], size |-> size]
                     /\ Store(key[w], x)
        BY <3>3
      <3>5. held'[k] = IF k = key[w] THEN x ELSE held[k]
        BY <3>4, StoreKeeps
      <3>6. k \in DOMAIN held \/ k = key[w]
        BY <3>4, StoreKeeps
      <3> QED  BY <3>1, <3>3, <3>4, <3>5, <3>6 DEF retain
    <2> QED  BY <1>3, <2>1, <2>2 DEF Work, Ask, Flush, ReadEpoch, Compute, Check, Serve, keep
  <1> QED  BY <1>1, <1>2, <1>3 DEF Next

LEMMA UncoveredKept ==
    ASSUME ~DirMoves, CorpusTyped, WorkerTyped, Postures, NothingUncovered, [Next]_vars
    PROVE  NothingUncovered'
  <1> SUFFICES ASSUME ~prefix'  PROVE DOMAIN held' = {} /\ \A v \in Workers: at'[v] = {}
    BY DEF NothingUncovered
  <1>1. ~prefix
    <2>1. CASE Environment
      BY <2>1, Steps DEF Written, Calm, Delivered, Armed, Lapsed
    <2> QED  BY <2>1, NextIs DEF annals, ledger
  <1>2. DOMAIN held = {} /\ \A v \in Workers: at[v] = {}
    BY <1>1 DEF NothingUncovered
  <1>3. DOMAIN held' = {}
    BY <1>2, HeldFrom
  <1>4. ASSUME NEW v \in Workers  PROVE at'[v] = {}
    <2>1. CASE Environment \/ Drop \/ UNCHANGED vars
      BY <1>2, <2>1 DEF Environment, Remember, Drop, worker, vars
    <2>2. ASSUME NEW w \in Workers, Work(w)  PROVE at'[v] = {}
      <3>1. CASE v # w
        BY <1>2, <2>2, <3>1, OthersStand
      <3>2. CASE Finish(w)
        BY <1>2, <3>1, <3>2, FinishIdles
      <3> QED  BY <1>1, <1>2, <2>2, <3>1, <3>2
               DEF Work, Ask, Flush, ReadEpoch, recall, Compute, Check, retain, Serve, epoch
    <2> QED  BY <2>1, <2>2 DEF Next
  <1> QED  BY <1>3, <1>4

LEMMA HeldKept ==
    ASSUME ~DirMoves, CorpusTyped, WorkerTyped, Postures, NothingUncovered, HeldFaithful,
           WorkFaithful, [Next]_vars
    PROVE  HeldFaithful'
  <1> SUFFICES ASSUME NEW k \in DOMAIN held'
               PROVE  /\ held'[k].epoch \in Nat /\ held'[k].answer \in [Files -> Nat]
                      /\ Faithful(held[k].epoch, held[k].answer)'
    BY DEF HeldFaithful
  <1> DEFINE e == held'[k].epoch
             c == held'[k].answer
  <1>1. prefix /\ e \in Nat /\ c \in [Files -> Nat] /\ Faithful(e, c)
    <2>1. CASE k \in DOMAIN held /\ held'[k] = held[k]
      BY <2>1 DEF HeldFaithful, NothingUncovered
    <2>2. ASSUME NEW w \in Workers, pc[w] = "retain", e \in at[w], c = answer[w]
          PROVE  prefix /\ e \in Nat /\ c \in [Files -> Nat] /\ Faithful(e, c)
      <3>1. prefix /\ e \in Nat /\ Faithful(e, c)
        BY <2>2 DEF WorkFaithful, NothingUncovered, WorkerTyped
      <3>2. answer[w] \in Partial /\ DOMAIN answer[w] = Files
        BY <2>2 DEF Postures, Posture, WorkerTyped
      <3>3. answer[w] \in [Files -> Nat]
        BY <3>2 DEF Partial
      <3> QED  BY <2>2, <3>1, <3>3
    <2> QED  BY <2>1, <2>2, HeldFrom
  <1>2. PICK d, b: d = e /\ b = c
    OBVIOUS
  <1>3. Faithful(d, b)
    BY <1>1, <1>2
  <1>4. Faithful(d, b)'
    BY <1>1, <1>2, <1>3, FaithfulStands, NextIs
  <1> QED  BY <1>1, <1>2, <1>4 DEF Faithful

LEMMA WorkFaithfulKept ==
    ASSUME ~DirMoves, CorpusTyped, WorkerTyped, Postures, NothingUncovered, HeldFaithful,
           WorkFaithful, [Next]_vars
    PROVE  WorkFaithful'
  <1> SUFFICES ASSUME NEW v \in Workers, NEW e \in at'[v]  PROVE Faithful(e, answer[v])'
    BY DEF WorkFaithful
  <1> USE DEF CorpusTyped
  <1>1. CASE at'[v] = at[v] /\ answer'[v] = answer[v]
    <2>1. prefix /\ e \in Nat /\ Faithful(e, answer[v])
      BY <1>1 DEF WorkFaithful, NothingUncovered, WorkerTyped
    <2>2. PICK c: c = answer[v]
      OBVIOUS
    <2>3. Faithful(e, c)'
      BY <2>1, <2>2, FaithfulStands, NextIs
    <2> QED  BY <1>1, <2>2, <2>3 DEF Faithful
  <1>2. CASE Environment \/ Drop \/ UNCHANGED vars
    BY <1>1, <1>2 DEF Environment, Remember, Drop, worker, vars
  <1>3. ASSUME NEW w \in Workers, Work(w)  PROVE Faithful(e, answer[v])'
    <2>0. UNCHANGED <<stamp, watched, kernel, overflow, corpus>>
      BY <1>3, WorkSpares DEF annals, tree, queue, ledger
    <2>1. CASE v # w
      BY <1>1, <1>3, <2>1, OthersStand
    <2>2. CASE Finish(w)
      BY <1>1, <2>1, <2>2, FinishIdles
    <2>3. ASSUME v = w, ReadEpoch(w), ~Finish(w)  PROVE Faithful(e, answer[v])'
      <3>1. e = stamp /\ watched /\ answer'[w] = <<>>
        BY <2>3 DEF ReadEpoch, epoch, WorkerTyped, Postures, Posture
      <3> QED  BY <2>0, <2>3, <3>1 DEF Faithful
    <2>4. ASSUME v = w, recall(w)  PROVE Faithful(e, answer[v])'
      <3>1. CASE answer'[w] = answer[w]
        BY <1>1, <2>4, <3>1 DEF recall
      <3>2. CASE key[w] \in DOMAIN held /\ held[key[w]].epoch \in at[w]
                 /\ answer'[w] = held[key[w]].answer
        <4>1. at[w] = {held[key[w]].epoch} /\ at'[w] = at[w]
          BY <2>4, <3>2 DEF recall, Postures, Posture
        <4> QED  BY <2>0, <2>4, <3>2, <4>1 DEF HeldFaithful, Faithful, Flushed
      <3> QED  BY <2>4, <3>1, <3>2 DEF recall, WorkerTyped
    <2>5. ASSUME v = w, NEW f \in Files, Compute(w, f)  PROVE Faithful(e, answer[v])'
      <3>1. e \in at[w] /\ Faithful(e, answer[w])
        BY <2>5 DEF Compute, WorkFaithful
      <3>2. answer'[w] = With(answer[w], f, corpus[f])
        BY <2>5 DEF Compute, WorkerTyped
      <3> QED  BY <2>0, <2>5, <3>1, <3>2 DEF With, Faithful, Flushed
    <2> QED  BY <1>1, <1>3, <2>1, <2>2, <2>3, <2>4, <2>5
             DEF Work, Ask, Flush, Check, retain, Serve, Goto
  <1> QED  BY <1>2, <1>3 DEF Next

LEMMA WitnessedKept ==
    ASSUME WorkerTyped, Witnessed, [Next]_vars
    PROVE  Witnessed'
  <1> SUFFICES ASSUME NEW v \in Workers, pc'[v] # "idle"  PROVE corpus' \in instants'[v]
    BY DEF Witnessed
  <1>1. CASE Environment
    BY <1>1 DEF Environment, Remember
  <1>2. CASE Drop \/ UNCHANGED vars
    BY <1>2 DEF Drop, worker, annals, tree, vars, Witnessed
  <1>3. ASSUME NEW w \in Workers, Work(w)  PROVE corpus' \in instants'[v]
    <2>0. UNCHANGED corpus
      BY <1>3, WorkSpares DEF annals, tree
    <2>1. CASE v # w
      BY <1>3, <2>0, <2>1, OthersStand DEF Witnessed
    <2>2. CASE Finish(w)
      BY <2>1, <2>2, FinishIdles
    <2>3. CASE \E k \in Keys: Ask(w, k)
      BY <2>0, <2>1, <2>3 DEF Ask, WorkerTyped
    <2> QED  BY <1>3, <2>0, <2>1, <2>2, <2>3
             DEF Work, Flush, ReadEpoch, recall, Compute, Check, retain, Serve, Witnessed
  <1> QED  BY <1>1, <1>2, <1>3 DEF Next

(* A worker that takes answers of the epoch e afterwards took them before, or  *)
(* has just seen the queue empty, or the epoch is a new one.                  *)
LEMMA ExpectsFrom ==
    ASSUME ~DirMoves, CorpusTyped, WorkerTyped, Postures, Witnessed, [Next]_vars,
           NEW w \in Workers, NEW e \in Expects(w)', prefix
    PROVE  /\ instants[w] \subseteq instants'[w]
           /\ \/ e \in Expects(w)
              \/ e = stamp /\ Flushed /\ corpus \in instants'[w]
              \/ stamp < e
  <1> USE DEF Expects, CorpusTyped
  <1>1. CASE Environment
    <2>1. pc'[w] = pc[w] /\ at'[w] = at[w] /\ instants[w] \subseteq instants'[w]
      BY <1>1 DEF Environment, Remember, WorkerTyped
    <2>2. ~Quiescent
      BY <2>1 DEF Quiescent
    <2>3. stamp' = stamp \/ stamp < stamp'
      BY <1>1, <2>2, Steps DEF Written, Calm, Delivered, Armed, Lapsed
    <2> QED  BY <2>1, <2>3
  <1>2. CASE Drop \/ UNCHANGED vars
    BY <1>2 DEF Drop, worker, annals, ledger, vars
  <1>3. ASSUME NEW u \in Workers, Work(u)
        PROVE  /\ instants[w] \subseteq instants'[w]
               /\ e \in Expects(w) \/ (e = stamp /\ Flushed /\ corpus \in instants'[w])
    <2>0. UNCHANGED stamp
      BY <1>3, WorkSpares DEF annals, ledger
    <2>1. CASE w # u
      BY <1>3, <2>0, <2>1, OthersStand
    <2>2. CASE Finish(u)
      BY <2>0, <2>1, <2>2, FinishIdles
    <2>3. CASE w = u /\ Flush(u) /\ ~Finish(u)
      BY <2>0, <2>3 DEF Flush, Goto, WorkerTyped, Witnessed
    <2>4. CASE w = u /\ ReadEpoch(u) /\ ~Finish(u)
      BY <2>0, <2>4 DEF ReadEpoch, epoch, Goto, WorkerTyped
    <2> QED  BY <1>3, <2>1, <2>2, <2>3, <2>4
             DEF Work, Ask, recall, Compute, Check, retain, Serve, Goto, WorkerTyped
  <1> QED  BY <1>1, <1>2, <1>3 DEF Next

(* So an answer that may come its way has been the corpus in its time. *)
LEMMA ExpectationStands ==
    ASSUME ~DirMoves, CorpusTyped, WorkerTyped, Postures, Witnessed, [Next]_vars,
           NEW w \in Workers, NEW e \in Nat, NEW c \in [Files -> Nat], prefix, Faithful(e, c),
           e \in Expects(w) => c \in instants[w], e \in Expects(w)'
    PROVE  c \in instants'[w]
  <1>1. CASE e \in Expects(w)
    BY <1>1, ExpectsFrom
  <1>2. CASE e = stamp /\ Flushed /\ corpus \in instants'[w]
    <2>1. \A f \in Files: c[f] = corpus[f]
      BY <1>2 DEF Faithful
    <2>2. c = corpus
      BY <2>1 DEF CorpusTyped
    <2> QED  BY <1>2, <2>2
  <1>3. ~(stamp < e)
    BY DEF Faithful, CorpusTyped
  <1> QED  BY <1>1, <1>2, <1>3, ExpectsFrom

LEMMA HeldExpectedKept ==
    ASSUME ~DirMoves, CorpusTyped, WorkerTyped, Postures, NothingUncovered, HeldFaithful,
           WorkFaithful, Witnessed, HeldExpected, OfferExpected, [Next]_vars
    PROVE  HeldExpected'
  <1> SUFFICES ASSUME NEW w \in Workers, NEW k \in DOMAIN held', held'[k].epoch \in Expects(w)'
               PROVE  held'[k].answer \in instants'[w]
    BY DEF HeldExpected
  <1>1. CASE k \in DOMAIN held /\ held'[k] = held[k]
    <2>1. /\ prefix /\ held[k].epoch \in Nat /\ held[k].answer \in [Files -> Nat]
          /\ Faithful(held[k].epoch, held[k].answer)
      BY <1>1 DEF HeldFaithful, NothingUncovered
    <2>2. held[k].epoch \in Expects(w) => held[k].answer \in instants[w]
      BY <1>1 DEF HeldExpected
    <2> QED  BY <1>1, <2>1, <2>2, ExpectationStands
  <1>2. ASSUME NEW v \in Workers, pc[v] = "retain", held'[k].epoch \in at[v],
               held'[k].answer = answer[v]
        PROVE  held'[k].answer \in instants'[w]
    <2> DEFINE e == held'[k].epoch
    <2>1. prefix /\ e \in Nat /\ Faithful(e, answer[v])
      BY <1>2 DEF WorkFaithful, NothingUncovered, WorkerTyped
    <2>2. answer[v] \in [Files -> Nat]
      BY <1>2 DEF Postures, Posture, WorkerTyped, Partial
    <2>3. e \in Expects(w) => answer[v] \in instants[w]
      BY <1>2 DEF OfferExpected, Offers
    <2> QED  BY <1>2, <2>1, <2>2, <2>3, ExpectationStands
  <1> QED  BY <1>1, <1>2, HeldFrom

LEMMA OfferExpectedKept ==
    ASSUME ~DirMoves, CorpusTyped, WorkerTyped, Postures, NothingUncovered, HeldFaithful,
           WorkFaithful, Witnessed, Witnessed', OfferExpected, [Next]_vars
    PROVE  OfferExpected'
  <1> SUFFICES ASSUME NEW w \in Workers, NEW v \in Workers, NEW e \in Expects(w)', Offers(v, e)'
               PROVE  answer'[v] \in instants'[w]
    BY DEF OfferExpected
  <1> USE DEF CorpusTyped
  <1>1. CASE Offers(v, e) /\ answer'[v] = answer[v]
    <2>1. prefix /\ e \in Nat /\ Faithful(e, answer[v])
      BY <1>1 DEF Offers, WorkFaithful, NothingUncovered, WorkerTyped
    <2>2. answer[v] \in [Files -> Nat]
      BY <1>1 DEF Offers, Postures, Posture, WorkerTyped, Partial
    <2>3. e \in Expects(w) => answer[v] \in instants[w]
      BY <1>1 DEF OfferExpected
    <2> QED  BY <1>1, <2>1, <2>2, <2>3, ExpectationStands
  <1>2. CASE pc'[v] = pc[v] /\ at'[v] = at[v] /\ answer'[v] = answer[v]
    <2>1. prefix /\ e \in Nat /\ e <= stamp
      BY <1>2 DEF Offers, WorkFaithful, NothingUncovered, WorkerTyped, Faithful
    <2>2. stamp <= stamp' /\ stamp' \in Nat
      BY Steps, NextIs, CorpusKept
         DEF Written, Calm, Delivered, Armed, Lapsed, annals, ledger
    <2>3. Offers(v, e)
      BY <1>2, <2>1, <2>2 DEF Offers
    <2> QED  BY <1>1, <1>2, <2>3
  <1>3. CASE Environment \/ Drop \/ UNCHANGED vars
    BY <1>2, <1>3 DEF Environment, Remember, Drop, worker, vars
  <1>4. ASSUME NEW u \in Workers, Work(u)  PROVE answer'[v] \in instants'[w]
    <2>0. UNCHANGED <<corpus, stamp>>
      BY <1>4, WorkSpares DEF annals, tree, ledger
    <2>1. CASE v # u
      BY <1>2, <1>4, <2>1, OthersStand
    <2>2. CASE v = u /\ Finish(u)
      BY <2>2, FinishIdles DEF Offers
    <2>3. CASE v = u /\ Flush(u) /\ ~Finish(u)
      <3>1. /\ pc[v] = "offer" /\ Flushed /\ e \in at[v] /\ e = stamp
            /\ answer'[v] = answer[v]
        BY <2>0, <2>3 DEF Flush, Offers, Goto, WorkerTyped
      <3>2. Faithful(e, answer[v])
        BY <3>1 DEF WorkFaithful
      <3>3. answer[v] \in [Files -> Nat]
        BY <3>1 DEF Postures, Posture, WorkerTyped, Partial
      <3>4. answer[v] = corpus
        BY <3>1, <3>2, <3>3 DEF Faithful
      <3>5. pc'[w] # "idle"
        BY DEF Expects
      <3> QED  BY <2>0, <3>1, <3>4, <3>5 DEF Witnessed
    <2>4. CASE v = u /\ Check(u) /\ ~Finish(u)
      <3>1. Offers(v, e) /\ answer'[v] = answer[v]
        BY <2>0, <2>4 DEF Check, Offers, epoch
      <3> QED  BY <1>1, <3>1
    <2> QED  BY <1>4, <2>1, <2>2, <2>3, <2>4
             DEF Work, Ask, ReadEpoch, recall, Compute, retain, Serve, Goto, WorkerTyped, Offers
  <1> QED  BY <1>3, <1>4 DEF Next

LEMMA ServedKept ==
    ASSUME WorkerTyped, Postures, HeldExpected, HeldAnswerCurrent, [Next]_vars
    PROVE  HeldAnswerCurrent'
  <1> SUFFICES ASSUME NEW w \in Workers, pc'[w] = "serve"  PROVE answer'[w] \in instants'[w]
    BY DEF HeldAnswerCurrent
  <1>1. CASE Environment
    BY <1>1 DEF Environment, Remember, HeldAnswerCurrent
  <1>2. CASE Drop \/ UNCHANGED vars
    BY <1>2 DEF Drop, worker, vars, HeldAnswerCurrent
  <1>3. ASSUME NEW u \in Workers, Work(u)  PROVE answer'[w] \in instants'[w]
    <2>1. CASE w # u
      BY <1>3, <2>1, OthersStand DEF HeldAnswerCurrent
    <2>2. CASE w = u /\ Finish(u)
      BY <2>2, FinishIdles
    <2>3. CASE w = u /\ recall(u)
      BY <2>3 DEF recall, Goto, WorkerTyped, HeldExpected, Expects
    <2> QED  BY <1>3, <2>1, <2>2, <2>3
             DEF Work, Ask, Flush, ReadEpoch, Compute, Check, retain, Serve, Goto, WorkerTyped
  <1> QED  BY <1>1, <1>2, <1>3 DEF Next

(***************************************************************************)
(* The theorem.                                                            *)
(***************************************************************************)

LEMMA Initially == Init => IInv
  <1> SUFFICES ASSUME Init PROVE IInv
    OBVIOUS
  <1>1. <<>> \in [{} -> Nat]
    OBVIOUS
  <1>2. <<>> \in Partial
    BY <1>1 DEF Partial
  <1>3. CorpusTyped
    BY DEF Init, AnnalsInit, CorpusTyped
  <1>4. WorkerTyped /\ Postures
    BY <1>2 DEF Init, WorkerTyped, Labels, Postures, Posture
  <1>5. NothingUncovered /\ HeldFaithful /\ WorkFaithful
    BY DEF Init, NothingUncovered, HeldFaithful, WorkFaithful
  <1> QED  BY <1>3, <1>4, <1>5
           DEF Init, IInv, Witnessed, HeldExpected, OfferExpected, Expects, HeldAnswerCurrent

(* A recalled answer is what the corpus held, all of it at one instant since   *)
(* the question was asked, provided no directory is renamed (its record never *)
(* reaches the ledger): keep.zig's recall and retain under concurrent workers. *)
THEOREM KeepAnswersCurrent == ~DirMoves => (Spec => []HeldAnswerCurrent)
  <1> SUFFICES ASSUME ~DirMoves PROVE Spec => []HeldAnswerCurrent
    OBVIOUS
  <1>1. IInv /\ [Next]_vars => IInv'
    BY CorpusKept, WorkerKept, PosturesKept, UncoveredKept, HeldKept, WorkFaithfulKept,
       WitnessedKept, HeldExpectedKept, OfferExpectedKept, ServedKept DEF IInv
  <1>2. IInv => HeldAnswerCurrent
    BY DEF IInv
  <1> QED  BY Initially, <1>1, <1>2, PTL DEF Spec

(* The ledger under the keep is the ledger of Annals: workers never touch it,  *)
(* and the daemon's rule for arming only leaves steps out.  So what is proved  *)
(* of `since` there holds here.                                               *)
THEOREM KeepRunsAnnals == Spec => AnnalsSpec
  <1>1. Init => AnnalsInit
    BY DEF Init
  <1>2. [Next]_vars => [AnnalsNext]_annals
    BY NextIs DEF Environment, AnnalsNext
  <1> QED  BY <1>1, <1>2, PTL DEF Spec, AnnalsSpec

(***************************************************************************)
(* The byte count.                                                         *)
(***************************************************************************)

(* The bytes of a finite set of answers, and of two that share none.       *)
Sized(h, S) == IsFiniteSet(S) /\ \A k \in S: h[k].size \in Nat

(* Counting from one.                                                          *)
LEMMA CountTo ==
    ASSUME NEW n \in Nat PROVE IsFiniteSet(1 .. n) /\ Cardinality(1 .. n) = n
  <1>1. IsFiniteSet(1 .. n) /\ Cardinality(1 .. n) = IF 1 > n THEN 0 ELSE n - 1 + 1
    BY FS_Interval
  <1>2. (IF 1 > n THEN 0 ELSE n - 1 + 1) = n
    OBVIOUS
  <1> QED
    BY <1>1, <1>2

(* Finitely many answers have finitely many bytes.                             *)
LEMMA BytesFinite ==
    ASSUME NEW h, NEW S, Sized(h, S)
    PROVE  IsFiniteSet(BytesOf(h, S)) /\ Bytes(h, S) \in Nat
  <1> DEFINE P(k) == {k} \X (1 .. h[k].size)
  <1>1. \A k \in S: IsFiniteSet(P(k))
    <2> SUFFICES ASSUME NEW k \in S PROVE IsFiniteSet(P(k))
      OBVIOUS
    <2>1. h[k].size \in Nat
      BY DEF Sized
    <2>2. IsFiniteSet(1 .. h[k].size)
      BY <2>1, FS_Interval
    <2>3. IsFiniteSet({k})
      BY FS_Singleton
    <2> QED
      BY <2>2, <2>3, FS_Product
  <1>2. IsFiniteSet({P(k): k \in S})
    <2> DEFINE T == {P(k): k \in S}
               f == [k \in S |-> P(k)]
    <2>1. f \in Surjection(S, T)
      BY DEF Surjection
    <2> HIDE DEF T, f
    <2>2. IsFiniteSet(T)
      BY <2>1, FS_Surjection DEF Sized
    <2> QED
      BY <2>2 DEF T
  <1>3. IsFiniteSet(UNION {P(k): k \in S})
    <2> DEFINE T == {P(k): k \in S}
    <2>1. \A t \in T: IsFiniteSet(t)
      BY <1>1
    <2> HIDE DEF T
    <2>2. IsFiniteSet(UNION T)
      BY <1>2, <2>1, FS_UNION DEF T
    <2> QED
      BY <2>2 DEF T
  <1>4. IsFiniteSet(BytesOf(h, S))
    BY <1>3 DEF BytesOf
  <1> QED
    BY <1>4, FS_CardinalityType DEF Bytes

(* Answers that share no key share no byte.                                    *)
LEMMA BytesAdd ==
    ASSUME NEW h, NEW S, NEW T, Sized(h, S), Sized(h, T), S \cap T = {}
    PROVE  Bytes(h, S \cup T) = Bytes(h, S) + Bytes(h, T)
  <1>1. IsFiniteSet(BytesOf(h, S)) /\ IsFiniteSet(BytesOf(h, T))
    BY BytesFinite
  <1>2. BytesOf(h, S \cup T) = BytesOf(h, S) \cup BytesOf(h, T)
    BY DEF BytesOf
  <1>3. BytesOf(h, S) \cap BytesOf(h, T) = {}
    <2>1. \A x \in BytesOf(h, S): x[1] \in S
      BY DEF BytesOf
    <2>2. \A x \in BytesOf(h, T): x[1] \in T
      BY DEF BytesOf
    <2> QED
      BY <2>1, <2>2
  <1>4. Cardinality(BytesOf(h, S) \cup BytesOf(h, T))
          = Cardinality(BytesOf(h, S)) + Cardinality(BytesOf(h, T)) - 0
    BY <1>1, <1>3, FS_Union, FS_EmptySet
  <1>5. Bytes(h, S) \in Nat /\ Bytes(h, T) \in Nat
    BY BytesFinite
  <1>6. Bytes(h, S \cup T) = Bytes(h, S) + Bytes(h, T) - 0
    BY <1>2, <1>4 DEF Bytes
  <1> QED
    BY <1>5, <1>6

(* One answer has as many bytes as its size says.                              *)
LEMMA BytesOne ==
    ASSUME NEW h, NEW k, h[k].size \in Nat
    PROVE  Bytes(h, {k}) = h[k].size
  <1>1. BytesOf(h, {k}) = {k} \X (1 .. h[k].size)
    BY DEF BytesOf
  <1>2. IsFiniteSet(1 .. h[k].size) /\ Cardinality(1 .. h[k].size) = h[k].size
    BY CountTo
  <1>3. IsFiniteSet({k}) /\ Cardinality({k}) = 1
    BY FS_Singleton
  <1>4. Cardinality({k} \X (1 .. h[k].size)) = Cardinality({k}) * Cardinality(1 .. h[k].size)
    BY <1>2, <1>3, FS_Product
  <1>5. Cardinality({k}) * Cardinality(1 .. h[k].size) = h[k].size
    BY <1>2, <1>3
  <1> QED
    BY <1>1, <1>4, <1>5 DEF Bytes

(* Nothing held, no bytes.                                                     *)
LEMMA BytesNone ==
    ASSUME NEW h PROVE Bytes(h, {}) = 0
  <1>1. BytesOf(h, {}) = {}
    BY DEF BytesOf
  <1> QED
    BY <1>1, FS_EmptySet DEF Bytes

(* The bytes depend on the sizes alone.                                        *)
LEMMA BytesSame ==
    ASSUME NEW h, NEW g, NEW S, \A k \in S: h[k].size = g[k].size
    PROVE  Bytes(h, S) = Bytes(g, S)
  <1>1. BytesOf(h, S) = BytesOf(g, S)
    BY DEF BytesOf
  <1> QED
    BY <1>1 DEF Bytes

(* A recency list: every held answer once. *)
Listing(q, S) ==
    /\ q \in Seq(S) /\ Range(q) = S
    /\ \A i, j \in 1 .. Len(q): q[i] = q[j] => i = j

(* A recency list is as long as the answers are many.                          *)
LEMMA ListingCounts ==
    ASSUME NEW q, NEW S, Listing(q, S)
    PROVE  IsFiniteSet(S) /\ Cardinality(S) = Len(q)
  <1>1. q \in [1 .. Len(q) -> S] /\ Len(q) \in Nat
    BY DEF Listing
  <1>2. q \in Injection(1 .. Len(q), S)
    BY <1>1 DEF Listing, Injection, IsInjective
  <1>3. q \in Surjection(1 .. Len(q), S)
    BY <1>1 DEF Listing, Surjection, Range
  <1>4. ExistsBijection(1 .. Len(q), S)
    BY <1>2, <1>3 DEF ExistsBijection, Bijection
  <1>5. IsFiniteSet(1 .. Len(q)) /\ Cardinality(1 .. Len(q)) = Len(q)
    BY <1>1, CountTo
  <1> QED
    BY <1>4, <1>5, FS_Bijection

(* Removing a key leaves a list of the others.                                 *)
LEMMA WithoutLists ==
    ASSUME NEW q, NEW S, NEW k, Listing(q, S)
    PROVE  Listing(Without(q, k), S \ {k})
  <1> DEFINE n == Len(q)
  <1>1. n \in Nat /\ q \in Seq(S) /\ DOMAIN q = 1 .. n /\ \A i \in 1 .. n: q[i] \in S
    BY DEF Listing
  <1>2. CASE ~ \E i \in 1 .. n: q[i] = k
    <2>1. Without(q, k) = q
      BY <1>2 DEF Without, RemoveFirst
    <2>2. k \notin S
      BY <1>1, <1>2 DEF Listing, Range
    <2> QED
      BY <2>1, <2>2 DEF Listing
  <1>3. ASSUME NEW i \in 1 .. n, q[i] = k
        PROVE  Listing(Without(q, k), S \ {k})
    <2> DEFINE a == SubSeq(q, 1, i - 1)
               b == SubSeq(q, i + 1, n)
    <2>1. {j \in 1 .. Len(q): q[j] = k} = {i}
      BY <1>1, <1>3 DEF Listing
    <2>2. SelectInSeq(q, LAMBDA v: v = k) = i
      <3>1. Min({i}) = i
        BY DEF Min
      <3> QED
        BY <2>1, <3>1 DEF SelectInSeq
    <2>3. Without(q, k) = a \o b
      BY <1>3, <2>2 DEF Without, RemoveFirst, RemoveAt
    <2>4. /\ a \in Seq(S) /\ Len(a) = i - 1 /\ \A j \in 1 .. i - 1: a[j] = q[j]
      BY <1>1
    <2>5. /\ b \in Seq(S) /\ Len(b) = n - i /\ \A j \in 1 .. n - i: b[j] = q[i + j]
      <3>1. i + 1 \in 1 .. n + 1 /\ n - (i + 1) + 1 = n - i
        BY <1>1
      <3>2. b = [j \in 1 .. n - i |-> q[i + j]]
        BY <1>1, <3>1
      <3>3. \A j \in 1 .. n - i: i + j \in 1 .. n
        BY <1>1
      <3>4. n - i \in Nat /\ \A j \in 1 .. n - i: q[i + j] \in S
        BY <1>1, <1>3, <3>3
      <3> HIDE DEF b, n
      <3>5. b \in Seq(S) /\ Len(b) = n - i
        BY <3>2, <3>4
      <3> QED
        BY <3>2, <3>5
    <2> HIDE DEF a, b, n
    <2>6. /\ a \o b \in Seq(S) /\ Len(a \o b) = n - 1
          /\ \A j \in 1 .. n - 1: (a \o b)[j] = q[IF j <= i - 1 THEN j ELSE j + 1]
      <3>1. /\ a \o b \in Seq(S) /\ Len(a \o b) = Len(a) + Len(b)
            /\ \A j \in 1 .. Len(a) + Len(b): (a \o b)[j] = IF j <= Len(a) THEN a[j] ELSE b[j - Len(a)]
        BY <2>4, <2>5, ConcatProperties
      <3>2. Len(a) + Len(b) = n - 1
        BY <1>1, <2>4, <2>5
      <3>3. ASSUME NEW j \in 1 .. n - 1
            PROVE  (a \o b)[j] = q[IF j <= i - 1 THEN j ELSE j + 1]
        <4>1. CASE j <= i - 1
          BY <1>1, <2>4, <3>1, <3>2, <3>3, <4>1
        <4>2. CASE j > i - 1
          <5> PICK m : m = j - (i - 1)
            OBVIOUS
          <5>1. m \in 1 .. n - i /\ i + m = j + 1
            BY <1>1, <3>3, <4>2
          <5>2. (a \o b)[j] = b[m]
            BY <1>1, <2>4, <3>1, <3>2, <3>3, <4>2
          <5>3. b[m] = q[i + m]
            BY <2>5, <5>1
          <5>4. ~(j <= i - 1)
            BY <1>1, <3>3, <4>2
          <5> QED
            BY <5>1, <5>2, <5>3, <5>4
        <4>3. j <= i - 1 \/ j > i - 1
          BY <1>1, <3>3
        <4> QED
          BY <4>1, <4>2, <4>3
      <3> QED
        BY <3>1, <3>2, <3>3
    <2> DEFINE c == a \o b
               s(j) == IF j <= i - 1 THEN j ELSE j + 1
    <2>7. c \in Seq(S) /\ Len(c) = n - 1 /\ n - 1 \in Nat /\ \A j \in 1 .. n - 1: c[j] = q[s(j)]
      BY <1>1, <2>6
    <2>8. /\ \A j \in 1 .. n - 1: s(j) \in 1 .. n /\ s(j) # i
          /\ \A j, l \in 1 .. n - 1: s(j) = s(l) => j = l
          /\ \A m \in 1 .. n: m # i => \E j \in 1 .. n - 1: s(j) = m
      <3>1. /\ \A j \in 1 .. n - 1: s(j) \in 1 .. n /\ s(j) # i
            /\ \A j, l \in 1 .. n - 1: s(j) = s(l) => j = l
        BY <1>1
      <3>2. ASSUME NEW m \in 1 .. n, m # i
            PROVE  \E j \in 1 .. n - 1: s(j) = m
        <4>1. CASE m < i
          <5>1. m \in 1 .. n - 1 /\ s(m) = m
            BY <1>1, <4>1
          <5> QED
            BY <5>1
        <4>2. CASE m > i
          <5> PICK l : l = m - 1
            OBVIOUS
          <5>1. l \in 1 .. n - 1 /\ s(l) = m
            BY <1>1, <4>2
          <5> QED
            BY <5>1
        <4> QED
          BY <1>1, <3>2, <4>1, <4>2
      <3> QED
        BY <3>1, <3>2
    <2> HIDE DEF c, s
    <2>9. \A j, l \in 1 .. n: q[j] = q[l] => j = l
      BY DEF Listing, n
    <2>10. \A j, l \in 1 .. n - 1: c[j] = c[l] => j = l
      BY <2>7, <2>8, <2>9
    <2>11. DOMAIN c = 1 .. n - 1 /\ \A j \in 1 .. n - 1: c[j] \in S \ {k}
      BY <1>1, <1>3, <2>7, <2>8, <2>9
    <2>12. c \in Seq(S \ {k})
      BY <2>7, <2>11
    <2>13. Range(c) = S \ {k}
      <3>1. ASSUME NEW x \in S \ {k} PROVE \E j \in 1 .. n - 1: c[j] = x
        <4>1. PICK m \in 1 .. n: q[m] = x
          BY <1>1 DEF Listing, Range
        <4>2. m # i
          BY <1>3, <4>1
        <4>3. PICK j \in 1 .. n - 1: s(j) = m
          BY <2>8, <4>2
        <4> QED
          BY <2>7, <4>1, <4>3
      <3> QED
        BY <2>11, <3>1 DEF Range
    <2> QED
      BY <2>3, <2>7, <2>10, <2>12, <2>13 DEF Listing, c
  <1> QED
    BY <1>2, <1>3

(* A key put at the recent end joins the list.                                 *)
LEMMA AppendLists ==
    ASSUME NEW q, NEW S, NEW k, Listing(q, S), k \notin S
    PROVE  Listing(Append(q, k), S \cup {k})
  <1> DEFINE n == Len(q)
             c == Append(q, k)
  <1>1. n \in Nat /\ q \in Seq(S) /\ DOMAIN q = 1 .. n /\ \A i \in 1 .. n: q[i] \in S
    BY DEF Listing
  <1>2. q \in Seq(S \cup {k})
    BY <1>1
  <1>3. /\ c \in Seq(S \cup {k}) /\ Len(c) = n + 1 /\ DOMAIN c = 1 .. n + 1
        /\ c[n + 1] = k /\ \A i \in 1 .. n: c[i] = q[i]
    BY <1>1, <1>2
  <1>4. \A i, j \in 1 .. n: q[i] = q[j] => i = j
    BY DEF Listing
  <1> HIDE DEF c, n
  <1>5. \A i, j \in 1 .. n + 1: c[i] = c[j] => i = j
    <2> SUFFICES ASSUME NEW i \in 1 .. n + 1, NEW j \in 1 .. n + 1, c[i] = c[j] PROVE i = j
      OBVIOUS
    <2>1. (i = n + 1 \/ i \in 1 .. n) /\ (j = n + 1 \/ j \in 1 .. n)
      BY <1>1
    <2>2. \A m \in 1 .. n: c[m] # k
      BY <1>1, <1>3
    <2> QED
      BY <1>3, <1>4, <2>1, <2>2
  <1>6. Range(c) = S \cup {k}
    <2>1. \A i \in 1 .. n + 1: c[i] \in S \cup {k}
      <3> SUFFICES ASSUME NEW i \in 1 .. n + 1 PROVE c[i] \in S \cup {k}
        OBVIOUS
      <3>1. i = n + 1 \/ i \in 1 .. n
        BY <1>1
      <3> QED
        BY <1>1, <1>3, <3>1
    <2>2. ASSUME NEW x \in S PROVE \E i \in 1 .. n + 1: c[i] = x
      <3>1. PICK i \in 1 .. n: q[i] = x
        BY <1>1 DEF Listing, Range
      <3>2. i \in 1 .. n + 1
        BY <1>1
      <3> QED
        BY <1>3, <3>1, <3>2
    <2>3. n + 1 \in 1 .. n + 1
      BY <1>1
    <2> QED
      BY <1>3, <2>1, <2>2, <2>3 DEF Range
  <1> QED
    BY <1>3, <1>5, <1>6 DEF Listing, c

(* The tail of a list, and the first place from which what is held fits.   *)
LEMMA TailLists ==
    ASSUME NEW q, NEW S, Listing(q, S), NEW i \in 1 .. Len(q)
    PROVE  /\ Listing(SubSeq(q, i, Len(q)), Range(SubSeq(q, i, Len(q))))
           /\ Len(SubSeq(q, i, Len(q))) = Len(q) - i + 1
           /\ Range(SubSeq(q, i, Len(q))) \subseteq S
  <1> DEFINE n == Len(q)
             c == SubSeq(q, i, n)
  <1>1. n \in Nat /\ q \in Seq(S) /\ \A j \in 1 .. n: q[j] \in S
    BY DEF Listing
  <1>2. c = [j \in 1 .. n - i + 1 |-> q[i + j - 1]] /\ n - i + 1 \in Nat
    BY <1>1
  <1>3. \A j \in 1 .. n - i + 1: i + j - 1 \in 1 .. n
    BY <1>1
  <1>4. c \in Seq(S) /\ Len(c) = n - i + 1 /\ DOMAIN c = 1 .. n - i + 1
        /\ \A j \in 1 .. n - i + 1: c[j] = q[i + j - 1]
    BY <1>1, <1>2, <1>3
  <1>5. \A j, l \in 1 .. n: q[j] = q[l] => j = l
    BY DEF Listing
  <1> HIDE DEF n, c
  <1>6. ASSUME NEW j \in 1 .. n - i + 1, NEW l \in 1 .. n - i + 1, c[j] = c[l] PROVE j = l
    <2>1. i + j - 1 = i + l - 1
      BY <1>3, <1>4, <1>5, <1>6
    <2> QED
      BY <1>1, <2>1 DEF n
  <1>7. Range(c) \subseteq S /\ c \in Seq(Range(c))
    <2>1. \A j \in 1 .. n - i + 1: c[j] \in S /\ c[j] \in Range(c)
      BY <1>1, <1>3, <1>4 DEF Range
    <2>2. Range(c) \subseteq S
      BY <1>4, <2>1 DEF Range
    <2>3. c \in Seq(Range(c))
      BY <1>4, <2>1
    <2> QED
      BY <2>2, <2>3
  <1> QED
    BY <1>4, <1>6, <1>7 DEF Listing, n, c

(* Trimming leaves a tail that fits, or the newest answer alone.               *)
LEMMA TrimFits ==
    ASSUME NEW q, NEW h, NEW S, Listing(q, S), Len(q) >= 1
    PROVE  \E i \in 1 .. Len(q):
              /\ Trim(q, h) = SubSeq(q, i, Len(q))
              /\ i = Len(q) \/ Bytes(h, Range(SubSeq(q, i, Len(q)))) <= Ceiling
  <1> DEFINE fits(i) == i = Len(q) \/ Bytes(h, Range(SubSeq(q, i, Len(q)))) <= Ceiling
             n == Len(q)
             T == {i \in 1 .. n: fits(i)}
             best(i) == fits(i) /\ \A j \in 1 .. i - 1: ~fits(j)
  <1>1. n \in Nat /\ n \in 1 .. n
    BY DEF Listing
  <1>2. Trim(q, h) = SubSeq(q, CHOOSE i \in 1 .. n: best(i), n)
    BY DEF Trim
  <1>3. fits(n)
    OBVIOUS
  <1> HIDE DEF fits, n
  <1>4. T \subseteq Nat /\ T # {}
    BY <1>1, <1>3
  <1> DEFINE Less == {ss \in Nat \X Nat: ss[1] < ss[2]}
  <1>5. \E m \in T: \A j \in T: ~(<<j, m>> \in Less)
    <2>1. IsWellFoundedOn(Less, Nat)
      BY NatLessThanWellFounded, Zenon DEF OpToRel
    <2> HIDE DEF T, Less
    <2> QED
      BY <1>4, <2>1, WFMin
  <1>6. PICK m \in T: \A j \in T: ~(j < m)
    BY <1>4, <1>5
  <1>7. m \in 1 .. n /\ fits(m)
    OBVIOUS
  <1>8. \A j \in 1 .. m - 1: ~fits(j)
    <2> SUFFICES ASSUME NEW j \in 1 .. m - 1, fits(j) PROVE FALSE
      OBVIOUS
    <2>1. j \in 1 .. n /\ j < m
      BY <1>1, <1>7
    <2> QED
      BY <1>6, <2>1
  <1> DEFINE i == CHOOSE i \in 1 .. n: best(i)
  <1>9. i \in 1 .. n /\ best(i)
    BY <1>7, <1>8
  <1> HIDE DEF i
  <1> QED
    BY <1>2, <1>9 DEF i, fits, n

(* What the count stands on: the list names every held answer once, each has a *)
(* size within the entry ceiling, and the count is what they have together.    *)
BytesInv ==
    /\ Listing(order, DOMAIN held)
    /\ \A k \in DOMAIN held: held[k].size \in Nat /\ held[k].size <= EntryCeiling
    /\ held_bytes = Bytes(held, DOMAIN held)
    /\ held_bytes > Ceiling => Len(order) = 1

(* The count is what the property asks for.                                    *)
LEMMA BytesInvImplies == BytesInv => BytesBalanced
  BY ListingCounts DEF BytesInv, BytesBalanced, Listing

(* Storing keeps the count, whether it replaces, appends or evicts.            *)
LEMMA StoreBalances ==
    ASSUME BytesInv, NEW k, NEW e, e.size \in Nat, e.size <= EntryCeiling, Store(k, e)
    PROVE  BytesInv'
  <1> DEFINE h == With(held, k, e)
             D == DOMAIN held
             long == Append(Without(order, k), k)
             q == Trim(long, h)
             R == Range(q)
             gone == DOMAIN h \ R
  <1>1. /\ DOMAIN h = D \cup {k} /\ h[k] = e /\ \A j \in D \ {k}: h[j] = held[j]
    BY DEF With
  <1>2. /\ Listing(order, D) /\ held_bytes = Bytes(held, D)
        /\ \A j \in D: held[j].size \in Nat /\ held[j].size <= EntryCeiling
    BY DEF BytesInv
  <1>3. /\ held' = Restrict(h, DOMAIN h \ gone) /\ order' = q
        /\ held_bytes' = held_bytes - Bytes(held, D \cap {k}) + e.size - Bytes(h, gone)
    BY DEF Store
  <1> HIDE DEF h, D
  <1>4. Listing(long, D \cup {k})
    <2>1. Listing(Without(order, k), D \ {k})
      BY <1>2, WithoutLists
    <2>2. Listing(long, (D \ {k}) \cup {k})
      BY <2>1, AppendLists
    <2>3. (D \ {k}) \cup {k} = D \cup {k}
      OBVIOUS
    <2> QED
      BY <2>2, <2>3
  <1>5. Len(long) \in Nat /\ Len(long) >= 1
    <2>1. Len(long) \in Nat /\ k \in Range(long)
      BY <1>4 DEF Listing
    <2>2. long # <<>>
      BY <2>1 DEF Range
    <2> QED
      BY <1>4, <2>1, <2>2 DEF Listing
  <1> HIDE DEF long
  <1>6. PICK i \in 1 .. Len(long):
           /\ q = SubSeq(long, i, Len(long))
           /\ i = Len(long) \/ Bytes(h, Range(SubSeq(long, i, Len(long)))) <= Ceiling
    BY <1>4, <1>5, TrimFits
  <1> HIDE DEF q
  <1>7. Listing(q, R) /\ Len(q) = Len(long) - i + 1 /\ R \subseteq D \cup {k}
    BY <1>4, <1>6, TailLists
  <1>8. i = Len(long) \/ Bytes(h, R) <= Ceiling
    BY <1>6
  <1> HIDE DEF R
  <1>9. DOMAIN h \ gone = R /\ R \cap gone = {} /\ R \cup gone = DOMAIN h
    BY <1>1, <1>7
  <1>10. DOMAIN held' = R /\ \A j \in R: held'[j] = h[j]
    BY <1>3, <1>9 DEF Restrict
  <1>11. \A j \in DOMAIN h: h[j].size \in Nat /\ h[j].size <= EntryCeiling
    BY <1>1, <1>2
  <1>12. IsFiniteSet(D) /\ IsFiniteSet(D \cup {k}) /\ IsFiniteSet(R)
    BY <1>2, <1>4, <1>7, ListingCounts
  <1>13. /\ Sized(h, R) /\ Sized(h, gone) /\ Sized(h, D \ {k}) /\ Sized(h, {k})
         /\ Sized(held, D \ {k}) /\ Sized(held, D \cap {k})
    <2>1. IsFiniteSet(gone) /\ IsFiniteSet(D \ {k}) /\ IsFiniteSet({k}) /\ IsFiniteSet(D \cap {k})
      BY <1>1, <1>12, FS_Subset
    <2> QED
      BY <1>1, <1>2, <1>7, <1>11, <1>12, <2>1 DEF Sized
  <1>14. Bytes(h, DOMAIN h) = Bytes(h, R) + Bytes(h, gone)
    BY <1>9, <1>13, BytesAdd
  <1>15. Bytes(h, DOMAIN h) = Bytes(held, D \ {k}) + e.size
    <2>1. (D \ {k}) \cup {k} = DOMAIN h
      BY <1>1
    <2>2. Bytes(h, DOMAIN h) = Bytes(h, D \ {k}) + Bytes(h, {k})
      BY <1>13, <2>1, BytesAdd
    <2>3. Bytes(h, {k}) = e.size
      BY <1>1, BytesOne
    <2>4. Bytes(h, D \ {k}) = Bytes(held, D \ {k})
      BY <1>1, BytesSame
    <2> QED
      BY <2>2, <2>3, <2>4
  <1>16. Bytes(held, D) = Bytes(held, D \ {k}) + Bytes(held, D \cap {k})
    <2>1. (D \ {k}) \cup (D \cap {k}) = D /\ (D \ {k}) \cap (D \cap {k}) = {}
      OBVIOUS
    <2> QED
      BY <1>13, <2>1, BytesAdd
  <1>17. /\ Bytes(h, R) \in Nat /\ Bytes(h, gone) \in Nat /\ Bytes(held, D \ {k}) \in Nat
         /\ Bytes(held, D \cap {k}) \in Nat
    BY <1>13, BytesFinite
  <1> HIDE DEF gone
  <1>18. held_bytes' = Bytes(h, R)
    BY <1>2, <1>3, <1>14, <1>15, <1>16, <1>17
  <1>19. Bytes(held', R) = Bytes(h, R)
    BY <1>10, BytesSame
  <1>20. held_bytes' > Ceiling => Len(order') = 1
    <2> SUFFICES ASSUME Bytes(h, R) > Ceiling PROVE Len(q) = 1
      BY <1>3, <1>18
    <2>1. i = Len(long)
      BY <1>8, <1>17, KeepAssumption DEF KeepAssumption
    <2> QED
      BY <1>5, <1>7, <2>1
  <1> QED
    BY <1>1, <1>3, <1>7, <1>10, <1>11, <1>18, <1>19, <1>20 DEF BytesInv

(* So does the release of a stale answer.                                      *)
LEMMA ReleaseBalances ==
    ASSUME BytesInv, NEW k \in DOMAIN held, Release(k)
    PROVE  BytesInv'
  <1> DEFINE D == DOMAIN held
  <1>1. /\ held' = Restrict(held, D \ {k}) /\ held_bytes' = held_bytes - held[k].size
        /\ order' = Without(order, k)
    BY DEF Release
  <1>2. /\ Listing(order, D) /\ held_bytes = Bytes(held, D) /\ (held_bytes > Ceiling => Len(order) = 1)
        /\ \A j \in D: held[j].size \in Nat /\ held[j].size <= EntryCeiling
    BY DEF BytesInv
  <1>3. k \in D
    OBVIOUS
  <1> HIDE DEF D
  <1>4. DOMAIN held' = D \ {k} /\ \A j \in D \ {k}: held'[j] = held[j]
    BY <1>1 DEF Restrict
  <1>5. Listing(order', D \ {k})
    BY <1>1, <1>2, WithoutLists
  <1>6. IsFiniteSet(D) /\ Cardinality(D) = Len(order) /\ IsFiniteSet(D \ {k})
        /\ Cardinality(D \ {k}) = Len(order')
    BY <1>2, <1>5, ListingCounts
  <1>7. Sized(held, D \ {k}) /\ Sized(held, {k})
    <2>1. IsFiniteSet({k})
      BY FS_Singleton
    <2> QED
      BY <1>2, <1>3, <1>6, <2>1 DEF Sized
  <1>8. Bytes(held, D) = Bytes(held, D \ {k}) + held[k].size
    <2>1. (D \ {k}) \cup {k} = D /\ (D \ {k}) \cap {k} = {}
      BY <1>3
    <2>2. Bytes(held, D) = Bytes(held, D \ {k}) + Bytes(held, {k})
      BY <1>7, <2>1, BytesAdd
    <2>3. Bytes(held, {k}) = held[k].size
      BY <1>2, <1>3, BytesOne
    <2> QED
      BY <2>2, <2>3
  <1>9. held_bytes' = Bytes(held, D \ {k}) /\ held_bytes' \in Nat /\ held_bytes' <= held_bytes
        /\ held_bytes \in Nat
    <2>1. Bytes(held, D \ {k}) \in Nat /\ held[k].size \in Nat
      BY <1>2, <1>3, <1>7, BytesFinite
    <2> QED
      BY <1>1, <1>2, <1>8, <2>1
  <1>10. Bytes(held', D \ {k}) = Bytes(held, D \ {k})
    BY <1>4, BytesSame
  <1>11. ~(held_bytes' > Ceiling)
    <2> SUFFICES ASSUME held_bytes' > Ceiling PROVE FALSE
      OBVIOUS
    <2>1. Ceiling \in Nat
      BY KeepAssumption DEF KeepAssumption
    <2>2. Len(order) = 1
      BY <1>2, <1>9, <2>1
    <2>3. Cardinality(D) = 1
      BY <1>6, <2>2
    <2>4. PICK x: D = {x}
      BY <1>6, <2>3, FS_Singleton
    <2>5. D \ {k} = {}
      BY <1>3, <2>4
    <2>6. held_bytes' = 0
      BY <1>9, <2>5, BytesNone
    <2> QED
      BY <2>1, <2>6
  <1> QED
    BY <1>2, <1>4, <1>5, <1>9, <1>10, <1>11 DEF BytesInv

(* The empty keep counts nothing.                                              *)
LEMMA BytesInitInv == Init => BytesInv
  <1> SUFFICES ASSUME Init PROVE BytesInv
    OBVIOUS
  <1>1. held = <<>> /\ order = <<>> /\ held_bytes = 0
    BY DEF Init
  <1>2. DOMAIN held = {}
    BY <1>1
  <1>3. Listing(order, {})
    BY <1>1 DEF Listing, Range
  <1>4. ~(0 > Ceiling)
    BY KeepAssumption DEF KeepAssumption
  <1> QED
    BY <1>1, <1>2, <1>3, <1>4, BytesNone DEF BytesInv

(* Every step of a worker, the watcher or the tree keeps the count.            *)
LEMMA BytesStepInv == BytesInv /\ [Next]_vars => BytesInv'
  <1> SUFFICES ASSUME BytesInv, [Next]_vars PROVE BytesInv'
    OBVIOUS
  <1>1. CASE UNCHANGED keep
    BY <1>1 DEF BytesInv, keep
  <1>2. ASSUME NEW w \in Workers, recall(w) PROVE BytesInv'
    <2>1. CASE Release(key[w]) /\ key[w] \in DOMAIN held
      BY <2>1, ReleaseBalances
    <2>2. CASE /\ key[w] \in DOMAIN held /\ order' = Append(Without(order, key[w]), key[w])
               /\ UNCHANGED <<held, held_bytes>>
      <3> PICK k: k = key[w]
        OBVIOUS
      <3> DEFINE D == DOMAIN held
      <3>1. Listing(order, D) /\ k \in D /\ order' = Append(Without(order, k), k)
        BY <2>2 DEF BytesInv
      <3> HIDE DEF D
      <3>2. Listing(order', (D \ {k}) \cup {k})
        BY <3>1, WithoutLists, AppendLists
      <3>3. (D \ {k}) \cup {k} = D
        BY <3>1
      <3>4. Listing(order', D)
        BY <3>2, <3>3
      <3>5. Len(order') = Len(order)
        BY <3>1, <3>4, ListingCounts
      <3> QED
        BY <2>2, <3>4, <3>5 DEF BytesInv, D
    <2> QED
      BY <1>1, <1>2, <2>1, <2>2 DEF recall
  <1>3. ASSUME NEW w \in Workers, NEW size \in Sizes, retain(w, size) PROVE BytesInv'
    <2>1. ASSUME NEW e \in at[w], size <= EntryCeiling,
                 Store(key[w], [epoch |-> e, answer |-> answer[w], size |-> size])
          PROVE  BytesInv'
      <3>1. size \in Nat
        BY KeepAssumption DEF KeepAssumption
      <3> PICK entry: entry = [epoch |-> e, answer |-> answer[w], size |-> size]
        OBVIOUS
      <3>2. entry.size = size
        OBVIOUS
      <3> PICK k: k = key[w]
        OBVIOUS
      <3>3. Store(k, entry)
        BY <2>1
      <3> QED
        BY <2>1, <3>1, <3>2, <3>3, StoreBalances
    <2> QED
      BY <1>1, <1>3, <2>1 DEF retain
  <1>4. CASE Drop
    <2>1. held' = <<>> /\ order' = <<>> /\ held_bytes' = 0
      BY <1>4 DEF Drop
    <2>2. DOMAIN held' = {}
      BY <2>1
    <2>3. Listing(order', {})
      BY <2>1 DEF Listing, Range
    <2>4. ~(0 > Ceiling)
      BY KeepAssumption DEF KeepAssumption
    <2>5. \A h: DOMAIN h = {} => Bytes(h, DOMAIN h) = 0
      BY BytesNone
    <2> QED
      BY <2>1, <2>2, <2>3, <2>4, <2>5 DEF BytesInv
  <1>5. CASE Environment
    BY <1>1, <1>5 DEF Environment, Remember
  <1>6. CASE UNCHANGED vars
    BY <1>1, <1>6 DEF vars
  <1>7. ASSUME NEW w \in Workers, Work(w) PROVE BytesInv'
    BY <1>1, <1>2, <1>3, <1>7 DEF Work, Ask, Flush, ReadEpoch, Compute, Check, Serve
  <1> QED
    BY <1>4, <1>5, <1>6, <1>7 DEF Next

(* The byte count behind the ceiling is exact through replacement, eviction,   *)
(* stale release and surrender, and the keep exceeds the ceiling only with a   *)
(* single answer: keep.zig's retain, evictOldest and release.                  *)
THEOREM KeepBytesBalanced == Spec => []BytesBalanced
  BY BytesInitInv, BytesStepInv, BytesInvImplies, PTL DEF Spec
=============================================================================
