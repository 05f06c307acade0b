--------------------------- MODULE SeqlockProofs ---------------------------
(* Proofs about the freshness seqlock, for every counter width.              *)
EXTENDS Seqlock, TLAPS

(***************************************************************************)
(* The inductive invariant.                                                *)
(***************************************************************************)

(* What the arm and disarm orders keep true of the stream: the flag is up     *)
(* exactly while the stream is, and a witness never outlives its stream.      *)
StreamInv ==
    /\ active <=> control = "up"
    /\ clean => control \in {"up", "disarming"}
    /\ query # "idle" => control \in {"down", "up"}
    /\ watch # "idle" => Live

(* The counter has moved on from the snapshot by the events counted since. *)
Advanced ==
    laps < SeqSize =>
        seq = IF seq0 + laps >= SeqSize THEN seq0 + laps - SeqSize
                                        ELSE seq0 + laps

(* What a pass knows of the events that race it. *)
PassInv ==
    /\ query \in {"pass", "commit", "commit_seq", "commit_store"} /\ Live
         => changes = entered + laps + slip
    /\ query \in {"pass", "commit", "commit_seq"} => slip = 0 /\ Advanced
    /\ query \in {"commit_seq", "commit_store"} => active
    /\ query = "commit_store" /\ laps < SeqSize => laps = 0

(* Doubt declared after a commit trusted the watcher is still on its way to   *)
(* the counter, or has already been counted.                                 *)
DoubtInv ==
    /\ query = "commit_seq" /\ poison => watch = "doubted" \/ laps > 0
    /\ query = "commit_store" /\ poison
         => watch = "doubted" \/ laps > 0 \/ slip > 0

IInv == TypeOK /\ StreamInv /\ PassInv /\ DoubtInv
        /\ WitnessSound /\ DoubtShutsWitness

(***************************************************************************)
(* Initial states and steps.                                               *)
(***************************************************************************)

LEMMA InitIInv == ASSUME Init PROVE IInv
  <1>1. TypeOK
    <2>1. 0 \in Nat /\ 0 \in 0 .. SeqSize - 1
      BY SeqSizeAssumption
    <2>2. "idle" \in QueryStates /\ "down" \in ControlStates
      BY DEF QueryStates, ControlStates
    <2>3. QED
      BY <2>1, <2>2, Zenon DEF Init, TypeOK
  <1>2. StreamInv /\ PassInv /\ DoubtInv
    BY DEF Init, StreamInv, PassInv, DoubtInv
  <1>3. WitnessSound /\ DoubtShutsWitness
    BY DEF Init, WitnessSound, DoubtShutsWitness
  <1>4. QED
    BY <1>1, <1>2, <1>3 DEF IInv

(* An event reaching the counter keeps what a running pass knows. *)
LEMMA BumpAdvances ==
  ASSUME IInv, Bump, query' = query \/ (query = "reload" /\ query' = "reloaded")
  PROVE  /\ seq' \in 0 .. SeqSize - 1
         /\ changes' \in Nat /\ laps' \in Nat /\ slip' \in Nat
         /\ PassInv'
  <1> USE SeqSizeAssumption DEF IInv, TypeOK, Bump
  <1>1. seq' \in 0 .. SeqSize - 1 /\ changes' \in Nat /\ laps' \in Nat /\ slip' \in Nat
    OBVIOUS
  <1>2. query \in {"pass", "commit", "commit_seq"} => Advanced'
    BY DEF PassInv, Advanced
  <1>3. query \in {"pass", "commit", "commit_seq", "commit_store"} /\ Live
          => changes' = entered' + laps' + slip'
    BY DEF PassInv
  <1>4. query = "commit_store" /\ laps' < SeqSize => laps' = 0
    BY DEF PassInv
  <1>5. query \in {"pass", "commit", "commit_seq"} => slip' = 0
    BY DEF PassInv
  <1>6. PassInv'
    <2>1. /\ query' \in {"pass", "commit", "commit_seq", "commit_store"} /\ Live'
              => changes' = entered' + laps' + slip'
          /\ query' = "commit_store" /\ laps' < SeqSize => laps' = 0
      BY <1>3, <1>4 DEF Live
    <2>2. query' \in {"pass", "commit", "commit_seq"} => slip' = 0 /\ Advanced'
      BY <1>2, <1>5
    <2>3. query' \in {"commit_seq", "commit_store"} => active'
      BY DEF PassInv
    <2>4. QED
      BY <2>1, <2>2, <2>3 DEF PassInv
  <1>7. QED
    BY <1>1, <1>6

LEMMA WatchStep == ASSUME IInv, WatchNext PROVE IInv'
  <1> USE SeqSizeAssumption
  <1>1. CASE MarkDirty
    <2>1. PassInv' /\ TypeOK'
      BY <1>1, BumpAdvances DEF MarkDirty, Bump, IInv, TypeOK
    <2>2. StreamInv' /\ DoubtInv'
      BY <1>1 DEF MarkDirty, Bump, IInv, TypeOK, StreamInv, DoubtInv, Live
    <2>3. WitnessSound' /\ DoubtShutsWitness'
      BY <1>1 DEF MarkDirty, WitnessSound, DoubtShutsWitness, Settled
    <2>4. QED BY <2>1, <2>2, <2>3 DEF IInv
  <1>2. CASE ClearClean
    BY <1>2 DEF ClearClean, IInv, TypeOK, StreamInv, PassInv, DoubtInv, Advanced,
       WitnessSound, DoubtShutsWitness, Settled, Live, history
  <1>3. CASE MarkDoubtForever
    BY <1>3 DEF MarkDoubtForever, IInv, TypeOK, StreamInv, PassInv, DoubtInv,
       Advanced, WitnessSound, DoubtShutsWitness, Settled, Live, history
  <1>4. CASE DoubtDirty
    <2>1. PassInv' /\ TypeOK'
      BY <1>4, BumpAdvances DEF DoubtDirty, Bump, IInv, TypeOK
    <2>2. StreamInv' /\ DoubtInv'
      BY <1>4 DEF DoubtDirty, Bump, IInv, TypeOK, StreamInv, DoubtInv, Live
    <2>3. WitnessSound' /\ DoubtShutsWitness'
      BY <1>4 DEF DoubtDirty, WitnessSound, DoubtShutsWitness, Settled
    <2>4. QED BY <2>1, <2>2, <2>3 DEF IInv
  <1>5. QED
    BY <1>1, <1>2, <1>3, <1>4 DEF WatchNext

LEMMA ControlStep == ASSUME IInv, ControlNext PROVE IInv'
  <1> USE DEF Control, Quiescent, IInv, TypeOK, StreamInv, PassInv, DoubtInv,
      Advanced, WitnessSound, DoubtShutsWitness, Settled, Live, history, ControlStates
  <1>1. CASE Register BY <1>1 DEF Register
  <1>2. CASE ArmClear BY <1>2 DEF ArmClear
  <1>3. CASE ArmStore BY <1>3 DEF ArmStore
  <1>4. CASE DisarmStore BY <1>4 DEF DisarmStore
  <1>5. CASE DisarmClear BY <1>5 DEF DisarmClear
  <1>6. CASE Stop BY <1>6 DEF Stop
  <1>7. QED
    BY <1>1, <1>2, <1>3, <1>4, <1>5, <1>6 DEF ControlNext

LEMMA QueryStepKeeps == ASSUME IInv, QueryNext PROVE IInv'
  <1> USE SeqSizeAssumption
  <1>1. CASE ReloadBump
    <2>1. PassInv' /\ TypeOK'
      BY <1>1, BumpAdvances DEF ReloadBump, Bump, IInv, TypeOK, QueryStates
    <2>2. StreamInv' /\ DoubtInv'
      BY <1>1 DEF ReloadBump, Bump, IInv, TypeOK, StreamInv, DoubtInv, Live
    <2>3. WitnessSound' /\ DoubtShutsWitness'
      BY <1>1 DEF ReloadBump, WitnessSound, DoubtShutsWitness, Settled
    <2>4. QED BY <2>1, <2>2, <2>3 DEF IInv
  <1>2. CASE CommitSeq
    <2>1. seq = seq0 /\ laps < SeqSize /\ query = "commit_seq" => laps = 0
      BY DEF IInv, TypeOK, PassInv, Advanced
    <2>2. QED
      BY <1>2, <2>1 DEF CommitSeq, QueryStep, IInv, TypeOK, StreamInv, PassInv,
         DoubtInv, WitnessSound, DoubtShutsWitness, Settled, Live, Advanced,
         history, QueryStates
  <1>3. CASE CommitStore
    <2>1. ~fooled' => ~(slip > 0 \/ laps >= SeqSize)
      BY <1>3, Zenon DEF CommitStore
    <2>2. control = "up" /\ query = "commit_store" /\ covered' = entered
      BY <1>3 DEF CommitStore, QueryStep, IInv, StreamInv, PassInv
    <2>3. ~fooled' => laps = 0 /\ slip = 0 /\ covered' = changes
      BY <2>1, <2>2 DEF IInv, TypeOK, PassInv, Live
    <2>4. fooled' \in BOOLEAN
      BY <1>3, Zenon DEF CommitStore
    <2>5. QED
      BY <1>3, <2>3, <2>4 DEF CommitStore, QueryStep, IInv, TypeOK, StreamInv, PassInv,
         DoubtInv, WitnessSound, DoubtShutsWitness, Settled, Live, QueryStates
  <1>4. CASE enter
    BY <1>4 DEF enter, QueryStep, IInv, TypeOK, StreamInv, PassInv, DoubtInv,
       Advanced, WitnessSound, DoubtShutsWitness, Settled, Live, QueryStates
  <1>5. ASSUME Ask \/ ReloadClear \/ SkipEligible \/ SkipClean \/ PassDone
               \/ PassDeclined \/ CommitEligible
        PROVE  IInv'
    <2> USE DEF QueryStep, IInv, TypeOK, StreamInv, PassInv, DoubtInv, Advanced,
        WitnessSound, DoubtShutsWitness, Settled, Live, history, QueryStates, eligible
    <2>1. CASE Ask BY <2>1 DEF Ask
    <2>2. CASE ReloadClear BY <2>2 DEF ReloadClear
    <2>3. CASE SkipEligible BY <2>3 DEF SkipEligible
    <2>4. CASE SkipClean BY <2>4 DEF SkipClean
    <2>5. CASE PassDone BY <2>5 DEF PassDone
    <2>6. CASE PassDeclined BY <2>6 DEF PassDeclined
    <2>7. CASE CommitEligible BY <2>7 DEF CommitEligible
    <2>8. QED BY <1>5, <2>1, <2>2, <2>3, <2>4, <2>5, <2>6, <2>7
  <1>6. QED
    BY <1>1, <1>2, <1>3, <1>4, <1>5 DEF QueryNext

LEMMA UnwatchedStep == ASSUME IInv, UnwatchedChange PROVE IInv'
  BY DEF UnwatchedChange, atomics, IInv, TypeOK, StreamInv, PassInv, DoubtInv,
     Advanced, WitnessSound, DoubtShutsWitness, Settled, Live

LEMMA StutterStep == ASSUME IInv, UNCHANGED vars PROVE IInv'
  BY DEF vars, atomics, history, IInv, TypeOK, StreamInv, PassInv, DoubtInv,
     Advanced, WitnessSound, DoubtShutsWitness, Settled, Live

(***************************************************************************)
(* The theorems.                                                           *)
(***************************************************************************)

LEMMA Inductive == Spec => []IInv
  <1>1. IInv /\ [Next]_vars => IInv'
    BY WatchStep, ControlStep, QueryStepKeeps, UnwatchedStep, StutterStep DEF Next
  <1>2. QED
    BY InitIInv, <1>1, PTL DEF Spec

(* Every reachable state of the barrier is well typed, and the counter stays  *)
(* within the width of the atomic it lives in.                               *)
THEOREM SeqlockTypeOK == Spec => []TypeOK
  BY Inductive, PTL DEF IInv

(* The clean bit is a witness on its own: whatever the counter's width and    *)
(* however markDirty, markDoubtForever, arm, disarm, reload and commit        *)
(* interleave, a published clean accounts for every change, unless an event   *)
(* was counted between commit's re-read and its store or the counter wrapped. *)
THEOREM SeqlockWitnessSound == Spec => []WitnessSound
  BY Inductive, PTL DEF IInv

(* Coverage lost for good shuts the witness for good: no commit already under *)
(* way when markDoubtForever finishes leaves clean behind it.                 *)
THEOREM SeqlockDoubtShutsWitness == Spec => []DoubtShutsWitness
  BY Inductive, PTL DEF IInv
=============================================================================
