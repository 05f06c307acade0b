------------------------------- MODULE Wheels -------------------------------
(***************************************************************************)
(* How the Python wheels are built: bindings/python/scripts/build_wheels.py*)
(* (the matrix of one release machine), hatch_build.py (one wheel, from    *)
(* its environment) and accel/toolchain.py (the accelerator).              *)
(*                                                                         *)
(* A wheel is what it holds and what its tag says.  Compilers, Zig and     *)
(* Apple's tools are external: what each run of them yields is chosen.     *)
(***************************************************************************)
EXTENDS Naturals, Sequences, FiniteSets

CONSTANTS Matrix,      \* MATRIX: a sequence of target names
          OsOf,        \* OsOf[t]: the operating system of target t
          EarlierRuns  \* BOOLEAN: the output directory may hold wheels of an earlier run

Targets == {Matrix[k] : k \in 1..Len(Matrix)}
NoTarget == "no target"
WheelsAssumption == /\ Matrix \in Seq(Targets) \ {<<>>} /\ NoTarget \notin Targets
                    /\ OsOf \in [Targets -> {"macos", "linux", "windows"}] /\ EarlierRuns \in BOOLEAN
ASSUME WheelsAssumption

VARIABLES host,     \* the target this machine is native for, or NoTarget
          dist,     \* wheels in the output directory
          left,     \* targets still to build
          wheelStage,    \* where the run stands
          lib,      \* the library just built: does it keep its platform floor
          only,     \* the targets were narrowed by --only
          failures, \* targets that failed
          status    \* how the run ended, or "running"

wheelVars == <<host, dist, left, wheelStage, lib, only, failures, status>>

Wheel(t, abi3, accel, fits, fresh) ==
  [target |-> t, abi3 |-> abi3, accel |-> accel, fits |-> fits, fresh |-> fresh]

WheelsInit ==
  /\ host \in Targets \cup {NoTarget}
  /\ dist \in {{}} \cup (IF EarlierRuns THEN {{Wheel(t, TRUE, TRUE, TRUE, FALSE)} : t \in Targets}
                                        ELSE {})
  /\ left = <<>> /\ wheelStage = "idle" /\ lib = TRUE
  /\ only = FALSE /\ failures = {} /\ status = "running"

(* native_target and toolchain.is_native: only the host's own target is    *)
(* compiled against its Python headers.                                    *)
Native(t) == t = host

(* What toolchain.compile yields after all compilers were tried: nothing,  *)
(* an extension that keeps the floor it was given, or (a compiler that     *)
(* passes over the flag) one for a newer system.                           *)
Made == {"none", "fits", "newer"}

---------------------------------------------------------------------------
(* chosen_targets; "native" on a machine outside the matrix is refused.    *)
Chosen(names) == SelectSeq(Matrix, LAMBDA t : t \in names \/ ("native" \in names /\ Native(t)))
Start(names) ==
  /\ wheelStage = "idle"
  /\ only' = (names # {})
  /\ IF "native" \in names /\ host = NoTarget
     THEN status' = "refused" /\ wheelStage' = "done" /\ UNCHANGED left
     ELSE /\ left' = IF names = {} THEN Matrix ELSE Chosen(names)
          /\ wheelStage' = "library" /\ UNCHANGED status
  /\ UNCHANGED <<host, dist, lib, failures>>

Fail(t) == /\ failures' = failures \cup {t}
           /\ left' = Tail(left) /\ wheelStage' = "library"
           /\ UNCHANGED <<dist, lib>>

(* build_library: Zig may fail, leave no artifact, or (what a floor check  *)
(* is for) link a library that asks for a newer system than its target.    *)
BuildLibrary ==
  /\ wheelStage = "library" /\ left # <<>>
  /\ \/ Fail(Head(left))
     \/ \E floor \in BOOLEAN :
           lib' = floor /\ wheelStage' = "portable" /\ UNCHANGED <<left, failures, dist>>
  /\ UNCHANGED <<host, only, status>>

---------------------------------------------------------------------------
(* toolchain.check_macos_floor: Apple's tools are asked about a macOS wheel *)
(* only, and must be there.                                                *)
FloorHolds(os, xcrun, floor) == os # "macos" \/ (xcrun /\ floor)

(* _build_accel on a machine whose compilers yield `made`: a file that     *)
(* keeps the floor ("fits"), one that does not ("newer"), or none.         *)
AccelOf(want, native, made) ==
  CASE want = "0"     -> "declined"
    [] ~native        -> IF want = "1" THEN "error" ELSE "declined"
    [] made = "none"  -> IF want = "1" THEN "error" ELSE "declined"
    [] OTHER          -> made

(* The tag initialize stamps.                                              *)
Tagged(accel) == accel \in {"fits", "newer"}

(* IrregexBuildHook.initialize: the wheel it yields, {} when it raises.    *)
Initialize(t, want, native, made, xcrun, floor) ==
  LET accel == AccelOf(want, native, made) IN
  IF ~FloorHolds(OsOf[t], xcrun, floor) \/ accel = "error" THEN {}
  ELSE IF accel \in {"fits", "newer"} /\ ~FloorHolds(OsOf[t], xcrun, accel = "fits") THEN {}
  ELSE {Wheel(t, Tagged(accel), accel \in {"fits", "newer"},
              floor /\ accel # "newer", TRUE)}

(* What build_wheel puts in the environment: the accelerator is asked for  *)
(* or declined, never left to the machine.                                 *)
Want(accel) == IF accel THEN "1" ELSE "0"

BuildWheel(accel) ==
  /\ wheelStage = (IF accel THEN "accelerated" ELSE "portable")
  /\ LET t == Head(left) IN
     \E made \in Made, xcrun \in BOOLEAN, backend \in BOOLEAN :
        LET got == IF backend THEN Initialize(t, Want(accel), Native(t), made, xcrun, lib) ELSE {}
        IN IF got = {} THEN Fail(t)
           ELSE /\ dist' = {w \in dist : ~\E g \in got : w.target = g.target /\ w.abi3 = g.abi3}
                           \cup got
                /\ IF ~accel /\ Native(t)
                   THEN wheelStage' = "accelerated" /\ UNCHANGED left
                   ELSE wheelStage' = "library" /\ left' = Tail(left)
                /\ UNCHANGED <<failures, lib>>
  /\ UNCHANGED <<host, only, status>>

(* accel_shortfall reads the whole output directory.                       *)
Shortfall == ~only /\ dist # {} /\ ~\E w \in dist : w.abi3

Report ==
  /\ wheelStage = "library" /\ left = <<>>
  /\ wheelStage' = "done"
  /\ status' = IF Shortfall \/ failures # {} THEN "failed" ELSE "released"
  /\ UNCHANGED <<host, dist, left, lib, only, failures>>

(* Somebody builds from source: the hook with its own defaults, on the     *)
(* machine itself.                                                         *)
SourceBuild(want) ==
  /\ wheelStage = "idle" /\ host # NoTarget
  /\ \E made \in Made, xcrun, floor \in BOOLEAN :
        dist' = dist \cup Initialize(host, want, TRUE, made, xcrun, floor)
  /\ wheelStage' = "done"
  /\ UNCHANGED <<host, left, lib, only, failures, status>>

WheelsNext ==
  \/ \E names \in {{}, {"native"}} \cup {{t} : t \in Targets} : Start(names)
  \/ BuildLibrary
  \/ \E accel \in BOOLEAN : BuildWheel(accel)
  \/ Report
  \/ \E want \in {"auto", "1", "0"} : SourceBuild(want)

---------------------------------------------------------------------------
(* A full matrix that exits 0 built every target's portable wheel, and an  *)
(* accelerated one beside them; a narrow one built what was asked for.     *)
(* Every wheel says in its tag whether it holds the accelerator, and one   *)
(* for macOS runs on the oldest system its tag promises.  An output        *)
(* directory with wheels of an earlier run is left out: there the          *)
(* accelerated wheel may be an old one (build_wheels.py 277-280, 310-313). *)
ReleaseWhole ==
  /\ (status = "released" /\ ~only /\ \A w \in dist : w.fresh) =>
        /\ \A t \in Targets : \E w \in dist : w.target = t /\ ~w.abi3
        /\ \E w \in dist : w.abi3
        /\ host # NoTarget
  /\ \A w \in dist : /\ w.abi3 = w.accel
                     /\ OsOf[w.target] = "macos" => w.fits
                     /\ w.abi3 /\ w.fresh => w.target = host
=============================================================================
