------------------------------- MODULE Loader -------------------------------
(***************************************************************************)
(* bindings/python/irgx/runtime/loader.py: the registry of product faces   *)
(* and the once-per-process opening of their libraries.                    *)
(*                                                                         *)
(* A face is registered by the package that owns it, possibly while        *)
(* another thread already asks for it.  What decides an opening besides    *)
(* the registration (the opt-out knob, the files on disk, cffi, the        *)
(* library's ABI version) is fixed for the process: Obstacle says, per     *)
(* face, the first thing in _open's order that is in its way, or "clear".  *)
(***************************************************************************)
EXTENDS Naturals, FiniteSets

CONSTANTS Asker,      \* threads
          Faces,       \* names of faces
          Terms,      \* registrations a package may make: spec of a face
          Obstacle    \* Obstacle[f]: what stands in the way of face f

Obstacles == {"no library", "opted out", "absent", "no cffi", "no dlopen", "drift", "clear"}
Unresolved == "unset"    \* a name no package registered; not yet asked for
LoaderAssumption == /\ IsFiniteSet(Faces) /\ Obstacle \in [Faces -> Obstacles]
                    /\ Unresolved \notin Asker \cup Faces \cup Terms
ASSUME LoaderAssumption

VARIABLES faces,      \* _faces: name -> the terms registered
          loaded,     \* _loaded: name -> "none" or "pair", Unresolved before the first ask
          lock,       \* _load_lock: who holds it
          asking,     \* what each thread asks for, and how far it has got
          opens,      \* how often each face's library was opened
          substrate,  \* libraries kept alive in _substrate
          requested,      \* faces some thread asked for before they were registered
          conflict    \* a registration was refused

loaderVars == <<faces, loaded, lock, asking, opens, substrate, requested, conflict>>

LoaderTypeOK ==
  /\ faces \in [Faces -> Terms \cup {Unresolved}]
  /\ loaded \in [Faces -> {Unresolved, "none", "pair"}]
  /\ lock \in Asker \cup {Unresolved}
  /\ asking \in [Asker -> [face : Faces \cup {Unresolved},
                           step : {"idle", "wait", "check", "open", "done"},
                           got  : {Unresolved, "none", "pair"}]]
  /\ opens \in [Faces -> Nat]
  /\ substrate \in Nat
  /\ requested \subseteq Faces
  /\ conflict \in BOOLEAN

NotAsking == [face |-> Unresolved, step |-> "idle", got |-> Unresolved]

LoaderInit ==
  /\ faces = [f \in Faces |-> Unresolved]
  /\ loaded = [f \in Faces |-> Unresolved]
  /\ lock = Unresolved
  /\ asking = [a \in Asker |-> NotAsking]
  /\ opens = [f \in Faces |-> 0]
  /\ substrate = 0
  /\ requested = {}
  /\ conflict = FALSE

---------------------------------------------------------------------------
(* The same terms again are no change; other terms for a name are refused. *)
register(f, terms) ==
  /\ IF faces[f] \notin {Unresolved, terms}
     THEN conflict' = TRUE /\ UNCHANGED faces
     ELSE faces' = [faces EXCEPT ![f] = terms] /\ UNCHANGED conflict
  /\ UNCHANGED <<loaded, lock, asking, opens, substrate, requested>>

(* load, its first look without the lock.                                  *)
Load(a, f) ==
  /\ asking[a].step \in {"idle", "done"}
  /\ asking' = [asking EXCEPT ![a] =
        IF loaded[f] # Unresolved THEN [face |-> f, step |-> "done", got |-> loaded[f]]
                                  ELSE [face |-> f, step |-> "wait", got |-> Unresolved]]
  /\ UNCHANGED <<faces, loaded, lock, opens, substrate, requested, conflict>>

Acquire(a) ==
  /\ asking[a].step = "wait" /\ lock = Unresolved
  /\ lock' = a
  /\ asking' = [asking EXCEPT ![a].step = "check"]
  /\ UNCHANGED <<faces, loaded, opens, substrate, requested, conflict>>

(* A fault: no second look.                                                *)
RecheckNever(a, f) == FALSE

(* The second look, under it; the face's terms are read here.              *)
Recheck(a, f) == loaded[f] # Unresolved

CheckFace(a) ==
      /\ asking[a].step = "check"
      /\ LET f == asking[a].face IN
         IF Recheck(a, f)
         THEN /\ lock' = Unresolved
              /\ asking' = [asking EXCEPT ![a] = [@ EXCEPT !.step = "done", !.got = loaded[f]]]
              /\ UNCHANGED <<loaded, opens, substrate, requested>>
         ELSE /\ asking' = [asking EXCEPT ![a] = [@ EXCEPT !.step = "open",
                                                  !.got = IF faces[f] = Unresolved THEN "none" ELSE Unresolved]]
              /\ requested' = IF faces[f] = Unresolved THEN requested \cup {f} ELSE requested
              /\ UNCHANGED <<lock, loaded, opens, substrate>>
      /\ UNCHANGED <<faces, conflict>>

(* _open: everything in the way answers None.  The engine's own library    *)
(* is opened first and kept, also when the product's then is not.          *)
Reachable(f, what) ==
    \/ Obstacle[f] = "clear"
    \/ Obstacle[f] = "drift" /\ what \in {"substrate", "product"}
    \/ Obstacle[f] = "no dlopen" /\ what = "substrate"

(* A fault: the library's version is not compared.                         *)
OpenedDrifted(f) == IF Obstacle[f] \in {"drift", "clear"} THEN "pair" ELSE "none"

Opened(f) == IF Obstacle[f] = "clear" THEN "pair" ELSE "none"

OpenPair(a) ==
  /\ asking[a].step = "open"
  /\ LET f    == asking[a].face
         miss == asking[a].got = "none"
         got  == IF miss THEN "none" ELSE Opened(f)
     IN  /\ substrate' = IF ~miss /\ Reachable(f, "substrate") THEN substrate + 1 ELSE substrate
         /\ opens' = IF ~miss /\ Reachable(f, "product") THEN [opens EXCEPT ![f] = @ + 1] ELSE opens
         /\ loaded' = [loaded EXCEPT ![f] = got]
         /\ asking' = [asking EXCEPT ![a] = [@ EXCEPT !.step = "done", !.got = got]]
  /\ lock' = Unresolved
  /\ UNCHANGED <<faces, requested, conflict>>

LoaderNext ==
  \/ \E f \in Faces, terms \in Terms : register(f, terms)
  \/ \E a \in Asker : \/ \E f \in Faces : Load(a, f)
                      \/ Acquire(a) \/ CheckFace(a) \/ OpenPair(a)
LoaderSpec == LoaderInit /\ [][LoaderNext]_loaderVars

---------------------------------------------------------------------------
(* load is one indivisible step to its callers, however many threads ask at *)
(* once: the name is settled by the first, its library is opened at most   *)
(* once, and everyone is told the same for the life of the process.        *)
Promise == INSTANCE Once WITH
  Names <- Faces, Callers <- Asker, Verdicts <- {"none", "pair"}, Undecided <- Unresolved,
  settled <- loaded, effort <- opens,
  told <- [a \in Asker |-> IF asking[a].step = "done" THEN <<asking[a].face, asking[a].got>>
                                                      ELSE <<>>]
LoadIsAtomic == Promise!OnceSpec

(* A pair is handed out only for a registered face nothing stands in the   *)
(* way of, over an engine library that is kept alive; and such a face is   *)
(* refused only where somebody asked for it before it was registered: that *)
(* first None is remembered for the process.                               *)
PairHonest ==
  \A f \in Faces :
     /\ loaded[f] = "pair" => /\ faces[f] # Unresolved /\ Obstacle[f] = "clear"
                              /\ substrate >= Cardinality({g \in Faces : loaded[g] = "pair"})
     /\ loaded[f] = "none" => Obstacle[f] # "clear" \/ f \in requested
=============================================================================
