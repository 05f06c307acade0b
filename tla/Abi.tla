-------------------------------- MODULE Abi --------------------------------
(***************************************************************************)
(* Which library the Python binding loads, which planes of it can be       *)
(* imported, and which transport carries a verb: _abi.py, and transport of *)
(* _engine.py.  The world is what the package is imported in, fixed for    *)
(* the process; the accelerator keeps what it likes of the symbols it is   *)
(* offered (external).                                                     *)
(***************************************************************************)
EXTENDS FiniteSets

CONSTANTS Symbol,    \* the symbols of the library's planes
          AbiPlaneOf,   \* the plane that declares each
          First      \* the plane declared by the import itself

Planes == {AbiPlaneOf[s] : s \in Symbol}
AbiAssumption == First \in Planes
ASSUME AbiAssumption

VARIABLES site,     \* the environment
          library,   \* what the import found, "none" before it
          declared,  \* planes declared in full
          pointers,  \* symbols the accelerator holds a pointer for
          route      \* the transport of each verb of an imported plane

abiVars == <<site, library, declared, pointers, route>>

Worlds == [override : {"unset", "file", "no file"},    \* IRGX_LIB
           bundled : BOOLEAN, built : BOOLEAN,         \* lib/ of the wheel, zig-out of a checkout
           loads : BOOLEAN, abi : {"same", "other"},
           exports : SUBSET Symbol,                    \* what the library is new enough for
           accel : SUBSET Symbol]                      \* verbs the accelerator answers for, {} for none

AbiInit ==
  /\ site \in Worlds
  /\ library = "none" /\ declared = {} /\ pointers = {}
  /\ route = [s \in Symbol |-> "unbound"]

ExtrasOf(plane) == {s \in Symbol : AbiPlaneOf[s] = plane}

---------------------------------------------------------------------------
(* library_path: an override is the caller's choice and has no fallback; a *)
(* checkout is searched up to its build.zig.                               *)
LibraryPath ==
         CASE site.override = "file"    -> "override"
           [] site.override = "no file" -> "missing"
           [] OTHER -> IF site.bundled THEN "bundled"
                       ELSE IF site.built THEN "built" ELSE "missing"

(* declare binds every symbol of a plane, or the plane is not importable.  *)
Complete(plane) == ExtrasOf(plane) \subseteq site.exports

(* transport, once per verb, after the plane's declare has offered the     *)
(* accelerator its pointers.                                               *)
Transport(verb, held) == IF verb \in held THEN "native" ELSE "ctypes"

Bound(plane) ==
  LET held == pointers \cup (ExtrasOf(plane) \cap site.accel)
  IN  /\ pointers' = held
      /\ declared' = declared \cup {plane}
      /\ route' = [s \in Symbol |-> IF s \in ExtrasOf(plane) THEN Transport(s, held) ELSE route[s]]

(* import irgx: the path, the load, the first plane, and then the version. *)
(* What fails leaves no module behind and may be tried again.              *)
Import ==
  /\ library \in {"none", "error"}
  /\ IF LibraryPath = "missing" \/ ~site.loads \/ ~Complete(First) \/ site.abi = "other"
     THEN library' = "error" /\ UNCHANGED <<declared, pointers, route>>
     ELSE library' = LibraryPath /\ Bound(First)
  /\ UNCHANGED site

(* A plane's first use.                                                    *)
ImportPlane(plane) ==
  /\ library \notin {"none", "error"} /\ plane \notin declared
  /\ Complete(plane) /\ Bound(plane)
  /\ UNCHANGED <<site, library>>

AbiNext == Import \/ \E plane \in Planes : ImportPlane(plane)

---------------------------------------------------------------------------
(* A library that answers is the one the caller chose, or the package's    *)
(* own where the caller chose none, and speaks this binding's ABI.  Every  *)
(* verb of an imported plane is one this library exports, and goes through *)
(* the accelerator only over a pointer of it; a plane that lacks a symbol  *)
(* is never half usable (_abi.py 309-343, 506-593).                        *)
ChosenLibrary ==
  /\ library \notin {"none", "error"} =>
       /\ site.override # "unset" => library = "override"
       /\ site.override # "file" => library # "override"
       /\ site.abi = "same"
  /\ \A s \in Symbol : route[s] # "unbound" =>
       /\ library \notin {"none", "error"}
       /\ ExtrasOf(AbiPlaneOf[s]) \subseteq site.exports
       /\ route[s] = "native" <=> s \in pointers
=============================================================================
