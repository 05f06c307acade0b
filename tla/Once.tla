-------------------------------- MODULE Once --------------------------------
(***************************************************************************)
(* What a lazy opening promises its callers: asking is one indivisible     *)
(* step.  The first question about a name settles it, for everybody and    *)
(* for the life of the process, and does the work of finding out at most   *)
(* once; every later one is told what was settled.                         *)
(***************************************************************************)
EXTENDS Naturals

CONSTANTS Names, Callers, Verdicts, Undecided

VARIABLES settled,   \* name -> verdict, Undecided before the first question
          effort,    \* name -> how often the work was done
          told       \* caller -> <<name, verdict>>, <<>> while there is no answer
onceVars == <<settled, effort, told>>

OnceInit == /\ settled = [n \in Names |-> Undecided]
            /\ effort = [n \in Names |-> 0]
            /\ told = [c \in Callers |-> <<>>]

Settle(n) == /\ settled[n] = Undecided
             /\ \E v \in Verdicts : settled' = [settled EXCEPT ![n] = v]
             /\ \E k \in {0, 1} : effort' = [effort EXCEPT ![n] = @ + k]
Recall(n) == settled[n] # Undecided /\ UNCHANGED <<settled, effort>>

Ask(c) == told' = [told EXCEPT ![c] = <<>>] /\ UNCHANGED <<settled, effort>>
Tell(c, n) == /\ Settle(n) \/ Recall(n)
              /\ told' = [told EXCEPT ![c] = <<n, settled'[n]>>]

OnceNext == \E c \in Callers : Ask(c) \/ \E n \in Names : Tell(c, n)
OnceSpec == OnceInit /\ [][OnceNext]_onceVars
=============================================================================
