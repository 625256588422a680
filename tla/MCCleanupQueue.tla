--------------------------- MODULE MCCleanupQueue ---------------------------
(***************************************************************************)
(* Finite instances of CleanupQueue for TLC.                               *)
(***************************************************************************)
EXTENDS CleanupQueue, TLC

\* Databases, workers and drains of one kind are interchangeable.
Symmetry ==
    Permutations(Lease) \cup Permutations(Prewarmed)
        \cup Permutations(Worker) \cup Permutations(Drainer)

(***************************************************************************)
(* Bound of the liveness instance: the drain and the prewarmed database    *)
(* take part one at a time.  Only steps the application decides on are     *)
(* left out, which fairness asks nothing of.                               *)
(***************************************************************************)
DrainOrPrewarm ==
    \/ \A x \in Drainer : drain[x] = "idle"
    \/ \A d \in Prewarmed : lease[d] = "unused"

ScenarioSpec == Init /\ [][Next /\ DrainOrPrewarm']_vars /\ Fairness

=============================================================================
