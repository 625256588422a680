----------------------- MODULE MCTemplateCoordination -----------------------
(***************************************************************************)
(* Finite instances of TemplateCoordination for TLC.                       *)
(***************************************************************************)
EXTENDS TemplateCoordination, TLC

CONSTANTS Root, Child

\* One template copied from template0.
RootOnly == [t \in {Root} |-> NoTemplate]

\* A template and one derived from it.
RootAndChild == (Root :> NoTemplate) @@ (Child :> Root)

\* Sessions are interchangeable, and so are harness runs.
Symmetry == Permutations(Session) \cup Permutations(Harness)

(***************************************************************************)
(* Bound of the largest instance: the third session, the test database and *)
(* the child take part one at a time.  The sweep begins with the names its *)
(* list does not have, which it skips whenever it comes to them.           *)
(***************************************************************************)
TwoSessions == \E s \in Session : pc[s] = "idle"
NoTestDatabase == \A h \in Harness : alive[h] /\ test_pc[h] = "none"
NoChild ==
    /\ catalog[Child] = Absent /\ snapshot[Child] = Absent
    /\ \A s \in Session : goal[s] # Child
AbsentFirst ==
    (\E d \in todo : snapshot[d] = Absent) =>
        current = NoTemplate /\ \A d \in Resource \ todo : snapshot[d] = Absent

Scenario ==
    /\ AbsentFirst
    /\ \/ NoTestDatabase /\ NoChild
       \/ TwoSessions /\ NoChild
       \/ TwoSessions /\ NoTestDatabase

=============================================================================
