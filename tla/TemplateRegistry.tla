--------------------------- MODULE TemplateRegistry ---------------------------
(***************************************************************************)
(* What template databases promise to harnesses that share a server        *)
(* (docs/operations.md; DatabaseTemplate::derive in src/harness.rs): at    *)
(* most one party builds or removes a template, and nobody uses it         *)
(* meanwhile; a handle is given for a usable template, which stays as long *)
(* as the handle is used or copied from; copies are made from such         *)
(* handles only; what is in use or owned is never removed.  Advisory       *)
(* locks, waiting, comments in the catalog, statements, the clock and the  *)
(* list of the sweep do not appear here.                                   *)
(***************************************************************************)
CONSTANTS Session,    \* attempts to get a template, and the handles they give
          Template, Parent, Harness,
          NoTemplate, NoSession, Sweeper

VARIABLES present,    \* databases on the server: templates, test databases
          usable,     \* templates that are complete and closed to writers
          builder,    \* who alone may change a template
          want,       \* the template of each attempt or handle
          holding,    \* attempts that have become handles
          used,       \* handles the application has
          source, test_source,   \* the handle each copy in progress keeps
          alive,      \* harnesses that run
          leased      \* those whose test database is in use

templateVars == <<usable, builder>>
sessionVars == <<want, holding, used, source>>
testVars == <<test_source, alive, leased>>
vars == <<present, templateVars, sessionVars, testVars>>

Init ==
    /\ present \in SUBSET Template   \* databases of others with such names
    /\ usable = {} /\ builder = [t \in Template |-> NoSession]
    /\ want = [s \in Session |-> NoTemplate] /\ holding = {} /\ used = {}
    /\ source = [s \in Session |-> NoSession]
    /\ test_source = [h \in Harness |-> NoSession]
    /\ alive = [h \in Harness |-> TRUE] /\ leased = {}

Free(b, p) == [t \in Template |-> IF b[t] = p THEN NoSession ELSE b[t]]
Builds(s) == want[s] \in Template /\ builder[want[s]] = s

\* A copy can be made from handle r.
Backed(r) == r \in holding /\ want[r] \in usable

-----------------------------------------------------------------------------
Ask(s, t) ==
    /\ want[s] = NoTemplate
    /\ want' = [want EXCEPT ![s] = t]
    /\ IF Parent[t] = NoTemplate THEN source' = source
       ELSE \E r \in used : /\ Backed(r) /\ want[r] = Parent[t]
                            /\ source' = [source EXCEPT ![s] = r]
    /\ UNCHANGED <<present, templateVars, holding, used, testVars>>

Open(s) ==
    /\ s \notin holding /\ want[s] \in usable /\ builder[want[s]] = NoSession
    /\ holding' = holding \cup {s} /\ used' = used \cup {s}
    /\ source' = [source EXCEPT ![s] = NoSession]
    /\ UNCHANGED <<present, templateVars, want, testVars>>

\* A session that wants the template, or the sweep, gets it for itself.
Enter(p, t) ==
    /\ p = Sweeper \/ (want[p] = t /\ p \notin holding)
    /\ builder[t] = NoSession /\ \A s \in holding : want[s] # t
    /\ builder' = [builder EXCEPT ![t] = p]
    /\ UNCHANGED <<present, usable, sessionVars, testVars>>

StepBack(p) ==
    /\ builder' = Free(builder, p)
    /\ UNCHANGED <<present, usable, sessionVars, testVars>>

\* An interrupted build is removed, ...
Discard(s) ==
    /\ Builds(s) /\ want[s] \notin usable
    /\ present' = present \ {want[s]}
    /\ UNCHANGED <<templateVars, sessionVars, testVars>>

\* ... a new database is made from the parent, if there is one, ...
Create(s) ==
    /\ Builds(s) /\ want[s] \notin present
    /\ Parent[want[s]] = NoTemplate
       \/ (Backed(source[s]) /\ want[source[s]] = Parent[want[s]])
    /\ present' = present \cup {want[s]}
    /\ UNCHANGED <<templateVars, sessionVars, testVars>>

\* ... which is then not needed any more.
Detach(s) ==
    /\ Builds(s) /\ want[s] \in present \ usable
    /\ source' = [source EXCEPT ![s] = NoSession]
    /\ UNCHANGED <<present, templateVars, want, holding, used, testVars>>

Publish(s) ==
    /\ Builds(s) /\ want[s] \in present \ usable
    /\ usable' = usable \cup {want[s]}
    /\ UNCHANGED <<present, builder, sessionVars, testVars>>

Drop(s) ==
    /\ s \in used
    /\ used' = used \ {s}
    /\ UNCHANGED <<present, templateVars, want, holding, source, testVars>>

\* An attempt fails anywhere and may take its unfinished build with it, or a
\* handle that is neither used nor copied from is closed.
Leave(s) ==
    /\ want[s] # NoTemplate
    /\ s \in holding =>
          /\ s \notin used
          /\ \A r \in Session : source[r] # s
          /\ \A h \in Harness : test_source[h] # s
    /\ \/ present' = present
       \/ Builds(s) /\ want[s] \notin usable /\ present' = present \ {want[s]}
    /\ builder' = Free(builder, s)
    /\ want' = [want EXCEPT ![s] = NoTemplate]
    /\ holding' = holding \ {s} /\ used' = used \ {s}
    /\ source' = [source EXCEPT ![s] = NoSession]
    /\ UNCHANGED <<usable, testVars>>

-----------------------------------------------------------------------------
BeginCopy(h, s) ==
    /\ alive[h] /\ h \notin present /\ s \in used /\ Backed(s)
    /\ test_source' = [test_source EXCEPT ![h] = s]
    /\ UNCHANGED <<present, templateVars, sessionVars, alive, leased>>

Copy(h) ==
    /\ alive[h] /\ h \notin present /\ Backed(test_source[h])
    /\ present' = present \cup {h}
    /\ UNCHANGED <<templateVars, sessionVars, testVars>>

Lease(h) ==
    /\ alive[h] /\ h \in present /\ Backed(test_source[h])
    /\ leased' = leased \cup {h}
    /\ test_source' = [test_source EXCEPT ![h] = NoSession]
    /\ UNCHANGED <<present, templateVars, sessionVars, alive>>

Return(h) ==
    /\ h \in leased /\ h \in present
    /\ present' = present \ {h} /\ leased' = leased \ {h}
    /\ UNCHANGED <<templateVars, sessionVars, test_source, alive>>

\* A copy fails, and may take its database with it, or a return fails.
Fail(h) ==
    /\ alive[h] /\ (test_source[h] # NoSession \/ h \in leased)
    /\ present' = present \/ (h \notin leased /\ present' = present \ {h})
    /\ test_source' = [test_source EXCEPT ![h] = NoSession]
    /\ leased' = leased \ {h}
    /\ UNCHANGED <<templateVars, sessionVars, alive>>

Die(h) ==
    /\ alive' = [alive EXCEPT ![h] = FALSE]
    /\ test_source' = [test_source EXCEPT ![h] = NoSession]
    /\ leased' = leased \ {h}
    /\ UNCHANGED <<present, templateVars, sessionVars>>

\* The sweep removes what it has for itself, or what has no owner.
Remove(d) ==
    /\ IF d \in Template THEN builder[d] = Sweeper ELSE ~alive[d]
    /\ present' = present \ {d} /\ usable' = usable \ {d}
    /\ builder' = Free(builder, Sweeper)
    /\ UNCHANGED <<sessionVars, testVars>>

-----------------------------------------------------------------------------
Next ==
    \/ \E s \in Session :
          \/ Open(s) \/ Discard(s) \/ Create(s) \/ Detach(s) \/ Publish(s)
          \/ Drop(s) \/ Leave(s)
          \/ \E t \in Template : Ask(s, t)
    \/ \E p \in Session \cup {Sweeper} :
          StepBack(p) \/ \E t \in Template : Enter(p, t)
    \/ \E h \in Harness :
          \/ Copy(h) \/ Lease(h) \/ Return(h) \/ Fail(h) \/ Die(h)
          \/ \E s \in Session : BeginCopy(h, s)
    \/ \E d \in Template \cup Harness : Remove(d)

Spec == Init /\ [][Next]_vars

=============================================================================
