---------------------------- MODULE CleanupService ----------------------------
(***************************************************************************)
(* What the cleanup of databases promises to those who use it              *)
(* (docs/operations.md, and the documentation of DatabaseLease::cleanup,   *)
(* drain_deferred_cleanup and shutdown): an accepted cleanup is carried    *)
(* out once; its error, if any, is told once, to the caller that awaits it *)
(* or else to somebody that drains, and to the log if nobody is left; a    *)
(* drain returns after all that was accepted before its call, and owes its *)
(* caller the errors nobody awaited.  Sequences, workers, condition        *)
(* variables and permits do not appear here.                               *)
(***************************************************************************)
CONSTANTS Database,   \* what can be submitted, each once
          Waiter      \* calls that drain

VARIABLES accepted,   \* databases accepted for cleanup
          awaited,    \* those whose caller waits for its own outcome
          settled,    \* those whose cleanup is over
          pending,    \* errors nobody has been told
          told,       \* errors somebody has been told, or that were logged
          closed,     \* nothing more is accepted
          stopped,    \* the service is gone
          call,       \* state of each draining call
          promised,   \* what was accepted before the call
          owed        \* and what of that nobody awaited then

callVars == <<call, promised, owed>>
vars == <<accepted, awaited, settled, pending, told, closed, stopped, callVars>>

Init ==
    /\ accepted = {} /\ awaited = {} /\ settled = {} /\ pending = {} /\ told = {}
    /\ closed = FALSE /\ stopped = FALSE
    /\ call = [x \in Waiter |-> "idle"]
    /\ promised = [x \in Waiter |-> {}] /\ owed = [x \in Waiter |-> {}]

Accept(d) ==
    /\ ~closed /\ d \notin accepted
    /\ accepted' = accepted \cup {d}
    /\ awaited' \in {awaited, awaited \cup {d}}
    /\ UNCHANGED <<settled, pending, told, closed, stopped, callVars>>

\* The caller goes away before it took its outcome.
GiveUp(d) ==
    /\ d \in awaited
    /\ awaited' = awaited \ {d}
    /\ UNCHANGED <<accepted, settled, pending, told, closed, stopped, callVars>>

Fail(d) ==
    /\ d \in accepted \ (settled \cup pending \cup told)
    /\ pending' = pending \cup {d}
    /\ UNCHANGED <<accepted, awaited, settled, told, closed, stopped, callVars>>

Settle(d) ==
    /\ d \in accepted \ settled
    /\ settled' = settled \cup {d}
    /\ UNCHANGED <<accepted, awaited, pending, told, closed, stopped, callVars>>

Tell(errors) ==
    /\ errors \subseteq pending
    /\ pending' = pending \ errors
    /\ told' = told \cup errors

\* A caller that awaits the outcome gets its error.
Answer(d) ==
    /\ d \in awaited
    /\ Tell({d})
    /\ UNCHANGED <<accepted, awaited, settled, closed, stopped, callVars>>

Call(x) ==
    /\ ~stopped /\ call[x] = "idle"
    /\ call' = [call EXCEPT ![x] = "called"]
    /\ promised' = [promised EXCEPT ![x] = accepted]
    /\ owed' = [owed EXCEPT ![x] = accepted \ awaited]
    /\ UNCHANGED <<accepted, awaited, settled, pending, told, closed, stopped>>

\* A drain returns with errors that nobody awaits; those it owed are told,
\* now or before.
Return(x, errors) ==
    /\ call[x] = "called"
    /\ promised[x] \subseteq settled
    /\ errors \cap awaited = {}
    /\ Tell(errors)
    /\ owed[x] \cap pending' = {}
    /\ call' = [call EXCEPT ![x] = "returned"]
    /\ UNCHANGED <<accepted, awaited, settled, closed, stopped, promised, owed>>

Abandon(x) ==
    /\ call[x] = "called"
    /\ call' = [call EXCEPT ![x] = "cancelled"]
    /\ UNCHANGED <<accepted, awaited, settled, pending, told, closed, stopped, promised, owed>>

Close ==
    /\ closed' = TRUE
    /\ UNCHANGED <<accepted, awaited, settled, pending, told, stopped, callVars>>

\* The service goes when nobody uses it any more, all work is done, and logs
\* what is left.
Stop ==
    /\ closed /\ ~stopped
    /\ accepted \subseteq settled
    /\ pending \cap awaited = {}
    /\ \A x \in Waiter : call[x] # "called"
    /\ Tell(pending)
    /\ stopped' = TRUE
    /\ UNCHANGED <<accepted, awaited, settled, closed, callVars>>

Next ==
    \/ \E d \in Database : Accept(d) \/ GiveUp(d) \/ Fail(d) \/ Settle(d) \/ Answer(d)
    \/ \E x \in Waiter :
          Call(x) \/ Abandon(x) \/ \E errors \in SUBSET pending : Return(x, errors)
    \/ Close \/ Stop

Spec == Init /\ [][Next]_vars

=============================================================================
