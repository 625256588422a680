---------------------------- MODULE TemplateCache ----------------------------
(***************************************************************************)
(* The in-process cache of templates (TemplateCache and TemplateFlight in  *)
(* src/server.rs) and the loop of get_or_initialize_template that uses it  *)
(* (src/harness.rs): callers of one fingerprint share one flight, and the  *)
(* cache keeps only weak references to what a flight produced.             *)
(*                                                                         *)
(* A flight produces at most one TemplateInner, so its number also names   *)
(* that allocation.  Preparing the template on the server is               *)
(* TemplateCoordination's subject; here it succeeds, fails or is           *)
(* cancelled.  Each action is one critical section of the cache's mutex or *)
(* one effect that others can see between two.                             *)
(***************************************************************************)
EXTENDS Integers, FiniteSets

CONSTANTS
    Fingerprint,   \* identities of templates
    Caller,        \* tasks that call template or derive, one call at a time
    Flight,        \* allocations; one that nothing refers to is used again
    NoFingerprint, NoFlight

ASSUME CacheAssumption ==
    /\ IsFiniteSet(Fingerprint) /\ IsFiniteSet(Caller) /\ IsFiniteSet(Flight)
    /\ Cardinality(Flight) >= Cardinality(Caller)
    /\ NoFingerprint \notin Fingerprint /\ NoFlight \notin Flight

VARIABLES
    entries,     \* the cache: an entry for each fingerprint
    published,   \* flights whose template field is set
    completed,   \* flights whose watch channel says true
    pc, want,    \* each caller's place in the loop, and its fingerprint
    flight       \* the flight, or its TemplateInner, that a caller refers to

cacheVars == <<entries, published, completed>>
vars == <<cacheVars, pc, want, flight>>

None == [tag |-> "none"]
Initializing(n) == [tag |-> "initializing", flight |-> n]
\* A weak reference; to NoFlight once the TemplateInner is gone.
Ready(n) == [tag |-> "ready", flight |-> n]
TemplateCacheEntry ==
    {None} \cup {Initializing(n) : n \in Flight}
           \cup {Ready(n) : n \in Flight \cup {NoFlight}}

\* abandon and complete: the entry is settled, the waiters are not yet told.
CallerState == {"idle", "lookup", "initialize", "abandon", "complete", "wait",
                "holding"}

Init ==
    /\ entries = [f \in Fingerprint |-> None]
    /\ published = {} /\ completed = {}
    /\ pc = [c \in Caller |-> "idle"]
    /\ want = [c \in Caller |-> NoFingerprint]
    /\ flight = [c \in Caller |-> NoFlight]

-----------------------------------------------------------------------------
Go(c, state) == pc' = [pc EXCEPT ![c] = state]

\* The call is over or was cancelled and its references are dropped.
Leave(c) ==
    /\ Go(c, "idle")
    /\ want' = [want EXCEPT ![c] = NoFingerprint]
    /\ flight' = [flight EXCEPT ![c] = NoFlight]

\* The allocations that end when the caller drops its reference.
Freed(c) ==
    {flight[c]} \ {flight[d] : d \in Caller \ {c}}

(***************************************************************************)
(* Mistakes the code could plausibly contain, each replacing the operator  *)
(* whose name it starts with.                                              *)
(***************************************************************************)
Expired_Never(e) == FALSE
Expired_Always(e) == e.tag = "ready"
Publish_OnlyInCache(n) == UNCHANGED published
AfterAbandon_Silent(c) == Leave(c)

\* Callers that hold the TemplateInner itself, and waiters that hold it
\* through their flight.
Strong(n) ==
    \E c \in Caller :
        /\ flight[c] = n
        /\ \/ pc[c] \in {"complete", "holding"}
           \/ pc[c] = "wait" /\ n \in published

\* What prune_expired_ready_entries removes: weak references to a
\* TemplateInner that is gone.
Expired(e) == e.tag = "ready" /\ ~Strong(e.flight)

Joinable(e) == e.tag = "initializing"

\* An allocation that neither the cache nor a caller refers to.
NewFlight ==
    CHOOSE n \in Flight :
        /\ \A f \in Fingerprint : entries[f] \notin {Initializing(n), Ready(n)}
        /\ \A c \in Caller : flight[c] # n

OwnsEntry(c) == entries[want[c]] = Initializing(flight[c])

Publish(n) == published' = published \cup {n}

\* Drop for TemplateCacheInitializer goes on to complete the flight.
AfterAbandon(c) == Go(c, "abandon") /\ UNCHANGED <<want, flight>>

-----------------------------------------------------------------------------
BeginTemplate(c, f) ==
    /\ pc[c] = "idle"
    /\ want' = [want EXCEPT ![c] = f]
    /\ Go(c, "lookup")
    /\ UNCHANGED <<cacheVars, flight>>

\* template_cache_action has three results: the live template, ...
LookupReady(c) ==
    LET e == entries[want[c]]
    IN  /\ pc[c] = "lookup"
        /\ e.tag = "ready" /\ Strong(e.flight)
        /\ flight' = [flight EXCEPT ![c] = e.flight]
        /\ Go(c, "holding")
        /\ UNCHANGED <<cacheVars, want>>

\* ... a flight to wait for, ...
LookupWait(c) ==
    LET e == entries[want[c]]
    IN  /\ pc[c] = "lookup"
        /\ Joinable(e)
        /\ flight' = [flight EXCEPT ![c] = e.flight]
        /\ Go(c, "wait")
        /\ UNCHANGED <<cacheVars, want>>

\* ... or a new flight, after dead entries were pruned.
LookupInitialize(c) ==
    LET e == entries[want[c]]
        n == NewFlight
    IN  /\ pc[c] = "lookup"
        /\ ~Joinable(e) /\ ~(e.tag = "ready" /\ Strong(e.flight))
        /\ entries' = [f \in Fingerprint |->
                          IF f = want[c] THEN Initializing(n)
                          ELSE IF Expired(entries[f]) THEN None
                          ELSE entries[f]]
        /\ flight' = [flight EXCEPT ![c] = n]
        /\ Go(c, "initialize")
        /\ UNCHANGED <<published, completed, want>>

\* The template is prepared: TemplateCacheInitializer::publish installs it.
InstallTemplate(c) ==
    /\ pc[c] = "initialize"
    /\ IF OwnsEntry(c)
       THEN /\ Publish(flight[c])
            /\ entries' = [entries EXCEPT ![want[c]] = Ready(flight[c])]
       ELSE UNCHANGED <<entries, published>>
    /\ Go(c, "complete")
    /\ UNCHANGED <<completed, want, flight>>

\* An error, a panic or the cancellation of the caller drops the initializer.
AbandonFlight(c) ==
    /\ pc[c] = "initialize"
    /\ entries' = IF OwnsEntry(c) THEN [entries EXCEPT ![want[c]] = None]
                                  ELSE entries
    /\ AfterAbandon(c)
    /\ UNCHANGED <<published, completed>>

CompleteFlight(c) ==
    \/ /\ pc[c] = "complete"
       /\ completed' = completed \cup {flight[c]}
       /\ Go(c, "holding")
       /\ UNCHANGED <<entries, published, want, flight>>
    \/ /\ pc[c] = "abandon"
       /\ completed' = (completed \cup {flight[c]}) \ Freed(c)
       /\ Leave(c)
       /\ UNCHANGED <<entries, published>>

\* The flight has ended: the waiter has its template, or drops the flight and
\* starts over.
FinishWait(c) ==
    /\ pc[c] = "wait" /\ flight[c] \in completed
    /\ \/ /\ flight[c] \in published
          /\ Go(c, "holding")
          /\ UNCHANGED <<completed, flight>>
       \/ /\ flight[c] \notin published
          /\ Go(c, "lookup")
          /\ flight' = [flight EXCEPT ![c] = NoFlight]
          /\ completed' = completed \ Freed(c)
    /\ UNCHANGED <<entries, published, want>>

\* A waiter is cancelled, or a DatabaseTemplate is dropped.
DropReference(c) ==
    /\ pc[c] \in {"wait", "holding"}
    /\ published' = published \ Freed(c)
    /\ completed' = completed \ Freed(c)
    /\ entries' = [f \in Fingerprint |->
                      IF \E n \in Freed(c) : entries[f] = Ready(n)
                      THEN Ready(NoFlight) ELSE entries[f]]
    /\ Leave(c)

-----------------------------------------------------------------------------
LookupStep(c) == LookupReady(c) \/ LookupWait(c) \/ LookupInitialize(c)

Next ==
    \E c \in Caller :
        \/ \E f \in Fingerprint : BeginTemplate(c, f)
        \/ LookupStep(c) \/ InstallTemplate(c) \/ AbandonFlight(c)
        \/ CompleteFlight(c) \/ FinishWait(c) \/ DropReference(c)

Spec == Init /\ [][Next]_vars

\* Tasks that can run do run.  Nothing is asked of initializers, which are
\* the application's, or of who drops or cancels what.
Fairness ==
    \A c \in Caller :
        /\ WF_vars(LookupStep(c))
        /\ WF_vars(CompleteFlight(c))
        /\ WF_vars(FinishWait(c))

FairSpec == Spec /\ Fairness

-----------------------------------------------------------------------------
(***************************************************************************)
(* Properties.                                                             *)
(***************************************************************************)

\* Every variable has its type, and a caller refers to a flight or a template
\* exactly while it works on one, waits for one or holds one.
TypeOK ==
    /\ entries \in [Fingerprint -> TemplateCacheEntry]
    /\ published \subseteq Flight /\ completed \subseteq Flight
    /\ pc \in [Caller -> CallerState]
    /\ want \in [Caller -> Fingerprint \cup {NoFingerprint}]
    /\ flight \in [Caller -> Flight \cup {NoFlight}]
    /\ \A c \in Caller :
          flight[c] = NoFlight <=> pc[c] \in {"idle", "lookup"}

\* docs/operations.md: calls for the same live template "return handles backed
\* by one template allocation and one retained shared-lock session".  And the
\* debug_assert! of publish, "template flight owner must publish its own
\* entry": whatever cancellations, retries and prunings happen next to it, the
\* running initializer is the only one of its fingerprint.
OneTemplate ==
    /\ TypeOK
    /\ \A c \in Caller : pc[c] = "initialize" => OwnsEntry(c)
    /\ \A c, d \in Caller :
          /\ want[c] = want[d]
          /\ pc[c] \in {"complete", "holding"}
          /\ pc[d] \in {"complete", "holding"}
          => flight[c] = flight[d]

\* "unique, short-lived fingerprints cannot accumulate for the server
\* lifetime": however many fingerprints are used one after the other, the
\* cache has no more entries than there ever are calls at one time.
CacheBounded ==
    Cardinality({f \in Fingerprint : entries[f] # None}) <= Cardinality(Caller)

\* "waiting callers do not run their initializers": whoever waits for a flight
\* whose template somebody has does not go back to look for another one; and
\* the template a flight published stays there for those who still wait for
\* it, although the winner and everybody else may drop their handles first.
WaiterGetsWinner ==
    [][\A c \in Caller : pc[c] = "wait" =>
          /\ (\E d \in Caller : flight[d] = flight[c] /\ pc[d] \in {"complete", "holding"})
             => pc'[c] # "lookup"
          /\ (flight[c] \in published /\ pc'[c] = "wait") => flight[c] \in published']_vars

\* A waiter whose flight has ended, in success, error or cancellation, does
\* not go on waiting for it.
EndedFlightWakes ==
    \A c \in Caller :
        (pc[c] = "wait"
            /\ ~\E d \in Caller : pc[d] = "initialize" /\ flight[d] = flight[c])
        ~> pc[c] # "wait"

=============================================================================
