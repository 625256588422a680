----------------------------- MODULE SessionSlots -----------------------------
(***************************************************************************)
(* What the pool of administrative sessions promises to the operations     *)
(* that use it (docs/operations.md, "Administrative sessions"): at most    *)
(* MaxSize of them hold a slot at a time, whoever asks is granted a slot   *)
(* or refused, and no slot is granted once the pool is closed.  Sessions,  *)
(* connections, deadlines and condition variables do not appear here.      *)
(* Slots are counted by `free`; free plus the size of holders is MaxSize.  *)
(***************************************************************************)
EXTENDS Integers

CONSTANTS Caller,   \* threads that run administrative operations
          MaxSize   \* slots of the pool

VARIABLES waiting,  \* callers that have asked for a slot
          holders,  \* callers that have one
          free,     \* slots that nobody has
          closed

vars == <<waiting, holders, free, closed>>

Init == waiting = {} /\ holders = {} /\ free = MaxSize /\ closed = FALSE

Request(c) ==
    /\ c \notin waiting \cup holders
    /\ waiting' = waiting \cup {c}
    /\ UNCHANGED <<holders, free, closed>>

Grant(c) ==
    /\ c \in waiting
    /\ ~closed /\ free > 0
    /\ free' = free - 1
    /\ waiting' = waiting \ {c}
    /\ holders' = holders \cup {c}
    /\ UNCHANGED closed

\* The pool is closed, or the caller has waited too long.
Refuse(c) ==
    /\ c \in waiting
    /\ waiting' = waiting \ {c}
    /\ UNCHANGED <<holders, free, closed>>

\* The operation is over, or could not start; a caller whose session turned
\* out to be dead may give its slot back and ask again.
Release(c) ==
    /\ c \in holders
    /\ holders' = holders \ {c}
    /\ free' = free + 1
    /\ waiting' \in {waiting, waiting \cup {c}}
    /\ UNCHANGED closed

Close ==
    /\ closed' = TRUE
    /\ UNCHANGED <<waiting, holders, free>>

Next ==
    \/ Close
    \/ \E c \in Caller : Request(c) \/ Grant(c) \/ Refuse(c) \/ Release(c)

Safety == Init /\ [][Next]_vars

Spec == Safety /\ \A c \in Caller : WF_vars(Grant(c) \/ Refuse(c)) /\ WF_vars(Release(c))

=============================================================================
