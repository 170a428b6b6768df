---------------------------- MODULE ProjectSlots ----------------------------
(***************************************************************************)
(* What the job machinery promises the rest of the product: a project is a *)
(* slot that holds at most one job. A job enters an empty slot once in its *)
(* life, may be started there, and leaves the slot when it ends, for good. *)
(* How it ends, and how often its row is rewritten after that, is not a    *)
(* promise.                                                                *)
(***************************************************************************)
CONSTANTS
    Project,  \* the slots
    Job,      \* identifiers of jobs
    None      \* an empty slot, not a job

VARIABLES
    slot,     \* the job a project works on, or None
    started,  \* the jobs in slots that a worker has claimed
    ended     \* the jobs that left their slots

slotVars == <<slot, started, ended>>

Init ==
    /\ slot = [p \in Project |-> None]
    /\ started = {}
    /\ ended = {}

\* A job nobody has seen yet takes the empty slot of its project.
Open(p, j) ==
    /\ slot[p] = None
    /\ j \notin ended
    /\ \A q \in Project : slot[q] # j
    /\ slot' = [slot EXCEPT ![p] = j]
    /\ UNCHANGED <<started, ended>>

\* A worker claims the job.
Start(p) ==
    /\ slot[p] # None
    /\ started' = started \cup {slot[p]}
    /\ UNCHANGED <<slot, ended>>

\* The job ends, started or not.
Close(p) ==
    /\ slot[p] # None
    /\ slot' = [slot EXCEPT ![p] = None]
    /\ started' = started \ {slot[p]}
    /\ ended' = ended \cup {slot[p]}

Next ==
    \E p \in Project :
        \/ \E j \in Job : Open(p, j)
        \/ Start(p)
        \/ Close(p)

Spec == Init /\ [][Next]_slotVars

=============================================================================
