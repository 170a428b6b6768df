--------------------------- MODULE SerialSections ---------------------------
(***************************************************************************)
(* What a lease on a project promises the code that works under it. A      *)
(* section begins when nobody has the turn. Its turn may be taken away at  *)
(* any time, and then never comes back: a section reports success only if  *)
(* it had the turn from its beginning to its end. So the sections that     *)
(* report success never overlapped one another.                            *)
(***************************************************************************)
CONSTANT Process

VARIABLES
    place,    \* where a process stands: "out", with the "turn", or "late"
    reported  \* what the last section of a process reported

sectionVars == <<place, reported>>

Init ==
    /\ place = [p \in Process |-> "out"]
    /\ reported = [p \in Process |-> "none"]

Begin(p) ==
    /\ place[p] = "out"
    /\ \A q \in Process : place[q] # "turn"
    /\ place' = [place EXCEPT ![p] = "turn"]
    /\ reported' = [reported EXCEPT ![p] = "none"]

Lose(p) ==
    /\ place[p] = "turn"
    /\ place' = [place EXCEPT ![p] = "late"]
    /\ UNCHANGED reported

Succeed(p) ==
    /\ place[p] = "turn"
    /\ place' = [place EXCEPT ![p] = "out"]
    /\ reported' = [reported EXCEPT ![p] = "ok"]

\* Also a process that never got the turn may report a failure.
Fail(p) ==
    /\ place' = [place EXCEPT ![p] = "out"]
    /\ reported' = [reported EXCEPT ![p] = "failed"]

Next ==
    \E p \in Process : Begin(p) \/ Lose(p) \/ Succeed(p) \/ Fail(p)

Spec == Init /\ [][Next]_sectionVars

=============================================================================
