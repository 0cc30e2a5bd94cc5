------------------------- MODULE PrecedenceExecution -------------------------
(***************************************************************************)
(* What the task engine promises its callers, with the scheduler, the      *)
(* threads, the retries and the restarts removed: the tasks of a plan      *)
(* produce their result artefacts one by one, and never before all their   *)
(* hard prerequisites have produced theirs (FR-014, FR-015).               *)
(***************************************************************************)
CONSTANTS
    Tasks,  \* tasks of one plan
    Deps    \* hard dependencies, pairs <<prerequisite, dependent>>

VARIABLE done  \* the tasks that have a committed result artefact

Prerequisites(t) == {s \in Tasks : <<s, t>> \in Deps}

Init == done = {}

Produce(t) ==
    /\ t \notin done
    /\ Prerequisites(t) \subseteq done
    /\ done' = done \cup {t}

Next == \E t \in Tasks : Produce(t)

Spec == Init /\ [][Next]_done
=============================================================================
