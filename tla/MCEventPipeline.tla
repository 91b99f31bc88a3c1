-------------------------- MODULE MCEventPipeline --------------------------
(* Instances of EventPipeline for TLC.                                     *)
EXTENDS EventPipeline, TLC

CONSTANTS e1, e2, bad, u1

\* One user: every pair of events competes for the same two keys.
OneUser == [e \in Event |-> u1]

\* Processes are interchangeable.
WorkerSymmetry == Permutations(Worker)
=============================================================================
