----------------------------- MODULE MCRollout -----------------------------
(* Model values for the Rollout runs. *)
EXTENDS Rollout

\* Stage, share, take over.
ThreeSteps == <<[cc |-> 50,  ci |-> 100, tc |-> 0,   ti |-> 100],
                [cc |-> 50,  ci |-> 50,  tc |-> 50,  ti |-> 50],
                [cc |-> 100, ci |-> 0,   tc |-> 100, ti |-> 0]>>

\* The vanguard strategy of the end-to-end tests, with another step in between.
Vanguard == <<[cc |-> 10,  ci |-> 100, tc |-> 0,   ti |-> 100],
              [cc |-> 10,  ci |-> 90,  tc |-> 10,  ti |-> 90],
              [cc |-> 50,  ci |-> 50,  tc |-> 50,  ti |-> 50],
              [cc |-> 100, ci |-> 0,   tc |-> 100, ti |-> 0]>>

=============================================================================
