----------------------------- MODULE MCDownstream -----------------------------
(* Values of the constants of Downstream for TLC, and the two races it is checked in. *)
EXTENDS Downstream, MCAdjudications, FiniteSets

\* Every adjudication names a supplier.
MCAttributable == AdjIds

\* "retries": the endpoint is invoked again while an invocation and an adjuster are
\* under way.  "adjusters": one invocation, and several adjusters who decide, to
\* amounts around the tolerance too.  The departments open cases meanwhile.
VARIABLE scene

InFlight == {k \in Calls : calls[k] # IdleCall}
Asked == {r \in Requests : requests[r].stage # "idle"}

Bounded ==
    \/ /\ scene = "retries"
       /\ Cardinality(Asked) <= 1
       /\ \A r \in Asked : requests[r].stage \in TxStages =>
            requests[r].decision.approved \in {0, Cent \div 2}
    \/ /\ scene = "adjusters"
       /\ Cardinality(InFlight) <= 1
       /\ \A k \in InFlight : adjudications[calls[k].id].status = "ABSENT"

MCInit == DownstreamInit /\ scene \in {"retries", "adjusters"}
MCNext == DownstreamNext /\ UNCHANGED scene /\ Bounded'
MCSpec == MCInit /\ [][MCNext]_<<downstreamVars, scene>>
=============================================================================
