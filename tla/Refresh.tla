-------------------------------- MODULE Refresh --------------------------------
(***************************************************************************)
(* How a change in Lakebase reaches everything derived from it: the         *)
(* bootstrap of an empty workspace and the routine and demo refreshes       *)
(* (scripts/bootstrap.py, scripts/refresh.py), which run the medallion      *)
(* (pipelines/run.py), the agent's two gold jobs and the serve-down in      *)
(* order, and stop at the first that fails.  A table is the number of the   *)
(* last Lakebase change it reflects.                                        *)
(***************************************************************************)
EXTENDS Integers, Sequences

CONSTANT MaxChanges    \* bound on the changes in Lakebase, of which the seed is the first

ASSUME RefreshAssumption == MaxChanges \in Nat \ {0}

VARIABLES
    lake,        \* changes of claims and adjudications committed in Lakebase
    fixtures,    \* how often the change feed carried the seeded fixture
    recorded,    \* an agent has written a decision record
    feed,        \* the change feed: whether it is configured, and what it has landed
    gold,        \* claims_current and adjudications_current; 0 before the first run
    risk,        \* customer_heat_risk
    precedents,  \* prior_claims_corpus
    fact,        \* the gold fact: the claims and the risk it shows
    reference,   \* the two synced tables a routine refresh re-syncs
    script,      \* the script at work and the steps it has left
    finished     \* the last one that ended well

sourceVars == <<lake, fixtures, recorded, feed>>
derivedVars == <<gold, risk, precedents, fact, reference>>
refreshVars == <<sourceVars, derivedVars, script, finished>>

None == -1   \* no such table yet; an empty one is 0

Medallion == "medallion"

\* Faulty: scored only once there is something to score.
ScoreLater == <<"generate", "seed", "create_cdf", "await_cdf", Medallion, "fraud_graph", "corpus",
                Medallion>>
BootstrapSteps ==
    <<"generate", "seed", "create_cdf", "await_cdf", "fraud_graph", Medallion, "fraud_graph",
      "corpus", Medallion>>

\* Faulty: served down while the corpus is being built.
ServeFirst == <<Medallion, "fraud_graph", "resync", "corpus", Medallion>>
RoutineSteps == <<Medallion, "fraud_graph", "corpus", "resync", Medallion>>

NoScript == [name |-> "none", left |-> <<>>, since |-> 0, allow |-> FALSE, fresh |-> FALSE]

\* pipelines/run.py refresh finds one landing table of each source; only the decision
\* records' may be missing, and only if it is told so.
MedallionReady(allow) ==
    /\ feed.streaming
    /\ risk # None
    /\ feed.records \/ allow

\* Faulty: the feed is not looked at.
SeedsAlways == TRUE
MaySeed == ~feed.configured

\* What a step finds of what it needs.
Ready(step, allow) ==
    CASE step = "seed" -> MaySeed
      [] step = "create_cdf" -> ~feed.configured
      [] step = Medallion -> MedallionReady(allow)
      [] step = "corpus" -> gold > 0
      [] step = "resync" -> reference.risk # None
      [] OTHER -> TRUE

Step == Head(script.left)

\* The last step of a script ends it.
Advances ==
    IF Len(script.left) = 1
    THEN script' = NoScript /\ finished' = [name |-> script.name, since |-> script.since]
    ELSE script' = [script EXCEPT !.left = Tail(@)] /\ UNCHANGED finished

Takes(step) == script.left # <<>> /\ Step = step /\ Ready(step, script.allow) /\ Advances

Start(name, steps, allow) ==
    /\ script = NoScript
    /\ script' = [name |-> name, left |-> steps, since |-> feed.landed, allow |-> allow,
                  fresh |-> ~feed.configured]
    /\ UNCHANGED <<sourceVars, derivedVars, finished>>

Bootstrap == Start("bootstrap", BootstrapSteps, TRUE)
Refreshes == \E allow \in BOOLEAN :
    \/ Start("routine", RoutineSteps, allow)
    \/ Start("demo", <<"backlog">> \o RoutineSteps, allow)

\* check=True: a step that cannot be taken, or fails, stops the script.
StopScript ==
    /\ script # NoScript
    /\ script' = NoScript
    /\ UNCHANGED <<sourceVars, derivedVars, finished>>

\* pipelines/run.py generate: raw files, which no table here is read from.
Generate == Takes("generate") /\ UNCHANGED <<sourceVars, derivedVars>>

\* The fixture's rows are deleted and written again: a configured feed carries all of it.
SetupAndSeed ==
    /\ Takes("seed")
    /\ lake' = IF lake = 0 THEN 1 ELSE lake
    /\ fixtures' = IF feed.configured THEN fixtures + 1 ELSE fixtures
    /\ UNCHANGED <<recorded, feed, derivedVars>>

\* Configured once, it streams in its own time ...
CreateCdf ==
    /\ Takes("create_cdf")
    /\ feed' = [feed EXCEPT !.configured = TRUE]
    /\ UNCHANGED <<lake, fixtures, recorded, derivedVars>>

FeedStreams ==
    /\ feed.configured /\ ~feed.streaming
    /\ feed' = [feed EXCEPT !.streaming = TRUE, !.landed = lake, !.records = recorded]
    /\ fixtures' = fixtures + 1
    /\ UNCHANGED <<lake, recorded, derivedVars, script, finished>>

\* ... which is waited for, but not for ever; the configuration stays.
AwaitCdf == Takes("await_cdf") /\ feed.streaming /\ UNCHANGED <<sourceVars, derivedVars>>

\* fraud_graph_job: an empty table before there are claims, never over one there is.
FraudGraph ==
    /\ Takes("fraud_graph")
    /\ risk' = IF gold > 0 THEN gold ELSE IF risk = None THEN 0 ELSE risk
    /\ UNCHANGED <<sourceVars, gold, precedents, fact, reference>>

RunMedallion ==
    /\ Takes(Medallion)
    /\ gold' = feed.landed
    /\ fact' = [claims |-> feed.landed, risk |-> risk]
    /\ UNCHANGED <<sourceVars, risk, precedents, reference>>

PriorClaimsCorpus ==
    /\ Takes("corpus")
    /\ precedents' = gold
    /\ UNCHANGED <<sourceVars, gold, risk, fact, reference>>

ResyncSyncedTables ==
    /\ Takes("resync")
    /\ reference' = [risk |-> risk, precedents |-> precedents]
    /\ UNCHANGED <<sourceVars, gold, risk, precedents, fact>>

\* demo_backlog: new claims, adjudicated by the endpoint.
DemoBacklog ==
    /\ Takes("backlog")
    /\ lake < MaxChanges
    /\ lake' = lake + 1
    /\ recorded' = TRUE
    /\ UNCHANGED <<fixtures, feed, derivedVars>>

\* By hand, when both tables are there (SyncedTables has the programs).
CreateSyncedTables ==
    /\ reference.risk = None /\ risk # None /\ precedents # None
    /\ reference' = [risk |-> risk, precedents |-> precedents]
    /\ UNCHANGED <<sourceVars, gold, risk, precedents, fact, script, finished>>

\* The app, the worker and the endpoint go on writing ...
ChangeLake ==
    /\ lake \in 1 .. MaxChanges - 1
    /\ lake' = lake + 1
    /\ recorded' \in {recorded, TRUE}
    /\ UNCHANGED <<fixtures, feed, derivedVars, script, finished>>

\* ... and the feed lands what they wrote, later and in order.
Land ==
    /\ feed.streaming
    /\ \E n \in feed.landed .. lake, records \in {feed.records, recorded} :
         feed' = [feed EXCEPT !.landed = n, !.records = @ \/ records]
    /\ UNCHANGED <<lake, fixtures, recorded, derivedVars, script, finished>>

RefreshInit ==
    /\ lake = 0 /\ fixtures = 0 /\ recorded = FALSE
    /\ feed = [configured |-> FALSE, streaming |-> FALSE, landed |-> 0, records |-> FALSE]
    /\ gold = 0 /\ risk = None /\ precedents = None
    /\ fact = [claims |-> 0, risk |-> 0]
    /\ reference = [risk |-> None, precedents |-> None]
    /\ script = NoScript /\ finished = [name |-> "none", since |-> 0]

RefreshNext ==
    \/ Bootstrap \/ Refreshes \/ StopScript
    \/ Generate \/ SetupAndSeed \/ CreateCdf \/ AwaitCdf \/ FeedStreams
    \/ FraudGraph \/ RunMedallion \/ PriorClaimsCorpus \/ ResyncSyncedTables \/ DemoBacklog
    \/ CreateSyncedTables \/ ChangeLake \/ Land

RefreshSpec == RefreshInit /\ [][RefreshNext]_refreshVars

-----------------------------------------------------------------------------

\* Types: nothing derived is ahead of what it is derived from.
RefreshTypeOK ==
    /\ lake \in 0 .. MaxChanges /\ fixtures \in Nat /\ recorded \in BOOLEAN
    /\ feed \in [configured : BOOLEAN, streaming : BOOLEAN, landed : 0 .. lake, records : BOOLEAN]
    /\ gold \in 0 .. feed.landed /\ risk \in None .. gold /\ precedents \in None .. gold
    /\ fact.claims \in 0 .. gold /\ fact.risk \in 0 .. fact.claims
    /\ reference.risk \in None .. risk /\ reference.precedents \in None .. precedents
    /\ script.since \in 0 .. feed.landed /\ finished.since \in 0 .. feed.landed

\* setup_and_seed.py:218-220: whatever is stopped and started again, the change history carries
\* the seeded fixture at most once, and whatever is derived from claims has it in it.
SeededOnce ==
    /\ fixtures <= 1
    /\ gold > 0 => fixtures = 1

\* bootstrap.py: in an empty workspace every step finds what it reads, so that nothing is
\* retried until it works; whatever is written meanwhile.
BootstrapFindsItsInputs ==
    script.name = "bootstrap" /\ script.fresh => Ready(Step, script.allow)

\* refresh.py: when a routine or demo refresh has ended, what the feed had landed when it
\* began is in the fact with its risk, in the risk and the precedents the agent reads, and in
\* what is built from them.
RefreshReachesEverything ==
    finished.name \in {"routine", "demo"} =>
      /\ fact.claims >= finished.since /\ fact.risk >= finished.since
      /\ reference.risk >= finished.since /\ reference.precedents >= finished.since
=============================================================================
