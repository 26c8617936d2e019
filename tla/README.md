# A formal model of the claims adjudication service

TLA+ modules that model the service in this repository, the TLC configurations
that check them on small instances, and TLAPS proofs of the properties that
matter most. Paths are relative to the repository's root.

## 1. The system

A customer files a claim on delivered steel. An *adjudication endpoint* computes
what the contract says and asks a language model for a recommendation; an
*adjuster* makes the final decision in the App; *jobs* on Kafka carry claims to the
endpoint and decisions to the departments that act on them. One PostgreSQL
database (Lakebase) holds the operational state; its change feed ends in Delta
tables, which the medallion pipelines read.

    runner / intake --> claims --(change feed)--> producer --> claim.submitted
                                                                    |
            runner -------------------------------------+         worker
                                                        v           v
                                             adjudication endpoint (rules, model,
                                                        |        enforcement)
                                       one transaction  v
                            adjudications + adjudication_decision_records
                                                        ^
               adjuster --> App: finalize --------------+---> outbox
                                       one transaction           |
                                                               relay
                                                                 v
     settlement / investigation / supplier-recovery / notification <-- claim.adjudicated

### Inventory

| Component | State | Operations | What makes it correct |
|---|---|---|---|
| Decision rules (`agent/src/disposition_rules.py`, `decision_record.py`, `agent_tools.py`) | none: pure | `deterministic_outcome`, `default_recommendation`, `enforce_invariants` | whatever the model answers, money follows the authorities; corrections are recorded; the fallback is not itself a violation |
| Authorities (`agent/src/authorities.py`, `resolution.py`) | none: pure | months, coverage, proration, settlement, exclusions; resolution of the policy in force | boundary dates, a factor of nothing, caps; one statement's policy never older than an earlier one's |
| Duplicate gate (`agent/src/duplicate.py`) | reads `claims` | blocking query with a window and a limit, match | the later of two identical claims is denied, and not the earlier |
| Endpoint's write (`agent/src/writer.py`, `agent.py`) | `adjudications`, `adjudication_decision_records` | `adjudicate`, `write_adjudication` (two INSERTs, one transaction) | row and version 1 never diverge; a retry changes nothing |
| Finalization (`app/server/finalize.ts`) | the same tables, `outbox` | `runFinalize` (SELECT FOR UPDATE, UPDATE, INSERT of the next version, INSERT of the event) | all or nothing; first write wins; overrides are explained; the deterministic baseline survives |
| Outbox relay (`services/src/relay.py`) | `outbox.published_at` | fetch, produce, delivery callback, mark | at least once: nothing is marked that the broker does not have |
| Consumers (`services/src/consumers.py`, `consumer_core.py`) | offsets, `settlements`, `investigation_cases`, `supplier_recovery_cases` | poll, apply, commit the offset | no handled decision without its case, no case without its decision, redelivery is harmless |
| Producer (`services/src/producer.py`) | stream checkpoint | plan, emit, commit a batch | nothing the checkpoint passed is missing from the topic |
| Worker (`services/src/worker.py`, `worker_core.py`) | offsets | dedup lookup, invoke, commit the offset | no claim passed over; the seeded history untouched; one adjudication for each claim |
| Demo runner (`demo/src/runner.py`) | none that lasts | insert claims, invoke the endpoint | as the worker |
| Roles (`app/server/authz.ts`, `identity.ts`) | a cache of role sets | resolve, expire, evict | only adjusters finalize; a stale role ends with its TTL |
| Registration, evaluation runs, promotion, deployment (`agent/src/register_agent.py`, `deploy_agent.py`, `eval/src/evaluate.py`, `promote.py`) | versions, `@candidate`, `@prod`, MLflow runs, the endpoint | register, stamp, score, gate, move the alias, deploy | only what has passed the gate is served; each move of the alias is to a version that beats the one it was judged against |
| Ablation harness (`eval/src/ablation.py`) | worker processes and pipes, rows, MLflow runs | start, ask, time out, replace, shut down, report | an answer is to its own claim; it ends; it reports only what is complete |
| Evaluation datasets (`eval/src/build_dataset.py`, `heldout.py`) | holdout, managed dataset | take entities, select and validate live rows, merge, sample | no entity on both sides; labels are what the live rules decide |
| Precedent corpus (`agent/src/prior_claims_corpus_job.py`) | staging table, corpus | stage, embed, merge | a narrative is stored with its own vector |
| Fraud graph (`agent/src/fraud_graph.py`, `heat_risk.py`) | risk rows | union, score, publish, look up | risk is of the customer's heat, in whatever order claims come |
| Policy intake (`lakebase/src/policy_intake.py`) | four policy tables | load a source in one transaction | running invocations never read backward |
| Synced tables and principals (`lakebase/scripts/`, `agent/scripts/setup_serving_sp.py`, `app/scripts/setup_app_sp.py`) | tables, indexes, grants, roles, secrets | create, recreate, resync, re-grant, set up | a program that ends well leaves everything readable |
| Bootstrap, refresh, medallion (`scripts/`, `lakebase/run.py`, `pipelines/`) | change feed, gold tables, synced copies | seed, configure the feed, run the pipelines and jobs in order | every step finds its inputs; a refresh reaches everything; a bad row would stop the update, so none may be written |

### What is hard

Transactions of the endpoint and the App interleave statement by statement on the
same rows; any statement may fail, and the reply to a COMMIT may be lost. Every job
may stop between two of its external effects, and its messages then come again. An
invocation goes on after its caller has given up. A deployment changes the
adjudication id of the same claim under everybody's feet, and policies, claims and
group memberships change between two reads of them. The model may answer
anything its schema admits. The operators' programs are started in any order,
stopped anywhere and started again. `PROJECT.json` lists these hazards at their lines
with the properties that would catch them.

## 2. The modules

| Module | Models | Extends / uses |
|---|---|---|
| `Verdicts` | the vocabulary, the mappings between its two forms, `Coherent` and `Enforced` | |
| `DecisionLedger` | abstract: each adjudication takes one recommendation and then one human ruling, the ruling and its event in a single step | `Verdicts` |
| `Adjudications` | the store and its two writers, one action for each SQL statement | `Verdicts`; `DecisionLedger` by refinement |
| `DecisionRules` | the core's facts, the model's answer, the enforcement | `Verdicts` |
| `Scorers` | what the evaluation's money-safety scorers ask of a recommendation | `DecisionRules` |
| `Authorities` | dates, proration, settlement, exclusions, the duplicate gate: pure functions | |
| `Endpoint` | an invocation, statement by statement, up to its facts, then the rules and the write; claims and policies that come in meanwhile | `Scorers`, `Authorities` |
| `Departments` | abstract: decisions are made once, and each opens the cases it calls for at most once | |
| `FanOut` | outbox, relay, `claim.adjudicated`, consumers, cases | `Departments` by refinement |
| `Downstream` | the store and its writers together with the departments that live on its outbox | `Adjudications`; `Departments` by instance |
| `Submission` | runner, change feed, producer, `claim.submitted`, worker, endpoint as a whole | |
| `Roles` | the App's guard: permission matrix, allowlists, role cache, awaited group lookup | |
| `Release` | registration, evaluation runs, promotion, deployment | |
| `Harness` | the ablation harness, its workers and their pipe | |
| `Datasets` | holdout, held-out set, sample | |
| `SyncedTables` | the reference tables, their readers and the programs that make both | |
| `Refresh` | bootstrap, refresh, change feed, what each table reflects | |
| `PriorClaims` | the precedent corpus job | |
| `HeatClusters` | the fraud graph: the union of its edges, one by one, its scores and the rows it publishes | |
| `AdjudicationsProofs` | the theorems of the store, and of the departments on its outbox | `Downstream` |
| `EndpointProofs`, `RolesProofs`, `FanOutProofs`, `SubmissionProofs` | the theorems of the module each is named after | that module |
| `EvaluationProofs` | the theorems of the evaluation | `Harness`, `Datasets`, `Release` |
| `OperationsProofs` | the theorems of the operators' other programs | `SyncedTables`, `Refresh`, `PriorClaims`, `HeatClusters` |
| `Recursions` | lemmas on numbers and on the functions that are defined by recursion on them | |
| `MCAdjudications`, `MCDownstream`, `MCEndpoint`, `MCFanOut`, `MCSubmission`, `MCRoles`, `MCOperations` | the values TLC gives the constants; `MCOperations` puts the last seven systems into one run | the above |

The definitions marked *Faulty* in the modules are the actions with a plausible
mistake in them (a missing guard, an autocommit connection, an early offset
commit). No specification uses them: they are there to be substituted for the
correct definition, to see that the property named beside them in `PROJECT.json`
notices. The `map` of `PROJECT.json` ties every definition to its lines.

### Adjudications

`adjudications`, `records` and `outbox` are the committed tables. `calls[k]` and
`requests[r]` are open transactions, holding what each has read and which statement
it is at; its writes reach the tables at COMMIT. READ COMMITTED and PostgreSQL's
locks are what the code relies on:

- an INSERT whose key another open transaction has inserted waits
  (`InsertWaits`) and then finds the row or its absence;
- `SELECT ... FOR UPDATE` of a row waits for the transaction that holds it
  (`Locked`); the UPDATE re-checks `decision_status` under that lock.

`FailCall` and `FailFinalize` may strike after any statement: a failed statement, a
crash and a lost connection all roll back. A COMMIT whose reply is lost is
`CommitFinalize` with the reply "failed", after which the adjuster may ask again
with another decision.

The adjudication id is the pair (claim, digest of `authorities.py`), which is what
`build_idempotency_key` hashes: `schema_version` and `record_version` are constants.
Which version
serves is not tracked: an invocation may run with any of `Sources` at any time, which
covers every deployment and rollback (`Submission` tracks it). A collision of SHA-256 is
left out. Rows the seed inserts as FINAL carry ids of their own and no decision record; they
are outside `AdjIds` here and `Seeded` in `Submission`.

Amounts are naturals, read in the runs as eighths of a cent, so that the rounding of a
`numeric(18,2)` column can be seen: `Stored` maps an amount to what that column
keeps, here and in the departments' case tables. `claimed_amount` has the same type, and
the settlement authority rounds to cents (`Recommendations`). `finalize.ts` compares amounts
up to 1e-9, which is `Tolerance`: two eighths in the runs, so that there are amounts above
zero that pass for zero, and others that do not and are rounded down or up. What is within
the tolerance of whole cents is rounded to them, as 1e-9 is far from half a cent.
`Coherent`, which says what verdict, disposition and amount may stand together, is given
"nothing" as its user understands it: zero for a recommendation, `AmountsEqual(amount, 0)`
for an adjuster's decision.

What a recommendation may be is `Enforced`, from `Verdicts`. `DecisionRules` proves that
the endpoint provides it (`ContractKept`), so the two halves meet in one definition.

### DecisionRules, Scorers, Authorities, Endpoint

`DecisionRules` takes the authorities' outputs as arbitrary inputs of their types; the
model's answer is any value of the `Recommendation` schema, or the fallback.
`EnforceInvariants` is translated branch by branch, and `Violations` is the list it
records. `Scorers` states what `eval/src/scorers.py` then demands. The two agree but
for one answer: the denial of a claim type that no authority covers stands in
`enforce_invariants` and fails `verdict_matches_eligibility`, and `SafeOnEveryRecord` names
that exception.

`Authorities` works on a calendar whose months are short but of different lengths, in cents
and in parts of `Scale`, where the code has days, dollars rounded to cents and a factor
rounded to six digits: the roundings are there, their size is not. `MonthsBetween` is
Spark's definition, which the history is generated with; the theorem `MonthsDifferAtMonthEnds`
states exactly where it and `completed_months` differ. The policy loader compares no duration
with the full coverage, so a warranty may end before its full coverage: after both, the code
divides two negative numbers, and `ProrationFactor` is above `Scale`, as the code's is above
one. Such an estimate may exceed the claim, but only after the warranty has ended, when
nothing is paid on it (`PaymentBounded`).

`Endpoint` executes `adjudicate`'s statements in order: coil, specification, warranty, the
gate, clauses, the two advisory lookups. At READ COMMITTED each sees what is committed when
it starts, so `Submit` (another claim) and `RunIntake` (the next policy source, four tables
in one transaction) may come between any two. When the facts are handed over, nothing else
of the world is read, and it stands still. The initial states are of two kinds: an
invocation at its start, and one that hands over any facts at all, so that the rules are
checked beyond the facts this instance's claims give rise to. `aborted` is PostgreSQL's
state of a transaction one of whose statements has failed: the code catches the
exception, the connection does not.

### FanOut

`created_at` is the time the finalize transaction began, so `outbox` is a sequence in
which a row takes its place at BEGIN and becomes visible at COMMIT, possibly behind rows
already published. `relay` is the run in progress; `Deliver` and `MarkPublished` are
separate, as the callback is asynchronous; `FailDelivery` may leave the event at
the broker or not. Messages are keyed by claim, so `topic` has one sequence for each claim,
and the order between claims is free. `MaxEvents` is the window of `SELECT_UNPUBLISHED_SQL`,
whose rows `Fetched` gives by their places. Each consumer group applies its action (an
autocommitted statement) and then commits the offset; `CrashConsumer` strikes between.
The payload's `supplier` is a Boolean: whether the event is attributable and names a
supplier to recover from is all the plan reads of it.

### Departments and Downstream

`Departments` is what the fan-out promises. Its four actions are the four things that can
happen seen from the departments: a decision is made, on an adjudication that had none,
and a settlement, an investigation or a recovery is opened, from a decision that stands, on a
claim that has none. No case is written twice. `FanOut` implements it
(`DepartmentsKept`): `decided` is the events of the committed outbox rows, the case tables
are themselves, a COMMIT is `Decide`, the first application of an event opens its case, and
everything else stutters: fetches, deliveries, marks, offsets, rollbacks, crashes and every
repetition. This needs what `consumer_core.py` says, that a claim has one
adjudication: with two, the settlement's upsert overwrites (`fan_out_siblings`).

`Downstream` then puts the promise in the place of relay, broker and consumers, and
composes it with the store: `decided` is the payloads of `Adjudications`' outbox, the writers
take their steps as before, and between any two of them a department may open a case
(`OpenCase`). So the two transactions of the store and the cases downstream are in one
specification, and `CasesAreRuled` is about both ends: no settlement, recovery or
investigation that is not what an adjuster's version of the decision record says, to the
cent its `numeric(18,2)` column keeps, and within the claim. `Attributable` is the
adjudications whose row names a supplier; `store` lets every one do so.

### Submission

`cdf` is the insert rows of `public.claims` in the change feed, the seed's first. The
producer's micro-batch is planned, emitted in any order, then committed; a restart
repeats the planned batch. The worker's dedup lookup, invocation and offset commit are
separate steps. An invocation belongs to the worker, to the runner, or to nobody
("gone") once its caller has timed out; in every case it finishes or fails on its own.
The endpoint's transaction is one step: `Adjudications` justifies that. A claim in
`Poison` is one the endpoint can never adjudicate: its reference data does not resolve,
and `adjudicate` raises.

### Roles

`resolveRoles` runs to its one await without interruption. So `ByAllowlist`, `WithoutToken`
and `ByCache` answer in a step, and a lookup takes three: `Lookup` sends it (and purges
an expired entry), `ScimReads` is the moment SCIM reads the memberships, `ScimReplies`
is everything after the await, the cache and the guard included. `LookupFails` is an
error, a bad status, a bad body or the timeout. Requests of one user overlap, and
`ChangeGroups` may strike at any moment. `entries` and `order` are the `Map` and its
insertion order. A caller whose e-mail header is missing is `named = FALSE`: looked up,
never cached.

Time is kept relative, so that nothing needs a bound: an entry has a remaining
lifetime, a lookup an age, and `changed[u][role]` is how long ago that role last changed,
each no further than it makes a difference (`Window`, the cache's lifetime plus the
lookup's timeout). `changed` is no part of the code; only the properties read it.
The path's action is an input, and so is the role a group name stands for.

### Release

Four programs share the registry, the experiment's runs and the endpoint. A
registration logs, validates, registers and stamps `@candidate`, and may stop after
each. An evaluation resolves its `models:/` URI twice, once to pin the version it tags
its runs with and once to load it; an alias may move in between, so the tag may be
another version's than the one that was scored. The gate sees the tag alone. `provenance`
shows the disagreement (`ScoredIsTagged`); `operations` evaluates by number (`URIs`), where
`ReleasedIsGated` asks for a run that is tagged with the released version and has scored it.
A run exists, tagged, before anything is measured on it, and a
pilot and the judges' run carry the same tag. A promotion reads `@prod`, the latest exact
run of the candidate, that of `@prod`, and then sets the alias without comparing it.
`MaxRuns` bounds the runs before the judges are asked.

### Harness

A candidate answers in a worker process of its own. The worker's steps are its own: it may
be slow, hang, die, fail at any point, or answer late. The harness polls with a limit in
each state, and a timeout kills the worker and closes the pipe with whatever is in it. The
answer to a claim is modelled by the claim it is for. Candidates that are called in the
harness's own process have no such states and are left out. A worker that survives SIGKILL
is a process nothing can end, and not modelled either.

### Datasets

`StableHoldout` is the code's fold over the strata and then over the entities. The held-out
set is selected row by row by the live rules, validated again on another connection, and
merged into the managed dataset, while a policy intake may come between any two reads
(`Reads`). What a row is decided as under each policy is a constant of the instance. A quota of
nothing is never met and so refuses every set: the code compares the number before it
takes the row. The merge keeps what earlier builds put there.

### SyncedTables

One operator runs one program at a time, and any may stop at any step: `create`,
`recreate` (delete, drop, create again, wait, index, re-grant), `resync`, and the setups of
the two principals. A synced table's first sync happens in its own time, and fails on a
Postgres table left behind. An account administrator may delete the serving principal:
its role, ids and secret stay, and the next principal of that name must not be taken for it.

### Refresh

A table is the number of the last change of Lakebase it reflects. The scripts are
sequences of steps, each with what it must find; the first that fails stops the script.
The change feed is configured once and lands changes late and in order. `fixtures` counts how
often the feed carried the seeded history.

### PriorClaims and HeatClusters

The corpus job reads the narratives once into a staging table and plans, embeds and merges
from it. The graph job unites the ends of its edges one by one, in any order, of which the
code's is one, with a union-find whose union is by the smaller root; path compression
changes no root and is left out. A score is the exact ratio rounded to ten-thousandths, as
the code's `round(..., 4)` has it. `LargestHeat` bounds the claims of one heat: beyond 15000
the rounded score could not tell a half from a little more, and the documented threshold
would be off by a claim. A heat of this plant is a handful of coils.

## 3. What the runs check

| Run | Instance | Question | States |
|---|---|---|---|
| `store` | 1 claim; 2 invocations and 1 adjuster, or 1 invocation and 2 requests of 2 users; amounts from 0 to 2 cents, above zero within the tolerance, and around half a cent; the departments | is `IInv` an invariant whatever interleaves or fails; do the three tables tell one story; does a decision stay, is it explained, does its row pass the silver pipeline; is every case ruled by an adjuster; does the store refine `DecisionLedger` | 383,581 |
| `cents` | an amount of half a cent | *violated*: `OneAmount` | |
| `gold` | an amount below the tolerance | *violated*: `MedallionSafe` | |
| `endpoint` | 4 months, 2 coils, 2 policy sources of 2 warranty versions, 3 other claims; and all facts with all answers | payment bounded and falling with time, duplicates, policies read forward; contract, model can only hold, recorded corrections, scorers | 1,350,212 |
| `advisory` | the same | *violated*: `AdvisoryNeverBlocks` | |
| `fan_out` | 2 decisions, window of 1, 4 groups one at a time, 2 faults | does it implement `Departments`, whatever is repeated; is nothing acknowledged before it is done; does every decision arrive | 423,184 |
| `fan_out_siblings` | 2 adjudications of 1 claim | *violated*: `RedeliveryIsNoOp` | |
| `submission` | a seeded, a live and an unresolvable claim in 1 partition, 1 stop, 1 abandoned call; and the worker alone with 2 claims, 2 digests, 2 stops | nothing skipped, nothing lost, history untouched; each claim adjudicated once, and by the worker alone every claim in the end | 982,776 |
| `submission_race` | worker and runner, 2 digests | *violated*: `AdjudicatedOnce` | |
| `roles` | a cache of 1 entry, 3 users, one whose groups change, 2 overlapping requests, lifetime 2, timeout 1 | is a role used, or missed, for longer than the window; does the cache keep each user once, and its capacity | 1,994,876 |
| `operations` | below | one question of each of the operators' programs | 991,018 |
| `provenance` | evaluations by number or by `@candidate`, 2 versions | *violated*: `ScoredIsTagged` | |

**Why these bounds are enough to be interesting.** In `store` two invocations for the
same id reach every overlap of their transactions, with a third party that finalizes
what the first has written while the second is open, and departments that act on its event
before, between and after the statements of both. Two requests suffice for lock
order: a third only waits behind them. A second digest would only
double independent rows in `Adjudications`, where any number of them is covered by the proofs; in
`Submission` two digests give a claim its two adjudications. The amounts cover zero,
the tolerance, what is rounded down and what is rounded up, the claim, and more than the
claim within the tolerance and beyond it. The two races are two scenes of one behaviour space
(`scene` in `MCDownstream`): in the first the adjuster decides on nothing or on half a cent,
in the second on any amount.

In `endpoint` the months have three, two, three and three days, so that a month's end
falls before, on and after a shipment's day; claims are dated before the shipment, at and
between the full and the total coverage, and after it; the query's limit is 1, so the true
duplicate may be the row that is cut off; the second source asks more of the
coating, and its warranties end before their full coverage (a factor above one is reached)
and with it.

In `fan_out` a window of one with two rows is a backlog longer than the window, and two
faults give every single and double redelivery of relay and consumer. The four groups share
the topic and nothing else, so one runs at a time (`Deployments`). Its approvals have an
amount greater than 0; an approval of 0 is covered by the proof. In `submission`
one poison, one seeded and one live claim in one partition put every kind of
message ahead of and behind every other; redeployments are kept apart from abandoned invocations, in
a scene of their own (`MCSubmission`), as the two together give a claim its two
adjudications (section "Disagreements"). In `roles` a lifetime of 2 and a timeout of 1 let
an older answer overwrite a newer entry and then expire, with every order of the two
lookups and of a change between them; the other two users compete for the entry.

In `operations` two versions, three sets of metrics and two runs before the judges are
asked let a better, a worse and an unsafe version be scored, unfinished and scored again, and
two promoters read, compare and move the alias in every order, during which nothing is
registered or evaluated (`Undisturbed` in `MCOperations`; either does happen during one promotion);
three candidates with four claims and an early-failure limit of 2 let one fail early, one
fail later and one answer; histories of seven entities have a duplicate in an entity with
its original, and a policy that changes the rule of one or two rows; two principals one
after the other; three changes of Lakebase beyond which a refresh has nothing new to show;
two claims, narratives and models; every network of four claims over two customers and
heats, with missing ones, in two orders, and their edges in every order. The scenes share
no state in the code's terms either, so one is at work in a behaviour and the others stand still.

The bounds in guards are `MaxFaults` (`FanOut`), `MaxStops` and `MaxAbandoned`
(`Submission`), on faults; `MaxVersions`, `MaxRuns`, `MaxPrincipals`, `MaxChanges` and
`Policies` on what people and the world may do. Nothing the code does by
itself is bounded. `Calls` and `Requests` are how many may be open together: each
serves any number one after another.

**Deadlock** is checked except where the system may rest: `endpoint` and `advisory` (an
invocation ends), the fan-out runs (every adjudication is decided and handled),
`submission` (every claim is handled and the bound on faults spent), and `operations` and
`provenance` (the ablation is over, a job done).

**Symmetry** is used only in runs without liveness, over invocations, requests
and users, none of which the specification tells apart.

### Fairness

The relay, the producer, the worker and the consumers are hourly jobs with
`max_concurrent_runs: 1` (`services/resources/*.yml`): one run at a time, and always
another one. Hence weak fairness of `Relay`, `Producer`, `Worker`, and for each group
of `CommitOffset` and of `Apply` on each claim. The endpoint finishes what it begins (`FinishCall`)
unless it fails, which is a fault and bounded. Nothing is assumed of
adjusters, of the runner, of deployments, and no fault must happen. Crashes are bounded
because with unboundedly many between any two steps nothing need ever arrive.

`HarnessFairness` is weak fairness of the harness's own steps: it is the process that was
started, and its polls return. Nothing is assumed of the workers, which may hang for ever
at any point; `AblationEnds` holds because no state waits without a limit.

### Disagreements between the code and what it says of itself

- `submission_race`: `services/src/worker_core.py:12-14` says a race between the dedup check
  and the write cannot double-adjudicate. The id contains the digest of
  `authorities.py`, and the runner invokes without a check: the worker looks a claim up, the
  runner invokes, a deployment changes the digest, the worker invokes, and both write.
  `submission` shows the sentence right when nobody but the worker invokes and the endpoint
  answers in time, or is not redeployed. Without a runner, an invocation that goes on after
  the worker has given up on it, and a deployment before the message comes again, do the same.
- `fan_out_siblings`: `services/src/consumer_core.py:13-20` says a claim has one
  adjudication and so processing an event twice converges. `app/server/routes.ts:56-57`
  says a claim can carry several; with two of them finalized, an older event
  delivered again replaces the newer settlement. `fan_out` shows the sentence right
  with one adjudication for each claim: there no case is ever written again
  (`DepartmentsKept`), and `RedeliveryAlwaysNoOp` proves the sentence itself.
- `cents`: `app/server/finalize.ts:4-14` speaks of one decision in three places, but only
  the row's column is `numeric(18,2)`, and `routes.ts:64` admits any non-negative
  number: a decision finer than a cent is 0.01 in the row and 0.005 in record and event.
- `advisory`: `agent/src/agent_tools.py:136` says a retrieval failure never blocks the decision.
  The lookups run on the connection whose transaction also writes the recommendation: one
  that fails in SQL is caught in Python, but the transaction is aborted, and the claim gets
  no recommendation.
- `gold`: `app/server/finalize.ts:20-22` says a final decision "cannot poison the silver/gold
  medallion invariants". A denial or a hold passes with any amount below 1e-9 (`:74-76`,
  `:110`, `:113`); the row's column rounds it to zero, so the silver expectation holds
  (`SilverAlwaysSafe`), but the record's `numeric` keeps it, and
  `gold_adjudication_decision_records.py:143` wants exactly zero and fails the update.
- `provenance`: `eval/src/evaluate.py:166-168` says a run's metrics "must provably come from
  evaluating that exact version". With `--model-uri models:/<name>@candidate` the alias is
  resolved once to check it (`:57-80`) and once more to load it (`:170`): a registration
  in between has the next version scored under the first one's tag.
- `agent/src/authorities.py:28` says `completed_months` "matches floor months_between", which
  generates the history (`pipelines/src/generate.py:261`). From 31 January to 28
  February Spark counts one month and `completed_months` none. `MonthsDifferAtMonthEnds`
  proves where exactly: when both are last days of months and the claim's month is
  the shorter, and then by one. No run repeats it.
- `eval/src/promote.py:8-12` says the alias moves "ONLY when the candidate wins", its metrics
  "not worse than current `@prod`". What a promotion compares with is the `@prod` it read
  when it began (`:266`), and `:323` sets the alias without looking again: of two promotions
  at once both may win against the same version, and the later one replaces the better
  candidate by the worse. `operations` shows what does hold with two promoters
  (`MovesAreJudged`): every move beats the version that promotion has read.
- `pipelines/src/transformations/gold_analytics.sql:130` documents the fraud flag as
  `risk_score >= 0.6 AND cluster_size >= 3`; the code it carries decides at 0.75
  (`agent/src/fraud_graph.py:33-45`). Five claims of three customers score 0.6: high by the
  comment, not by the code. `RiskIsOfTheHeat` is the code's rule.

Not claimed otherwise anywhere, but worth knowing: two near-identical claims of one day are
each within the other's window, and both are denied; a `create` of synced tables that is run again
after it failed between a table and its grants skips the table and grants nothing, and says
so; a bootstrap whose wait for the change feed ends too soon leaves it configured, and
cannot be run again; records validated under an earlier policy stay in the managed dataset.

## 4. What is proved

All theorems are checked by TLAPS for every value of the constants that satisfies
the named assumptions:

- `VerdictsAssumption`: no approve disposition is a deny disposition or the hold;
- `AdjudicationsAssumption`: amounts are naturals with 0; `Stored` is monotone, idempotent and
  keeps 0; what is within the tolerance of whole cents is stored as these; a claimed amount is
  in whole cents; `NoUser` is no user;
- `DecisionRulesAssumption`: the three approve dispositions; amounts as above; mill and coating
  properties are disjoint;
- `AuthoritiesAssumption`, `EndpointAssumption`: months have days and follow each other, the
  factor's scale and the query's limit are not 0; claims, coils and terms have the types of
  their tables, and the claims that may come in meanwhile are finitely many;
- `OneVersionAtATime`: no two warranty versions of a source are in force on one date. That
  is so in `policy_source.json`; the loader does not check it, and without it the
  citation of a second version in force is possible (`ReadsForward`, last part);
- `RolesAssumption`: allowlists are of users, bounds are naturals and not 0 where the code
  divides the cases, `None` is no entry;
- `FanOutAssumption`: the groups are among the four, amounts are naturals, the window is not
  0, `None` is no id or amount;
- `SubmissionAssumption`: finitely many claims, of which some are seeded and some unresolvable;
- `ReleaseAssumption`: grades have a top above 0, evaluations log grades;
- `HarnessAssumption`: at least two candidates, a claim and a positive limit;
- `DatasetsAssumption`: an entity has a row, a row's id is its own, quotas are natural numbers,
  and no stratum is both a normal and a narrative one;
- `SyncedTablesAssumption`: the corpus is among the tables, consumers read some of them;
- `RefreshAssumption`: there is a change to seed;
- `HeatClustersAssumption`: a claim is current once, and no heat has more than `LargestHeat`.

Any number of claims, digests, invocations, requests, users, adjudications, messages,
crashes, candidates, runs and people promoting, any histories, tables, networks of claims
and orders of their edges, and any amounts.

### The store (`AdjudicationsProofs`)

`OneStory` is not inductive by itself: that a COMMIT leaves a coherent story depends on what
the transaction has read still being true. `IInv` adds

- `InvocationKnows`: the row an open invocation has inserted is still absent for everybody
  else, and the row it did not insert is there; so its two rowcounts agree
  (`InsertsAgree`);
- `OneInserter` and `OneHolder`: at most one open transaction has inserted an adjudication, and
  at most one holds its row;
- `RequestKnows`: the row a request has read is the row as it stands, still
  RECOMMENDED, and the decision validates against it;
- `AgentEntry` and `HumanEntry`: version 1 is a recommendation the endpoint may make, version 2 a
  ruling over it.

`InitInvariant` and `NextInvariant` prove it inductive with one lemma for each action
(`AdjudicateStep` ... `FailFinalizeStep`); `StoreKept`, `InvocationsKept`, `RequestsKept`
and `StatementStep` are what those share. From it follow `TypeCorrect`, `StoryIsOne`,
`InsertsAlwaysAgree`, `OverridesExplained` and `FinalStays`.

What the medallion pipelines demand is proved as far as the code has it. No row fails the
silver expectation, at whatever amounts (`SilverAlwaysSafe`): what the tolerance lets through
is rounded away by the row's column. A record version that fails the gold one is a human's
denial or hold at an amount above zero and below the tolerance, and nothing else is
(`GoldStopsOnDustAlone`); so where none is submitted, `MedallionSafe` holds
(`MedallionSafeWithoutDust`).

`StoreImplementsLedger` is the refinement `Spec => Ledger!Spec` with `ledger <- records` and
`announced <- outbox`: `CommitCall` of an absent row is `Propose`, `CommitFinalize` is
`Rule`, everything else stutters. `Ruling` states an override as a difference between
the two *versions*, while the code compares the request with the *row*, in the other
vocabulary and in whole cents: `DiffersFromAgent` shows they are the same.

`CasesAlwaysRuled` goes on to the departments (`Downstream`). `IInv` is an invariant there
too, as opening a case leaves the store alone (`DownstreamIsStore`). A payload in the outbox
is the ruling of its adjudication's version 2, made by an adjuster (`EventIsRuling`, from
`OneStory` and `HumanEntry`); a case is opened from such a payload (`OpenCaseKeeps`); and no
later statement of any transaction can take the ruling away (`WritersKeepCases`, from the
lemma `StoreKeeps` that `FinalStays` also rests on).

### The endpoint (`EndpointProofs`)

For the rules the invariant is that an enforced recommendation is the enforcement of the
answer in hand; the rest is about the pure functions: `ContractAlwaysKept`,
`ModelAlwaysOnlyHolds`, `FallbackAlwaysClean`, `EnforcementAlwaysSettles`,
`CorrectionsAlwaysRecorded`, `RecordsAlwaysSafe`. These are theorems of `Spec`, an invocation
that starts with any facts, which is what `Rules` does once the core has handed its facts
over.

For the core, `CoreInv` says what each statement leaves for the next: before a table has been
read its source is 0, afterwards it lies between the source read before it and the one
loaded now (`Known`); an intake moves all tables by one (`OneSource`). `AlwaysReadsForward` follows.
`MonthsDifferAtMonthEnds` is about two dates alone. `PaymentAlwaysBounded` rests on lemmas
of integer arithmetic: rounding keeps the order (`RoundedMonotone`) and a share of an amount rounds to
no more than the amount (`RoundedShare`), so within the warranty's duration the factor lies in
0..`Scale` and falls with the months (`FactorIsShare`, `FactorFalls`), whichever of duration and
full coverage is longer; the months rise with the date (`MonthsRise`), and the settlement with
the factor (`SettlementBounds`). Past the duration nothing is paid. Its hypothesis
`Amounts = Nat` says that no amount in cents is left out; the instances of TLC have the few they reach.

`DuplicatesAlwaysCaught` has two halves. That a denied claim is the later one compares two
counts of days, which are sums over the months before: `Recursions` gives the function that
sums them (`DayNumberIs`), two such functions agree where both are defined
(`DaysBeforeAgree`), they grow with the month (`DaysBeforeGrow`), and so a number of days
orders dates (`DaysInOrder`). That no duplicate slips through unless the query's limit cuts
it off is a count (`CandidatesCatch`): the rows returned are as many as the limit, each at
least as similar as the one left out, and that one makes it one more.

### The roles (`RolesProofs`)

`KnownIsRecent` is inductive: an answer on its way (`ToldIsRecent`) is right about each
role, or that role has changed since the request was sent, or the answer is too late to be
used; a cached one (`CachedIsRecent`) is right, or the role's last change and the
entry's remaining lifetime fit into the window together. That sum is what no step may
break: `ScimReplies` starts it at the timeout plus a full lifetime, a tick moves one unit
from the one to the other, a hit leaves it alone. The order in which overlapping
answers arrive does not enter, which is why a late older answer is harmless beyond the window.
`AnswersAreGrounded` turns the invariant into the grounds of each answer, from which
`GrantsAlwaysCurrent` and `DenialsAlwaysCurrent` follow.

The order of use is `CacheKept`: it names each cached caller once and nobody else, and no
more than the capacity. `authz.ts` takes a name out of the order and puts it at the end, or
purges the expired ones and then cuts the oldest off, so the proof needs what filtering a
sequence does: it keeps the order, leaves each name once and never makes it longer. Both
together are `RolesInv`; `CacheAlwaysBounded` and the types (`RolesAlwaysTyped`) follow.

### From the decision to its cases (`FanOutProofs`)

`FanOutInv` follows an event from the outbox to its case: an adjudication has one row
(`OneRow`); what the relay has fetched and the broker holds is of a committed row, under its
claim (`FromOutbox`); what is acknowledged or marked is at the broker (`AtTheBroker`); a
group's offset is within the topic, and whatever is before it, and the event in hand, is
done (`OffsetsKept`); a case is of a committed decision (`CasesGrounded`). A row that is
rolled back moves the later ones up, which none of these minds, as they name rows by their
event. `CasesAlwaysHaveCause` and `AcknowledgedIsAlwaysDone` follow.

`FanOutImplementsDepartments` is the refinement `Spec => Depts!Spec`, under the hypothesis that
`ClaimOf` is injective. A COMMIT decides an adjudication that had no committed row
(`CommitDecides`, from `OneRow`); an event that is applied opens its case, or finds it as
that very event has left it (`ApplyOpens`); the other actions leave rows' events and cases
alone (`NothingDecided`).

`WindowAlwaysOldest` is about `SELECT_UNPUBLISHED_SQL` for every window and backlog: the rows
a run fetches are at least one if any is unpublished, at most `max_events`, in their
order from the oldest on, and none is younger than a row it leaves behind. An event
whose delivery has failed is therefore fetched again before any that came later, and
no backlog can hide it: the part of `DecisionsArrive` that concerns the relay's window and is
no liveness. Order is a rank: the number of those below (`BelowCounts`) is an injection into
as many numbers, hence a bijection, whose inverse is the order (`AscendingOrder`).

`RedeliveryAlwaysNoOp` is the sentence of `consumer_core.py:17-20` with the hypothesis it
states itself, that no two adjudications are of one claim. Then a claim's committed events are
one (`OneEvent`), so the case that a handled event has left is of that very event, and its
action, applied again, writes what is there (`HandledAgain`). `fan_out_siblings` shows
what happens without it.

### From the claim to its recommendation (`SubmissionProofs`)

`SubmissionInv`: every row of the planned batch is emitted or still to be (`BatchKept`); the
message in hand is the next of its partition, handled only once its claim is adjudicated,
and the worker waits for at most one invocation, of that claim (`HandKept`); nobody is
about to ask, or asks, for a seeded claim (`SeededSpared`). From these `NothingIsSkipped`,
`NothingIsLost` and `HistoryIsUntouched`.

`WorkerAdjudicatesOnce` is the sentence of `worker_core.py:12-14` with the two hypotheses it
needs: the runner leaves the adjudication to the worker (`Mode = "in_process"`), and no
invocation outlives the wait of its caller (`MaxAbandoned = 0`). Then nobody else invokes, and a
claim the worker is about to ask for, or asks for, has no adjudication yet (`WorkerAlone`);
so the digests of a claim's adjudications are one (`OneDigest`), whatever is deployed,
restarted and delivered again. `submission_race` shows what happens without the first.

### The operators' programs

In `EvaluationProofs`:

- *The harness.* `PipeIsCurrent` says whatever can still be read from the pipe while a
  claim is polled for answers that claim; `Position` how far each candidate is. Hence
  `AnswersAlwaysTheirOwn`, `WorkersAlwaysContained`, `ReportsAlwaysComplete`. What
  `AblationEnds` needs short of fairness is proved as well. A worker says "ready" before
  anything else, and the harness has heard it before it sends a claim (`ReadyFirst`), so
  whatever it polls is an answer, an error or a violation, for each of which it has a case
  (`PolledAlwaysAnAnswer`); and each of its steps is to a later stage of the claim, to a row
  more or to the next candidate, of all of which there are finitely many, while no step of a
  worker takes anything back (`AblationGoesForward`).
- *The datasets.* A set that is valid has had every record pass the gate under a policy in
  force since the build began (`BuildKept`), whence `StrataAlwaysAreRules`. For the holdout
  the walk over the entities is a recursive function, and each of its values is `Sound`:
  entities are taken once, with all their rows, and a stratum counted as met has its rows.
  Two rows of one entity are therefore on one side (`HoldoutAlwaysEntitySafe`). The
  types say more than shapes: a built set fills its quotas (`QuotasFilled`, as rows differ
  in their ids) and a sample has the size asked for, because the places of all rounds are
  enough (`PlacesEnough`) and those ranked first are as many as are asked for
  (`FirstAreCounted`); `DatasetsAlwaysTyped`.
- *The release.* Whatever has a version's number is registered (`Registered`); the run
  under way is the last and nothing has been measured on it (`LastUnmeasured`), so that a
  run's metrics, once there, stay (`RunsStep`); what a promotion has read is of an exact
  run, or of one not measured yet, which passes no gate that asks for anything
  (`PromotionsGrounded`, `UnmeasuredGate`). Where evaluations name versions by number, every
  run has scored what it is tagged with (`ScoredAsTagged`); hence `ReleasedIsAlwaysGated`. A promotion about to move the alias
  has compared its candidate with the version it has read, by exact runs that stay as they
  are (`PromotionsJudged`); hence `MovesAreAlwaysJudged`. Both for any number of promoters.

In `OperationsProofs`:

- *Tables, grants and principals.* `TablesInv` ties a program's place to what it must have
  established: the tables it has dropped are not synced and those it has waited for are in
  Postgres (`CatalogKept`); each GRANT is run or still to run, and a setup has granted, noted
  or still to grant each table of its consumer (`GrantsKept`); past the role, role and secret
  are the living principal's (`CredentialsKept`). `SuccessAlwaysMeansReadable` is what is left
  of it when the program is over, which `OneAtWork` says it is when it has reported.
- *Bootstrap and refresh.* `RefreshInv` has for each step k of a script what the ones before
  it have left (`BootstrapAt`, `RoutineAt`), and that what the tables reflect only grows.
  Hence `BootstrapAlwaysFindsItsInputs` and `RefreshAlwaysReachesEverything`. The feed
  carries the fixture once when it streams and not before, as the seed refuses a feed
  that is configured (`lakebase/run.py:81`), and gold has only what has landed: `FeedKept`,
  and `AlwaysSeededOnce`.
- *The precedents.* `FreshIsStaged`: what a job has embedded is the staged text of every claim
  whose vector it cannot reuse; with `EmbeddingsAlwaysMatch`.
- *The fraud graph.* Parents are never larger than their children (`IsForest`), so `Find` is
  defined (`LeadExists`: it is the least of what one meets on the way up) and a union joins
  exactly two trees, under the smaller root. What is found of a claim is of its heat
  (`FindsItsHeat`), and the ends of an edge that has been united are found together
  (`United`). When no edge is left the clusters are the heats (`ClustersAreHeats`), named by
  their least claim, and rounding decides `high_risk` as the exact ratio does:
  `RiskAlwaysOfTheHeat`, in whatever order edges are united.

The theorems of induction in the library take an operator as a parameter, which no backend here
can instantiate. `Recursions` goes around this: of a nonempty set of numbers there is a
least (`Least`, from `WFMin`, which is about a set), a function exists whose every value is
made of the one before it (`Recursion`), and what is passed on from value to value, given as
a set, holds of all (`Induction`). The day counts, the walks over the entities and the
union-find rest on these; the models have recursive functions, and no `RECURSIVE` operator.

Some theorems state what no run repeats, as it would only double a run's time: the types of
`Adjudications`, `FanOut`, `Submission`, `Roles`, `SyncedTables`, `Refresh`, `Datasets`,
`Release` and `Harness`, `InsertsAgree` (a part of `IInv`), the clean fallback, that enforcing
settles, `KnownIsRecent`, `CasesHaveCause` and, with one adjudication of each claim,
`RedeliveryIsNoOp` (both follow from what `fan_out` checks), what may stop the gold pipeline
(`gold` is a counterexample to there being nothing) and where months differ, and the three on
the relay's window and the harness's progress, which are the safe half of what TLC checks as liveness.

### Only model-checked

Liveness: `DecisionsArrive`, `WorkerReachesEveryClaim`, `AblationEnds`. It is out of the
prover's reach, as is ENABLED: that the relay can take the window, and the harness a next
step, is proved as a statement about what their guards ask for. Every other property of a
passing run is a theorem.

## 5. What is not modelled, and why

- The App's client and read queries, the wiring of the server, dashboards, environment
  manifests (`scripts/envlib`) and platform clients: values, presentation and rendering, no
  rule of the claims.
- The model's tool loop, Genie, ranking of clauses and precedents, the gateways' requests: I/O
  around an answer that is arbitrary here.
- Row scoring beyond the money-safety scorers, the judges' prompts and the statistics of a
  report: numbers over rows, without a state.
- Ablation candidates that are called in the harness's own process; a worker that
  survives SIGKILL.
- Unity Catalog and Genie grants of the setups, and `pipelines/run.py`'s `govern` and
  `decision-records` actions: idempotent calls that leave the program no state to get wrong.
- Parsing of policy documents and of the path and group names of the App: strings.
- The medallion's columns: what they demand of the operational rows is `SilverSafe`
  and `MedallionSafe`.
- `services/src/migrate.py`: DDL that is applied once.
- In the provisioning: the bundle's seed job run directly, which `lakebase/run.py`'s guard does
  not see (guard and job are one step here); a Lakebase role that is deleted together with
  its principal, after which `setup_serving_sp.py:475` would keep the old secret and report
  success; another embedding model behind the same gateway service, which the stored
  provenance (`gateway_embed.py:27-32`) cannot tell either.
- Wording, JSON, timestamps, lineage: no property is about them.

## 6. Plan

1. `Submission` composed with `Downstream`, as `FanOut` has been by way of `Departments`:
   end to end, a submitted claim that an adjuster decides reaches its case. In that
   composition `WorkerAdjudicatesOnce` would provide the hypothesis of
   `FanOutImplementsDepartments`, and the two findings on sibling adjudications would show
   what they amount to together.
2. A compare-and-set of the alias beside the code's set, and a `--model-uri` that is resolved
   once: what `MovesAreJudged` and `ReleasedIsGated` would become with them.
3. Feeding the generated history through the live authorities, to see where the month of
   difference at a month's end reaches a label or an amount.
