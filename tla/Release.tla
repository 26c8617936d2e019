------------------------------- MODULE Release -------------------------------
(***************************************************************************)
(* From a logged artifact to the served version of the agent:               *)
(* agent/src/register_agent.py, eval/src/evaluate.py, eval/src/promote.py   *)
(* and agent/src/deploy_agent.py.  Four command-line programs that people   *)
(* start in any order, and stop; they share the registry (versions and the  *)
(* aliases @candidate and @prod), the runs of the experiment, and the       *)
(* serving endpoint.                                                        *)
(***************************************************************************)
EXTENDS Integers, Sequences

CONSTANTS
    Promoters,            \* promote.py processes
    MoneySafetyMetrics,   \* absolute: the threshold is 1.0
    QualityMetrics,       \* compared with the version in @prod
    BootstrapMetrics,     \* absolute, when there is no @prod
    URIs,                 \* forms of --model-uri: "version", "@candidate", "@prod"
    Top,                  \* the grade of a mean of 1.0; grades are 0 .. Top
    Outcomes,             \* metrics an evaluation may log
    MaxVersions, MaxRuns  \* bounds: registrations, and runs before the judges are asked

Metrics == MoneySafetyMetrics \cup QualityMetrics \cup BootstrapMetrics
Invalid == -1             \* missing, not finite, or outside [0, 1]
Grades == {Invalid} \cup 0 .. Top

ASSUME ReleaseAssumption ==
    /\ Top \in Nat \ {0} /\ MaxVersions \in Nat /\ MaxRuns \in Nat
    /\ URIs \subseteq {"version", "@candidate", "@prod"} /\ "version" \in URIs
    /\ Outcomes \subseteq [Metrics -> Grades]

VARIABLES
    registrar,   \* how far register_agent.py is with an artifact
    versions,    \* how many the registered model has
    candidate,   \* the version @candidate names
    evaluator,   \* the evaluation under way
    runs,        \* of the experiment, by start time
    promoters,   \* what each promotion has read
    prod,        \* the version @prod names
    served       \* the version the endpoint serves

registry == <<versions, candidate>>
tracking == <<evaluator, runs>>
releaseVars == <<registrar, registry, tracking, promoters, prod, served>>

NoVersion == 0
Version == 1 .. MaxVersions

Unmeasured == [m \in Metrics |-> Invalid]
Tiers == {"pilot", "exact", "judges"}
Idle ==
    [stage |-> "idle", tag |-> NoVersion, uri |-> "version", loaded |-> NoVersion, piloted |-> FALSE]
NoPromotion ==
    [stage |-> "idle", version |-> NoVersion, prod |-> NoVersion, metrics |-> Unmeasured]

-----------------------------------------------------------------------------
(* register_agent.py *)

\* The artifact is logged to a run of the agent's own experiment.
LogModel ==
    /\ registrar = "idle"
    /\ registrar' = "logged"
    /\ UNCHANGED <<registry, tracking, promoters, prod, served>>

\* One request to a rebuilt environment, or --no-validate; a failure ends the program.
Validate ==
    /\ registrar = "logged"
    /\ registrar' \in {"validated", "idle"}
    /\ UNCHANGED <<registry, tracking, promoters, prod, served>>

RegisterModel ==
    /\ registrar = "validated" /\ versions < MaxVersions
    /\ versions' = versions + 1
    /\ registrar' = "registered"
    /\ UNCHANGED <<candidate, tracking, promoters, prod, served>>

\* Registrations are made one at a time: the newest version is this program's.
StampCandidate ==
    /\ registrar = "registered"
    /\ candidate' = versions
    /\ registrar' = "idle"
    /\ UNCHANGED <<versions, tracking, promoters, prod, served>>

\* After --validate-only, or a crash; a version may be left without the alias.
StopRegistration ==
    /\ registrar # "idle"
    /\ registrar' = "idle"
    /\ UNCHANGED <<registry, tracking, promoters, prod, served>>

-----------------------------------------------------------------------------
(* evaluate.py *)

\* The version a models:/ URI names when it is resolved.
Resolve(uri, v) ==
    CASE uri = "version" -> v
      [] uri = "@candidate" -> candidate
      [] uri = "@prod" -> prod

\* Without --model-uri the URI names the version; with it, it must resolve to it.
PinnedCandidateModelUri(v, uri) ==
    /\ evaluator.stage = "idle"
    /\ Resolve(uri, v) = v
    /\ evaluator' = [Idle EXCEPT !.stage = "pinned", !.tag = v, !.uri = uri]
    /\ UNCHANGED <<registrar, registry, runs, promoters, prod, served>>

\* The URI is resolved again; a version that does not exist fails to load.
LoadCandidate ==
    /\ evaluator.stage = "pinned"
    /\ LET v == Resolve(evaluator.uri, evaluator.tag) IN
       evaluator' = IF v \in 1 .. versions
                    THEN [evaluator EXCEPT !.stage = "loaded", !.loaded = v]
                    ELSE Idle
    /\ UNCHANGED <<registrar, registry, runs, promoters, prod, served>>

\* With --scorer-tier auto or judges a pilot comes first and the judges last.
Starts(tier) ==
    CASE tier = "pilot" -> evaluator.stage = "loaded"
      [] tier = "exact" -> evaluator.stage \in {"loaded", "piloted"}
      [] tier = "judges" -> evaluator.stage = "measured"

\* The run exists, tagged, before anything is measured.
StartRun(tier) ==
    /\ Starts(tier) /\ (Len(runs) < MaxRuns \/ tier = "judges")
    /\ runs' = Append(runs, [tag |-> evaluator.tag, scored |-> evaluator.loaded, tier |-> tier,
                             metrics |-> Unmeasured])
    /\ evaluator' = [evaluator EXCEPT !.stage = tier, !.piloted = evaluator.piloted \/ tier = "pilot"]
    /\ UNCHANGED <<registrar, registry, promoters, prod, served>>

\* Metrics are logged when every record has been scored, on the last run: one
\* evaluation runs at a time.  The judges run when the projected cost allows;
\* StopEvaluation stands for the cost that does not.
FinishRun(metrics) ==
    /\ evaluator.stage \in Tiers
    /\ runs' = [runs EXCEPT ![Len(runs)].metrics = metrics]
    /\ evaluator' =
        CASE evaluator.stage = "pilot" -> [evaluator EXCEPT !.stage = "piloted"]
          [] evaluator.stage = "exact" /\ evaluator.piloted -> [evaluator EXCEPT !.stage = "measured"]
          [] OTHER -> Idle
    /\ UNCHANGED <<registrar, registry, promoters, prod, served>>

\* The run stays behind, without the metrics.
StopEvaluation ==
    /\ evaluator.stage # "idle"
    /\ evaluator' = Idle
    /\ UNCHANGED <<registrar, registry, runs, promoters, prod, served>>

-----------------------------------------------------------------------------
(* promote.py *)

ExactRuns(v) == {n \in DOMAIN runs : runs[n].tag = v /\ runs[n].tier = "exact"}

\* Faulty: the most recent run, whatever its tier.
LatestOfAnyTier(n, v) ==
    runs[n].tag = v /\ \A o \in DOMAIN runs : runs[o].tag = v => o <= n

\* The most recent exact run of a version, finished or not.
IsLatest(n, v) == n \in ExactRuns(v) /\ \A o \in ExactRuns(v) : o <= n

Absolute(metrics, names) == \A m \in names : metrics[m] = Top

NotWorse(metrics, than) ==
    \A m \in QualityMetrics : than[m] # Invalid /\ metrics[m] # Invalid /\ metrics[m] >= than[m]

EvaluateGate(metrics, prodMetrics) ==
    /\ Absolute(metrics, MoneySafetyMetrics)
    /\ Absolute(prodMetrics, MoneySafetyMetrics)
    /\ NotWorse(metrics, prodMetrics)

EvaluateBootstrapGate(metrics) == Absolute(metrics, BootstrapMetrics)

ReadProd(p, v) ==
    /\ promoters[p].stage = "idle" /\ v # prod
    /\ promoters' = [promoters EXCEPT ![p] = [NoPromotion EXCEPT
                        !.stage = "candidate", !.version = v, !.prod = prod]]
    /\ UNCHANGED <<registrar, registry, tracking, prod, served>>

\* What is left of a promotion once its gate has spoken: a dry run only reports.
AfterGate(p, wins, dryRun) ==
    IF wins /\ ~dryRun THEN [promoters[p] EXCEPT !.stage = "move"] ELSE NoPromotion

\* No run of the candidate: LookupError.
ReadCandidate(p, dryRun) ==
    /\ promoters[p].stage = "candidate"
    /\ IF ExactRuns(promoters[p].version) = {}
       THEN promoters' = [promoters EXCEPT ![p] = NoPromotion]
       ELSE \E n \in DOMAIN runs :
              /\ IsLatest(n, promoters[p].version)
              /\ promoters' = [promoters EXCEPT ![p] =
                    IF promoters[p].prod = NoVersion
                    THEN AfterGate(p, EvaluateBootstrapGate(runs[n].metrics), dryRun)
                    ELSE [promoters[p] EXCEPT !.stage = "prod", !.metrics = runs[n].metrics]]
    /\ UNCHANGED <<registrar, registry, tracking, prod, served>>

\* Faulty: the two sides of the gate change places.
ReadProdSwapped(p, dryRun) ==
    /\ promoters[p].stage = "prod"
    /\ \E n \in DOMAIN runs :
          /\ IsLatest(n, promoters[p].prod)
          /\ promoters' = [promoters EXCEPT ![p] =
                AfterGate(p, EvaluateGate(runs[n].metrics, promoters[p].metrics), dryRun)]
    /\ UNCHANGED <<registrar, registry, tracking, prod, served>>

\* Nor one of the version that was in @prod.
ReadProdMetrics(p, dryRun) ==
    /\ promoters[p].stage = "prod"
    /\ IF ExactRuns(promoters[p].prod) = {}
       THEN promoters' = [promoters EXCEPT ![p] = NoPromotion]
       ELSE \E n \in DOMAIN runs :
              /\ IsLatest(n, promoters[p].prod)
              /\ promoters' = [promoters EXCEPT ![p] =
                    AfterGate(p, EvaluateGate(promoters[p].metrics, runs[n].metrics), dryRun)]
    /\ UNCHANGED <<registrar, registry, tracking, prod, served>>

\* The alias is set, not compared and set.
MoveAlias(p) ==
    /\ promoters[p].stage = "move"
    /\ prod' = promoters[p].version
    /\ promoters' = [promoters EXCEPT ![p] = NoPromotion]
    /\ UNCHANGED <<registrar, registry, tracking, served>>

StopPromotion(p) ==
    /\ promoters[p].stage # "idle"
    /\ promoters' = [promoters EXCEPT ![p] = NoPromotion]
    /\ UNCHANGED <<registrar, registry, tracking, prod, served>>

-----------------------------------------------------------------------------
(* deploy_agent.py *)

\* A missing alias fails the program; what happens to the alias between the read
\* and the deployment is as if it had happened after both.
Deploy ==
    /\ prod # NoVersion
    /\ served' = prod
    /\ UNCHANGED <<registrar, registry, tracking, promoters, prod>>

-----------------------------------------------------------------------------
(* Specification *)

ReleaseInit ==
    /\ registrar = "idle" /\ versions = 0 /\ candidate = NoVersion
    /\ evaluator = Idle /\ runs = <<>>
    /\ promoters = [p \in Promoters |-> NoPromotion] /\ prod = NoVersion
    /\ served = NoVersion

Registration ==
    \/ LogModel \/ Validate \/ RegisterModel \/ StampCandidate \/ StopRegistration

Evaluation ==
    \/ \E v \in Version, uri \in URIs : PinnedCandidateModelUri(v, uri)
    \/ LoadCandidate
    \/ \E tier \in Tiers : StartRun(tier)
    \/ \E metrics \in Outcomes : FinishRun(metrics)
    \/ StopEvaluation

Promotion(p) ==
    \/ \E v \in Version : ReadProd(p, v)
    \/ \E dryRun \in BOOLEAN : ReadCandidate(p, dryRun) \/ ReadProdMetrics(p, dryRun)
    \/ MoveAlias(p) \/ StopPromotion(p)

ReleaseNext ==
    \/ Registration
    \/ Evaluation
    \/ \E p \in Promoters : Promotion(p)
    \/ Deploy

ReleaseSpec == ReleaseInit /\ [][ReleaseNext]_releaseVars

-----------------------------------------------------------------------------
(* Properties *)

ReleaseTypeOK ==
    /\ registrar \in {"idle", "logged", "validated", "registered"}
    /\ versions \in 0 .. MaxVersions
    /\ candidate \in {NoVersion} \cup Version
    /\ evaluator \in [stage : Tiers \cup {"idle", "pinned", "loaded", "piloted", "measured"},
                      tag : {NoVersion} \cup Version, uri : URIs,
                      loaded : {NoVersion} \cup Version, piloted : BOOLEAN]
    /\ runs \in Seq([tag : Version, scored : Version, tier : Tiers,
                     metrics : [Metrics -> Grades]])
    /\ promoters \in [Promoters -> [stage : {"idle", "candidate", "prod", "move"},
                                    version : {NoVersion} \cup Version,
                                    prod : {NoVersion} \cup Version,
                                    metrics : [Metrics -> Grades]]]
    /\ prod \in {NoVersion} \cup Version
    /\ served \in {NoVersion} \cup Version

\* What both gates ask for: some exact run of the version was safe on every record.
Gated(v) ==
    \E n \in ExactRuns(v) : Absolute(runs[n].metrics, MoneySafetyMetrics \cap BootstrapMetrics)

\* Where every evaluation names its version by number, a version that @prod names or
\* that is served has been registered, and some exact run that is tagged with it has
\* scored that very version and passed the gate on the whole dataset: never a pilot,
\* and whichever runs were started, left unfinished or repeated meanwhile
\* (promote.py: release_gate_metrics).
ReleasedIsGated ==
    \A v \in {prod, served} \ {NoVersion} :
      /\ v <= versions
      /\ \E n \in ExactRuns(v) :
           /\ runs[n].scored = v
           /\ Absolute(runs[n].metrics, MoneySafetyMetrics \cap BootstrapMetrics)

\* The metrics of a run "must provably come from evaluating that exact version" that
\* the run is tagged with (evaluate.py:166-168, 57-67).
ScoredIsTagged == \A n \in DOMAIN runs : runs[n].scored = runs[n].tag

\* Whoever else promotes at the same time, a promotion moves the alias only to a
\* version that some pair of exact runs shows to be safe and no worse than the safe
\* version it has read in @prod; so @prod gets no worse if it is that version still
\* (promote.py:8-12).
MovesAreJudged ==
    [][\A p \in Promoters :
         MoveAlias(p) /\ promoters[p].prod # NoVersion =>
           \E n \in ExactRuns(prod'), o \in ExactRuns(promoters[p].prod) :
             EvaluateGate(runs[n].metrics, runs[o].metrics)]_releaseVars
=============================================================================
