------------------------------- MODULE Harness -------------------------------
(***************************************************************************)
(* The ablation harness (eval/src/ablation.py): each candidate answers the  *)
(* same claims, in order, in a worker process of its own that the harness   *)
(* talks to over a pipe.  A worker may be slow, hang, die or fail at any    *)
(* point; the harness waits for nothing without a limit, and reports only   *)
(* when every candidate has a row for every claim.                          *)
(***************************************************************************)
EXTENDS Integers, Sequences

CONSTANTS
    Candidates,          \* how many, compared in the order they are given
    Claims,              \* how many, asked in order
    EarlyFailureLimit    \* first rows that may not all be errors

ASSUME HarnessAssumption ==
    Candidates \in Nat \ {0, 1} /\ Claims \in Nat \ {0} /\ EarlyFailureLimit \in Nat \ {0}

VARIABLES
    harness,   \* what the harness is doing, and the candidate it is at
    worker,    \* that candidate's process
    pipe,      \* requests to the worker and responses from it
    rows,      \* of each candidate: per claim, the claim its answer is for, or an error
    mlruns,    \* of each candidate: the status of its MLflow run
    outcome    \* of the ablation

harnessVars == <<harness, worker, pipe, rows, mlruns, outcome>>

Error == 0
ClaimIds == 1 .. Claims
NewPipe == [requests |-> <<>>, responses |-> <<>>]
Message(kind, claim) == [kind |-> kind, claim |-> claim]
Kinds == {"ready", "output", "error", "violation"}

Current == harness.candidate
NextClaim == Len(rows[Current]) + 1

\* The worker's end of the pipe is open until its process ends.
Open == worker # "none" /\ worker # "dead"
Sends(message) == pipe' = [pipe EXCEPT !.responses = Append(@, message)]

-----------------------------------------------------------------------------
(* _worker_main *)

UnchangedHarness == UNCHANGED <<harness, rows, outcome>>

\* The model, the client or the connection is set up; then the MLflow run is resumed.
WorkerReady ==
    /\ worker = "starting"
    /\ worker' = "ready"
    /\ Sends(Message("ready", 0))
    /\ UnchangedHarness /\ UNCHANGED mlruns

\* Anything raised outside a request is sent too, whether or not one was made.
WorkerFails ==
    /\ worker \in {"starting", "ready"}
    /\ worker' = "dead"
    /\ Sends(Message("error", 0))
    /\ UnchangedHarness /\ UNCHANGED mlruns

WorkerResumesRun ==
    /\ worker = "ready"
    /\ worker' = "serving"
    /\ UnchangedHarness /\ UNCHANGED <<pipe, mlruns>>

\* The candidate's answer, its exception, or the attempt to persist.
WorkerResponds(kind) ==
    /\ worker = "serving" /\ pipe.requests # <<>> /\ Head(pipe.requests) # 0
    /\ pipe' = [requests |-> Tail(pipe.requests),
                responses |-> Append(pipe.responses, Message(kind, Head(pipe.requests)))]
    /\ UnchangedHarness /\ UNCHANGED <<worker, mlruns>>

\* Faulty: leaving the run context ends the run it had resumed.
EndsRun ==
    /\ worker = "serving" /\ pipe.requests # <<>> /\ Head(pipe.requests) = 0
    /\ worker' = "dead"
    /\ mlruns' = [mlruns EXCEPT ![Current] = "finished"]
    /\ UnchangedHarness /\ UNCHANGED pipe

\* The run is the harness's: the worker detaches from it and leaves its status.
WorkerLeaves ==
    /\ worker = "serving" /\ pipe.requests # <<>> /\ Head(pipe.requests) = 0
    /\ worker' = "dead"
    /\ UnchangedHarness /\ UNCHANGED <<pipe, mlruns>>

\* Killed, or crashed in a native library.
WorkerDies ==
    /\ Open
    /\ worker' = "dead"
    /\ UnchangedHarness /\ UNCHANGED <<pipe, mlruns>>

-----------------------------------------------------------------------------
(* CandidateAdapter *)

\* Terminated, killed if need be, and the pipe closed with whatever is in it.
StopWorker == worker' = "none" /\ pipe' = NewPipe
KeepWorker == UNCHANGED <<worker, pipe>>

\* A row more; the first rows may not all be errors.
Recorded(answer) == [rows EXCEPT ![Current] = Append(@, answer)]

\* Faulty: one row too late.
FailedLate(answers) ==
    Len(answers) = EarlyFailureLimit + 1 /\ \A n \in DOMAIN answers : answers[n] = Error

FailedEarly(answers) ==
    Len(answers) = EarlyFailureLimit /\ \A n \in DOMAIN answers : answers[n] = Error

Record(answer) ==
    /\ rows' = Recorded(answer)
    /\ harness' = [harness EXCEPT !.at =
                    IF FailedEarly(rows'[Current]) THEN "aborting" ELSE "predicting"]
    /\ UNCHANGED <<mlruns, outcome>>

Go(at) == harness' = [harness EXCEPT !.at = at] /\ UNCHANGED <<rows, mlruns, outcome>>

\* A worker that is not running, or no longer, is replaced, with its pipe.
StartWorker ==
    /\ harness.at = "predicting" /\ NextClaim \in ClaimIds /\ ~Open
    /\ worker' = "starting" /\ pipe' = NewPipe
    /\ Go("starting")

\* Faulty: the harness blocks until the worker speaks or exits.
BlocksForReady ==
    /\ harness.at = "starting" /\ pipe.responses = <<>> /\ ~Open
    /\ StopWorker /\ Record(Error)

\* Nothing is started that is not polled for with a limit.
StartupTimesOut ==
    /\ harness.at = "starting" /\ pipe.responses = <<>> /\ Open
    /\ StopWorker /\ Record(Error)

StartupReceives ==
    /\ harness.at = "starting" /\ pipe.responses # <<>>
    /\ IF Head(pipe.responses).kind = "ready"
       THEN /\ pipe' = [pipe EXCEPT !.responses = Tail(@)]
            /\ UNCHANGED worker
            /\ Go("sending")
       ELSE StopWorker /\ Record(Error)

\* The claim is sent; a pipe whose other end is closed raises, and is left as it is.
Send ==
    /\ \/ harness.at = "sending"
       \/ harness.at = "predicting" /\ NextClaim \in ClaimIds /\ Open
    /\ \/ /\ pipe' = [pipe EXCEPT !.requests = Append(@, NextClaim)]
          /\ UNCHANGED worker
          /\ Go("polling")
       \/ ~Open /\ KeepWorker /\ Record(Error)

\* Faulty: the worker is kept for the next claim.
KeepAfterTimeout ==
    /\ harness.at = "polling" /\ pipe.responses = <<>> /\ Open
    /\ KeepWorker /\ Record(Error)

\* An answer that comes later goes with the pipe.
ClaimTimesOut ==
    /\ harness.at = "polling" /\ pipe.responses = <<>> /\ Open
    /\ StopWorker /\ Record(Error)

\* The other end is closed, and nothing is left to read: EOFError.
WorkerExited ==
    /\ harness.at \in {"starting", "polling"} /\ pipe.responses = <<>> /\ ~Open
    /\ StopWorker /\ Record(Error)

Receive ==
    /\ harness.at = "polling" /\ pipe.responses # <<>>
    /\ UNCHANGED worker
    /\ pipe' = [pipe EXCEPT !.responses = Tail(@)]
    /\ LET response == Head(pipe.responses) IN
       \/ response.kind = "output" /\ Record(response.claim)
       \/ response.kind = "error" /\ Record(Error)
       \/ response.kind = "violation" /\ Go("aborting")

-----------------------------------------------------------------------------
(* run *)

BeginCandidate ==
    /\ harness.at = "next" /\ Current <= Candidates
    /\ mlruns' = [mlruns EXCEPT ![Current] = "running"]
    /\ harness' = [harness EXCEPT !.at = "predicting"]
    /\ KeepWorker /\ UNCHANGED <<rows, outcome>>

\* shutdown: a live worker is asked to leave, and stopped if it does not in time.
AskToLeave ==
    /\ harness.at = "predicting" /\ NextClaim > Claims
    /\ pipe' = IF Open THEN [pipe EXCEPT !.requests = Append(@, 0)] ELSE pipe
    /\ UNCHANGED worker
    /\ Go("leaving")

Shutdown ==
    /\ harness.at = "leaving"
    /\ StopWorker
    /\ Go("logging")

\* The metrics are logged to the candidate's run, which then ends.
LogMetrics ==
    /\ harness.at = "logging"
    /\ mlruns' = [mlruns EXCEPT ![Current] = "finished"]
    /\ harness' = [at |-> "next", candidate |-> Current + 1]
    /\ KeepWorker /\ UNCHANGED <<rows, outcome>>

\* A batch that fails early, or a candidate that persists, ends the ablation; every
\* candidate's worker is shut down on the way out.
Abort ==
    /\ harness.at = "aborting"
    /\ mlruns' = [mlruns EXCEPT ![Current] = "aborted"]
    /\ harness' = [harness EXCEPT !.at = "over"]
    /\ outcome' = "failed"
    /\ StopWorker /\ UNCHANGED rows

\* _report: the candidates' rows are compared one by one.
Report ==
    /\ harness.at = "next" /\ Current > Candidates
    /\ harness' = [harness EXCEPT !.at = "over"]
    /\ outcome' = "reported"
    /\ UNCHANGED <<worker, pipe, rows, mlruns>>

-----------------------------------------------------------------------------
(* Specification *)

HarnessInit ==
    /\ harness = [at |-> "next", candidate |-> 1]
    /\ worker = "none" /\ pipe = NewPipe
    /\ rows = [c \in 1 .. Candidates |-> <<>>]
    /\ mlruns = [c \in 1 .. Candidates |-> "none"]
    /\ outcome = "none"

Worker ==
    \/ WorkerReady \/ WorkerFails \/ WorkerResumesRun \/ WorkerLeaves \/ WorkerDies
    \/ \E kind \in Kinds \ {"ready"} : WorkerResponds(kind)

Predict ==
    \/ StartWorker \/ StartupTimesOut \/ StartupReceives
    \/ Send \/ ClaimTimesOut \/ WorkerExited \/ Receive

Run == BeginCandidate \/ AskToLeave \/ Shutdown \/ LogMetrics \/ Abort \/ Report

HarnessNext == Worker \/ Predict \/ Run

\* The harness is the process that was started; its workers are candidates' code,
\* of which nothing is known.
HarnessFairness == WF_harnessVars(Predict \/ Run)

HarnessSpec == HarnessInit /\ [][HarnessNext]_harnessVars /\ HarnessFairness

-----------------------------------------------------------------------------
(* Properties *)

HarnessTypeOK ==
    /\ harness \in [at : {"next", "predicting", "starting", "sending", "polling", "leaving",
                          "logging", "aborting", "over"},
                    candidate : 1 .. Candidates + 1]
    /\ worker \in {"none", "starting", "ready", "serving", "dead"}
    /\ pipe \in [requests : Seq(0 .. Claims), responses : Seq([kind : Kinds, claim : 0 .. Claims])]
    /\ rows \in [1 .. Candidates -> Seq(0 .. Claims)]
    /\ mlruns \in [1 .. Candidates -> {"none", "running", "aborted", "finished"}]
    /\ outcome \in {"none", "reported", "failed"}

\* What is scored against a claim's labels is the answer to that claim: no answer
\* given too late, by a worker that was slow, restarted or dying, is taken for the
\* next claim's (CandidateAdapter.predict).
AnswersAreTheirOwn ==
    \A c \in 1 .. Candidates : \A n \in DOMAIN rows[c] : rows[c][n] \in {n, Error}

\* A candidate's metrics go to a run that is still running, though its workers
\* resumed that run and left it (_detach_active_run: "parent-owned status"); and no
\* worker outlives its candidate or the ablation, however that is left (shutdown).
WorkersAreContained ==
    /\ harness.at \notin {"next", "over"} => mlruns[Current] = "running"
    /\ harness.at \in {"next", "logging", "over"} => worker = "none"

\* A report compares complete, aligned columns, of candidates that did not fail from
\* the start: a candidate cannot win by the claims it did not answer.
ReportsAreComplete ==
    outcome = "reported" =>
      \A c \in 1 .. Candidates :
        /\ Len(rows[c]) = Claims
        /\ mlruns[c] = "finished"
        /\ EarlyFailureLimit <= Claims => \E n \in 1 .. EarlyFailureLimit : rows[c][n] # Error

\* The ablation ends, whatever its candidates do: hang before they are ready, hang on
\* a claim, die, or answer without being asked.
AblationEnds == <>(harness.at = "over")
=============================================================================
