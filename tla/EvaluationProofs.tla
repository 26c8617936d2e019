---------------------------- MODULE EvaluationProofs ----------------------------
(***************************************************************************)
(* The evaluation, for any number of candidates and claims, any history and *)
(* any quotas.  The harness: answers are recorded against their own claims, *)
(* workers stay within their candidates, and a report compares complete     *)
(* columns, wherever a worker hangs, fails or dies.  The datasets: what     *)
(* stable_holdout takes is entity-safe, and what build_holdout merges is    *)
(* labelled with its rule, fills its quotas, and gives samples of the size  *)
(* asked for.  The release: what @prod names, and what is served, has       *)
(* passed the gate on the whole dataset; and while one person promotes at a *)
(* time, @prod never moves to a worse version.  That the ablation ends is   *)
(* left to TLC.                                                             *)
(***************************************************************************)
EXTENDS Harness, Datasets, Release,
        Recursions, SequenceTheorems, FiniteSetTheorems, TLAPS

-----------------------------------------------------------------------------
(* The harness *)

Responses == Seq([kind : Kinds, claim : 0 .. Claims])

\* No answer to a claim is in the pipe.
NoOutput == \A n \in DOMAIN pipe.responses : pipe.responses[n].kind # "output"

\* The claim has been sent and not been answered, or been answered and nothing else.
Asked ==
    /\ pipe.requests = <<NextClaim>> /\ NoOutput
    /\ Open => worker # "starting" /\ pipe.responses = <<>>
Answered ==
    /\ pipe.requests = <<>> /\ worker \in {"serving", "dead"}
    /\ Len(pipe.responses) = 1 /\ pipe.responses[1].claim = NextClaim

\* Whatever can still be read from the pipe while a claim is polled for answers that
\* claim: between claims a pipe in use is empty, and any other is replaced first.
PipeIsCurrent ==
    /\ harness.at = "predicting" /\ Open => worker = "serving" /\ pipe = NewPipe
    /\ harness.at = "starting" =>
         /\ pipe.requests = <<>> /\ NoOutput
         /\ worker = "starting" => pipe.responses = <<>>
         /\ Open => Len(pipe.responses) <= 1
    /\ harness.at = "sending" =>
         /\ pipe.requests = <<>> /\ NoOutput
         /\ Open => worker # "starting" /\ pipe.responses = <<>>
    /\ harness.at = "polling" => Asked \/ Answered

\* How far each candidate's rows are.
RowsKept(c) ==
    /\ Len(rows[c]) <= Claims
    /\ c < Current => Len(rows[c]) = Claims /\ mlruns[c] = "finished"
    /\ c > Current \/ (c = Current /\ harness.at = "next") => rows[c] = <<>>
    /\ c = Current /\ harness.at \in {"leaving", "logging"} => Len(rows[c]) = Claims
    /\ c = Current /\ harness.at \in {"starting", "sending", "polling"} => Len(rows[c]) < Claims

\* A candidate that is not being given up has answered one of its first claims.
NotFailedEarly(c) ==
    /\ c = Current => harness.at \notin {"aborting", "over"}
    /\ EarlyFailureLimit <= Len(rows[c])
    => \E n \in 1 .. EarlyFailureLimit : rows[c][n] # Error

Position ==
    /\ harness.at \notin {"next", "over"} => Current \in 1 .. Candidates
    /\ outcome = "reported" => Current = Candidates + 1
    /\ \A c \in 1 .. Candidates : RowsKept(c) /\ NotFailedEarly(c)

HarnessInv ==
    HarnessTypeOK /\ WorkersAreContained /\ PipeIsCurrent /\ Position /\ AnswersAreTheirOwn

-----------------------------------------------------------------------------
(* What the candidates' processes do *)

\* No step of a worker touches what the harness has, and none is taken by a process
\* that is not there.
LEMMA WorkerLeavesHarness ==
    ASSUME HarnessInv, Worker
    PROVE  /\ UNCHANGED <<harness, rows, mlruns, outcome>>
           /\ Open
  BY DEF Worker, WorkerReady, WorkerFails, WorkerResumesRun, WorkerLeaves, WorkerDies,
         WorkerResponds, UnchangedHarness, Open, HarnessInv, HarnessTypeOK

\* A message more keeps the responses' shape.
LEMMA MessageType ==
    ASSUME NEW s \in Responses, NEW kind \in Kinds, NEW claim \in 0 .. Claims
    PROVE  Append(s, Message(kind, claim)) \in Responses
  BY DEF Responses, Message

\* A step of the worker keeps the shapes of worker and pipe.
LEMMA WorkerTypes ==
    ASSUME HarnessInv, Worker
    PROVE  HarnessTypeOK'
<1> DEFINE Pipes == [requests : Seq(0 .. Claims), responses : Responses]
           Workers == {"none", "starting", "ready", "serving", "dead"}
<1>1. worker \in Workers /\ pipe \in Pipes
  BY DEF HarnessInv, HarnessTypeOK, Responses
<1>2. 0 \in 0 .. Claims
  BY HarnessAssumption DEF HarnessAssumption
<1>3. \A kind \in Kinds, claim \in 0 .. Claims :
        Append(pipe.responses, Message(kind, claim)) \in Responses
  BY <1>1, MessageType
<1>4. worker' \in Workers /\ pipe' \in Pipes
  <2>1. CASE WorkerReady
    BY <2>1, <1>1, <1>2, <1>3 DEF WorkerReady, Sends, Kinds
  <2>2. CASE WorkerFails
    BY <2>2, <1>1, <1>2, <1>3 DEF WorkerFails, Sends, Kinds
  <2>3. CASE WorkerResumesRun \/ WorkerLeaves \/ WorkerDies
    BY <2>3, <1>1 DEF WorkerResumesRun, WorkerLeaves, WorkerDies
  <2>4. ASSUME NEW kind \in Kinds \ {"ready"}, WorkerResponds(kind)
        PROVE  worker' \in Workers /\ pipe' \in Pipes
    <3>1. Head(pipe.requests) \in 0 .. Claims /\ Tail(pipe.requests) \in Seq(0 .. Claims)
      BY <2>4, <1>1, HeadTailProperties DEF WorkerResponds
    <3>2. Append(pipe.responses, Message(kind, Head(pipe.requests))) \in Responses
      BY <3>1, <1>3
    <3> QED BY <2>4, <3>1, <3>2, <1>1 DEF WorkerResponds
  <2> QED BY <2>1, <2>2, <2>3, <2>4 DEF Worker
<1> QED BY <1>4, WorkerLeavesHarness DEF Responses, HarnessInv, HarnessTypeOK

\* What the worker does to the pipe is its answer to the claim it was asked for.
LEMMA WorkerKeepsPipe ==
    ASSUME HarnessInv, Worker
    PROVE  PipeIsCurrent'
<1>1. pipe.requests \in Seq(0 .. Claims) /\ pipe.responses \in Responses
  BY DEF HarnessInv, HarnessTypeOK, Responses
<1>2. /\ harness' = harness /\ rows' = rows /\ NextClaim' = NextClaim
      /\ Open /\ PipeIsCurrent
  BY WorkerLeavesHarness DEF HarnessInv, NextClaim, Current
<1>3. CASE WorkerReady
  BY <1>1, <1>2, <1>3
  DEF WorkerReady, Sends, PipeIsCurrent, Asked, Answered, NoOutput, Open, Message, Responses
<1>4. CASE WorkerFails
  BY <1>1, <1>2, <1>4
  DEF WorkerFails, Sends, PipeIsCurrent, Asked, Answered, NoOutput, Open, Message, Responses
<1>5. CASE WorkerResumesRun
  BY <1>1, <1>2, <1>5
  DEF WorkerResumesRun, PipeIsCurrent, Asked, Answered, NoOutput, Open, NewPipe
<1>6. CASE WorkerLeaves
  BY <1>1, <1>2, <1>6
  DEF WorkerLeaves, PipeIsCurrent, Asked, Answered, NoOutput, Open
<1>7. CASE WorkerDies
  BY <1>1, <1>2, <1>7
  DEF WorkerDies, PipeIsCurrent, Asked, Answered, NoOutput, Open
<1>8. ASSUME NEW kind \in Kinds \ {"ready"}, WorkerResponds(kind)
      PROVE  PipeIsCurrent'
  BY <1>1, <1>2, <1>8
  DEF WorkerResponds, PipeIsCurrent, Asked, Answered, NoOutput, Open, Message, NewPipe
<1> QED BY <1>3, <1>4, <1>5, <1>6, <1>7, <1>8 DEF Worker

\* A step of the worker breaks nothing.
LEMMA WorkerKeeps ==
    ASSUME HarnessInv, Worker
    PROVE  HarnessInv'
<1>1. UNCHANGED <<harness, rows, mlruns, outcome>> /\ Open
  BY WorkerLeavesHarness
<1>2. WorkersAreContained' /\ Position' /\ AnswersAreTheirOwn'
  BY <1>1 DEF HarnessInv, WorkersAreContained, Position, RowsKept, NotFailedEarly,
              AnswersAreTheirOwn, Current, Open
<1> QED BY <1>2, WorkerTypes, WorkerKeepsPipe DEF HarnessInv

-----------------------------------------------------------------------------
(* What the harness does *)

\* A row more is a row of the claim that was asked for, and the candidate is given up
\* exactly when all of its first rows are errors.
LEMMA RecordKeeps ==
    ASSUME HarnessInv, NEW answer \in {NextClaim, Error}, Record(answer),
           harness.at \in {"predicting", "starting", "sending", "polling"},
           Len(rows[Current]) < Claims
    PROVE  /\ rows' \in [1 .. Candidates -> Seq(0 .. Claims)]
           /\ harness'.at \in {"predicting", "aborting"}
           /\ harness' = [at |-> harness'.at, candidate |-> Current]
           /\ UNCHANGED <<mlruns, outcome>>
           /\ AnswersAreTheirOwn' /\ Position'
<1> DEFINE k == Current
<1>1. /\ k \in 1 .. Candidates /\ rows[k] \in Seq(0 .. Claims)
      /\ rows \in [1 .. Candidates -> Seq(0 .. Claims)]
      /\ EarlyFailureLimit \in Nat \ {0} /\ Claims \in Nat \ {0} /\ Candidates \in Nat
  BY HarnessAssumption
  DEF HarnessAssumption, HarnessInv, HarnessTypeOK, Position, Current
<1>2. /\ harness'.at \in {"predicting", "aborting"}
      /\ harness'.at = "predicting" => ~FailedEarly(rows'[k])
      /\ harness' = [at |-> harness'.at, candidate |-> k] /\ Current' = k
      /\ rows' = [rows EXCEPT ![k] = Append(@, answer)]
      /\ UNCHANGED <<mlruns, outcome>>
  BY DEF Record, Recorded, HarnessInv, HarnessTypeOK, Current
<1>3. answer \in 0 .. Claims /\ NextClaim = Len(rows[k]) + 1
  BY <1>1 DEF NextClaim, Error
<1>4. /\ rows'[k] = Append(rows[k], answer)
      /\ \A c \in 1 .. Candidates : c # k => rows'[c] = rows[c]
  BY <1>1, <1>2
<1>5. /\ rows'[k] \in Seq(0 .. Claims) /\ Len(rows'[k]) = Len(rows[k]) + 1
      /\ rows'[k][Len(rows[k]) + 1] = answer
      /\ \A n \in 1 .. Len(rows[k]) : rows'[k][n] = rows[k][n]
  BY <1>1, <1>3, <1>4, AppendProperties
<1>6. rows' \in [1 .. Candidates -> Seq(0 .. Claims)]
  BY <1>1, <1>2, <1>3, AppendProperties
<1>7. AnswersAreTheirOwn'
  <2>1. ASSUME NEW c \in 1 .. Candidates, NEW n \in DOMAIN rows'[c]
        PROVE  rows'[c][n] \in {n, Error}
    <3>1. CASE c = k
      <4>1. n \in 1 .. Len(rows[k]) + 1
        BY <1>5, <3>1
      <4>2. CASE n = Len(rows[k]) + 1
        BY <1>3, <1>5, <3>1, <4>2
      <4>3. CASE n \in 1 .. Len(rows[k])
        <5>1. n \in DOMAIN rows[k] /\ rows'[k][n] = rows[k][n]
          BY <1>1, <1>5, <4>3, SMTT(30)
        <5> QED BY <1>1, <3>1, <5>1 DEF HarnessInv, AnswersAreTheirOwn
      <4> QED BY <1>1, <4>1, <4>2, <4>3
    <3>2. CASE c # k
      BY <1>4, <3>2 DEF HarnessInv, AnswersAreTheirOwn
    <3> QED BY <3>1, <3>2
  <2> QED BY <2>1 DEF AnswersAreTheirOwn
<1>8. ASSUME NEW c \in 1 .. Candidates
      PROVE  RowsKept(c)' /\ NotFailedEarly(c)'
  <2>1. RowsKept(c) /\ NotFailedEarly(c)
    BY DEF HarnessInv, Position
  <2>2. CASE c = k
    <3>1. RowsKept(c)'
      BY <1>1, <1>2, <1>5, <2>1, <2>2 DEF RowsKept, Current
    <3>2. ASSUME harness'.at = "predicting", EarlyFailureLimit <= Len(rows'[k])
          PROVE  \E n \in 1 .. EarlyFailureLimit : rows'[k][n] # Error
      <4>1. CASE EarlyFailureLimit = Len(rows'[k])
        BY <1>1, <1>2, <1>5, <3>2, <4>1, SMTT(30) DEF FailedEarly
      <4>2. CASE EarlyFailureLimit <= Len(rows[k])
        <5>1. PICK n \in 1 .. EarlyFailureLimit : rows[k][n] # Error
          BY <2>1, <2>2, <4>2 DEF NotFailedEarly
        <5>2. n \in 1 .. Len(rows[k])
          BY <1>1, <4>2
        <5> QED BY <1>5, <5>1, <5>2
      <4> QED BY <1>1, <1>5, <3>2, <4>1, <4>2, SMTT(30)
    <3> QED BY <1>2, <2>2, <3>1, <3>2 DEF NotFailedEarly
  <2>3. CASE c # k
    BY <1>1, <1>2, <1>4, <2>1, <2>3 DEF RowsKept, NotFailedEarly, Current
  <2> QED BY <2>2, <2>3
<1>9. Position'
  BY <1>1, <1>2, <1>8 DEF Position, HarnessInv, Current
<1> QED BY <1>2, <1>6, <1>7, <1>9

\* Going on to another stage of the same claim, or after the last one.
LEMMA GoKeeps ==
    ASSUME HarnessInv, NEW at \in {"starting", "sending", "polling", "leaving", "logging", "aborting"},
           Go(at), harness.at \notin {"next", "over"},
           at \in {"starting", "sending", "polling"} => Len(rows[Current]) < Claims,
           at \in {"leaving", "logging"} => Len(rows[Current]) = Claims,
           harness.at = "aborting" => at = "aborting"
    PROVE  /\ harness' = [at |-> at, candidate |-> Current]
           /\ UNCHANGED <<rows, mlruns, outcome>>
           /\ AnswersAreTheirOwn' /\ Position'
<1>1. /\ harness' = [at |-> at, candidate |-> Current] /\ Current' = Current
      /\ UNCHANGED <<rows, mlruns, outcome>>
  BY DEF Go, HarnessInv, HarnessTypeOK, Current
<1>2. AnswersAreTheirOwn'
  BY <1>1 DEF HarnessInv, AnswersAreTheirOwn
<1>3. ASSUME NEW c \in 1 .. Candidates
      PROVE  RowsKept(c)' /\ NotFailedEarly(c)'
  BY <1>1 DEF HarnessInv, Position, RowsKept, NotFailedEarly
<1> QED BY <1>1, <1>2, <1>3 DEF HarnessInv, Position

\* What is left to show of a step that records a row or goes on: the types, the run
\* and the worker follow from where it leaves the harness.
LEMMA StageTypes ==
    ASSUME HarnessInv, harness.at \notin {"next", "over"},
           NEW at \in {"predicting", "starting", "sending", "polling", "leaving", "aborting"},
           harness' = [at |-> at, candidate |-> Current],
           UNCHANGED <<mlruns, outcome>>,
           rows' \in [1 .. Candidates -> Seq(0 .. Claims)],
           worker' \in {"none", "starting", "ready", "serving", "dead"},
           pipe' \in [requests : Seq(0 .. Claims), responses : Responses]
    PROVE  HarnessTypeOK' /\ WorkersAreContained'
<1>1. HarnessTypeOK'
  BY DEF HarnessInv, HarnessTypeOK, Responses, Current
<1>2. WorkersAreContained'
  BY DEF HarnessInv, WorkersAreContained, Current
<1> QED BY <1>1, <1>2

\* A step that records a row keeps the invariant, if it leaves an empty pipe to any
\* worker that it keeps.
LEMMA RecordStep ==
    ASSUME HarnessInv, NEW answer \in {NextClaim, Error}, Record(answer),
           harness.at \in {"predicting", "starting", "sending", "polling"},
           Len(rows[Current]) < Claims,
           worker' \in {"none", "starting", "ready", "serving", "dead"},
           pipe' \in [requests : Seq(0 .. Claims), responses : Responses],
           Open' => worker' = "serving" /\ pipe' = NewPipe
    PROVE  HarnessInv'
<1>1. /\ rows' \in [1 .. Candidates -> Seq(0 .. Claims)]
      /\ harness'.at \in {"predicting", "aborting"}
      /\ harness' = [at |-> harness'.at, candidate |-> Current]
      /\ UNCHANGED <<mlruns, outcome>>
      /\ AnswersAreTheirOwn' /\ Position'
  BY RecordKeeps
<1>2. HarnessTypeOK' /\ WorkersAreContained'
  BY <1>1, StageTypes
<1>3. PipeIsCurrent'
  BY <1>1 DEF PipeIsCurrent, NewPipe
<1> QED BY <1>1, <1>2, <1>3 DEF HarnessInv

\* So does one that goes on, with the pipe as its next stage expects it.
LEMMA GoStep ==
    ASSUME HarnessInv, NEW at \in {"starting", "sending", "polling", "leaving", "aborting"}, Go(at),
           harness.at \in {"predicting", "starting", "sending", "polling"},
           at \in {"starting", "sending", "polling"} => Len(rows[Current]) < Claims,
           at = "leaving" => Len(rows[Current]) = Claims,
           worker' \in {"none", "starting", "ready", "serving", "dead"},
           pipe' \in [requests : Seq(0 .. Claims), responses : Responses],
           PipeIsCurrent'
    PROVE  HarnessInv'
<1>1. /\ harness' = [at |-> at, candidate |-> Current]
      /\ UNCHANGED <<rows, mlruns, outcome>>
      /\ AnswersAreTheirOwn' /\ Position'
  BY GoKeeps
<1>2. HarnessTypeOK' /\ WorkersAreContained'
  BY <1>1, StageTypes DEF HarnessInv, HarnessTypeOK
<1> QED BY <1>1, <1>2 DEF HarnessInv

\* Nor does a step of the harness on one claim: start, send, poll, replace.
LEMMA PredictKeeps ==
    ASSUME HarnessInv, Predict
    PROVE  HarnessInv'
<1> DEFINE Pipes == [requests : Seq(0 .. Claims), responses : Responses]
           Workers == {"none", "starting", "ready", "serving", "dead"}
<1>1. /\ worker \in Workers /\ pipe \in Pipes
      /\ pipe.requests \in Seq(0 .. Claims) /\ pipe.responses \in Responses
  BY DEF HarnessInv, HarnessTypeOK, Responses
<1>2. /\ Claims \in Nat \ {0} /\ Candidates \in Nat /\ Current \in 1 .. Candidates
      /\ rows[Current] \in Seq(0 .. Claims) /\ Len(rows[Current]) \in Nat
      /\ NextClaim = Len(rows[Current]) + 1
      /\ harness.at \in {"starting", "sending", "polling"} => Len(rows[Current]) < Claims
  <2>1. Predict => harness.at \notin {"next", "over"}
    BY DEF Predict, StartWorker, StartupTimesOut, StartupReceives, Send, ClaimTimesOut,
           WorkerExited, Receive
  <2>2. Current \in 1 .. Candidates /\ RowsKept(Current)
    BY <2>1 DEF HarnessInv, Position
  <2> QED BY <2>2, HarnessAssumption
      DEF HarnessAssumption, RowsKept, HarnessInv, HarnessTypeOK, NextClaim
<1>3. NewPipe \in Pipes /\ (StopWorker => worker' \in Workers /\ pipe' \in Pipes /\ ~Open')
  <2>1. <<>> \in Seq(0 .. Claims) /\ <<>> \in Responses
    BY DEF Responses
  <2>2. NewPipe \in Pipes
    BY <2>1 DEF NewPipe
  <2> QED BY <2>2 DEF StopWorker, Open
<1>4. CASE StartWorker
  <2>1. harness' = [harness EXCEPT !.at = "starting"] /\ worker' = "starting" /\ pipe' = NewPipe
    BY <1>4 DEF StartWorker, Go
  <2>2. PipeIsCurrent'
    BY <2>1 DEF PipeIsCurrent, NewPipe, NoOutput, Open, HarnessInv, HarnessTypeOK
  <2> QED BY <1>2, <1>3, <1>4, <2>1, <2>2, GoStep DEF StartWorker, ClaimIds
<1>5. CASE StartupTimesOut
  BY <1>2, <1>3, <1>5, RecordStep DEF StartupTimesOut
<1>6. CASE ClaimTimesOut
  BY <1>2, <1>3, <1>6, RecordStep DEF ClaimTimesOut
<1>7. CASE WorkerExited
  BY <1>2, <1>3, <1>7, RecordStep DEF WorkerExited
<1>8. CASE StartupReceives
  <2>1. CASE Head(pipe.responses).kind # "ready"
    BY <1>2, <1>3, <1>8, <2>1, RecordStep DEF StartupReceives
  <2>2. CASE Head(pipe.responses).kind = "ready"
    <3>1. /\ harness' = [harness EXCEPT !.at = "sending"] /\ rows' = rows
          /\ worker' = worker /\ pipe' = [pipe EXCEPT !.responses = Tail(@)] /\ Go("sending")
      BY <1>8, <2>2 DEF StartupReceives, Go
    <3>2. /\ pipe.responses # <<>> /\ harness.at = "starting" /\ worker # "starting"
          /\ pipe.requests = <<>> /\ NoOutput /\ (Open => Len(pipe.responses) <= 1)
      BY <1>8 DEF StartupReceives, HarnessInv, PipeIsCurrent
    <3>3. Tail(pipe.responses) \in Responses
      BY <1>1, <3>2, HeadTailProperties DEF Responses
    <3>4. /\ \A n \in DOMAIN Tail(pipe.responses) :
               n + 1 \in DOMAIN pipe.responses /\ Tail(pipe.responses)[n] = pipe.responses[n + 1]
          /\ Len(Tail(pipe.responses)) = Len(pipe.responses) - 1
      BY <1>1, <3>2, HeadTailProperties DEF Responses
    <3>5. pipe' \in Pipes /\ pipe'.responses = Tail(pipe.responses) /\ pipe'.requests = <<>>
      BY <1>1, <3>1, <3>2, <3>3
    <3>6. Open => pipe'.responses = <<>>
      BY <1>1, <3>2, <3>3, <3>4, <3>5 DEF Responses
    <3>7. NoOutput'
      BY <3>2, <3>4, <3>5 DEF NoOutput
    <3>8. harness'.at = "sending"
      BY <3>1 DEF HarnessInv, HarnessTypeOK
    <3>9. PipeIsCurrent'
      BY <3>1, <3>2, <3>5, <3>6, <3>7, <3>8 DEF PipeIsCurrent, Open
    <3> QED BY <1>1, <1>2, <3>1, <3>2, <3>5, <3>9, GoStep
  <2> QED BY <2>1, <2>2
<1>9. CASE Send
  <2>1. Len(rows[Current]) < Claims /\ harness.at \in {"sending", "predicting"}
    BY <1>2, <1>9 DEF Send, ClaimIds
  <2>2. CASE KeepWorker /\ ~Open /\ Record(Error)
    BY <1>1, <2>1, <2>2, RecordStep DEF KeepWorker, Open
  <2>3. CASE /\ pipe' = [pipe EXCEPT !.requests = Append(@, NextClaim)]
             /\ worker' = worker /\ Go("polling")
    <3>1. /\ harness' = [harness EXCEPT !.at = "polling"] /\ rows' = rows
          /\ NextClaim' = NextClaim /\ harness'.at = "polling"
      BY <2>3 DEF Go, NextClaim, Current, HarnessInv, HarnessTypeOK
    <3>2. /\ pipe.requests = <<>> /\ NoOutput
          /\ Open => worker # "starting" /\ pipe.responses = <<>>
      BY <1>9 DEF Send, HarnessInv, PipeIsCurrent, NewPipe, NoOutput
    <3>3. NextClaim \in 0 .. Claims
      BY <1>2, <2>1
    <3>4. /\ pipe'.requests = <<NextClaim>> /\ pipe'.responses = pipe.responses
          /\ pipe' \in Pipes
      <4>1. Append(pipe.requests, NextClaim) = <<NextClaim>> /\ <<NextClaim>> \in Seq(0 .. Claims)
        BY <3>2, <3>3
      <4> QED BY <1>1, <2>3, <4>1
    <3>5. PipeIsCurrent'
      BY <2>3, <3>1, <3>2, <3>4 DEF PipeIsCurrent, Asked, NoOutput, Open
    <3> QED BY <1>1, <2>1, <2>3, <3>4, <3>5, GoStep
  <2> QED BY <1>9, <2>2, <2>3 DEF Send
<1>10. CASE Receive
  <2> DEFINE response == Head(pipe.responses)
  <2>1. /\ harness.at = "polling" /\ pipe.responses # <<>> /\ worker' = worker
        /\ pipe' = [pipe EXCEPT !.responses = Tail(@)]
    BY <1>10 DEF Receive
  <2>2. /\ response = pipe.responses[1] /\ Tail(pipe.responses) \in Responses
        /\ Len(Tail(pipe.responses)) = Len(pipe.responses) - 1 /\ 1 \in DOMAIN pipe.responses
    BY <1>1, <2>1, HeadTailProperties DEF Responses
  <2>3. pipe' \in Pipes /\ pipe'.requests = pipe.requests /\ pipe'.responses = Tail(pipe.responses)
    BY <1>1, <2>1, <2>2
  <2>4. Asked \/ Answered
    BY <2>1 DEF HarnessInv, PipeIsCurrent
  <2>5. response.kind = "output" => response.claim = NextClaim
    BY <2>2, <2>4 DEF Asked, Answered, NoOutput
  <2>6. Open' => worker' = "serving" /\ pipe' = NewPipe
    <3>1. CASE Asked
      BY <2>1, <3>1 DEF Asked, Open
    <3>2. CASE Answered
      <4>1. pipe'.responses = <<>>
        <5>1. Len(Tail(pipe.responses)) = 0
          BY <2>2, <3>2 DEF Answered
        <5> QED BY <2>2, <2>3, <5>1, EmptySeq DEF Responses
      <4> QED BY <2>1, <2>3, <3>2, <4>1 DEF Answered, NewPipe, Open
    <3> QED BY <2>4, <3>1, <3>2
  <2>7. CASE response.kind = "output" /\ Record(response.claim)
    BY <1>1, <1>2, <2>1, <2>3, <2>5, <2>6, <2>7, RecordStep
  <2>8. CASE Record(Error)
    BY <1>1, <1>2, <2>1, <2>3, <2>6, <2>8, RecordStep
  <2>9. CASE Go("aborting")
    <3>1. PipeIsCurrent'
      BY <2>9 DEF Go, PipeIsCurrent, HarnessInv, HarnessTypeOK
    <3> QED BY <1>1, <2>1, <2>3, <2>9, <3>1, GoStep
  <2> QED BY <1>10, <2>7, <2>8, <2>9 DEF Receive
<1> QED BY <1>4, <1>5, <1>6, <1>7, <1>8, <1>9, <1>10 DEF Predict

\* Nor does one that begins or ends a candidate, or the run.
LEMMA RunKeeps ==
    ASSUME HarnessInv, Run
    PROVE  HarnessInv'
<1>1. /\ worker \in {"none", "starting", "ready", "serving", "dead"}
      /\ pipe \in [requests : Seq(0 .. Claims), responses : Responses]
      /\ pipe.requests \in Seq(0 .. Claims)
      /\ NewPipe \in [requests : Seq(0 .. Claims), responses : Responses]
  <2>1. <<>> \in Seq(0 .. Claims) /\ <<>> \in Responses
    BY DEF Responses
  <2> QED BY <2>1 DEF HarnessInv, HarnessTypeOK, Responses, NewPipe
<1>2. /\ Claims \in Nat \ {0} /\ Candidates \in Nat \ {0, 1} /\ EarlyFailureLimit \in Nat \ {0}
      /\ Current \in 1 .. Candidates + 1 /\ 0 \in 0 .. Claims
      /\ harness.at \notin {"next", "over"} => Current \in 1 .. Candidates
      /\ \A c \in 1 .. Candidates : rows[c] \in Seq(0 .. Claims) /\ RowsKept(c) /\ NotFailedEarly(c)
      /\ harness = [at |-> harness.at, candidate |-> Current]
  BY HarnessAssumption
  DEF HarnessAssumption, HarnessInv, HarnessTypeOK, Position, Current
<1>3. CASE BeginCandidate
  <2>1. /\ Current \in 1 .. Candidates /\ worker = "none" /\ harness.at = "next"
        /\ mlruns' = [mlruns EXCEPT ![Current] = "running"]
        /\ harness' = [at |-> "predicting", candidate |-> Current] /\ Current' = Current
        /\ UNCHANGED <<worker, pipe, rows, outcome>>
    BY <1>2, <1>3, SMTT(30) DEF BeginCandidate, KeepWorker, HarnessInv, WorkersAreContained, Current
  <2>2. HarnessTypeOK' /\ WorkersAreContained' /\ PipeIsCurrent' /\ AnswersAreTheirOwn'
    BY <1>2, <2>1
    DEF HarnessInv, HarnessTypeOK, WorkersAreContained, PipeIsCurrent, AnswersAreTheirOwn, Open,
        Current
  <2>3. ASSUME NEW c \in 1 .. Candidates
        PROVE  RowsKept(c)' /\ NotFailedEarly(c)'
    <3>1. rows[Current] = <<>>
      BY <1>2, <2>1 DEF RowsKept
    <3> QED BY <1>2, <2>1, <3>1 DEF RowsKept, NotFailedEarly, HarnessInv, HarnessTypeOK
  <2>4. Position'
    BY <2>1, <2>3 DEF Position, HarnessInv
  <2> QED BY <2>2, <2>4 DEF HarnessInv
<1>4. CASE AskToLeave
  <2>1. harness.at = "predicting" /\ Len(rows[Current]) = Claims
    BY <1>2, <1>4 DEF AskToLeave, NextClaim, RowsKept
  <2>2. worker' = worker /\ pipe' \in [requests : Seq(0 .. Claims), responses : Responses]
    <3>1. Append(pipe.requests, 0) \in Seq(0 .. Claims)
      BY <1>1, <1>2
    <3> QED BY <1>1, <1>4, <3>1 DEF AskToLeave
  <2>3. Go("leaving") /\ PipeIsCurrent'
    BY <1>2, <1>4 DEF AskToLeave, Go, PipeIsCurrent
  <2> QED BY <1>1, <2>1, <2>2, <2>3, GoStep
<1>5. CASE Shutdown
  <2>1. /\ harness.at = "leaving" /\ Len(rows[Current]) = Claims /\ Go("logging")
        /\ worker' = "none" /\ pipe' = NewPipe
    BY <1>2, <1>5 DEF Shutdown, StopWorker, RowsKept
  <2>2. /\ harness' = [at |-> "logging", candidate |-> Current]
        /\ UNCHANGED <<rows, mlruns, outcome>>
        /\ AnswersAreTheirOwn' /\ Position'
    BY <2>1, GoKeeps
  <2>3. HarnessTypeOK' /\ WorkersAreContained' /\ PipeIsCurrent'
    BY <1>1, <2>1, <2>2
    DEF HarnessInv, HarnessTypeOK, WorkersAreContained, PipeIsCurrent, Responses, Current
  <2> QED BY <2>2, <2>3 DEF HarnessInv
<1>6. CASE LogMetrics
  <2>1. /\ Current \in 1 .. Candidates /\ worker = "none" /\ harness.at = "logging"
        /\ mlruns' = [mlruns EXCEPT ![Current] = "finished"]
        /\ harness' = [at |-> "next", candidate |-> Current + 1] /\ Current' = Current + 1
        /\ UNCHANGED <<worker, pipe, rows, outcome>>
    BY <1>2, <1>6 DEF LogMetrics, KeepWorker, HarnessInv, WorkersAreContained, Current
  <2>2. HarnessTypeOK' /\ WorkersAreContained' /\ PipeIsCurrent' /\ AnswersAreTheirOwn'
    BY <1>2, <2>1
    DEF HarnessInv, HarnessTypeOK, WorkersAreContained, PipeIsCurrent, AnswersAreTheirOwn, Current
  <2>3. ASSUME NEW c \in 1 .. Candidates
        PROVE  RowsKept(c)' /\ NotFailedEarly(c)'
    BY <1>2, <2>1, SMTT(30) DEF RowsKept, NotFailedEarly, HarnessInv, HarnessTypeOK
  <2>4. Position'
    BY <1>2, <2>1, <2>3 DEF Position, HarnessInv
  <2> QED BY <2>2, <2>4 DEF HarnessInv
<1>7. CASE Abort
  <2>1. /\ Current \in 1 .. Candidates /\ harness.at = "aborting"
        /\ mlruns' = [mlruns EXCEPT ![Current] = "aborted"]
        /\ harness' = [at |-> "over", candidate |-> Current] /\ Current' = Current
        /\ outcome' = "failed" /\ worker' = "none" /\ pipe' = NewPipe /\ rows' = rows
    BY <1>2, <1>7 DEF Abort, StopWorker, Current
  <2>2. HarnessTypeOK' /\ WorkersAreContained' /\ PipeIsCurrent' /\ AnswersAreTheirOwn'
    BY <1>1, <1>2, <2>1
    DEF HarnessInv, HarnessTypeOK, WorkersAreContained, PipeIsCurrent, AnswersAreTheirOwn,
        Responses, Current
  <2>3. ASSUME NEW c \in 1 .. Candidates
        PROVE  RowsKept(c)' /\ NotFailedEarly(c)'
    BY <1>2, <2>1 DEF RowsKept, NotFailedEarly, HarnessInv, HarnessTypeOK
  <2>4. Position'
    BY <2>1, <2>3 DEF Position
  <2> QED BY <2>2, <2>4 DEF HarnessInv
<1>8. CASE Report
  <2>1. /\ Current = Candidates + 1 /\ worker = "none" /\ harness.at = "next"
        /\ harness' = [at |-> "over", candidate |-> Current] /\ Current' = Current
        /\ outcome' = "reported" /\ UNCHANGED <<worker, pipe, rows, mlruns>>
    BY <1>2, <1>8 DEF Report, HarnessInv, WorkersAreContained, Current
  <2>2. HarnessTypeOK' /\ WorkersAreContained' /\ PipeIsCurrent' /\ AnswersAreTheirOwn'
    BY <1>2, <2>1
    DEF HarnessInv, HarnessTypeOK, WorkersAreContained, PipeIsCurrent, AnswersAreTheirOwn, Current
  <2>3. ASSUME NEW c \in 1 .. Candidates
        PROVE  RowsKept(c)' /\ NotFailedEarly(c)'
    BY <1>2, <2>1 DEF RowsKept, NotFailedEarly
  <2>4. Position'
    BY <1>2, <2>1, <2>3 DEF Position
  <2> QED BY <2>2, <2>4 DEF HarnessInv
<1> QED BY <1>3, <1>4, <1>5, <1>6, <1>7, <1>8 DEF Run

-----------------------------------------------------------------------------
\* Before the first candidate there is no worker and no row.
LEMMA HarnessInitially == HarnessInit => HarnessInv
<1> SUFFICES ASSUME HarnessInit PROVE HarnessInv
  OBVIOUS
<1>1. /\ Claims \in Nat \ {0} /\ Candidates \in Nat \ {0, 1} /\ EarlyFailureLimit \in Nat \ {0}
      /\ <<>> \in Seq(0 .. Claims) /\ <<>> \in Responses
  BY HarnessAssumption DEF HarnessAssumption, Responses
<1>2. HarnessTypeOK
  BY <1>1 DEF HarnessInit, HarnessTypeOK, NewPipe, Responses
<1>3. WorkersAreContained /\ PipeIsCurrent /\ AnswersAreTheirOwn
  BY DEF HarnessInit, WorkersAreContained, PipeIsCurrent, AnswersAreTheirOwn
<1>4. Position
  BY <1>1 DEF HarnessInit, Position, RowsKept, NotFailedEarly, Current
<1> QED BY <1>2, <1>3, <1>4 DEF HarnessInv

\* No step of the ablation breaks the invariant.
LEMMA HarnessStep ==
    ASSUME HarnessInv, [HarnessNext]_harnessVars
    PROVE  HarnessInv'
<1>1. CASE UNCHANGED harnessVars
  BY <1>1
  DEF harnessVars, HarnessInv, HarnessTypeOK, WorkersAreContained, PipeIsCurrent, Asked, Answered,
      NoOutput, Open, NextClaim, Position, RowsKept, NotFailedEarly, AnswersAreTheirOwn, Current
<1> QED BY <1>1, WorkerKeeps, PredictKeeps, RunKeeps DEF HarnessNext

\* So it holds in every reachable state.
LEMMA HarnessInvariance == HarnessSpec => []HarnessInv
  BY HarnessInitially, HarnessStep, PTL DEF HarnessSpec

\* What is scored against a claim's labels is the answer to that claim
\* (CandidateAdapter.predict).
THEOREM AnswersAlwaysTheirOwn == HarnessSpec => []AnswersAreTheirOwn
<1>1. HarnessInv => AnswersAreTheirOwn
  BY DEF HarnessInv
<1> QED BY <1>1, HarnessInvariance, PTL

\* A candidate's run goes on while its workers come and go, and none is left behind
\* (_detach_active_run, shutdown).
THEOREM WorkersAlwaysContained == HarnessSpec => []WorkersAreContained
<1>1. HarnessInv => WorkersAreContained
  BY DEF HarnessInv
<1> QED BY <1>1, HarnessInvariance, PTL

\* A report has a row for every claim of every candidate, none of which failed from
\* the start (_report, EARLY_FAILURE_LIMIT).
THEOREM ReportsAlwaysComplete == HarnessSpec => []ReportsAreComplete
<1>1. HarnessInv => ReportsAreComplete
  <2> SUFFICES ASSUME HarnessInv, outcome = "reported", NEW c \in 1 .. Candidates
               PROVE  /\ Len(rows[c]) = Claims
                      /\ mlruns[c] = "finished"
                      /\ EarlyFailureLimit <= Claims =>
                           \E n \in 1 .. EarlyFailureLimit : rows[c][n] # Error
    BY DEF ReportsAreComplete
  <2>1. Current = Candidates + 1 /\ c < Current /\ c # Current /\ RowsKept(c) /\ NotFailedEarly(c)
    BY HarnessAssumption DEF HarnessAssumption, HarnessInv, Position
  <2> QED BY <2>1 DEF RowsKept, NotFailedEarly
<1> QED BY <1>1, HarnessInvariance, PTL

\* The harness stays at one of its stages, and the pipe holds messages of its kinds.
THEOREM HarnessAlwaysTyped == HarnessSpec => []HarnessTypeOK
<1>1. HarnessInv => HarnessTypeOK
  BY DEF HarnessInv
<1> QED BY <1>1, HarnessInvariance, PTL

-----------------------------------------------------------------------------
(* The harness is never stuck *)

NoReady == \A n \in DOMAIN pipe.responses : pipe.responses[n].kind # "ready"

\* A worker says that it is ready before it says anything else, and the harness has
\* heard it by the time it sends a claim.
ReadyFirst ==
    /\ \A n \in DOMAIN pipe.responses : pipe.responses[n].kind = "ready" => n = 1
    /\ worker = "starting" => pipe.responses = <<>>
    /\ harness.at \in {"sending", "polling"} => worker # "starting" /\ NoReady

\* Whatever the harness finds in the pipe while it polls for a claim is an answer,
\* an error or a violation, so that Receive always has a case for it.
PolledIsAnAnswer ==
    harness.at = "polling" /\ pipe.responses # <<>> =>
      Head(pipe.responses).kind \in {"output", "error", "violation"}

\* Taking the first message leaves the others one place earlier.
LEMMA FirstIsRead ==
    ASSUME HarnessInv, pipe.responses # <<>>
    PROVE  /\ 1 \in DOMAIN pipe.responses /\ Head(pipe.responses) = pipe.responses[1]
           /\ Tail(pipe.responses) \in Responses
           /\ \A n \in DOMAIN Tail(pipe.responses) :
                /\ n \in Nat /\ n + 1 \in DOMAIN pipe.responses /\ n + 1 # 1
                /\ Tail(pipe.responses)[n] = pipe.responses[n + 1]
<1>1. pipe.responses \in Responses /\ pipe.responses \in Seq([kind : Kinds, claim : 0 .. Claims])
  BY DEF HarnessInv, HarnessTypeOK, Responses
<1> QED BY <1>1, HeadTailProperties DEF Responses

\* A message other than "ready" is added after those that are there.
LEMMA ReadyStaysFirst ==
    ASSUME HarnessInv, ReadyFirst, NEW kind \in Kinds \ {"ready"}, NEW claim,
           worker' # "starting", harness' = harness,
           pipe'.responses = Append(pipe.responses, Message(kind, claim))
    PROVE  ReadyFirst'
<1> DEFINE old == pipe.responses
<1>1. old \in Seq([kind : Kinds, claim : 0 .. Claims])
  BY DEF HarnessInv, HarnessTypeOK
<1>2. /\ DOMAIN pipe'.responses = 1 .. Len(old) + 1
      /\ DOMAIN old = 1 .. Len(old) /\ Len(old) \in Nat
      /\ pipe'.responses[Len(old) + 1] = Message(kind, claim)
      /\ \A n \in 1 .. Len(old) : pipe'.responses[n] = old[n]
  BY <1>1
<1>3. \A n \in DOMAIN pipe'.responses :
        pipe'.responses[n].kind = "ready" => n \in DOMAIN old /\ old[n].kind = "ready"
  BY <1>2 DEF Message
<1> QED BY <1>3 DEF ReadyFirst, NoReady

\* No step of a worker puts anything before "ready" ...
LEMMA WorkerReadyFirst ==
    ASSUME HarnessInv, ReadyFirst, Worker
    PROVE  ReadyFirst'
<1>1. harness' = harness
  BY WorkerLeavesHarness
<1>2. CASE WorkerReady
  <2>1. pipe'.responses = <<Message("ready", 0)>> /\ worker' = "ready" /\ worker = "starting"
    <3>1. pipe.responses = <<>> /\ pipe \in [requests : Seq(0 .. Claims), responses : Responses]
      BY <1>2 DEF WorkerReady, ReadyFirst, HarnessInv, HarnessTypeOK, Responses
    <3> QED BY <1>2, <3>1 DEF WorkerReady, Sends
  <2>2. \A n \in DOMAIN pipe'.responses : n = 1
    BY <2>1
  <2> QED BY <1>1, <2>1, <2>2 DEF ReadyFirst
<1>3. CASE WorkerFails
  <2>1. pipe'.responses = Append(pipe.responses, Message("error", 0)) /\ worker' = "dead"
    BY <1>3 DEF WorkerFails, Sends, HarnessInv, HarnessTypeOK
  <2> QED BY <1>1, <2>1, ReadyStaysFirst DEF Kinds
<1>4. CASE WorkerResumesRun \/ WorkerLeaves \/ WorkerDies
  <2>1. pipe' = pipe /\ worker' # "starting"
    BY <1>4 DEF WorkerResumesRun, WorkerLeaves, WorkerDies
  <2> QED BY <1>1, <2>1 DEF ReadyFirst, NoReady
<1>5. ASSUME NEW kind \in Kinds \ {"ready"}, WorkerResponds(kind)
      PROVE  ReadyFirst'
  <2>1. /\ pipe'.responses = Append(pipe.responses, Message(kind, Head(pipe.requests)))
        /\ worker' = "serving"
    BY <1>5 DEF WorkerResponds
  <2> QED BY <1>1, <2>1, ReadyStaysFirst
<1> QED BY <1>2, <1>3, <1>4, <1>5 DEF Worker

\* ... and the harness reads it before it sends.
LEMMA PredictReadyFirst ==
    ASSUME HarnessInv, ReadyFirst, Predict
    PROVE  ReadyFirst'
<1>1. ASSUME StopWorker PROVE ReadyFirst'
  BY <1>1 DEF StopWorker, NewPipe, ReadyFirst, NoReady
<1>2. CASE StartupTimesOut \/ ClaimTimesOut \/ WorkerExited
  BY <1>1, <1>2 DEF StartupTimesOut, ClaimTimesOut, WorkerExited
<1>3. CASE StartWorker
  <2>1. worker' = "starting" /\ pipe'.responses = <<>> /\ harness'.at = "starting"
    BY <1>3 DEF StartWorker, Go, NewPipe, HarnessInv, HarnessTypeOK
  <2> QED BY <2>1 DEF ReadyFirst
<1>4. ASSUME pipe.responses # <<>>, pipe' = [pipe EXCEPT !.responses = Tail(@)], worker' = worker
      PROVE  ReadyFirst' /\ NoReady'
  <2>1. pipe'.responses = Tail(pipe.responses)
    BY <1>4 DEF HarnessInv, HarnessTypeOK
  <2>2. \A n \in DOMAIN Tail(pipe.responses) : Tail(pipe.responses)[n].kind # "ready"
    BY <1>4, FirstIsRead DEF ReadyFirst
  <2>3. worker # "starting"
    BY <1>4 DEF ReadyFirst
  <2> QED BY <1>4, <2>1, <2>2, <2>3 DEF ReadyFirst, NoReady
<1>5. CASE StartupReceives \/ Receive
  BY <1>1, <1>4, <1>5 DEF StartupReceives, Receive
<1>6. CASE Send
  <2>1. CASE KeepWorker /\ Record(Error)
    BY <2>1 DEF KeepWorker, Record, ReadyFirst, HarnessInv, HarnessTypeOK
  <2>2. CASE /\ pipe' = [pipe EXCEPT !.requests = Append(@, NextClaim)]
             /\ worker' = worker
    <3>1. pipe'.responses = pipe.responses
      BY <2>2 DEF HarnessInv, HarnessTypeOK
    <3>2. worker # "starting" /\ NoReady
      BY <1>6 DEF Send, ReadyFirst, NoReady, HarnessInv, PipeIsCurrent, NewPipe
    <3> QED BY <2>2, <3>1, <3>2 DEF ReadyFirst, NoReady
  <2> QED BY <1>6, <2>1, <2>2 DEF Send
<1> QED BY <1>2, <1>3, <1>5, <1>6 DEF Predict

LEMMA RunReadyFirst ==
    ASSUME HarnessInv, ReadyFirst, Run
    PROVE  ReadyFirst'
<1>1. CASE BeginCandidate \/ LogMetrics \/ Report
  BY <1>1 DEF BeginCandidate, LogMetrics, Report, KeepWorker, ReadyFirst, HarnessInv, HarnessTypeOK
<1>2. CASE Shutdown \/ Abort
  BY <1>2 DEF Shutdown, Abort, StopWorker, NewPipe, ReadyFirst, NoReady
<1>3. CASE AskToLeave
  <2>1. pipe'.responses = pipe.responses /\ worker' = worker /\ harness'.at = "leaving"
    BY <1>3 DEF AskToLeave, Go, HarnessInv, HarnessTypeOK
  <2> QED BY <2>1 DEF ReadyFirst
<1> QED BY <1>1, <1>2, <1>3 DEF Run

\* So nothing that the harness polls for finds it without a case (CandidateAdapter.predict:
\* what _receive returns is an output, an error or an invariant violation).
THEOREM PolledAlwaysAnAnswer == HarnessSpec => []PolledIsAnAnswer
<1>1. HarnessInit => ReadyFirst
  BY DEF HarnessInit, NewPipe, ReadyFirst
<1>2. ASSUME HarnessInv, ReadyFirst, [HarnessNext]_harnessVars PROVE ReadyFirst'
  <2>1. CASE UNCHANGED harnessVars
    BY <1>2, <2>1 DEF harnessVars, ReadyFirst, NoReady
  <2> QED BY <1>2, <2>1, WorkerReadyFirst, PredictReadyFirst, RunReadyFirst DEF HarnessNext
<1>3. HarnessInv /\ ReadyFirst => PolledIsAnAnswer
  <2> SUFFICES ASSUME HarnessInv, ReadyFirst, harness.at = "polling", pipe.responses # <<>>
               PROVE  Head(pipe.responses).kind \in {"output", "error", "violation"}
    BY DEF PolledIsAnAnswer
  <2>1. 1 \in DOMAIN pipe.responses /\ Head(pipe.responses) = pipe.responses[1]
    BY FirstIsRead
  <2> DEFINE Messages == [kind : Kinds, claim : 0 .. Claims]
  <2>2. pipe.responses \in Seq(Messages)
    BY DEF HarnessInv, HarnessTypeOK
  <2>3. pipe.responses[1] \in Messages
    <3> HIDE DEF Messages
    <3> QED BY <2>1, <2>2
  <2> QED BY <2>1, <2>3 DEF ReadyFirst, NoReady, Kinds
<1> QED BY <1>1, <1>2, <1>3, HarnessInvariance, PTL DEF HarnessSpec

\* How far the harness is with a claim, a candidate and the run.
Stage == [next |-> 0, predicting |-> 1, starting |-> 2, sending |-> 3, polling |-> 4,
          leaving |-> 5, logging |-> 6, aborting |-> 7, over |-> 8]

\* On to another candidate, to another claim of this one, or on with this claim.
Forward ==
    \/ Current' > Current
    \/ /\ Current' = Current /\ Current \in 1 .. Candidates
       /\ Len(rows'[Current]) > Len(rows[Current])
    \/ Current' = Current /\ rows' = rows /\ Stage[harness'.at] > Stage[harness.at]

\* No step of a worker takes the harness anywhere, and every other one takes it on: what
\* is left to do is a candidate, a row or a stage less, of which there are finitely many.
GoesForward == [][(Worker /\ UNCHANGED <<harness, rows>>) \/ Forward]_harnessVars

LEMMA RecordForward ==
    ASSUME HarnessInv, NEW answer, Record(answer),
           harness.at \in {"predicting", "starting", "sending", "polling"}
    PROVE  Forward
<1>1. /\ Current \in 1 .. Candidates /\ Current' = Current
      /\ rows' = [rows EXCEPT ![Current] = Append(@, answer)]
      /\ rows[Current] \in Seq(0 .. Claims) /\ rows \in [1 .. Candidates -> Seq(0 .. Claims)]
  BY DEF HarnessInv, HarnessTypeOK, Position, Record, Recorded, Current
<1>2. rows'[Current] = Append(rows[Current], answer)
  BY <1>1
<1>3. Len(rows'[Current]) = Len(rows[Current]) + 1 /\ Len(rows[Current]) \in Nat
  BY <1>1, <1>2
<1> QED BY <1>1, <1>3 DEF Forward

LEMMA GoForward ==
    ASSUME HarnessInv, NEW at, Go(at),
           \/ harness.at = "predicting" /\ at \in {"starting", "polling", "leaving"}
           \/ harness.at = "starting" /\ at = "sending"
           \/ harness.at = "sending" /\ at = "polling"
           \/ harness.at = "polling" /\ at = "aborting"
           \/ harness.at = "leaving" /\ at = "logging"
    PROVE  Forward
<1>1. Current' = Current /\ rows' = rows /\ harness'.at = at
  BY DEF Go, Current, HarnessInv, HarnessTypeOK
<1>2. Stage[at] > Stage[harness.at]
  BY DEF Stage
<1> QED BY <1>1, <1>2 DEF Forward

\* The ablation goes on, whatever its candidates do.  With fairness of the harness it
\* ends (AblationEnds, for TLC): after at most Candidates times Claims rows.
THEOREM AblationGoesForward == HarnessSpec => GoesForward
<1>1. ASSUME HarnessInv, HarnessNext
      PROVE  (Worker /\ UNCHANGED <<harness, rows>>) \/ Forward
  <2>1. CASE Worker
    BY <1>1, <2>1, WorkerLeavesHarness
  <2>2. CASE StartWorker
    BY <1>1, <2>2, GoForward DEF StartWorker
  <2>3. CASE StartupTimesOut \/ ClaimTimesOut \/ WorkerExited
    BY <1>1, <2>3, RecordForward DEF StartupTimesOut, ClaimTimesOut, WorkerExited
  <2>4. CASE StartupReceives
    BY <1>1, <2>4, RecordForward, GoForward DEF StartupReceives
  <2>5. CASE Send
    BY <1>1, <2>5, RecordForward, GoForward DEF Send
  <2>6. CASE Receive
    BY <1>1, <2>6, RecordForward, GoForward DEF Receive
  <2>7. CASE AskToLeave
    BY <1>1, <2>7, GoForward DEF AskToLeave
  <2>8. CASE Shutdown
    BY <1>1, <2>8, GoForward DEF Shutdown
  <2>9. CASE LogMetrics
    <3>1. Current' = Current + 1 /\ Current \in Nat
      BY <1>1, <2>9 DEF LogMetrics, Current, HarnessInv, HarnessTypeOK
    <3> QED BY <3>1 DEF Forward
  <2>10. CASE BeginCandidate \/ Abort \/ Report
    <3>1. /\ Current' = Current /\ rows' = rows
          /\ \/ harness.at = "next" /\ harness'.at \in {"predicting", "over"}
             \/ harness.at = "aborting" /\ harness'.at = "over"
      BY <1>1, <2>10
      DEF BeginCandidate, Abort, Report, Current, HarnessInv, HarnessTypeOK
    <3> QED BY <3>1 DEF Forward, Stage
  <2> QED
    BY <1>1, <2>1, <2>2, <2>3, <2>4, <2>5, <2>6, <2>7, <2>8, <2>9, <2>10
    DEF HarnessNext, Predict, Run
<1>2. HarnessInv /\ [HarnessNext]_harnessVars =>
        [(Worker /\ UNCHANGED <<harness, rows>>) \/ Forward]_harnessVars
  BY <1>1
<1> QED BY <1>2, HarnessInvariance, PTL DEF HarnessSpec, GoesForward

-----------------------------------------------------------------------------
(* The held-out set *)

\* The records a set can hold.
NormalRecords == {NormalRecord(row) : row \in Row}
NarrativeRecords == {NarrativeRecord(row, s) : row \in Row, s \in DOMAIN NarrativeCounts}

\* A set that is valid has had every record pass the gate under a version that was in force since
\* the build began.
BuildKept ==
    /\ build = [at |-> build.at, since |-> build.since, records |-> build.records]
    /\ build.at \in {"idle", "selecting", "validating", "valid"}
    /\ build.since \in 0 .. policy
    /\ build.records \subseteq NormalRecords \cup NarrativeRecords
    /\ build.at = "valid" =>
         \A record \in build.records : \E version \in build.since .. policy :
           ValidateGateResult(record, version)

\* The history is the one the program read: nobody rewrites it meanwhile.
PoliciesKept == policy \in 0 .. Policies /\ history \in Seq(Seq(Row) \ {<<>>})

\* What is at a place is a row.
LEMMA RowsAre ==
    ASSUME PoliciesKept
    PROVE  \A p \in Rows : RowAt(p) \in Row
<1> SUFFICES ASSUME NEW g \in DOMAIN history, NEW n \in DOMAIN history[g]
             PROVE  RowAt(<<g, n>>) \in Row
  BY DEF Rows
<1>1. history[g] \in Seq(Row)
  BY DEF PoliciesKept
<1> QED BY <1>1 DEF RowAt

\* Rows are taken from those that are tried.
LEMMA FirstOfPlaces ==
    \A quota, places :
      UpTo(quota, places) \subseteq places /\ First(quota, places) \subseteq places
BY DEF UpTo, First

\* The selected places are places of the history, ...
LEMMA SelectedAreRows ==
    ASSUME PoliciesKept, NEW reads, NEW normal, NEW narrative,
           normal = [s \in DOMAIN NormalCounts |-> LiveRows(s, reads)],
           narrative = LiveNarrativeSources(reads)
    PROVE  /\ \A s \in DOMAIN NormalCounts : normal[s] \subseteq Rows
           /\ narrative \subseteq Rows
BY FirstOfPlaces DEF LiveRows, LiveNarrativeSources

\* ... so what is made of them are records.
LEMMA RecordsAre ==
    ASSUME PoliciesKept, NEW normal, NEW narrative \in SUBSET Rows,
           \A s \in DOMAIN NormalCounts : normal[s] \subseteq Rows
    PROVE  RecordsOf(normal, narrative) \subseteq NormalRecords \cup NarrativeRecords
<1>1. \A s \in DOMAIN NormalCounts : \A p \in normal[s] : NormalRecord(RowAt(p)) \in NormalRecords
  BY RowsAre DEF NormalRecords
<1>2. \A s \in DOMAIN NarrativeCounts : \A p \in First(NarrativeCounts[s], narrative) :
        NarrativeRecord(RowAt(p), s) \in NarrativeRecords
  BY RowsAre, FirstOfPlaces DEF NarrativeRecords
<1>3. \A s \in DOMAIN NormalCounts : NormalOf(normal[s]) \subseteq NormalRecords
  BY <1>1 DEF NormalOf
<1>4. \A s \in DOMAIN NarrativeCounts : NarrativeOf(s, narrative) \subseteq NarrativeRecords
  BY <1>2 DEF NarrativeOf
<1> QED BY <1>3, <1>4 DEF RecordsOf

\* A policy is loaded by an intake, and the history stays.
LEMMA PoliciesStep ==
    ASSUME PoliciesKept, [DatasetsNext]_datasetVars
    PROVE  PoliciesKept'
<1>1. CASE LoadPolicy
  BY <1>1, DatasetsAssumption DEF LoadPolicy, PoliciesKept, Row, Labels, Rules
<1>2. CASE UNCHANGED <<history, policy>>
  BY <1>2 DEF PoliciesKept, Row, Labels, Rules
<1> QED
  BY <1>1, <1>2
     DEF DatasetsNext, BuildHoldout, BeginSelection, SelectLiveSources, ValidateLive, MergeRecords,
         StratifiedSample, datasetVars

\* A build in progress keeps what it has found out, whatever is loaded meanwhile.
LEMMA BuildStep ==
    ASSUME PoliciesKept, BuildKept, [DatasetsNext]_datasetVars
    PROVE  BuildKept'
<1>0. policy \in Nat /\ Policies \in Nat /\ build.since \in 0 .. policy
  BY DatasetsAssumption DEF PoliciesKept, BuildKept
<1>2. NormalRecords' = NormalRecords /\ NarrativeRecords' = NarrativeRecords
  BY DEF NormalRecords, NarrativeRecords, NormalRecord, NarrativeRecord, NormalStratum, Gold, Row,
     Labels, Rules
<1>9. \A record, version : ValidateGateResult(record, version)' <=> ValidateGateResult(record, version)
  BY DEF ValidateGateResult, Structured, Gold
<1>3. CASE BeginSelection
  BY <1>0, <1>2, <1>3 DEF BeginSelection, BuildKept
<1>4. CASE SelectLiveSources
  <2>1. CASE build' = Refused
    BY <1>0, <1>2, <1>4, <2>1 DEF SelectLiveSources, BuildKept, Refused, NotBuilding
  <2>2. PICK reads \in Reads(Rows) :
          LET normal == [s \in DOMAIN NormalCounts |-> LiveRows(s, reads)]
              narrative == LiveNarrativeSources(reads)
          IN  \/ build' = [at |-> "validating", since |-> policy,
                            records |-> RecordsOf(normal, narrative)]
              \/ build' = Refused
    BY <1>4 DEF SelectLiveSources
  <2> DEFINE normal == [s \in DOMAIN NormalCounts |-> LiveRows(s, reads)]
             narrative == LiveNarrativeSources(reads)
  <2>3. RecordsOf(normal, narrative) \subseteq NormalRecords \cup NarrativeRecords
    BY SelectedAreRows, RecordsAre
  <2>4. CASE build' = [at |-> "validating", since |-> policy,
                       records |-> RecordsOf(normal, narrative)]
    <3>1. policy' = policy
      BY <1>4 DEF SelectLiveSources
    <3> HIDE DEF normal, narrative
    <3> QED BY <1>0, <1>2, <2>3, <2>4, <3>1 DEF BuildKept
  <2> QED BY <2>1, <2>2, <2>4
<1>5. CASE ValidateLive
  <2>1. PICK reads \in Reads(build.records) :
         build' = IF \A record \in build.records : ValidateGateResult(record, reads[record])
                  THEN [build EXCEPT !.at = "valid"] ELSE Refused
    BY <1>5 DEF ValidateLive
  <2>2. CASE build' = Refused
    BY <1>0, <1>2, <1>5, <2>2 DEF ValidateLive, BuildKept, Refused, NotBuilding
  <2>3. CASE /\ \A record \in build.records : ValidateGateResult(record, reads[record])
             /\ build' = [build EXCEPT !.at = "valid"]
    <3>1. \A record \in build.records : reads[record] \in build.since .. policy
      BY DEF Reads
    <3>2. \A record \in build.records :
            \E version \in build.since .. policy : ValidateGateResult(record, version)
      BY <2>3, <3>1
    <3>3. /\ build' = [build EXCEPT !.at = "valid"] /\ build'.at = "valid"
          /\ build'.since = build.since /\ build'.records = build.records /\ policy' = policy
      BY <1>5, <2>3 DEF ValidateLive, BuildKept
    <3>4. \A record \in build'.records :
            \E version \in build'.since .. policy' : ValidateGateResult(record, version)'
      BY <1>9, <3>2, <3>3
    <3> QED BY <1>0, <1>2, <3>3, <3>4 DEF BuildKept
  <2> QED BY <2>1, <2>2, <2>3
<1>6. CASE MergeRecords
  BY <1>0, <1>2, <1>6 DEF MergeRecords, BuildKept, NotBuilding
<1>7. CASE LoadPolicy
  <2>1. policy' = policy + 1 /\ build' = build
    BY <1>7 DEF LoadPolicy
  <2>2. \A version \in build.since .. policy : version \in build'.since .. policy'
    BY <1>0, <2>1
  <2>3. build.at = "valid" =>
         \A record \in build'.records :
           \E version \in build'.since .. policy' : ValidateGateResult(record, version)'
    BY <1>9, <2>1, <2>2 DEF BuildKept
  <2> QED BY <1>0, <1>2, <2>1, <2>3 DEF BuildKept
<1>8. CASE UNCHANGED <<policy, build>>
  BY <1>0, <1>2, <1>8, <1>9 DEF BuildKept
<1> QED BY <1>3, <1>4, <1>5, <1>6, <1>7, <1>8
           DEF DatasetsNext, BuildHoldout, StratifiedSample, datasetVars

\* A record that passes the gate is labelled with the rule that decides its claim.
LEMMA GatedAreRules ==
    ASSUME NEW record \in NormalRecords \cup NarrativeRecords, NEW version \in 0 .. Policies,
           ValidateGateResult(record, version)
    PROVE  IsItsRule(record, version)
<1> DEFINE rule == record.row.rule[version]
<1>1. record.row \in Row
  BY DEF NormalRecords, NarrativeRecords, NormalRecord, NarrativeRecord
<1>2. rule \in Rules /\ record.row.label \in Labels
  BY <1>1 DEF Row
<1>3. CASE record \in NarrativeRecords
  <2>1. record.group = "narrative"
    BY <1>3 DEF NarrativeRecords, NarrativeRecord
  <2>2. Structured(rule)[1] # "DENY"
    BY <2>1 DEF ValidateGateResult
  <2>3. rule \notin {"R1", "R4"}
    BY <2>2 DEF Structured
  <2> QED BY <2>1, <2>3 DEF IsItsRule
<1>4. CASE record \in NormalRecords
  <2>1. record.group = "normal" /\ record.stratum = NormalStratum(record.row)
    BY <1>4 DEF NormalRecords, NormalRecord
  <2>2. record.stratum # "fraud_ring" => Structured(rule) = Gold(record.row)
    BY <2>1 DEF ValidateGateResult
  <2>3. CASE record.row.label = "clean"
    BY <1>2, <2>1, <2>2, <2>3 DEF NormalStratum, Gold, Structured, Rules, IsItsRule
  <2>4. CASE record.row.label \in {"in_spec", "out_of_warranty"}
    BY <1>2, <2>1, <2>2, <2>4 DEF NormalStratum, Gold, Structured, Rules, IsItsRule
  <2>5. CASE record.row.label = "duplicate"
    BY <1>2, <2>1, <2>2, <2>5 DEF NormalStratum, Gold, Structured, Rules, IsItsRule
  <2>6. CASE record.row.label = "over_claim"
    BY <1>2, <2>1, <2>2, <2>6 DEF NormalStratum, Gold, Structured, Rules, IsItsRule
  <2>7. CASE record.row.label = "supplier_attributable"
    BY <1>2, <2>1, <2>2, <2>7 DEF NormalStratum, Gold, Structured, Rules, IsItsRule
  <2>8. CASE record.row.label = "fraud_cluster"
    BY <1>2, <2>1, <2>2, <2>8 DEF NormalStratum, Gold, Structured, Rules, IsItsRule
  <2> QED BY <1>2, <2>3, <2>4, <2>5, <2>6, <2>7, <2>8 DEF Labels
<1> QED BY <1>3, <1>4

\* build_holdout (heldout.py): what is merged was found valid, each record under a policy version
\* that was in force while the set was validated, so its stratum names the rule that decided it.
THEOREM StrataAlwaysAreRules == DatasetsSpec => StrataAreRules
<1>1. DatasetsInit => PoliciesKept /\ BuildKept
  BY DatasetsAssumption DEF DatasetsInit, PoliciesKept, BuildKept, NotBuilding
<1>2. PoliciesKept /\ BuildKept /\ [DatasetsNext]_datasetVars => (PoliciesKept /\ BuildKept)'
  BY PoliciesStep, BuildStep
<1> DEFINE Entering ==
      \A record \in heldout' \ heldout :
        \E version \in build.since .. policy : IsItsRule(record, version)
<1>3. PoliciesKept /\ BuildKept /\ [DatasetsNext]_datasetVars => [Entering]_datasetVars
  <2> SUFFICES ASSUME PoliciesKept, BuildKept, DatasetsNext,
                      NEW record \in heldout' \ heldout
               PROVE  \E version \in build.since .. policy : IsItsRule(record, version)
    OBVIOUS
  <2>1. build.at = "valid" /\ record \in build.records
    BY DEF DatasetsNext, BuildHoldout, BeginSelection, SelectLiveSources, ValidateLive,
       MergeRecords,
           LoadPolicy, StratifiedSample
  <2>2. PICK version \in build.since .. policy : ValidateGateResult(record, version)
    BY <2>1 DEF BuildKept
  <2>3. version \in 0 .. Policies /\ record \in NormalRecords \cup NarrativeRecords
    BY <2>1, DatasetsAssumption DEF BuildKept, PoliciesKept
  <2>4. IsItsRule(record, version)
    BY <2>2, <2>3, GatedAreRules
  <2> QED BY <2>4
<1>4. DatasetsSpec => [][Entering]_datasetVars
  BY <1>1, <1>2, <1>3, PTL DEF DatasetsSpec
<1> QED BY <1>4 DEF StrataAreRules

-----------------------------------------------------------------------------
(* The holdout *)

\* The rows of entities, and those of a stratum among them.
RowsTaken(entities) == {p \in Rows : p[1] \in Range(entities)}
RowsMatching(entities, stratum) == {p \in RowsTaken(entities) : Stratum(RowAt(p)) = stratum}

Takings == [entities : Seq(DOMAIN history), size : Nat, rows : Nat, met : SUBSET Range(CriticalStrata)]

\* What has been taken counts: each entity once, with all its rows, and a stratum that got enough.
Sound(t) ==
    /\ t \in Takings /\ IsInjective(t.entities)
    /\ IsFiniteSet(RowsTaken(t.entities)) /\ Cardinality(RowsTaken(t.entities)) = t.size
    /\ \A s \in t.met : Cardinality(RowsMatching(t.entities, s)) >= MinimumRare
Counted(t, stratum) == Sound(t) /\ t.rows <= Cardinality(RowsMatching(t.entities, stratum))

\* There are as many places in an entity as it has rows.
LEMMA PairsCount ==
    ASSUME NEW g, NEW T, IsFiniteSet(T)
    PROVE  LET P == {<<g, n>> : n \in T} IN IsFiniteSet(P) /\ Cardinality(P) = Cardinality(T)
<1> DEFINE P == {<<g, n>> : n \in T}
           f == [n \in T |-> <<g, n>>]
<1>1. f \in Bijection(T, P)
  BY DEF Bijection, Injection, Surjection, IsInjective
<1>2. ExistsBijection(T, P)
  BY <1>1 DEF ExistsBijection
<1> QED BY <1>2, FS_Bijection

\* An entity that is taken adds its rows to those there are.
LEMMA EntityTaken ==
    ASSUME PoliciesKept, NEW t, Sound(t), NEW g \in DOMAIN history, ~Took(t, g)
    PROVE  /\ Sound(TakeEntity(t, g))
           /\ TakeEntity(t, g).rows = t.rows
           /\ \A s : /\ Matching(g, s) \in Nat
                     /\ Cardinality(RowsMatching(t.entities, s)) \in Nat
                     /\ Cardinality(RowsMatching(TakeEntity(t, g).entities, s))
                          = Cardinality(RowsMatching(t.entities, s)) + Matching(g, s)
<1> DEFINE u == TakeEntity(t, g)
           own == {<<g, n>> : n \in DOMAIN history[g]}
<1>1. /\ t \in Takings /\ t.entities \in Seq(DOMAIN history) /\ t.size \in Nat /\ t.rows \in Nat
      /\ history[g] \in Seq(Row) /\ Len(history[g]) \in Nat /\ DOMAIN history[g] = 1 .. Len(history[g])
  BY DEF Sound, Takings, PoliciesKept
<1>2. /\ u.entities = Append(t.entities, g) /\ u.size = t.size + Len(history[g])
      /\ u.rows = t.rows /\ u.met = t.met /\ u \in Takings
  <2>1. /\ u = [t EXCEPT !.entities = Append(t.entities, g), !.size = t.size + Len(history[g])]
        /\ Append(t.entities, g) \in Seq(DOMAIN history) /\ t.size + Len(history[g]) \in Nat
    BY <1>1 DEF TakeEntity
  <2> HIDE DEF u
  <2> QED BY <1>1, <2>1 DEF Takings
<1>3. g \notin Range(t.entities)
  BY DEF Took, Range
<1>4. Range(u.entities) = Range(t.entities) \cup {g} /\ IsInjective(u.entities)
  <2>1. /\ DOMAIN t.entities = 1 .. Len(t.entities) /\ DOMAIN u.entities = 1 .. Len(t.entities) + 1
        /\ u.entities[Len(t.entities) + 1] = g /\ Len(t.entities) \in Nat
        /\ \A i \in 1 .. Len(t.entities) : u.entities[i] = t.entities[i]
    BY <1>1, <1>2
  <2>2. Range(u.entities) = Range(t.entities) \cup {g}
    BY <2>1 DEF Range
  <2>3. ASSUME NEW a \in DOMAIN u.entities, NEW b \in DOMAIN u.entities, u.entities[a] = u.entities[b]
        PROVE  a = b
    <3>1. CASE a \in DOMAIN t.entities /\ b \in DOMAIN t.entities
      BY <2>1, <2>3, <3>1 DEF Sound, IsInjective
    <3>2. CASE a \notin DOMAIN t.entities
      BY <2>1, <2>3, <3>2 DEF Took
    <3>3. CASE b \notin DOMAIN t.entities
      BY <2>1, <2>3, <3>3 DEF Took
    <3> QED BY <3>1, <3>2, <3>3
  <2> QED BY <2>2, <2>3 DEF IsInjective
<1>5. /\ RowsTaken(u.entities) = RowsTaken(t.entities) \cup own
      /\ RowsTaken(t.entities) \cap own = {}
  BY <1>3, <1>4 DEF RowsTaken, Rows
<1>6. IsFiniteSet(DOMAIN history[g]) /\ Cardinality(DOMAIN history[g]) = Len(history[g])
  <2>1. IsFiniteSet(1 .. Len(history[g])) /\ Cardinality(1 .. Len(history[g])) = Len(history[g])
    <3> DEFINE length == Len(history[g])
    <3>1. 1 \in Int /\ length \in Int /\ length \in Nat
      BY <1>1
    <3> HIDE DEF length
    <3>2. IsFiniteSet(1 .. length) /\ Cardinality(1 .. length) = IF 1 > length THEN 0 ELSE length - 1 + 1
      BY <3>1, FS_Interval
    <3>3. IsFiniteSet(1 .. length) /\ Cardinality(1 .. length) = length
      BY <3>1, <3>2
    <3> QED BY <3>3 DEF length
  <2> QED BY <1>1, <2>1
<1>7. IsFiniteSet(own) /\ Cardinality(own) = Len(history[g])
  BY <1>6, PairsCount
<1>8. IsFiniteSet(RowsTaken(u.entities)) /\ Cardinality(RowsTaken(u.entities)) = u.size
  <2>1. IsFiniteSet(RowsTaken(t.entities)) /\ Cardinality(RowsTaken(t.entities)) = t.size
    BY DEF Sound
  <2>2. /\ IsFiniteSet(RowsTaken(t.entities) \cup own)
        /\ Cardinality(RowsTaken(t.entities) \cup own)
             = t.size + Len(history[g]) - Cardinality(RowsTaken(t.entities) \cap own)
    BY <1>7, <2>1, FS_Union
  <2>3. Cardinality(RowsTaken(t.entities) \cap own) = 0
    BY <1>5, FS_EmptySet
  <2> QED BY <1>1, <1>2, <1>5, <2>2, <2>3
<1>9. ASSUME NEW s
      PROVE  /\ Matching(g, s) \in Nat
             /\ Cardinality(RowsMatching(t.entities, s)) \in Nat
             /\ Cardinality(RowsMatching(u.entities, s))
                  = Cardinality(RowsMatching(t.entities, s)) + Matching(g, s)
  <2> DEFINE T == {n \in DOMAIN history[g] : Stratum(history[g][n]) = s}
             match == {<<g, n>> : n \in T}
  <2>1. IsFiniteSet(T) /\ Matching(g, s) = Cardinality(T)
    BY <1>6, FS_Subset DEF Matching
  <2>2. IsFiniteSet(match) /\ Cardinality(match) = Matching(g, s) /\ Matching(g, s) \in Nat
    BY <2>1, PairsCount, FS_CardinalityType
  <2>3. RowsMatching(u.entities, s) = RowsMatching(t.entities, s) \cup match
    BY <1>5 DEF RowsMatching, RowAt
  <2>4. RowsMatching(t.entities, s) \cap match = {}
    BY <1>5 DEF RowsMatching
  <2>5. IsFiniteSet(RowsMatching(t.entities, s))
    BY FS_Subset DEF Sound, RowsMatching
  <2>6. Cardinality(RowsMatching(t.entities, s)) \in Nat
    BY <2>5, FS_CardinalityType
  <2>7. Cardinality(RowsMatching(t.entities, s) \cup match)
          = Cardinality(RowsMatching(t.entities, s)) + Cardinality(match)
              - Cardinality(RowsMatching(t.entities, s) \cap match)
    BY <2>2, <2>5, FS_Union
  <2>8. Cardinality(RowsMatching(t.entities, s) \cap match) = 0
    BY <2>4, FS_EmptySet
  <2> QED BY <2>2, <2>3, <2>6, <2>7, <2>8
<1>10. \A s \in u.met : Cardinality(RowsMatching(u.entities, s)) >= MinimumRare
  BY <1>2, <1>9, DatasetsAssumption DEF Sound
<1> QED BY <1>2, <1>4, <1>8, <1>9, <1>10 DEF Sound

\* Trying an entity for a stratum, and taking the rest, keep what has been taken sound.
LEMMA TryForKeeps ==
    ASSUME PoliciesKept, NEW stratum, NEW t, Counted(t, stratum), NEW g \in DOMAIN history
    PROVE  Counted(TryFor(stratum, t, g), stratum)
<1> DEFINE u == TakeEntity(t, g)
<1>1. CASE ~Took(t, g) /\ TryFor(stratum, t, g) = [u EXCEPT !.rows = @ + Matching(g, stratum)]
  <2>1. /\ Sound(u) /\ u.rows = t.rows /\ u \in Takings /\ t.rows \in Nat /\ Matching(g, stratum) \in Nat
        /\ Cardinality(RowsMatching(t.entities, stratum)) \in Nat
        /\ Cardinality(RowsMatching(u.entities, stratum))
             = Cardinality(RowsMatching(t.entities, stratum)) + Matching(g, stratum)
    BY <1>1, EntityTaken DEF Sound, Counted, Takings
  <2> DEFINE w == [u EXCEPT !.rows = @ + Matching(g, stratum)]
  <2> HIDE DEF u
  <2>2. /\ w \in Takings /\ w.entities = u.entities /\ w.size = u.size /\ w.met = u.met
        /\ w.rows = t.rows + Matching(g, stratum)
    BY <2>1 DEF Takings
  <2> HIDE DEF w
  <2>3. Sound(w)
    BY <2>1, <2>2 DEF Sound
  <2>4. Counted(w, stratum)
    BY <2>1, <2>2, <2>3 DEF Counted
  <2> QED BY <1>1, <2>4 DEF w
<1>2. CASE TryFor(stratum, t, g) = t
  BY <1>2
<1> QED BY <1>1, <1>2 DEF TryFor, Fits

\* So do all entities in turn, ...
LEMMA TriedForKeeps ==
    ASSUME PoliciesKept, NEW stratum, NEW t, Sound(t)
    PROVE  Counted(TriedFor(stratum, t)[Len(history)], stratum)
<1> DEFINE S == {u \in Takings : Counted(u, stratum)}
           base == [t EXCEPT !.rows = 0]
           N == Len(history)
           step == [x \in S \X (1 .. N) |-> TryFor(stratum, x[1], x[2])]
<1>1. N \in Nat /\ DOMAIN history = 1 .. N
  BY DEF PoliciesKept
<1>2. base \in S
  <2>1. t \in Takings
    BY DEF Sound
  <2>2. /\ base \in Takings /\ base.entities = t.entities /\ base.size = t.size /\ base.met = t.met
        /\ base.rows = 0
    BY <2>1 DEF Takings
  <2> HIDE DEF base
  <2>3. Sound(base)
    BY <2>2 DEF Sound
  <2>4. Cardinality(RowsMatching(t.entities, stratum)) \in Nat
    <3>1. RowsMatching(t.entities, stratum) \in SUBSET RowsTaken(t.entities)
      BY DEF RowsMatching
    <3> QED BY <3>1, FS_Subset, FS_CardinalityType DEF Sound
  <2> QED BY <2>2, <2>3, <2>4 DEF Counted
<1>3. step \in [S \X (1 .. N) -> S]
  <2>1. ASSUME NEW u \in S, NEW g \in 1 .. N PROVE TryFor(stratum, u, g) \in S
    BY <1>1, TryForKeeps DEF Counted, Sound
  <2> HIDE DEF S
  <2> QED BY <2>1
<1>4. PICK f \in [0 .. N -> S] : f[0] = base /\ \A n \in 1 .. N : f[n] = step[<<f[n - 1], n>>]
  <2> HIDE DEF S, base, step, N
  <2>1. N \in Nat
    BY <1>1
  <2>2. base \in S
    BY <1>2
  <2>3. step \in [S \X (1 .. N) -> S]
    BY <1>3
  <2>4. Unfolds(S, base, N, step)
    BY <2>1, <2>2, <2>3, Recursion
  <2> QED BY <2>4 DEF Unfolds
<1> DEFINE Body(h) == [g \in 0 .. N |-> IF g = 0 THEN base ELSE TryFor(stratum, h[g - 1], g)]
<1>5. f = Body(f)
  <2>1. ASSUME NEW n \in 0 .. N PROVE f[n] = Body(f)[n]
    <3>1. CASE n = 0
      BY <1>4, <3>1
    <3>2. CASE n # 0
      <4>1. n \in 1 .. N /\ n - 1 \in 0 .. N
        BY <1>1, <3>2
      <4> HIDE DEF S, base
      <4>2. f[n - 1] \in S /\ step[<<f[n - 1], n>>] = TryFor(stratum, f[n - 1], n)
        BY <4>1
      <4> QED BY <1>4, <3>2, <4>1, <4>2
    <3> QED BY <3>1, <3>2
  <2> HIDE DEF S, base
  <2> QED BY <2>1
<1>6. TriedFor(stratum, t) = CHOOSE h : h = Body(h)
  BY DEF TriedFor
<1> DEFINE h == TriedFor(stratum, t)
<1>7. h = Body(h)
  <2> HIDE DEF Body, h
  <2> QED BY <1>5, <1>6 DEF h
<1>8. h[0] \in S /\ \A n \in 1 .. N : h[n] = TryFor(stratum, h[n - 1], n)
  <2>1. \A n \in 0 .. N : h[n] = IF n = 0 THEN base ELSE TryFor(stratum, h[n - 1], n)
    <3> HIDE DEF h, base
    <3> QED BY <1>7
  <2> HIDE DEF S, h, base
  <2> QED BY <1>1, <1>2, <2>1
<1>9. Keeps(S, N, h)
  <2>1. ASSUME NEW u \in S, NEW g \in 1 .. N PROVE TryFor(stratum, u, g) \in S
    BY <1>1, TryForKeeps DEF Counted, Sound
  <2> HIDE DEF S, h
  <2> QED BY <1>8, <2>1 DEF Keeps
<1>10. h[N] \in S
  <2> HIDE DEF S, h, N
  <2>1. StaysIn(S, N, h)
    BY <1>1, <1>8, <1>9, Induction
  <2> QED BY <1>1, <2>1 DEF StaysIn
<1> QED BY <1>10

\* ... a stratum, which is met only when its rows are enough, ...
LEMMA TakeStratumKeeps ==
    ASSUME PoliciesKept, NEW stratum \in Range(CriticalStrata), NEW t, Sound(t)
    PROVE  Sound(TakeStratum(t, stratum))
<1> DEFINE after == TriedFor(stratum, t)[Len(history)]
<1>1. Counted(after, stratum)
  BY TriedForKeeps
<1> HIDE DEF after
<1>2. CASE after.rows < MinimumRare
  BY <1>1, <1>2 DEF TakeStratum, Counted, after
<1>3. CASE ~(after.rows < MinimumRare)
  <2> DEFINE w == [after EXCEPT !.met = @ \cup {stratum}]
  <2>1. /\ after \in Takings /\ Sound(after)
        /\ after.rows <= Cardinality(RowsMatching(after.entities, stratum))
    BY <1>1 DEF Counted, Sound
  <2>2. /\ w \in Takings /\ w.entities = after.entities /\ w.size = after.size
        /\ w.met = after.met \cup {stratum}
    BY <2>1 DEF Takings
  <2>3. TakeStratum(t, stratum) = w
    BY <1>3 DEF TakeStratum, after
  <2> HIDE DEF w
  <2>4. Cardinality(RowsMatching(after.entities, stratum)) \in Nat
    <3>1. RowsMatching(after.entities, stratum) \in SUBSET RowsTaken(after.entities)
      BY DEF RowsMatching
    <3> QED BY <2>1, <3>1, FS_Subset, FS_CardinalityType DEF Sound
  <2>5. Cardinality(RowsMatching(after.entities, stratum)) >= MinimumRare
    BY <1>3, <2>1, <2>4, DatasetsAssumption DEF Takings
  <2>6. Sound(w)
    BY <2>1, <2>2, <2>5 DEF Sound
  <2> QED BY <2>3, <2>6
<1> QED BY <1>2, <1>3

\* ... from nothing taken, ...
LEMMA NothingIsSound == PoliciesKept => Sound(TookNothing)
<1> SUFFICES ASSUME PoliciesKept PROVE Sound(TookNothing)
  OBVIOUS
<1>1. TookNothing \in Takings /\ IsInjective(TookNothing.entities)
  BY DEF TookNothing, Takings, IsInjective
<1>2. RowsTaken(TookNothing.entities) = {}
  BY DEF RowsTaken, TookNothing, Range
<1>3. IsFiniteSet(RowsTaken(TookNothing.entities)) /\ Cardinality(RowsTaken(TookNothing.entities)) = 0
  BY <1>2, FS_EmptySet
<1> QED BY <1>1, <1>3 DEF TookNothing, Sound

\* ... the critical strata one after the other, ...
LEMMA CriticalIsSound ==
    ASSUME PoliciesKept
    PROVE  Sound(Critical[Len(CriticalStrata)])
<1> DEFINE S == {u \in Takings : Sound(u)}
           N == Len(CriticalStrata)
           step == [x \in S \X (1 .. N) |-> TakeStratum(x[1], CriticalStrata[x[2]])]
<1>1. N \in Nat /\ \A k \in 1 .. N : CriticalStrata[k] \in Range(CriticalStrata)
  BY DEF CriticalStrata, Range
<1>2. TookNothing \in S
  BY NothingIsSound DEF Sound
<1>3. ASSUME NEW u \in S, NEW k \in 1 .. N PROVE TakeStratum(u, CriticalStrata[k]) \in S
  BY <1>1, TakeStratumKeeps DEF Sound
<1>4. PICK f \in [0 .. N -> S] :
        f[0] = TookNothing /\ \A n \in 1 .. N : f[n] = step[<<f[n - 1], n>>]
  <2>1. step \in [S \X (1 .. N) -> S]
    <3> HIDE DEF S, N
    <3> QED BY <1>3
  <2> HIDE DEF S, step, N
  <2>2. Unfolds(S, TookNothing, N, step)
    BY <1>1, <1>2, <2>1, Recursion
  <2> QED BY <2>2 DEF Unfolds
<1> DEFINE Body(h) == [k \in 0 .. N |-> IF k = 0 THEN TookNothing
                                        ELSE TakeStratum(h[k - 1], CriticalStrata[k])]
<1>5. f = Body(f)
  <2>1. ASSUME NEW n \in 0 .. N PROVE f[n] = Body(f)[n]
    <3>1. CASE n = 0
      BY <1>4, <3>1
    <3>2. CASE n # 0
      <4>1. n \in 1 .. N /\ n - 1 \in 0 .. N
        BY <1>1, <3>2
      <4> HIDE DEF S, N
      <4>2. f[n - 1] \in S /\ step[<<f[n - 1], n>>] = TakeStratum(f[n - 1], CriticalStrata[n])
        BY <4>1
      <4> QED BY <1>4, <3>2, <4>1, <4>2
    <3> QED BY <3>1, <3>2
  <2> HIDE DEF S, N
  <2> QED BY <2>1
<1>6. Critical = CHOOSE h : h = Body(h)
  BY DEF Critical
<1>7. Critical = Body(Critical)
  <2> HIDE DEF Body
  <2> QED BY <1>5, <1>6
<1>8. /\ Critical[0] \in S
      /\ \A n \in 1 .. N : Critical[n] = TakeStratum(Critical[n - 1], CriticalStrata[n])
  <2>1. \A n \in 0 .. N : Critical[n] = IF n = 0 THEN TookNothing
                                        ELSE TakeStratum(Critical[n - 1], CriticalStrata[n])
    <3> HIDE DEF N
    <3> QED BY <1>7
  <2> HIDE DEF S, N
  <2> QED BY <1>1, <1>2, <2>1
<1>9. Keeps(S, N, Critical)
  <2> HIDE DEF S, N
  <2> QED BY <1>3, <1>8 DEF Keeps
<1>10. Critical[N] \in S
  <2> HIDE DEF S, N
  <2>1. StaysIn(S, N, Critical)
    BY <1>1, <1>8, <1>9, Induction
  <2> QED BY <1>1, <2>1 DEF StaysIn
<1> QED BY <1>10

\* ... and whatever fits after them.
LEMMA TakeRestKeeps ==
    ASSUME PoliciesKept, NEW t, Sound(t)
    PROVE  Sound(TakeRest(t)[Len(history)])
<1> DEFINE S == {u \in Takings : Sound(u)}
           N == Len(history)
           Next1(u, g) == IF Fits(u, g) THEN TakeEntity(u, g) ELSE u
           step == [x \in S \X (1 .. N) |-> Next1(x[1], x[2])]
<1>1. N \in Nat /\ DOMAIN history = 1 .. N
  BY DEF PoliciesKept
<1>2. t \in S
  BY DEF Sound
<1>3. ASSUME NEW u \in S, NEW g \in 1 .. N PROVE Next1(u, g) \in S
  BY <1>1, EntityTaken DEF Sound, Fits
<1> HIDE DEF Next1
<1>4. PICK f \in [0 .. N -> S] : f[0] = t /\ \A n \in 1 .. N : f[n] = step[<<f[n - 1], n>>]
  <2>1. step \in [S \X (1 .. N) -> S]
    <3> HIDE DEF S, N
    <3> QED BY <1>3
  <2> HIDE DEF S, step, N
  <2>2. Unfolds(S, t, N, step)
    BY <1>1, <1>2, <2>1, Recursion
  <2> QED BY <2>2 DEF Unfolds
<1> DEFINE Body(h) == [g \in 0 .. N |-> IF g = 0 THEN t ELSE Next1(h[g - 1], g)]
           h == TakeRest(t)
<1>5. f = Body(f)
  <2>1. ASSUME NEW n \in 0 .. N PROVE f[n] = Body(f)[n]
    <3>1. CASE n = 0
      BY <1>4, <3>1
    <3>2. CASE n # 0
      <4>1. n \in 1 .. N /\ n - 1 \in 0 .. N
        BY <1>1, <3>2
      <4> HIDE DEF S, N
      <4>2. f[n - 1] \in S /\ step[<<f[n - 1], n>>] = Next1(f[n - 1], n)
        BY <4>1
      <4> QED BY <1>4, <3>2, <4>1, <4>2
    <3> QED BY <3>1, <3>2
  <2> HIDE DEF S, N
  <2> QED BY <2>1
<1>6. h = CHOOSE w : w = Body(w)
  BY DEF TakeRest, Next1
<1>7. h = Body(h)
  <2> HIDE DEF Body, h
  <2> QED BY <1>5, <1>6 DEF h
<1>8. h[0] \in S /\ \A n \in 1 .. N : h[n] = Next1(h[n - 1], n)
  <2>1. \A n \in 0 .. N : h[n] = IF n = 0 THEN t ELSE Next1(h[n - 1], n)
    <3> HIDE DEF h, N
    <3> QED BY <1>7
  <2> HIDE DEF S, h, N
  <2> QED BY <1>1, <1>2, <2>1
<1>9. Keeps(S, N, h)
  <2> HIDE DEF S, h, N
  <2> QED BY <1>3, <1>8 DEF Keeps
<1>10. h[N] \in S
  <2> HIDE DEF S, h, N
  <2>1. StaysIn(S, N, h)
    BY <1>1, <1>8, <1>9, Induction
  <2> QED BY <1>1, <2>1 DEF StaysIn
<1> QED BY <1>10

\* What comes of it is a holdout, unless it is refused.
LEMMA StableHoldoutIsEntitySafe ==
    ASSUME PoliciesKept, StableHoldout # <<>>
    PROVE  /\ StableHoldout \in Seq(DOMAIN history)
           /\ IsInjective(StableHoldout)
           /\ Cardinality(RowsTaken(StableHoldout)) = HoldoutSize
           /\ \A s \in Range(CriticalStrata) :
                Cardinality(RowsMatching(StableHoldout, s)) >= MinimumRare
<1> DEFINE all == TakeRest(Critical[Len(CriticalStrata)])[Len(history)]
<1>1. Sound(all)
  BY CriticalIsSound, TakeRestKeeps
<1>2. all.met = Range(CriticalStrata) /\ all.size = HoldoutSize /\ StableHoldout = all.entities
  <2> HIDE DEF all
  <2> QED BY DEF StableHoldout, all
<1> HIDE DEF all
<1> QED BY <1>1, <1>2 DEF Sound, Takings

\* What stays true of the holdout.
HoldoutInv == PoliciesKept /\ holdout \in Seq(DOMAIN history) /\ HoldoutIsEntitySafe

\* stable_holdout (build_dataset.py): for any history, size and minimum, a holdout takes no entity
\* twice and each with all its rows, has exactly its size, and has the minimum of every critical
\* stratum: the program's own counters, which decide that, count what the holdout really has.
THEOREM HoldoutAlwaysEntitySafe == DatasetsSpec => []HoldoutIsEntitySafe
<1>1. DatasetsInit => HoldoutInv
  BY DatasetsAssumption DEF DatasetsInit, HoldoutInv, PoliciesKept, HoldoutIsEntitySafe
<1>2. HoldoutInv /\ [DatasetsNext]_datasetVars => HoldoutInv'
  <2> SUFFICES ASSUME HoldoutInv, [DatasetsNext]_datasetVars PROVE HoldoutInv'
    OBVIOUS
  <2>1. PoliciesKept /\ PoliciesKept' /\ history' = history
    BY PoliciesStep DEF HoldoutInv, DatasetsNext, BuildHoldout, BeginSelection, SelectLiveSources,
       ValidateLive, MergeRecords, LoadPolicy, StratifiedSample, datasetVars
  <2>2. CASE holdout' = holdout
    BY <2>1, <2>2 DEF HoldoutInv, HoldoutIsEntitySafe, HoldoutRows, Rows, RowAt
  <2>3. CASE holdout' = StableHoldout /\ StableHoldout # <<>>
    <3>1. holdout' \in Seq(DOMAIN history)
      BY <2>1, <2>3, StableHoldoutIsEntitySafe
    <3>2. HoldoutIsEntitySafe'
      <4>1. HoldoutRows' = RowsTaken(StableHoldout)
        BY <2>1, <2>3 DEF HoldoutRows, RowsTaken, Rows
      <4>2. ASSUME NEW k \in DOMAIN CriticalStrata
            PROVE  /\ CriticalStrata[k] \in Range(CriticalStrata)
                   /\ {p \in HoldoutRows' : Stratum(RowAt(p)') = CriticalStrata[k]}
                        = RowsMatching(StableHoldout, CriticalStrata[k])
        <5>1. CriticalStrata[k] \in Range(CriticalStrata)
          BY DEF Range
        <5> QED BY <2>1, <4>1, <5>1 DEF RowsMatching, RowAt
      <4> QED BY <2>1, <2>3, <4>1, <4>2, StableHoldoutIsEntitySafe DEF HoldoutIsEntitySafe
    <3> QED BY <2>1, <3>1, <3>2 DEF HoldoutInv
  <2>4. CASE holdout' = <<>>
    BY <2>1, <2>4 DEF HoldoutInv, HoldoutIsEntitySafe
  <2>5. holdout' = holdout \/ holdout' = StableHoldout
    BY DEF HoldoutInv, DatasetsNext, BuildHoldout, BeginSelection, SelectLiveSources,
       ValidateLive, MergeRecords, LoadPolicy, StratifiedSample, datasetVars
  <2> QED BY <2>2, <2>3, <2>4, <2>5
<1>3. HoldoutInv => HoldoutIsEntitySafe
  BY DEF HoldoutInv
<1> QED BY <1>1, <1>2, <1>3, PTL DEF DatasetsSpec

-----------------------------------------------------------------------------
(* What the set holds *)

\* What a function makes of a finite set is finite.
LEMMA ImageFinite ==
    ASSUME NEW S, IsFiniteSet(S), NEW f
    PROVE  IsFiniteSet({f[x] : x \in S})
<1> DEFINE T == {f[x] : x \in S}
           g == [x \in S |-> f[x]]
<1>1. g \in Surjection(S, T)
  BY DEF Surjection
<1> QED BY <1>1, FS_Surjection

\* There are n numbers from 1 to n.
LEMMA UpToCount ==
    ASSUME NEW n \in Nat
    PROVE  IsFiniteSet(1 .. n) /\ Cardinality(1 .. n) = n
<1>1. 1 \in Int /\ n \in Int
  OBVIOUS
<1>2. IsFiniteSet(1 .. n) /\ Cardinality(1 .. n) = IF 1 > n THEN 0 ELSE n - 1 + 1
  BY <1>1, FS_Interval
<1> QED BY <1>2

\* A history has only so many rows.
LEMMA RowsFinite ==
    ASSUME PoliciesKept
    PROVE  IsFiniteSet(Rows)
<1> DEFINE own == [g \in DOMAIN history |-> {<<g, n>> : n \in DOMAIN history[g]}]
           all == {own[g] : g \in DOMAIN history}
<1>1. ASSUME NEW g \in DOMAIN history PROVE IsFiniteSet(own[g])
  <2>1. Len(history[g]) \in Nat /\ DOMAIN history[g] = 1 .. Len(history[g])
    BY DEF PoliciesKept
  <2>2. IsFiniteSet(DOMAIN history[g])
    BY <2>1, UpToCount
  <2>3. IsFiniteSet({<<g, n>> : n \in DOMAIN history[g]})
    BY <2>2, PairsCount
  <2> QED BY <2>3
<1>2. IsFiniteSet(DOMAIN history)
  <2>1. Len(history) \in Nat /\ DOMAIN history = 1 .. Len(history)
    BY DEF PoliciesKept
  <2> QED BY <2>1, UpToCount
<1>3. IsFiniteSet(all)
  <2> HIDE DEF own
  <2> QED BY <1>2, ImageFinite
<1>4. \A T \in all : IsFiniteSet(T)
  <2> HIDE DEF own
  <2> QED BY <1>1
<1>5. Rows = UNION all
  BY DEF Rows
<1> HIDE DEF all
<1> QED BY <1>3, <1>4, <1>5, FS_UNION

\* There are no more records than rows to make them of.
LEMMA RecordsFinite ==
    ASSUME PoliciesKept
    PROVE  IsFiniteSet(Records)
<1> DEFINE rowOf == [p \in Rows |-> RowAt(p)]
           Normal == {r \in Occurring : NormalStratum(r) \in DOMAIN NormalCounts}
           normalOf == [r \in Normal |-> NormalRecord(r)]
           Both == Occurring \X DOMAIN NarrativeCounts
           narrativeOf == [x \in Both |-> NarrativeRecord(x[1], x[2])]
<1>1. IsFiniteSet(Occurring)
  <2>1. Occurring = {rowOf[p] : p \in Rows}
    BY DEF Occurring
  <2> HIDE DEF rowOf
  <2> QED BY <2>1, RowsFinite, ImageFinite
<1>2. IsFiniteSet(Normal) /\ IsFiniteSet(Both)
  <2>1. IsFiniteSet(DOMAIN NarrativeCounts)
    BY DatasetsAssumption DEF DatasetsAssumption
  <2> QED BY <1>1, <2>1, FS_Subset, FS_Product
<1>3. IsFiniteSet({normalOf[r] : r \in Normal})
  <2> HIDE DEF normalOf, Normal
  <2> QED BY <1>2, ImageFinite
<1>4. IsFiniteSet({narrativeOf[x] : x \in Both})
  <2> HIDE DEF narrativeOf, Both
  <2> QED BY <1>2, ImageFinite
<1>5. Records = {normalOf[r] : r \in Normal} \cup {narrativeOf[x] : x \in Both}
  <2>1. {NormalRecord(row) : row \in Normal} = {normalOf[r] : r \in Normal}
    OBVIOUS
  <2>2. {NarrativeRecord(row, s) : row \in Occurring, s \in DOMAIN NarrativeCounts}
          = {narrativeOf[x] : x \in Both}
    <3>1. ASSUME NEW row \in Occurring, NEW s \in DOMAIN NarrativeCounts
          PROVE  <<row, s>> \in Both /\ narrativeOf[<<row, s>>] = NarrativeRecord(row, s)
      OBVIOUS
    <3>2. ASSUME NEW x \in Both
          PROVE  /\ narrativeOf[x] = NarrativeRecord(x[1], x[2])
                 /\ x[1] \in Occurring /\ x[2] \in DOMAIN NarrativeCounts
      OBVIOUS
    <3> DEFINE L == {NarrativeRecord(row, s) : row \in Occurring, s \in DOMAIN NarrativeCounts}
    <3> HIDE DEF narrativeOf, Both
    <3>3. \A r \in L : \E row \in Occurring, s \in DOMAIN NarrativeCounts :
            r = NarrativeRecord(row, s)
      OBVIOUS
    <3>4. \A row \in Occurring, s \in DOMAIN NarrativeCounts : NarrativeRecord(row, s) \in L
      OBVIOUS
    <3> HIDE DEF L
    <3>5. ASSUME NEW r \in L PROVE \E x \in Both : r = narrativeOf[x]
      <4>1. PICK row \in Occurring, s \in DOMAIN NarrativeCounts : r = NarrativeRecord(row, s)
        BY <3>3
      <4>2. <<row, s>> \in Both /\ r = narrativeOf[<<row, s>>]
        BY <3>1, <4>1
      <4> QED BY <4>2, Zenon
    <3>6. \A x \in Both : narrativeOf[x] \in L
      BY <3>2, <3>4
    <3>7. L = {narrativeOf[x] : x \in Both}
      BY <3>5, <3>6
    <3> QED BY <3>7 DEF L
  <2> QED BY <2>1, <2>2 DEF Records
<1> HIDE DEF normalOf, narrativeOf, Normal, Both
<1> QED BY <1>3, <1>4, <1>5, FS_Union

\* What is selected is of the history, and of its stratum.
LEMMA SelectedRecords ==
    ASSUME PoliciesKept, NEW reads, NEW normal, NEW narrative,
           normal = [s \in DOMAIN NormalCounts |-> LiveRows(s, reads)],
           narrative = LiveNarrativeSources(reads)
    PROVE  /\ \A s \in DOMAIN NormalCounts : \A p \in normal[s] :
                p \in Rows /\ NormalStratum(RowAt(p)) = s
           /\ RecordsOf(normal, narrative) \subseteq Records
<1>1. \A s \in DOMAIN NormalCounts : \A p \in normal[s] :
        p \in Rows /\ NormalStratum(RowAt(p)) = s
  BY FirstOfPlaces DEF LiveRows
<1>2. narrative \subseteq Rows
  BY SelectedAreRows
<1>3. \A s \in DOMAIN NormalCounts : NormalOf(normal[s]) \subseteq Records
  BY <1>1 DEF NormalOf, Records, Occurring
<1>4. \A s \in DOMAIN NarrativeCounts : NarrativeOf(s, narrative) \subseteq Records
  <2>1. \A s \in DOMAIN NarrativeCounts : First(NarrativeCounts[s], narrative) \subseteq Rows
    BY <1>2, FirstOfPlaces
  <2> QED BY <2>1 DEF NarrativeOf, Records, Occurring
<1> QED BY <1>1, <1>3, <1>4 DEF RecordsOf

\* Rows differ in their ids, so a stratum has a record for every row selected for it.
LEMMA QuotasFilled ==
    ASSUME PoliciesKept, history \in Histories, NEW reads, NEW normal, NEW narrative,
           normal = [s \in DOMAIN NormalCounts |-> LiveRows(s, reads)],
           narrative = LiveNarrativeSources(reads),
           NEW s \in DOMAIN NormalCounts
    PROVE  Cardinality({r \in RecordsOf(normal, narrative) : r.stratum = s}) = Cardinality(normal[s])
<1> DEFINE S == normal[s]
           T == NormalOf(normal[s])
           f == [p \in S |-> NormalRecord(RowAt(p))]
<1>1. /\ \A t \in DOMAIN NormalCounts : \A p \in normal[t] :
           p \in Rows /\ NormalStratum(RowAt(p)) = t
  BY SelectedRecords
<1>2. {r \in RecordsOf(normal, narrative) : r.stratum = s} = T
  <2>1. ASSUME NEW t \in DOMAIN NormalCounts, NEW r \in NormalOf(normal[t]) PROVE r.stratum = t
    BY <1>1 DEF NormalOf, NormalRecord
  <2>2. ASSUME NEW t \in DOMAIN NarrativeCounts, NEW r \in NarrativeOf(t, narrative)
        PROVE  r.stratum # s
    <3>1. r.stratum = t
      BY DEF NarrativeOf, NarrativeRecord
    <3>2. DOMAIN NormalCounts \cap DOMAIN NarrativeCounts = {}
      BY DatasetsAssumption DEF DatasetsAssumption
    <3> QED BY <3>1, <3>2
  <2>3. \A r : r \in RecordsOf(normal, narrative) <=>
          \/ \E t \in DOMAIN NormalCounts : r \in NormalOf(normal[t])
          \/ \E t \in DOMAIN NarrativeCounts : r \in NarrativeOf(t, narrative)
    BY DEF RecordsOf
  <2> QED BY <2>1, <2>2, <2>3
<1>3. IsFiniteSet(S)
  <2>1. S \subseteq Rows
    BY <1>1
  <2> HIDE DEF S
  <2> QED BY <2>1, RowsFinite, FS_Subset
<1>4. \A p, q \in S : RowAt(p) = RowAt(q) => p = q
  <2> SUFFICES ASSUME NEW p \in S, NEW q \in S, RowAt(p) = RowAt(q) PROVE p = q
    OBVIOUS
  <2>1. PICK g \in DOMAIN history : \E n \in DOMAIN history[g] : p = <<g, n>>
    BY <1>1 DEF Rows
  <2>2. PICK n \in DOMAIN history[g] : p = <<g, n>>
    BY <2>1
  <2>3. PICK h \in DOMAIN history : \E m \in DOMAIN history[h] : q = <<h, m>>
    BY <1>1 DEF Rows
  <2>4. PICK m \in DOMAIN history[h] : q = <<h, m>>
    BY <2>3
  <2>5. history[g][n].id = history[h][m].id
    BY <2>2, <2>4 DEF RowAt
  <2>6. g = h /\ n = m
    BY <2>5, DatasetsAssumption DEF DatasetsAssumption
  <2> QED BY <2>2, <2>4, <2>6
<1>5. f \in Bijection(S, T)
  <2>1. T = {f[p] : p \in S}
    BY DEF NormalOf
  <2>2. \A p, q \in S : f[p] = f[q] => p = q
    BY <1>4 DEF NormalRecord
  <2>3. f \in [S -> T]
    BY <2>1
  <2> HIDE DEF f, T, S
  <2> QED BY <2>1, <2>2, <2>3 DEF Bijection, Injection, Surjection, IsInjective
<1> HIDE DEF f, T, S
<1>6. Cardinality(T) = Cardinality(S)
  <2>1. ExistsBijection(S, T)
    BY <1>5 DEF ExistsBijection
  <2> QED BY <1>3, <2>1, FS_Bijection
<1> QED BY <1>2, <1>6 DEF S

-----------------------------------------------------------------------------
(* The sample *)

Pairs == Nat \X Nat

\* A pair's rank: how many come before it in the rounds.
Before(P, q) == {p \in P : RoundFirst(p, q)}

\* The rounds are an order: ranks differ, and rise by the pair itself.
LEMMA RanksDiffer ==
    ASSUME NEW P \in SUBSET Pairs, IsFiniteSet(P), NEW q \in P
    PROVE  /\ IsFiniteSet(Before(P, q)) /\ Cardinality(Before(P, q)) \in Nat
           /\ Cardinality(Before(P, q)) < Cardinality(P)
           /\ \A p \in P : p # q =>
                \/ Cardinality(Before(P, p)) < Cardinality(Before(P, q))
                \/ Cardinality(Before(P, q)) < Cardinality(Before(P, p))
<1>1. \A p \in P : p = <<p[1], p[2]>> /\ p[1] \in Nat /\ p[2] \in Nat
  BY DEF Pairs
<1>2. ASSUME NEW a \in P
      PROVE  /\ Before(P, a) \in SUBSET P /\ IsFiniteSet(Before(P, a))
             /\ Cardinality(Before(P, a)) \in Nat /\ a \notin Before(P, a)
             /\ IsFiniteSet(Before(P, a) \cup {a})
             /\ Cardinality(Before(P, a) \cup {a}) = Cardinality(Before(P, a)) + 1
  <2>1. Before(P, a) \in SUBSET P /\ a \notin Before(P, a)
    BY <1>1 DEF Before, RoundFirst
  <2>2. IsFiniteSet(Before(P, a))
    BY <2>1, FS_Subset
  <2>3. Cardinality(Before(P, a)) \in Nat
    BY <2>2, FS_CardinalityType
  <2>4. /\ IsFiniteSet(Before(P, a) \cup {a})
        /\ Cardinality(Before(P, a) \cup {a}) = Cardinality(Before(P, a)) + 1
    BY <2>1, <2>2, FS_AddElement
  <2> QED BY <2>1, <2>2, <2>3, <2>4
<1>3. ASSUME NEW a \in P, NEW b \in P, RoundFirst(a, b)
      PROVE  Cardinality(Before(P, a)) < Cardinality(Before(P, b))
  <2>1. Before(P, a) \cup {a} \in SUBSET Before(P, b)
    <3>1. ASSUME NEW p \in P, RoundFirst(p, a) PROVE RoundFirst(p, b)
      BY <1>1, <1>3, <3>1 DEF RoundFirst
    <3> QED BY <1>3, <3>1 DEF Before
  <2>2. Cardinality(Before(P, a) \cup {a}) <= Cardinality(Before(P, b))
    BY <1>2, <2>1, FS_Subset
  <2> DEFINE m == Cardinality(Before(P, a))
             n == Cardinality(Before(P, b))
             l == Cardinality(Before(P, a) \cup {a})
  <2>3. m \in Nat /\ n \in Nat /\ l = m + 1 /\ l <= n
    BY <1>2, <2>2
  <2> HIDE DEF m, n, l
  <2>4. m < n
    BY <2>3
  <2> QED BY <2>4 DEF m, n
<1>4. \A p \in P : p # q => RoundFirst(p, q) \/ RoundFirst(q, p)
  BY <1>1 DEF RoundFirst
<1>5. Cardinality(Before(P, q)) < Cardinality(P)
  <2>1. Before(P, q) \cup {q} \in SUBSET P
    BY <1>2
  <2>2. Cardinality(Before(P, q) \cup {q}) <= Cardinality(P) /\ Cardinality(P) \in Nat
    BY <2>1, FS_Subset, FS_CardinalityType
  <2> DEFINE m == Cardinality(Before(P, q))
             n == Cardinality(P)
             l == Cardinality(Before(P, q) \cup {q})
  <2>3. m \in Nat /\ n \in Nat /\ l = m + 1 /\ l <= n
    BY <1>2, <2>2
  <2> HIDE DEF m, n, l
  <2>4. m < n
    BY <2>3
  <2> QED BY <2>4 DEF m, n
<1> QED BY <1>2, <1>3, <1>4, <1>5

\* So many come first as are asked for, if there are so many.
LEMMA FirstAreCounted ==
    ASSUME NEW P \in SUBSET Pairs, IsFiniteSet(P), NEW k \in Nat, k <= Cardinality(P)
    PROVE  Cardinality({q \in P : Cardinality({p \in P : RoundFirst(p, q)}) < k}) = k
<1> DEFINE size == Cardinality(P)
           rank == [q \in P |-> Cardinality(Before(P, q))]
           Early == {q \in P : rank[q] < k}
           firsts == [q \in Early |-> rank[q]]
<1>1. size \in Nat /\ size - 1 \in Int /\ 0 \in Int /\ k - 1 \in Int
  BY FS_CardinalityType
<1>2. ASSUME NEW n \in Nat
      PROVE  IsFiniteSet(0 .. n - 1) /\ Cardinality(0 .. n - 1) = n
  <2> DEFINE top == n - 1
  <2>1. top \in Int
    OBVIOUS
  <2> HIDE DEF top
  <2>2. IsFiniteSet(0 .. top) /\ Cardinality(0 .. top) = IF 0 > top THEN 0 ELSE top - 0 + 1
    BY <1>1, <2>1, FS_Interval
  <2> QED BY <2>1, <2>2 DEF top
<1>3. \A q \in P : rank[q] \in 0 .. size - 1 /\ \A p \in P : p # q => rank[p] # rank[q]
  <2>1. ASSUME NEW q \in P PROVE rank[q] \in 0 .. size - 1 /\ \A p \in P : p # q => rank[p] # rank[q]
    <3>1. /\ rank[q] \in Nat /\ rank[q] < size
          /\ \A p \in P : p # q => rank[p] < rank[q] \/ rank[q] < rank[p]
      BY RanksDiffer
    <3>2. \A p \in P : rank[p] \in Nat
      BY RanksDiffer
    <3> HIDE DEF rank, size
    <3> QED BY <1>1, <3>1, <3>2
  <2> QED BY <2>1
<1> HIDE DEF size
<1>4. rank \in Injection(P, 0 .. size - 1)
  <2>1. rank \in [P -> 0 .. size - 1]
    <3>1. rank = [q \in P |-> rank[q]]
      OBVIOUS
    <3> HIDE DEF rank
    <3> QED BY <1>3, <3>1
  <2> HIDE DEF rank
  <2> QED BY <1>3, <2>1 DEF Injection, IsInjective
<1> HIDE DEF rank
<1>5. rank \in Surjection(P, 0 .. size - 1)
  <2>1. IsFiniteSet(0 .. size - 1) /\ Cardinality(0 .. size - 1) = Cardinality(P)
    BY <1>1, <1>2 DEF size
  <2> QED BY <1>4, <2>1, FS_Injection
<1>6. firsts \in Bijection(Early, 0 .. k - 1)
  <2>1. \A q \in Early : rank[q] \in 0 .. k - 1
    BY <1>1, <1>3
  <2>2. ASSUME NEW n \in 0 .. k - 1 PROVE \E q \in Early : firsts[q] = n
    <3>1. n \in 0 .. size - 1
      BY <1>1 DEF size
    <3>2. PICK q \in P : rank[q] = n
      BY <1>5, <3>1 DEF Surjection
    <3> QED BY <3>2
  <2>3. \A p, q \in Early : firsts[p] = firsts[q] => p = q
    BY <1>3
  <2>4. firsts \in [Early -> 0 .. k - 1]
    BY <2>1
  <2> HIDE DEF firsts, Early
  <2> QED BY <2>2, <2>3, <2>4 DEF Bijection, Injection, Surjection, IsInjective
<1>7. Cardinality(Early) = k
  <2>1. ExistsBijection(Early, 0 .. k - 1)
    BY <1>6 DEF ExistsBijection
  <2>2. IsFiniteSet(Early) /\ IsFiniteSet(0 .. k - 1) /\ Cardinality(0 .. k - 1) = k
    BY <1>2, FS_Subset
  <2> HIDE DEF Early
  <2> QED BY <2>1, <2>2, FS_Bijection
<1>8. Early = {q \in P : Cardinality({p \in P : RoundFirst(p, q)}) < k}
  BY DEF rank, Before
<1> QED BY <1>7, <1>8

\* The places a sample is drawn from: the i-th record of a stratum.
SamplePlaces == UNION {{<<g, i>> : i \in 1 .. Held(g)} : g \in DOMAIN SampleStrata}

\* Every record has a class and a claim type.
LEMMA StrataCover ==
    ASSUME PoliciesKept, NEW r \in Records
    PROVE  \E g \in DOMAIN SampleStrata : SampleStratum(r) = SampleStrata[g]
<1>1. \A row \in Occurring : row.coating \in BOOLEAN /\ Gold(row)[1] \in {"APPROVE", "DENY", "PEND"}
  <2> SUFFICES ASSUME NEW row \in Row
               PROVE  row.coating \in BOOLEAN /\ Gold(row)[1] \in {"APPROVE", "DENY", "PEND"}
    BY RowsAre DEF Occurring
  <2>1. row.label \in Labels
    BY DEF Row
  <2> QED BY <2>1 DEF Row, Labels, Gold
<1>2. \A c \in {"APPROVE", "DENY", "PEND"}, b \in BOOLEAN :
        \E g \in DOMAIN SampleStrata : <<c, b>> = SampleStrata[g]
  <2>1. DOMAIN SampleStrata = 1 .. 6
    BY DEF SampleStrata
  <2>2. /\ SampleStrata[1] = <<"APPROVE", TRUE>> /\ SampleStrata[2] = <<"APPROVE", FALSE>>
        /\ SampleStrata[3] = <<"DENY", TRUE>> /\ SampleStrata[4] = <<"DENY", FALSE>>
        /\ SampleStrata[5] = <<"PEND", TRUE>> /\ SampleStrata[6] = <<"PEND", FALSE>>
    BY DEF SampleStrata
  <2>3. 1 \in 1 .. 6 /\ 2 \in 1 .. 6 /\ 3 \in 1 .. 6 /\ 4 \in 1 .. 6 /\ 5 \in 1 .. 6 /\ 6 \in 1 .. 6
    OBVIOUS
  <2> QED BY <2>1, <2>2, <2>3, Zenon
<1>3. PICK row \in Occurring : r.row = row
  BY DEF Records, NormalRecord, NarrativeRecord
<1> DEFINE class == IF r.group = "narrative" THEN "DENY" ELSE Gold(r.row)[1]
<1>4. class \in {"APPROVE", "DENY", "PEND"} /\ r.row.coating \in BOOLEAN
  BY <1>1, <1>3
<1>5. SampleStratum(r) = <<class, r.row.coating>>
  BY DEF SampleStratum
<1> HIDE DEF class
<1> QED BY <1>2, <1>4, <1>5

\* There is a place for every record, and none beyond them.
LEMMA PlacesEnough ==
    ASSUME PoliciesKept, heldout \subseteq Records
    PROVE  /\ SamplePlaces \in SUBSET Pairs
           /\ IsFiniteSet(SamplePlaces)
           /\ SamplePlaces \subseteq (DOMAIN SampleStrata) \X (1 .. Cardinality(heldout))
           /\ IsFiniteSet(heldout) /\ Cardinality(heldout) \in Nat
           /\ Cardinality(SamplePlaces) \in Nat
           /\ Cardinality(heldout) <= Cardinality(SamplePlaces)
<1> DEFINE Of(g) == {r \in heldout : SampleStratum(r) = SampleStrata[g]}
           index == [r \in heldout |->
                       CHOOSE g \in DOMAIN SampleStrata : SampleStratum(r) = SampleStrata[g]]
           count == [g \in DOMAIN SampleStrata |-> CHOOSE f : f \in Bijection(Of(g), 1 .. Held(g))]
           place == [r \in heldout |-> <<index[r], count[index[r]][r]>>]
           strata == DOMAIN SampleStrata
           size == Cardinality(heldout)
<1>1. IsFiniteSet(heldout) /\ size \in Nat
  BY RecordsFinite, FS_Subset, FS_CardinalityType
<1>2. IsFiniteSet(strata) /\ strata \subseteq Nat
  <2>1. strata = 1 .. 6
    BY DEF SampleStrata
  <2> DEFINE six == 6
  <2>2. six \in Nat /\ 1 .. six \subseteq Nat
    OBVIOUS
  <2>3. strata = 1 .. six
    BY <2>1
  <2> HIDE DEF strata, six
  <2> QED BY <2>2, <2>3, UpToCount
<1>3. ASSUME NEW g \in strata
      PROVE  Held(g) \in Nat /\ Held(g) <= size /\ count[g] \in Bijection(Of(g), 1 .. Held(g))
  <2>1. Of(g) \in SUBSET heldout /\ Held(g) = Cardinality(Of(g))
    BY DEF Held
  <2> HIDE DEF Of
  <2>2. IsFiniteSet(Of(g)) /\ Cardinality(Of(g)) <= Cardinality(heldout)
    BY <1>1, <2>1, FS_Subset
  <2>3. Held(g) \in Nat
    BY <2>1, <2>2, FS_CardinalityType
  <2>4. IsFiniteSet(1 .. Held(g)) /\ Cardinality(1 .. Held(g)) = Held(g)
    BY <2>3, UpToCount
  <2>5. \E f : f \in Bijection(Of(g), 1 .. Held(g))
    BY <2>1, <2>2, <2>4, FS_SameCardinalityBij DEF ExistsBijection
  <2>6. count[g] \in Bijection(Of(g), 1 .. Held(g))
    BY <2>5
  <2> QED BY <2>1, <2>2, <2>3, <2>6
<1>4. \A p : (p \in SamplePlaces) <=> (\E g \in strata : \E i \in 1 .. Held(g) : p = <<g, i>>)
  BY DEF SamplePlaces
<1>5. ASSUME NEW r \in heldout
      PROVE  index[r] \in strata /\ SampleStratum(r) = SampleStrata[index[r]]
  BY StrataCover
<1> HIDE DEF strata, size, index, count
<1>6. SamplePlaces \subseteq strata \X (1 .. size) /\ SamplePlaces \in SUBSET Pairs
  <2>1. ASSUME NEW g \in strata, NEW i \in 1 .. Held(g)
        PROVE  g \in Nat /\ i \in Nat /\ i \in 1 .. size
    <3> DEFINE held == Held(g)
    <3>1. held \in Nat /\ held <= size /\ i \in 1 .. held
      BY <1>3
    <3> HIDE DEF held
    <3>2. i \in Nat /\ i \in 1 .. size
      BY <1>1, <3>1
    <3> QED BY <1>2, <3>2
  <2> QED BY <1>4, <2>1 DEF Pairs
<1>7. IsFiniteSet(SamplePlaces)
  <2>1. IsFiniteSet(1 .. size)
    BY <1>1, UpToCount
  <2>2. IsFiniteSet(strata \X (1 .. size))
    BY <1>2, <2>1, FS_Product
  <2> QED BY <1>6, <2>2, FS_Subset
<1>8. place \in Injection(heldout, SamplePlaces)
  <2>1. ASSUME NEW r \in heldout
        PROVE  /\ index[r] \in strata /\ r \in Of(index[r])
               /\ count[index[r]][r] \in 1 .. Held(index[r])
               /\ place[r] \in SamplePlaces
    <3>1. index[r] \in strata /\ r \in Of(index[r])
      BY <1>5
    <3> HIDE DEF Of
    <3>2. count[index[r]][r] \in 1 .. Held(index[r])
      BY <1>3, <3>1 DEF Bijection, Injection
    <3>3. place[r] \in SamplePlaces
      BY <1>4, <3>1, <3>2
    <3> QED BY <3>1, <3>2, <3>3
  <2>2. ASSUME NEW r \in heldout, NEW q \in heldout, place[r] = place[q]
        PROVE  r = q
    <3>1. index[r] = index[q] /\ count[index[r]][r] = count[index[r]][q]
      BY <2>2
    <3>2. index[r] \in strata /\ r \in Of(index[r]) /\ q \in Of(index[r])
      BY <2>1, <3>1
    <3>3. count[index[r]] \in Bijection(Of(index[r]), 1 .. Held(index[r]))
      BY <1>3, <3>2
    <3> HIDE DEF Of
    <3> QED BY <3>1, <3>2, <3>3 DEF Bijection, Injection, IsInjective
  <2>3. place \in [heldout -> SamplePlaces]
    BY <2>1
  <2> HIDE DEF place
  <2> QED BY <2>2, <2>3 DEF Injection, IsInjective
<1>9. size <= Cardinality(SamplePlaces)
  <2> HIDE DEF place
  <2> QED BY <1>7, <1>8, FS_Injection DEF size
<1> QED BY <1>1, <1>6, <1>7, <1>9, FS_CardinalityType DEF size, strata

\* A sample has the size that was asked for, of records there are.
LEMMA SampleIsOfSize ==
    ASSUME PoliciesKept, heldout \subseteq Records, StratifiedSample
    PROVE  /\ sample' \subseteq (DOMAIN SampleStrata) \X (1 .. Cardinality(heldout))
           /\ Cardinality(sample') = SampleSize
<1>1. sample' = {q \in SamplePlaces :
                   Cardinality({p \in SamplePlaces : RoundFirst(p, q)}) < SampleSize}
  BY DEF StratifiedSample, SamplePlaces
<1>2. SampleSize \in Nat /\ Cardinality(heldout) >= SampleSize
  BY DatasetsAssumption DEF DatasetsAssumption, StratifiedSample
<1>3. SampleSize <= Cardinality(SamplePlaces)
  BY <1>2, PlacesEnough
<1>4. Cardinality(sample') = SampleSize
  BY <1>1, <1>2, <1>3, PlacesEnough, FirstAreCounted
<1>5. sample' \subseteq SamplePlaces
  BY <1>1
<1> QED BY <1>4, <1>5, PlacesEnough

-----------------------------------------------------------------------------
(* The datasets' types *)

\* What stays true of the datasets.
DatasetsInv ==
    PoliciesKept /\ history \in Histories /\ BuildKept /\ DatasetsTypeOK

\* A set in the making holds the quotas' records, and those it is merged into come from such sets.
LEMMA DatasetsStep ==
    ASSUME DatasetsInv, [DatasetsNext]_datasetVars
    PROVE  DatasetsTypeOK'
<1>1. PoliciesKept /\ PoliciesKept' /\ BuildKept /\ BuildKept' /\ DatasetsTypeOK
      /\ policy' \in 0 .. Policies
  BY PoliciesStep, BuildStep DEF DatasetsInv, PoliciesKept
<1>2. history' = history /\ Records' = Records
  <2>1. history' = history
    BY DEF DatasetsNext, BuildHoldout, BeginSelection, SelectLiveSources, ValidateLive,
           MergeRecords, LoadPolicy, StratifiedSample, datasetVars
  <2>2. Occurring' = Occurring
    BY <2>1 DEF Occurring, Rows, RowAt
  <2>3. Records' = Records
    BY <2>2 DEF Records, NormalStratum, Gold, NormalRecord, NarrativeRecord
  <2> QED BY <2>1, <2>3
<1>3. build.records \subseteq Records /\ heldout \subseteq Records
  BY <1>1 DEF DatasetsTypeOK
<1> DEFINE Typed == /\ build'.records \subseteq Records /\ heldout' \subseteq Records
                    /\ build'.at \in {"idle", "selecting"} => build'.records = {}
                    /\ build'.at \in {"validating", "valid"} =>
                         \A s \in DOMAIN NormalCounts :
                           Cardinality({r \in build'.records : r.stratum = s}) = NormalCounts[s]
           Sampled == /\ sample' \subseteq (DOMAIN SampleStrata) \X (1 .. Cardinality(heldout'))
                      /\ Cardinality(sample') \in {0, SampleSize}
           Held_out == holdout' \in Seq(DOMAIN history)
<1>4. Typed
  <2>1. CASE BeginSelection
    BY <1>3, <2>1 DEF BeginSelection
  <2>2. CASE SelectLiveSources
    <3>1. heldout' = heldout
      BY <2>2 DEF SelectLiveSources
    <3>2. CASE build' = Refused
      BY <1>3, <3>1, <3>2 DEF Refused, NotBuilding
    <3>3. CASE build' # Refused
      <4>1. PICK reads \in Reads(Rows) :
              LET normal == [s \in DOMAIN NormalCounts |-> LiveRows(s, reads)]
                  narrative == LiveNarrativeSources(reads)
              IN  /\ \A s \in DOMAIN NormalCounts : Cardinality(normal[s]) = NormalCounts[s]
                  /\ build' = [at |-> "validating", since |-> policy,
                               records |-> RecordsOf(normal, narrative)]
        BY <2>2, <3>3 DEF SelectLiveSources
      <4> DEFINE normal == [s \in DOMAIN NormalCounts |-> LiveRows(s, reads)]
                 narrative == LiveNarrativeSources(reads)
                 selected == RecordsOf(normal, narrative)
      <4>2. /\ \A s \in DOMAIN NormalCounts : Cardinality(normal[s]) = NormalCounts[s]
            /\ build' = [at |-> "validating", since |-> policy, records |-> selected]
        BY <4>1
      <4>3. selected \subseteq Records
        BY <1>1, SelectedRecords
      <4>4. ASSUME NEW s \in DOMAIN NormalCounts
            PROVE  Cardinality({r \in selected : r.stratum = s}) = Cardinality(normal[s])
        <5>1. history \in Histories
          BY DEF DatasetsInv
        <5>2. /\ normal = [t \in DOMAIN NormalCounts |-> LiveRows(t, reads)]
              /\ narrative = LiveNarrativeSources(reads)
          OBVIOUS
        <5> HIDE DEF normal, narrative
        <5> QED BY <1>1, <5>1, <5>2, QuotasFilled
      <4> HIDE DEF normal, narrative, selected
      <4> QED BY <1>3, <3>1, <4>2, <4>3, <4>4
    <3> QED BY <3>2, <3>3
  <2>3. CASE ValidateLive
    <3>1. heldout' = heldout /\ (build' = Refused \/ build' = [build EXCEPT !.at = "valid"])
          /\ build.at = "validating"
      BY <2>3 DEF ValidateLive
    <3>2. CASE build' = Refused
      BY <1>3, <3>1, <3>2 DEF Refused, NotBuilding
    <3>3. CASE build' = [build EXCEPT !.at = "valid"]
      <4>1. build'.records = build.records /\ build'.at = "valid"
        BY <1>1, <3>3 DEF BuildKept
      <4> QED BY <1>1, <1>3, <3>1, <4>1 DEF DatasetsTypeOK
    <3> QED BY <3>1, <3>2, <3>3
  <2>4. CASE MergeRecords
    BY <1>3, <2>4 DEF MergeRecords, NotBuilding
  <2>5. CASE UNCHANGED <<build, heldout>>
    BY <1>1, <1>3, <2>5 DEF DatasetsTypeOK
  <2> HIDE DEF Typed
  <2> QED BY <2>1, <2>2, <2>3, <2>4, <2>5
          DEF DatasetsNext, BuildHoldout, LoadPolicy, StratifiedSample, datasetVars
<1>5. Sampled
  <2>1. CASE StratifiedSample
    <3>1. heldout' = heldout
      BY <2>1 DEF StratifiedSample
    <3> QED BY <1>1, <1>3, <2>1, <3>1, SampleIsOfSize
  <2>2. CASE sample' = sample /\ heldout \subseteq heldout' /\ heldout' \subseteq Records
    <3>1. IsFiniteSet(heldout')
      BY <1>1, <2>2, RecordsFinite, FS_Subset
    <3> DEFINE m == Cardinality(heldout)
               n == Cardinality(heldout')
    <3>2. n \in Nat /\ m <= n /\ m \in Nat
      BY <1>1, <1>3, <2>2, <3>1, FS_Subset, FS_CardinalityType, PlacesEnough
    <3>3. sample \subseteq (DOMAIN SampleStrata) \X (1 .. m) /\ Cardinality(sample) \in {0, SampleSize}
      BY <1>1 DEF DatasetsTypeOK
    <3> HIDE DEF m, n
    <3>4. 1 .. m \subseteq 1 .. n
      BY <3>2
    <3>5. sample \subseteq (DOMAIN SampleStrata) \X (1 .. n)
      BY <3>3, <3>4
    <3> QED BY <2>2, <3>3, <3>5 DEF n
  <2>3. StratifiedSample \/ (sample' = sample /\ heldout \subseteq heldout')
    BY DEF DatasetsNext, BuildHoldout, BeginSelection, SelectLiveSources, ValidateLive,
           MergeRecords, LoadPolicy, datasetVars
  <2> HIDE DEF Sampled
  <2> QED BY <1>4, <2>1, <2>2, <2>3
<1>6. Held_out
  <2>1. holdout' = holdout \/ holdout' = StableHoldout
    BY DEF DatasetsNext, BuildHoldout, BeginSelection, SelectLiveSources, ValidateLive,
           MergeRecords, LoadPolicy, StratifiedSample, datasetVars
  <2>2. <<>> \in Seq(DOMAIN history)
    OBVIOUS
  <2> QED BY <1>1, <2>1, <2>2, StableHoldoutIsEntitySafe DEF DatasetsTypeOK
<1> QED BY <1>1, <1>2, <1>4, <1>5, <1>6 DEF DatasetsTypeOK, BuildKept

\* The datasets' types: whatever is loaded while a set is built, a set that is being validated has
\* its quota of every normal stratum, a refused one leaves nothing, what is merged is made of the
\* history's rows, and a sample has exactly the size asked for (heldout.py, ablation.py).
THEOREM DatasetsAlwaysTyped == DatasetsSpec => []DatasetsTypeOK
<1>1. DatasetsInit => DatasetsInv
  <2> SUFFICES ASSUME DatasetsInit PROVE DatasetsInv
    OBVIOUS
  <2>1. PoliciesKept /\ history \in Histories /\ Policies \in Nat
    BY DatasetsAssumption DEF DatasetsInit, PoliciesKept
  <2>2. BuildKept
    BY <2>1 DEF DatasetsInit, NotBuilding, BuildKept
  <2>3. Cardinality({}) = 0
    BY FS_EmptySet
  <2>4. DatasetsTypeOK
    BY <2>1, <2>3 DEF DatasetsInit, NotBuilding, DatasetsTypeOK
  <2> QED BY <2>1, <2>2, <2>4 DEF DatasetsInv
<1>2. DatasetsInv /\ [DatasetsNext]_datasetVars => DatasetsInv'
  <2> SUFFICES ASSUME DatasetsInv, [DatasetsNext]_datasetVars PROVE DatasetsInv'
    OBVIOUS
  <2>1. PoliciesKept' /\ BuildKept' /\ DatasetsTypeOK'
    BY PoliciesStep, BuildStep, DatasetsStep DEF DatasetsInv
  <2>2. history' = history
    BY DEF DatasetsNext, BuildHoldout, BeginSelection, SelectLiveSources, ValidateLive,
           MergeRecords, LoadPolicy, StratifiedSample, datasetVars
  <2> QED BY <2>1, <2>2 DEF DatasetsInv
<1>3. DatasetsInv => DatasetsTypeOK
  BY DEF DatasetsInv
<1> QED BY <1>1, <1>2, <1>3, PTL DEF DatasetsSpec

-----------------------------------------------------------------------------
(* The release *)

RunRecords == [tag : Version, scored : Version, tier : Tiers, metrics : [Metrics -> Grades]]

\* Whatever has a version's number has been registered; an evaluation that loads by
\* number finds out when it loads.
Registered ==
    /\ candidate <= versions /\ prod <= versions /\ served <= versions
    /\ \A n \in DOMAIN runs : runs[n].tag <= versions
    /\ evaluator.stage # "idle" =>
         /\ evaluator.tag \in Version
         /\ evaluator.tag <= versions \/ (evaluator.stage = "pinned" /\ evaluator.uri = "version")
         /\ evaluator.stage # "pinned" => evaluator.loaded \in Version
    /\ \A p \in Promoters : promoters[p].stage # "idle" => promoters[p].version \in Version

\* The run under way is the last, and nothing has been measured on it.
LastUnmeasured ==
    evaluator.stage \in Tiers => runs # <<>> /\ runs[Len(runs)].metrics = Unmeasured

\* What a promotion has read of the candidate is of an exact run of it, and a promotion
\* that goes on to the alias has passed a gate.
PromotionsGrounded ==
    \A p \in Promoters :
      /\ promoters[p].stage = "prod" =>
           \E n \in ExactRuns(promoters[p].version) :
             promoters[p].metrics \in {runs[n].metrics, Unmeasured}
      /\ promoters[p].stage = "move" => Gated(promoters[p].version)

ReleaseInv ==
    /\ ReleaseTypeOK /\ Registered /\ LastUnmeasured /\ PromotionsGrounded
    /\ \A v \in {prod, served} \ {NoVersion} : Gated(v)

\* Runs of the two versions show the first to be safe and no worse than the second, which
\* is safe as well.
Beats(v, w) ==
    \E n \in ExactRuns(v), o \in ExactRuns(w) : EvaluateGate(runs[n].metrics, runs[o].metrics)

\* A promotion goes on to the alias only with a version that beats the one it has read.
PromotionsJudged ==
    \A p \in Promoters :
      promoters[p].stage = "move" /\ promoters[p].prod # NoVersion =>
        Beats(promoters[p].version, promoters[p].prod)

-----------------------------------------------------------------------------
(* Runs and their metrics *)

\* What metrics can be.
LEMMA Outcome ==
    /\ Unmeasured \in [Metrics -> Grades] /\ Outcomes \subseteq [Metrics -> Grades]
    /\ MaxVersions \in Nat
  BY ReleaseAssumption DEF ReleaseAssumption, Unmeasured, Grades, Invalid

\* What has not been measured passes no gate that asks for anything.
LEMMA UnmeasuredPasses ==
    ASSUME NEW names \in SUBSET Metrics, Absolute(Unmeasured, names), NEW metrics
    PROVE  Absolute(metrics, names)
<1>1. Top # Invalid
  BY ReleaseAssumption DEF ReleaseAssumption, Invalid
<1> QED BY <1>1 DEF Absolute, Unmeasured

\* A comparison that holds of something unmeasured asks for nothing: it holds of everything.
LEMMA UnmeasuredNotWorse ==
    ASSUME NEW than, NotWorse(Unmeasured, than) \/ NotWorse(than, Unmeasured), NEW x, NEW y
    PROVE  NotWorse(x, y)
  BY DEF NotWorse, Unmeasured, Metrics

\* So a gate it passes is passed by anything in its place.
LEMMA UnmeasuredGate ==
    ASSUME NEW x, NEW y, EvaluateGate(x, y), NEW u, NEW v,
           x = Unmeasured \/ u = x, y = Unmeasured \/ v = y
    PROVE  EvaluateGate(u, v)
<1>1. MoneySafetyMetrics \subseteq Metrics
  BY DEF Metrics
<1>2. Absolute(x, MoneySafetyMetrics) /\ Absolute(y, MoneySafetyMetrics) /\ NotWorse(x, y)
  BY DEF EvaluateGate
<1>3. Absolute(u, MoneySafetyMetrics) /\ Absolute(v, MoneySafetyMetrics)
  BY <1>1, <1>2, UnmeasuredPasses
<1>4. NotWorse(u, v)
  BY <1>2, UnmeasuredNotWorse
<1> QED BY <1>3, <1>4 DEF EvaluateGate

\* What a run can be.
LEMMA RunType ==
    ASSUME ReleaseTypeOK
    PROVE  /\ runs \in Seq(RunRecords) /\ Len(runs) \in Nat /\ DOMAIN runs = 1 .. Len(runs)
           /\ \A n \in DOMAIN runs :
                /\ runs[n] \in RunRecords
                /\ runs[n].tag \in Version /\ runs[n].tier \in Tiers
                /\ runs[n].metrics \in [Metrics -> Grades]
<1>1. runs \in Seq(RunRecords)
  BY DEF ReleaseTypeOK, RunRecords
<1>2. Len(runs) \in Nat /\ DOMAIN runs = 1 .. Len(runs)
  BY <1>1, LenProperties
<1>3. \A n \in DOMAIN runs : runs[n] \in RunRecords
  BY <1>1, <1>2, ElementOfSeq
<1>4. \A r \in RunRecords : /\ r.tag \in Version /\ r.tier \in Tiers
                            /\ r.metrics \in [Metrics -> Grades]
  BY DEF RunRecords
<1> QED BY <1>1, <1>2, <1>3, <1>4

\* What a step may do to the runs: each stays what it is, but for metrics that were not
\* there.
RunsStep ==
    \A n \in DOMAIN runs :
      /\ n \in DOMAIN runs' /\ runs'[n].tag = runs[n].tag /\ runs'[n].tier = runs[n].tier
      /\ runs'[n].metrics = runs[n].metrics \/ runs[n].metrics = Unmeasured

\* A run of a version stays one of it.
LEMMA ExactRunsStay ==
    ASSUME RunsStep, NEW v, NEW n \in ExactRuns(v)
    PROVE  /\ n \in ExactRuns(v)' /\ n \in DOMAIN runs
           /\ runs'[n].metrics = runs[n].metrics \/ runs[n].metrics = Unmeasured
  BY DEF RunsStep, ExactRuns

\* A version that has passed the gate stays one that has.
LEMMA GatedStays ==
    ASSUME RunsStep, NEW v, Gated(v)
    PROVE  Gated(v)'
<1>1. PICK n \in ExactRuns(v) : Absolute(runs[n].metrics, MoneySafetyMetrics \cap BootstrapMetrics)
  BY DEF Gated
<1>2. MoneySafetyMetrics \cap BootstrapMetrics \in SUBSET Metrics
  BY DEF Metrics
<1>3. Absolute(runs'[n].metrics, MoneySafetyMetrics \cap BootstrapMetrics)
  BY <1>1, <1>2, ExactRunsStay, UnmeasuredPasses
<1> QED BY <1>1, <1>3, ExactRunsStay DEF Gated

\* And one that beats another goes on beating it.
LEMMA BeatsStays ==
    ASSUME RunsStep, NEW v, NEW w, Beats(v, w)
    PROVE  Beats(v, w)'
<1>1. PICK n \in ExactRuns(v), o \in ExactRuns(w) : EvaluateGate(runs[n].metrics, runs[o].metrics)
  BY DEF Beats
<1>2. n \in ExactRuns(v)' /\ o \in ExactRuns(w)'
  BY ExactRunsStay
<1>3. EvaluateGate(runs'[n].metrics, runs'[o].metrics)
  BY <1>1, ExactRunsStay, UnmeasuredGate
<1> QED BY <1>2, <1>3 DEF Beats

\* Whatever the promotions have read stays true of the runs.
LEMMA GroundsStay ==
    ASSUME ReleaseInv, RunsStep, UNCHANGED <<promoters, prod, served>>
    PROVE  /\ PromotionsGrounded'
           /\ \A v \in {prod, served} \ {NoVersion} : Gated(v)'
           /\ PromotionsJudged => PromotionsJudged'
<1>1. ASSUME NEW p \in Promoters, promoters[p].stage = "prod"
      PROVE  \E n \in ExactRuns(promoters[p].version)' :
               promoters[p].metrics \in {runs'[n].metrics, Unmeasured}
  <2>1. PICK n \in ExactRuns(promoters[p].version) :
          promoters[p].metrics \in {runs[n].metrics, Unmeasured}
    BY <1>1 DEF ReleaseInv, PromotionsGrounded
  <2>2. /\ n \in ExactRuns(promoters[p].version)'
        /\ runs'[n].metrics = runs[n].metrics \/ runs[n].metrics = Unmeasured
    <3>1. PICK v : v = promoters[p].version
      OBVIOUS
    <3>2. n \in ExactRuns(v)' /\ (runs'[n].metrics = runs[n].metrics \/ runs[n].metrics = Unmeasured)
      BY <2>1, <3>1, ExactRunsStay
    <3> QED BY <3>1, <3>2 DEF ExactRuns
  <2> QED BY <2>1, <2>2
<1>2. ASSUME NEW p \in Promoters, promoters[p].stage = "move"
      PROVE  Gated(promoters[p].version)'
  <2>1. PICK v : v = promoters[p].version /\ Gated(v)
    BY <1>2 DEF ReleaseInv, PromotionsGrounded
  <2>2. Gated(v)'
    BY <2>1, GatedStays
  <2> QED BY <2>1, <2>2 DEF Gated, ExactRuns
<1>3. PromotionsGrounded'
  BY <1>1, <1>2 DEF PromotionsGrounded, ExactRuns
<1>4. \A v \in {prod, served} \ {NoVersion} : Gated(v)'
  BY GatedStays DEF ReleaseInv
<1>5. ASSUME PromotionsJudged, NEW p \in Promoters, promoters[p].stage = "move",
             promoters[p].prod # NoVersion
      PROVE  Beats(promoters[p].version, promoters[p].prod)'
  <2>1. PICK v, w : v = promoters[p].version /\ w = promoters[p].prod /\ Beats(v, w)
    BY <1>5 DEF PromotionsJudged
  <2>2. Beats(v, w)'
    BY <2>1, BeatsStays
  <2> QED BY <2>1, <2>2 DEF Beats, ExactRuns
<1>6. PromotionsJudged => PromotionsJudged'
  BY <1>5 DEF PromotionsJudged
<1> QED BY <1>3, <1>4, <1>6

-----------------------------------------------------------------------------
(* Registration and evaluation: promotions, @prod and the endpoint stay *)

Stages == Tiers \cup {"idle", "pinned", "loaded", "piloted", "measured"}
Evaluations ==
    [stage : Stages, tag : {NoVersion} \cup Version, uri : URIs,
     loaded : {NoVersion} \cup Version, piloted : BOOLEAN]

\* What an evaluation can be at.
LEMMA EvaluatorType ==
    ASSUME ReleaseTypeOK
    PROVE  /\ evaluator \in Evaluations /\ evaluator.stage \in Stages
           /\ evaluator.tag \in {NoVersion} \cup Version /\ evaluator.uri \in URIs
           /\ evaluator.loaded \in {NoVersion} \cup Version /\ evaluator.piloted \in BOOLEAN
           /\ Idle \in Evaluations
  BY ReleaseAssumption DEF ReleaseTypeOK, Evaluations, Stages, Idle, ReleaseAssumption, NoVersion

\* Registering a version, or failing to.
LEMMA RegistrationStep ==
    ASSUME ReleaseInv, Registration
    PROVE  ReleaseInv' /\ (PromotionsJudged => PromotionsJudged') /\ prod' = prod
<1>1. UNCHANGED <<tracking, promoters, prod, served>>
  BY DEF Registration, LogModel, Validate, RegisterModel, StampCandidate, StopRegistration
<1>2. /\ registrar' \in {"idle", "logged", "validated", "registered"}
      /\ versions' \in 0 .. MaxVersions /\ versions <= versions' /\ versions \in 0 .. MaxVersions
      /\ candidate' \in {NoVersion} \cup Version /\ candidate' <= versions'
  <2> USE Outcome DEF ReleaseInv, ReleaseTypeOK, Registered, registry, Version, NoVersion
  <2>1. CASE LogModel BY <2>1 DEF LogModel
  <2>2. CASE Validate BY <2>2 DEF Validate
  <2>3. CASE RegisterModel BY <2>3 DEF RegisterModel
  <2>4. CASE StampCandidate BY <2>4 DEF StampCandidate
  <2>5. CASE StopRegistration BY <2>5 DEF StopRegistration
  <2> QED BY <2>1, <2>2, <2>3, <2>4, <2>5 DEF Registration
<1>3. ReleaseTypeOK'
  BY <1>1, <1>2 DEF ReleaseInv, ReleaseTypeOK, tracking
<1>4. Registered'
  <2>1. \A n \in DOMAIN runs : runs[n].tag \in Version
    BY RunType DEF ReleaseInv
  <2> QED BY <1>1, <1>2, <2>1, EvaluatorType, Outcome
          DEF ReleaseInv, ReleaseTypeOK, Registered, tracking, Version, NoVersion
<1>5. RunsStep /\ LastUnmeasured'
  BY <1>1 DEF RunsStep, tracking, ReleaseInv, LastUnmeasured
<1> QED BY <1>1, <1>3, <1>4, <1>5, GroundsStay DEF ReleaseInv

\* The steps of an evaluation that leave the runs alone.
LEMMA EvaluatorStep ==
    ASSUME ReleaseInv,
           \/ \E v \in Version, uri \in URIs : PinnedCandidateModelUri(v, uri)
           \/ LoadCandidate \/ StopEvaluation
    PROVE  ReleaseInv' /\ (PromotionsJudged => PromotionsJudged') /\ prod' = prod
<1>1. UNCHANGED <<registrar, registry, runs, promoters, prod, served>>
  BY DEF PinnedCandidateModelUri, LoadCandidate, StopEvaluation
<1> DEFINE Registers(e) ==
             /\ e \in Evaluations /\ e.stage \notin Tiers
             /\ e.stage # "idle" =>
                  /\ e.tag \in Version
                  /\ e.tag <= versions \/ (e.stage = "pinned" /\ e.uri = "version")
                  /\ e.stage # "pinned" => e.loaded \in Version
<1>2. Registers(evaluator')
  <2>1. ASSUME NEW v \in Version, NEW uri \in URIs, PinnedCandidateModelUri(v, uri)
        PROVE  Registers(evaluator')
    <3>1. evaluator' = [stage |-> "pinned", tag |-> v, uri |-> uri, loaded |-> NoVersion,
                        piloted |-> FALSE]
      BY <2>1 DEF PinnedCandidateModelUri, Idle
    <3>2. uri = "version" \/ v <= versions
      BY <2>1, ReleaseAssumption
      DEF PinnedCandidateModelUri, Resolve, ReleaseInv, Registered, ReleaseAssumption
    <3> QED BY <3>1, <3>2 DEF Evaluations, Stages, Tiers
  <2>2. CASE LoadCandidate
    <3>1. PICK v : v = Resolve(evaluator.uri, evaluator.tag)
      OBVIOUS
    <3>2. CASE v \in 1 .. versions
      <4>1. evaluator' = [evaluator EXCEPT !.stage = "loaded", !.loaded = v]
        BY <2>2, <3>1, <3>2 DEF LoadCandidate
      <4>2. v \in Version
        BY <3>2, Outcome DEF ReleaseInv, ReleaseTypeOK, Version
      <4>3. evaluator.stage = "pinned" /\ evaluator.tag \in Version
        BY <2>2 DEF LoadCandidate, ReleaseInv, Registered
      <4>4. evaluator.tag <= versions
        BY <3>1, <3>2, <4>3 DEF Resolve, ReleaseInv, Registered
      <4>5. evaluator \in Evaluations
        BY EvaluatorType DEF ReleaseInv
      <4> QED BY <4>1, <4>2, <4>3, <4>4, <4>5 DEF Evaluations, Stages, Tiers
    <3>3. CASE v \notin 1 .. versions
      BY <2>2, <3>1, <3>3, EvaluatorType DEF LoadCandidate, ReleaseInv, Idle, Tiers
    <3> QED BY <3>2, <3>3
  <2>3. CASE StopEvaluation
    BY <2>3, EvaluatorType DEF StopEvaluation, ReleaseInv, Idle, Tiers
  <2> QED BY <2>1, <2>2, <2>3
<1>3. ReleaseTypeOK'
  BY <1>1, <1>2 DEF ReleaseInv, ReleaseTypeOK, registry, Evaluations, Stages
<1>4. Registered'
  BY <1>1, <1>2 DEF ReleaseInv, Registered, registry
<1>5. RunsStep /\ LastUnmeasured'
  BY <1>1, <1>2 DEF RunsStep, LastUnmeasured
<1> QED BY <1>1, <1>3, <1>4, <1>5, GroundsStay DEF ReleaseInv

\* An evaluation opens its run.
LEMMA StartRunStep ==
    ASSUME ReleaseInv, NEW tier \in Tiers, StartRun(tier)
    PROVE  ReleaseInv' /\ (PromotionsJudged => PromotionsJudged') /\ prod' = prod
<1>1. UNCHANGED <<registrar, registry, promoters, prod, served>>
  BY DEF StartRun
<1>2. /\ evaluator.stage \in {"loaded", "piloted", "measured"}
      /\ evaluator.tag \in Version /\ evaluator.loaded \in Version /\ evaluator.tag <= versions
  BY DEF StartRun, Starts, Tiers, ReleaseInv, Registered
<1> DEFINE run == [tag |-> evaluator.tag, scored |-> evaluator.loaded, tier |-> tier,
                   metrics |-> Unmeasured]
<1>3. run \in RunRecords
  BY <1>2, Outcome DEF RunRecords
<1>4. /\ runs' \in Seq(RunRecords) /\ runs' # <<>> /\ Len(runs') = Len(runs) + 1
      /\ DOMAIN runs' = 1 .. Len(runs')
      /\ \A n \in DOMAIN runs : n \in DOMAIN runs' /\ runs'[n] = runs[n]
      /\ runs'[Len(runs')] = run
      /\ \A n \in DOMAIN runs' : n \in DOMAIN runs \/ n = Len(runs')
  <2>1. runs' = Append(runs, run)
    BY DEF StartRun
  <2> QED BY <1>3, <2>1, RunType, AppendProperties, LenProperties DEF ReleaseInv
<1>5. evaluator' \in Evaluations
      /\ evaluator'.stage = tier /\ evaluator'.tag = evaluator.tag
      /\ evaluator'.loaded = evaluator.loaded
  BY EvaluatorType DEF StartRun, ReleaseInv, Evaluations, Stages
<1>6. ReleaseTypeOK'
  BY <1>1, <1>4, <1>5
  DEF ReleaseInv, ReleaseTypeOK, registry, RunRecords, Evaluations, Stages
<1>7. Registered'
  <2>1. \A n \in DOMAIN runs' : runs'[n].tag <= versions
    BY <1>2, <1>4 DEF ReleaseInv, Registered
  <2> QED BY <1>1, <1>2, <1>5, <2>1 DEF ReleaseInv, Registered, registry
<1>8. LastUnmeasured'
  BY <1>4 DEF LastUnmeasured
<1>9. RunsStep
  BY <1>4 DEF RunsStep
<1> QED BY <1>1, <1>6, <1>7, <1>8, <1>9, GroundsStay DEF ReleaseInv

\* And logs its metrics.
LEMMA FinishRunStep ==
    ASSUME ReleaseInv, NEW metrics \in Outcomes, FinishRun(metrics)
    PROVE  ReleaseInv' /\ (PromotionsJudged => PromotionsJudged') /\ prod' = prod
<1>1. UNCHANGED <<registrar, registry, promoters, prod, served>>
  BY DEF FinishRun
<1>2. /\ evaluator.stage \in Tiers /\ runs # <<>> /\ runs[Len(runs)].metrics = Unmeasured
      /\ evaluator.tag \in Version /\ evaluator.loaded \in Version /\ evaluator.tag <= versions
  BY DEF FinishRun, Tiers, ReleaseInv, Registered, LastUnmeasured
<1>3. PICK last : last = Len(runs)
  OBVIOUS
<1>4. last \in DOMAIN runs
  BY <1>2, <1>3, RunType, EmptySeq DEF ReleaseInv
<1>5. runs' = [runs EXCEPT ![last] = [runs[last] EXCEPT !.metrics = metrics]]
  BY <1>3 DEF FinishRun
<1>6. [runs[last] EXCEPT !.metrics = metrics] \in RunRecords
  BY <1>4, RunType, Outcome DEF ReleaseInv, RunRecords
<1>7. /\ runs' \in Seq(RunRecords) /\ DOMAIN runs' = DOMAIN runs
      /\ \A n \in DOMAIN runs :
           /\ runs'[n].tag = runs[n].tag /\ runs'[n].tier = runs[n].tier
           /\ n # last => runs'[n].metrics = runs[n].metrics
  <2>1. runs \in Seq(RunRecords) /\ last \in 1 .. Len(runs) /\ runs[last] \in RunRecords
    BY <1>4, RunType DEF ReleaseInv
  <2>2. runs' \in Seq(RunRecords)
    BY <1>5, <1>6, <2>1, ExceptSeq
  <2> QED BY <1>5, <2>1, <2>2 DEF RunRecords
<1>8. /\ evaluator' \in Evaluations /\ evaluator'.stage \in {"piloted", "measured", "idle"}
      /\ evaluator'.stage # "idle" => /\ evaluator'.tag = evaluator.tag
                                      /\ evaluator'.loaded = evaluator.loaded
  BY EvaluatorType DEF FinishRun, ReleaseInv, Evaluations, Stages, Idle
<1>9. ReleaseTypeOK'
  BY <1>1, <1>7, <1>8
  DEF ReleaseInv, ReleaseTypeOK, registry, RunRecords, Evaluations, Stages
<1>10. Registered' /\ LastUnmeasured'
  <2>1. \A n \in DOMAIN runs' : runs'[n].tag <= versions
    BY <1>7 DEF ReleaseInv, Registered
  <2>2. Registered'
    BY <1>1, <1>2, <1>8, <2>1 DEF ReleaseInv, Registered, registry
  <2> QED BY <1>8, <2>2 DEF LastUnmeasured, Tiers
<1>11. RunsStep
  BY <1>2, <1>3, <1>7 DEF RunsStep
<1> QED BY <1>1, <1>9, <1>10, <1>11, GroundsStay DEF ReleaseInv

-----------------------------------------------------------------------------
(* Promotion and deployment *)

Promotions ==
    [stage : {"idle", "candidate", "prod", "move"}, version : {NoVersion} \cup Version,
     prod : {NoVersion} \cup Version, metrics : [Metrics -> Grades]]

\* What a promotion p may become: nothing, or what the invariant allows.
Becomes(p, q) ==
    /\ promoters' = [promoters EXCEPT ![p] = q] /\ q \in Promotions
    /\ q.stage # "idle" => q.version \in Version
    /\ q.stage = "prod" =>
         \E n \in ExactRuns(q.version) : q.metrics \in {runs[n].metrics, Unmeasured}
    /\ q.stage = "move" => Gated(q.version)

\* What a promotion can be at.
LEMMA PromotionsType ==
    ASSUME ReleaseInv
    PROVE  /\ promoters \in [Promoters -> Promotions] /\ NoPromotion \in Promotions
           /\ prod \in {NoVersion} \cup Version
           /\ \A p \in Promoters : promoters[p] \in Promotions
  BY Outcome DEF ReleaseInv, ReleaseTypeOK, Promotions, NoPromotion, NoVersion

\* A gated version has been registered.
LEMMA GatedIsRegistered ==
    ASSUME ReleaseInv, NEW v, Gated(v)
    PROVE  v \in Version /\ v <= versions
  BY RunType DEF ReleaseInv, Registered, Gated, ExactRuns

\* A promotion that changes only its own place, or moves the alias to a gated version.
LEMMA PromotionStep ==
    ASSUME ReleaseInv, NEW p \in Promoters, NEW q, Becomes(p, q),
           UNCHANGED <<registrar, registry, tracking, served>>,
           prod' = prod \/ (prod' \in Version /\ Gated(prod'))
    PROVE  ReleaseInv'
<1>1. promoters' \in [Promoters -> Promotions] /\ promoters'[p] = q
      /\ \A o \in Promoters \ {p} : promoters'[o] = promoters[o]
  BY PromotionsType DEF Becomes
<1>2. \A v : Gated(v)' = Gated(v) /\ ExactRuns(v)' = ExactRuns(v)
  BY DEF Gated, ExactRuns, tracking
<1>3. prod' \in {NoVersion} \cup Version /\ prod' <= versions
  BY PromotionsType, GatedIsRegistered DEF ReleaseInv, Registered
<1>4. ReleaseTypeOK'
  BY <1>1, <1>3 DEF ReleaseInv, ReleaseTypeOK, registry, tracking, Promotions
<1>5. Registered'
  BY <1>1, <1>3 DEF ReleaseInv, Registered, registry, tracking, Becomes
<1>6. LastUnmeasured'
  BY DEF ReleaseInv, LastUnmeasured, tracking
<1>7. PromotionsGrounded'
  BY <1>1 DEF ReleaseInv, PromotionsGrounded, Becomes, Gated, ExactRuns, tracking
<1>8. \A v \in {prod', served} \ {NoVersion} : Gated(v)'
  BY <1>2 DEF ReleaseInv
<1> QED BY <1>4, <1>5, <1>6, <1>7, <1>8 DEF ReleaseInv

\* What is left of a promotion whose gate has spoken; wins is what the gate said.
LEMMA GateStep ==
    ASSUME ReleaseInv, NEW p \in Promoters, promoters[p].stage # "idle",
           NEW wins, NEW dryRun \in BOOLEAN, wins => Gated(promoters[p].version),
           promoters' = [promoters EXCEPT ![p] = AfterGate(p, wins, dryRun)],
           UNCHANGED <<registrar, registry, tracking, prod, served>>
    PROVE  ReleaseInv'
<1>1. PICK q : q = AfterGate(p, wins, dryRun)
  OBVIOUS
<1>2. promoters[p] \in Promotions /\ promoters[p].version \in Version
  BY PromotionsType DEF ReleaseInv, Registered
<1>3. CASE wins /\ ~dryRun
  <2>1. q = [promoters[p] EXCEPT !.stage = "move"]
    BY <1>1, <1>3 DEF AfterGate
  <2>2. q \in Promotions /\ q.stage = "move" /\ q.version = promoters[p].version
    BY <1>2, <2>1 DEF Promotions
  <2>3. Becomes(p, q)
    BY <1>1, <1>2, <1>3, <2>2 DEF Becomes
  <2> QED BY <2>3, PromotionStep
<1>4. CASE ~(wins /\ ~dryRun)
  <2>1. q = NoPromotion
    BY <1>1, <1>4 DEF AfterGate
  <2>2. Becomes(p, q)
    BY <1>1, <2>1, PromotionsType DEF Becomes, NoPromotion
  <2> QED BY <2>2, PromotionStep
<1> QED BY <1>3, <1>4

\* What it has read of the candidate is of a run.
LEMMA ReadCandidateStep ==
    ASSUME ReleaseInv, NEW p \in Promoters, NEW dryRun \in BOOLEAN, ReadCandidate(p, dryRun)
    PROVE  ReleaseInv'
<1>1. /\ promoters[p].stage = "candidate" /\ promoters[p] \in Promotions
      /\ promoters[p].version \in Version
      /\ UNCHANGED <<registrar, registry, tracking, prod, served>>
  BY PromotionsType DEF ReadCandidate, ReleaseInv, Registered
<1>2. CASE ExactRuns(promoters[p].version) = {}
  <2>1. Becomes(p, NoPromotion)
    BY <1>2, PromotionsType DEF ReadCandidate, Becomes, NoPromotion
  <2> QED BY <1>1, <2>1, PromotionStep
<1>3. CASE ExactRuns(promoters[p].version) # {}
  <2>1. PICK n \in DOMAIN runs :
          /\ IsLatest(n, promoters[p].version)
          /\ promoters' = [promoters EXCEPT ![p] =
                IF promoters[p].prod = NoVersion
                THEN AfterGate(p, EvaluateBootstrapGate(runs[n].metrics), dryRun)
                ELSE [promoters[p] EXCEPT !.stage = "prod", !.metrics = runs[n].metrics]]
    BY <1>3 DEF ReadCandidate
  <2>2. n \in ExactRuns(promoters[p].version)
    BY <2>1 DEF IsLatest
  <2>3. CASE promoters[p].prod = NoVersion
    <3>1. EvaluateBootstrapGate(runs[n].metrics) => Gated(promoters[p].version)
      BY <2>2 DEF EvaluateBootstrapGate, Absolute, Gated
    <3>2. promoters' =
            [promoters EXCEPT ![p] = AfterGate(p, EvaluateBootstrapGate(runs[n].metrics), dryRun)]
      BY <2>1, <2>3
    <3> QED BY <1>1, <3>1, <3>2, GateStep
  <2>4. CASE promoters[p].prod # NoVersion
    <3> DEFINE q == [promoters[p] EXCEPT !.stage = "prod", !.metrics = runs[n].metrics]
    <3>1. /\ q \in Promotions /\ q.stage = "prod" /\ q.version = promoters[p].version
          /\ q.metrics = runs[n].metrics
      BY <1>1, <2>1, RunType DEF Promotions, ReleaseInv
    <3>2. Becomes(p, q)
      BY <1>1, <2>1, <2>2, <2>4, <3>1 DEF Becomes
    <3> QED BY <1>1, <3>2, PromotionStep
  <2> QED BY <2>3, <2>4
<1> QED BY <1>2, <1>3

\* What the gate on both versions says holds of runs the two versions still have.
LEMMA GateIsOfRuns ==
    ASSUME ReleaseInv, NEW p \in Promoters, promoters[p].stage = "prod",
           NEW o \in ExactRuns(promoters[p].prod),
           EvaluateGate(promoters[p].metrics, runs[o].metrics)
    PROVE  /\ Gated(promoters[p].version)
           /\ Beats(promoters[p].version, promoters[p].prod)
<1>1. PICK n \in ExactRuns(promoters[p].version) :
        promoters[p].metrics \in {runs[n].metrics, Unmeasured}
  BY DEF ReleaseInv, PromotionsGrounded
<1>2. EvaluateGate(runs[n].metrics, runs[o].metrics)
  BY <1>1, UnmeasuredGate
<1>3. Absolute(runs[n].metrics, MoneySafetyMetrics \cap BootstrapMetrics)
  BY <1>2 DEF EvaluateGate, Absolute
<1> QED BY <1>2, <1>3 DEF Gated, Beats

\* And so is what it has read of @prod.
LEMMA ReadProdMetricsStep ==
    ASSUME ReleaseInv, NEW p \in Promoters, NEW dryRun \in BOOLEAN, ReadProdMetrics(p, dryRun)
    PROVE  ReleaseInv'
<1>1. /\ promoters[p].stage = "prod"
      /\ UNCHANGED <<registrar, registry, tracking, prod, served>>
  BY DEF ReadProdMetrics
<1>2. CASE ExactRuns(promoters[p].prod) = {}
  <2>1. Becomes(p, NoPromotion)
    BY <1>2, PromotionsType DEF ReadProdMetrics, Becomes, NoPromotion
  <2> QED BY <1>1, <2>1, PromotionStep
<1>3. CASE ExactRuns(promoters[p].prod) # {}
  <2>1. PICK n \in DOMAIN runs :
          /\ IsLatest(n, promoters[p].prod)
          /\ promoters' = [promoters EXCEPT ![p] =
                AfterGate(p, EvaluateGate(promoters[p].metrics, runs[n].metrics), dryRun)]
    BY <1>3 DEF ReadProdMetrics
  <2>2. EvaluateGate(promoters[p].metrics, runs[n].metrics) => Gated(promoters[p].version)
    BY <1>1, <2>1, GateIsOfRuns DEF IsLatest
  <2> QED BY <1>1, <2>1, <2>2, GateStep
<1> QED BY <1>2, <1>3

\* Its other steps read nothing, or move the alias to what has passed.
LEMMA OtherPromotionSteps ==
    ASSUME ReleaseInv, NEW p \in Promoters,
           (\E v \in Version : ReadProd(p, v)) \/ MoveAlias(p) \/ StopPromotion(p)
    PROVE  ReleaseInv'
<1>1. CASE \E v \in Version : ReadProd(p, v)
  <2>1. PICK v \in Version : ReadProd(p, v)
    BY <1>1
  <2> DEFINE q == [NoPromotion EXCEPT !.stage = "candidate", !.version = v, !.prod = prod]
  <2>2. q \in Promotions /\ q.stage = "candidate" /\ q.version = v
    BY PromotionsType DEF Promotions, NoPromotion
  <2>3. Becomes(p, q) /\ UNCHANGED <<registrar, registry, tracking, prod, served>>
    BY <2>1, <2>2 DEF Becomes, ReadProd
  <2> QED BY <2>3, PromotionStep
<1>2. CASE MoveAlias(p)
  <2>1. prod' \in Version /\ Gated(prod')
    <3>1. PICK v : v = promoters[p].version /\ Gated(v)
      BY <1>2 DEF MoveAlias, ReleaseInv, PromotionsGrounded
    <3>2. prod' = v
      BY <1>2, <3>1 DEF MoveAlias
    <3> QED BY <3>1, <3>2, GatedIsRegistered
  <2>2. Becomes(p, NoPromotion) /\ UNCHANGED <<registrar, registry, tracking, served>>
    BY <1>2, PromotionsType DEF MoveAlias, Becomes, NoPromotion
  <2> QED BY <2>1, <2>2, PromotionStep
<1>3. CASE StopPromotion(p)
  <2>1. Becomes(p, NoPromotion) /\ UNCHANGED <<registrar, registry, tracking, prod, served>>
    BY <1>3, PromotionsType DEF StopPromotion, Becomes, NoPromotion
  <2> QED BY <2>1, PromotionStep
<1> QED BY <1>1, <1>2, <1>3

\* Deploying moves no alias.
LEMMA DeployStep ==
    ASSUME ReleaseInv, Deploy
    PROVE  ReleaseInv' /\ (PromotionsJudged => PromotionsJudged') /\ prod' = prod
<1>1. /\ prod # NoVersion /\ served' = prod
      /\ UNCHANGED <<registrar, registry, tracking, promoters, prod>>
  BY DEF Deploy
<1>2. ReleaseTypeOK'
  BY <1>1 DEF ReleaseInv, ReleaseTypeOK, registry, tracking
<1>3. Registered' /\ LastUnmeasured'
  BY <1>1 DEF ReleaseInv, Registered, LastUnmeasured, registry, tracking
<1>4. PromotionsGrounded' /\ \A v \in {prod', served'} \ {NoVersion} : Gated(v)'
  BY <1>1 DEF ReleaseInv, PromotionsGrounded, Gated, ExactRuns, tracking
<1>5. PromotionsJudged => PromotionsJudged'
  BY <1>1 DEF PromotionsJudged, Beats, ExactRuns, tracking
<1> QED BY <1>1, <1>2, <1>3, <1>4, <1>5 DEF ReleaseInv

\* A step of a promotion breaks nothing.
LEMMA PromotionKeepsInv ==
    ASSUME ReleaseInv, NEW p \in Promoters, Promotion(p)
    PROVE  ReleaseInv'
  BY ReadCandidateStep, ReadProdMetricsStep, OtherPromotionSteps DEF Promotion

-----------------------------------------------------------------------------
(* What is released has passed the gate *)

\* Nothing is registered at first.
LEMMA ReleaseInit_Inv == ReleaseInit => ReleaseInv
<1> SUFFICES ASSUME ReleaseInit PROVE ReleaseInv
  OBVIOUS
<1>1. runs \in Seq(RunRecords) /\ DOMAIN runs = {}
  BY DEF ReleaseInit
<1>2. evaluator \in Evaluations /\ evaluator.stage = "idle"
  BY ReleaseAssumption DEF ReleaseInit, Idle, Evaluations, Stages, ReleaseAssumption
<1>3. promoters \in [Promoters -> Promotions] /\ \A p \in Promoters : promoters[p].stage = "idle"
  BY Outcome DEF ReleaseInit, NoPromotion, Promotions
<1>4. ReleaseTypeOK
  BY <1>1, <1>2, <1>3, Outcome
  DEF ReleaseInit, ReleaseTypeOK, RunRecords, Evaluations, Stages, Promotions, NoVersion
<1> QED BY <1>1, <1>2, <1>3, <1>4
        DEF ReleaseInit, ReleaseInv, Registered, LastUnmeasured, PromotionsGrounded, Tiers,
            NoVersion

\* A step of an evaluation breaks nothing.
LEMMA EvaluationStep ==
    ASSUME ReleaseInv, Evaluation
    PROVE  ReleaseInv' /\ (PromotionsJudged => PromotionsJudged') /\ prod' = prod
  BY EvaluatorStep, StartRunStep, FinishRunStep DEF Evaluation

\* Nor does a step that changes nothing of the release.
LEMMA ReleaseStutters ==
    ASSUME UNCHANGED releaseVars
    PROVE  /\ ReleaseInv => ReleaseInv'
           /\ PromotionsJudged => PromotionsJudged'
           /\ prod' = prod
<1> USE DEF releaseVars, registry, tracking
<1>1. /\ ReleaseTypeOK => ReleaseTypeOK'
      /\ Registered => Registered'
      /\ LastUnmeasured => LastUnmeasured'
  BY DEF ReleaseTypeOK, Registered, LastUnmeasured
<1>2. PromotionsGrounded => PromotionsGrounded'
  BY DEF PromotionsGrounded, Gated, ExactRuns
<1>3. PromotionsJudged => PromotionsJudged'
  BY DEF PromotionsJudged, Beats, ExactRuns
<1> QED BY <1>1, <1>2, <1>3 DEF ReleaseInv, Gated, ExactRuns

\* The strengthened invariant of the release: the last run is unmeasured while it is
\* under way, and promotions go on only from runs that are there.
THEOREM ReleaseInvariance == ReleaseSpec => []ReleaseInv
<1>1. ReleaseInit => ReleaseInv
  BY ReleaseInit_Inv
<1>2. ReleaseInv /\ [ReleaseNext]_releaseVars => ReleaseInv'
  BY RegistrationStep, EvaluationStep, PromotionKeepsInv, DeployStep, ReleaseStutters
  DEF ReleaseNext
<1> QED BY <1>1, <1>2, PTL DEF ReleaseSpec

\* The registry, the tracking server and every promotion keep to their shapes.
THEOREM ReleaseAlwaysTyped == ReleaseSpec => []ReleaseTypeOK
<1>1. ReleaseInv => ReleaseTypeOK
  BY DEF ReleaseInv
<1> QED BY <1>1, ReleaseInvariance, PTL

\* What an evaluation that names versions by number has loaded, and every run has scored,
\* is the version it is tagged with.
ScoredAsTagged ==
    /\ evaluator.stage \notin {"idle", "pinned"} => evaluator.loaded = evaluator.tag
    /\ ScoredIsTagged

\* No step of an evaluation changes that.
LEMMA ScoredStep ==
    ASSUME URIs = {"version"}, ReleaseInv, ScoredAsTagged, Evaluation
    PROVE  ScoredAsTagged'
<1>1. evaluator.uri = "version" /\ evaluator \in Evaluations
  BY EvaluatorType DEF ReleaseInv
<1>2. CASE \/ \E v \in Version, uri \in URIs : PinnedCandidateModelUri(v, uri)
           \/ LoadCandidate \/ StopEvaluation
  <2>1. runs' = runs
    BY <1>2 DEF PinnedCandidateModelUri, LoadCandidate, StopEvaluation
  <2>2. evaluator'.stage \notin {"idle", "pinned"} => evaluator'.loaded = evaluator'.tag
    <3>1. \/ evaluator'.stage \in {"idle", "pinned"}
          \/ LoadCandidate /\ evaluator' = [evaluator EXCEPT !.stage = "loaded",
                                                          !.loaded = evaluator.tag]
      <4>1. CASE \E v \in Version, uri \in URIs : PinnedCandidateModelUri(v, uri)
        BY <4>1 DEF PinnedCandidateModelUri, Idle
      <4>2. CASE LoadCandidate
        BY <1>1, <4>2 DEF LoadCandidate, Resolve, Idle
      <4>3. CASE StopEvaluation
        BY <4>3 DEF StopEvaluation, Idle
      <4> QED BY <1>2, <4>1, <4>2, <4>3
    <3> QED BY <1>1, <3>1 DEF Evaluations
  <2> QED BY <2>1, <2>2 DEF ScoredAsTagged, ScoredIsTagged
<1>3. ASSUME NEW tier \in Tiers, StartRun(tier) PROVE ScoredAsTagged'
  <2>1. evaluator.loaded = evaluator.tag /\ evaluator.loaded \in Version
    BY <1>3 DEF StartRun, Starts, Tiers, ScoredAsTagged, ReleaseInv, Registered
  <2> DEFINE run == [tag |-> evaluator.tag, scored |-> evaluator.loaded, tier |-> tier,
                     metrics |-> Unmeasured]
  <2>2. run \in RunRecords /\ run.scored = run.tag
    BY <2>1, Outcome DEF RunRecords
  <2>3. runs' = Append(runs, run)
    BY <1>3 DEF StartRun
  <2>4. \A n \in DOMAIN runs' : runs'[n] = run \/ (n \in DOMAIN runs /\ runs'[n] = runs[n])
    <3> HIDE DEF run
    <3> QED BY <2>2, <2>3, RunType, AppendProperties, LenProperties DEF ReleaseInv
  <2>5. ScoredIsTagged'
    BY <2>2, <2>4 DEF ScoredAsTagged, ScoredIsTagged
  <2>6. evaluator'.loaded = evaluator'.tag
    BY <1>1, <1>3, <2>1 DEF StartRun, Evaluations
  <2> QED BY <2>5, <2>6 DEF ScoredAsTagged
<1>4. ASSUME NEW metrics \in Outcomes, FinishRun(metrics) PROVE ScoredAsTagged'
  <2>1. evaluator.loaded = evaluator.tag
    BY <1>4 DEF FinishRun, Tiers, ScoredAsTagged
  <2>2. evaluator'.stage # "idle" => evaluator'.loaded = evaluator'.tag
    BY <1>1, <1>4, <2>1 DEF FinishRun, Evaluations, Idle
  <2>3. /\ runs \in Seq(RunRecords) /\ DOMAIN runs = 1 .. Len(runs)
        /\ \A n \in DOMAIN runs : runs[n] \in RunRecords
    BY RunType DEF ReleaseInv
  <2>4. /\ DOMAIN runs' = DOMAIN runs
        /\ \A n \in DOMAIN runs : /\ runs'[n].tag = runs[n].tag
                                  /\ runs'[n].scored = runs[n].scored
    BY <1>4, <2>3 DEF FinishRun, RunRecords
  <2> QED BY <2>2, <2>4 DEF ScoredAsTagged, ScoredIsTagged
<1> QED BY <1>2, <1>3, <1>4 DEF Evaluation

\* Whatever programs are started, stopped and repeated, as long as evaluations name
\* versions by number: a version that @prod names or that is served is registered, and a
\* run that scored it, and no other, has passed the gate on the whole dataset.
THEOREM ReleasedIsAlwaysGated ==
    ASSUME URIs = {"version"}
    PROVE  ReleaseSpec => []ReleasedIsGated
<1>1. ReleaseInit => ReleaseInv /\ ScoredAsTagged
  BY ReleaseInit_Inv DEF ReleaseInit, ScoredAsTagged, ScoredIsTagged, Idle
<1>2. ReleaseInv /\ ScoredAsTagged /\ [ReleaseNext]_releaseVars
        => (ReleaseInv /\ ScoredAsTagged)'
  <2> SUFFICES ASSUME ReleaseInv, ScoredAsTagged, [ReleaseNext]_releaseVars
               PROVE  (ReleaseInv /\ ScoredAsTagged)'
    OBVIOUS
  <2>1. ReleaseInv'
    BY RegistrationStep, EvaluationStep, PromotionKeepsInv, DeployStep, ReleaseStutters
    DEF ReleaseNext
  <2>2. CASE Evaluation
    BY <2>1, <2>2, ScoredStep
  <2>3. CASE ~Evaluation
    <3>1. UNCHANGED tracking
      BY <2>3 DEF ReleaseNext, releaseVars, Registration, LogModel, Validate, RegisterModel,
                  StampCandidate, StopRegistration, Promotion, ReadProd, ReadCandidate,
                  ReadProdMetrics, MoveAlias, StopPromotion, Deploy
    <3> QED BY <2>1, <3>1 DEF tracking, ScoredAsTagged, ScoredIsTagged
  <2> QED BY <2>2, <2>3
<1>3. ReleaseInv /\ ScoredAsTagged => ReleasedIsGated
  <2> SUFFICES ASSUME ReleaseInv, ScoredAsTagged, NEW v \in {prod, served} \ {NoVersion}
               PROVE  /\ v <= versions
                      /\ \E n \in ExactRuns(v) :
                           /\ runs[n].scored = v
                           /\ Absolute(runs[n].metrics, MoneySafetyMetrics \cap BootstrapMetrics)
    BY DEF ReleasedIsGated
  <2>1. v <= versions
    BY DEF ReleaseInv, Registered
  <2>2. Gated(v)
    BY DEF ReleaseInv
  <2> QED BY <2>1, <2>2 DEF Gated, ExactRuns, ScoredAsTagged, ScoredIsTagged
<1> QED BY <1>1, <1>2, <1>3, PTL DEF ReleaseSpec

-----------------------------------------------------------------------------
(* Promotions at the same time *)

\* What a promotion goes on to the alias with beats what it has read in @prod, whatever
\* the others do.
LEMMA JudgedStep ==
    ASSUME ReleaseInv, PromotionsJudged, NEW p \in Promoters, Promotion(p)
    PROVE  PromotionsJudged'
<1>1. /\ promoters[p] \in Promotions /\ NoPromotion.stage = "idle"
      /\ promoters \in [Promoters -> Promotions]
      /\ UNCHANGED <<registrar, registry, tracking>>
  BY PromotionsType
  DEF Promotion, ReadProd, ReadCandidate, ReadProdMetrics, MoveAlias, StopPromotion, NoPromotion
<1>2. \A v, w : Beats(v, w)' = Beats(v, w)
  BY <1>1 DEF Beats, ExactRuns, tracking
<1> DEFINE Judged(q) == q.stage = "move" /\ q.prod # NoVersion => Beats(q.version, q.prod)
<1>3. Judged(promoters'[p]) /\ \A o \in Promoters \ {p} : promoters'[o] = promoters[o]
  <2>1. CASE \E v \in Version : ReadProd(p, v)
    BY <1>1, <2>1 DEF ReadProd, NoPromotion
  <2>2. ASSUME NEW dryRun \in BOOLEAN, ReadCandidate(p, dryRun)
        PROVE  Judged(promoters'[p]) /\ \A o \in Promoters \ {p} : promoters'[o] = promoters[o]
    <3>1. PICK q : q = promoters'[p]
      OBVIOUS
    <3>2. \/ q = NoPromotion
          \/ promoters[p].prod = NoVersion /\ q = [promoters[p] EXCEPT !.stage = "move"]
          \/ \E m : q = [promoters[p] EXCEPT !.stage = "prod", !.metrics = m]
      BY <1>1, <2>2, <3>1 DEF ReadCandidate, AfterGate
    <3>3. Judged(q)
      BY <1>1, <3>2 DEF Promotions
    <3>4. \A o \in Promoters \ {p} : promoters'[o] = promoters[o]
      BY <1>1, <2>2 DEF ReadCandidate
    <3> QED BY <3>1, <3>3, <3>4
  <2>3. ASSUME NEW dryRun \in BOOLEAN, ReadProdMetrics(p, dryRun)
        PROVE  Judged(promoters'[p]) /\ \A o \in Promoters \ {p} : promoters'[o] = promoters[o]
    <3>1. PICK q : q = promoters'[p]
      OBVIOUS
    <3>2. Judged(q)
      <4>1. CASE q = NoPromotion
        BY <1>1, <4>1
      <4>2. CASE q # NoPromotion
        <5>1. PICK n \in ExactRuns(promoters[p].prod) :
                /\ EvaluateGate(promoters[p].metrics, runs[n].metrics)
                /\ q = [promoters[p] EXCEPT !.stage = "move"]
          BY <1>1, <2>3, <3>1, <4>2 DEF ReadProdMetrics, AfterGate, IsLatest
        <5>2. Beats(promoters[p].version, promoters[p].prod)
          BY <2>3, <5>1, GateIsOfRuns DEF ReadProdMetrics
        <5> QED BY <1>1, <5>1, <5>2 DEF Promotions
      <4> QED BY <4>1, <4>2
    <3>3. \A o \in Promoters \ {p} : promoters'[o] = promoters[o]
      BY <1>1, <2>3 DEF ReadProdMetrics
    <3> QED BY <3>1, <3>2, <3>3
  <2>4. CASE MoveAlias(p) \/ StopPromotion(p)
    BY <1>1, <2>4 DEF MoveAlias, StopPromotion
  <2> QED BY <2>1, <2>2, <2>3, <2>4 DEF Promotion
<1>4. ASSUME NEW o \in Promoters, promoters'[o].stage = "move", promoters'[o].prod # NoVersion
      PROVE  Beats(promoters[o].version, promoters[o].prod)'
  <2>1. PICK v, w : v = promoters'[o].version /\ w = promoters'[o].prod
    OBVIOUS
  <2>2. Beats(v, w)
    BY <1>3, <1>4, <2>1 DEF PromotionsJudged
  <2>3. Beats(v, w)'
    BY <1>2, <2>2
  <2> QED BY <2>1, <2>3 DEF Beats, ExactRuns
<1> QED BY <1>4 DEF PromotionsJudged

\* However many promote at the same time, each moves the alias only to a version that
\* exact runs show to be safe and no worse than the one it has read in @prod.
THEOREM MovesAreAlwaysJudged == ReleaseSpec => MovesAreJudged
<1> DEFINE Judged ==
             \A p \in Promoters :
               MoveAlias(p) /\ promoters[p].prod # NoVersion =>
                 \E n \in ExactRuns(prod'), o \in ExactRuns(promoters[p].prod) :
                   EvaluateGate(runs[n].metrics, runs[o].metrics)
<1>1. ReleaseInit => ReleaseInv /\ PromotionsJudged
  BY ReleaseInit_Inv DEF ReleaseInit, PromotionsJudged, NoPromotion
<1>2. ReleaseInv /\ PromotionsJudged /\ [ReleaseNext]_releaseVars
        => (ReleaseInv /\ PromotionsJudged)'
  BY RegistrationStep, EvaluationStep, PromotionKeepsInv, JudgedStep, DeployStep,
     ReleaseStutters
  DEF ReleaseNext
<1>3. PromotionsJudged => Judged
  <2> SUFFICES ASSUME PromotionsJudged, NEW p \in Promoters, MoveAlias(p),
                      promoters[p].prod # NoVersion
               PROVE  \E n \in ExactRuns(prod'), o \in ExactRuns(promoters[p].prod) :
                        EvaluateGate(runs[n].metrics, runs[o].metrics)
    OBVIOUS
  <2>1. prod' = promoters[p].version /\ promoters[p].stage = "move"
    BY DEF MoveAlias
  <2>2. Beats(promoters[p].version, promoters[p].prod)
    BY <2>1 DEF PromotionsJudged
  <2> QED BY <2>1, <2>2 DEF Beats
<1>4. PromotionsJudged => [Judged]_releaseVars
  BY <1>3
<1> QED BY <1>1, <1>2, <1>4, PTL DEF ReleaseSpec, MovesAreJudged
================================================================================
