------------------------------ MODULE PriorClaims ------------------------------
(***************************************************************************)
(* The precedent corpus (agent/src/prior_claims_corpus_job.py): one run at  *)
(* a time stages the FINAL claims' narratives, embeds those whose stored    *)
(* embedding cannot be reused, and merges.  Claims change and the job is    *)
(* deployed anew while it runs.                                             *)
(***************************************************************************)
EXTENDS Naturals

CONSTANTS
    CorpusClaims,
    Texts,          \* narratives; a narrative stands for its hash too
    Provenances     \* the embedding models, with their normalization, a deployed job may name

VARIABLES
    narratives,     \* of the claims that are FINAL and complete
    provenance,     \* PROVENANCE in the deployed code
    corpus,         \* gold.prior_claims_corpus
    staged,         \* its staging table
    job             \* the run at work

priorVars == <<narratives, provenance, corpus, staged, job>>

NoText == "not final"
NoRow == [text |-> NoText]
NoVector == [of |-> NoText]
NoJob == [stage |-> "none"]

PriorInit ==
    /\ narratives \in [CorpusClaims -> Texts]
    /\ provenance \in Provenances
    /\ corpus = [c \in CorpusClaims |-> NoRow]
    /\ staged = [c \in CorpusClaims |-> NoText]
    /\ job = NoJob

-----------------------------------------------------------------------------

\* Overwrites what a run that stopped has left.
StageCandidates ==
    /\ job = NoJob
    /\ staged' = narratives
    /\ job' = [stage |-> "staged", provenance |-> provenance]
    /\ UNCHANGED <<narratives, provenance, corpus>>

\* Faulty: the gold views are read again.
GoldAgain == narratives
MergeSource == staged

\* Faulty: a new model keeps the old one's embeddings.
SameNarrative(row, text, by) == row.text = text
ReuseEmbedding(row, text, by) == row.text = text /\ row.provenance = by

Reuses(c) == corpus[c] # NoRow /\ ReuseEmbedding(corpus[c], MergeSource[c], job.provenance)

\* embed_texts returns a vector for each text, in the order of the texts, or raises.
EmbedNarratives ==
    /\ job.stage = "staged"
    /\ LET Fresh(c) == IF MergeSource[c] # NoText /\ ~Reuses(c)
                       THEN [of |-> MergeSource[c], by |-> job.provenance] ELSE NoVector
       IN  job' = [stage |-> "embedded", provenance |-> job.provenance,
                   fresh |-> [c \in CorpusClaims |-> Fresh(c)]]
    /\ UNCHANGED <<narratives, provenance, corpus, staged>>

Merged(c) ==
    IF MergeSource[c] = NoText THEN NoRow
    ELSE [text |-> MergeSource[c], provenance |-> job.provenance,
          vector |-> IF Reuses(c) THEN corpus[c].vector ELSE job.fresh[c]]

\* Refuses to publish a row without an embedding.
MergeCorpus ==
    /\ job.stage = "embedded"
    /\ \A c \in CorpusClaims : Merged(c) # NoRow => Merged(c).vector # NoVector
    /\ corpus' = [c \in CorpusClaims |-> Merged(c)]
    /\ staged' = [c \in CorpusClaims |-> NoText]
    /\ job' = NoJob
    /\ UNCHANGED <<narratives, provenance>>

StopJob == job # NoJob /\ job' = NoJob /\ UNCHANGED <<narratives, provenance, corpus, staged>>

\* An edited narrative, a new decision, or a claim that is no longer FINAL.
ChangeNarrative ==
    /\ \E c \in CorpusClaims, t \in Texts \cup {NoText} : narratives' = [narratives EXCEPT ![c] = t]
    /\ UNCHANGED <<provenance, corpus, staged, job>>

DeployJob == provenance' \in Provenances /\ UNCHANGED <<narratives, corpus, staged, job>>

PriorNext ==
    \/ StageCandidates \/ EmbedNarratives \/ MergeCorpus \/ StopJob \/ ChangeNarrative \/ DeployJob

PriorSpec == PriorInit /\ [][PriorNext]_priorVars

-----------------------------------------------------------------------------

\* prior_claims_corpus_job.py: "the embedding plan and the MERGE source cannot see two
\* different reads", and an embedding is reused only for the same narrative and model: every
\* row's vector is its own narrative's, by the model its provenance names.
EmbeddingsMatch ==
    \A c \in CorpusClaims :
      corpus[c] # NoRow => corpus[c].vector = [of |-> corpus[c].text, by |-> corpus[c].provenance]
=============================================================================
