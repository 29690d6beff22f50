--------------------------- MODULE DocumentReviews ---------------------------
(***************************************************************************)
(* Jurisdiction evaluation and document review of one document: two worker *)
(* queues, PATCH of the document, POST review/rerun, and deletion.         *)
(***************************************************************************)
EXTENDS Naturals, FiniteSets

CONSTANTS Evaluations,    \* jurisdiction-evaluation jobs
          Reruns,         \* review jobs of POST rerun, force = TRUE
          Jurisdictions,  \* what an evaluation or a user may set
          Models,         \* the llmModel column: a model, or none
          ReviewAttempts, \* attempts of both queues (2 in queue.module)
          ReviewFaults    \* bound: failures, stalls, edits and deletions

ASSUME ReviewAssumption ==
    /\ Evaluations \cap Reruns = {}
    /\ ReviewAttempts \in Nat \ {0} /\ ReviewFaults \in Nat

VARIABLES docRow,       \* the documents row; unset jurisdiction is "none"
          evaluation,   \* the job of each evaluation
          review,       \* the review job each evaluation or rerun enqueues
          reviews,      \* document_reviews rows, unique per model of one rules version
          edit,         \* PATCH in progress: the row it has loaded
          everReviewed, \* a review was saved for the document
          reviewFaults

reviewVars == <<docRow, evaluation, review, reviews, edit, everReviewed, reviewFaults>>

ReviewJobs == Evaluations \cup Reruns
NoRow == [here |-> FALSE, title |-> 0, jurisdiction |-> "none"]
Row == [here : BOOLEAN, title : 0 .. 1, jurisdiction : Jurisdictions \cup {"none"}]

NewJob(st) == [st |-> st, tries |-> 0, stalls |-> 0, result |-> "none", row |-> NoRow]

ReviewInit ==
    /\ docRow = [NoRow EXCEPT !.here = TRUE]
    /\ evaluation = [e \in Evaluations |-> NewJob("none")]
    /\ review = [j \in ReviewJobs |-> NewJob("none")]
    /\ reviews = {}
    /\ edit = NoRow
    /\ everReviewed = FALSE
    /\ reviewFaults = 0

Set(jobs, j, st) == [jobs EXCEPT ![j].st = st]
Again(jobs, j, again, st) == [jobs EXCEPT ![j] =
    [NewJob(IF again THEN "queued" ELSE "failed") EXCEPT !.tries = st.tries, !.stalls = st.stalls]]

\* process() threw: BullMQ runs the job again while attempts are left.
Throw(jobs, j) ==
    Again(jobs, j, jobs[j].tries + 1 < ReviewAttempts, [jobs[j] EXCEPT !.tries = @ + 1])

\* The process died: the stalled check queues the job once more.
Stalled(jobs, j) == Again(jobs, j, jobs[j].stalls < 1, [jobs[j] EXCEPT !.stalls = @ + 1])

Running(job) == job.st \notin {"none", "queued", "done", "failed"}

-----------------------------------------------------------------------------
(* Jurisdiction evaluation.                                                *)
\* Parsing made the document AVAILABLE, or a user asked to re-evaluate.
QueueEvaluation(e) ==
    /\ evaluation[e].st = "none" /\ docRow.here
    /\ evaluation' = Set(evaluation, e, "queued")
    /\ UNCHANGED <<docRow, review, reviews, edit, everReviewed, reviewFaults>>

\* evaluateFromAllFiles: the model's answer, or the rules'.
Evaluate(e) ==
    /\ evaluation[e].st = "queued"
    /\ \E j \in Jurisdictions :
        evaluation' = [evaluation EXCEPT ![e].st = "evaluated", ![e].result = j]
    /\ UNCHANGED <<docRow, review, reviews, edit, everReviewed, reviewFaults>>

\* Mutant: a document that is not found is saved all the same.
MutantLoadDocument(e) ==
    /\ evaluation[e].st = "evaluated"
    /\ evaluation' = [evaluation EXCEPT ![e].st = "saving", ![e].row =
                          [docRow EXCEPT !.here = TRUE, !.jurisdiction = evaluation[e].result]]
    /\ UNCHANGED <<docRow, review, reviews, edit, everReviewed, reviewFaults>>

\* findOne, after the evaluation; nothing to do without the document.
LoadDocument(e) ==
    /\ evaluation[e].st = "evaluated"
    /\ evaluation' = IF docRow.here
                     THEN [evaluation EXCEPT ![e].st = "saving", ![e].result = "none",
                               ![e].row = [docRow EXCEPT !.jurisdiction = evaluation[e].result]]
                     ELSE [evaluation EXCEPT ![e] = NewJob("done")]
    /\ UNCHANGED <<docRow, review, reviews, edit, everReviewed, reviewFaults>>

\* save() writes every column that differs from the loaded entity, and
\* inserts the row again if it is gone. The RAG cache is invalidated next.
SaveDocument(e) ==
    /\ evaluation[e].st = "saving"
    /\ docRow' = evaluation[e].row
    /\ evaluation' = [evaluation EXCEPT ![e].st = "enqueueing", ![e].row = NoRow, ![e].result = "none"]
    /\ UNCHANGED <<review, reviews, edit, everReviewed, reviewFaults>>

\* The review is enqueued; a failure to do so is only logged.
EnqueueReview(e) ==
    /\ evaluation[e].st = "enqueueing"
    /\ evaluation' = [evaluation EXCEPT ![e] = NewJob("done")]
    /\ \/ /\ review' = IF review[e].st = "none" THEN Set(review, e, "queued") ELSE review
          /\ UNCHANGED reviewFaults
       \/ /\ reviewFaults < ReviewFaults /\ reviewFaults' = reviewFaults + 1
          /\ UNCHANGED review
    /\ UNCHANGED <<docRow, reviews, edit, everReviewed>>

-----------------------------------------------------------------------------
(* Document review.                                                        *)
Rerun(j) ==
    /\ j \in Reruns /\ review[j].st = "none" /\ docRow.here
    /\ review' = Set(review, j, "queued")
    /\ UNCHANGED <<docRow, evaluation, reviews, edit, everReviewed, reviewFaults>>

\* Mutant: a failure of the model ends a job without a review, unless forced.
MutantInspect(j) ==
    /\ review[j].st = "queued"
    /\ \/ docRow.here /\ \E m \in Models :
              review' = [review EXCEPT ![j].st = "looking", ![j].result = m,
                                       ![j].row.jurisdiction = docRow.jurisdiction]
       \/ docRow.here /\ j \notin Reruns /\ review' = [review EXCEPT ![j] = NewJob("done")]
       \/ review' = Throw(review, j)
    /\ UNCHANGED <<docRow, evaluation, reviews, edit, everReviewed, reviewFaults>>

\* runReview loads the document and its first parsed file, applies the rules
\* and asks the model; whatever the model does, a review comes out of it,
\* with no model if the provider threw.  It throws without the document, or
\* when none of its files is AVAILABLE with a text, as during an upload.
Inspect(j) ==
    /\ review[j].st = "queued"
    /\ \/ docRow.here /\ \E m \in Models :
              review' = [review EXCEPT ![j].st = "looking", ![j].result = m,
                                       ![j].row.jurisdiction = docRow.jurisdiction]
       \/ review' = Throw(review, j)
    /\ UNCHANGED <<docRow, evaluation, reviews, edit, everReviewed, reviewFaults>>

SameKey(m) == {r \in reviews : r.model = m}

\* Mutant: every run deletes the review it finds.
MutantLookUp(j) ==
    /\ review[j].st = "looking"
    /\ reviews' = reviews \ SameKey(review[j].result) /\ review' = Set(review, j, "inserting")
    /\ UNCHANGED <<docRow, evaluation, edit, everReviewed, reviewFaults>>

\* A forced run deletes the review of its key, another one re-uses it.
LookUp(j) ==
    LET m == review[j].result
    IN /\ review[j].st = "looking"
       /\ IF j \in Reruns
          THEN reviews' = reviews \ SameKey(m) /\ review' = Set(review, j, "inserting")
          ELSE /\ review' = IF SameKey(m) # {} THEN [review EXCEPT ![j] = NewJob("done")]
                            ELSE Set(review, j, "inserting")
               /\ UNCHANGED reviews
       /\ UNCHANGED <<docRow, evaluation, edit, everReviewed, reviewFaults>>

\* The merged issues are saved: the unique index or the foreign key may refuse.
InsertReview(j) ==
    LET m == review[j].result
        refused == SameKey(m) # {} \/ ~docRow.here
    IN /\ review[j].st = "inserting"
       /\ reviews' = IF refused THEN reviews
                     ELSE reviews \cup {[model |-> m, jurisdiction |-> review[j].row.jurisdiction]}
       /\ everReviewed' = (everReviewed \/ ~refused)
       /\ review' = IF refused THEN Throw(review, j) ELSE [review EXCEPT ![j] = NewJob("done")]
       /\ UNCHANGED <<docRow, evaluation, edit, reviewFaults>>

-----------------------------------------------------------------------------
(* Users and failures.                                                     *)
\* PATCH: update() loads the row, sets the title or the jurisdiction ...
StartEdit ==
    /\ ~edit.here /\ docRow.here
    /\ \/ edit' = [docRow EXCEPT !.title = 1]
       \/ \E j \in Jurisdictions \cup {"none"} : edit' = [docRow EXCEPT !.jurisdiction = j]
    /\ UNCHANGED <<docRow, evaluation, review, reviews, everReviewed>>

\* ... and saves what it loaded.
SaveEdit ==
    /\ edit.here
    /\ docRow' = edit
    /\ edit' = NoRow
    /\ UNCHANGED <<evaluation, review, reviews, everReviewed, reviewFaults>>

\* The reviews go with the document (ON DELETE CASCADE).
DeleteReviewedDocument ==
    /\ docRow.here
    /\ docRow' = NoRow /\ reviews' = {} /\ everReviewed' = FALSE
    /\ UNCHANGED <<evaluation, review, edit>>

ReviewFault ==
    /\ reviewFaults < ReviewFaults
    /\ reviewFaults' = reviewFaults + 1
    /\ \/ \E e \in Evaluations : /\ Running(evaluation[e])
                                 /\ evaluation' \in {Throw(evaluation, e), Stalled(evaluation, e)}
                                 /\ UNCHANGED <<docRow, review, reviews, edit, everReviewed>>
       \/ \E j \in ReviewJobs : /\ Running(review[j])
                                /\ review' \in {Throw(review, j), Stalled(review, j)}
                                /\ UNCHANGED <<docRow, evaluation, reviews, edit, everReviewed>>
       \/ StartEdit
       \/ DeleteReviewedDocument

EvaluationStep(e) == Evaluate(e) \/ LoadDocument(e) \/ SaveDocument(e) \/ EnqueueReview(e)
ReviewStep(j) == Inspect(j) \/ LookUp(j) \/ InsertReview(j)

ReviewNext ==
    \/ \E e \in Evaluations : QueueEvaluation(e) \/ EvaluationStep(e)
    \/ \E j \in ReviewJobs : Rerun(j) \/ ReviewStep(j)
    \/ SaveEdit
    \/ ReviewFault

(* Every process runs a worker of each queue, which goes on with some job. *)
ReviewFairness ==
    /\ WF_reviewVars(\E e \in Evaluations : EvaluationStep(e))
    /\ WF_reviewVars(\E j \in ReviewJobs : ReviewStep(j))

ReviewSpec == ReviewInit /\ [][ReviewNext]_reviewVars /\ ReviewFairness

-----------------------------------------------------------------------------
ReviewTypeOK ==
    LET Job(Results) == [st : {"none", "queued", "evaluated", "saving", "enqueueing", "looking",
                               "inserting", "done", "failed"},
                         tries : 0 .. ReviewAttempts, stalls : 0 .. 2,
                         result : Results \cup {"none"}, row : Row]
    IN /\ docRow \in Row /\ edit \in Row
       /\ evaluation \in [Evaluations -> Job(Jurisdictions)]
       /\ review \in [ReviewJobs -> Job(Models)]
       /\ reviews \in SUBSET [model : Models, jurisdiction : Jurisdictions \cup {"none"}]
       /\ everReviewed \in BOOLEAN
       /\ reviewFaults \in 0 .. ReviewFaults

(* A document that was reviewed is without a review only while a forced    *)
(* run has deleted it and is between the delete and the save, waits for    *)
(* another attempt, or has used them up.                                   *)
ReviewGapHasForcedRun ==
    docRow.here /\ everReviewed /\ reviews = {} =>
        \E j \in Reruns : review[j].st \in {"inserting", "queued", "looking", "failed"}

\* Deleted, and in no handler's hands.
Forgotten == ~docRow.here /\ ~edit.here /\ \A e \in Evaluations : evaluation[e].st # "saving"

(* A deleted document comes back only through a handler that had loaded it *)
(* before: once none holds a copy, it stays deleted, whatever is queued or *)
(* running.                                                                *)
DeletedStaysDeleted == [][Forgotten => Forgotten']_reviewVars

(* Once an evaluation has enqueued its review, the document gets one, or   *)
(* is deleted, or the job used up its attempts.                            *)
EvaluatedIsReviewed ==
    \A e \in Evaluations :
        review[e].st = "queued" ~> reviews # {} \/ ~docRow.here \/ review[e].st = "failed"
=============================================================================
