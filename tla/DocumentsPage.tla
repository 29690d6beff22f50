---------------------------- MODULE DocumentsPage ----------------------------
(***************************************************************************)
(* The page with a workspace's documents: lists that are asked for again   *)
(* after every change and never cancelled, titles edited in place,         *)
(* deletions from a card or its menu, and the form of a new document with  *)
(* the prompt a model writes for it while the form can still be edited.    *)
(* Then the page of one document: its head, and the tab with its review.   *)
(***************************************************************************)
EXTENDS Naturals, FiniteSets

CONSTANTS PageDocs,      \* documents, created or to be created
          Titles,        \* titles a document may have
          Drafts,        \* descriptions typed into the form
          Loads,         \* bound: lists under way at once
          PageChanges    \* bound: creations, renames, deletions, generations, failures

VARIABLES library,       \* external: the title of each document the server has
          documents,     \* the cards shown
          loads,         \* loadDocuments calls
          renames,       \* titles on their way, and back
          deletions,     \* deleteDocument calls: sent, or done at the server
          deletingDocId,
          showCreateForm, newDocumentTitle, newDocumentDescription,
          creations,     \* createDocument calls: from the form or the dialog, sent or done
          loading,
          generating,    \* the descriptions prompts are being written for
          promptFor,     \* the dialog: the description its prompt was written for
          retyped,       \* history: the form changed since the last generation began
          crossed,       \* history: since the last list alone calls have crossed or one has failed
          pageChanges

formVars == <<showCreateForm, newDocumentTitle, newDocumentDescription, creations, loading,
              generating, promptFor, retyped>>
cardVars == <<library, documents, loads, renames, deletions, deletingDocId>>
pageVars == <<cardVars, formVars, crossed, pageChanges>>

NoTitle == "no title"
NoDoc == "no document"
NoDraft == "no draft"
ASSUME PageAssumption ==
    NoTitle \notin Titles /\ NoDoc \notin PageDocs /\ NoDraft \notin Drafts /\ PageChanges \in Nat

Cards == [PageDocs -> Titles \cup {NoTitle}]
NoCards == [d \in PageDocs |-> NoTitle]
Listed == {d \in PageDocs : documents[d] # NoTitle}
Stored == {d \in PageDocs : library[d] # NoTitle}
NotLoading == [st |-> "idle", rows |-> NoCards]
Asks == {l \in Loads : loads[l].st # "idle"}

PageInit ==
    /\ library \in Cards /\ documents = NoCards
    /\ \E l \in Loads : loads = [k \in Loads |-> [NotLoading EXCEPT !.st = IF k = l THEN "asked" ELSE "idle"]]
    /\ renames = {} /\ deletions = {} /\ deletingDocId = NoDoc
    /\ showCreateForm = FALSE /\ newDocumentTitle = FALSE /\ newDocumentDescription = NoDraft
    /\ creations = {} /\ loading = FALSE /\ generating = {} /\ promptFor = NoDraft
    /\ retyped = FALSE /\ crossed = FALSE /\ pageChanges = 0

PageChanged == pageChanges < PageChanges /\ pageChanges' = pageChanges + 1

\* The dialogs are modal: the page behind them takes no input.
Reachable == promptFor = NoDraft
Writing == renames # {} \/ deletions # {} \/ creations # {}

-----------------------------------------------------------------------------
(* The cards.                                                              *)
\* loadDocuments, beside those still under way; one that is alone starts afresh.
LoadDocuments ==
    /\ \E l \in Loads \ Asks : loads' = [loads EXCEPT ![l] = [NotLoading EXCEPT !.st = "asked"]]
    /\ crossed' = (Asks # {} \/ Writing')

ListRead(l) ==
    /\ loads[l].st = "asked"
    /\ loads' = [loads EXCEPT ![l] = [st |-> "read", rows |-> library]]
    /\ UNCHANGED <<library, documents, renames, deletions, deletingDocId, formVars, crossed, pageChanges>>

\* A list that fails leaves the cards as they are.
ListAnswers(l) ==
    /\ loads[l].st = "read"
    /\ loads' = [loads EXCEPT ![l] = NotLoading]
    /\ \/ documents' = loads[l].rows /\ UNCHANGED <<crossed, pageChanges>>
       \/ PageChanged /\ crossed' = TRUE /\ UNCHANGED documents
    /\ UNCHANGED <<library, renames, deletions, deletingDocId, formVars>>

OnDocumentTitleChange(d, title) ==
    /\ Reachable /\ d \in Listed /\ title # documents[d]
    /\ PageChanged
    /\ renames' = renames \cup {[doc |-> d, title |-> title, st |-> "sent"]}
    /\ crossed' = (crossed \/ Writing \/ Asks # {})
    /\ UNCHANGED <<library, documents, loads, deletions, deletingDocId, formVars>>

RenameStored(r) ==
    /\ r.st = "sent"
    /\ IF r.doc \in Stored
       THEN /\ library' = [library EXCEPT ![r.doc] = r.title]
            /\ renames' = (renames \ {r}) \cup {[r EXCEPT !.st = "stored"]}
       ELSE renames' = renames \ {r} /\ UNCHANGED library
    /\ UNCHANGED <<documents, loads, deletions, deletingDocId, formVars, crossed, pageChanges>>

\* The one card is changed, without a list.
RenameAnswers(r) ==
    /\ r.st = "stored"
    /\ renames' = renames \ {r}
    /\ documents' = IF r.doc \in Listed THEN [documents EXCEPT ![r.doc] = r.title] ELSE documents
    /\ UNCHANGED <<library, loads, deletions, deletingDocId, formVars, crossed, pageChanges>>

\* A rename fails, before or after the server has stored it: the card stays.
RenameFails(r) ==
    /\ PageChanged
    /\ renames' = renames \ {r} /\ crossed' = (crossed \/ r.st = "stored")
    /\ UNCHANGED <<library, documents, loads, deletions, deletingDocId, formVars>>

\* From the card, whose button waits for the last deletion, or from its menu.
DeleteDocument(d, fromMenu) ==
    /\ Reachable /\ d \in Listed /\ ~\E e \in deletions : e.doc = d
    /\ fromMenu \/ deletingDocId = NoDoc
    /\ PageChanged
    /\ deletingDocId' = d
    /\ deletions' = deletions \cup {[doc |-> d, st |-> "sent"]}
    /\ crossed' = (crossed \/ Writing \/ Asks # {})
    /\ UNCHANGED <<library, documents, loads, renames, formVars>>

DocumentDeleted(e) ==
    /\ e.st = "sent"
    /\ library' = [library EXCEPT ![e.doc] = NoTitle]
    /\ deletions' = (deletions \ {e}) \cup {[e EXCEPT !.st = "done"]}
    /\ UNCHANGED <<documents, loads, renames, deletingDocId, formVars, crossed, pageChanges>>

DeletionAnswers(e) ==
    /\ e.st = "done"
    /\ deletions' = deletions \ {e} /\ deletingDocId' = NoDoc
    /\ UNCHANGED <<library, documents, renames, formVars, pageChanges>>
    /\ LoadDocuments

\* A deletion fails, before or after it is done: no list is asked for.
DeletionFails(e) ==
    /\ PageChanged
    /\ deletions' = deletions \ {e} /\ deletingDocId' = NoDoc
    /\ crossed' = (crossed \/ e.st = "done")
    /\ UNCHANGED <<library, documents, loads, renames, formVars>>

-----------------------------------------------------------------------------
(* The form.                                                               *)
OpenCreateForm ==
    /\ Reachable /\ ~showCreateForm
    /\ showCreateForm' = TRUE
    /\ UNCHANGED <<cardVars, newDocumentTitle, newDocumentDescription, creations, loading, generating,
                   promptFor, retyped, crossed, pageChanges>>

\* The fields take input while a prompt is written or the document created.
OnDescriptionInput(draft) ==
    /\ Reachable /\ showCreateForm /\ draft # newDocumentDescription
    /\ newDocumentDescription' = draft /\ newDocumentTitle' = TRUE /\ retyped' = TRUE
    /\ UNCHANGED <<cardVars, showCreateForm, creations, loading, generating, promptFor,
                   crossed, pageChanges>>

\* The button hides the form with what it holds; a generation goes on.
CancelForm ==
    /\ Reachable /\ showCreateForm /\ ~loading
    /\ showCreateForm' = FALSE
    /\ UNCHANGED <<cardVars, newDocumentTitle, newDocumentDescription, creations, loading, generating,
                   promptFor, retyped, crossed, pageChanges>>

\* Mutant: the button can be pressed again while a prompt is written.
MutantOnGeneratePrompt ==
    /\ newDocumentDescription # NoDraft
    /\ generating' = generating \cup {newDocumentDescription} /\ promptFor' = NoDraft
    /\ retyped' = FALSE
    /\ PageChanged
    /\ UNCHANGED <<cardVars, showCreateForm, newDocumentTitle, newDocumentDescription, creations,
                   loading, crossed>>

OnGeneratePrompt ==
    /\ generating = {} /\ newDocumentDescription # NoDraft
    /\ generating' = {newDocumentDescription} /\ promptFor' = NoDraft
    /\ retyped' = FALSE
    /\ PageChanged
    /\ UNCHANGED <<cardVars, showCreateForm, newDocumentTitle, newDocumentDescription, creations,
                   loading, crossed>>

\* The form's button, or "recreate" in the dialog.
GenerateFromForm == Reachable /\ showCreateForm /\ ~loading /\ OnGeneratePrompt
RecreatePrompt == promptFor # NoDraft /\ OnGeneratePrompt

\* The dialog opens over whatever the page shows by then, or writing fails.
PromptGenerated(draft) ==
    /\ draft \in generating
    /\ generating' = generating \ {draft} /\ promptFor' \in {draft, promptFor}
    /\ UNCHANGED <<cardVars, showCreateForm, newDocumentTitle, newDocumentDescription, creations,
                   loading, retyped, crossed, pageChanges>>

ClosePromptDialog ==
    /\ promptFor # NoDraft
    /\ promptFor' = NoDraft
    /\ UNCHANGED <<cardVars, showCreateForm, newDocumentTitle, newDocumentDescription, creations,
                   loading, generating, retyped, crossed, pageChanges>>

Sends(fromDialog) ==
    /\ newDocumentTitle /\ PageChanged
    /\ creations' = creations \cup {[call |-> pageChanges', fromDialog |-> fromDialog, st |-> "sent"]}
    /\ loading' = TRUE
    /\ crossed' = (crossed \/ Writing \/ Asks # {})
    /\ UNCHANGED <<cardVars, showCreateForm, newDocumentTitle, newDocumentDescription, generating, retyped>>

\* createDocument: the form's button.
CreateDocument == Reachable /\ showCreateForm /\ ~loading /\ Sends(FALSE) /\ UNCHANGED promptFor

\* doCreateDocument: the dialog's buttons, with the prompt or without. It ends
\* in nothing without a title, and does not ask whether the form was sent.
DoCreateDocument == promptFor # NoDraft /\ Sends(TRUE) /\ promptFor' = NoDraft

DocumentCreated(c) ==
    /\ c.st = "sent"
    /\ \E d \in PageDocs \ Stored, title \in Titles : library' = [library EXCEPT ![d] = title]
    /\ creations' = (creations \ {c}) \cup {[c EXCEPT !.st = "done"]}
    /\ UNCHANGED <<documents, loads, renames, deletions, deletingDocId, showCreateForm, newDocumentTitle,
                   newDocumentDescription, loading, generating, promptFor, retyped, crossed, pageChanges>>

\* The form is emptied, whatever was typed since it was sent.
CreationAnswers(c) ==
    /\ c.st = "done"
    /\ creations' = creations \ {c} /\ loading' = FALSE /\ showCreateForm' = FALSE
    /\ newDocumentTitle' = FALSE /\ newDocumentDescription' = NoDraft /\ retyped' = TRUE
    /\ promptFor' = IF c.fromDialog THEN NoDraft ELSE promptFor
    /\ UNCHANGED <<library, documents, renames, deletions, deletingDocId, generating, pageChanges>>
    /\ LoadDocuments

\* A creation fails, before or after it is done: the form and the cards stay.
CreationFails(c) ==
    /\ PageChanged
    /\ creations' = creations \ {c} /\ loading' = FALSE
    /\ crossed' = (crossed \/ c.st = "done")
    /\ UNCHANGED <<cardVars, showCreateForm, newDocumentTitle, newDocumentDescription, generating,
                   promptFor, retyped>>

PageNext ==
    \/ \E l \in Loads : ListRead(l) \/ ListAnswers(l)
    \/ \E d \in PageDocs :
           \/ \E title \in Titles : OnDocumentTitleChange(d, title)
           \/ \E fromMenu \in BOOLEAN : DeleteDocument(d, fromMenu)
    \/ \E r \in renames : RenameStored(r) \/ RenameAnswers(r) \/ RenameFails(r)
    \/ \E e \in deletions : DocumentDeleted(e) \/ DeletionAnswers(e) \/ DeletionFails(e)
    \/ OpenCreateForm \/ CancelForm \/ GenerateFromForm \/ RecreatePrompt \/ ClosePromptDialog
    \/ \E draft \in Drafts : OnDescriptionInput(draft) \/ PromptGenerated(draft)
    \/ CreateDocument \/ DoCreateDocument
    \/ \E c \in creations : DocumentCreated(c) \/ CreationAnswers(c) \/ CreationFails(c)

PageSpec == PageInit /\ [][PageNext]_pageVars

-----------------------------------------------------------------------------
PageTypeOK ==
    /\ library \in Cards /\ documents \in Cards
    /\ loads \in [Loads -> [st : {"idle", "asked", "read"}, rows : Cards]]
    /\ renames \subseteq [doc : PageDocs, title : Titles, st : {"sent", "stored"}]
    /\ deletions \subseteq [doc : PageDocs, st : {"sent", "done"}]
    /\ deletingDocId \in PageDocs \cup {NoDoc}
    /\ {showCreateForm, newDocumentTitle, retyped, crossed} \subseteq BOOLEAN
    /\ {newDocumentDescription, promptFor} \subseteq Drafts \cup {NoDraft}
    /\ creations \subseteq [call : 1 .. PageChanges, fromDialog : BOOLEAN, st : {"sent", "done"}]
    /\ loading \in BOOLEAN /\ generating \subseteq Drafts
    /\ pageChanges \in 0 .. PageChanges

(* With nothing under way the cards are the documents the server has, with *)
(* their titles, as far as this page changes them, unless since the last   *)
(* list that ran alone two changes or lists ran beside each other, a list  *)
(* failed, or a change failed that the server had done.                    *)
CardsAreCurrent == Asks = {} /\ ~Writing /\ ~crossed => documents = library

(* The prompt the dialog offers was written for the description the        *)
(* document would be created with, unless the form was edited, or emptied  *)
(* by a creation, after that generation had begun.                         *)
PromptFitsDocument ==
    promptFor # NoDraft /\ ~retyped => promptFor = newDocumentDescription
-----------------------------------------------------------------------------
(* The page of one document: its head with title and law, and the tab with *)
(* its review.  Each edit sends one field, which the server sets in the    *)
(* row it has loaded and saves as a whole.                                 *)
CONSTANTS Laws,         \* jurisdictions of the drop-down, the empty one too
          HeadSteps     \* bound: the user's edits, failures, the workers' results

ASSUME HeadAssumption == Laws # {} /\ HeadSteps \in Nat

VARIABLES docSaved, docShown,    \* the row, external, and document()
          headCalls,             \* loads and updates: asked, loaded, done
          jurisdictionReEvaluating,
          evaluating,            \* external: evaluations queued or running
          headCrossed,           \* history: since the last load alone, calls have crossed
          reviewSaved, reviewShown,   \* the review there is, by number, 0 is none
          reviewLoads,           \* load(): asked, read
          reviewLoading, reviewLoaded,
          rerunning,             \* no, sent, waiting for the timer
          rerunJobs,             \* external: runs queued
          lastReview,            \* external: the last review's number
          reviewMoved,           \* history: since the last read a run has ended
          headSteps

headVars == <<docSaved, docShown, headCalls, jurisdictionReEvaluating, evaluating, headCrossed>>
tabVars == <<reviewShown, reviewLoads, reviewLoading, reviewLoaded, rerunning>>
runVars == <<reviewSaved, rerunJobs, lastReview, reviewMoved>>
reviewVars == <<tabVars, runVars>>
onePageVars == <<headVars, reviewVars, headSteps>>

PageHead == [title : Titles \cup {NoTitle}, law : Laws]
NoHead == [title |-> NoTitle, law |-> CHOOSE l \in Laws : TRUE]
NoReview == 0

HeadCall(op, head) == [op |-> op, head |-> head, st |-> "asked", nr |-> headSteps]

HeadInit ==
    /\ docSaved \in [title : Titles, law : Laws] /\ docShown = NoHead
    /\ headSteps = 0 /\ headCalls = {HeadCall("load", NoHead)}
    /\ jurisdictionReEvaluating = FALSE /\ evaluating = FALSE /\ headCrossed = FALSE
    /\ reviewSaved \in {NoReview, 1} /\ reviewShown = NoReview /\ lastReview = reviewSaved
    /\ reviewLoads = {} /\ reviewLoading = FALSE /\ reviewLoaded = FALSE /\ rerunning = "no"
    /\ rerunJobs = 1 - reviewSaved /\ reviewMoved = TRUE

HeadStep == headSteps < HeadSteps /\ headSteps' = headSteps + 1

\* A load that is alone starts afresh.
Calls(others, c) ==
    /\ headCalls' = others \cup {c}
    /\ headCrossed' = IF c.op = "load" THEN others # {} ELSE headCrossed \/ others # {}

\* onDocumentTitleChange, onJurisdictionChange
EditHead(op, head) ==
    /\ docShown # NoHead /\ HeadStep
    /\ \/ op = "title" /\ head.law = docShown.law /\ head.title \notin {docShown.title, NoTitle}
       \/ op = "law" /\ head.title = docShown.title /\ head.law # docShown.law
    /\ Calls(headCalls, HeadCall(op, head))
    /\ UNCHANGED <<docSaved, docShown, jurisdictionReEvaluating, evaluating, reviewVars>>

OnReEvaluateJurisdiction ==
    /\ ~jurisdictionReEvaluating /\ docShown # NoHead /\ HeadStep
    /\ jurisdictionReEvaluating' = TRUE
    /\ Calls(headCalls, HeadCall("reevaluate", NoHead))
    /\ UNCHANGED <<docSaved, docShown, evaluating, reviewVars>>

Replace(c, d) == headCalls' = (headCalls \ {c}) \cup {d}

\* update: findById, and save of the row; getDocument; reEvaluateJurisdiction.
ServeHead(c) ==
    /\ \/ /\ c.st = "asked" /\ c.op \in {"title", "law"}
          /\ Replace(c, [c EXCEPT !.st = "loaded", !.head =
                IF c.op = "title" THEN [docSaved EXCEPT !.title = c.head.title]
                                  ELSE [docSaved EXCEPT !.law = c.head.law]])
          /\ UNCHANGED <<docSaved, evaluating>>
       \/ /\ c.st = "loaded" /\ docSaved' = c.head
          /\ Replace(c, [c EXCEPT !.st = "done"]) /\ UNCHANGED evaluating
       \/ /\ c.st = "asked" /\ c.op = "load"
          /\ Replace(c, [c EXCEPT !.st = "done", !.head = docSaved]) /\ UNCHANGED <<docSaved, evaluating>>
       \/ /\ c.st = "asked" /\ c.op = "reevaluate" /\ evaluating' = TRUE
          /\ Replace(c, [c EXCEPT !.st = "done"]) /\ UNCHANGED docSaved
    /\ UNCHANGED <<docShown, jurisdictionReEvaluating, headCrossed, reviewVars, headSteps>>

\* An answer sets the field it was for; a re-evaluation that is queued reloads.
HeadAnswers(c) ==
    /\ c.st = "done"
    /\ docShown' = CASE c.op = "load" -> c.head
                     [] c.op = "title" -> [docShown EXCEPT !.title = c.head.title]
                     [] c.op = "law" -> [docShown EXCEPT !.law = c.head.law]
                     [] c.op = "reevaluate" -> docShown
    /\ IF c.op = "reevaluate"
       THEN jurisdictionReEvaluating' = FALSE /\ Calls(headCalls \ {c}, HeadCall("load", NoHead))
       ELSE headCalls' = headCalls \ {c} /\ UNCHANGED <<jurisdictionReEvaluating, headCrossed>>
    /\ UNCHANGED <<docSaved, evaluating, reviewVars, headSteps>>

\* A failure, before or after the server has done it.
HeadFails(c) ==
    /\ HeadStep /\ headCalls' = headCalls \ {c}
    /\ headCrossed' = (headCrossed \/ c.op = "load" \/ c.st # "asked")
    /\ jurisdictionReEvaluating' = (jurisdictionReEvaluating /\ c.op # "reevaluate")
    /\ UNCHANGED <<docSaved, docShown, evaluating, reviewVars>>

\* External: the worker writes its result; nothing tells the page.
EvaluationEnds(law) ==
    /\ evaluating /\ evaluating' = FALSE
    /\ docSaved' = [docSaved EXCEPT !.law = law] /\ headCrossed' = TRUE
    /\ UNCHANGED <<docShown, headCalls, jurisdictionReEvaluating, reviewVars, headSteps>>

\* onTabChange loads the first time, the button's timer afterwards.
LoadReview ==
    /\ reviewLoads' = reviewLoads \cup {[nr |-> headSteps, st |-> "asked", review |-> NoReview]}
    /\ reviewLoading' = TRUE

OnTabChange ==
    /\ ~reviewLoaded /\ reviewLoaded' = TRUE /\ LoadReview
    /\ UNCHANGED <<headVars, runVars, reviewShown, rerunning, headSteps>>

\* The button is disabled while a review is loaded.
OnRerunClicked ==
    /\ reviewLoaded /\ ~reviewLoading /\ rerunning = "no" /\ HeadStep
    /\ rerunning' = "sent"
    /\ UNCHANGED <<headVars, runVars, reviewShown, reviewLoads, reviewLoading, reviewLoaded>>

\* rerunReview queues the job; 4 s after its answer the tab loads.
RerunQueued ==
    /\ rerunning = "sent"
    /\ \/ rerunning' = "waiting" /\ rerunJobs' = rerunJobs + 1 /\ UNCHANGED headSteps
       \/ rerunning' = "no" /\ HeadStep /\ UNCHANGED rerunJobs
    /\ UNCHANGED <<headVars, reviewShown, reviewLoads, reviewLoading, reviewLoaded, reviewSaved,
                   lastReview, reviewMoved>>

RerunTimerFires ==
    /\ rerunning = "waiting" /\ rerunning' = "no" /\ LoadReview
    /\ UNCHANGED <<headVars, runVars, reviewShown, reviewLoaded, headSteps>>

\* External: a run deletes the review it finds, and saves its own or fails.
RunDeletes ==
    /\ rerunJobs > 0 /\ reviewSaved # NoReview
    /\ reviewSaved' = NoReview /\ reviewMoved' = TRUE
    /\ UNCHANGED <<headVars, tabVars, rerunJobs, lastReview, headSteps>>

RunEnds ==
    /\ rerunJobs > 0 /\ reviewSaved = NoReview /\ rerunJobs' = rerunJobs - 1
    /\ \/ lastReview' = lastReview + 1 /\ reviewSaved' = lastReview' /\ reviewMoved' = TRUE
       \/ UNCHANGED <<lastReview, reviewSaved, reviewMoved>>
    /\ UNCHANGED <<headVars, tabVars, headSteps>>

\* getReview: 404 is no review.
ReviewRead(l) ==
    /\ l.st = "asked"
    /\ reviewLoads' = (reviewLoads \ {l}) \cup {[l EXCEPT !.st = "read", !.review = reviewSaved]}
    /\ reviewMoved' = FALSE
    /\ UNCHANGED <<headVars, reviewShown, reviewLoading, reviewLoaded, rerunning, reviewSaved, rerunJobs,
                   lastReview, headSteps>>

\* A failure shows its error and keeps the review.
ReviewAnswers(l) ==
    /\ l.st = "read" /\ reviewLoads' = reviewLoads \ {l} /\ reviewLoading' = FALSE
    /\ \/ reviewShown' = l.review /\ UNCHANGED <<reviewMoved, headSteps>>
       \/ HeadStep /\ reviewMoved' = TRUE /\ UNCHANGED reviewShown
    /\ UNCHANGED <<headVars, reviewLoaded, rerunning, reviewSaved, rerunJobs, lastReview>>

HeadNext ==
    \/ \E op \in {"title", "law"}, head \in PageHead : EditHead(op, head)
    \/ OnReEvaluateJurisdiction
    \/ \E c \in headCalls : ServeHead(c) \/ HeadAnswers(c) \/ HeadFails(c)
    \/ \E law \in Laws : EvaluationEnds(law)

ReviewTabNext ==
    \/ OnTabChange \/ OnRerunClicked \/ RerunQueued \/ RerunTimerFires \/ RunDeletes \/ RunEnds
    \/ \E l \in reviewLoads : ReviewRead(l) \/ ReviewAnswers(l)

HeadSpec == HeadInit /\ [][HeadNext \/ ReviewTabNext]_onePageVars

HeadTypeOK ==
    /\ {docSaved, docShown} \subseteq PageHead
    /\ headCalls \subseteq [op : {"load", "title", "law", "reevaluate"}, head : PageHead,
                            st : {"asked", "loaded", "done"}, nr : 0 .. HeadSteps]
    /\ {jurisdictionReEvaluating, evaluating, headCrossed, reviewLoading, reviewLoaded, reviewMoved}
          \subseteq BOOLEAN
    /\ {reviewSaved, reviewShown} \subseteq 0 .. lastReview /\ lastReview \in 0 .. HeadSteps + 1
    /\ reviewLoads \subseteq [nr : 0 .. HeadSteps, st : {"asked", "read"}, review : 0 .. lastReview]
    /\ rerunning \in {"no", "sent", "waiting"} /\ rerunJobs \in 0 .. HeadSteps + 1
    /\ headSteps \in 0 .. HeadSteps

(* With no call under way the head shows the title and the law of the row, *)
(* unless since its last load alone calls have crossed, one has failed or  *)
(* an evaluation has ended.                                                *)
HeadShowsTheRow == headCalls = {} /\ ~headCrossed => docShown = docSaved

(* With no load under way the tab shows the review there is, unless a run  *)
(* ended since the tab last asked, and never an older one: the flags keep  *)
(* its loads apart.                                                        *)
TabShowsTheReview == reviewLoads = {} /\ ~reviewMoved => reviewShown = reviewSaved
=============================================================================
