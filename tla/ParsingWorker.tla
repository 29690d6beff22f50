---------------------------- MODULE ParsingWorker ----------------------------
(***************************************************************************)
(* ParsingProcessor.process: extract the text of a file, enqueue its       *)
(* chunking, mark the file AVAILABLE, and publish the document once every  *)
(* file of it is ready.  Each action runs up to an await whose result      *)
(* another actor can change.  A save() of TypeORM inserts a row that is    *)
(* not there any more.                                                     *)
(***************************************************************************)
EXTENDS PipelineState

PSlot(s) == s[2] = "parsing"
PFile(s) == JobOf(s).file
ParsingRest == <<blobs, chunks, embedded, txns, lateTx, faults>>

\* Mutants: a guard that takes a redelivery for work already done.
MutantSkipAvailable(s) ==
    /\ PSlot(s) /\ At(s, "start")
    /\ Progress(s, IF file[PFile(s)] = "AVAILABLE" THEN "resolve" ELSE "text")
    /\ UNCHANGED <<doc, file, evaluation, ParsingRest>>

\* updateJobStatus(10), load the file and the document, updateJobStatus(20).
ParseStart(s) ==
    /\ PSlot(s) /\ At(s, "start")
    /\ Progress(s, IF file[PFile(s)] # "absent" /\ doc # "absent"
                   THEN "text" ELSE "catch")
    /\ UNCHANGED <<doc, file, evaluation, ParsingRest>>

Parsed(s) ==
    PFile(s) \in blobs /\ doc # "absent" /\ file[PFile(s)] # "absent"

\* Mutant: a retry takes the chunking job for enqueued already.
MutantParseText(s) ==
    /\ PSlot(s) /\ At(s, "text")
    /\ IF ~Parsed(s)
       THEN Throws(s) /\ UNCHANGED jobs
       ELSE IF FileText[PFile(s)] = "none" \/ JobOf(s).tries > 0
            THEN Progress(s, "complete")
            ELSE CreateJob(s, "chunking", {}, "complete")
    /\ UNCHANGED <<doc, file, evaluation, ParsingRest>>

\* Read the object, parse it, and store the text on the file row inside a
\* transaction that locks the document row.  Then updateJobStatus(80), and
\* enqueue the chunking of the text if there is any.
ParseText(s) ==
    /\ PSlot(s) /\ At(s, "text")
    /\ IF ~Parsed(s)
       THEN Throws(s) /\ UNCHANGED jobs
       ELSE IF FileText[PFile(s)] = "none"
            THEN Progress(s, "complete")
            ELSE CreateJob(s, "chunking", {}, "complete")
    /\ UNCHANGED <<doc, file, evaluation, ParsingRest>>

ParseAddThrows(s) ==
    /\ PSlot(s) /\ At(s, "text")
    /\ Parsed(s) /\ FileText[PFile(s)] # "none"
    /\ AddThrows(s, "chunking")

\* updateJobStatus(COMPLETED, 100); then markFileAvailable loads the file.
ParseComplete(s) ==
    /\ PSlot(s) /\ At(s, "complete")
    /\ Complete(s, IF file[PFile(s)] # "absent" THEN "save" ELSE "catch")
    /\ UNCHANGED <<doc, file, evaluation, ParsingRest>>

\* ... and save it AVAILABLE.  A file deleted in between is inserted again,
\* unless its document is gone too (foreign key).
ParseSave(s) ==
    /\ PSlot(s) /\ At(s, "save")
    /\ IF doc = "absent"
       THEN Throws(s) /\ UNCHANGED file
       ELSE Goto(s, "ready") /\ file' = [file EXCEPT ![PFile(s)] = "AVAILABLE"]
    /\ UNCHANGED <<doc, jobs, evaluation, ParsingRest>>

\* updateDocumentStatusIfReady: load the document with its files.
Present == {f \in Files : file[f] # "absent"}

FilesReady ==
    Present # {} /\ \A f \in Present : file[f] = "AVAILABLE"

KeepFiles(s, pc, fs) == run' = [run EXCEPT ![s].pc = pc, ![s].files = fs]

LoadFiles(s, ready) ==
    IF ready THEN KeepFiles(s, "publish", Present) ELSE Goto(s, "resolve")

\* Mutant: nothing to do for a document that is AVAILABLE already.
MutantParseReady(s) ==
    /\ PSlot(s) /\ At(s, "ready")
    /\ LoadFiles(s, doc = "PROCESSING" /\ FilesReady)
    /\ UNCHANGED <<doc, file, jobs, evaluation, ParsingRest>>

ParseReady(s) ==
    /\ PSlot(s) /\ At(s, "ready")
    /\ LoadFiles(s, doc # "absent" /\ FilesReady)
    /\ UNCHANGED <<doc, file, jobs, evaluation, ParsingRest>>

\* ... and save it AVAILABLE with those files.  A document deleted in between
\* is inserted again; a file uploaded in between is not among those files, so
\* the save would detach it from the document, which its column forbids.
ParsePublish(s) ==
    /\ PSlot(s) /\ At(s, "publish")
    /\ IF Present \subseteq run[s].files
       THEN doc' = "AVAILABLE" /\ KeepFiles(s, "evaluate", {})
       ELSE UNCHANGED doc /\ Throws(s)
    /\ UNCHANGED <<file, jobs, evaluation, ParsingRest>>

\* Enqueue the jurisdiction evaluation.
ParseEvaluate(s) ==
    /\ PSlot(s) /\ At(s, "evaluate")
    /\ evaluation' = TRUE
    /\ Goto(s, "resolve")
    /\ UNCHANGED <<doc, file, jobs, ParsingRest>>

ParsingStep(s) ==
    \/ ParseStart(s) \/ ParseText(s)  \/ ParseComplete(s) \/ ParseSave(s)
    \/ ParseReady(s) \/ ParsePublish(s) \/ ParseEvaluate(s)
=============================================================================
