------------------------------ MODULE FileList ------------------------------
(***************************************************************************)
(* The table of a document's files: the search box with its debounce, the  *)
(* parameters and the request made of them, the answer on its way, and the *)
(* uploads and deletions that reload it.  The server is read when a        *)
(* request reaches it; a newer request drops the answer of an older one.   *)
(* Beside it, the dialog that asks for the parser of the files uploaded.   *)
(***************************************************************************)
EXTENDS Naturals, FiniteSets, Sequences

CONSTANTS MaxFile,    \* bound: files uploaded, numbered in the table's order
          PageLimit,  \* rows of a page
          Texts,      \* what is typed; "" is nothing
          Matching,   \* the files a text finds
          Changes     \* bound: uploads, deletions, failures

ASSUME FileListAssumption ==
    /\ MaxFile \in Nat /\ PageLimit \in Nat \ {0} /\ Changes \in Nat /\ "" \in Texts
    /\ Matching \in [Texts -> SUBSET (1 .. MaxFile)] /\ Matching[""] = 1 .. MaxFile

VARIABLES stored,       \* external: the files of the document
          typed,        \* internalValue of the search box
          debounced,    \* the text that waits for the debounce to end
          lastTyped,    \* the last one it let through (distinctUntilChanged)
          query, scope, \* fileSearchQuery, fileSearchScope
          filesParams, filesRequest,
          answer,       \* the request's way: asked, read, shown
          files,        \* the rows shown
          selectedFiles,
          upload,       \* a batch: none, sent, stored
          reloadTimer,  \* the 150 ms after an upload
          removal,      \* a deletion (bound: one at a time): its files, and those still to delete
          removed,      \* history: deletions the server has confirmed
          disturbed,    \* history: since then the box and the request may differ
          changes

searchVars == <<typed, debounced, lastTyped, query, scope>>
listVars == <<filesParams, filesRequest, answer, files, selectedFiles>>
fileListVars == <<stored, searchVars, listVars, upload, reloadTimer, removal, removed, disturbed, changes>>

None == "nothing"
Scopes == {"all", "createdAt"}
NoRemoval == [ids |-> {}, left |-> {}]
ASSUME NoneTyped == None \notin Texts

Params == [page : 0 .. MaxFile, q : Texts]

\* A text that is no date filters nothing when it is searched as one.
SearchedFor(text, where) == IF where = "all" THEN text ELSE ""

\* getDocumentFilesPaginated
Page(p) ==
    LET found == stored \cap Matching[p.q]
        rank(f) == Cardinality({g \in found : g < f})
    IN  {f \in found : rank(f) \div PageLimit = p.page}

Request(p) == filesRequest' = p /\ answer' = [st |-> "asked", rows |-> {}]

FileListInit ==
    /\ stored \in SUBSET (1 .. MaxFile)
    /\ typed = "" /\ debounced = None /\ lastTyped = None /\ query = "" /\ scope = "all"
    /\ filesParams = [page |-> 0, q |-> ""] /\ filesRequest = filesParams
    /\ answer = [st |-> "asked", rows |-> {}] /\ files = {} /\ selectedFiles = {}
    /\ upload = "none" /\ reloadTimer = FALSE /\ removal = NoRemoval /\ removed = {}
    /\ disturbed = FALSE /\ changes = 0

\* A new request settles what was disturbed, but for a timer that is to come
\* and a box that shows another text than the page was told.
Unsettled == reloadTimer \/ (disturbed /\ typed' # query')

Changed == changes < Changes /\ changes' = changes + 1

-----------------------------------------------------------------------------
(* The search box.                                                         *)
\* applyFileSearch; the box then shows what the page was told.
ApplyFileSearch(text, where) ==
    LET p == [page |-> 0, q |-> SearchedFor(text, where)]
    IN  /\ query' = text /\ scope' = where
        /\ typed' = IF text # query THEN text ELSE typed
        /\ IF p = filesParams
           THEN UNCHANGED <<filesParams, filesRequest, answer, disturbed>>
           ELSE /\ filesParams' = p /\ Request(p)
                /\ disturbed' = Unsettled

Type(text) ==
    /\ text # typed
    /\ typed' = text /\ debounced' = text
    /\ UNCHANGED <<stored, lastTyped, query, scope, listVars, upload, reloadTimer, removal, removed,
                   disturbed, changes>>

DebounceEnds ==
    /\ debounced # None
    /\ debounced' = None /\ lastTyped' = debounced
    /\ IF debounced # lastTyped THEN ApplyFileSearch(debounced, scope)
       ELSE /\ disturbed' = (disturbed \/ query # debounced)
            /\ UNCHANGED <<typed, query, scope, filesParams, filesRequest, answer>>
    /\ UNCHANGED <<stored, files, selectedFiles, upload, reloadTimer, removal, removed, changes>>

\* The button empties the box at once; a text that waits still comes.
Clear ==
    /\ typed # ""
    /\ LET p == [page |-> 0, q |-> ""]
       IN  /\ typed' = "" /\ query' = ""
           /\ IF p = filesParams THEN UNCHANGED <<filesParams, filesRequest, answer, disturbed>>
              ELSE filesParams' = p /\ Request(p) /\ disturbed' = Unsettled
    /\ UNCHANGED <<stored, debounced, lastTyped, scope, files, selectedFiles, upload, reloadTimer,
                   removal, removed, changes>>

OnFileSearchScopeChange(where) ==
    /\ where # scope
    /\ ApplyFileSearch(query, where)
    /\ UNCHANGED <<stored, debounced, lastTyped, files, selectedFiles, upload, reloadTimer, removal,
                   removed, changes>>

\* The table asks for a page, within the total it was told.
UpdateFilesParamsFromLazyEvent(page) ==
    LET p == [page |-> page, q |-> SearchedFor(query, scope)]
    IN  /\ answer.st = "shown" /\ p # filesParams
        /\ page \in {0, filesParams.page - 1, filesParams.page + 1}
        /\ page > filesParams.page => Cardinality(files) = PageLimit
        /\ UNCHANGED searchVars
        /\ filesParams' = p /\ Request(p)
        /\ disturbed' = Unsettled
        /\ UNCHANGED <<stored, files, selectedFiles, upload, reloadTimer, removal, removed, changes>>

-----------------------------------------------------------------------------
(* The request, and what reloads it.                                       *)
ServerReads ==
    /\ answer.st = "asked"
    /\ answer' = [st |-> "read", rows |-> Page(filesRequest)]
    /\ UNCHANGED <<stored, searchVars, filesParams, filesRequest, files, selectedFiles, upload,
                   reloadTimer, removal, removed, disturbed, changes>>

\* While a request is under way, and when it fails, no rows are shown.
FilesShown ==
    /\ answer.st = "read"
    /\ \/ files' = answer.rows /\ UNCHANGED changes
       \/ files' = {} /\ Changed
    /\ answer' = [st |-> "shown", rows |-> {}]
    /\ UNCHANGED <<stored, searchVars, filesParams, filesRequest, selectedFiles, upload, reloadTimer,
                   removal, removed, disturbed>>

Select(chosen) ==
    /\ answer.st = "shown" /\ chosen # selectedFiles
    /\ selectedFiles' = chosen
    /\ UNCHANGED <<stored, searchVars, filesParams, filesRequest, answer, files, upload, reloadTimer,
                   removal, removed, disturbed, changes>>

\* confirmParserSelection; another batch waits for this one.
ConfirmUpload ==
    /\ upload = "none" /\ Changed
    /\ upload' = "sent"
    /\ UNCHANGED <<stored, searchVars, listVars, reloadTimer, removal, removed, disturbed>>

UploadStored ==
    /\ upload = "sent" /\ upload' = "stored"
    /\ stored' \in {stored} \cup {stored \cup {f} : f \in 1 .. MaxFile \ removed}
    /\ UNCHANGED <<searchVars, listVars, reloadTimer, removal, removed, disturbed, changes>>

\* The reload is of the first page, without the search.
UploadDone ==
    /\ upload = "stored" /\ upload' = "none"
    /\ filesParams' = [page |-> 0, q |-> ""] /\ reloadTimer' = TRUE
    /\ disturbed' = (disturbed \/ SearchedFor(query, scope) # "")
    /\ UNCHANGED <<stored, searchVars, filesRequest, answer, files, selectedFiles, removal, removed,
                   changes>>

ReloadTimerFires ==
    /\ reloadTimer /\ reloadTimer' = FALSE
    /\ Request([page |-> 0, q |-> ""])
    /\ disturbed' = (disturbed \/ filesParams # [page |-> 0, q |-> ""])
    /\ UNCHANGED <<stored, searchVars, filesParams, files, selectedFiles, upload, removal, removed,
                   changes>>

\* deleteFile of a row, deleteSelectedFiles of the selection, confirmed.
DeleteFiles(ids) ==
    /\ removal = NoRemoval /\ ids # {} /\ Changed
    /\ \/ ids = selectedFiles
       \/ \E f \in files : ids = {f} /\ answer.st = "shown"
    /\ removal' = [ids |-> ids, left |-> ids]
    /\ UNCHANGED <<stored, searchVars, listVars, upload, reloadTimer, removed, disturbed>>

\* A single deletion that fails reloads nothing.
Several == Cardinality(removal.ids) > 1
ServerDeletes(f) ==
    /\ f \in removal.left
    /\ \/ /\ stored' = stored \ {f} /\ removed' = removed \cup {f}
          /\ removal' = [removal EXCEPT !.left = @ \ {f}] /\ UNCHANGED changes
       \/ /\ removal' = IF Several THEN [removal EXCEPT !.left = @ \ {f}] ELSE NoRemoval
          /\ Changed /\ UNCHANGED <<stored, removed>>
    /\ UNCHANGED <<searchVars, listVars, upload, reloadTimer, disturbed>>

\* Mutant: the reload asks for the page and forgets the search, as the one
\* after an upload does.
MutantDeletionDone ==
    LET p == [page |-> 0, q |-> ""]
    IN  /\ removal # NoRemoval /\ removal.left = {}
        /\ removal' = NoRemoval
        /\ selectedFiles' = IF Several THEN {} ELSE selectedFiles \ removal.ids
        /\ filesParams' = p /\ Request(p)
        /\ UNCHANGED <<stored, searchVars, files, upload, reloadTimer, removed, disturbed, changes>>

DeletionDone ==
    LET p == [filesParams EXCEPT !.page = 0]
    IN  /\ removal # NoRemoval /\ removal.left = {}
        /\ removal' = NoRemoval
        /\ selectedFiles' = IF Several THEN {} ELSE selectedFiles \ removal.ids
        /\ filesParams' = p /\ Request(p)
        /\ UNCHANGED <<stored, searchVars, files, upload, reloadTimer, removed, disturbed, changes>>

FileListNext ==
    \/ \E text \in Texts : Type(text)
    \/ DebounceEnds \/ Clear
    \/ \E where \in Scopes : OnFileSearchScopeChange(where)
    \/ \E page \in 0 .. MaxFile : UpdateFilesParamsFromLazyEvent(page)
    \/ ServerReads \/ FilesShown
    \/ \E chosen \in SUBSET files : Select(chosen)
    \/ ConfirmUpload \/ UploadStored \/ UploadDone \/ ReloadTimerFires
    \/ \E ids \in SUBSET (files \cup selectedFiles) : DeleteFiles(ids)
    \/ \E f \in removal.left : ServerDeletes(f)
    \/ DeletionDone

FileListSpec == FileListInit /\ [][FileListNext]_fileListVars

-----------------------------------------------------------------------------
FileListTypeOK ==
    /\ {stored, files, selectedFiles, removed} \subseteq SUBSET (1 .. MaxFile)
    /\ {typed, query} \subseteq Texts /\ {debounced, lastTyped} \subseteq Texts \cup {None}
    /\ scope \in Scopes /\ {filesParams, filesRequest} \subseteq Params
    /\ answer \in [st : {"asked", "read", "shown"}, rows : SUBSET (1 .. MaxFile)]
    /\ upload \in {"none", "sent", "stored"}
    /\ removal \in [ids : SUBSET (1 .. MaxFile), left : SUBSET (1 .. MaxFile)]
    /\ {reloadTimer, disturbed} \subseteq BOOLEAN /\ changes \in 0 .. Changes

Quiet == debounced = None /\ ~reloadTimer /\ answer.st = "shown"

(* At rest the table lists what the search box says, whatever typing,      *)
(* paging, deletions and answers have crossed, unless an upload dropped    *)
(* the search, one ran into a change of the table within its 150 ms, or a  *)
(* text was typed again after the box had been cleared.                    *)
TableListsTheSearch ==
    Quiet /\ ~disturbed =>
        filesRequest = filesParams /\ filesRequest.q = SearchedFor(typed, scope)

(* A file whose deletion this page was told of is not among the rows, even *)
(* when a list read before the deletion was still on its way.              *)
DeletedFileIsGone == answer.st = "shown" /\ removal = NoRemoval => files \cap removed = {}
-----------------------------------------------------------------------------
(* The dialog that asks for a parser, the batch it sends, and the parser   *)
(* the server then takes.  The dialog is up at once; what there is to      *)
(* choose comes later, and no opening drops the answer of an older one.    *)
CONSTANTS
    PickFiles,     \* the files the user picks, each once
    FormatOf,      \* their formats; a text file is read without a parser
    Refused,       \* those too large or of no allowed type
    MaxBatch,      \* MAX_BATCH_FILE_COUNT
    AtOnce,        \* uploads under way at a time, 2 in the code
    ParserOrder,   \* DocumentParser, in the order of the list
    KeyParsers,    \* PARSERS_REQUIRING_API_KEY
    Reads,         \* isSupported: the formats a parser reads
    Openings,      \* bound: dialogs opened
    KeyChanges     \* bound: settings changed by somebody else

ThePage == "page"
Enquirers == Openings \cup {ThePage}
Parsers == {ParserOrder[i] : i \in DOMAIN ParserOrder}

ASSUME ParserAssumption ==
    /\ MaxBatch \in Nat /\ AtOnce \in Nat \ {0} /\ KeyChanges \in Nat /\ Refused \subseteq PickFiles
    /\ ParserOrder \in Seq(Parsers) /\ "docling" \in Parsers \ KeyParsers /\ KeyParsers \subseteq Parsers
    /\ DOMAIN Reads = Parsers /\ DOMAIN FormatOf = PickFiles
    /\ {None, "none", "queued", "failed"} \cap Parsers = {}

VARIABLES keyed, preferred,   \* parserApiKeys and defaultDocumentParser of the workspace
          pendingFiles, showParserDialog,
          offered,            \* parsers, those enabled: {} before the first list has come
          selectedParser,
          enquiries,          \* what the page (loadParsers) and each opening was told
          sending,            \* the batch's uploads: none, waiting, sent, answered
          askedParser,        \* the parser a file is sent with
          atServer,           \* external: uploads on their way to be stored
          parsing,            \* the parsing jobs: none, queued, failed, or the parser taken
          keyTaken,           \* history: parsers whose key was taken away
          keyChanges

settingsOfParsers == <<keyed, preferred, keyTaken, keyChanges>>
dialogVars == <<pendingFiles, showParserDialog, offered, selectedParser, enquiries>>
uploadVars == <<settingsOfParsers, dialogVars, sending, askedParser, atServer, parsing>>

UploadInit ==
    /\ keyed \in SUBSET KeyParsers /\ preferred \in Parsers
    /\ pendingFiles = {} /\ showParserDialog = FALSE /\ offered = {} /\ selectedParser = "docling"
    /\ enquiries = [o \in Enquirers |-> [st |-> IF o = ThePage THEN "asked" ELSE "none",
                                         enabled |-> {}, preferred |-> "docling"]]
    /\ sending = [f \in PickFiles |-> "none"] /\ askedParser = [f \in PickFiles |-> None]
    /\ atServer = {} /\ parsing = [f \in PickFiles |-> "none"] /\ keyTaken = {} /\ keyChanges = 0

\* uploadingFiles
Uploading == \E f \in PickFiles : sending[f] # "none"

IsParserEnabled(p) == p \in KeyParsers => p \in keyed

CanConfirmUpload == selectedParser \in offered

\* Somebody else sets or deletes a key, or sets the default.
ParserSettingsChange ==
    /\ keyChanges < KeyChanges /\ keyChanges' = keyChanges + 1
    /\ \/ /\ \E p \in KeyParsers : keyed' = (keyed \cup {p}) \ (keyed \cap {p})
          /\ keyTaken' = keyTaken \cup (keyed \ keyed') /\ UNCHANGED preferred
       \/ preferred' \in Parsers \ {preferred} /\ UNCHANGED <<keyed, keyTaken>>
    /\ UNCHANGED <<dialogVars, sending, askedParser, atServer, parsing>>

\* onFilesSelected takes or refuses a batch as a whole.
ValidForUpload(fs) == fs # {} /\ Cardinality(fs) <= MaxBatch /\ fs \cap Refused = {}

OpenPendingFilesFlow(fs, o) ==
    /\ ~showParserDialog /\ enquiries[o].st = "none"
    /\ ValidForUpload(fs) /\ \A f \in fs : askedParser[f] = None
    /\ pendingFiles' = fs /\ showParserDialog' = TRUE
    /\ enquiries' = [enquiries EXCEPT ![o].st = "asked"]
    /\ UNCHANGED <<settingsOfParsers, offered, selectedParser, sending, askedParser, atServer, parsing>>

\* listParsers and getSettings read one row, here at one time.
ListParsers(o) ==
    /\ enquiries[o].st = "asked"
    /\ enquiries' = [enquiries EXCEPT ![o] =
          [st |-> "read", enabled |-> {p \in Parsers : IsParserEnabled(p)}, preferred |-> preferred]]
    /\ UNCHANGED <<settingsOfParsers, pendingFiles, showParserDialog, offered, selectedParser, sending,
                   askedParser, atServer, parsing>>

FirstOf(enabled) ==
    ParserOrder[CHOOSE i \in DOMAIN ParserOrder :
        ParserOrder[i] \in enabled /\ \A k \in 1 .. i - 1 : ParserOrder[k] \notin enabled]

\* The answer to an opening replaces what the user has chosen meanwhile, that
\* to the page only the list.  When a call fails nothing new is offered.
ParsersOffered(o) ==
    /\ LET e == enquiries[o]
           default == IF e.preferred \in e.enabled THEN e.preferred ELSE FirstOf(e.enabled)
       IN  \/ /\ e.st = "read" /\ offered' = e.enabled
              /\ selectedParser' = IF o = ThePage THEN selectedParser ELSE default
           \/ /\ e.st \in {"asked", "read"} /\ UNCHANGED offered
              /\ selectedParser' = IF o = ThePage THEN selectedParser ELSE "docling"
    /\ enquiries' = [enquiries EXCEPT ![o].st = "done"]
    /\ UNCHANGED <<settingsOfParsers, pendingFiles, showParserDialog, sending, askedParser, atServer,
                   parsing>>

ChooseParser(p) ==
    /\ showParserDialog /\ p \in offered \ {selectedParser}
    /\ selectedParser' = p
    /\ UNCHANGED <<settingsOfParsers, pendingFiles, showParserDialog, offered, enquiries, sending,
                   askedParser, atServer, parsing>>

\* cancelParserDialog, cancelUpload: what was sent may yet be stored.
CancelParserDialog ==
    /\ showParserDialog
    /\ showParserDialog' = FALSE /\ pendingFiles' = {}
    /\ sending' = [f \in PickFiles |-> "none"]
    /\ UNCHANGED <<settingsOfParsers, offered, selectedParser, enquiries, askedParser, atServer, parsing>>

\* mergeMap keeps AtOnce uploads under way.
SendUploads(way) ==
    LET waiting == {f \in PickFiles : way[f] = "waiting"}
        room == AtOnce - Cardinality({f \in PickFiles : way[f] \in {"sent", "answered"}})
    IN  \E go \in SUBSET waiting :
            /\ Cardinality(go) <= room
            /\ Cardinality(go) = room \/ go = waiting
            /\ sending' = [f \in PickFiles |-> IF f \in go THEN "sent" ELSE way[f]]
            /\ atServer' = atServer \cup go

ConfirmParserSelection ==
    /\ showParserDialog /\ ~Uploading /\ CanConfirmUpload
    /\ SendUploads([f \in PickFiles |-> IF f \in pendingFiles THEN "waiting" ELSE "none"])
    /\ askedParser' = [f \in PickFiles |-> IF f \in pendingFiles THEN selectedParser ELSE askedParser[f]]
    /\ UNCHANGED <<settingsOfParsers, dialogVars, parsing>>

\* The file and its parsing job, or a refusal.
FileStored(f) ==
    /\ f \in atServer /\ atServer' = atServer \ {f}
    /\ parsing' \in {parsing, [parsing EXCEPT ![f] = "queued"]}
    /\ sending' = [sending EXCEPT ![f] = IF @ = "sent" THEN "answered" ELSE @]
    /\ UNCHANGED <<settingsOfParsers, dialogVars, askedParser>>

\* The next file goes; the last answer closes the dialog.
UploadAnswered(f) ==
    /\ sending[f] = "answered"
    /\ LET way == [sending EXCEPT ![f] = "none"]
           over == \A g \in PickFiles : way[g] = "none"
       IN  /\ SendUploads(way)
           /\ pendingFiles' = IF over THEN {} ELSE pendingFiles
           /\ showParserDialog' = (showParserDialog /\ ~over)
    /\ UNCHANGED <<settingsOfParsers, offered, selectedParser, enquiries, askedParser, parsing>>

\* getParserWithFallback: the parser asked for, if its key is there and it
\* reads the format; else Docling, if it does.
ParserWithFallback(p, format) ==
    IF IsParserEnabled(p) /\ format \in Reads[p] THEN p
    ELSE IF format \in Reads["docling"] THEN "docling" ELSE None

\* What the parser makes of the file, and the job's retries, are ParsingWorker's.
ParseFile(f) ==
    /\ parsing[f] = "queued"
    /\ LET p == ParserWithFallback(askedParser[f], FormatOf[f])
       IN  parsing' = [parsing EXCEPT ![f] = IF p = None THEN "failed" ELSE p]
    /\ UNCHANGED <<settingsOfParsers, dialogVars, sending, askedParser, atServer>>

UploadNext ==
    \/ ParserSettingsChange
    \/ \E fs \in SUBSET PickFiles, o \in Openings : OpenPendingFilesFlow(fs, o)
    \/ \E o \in Enquirers : ListParsers(o) \/ ParsersOffered(o)
    \/ \E p \in Parsers : ChooseParser(p)
    \/ CancelParserDialog \/ ConfirmParserSelection
    \/ \E f \in PickFiles : FileStored(f) \/ UploadAnswered(f) \/ ParseFile(f)

UploadSpec == UploadInit /\ [][UploadNext]_uploadVars

UploadTypeOK ==
    /\ keyed \subseteq KeyParsers /\ preferred \in Parsers /\ keyTaken \subseteq KeyParsers
    /\ pendingFiles \subseteq PickFiles /\ showParserDialog \in BOOLEAN
    /\ offered \subseteq Parsers /\ selectedParser \in Parsers
    /\ enquiries \in [Enquirers -> [st : {"none", "asked", "read", "done"},
                                   enabled : SUBSET Parsers, preferred : Parsers]]
    /\ sending \in [PickFiles -> {"none", "waiting", "sent", "answered"}]
    /\ askedParser \in [PickFiles -> Parsers \cup {None}] /\ atServer \subseteq PickFiles
    /\ parsing \in [PickFiles -> {"none", "queued", "failed"} \cup Parsers]
    /\ keyChanges \in 0 .. KeyChanges

(* However openings of the dialog, their late lists and changes of the     *)
(* settings cross, a file whose parser reads it is parsed by the parser it *)
(* was sent with; Docling takes its place only after its key was taken.    *)
ParsedAsSent ==
    \A f \in PickFiles : parsing[f] \in Parsers =>
        \/ parsing[f] = askedParser[f]
        \/ FormatOf[f] \notin Reads[askedParser[f]]
        \/ askedParser[f] \in keyTaken

(* While the dialog is down nothing is sent, and while it is up a batch    *)
(* is there to be sent: a cancelled or finished one leaves nothing behind. *)
DialogHasItsBatch ==
    /\ showParserDialog <=> pendingFiles # {}
    /\ {f \in PickFiles : sending[f] # "none"} \subseteq pendingFiles
=============================================================================
