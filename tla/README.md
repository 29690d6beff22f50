# ContractAI Review: verification

TLA+ models of the parts of ContractAI Review whose correctness depends on the order in which
processes, workers, clients and failures act; TLC configurations that check them on small
instances; and TLAPS proofs of their main safety properties for every value of the constants.
Paths below are relative to `src/`, and `api/` stands for `apps/api/src/`, `web/` for
`apps/web/src/app/`.

Contents: 1 the system; 2 the modules; 3 what each run checks; 4 bounds; 5 fairness; 6 what is
proved; 7 where code and documentation disagree; 8 behaviours worth knowing; 9 what is not
modelled; 10 the plan.

## 1. The system

An API (NestJS) takes documents, a pipeline of BullMQ workers turns their files into searchable
chunks, and a chat answers questions about a document from those chunks. PostgreSQL keeps the
rows, an object store the files, Redis the queues, the answer cache, the prepared requests and the
progress stream; a browser client (Angular) follows all of it. Two kinds of process run the same
application module (`api/app.module.ts`): the API, which also runs every worker, and
`api/worker.ts`, which runs the workers only. `docker-compose.prod.yml` and
`deploy/docker-compose.yml` start one of each, so that every queue has two workers and every
worker can meet a second delivery of its own job in the other process.

### Documents

**Document pipeline** (`api/workers`, `api/documents`).
- *State.* `documents.status`, `document_files.status`, `document_jobs` (status, type, metadata),
  `chunks` with their vectors, the objects in storage, three queues with their retry and stall
  counters, and what each worker holds in memory between two awaits.
- *Operations.* `uploadFile` (object, file row, job row and job), `ParsingProcessor`,
  `ChunkingProcessor` and `EmbeddingsProcessor`, `deleteFile`, `reindexChunks`,
  `DocumentDeletionOrchestrator.deleteDocument`.
- *Interaction.* Parsing enqueues chunking, chunking enqueues embedding, the last file ready
  publishes the document and enqueues its jurisdiction evaluation. Client handlers change the same
  rows at any await.
- *Hard.* Delivery is at least once: three attempts, stalled jobs, a worker that lost its lock and
  goes on (a zombie). The row of a follow-up job and its queue entry are written one after the
  other. The lock on the document row covers only the transactions that take it: readiness, reindex
  and deletion do not. A transaction outlives the 60 s timeout of the worker that waits for it.
  TypeORM's `save()` inserts what was deleted since it was loaded.
- *Correct when.* A file shown AVAILABLE was handed on to chunking; a ready document is published
  and evaluated; COMPLETED embedding jobs left nothing without a vector; a chunk without a vector is
  somebody's job and belongs to the last replacement; rows agree with the queue; retries end.

**Text chunking** (`api/rag/chunking.service.ts`). Called by the chunking worker.
- *State.* The text gathered for the next chunk, where it starts, the clause it began in, and the
  stack of open headings.
- *Hard.* Flushing, cutting what is too large and opening headings each reset part of that state;
  what is lost or mislabelled shows only for texts of certain lengths.
- *Correct when.* No character is lost or out of order; a chunk carries the clause it begins in.

**Jurisdiction evaluation and document review** (`api/workers/jurisdiction-evaluation.processor.ts`,
`api/document-review`).
- *State.* The document row, the jobs of two queues, `document_reviews` (unique per document, rules
  version and model).
- *Operations.* Evaluate all files with a model (minutes), save the loaded document, enqueue a review;
  find or create a review, with `force` delete it first; edit and delete the document.
- *Inside.* The evaluation reads every file, collects what names a law, ranks the candidates and asks a model
  in between (`workers/jurisdiction-resolver.service.ts`, `jurisdictions`); a review matches rules, asks a model
  about overlapping windows of the text, and merges what both found (`document-review/*`).
- *Correct when.* A deleted document does not return but through a save that had loaded it; a
  reviewed document is without review only between a forced delete and its save; an evaluated document
  is reviewed; no finding is lost on its way into the review, one that succeeded has read everything,
  and the law of a document rests on what its files say.

**Job progress stream** (`api/websocket/job-progress-stream.consumer.ts`,
`api/workers/job-progress.publisher.ts`).
- *State.* The Redis stream, the pending entries of its consumer group, each process's read loop
  and recovery timer. *Operations.* Publish, read, emit or pass over, acknowledge, scan for idle entries, claim.
- *Hard.* Crashes between emit and acknowledge, lost replies, two recoveries after one message.
- *Correct when.* Nothing is acknowledged before it was emitted, but for a message the consumer passes over, and
  every message is acknowledged in the end.

**The page that follows the jobs** (`web/documents/document-view`, `web/core/services/websocket.service.ts`).
- *State.* The list shown, its copy in localStorage, a poll of half a second that ends by itself, loads
  on demand, a faster poll without socket, and the subscription to the document's room.
- *Hard.* All four write the same list and start and end each other, while uploads make new jobs.
- *Correct when.* A job shown as running is still watched by something.

### Chat

**Threads, stream, messages** (`api/documents/chat.controller.ts`, `chat-thread.service.ts`,
`chat-message.service.ts`). A request checks its thread, reads the history, streams the answer, ends
the response, and only then stores the exchange and enqueues a summary, each swallowing its errors.
Threads are deleted by their user, cascaded with the document, or purged. Correct when a client reads
one terminal event, and the prompts of the stream, threads and memories hold one user's exchanges only.

**Memory** (`api/memory`, `api/workers/summarize-memory.processor.ts`). A summary per thread, read and
rewritten by jobs of any process. Correct when no stored exchange is forgotten, but by overlapping jobs,
and memories of vanished threads go in the end.

**Answering** (`api/rag/rag.service.ts`, `api/llm/llm-provider.registry.ts`). A stream reads the settings
and the state of the index at once, searches, gates what was found, and calls the model; prepare and
execute do the same in two requests with a payload in Redis between them
(`api/rag/chat-prepare-cache.service.ts`). Index and settings change meanwhile. Correct when a provider
is asked for a model of its own, an empty answer is explained by the state that was searched, and a
payload serves once.

**Semantic RAG cache** (`api/cache/rag-cache.service.ts`).
- *State.* Per document: data keys with a time to live, one list per jurisdiction and language
  capped with LTRIM, two tracking sets. *Operations.* `get`, `set` (one MULTI), `invalidateDocument`
  (two reads, then one MULTI), expiry.
- *Interaction.* The chat stores answers; the embedding worker, the jurisdiction worker, the
  jurisdiction override, reindex and the deletion of a document invalidate.
- *Correct when.* After an invalidation nothing older is served; an answer just stored can be found
  at any cap; nothing outlives its time to live.

**Web search** (`api/web-search/web-search.service.ts`). Searches wait for each other on one promise
chain, with a gap, a timeout, aborts and a monthly budget checked on entry. Correct when every search
is answered and the budget is exceeded by no more than the searches that waited.

**Prompts** (`api/prompts/prompt.service.ts`). Rows per scope (global, workspace, document) and variant,
found by one query and saved or removed by another, combined when a question is asked. Correct when
overlapping edits have the effect of one order of them.

**Chat tab** (`web/documents/document-view/document-view.component.ts`). Messages shown, thread selected,
requests in flight whose events write to a position in the list. Correct when what is shown belongs to
the thread selected.

### Workspaces

**Members, accounts, superadmin** (`api/workspace/workspace.service.ts`, `api/auth`). Role changes,
invitations, removals and account deletions check what they read and write later; each start of the API
makes the superadmin an owner. Correct when a workspace keeps an owner.

**Settings, retention, purge** (`api/workspace/workspace-settings.service.ts`, `api/privacy`,
`api/retention`). Three services load the one settings row, change it and save every column; a daily purge
reads it per item and removes files, text, messages, empty threads and memories. Correct when nothing is
purged that an answered update keeps, and everything overdue goes in the end.

**Rate limit** (`api/rate-limit/rate-limit.guard.ts`). One record per key in memory, shared by handlers
with different limits, swept and lost with the process. Correct when no minute exceeds the largest limit,
but by records lost.

**Avatars and user storage** (`api/asset-manager`, `api/storage`). Upload, replacement and deletion are
separate writes to an object store that the user may exchange meanwhile. Correct when the row names
something readable.

**Accounts** (`api/auth`). Registrations, invitations and the start of an instance each look for an address,
hash a password and insert; a deletion removes avatar, configuration and user one after the other. Correct
when who was registered can log in, and nothing is left of who is gone.

**Onboarding** (`api/onboarding`, `web/onboarding`). One row per user that every update reads and saves whole;
a copy in the browser that takes every answer; tours and guides that send the updates. Correct when no mark is
forgotten but by a reset, and nothing is shown twice.

### The pages

Angular components keep signals and send requests that, with few exceptions, are neither cancelled nor put in
order. Each page has the same three questions: what does a late answer overwrite, what does a press find while
an earlier one is being answered, and what is left when the page is.

**Speech and microphone** (`web/documents/document-view`, `web/core/services/voice-recording.service.ts`). One
audio element at a time, its late events; a stream asked for, recorded, stopped and transcribed. Correct when
what is heard can be paused and a stream is held by somebody.

**Previews** (`document-view`, `file-content-dialog`, `pdf-viewer`). Downloads, texts read from blobs, pages
drawn on one canvas. Correct when what is shown is of the file that is named.

**List of files, documents page, one document** (`document-view`, `search-input`, `documents-list`). A table asked
for by search, page and reloads after uploads and deletions; a dialog that asks for the parser of a batch before
it is sent; cards, a form and a dialog with a prompt written for the form; a head whose title and law are edited
each on its own, and a tab with the review that a run replaces. Correct when the table lists what the box says,
nothing deleted comes back, a file is parsed by what it was sent with, and the head is the row.

**Session and account settings** (`web/core/services/auth.service.ts`, `layout/sidebar`,
`settings/account-settings`). Token and user in localStorage, a user on the page, avatars as object URLs.
Correct when the user shown is the one signed in, and what was chosen is what is saved.

**Workspaces, members, settings, prompts** (`web/workspaces`, `documents/document-prompts-editor`,
`settings/global-prompts-editor`). Lists reloaded after each change, forms of one or two requests, choices that
save by themselves, editors over a resource. Correct when what stays on the screen is what is stored.

The components that are left out (parsers, clients of language and speech models, the legal corpus, audit,
storage drivers, migrations, Python services, the remaining pages, shared types, health checks) are listed in
`PROJECT.json` with the reason: pure functions, clients of external services, or one read or write per request.

## 2. The modules

| Module | Models |
| --- | --- |
| `PipelineState` | rows, objects, queues, worker slots; BullMQ's delivery, retry, stalled check; faults |
| `ParsingWorker` | `workers/parsing.processor.ts`, `workers/document-job-lock.ts` |
| `IndexingWorkers` | `workers/chunking.processor.ts`, `workers/embeddings.processor.ts` |
| `DocumentsService` | `uploadFile`, `deleteFile`, `reindexChunks`, `deleteDocument` |
| `DocumentPipeline` | all of them together, with properties and fairness |
| `ChunkIndex` | abstract: what the chunks table promises to search |
| `TextChunks` | `rag/chunking.service.ts` |
| `RagCache` | `cache/rag-cache.service.ts` and its use in `rag/rag.service.ts` |
| `JobProgressStream` | the stream, its consumer and its publisher |
| `ChatThreads` | threads, messages, `POST chat/stream` |
| `MemoryAndRetention` | the summarize queue and its worker, and the chat and memory phases of the purge, on top of `ChatThreads` |
| `Conversations` | the two together, with faults, properties and fairness |
| `PreparedChat` | `rag/chat-prepare-cache.service.ts`, `chat/prepare`, `chat/execute` |
| `Answering` | retrieval, gates, provider, model and reason in `rag/rag.service.ts` |
| `WebSearch` | `web-search/web-search.service.ts` |
| `ChatView` | the chat tab of the browser |
| `DocumentReviews` | jurisdiction and review workers, `POST review/rerun`, edits, deletion |
| `ReviewFindings` | inside one review: rules, the model's windows, the merge (`document-review`, `rules`) |
| `LegalEvidence` | inside one evaluation: evidence, candidates, fallback; the laws a question is given |
| `Membership` | `workspace/workspace.service.ts`, guards, accounts, superadmin |
| `RetentionPolicy` | the settings row, the file and text phases of the purge |
| `RateLimit` | `rate-limit/rate-limit.guard.ts` |
| `AccountAssets` | `asset-manager/asset-manager.service.ts` and the user's storage |
| `JobsView` | the page that follows its jobs |
| `Prompts` | `prompts/prompt.service.ts` |
| `Accounts` | two machines: `auth/auth.service.ts` with `auth/superadmin.service.ts`, and session, sidebar and account settings of a tab |
| `Onboarding` | `api/onboarding`, `web/onboarding` |
| `SpokenChat` | two machines: playback of answers, and recording of questions, in the chat tab |
| `FileViewers` | two machines: the viewer and the dialog of texts, and the PDF viewer |
| `FileList` | two machines: search box and table of files, and the dialog that asks for the parser of an upload |
| `DocumentsPage` | cards, form and prompt dialog of `documents-list`; head and review tab of one document |
| `WorkspacePages` | two machines: the pages of workspaces and of members |
| `SettingsForms` | two machines: tabs of the settings, and editors of prompts |
| `MCDocumentPipeline`, `MCRedis`, `MCChat`, `MCServices`, `MCPages` | the instances TLC checks |
| `PipelineProofs`, `IndexProofs`, `RedisProofs`, `ChatProofs`, `QuestionProofs`, `ServiceProofs`, `AccessProofs`, `PageProofs` | proofs |

Components that share state are composed: the pipeline's modules in `DocumentPipeline`, chat, memory
and purge in `Conversations`. `MCRedis`, `MCChat`, `MCServices` and `MCPages` put components side
by side that share no variable: `scene` says which of them a behaviour shows, and the others stay
as they began. Every state and step of each component is in the run, and nothing of their product; a property
that names several of them (section 3) is checked of each in its own scene.

### How state and actions correspond to the code

An action runs from one await whose result another actor can change to the next; awaits between which
nothing else can matter are merged. Variables marked HISTORY record what happened and decide nothing.

*Pipeline.* One document, because every query and lock is by document id. A row that does not exist
has status `"absent"`. `jobs` is a sequence of records, each a `document_jobs` row together with its
BullMQ job; `"unqueued"` is a row whose `queue.add` has not happened. A chunk id is a pair
<<replacement, batch>>: one id stands for one batch of up to 100 chunks, since a batch is embedded
and saved as one. `run[s]` is what worker `s = <<process, queue>>` executes: its program counter, its
job, the chunks it holds (`savedChunks`, `chunksToEmbed`) and the files it loaded with the document.
`txns` logs committed replacements and `lateTx` holds those whose worker gave up waiting.
`ParseText`, for example, stands for reading the object, parsing, the locked transaction that stores the
text, `updateJobStatus(80)`, the save of the chunking job's row and `queue.add`: until that add no other
actor looks at the new row, and a failure of the add itself is its own action (`ParseAddThrows`), which
leaves the row and no job. Any await may throw (`StepThrows`), which leads to the catch block
(`CatchError`): row FAILED, rethrow, and BullMQ retries or fails the job (`RetryOrFail`). A crash takes
the locks and open transactions of its process with it; a lost lock lets a second worker run a job that
the first still runs. A file's content is data: it has text, only blanks, or none. `deleteFile` and
`deleteDocument` are sequences of awaits with no transaction. The job rows `deleteFile` removes can come
back: a worker between load and save of `updateJobStatus` inserts its row again (`Reporting`), and
`ParseSave` and `EmbedBatch` do the same for files and chunks.

*Text chunking.* The environment chooses the blocks of a text, their lengths and which are headings. A
character is its block and its place in it, so that chunks can be compared with the text; what the
code puts between two blocks is a `Gap`. `gathered`, `gatheredStart`, `gatheredLabel` and `headings` are
`accumulatedText`, `accumulatedStartIndex`, the accumulated clause and path, and the stack of headings.

*Rate.* What a record holds and what passed are sets of stamps, the tick and a number within the tick, so that
two requests of one tick count as two.

*Cache.* `live` are data keys, `index` the capped lists, `docKeys` and `docIndexes` the tracking
sets. `get` changes nothing; `Servable` says which answers it can return, whatever the embeddings.
A request appears from its miss (`Ask`) to its store (`StoreAnswer`, or `StoreNothing` for
not-found, failure and abort). An invalidation is `Begin`, `ReadKeys`, `ReadIndexes` (with its
early return), `Delete`; `Abort` is its catch block, or a crash.

*Stream.* Messages are numbered in the order they are added. `pending` maps messages to consumer
names, as Redis does, and `idle` holds those pending longer than `CLAIM_IDLE_MS`. `loop` and
`recovery` are the two activities of each consumer. `processMessage` emits (`Emit`, `EmitClaimed`), returns
without an emit, before the gateway has set the server or for a malformed message (`PassOver`,
`PassOverClaimed`), or throws: the loop then leaves the message pending (`HandlingFails`), the recovery
acknowledges it all the same (`PassOverClaimed`). `dropped` remembers what was passed over.

*Conversations.* A stored exchange is named by the request it came from. `turn[t]` is the handler of a
`chat/stream`: from the thread check (`OpenThread`, `OpenNewThread`) over `Recall`, `Answer`, `CacheAnswer`
and `EndResponse` to the background save (`CheckLogs`, `SaveExchange`). `job[t]` is its summarize job;
Ages count the cutoffs an exchange has crossed. The purge is
one process with the phases of `purge.service.ts`.

*Prepared chat and answering.* `PreparedChat` keeps the life of the payload and who read it, the memory its prompt
holds, which is that of any thread the request named (`Prepare`), and the thread an execute answers in, which has
to be its caller's or is new (`StartExecute`); `Answering`
what is read when. In `Answering` a chunk has a rank, how similar it is to the question in the steps the
gates tell apart, and a model is "chat" (`chatModel`), "default" (the adapter's own) or named for
its provider.

*Web search.* `chain` is the promise chain with the running search first, `since` the ticks since the
last call.

*Chat tab.* `shown` is `chatMessages`, each with the thread it was written for and whose words it holds;
`asked[q]` knows the position its events write to.

*Reviews.* `docRow` is the document row, a handler's loaded copy is the `row` of its record. A failed
attempt returns the job to its queue while attempts are left.

*Inside a review.* The text is a sequence of terms; a rule matches a term, or misses a statute beside its topic.
The model's answer about each window is the environment's choice, valid or not; the merge is translated as
written: clusters by category and clause, the highest severity, the first issue with a legislation reference.
*Inside an evaluation.* A phrase of a file stands for the group of patterns that matches it, with what each
reads from it; `lawFiles` are the files in the order they are loaded. Ranking of retrieved statutes by the hints
of a question is `AskAboutLaw`, one step with its cut-offs.

*Members.* A request is its reads (`load`, `decide`) and its write; `raced` marks that another request's
write fell in between. Guards read when the request comes in.

*Settings and purge.* `acked` is what the answered updates add up to, `settings` what the row holds.

*Rate limit.* `limits` is the record of one key; `passed` and `dropped` are history of one minute.

*Avatars.* An object is a pair of storage and key, since a user's storage decides where a key is looked up.

*Jobs of a page.* `polling`, `loading` and `fast` are the pending answers of the pollers, `room` is the
subscription, `mail` what the room has sent.

*Prompts.* A place is a scope and a variant; `promptRows[p]` its rows. An edit is `BeginEdit` (the lookup),
then `save()` as TypeORM runs it (`SelectRow`, then `UpdateRow` or `InsertRow`) or `RemovePrompt`.

*Pages.* A request is a record of what was asked, by whom and for which page, with its state at the server
and what it read. Variables are named after the signals. What a template hides is a guard: a control that is
not there cannot be pressed. An answer is one action, with every signal it sets; a resource or an effect that
runs after it is an action of its own where something else can come between. Angular's own scheduling (effects
run after the event that woke them) is kept where an effect reads what is no signal, as in the PDF viewer. Object
URLs, streams and audio elements are counted: unmade, alive, revoked or stopped. The upload dialog is taken
from the pick of its files to the parser that reads them, with the workspace's keys changing meanwhile
(`KeyChange`): `askedParser` is what the form carried, `parsing` what the worker did with it. Of one document's
page the head keeps title, status and law, as signals (`docShown`) and as the row (`docSaved`).

*Accounts.* A request is its look-up, then its insert or `save()`; the unique e-mail of the table is
`Insertable`. *Onboarding.* `marks` are all entries of the row, whichever column holds them.

## 3. What each run checks

| Run | Result | Shows |
| --- | --- | --- |
| `PipelineReadiness` | pass | With two parsing processes, two files, deletions and a fault, a file AVAILABLE was sent to chunking (`AvailableWasSentToChunking`), and a document whose files are all ready is published or some parsing job still has to run, or failed (`ReadinessPublished`) |
| `PipelineIndex` | pass | With two processes chunking and embedding under each kind of fault: `EmbeddedWhenCompleted`, `NoWorkIsLost` (`UnembeddedHasOwner`, `RowAgreesWithQueue`), `TypeOK` |
| `PipelineReindex` | pass | A reindex, two chunking workers and a late commit race: `UnembeddedAreLatest`, and the pipeline implements `ChunkIndex` (`IndexSpec`) |
| `PipelineLive` | pass | With one fault of any kind: `WorkSettles`, `UploadsGetThrough` (`UploadedBecomesAvailable`, `AvailableIsEvaluated`) |
| `Redis` | pass | Scene cache: two requests and overlapping invalidations: `CacheIsHonest` (`SupersededIsGone`, `StoredIsServable`), `OutdatedExpires`. Scene stream: two processes, two faults: `AckedWasEmitted`, `PublishedIsAcked` |
| `Chat` | pass | Five scenes around a question, below |
| `Services` | pass | Eleven scenes of the other services, below |
| `Pages` | pass | Sixteen scenes of what a browser keeps, and of the accounts behind it, below |
| `PipelineTwoFiles` | violation | `EveryFileIsIndexed`, section 7 (a) |
| `PipelineRemoval` | violation | `DeletionLeavesNoObject`, section 7 (b) |
| `RagCacheStale` | violation | `InvalidationDeletesAll`, section 7 (c) |
| `ProgressStuck` | violation | `StuckIsRetriedOrClaimed`, section 7 (d) |

A property of a run that covers several scenes is a conjunction of named parts, one or two for each component
it speaks of. The parts are the properties below; the conjunction says what they have in common.

`Chat`, by scene:

- *chat* (`Conversations`). `RequestsAreKeptApart`: `OneTerminalEvent` (whatever fails after the answer stays out
  of the stream, and only an answered exchange is stored) and `StreamedPromptIsPrivate` (the history and the memory
  a streamed turn gives to the model, threads and memories hold one user's exchanges, whatever thread the turn
  names; nothing is claimed of `chat/prepare`, see section 8). `NothingKeptIsLost`: `PurgeSparesKnownExchanges`
  (the purge takes no exchange that is within the cutoffs and was stored when it looked for empty threads) and
  `SummaryForgetsOnlyByOverlap` (retries and re-runs of summarize jobs forget nothing). `OrphanMemoryPurged`: a
  memory whose thread is gone is removed, even one written after the deletion.
- *prepared* (`PreparedChat`). `PayloadServedOnce`: two executes share a payload only if each read it
  before the other deleted it.
- *view* (`ChatView`). `ShownBelongs`: as long as the user did not move on while something was in flight,
  what is shown belongs to the selected thread and to the right question.
- *search* (`WebSearch`). `BudgetOverrun`: the overrun is at most the searches that waited.
  `SearchAnswered`: every search on the chain is answered, whatever becomes of the others.
- *answers* (`Answering`). `AnswersAreExplained`: `ModelFitsProvider` (in legal review mode a provider is asked
  for its own default or configured model) and `ReasonFitsSearch` (the reason given for an empty answer is the
  state the chunks were in when they were searched).

`Services`, by scene:

- *reviews* (`DocumentReviews`). `ReviewGapHasForcedRun`, `DeletedStaysDeleted` (a document comes back only by the
  save of a handler that had loaded it), `EvaluatedIsReviewed` (an enqueued review appears, or the
  document is deleted, or the attempts are used up).
- *findings* (`ReviewFindings`). `FindingsAreReported`: whatever the merge collapses and the model fails at, a
  rule that fires and a valid issue are in the review by category, clause and at least their severity.
  `SucceededSawAll`: a review that says it succeeded has read every passage of one character more than the
  overlap in one window the model answered about.
- *law*, *question* (`LegalEvidence`). `LawIsFounded`: `ExplicitIsCandidate` and `EvidenceDecides` (an explicit
  clause reaches the decision, and the decision is a candidate's, the model's or the fallback in this order),
  `HintsAreCurated`, `RankingPromotes` (statutes that are named come first, and nothing is lost or doubled).
- *members* (`Membership`). `OwnerLostOnlyByOverlap`: the last owner goes only where another write fell
  between a request's reads and its write.
- *retention* (`RetentionPolicy`). `PolicyIsCarriedOut`: `PolicyIsHonoured` (the purge finds expired only what
  every answered update lets expire, unless an update was saved from a stale row) and `ExpiredIsPurged` (what no
  policy keeps goes in the end).
- *rate* (`RateLimit`). `MinuteRateKept`: however handlers with different limits share the record, a minute
  lets through the largest limit, and as much again for each record lost in it.
- *assets* (`AccountAssets`). `AvatarReadable`: the avatar a row names can be read, or its row is
  about to go.
- *jobs* (`JobsView`). `ActiveIsWatched`: a job shown as running is still polled, loaded or subscribed to.
- *text* (`TextChunks`). `ChunksCiteTheText`: `TextIsKept` (nothing is lost, doubled within a chunk or out of
  order) and `ChunkBeginsInItsClause` (the clause of a chunk is that of the section it begins in).
- *prompts* (`Prompts`). `LastEditCounts`: overlapping edits read as if done one at a time: a question finds what
  was written last, or by an edit that overlapped it.

`Pages`, all scenes: `PagesTypeOK`. By scene:

- *speech* and *voice* (`SpokenChat`), in `HandlesAreAlive`. `HeardIsReachable`: whatever sounds is what the page
  can stop, unless a play was rejected late. `MicrophoneIsHeld`: a stream that is alive is one the service holds.
- *preview* and *pdf* (`FileViewers`), in `LateAnswersFit`. `ViewedIsShown`: a text in the viewer is that of the
  file that is viewed; `DialogShowsItsFile`: so is what the dialog shows, unless another file's load was still
  under way. `TurnedIsDrawn`: once everything has come to rest, the page the user turned to is drawn.
- *files* and *upload* (`FileList`). In `PagesShowTheServer`: `TableListsTheSearch` (at rest the table lists what
  box and scope say), `DeletedFileIsGone` (a file whose deletion was answered is not listed once nothing is under
  way). In `LateAnswersFit`: `ParsedAsSent` (however openings of the dialog, their lists and changes of the
  settings cross, a file whose parser reads it is parsed by the one it was sent with, unless its key was taken),
  `DialogHasItsBatch`.
- *documents*, *head* and *review* (`DocumentsPage`). In `PagesShowTheServer`: `CardsAreCurrent` (with nothing
  under way the cards are the rows as far as this page changes them, unless since the last list that ran alone
  calls crossed, a list failed, or a change failed that the server had done: none of the error branches of
  `documents-list.component.ts` asks for the list again), `HeadShowsTheRow`, `TabShowsTheReview` (the flags keep
  loads and runs apart). In `LateAnswersFit`: `PromptFitsDocument` (the dialog shows the prompt of the description
  it was written for).
- *onboarding* (`Onboarding`). `OnboardingIsKept`: `MarksAreKept` (the row forgets nothing but by a reset or a
  save over another's), `StateIsServers` (with no request under way the browser has what the server has),
  `CompletedIsMarked` (an answered completion stands, unless a reset or an overlapping save came after it).
- *accounts* (`Accounts`). `AccountsAreKept`: `RegisteredStays` (however registrations race, who was told of
  success is registered), `RestartSetsPassword` (after all starts the superadmin has the password of the last),
  `GoneLeavesNothing` (avatar and configuration of who is gone are gone).
- *tab* (`Accounts`). `ShownIsSignedIn` and `ChoiceIsSaved`, in `PagesShowTheServer`; `AvatarsAreHeld` (an
  object URL that is alive can still be revoked), in `HandlesAreAlive`.
- *workspaces* and *members* (`WorkspacePages`). `TwiceOnlyUntilReload`, `TableShowsMembers`, in
  `PagesShowTheServer`; `LogosShownAreAlive`, in `HandlesAreAlive`; `AddedAsPressed` (the role that stood beside
  the address), in `LateAnswersFit`.
- *settings* and *prompts* (`SettingsForms`). `ShownIsStored` and `EditorShowsStored`, in
  `PagesShowTheServer`.

Some properties carry a proviso, and each proviso is a behaviour of the code. `UnembeddedHasOwner`
excepts late commits and chunking jobs that two workers ran: a replacement that commits behind its
timeout, or is itself replaced by a zombie, leaves chunks that no embedding job names.
`AvailableIsEvaluated` excepts the deletion of a file: a crash between publishing and enqueueing is
made up for by the next delivery only while a file is ready. `ReadinessPublished` excepts it too:
`deleteFile` does not recompute the status. `SupersededIsGone` excepts answers stored while an
invalidation was running, which is section 7 (c). `UploadedBecomesAvailable` excepts failed jobs: no
code ever sets a file to ERROR. `PayloadServedOnce`, `SummaryForgetsOnlyByOverlap`,
`OwnerLostOnlyByOverlap` and `PolicyIsHonoured` except the overlaps that the code has no lock
against, and say that nothing else goes wrong. `ModelFitsProvider` excepts a change of the workspace's provider during
the request, which resolves it twice; `ReasonFitsSearch` a change of the index between the two reads;
`ShownBelongs` a user who moves on while something is in flight, because events are written to a position;
`ActiveIsWatched` a failed request and a reconnection, after which nothing is subscribed again;
`AvatarReadable` a call cut off between object and row, and a change of storage. `TextIsKept` excepts the
tail behind the last full stop of a text cut into sentences, which the code drops. The pages' provisos name
the crossings their code has nothing against (`disturbed`, `muddled`, `crossing`, `stale`, `tardy`,
`headCrossed`, `reviewMoved`: lists that overlap, a failed request that left what was shown, an answer that came
to another than who asked, a row that changed by itself) and say that nothing else makes page and server differ.

Each property of a passing run has a mutant in `PROJECT.json`: a change of one action, such as a
plausible bug would make, under which the run must report that property violated. The mutants stand
in the modules before the definitions they change. A conjunction has one mutant, of the part that is hardest to
get right.

## 4. Bounds

Every bound is a constant marked BOUND, or the size of a set.

- *Pipeline: 2 processes.* The deployments start two, and every race of the pipeline is between a worker and
  one other actor (a second delivery, another queue's worker, or a client). *Files: 1 or 2.* Readiness
  needs two files; index runs need one, as files meet only in `ReplaceChunks`, which deletes the chunks of
  all (run `PipelineTwoFiles`). *Batches: 1 or 2*: two are needed for an embedding loop that is interrupted
  half way. *Attempts: 2* (3 in the code) and *MaxStalled: 1* (the value in force): one retry and one
  redelivery are each possible, and both bounds can be hit. *Faults: 1*, in a chosen process; a
  fault already brings the catch block, a retry and a second delivery. Faults are of any kind, except that
  `PipelineReadiness` takes throws and lost locks only: for its safety a crash is a lost lock whose first
  worker never goes on. Client handlers that stop half way count as faults as well. A run gives workers only to the queues it is about (`ParsingSlots`,
  `IndexSlots`, `ReindexSlots`, `SplitSlots`); jobs of the others wait. `PipelineLive` leaves out client
  deletions and reindex (`Deletable = {}`, `MaxReindex = 0`), so liveness is checked for uploads only.
- *Cache: 2 requests, 2 answers, 2 indexes, cap 1, 2 concurrent invalidations, 3 in all.* With cap 1
  every second store drops an entry; three invalidations suffice for one to overlap two others.
  *Stream: 2 messages, 2 processes, 2 faults*, so that a failed acknowledgement can be followed by a failed
  recovery.
- *Conversations: 2 turns of one user, 1 thread, a second user who may own it, history of 1, 2 attempts and
  2 workers for summaries, 1 fault or user action that disturbs.* Two exchanges give two summarize jobs that can overlap, and a
  history that leaves one out; one disturbance is a deletion, a no-logs switch, a disconnect, a failed or
  stalled job, or a restart of the API.
- *Prepared: 2 payloads, 2 executes, 2 users, a thread of one of them. View: 2 questions, 2 threads, 2 clicks or failures. Search: 3 searchers,
  monthly budget 2, gap 1, timeout 2, 1 month that ends*: three waiting searches exceed the budget by two.
- *Answering: 1 question, 2 providers, one of them with a model of its own, 2 chunks, ranks 0, 1 and 3, 1
  change of provider, 2 changes of the index.* Two chunks tell pending from embedded and pass the gate
  of the web search; two changes are a replacement and a vector. Questions share nothing.
- *Reviews: 2 evaluations, 1 forced rerun, 1 jurisdiction, a model and none, 2 attempts, 1 failure, edit or
  deletion.* *Members: 2 people, one the superadmin, members without role, ADMIN or OWNER at first, VIEWER or OWNER granted,
  2 requests at a time and 2 in all.* Two requests suffice for two owners to remove each other.
- *Retention: a file and a document's text, default 2 days, updates to 0 or 1, 2 requests, 1 failure.*
  *Rate: minute 2, day 4, limits 1 and 2, 9 ticks, 1 lost record*: two resets of the day.
  *Avatars: 3 calls, 2 failures. Jobs: 1 job, 1 failure, 1 upload, 1 update on its way.*
- *Text: chunks of 4 characters, overlap 1, 3 blocks of 1, 3, 5 or 8 characters, headings of depth 1 and 2*:
  blocks that fit together, that do not, and that fill one and two chunks of their own.
- *Prompts: 3 edits, 1 question, a document's prompt in two variants.* Three edits are the two that
  overlap and one before or after.

- *Findings: texts of up to 3 terms of 4 kinds, windows of 2 that share 1, one rule file of 2 rules and one of 1, a
  hit kept of each rule, answers of up to 2 issues*: two rules and an issue of one category meet in the merge.
  *Law: 2 files of up to 2 phrases, 2 laws given by a user, 4 answers of the model.* *Question: 3 statutes, 5 hints,
  up to 2 citations.*
- *Pages: 2 messages, 2 files, 2 documents, a recording or two, 1 or 2 pages of the table, and a few presses,
  failures and uploads.* A page's races are between one request and one press, answer or departure; two files or
  messages are what it takes to show one in place of the other. *Upload: 2 files, batches of 2, one sent at a
  time, 2 parsers of which one needs a key, 2 openings, 1 change of the keys.* *Head: 2 titles, 2 laws, 3 presses,
  failures or changes.* *Accounts: 2 spellings, 2 passwords, 2 requests or starts; 2 persons, 2 object URLs and 3
  presses in a tab; 2 workspaces, members, keys and prompts.* Starts that
  differ only in the names of documents, titles, addresses or passwords are taken once. The cfg says which constant bounds what.

Every action and disjunct fires in some passing run. `CHECK_DEADLOCK FALSE` is set because the systems
come to rest: a pipeline whose jobs have all ended, or bounded requests, faults and time used up.

## 5. Fairness

- *Pipeline workers* (`WF` on `WorkerStep(s)`): a worker that can take a job or go on does so; BullMQ polls, and
  a process that died is started again (`restart: unless-stopped` in both compose files). No fairness is
  assumed of an individual job in a queue. Each attempt and each stall is counted, so retries are finite.
- *Stalled check and late commits* (`WF` each): a periodic timer in BullMQ, and a transaction in
  PostgreSQL that commits or fails.
- *Client handlers in progress* (`WF`): an HTTP handler that has begun goes on unless it stops by a
  fault. No client is assumed to begin anything.
- *Cache* (`WF` on `Expire`): Redis removes keys whose time to live ended.
- *Stream* (`WF` on the read loop, on the recovery, and on the ageing of a pending message): the loop
  catches every error and goes on, the timer fires every minute, time passes, processes are restarted.
- *Purge* (`WF` on `PurgeStep` and `CleaningStep`): the scheduler runs it every day
  (`api/retention/purge.scheduler.ts`), and one that died runs again.
- *Web search* (`WF` on `CallProvider`, `EndCall`, `SearchTick`): the promise chain goes on by itself, time
  passes, and a call ends by its answer or its timer.
- *Evaluation and review workers* (`WF` on a step of any job of the queue): as for the pipeline.

Faults, users and browsers are never fair, and no liveness is claimed of the pages but what an invariant over
states at rest says.

## 6. What is proved

The proofs hold for every value of the constants under the named assumptions of the modules:
`FileTextAssumption`, `BatchesAssumption`, `SlotsAssumption`, `AttemptsAssumption`,
`BoundsAssumption`, `DeletableAssumption`, `ReindexAssumption`, `MaxEntriesAssumption`,
`CacheBoundAssumption`, `StreamBoundsAssumption`, `ChatAssumption`, `MemoryAssumption`, `PreparedAssumption`,
`ChatBoundsAssumption`, `SearchAssumption`, `AnsweringAssumption`, `ReviewAssumption`,
`AssetAssumption`, `JobsViewAssumption`, `AccessAssumption`, `RetentionAssumption`, `RateAssumption`,
`FindingsAssumption`, `IssuesAssumption`, `LawAssumption`, `ChunkingAssumption`, `PromptsAssumption`,
`ViewAssumption`. They say that the parameters
are numbers, sets and functions of the right kind, that a text has at least one batch and an index room for
one entry, that every worker belongs to one queue, that one of the limits is the largest, and that chunks and
windows are longer than what they share with the next. `IssuesAssumption` says that the rule files are in the form
the loader validates and that what the model answers, once it is parsed, is a list of issues. `LawAssumption` says
that the legal corpus returns its chunks best first, and that names that differ in case only still do when both are
cut at `MAX_STATUTE_HINT_CHARS`: a letter and its lower case are of the same length.

Those of the pages are `SpeechAssumption`, `SlotsAssumption` and `StreamAssumption` (`SpokenChat`),
`PreviewAssumption`, `PreviewNames`, `PdfAssumption`, `PdfNames`, `FileListAssumption`, `NoneTyped`, `ParserAssumption`,
`PageAssumption`, `HeadAssumption`, `WorksAssumption`, `UrlAssumption`, `MembersAssumption`, `MemberNames`,
`SettingsAssumption`, `KeyNames`, `PromptEditorsAssumption`, `PromptNames`, `OnboardingAssumption`, `OnboardingNames`,
`AccountAssumption`, `RootAssumption`, `ClientAccountAssumption` and `ClientNames`. They say that the bounds on steps
and calls are numbers, that a PDF has a page, that there is a law, a prompt and a choice of settings to pick, that
parsers are listed in one order, and that the values which stand for "none" are none of the real ones.

| Theorem | Says |
| --- | --- |
| `PipelineProofs!TypeCorrect` | `Spec => []TypeOK` |
| `PipelineProofs!RowsAgree` | `[]RowAgreesWithQueue` |
| `PipelineProofs!ReadyIsPublished` | `[]ReadinessPublished` |
| `IndexProofs!UnembeddedLatest` | `Spec => []UnembeddedAreLatest` |
| `IndexProofs!Refinement` | `Spec => IndexSpec`: the pipeline implements `ChunkIndex` |
| `IndexProofs!CompletedIsEmbedded` | `Spec => []EmbeddedWhenCompleted` |
| `IndexProofs!AvailableIsSent` | `Spec => []AvailableWasSentToChunking` |
| `IndexProofs!WorkStaysInHand` | `Spec => []WorkInHand` |
| `IndexProofs!NoWorkLost` | `[]NoWorkIsLost` |
| `RedisProofs!CacheTypes`, `CacheCoverage` | `[]TypeOK`, `[]Coverage` of the cache |
| `RedisProofs!SupersededNeverServed` | `[]SupersededIsGone` |
| `RedisProofs!StoredAnswersServed` | `StoredIsServable` |
| `RedisProofs!CacheHonest` | `CacheIsHonest`, from these two |
| `RedisProofs!AtLeastOnce` | `[]AckedWasEmitted` |
| `RedisProofs!EntriesAreKept` | `[]StreamTypeOK` |
| `ChatProofs!ConversationTypes` | `[]ConversationTypeOK` |
| `ChatProofs!TerminalEvents`, `PrivatePrompts` | `[]OneTerminalEvent`, `[]StreamedPromptIsPrivate` |
| `ChatProofs!RequestsApart` | `[]RequestsAreKeptApart`, from these two |
| `ChatProofs!PurgeSpares`, `SummariesForget` | `PurgeSparesKnownExchanges`, `SummaryForgetsOnlyByOverlap` |
| `ChatProofs!KeptIsKept` | `NothingKeptIsLost`, from these two |
| `QuestionProofs!PreparedTypes`, `PreparedOnce` | `[]PreparedTypeOK`, `[]PayloadServedOnce` |
| `QuestionProofs!SearchTypes`, `SearchBudget` | `[]SearchTypeOK`, `[]BudgetOverrun` |
| `QuestionProofs!OwnModels`, `SearchedReasons` | `[]ModelFitsProvider`, `[]ReasonFitsSearch` |
| `QuestionProofs!AnsweringTypes` | `[]AnsweringTypeOK` |
| `QuestionProofs!ExplainedAnswers` | `[]AnswersAreExplained`, from these two |
| `ServiceProofs!ReviewTypes`, `ReviewGaps` | `[]ReviewTypeOK`, `[]ReviewGapHasForcedRun` |
| `ServiceProofs!DeletedDocuments` | `DeletedStaysDeleted` |
| `ServiceProofs!AssetTypes`, `AvatarsReadable` | `[]AssetTypeOK`, `[]AvatarReadable` |
| `QuestionProofs!PromptsAreTyped`, `EditsCount` | `[]PromptsTypeOK`, `[]LastEditCounts` |
| `ServiceProofs!JobsViewTypes`, `JobsViewWatched` | `[]JobsViewTypeOK`, `[]ActiveIsWatched` |
| `ServiceProofs!FindingsTypes`, `ReviewsReadAll` | `[]FindingsTypeOK`, `[]SucceededSawAll` |
| `ServiceProofs!IssuesReported` | `[]FindingsAreReported` |
| `ServiceProofs!LawTypes`, `LawFounded` | `[]LawTypeOK`, `[]LawIsFounded` |
| `AccessProofs!MembersTyped`, `OwnersKept` | `[]MembershipTypeOK`, `OwnerLostOnlyByOverlap` |
| `AccessProofs!RateTyped`, `RateKept` | `[]RateTypeOK`, `[]MinuteRateKept` |
| `AccessProofs!PolicyHonoured` | `PolicyIsHonoured` |
| `QuestionProofs!ViewIsTyped`, `MessagesBelong` | `[]ViewTypeOK`, `[]ShownBelongs` |
| `PageProofs!PagesTyped` | `[]PagesTypeOK` |
| `PageProofs!PagesShow` | `[]PagesShowTheServer` |
| `PageProofs!HandlesAlive` | `[]HandlesAreAlive` |
| `PageProofs!AnswersFit` | `[]LateAnswersFit` |
| `PageProofs!AccountsKept` | `[]AccountsAreKept` |
| `PageProofs!OnboardingKept` | `OnboardingIsKept` |
| `IndexProofs!TextsAreCited` | `[]ChunksCiteTheText` |

*Pipeline.* `TypeOK` is not inductive: a step looks up `jobs[run[s].job]`, so a running worker must
know an existing job of its own queue. `PipelineProofs` proves `TypeOK /\ RunJobs` inductive in two
layers. `NextGoesOn` shows, one lemma per group of actions, that in every step each job keeps its
queue, file and chunks, new jobs are appended (`Evolves`), and each slot either goes on or takes a
job of its queue; `WorkerTypes` and `ClientTypes` then check the types that remain. The same fact
`NextGoesOn` serves the other proofs. The rest of `WorkInHand` relates what a worker holds to the
tables: `ChunksWritten` (every id in a table, job or memory was once written, which makes the
re-insertions of `EmbedBatch` steps of `ChunkIndex`), `EmbedsTheRest` (an embedding worker still
holds whatever its job lacks, even if chunks are deleted or re-inserted by others) and
`ParsedIsSent` (a parsing worker past step 80 has sent its text, and jobs are never removed from
the queue). For the index, `NextIndex` reduces the many actions to the four things they can do to
the table: nothing, replace, clear, embed one batch.

*Jobs.* `NextWorks` reduces every step to four things it can do to the queue: a worker goes on, ends its run or
takes a job, or no worker moves. From it follows `OneRunner`: a job that never stalled is active while a worker
runs it, no other worker does, and past step 100 of the processor its row reads COMPLETED. Hence
`RowAgreesWithQueue`. For `UnembeddedHasOwner` it takes four facts more: only a chunking job writes in time
(`WrittenByChunking`); while it never stalled, its worker holds all it wrote that has no vector, then an embedding
job names it (`HandsOver`: here `OneRunner` is needed, since a second runner would write behind the first); a named
chunk stays named; and an embedding job completes with none of its chunks left (`EmbeddedOnceDone`).
`ReadinessPublished` follows from `WillPublish`: while the document is untouched and its files are ready, some
parsing job is not completed and none of its runners has looked at the files already. The step that makes the last
file AVAILABLE is a worker's own, and its job is the witness, since whoever had come further with that job had
saved the file before (`SavedIsAvailable`).

*Cache.* `SupersededIsGone` needs `Coverage`: requests store answers of their own (`OwnAnswers`);
an answer that raced with no invalidation is listed only in indexes recorded in the tracking set
(`Recorded`); a running invalidation knows every index that lists an older unraced answer once it has
read the sets (`Reaches`); what was deleted is listed nowhere (`Unlisted`). `PushProperties` states
what LPUSH with LTRIM does: the new entry is in the list, nothing appears from nowhere, and the cap
holds.

*Stream.* `AcksWhatItEmitted` adds to `AckedWasEmitted` that a loop or recovery about to acknowledge
has emitted the message it is at, or passed it over; `Shape` supplies the types this rests on. `EntriesKept` says
what Redis keeps through crashes and claims: the messages up to `lastId` are pending or acknowledged, and with `LoopAt` and
`RecoveryAt` no process holds any other.

*Conversations.* `ChatInv` is the conjunction of what each actor relies on: `TurnsOK` (a request reads and
writes its user's thread only, and its events fit its program counter), `JobsOK` (a summarize job belongs
to a request that is over, and holds its user's exchanges), `ThreadsOK` (stored exchanges were answered,
and they and the memories belong to the owner of their thread, a thread that is gone has none), `PurgeOK`
(a thread that was found empty holds no exchange that the purge is to keep). The actions are grouped by
what they may change, and each group has one effect lemma (`TurnMoves`, `JobsMove`, `RowsLeave`) that
says what it leaves of the rest. `OneAsker` (requests that share a thread have one asker, also when the thread is
gone) and `SaidThere` (what is said in a thread, covered by its memory or read by its jobs was asked in it) give
`StreamedPromptIsPrivate` for a thread that is deleted while its turn still answers. `SummariesFit` adds, for what summaries forget, that a job no other job
has written behind has read every stored exchange the memory covers.

*Prepared payloads.* `SpentIsGone`: an execute that has deleted its payload leaves it gone, so that a
later read finds nothing. *Searches.* `Charged` bounds the calls of the month together with the searches
that wait by the budget and the number of searchers less one; `Distinct` says that a search waits once.

*Answers.* `ProviderKept` and `ChunksKept` say what each question relies on from one of its reads to the
next: that the provider, and the state of the chunks, are still what they were, as long as no change fell
in between. `OneAnswer` reduces a step of a question to its own two parts.

*Reviews, avatars, page.* `RowsAreReal`: a job about to save holds a copy of a document that exists, and
a document that is gone has no reviews. `FreshObjects`: an uploaded object stays until its call has named
it in the row, and no row names it earlier. `MailIsJoined`: updates wait only in a room that was joined.

*Findings.* `FindingsInv`: while no window was lost, every passage that begins before the window at hand lies
whole in a window that was answered. The step from one window to the next needs that the next begins at most
the overlap before the end of this one, and that it does not begin at or before it.

*Issues.* `Gathered` keeps what the two detectors found until it is merged. What they find is a fold, and the merge
a recursion over its list of clusters, so this rests on what those return. `FlattenedSteps` and `ClusterSteps` show
that the two recursions have a solution, and `GoingOn` (a set that goes on from each number to the next, and has
the first, has all) stands in for induction: it is stated of one set, which each proof defines for itself.
`FlattenPlaces` says what `FlattenSeq` returns for any sequences: its places are numbered, one to one, by the places
of those it was made from. `ClusterHeads` and `CollapseKeeps` then give that each issue joins a cluster of its own
category and clause, whose issue is never milder.

*Law.* The invariant `Founded` says that the candidates are those of the files, that the answer is the model's or
what the rules make of them, and that a question's statutes and hints are computed from what it was given. The
properties then are about those operators. `OrderedIs`: in a strict total order of a finite set each element has as
many before it as its place says, so that places and elements correspond one to one; it is behind the sort of
`rerankLegalByActMention`, the matches in the order of a text and the candidates in the order of their first
evidence. `Summary` says what `CandidatesOf` makes of any evidence: each law once, with its count, explicit if some
evidence is. `Backwards` renumbers the evidence of the files in reverse, so that `SameCount` holds of every law, and
`FallbackIs` that the rules take an explicit law of the highest count: hence what they take in either order was
mentioned as often. `FirstTwoIs` says that a cut to two never passes over an earlier act for a later one,
`DerivedHints` and `NormalizedHints` carry that through both cuts.

*Prompts.* Edits overlap, so that "last" is an order of some edits only: `SeenIsOver` says that what an edit
found acknowledged when it began is over. `OneRow` (a place has one row, of an edit that is over), `FoundRow` (an edit
that began after the row was written has found it, and will not insert a second one) and `PutIsThere` (what was
put is there, or a reset that is not before it or the cascade of the owner took it) then give `ReadCounts`
for each scope at the time it is read, and no later edit changes what was read.

*Text chunks.* The invariant `TextInv` says that chunks follow one another (`Follow`: each cites a piece of the
text and begins after the one before it began), that what is gathered ends with the last block that was read, and
that each character of a block is in a chunk, is gathered, or belongs to the rest after the last full stop that
`semanticSentenceChunking` drops. The code finds its cuts by scanning; the model names them as the first or last
of a set of places, which exists by the well-foundedness of the naturals (`Smallest`, `Largest`). The proof
found an ambiguity: `UNION A \cup B` in `TextIsKept` is read in two ways by TLC and by TLAPS, and the
definition is now written so that both read the one meant.

*Members.* `Unraced` is what a request still knows of the row it read when no other write fell in between:
only such a request could take the role of the last owner unnoticed, and its own checks exclude it.

*Rate.* In every last stretch of the minute, not only in the minute as a whole, the record holds at most the
largest limit, and what passed in the stretch is in the record or in one of those dropped in it (`RateInv`).
The count is by stretch because a record that is dropped takes its requests with it, whenever they came.

*Retention.* While no stale row was saved the settings are what the answered updates made of them, and a
request that no save has crossed has loaded the row as it is (`RetentionInv`).

*Chat tab.* `Undisturbed`: while the user did not move on over anything in flight, at most one request is on its
way, it is about the selected thread, and its place in the list is still its own.

*Pages.* `ScenesMove` says that in a step each scene takes a step of its own or none, so that `ScenesInv` is the
conjunction of one invariant for each, and every property of the run `Pages` follows from it.
- *Voice, previews.* `RecorderFollows`: while no two recordings overlapped, the recorder runs only as long as the page
  says so, and has a stream. `ViewerFollows`: without haste only the file to view is under way, and a dialog that
  opened alone awaits its own file only. `DrawingFollows`: after pages were turned without a clash, the wanted
  page is on the canvas or alone on its way.
- *Files.* `BoxFollows` ties what was typed, the search and the request to one another, `RowsFollow` bounds the
  deleted files that an answer or the table still has by those the deletion under way has come to. For the dialog
  of parsers, `OfferedHaveKeys` (who is offered has a key or had it taken since), `BatchIsNew` (a batch that is not
  being uploaded has not been sent).
- *Documents.* `CardsFollow`: while nothing has crossed or failed, at most one request is under way and the cards
  lag behind the rows by that one; a change that fails before the server has done it is as if never sent
  (`CardsUntouched`), and a list that is asked for alone starts afresh (`CardsAskedAgain`). `HeadFollows` says it of each edited field, `LoadsApart` of the loads of the review.
- *Members, settings, prompts.* `TableMends`: what the table has wrong, a reload under way puts right.
  `SettingsFollow`: the newest choice is on its way or saved, a plan is shown when it was answered, a key by the load
  that follows. `PromptFollows`: for each prompt the text shown is saved, or the newest `PUT` or load brings it.
- *Onboarding.* `OneRequest` (while no two were mixed, there is one and the browser has what the row had before
  it), `MarkStands` (once a completion was saved, the row keeps it but for a reset or a row read before it).
- *Accounts, tab.* `RowsTold`, `RowsStay` and `RemovalsStand` relate what a user was told to the row and
  to the requests that may still remove it; `RequestsBear` says whose user an answer holds, `LoadsLead` that the
  preferences come once, before anything is chosen.

The first parser of a list, the first of the accounts with an address and the like are named by the least number
of a set (`LeastNumber`). The attempt to prove `CompletedIsMarked` found that it did not hold as it was stated: with
three updates under way a reset can be saved after a completion and be answered before it, and the run `Pages` has
two. The property now excepts it (`resetSince`). `Onboarding` by itself passes TLC with three, and `OnboardingKept` is
for any number.

*Only model-checked.* The types of `TextChunks` (its stack of headings is cut with `SelectSeq`, which the prover
cannot expand; the labels a chunk carries are proved in `TextsAreCited`) and of `RetentionPolicy` (ages stop after
`LastDay`, which exists only when `Days` is finite, and no theorem needs that). All liveness properties stay with
TLC: fairness and ENABLED are out of the prover's reach, so `PolicyIsCarriedOut` is proved by half
(`ExpiredIsPurged` is liveness). Induction over data as a principle (a theorem that takes a predicate) cannot be
used; where a proof needs what a recursive function or a fold returns, it argues by the least number of a set it
defines for that purpose. `ReviewFindings` and `LegalEvidence` sort and select by rank (`Ordered`, `Selected`,
`Nth`) rather than with `SortSeq` and `SelectSeq` for the same reason.

## 7. Where code and documentation disagree

(a) *Chunking one file deletes the chunks of the others* (`PipelineTwoFiles`).
`chunking.processor.ts:169-174` deletes by `documentId`, and a chunk has no file id. Two uploads and
no fault: both jobs COMPLETED, both files AVAILABLE, only the last chunked file can be found.
`document-job-lock.ts:28-29` says the lock eliminates "the dual-chunk overwrite race", and
`documents.service.ts:655` that reindex enqueues "a chunking job per file". The lock orders the
replacements; the last still wins.

(b) *A deletion can leave an object in the storage* (`PipelineRemoval`). An upload that saves its file
row after `deleteDocument` loaded the files (`document-deletion.orchestrator.ts:41`) is not among
those whose object is deleted, while its row cascades away. The comment at line 35 says "Delete a
document and all associated data."

(c) *An invalidation can make an answer unreachable for the next* (`RagCacheStale`). The sets are read
outside the MULTI and deleted whole. An answer stored in between keeps its data key, and its list when
that was not read, but is tracked no more; the next invalidation returns early and the answer is
served until its time to live ends. `rag-cache.service.ts:190` says "atomic via MULTI/EXEC".

(d) *A progress message that failed is not retried* (`ProgressStuck`).
`job-progress-stream.consumer.ts:169` says "message will be retried or claimed". `XREADGROUP >` does
not return it again and the recovery skips entries of its own name (line 82); one API process runs,
and its name, made from the pid, is the same after a restart of its container.

## 8. Behaviours worth knowing

Documents.
- `ParsePublish` saves a document loaded earlier: deleted meanwhile, it is inserted again; and it
  throws, and the job retries, when a file was uploaded meanwhile.
- `ParseSave` inserts a file row that `deleteFile` removed; `EmbedBatch` inserts chunks that a
  replacement or reindex removed, so old, embedded chunks can stand beside new ones.
- Chunks of a deleted file stay in the index (`DeleteFileRow`).
- A reindex that fails between the deletion of the chunks and the new jobs leaves the document with neither
  (`ReindexStops`), until somebody asks again. Nothing in the code undoes it, so no property forbids it.
- A review of a document none of whose files is AVAILABLE with a text, as while its file is replaced, throws and
  uses up its attempts (`Inspect`).
- A crash after publishing and the deletion of the file before the next delivery: the jurisdiction
  evaluation is never queued.
- A review that had to be degraded is used again until somebody forces another.
- Paragraph chunks never overlap, although `chunking.service.ts:72` and 159 say so: the overlap is cut from
  `accumulatedText` (162) after `flush()` (157) has emptied it (117), and `startIndex` (164) is too small by it.
  `chunkBySentences` does overlap.
- In the chunker, a code block above 1500 characters is split, although a test is named "keeps fenced
  code blocks intact even when they exceed CHUNK_SIZE"; the label of a chunk is that of its first block,
  not of the "nearest enclosing heading" of all; the tail of a text behind its last full stop is dropped
  when it is cut into sentences (line 418); `startIndex` and `endIndex` add up lengths (114, 164) and
  need not be places in the text, as `chunk.entity.ts:48` has them.
- `XREADGROUP BLOCK` runs on the Redis connection that the process also uses for other commands.

Chat.
- `chat/prepare` passes the thread id of its body on without a check (`chat.controller.ts:447`, 477), and
  `prepareForChat` puts the memory of that thread into the prompt and returns it (`rag.service.ts:408`, 512). The
  stream (287) and the execute (530) do check theirs. So no property claims that a prepared prompt is private.
- Two overlapping executes of one prepared request may both answer it, and both store the exchange.
- In legal review mode the stream and the execute ask for a structured answer; what follows the
  provider and what follows the payload is described in `Answering`. An execute always sends
  `payload.model`; a stream that is not in legal mode sends `chatModel` to any provider. The confidence
  of a structured answer is the model's own, even when only the relaxed floor let its context through.
- The mode is read from the environment alone; the comment at `rag.service.ts:1037-1039` speaks of a
  workspace's setting, which nothing writes.
- The stream calls the web search before it knows whether the gate will let the results through; an
  execute decides `notFound` without them.
- `chat.controller.ts` does not pass on the event `legal-answer`, and leaves `legalAnswer` and
  `notFoundReason` out of the message it stores.
- Legal mode looks for prompts of variant `legal-review-v2`, while the editors write `default` unless a
  request names a variant; a reset never removes a named one, and a global prompt never gets one. Changed
  prompts do not invalidate cached answers.
- The order of exchanges is that of `createdAt`; the models assume no ties.

Reviews and law.
- The cap of 200 hits per rule lets 201 through. "One issue per match" does not survive the merge, which
  collapses the matches of a rule into one; issues of rules carry no clause in `runReview`. Where "rules win",
  the first issue with a legislation reference wins. A message is compared with the first of a cluster only.
- The status `failed` of the detector never reaches a review, which is then `succeeded` or `degraded`.
- `resolveJurisdiction` is called nowhere. The two-letter pattern is case-insensitive, so that "the laws of Canada"
  reads as US-CA and "Denmark" as US-DE, and words such as "de", "us" or "ca" count as evidence; a state in lower
  case gives the code "US-"; words behind an explicit clause can defeat it; `R$` counts as `$`.
- The confidence of an inferred candidate depends on the order of the files; a clause counts once per pattern that
  matches it; the model's law is not compared with the candidates and may be unknown.

Workspaces and page.
- A retention override of 0 days counts as none where it is read with `||` (`purge.service.ts:199`,
  `retention.service.ts`) and as zero where with `??` (`purge.service.ts:288`).
- `register` stores an e-mail address as typed (`auth.service.ts:52-66`), `validateUser` looks for it in
  lower case (113).
- `recordTokens` of the rate limiter is never called.
- Object URLs can outlive their page: `account-settings.component.ts:157-166` and
  `workspaces.component.ts:242-260` take one after the page is gone, and the latter forgets one of two loads.
- The end of a tour sends two updates at once (`tour.service.ts:477-481`), each of which saves the row it read: one
  of the marks can be lost. A guide can begin before the state is there, since `stateLoadAttempted` survives a
  sign-out (`route-guide.service.ts:62`).
- A page that loses its socket does not subscribe to its document's room again.
- Beginning a guide completes the primary tour it interrupts, with both its updates (`BeginTour`).
- A refused deletion of an account has already removed its avatar and storage configuration.
- A deactivated user's address can be invited no more: the invitation finds him and is refused.
- The chat tab of the account settings loads its preferences each time it is selected, over what was chosen.
- The toolbar of the members page hides the fields of a registration and keeps their controls, so that the
  form is invalid with nothing to fill in.
- Saving one prompt of a document fills every field again and discards what was typed in the others.
- After an upload the table of files is reloaded without its search; files stored before the upload was cancelled
  are not listed at all.
- The answer to one opening of the parser dialog overwrites what the user chose in the next. Confirmed before any
  answer it sends `docling`, whatever the workspace prefers; if a call fails before any list was there it cannot be
  confirmed, though `docling` is chosen. The adapters of LlamaParse and Unstructured only throw, which the fallback
  does not cover; `application/x-pdf` is accepted and read by no parser.
- A rerun of the review is followed by one reload after four seconds, which the run usually outlasts. Title and law
  of a document are saved as a whole row each: two that overlap revert one another while the page shows both.
- Two answers can be heard at once: `resetState` (`document-view.component.ts:2322-2330`) of a message whose play was
  interrupted comes late and forgets the audio that sounds now. The microphone stays on when the page is left while
  the browser asks for it (839-861). `onstop` gives the recorder up (`voice-recording.service.ts:50`) before it
  reads its type (51), so mp4 is sent as webm.
- `loadContent` of the file dialog (`file-content-dialog.component.ts:133-148`) sets whatever comes last. The effect
  that draws a PDF (`pdf-viewer.component.ts:143-149`) runs before the document is there and is not woken by it.
- The switch of a document's prompt shows the old value for a moment after it was saved: what was chosen is cleared
  when the reload begins (`document-prompts-editor.component.ts:49`).
- In the list of documents, the prompt dialog can stay open behind a cancelled deletion, and the context
  menu's delete does not look at `deletingDocId`.

## 9. What is not modelled

Inside modelled parts:
- *Data.* Columns no property distinguishes (progress percentages, errors, most metadata); similarity, which of
  the cached answers it selects, and the texts of prompts, answers and citations; regular expressions, of which the
  models keep what they match.
- *Pipeline.* A change of the active embedding model between deliveries; `updateDocument`, versions and
  re-evaluation; several documents (nothing is shared between two but the workers).
- *Cache and stream.* Corrupt entries; trimming at MAXLEN, recoveries of one process
  that overlap (more than a minute each), the limit of 100 entries per scan.
- *Chat.* The audit entries and the enqueued summary of an execute; listing and renaming; memories of scope document and workspace, which no code writes.
- *Members.* The start of the API, in which the superadmin is made owner, is one step, and a request's
  guards read at the moment it comes in.
- *Settings and limits.* Validation and encryption of fields; the limits per hour, per day and of tokens,
  which have the form of the one per minute.
- *Pages.* The rooms themselves (socket.io and its Redis adapter); renaming a workspace; the storage form of the
  account; changes to a workspace's documents by others or in another tab; the forms of retention and chunking;
  column filters and the fuzzy search; Word files and images; the context file and categories of a new document; what a step of a tour points at; the server's checks of
  a request where another module has them.

Left out entirely, with the reason in `PROJECT.json`: the clients of language, embedding, parsing and
transcription services, loading and search of the legal corpus, audit, storage drivers, migrations and scripts, the Python services, the remaining pages of the web client, the shared
package, health checks and file types. Each is a pure function, a client of something external, or one
read or write per request.

The models stand for about three tenths of the lines of the implementation. Most of the rest are forms, templates,
DTOs, adapters, clients, queries for lists and the wording of prompts, where a line changes no state that
another actor could meet.

## 10. Plan

Done, in this order: the pipeline with `ChunkIndex`, its runs and proofs; `RagCache` and
`JobProgressStream` with theirs; `Conversations` (threads, memory, purge), `PreparedChat`, `ChatView`,
`WebSearch`; `DocumentReviews`, `Membership`, `RetentionPolicy`, `RateLimit`, `AccountAssets`, `JobsView`;
`TextChunks`, `Prompts`, `Answering`; proofs for most of these; what a browser keeps and the accounts behind it
(`MCPages`); what a review finds and what a law rests on (`ReviewFindings`, `LegalEvidence`).

Then proofs about the rest: members, rate, retention, prompts, texts, findings, law, the chat tab, and what the
queue and the parsers promise (`OneRunner`, `WillPublish`); every property of the pages (`ScenesInv`). Every
invariant that a run checks is now a theorem, and so are the types of the stream, the answers, the findings and
the law.

Next: the calls of the parsing and transcription clients with their timeouts and fallbacks, if they prove to
hold state between two calls.
