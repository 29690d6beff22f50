\* Jurisdiction evaluation and review of one document.
CONSTANTS
    Evaluations = {"e1", "e2"}
    Reruns = {"r"}
    Jurisdictions = {"IE"}
    Models = {"llm", "null"}
    ReviewAttempts = 2
    ReviewFaults = 1
\* Members of one workspace.
    People = {"root", "ann"}
    SuperAdmin = "root"
    StartRoles = {"none", "ADMIN", "OWNER"}
    GrantedRoles = {"VIEWER", "OWNER"}
    AccessRequests = {"a1", "a2"}
    AccessBudget = 2
\* The settings row and the purge of a file and of a document's text.
    Items = {"f1", "d1"}
    KindOf <- MCKindOf
    DefaultDays <- MCDefaultDays
    Days = {0, 1}
    Writers = {"w1", "w2"}
    RetentionFaults = 1
\* The guard of one key.
    Minute = 2
    Day = 4
    Limits = {1, 2}
    LastTick = 9
    Losses = 1
\* The avatar of one user.
    AssetCalls = {"c1", "c2", "c3"}
    AssetFaults = 2
\* The page of one document.
    Jobs = {"j1"}
    ShownFaults = 1
    Uploads = 1
    Mail = 1
\* One text: its chunks hold 4 characters and overlap by 1.
    ChunkSize = 4
    ChunkOverlap = 1
    MaxBlocks = 3
    BlockLengths = {1, 3, 5, 8}
    Depths = {1, 2}
\* The prompts of one document.
    Edits = {"d1", "d2", "d3"}
    Readings = {"r1"}
    Places <- MCPlaces
    Modes = {"default", "legal"}
\* A text of up to four terms, read in windows of two that share one.
    ReviewTexts <- MCReviewTexts
    RuleFiles <- MCRuleFiles
    TextLaws = {"IE", "none"}
    LlmAnswers <- MCLlmAnswers
    AlikeMessages <- MCAlikeMessages
    WindowChars = 2
    WindowOverlap = 1
    HitCap = 1
\* Two files of up to two phrases, and a question.
    FileTexts <- MCFileTexts
    MaxLawFiles = 2
    GivenLaws <- MCGivenLaws
    Hints = {"A", "a", "B", "C", "x"}
    HintKey <- MCHintKey
    HintHead <- MCHintHead
    ShortHints = {"x"}
    LegalChunkLists <- MCLegalChunkLists
    CitationLists <- MCCitationLists
SPECIFICATION ScenesSpec
INVARIANTS
    ReviewGapHasForcedRun
    MinuteRateKept
    AvatarReadable
    ActiveIsWatched
    ChunksCiteTheText
    LastEditCounts
    SucceededSawAll
    FindingsAreReported
    LawIsFounded
PROPERTIES
    DeletedStaysDeleted
    EvaluatedIsReviewed
    OwnerLostOnlyByOverlap
    PolicyIsCarriedOut
\* Requests, faults and time are bounded, so a behaviour may stop.
CHECK_DEADLOCK FALSE
