\* Two answers read aloud.
CONSTANTS
    Slots = {1, 2}
    Sounds = {1, 2, 3}
    Switches = 1
\* A question spoken.
    MicRequests = {"p1", "p2"}
\* Two texts and a PDF opened one over another.
    Files = {"t1", "t2", "p"}
    TextFiles = {"t1", "t2"}
\* Two PDF files in one viewer.
    Pdfs = {"a", "b"}
    PageCount <- MCPageCount
    Turns = 3
\* A table of one row, searched for nothing or for one of two files.
    MaxFile = 2
    PageLimit = 1
    Texts = {"", "a"}
    Matching <- MCMatching
    Changes = 2
\* Two files, sent one after the other, and two parsers.
    PickFiles = {"f", "g"}
    FormatOf <- MCFormatOf
    Refused = {}
    MaxBatch = 2
    AtOnce = 1
    ParserOrder <- MCParserOrder
    KeyParsers = {"dpt2"}
    Reads <- MCReads
    Openings = {"o1", "o2"}
    KeyChanges = 1
\* Two documents and the form of another.
    PageDocs = {"d1", "d2"}
    Titles = {"t1", "t2"}
    Drafts = {"x", "y"}
    Loads = {1, 2}
    PageChanges = 3
\* The page of one of them.
    Laws = {"l", "m"}
    HeadSteps = 3
\* A user with one guide and one item of the checklist.
    Guides = {"g"}
    Items = {"i"}
    UpdateCalls = 2
\* Two spellings of one address.
    Spellings = {"ann", "Ann"}
    Normal = "ann"
    Passwords = {"p", "q"}
    AccountCalls = 2
\* Two users of one tab, with two avatars between them.
    Persons = {"u", "v"}
    Choices = {"d", "x"}
    Blobs = {1, 2}
    AccountSteps = 3
\* Two workspaces and their logos.
    Works = {"a", "b"}
    LogoUrls = {1, 2}
    WorkSteps = 2
\* Two others than the owner.
    Addresses = {"m", "n"}
    GivenRoles = {"MEMBER", "OWNER"}
    MenuRoles = {"MEMBER", "ADMIN"}
    MemberSteps = 2
\* A choice, a plan and two API keys.
    Keys = {"k1", "k2"}
    SettingSteps = 2
\* Two prompts of a document.
    PromptKeys = {"p1", "p2"}
    Wordings = {"w"}
    EditorSteps = 3
SPECIFICATION ScenesSpec
INVARIANTS
    PagesTypeOK
    PagesShowTheServer
    HandlesAreAlive
    LateAnswersFit
    AccountsAreKept
PROPERTIES
    OnboardingIsKept
\* The users' presses are bounded, so a behaviour may stop.
CHECK_DEADLOCK FALSE
