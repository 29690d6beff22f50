\* Chat: one document, one user asking twice, a second one who may own a thread.
CONSTANTS
    Turns = {"t1", "t2"}
    Threads = {"a"}
    Users = {"u", "v"}
    Asker <- MCAsker
    HistoryLimit = 1
    SummaryAttempts = 2
    SummaryWorkers = 2
    ChatFaults = 1
\* chat/prepare and chat/execute, one user with a thread and one without.
    RequestIds = {"p1", "p2"}
    Executes = {"x1", "x2"}
    Callers = {"u", "v"}
    OldThreads = {"own"}
    Owner <- MCOwner
\* The browser's chat tab.
    Questions = {"q1", "q2"}
    ViewThreads = {"a", "b"}
    ViewBudget = 2
\* Web search.
    Searchers = {"s1", "s2", "s3"}
    MonthlyBudget = 2
    Gap = 1
    Timeout = 2
    Months = 1
\* The answer: one provider with a legal review model of its own, two chunks.
    Asked = {"q"}
    Providers = {"openai", "anthropic"}
    OpenAI = "openai"
    Overridden = {"anthropic"}
    SeenRanks = {0, 1, 3}
    ChunkIds = {"c1", "c2"}
    ChoiceBudget = 1
    IndexBudget = 2
SPECIFICATION ScenesSpec
INVARIANTS
    RequestsAreKeptApart
    PayloadServedOnce
    ShownBelongs
    BudgetOverrun
    AnswersAreExplained
PROPERTIES
    NothingKeptIsLost
    OrphanMemoryPurged
    SearchAnswered
\* Requests, faults and clicks are bounded, so a behaviour may stop.
CHECK_DEADLOCK FALSE
