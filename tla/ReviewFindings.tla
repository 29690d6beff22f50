---------------------------- MODULE ReviewFindings ----------------------------
(***************************************************************************)
(* What one review finds (document-review/): the rules run over the whole  *)
(* text, the model reads it window by window, each window with one retry,  *)
(* and the issues of both are merged into the review's.                    *)
(*                                                                         *)
(* A text is a sequence of terms, and a rule's regular expression a term.  *)
(* What the model answers, and which messages are alike, is data.          *)
(***************************************************************************)
EXTENDS Naturals, SequencesExt

CONSTANTS ReviewTexts,    \* texts a parsed file may have
          RuleFiles,      \* the YAML files of the active version, in order
          TextLaws,       \* jurisdictions of the document
          LlmAnswers,     \* issues a valid answer may hold, in order
          AlikeMessages,  \* pairs whose similarity reaches SIMILARITY_TIE_BREAKER
          WindowChars,    \* MAX_WINDOW_CHARS
          WindowOverlap,  \* WINDOW_OVERLAP
          HitCap          \* the cap of a rule's hits

ASSUME FindingsAssumption ==
    /\ \A text \in ReviewTexts : Len(text) \in Nat \ {0} /\ DOMAIN text = 1 .. Len(text)
    /\ WindowChars \in Nat /\ WindowOverlap \in Nat /\ WindowOverlap < WindowChars
    /\ HitCap \in Nat

VARIABLES reviewText, textLaw,
          loadedRules,   \* the files that could be read and parsed
          modelAsked,    \* LEGAL_REVIEW_MODE is on
          reviewStep,    \* rules, model, merge, done
          ruleIssues, llmIssues,
          windowFrom,    \* the window at hand: what comes before it
          attempt,       \* calls of the model about that window
          degraded,
          findings,      \* the review's issues
          readWindows    \* HISTORY: windows whose answer was valid

findingsVars == <<reviewText, textLaw, loadedRules, modelAsked, reviewStep, ruleIssues,
                  llmIssues, windowFrom, attempt, degraded, findings, readWindows>>

\* ISSUE_SEVERITY_RANK
Severity == [info |-> 0, low |-> 1, medium |-> 2, high |-> 3, blocker |-> 4]
SeverityOf(issue) == Severity[issue.severity]

Issues == [severity : DOMAIN Severity, category : STRING, clause : STRING \cup {"none"},
           message : STRING, law : STRING]

ASSUME IssuesAssumption ==
    /\ LlmAnswers \subseteq Seq(Issues)
    /\ Len(RuleFiles) \in Nat /\ DOMAIN RuleFiles = 1 .. Len(RuleFiles)
    /\ \A f \in DOMAIN RuleFiles :
          LET rules == RuleFiles[f].rules IN
          /\ RuleFiles[f].category \in STRING
          /\ Len(rules) \in Nat /\ DOMAIN rules = 1 .. Len(rules)
          /\ \A r \in DOMAIN rules :
                /\ rules[r].severity \in DOMAIN Severity
                /\ rules[r].message \in STRING /\ rules[r].law \in STRING

FindingsInit ==
    /\ reviewText \in ReviewTexts /\ textLaw \in TextLaws
    /\ loadedRules \in SUBSET DOMAIN RuleFiles
    /\ modelAsked \in BOOLEAN
    /\ reviewStep = "rules"
    /\ ruleIssues = <<>> /\ llmIssues = <<>>
    /\ windowFrom = 0 /\ attempt = 1
    /\ degraded = FALSE
    /\ findings = <<>>
    /\ readWindows = {}

-----------------------------------------------------------------------------
(* The rules.                                                              *)
AppliesTo(file) == file.appliesTo \in {"any", textLaw}

Occurs(term) == {i \in DOMAIN reviewText : reviewText[i] = term}

\* The matches come in the order of the text.
Nth(places, i) == CHOOSE place \in places : Cardinality({p \in places : p < place}) = i - 1

\* The clause of the chunk that holds an offset; two characters join chunks.
FindClauseRef(chunks, offset) ==
    LET next[i \in 0 .. Len(chunks)] == IF i = 0 THEN 0 ELSE next[i - 1] + chunks[i].length + 2
        holding == {i \in DOMAIN chunks : offset < next[i]}
    IN IF holding = {} THEN "none" ELSE chunks[Min(holding)].clause

\* A review passes the whole text as one chunk without a clause.
Chunks == <<[length |-> Len(reviewText), clause |-> "none"]>>

RuleIssue(file, rule, clause) ==
    [severity |-> rule.severity, category |-> file.category, clause |-> clause,
     message |-> rule.message, law |-> rule.law]

\* One issue for each match, until one more than the cap; a pattern without
\* the flag g finds its first match only.
PatternHits(file, rule) ==
    LET found == Occurs(rule.pattern)
        kept  == Min({Cardinality(found), IF rule.global THEN HitCap + 1 ELSE 1})
    IN [i \in 1 .. kept |-> RuleIssue(file, rule, FindClauseRef(Chunks, Nth(found, i) - 1))]

\* One issue when the topic is there and none of its statutes is.
StatuteMissing(rule) ==
    Occurs(rule.topic) # {} /\ \A term \in rule.requiredAny : Occurs(term) = {}

\* A rule of another shape, or whose pattern is no expression, finds nothing.
RuleHits(file, rule) ==
    CASE rule.shape = "pattern" -> PatternHits(file, rule)
      [] rule.shape = "statute" /\ StatuteMissing(rule) -> <<RuleIssue(file, rule, "none")>>
      [] OTHER -> <<>>

FileHits(file) == FlattenSeq([r \in DOMAIN file.rules |-> RuleHits(file, file.rules[r])])

Detect ==
    FlattenSeq([f \in DOMAIN RuleFiles |->
        IF f \in loadedRules /\ AppliesTo(RuleFiles[f]) THEN FileHits(RuleFiles[f]) ELSE <<>>])

RunRules ==
    /\ reviewStep = "rules"
    /\ ruleIssues' = Detect
    /\ reviewStep' = IF modelAsked THEN "model" ELSE "merge"
    /\ UNCHANGED <<reviewText, textLaw, loadedRules, modelAsked, llmIssues, windowFrom, attempt,
                   degraded, findings, readWindows>>

-----------------------------------------------------------------------------
(* The model.                                                              *)
\* No provider, or the review was aborted: the rules' issues alone are kept.
DetectorFails ==
    /\ reviewStep = "model" /\ windowFrom = 0 /\ attempt = 1
    /\ degraded' = TRUE
    /\ reviewStep' = "merge"
    /\ UNCHANGED <<reviewText, textLaw, loadedRules, modelAsked, ruleIssues, llmIssues,
                   windowFrom, attempt, findings, readWindows>>

WindowEnd == Min({windowFrom + WindowChars, Len(reviewText)})

\* Mutant: windows that do not overlap.
MutantNextStart == WindowEnd

NextStart == WindowEnd - WindowOverlap

\* The loop over the windows goes on, whatever became of this one.
NextWindow ==
    /\ attempt' = 1
    /\ IF WindowEnd = Len(reviewText)
       THEN reviewStep' = "merge" /\ UNCHANGED windowFrom
       ELSE windowFrom' = NextStart /\ UNCHANGED reviewStep
    /\ UNCHANGED <<reviewText, textLaw, loadedRules, modelAsked, ruleIssues, findings>>

ValidAnswer ==
    /\ reviewStep = "model"
    /\ \E answer \in LlmAnswers : llmIssues' = llmIssues \o answer
    /\ readWindows' = readWindows \cup {windowFrom + 1 .. WindowEnd}
    /\ NextWindow
    /\ UNCHANGED degraded

\* An answer that does not fit the schema is asked for once more.
InvalidAnswer ==
    /\ reviewStep = "model" /\ attempt = 1
    /\ attempt' = 2
    /\ UNCHANGED <<reviewText, textLaw, loadedRules, modelAsked, reviewStep, ruleIssues,
                   llmIssues, windowFrom, degraded, findings, readWindows>>

\* The second does not fit either, or a call throws: the window is skipped.
WindowDropped ==
    /\ reviewStep = "model"
    /\ degraded' = TRUE
    /\ NextWindow
    /\ UNCHANGED <<llmIssues, readWindows>>

-----------------------------------------------------------------------------
(* The merge.                                                              *)
SameBucket(a, b) == a.category = b.category /\ a.clause = b.clause

Alike(a, b) == a.message = b.message \/ {a.message, b.message} \in AlikeMessages

\* Each issue joins the first cluster of its key whose first message is like
\* its own, or begins one: the position of that cluster's first issue.
ClusterOf(issues) ==
    LET first[i \in DOMAIN issues] ==
            LET heads == {j \in 1 .. i - 1 :
                            first[j] = j /\ SameBucket(issues[j], issues[i]) /\ Alike(issues[j], issues[i])}
            IN IF heads = {} THEN i ELSE Min(heads)
    IN first

\* Mutant: the severity of the first, a rule's, stands for the cluster's.
MutantCollapse(issues, cluster) == issues[Min(cluster)]

\* The worst severity; message and law of the first that names a law.
Collapse(issues, cluster) ==
    LET worst    == Min({i \in cluster : \A j \in cluster :
                            SeverityOf(issues[j]) <= SeverityOf(issues[i])})
        withLaws == {i \in cluster : issues[i].law # "none"}
    IN IF withLaws = {} THEN issues[worst]
       ELSE [issues[worst] EXCEPT !.message = issues[Min(withLaws)].message,
                                  !.law = issues[Min(withLaws)].law]

\* The order is by severity; the reader of a review sorts it as well.
Merged(issues) ==
    LET first == ClusterOf(issues)
        heads == {i \in DOMAIN issues : first[i] = i}
    IN [h \in heads |-> Collapse(issues, {i \in DOMAIN issues : first[i] = h})]

MergeIssues ==
    /\ reviewStep = "merge"
    /\ findings' = Merged(ruleIssues \o llmIssues)
    /\ reviewStep' = "done"
    /\ UNCHANGED <<reviewText, textLaw, loadedRules, modelAsked, ruleIssues, llmIssues,
                   windowFrom, attempt, degraded, readWindows>>

FindingsNext ==
    \/ RunRules \/ DetectorFails \/ ValidAnswer \/ InvalidAnswer \/ WindowDropped \/ MergeIssues

FindingsSpec == FindingsInit /\ [][FindingsNext]_findingsVars

-----------------------------------------------------------------------------
FindingsTypeOK ==
    /\ reviewText \in ReviewTexts /\ textLaw \in TextLaws
    /\ loadedRules \subseteq DOMAIN RuleFiles
    /\ reviewStep \in {"rules", "model", "merge", "done"}
    /\ windowFrom \in 0 .. Len(reviewText) /\ attempt \in 1 .. 2
    /\ \A w \in readWindows : w \subseteq DOMAIN reviewText
    /\ modelAsked \in BOOLEAN /\ degraded \in BOOLEAN

ReviewStatus == IF degraded THEN "degraded" ELSE "succeeded"

(* A review that says it succeeded has read everything: a passage of one   *)
(* more than the overlap lies whole in a window the model answered about.  *)
SucceededSawAll ==
    reviewStep = "done" /\ modelAsked /\ ReviewStatus = "succeeded" =>
        \A from \in DOMAIN reviewText :
            \E w \in readWindows :
                from .. Min({from + WindowOverlap, Len(reviewText)}) \subseteq w

Kept(issue) ==
    \E h \in DOMAIN findings :
        SameBucket(findings[h], issue) /\ SeverityOf(findings[h]) >= SeverityOf(issue)

\* What the rules promise of a text, said without their loops.
Fires(rule) ==
    \/ rule.shape = "pattern" /\ Occurs(rule.pattern) # {}
    \/ rule.shape = "statute" /\ StatuteMissing(rule)

(* Whatever the merge collapses and the model fails at, each rule that     *)
(* fires, and each issue of a valid answer, is in the review by category,  *)
(* clause and at least its own severity.                                   *)
FindingsAreReported ==
    reviewStep = "done" =>
        /\ \A f \in loadedRules : AppliesTo(RuleFiles[f]) =>
               \A r \in DOMAIN RuleFiles[f].rules :
                   LET rule == RuleFiles[f].rules[r]
                   IN Fires(rule) => Kept(RuleIssue(RuleFiles[f], rule, "none"))
        /\ \A i \in DOMAIN llmIssues : Kept(llmIssues[i])
=============================================================================
