----------------------------- MODULE MCServices -----------------------------
(***************************************************************************)
(* The services beside the pipeline and the chat, on one small instance.   *)
(* The components share no variable, so a behaviour shows one of them      *)
(* while the others stay as they began: every state and step of each is    *)
(* here, and nothing of their product.                                     *)
(***************************************************************************)
EXTENDS DocumentReviews, Membership, RetentionPolicy, RateLimit, AccountAssets, JobsView,
        TextChunks, Prompts, ReviewFindings, LegalEvidence, TLC

VARIABLE scene

MCKindOf == "f1" :> "file" @@ "d1" :> "text"
MCPlaces ==
    {[scope |-> "document", variant |-> "default"], [scope |-> "document", variant |-> "legal"]}
MCDefaultDays == [kind \in {"file", "text"} |-> 2]

\* Terms: a placeholder p, a topic t with its statute s, and plain words x.
MCReviewTexts ==
    [1 .. 4 -> {"p", "t"}] \cup UNION {[1 .. n -> {"p", "t", "s", "x"}] : n \in 1 .. 3}
MCRule(shape, severity, law) ==
    [shape |-> shape, pattern |-> "p", global |-> TRUE, topic |-> "t", requiredAny |-> {"s"},
     severity |-> severity, message |-> "m1", law |-> law]
MCRuleFiles ==
    <<[appliesTo |-> "any", category |-> "c",
       rules |-> <<MCRule("pattern", "low", "none"),
                   [MCRule("pattern", "medium", "act") EXCEPT !.global = FALSE]>>],
      [appliesTo |-> "IE", category |-> "d", rules |-> <<MCRule("statute", "high", "act")>>]>>
MCIssue(severity, category, clause, message, law) ==
    [severity |-> severity, category |-> category, clause |-> clause, message |-> message, law |-> law]
MCLlmAnswers ==
    {<<>>, <<MCIssue("high", "c", "none", "m2", "none")>>,
     <<MCIssue("low", "c", "1", "m2", "none"), MCIssue("blocker", "c", "1", "m3", "act")>>}
MCAlikeMessages == {{"m1", "m2"}, {"m2", "m3"}}

MCFileTexts ==
    {<<>>} \cup {<<phrase>> : phrase \in DOMAIN Matches}
    \cup {<<"the laws of Canada", phrase>> : phrase \in DOMAIN Matches}
    \cup {<<phrase, "governing law: IE">> : phrase \in DOMAIN Matches}
MCGivenLaws == {Law("IE", ""), Law("US", "CA")}
MCHintKey == "A" :> "a" @@ "a" :> "a" @@ "B" :> "b" @@ "C" :> "c" @@ "x" :> "x"
MCHintHead == "A" :> "A" @@ "a" :> "a" @@ "B" :> "B" @@ "C" :> "B" @@ "x" :> "x"
MCActs == {"A", "B", "C", "x", "none"}
MCLegalChunkLists ==
    {<<>>} \cup
    {<<[id |-> 1, act |-> first, score |-> 9], [id |-> 2, act |-> second, score |-> score],
       [id |-> 3, act |-> "B", score |-> 8]>> : first \in MCActs, second \in MCActs, score \in {8, 9}}
MCCitationLists == {<<>>, <<"a">>, <<"C", "x">>, <<"a", "B">>}

AllVars == <<scene, reviewVars, accessVars, retentionVars, rateVars, assetVars, jobsViewVars,
             chunkingVars, promptVars, findingsVars, lawVars>>

\* The membership scene alone starts from any members.
QuietMembership == ~workspace /\ \A u \in People \ {SuperAdmin} : account[u] = "none"

\* And the findings scene from any text and rules.
QuietFindings ==
    /\ reviewText = CHOOSE t \in ReviewTexts : TRUE
    /\ textLaw = CHOOSE l \in TextLaws : TRUE
    /\ loadedRules = {} /\ modelAsked = TRUE

\* What a scene does not show is settled before TLC enumerates it.
ScenesInit ==
    /\ scene \in {"reviews", "members", "retention", "rate", "assets", "jobs", "text", "prompts",
                 "findings", "law", "question"}
    /\ ReviewInit /\ RateInit /\ PromptsInit
    /\ MembershipInit /\ (scene = "members" \/ QuietMembership)
    /\ RetentionInit /\ (scene = "retention" \/ ~settings.exists)
    /\ scene = "assets" \/ storage = "default"
    /\ AssetInit
    /\ JobsViewInit
    /\ scene = "jobs" \/ (~hasSocket /\ rows = jobsCached /\ \A j \in Jobs : rows[j] = "none")
    /\ scene = "text" \/ strategy = "paragraph"
    /\ ChunkingInit
    /\ scene = "findings" \/ QuietFindings
    /\ FindingsInit
    /\ scene = "law" \/ lawFiles = <<>>
    /\ LawInit

\* Whose turn it is, and what stays while the others have theirs.
BesideReviews ==
    UNCHANGED <<scene, accessVars, retentionVars, rateVars, assetVars,
                jobsViewVars, chunkingVars, promptVars, findingsVars, lawVars>>
BesideMembers ==
    UNCHANGED <<scene, reviewVars, retentionVars, rateVars, assetVars,
                jobsViewVars, chunkingVars, promptVars, findingsVars, lawVars>>
BesideRetention ==
    UNCHANGED <<scene, reviewVars, accessVars, rateVars, assetVars,
                jobsViewVars, chunkingVars, promptVars, findingsVars, lawVars>>
BesideRate ==
    UNCHANGED <<scene, reviewVars, accessVars, retentionVars, assetVars,
                jobsViewVars, chunkingVars, promptVars, findingsVars, lawVars>>
BesideAssets ==
    UNCHANGED <<scene, reviewVars, accessVars, retentionVars, rateVars,
                jobsViewVars, chunkingVars, promptVars, findingsVars, lawVars>>
BesideJobs ==
    UNCHANGED <<scene, reviewVars, accessVars, retentionVars, rateVars,
                assetVars, chunkingVars, promptVars, findingsVars, lawVars>>
BesideText ==
    UNCHANGED <<scene, reviewVars, accessVars, retentionVars, rateVars,
                assetVars, jobsViewVars, promptVars, findingsVars, lawVars>>
BesidePrompts ==
    UNCHANGED <<scene, reviewVars, accessVars, retentionVars, rateVars,
                assetVars, jobsViewVars, chunkingVars, findingsVars, lawVars>>

BesideFindings ==
    UNCHANGED <<scene, reviewVars, accessVars, retentionVars, rateVars,
                assetVars, jobsViewVars, chunkingVars, promptVars, lawVars>>
BesideLaw ==
    UNCHANGED <<scene, reviewVars, accessVars, retentionVars, rateVars,
                assetVars, jobsViewVars, chunkingVars, promptVars, findingsVars>>

ScenesNext ==
    \/ scene = "reviews" /\ ReviewNext /\ BesideReviews
    \/ scene = "members" /\ MembershipNext /\ BesideMembers
    \/ scene = "retention" /\ RetentionNext /\ BesideRetention
    \/ scene = "rate" /\ RateNext /\ BesideRate
    \/ scene = "assets" /\ AssetNext /\ BesideAssets
    \/ scene = "jobs" /\ JobsViewNext /\ BesideJobs
    \/ scene = "text" /\ ChunkingNext /\ BesideText
    \/ scene = "prompts" /\ PromptsNext /\ BesidePrompts
    \/ scene = "findings" /\ FindingsNext /\ BesideFindings
    \/ scene = "law" /\ EvaluationSteps /\ BesideLaw
    \/ scene = "question" /\ AskAboutLaw /\ BesideLaw

\* Each component's own fairness, in the behaviours that show it.
ScenesFairness ==
    /\ WF_AllVars(/\ scene = "reviews" /\ BesideReviews
                  /\ \E e \in Evaluations : EvaluationStep(e))
    /\ WF_AllVars(/\ scene = "reviews" /\ BesideReviews
                  /\ \E j \in ReviewJobs : ReviewStep(j))
    /\ WF_AllVars(scene = "retention" /\ CleaningStep /\ BesideRetention)

ScenesSpec == ScenesInit /\ [][ScenesNext]_AllVars /\ ScenesFairness
=============================================================================
