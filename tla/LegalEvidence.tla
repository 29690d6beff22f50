----------------------------- MODULE LegalEvidence -----------------------------
(***************************************************************************)
(* Which law a document is under, and what a question gets of it: the      *)
(* evidence in its files (rag/jurisdiction-resolver.service.ts), the       *)
(* candidates and the decision (rag/jurisdiction-evaluation.service.ts),   *)
(* then the ranking of the statutes retrieved for a question and the       *)
(* hints that go with it to the web search.                                *)
(*                                                                         *)
(* A text is a sequence of phrases, each a line that ends with a full      *)
(* stop; a pattern is its place in the order the code tries them.          *)
(***************************************************************************)
EXTENDS Naturals, SequencesExt

CONSTANTS FileTexts,      \* texts a file may have
          MaxLawFiles,    \* bound: files of the document
          GivenLaws,      \* jurisdictions the model may answer
          Hints,          \* names of acts, with their year
          HintKey,        \* each in lower case
          HintHead,       \* each cut to MAX_STATUTE_HINT_CHARS
          ShortHints,     \* those of less than 4 characters
          LegalChunkLists,\* what the legal corpus returned: act and score, best first
          CitationLists   \* acts cited by the document's chunks, in order

ASSUME LawAssumption ==
    /\ MaxLawFiles \in Nat
    /\ \A text \in FileTexts : Len(text) \in Nat /\ DOMAIN text = 1 .. Len(text)
    /\ LegalChunkLists \subseteq Seq([id : Nat, act : Hints \cup {"none"}, score : 0 .. 10])
    /\ \A list \in LegalChunkLists :
          \A i, j \in DOMAIN list : i < j => list[j].score <= list[i].score
    /\ CitationLists \subseteq Seq(Hints)
    /\ HintHead \in [Hints -> Hints]
    /\ \A a, b \in Hints : HintKey[a] = HintKey[b] => HintKey[HintHead[a]] = HintKey[HintHead[b]]

VARIABLES lawFiles, lawStep, candidates, resolved,
          lawAsked,    \* a question has been asked
          ranked,      \* the legal chunks as the prompt lists them
          retrieved,   \* the legal chunks as they came
          mentioned,   \* acts the document's chunks mention
          cited, hints \* acts they cite; what the web search gets

evidenceVars == <<lawFiles, lawStep, candidates, resolved>>
questionVars == <<lawAsked, ranked, retrieved, mentioned, cited, hints>>
lawVars == <<evidenceVars, questionVars>>

Law(country, state) == [country |-> country, state |-> state]
NoLaw == Law("", "")

\* A finite set in a strict order, places in ascending order, and what
\* stands at some places of a sequence.
Ordered(S, before) ==
    [k \in 1 .. Cardinality(S) |->
        CHOOSE x \in S : Cardinality({y \in S : <<y, x>> \in before}) = k - 1]
Ascending(places) == Ordered(places, {p \in places \X places : p[1] < p[2]})
Selected(s, places) ==
    LET order == Ascending(places) IN [k \in DOMAIN order |-> s[order[k]]]
Unresolved == [law |-> NoLaw, status |-> "unknown", confidence |-> 0, by |-> "nobody"]

LawInit ==
    /\ lawFiles \in UNION {[1 .. n -> FileTexts] : n \in 0 .. MaxLawFiles}
    /\ lawStep = "files"
    /\ candidates = <<>> /\ resolved = Unresolved
    /\ lawAsked = FALSE
    /\ ranked = <<>> /\ retrieved = <<>> /\ mentioned = {}
    /\ cited = <<>> /\ hints = <<>>

-----------------------------------------------------------------------------
(* Evidence.  Patterns 1 to 7 capture a name, 8 to 15 a code or a state;   *)
(* 16 to 23 find a country, 24 to 27 a currency, 28 and 29 a language.     *)
NamePatterns == 1 .. 7
ExplicitPatterns == 1 .. 15
CountryPatterns == 16 .. 23
Patterns == 1 .. 29

\* What each pattern captures of a phrase: all up to the next character that
\* is no letter, or two letters of whatever case.
Matches ==
    "governed by and construed in accordance with the laws of Ireland" :>
        (1 :> "Ireland" @@ 2 :> "Ireland" @@ 3 :> "Ireland" @@ 10 :> "Ir")
 @@ "governed by the laws of the State of Texas" :> (10 :> "th" @@ 13 :> "Texas" @@ 14 :> "Texas")
 @@ "the laws of Canada" :> (10 :> "Ca" @@ 19 :> "")
 @@ "the proper law of Spain applies" :> (5 :> "Spain applies" @@ 22 :> "")
 @@ "governing law: IE" :> (8 :> "IE")
 @@ "the United States" :> (16 :> "")
 @@ "in california" :> <<>>
 @@ "R$ 100" :> (24 :> "" @@ 25 :> "")
 @@ "100 Euro" :> (26 :> "")
 @@ "the Portuguese version" :> (28 :> "")

Capturing(p, phrase) == p \in DOMAIN Matches[phrase]

CountryCodeByName == [Ireland |-> "IE", England |-> "GB", Spain |-> "ES"]
StateCodeByName == [Texas |-> "TX", California |-> "CA", Ca |-> "CA"]
CodeForms == {"IE", "US"}

InferredLaw(p) ==
    Law(<<"US", "BR", "GB", "CA", "DE", "FR", "ES", "PT",
          "US", "BR", "EU", "GB", "BR", "ES">>[p - 15], "")

Status(p) == IF p \in ExplicitPatterns THEN "explicit" ELSE "inferred"
Confidence(p) == CASE p <= 15 -> 90 [] p <= 23 -> 60 [] p <= 27 -> 50 [] OTHER -> 40

\* Only the first patterns look a name up as a country's.
LawNamed(p, captured) ==
    IF p \in NamePatterns /\ captured \in DOMAIN CountryCodeByName
    THEN Law(CountryCodeByName[captured], "")
    ELSE IF captured \in DOMAIN StateCodeByName THEN Law("US", StateCodeByName[captured])
    ELSE IF captured \in CodeForms THEN Law(captured, "")
    ELSE NoLaw

LawAt(p, phrase) ==
    IF p \in ExplicitPatterns THEN LawNamed(p, Matches[phrase][p]) ELSE InferredLaw(p)

\* All matches of one pattern that name a law, in the order of the text.
EvidenceOf(p, text) ==
    LET found == Selected(text, {i \in DOMAIN text :
                     Capturing(p, text[i]) /\ LawAt(p, text[i]) # NoLaw})
    IN [i \in DOMAIN found |->
           [law |-> LawAt(p, found[i]), status |-> Status(p), confidence |-> Confidence(p)]]

\* Mutant: what names a country by its full name is left to the patterns
\* that look for a code.
MutantExtractAllEvidence(text) ==
    FlattenSeq([p \in Patterns |-> IF p \in NamePatterns THEN <<>> ELSE EvidenceOf(p, text)])

ExtractAllEvidence(text) == FlattenSeq([p \in Patterns |-> EvidenceOf(p, text)])

\* The states looked for once their country was found, in order; the code
\* is found by case, the state is not.
StatesOf(phrase) ==
    CASE phrase = "governed by the laws of the State of Texas" -> {<<3, Law("US", "TX")>>}
      [] phrase = "in california" -> {<<1, Law("US", "")>>}
      [] OTHER -> {}

\* The first pattern whose first match names a law.
ResolveExplicit(text) ==
    LET firstOf(p) == text[Min({i \in DOMAIN text : Capturing(p, text[i])})]
        naming == {p \in ExplicitPatterns :
                      /\ \E i \in DOMAIN text : Capturing(p, text[i])
                      /\ LawAt(p, firstOf(p)) # NoLaw}
    IN IF naming = {} THEN NoLaw ELSE LawAt(Min(naming), firstOf(Min(naming)))

ResolveInferred(text) ==
    LET found  == {p \in Patterns \ ExplicitPatterns : \E i \in DOMAIN text : Capturing(p, text[i])}
        states == UNION {StatesOf(text[i]) : i \in DOMAIN text}
        first  == Min(found)
    IN IF found = {} THEN Unresolved
       ELSE IF /\ first \in CountryPatterns
               /\ \E s \in states : s[2].country = InferredLaw(first).country
       THEN [law |-> (CHOOSE s \in states : \A other \in states : s[1] <= other[1])[2],
             status |-> "inferred", confidence |-> 70, by |-> "rules"]
       ELSE [law |-> InferredLaw(first), status |-> "inferred",
             confidence |-> Confidence(first), by |-> "rules"]

ResolveJurisdiction(text) ==
    IF ResolveExplicit(text) # NoLaw
    THEN [law |-> ResolveExplicit(text), status |-> "explicit", confidence |-> 90, by |-> "rules"]
    ELSE ResolveInferred(text)

-----------------------------------------------------------------------------
(* The decision.                                                           *)
AllEvidence(files) == FlattenSeq([f \in DOMAIN files |-> ExtractAllEvidence(files[f])])

\* One candidate for each law, in the order of their first evidence.
CandidatesOf(files) ==
    LET all == AllEvidence(files)
        of(i) == {j \in DOMAIN all : all[j].law = all[i].law}
        firsts == {i \in DOMAIN all : i = Min(of(i))}
        explicit(i) == \E j \in of(i) : all[j].status = "explicit"
        candidate(i) == [law |-> all[i].law,
                         status |-> IF explicit(i) THEN "explicit" ELSE "inferred",
                         confidence |-> IF explicit(i) THEN 90 ELSE all[i].confidence,
                         evidenceCount |-> Cardinality(of(i))]
        order == Ascending(firsts)
    IN [k \in DOMAIN order |-> candidate(order[k])]

Explicit(some) == {i \in DOMAIN some : some[i].status = "explicit"}

\* Explicit candidates if there are any; by confidence, then by mentions,
\* then the first one.
RuleBasedFallback(some) ==
    LET pool == IF Explicit(some) # {} THEN Explicit(some) ELSE DOMAIN some
        weight(i) == 1000 * some[i].confidence + some[i].evidenceCount
        best == some[Min({i \in pool : \A j \in pool : weight(j) <= weight(i)})]
    IN [law |-> best.law, status |-> best.status, confidence |-> best.confidence, by |-> "rules"]

EvaluateFiles ==
    /\ lawStep = "files"
    /\ candidates' = CandidatesOf(lawFiles)
    /\ lawStep' = IF candidates' = <<>> THEN "resolved" ELSE "asking"
    /\ UNCHANGED <<lawFiles, resolved, questionVars>>

\* callLlmForJurisdiction; what it names need not be a candidate.
LlmNames(law, status) ==
    /\ lawStep = "asking" /\ law # NoLaw
    /\ resolved' = [law |-> law, status |-> status, confidence |-> 50, by |-> "model"]
    /\ lawStep' = "resolved"
    /\ UNCHANGED <<lawFiles, candidates, questionVars>>

\* It failed, was late, or named none.
LlmNamesNone ==
    /\ lawStep = "asking"
    /\ resolved' = RuleBasedFallback(candidates)
    /\ lawStep' = "resolved"
    /\ UNCHANGED <<lawFiles, candidates, questionVars>>

-----------------------------------------------------------------------------
(* A question.                                                             *)
Best(score) == IF score > 10 THEN 10 ELSE score

\* Acts the chunks mention gain a bonus of 1, up to 10; the sort is stable.
RerankLegalByActMention(chunks, acts) ==
    LET places == DOMAIN chunks
        bumped == [i \in places |->
                      IF chunks[i].act \in acts \ ShortHints
                      THEN [chunks[i] EXCEPT !.score = Best(@ + 1)] ELSE chunks[i]]
        ahead == {p \in places \X places :
                     \/ bumped[p[1]].score > bumped[p[2]].score
                     \/ bumped[p[1]].score = bumped[p[2]].score /\ p[1] < p[2]}
        order == Ordered(places, ahead)
    IN [k \in DOMAIN order |-> bumped[order[k]]]

\* The first two of the hints that differ in more than case.
FirstTwo(some) ==
    LET fresh == Selected(some, {i \in DOMAIN some :
                     \A j \in 1 .. i - 1 : HintKey[some[j]] # HintKey[some[i]]})
    IN SubSeq(fresh, 1, Min({2, Len(fresh)}))

\* The corpus's own acts first, then what the document cites.
DeriveStatuteHints(chunks, citations) ==
    LET named == [i \in DOMAIN chunks |-> chunks[i].act] \o citations
    IN FirstTwo(Selected(named, {i \in DOMAIN named : named[i] \in Hints \ ShortHints}))

NormalizeStatuteHints(some) == FirstTwo([i \in DOMAIN some |-> HintHead[some[i]]])

AskAboutLaw ==
    /\ ~lawAsked /\ lawAsked' = TRUE
    /\ retrieved' \in LegalChunkLists
    /\ cited' \in CitationLists
    /\ mentioned' \in SUBSET Hints
    /\ ranked' = RerankLegalByActMention(retrieved', mentioned')
    /\ hints' = NormalizeStatuteHints(DeriveStatuteHints(retrieved', cited'))
    /\ UNCHANGED evidenceVars

EvaluationSteps ==
    \/ EvaluateFiles \/ LlmNamesNone
    \/ \E law \in GivenLaws, status \in {"explicit", "inferred", "unknown"} : LlmNames(law, status)

LawNext == EvaluationSteps \/ AskAboutLaw

LawSpec == LawInit /\ [][LawNext]_lawVars

-----------------------------------------------------------------------------
LawTypeOK ==
    /\ lawStep \in {"files", "asking", "resolved"}
    /\ resolved.status \in {"explicit", "inferred", "unknown"}
    /\ resolved.confidence \in 0 .. 100
    /\ \A i \in DOMAIN hints : hints[i] \in Hints

(* What a document's text says explicitly by resolveJurisdiction, whose    *)
(* order extractAllEvidence says it keeps, is an explicit candidate.       *)
ExplicitIsCandidate ==
    lawStep # "files" =>
        \A f \in DOMAIN lawFiles :
            LET own == ResolveJurisdiction(lawFiles[f]) IN
            own.status = "explicit" =>
                \E i \in Explicit(candidates) : candidates[i].law = own.law

(* Any evidence ends in a named law, whatever the model answers; and when  *)
(* the rules decide between explicit mentions, the order of the files      *)
(* decides only between laws that are mentioned as often.                  *)
EvidenceDecides ==
    lawStep = "resolved" =>
        /\ resolved.law = NoLaw <=> candidates = <<>>
        /\ (resolved.by = "rules" /\ Explicit(candidates) # {}) =>
            LET again == CandidatesOf(Reverse(lawFiles))
                other == RuleBasedFallback(again)
                mentions(law) == candidates[CHOOSE i \in DOMAIN candidates :
                                                candidates[i].law = law].evidenceCount
            IN /\ resolved.status = "explicit"
               /\ mentions(resolved.law) = mentions(other.law)

(* The hints of a web search are at most two, differ in more than case,    *)
(* and name an act only the document cites after all of the corpus's acts. *)
HintsAreCurated ==
    /\ Len(hints) <= 2
    /\ \A i, j \in DOMAIN hints : i # j => HintKey[hints[i]] # HintKey[hints[j]]
    /\ LET heads == {HintKey[HintHead[retrieved[i].act]] :
                        i \in {i \in DOMAIN retrieved : retrieved[i].act \in Hints \ ShortHints}}
       IN (\E i \in DOMAIN hints : HintKey[hints[i]] \notin heads)
              => heads \subseteq {HintKey[hints[i]] : i \in DOMAIN hints}

(* Ranking invents nothing, loses nothing, and takes no mentioned act      *)
(* below one it was ahead of.                                              *)
RankingPromotes ==
    /\ {ranked[i].id : i \in DOMAIN ranked} = {retrieved[i].id : i \in DOMAIN retrieved}
    /\ Len(ranked) = Len(retrieved)
    /\ \A i, j \in DOMAIN retrieved :
        (i < j /\ retrieved[i].act \in mentioned \ ShortHints) =>
            \E k, l \in DOMAIN ranked :
                k < l /\ ranked[k].id = retrieved[i].id /\ ranked[l].id = retrieved[j].id

(* What the law of a document rests on, and what a question is given of it. *)
LawIsFounded ==
    ExplicitIsCandidate /\ EvidenceDecides /\ HintsAreCurated /\ RankingPromotes
=============================================================================
