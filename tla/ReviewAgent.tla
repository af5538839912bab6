----------------------------- MODULE ReviewAgent -----------------------------
(***************************************************************************)
(* What the review agent says of a candidate (review_agent/agent.py), what *)
(* several of its answers come to (review_agent/consensus.py), and which   *)
(* reviews are fit to learn from (review_agent/dataset.py).  Scores and    *)
(* confidences are in hundredths, agreement and averages in ten            *)
(* thousandths.                                                            *)
(***************************************************************************)
EXTENDS PromptSafety

CONSTANTS
    NoPack,        \* a candidate without evidence
    Packs,         \* evidence that scans may find
    NoName,        \* the empty canonical name
    NameKey,       \* canonical name -> what its spellings have in common
    MinAgreement,
    MinConfidence

Recommendations == {"accept", "reject", "needs_split", "needs_more_evidence"}

\* A review item is a candidate [surface, name, score, jargon, generic, code]
\* with its evidence: "name" is what its surface reads as, "generic" and "code"
\* say what it looks like.
ReviewItem(candidate, pack) == [candidate |-> candidate, pack |-> pack]

PositiveCount(pack) == IF pack = NoPack THEN 0 ELSE Len(OfKind(pack, "positive"))
NegativeCount(pack) == IF pack = NoPack THEN 0 ELSE Len(OfKind(pack, "negative"))

-----------------------------------------------------------------------------
(* One answer.                                                             *)

\* Evidence that was not screened when it was built is screened as a prompt
\* would show it.
PromptSafetyForItem ==
    [pack \in Packs |->
        IF pack = NoPack THEN SafetyReport({})
        ELSE IF pack.safety.screened THEN pack.safety
        ELSE SafetyReport(ScanPromptInjectionText(FormatEvidencePack(pack, MaxRendered)))]

LlmReviewAllowed(item) == SafeForLlmReview(PromptSafetyForItem[item.pack])

AgentDecision(recommendation, confidence, canonical, allowed) ==
    [recommendation |-> recommendation, confidence |-> confidence,
     canonical |-> canonical, allowed |-> allowed]

ReviewDecisionStatus(decision) ==
    [accept |-> "accepted", reject |-> "rejected", needs_split |-> "needs_split",
     needs_more_evidence |-> "ambiguous"][decision.recommendation]

BoundedConfidence(score) == Max({0, Min({100, score})})

HeuristicDecision(item, positive, allowed) ==
    LET c == item.candidate
        Says(recommendation, confidence) ==
            AgentDecision(recommendation, confidence,
                          IF recommendation = "reject" THEN NoName ELSE c.name, allowed)
    IN  IF ~allowed THEN Says("needs_more_evidence", 40)
        ELSE IF positive = 0 THEN Says("needs_more_evidence", 35)
        ELSE IF c.generic \/ (c.score < 30 /\ c.jargon < 35) THEN Says("reject", 68)
        ELSE IF NegativeCount(item.pack) >= positive /\ c.score < 65 THEN Says("needs_split", 62)
        ELSE IF c.score >= 60 \/ c.jargon >= 65 \/ c.code
             THEN Says("accept", Min({92, Max({70, c.score + 15})}))
        ELSE Says("needs_more_evidence", 50)

HeuristicReview(item) ==
    HeuristicDecision(item, PositiveCount(item.pack), LlmReviewAllowed(item))

\* A response that is no JSON object, or says none of the recommendations, or
\* gives no number for its confidence, is an error.
WellFormed(response) == response.recommendation \in Recommendations

ParseReviewAgentResponse(response, item) ==
    AgentDecision(response.recommendation, BoundedConfidence(response.confidence),
                  IF response.recommendation = "accept" /\ response.canonical = NoName
                  THEN item.candidate.name ELSE response.canonical,
                  LlmReviewAllowed(item))

HeldBack(decision) ==
    IF decision.allowed THEN decision
    ELSE [decision EXCEPT !.recommendation = "needs_more_evidence", !.confidence = Min({@, 40})]

RunReviewAgent(item, response) == HeldBack(ParseReviewAgentResponse(response, item))

-----------------------------------------------------------------------------
(* Several answers.                                                        *)

DecisionKey(d) ==
    <<d.recommendation, IF d.recommendation = "accept" THEN NameKey[d.canonical] ELSE NoName>>

\* The answers of a key, by their places.
GroupOf(samples, key) == {i \in DOMAIN samples : DecisionKey(samples[i]) = key}

SumOfConfidence(samples, group) ==
    LET UpTo[n \in 0..Len(samples)] ==
            IF n = 0 THEN 0
            ELSE UpTo[n - 1] + (IF n \in group THEN samples[n].confidence ELSE 0)
    IN  UpTo[Len(samples)]

Rounded(n, d) == (2 * n + d) \div (2 * d)

AgreementRatio(samples, group) == Rounded(10000 * Cardinality(group), Len(samples))

AverageConfidence(samples, group) ==
    Rounded(100 * SumOfConfidence(samples, group), Cardinality(group))

\* Mutant: more confident answers, then more of them.
OutdoesByConfidence(samples, group, other) ==
    \/ AverageConfidence(samples, group) > AverageConfidence(samples, other)
    \/ /\ AverageConfidence(samples, group) = AverageConfidence(samples, other)
       /\ Cardinality(group) > Cardinality(other)

\* More answers, then more confident ones, then the first to be given.
Outdoes(samples, group, other) ==
    \/ Cardinality(group) > Cardinality(other)
    \/ /\ Cardinality(group) = Cardinality(other)
       /\ SumOfConfidence(samples, group) > SumOfConfidence(samples, other)

TopKey(samples) ==
    LET Group(i) == GroupOf(samples, DecisionKey(samples[i]))
        top == {i \in DOMAIN samples :
                   \A j \in DOMAIN samples : ~Outdoes(samples, Group(j), Group(i))}
    IN  DecisionKey(samples[Min(top)])

\* The name most answers of a group give, the first of those on a tie.
BestCanonicalName(item, samples, group, recommendation) ==
    LET named == {i \in group : samples[i].canonical # NoName}
        Count(i) == Cardinality({j \in named : samples[j].canonical = samples[i].canonical})
        most == {i \in named : \A j \in named : Count(j) <= Count(i)}
    IN  IF recommendation = "reject" THEN NoName
        ELSE IF named = {} THEN item.candidate.name
        ELSE samples[Min(most)].canonical

ConsensusReport(status, recommendation, confidence, canonical) ==
    [status |-> status, recommendation |-> recommendation, confidence |-> confidence,
     canonical |-> canonical]

Abstaining(status, item, samples, confidence) ==
    ConsensusReport(status, "needs_more_evidence", confidence,
                    BestCanonicalName(item, samples, DOMAIN samples, "needs_more_evidence"))

\* What answers to one item come to, when those of the group agree on the key.
ConsensusOf(item, samples, key, group) ==
    LET confidence == AverageConfidence(samples, group)
    IN  IF \E i \in DOMAIN samples : ~samples[i].allowed
        THEN Abstaining("blocked", item, samples,
                        Min({4000, 100 * Max({samples[i].confidence : i \in DOMAIN samples})}))
        ELSE IF /\ AgreementRatio(samples, group) >= MinAgreement
                /\ confidence >= MinConfidence
        THEN ConsensusReport("consensus", key[1], confidence,
                             BestCanonicalName(item, samples, group, key[1]))
        ELSE Abstaining("abstain", item, samples, Max({2500, Min({5500, confidence})}))

ConsensusByKey(item, samples, key) == ConsensusOf(item, samples, key, GroupOf(samples, key))

Consensus(item, samples) == ConsensusByKey(item, samples, TopKey(samples))

\* One response that cannot be read fails the whole; without responses, the
\* agent itself answers.
ReviewAgentSamples(item, responses) ==
    IF responses = <<>> THEN <<HeuristicReview(item)>>
    ELSE [i \in DOMAIN responses |-> RunReviewAgent(item, responses[i])]

RunReviewAgentConsensus(item, responses) == Consensus(item, ReviewAgentSamples(item, responses))

-----------------------------------------------------------------------------
(* Reviews to learn from.  An event holds the candidate and the evidence   *)
(* as they were when it was saved.                                         *)

JoinedSnippets(pack) ==
    LET snippets == OfKind(pack, "positive") \o OfKind(pack, "negative")
    IN  FlattenSeq([k \in DOMAIN snippets |->
            IF k = 1 THEN snippets[k].text ELSE <<LineEnd>> \o snippets[k].text])

EvidenceIsUnsafe ==
    [pack \in Packs |->
        /\ pack # NoPack
        /\ "high" = HighestRisk(IF pack.safety.screened THEN pack.safety
                               ELSE SafetyReport(ScanPromptInjectionText(JoinedSnippets(pack))))]

\* What all exported events say of each surface.
DecisionSets(events) ==
    [s \in {events[i].surface : i \in DOMAIN events} |->
        {events[i].decision : i \in {j \in DOMAIN events : events[j].surface = s}}]

ReviewEventQuality(event, decision_sets) ==
    IF EvidenceIsUnsafe[event.evidence] THEN "unsafe"
    ELSE IF Cardinality(decision_sets[event.surface]) > 1 THEN "conflicting"
    ELSE IF ~event.candidate.known \/ PositiveCount(event.evidence) = 0 THEN "incomplete"
    ELSE IF event.candidate.score < 30 THEN "low_signal"
    ELSE "usable"

\* The oldest events, up to a limit, with the agent's view of what their surface
\* has become.
ReviewDataset(events, items, include_agent, limit) ==
    LET exported == SubSeq(events, 1, Min({limit, Len(events)}))
        Agent(s) == IF include_agent /\ s \in DOMAIN items THEN {HeuristicReview(items[s])} ELSE {}
    IN  [i \in DOMAIN exported |->
            [event |-> exported[i], agent |-> Agent(exported[i].surface),
             quality |-> ReviewEventQuality(exported[i], DecisionSets(exported))]]
=============================================================================
