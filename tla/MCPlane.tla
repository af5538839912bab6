------------------------------- MODULE MCPlane -------------------------------
(***************************************************************************)
(* An instance of ReviewPlane: a rule whose words may be apart in a text,  *)
(* evidence that says it in several ways or does not, callers with and     *)
(* without a role, and policies of every mode.                             *)
(***************************************************************************)
EXTENDS ReviewPlane

Caller(actor, role, mode) == [actor |-> actor, role |-> role, mode |-> mode]

Ann == Caller("ann", NoRole, NoMode)
Bot == Caller("bot", "agent", NoMode)
Owner == Caller("ann", "owner", NoMode)
Everybody == {Ann, Bot, Caller("ann", NoRole, "team"), Caller("ann", "reviewer", NoMode)}

TeamOfAnn == PolicyFile("team", NoRole, [a \in {"ann"} |-> "reviewer"])

MCHandWritten ==
    {TeamOfAnn,
     PolicyFile("solo", "owner", <<>>),
     PolicyFile("locked", "reviewer", [a \in {"ann"} |-> "maintainer"])}

MCCompatibility == [c \in {"w"} |-> <<"a">>]
MCNoForms == <<>>
MCEscapes == [c \in {"<"} |-> <<"&">>]

MCSafetyRules ==
    <<[risk |-> "high", words |-> <<{<<"a", "b">>, <<"d">>}, {<<"c">>}>>],
      [risk |-> "low", words |-> <<{<<"<">>}>>]>>

Snippet(kind, text) == [kind |-> kind, text |-> text]
Good == Snippet("positive", <<"a", "b", " ", "e">>)
Plain == Snippet("positive", <<"x", " ", "a", "b", " ", "c">>)
Split == Snippet("negative", <<"d", "nl", "c", "nl", "e">>)
Hidden == Snippet("positive", <<"w", "rl", "b", "zw", "c">>)
Apart1 == Snippet("positive", <<"e", " ", "d">>)
Apart2 == Snippet("negative", <<"c", "<">>)
Long == Snippet("positive", [i \in 1..40 |-> IF i = 38 THEN "d" ELSE IF i = 39 THEN " "
                                             ELSE IF i = 40 THEN "c" ELSE "e"])

MCPacks ==
    {PlainPack(<<Good>>), PlainPack(<<Plain>>), PlainPack(<<Good, Split>>), PlainPack(<<Hidden>>),
     PlainPack(<<Apart1, Apart2>>), PlainPack(<<Long>>), PlainPack(<<Snippet("negative", <<"e">>)>>),
     NoPack}
    \cup {ScreenedPack(snippets) : snippets \in {<<Good, Split>>, <<Hidden>>}}

Candidate(name, score, jargon, generic, code) ==
    [name |-> name, score |-> score, jargon |-> jargon, generic |-> generic, code |-> code]

MCCandidateOf ==
    [s \in Surfaces |-> IF s = "s1" THEN Candidate("n1", 70, 20, FALSE, FALSE)
                        ELSE Candidate("n2", 20, 30, FALSE, TRUE)]

MCFirstItems == [s \in {"s1"} |-> ReviewItem(MCCandidateOf[s], PlainPack(<<Good>>))]

MCNameKey == [n \in {"n1", "N1", "n2", NoName} |-> IF n = "N1" THEN "n1" ELSE n]

Response(recommendation, confidence, canonical) ==
    [recommendation |-> recommendation, confidence |-> confidence, canonical |-> canonical]

MCResponses ==
    {Response("accept", 60, "n1"), Response("accept", 80, "N1"), Response("accept", 95, "n2"),
     Response("reject", 70, NoName), Response("needs_split", 120, NoName),
     Response("maybe", 50, NoName)}

MCResolvesTo == [s \in Surfaces |-> IF s = "s1" THEN <<"t2", "t1">> ELSE <<>>]
MCLexiconEvidence == [t \in Terms |-> <<[kind |-> "lexicon", term |-> t]>>]

Job(kinds, callers, surfaces, n, changes, again, answers, seconds) ==
    [kinds |-> kinds, callers |-> callers, surfaces |-> surfaces, requests |-> n,
     edits |-> changes, scans |-> again, samples |-> answers, ticks |-> seconds,
     policy |-> IF changes = 0 THEN TeamOfAnn ELSE NoFile]

Symmetry == Permutations(Clients)

MCJobs ==
    {Job({"post", "submit_proposal"}, {Ann, Bot}, {"s1"}, 2, 0, 0, 0, 1),
     Job({"post", "get"}, {Ann, Caller("ann", NoRole, "team")}, {"s1"}, 1, 1, 0, 0, 0),
     Job({"submit_proposal"}, Everybody, {"s2"}, 1, 2, 0, 0, 0),
     Job({"prompt", "dataset", "export"}, Everybody, {"s1"}, 1, 2, 0, 0, 0),
     Job({"message", "find_evidence"}, {Bot}, {"s1", "s2"}, 1, 0, 1, 0, 0),
     Job({"prompt", "assess", "consensus"}, {Owner}, {"s1", "s2"}, 1, 0, 1, 2, 0),
     Job({"consensus"}, {Owner}, {"s1"}, 1, 0, 0, 3, 0),
     Job({"submit_proposal", "dataset"}, {Owner}, {"s1"}, 3, 0, 1, 0, 0)}
=============================================================================
