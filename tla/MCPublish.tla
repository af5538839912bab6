------------------------------ MODULE MCPublish ------------------------------
\* Publish on small sets, for the model checker.
EXTENDS Publish, TLC

CONSTANTS w1, w2, n1, n2

OneWorker == {w1}
TwoWorkers == {w1, w2}
MCSnapshotIds == {n1, n2}

\* Two candidates whose ids meet: "pay api" tries pay_api, pay_api_2, ...; the
\* second, "pay api 2", tries pay_api_2 first.
MCCandidates == {"pay api", "pay api 2"}
OneCandidate == {"pay api"}
MCSurfaces == MCCandidates \cup {"pay", "old pay"}
MixedSurfaces == OneCandidate \cup {"pay", "old pay", "example term"}
StarterSurfaces == MCCandidates \cup {"old pay", "example term"}
MCIds == {"pay_api", "pay_api_2", "pay_api_3", "pay_api_2_2", "pay_api_2_3", "old", "starter"}
MCTargets == {NoId, "pay_api", "pay_api_3"}
MCPlace == [c \in Candidates |-> IF c = "pay api" THEN 1 ELSE 2]
MCRank == [c \in Candidates |-> IF c = "pay api" THEN 2 ELSE 1]
MCSuffixes == 1..3
MCTermId ==
    [c \in Candidates |-> IF c = "pay api"
                          THEN <<"pay_api", "pay_api_2", "pay_api_3">>
                          ELSE <<"pay_api_2", "pay_api_2_2", "pay_api_2_3">>]

Plain(id, canonical) ==
    [id |-> id, canonical |-> canonical, aliases |-> {}, deprecated |-> FALSE,
     starter |-> FALSE, replacement |-> NoId]

Starter(canonical) == [Plain("starter", canonical) EXCEPT !.starter = TRUE]

\* A term that has taken the id "pay_api", and a deprecated one it replaces.
Pay == Plain("pay_api", "pay")
OldPay == [Plain("old", "old pay") EXCEPT !.deprecated = TRUE,
                                          !.replacement = "pay_api"]

UserLexicons == {{Pay, OldPay}}
MixedLexicons == {{Pay, OldPay, Starter("example term")}}
\* A deprecated term points to the starter term as its replacement.
ReplacedByStarter ==
    {{Starter("example term"), [OldPay EXCEPT !.replacement = "starter"]}}

\* Workers and snapshot ids are interchangeable: nothing orders them.
IdSymmetry == Permutations(MCSnapshotIds)
WorkerSymmetry == Permutations(TwoWorkers) \cup IdSymmetry
=============================================================================
