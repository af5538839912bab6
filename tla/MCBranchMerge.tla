---------------------------- MODULE MCBranchMerge ----------------------------
\* BranchMerge on small sets, for the model checker.
EXTENDS BranchMerge

NoKeys == [k \in {} |-> 0]

Scope(id) ==
    [id |-> id, fields |-> [label |-> "l1"], lists |-> [parents |-> <<>>],
     metadata |-> NoKeys, evidence |-> <<>>]

AnAlias(surface, scopes) ==
    [id |-> surface, fields |-> [case_sensitive |-> FALSE, deprecated |-> FALSE],
     lists |-> [scopes |-> scopes], metadata |-> NoKeys, evidence |-> <<>>]

ATerm(id, canonical, aliases) ==
    [id |-> id, fields |-> [canonical |-> canonical, deprecated |-> FALSE],
     lists |-> [scopes |-> <<>>, tools |-> <<>>], metadata |-> NoKeys,
     evidence |-> <<>>, aliases |-> aliases]

Proposal(id, target) ==
    [id |-> id, fields |-> [status |-> "pending", candidate_term_id |-> None,
                            target_term_id |-> target],
     lists |-> [scopes |-> <<>>], metadata |-> NoKeys, evidence |-> <<>>]

Lexicon(scopes, terms, proposals) ==
    [metadata |-> NoKeys, scopes |-> scopes, terms |-> terms, proposals |-> proposals]

MCCaseFold == [s \in {"x", "y", "z", "Z"} |-> IF s = "Z" THEN "z" ELSE s]

MCBases ==
    {Lexicon(<<Scope("s1")>>,
             <<ATerm("t1", "x", <<AnAlias("y", <<"s1">>)>>), ATerm("t2", "y", <<>>)>>,
             <<Proposal("p1", "t2")>>)}

MCValues ==
    [label |-> {"l1", "l2"}, canonical |-> {"x", "y", "z"}, deprecated |-> BOOLEAN,
     case_sensitive |-> BOOLEAN, status |-> {"pending"},
     candidate_term_id |-> {None}, target_term_id |-> {None, "t1", "t2"}]

MCElements == [parents |-> {}, scopes |-> {"s1", "s2"}, tools |-> {"u"}]

MCEntries == [replaced_by |-> {"t1", "t2"}]

MCAdditions ==
    [scopes |-> {Scope("s2")},
     terms |-> {ATerm("t3", "z", <<>>)},
     proposals |-> {},
     aliases |-> {AnAlias("Z", <<>>)},
     evidence |-> {[id |-> "e", data |-> d] : d \in {1, 2}}]

MCKinds ==
    [scopes |-> [fields |-> {"label"}, lists |-> {"parents"}],
     terms |-> [fields |-> {"canonical", "deprecated"}, lists |-> {"scopes", "tools"}],
     aliases |-> [fields |-> {"case_sensitive", "deprecated"}, lists |-> {"scopes"}],
     proposals |-> [fields |-> {"status", "candidate_term_id", "target_term_id"},
                    lists |-> {"scopes"}]]

ASSUME MCAssumption == OfKinds(MCKinds)
=============================================================================
