----------------------------- MODULE MCToolGuard -----------------------------
\* ToolGuard on small sets, for the model checker.
EXTENDS ToolGuard, TLC

MCCompatibility == "ab" :> <<"a", "b">>
MCLowerCase == "A" :> <<"a">> @@ "B" :> <<"b">>
MCUpperCase == "a" :> <<"A">> @@ "b" :> <<"B">>

NoKeys == [k \in {} |-> 0]

AnAlias(surface, scopes, case_sensitive, deprecated) ==
    [id |-> surface, fields |-> [case_sensitive |-> case_sensitive, deprecated |-> deprecated],
     lists |-> [scopes |-> scopes], metadata |-> NoKeys, evidence |-> <<>>]

ATerm(id, canonical, scopes, tools, deprecated, aliases) ==
    [id |-> id, fields |-> [canonical |-> canonical, deprecated |-> deprecated],
     lists |-> [scopes |-> scopes, tools |-> tools], metadata |-> NoKeys,
     evidence |-> <<>>, aliases |-> aliases]

Lexicon(terms) ==
    [metadata |-> NoKeys,
     scopes |-> <<[id |-> "s1", lists |-> [parents |-> <<>>]],
                  [id |-> "s2", lists |-> [parents |-> <<>>]]>>,
     terms |-> terms, proposals |-> <<>>]

MCLexicons ==
    {\* One surface within, before and after others; tools that exclude each other.
     Lexicon(<<ATerm("t1", <<"a", " ", "b", " ", "a">>, <<>>, <<"u1">>, FALSE, <<>>),
               ATerm("t2", <<"b", " ", "a">>, <<>>, <<"u2">>, FALSE,
                     <<AnAlias(<<"b">>, <<>>, FALSE, TRUE)>>),
               ATerm("t3", <<"a">>, <<"s1">>, <<>>, FALSE, <<>>)>>),
     \* Surfaces that differ in a file and are one in code.
     Lexicon(<<ATerm("t1", <<"a", " ", "b">>, <<"s1">>, <<"u1">>, FALSE,
                     <<AnAlias(<<"A", "_", "B">>, <<>>, TRUE, FALSE)>>),
               ATerm("t2", <<"a", "-", "b">>, <<"s1">>, <<"u2">>, FALSE, <<>>)>>),
     \* One surface in two scopes, one that case tells apart, a deprecated term.
     Lexicon(<<ATerm("t1", <<"a">>, <<"s1">>, <<"u1">>, FALSE, <<>>),
               ATerm("t2", <<"a">>, <<"s2">>, <<"u1">>, FALSE,
                     <<AnAlias(<<"B">>, <<"s1">>, TRUE, FALSE)>>),
               ATerm("t3", <<"b">>, <<>>, <<"u2">>, TRUE, <<>>)>>)}

Over(chars, lengths) == UNION {[1..n -> chars] : n \in lengths}

MCTexts ==
    Over({"a", "b", "B", " ", "_", "ab", "zw", "rlm"}, 0..3)
    \cup Over({"a", "b", "_"}, {4}) \cup Over({"a", "b", " "}, {5})

MCCharacters == {"a", "b", "A", "B", " ", "_", "-"}

ASSUME MCAssumption == 
    Readable(MCCharacters) /\ Located /\ OneToOne /\ Undivided /\ ScopesInOrder

MCCaseFold ==
    [s \in {x.fields.canonical : x \in UNION {ToSet(l.terms) : l \in MCLexicons}}
           \cup {<<"b">>, <<"B">>} |-> Lowered(s)]
=============================================================================
