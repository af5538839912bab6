------------------------------- MODULE MCScout -------------------------------
(***************************************************************************)
(* Instance of the commands that read a repository: a gate of two files    *)
(* and a scan of them.  Words and the likeness of surfaces are what the    *)
(* code computes for them.                                                 *)
(***************************************************************************)
EXTENDS RepositoryScan

CONSTANTS Jobs  \* "gate", "scan" or both

VARIABLE job  \* what a behaviour is about

Word(fragments, folded, size, shape, words) ==
    [fragments |-> fragments, folded |-> folded, size |-> size, shape |-> shape, words |-> words]

Plain(word, size) == Word(<<word>>, word, size, "word", <<word>>)

Mark(mark) == Word(<<>>, mark, 1, "mark", <<>>)

Words ==
    [access |-> Plain("access", 6), token |-> Plain("token", 5), auth |-> Plain("auth", 4),
     key |-> Plain("key", 3), refresh |-> Plain("refresh", 7), use |-> Plain("use", 3),
     session |-> Plain("session", 7), grant |-> Plain("grant", 5),
     foo |-> Plain("foo", 3), bar |-> Plain("bar", 3), item |-> Plain("item", 4),
     list |-> Plain("list", 4),
     accessToken |-> Word(<<"access", "token">>, "accesstoken", 11, "camel", <<"accesstoken">>),
     accesstoken |-> Plain("accesstoken", 11),
     auth_key |-> Word(<<"auth", "key">>, "auth_key", 8, "snake", <<"auth", "key">>),
     authKey |-> Word(<<"auth", "key">>, "authkey", 7, "camel", <<"authkey">>),
     authkey |-> Plain("authkey", 7),
     accessKey |-> Word(<<"access", "key">>, "accesskey", 9, "camel", <<"accesskey">>),
     accesskey |-> Plain("accesskey", 9),
     sessionGrantToken |-> Word(<<"session", "grant", "token">>, "sessiongranttoken", 17, "camel",
                                <<"sessiongranttoken">>),
     sessiongranttoken |-> Plain("sessiongranttoken", 17),
     fooBar |-> Word(<<"foo", "bar">>, "foobar", 6, "camel", <<"foobar">>),
     foobar |-> Plain("foobar", 6),
     itemList |-> Word(<<"item", "list">>, "itemlist", 8, "camel", <<"itemlist">>),
     itemlist |-> Plain("itemlist", 8)]
    @@ "(" :> Mark("(") @@ "," :> Mark(",") @@ "#" :> Mark("#") @@ "backquote" :> Mark("backquote")

Column(table, name) == [w \in DOMAIN table |-> table[w][name]]

MCFragmentsOf == Column(Words, "fragments")
MCFolded == Column(Words, "folded")
MCSizeOf == Column(Words, "size")
MCWordShape == Column(Words, "shape")
MCWordsOf == Column(Words, "words")
MCRootOf == MCFolded

AccessToken == <<"access", "token">>
AuthKey == <<"auth", "key">>
RefreshKey == <<"refresh", "key">>

MCEntries == <<Entry("t1", AccessToken, {}, FALSE), Entry("t1", AuthKey, {}, TRUE),
               Entry("t2", RefreshKey, {"billing"}, FALSE)>>
MCCanonical == [t1 |-> AccessToken, t2 |-> RefreshKey]
MCVariantsOf == AccessToken :> {<<"accessToken">>} @@ AuthKey :> {<<"authKey">>, <<"auth_key">>}
                @@ RefreshKey :> {}

\* SequenceMatcher's ratio and quick_ratio.
Likeness == <<"access", "key">> :> <<8182, 8182, 5556, 5556, 5714, 5714>>
            @@ <<"foo", "bar">> :> <<1053, 3158, 1333, 2667, 2222, 3333>>
            @@ <<"item", "list">> :> <<1905, 3810, 2353, 3529, 2000, 3000>>
            @@ <<"access", "token">> :> <<10000, 10000, 4000, 5000, 4348, 4348>>
            @@ <<"auth", "key">> :> <<4000, 5000, 10000, 10000, 5263, 5263>>
            @@ <<"session", "grant", "token">> :> <<5806, 6452, 2222, 3704, 3333, 4000>>
Ratios(at) == [p \in (DOMAIN Likeness) \X {AccessToken, AuthKey, RefreshKey} |->
                  Likeness[p[1]][at + (CASE p[2] = AccessToken -> 0 [] p[2] = AuthKey -> 2
                                         [] p[2] = RefreshKey -> 4)]]
MCEditRatio == Ratios(1)
MCQuickRatio == Ratios(2)

MCBroadFragments == {"auth", "access", "key", "token", "session"}
MCRelatedFragments ==
    [f \in UNION {ToSet(MCFragmentsOf[w]) : w \in DOMAIN Words} |->
        CASE f = "auth" -> {"access", "session"} [] f = "access" -> {"auth", "session"}
          [] f = "session" -> {"access", "auth"} [] OTHER -> {}]
MCLowSignal == {"item"}

-----------------------------------------------------------------------------

Code == <<"a", Dot, "py">>
Docs == <<"docs", Slash, "b", Dot, "md">>
Built == <<"build", Slash, "c", Dot, "py">>
Docker == <<"Dockerfile">>
MCPathOrder == <<Docker, Code, Built, Docs>>

Plainly(text) == Line(<<>>, text)
Deprecated == Plainly(<<"use", "authKey">>)
Alias == Plainly(<<"accessKey">>)
New == Plainly(<<"fooBar", ",", "fooBar", "(">>)
Called == Plainly(<<"fooBar", "(">>)
Low == Plainly(<<"itemList", "sessionGrantToken">>)
Foo == Plainly(<<"use", "foo">>)
Item == Line(<<"-">>, <<"use", "auth", "key">>)
Sum == Line(<<"+">>, <<"use", "accessToken">>)
Empty == Plainly(<<>>)

\* A gate of two files; the first goes without the end of its last line.
GateTexts == Code :> {<<Alias, Deprecated>>, <<Deprecated, Called, Deprecated>>,
                      <<Empty, Empty, New>>}
             @@ Docs :> {<<>>, <<Sum, Low, Item, Foo>>}
             @@ Built :> {<<>>}
\* With a file whose suffix the baseline does not count.
LooseTexts == Docker :> {<<>>, <<Deprecated>>} @@ Code :> {<<>>, <<Deprecated>>}

MCBuild == <<"build", Slash>>
MCGitIgnore == <<<<"#", "note">>, MCBuild>>
MCDocsGlob == <<"docs", Slash, Star, Star>>
MCScopeBindings == <<<<{MCDocsGlob}, {"billing"}>>>>
MCNone == {}
MCExcludes == {<<"vendor", Slash>>}
MCUnterminated == {Code}

ASSUME MCAssumption == PlainTexts

MCPythonSuffixes == {<<Dot, "py">>}
MCProseSuffixes == {<<Dot, "md">>}
MCScannedSuffixes == MCPythonSuffixes \cup MCProseSuffixes
MCIngestGlobs == {<<Star, Star, Slash, Star, Dot, "py">>, <<"docs", Slash, Star, Star, Slash, Star>>}
MCExcludeDirs == {<<"build">>}
MCAboveRoot == {<<"home">>}
MCDirectPaths == {Docs}
MCUndecodable == {<<Alias, Deprecated>>}
MCBackgroundTerms == {"use", "list"}
MCDomainHints == {"token"}

Init == GateInit /\ ScanInit /\ job \in Jobs

Gate == job = "gate" /\ UNCHANGED <<scanVars, job>>
Scanning == job = "scan" /\ UNCHANGED job

Next ==
    \/ \E path \in Paths : Gate /\ Rewrite(path)
    \/ Gate /\ Commit
    \/ Gate /\ \E context \in BOOLEAN : LintDiff(context)
    \/ Gate /\ CheckMerge
    \/ Gate /\ Merge
    \/ Gate /\ CreateBaseline
    \/ Gate /\ \E allow_growth \in BOOLEAN : UpdateBaseline(allow_growth)
    \/ Scanning /\ BeginScan /\ UNCHANGED gateVars
    \/ Scanning /\ ReadFile /\ UNCHANGED gateVars
    \/ Scanning /\ Discover /\ UNCHANGED gateVars
    \/ Scanning /\ StoreDocuments /\ UNCHANGED gateVars
    \/ Scanning /\ StoreCandidates /\ UNCHANGED gateVars
    \/ Scanning /\ StoreEvidence /\ UNCHANGED gateVars
    \/ Scanning /\ StopScan /\ UNCHANGED gateVars
    \/ \E path \in Paths : Scanning /\ Edit(path)

Spec == Init /\ [][Next]_<<gateVars, scanVars, job>>
=============================================================================
