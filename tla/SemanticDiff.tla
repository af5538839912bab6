---------------------------- MODULE SemanticDiff ----------------------------
(***************************************************************************)
(* What "dictionary diff" reports (dictionary/diff.py): the changes from   *)
(* one lexicon to another, each with its kind and its path.                *)
(***************************************************************************)
EXTENDS LexiconDocument

Change(kind, path) == [kind |-> kind, path |-> path]

Under(path, changes) == {[c EXCEPT !.path = path \o @] : c \in changes}

\* Tools are compared as a set, the other lists with their order.
ToolChanges(before, after) ==
    {Change("removed", <<"tools", t>>) : t \in ToSet(before) \ ToSet(after)} \cup
    {Change("added", <<"tools", t>>) : t \in ToSet(after) \ ToSet(before)}

ObjectChanges(before, after) ==
    LET fields == {f \in DOMAIN before.fields : before.fields[f] # after.fields[f]}
        lists == {l \in DOMAIN before.lists \ {"tools"} : before.lists[l] # after.lists[l]}
        metadata == IF before.metadata = after.metadata THEN {} ELSE {"metadata"}
    IN  {Change("changed", <<name>>) : name \in fields \cup lists \cup metadata}
        \cup IF "tools" \in DOMAIN before.lists
             THEN ToolChanges(before.lists.tools, after.lists.tools) ELSE {}

\* Objects of one kind, as _diff_scopes, _diff_terms, _diff_aliases and
\* _diff_proposals compare them.
ItemsChanges(before, after, Within(_, _)) ==
    {Change("removed", <<id>>) : id \in Ids(before) \ Ids(after)} \cup
    {Change("added", <<id>>) : id \in Ids(after) \ Ids(before)} \cup
    UNION {Under(<<id>>, Within(ItemAt(before, id), ItemAt(after, id))) :
              id \in Ids(before) \cap Ids(after)}

\* Evidence that keeps its key is not looked into.
NoChanges(before, after) == {}

EvidenceChanges(before, after) ==
    Under(<<"evidence">>, ItemsChanges(before.evidence, after.evidence, NoChanges))

ProposalChanges(before, after) ==
    ObjectChanges(before, after) \cup EvidenceChanges(before, after)

TermChanges(before, after) ==
    ObjectChanges(before, after)
    \cup Under(<<"aliases">>, ItemsChanges(before.aliases, after.aliases, ObjectChanges))
    \cup EvidenceChanges(before, after)

Diff(before, after) ==
    (IF before.metadata = after.metadata THEN {} ELSE {Change("changed", <<"metadata">>)})
    \cup Under(<<"scopes">>, ItemsChanges(before.scopes, after.scopes, ObjectChanges))
    \cup Under(<<"terms">>, ItemsChanges(before.terms, after.terms, TermChanges))
    \cup Under(<<"proposals">>,
               ItemsChanges(before.proposals, after.proposals, ProposalChanges))
=============================================================================
