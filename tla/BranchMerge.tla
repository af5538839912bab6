----------------------------- MODULE BranchMerge -----------------------------
(***************************************************************************)
(* Two branches of one lexicon: people edit both, and "dictionary merge"   *)
(* (cli.py) merges theirs into ours and writes the result, once or again.  *)
(* An edit is any that leaves a lexicon that loads, to one field, list     *)
(* element, key or object.                                                 *)
(***************************************************************************)
EXTENDS SemanticMerge

CONSTANTS
    Bases,     \* lexicons the branches may start from
    Values,    \* field -> the values an edit may give it
    Elements,  \* list -> the names an edit may add to it
    Entries,   \* key of a term's metadata -> the values an edit may give it
    Additions, \* kind of object -> the objects an edit may add
    MaxEdits   \* bound on the edits made

ASSUME BranchAssumption ==
    /\ \A lexicon \in Bases : Loads(lexicon)
    /\ MaxEdits \in Nat

VARIABLES
    base,    \* the lexicon both branches come from
    branch,  \* side -> its lexicon file
    touched, \* side -> the places edited on it since then
    report,  \* what the last merge reported, until the files change
    edits    \* number of edits made

vars == <<base, branch, touched, report, edits>>

Sides == {"ours", "theirs"}
NoReport == [conflicts |-> {}, merged |-> Absent]

Merged == MergeLexicons(base, branch["ours"], branch["theirs"])

-----------------------------------------------------------------------------
(* Edits: pairs of the place that changes and what the whole becomes.      *)

Edit(path, to) == [path |-> path, to |-> to]

Toggled(list, name) ==
    IF Contains(list, name) THEN Picked(list, PlacesOf(list, ToSet(list) \ {name}))
    ELSE Append(list, name)

WithEntry(mapping, key, value) ==
    [k \in DOMAIN mapping \cup {key} |-> IF k = key THEN value ELSE mapping[k]]

WithoutEntry(mapping, key) == [k \in DOMAIN mapping \ {key} |-> mapping[k]]

ItemsEdits(items, additions, EditsOf(_)) ==
    {Edit(<<x.id>>, Append(items, x)) : x \in {a \in additions : a.id \notin Ids(items)}}
    \cup {Edit(<<items[i].id>>, Picked(items, DOMAIN items \ {i})) : i \in DOMAIN items}
    \cup (UNION {{Edit(<<items[i].id>> \o e.path, [items EXCEPT ![i] = e.to]) :
                     e \in EditsOf(items[i])} : i \in DOMAIN items})

\* The edits of one part of a record, as edits of the record.
PartEdits(whole, part, partEdits) ==
    {Edit(<<part>> \o e.path, [whole EXCEPT ![part] = e.to]) : e \in partEdits}

ObjectEdits(x) ==
    (UNION {{Edit(<<f>>, [x EXCEPT !.fields[f] = v]) : v \in Values[f] \ {x.fields[f]}} :
               f \in DOMAIN x.fields})
    \cup (UNION {{Edit(<<l, e>>, [x EXCEPT !.lists[l] = Toggled(@, e)]) : e \in Elements[l]} :
                    l \in DOMAIN x.lists})

NoEdits(x) == {}

EvidenceEdits(x) ==
    PartEdits(x, "evidence", ItemsEdits(x.evidence, Additions.evidence, NoEdits))

MetadataEdits(x) ==
    (UNION {{Edit(<<"metadata", k>>, [x EXCEPT !.metadata = WithEntry(@, k, v)]) :
                v \in Entries[k]} : k \in DOMAIN Entries})
    \cup {Edit(<<"metadata", k>>, [x EXCEPT !.metadata = WithoutEntry(@, k)]) :
             k \in DOMAIN x.metadata}

TermEdits(x) ==
    ObjectEdits(x) \cup MetadataEdits(x) \cup EvidenceEdits(x)
    \cup PartEdits(x, "aliases", ItemsEdits(x.aliases, Additions.aliases, ObjectEdits))

ProposalEdits(x) == ObjectEdits(x) \cup EvidenceEdits(x)

LexiconEdits(x) ==
    PartEdits(x, "scopes", ItemsEdits(x.scopes, Additions.scopes, ObjectEdits))
    \cup PartEdits(x, "terms", ItemsEdits(x.terms, Additions.terms, TermEdits))
    \cup PartEdits(x, "proposals", ItemsEdits(x.proposals, Additions.proposals, ProposalEdits))

-----------------------------------------------------------------------------
Init ==
    /\ base \in Bases
    /\ branch = [s \in Sides |-> base]
    /\ touched = [s \in Sides |-> {}]
    /\ report = NoReport
    /\ edits = 0

EditBranch(s) ==
    /\ edits < MaxEdits
    /\ \E e \in LexiconEdits(branch[s]) :
          /\ e.to # branch[s]
          /\ Loads(e.to)
          /\ branch' = [branch EXCEPT ![s] = e.to]
          /\ touched' = [touched EXCEPT ![s] = @ \cup {e.path}]
    /\ edits' = edits + 1
    /\ report' = NoReport
    /\ UNCHANGED base

RunMerge ==
    /\ report = NoReport
    /\ report' = Merged
    /\ UNCHANGED <<base, branch, touched, edits>>

\* The merged lexicon is written over ours; theirs, now part of our history, is
\* what both have in common from here on.
WriteMerged ==
    /\ report.merged # Absent
    /\ branch' = [branch EXCEPT !["ours"] = report.merged]
    /\ base' = branch["theirs"]
    /\ touched' = [touched EXCEPT !["theirs"] = {}]
    /\ report' = NoReport
    /\ UNCHANGED edits

Next == (\E s \in Sides : EditBranch(s)) \/ RunMerge \/ WriteMerged

Spec == Init /\ [][Next]_vars

-----------------------------------------------------------------------------
(* What a lexicon says, fact by fact: the reference for the merge.  A fact *)
(* is what is said in a part, under a key of that part.                    *)

Fact(part, key, said) == <<part, key, said>>

MetadataFacts(metadata) == {Fact("metadata", k, metadata[k]) : k \in DOMAIN metadata}

FieldFacts(fields) == {Fact("field", f, fields[f]) : f \in DOMAIN fields}

ListFacts(lists) ==
    UNION {{Fact("list", l, e) : e \in ToSet(lists[l])} : l \in DOMAIN lists}

EvidenceFacts(evidence) == {Fact("evidence", e.id, e.data) : e \in ToSet(evidence)}

ObjectFacts(x) ==
    {Fact("object", None, None)} \cup FieldFacts(x.fields) \cup ListFacts(x.lists)
    \cup MetadataFacts(x.metadata) \cup EvidenceFacts(x.evidence)

ItemsFacts(part, items, FactsOf(_)) ==
    UNION {{Fact(part, x.id, f) : f \in FactsOf(x)} : x \in ToSet(items)}

TermFacts(x) == ObjectFacts(x) \cup ItemsFacts("aliases", x.aliases, ObjectFacts)

Facts(lexicon) ==
    MetadataFacts(lexicon.metadata)
    \cup ItemsFacts("scopes", lexicon.scopes, ObjectFacts)
    \cup ItemsFacts("terms", lexicon.terms, TermFacts)
    \cup ItemsFacts("proposals", lexicon.proposals, ObjectFacts)

\* What both sides say, and what either says anew.
ThreeWay(b, o, t) == (o \cap t) \cup (o \ b) \cup (t \ b)

-----------------------------------------------------------------------------
(* What the theorems about it assume of its constants.  All objects of a   *)
(* kind have the same fields and lists, and no two evidence entries of an  *)
(* object, and no two aliases of a term, have one id.                      *)

IsList(items) == items \in Seq(ToSet(items))

IsFunction(f) == f = [k \in DOMAIN f |-> f[k]]

IsMapping(mapping) ==
    IsFunction(mapping) /\ \A k \in DOMAIN mapping : mapping[k] # Absent

Indexed(items) ==
    /\ IsList(items)
    /\ IdsUnique(items)
    /\ \A x \in ToSet(items) : "id" \in DOMAIN x

IsObject(kind, x) ==
    /\ {"id", "fields", "lists", "metadata", "evidence"} \subseteq DOMAIN x
    /\ IsFunction(x) /\ IsFunction(x.fields)
    /\ DOMAIN x.fields = kind.fields
    /\ DOMAIN x.lists = kind.lists
    /\ \A l \in kind.lists : IsList(x.lists[l])
    /\ IsMapping(x.metadata)
    /\ Indexed(x.evidence)

\* Scopes and aliases have no evidence.
IsPlain(kind, x) == IsObject(kind, x) /\ x.evidence = <<>>

IsTerm(kinds, x) ==
    /\ IsObject(kinds.terms, x)
    /\ "aliases" \in DOMAIN x
    /\ Indexed(x.aliases)
    /\ \A a \in ToSet(x.aliases) : IsPlain(kinds.aliases, a)

WellFormed(kinds, x) ==
    /\ Sections \cup {"metadata"} \subseteq DOMAIN x
    /\ IsMapping(x.metadata)
    /\ \A section \in Sections : Indexed(x[section])
    /\ \A s \in ToSet(x.scopes) : IsPlain(kinds.scopes, s)
    /\ \A t \in ToSet(x.terms) : IsTerm(kinds, t)
    /\ \A p \in ToSet(x.proposals) : IsObject(kinds.proposals, p)

OfKinds(kinds) ==
    /\ "canonical" \in kinds.terms.fields
    /\ \A lexicon \in Bases : WellFormed(kinds, lexicon)
    /\ \A k \in DOMAIN Entries : Absent \notin Entries[k]
    /\ \A s \in Additions.scopes : IsPlain(kinds.scopes, s)
    /\ \A t \in Additions.terms : IsTerm(kinds, t)
    /\ \A p \in Additions.proposals : IsObject(kinds.proposals, p)
    /\ \A a \in Additions.aliases : IsPlain(kinds.aliases, a)
    /\ \A e \in Additions.evidence : "id" \in DOMAIN e

-----------------------------------------------------------------------------
\* The files of both branches, and their base, always load: a merge that is
\* written has been validated, whatever the two sides did to each other's
\* references, replacements and surfaces.
TypeOK ==
    /\ Loads(base)
    /\ DOMAIN branch = Sides
    /\ \A s \in Sides : Loads(branch[s])
    /\ edits \in 0..MaxEdits

\* A clean merge says what both sides say, and what either says anew: it takes
\* every edit of both sides, undoes none and invents nothing.
KeepsBothEdits ==
    report.merged # Absent =>
        Facts(report.merged) = ThreeWay(Facts(base), Facts(branch["ours"]),
                                        Facts(branch["theirs"]))

\* Edits in places apart from each other never conflict: at every conflict that
\* is not about the lexicon as a whole, one side edited that very place or what
\* it is in, and the other this place, what it is in or something in it.
OnlyCompetingEditsConflict ==
    \A c \in report.conflicts \ WholeLexicon :
        \E s \in Sides :
            /\ \E p \in touched[s] : IsPrefix(p, c)
            /\ \A other \in Sides \ {s} :
                  \E p \in touched[other] : IsPrefix(p, c) \/ IsPrefix(c, p)

\* Merging again what has been merged, against the same base, finds no competing
\* edits and changes nothing that the lexicon says.
RetryChangesNothing ==
    report.merged # Absent =>
        /\ Conflicts(base, report.merged, branch["theirs"]) = {}
        /\ Facts(MergedPayload(base, report.merged, branch["theirs"])) = Facts(report.merged)

\* What a reviewer is told of a clean merge, by algorithms of their own, is what
\* the merge did: the changes it is summed up with are changes of one side or
\* the other, no addition or removal of either is missing among them, and a term
\* that is merged under a new canonical name, and is neither as we left it nor
\* as they did, is in the warnings.
ReportTellsTheMerge ==
    report.merged # Absent =>
        LET made == report.ours_diff \cup report.theirs_diff
        IN  /\ report.merged_diff \subseteq made
            /\ {c \in made : c.kind # "changed"} \subseteq report.merged_diff
            /\ \A id \in Ids(report.merged.terms) \cap Ids(base.terms) :
                  LET merged == ItemAt(report.merged.terms, id)
                  IN  /\ merged.fields.canonical # ItemAt(base.terms, id).fields.canonical
                      /\ \A s \in Sides : merged # ItemAt(branch[s].terms, id)
                      => id \in report.warnings
=============================================================================
