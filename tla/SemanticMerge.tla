---------------------------- MODULE SemanticMerge ----------------------------
(***************************************************************************)
(* The three-way merge of lexicons (dictionary/merge.py).  At every place  *)
(* - a field, a key of a mapping, an object under its id - there is a base *)
(* value, ours and theirs, Absent where there is none.  A merge with a     *)
(* clash anywhere is discarded, so what is merged there does not matter.   *)
(***************************************************************************)
EXTENDS SemanticDiff

\* Neither side left the place alone, and they do not agree.
Clash(base, ours, theirs) == ours # base /\ theirs # base /\ ours # theirs

Settled(base, ours, theirs) == IF ours = base THEN theirs ELSE ours

\* The elements of a sequence at some places, in their order.
Picked(seq, places) ==
    LET UpTo[n \in 0..Len(seq)] ==
            IF n = 0 THEN <<>>
            ELSE IF n \in places THEN Append(UpTo[n - 1], seq[n]) ELSE UpTo[n - 1]
    IN  UpTo[Len(seq)]

PlacesOf(seq, elements) == {i \in DOMAIN seq : seq[i] \in elements}

\* The first occurrence of every element.
Distinct(seq) == Picked(seq, {i \in DOMAIN seq : \A j \in DOMAIN seq : seq[j] = seq[i] => i <= j})

Added(base, ours, theirs) ==
    LET values == ours \o theirs
    IN  Distinct(Picked(values, PlacesOf(values, ToSet(values) \ ToSet(base))))

\* Mutant: an element stays when either side still has it.
MergeScalarSequenceOfEither(base, ours, theirs) ==
    Picked(base, PlacesOf(base, ToSet(ours) \cup ToSet(theirs))) \o Added(base, ours, theirs)

\* The base elements that both sides keep, then what either side adds.
MergeScalarSequence(base, ours, theirs) ==
    Picked(base, PlacesOf(base, ToSet(ours) \cap ToSet(theirs))) \o Added(base, ours, theirs)

MappingKeys(base, ours, theirs) == DOMAIN base \cup DOMAIN ours \cup DOMAIN theirs

MergeMapping(base, ours, theirs) ==
    LET Merged(k) == Settled(ValueAt(base, k), ValueAt(ours, k), ValueAt(theirs, k))
    IN  [k \in {m \in MappingKeys(base, ours, theirs) : Merged(m) # Absent} |-> Merged(k)]

MappingConflicts(base, ours, theirs) ==
    {<<k>> : k \in {m \in MappingKeys(base, ours, theirs) :
                       Clash(ValueAt(base, m), ValueAt(ours, m), ValueAt(theirs, m))}}

Beneath(path, conflicts) == {path \o c : c \in conflicts}

\* Mutant: what both sides changed is a conflict as a whole.
MergedWithinNever(base, ours, theirs) == FALSE

\* Objects that are on both sides and in the base, and changed on both sides,
\* are merged within; all others are taken or left as a whole.
MergedWithin(base, ours, theirs) ==
    Clash(base, ours, theirs) /\ Absent \notin {base, ours, theirs}

\* Mutant: two sides that add the same object are in conflict.
WholeConflictOfAdded(base, ours, theirs) ==
    /\ ~MergedWithin(base, ours, theirs)
    /\ Clash(base, ours, theirs) \/ (base = Absent /\ Absent \notin {ours, theirs})

\* One side removed what the other changed, or both added different objects.
WholeConflict(base, ours, theirs) ==
    Clash(base, ours, theirs) /\ ~MergedWithin(base, ours, theirs)

\* Mutant: the keys that only theirs has are left out.
OrderedKeysOfOurs(base, ours, theirs) ==
    LET items == base \o ours
    IN  Distinct([i \in DOMAIN items |-> items[i].id])

OrderedKeys(base, ours, theirs) ==
    LET items == base \o ours \o theirs
    IN  Distinct([i \in DOMAIN items |-> items[i].id])

\* The objects there are under some ids, in the order of the ids.
Listed(ids, item) ==
    LET kept == Picked(ids, {i \in DOMAIN ids : item[ids[i]] # Absent})
    IN  [i \in DOMAIN kept |-> item[kept[i]]]

\* _merge_indexed_list and _merge_optional_item: what stays, and what conflicts.
MergeIndexedList(base, ours, theirs, MergeItem(_, _, _)) ==
    LET Merged(id) ==
            LET b == ItemAt(base, id)
                o == ItemAt(ours, id)
                t == ItemAt(theirs, id)
            IN  IF MergedWithin(b, o, t) THEN MergeItem(b, o, t) ELSE Settled(b, o, t)
        ids == OrderedKeys(base, ours, theirs)
    IN  Listed(ids, [id \in ToSet(ids) |-> Merged(id)])

IndexedListConflicts(base, ours, theirs, ItemConflicts(_, _, _)) ==
    LET Found(id) ==
            LET b == ItemAt(base, id)
                o == ItemAt(ours, id)
                t == ItemAt(theirs, id)
            IN  IF MergedWithin(b, o, t) THEN ItemConflicts(b, o, t)
                ELSE IF WholeConflict(b, o, t) THEN {<<>>} ELSE {}
    IN  UNION {Beneath(<<id>>, Found(id)) : id \in Ids(base) \cup Ids(ours) \cup Ids(theirs)}

-----------------------------------------------------------------------------
\* Scopes and aliases, and what they share with terms and proposals.
MergeObject(base, ours, theirs) ==
    [base EXCEPT
        !.fields = [f \in DOMAIN @ |-> Settled(@[f], ours.fields[f], theirs.fields[f])],
        !.lists = [l \in DOMAIN @ |->
                      MergeScalarSequence(@[l], ours.lists[l], theirs.lists[l])],
        !.metadata = MergeMapping(@, ours.metadata, theirs.metadata)]

ObjectConflicts(base, ours, theirs) ==
    {<<f>> : f \in {g \in DOMAIN base.fields :
                       Clash(base.fields[g], ours.fields[g], theirs.fields[g])}}
    \cup Beneath(<<"metadata">>,
                 MappingConflicts(base.metadata, ours.metadata, theirs.metadata))

\* Evidence is never merged within.
MergeEvidence(base, ours, theirs) == base

EvidenceItemConflicts(base, ours, theirs) == {<<>>}

MergeProposal(base, ours, theirs) ==
    [MergeObject(base, ours, theirs) EXCEPT
        !.evidence = MergeIndexedList(@, ours.evidence, theirs.evidence, MergeEvidence)]

ProposalConflicts(base, ours, theirs) ==
    ObjectConflicts(base, ours, theirs)
    \cup Beneath(<<"evidence">>,
                 IndexedListConflicts(base.evidence, ours.evidence, theirs.evidence,
                                      EvidenceItemConflicts))

MergeTerm(base, ours, theirs) ==
    [MergeProposal(base, ours, theirs) EXCEPT
        !.aliases = MergeIndexedList(@, ours.aliases, theirs.aliases, MergeObject)]

TermConflicts(base, ours, theirs) ==
    ProposalConflicts(base, ours, theirs)
    \cup Beneath(<<"aliases">>,
                 IndexedListConflicts(base.aliases, ours.aliases, theirs.aliases,
                                      ObjectConflicts))

MergedPayload(base, ours, theirs) ==
    [metadata |-> MergeMapping(base.metadata, ours.metadata, theirs.metadata),
     scopes |-> MergeIndexedList(base.scopes, ours.scopes, theirs.scopes, MergeObject),
     terms |-> MergeIndexedList(base.terms, ours.terms, theirs.terms, MergeTerm),
     proposals |-> MergeIndexedList(base.proposals, ours.proposals, theirs.proposals,
                                    MergeProposal)]

Conflicts(base, ours, theirs) ==
    Beneath(<<"metadata">>, MappingConflicts(base.metadata, ours.metadata, theirs.metadata))
    \cup Beneath(<<"scopes">>,
                 IndexedListConflicts(base.scopes, ours.scopes, theirs.scopes,
                                      ObjectConflicts))
    \cup Beneath(<<"terms">>,
                 IndexedListConflicts(base.terms, ours.terms, theirs.terms, TermConflicts))
    \cup Beneath(<<"proposals">>,
                 IndexedListConflicts(base.proposals, ours.proposals, theirs.proposals,
                                      ProposalConflicts))

-----------------------------------------------------------------------------
\* A canonical name changed, and the term changed in another way too, not all
\* of it on one side.
ParallelRename(base, ours, theirs) ==
    LET Renamed(side) == side.fields.canonical # base.fields.canonical
        Otherwise(side) == [side EXCEPT !.fields.canonical = base.fields.canonical] # base
    IN  /\ ours # base
        /\ theirs # base
        /\ ours # theirs
        /\ \/ Renamed(ours) /\ ~Renamed(theirs) /\ Otherwise(theirs)
           \/ Renamed(theirs) /\ ~Renamed(ours) /\ Otherwise(ours)
           \/ /\ Renamed(ours)
              /\ ours.fields.canonical = theirs.fields.canonical
              /\ Otherwise(ours) \/ Otherwise(theirs)

Warnings(base, ours, theirs) ==
    {id \in Ids(base.terms) \cap Ids(ours.terms) \cap Ids(theirs.terms) :
        ParallelRename(ItemAt(base.terms, id), ItemAt(ours.terms, id),
                       ItemAt(theirs.terms, id))}

\* What a merge that fails only because its result does not load reports.
WholeLexicon == {<<>>}

\* Mutant: the merged payload is not validated.
MergeLexiconsUnchecked(base, ours, theirs) ==
    LET conflicts == Conflicts(base, ours, theirs)
        payload == MergedPayload(base, ours, theirs)
        merged == IF conflicts = {} THEN payload ELSE Absent
    IN  [conflicts |-> conflicts, merged |-> merged,
         warnings |-> Warnings(base, ours, theirs),
         ours_diff |-> Diff(base, ours), theirs_diff |-> Diff(base, theirs),
         merged_diff |-> IF merged = Absent THEN {} ELSE Diff(base, merged)]

MergeLexicons(base, ours, theirs) ==
    LET conflicts == Conflicts(base, ours, theirs)
        payload == MergedPayload(base, ours, theirs)
        merged == IF conflicts = {} /\ Loads(payload) THEN payload ELSE Absent
    IN  [conflicts |-> IF conflicts = {} /\ merged = Absent THEN WholeLexicon ELSE conflicts,
         merged |-> merged,
         warnings |-> Warnings(base, ours, theirs),
         ours_diff |-> Diff(base, ours), theirs_diff |-> Diff(base, theirs),
         merged_diff |-> IF merged = Absent THEN {} ELSE Diff(base, merged)]
=============================================================================
