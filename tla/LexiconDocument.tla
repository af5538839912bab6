--------------------------- MODULE LexiconDocument ---------------------------
(***************************************************************************)
(* A lexicon as a document (core/models.py): its metadata, scopes, terms   *)
(* and proposals, and the rules a document must meet to load               *)
(* (core/loader.py).                                                       *)
(*                                                                         *)
(* Every object is a record of its id, its plain fields, its lists of      *)
(* names and its metadata; a term has aliases too, and terms and proposals *)
(* have evidence.  The id of an alias is its surface, that of a piece of   *)
(* evidence its source, lines, kind and snippet.  Parsing is left out.     *)
(***************************************************************************)
EXTENDS Naturals, Sequences, SequencesExt, FiniteSetsExt

CONSTANTS
    Absent,    \* what a key that is not there stands for
    None,      \* an optional field that is not set
    CaseFold   \* surface -> its casefolded text

ASSUME AbsentAssumption == Absent # None

Sections == {"scopes", "terms", "proposals"}

Ids(items) == {items[i].id : i \in DOMAIN items}

\* Of several items with one id, the last.
ItemAt(items, id) ==
    LET places == {i \in DOMAIN items : items[i].id = id}
    IN  IF places = {} THEN Absent ELSE items[Max(places)]

\* The value of a key of a mapping.
ValueAt(mapping, key) == IF key \in DOMAIN mapping THEN mapping[key] ELSE Absent

IdsUnique(items) == \A i, j \in DOMAIN items : items[i].id = items[j].id => i = j

ScopesKnown(lexicon) ==
    LET known == Ids(lexicon.scopes)
        terms == ToSet(lexicon.terms)
        scoped == terms \cup ToSet(lexicon.proposals)
                     \cup UNION {ToSet(t.aliases) : t \in terms}
    IN  /\ \A s \in ToSet(lexicon.scopes) : ToSet(s.lists.parents) \subseteq known
        /\ \A x \in scoped : ToSet(x.lists.scopes) \subseteq known

TermsKnown(lexicon) ==
    \A p \in ToSet(lexicon.proposals) :
        {p.fields.candidate_term_id, p.fields.target_term_id}
            \subseteq Ids(lexicon.terms) \cup {None}

ReplacementsValid(lexicon) ==
    \A t \in ToSet(lexicon.terms) :
        "replaced_by" \in DOMAIN t.metadata =>
            /\ t.fields.deprecated
            /\ t.metadata["replaced_by"] # t.id
            /\ \E r \in ToSet(lexicon.terms) :
                  r.id = t.metadata["replaced_by"] /\ ~r.fields.deprecated

\* What a term says under which name: the key of a collision.
Claims(t) ==
    IF t.fields.deprecated THEN {}
    ELSE {<<CaseFold[t.fields.canonical], t.lists.scopes, FALSE>>} \cup
         {<<IF a.fields.case_sensitive THEN a.id ELSE CaseFold[a.id],
            a.lists.scopes, a.fields.case_sensitive>> :
              a \in {b \in ToSet(t.aliases) : ~b.fields.deprecated}}

NoCollisions(lexicon) ==
    \A t, u \in ToSet(lexicon.terms) : t.id # u.id => Claims(t) \cap Claims(u) = {}

Loads(lexicon) ==
    /\ \A section \in Sections : IdsUnique(lexicon[section])
    /\ ScopesKnown(lexicon)
    /\ TermsKnown(lexicon)
    /\ ReplacementsValid(lexicon)
    /\ NoCollisions(lexicon)
=============================================================================
