---------------------------- MODULE LexiconLinter ----------------------------
(***************************************************************************)
(* What "lint" says of a lexicon that loads (core/linter.py).  A finding   *)
(* is its code, its terms and the surface it is about.                     *)
(***************************************************************************)
EXTENDS LexiconDocument, TextNormalization

CONSTANTS
    BroadSurfaceWords,  \* words too broad to be a surface by themselves
    MinFragmentLength

Finding(code, terms, surface) == [code |-> code, terms |-> terms, surface |-> surface]

\* One record for the name of a term and one for each of its aliases.
SurfaceRecords(lexicon) ==
    UNION {{[term |-> t, surface |-> t.fields.canonical, scopes |-> t.lists.scopes,
             case_sensitive |-> FALSE, deprecated |-> t.fields.deprecated]}
           \cup {[term |-> t, surface |-> a.id,
                  scopes |-> IF a.lists.scopes = <<>> THEN t.lists.scopes ELSE a.lists.scopes,
                  case_sensitive |-> a.fields.case_sensitive,
                  deprecated |-> t.fields.deprecated \/ a.fields.deprecated] :
                    a \in ToSet(t.aliases)} :
              t \in ToSet(lexicon.terms)}

IsBroad(fragments) == Len(fragments) = 1 /\ fragments[1] \in BroadSurfaceWords
IsShort(fragments) == Len(fragments) = 1 /\ Len(fragments[1]) < MinFragmentLength

LintSurface(r) ==
    LET fragments == Fragments(r.surface)
        noisy == IsBroad(fragments) \/ IsShort(fragments)
        codes == {code \in {"short_surface", "broad_surface", "deprecated_broad_surface",
                            "tool_broad_surface"} :
                     CASE code = "short_surface" -> IsShort(fragments)
                       [] code = "broad_surface" -> IsBroad(fragments)
                       [] code = "deprecated_broad_surface" -> noisy /\ r.deprecated
                       [] OTHER -> noisy /\ r.term.lists.tools # <<>>}
    IN  {Finding(code, {r.term.id}, r.surface) : code \in codes}

RuntimeSearchSurfaces(r) ==
    {SearchSurface(v, r.case_sensitive) :
        v \in {r.surface} \cup IF r.case_sensitive THEN {} ELSE CodeIdentifierVariants(r.surface)}

\* Mutant: only the surfaces themselves are compared.
CollisionsOfSurfaces(records) ==
    {Finding("normalized_surface_collision", {q[1].term.id, q[2].term.id},
             SearchSurface(q[1].surface, q[1].case_sensitive)) :
        q \in {p \in records \X records :
                  /\ p[1].term.id # p[2].term.id
                  /\ p[1].scopes = p[2].scopes
                  /\ p[1].case_sensitive = p[2].case_sensitive
                  /\ SearchSurface(p[1].surface, p[1].case_sensitive)
                         = SearchSurface(p[2].surface, p[2].case_sensitive)}}

\* What the runtime looks for, for two terms or more, in the same scopes.
Collisions(records) ==
    LET keys == UNION {{<<s, r.scopes, r.case_sensitive>> : s \in RuntimeSearchSurfaces(r)} :
                          r \in records}
        Owners(key) == {r.term.id : r \in {q \in records : /\ key[1] \in RuntimeSearchSurfaces(q)
                                                           /\ key[2] = q.scopes
                                                           /\ key[3] = q.case_sensitive}}
    IN  {Finding("normalized_surface_collision", Owners(key), key[1]) :
            key \in {k \in keys : Cardinality(Owners(k)) > 1}}

Lint(lexicon) ==
    LET records == SurfaceRecords(lexicon)
    IN  Collisions(records) \cup UNION {LintSurface(r) : r \in records}
=============================================================================
