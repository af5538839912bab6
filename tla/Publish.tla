------------------------------- MODULE Publish -------------------------------
(***************************************************************************)
(* Publishing reviewed decisions (workspace/snapshot.py, run by            *)
(* workflows/simple.py) and editing the lexicon file (dictionary/terms.py).*)
(*                                                                         *)
(* A publisher loads the lexicon file, stamps the snapshot, reads the      *)
(* review inbox, decides item by item what enters the snapshot, writes the *)
(* snapshot file, stores its record in the workspace and, with             *)
(* --update-lexicon, writes the terms back to the lexicon file.  Nothing   *)
(* holds a lock across these steps: other workers publish and edit, and    *)
(* reviewers change their minds, in between.                               *)
(*                                                                         *)
(* A surface is its casefolded text; scopes are left out, so all terms of  *)
(* a lexicon share one scope.                                              *)
(***************************************************************************)
EXTENDS Naturals, Sequences, FiniteSets

CONSTANTS
    Workers,      \* processes that run "publish" or "term deprecate"
    Surfaces,     \* surfaces of candidates and of terms
    Candidates,   \* the surfaces in the candidates table
    Place,        \* candidate -> its place in the order of normalized surfaces
    Rank,         \* candidate -> its place in the inbox order of score
    Ids,          \* term ids
    NoId,         \* the empty term id
    Targets,      \* the ids reviewers give deprecate_alias, NoId for none
    Suffixes,     \* bound on the numbers _unique_term_id tries, 1 for none
    TermId,       \* candidate, suffix -> the id _unique_term_id tries
    SnapshotIds,  \* bound on the snapshots published
    NoSnapshot,
    Initial,      \* the lexicon files to start from
    InboxLimit,   \* list_review_items(limit=10_000)
    MaxClock,     \* bound on the one-second wall clock
    MaxReviews    \* bound on the decisions saved and cleared

ASSUME PublishAssumption ==
    /\ Candidates \subseteq Surfaces
    /\ NoId \notin Ids
    /\ NoSnapshot \notin SnapshotIds
    /\ Suffixes \subseteq Nat
    /\ TermId \in [Candidates -> [Suffixes -> Ids]]
    /\ Place \in [Candidates -> Nat]
    /\ Rank \in [Candidates -> Nat]
    /\ Targets \subseteq Ids \cup {NoId}
    /\ MaxClock \in Nat
    /\ MaxReviews \in Nat

Aliases == [surface : Surfaces, deprecated : BOOLEAN]

\* "replacement" is the id in the term's replaced_by metadata.
Terms == [id : Ids, canonical : Surfaces, aliases : SUBSET Aliases,
          deprecated : BOOLEAN, starter : BOOLEAN, replacement : Ids \cup {NoId}]

ASSUME InitialAssumption == Initial \subseteq SUBSET Terms

Deprecated(s) == [surface |-> s, deprecated |-> TRUE]

\* "excluded" stands for rejected, ambiguous and needs_split.
Items == [status : {"unreviewed", "accepted", "excluded", "deprecate_alias"},
          target : Ids \cup {NoId}]

Unreviewed == [status |-> "unreviewed", target |-> NoId]

\* An entry of published_decisions.
Entries == [result : {"none", "missing_target", "surface_active", "alias_existing",
                      "alias_added", "target_not_found", "excluded",
                      "skipped_existing_surface", "generated_term"},
            term : Ids \cup {NoId}, included : BOOLEAN]

Entry(result, id, included) ==
    [result |-> result, term |-> id, included |-> included]

NoEntry == Entry("none", NoId, FALSE)

Ledgers == [Candidates -> Entries]

\* What a worker holds in memory.  "since" is history: how many snapshots there
\* were when its own was stamped.
Jobs == [base : SUBSET Terms, created : Nat, since : Nat, id : SnapshotIds \cup {NoSnapshot},
         items : [Candidates -> Items], todo : SUBSET Candidates,
         terms : SUBSET Terms, ledger : Ledgers]

NoJob == [base |-> {}, created |-> 0, since |-> 0, id |-> NoSnapshot,
          items |-> [c \in Candidates |-> Unreviewed], todo |-> {},
          terms |-> {}, ledger |-> [c \in Candidates |-> NoEntry]]

VARIABLES
    clock,      \* datetime.now() in whole seconds
    reviews,    \* decisions saved and cleared so far
    decisions,  \* the review state of each candidate
    lexicon,    \* the terms in the lexicon file
    files,      \* the snapshot files written
    records,    \* the table snapshots, in rowid order, with its ledger
    pc,         \* per worker: how far it has come
    job         \* per worker: its publish or edit

vars == <<clock, reviews, decisions, lexicon, files, records, pc, job>>

Init ==
    /\ clock = 0
    /\ reviews = 0
    /\ decisions = [c \in Candidates |-> Unreviewed]
    /\ lexicon \in Initial
    /\ files = {}
    /\ records = <<>>
    /\ pc = [w \in Workers |-> "idle"]
    /\ job = [w \in Workers |-> NoJob]

-----------------------------------------------------------------------------
(* Lexicons.                                                               *)

SurfacesOf(t) == {t.canonical} \cup {a.surface : a \in t.aliases}

IdsOf(lex) == {t.id : t \in lex}

\* _known_surfaces: the aliases of a deprecated term count, its canonical not.
KnownSurfaces(lex) ==
    {t.canonical : t \in {u \in lex : ~u.deprecated}} \cup
    {a.surface : a \in {b \in UNION {t.aliases : t \in lex} : ~b.deprecated}}

KnownDeprecated(lex) ==
    {a.surface : a \in {b \in UNION {t.aliases : t \in lex} : b.deprecated}}

\* The surfaces of a term that the loader refuses to find in another term.
Claims(t) ==
    IF t.deprecated
      THEN {}
      ELSE {t.canonical} \cup {a.surface : a \in {b \in t.aliases : ~b.deprecated}}

\* lexicon_from_dict accepts the document.
UniqueIds(lex) == \A t, u \in lex : t.id = u.id => t = u

ReplacementsValid(lex) ==
    \A t \in lex : t.replacement # NoId =>
        /\ t.deprecated
        /\ \E u \in lex : u.id = t.replacement /\ ~u.deprecated

NoCollisions(lex) ==
    \A t, u \in lex : Claims(t) \cap Claims(u) # {} => t.id = u.id

Loads(lex) == UniqueIds(lex) /\ ReplacementsValid(lex) /\ NoCollisions(lex)

Visible(lex) == {t \in lex : ~t.starter}

\* Mutant: the edit drops the target's other aliases.
WithOnlyDeprecatedAlias(lex, s, target) ==
    {IF t.id = target THEN [t EXCEPT !.aliases = {Deprecated(s)}] ELSE t : t \in lex}

\* deprecate_alias_in_lexicon: the term "target" with s as deprecated alias.
WithDeprecatedAlias(lex, s, target) ==
    {IF t.id = target
       THEN [t EXCEPT !.aliases =
                {a \in @ : a.surface # s} \cup {Deprecated(s)}]
       ELSE t : t \in lex}

MayDeprecate(lex, s, target) ==
    /\ \E t \in lex : t.id = target /\ ~t.deprecated
    /\ \A t \in lex :
          /\ t.canonical # s
          /\ t.id # target => \A a \in t.aliases : a.surface # s

-----------------------------------------------------------------------------
(* The steps of a publisher.                                               *)

\* load_lexicon: a file that does not load ends the command.
LoadBase(w) ==
    /\ pc[w] = "idle"
    /\ Loads(lexicon)
    /\ job' = [job EXCEPT ![w] = [NoJob EXCEPT !.base = lexicon]]
    /\ pc' = [pc EXCEPT ![w] = "loaded"]
    /\ UNCHANGED <<clock, reviews, decisions, lexicon, files, records>>

\* A new snapshot id and created_at, both before the inbox is read.
Stamp(w) ==
    /\ pc[w] = "loaded"
    /\ \E id \in SnapshotIds :
          /\ \A f \in files : f.id # id
          /\ \A v \in Workers : job[v].id # id
          /\ job' = [job EXCEPT ![w].id = id, ![w].created = clock,
                                ![w].since = Len(records)]
    /\ pc' = [pc EXCEPT ![w] = "stamped"]
    /\ UNCHANGED <<clock, reviews, decisions, lexicon, files, records>>

Reviewed(c) == decisions[c].status # "unreviewed"

\* ORDER BY unreviewed first, then score: c is listed before d.
ListedBefore(c, d) ==
    \/ ~Reviewed(c) /\ Reviewed(d)
    \/ (Reviewed(c) <=> Reviewed(d)) /\ Rank[c] < Rank[d]

Listed == {d \in Candidates :
              Cardinality({c \in Candidates : ListedBefore(c, d)}) < InboxLimit}

\* The reviewed items of the list; none is an error.  Starter terms are dropped.
ReadInbox(w) ==
    LET found == {c \in Listed : Reviewed(c)} IN
    /\ pc[w] = "stamped"
    /\ IF found = {}
         THEN /\ pc' = [pc EXCEPT ![w] = "idle"]
              /\ job' = [job EXCEPT ![w] = NoJob]
         ELSE /\ pc' = [pc EXCEPT ![w] = "deciding"]
              /\ job' = [job EXCEPT ![w].items = decisions, ![w].todo = found,
                                    ![w].terms = Visible(job[w].base)]
    /\ UNCHANGED <<clock, reviews, decisions, lexicon, files, records>>

\* First loop: deprecate_alias; second loop: the others; each loop is sorted.
IsAlias(j, c) == j.items[c].status = "deprecate_alias"

IsNext(j, c) ==
    /\ c \in j.todo
    /\ \A d \in j.todo :
          \/ IsAlias(j, c) /\ ~IsAlias(j, d)
          \/ (IsAlias(j, c) <=> IsAlias(j, d)) /\ Place[c] <= Place[d]

\* The surfaces of the base, starter terms included, and what this run added.
Active(j) == KnownSurfaces(j.base \cup j.terms)

AlreadyDeprecated(j) == KnownDeprecated(j.base \cup j.terms)

Decide(w, c, entry, terms) ==
    /\ pc[w] = "deciding"
    /\ job' = [job EXCEPT ![w].todo = @ \ {c}, ![w].ledger[c] = entry,
                          ![w].terms = terms]
    /\ UNCHANGED <<clock, reviews, decisions, lexicon, files, records, pc>>

\* Mutant: an alias without its target counts as included.
AliasOutcomeOptimistic(j, c) ==
    LET target == j.items[c].target IN
    IF target = NoId THEN Entry("missing_target", NoId, FALSE)
    ELSE IF c \in Active(j) THEN Entry("surface_active", target, FALSE)
    ELSE IF c \in AlreadyDeprecated(j) THEN Entry("alias_existing", target, TRUE)
    ELSE IF target \in IdsOf(j.terms) THEN Entry("alias_added", target, TRUE)
    ELSE Entry("target_not_found", target, TRUE)

\* _apply_deprecated_alias_decision.
AliasOutcome(j, c) ==
    LET target == j.items[c].target IN
    IF target = NoId THEN Entry("missing_target", NoId, FALSE)
    ELSE IF c \in Active(j) THEN Entry("surface_active", target, FALSE)
    ELSE IF c \in AlreadyDeprecated(j) THEN Entry("alias_existing", target, TRUE)
    ELSE IF target \in IdsOf(j.terms) THEN Entry("alias_added", target, TRUE)
    ELSE Entry("target_not_found", target, FALSE)

AliasAdded(terms, c, target) ==
    {IF t.id = target THEN [t EXCEPT !.aliases = @ \cup {Deprecated(c)}] ELSE t :
        t \in terms}

DecideAlias(w) ==
    \E c \in Candidates :
        LET entry == AliasOutcome(job[w], c) IN
        /\ IsNext(job[w], c)
        /\ IsAlias(job[w], c)
        /\ Decide(w, c, entry,
                  IF entry.result = "alias_added"
                    THEN AliasAdded(job[w].terms, c, entry.term)
                    ELSE job[w].terms)

ExcludeItem(w) ==
    \E c \in Candidates :
        /\ IsNext(job[w], c)
        /\ job[w].items[c].status = "excluded"
        /\ Decide(w, c, Entry("excluded", NoId, FALSE), job[w].terms)

\* Mutant: the deprecated surfaces are forgotten.
KnownActive(j, c) == c \in Active(j)

Known(j, c) == c \in Active(j) \/ c \in AlreadyDeprecated(j)

SkipItem(w) ==
    \E c \in Candidates :
        /\ IsNext(job[w], c)
        /\ job[w].items[c].status = "accepted"
        /\ Known(job[w], c)
        /\ Decide(w, c, Entry("skipped_existing_surface", NoId, TRUE), job[w].terms)

\* Mutant: the id is not checked against the ids in use.
IsPlainTermId(terms, c, n) ==
    \A m \in Suffixes : n <= m

\* _unique_term_id: n is the first suffix that is free.
IsUniqueTermId(terms, c, n) ==
    /\ TermId[c][n] \notin IdsOf(terms)
    /\ \A m \in Suffixes : m < n => TermId[c][m] \in IdsOf(terms)

NewTerm(c, id) ==
    [id |-> id, canonical |-> c, aliases |-> {}, deprecated |-> FALSE,
     starter |-> FALSE, replacement |-> NoId]

GenerateTerm(w) ==
    \E c \in Candidates, n \in Suffixes :
        /\ IsNext(job[w], c)
        /\ job[w].items[c].status = "accepted"
        /\ ~Known(job[w], c)
        /\ IsUniqueTermId(job[w].terms, c, n)
        /\ Decide(w, c, Entry("generated_term", TermId[c][n], TRUE),
                  job[w].terms \cup {NewTerm(c, TermId[c][n])})

\* Mutant: a failed write of the file is ignored.
WriteFileOrIgnore(w) ==
    /\ pc[w] = "deciding"
    /\ job[w].todo = {}
    /\ \/ files' = files \cup {[id |-> job[w].id, terms |-> job[w].terms]}
       \/ files' = files
    /\ job' = [job EXCEPT ![w].items = NoJob.items]
    /\ pc' = [pc EXCEPT ![w] = "filed"]
    /\ UNCHANGED <<clock, reviews, decisions, lexicon, records>>

\* atomic_write_text of the snapshot; the items have been used.
WriteFile(w) ==
    /\ pc[w] = "deciding"
    /\ job[w].todo = {}
    /\ files' = files \cup {[id |-> job[w].id, terms |-> job[w].terms]}
    /\ job' = [job EXCEPT ![w].items = NoJob.items]
    /\ pc' = [pc EXCEPT ![w] = "filed"]
    /\ UNCHANGED <<clock, reviews, decisions, lexicon, records>>

\* store_snapshot_record: one transaction.  Then the command ends, or goes on
\* if it was given --update-lexicon.
StoreRecord(w) ==
    /\ pc[w] = "filed"
    /\ records' = Append(records, [id |-> job[w].id, created |-> job[w].created,
                                   since |-> job[w].since, ledger |-> job[w].ledger])
    /\ \/ /\ pc' = [pc EXCEPT ![w] = "rewriting"]
          /\ UNCHANGED job
       \/ /\ pc' = [pc EXCEPT ![w] = "idle"]
          /\ job' = [job EXCEPT ![w] = NoJob]
    /\ UNCHANGED <<clock, reviews, decisions, lexicon, files>>

\* _write_lexicon_file, atomic: the whole file is what the worker holds.
RewriteLexicon(w) ==
    /\ pc[w] = "rewriting"
    /\ lexicon' = job[w].terms
    /\ pc' = [pc EXCEPT ![w] = "idle"]
    /\ job' = [job EXCEPT ![w] = NoJob]
    /\ UNCHANGED <<clock, reviews, decisions, files, records>>

-----------------------------------------------------------------------------
(* Everybody else.                                                         *)

\* "term deprecate" has loaded the file and made its edit in memory.
EditLexicon(w) ==
    /\ pc[w] = "idle"
    /\ Loads(lexicon)
    /\ \E s \in Surfaces, target \in Ids :
          LET edited == WithDeprecatedAlias(lexicon, s, target) IN
          /\ MayDeprecate(lexicon, s, target)
          /\ edited # lexicon
          /\ job' = [job EXCEPT ![w] = [NoJob EXCEPT !.base = lexicon, !.terms = edited]]
    /\ pc' = [pc EXCEPT ![w] = "rewriting"]
    /\ UNCHANGED <<clock, reviews, decisions, lexicon, files, records>>

\* A reviewer saves or clears a decision.
Review ==
    /\ reviews < MaxReviews
    /\ reviews' = reviews + 1
    /\ \E c \in Candidates, item \in Items :
          /\ item.target \in
                IF item.status = "deprecate_alias" THEN Targets ELSE {NoId}
          /\ item # decisions[c]
          /\ decisions' = [decisions EXCEPT ![c] = item]
    /\ UNCHANGED <<clock, lexicon, files, records, pc, job>>

\* The command is killed or a write raises; atomic writes leave no half file.
Crash(w) ==
    /\ pc[w] # "idle"
    /\ pc' = [pc EXCEPT ![w] = "idle"]
    /\ job' = [job EXCEPT ![w] = NoJob]
    /\ UNCHANGED <<clock, reviews, decisions, lexicon, files, records>>

Tick ==
    /\ clock < MaxClock
    /\ clock' = clock + 1
    /\ UNCHANGED <<reviews, decisions, lexicon, files, records, pc, job>>

WorkerNext(w) ==
    \/ LoadBase(w) \/ Stamp(w) \/ ReadInbox(w)
    \/ DecideAlias(w) \/ ExcludeItem(w) \/ SkipItem(w) \/ GenerateTerm(w)
    \/ WriteFile(w) \/ StoreRecord(w) \/ RewriteLexicon(w)
    \/ EditLexicon(w) \/ Crash(w)

Next == Tick \/ Review \/ \E w \in Workers : WorkerNext(w)

Spec == Init /\ [][Next]_vars

-----------------------------------------------------------------------------
(* Correctness.                                                            *)

TypeOK ==
    /\ clock \in Nat
    /\ reviews \in Nat
    /\ decisions \in [Candidates -> Items]
    /\ lexicon \in SUBSET Terms
    /\ files \in SUBSET [id : SnapshotIds, terms : SUBSET Terms]
    /\ records \in Seq([id : SnapshotIds, created : Nat, since : Nat, ledger : Ledgers])
    /\ pc \in [Workers -> {"idle", "loaded", "stamped", "deciding", "filed",
                           "rewriting"}]
    /\ job \in [Workers -> Jobs]

\* What a ledger claims of the terms it was published with: a generated entry
\* names the term of that surface and no other entry's, an added alias is in the
\* term it names.
Tells(ledger, terms) ==
    \A c \in Candidates :
        /\ ledger[c].result = "generated_term" =>
              /\ \E t \in terms : t.id = ledger[c].term /\ t.canonical = c
              /\ \A d \in Candidates \ {c} :
                    ledger[d].result = "generated_term" =>
                        ledger[d].term # ledger[c].term
        /\ ledger[c].result = "alias_added" =>
              \E t \in terms : t.id = ledger[c].term /\ Deprecated(c) \in t.aliases

\* Whatever crashes and whoever else publishes, a snapshot that the workspace
\* lists has its file, and the provenance in its record is true of that file.
RecordTellsTheFile ==
    \A i \in DOMAIN records : \E f \in files :
        /\ f.id = records[i].id
        /\ Tells(records[i].ledger, f.terms)

\* A surface that the ledger says is in the lexicon is in the published one:
\* the "in lexicon" badge of the web view.  True while no starter term shares a
\* surface with a candidate.
IncludedIsIn(ledger, terms) ==
    \A c \in Candidates : ledger[c].included => \E t \in terms : c \in SurfacesOf(t)

LedgerTruth ==
    \A i \in DOMAIN records : \A f \in files :
        f.id = records[i].id => IncludedIsIn(records[i].ledger, f.terms)

\* What publish and edit write, the loader accepts: the snapshots and the
\* lexicon file itself.  True while no deprecated term is replaced by a starter.
SnapshotLoads ==
    /\ Loads(lexicon)
    /\ \A f \in files : Loads(f.terms)

\* No lexicon offers a surface as a term's own name and tells its readers to
\* avoid it as a deprecated alias: publish and edit check each other's half,
\* in whatever order a surface is accepted and deprecated.
OneStatus(lex) ==
    \A t, u \in lex : ~t.deprecated => \A a \in u.aliases :
        a.deprecated => a.surface # t.canonical

NoSurfaceBothWays ==
    /\ OneStatus(lexicon)
    /\ \A f \in files : OneStatus(f.terms)

\* Mutant: ties of created_at go to the older row.
NewestOrOlder ==
    CHOOSE i \in DOMAIN records : \A k \in DOMAIN records :
        \/ records[k].created < records[i].created
        \/ records[k].created = records[i].created /\ i <= k

\* list_snapshots(limit=1): by created_at, then by rowid.
Newest ==
    CHOOSE i \in DOMAIN records : \A k \in DOMAIN records :
        \/ records[k].created < records[i].created
        \/ records[k].created = records[i].created /\ k <= i

\* The Lexicon tab, which shows the newest snapshot, shows the last one
\* published, unless that one was being published already when the other was.
TabShowsLastPublish ==
    records # <<>> =>
        Newest = Len(records) \/ records[Len(records)].since < Newest

\* Rewriting the lexicon file loses nothing its worker had read: terms keep their
\* canonical and all their surfaces, deprecated aliases stay deprecated.  Only
\* starter terms go, and what others wrote after the worker read the file.
LexiconKeepsTerms ==
    [][\A t \in Visible(lexicon) :
          \/ \E u \in lexicon' :
                /\ u.id = t.id
                /\ u.canonical = t.canonical
                /\ SurfacesOf(t) \subseteq SurfacesOf(u)
                /\ {a \in t.aliases : a.deprecated} \subseteq u.aliases
          \/ \E w \in Workers :
                pc[w] = "rewriting" /\ pc'[w] = "idle" /\ t \notin job[w].base]_lexicon
=============================================================================
