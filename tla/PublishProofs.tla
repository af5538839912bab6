---------------------------- MODULE PublishProofs ----------------------------
(***************************************************************************)
(* Proofs about Publish, for every set of workers, candidates and lexicons *)
(* to start from.                                                          *)
(***************************************************************************)
EXTENDS Publish, FiniteSetTheorems, TLAPS

-----------------------------------------------------------------------------
(* Types.                                                                  *)

LEMMA EntryTyped ==
    ASSUME NEW result \in {"none", "missing_target", "surface_active",
                           "alias_existing", "alias_added", "target_not_found",
                           "excluded", "skipped_existing_surface",
                           "generated_term"},
           NEW id \in Ids \cup {NoId}, NEW included \in BOOLEAN
    PROVE  Entry(result, id, included) \in Entries
  BY DEF Entry, Entries

LEMMA NoJobTyped == NoJob \in Jobs
<1>1. NoEntry \in Entries
  BY EntryTyped DEF NoEntry
<1>2. Unreviewed \in Items
  BY DEF Unreviewed, Items
<1> QED
  BY <1>1, <1>2 DEF NoJob, Jobs, Ledgers

LEMMA OutcomeTyped ==
    ASSUME NEW j \in Jobs, NEW c \in Candidates
    PROVE  AliasOutcome(j, c) \in Entries
<1>1. j.items[c].target \in Ids \cup {NoId}
  BY DEF Jobs, Items
<1> QED
  BY <1>1, EntryTyped DEF AliasOutcome

LEMMA AliasAddedTyped ==
    ASSUME NEW terms \in SUBSET Terms, NEW c \in Candidates, NEW target
    PROVE  AliasAdded(terms, c, target) \in SUBSET Terms
<1>1. Deprecated(c) \in Aliases
  BY PublishAssumption DEF Deprecated, Aliases
<1>2. \A t \in Terms : [t EXCEPT !.aliases = @ \cup {Deprecated(c)}] \in Terms
  BY <1>1 DEF Terms
<1> QED
  BY <1>2 DEF AliasAdded

LEMMA EditTyped ==
    ASSUME NEW lex \in SUBSET Terms, NEW s \in Surfaces, NEW target
    PROVE  WithDeprecatedAlias(lex, s, target) \in SUBSET Terms
<1>1. Deprecated(s) \in Aliases
  BY DEF Deprecated, Aliases
<1>2. \A t \in Terms :
         [t EXCEPT !.aliases = {a \in @ : a.surface # s} \cup {Deprecated(s)}]
            \in Terms
  BY <1>1 DEF Terms
<1> QED
  BY <1>2 DEF WithDeprecatedAlias

LEMMA NewTermTyped ==
    ASSUME NEW c \in Candidates, NEW id \in Ids
    PROVE  NewTerm(c, id) \in Terms
  BY PublishAssumption DEF NewTerm, Terms

\* A worker's decision on one item keeps the types.
LEMMA DecideTyped ==
    ASSUME TypeOK, NEW w \in Workers, NEW c \in Candidates,
           NEW entry \in Entries, NEW terms \in SUBSET Terms,
           Decide(w, c, entry, terms)
    PROVE  TypeOK'
<1>1. job[w] \in Jobs
  BY DEF TypeOK
<1>2. [job[w].ledger EXCEPT ![c] = entry] \in Ledgers
  BY <1>1 DEF Jobs, Ledgers
<1>3. [job[w] EXCEPT !.todo = @ \ {c}, !.ledger[c] = entry, !.terms = terms]
         \in Jobs
  BY <1>1, <1>2 DEF Jobs
<1>4. job' \in [Workers -> Jobs]
  BY <1>3 DEF Decide, TypeOK
<1> QED
  BY <1>4 DEF Decide, TypeOK

\* The types alone are not inductive: a job that writes has a snapshot id.
HasId(w) == pc[w] \in {"stamped", "deciding", "filed"}

Stamped == \A w \in Workers : HasId(w) => job[w].id \in SnapshotIds

LEMMA StampedStep ==
    ASSUME TypeOK, Stamped, [Next]_vars
    PROVE  Stamped'
<1> USE DEF Stamped, HasId
<1>1. CASE UNCHANGED vars
  BY <1>1 DEF vars
<1>2. CASE Tick \/ Review
  BY <1>2 DEF Tick, Review
<1>3. ASSUME NEW w \in Workers, WorkerNext(w)
      PROVE  Stamped'
  <2>1. CASE LoadBase(w) \/ RewriteLexicon(w) \/ EditLexicon(w) \/ Crash(w)
    BY <2>1 DEF LoadBase, RewriteLexicon, EditLexicon, Crash, TypeOK
  <2>2. CASE Stamp(w)
    BY <2>2 DEF Stamp, TypeOK, Jobs
  <2>3. CASE ReadInbox(w)
    <3>1. \/ pc' = [pc EXCEPT ![w] = "idle"] /\ job' = [job EXCEPT ![w] = NoJob]
          \/ \E found : job' = [job EXCEPT ![w].items = decisions, ![w].todo = found,
                                ![w].terms = Visible(job[w].base)]
      BY <2>3 DEF ReadInbox
    <3>2. \A v \in Workers \ {w} : pc'[v] = pc[v] /\ job'[v] = job[v]
      BY <2>3, <3>1 DEF ReadInbox, TypeOK
    <3>3. CASE pc' = [pc EXCEPT ![w] = "idle"] /\ job' = [job EXCEPT ![w] = NoJob]
      BY <3>2, <3>3 DEF TypeOK
    <3>4. ASSUME NEW found,
                 job' = [job EXCEPT ![w].items = decisions, ![w].todo = found,
                                    ![w].terms = Visible(job[w].base)]
          PROVE  job'[w].id = job[w].id
      BY <3>4 DEF TypeOK, Jobs
    <3> QED
      BY <2>3, <3>1, <3>2, <3>3, <3>4 DEF ReadInbox
  <2>4. ASSUME NEW c, NEW entry, NEW terms, Decide(w, c, entry, terms)
        PROVE  Stamped'
    BY <2>4 DEF Decide, TypeOK, Jobs
  <2>5. CASE DecideAlias(w)
    BY <2>4, <2>5 DEF DecideAlias
  <2>6. CASE ExcludeItem(w) \/ SkipItem(w) \/ GenerateTerm(w)
    BY <2>4, <2>6 DEF ExcludeItem, SkipItem, GenerateTerm
  <2>7. CASE WriteFile(w)
    BY <2>7 DEF WriteFile, TypeOK, Jobs
  <2>8. CASE StoreRecord(w)
    BY <2>8 DEF StoreRecord, TypeOK
  <2> QED
    BY <1>3, <2>1, <2>2, <2>3, <2>5, <2>6, <2>7, <2>8 DEF WorkerNext
<1> QED
  BY <1>1, <1>2, <1>3 DEF Next

LEMMA TypeStep ==
    ASSUME TypeOK, Stamped, [Next]_vars
    PROVE  TypeOK'
<1> USE NoJobTyped
<1>1. CASE UNCHANGED vars
  BY <1>1 DEF vars, TypeOK
<1>2. CASE Tick
  BY <1>2 DEF Tick, TypeOK
<1>3. CASE Review
  BY <1>3 DEF Review, TypeOK
<1>4. ASSUME NEW w \in Workers, WorkerNext(w)
      PROVE  TypeOK'
  <2>0. job[w] \in Jobs
    BY DEF TypeOK
  <2>1. CASE LoadBase(w)
    <3>1. [NoJob EXCEPT !.base = lexicon] \in Jobs
      BY DEF Jobs, TypeOK
    <3> QED
      BY <2>1, <3>1 DEF LoadBase, TypeOK
  <2>2. CASE Stamp(w)
    <3>0. Len(records) \in Nat /\ clock \in Nat
      BY DEF TypeOK
    <3>1. \A id \in SnapshotIds :
             [job[w] EXCEPT !.id = id, !.created = clock, !.since = Len(records)] \in Jobs
      BY <2>0, <3>0 DEF Jobs
    <3> QED
      BY <2>2, <3>1 DEF Stamp, TypeOK
  <2>3. CASE ReadInbox(w)
    <3>1. \A found \in SUBSET Candidates :
             [job[w] EXCEPT !.items = decisions, !.todo = found,
                            !.terms = Visible(job[w].base)] \in Jobs
      BY <2>0 DEF Jobs, TypeOK, Visible
    <3>2. {c \in Listed : Reviewed(c)} \in SUBSET Candidates
      BY DEF Listed
    <3> QED
      BY <2>3, <3>1, <3>2 DEF ReadInbox, TypeOK
  <2>4. CASE DecideAlias(w)
    <3>1. PICK c \in Candidates :
             Decide(w, c, AliasOutcome(job[w], c),
                    IF AliasOutcome(job[w], c).result = "alias_added"
                      THEN AliasAdded(job[w].terms, c, AliasOutcome(job[w], c).term)
                      ELSE job[w].terms)
      BY <2>4 DEF DecideAlias
    <3>2. job[w].terms \in SUBSET Terms
      BY <2>0 DEF Jobs
    <3> QED
      BY <2>0, <3>1, <3>2, OutcomeTyped, AliasAddedTyped, DecideTyped
  <2>5. CASE ExcludeItem(w) \/ SkipItem(w)
    <3>1. /\ Entry("excluded", NoId, FALSE) \in Entries
          /\ Entry("skipped_existing_surface", NoId, TRUE) \in Entries
      BY EntryTyped
    <3>2. job[w].terms \in SUBSET Terms
      BY <2>0 DEF Jobs
    <3> QED
      BY <2>5, <3>1, <3>2, DecideTyped DEF ExcludeItem, SkipItem
  <2>6. CASE GenerateTerm(w)
    <3>1. PICK c \in Candidates, n \in Suffixes :
             Decide(w, c, Entry("generated_term", TermId[c][n], TRUE),
                    job[w].terms \cup {NewTerm(c, TermId[c][n])})
      BY <2>6 DEF GenerateTerm
    <3>2. TermId[c][n] \in Ids
      BY PublishAssumption
    <3>3. Entry("generated_term", TermId[c][n], TRUE) \in Entries
      BY <3>2, EntryTyped
    <3>4. job[w].terms \cup {NewTerm(c, TermId[c][n])} \in SUBSET Terms
      BY <2>0, <3>2, NewTermTyped DEF Jobs
    <3> QED
      BY <3>1, <3>3, <3>4, DecideTyped
  <2>7. CASE WriteFile(w)
    <3>0. job[w].id \in SnapshotIds
      BY <2>7 DEF WriteFile, Stamped, HasId
    <3>1. [job[w] EXCEPT !.items = NoJob.items] \in Jobs
      BY <2>0 DEF Jobs
    <3>2. job[w].terms \in SUBSET Terms
      BY <2>0 DEF Jobs
    <3>3. files' \in SUBSET [id : SnapshotIds, terms : SUBSET Terms]
      BY <2>7, <3>0, <3>2 DEF WriteFile, TypeOK
    <3> QED
      BY <2>7, <3>1, <3>3 DEF WriteFile, TypeOK
  <2>8. CASE StoreRecord(w)
    <3>1. [id |-> job[w].id, created |-> job[w].created, since |-> job[w].since,
           ledger |-> job[w].ledger]
             \in [id : SnapshotIds, created : Nat, since : Nat, ledger : Ledgers]
      BY <2>0, <2>8 DEF StoreRecord, Stamped, HasId, Jobs
    <3>2. records' \in
             Seq([id : SnapshotIds, created : Nat, since : Nat, ledger : Ledgers])
      BY <2>8, <3>1 DEF StoreRecord, TypeOK
    <3> QED
      BY <2>8, <3>2 DEF StoreRecord, TypeOK
  <2>9. CASE RewriteLexicon(w)
    BY <2>0, <2>9 DEF RewriteLexicon, TypeOK, Jobs
  <2>10. CASE EditLexicon(w)
    <3>1. \A s \in Surfaces, target \in Ids :
             [NoJob EXCEPT !.base = lexicon,
                           !.terms = WithDeprecatedAlias(lexicon, s, target)] \in Jobs
      BY EditTyped DEF Jobs, TypeOK
    <3> QED
      BY <2>10, <3>1 DEF EditLexicon, TypeOK
  <2>11. CASE Crash(w)
    BY <2>11 DEF Crash, TypeOK
  <2> QED
    BY <1>4, <2>1, <2>2, <2>3, <2>4, <2>5, <2>6, <2>7, <2>8, <2>9, <2>10, <2>11
    DEF WorkerNext
<1> QED
  BY <1>1, <1>2, <1>3, <1>4 DEF Next

LEMMA InitTyped == Init => TypeOK /\ Stamped
<1> SUFFICES ASSUME Init PROVE TypeOK /\ Stamped
  OBVIOUS
<1>1. Unreviewed \in Items
  BY DEF Unreviewed, Items
<1> QED
  BY <1>1, NoJobTyped, InitialAssumption DEF Init, TypeOK, Stamped, HasId

\* Every reachable state of the publishers, the files and the table is well typed.
THEOREM TypeCorrect == Spec => [](TypeOK /\ Stamped)
<1>1. TypeOK /\ Stamped /\ [Next]_vars => (TypeOK /\ Stamped)'
  BY TypeStep, StampedStep
<1> QED
  BY <1>1, InitTyped, PTL DEF Spec

-----------------------------------------------------------------------------
(* What a step does to the worker that takes it, and to the others.        *)

LEMMA OthersRest ==
    ASSUME TypeOK, NEW w \in Workers, WorkerNext(w)
    PROVE  \A v \in Workers \ {w} : pc'[v] = pc[v] /\ job'[v] = job[v]
<1>1. CASE LoadBase(w) \/ Stamp(w)
  BY <1>1 DEF LoadBase, Stamp, TypeOK
<1>2. CASE ReadInbox(w)
  BY <1>2 DEF ReadInbox, TypeOK
<1>3. CASE DecideAlias(w) \/ ExcludeItem(w) \/ SkipItem(w) \/ GenerateTerm(w)
  <2>1. PICK c, entry, terms : Decide(w, c, entry, terms)
    BY <1>3 DEF DecideAlias, ExcludeItem, SkipItem, GenerateTerm
  <2> QED
    BY <2>1 DEF Decide, TypeOK
<1>4. CASE WriteFile(w) \/ StoreRecord(w) \/ RewriteLexicon(w) \/ EditLexicon(w)
           \/ Crash(w)
  BY <1>4 DEF WriteFile, StoreRecord, RewriteLexicon, EditLexicon, Crash, TypeOK
<1> QED
  BY <1>1, <1>2, <1>3, <1>4 DEF WorkerNext

LEMMA StampFacts ==
    ASSUME TypeOK, NEW w \in Workers, Stamp(w)
    PROVE  /\ pc[w] = "loaded" /\ pc'[w] = "stamped"
           /\ UNCHANGED <<clock, lexicon, files, records>>
           /\ job'[w].created = clock
           /\ job'[w].since = Len(records)
           /\ job'[w].base = job[w].base
           /\ job'[w].ledger = job[w].ledger
           /\ \A f \in files : f.id # job'[w].id
           /\ \A v \in Workers : job[v].id # job'[w].id
<1>1. PICK id \in SnapshotIds :
         /\ \A f \in files : f.id # id
         /\ \A v \in Workers : job[v].id # id
         /\ job' = [job EXCEPT ![w].id = id, ![w].created = clock,
                               ![w].since = Len(records)]
  BY DEF Stamp
<1>2. job[w] \in Jobs /\ job \in [Workers -> Jobs]
  BY DEF TypeOK
<1>3. job'[w] = [job[w] EXCEPT !.id = id, !.created = clock, !.since = Len(records)]
  BY <1>1, <1>2
<1>4. /\ job'[w].id = id /\ job'[w].created = clock
      /\ job'[w].since = Len(records)
      /\ job'[w].base = job[w].base /\ job'[w].ledger = job[w].ledger
  BY <1>2, <1>3 DEF Jobs
<1> QED
  BY <1>1, <1>4 DEF Stamp, TypeOK

LEMMA InboxFacts ==
    ASSUME TypeOK, NEW w \in Workers, ReadInbox(w)
    PROVE  /\ UNCHANGED <<lexicon, files, records>>
           /\ \/ pc'[w] = "idle"
              \/ /\ pc'[w] = "deciding"
                 /\ job'[w].base = job[w].base
                 /\ job'[w].id = job[w].id
                 /\ job'[w].created = job[w].created
                 /\ job'[w].since = job[w].since
                 /\ job'[w].ledger = job[w].ledger
                 /\ job'[w].todo = {c \in Listed : Reviewed(c)}
                 /\ job'[w].terms = Visible(job[w].base)
<1>1. CASE pc' = [pc EXCEPT ![w] = "idle"]
  BY <1>1 DEF ReadInbox, TypeOK
<1>2. CASE /\ pc' = [pc EXCEPT ![w] = "deciding"]
           /\ job' = [job EXCEPT ![w].items = decisions,
                                 ![w].todo = {c \in Listed : Reviewed(c)},
                                 ![w].terms = Visible(job[w].base)]
  <2> DEFINE found == {c \in Listed : Reviewed(c)}
  <2>1. UNCHANGED <<lexicon, files, records>> /\ pc'[w] = "deciding"
    BY <1>2 DEF ReadInbox, TypeOK
  <2>2. job[w] \in Jobs /\ job \in [Workers -> Jobs]
    BY DEF TypeOK
  <2> HIDE DEF found
  <2>3. job'[w] = [job[w] EXCEPT !.items = decisions, !.todo = found,
                                 !.terms = Visible(job[w].base)]
    BY <1>2, <2>2 DEF found
  <2> QED
    BY <2>1, <2>2, <2>3 DEF Jobs, found
<1> QED
  BY <1>1, <1>2 DEF ReadInbox

LEMMA DecideFacts ==
    ASSUME TypeOK, NEW w \in Workers, NEW c \in Candidates, NEW entry, NEW terms,
           Decide(w, c, entry, terms)
    PROVE  /\ pc[w] = "deciding" /\ pc'[w] = "deciding"
           /\ UNCHANGED <<lexicon, files, records>>
           /\ job'[w].base = job[w].base
           /\ job'[w].id = job[w].id
           /\ job'[w].created = job[w].created
           /\ job'[w].since = job[w].since
           /\ job'[w].ledger = [job[w].ledger EXCEPT ![c] = entry]
           /\ job'[w].terms = terms
  BY DEF Decide, TypeOK, Jobs

LEMMA FileFacts ==
    ASSUME TypeOK, NEW w \in Workers, WriteFile(w)
    PROVE  /\ pc[w] = "deciding" /\ pc'[w] = "filed"
           /\ UNCHANGED <<lexicon, records>>
           /\ files' = files \cup {[id |-> job[w].id, terms |-> job[w].terms]}
           /\ job'[w].base = job[w].base
           /\ job'[w].id = job[w].id
           /\ job'[w].created = job[w].created
           /\ job'[w].since = job[w].since
           /\ job'[w].ledger = job[w].ledger
           /\ job'[w].terms = job[w].terms
  BY DEF WriteFile, TypeOK, Jobs

\* The four ways to decide an item, seen from what they write.
DecisionOf(w, c) ==
    \/ \E target \in Ids :
          /\ c \notin Active(job[w])
          /\ target \in IdsOf(job[w].terms)
          /\ Decide(w, c, Entry("alias_added", target, TRUE),
                    AliasAdded(job[w].terms, c, target))
    \/ \E entry \in Entries :
          /\ entry.result \notin {"alias_added", "generated_term"}
          /\ entry.included => c \in Active(job[w]) \cup AlreadyDeprecated(job[w])
          /\ Decide(w, c, entry, job[w].terms)
    \/ \E id \in Ids \ IdsOf(job[w].terms) :
          /\ c \notin Active(job[w]) \cup AlreadyDeprecated(job[w])
          /\ Decide(w, c, Entry("generated_term", id, TRUE),
                    job[w].terms \cup {NewTerm(c, id)})

LEMMA DecisionCases ==
    ASSUME TypeOK, NEW w \in Workers,
           DecideAlias(w) \/ ExcludeItem(w) \/ SkipItem(w) \/ GenerateTerm(w)
    PROVE  \E c \in Candidates : DecisionOf(w, c)
<1> USE DEF DecisionOf
<1>1. CASE DecideAlias(w)
  <2>1. PICK c \in Candidates :
           Decide(w, c, AliasOutcome(job[w], c),
                  IF AliasOutcome(job[w], c).result = "alias_added"
                    THEN AliasAdded(job[w].terms, c, AliasOutcome(job[w], c).term)
                    ELSE job[w].terms)
    BY <1>1 DEF DecideAlias
  <2>2. job[w] \in Jobs
    BY DEF TypeOK
  <2>3. AliasOutcome(job[w], c) \in Entries
    BY <2>2, OutcomeTyped
  <2>4. CASE AliasOutcome(job[w], c).result = "alias_added"
    <3> DEFINE target == job[w].items[c].target
    <3>1. /\ AliasOutcome(job[w], c) = Entry("alias_added", target, TRUE)
          /\ c \notin Active(job[w])
          /\ target \in IdsOf(job[w].terms)
          /\ target # NoId
      BY <2>4 DEF AliasOutcome, Entry
    <3>2. target \in Ids
      BY <2>2, <3>1 DEF Jobs, Items
    <3>3. AliasOutcome(job[w], c).term = target
      BY <3>1 DEF Entry
    <3> HIDE DEF target
    <3> QED
      BY <2>1, <2>4, <3>1, <3>2, <3>3
  <2>5. CASE AliasOutcome(job[w], c).result # "alias_added"
    <3>1. /\ AliasOutcome(job[w], c).result # "generated_term"
          /\ AliasOutcome(job[w], c).included => c \in AlreadyDeprecated(job[w])
      BY <2>5 DEF AliasOutcome, Entry
    <3> QED
      BY <2>1, <2>3, <2>5, <3>1
  <2> QED
    BY <2>4, <2>5
<1>2. CASE ExcludeItem(w)
  <2>1. /\ Entry("excluded", NoId, FALSE) \in Entries
        /\ Entry("excluded", NoId, FALSE).result = "excluded"
        /\ ~Entry("excluded", NoId, FALSE).included
    BY EntryTyped DEF Entry
  <2> QED
    BY <1>2, <2>1 DEF ExcludeItem
<1>3. CASE SkipItem(w)
  <2>1. /\ Entry("skipped_existing_surface", NoId, TRUE) \in Entries
        /\ Entry("skipped_existing_surface", NoId, TRUE).result =
              "skipped_existing_surface"
    BY EntryTyped DEF Entry
  <2> QED
    BY <1>3, <2>1 DEF SkipItem, Known
<1>4. CASE GenerateTerm(w)
  <2>1. PICK c \in Candidates, n \in Suffixes :
           /\ ~Known(job[w], c)
           /\ IsUniqueTermId(job[w].terms, c, n)
           /\ Decide(w, c, Entry("generated_term", TermId[c][n], TRUE),
                     job[w].terms \cup {NewTerm(c, TermId[c][n])})
    BY <1>4 DEF GenerateTerm
  <2>2. TermId[c][n] \in Ids \ IdsOf(job[w].terms)
    BY <2>1, PublishAssumption DEF IsUniqueTermId
  <2> QED
    BY <2>1, <2>2 DEF Known
<1> QED
  BY <1>1, <1>2, <1>3, <1>4

-----------------------------------------------------------------------------
(* Records and files.                                                      *)

\* Adding an alias keeps every term, with at most that alias more.
LEMMA AliasAddedKeeps ==
    ASSUME NEW terms \in SUBSET Terms, NEW c \in Candidates, NEW target
    PROVE  \A t \in terms : \E u \in AliasAdded(terms, c, target) :
              /\ u.id = t.id
              /\ u.canonical = t.canonical
              /\ t.aliases \subseteq u.aliases
              /\ t.id = target => Deprecated(c) \in u.aliases
<1> SUFFICES ASSUME NEW t \in terms
             PROVE  \E u \in AliasAdded(terms, c, target) :
                       /\ u.id = t.id
                       /\ u.canonical = t.canonical
                       /\ t.aliases \subseteq u.aliases
                       /\ t.id = target => Deprecated(c) \in u.aliases
  OBVIOUS
<1>1. CASE t.id = target
  <2> DEFINE u == [t EXCEPT !.aliases = @ \cup {Deprecated(c)}]
  <2>1. u \in AliasAdded(terms, c, target)
    BY <1>1 DEF AliasAdded
  <2>2. /\ u.id = t.id /\ u.canonical = t.canonical
        /\ u.aliases = t.aliases \cup {Deprecated(c)}
    BY DEF Terms
  <2> QED
    BY <2>1, <2>2
<1>2. CASE t.id # target
  BY <1>2 DEF AliasAdded
<1> QED
  BY <1>1, <1>2

\* A ledger that is true of the terms stays true as one more entry is made.
LEMMA TellsOther ==
    ASSUME NEW ledger \in Ledgers, NEW terms, NEW c \in Candidates, NEW entry,
           entry.result \notin {"alias_added", "generated_term"},
           Tells(ledger, terms)
    PROVE  Tells([ledger EXCEPT ![c] = entry], terms)
  BY DEF Tells, Ledgers

LEMMA TellsAlias ==
    ASSUME NEW ledger \in Ledgers, NEW terms \in SUBSET Terms,
           NEW c \in Candidates, NEW target \in IdsOf(terms),
           Tells(ledger, terms)
    PROVE  Tells([ledger EXCEPT ![c] = Entry("alias_added", target, TRUE)],
                 AliasAdded(terms, c, target))
<1> DEFINE more == AliasAdded(terms, c, target)
           new == [ledger EXCEPT ![c] = Entry("alias_added", target, TRUE)]
<1>1. /\ new[c].result = "alias_added" /\ new[c].term = target
      /\ \A d \in Candidates \ {c} : new[d] = ledger[d]
  BY DEF Entry, Ledgers
<1>2. \E t \in more : t.id = target /\ Deprecated(c) \in t.aliases
  <2>1. PICK t \in terms : t.id = target
    BY DEF IdsOf
  <2> QED
    BY <2>1, AliasAddedKeeps
<1>3. \A t \in terms : \E u \in more :
         u.id = t.id /\ u.canonical = t.canonical /\ t.aliases \subseteq u.aliases
  BY AliasAddedKeeps
<1> HIDE DEF more, new
<1> QED
  <2>1. Tells(new, more)
    BY <1>1, <1>2, <1>3 DEF Tells
  <2> QED
    BY <2>1 DEF more, new

LEMMA TellsGenerated ==
    ASSUME NEW ledger \in Ledgers, NEW terms \in SUBSET Terms,
           NEW c \in Candidates, NEW id \in Ids \ IdsOf(terms),
           Tells(ledger, terms)
    PROVE  Tells([ledger EXCEPT ![c] = Entry("generated_term", id, TRUE)],
                 terms \cup {NewTerm(c, id)})
<1> DEFINE more == terms \cup {NewTerm(c, id)}
           new == [ledger EXCEPT ![c] = Entry("generated_term", id, TRUE)]
<1>1. /\ new[c].result = "generated_term" /\ new[c].term = id
      /\ \A d \in Candidates \ {c} : new[d] = ledger[d]
  BY DEF Entry, Ledgers
<1>2. \E t \in more : t.id = id /\ t.canonical = c
  <2>1. NewTerm(c, id).id = id /\ NewTerm(c, id).canonical = c
    BY DEF NewTerm
  <2> QED
    BY <2>1
<1>3. \A d \in Candidates \ {c} :
         new[d].result = "generated_term" => new[d].term # id
  BY <1>1 DEF Tells, IdsOf
<1>4. terms \subseteq more
  OBVIOUS
<1> HIDE DEF more, new
<1> QED
  <2>1. Tells(new, more)
    BY <1>1, <1>2, <1>3, <1>4 DEF Tells
  <2> QED
    BY <2>1 DEF more, new

\* RecordTellsTheFile alone is not inductive: a worker carries the ledger from
\* its decisions to its record, while its file is already written.
LedgerInv ==
    \A w \in Workers :
        /\ pc[w] \in {"loaded", "stamped"} => job[w].ledger = NoJob.ledger
        /\ pc[w] \in {"deciding", "filed"} => Tells(job[w].ledger, job[w].terms)
        /\ pc[w] = "filed" => [id |-> job[w].id, terms |-> job[w].terms] \in files

LEMMA LedgerStep ==
    ASSUME TypeOK, LedgerInv, [Next]_vars
    PROVE  LedgerInv' /\ files \subseteq files'
<1> USE DEF LedgerInv
<1>1. CASE UNCHANGED vars
  BY <1>1 DEF vars
<1>2. CASE Tick \/ Review
  BY <1>2 DEF Tick, Review
<1>3. ASSUME NEW w \in Workers, WorkerNext(w)
      PROVE  LedgerInv' /\ files \subseteq files'
  <2>0. job[w] \in Jobs /\ job[w].ledger \in Ledgers /\ job[w].terms \in SUBSET Terms
    BY DEF TypeOK, Jobs
  <2>1. \A v \in Workers \ {w} : pc'[v] = pc[v] /\ job'[v] = job[v]
    BY <1>3, OthersRest
  <2>2. SUFFICES
           /\ files \subseteq files'
           /\ pc'[w] \in {"loaded", "stamped"} => job'[w].ledger = NoJob.ledger
           /\ pc'[w] \in {"deciding", "filed"} => Tells(job'[w].ledger, job'[w].terms)
           /\ pc'[w] = "filed" =>
                 [id |-> job'[w].id, terms |-> job'[w].terms] \in files'
    BY <2>1
  <2>3. CASE LoadBase(w)
    BY <2>3 DEF LoadBase, TypeOK, NoJob
  <2>4. CASE Stamp(w)
    BY <2>4, StampFacts
  <2>5. CASE ReadInbox(w)
    <3>1. pc[w] = "stamped"
      BY <2>5 DEF ReadInbox
    <3>2. \A terms : Tells(NoJob.ledger, terms)
      BY DEF NoJob, Tells, NoEntry, Entry
    <3> QED
      BY <2>5, <3>1, <3>2, InboxFacts
  <2>6. CASE DecideAlias(w) \/ ExcludeItem(w) \/ SkipItem(w) \/ GenerateTerm(w)
    <3>1. pc[w] = "deciding"
      BY <2>6 DEF DecideAlias, ExcludeItem, SkipItem, GenerateTerm, Decide
    <3>2. PICK c \in Candidates :
             \/ \E target \in IdsOf(job[w].terms) :
                   Decide(w, c, Entry("alias_added", target, TRUE),
                          AliasAdded(job[w].terms, c, target))
             \/ \E entry \in Entries :
                   /\ entry.result \notin {"alias_added", "generated_term"}
                   /\ Decide(w, c, entry, job[w].terms)
             \/ \E id \in Ids \ IdsOf(job[w].terms) :
                   Decide(w, c, Entry("generated_term", id, TRUE),
                          job[w].terms \cup {NewTerm(c, id)})
      <4>1. PICK c \in Candidates : DecisionOf(w, c)
        BY <2>6, DecisionCases
      <4> QED
        BY <4>1 DEF DecisionOf
    <3>3. Tells(job[w].ledger, job[w].terms)
      BY <3>1
    <3>4. PICK entry, terms :
             /\ Decide(w, c, entry, terms)
             /\ Tells([job[w].ledger EXCEPT ![c] = entry], terms)
      <4>1. CASE \E target \in IdsOf(job[w].terms) :
                    Decide(w, c, Entry("alias_added", target, TRUE),
                           AliasAdded(job[w].terms, c, target))
        <5>1. PICK target \in IdsOf(job[w].terms) :
                 Decide(w, c, Entry("alias_added", target, TRUE),
                        AliasAdded(job[w].terms, c, target))
          BY <4>1
        <5>2. Tells([job[w].ledger EXCEPT ![c] = Entry("alias_added", target, TRUE)],
                    AliasAdded(job[w].terms, c, target))
          BY <2>0, <3>3, TellsAlias
        <5> QED
          BY <5>1, <5>2
      <4>2. CASE \E entry \in Entries :
                    /\ entry.result \notin {"alias_added", "generated_term"}
                    /\ Decide(w, c, entry, job[w].terms)
        BY <2>0, <3>3, <4>2, TellsOther
      <4>3. CASE \E id \in Ids \ IdsOf(job[w].terms) :
                    Decide(w, c, Entry("generated_term", id, TRUE),
                           job[w].terms \cup {NewTerm(c, id)})
        <5>1. PICK id \in Ids \ IdsOf(job[w].terms) :
                 Decide(w, c, Entry("generated_term", id, TRUE),
                        job[w].terms \cup {NewTerm(c, id)})
          BY <4>3
        <5>2. Tells([job[w].ledger EXCEPT ![c] = Entry("generated_term", id, TRUE)],
                    job[w].terms \cup {NewTerm(c, id)})
          BY <2>0, <3>3, TellsGenerated
        <5> QED
          BY <5>1, <5>2
      <4> QED
        BY <3>2, <4>1, <4>2, <4>3
    <3> QED
      BY <3>1, <3>4, DecideFacts
  <2>7. CASE WriteFile(w)
    BY <2>7, FileFacts
  <2>8. CASE StoreRecord(w) \/ RewriteLexicon(w) \/ EditLexicon(w) \/ Crash(w)
    BY <2>8 DEF StoreRecord, RewriteLexicon, EditLexicon, Crash, TypeOK
  <2> QED
    BY <1>3, <2>3, <2>4, <2>5, <2>6, <2>7, <2>8 DEF WorkerNext
<1> QED
  BY <1>1, <1>2, <1>3 DEF Next

LEMMA RecordStep ==
    ASSUME TypeOK, LedgerInv, RecordTellsTheFile, [Next]_vars
    PROVE  RecordTellsTheFile'
<1>1. files \subseteq files'
  BY LedgerStep
<1>2. CASE UNCHANGED records
  BY <1>1, <1>2 DEF RecordTellsTheFile
<1>3. ASSUME NEW w \in Workers, StoreRecord(w)
      PROVE  RecordTellsTheFile'
  <2> DEFINE new == [id |-> job[w].id, created |-> job[w].created,
                     since |-> job[w].since, ledger |-> job[w].ledger]
             n == Len(records)
  <2>1. [id |-> job[w].id, terms |-> job[w].terms] \in files
        /\ Tells(job[w].ledger, job[w].terms)
    BY <1>3 DEF StoreRecord, LedgerInv
  <2>2. /\ records' = Append(records, new)
        /\ n \in Nat /\ DOMAIN records = 1..n
    BY <1>3 DEF StoreRecord, TypeOK
  <2>3. /\ DOMAIN records' = 1..(n + 1)
        /\ records'[n + 1] = new
        /\ \A i \in 1..n : records'[i] = records[i]
    BY <2>2 DEF TypeOK
  <2>4. \A i \in 1..(n + 1) : i \in 1..n \/ i = n + 1
    BY <2>2
  <2> HIDE DEF n
  <2> QED
    BY <1>1, <2>1, <2>2, <2>3, <2>4 DEF RecordTellsTheFile
<1>4. ASSUME NEW w \in Workers, WorkerNext(w), ~StoreRecord(w)
      PROVE  UNCHANGED records
  <2>1. CASE LoadBase(w) \/ Stamp(w) \/ ReadInbox(w)
    BY <2>1 DEF LoadBase, Stamp, ReadInbox
  <2>2. CASE DecideAlias(w) \/ ExcludeItem(w) \/ SkipItem(w) \/ GenerateTerm(w)
    BY <2>2 DEF DecideAlias, ExcludeItem, SkipItem, GenerateTerm, Decide
  <2>3. CASE WriteFile(w) \/ RewriteLexicon(w) \/ EditLexicon(w) \/ Crash(w)
    BY <2>3 DEF WriteFile, RewriteLexicon, EditLexicon, Crash
  <2> QED
    BY <1>4, <2>1, <2>2, <2>3 DEF WorkerNext
<1>5. CASE UNCHANGED vars \/ Tick \/ Review
  BY <1>2, <1>5 DEF vars, Tick, Review
<1> QED
  BY <1>2, <1>3, <1>4, <1>5 DEF Next

\* RecordTellsTheFile, whatever crashes and however many publish at once: a
\* listed snapshot has its file, with the provenance its record claims.
THEOREM RecordsTell == Spec => []RecordTellsTheFile
<1>1. Init => LedgerInv /\ RecordTellsTheFile
  BY DEF Init, LedgerInv, RecordTellsTheFile
<1>2. TypeOK /\ LedgerInv /\ RecordTellsTheFile /\ [Next]_vars
         => (LedgerInv /\ RecordTellsTheFile)'
  BY LedgerStep, RecordStep
<1> QED
  BY <1>1, <1>2, TypeCorrect, PTL DEF Spec

-----------------------------------------------------------------------------
(* What every lexicon that is written has in common.                       *)

\* A set of lexicons that publishing and editing do not leave.
Closed(H) ==
    /\ H \subseteq SUBSET Terms
    /\ Initial \subseteq H
    /\ \A lex \in H : Visible(lex) \in H
    /\ \A lex \in H, c \in Candidates, target \in Ids :
          target \in IdsOf(lex) /\ c \notin KnownSurfaces(lex) =>
             AliasAdded(lex, c, target) \in H
    /\ \A lex \in H, c \in Candidates, id \in Ids :
          id \notin IdsOf(lex) /\ c \notin KnownSurfaces(lex) \cup KnownDeprecated(lex) =>
             lex \cup {NewTerm(c, id)} \in H
    /\ \A lex \in H, s \in Surfaces, target \in Ids :
          MayDeprecate(lex, s, target) => WithDeprecatedAlias(lex, s, target) \in H

AllIn(H) ==
    /\ lexicon \in H
    /\ \A f \in files : f.terms \in H
    /\ \A w \in Workers :
          /\ pc[w] \in {"loaded", "stamped"} => job[w].base \in H
          /\ pc[w] \in {"deciding", "filed", "rewriting"} => job[w].terms \in H

LEMMA AllInStep ==
    ASSUME NEW H, Closed(H), TypeOK, AllIn(H), [Next]_vars
    PROVE  AllIn(H)'
<1> USE DEF AllIn
<1>1. CASE UNCHANGED vars
  BY <1>1 DEF vars
<1>2. CASE Tick \/ Review
  BY <1>2 DEF Tick, Review
<1>3. ASSUME NEW w \in Workers, WorkerNext(w)
      PROVE  AllIn(H)'
  <2>0. job[w] \in Jobs
    BY DEF TypeOK
  <2>1. \A v \in Workers \ {w} : pc'[v] = pc[v] /\ job'[v] = job[v]
    BY <1>3, OthersRest
  <2>2. SUFFICES
           /\ lexicon' \in H
           /\ \A f \in files' : f.terms \in H
           /\ pc'[w] \in {"loaded", "stamped"} => job'[w].base \in H
           /\ pc'[w] \in {"deciding", "filed", "rewriting"} => job'[w].terms \in H
    BY <2>1
  <2>3. CASE LoadBase(w)
    BY <2>3 DEF LoadBase, TypeOK, NoJob
  <2>4. CASE Stamp(w)
    BY <2>4, StampFacts
  <2>5. CASE ReadInbox(w)
    <3>1. pc[w] = "stamped"
      BY <2>5 DEF ReadInbox
    <3> QED
      BY <2>5, <3>1, InboxFacts DEF Closed
  <2>6. CASE DecideAlias(w) \/ ExcludeItem(w) \/ SkipItem(w) \/ GenerateTerm(w)
    <3>1. job[w].terms \in H
      BY <2>6 DEF DecideAlias, ExcludeItem, SkipItem, GenerateTerm, Decide
    <3>2. /\ KnownSurfaces(job[w].terms) \subseteq Active(job[w])
          /\ KnownDeprecated(job[w].terms) \subseteq AlreadyDeprecated(job[w])
      BY DEF KnownSurfaces, KnownDeprecated, Active, AlreadyDeprecated
    <3>3. PICK c \in Candidates : DecisionOf(w, c)
      BY <2>6, DecisionCases
    <3>4. \E entry : \E terms \in H : Decide(w, c, entry, terms)
      <4>1. CASE \E target \in Ids :
                    /\ c \notin Active(job[w])
                    /\ target \in IdsOf(job[w].terms)
                    /\ Decide(w, c, Entry("alias_added", target, TRUE),
                              AliasAdded(job[w].terms, c, target))
        <5>1. PICK target \in Ids :
                 /\ c \notin Active(job[w])
                 /\ target \in IdsOf(job[w].terms)
                 /\ Decide(w, c, Entry("alias_added", target, TRUE),
                           AliasAdded(job[w].terms, c, target))
          BY <4>1
        <5>2. AliasAdded(job[w].terms, c, target) \in H
          BY <3>1, <3>2, <5>1 DEF Closed
        <5> QED
          BY <5>1, <5>2
      <4>2. CASE \E entry \in Entries : Decide(w, c, entry, job[w].terms)
        BY <3>1, <4>2
      <4>3. CASE \E id \in Ids \ IdsOf(job[w].terms) :
                    /\ c \notin Active(job[w]) \cup AlreadyDeprecated(job[w])
                    /\ Decide(w, c, Entry("generated_term", id, TRUE),
                              job[w].terms \cup {NewTerm(c, id)})
        <5>1. PICK id \in Ids \ IdsOf(job[w].terms) :
                 /\ c \notin Active(job[w]) \cup AlreadyDeprecated(job[w])
                 /\ Decide(w, c, Entry("generated_term", id, TRUE),
                           job[w].terms \cup {NewTerm(c, id)})
          BY <4>3
        <5>2. job[w].terms \cup {NewTerm(c, id)} \in H
          BY <3>1, <3>2, <5>1 DEF Closed
        <5> QED
          BY <5>1, <5>2
      <4> QED
        BY <3>3, <4>1, <4>2, <4>3 DEF DecisionOf
    <3>5. PICK entry, terms : terms \in H /\ Decide(w, c, entry, terms)
      BY <3>4
    <3>6. /\ UNCHANGED <<lexicon, files>>
          /\ pc'[w] = "deciding" /\ job'[w].terms = terms
      BY <3>5 DEF Decide, TypeOK, Jobs
    <3> QED
      BY <3>5, <3>6
  <2>7. CASE WriteFile(w)
    BY <2>7, FileFacts
  <2>8. CASE EditLexicon(w)
    BY <2>8 DEF EditLexicon, TypeOK, Closed, NoJob
  <2>9. CASE StoreRecord(w) \/ RewriteLexicon(w) \/ Crash(w)
    BY <2>9 DEF StoreRecord, RewriteLexicon, Crash, TypeOK
  <2> QED
    BY <1>3, <2>3, <2>4, <2>5, <2>6, <2>7, <2>8, <2>9 DEF WorkerNext
<1> QED
  BY <1>1, <1>2, <1>3 DEF Next

LEMMA AllInFirst ==
    ASSUME NEW H, Closed(H), Init
    PROVE  AllIn(H)
  BY DEF Init, AllIn, Closed

\* One surface, one status.
LEMMA OneStatusClosed ==
    ASSUME \A lex \in Initial : OneStatus(lex)
    PROVE  Closed({lex \in SUBSET Terms : OneStatus(lex)})
<1> DEFINE H == {lex \in SUBSET Terms : OneStatus(lex)}
<1>1. Initial \subseteq H
  BY InitialAssumption
<1>2. \A lex \in H : Visible(lex) \in H
  BY DEF Visible, OneStatus
<1>3. ASSUME NEW lex \in H, NEW c \in Candidates, NEW target \in Ids,
             c \notin KnownSurfaces(lex)
      PROVE  AliasAdded(lex, c, target) \in H
  <2>1. \A u \in AliasAdded(lex, c, target) : \E t \in lex :
           /\ u.canonical = t.canonical /\ u.deprecated = t.deprecated
           /\ u.aliases \subseteq t.aliases \cup {Deprecated(c)}
    BY DEF AliasAdded, Terms
  <2>2. \A t \in lex : ~t.deprecated => t.canonical # c
    BY <1>3 DEF KnownSurfaces
  <2> QED
    BY <2>1, <2>2, AliasAddedTyped DEF OneStatus, Deprecated
<1>4. ASSUME NEW lex \in H, NEW c \in Candidates, NEW id \in Ids,
             c \notin KnownDeprecated(lex)
      PROVE  lex \cup {NewTerm(c, id)} \in H
  <2>1. \A t \in lex : \A a \in t.aliases : a.deprecated => a.surface # c
    BY <1>4 DEF KnownDeprecated
  <2>2. /\ NewTerm(c, id) \in Terms
        /\ NewTerm(c, id).canonical = c /\ NewTerm(c, id).aliases = {}
    BY NewTermTyped DEF NewTerm
  <2> QED
    BY <2>1, <2>2 DEF OneStatus
<1>5. ASSUME NEW lex \in H, NEW s \in Surfaces, NEW target \in Ids,
             MayDeprecate(lex, s, target)
      PROVE  WithDeprecatedAlias(lex, s, target) \in H
  <2>1. \A u \in WithDeprecatedAlias(lex, s, target) : \E t \in lex :
           /\ u.canonical = t.canonical /\ u.deprecated = t.deprecated
           /\ u.aliases \subseteq t.aliases \cup {Deprecated(s)}
    BY DEF WithDeprecatedAlias, Terms
  <2>2. \A t \in lex : t.canonical # s
    BY <1>5 DEF MayDeprecate
  <2> QED
    BY <2>1, <2>2, EditTyped DEF OneStatus, Deprecated
<1> QED
  BY <1>1, <1>2, <1>3, <1>4, <1>5 DEF Closed

\* NoSurfaceBothWays for any number of workers, if it holds of the lexicon to
\* start from: no interleaving of publishes, edits and reviews offers a surface
\* and deprecates it.
THEOREM SurfacesHaveOneStatus ==
    ASSUME \A lex \in Initial : OneStatus(lex)
    PROVE  Spec => []NoSurfaceBothWays
<1> DEFINE H == {lex \in SUBSET Terms : OneStatus(lex)}
<1>1. Closed(H)
  BY OneStatusClosed
<1> HIDE DEF H
<1>2. Init => AllIn(H)
  BY <1>1, AllInFirst
<1>3. TypeOK /\ AllIn(H) /\ [Next]_vars => AllIn(H)'
  BY <1>1, AllInStep
<1>4. AllIn(H) => NoSurfaceBothWays
  BY DEF AllIn, NoSurfaceBothWays, H
<1> QED
  BY <1>2, <1>3, <1>4, TypeCorrect, PTL DEF Spec

-----------------------------------------------------------------------------
(* Lexicons load.                                                          *)

\* An edit that the loader's rules cannot tell from t, or likes better.
Alike(t, u) ==
    /\ u.id = t.id
    /\ u.deprecated = t.deprecated
    /\ u.starter = t.starter
    /\ u.replacement = t.replacement
    /\ Claims(u) \subseteq Claims(t)

Edited(lex, new) ==
    /\ \A u \in new : \E t \in lex : Alike(t, u)
    /\ \A t \in lex : \E u \in new : Alike(t, u)
    /\ UniqueIds(new)

LEMMA EditedLoads ==
    ASSUME NEW lex, NEW new, Edited(lex, new), Loads(lex)
    PROVE  Loads(new)
<1>1. NoCollisions(new)
  <2> SUFFICES ASSUME NEW t \in new, NEW u \in new, Claims(t) \cap Claims(u) # {}
               PROVE  t.id = u.id
    BY DEF NoCollisions
  <2>1. PICK a \in lex, b \in lex : Alike(a, t) /\ Alike(b, u)
    BY DEF Edited
  <2>2. Claims(a) \cap Claims(b) # {}
    BY <2>1 DEF Alike
  <2> QED
    BY <2>1, <2>2 DEF Alike, Loads, NoCollisions
<1>2. ReplacementsValid(new)
  <2> SUFFICES ASSUME NEW t \in new, t.replacement # NoId
               PROVE  /\ t.deprecated
                      /\ \E u \in new : u.id = t.replacement /\ ~u.deprecated
    BY DEF ReplacementsValid
  <2>1. PICK a \in lex : Alike(a, t)
    BY DEF Edited
  <2>2. PICK b \in lex : b.id = a.replacement /\ ~b.deprecated
    BY <2>1 DEF Alike, Loads, ReplacementsValid
  <2>3. PICK u \in new : Alike(b, u)
    BY DEF Edited
  <2> QED
    BY <2>1, <2>2, <2>3 DEF Alike, Loads, ReplacementsValid
<1> QED
  BY <1>1, <1>2 DEF Edited, Loads

LEMMA EditedVisible ==
    ASSUME NEW lex, NEW new, Edited(lex, new)
    PROVE  Edited(Visible(lex), Visible(new))
<1>1. \A u \in Visible(new) : \E t \in Visible(lex) : Alike(t, u)
  BY DEF Edited, Visible, Alike
<1>2. \A t \in Visible(lex) : \E u \in Visible(new) : Alike(t, u)
  BY DEF Edited, Visible, Alike
<1> QED
  BY <1>1, <1>2 DEF Edited, Visible, UniqueIds

LEMMA AliasAddedEdited ==
    ASSUME NEW lex \in SUBSET Terms, UniqueIds(lex), NEW c \in Candidates,
           NEW target
    PROVE  Edited(lex, AliasAdded(lex, c, target))
<1> DEFINE e(t) == IF t.id = target
                     THEN [t EXCEPT !.aliases = @ \cup {Deprecated(c)}] ELSE t
<1>1. ASSUME NEW t \in lex
      PROVE  Alike(t, e(t))
  <2>1. t \in Terms
    OBVIOUS
  <2>2. \A u : u = [t EXCEPT !.aliases = @ \cup {Deprecated(c)}] => Alike(t, u)
    BY <2>1 DEF Alike, Claims, Terms, Deprecated
  <2>3. Alike(t, t)
    BY DEF Alike
  <2> QED
    BY <2>2, <2>3
<1>2. AliasAdded(lex, c, target) = {e(t) : t \in lex}
  BY DEF AliasAdded
<1>3. \A t, u \in lex : e(t).id = e(u).id => e(t) = e(u)
  BY <1>1 DEF Alike, UniqueIds
<1> HIDE DEF e
<1> QED
  BY <1>1, <1>2, <1>3 DEF Edited, UniqueIds

LEMMA DeprecatingEdited ==
    ASSUME NEW lex \in SUBSET Terms, UniqueIds(lex), NEW s \in Surfaces, NEW target
    PROVE  Edited(lex, WithDeprecatedAlias(lex, s, target))
<1> DEFINE e(t) == IF t.id = target
                     THEN [t EXCEPT !.aliases =
                              {a \in @ : a.surface # s} \cup {Deprecated(s)}]
                     ELSE t
<1>1. ASSUME NEW t \in lex
      PROVE  Alike(t, e(t))
  <2>1. t \in Terms
    OBVIOUS
  <2>2. \A u : u = [t EXCEPT !.aliases =
                      {a \in @ : a.surface # s} \cup {Deprecated(s)}] => Alike(t, u)
    BY <2>1 DEF Alike, Claims, Terms, Deprecated
  <2>3. Alike(t, t)
    BY DEF Alike
  <2> QED
    BY <2>2, <2>3
<1>2. WithDeprecatedAlias(lex, s, target) = {e(t) : t \in lex}
  BY DEF WithDeprecatedAlias
<1>3. \A t, u \in lex : e(t).id = e(u).id => e(t) = e(u)
  BY <1>1 DEF Alike, UniqueIds
<1> HIDE DEF e
<1> QED
  BY <1>1, <1>2, <1>3 DEF Edited, UniqueIds

LEMMA GrownLoads ==
    ASSUME NEW lex \in SUBSET Terms, Loads(lex),
           NEW c \in Candidates, NEW id \in Ids,
           id \notin IdsOf(lex), c \notin KnownSurfaces(lex)
    PROVE  Loads(lex \cup {NewTerm(c, id)})
<1> DEFINE new == NewTerm(c, id)
<1>1. new.id = id /\ new.replacement = NoId /\ Claims(new) = {c}
  BY DEF NewTerm, Claims
<1>2. \A t \in lex : t.id # id /\ c \notin Claims(t)
  BY DEF IdsOf, KnownSurfaces, Claims
<1> HIDE DEF new
<1>3. UniqueIds(lex \cup {new})
  BY <1>1, <1>2 DEF UniqueIds, Loads
<1>4. ReplacementsValid(lex \cup {new})
  BY <1>1 DEF ReplacementsValid, Loads
<1>5. NoCollisions(lex \cup {new})
  BY <1>1, <1>2 DEF NoCollisions, Loads
<1> QED
  BY <1>3, <1>4, <1>5 DEF Loads, new

\* A lexicon that loads, and still does when publish has dropped its starters:
\* no deprecated term of its own is replaced by a starter.
LoadsWithoutStarters(lex) == Loads(lex) /\ Loads(Visible(lex))

LEMMA LoadingClosed ==
    ASSUME \A lex \in Initial : LoadsWithoutStarters(lex)
    PROVE  Closed({lex \in SUBSET Terms : LoadsWithoutStarters(lex)})
<1> DEFINE H == {lex \in SUBSET Terms : LoadsWithoutStarters(lex)}
<1>1. Initial \subseteq H
  BY InitialAssumption
<1>2. ASSUME NEW lex \in H
      PROVE  Visible(lex) \in H
  <2>1. Visible(Visible(lex)) = Visible(lex) /\ Visible(lex) \subseteq lex
    BY DEF Visible
  <2> QED
    BY <2>1 DEF LoadsWithoutStarters
<1>3. ASSUME NEW lex \in SUBSET Terms, LoadsWithoutStarters(lex),
             NEW new \in SUBSET Terms, Edited(lex, new)
      PROVE  new \in H
  BY <1>3, EditedLoads, EditedVisible DEF LoadsWithoutStarters
<1>4. ASSUME NEW lex \in H, NEW c \in Candidates, NEW target \in Ids
      PROVE  AliasAdded(lex, c, target) \in H
  <2>1. UniqueIds(lex)
    BY DEF LoadsWithoutStarters, Loads
  <2> QED
    BY <1>3, <2>1, AliasAddedEdited, AliasAddedTyped
<1>5. ASSUME NEW lex \in H, NEW s \in Surfaces, NEW target \in Ids
      PROVE  WithDeprecatedAlias(lex, s, target) \in H
  <2>1. UniqueIds(lex)
    BY DEF LoadsWithoutStarters, Loads
  <2> QED
    BY <1>3, <2>1, DeprecatingEdited, EditTyped
<1>6. ASSUME NEW lex \in H, NEW c \in Candidates, NEW id \in Ids,
             id \notin IdsOf(lex), c \notin KnownSurfaces(lex)
      PROVE  lex \cup {NewTerm(c, id)} \in H
  <2>1. /\ id \notin IdsOf(Visible(lex)) /\ c \notin KnownSurfaces(Visible(lex))
        /\ Visible(lex) \in SUBSET Terms
    BY <1>6 DEF IdsOf, KnownSurfaces, Visible
  <2>2. Visible(lex \cup {NewTerm(c, id)}) = Visible(lex) \cup {NewTerm(c, id)}
    BY DEF Visible, NewTerm
  <2>3. Loads(lex \cup {NewTerm(c, id)})
    BY <1>6, GrownLoads DEF LoadsWithoutStarters
  <2>4. Loads(Visible(lex) \cup {NewTerm(c, id)})
    BY <2>1, GrownLoads DEF LoadsWithoutStarters
  <2> QED
    BY <2>2, <2>3, <2>4, NewTermTyped DEF LoadsWithoutStarters
<1> QED
  BY <1>1, <1>2, <1>4, <1>5, <1>6 DEF Closed

\* SnapshotLoads for any number of workers, if the lexicon to start from loads
\* with and without its starter terms: what publish and edit write, the loader
\* accepts, whatever ids and surfaces meet.
THEOREM WrittenLexiconsLoad ==
    ASSUME \A lex \in Initial : LoadsWithoutStarters(lex)
    PROVE  Spec => []SnapshotLoads
<1> DEFINE H == {lex \in SUBSET Terms : LoadsWithoutStarters(lex)}
<1>1. Closed(H)
  BY LoadingClosed
<1> HIDE DEF H
<1>2. Init => AllIn(H)
  BY <1>1, AllInFirst
<1>3. TypeOK /\ AllIn(H) /\ [Next]_vars => AllIn(H)'
  BY <1>1, AllInStep
<1>4. AllIn(H) => SnapshotLoads
  BY DEF AllIn, SnapshotLoads, LoadsWithoutStarters, H
<1> QED
  BY <1>2, <1>3, <1>4, TypeCorrect, PTL DEF Spec

-----------------------------------------------------------------------------
(* Snapshot ids, and what the ledger says is in the lexicon.               *)

\* An id is stamped on one publish at a time and written to one file.
IdsInv ==
    /\ \A f, g \in files : f.id = g.id => f = g
    /\ \A v, w \in Workers : job[v].id = job[w].id => v = w \/ job[v].id = NoSnapshot
    /\ \A w \in Workers : pc[w] \in {"stamped", "deciding"} =>
          \A f \in files : f.id # job[w].id

\* What a step does to the ids: it keeps them or forgets its own, stamps a free
\* one, or writes the file of its own.
LEMMA IdsMove ==
    ASSUME TypeOK, NEW w \in Workers, WorkerNext(w)
    PROVE  \/ /\ UNCHANGED files
              /\ job'[w].id \in {job[w].id, NoSnapshot}
              /\ pc'[w] \in {"stamped", "deciding"} =>
                    /\ job'[w].id = job[w].id
                    /\ pc[w] \in {"stamped", "deciding"}
           \/ /\ UNCHANGED files
              /\ \A f \in files : f.id # job'[w].id
              /\ \A v \in Workers : job[v].id # job'[w].id
           \/ /\ files' = files \cup {[id |-> job[w].id, terms |-> job[w].terms]}
              /\ pc[w] = "deciding" /\ pc'[w] = "filed"
              /\ job'[w].id = job[w].id
<1>1. CASE LoadBase(w) \/ RewriteLexicon(w) \/ EditLexicon(w) \/ Crash(w)
  <2>1. job'[w].id \in {job[w].id, NoSnapshot}
    <3>1. CASE LoadBase(w) \/ RewriteLexicon(w) \/ Crash(w)
      BY <3>1 DEF LoadBase, RewriteLexicon, Crash, TypeOK, NoJob
    <3>2. CASE EditLexicon(w)
      <4>1. PICK edited : job' = [job EXCEPT ![w] =
                                    [NoJob EXCEPT !.base = lexicon, !.terms = edited]]
        BY <3>2 DEF EditLexicon
      <4> QED
        BY <4>1 DEF TypeOK, NoJob
    <3> QED
      BY <1>1, <3>1, <3>2
  <2> QED
    BY <1>1, <2>1 DEF LoadBase, RewriteLexicon, EditLexicon, Crash, TypeOK
<1>2. CASE Stamp(w)
  BY <1>2, StampFacts DEF Stamp
<1>3. CASE ReadInbox(w)
  <2>1. CASE pc' = [pc EXCEPT ![w] = "idle"] /\ job' = [job EXCEPT ![w] = NoJob]
    BY <1>3, <2>1 DEF ReadInbox, TypeOK, NoJob
  <2>2. CASE pc' = [pc EXCEPT ![w] = "deciding"]
    BY <1>3, <2>2, InboxFacts DEF ReadInbox, TypeOK
  <2> QED
    BY <1>3, <2>1, <2>2 DEF ReadInbox
<1>4. CASE DecideAlias(w) \/ ExcludeItem(w) \/ SkipItem(w) \/ GenerateTerm(w)
  <2>1. PICK c \in Candidates : \E entry, terms : Decide(w, c, entry, terms)
    BY <1>4 DEF DecideAlias, ExcludeItem, SkipItem, GenerateTerm
  <2> QED
    BY <2>1, DecideFacts
<1>5. CASE WriteFile(w)
  BY <1>5, FileFacts
<1>6. CASE StoreRecord(w)
  BY <1>6 DEF StoreRecord, TypeOK, NoJob
<1> QED
  BY <1>1, <1>2, <1>3, <1>4, <1>5, <1>6 DEF WorkerNext

LEMMA IdsStep ==
    ASSUME TypeOK, Stamped, IdsInv, [Next]_vars
    PROVE  IdsInv'
<1>1. CASE UNCHANGED vars
  BY <1>1 DEF vars, IdsInv
<1>2. CASE Tick \/ Review
  BY <1>2 DEF Tick, Review, IdsInv
<1>3. ASSUME NEW w \in Workers, WorkerNext(w)
      PROVE  IdsInv'
  <2>1. \A v \in Workers \ {w} : pc'[v] = pc[v] /\ job'[v] = job[v]
    BY <1>3, OthersRest
  <2>2. CASE /\ UNCHANGED files
             /\ job'[w].id \in {job[w].id, NoSnapshot}
             /\ pc'[w] \in {"stamped", "deciding"} =>
                   /\ job'[w].id = job[w].id
                   /\ pc[w] \in {"stamped", "deciding"}
    BY <2>1, <2>2 DEF IdsInv
  <2>3. CASE /\ UNCHANGED files
             /\ \A f \in files : f.id # job'[w].id
             /\ \A v \in Workers : job[v].id # job'[w].id
    BY <2>1, <2>3 DEF IdsInv
  <2>4. CASE /\ files' = files \cup {[id |-> job[w].id, terms |-> job[w].terms]}
             /\ pc[w] = "deciding" /\ pc'[w] = "filed"
             /\ job'[w].id = job[w].id
    <3>1. job[w].id # NoSnapshot
      BY <2>4, PublishAssumption DEF Stamped, HasId
    <3>2. \A v \in Workers \ {w} : job[v].id # job[w].id
      BY <3>1 DEF IdsInv
    <3>3. \A f, g \in files' : f.id = g.id => f = g
      BY <2>4 DEF IdsInv
    <3> QED
      BY <2>1, <2>4, <3>2, <3>3 DEF IdsInv
  <2> QED
    BY <1>3, <2>2, <2>3, <2>4, IdsMove
<1> QED
  BY <1>1, <1>2, <1>3 DEF Next

\* Deciding an item keeps the surfaces of every term.
LEMMA DecisionKeeps ==
    ASSUME TypeOK, NEW w \in Workers, NEW c \in Candidates, DecisionOf(w, c)
    PROVE  \A t \in job[w].terms : \E u \in job'[w].terms :
              /\ u.id = t.id
              /\ u.canonical = t.canonical
              /\ t.aliases \subseteq u.aliases
<1>1. job[w].terms \in SUBSET Terms
  BY DEF TypeOK, Jobs
<1>2. \A entry, terms : Decide(w, c, entry, terms) => job'[w].terms = terms
  BY DEF Decide, TypeOK, Jobs
<1>3. CASE \E target \in Ids : job'[w].terms = AliasAdded(job[w].terms, c, target)
  BY <1>1, <1>3, AliasAddedKeeps
<1>4. CASE job[w].terms \subseteq job'[w].terms
  BY <1>4
<1>5. (\E target \in Ids : job'[w].terms = AliasAdded(job[w].terms, c, target))
         \/ job[w].terms \subseteq job'[w].terms
  BY <1>2 DEF DecisionOf
<1> QED
  BY <1>3, <1>4, <1>5

\* A surface that was in the lexicon stays in it as items are decided.
BaseKept(j) ==
    \A b \in j.base : \E t \in j.terms : SurfacesOf(b) \subseteq SurfacesOf(t)

NoStarters(lex) == \A t \in lex : ~t.starter

\* LedgerTruth alone is not inductive: while the items are decided, a surface
\* known to the base is known to the terms that will be written.
IncludedInv ==
    \A w \in Workers :
        /\ pc[w] = "deciding" => BaseKept(job[w])
        /\ pc[w] \in {"deciding", "filed"} =>
              IncludedIsIn(job[w].ledger, job[w].terms)

LEMMA KnownIsIn ==
    ASSUME NEW lex, NEW c \in KnownSurfaces(lex) \cup KnownDeprecated(lex)
    PROVE  \E t \in lex : c \in SurfacesOf(t)
  BY DEF KnownSurfaces, KnownDeprecated, SurfacesOf

\* The entry of the item just decided is true of the terms as they are now.
LEMMA DecisionIncluded ==
    ASSUME TypeOK, NEW w \in Workers, NEW c \in Candidates, DecisionOf(w, c),
           BaseKept(job[w]), IncludedIsIn(job[w].ledger, job[w].terms)
    PROVE  BaseKept(job[w])' /\ IncludedIsIn(job[w].ledger, job[w].terms)'
<1>0. /\ job[w] \in Jobs /\ job[w].ledger \in Ledgers
      /\ job[w].base \in SUBSET Terms /\ job[w].terms \in SUBSET Terms
  BY DEF TypeOK, Jobs
<1>1. \A t \in job[w].terms : \E u \in job'[w].terms :
         SurfacesOf(t) \subseteq SurfacesOf(u)
  BY DecisionKeeps DEF SurfacesOf
<1>2. job'[w].base = job[w].base
  BY DecideFacts DEF DecisionOf
<1>3. BaseKept(job[w])'
  BY <1>1, <1>2 DEF BaseKept
<1>4. ASSUME NEW entry, NEW terms, Decide(w, c, entry, terms),
             entry.included => \E t \in terms : c \in SurfacesOf(t)
      PROVE  IncludedIsIn(job[w].ledger, job[w].terms)'
  <2>1. /\ job'[w].ledger = [job[w].ledger EXCEPT ![c] = entry]
        /\ job'[w].terms = terms
    BY <1>4, DecideFacts
  <2>2. /\ job'[w].ledger[c] = entry
        /\ \A d \in Candidates \ {c} : job'[w].ledger[d] = job[w].ledger[d]
    BY <1>0, <2>1 DEF Ledgers
  <2>3. SUFFICES ASSUME NEW d \in Candidates, job'[w].ledger[d].included
                 PROVE  \E t \in job'[w].terms : d \in SurfacesOf(t)
    BY DEF IncludedIsIn
  <2>4. CASE d = c
    BY <1>4, <2>1, <2>2, <2>3, <2>4
  <2>5. CASE d # c
    <3>1. job[w].ledger[d].included
      BY <2>2, <2>3, <2>5
    <3> QED
      BY <1>1, <3>1 DEF IncludedIsIn
  <2> QED
    BY <2>4, <2>5
<1>5. ASSUME NEW target \in Ids, target \in IdsOf(job[w].terms)
      PROVE  \E t \in AliasAdded(job[w].terms, c, target) : c \in SurfacesOf(t)
  <2>1. PICK t \in job[w].terms : t.id = target
    BY <1>5 DEF IdsOf
  <2>2. PICK u \in AliasAdded(job[w].terms, c, target) : Deprecated(c) \in u.aliases
    BY <1>0, <2>1, AliasAddedKeeps
  <2> QED
    BY <2>2 DEF SurfacesOf, Deprecated
<1>6. ASSUME NEW id
      PROVE  \E t \in job[w].terms \cup {NewTerm(c, id)} : c \in SurfacesOf(t)
  <2>1. c \in SurfacesOf(NewTerm(c, id))
    BY DEF NewTerm, SurfacesOf
  <2> QED
    BY <2>1
<1>7. c \in Active(job[w]) \cup AlreadyDeprecated(job[w])
         => \E t \in job[w].terms : c \in SurfacesOf(t)
  <2>1. SUFFICES ASSUME c \in Active(job[w]) \cup AlreadyDeprecated(job[w])
                 PROVE  \E t \in job[w].terms : c \in SurfacesOf(t)
    OBVIOUS
  <2>2. PICK t \in job[w].base \cup job[w].terms : c \in SurfacesOf(t)
    BY <2>1, KnownIsIn DEF Active, AlreadyDeprecated
  <2> QED
    BY <2>2 DEF BaseKept
<1> QED
  BY <1>3, <1>4, <1>5, <1>6, <1>7 DEF DecisionOf

LEMMA IncludedStep ==
    ASSUME TypeOK, LedgerInv, AllIn({lex \in SUBSET Terms : NoStarters(lex)}),
           IncludedInv, [Next]_vars
    PROVE  IncludedInv'
<1>1. CASE UNCHANGED vars
  BY <1>1 DEF vars, IncludedInv
<1>2. CASE Tick \/ Review
  BY <1>2 DEF Tick, Review, IncludedInv
<1>3. ASSUME NEW w \in Workers, WorkerNext(w)
      PROVE  IncludedInv'
  <2>1. \A v \in Workers \ {w} : pc'[v] = pc[v] /\ job'[v] = job[v]
    BY <1>3, OthersRest
  <2>2. SUFFICES
           /\ pc'[w] = "deciding" => BaseKept(job[w])'
           /\ pc'[w] \in {"deciding", "filed"} =>
                 IncludedIsIn(job[w].ledger, job[w].terms)'
    BY <2>1 DEF IncludedInv, BaseKept
  <2>3. CASE LoadBase(w) \/ Stamp(w) \/ StoreRecord(w) \/ RewriteLexicon(w)
             \/ EditLexicon(w) \/ Crash(w)
    BY <2>3 DEF LoadBase, Stamp, StoreRecord, RewriteLexicon, EditLexicon, Crash,
                TypeOK
  <2>4. CASE ReadInbox(w)
    <3>1. CASE pc'[w] = "idle"
      BY <3>1
    <3>2. CASE pc'[w] = "deciding"
      <4>1. /\ job'[w].base = job[w].base
            /\ job'[w].ledger = job[w].ledger
            /\ job'[w].terms = Visible(job[w].base)
            /\ pc[w] = "stamped"
        BY <2>4, <3>2, InboxFacts DEF ReadInbox
      <4>2. Visible(job[w].base) = job[w].base
        BY <4>1 DEF AllIn, Visible, NoStarters
      <4>3. job[w].ledger = NoJob.ledger
        BY <4>1 DEF LedgerInv
      <4>4. \A terms : IncludedIsIn(NoJob.ledger, terms)
        BY DEF IncludedIsIn, NoJob, NoEntry, Entry
      <4>5. BaseKept(job[w])'
        BY <4>1, <4>2 DEF BaseKept
      <4> QED
        BY <4>1, <4>3, <4>4, <4>5
    <3> QED
      BY <2>4, <3>1, <3>2, InboxFacts
  <2>5. CASE DecideAlias(w) \/ ExcludeItem(w) \/ SkipItem(w) \/ GenerateTerm(w)
    <3>1. pc[w] = "deciding"
      BY <2>5 DEF DecideAlias, ExcludeItem, SkipItem, GenerateTerm, Decide
    <3>2. PICK c \in Candidates : DecisionOf(w, c)
      BY <2>5, DecisionCases
    <3> QED
      BY <3>1, <3>2, DecisionIncluded DEF IncludedInv
  <2>6. CASE WriteFile(w)
    BY <2>6, FileFacts DEF IncludedInv
  <2> QED
    BY <1>3, <2>3, <2>4, <2>5, <2>6 DEF WorkerNext
<1> QED
  BY <1>1, <1>2, <1>3 DEF Next

LEMMA NoStartersClosed ==
    ASSUME \A lex \in Initial : NoStarters(lex)
    PROVE  Closed({lex \in SUBSET Terms : NoStarters(lex)})
<1> DEFINE H == {lex \in SUBSET Terms : NoStarters(lex)}
<1>1. Initial \subseteq H
  BY InitialAssumption
<1>2. \A lex \in H : Visible(lex) \in H
  BY DEF Visible, NoStarters
<1>3. ASSUME NEW lex \in H, NEW c \in Candidates, NEW target
      PROVE  AliasAdded(lex, c, target) \in H
  <2>1. \A u \in AliasAdded(lex, c, target) : \E t \in lex : u.starter = t.starter
    BY DEF AliasAdded, Terms
  <2> QED
    BY <2>1, AliasAddedTyped DEF NoStarters
<1>4. ASSUME NEW lex \in H, NEW c \in Candidates, NEW id \in Ids
      PROVE  lex \cup {NewTerm(c, id)} \in H
  <2>1. NewTerm(c, id) \in Terms /\ ~NewTerm(c, id).starter
    BY NewTermTyped DEF NewTerm
  <2> QED
    BY <2>1 DEF NoStarters
<1>5. ASSUME NEW lex \in H, NEW s \in Surfaces, NEW target
      PROVE  WithDeprecatedAlias(lex, s, target) \in H
  <2>1. \A u \in WithDeprecatedAlias(lex, s, target) : \E t \in lex :
           u.starter = t.starter
    BY DEF WithDeprecatedAlias, Terms
  <2> QED
    BY <2>1, EditTyped DEF NoStarters
<1> QED
  BY <1>1, <1>2, <1>3, <1>4, <1>5 DEF Closed

\* The records and the files at the end of a step.
LEMMA TruthStep ==
    ASSUME TypeOK, LedgerInv, RecordTellsTheFile, IdsInv, IdsInv', IncludedInv,
           LedgerTruth, [Next]_vars
    PROVE  LedgerTruth'
<1>1. CASE UNCHANGED <<files, records>>
  BY <1>1 DEF LedgerTruth
<1>2. ASSUME NEW w \in Workers, WriteFile(w)
      PROVE  LedgerTruth'
  <2>1. /\ files' = files \cup {[id |-> job[w].id, terms |-> job[w].terms]}
        /\ records' = records
        /\ pc[w] = "deciding"
    BY <1>2, FileFacts
  <2>2. \A i \in DOMAIN records : records[i].id # job[w].id
    BY <2>1 DEF RecordTellsTheFile, IdsInv
  <2> QED
    BY <2>1, <2>2 DEF LedgerTruth
<1>3. ASSUME NEW w \in Workers, StoreRecord(w)
      PROVE  LedgerTruth'
  <2> DEFINE new == [id |-> job[w].id, created |-> job[w].created,
                     since |-> job[w].since, ledger |-> job[w].ledger]
             n == Len(records)
  <2>1. /\ [id |-> job[w].id, terms |-> job[w].terms] \in files
        /\ IncludedIsIn(job[w].ledger, job[w].terms)
    BY <1>3 DEF StoreRecord, LedgerInv, IncludedInv
  <2>2. /\ records' = Append(records, new) /\ files' = files
        /\ n \in Nat /\ DOMAIN records = 1..n
    BY <1>3 DEF StoreRecord, TypeOK
  <2>3. /\ DOMAIN records' = 1..(n + 1)
        /\ records'[n + 1] = new
        /\ \A i \in 1..n : records'[i] = records[i]
    BY <2>2 DEF TypeOK
  <2>4. \A i \in 1..(n + 1) : i \in 1..n \/ i = n + 1
    BY <2>2
  <2>5. \A f \in files : f.id = job[w].id => f.terms = job[w].terms
    BY <2>1 DEF IdsInv
  <2>6. ASSUME NEW f \in files, f.id = new.id
        PROVE  IncludedIsIn(new.ledger, f.terms)
    BY <2>1, <2>5, <2>6
  <2> HIDE DEF n, new
  <2>7. ASSUME NEW i \in DOMAIN records', NEW f \in files', f.id = records'[i].id
        PROVE  IncludedIsIn(records'[i].ledger, f.terms)
    BY <2>2, <2>3, <2>4, <2>6, <2>7 DEF LedgerTruth
  <2> QED
    BY <2>7 DEF LedgerTruth
<1>4. ASSUME NEW w \in Workers, WorkerNext(w), ~StoreRecord(w), ~WriteFile(w)
      PROVE  UNCHANGED <<files, records>>
  <2>1. CASE LoadBase(w) \/ Stamp(w) \/ ReadInbox(w)
    BY <2>1 DEF LoadBase, Stamp, ReadInbox
  <2>2. CASE DecideAlias(w) \/ ExcludeItem(w) \/ SkipItem(w) \/ GenerateTerm(w)
    BY <2>2 DEF DecideAlias, ExcludeItem, SkipItem, GenerateTerm, Decide
  <2>3. CASE RewriteLexicon(w) \/ EditLexicon(w) \/ Crash(w)
    BY <2>3 DEF RewriteLexicon, EditLexicon, Crash
  <2> QED
    BY <1>4, <2>1, <2>2, <2>3 DEF WorkerNext
<1>5. CASE UNCHANGED vars \/ Tick \/ Review
  BY <1>1, <1>5 DEF vars, Tick, Review
<1> QED
  BY <1>1, <1>2, <1>3, <1>4, <1>5 DEF Next

\* LedgerTruth for any number of workers, crashes and edits, if the lexicon to
\* start from has no starter term: what a record says is in the lexicon is in
\* the file of that snapshot.  (Publish knows a surface of a starter term, and
\* then drops the term.)
THEOREM LedgersTrue ==
    ASSUME \A lex \in Initial : NoStarters(lex)
    PROVE  Spec => []LedgerTruth
<1> DEFINE H == {lex \in SUBSET Terms : NoStarters(lex)}
<1>1. Closed(H)
  BY NoStartersClosed
<1> HIDE DEF H
<1>2. Init => AllIn(H) /\ LedgerInv /\ RecordTellsTheFile
  BY <1>1, AllInFirst DEF Init, LedgerInv, RecordTellsTheFile
<1>3. Init => IdsInv /\ IncludedInv /\ LedgerTruth
  BY DEF Init, IdsInv, IncludedInv, LedgerTruth, NoJob
<1>4. TypeOK /\ Stamped /\ AllIn(H) /\ LedgerInv /\ RecordTellsTheFile /\ IdsInv
        /\ IncludedInv /\ LedgerTruth /\ [Next]_vars
      => (AllIn(H) /\ LedgerInv /\ RecordTellsTheFile /\ IdsInv /\ IncludedInv
            /\ LedgerTruth)'
  BY <1>1, AllInStep, LedgerStep, RecordStep, IdsStep, IncludedStep, TruthStep DEF H
<1> QED
  BY <1>2, <1>3, <1>4, TypeCorrect, PTL DEF Spec

-----------------------------------------------------------------------------
(* What a worker writes back keeps what it has read.                       *)

\* What LexiconKeepsTerms asks of a step from one lexicon to another.
Keeps(old, new) ==
    \A t \in Visible(old) : \E u \in new :
        /\ u.id = t.id
        /\ u.canonical = t.canonical
        /\ SurfacesOf(t) \subseteq SurfacesOf(u)
        /\ {a \in t.aliases : a.deprecated} \subseteq u.aliases

LEMMA EditKeeps ==
    ASSUME NEW lex \in SUBSET Terms, NEW s \in Surfaces, NEW target \in Ids,
           MayDeprecate(lex, s, target)
    PROVE  Keeps(lex, WithDeprecatedAlias(lex, s, target))
<1> SUFFICES ASSUME NEW t \in lex
             PROVE  \E u \in WithDeprecatedAlias(lex, s, target) :
                       /\ u.id = t.id
                       /\ u.canonical = t.canonical
                       /\ SurfacesOf(t) \subseteq SurfacesOf(u)
                       /\ {a \in t.aliases : a.deprecated} \subseteq u.aliases
  BY DEF Keeps, Visible
<1>1. CASE t.id # target
  BY <1>1 DEF WithDeprecatedAlias
<1>2. CASE t.id = target
  <2> DEFINE u == [t EXCEPT !.aliases =
                      {a \in @ : a.surface # s} \cup {Deprecated(s)}]
  <2>1. u \in WithDeprecatedAlias(lex, s, target)
    BY <1>2 DEF WithDeprecatedAlias
  <2>2. /\ u.id = t.id /\ u.canonical = t.canonical
        /\ u.aliases = {a \in t.aliases : a.surface # s} \cup {Deprecated(s)}
    BY DEF Terms
  <2> HIDE DEF u
  <2>3. Deprecated(s).surface = s
    BY DEF Deprecated
  <2>4. SurfacesOf(t) \subseteq SurfacesOf(u)
    BY <2>2, <2>3 DEF SurfacesOf
  <2>5. \A a \in t.aliases : a.deprecated /\ a.surface = s => a = Deprecated(s)
    BY DEF Terms, Aliases, Deprecated
  <2>6. {a \in t.aliases : a.deprecated} \subseteq u.aliases
    BY <2>2, <2>5
  <2> QED
    BY <2>1, <2>2, <2>4, <2>6
<1> QED
  BY <1>1, <1>2

\* The inductive invariant LexiconKeepsTerms needs: what a worker has decided so
\* far keeps the terms of the lexicon it has read, whatever the file is by now.
KeepInv ==
    \A w \in Workers :
        pc[w] \in {"deciding", "filed", "rewriting"} => Keeps(job[w].base, job[w].terms)

\* What a step of a worker does to what the worker holds.
LEMMA KeepOwn ==
    ASSUME TypeOK, KeepInv, NEW w \in Workers, WorkerNext(w),
           pc'[w] \in {"deciding", "filed", "rewriting"}
    PROVE  Keeps(job'[w].base, job'[w].terms)
<1>0. \A t : SurfacesOf(t) \subseteq SurfacesOf(t)
  OBVIOUS
<1>1. CASE LoadBase(w) \/ Stamp(w) \/ RewriteLexicon(w) \/ Crash(w)
  BY <1>1 DEF LoadBase, Stamp, RewriteLexicon, Crash, TypeOK
<1>2. CASE ReadInbox(w)
  <2>1. job'[w].base = job[w].base /\ job'[w].terms = Visible(job[w].base)
    BY <1>2, InboxFacts
  <2>2. Keeps(job[w].base, Visible(job[w].base))
    BY <1>0 DEF Keeps
  <2> QED
    BY <2>1, <2>2
<1>3. CASE DecideAlias(w) \/ ExcludeItem(w) \/ SkipItem(w) \/ GenerateTerm(w)
  <2>1. PICK c \in Candidates : DecisionOf(w, c)
    BY <1>3, DecisionCases
  <2>2. pc[w] = "deciding" /\ job'[w].base = job[w].base
    BY <2>1, DecideFacts DEF DecisionOf
  <2>3. Keeps(job[w].base, job[w].terms)
    BY <2>2 DEF KeepInv
  <2>4. \A t \in job[w].terms : \E u \in job'[w].terms :
           /\ u.id = t.id
           /\ u.canonical = t.canonical
           /\ t.aliases \subseteq u.aliases
    BY <2>1, DecisionKeeps
  <2>5. SUFFICES ASSUME NEW t \in Visible(job[w].base)
                 PROVE  \E u \in job'[w].terms :
                           /\ u.id = t.id
                           /\ u.canonical = t.canonical
                           /\ SurfacesOf(t) \subseteq SurfacesOf(u)
                           /\ {a \in t.aliases : a.deprecated} \subseteq u.aliases
    BY <2>2 DEF Keeps
  <2>6. PICK m \in job[w].terms :
           /\ m.id = t.id
           /\ m.canonical = t.canonical
           /\ SurfacesOf(t) \subseteq SurfacesOf(m)
           /\ {a \in t.aliases : a.deprecated} \subseteq m.aliases
    BY <2>3 DEF Keeps
  <2>7. PICK u \in job'[w].terms :
           u.id = m.id /\ u.canonical = m.canonical /\ m.aliases \subseteq u.aliases
    BY <2>4
  <2>8. SurfacesOf(m) \subseteq SurfacesOf(u)
    BY <2>7 DEF SurfacesOf
  <2> QED
    BY <2>6, <2>7, <2>8
<1>4. CASE WriteFile(w)
  BY <1>4, FileFacts DEF KeepInv
<1>5. CASE StoreRecord(w)
  BY <1>5 DEF StoreRecord, TypeOK, KeepInv
<1>6. CASE EditLexicon(w)
  <2>1. PICK s \in Surfaces, target \in Ids :
           /\ MayDeprecate(lexicon, s, target)
           /\ job' = [job EXCEPT ![w] =
                        [NoJob EXCEPT !.base = lexicon,
                                      !.terms = WithDeprecatedAlias(lexicon, s, target)]]
    BY <1>6 DEF EditLexicon
  <2>2. /\ job'[w].base = lexicon
        /\ job'[w].terms = WithDeprecatedAlias(lexicon, s, target)
    BY <2>1 DEF TypeOK, NoJob
  <2> QED
    BY <2>1, <2>2, EditKeeps DEF TypeOK
<1> QED
  BY <1>1, <1>2, <1>3, <1>4, <1>5, <1>6 DEF WorkerNext

LEMMA KeepStep ==
    ASSUME TypeOK, KeepInv, [Next]_vars
    PROVE  KeepInv'
<1>1. CASE UNCHANGED vars \/ Tick \/ Review
  BY <1>1 DEF vars, Tick, Review, KeepInv
<1>2. ASSUME NEW w \in Workers, WorkerNext(w)
      PROVE  KeepInv'
  <2>1. \A v \in Workers \ {w} : pc'[v] = pc[v] /\ job'[v] = job[v]
    BY <1>2, OthersRest
  <2>2. pc'[w] \in {"deciding", "filed", "rewriting"} =>
           Keeps(job'[w].base, job'[w].terms)
    BY <1>2, KeepOwn
  <2> QED
    BY <2>1, <2>2 DEF KeepInv
<1> QED
  BY <1>1, <1>2 DEF Next

\* Only a worker that writes back changes the file.
LEMMA OnlyRewrites ==
    ASSUME [Next]_vars, lexicon' # lexicon
    PROVE  \E w \in Workers : RewriteLexicon(w)
<1>1. ~(UNCHANGED vars \/ Tick \/ Review)
  BY DEF vars, Tick, Review
<1>2. PICK w \in Workers : WorkerNext(w)
  BY <1>1 DEF Next
<1>3. ~(LoadBase(w) \/ Stamp(w) \/ ReadInbox(w))
  BY DEF LoadBase, Stamp, ReadInbox
<1>4. ~(DecideAlias(w) \/ ExcludeItem(w) \/ SkipItem(w) \/ GenerateTerm(w))
  BY DEF DecideAlias, ExcludeItem, SkipItem, GenerateTerm, Decide
<1>5. ~(WriteFile(w) \/ StoreRecord(w) \/ EditLexicon(w) \/ Crash(w))
  BY DEF WriteFile, StoreRecord, EditLexicon, Crash
<1> QED
  BY <1>2, <1>3, <1>4, <1>5 DEF WorkerNext

\* LexiconKeepsTerms, for any workers that publish and edit over each other: no
\* write of the file loses a term, a surface or a deprecation that its worker had
\* read, wherever workers were killed before and whatever reviewers decided
\* meanwhile; what a write does lose, another had written since that reading.
THEOREM TermsKept == Spec => LexiconKeepsTerms
<1> DEFINE A == \A t \in Visible(lexicon) :
                   \/ \E u \in lexicon' :
                         /\ u.id = t.id
                         /\ u.canonical = t.canonical
                         /\ SurfacesOf(t) \subseteq SurfacesOf(u)
                         /\ {a \in t.aliases : a.deprecated} \subseteq u.aliases
                   \/ \E w \in Workers :
                         pc[w] = "rewriting" /\ pc'[w] = "idle" /\ t \notin job[w].base
<1>1. Init => KeepInv
  BY DEF Init, KeepInv
<1>2. TypeOK /\ KeepInv /\ [Next]_vars => KeepInv' /\ [A]_lexicon
  <2> SUFFICES ASSUME TypeOK, KeepInv, [Next]_vars, lexicon' # lexicon
               PROVE  A
    BY KeepStep
  <2>1. PICK w \in Workers : RewriteLexicon(w)
    BY OnlyRewrites
  <2>2. /\ pc[w] = "rewriting" /\ pc'[w] = "idle"
        /\ lexicon' = job[w].terms
        /\ Keeps(job[w].base, lexicon')
    BY <2>1 DEF RewriteLexicon, TypeOK, KeepInv
  <2>3. ASSUME NEW t \in Visible(lexicon), t \in job[w].base
        PROVE  t \in Visible(job[w].base)
    BY <2>3 DEF Visible
  <2> QED
    BY <2>2, <2>3 DEF Keeps
<1> QED
  BY <1>1, <1>2, TypeCorrect, PTL DEF Spec, LexiconKeepsTerms

-----------------------------------------------------------------------------
(* The newest snapshot.                                                    *)

Timed(w) == pc[w] \in {"stamped", "deciding", "filed"}

\* What comes first in list_snapshots.
First(i) ==
    \A k \in DOMAIN records :
        \/ records[k].created < records[i].created
        \/ records[k].created = records[i].created /\ k <= i

\* TabShowsLastPublish alone is not inductive: created_at is the clock when the
\* snapshot was stamped, so it is no older than any stored before that; and some
\* row is the newest.
TimeInv ==
    /\ \A i \in DOMAIN records :
          /\ records[i].created <= clock
          /\ records[i].since < i
          /\ \A k \in DOMAIN records :
                k <= records[i].since => records[k].created <= records[i].created
    /\ \A w \in Workers : Timed(w) =>
          /\ job[w].created <= clock
          /\ job[w].since <= Len(records)
          /\ \A k \in DOMAIN records :
                k <= job[w].since => records[k].created <= job[w].created
    /\ records # <<>> => \E i \in DOMAIN records : First(i)

\* What a step other than StoreRecord and Tick does to the times: it stamps the
\* clock or leaves them.
LEMMA TimeMove ==
    ASSUME TypeOK, NEW w \in Workers, WorkerNext(w), ~StoreRecord(w)
    PROVE  /\ UNCHANGED <<clock, records>>
           /\ Timed(w)' =>
                 \/ job'[w].created = clock /\ job'[w].since = Len(records)
                 \/ /\ job'[w].created = job[w].created
                    /\ job'[w].since = job[w].since
                    /\ Timed(w)
<1> USE DEF Timed
<1>1. CASE LoadBase(w) \/ RewriteLexicon(w) \/ EditLexicon(w) \/ Crash(w)
  BY <1>1 DEF LoadBase, RewriteLexicon, EditLexicon, Crash, TypeOK
<1>2. CASE Stamp(w)
  BY <1>2, StampFacts
<1>3. CASE ReadInbox(w)
  BY <1>3, InboxFacts DEF ReadInbox
<1>4. CASE DecideAlias(w) \/ ExcludeItem(w) \/ SkipItem(w) \/ GenerateTerm(w)
  <2>1. PICK c \in Candidates : \E entry, terms : Decide(w, c, entry, terms)
    BY <1>4 DEF DecideAlias, ExcludeItem, SkipItem, GenerateTerm
  <2> QED
    BY <2>1 DEF Decide, TypeOK, Jobs
<1>5. CASE WriteFile(w)
  BY <1>5, FileFacts DEF WriteFile
<1> QED
  BY <1>1, <1>2, <1>3, <1>4, <1>5 DEF WorkerNext

LEMMA RecordTimes ==
    ASSUME TypeOK
    PROVE  \A i \in DOMAIN records : records[i].created \in Nat /\ records[i].since \in Nat
<1> DEFINE R == [id : SnapshotIds, created : Nat, since : Nat, ledger : Ledgers]
<1>1. \A r \in R : r.created \in Nat /\ r.since \in Nat
  OBVIOUS
<1>2. records \in Seq(R)
  BY DEF TypeOK
<1> HIDE DEF R
<1> QED
  BY <1>1, <1>2

\* A table that grows by one row, stamped no earlier than the rows it knew of,
\* keeps the order and has a newest row.
LEMMA Stored ==
    ASSUME TypeOK, TimeInv, NEW w \in Workers, StoreRecord(w)
    PROVE  /\ \A i \in DOMAIN records' :
                 /\ records'[i].created <= clock
                 /\ records'[i].since < i
                 /\ \A k \in DOMAIN records' :
                       k <= records'[i].since =>
                          records'[k].created <= records'[i].created
           /\ \E i \in DOMAIN records' : First(i)'
           /\ \A k \in DOMAIN records : k \in DOMAIN records' /\ records'[k] = records[k]
           /\ Len(records') = Len(records) + 1
<1> DEFINE new == [id |-> job[w].id, created |-> job[w].created,
                   since |-> job[w].since, ledger |-> job[w].ledger]
           n == Len(records)
<1>0. /\ clock \in Nat /\ job[w].created \in Nat /\ job[w].since \in Nat
      /\ \A i \in DOMAIN records : records[i].created \in Nat /\ records[i].since \in Nat
  BY RecordTimes DEF TypeOK, Jobs
<1>1. /\ records' = Append(records, new)
      /\ n \in Nat /\ DOMAIN records = 1..n
      /\ Timed(w)
  BY DEF StoreRecord, TypeOK, Timed
<1>2. /\ DOMAIN records' = 1..(n + 1)
      /\ Len(records') = n + 1
      /\ records'[n + 1] = new
      /\ \A i \in 1..n : records'[i] = records[i]
  BY <1>1 DEF TypeOK
<1>3. /\ new.created = job[w].created /\ new.since = job[w].since
      /\ new.created \in Nat /\ new.since \in Nat
  BY <1>0
<1>4. /\ new.created <= clock /\ new.since <= n
      /\ \A k \in 1..n : k <= new.since => records[k].created <= new.created
  BY <1>1, <1>3 DEF TimeInv
<1> HIDE DEF n, new
<1>5. \A i \in 1..(n + 1) : i \in 1..n \/ i = n + 1
  BY <1>1
<1>6. ASSUME NEW i \in 1..(n + 1)
      PROVE  /\ records'[i].created <= clock
             /\ records'[i].since < i
             /\ \A k \in 1..(n + 1) :
                   k <= records'[i].since => records'[k].created <= records'[i].created
  <2>1. CASE i = n + 1
    <3>1. records'[i] = new
      BY <1>2, <2>1
    <3>2. ASSUME NEW k \in 1..(n + 1), k <= new.since
          PROVE  records'[k].created <= new.created
      <4>1. k \in 1..n
        BY <1>1, <1>3, <1>4, <3>2
      <4> QED
        BY <1>2, <1>4, <3>2, <4>1
    <3>3. new.since < i
      BY <1>1, <1>3, <1>4, <2>1
    <3> QED
      BY <1>4, <3>1, <3>2, <3>3
  <2>2. CASE i \in 1..n
    <3>1. records'[i] = records[i] /\ records[i].created \in Nat
      BY <1>0, <1>1, <1>2, <2>2
    <3>2. records[i].created <= clock /\ records[i].since < i
      BY <1>1, <2>2 DEF TimeInv
    <3>3. ASSUME NEW k \in 1..(n + 1), k <= records[i].since
          PROVE  records'[k].created <= records[i].created
      <4>1. CASE k \in 1..n
        BY <1>1, <1>2, <2>2, <3>3, <4>1 DEF TimeInv
      <4>2. CASE k = n + 1
        BY <1>0, <1>1, <2>2, <3>2, <3>3, <4>2
      <4> QED
        BY <1>5, <4>1, <4>2
    <3> QED
      BY <3>1, <3>2, <3>3
  <2> QED
    BY <1>5, <2>1, <2>2
<1>7. \E i \in 1..(n + 1) : First(i)'
  <2>1. CASE \A k \in 1..n : records[k].created <= new.created
    <3>1. ASSUME NEW k \in 1..(n + 1)
          PROVE  \/ records'[k].created < records'[n + 1].created
                 \/ records'[k].created = records'[n + 1].created /\ k <= n + 1
      <4>1. CASE k \in 1..n
        BY <1>0, <1>1, <1>2, <1>3, <2>1, <4>1
      <4>2. CASE k = n + 1
        BY <1>1, <1>2, <4>2
      <4> QED
        BY <1>5, <4>1, <4>2
    <3> QED
      BY <1>1, <1>2, <3>1 DEF First
  <2>2. CASE \E m \in 1..n : ~(records[m].created <= new.created)
    <3>1. PICK m \in 1..n : ~(records[m].created <= new.created)
      BY <2>2
    <3>2. PICK i \in 1..n : First(i)
      BY <1>1, <3>1 DEF TimeInv, n
    <3>3. /\ records[i].created \in Nat /\ records[m].created \in Nat
          /\ records[m].created <= records[i].created
      BY <1>0, <1>1, <3>1, <3>2 DEF First
    <3>4. new.created < records[i].created
      BY <1>3, <3>1, <3>3
    <3>5. ASSUME NEW k \in 1..(n + 1)
          PROVE  \/ records'[k].created < records'[i].created
                 \/ records'[k].created = records'[i].created /\ k <= i
      <4>1. CASE k \in 1..n
        BY <1>1, <1>2, <3>2, <4>1 DEF First
      <4>2. CASE k = n + 1
        BY <1>2, <3>2, <3>4, <4>2
      <4> QED
        BY <1>5, <4>1, <4>2
    <3>6. i \in 1..(n + 1)
      BY <1>1
    <3> QED
      BY <1>2, <3>5, <3>6 DEF First
  <2> QED
    BY <2>1, <2>2
<1> QED
  BY <1>1, <1>2, <1>6, <1>7 DEF n

LEMMA TimeStep ==
    ASSUME TypeOK, TimeInv, [Next]_vars
    PROVE  TimeInv'
<1>0. /\ clock \in Nat /\ Len(records) \in Nat /\ DOMAIN records = 1..Len(records)
      /\ \A w \in Workers : job[w].created \in Nat /\ job[w].since \in Nat
      /\ \A i \in DOMAIN records : records[i].created \in Nat
  BY RecordTimes DEF TypeOK, Jobs
<1>1. CASE UNCHANGED vars \/ Review
  BY <1>1 DEF vars, Review, TimeInv, Timed, First
<1>2. CASE Tick
  <2>1. UNCHANGED <<records, pc, job>> /\ clock' = clock + 1
    BY <1>2 DEF Tick
  <2>2. \A n \in Nat : n <= clock => n <= clock'
    BY <1>0, <2>1
  <2> QED
    BY <1>0, <2>1, <2>2 DEF TimeInv, Timed, First
<1>3. ASSUME NEW w \in Workers, WorkerNext(w), ~StoreRecord(w)
      PROVE  TimeInv'
  <2>1. \A v \in Workers \ {w} : pc'[v] = pc[v] /\ job'[v] = job[v]
    BY <1>3, OthersRest
  <2>2. /\ UNCHANGED <<clock, records>>
        /\ Timed(w)' =>
              \/ job'[w].created = clock /\ job'[w].since = Len(records)
              \/ /\ job'[w].created = job[w].created
                 /\ job'[w].since = job[w].since
                 /\ Timed(w)
    BY <1>3, TimeMove
  <2>3. Timed(w)' =>
           /\ job'[w].created <= clock
           /\ job'[w].since <= Len(records)
           /\ \A k \in DOMAIN records :
                 k <= job'[w].since => records[k].created <= job'[w].created
    BY <1>0, <2>2 DEF TimeInv
  <2> QED
    BY <2>1, <2>2, <2>3 DEF TimeInv, Timed, First
<1>4. ASSUME NEW w \in Workers, StoreRecord(w)
      PROVE  TimeInv'
  <2>1. \A v \in Workers : Timed(v)' => Timed(v) /\ v # w /\ job'[v] = job[v]
    BY <1>4, OthersRest DEF StoreRecord, Timed, TypeOK, WorkerNext
  <2>2. clock' = clock
    BY <1>4 DEF StoreRecord
  <2>3. /\ \A i \in DOMAIN records' :
              /\ records'[i].created <= clock
              /\ records'[i].since < i
              /\ \A k \in DOMAIN records' :
                    k <= records'[i].since => records'[k].created <= records'[i].created
        /\ \E i \in DOMAIN records' : First(i)'
        /\ \A k \in DOMAIN records : k \in DOMAIN records' /\ records'[k] = records[k]
        /\ Len(records') = Len(records) + 1
    BY <1>4, Stored
  <2>4. DOMAIN records' = 1..(Len(records) + 1)
    BY <1>4, <2>3 DEF StoreRecord, TypeOK
  <2>5. ASSUME NEW v \in Workers, Timed(v)'
        PROVE  /\ job'[v].created <= clock
               /\ job'[v].since <= Len(records')
               /\ \A k \in DOMAIN records' :
                     k <= job'[v].since => records'[k].created <= job'[v].created
    <3>1. Timed(v) /\ job'[v] = job[v]
      BY <2>1, <2>5
    <3>2. /\ job[v].created <= clock
          /\ job[v].since <= Len(records)
          /\ \A k \in DOMAIN records :
                k <= job[v].since => records[k].created <= job[v].created
      BY <3>1 DEF TimeInv
    <3>3. ASSUME NEW k \in DOMAIN records', k <= job[v].since
          PROVE  k \in DOMAIN records
      BY <1>0, <2>4, <3>2, <3>3
    <3> QED
      BY <1>0, <2>3, <3>1, <3>2, <3>3
  <2> QED
    BY <2>2, <2>3, <2>5 DEF TimeInv
<1> QED
  BY <1>1, <1>2, <1>3, <1>4 DEF Next

LEMMA NewestIsLast ==
    ASSUME TypeOK, TimeInv
    PROVE  TabShowsLastPublish
<1> SUFFICES ASSUME records # <<>>
             PROVE  Newest = Len(records) \/ records[Len(records)].since < Newest
  BY DEF TabShowsLastPublish
<1> DEFINE n == Len(records)
           m == Newest
<1>1. n \in Nat \ {0} /\ DOMAIN records = 1..n
  BY DEF TypeOK
<1>2. m \in DOMAIN records /\ First(m)
  <2>1. Newest = CHOOSE i \in DOMAIN records : First(i)
    BY DEF Newest, First
  <2>2. \E i \in DOMAIN records : First(i)
    BY DEF TimeInv
  <2> QED
    BY <2>1, <2>2
<1> HIDE DEF m, n
<1>3. /\ n \in DOMAIN records
      /\ records[m].created \in Nat /\ records[n].created \in Nat
      /\ records[n].since \in Nat
  BY <1>1, <1>2, RecordTimes
<1>4. ASSUME m # n
      PROVE  records[n].since < m
  <2>1. \/ records[n].created < records[m].created
        \/ records[n].created = records[m].created /\ n <= m
    BY <1>2, <1>3 DEF First
  <2>2. m <= records[n].since => records[m].created <= records[n].created
    BY <1>2, <1>3 DEF TimeInv
  <2> QED
    BY <1>1, <1>2, <1>3, <1>4, <2>1, <2>2
<1> QED
  BY <1>4 DEF m, n

\* TabShowsLastPublish, for any workers that publish over each other: however
\* many publishes fall into one second of the clock, and whichever of them are
\* killed, the tab shows the last that reached the table, or one that reached it
\* while that one was being published.
THEOREM TabShowsLast == Spec => []TabShowsLastPublish
<1>1. Init => TimeInv
  BY DEF Init, TimeInv, Timed
<1>2. TypeOK /\ TimeInv /\ [Next]_vars => TimeInv'
  BY TimeStep
<1>3. TypeOK /\ TimeInv => TabShowsLastPublish
  BY NewestIsLast
<1> QED
  BY <1>1, <1>2, <1>3, TypeCorrect, PTL DEF Spec
=============================================================================
