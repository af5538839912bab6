----------------------------- MODULE ReviewStore -----------------------------
(***************************************************************************)
(* The SQLite workspace store (workspace/state.py) as its concurrent users *)
(* see it: threads of the review web server, MCP processes and CLI runs    *)
(* that save and clear review decisions, sync scan results and append      *)
(* provenance records.                                                     *)
(*                                                                         *)
(* Python's sqlite3 opens a transaction at the first INSERT or DELETE, so  *)
(* the SELECT that precedes it runs outside the transaction, and the       *)
(* timestamp is taken before the connection is even opened.  The first     *)
(* write takes the only write lock of the database (WAL mode); a writer    *)
(* that waits for it longer than busy_timeout gives up.  A SELECT sees     *)
(* committed data only.  ensure_schema, which every call runs first,       *)
(* writes a row of workspace_meta in a transaction of its own: it changes  *)
(* nothing modelled here, and a call it makes fail has not begun.          *)
(***************************************************************************)
EXTENDS Naturals, Sequences

CONSTANTS
    Actors,      \* threads and processes that use the workspace
    Surfaces,    \* normalized candidate surfaces
    Decisions,   \* the review statuses a call can save
    Unreviewed,  \* ReviewDecisionStatus.UNREVIEWED
    NoActor,     \* nobody: the lock is free, a row has no reviewer
    MaxClock,    \* bound on the one-second wall clock
    MaxOps       \* bound on the number of calls started

ASSUME StoreAssumption ==
    /\ Unreviewed \notin Decisions
    /\ NoActor \notin Actors
    /\ Surfaces # {}
    /\ MaxClock \in Nat
    /\ MaxOps \in Nat

Status == Decisions \cup {Unreviewed}

Rows == [decision : Status, reviewer : Actors \cup {NoActor},
         created : Nat, updated : Nat]

\* No row of review_decisions for the surface.
NoRow == [decision |-> Unreviewed, reviewer |-> NoActor,
          created |-> 0, updated |-> 0]

Reviewed(row) == row.decision # Unreviewed

\* A row of review_events; its place in the sequence is its rowid.  "cand" and
\* "evid" are the candidate and evidence snapshots, "prev" the previous_decision.
\* "since" is history: how many events there were when the call began.
Events == [id : Nat, surface : Surfaces, decision : Status, reviewer : Actors,
           stamp : Nat, cand : Nat, evid : Nat, prev : Status, since : Nat]

\* A row of decision_records; "event" is payload.review_event_id.
Records == [kind : {"review", "other"}, event : Nat, result : Status]

Databases == [candidates : [Surfaces -> Nat], evidence : [Surfaces -> Nat],
              decisions : [Surfaces -> Rows],
              events : Seq(Events), records : Seq(Records)]

Kinds == {"none", "save", "clear", "sync"}

\* A call in progress: its arguments, its timestamp and what it read.
Calls == [kind : Kinds, id : Nat, surface : Surfaces, found : SUBSET Surfaces,
          decision : Status, now : Nat, seen : Rows, since : Nat]

NoCall == [kind |-> "none", id |-> 0, surface |-> CHOOSE s \in Surfaces : TRUE,
           found |-> {}, decision |-> Unreviewed, now |-> 0, seen |-> NoRow, since |-> 0]

VARIABLES
    clock,  \* datetime.now() in whole seconds
    ops,    \* calls started so far; a call's number stands for its uuid4
    db,     \* the committed database
    view,   \* the database as the holder of the write lock sees it
    lock,   \* the holder of the write lock, or NoActor
    pc,     \* per actor: how far its call has come
    op      \* per actor: the call

vars == <<clock, ops, db, view, lock, pc, op>>

Idle(a) == pc[a] = "idle"

Init ==
    /\ clock = 0
    /\ ops = 0
    /\ db = [candidates |-> [s \in Surfaces |-> 0],
             evidence |-> [s \in Surfaces |-> 0],
             decisions |-> [s \in Surfaces |-> NoRow],
             events |-> <<>>, records |-> <<>>]
    /\ view = db
    /\ lock = NoActor
    /\ pc = [a \in Actors |-> "idle"]
    /\ op = [a \in Actors |-> NoCall]

-----------------------------------------------------------------------------
(* Calls begin: arguments are checked and the timestamp is taken.          *)

Begin(a, kind, s, found, d, next) ==
    /\ Idle(a)
    /\ ops < MaxOps
    /\ ops' = ops + 1
    /\ op' = [op EXCEPT ![a] =
                 [kind |-> kind, id |-> ops + 1, surface |-> s, found |-> found,
                  decision |-> d, now |-> clock, seen |-> NoRow,
                  since |-> Len(db.events)]]
    /\ pc' = [pc EXCEPT ![a] = next]
    /\ UNCHANGED <<clock, db, view, lock>>

\* save_review_decision up to "now = _utc_now()": UNREVIEWED is refused.
BeginSave(a) ==
    \E s \in Surfaces, d \in Status :
        /\ d # Unreviewed
        /\ Begin(a, "save", s, {}, d, "stamped")

BeginClear(a) ==
    \E s \in Surfaces : Begin(a, "clear", s, {}, Unreviewed, "stamped")

\* A sync or scan has built its reports in memory and starts to store them.
BeginSync(a) ==
    \E found \in SUBSET Surfaces :
        /\ found # {}
        /\ Begin(a, "sync", NoCall.surface, found, Unreviewed, "candidates")

-----------------------------------------------------------------------------
(* Save and clear: one read outside the transaction, three writes inside.  *)

Return(a) ==
    /\ pc' = [pc EXCEPT ![a] = "idle"]
    /\ op' = [op EXCEPT ![a] = NoCall]

\* Mutant: clear does not return early when there is nothing to clear.
ReadRowAlwaysGoesOn(a) ==
    /\ pc[a] = "stamped"
    /\ op' = [op EXCEPT ![a].seen = db.decisions[op[a].surface]]
    /\ pc' = [pc EXCEPT ![a] = "read"]
    /\ UNCHANGED <<clock, ops, db, view, lock>>

\* Mutant: clear polls until there is something to clear.
ReadRowPolls(a) ==
    /\ op[a].kind = "clear" => Reviewed(db.decisions[op[a].surface])
    /\ ReadRowAlwaysGoesOn(a)

\* The SELECT of the existing row.  Clear returns False when there is none;
\* otherwise it goes on to run git, outside any transaction.
ReadRow(a) ==
    LET row == db.decisions[op[a].surface] IN
    /\ pc[a] = "stamped"
    /\ IF op[a].kind = "clear" /\ ~Reviewed(row)
         THEN Return(a)
         ELSE /\ op' = [op EXCEPT ![a].seen = row]
              /\ pc' = [pc EXCEPT ![a] = "read"]
    /\ UNCHANGED <<clock, ops, db, view, lock>>

\* INSERT OR REPLACE keeps the created_at that was read; DELETE leaves no row.
RowWritten(a) ==
    LET c == op[a] IN
    IF c.kind = "clear"
      THEN NoRow
      ELSE [decision |-> c.decision, reviewer |-> a,
            created |-> IF Reviewed(c.seen) THEN c.seen.created ELSE c.now,
            updated |-> c.now]

\* Mutant: the connection is in autocommit mode, so the row is visible at once.
WriteRowAutocommit(a) ==
    /\ pc[a] = "read"
    /\ lock = NoActor
    /\ lock' = a
    /\ db' = [db EXCEPT !.decisions[op[a].surface] = RowWritten(a)]
    /\ view' = db'
    /\ pc' = [pc EXCEPT ![a] = "row"]
    /\ UNCHANGED <<clock, ops, op>>

\* Mutant: the write does not wait for the lock.
WriteRowUnlocked(a) ==
    /\ pc[a] = "read"
    /\ lock' = a
    /\ view' = [db EXCEPT !.decisions[op[a].surface] = RowWritten(a)]
    /\ pc' = [pc EXCEPT ![a] = "row"]
    /\ UNCHANGED <<clock, ops, db, op>>

\* The first write begins the transaction and takes the write lock.
WriteRow(a) ==
    /\ pc[a] = "read"
    /\ lock = NoActor
    /\ lock' = a
    /\ view' = [db EXCEPT !.decisions[op[a].surface] = RowWritten(a)]
    /\ pc' = [pc EXCEPT ![a] = "row"]
    /\ UNCHANGED <<clock, ops, db, op>>

\* Mutant: the event is given created_at of the row instead of now.
EventBuiltCreatedAt(a) ==
    LET c == op[a] IN
    [id |-> c.id, surface |-> c.surface, decision |-> c.decision,
     reviewer |-> a,
     stamp |-> IF Reviewed(c.seen) THEN c.seen.created ELSE c.now,
     cand |-> view.candidates[c.surface], evid |-> view.evidence[c.surface],
     prev |-> IF c.kind = "clear" THEN c.seen.decision ELSE Unreviewed, since |-> c.since]

\* Mutant: the event of a clear carries the decision that was cleared.
EventBuiltCleared(a) ==
    LET c == op[a] IN
    [id |-> c.id, surface |-> c.surface,
     decision |-> IF c.kind = "clear" THEN c.seen.decision ELSE c.decision,
     reviewer |-> a, stamp |-> c.now, cand |-> view.candidates[c.surface],
     evid |-> view.evidence[c.surface],
     prev |-> IF c.kind = "clear" THEN c.seen.decision ELSE Unreviewed, since |-> c.since]

\* _build_review_event reads candidate and evidence inside the transaction.
EventBuilt(a) ==
    LET c == op[a] IN
    [id |-> c.id, surface |-> c.surface, decision |-> c.decision,
     reviewer |-> a, stamp |-> c.now, cand |-> view.candidates[c.surface],
     evid |-> view.evidence[c.surface],
     prev |-> IF c.kind = "clear" THEN c.seen.decision ELSE Unreviewed, since |-> c.since]

\* Mutant: commit after the event, the record follows in a transaction of its own.
WriteEventCommits(a) ==
    /\ pc[a] = "row"
    /\ view' = [view EXCEPT !.events = Append(@, EventBuilt(a))]
    /\ db' = view'
    /\ pc' = [pc EXCEPT ![a] = "event"]
    /\ UNCHANGED <<clock, ops, lock, op>>

WriteEvent(a) ==
    /\ pc[a] = "row"
    /\ view' = [view EXCEPT !.events = Append(@, EventBuilt(a))]
    /\ pc' = [pc EXCEPT ![a] = "event"]
    /\ UNCHANGED <<clock, ops, db, lock, op>>

RecordBuilt(a) ==
    [kind |-> "review", event |-> op[a].id, result |-> op[a].decision]

WriteRecord(a) ==
    /\ pc[a] = "event"
    /\ view' = [view EXCEPT !.records = Append(@, RecordBuilt(a))]
    /\ pc' = [pc EXCEPT ![a] = "record"]
    /\ UNCHANGED <<clock, ops, db, lock, op>>

Commit(a) ==
    /\ pc[a] = "record"
    /\ db' = view
    /\ lock' = NoActor
    /\ Return(a)
    /\ UNCHANGED <<clock, ops, view>>

-----------------------------------------------------------------------------
(* The other writers, each a single transaction of one kind of statement.  *)

CommitAtOnce(newdb) ==
    /\ lock = NoActor
    /\ db' = newdb
    /\ view' = newdb

\* INSERT OR REPLACE of what the scan found; what it did not find stays.
Refreshed(table, a) ==
    [s \in Surfaces |-> IF s \in op[a].found THEN op[a].id ELSE table[s]]

StoreCandidates(a) ==
    /\ pc[a] = "candidates"
    /\ CommitAtOnce([db EXCEPT !.candidates = Refreshed(@, a)])
    /\ pc' = [pc EXCEPT ![a] = "evidence"]
    /\ UNCHANGED <<clock, ops, lock, op>>

StoreEvidence(a) ==
    /\ pc[a] = "evidence"
    /\ CommitAtOnce([db EXCEPT !.evidence = Refreshed(@, a)])
    /\ Return(a)
    /\ UNCHANGED <<clock, ops, lock>>

\* append_decision_record, and the record store_snapshot_record writes: rows
\* of decision_records that no review event stands behind.
AppendRecord(a) ==
    /\ Idle(a)
    /\ ops < MaxOps
    /\ ops' = ops + 1
    /\ CommitAtOnce([db EXCEPT !.records =
           Append(@, [kind |-> "other", event |-> 0, result |-> Unreviewed])])
    /\ UNCHANGED <<clock, lock, pc, op>>

-----------------------------------------------------------------------------
(* What can go wrong, and time.                                            *)

\* busy_timeout expires while another connection holds the lock: the call
\* raises OperationalError and its connection has written nothing.
LockTimeout(a) ==
    /\ pc[a] \in {"read", "candidates", "evidence"}
    /\ lock # NoActor
    /\ Return(a)
    /\ UNCHANGED <<clock, ops, db, view, lock>>

\* The process is killed or a statement raises: an open transaction rolls back.
Fail(a) ==
    /\ ~Idle(a)
    /\ Return(a)
    /\ IF lock = a THEN lock' = NoActor /\ view' = db
                   ELSE UNCHANGED <<lock, view>>
    /\ UNCHANGED <<clock, ops, db>>

Tick ==
    /\ clock < MaxClock
    /\ clock' = clock + 1
    /\ UNCHANGED <<ops, db, view, lock, pc, op>>

\* The steps a call takes by itself once it has begun.
Step(a) ==
    \/ ReadRow(a) \/ WriteRow(a) \/ WriteEvent(a) \/ WriteRecord(a) \/ Commit(a)
    \/ StoreCandidates(a) \/ StoreEvidence(a) \/ LockTimeout(a)

ActorNext(a) ==
    \/ BeginSave(a) \/ BeginClear(a) \/ BeginSync(a) \/ AppendRecord(a)
    \/ Step(a) \/ Fail(a)

Next == Tick \/ \E a \in Actors : ActorNext(a)

Spec == Init /\ [][Next]_vars

\* Threads are scheduled, statements and git calls (2 s timeout) end, and a
\* wait for the lock ends by getting it or by busy_timeout.
FairSpec == Spec /\ \A a \in Actors : WF_vars(Step(a))

-----------------------------------------------------------------------------
(* Correctness.                                                            *)

TypeOK ==
    /\ clock \in Nat
    /\ ops \in Nat
    /\ db \in Databases
    /\ view \in Databases
    /\ lock \in Actors \cup {NoActor}
    /\ pc \in [Actors -> {"idle", "stamped", "read", "row", "event", "record",
                          "candidates", "evidence"}]
    /\ op \in [Actors -> Calls]

\* Position i of the event log is the last one committed for surface s.
LastCommitted(d, s, i) ==
    /\ i \in DOMAIN d.events
    /\ d.events[i].surface = s
    /\ \A j \in DOMAIN d.events : d.events[j].surface = s => j <= i

\* Position i is the latest for s as the queries see it: they order by
\* created_at and break ties by rowid.
LatestListed(d, s, i) ==
    /\ i \in DOMAIN d.events
    /\ d.events[i].surface = s
    /\ \A j \in DOMAIN d.events :
          d.events[j].surface = s =>
             \/ d.events[j].stamp < d.events[i].stamp
             \/ d.events[j].stamp = d.events[i].stamp /\ j <= i

\* The row of review_decisions is what event e left behind.
RowMatches(row, e) ==
    /\ row.decision = e.decision
    /\ Reviewed(row) => row.reviewer = e.reviewer /\ row.updated = e.stamp

\* Replaying the events in the order they were committed gives the current
\* review state: whatever writers, crashes and lock timeouts interleave, the row
\* of a surface is the outcome of its last event, and a row has an event.
Replay(d) ==
    \A s \in Surfaces :
        /\ \A i \in DOMAIN d.events :
              LastCommitted(d, s, i) => RowMatches(d.decisions[s], d.events[i])
        /\ Reviewed(d.decisions[s]) =>
              \E i \in DOMAIN d.events : LastCommitted(d, s, i)

ReplayInv == Replay(db)

\* The provenance log and the event log tell the same story: every review event
\* has one provenance record, with the same result, every review record names an
\* event, and both logs have them in the same order.
RecordsMirror(d) ==
    /\ \A i \in DOMAIN d.events : \E j \in DOMAIN d.records :
          /\ d.records[j].kind = "review"
          /\ d.records[j].event = d.events[i].id
          /\ d.records[j].result = d.events[i].decision
    /\ \A j \in DOMAIN d.records : d.records[j].kind = "review" =>
          \E i \in DOMAIN d.events : d.events[i].id = d.records[j].event
    /\ \A i1, i2 \in DOMAIN d.events, j1, j2 \in DOMAIN d.records :
          /\ d.records[j1].kind = "review" /\ d.records[j2].kind = "review"
          /\ d.records[j1].event = d.events[i1].id
          /\ d.records[j2].event = d.events[i2].id
          => (i1 < i2 <=> j1 < j2)

RecordsMirrorEvents == RecordsMirror(db)

Writing(a) == pc[a] \in {"row", "event", "record"}

Reviewing(a) == Writing(a) \/ pc[a] \in {"stamped", "read"}

\* What the holder of the lock sees: the committed tables and its own writes.
HolderView(a) ==
    /\ view.candidates = db.candidates
    /\ view.evidence = db.evidence
    /\ view.decisions = [db.decisions EXCEPT ![op[a].surface] = RowWritten(a)]
    /\ view.events = IF pc[a] = "row" THEN db.events
                                      ELSE Append(db.events, EventBuilt(a))
    /\ view.records = IF pc[a] = "record" THEN Append(db.records, RecordBuilt(a))
                                          ELSE db.records

LockInv ==
    /\ lock = NoActor => view = db
    /\ \A a \in Actors : Writing(a) <=> lock = a
    /\ \A a \in Actors : Writing(a) => HolderView(a)

\* The call decides what its arguments say, and its id is still free.
ReviewCall(a) ==
    /\ op[a].kind \in {"save", "clear"}
    /\ op[a].kind = "clear" <=> op[a].decision = Unreviewed
    /\ op[a].id \in 1..ops
    /\ \A i \in DOMAIN db.events : db.events[i].id # op[a].id

IdInv ==
    /\ \A a \in Actors : Reviewing(a) => ReviewCall(a)
    /\ \A a, b \in Actors :
          Reviewing(a) /\ Reviewing(b) /\ a # b => op[a].id # op[b].id
    /\ \A i, j \in DOMAIN db.events :
          /\ db.events[i].id \in 1..ops
          /\ i # j => db.events[i].id # db.events[j].id

\* Transactions are isolated and calls are told apart: one actor writes at a
\* time, on top of a database nobody else changes meanwhile; nothing of a rolled
\* back transaction is left for the next holder; and the id a call will use is
\* used by no event and no other call.
WriterInv == LockInv /\ IdInv

\* Event n was committed after event i, by a call that had begun before that.
Overlapped(d, n, i) == d.events[n].since < i /\ i < n

\* The latest listed event of a surface is the one that made its current state,
\* so the inbox (list_review_items) joins the decision in force with its own
\* actor and target.  Only a call that overlapped the listed one can have made
\* the current state instead: created_at is taken before the lock.
LatestEventIsCurrent ==
    \A s \in Surfaces : \A i \in DOMAIN db.events : LatestListed(db, s, i) =>
        LET later == {n \in DOMAIN db.events : db.events[n].surface = s /\ i < n}
        IN  /\ later = {} => RowMatches(db.decisions[s], db.events[i])
            /\ \A n \in later : Overlapped(db, n, i)

\* Event i undid event k, or what came between them came while the call of event
\* i was under way.
Undid(d, i, k) ==
    /\ k < i
    /\ d.events[k].surface = d.events[i].surface
    /\ d.events[k].decision = d.events[i].prev
    /\ \A j \in DOMAIN d.events :
          k < j /\ j < i /\ d.events[j].surface = d.events[i].surface =>
              Overlapped(d, i, j)

\* A clear event names a decision that was in force at some moment of its call,
\* although others save and clear between its SELECT and its DELETE; a candidate
\* that was never reviewed is never cleared.
ClearsNameWhatTheyCleared ==
    \A i \in DOMAIN db.events : ~Reviewed(db.events[i]) =>
        \E k \in DOMAIN db.events : Reviewed(db.events[k]) /\ Undid(db, i, k)

\* The store implements the decision log: each commit of a save or clear is one
\* decision, and nothing else changes the status or the log.
Log == INSTANCE DecisionLog WITH
    current <- [s \in Surfaces |-> db.decisions[s].decision],
    log <- [i \in DOMAIN db.events |->
               [surface |-> db.events[i].surface,
                decision |-> db.events[i].decision]]

ImplementsDecisionLog == Log!Spec

\* Every call returns or raises: a crashed lock holder and a crowd of writers
\* delay a call but do not hang it.
EveryCallReturns == \A a \in Actors : ~Idle(a) ~> Idle(a)
=============================================================================
