-------------------------- MODULE ReviewStoreProofs --------------------------
(***************************************************************************)
(* Proofs about ReviewStore, for every set of actors and surfaces.         *)
(***************************************************************************)
EXTENDS ReviewStore, SequenceTheorems, TLAPS

(***************************************************************************)
(* What Append does to a sequence.                                         *)
(***************************************************************************)
LEMMA AppendFacts ==
    ASSUME NEW S, NEW q \in Seq(S), NEW e \in S
    PROVE  /\ Append(q, e) \in Seq(S)
           /\ Len(Append(q, e)) = Len(q) + 1
           /\ DOMAIN q = 1..Len(q)
           /\ DOMAIN Append(q, e) = 1..(Len(q) + 1)
           /\ \A i \in 1..Len(q) : Append(q, e)[i] = q[i]
           /\ Append(q, e)[Len(q) + 1] = e
           /\ Len(q) \in Nat
  OBVIOUS

(***************************************************************************)
(* The values the actions write have their types.                          *)
(***************************************************************************)
LEMMA NoRowTyped == NoRow \in Rows
  BY StoreAssumption DEF NoRow, Rows, Status

LEMMA NoCallTyped == NoCall \in Calls
<1>1. (CHOOSE s \in Surfaces : TRUE) \in Surfaces
  BY StoreAssumption
<1> QED
  BY <1>1, NoRowTyped DEF NoCall, Calls, Kinds, Status

LEMMA RowTyped ==
    ASSUME TypeOK, NEW a \in Actors
    PROVE  RowWritten(a) \in Rows
<1>1. op[a] \in Calls
  BY DEF TypeOK
<1>2. CASE op[a].kind = "clear"
  BY <1>2, NoRowTyped DEF RowWritten
<1>3. CASE op[a].kind # "clear"
  BY <1>1, <1>3 DEF RowWritten, Rows, Calls, Status
<1> QED
  BY <1>2, <1>3

LEMMA EventTyped ==
    ASSUME TypeOK, NEW a \in Actors
    PROVE  EventBuilt(a) \in Events
<1>1. op[a] \in Calls
  BY DEF TypeOK
<1>2. /\ view.candidates[op[a].surface] \in Nat
      /\ view.evidence[op[a].surface] \in Nat
      /\ op[a].seen.decision \in Status
  BY <1>1 DEF TypeOK, Databases, Calls, Rows
<1> QED
  BY <1>1, <1>2 DEF EventBuilt, Events, Calls, Status

LEMMA RecordTyped ==
    ASSUME TypeOK, NEW a \in Actors
    PROVE  RecordBuilt(a) \in Records
  BY DEF TypeOK, RecordBuilt, Records, Calls

LEMMA RefreshedTyped ==
    ASSUME TypeOK, NEW a \in Actors, NEW t \in [Surfaces -> Nat]
    PROVE  Refreshed(t, a) \in [Surfaces -> Nat]
  BY DEF TypeOK, Refreshed, Calls

(***************************************************************************)
(* Type correctness.                                                       *)
(***************************************************************************)
LEMMA TypeInit == Init => TypeOK
<1> SUFFICES ASSUME Init PROVE TypeOK
  OBVIOUS
<1>1. db \in Databases
  BY NoRowTyped DEF Init, Databases
<1> QED
  BY <1>1, NoCallTyped DEF Init, TypeOK

LEMMA TypeStep ==
    ASSUME TypeOK, [Next]_vars
    PROVE  TypeOK'
<1> USE DEF TypeOK
<1>1. CASE UNCHANGED vars
  BY <1>1 DEF vars
<1>2. CASE Tick
  BY <1>2 DEF Tick
<1>3. ASSUME NEW a \in Actors, ActorNext(a)
      PROVE  TypeOK'
  <2>1. ASSUME NEW kind \in Kinds, NEW s \in Surfaces,
               NEW found \in SUBSET Surfaces, NEW d \in Status,
               NEW next \in {"stamped", "candidates"},
               Begin(a, kind, s, found, d, next)
        PROVE  TypeOK'
    <3>1. Len(db.events) \in Nat
      BY LenProperties DEF Databases
    <3>2. [kind |-> kind, id |-> ops + 1, surface |-> s, found |-> found,
           decision |-> d, now |-> clock, seen |-> NoRow,
           since |-> Len(db.events)] \in Calls
      BY NoRowTyped, <3>1 DEF Calls
    <3> QED
      BY <2>1, <3>2 DEF Begin
  <2>2. CASE BeginSave(a)
    BY <2>1, <2>2 DEF BeginSave, Kinds
  <2>3. CASE BeginClear(a)
    BY <2>1, <2>3 DEF BeginClear, Kinds, Status
  <2>4. CASE BeginSync(a)
    BY <2>1, <2>4, NoCallTyped DEF BeginSync, Kinds, Status, Calls
  <2>5. CASE ReadRow(a)
    <3>1. db.decisions[op[a].surface] \in Rows
      BY DEF Databases, Calls
    <3>2. [op EXCEPT ![a].seen = db.decisions[op[a].surface]] \in [Actors -> Calls]
      BY <3>1 DEF Calls
    <3> QED
      BY <2>5, <3>2, NoCallTyped DEF ReadRow, Return
  <2>6. CASE WriteRow(a)
    <3>1. [db EXCEPT !.decisions[op[a].surface] = RowWritten(a)] \in Databases
      BY RowTyped DEF Databases
    <3> QED
      BY <2>6, <3>1 DEF WriteRow
  <2>7. CASE WriteEvent(a)
    <3>1. Append(view.events, EventBuilt(a)) \in Seq(Events)
      BY EventTyped, AppendFacts DEF Databases
    <3>2. [view EXCEPT !.events = Append(@, EventBuilt(a))] \in Databases
      BY <3>1 DEF Databases
    <3> QED
      BY <2>7, <3>2 DEF WriteEvent
  <2>8. CASE WriteRecord(a)
    <3>1. Append(view.records, RecordBuilt(a)) \in Seq(Records)
      BY RecordTyped, AppendFacts DEF Databases
    <3>2. [view EXCEPT !.records = Append(@, RecordBuilt(a))] \in Databases
      BY <3>1 DEF Databases
    <3> QED
      BY <2>8, <3>2 DEF WriteRecord
  <2>9. CASE Commit(a)
    BY <2>9, NoCallTyped DEF Commit, Return
  <2>10. CASE StoreCandidates(a)
    <3>1. [db EXCEPT !.candidates = Refreshed(@, a)] \in Databases
      BY RefreshedTyped DEF Databases
    <3> QED
      BY <2>10, <3>1 DEF StoreCandidates, CommitAtOnce
  <2>11. CASE StoreEvidence(a)
    <3>1. [db EXCEPT !.evidence = Refreshed(@, a)] \in Databases
      BY RefreshedTyped DEF Databases
    <3> QED
      BY <2>11, <3>1, NoCallTyped DEF StoreEvidence, CommitAtOnce, Return
  <2>12. CASE AppendRecord(a)
    <3>1. [kind |-> "other", event |-> 0, result |-> Unreviewed] \in Records
      BY DEF Records, Status
    <3>2. [db EXCEPT !.records =
              Append(@, [kind |-> "other", event |-> 0, result |-> Unreviewed])]
            \in Databases
      BY <3>1, AppendFacts DEF Databases
    <3> QED
      BY <2>12, <3>2 DEF AppendRecord, CommitAtOnce
  <2>13. CASE LockTimeout(a)
    BY <2>13, NoCallTyped DEF LockTimeout, Return
  <2>14. CASE Fail(a)
    BY <2>14, NoCallTyped DEF Fail, Return
  <2> QED
    BY <1>3, <2>2, <2>3, <2>4, <2>5, <2>6, <2>7, <2>8, <2>9, <2>10, <2>11,
       <2>12, <2>13, <2>14 DEF ActorNext, Step
<1> QED
  BY <1>1, <1>2, <1>3 DEF Next

\* Every variable keeps its type: a row never holds a status outside the enum,
\* and the log holds events and nothing else.
THEOREM TypeCorrect == Spec => []TypeOK
<1> QED
  BY TypeInit, TypeStep, PTL DEF Spec

(***************************************************************************)
(* The inductive invariant.  ReplayInv and RecordsMirrorEvents speak of    *)
(* the committed database only; what a commit is about to make of it is    *)
(* in WriterInv, without which neither is inductive.                       *)
(***************************************************************************)
IInv == TypeOK /\ WriterInv /\ ReplayInv /\ RecordsMirrorEvents

LEMMA LogTyped ==
    ASSUME TypeOK
    PROVE  /\ db.events \in Seq(Events) /\ db.records \in Seq(Records)
           /\ view.events \in Seq(Events) /\ view.records \in Seq(Records)
           /\ DOMAIN db.events = 1..Len(db.events)
           /\ DOMAIN db.records = 1..Len(db.records)
           /\ Len(db.events) \in Nat /\ Len(db.records) \in Nat
  BY DEF TypeOK, Databases

\* What a call that is about to commit has written.
LEMMA HolderAtCommit ==
    ASSUME TypeOK, WriterInv, NEW a \in Actors, pc[a] = "record"
    PROVE  /\ view.decisions = [db.decisions EXCEPT ![op[a].surface] = RowWritten(a)]
           /\ view.events = Append(db.events, EventBuilt(a))
           /\ view.records = Append(db.records, RecordBuilt(a))
           /\ lock = a
  BY DEF WriterInv, LockInv, Writing, HolderView

\* The row a save or clear writes is what its event says.
LEMMA RowMatchesEvent ==
    ASSUME TypeOK, WriterInv, NEW a \in Actors, Reviewing(a)
    PROVE  /\ RowMatches(RowWritten(a), EventBuilt(a))
           /\ EventBuilt(a).surface = op[a].surface
           /\ EventBuilt(a).id = op[a].id
           /\ EventBuilt(a).decision = op[a].decision
<1>1. /\ op[a].kind = "clear" <=> op[a].decision = Unreviewed
      /\ op[a].kind \in {"save", "clear"}
  BY DEF WriterInv, IdInv, ReviewCall
<1> QED
  BY <1>1 DEF RowWritten, EventBuilt, RowMatches, Reviewed, NoRow

(***************************************************************************)
(* e is d with one more event at the end of its log.                       *)
(***************************************************************************)
EventAdded(d, e, n) ==
    /\ n \in Nat
    /\ DOMAIN d.events = 1..n
    /\ DOMAIN e.events = 1..(n + 1)
    /\ \A i \in 1..n : e.events[i] = d.events[i]

RecordAdded(d, e, m) ==
    /\ m \in Nat
    /\ DOMAIN d.records = 1..m
    /\ DOMAIN e.records = 1..(m + 1)
    /\ \A j \in 1..m : e.records[j] = d.records[j]

(***************************************************************************)
(* The new event is the last one of its surface; for other surfaces the    *)
(* last event stays what it was.                                           *)
(***************************************************************************)
LEMMA LastAfterAppend ==
    ASSUME NEW d, NEW e, NEW n, EventAdded(d, e, n), NEW s, NEW i
    PROVE  LastCommitted(e, s, i) <=>
              IF e.events[n + 1].surface = s THEN i = n + 1
                                             ELSE LastCommitted(d, s, i)
<1> USE DEF EventAdded, LastCommitted
<1>1. CASE e.events[n + 1].surface = s
  BY <1>1
<1>2. CASE e.events[n + 1].surface # s
  <2>1. LastCommitted(e, s, i) => LastCommitted(d, s, i)
    <3> SUFFICES ASSUME LastCommitted(e, s, i) PROVE LastCommitted(d, s, i)
      OBVIOUS
    <3>1. i \in 1..n /\ d.events[i].surface = s
      BY <1>2
    <3>2. ASSUME NEW j \in DOMAIN d.events, d.events[j].surface = s
          PROVE  j <= i
      <4>1. j \in 1..(n + 1) /\ e.events[j].surface = s
        BY <3>2
      <4> QED
        BY <4>1
    <3> QED
      BY <3>1, <3>2
  <2>2. LastCommitted(d, s, i) => LastCommitted(e, s, i)
    <3> SUFFICES ASSUME LastCommitted(d, s, i) PROVE LastCommitted(e, s, i)
      OBVIOUS
    <3>1. i \in 1..(n + 1) /\ e.events[i].surface = s
      OBVIOUS
    <3>2. ASSUME NEW j \in DOMAIN e.events, e.events[j].surface = s
          PROVE  j <= i
      <4>1. j \in 1..n /\ d.events[j].surface = s
        BY <1>2, <3>2
      <4> QED
        BY <4>1
    <3> QED
      BY <3>1, <3>2
  <2> QED
    BY <1>2, <2>1, <2>2
<1> QED
  BY <1>1, <1>2

(***************************************************************************)
(* Replay survives an event that comes with its row.                       *)
(***************************************************************************)
LEMMA ReplayGrows ==
    ASSUME NEW d, NEW e, NEW n, EventAdded(d, e, n), Replay(d),
           NEW t \in Surfaces, e.events[n + 1].surface = t,
           RowMatches(e.decisions[t], e.events[n + 1]),
           \A s \in Surfaces : s # t => e.decisions[s] = d.decisions[s]
    PROVE  Replay(e)
<1>1. ASSUME NEW s \in Surfaces, s # t
      PROVE  \A i : LastCommitted(e, s, i) <=> LastCommitted(d, s, i)
  BY <1>1, LastAfterAppend
<1>2. \A i : LastCommitted(e, t, i) <=> i = n + 1
  BY LastAfterAppend
<1>3. n + 1 \in DOMAIN e.events
  BY DEF EventAdded
<1>4. \A s, i : LastCommitted(d, s, i) =>
         i \in DOMAIN d.events /\ i \in DOMAIN e.events /\ e.events[i] = d.events[i]
  BY DEF LastCommitted, EventAdded
<1>5. ASSUME NEW s \in Surfaces
      PROVE  /\ \A i \in DOMAIN e.events : LastCommitted(e, s, i)
                   => RowMatches(e.decisions[s], e.events[i])
             /\ Reviewed(e.decisions[s]) =>
                   \E i \in DOMAIN e.events : LastCommitted(e, s, i)
  <2>1. CASE s = t
    BY <1>2, <1>3, <2>1
  <2>2. CASE s # t
    BY <1>1, <1>4, <2>2 DEF Replay
  <2> QED
    BY <2>1, <2>2
<1> QED
  BY <1>5 DEF Replay

(***************************************************************************)
(* The mirror survives an event with a fresh id and the record naming it,  *)
(* and it survives a record that is not about a review.                    *)
(***************************************************************************)
LEMMA MirrorGrows ==
    ASSUME NEW d, NEW e, NEW n, NEW m,
           EventAdded(d, e, n), RecordAdded(d, e, m), RecordsMirror(d),
           e.records[m + 1].kind = "review",
           e.records[m + 1].event = e.events[n + 1].id,
           e.records[m + 1].result = e.events[n + 1].decision,
           \A i \in 1..n : d.events[i].id # e.events[n + 1].id
    PROVE  RecordsMirror(e)
<1> USE DEF EventAdded, RecordAdded
<1>0. /\ \A i \in DOMAIN e.events : i # n + 1 =>
            i \in DOMAIN d.events /\ e.events[i] = d.events[i]
      /\ \A j \in DOMAIN e.records : j # m + 1 =>
            j \in DOMAIN d.records /\ e.records[j] = d.records[j]
  OBVIOUS
<1>1. \A j \in 1..m : d.records[j].kind = "review" =>
         d.records[j].event # e.events[n + 1].id
  <2> SUFFICES ASSUME NEW j \in 1..m, d.records[j].kind = "review"
               PROVE  d.records[j].event # e.events[n + 1].id
    OBVIOUS
  <2>1. PICK i \in DOMAIN d.events : d.events[i].id = d.records[j].event
    BY DEF RecordsMirror
  <2> QED
    BY <2>1
<1>2. ASSUME NEW i \in DOMAIN e.events
      PROVE  \E j \in DOMAIN e.records :
                /\ e.records[j].kind = "review"
                /\ e.records[j].event = e.events[i].id
                /\ e.records[j].result = e.events[i].decision
  <2>1. CASE i = n + 1
    <3>1. m + 1 \in DOMAIN e.records
      OBVIOUS
    <3> QED
      BY <2>1, <3>1
  <2>2. CASE i # n + 1
    <3>1. i \in DOMAIN d.events /\ e.events[i] = d.events[i]
      BY <2>2
    <3>2. PICK j \in DOMAIN d.records :
              /\ d.records[j].kind = "review"
              /\ d.records[j].event = d.events[i].id
              /\ d.records[j].result = d.events[i].decision
      BY <3>1 DEF RecordsMirror
    <3>3. j \in DOMAIN e.records /\ e.records[j] = d.records[j]
      OBVIOUS
    <3> QED
      BY <3>1, <3>2, <3>3
  <2> QED
    BY <2>1, <2>2
<1>3. ASSUME NEW j \in DOMAIN e.records, e.records[j].kind = "review"
      PROVE  \E i \in DOMAIN e.events : e.events[i].id = e.records[j].event
  <2>1. CASE j = m + 1
    <3>1. n + 1 \in DOMAIN e.events
      OBVIOUS
    <3> QED
      BY <2>1, <3>1
  <2>2. CASE j # m + 1
    <3>1. j \in DOMAIN d.records /\ e.records[j] = d.records[j]
      BY <1>0, <2>2
    <3>2. PICK i \in DOMAIN d.events : d.events[i].id = d.records[j].event
      BY <1>3, <3>1 DEF RecordsMirror
    <3>3. i \in DOMAIN e.events /\ e.events[i] = d.events[i]
      OBVIOUS
    <3> QED
      BY <3>1, <3>2, <3>3
  <2> QED
    BY <2>1, <2>2
<1>4. ASSUME NEW i \in DOMAIN e.events, NEW j \in DOMAIN e.records,
             e.records[j].kind = "review", e.records[j].event = e.events[i].id
      PROVE  \/ i = n + 1 /\ j = m + 1
             \/ /\ i \in DOMAIN d.events /\ j \in DOMAIN d.records
                /\ d.records[j].kind = "review"
                /\ d.records[j].event = d.events[i].id
  <2>1. CASE j = m + 1
    <3>1. i = n + 1
      BY <1>0, <1>4, <2>1
    <3> QED
      BY <2>1, <3>1
  <2>2. CASE j # m + 1
    <3>1. i # n + 1
      BY <1>0, <1>1, <1>4, <2>2
    <3> QED
      BY <1>0, <1>4, <2>2, <3>1
  <2> QED
    BY <2>1, <2>2
<1>5. ASSUME NEW i1 \in DOMAIN e.events, NEW i2 \in DOMAIN e.events,
             NEW j1 \in DOMAIN e.records, NEW j2 \in DOMAIN e.records,
             e.records[j1].kind = "review", e.records[j2].kind = "review",
             e.records[j1].event = e.events[i1].id,
             e.records[j2].event = e.events[i2].id
      PROVE  i1 < i2 <=> j1 < j2
  <2>1. CASE i1 = n + 1 \/ i2 = n + 1
    BY <1>4, <1>5, <2>1
  <2>2. CASE i1 # n + 1 /\ i2 # n + 1
    <3>1. /\ i1 \in DOMAIN d.events /\ j1 \in DOMAIN d.records
          /\ d.records[j1].kind = "review"
          /\ d.records[j1].event = d.events[i1].id
      BY <1>4, <1>5, <2>2
    <3>2. /\ i2 \in DOMAIN d.events /\ j2 \in DOMAIN d.records
          /\ d.records[j2].kind = "review"
          /\ d.records[j2].event = d.events[i2].id
      BY <1>4, <1>5, <2>2
    <3> QED
      BY <3>1, <3>2 DEF RecordsMirror
  <2> QED
    BY <2>1, <2>2
<1> QED
  BY <1>2, <1>3, <1>5 DEF RecordsMirror

LEMMA MirrorOther ==
    ASSUME NEW d, NEW e, NEW m, RecordAdded(d, e, m), e.events = d.events,
           RecordsMirror(d), e.records[m + 1].kind = "other"
    PROVE  RecordsMirror(e)
<1>1. \A j \in DOMAIN e.records : e.records[j].kind = "review" =>
         j \in DOMAIN d.records /\ e.records[j] = d.records[j]
  BY DEF RecordAdded
<1>2. \A j \in DOMAIN d.records :
         j \in DOMAIN e.records /\ e.records[j] = d.records[j]
  BY DEF RecordAdded
<1>3. ASSUME NEW i \in DOMAIN e.events
      PROVE  \E j \in DOMAIN e.records :
                /\ e.records[j].kind = "review"
                /\ e.records[j].event = e.events[i].id
                /\ e.records[j].result = e.events[i].decision
  BY <1>2 DEF RecordsMirror
<1>4. ASSUME NEW j \in DOMAIN e.records, e.records[j].kind = "review"
      PROVE  \E i \in DOMAIN e.events : e.events[i].id = e.records[j].event
  BY <1>1, <1>4 DEF RecordsMirror
<1>5. ASSUME NEW i1 \in DOMAIN e.events, NEW i2 \in DOMAIN e.events,
             NEW j1 \in DOMAIN e.records, NEW j2 \in DOMAIN e.records,
             e.records[j1].kind = "review", e.records[j2].kind = "review",
             e.records[j1].event = e.events[i1].id,
             e.records[j2].event = e.events[i2].id
      PROVE  i1 < i2 <=> j1 < j2
  BY <1>1, <1>5 DEF RecordsMirror
<1> QED
  BY <1>3, <1>4, <1>5 DEF RecordsMirror

(***************************************************************************)
(* The database a commit publishes, compared with the one it replaces.     *)
(***************************************************************************)
LEMMA CommitGrows ==
    ASSUME TypeOK, WriterInv, NEW a \in Actors, pc[a] = "record"
    PROVE  LET n == Len(db.events)
               m == Len(db.records)
           IN  /\ EventAdded(db, view, n)
               /\ view.events[n + 1] = EventBuilt(a)
               /\ RecordAdded(db, view, m)
               /\ view.records[m + 1] = RecordBuilt(a)
               /\ \A i \in 1..n : db.events[i].id # op[a].id
<1> DEFINE n == Len(db.events)
           m == Len(db.records)
<1>1. /\ view.events = Append(db.events, EventBuilt(a))
      /\ view.records = Append(db.records, RecordBuilt(a))
  BY HolderAtCommit
<1>2. /\ db.events \in Seq(Events) /\ EventBuilt(a) \in Events
      /\ db.records \in Seq(Records) /\ RecordBuilt(a) \in Records
  BY EventTyped, RecordTyped, LogTyped
<1>3. EventAdded(db, view, n) /\ view.events[n + 1] = EventBuilt(a)
  BY <1>1, <1>2, AppendFacts DEF EventAdded
<1>4. RecordAdded(db, view, m) /\ view.records[m + 1] = RecordBuilt(a)
  BY <1>1, <1>2, AppendFacts DEF RecordAdded
<1>5. \A i \in 1..n : db.events[i].id # op[a].id
  BY LogTyped DEF WriterInv, IdInv, ReviewCall, Reviewing, Writing
<1> QED
  BY <1>3, <1>4, <1>5

(***************************************************************************)
(* Initially and after every step: the parts of WriterInv.                 *)
(***************************************************************************)
LEMMA WriterInit == Init => WriterInv
  BY StoreAssumption
  DEF Init, WriterInv, LockInv, IdInv, Writing, Reviewing

LEMMA LockStep ==
    ASSUME TypeOK, WriterInv, [Next]_vars
    PROVE  LockInv'
<1> USE StoreAssumption DEF TypeOK, WriterInv, LockInv, Writing
<1>1. CASE UNCHANGED vars
  BY <1>1 DEF vars, HolderView, EventBuilt, RecordBuilt, RowWritten
<1>2. CASE Tick
  BY <1>2 DEF Tick, HolderView, EventBuilt, RecordBuilt, RowWritten
<1>3. ASSUME NEW a \in Actors, ActorNext(a)
      PROVE  LockInv'
  <2>1. ASSUME NEW kind, NEW s, NEW found, NEW d,
               NEW next \in {"stamped", "candidates"},
               Begin(a, kind, s, found, d, next)
        PROVE  LockInv'
    BY <2>1 DEF Begin, Idle, HolderView, EventBuilt, RecordBuilt, RowWritten
  <2>2. CASE BeginSave(a) \/ BeginClear(a) \/ BeginSync(a)
    BY <2>1, <2>2 DEF BeginSave, BeginClear, BeginSync
  <2>3. CASE ReadRow(a)
    BY <2>3 DEF ReadRow, Return, HolderView, EventBuilt, RecordBuilt, RowWritten
  <2>4. CASE WriteRow(a)
    <3>1. \A b \in Actors : ~Writing(b)
      BY <2>4 DEF WriteRow
    <3>2. HolderView(a)'
      BY <2>4 DEF WriteRow, HolderView, RowWritten, Databases
    <3> QED
      BY <2>4, <3>1, <3>2 DEF WriteRow
  <2>5. CASE WriteEvent(a)
    <3>1. HolderView(a)'
      BY <2>5 DEF WriteEvent, HolderView, RowWritten, EventBuilt, Databases
    <3> QED
      BY <2>5, <3>1 DEF WriteEvent
  <2>6. CASE WriteRecord(a)
    <3>1. HolderView(a)'
      BY <2>6 DEF WriteRecord, HolderView, RowWritten, EventBuilt, RecordBuilt,
                  Databases
    <3> QED
      BY <2>6, <3>1 DEF WriteRecord
  <2>7. CASE Commit(a)
    BY <2>7 DEF Commit, Return
  <2>8. CASE StoreCandidates(a)
    BY <2>8 DEF StoreCandidates, CommitAtOnce
  <2>9. CASE StoreEvidence(a)
    BY <2>9 DEF StoreEvidence, CommitAtOnce, Return
  <2>10. CASE AppendRecord(a)
    BY <2>10 DEF AppendRecord, CommitAtOnce
  <2>11. CASE LockTimeout(a)
    BY <2>11 DEF LockTimeout, Return, HolderView, EventBuilt, RecordBuilt, RowWritten
  <2>12. CASE Fail(a)
    <3>1. CASE lock = a
      BY <2>12, <3>1 DEF Fail, Return
    <3>2. CASE lock # a
      BY <2>12, <3>2 DEF Fail, Return, HolderView, EventBuilt, RecordBuilt, RowWritten
    <3> QED
      BY <3>1, <3>2
  <2> QED
    BY <1>3, <2>2, <2>3, <2>4, <2>5, <2>6, <2>7, <2>8, <2>9, <2>10, <2>11,
       <2>12 DEF ActorNext, Step
<1> QED
  BY <1>1, <1>2, <1>3 DEF Next

LEMMA IdStep ==
    ASSUME TypeOK, WriterInv, [Next]_vars
    PROVE  IdInv'
<1> USE DEF TypeOK, WriterInv, IdInv, Reviewing, Writing, ReviewCall
<1>1. CASE UNCHANGED vars
  BY <1>1 DEF vars
<1>2. CASE Tick
  BY <1>2 DEF Tick
<1>3. ASSUME NEW a \in Actors, ActorNext(a)
      PROVE  IdInv'
  <2>1. ASSUME NEW kind, NEW s, NEW found, NEW d,
               NEW next \in {"stamped", "candidates"},
               next = "stamped" => /\ kind \in {"save", "clear"}
                                   /\ kind = "clear" <=> d = Unreviewed,
               Begin(a, kind, s, found, d, next)
        PROVE  IdInv'
    <3>1. /\ ops' = ops + 1 /\ ops \in Nat /\ db' = db
          /\ \A b \in Actors : b # a => op'[b] = op[b] /\ pc'[b] = pc[b]
          /\ op'[a].id = ops + 1 /\ op'[a].kind = kind /\ op'[a].decision = d
          /\ pc'[a] = next
      BY <2>1 DEF Begin
    <3>2. \A b \in Actors : Reviewing(b)' => ReviewCall(b)'
      BY <2>1, <3>1
    <3>3. \A b \in Actors : Reviewing(b) => op[b].id < ops + 1
      BY <3>1
    <3>4. \A b, c \in Actors :
             Reviewing(b)' /\ Reviewing(c)' /\ b # c => op'[b].id # op'[c].id
      BY <3>1, <3>3
    <3> QED
      BY <3>1, <3>2, <3>4
  <2>2. CASE BeginSave(a)
    BY <2>1, <2>2 DEF BeginSave
  <2>3. CASE BeginClear(a)
    BY <2>1, <2>3 DEF BeginClear
  <2>4. CASE BeginSync(a)
    BY <2>1, <2>4 DEF BeginSync
  <2>5. CASE ReadRow(a)
    <3>1. CASE op' = [op EXCEPT ![a].seen = db.decisions[op[a].surface]]
               /\ pc' = [pc EXCEPT ![a] = "read"]
      <4>1. \A b \in Actors : /\ op'[b].id = op[b].id /\ op'[b].kind = op[b].kind
                              /\ op'[b].decision = op[b].decision
                              /\ Reviewing(b)' <=> Reviewing(b)
        BY <2>5, <3>1 DEF ReadRow, Calls
      <4> QED
        BY <2>5, <4>1 DEF ReadRow
    <3>2. CASE Return(a)
      BY <2>5, <3>2 DEF ReadRow, Return
    <3> QED
      BY <2>5, <3>1, <3>2 DEF ReadRow
  <2>6. CASE WriteRow(a) \/ WriteEvent(a) \/ WriteRecord(a)
    BY <2>6 DEF WriteRow, WriteEvent, WriteRecord
  <2>7. CASE Commit(a)
    <3> DEFINE n == Len(db.events)
    <3>1. pc[a] = "record" /\ db' = view /\ Return(a) /\ ops' = ops
      BY <2>7 DEF Commit
    <3>2. EventAdded(db, view, n) /\ view.events[n + 1] = EventBuilt(a)
      BY <3>1, CommitGrows
    <3>3. EventBuilt(a).id = op[a].id
      BY DEF EventBuilt
    <3>4. \A i \in 1..n : db.events[i].id \in 1..ops /\ db.events[i].id # op[a].id
      BY <3>1, <3>2 DEF EventAdded
    <3>5. /\ DOMAIN db'.events = 1..(n + 1) /\ n \in Nat
          /\ \A i \in 1..n : db'.events[i] = db.events[i]
          /\ db'.events[n + 1].id = op[a].id
      BY <3>1, <3>2, <3>3 DEF EventAdded
    <3>6. \A i, j \in DOMAIN db'.events :
             /\ db'.events[i].id \in 1..ops'
             /\ i # j => db'.events[i].id # db'.events[j].id
      <4>1. op[a].id \in 1..ops
        BY <3>1
      <4> HIDE DEF TypeOK, WriterInv, IdInv, Reviewing, Writing, ReviewCall, n
      <4> SUFFICES ASSUME NEW i \in 1..(n + 1), NEW j \in 1..(n + 1)
                   PROVE  /\ db'.events[i].id \in 1..ops'
                          /\ i # j => db'.events[i].id # db'.events[j].id
        BY <3>5
      <4>2. \A k \in 1..(n + 1) :
               IF k = n + 1 THEN db'.events[k].id = op[a].id
               ELSE k \in 1..n /\ db'.events[k] = db.events[k]
        BY <3>5
      <4>3. i # n + 1 /\ j # n + 1 /\ i # j => db.events[i].id # db.events[j].id
        BY <3>2, <3>5, <4>2 DEF EventAdded, WriterInv, IdInv
      <4> QED
        BY <3>1, <3>4, <4>1, <4>2, <4>3
    <3>7. \A b \in Actors : Reviewing(b)' =>
             b # a /\ Reviewing(b) /\ op'[b] = op[b] /\ op[b].id # op[a].id
      BY <3>1 DEF Return
    <3>8. \A b \in Actors : Reviewing(b)' =>
             \A i \in DOMAIN db'.events : db'.events[i].id # op[b].id
      BY <3>2, <3>5, <3>7 DEF EventAdded
    <3> QED
      BY <3>1, <3>6, <3>7, <3>8
  <2>8. CASE StoreCandidates(a) \/ StoreEvidence(a) \/ AppendRecord(a)
    <3>1. db'.events = db.events
      BY <2>8 DEF StoreCandidates, StoreEvidence, AppendRecord, CommitAtOnce, Databases
    <3>2. ops' \in Nat /\ ops <= ops'
      BY <2>8 DEF StoreCandidates, StoreEvidence, AppendRecord
    <3>3. \A b \in Actors : Reviewing(b)' => Reviewing(b) /\ op'[b] = op[b]
      BY <2>8 DEF StoreCandidates, StoreEvidence, AppendRecord, Return
    <3>4. \A i : i \in 1..ops => i \in 1..ops'
      BY <3>2
    <3> QED
      BY <3>1, <3>3, <3>4
  <2>9. CASE LockTimeout(a) \/ Fail(a)
    BY <2>9 DEF LockTimeout, Fail, Return
  <2> QED
    BY <1>3, <2>2, <2>3, <2>4, <2>5, <2>6, <2>7, <2>8, <2>9 DEF ActorNext, Step
<1> QED
  BY <1>1, <1>2, <1>3 DEF Next

(***************************************************************************)
(* The review tables change only when a review commits; the provenance     *)
(* log also grows by records of other kinds.                               *)
(***************************************************************************)
LEMMA OnlyCommitsChangeLog ==
    ASSUME TypeOK, WriterInv, [Next]_vars
    PROVE  \/ \E a \in Actors : Commit(a) /\ db' = view /\ pc[a] = "record"
           \/ /\ db'.decisions = db.decisions
              /\ db'.events = db.events
              /\ \/ db'.records = db.records
                 \/ \E r \in Records : r.kind = "other"
                                       /\ db'.records = Append(db.records, r)
<1> USE DEF TypeOK, Databases
<1>1. CASE UNCHANGED vars
  BY <1>1 DEF vars
<1>2. CASE Tick
  BY <1>2 DEF Tick
<1>3. ASSUME NEW a \in Actors, ActorNext(a)
      PROVE  \/ Commit(a) /\ db' = view /\ pc[a] = "record"
             \/ /\ db'.decisions = db.decisions
                /\ db'.events = db.events
                /\ \/ db'.records = db.records
                   \/ \E r \in Records : r.kind = "other"
                                         /\ db'.records = Append(db.records, r)
  <2>1. CASE BeginSave(a) \/ BeginClear(a) \/ BeginSync(a)
    BY <2>1 DEF BeginSave, BeginClear, BeginSync, Begin
  <2>2. CASE ReadRow(a) \/ WriteRow(a) \/ WriteEvent(a) \/ WriteRecord(a)
    BY <2>2 DEF ReadRow, WriteRow, WriteEvent, WriteRecord
  <2>3. CASE Commit(a)
    BY <2>3 DEF Commit
  <2>4. CASE StoreCandidates(a) \/ StoreEvidence(a)
    BY <2>4 DEF StoreCandidates, StoreEvidence, CommitAtOnce
  <2>5. CASE AppendRecord(a)
    <3> DEFINE r == [kind |-> "other", event |-> 0, result |-> Unreviewed]
    <3>1. r \in Records /\ r.kind = "other"
      BY DEF Records, Status
    <3>2. db'.records = Append(db.records, r)
      BY <2>5 DEF AppendRecord, CommitAtOnce
    <3>3. db'.decisions = db.decisions /\ db'.events = db.events
      BY <2>5 DEF AppendRecord, CommitAtOnce
    <3> QED
      BY <3>1, <3>2, <3>3
  <2>6. CASE LockTimeout(a) \/ Fail(a)
    BY <2>6 DEF LockTimeout, Fail
  <2> QED
    BY <1>3, <2>1, <2>2, <2>3, <2>4, <2>5, <2>6 DEF ActorNext, Step
<1> QED
  BY <1>1, <1>2, <1>3 DEF Next

LEMMA ReplayStep ==
    ASSUME IInv, [Next]_vars
    PROVE  ReplayInv'
<1>1. TypeOK /\ WriterInv /\ Replay(db)
  BY DEF IInv, ReplayInv
<1>2. ASSUME NEW a \in Actors, db' = view, pc[a] = "record"
      PROVE  Replay(db')
  <2> DEFINE n == Len(db.events)
             t == op[a].surface
  <2>1. EventAdded(db, view, n) /\ view.events[n + 1] = EventBuilt(a)
    BY <1>1, <1>2, CommitGrows
  <2>2. /\ t \in Surfaces
        /\ RowMatches(RowWritten(a), EventBuilt(a))
        /\ EventBuilt(a).surface = t
    BY <1>1, <1>2, RowMatchesEvent DEF Reviewing, Writing, TypeOK, Calls
  <2>3. /\ view.decisions[t] = RowWritten(a)
        /\ \A s \in Surfaces : s # t => view.decisions[s] = db.decisions[s]
    BY <1>1, <1>2, <2>2, HolderAtCommit DEF TypeOK, Databases
  <2>4. Replay(view)
    BY <1>1, <2>1, <2>2, <2>3, ReplayGrows
  <2> QED
    BY <1>2, <2>4
<1>3. ASSUME db'.decisions = db.decisions, db'.events = db.events
      PROVE  Replay(db')
  BY <1>1, <1>3 DEF Replay, LastCommitted
<1> QED
  BY <1>1, <1>2, <1>3, OnlyCommitsChangeLog DEF ReplayInv

LEMMA MirrorStep ==
    ASSUME IInv, [Next]_vars
    PROVE  RecordsMirrorEvents'
<1>1. TypeOK /\ WriterInv /\ RecordsMirror(db)
  BY DEF IInv, RecordsMirrorEvents
<1>2. ASSUME NEW a \in Actors, db' = view, pc[a] = "record"
      PROVE  RecordsMirror(db')
  <2> DEFINE n == Len(db.events)
             m == Len(db.records)
  <2>1. /\ EventAdded(db, view, n) /\ view.events[n + 1] = EventBuilt(a)
        /\ RecordAdded(db, view, m) /\ view.records[m + 1] = RecordBuilt(a)
        /\ \A i \in 1..n : db.events[i].id # op[a].id
    BY <1>1, <1>2, CommitGrows
  <2>2. /\ EventBuilt(a).id = op[a].id
        /\ RecordBuilt(a).kind = "review"
        /\ RecordBuilt(a).event = EventBuilt(a).id
        /\ RecordBuilt(a).result = EventBuilt(a).decision
    BY DEF EventBuilt, RecordBuilt
  <2>3. RecordsMirror(view)
    BY <1>1, <2>1, <2>2, MirrorGrows
  <2> QED
    BY <1>2, <2>3
<1>3. ASSUME db'.events = db.events, db'.records = db.records
      PROVE  RecordsMirror(db')
  BY <1>1, <1>3 DEF RecordsMirror
<1>4. ASSUME NEW r \in Records, r.kind = "other",
             db'.events = db.events, db'.records = Append(db.records, r)
      PROVE  RecordsMirror(db')
  <2> DEFINE m == Len(db.records)
  <2>1. RecordAdded(db, db', m) /\ db'.records[m + 1] = r
    BY <1>1, <1>4, LogTyped, AppendFacts DEF RecordAdded
  <2> QED
    BY <1>1, <1>4, <2>1, MirrorOther
<1> QED
  BY <1>1, <1>2, <1>3, <1>4, OnlyCommitsChangeLog DEF RecordsMirrorEvents

LEMMA IInvInit == Init => IInv
<1>1. Init => ReplayInv /\ RecordsMirrorEvents
  BY DEF Init, ReplayInv, Replay, LastCommitted, Reviewed, NoRow,
         RecordsMirrorEvents, RecordsMirror
<1> QED
  BY <1>1, TypeInit, WriterInit DEF IInv

LEMMA IInvStep == IInv /\ [Next]_vars => IInv'
<1> SUFFICES ASSUME IInv, [Next]_vars PROVE IInv'
  OBVIOUS
<1>1. TypeOK /\ WriterInv
  BY DEF IInv
<1>2. TypeOK'
  BY <1>1, TypeStep
<1>3. WriterInv'
  BY <1>1, LockStep, IdStep DEF WriterInv
<1> QED
  BY <1>2, <1>3, ReplayStep, MirrorStep DEF IInv

THEOREM Invariance == Spec => []IInv
  BY IInvInit, IInvStep, PTL DEF Spec

\* Transactions are isolated and ids are never reused, for any number of actors.
THEOREM WritersIsolated == Spec => []WriterInv
<1>1. IInv => WriterInv
  BY DEF IInv
<1> QED
  BY <1>1, Invariance, PTL

\* The current review state is the replay of the committed event log.
THEOREM ReplayCorrect == Spec => []ReplayInv
<1>1. IInv => ReplayInv
  BY DEF IInv
<1> QED
  BY <1>1, Invariance, PTL

\* The provenance log and the review log tell the same story.
THEOREM MirrorCorrect == Spec => []RecordsMirrorEvents
<1>1. IInv => RecordsMirrorEvents
  BY DEF IInv
<1> QED
  BY <1>1, Invariance, PTL

(***************************************************************************)
(* The store implements the decision log.                                  *)
(***************************************************************************)
LogOf(d) == [i \in DOMAIN d.events |->
                [surface |-> d.events[i].surface,
                 decision |-> d.events[i].decision]]

CurrentOf(d) == [s \in Surfaces |-> d.decisions[s].decision]

LEMMA LogInit == Init => Log!Init
<1> SUFFICES ASSUME Init PROVE Log!Init
  OBVIOUS
<1>1. CurrentOf(db) = [s \in Surfaces |-> Unreviewed]
  BY DEF Init, CurrentOf, NoRow
<1>2. LogOf(db) = <<>>
  BY DEF Init, LogOf
<1> QED
  BY <1>1, <1>2 DEF Log!Init, CurrentOf, LogOf

LEMMA LogStep ==
    ASSUME IInv, [Next]_vars
    PROVE  Log!Next \/ (LogOf(db') = LogOf(db) /\ CurrentOf(db') = CurrentOf(db))
<1>1. TypeOK /\ WriterInv
  BY DEF IInv
<1>2. ASSUME NEW a \in Actors, db' = view, pc[a] = "record"
      PROVE  Log!Next
  <2> DEFINE n == Len(db.events)
             t == op[a].surface
             d == op[a].decision
             entry == [surface |-> t, decision |-> d]
  <2>1. t \in Surfaces /\ d \in Decisions \cup {Unreviewed}
    BY <1>1 DEF TypeOK, Calls, Status
  <2>2. /\ n \in Nat /\ DOMAIN db.events = 1..n
        /\ DOMAIN db'.events = 1..(n + 1)
        /\ \A i \in 1..n : db'.events[i] = db.events[i]
        /\ db'.events[n + 1].surface = t
        /\ db'.events[n + 1].decision = d
    <3>1. EventAdded(db, view, n) /\ view.events[n + 1] = EventBuilt(a)
      BY <1>1, <1>2, CommitGrows
    <3> QED
      BY <1>2, <3>1 DEF EventAdded, EventBuilt
  <2>3. LogOf(db') = Append(LogOf(db), entry)
    <3>1. LogOf(db) \in Seq([surface : Surfaces, decision : Status])
      <4>1. \A i \in 1..n : db.events[i] \in Events
        BY <1>1, <2>2, LogTyped
      <4>2. \A i \in 1..n : [surface |-> db.events[i].surface,
                             decision |-> db.events[i].decision]
                               \in [surface : Surfaces, decision : Status]
        BY <4>1 DEF Events
      <4>3. LogOf(db) \in [1..n -> [surface : Surfaces, decision : Status]]
        BY <2>2, <4>2 DEF LogOf
      <4> QED
        BY <2>2, <4>3, SeqDef
    <3>2. entry \in [surface : Surfaces, decision : Status]
      BY <2>1 DEF Status
    <3>3. Len(LogOf(db)) = n
      BY <2>2 DEF LogOf
    <3>4. /\ DOMAIN Append(LogOf(db), entry) = 1..(n + 1)
          /\ \A i \in 1..n : Append(LogOf(db), entry)[i] = LogOf(db)[i]
          /\ Append(LogOf(db), entry)[n + 1] = entry
      BY <3>1, <3>2, <3>3, AppendFacts
    <3>5. Append(LogOf(db), entry) = [i \in 1..(n + 1) |-> Append(LogOf(db), entry)[i]]
      BY <3>1, <3>2, <3>4, AppendFacts
    <3>6. ASSUME NEW i \in 1..(n + 1)
          PROVE  LogOf(db')[i] = Append(LogOf(db), entry)[i]
      <4>1. CASE i = n + 1
        BY <2>2, <3>4, <4>1 DEF LogOf
      <4>2. CASE i # n + 1
        <5>1. i \in 1..n
          BY <2>2, <4>2
        <5> QED
          BY <2>2, <3>4, <5>1 DEF LogOf
      <4> QED
        BY <4>1, <4>2
    <3> QED
      BY <2>2, <3>5, <3>6 DEF LogOf
  <2>4. CurrentOf(db') = [CurrentOf(db) EXCEPT ![t] = d]
    <3>1. RowWritten(a).decision = d
      BY <1>1, <1>2, RowMatchesEvent DEF RowMatches, Reviewing, Writing, EventBuilt
    <3>2. db'.decisions = [db.decisions EXCEPT ![t] = RowWritten(a)]
      BY <1>1, <1>2, HolderAtCommit
    <3> QED
      BY <1>1, <2>1, <3>1, <3>2 DEF CurrentOf, TypeOK, Databases
  <2> QED
    BY <2>1, <2>3, <2>4 DEF Log!Next, Log!Decide, LogOf, CurrentOf
<1>3. ASSUME db'.decisions = db.decisions, db'.events = db.events
      PROVE  LogOf(db') = LogOf(db) /\ CurrentOf(db') = CurrentOf(db)
  BY <1>3 DEF LogOf, CurrentOf
<1> QED
  BY <1>1, <1>2, <1>3, OnlyCommitsChangeLog

\* Seen through its event log and its rows, the store is a decision log: every
\* step is one decision or none.
THEOREM Refinement == Spec => ImplementsDecisionLog
<1>1. IInv /\ [Next]_vars => [Log!Next]_<<CurrentOf(db), LogOf(db)>>
  BY LogStep
<1>2. IInv /\ [Next]_vars =>
         [Log!Next]_<<[s \in Surfaces |-> db.decisions[s].decision],
                      [i \in DOMAIN db.events |->
                          [surface |-> db.events[i].surface,
                           decision |-> db.events[i].decision]]>>
  BY <1>1 DEF CurrentOf, LogOf
<1> QED
  BY <1>2, LogInit, Invariance, PTL DEF Spec, ImplementsDecisionLog, Log!Spec

-----------------------------------------------------------------------------
(***************************************************************************)
(* Timestamps.  A call is stamped when it begins, so it is not stamped     *)
(* before the events that were there by then; it may be stamped before     *)
(* those that are committed while it is under way.                         *)
(***************************************************************************)

Chronological ==
    /\ \A i \in DOMAIN db.events : db.events[i].stamp <= clock /\ db.events[i].since < i
    /\ \A i, j \in DOMAIN db.events :
          i <= db.events[j].since => db.events[i].stamp <= db.events[j].stamp
    /\ \A a \in Actors : Reviewing(a) =>
          /\ op[a].now <= clock
          /\ op[a].since <= Len(db.events)
          /\ \A i \in DOMAIN db.events : i <= op[a].since => db.events[i].stamp <= op[a].now

TimeInv == IInv /\ Chronological

LEMMA TimeInit == Init => TimeInv
<1>1. Init => Chronological
  BY DEF Init, Idle, Chronological, Reviewing, Writing
<1> QED
  BY <1>1, IInvInit DEF TimeInv

\* A call that is under way after a step was so before, or it has just begun.
LEMMA CallGoesOn ==
    ASSUME TypeOK, [Next]_vars, NEW b \in Actors, Reviewing(b)'
    PROVE  \/ Reviewing(b) /\ op'[b].now = op[b].now /\ op'[b].since = op[b].since
           \/ op'[b].now = clock /\ clock' = clock /\ op'[b].since = Len(db.events) /\ db' = db
<1> USE DEF Reviewing, Writing
<1> DEFINE Goes == \/ Reviewing(b) /\ op'[b].now = op[b].now /\ op'[b].since = op[b].since
                   \/ /\ op'[b].now = clock /\ clock' = clock
                      /\ op'[b].since = Len(db.events) /\ db' = db
<1>1. CASE UNCHANGED vars
  BY <1>1 DEF vars
<1>2. CASE Tick
  BY <1>2 DEF Tick
<1>3. ASSUME NEW a \in Actors, ActorNext(a)
      PROVE  Goes
  <2>1. CASE BeginSave(a) \/ BeginClear(a) \/ BeginSync(a)
    BY <2>1 DEF BeginSave, BeginClear, BeginSync, Begin, TypeOK
  <2>2. CASE ReadRow(a)
    <3>1. op \in [Actors -> Calls] /\ op[b] \in Calls
      BY DEF TypeOK
    <3>2. CASE b # a
      BY <2>2, <3>2 DEF ReadRow, Return, TypeOK
    <3>3. CASE b = a
      BY <2>2, <3>1, <3>3 DEF ReadRow, Return, TypeOK, Calls
    <3> QED
      BY <3>2, <3>3
  <2>3. CASE WriteRow(a) \/ WriteEvent(a) \/ WriteRecord(a)
    BY <2>3 DEF WriteRow, WriteEvent, WriteRecord, TypeOK
  <2>4. CASE Commit(a) \/ LockTimeout(a) \/ Fail(a)
    BY <2>4 DEF Commit, LockTimeout, Fail, Return, TypeOK
  <2>5. CASE StoreCandidates(a) \/ StoreEvidence(a) \/ AppendRecord(a)
    BY <2>5 DEF StoreCandidates, StoreEvidence, AppendRecord, Return, TypeOK
  <2> QED
    BY <1>3, <2>1, <2>2, <2>3, <2>4, <2>5 DEF ActorNext, Step
<1> QED
  BY <1>1, <1>2, <1>3 DEF Next

LEMMA ChronologicalStep ==
    ASSUME TimeInv, [Next]_vars
    PROVE  Chronological'
<1>1. TypeOK /\ WriterInv /\ Chronological
  BY DEF TimeInv, IInv
<1>2. /\ \A i \in DOMAIN db.events :
            i \in Nat /\ db.events[i].stamp \in Nat /\ db.events[i].since \in Nat
      /\ \A a \in Actors : op[a].now \in Nat /\ op[a].since \in Nat
      /\ clock \in Nat
  <2>1. \A i \in DOMAIN db.events : i \in Nat /\ db.events[i] \in Events
    BY <1>1, LogTyped
  <2> QED
    BY <1>1, <2>1 DEF TypeOK, Calls, Events
<1>3. clock' \in Nat /\ clock <= clock'
  <2>1. clock' = clock \/ clock' = clock + 1
    BY DEF Next, Tick, ActorNext, Step, BeginSave, BeginClear, BeginSync,
         Begin, ReadRow, WriteRow, WriteEvent, WriteRecord, Commit,
         StoreCandidates, StoreEvidence, AppendRecord, LockTimeout, Fail, vars
  <2> QED
    BY <1>2, <2>1
<1>4. \A b \in Actors : Reviewing(b)' =>
          \/ Reviewing(b) /\ op'[b].now = op[b].now /\ op'[b].since = op[b].since
          \/ op'[b].now = clock /\ clock' = clock /\ op'[b].since = Len(db.events) /\ db' = db
  BY <1>1, CallGoesOn
<1>5. ASSUME NEW a \in Actors, Commit(a), db' = view, pc[a] = "record"
      PROVE  Chronological'
  <2> DEFINE n == Len(db.events)
  <2>1. /\ n \in Nat /\ DOMAIN db.events = 1..n
        /\ DOMAIN db'.events = 1..(n + 1) /\ Len(db'.events) = n + 1
        /\ \A i \in 1..n : db'.events[i] = db.events[i]
        /\ db'.events[n + 1].stamp = op[a].now
        /\ db'.events[n + 1].since = op[a].since
    <3>1. EventAdded(db, view, n) /\ view.events[n + 1] = EventBuilt(a)
      BY <1>1, <1>5, CommitGrows
    <3> QED
      BY <1>5, <3>1 DEF EventAdded, EventBuilt
  <2>2. /\ op[a].now <= clock /\ op[a].since <= n
        /\ \A i \in 1..n : i <= op[a].since => db.events[i].stamp <= op[a].now
    BY <1>1, <1>5, <2>1 DEF Chronological, Reviewing, Writing
  <2>3. /\ \A i \in 1..n : db.events[i].stamp <= clock /\ db.events[i].since < i
        /\ \A i, j \in 1..n :
              i <= db.events[j].since => db.events[i].stamp <= db.events[j].stamp
    BY <1>1, <2>1 DEF Chronological
  <2>4. clock' = clock
    BY <1>5 DEF Commit
  <2>5. \A b \in Actors : Reviewing(b)' =>
            Reviewing(b) /\ op'[b].now = op[b].now /\ op'[b].since = op[b].since
    <3>1. db' # db
      BY <2>1
    <3> QED
      BY <1>4, <3>1
  <2> HIDE DEF n
  <2>6. \A i \in DOMAIN db'.events :
            db'.events[i].stamp <= clock' /\ db'.events[i].since < i
    <3> SUFFICES ASSUME NEW i \in 1..(n + 1)
                 PROVE  db'.events[i].stamp <= clock' /\ db'.events[i].since < i
      BY <2>1
    <3>1. CASE i \in 1..n
      BY <2>1, <2>3, <2>4, <3>1
    <3>2. CASE i = n + 1
      <4>1. op[a].since \in Nat /\ op[a].since <= n /\ n \in Nat
        BY <1>2, <2>1, <2>2
      <4> QED BY <2>1, <2>2, <2>4, <3>2, <4>1
    <3> QED BY <2>1, <3>1, <3>2
  <2>7. ASSUME NEW i \in DOMAIN db'.events, NEW j \in DOMAIN db'.events,
               i <= db'.events[j].since
        PROVE  db'.events[i].stamp <= db'.events[j].stamp
    <3>1. CASE j \in 1..n
      <4>1. db'.events[j] = db.events[j] /\ db.events[j].since < j /\ db.events[j].since \in Nat
        BY <1>2, <2>1, <2>3, <3>1
      <4>2. i \in 1..n
        BY <2>1, <2>7, <3>1, <4>1
      <4> QED BY <2>1, <2>3, <2>7, <3>1, <4>1, <4>2
    <3>2. CASE j = n + 1
      <4>1. i \in 1..n /\ i <= op[a].since
        BY <1>2, <2>1, <2>2, <2>7, <3>2
      <4> QED BY <2>1, <2>2, <3>2, <4>1
    <3> QED BY <2>1, <2>7, <3>1, <3>2
  <2>8. ASSUME NEW b \in Actors, Reviewing(b)'
        PROVE  /\ op'[b].now <= clock' /\ op'[b].since <= Len(db'.events)
               /\ \A i \in DOMAIN db'.events :
                     i <= op'[b].since => db'.events[i].stamp <= op'[b].now
    <3>1. /\ op'[b].now = op[b].now /\ op'[b].since = op[b].since
          /\ op[b].now <= clock /\ op[b].since <= n
          /\ \A i \in 1..n : i <= op[b].since => db.events[i].stamp <= op[b].now
      BY <1>1, <2>1, <2>5, <2>8 DEF Chronological, n
    <3>2. op[b].since \in Nat /\ n \in Nat
      BY <1>2, <2>1
    <3>3. ASSUME NEW i \in 1..(n + 1), i <= op[b].since
          PROVE  db'.events[i].stamp <= op[b].now
      <4>1. i \in 1..n
        BY <3>1, <3>2, <3>3
      <4> QED BY <2>1, <3>1, <3>3, <4>1
    <3>4. op[b].since <= n + 1
      BY <3>1, <3>2
    <3> QED BY <2>1, <2>4, <3>1, <3>3, <3>4
  <2> QED
    BY <2>6, <2>7, <2>8 DEF Chronological
<1>6. ASSUME db'.events = db.events
      PROVE  Chronological'
  <2>1. \A i \in DOMAIN db.events : db.events[i].stamp <= clock'
    BY <1>1, <1>2, <1>3 DEF Chronological
  <2>2. ASSUME NEW b \in Actors, Reviewing(b)'
        PROVE  /\ op'[b].now <= clock' /\ op'[b].since <= Len(db.events)
               /\ \A i \in DOMAIN db.events :
                     i <= op'[b].since => db.events[i].stamp <= op'[b].now
    <3>1. CASE Reviewing(b) /\ op'[b].now = op[b].now /\ op'[b].since = op[b].since
      BY <1>1, <1>2, <1>3, <3>1 DEF Chronological
    <3>2. CASE op'[b].now = clock /\ clock' = clock /\ op'[b].since = Len(db.events)
      <4>1. Len(db.events) \in Nat
        BY <1>1 DEF TypeOK, Databases
      <4> QED BY <1>1, <1>2, <3>2, <4>1 DEF Chronological
    <3> QED BY <1>4, <2>2, <3>1, <3>2
  <2> QED BY <1>1, <1>6, <2>1, <2>2 DEF Chronological
<1> QED
  BY <1>1, <1>5, <1>6, OnlyCommitsChangeLog

LEMMA TimeStep == TimeInv /\ [Next]_vars => TimeInv'
BY IInvStep, ChronologicalStep DEF TimeInv

\* What is committed after the latest listed event was under way by then.
LEMMA LatestIsCurrent == TimeInv => LatestEventIsCurrent
<1> SUFFICES ASSUME TimeInv, NEW s \in Surfaces, NEW i \in DOMAIN db.events,
                    LatestListed(db, s, i)
             PROVE  LET later == {n \in DOMAIN db.events : db.events[n].surface = s /\ i < n}
                    IN  /\ later = {} => RowMatches(db.decisions[s], db.events[i])
                        /\ \A n \in later : Overlapped(db, n, i)
  BY DEF LatestEventIsCurrent
<1>1. TypeOK /\ Replay(db) /\ Chronological
  BY DEF TimeInv, IInv, ReplayInv
<1>2. \A j \in DOMAIN db.events :
          j \in Nat /\ db.events[j].stamp \in Nat /\ db.events[j].since \in Nat
  <2>1. \A j \in DOMAIN db.events : j \in Nat /\ db.events[j] \in Events
    BY <1>1, LogTyped
  <2> QED
    BY <2>1 DEF Events
<1>3. ASSUME \A n \in DOMAIN db.events : db.events[n].surface = s => ~(i < n)
      PROVE  RowMatches(db.decisions[s], db.events[i])
  <2>1. LastCommitted(db, s, i)
    BY <1>2, <1>3 DEF LatestListed, LastCommitted
  <2> QED
    BY <1>1, <2>1 DEF Replay
<1>4. ASSUME NEW n \in DOMAIN db.events, db.events[n].surface = s, i < n
      PROVE  Overlapped(db, n, i)
  <2>1. db.events[n].stamp < db.events[i].stamp
    BY <1>2, <1>4 DEF LatestListed
  <2>2. ~(i <= db.events[n].since)
    BY <1>1, <1>2, <2>1 DEF Chronological
  <2> QED
    BY <1>2, <1>4, <2>2 DEF Overlapped
<1> QED
  BY <1>3, <1>4

\* The inbox joins every decision in force with the event that made it, unless the
\* call that made it overlapped the one that is listed.
THEOREM LatestEventCorrect == Spec => []LatestEventIsCurrent
BY TimeInit, TimeStep, LatestIsCurrent, PTL DEF Spec

-----------------------------------------------------------------------------
(***************************************************************************)
(* Clears.  The row a clear has read is the outcome of an event, and       *)
(* whatever came after that event came while the clear was under way.      *)
(***************************************************************************)

HasRead(a) == pc[a] \in {"read", "row", "event", "record"}

\* The call found what event k had left.
Found(a, k) ==
    /\ db.events[k].surface = op[a].surface
    /\ db.events[k].decision = op[a].seen.decision
    /\ \A j \in DOMAIN db.events :
          k < j /\ db.events[j].surface = op[a].surface => op[a].since < j

SeenInv ==
    \A a \in Actors : HasRead(a) /\ op[a].kind = "clear" =>
        Reviewed(op[a].seen) /\ \E k \in DOMAIN db.events : Found(a, k)

ClearInv == SeenInv /\ ClearsNameWhatTheyCleared

\* A call that has read its row read it before, or in this step.
LEMMA ReadBefore ==
    ASSUME TypeOK, Next, NEW b \in Actors, HasRead(b)'
    PROVE  \/ HasRead(b) /\ op'[b] = op[b]
           \/ /\ op'[b].surface = op[b].surface /\ op'[b].kind = op[b].kind
              /\ op'[b].seen = db.decisions[op[b].surface]
              /\ op[b].kind = "clear" => Reviewed(op'[b].seen)
              /\ op[b].surface \in Surfaces
              /\ db' = db
<1> USE DEF HasRead
<1> DEFINE Goes == \/ HasRead(b) /\ op'[b] = op[b]
                   \/ /\ op'[b].surface = op[b].surface /\ op'[b].kind = op[b].kind
                      /\ op'[b].seen = db.decisions[op[b].surface]
                      /\ op[b].kind = "clear" => Reviewed(op'[b].seen)
                      /\ op[b].surface \in Surfaces
                      /\ db' = db
<1>1. CASE Tick
  BY <1>1 DEF Tick
<1>2. ASSUME NEW a \in Actors, ActorNext(a)
      PROVE  Goes
  <2>1. CASE BeginSave(a) \/ BeginClear(a) \/ BeginSync(a)
    BY <2>1 DEF BeginSave, BeginClear, BeginSync, Begin, TypeOK
  <2>2. CASE ReadRow(a)
    <3>1. op[b] \in Calls /\ op \in [Actors -> Calls]
      BY DEF TypeOK
    <3>2. CASE b # a
      BY <2>2, <3>2 DEF ReadRow, Return, TypeOK
    <3>3. CASE b = a
      BY <2>2, <3>1, <3>3 DEF ReadRow, Return, TypeOK, Calls
    <3> QED
      BY <3>2, <3>3
  <2>3. CASE WriteRow(a) \/ WriteEvent(a) \/ WriteRecord(a)
    BY <2>3 DEF WriteRow, WriteEvent, WriteRecord, TypeOK
  <2>4. CASE Commit(a) \/ LockTimeout(a) \/ Fail(a)
    BY <2>4 DEF Commit, LockTimeout, Fail, Return, TypeOK
  <2>5. CASE StoreCandidates(a) \/ StoreEvidence(a) \/ AppendRecord(a)
    BY <2>5 DEF StoreCandidates, StoreEvidence, AppendRecord, Return, TypeOK
  <2> QED
    BY <1>2, <2>1, <2>2, <2>3, <2>4, <2>5 DEF ActorNext, Step
<1> QED
  BY <1>1, <1>2 DEF Next

\* The log grows at its end while a call is under way.
LEMMA FoundStays ==
    ASSUME TimeInv, NEW a \in Actors, HasRead(a), op'[a] = op[a],
           NEW k \in DOMAIN db.events, Found(a, k),
           \/ db'.events = db.events
           \/ \E b \in Actors : db' = view /\ pc[b] = "record"
    PROVE  k \in DOMAIN db'.events /\ Found(a, k)'
<1>1. TypeOK /\ WriterInv /\ Chronological
  BY DEF TimeInv, IInv
<1>2. CASE db'.events = db.events
  BY <1>2 DEF Found
<1>3. ASSUME NEW b \in Actors, db' = view, pc[b] = "record"
      PROVE  k \in DOMAIN db'.events /\ Found(a, k)'
  <2> DEFINE n == Len(db.events)
  <2>1. /\ n \in Nat /\ DOMAIN db.events = 1..n /\ DOMAIN db'.events = 1..(n + 1)
        /\ \A i \in 1..n : db'.events[i] = db.events[i]
    BY <1>1, <1>3, CommitGrows DEF EventAdded
  <2>2. op[a].since <= n /\ op[a].since \in Nat
    BY <1>1 DEF Chronological, HasRead, Reviewing, Writing, TypeOK, Calls
  <2> HIDE DEF n
  <2>3. ASSUME NEW j \in 1..(n + 1), k < j, db'.events[j].surface = op[a].surface
        PROVE  op[a].since < j
    <3>1. CASE j \in 1..n
      BY <2>1, <2>3, <3>1 DEF Found
    <3>2. CASE j = n + 1
      BY <2>1, <2>2, <3>2
    <3> QED BY <2>1, <3>1, <3>2
  <2>4. k \in 1..n /\ k \in 1..(n + 1) /\ db'.events[k] = db.events[k]
    BY <2>1
  <2> QED
    BY <2>1, <2>3, <2>4 DEF Found
<1> QED
  BY <1>2, <1>3

LEMMA SeenStep ==
    ASSUME TimeInv, SeenInv, [Next]_vars
    PROVE  SeenInv'
<1>1. TypeOK /\ Replay(db)
  BY DEF TimeInv, IInv, ReplayInv
<1>2. CASE UNCHANGED vars
  BY <1>2 DEF SeenInv, HasRead, Found, Reviewed, vars
<1>3. ASSUME Next, NEW b \in Actors, HasRead(b)', op'[b].kind = "clear"
      PROVE  Reviewed(op'[b].seen) /\ \E k \in DOMAIN db'.events : Found(b, k)'
  <2>1. CASE HasRead(b) /\ op'[b] = op[b]
    <3>1. PICK k \in DOMAIN db.events : Found(b, k)
      BY <1>3, <2>1 DEF SeenInv
    <3>2. k \in DOMAIN db'.events /\ Found(b, k)'
      BY <1>1, <2>1, <3>1, FoundStays, OnlyCommitsChangeLog DEF TimeInv, IInv
    <3> QED
      BY <1>3, <2>1, <3>2 DEF SeenInv
  <2>2. CASE /\ op'[b].surface = op[b].surface /\ op'[b].kind = op[b].kind
             /\ op'[b].seen = db.decisions[op[b].surface]
             /\ op[b].kind = "clear" => Reviewed(op'[b].seen)
             /\ op[b].surface \in Surfaces
             /\ db' = db
    <3> DEFINE s == op[b].surface
    <3>1. Reviewed(op'[b].seen) /\ Reviewed(db.decisions[s])
      BY <1>3, <2>2
    <3>2. PICK k \in DOMAIN db.events : LastCommitted(db, s, k)
      BY <1>1, <2>2, <3>1 DEF Replay
    <3>3. db.events[k].decision = db.decisions[s].decision /\ db.events[k].surface = s
      BY <1>1, <2>2, <3>2 DEF Replay, RowMatches, LastCommitted
    <3>4. \A j \in DOMAIN db.events : ~(k < j /\ db.events[j].surface = s)
      <4>1. \A j \in DOMAIN db.events : j \in Nat
        BY <1>1, LogTyped
      <4> QED BY <3>2, <4>1 DEF LastCommitted
    <3>5. Found(b, k)'
      BY <2>2, <3>3, <3>4 DEF Found
    <3> QED
      BY <2>2, <3>1, <3>5
  <2> QED
    BY <1>1, <1>3, <2>1, <2>2, ReadBefore
<1> QED
  BY <1>1, <1>2, <1>3 DEF SeenInv, Reviewed

\* What a commit adds undid what its call had found, and earlier events stay.
LEMMA ClearsGrow ==
    ASSUME TimeInv, ClearInv, NEW a \in Actors, pc[a] = "record", db' = view
    PROVE  ClearsNameWhatTheyCleared'
<1> DEFINE n == Len(db.events)
           s == op[a].surface
           e == EventBuilt(a)
<1>1. TypeOK /\ WriterInv
  BY DEF TimeInv, IInv
<1>2. /\ n \in Nat /\ DOMAIN db.events = 1..n /\ DOMAIN db'.events = 1..(n + 1)
      /\ \A i \in 1..n : db'.events[i] = db.events[i]
      /\ db'.events[n + 1] = e
  BY <1>1, CommitGrows DEF EventAdded
<1>3. /\ s \in Surfaces /\ e.surface = s /\ e.decision = op[a].decision
      /\ e.since = op[a].since
      /\ op[a].kind = "clear" <=> op[a].decision = Unreviewed
      /\ op[a].kind = "clear" => e.prev = op[a].seen.decision
  BY <1>1 DEF TypeOK, Calls, EventBuilt, WriterInv, IdInv, ReviewCall, Reviewing, Writing
<1>4. op[a].kind = "clear" =>
          Reviewed(op[a].seen) /\ \E k \in DOMAIN db.events : Found(a, k)
  BY DEF ClearInv, SeenInv, HasRead
<1> HIDE DEF n, s, e
<1>5. ASSUME NEW i \in 1..n, ~Reviewed(db.events[i])
      PROVE  \E k \in 1..(n + 1) : Reviewed(db'.events[k]) /\ Undid(db', i, k)
  <2>1. PICK k \in 1..n : Reviewed(db.events[k]) /\ Undid(db, i, k)
    BY <1>2, <1>5 DEF ClearInv, ClearsNameWhatTheyCleared
  <2>2. db'.events[k] = db.events[k] /\ db'.events[i] = db.events[i] /\ k \in 1..(n + 1)
    BY <1>2
  <2>3. ASSUME NEW j \in 1..(n + 1), k < j, j < i, db'.events[j].surface = db.events[i].surface
        PROVE  Overlapped(db', i, j)
    <3>1. j \in 1..n
      BY <1>2, <2>3
    <3> QED BY <1>2, <2>1, <2>2, <2>3, <3>1 DEF Undid, Overlapped
  <2>4. Undid(db', i, k)
    BY <1>2, <2>1, <2>2, <2>3 DEF Undid
  <2> QED
    BY <2>1, <2>2, <2>4
<1>6. ASSUME ~Reviewed(e)
      PROVE  \E k \in 1..(n + 1) : Reviewed(db'.events[k]) /\ Undid(db', n + 1, k)
  <2>1. op[a].kind = "clear" /\ e.prev = op[a].seen.decision /\ Reviewed(op[a].seen)
    BY <1>3, <1>4, <1>6 DEF Reviewed
  <2>2. PICK k \in 1..n : Found(a, k)
    BY <1>2, <1>4, <2>1
  <2>3. /\ db'.events[k] = db.events[k] /\ k \in 1..(n + 1) /\ k < n + 1
        /\ db.events[k].surface = s /\ db.events[k].decision = e.prev
    BY <1>2, <2>1, <2>2 DEF Found, s
  <2>4. ASSUME NEW j \in 1..(n + 1), k < j, j < n + 1, db'.events[j].surface = s
        PROVE  Overlapped(db', n + 1, j)
    <3>1. j \in 1..n /\ db.events[j].surface = s
      BY <1>2, <2>4
    <3>2. op[a].since < j
      BY <1>2, <2>2, <2>4, <3>1 DEF Found, s
    <3> QED BY <1>2, <1>3, <2>4, <3>2 DEF Overlapped
  <2>5. Undid(db', n + 1, k)
    BY <1>2, <1>3, <2>3, <2>4 DEF Undid
  <2> QED
    BY <2>1, <2>3, <2>5 DEF Reviewed
<1>7. ASSUME NEW i \in DOMAIN db'.events, ~Reviewed(db'.events[i])
      PROVE  \E k \in DOMAIN db'.events : Reviewed(db'.events[k]) /\ Undid(db', i, k)
  <2>1. CASE i = n + 1
    BY <1>2, <1>6, <1>7, <2>1
  <2>2. CASE i # n + 1
    <3>1. i \in 1..n /\ db'.events[i] = db.events[i]
      BY <1>2, <2>2
    <3> QED
      BY <1>2, <1>5, <1>7, <3>1
  <2> QED
    BY <2>1, <2>2
<1> QED
  BY <1>7 DEF ClearsNameWhatTheyCleared, Reviewed

LEMMA ClearStep ==
    ASSUME TimeInv, ClearInv, [Next]_vars
    PROVE  ClearInv'
<1>1. SeenInv'
  BY SeenStep DEF ClearInv
<1>2. ASSUME db'.events = db.events PROVE ClearsNameWhatTheyCleared'
  BY <1>2 DEF ClearInv, ClearsNameWhatTheyCleared, Undid, Overlapped, Reviewed
<1>3. \/ db'.events = db.events
      \/ \E a \in Actors : db' = view /\ pc[a] = "record"
  BY OnlyCommitsChangeLog DEF TimeInv, IInv
<1> QED
  BY <1>1, <1>2, <1>3, ClearsGrow DEF ClearInv

\* The event of a clear names a decision that was in force at some moment of its
\* call, whoever saves and clears meanwhile, and nothing unreviewed is ever cleared.
THEOREM ClearsCorrect == Spec => []ClearsNameWhatTheyCleared
<1>1. Init => ClearInv
  BY DEF Init, ClearInv, SeenInv, HasRead, ClearsNameWhatTheyCleared
<1>2. ClearInv => ClearsNameWhatTheyCleared
  BY DEF ClearInv
<1> QED
  BY <1>1, <1>2, TimeInit, TimeStep, ClearStep, PTL DEF Spec
=============================================================================
