---------------------------- MODULE RuntimeCache ----------------------------
(***************************************************************************)
(* The in-process cache of loaded lexicons and of what is compiled from    *)
(* them (core/cache.py).  Threads of one process look up, build and insert *)
(* while other processes rewrite the lexicon file and other threads clear  *)
(* the cache.  A lookup and an insertion each hold the lock; the build     *)
(* between them does not.                                                  *)
(*                                                                         *)
(* One lexicon file in one format: the path and the format are the same in *)
(* every key.  A lexicon is its text, and a fingerprint tells texts apart. *)
(***************************************************************************)
EXTENDS Naturals, Sequences, SequencesExt

CONSTANTS
    Threads,      \* threads of the process that share the cache
    Texts,        \* contents the lexicon file may have
    Valid,        \* those the loader accepts
    Absent,       \* the content of a file that is not there
    Failed,       \* the outcome of a load that raises
    Wanted,       \* the kinds of objects the calls ask for
    SizeOf,       \* text -> its size in bytes
    MaxSize,      \* max_size, the bound on each of the four caches
    MaxTime,      \* bound on the clock of the file system
    MaxVersions,  \* bound on the contents the file goes through
    MaxCalls      \* bound on the calls made

ASSUME CacheAssumption ==
    /\ Valid \subseteq Texts
    /\ Absent \notin Texts
    /\ Failed \notin Texts
    /\ Wanted \subseteq {"lexicon", "matcher", "resolver", "tool_guard"}
    /\ SizeOf \in [Texts -> Nat]
    /\ MaxSize \in Nat \ {0}
    /\ MaxTime \in Nat
    /\ MaxVersions \in Nat
    /\ MaxCalls \in Nat

VARIABLES
    versions,  \* what the lexicon file has held so far, the present last
    clock,     \* the clock of the file system, as coarse as its timestamps
    store,     \* kind -> entries, the least recently used first
    hits,      \* kind -> lookups that found their key since the last clear
    misses,    \* kind -> those that did not
    call,      \* thread -> the call it is in
    calls      \* number of calls made

vars == <<versions, clock, store, hits, misses, call, calls>>

Compiled == {"matcher", "resolver", "tool_guard"}
Kinds == {"lexicon"} \cup Compiled

\* A resolver is built around a matcher, a tool guard around a resolver.
Below(kind) == IF kind = "tool_guard" THEN "resolver" ELSE "matcher"
Above(kind) == IF kind = "matcher" THEN "resolver" ELSE "tool_guard"

Versions == [content : Texts \cup {Absent}, mtime : 0..MaxTime]

\* Mutant: invalidation looks at the size alone.
StampOfSize(version) == <<0, SizeOf[version.content]>>

\* stat() of the file: what the key of a loaded lexicon is made of.
Stamp(version) == <<version.mtime, SizeOf[version.content]>>
Stamps == (0..MaxTime) \X Nat

\* Mutant: the key of a compiled object forgets include_deprecated.
CompiledKeyOfLexicon(lexicon, deprecated) == <<lexicon, TRUE>>

CompiledKey(lexicon, deprecated) == <<lexicon, deprecated>>

\* A compiled object is what each of its parts was built for, innermost first:
\* a matcher has one part, a resolver two, a tool guard three.
Part(lexicon, deprecated) == <<lexicon, deprecated>>
Parts == Valid \X BOOLEAN

LexiconEntries == [key : Stamps, value : Valid]
CompiledEntries == [key : Parts, value : Seq(Parts)]

Current == versions[Len(versions)]

\* What load_lexicon makes of a content.
Outcome(content) == IF content \in Valid THEN content ELSE Failed

Idle == [phase |-> "idle"]

LoadPhases == {"stat", "lookup", "read", "read uncached", "put", "returned"}

\* "since" and "until" are the versions current when the call began and ended.
LoadCalls == [phase : LoadPhases, want : {"lexicon"}, at : {"lexicon"},
              key : Stamps, object : Valid \cup {Failed},
              since : Nat, until : Nat]

CompileCalls == [phase : {"lookup", "put", "returned"}, want : Compiled, at : Compiled,
                 lexicon : Valid, deprecated : BOOLEAN,
                 key : Parts, object : Seq(Parts)]

-----------------------------------------------------------------------------
Init ==
    /\ versions \in {<<v>> : v \in [content : Texts \cup {Absent}, mtime : {0}]}
    /\ clock = 0
    /\ store = [k \in Kinds |-> <<>>]
    /\ hits = [k \in Kinds |-> 0]
    /\ misses = [k \in Kinds |-> 0]
    /\ call = [t \in Threads |-> Idle]
    /\ calls = 0

\* Another process replaces the file, or removes it.  A file moved into place
\* keeps the modification time it had.
Replace(content, mtime) ==
    /\ Len(versions) < MaxVersions
    /\ content # Current.content
    /\ versions' = Append(versions, [content |-> content, mtime |-> mtime])
    /\ UNCHANGED <<clock, store, hits, misses, call, calls>>

Rewrite == \E c \in Texts \cup {Absent}, m \in 0..clock : Replace(c, m)

\* The clock has moved on since the file was last changed.
RewriteLater == \E c \in Texts \cup {Absent} : Current.mtime < clock /\ Replace(c, clock)

Tick ==
    /\ clock < MaxTime
    /\ clock' = clock + 1
    /\ UNCHANGED <<versions, store, hits, misses, call, calls>>

CanCall(t) == call[t].phase \in {"idle", "returned"} /\ calls < MaxCalls

BeginLoad(t) ==
    /\ "lexicon" \in Wanted
    /\ CanCall(t)
    /\ calls' = calls + 1
    /\ call' = [call EXCEPT ![t] =
           [phase |-> "stat", want |-> "lexicon", at |-> "lexicon", key |-> <<0, 0>>,
            object |-> Failed, since |-> Len(versions), until |-> Len(versions)]]
    /\ UNCHANGED <<versions, clock, store, hits, misses>>

BeginGet(t, kind, lexicon, deprecated) ==
    /\ CanCall(t)
    /\ calls' = calls + 1
    /\ call' = [call EXCEPT ![t] =
           [phase |-> "lookup", want |-> kind, at |-> kind, lexicon |-> lexicon,
            deprecated |-> deprecated, key |-> CompiledKey(lexicon, deprecated),
            object |-> <<>>]]
    /\ UNCHANGED <<versions, clock, store, hits, misses>>

\* A file that cannot be examined is loaded without the cache.
Stat(t) ==
    /\ call[t].phase = "stat"
    /\ call' = [call EXCEPT ![t] =
           IF Current.content = Absent
           THEN [@ EXCEPT !.phase = "read uncached"]
           ELSE [@ EXCEPT !.phase = "lookup", !.key = Stamp(Current)]]
    /\ UNCHANGED <<versions, clock, store, hits, misses, calls>>

Returned(c, object) ==
    IF c.want = "lexicon"
    THEN [c EXCEPT !.phase = "returned", !.object = object, !.until = Len(versions)]
    ELSE [c EXCEPT !.phase = "returned", !.object = object]

\* The object the call is at is at hand: the call returns it, or builds the
\* next one around it.
Got(c, object) ==
    IF c.at = c.want
    THEN Returned(c, object)
    ELSE [c EXCEPT !.phase = "put", !.at = Above(c.at),
                   !.object = Append(object, Part(c.lexicon, c.deprecated))]

LookupHit(t) ==
    LET c == call[t] IN
    /\ c.phase = "lookup"
    /\ \E i \in DOMAIN store[c.at] :
           /\ store[c.at][i].key = c.key
           /\ store' = [store EXCEPT ![c.at] = Append(RemoveAt(@, i), @[i])]
           /\ call' = [call EXCEPT ![t] = Got(c, store[c.at][i].value)]
    /\ hits' = [hits EXCEPT ![c.at] = @ + 1]
    /\ UNCHANGED <<versions, clock, misses, calls>>

LookupMiss(t) ==
    LET c == call[t] IN
    /\ c.phase = "lookup"
    /\ \A i \in DOMAIN store[c.at] : store[c.at][i].key # c.key
    /\ misses' = [misses EXCEPT ![c.at] = @ + 1]
    /\ call' = [call EXCEPT ![t] =
           CASE c.at = "lexicon" -> [c EXCEPT !.phase = "read"]
             [] c.at = "matcher" -> [c EXCEPT !.phase = "put",
                                              !.object = <<Part(c.lexicon, c.deprecated)>>]
             [] OTHER -> [c EXCEPT !.at = Below(c.at)]]
    /\ UNCHANGED <<versions, clock, store, hits, calls>>

\* load_lexicon reads the file as it is now; if it raises, nothing is cached.
Read(t) ==
    LET c == call[t]
        loaded == Outcome(Current.content)
    IN  /\ c.phase \in {"read", "read uncached"}
        /\ call' = [call EXCEPT ![t] =
               IF c.phase = "read" /\ loaded # Failed
               THEN [c EXCEPT !.phase = "put", !.object = loaded]
               ELSE Returned(c, loaded)]
        /\ UNCHANGED <<versions, clock, store, hits, misses, calls>>

\* Mutant: the oldest entry goes one insertion too late.
TrimmedLate(entries) ==
    IF Len(entries) > MaxSize + 1
    THEN SubSeq(entries, Len(entries) - MaxSize + 1, Len(entries))
    ELSE entries

Trimmed(entries) ==
    IF Len(entries) > MaxSize
    THEN SubSeq(entries, Len(entries) - MaxSize + 1, Len(entries))
    ELSE entries

\* The entries without the one of a key, if there is one.
Dropped(entries, key) ==
    IF \E i \in DOMAIN entries : entries[i].key = key
    THEN RemoveAt(entries, CHOOSE i \in DOMAIN entries : entries[i].key = key)
    ELSE entries

Inserted(entries, entry) == Trimmed(Append(Dropped(entries, entry.key), entry))

Put(t) ==
    LET c == call[t] IN
    /\ c.phase = "put"
    /\ store' = [store EXCEPT ![c.at] = Inserted(@, [key |-> c.key, value |-> c.object])]
    /\ call' = [call EXCEPT ![t] = Got(c, c.object)]
    /\ UNCHANGED <<versions, clock, hits, misses, calls>>

\* Some thread that is in no call clears the cache.
Clear ==
    /\ \E t \in Threads : call[t].phase \in {"idle", "returned"}
    /\ store' = [k \in Kinds |-> <<>>]
    /\ hits' = [k \in Kinds |-> 0]
    /\ misses' = [k \in Kinds |-> 0]
    /\ UNCHANGED <<versions, clock, call, calls>>

-----------------------------------------------------------------------------
Step(t) == Stat(t) \/ LookupHit(t) \/ LookupMiss(t) \/ Read(t) \/ Put(t)

Begin(t) ==
    \/ BeginLoad(t)
    \/ \E k \in Compiled \cap Wanted, l \in Valid, d \in BOOLEAN : BeginGet(t, k, l, d)

ThreadNext == Tick \/ Clear \/ \E t \in Threads : Begin(t) \/ Step(t)

Next == Rewrite \/ ThreadNext

Spec == Init /\ [][Next]_vars

\* No two contents of the file share a modification time.
TickingSpec == Init /\ [][RewriteLater \/ ThreadNext]_vars

-----------------------------------------------------------------------------
\* Every entry holds an object of its kind; a load that raises leaves none.
TypeOK ==
    /\ versions \in Seq(Versions)
    /\ versions # <<>>
    /\ clock \in 0..MaxTime
    /\ store = [k \in Kinds |-> store[k]]
    /\ store["lexicon"] \in Seq(LexiconEntries)
    /\ \A k \in Compiled : store[k] \in Seq(CompiledEntries)
    /\ hits \in [Kinds -> Nat]
    /\ misses \in [Kinds -> Nat]
    /\ call \in [Threads -> {Idle} \cup LoadCalls \cup CompileCalls]
    /\ calls \in Nat

\* Each cache keeps to max_size, and never holds a key twice: what a lookup
\* finds is what was last inserted under its key, and eviction counts keys.
StoresBounded ==
    \A k \in Kinds :
        /\ Len(store[k]) <= MaxSize
        /\ \A i, j \in DOMAIN store[k] : store[k][i].key = store[k][j].key => i = j

\* load_lexicon returns, or raises for, what the file held at some moment of the
\* call, whatever other threads read, inserted or evicted around it.  True while
\* the file system's clock moves between two changes of the file.
LoadsAreFresh ==
    \A t \in Threads :
        call[t].phase = "returned" /\ call[t].want = "lexicon" =>
            \E i \in call[t].since..call[t].until : call[t].object = Outcome(versions[i].content)

\* A cached matcher, resolver or tool guard, down to its innermost part, is built
\* for the lexicon and option it was asked for: a hit changes no decision.
Depth(kind) == CASE kind = "matcher" -> 1 [] kind = "resolver" -> 2 [] OTHER -> 3

BuiltFor(object, kind, lexicon, deprecated) ==
    /\ Len(object) = Depth(kind)
    /\ \A i \in DOMAIN object : object[i] = Part(lexicon, deprecated)

HitsChangeNothing ==
    \A t \in Threads :
        call[t].phase = "returned" /\ call[t].want \in Compiled =>
            BuiltFor(call[t].object, call[t].want, call[t].lexicon, call[t].deprecated)

=============================================================================
