------------------------- MODULE AtomicWriteProofs --------------------------
(***************************************************************************)
(* What AtomicWrite keeps for any number of writers, readers, texts and    *)
(* files.                                                                  *)
(***************************************************************************)
EXTENDS AtomicWrite, SequenceTheorems, TLAPS

\* Files that have had the target's name.
Renamed == {renames[i] : i \in 1..Len(renames)}

TypeInv ==
    /\ made \in Nat
    /\ content \in [Files -> Blocks]
    /\ saved \in [Files -> Blocks]
    /\ temps \subseteq Files
    /\ renames \in Seq(Files)
    /\ synced \in 0..Len(renames)
    /\ job \in [Writers -> {Idle} \cup Jobs]
    /\ look \in [Readers -> {Idle} \cup Looks]

\* Every name is used once: mkstemp gives a file that nobody has.
FreshInv ==
    /\ \A f \in temps : f <= made
    /\ \A f \in Renamed : f <= made
    /\ \A w \in Writers : job[w] # Idle => job[w].file <= made
    /\ \A v, w \in Writers :
          v # w /\ job[v] # Idle /\ job[w] # Idle => job[v].file # job[w].file

BeforeReplace == {"write 1", "write 2", "fsync", "replace"}

\* How far a write has come, and what it can rely on.
Progress(w) ==
    LET f == job[w].file
        t == job[w].text
    IN  /\ job[w].at \in BeforeReplace => f \notin Renamed
        /\ job[w].at = "write 2" => content[f][1] = t
        /\ job[w].at = "fsync" => content[f] = Whole(t)
        /\ job[w].at = "replace" => content[f] = Whole(t) /\ saved[f] = Whole(t)
        /\ job[w].at \in {"sync directory", "written", "raised"} => f \notin temps
        /\ job[w].at = "sync directory" => f \in Renamed
        /\ job[w].sure => job[w].at = "written" /\ \E i \in 1..synced : renames[i] = f

JobInv == \A w \in Writers : job[w] # Idle => Progress(w)

\* What has had the target's name is whole, and on the disk.
RenamedInv == \A f \in Renamed : content[f] \in Contents /\ saved[f] = content[f]

Seeing(r) ==
    LET l == look[r]
    IN  /\ l.at = "read 1" => l.file \in Renamed
        /\ l.at = "read 2" => l.file \in Renamed /\ l.blocks[1] = content[l.file][1]
        /\ l.at = "seen" => l.blocks \in Contents

LookInv == \A r \in Readers : look[r] # Idle => Seeing(r)

IInv == TypeInv /\ FreshInv /\ JobInv /\ RenamedInv /\ LookInv

-----------------------------------------------------------------------------
(* Jobs, files and names.                                                  *)

LEMMA JobFacts ==
    ASSUME TypeInv, NEW w \in Writers, job[w] # Idle
    PROVE  /\ job[w] \in Jobs
           /\ job[w].file \in Files /\ job[w].text \in Texts /\ job[w].sure \in BOOLEAN
           /\ job[w].at # "idle"
<1>1. job[w] \in Jobs
  BY DEF TypeInv
<1> QED BY <1>1 DEF Jobs

LEMMA Busy ==
    ASSUME NEW w \in Writers, job[w].at # "idle"
    PROVE  job[w] # Idle
BY DEF Idle

\* A writer that goes on keeps its file and its text.
LEMMA GoesFacts ==
    ASSUME TypeInv, NEW w \in Writers, job[w] # Idle,
           NEW place \in {"write 2", "fsync", "replace", "sync directory", "clean up",
                          "written", "raised"},
           Goes(w, place)
    PROVE  /\ job' \in [Writers -> {Idle} \cup Jobs]
           /\ job'[w] # Idle
           /\ job'[w].at = place /\ job'[w].file = job[w].file
           /\ job'[w].text = job[w].text /\ job'[w].sure = job[w].sure
           /\ \A v \in Writers : v # w => job'[v] = job[v]
<1>1. job[w] \in Jobs /\ job \in [Writers -> {Idle} \cup Jobs]
  BY JobFacts DEF TypeInv
<1>2. job' = [job EXCEPT ![w] = [job[w] EXCEPT !.at = place]]
  BY DEF Goes
<1>3. [job[w] EXCEPT !.at = place] \in Jobs
  BY <1>1 DEF Jobs
<1>4. job'[w] = [job[w] EXCEPT !.at = place]
  BY <1>1, <1>2
<1>5. /\ job'[w].at = place /\ job'[w].file = job[w].file
      /\ job'[w].text = job[w].text /\ job'[w].sure = job[w].sure
  BY <1>1, <1>4 DEF Jobs
<1>6. job'[w] # Idle
  <2>1. Idle.at = "idle"
    BY DEF Idle
  <2> QED BY <1>5, <2>1
<1> QED BY <1>1, <1>2, <1>3, <1>5, <1>6

LEMMA RenamedFacts ==
    ASSUME TypeInv
    PROVE  /\ Len(renames) \in Nat
           /\ \A i \in 1..Len(renames) : renames[i] \in Files
           /\ Renamed \subseteq Files
<1>1. Len(renames) \in Nat /\ \A i \in 1..Len(renames) : renames[i] \in Files
  BY LenProperties, ElementOfSeq DEF TypeInv
<1> QED BY <1>1 DEF Renamed

LEMMA FilesNat == Files \subseteq Nat
BY DEF Files

LEMMA WholeFacts ==
    \A t \in Texts : Whole(t) \in Blocks /\ Whole(t) \in Contents
BY DEF Whole, Blocks, Contents

\* A call is sure of its text only when it has returned.
LEMMA NotSure ==
    ASSUME IInv, NEW w \in Writers, job[w] # Idle, job[w].at # "written"
    PROVE  ~job[w].sure
BY DEF IInv, JobInv, Progress

-----------------------------------------------------------------------------
(* The invariant.                                                          *)

LEMMA InitInv == Init => IInv
<1> SUFFICES ASSUME Init PROVE IInv
  OBVIOUS
<1>1. /\ job \in [Writers -> {Idle} \cup Jobs] /\ look \in [Readers -> {Idle} \cup Looks]
      /\ \A w \in Writers : job[w] = Idle
      /\ \A r \in Readers : look[r] = Idle
  BY DEF Init
<1>2. 1 \in Files
  BY WriteAssumption DEF Files
<1>3. Empty \in Blocks
  BY DEF Empty, Blocks
<1>4. CASE made = 0 /\ renames = <<>> /\ content = [f \in Files |-> Empty]
  <2>1. renames \in Seq(Files) /\ Len(renames) = 0 /\ Renamed = {}
    BY <1>4 DEF Renamed
  <2>2. TypeInv
    BY <1>1, <1>3, <1>4, <2>1 DEF Init, TypeInv
  <2> QED
    BY <1>1, <2>1, <2>2 DEF Init, IInv, FreshInv, JobInv, RenamedInv, LookInv
<1>5. CASE /\ made = 1 /\ renames = <<1>>
           /\ \E t \in Texts : content = [f \in Files |-> IF f = 1 THEN Whole(t) ELSE Empty]
  <2>1. renames \in Seq(Files) /\ Len(renames) = 1 /\ renames[1] = 1
    BY <1>2, <1>5
  <2>2. Renamed = {1}
    BY <2>1 DEF Renamed
  <2>3. content \in [Files -> Blocks] /\ content[1] \in Contents
    BY <1>2, <1>3, <1>5, WholeFacts
  <2>4. TypeInv
    BY <1>1, <1>5, <2>1, <2>3 DEF Init, TypeInv
  <2> QED
    BY <1>1, <1>5, <2>2, <2>3, <2>4 DEF Init, IInv, FreshInv, JobInv, RenamedInv, LookInv
<1> QED BY <1>4, <1>5 DEF Init

LEMMA BeginInv ==
    ASSUME IInv, NEW w \in Writers, NEW t \in Texts, Begin(w, t)
    PROVE  IInv'
<1> DEFINE new == [at |-> "write 1", file |-> made + 1, text |-> t, sure |-> FALSE]
<1> USE DEF IInv
<1>1. made \in Nat /\ made + 1 \in Files
  <2>1. made \in Nat /\ made < MaxFiles
    BY DEF Begin, TypeInv
  <2> QED BY <2>1, WriteAssumption DEF Files
<1>2. new \in Jobs /\ new # Idle
  <2>1. new \in Jobs
    BY <1>1 DEF Jobs
  <2>2. new.at # Idle.at
    BY DEF Idle
  <2> QED BY <2>1, <2>2
<1>3. /\ job' \in [Writers -> {Idle} \cup Jobs]
      /\ job'[w] = new
      /\ \A v \in Writers : v # w => job'[v] = job[v]
  BY <1>2 DEF Begin, TypeInv
<1>a. job'[w].at = "write 1" /\ job'[w].file = made + 1 /\ ~job'[w].sure
  <2>1. new.at = "write 1" /\ new.file = made + 1 /\ ~new.sure
    BY DEF new
  <2> HIDE DEF new
  <2> QED BY <1>3, <2>1
<1>b. \A v \in Writers : v # w /\ job'[v] # Idle =>
          job'[v].file \in Nat /\ job'[v].file <= made
  <2> SUFFICES ASSUME NEW v \in Writers, v # w, job'[v] # Idle
               PROVE  job'[v].file \in Nat /\ job'[v].file <= made
    OBVIOUS
  <2>1. job'[v] = job[v] /\ job[v] # Idle
    BY <1>3
  <2> QED BY <2>1, JobFacts, FilesNat DEF FreshInv
<1> HIDE DEF new
<1>4. /\ UNCHANGED <<content, saved, renames, synced, look>>
      /\ made' = made + 1 /\ temps' = temps \cup {made + 1} /\ Renamed' = Renamed
  BY DEF Begin, Renamed
<1>5. TypeInv'
  <2>1. temps' \subseteq Files /\ made' \in Nat
    BY <1>1, <1>4 DEF TypeInv
  <2> QED BY <1>3, <1>4, <2>1 DEF TypeInv
<1>6. FreshInv'
  <2>1. \A f \in temps' \cup Renamed' : f <= made'
    BY <1>1, <1>4, RenamedFacts, FilesNat DEF FreshInv, TypeInv
  <2>2. ASSUME NEW v \in Writers, job'[v] # Idle PROVE job'[v].file <= made'
    <3>1. CASE v = w
      <4>1. job'[v].file = made'
        BY <1>4, <1>a, <3>1
      <4>2. made' \in Nat
        BY <1>1, <1>4
      <4> QED BY <4>1, <4>2
    <3>2. CASE v # w
      BY <1>1, <1>4, <1>b, <2>2, <3>2
    <3> QED BY <3>1, <3>2
  <2>3. ASSUME NEW u \in Writers, NEW v \in Writers, u # v, job'[u] # Idle, job'[v] # Idle
        PROVE  job'[u].file # job'[v].file
    <3>1. CASE u = w
      <4>1. job'[u].file = made + 1
        BY <1>a, <3>1
      <4>2. job'[v].file \in Nat /\ job'[v].file <= made
        BY <1>b, <2>3, <3>1
      <4> QED BY <1>1, <4>1, <4>2
    <3>3. CASE v = w
      <4>1. job'[v].file = made + 1
        BY <1>a, <3>3
      <4>2. job'[u].file \in Nat /\ job'[u].file <= made
        BY <1>b, <2>3, <3>3
      <4> QED BY <1>1, <4>1, <4>2
    <3>2. CASE u # w /\ v # w
      BY <1>3, <2>3, <3>2 DEF FreshInv
    <3> QED BY <3>1, <3>2, <3>3
  <2> QED BY <2>1, <2>2, <2>3 DEF FreshInv
<1>7. ASSUME NEW v \in Writers, job'[v] # Idle PROVE Progress(v)'
  <2>1. CASE v = w
    <3>1. made + 1 \notin Renamed
      BY <1>1, RenamedFacts, FilesNat DEF FreshInv
    <3> QED BY <1>a, <1>4, <2>1, <3>1 DEF Progress, BeforeReplace
  <2>2. CASE v # w
    <3>1. job'[v] = job[v] /\ Progress(v) /\ job[v].file <= made /\ job[v].file \in Nat
      BY <1>3, <1>7, <2>2, JobFacts, FilesNat DEF JobInv, FreshInv
    <3>2. job[v].file # made + 1
      BY <1>1, <3>1
    <3> QED BY <1>4, <3>1, <3>2 DEF Progress
  <2> QED BY <2>1, <2>2
<1>8. RenamedInv' /\ LookInv'
  BY <1>4 DEF RenamedInv, LookInv, Seeing
<1> QED BY <1>5, <1>6, <1>7, <1>8 DEF JobInv

\* Names stay used once while no file is made.
LEMMA KeepFresh ==
    ASSUME IInv, made' = made, temps' \subseteq temps,
           \A v \in Writers : job'[v] # Idle => job[v] # Idle /\ job'[v].file = job[v].file,
           \A f \in Renamed' : f \in Renamed \/ \E w \in Writers : job[w] # Idle /\ f = job[w].file
    PROVE  FreshInv'
<1>1. \A f \in temps' \cup Renamed' : f <= made'
  BY DEF IInv, FreshInv
<1>2. \A v \in Writers : job'[v] # Idle => job'[v].file <= made'
  BY DEF IInv, FreshInv
<1>3. \A u, v \in Writers : u # v /\ job'[u] # Idle /\ job'[v] # Idle => job'[u].file # job'[v].file
  BY DEF IInv, FreshInv
<1> QED BY <1>1, <1>2, <1>3 DEF FreshInv

\* A step of one writer takes nothing from another: their files differ.
LEMMA OthersProgress ==
    ASSUME IInv, NEW w \in Writers, job[w] # Idle, NEW v \in Writers, v # w, job[v] # Idle,
           job'[v] = job[v],
           temps' \subseteq temps,
           Renamed \subseteq Renamed', Renamed' \subseteq Renamed \cup {job[w].file},
           \A f \in Files : f # job[w].file => content'[f] = content[f] /\ saved'[f] = saved[f],
           \A i \in 1..synced : i \in 1..synced' /\ renames'[i] = renames[i]
    PROVE  Progress(v)'
<1>1. job[v].file \in Files /\ job[v].file # job[w].file /\ Progress(v)
  BY JobFacts DEF IInv, FreshInv, JobInv
<1>2. content'[job[v].file] = content[job[v].file] /\ saved'[job[v].file] = saved[job[v].file]
  BY <1>1
<1> QED BY <1>1, <1>2 DEF Progress

\* Readers still see what they saw while files that had the target's name stay.
LEMMA KeepSeen ==
    ASSUME IInv, look' = look, Renamed \subseteq Renamed',
           \A f \in Renamed : content'[f] = content[f]
    PROVE  LookInv'
BY DEF IInv, LookInv, Seeing

LEMMA RenamedSame ==
    ASSUME renames' = renames
    PROVE  Renamed' = Renamed
BY DEF Renamed

\* Every step in which a writer with a file goes on.
LEMMA GoesInv ==
    ASSUME IInv, NEW w \in Writers, job[w] # Idle,
           NEW place \in {"write 2", "fsync", "replace", "sync directory", "clean up",
                          "written", "raised"},
           Goes(w, place),
           made' = made, look' = look, temps' \subseteq temps,
           content' \in [Files -> Blocks], saved' \in [Files -> Blocks],
           renames' = renames, synced' = synced,
           \A f \in Files : f # job[w].file => content'[f] = content[f] /\ saved'[f] = saved[f],
           \A f \in Renamed : content'[f] = content[f] /\ saved'[f] = saved[f],
           Progress(w)'
    PROVE  IInv'
<1>1. TypeInv
  BY DEF IInv
<1>2. /\ job' \in [Writers -> {Idle} \cup Jobs]
      /\ job'[w] # Idle /\ job'[w].file = job[w].file
      /\ \A v \in Writers : v # w => job'[v] = job[v]
  BY <1>1, GoesFacts
<1>3. Renamed' = Renamed
  BY RenamedSame
<1>4. TypeInv'
  BY <1>1, <1>2 DEF TypeInv
<1>5. FreshInv'
  BY <1>2, <1>3, KeepFresh
<1>6. ASSUME NEW v \in Writers, job'[v] # Idle PROVE Progress(v)'
  <2>1. CASE v = w
    BY <2>1
  <2>2. CASE v # w
    <3>1. job'[v] = job[v] /\ job[v] # Idle
      BY <1>2, <1>6, <2>2
    <3>2. \A i \in 1..synced : i \in 1..synced' /\ renames'[i] = renames[i]
      OBVIOUS
    <3> QED BY <1>3, <2>2, <3>1, <3>2, OthersProgress
  <2> QED BY <2>1, <2>2
<1>7. RenamedInv'
  BY <1>3 DEF IInv, RenamedInv
<1>8. LookInv'
  BY <1>3, KeepSeen
<1> QED BY <1>4, <1>5, <1>6, <1>7, <1>8 DEF IInv, JobInv

\* Writing a block of a file that nobody else has and nobody reads.
LEMMA WriteBlockFacts ==
    ASSUME IInv, NEW w \in Writers, job[w] # Idle, job[w].at \in BeforeReplace,
           NEW i \in 1..2, WriteBlock(w, i)
    PROVE  /\ content' \in [Files -> Blocks]
           /\ content'[job[w].file] = [content[job[w].file] EXCEPT ![i] = job[w].text]
           /\ \A f \in Files : f # job[w].file => content'[f] = content[f]
           /\ \A f \in Renamed : content'[f] = content[f]
<1>1. /\ job[w].file \in Files /\ job[w].text \in Texts
      /\ content \in [Files -> Blocks] /\ Renamed \subseteq Files
  BY JobFacts, RenamedFacts DEF IInv, TypeInv
<1>2. job[w].file \notin Renamed
  BY DEF IInv, JobInv, Progress
<1>3. content' = [content EXCEPT ![job[w].file] = [content[job[w].file] EXCEPT ![i] = job[w].text]]
  BY DEF WriteBlock
<1>4. [content[job[w].file] EXCEPT ![i] = job[w].text] \in Blocks
  BY <1>1 DEF Blocks
<1> QED BY <1>1, <1>2, <1>3, <1>4

LEMMA WriteFirstInv ==
    ASSUME IInv, NEW w \in Writers, WriteFirst(w)
    PROVE  IInv'
<1> DEFINE f == job[w].file
<1>1. job[w].at = "write 1" /\ job[w] # Idle /\ WriteBlock(w, 1) /\ Goes(w, "write 2")
  BY Busy DEF WriteFirst, At
<1>2. /\ content' \in [Files -> Blocks]
      /\ content'[f] = [content[f] EXCEPT ![1] = job[w].text]
      /\ \A g \in Files : g # f => content'[g] = content[g]
      /\ \A g \in Renamed : content'[g] = content[g]
  <2>1. job[w].at \in BeforeReplace
    BY <1>1 DEF BeforeReplace
  <2>2. 1 \in 1..2
    OBVIOUS
  <2> QED BY <1>1, <2>1, <2>2, WriteBlockFacts
<1>3. UNCHANGED <<saved, made, temps, renames, synced, look>>
  BY <1>1 DEF WriteBlock
<1>4. f \in Files /\ f \notin Renamed /\ content[f] \in Blocks
  BY <1>1, JobFacts DEF IInv, TypeInv, JobInv, Progress, BeforeReplace
<1>5. content'[f][1] = job[w].text
  BY <1>2, <1>4 DEF Blocks
<1>6. Progress(w)'
  <2>1. job'[w].at = "write 2" /\ job'[w].file = f /\ job'[w].text = job[w].text
    BY <1>1, GoesFacts DEF IInv
  <2>2. ~job'[w].sure
    BY <1>1, GoesFacts, NotSure DEF IInv
  <2> QED BY <2>2, <1>3, <1>4, <1>5, <2>1, RenamedSame DEF Progress
<1> QED BY <1>1, <1>2, <1>3, <1>6, GoesInv DEF IInv, TypeInv

LEMMA WriteSecondInv ==
    ASSUME IInv, NEW w \in Writers, WriteSecond(w)
    PROVE  IInv'
<1> DEFINE f == job[w].file
<1>1. job[w].at = "write 2" /\ job[w] # Idle /\ WriteBlock(w, 2) /\ Goes(w, "fsync")
  BY Busy DEF WriteSecond, At
<1>2. /\ content' \in [Files -> Blocks]
      /\ content'[f] = [content[f] EXCEPT ![2] = job[w].text]
      /\ \A g \in Files : g # f => content'[g] = content[g]
      /\ \A g \in Renamed : content'[g] = content[g]
  <2>1. job[w].at \in BeforeReplace
    BY <1>1 DEF BeforeReplace
  <2>2. 2 \in 1..2
    OBVIOUS
  <2> QED BY <1>1, <2>1, <2>2, WriteBlockFacts
<1>3. UNCHANGED <<saved, made, temps, renames, synced, look>>
  BY <1>1 DEF WriteBlock
<1>4. /\ f \in Files /\ f \notin Renamed /\ content[f] \in Blocks
      /\ content[f][1] = job[w].text
  BY <1>1, JobFacts DEF IInv, TypeInv, JobInv, Progress, BeforeReplace
<1>5. content'[f] = Whole(job[w].text)
  BY <1>2, <1>4 DEF Blocks, Whole
<1>6. Progress(w)'
  <2>1. job'[w].at = "fsync" /\ job'[w].file = f /\ job'[w].text = job[w].text
    BY <1>1, GoesFacts DEF IInv
  <2>2. ~job'[w].sure
    BY <1>1, GoesFacts, NotSure DEF IInv
  <2> QED BY <2>2, <1>3, <1>4, <1>5, <2>1, RenamedSame DEF Progress
<1> QED BY <1>1, <1>2, <1>3, <1>6, GoesInv DEF IInv, TypeInv

LEMMA FsyncInv ==
    ASSUME IInv, NEW w \in Writers, Fsync(w)
    PROVE  IInv'
<1> DEFINE f == job[w].file
<1>1. job[w].at = "fsync" /\ job[w] # Idle /\ Goes(w, "replace")
  BY Busy DEF Fsync, At
<1>2. /\ saved' = [saved EXCEPT ![f] = content[f]]
      /\ UNCHANGED <<content, made, temps, renames, synced, look>>
  BY DEF Fsync
<1>3. /\ f \in Files /\ f \notin Renamed /\ Renamed \subseteq Files
      /\ content[f] = Whole(job[w].text)
      /\ content \in [Files -> Blocks] /\ saved \in [Files -> Blocks]
  BY <1>1, JobFacts, RenamedFacts DEF IInv, TypeInv, JobInv, Progress, BeforeReplace
<1>4. /\ saved' \in [Files -> Blocks] /\ saved'[f] = content[f]
      /\ \A g \in Files : g # f => saved'[g] = saved[g]
      /\ \A g \in Renamed : saved'[g] = saved[g]
  BY <1>2, <1>3
<1>5. Progress(w)'
  <2>1. job'[w].at = "replace" /\ job'[w].file = f /\ job'[w].text = job[w].text
    BY <1>1, GoesFacts DEF IInv
  <2>2. ~job'[w].sure
    BY <1>1, GoesFacts, NotSure DEF IInv
  <2> QED BY <2>2, <1>2, <1>3, <1>4, <2>1, RenamedSame DEF Progress
<1> QED BY <1>1, <1>2, <1>3, <1>4, <1>5, GoesInv DEF IInv

LEMMA RaiseInv ==
    ASSUME IInv, NEW w \in Writers, Raise(w)
    PROVE  IInv'
<1>1. job[w].at \notin {"idle", "written"} /\ job[w] # Idle /\ Goes(w, "clean up")
  BY Busy DEF Raise, Free
<1>2. UNCHANGED <<content, saved, made, temps, renames, synced, look>>
  BY DEF Raise
<1>3. Progress(w)'
  <2>1. job'[w].at = "clean up"
    BY <1>1, GoesFacts DEF IInv
  <2>2. ~job'[w].sure
    BY <1>1, GoesFacts, NotSure DEF IInv
  <2> QED BY <2>2, <2>1 DEF Progress, BeforeReplace
<1> QED BY <1>1, <1>2, <1>3, GoesInv DEF IInv, TypeInv

LEMMA CleanUpInv ==
    ASSUME IInv, NEW w \in Writers, CleanUp(w)
    PROVE  IInv'
<1>1. job[w].at = "clean up" /\ job[w] # Idle /\ Goes(w, "raised")
  BY Busy DEF CleanUp, At
<1>2. temps' = temps \ {job[w].file} /\ UNCHANGED <<content, saved, made, renames, synced, look>>
  BY DEF CleanUp
<1>3. Progress(w)'
  <2>1. job'[w].at = "raised" /\ job'[w].file = job[w].file
    BY <1>1, GoesFacts DEF IInv
  <2>2. ~job'[w].sure
    BY <1>1, GoesFacts, NotSure DEF IInv
  <2> QED BY <2>2, <1>2, <2>1 DEF Progress, BeforeReplace
<1> QED BY <1>1, <1>2, <1>3, GoesInv DEF IInv, TypeInv

\* The file takes the target's name.
LEMMA ReplaceFacts ==
    ASSUME TypeInv, NEW f \in Files, renames' = Append(renames, f)
    PROVE  /\ renames' \in Seq(Files)
           /\ Len(renames') = Len(renames) + 1
           /\ \A i \in 1..Len(renames) : renames'[i] = renames[i]
           /\ renames'[Len(renames) + 1] = f
           /\ Renamed' = Renamed \cup {f}
<1>1. renames \in Seq(Files) /\ Len(renames) \in Nat
  BY LenProperties DEF TypeInv
<1>2. /\ renames' \in Seq(Files) /\ Len(renames') = Len(renames) + 1
      /\ \A i \in 1..Len(renames) : renames'[i] = renames[i]
      /\ renames'[Len(renames) + 1] = f
  BY <1>1, AppendProperties
<1>3. 1..Len(renames') = (1..Len(renames)) \cup {Len(renames) + 1}
  BY <1>1, <1>2
<1> QED BY <1>2, <1>3 DEF Renamed

LEMMA ReplaceInv ==
    ASSUME IInv, NEW w \in Writers, Replace(w)
    PROVE  IInv'
<1> DEFINE f == job[w].file
<1>1. job[w].at = "replace" /\ job[w] # Idle /\ Goes(w, "sync directory") /\ TypeInv
  BY Busy DEF Replace, At, IInv
<1>2. /\ temps' = temps \ {f} /\ renames' = Append(renames, f)
      /\ UNCHANGED <<content, saved, made, synced, look>>
  BY DEF Replace
<1>3. /\ f \in Files /\ job[w].text \in Texts /\ f \notin Renamed
      /\ content[f] = Whole(job[w].text) /\ saved[f] = Whole(job[w].text)
  BY <1>1, JobFacts DEF IInv, JobInv, Progress, BeforeReplace
<1>4. /\ renames' \in Seq(Files) /\ Len(renames') = Len(renames) + 1
      /\ \A i \in 1..Len(renames) : renames'[i] = renames[i]
      /\ Renamed' = Renamed \cup {f}
  BY <1>1, <1>2, <1>3, ReplaceFacts
<1>5. /\ job' \in [Writers -> {Idle} \cup Jobs]
      /\ job'[w] # Idle /\ job'[w].at = "sync directory" /\ job'[w].file = f
      /\ \A v \in Writers : v # w => job'[v] = job[v]
  BY <1>1, GoesFacts
<1>6. Len(renames) \in Nat /\ synced \in 0..Len(renames)
  BY <1>1, RenamedFacts DEF TypeInv
<1>7. synced' \in 0..Len(renames')
  BY <1>2, <1>4, <1>6
<1>8. TypeInv'
  BY <1>1, <1>2, <1>4, <1>5, <1>7 DEF TypeInv
<1>9. FreshInv'
  <2>1. \A v \in Writers : job'[v] # Idle => job[v] # Idle /\ job'[v].file = job[v].file
    BY <1>1, <1>5
  <2>2. \A g \in Renamed' : g \in Renamed \/ \E v \in Writers : job[v] # Idle /\ g = job[v].file
    BY <1>1, <1>4
  <2> QED BY <1>2, <2>1, <2>2, KeepFresh
<1>10. ASSUME NEW v \in Writers, job'[v] # Idle PROVE Progress(v)'
  <2>1. CASE v = w
    <3>1. f \in Renamed' /\ f \notin temps'
      BY <1>2, <1>4
    <3>2. ~job'[w].sure
      BY <1>1, GoesFacts, NotSure
    <3> QED BY <1>5, <2>1, <3>1, <3>2 DEF Progress, BeforeReplace
  <2>2. CASE v # w
    <3>1. job'[v] = job[v] /\ job[v] # Idle
      BY <1>5, <1>10, <2>2
    <3>2. \A i \in 1..synced : i \in 1..synced' /\ renames'[i] = renames[i]
      BY <1>2, <1>4, <1>6
    <3>3. \A g \in Files : g # f => content'[g] = content[g] /\ saved'[g] = saved[g]
      BY <1>2
    <3> QED BY <1>1, <1>2, <1>4, <2>2, <3>1, <3>2, <3>3, OthersProgress
  <2> QED BY <2>1, <2>2
<1>11. RenamedInv'
  BY <1>2, <1>3, <1>4, WholeFacts DEF IInv, RenamedInv
<1>12. LookInv'
  BY <1>2, <1>4, KeepSeen
<1> QED BY <1>8, <1>9, <1>10, <1>11, <1>12 DEF IInv, JobInv

LEMMA SyncDirectoryInv ==
    ASSUME IInv, NEW w \in Writers, SyncDirectory(w)
    PROVE  IInv'
<1> DEFINE f == job[w].file
<1>1. job[w].at = "sync directory" /\ job[w] # Idle /\ job[w] \in Jobs /\ TypeInv
  BY Busy, JobFacts DEF SyncDirectory, At, IInv
<1>2. UNCHANGED <<content, saved, made, temps, renames, look>> /\ Renamed' = Renamed
  BY RenamedSame DEF SyncDirectory
<1>3. f \notin temps /\ f \in Renamed /\ job[w].sure \in BOOLEAN
  BY <1>1, JobFacts DEF IInv, JobInv, Progress
<1>4. CASE Goes(w, "written") /\ synced' = synced
  <2>1. /\ job'[w].at = "written" /\ job'[w].file = f /\ job'[w].sure = job[w].sure
    BY <1>1, <1>4, GoesFacts
  <2>2. ~job'[w].sure
    BY <1>1, <2>1, NotSure
  <2>3. Progress(w)'
    BY <1>2, <1>3, <1>4, <2>1, <2>2 DEF Progress, BeforeReplace
  <2> QED BY <1>1, <1>2, <1>4, <2>3, GoesInv DEF TypeInv
<1>5. CASE /\ synced' = Len(renames)
           /\ job' = [job EXCEPT ![w].at = "written", ![w].sure = TRUE]
  <2> DEFINE new == [[job[w] EXCEPT !.at = "written"] EXCEPT !.sure = TRUE]
  <2>1. new \in Jobs /\ new.at = "written" /\ new.file = f
    BY <1>1 DEF Jobs
  <2>2. job' = [job EXCEPT ![w] = new]
    BY <1>1, <1>5 DEF TypeInv, Jobs
  <2> HIDE DEF new
  <2>3. new # Idle
    BY <2>1 DEF Idle
  <2>4. /\ job' \in [Writers -> {Idle} \cup Jobs]
        /\ job'[w] = new /\ \A v \in Writers : v # w => job'[v] = job[v]
    BY <1>1, <2>1, <2>2 DEF TypeInv
  <2>5. Len(renames) \in Nat /\ synced \in 0..Len(renames)
    BY <1>1, RenamedFacts DEF TypeInv
  <2>6. TypeInv'
    <3>1. synced' \in 0..Len(renames')
      BY <1>2, <1>5, <2>5
    <3> QED BY <1>1, <1>2, <2>4, <3>1 DEF TypeInv
  <2>7. FreshInv'
    <3>1. \A v \in Writers : job'[v] # Idle => job[v] # Idle /\ job'[v].file = job[v].file
      BY <1>1, <2>1, <2>4
    <3> QED BY <1>2, <3>1, KeepFresh
  <2>8. ASSUME NEW v \in Writers, job'[v] # Idle PROVE Progress(v)'
    <3>1. CASE v = w
      <4>1. \E i \in 1..synced' : renames'[i] = f
        BY <1>2, <1>3, <1>5 DEF Renamed
      <4> QED BY <1>2, <1>3, <2>1, <2>4, <3>1, <4>1 DEF Progress, BeforeReplace
    <3>2. CASE v # w
      <4>1. job'[v] = job[v] /\ job[v] # Idle
        BY <2>4, <2>8, <3>2
      <4>2. \A i \in 1..synced : i \in 1..synced' /\ renames'[i] = renames[i]
        BY <1>2, <1>5, <2>5
      <4> QED BY <1>1, <1>2, <3>2, <4>1, <4>2, OthersProgress
    <3> QED BY <3>1, <3>2
  <2>9. RenamedInv' /\ LookInv'
    BY <1>2, KeepSeen DEF IInv, RenamedInv
  <2> QED BY <2>6, <2>7, <2>8, <2>9 DEF IInv, JobInv
<1> QED BY <1>4, <1>5 DEF SyncDirectory

LEMMA KillInv ==
    ASSUME IInv, NEW w \in Writers, Kill(w)
    PROVE  IInv'
<1>1. /\ UNCHANGED <<content, saved, made, temps, renames, synced, look>> /\ Renamed' = Renamed
      /\ job \in [Writers -> {Idle} \cup Jobs]
  BY RenamedSame DEF Kill, IInv, TypeInv
<1>2. /\ job' \in [Writers -> {Idle} \cup Jobs]
      /\ job'[w] = Idle /\ \A v \in Writers : v # w => job'[v] = job[v]
  BY <1>1 DEF Kill
<1>3. TypeInv'
  BY <1>1, <1>2 DEF IInv, TypeInv
<1>4. FreshInv'
  BY <1>1, <1>2, KeepFresh
<1>5. ASSUME NEW v \in Writers, job'[v] # Idle PROVE Progress(v)'
  <2>1. job'[v] = job[v] /\ Progress(v)
    BY <1>2, <1>5 DEF IInv, JobInv
  <2> QED BY <1>1, <2>1 DEF Progress
<1>6. RenamedInv' /\ LookInv'
  BY <1>1, KeepSeen DEF IInv, RenamedInv
<1> QED BY <1>3, <1>4, <1>5, <1>6 DEF IInv, JobInv

\* Readers change nothing but what they look at.
LEMMA LookingInv ==
    ASSUME IInv, NEW r \in Readers,
           UNCHANGED <<content, saved, made, temps, renames, synced, job>>,
           NEW l \in Looks, look' = [look EXCEPT ![r] = l], Seeing(r)'
    PROVE  IInv'
<1>1. Renamed' = Renamed /\ look \in [Readers -> {Idle} \cup Looks]
  BY RenamedSame DEF IInv, TypeInv
<1>2. /\ look' \in [Readers -> {Idle} \cup Looks]
      /\ \A q \in Readers : q # r => look'[q] = look[q]
  BY <1>1
<1>3. TypeInv'
  BY <1>2 DEF IInv, TypeInv
<1>4. FreshInv' /\ JobInv' /\ RenamedInv'
  BY <1>1 DEF IInv, FreshInv, JobInv, Progress, RenamedInv
<1>5. LookInv'
  BY <1>1, <1>2 DEF IInv, LookInv, Seeing
<1> QED BY <1>3, <1>4, <1>5 DEF IInv

LEMMA OpenInv ==
    ASSUME IInv, NEW r \in Readers, Open(r)
    PROVE  IInv'
<1> DEFINE l == [at |-> "read 1", file |-> renames[Len(renames)], blocks |-> Empty]
<1>1. TypeInv /\ look \in [Readers -> {Idle} \cup Looks]
  BY DEF IInv, TypeInv
<1>2. renames[Len(renames)] \in Renamed /\ renames[Len(renames)] \in Files
  <2>1. renames # <<>> /\ renames \in Seq(Files)
    BY <1>1 DEF Open, TypeInv
  <2>2. Len(renames) \in 1..Len(renames)
    BY <2>1, EmptySeq, LenProperties
  <2> QED BY <1>1, <2>2, RenamedFacts DEF Renamed
<1>3. l \in Looks
  BY <1>2 DEF Looks, Blocks, Empty
<1>4. look' = [look EXCEPT ![r] = l] /\ UNCHANGED <<content, saved, made, temps, renames, synced, job>>
  BY DEF Open
<1>5. look'[r] = l
  BY <1>1, <1>4
<1>6. Seeing(r)'
  <2>1. l.at = "read 1" /\ l.file = renames[Len(renames)]
    OBVIOUS
  <2> QED BY <1>2, <1>4, <1>5, <2>1, RenamedSame DEF Seeing
<1> QED BY <1>3, <1>4, <1>6, LookingInv

LEMMA ReadInv ==
    ASSUME IInv, NEW r \in Readers, Read(r)
    PROVE  IInv'
<1> DEFINE l == look[r]
<1>1. look \in [Readers -> {Idle} \cup Looks] /\ content \in [Files -> Blocks]
  BY DEF IInv, TypeInv
<1>2. l.at # "idle" /\ l # Idle
  <2>1. l.at = "read 1" \/ l.at = "read 2"
    BY DEF Read
  <2>2. Idle.at = "idle"
    BY DEF Idle
  <2> QED BY <2>1, <2>2
<1>3. l \in Looks /\ l.file \in Files /\ l.blocks \in Blocks
  BY <1>1, <1>2 DEF Looks
<1>4. l.file \in Renamed
  BY <1>2 DEF Read, IInv, LookInv, Seeing
<1>5. content[l.file] \in Contents /\ content[l.file] \in Blocks
  BY <1>1, <1>3, <1>4 DEF IInv, RenamedInv
<1>6. UNCHANGED <<content, saved, made, temps, renames, synced, job>> /\ Renamed' = Renamed
  BY RenamedSame DEF Read
<1>7. CASE /\ l.at = "read 1"
           /\ look' = [look EXCEPT ![r].at = "read 2", ![r].blocks[1] = content[l.file][1]]
  <2> DEFINE blocks == [l.blocks EXCEPT ![1] = content[l.file][1]]
             new == [[l EXCEPT !.at = "read 2"] EXCEPT !.blocks = blocks]
  <2>1. blocks \in Blocks /\ blocks[1] = content[l.file][1]
    BY <1>3, <1>5 DEF Blocks
  <2>2. look' = [look EXCEPT ![r] = new]
    BY <1>1, <1>3, <1>7 DEF Looks
  <2> HIDE DEF blocks
  <2>3. new \in Looks /\ new.at = "read 2" /\ new.file = l.file /\ new.blocks = blocks
    BY <1>3, <2>1 DEF Looks
  <2> HIDE DEF new
  <2>4. look'[r] = new
    BY <1>1, <2>2
  <2>5. Seeing(r)'
    BY <1>4, <1>6, <2>1, <2>3, <2>4 DEF Seeing
  <2> QED BY <1>6, <2>2, <2>3, <2>5, LookingInv
<1>8. CASE /\ l.at = "read 2"
           /\ look' = [look EXCEPT ![r].at = "seen", ![r].blocks[2] = content[l.file][2]]
  <2> DEFINE blocks == [l.blocks EXCEPT ![2] = content[l.file][2]]
             new == [[l EXCEPT !.at = "seen"] EXCEPT !.blocks = blocks]
  <2>1. l.blocks[1] = content[l.file][1]
    BY <1>2, <1>8 DEF IInv, LookInv, Seeing
  <2>2. blocks = content[l.file]
    BY <1>3, <1>5, <2>1 DEF Blocks
  <2>3. look' = [look EXCEPT ![r] = new]
    BY <1>1, <1>3, <1>8 DEF Looks
  <2> HIDE DEF blocks
  <2>4. new \in Looks /\ new.at = "seen" /\ new.blocks = blocks
    BY <1>3, <1>5, <2>2 DEF Looks
  <2> HIDE DEF new
  <2>5. look'[r] = new
    BY <1>1, <2>3
  <2>6. Seeing(r)'
    BY <1>5, <2>2, <2>4, <2>5 DEF Seeing
  <2> QED BY <1>6, <2>3, <2>4, <2>6, LookingInv
<1> QED BY <1>7, <1>8 DEF Read

\* What had the target's name and was on the disk comes back as it was.
LEMMA LosePowerFacts ==
    ASSUME IInv, LosePower
    PROVE  /\ content' \in [Files -> Blocks] /\ saved' = content'
           /\ \A f \in Renamed : content'[f] = content[f]
           /\ \A f \in Files : saved[f] = content[f] => content'[f] = content[f]
           /\ \E k \in synced..Len(renames) :
                  /\ renames' = SubSeq(renames, 1, k) /\ synced' = k
                  /\ k \in Nat /\ k <= Len(renames)
                  /\ renames' \in Seq(Files) /\ Len(renames') = k
                  /\ \A i \in 1..k : renames'[i] = renames[i]
           /\ Renamed' \subseteq Renamed
<1>1. /\ content \in [Files -> Blocks] /\ saved \in [Files -> Blocks]
      /\ renames \in Seq(Files) /\ Len(renames) \in Nat /\ synced \in 0..Len(renames)
      /\ Renamed \subseteq Files
  BY RenamedFacts DEF IInv, TypeInv
<1>2. PICK kept \in SUBSET {b \in Files \X (1..2) : content[b[1]][b[2]] # saved[b[1]][b[2]]} :
          content' = [f \in Files |-> [i \in 1..2 |->
              IF <<f, i>> \in kept THEN content[f][i] ELSE saved[f][i]]]
  BY DEF LosePower
<1>3. content' \in [Files -> Blocks]
  BY <1>1, <1>2 DEF Blocks
<1>4. ASSUME NEW f \in Files, saved[f] = content[f] PROVE content'[f] = content[f]
  <2>1. content'[f] = [i \in 1..2 |-> IF <<f, i>> \in kept THEN content[f][i] ELSE content[f][i]]
    BY <1>2, <1>4
  <2>2. content'[f] = [i \in 1..2 |-> content[f][i]]
    BY <2>1
  <2>3. content[f] \in Blocks
    BY <1>1
  <2> QED BY <2>2, <2>3 DEF Blocks
<1>5. \A f \in Renamed : content'[f] = content[f]
  BY <1>1, <1>4 DEF IInv, RenamedInv
<1>6. PICK k \in synced..Len(renames) : renames' = SubSeq(renames, 1, k) /\ synced' = k
  BY DEF LosePower
<1>7. k \in Nat /\ k <= Len(renames)
  BY <1>1
<1>8. /\ renames' \in Seq(Files) /\ Len(renames') = k
      /\ \A i \in 1..k : renames'[i] = renames[i]
  BY <1>1, <1>6, <1>7, SMTT(30)
<1>9. Renamed' \subseteq Renamed
  BY <1>1, <1>7, <1>8 DEF Renamed
<1> QED BY <1>3, <1>4, <1>5, <1>6, <1>7, <1>8, <1>9 DEF LosePower

LEMMA LosePowerInv ==
    ASSUME IInv, LosePower
    PROVE  IInv'
<1>1. /\ job' = [w \in Writers |-> Idle] /\ look' = [r \in Readers |-> Idle]
      /\ UNCHANGED <<made, temps>>
  BY DEF LosePower
<1>2. \A w \in Writers : job'[w] = Idle
  BY <1>1
<1>3. \A r \in Readers : look'[r] = Idle
  BY <1>1
<1>4. TypeInv'
  <2>1. renames' \in Seq(Files) /\ synced' \in 0..Len(renames')
    BY LosePowerFacts
  <2> QED BY <1>1, <2>1, LosePowerFacts DEF IInv, TypeInv
<1>5. FreshInv'
  BY <1>1, <1>2, LosePowerFacts, KeepFresh
<1>6. RenamedInv'
  BY LosePowerFacts DEF IInv, RenamedInv
<1>7. JobInv' /\ LookInv'
  BY <1>2, <1>3 DEF JobInv, LookInv
<1> QED BY <1>4, <1>5, <1>6, <1>7 DEF IInv

LEMMA StepInv == IInv /\ [Next]_vars => IInv'
<1> SUFFICES ASSUME IInv, [Next]_vars PROVE IInv'
  OBVIOUS
<1>1. ASSUME NEW w \in Writers, WriterNext(w) PROVE IInv'
  <2>1. ASSUME NEW t \in Texts, Begin(w, t) PROVE IInv'
    BY <2>1, BeginInv
  <2>2. CASE WriteFirst(w)
    BY <2>2, WriteFirstInv
  <2>3. CASE WriteSecond(w)
    BY <2>3, WriteSecondInv
  <2>4. CASE Fsync(w)
    BY <2>4, FsyncInv
  <2>5. CASE Replace(w)
    BY <2>5, ReplaceInv
  <2>6. CASE SyncDirectory(w)
    BY <2>6, SyncDirectoryInv
  <2>7. CASE Raise(w)
    BY <2>7, RaiseInv
  <2>8. CASE CleanUp(w)
    BY <2>8, CleanUpInv
  <2>9. CASE Kill(w)
    BY <2>9, KillInv
  <2> QED BY <1>1, <2>1, <2>2, <2>3, <2>4, <2>5, <2>6, <2>7, <2>8, <2>9 DEF WriterNext
<1>2. ASSUME NEW r \in Readers, Open(r) \/ Read(r) PROVE IInv'
  BY <1>2, OpenInv, ReadInv
<1>3. CASE LosePower
  BY <1>3, LosePowerInv
<1>4. CASE UNCHANGED vars
  <2>1. UNCHANGED <<content, saved, made, temps, renames, synced, job, look>> /\ Renamed' = Renamed
    BY <1>4, RenamedSame DEF vars
  <2> QED BY <2>1 DEF IInv, TypeInv, FreshInv, JobInv, Progress, RenamedInv, LookInv, Seeing
<1> QED BY <1>1, <1>2, <1>3, <1>4 DEF Next

LEMMA Invariance == Spec => []IInv
<1>1. Init => IInv
  BY InitInv
<1>2. IInv /\ [Next]_vars => IInv'
  BY StepInv
<1> QED BY <1>1, <1>2, PTL DEF Spec

-----------------------------------------------------------------------------
(* What callers and readers rely on.                                       *)

\* A reader that has read to the end has seen one whole text, whoever raised, died
\* or lost power meanwhile.
THEOREM ReadersCorrect == Spec => []ReadersSeeWholeFiles
<1>1. IInv => ReadersSeeWholeFiles
  <2> SUFFICES ASSUME IInv, NEW r \in Readers, look[r].at = "seen"
               PROVE  look[r].blocks \in Contents
    BY DEF ReadersSeeWholeFiles
  <2>1. look[r] # Idle
    BY DEF Idle
  <2> QED BY <2>1 DEF IInv, LookInv, Seeing
<1> QED BY <1>1, Invariance, PTL

\* A call that ends leaves no temporary file.
THEOREM NoLitterCorrect == Spec => []NoLitter
<1>1. IInv => NoLitter
  <2> SUFFICES ASSUME IInv, NEW w \in Writers, At(w, "written") \/ At(w, "raised")
               PROVE  job[w].file \notin temps
    BY DEF NoLitter
  <2>1. job[w] # Idle
    BY Busy DEF At
  <2> QED BY <2>1 DEF IInv, JobInv, Progress, At
<1> QED BY <1>1, Invariance, PTL

\* A text that a call was sure of is on the disk, whole, until it is replaced.
THEOREM WrittenCorrect == Spec => []WrittenIsSafe
<1>1. IInv => WrittenIsSafe
  <2> SUFFICES ASSUME IInv, NEW w \in Writers, At(w, "written"), job[w].sure
               PROVE  \E i \in 1..synced : renames[i] = job[w].file /\ saved[job[w].file] \in Contents
    BY DEF WrittenIsSafe
  <2>1. job[w] # Idle
    BY Busy DEF At
  <2>2. PICK i \in 1..synced : renames[i] = job[w].file
    BY <2>1 DEF IInv, JobInv, Progress
  <2>3. i \in 1..Len(renames)
    BY RenamedFacts DEF IInv, TypeInv
  <2>4. saved[renames[i]] \in Contents
    BY <2>3 DEF IInv, RenamedInv, Renamed
  <2> QED BY <2>2, <2>4
<1> QED BY <1>1, Invariance, PTL

-----------------------------------------------------------------------------
(* The register.                                                           *)

Log == [i \in 1..Len(renames) |-> content[renames[i]]]

LEMMA LogFacts ==
    ASSUME IInv
    PROVE  Log \in Seq(Contents) /\ Len(Log) = Len(renames)
<1>1. Len(renames) \in Nat
  BY RenamedFacts DEF IInv
<1>2. \A i \in 1..Len(renames) : content[renames[i]] \in Contents
  BY DEF IInv, RenamedInv, Renamed
<1> QED BY <1>1, <1>2 DEF Log

\* Nothing a reader could see changes while files are written.
LEMMA LogSame ==
    ASSUME renames' = renames, \A f \in Renamed : content'[f] = content[f]
    PROVE  Log' = Log
BY DEF Log, Renamed

\* The file is a register of whole texts, whatever writers, readers and crashes do.
THEOREM Refinement == Spec => ImplementsRegister
<1>1. Init => Register!Init
  <2> SUFFICES ASSUME Init PROVE Log \in {<<>>} \cup {<<c>> : c \in Contents} /\ synced = Len(Log)
    BY DEF Register!Init, Log
  <2>1. IInv
    BY InitInv
  <2>2. Len(Log) = Len(renames) /\ Log \in Seq(Contents)
    BY <2>1, LogFacts
  <2>3. CASE renames = <<>>
    BY <2>2, <2>3, EmptySeq DEF Init
  <2>4. CASE renames = <<1>>
    <3>1. Len(Log) = 1 /\ Log[1] \in Contents
      <4>1. Len(renames) = 1
        BY <2>4
      <4> QED BY <2>2, <4>1, ElementOfSeq
    <3>2. Log = <<Log[1]>>
      BY <2>2, <3>1
    <3> QED BY <2>4, <3>1, <3>2 DEF Init
  <2> QED BY <2>2, <2>3, <2>4 DEF Init
<1>2. IInv /\ [Next]_vars => [Register!Next]_<<Log, synced>>
  <2> SUFFICES ASSUME IInv, [Next]_vars
               PROVE  \/ \E c \in Contents : Log' = Append(Log, c) /\ synced' = synced
                      \/ synced' \in synced..Len(Log) /\ Log' = Log
                      \/ \E k \in synced..Len(Log) : Log' = SubSeq(Log, 1, k) /\ synced' = k
    BY DEF Register!Next, Register!Write, Register!Secure, Register!LosePower, Log
  <2>a. /\ Len(Log) = Len(renames) /\ Log \in Seq(Contents)
        /\ Len(renames) \in Nat /\ synced \in 0..Len(renames)
    BY LogFacts, RenamedFacts DEF IInv, TypeInv
  <2>b. Log' = Log /\ synced' = synced => synced' \in synced..Len(Log) /\ Log' = Log
    BY <2>a
  <2>1. ASSUME NEW w \in Writers, WriterNext(w)
        PROVE  \/ \E c \in Contents : Log' = Append(Log, c) /\ synced' = synced
               \/ synced' \in synced..Len(Log) /\ Log' = Log
    <3>1. CASE WriteFirst(w) \/ WriteSecond(w)
      <4>1. PICK i \in 1..2 : WriteBlock(w, i) /\ job[w] # Idle /\ job[w].at \in BeforeReplace
        <5>1. CASE WriteFirst(w)
          <6>1. WriteBlock(w, 1) /\ job[w] # Idle /\ job[w].at \in BeforeReplace
            BY <5>1, Busy DEF WriteFirst, At, BeforeReplace
          <6> QED BY <6>1
        <5>2. CASE WriteSecond(w)
          <6>1. WriteBlock(w, 2) /\ job[w] # Idle /\ job[w].at \in BeforeReplace
            BY <5>2, Busy DEF WriteSecond, At, BeforeReplace
          <6> QED BY <6>1
        <5> QED BY <3>1, <5>1, <5>2
      <4>2. \A f \in Renamed : content'[f] = content[f]
        BY <4>1, WriteBlockFacts
      <4> QED BY <2>b, <4>1, <4>2, LogSame DEF WriteBlock
    <3>2. CASE Replace(w)
      <4> DEFINE f == job[w].file
      <4>1. job[w].at = "replace" /\ job[w] # Idle
        BY <3>2, Busy DEF Replace, At
      <4>2. f \in Files /\ content[f] \in Contents /\ renames' = Append(renames, f)
            /\ UNCHANGED <<content, synced>>
        BY <3>2, <4>1, JobFacts, WholeFacts DEF Replace, IInv, JobInv, Progress
      <4>3. /\ Len(renames') = Len(renames) + 1
            /\ \A i \in 1..Len(renames) : renames'[i] = renames[i]
            /\ renames'[Len(renames) + 1] = f
        BY <4>2, ReplaceFacts DEF IInv
      <4>4. /\ Append(Log, content[f]) \in Seq(Contents)
            /\ Len(Append(Log, content[f])) = Len(renames) + 1
            /\ \A i \in 1..Len(renames) : Append(Log, content[f])[i] = Log[i]
            /\ Append(Log, content[f])[Len(renames) + 1] = content[f]
        BY <2>a, <4>2, AppendProperties
      <4>5. \A i \in 1..Len(renames) : Log[i] = content[renames[i]] /\ Log[i] \in Contents
        BY <2>a, ElementOfSeq DEF Log
      <4>6. \A i \in 1..Len(renames') : content'[renames'[i]] = Append(Log, content[f])[i]
        BY <2>a, <4>2, <4>3, <4>4, <4>5
      <4>7. Log' \in Seq(Contents) /\ Len(Log') = Len(renames) + 1
        <5>1. \A i \in 1..Len(renames) + 1 : content'[renames'[i]] \in Contents
          BY <4>2, <4>3, <4>4, <4>5, <4>6, <2>a
        <5> QED BY <2>a, <4>3, <5>1 DEF Log
      <4>8. Log' = Append(Log, content[f])
        <5>1. \A i \in 1..Len(renames) + 1 : Log'[i] = Append(Log, content[f])[i]
          BY <4>3, <4>6 DEF Log
        <5> QED BY <4>4, <4>7, <5>1, SeqEqual
      <4> QED BY <4>2, <4>8
    <3>3. CASE SyncDirectory(w)
      <4>1. UNCHANGED <<renames, content>> /\ synced' \in {synced, Len(renames)}
        BY <3>3 DEF SyncDirectory
      <4> QED BY <2>a, <4>1, LogSame
    <3>4. CASE \/ \E t \in Texts : Begin(w, t)
               \/ Fsync(w) \/ Raise(w) \/ CleanUp(w) \/ Kill(w)
      <4>1. UNCHANGED <<renames, content, synced>>
        BY <3>4 DEF Begin, Fsync, Raise, CleanUp, Kill
      <4> QED BY <2>b, <4>1, LogSame
    <3> QED BY <2>1, <3>1, <3>2, <3>3, <3>4 DEF WriterNext
  <2>2. ASSUME NEW r \in Readers, Open(r) \/ Read(r)
        PROVE  synced' \in synced..Len(Log) /\ Log' = Log
    <3>1. UNCHANGED <<renames, content, synced>>
      BY <2>2 DEF Open, Read
    <3> QED BY <2>b, <3>1, LogSame
  <2>3. CASE LosePower
    <3>1. PICK k \in synced..Len(renames) :
              /\ renames' = SubSeq(renames, 1, k) /\ synced' = k
              /\ k \in Nat /\ k <= Len(renames) /\ Len(renames') = k
              /\ \A i \in 1..k : renames'[i] = renames[i]
      BY <2>3, LosePowerFacts
    <3>2. \A f \in Renamed : content'[f] = content[f]
      BY <2>3, LosePowerFacts
    <3>3. \A i \in 1..k : content'[renames'[i]] = content[renames[i]]
      BY <2>a, <3>1, <3>2 DEF Renamed
    <3>4. Log' = [i \in 1..k |-> Log[i]]
      BY <2>a, <3>1, <3>3 DEF Log
    <3>5. SubSeq(Log, 1, k) = [i \in 1..k |-> Log[i]]
      BY <2>a, <3>1, SMTT(30)
    <3> QED BY <2>a, <3>1, <3>4, <3>5
  <2>4. CASE UNCHANGED vars
    BY <2>b, <2>4, LogSame DEF vars
  <2> QED BY <2>1, <2>2, <2>3, <2>4 DEF Next
<1>3. QED
  BY <1>1, <1>2, Invariance, PTL DEF Spec, ImplementsRegister, Register!Spec, Log
=============================================================================
