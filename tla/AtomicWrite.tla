---------------------------- MODULE AtomicWrite -----------------------------
(***************************************************************************)
(* atomic_write_text (core/files.py) on one file of a local directory:     *)
(* temporary file, fsync and replace.  Writers raise, are killed, and the  *)
(* machine loses power, while readers read.                                *)
(*                                                                         *)
(* A text fills two blocks.  What the disk holds of a file that was not    *)
(* synced is any mixture of old and new blocks; renames reach the disk in  *)
(* their order.                                                            *)
(***************************************************************************)
EXTENDS Naturals, Sequences, FiniteSets

CONSTANTS
    Writers,
    Readers,
    Texts,
    Nothing,   \* what a block holds that was never written
    MaxFiles   \* bound on the files made

ASSUME WriteAssumption ==
    /\ Nothing \notin Texts
    /\ MaxFiles \in Nat \ {0}

VARIABLES
    content,  \* file -> its blocks, as processes see them
    saved,    \* file -> its blocks on the disk
    made,     \* number of files made
    temps,    \* files that have a temporary name
    renames,  \* files that have had the target's name, the present last
    synced,   \* how many of these renames are on the disk
    job,      \* writer -> the write it is in
    look      \* reader -> the read it is in

vars == <<content, saved, made, temps, renames, synced, job, look>>

Files == 1..MaxFiles
Blocks == [1..2 -> Texts \cup {Nothing}]
Empty == [i \in 1..2 |-> Nothing]
Whole(text) == [i \in 1..2 |-> text]
Contents == {Whole(t) : t \in Texts}

Idle == [at |-> "idle"]
\* "sure": the directory was synced after the replace.
Jobs == [at : {"write 1", "write 2", "fsync", "replace", "sync directory",
               "clean up", "written", "raised"},
         file : Files, text : Texts, sure : BOOLEAN]
Looks == [at : {"read 1", "read 2", "seen"}, file : Files, blocks : Blocks]

-----------------------------------------------------------------------------
\* No file, or one that was written long ago.
Init ==
    /\ \/ made = 0 /\ renames = <<>> /\ content = [f \in Files |-> Empty]
       \/ /\ made = 1 /\ renames = <<1>>
          /\ \E t \in Texts : content = [f \in Files |-> IF f = 1 THEN Whole(t) ELSE Empty]
    /\ saved = content
    /\ temps = {}
    /\ synced = Len(renames)
    /\ job = [w \in Writers |-> Idle]
    /\ look = [r \in Readers |-> Idle]

Free(w) == job[w].at \in {"idle", "written", "raised"}

At(w, place) == job[w].at = place

\* The writer goes on; the temporary file and the target stay as they are.
Goes(w, place) == job' = [job EXCEPT ![w].at = place]

\* Mutant: the temporary name is made from the target's alone.
BeginSharesName(w, text) ==
    LET f == IF temps = {} THEN made + 1 ELSE CHOOSE g \in temps : TRUE IN
    /\ Free(w)
    /\ f <= MaxFiles
    /\ made' = IF temps = {} THEN f ELSE made
    /\ temps' = {f}
    /\ content' = [content EXCEPT ![f] = Empty]
    /\ job' = [job EXCEPT ![w] = [at |-> "write 1", file |-> f, text |-> text, sure |-> FALSE]]
    /\ UNCHANGED <<saved, renames, synced, look>>

\* mkstemp: an empty file with a name of its own.
Begin(w, text) ==
    /\ Free(w)
    /\ made < MaxFiles
    /\ made' = made + 1
    /\ temps' = temps \cup {made + 1}
    /\ job' = [job EXCEPT ![w] = [at |-> "write 1", file |-> made + 1, text |-> text, sure |-> FALSE]]
    /\ UNCHANGED <<content, saved, renames, synced, look>>

WriteBlock(w, i) ==
    /\ content' = [content EXCEPT ![job[w].file][i] = job[w].text]
    /\ UNCHANGED <<saved, made, temps, renames, synced, look>>

WriteFirst(w) == At(w, "write 1") /\ WriteBlock(w, 1) /\ Goes(w, "write 2")

WriteSecond(w) == At(w, "write 2") /\ WriteBlock(w, 2) /\ Goes(w, "fsync")

\* Mutant: the handle is flushed but not synced.
FsyncOnlyFlushes(w) ==
    /\ At(w, "fsync")
    /\ Goes(w, "replace")
    /\ UNCHANGED <<content, saved, made, temps, renames, synced, look>>

Fsync(w) ==
    /\ At(w, "fsync")
    /\ saved' = [saved EXCEPT ![job[w].file] = content[job[w].file]]
    /\ Goes(w, "replace")
    /\ UNCHANGED <<content, made, temps, renames, synced, look>>

Replace(w) ==
    /\ At(w, "replace")
    /\ temps' = temps \ {job[w].file}
    /\ renames' = Append(renames, job[w].file)
    /\ Goes(w, "sync directory")
    /\ UNCHANGED <<content, saved, made, synced, look>>

\* Mutant: the call believes in a sync that failed.
SyncDirectoryHopes(w) ==
    /\ At(w, "sync directory")
    /\ synced' \in {synced, Len(renames)}
    /\ job' = [job EXCEPT ![w].at = "written", ![w].sure = TRUE]
    /\ UNCHANGED <<content, saved, made, temps, renames, look>>

\* _fsync_directory passes over an OSError: the call returns all the same.
SyncDirectory(w) ==
    /\ At(w, "sync directory")
    /\ \/ synced' = Len(renames) /\ job' = [job EXCEPT ![w].at = "written", ![w].sure = TRUE]
       \/ synced' = synced /\ Goes(w, "written")
    /\ UNCHANGED <<content, saved, made, temps, renames, look>>

\* A full disk, an error of replace, an interrupt: all end in the except clause,
\* also after the replace.
Raise(w) ==
    /\ ~Free(w)
    /\ ~At(w, "clean up")
    /\ Goes(w, "clean up")
    /\ UNCHANGED <<content, saved, made, temps, renames, synced, look>>

\* Mutant: the temporary file is left behind.
CleanUpForgets(w) ==
    /\ At(w, "clean up")
    /\ Goes(w, "raised")
    /\ UNCHANGED <<content, saved, made, temps, renames, synced, look>>

\* The temporary name is gone if the replace was done.
CleanUp(w) ==
    /\ At(w, "clean up")
    /\ temps' = temps \ {job[w].file}
    /\ Goes(w, "raised")
    /\ UNCHANGED <<content, saved, made, renames, synced, look>>

\* The process dies where it is.
Kill(w) ==
    /\ ~Free(w)
    /\ job' = [job EXCEPT ![w] = Idle]
    /\ UNCHANGED <<content, saved, made, temps, renames, synced, look>>

\* Files come back with blocks of either age, the target's name with one of the
\* files it stood for since it was last synced.
LosePower ==
    /\ \E kept \in SUBSET {b \in Files \X (1..2) : content[b[1]][b[2]] # saved[b[1]][b[2]]} :
           content' = [f \in Files |-> [i \in 1..2 |->
               IF <<f, i>> \in kept THEN content[f][i] ELSE saved[f][i]]]
    /\ saved' = content'
    /\ \E k \in synced..Len(renames) : renames' = SubSeq(renames, 1, k) /\ synced' = k
    /\ job' = [w \in Writers |-> Idle]
    /\ look' = [r \in Readers |-> Idle]
    /\ UNCHANGED <<made, temps>>

\* A reader keeps to the file it has opened.
Open(r) ==
    /\ look[r].at \in {"idle", "seen"}
    /\ renames # <<>>
    /\ look' = [look EXCEPT ![r] = [at |-> "read 1", file |-> renames[Len(renames)], blocks |-> Empty]]
    /\ UNCHANGED <<content, saved, made, temps, renames, synced, job>>

Read(r) ==
    LET l == look[r] IN
    /\ \/ /\ l.at = "read 1"
          /\ look' = [look EXCEPT ![r].at = "read 2", ![r].blocks[1] = content[l.file][1]]
       \/ /\ l.at = "read 2"
          /\ look' = [look EXCEPT ![r].at = "seen", ![r].blocks[2] = content[l.file][2]]
    /\ UNCHANGED <<content, saved, made, temps, renames, synced, job>>

WriterNext(w) ==
    \/ \E t \in Texts : Begin(w, t)
    \/ WriteFirst(w) \/ WriteSecond(w) \/ Fsync(w) \/ Replace(w) \/ SyncDirectory(w)
    \/ Raise(w) \/ CleanUp(w) \/ Kill(w)

Next ==
    \/ \E w \in Writers : WriterNext(w)
    \/ \E r \in Readers : Open(r) \/ Read(r)
    \/ LosePower

Spec == Init /\ [][Next]_vars

-----------------------------------------------------------------------------
\* "Readers see either the previous complete file or the new complete file,
\* never a partially written one": whatever raises, dies or loses power.
ReadersSeeWholeFiles ==
    \A r \in Readers : look[r].at = "seen" => look[r].blocks \in Contents

\* No call that returns or raises leaves its temporary file; only a process that
\* dies does.
NoLitter ==
    \A w \in Writers : At(w, "written") \/ At(w, "raised") => job[w].file \notin temps

\* A text whose write returned, the directory synced, is on the disk and stays
\* there until it is written over.
WrittenIsSafe ==
    \A w \in Writers : At(w, "written") /\ job[w].sure =>
        \E i \in 1..synced : renames[i] = job[w].file /\ saved[job[w].file] \in Contents

\* To its readers the file is a register: it holds whole texts, written in one
\* step each, and a loss of power takes it back by whole texts.
Register == INSTANCE FileRegister
    WITH log <- [i \in 1..Len(renames) |-> content[renames[i]]], safe <- synced

ImplementsRegister == Register!Spec
=============================================================================
