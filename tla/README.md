# Agent Lexicon in TLA+

Agent Lexicon keeps a team's terminology: scouts find candidate terms in a
code base, people and agents review them, `publish` turns the decisions into a
lexicon, and matchers, resolvers, guards and checks of branches use the
lexicon. This directory holds TLA+ specifications of the program, TLC
configurations that check them, and TLAPS proofs. Paths below are relative to
`src/agent_lexicon/` in the repository.

## The system

| Component | State | Operations | Talks to | Hard part | What makes it correct |
|---|---|---|---|---|---|
| workspace store (`workspace/state.py`) | SQLite tables: documents, candidates, evidence, review_decisions, review_events, decision_records, snapshots | save, clear, append, store scan results, list, publish record | everything | several processes and threads, a read outside the transaction, crashes, `busy_timeout` | state = replay of the log; both logs agree; transactions isolated |
| publish (`workspace/snapshot.py`, `workflows/simple.py`) | snapshot files, lexicon file | publish, `--update-lexicon` | store, lexicon file | many steps, no lock, crash between file and record | records true of files; what is written loads; no surface with two roles |
| term editing (`dictionary/terms.py`) | lexicon file | `term deprecate` | lexicon file | read-modify-write of a shared file | loses no term or alias |
| lexicon model, loader (`core/models.py`, `core/loader.py`) | none | parse, validate | all readers | rules across terms | accepts what the program writes |
| atomic writes (`core/files.py`) | files | `atomic_write_text` | publish, edit, config, merge | crash between write and replace | old or new file, never half |
| runtime cache (`core/cache.py`) | four LRU maps | load, get, clear | lexicon file, threads | stat before read; build outside the lock | never an object for another lexicon; bounded |
| matcher (`core/matcher.py`, `text/`) | automata | build, match | resolver, guard | failure links, places through normalization | finds what a search finds |
| resolver, linter, tool guard (`core/`) | none | resolve, lint, guard | matcher | ambiguous and unknown input | no tool without leave |
| dictionary merge, diff (`dictionary/`) | git-tracked lexicons | three-way merge, diff | git | conflicts, removal against change | symmetric in the sides; no silent loss |
| dictionary layout, CI (`dictionary/`) | none | list files, summarise | git | - | not modelled |
| ingest (`ingest/local.py`, `path_globs.py`) | none | find files, read one | scans | globs, gitignore, odd files | selects and reads what the rules say |
| scout discovery (`scout/`) | none | candidates, evidence, near misses | ingest, store | lines counted while some are left out; bounds of likeness | evidence is of its candidate; no suggestion lost |
| scout on git history (`scout/git_merge.py`, `lint_diff.py`) | none | report on a branch's added lines | git, matcher | reading a diff | lines are where they were added |
| baseline (`scout/baseline.py`) | baseline file | create, update, compare | CLI | counts against findings | a merge adds no debt |
| safety (`safety/`) | none | screen text, packs, prompts | review agent | phrases split or hidden | unsafe evidence is held back everywhere |
| review agent (`review_agent/`) | none | assess, consensus, data set | store, safety | thresholds, ties | a consensus is earned |
| policy (`policy/local.py`) | policy file | init, check | servers, CLI | modes, roles, a file half written | only the allowed act |
| review server (`web/review.py`) | policy decision taken at start | GET page, POST decision | store, policy, snapshots | a thread per request | answers tell the truth |
| MCP server (`mcp/server.py`) | none | submit, find, list | store, policy | an agent next to humans | policy before every write |
| workflows, CLI, configuration | configuration | the commands | all | several transactions | exit codes mean what they say |
| semantic scoring, evals | none | score | scout, resolver | numeric | not modelled |

The components meet at the store and at files. The web server's POST threads,
MCP processes and CLI runs write decisions; `sync` and `scan` write documents,
candidates and evidence; `publish` reads the inbox and the lexicon file and
writes snapshots, their records and, if asked, the lexicon file; the web server
reads snapshots back. Every writer of decisions asks the policy file first.
`lint-diff` and `check-merge` read git, the lexicon and the baseline file.

`PROJECT.json` lists the components with their status and the hazards with the
lines where they bite. `src/review.py` in the repository is a copy of
`web/review.py` that nothing imports.

## Modules

| Module | What it is |
|---|---|
| `DecisionLog` | abstract: a current decision per candidate and the log of all |
| `ReviewStore` | the store: calls step by step, one write lock, crashes |
| `ReviewStoreProofs` | its theorems |
| `Publish`, `PublishProofs` | publishers and editors over snapshot files, the lexicon file and the snapshots table; its theorems |
| `RuntimeCache`, `RuntimeCacheProofs` | threads over the process-wide cache, and a file that changes under it; its theorems |
| `FileRegister` | abstract: a file that holds one whole text after another |
| `AtomicWrite`, `AtomicWriteProofs` | `atomic_write_text` step by step, readers, crashes; its theorems |
| `LexiconDocument` | a lexicon as the loader builds it, and what the loader refuses |
| `SemanticDiff`, `SemanticMerge` | `dictionary/diff.py` and `dictionary/merge.py` as operators |
| `BranchMerge`, `BranchMergeProofs` | two branches of a lexicon, edited, merged and merged again; its theorems |
| `TextNormalization` | `text/unicode.py` and `text/identifiers.py` |
| `SurfaceMatcher` | the matcher: an automaton built and run step by step |
| `LexiconLinter` | every finding of `lint` |
| `ToolGuard`, `ToolGuardProofs` | resolver and guard on top of the matcher; the theorems of both |
| `PathRules`, `LocalIngest` | globs and `.gitignore`; which files a scan reads and how |
| `Surfaces`, `NearMiss` | terminology in a line, word by word; which term was meant |
| `GitDiff` | what `git diff` prints, and what the program reads in it |
| `TerminologyReport` | findings in added lines, baseline counts and filtering |
| `TerminologyGate` | a branch that is edited, linted, checked and merged |
| `LineContext`, `ScoutCandidates`, `ScoutEvidence` | what a line is; candidates and their scores; snippets for and against |
| `RepositoryScan` | a scan over files that change, stored in three transactions |
| `ScoutProofs` | theorems about scans, the skips of `NearMiss` and the lines read of diffs |
| `LocalPolicy` | modes, roles, actors, actions, the policy file |
| `PromptSafety`, `ReviewAgent` | screening of text; assessments, consensus, data set |
| `ReviewPlane`, `ReviewPlaneProofs` | composes the three with the web server, MCP servers, commands and the store; its theorems |
| `MC...` | each of these state machines on small sets |

Definitions named `... Mutant:` in their comment are plausible bugs; no
specification uses them. Each shows that one property can fail.

### ReviewStore

An actor is a thread of the web server, an MCP process or a CLI run. Its
position in a call is `pc`, its arguments and what it has read are `op`.
`db` is the committed database; `view` is the database as the holder of the
write lock sees it; `lock` is SQLite's single write lock.

| Action | Code |
|---|---|
| `BeginSave`, `BeginClear` | argument checks, `now = _utc_now()` before the connection is opened |
| `ReadRow` | the SELECT; Python's sqlite3 begins no transaction for it. Clear returns early when there is no row |
| `WriteRow` | INSERT OR REPLACE or DELETE: begins the transaction, takes the lock |
| `WriteEvent` | `_build_review_event` and INSERT INTO review_events |
| `WriteRecord`, `Commit` | the provenance record; the end of the `with` block |
| `BeginSync`, `StoreCandidates`, `StoreEvidence` | `sync`: two transactions of one statement |
| `AppendRecord` | `append_decision_record`; also what `store_snapshot_record` adds |
| `LockTimeout` | `busy_timeout` expires: OperationalError |
| `Fail` | the process dies or a statement raises: rollback |
| `Tick` | the wall clock, in whole seconds |

Each call and each event carry `since`, how many events there were when the call
began. No action reads it: it is history, with which `LatestEventIsCurrent` and
`ClearsNameWhatTheyCleared` tell calls that overlapped from those that did not.
The timestamp is taken before the wait for the write lock, so overlapping calls
can be listed in the reverse of their commits, and the row is read before the
transaction, so a clear event can name a decision that another call has replaced
by then; the two properties say that nothing else can bring that about.

`Spec` lets calls overlap. `FairSpec` adds weak fairness of each actor's `Step`, the steps a call
takes by itself: threads are scheduled, statements end, git has a two-second
timeout, and a wait for the lock ends by getting it or by `busy_timeout`. There
is no fairness on beginning a call, failing or the clock.

### Publish

A worker is a process that runs `publish` or `term deprecate`; `job` is what it
holds in memory. A term is a record of its id, canonical surface, aliases,
flags and replacement. Surfaces stand for their casefolded text. Scopes are
left out: every term is in one scope, the case in which surfaces collide most.
"excluded" stands for rejected, ambiguous and needs_split, which publish
treats alike.

| Action | Code |
|---|---|
| `LoadBase` | `load_lexicon`; a file that does not load ends the command |
| `Stamp` | snapshot id and `created_at` |
| `ReadInbox` | `list_review_items(limit=10_000)`, its order and limit; the error when none is reviewed; starter terms dropped |
| `DecideAlias` | first loop, with `_apply_deprecated_alias_decision` |
| `ExcludeItem`, `SkipItem`, `GenerateTerm` | second loop, with `_unique_term_id` |
| `WriteFile` | `atomic_write_text` of the snapshot |
| `StoreRecord` | `store_snapshot_record`; the command ends or goes on to `--update-lexicon` |
| `RewriteLexicon` | `_write_lexicon_file` of publish and of `term deprecate` |
| `EditLexicon` | `deprecate_alias_in_lexicon` on a freshly loaded file |
| `Review` | any review decision by anybody; its own steps are in ReviewStore |
| `Crash`, `Tick` | a killed command or a failed write; the clock |

`since` is history here too: how many records there were when a snapshot was
stamped. `created_at` is taken when a publish starts, so the Lexicon tab, which
shows the newest, may miss the last record, but only if the one it shows was
recorded while the last was being published (`TabShowsLastPublish`).
`LexiconKeepsTerms` is about two workers that read, then overwrite, one file: a
write keeps all that its worker had read. What others wrote in between is lost;
that is the code, and the property leaves exactly that out.

The two modules are not composed: Publish needs of the store only the current
decisions and that a record is stored in one transaction, and ReviewStore shows
that a decision enters the tables in one step (`ImplementsDecisionLog`).

### RuntimeCache

`store` holds the four OrderedDicts, least recently used first; `call` is what
a thread has in its local variables. Only the lookup and the insertion hold the
RLock, so they are one action each. The build between them is not locked:
for a lexicon it is `Read`, for compiled objects it takes no input that can
change and is part of the insertion. The models of one path and one format stand for all:
other paths have other keys and only take room. A compiled object is
modelled by what each of its parts was built for.

| Action | Code |
|---|---|
| `Stat` | `stat()`, or the load without the cache when it raises |
| `LookupHit`, `LookupMiss` | the first `with self._lock` with `_get_locked` and the counters; a miss of a guard or resolver goes on to look up what it is built around |
| `Read` | `load_lexicon`: what the file holds now, or an exception, which leaves nothing in the cache |
| `Put` | the second `with self._lock` with `_put_locked` |
| `Clear` | `clear()` |
| `Rewrite`, `RewriteLater`, `Tick` | other processes and the file system's clock |

`Spec` lets the file change without a change of its time. `TickingSpec` has
each content at a time of its own: what "mtime/size-based invalidation" relies
on.

### AtomicWrite

A file has blocks as processes see them (`content`) and as the disk holds them
(`saved`). `renames` lists the files that have had the target's name, `synced`
how many of these renames are on the disk. A text fills two blocks, the least
that can be half written.

| Action | Code |
|---|---|
| `Begin` | `mkstemp` in the target's directory |
| `WriteFirst`, `WriteSecond`, `Fsync`, `Replace`, `SyncDirectory` | the `try` block in order; `_fsync_directory` gives up silently |
| `Raise`, `CleanUp` | any exception, the `except BaseException` clause |
| `Kill`, `LosePower` | the process dies; blocks not synced come back in either age, renames in their order |
| `Open`, `Read` | a reader, block by block, of the file it opened |

`FileRegister` is the docstring's promise: whole texts, one step each, and a
loss of power goes back to a whole text.

### SemanticMerge and BranchMerge

Scopes, terms, aliases and proposals are objects with an id, fields, lists of
names, metadata and evidence; a term also has aliases. A lexicon is its
metadata and a sequence of each kind of object. One field stands for several
that the code merges alike (a label for kind, description and owner too).
`Loads` is what the loader refuses across objects: ids twice, references to
nothing, a replacement that is not there or is itself, one surface for two
terms in the same scopes. The code compares a surface's scopes as a tuple, so two
lists of one set of scopes in different orders do not collide, and the order the
merge leaves a list in can decide whether its result loads.

`Clash(b, o, t)` and `Settled(b, o, t)` are the comparison the code makes at every
place: both sides changed it, and differently; what is kept. Above them
`MergedWithin` merges an object that both sides still have part by part, and
`WholeConflict` is what is left where one removed what the other changed, or
both added. A conflict is the path of its place; wording is left out. A merge
without conflicts that does not load is reported as the conflict
`WholeLexicon`.

| Action | Code |
|---|---|
| `EditBranch` | external: somebody edits a branch in one place; the file still loads |
| `RunMerge` | `dictionary merge`: the merge, its warnings, and the diffs it is summed up with |
| `WriteMerged` | `write_merged_lexicon_json` over ours; theirs is the base of the next merge |

The loops that build a list are `Picked`, the elements at some places in their order,
as a recursive function, which can be reasoned about. `Facts` says what a lexicon
says as a flat set of facts (a part, a key in it, what is said there), with no
order. `KeepsBothEdits` compares the merge, which works object by object, with
`ThreeWay`, the three-way merge of these sets.

Two things are outside this property. The order within lists: it is kept from
one side or the other, and shows only in the order of scopes above. And the
data of an evidence entry whose key stays the same, which the merge compares
and the diff does not.

### TextNormalization, SurfaceMatcher, LexiconLinter and ToolGuard

A text is a sequence of characters; the Unicode tables (compatibility forms,
upper and lower case, separators, bidirectional controls) are constants.
Normalization drops, replaces and expands characters and keeps for each the
place it came from. A node of an automaton is the prefix it stands for; `fail`
and `output` are its links and the entries reported at it, one automaton for
surfaces whose case matters and one for the others (`mode`).

| Action | Code |
|---|---|
| `Plant` | `_build_automaton`: the trie of the surfaces and of their spellings in code |
| `Link`, `FinishLinks` | failure links breadth first, with the outputs they inherit |
| `BeginMatch`, `Scan`, `FinishScan` | `match` and `_scan`, one character a step, the scopes asked for, the boundaries of words, places mapped back |
| `Guard` | `resolve_text` over the matches, and `guard_tool_call` for every tool |
| `Return` | the next call, on the same matcher |

`AcceptedSpans` is the greedy choice of the longest spans, as a recursive function: the code
sorts the spans and keeps each that overlaps none kept before it, so a span is
kept unless one that comes before it is kept and overlaps.

`NodeIsLongestSuffix` is the invariant the automaton stands on, `MatchesAreTheOccurrences` compares the
result with a search at every place. `GuardProceedsOnlyWithLeave` says what the
choice of longest spans may hide from a guard, and `LintForetellsAmbiguity`
that the linter, which compares surfaces its own way, warns of what the matcher
will call ambiguous.

### The scout: a gate and a scan

`TerminologyGate` has three trees of files, `main`, `head` and `work`, and the
baseline file. A line is a sequence of words and marks, and of the signs it
begins with where a reader of diffs could take them for its own. `GitDiff` prints
the change of a tree as git does (headers, hunks, any context, a last line
without its end) and reads it back as `parse_git_added_lines` does.

| Action | Code |
|---|---|
| `Rewrite`, `Commit` | external: somebody works on the branch |
| `LintDiff` | `lint-diff`: working tree against head, baseline applied |
| `CheckMerge` | `check-merge --fail-on-review`: head against main, counts of the working tree |
| `Merge` | external: a branch whose last check passed is merged |
| `CreateBaseline`, `UpdateBaseline` | `baseline create` and `update`, which refuses growth unless told to |

The branch is up to date, so main is where it began (`base...head`). The
baseline is a file of the repository: after it changed, a check is void.

`RepositoryScan` adds the workspace's documents, candidates and evidence. What the
code keeps in lists and cuts to a length (the occurrences of a candidate, snippets, the
identifiers of a line, the files still to be read) is a set here: its members are those with fewer
than the limit before them, in the order of the list.

| Action | Code |
|---|---|
| `BeginScan`, `ReadFile` | `discover_local_files`, then one file after the other as it is by then: too large, binary, undecodable ones are left out |
| `Discover` | `discover_candidates` and `build_evidence_packs` over what was read |
| `StoreDocuments`, `StoreCandidates`, `StoreEvidence` | three transactions of `run_simple_scan` |
| `StopScan` | an error or a killed process |
| `Edit` | external: files change meanwhile |

`Surfaces` matches words where `SurfaceMatcher` matches characters. The words
of the instance do not contain one another, so both find the same. The likeness
of two surfaces is `SequenceMatcher`'s `ratio` and `quick_ratio`, as tables.

### ReviewPlane

`policy` is the policy file, `items` the candidates with their evidence,
`events` and `row` the store's log and current rows, `web` the web server with
the decision it started with, `requests` what every client is at, `clock` the
wall clock. A call of the store takes the time, reads the row if it is a clear, and
then writes row and event in one step (`ReviewStore` has its parts): calls of two
clients overlap, and the order of the stamps need not be that of the rows. The
latest event of a surface, and the events of a list, are in the order of
`created_at`, then rowid, as the queries have it. A request remembers the
policies there were while it ran; one to the web server has only the policy of
that server's start, by which it is decided.

| Action | Code |
|---|---|
| `PolicyInit`, `PolicyWritten`, `PolicyInitStopped` | `init_local_policy`: `write_text` opens, then writes |
| `EditPolicyByHand`, `Scan`, `Tick` | external: the file, the candidates and the clock change |
| `FindRow`, `StoreDecision`, `StoreFails` | `save_review_decision` and `clear_review_decision`: the row a clear is of, the transaction, a busy database |
| `ServeReview`, `StopReview` | `run_review_inbox`, Ctrl+C |
| `BeginPost`, `PostDecision`, `PostAnswer` | `do_POST`: refusals in their order, the call of the store, the second read |
| `BeginGet`, `Get` | `do_GET` of every path |
| `BeginMessage`, `HandleMessage` | JSON-RPC: what is answered to which message |
| `BeginProposal`, `SubmitProposal`, `SaveProposal`, `ProposalSaved` | `_submit_proposal`: asked, the call of the store, answered |
| `BeginFindEvidence`, `AnswerFindEvidence` | the tool `find_evidence` |
| `BeginCommand`, `AskForLeave` | `review agent ...`, data set and export commands: leave first, exit codes |
| `ReviewAgentCommand`, `ExportCommand` | prompt, assess, consensus; data set, events |
| `End` | the client has its answer, or never will |

`PromptSafety` scans a text line by line, normalized line by line and joined
over lines; a rule is a sequence of words of the instance in place of a regular
expression. Confidences are in hundredths, agreement in ten thousandths and
rounded where the code rounds. Items of equal score may come in either order.

`DecidersAndCommandsHaveLeave` is about decisions, which forms and proposals save, and about what
the commands that ask for leave show. It is not about what a browser reads:
`GET /review-events.jsonl` hands out all review events and asks no policy
(web/review.py:1795-1800), also from a server that was refused leave, while the
command that exports the same events asks. A form is decided by what the server was
told when it started; that a policy tightened since is not applied to it is the
code's behaviour, and the property judges forms by that first policy.

`AnswersTellTheTruth` says what the answer to a form can be relied on for when another
form on the same surface overlaps it. Its item is joined from the row and from the
event that is latest by `created_at`, so it can show the row of one call with the
event of the other, and as latest an event that was committed before the call's own. It
never shows a row older than its own event, nor an event that was there before
its call; and a row is shown without its event only if that event's call overlapped.

## Runs

| Run | Question | Bounds |
|---|---|---|
| `store` | do replay, the mirrored logs and isolation survive overlap, crashes, timeouts; what can overlap do to the listed order and to clears; is it the decision log; does every call return? | 2 actors, 2 surfaces, 2 statuses, 3 calls, 1 tick, fairness |
| `publish` | is the ledger true, over candidates whose ids meet and a lexicon without starter terms? | 1 worker, 2 candidates, 2 publishes, 3 reviews, 1 tick |
| `publish_pair` | two workers over each other, with a starter term in the lexicon: records and files, ids, surfaces with two roles, the newest and the last, what rewriting loses | 2 workers, 1 candidate, 2 publishes, 3 reviews |
| `cache` | is every load one of the file's contents during the call, every object built for what was asked? | 2 threads, 3 calls of all kinds, 3 contents of 2 sizes (one does not parse), 2 versions, room for 1 |
| `atomic` | do readers see whole texts, what is left after errors and crashes, is the file a register? | 2 writers, 1 reader, 2 texts, 3 files |
| `merge` | does a clean merge take every edit of both sides and load, do only competing edits conflict, does merging again change nothing? | 3 edits over both branches, up to 2 scopes, 3 terms, 1 proposal and 1 entry of evidence per object, 4 surfaces of which 2 fold alike |
| `guard` | does the automaton find what a search finds, may a tool proceed only with leave, has lint warned? | 3 lexicons, texts up to 5 characters, a character that expands, two that vanish, 2 tools, 2 scopings |
| `scout` | are diffs read right, are skips lossless, do merges add no debt; is evidence of what was read, does the workspace hold together? | gate: 3 files of 3, 2 and 1 contents, any order of commands; scan: 2 scans, 2 edits, stops anywhere |
| `plane` | who decides and prompts, what are they told, what is held back, what is a verdict? | 2 clients; 8 kinds of behaviour of at most 3 requests, 2 policy changes, 1 scan, 3 samples, 1 tick |
| `publish_load`, `ratchet`, `guard_docs` | the code against its documentation | as small as they need; `guard_docs` as `guard` |

Why these bounds are enough. Two actors give every pairwise overlap, and a
third would only wait for the lock as the second does. Three calls allow save,
clear and a save that overlaps either, also a clear between whose read and whose
commit another call commits. One tick separates "the same second"
from "a later second", which is all the order by `created_at` can tell apart.
In Publish, the two candidates are chosen so that their ids meet: `pay api`
tries `pay_api` (taken by a term of the lexicon), then `pay_api_2`; the second
candidate, `pay api 2`, tries `pay_api_2` first. Two publishes with
`--update-lexicon` let a surface be accepted first and deprecated later, or the
other way round. Three reviews allow both candidates to be decided and one to
be changed between publishes; of two workers over one candidate each can publish
and edit while the other is at any step. In the cache, room for one
evicts in every cache, also the object a call has just inserted; the second
version is what a call can find changed, broken or gone under it. For atomic writes,
three files are a first text and two that race for its place; a second reader
would only repeat the first, which may read again. For the merge, two edits are
a competing pair and the third is one more that their combination breaks
(a term replaced by one the other side removes, one surface given to two terms)
or one that follows a merge that was written.

For the guard, the three lexicons hold a surface within, before and after
others (the failure links two deep), surfaces that are one only in code or only
when case is ignored, one surface in two scopes, deprecated terms and aliases;
five characters are the longest surface, and let two others overlap it. Texts
of up to three characters mix in everything normalization changes.

For the gate, contents add, move and repeat lines, begin with signs of diffs and end
without a line end; the number of commands is not bounded. For the scan, one edit
changes a file before it is read and one after; a second scan meets what a stopped
one left. For the plane, one request with two changes of the policy is what the
check and the act of that request can find between them; two clients overlap
two forms or proposals on one surface, of which one may be stamped a tick before the
other and committed after it; three samples are where agreement is
first a fraction (2 of 3, rounded) and ties have an order. `MinAgreement` is
5100, as with `--min-agreement 0.51`.

Deadlock is not checked where bounded calls, ids and reviews run out and users
may stop. It is in `guard`, whose calls never run out.

What the violation runs show is in PROJECT.json under "findings":

- `publish_load`: starter terms are dropped from what is written but still count
  as replacement targets, and what is written does not load.
- `ratchet`: the baseline counts files of some suffixes only, and check-merge
  lets pass whatever a branch adds in the others once there is a baseline.
- `guard_docs`: matches have places of the text as it was given, where docs/api.md:153
  says "Character span in the normalized text." The two differ in every text of which
  normalization removes a character or makes several of one: a right-to-left mark
  before a surface is enough.

Four properties are checked where the code keeps them and fail outside:
`LedgerTruth` holds where no initial lexicon has starter terms, since a surface that
only a starter term covers is called included and then left out; `SnapshotLoads` where
no deprecated term is replaced by a starter term (run `publish_load`); `LoadsAreFresh` holds for
`TickingSpec` only, since the key of a loaded lexicon is its file's time and
size, where docs/api.md:39-40 says "keyed by path and content";
`MergesAddNoDebt` holds where scopes hide nothing, every suffix counts and the
merged tree is the working tree.

### Fairness

Only `EveryCallReturns` needs fairness: `FairSpec` has weak fairness of each actor's
own steps, which threads, SQLite's `busy_timeout` and the timeout of git justify. Nothing is assumed of users, crashes or the clock.

## What the code does that no run shows

Observations made while translating; each is outside an instance or a property above.

- Web: `GET /review-events.jsonl` exports the review events whoever asks, under
  every policy. After overlapping forms on one surface, the inbox can show a decision with the
  actor and the target of another until the surface is reviewed again.
- Publish: beyond 10,000 candidates the reviewed ones fall off the end of the inbox
  and are not published (workspace/snapshot.py:111). With fewer, all are.
- Sync: candidates and evidence are two transactions, so a review event can pair a
  candidate with evidence of another scan, older or newer (cli.py:3669).
- Matching: behind the capital I with a dot (U+0130), whose lower case is two
  characters, places are off by one and the matcher misses occurrences
  (core/matcher.py:154). `SurfaceMatcher` has the code's behaviour; the instance
  leaves that character out. `longest_only` keeps one of several matches of one span.
- Diffs: an added line that begins with `++` and a removed one with `--` read as
  headers of the diff, and `splitlines` breaks lines at form feeds
  (scout/git_merge.py:735-762); either shifts the lines after it.
  `discover_unknown_identifier_surfaces` cuts its list before it drops doubles.
- Baselines count without scopes, lines moved to another file and renamed files count
  as new, unresolved identifiers are never held against anyone; `check-merge` and
  `lint-diff --staged` compare with the working tree, and two branches that
  each pass may not together.
- "Both skips are lossless" (scout/near_miss.py:476) fails only where a score
  lies within a rounding of its threshold.
- Ingest: `relative_path_matches_gitignore` strips leading dots of paths
  (ingest/local.py:622); excluded directory names are looked for above the root
  too (local.py:554); a negated rule brings back files under an excluded directory.
- Scans replace rows and delete none: candidates and evidence of files that are
  gone stay.
- Policy: `policy init --force` asks nobody's leave and MANAGE_POLICY is never
  checked; a web server keeps the decision it started with.
- Review agent: three samples of which two agree are 0.6667 after rounding, less than the
  default of 0.67. A prompt may have 16,000 characters, of which 12,000 are
  screened. A recommendation nobody knows is a ValueError (review_agent/agent.py:289)
  that ends the whole consensus. In the data set a cleared decision counts as a
  conflicting one, its limit takes the oldest events, and the agent's view is of
  the item as it is now, not as it was reviewed.
- MCP: JSON-RPC notifications other than `notifications/initialized` are answered.
- Files: README.md:404 says "Local writes are atomic"; baselines, policies, exports,
  data sets and dictionary layouts are written in place (scout/baseline.py:249,
  policy/local.py:248, workspace/state.py:853 and 911, review_agent/dataset.py:255,
  dictionary/layout.py:269).
- Merge: a term may have two aliases of one surface in different scopes; merge
  and diff know aliases by surface alone, and one is lost (dictionary/merge.py:442).
- Store: a save that overlaps a clear can bring back the `created_at` of the
  cleared row (workspace/state.py:577). A candidate that a dropped starter term
  covers is said to be in the lexicon (workspace/snapshot.py:178).
- `lint-diff` does not check that scope bindings name scopes of the lexicon.

## Proofs

All theorems hold for every value of the constants that meets the named
assumptions `StoreAssumption`, `PublishAssumption`, `InitialAssumption`,
`CacheAssumption`, `AbsentAssumption`, `WriteAssumption`,
`BranchAssumption`, `ThresholdAssumption`, `PlaneAssumption`, `ScanAssumption`, `RatioAssumption`,
`LikenessAssumption`, `TextsAssumption` and `PolicyAssumption`. The last says of a
policy file written by hand only what `_coerce_mode` and `_coerce_role` leave of
it: a file is read as unreadable unless its mode and its roles are known ones.

- `TypeCorrect` (store, publish and merge): by induction over the actions. That the files
  of `BranchMerge` always load needs that a report never offers a lexicon that
  does not (`ReportInv`), which is where the merge validates its result.
- `WritersIsolated`: `LockInv` says that exactly the actor between its first
  write and its commit holds the lock and that `view` is `db` with its own
  writes; `IdInv` that call ids are fresh. `ReplayInv` is not inductive by
  itself, because a commit installs `view`: `LockInv` says what `view` is.
- `ReplayCorrect`, `MirrorCorrect`: a commit appends one event and one record
  to both logs and changes the one row they tell of; every other action leaves
  the three alone.
- `Refinement`: a commit of a save or clear maps to `Decide`, every other step
  to a stutter.
- `LatestEventCorrect`: `Chronological` says that a call is stamped no earlier than the
  events that were there when it began, which is all that is left of order when
  calls overlap. An event listed after all others of its surface is the last one
  committed, or the later ones had begun before it was there.
- `ClearsCorrect`: `SeenInv` says that a clear that has read its row read the outcome
  of some save, and that every event since then on that surface was committed
  while the clear was under way. The row itself may be another's by the time of the commit.
- `RecordsTell`: `LedgerInv` adds to the property that a job between its file
  and its record carries the ledger of the file it wrote; files are only added
  or replaced as a whole, so the two never drift apart.
- `SurfacesHaveOneStatus` and `WrittenLexiconsLoad` share one argument: a set
  of lexicons closed under adding a candidate, deprecating an alias and
  dropping starter terms holds everything the system ever reads or writes
  (`Closed`, `AllInStep`). Each theorem then shows its own set closed. Both have
  a hypothesis on the initial lexicons; run `publish_load` is what happens
  without that of the second.
- `LedgersTrue`, if no initial lexicon has starter terms: the same closure keeps them
  out, `IdsInv` keeps the files of different publishes apart, and `IncludedInv`
  says that a publisher at work holds terms with every surface its ledger calls
  included. A surface known only from a starter term, which is then dropped,
  would be one the ledger is wrong about: hence the hypothesis.
- `TermsKept`, for any workers: what a worker holds keeps the terms it had loaded,
  whatever the file is by now (`KeepInv`); every decision, edit and dropped starter
  term keeps what it may not lose.
- `TabShowsLast`, for any workers: `TimeInv` says that a record is stamped no earlier than
  those that were there when its publish was stamped.
- `StoresCorrect`: `MovedFacts` and `InsertedFacts` say what a hit and an
  insertion do to a sequence of entries that holds no key twice, for entries of
  any set; each of the four caches is one case of it.
- `HitsCorrect`: its invariant says that every entry's object, and every object
  half built in a call, consists of parts built for the entry's or the call's own key.
- `LoadsCorrect` for `TickingSpec`: the versions of the file are ordered by
  time, so an entry under some time and size can only hold the content that
  had that time, or one read later, in which case no later `stat` finds its key.
- `ReadersCorrect`, `NoLitterCorrect`, `WrittenCorrect`: the invariant says that
  every file not yet replaced belongs to one writer and nobody has it open, that
  its blocks are as far as that writer is, and that a file that has had the
  target's name is whole, for processes and on the disk: `fsync` comes before
  `replace`. So a loss of power can only choose between whole texts.
- `Refinement` of AtomicWrite: `Replace` maps to `Write`, `SyncDirectory` to
  `Secure`, `LosePower` to `LosePower`, every other step to a stutter.
- `LeaveCorrect`: `CheckedHasLeave` says that a policy lets nobody
  pass to whom nobody gave a role that may. `Backed` says what a request has leave
  for at each of its stages: a form under way has its server, whose decision holds
  the leave; a command holds it from the question on. Policies are only added
  to those a request has seen, so leave once had stays, and a server that stops
  answers every form under way, so none meets another server's decision.
- `AnswersAreTrue`: `Served` says, for each stage of a request, what the log must hold
  of it: nothing yet, the one event it saved, or that and whatever others
  appended since. `Stamped` says that a call is stamped no earlier than the events
  that were there when it began, `Agree` what an item shown can pair: `ShownIsRight` gets both from
  the order by `created_at` and rowid. `SoundInv` says that a server's decision is the check of the
  policy it started with, which is what the page of a read-only server shows;
  `LogInv` that every row points at the last event of its surface to be committed.
- `VerdictsEarned`, if more than half of the answers must agree (`MinAgreement`; the code's
  default is 0.67): an agreement rounded up to more than a half is more than a half
  (`AtLeastHalf`), and two groups share the answers (`GroupsShare`), so a group that supports
  a verdict outdoes every other (`TopOfMost`) and the order in which ties are broken
  never matters. Answers in the other order have groups as large and as sure
  (`ReversedGroup`). `VerdictInv` says that whatever a request shows is the consensus of
  some item and some responses. With a lower threshold, which the command accepts, a
  smaller group that is sure enough can lose to a larger one that is not, and the run
  abstains although answers support a verdict: the property is then false.
- `AutomatonIsRight`: `Built` says of an automaton that is finished, and
  `QueueOk` of one whose failure links are being set breadth first, that the
  link of a node is its longest proper suffix among the nodes, and that its
  outputs are the surfaces it ends with. Links of a shorter node are final
  before those of a longer one need them. A step of the scan then takes the longest
  suffix to the longest suffix.
- `MatchesAreAll`: `FoundInv` says that what has been found is what ends at the
  positions read so far, so that a finished scan has what ends anywhere
  (`HitsAreOccurrences` equates that with the definition by spans).
- `ProceedsOnlyWithLeave`: `AcceptanceExists` shows by induction over spans that
  the greedy choice is well defined, `AcceptedOrCovered` that a span that is not kept
  overlaps a kept one that is longer, or as long and earlier; `GuardInv` that
  a decision is made of the matches there are.
- `ConflictsDoNotTakeSides`: swapping ours and theirs gives the same conflicts,
  `WholeLexicon` apart: every comparison of the merge is symmetric, up from `Clash`.
- `MergesKeepBothEdits`: the three-way merge of facts is taken apart the way the
  code merges. Facts of different parts, and under different keys, do not meet
  (`ApartThreeWay`, `SpreadThreeWay`), so it is enough that each place is merged
  three ways: where the sides do not clash, what is settled is (`SettledThreeWay`), for
  a list of names `ScalarSequenceFacts` compares elements, and for a list of objects
  `IndexedKeepsBothEdits` lifts what holds of one object to the list, given that the
  merge lists every object there is once (`OrderedKeysFacts`, `ListedFacts`). That is
  applied from evidence and aliases up to terms and lexicons. `MergeInv` adds that edits and
  merges leave lexicons of their kinds, which the next merge needs.
- `RetriesChangeNothing`: what was settled at a place is theirs or what the base lets pass, so it
  does not clash with theirs (`SettledRetry`); an object that was merged within is
  still there and is merged within again, or is theirs by now (`ObjectAtRetry`). From
  values to lists to lexicons, a retry has no conflict (`PayloadRetry`), so
  `MergesKeepBothEdits` holds of it too, and a three-way merge of facts
  with its own result is that result. Whether a retry's result loads is not part of it.
  Where both sides reorder the scopes of an alias, each in its own way, the merge puts
  them back in the order of the base; a retry finds ours as it was in the base and
  takes theirs. If another term has by then an alias of the same text with the very
  list that theirs has, the first merge loads and the retry is refused, for an alias
  collision (`lexicon_from_dict` compares scopes as lists). That takes more
  edits than the instance has.
- `ConflictsAreCompetingEdits`: part by part, every difference between a side and the base lies
  under a place that side touched. That covering is transitive, an edit
  covers what it changes, and what a written merge leaves on ours against theirs is only
  what ours had touched before (`MapSettled`, `PartsSettled`). A conflict is where both sides
  differ from the base, so both touched that place.
- `ReportsTellTheMerge`: `Tells` relates the changes to the merge, to ours and to
  theirs. It holds of a union of parts and under a common path, and `ListTells`
  lifts it from one object to a list of objects. A list neither side changed stays as it was,
  its order included (`ScalarSequenceSame`). A term that is merged within under a name
  that is not the base's, as neither side has it, is a rename the report warns of:
  with its old canonical name put back, one of the sides has still changed it (`RenamesAreWarned`).
- `LintForetells`: two matches with one original span have one normalized span
  (`SpanIsOfOne`), what the matcher looks for there is what the linter
  compares (`EntryIsRecorded`). `LintInv` adds to the invariant of the matcher that entries are of the
  lexicon and a decision is made of matches, and by `MatchesAreAll` these are occurrences.

The theorems of `ToolGuardProofs` assume of the lexicons and texts what `ToolGuard` names:

- `Readable`: surfaces and texts are finite sequences of characters, and no
  surface normalizes to nothing. One that does (it would have only characters that
  normalization removes) is an entry at the root, whose outputs nodes of depth 1 do not inherit: it
  would be found at some places only. The loader does not refuse it; no lexicon with one is in the instance.
- `Located`: every normalized character has a place in the original. This is a
  fact of `Normalized`, not a restriction, but one about `SelectSeq` and folds,
  which tlapm cannot expand. TLC evaluates it, and the others, on the instance (`MCAssumption`).
- `OneToOne`, for `MatchesAreAll` only: no lower-case form is longer than one
  character. U+0130 is the exception in Unicode, and the occurrences the code misses behind
  it (above, under matching) are the counterexample.
- `Undivided`, for `LintForetells` only: normalized characters are in the order of their places, a
  fact of `Normalized` like `Located`, and characters that share a place are word
  characters, a restriction. U+00BD normalizes to "1⁄2": a lexicon with the surfaces "1" and "2"
  finds both at that one place, and lint, which compares surfaces, does not call them one.
- `ScopesInOrder`, for `LintForetells` only: terms that have the same scopes list them in the
  same order. The linter compares lists, so it does not compare the entries of two terms that
  list the same scopes in another order, which resolution does. The loader accepts such lexicons.

The theorems about merges assume `OfKinds`: of the lexicons to start from and the objects
to add, that all objects of a kind have the same fields and lists, as the
dataclasses of `core/models.py` have, that a term has its canonical name, that no stored value is the mark for one that is not
there, and that an object has no two evidence entries, and a term no two
aliases, with one id. The loader refuses neither of the latter, and the merge
keeps one of the two: its dictionaries are keyed by the id (`ItemAt` takes the last).
`AbsentIsNoObject` says that the mark `Absent` is not itself an object with an id.
TLC evaluates `OfKinds` on the instance.

The theorems of `ScoutProofs` are of three kinds.

- `WorkspaceHoldsTogether` and `EvidenceCorrect` rest on `ScanInv`: documents read have
  one path each (`ReadInv`); what was found is grounded in what was read, an occurrence
  in a line that says its surface, a pack in a candidate (`FoundInv`); and before each
  transaction what the earlier ones stored is in the workspace (`StoredInv`). Neither
  property is inductive: what a later transaction stores is only known from what Discover made
  of files that may have changed since. Rows are replaced and never deleted, so a scan that stops
  anywhere leaves the property as it was. `ScanAssumption` says that files are sequences of lines and that
  every path has its place in the order of the walk.
- `SkippingIsLossless` does not depend on the steps: the sum of `_score_known_surface`
  grows with the likeness of the spelling (`ConfidenceRises`), `quick_ratio` is never less than
  `ratio` (`RatioAssumption`, what `difflib` promises), and the penalty and the clamping only
  lower what is compared with the threshold. It needs that all addends are numbers, so that surfaces have finitely many
  fragments (`FragmentsType`, by induction over the words of a surface) and the union is not empty.
  `LikenessAssumption` and `TextsAssumption` say that the tables cover the words of the files and of the
  lexicon. The theorem is about scores in ten-thousandths, each addend rounded down, as `NearMiss` has them;
  the rounding of floats is the deviation listed above.
- `LinesAreInPlace` is about a function, not about steps: what a command says is what
  `AddedLines` reads of a diff of two trees (`GateInv`). Edits from any place of the old and the new file
  to their ends are a `Script`, which accounts for every line of both (`EditsAreAScript`, by
  induction over the distance to the ends). Reading on where reading stopped is reading the whole (`ReadOn`), so a
  hunk, a line, a note, a file and a tree are read one after the other (`EditIsRead`,
  `EditsAreRead`, `FileIsRead`, `TreeIsRead`); before each edit the reader is on the line of the
  new file that the script says, unless the next thing printed is a hunk that puts it there. What is read is then
  what the scripts add, from which both halves of the property follow (`AddsAreThere`,
  `OthersWereThere`). `PlainTexts` is the one hypothesis: files are finitely many sequences of
  lines, none of which begins with `++` or `--`. A line that does is the deviation listed above,
  and the property fails for it. TLC evaluates `PlainTexts` on the instance, whose
  files have lines that begin with one `+` or `-`. That `Edits` is a shortest edit is not
  needed: what is read is right for any edits that lead from one file to the other.

Induction over numbers, spans and lengths is by way of least members of sets (`LeastMember`,
`Induction` in `ToolGuardProofs` and `ScoutProofs`), since the library's induction theorems take an operator.

Model-checked only, and why:

- liveness (`EveryCallReturns`): fairness and ENABLED are out of the prover's reach;
- `UnsafeEvidenceIsHeldBack`: it depends on what screening a text computes, by
  `SelectSeq` and folds;
- `MergesAddNoDebt`: it is no theorem of all repositories. The run `ratchet` shows where it
  fails; the run `scout` shows that files the baseline counts keep it.

## Not modelled

- Store: `init --reset` under open connections (what SQLite does with a database
  unlinked under it is the file system's) and the JSONL exports. Publish: scopes,
  a snapshot id given by the user and used twice, publishing without a lexicon.
- Loader: parsing, and what it checks within one object (kinds, empty names).
- `dictionary/layout.py` and `ci.py`: they list files and count what other
  modules compute, without state of their own.
- `scout/metrics.py` and `migrations.py`, `run_simple_analyze` and
  `run_simple_init`, evals: reports and fixed files made of what is modelled.
- Semantic scoring and the embedding models: numeric, off by default. The
  tokenizers of `scout/oov.py` other than its proxy, and `difflib`'s likeness, are libraries.
- MCP's resolve, lint, guard and snapshot tools: reads of a lexicon through
  components that have their modules.
- Regular expressions of safety (rules are phrases), the Markdown fences of a
  prompt, rendering of pages and reports, argument parsing and TOML.

What `ScoutCandidates` and `ScoutEvidence` simplify: an import is known by the words its line
begins with, where the code matches the whole line (scout/candidates.py:406-409), so
more lines are imports; candidates of one score are all kept or all cut at `MaxCandidates`, where
the code goes on to compare four more fields (scout/candidates.py:520-529); near misses
read no phrases in backticks (scout/near_miss.py:159). The run `scout` has no
imports, options or boilerplate. `EvidenceIsEvidence` is about the line a negative snippet is centred on, not about
its neighbours, and, as a scan works on text in memory, not about files that change
after they were read.

What would come next: a snapshot id used twice, and `init --reset` under open connections.
