----------------------------- MODULE ReviewPlane -----------------------------
(***************************************************************************)
(* The ways into a workspace, together: the review web server              *)
(* (web/review.py), MCP servers (mcp/server.py) and commands (cli.py).     *)
(* Each asks the local policy for leave, in its own way, and most then     *)
(* read or write the store.  Policies change and candidates are scanned    *)
(* anew while requests are served.  A call of the store takes the time,    *)
(* then finds the row a clear is of, then writes row and event in one      *)
(* transaction, which is one step here; ReviewStore has its parts.         *)
(***************************************************************************)
EXTENDS LocalPolicy, ReviewAgent

CONSTANTS
    Clients,        \* browsers' requests, agents' calls and commands
    Surfaces,
    CandidateOf,    \* what a scan finds of a surface: [surface -> candidate]
    FirstItems,     \* [some surfaces -> review item] of the workspace
    HandWritten,    \* policy files written by hand
    Terms, ResolvesTo, LexiconEvidence,  \* the lexicon, as find_evidence sees it
    Responses,      \* what a language model may answer
    MaxPrompt,      \* characters of a prompt
    NoRequest, NotServing, Nothing,
    Jobs            \* bounds of behaviours: the kinds of requests, who calls, of what
                    \* surfaces, the first policy, and numbers of requests, changes of
                    \* the policy, scans, answers of the model and ticks of the clock

ASSUME ThresholdAssumption == MinAgreement \in 1..10000 /\ MinConfidence \in 0..10000

ASSUME PlaneAssumption ==
    /\ \A j \in Jobs : {j.requests, j.edits, j.scans, j.samples, j.ticks} \subseteq Nat
    /\ \A response \in Responses : response.confidence \in Int
    /\ \A j \in Jobs : \A surface \in j.surfaces : CandidateOf[surface].score \in Int
    /\ \A surface \in DOMAIN FirstItems : FirstItems[surface].candidate.score \in Int

ASSUME PolicyAssumption ==
    /\ NoRole \notin Roles
    /\ NoMode \notin Modes
    /\ \A file \in HandWritten :
          /\ file = PolicyFile(file.mode, file.default_role, file.actors)
          /\ file.mode \in Modes
          /\ \A actor \in DOMAIN file.actors : file.actors[actor] \in Roles
    /\ \A j \in Jobs : j.policy \in HandWritten \cup {NoFile, Unreadable}

VARIABLES
    policy,    \* the policy file
    writing,   \* what "policy init" is about to write
    edits,     \* changes of the policy file so far
    items,     \* [some surfaces -> review item]: candidates with their evidence
    scans,     \* scans so far
    clock,     \* _utc_now()
    events,    \* review_events, in rowid order
    row,       \* surface -> the event that wrote its row, or 0: not reviewed
    web,       \* the web server: how it was called, its decision, and the policy then
    requests,  \* client -> its request
    begun,     \* requests so far
    job        \* the bounds of this behaviour

vars == <<policy, writing, edits, items, scans, clock, events, row, web, requests, begun, job>>

policyVars == <<policy, writing, edits>>
storeVars == <<items, scans, clock, events, row>>

Init ==
    /\ job \in Jobs
    /\ policy = job.policy
    /\ writing = NoFile
    /\ edits = 0
    /\ items = FirstItems
    /\ scans = 0
    /\ clock = 0
    /\ events = <<>>
    /\ row = [s \in Surfaces |-> 0]
    /\ web = NotServing
    /\ requests = [c \in Clients |-> NoRequest]
    /\ begun = 0

-----------------------------------------------------------------------------
(* The policy file and the evidence change.                                *)

\* Requests under way remember every policy there was meanwhile.
SetPolicy(file) ==
    /\ policy' = file
    /\ requests' = [c \in Clients |->
                       IF requests[c] = NoRequest THEN NoRequest
                       ELSE [requests[c] EXCEPT !.policies = @ \cup {file}]]

\* "policy init": refused if there is a file, unless forced.  Opening the file
\* empties it; nobody's leave is asked.
PolicyInit ==
    /\ edits < job.edits
    /\ writing = NoFile
    /\ \E force \in BOOLEAN, mode \in Modes, who \in job.callers :
          /\ policy = NoFile \/ force
          /\ who.role # NoRole
          /\ writing' = InitialPolicy(mode, who.actor, who.role)
    /\ edits' = edits + 1
    /\ SetPolicy(Unreadable)
    /\ UNCHANGED <<storeVars, web, begun, job>>

PolicyWritten ==
    /\ writing # NoFile
    /\ writing' = NoFile
    /\ SetPolicy(writing)
    /\ UNCHANGED <<edits, storeVars, web, begun, job>>

\* The command is stopped between the two: what it leaves is no policy.
PolicyInitStopped ==
    /\ writing # NoFile
    /\ writing' = NoFile
    /\ UNCHANGED <<policy, edits, storeVars, web, requests, begun, job>>

EditPolicyByHand ==
    /\ edits < job.edits
    /\ writing = NoFile
    /\ edits' = edits + 1
    /\ \E file \in HandWritten \cup {NoFile, Unreadable} : file # policy /\ SetPolicy(file)
    /\ UNCHANGED <<writing, storeVars, web, begun, job>>

\* A scan stores the candidates it finds, then their evidence.
Scan ==
    /\ scans < job.scans
    /\ scans' = scans + 1
    /\ \E s \in job.surfaces, pack \in Packs :
          items' = [t \in DOMAIN items \cup {s} |->
                       IF t = s THEN ReviewItem(CandidateOf[s], pack) ELSE items[t]]
    /\ UNCHANGED <<policyVars, clock, events, row, web, requests, begun, job>>

Tick ==
    /\ clock < job.ticks
    /\ clock' = clock + 1
    /\ UNCHANGED <<policyVars, items, scans, events, row, web, requests, begun, job>>

-----------------------------------------------------------------------------
(* Requests begin and end.                                                 *)

\* "policies" are those there were since the request began, "stamp" is the time its
\* call of the store has taken, "event" what it saved, "shown" what its answer
\* shows.  "seen" is history: how many events there were when the call began.
Request(kind, who, args) ==
    [kind |-> kind, who |-> who, args |-> args, stage |-> "begun", policies |-> {policy},
     stamp |-> 0, seen |-> 0, event |-> 0, answer |-> Nothing, shown |-> Nothing]

Begin(c, request) ==
    /\ requests[c] = NoRequest
    /\ request.kind \in job.kinds
    /\ begun < job.requests
    /\ begun' = begun + 1
    /\ requests' = [requests EXCEPT ![c] = request]
    /\ UNCHANGED <<policyVars, storeVars, web, job>>

At(c, kinds, stage) ==
    requests[c] # NoRequest /\ requests[c].kind \in kinds /\ requests[c].stage = stage

Turned(c, stage, answer, shown) ==
    requests' = [requests EXCEPT ![c].stage = stage, ![c].answer = answer, ![c].shown = shown]

Answer(c, answer, shown) == Turned(c, "answered", answer, shown)

\* The client has its answer, or will never get one.
End(c) ==
    /\ requests[c] # NoRequest
    /\ requests[c].stage = "answered"
    /\ requests' = [requests EXCEPT ![c] = NoRequest]
    /\ UNCHANGED <<policyVars, storeVars, web, begun, job>>

-----------------------------------------------------------------------------
(* The store.                                                              *)

\* What a request asks to be saved.
Asked(r) ==
    [surface |-> r.args.surface,
     decision |-> IF r.kind = "post" /\ r.args.action = "clear" THEN "unreviewed" ELSE r.args.decision]

Clears(c) == Asked(requests[c]).decision = "unreviewed"

\* The call takes the time before it has the write lock.
CallStore(c) ==
    requests' = [requests EXCEPT ![c].stage = "calling", ![c].stamp = clock, ![c].seen = Len(events)]

\* clear_review_decision reads the row first; there may be nothing to clear.
FindRow(c) ==
    /\ At(c, {"post"}, "calling")
    /\ Clears(c)
    /\ requests' = [requests EXCEPT ![c].stage =
                       IF row[requests[c].args.surface] = 0 THEN "stored" ELSE "found"]
    /\ UNCHANGED <<policyVars, storeVars, web, begun, job>>

\* An event holds the candidate and the evidence of the moment, and the time of
\* its call.
Event(s, decision, c) ==
    [surface |-> s, decision |-> decision, by |-> c,
     created |-> requests[c].stamp, since |-> requests[c].seen,
     candidate |-> [known |-> s \in DOMAIN items,
                    score |-> IF s \in DOMAIN items THEN items[s].candidate.score ELSE 0],
     evidence |-> IF s \in DOMAIN items THEN items[s].pack ELSE NoPack]

\* The transaction of save_review_decision and of clear_review_decision; a surface
\* need not be a candidate.
Store(c, s, decision) ==
    /\ events' = Append(events, Event(s, decision, c))
    /\ row' = [row EXCEPT ![s] = IF decision = "unreviewed" THEN 0 ELSE Len(events')]
    /\ requests' = [requests EXCEPT ![c].stage = "stored", ![c].event = Len(events')]
    /\ UNCHANGED <<items, scans, clock>>

StoreDecision(c) ==
    /\ \/ At(c, {"post", "submit_proposal"}, "calling") /\ ~Clears(c)
       \/ At(c, {"post"}, "found")
    /\ Store(c, Asked(requests[c]).surface, Asked(requests[c]).decision)
    /\ UNCHANGED <<policyVars, web, begun, job>>

\* A busy database: the web handler does not know the error and the connection is
\* cut; an MCP server makes an answer of it.
StoreFails(c) ==
    /\ At(c, {"post", "submit_proposal"}, "calling") \/ At(c, {"post"}, "found")
    /\ Answer(c, IF requests[c].kind = "post" THEN "lost" ELSE "is_error", Nothing)
    /\ UNCHANGED <<policyVars, storeVars, web, begun, job>>

Statuses == {"accepted", "rejected", "ambiguous", "needs_split", "deprecate_alias"}

EventsOf(s) == {i \in DOMAIN events : events[i].surface = s}

\* Mutant: ties of created_at go to the older event.
LastOrOlderEvent(s) ==
    IF EventsOf(s) = {} THEN 0
    ELSE CHOOSE i \in EventsOf(s) : \A j \in EventsOf(s) :
            \/ events[j].created < events[i].created
            \/ events[j].created = events[i].created /\ i <= j

\* ORDER BY created_at DESC, rowid DESC LIMIT 1.
LastEvent(s) ==
    IF EventsOf(s) = {} THEN 0
    ELSE CHOOSE i \in EventsOf(s) : \A j \in EventsOf(s) :
            \/ events[j].created < events[i].created
            \/ events[j].created = events[i].created /\ j <= i

\* What a page or an answer shows of a surface: its row, and its latest event.
ShownItem(s) ==
    IF s \in DOMAIN items THEN [row |-> row[s], latest |-> LastEvent(s)] ELSE Nothing

\* list_review_events: by created_at, then by rowid.
ListedEvents ==
    LET order == SetToSortSeq(DOMAIN events,
                     LAMBDA i, j : \/ events[i].created < events[j].created
                                   \/ events[i].created = events[j].created /\ i < j)
    IN  [i \in DOMAIN order |-> events[order[i]]]

-----------------------------------------------------------------------------
(* The web server: leave is asked for once, when it starts.                *)

ServeReview ==
    /\ web = NotServing
    /\ job.kinds \cap {"post", "get"} # {}
    /\ policy # Unreadable
    /\ items # <<>>
    /\ \E who \in job.callers :
          web' = [decision |-> CheckLocalPolicy(policy, "review_candidate", who),
                  who |-> who, policy |-> policy]
    /\ UNCHANGED <<policyVars, storeVars, requests, begun, job>>

\* Ctrl+C: threads that serve a request are lost with their server.
StopReview ==
    /\ web # NotServing
    /\ web' = NotServing
    /\ requests' = [c \in Clients |->
                       IF /\ requests[c] # NoRequest
                          /\ requests[c].kind \in {"post", "get"}
                          /\ requests[c].stage # "answered"
                       THEN [requests[c] EXCEPT !.stage = "answered", !.answer = "lost"]
                       ELSE requests[c]]
    /\ UNCHANGED <<policyVars, storeVars, begun, job>>

Forms == [surface : Surfaces, action : {"save", "clear", "other"},
          decision : {"accepted", "deprecate_alias", "unknown"}, target : BOOLEAN, json : BOOLEAN,
          envelope : {"good", "no_such_path", "bad_length", "too_large", "not_utf8"}]

\* A form says no more than its action needs, and one that does not arrive says
\* nothing.
PlainForms ==
    {f \in Forms :
        /\ f.surface \in job.surfaces
        /\ f.envelope # "good" => f.action = "other"
        /\ f.action # "save" => f.decision = "accepted"
        /\ f.action = "other" => ~f.json /\ f.surface = CHOOSE s \in job.surfaces : TRUE
        /\ f.decision # "deprecate_alias" => ~f.target}

BeginPost(c) ==
    /\ web # NotServing
    /\ \E form \in PlainForms : Begin(c, [Request("post", web.who, form) EXCEPT !.policies = {web.policy}])

PostRefusal(form) ==
    IF form.envelope # "good"
    THEN [no_such_path |-> "404", bad_length |-> "400", too_large |-> "413", not_utf8 |-> "400"][form.envelope]
    ELSE IF ~web.decision.allowed THEN "403"
    ELSE IF \/ form.action = "other"
            \/ form.action = "save" /\ form.decision = "deprecate_alias" /\ ~form.target
            \/ form.action = "save" /\ form.decision = "unknown"
         THEN "400"
    ELSE "200"

PostDecision(c) ==
    /\ At(c, {"post"}, "begun")
    /\ LET code == PostRefusal(requests[c].args)
       IN  IF code # "200" THEN Answer(c, code, Nothing) ELSE CallStore(c)
    /\ UNCHANGED <<policyVars, storeVars, web, begun, job>>

\* The answer is made up from the store as it is by now.
PostAnswer(c) ==
    /\ At(c, {"post"}, "stored")
    /\ LET form == requests[c].args
       IN  \/ form.json /\ Answer(c, "200", ShownItem(form.surface))
           \/ form.json /\ Answer(c, "lost", Nothing)
           \/ ~form.json /\ Answer(c, "303", Nothing)
    /\ UNCHANGED <<policyVars, storeVars, web, begun, job>>

BeginGet(c) ==
    /\ web # NotServing
    /\ \E path \in {"/", "/healthz", "/review-events.jsonl", "elsewhere"} :
          Begin(c, [Request("get", web.who, [path |-> path]) EXCEPT !.policies = {web.policy}])

\* The page asks the policy of the moment, as the role and in the mode that the
\* server was given leave for.
PageDecision ==
    CheckLocalPolicy(policy, "review_candidate",
                     [actor |-> web.decision.actor, role |-> web.decision.role,
                      mode |-> web.decision.mode])

Get(c) ==
    /\ At(c, {"get"}, "begun")
    /\ LET path == requests[c].args.path
       IN  CASE path = "/healthz" -> Answer(c, "200", Nothing)
             [] path = "/review-events.jsonl" -> Answer(c, "200", ListedEvents)
             [] path = "elsewhere" -> Answer(c, "404", Nothing)
             [] path = "/" ->
                   IF policy = Unreadable THEN Answer(c, "500", Nothing)
                   ELSE Answer(c, "200", [read_only |-> ~PageDecision.allowed])
    /\ UNCHANGED <<policyVars, storeVars, web, begun, job>>

-----------------------------------------------------------------------------
(* MCP servers: one call after another, leave asked for by every proposal. *)

Messages == {"no_json", "no_object", "no_method", "bad_params", "unknown_method", "initialized",
             "initialize", "ping", "tools_list", "unknown_tool"}

MessageAnswer(message) ==
    [no_json |-> "-32700", no_object |-> "-32600", no_method |-> "-32600", bad_params |-> "-32602",
     unknown_method |-> "-32601", initialized |-> "none", initialize |-> "ok", ping |-> "ok",
     tools_list |-> "ok", unknown_tool |-> "is_error"][message]

BeginMessage(c) ==
    \E who \in job.callers, message \in Messages :
        Begin(c, Request("message", who, [message |-> message]))

HandleMessage(c) ==
    /\ At(c, {"message"}, "begun")
    /\ Answer(c, MessageAnswer(requests[c].args.message), Nothing)
    /\ UNCHANGED <<policyVars, storeVars, web, begun, job>>

BeginProposal(c) ==
    \E who \in job.callers, s \in job.surfaces,
       decision \in {"accepted", "rejected", "unreviewed", "unknown"} :
          Begin(c, Request("submit_proposal", who, [surface |-> s, decision |-> decision]))

\* Any exception becomes an answer.
SubmitProposal(c) ==
    /\ At(c, {"submit_proposal"}, "begun")
    /\ IF /\ requests[c].args.decision \in Statuses
          /\ policy # Unreadable
          /\ CheckLocalPolicy(policy, "review_candidate", requests[c].who).allowed
       THEN requests' = [requests EXCEPT ![c].stage = "allowed"]
       ELSE Answer(c, "is_error", Nothing)
    /\ UNCHANGED <<policyVars, storeVars, web, begun, job>>

SaveProposal(c) ==
    /\ At(c, {"submit_proposal"}, "allowed")
    /\ CallStore(c)
    /\ UNCHANGED <<policyVars, storeVars, web, begun, job>>

ProposalSaved(c) ==
    /\ At(c, {"submit_proposal"}, "stored")
    /\ Answer(c, "ok", Nothing)
    /\ UNCHANGED <<policyVars, storeVars, web, begun, job>>

\* Evidence of the terms first, in the order they are found, then that of the
\* workspace.
FindEvidence(term, surface, max) ==
    LET terms == (IF term = Nothing THEN <<>> ELSE <<term>>)
                 \o (IF surface = Nothing THEN <<>> ELSE ResolvesTo[surface])
        once == SelectSeq([i \in DOMAIN terms |-> <<i, terms[i]>>],
                          LAMBDA e : \A j \in 1..(e[1] - 1) : terms[j] # e[2])
        of_terms == FlattenSeq([i \in DOMAIN once |->
                        IF once[i][2] \in Terms THEN LexiconEvidence[once[i][2]] ELSE <<>>])
        pack == IF surface \in DOMAIN items THEN items[surface].pack ELSE NoPack
        of_workspace == IF pack = NoPack THEN <<>>
                        ELSE OfKind(pack, "positive") \o OfKind(pack, "negative")
        all == of_terms \o of_workspace
    IN  SubSeq(all, 1, Min({max, Len(all)}))

BeginFindEvidence(c) ==
    \E who \in job.callers, term \in Terms \cup {Nothing}, s \in job.surfaces \cup {Nothing}, max \in 0..2 :
        Begin(c, Request("find_evidence", who, [term |-> term, surface |-> s, max |-> max]))

AnswerFindEvidence(c) ==
    /\ At(c, {"find_evidence"}, "begun")
    /\ LET args == requests[c].args
       IN  IF args.max < 1 \/ (args.term = Nothing /\ args.surface = Nothing)
           THEN Answer(c, "is_error", Nothing)
           ELSE Answer(c, "ok", FindEvidence(args.term, args.surface, args.max))
    /\ UNCHANGED <<policyVars, storeVars, web, begun, job>>

-----------------------------------------------------------------------------
(* Commands: leave is asked for once, before anything else.                *)

Needs == [prompt |-> "run_llm_review", assess |-> "run_llm_review", consensus |-> "run_llm_review",
          dataset |-> "export_review_events", export |-> "export_review_events"]

BeginCommand(c) ==
    \E who \in job.callers, kind \in DOMAIN Needs, s \in job.surfaces \cup {Nothing}, agent \in BOOLEAN :
        /\ kind \in {"dataset", "export"} => s = Nothing
        /\ kind # "dataset" => ~agent
        /\ Begin(c, Request(kind, who, [surface |-> s, agent |-> agent]))

AskFor(c, need, stage) ==
    IF policy = Unreadable THEN Answer(c, "exit 1", Nothing)
    ELSE IF ~CheckLocalPolicy(policy, need, requests[c].who).allowed THEN Answer(c, "exit 2", Nothing)
    ELSE requests' = [requests EXCEPT ![c].stage = stage]

\* A dataset with the agent's view needs leave for both, and reads the policy
\* twice.
AskForLeave(c) ==
    /\ \/ /\ At(c, DOMAIN Needs, "begun")
          /\ AskFor(c, Needs[requests[c].kind], IF requests[c].args.agent THEN "half" ELSE "allowed")
       \/ At(c, {"dataset"}, "half") /\ AskFor(c, "run_llm_review", "allowed")
    /\ UNCHANGED <<policyVars, storeVars, web, begun, job>>

\* The item asked for, or the first of the inbox: not reviewed before reviewed,
\* higher scores first.
InboxBefore(s, t) ==
    LET reviewed == row[s] # 0
    IN  IF reviewed # (row[t] # 0) THEN row[t] # 0
        ELSE items[s].candidate.score > items[t].candidate.score

SelectReviewAgentItem(s) ==
    IF s # Nothing THEN DOMAIN items \cap {s}
    ELSE {t \in DOMAIN items : \A u \in DOMAIN items : ~InboxBefore(u, t)}

\* What is shown of a review: the item it was of, and what came out.
Reviewed(item, responses, result) == [item |-> item, responses |-> responses, result |-> result]

Exit(done) == IF done THEN "exit 0" ELSE "exit 2"

PromptCommand(c, item) ==
    Answer(c, Exit(LlmReviewAllowed(item)),
           Reviewed(item, <<>>, FormatEvidencePack(
               IF item.pack = NoPack THEN PlainPack(<<>>) ELSE item.pack, MaxPrompt)))

AnswerDecision(c, item, responses, decision) ==
    Answer(c, Exit(decision.allowed), Reviewed(item, responses, decision))

AssessCommand(c, item) ==
    \/ AnswerDecision(c, item, <<>>, HeuristicReview(item))
    \/ \E response \in Responses :
          IF ~WellFormed(response) THEN Answer(c, "exit 1", Nothing)
          ELSE AnswerDecision(c, item, <<response>>, RunReviewAgent(item, response))

AnswerReport(c, item, responses, report) ==
    Answer(c, Exit(report.status = "consensus"), Reviewed(item, responses, report))

ConsensusCommand(c, item) ==
    \E n \in 0..job.samples : \E responses \in [1..n -> Responses] :
        IF \E i \in 1..n : ~WellFormed(responses[i]) THEN Answer(c, "exit 1", Nothing)
        ELSE AnswerReport(c, item, responses, RunReviewAgentConsensus(item, responses))

ReviewAgentCommand(c) ==
    /\ At(c, {"prompt", "assess", "consensus"}, "allowed")
    /\ \/ /\ SelectReviewAgentItem(requests[c].args.surface) = {}
          /\ Answer(c, "exit 1", Nothing)
       \/ \E s \in SelectReviewAgentItem(requests[c].args.surface) :
             CASE requests[c].kind = "prompt" -> PromptCommand(c, items[s])
               [] requests[c].kind = "assess" -> AssessCommand(c, items[s])
               [] requests[c].kind = "consensus" -> ConsensusCommand(c, items[s])
    /\ UNCHANGED <<policyVars, storeVars, web, begun, job>>

ExportCommand(c) ==
    /\ At(c, {"dataset", "export"}, "allowed")
    /\ Answer(c, "exit 0", IF requests[c].kind = "export" THEN ListedEvents
                    ELSE ReviewDataset(ListedEvents, items, requests[c].args.agent, Len(events)))
    /\ UNCHANGED <<policyVars, storeVars, web, begun, job>>

-----------------------------------------------------------------------------
Next ==
    \/ PolicyInit \/ PolicyWritten \/ PolicyInitStopped \/ EditPolicyByHand
    \/ Scan \/ Tick
    \/ ServeReview \/ StopReview
    \/ \E c \in Clients :
          \/ FindRow(c) \/ StoreDecision(c) \/ StoreFails(c)
          \/ BeginPost(c) \/ PostDecision(c) \/ PostAnswer(c)
          \/ BeginGet(c) \/ Get(c)
          \/ BeginMessage(c) \/ HandleMessage(c)
          \/ BeginProposal(c) \/ SubmitProposal(c) \/ SaveProposal(c) \/ ProposalSaved(c)
          \/ BeginFindEvidence(c) \/ AnswerFindEvidence(c)
          \/ BeginCommand(c) \/ AskForLeave(c) \/ ReviewAgentCommand(c) \/ ExportCommand(c)
          \/ End(c)

Spec == Init /\ [][Next]_vars

-----------------------------------------------------------------------------
(* Correctness.                                                            *)

\* What needs leave: to save something, and what a command shows.
Acted(r) ==
    \/ r.event # 0
    \/ r.kind \in DOMAIN Needs /\ r.shown # Nothing

ActionsOf(r) ==
    IF r.kind \notin DOMAIN Needs THEN {"review_candidate"}
    ELSE {Needs[r.kind]} \cup (IF r.args.agent THEN {"run_llm_review"} ELSE {})

\* The role that somebody gave: the caller, the policy for the actor, or the
\* policy for everyone, unless the caller asks for another mode.
GivenRole(file, who) ==
    IF who.role # NoRole THEN who.role
    ELSE IF file = NoFile THEN NoRole
    ELSE IF who.actor \in DOMAIN file.actors THEN file.actors[who.actor]
    ELSE IF who.mode = NoMode THEN file.default_role
    ELSE NoRole

ModeInForce(file, who) ==
    IF who.mode # NoMode THEN who.mode ELSE IF file = NoFile THEN "solo" ELSE file.mode

\* Outside a solo workspace, readers, agents and those nobody gave a role decide,
\* export and prompt nothing; reviewers do not prompt; in a locked one, only an
\* owner does.
HasLeave(file, action, who) ==
    LET mode == ModeInForce(file, who)
        role == GivenRole(file, who)
    IN  /\ file # Unreadable
        /\ mode # "solo" => role \notin {NoRole, "reader", "agent"}
        /\ mode # "solo" /\ action = "run_llm_review" => role # "reviewer"
        /\ mode = "locked" => role = "owner"

\* A decision is saved, and a command prompts the agent or exports reviews, only
\* with leave by the policy of some moment of the request.  A proposal and a
\* command ask while they run; a form is decided by what the server was told when
\* it started, whatever the policy has become since.  What a browser reads, the
\* list of events included, needs nobody's leave, and nothing is said of it here.
DecidersAndCommandsHaveLeave ==
    \A c \in Clients :
        LET r == requests[c]
        IN  r # NoRequest /\ Acted(r) =>
                \A action \in ActionsOf(r) : \E file \in r.policies : HasLeave(file, action, r.who)

Succeeded(r) == r.answer \in {"ok", "200", "303"}

\* The events a surface's state may come from: the one that wrote its row or, if
\* there is none, a clear.
MakersOf(s, shown) ==
    {i \in EventsOf(s) : IF shown.row # 0 THEN i = shown.row ELSE events[i].decision = "unreviewed"}

\* A row is shown with the event that made it, or with one that was saved while
\* that one was on its way.
RowAndEventAgree(s, shown) ==
    \/ shown.row = 0 /\ shown.latest = 0
    \/ \E i \in MakersOf(s, shown) :
          i = shown.latest \/ (events[i].since < shown.latest /\ shown.latest < i)

\* A request that is told it was done was done, as asked and once; one that is
\* refused left nothing behind.  An answer that shows the candidate shows nothing
\* older than its call, whoever else saves meanwhile: a row that is its own, a
\* later one or none, and an event saved since the call began, which may be
\* another's of the same time, with the row that event goes with.  A page is
\* read-only exactly when its server refuses decisions.
AnswersTellTheTruth ==
    \A c \in Clients :
        LET r == requests[c]
            mine == {i \in DOMAIN events : events[i].by = c}
        IN  r # NoRequest =>
              /\ r.kind \in {"post", "submit_proposal"} /\ r.stage = "answered" =>
                    /\ r.event # 0 =>
                          /\ events[r.event].surface = Asked(r).surface
                          /\ events[r.event].decision = Asked(r).decision
                          /\ \A i \in mine : i <= r.event
                          /\ Succeeded(r) \/ r.answer = "lost"
                    /\ Succeeded(r) => r.event # 0 \/ Asked(r).decision = "unreviewed"
                    /\ r.shown # Nothing =>
                          /\ RowAndEventAgree(r.args.surface, r.shown)
                          /\ r.event # 0 =>
                                /\ r.shown.latest > r.seen
                                /\ r.shown.row = 0 \/ r.shown.row >= r.event
              /\ r.kind = "get" /\ r.shown # Nothing /\ r.args.path = "/" /\ web # NotServing
                    /\ web.who = r.who /\ {web.policy} = r.policies =>
                       r.shown.read_only = ~web.decision.allowed

\* What a reader sees of a text: what is invisible is gone, and lines go on.
Seen(text) ==
    NormalizedText([i \in DOMAIN text |-> IF text[i] = LineEnd THEN Blank ELSE text[i]])

SaysOf(text, risk) ==
    \E rule \in {SafetyRules[r] : r \in DOMAIN SafetyRules} :
        rule.risk = risk /\ Matches(Seen(text), rule) # {}

ReadsAsInstruction ==
    [pack \in Packs |->
        pack # NoPack /\ \E i \in DOMAIN pack.snippets : SaysOf(pack.snippets[i].text, "high")]

\* Evidence that was not screened and is too long to be rendered whole.
TooLong(pack) ==
    pack # NoPack /\ ~pack.safety.screened /\ Len(FormatEvidencePack(pack, 2 * MaxPrompt)) > MaxRendered

\* Evidence with a snippet that reads as an instruction, on one line or across
\* several, with invisible characters in it or not, is never handed out as fit for
\* a model, never agreed upon, and never exported as usable.
UnsafeEvidenceIsHeldBack ==
    \A c \in Clients :
        LET r == requests[c]
        IN  r # NoRequest /\ r.shown # Nothing =>
              /\ r.kind \in {"prompt", "assess", "consensus"}
                 /\ ReadsAsInstruction[r.shown.item.pack] /\ ~TooLong(r.shown.item.pack) =>
                    /\ r.answer = "exit 2"
                    /\ r.kind # "prompt" => r.shown.result.recommendation = "needs_more_evidence"
              /\ r.kind = "dataset" =>
                    \A i \in DOMAIN r.shown :
                        ReadsAsInstruction[r.shown[i].event.evidence] => r.shown[i].quality = "unsafe"

\* The answers that agree with the i-th, and how sure they are.
Agreeing(samples, i) == {j \in DOMAIN samples : DecisionKey(samples[j]) = DecisionKey(samples[i])}

Supports(samples, S) ==
    /\ Rounded(10000 * Cardinality(S), Len(samples)) >= MinAgreement
    /\ Rounded(100 * SumOfConfidence(samples, S), Cardinality(S)) >= MinConfidence

SameVerdict(result, other) ==
    \A field \in {"status", "recommendation", "confidence"} : result[field] = other[field]

Earned(item, samples, result) ==
    LET supported == {i \in DOMAIN samples : Supports(samples, Agreeing(samples, i))}
    IN  /\ (result.status = "consensus") <=>
               (supported # {} /\ \A i \in DOMAIN samples : samples[i].allowed)
        /\ result.status = "consensus" =>
               /\ \E i \in supported : samples[i].recommendation = result.recommendation
               /\ MinAgreement > 5000 => SameVerdict(result, Consensus(item, Reverse(samples)))

\* There is a consensus exactly when safe answers support one recommendation
\* enough; it is theirs, whatever the order they came in.
VerdictsAreEarned ==
    \A c \in Clients :
        LET r == requests[c]
        IN  r # NoRequest /\ r.kind = "consensus" /\ r.shown # Nothing =>
                Earned(r.shown.item, ReviewAgentSamples(r.shown.item, r.shown.responses),
                       r.shown.result)
=============================================================================
