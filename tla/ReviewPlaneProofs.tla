------------------------- MODULE ReviewPlaneProofs --------------------------
(***************************************************************************)
(* Nobody acts on a workspace without leave, answers tell the truth, and   *)
(* verdicts are those of the answers: for any clients, callers, policies,  *)
(* candidates and answers of a model.                                      *)
(***************************************************************************)
EXTENDS ReviewPlane, TLAPS, FiniteSetTheorems, WellFoundedInduction

IsFile(file) == file = PolicyFile(file.mode, file.default_role, file.actors)

PolicyInv ==
    /\ policy = NoFile \/ policy = Unreadable \/ IsFile(policy)
    /\ writing = NoFile \/ IsFile(writing)

\* A server that lets people decide had leave for it.
WebInv ==
    web # NotServing /\ web.decision.allowed => HasLeave(web.policy, "review_candidate", web.who)

\* A request, whatever it holds.
Fields(kind, who, args, stage, policies, stamp, seen, event, answer, shown) ==
    [kind |-> kind, who |-> who, args |-> args, stage |-> stage, policies |-> policies,
     stamp |-> stamp, seen |-> seen, event |-> event, answer |-> answer, shown |-> shown]

IsRequest(r) ==
    r = Fields(r.kind, r.who, r.args, r.stage, r.policies, r.stamp, r.seen, r.event, r.answer,
               r.shown)

\* There was leave for an action at some moment of a request.
Leave(r, action) == \E file \in r.policies : HasLeave(file, action, r.who)

AllLeave(r) == \A action \in ActionsOf(r) : Leave(r, action)

\* What a request asks, where the answer depends on it, and what it has leave for
\* at each of its stages.
Backed(r) ==
    /\ r.kind = "post" => r.args \in Forms
    /\ r.kind = "get" => r.args.path \in {"/", "/healthz", "/review-events.jsonl", "elsewhere"}
    /\ r.kind = "post" /\ r.stage = "begun" =>
          web # NotServing /\ r.who = web.who /\ web.policy \in r.policies
    /\ r.kind \notin {"post", "get"} => policy \in r.policies
    /\ r.kind = "submit_proposal" /\ r.stage = "allowed" => Leave(r, "review_candidate")
    /\ r.kind \in {"post", "submit_proposal"} /\ r.stage \in {"calling", "found"} =>
          Leave(r, "review_candidate")
    /\ r.event # 0 => r.kind \in {"post", "submit_proposal"} /\ Leave(r, "review_candidate")
    /\ r.kind \in DOMAIN Needs /\ r.stage = "half" => Leave(r, Needs[r.kind])
    /\ r.kind \in DOMAIN Needs /\ r.stage = "allowed" => AllLeave(r)
    /\ r.kind \in DOMAIN Needs /\ r.shown # Nothing => AllLeave(r)

RequestsInv ==
    /\ requests = [c \in Clients |-> requests[c]]
    /\ \A c \in Clients : requests[c] # NoRequest => IsRequest(requests[c]) /\ Backed(requests[c])

IInv == PolicyInv /\ WebInv /\ RequestsInv

-----------------------------------------------------------------------------
(* Leave.                                                                  *)

DecisionActions == {"review_candidate", "export_review_events", "run_llm_review"}

\* The check of a policy lets nobody pass to whom nobody gave a role that may.
LEMMA CheckedHasLeave ==
    ASSUME NEW file, file = NoFile \/ IsFile(file), file # Unreadable,
           NEW action \in DecisionActions, NEW who,
           CheckLocalPolicy(file, action, who).allowed
    PROVE  HasLeave(file, action, who)
<1> DEFINE loaded == LoadLocalPolicy(file, who.mode)
           role == RoleForActor(loaded, who.actor, who.role)
<1>1. role \in AllowedRoles(loaded.mode, action)
  BY DEF CheckLocalPolicy
<1>2. loaded.mode = ModeInForce(file, who)
  BY DEF LoadLocalPolicy, WithMode, LocalPolicy, PolicyFile, ModeInForce, IsFile
<1>3. loaded.mode # "solo" => role # "reader" /\ role # "agent" /\ role \in Roles
  BY <1>1 DEF AllowedRoles, DecisionActions, Roles
<1>4. loaded.mode # "solo" /\ action = "run_llm_review" => role # "reviewer"
  BY <1>1 DEF AllowedRoles
<1>5. loaded.mode = "locked" => role = "owner"
  BY <1>1 DEF AllowedRoles, DecisionActions
<1>6. loaded.mode # "solo" => role = GivenRole(file, who)
  <2> SUFFICES ASSUME loaded.mode # "solo" PROVE role = GivenRole(file, who)
    OBVIOUS
  <2>1. CASE who.role # NoRole
    BY <2>1 DEF RoleForActor, GivenRole
  <2>2. CASE who.role = NoRole /\ file = NoFile
    <3>1. loaded.actors = <<>> /\ (who.mode = NoMode => loaded.mode = "solo")
          /\ (who.mode # NoMode => loaded.default_role = DefaultRole(loaded.mode))
      BY <2>2 DEF LoadLocalPolicy, WithMode, LocalPolicy, PolicyFile
    <3>2. role = "reader"
      BY <2>2, <3>1 DEF RoleForActor, DefaultRole
    <3> QED BY <1>3, <3>2
  <2>3. CASE who.role = NoRole /\ file # NoFile
    <3>1. loaded.actors = file.actors
      BY <2>3 DEF LoadLocalPolicy, WithMode, LocalPolicy, PolicyFile, IsFile
    <3>2. CASE who.actor \in DOMAIN file.actors
      BY <2>3, <3>1, <3>2 DEF RoleForActor, GivenRole
    <3>3. CASE who.actor \notin DOMAIN file.actors /\ who.mode # NoMode
      <4>1. loaded.default_role = DefaultRole(loaded.mode)
        BY <2>3, <3>3 DEF LoadLocalPolicy, WithMode, LocalPolicy, PolicyFile, IsFile
      <4>2. role = "reader"
        BY <2>3, <3>1, <3>3, <4>1 DEF RoleForActor, DefaultRole
      <4> QED BY <1>3, <4>2
    <3>4. CASE who.actor \notin DOMAIN file.actors /\ who.mode = NoMode
      <4>1. /\ role = loaded.default_role /\ loaded.mode = file.mode
            /\ loaded.default_role = IF file.default_role = NoRole THEN DefaultRole(file.mode)
                                     ELSE file.default_role
        BY <2>3, <3>1, <3>4 DEF RoleForActor, LoadLocalPolicy, WithMode, LocalPolicy, PolicyFile, IsFile
      <4>2. file.default_role # NoRole
        BY <1>3, <4>1 DEF DefaultRole
      <4> QED BY <2>3, <3>4, <4>1, <4>2 DEF GivenRole
    <3> QED BY <3>2, <3>3, <3>4
  <2> QED BY <2>1, <2>2, <2>3
<1> HIDE DEF loaded, role
<1> QED BY <1>2, <1>3, <1>4, <1>5, <1>6, PolicyAssumption DEF HasLeave, Roles

-----------------------------------------------------------------------------
(* Fields of a request.                                                    *)

LEMMA FieldsOf ==
    ASSUME NEW kind, NEW who, NEW args, NEW stage, NEW policies, NEW stamp, NEW seen, NEW event,
           NEW answer, NEW shown
    PROVE  LET r == Fields(kind, who, args, stage, policies, stamp, seen, event, answer, shown)
           IN  /\ IsRequest(r)
               /\ r.kind = kind /\ r.who = who /\ r.args = args /\ r.stage = stage
               /\ r.policies = policies /\ r.stamp = stamp /\ r.seen = seen
               /\ r.event = event /\ r.answer = answer /\ r.shown = shown
BY DEF IsRequest, Fields

LEMMA WithStage ==
    ASSUME NEW q, IsRequest(q), NEW stage
    PROVE  [q EXCEPT !.stage = stage] =
               Fields(q.kind, q.who, q.args, stage, q.policies, q.stamp, q.seen,
                      q.event, q.answer, q.shown)
BY DEF IsRequest, Fields

LEMMA WithAnswer ==
    ASSUME NEW q, IsRequest(q), NEW answer
    PROVE  [q EXCEPT !.answer = answer] =
               Fields(q.kind, q.who, q.args, q.stage, q.policies, q.stamp, q.seen,
                      q.event, answer, q.shown)
BY DEF IsRequest, Fields

LEMMA WithShown ==
    ASSUME NEW q, IsRequest(q), NEW shown
    PROVE  [q EXCEPT !.shown = shown] =
               Fields(q.kind, q.who, q.args, q.stage, q.policies, q.stamp, q.seen,
                      q.event, q.answer, shown)
BY DEF IsRequest, Fields

LEMMA WithEvent ==
    ASSUME NEW q, IsRequest(q), NEW event
    PROVE  [q EXCEPT !.event = event] =
               Fields(q.kind, q.who, q.args, q.stage, q.policies, q.stamp, q.seen,
                      event, q.answer, q.shown)
BY DEF IsRequest, Fields

LEMMA WithPolicies ==
    ASSUME NEW q, IsRequest(q), NEW policies
    PROVE  [q EXCEPT !.policies = policies] =
               Fields(q.kind, q.who, q.args, q.stage, policies, q.stamp, q.seen,
                      q.event, q.answer, q.shown)
BY DEF IsRequest, Fields

LEMMA Storing ==
    ASSUME NEW q, IsRequest(q), NEW stage, NEW event
    PROVE  [q EXCEPT !.stage = stage, !.event = event] =
               Fields(q.kind, q.who, q.args, stage, q.policies, q.stamp, q.seen,
                      event, q.answer, q.shown)
<1> DEFINE p == [q EXCEPT !.stage = stage]
<1>1. p = Fields(q.kind, q.who, q.args, stage, q.policies, q.stamp, q.seen,
                 q.event, q.answer, q.shown)
  BY WithStage
<1>2. [q EXCEPT !.stage = stage, !.event = event] = [p EXCEPT !.event = event]
  OBVIOUS
<1> HIDE DEF p
<1> QED BY <1>1, <1>2, FieldsOf, WithEvent

LEMMA WithStamp ==
    ASSUME NEW q, IsRequest(q), NEW stamp
    PROVE  [q EXCEPT !.stamp = stamp] =
               Fields(q.kind, q.who, q.args, q.stage, q.policies, stamp, q.seen, q.event, q.answer, q.shown)
BY DEF IsRequest, Fields

LEMMA WithSeen ==
    ASSUME NEW q, IsRequest(q), NEW seen
    PROVE  [q EXCEPT !.seen = seen] =
               Fields(q.kind, q.who, q.args, q.stage, q.policies, q.stamp, seen, q.event, q.answer, q.shown)
BY DEF IsRequest, Fields

-----------------------------------------------------------------------------
(* Steps of one request.                                                   *)

\* The others go on as they were while policy and server stay.
LEMMA OneRequest ==
    ASSUME IInv, NEW c \in Clients, NEW r, requests' = [requests EXCEPT ![c] = r],
           UNCHANGED <<policy, writing, web>>,
           r # NoRequest => IsRequest(r) /\ Backed(r)
    PROVE  IInv'
<1>1. PolicyInv' /\ WebInv'
  BY DEF IInv, PolicyInv, WebInv
<1>2. /\ requests' = [d \in Clients |-> requests'[d]]
      /\ requests'[c] = r
      /\ \A d \in Clients : d # c => requests'[d] = requests[d]
  BY DEF IInv, RequestsInv
<1>3. ASSUME NEW d \in Clients, requests'[d] # NoRequest
      PROVE  IsRequest(requests'[d]) /\ Backed(requests[d])'
  <2>1. CASE d = c
    BY <1>2, <1>3, <2>1 DEF Backed, Leave, AllLeave
  <2>2. CASE d # c
    <3>1. requests'[d] = requests[d] /\ IsRequest(requests[d]) /\ Backed(requests[d])
      BY <1>2, <1>3, <2>2 DEF IInv, RequestsInv
    <3> QED BY <3>1 DEF Backed, Leave, AllLeave
  <2> QED BY <2>1, <2>2
<1> QED BY <1>1, <1>2, <1>3 DEF IInv, RequestsInv

\* A request keeps its kind, its caller and its arguments.
SameRequest(q, r) ==
    /\ IsRequest(r)
    /\ r.kind = q.kind /\ r.who = q.who /\ r.args = q.args /\ r.policies = q.policies

\* What it newly does needs leave.
Justified(q, r) ==
    /\ r.stage # "begun"
    /\ \/ r.event = q.event
       \/ r.kind \in {"post", "submit_proposal"} /\ Leave(q, "review_candidate")
    /\ r.kind = "submit_proposal" /\ r.stage = "allowed" => Leave(q, "review_candidate")
    /\ r.kind \in {"post", "submit_proposal"} /\ r.stage \in {"calling", "found"} =>
          Leave(q, "review_candidate")
    /\ r.kind \in DOMAIN Needs /\ r.stage = "half" => Leave(q, Needs[r.kind])
    /\ r.kind \in DOMAIN Needs /\ r.stage = "allowed" => AllLeave(q)
    /\ r.kind \in DOMAIN Needs /\ r.shown # Nothing => AllLeave(q)

LEMMA MovedInv ==
    ASSUME IInv, NEW c \in Clients, requests[c] # NoRequest, NEW r,
           SameRequest(requests[c], r), Justified(requests[c], r),
           requests' = [requests EXCEPT ![c] = r],
           UNCHANGED <<policy, writing, web>>
    PROVE  IInv'
<1> DEFINE q == requests[c]
<1>1. Backed(q)
  BY DEF IInv, RequestsInv
<1>2. AllLeave(q) => AllLeave(r)
  BY DEF AllLeave, ActionsOf, Leave, SameRequest
<1>3. \A action : Leave(q, action) => Leave(r, action)
  BY DEF Leave, SameRequest
<1>4. Backed(r)
  BY <1>1, <1>2, <1>3 DEF Backed, SameRequest, Justified
<1> QED BY <1>4, OneRequest DEF SameRequest

\* A request turned to a stage, in one record.
LEMMA TurnedIs ==
    ASSUME IInv, NEW c \in Clients, requests[c] # NoRequest,
           NEW stage, NEW answer, NEW shown, Turned(c, stage, answer, shown)
    PROVE  LET q == requests[c]
           IN  requests' = [requests EXCEPT ![c] =
                   Fields(q.kind, q.who, q.args, stage, q.policies, q.stamp, q.seen, q.event, answer, shown)]
<1> DEFINE q == requests[c]
           p == [q EXCEPT !.stage = stage]
           o == [p EXCEPT !.answer = answer]
           r == Fields(q.kind, q.who, q.args, stage, q.policies, q.stamp, q.seen,
                       q.event, answer, shown)
<1>1. IsRequest(q) /\ requests = [d \in Clients |-> requests[d]]
  BY DEF IInv, RequestsInv
<1>2. requests' = [requests EXCEPT ![c] = [o EXCEPT !.shown = shown]]
  BY <1>1 DEF Turned
<1>3. p = Fields(q.kind, q.who, q.args, stage, q.policies, q.stamp, q.seen,
                 q.event, q.answer, q.shown)
  BY <1>1, WithStage
<1> HIDE DEF p
<1>4. o = Fields(q.kind, q.who, q.args, stage, q.policies, q.stamp, q.seen,
                 q.event, answer, q.shown)
  BY <1>3, FieldsOf, WithAnswer
<1> HIDE DEF o
<1>5. /\ IsRequest(o) /\ o.kind = q.kind /\ o.who = q.who /\ o.args = q.args
      /\ o.stage = stage /\ o.policies = q.policies /\ o.stamp = q.stamp /\ o.seen = q.seen
      /\ o.event = q.event /\ o.answer = answer
  BY <1>4, FieldsOf
<1>6. [o EXCEPT !.shown = shown] = r
  BY <1>5, WithShown
<1> HIDE DEF r
<1>7. requests' = [requests EXCEPT ![c] = r]
  BY <1>2, <1>6
<1> QED BY <1>7 DEF r

\* A request that turns to another stage with an answer.
LEMMA TurnedInv ==
    ASSUME IInv, NEW c \in Clients, requests[c] # NoRequest,
           NEW stage, NEW answer, NEW shown, Turned(c, stage, answer, shown),
           UNCHANGED <<policy, writing, web>>,
           stage \notin {"begun", "half", "allowed", "calling", "found"},
           requests[c].kind \in DOMAIN Needs /\ shown # Nothing => AllLeave(requests[c])
    PROVE  IInv'
<1> DEFINE q == requests[c]
           r == Fields(q.kind, q.who, q.args, stage, q.policies, q.stamp, q.seen,
                       q.event, answer, shown)
<1>1. requests' = [requests EXCEPT ![c] = r]
  BY TurnedIs
<1>2. SameRequest(q, r)
  BY FieldsOf DEF SameRequest
<1>3. Justified(q, r)
  <2>1. r.kind = q.kind /\ r.event = q.event /\ r.stage = stage /\ r.shown = shown
    BY FieldsOf
  <2> HIDE DEF r
  <2> QED BY <2>1 DEF Justified
<1> HIDE DEF r
<1> QED BY <1>1, <1>2, <1>3, MovedInv

\* A request that only goes on to a stage.
LEMMA StagedInv ==
    ASSUME IInv, NEW c \in Clients, requests[c] # NoRequest, NEW stage,
           requests' = [requests EXCEPT ![c].stage = stage],
           UNCHANGED <<policy, writing, web>>,
           stage # "begun",
           requests[c].kind = "submit_proposal" /\ stage = "allowed" =>
              Leave(requests[c], "review_candidate"),
           requests[c].kind \in {"post", "submit_proposal"} /\ stage \in {"calling", "found"} =>
              Leave(requests[c], "review_candidate"),
           requests[c].kind \in DOMAIN Needs /\ stage = "half" =>
              Leave(requests[c], Needs[requests[c].kind]),
           requests[c].kind \in DOMAIN Needs /\ stage = "allowed" => AllLeave(requests[c])
    PROVE  IInv'
<1> DEFINE q == requests[c]
           r == Fields(q.kind, q.who, q.args, stage, q.policies, q.stamp, q.seen,
                       q.event, q.answer, q.shown)
<1>1. IsRequest(q) /\ requests = [d \in Clients |-> requests[d]] /\ Backed(q)
  BY DEF IInv, RequestsInv
<1>2. requests' = [requests EXCEPT ![c] = [q EXCEPT !.stage = stage]]
  BY <1>1
<1>3. requests' = [requests EXCEPT ![c] = r]
  BY <1>1, <1>2, WithStage
<1>4. SameRequest(q, r)
  BY FieldsOf DEF SameRequest
<1>5. Justified(q, r)
  <2>1. r.kind = q.kind /\ r.event = q.event /\ r.stage = stage /\ r.shown = q.shown
    BY FieldsOf
  <2>2. q.kind \in DOMAIN Needs /\ q.shown # Nothing => AllLeave(q)
    BY <1>1 DEF Backed
  <2> HIDE DEF r
  <2> QED BY <2>1, <2>2 DEF Justified
<1> HIDE DEF r
<1> QED BY <1>3, <1>4, <1>5, MovedInv

\* A request whose call of the store begins.
Called(q, stamp, seen) ==
    Fields(q.kind, q.who, q.args, "calling", q.policies, stamp, seen, q.event, q.answer, q.shown)

LEMMA CalledIs ==
    ASSUME IInv, NEW c \in Clients, requests[c] # NoRequest, CallStore(c)
    PROVE  requests' = [requests EXCEPT ![c] = Called(requests[c], clock, Len(events))]
<1> DEFINE q == requests[c]
           n == Len(events)
           p == [q EXCEPT !.stage = "calling"]
           o == [p EXCEPT !.stamp = clock]
<1>1. IsRequest(q) /\ requests = [d \in Clients |-> requests[d]]
  BY DEF IInv, RequestsInv
<1>2. requests' = [requests EXCEPT ![c] = [o EXCEPT !.seen = n]]
  BY <1>1 DEF CallStore
<1> HIDE DEF n
<1>3. p = Fields(q.kind, q.who, q.args, "calling", q.policies, q.stamp, q.seen,
                 q.event, q.answer, q.shown)
  BY <1>1, WithStage
<1> HIDE DEF p
<1>4. /\ IsRequest(p) /\ p.kind = q.kind /\ p.who = q.who /\ p.args = q.args
      /\ p.stage = "calling" /\ p.policies = q.policies /\ p.seen = q.seen
      /\ p.event = q.event /\ p.answer = q.answer /\ p.shown = q.shown
  BY <1>3, FieldsOf
<1>5. o = Fields(q.kind, q.who, q.args, "calling", q.policies, clock, q.seen, q.event, q.answer, q.shown)
  BY <1>4, WithStamp
<1> HIDE DEF o
<1>6. /\ IsRequest(o) /\ o.kind = q.kind /\ o.who = q.who /\ o.args = q.args
      /\ o.stage = "calling" /\ o.policies = q.policies /\ o.stamp = clock
      /\ o.event = q.event /\ o.answer = q.answer /\ o.shown = q.shown
  BY <1>5, FieldsOf
<1>7. [o EXCEPT !.seen = n] = Called(q, clock, n)
  BY <1>6, WithSeen DEF Called
<1>8. requests' = [requests EXCEPT ![c] = Called(q, clock, n)]
  BY <1>2, <1>7
<1> QED BY <1>8 DEF n

\* Whoever has leave to decide may call the store.
LEMMA CalledInv ==
    ASSUME IInv, NEW c \in Clients, requests[c] # NoRequest,
           requests[c].kind \in {"post", "submit_proposal"},
           Leave(requests[c], "review_candidate"),
           CallStore(c), UNCHANGED <<policy, writing, web>>
    PROVE  IInv'
<1> DEFINE q == requests[c]
           r == Called(q, clock, Len(events))
<1>1. requests' = [requests EXCEPT ![c] = r]
  BY CalledIs
<1>2. SameRequest(q, r)
  BY FieldsOf DEF SameRequest, Called
<1>3. q.kind \notin DOMAIN Needs
  BY DEF Needs
<1>4. r.kind = q.kind /\ r.event = q.event /\ r.stage = "calling"
  BY FieldsOf DEF Called
<1> HIDE DEF r
<1>5. Justified(q, r)
  BY <1>3, <1>4 DEF Justified
<1> QED BY <1>1, <1>2, <1>5, MovedInv

\* Whoever has leave to decide may save.
LEMMA StoredInv ==
    ASSUME IInv, NEW c \in Clients, requests[c] # NoRequest,
           requests[c].kind \in {"post", "submit_proposal"},
           Leave(requests[c], "review_candidate"),
           NEW s, NEW decision, Store(c, s, decision),
           UNCHANGED <<policy, writing, web>>
    PROVE  IInv'
<1> DEFINE q == requests[c]
           n == Len(events')
           r == Fields(q.kind, q.who, q.args, "stored", q.policies, q.stamp, q.seen,
                       n, q.answer, q.shown)
<1>1. IsRequest(q) /\ requests = [d \in Clients |-> requests[d]]
  BY DEF IInv, RequestsInv
<1>2. q.kind \notin DOMAIN Needs
  BY DEF Needs
<1>3. requests' = [requests EXCEPT ![c] = [q EXCEPT !.stage = "stored", !.event = n]]
  BY <1>1 DEF Store
<1> HIDE DEF n
<1>4. requests' = [requests EXCEPT ![c] = r]
  BY <1>1, <1>3, Storing
<1>5. SameRequest(q, r)
  BY FieldsOf DEF SameRequest
<1>6. Justified(q, r)
  <2>1. r.kind = q.kind /\ r.stage = "stored"
    BY FieldsOf
  <2> HIDE DEF r
  <2> QED BY <1>2, <2>1 DEF Justified
<1> HIDE DEF r
<1> QED BY <1>4, <1>5, <1>6, MovedInv

-----------------------------------------------------------------------------
(* The policy, the evidence and the server.                                *)

LEMMA StutterInv ==
    ASSUME IInv, UNCHANGED <<policy, writing, web, requests>>
    PROVE  IInv'
BY DEF IInv, PolicyInv, WebInv, RequestsInv, Backed, Leave, AllLeave

LEMMA MadeIsFile == ASSUME NEW mode, NEW role, NEW actors PROVE IsFile(PolicyFile(mode, role, actors))
BY DEF IsFile, PolicyFile

\* With another policy a request has whatever leave it had.
LEMMA SetPolicyInv ==
    ASSUME IInv, NEW file, file = NoFile \/ file = Unreadable \/ IsFile(file), SetPolicy(file),
           web' = web, writing' = NoFile \/ IsFile(writing')
    PROVE  IInv'
<1>1. PolicyInv' /\ WebInv'
  <2>1. PolicyInv'
    BY DEF PolicyInv, SetPolicy, IsFile
  <2>2. WebInv'
    BY DEF IInv, WebInv
  <2> QED BY <2>1, <2>2
<1>2. /\ requests' = [c \in Clients |-> requests'[c]]
      /\ policy' = file
      /\ \A c \in Clients :
            requests'[c] = IF requests[c] = NoRequest THEN NoRequest
                           ELSE [requests[c] EXCEPT !.policies = @ \cup {file}]
  BY DEF SetPolicy
<1>3. ASSUME NEW c \in Clients, requests'[c] # NoRequest
      PROVE  IsRequest(requests'[c]) /\ Backed(requests[c])'
  <2> DEFINE q == requests[c]
             r == Fields(q.kind, q.who, q.args, q.stage, q.policies \cup {file}, q.stamp, q.seen,
                         q.event, q.answer,
                         q.shown)
  <2>1. q # NoRequest /\ IsRequest(q) /\ Backed(q)
    BY <1>2, <1>3 DEF IInv, RequestsInv
  <2>2. requests'[c] = [q EXCEPT !.policies = q.policies \cup {file}]
    BY <1>2, <2>1
  <2>3. requests'[c] = r
    BY <2>1, <2>2, WithPolicies
  <2>4. /\ IsRequest(r) /\ r.kind = q.kind /\ r.who = q.who /\ r.args = q.args /\ r.stage = q.stage
        /\ r.policies = q.policies \cup {file} /\ r.event = q.event /\ r.shown = q.shown
    BY FieldsOf
  <2> HIDE DEF r
  <2>5. \A action : Leave(q, action) => Leave(r, action)
    BY <2>4 DEF Leave
  <2>6. AllLeave(q) => AllLeave(r)
    BY <2>4, <2>5 DEF AllLeave, ActionsOf
  <2>7. IsRequest(requests'[c])
    BY <2>3, <2>4
  <2>8. Backed(requests[c])'
    <3>1. \A action : Leave(requests[c], action)' <=> Leave(r, action)
      BY <2>3 DEF Leave
    <3>2. AllLeave(requests[c])' <=> AllLeave(r)
      BY <2>3 DEF AllLeave, Leave
    <3> HIDE DEF q
    <3> QED BY <1>2, <2>1, <2>3, <2>4, <2>5, <2>6, <3>1, <3>2 DEF Backed
  <2> QED BY <2>7, <2>8
<1> QED BY <1>1, <1>2, <1>3 DEF IInv, RequestsInv

LEMMA PolicyInitInv == ASSUME IInv, PolicyInit PROVE IInv'
<1>1. SetPolicy(Unreadable) /\ web' = web
  BY DEF PolicyInit
<1>2. IsFile(writing')
  BY MadeIsFile DEF PolicyInit, InitialPolicy
<1> QED BY <1>1, <1>2, SetPolicyInv

LEMMA PolicyWrittenInv == ASSUME IInv, PolicyWritten PROVE IInv'
<1>1. SetPolicy(writing) /\ web' = web /\ writing' = NoFile /\ IsFile(writing)
  BY DEF PolicyWritten, IInv, PolicyInv
<1> QED BY <1>1, SetPolicyInv

LEMMA PolicyInitStoppedInv == ASSUME IInv, PolicyInitStopped PROVE IInv'
<1>1. UNCHANGED <<policy, web, requests>> /\ writing' = NoFile
  BY DEF PolicyInitStopped
<1>2. PolicyInv'
  BY <1>1 DEF IInv, PolicyInv
<1> QED BY <1>1, <1>2 DEF IInv, WebInv, RequestsInv, Backed, Leave, AllLeave

LEMMA EditPolicyByHandInv == ASSUME IInv, EditPolicyByHand PROVE IInv'
<1>1. PICK file \in HandWritten \cup {NoFile, Unreadable} : SetPolicy(file)
  BY DEF EditPolicyByHand
<1>2. file = NoFile \/ file = Unreadable \/ IsFile(file)
  BY PolicyAssumption DEF IsFile
<1>3. web' = web /\ writing' = NoFile
  BY DEF EditPolicyByHand
<1> QED BY <1>1, <1>2, <1>3, SetPolicyInv

\* No form is under way when a server starts: it would have been its predecessor's.
LEMMA ServeReviewInv == ASSUME IInv, ServeReview PROVE IInv'
<1>1. UNCHANGED <<policy, writing, requests>> /\ web = NotServing /\ policy # Unreadable
  BY DEF ServeReview, policyVars
<1>2. PolicyInv'
  BY <1>1 DEF IInv, PolicyInv
<1>3. WebInv'
  <2>1. PICK who : web' = [decision |-> CheckLocalPolicy(policy, "review_candidate", who),
                           who |-> who, policy |-> policy]
    BY DEF ServeReview
  <2>2. policy = NoFile \/ IsFile(policy)
    BY <1>1 DEF IInv, PolicyInv
  <2>3. "review_candidate" \in DecisionActions
    BY DEF DecisionActions
  <2>4. CheckLocalPolicy(policy, "review_candidate", who).allowed =>
            HasLeave(policy, "review_candidate", who)
    BY <1>1, <2>2, <2>3, CheckedHasLeave
  <2> QED BY <2>1, <2>4 DEF WebInv
<1>4. ASSUME NEW c \in Clients, requests[c] # NoRequest PROVE Backed(requests[c])'
  <2>1. Backed(requests[c])
    BY <1>4 DEF IInv, RequestsInv
  <2> QED BY <1>1, <2>1 DEF Backed, Leave, AllLeave
<1> QED BY <1>1, <1>2, <1>3, <1>4 DEF IInv, RequestsInv

LEMMA StopReviewInv == ASSUME IInv, StopReview PROVE IInv'
<1>1. /\ UNCHANGED <<policy, writing>> /\ web' = NotServing
      /\ requests' = [c \in Clients |-> requests'[c]]
  BY DEF StopReview, policyVars
<1>2. PolicyInv' /\ WebInv'
  BY <1>1 DEF IInv, PolicyInv, WebInv
<1>3. ASSUME NEW c \in Clients, requests'[c] # NoRequest
      PROVE  IsRequest(requests'[c]) /\ Backed(requests[c])'
  <2> DEFINE q == requests[c]
             lost == q # NoRequest /\ q.kind \in {"post", "get"} /\ q.stage # "answered"
  <2>1. requests'[c] = IF lost THEN [q EXCEPT !.stage = "answered", !.answer = "lost"] ELSE q
    BY DEF StopReview
  <2>2. q # NoRequest => IsRequest(q) /\ Backed(q)
    BY DEF IInv, RequestsInv
  <2>3. CASE ~lost
    <3>1. requests'[c] = q /\ q # NoRequest /\ ~(q.kind = "post" /\ q.stage = "begun")
      BY <1>3, <2>1, <2>3
    <3> QED BY <1>1, <2>2, <3>1 DEF Backed, Leave, AllLeave
  <2>4. CASE lost
    <3> DEFINE p == [q EXCEPT !.stage = "answered"]
               r == Fields(q.kind, q.who, q.args, "answered", q.policies, q.stamp, q.seen,
                           q.event, "lost", q.shown)
    <3>1. requests'[c] = [p EXCEPT !.answer = "lost"]
      BY <2>1, <2>4
    <3>2. p = Fields(q.kind, q.who, q.args, "answered", q.policies, q.stamp, q.seen,
                     q.event, q.answer, q.shown)
      BY <2>2, <2>4, WithStage
    <3> HIDE DEF p
    <3>3. [p EXCEPT !.answer = "lost"] = r
      BY <3>2, FieldsOf, WithAnswer
    <3>4. requests'[c] = r
      BY <3>1, <3>3
    <3>5. /\ IsRequest(r) /\ r.kind = q.kind /\ r.who = q.who /\ r.args = q.args
          /\ r.stage = "answered" /\ r.policies = q.policies /\ r.event = q.event
      BY FieldsOf
    <3> HIDE DEF r
    <3>6. r.kind \notin DOMAIN Needs /\ r.kind # "submit_proposal"
      BY <2>4, <3>5 DEF Needs
    <3>7. \A action : Leave(q, action) => Leave(r, action)
      BY <3>5 DEF Leave
    <3>8. \A action : Leave(requests[c], action)' <=> Leave(r, action)
      BY <3>4 DEF Leave
    <3> HIDE DEF q
    <3> QED BY <2>2, <2>4, <3>4, <3>5, <3>6, <3>7, <3>8 DEF Backed
  <2> QED BY <2>3, <2>4
<1> QED BY <1>1, <1>2, <1>3 DEF IInv, RequestsInv

-----------------------------------------------------------------------------
(* Requests begin.                                                         *)

LEMMA BegunInv ==
    ASSUME IInv, NEW c \in Clients, NEW kind, NEW who, NEW args, NEW policies,
           Begin(c, Fields(kind, who, args, "begun", policies, 0, 0, 0, Nothing, Nothing)),
           kind = "post" => /\ args \in Forms
                            /\ web # NotServing /\ who = web.who /\ web.policy \in policies,
           kind = "get" => args.path \in {"/", "/healthz", "/review-events.jsonl", "elsewhere"},
           kind \notin {"post", "get"} => policy \in policies
    PROVE  IInv'
<1> DEFINE r == Fields(kind, who, args, "begun", policies, 0, 0, 0, Nothing, Nothing)
<1>1. requests' = [requests EXCEPT ![c] = r] /\ UNCHANGED <<policy, writing, web>>
  BY DEF Begin, policyVars
<1>2. /\ IsRequest(r) /\ r.kind = kind /\ r.who = who /\ r.args = args /\ r.stage = "begun"
      /\ r.policies = policies /\ r.event = 0 /\ r.shown = Nothing
  BY FieldsOf
<1> HIDE DEF r
<1>3. Backed(r)
  BY <1>2 DEF Backed
<1> QED BY <1>1, <1>2, <1>3, OneRequest

LEMMA NewRequest ==
    ASSUME NEW kind, NEW who, NEW args
    PROVE  Request(kind, who, args) = Fields(kind, who, args, "begun", {policy}, 0, 0, 0, Nothing, Nothing)
BY DEF Request, Fields

LEMMA NewWebRequest ==
    ASSUME NEW kind, NEW who, NEW args, NEW policies
    PROVE  [Request(kind, who, args) EXCEPT !.policies = policies] =
               Fields(kind, who, args, "begun", policies, 0, 0, 0, Nothing, Nothing)
<1> DEFINE q == Request(kind, who, args)
<1>1. q = Fields(kind, who, args, "begun", {policy}, 0, 0, 0, Nothing, Nothing)
  BY NewRequest
<1> HIDE DEF q
<1>2. /\ IsRequest(q) /\ q.kind = kind /\ q.who = who /\ q.args = args /\ q.stage = "begun"
      /\ q.stamp = 0 /\ q.seen = 0 /\ q.event = 0 /\ q.answer = Nothing /\ q.shown = Nothing
  BY <1>1, FieldsOf
<1>3. [q EXCEPT !.policies = policies] =
          Fields(kind, who, args, "begun", policies, 0, 0, 0, Nothing, Nothing)
  <2>1. [q EXCEPT !.policies = policies] =
            Fields(q.kind, q.who, q.args, q.stage, policies, q.stamp, q.seen,
                   q.event, q.answer, q.shown)
    BY <1>2, WithPolicies, Zenon
  <2> QED BY <1>2, <2>1
<1> QED BY <1>3 DEF q

LEMMA BeginInv ==
    ASSUME IInv, NEW c \in Clients,
           BeginPost(c) \/ BeginGet(c) \/ BeginMessage(c) \/ BeginProposal(c)
              \/ BeginFindEvidence(c) \/ BeginCommand(c)
    PROVE  IInv'
<1>1. ASSUME NEW kind \in {"message", "submit_proposal", "find_evidence"} \cup DOMAIN Needs,
             NEW who, NEW args, Begin(c, Request(kind, who, args))
      PROVE  IInv'
  <2>1. kind # "post" /\ kind # "get"
    BY DEF Needs
  <2>2. Begin(c, Fields(kind, who, args, "begun", {policy}, 0, 0, 0, Nothing, Nothing))
    BY <1>1, NewRequest
  <2> QED BY <2>1, <2>2, BegunInv
<1>2. CASE BeginPost(c)
  <2>1. PICK form \in PlainForms :
            Begin(c, [Request("post", web.who, form) EXCEPT !.policies = {web.policy}])
    BY <1>2 DEF BeginPost
  <2>2. form \in Forms /\ web # NotServing
    BY <1>2 DEF BeginPost, PlainForms
  <2>3. Begin(c, Fields("post", web.who, form, "begun", {web.policy}, 0, 0, 0, Nothing, Nothing))
    BY <2>1, NewWebRequest
  <2> QED BY <2>2, <2>3, BegunInv
<1>3. CASE BeginGet(c)
  <2>1. PICK path \in {"/", "/healthz", "/review-events.jsonl", "elsewhere"} :
            Begin(c, [Request("get", web.who, [path |-> path]) EXCEPT !.policies = {web.policy}])
    BY <1>3 DEF BeginGet
  <2> DEFINE args == [path |-> path]
  <2>2. args.path \in {"/", "/healthz", "/review-events.jsonl", "elsewhere"}
    OBVIOUS
  <2>3. Begin(c, Fields("get", web.who, args, "begun", {web.policy}, 0, 0, 0, Nothing, Nothing))
    BY <2>1, NewWebRequest
  <2> HIDE DEF args
  <2> QED BY <2>2, <2>3, BegunInv
<1>4. CASE BeginMessage(c)
  BY <1>1, <1>4 DEF BeginMessage
<1>5. CASE BeginProposal(c)
  BY <1>1, <1>5 DEF BeginProposal
<1>6. CASE BeginFindEvidence(c)
  BY <1>1, <1>6 DEF BeginFindEvidence
<1>7. CASE BeginCommand(c)
  BY <1>1, <1>7 DEF BeginCommand
<1> QED BY <1>2, <1>3, <1>4, <1>5, <1>6, <1>7

-----------------------------------------------------------------------------
(* Requests are served.                                                    *)

\* What a request that is under way has behind it.
LEMMA AtFacts ==
    ASSUME IInv, NEW c \in Clients, NEW kinds, NEW stage, At(c, kinds, stage)
    PROVE  /\ requests[c] # NoRequest /\ requests[c].kind \in kinds /\ requests[c].stage = stage
           /\ IsRequest(requests[c]) /\ Backed(requests[c])
BY DEF At, IInv, RequestsInv

LEMMA AnsweredInv ==
    ASSUME IInv, NEW c \in Clients, requests[c] # NoRequest,
           NEW answer, NEW shown, Answer(c, answer, shown),
           UNCHANGED <<policy, writing, web>>,
           requests[c].kind \in DOMAIN Needs /\ shown # Nothing => AllLeave(requests[c])
    PROVE  IInv'
BY TurnedInv DEF Answer

LEMMA PostDecisionInv == ASSUME IInv, NEW c \in Clients, PostDecision(c) PROVE IInv'
<1> DEFINE q == requests[c]
           form == q.args
           code == PostRefusal(form)
<1>1. /\ q # NoRequest /\ q.kind = "post" /\ q.stage = "begun" /\ Backed(q)
  BY AtFacts DEF PostDecision
<1>2. UNCHANGED <<policy, writing, web>> /\ q.kind \notin DOMAIN Needs
  BY <1>1 DEF PostDecision, policyVars, Needs
<1>3. form \in Forms /\ web # NotServing /\ q.who = web.who /\ web.policy \in q.policies
  BY <1>1 DEF Backed
<1>4. code = "200" => Leave(q, "review_candidate")
  <2>1. form.envelope \in {"good", "no_such_path", "bad_length", "too_large", "not_utf8"}
    BY <1>3 DEF Forms
  <2>2. code = "200" => web.decision.allowed
    <3> HIDE DEF form
    <3> QED BY <2>1 DEF PostRefusal
  <2> HIDE DEF code
  <2> QED BY <1>3, <2>2 DEF Leave, IInv, WebInv
<1>5. CASE code # "200" /\ Answer(c, code, Nothing)
  BY <1>1, <1>2, <1>5, AnsweredInv
<1>6. CASE code = "200" /\ CallStore(c)
  BY <1>1, <1>2, <1>4, <1>6, CalledInv
<1> HIDE DEF q, form, code
<1> QED BY <1>5, <1>6 DEF PostDecision, q, form, code

\* The steps of a call of the store.
LEMMA CallInv ==
    ASSUME IInv, NEW c \in Clients, FindRow(c) \/ StoreDecision(c) \/ StoreFails(c)
    PROVE  IInv'
<1> DEFINE q == requests[c]
<1>1. /\ q # NoRequest /\ q.kind \in {"post", "submit_proposal"} /\ q.stage \in {"calling", "found"}
      /\ FindRow(c) => q.stage = "calling"
  BY DEF FindRow, StoreDecision, StoreFails, At
<1>2. UNCHANGED <<policy, writing, web>> /\ q.kind \notin DOMAIN Needs
  BY <1>1 DEF FindRow, StoreDecision, StoreFails, policyVars, Needs
<1>3. Leave(q, "review_candidate")
  BY <1>1 DEF IInv, RequestsInv, Backed
<1>4. CASE FindRow(c)
  <2>1. \E stage \in {"stored", "found"} : requests' = [requests EXCEPT ![c].stage = stage]
    BY <1>4 DEF FindRow
  <2> QED BY <1>1, <1>2, <1>3, <2>1, StagedInv
<1>5. CASE StoreDecision(c)
  BY <1>1, <1>2, <1>3, <1>5, StoredInv DEF StoreDecision
<1>6. CASE StoreFails(c)
  <2>1. \E answer : Answer(c, answer, Nothing)
    BY <1>6 DEF StoreFails
  <2> QED BY <1>1, <1>2, <2>1, AnsweredInv
<1> QED BY <1>4, <1>5, <1>6

LEMMA PostAnswerInv == ASSUME IInv, NEW c \in Clients, PostAnswer(c) PROVE IInv'
<1>1. requests[c] # NoRequest /\ requests[c].kind = "post"
  BY AtFacts DEF PostAnswer
<1>2. UNCHANGED <<policy, writing, web>> /\ requests[c].kind \notin DOMAIN Needs
  BY <1>1 DEF PostAnswer, policyVars, Needs
<1>3. \E answer, shown : Answer(c, answer, shown)
  BY DEF PostAnswer
<1> QED BY <1>1, <1>2, <1>3, AnsweredInv

LEMMA GetInv == ASSUME IInv, NEW c \in Clients, Get(c) PROVE IInv'
<1>1. requests[c] # NoRequest /\ requests[c].kind = "get" /\ Backed(requests[c])
  BY AtFacts DEF Get
<1>2. UNCHANGED <<policy, writing, web>> /\ requests[c].kind \notin DOMAIN Needs
  BY <1>1 DEF Get, policyVars, Needs
<1>3. requests[c].args.path \in {"/", "/healthz", "/review-events.jsonl", "elsewhere"}
  BY <1>1 DEF Backed
<1>4. \E answer, shown : Answer(c, answer, shown)
  BY <1>3 DEF Get
<1> QED BY <1>1, <1>2, <1>4, AnsweredInv

LEMMA MessageInv ==
    ASSUME IInv, NEW c \in Clients, HandleMessage(c) \/ ProposalSaved(c) \/ AnswerFindEvidence(c)
    PROVE  IInv'
<1>1. requests[c] # NoRequest /\ requests[c].kind \in {"message", "submit_proposal", "find_evidence"}
  BY DEF HandleMessage, ProposalSaved, AnswerFindEvidence, At
<1>2. UNCHANGED <<policy, writing, web>> /\ requests[c].kind \notin DOMAIN Needs
  BY <1>1 DEF HandleMessage, ProposalSaved, AnswerFindEvidence, policyVars, Needs
<1>3. \E answer, shown : Answer(c, answer, shown)
  BY DEF HandleMessage, ProposalSaved, AnswerFindEvidence
<1> QED BY <1>1, <1>2, <1>3, AnsweredInv

\* Leave by the policy of the moment.
LEMMA PolicyGivesLeave ==
    ASSUME IInv, NEW c \in Clients, requests[c] # NoRequest, Backed(requests[c]),
           requests[c].kind \notin {"post", "get"},
           NEW action \in DecisionActions, policy # Unreadable,
           CheckLocalPolicy(policy, action, requests[c].who).allowed
    PROVE  Leave(requests[c], action)
<1>1. policy = NoFile \/ IsFile(policy)
  BY DEF IInv, PolicyInv
<1>2. HasLeave(policy, action, requests[c].who)
  BY <1>1, CheckedHasLeave
<1> QED BY <1>2 DEF Backed, Leave

LEMMA ProposalInv ==
    ASSUME IInv, NEW c \in Clients, SubmitProposal(c) \/ SaveProposal(c)
    PROVE  IInv'
<1>1. /\ requests[c] # NoRequest /\ requests[c].kind = "submit_proposal" /\ Backed(requests[c])
      /\ SaveProposal(c) => requests[c].stage = "allowed"
  BY AtFacts DEF SubmitProposal, SaveProposal
<1>2. UNCHANGED <<policy, writing, web>> /\ requests[c].kind \notin DOMAIN Needs
  BY <1>1 DEF SubmitProposal, SaveProposal, policyVars, Needs
<1>3. CASE \E answer : Answer(c, answer, Nothing)
  BY <1>1, <1>2, <1>3, AnsweredInv
<1>4. CASE /\ requests' = [requests EXCEPT ![c].stage = "allowed"] /\ policy # Unreadable
           /\ CheckLocalPolicy(policy, "review_candidate", requests[c].who).allowed
  <2>1. Leave(requests[c], "review_candidate")
    BY <1>1, <1>4, PolicyGivesLeave DEF DecisionActions
  <2> QED BY <1>1, <1>2, <1>4, <2>1, StagedInv
<1>5. CASE SaveProposal(c)
  <2>1. Leave(requests[c], "review_candidate") /\ CallStore(c)
    BY <1>1, <1>5 DEF Backed, SaveProposal
  <2> QED BY <1>1, <1>2, <2>1, CalledInv
<1> QED BY <1>3, <1>4, <1>5 DEF SubmitProposal

LEMMA NeedsFacts ==
    /\ DOMAIN Needs = {"prompt", "assess", "consensus", "dataset", "export"}
    /\ \A kind \in DOMAIN Needs : Needs[kind] \in DecisionActions
    /\ "run_llm_review" \in DecisionActions
BY DEF Needs, DecisionActions

\* A command that is asked for leave: it has it and goes on, or is answered.
LEMMA AskForInv ==
    ASSUME IInv, NEW c \in Clients, requests[c] # NoRequest, Backed(requests[c]),
           requests[c].kind \in DOMAIN Needs,
           NEW need \in DecisionActions, NEW stage, AskFor(c, need, stage),
           UNCHANGED <<policy, writing, web>>, stage # "begun",
           Leave(requests[c], need) => /\ stage = "half" => Leave(requests[c], Needs[requests[c].kind])
                                       /\ stage = "allowed" => AllLeave(requests[c])
    PROVE  IInv'
<1>1. requests[c].kind \notin {"post", "get", "submit_proposal"}
  BY NeedsFacts
<1>2. CASE \E answer : Answer(c, answer, Nothing)
  BY <1>2, AnsweredInv
<1>3. CASE /\ policy # Unreadable /\ CheckLocalPolicy(policy, need, requests[c].who).allowed
           /\ requests' = [requests EXCEPT ![c].stage = stage]
  <2>1. Leave(requests[c], need)
    BY <1>1, <1>3, PolicyGivesLeave
  <2> QED BY <1>1, <1>3, <2>1, StagedInv
<1> QED BY <1>2, <1>3 DEF AskFor

LEMMA AskForLeaveInv == ASSUME IInv, NEW c \in Clients, AskForLeave(c) PROVE IInv'
<1> DEFINE q == requests[c]
<1>1. UNCHANGED <<policy, writing, web>>
  BY DEF AskForLeave, policyVars
<1>2. /\ q # NoRequest /\ q.kind \in DOMAIN Needs /\ Backed(q)
      /\ Needs[q.kind] \in DecisionActions
  <2>1. At(c, DOMAIN Needs, "begun") \/ At(c, {"dataset"}, "half")
    BY DEF AskForLeave
  <2>2. q # NoRequest /\ q.kind \in DOMAIN Needs
    BY <2>1, NeedsFacts DEF At
  <2> QED BY <2>2, NeedsFacts DEF IInv, RequestsInv
<1>3. CASE AskFor(c, Needs[q.kind], "half")
  BY <1>1, <1>2, <1>3, AskForInv
<1>4. CASE ~q.args.agent /\ AskFor(c, Needs[q.kind], "allowed")
  <2>1. Leave(q, Needs[q.kind]) => AllLeave(q)
    BY <1>2, <1>4 DEF AllLeave, ActionsOf
  <2> QED BY <1>1, <1>2, <1>4, <2>1, AskForInv
<1>5. CASE At(c, {"dataset"}, "half") /\ AskFor(c, "run_llm_review", "allowed")
  <2>1. Leave(q, Needs[q.kind])
    BY <1>2, <1>5 DEF At, Backed
  <2>2. Leave(q, "run_llm_review") => AllLeave(q)
    BY <1>2, <2>1 DEF AllLeave, ActionsOf
  <2> QED BY <1>1, <1>2, <1>5, <2>2, NeedsFacts, AskForInv
<1> QED BY <1>3, <1>4, <1>5 DEF AskForLeave

\* Whatever a command shows, it is past the question for leave.
LEMMA CommandInv ==
    ASSUME IInv, NEW c \in Clients, ReviewAgentCommand(c) \/ ExportCommand(c)
    PROVE  IInv'
<1>1. /\ requests[c] # NoRequest /\ requests[c].stage = "allowed"
      /\ requests[c].kind \in {"prompt", "assess", "consensus", "dataset", "export"}
      /\ UNCHANGED <<policy, writing, web>>
  BY DEF ReviewAgentCommand, ExportCommand, At, policyVars
<1>2. AllLeave(requests[c])
  BY <1>1, NeedsFacts DEF IInv, RequestsInv, Backed
<1>3. \E answer, shown : Answer(c, answer, shown)
  <2>1. CASE ExportCommand(c)
    BY <2>1 DEF ExportCommand
  <2>2. CASE Answer(c, "exit 1", Nothing)
    BY <2>2
  <2>3. CASE \E item : PromptCommand(c, item)
    BY <2>3 DEF PromptCommand
  <2>4. CASE \E item : AssessCommand(c, item)
    BY <2>4 DEF AssessCommand, AnswerDecision
  <2>5. CASE \E item : ConsensusCommand(c, item)
    BY <2>5 DEF ConsensusCommand, AnswerReport
  <2>6. ReviewAgentCommand(c) =>
            \/ Answer(c, "exit 1", Nothing)
            \/ \E item : PromptCommand(c, item) \/ AssessCommand(c, item) \/ ConsensusCommand(c, item)
    BY DEF ReviewAgentCommand, At
  <2> QED BY <2>1, <2>2, <2>3, <2>4, <2>5, <2>6
<1> QED BY <1>1, <1>2, <1>3, AnsweredInv

LEMMA EndInv == ASSUME IInv, NEW c \in Clients, End(c) PROVE IInv'
<1>1. requests' = [requests EXCEPT ![c] = NoRequest] /\ UNCHANGED <<policy, writing, web>>
  BY DEF End, policyVars
<1> QED BY <1>1, OneRequest

-----------------------------------------------------------------------------
(* Every behaviour.                                                        *)

LEMMA InitInv == Init => IInv
<1> SUFFICES ASSUME Init PROVE IInv
  OBVIOUS
<1>1. policy = NoFile \/ policy = Unreadable \/ IsFile(policy)
  BY PolicyAssumption DEF Init, IsFile
<1> QED BY <1>1 DEF Init, IInv, PolicyInv, WebInv, RequestsInv

LEMMA NextInv == IInv /\ [Next]_vars => IInv'
<1> SUFFICES ASSUME IInv, [Next]_vars PROVE IInv'
  OBVIOUS
<1>1. CASE PolicyInit \/ PolicyWritten \/ PolicyInitStopped \/ EditPolicyByHand
  BY <1>1, PolicyInitInv, PolicyWrittenInv, PolicyInitStoppedInv, EditPolicyByHandInv
<1>2. CASE Scan \/ Tick
  BY <1>2, StutterInv DEF Scan, Tick, policyVars
<1>3. CASE ServeReview \/ StopReview
  BY <1>3, ServeReviewInv, StopReviewInv
<1>4. ASSUME NEW c \in Clients,
             BeginPost(c) \/ BeginGet(c) \/ BeginMessage(c) \/ BeginProposal(c)
                \/ BeginFindEvidence(c) \/ BeginCommand(c)
      PROVE  IInv'
  BY <1>4, BeginInv
<1>5. ASSUME NEW c \in Clients, PostDecision(c) \/ PostAnswer(c) \/ Get(c) PROVE IInv'
  BY <1>5, PostDecisionInv, PostAnswerInv, GetInv
<1>6. ASSUME NEW c \in Clients, HandleMessage(c) \/ ProposalSaved(c) \/ AnswerFindEvidence(c)
      PROVE  IInv'
  BY <1>6, MessageInv
<1>7. ASSUME NEW c \in Clients, SubmitProposal(c) \/ SaveProposal(c) PROVE IInv'
  BY <1>7, ProposalInv
<1>8. ASSUME NEW c \in Clients, AskForLeave(c) PROVE IInv'
  BY <1>8, AskForLeaveInv
<1>9. ASSUME NEW c \in Clients, ReviewAgentCommand(c) \/ ExportCommand(c) PROVE IInv'
  BY <1>9, CommandInv
<1>10. ASSUME NEW c \in Clients, End(c) PROVE IInv'
  BY <1>10, EndInv
<1>11. CASE UNCHANGED vars
  BY <1>11, StutterInv DEF vars
<1>12. ASSUME NEW c \in Clients, FindRow(c) \/ StoreDecision(c) \/ StoreFails(c) PROVE IInv'
  BY <1>12, CallInv
<1> QED BY <1>1, <1>2, <1>3, <1>4, <1>5, <1>6, <1>7, <1>8, <1>9, <1>10, <1>11, <1>12 DEF Next

LEMMA Invariance == Spec => []IInv
BY InitInv, NextInv, PTL DEF Spec

\* A decision is saved, and a command prompts the agent or exports reviews, only with
\* leave by some policy there was during the request, however the policy changes,
\* servers stop and start, and requests overlap.  A form's one policy is that of its
\* server's start; what browsers read is asked of no policy.
THEOREM LeaveCorrect == Spec => []DecidersAndCommandsHaveLeave
<1>1. IInv => DecidersAndCommandsHaveLeave
  <2> SUFFICES ASSUME IInv, NEW c \in Clients, requests[c] # NoRequest, Acted(requests[c])
               PROVE  AllLeave(requests[c])
    BY DEF DecidersAndCommandsHaveLeave, AllLeave, Leave
  <2>1. Backed(requests[c])
    BY DEF IInv, RequestsInv
  <2>2. CASE requests[c].event # 0
    <3>1. requests[c].kind \notin DOMAIN Needs /\ Leave(requests[c], "review_candidate")
      BY <2>1, <2>2, NeedsFacts DEF Backed
    <3> QED BY <3>1 DEF AllLeave, ActionsOf
  <2>3. CASE requests[c].kind \in DOMAIN Needs /\ requests[c].shown # Nothing
    BY <2>1, <2>3 DEF Backed
  <2> QED BY <2>2, <2>3 DEF Acted
<1> QED BY <1>1, Invariance, PTL

-----------------------------------------------------------------------------
(* What a server was told, and what its pages say.                         *)

\* A policy names its mode and the roles of its actors.
Sound(file) ==
    /\ IsFile(file)
    /\ file.mode # NoMode
    /\ \A a \in DOMAIN file.actors : file.actors[a] # NoRole

SoundInv ==
    /\ policy = NoFile \/ policy = Unreadable \/ Sound(policy)
    /\ writing = NoFile \/ Sound(writing)
    /\ web # NotServing =>
          /\ web.policy # Unreadable /\ (web.policy = NoFile \/ Sound(web.policy))
          /\ web.decision = CheckLocalPolicy(web.policy, "review_candidate", web.who)

LEMMA InitialIsSound ==
    ASSUME NEW mode \in Modes, NEW actor, NEW role, role # NoRole
    PROVE  Sound(InitialPolicy(mode, actor, role))
<1> DEFINE file == InitialPolicy(mode, actor, role)
<1>1. /\ IsFile(file) /\ file.mode = mode
      /\ file.actors = [a \in {actor} |-> role]
  BY DEF InitialPolicy, PolicyFile, IsFile
<1> HIDE DEF file
<1> QED BY <1>1, PolicyAssumption DEF Sound, file

LEMMA HandWrittenIsSound == \A file \in HandWritten : Sound(file)
BY PolicyAssumption DEF Sound, IsFile

LEMMA SoundStep == ASSUME SoundInv, [Next]_vars PROVE SoundInv'
<1>1. CASE UNCHANGED <<policy, writing, web>>
  BY <1>1 DEF SoundInv
<1>2. CASE PolicyInit
  <2>1. PICK mode \in Modes, who \in job.callers :
           who.role # NoRole /\ writing' = InitialPolicy(mode, who.actor, who.role)
    BY <1>2 DEF PolicyInit
  <2>2. policy' = Unreadable /\ web' = web
    BY <1>2 DEF PolicyInit, SetPolicy
  <2>3. Sound(writing')
    BY <2>1, InitialIsSound
  <2> QED BY <2>2, <2>3 DEF SoundInv
<1>3. CASE PolicyWritten \/ PolicyInitStopped
  BY <1>3 DEF PolicyWritten, PolicyInitStopped, SetPolicy, SoundInv
<1>4. CASE EditPolicyByHand
  <2>1. /\ policy' \in HandWritten \cup {NoFile, Unreadable}
        /\ writing' = writing /\ web' = web
    BY <1>4 DEF EditPolicyByHand, SetPolicy
  <2> QED BY <2>1, HandWrittenIsSound DEF SoundInv
<1>5. CASE ServeReview
  <2>1. /\ policy # Unreadable /\ UNCHANGED <<policy, writing>>
        /\ \E who : web' = [decision |-> CheckLocalPolicy(policy, "review_candidate", who),
                            who |-> who, policy |-> policy]
    BY <1>5 DEF ServeReview, policyVars
  <2>2. /\ web'.policy = policy
        /\ web'.decision = CheckLocalPolicy(policy, "review_candidate", web'.who)
    BY <2>1
  <2> QED BY <2>1, <2>2 DEF SoundInv
<1>6. CASE StopReview
  BY <1>6 DEF StopReview, policyVars, SoundInv
<1>7. CASE Scan \/ Tick
  BY <1>1, <1>7 DEF Scan, Tick, policyVars
<1>8. ASSUME NEW c \in Clients, \E r : Begin(c, r)
      PROVE  UNCHANGED <<policy, writing, web>>
  BY <1>8 DEF Begin, policyVars
<1>9. ASSUME NEW c \in Clients,
             \/ BeginPost(c) \/ BeginGet(c) \/ BeginMessage(c) \/ BeginProposal(c)
             \/ BeginFindEvidence(c) \/ BeginCommand(c)
      PROVE  UNCHANGED <<policy, writing, web>>
  BY <1>8, <1>9 DEF BeginPost, BeginGet, BeginMessage, BeginProposal, BeginFindEvidence,
                    BeginCommand
<1>10. ASSUME NEW c \in Clients,
              \/ PostDecision(c) \/ PostAnswer(c) \/ Get(c) \/ HandleMessage(c)
              \/ SubmitProposal(c) \/ SaveProposal(c) \/ ProposalSaved(c)
              \/ AnswerFindEvidence(c) \/ AskForLeave(c) \/ ReviewAgentCommand(c)
              \/ ExportCommand(c) \/ End(c)
              \/ FindRow(c) \/ StoreDecision(c) \/ StoreFails(c)
       PROVE  UNCHANGED <<policy, writing, web>>
  BY <1>10 DEF PostDecision, PostAnswer, Get, HandleMessage, SubmitProposal, SaveProposal,
               ProposalSaved, AnswerFindEvidence, AskForLeave, ReviewAgentCommand,
               ExportCommand, End, FindRow, StoreDecision, StoreFails, policyVars
<1> QED
  BY <1>1, <1>2, <1>3, <1>4, <1>5, <1>6, <1>7, <1>9, <1>10 DEF Next, vars

\* A role and a mode that are known leave the policy no say: a page asks as what
\* its server was given leave for, and gets the answer its server got.
LEMMA PageAsServer ==
    ASSUME SoundInv, web # NotServing, policy # Unreadable
    PROVE  PageDecision.allowed = web.decision.allowed
<1> DEFINE file == web.policy
           who == web.who
           loaded == LoadLocalPolicy(file, who.mode)
           role == RoleForActor(loaded, who.actor, who.role)
           as == [actor |-> web.decision.actor, role |-> web.decision.role,
                  mode |-> web.decision.mode]
           now == LoadLocalPolicy(policy, as.mode)
<1>1. file = NoFile \/ Sound(file)
  BY DEF SoundInv
<1>2. /\ web.decision.role = role /\ web.decision.mode = loaded.mode
      /\ web.decision.allowed = (role \in AllowedRoles(loaded.mode, "review_candidate"))
  BY DEF SoundInv, CheckLocalPolicy
<1>3. loaded.mode # NoMode
  BY <1>1, PolicyAssumption
     DEF LoadLocalPolicy, WithMode, LocalPolicy, PolicyFile, Sound, IsFile, Modes
<1>4. role # NoRole
  <2>1. CASE file = NoFile
    <3>1. loaded.actors = <<>> /\ loaded.default_role \in Roles
      BY <2>1 DEF LoadLocalPolicy, WithMode, LocalPolicy, PolicyFile, DefaultRole, Roles
    <3> QED BY <3>1, PolicyAssumption DEF RoleForActor
  <2>2. CASE Sound(file) /\ file # NoFile
    <3>1. loaded.actors = file.actors
      BY <2>2 DEF LoadLocalPolicy, WithMode, LocalPolicy, PolicyFile, Sound, IsFile
    <3>2. loaded.default_role # NoRole
      BY <2>2, PolicyAssumption
         DEF LoadLocalPolicy, WithMode, LocalPolicy, PolicyFile, DefaultRole, Roles, Sound, IsFile
    <3> QED BY <2>2, <3>1, <3>2 DEF RoleForActor, Sound
  <2> QED BY <1>1, <2>1, <2>2
<1> HIDE DEF loaded, role
<1>5. as.role = role /\ as.mode = loaded.mode
  BY <1>2
<1>6. PageDecision = CheckLocalPolicy(policy, "review_candidate", as)
  BY DEF PageDecision
<1>7. PageDecision.allowed =
         (RoleForActor(now, as.actor, as.role) \in AllowedRoles(now.mode, "review_candidate"))
  BY <1>6 DEF CheckLocalPolicy
<1> HIDE DEF as
<1>8. now.mode = loaded.mode
  <2>1. policy = NoFile \/ Sound(policy)
    BY DEF SoundInv
  <2> QED
    BY <1>3, <1>5, <2>1 DEF LoadLocalPolicy, WithMode, LocalPolicy, PolicyFile, Sound, IsFile
<1>9. RoleForActor(now, as.actor, as.role) = role
  BY <1>4, <1>5 DEF RoleForActor
<1> QED BY <1>2, <1>7, <1>8, <1>9

-----------------------------------------------------------------------------
(* The log and the rows.                                                   *)

\* n is the last event of a surface to be saved, 0 if it has none.
IsLast(log, s, n) ==
    /\ n \in Nat
    /\ n # 0 => n \in DOMAIN log /\ log[n].surface = s
    /\ \A i \in DOMAIN log : log[i].surface = s => i <= n

\* n is the event of a surface that comes last in the order of the list.
ListedBy(log, i, n) ==
    \/ log[i].created < log[n].created
    \/ log[i].created = log[n].created /\ i <= n

IsLatest(log, s, n) ==
    /\ n \in DOMAIN log /\ log[n].surface = s
    /\ \A i \in DOMAIN log : log[i].surface = s => ListedBy(log, i, n)

HasNone(log, s) == \A i \in DOMAIN log : log[i].surface # s

\* A row is of the last event saved; there is none if that was a clear.
RowIs(log, s, n) ==
    IF n # 0 THEN IsLast(log, s, n)
    ELSE \E k : IsLast(log, s, k) /\ (k # 0 => log[k].decision = "unreviewed")

\* What an event knows of time: it was stamped with no more than the clock shows,
\* and no less than those that were there when its call began.
Stamped(log, now, stamp, seen) ==
    /\ stamp \in Nat /\ stamp <= now
    /\ seen \in Nat
    /\ \A k \in DOMAIN log : k <= seen => log[k].created <= stamp

EventStamped(log, now, i) ==
    Stamped(log, now, log[i].created, log[i].since) /\ log[i].since < i

LogInv ==
    /\ \E S : events \in Seq(S)
    /\ clock \in Nat
    /\ \A i \in DOMAIN events : EventStamped(events, clock, i)
    /\ DOMAIN row = Surfaces
    /\ \A s \in Surfaces : HasNone(events, s) \/ \E n : IsLatest(events, s, n)
    /\ \A s \in Surfaces : RowIs(events, s, row[s])

\* The latest event, as the code picks it.
LEMMA LatestIs ==
    ASSUME LogInv, NEW s \in Surfaces
    PROVE  \/ HasNone(events, s) /\ LastEvent(s) = 0
           \/ ~HasNone(events, s) /\ IsLatest(events, s, LastEvent(s))
<1>1. CASE HasNone(events, s)
  <2>1. EventsOf(s) = {}
    BY <1>1 DEF EventsOf, HasNone
  <2> QED BY <1>1, <2>1 DEF LastEvent
<1>2. CASE ~HasNone(events, s)
  <2> DEFINE Top(i) == \A j \in EventsOf(s) :
                          \/ events[j].created < events[i].created
                          \/ events[j].created = events[i].created /\ j <= i
  <2>1. PICK n : IsLatest(events, s, n)
    BY <1>2 DEF LogInv
  <2>2. n \in EventsOf(s) /\ Top(n)
    BY <2>1 DEF IsLatest, ListedBy, EventsOf
  <2>3. LastEvent(s) = CHOOSE i \in EventsOf(s) : Top(i)
    BY <2>2 DEF LastEvent
  <2>4. LastEvent(s) \in EventsOf(s) /\ Top(LastEvent(s))
    <3> HIDE DEF Top
    <3> QED BY <2>2, <2>3
  <2>5. IsLatest(events, s, LastEvent(s))
    BY <2>4 DEF IsLatest, ListedBy, EventsOf
  <2> QED BY <1>2, <2>5
<1> QED BY <1>1, <1>2

\* One more event.
LEMMA Grown ==
    ASSUME LogInv, NEW e, events' = Append(events, e)
    PROVE  /\ \E S : events' \in Seq(S)
           /\ Len(events) \in Nat /\ Len(events') = Len(events) + 1
           /\ DOMAIN events = 1..Len(events)
           /\ DOMAIN events' = DOMAIN events \cup {Len(events')}
           /\ events'[Len(events')] = e
           /\ \A i \in DOMAIN events : events'[i] = events[i] /\ i < Len(events')
<1>1. PICK S : events \in Seq(S)
  BY DEF LogInv
<1> DEFINE T == S \cup {e}
<1>2. events \in Seq(T)
  BY <1>1
<1>3. e \in T
  OBVIOUS
<1> HIDE DEF T
<1>4. /\ events' \in Seq(T) /\ Len(events') = Len(events) + 1
      /\ Len(events) \in Nat
      /\ events'[Len(events) + 1] = e
      /\ \A i \in 1..Len(events) : events'[i] = events[i]
      /\ DOMAIN events = 1..Len(events) /\ DOMAIN events' = 1..Len(events')
  BY <1>2, <1>3
<1>5. 1..(Len(events) + 1) = 1..Len(events) \cup {Len(events) + 1}
  BY <1>4
<1> QED BY <1>4, <1>5

\* One more event, stamped by a call that is under way.
Appended(log, more, n, e) ==
    /\ n \in Nat \ {0}
    /\ DOMAIN more = DOMAIN log \cup {n}
    /\ more[n] = e
    /\ \A i \in DOMAIN log : more[i] = log[i] /\ i < n /\ i \in Nat \ {0}

\* Stamps stay true.
LEMMA StampedGrows ==
    ASSUME NEW log, NEW more, NEW n, NEW e, Appended(log, more, n, e),
           NEW now, NEW stamp, NEW seen, Stamped(log, now, stamp, seen), seen < n
    PROVE  Stamped(more, now, stamp, seen)
<1>1. ASSUME NEW k \in DOMAIN more, k <= seen PROVE more[k].created <= stamp
  <2>1. k # n
    BY <1>1 DEF Appended, Stamped
  <2>2. k \in DOMAIN log /\ more[k] = log[k]
    BY <1>1, <2>1 DEF Appended
  <2> QED BY <1>1, <2>2 DEF Stamped
<1> QED BY <1>1 DEF Stamped

LEMMA EventsStamped ==
    ASSUME NEW log, NEW more, NEW n, NEW e, Appended(log, more, n, e),
           NEW now, \A i \in DOMAIN log : EventStamped(log, now, i),
           Stamped(log, now, e.created, e.since), e.since < n
    PROVE  \A i \in DOMAIN more : EventStamped(more, now, i)
<1> SUFFICES ASSUME NEW i \in DOMAIN more PROVE EventStamped(more, now, i)
  OBVIOUS
<1>1. CASE i = n
  <2>1. more[i] = e
    BY <1>1 DEF Appended
  <2> QED BY <1>1, <2>1, StampedGrows DEF EventStamped
<1>2. CASE i # n
  <2>1. i \in DOMAIN log /\ more[i] = log[i] /\ i < n /\ i \in Nat /\ n \in Nat
    BY <1>2 DEF Appended
  <2>2. Stamped(log, now, log[i].created, log[i].since) /\ log[i].since < i
    BY <2>1 DEF EventStamped
  <2>3. log[i].since < n
    BY <2>1, <2>2 DEF Stamped
  <2> QED BY <2>1, <2>2, <2>3, StampedGrows DEF EventStamped
<1> QED BY <1>1, <1>2

\* The later of the latest so far and the one that is new.
LEMMA LatestGrows ==
    ASSUME NEW log, NEW more, NEW n, NEW e, Appended(log, more, n, e),
           \A i \in DOMAIN more : more[i].created \in Nat,
           NEW s, HasNone(log, s) \/ \E k : IsLatest(log, s, k)
    PROVE  HasNone(more, s) \/ \E k : IsLatest(more, s, k)
<1>1. CASE e.surface # s
  <2>1. CASE HasNone(log, s)
    BY <1>1, <2>1 DEF HasNone, Appended
  <2>2. CASE \E k : IsLatest(log, s, k)
    <3>1. PICK k : IsLatest(log, s, k)
      BY <2>2
    <3>2. IsLatest(more, s, k)
      BY <1>1, <3>1 DEF IsLatest, ListedBy, Appended
    <3> QED BY <3>2
  <2> QED BY <2>1, <2>2
<1>2. CASE e.surface = s /\ HasNone(log, s)
  <2>1. n \in DOMAIN more /\ more[n].surface = s
    BY <1>2 DEF Appended
  <2>2. ASSUME NEW i \in DOMAIN more, more[i].surface = s PROVE i = n
    BY <1>2, <2>2 DEF HasNone, Appended
  <2>3. ListedBy(more, n, n)
    BY DEF ListedBy, Appended
  <2>4. IsLatest(more, s, n)
    BY <2>1, <2>2, <2>3 DEF IsLatest
  <2> QED BY <2>4
<1>3. CASE e.surface = s /\ \E k : IsLatest(log, s, k)
  <2>1. PICK k : IsLatest(log, s, k)
    BY <1>3
  <2>2. /\ k \in DOMAIN log /\ k \in DOMAIN more /\ more[k] = log[k] /\ k < n
        /\ n \in DOMAIN more /\ more[n].surface = s /\ k \in Nat /\ n \in Nat
        /\ more[k].surface = s /\ more[k].created \in Nat /\ more[n].created \in Nat
    BY <1>3, <2>1 DEF IsLatest, Appended
  <2>3. ASSUME NEW i \in DOMAIN more, more[i].surface = s
        PROVE  i = n \/ (i \in Nat /\ i < n /\ more[i].created \in Nat /\ ListedBy(more, i, k))
    BY <2>1, <2>2, <2>3 DEF IsLatest, ListedBy, Appended
  <2>4. CASE more[n].created < more[k].created
    <3>1. ListedBy(more, n, k)
      BY <2>4 DEF ListedBy
    <3>2. IsLatest(more, s, k)
      BY <2>2, <2>3, <3>1 DEF IsLatest
    <3> QED BY <3>2
  <2>5. CASE ~(more[n].created < more[k].created)
    <3>1. ASSUME NEW i \in DOMAIN more, more[i].surface = s PROVE ListedBy(more, i, n)
      <4>1. CASE i = n
        BY <2>2, <4>1 DEF ListedBy
      <4>2. CASE i # n
        BY <2>2, <2>3, <2>5, <3>1, <4>2 DEF ListedBy
      <4> QED BY <4>1, <4>2
    <3>2. IsLatest(more, s, n)
      BY <2>2, <3>1 DEF IsLatest
    <3> QED BY <3>2
  <2> QED BY <2>4, <2>5
<1> QED BY <1>1, <1>2, <1>3

\* Rows of other surfaces stay what they were.
LEMMA RowsKept ==
    ASSUME NEW log, NEW more, NEW n, NEW e, Appended(log, more, n, e),
           NEW s, e.surface # s, NEW k, RowIs(log, s, k)
    PROVE  RowIs(more, s, k)
<1>1. ASSUME NEW m, IsLast(log, s, m) PROVE IsLast(more, s, m)
  BY <1>1 DEF IsLast, Appended
<1>2. ASSUME NEW m, m # 0, IsLast(log, s, m) PROVE more[m] = log[m]
  BY <1>2 DEF IsLast, Appended
<1>3. CASE k # 0
  BY <1>1, <1>3 DEF RowIs
<1>4. CASE k = 0
  <2>1. PICK m : IsLast(log, s, m) /\ (m # 0 => log[m].decision = "unreviewed")
    BY <1>4 DEF RowIs
  <2> QED BY <1>1, <1>2, <1>4, <2>1 DEF RowIs
<1> QED BY <1>3, <1>4

LEMMA LogStep ==
    ASSUME LogInv, NEW c, NEW s, NEW decision, Store(c, s, decision),
           Stamped(events, clock, requests[c].stamp, requests[c].seen),
           requests[c].seen <= Len(events)
    PROVE  LogInv'
<1> DEFINE e == Event(s, decision, c)
           n == Len(events')
<1>1. events' = Append(events, e) /\ clock' = clock
  BY DEF Store
<1>2. /\ e.surface = s /\ e.decision = decision
      /\ e.created = requests[c].stamp /\ e.since = requests[c].seen
  BY DEF Event
<1>3. /\ DOMAIN row' = DOMAIN row
      /\ \A t \in Surfaces : t # s => row'[t] = row[t]
      /\ s \in Surfaces => row'[s] = IF decision = "unreviewed" THEN 0 ELSE n
  BY DEF Store, LogInv
<1> HIDE DEF e
<1>4. /\ \E S : events' \in Seq(S)
      /\ Len(events) \in Nat /\ n = Len(events) + 1
      /\ Appended(events, events', n, e)
  BY <1>1, Grown DEF Appended
<1> HIDE DEF n
<1>5. \A i \in DOMAIN events' : EventStamped(events', clock, i)
  <2>1. e.since < n
    BY <1>2, <1>4 DEF Stamped
  <2> QED BY <1>2, <1>4, <2>1, EventsStamped DEF LogInv
<1>6. \A i \in DOMAIN events' : events'[i].created \in Nat
  BY <1>5 DEF EventStamped, Stamped
<1>7. \A t \in Surfaces : HasNone(events', t) \/ \E k : IsLatest(events', t, k)
  BY <1>4, <1>6, LatestGrows DEF LogInv
<1>8. ASSUME NEW t \in Surfaces PROVE RowIs(events', t, row'[t])
  <2>1. CASE t # s
    BY <1>2, <1>3, <1>4, <2>1, RowsKept DEF LogInv
  <2>2. CASE t = s
    <3>1. IsLast(events', s, n) /\ events'[n].decision = decision /\ n # 0
      BY <1>2, <1>4 DEF IsLast, Appended
    <3>2. row'[s] = IF decision = "unreviewed" THEN 0 ELSE n
      BY <1>3, <2>2
    <3> QED BY <2>2, <3>1, <3>2 DEF RowIs
  <2> QED BY <2>1, <2>2
<1>9. /\ clock' \in Nat /\ DOMAIN row' = Surfaces
      /\ \A i \in DOMAIN events' : EventStamped(events', clock', i)
  BY <1>1, <1>3, <1>5 DEF LogInv
<1> QED BY <1>4, <1>7, <1>8, <1>9 DEF LogInv

\* The clock goes on.
LEMMA LaterStamped ==
    ASSUME NEW log, NEW now \in Nat, NEW stamp, NEW seen, Stamped(log, now, stamp, seen)
    PROVE  Stamped(log, now + 1, stamp, seen)
BY DEF Stamped

LEMMA LogTick == ASSUME LogInv, UNCHANGED <<events, row>>, clock' = clock + 1 PROVE LogInv'
<1>1. \A i \in DOMAIN events : EventStamped(events, clock + 1, i)
  BY LaterStamped DEF LogInv, EventStamped
<1>2. clock + 1 \in Nat
  BY DEF LogInv
<1> QED BY <1>1, <1>2 DEF LogInv

-----------------------------------------------------------------------------
(* What requests are told.                                                 *)

Asks(r) == r.kind \in {"post", "submit_proposal"}

\* RowAndEventAgree, of a log.
Agree(log, s, shown) ==
    \/ shown.row = 0 /\ shown.latest = 0
    \/ \E i \in DOMAIN log :
          /\ log[i].surface = s
          /\ IF shown.row # 0 THEN i = shown.row ELSE log[i].decision = "unreviewed"
          /\ i = shown.latest \/ (log[i].since < shown.latest /\ shown.latest < i)

ShownRight(log, r, shown) ==
    /\ Agree(log, r.args.surface, shown)
    /\ r.event # 0 => shown.latest > r.seen /\ (shown.row = 0 \/ shown.row >= r.event)

\* A request to save something, whose client is c.
Told(log, now, c, r) ==
    /\ r.event # 0 =>
          /\ r.event \in DOMAIN log
          /\ log[r.event].surface = Asked(r).surface
          /\ log[r.event].decision = Asked(r).decision
          /\ log[r.event].created = r.stamp /\ log[r.event].since = r.seen
          /\ \A i \in DOMAIN log : log[i].by = c => i <= r.event
    /\ r.stage \in {"begun", "allowed", "calling", "found"} => r.event = 0
    /\ r.stage \in {"calling", "found"} =>
          Stamped(log, now, r.stamp, r.seen) /\ r.seen <= Len(log)
    /\ r.stage # "answered" => r.shown = Nothing
    /\ r.stage = "stored" => r.event # 0 \/ Asked(r).decision = "unreviewed"
    /\ r.stage = "answered" =>
          /\ r.event # 0 => Succeeded(r) \/ r.answer = "lost"
          /\ Succeeded(r) => r.event # 0 \/ Asked(r).decision = "unreviewed"
    /\ r.shown # Nothing => ShownRight(log, r, r.shown)

\* A request for a page: while its server and the policy are what they were, it
\* shows what the server was told.
PageTold(server, r) ==
    /\ r.policies # {}
    /\ r.stage \in {"begun", "answered"}
    /\ r.stage = "begun" =>
          /\ server # NotServing
          /\ r.who = server.who /\ server.policy \in r.policies /\ r.shown = Nothing
    /\ r.shown # Nothing /\ r.args.path = "/" =>
          \A file : r.policies = {file} =>
              r.shown.read_only = ~CheckLocalPolicy(file, "review_candidate", r.who).allowed

Served(log, now, server, c, r) ==
    /\ Asks(r) => Told(log, now, c, r)
    /\ r.kind = "get" => PageTold(server, r)

TruthInv ==
    /\ SoundInv
    /\ LogInv
    /\ \A c \in Clients : requests[c] # NoRequest => Served(events, clock, web, c, requests[c])

\* Requests that ask for something else are told nothing of the kind.
LEMMA OthersServed ==
    ASSUME NEW log, NEW now, NEW server, NEW c, NEW r, ~Asks(r), r.kind # "get"
    PROVE  Served(log, now, server, c, r)
BY DEF Served

LEMMA ToldAnswered ==
    ASSUME NEW log, NEW now, NEW c, NEW q, NEW answer, NEW shown, Told(log, now, c, q),
           q.event # 0 => answer \in {"ok", "200", "303", "lost"},
           answer \in {"ok", "200", "303"} => q.event # 0 \/ Asked(q).decision = "unreviewed",
           shown # Nothing => ShownRight(log, q, shown)
    PROVE  Told(log, now, c, Fields(q.kind, q.who, q.args, "answered", q.policies, q.stamp, q.seen,
                               q.event, answer,
                               shown))
<1> DEFINE r == Fields(q.kind, q.who, q.args, "answered", q.policies, q.stamp, q.seen,
                       q.event, answer, shown)
<1>1. /\ r.kind = q.kind /\ r.args = q.args /\ r.stage = "answered" /\ r.stamp = q.stamp
      /\ r.seen = q.seen /\ r.event = q.event /\ r.answer = answer /\ r.shown = shown
  BY FieldsOf
<1> HIDE DEF r
<1>2. Asked(r) = Asked(q) /\ (ShownRight(log, q, shown) => ShownRight(log, r, shown))
  BY <1>1 DEF Asked, ShownRight
<1>3. Told(log, now, c, r)
  BY <1>1, <1>2 DEF Told, Succeeded
<1> QED BY <1>3 DEF r

\* One request moves; what the others were told stays true.
LEMMA OneServed ==
    ASSUME IInv, TruthInv, NEW c \in Clients, NEW r, requests' = [requests EXCEPT ![c] = r],
           UNCHANGED <<events, row, clock, web>>, SoundInv',
           r # NoRequest => Served(events, clock, web, c, r)
    PROVE  TruthInv'
<1>1. LogInv'
  BY DEF TruthInv, LogInv
<1>2. /\ requests'[c] = r
      /\ \A d \in Clients : d # c => requests'[d] = requests[d]
  BY DEF IInv, RequestsInv
<1>3. ASSUME NEW d \in Clients, requests'[d] # NoRequest
      PROVE  Served(events', clock', web', d, requests'[d])
  <2>1. events' = events /\ web' = web
    OBVIOUS
  <2>2. CASE d = c
    BY <1>2, <1>3, <2>1, <2>2
  <2>3. CASE d # c
    BY <1>2, <1>3, <2>1, <2>3 DEF TruthInv
  <2> QED BY <2>2, <2>3
<1> QED BY <1>1, <1>3 DEF TruthInv

\* A request that is answered.
LEMMA AnsweredServed ==
    ASSUME IInv, TruthInv, NEW c \in Clients, requests[c] # NoRequest,
           NEW answer, NEW shown, Answer(c, answer, shown),
           UNCHANGED <<events, row, clock, web>>, SoundInv',
           requests[c].kind # "get",
           Asks(requests[c]) =>
              /\ requests[c].event # 0 => answer \in {"ok", "200", "303", "lost"}
              /\ answer \in {"ok", "200", "303"} =>
                    requests[c].event # 0 \/ Asked(requests[c]).decision = "unreviewed"
              /\ shown # Nothing => ShownRight(events, requests[c], shown)
    PROVE  TruthInv'
<1> DEFINE q == requests[c]
           r == Fields(q.kind, q.who, q.args, "answered", q.policies, q.stamp, q.seen,
                       q.event, answer, shown)
<1>1. requests' = [requests EXCEPT ![c] = r]
  BY TurnedIs DEF Answer
<1>2. r.kind = q.kind
  BY FieldsOf
<1>3. Asks(q) => Told(events, clock, c, q)
  BY DEF TruthInv, Served
<1>4. Asks(q) => Told(events, clock, c, r)
  BY <1>3, ToldAnswered
<1> HIDE DEF r
<1>5. Served(events, clock, web, c, r)
  BY <1>2, <1>4 DEF Served, Asks
<1> QED BY <1>1, <1>5, OneServed

\* A request that goes on to a stage without an event.
LEMMA StagedServed ==
    ASSUME IInv, TruthInv, NEW c \in Clients, requests[c] # NoRequest, NEW stage,
           requests' = [requests EXCEPT ![c].stage = stage],
           UNCHANGED <<events, row, clock, web>>, SoundInv',
           requests[c].kind # "get",
           Asks(requests[c]) =>
              \/ requests[c].stage = "begun" /\ stage = "allowed"
              \/ requests[c].stage = "calling" /\ stage = "found"
              \/ /\ requests[c].stage = "calling" /\ stage = "stored"
                 /\ Asked(requests[c]).decision = "unreviewed"
    PROVE  TruthInv'
<1> DEFINE q == requests[c]
           r == Fields(q.kind, q.who, q.args, stage, q.policies, q.stamp, q.seen,
                       q.event, q.answer, q.shown)
<1>1. IsRequest(q) /\ requests = [d \in Clients |-> requests[d]]
  BY DEF IInv, RequestsInv
<1>2. requests' = [requests EXCEPT ![c] = r]
  <2>1. requests' = [requests EXCEPT ![c] = [q EXCEPT !.stage = stage]]
    BY <1>1
  <2> QED BY <1>1, <2>1, WithStage
<1>3. /\ r.kind = q.kind /\ r.args = q.args /\ r.stage = stage /\ r.event = q.event
      /\ r.stamp = q.stamp /\ r.seen = q.seen /\ r.shown = q.shown
  BY FieldsOf
<1>4. Asks(q) => Told(events, clock, c, q)
  BY DEF TruthInv, Served
<1> HIDE DEF r
<1>5. Asked(r) = Asked(q)
  BY <1>3 DEF Asked
<1>6. Asks(q) => Told(events, clock, c, r)
  BY <1>3, <1>4, <1>5 DEF Told
<1>7. Served(events, clock, web, c, r)
  BY <1>3, <1>6 DEF Served, Asks
<1> QED BY <1>2, <1>7, OneServed

\* A request that calls the store.
LEMMA CalledServed ==
    ASSUME IInv, TruthInv, NEW c \in Clients, requests[c] # NoRequest, Asks(requests[c]),
           requests[c].stage \in {"begun", "allowed"}, CallStore(c),
           UNCHANGED <<events, row, clock, web>>, SoundInv'
    PROVE  TruthInv'
<1> DEFINE q == requests[c]
           r == Called(q, clock, Len(events))
<1>1. requests' = [requests EXCEPT ![c] = r]
  BY CalledIs
<1>2. /\ r.kind = q.kind /\ r.args = q.args /\ r.stage = "calling" /\ r.event = q.event
      /\ r.stamp = clock /\ r.seen = Len(events) /\ r.shown = q.shown
  BY FieldsOf DEF Called
<1> HIDE DEF r
<1>3. Told(events, clock, c, q) /\ q.kind # "get"
  BY DEF TruthInv, Served, Asks
<1>4. Stamped(events, clock, clock, Len(events)) /\ Len(events) <= Len(events)
  <2>1. Len(events) \in Nat /\ clock \in Nat
    BY DEF TruthInv, LogInv
  <2>2. \A k \in DOMAIN events : events[k].created <= clock
    BY DEF TruthInv, LogInv, EventStamped, Stamped
  <2> QED BY <2>1, <2>2 DEF Stamped
<1>5. Told(events, clock, c, r)
  BY <1>2, <1>3, <1>4 DEF Told
<1>6. Served(events, clock, web, c, r)
  BY <1>2, <1>3, <1>5 DEF Served
<1> QED BY <1>1, <1>6, OneServed

\* What is shown stays right with one more event.
LEMMA AgreeGrows ==
    ASSUME NEW log, NEW more, NEW n, NEW e, Appended(log, more, n, e),
           NEW s, NEW shown, Agree(log, s, shown)
    PROVE  Agree(more, s, shown)
<1>1. CASE shown.row = 0 /\ shown.latest = 0
  BY <1>1 DEF Agree
<1>2. CASE ~(shown.row = 0 /\ shown.latest = 0)
  <2>1. PICK i \in DOMAIN log :
            /\ log[i].surface = s
            /\ IF shown.row # 0 THEN i = shown.row ELSE log[i].decision = "unreviewed"
            /\ i = shown.latest \/ (log[i].since < shown.latest /\ shown.latest < i)
    BY <1>2 DEF Agree
  <2>2. i \in DOMAIN more /\ more[i] = log[i]
    BY DEF Appended
  <2> QED BY <2>1, <2>2 DEF Agree
<1> QED BY <1>1, <1>2

\* An event of a client makes no difference to the others.
LEMMA ToldGrows ==
    ASSUME LogInv, NEW e, events' = Append(events, e), NEW c, e.by # c, NEW r,
           Told(events, clock, c, r)
    PROVE  Told(events', clock, c, r)
<1> DEFINE n == Len(events')
<1>1. Appended(events, events', n, e) /\ n = Len(events) + 1 /\ Len(events) \in Nat
  BY Grown DEF Appended
<1> HIDE DEF n
<1>2. r.stage \in {"calling", "found"} =>
          Stamped(events', clock, r.stamp, r.seen) /\ r.seen <= n
  <2> SUFFICES ASSUME r.stage \in {"calling", "found"}
               PROVE  Stamped(events', clock, r.stamp, r.seen) /\ r.seen <= n
    OBVIOUS
  <2>1. Stamped(events, clock, r.stamp, r.seen) /\ r.seen <= Len(events)
    BY DEF Told
  <2>2. r.seen < n /\ r.seen <= n
    BY <1>1, <2>1 DEF Stamped
  <2> QED BY <1>1, <2>1, <2>2, StampedGrows
<1>3. ShownRight(events, r, r.shown) => ShownRight(events', r, r.shown)
  BY <1>1, AgreeGrows DEF ShownRight
<1>4. r.event # 0 =>
          /\ r.event \in DOMAIN events'
          /\ events'[r.event] = events[r.event]
          /\ \A i \in DOMAIN events' : events'[i].by = c => i <= r.event
  BY <1>1 DEF Told, Appended
<1> QED BY <1>2, <1>3, <1>4 DEF Told, n

\* What a request asked for is saved.
LEMMA StoredServed ==
    ASSUME IInv, TruthInv, NEW c \in Clients, requests[c] # NoRequest, Asks(requests[c]),
           requests[c].stage \in {"calling", "found"},
           Store(c, Asked(requests[c]).surface, Asked(requests[c]).decision),
           web' = web, SoundInv'
    PROVE  TruthInv'
<1> DEFINE q == requests[c]
           asked == Asked(q)
           e == Event(asked.surface, asked.decision, c)
           n == Len(events')
           r == Fields(q.kind, q.who, q.args, "stored", q.policies, q.stamp, q.seen, n, q.answer, q.shown)
<1>1. q.kind # "get" /\ Told(events, clock, c, q)
  BY DEF Asks, TruthInv, Served
<1>2. IsRequest(q) /\ requests = [d \in Clients |-> requests[d]]
  BY DEF IInv, RequestsInv
<1>3. /\ events' = Append(events, e) /\ clock' = clock
      /\ requests' = [requests EXCEPT ![c] = [q EXCEPT !.stage = "stored", !.event = n]]
  BY <1>2 DEF Store
<1>4. /\ e.surface = asked.surface /\ e.decision = asked.decision /\ e.by = c
      /\ e.created = q.stamp /\ e.since = q.seen
  BY DEF Event
<1>5. LogInv'
  <2>1. Stamped(events, clock, q.stamp, q.seen) /\ q.seen <= Len(events)
    BY <1>1 DEF Told
  <2> QED BY <2>1, LogStep DEF TruthInv
<1> HIDE DEF e
<1>6. Appended(events, events', n, e)
  BY <1>3, Grown DEF Appended, TruthInv
<1> HIDE DEF n
<1>7. requests' = [requests EXCEPT ![c] = r]
  BY <1>2, <1>3, Storing
<1>8. /\ r.kind = q.kind /\ r.args = q.args /\ r.stage = "stored" /\ r.event = n
      /\ r.stamp = q.stamp /\ r.seen = q.seen /\ r.shown = q.shown
  BY FieldsOf
<1> HIDE DEF r
<1>9. Asked(r) = asked
  BY <1>8 DEF Asked
<1>10. Told(events', clock, c, r)
  <2>1. /\ \A i \in DOMAIN events' : i <= n
        /\ n \in DOMAIN events' /\ events'[n] = e /\ n # 0
    BY <1>6 DEF Appended
  <2>2. q.shown = Nothing
    BY <1>1 DEF Told
  <2> HIDE DEF asked
  <2> QED BY <1>4, <1>8, <1>9, <2>1, <2>2 DEF Told
<1>11. Served(events', clock, web, c, r)
  BY <1>1, <1>8, <1>10 DEF Served
<1>12. ASSUME NEW d \in Clients, requests'[d] # NoRequest
       PROVE  Served(events', clock', web', d, requests'[d])
  <2>1. CASE d = c
    <3>1. requests'[d] = r
      BY <1>2, <1>7, <2>1
    <3> QED BY <1>3, <1>11, <2>1, <3>1
  <2>2. CASE d # c
    <3>1. requests'[d] = requests[d]
      BY <1>2, <1>7, <2>2
    <3>2. Served(events, clock, web, d, requests[d])
      BY <1>12, <3>1 DEF TruthInv
    <3>3. Asks(requests[d]) => Told(events', clock, d, requests[d])
      <4>1. LogInv /\ e.by # d
        BY <1>4, <2>2 DEF TruthInv
      <4> QED BY <1>3, <3>2, <4>1, ToldGrows DEF Served
    <3> QED BY <1>3, <3>1, <3>2, <3>3 DEF Served
  <2> QED BY <2>1, <2>2
<1> QED BY <1>5, <1>12 DEF TruthInv

\* The clock goes on; nothing that was told was of the time.
LEMMA TickServed == ASSUME TruthInv, SoundInv', Tick PROVE TruthInv'
<1>1. UNCHANGED <<events, row, web, requests>> /\ clock' = clock + 1
  BY DEF Tick
<1>2. LogInv' /\ clock \in Nat
  BY <1>1, LogTick DEF TruthInv, LogInv
<1>3. ASSUME NEW c \in Clients, requests[c] # NoRequest
      PROVE  Served(events, clock + 1, web, c, requests[c])
  <2>1. Served(events, clock, web, c, requests[c])
    BY <1>3 DEF TruthInv
  <2>2. Told(events, clock, c, requests[c]) => Told(events, clock + 1, c, requests[c])
    BY <1>2, LaterStamped DEF Told
  <2> QED BY <2>1, <2>2 DEF Served
<1> QED BY <1>1, <1>2, <1>3 DEF TruthInv

\* Another policy: what pages were told is now of one policy among several.
LEMMA SetPolicyServed ==
    ASSUME IInv, TruthInv, NEW file, SetPolicy(file),
           UNCHANGED <<events, row, clock, web>>, SoundInv'
    PROVE  TruthInv'
<1>1. LogInv'
  BY DEF TruthInv, LogInv
<1>2. ASSUME NEW c \in Clients, requests'[c] # NoRequest
      PROVE  Served(events', clock', web', c, requests'[c])
  <2> DEFINE q == requests[c]
             r == Fields(q.kind, q.who, q.args, q.stage, q.policies \cup {file}, q.stamp, q.seen,
                         q.event, q.answer,
                         q.shown)
  <2>1. requests'[c] = IF q = NoRequest THEN NoRequest
                       ELSE [q EXCEPT !.policies = q.policies \cup {file}]
    BY DEF SetPolicy
  <2>2. q # NoRequest /\ IsRequest(q) /\ Served(events, clock, web, c, q)
    BY <1>2, <2>1 DEF TruthInv, IInv, RequestsInv
  <2>3. requests'[c] = r
    BY <2>1, <2>2, WithPolicies
  <2>4. /\ r.kind = q.kind /\ r.who = q.who /\ r.args = q.args /\ r.stage = q.stage
        /\ r.policies = q.policies \cup {file} /\ r.stamp = q.stamp /\ r.seen = q.seen
        /\ r.event = q.event /\ r.answer = q.answer /\ r.shown = q.shown
    BY FieldsOf
  <2> HIDE DEF r
  <2>5. /\ Asked(r) = Asked(q) /\ (Succeeded(r) <=> Succeeded(q))
        /\ ShownRight(events, q, q.shown) => ShownRight(events, r, r.shown)
    BY <2>4 DEF Asked, Succeeded, ShownRight
  <2>6. Told(events, clock, c, q) => Told(events, clock, c, r)
    BY <2>4, <2>5 DEF Told
  <2>7. PageTold(web, q) => PageTold(web, r)
    <3> SUFFICES ASSUME PageTold(web, q) PROVE PageTold(web, r)
      OBVIOUS
    <3>1. \A f : r.policies = {f} => q.policies = {f}
      BY <2>4 DEF PageTold
    <3> QED BY <2>4, <3>1 DEF PageTold
  <2> QED BY <2>2, <2>3, <2>4, <2>6, <2>7 DEF Served, Asks
<1> QED BY <1>1, <1>2 DEF TruthInv

LEMMA PolicyServed ==
    ASSUME IInv, TruthInv, SoundInv',
           PolicyInit \/ PolicyWritten \/ PolicyInitStopped \/ EditPolicyByHand
    PROVE  TruthInv'
<1>1. UNCHANGED <<events, row, clock, web>>
  BY DEF PolicyInit, PolicyWritten, PolicyInitStopped, EditPolicyByHand, storeVars
<1>2. CASE \E file : SetPolicy(file)
  BY <1>1, <1>2, SetPolicyServed
<1>3. CASE requests' = requests
  BY <1>1, <1>3 DEF TruthInv, LogInv
<1> QED BY <1>2, <1>3 DEF PolicyInit, PolicyWritten, PolicyInitStopped, EditPolicyByHand

\* No page is being made when a server starts.
LEMMA ServeReviewServed == ASSUME IInv, TruthInv, SoundInv', ServeReview PROVE TruthInv'
<1>1. UNCHANGED <<events, row, clock, requests>> /\ web = NotServing
  BY DEF ServeReview, storeVars
<1>2. LogInv'
  BY <1>1 DEF TruthInv, LogInv
<1>3. ASSUME NEW c \in Clients, requests'[c] # NoRequest
      PROVE  Served(events', clock', web', c, requests'[c])
  <2>1. Served(events, clock, web, c, requests[c])
    BY <1>1, <1>3 DEF TruthInv
  <2>2. requests[c].kind = "get" => PageTold(web', requests[c])
    BY <1>1, <2>1 DEF Served, PageTold
  <2> QED BY <1>1, <2>1, <2>2 DEF Served
<1> QED BY <1>2, <1>3 DEF TruthInv

\* A request that is lost with its server was told nothing.
LEMMA LostServed ==
    ASSUME NEW log, NEW now, NEW server, NEW c, NEW q, q.kind \in {"post", "get"}, q.stage # "answered",
           Served(log, now, server, c, q)
    PROVE  Served(log, now, NotServing, c,
                  Fields(q.kind, q.who, q.args, "answered", q.policies, q.stamp, q.seen, q.event, "lost", q.shown))
<1> DEFINE r == Fields(q.kind, q.who, q.args, "answered", q.policies, q.stamp, q.seen,
                       q.event, "lost", q.shown)
<1>1. r.kind = q.kind /\ r.policies = q.policies /\ r.stage = "answered" /\ r.shown = q.shown
  BY FieldsOf
<1>2. Asks(q) => Told(log, now, c, r)
  <2>1. Asks(q) => Told(log, now, c, q)
    BY DEF Served
  <2>2. Asks(q) => q.shown = Nothing
    BY <2>1 DEF Told
  <2> QED BY <2>1, <2>2, ToldAnswered
<1> HIDE DEF r
<1>3. q.kind = "get" => PageTold(NotServing, r)
  BY <1>1 DEF Served, PageTold
<1>4. Served(log, now, NotServing, c, r)
  BY <1>1, <1>2, <1>3 DEF Served, Asks
<1> QED BY <1>4 DEF r

LEMMA StopReviewServed ==
    ASSUME IInv, TruthInv, SoundInv', StopReview
    PROVE  TruthInv'
<1>1. UNCHANGED <<events, row, clock>> /\ web' = NotServing
  BY DEF StopReview, storeVars
<1>2. LogInv'
  BY <1>1 DEF TruthInv, LogInv
<1>3. ASSUME NEW c \in Clients, requests'[c] # NoRequest
      PROVE  Served(events', clock', web', c, requests'[c])
  <2> DEFINE q == requests[c]
             lost == q # NoRequest /\ q.kind \in {"post", "get"} /\ q.stage # "answered"
  <2>1. requests'[c] = IF lost THEN [q EXCEPT !.stage = "answered", !.answer = "lost"] ELSE q
    BY DEF StopReview
  <2>2. q # NoRequest => IsRequest(q) /\ Served(events, clock, web, c, q)
    BY DEF IInv, RequestsInv, TruthInv
  <2>3. CASE ~lost
    <3>1. requests'[c] = q /\ q # NoRequest /\ (q.kind = "get" => q.stage = "answered")
      BY <1>3, <2>1, <2>3
    <3>2. q.kind = "get" => PageTold(NotServing, q)
      BY <2>2, <3>1 DEF Served, PageTold
    <3> QED BY <1>1, <2>2, <3>1, <3>2 DEF Served
  <2>4. CASE lost
    <3> DEFINE p == [q EXCEPT !.stage = "answered"]
               r == Fields(q.kind, q.who, q.args, "answered", q.policies, q.stamp, q.seen,
                           q.event, "lost", q.shown)
    <3>1. requests'[c] = [p EXCEPT !.answer = "lost"]
      BY <2>1, <2>4
    <3>2. p = Fields(q.kind, q.who, q.args, "answered", q.policies, q.stamp, q.seen,
                     q.event, q.answer, q.shown)
      BY <2>2, <2>4, WithStage
    <3> HIDE DEF p
    <3>3. requests'[c] = r
      BY <3>1, <3>2, FieldsOf, WithAnswer
    <3>4. Served(events, clock, NotServing, c, r)
      BY <2>2, <2>4, LostServed
    <3> HIDE DEF r
    <3> QED BY <1>1, <3>3, <3>4
  <2> QED BY <2>3, <2>4
<1> QED BY <1>2, <1>3 DEF TruthInv

-----------------------------------------------------------------------------
(* Requests begin and are served.                                          *)

LEMMA BegunServed ==
    ASSUME IInv, TruthInv, SoundInv', NEW c \in Clients,
           NEW kind, NEW who, NEW args, NEW policies,
           Begin(c, Fields(kind, who, args, "begun", policies, 0, 0, 0, Nothing, Nothing)),
           kind = "get" =>
              web # NotServing /\ who = web.who /\ web.policy \in policies
    PROVE  TruthInv'
<1> DEFINE r == Fields(kind, who, args, "begun", policies, 0, 0, 0, Nothing, Nothing)
<1>1. requests' = [requests EXCEPT ![c] = r] /\ UNCHANGED <<events, row, clock, web>>
  BY DEF Begin, storeVars
<1>2. /\ r.kind = kind /\ r.who = who /\ r.args = args /\ r.stage = "begun"
      /\ r.policies = policies /\ r.event = 0 /\ r.shown = Nothing
  BY FieldsOf
<1> HIDE DEF r
<1>3. Told(events, clock, c, r)
  BY <1>2 DEF Told
<1>4. kind = "get" => PageTold(web, r)
  BY <1>2 DEF PageTold
<1>5. Served(events, clock, web, c, r)
  BY <1>2, <1>3, <1>4 DEF Served
<1> QED BY <1>1, <1>5, OneServed

LEMMA BeginServed ==
    ASSUME IInv, TruthInv, SoundInv', NEW c \in Clients,
           BeginPost(c) \/ BeginGet(c) \/ BeginMessage(c) \/ BeginProposal(c)
              \/ BeginFindEvidence(c) \/ BeginCommand(c)
    PROVE  TruthInv'
<1>1. ASSUME NEW kind, kind # "get", NEW who, NEW args, Begin(c, Request(kind, who, args))
      PROVE  TruthInv'
  <2>1. Begin(c, Fields(kind, who, args, "begun", {policy}, 0, 0, 0, Nothing, Nothing))
    BY <1>1, NewRequest
  <2> QED BY <1>1, <2>1, BegunServed
<1>2. ASSUME NEW kind, NEW args, web # NotServing,
             Begin(c, [Request(kind, web.who, args) EXCEPT !.policies = {web.policy}])
      PROVE  TruthInv'
  <2>1. Begin(c, Fields(kind, web.who, args, "begun", {web.policy}, 0, 0, 0, Nothing, Nothing))
    BY <1>2, NewWebRequest
  <2> QED BY <1>2, <2>1, BegunServed
<1>3. CASE BeginPost(c)
  BY <1>2, <1>3 DEF BeginPost
<1>4. CASE BeginGet(c)
  <2>1. PICK path : web # NotServing
           /\ Begin(c, [Request("get", web.who, [path |-> path]) EXCEPT !.policies = {web.policy}])
    BY <1>4 DEF BeginGet
  <2> QED BY <1>2, <2>1
<1>5. CASE BeginMessage(c)
  BY <1>1, <1>5 DEF BeginMessage
<1>6. CASE BeginProposal(c)
  BY <1>1, <1>6 DEF BeginProposal
<1>7. CASE BeginFindEvidence(c)
  BY <1>1, <1>7 DEF BeginFindEvidence
<1>8. CASE BeginCommand(c)
  <2>1. PICK who \in job.callers, kind \in DOMAIN Needs, s \in job.surfaces \cup {Nothing},
             agent \in BOOLEAN : Begin(c, Request(kind, who, [surface |-> s, agent |-> agent]))
    BY <1>8 DEF BeginCommand
  <2>2. kind # "get"
    BY NeedsFacts
  <2> QED BY <1>1, <2>1, <2>2
<1> QED BY <1>3, <1>4, <1>5, <1>6, <1>7, <1>8

LEMMA PostDecisionServed ==
    ASSUME IInv, TruthInv, SoundInv', NEW c \in Clients, PostDecision(c)
    PROVE  TruthInv'
<1> DEFINE q == requests[c]
           form == q.args
           code == PostRefusal(form)
<1>1. /\ q # NoRequest /\ q.kind = "post" /\ q.stage = "begun" /\ Backed(q)
      /\ web' = web
  BY AtFacts DEF PostDecision
<1>2. Asks(q) /\ q.kind # "get" /\ form \in Forms
  BY <1>1 DEF Asks, Backed
<1>3. q.event = 0
  BY <1>1, <1>2 DEF TruthInv, Served, Told
<1>4. code # "200" => code \notin {"ok", "200", "303"}
  <2>1. form.envelope \in {"good", "no_such_path", "bad_length", "too_large", "not_utf8"}
    BY <1>2 DEF Forms
  <2> HIDE DEF form
  <2> QED BY <2>1 DEF PostRefusal
<1>5. UNCHANGED <<events, row, clock, web>>
  BY DEF PostDecision, storeVars
<1>6. CASE code # "200" /\ Answer(c, code, Nothing)
  BY <1>1, <1>2, <1>3, <1>4, <1>5, <1>6, AnsweredServed
<1>7. CASE CallStore(c)
  BY <1>1, <1>2, <1>5, <1>7, CalledServed
<1> HIDE DEF q, form, code
<1> QED BY <1>6, <1>7 DEF PostDecision, q, form, code

LEMMA CallServed ==
    ASSUME IInv, TruthInv, SoundInv', NEW c \in Clients,
           FindRow(c) \/ StoreDecision(c) \/ StoreFails(c)
    PROVE  TruthInv'
<1> DEFINE q == requests[c]
<1>1. /\ q # NoRequest /\ Asks(q) /\ q.kind # "get" /\ q.stage \in {"calling", "found"}
      /\ FindRow(c) => q.stage = "calling"
      /\ web' = web
  BY DEF FindRow, StoreDecision, StoreFails, At, Asks
<1>2. Told(events, clock, c, q)
  BY <1>1 DEF TruthInv, Served
<1>3. CASE FindRow(c)
  <2>1. /\ UNCHANGED <<events, row, clock, web>> /\ Asked(q).decision = "unreviewed"
        /\ \E stage \in {"stored", "found"} : requests' = [requests EXCEPT ![c].stage = stage]
    BY <1>3 DEF FindRow, storeVars, Clears
  <2> QED BY <1>1, <1>3, <2>1, StagedServed
<1>4. CASE StoreDecision(c)
  BY <1>1, <1>4, StoredServed DEF StoreDecision
<1>5. CASE StoreFails(c)
  <2>1. \E answer \in {"lost", "is_error"} : Answer(c, answer, Nothing)
    BY <1>5 DEF StoreFails
  <2>2. UNCHANGED <<events, row, clock, web>> /\ q.event = 0
    BY <1>1, <1>2, <1>5 DEF StoreFails, storeVars, Told
  <2> QED BY <1>1, <2>1, <2>2, AnsweredServed
<1> QED BY <1>3, <1>4, <1>5

\* The row that is shown is that of the last event saved, and the latest event may
\* only be another if it was saved while that one was on its way: one that was there
\* before the call has no later time.
LEMMA ShownIsRight ==
    ASSUME LogInv, NEW s \in Surfaces, NEW r, r.args.surface = s, ShownItem(s) # Nothing,
           r.event # 0 =>
              /\ r.event \in DOMAIN events /\ events[r.event].surface = s
              /\ events[r.event].since = r.seen
    PROVE  ShownRight(events, r, ShownItem(s))
<1> DEFINE shown == ShownItem(s)
           last == LastEvent(s)
<1>1. shown.row = row[s] /\ shown.latest = last
  BY DEF ShownItem
<1>2. /\ \/ HasNone(events, s) /\ last = 0
         \/ ~HasNone(events, s) /\ IsLatest(events, s, last)
      /\ RowIs(events, s, row[s])
  BY LatestIs DEF LogInv
<1> HIDE DEF shown, last
<1>3. PICK n : /\ IsLast(events, s, n)
               /\ row[s] # 0 => n = row[s]
               /\ row[s] = 0 /\ n # 0 => events[n].decision = "unreviewed"
  BY <1>2 DEF RowIs
<1>4. \A i \in DOMAIN events :
         /\ i \in Nat \ {0} /\ events[i].created \in Nat /\ events[i].since \in Nat
         /\ events[i].since < i
         /\ \A k \in DOMAIN events : k <= events[i].since => events[k].created <= events[i].created
  BY DEF LogInv, EventStamped, Stamped
<1>5. CASE HasNone(events, s)
  <2>1. n = 0 /\ last = 0 /\ row[s] = 0 /\ r.event = 0
    <3>1. last = 0 /\ r.event = 0
      BY <1>2, <1>5 DEF HasNone, IsLatest
    <3>2. n = 0
      BY <1>3, <1>5 DEF IsLast, HasNone
    <3> QED BY <1>3, <3>1, <3>2
  <2> QED BY <1>1, <2>1 DEF ShownRight, Agree, shown
<1>6. CASE ~HasNone(events, s)
  <2>1. IsLatest(events, s, last)
    BY <1>2, <1>6
  <2>2. /\ last \in DOMAIN events /\ events[last].surface = s
        /\ last \in Nat \ {0} /\ last <= n /\ n \in Nat
    BY <1>3, <1>4, <2>1 DEF IsLatest, IsLast
  <2>3. n # 0 /\ n \in DOMAIN events /\ events[n].surface = s
    BY <1>3, <2>2 DEF IsLast
  \* Nothing that its call saw comes after an event of the surface.
  <2>4. ASSUME NEW i \in DOMAIN events, events[i].surface = s PROVE events[i].since < last
    <3>1. ListedBy(events, i, last)
      BY <2>1, <2>4 DEF IsLatest
    <3>2. ~(last <= events[i].since)
      <4> SUFFICES ASSUME last <= events[i].since PROVE FALSE
        OBVIOUS
      <4>1. events[last].created <= events[i].created /\ events[i].since < i
        BY <1>4, <2>2
      <4> QED BY <1>4, <2>2, <3>1, <4>1 DEF ListedBy
    <3> QED BY <1>4, <2>2, <3>2
  <2>5. Agree(events, s, shown)
    <3>1. IF shown.row # 0 THEN n = shown.row ELSE events[n].decision = "unreviewed"
      BY <1>1, <1>3, <2>3
    <3>2. n = shown.latest \/ (events[n].since < shown.latest /\ shown.latest < n)
      BY <1>1, <2>2, <2>3, <2>4
    <3> QED BY <2>3, <3>1, <3>2 DEF Agree
  <2>6. r.event # 0 => shown.latest > r.seen /\ (shown.row = 0 \/ shown.row >= r.event)
    <3> SUFFICES ASSUME r.event # 0
                 PROVE  shown.latest > r.seen /\ (shown.row = 0 \/ shown.row >= r.event)
      OBVIOUS
    <3>1. r.event \in DOMAIN events /\ events[r.event].surface = s /\ events[r.event].since = r.seen
      OBVIOUS
    <3>2. r.seen < last /\ r.seen \in Nat
      BY <1>4, <2>4, <3>1
    <3>3. r.event <= n /\ r.event \in Nat
      BY <1>3, <1>4, <3>1 DEF IsLast
    <3> QED BY <1>1, <1>3, <2>2, <3>2, <3>3
  <2> QED BY <2>5, <2>6 DEF ShownRight, shown
<1> QED BY <1>5, <1>6

\* The answer of a post shows nothing older than its call.
LEMMA PostAnswerServed ==
    ASSUME IInv, TruthInv, SoundInv', NEW c \in Clients, PostAnswer(c)
    PROVE  TruthInv'
<1> DEFINE q == requests[c]
           form == q.args
<1>1. /\ q # NoRequest /\ q.kind = "post" /\ q.stage = "stored" /\ Backed(q)
      /\ UNCHANGED <<events, row, clock, web>>
  BY AtFacts DEF PostAnswer, storeVars
<1>2. Asks(q) /\ q.kind # "get" /\ form.surface \in Surfaces /\ Asked(q).surface = form.surface
  <2>1. form \in Forms
    BY <1>1 DEF Backed
  <2> QED BY <1>1, <2>1 DEF Asks, Asked, Forms
<1>3. Told(events, clock, c, q)
  BY <1>1, <1>2 DEF TruthInv, Served
<1>4. q.event # 0 \/ Asked(q).decision = "unreviewed"
  BY <1>1, <1>3 DEF Told
<1>5. ASSUME NEW answer \in {"200", "303", "lost"}, NEW shown, Answer(c, answer, shown),
             shown # Nothing => ShownRight(events, q, shown)
      PROVE  TruthInv'
  BY <1>1, <1>2, <1>4, <1>5, AnsweredServed
<1>6. ShownItem(form.surface) # Nothing => ShownRight(events, q, ShownItem(form.surface))
  <2>1. q.event # 0 =>
            /\ q.event \in DOMAIN events /\ events[q.event].surface = form.surface
            /\ events[q.event].since = q.seen
    BY <1>2, <1>3 DEF Told
  <2> QED BY <1>2, <2>1, ShownIsRight DEF TruthInv
<1>7. \/ Answer(c, "200", ShownItem(form.surface))
      \/ Answer(c, "lost", Nothing)
      \/ Answer(c, "303", Nothing)
  BY DEF PostAnswer
<1> HIDE DEF q, form
<1> QED BY <1>5, <1>6, <1>7

\* A page shows what its server was told, of whatever policy was there then.
LEMMA GetServed ==
    ASSUME IInv, TruthInv, SoundInv', NEW c \in Clients, Get(c)
    PROVE  TruthInv'
<1> DEFINE q == requests[c]
<1>1. /\ q # NoRequest /\ q.kind = "get" /\ q.stage = "begun" /\ Backed(q)
      /\ UNCHANGED <<events, row, clock, web>>
  BY AtFacts DEF Get, storeVars
<1>2. /\ PageTold(web, q) /\ web # NotServing
      /\ q.who = web.who /\ web.policy \in q.policies
  BY <1>1 DEF TruthInv, Served, PageTold
<1>3. q.args.path \in {"/", "/healthz", "/review-events.jsonl", "elsewhere"}
  BY <1>1 DEF Backed
<1>4. ASSUME NEW answer, NEW shown, Answer(c, answer, shown),
             shown # Nothing /\ q.args.path = "/" => shown.read_only = ~web.decision.allowed
      PROVE  TruthInv'
  <2> DEFINE r == Fields(q.kind, q.who, q.args, "answered", q.policies, q.stamp, q.seen,
                         q.event, answer, shown)
  <2>1. requests' = [requests EXCEPT ![c] = r]
    BY <1>1, <1>4, TurnedIs DEF Answer
  <2>2. /\ r.kind = "get" /\ r.who = q.who /\ r.args = q.args /\ r.stage = "answered"
        /\ r.policies = q.policies /\ r.shown = shown
    BY <1>1, FieldsOf
  <2> HIDE DEF r
  <2>3. ASSUME NEW file, r.policies = {file}
        PROVE  web.decision = CheckLocalPolicy(file, "review_candidate", r.who)
    BY <1>2, <2>2, <2>3 DEF TruthInv, SoundInv
  <2>4. PageTold(web, r)
    BY <1>2, <1>4, <2>2, <2>3 DEF PageTold
  <2>5. Served(events, clock, web, c, r)
    BY <2>2, <2>4 DEF Served, Asks
  <2> QED BY <1>1, <2>1, <2>5, OneServed
<1>5. CASE q.args.path # "/"
  <2>1. \E answer, shown : Answer(c, answer, shown)
    BY <1>3 DEF Get
  <2> QED BY <1>4, <1>5, <2>1
<1>6. CASE q.args.path = "/" /\ policy = Unreadable
  <2>1. Answer(c, "500", Nothing)
    BY <1>6 DEF Get
  <2> QED BY <1>4, <2>1
<1>7. CASE q.args.path = "/" /\ policy # Unreadable
  <2> DEFINE shown == [read_only |-> ~PageDecision.allowed]
  <2>1. Answer(c, "200", shown)
    BY <1>7 DEF Get
  <2>2. shown.read_only = ~web.decision.allowed
    BY <1>2, <1>7, PageAsServer DEF TruthInv
  <2> HIDE DEF shown
  <2> QED BY <1>4, <2>1, <2>2
<1> QED BY <1>5, <1>6, <1>7

LEMMA ProposalServed ==
    ASSUME IInv, TruthInv, SoundInv', NEW c \in Clients,
           SubmitProposal(c) \/ SaveProposal(c) \/ ProposalSaved(c)
    PROVE  TruthInv'
<1> DEFINE q == requests[c]
<1>1. /\ q # NoRequest /\ q.kind = "submit_proposal" /\ Backed(q) /\ web' = web
      /\ SubmitProposal(c) => q.stage = "begun"
      /\ SaveProposal(c) => q.stage = "allowed"
      /\ ProposalSaved(c) => q.stage = "stored"
  BY AtFacts DEF SubmitProposal, SaveProposal, ProposalSaved
<1>2. Asks(q) /\ q.kind # "get"
  BY <1>1 DEF Asks
<1>3. Told(events, clock, c, q)
  BY <1>1, <1>2 DEF TruthInv, Served
<1>4. UNCHANGED <<events, row, clock, web>>
  BY DEF SubmitProposal, SaveProposal, ProposalSaved, storeVars
<1>5. CASE SubmitProposal(c) /\ Answer(c, "is_error", Nothing)
  <2>1. q.event = 0
    BY <1>1, <1>3, <1>5 DEF Told
  <2> QED BY <1>1, <1>2, <1>4, <1>5, <2>1, AnsweredServed
<1>6. CASE SubmitProposal(c) /\ requests' = [requests EXCEPT ![c].stage = "allowed"]
  BY <1>1, <1>2, <1>4, <1>6, StagedServed
<1>7. CASE SaveProposal(c)
  BY <1>1, <1>2, <1>4, <1>7, CalledServed DEF SaveProposal
<1>8. CASE ProposalSaved(c)
  <2>1. Answer(c, "ok", Nothing) /\ (q.event # 0 \/ Asked(q).decision = "unreviewed")
    BY <1>1, <1>3, <1>8 DEF ProposalSaved, Told
  <2> QED BY <1>1, <1>2, <1>4, <2>1, AnsweredServed
<1> HIDE DEF q
<1> QED BY <1>5, <1>6, <1>7, <1>8 DEF SubmitProposal, q

\* Requests that save nothing and show no page.
LEMMA OtherServed ==
    ASSUME IInv, TruthInv, SoundInv', NEW c \in Clients,
           HandleMessage(c) \/ AnswerFindEvidence(c) \/ AskForLeave(c)
              \/ ReviewAgentCommand(c) \/ ExportCommand(c)
    PROVE  TruthInv'
<1>1. /\ requests[c] # NoRequest /\ ~Asks(requests[c]) /\ requests[c].kind # "get"
      /\ UNCHANGED <<events, row, clock, web>>
  <2>1. requests[c].kind \in {"message", "find_evidence"} \cup DOMAIN Needs
        /\ requests[c] # NoRequest
    BY NeedsFacts
       DEF HandleMessage, AnswerFindEvidence, AskForLeave, ReviewAgentCommand, ExportCommand, At
  <2>2. UNCHANGED <<events, row, clock, web>>
    BY DEF HandleMessage, AnswerFindEvidence, AskForLeave, ReviewAgentCommand, ExportCommand,
           storeVars
  <2> QED BY <2>1, <2>2, NeedsFacts DEF Asks
<1>2. CASE \E answer, shown : Answer(c, answer, shown)
  BY <1>1, <1>2, AnsweredServed
<1>3. CASE \E stage : requests' = [requests EXCEPT ![c].stage = stage]
  BY <1>1, <1>3, StagedServed
<1>4. CASE HandleMessage(c) \/ AnswerFindEvidence(c)
  BY <1>2, <1>4 DEF HandleMessage, AnswerFindEvidence
<1>5. CASE AskForLeave(c)
  BY <1>2, <1>3, <1>5 DEF AskForLeave, AskFor
<1>6. CASE ExportCommand(c)
  BY <1>2, <1>6 DEF ExportCommand
<1>7. CASE ReviewAgentCommand(c)
  <2>1. CASE Answer(c, "exit 1", Nothing)
    BY <1>2, <2>1
  <2>2. CASE \E item : PromptCommand(c, item)
    BY <1>2, <2>2 DEF PromptCommand
  <2>3. CASE \E item : AssessCommand(c, item)
    BY <1>2, <2>3 DEF AssessCommand, AnswerDecision
  <2>4. CASE \E item : ConsensusCommand(c, item)
    BY <1>2, <2>4 DEF ConsensusCommand, AnswerReport
  <2> QED BY <1>7, <2>1, <2>2, <2>3, <2>4 DEF ReviewAgentCommand, At
<1> QED BY <1>4, <1>5, <1>6, <1>7

LEMMA EndServed ==
    ASSUME IInv, TruthInv, SoundInv', NEW c \in Clients, End(c)
    PROVE  TruthInv'
<1>1. requests' = [requests EXCEPT ![c] = NoRequest] /\ UNCHANGED <<events, row, clock, web>>
  BY DEF End, storeVars
<1> QED BY <1>1, OneServed

LEMMA TruthInit == Init => TruthInv
<1> SUFFICES ASSUME Init PROVE TruthInv
  OBVIOUS
<1>1. SoundInv
  BY HandWrittenIsSound, PolicyAssumption DEF Init, SoundInv
<1>2. LogInv
  <2>1. events = <<>> /\ row = [s \in Surfaces |-> 0] /\ clock \in Nat
    BY DEF Init
  <2>2. events \in Seq({}) /\ DOMAIN events = {}
    BY <2>1
  <2>3. \A s : RowIs(events, s, 0) /\ HasNone(events, s)
    BY <2>2 DEF IsLast, RowIs, HasNone
  <2> QED BY <2>1, <2>2, <2>3 DEF LogInv
<1> QED BY <1>1, <1>2 DEF Init, TruthInv

LEMMA TruthNext == IInv /\ TruthInv /\ [Next]_vars => TruthInv'
<1> SUFFICES ASSUME IInv, TruthInv, [Next]_vars PROVE TruthInv'
  OBVIOUS
<1>0. SoundInv'
  BY SoundStep DEF TruthInv
<1>1. CASE PolicyInit \/ PolicyWritten \/ PolicyInitStopped \/ EditPolicyByHand
  BY <1>0, <1>1, PolicyServed
<1>2. CASE Scan \/ UNCHANGED vars
  <2>1. UNCHANGED <<events, row, clock, web, requests>>
    BY <1>2 DEF Scan, vars
  <2> QED BY <1>0, <2>1 DEF TruthInv, LogInv
<1>3. CASE ServeReview \/ StopReview
  BY <1>0, <1>3, ServeReviewServed, StopReviewServed
<1>4. ASSUME NEW c \in Clients,
             BeginPost(c) \/ BeginGet(c) \/ BeginMessage(c) \/ BeginProposal(c)
                \/ BeginFindEvidence(c) \/ BeginCommand(c)
      PROVE  TruthInv'
  BY <1>0, <1>4, BeginServed
<1>5. ASSUME NEW c \in Clients, PostDecision(c) \/ PostAnswer(c) \/ Get(c) PROVE TruthInv'
  BY <1>0, <1>5, PostDecisionServed, PostAnswerServed, GetServed
<1>6. ASSUME NEW c \in Clients, SubmitProposal(c) \/ SaveProposal(c) \/ ProposalSaved(c)
      PROVE  TruthInv'
  BY <1>0, <1>6, ProposalServed
<1>7. ASSUME NEW c \in Clients,
             HandleMessage(c) \/ AnswerFindEvidence(c) \/ AskForLeave(c)
                \/ ReviewAgentCommand(c) \/ ExportCommand(c)
      PROVE  TruthInv'
  BY <1>0, <1>7, OtherServed
<1>8. ASSUME NEW c \in Clients, End(c) PROVE TruthInv'
  BY <1>0, <1>8, EndServed
<1>9. ASSUME NEW c \in Clients, FindRow(c) \/ StoreDecision(c) \/ StoreFails(c) PROVE TruthInv'
  BY <1>0, <1>9, CallServed
<1>10. CASE Tick
  BY <1>0, <1>10, TickServed
<1> QED BY <1>1, <1>2, <1>3, <1>4, <1>5, <1>6, <1>7, <1>8, <1>9, <1>10 DEF Next

LEMMA TruthOfAnswers == TruthInv => AnswersTellTheTruth
<1> SUFFICES ASSUME TruthInv, NEW c \in Clients, requests[c] # NoRequest
             PROVE  LET r == requests[c]
                        mine == {i \in DOMAIN events : events[i].by = c}
                    IN  /\ r.kind \in {"post", "submit_proposal"} /\ r.stage = "answered" =>
                              /\ r.event # 0 =>
                                    /\ events[r.event].surface = Asked(r).surface
                                    /\ events[r.event].decision = Asked(r).decision
                                    /\ \A i \in mine : i <= r.event
                                    /\ Succeeded(r) \/ r.answer = "lost"
                              /\ Succeeded(r) => r.event # 0 \/ Asked(r).decision = "unreviewed"
                              /\ r.shown # Nothing =>
                                    /\ RowAndEventAgree(r.args.surface, r.shown)
                                    /\ r.event # 0 =>
                                          /\ r.shown.latest > r.seen
                                          /\ r.shown.row = 0 \/ r.shown.row >= r.event
                        /\ r.kind = "get" /\ r.shown # Nothing /\ r.args.path = "/"
                              /\ web # NotServing /\ web.who = r.who /\ {web.policy} = r.policies =>
                                 r.shown.read_only = ~web.decision.allowed
  BY DEF AnswersTellTheTruth
<1> DEFINE r == requests[c]
<1>1. Served(events, clock, web, c, r)
  BY DEF TruthInv
<1> HIDE DEF r
<1>2. Asks(r) => Told(events, clock, c, r)
  BY <1>1 DEF Served
<1>3. ASSUME r.kind = "get", r.shown # Nothing, r.args.path = "/",
             web # NotServing, web.who = r.who, {web.policy} = r.policies
      PROVE  r.shown.read_only = ~web.decision.allowed
  <2>1. r.shown.read_only = ~CheckLocalPolicy(web.policy, "review_candidate", r.who).allowed
    BY <1>1, <1>3 DEF Served, PageTold
  <2>2. web.decision = CheckLocalPolicy(web.policy, "review_candidate", web.who)
    BY <1>3 DEF TruthInv, SoundInv
  <2> QED BY <1>3, <2>1, <2>2
<1>4. Agree(events, r.args.surface, r.shown) => RowAndEventAgree(r.args.surface, r.shown)
  BY DEF Agree, RowAndEventAgree, MakersOf, EventsOf
<1> QED BY <1>2, <1>3, <1>4 DEF Told, Asks, ShownRight, r

\* AnswersTellTheTruth for any clients, policies, surfaces and times of calls: whoever
\* is told that a decision was saved has it in the log, as asked and once, and whoever is
\* refused left nothing there; an answer shows no row older than its own event, and no
\* latest event that was there before its call, though one that was stamped later may
\* have been saved earlier; a page is read-only exactly when its server refuses.
THEOREM AnswersAreTrue == Spec => []AnswersTellTheTruth
<1> QED BY TruthInit, TruthNext, TruthOfAnswers, Invariance, PTL DEF Spec

-----------------------------------------------------------------------------
(* What several answers come to.                                           *)

\* A set of numbers that is not empty has a least member.
LEMMA LeastMember ==
    ASSUME NEW S, S \subseteq Nat, S # {}
    PROVE  \E m \in S : \A k \in S : m <= k
<1> DEFINE R == OpToRel(<, Nat)
<1>1. IsWellFoundedOn(R, Nat)
  BY NatLessThanWellFounded, Zenon
<1>2. \E m \in S : \A k \in S : ~(<<k, m>> \in R)
  <2> HIDE DEF R
  <2> QED BY <1>1, WFMin, Zenon
<1>3. PICK m \in S : \A k \in S : ~(<<k, m>> \in R)
  BY <1>2
<1>4. ASSUME NEW k \in S PROVE m <= k
  <2>1. k \in Nat /\ m \in Nat
    OBVIOUS
  <2>2. ~(<<k, m>> \in R)
    BY <1>3
  <2>3. ~(k < m)
    BY <2>1, <2>2 DEF OpToRel
  <2> QED BY <2>1, <2>3
<1> QED BY <1>4

\* A set that has zero and the successors of its numbers has all of them.
LEMMA Induction ==
    ASSUME NEW S, 0 \in S, \A n \in Nat : n \in S => n + 1 \in S
    PROVE  \A n \in Nat : n \in S
<1> SUFFICES ASSUME Nat \ S # {} PROVE FALSE
  OBVIOUS
<1>1. PICK m \in Nat \ S : \A k \in Nat \ S : m <= k
  BY LeastMember
<1>2. m # 0 /\ m - 1 \in Nat
  OBVIOUS
<1>3. m - 1 \in S
  BY <1>1, <1>2
<1> QED BY <1>2, <1>3

\* Answers in a sequence, each with a number for its confidence.
Answers(samples) ==
    /\ Len(samples) \in Nat \ {0}
    /\ DOMAIN samples = 1..Len(samples)
    /\ \A i \in DOMAIN samples : samples[i].confidence \in Int

\* The confidences of a group summed up, for each number of answers up to n.
IsSum(f, samples, group, n) ==
    f = [i \in 0..n |-> IF i = 0 THEN 0
                        ELSE f[i - 1] + (IF i \in group THEN samples[i].confidence ELSE 0)]

LEMMA SumExists ==
    ASSUME NEW samples, NEW group, NEW n \in Nat
    PROVE  \E f : IsSum(f, samples, group, n)
<1> DEFINE Plus1(i) == IF i \in group THEN samples[i].confidence ELSE 0
           S == {k \in Nat : \E f : IsSum(f, samples, group, k)}
<1>1. 0 \in S
  <2> DEFINE f == [i \in 0..0 |-> 0]
  <2>1. IsSum(f, samples, group, 0)
    BY DEF IsSum
  <2> QED BY <2>1
<1>2. ASSUME NEW k \in Nat, k \in S PROVE k + 1 \in S
  <2>1. PICK f : IsSum(f, samples, group, k)
    BY <1>2
  <2> DEFINE Next1(i) == f[i - 1] + Plus1(i)
             g == [i \in 0..k + 1 |-> IF i \in 0..k THEN f[i] ELSE Next1(i)]
  <2>2. \A i \in 0..k : f[i] = IF i = 0 THEN 0 ELSE Next1(i)
    BY <2>1 DEF IsSum
  <2>3. \A i \in 1..k + 1 : i - 1 \in 0..k + 1 /\ g[i - 1] = f[i - 1]
    OBVIOUS
  <2>4. ASSUME NEW i \in 0..k + 1
        PROVE  g[i] = IF i = 0 THEN 0 ELSE g[i - 1] + Plus1(i)
    <3> HIDE DEF Plus1
    <3>1. g[i] = IF i = 0 THEN 0 ELSE Next1(i)
      <4> HIDE DEF Next1
      <4> QED BY <2>2
    <3>2. i # 0 => g[i - 1] = f[i - 1]
      BY <2>3
    <3> HIDE DEF g
    <3> QED BY <3>1, <3>2
  <2>5. g = [i \in 0..k + 1 |-> g[i]]
    BY DEF g
  <2> HIDE DEF g
  <2>6. IsSum(g, samples, group, k + 1)
    BY <2>4, <2>5 DEF IsSum
  <2> QED BY <2>6
<1> HIDE DEF S
<1>3. n \in S
  BY <1>1, <1>2, Induction
<1> QED BY <1>3 DEF S

\* The sums of a group, each a number.
LEMMA SumsOf ==
    ASSUME NEW samples, Answers(samples), NEW group
    PROVE  \E f : /\ \A i \in 0..Len(samples) : f[i] \in Int
                  /\ f[0] = 0
                  /\ \A i \in 1..Len(samples) :
                        f[i] = f[i - 1] + (IF i \in group THEN samples[i].confidence ELSE 0)
                  /\ SumOfConfidence(samples, group) = f[Len(samples)]
<1> DEFINE n == Len(samples)
           Plus1(i) == IF i \in group THEN samples[i].confidence ELSE 0
           f == CHOOSE g : IsSum(g, samples, group, n)
           S == {i \in Nat : i <= n => f[i] \in Int}
<1>1. n \in Nat /\ \A i \in 1..n : Plus1(i) \in Int
  BY DEF Answers
<1>2. IsSum(f, samples, group, n)
  BY <1>1, SumExists
<1>3. SumOfConfidence(samples, group) = f[n]
  BY DEF SumOfConfidence, IsSum
<1> HIDE DEF f
<1>4. \A i \in 0..n : f[i] = IF i = 0 THEN 0 ELSE f[i - 1] + Plus1(i)
  BY <1>2 DEF IsSum
<1> HIDE DEF n, Plus1
<1>5. 0 \in S
  BY <1>1, <1>4
<1>6. ASSUME NEW i \in Nat, i \in S PROVE i + 1 \in S
  BY <1>1, <1>4, <1>6
<1> HIDE DEF S
<1>7. \A i \in Nat : i \in S
  BY <1>5, <1>6, Induction
<1>8. \A i \in 0..n : f[i] \in Int
  BY <1>1, <1>7 DEF S
<1>9. f[0] = 0 /\ \A i \in 1..n : f[i] = f[i - 1] + Plus1(i)
  BY <1>1, <1>4
<1> QED BY <1>3, <1>8, <1>9 DEF n, Plus1

\* A group of answers is finite, and no larger than all of them.
LEMMA GroupIsFinite ==
    ASSUME NEW samples, Answers(samples), NEW group, group \subseteq DOMAIN samples
    PROVE  /\ IsFiniteSet(group) /\ Cardinality(group) \in Nat
           /\ Cardinality(group) <= Len(samples)
<1>1. IsFiniteSet(1..Len(samples)) /\ Cardinality(1..Len(samples)) = Len(samples)
  BY FS_Interval DEF Answers
<1>2. group \in SUBSET (1..Len(samples))
  BY DEF Answers
<1> QED BY <1>1, <1>2, FS_Subset, FS_CardinalityType

\* Two groups of other keys share the answers.
LEMMA GroupsShare ==
    ASSUME NEW samples, Answers(samples), NEW key, NEW other, key # other
    PROVE  Cardinality(GroupOf(samples, key)) + Cardinality(GroupOf(samples, other)) <= Len(samples)
<1> DEFINE A == GroupOf(samples, key)
           B == GroupOf(samples, other)
<1>1. A \subseteq DOMAIN samples /\ B \subseteq DOMAIN samples /\ A \cap B = {}
  BY DEF GroupOf
<1> HIDE DEF A, B
<1>2. A \cup B \subseteq DOMAIN samples
  BY <1>1
<1>3. IsFiniteSet(A) /\ IsFiniteSet(B) /\ Cardinality(A) \in Nat /\ Cardinality(B) \in Nat
      /\ Cardinality(A \cup B) <= Len(samples)
  BY <1>1, <1>2, GroupIsFinite
<1>4. Cardinality(A \cup B) = Cardinality(A) + Cardinality(B) - Cardinality(A \cap B)
  BY <1>3, FS_Union
<1>5. Cardinality(A \cap B) = 0
  BY <1>1, FS_EmptySet
<1> QED BY <1>3, <1>4, <1>5 DEF A, B

LEMMA AtLeastHalf ==
    ASSUME NEW k \in Nat, NEW n \in Nat \ {0}, Rounded(10000 * k, n) >= 5001
    PROVE  2 * k > n
<1> DEFINE a == 2 * (10000 * k) + n
           b == 2 * n
           q == a \div b
<1>1. a \in Nat /\ b \in Nat \ {0} /\ q \in Int /\ q >= 5001
  BY DEF Rounded
<1>2. b * q <= a
  OBVIOUS
<1>3. b * 5001 <= b * q
  <2> HIDE DEF a, b, q
  <2> QED BY <1>1
<1>4. b * 5001 <= a
  <2>1. b * 5001 \in Int /\ b * q \in Int
    <3> HIDE DEF a, b, q
    <3> QED BY <1>1
  <2> HIDE DEF q
  <2> QED BY <1>1, <1>2, <1>3, <2>1
<1> QED BY <1>4

-----------------------------------------------------------------------------
(* The verdict.                                                            *)

LEMMA AgreeingIs ==
    ASSUME NEW samples, NEW i
    PROVE  Agreeing(samples, i) = GroupOf(samples, DecisionKey(samples[i]))
BY DEF Agreeing, GroupOf

\* Most answers agree: theirs is the key.
LEMMA TopOfMost ==
    ASSUME NEW samples, Answers(samples), NEW i \in DOMAIN samples,
           2 * Cardinality(Agreeing(samples, i)) > Len(samples)
    PROVE  TopKey(samples) = DecisionKey(samples[i])
<1> DEFINE Group(j) == GroupOf(samples, DecisionKey(samples[j]))
           top == {j \in DOMAIN samples :
                      \A k \in DOMAIN samples : ~Outdoes(samples, Group(k), Group(j))}
<1>1. ASSUME NEW j
      PROVE  Cardinality(Group(j)) \in Nat /\ SumOfConfidence(samples, Group(j)) \in Int
  <2>1. Group(j) \subseteq DOMAIN samples
    BY DEF GroupOf
  <2>2. Len(samples) \in 0..Len(samples)
    BY DEF Answers
  <2> HIDE DEF Group
  <2> QED BY <2>1, <2>2, GroupIsFinite, SumsOf
<1>2. Len(samples) \in Nat /\ 2 * Cardinality(Group(i)) > Len(samples)
  BY AgreeingIs DEF Answers
<1>3. ASSUME NEW j, DecisionKey(samples[j]) # DecisionKey(samples[i])
      PROVE  Outdoes(samples, Group(i), Group(j)) /\ ~Outdoes(samples, Group(j), Group(i))
  <2>1. Cardinality(Group(j)) + Cardinality(Group(i)) <= Len(samples)
    BY <1>3, GroupsShare
  <2> HIDE DEF Group
  <2> QED BY <1>1, <1>2, <2>1 DEF Outdoes
<1>4. ASSUME NEW j, DecisionKey(samples[j]) = DecisionKey(samples[i])
      PROVE  Group(j) = Group(i) /\ ~Outdoes(samples, Group(j), Group(i))
  <2>1. Group(j) = Group(i)
    BY <1>4
  <2> HIDE DEF Group
  <2> QED BY <1>1, <2>1 DEF Outdoes
<1>5. TopKey(samples) = DecisionKey(samples[Min(top)])
  BY DEF TopKey
<1> HIDE DEF Group
<1>6. i \in top /\ top \subseteq Nat
  BY <1>3, <1>4 DEF Answers
<1>7. \A j \in top : DecisionKey(samples[j]) = DecisionKey(samples[i])
  BY <1>3
<1> HIDE DEF top
<1>8. Min(top) \in top
  <2>1. \E m \in top : \A k \in top : m <= k
    BY <1>6, LeastMember
  <2> QED BY <2>1 DEF Min
<1> QED BY <1>5, <1>7, <1>8

LEMMA ConfidencesAreInt == \A response \in Responses : response.confidence \in Int
BY PlaneAssumption, Zenon

LEMMA ScoresAreInt ==
    /\ \A j \in Jobs : \A surface \in j.surfaces : CandidateOf[surface].score \in Int
    /\ \A surface \in DOMAIN FirstItems : FirstItems[surface].candidate.score \in Int
BY PlaneAssumption, Zenon

LEMMA SamplesAreNat == \A j \in Jobs : j.samples \in Nat
<1>1. \A j \in Jobs : {j.requests, j.edits, j.scans, j.samples} \subseteq Nat
  BY PlaneAssumption, Zenon
<1> QED BY <1>1

\* Enough support is that of most answers.
LEMMA SupportOfMost ==
    ASSUME MinAgreement > 5000, NEW samples, Answers(samples), NEW S, S \subseteq DOMAIN samples,
           AgreementRatio(samples, S) >= MinAgreement
    PROVE  2 * Cardinality(S) > Len(samples)
<1>1. Cardinality(S) \in Nat /\ Len(samples) \in Nat \ {0}
  BY GroupIsFinite DEF Answers
<1>2. Rounded(10000 * Cardinality(S), Len(samples)) >= 5001
  <2> DEFINE q == Rounded(10000 * Cardinality(S), Len(samples))
  <2>1. q \in Int /\ MinAgreement \in Int
    BY <1>1, ThresholdAssumption DEF Rounded
  <2>2. q >= MinAgreement
    BY DEF AgreementRatio
  <2> HIDE DEF q
  <2>3. q >= 5001
    BY <2>1, <2>2
  <2> QED BY <2>3 DEF q
<1> QED BY <1>1, <1>2, AtLeastHalf

AllSafe(samples) == \A i \in DOMAIN samples : samples[i].allowed

\* What those who agree come to.
VerdictOf(item, samples, i) ==
    ConsensusReport("consensus", DecisionKey(samples[i])[1],
                    AverageConfidence(samples, Agreeing(samples, i)),
                    BestCanonicalName(item, samples, Agreeing(samples, i), DecisionKey(samples[i])[1]))

LEMMA SupportIs ==
    ASSUME NEW samples, NEW S
    PROVE  Supports(samples, S) <=> /\ AgreementRatio(samples, S) >= MinAgreement
                                    /\ AverageConfidence(samples, S) >= MinConfidence
BY DEF Supports, AgreementRatio, AverageConfidence

LEMMA ConsensusOfSupported ==
    ASSUME MinAgreement > 5000, NEW item, NEW samples, Answers(samples), AllSafe(samples),
           NEW i \in DOMAIN samples, Supports(samples, Agreeing(samples, i))
    PROVE  Consensus(item, samples) = VerdictOf(item, samples, i)
<1> DEFINE key == DecisionKey(samples[i])
           S == Agreeing(samples, i)
<1>1. S \subseteq DOMAIN samples
  BY DEF Agreeing
<1>2. AgreementRatio(samples, S) >= MinAgreement /\ AverageConfidence(samples, S) >= MinConfidence
  BY SupportIs
<1>3. 2 * Cardinality(S) > Len(samples)
  <2> HIDE DEF S
  <2> QED BY <1>1, <1>2, SupportOfMost
<1>4. TopKey(samples) = key
  BY <1>3, TopOfMost
<1>5. GroupOf(samples, key) = S
  BY AgreeingIs
<1>6. Consensus(item, samples) = ConsensusOf(item, samples, key, S)
  BY <1>4, <1>5 DEF Consensus, ConsensusByKey
<1> HIDE DEF key, S
<1>7. ConsensusOf(item, samples, key, S) =
          ConsensusReport("consensus", key[1], AverageConfidence(samples, S),
                          BestCanonicalName(item, samples, S, key[1]))
  BY <1>2 DEF ConsensusOf, AllSafe
<1> QED BY <1>6, <1>7 DEF VerdictOf, key, S

LEMMA SupportedByConsensus ==
    ASSUME MinAgreement > 5000, NEW item, NEW samples, Answers(samples),
           Consensus(item, samples).status = "consensus"
    PROVE  AllSafe(samples) /\ \E i \in DOMAIN samples : Supports(samples, Agreeing(samples, i))
<1> DEFINE key == TopKey(samples)
           S == GroupOf(samples, key)
<1>1. Consensus(item, samples) = ConsensusOf(item, samples, key, S) /\ S \subseteq DOMAIN samples
  BY DEF Consensus, ConsensusByKey, GroupOf
<1>2. \A i \in S : DecisionKey(samples[i]) = key
  BY DEF GroupOf
<1>3. \A i \in S : Agreeing(samples, i) = S
  BY <1>2, AgreeingIs
<1> HIDE DEF key, S
<1>4. /\ AllSafe(samples)
      /\ AgreementRatio(samples, S) >= MinAgreement
      /\ AverageConfidence(samples, S) >= MinConfidence
  BY <1>1 DEF ConsensusOf, AllSafe, Abstaining, ConsensusReport
<1>5. 2 * Cardinality(S) > Len(samples)
  BY <1>1, <1>4, SupportOfMost
<1>6. S # {}
  <2> SUFFICES ASSUME S = {} PROVE FALSE
    OBVIOUS
  <2>1. Cardinality(S) = 0 /\ Len(samples) \in Nat
    BY FS_EmptySet DEF Answers
  <2> QED BY <1>5, <2>1
<1>7. Supports(samples, S)
  BY <1>4, SupportIs
<1> QED BY <1>1, <1>3, <1>4, <1>6, <1>7

-----------------------------------------------------------------------------
(* The other way round.                                                    *)

LEMMA ReverseIs ==
    ASSUME NEW samples, Answers(samples)
    PROVE  LET r == Reverse(samples)
               n == Len(samples)
           IN  /\ Answers(r) /\ Len(r) = n
               /\ \A i \in 1..n : n + 1 - i \in 1..n /\ r[n + 1 - i] = samples[i]
                                  /\ r[i] = samples[n + 1 - i]
<1> DEFINE r == Reverse(samples)
           n == Len(samples)
<1>1. n \in Nat \ {0} /\ DOMAIN samples = 1..n
  BY DEF Answers
<1>2. r = [i \in 1..n |-> samples[(n - i) + 1]]
  BY DEF Reverse
<1> HIDE DEF n, r
<1>3. Len(r) = n /\ DOMAIN r = 1..n
  BY <1>1, <1>2
<1>4. \A i \in 1..n : n + 1 - i \in 1..n /\ (n - i) + 1 = n + 1 - i
                      /\ (n - (n + 1 - i)) + 1 = i
  BY <1>1
<1>5. \A i \in 1..n : r[n + 1 - i] = samples[i] /\ r[i] = samples[n + 1 - i]
  BY <1>2, <1>4
<1>6. \A i \in 1..n : r[i].confidence \in Int
  BY <1>1, <1>4, <1>5 DEF Answers
<1>7. Answers(r)
  BY <1>1, <1>3, <1>6 DEF Answers
<1> QED BY <1>3, <1>4, <1>5, <1>7 DEF n, r

\* A group among the reversed answers is as large, and as sure.
LEMMA ReversedGroup ==
    ASSUME NEW samples, Answers(samples), NEW key
    PROVE  LET r == Reverse(samples)
           IN  /\ Cardinality(GroupOf(r, key)) = Cardinality(GroupOf(samples, key))
               /\ SumOfConfidence(r, GroupOf(r, key)) = SumOfConfidence(samples, GroupOf(samples, key))
<1> DEFINE r == Reverse(samples)
           n == Len(samples)
           A == GroupOf(samples, key)
           B == GroupOf(r, key)
           In(i) == IF i \in A THEN samples[i].confidence ELSE 0
           Bn(i) == IF i \in B THEN r[i].confidence ELSE 0
<1>1. n \in Nat \ {0} /\ DOMAIN samples = 1..n /\ Answers(r) /\ Len(r) = n
  BY ReverseIs DEF Answers
<1>2. \A i \in 1..n : n + 1 - i \in 1..n /\ r[n + 1 - i] = samples[i] /\ r[i] = samples[n + 1 - i]
  BY ReverseIs
<1>3. DOMAIN r = 1..n
  BY <1>1 DEF Answers
<1> HIDE DEF n, r
<1>4. A \subseteq 1..n /\ B \subseteq 1..n
  BY <1>1, <1>3 DEF GroupOf
<1>5. \A i \in 1..n : (n + 1 - i \in B) <=> (i \in A)
  BY <1>1, <1>2, <1>3 DEF GroupOf
<1>6. \A i \in 1..n : In(i) \in Int /\ Bn(n + 1 - i) = In(i)
  <2>1. \A i \in 1..n : samples[i].confidence \in Int
    BY <1>1 DEF Answers
  <2> HIDE DEF A, B
  <2> QED BY <1>2, <1>5, <2>1
<1> HIDE DEF A, B
<1>7. Cardinality(B) = Cardinality(A)
  <2> DEFINE f == [i \in A |-> n + 1 - i]
  <2>1. f \in [A -> B]
    BY <1>4, <1>5
  <2>2. \A i, j \in A : f[i] = f[j] => i = j
    BY <1>1, <1>4
  <2>3. \A j \in B : \E i \in A : f[i] = j
    <3> SUFFICES ASSUME NEW j \in B PROVE n + 1 - j \in A /\ f[n + 1 - j] = j
      OBVIOUS
    <3>1. j \in 1..n /\ n + 1 - j \in 1..n /\ n + 1 - (n + 1 - j) = j
      BY <1>1, <1>4
    <3>2. n + 1 - j \in A
      BY <1>5, <3>1
    <3> QED BY <3>1, <3>2
  <2> HIDE DEF f
  <2>4. f \in Bijection(A, B)
    BY <2>1, <2>2, <2>3 DEF Bijection, Injection, Surjection, IsInjective
  <2>5. IsFiniteSet(A)
    BY <1>1, <1>4, GroupIsFinite
  <2> QED BY <2>4, <2>5, FS_Bijection DEF ExistsBijection
<1>8. PICK f : /\ \A i \in 0..n : f[i] \in Int
               /\ f[0] = 0
               /\ \A i \in 1..n : f[i] = f[i - 1] + In(i)
               /\ SumOfConfidence(samples, A) = f[n]
  BY SumsOf DEF n
<1>9. PICK g : /\ \A i \in 0..n : g[i] \in Int
               /\ g[0] = 0
               /\ \A i \in 1..n : g[i] = g[i - 1] + Bn(i)
               /\ SumOfConfidence(r, B) = g[n]
  BY <1>1, SumsOf
<1> HIDE DEF In, Bn
<1> DEFINE S == {k \in Nat : k <= n => g[k] = f[n] - f[n - k]}
<1>10. 0 \in S
  BY <1>1, <1>8, <1>9
<1>11. ASSUME NEW k \in Nat, k \in S PROVE k + 1 \in S
  <2> SUFFICES ASSUME k + 1 <= n PROVE g[k + 1] = f[n] - f[n - (k + 1)]
    OBVIOUS
  <2>1. k + 1 \in 1..n /\ n - k \in 1..n /\ n - k - 1 \in 0..n /\ n + 1 - (n - k) = k + 1
        /\ n - (k + 1) = n - k - 1 /\ k + 1 - 1 = k /\ k \in 0..n /\ n \in 0..n /\ n - k \in 0..n
    BY <1>1
  <2>2. g[k] = f[n] - f[n - k]
    BY <1>11, <2>1
  <2>3. g[k + 1] = g[k] + In(n - k) /\ In(n - k) \in Int
    BY <1>6, <1>9, <2>1
  <2>4. f[n - k] = f[n - k - 1] + In(n - k)
    BY <1>8, <2>1
  <2>5. f[n - k] \in Int /\ f[n - k - 1] \in Int /\ f[n] \in Int
    BY <1>8, <2>1
  <2>6. g[k + 1] = f[n] - f[n - k - 1]
    BY <2>2, <2>3, <2>4, <2>5
  <2> QED BY <2>1, <2>6
<1> HIDE DEF S
<1>12. n \in S
  BY <1>1, <1>10, <1>11, Induction
<1>13. g[n] = f[n]
  BY <1>1, <1>8, <1>12 DEF S
<1> QED BY <1>7, <1>8, <1>9, <1>13 DEF A, B, r, n

\* Answers in the other order come to the same.
LEMMA ReversedVerdict ==
    ASSUME MinAgreement > 5000, NEW item, NEW samples, Answers(samples), AllSafe(samples),
           NEW i \in DOMAIN samples, Supports(samples, Agreeing(samples, i))
    PROVE  SameVerdict(Consensus(item, samples), Consensus(item, Reverse(samples)))
<1> DEFINE r == Reverse(samples)
           n == Len(samples)
           j == n + 1 - i
           key == DecisionKey(samples[i])
<1>1. n \in Nat \ {0} /\ i \in 1..n /\ Answers(r) /\ Len(r) = n
  BY ReverseIs DEF Answers
<1>2. \A k \in 1..n : n + 1 - k \in 1..n /\ r[n + 1 - k] = samples[k] /\ r[k] = samples[n + 1 - k]
  BY ReverseIs
<1>3. DOMAIN r = 1..n /\ DOMAIN samples = 1..n
  BY <1>1 DEF Answers
<1> DEFINE A == GroupOf(samples, key)
           B == GroupOf(r, key)
<1>4. Cardinality(B) = Cardinality(A) /\ SumOfConfidence(r, B) = SumOfConfidence(samples, A)
  <2> HIDE DEF key
  <2> QED BY ReversedGroup
<1> HIDE DEF r
<1>5. j \in DOMAIN r /\ r[j] = samples[i] /\ AllSafe(r)
  <2>1. j \in DOMAIN r /\ r[j] = samples[i]
    BY <1>1, <1>2, <1>3
  <2>2. ASSUME NEW k \in DOMAIN r PROVE r[k].allowed
    <3>1. n + 1 - k \in DOMAIN samples /\ r[k] = samples[n + 1 - k]
      BY <1>2, <1>3
    <3> QED BY <3>1 DEF AllSafe
  <2> HIDE DEF j
  <2> QED BY <2>1, <2>2 DEF AllSafe
<1> HIDE DEF j
<1>6. Agreeing(samples, i) = A /\ Agreeing(r, j) = B
  BY <1>5, AgreeingIs
<1> HIDE DEF A, B
<1>7. AverageConfidence(r, B) = AverageConfidence(samples, A)
      /\ AgreementRatio(r, B) = AgreementRatio(samples, A)
  BY <1>1, <1>4 DEF AverageConfidence, AgreementRatio
<1>8. Supports(r, Agreeing(r, j))
  BY <1>6, <1>7, SupportIs
<1>9. Consensus(item, samples) = VerdictOf(item, samples, i)
  BY ConsensusOfSupported
<1>10. Consensus(item, r) = VerdictOf(item, r, j)
  BY <1>1, <1>5, <1>8, ConsensusOfSupported
<1>11. SameVerdict(VerdictOf(item, samples, i), VerdictOf(item, r, j))
  BY <1>5, <1>6, <1>7 DEF SameVerdict, VerdictOf, ConsensusReport
<1> QED BY <1>9, <1>10, <1>11 DEF r

LEMMA EarnedByAnswers ==
    ASSUME MinAgreement > 5000, NEW item, NEW samples, Answers(samples)
    PROVE  Earned(item, samples, Consensus(item, samples))
<1> DEFINE result == Consensus(item, samples)
           supported == {i \in DOMAIN samples : Supports(samples, Agreeing(samples, i))}
<1>1. result.status = "consensus" => supported # {} /\ AllSafe(samples)
  BY SupportedByConsensus
<1>2. ASSUME NEW i \in supported, AllSafe(samples)
      PROVE  /\ result.status = "consensus" /\ samples[i].recommendation = result.recommendation
             /\ SameVerdict(result, Consensus(item, Reverse(samples)))
  <2>1. result = VerdictOf(item, samples, i)
    BY <1>2, ConsensusOfSupported
  <2>2. SameVerdict(result, Consensus(item, Reverse(samples)))
    BY <1>2, ReversedVerdict
  <2>3. VerdictOf(item, samples, i).status = "consensus"
        /\ VerdictOf(item, samples, i).recommendation = samples[i].recommendation
    BY DEF VerdictOf, ConsensusReport, DecisionKey
  <2> QED BY <2>1, <2>2, <2>3
<1> HIDE DEF result
<1>3. (result.status = "consensus") <=> (supported # {} /\ \A i \in DOMAIN samples : samples[i].allowed)
  BY <1>1, <1>2 DEF AllSafe
<1>4. result.status = "consensus" =>
        /\ \E i \in supported : samples[i].recommendation = result.recommendation
        /\ SameVerdict(result, Consensus(item, Reverse(samples)))
  BY <1>1, <1>2
<1>5. Earned(item, samples, result)
  BY <1>3, <1>4 DEF Earned
<1> QED BY <1>5 DEF result

-----------------------------------------------------------------------------
(* The agent's answers.                                                    *)

LEMMA BoundsOfPairs ==
    ASSUME NEW x \in Int, NEW y \in Int
    PROVE  Min({x, y}) \in Int /\ Max({x, y}) \in Int
<1>1. \E m \in {x, y} : \A k \in {x, y} : m =< k
  OBVIOUS
<1>2. \E m \in {x, y} : \A k \in {x, y} : m >= k
  OBVIOUS
<1>3. Min({x, y}) \in {x, y}
  BY <1>1 DEF Min
<1>4. Max({x, y}) \in {x, y}
  BY <1>2 DEF Max
<1> QED BY <1>3, <1>4

\* A review item of a candidate with a score.
Scored(item) == item.candidate.score \in Int

SomeResponses(responses) == \E n \in Nat : responses \in [1..n -> Responses]

LEMMA ConfidenceIsNumber ==
    ASSUME NEW x \in Int
    PROVE  BoundedConfidence(x) \in Int
<1>1. \A y, z \in Int : Min({y, z}) \in Int /\ Max({y, z}) \in Int
  BY BoundsOfPairs
<1>2. 0 \in Int /\ 100 \in Int
  OBVIOUS
<1>3. Min({100, x}) \in Int
  BY <1>1, <1>2
<1> QED BY <1>1, <1>2, <1>3 DEF BoundedConfidence

LEMMA HeuristicIsAnswer ==
    ASSUME NEW item, Scored(item)
    PROVE  HeuristicReview(item).confidence \in Int
<1> DEFINE x == item.candidate.score + 15
           Top(y) == Min({92, Max({70, y})})
<1>1. \A y, z \in Int : Min({y, z}) \in Int /\ Max({y, z}) \in Int
  BY BoundsOfPairs
<1>2. 70 \in Int /\ 92 \in Int /\ x \in Int
  BY DEF Scored
<1> HIDE DEF x
<1>3. Top(x) \in Int
  <2>1. Max({70, x}) \in Int
    BY <1>1, <1>2
  <2> QED BY <1>1, <1>2, <2>1
<1> HIDE DEF Top
<1>4. HeuristicReview(item).confidence \in {40, 35, 68, 62, 50, Top(x)}
  BY DEF HeuristicReview, HeuristicDecision, AgentDecision, Top, x
<1> QED BY <1>3, <1>4

LEMMA ReviewIsAnswer ==
    ASSUME NEW item, NEW response \in Responses
    PROVE  RunReviewAgent(item, response).confidence \in Int
<1> DEFINE d == ParseReviewAgentResponse(response, item)
           low == Min({d.confidence, 40})
<1>1. d.confidence = BoundedConfidence(response.confidence)
  BY DEF ParseReviewAgentResponse, AgentDecision
<1>2. response.confidence \in Int
  BY ConfidencesAreInt
<1>3. d.confidence \in Int
  BY <1>1, <1>2, ConfidenceIsNumber
<1>4. low \in Int
  <2>1. \A y, z \in Int : Min({y, z}) \in Int
    BY BoundsOfPairs
  <2>2. 40 \in Int
    OBVIOUS
  <2> QED BY <1>3, <2>1, <2>2
<1>5. "confidence" \in DOMAIN d
  BY DEF ParseReviewAgentResponse, AgentDecision
<1>6. RunReviewAgent(item, response) = HeldBack(d)
  BY DEF RunReviewAgent
<1> HIDE DEF d
<1>7. HeldBack(d) =
          IF d.allowed THEN d
          ELSE [[d EXCEPT !.recommendation = "needs_more_evidence"] EXCEPT !.confidence = low]
  BY DEF HeldBack
<1> HIDE DEF low
<1>8. "confidence" \in DOMAIN [d EXCEPT !.recommendation = "needs_more_evidence"]
  BY <1>5
<1> QED BY <1>3, <1>4, <1>6, <1>7, <1>8

LEMMA SamplesAreAnswers ==
    ASSUME NEW item, Scored(item), NEW responses, SomeResponses(responses)
    PROVE  Answers(ReviewAgentSamples(item, responses))
<1>1. PICK n \in Nat : responses \in [1..n -> Responses]
  BY DEF SomeResponses
<1>2. CASE responses = <<>>
  <2> DEFINE d == HeuristicReview(item)
  <2>1. d.confidence \in Int
    BY HeuristicIsAnswer
  <2>2. ReviewAgentSamples(item, responses) = <<d>>
    BY <1>2 DEF ReviewAgentSamples
  <2> HIDE DEF d
  <2>3. Answers(<<d>>)
    BY <2>1 DEF Answers
  <2> QED BY <2>2, <2>3
<1>3. CASE responses # <<>>
  <2> DEFINE D(i) == RunReviewAgent(item, responses[i])
             s == [i \in 1..n |-> D(i)]
  <2>1. n # 0
    BY <1>1, <1>3
  <2>2. ReviewAgentSamples(item, responses) = s
    BY <1>1, <1>3 DEF ReviewAgentSamples
  <2>3. \A i \in 1..n : D(i).confidence \in Int
    BY <1>1, ReviewIsAnswer
  <2> HIDE DEF D
  <2>4. DOMAIN s = 1..n /\ Len(s) = n /\ \A i \in 1..n : s[i] = D(i)
    OBVIOUS
  <2> HIDE DEF s
  <2>5. Answers(s)
    BY <2>1, <2>3, <2>4 DEF Answers
  <2> QED BY <2>2, <2>5
<1> QED BY <1>2, <1>3

-----------------------------------------------------------------------------
(* What is shown of a consensus.                                           *)

ShowsVerdict(shown) ==
    \E item, responses :
        /\ Scored(item) /\ SomeResponses(responses)
        /\ shown = Reviewed(item, responses, RunReviewAgentConsensus(item, responses))

Ruled(r) == r.kind = "consensus" /\ r.shown # Nothing => ShowsVerdict(r.shown)

VerdictInv ==
    /\ job \in Jobs
    /\ \A s \in DOMAIN items : Scored(items[s])
    /\ \A c \in Clients : requests[c] # NoRequest => Ruled(requests[c])

LEMMA OneRuled ==
    ASSUME IInv, VerdictInv, NEW c \in Clients, NEW r, requests' = [requests EXCEPT ![c] = r],
           UNCHANGED <<items, job>>, r # NoRequest => Ruled(r)
    PROVE  VerdictInv'
<1>1. requests'[c] = r /\ \A d \in Clients : d # c => requests'[d] = requests[d]
  BY DEF IInv, RequestsInv
<1>2. ASSUME NEW d \in Clients, requests'[d] # NoRequest PROVE Ruled(requests'[d])
  <2>1. CASE d = c
    BY <1>1, <1>2, <2>1
  <2>2. CASE d # c
    BY <1>1, <1>2, <2>2 DEF VerdictInv
  <2> QED BY <2>1, <2>2
<1> QED BY <1>2 DEF VerdictInv

LEMMA AnsweredRuled ==
    ASSUME IInv, VerdictInv, NEW c \in Clients, requests[c] # NoRequest,
           NEW answer, NEW shown, Answer(c, answer, shown), UNCHANGED <<items, job>>,
           requests[c].kind = "consensus" /\ shown # Nothing => ShowsVerdict(shown)
    PROVE  VerdictInv'
<1> DEFINE q == requests[c]
           r == Fields(q.kind, q.who, q.args, "answered", q.policies, q.stamp, q.seen,
                       q.event, answer, shown)
<1>1. requests' = [requests EXCEPT ![c] = r]
  BY TurnedIs DEF Answer
<1>2. r.kind = q.kind /\ r.shown = shown
  BY FieldsOf
<1> HIDE DEF r
<1>3. Ruled(r)
  BY <1>2 DEF Ruled
<1> QED BY <1>1, <1>3, OneRuled

\* A request that shows what it showed.
LEMMA KeptRuled ==
    ASSUME IInv, VerdictInv, NEW c \in Clients, requests[c] # NoRequest, UNCHANGED <<items, job>>,
           NEW stage, NEW event,
           \/ requests' = [requests EXCEPT ![c].stage = stage]
           \/ requests' = [requests EXCEPT ![c].stage = stage, ![c].event = event]
    PROVE  VerdictInv'
<1> DEFINE q == requests[c]
           R(n) == Fields(q.kind, q.who, q.args, stage, q.policies, q.stamp, q.seen,
                          n, q.answer, q.shown)
<1>1. IsRequest(q) /\ requests = [d \in Clients |-> requests[d]] /\ Ruled(q)
  BY DEF IInv, RequestsInv, VerdictInv
<1>2. ASSUME NEW n PROVE Ruled(R(n))
  BY <1>1, FieldsOf DEF Ruled
<1>3. CASE requests' = [requests EXCEPT ![c].stage = stage]
  <2>1. requests' = [requests EXCEPT ![c] = [q EXCEPT !.stage = stage]]
    BY <1>1, <1>3
  <2>2. requests' = [requests EXCEPT ![c] = R(q.event)]
    BY <1>1, <2>1, WithStage
  <2> HIDE DEF R
  <2> QED BY <1>2, <2>2, OneRuled
<1>4. CASE requests' = [requests EXCEPT ![c].stage = stage, ![c].event = event]
  <2>1. requests' = [requests EXCEPT ![c] = [q EXCEPT !.stage = stage, !.event = event]]
    BY <1>1, <1>4
  <2>2. requests' = [requests EXCEPT ![c] = R(event)]
    BY <1>1, <2>1, Storing
  <2> HIDE DEF R
  <2> QED BY <1>2, <2>2, OneRuled
<1> QED BY <1>3, <1>4

LEMMA StoredRuled ==
    ASSUME IInv, VerdictInv, NEW c \in Clients, requests[c] # NoRequest, job' = job,
           NEW s, NEW decision, Store(c, s, decision)
    PROVE  VerdictInv'
<1> DEFINE n == Len(events')
<1>1. items' = items /\ requests' = [requests EXCEPT ![c].stage = "stored", ![c].event = n]
  BY DEF Store
<1> HIDE DEF n
<1> QED BY <1>1, KeptRuled

LEMMA CalledRuled ==
    ASSUME IInv, VerdictInv, NEW c \in Clients, requests[c] # NoRequest, CallStore(c),
           UNCHANGED <<items, job>>
    PROVE  VerdictInv'
<1> DEFINE r == Called(requests[c], clock, Len(events))
<1>1. requests' = [requests EXCEPT ![c] = r]
  BY CalledIs
<1>2. r.kind = requests[c].kind /\ r.shown = requests[c].shown
  BY FieldsOf DEF Called
<1> HIDE DEF r
<1>3. Ruled(r)
  BY <1>2 DEF Ruled, VerdictInv
<1> QED BY <1>1, <1>3, OneRuled

LEMMA SetPolicyRuled ==
    ASSUME IInv, VerdictInv, NEW file, SetPolicy(file), UNCHANGED <<items, job>>
    PROVE  VerdictInv'
<1>1. ASSUME NEW c \in Clients, requests'[c] # NoRequest PROVE Ruled(requests'[c])
  <2> DEFINE q == requests[c]
             r == Fields(q.kind, q.who, q.args, q.stage, q.policies \cup {file}, q.stamp, q.seen,
                         q.event, q.answer,
                         q.shown)
  <2>1. requests'[c] = IF q = NoRequest THEN NoRequest
                       ELSE [q EXCEPT !.policies = q.policies \cup {file}]
    BY DEF SetPolicy
  <2>2. q # NoRequest /\ IsRequest(q) /\ Ruled(q)
    BY <1>1, <2>1 DEF VerdictInv, IInv, RequestsInv
  <2>3. requests'[c] = r
    BY <2>1, <2>2, WithPolicies
  <2>4. r.kind = q.kind /\ r.shown = q.shown
    BY FieldsOf
  <2> HIDE DEF r
  <2> QED BY <2>2, <2>3, <2>4 DEF Ruled
<1> QED BY <1>1 DEF VerdictInv

LEMMA PolicyRuled ==
    ASSUME IInv, VerdictInv, PolicyInit \/ PolicyWritten \/ PolicyInitStopped \/ EditPolicyByHand
    PROVE  VerdictInv'
<1>1. UNCHANGED <<items, job>>
  BY DEF PolicyInit, PolicyWritten, PolicyInitStopped, EditPolicyByHand, storeVars
<1>2. CASE \E file : SetPolicy(file)
  BY <1>1, <1>2, SetPolicyRuled
<1>3. CASE requests' = requests
  BY <1>1, <1>3 DEF VerdictInv
<1> QED BY <1>2, <1>3 DEF PolicyInit, PolicyWritten, PolicyInitStopped, EditPolicyByHand

LEMMA ScanRuled == ASSUME VerdictInv, Scan PROVE VerdictInv'
<1>1. PICK s \in job.surfaces, pack \in Packs :
          items' = [t \in DOMAIN items \cup {s} |->
                       IF t = s THEN ReviewItem(CandidateOf[s], pack) ELSE items[t]]
  BY DEF Scan
<1>2. Scored(ReviewItem(CandidateOf[s], pack))
  <2>1. CandidateOf[s].score \in Int
    BY ScoresAreInt DEF VerdictInv
  <2> QED BY <2>1 DEF Scored, ReviewItem
<1>3. \A t \in DOMAIN items' : Scored(items'[t])
  BY <1>1, <1>2 DEF VerdictInv
<1>4. UNCHANGED <<requests, job>>
  BY DEF Scan
<1> QED BY <1>3, <1>4 DEF VerdictInv, Scored

LEMMA ServerRuled == ASSUME IInv, VerdictInv, ServeReview \/ StopReview PROVE VerdictInv'
<1>1. UNCHANGED <<items, job>>
  BY DEF ServeReview, StopReview, storeVars
<1>2. CASE ServeReview
  BY <1>1, <1>2 DEF ServeReview, VerdictInv
<1>3. CASE StopReview
  <2>1. ASSUME NEW c \in Clients, requests'[c] # NoRequest PROVE Ruled(requests'[c])
    <3> DEFINE q == requests[c]
               p == [q EXCEPT !.stage = "answered"]
               lost == q # NoRequest /\ q.kind \in {"post", "get"} /\ q.stage # "answered"
    <3>1. requests'[c] = IF lost THEN [p EXCEPT !.answer = "lost"] ELSE q
      BY <1>3 DEF StopReview
    <3>2. q # NoRequest => IsRequest(q) /\ Ruled(q)
      BY DEF IInv, RequestsInv, VerdictInv
    <3>3. CASE ~lost
      BY <2>1, <3>1, <3>2, <3>3
    <3>4. CASE lost
      <4>1. p = Fields(q.kind, q.who, q.args, "answered", q.policies, q.stamp, q.seen,
                       q.event, q.answer, q.shown)
        BY <3>2, <3>4, WithStage
      <4> HIDE DEF p
      <4>2. IsRequest(p) /\ p.kind = q.kind
        BY <4>1, FieldsOf
      <4>3. [p EXCEPT !.answer = "lost"].kind = q.kind
        BY <4>2, WithAnswer, FieldsOf
      <4>4. requests'[c].kind # "consensus"
        BY <3>1, <3>4, <4>3
      <4> QED BY <4>4 DEF Ruled
    <3> QED BY <3>3, <3>4
  <2> QED BY <1>1, <2>1 DEF VerdictInv
<1> QED BY <1>2, <1>3

LEMMA BegunRuled ==
    ASSUME IInv, VerdictInv, NEW c \in Clients, NEW kind, NEW who, NEW args, NEW policies,
           Begin(c, Fields(kind, who, args, "begun", policies, 0, 0, 0, Nothing, Nothing))
    PROVE  VerdictInv'
<1> DEFINE r == Fields(kind, who, args, "begun", policies, 0, 0, 0, Nothing, Nothing)
<1>1. requests' = [requests EXCEPT ![c] = r] /\ UNCHANGED <<items, job>>
  BY DEF Begin, storeVars
<1>2. r.shown = Nothing
  BY FieldsOf
<1> HIDE DEF r
<1>3. Ruled(r)
  BY <1>2 DEF Ruled
<1> QED BY <1>1, <1>3, OneRuled

LEMMA BeginRuled ==
    ASSUME IInv, VerdictInv, NEW c \in Clients,
           BeginPost(c) \/ BeginGet(c) \/ BeginMessage(c) \/ BeginProposal(c)
              \/ BeginFindEvidence(c) \/ BeginCommand(c)
    PROVE  VerdictInv'
<1>1. ASSUME NEW kind, NEW who, NEW args, Begin(c, Request(kind, who, args))
      PROVE  VerdictInv'
  <2>1. Begin(c, Fields(kind, who, args, "begun", {policy}, 0, 0, 0, Nothing, Nothing))
    BY <1>1, NewRequest
  <2> QED BY <2>1, BegunRuled
<1>2. ASSUME NEW kind, NEW args,
             Begin(c, [Request(kind, web.who, args) EXCEPT !.policies = {web.policy}])
      PROVE  VerdictInv'
  <2>1. Begin(c, Fields(kind, web.who, args, "begun", {web.policy}, 0, 0, 0, Nothing, Nothing))
    BY <1>2, NewWebRequest
  <2> QED BY <2>1, BegunRuled
<1>3. CASE BeginPost(c)
  BY <1>2, <1>3 DEF BeginPost
<1>4. CASE BeginGet(c)
  <2>1. PICK path :
            Begin(c, [Request("get", web.who, [path |-> path]) EXCEPT !.policies = {web.policy}])
    BY <1>4 DEF BeginGet
  <2> QED BY <1>2, <2>1
<1>5. CASE BeginMessage(c)
  BY <1>1, <1>5 DEF BeginMessage
<1>6. CASE BeginProposal(c)
  BY <1>1, <1>6 DEF BeginProposal
<1>7. CASE BeginFindEvidence(c)
  BY <1>1, <1>7 DEF BeginFindEvidence
<1>8. CASE BeginCommand(c)
  BY <1>1, <1>8 DEF BeginCommand
<1> QED BY <1>3, <1>4, <1>5, <1>6, <1>7, <1>8

\* Requests that are served otherwise than by the agent.
LEMMA ServedRuled ==
    ASSUME IInv, VerdictInv, NEW c \in Clients,
           PostDecision(c) \/ PostAnswer(c) \/ Get(c) \/ HandleMessage(c) \/ SubmitProposal(c)
              \/ SaveProposal(c) \/ ProposalSaved(c) \/ AnswerFindEvidence(c) \/ ExportCommand(c)
              \/ FindRow(c) \/ StoreDecision(c) \/ StoreFails(c)
    PROVE  VerdictInv'
<1> DEFINE kinds == {"post", "get", "message", "submit_proposal", "find_evidence", "dataset", "export"}
<1>1. requests[c] # NoRequest /\ requests[c].kind \in kinds
  BY DEF PostDecision, PostAnswer, Get, HandleMessage, SubmitProposal, SaveProposal, ProposalSaved,
         AnswerFindEvidence, ExportCommand, FindRow, StoreDecision, StoreFails, At
<1>2. requests[c].kind # "consensus" /\ job' = job
  BY <1>1 DEF PostDecision, PostAnswer, Get, HandleMessage, SubmitProposal, SaveProposal,
              ProposalSaved, AnswerFindEvidence, ExportCommand, FindRow, StoreDecision, StoreFails
<1>3. CASE UNCHANGED storeVars /\ \E answer, shown : Answer(c, answer, shown)
  BY <1>1, <1>2, <1>3, AnsweredRuled DEF storeVars
<1>4. CASE UNCHANGED storeVars /\ CallStore(c)
  BY <1>1, <1>2, <1>4, CalledRuled DEF storeVars
<1>5. CASE UNCHANGED storeVars /\ \E stage : requests' = [requests EXCEPT ![c].stage = stage]
  BY <1>1, <1>2, <1>5, KeptRuled DEF storeVars
<1>6. CASE PostDecision(c)
  BY <1>3, <1>4, <1>6 DEF PostDecision
<1>7. CASE PostAnswer(c) \/ HandleMessage(c) \/ ProposalSaved(c) \/ AnswerFindEvidence(c)
  BY <1>3, <1>7 DEF PostAnswer, HandleMessage, ProposalSaved, AnswerFindEvidence
<1>8. CASE Get(c)
  <2>1. requests[c].args.path \in {"/", "/healthz", "/review-events.jsonl", "elsewhere"}
    BY <1>8, AtFacts DEF Get, Backed
  <2> QED BY <1>3, <1>8, <2>1 DEF Get
<1>9. CASE SubmitProposal(c)
  BY <1>3, <1>5, <1>9 DEF SubmitProposal
<1>10. CASE SaveProposal(c)
  BY <1>4, <1>10 DEF SaveProposal
<1>11. CASE ExportCommand(c)
  BY <1>3, <1>11 DEF ExportCommand
<1>12. CASE FindRow(c)
  BY <1>5, <1>12 DEF FindRow
<1>13. CASE StoreDecision(c)
  BY <1>1, <1>2, <1>13, StoredRuled DEF StoreDecision
<1>14. CASE StoreFails(c)
  BY <1>3, <1>14 DEF StoreFails
<1> QED BY <1>6, <1>7, <1>8, <1>9, <1>10, <1>11, <1>12, <1>13, <1>14

LEMMA CommandRuled ==
    ASSUME IInv, VerdictInv, NEW c \in Clients, AskForLeave(c) \/ ReviewAgentCommand(c)
    PROVE  VerdictInv'
<1>1. requests[c] # NoRequest /\ UNCHANGED <<items, job>>
  BY DEF AskForLeave, ReviewAgentCommand, At, storeVars
<1>2. CASE \E answer : Answer(c, answer, Nothing)
  BY <1>1, <1>2, AnsweredRuled
<1>3. CASE \E stage : requests' = [requests EXCEPT ![c].stage = stage]
  BY <1>1, <1>3, KeptRuled
<1>4. CASE requests[c].kind # "consensus" /\ \E answer, shown : Answer(c, answer, shown)
  BY <1>1, <1>4, AnsweredRuled
<1>5. CASE AskForLeave(c)
  BY <1>2, <1>3, <1>5 DEF AskForLeave, AskFor
<1>6. CASE ReviewAgentCommand(c)
  <2>1. CASE Answer(c, "exit 1", Nothing)
    BY <1>2, <2>1
  <2>2. CASE requests[c].kind = "prompt" /\ \E item : PromptCommand(c, item)
    BY <1>4, <2>2 DEF PromptCommand
  <2>3. CASE requests[c].kind = "assess" /\ \E item : AssessCommand(c, item)
    BY <1>4, <2>3 DEF AssessCommand, AnswerDecision
  <2>4. ASSUME NEW s \in DOMAIN items, ConsensusCommand(c, items[s])
        PROVE  VerdictInv'
    <3>0. PICK n \in 0..job.samples : \E responses \in [1..n -> Responses] :
              \/ Answer(c, "exit 1", Nothing)
              \/ AnswerReport(c, items[s], responses, RunReviewAgentConsensus(items[s], responses))
      BY <2>4 DEF ConsensusCommand
    <3>1. PICK responses \in [1..n -> Responses] :
              \/ Answer(c, "exit 1", Nothing)
              \/ AnswerReport(c, items[s], responses, RunReviewAgentConsensus(items[s], responses))
      BY <3>0
    <3>2. Scored(items[s]) /\ SomeResponses(responses)
      <4>1. Scored(items[s])
        BY DEF VerdictInv
      <4>2. n \in Nat
        BY SamplesAreNat DEF VerdictInv
      <4>3. SomeResponses(responses)
        BY <3>1, <4>2 DEF SomeResponses
      <4> QED BY <4>1, <4>3
    <3> DEFINE shown == Reviewed(items[s], responses, RunReviewAgentConsensus(items[s], responses))
    <3>3. ShowsVerdict(shown)
      BY <3>2 DEF ShowsVerdict
    <3>4. Answer(c, "exit 1", Nothing) \/ \E answer : Answer(c, answer, shown)
      BY <3>1 DEF AnswerReport
    <3> HIDE DEF shown
    <3> QED BY <1>1, <1>2, <3>3, <3>4, AnsweredRuled
  <2>5. SelectReviewAgentItem(requests[c].args.surface) \subseteq DOMAIN items
    BY DEF SelectReviewAgentItem
  <2> QED BY <1>6, <2>1, <2>2, <2>3, <2>4, <2>5 DEF ReviewAgentCommand, At
<1> QED BY <1>5, <1>6

LEMMA EndRuled == ASSUME IInv, VerdictInv, NEW c \in Clients, End(c) PROVE VerdictInv'
<1>1. requests' = [requests EXCEPT ![c] = NoRequest] /\ UNCHANGED <<items, job>>
  BY DEF End, storeVars
<1> QED BY <1>1, OneRuled

LEMMA VerdictInit == Init => VerdictInv
<1> SUFFICES ASSUME Init PROVE VerdictInv
  OBVIOUS
<1>1. job \in Jobs /\ items = FirstItems
  BY DEF Init
<1>2. ASSUME NEW s \in DOMAIN items PROVE Scored(items[s])
  BY <1>1, <1>2, ScoresAreInt DEF Scored
<1>3. ASSUME NEW c \in Clients, requests[c] # NoRequest PROVE Ruled(requests[c])
  BY <1>3 DEF Init
<1> QED
  BY <1>1, <1>2, <1>3 DEF VerdictInv

LEMMA VerdictNext == IInv /\ VerdictInv /\ [Next]_vars => VerdictInv'
<1> SUFFICES ASSUME IInv, VerdictInv, [Next]_vars PROVE VerdictInv'
  OBVIOUS
<1>1. CASE PolicyInit \/ PolicyWritten \/ PolicyInitStopped \/ EditPolicyByHand
  BY <1>1, PolicyRuled
<1>2. CASE Scan
  BY <1>2, ScanRuled
<1>3. CASE ServeReview \/ StopReview
  BY <1>3, ServerRuled
<1>4. CASE Tick \/ UNCHANGED vars
  <2>1. UNCHANGED <<items, requests, job>>
    BY <1>4 DEF Tick, vars
  <2> QED BY <2>1 DEF VerdictInv
<1>5. ASSUME NEW c \in Clients,
             BeginPost(c) \/ BeginGet(c) \/ BeginMessage(c) \/ BeginProposal(c)
                \/ BeginFindEvidence(c) \/ BeginCommand(c)
      PROVE  VerdictInv'
  BY <1>5, BeginRuled
<1>6. ASSUME NEW c \in Clients,
             PostDecision(c) \/ PostAnswer(c) \/ Get(c) \/ HandleMessage(c) \/ SubmitProposal(c)
                \/ SaveProposal(c) \/ ProposalSaved(c) \/ AnswerFindEvidence(c) \/ ExportCommand(c)
                \/ FindRow(c) \/ StoreDecision(c) \/ StoreFails(c)
      PROVE  VerdictInv'
  BY <1>6, ServedRuled
<1>7. ASSUME NEW c \in Clients, AskForLeave(c) \/ ReviewAgentCommand(c) PROVE VerdictInv'
  BY <1>7, CommandRuled
<1>8. ASSUME NEW c \in Clients, End(c) PROVE VerdictInv'
  BY <1>8, EndRuled
<1> QED BY <1>1, <1>2, <1>3, <1>4, <1>5, <1>6, <1>7, <1>8 DEF Next

LEMMA EarnedInvariance == (MinAgreement > 5000) /\ VerdictInv => VerdictsAreEarned
<1> SUFFICES ASSUME MinAgreement > 5000, VerdictInv, NEW c \in Clients, requests[c] # NoRequest,
                    requests[c].kind = "consensus", requests[c].shown # Nothing
             PROVE  Earned(requests[c].shown.item,
                           ReviewAgentSamples(requests[c].shown.item, requests[c].shown.responses),
                           requests[c].shown.result)
  BY DEF VerdictsAreEarned
<1>1. ShowsVerdict(requests[c].shown)
  BY DEF VerdictInv, Ruled
<1>2. PICK item, responses :
          /\ Scored(item) /\ SomeResponses(responses)
          /\ requests[c].shown = Reviewed(item, responses, RunReviewAgentConsensus(item, responses))
  BY <1>1 DEF ShowsVerdict
<1> DEFINE samples == ReviewAgentSamples(item, responses)
<1>3. Answers(samples)
  BY <1>2, SamplesAreAnswers
<1>4. RunReviewAgentConsensus(item, responses) = Consensus(item, samples)
  BY DEF RunReviewAgentConsensus
<1> HIDE DEF samples
<1>5. Earned(item, samples, Consensus(item, samples))
  BY <1>3, EarnedByAnswers
<1>6. /\ requests[c].shown.item = item /\ requests[c].shown.responses = responses
      /\ requests[c].shown.result = Consensus(item, samples)
  BY <1>2, <1>4 DEF Reviewed
<1> QED BY <1>5, <1>6 DEF samples

\* VerdictsAreEarned for any candidates, clients and answers of a model, of any number, when
\* more than half of them must agree: there is a consensus exactly when all answers are safe
\* and enough of them, sure enough, support one recommendation; it is theirs, and the same
\* answers in the other order come to the same verdict.
THEOREM VerdictsEarned == (MinAgreement > 5000) => (Spec => []VerdictsAreEarned)
<1> SUFFICES ASSUME MinAgreement > 5000 PROVE Spec => []VerdictsAreEarned
  OBVIOUS
<1>1. VerdictInv => VerdictsAreEarned
  BY EarnedInvariance
<1> QED BY <1>1, VerdictInit, VerdictNext, Invariance, PTL DEF Spec
=============================================================================
