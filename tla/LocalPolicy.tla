----------------------------- MODULE LocalPolicy -----------------------------
(***************************************************************************)
(* Who may do what in a workspace (policy/local.py).  A policy file names  *)
(* a mode and the roles of actors; a command may bring a mode or a role of *)
(* its own.                                                                *)
(***************************************************************************)
EXTENDS Naturals, Sequences, FiniteSets, Functions

CONSTANTS
    NoRole,    \* no role was given
    NoMode,    \* no mode was given
    NoFile,    \* there is no policy file
    Unreadable \* a policy file that is not a policy: half written, or edited so

Modes == {"solo", "team", "locked"}
Roles == {"owner", "maintainer", "reviewer", "reader", "agent"}

PolicyActions == {"read_workspace", "sync_workspace", "review_candidate",
                  "export_review_events", "publish_snapshot", "run_llm_review",
                  "manage_policy"}

AllowedRoles(mode, action) ==
    IF mode = "solo" \/ action = "read_workspace" THEN Roles
    ELSE IF mode = "locked" \/ action = "manage_policy" THEN {"owner"}
    ELSE IF action \in {"review_candidate", "export_review_events"}
         THEN {"owner", "maintainer", "reviewer"}
    ELSE {"owner", "maintainer"}

DefaultRole(mode) == IF mode = "solo" THEN "owner" ELSE "reader"

\* A file's default role may be left out; actors are those it names.
PolicyFile(mode, default_role, actors) ==
    [mode |-> mode, default_role |-> default_role, actors |-> actors]

LocalPolicy(file) ==
    IF file.default_role = NoRole THEN [file EXCEPT !.default_role = DefaultRole(file.mode)]
    ELSE file

\* Mutant: a mode given by the command leaves the default role as it is.
WithModeOnly(policy, mode) == IF mode = NoMode THEN policy ELSE [policy EXCEPT !.mode = mode]

\* A mode given by the command brings its own default role.
WithMode(policy, mode) ==
    IF mode = NoMode THEN policy
    ELSE [policy EXCEPT !.mode = mode, !.default_role = DefaultRole(mode)]

LoadLocalPolicy(file, mode) ==
    IF file = NoFile THEN WithMode(LocalPolicy(PolicyFile("solo", NoRole, <<>>)), mode)
    ELSE WithMode(LocalPolicy(file), mode)

RoleForActor(policy, actor, role) ==
    IF role # NoRole THEN role
    ELSE IF actor \in DOMAIN policy.actors THEN policy.actors[actor]
    ELSE policy.default_role

\* "who" is how a command was called: its actor, role and mode.
CheckLocalPolicy(file, action, who) ==
    LET policy == LoadLocalPolicy(file, who.mode)
        role == RoleForActor(policy, who.actor, who.role)
    IN  [actor |-> who.actor, role |-> role, mode |-> policy.mode,
         allowed |-> role \in AllowedRoles(policy.mode, action)]

\* What "policy init" writes.
InitialPolicy(mode, actor, role) ==
    PolicyFile(mode, DefaultRole(mode), [a \in {actor} |-> role])
=============================================================================
