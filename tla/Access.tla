-------------------------------- MODULE Access --------------------------------
(***************************************************************************)
(* Who may do what in the web interface: UI sessions, single sign-on       *)
(* logins, roles, teams, proxy keys and budgets.                           *)
(*                                                                         *)
(* A request (or a command of the CLI, which opens the same database)      *)
(* touches the store once per statement and keeps what it read in its      *)
(* context; between two statements any other request may run.  So every    *)
(* statement is an action, and a request is a program counter with the     *)
(* UISessionContext it collected.  Any statement may also fail - the       *)
(* request's context is cancelled when the client leaves - which ends the  *)
(* handler where it stands (Abort), or is only logged where the code says  *)
(* "best effort".                                                          *)
(***************************************************************************)
EXTENDS Naturals, FiniteSets

CONSTANTS
    Users,          \* subjects of the identity provider
    Teams, Keys,    \* identifiers of teams and of proxy keys
    Tokens,         \* session tokens ever handed out
    LoginStates,    \* values of the OIDC state parameter
    Requests,       \* request goroutines and CLI processes running at once
    Backend,        \* "sqlite" or "postgres"
    Databases,      \* what the tables may hold at the start, with the calls to
                    \* come and a bound on their number
    None            \* no user, no team, no token

Roles == {"global_admin", "team_admin", "member"}

(***************************************************************************)
(* The routes of the server: which check stands before which handler.      *)
(***************************************************************************)
PublicOps  == {"login", "start", "callback"}
AdminOps   == {"role", "reactivate", "createTeam", "deleteTeam", "budgetGlobal", "budgetUser"}
ScopedOps  == {"deactivate", "addMember", "removeMember", "budgetTeam", "budgetKey"}
KeyOps     == {"createKey", "revokeKey", "logout"}
GuardedOps == {"role", "deactivate"}
CliOps     == {"role", "deactivate", "reactivate", "createTeam", "deleteTeam",
               "addMember", "removeMember", "createKey", "revokeKey"}

\* The rows the tables may hold, and what the routers accept as a call: the
\* path names the target, ChangeRoleHandler takes one of the three roles.
UserRows    == [Users -> [role : Roles \cup {"none"}, active : BOOLEAN]]
MemberRows  == [Users -> Teams \cup {None}]
KeyRows     == [Keys -> [state : {"unused", "active", "revoked"},
                         owner : Users \cup {None}, scoped : BOOLEAN]]
RowStates   == {"unused", "live", "expired", "gone"}
SessionRows == [Tokens -> [state : RowStates, user : Users \cup {None}]]
LoginRows   == [LoginStates -> RowStates]

WellFormed(call) ==
    LET op == call.op IN
    /\ op \in PublicOps \cup AdminOps \cup ScopedOps \cup KeyOps
    /\ op \in {"role", "deactivate", "reactivate", "budgetUser"} => call.target \in Users
    /\ op \in {"createTeam", "deleteTeam", "addMember", "removeMember", "budgetTeam"} =>
           call.target \in Teams
    /\ op \in {"createKey", "revokeKey", "budgetKey"} => call.target \in Keys
    /\ op = "callback" => call.target \in LoginStates
    /\ op = "role" => call.arg \in Roles
    /\ op = "deactivate" => call.arg = None
    /\ op \in {"addMember", "removeMember", "callback"} => call.arg \in Users

ASSUME AccessAssumption ==
    /\ IsFiniteSet(Users)
    /\ Backend \in {"sqlite", "postgres"}
    /\ None \notin Users \cup Teams \cup Keys \cup Tokens \cup LoginStates \cup Roles
    /\ \A d \in Databases :
         /\ d.users \in UserRows
         /\ d.member \in MemberRows
         /\ d.keys \in KeyRows
         /\ d.sessions \in SessionRows
         /\ d.logins \in LoginRows
         /\ d.requests \in Nat
         /\ \A call \in d.calls : WellFormed(call)

\* A database that has users starts with an active administrator: the first
\* login made one (LastAdminKept is about keeping one).
ASSUME AdminAssumption ==
    \A d \in Databases : (\E u \in Users : d.users[u].role # "none") =>
        \E u \in Users : d.users[u].role = "global_admin" /\ d.users[u].active

VARIABLES
    users,      \* oidc_users: role ("none" before the first login) and active
    teams,      \* rows of teams
    member,     \* team_memberships: one team at most per user
    keys,       \* proxy_keys with owner, revoked_at and whether scoping was set
    budgets,    \* targets that have a budget row
    sessions,   \* ui_sessions by token: "unused", "live", "expired" or "gone"
    logins,     \* oidc_state rows, with the same four states
    req,        \* the running requests
    ahead,      \* the requests still to come: how many, and which calls
    seen,       \* what the user and team tables held since a request arrived
    consumed,   \* how many callbacks consumed a login state
    overlapped  \* two guarded user changes were under way at once

db       == <<users, teams, member, keys, budgets>>
accessVars == <<db, sessions, logins, req, ahead, seen, consumed, overlapped>>

Idle  == [pc |-> "idle", call |-> None, token |-> None, user |-> None,
          role |-> "none", team |-> None]

CountGlobalAdmins == Cardinality({u \in Users : users[u].role = "global_admin" /\ users[u].active})

\* Where a handler starts: most first read what they are about to change.
FirstStep(op) ==
    CASE op \in {"role", "deactivate", "removeMember", "deleteTeam"} -> "load"
      [] op = "revokeKey"                                           -> "check"
      [] OTHER                                                      -> "write"

\* A check that lets a team administrator without a team through.
RequireTeamScopeLax(c, target) == c.role # "team_admin" \/ c.team = None \/ c.team = target

\* The checks of a route, on the context the request collected.
RequireGlobalAdmin(c) == c.role = "global_admin"
RequireAdminOrTeamAdmin(c) == c.role \in {"global_admin", "team_admin"}
RequireTeamScope(c, target) == c.role # "team_admin" \/ (c.team # None /\ c.team = target)

\* Keys a session sees: its own, its team's or all of them.
buildScopeParams(c) ==
    CASE c.role = "global_admin"                     -> "all"
      [] c.role = "team_admin" /\ c.team # None      -> "team"
      [] OTHER                                       -> "user"
listKeysForSession(c) ==
    {k \in Keys : /\ keys[k].state = "active"
                  /\ CASE buildScopeParams(c) = "all"  -> TRUE
                       [] buildScopeParams(c) = "team" -> /\ keys[k].owner # None
                                                          /\ member[keys[k].owner] = c.team
                       [] OTHER                        -> keys[k].owner = c.user}
canMutateKey(c, k) == c.role = "global_admin" \/ k \in listKeysForSession(c)

-------------------------------------------------------------------------------
Become(r, c) == req' = [req EXCEPT ![r] = c]
Finish(r)    == Become(r, Idle)
GoTo(r, pc)  == Become(r, [req[r] EXCEPT !.pc = pc])

\* A client sends a request with a token it was given, live or not; a CLI
\* command carries none and needs none.
Arrive(r) ==
    /\ req[r] = Idle
    /\ ahead.requests > 0
    /\ \E call \in ahead.calls :
         \/ /\ call.op \in PublicOps
            /\ Become(r, [Idle EXCEPT !.pc = call.op, !.call = call])
         \/ /\ call.op \notin PublicOps
            /\ \E t \in Tokens :
                 /\ sessions[t].state # "unused"
                 /\ Become(r, [Idle EXCEPT !.pc = "session", !.call = call, !.token = t])
         \/ /\ call.op \in CliOps
            /\ Become(r, [Idle EXCEPT !.call = call, !.role = "global_admin",
                            \* The CLI deletes teams and revokes keys unread.
                            !.pc = IF call.op \in {"deleteTeam", "revokeKey"}
                                   THEN "write" ELSE FirstStep(call.op)])
    /\ ahead' = [ahead EXCEPT !.requests = @ - 1]
    /\ UNCHANGED <<db, sessions, logins, consumed>>

\* The session row of the token, unless it expired: a master-key session is
\* an administrator without a user.
Validate(r) ==
    LET c == req[r]
        s == sessions[c.token]
        admitted == [c EXCEPT !.user = s.user,
                              !.role = IF s.user = None THEN "global_admin" ELSE "none",
                              !.pc = IF s.user = None THEN "routed" ELSE "user"]
    IN  /\ c.pc = "session"
        /\ IF s.state = "live" THEN Become(r, admitted) ELSE Finish(r)
        /\ UNCHANGED <<db, sessions, logins, ahead, consumed>>

\* A session check that trusts deactivation to have removed the sessions.
LoadUserUnchecked(r) ==
    LET c == req[r]
    IN  /\ c.pc = "user"
        /\ Become(r, [c EXCEPT !.role = users[c.user].role, !.pc = "team"])
        /\ UNCHANGED <<db, sessions, logins, ahead, consumed>>

\* The session's user: a deactivated one loses the session on the spot.
LoadUser(r) ==
    LET c == req[r]
        u == users[c.user]
    IN  /\ c.pc = "user"
        /\ IF u.active
           THEN /\ Become(r, [c EXCEPT !.role = u.role, !.pc = "team"])
                /\ UNCHANGED sessions
           ELSE /\ Finish(r)
                /\ sessions' = [sessions EXCEPT ![c.token].state = "gone"]
        /\ UNCHANGED <<db, logins, ahead, consumed>>

\* The membership, best effort: a failed read leaves the session without a team.
LoadTeam(r) ==
    /\ req[r].pc = "team"
    /\ \E t \in {member[req[r].user], None} : Become(r, [req[r] EXCEPT !.team = t, !.pc = "routed"])
    /\ UNCHANGED <<db, sessions, logins, ahead, consumed>>

\* The team a scoped route is about; the user and key resolvers read it now.
TargetTeam(c) ==
    CASE c.call.op = "deactivate" -> member[c.call.target]
      [] c.call.op = "budgetKey"  -> IF c.team # None /\ c.call.target \in listKeysForSession(c)
                                     THEN c.team ELSE None
      [] OTHER                    -> c.call.target

\* The route's checks, then its handler.
Route(r) ==
    LET c == req[r]
        admitted == CASE c.call.op \in AdminOps  -> RequireGlobalAdmin(c)
                      [] c.call.op \in ScopedOps -> /\ RequireAdminOrTeamAdmin(c)
                                                    /\ RequireTeamScope(c, TargetTeam(c))
                      [] OTHER                   -> TRUE
    IN  /\ c.pc = "routed"
        /\ IF admitted THEN GoTo(r, FirstStep(c.call.op)) ELSE Finish(r)
        /\ UNCHANGED <<db, sessions, logins, ahead, consumed>>

-------------------------------------------------------------------------------
\* What a handler reads before it writes: the user it is about to change, the
\* membership it is about to remove, the team it is about to delete.
Load(r) ==
    LET c == req[r]
        t == c.call.target
    IN  /\ c.pc = "load"
        /\ CASE c.call.op \in GuardedOps ->
                  IF users[t].role = "none" THEN Finish(r)
                  ELSE GoTo(r, IF users[t].role = "global_admin" /\ c.call.arg # "global_admin"
                               THEN "count" ELSE "write")
             [] c.call.op = "removeMember" ->
                  IF member[c.call.arg] = t THEN GoTo(r, "write") ELSE Finish(r)
             [] OTHER -> IF t \in teams THEN GoTo(r, "write") ELSE Finish(r)
        /\ UNCHANGED <<db, sessions, logins, ahead, consumed>>

\* Refusing only when there is no administrator left to count.
LastAdminRefusedLate == CountGlobalAdmins < 1
LastAdminRefused == CountGlobalAdmins <= 1

\* The guard of the last administrator.
Count(r) ==
    /\ req[r].pc = "count"
    /\ IF LastAdminRefused THEN Finish(r) ELSE GoTo(r, "write")
    /\ UNCHANGED <<db, sessions, logins, ahead, consumed>>

Check(r) ==
    /\ req[r].pc = "check"
    /\ IF canMutateKey(req[r], req[r].call.target) THEN GoTo(r, "write") ELSE Finish(r)
    /\ UNCHANGED <<db, sessions, logins, ahead, consumed>>

\* Foreign keys are switched on for the one connection that ran the PRAGMA;
\* a statement on another connection of SQLite's pool is not checked.
ForeignKeysEnforced == IF Backend = "sqlite" THEN BOOLEAN ELSE {TRUE}

UpdateOIDCUserRole(r, u, role) ==
    /\ users' = [users EXCEPT ![u].role = role]
    /\ Finish(r)
    /\ UNCHANGED <<teams, member, keys, budgets, sessions>>

SetOIDCUserActive(r, u, active) ==
    /\ IF users[u].role = "none"
       THEN Finish(r) /\ UNCHANGED users
       ELSE /\ users' = [users EXCEPT ![u].active = active]
            /\ IF active THEN Finish(r) ELSE GoTo(r, "revokeSessions")
    /\ UNCHANGED <<teams, member, keys, budgets, sessions>>

\* INSERT OR REPLACE: the user leaves any other team.
AssignUserToTeam(r, u, t, enforced) ==
    /\ IF enforced /\ (t \notin teams \/ users[u].role = "none")
       THEN UNCHANGED member
       ELSE member' = [member EXCEPT ![u] = t]
    /\ Finish(r)
    /\ UNCHANGED <<users, teams, keys, budgets, sessions>>

\* By user alone, whatever team the user is in by now.
RemoveUserFromTeam(r, u) ==
    /\ member' = [member EXCEPT ![u] = None]
    /\ Finish(r)
    /\ UNCHANGED <<users, teams, keys, budgets, sessions>>

CreateTeam(r, t) ==
    /\ teams' = teams \cup {t}
    /\ Finish(r)
    /\ UNCHANGED <<users, member, keys, budgets, sessions>>

\* One transaction; it is rolled back if the team is gone.  Its budget row
\* cascades where foreign keys are checked.
DeleteTeam(r, t, enforced) ==
    /\ IF t \in teams
       THEN /\ teams' = teams \ {t}
            /\ member' = [u \in Users |-> IF member[u] = t THEN None ELSE member[u]]
            /\ budgets' = IF enforced THEN budgets \ {t} ELSE budgets
       ELSE UNCHANGED <<teams, member, budgets>>
    /\ Finish(r)
    /\ UNCHANGED <<users, keys, sessions>>

\* The key is active as soon as it is inserted; its scoping is a later
\* statement whose failure is only logged.
CreateKey(r, k) ==
    /\ keys[k].state = "unused"
    /\ keys' = [keys EXCEPT ![k] = [state |-> "active", owner |-> req[r].user, scoped |-> FALSE]]
    /\ IF req[r].call.arg = "scoped" THEN GoTo(r, "scope") ELSE Finish(r)
    /\ UNCHANGED <<users, teams, member, budgets, sessions>>

SetKeyScope(r) ==
    /\ req[r].pc = "scope"
    /\ keys' = [keys EXCEPT ![req[r].call.target].scoped = TRUE]
    /\ Finish(r)
    /\ UNCHANGED <<users, teams, member, budgets, sessions, logins, ahead, consumed>>

RevokeProxyKey(r, k) ==
    /\ keys' = [keys EXCEPT ![k].state = IF @ = "active" THEN "revoked" ELSE @]
    /\ Finish(r)
    /\ UNCHANGED <<users, teams, member, budgets, sessions>>

\* The rows a budget may belong to.
Exists(t) == /\ t \in Teams => t \in teams
             /\ t \in Users => users[t].role # "none"
             /\ t \in Keys  => keys[t].state # "unused"

\* Setting a budget upserts its row; clearing one empties it.
SetBudget(r, t, enforced) ==
    /\ budgets' = CASE req[r].call.arg = "clear"  -> budgets \ {t}
                    [] enforced /\ ~Exists(t)     -> budgets
                    [] OTHER                      -> budgets \cup {t}
    /\ Finish(r)
    /\ UNCHANGED <<users, teams, member, keys, sessions>>

Logout(r) ==
    /\ sessions' = [sessions EXCEPT ![req[r].token].state = "gone"]
    /\ Finish(r)
    /\ UNCHANGED db

\* The statement that changes something, handler by handler.
Write(r) ==
    LET op == req[r].call.op
        t  == req[r].call.target
        a  == req[r].call.arg
    IN  /\ req[r].pc = "write"
        /\ \/ op = "role" /\ UpdateOIDCUserRole(r, t, a)
           \/ op = "deactivate" /\ SetOIDCUserActive(r, t, FALSE)
           \/ op = "reactivate" /\ SetOIDCUserActive(r, t, TRUE)
           \/ op = "createTeam" /\ CreateTeam(r, t)
           \/ op = "removeMember" /\ RemoveUserFromTeam(r, a)
           \/ op = "createKey" /\ CreateKey(r, t)
           \/ op = "revokeKey" /\ RevokeProxyKey(r, t)
           \/ op = "logout" /\ Logout(r)
           \/ \E enforced \in ForeignKeysEnforced :
                \/ op = "addMember" /\ AssignUserToTeam(r, a, t, enforced)
                \/ op = "deleteTeam" /\ DeleteTeam(r, t, enforced)
                \/ op \in {"budgetGlobal", "budgetUser", "budgetTeam", "budgetKey"}
                     /\ SetBudget(r, t, enforced)
        /\ UNCHANGED <<logins, ahead, consumed>>

\* Deactivation's last step, best effort.
DeleteUISessionsByUserID(r) ==
    /\ req[r].pc = "revokeSessions"
    /\ sessions' = [t \in Tokens |->
                     IF sessions[t].user = req[r].call.target /\ sessions[t].state # "unused"
                     THEN [sessions[t] EXCEPT !.state = "gone"] ELSE sessions[t]]
    /\ Finish(r)
    /\ UNCHANGED <<db, logins, ahead, consumed>>

-------------------------------------------------------------------------------
\* A session row under a token nobody holds yet.
CreateUISession(u) ==
    \E t \in Tokens : /\ sessions[t].state = "unused"
                      /\ sessions' = [sessions EXCEPT ![t] = [state |-> "live", user |-> u]]

LoginHandler(r) ==
    /\ req[r].pc = "login"
    /\ CreateUISession(None)
    /\ Finish(r)
    /\ UNCHANGED <<db, logins, ahead, consumed>>

OIDCStartHandler(r) ==
    /\ req[r].pc = "start"
    /\ \E s \in LoginStates : logins[s] = "unused" /\ logins' = [logins EXCEPT ![s] = "live"]
    /\ Finish(r)
    /\ UNCHANGED <<db, sessions, ahead, consumed>>

\* ConsumeOIDCState, first statement of its transaction.
SelectState(r) ==
    /\ req[r].pc = "callback"
    /\ IF logins[req[r].call.target] = "live" THEN GoTo(r, "delete") ELSE Finish(r)
    /\ UNCHANGED <<db, sessions, logins, ahead, consumed>>

\* The delete as a statement outside of the transaction of the select.
DeleteStateUnlocked(r) ==
    LET s == req[r].call.target
    IN  /\ req[r].pc = "delete"
        /\ logins' = [logins EXCEPT ![s] = "gone"]
        /\ consumed' = [consumed EXCEPT ![s] = @ + 1]
        /\ GoTo(r, "upsert")
        /\ UNCHANGED <<db, sessions, ahead>>

\* Its second statement.  SQLite refuses to write from a snapshot that another
\* writer has overtaken; PostgreSQL deletes no row and nobody looks.
DeleteState(r) ==
    LET s == req[r].call.target
    IN  /\ req[r].pc = "delete"
        /\ IF Backend = "sqlite" /\ logins[s] = "gone"
           THEN Finish(r) /\ UNCHANGED <<logins, consumed>>
           ELSE /\ logins' = [logins EXCEPT ![s] = "gone"]
                /\ consumed' = [consumed EXCEPT ![s] = @ + 1]
                /\ GoTo(r, "upsert")
        /\ UNCHANGED <<db, sessions, ahead>>

\* After the code exchange (a failed one is an Abort): is the subject known?
UpsertOIDCUser(r) ==
    LET u == req[r].call.arg
    IN  /\ req[r].pc = "upsert"
        /\ CASE users[u].role = "none" -> GoTo(r, "countAdmins")
             [] users[u].active        -> Become(r, [req[r] EXCEPT !.pc = "createSession", !.user = u])
             [] OTHER                  -> Finish(r)
        /\ UNCHANGED <<db, sessions, logins, ahead, consumed>>

\* A new user is an administrator where there is no other.
CountForNewUser(r) ==
    /\ req[r].pc = "countAdmins"
    /\ Become(r, [req[r] EXCEPT !.pc = "insert",
                    !.role = IF CountGlobalAdmins = 0 THEN "global_admin" ELSE "member"])
    /\ UNCHANGED <<db, sessions, logins, ahead, consumed>>

\* The subject is unique: of two first logins of one person, one fails.
InsertUser(r) ==
    LET u == req[r].call.arg
    IN  /\ req[r].pc = "insert"
        /\ IF users[u].role = "none"
           THEN /\ users' = [users EXCEPT ![u] = [role |-> req[r].role, active |-> TRUE]]
                /\ Become(r, [req[r] EXCEPT !.pc = "createSession", !.user = u])
           ELSE Finish(r) /\ UNCHANGED users
        /\ UNCHANGED <<teams, member, keys, budgets, sessions, logins, ahead, consumed>>

CreateSession(r) ==
    /\ req[r].pc = "createSession"
    /\ CreateUISession(req[r].user)
    /\ Finish(r)
    /\ UNCHANGED <<db, logins, ahead, consumed>>

-------------------------------------------------------------------------------
\* A statement fails, the identity provider refuses, or the client leaves.
Abort(r) ==
    /\ req[r] # Idle
    /\ Finish(r)
    /\ UNCHANGED <<db, sessions, logins, ahead, consumed>>

\* Eight hours pass for a session, ten minutes for a login state.
Expire ==
    /\ \/ \E t \in Tokens : /\ sessions[t].state = "live"
                            /\ sessions' = [sessions EXCEPT ![t].state = "expired"]
                            /\ UNCHANGED logins
       \/ \E s \in LoginStates : /\ logins[s] = "live"
                                 /\ logins' = [logins EXCEPT ![s] = "expired"]
                                 /\ UNCHANGED sessions
    /\ UNCHANGED <<db, req, ahead, consumed>>

\* The maintenance loop deletes what has expired.
Cleanup ==
    /\ (\E t \in Tokens : sessions[t].state = "expired")
         \/ (\E s \in LoginStates : logins[s] = "expired")
    /\ sessions' = [t \in Tokens |-> IF sessions[t].state = "expired"
                                     THEN [sessions[t] EXCEPT !.state = "gone"] ELSE sessions[t]]
    /\ logins' = [s \in LoginStates |-> IF logins[s] = "expired" THEN "gone" ELSE logins[s]]
    /\ UNCHANGED <<db, req, ahead, consumed>>

-------------------------------------------------------------------------------
\* Between its read of the user and its write, a change of role or activity
\* relies on what it read.
Deciding(c) == c.pc \in {"count", "write"} /\ c.call.op \in GuardedOps

\* History: what a request could have seen, and whether two decisions met.
Remember ==
    /\ seen' = [r \in Requests |->
                 IF req'[r] = Idle THEN {}
                 ELSE seen[r] \cup {[users |-> users', member |-> member']}]
    /\ overlapped' = (overlapped \/ \E r, s \in Requests :
                                        r # s /\ Deciding(req'[r]) /\ Deciding(req'[s]))

AccessInit ==
    /\ \E d \in Databases :
         /\ users = d.users
         /\ teams = {d.member[u] : u \in Users} \ {None}
         /\ member = d.member
         /\ keys = d.keys
         /\ sessions = d.sessions
         /\ logins = d.logins
         /\ ahead = [requests |-> d.requests, calls |-> d.calls]
    /\ budgets = {}
    /\ req = [r \in Requests |-> Idle]
    /\ seen = [r \in Requests |-> {}]
    /\ consumed = [s \in LoginStates |-> 0]
    /\ overlapped = FALSE

RequestStep(r) ==
    \/ Arrive(r) \/ Validate(r) \/ LoadUser(r) \/ LoadTeam(r) \/ Route(r)
    \/ Load(r) \/ Count(r) \/ Check(r) \/ Write(r) \/ SetKeyScope(r) \/ DeleteUISessionsByUserID(r)
    \/ LoginHandler(r) \/ OIDCStartHandler(r) \/ SelectState(r) \/ DeleteState(r)
    \/ UpsertOIDCUser(r) \/ CountForNewUser(r) \/ InsertUser(r) \/ CreateSession(r)
    \/ Abort(r)

AccessNext ==
    /\ (\E r \in Requests : RequestStep(r)) \/ Expire \/ Cleanup
    /\ Remember

AccessSpec == AccessInit /\ [][AccessNext]_accessVars

-------------------------------------------------------------------------------
InHandler(c) == /\ c.pc \in {"load", "count", "check", "write", "scope", "revokeSessions"}
                /\ c.user # None

\* At some moment since request r arrived its user was active with the role.
HeldRole(r, role) == \E d \in seen[r] : /\ d.users[req[r].user].role = role
                                       /\ d.users[req[r].user].active
WasIn(r, u, t) == \E d \in seen[r] : d.member[u] = t

\* A user who was deactivated before a request arrived, and stays so, gets no
\* request past UISessionMiddleware - though a login that overtakes the
\* deactivation leaves a session behind, and removing sessions is best effort.
DeactivatedStayOut ==
    \A r \in Requests : InHandler(req[r]) => \E d \in seen[r] : d.users[req[r].user].active

\* What a handler is about to write, the caller was entitled to at some moment
\* of the request: the context's role and team and the target's team are read
\* at different moments, and may all be stale by now, but none is older than
\* the request.  And a login makes an administrator only when it found none.
AuthorityHeld ==
    \A r \in Requests :
        LET c == req[r]
            op == c.call.op
            owner == keys[c.call.target].owner
            SameTeam(u) == \E t \in Teams : WasIn(r, c.user, t) /\ WasIn(r, u, t)
        IN  /\ InHandler(c) /\ c.pc = "write" =>
                 \/ HeldRole(r, "global_admin")
                 \/ op = "createKey" \/ op = "logout"
                 \/ op = "revokeKey" /\ owner = c.user
                 \/ /\ HeldRole(r, "team_admin")
                    /\ \/ op \in {"revokeKey", "budgetKey"} /\ owner # None /\ SameTeam(owner)
                       \/ op = "deactivate" /\ SameTeam(c.call.target)
                       \/ /\ op \in {"addMember", "removeMember", "budgetTeam"}
                          /\ WasIn(r, c.user, c.call.target)
            /\ c.pc = "insert" /\ c.role = "global_admin" =>
                 \E d \in seen[r] : \A u \in Users : ~(d.users[u].role = "global_admin" /\ d.users[u].active)

\* The guards of ChangeRoleHandler, DeactivateUserHandler and the users commands
\* keep an active administrator in a database that has users, as long as no two of
\* them decide at the same time (the check and the write are two statements).
LastAdminKept ==
    ~overlapped /\ (\E u \in Users : users[u].role # "none") => CountGlobalAdmins > 0

\* A login state lets one callback through (ConsumeOIDCState on SQLite).
StateUsedOnce == \A s \in LoginStates : consumed[s] <= 1
===============================================================================
