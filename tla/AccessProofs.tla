---------------------------- MODULE AccessProofs ----------------------------
(***************************************************************************)
(* Theorems about Access, for every number of users, teams, keys, sessions *)
(* and concurrent requests, every database they start from and every call. *)
(***************************************************************************)
EXTENDS Access, FiniteSetTheorems, TLAPS

\* The calls that may arrive, and the contexts of requests.
AllCalls == UNION {d.calls : d \in Databases}

LoginPCs   == {"delete", "upsert", "countAdmins", "insert", "createSession"}
SessionPCs == {"session", "user", "team", "routed"}
HandlerPCs == {"load", "count", "check", "write", "scope", "revokeSessions"}
PCs == {"idle"} \cup PublicOps \cup LoginPCs \cup SessionPCs \cup HandlerPCs

Contexts == [pc : PCs, call : AllCalls \cup {None}, token : Tokens \cup {None},
             user : Users \cup {None}, role : Roles \cup {"none"}, team : Teams \cup {None}]

AccessTypeOK ==
    /\ users \in UserRows
    /\ member \in MemberRows
    /\ keys \in KeyRows
    /\ sessions \in SessionRows
    /\ logins \in LoginRows
    /\ req \in [Requests -> Contexts]
    /\ ahead \in [requests : Nat, calls : SUBSET AllCalls]
    /\ seen \in [Requests -> SUBSET [users : UserRows, member : MemberRows]]
    /\ consumed \in [LoginStates -> Nat]
    /\ overlapped \in BOOLEAN

\* Which call a request can be at which of its steps with.
RightPlace(c) ==
    /\ c.pc = "idle" <=> c = Idle
    /\ c.pc # "idle" => c.call \in AllCalls
    /\ c.pc \in SessionPCs \cup HandlerPCs => c.call.op \notin PublicOps
    /\ c.pc \in {"session", "user"} => c.token \in Tokens
    /\ c.pc \in {"user", "team", "createSession"} => c.user \in Users
    /\ c.pc \in LoginPCs \cup {"callback"} => c.call.op = "callback"
    /\ c.pc = "check" => c.call.op = "revokeKey"
    /\ c.pc = "count" => c.call.op \in GuardedOps
    /\ c.pc = "load" => c.call.op \in {"role", "deactivate", "removeMember", "deleteTeam"}
    /\ c.pc = "scope" => c.call.op = "createKey"
    /\ c.pc = "revokeSessions" => c.call.op = "deactivate"

Shape == AccessTypeOK /\ \A r \in Requests : RightPlace(req[r])

-----------------------------------------------------------------------------
(* Type correctness. *)

\* Every call the routers accept has the targets its operation needs.
LEMMA CallsWellFormed == \A call \in AllCalls : WellFormed(call)
  BY AccessAssumption DEF AllCalls

\* A goroutine between requests is a context.
LEMMA IdleContext == Idle \in Contexts /\ RightPlace(Idle) /\ Idle.pc = "idle" /\ Idle.user = None
  BY DEF Idle, Contexts, PCs, RightPlace, LoginPCs, SessionPCs, HandlerPCs, PublicOps

\* Where handlers start.
LEMMA FirstSteps ==
  ASSUME NEW op
  PROVE  /\ FirstStep(op) \in {"load", "check", "write"}
         /\ FirstStep(op) = "load" <=> op \in {"role", "deactivate", "removeMember", "deleteTeam"}
         /\ FirstStep(op) = "check" <=> op = "revokeKey"
  BY DEF FirstStep

\* A step gives a request another context.
LEMMA Becomes ==
  ASSUME AccessTypeOK, NEW r \in Requests, NEW c \in Contexts, Become(r, c)
  PROVE  /\ req' \in [Requests -> Contexts]
         /\ req'[r] = c
         /\ \A s \in Requests : s # r => req'[s] = req[s]
  BY DEF AccessTypeOK, Become

\* What a step of request r does to the contexts: its own is replaced by one
\* that is in the right place.
Moved(r) ==
    /\ req' \in [Requests -> Contexts]
    /\ RightPlace(req'[r])
    /\ \A s \in Requests : s # r => req'[s] = req[s]

\* It ends its handler, ...
LEMMA FinishMoves ==
  ASSUME AccessTypeOK, NEW r \in Requests, Finish(r)
  PROVE  Moved(r) /\ req'[r] = Idle
  BY Becomes, IdleContext DEF Finish, Moved

\* ... or goes on.
LEMMA GoToMoves ==
  ASSUME Shape, NEW r \in Requests, NEW pc \in PCs, GoTo(r, pc),
         RightPlace([req[r] EXCEPT !.pc = pc])
  PROVE  Moved(r) /\ req'[r] = [req[r] EXCEPT !.pc = pc]
  <1>1. [req[r] EXCEPT !.pc = pc] \in Contexts
    BY DEF Shape, AccessTypeOK, Contexts
  <1> QED BY <1>1, Becomes DEF GoTo, Moved, Shape

\* Every step of a request leaves it in the right place.
LEMMA ContextStep ==
  ASSUME Shape, NEW r \in Requests, RequestStep(r)
  PROVE  Moved(r)
  <1>0. /\ AccessTypeOK /\ RightPlace(req[r]) /\ req[r] \in Contexts
        /\ req[r].pc # "idle" => req[r].call \in AllCalls /\ WellFormed(req[r].call)
    BY CallsWellFormed DEF Shape, AccessTypeOK, RightPlace
  <1> DEFINE c == req[r]
  <1>1. ASSUME NEW pc \in PCs, GoTo(r, pc), RightPlace([c EXCEPT !.pc = pc]) PROVE Moved(r)
    BY <1>1, GoToMoves
  <1>2. ASSUME NEW d \in Contexts, Become(r, d), RightPlace(d) PROVE Moved(r)
    BY <1>0, <1>2, Becomes DEF Moved
  <1>3. ASSUME Finish(r) PROVE Moved(r)
    BY <1>0, <1>3, FinishMoves
  <1> USE DEF PCs, LoginPCs, SessionPCs, HandlerPCs, PublicOps
  <1>4. CASE Arrive(r)
    <2>1. PICK call \in ahead.calls :
            \/ /\ call.op \in PublicOps
               /\ Become(r, [Idle EXCEPT !.pc = call.op, !.call = call])
            \/ /\ call.op \notin PublicOps
               /\ \E t \in Tokens :
                    Become(r, [Idle EXCEPT !.pc = "session", !.call = call, !.token = t])
            \/ /\ call.op \in CliOps
               /\ Become(r, [Idle EXCEPT !.call = call, !.role = "global_admin",
                               !.pc = IF call.op \in {"deleteTeam", "revokeKey"}
                                      THEN "write" ELSE FirstStep(call.op)])
      BY <1>4 DEF Arrive
    <2>2. call \in AllCalls
      BY <1>0 DEF AccessTypeOK
    <2>3. ASSUME call.op \in PublicOps
          PROVE  LET d == [Idle EXCEPT !.pc = call.op, !.call = call]
                 IN  d \in Contexts /\ RightPlace(d)
      BY <2>2, <2>3 DEF Idle, Contexts, RightPlace
    <2>4. ASSUME NEW t \in Tokens, call.op \notin PublicOps
          PROVE  LET d == [Idle EXCEPT !.pc = "session", !.call = call, !.token = t]
                 IN  d \in Contexts /\ RightPlace(d)
      BY <2>2, <2>4 DEF Idle, Contexts, RightPlace
    <2>5. ASSUME NEW pc \in {"load", "check", "write"}, call.op \in CliOps,
                 pc = "load" => call.op \in {"role", "deactivate", "removeMember", "deleteTeam"},
                 pc = "check" => call.op = "revokeKey"
          PROVE  LET d == [Idle EXCEPT !.call = call, !.role = "global_admin", !.pc = pc]
                 IN  d \in Contexts /\ RightPlace(d)
      BY <2>2, <2>5 DEF Idle, Contexts, RightPlace, CliOps, Roles
    <2> QED BY <1>2, <2>1, <2>3, <2>4, <2>5, FirstSteps
  <1>5. CASE Validate(r)
    <2> DEFINE u == sessions[c.token].user
               d == [c EXCEPT !.user = u,
                              !.role = IF u = None THEN "global_admin" ELSE "none",
                              !.pc = IF u = None THEN "routed" ELSE "user"]
    <2>1. c.pc = "session" /\ (Become(r, d) \/ Finish(r))
      BY <1>5 DEF Validate
    <2>2. u \in Users \cup {None}
      BY <1>0, <2>1 DEF RightPlace, AccessTypeOK, SessionRows
    <2>3. d \in Contexts /\ RightPlace(d)
      BY <1>0, <2>1, <2>2, ZenonT(60) DEF Contexts, RightPlace, Roles, Idle
    <2> QED BY <1>2, <1>3, <2>1, <2>3
  <1>6. CASE LoadUser(r)
    <2> DEFINE d == [c EXCEPT !.role = users[c.user].role, !.pc = "team"]
    <2>1. c.pc = "user" /\ (Become(r, d) \/ Finish(r))
      BY <1>6 DEF LoadUser
    <2>2. users[c.user].role \in Roles \cup {"none"}
      BY <1>0, <2>1 DEF RightPlace, AccessTypeOK, UserRows
    <2>3. d \in Contexts /\ RightPlace(d)
      BY <1>0, <2>1, <2>2 DEF Contexts, RightPlace, Idle
    <2> QED BY <1>2, <1>3, <2>1, <2>3
  <1>7. CASE LoadTeam(r)
    <2>1. c.pc = "team"
      BY <1>7 DEF LoadTeam
    <2>2. PICK t \in {member[c.user], None} : Become(r, [c EXCEPT !.team = t, !.pc = "routed"])
      BY <1>7 DEF LoadTeam
    <2>3. t \in Teams \cup {None}
      BY <1>0, <2>1 DEF RightPlace, AccessTypeOK, MemberRows
    <2>4. LET d == [c EXCEPT !.team = t, !.pc = "routed"] IN d \in Contexts /\ RightPlace(d)
      BY <1>0, <2>1, <2>3 DEF Contexts, RightPlace, Idle
    <2> QED BY <1>2, <2>2, <2>4
  <1>8. CASE Route(r)
    <2>1. c.pc = "routed" /\ (GoTo(r, FirstStep(c.call.op)) \/ Finish(r))
      BY <1>8 DEF Route
    <2>2. FirstStep(c.call.op) \in PCs
      BY FirstSteps
    <2>3. RightPlace([c EXCEPT !.pc = FirstStep(c.call.op)])
      BY <1>0, <2>1, FirstSteps DEF Contexts, RightPlace, Idle
    <2> QED BY <1>1, <1>3, <2>1, <2>2, <2>3
  <1>9. CASE Load(r)
    <2>1. /\ c.pc = "load"
          /\ \/ Finish(r)
             \/ GoTo(r, "write")
             \/ c.call.op \in GuardedOps /\ GoTo(r, "count")
      BY <1>9 DEF Load
    <2>2. RightPlace([c EXCEPT !.pc = "write"])
      BY <1>0, <2>1 DEF Contexts, RightPlace, Idle
    <2>3. c.call.op \in GuardedOps => RightPlace([c EXCEPT !.pc = "count"])
      BY <1>0, <2>1 DEF Contexts, RightPlace, Idle
    <2> QED BY <1>1, <1>3, <2>1, <2>2, <2>3
  <1>10. CASE Count(r) \/ Check(r)
    <2>1. c.pc \in {"count", "check"} /\ (Finish(r) \/ GoTo(r, "write"))
      BY <1>10 DEF Count, Check
    <2>2. RightPlace([c EXCEPT !.pc = "write"])
      BY <1>0, <2>1 DEF Contexts, RightPlace, Idle
    <2> QED BY <1>1, <1>3, <2>1, <2>2
  <1>11. CASE Write(r)
    <2>1. /\ c.pc = "write"
          /\ \/ Finish(r)
             \/ c.call.op = "deactivate" /\ GoTo(r, "revokeSessions")
             \/ c.call.op = "createKey" /\ GoTo(r, "scope")
      BY <1>11 DEF Write, UpdateOIDCUserRole, SetOIDCUserActive, CreateTeam, RemoveUserFromTeam,
                   CreateKey, RevokeProxyKey, Logout, AssignUserToTeam, DeleteTeam, SetBudget
    <2>2. c.call.op = "deactivate" => RightPlace([c EXCEPT !.pc = "revokeSessions"])
      BY <1>0, <2>1 DEF Contexts, RightPlace, Idle
    <2>3. c.call.op = "createKey" => RightPlace([c EXCEPT !.pc = "scope"])
      BY <1>0, <2>1 DEF Contexts, RightPlace, Idle
    <2> QED BY <1>1, <1>3, <2>1, <2>2, <2>3
  <1>12. CASE \/ SetKeyScope(r) \/ DeleteUISessionsByUserID(r) \/ LoginHandler(r)
              \/ OIDCStartHandler(r) \/ CreateSession(r) \/ Abort(r)
    BY <1>3, <1>12 DEF SetKeyScope, DeleteUISessionsByUserID, LoginHandler, OIDCStartHandler,
                       CreateSession, Abort
  <1>13. CASE SelectState(r) \/ DeleteState(r)
    <2>1. \/ Finish(r)
          \/ c.pc = "callback" /\ GoTo(r, "delete")
          \/ c.pc = "delete" /\ GoTo(r, "upsert")
      BY <1>13 DEF SelectState, DeleteState
    <2>2. c.pc = "callback" => RightPlace([c EXCEPT !.pc = "delete"])
      BY <1>0 DEF Contexts, RightPlace, Idle
    <2>3. c.pc = "delete" => RightPlace([c EXCEPT !.pc = "upsert"])
      BY <1>0 DEF Contexts, RightPlace, Idle
    <2> QED BY <1>1, <1>3, <2>1, <2>2, <2>3
  <1>14. CASE UpsertOIDCUser(r) \/ CountForNewUser(r) \/ InsertUser(r)
    <2>1. /\ c.pc \in {"upsert", "countAdmins", "insert"}
          /\ \/ Finish(r)
             \/ GoTo(r, "countAdmins")
             \/ \E role \in Roles : Become(r, [c EXCEPT !.pc = "insert", !.role = role])
             \/ Become(r, [c EXCEPT !.pc = "createSession", !.user = c.call.arg])
      BY <1>14 DEF UpsertOIDCUser, CountForNewUser, InsertUser, Roles
    <2>2. c.call.op = "callback" /\ c.call.arg \in Users
      BY <1>0, <2>1 DEF RightPlace, WellFormed
    <2>3. RightPlace([c EXCEPT !.pc = "countAdmins"])
      BY <1>0, <2>1, <2>2 DEF Contexts, RightPlace, Idle
    <2>4. \A role \in Roles : LET d == [c EXCEPT !.pc = "insert", !.role = role]
                               IN  d \in Contexts /\ RightPlace(d)
      BY <1>0, <2>1, <2>2 DEF Contexts, RightPlace, Idle
    <2>5. LET d == [c EXCEPT !.pc = "createSession", !.user = c.call.arg]
          IN  d \in Contexts /\ RightPlace(d)
      BY <1>0, <2>1, <2>2 DEF Contexts, RightPlace, Idle
    <2> QED BY <1>1, <1>2, <1>3, <2>1, <2>3, <2>4, <2>5
  <1> QED BY <1>4, <1>5, <1>6, <1>7, <1>8, <1>9, <1>10, <1>11, <1>12, <1>13, <1>14 DEF RequestStep

\* How a step of request r may change the users.
UsersChange(r) ==
    LET c == req[r] IN
    \/ users' = users
    \/ /\ c.pc = "write" /\ c.call.op = "role"
       /\ users' = [users EXCEPT ![c.call.target].role = c.call.arg]
    \/ /\ c.pc = "write" /\ c.call.op = "deactivate" /\ users[c.call.target].role # "none"
       /\ users' = [users EXCEPT ![c.call.target].active = FALSE]
    \/ /\ c.pc = "write" /\ c.call.op = "reactivate" /\ users[c.call.target].role # "none"
       /\ users' = [users EXCEPT ![c.call.target].active = TRUE]
    \/ /\ c.pc = "insert" /\ users[c.call.arg].role = "none"
       /\ users' = [users EXCEPT ![c.call.arg] = [role |-> c.role, active |-> TRUE]]

\* The owner of a key that was created never changes.
KeysKept == \A k \in Keys : keys[k].state # "unused" =>
                keys'[k].state # "unused" /\ keys'[k].owner = keys[k].owner

\* What a step does to the users.
LEMMA UsersStep ==
  ASSUME Shape, NEW r \in Requests, RequestStep(r)
  PROVE  UsersChange(r)
  <1>1. CASE Write(r)
    BY <1>1 DEF Write, UsersChange, UpdateOIDCUserRole, SetOIDCUserActive, CreateTeam,
                RemoveUserFromTeam, CreateKey, RevokeProxyKey, Logout, AssignUserToTeam,
                DeleteTeam, SetBudget, db
  <1>2. CASE InsertUser(r)
    BY <1>2 DEF InsertUser, UsersChange
  <1>3. CASE ~Write(r) /\ ~InsertUser(r)
    BY <1>3 DEF RequestStep, UsersChange, Arrive, Validate, LoadUser, LoadTeam, Route, Load, Count,
                Check, SetKeyScope, DeleteUISessionsByUserID, LoginHandler, OIDCStartHandler,
                SelectState, DeleteState, UpsertOIDCUser, CountForNewUser, CreateSession, Abort, db
  <1> QED BY <1>1, <1>2, <1>3

\* The users keep their type, and nobody who has logged in is forgotten.
LEMMA UsersKept ==
  ASSUME Shape, NEW r \in Requests, UsersChange(r)
  PROVE  /\ users' \in UserRows
         /\ \A u \in Users : users[u].role # "none" => users'[u].role # "none"
  <1>0. users \in UserRows /\ req[r] \in Contexts /\ RightPlace(req[r])
    BY DEF Shape, AccessTypeOK
  <1>1. ASSUME req[r].pc # "idle" PROVE WellFormed(req[r].call)
    BY <1>0, <1>1, CallsWellFormed DEF RightPlace
  <1>2. "none" \notin Roles
    BY DEF Roles
  <1>3. ASSUME req[r].pc \in {"write", "insert"} PROVE WellFormed(req[r].call)
    BY <1>1, <1>3
  <1>4. req[r].role \in Roles \cup {"none"}
    BY <1>0 DEF Contexts
  <1>5. req[r].pc = "write" /\ req[r].call.op = "role" => req[r].call.arg \in Roles
    BY <1>3 DEF WellFormed
  <1>6. ASSUME NEW t, NEW role \in Roles, users' = [users EXCEPT ![t].role = role]
        PROVE  /\ users' \in UserRows
               /\ \A u \in Users : users[u].role # "none" => users'[u].role # "none"
    BY <1>0, <1>2, <1>6 DEF UserRows
  <1>7. ASSUME NEW t, NEW active \in BOOLEAN, users' = [users EXCEPT ![t].active = active]
        PROVE  /\ users' \in UserRows
               /\ \A u \in Users : users[u].role # "none" => users'[u].role # "none"
    BY <1>0, <1>7 DEF UserRows
  <1>8. ASSUME NEW t, users[t].role = "none",
               users' = [users EXCEPT ![t] = [role |-> req[r].role, active |-> TRUE]]
        PROVE  /\ users' \in UserRows
               /\ \A u \in Users : users[u].role # "none" => users'[u].role # "none"
    BY <1>0, <1>4, <1>8 DEF UserRows
  <1>9. CASE users' = users
    BY <1>0, <1>9
  <1> QED BY <1>5, <1>6, <1>7, <1>8, <1>9 DEF UsersChange

\* What a step does to teams' members, keys, sessions and login states.
LEMMA TablesStep ==
  ASSUME Shape, NEW r \in Requests, RequestStep(r)
  PROVE  /\ member' \in MemberRows
         /\ keys' \in KeyRows /\ KeysKept
         /\ sessions' \in SessionRows
         /\ ahead' \in [requests : Nat, calls : SUBSET AllCalls]
  <1>0. /\ member \in MemberRows /\ keys \in KeyRows /\ sessions \in SessionRows
        /\ ahead \in [requests : Nat, calls : SUBSET AllCalls]
        /\ req[r] \in Contexts /\ RightPlace(req[r])
        /\ req[r].pc # "idle" => WellFormed(req[r].call)
    BY CallsWellFormed DEF Shape, AccessTypeOK, RightPlace
  <1>1. member' \in MemberRows
    <2>1. CASE Write(r)
      <3>0. req[r].pc = "write" /\ WellFormed(req[r].call)
        BY <1>0, <2>1 DEF Write
      <3>1. \/ member' = member
            \/ \E t \in Teams \cup {None} : member' = [member EXCEPT ![req[r].call.arg] = t]
            \/ \E t \in Teams : member' = [u \in Users |-> IF member[u] = t THEN None ELSE member[u]]
        BY <2>1, <3>0 DEF Write, WellFormed, UpdateOIDCUserRole, SetOIDCUserActive, CreateTeam,
                RemoveUserFromTeam, CreateKey, RevokeProxyKey, Logout, AssignUserToTeam,
                DeleteTeam, SetBudget, db
      <3> QED BY <1>0, <3>1 DEF MemberRows
    <2>2. CASE ~Write(r)
      BY <1>0, <2>2 DEF RequestStep, Arrive, Validate, LoadUser, LoadTeam, Route, Load, Count,
                Check, SetKeyScope, DeleteUISessionsByUserID, LoginHandler, OIDCStartHandler,
                SelectState, DeleteState, UpsertOIDCUser, CountForNewUser, InsertUser,
                CreateSession, Abort, db
    <2> QED BY <2>1, <2>2
  <1>2. keys' \in KeyRows /\ KeysKept
    <2>1. CASE Write(r)
      <3>0. req[r].pc = "write" /\ WellFormed(req[r].call)
        BY <1>0, <2>1 DEF Write
      <3> DEFINE k == req[r].call.target
      <3>1. \/ keys' = keys
            \/ /\ keys[k].state = "unused"
               /\ keys' = [keys EXCEPT ![k] = [state |-> "active", owner |-> req[r].user, scoped |-> FALSE]]
            \/ keys' = [keys EXCEPT ![k].state = IF @ = "active" THEN "revoked" ELSE @]
        BY <2>1, <3>0 DEF Write, WellFormed, UpdateOIDCUserRole, SetOIDCUserActive, CreateTeam,
                RemoveUserFromTeam, CreateKey, RevokeProxyKey, Logout, AssignUserToTeam,
                DeleteTeam, SetBudget, db
      <3>2. req[r].user \in Users \cup {None}
        BY <1>0 DEF Contexts
      <3>3. ASSUME keys[k].state = "unused",
                   keys' = [keys EXCEPT ![k] = [state |-> "active", owner |-> req[r].user, scoped |-> FALSE]]
            PROVE  keys' \in KeyRows /\ KeysKept
        BY <1>0, <3>2, <3>3 DEF KeyRows, KeysKept
      <3>4. ASSUME keys' = [keys EXCEPT ![k].state = IF @ = "active" THEN "revoked" ELSE @]
            PROVE  keys' \in KeyRows /\ KeysKept
        <4> HIDE DEF k
        <4> QED BY <1>0, <3>4, ZenonT(60) DEF KeyRows, KeysKept
      <3> QED BY <1>0, <3>1, <3>3, <3>4 DEF KeysKept
    <2>2. CASE SetKeyScope(r)
      <3> DEFINE k == req[r].call.target
      <3>1. keys' = [keys EXCEPT ![k].scoped = TRUE]
        BY <2>2 DEF SetKeyScope
      <3> HIDE DEF k
      <3>2. keys' \in KeyRows
        BY <1>0, <3>1, ZenonT(60) DEF KeyRows
      <3>3. KeysKept
        BY <1>0, <3>1, ZenonT(60) DEF KeyRows, KeysKept
      <3> QED BY <3>2, <3>3
    <2>3. CASE ~Write(r) /\ ~SetKeyScope(r)
      <3>1. keys' = keys
        BY <1>0, <2>3 DEF RequestStep, Arrive, Validate, LoadUser, LoadTeam, Route, Load, Count,
                Check, DeleteUISessionsByUserID, LoginHandler, OIDCStartHandler,
                SelectState, DeleteState, UpsertOIDCUser, CountForNewUser, InsertUser,
                CreateSession, Abort, db
      <3> QED BY <1>0, <3>1 DEF KeysKept
    <2> QED BY <2>1, <2>2, <2>3
  <1>3. sessions' \in SessionRows
    <2>1. CASE Write(r)
      <3>1. \/ sessions' = sessions
            \/ sessions' = [sessions EXCEPT ![req[r].token].state = "gone"]
        BY <2>1 DEF Write, UpdateOIDCUserRole, SetOIDCUserActive, CreateTeam,
                RemoveUserFromTeam, CreateKey, RevokeProxyKey, Logout, AssignUserToTeam,
                DeleteTeam, SetBudget, db
      <3> QED BY <1>0, <3>1 DEF SessionRows, RowStates
    <2>2. CASE LoadUser(r) \/ DeleteUISessionsByUserID(r)
      BY <1>0, <2>2 DEF LoadUser, DeleteUISessionsByUserID, SessionRows, RowStates
    <2>3. CASE LoginHandler(r) \/ CreateSession(r)
      <3>1. PICK u \in Users \cup {None} : CreateUISession(u)
        BY <1>0, <2>3 DEF LoginHandler, CreateSession, Contexts
      <3> QED BY <1>0, <3>1 DEF CreateUISession, SessionRows, RowStates
    <2>4. CASE ~Write(r) /\ ~LoadUser(r) /\ ~DeleteUISessionsByUserID(r) /\ ~LoginHandler(r) /\ ~CreateSession(r)
      BY <1>0, <2>4 DEF RequestStep, Arrive, Validate, LoadTeam, Route, Load, Count,
                Check, SetKeyScope, OIDCStartHandler,
                SelectState, DeleteState, UpsertOIDCUser, CountForNewUser, InsertUser, Abort, db
    <2> QED BY <2>1, <2>2, <2>3, <2>4
  <1>4. ahead' \in [requests : Nat, calls : SUBSET AllCalls]
    <2>1. CASE Arrive(r)
      <3>1. ahead.requests > 0 /\ ahead' = [ahead EXCEPT !.requests = @ - 1]
        BY <2>1 DEF Arrive
      <3> QED BY <1>0, <3>1
    <2>2. CASE ~Arrive(r)
      BY <1>0, <2>2 DEF RequestStep, Validate, LoadUser, LoadTeam, Route, Load, Count,
                Check, Write, SetKeyScope, DeleteUISessionsByUserID, LoginHandler, OIDCStartHandler,
                SelectState, DeleteState, UpsertOIDCUser, CountForNewUser, InsertUser,
                CreateSession, Abort, db
    <2> QED BY <2>1, <2>2
  <1> QED BY <1>1, <1>2, <1>3, <1>4

\* A login state that is gone stays gone, and is gone once it was consumed; on
\* SQLite none is consumed that is gone.
LoginsKept ==
    /\ logins' \in LoginRows /\ consumed' \in [LoginStates -> Nat]
    /\ \A s \in LoginStates :
         /\ logins[s] = "gone" => logins'[s] = "gone"
         /\ \/ consumed'[s] = consumed[s]
            \/ /\ consumed'[s] = consumed[s] + 1
               /\ logins'[s] = "gone"
               /\ Backend = "sqlite" => logins[s] # "gone"

\* What a step does to the login states.
LEMMA LoginsStep ==
  ASSUME Shape, NEW r \in Requests, RequestStep(r)
  PROVE  LoginsKept
  <1>0. logins \in LoginRows /\ consumed \in [LoginStates -> Nat]
    BY DEF Shape, AccessTypeOK
  <1>1. CASE DeleteState(r)
    BY <1>0, <1>1 DEF DeleteState, LoginsKept, LoginRows, RowStates
  <1>2. CASE OIDCStartHandler(r)
    BY <1>0, <1>2 DEF OIDCStartHandler, LoginsKept, LoginRows, RowStates
  <1>3. CASE ~DeleteState(r) /\ ~OIDCStartHandler(r)
    <2>1. logins' = logins /\ consumed' = consumed
      BY <1>3 DEF RequestStep, Arrive, Validate, LoadUser, LoadTeam, Route, Load, Count,
                Check, Write, SetKeyScope, DeleteUISessionsByUserID, LoginHandler,
                SelectState, UpsertOIDCUser, CountForNewUser, InsertUser,
                CreateSession, Abort
    <2> QED BY <1>0, <2>1 DEF LoginsKept
  <1> QED BY <1>1, <1>2, <1>3

\* Time and the maintenance loop touch sessions and login states only.
LEMMA TimeStep ==
  ASSUME Shape, Expire \/ Cleanup
  PROVE  /\ UNCHANGED <<users, member, keys, req, ahead>>
         /\ sessions' \in SessionRows
         /\ LoginsKept
  <1>0. logins \in LoginRows /\ consumed \in [LoginStates -> Nat] /\ sessions \in SessionRows
    BY DEF Shape, AccessTypeOK
  <1>1. UNCHANGED <<users, member, keys, req, ahead, consumed>>
    BY DEF Expire, Cleanup, db
  <1>2. sessions' \in SessionRows
    BY <1>0 DEF Expire, Cleanup, SessionRows, RowStates
  <1>3. /\ logins' \in LoginRows
        /\ \A s \in LoginStates : logins[s] = "gone" => logins'[s] = "gone"
    BY <1>0 DEF Expire, Cleanup, LoginRows, RowStates
  <1> QED BY <1>0, <1>1, <1>2, <1>3 DEF LoginsKept

\* While a request runs, it remembers what it could have seen.
LEMMA SeenStep ==
  ASSUME Shape, Remember, users' \in UserRows, member' \in MemberRows
  PROVE  /\ seen' \in [Requests -> SUBSET [users : UserRows, member : MemberRows]]
         /\ overlapped' \in BOOLEAN
         /\ \A r \in Requests : req'[r].pc # "idle" =>
              seen'[r] = seen[r] \cup {[users |-> users', member |-> member']}
  <1>0. seen \in [Requests -> SUBSET [users : UserRows, member : MemberRows]]
    BY DEF Shape, AccessTypeOK
  <1>1. overlapped' \in BOOLEAN
    BY DEF Remember
  <1>2. [users |-> users', member |-> member'] \in [users : UserRows, member : MemberRows]
    OBVIOUS
  <1>3. seen' \in [Requests -> SUBSET [users : UserRows, member : MemberRows]]
    BY <1>0, <1>2 DEF Remember
  <1>4. ASSUME NEW r \in Requests, req'[r].pc # "idle"
        PROVE  seen'[r] = seen[r] \cup {[users |-> users', member |-> member']}
    <2>1. req'[r] # Idle
      BY <1>4, IdleContext
    <2> QED BY <2>1 DEF Remember
  <1> QED BY <1>1, <1>3, <1>4

\* Any step keeps every part of the state in its place.
LEMMA ShapeStep ==
  ASSUME Shape, [AccessNext]_accessVars
  PROVE  Shape'
  <1>1. ASSUME NEW r \in Requests, RequestStep(r), Remember PROVE Shape'
    <2>1. Moved(r) /\ LoginsKept
      BY <1>1, ContextStep, LoginsStep
    <2>2. users' \in UserRows
      BY <1>1, UsersStep, UsersKept
    <2>3. /\ member' \in MemberRows /\ keys' \in KeyRows /\ sessions' \in SessionRows
          /\ ahead' \in [requests : Nat, calls : SUBSET AllCalls]
      BY <1>1, TablesStep
    <2>4. /\ seen' \in [Requests -> SUBSET [users : UserRows, member : MemberRows]]
          /\ overlapped' \in BOOLEAN
      BY <1>1, <2>2, <2>3, SeenStep
    <2>5. AccessTypeOK'
      BY <2>1, <2>2, <2>3, <2>4 DEF AccessTypeOK, Moved, LoginsKept
    <2>6. \A s \in Requests : RightPlace(req'[s])
      BY <2>1 DEF Moved, Shape
    <2> QED BY <2>5, <2>6 DEF Shape, RightPlace
  <1>2. ASSUME Expire \/ Cleanup, Remember PROVE Shape'
    <2>1. /\ UNCHANGED <<users, member, keys, req, ahead>>
          /\ sessions' \in SessionRows
          /\ LoginsKept
      BY <1>2, TimeStep
    <2>2. /\ seen' \in [Requests -> SUBSET [users : UserRows, member : MemberRows]]
          /\ overlapped' \in BOOLEAN
      BY <1>2, <2>1, SeenStep DEF Shape, AccessTypeOK
    <2> QED BY <2>1, <2>2 DEF Shape, AccessTypeOK, LoginsKept, RightPlace
  <1>3. CASE UNCHANGED accessVars
    BY <1>3 DEF accessVars, db, Shape, AccessTypeOK, RightPlace
  <1> QED BY <1>1, <1>2, <1>3 DEF AccessNext

\* It is so initially.
LEMMA ShapeInit == AccessInit => Shape
  <1> SUFFICES ASSUME AccessInit PROVE Shape
    OBVIOUS
  <1>1. PICK d \in Databases :
          /\ users = d.users /\ member = d.member /\ keys = d.keys
          /\ sessions = d.sessions /\ logins = d.logins
          /\ ahead = [requests |-> d.requests, calls |-> d.calls]
    BY DEF AccessInit
  <1>2. ahead \in [requests : Nat, calls : SUBSET AllCalls]
    BY <1>1, AccessAssumption DEF AllCalls
  <1>3. /\ users \in UserRows /\ member \in MemberRows /\ keys \in KeyRows
        /\ sessions \in SessionRows /\ logins \in LoginRows
    BY <1>1, AccessAssumption
  <1>4. /\ req \in [Requests -> Contexts]
        /\ \A r \in Requests : RightPlace(req[r])
    BY IdleContext DEF AccessInit
  <1>5. /\ seen \in [Requests -> SUBSET [users : UserRows, member : MemberRows]]
        /\ consumed \in [LoginStates -> Nat]
        /\ overlapped \in BOOLEAN
    BY DEF AccessInit
  <1> QED BY <1>2, <1>3, <1>4, <1>5 DEF Shape, AccessTypeOK

\* Every table and every request keeps its type, and a request is only ever at
\* a step that its route leads to.
THEOREM AccessShape == AccessSpec => []Shape
  <1>1. Shape /\ [AccessNext]_accessVars => Shape'
    BY ShapeStep
  <1> QED BY <1>1, ShapeInit, PTL DEF AccessSpec

-----------------------------------------------------------------------------
(* Login states. *)

\* What was consumed is gone.
ConsumedGone == \A s \in LoginStates : consumed[s] <= 1 /\ (consumed[s] = 1 => logins[s] = "gone")

\* On SQLite, where the transaction of ConsumeOIDCState fails if another one
\* has deleted the row meanwhile, a login state lets one callback through,
\* however many callbacks with it are under way.
THEOREM LoginStateUsedOnce ==
  ASSUME Backend = "sqlite"
  PROVE  AccessSpec => []StateUsedOnce
  <1>1. AccessInit => ConsumedGone
    BY DEF AccessInit, ConsumedGone
  <1>2. Shape /\ ConsumedGone /\ [AccessNext]_accessVars => ConsumedGone'
    <2> SUFFICES ASSUME Shape, ConsumedGone, [AccessNext]_accessVars PROVE ConsumedGone'
      OBVIOUS
    <2>1. CASE LoginsKept
      BY <2>1 DEF LoginsKept, ConsumedGone, Shape, AccessTypeOK
    <2>2. CASE UNCHANGED accessVars
      BY <2>2 DEF accessVars, ConsumedGone
    <2>3. AccessNext => LoginsKept
      BY LoginsStep, TimeStep DEF AccessNext
    <2> QED BY <2>1, <2>2, <2>3
  <1>3. ConsumedGone => StateUsedOnce
    BY DEF ConsumedGone, StateUsedOnce
  <1> QED BY <1>1, <1>2, <1>3, AccessShape, PTL DEF AccessSpec

-----------------------------------------------------------------------------
(* Authority. *)

\* The request has passed the check of its session's user.
PastUser(c) == c.user # None /\ c.pc \in {"team", "routed"} \cup HandlerPCs

\* Why the caller may do what request r asks for: AuthorityHeld, with keys that
\* exist, so that their owners are settled.
SameTeamAs(r, u) == \E t \in Teams : WasIn(r, req[r].user, t) /\ WasIn(r, u, t)

Entitled(r) ==
    LET c == req[r]
        op == c.call.op
        k == keys[c.call.target]
    IN  \/ HeldRole(r, "global_admin")
        \/ op \in {"createKey", "logout"}
        \/ op = "revokeKey" /\ k.state # "unused" /\ k.owner = c.user
        \/ /\ HeldRole(r, "team_admin")
           /\ \/ /\ op \in {"revokeKey", "budgetKey"}
                 /\ k.state # "unused" /\ k.owner # None /\ SameTeamAs(r, k.owner)
              \/ op = "deactivate" /\ SameTeamAs(r, c.call.target)
              \/ op \in {"addMember", "removeMember", "budgetTeam"} /\ WasIn(r, c.user, c.call.target)

NoAdminSeen(r) ==
    \E d \in seen[r] : \A u \in Users : ~(d.users[u].role = "global_admin" /\ d.users[u].active)

\* The context of a request was read since it arrived, and what its route
\* checked held at some moment since then.
Evidence(r) ==
    LET c == req[r] IN
    /\ PastUser(c) => HeldRole(r, c.role)
    /\ PastUser(c) /\ c.pc # "team" /\ c.team # None => WasIn(r, c.user, c.team)
    /\ PastUser(c) /\ c.pc \in {"load", "count", "write"} => Entitled(r)
    /\ c.pc = "insert" /\ c.role = "global_admin" => NoAdminSeen(r)

\* What a request has seen it has seen for good, and the owner of a key stays.
LEMMA EvidenceLasts ==
  ASSUME Shape, NEW s \in Requests, KeysKept, seen[s] \subseteq seen'[s],
         req'[s].user = req[s].user, req'[s].call = req[s].call, req[s].pc # "idle"
  PROVE  /\ \A role : HeldRole(s, role) => HeldRole(s, role)'
         /\ \A u, t : WasIn(s, u, t) => WasIn(s, u, t)'
         /\ \A u : SameTeamAs(s, u) => SameTeamAs(s, u)'
         /\ Entitled(s) => Entitled(s)'
         /\ NoAdminSeen(s) => NoAdminSeen(s)'
  <1>0. WellFormed(req[s].call)
    BY CallsWellFormed DEF Shape, RightPlace
  <1>1. \A role : HeldRole(s, role) => HeldRole(s, role)'
    BY DEF HeldRole
  <1>2. \A u, t : WasIn(s, u, t) => WasIn(s, u, t)'
    BY DEF WasIn
  <1>3. \A u : SameTeamAs(s, u) => SameTeamAs(s, u)'
    BY <1>2 DEF SameTeamAs
  <1>4. NoAdminSeen(s) => NoAdminSeen(s)'
    BY DEF NoAdminSeen
  <1>5. ASSUME Entitled(s) PROVE Entitled(s)'
    <2> DEFINE k == req[s].call.target
    <2>1. ASSUME req[s].call.op \in {"revokeKey", "budgetKey"}, keys[k].state # "unused"
          PROVE  keys'[k].state # "unused" /\ keys'[k].owner = keys[k].owner
      BY <1>0, <2>1 DEF KeysKept, WellFormed
    <2> QED BY <1>1, <1>2, <1>3, <1>5, <2>1 DEF Entitled
  <1> QED BY <1>1, <1>2, <1>3, <1>4, <1>5

\* Evidence about a request that does not move, or ends, needs no new look.
LEMMA EvidenceAtRest ==
  ASSUME Shape, NEW s \in Requests, Evidence(s), KeysKept,
         req'[s].pc # "idle" => seen[s] \subseteq seen'[s],
         req'[s] = req[s]
  PROVE  Evidence(s)'
  <1>1. CASE req[s].pc = "idle"
    BY <1>1 DEF Evidence, PastUser, HandlerPCs
  <1>2. CASE req[s].pc # "idle"
    BY <1>2, EvidenceLasts DEF Evidence, PastUser
  <1> QED BY <1>1, <1>2

\* A request that leaves its handler, or is not past its session, has nothing
\* to show.
LEMMA NoEvidenceNeeded ==
  ASSUME NEW s \in Requests, ~PastUser(req'[s]), req'[s].pc # "insert"
  PROVE  Evidence(s)'
  BY DEF Evidence, PastUser

\* A request that goes on in its handler keeps what it can show.
LEMMA EvidenceGoesOn ==
  ASSUME Shape, NEW r \in Requests, Evidence(r), KeysKept, seen[r] \subseteq seen'[r],
         NEW pc \in HandlerPCs \cup {"team", "routed"}, PastUser(req[r]), req[r].pc # "team",
         req'[r] = [req[r] EXCEPT !.pc = pc],
         pc \in {"load", "count", "write"} => Entitled(r)
  PROVE  Evidence(r)'
  <1>1. /\ req'[r].pc = pc /\ req'[r].user = req[r].user /\ req'[r].call = req[r].call
        /\ req'[r].role = req[r].role /\ req'[r].team = req[r].team
        /\ req[r].pc # "idle" /\ pc # "insert"
    BY DEF Shape, AccessTypeOK, Contexts, PastUser, HandlerPCs
  <1>2. HeldRole(r, req[r].role)'
    <2>1. HeldRole(r, req[r].role)
      BY DEF Evidence
    <2>2. \A role : HeldRole(r, role) => HeldRole(r, role)'
      BY <1>1, EvidenceLasts
    <2> QED BY <1>1, <2>1, <2>2 DEF HeldRole
  <1>3. req[r].team # None => WasIn(r, req[r].user, req[r].team)'
    <2>1. req[r].team # None => WasIn(r, req[r].user, req[r].team)
      BY DEF Evidence
    <2>2. \A u, t : WasIn(r, u, t) => WasIn(r, u, t)'
      BY <1>1, EvidenceLasts
    <2> QED BY <1>1, <2>1, <2>2 DEF WasIn
  <1>4. Entitled(r) => Entitled(r)'
    BY <1>1, EvidenceLasts
  <1> QED BY <1>1, <1>2, <1>3, <1>4 DEF Evidence

\* A running request has seen the tables as they are.
SeenNow(r) == req[r].pc # "idle" => [users |-> users, member |-> member] \in seen[r]

\* The keys a session sees are active, and its own or its team's unless it is
\* an administrator's.
LEMMA VisibleKeys ==
  ASSUME NEW c, NEW k \in listKeysForSession(c)
  PROVE  /\ k \in Keys /\ keys[k].state = "active"
         /\ \/ c.role = "global_admin"
            \/ c.role = "team_admin" /\ c.team # None /\ keys[k].owner # None /\ member[keys[k].owner] = c.team
            \/ ~(c.role = "team_admin" /\ c.team # None) /\ keys[k].owner = c.user
  <1>1. \/ buildScopeParams(c) = "all" /\ c.role = "global_admin"
        \/ buildScopeParams(c) = "team" /\ c.role = "team_admin" /\ c.team # None
        \/ buildScopeParams(c) = "user" /\ ~(c.role = "team_admin" /\ c.team # None)
    BY DEF buildScopeParams
  <1>2. /\ k \in Keys /\ keys[k].state = "active"
        /\ buildScopeParams(c) = "team" => keys[k].owner # None /\ member[keys[k].owner] = c.team
        /\ buildScopeParams(c) = "user" => keys[k].owner = c.user
    BY DEF listKeysForSession
  <1> QED BY <1>1, <1>2

\* The team that a scoped route is about.
LEMMA TargetTeams ==
  ASSUME NEW c
  PROVE  /\ c.call.op = "deactivate" => TargetTeam(c) = member[c.call.target]
         /\ c.call.op = "budgetKey" /\ TargetTeam(c) # None => c.call.target \in listKeysForSession(c)
         /\ c.call.op \in {"addMember", "removeMember", "budgetTeam"} => TargetTeam(c) = c.call.target
  BY DEF TargetTeam

\* What a route's checks mean.
LEMMA RouteChecks ==
  ASSUME NEW r \in Requests, Route(r), req'[r].pc # "idle", Shape
  PROVE  /\ req[r].pc = "routed"
         /\ GoTo(r, FirstStep(req[r].call.op))
         /\ req[r].call.op \in AdminOps => req[r].role = "global_admin"
         /\ req[r].call.op \in ScopedOps =>
              \/ req[r].role = "global_admin"
              \/ /\ req[r].role = "team_admin" /\ req[r].team # None
                 /\ req[r].team = TargetTeam(req[r])
  <1>1. ~Finish(r)
    BY FinishMoves, IdleContext DEF Shape
  <1>2. AdminOps \cap ScopedOps = {}
    BY DEF AdminOps, ScopedOps
  <1> QED BY <1>1, <1>2 DEF Route, RequireGlobalAdmin, RequireAdminOrTeamAdmin, RequireTeamScope

\* A caller is entitled to change the keys its session sees.
LEMMA VisibleKeyEntitles ==
  ASSUME Shape, NEW r \in Requests, Evidence(r), SeenNow(r), PastUser(req[r]), req[r].pc # "team",
         req[r].call.target \in listKeysForSession(req[r]),
         \/ req[r].call.op = "revokeKey"
         \/ req[r].call.op = "budgetKey" /\ req[r].role = "team_admin" /\ req[r].team # None
  PROVE  Entitled(r)
  <1> DEFINE c == req[r]
             k == c.call.target
  <1>0. /\ c \in Contexts /\ keys \in KeyRows
        /\ HeldRole(r, c.role)
        /\ c.team # None => WasIn(r, c.user, c.team)
        /\ [users |-> users, member |-> member] \in seen[r]
    BY DEF Shape, AccessTypeOK, Evidence, SeenNow, PastUser, HandlerPCs
  <1>1. /\ k \in Keys /\ keys[k].state # "unused"
        /\ \/ c.role = "global_admin"
           \/ /\ c.role = "team_admin" /\ c.team # None
              /\ keys[k].owner # None /\ member[keys[k].owner] = c.team
           \/ ~(c.role = "team_admin" /\ c.team # None) /\ keys[k].owner = c.user
    BY VisibleKeys
  <1>2. CASE c.role = "global_admin"
    BY <1>0, <1>2 DEF Entitled
  <1>3. CASE /\ c.role = "team_admin" /\ c.team # None
             /\ keys[k].owner # None /\ member[keys[k].owner] = c.team
    <2>1. SameTeamAs(r, keys[k].owner)
      BY <1>0, <1>3 DEF SameTeamAs, WasIn, Contexts
    <2> QED BY <1>0, <1>1, <1>3, <2>1 DEF Entitled
  <1>4. CASE ~(c.role = "team_admin" /\ c.team # None) /\ keys[k].owner = c.user
    BY <1>1, <1>4 DEF Entitled
  <1> QED BY <1>1, <1>2, <1>3, <1>4

\* Passing the checks of a route entitles the caller.
LEMMA RouteEntitles ==
  ASSUME Shape, NEW r \in Requests, Evidence(r), SeenNow(r), PastUser(req[r]),
         Route(r), req'[r].pc # "idle", req[r].call.op # "revokeKey"
  PROVE  Entitled(r)
  <1> DEFINE c == req[r]
  <1>0. /\ c.pc = "routed" /\ c \in Contexts /\ WellFormed(c.call) /\ c.call.op \notin PublicOps
        /\ HeldRole(r, c.role)
        /\ c.team # None => WasIn(r, c.user, c.team)
        /\ [users |-> users, member |-> member] \in seen[r]
    BY RouteChecks, CallsWellFormed
       DEF Shape, AccessTypeOK, RightPlace, Evidence, SeenNow, SessionPCs
  <1>1. CASE c.role = "global_admin"
    BY <1>0, <1>1 DEF Entitled
  <1>2. CASE c.call.op \in {"createKey", "logout"}
    BY <1>2 DEF Entitled
  <1>3. CASE c.role # "global_admin" /\ c.call.op \in ScopedOps
    <2>1. c.role = "team_admin" /\ c.team \in Teams /\ c.team # None /\ c.team = TargetTeam(c)
      BY <1>0, <1>3, RouteChecks DEF Contexts
    <2>2. \A u \in Users : member[u] = c.team => SameTeamAs(r, u)
      BY <1>0, <2>1 DEF SameTeamAs, WasIn
    <2>3. CASE c.call.op = "deactivate"
      <3>1. SameTeamAs(r, c.call.target)
        BY <1>0, <2>1, <2>2, <2>3, TargetTeams DEF WellFormed
      <3> QED BY <1>0, <2>1, <2>3, <3>1 DEF Entitled
    <2>4. CASE c.call.op = "budgetKey"
      <3>1. c.call.target \in listKeysForSession(c)
        BY <2>1, <2>4, TargetTeams
      <3> QED BY <1>0, <2>1, <2>4, <3>1, VisibleKeyEntitles DEF Entitled, PastUser
    <2>5. CASE c.call.op \in {"addMember", "removeMember", "budgetTeam"}
      BY <1>0, <2>1, <2>5, TargetTeams DEF Entitled
    <2> QED BY <1>3, <2>3, <2>4, <2>5 DEF ScopedOps
  <1>4. c.call.op \in AdminOps \cup ScopedOps \cup KeyOps
    BY <1>0 DEF WellFormed
  <1> QED BY <1>0, <1>1, <1>2, <1>3, <1>4, RouteChecks DEF KeyOps

\* A step of a request keeps its own evidence.
LEMMA EvidenceOwnStep ==
  ASSUME Shape, NEW r \in Requests, Evidence(r), SeenNow(r), SeenNow(r)', KeysKept,
         req'[r].pc # "idle" => seen[r] \subseteq seen'[r],
         RequestStep(r)
  PROVE  Evidence(r)'
  <1> DEFINE c == req[r]
  <1>0. c \in Contexts /\ RightPlace(c) /\ AccessTypeOK
    BY DEF Shape, AccessTypeOK
  <1>1. ASSUME Finish(r) PROVE Evidence(r)'
    <2>1. req'[r].pc = "idle"
      BY <1>0, <1>1, FinishMoves, IdleContext
    <2> QED BY <2>1, NoEvidenceNeeded DEF PastUser, HandlerPCs
  <1>2. ASSUME NEW pc \in PCs, GoTo(r, pc)
        PROVE  req'[r] = [c EXCEPT !.pc = pc] /\ req'[r].pc = pc /\ req'[r].user = c.user
    BY <1>0, <1>2 DEF GoTo, Become, AccessTypeOK, Contexts
  <1> USE DEF PCs, LoginPCs, SessionPCs, HandlerPCs, PublicOps
  <1>3. ASSUME NEW pc \in HandlerPCs, GoTo(r, pc), c.pc \in {"routed"} \cup HandlerPCs,
               PastUser(c) /\ pc \in {"load", "count", "write"} => Entitled(r)
        PROVE  Evidence(r)'
    <2>1. req'[r] = [c EXCEPT !.pc = pc] /\ req'[r].pc = pc /\ req'[r].user = c.user
      BY <1>2, <1>3
    <2>2. CASE c.user # None
      BY <1>3, <2>1, <2>2, EvidenceGoesOn DEF PastUser
    <2>3. CASE c.user = None
      BY <1>3, <2>1, <2>3, NoEvidenceNeeded DEF PastUser
    <2> QED BY <2>2, <2>3
  <1>4. ASSUME NEW pc \in {"delete", "upsert", "countAdmins"}, GoTo(r, pc) PROVE Evidence(r)'
    BY <1>2, <1>4, NoEvidenceNeeded DEF PastUser
  <1>5. CASE Arrive(r)
    <2>1. PICK call \in ahead.calls :
            \/ /\ call.op \in PublicOps
               /\ Become(r, [Idle EXCEPT !.pc = call.op, !.call = call])
            \/ \E t \in Tokens :
                    Become(r, [Idle EXCEPT !.pc = "session", !.call = call, !.token = t])
            \/ \E pc \in {"load", "check", "write"} :
                    Become(r, [Idle EXCEPT !.call = call, !.role = "global_admin", !.pc = pc])
      <3>1. \A op : FirstStep(op) \in {"load", "check", "write"}
        BY FirstSteps
      <3> QED BY <1>5, <3>1 DEF Arrive
    <2>2. \A d : Become(r, d) => req'[r] = d
      BY <1>0 DEF Become, AccessTypeOK
    <2>3. \/ req'[r].pc \in PublicOps \cup {"session"}
          \/ req'[r].pc \in HandlerPCs /\ req'[r].user = None
      BY <2>1, <2>2 DEF Idle
    <2> QED BY <2>3, NoEvidenceNeeded DEF PastUser
  <1>6. CASE Validate(r)
    <2> DEFINE u == sessions[c.token].user
    <2>1. \/ Finish(r)
          \/ Become(r, [c EXCEPT !.user = u,
                                 !.role = IF u = None THEN "global_admin" ELSE "none",
                                 !.pc = IF u = None THEN "routed" ELSE "user"])
      BY <1>6 DEF Validate
    <2>2. \A d : Become(r, d) => req'[r] = d
      BY <1>0 DEF Become, AccessTypeOK
    <2> HIDE DEF u
    <2>3. \/ Finish(r)
          \/ req'[r].pc = "user"
          \/ req'[r].pc = "routed" /\ req'[r].user = None
      BY <1>0, <2>1, <2>2 DEF Contexts
    <2> QED BY <1>1, <2>3, NoEvidenceNeeded DEF PastUser
  <1>7. CASE LoadUser(r)
    <2>1. CASE Finish(r)
      BY <1>1, <2>1
    <2>2. CASE ~Finish(r)
      <3>1. /\ users[c.user].active /\ users' = users /\ member' = member
            /\ req'[r] = [c EXCEPT !.role = users[c.user].role, !.pc = "team"]
        BY <1>0, <1>7, <2>2 DEF LoadUser, Become, AccessTypeOK, db
      <3>2. req'[r].pc = "team" /\ req'[r].user = c.user /\ req'[r].role = users[c.user].role
        BY <1>0, <3>1 DEF Contexts
      <3>3. [users |-> users, member |-> member] \in seen'[r]
        BY <3>1, <3>2 DEF SeenNow
      <3>4. HeldRole(r, req[r].role)'
        BY <3>1, <3>2, <3>3 DEF HeldRole
      <3> QED BY <3>2, <3>4 DEF Evidence
    <2> QED BY <2>1, <2>2
  <1>8. CASE LoadTeam(r)
    <2>1. PICK t \in {member[c.user], None} : Become(r, [c EXCEPT !.team = t, !.pc = "routed"])
      BY <1>8 DEF LoadTeam
    <2>2. /\ req'[r].pc = "routed" /\ req'[r].user = c.user /\ req'[r].role = c.role
          /\ req'[r].team = t /\ req'[r].call = c.call /\ c.pc = "team" /\ c.user \in Users
          /\ users' = users /\ member' = member
      BY <1>0, <1>8, <2>1 DEF LoadTeam, Become, AccessTypeOK, Contexts, RightPlace, db
    <2>3. HeldRole(r, c.role) /\ \A role : HeldRole(r, role) => HeldRole(r, role)'
      BY <2>2, EvidenceLasts, AccessAssumption DEF Evidence, PastUser
    <2>4. HeldRole(r, req[r].role)'
      BY <2>2, <2>3 DEF HeldRole
    <2>5. t # None => WasIn(r, req[r].user, req[r].team)'
      BY <2>1, <2>2 DEF SeenNow, WasIn
    <2> QED BY <2>2, <2>4, <2>5 DEF Evidence
  <1>9. CASE Route(r)
    <2>1. CASE Finish(r)
      BY <1>1, <2>1
    <2>2. CASE ~Finish(r)
      <3>1. GoTo(r, FirstStep(c.call.op)) /\ c.pc = "routed"
        BY <1>9, <2>2 DEF Route
      <3>2. req'[r].pc = FirstStep(c.call.op) /\ FirstStep(c.call.op) \in HandlerPCs
        BY <1>2, <3>1, FirstSteps
      <3>3. PastUser(c) /\ FirstStep(c.call.op) # "check" => Entitled(r)
        BY <1>9, <3>2, FirstSteps, RouteEntitles
      <3> QED BY <1>3, <3>1, <3>2, <3>3
    <2> QED BY <2>1, <2>2
  <1>10. CASE Load(r) \/ Count(r)
    <2>1. /\ c.pc \in {"load", "count"}
          /\ Finish(r) \/ GoTo(r, "count") \/ GoTo(r, "write")
      BY <1>10 DEF Load, Count
    <2>2. PastUser(c) => Entitled(r)
      BY <2>1 DEF Evidence
    <2> QED BY <1>1, <1>3, <2>1, <2>2
  <1>11. CASE Check(r)
    <2>1. CASE Finish(r)
      BY <1>1, <2>1
    <2>2. CASE ~Finish(r)
      <3>1. c.pc = "check" /\ GoTo(r, "write") /\ canMutateKey(c, c.call.target)
        BY <1>11, <2>2 DEF Check
      <3>2. ASSUME PastUser(c) PROVE Entitled(r)
        <4>1. CASE c.role = "global_admin"
          BY <3>2, <4>1 DEF Evidence, Entitled
        <4>2. CASE c.call.target \in listKeysForSession(c)
          BY <1>0, <3>1, <3>2, <4>2, VisibleKeyEntitles DEF RightPlace
        <4> QED BY <3>1, <4>1, <4>2 DEF canMutateKey
      <3> QED BY <1>3, <3>1, <3>2
    <2> QED BY <2>1, <2>2
  <1>12. CASE Write(r)
    <2>1. /\ c.pc = "write"
          /\ Finish(r) \/ GoTo(r, "revokeSessions") \/ GoTo(r, "scope")
      BY <1>12 DEF Write, UpdateOIDCUserRole, SetOIDCUserActive, CreateTeam, RemoveUserFromTeam,
                   CreateKey, RevokeProxyKey, Logout, AssignUserToTeam, DeleteTeam, SetBudget
    <2> QED BY <1>1, <1>3, <2>1
  <1>13. CASE CountForNewUser(r)
    <2>1. /\ users' = users /\ member' = member
          /\ req'[r] = [c EXCEPT !.pc = "insert",
                           !.role = IF CountGlobalAdmins = 0 THEN "global_admin" ELSE "member"]
      BY <1>0, <1>13 DEF CountForNewUser, Become, AccessTypeOK, db
    <2>2. /\ req'[r].pc = "insert"
          /\ req'[r].role = IF CountGlobalAdmins = 0 THEN "global_admin" ELSE "member"
      BY <1>0, <2>1 DEF Contexts
    <2>3. ASSUME CountGlobalAdmins = 0
          PROVE  \A u \in Users : ~(users[u].role = "global_admin" /\ users[u].active)
      <3> DEFINE A == {u \in Users : users[u].role = "global_admin" /\ users[u].active}
      <3>1. IsFiniteSet(A)
        BY FS_Subset, AccessAssumption
      <3>2. A = {}
        BY <2>3, <3>1, FS_EmptySet DEF CountGlobalAdmins
      <3> QED BY <3>2
    <2>4. CountGlobalAdmins = 0 => NoAdminSeen(r)'
      BY <2>1, <2>2, <2>3 DEF NoAdminSeen, SeenNow
    <2> QED BY <2>2, <2>4 DEF Evidence, PastUser
  <1>14. CASE SelectState(r) \/ DeleteState(r) \/ UpsertOIDCUser(r) \/ InsertUser(r)
    <2>1. \/ Finish(r)
          \/ GoTo(r, "delete") \/ GoTo(r, "upsert") \/ GoTo(r, "countAdmins")
          \/ Become(r, [c EXCEPT !.pc = "createSession", !.user = c.call.arg])
      BY <1>14 DEF SelectState, DeleteState, UpsertOIDCUser, InsertUser
    <2>2. ASSUME Become(r, [c EXCEPT !.pc = "createSession", !.user = c.call.arg])
          PROVE  req'[r].pc = "createSession"
      BY <1>0, <2>2 DEF Become, AccessTypeOK, Contexts
    <2> QED BY <1>1, <1>4, <2>1, <2>2, NoEvidenceNeeded DEF PastUser
  <1>15. CASE \/ SetKeyScope(r) \/ DeleteUISessionsByUserID(r) \/ LoginHandler(r)
              \/ OIDCStartHandler(r) \/ CreateSession(r) \/ Abort(r)
    BY <1>1, <1>15 DEF SetKeyScope, DeleteUISessionsByUserID, LoginHandler, OIDCStartHandler,
                       CreateSession, Abort
  <1> QED BY <1>5, <1>6, <1>7, <1>8, <1>9, <1>10, <1>11, <1>12, <1>13, <1>14, <1>15 DEF RequestStep

\* The evidence, of all requests.
AuthorityInv == \A r \in Requests : Evidence(r) /\ SeenNow(r)

\* Every step keeps it.
LEMMA AuthorityStep ==
  ASSUME Shape, AuthorityInv, [AccessNext]_accessVars
  PROVE  AuthorityInv'
  <1>1. ASSUME NEW s \in Requests, Remember,
               users' \in UserRows, member' \in MemberRows
        PROVE  /\ SeenNow(s)'
               /\ req'[s].pc # "idle" => seen[s] \subseteq seen'[s]
    BY <1>1, SeenStep DEF SeenNow
  <1>2. ASSUME NEW r \in Requests, RequestStep(r), Remember PROVE AuthorityInv'
    <2>1. users' \in UserRows /\ member' \in MemberRows /\ KeysKept
      BY <1>2, UsersStep, UsersKept, TablesStep
    <2>2. ASSUME NEW s \in Requests PROVE Evidence(s)'
      <3>1. CASE s = r
        BY <1>1, <1>2, <2>1, <3>1, EvidenceOwnStep DEF AuthorityInv
      <3>2. CASE s # r
        <4>1. req'[s] = req[s]
          BY <1>2, <3>2, ContextStep DEF Moved
        <4> QED BY <1>1, <1>2, <2>1, <4>1, EvidenceAtRest DEF AuthorityInv
      <3> QED BY <3>1, <3>2
    <2> QED BY <1>1, <1>2, <2>1, <2>2 DEF AuthorityInv
  <1>3. ASSUME Expire \/ Cleanup, Remember PROVE AuthorityInv'
    <2>1. UNCHANGED <<users, member, keys, req>>
      BY <1>3, TimeStep
    <2>2. users' \in UserRows /\ member' \in MemberRows /\ KeysKept
      BY <2>1 DEF Shape, AccessTypeOK, KeysKept
    <2>3. ASSUME NEW s \in Requests PROVE Evidence(s)'
      BY <1>1, <1>3, <2>1, <2>2, EvidenceAtRest DEF AuthorityInv
    <2> QED BY <1>1, <1>3, <2>2, <2>3 DEF AuthorityInv
  <1>4. CASE UNCHANGED accessVars
    <2>1. KeysKept /\ UNCHANGED <<users, member, req, seen>>
      BY <1>4 DEF accessVars, db, KeysKept
    <2>2. ASSUME NEW s \in Requests PROVE Evidence(s)'
      BY <2>1, EvidenceAtRest DEF AuthorityInv
    <2> QED BY <2>1, <2>2 DEF AuthorityInv, SeenNow
  <1> QED BY <1>2, <1>3, <1>4 DEF AccessNext

\* What a handler is about to do, its caller was entitled to since the request
\* arrived, for any number of requests and whatever they change meanwhile.
THEOREM AuthorityInvariance == AccessSpec => []AuthorityInv
  <1>1. AccessInit => AuthorityInv
    <2> SUFFICES ASSUME AccessInit, NEW r \in Requests PROVE Evidence(r) /\ SeenNow(r)
      BY DEF AuthorityInv
    <2>1. req[r].pc = "idle"
      BY IdleContext DEF AccessInit
    <2> QED BY <2>1 DEF Evidence, PastUser, HandlerPCs, SeenNow
  <1>2. Shape /\ AuthorityInv /\ [AccessNext]_accessVars => AuthorityInv'
    BY AuthorityStep
  <1> QED BY <1>1, <1>2, AccessShape, PTL DEF AccessSpec

\* No request gets into a handler on the session of a user who was inactive all
\* the time since it arrived, whatever sessions a deactivation left behind.
THEOREM DeactivatedKeptOut == AccessSpec => []DeactivatedStayOut
  <1>1. AuthorityInv => DeactivatedStayOut
    BY DEF AuthorityInv, DeactivatedStayOut, Evidence, PastUser, HandlerPCs, InHandler, HeldRole
  <1> QED BY <1>1, AuthorityInvariance, PTL

\* A handler writes only what its caller was entitled to at some moment of the
\* request, and a login makes an administrator only where it found none.
THEOREM AuthorityKept == AccessSpec => []AuthorityHeld
  <1>1. AuthorityInv => AuthorityHeld
    <2> SUFFICES ASSUME AuthorityInv, NEW r \in Requests
                 PROVE  AuthorityHeld!(r)
      BY DEF AuthorityHeld
    <2>1. Evidence(r)
      BY DEF AuthorityInv
    <2>2. InHandler(req[r]) /\ req[r].pc = "write" => Entitled(r)
      BY <2>1 DEF Evidence, PastUser, HandlerPCs, InHandler
    <2>3. req[r].pc = "insert" /\ req[r].role = "global_admin" => NoAdminSeen(r)
      BY <2>1 DEF Evidence
    <2> QED BY <2>2, <2>3 DEF Entitled, SameTeamAs, NoAdminSeen
  <1> QED BY <1>1, AuthorityInvariance, PTL

-----------------------------------------------------------------------------
(* The last administrator. *)

Admin(u) == users[u].role = "global_admin" /\ users[u].active
HasUsers == \E u \in Users : users[u].role # "none"

\* A guarded change is decided about a user who has logged in.
KnownTarget(r) == Deciding(req[r]) => users[req[r].call.target].role # "none"

\* Once it has been decided, somebody else is an administrator, or it makes one.
Decided(r) ==
    LET c == req[r] IN
    c.pc = "write" /\ c.call.op \in GuardedOps =>
        \/ c.call.op = "role" /\ c.call.arg = "global_admin"
        \/ \E u \in Users : u # c.call.target /\ Admin(u)

\* A new user who is not made an administrator is not the first user.
NotFirst(r) == req[r].pc = "insert" => req[r].role = "global_admin" \/ HasUsers

\* Two decisions that meet are remembered; until then there is an
\* administrator, and the decision under way leaves one.
AdminInv ==
    /\ \A r \in Requests : NotFirst(r) /\ KnownTarget(r)
    /\ \A r, s \in Requests : r # s /\ Deciding(req[r]) /\ Deciding(req[s]) => overlapped
    /\ ~overlapped => /\ HasUsers => \E u \in Users : Admin(u)
                      /\ \A r \in Requests : Decided(r)

\* More than one administrator: one besides any given user.
LEMMA TwoAdmins ==
  ASSUME NEW t, ~LastAdminRefused
  PROVE  \E u \in Users : u # t /\ Admin(u)
  <1> DEFINE A == {u \in Users : users[u].role = "global_admin" /\ users[u].active}
  <1>1. IsFiniteSet(A) /\ Cardinality(A) \in Nat
    BY FS_Subset, FS_CardinalityType, AccessAssumption
  <1>2. ~(Cardinality(A) <= 1)
    BY DEF LastAdminRefused, CountGlobalAdmins
  <1> HIDE DEF A
  <1>3. /\ IsFiniteSet(A \ {t})
        /\ Cardinality(A \ {t}) = IF t \in A THEN Cardinality(A) - 1 ELSE Cardinality(A)
    BY <1>1, FS_RemoveElement
  <1>4. A \ {t} # {}
    <2>1. Cardinality(A \ {t}) # 0
      BY <1>1, <1>2, <1>3
    <2> QED BY <1>3, <2>1, FS_EmptySet
  <1> QED BY <1>4 DEF A, Admin

\* No administrator is counted exactly where there is none.
LEMMA CountsAdmins == CountGlobalAdmins > 0 <=> \E u \in Users : Admin(u)
  <1> DEFINE A == {u \in Users : users[u].role = "global_admin" /\ users[u].active}
  <1>1. IsFiniteSet(A) /\ Cardinality(A) \in Nat
    BY FS_Subset, FS_CardinalityType, AccessAssumption
  <1>2. Cardinality(A) = 0 <=> A = {}
    BY <1>1, FS_EmptySet
  <1>3. CountGlobalAdmins = Cardinality(A)
    BY DEF CountGlobalAdmins
  <1>4. A = {} <=> ~\E u \in Users : Admin(u)
    BY DEF Admin
  <1> HIDE DEF A
  <1> QED BY <1>1, <1>2, <1>3, <1>4

\* Decisions that meet are remembered.
LEMMA OverlapStep ==
  ASSUME Remember
  PROVE  /\ overlapped => overlapped'
         /\ \A r, s \in Requests : r # s /\ Deciding(req'[r]) /\ Deciding(req'[s]) => overlapped'
  BY DEF Remember

\* How a request comes to decide, to have decided, or to insert a user.
DecisionTaken(r) ==
    LET c == req[r]
        d == req'[r]
        t == c.call.target
    IN  /\ Deciding(d) =>
             /\ users' = users /\ d.call = c.call /\ c.call.op \in GuardedOps
             /\ \/ c.pc = "count"
                \/ c.pc = "load" /\ users[t].role # "none"
        /\ d.pc = "write" /\ d.call.op \in GuardedOps =>
             \/ c.pc = "count" /\ ~LastAdminRefused
             \/ c.pc = "load" /\ (users[t].role # "global_admin" \/ c.call.arg = "global_admin")
        /\ d.pc = "insert" =>
             users' = users /\ (d.role = "global_admin" \/ CountGlobalAdmins # 0)

LEMMA DecisionStep ==
  ASSUME Shape, NEW r \in Requests, RequestStep(r)
  PROVE  DecisionTaken(r)
  <1> DEFINE c == req[r]
  <1>0. /\ RightPlace(c) /\ c \in Contexts /\ AccessTypeOK
        /\ \A d : Become(r, d) => req'[r] = d
    BY DEF Shape, AccessTypeOK, Become
  <1>1. ASSUME ~Deciding(req'[r]), req'[r].pc # "insert" PROVE DecisionTaken(r)
    BY <1>1 DEF DecisionTaken, Deciding
  <1>2. ASSUME NEW pc, GoTo(r, pc)
        PROVE  req'[r].pc = pc /\ req'[r].call = c.call /\ req'[r].role = c.role
    BY <1>0, <1>2 DEF GoTo, Contexts
  <1>3. ASSUME Finish(r) PROVE DecisionTaken(r)
    BY <1>0, <1>1, <1>3 DEF Finish, Idle, Deciding
  <1>4. ASSUME NEW pc, GoTo(r, pc), pc \notin {"count", "write", "insert"} PROVE DecisionTaken(r)
    BY <1>1, <1>2, <1>4 DEF Deciding
  <1>5. CASE Arrive(r)
    <2>1. PICK call \in ahead.calls :
            \/ /\ call.op \in PublicOps
               /\ Become(r, [Idle EXCEPT !.pc = call.op, !.call = call])
            \/ \E t \in Tokens :
                    Become(r, [Idle EXCEPT !.pc = "session", !.call = call, !.token = t])
            \/ Become(r, [Idle EXCEPT !.call = call, !.role = "global_admin",
                            !.pc = IF call.op \in {"deleteTeam", "revokeKey"}
                                   THEN "write" ELSE FirstStep(call.op)])
      BY <1>5 DEF Arrive
    <2>2. FirstStep(call.op) \in {"load", "check", "write"}
          /\ (FirstStep(call.op) = "write" => call.op \notin GuardedOps)
      BY FirstSteps DEF GuardedOps
    <2>3. ~Deciding(req'[r]) /\ req'[r].pc # "insert"
      BY <1>0, <2>1, <2>2 DEF Idle, Deciding, PublicOps, GuardedOps
    <2> QED BY <1>1, <2>3
  <1>6. CASE Validate(r) \/ LoadUser(r) \/ LoadTeam(r)
    <2>1. \/ Finish(r)
          \/ \E d \in {"routed", "user", "team"} : req'[r].pc = d
      BY <1>0, <1>6 DEF Validate, LoadUser, LoadTeam, Contexts
    <2> QED BY <1>1, <1>3, <2>1 DEF Deciding
  <1>7. CASE Route(r)
    <2>1. Finish(r) \/ GoTo(r, FirstStep(c.call.op))
      BY <1>7 DEF Route
    <2>2. ASSUME GoTo(r, FirstStep(c.call.op)) PROVE ~Deciding(req'[r]) /\ req'[r].pc # "insert"
      BY <1>2, <2>2, FirstSteps DEF Deciding, GuardedOps
    <2> QED BY <1>1, <1>3, <2>1, <2>2
  <1>8. CASE Load(r)
    <2>1. c.pc = "load" /\ users' = users
      BY <1>8 DEF Load, db
    <2>2. CASE c.call.op \in GuardedOps
      <3>1. \/ Finish(r)
            \/ /\ users[c.call.target].role # "none"
               /\ GoTo(r, "count")
            \/ /\ users[c.call.target].role # "none"
               /\ users[c.call.target].role # "global_admin" \/ c.call.arg = "global_admin"
               /\ GoTo(r, "write")
        <4>0. c.call.op # "removeMember"
          BY <2>2 DEF GuardedOps
        <4>1. IF users[c.call.target].role = "none" THEN Finish(r)
              ELSE GoTo(r, IF users[c.call.target].role = "global_admin"
                              /\ c.call.arg # "global_admin"
                           THEN "count" ELSE "write")
          BY <1>8, <2>2, <4>0, Zenon DEF Load
        <4> QED BY <4>1
      <3> QED BY <1>2, <1>3, <2>1, <2>2, <3>1 DEF DecisionTaken, Deciding
    <2>3. CASE c.call.op \notin GuardedOps
      <3>1. Finish(r) \/ GoTo(r, "write")
        BY <1>8, <2>3, Zenon DEF Load
      <3> QED BY <1>1, <1>2, <1>3, <2>3, <3>1 DEF Deciding
    <2> QED BY <2>2, <2>3
  <1>9. CASE Count(r)
    <2>1. /\ c.pc = "count" /\ users' = users /\ c.call.op \in GuardedOps
          /\ Finish(r) \/ (~LastAdminRefused /\ GoTo(r, "write"))
      BY <1>0, <1>9 DEF Count, db, RightPlace
    <2> QED BY <1>2, <1>3, <2>1 DEF DecisionTaken, Deciding
  <1>10. CASE Check(r)
    <2>1. /\ c.call.op = "revokeKey"
          /\ Finish(r) \/ GoTo(r, "write")
      BY <1>0, <1>10 DEF Check, RightPlace
    <2> QED BY <1>1, <1>2, <1>3, <2>1 DEF Deciding, GuardedOps
  <1>11. CASE Write(r)
    <2>1. Finish(r) \/ GoTo(r, "revokeSessions") \/ GoTo(r, "scope")
      BY <1>11 DEF Write, UpdateOIDCUserRole, SetOIDCUserActive, CreateTeam, RemoveUserFromTeam,
                   CreateKey, RevokeProxyKey, Logout, AssignUserToTeam, DeleteTeam, SetBudget
    <2> QED BY <1>3, <1>4, <2>1
  <1>12. CASE CountForNewUser(r)
    <2>1. /\ users' = users /\ req'[r].pc = "insert"
          /\ req'[r].role = IF CountGlobalAdmins = 0 THEN "global_admin" ELSE "member"
      BY <1>0, <1>12 DEF CountForNewUser, db, Contexts
    <2> QED BY <2>1 DEF DecisionTaken, Deciding
  <1>13. CASE SelectState(r) \/ DeleteState(r) \/ UpsertOIDCUser(r) \/ InsertUser(r)
    <2>1. \/ Finish(r)
          \/ GoTo(r, "delete") \/ GoTo(r, "upsert") \/ GoTo(r, "countAdmins")
          \/ Become(r, [c EXCEPT !.pc = "createSession", !.user = c.call.arg])
      BY <1>13 DEF SelectState, DeleteState, UpsertOIDCUser, InsertUser
    <2>2. ASSUME Become(r, [c EXCEPT !.pc = "createSession", !.user = c.call.arg])
          PROVE  req'[r].pc = "createSession"
      BY <1>0, <2>2 DEF Contexts
    <2> QED BY <1>1, <1>3, <1>4, <2>1, <2>2 DEF Deciding
  <1>14. CASE \/ SetKeyScope(r) \/ DeleteUISessionsByUserID(r) \/ LoginHandler(r)
              \/ OIDCStartHandler(r) \/ CreateSession(r) \/ Abort(r)
    BY <1>3, <1>14 DEF SetKeyScope, DeleteUISessionsByUserID, LoginHandler, OIDCStartHandler,
                       CreateSession, Abort
  <1> QED BY <1>5, <1>6, <1>7, <1>8, <1>9, <1>10, <1>11, <1>12, <1>13, <1>14 DEF RequestStep

\* Nobody but a decided change takes an administrator away.
LEMMA AdminsLeave ==
  ASSUME Shape, NEW r \in Requests, UsersChange(r), NEW u \in Users, Admin(u), ~Admin(u)'
  PROVE  /\ req[r].pc = "write" /\ req[r].call.op \in GuardedOps /\ u = req[r].call.target
         /\ ~(req[r].call.op = "role" /\ req[r].call.arg = "global_admin")
  <1> DEFINE c == req[r]
  <1>0. users \in UserRows
    BY DEF Shape, AccessTypeOK
  <1>1. ~(users' = users)
    BY DEF Admin
  <1>2. ASSUME users' = [users EXCEPT ![c.call.target].role = c.call.arg]
        PROVE  u = c.call.target /\ c.call.arg # "global_admin"
    BY <1>0, <1>2 DEF Admin, UserRows
  <1>3. ASSUME users' = [users EXCEPT ![c.call.target].active = FALSE]
        PROVE  u = c.call.target
    BY <1>0, <1>3 DEF Admin, UserRows
  <1>4. users' # [users EXCEPT ![c.call.target].active = TRUE]
    BY <1>0 DEF Admin, UserRows
  <1>5. ASSUME users[c.call.arg].role = "none"
        PROVE  users' # [users EXCEPT ![c.call.arg] = [role |-> c.role, active |-> TRUE]]
    BY <1>0, <1>5 DEF Admin, UserRows
  <1> QED BY <1>1, <1>2, <1>3, <1>4, <1>5 DEF UsersChange, GuardedOps

\* A database that had no users has them only from a first login.
LEMMA FirstUser ==
  ASSUME Shape, NEW r \in Requests, UsersChange(r), NotFirst(r), KnownTarget(r),
         ~HasUsers, HasUsers'
  PROVE  \E u \in Users : Admin(u)'
  <1> DEFINE c == req[r]
             new == [users EXCEPT ![c.call.arg] = [role |-> c.role, active |-> TRUE]]
  <1>0. /\ users \in UserRows
        /\ c.pc # "idle" => WellFormed(c.call)
        /\ c.pc = "insert" => c.call.op = "callback"
    BY CallsWellFormed DEF Shape, AccessTypeOK, RightPlace, LoginPCs
  <1>1. ~(users' = users)
    BY DEF HasUsers
  <1>2. c.pc = "write" /\ c.call.op \in {"role", "deactivate", "reactivate"} =>
          c.call.target \in Users
    BY <1>0 DEF WellFormed
  <1>3. ~(c.pc = "write" /\ c.call.op \in GuardedOps)
    BY <1>2 DEF KnownTarget, Deciding, HasUsers, GuardedOps
  <1>4. c.pc = "insert" /\ users' = new
    BY <1>1, <1>2, <1>3 DEF UsersChange, HasUsers, GuardedOps
  <1>5. c.call.arg \in Users /\ c.role = "global_admin"
    BY <1>0, <1>4 DEF WellFormed, NotFirst
  <1>6. users'[c.call.arg] = [role |-> "global_admin", active |-> TRUE]
    BY <1>0, <1>4, <1>5 DEF UserRows
  <1> QED BY <1>5, <1>6 DEF Admin

\* What a request relies on it still may: for its own step, ...
LEMMA OwnAdminStep ==
  ASSUME Shape, AdminInv, NEW r \in Requests, RequestStep(r)
  PROVE  /\ NotFirst(r)' /\ KnownTarget(r)'
         /\ ~overlapped => Decided(r)'
  <1> DEFINE c == req[r]
  <1>1. DecisionTaken(r) /\ UsersChange(r) /\ NotFirst(r) /\ KnownTarget(r)
    BY DecisionStep, UsersStep DEF AdminInv
  <1>2. NotFirst(r)'
    <2> SUFFICES ASSUME req'[r].pc = "insert", req'[r].role # "global_admin"
                 PROVE  \E u \in Users : users'[u].role # "none"
      BY DEF NotFirst, HasUsers
    <2>1. users' = users /\ CountGlobalAdmins # 0
      BY <1>1 DEF DecisionTaken
    <2>2. CountGlobalAdmins \in Nat
      BY FS_Subset, FS_CardinalityType, AccessAssumption DEF CountGlobalAdmins
    <2>3. \E u \in Users : Admin(u)
      BY <2>1, <2>2, CountsAdmins
    <2> QED BY <2>1, <2>3 DEF Admin
  <1>3. KnownTarget(r)'
    BY <1>1 DEF DecisionTaken, KnownTarget, Deciding
  <1>4. ASSUME ~overlapped, req'[r].pc = "write", req'[r].call.op \in GuardedOps
        PROVE  \/ req'[r].call.op = "role" /\ req'[r].call.arg = "global_admin"
               \/ \E u \in Users : u # req'[r].call.target /\ Admin(u)'
    <2>1. /\ users' = users /\ req'[r].call = c.call /\ c.call.op \in GuardedOps
          /\ \/ c.pc = "count" /\ ~LastAdminRefused
             \/ c.pc = "load" /\ users[c.call.target].role # "none"
                  /\ (users[c.call.target].role # "global_admin" \/ c.call.arg = "global_admin")
      BY <1>1, <1>4 DEF DecisionTaken, Deciding
    <2>2. \A u : Admin(u) => Admin(u)'
      BY <2>1 DEF Admin
    <2>3. CASE ~LastAdminRefused
      BY <2>1, <2>2, <2>3, TwoAdmins
    <2>4. CASE LastAdminRefused
      <3>1. c.call \in AllCalls
        BY <2>1, <2>4 DEF Shape, RightPlace
      <3>2. /\ c.call.target \in Users
            /\ c.call.op = "deactivate" => c.call.arg # "global_admin"
        BY <2>1, <3>1, CallsWellFormed, AccessAssumption DEF WellFormed, GuardedOps, Roles
      <3>3. PICK u \in Users : Admin(u)
        BY <1>4, <2>1, <2>4, <3>2 DEF AdminInv, HasUsers
      <3>4. CASE c.call.arg = "global_admin"
        BY <2>1, <3>2, <3>4 DEF GuardedOps
      <3>5. CASE users[c.call.target].role # "global_admin"
        <4>1. u # c.call.target
          BY <3>3, <3>5 DEF Admin
        <4> QED BY <2>1, <2>2, <3>3, <4>1
      <3> QED BY <2>1, <2>4, <3>4, <3>5
    <2> QED BY <2>3, <2>4
  <1> QED BY <1>2, <1>3, <1>4 DEF Decided

\* ... and for a step of another one, as long as two decisions have not met.
LEMMA OtherAdminStep ==
  ASSUME Shape, AdminInv, NEW r \in Requests, RequestStep(r), NEW s \in Requests, s # r
  PROVE  /\ NotFirst(s)' /\ KnownTarget(s)'
         /\ ~overlapped => Decided(s)'
  <1>1. req'[s] = req[s]
    BY ContextStep DEF Moved
  <1>2. UsersChange(r) /\ \A u \in Users : users[u].role # "none" => users'[u].role # "none"
    BY UsersStep, UsersKept
  <1>3. NotFirst(s) /\ KnownTarget(s) /\ (~overlapped => Decided(s))
    BY DEF AdminInv
  <1>4. NotFirst(s)'
    BY <1>1, <1>2, <1>3 DEF NotFirst, HasUsers
  <1>5. KnownTarget(s)'
    <2> SUFFICES ASSUME Deciding(req[s]) PROVE users'[req[s].call.target].role # "none"
      BY <1>1 DEF KnownTarget
    <2>1. req[s].call \in AllCalls /\ req[s].call.op \in GuardedOps
      BY DEF Deciding, Shape, RightPlace
    <2>2. req[s].call.target \in Users
      BY <2>1, CallsWellFormed DEF WellFormed, GuardedOps
    <2> QED BY <1>2, <1>3, <2>2 DEF KnownTarget
  <1>6. ASSUME ~overlapped PROVE Decided(s)'
    <2> SUFFICES ASSUME req[s].pc = "write", req[s].call.op \in GuardedOps,
                        ~(req[s].call.op = "role" /\ req[s].call.arg = "global_admin")
                 PROVE  \E u \in Users : u # req[s].call.target /\ Admin(u)'
      BY <1>1 DEF Decided
    <2>1. PICK u \in Users : u # req[s].call.target /\ Admin(u)
      BY <1>3, <1>6 DEF Decided
    <2>2. ~Deciding(req[r])
      BY <1>6 DEF AdminInv, Deciding
    <2>3. Admin(u)'
      BY <1>2, <2>1, <2>2, AdminsLeave DEF Deciding
    <2> QED BY <2>1, <2>3
  <1> QED BY <1>4, <1>5, <1>6

\* Every step keeps AdminInv.
LEMMA AdminStep ==
  ASSUME Shape, AdminInv, [AccessNext]_accessVars
  PROVE  AdminInv'
  <1>1. ASSUME NEW r \in Requests, RequestStep(r), Remember PROVE AdminInv'
    <2>1. \A s \in Requests : NotFirst(s)' /\ KnownTarget(s)' /\ (~overlapped => Decided(s)')
      BY <1>1, OwnAdminStep, OtherAdminStep
    <2>2. /\ overlapped => overlapped'
          /\ \A q, s \in Requests : q # s /\ Deciding(req'[q]) /\ Deciding(req'[s]) => overlapped'
      BY <1>1, OverlapStep
    <2>3. ASSUME ~overlapped, HasUsers' PROVE \E u \in Users : Admin(u)'
      <3>1. UsersChange(r) /\ NotFirst(r) /\ KnownTarget(r) /\ Decided(r)
        BY <1>1, <2>3, UsersStep DEF AdminInv
      <3>2. CASE ~HasUsers
        BY <2>3, <3>1, <3>2, FirstUser
      <3>3. CASE HasUsers
        <4>1. PICK u \in Users : Admin(u)
          BY <2>3, <3>3 DEF AdminInv
        <4>2. CASE Admin(u)'
          BY <4>2
        <4>3. CASE ~Admin(u)'
          <5>1. /\ req[r].pc = "write" /\ req[r].call.op \in GuardedOps
                /\ ~(req[r].call.op = "role" /\ req[r].call.arg = "global_admin")
            BY <3>1, <4>1, <4>3, AdminsLeave
          <5>2. PICK v \in Users : v # req[r].call.target /\ Admin(v)
            BY <3>1, <5>1 DEF Decided
          <5>3. Admin(v)'
            BY <3>1, <5>2, AdminsLeave
          <5> QED BY <5>3
        <4> QED BY <4>2, <4>3
      <3> QED BY <3>2, <3>3
    <2> QED BY <2>1, <2>2, <2>3 DEF AdminInv
  <1>2. ASSUME Expire \/ Cleanup, Remember PROVE AdminInv'
    <2>1. UNCHANGED <<users, req>>
      BY <1>2, TimeStep
    <2>2. overlapped => overlapped'
      BY <1>2, OverlapStep
    <2> QED BY <2>1, <2>2 DEF AdminInv, NotFirst, KnownTarget, Decided, HasUsers, Admin, Deciding
  <1>3. CASE UNCHANGED accessVars
    BY <1>3 DEF accessVars, db, AdminInv, NotFirst, KnownTarget, Decided, HasUsers, Admin, Deciding
  <1> QED BY <1>1, <1>2, <1>3 DEF AccessNext

\* The guards of ChangeRoleHandler, DeactivateUserHandler and the users commands
\* keep an administrator while no two decisions meet, for any number of users,
\* requests and logins: the first login makes one, and a change that would take
\* one away has counted another since the last decision.
THEOREM LastAdminStays == AccessSpec => []LastAdminKept
  <1>1. AccessInit => AdminInv
    <2> SUFFICES ASSUME AccessInit PROVE AdminInv
      OBVIOUS
    <2>1. \A r \in Requests : req[r].pc = "idle"
      BY IdleContext DEF AccessInit
    <2>2. HasUsers => \E u \in Users : Admin(u)
      BY AdminAssumption DEF AccessInit, HasUsers, Admin
    <2> QED BY <2>1, <2>2 DEF AdminInv, NotFirst, KnownTarget, Decided, Deciding
  <1>2. Shape /\ AdminInv /\ [AccessNext]_accessVars => AdminInv'
    BY AdminStep
  <1>3. AdminInv => LastAdminKept
    BY CountsAdmins DEF AdminInv, LastAdminKept, HasUsers
  <1> QED BY <1>1, <1>2, <1>3, AccessShape, PTL DEF AccessSpec

=============================================================================
