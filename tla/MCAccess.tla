------------------------------- MODULE MCAccess -------------------------------
(***************************************************************************)
(* Instance of Access: two administrators, a team administrator with a     *)
(* team and somebody who has never logged in; or a database without users. *)
(***************************************************************************)
EXTENDS Access, TLC

CONSTANTS ann, bob, cat, new, t1, t2, k1, k2, s1, s2, tokA, tokC, tokNew, st1, st2

User(role)    == [role |-> role, active |-> role # "none"]
Session(u)    == [state |-> "live", user |-> u]
UnusedSession == [state |-> "unused", user |-> None]
UnusedKey     == [state |-> "unused", owner |-> None, scoped |-> FALSE]
Call(op, t, a) == [op |-> op, target |-> t, arg |-> a]

\* Every route and command, two at a time.
Populated ==
    [users    |-> (ann :> User("global_admin") @@ bob :> User("global_admin")
                     @@ cat :> User("team_admin") @@ new :> User("none")),
     member   |-> (ann :> None @@ bob :> t1 @@ cat :> t1 @@ new :> None),
     keys     |-> (k1 :> [state |-> "active", owner |-> bob, scoped |-> FALSE] @@ k2 :> UnusedKey),
     sessions |-> (tokA :> Session(ann) @@ tokC :> Session(cat) @@ tokNew :> UnusedSession),
     logins   |-> (st1 :> "live" @@ st2 :> "unused"),
     requests |-> 2,
     calls    |->
       {Call("login", None, None), Call("start", None, None),
        Call("callback", st1, new), Call("callback", st1, bob),
        Call("role", ann, "member"), Call("role", bob, "member"), Call("role", cat, "member"),
        Call("deactivate", bob, None), Call("reactivate", bob, None),
        Call("addMember", t1, ann), Call("removeMember", t1, bob), Call("deleteTeam", t1, None),
        Call("createTeam", t2, None), Call("addMember", t2, cat),
        Call("createKey", k2, "scoped"), Call("revokeKey", k1, None),
        Call("budgetTeam", t1, "set"), Call("budgetKey", k1, "set"), Call("budgetUser", bob, "clear"),
        Call("budgetGlobal", "global", "set"), Call("logout", None, None)}]

\* Logins of a user who is deactivated and let in again meanwhile.
Deactivation ==
    [Populated EXCEPT
        !.sessions = (tokA :> Session(ann) @@ tokC :> UnusedSession @@ tokNew :> UnusedSession),
        !.requests = 3,
        !.calls = {Call("callback", st1, bob), Call("deactivate", bob, None),
                   Call("reactivate", bob, None), Call("createKey", k2, None)}]

\* First logins on a database without users.
Fresh ==
    [Populated EXCEPT
        !.users = [u \in Users |-> User("none")],
        !.member = [u \in Users |-> None],
        !.keys = [k \in Keys |-> UnusedKey],
        !.sessions = [t \in Tokens |-> UnusedSession],
        !.logins = [s \in LoginStates |-> "live"],
        !.requests = 3,
        !.calls = {Call("callback", st1, new), Call("callback", st2, bob), Call("callback", st1, bob)}]

MCDatabases == {Populated, Deactivation, Fresh}
===============================================================================
