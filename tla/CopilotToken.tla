---------------------------- MODULE CopilotToken ----------------------------
(***************************************************************************)
(* The session tokens of a GitHub Copilot provider: requests of the proxy  *)
(* that share one cached token behind a mutex and renew it, the token      *)
(* files, and the `auth copilot` command that writes the same files from   *)
(* another process.  Either process may die between any two steps; a file  *)
(* that is being written is "torn" and reads as a parse error.             *)
(***************************************************************************)
EXTENDS Naturals

CONSTANTS
    Requests,       \* requests to the provider under way at once
    Accounts,       \* GitHub accounts an operator may log in with
    Lifetimes,      \* seconds for which GitHub may issue a session token
    Buffer,         \* the 60 s before its expiry a token is renewed
    Interval, SlowDown, ExpiresIn,  \* of the device flow
    MaxClock,       \* bound on the time
    Torn,           \* a file that does not parse
    None            \* no token, no holder

\* Times are whole seconds, and `None' is no request.
TokenSetting ==
    /\ Lifetimes \subseteq Nat /\ Buffer \in Nat
    /\ Interval \in Nat /\ SlowDown \in Nat /\ ExpiresIn \in Nat
    /\ None \notin Requests

ASSUME TokenAssumption == TokenSetting

VARIABLES
    now,
    disk,           \* [github, session]: the two token files
    up,             \* the proxy is running
    github,         \* Client.githubToken
    session,        \* Client.sessionToken
    holder,         \* who holds Client.mu
    pc,             \* where each request is
    streaming,      \* req.IsStreaming
    login           \* the `auth copilot` command

proxyVars == <<up, github, session, holder, pc, streaming>>
copilotVars == <<now, disk, proxyVars, login>>

Tokens == [account : Accounts, exp : Nat]
NoLogin == [pc |-> "off", account |-> None, exp |-> 0, interval |-> 0, next |-> 0, deadline |-> 0]

\* What a load of a file returns: a missing or torn file is an error.
LoadGitHubToken  == IF disk.github = Torn THEN None ELSE disk.github
LoadCopilotToken == IF disk.session = Torn THEN None ELSE disk.session

NewClient ==
    /\ ~up
    /\ up' = TRUE
    /\ github' = LoadGitHubToken
    /\ session' = LoadCopilotToken
    /\ UNCHANGED <<now, disk, holder, pc, streaming, login>>

\* A request of either kind asks for the token; only one that does not stream
\* has a deadline.
SendRequest(r) ==
    /\ up
    /\ pc[r] = "idle"
    /\ \E s \in BOOLEAN : streaming' = [streaming EXCEPT ![r] = s]
    /\ pc' = [pc EXCEPT ![r] = "wait"]
    /\ UNCHANGED <<now, disk, up, github, session, holder, login>>

Usable == session # None /\ now + Buffer < session.exp

\* Looking at the token before taking the lock, so not behind the exchange.
LockedAfterTheCheck(r) ==
    /\ pc[r] = "wait"
    /\ IF github = None \/ Usable
       THEN /\ pc' = [pc EXCEPT ![r] = "idle"]
            /\ UNCHANGED holder
       ELSE /\ pc' = [pc EXCEPT ![r] = "exchanging"]
            /\ holder' = r
    /\ UNCHANGED <<now, disk, up, github, session, streaming, login>>

\* getSessionToken under the mutex: no credentials is an error and a usable
\* token is handed out at once; otherwise the lock is kept for the exchange.
getSessionToken(r) ==
    /\ pc[r] = "wait"
    /\ holder = None
    /\ IF github = None \/ Usable
       THEN /\ pc' = [pc EXCEPT ![r] = "idle"]
            /\ UNCHANGED holder
       ELSE /\ pc' = [pc EXCEPT ![r] = "exchanging"]
            /\ holder' = r
    /\ UNCHANGED <<now, disk, up, github, session, streaming, login>>

\* Returning to the caller gives the lock back.
Unlock(r) == /\ pc' = [pc EXCEPT ![r] = "idle"]
             /\ holder' = None

\* Giving back the lock as soon as the exchange is over would leave a failed
\* exchange holding it.
ExchangeKeepsLock(r) ==
    /\ pc[r] = "exchanging"
    /\ \/ /\ \E l \in Lifetimes : session' = [account |-> github, exp |-> now + l]
          /\ pc' = [pc EXCEPT ![r] = "saving"]
       \/ /\ pc' = [pc EXCEPT ![r] = "idle"]
          /\ UNCHANGED session
    /\ UNCHANGED <<now, disk, up, github, holder, streaming, login>>

\* GitHub answers, or refuses, or the request is cancelled or past its deadline:
\* a failure leaves the old token in place.
ExchangeForCopilotToken(r) ==
    /\ pc[r] = "exchanging"
    /\ \/ /\ \E l \in Lifetimes : session' = [account |-> github, exp |-> now + l]
          /\ pc' = [pc EXCEPT ![r] = "saving"]
          /\ UNCHANGED holder
       \/ Unlock(r) /\ UNCHANGED session
    /\ UNCHANGED <<now, disk, up, github, streaming, login>>

\* os.WriteFile truncates, then writes; the directory or the disk may fail it
\* before or in between, and two writers may leave a mixture.
Truncate(file) == disk' = [disk EXCEPT ![file] = Torn]
Written(file, value, contended) ==
    \E v \in {value} \cup (IF contended THEN {Torn} ELSE {}) : disk' = [disk EXCEPT ![file] = v]

\* SaveCopilotToken, still under the mutex; its error is ignored.
SaveCopilotToken(r) ==
    /\ \/ /\ pc[r] = "saving"
          /\ \/ Truncate("session") /\ pc' = [pc EXCEPT ![r] = "writing"] /\ UNCHANGED holder
             \/ Unlock(r) /\ UNCHANGED disk
       \/ /\ pc[r] = "writing"
          /\ \/ Written("session", session, login.pc = "writeSession")
             \/ UNCHANGED disk
          /\ Unlock(r)
    /\ UNCHANGED <<now, up, github, session, streaming, login>>

\* The proxy dies: what it cached is lost, and files stay as they are.
Crash ==
    /\ up
    /\ up' = FALSE
    /\ github' = None
    /\ session' = None
    /\ holder' = None
    /\ pc' = [r \in Requests |-> "idle"]
    /\ UNCHANGED <<now, disk, streaming, login>>

-----------------------------------------------------------------------------
\* The `auth copilot` command: without --force it leaves a stored login alone.
runAuthCopilot ==
    /\ login.pc = "off"
    /\ \E force \in BOOLEAN : force \/ LoadGitHubToken = None
    /\ login' = [NoLogin EXCEPT !.pc = "device"]
    /\ UNCHANGED <<now, disk, proxyVars>>

\* The command ends: a call failed, the operator interrupted it, or it died.
LoginEnds ==
    /\ login.pc # "off"
    /\ login' = NoLogin
    /\ UNCHANGED <<now, disk, proxyVars>>

RequestDeviceCode ==
    /\ login.pc = "device"
    /\ login' = [login EXCEPT !.pc = "polling", !.interval = Interval, !.next = now + Interval,
                              !.deadline = now + ExpiresIn]
    /\ UNCHANGED <<now, disk, proxyVars>>

\* One round of the poll, an interval after the last: past the deadline it gives
\* up, "slow_down" lengthens the interval, any other error ends it.
PollForAccessToken ==
    /\ login.pc = "polling"
    /\ now >= login.next
    /\ IF now > login.deadline
       THEN login' = NoLogin
       ELSE \/ login' = [login EXCEPT !.next = now + login.interval]
            \/ login' = [login EXCEPT !.interval = @ + SlowDown, !.next = now + login.interval + SlowDown]
            \/ login' = NoLogin
            \/ \E a \in Accounts : login' = [login EXCEPT !.pc = "saveGitHub", !.account = a]
    /\ UNCHANGED <<now, disk, proxyVars>>

SaveGitHubToken ==
    /\ \/ /\ login.pc = "saveGitHub"
          /\ Truncate("github")
          /\ login' = [login EXCEPT !.pc = "writeGitHub"]
       \/ /\ login.pc = "writeGitHub"
          /\ Written("github", login.account, FALSE)
          /\ login' = [login EXCEPT !.pc = "exchange"]
    /\ UNCHANGED <<now, proxyVars>>

\* The first session token, cached for a proxy that starts later.
LoginExchange ==
    /\ login.pc = "exchange"
    /\ \E l \in Lifetimes : login' = [login EXCEPT !.pc = "saveSession", !.exp = now + l]
    /\ UNCHANGED <<now, disk, proxyVars>>

LoginSaveSession ==
    /\ \/ /\ login.pc = "saveSession"
          /\ Truncate("session")
          /\ login' = [login EXCEPT !.pc = "writeSession"]
       \/ /\ login.pc = "writeSession"
          /\ Written("session", [account |-> login.account, exp |-> login.exp],
                     \E r \in Requests : pc[r] = "writing")
          /\ login' = NoLogin
    /\ UNCHANGED <<now, proxyVars>>

Tick ==
    /\ now < MaxClock
    /\ now' = now + 1
    /\ UNCHANGED <<disk, proxyVars, login>>

-----------------------------------------------------------------------------
CopilotInit ==
    /\ now = 0
    /\ disk = [github |-> None, session |-> None]
    /\ up = FALSE
    /\ github = None
    /\ session = None
    /\ holder = None
    /\ pc = [r \in Requests |-> "idle"]
    /\ streaming = [r \in Requests |-> FALSE]
    /\ login = NoLogin

LoginStep == runAuthCopilot \/ LoginEnds \/ RequestDeviceCode \/ PollForAccessToken
                \/ SaveGitHubToken \/ LoginExchange \/ LoginSaveSession

RequestStep(r) == SendRequest(r) \/ getSessionToken(r) \/ ExchangeForCopilotToken(r) \/ SaveCopilotToken(r)

CopilotNext == NewClient \/ Crash \/ Tick \/ LoginStep \/ \E r \in Requests : RequestStep(r)

CopilotSpec == CopilotInit /\ [][CopilotNext]_copilotVars

\* Go hands a contended mutex to a waiter that starves; a deadline ends the
\* exchange of a request that does not stream; a local file is written or not.
\* Nothing ends the exchange of a streaming request but GitHub or its client.
Deadlined(r) == ~streaming[r] /\ ExchangeForCopilotToken(r)

-----------------------------------------------------------------------------
\* The cached token is renewed only when there is none or its last Buffer
\* seconds have begun: however many requests find it stale at once, one exchange
\* serves them all (getSessionToken looks again once it holds the mutex).
OneExchangePerLifetime ==
    [][session' \notin {session, None} /\ up => ~Usable]_copilotVars

\* A waiting request gets the mutex, an answer or an error, if exchanges on
\* behalf of streams come to an end - the assumption the code does not enforce:
\* http.DefaultClient has no timeout and the wait for Client.mu ignores the context.
WaitersServed ==
    ([]<>(\A r \in Requests : ~(pc[r] = "exchanging" /\ streaming[r])))
        => \A r \in Requests : (pc[r] = "wait") ~> (pc[r] # "wait")
=============================================================================
