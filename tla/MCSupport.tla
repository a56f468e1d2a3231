------------------------------ MODULE MCSupport ------------------------------
(***************************************************************************)
(* What surrounds the requests, for TLC: the Copilot session token         *)
(* (CopilotToken), the model catalog (Catalog) and the copy of a database  *)
(* (DatabaseCopy).  They share no state, so a behaviour is one of one of   *)
(* them.                                                                   *)
(***************************************************************************)
EXTENDS CopilotToken, DatabaseCopy

CONSTANTS UnsafeBases, MaxPages

ASSUME SupportAssumption ==
    /\ {MaxClock, MaxPages, importBatchSize} \subseteq Nat
    /\ {None, Torn} \cap (Requests \cup Accounts) = {}

VARIABLES
    part,
    phase, config, models, chains, names, prices, next, listed

modelVars == <<phase, config, models, chains, names, prices, next, listed>>
mcVars == <<part, copilotVars, modelVars, copyVars>>

-------------------------------------------------------------------------------
(* Configurations: a model a that is direct, virtual or wrong, one or two   *)
(* more entries, a provider p that may discover models, and a second one.   *)

NameA == <<"", "a">>
NameB == <<"", "b">>
NamePX == <<"p", "x">>
Referred == {NameA, NameB, NamePX, <<"p", "..">>}

Entry0(name) == [name |-> name, provider |-> "", upstream |-> "", fallbacks |-> <<>>, metadata |-> FALSE]
DirectEntry(name, p) == [Entry0(name) EXCEPT !.provider = p, !.upstream = "m"]
VirtualEntry(name, refs) == [Entry0(name) EXCEPT !.fallbacks = refs]
EntriesOf(name) ==
    {[DirectEntry(name, "q") EXCEPT !.metadata = TRUE]} \cup {VirtualEntry(name, s) : s \in SeqOf(Referred, 2) \ {<<>>}}
WrongEntries == {Entry0(NameB), [DirectEntry(NameB, "q") EXCEPT !.fallbacks = <<NameA>>]}
WildcardEntry == DirectEntry(<<"p", "*">>, "q")

ModelLists == {<<e>> : e \in EntriesOf(NameA)}
    \cup {<<e, f>> : e \in EntriesOf(NameA), f \in EntriesOf(NameB) \cup WrongEntries \cup {WildcardEntry}}
    \cup {<<e, f, g>> : e \in {VirtualEntry(NameA, <<NameB, NamePX>>), VirtualEntry(NameA, <<NamePX, NamePX>>)},
                        f \in {DirectEntry(NameB, "q"), VirtualEntry(NameB, <<NamePX>>), VirtualEntry(NameB, <<NameA>>)},
                        g \in {WildcardEntry, DirectEntry(NameB, "p"), VirtualEntry(NamePX, <<NameB>>),
                               DirectEntry(NamePX, "q")}}

Pattern(exclude, matches) == [exclude |-> exclude, matches |-> matches, malformed |-> FALSE]
Provider0(name, type) ==
    [name |-> name, type |-> type, discover |-> FALSE, prefix |-> name, filter |-> <<>>, tokenDir |-> "",
     complete |-> TRUE, legacy |-> "", defaults |-> {"m"}]
Discoverers ==
    {[Provider0("p", "openai") EXCEPT !.discover = TRUE, !.prefix = x] : x \in {"p", ""}}
    \cup {[Provider0("p", "openai") EXCEPT !.discover = TRUE, !.filter = f] :
            f \in {<<Pattern(FALSE, {"a"})>>, <<Pattern(FALSE, {"a", "x"}), Pattern(TRUE, {"x"})>>}}
Plain == Provider0("q", "anthropic")
OddProviders ==
    {<<Plain, Plain>>, <<Provider0("q", "other")>>, <<[Plain EXCEPT !.complete = FALSE]>>,
     <<[Provider0("p", "github_copilot") EXCEPT !.discover = TRUE]>>,
     <<Provider0("p", "github_copilot"), Provider0("q", "github_copilot")>>,
     <<[Provider0("p", "openai") EXCEPT !.discover = TRUE, !.filter = <<[Pattern(FALSE, {}) EXCEPT !.malformed = TRUE]>>]>>,
     <<[Provider0("p", "openai") EXCEPT !.legacy = "old"], [Plain EXCEPT !.legacy = "old"]>>}

MCConfigs ==
    [models : ModelLists, providers : {<<Plain>>} \cup {<<d, Plain>> : d \in Discoverers}]
    \cup [models : {<<DirectEntry(NameA, "q")>>}, providers : OddProviders]

Cat == INSTANCE Catalog WITH Configs <- MCConfigs, ModelIDs <- {"a", "x"}

-------------------------------------------------------------------------------
(* Databases: one with a row of every table, empty or overlapping targets,  *)
(* one that is written to during the export, and many with a single row of  *)
(* values that need quoting.                                                *)

Text(s) == [type |-> "text", text |-> s]
Row(table, id, refs) == [table |-> table, id |-> id, refs |-> refs, cells |-> <<Text(<<"c">>)>>]
UserRow == Row("oidc_users", 1, {})
TeamRow == Row("teams", 1, {})
MemberRow == Row("team_memberships", 1, {<<"oidc_users", 1>>, <<"teams", 1>>})
KeyRow == Row("proxy_keys", 1, {})
LogRow(i) == Row("request_logs", i, {<<"proxy_keys", 1>>})
AuditRow(i) == Row("audit_events", i, {})
OwnerRow == Row("proxy_key_owners", 1, {<<"oidc_users", 1>>, <<"proxy_keys", 1>>})

FullSource == {UserRow, TeamRow, MemberRow, KeyRow, LogRow(1), LogRow(2), AuditRow(3)}
Copied(rows, later, keys) == [source |-> rows, later |-> later, target |-> keys]
MCValues == {[type |-> "null", text |-> <<>>], [type |-> "int", text |-> <<"1">>], [type |-> "bool", text |-> <<"1">>]}
    \cup [type : {"text", "bytes"}, text : {<<c>> : c \in {"'", ",", "(", "z"}}] \cup {Text(<<>>)}
MCInstances ==
    {Copied(FullSource, {}, {}), Copied(FullSource, {}, {<<"oidc_users", 1>>, <<"audit_events", 3>>}),
     Copied({UserRow, TeamRow}, {MemberRow, KeyRow, LogRow(1)}, {})}
    \cup {Copied({[AuditRow(1) EXCEPT !.cells = <<Text(s), v>>]}, {}, {}) :
            s \in SeqOf({"'", ",", ")", " ", "n", "z"}, 2), v \in MCValues}

OwnedKey == {Copied({UserRow, KeyRow, OwnerRow}, {}, {})}

-------------------------------------------------------------------------------
CONSTANT Parts

\* The parts that rest start in one state.
MCInit ==
    /\ part \in Parts
    /\ IF part = "catalog" THEN config \in MCConfigs ELSE config = CHOOSE c \in MCConfigs : TRUE
    /\ IF part = "copy" THEN instance \in Instances /\ dialect \in {"sqlite", "postgres"}
       ELSE instance = (CHOOSE i \in Instances : TRUE) /\ dialect = "sqlite"
    /\ CopilotInit /\ Cat!CatalogInit /\ CopyInit

InToken(A) == part = "token" /\ A /\ UNCHANGED <<part, modelVars, copyVars>>

MCNext ==
    \/ InToken(CopilotNext)
    \/ part = "catalog" /\ Cat!CatalogNext /\ UNCHANGED <<part, copilotVars, copyVars>>
    \/ part = "copy" /\ CopyNext /\ UNCHANGED <<part, copilotVars, modelVars>>

MCSpec ==
    /\ MCInit
    /\ [][MCNext]_mcVars
    /\ \A r \in Requests :
         /\ SF_mcVars(InToken(getSessionToken(r)))
         /\ WF_mcVars(InToken(Deadlined(r)))
         /\ WF_mcVars(InToken(SaveCopilotToken(r)))

-------------------------------------------------------------------------------
\* Catalog: buildResolvedChains does what its checks mean, ...
ChainsMatchReference == Cat!ChainsMatchReference

\* ... and discovery leaves configured names alone.
DiscoveryKeepsConfig == Cat!DiscoveryKeepsConfig

=============================================================================
