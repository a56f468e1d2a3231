------------------------------- MODULE Catalog -------------------------------
(***************************************************************************)
(* The model catalog: from the configuration file (its model_list and      *)
(* providers) through model discovery to the dispatch chains requests are  *)
(* resolved with.  A name is <<prefix, base>>, for "prefix/base", with the *)
(* prefix "" where there is no slash and the base "*" for a wildcard.      *)
(***************************************************************************)
EXTENDS Naturals, Sequences, SequencesExt, FiniteSets, Relation

CONSTANTS
    Configs,        \* the configuration files: [models, providers]
    ModelIDs,       \* upstream models a provider may list
    UnsafeBases,    \* suffixes isSafeModelSuffix refuses
    MaxPages        \* bound on the pages of a listing

VARIABLES
    phase,      \* "file", "registry", "listing", "serving" or "rejected"
    config,     \* the file
    models,     \* Config.ModelList
    chains,     \* Config.resolvedChains
    names,      \* ProviderRegistry.providerNames: alias -> provider
    prices,     \* the pricing table: <<provider, model>> -> where its prices are from
    next,       \* the provider discovery has come to
    listed      \* what its ListModels has collected, and how many pages

catalogVars == <<phase, config, models, chains, names, prices, next, listed>>

IsWildcard(m) == m.name[2] = "*"
IsVirtual(m)  == m.fallbacks # <<>>
isSafeModelSuffix(base) == base \notin UnsafeBases
MatchesWildcard(w, name) == w.name[1] = name[1] /\ isSafeModelSuffix(name[2])

Target(provider, upstream) == [provider |-> provider, upstream |-> upstream]
TargetOf(m) == Target(m.provider, m.upstream)

\* The wildcard entries a name may be resolved through: the first one counts.
Wildcards(list, name) == SelectSeq(list, LAMBDA m : IsWildcard(m) /\ MatchesWildcard(m, name))
resolveWildcard(list, name) == Target(Head(Wildcards(list, name)).provider, name[2])

\* byName: the last entry of a name counts.
Explicit(list) == SelectSeq(list, LAMBDA m : ~IsWildcard(m))
Defined(list) == {m.name : m \in ToSet(Explicit(list))}
byName(list, name) == Last(SelectSeq(Explicit(list), LAMBDA m : m.name = name))

\* Pass 1: an entry has a provider or an upstream model, or it has fallbacks.
Exclusive(m) ==
    LET isDirect == m.provider # "" \/ m.upstream # ""
    IN  isDirect # IsVirtual(m)

\* Pass 2: every fallback is an entry or matches a wildcard.
References(list) ==
    \A m \in ToSet(list) : \A ref \in ToSet(m.fallbacks) :
        ref \in Defined(list) \/ Wildcards(list, ref) # <<>>

\* A cycle detection that never takes a name off the path: two entries that
\* share a fallback look like a cycle.
RECURSIVE detectCycleKeepsPath(_, _, _)
detectCycleKeepsPath(list, name, state) ==
    IF state.cyclic \/ name \notin Defined(list) THEN state
    ELSE IF name \in state.visiting THEN [state EXCEPT !.cyclic = TRUE]
    ELSE FoldLeft(LAMBDA s, ref : detectCycleKeepsPath(list, ref, s),
                  [state EXCEPT !.visiting = @ \cup {name}], byName(list, name).fallbacks)

\* Pass 3: depth first, with the names on the path and those that are done.
RECURSIVE detectCycle(_, _, _)
detectCycle(list, name, state) ==
    IF state.cyclic \/ name \in state.visited THEN state
    ELSE IF name \in state.visiting THEN [state EXCEPT !.cyclic = TRUE]
    ELSE IF name \notin Defined(list) THEN state
    ELSE LET entered == [state EXCEPT !.visiting = @ \cup {name}]
             after == FoldLeft(LAMBDA s, ref : detectCycle(list, ref, s),
                               entered, byName(list, name).fallbacks)
         IN  [after EXCEPT !.visiting = @ \ {name}, !.visited = @ \cup {name}]

Cyclic(list) ==
    FoldLeft(LAMBDA s, m : detectCycle(list, m.name, s),
             [visiting |-> {}, visited |-> {}, cyclic |-> FALSE], Explicit(list)).cyclic

Put(f, x, y) == [z \in DOMAIN f \cup {x} |-> IF z = x THEN y ELSE f[z]]

\* Pass 4: the chains computed so far are looked up, not computed again.
RECURSIVE flatten(_, _, _)
flatten(list, name, done) ==
    IF name \in DOMAIN done THEN done
    ELSE IF name \notin Defined(list) THEN Put(done, name, <<resolveWildcard(list, name)>>)
    ELSE LET m == byName(list, name)
             sub == FoldLeft(LAMBDA d, ref : flatten(list, ref, d), done, m.fallbacks)
             chain == FoldLeft(LAMBDA c, ref : c \o sub[ref], <<>>, m.fallbacks)
         IN  IF IsVirtual(m) THEN Put(sub, name, chain) ELSE Put(done, name, <<TargetOf(m)>>)

buildResolvedChains(list) ==
    IF (\A m \in ToSet(Explicit(list)) : Exclusive(m)) /\ References(list) /\ ~Cyclic(list)
    THEN [ok |-> TRUE, chains |-> FoldLeft(LAMBDA d, m : flatten(list, m.name, d), <<>>, Explicit(list))]
    ELSE [ok |-> FALSE, chains |-> <<>>]

\* What a request for a name is dispatched to; <<>> stands for "model not found".
FindModel(list, built, name) ==
    IF name \in DOMAIN built THEN built[name]
    ELSE IF Wildcards(list, name) # <<>> THEN <<resolveWildcard(list, name)>> ELSE <<>>

-------------------------------------------------------------------------------
validateProviders(ps) ==
    LET copilots == {i \in DOMAIN ps : ps[i].type = "github_copilot"}
    IN  /\ \A i, j \in DOMAIN ps : i # j => ps[i].name # ps[j].name
        /\ Cardinality(copilots) > 1 =>
             \A i, j \in copilots : ps[i].tokenDir # "" /\ (i # j => ps[i].tokenDir # ps[j].tokenDir)
        /\ \A i \in DOMAIN ps : ps[i].complete   \* its auth mode has what it needs
        /\ \A i \in DOMAIN ps : ps[i].discover => ps[i].type # "github_copilot"

hasDiscoveryProviders(ps) == \E i \in DOMAIN ps : ps[i].discover

Reject == /\ phase' = "rejected"
          /\ UNCHANGED <<config, models, chains, names, prices, next, listed>>

\* Load: the chains wait for discovery if any provider uses it.
Load ==
    /\ phase = "file"
    /\ LET built == buildResolvedChains(config.models)
           deferred == hasDiscoveryProviders(config.providers)
       IN  IF ~validateProviders(config.providers) \/ (~deferred /\ ~built.ok) THEN Reject
           ELSE /\ phase' = "registry"
                /\ models' = config.models
                /\ chains' = IF deferred THEN <<>> ELSE built.chains
                /\ UNCHANGED <<config, names, prices, next, listed>>

\* The name earlier versions logged: it is an alias as long as it is unambiguous.
addLegacyProviderAlias(st, p) ==
    IF p.legacy = "" \/ p.legacy = p.name THEN st
    ELSE IF p.legacy \in DOMAIN st.legacy /\ st.legacy[p.legacy] # p.name
    THEN [st EXCEPT !.names = [k \in DOMAIN st.names \ {p.legacy} |-> st.names[k]]]
    ELSE [legacy |-> Put(st.legacy, p.legacy, p.name), names |-> Put(st.names, p.legacy, p.name)]

\* Each provider's own name and alias, its default prices, and on top of them
\* the prices of the entries that have metadata.
defaultPricingForProvider(p) == {<<p.name, id>> : id \in p.defaults}

\* A client can be built for the types the proxy knows.
buildProvider(p) == p.type \in {"anthropic", "github_copilot", "openai", "openai_responses", "gemini"}

UnsupportedProvider ==
    /\ phase = "registry"
    /\ \E i \in DOMAIN config.providers : ~buildProvider(config.providers[i])
    /\ Reject

NewProviderRegistry ==
    LET ps == config.providers
        overridden == {<<m.provider, m.upstream>> :
                         m \in {e \in ToSet(Explicit(models)) : /\ ~IsVirtual(e) /\ e.metadata
                                                                /\ \E i \in DOMAIN ps : ps[i].name = e.provider}}
        standard == UNION {defaultPricingForProvider(ps[i]) : i \in DOMAIN ps}
    IN  /\ phase = "registry"
        /\ \A i \in DOMAIN ps : buildProvider(ps[i])
        /\ names' = FoldLeft(LAMBDA st, p : addLegacyProviderAlias([st EXCEPT !.names = Put(@, p.name, p.name)], p),
                             [legacy |-> <<>>, names |-> <<>>], ps).names
        /\ prices' = [k \in standard \cup overridden |-> IF k \in overridden THEN "metadata" ELSE "default"]
        /\ phase' = "listing"
        /\ UNCHANGED <<config, models, chains, next, listed>>

Discovering(p) == /\ phase = "listing"
                  /\ next <= Len(config.providers)
                  /\ p = config.providers[next]

Proceed == /\ next' = next + 1
           /\ listed' = [ids |-> <<>>, pages |-> 0]

SkipProvider(p) ==
    /\ Discovering(p)
    /\ ~p.discover
    /\ Proceed
    /\ UNCHANGED <<phase, config, models, chains, names, prices>>

\* ListModels fails on any page: nothing of the provider is used.
ListModelsFails(p) ==
    /\ Discovering(p)
    /\ p.discover
    /\ listed.pages < MaxPages
    /\ Proceed
    /\ UNCHANGED <<phase, config, models, chains, names, prices>>

\* A page, and a cursor to a next one.
ListModelsPage(p) ==
    /\ Discovering(p)
    /\ p.discover
    /\ listed.pages + 1 < MaxPages
    /\ \E ids \in SeqOf(ModelIDs, 1) : listed' = [ids |-> listed.ids \o ids, pages |-> listed.pages + 1]
    /\ UNCHANGED <<phase, config, models, chains, names, prices, next>>

\* A filter is a sequence of patterns: what each excludes or includes, and
\* whether it is malformed.  The first pattern that excludes or errs decides.
matchDiscoverFilter(id, filter) ==
    LET decisive == SelectSeq(filter, LAMBDA f : f.malformed \/ (f.exclude /\ id \in f.matches))
        includes == SelectSeq(filter, LAMBDA f : ~f.exclude)
    IN  CASE decisive # <<>> -> IF Head(decisive).malformed THEN "error" ELSE "no"
          [] includes = <<>> \/ \E f \in ToSet(includes) : id \in f.matches -> "yes"
          [] OTHER -> "no"

\* Appending what was listed without a look at the names that are there.
InjectUnchecked(list, p, ids) ==
    FoldLeft(LAMBDA l, id :
                LET m == [name |-> <<p.prefix, id>>, provider |-> p.name, upstream |-> id,
                          fallbacks |-> <<>>, metadata |-> FALSE]
                IN  IF matchDiscoverFilter(id, p.filter) # "yes" THEN l ELSE Append(l, m),
             list, ids)

\* Entries, and models discovered before, keep their names.
Inject(list, p, ids) ==
    FoldLeft(LAMBDA l, id :
                LET m == [name |-> <<p.prefix, id>>, provider |-> p.name, upstream |-> id,
                          fallbacks |-> <<>>, metadata |-> FALSE]
                IN  IF \/ matchDiscoverFilter(id, p.filter) # "yes"
                       \/ \E e \in ToSet(l) : e.name = m.name
                    THEN l ELSE Append(l, m),
             list, ids)

\* The last page: a malformed filter ends the start, otherwise the models that
\* pass the filter are appended.
InjectDiscoveredModels(p) ==
    /\ Discovering(p)
    /\ p.discover
    /\ listed.pages < MaxPages
    /\ \E ids \in SeqOf(ModelIDs, 1) :
         LET all == listed.ids \o ids
         IN  IF \E id \in ToSet(all) : matchDiscoverFilter(id, p.filter) = "error" THEN Reject
             ELSE /\ models' = Inject(models, p, all)
                  /\ Proceed
                  /\ UNCHANGED <<phase, config, chains, names, prices>>

\* After the last provider the chains are built, again or for the first time.
Rebuild ==
    /\ phase = "listing"
    /\ next > Len(config.providers)
    /\ LET built == buildResolvedChains(models)
       IN  IF ~built.ok THEN Reject
           ELSE /\ chains' = built.chains
                /\ phase' = "serving"
                /\ UNCHANGED <<config, models, names, prices, next, listed>>

CatalogInit ==
    /\ phase = "file"
    /\ config \in Configs
    /\ models = <<>>
    /\ chains = <<>>
    /\ names = <<>>
    /\ prices = <<>>
    /\ next = 1
    /\ listed = [ids |-> <<>>, pages |-> 0]

CatalogNext ==
    \/ Load \/ UnsupportedProvider \/ NewProviderRegistry \/ Rebuild
    \/ \E i \in DOMAIN config.providers :
         LET p == config.providers[i]
         IN  SkipProvider(p) \/ ListModelsFails(p) \/ ListModelsPage(p) \/ InjectDiscoveredModels(p)

CatalogSpec == CatalogInit /\ [][CatalogNext]_catalogVars

-------------------------------------------------------------------------------
\* The fallback graph: who names whom, by the entry of a name that counts.
Edges(list) == {e \in Defined(list) \X Defined(list) : e[2] \in ToSet(byName(list, e[1]).fallbacks)}
Acyclic(list) ==
    LET D == Defined(list)
        closure == TransitiveClosure([x, y \in D |-> <<x, y>> \in Edges(list)], D)
    IN  \A n \in D : ~closure[n, n]

\* Whether a model list makes sense, said without a search: buildResolvedChains
\* accepts a list exactly when its entries are exclusive, every fallback resolves
\* and no name is reached from itself.
Sensible(list) ==
    /\ \A m \in ToSet(Explicit(list)) : Exclusive(m)
    /\ References(list)
    /\ Acyclic(list)

\* The passes of buildResolvedChains against their meaning: the server serves a
\* sensible list only, and rejects one only for a reason; every name has a chain,
\* which for a virtual model is those of its fallbacks one after the other.
ChainsMatchReference ==
    /\ phase = "serving" =>
         /\ Sensible(models)
         /\ \A n \in Defined(models) :
              LET m == byName(models, n)
              IN  chains[n] = IF IsVirtual(m)
                              THEN FlattenSeq([i \in DOMAIN m.fallbacks |-> FindModel(models, chains, m.fallbacks[i])])
                              ELSE <<TargetOf(m)>>
    /\ phase = "rejected" =>
         \/ ~validateProviders(config.providers)
         \/ \E i \in DOMAIN config.providers : ~buildProvider(config.providers[i])
         \/ ~Sensible(IF models = <<>> THEN config.models ELSE models)
         \/ \E i \in DOMAIN config.providers, id \in ModelIDs :
              matchDiscoverFilter(id, config.providers[i].filter) = "error"

\* What providers list never changes where a configured name leads, unless it
\* led through a wildcard, which any explicit name precedes.
DiscoveryKeepsConfig ==
    LET built == buildResolvedChains(config.models)
        Direct(n) == \A ref \in ToSet(byName(config.models, n).fallbacks) : ref \in Defined(config.models)
    IN  phase = "serving" /\ built.ok /\ (\A n \in Defined(config.models) : Direct(n)) =>
            \A n \in Defined(config.models) : FindModel(models, chains, n) = built.chains[n]
===============================================================================
