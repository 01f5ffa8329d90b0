--------------------------- MODULE ProviderRoute ---------------------------
(***************************************************************************)
(* The pure part of the AI provider configuration of ai.go: how provider   *)
(* keys are made unique, how a stored configuration is normalised each     *)
(* time it is read or written, how the default route is built, what the    *)
(* settings page shows of it, what validation accepts, and in which order  *)
(* a question tries the providers.                                         *)
(*                                                                         *)
(* A configuration is [enabled, providers, route]: the providers in the    *)
(* order of the JSON list and the providers list of the task class         *)
(* "standard".  A provider is [name, key, model, secret, prio]; NoModel    *)
(* stands for an empty model or base URL and secret 0 for no API key.      *)
(* A name is a number, and the key its n-th holder gets ("zhipu",          *)
(* "zhipu-2", ...) the number 10 * name + n, so that keys are ordered as   *)
(* the strings are and a name is spelled like the first key made from it.  *)
(***************************************************************************)
EXTENDS Integers, Sequences, FiniteSets, SequencesExt

CONSTANTS NoModel,      \* an empty model or base URL
          FlashModel,   \* the model pickDefaultAIProvider prefers
          MaxPriority   \* the cap of nextAIProviderPriority (10000 in the code)

NoKey == 0

Slug(name) == 10 * name + 1

KeysOf(ps) == {ps[i].key : i \in DOMAIN ps}

Keys(ps) == [i \in DOMAIN ps |-> ps[i].key]

\* AIProvider and AIConfigData, as JSON gives them.
IsProvider(p) ==
    p \in [name : Nat, key : Nat, model : {p.model}, secret : Nat, prio : Int]

IsConfig(cfg) ==
    /\ cfg \in [enabled : BOOLEAN, providers : Seq(Range(cfg.providers)),
                route : Seq(Range(cfg.route))]
    /\ \A i \in DOMAIN cfg.providers : IsProvider(cfg.providers[i])

\* No provider is named like the key of another.
NamesApart(ps) == \A i, j \in DOMAIN ps : i # j => ps[i].key # Slug(ps[j].name)

\* generateProviderKey: the first of name, name-2, name-3, ... not in use.
GenerateKey(name, taken) ==
    Min({10 * name + n : n \in 1..(Cardinality(taken) + 1)} \ taken)

\* A missing key is made from the name, and a repeated one from itself.
KeyFor(p, taken) ==
    CASE p.key = NoKey -> GenerateKey(p.name, taken)
      [] p.key # NoKey /\ p.key \in taken -> GenerateKey(p.key \div 10, taken)
      [] OTHER -> p.key

WithUniqueKeys(ps) ==
    LET keyed[i \in DOMAIN ps] ==
          [ps[i] EXCEPT !.key = KeyFor(ps[i], {keyed[j].key : j \in 1..(i - 1)})]
    IN keyed

\* The positions of the providers a route entry names, by key or by name.
Named(ps, entry) ==
    {i \in DOMAIN ps : ps[i].key = entry \/ Slug(ps[i].name) = entry}

\* normalizeAIConfig: the maps it fills keep the last provider of an entry.
Normalize(cfg) ==
    LET ps == WithUniqueKeys(cfg.providers)
    IN [cfg EXCEPT
          !.providers = ps,
          !.route = [i \in DOMAIN @ |->
                       IF Named(ps, @[i]) = {} THEN @[i]
                       ELSE ps[Max(Named(ps, @[i]))].key]]

Before(p, q) == p.prio < q.prio \/ (p.prio = q.prio /\ p.key < q.key)

\* The members of a finite set, in the order of the pairs in R.
InOrder(S, R) ==
    [k \in 1..Cardinality(S) |->
        CHOOSE x \in S : Cardinality({y \in S : <<y, x>> \in R}) = k - 1]

\* The entries of a sequence at the positions in I.
At(seq, I) ==
    LET at == InOrder(I, {e \in I \X I : e[1] < e[2]})
    IN [k \in DOMAIN at |-> seq[at[k]]]

\* aiProvidersByPriority: the keys of the providers in S, each of which has its own.
ByPriority(S) == Keys(InOrder(S, {e \in S \X S : Before(e[1], e[2])}))

Routable(p) == p.model # NoModel /\ p.secret > 0

\* A secret is known by its row: secrets is the set of ids in ai_secrets.
Usable(p, secrets) == Routable(p) /\ p.secret \in secrets

\* buildDefaultRouting.
DefaultRoute(ps, secrets) == ByPriority({p \in Range(ps) : Usable(p, secrets)})

WithDefaultRoute(cfg, secrets) ==
    [cfg EXCEPT !.route = DefaultRoute(cfg.providers, secrets)]

FirstOfEach(seq) ==
    At(seq, {i \in DOMAIN seq : \A j \in 1..(i - 1) : seq[j] # seq[i]})

\* aiProvidersForRoute, aiProvidersByPriority and the visited set of
\* callRoutedAIChat: the keys a question tries, in order.
Attempts(cfg) ==
    LET ps == cfg.providers
        found(e) == ps[Max(Named(ps, e))]
        routed == At(cfg.route, {i \in DOMAIN cfg.route :
                                   /\ Named(ps, cfg.route[i]) # {}
                                   /\ Routable(found(cfg.route[i]))})
    IN FirstOfEach(IF routed # <<>> THEN [i \in DOMAIN routed |-> found(routed[i]).key]
                   ELSE ByPriority({p \in Range(ps) : Routable(p)}))

\* aiSettingsRouteProviderKeys: the route the settings page shows.
ShownRoute(cfg, secrets) ==
    LET c == Normalize(cfg)
        usable == {p \in Range(c.providers) : Usable(p, secrets)}
        shown == At(c.route, {i \in DOMAIN c.route :
                                \E p \in usable : p.key = c.route[i]})
    IN IF shown # <<>> THEN FirstOfEach(shown) ELSE ByPriority(usable)

\* Mutant: what is published is checked like any draft.
ValidAsDraft(cfg, publishing, secrets) ==
    LET ps == cfg.providers
    IN /\ cfg.enabled => ps # <<>>
       /\ \A i \in DOMAIN ps : /\ ps[i].model # NoModel
                               /\ ps[i].secret = 0 \/ ps[i].secret \in secrets
       /\ \A e \in Range(cfg.route) : e \in KeysOf(ps)

\* validateAIConfigData: report["ok"].
Valid(cfg, publishing, secrets) ==
    LET ps == cfg.providers
    IN /\ \A i \in DOMAIN ps : /\ ps[i].model # NoModel
                               /\ ps[i].secret = 0 \/ ps[i].secret \in secrets
       /\ cfg.enabled => ps # <<>>
       /\ cfg.enabled /\ publishing => /\ cfg.route # <<>>
                                       /\ \E i \in DOMAIN ps : ps[i].secret > 0
       /\ \A e \in Range(cfg.route) :
            \E i \in DOMAIN ps : /\ ps[i].key = e
                                 /\ cfg.enabled /\ publishing => ps[i].secret > 0

IndexOf(ps, key) == CHOOSE i \in DOMAIN ps : ps[i].key = key

\* nextAIProviderPriority.
NextPriority(ps) ==
    LET top == Max({0} \cup {ps[i].prio : i \in DOMAIN ps})
    IN IF top + 10 > MaxPriority THEN MaxPriority ELSE top + 10

\* makeAIProviderDefault: the provider first, then the others as they were.
MakeDefault(ps, key) ==
    LET order == <<key>> \o ByPriority({p \in Range(ps) : p.key # key})
        place(k) == CHOOSE i \in DOMAIN order : order[i] = k
    IN [i \in DOMAIN ps |-> [ps[i] EXCEPT !.prio = 10 * place(ps[i].key)]]

\* pickDefaultAIProvider on a configuration as loaded, whose providers carry
\* no secret metadata, so that none counts as usable: among the routed ones,
\* else among all by priority (a stable sort), the first with the preferred
\* model, else the first.
PickDefault(cfg) ==
    LET ps == cfg.providers
        known == SelectSeq(cfg.route, LAMBDA e : Named(ps, e) # {})
        routed == [i \in DOMAIN known |-> ps[Max(Named(ps, known[i]))]]
        sorted == SortSeq([i \in DOMAIN ps |-> i],
                          LAMBDA i, j : \/ ps[i].prio < ps[j].prio
                                        \/ ps[i].prio = ps[j].prio /\ i < j)
        pool == IF routed # <<>> THEN routed ELSE [i \in DOMAIN ps |-> ps[sorted[i]]]
        flash == SelectSeq(pool, LAMBDA p : p.model = FlashModel)
    IN IF pool = <<>> THEN NoKey
       ELSE IF flash # <<>> THEN flash[1].key ELSE pool[1].key
=============================================================================
