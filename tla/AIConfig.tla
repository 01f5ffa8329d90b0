----------------------------- MODULE AIConfig -----------------------------
(***************************************************************************)
(* The versions of the AI configuration (ai.go): the settings API, which   *)
(* edits the draft above the active version and applies it, and the older  *)
(* draft API kept beside it.  Requests run concurrently; every one reads   *)
(* the database in one statement, decides, may wait for a provider that is *)
(* being tested, and writes in a later statement.  The database has one    *)
(* connection (db.SetMaxOpenConns(1)): a statement is a step, and so is a  *)
(* transaction.  Secret rows are never deleted.                            *)
(***************************************************************************)
EXTENDS ProviderRoute

CONSTANTS Requests,     \* the requests that can be in flight at once
          Names, Models,
          Priorities,   \* the priorities a request may give, which is never 0
          Patches,      \* the bodies of PATCH /api/ai/providers/{key}
          Served,       \* providers with API key 1 that may be in use at the start
          Handmade,     \* the configurations put through the draft API
          ExpertAlone,  \* the draft API is used only while nothing else runs
          MaxArrivals   \* how many requests arrive (bounds the run)

\* What reaches the API is well formed, and a provider in use at the start can
\* be routed to.
ASSUME InputAssumption ==
    /\ MaxArrivals \in Nat /\ MaxPriority \in Nat
    /\ Names \subseteq Nat \ {0} /\ Priorities \subseteq Nat \ {0}
    /\ \A p \in Patches : p.name \in Nat /\ p.prio \in Nat
    /\ \A p \in Served : IsProvider(p) /\ p.key # NoKey /\ p.model # NoModel /\ p.secret = 1
    /\ \A cfg \in Handmade : IsConfig(cfg)

VARIABLES rows,     \* ai_config_versions: the row of version v is rows[v]
          secrets,  \* ai_secrets: for each id, the master key it is sealed with
          keyFile,  \* the key in ai-master.key, 0 while there is no file
          req,      \* for each request, where its handler stands
          arrivals, \* how many requests arrived (bounds the run)
          tested,   \* history: the providers a connection test accepted
          byHand    \* history: the versions the draft API activated

vars == <<rows, secrets, keyFile, req, arrivals, tested, byHand>>

SettingsKinds == {"create", "update", "delete", "apply", "disable", "enable", "save"}
ExpertKinds == {"new", "put", "validate", "publish"}

NoProvider == [name |-> 0, key |-> NoKey, model |-> NoModel, secret |-> 0, prio |-> 10]

\* defaultAIConfig.
DefaultConfig == [enabled |-> FALSE, providers |-> <<>>, route |-> <<>>]

Idle == [pc |-> "idle", kind |-> "none", key |-> NoKey, other |-> NoKey,
         patch |-> NoProvider, cred |-> FALSE, flag |-> FALSE, test |-> FALSE,
         on |-> FALSE, seen |-> 0, ver |-> 0, hasEd |-> FALSE,
         cfg |-> DefaultConfig, toTest |-> {}, val |-> "not_run", mk |-> 0]

SecretIds == DOMAIN secrets

Versions == DOMAIN rows
WithStatus(st) == {v \in Versions : rows[v].status \in st}
ActiveVersion == Max({0} \cup WithStatus({"active"}))
\* loadEditableAIConfig's second query, for the active version the first saw.
EditableAbove(seen) == Max({0} \cup {v \in WithStatus({"draft", "failed"}) : v > seen})

\* A configuration is normalised as it is written, and again as it is read.
Row(status, cfg, val) == [status |-> status, cfg |-> Normalize(cfg), val |-> val]

Config(v) == Normalize(rows[v].cfg)

\* Mutant: a publication leaves the version before it active.
SupersedeNone(all) == all

Superseded(all) ==
    [v \in DOMAIN all |-> IF all[v].status = "active"
                          THEN [all[v] EXCEPT !.status = "superseded"] ELSE all[v]]

\* What a test accepts: the provider as it was, with the row its API key is in.
Tested(p) == [key |-> p.key, model |-> p.model, secret |-> p.secret]

\* A new database, with or without a key file from an earlier use of the data
\* directory, or one in which provider Served was saved and enabled before.
Init ==
    /\ \/ /\ rows = <<>> /\ secrets = <<>> /\ tested = {}
          /\ keyFile \in {0, 1}
       \/ \E p \in Served :
             /\ rows = <<[Row("active", DefaultConfig, "pass") EXCEPT !.status = "superseded"],
                         Row("active", [enabled |-> TRUE, providers |-> <<p>>,
                                        route |-> <<p.key>>], "pass")>>
             /\ secrets = <<1>> /\ keyFile = 1
             /\ tested = {Tested(p)}
    /\ req = [r \in Requests |-> Idle]
    /\ arrivals = 0
    /\ byHand = {}

Put(r, q) == req' = [req EXCEPT ![r] = q]
Goto(r, pc) == req' = [req EXCEPT ![r].pc = pc]
Done(r) == Put(r, Idle)

\* buildAISettingsResponse ends a settings request; its encryption_ready makes
\* the key file when there is none.
Responds(r) == IF keyFile # 0 THEN Done(r) ELSE Put(r, [Idle EXCEPT !.pc = "respond"])

Quiet == \A r \in Requests : req[r].pc = "idle"
ExpertInFlight == \E r \in Requests : req[r].kind \in ExpertKinds

Free(r) == req[r].pc = "idle" /\ arrivals < MaxArrivals

Arrive(r, body) ==
    /\ Free(r)
    /\ ExpertAlone => IF body.kind \in ExpertKinds THEN Quiet ELSE ~ExpertInFlight
    /\ arrivals' = arrivals + 1
    /\ req' = [req EXCEPT ![r] = body]
    /\ UNCHANGED <<rows, secrets, keyFile, tested, byHand>>

Body(kind, pc) == [Idle EXCEPT !.kind = kind, !.pc = pc]

KnownKeys == UNION {KeysOf(rows[v].cfg.providers) : v \in Versions}

\* handleAIProviders, POST, with validateAIProviderMutation passed.  The
\* priority may be left out.
CreateArrives(r) ==
    \E name \in Names, model \in Models, prio \in Priorities \cup {0}, test \in BOOLEAN :
        Arrive(r, [Body("create", "ensure") EXCEPT
                     !.patch = [NoProvider EXCEPT !.name = name, !.model = model, !.prio = prio],
                     !.cred = TRUE, !.test = test])

\* handleAIProviders, PATCH: a new name, model or priority (0 for none), a new
\* API key, make_default and test_before_save.
UpdateArrives(r) ==
    \E key \in KnownKeys, p \in Patches :
        Arrive(r, [Body("update", "ensure") EXCEPT
                     !.key = key, !.cred = p.cred, !.flag = p.makeDefault, !.test = p.test,
                     !.patch = [NoProvider EXCEPT !.name = p.name, !.model = p.model,
                                                  !.prio = p.prio]])

\* handleAIProviders, DELETE.
DeleteArrives(r) ==
    \E key \in KnownKeys, other \in KnownKeys \cup {NoKey} :
        Arrive(r, [Body("delete", "ensure") EXCEPT !.key = key, !.other = other])

\* handleAISettingsApply: the flag is the policy all_routable.
ApplyArrives(r) ==
    \E on, all \in BOOLEAN :
        Arrive(r, [Body("apply", "ensure") EXCEPT !.on = on, !.flag = all])

\* handleAISettings and handleAIStatus, GET.
ViewArrives(r) == Arrive(r, Body("view", "ensure"))

\* handleAIProviderTest of a stored provider, and aiProviderTestAPIKey: its
\* connection is tested as it is saved, and nothing is written.
ProbeArrives(r) ==
    \E key \in KnownKeys : Arrive(r, [Body("probe", "ensure") EXCEPT !.key = key])

\* handleAISecrets: POST a new API key (0), or PATCH one.
SecretArrives(r) ==
    \E id \in SecretIds \cup {0} : Arrive(r, [Body("secret", "secret") EXCEPT !.ver = id])

\* handleAISettingsEnabled: only enabled=false is accepted.
DisableArrives(r) == Arrive(r, Body("disable", "ensure"))

\* handleAIDefaultProviderSettings, enable=true or false.
SaveDefaultArrives(r) ==
    \E kind \in {"enable", "save"}, key \in KnownKeys \cup {NoKey}, name \in Names,
       model \in Models, prio \in Priorities, cred \in BOOLEAN :
        Arrive(r, [Body(kind, "ensure") EXCEPT
                     !.key = key, !.cred = cred,
                     !.patch = [NoProvider EXCEPT !.name = name, !.model = model, !.prio = prio]])

\* handleAIConfig: POST drafts, PUT drafts/{v}, POST drafts/{v}/validate and
\* POST drafts/{v}/publish.
ExpertArrives(r) ==
    \/ Arrive(r, Body("new", "ensure"))
    \/ \E v \in Versions :
         \/ \E data \in Handmade :
              Arrive(r, [Body("put", "read") EXCEPT !.ver = v, !.cfg = Normalize(data)])
         \/ \E kind \in {"validate", "publish"} :
              Arrive(r, [Body(kind, "read") EXCEPT !.ver = v])


-----------------------------------------------------------------------------
(* ensureActiveAIConfig and loadEditableAIConfig                           *)

\* What follows ensureActiveAIConfig, with active version v in hand.
Ensured(r, v) ==
    LET kind == req[r].kind
        q == [req[r] EXCEPT !.ver = v, !.cfg = Config(v),
                            !.on = IF kind = "apply" THEN @ ELSE rows[v].cfg.enabled]
    IN CASE kind = "view" -> Responds(r)
         [] kind = "disable" -> Put(r, [q EXCEPT !.pc = "publish"])
         [] kind = "new" -> Put(r, [q EXCEPT !.pc = "max"])
         [] OTHER -> Put(r, [q EXCEPT !.pc = "edit"])

ReadActive(r) ==
    /\ req[r].pc = "ensure"
    /\ IF ActiveVersion = 0 THEN Goto(r, "default") ELSE Ensured(r, ActiveVersion)
    /\ UNCHANGED <<rows, secrets, keyFile, arrivals, tested, byHand>>

\* The default is always inserted as version 1, which is UNIQUE.
InsertDefault(r) ==
    /\ req[r].pc = "default"
    /\ IF rows = <<>>
       THEN /\ rows' = <<Row("active", DefaultConfig, "pass")>>
            /\ Goto(r, "reread")
       ELSE /\ Done(r)
            /\ UNCHANGED rows
    /\ UNCHANGED <<secrets, keyFile, arrivals, tested, byHand>>

RereadActive(r) ==
    /\ req[r].pc = "reread"
    /\ IF ActiveVersion = 0 THEN Done(r) ELSE Ensured(r, ActiveVersion)
    /\ UNCHANGED <<rows, secrets, keyFile, arrivals, tested, byHand>>

ReadActiveVersion(r) ==
    /\ req[r].pc = "edit"
    /\ Put(r, [req[r] EXCEPT !.seen = ActiveVersion, !.pc = "editable"])
    /\ UNCHANGED <<rows, secrets, keyFile, arrivals, tested, byHand>>

\* loadAIConfigEditBase: the request with its base, the draft or the active,
\* which every handler normalises once more.
Loaded(r) ==
    LET q == req[r]
        e == EditableAbove(q.seen)
        base == IF e = 0 THEN q ELSE [q EXCEPT !.ver = e, !.hasEd = TRUE, !.cfg = Config(e)]
    IN [base EXCEPT !.cfg = Normalize(@)]

-----------------------------------------------------------------------------
(* The end of an edit: routing, validation, and what is to be written      *)

Writing(q, val) ==
    [q EXCEPT !.val = val, !.pc = IF q.hasEd THEN "update" ELSE "max"]

\* buildDefaultRouting, but for an apply, which has its route already; then
\* aiConfigEditReport (validateAIConfigData when it is to be published).  What
\* is saved or published is normalised first.  ids are the secrets that exist.
Settled(q, ids) ==
    LET ps == IF q.kind = "update" /\ q.flag
              THEN MakeDefault(q.cfg.providers, q.key) ELSE q.cfg.providers
        enabled == CASE q.kind = "enable" -> TRUE
                     [] q.kind = "save" -> q.on
                     [] OTHER -> q.cfg.enabled
        cfg == IF q.kind = "apply" THEN q.cfg
               ELSE WithDefaultRoute([q.cfg EXCEPT !.providers = ps, !.enabled = enabled], ids)
        s == [q EXCEPT !.cfg = Normalize(cfg), !.toTest = {}]
    IN IF q.kind \notin {"enable", "apply"} THEN Writing(s, "not_run")
       ELSE IF Valid(cfg, TRUE, ids) THEN [s EXCEPT !.val = "pass", !.pc = "publish"]
       ELSE Writing(s, "fail")

\* After the connection test, a new API key is stored first.
AfterTest(q) == IF q.cred THEN [q EXCEPT !.pc = "secret"] ELSE Settled(q, SecretIds)

AfterLoad(q) == IF q.toTest # {} THEN [q EXCEPT !.pc = "test"] ELSE AfterTest(q)

Provider(q) == q.cfg.providers[IndexOf(q.cfg.providers, q.key)]

\* The provider of the request with its new contents.
WithProvider(q, p) ==
    [q EXCEPT !.cfg.providers = [i \in DOMAIN @ |-> IF @[i].key = p.key THEN p ELSE @[i]]]

-----------------------------------------------------------------------------
(* The settings API: loadEditableAIConfig and the decision on what it read *)

Loading(r, kinds) == req[r].pc = "editable" /\ req[r].kind \in kinds

\* createAIProviderSettings.
CreateProvider(r) ==
    /\ Loading(r, {"create"})
    /\ LET q == Loaded(r)
           ps == q.cfg.providers
           p == [q.patch EXCEPT !.key = GenerateKey(q.patch.name, KeysOf(ps)),
                                !.prio = IF @ # 0 THEN @ ELSE NextPriority(ps)]
       IN Put(r, AfterLoad([q EXCEPT !.key = p.key,
                                     !.cfg.providers = Append(ps, p),
                                     !.toTest = IF q.test THEN {p.key} ELSE {}]))
    /\ UNCHANGED <<rows, secrets, keyFile, arrivals, tested, byHand>>

\* updateAIProviderSettings: an API key is needed for a test and to become
\* the default.
UpdateProvider(r) ==
    /\ Loading(r, {"update"})
    /\ LET q == Loaded(r) IN
       IF q.key \notin KeysOf(q.cfg.providers) THEN Done(r)
       ELSE LET old == Provider(q)
                p == [old EXCEPT !.name = IF q.patch.name # 0 THEN q.patch.name ELSE @,
                                 !.model = IF q.patch.model # NoModel THEN q.patch.model ELSE @,
                                 !.prio = IF q.patch.prio # 0 THEN q.patch.prio ELSE @]
            IN IF \/ p.model = NoModel
                  \/ (q.flag \/ q.test) /\ ~q.cred /\ p.secret = 0
               THEN Done(r)
               ELSE Put(r, AfterLoad([WithProvider(q, p) EXCEPT
                                        !.toTest = IF q.test THEN {q.key} ELSE {}]))
    /\ UNCHANGED <<rows, secrets, keyFile, arrivals, tested, byHand>>

\* deleteAIProviderSettings: the default of an enabled configuration is
\* deleted only for a replacement that can be routed to.
DeleteProvider(r) ==
    /\ Loading(r, {"delete"})
    /\ LET q == Loaded(r)
           ps == q.cfg.providers
           route == DefaultRoute(ps, SecretIds)
           isDefault == q.on /\ route # <<>> /\ route[1] = q.key
           without(all) == At(all, {i \in DOMAIN all : all[i].key # q.key})
       IN IF \/ q.key \notin KeysOf(ps)
             \/ isDefault /\ (q.other = q.key \/ q.other \notin Range(route))
          THEN Done(r)
          ELSE Put(r, Settled([q EXCEPT !.cfg.providers =
                                 without(IF isDefault THEN MakeDefault(ps, q.other) ELSE ps)],
                              SecretIds))
    /\ UNCHANGED <<rows, secrets, keyFile, arrivals, tested, byHand>>

\* Mutant: only the policy all_routable tests anything.
AppliedTestsAll(q, route) == IF q.on /\ q.flag THEN Range(route) ELSE {}

\* The providers testAIProvidersForApply tests: all of the route or its first.
AppliedTests(q, route) ==
    IF ~q.on THEN {} ELSE IF q.flag THEN Range(route) ELSE {route[1]}

\* applyAISettings: the route is made before the tests and kept.
ApplySettings(r) ==
    /\ Loading(r, {"apply"})
    /\ LET q == Loaded(r)
           cfg == WithDefaultRoute([q.cfg EXCEPT !.enabled = q.on], SecretIds)
       IN IF ~q.hasEd \/ (q.on /\ cfg.route = <<>>) THEN Responds(r)
          ELSE Put(r, AfterLoad([q EXCEPT !.cfg = cfg,
                                          !.toTest = AppliedTests(q, cfg.route)]))
    /\ UNCHANGED <<rows, secrets, keyFile, arrivals, tested, byHand>>

\* saveAIDefaultProviderSettings with mergeDefaultProviderSettings: the named
\* provider, else the default one, else a new one.
SaveDefault(r) ==
    /\ Loading(r, {"enable", "save"})
    /\ LET q == Loaded(r)
           ps == q.cfg.providers
           key == IF q.key # NoKey THEN q.key ELSE PickDefault(q.cfg)
           old == IF key \in KeysOf(ps) THEN ps[IndexOf(ps, key)]
                  ELSE [NoProvider EXCEPT !.key = GenerateKey(q.patch.name, KeysOf(ps))]
           p == [old EXCEPT !.name = q.patch.name, !.model = q.patch.model,
                            !.prio = q.patch.prio]
           all == IF key \in KeysOf(ps) THEN ps ELSE Append(ps, p)
           merged == WithProvider([q EXCEPT !.cfg.providers = all, !.key = p.key], p)
       IN IF \/ q.key # NoKey /\ q.key \notin KeysOf(ps)
             \/ ~q.cred /\ p.secret = 0
          THEN Done(r)
          ELSE Put(r, AfterLoad([merged EXCEPT
                                   !.cfg = Normalize(@),
                                   !.toTest = IF q.kind = "enable" THEN {p.key} ELSE {}]))
    /\ UNCHANGED <<rows, secrets, keyFile, arrivals, tested, byHand>>

\* decryptAISecret works with the key the secret was sealed with.
Opens(id) == id \in SecretIds /\ secrets[id] = keyFile

\* testOpenAICompatibleProvider and testAIProvidersForApply: the providers
\* answer or they do not, and a request one fails ends without a write.  A new
\* API key has no row yet when it is tested: InsertSecret notes that it was.
TestProviders(r) ==
    /\ req[r].pc = "test"
    /\ LET q == req[r]
           ps == {p \in Range(q.cfg.providers) : p.key \in q.toTest}
       IN \/ /\ \A p \in ps : q.cred \/ Opens(p.secret)
             /\ Put(r, AfterTest(q))
             /\ tested' = IF q.cred THEN tested ELSE tested \cup {Tested(p) : p \in ps}
          \/ /\ IF q.kind = "apply" THEN Responds(r) ELSE Done(r)
             /\ UNCHANGED tested
    /\ UNCHANGED <<rows, secrets, keyFile, arrivals, byHand>>

\* loadEditableAIConfig for a test on its own; its outcome is only answered.
ProbeProvider(r) ==
    /\ Loading(r, {"probe"})
    /\ Done(r)
    /\ UNCHANGED <<rows, secrets, keyFile, arrivals, tested, byHand>>

-----------------------------------------------------------------------------
(* createOrUpdateAISecret and aiMasterKey                                  *)

ReadMasterKey(r) ==
    /\ req[r].pc \in {"secret", "respond"}
    /\ LET q == req[r] IN
       IF keyFile = 0 THEN Put(r, [q EXCEPT !.pc = IF @ = "secret" THEN "newkey" ELSE "firstkey"])
       ELSE IF q.pc = "respond" THEN Done(r)
       ELSE Put(r, [q EXCEPT !.mk = keyFile, !.pc = "seal"])
    /\ UNCHANGED <<rows, secrets, keyFile, arrivals, tested, byHand>>

\* The file is written whether or not another request wrote one meanwhile.
WriteMasterKey(r) ==
    /\ req[r].pc \in {"newkey", "firstkey"}
    /\ keyFile' = keyFile + 1
    /\ IF req[r].pc = "firstkey" THEN Done(r)
       ELSE Put(r, [req[r] EXCEPT !.mk = keyFile + 1, !.pc = "seal"])
    /\ UNCHANGED <<rows, secrets, arrivals, tested, byHand>>

InsertSecret(r) ==
    /\ req[r].pc = "seal" /\ req[r].kind # "secret"
    /\ secrets' = Append(secrets, req[r].mk)
    /\ LET id == Len(secrets) + 1
           q == [req[r] EXCEPT !.mk = 0]
           p == [Provider(q) EXCEPT !.secret = id]
       IN /\ Put(r, Settled(WithProvider(q, p), SecretIds \cup {id}))
          /\ tested' = IF q.toTest = {} THEN tested ELSE tested \cup {Tested(p)}
    /\ UNCHANGED <<rows, keyFile, arrivals, byHand>>

\* The secrets API stores the key and leaves the configurations as they are.
StoreSecret(r) ==
    /\ req[r].pc = "seal" /\ req[r].kind = "secret"
    /\ LET q == req[r]
       IN secrets' = IF q.ver = 0 THEN Append(secrets, q.mk)
                     ELSE [secrets EXCEPT ![q.ver] = q.mk]
    /\ Done(r)
    /\ UNCHANGED <<rows, keyFile, arrivals, tested, byHand>>

-----------------------------------------------------------------------------
(* saveEditableAIConfig, publishAIConfig, publishAIEnabled                 *)

\* Mutant: the outcome of the validation is stored as the status.
StatusRaw(val) == val

StatusFor(val) == IF val = "fail" THEN "failed" ELSE "draft"

\* A failed validation is saved, and then reported without the settings.
Written(r) == IF req[r].val = "fail" \/ req[r].kind = "new" THEN Done(r) ELSE Responds(r)

\* Mutant: UPDATE ... WHERE version = ?.
UpdateAny(r) ==
    /\ req[r].pc = "update"
    /\ LET q == req[r] IN rows' = [rows EXCEPT ![q.ver] = Row(StatusFor(q.val), q.cfg, q.val)]
    /\ Written(r)
    /\ UNCHANGED <<secrets, keyFile, arrivals, tested, byHand>>

\* UPDATE ... WHERE version = ? AND status IN ('draft', 'failed'): the number
\* of rows it changed is not looked at.
UpdateEditable(r) ==
    /\ req[r].pc = "update"
    /\ LET q == req[r] IN
       rows' = IF rows[q.ver].status \in {"draft", "failed"}
               THEN [rows EXCEPT ![q.ver] = Row(StatusFor(q.val), q.cfg, q.val)]
               ELSE rows
    /\ Written(r)
    /\ UNCHANGED <<secrets, keyFile, arrivals, tested, byHand>>

ReadMaxVersion(r) ==
    /\ req[r].pc = "max"
    /\ Put(r, [req[r] EXCEPT !.seen = Len(rows), !.pc = "insert"])
    /\ UNCHANGED <<rows, secrets, keyFile, arrivals, tested, byHand>>

\* The version is UNIQUE: of two that read the same maximum, one fails.
InsertDraft(r) ==
    /\ req[r].pc = "insert"
    /\ LET q == req[r] IN
       IF Len(rows) = q.seen
       THEN /\ rows' = Append(rows, Row(StatusFor(q.val), q.cfg, q.val))
            /\ Written(r)
       ELSE /\ Done(r)
            /\ UNCHANGED rows
    /\ UNCHANGED <<secrets, keyFile, arrivals, tested, byHand>>

\* One transaction; the last UPDATE asks for the version alone.
Publish(r) ==
    /\ req[r].pc = "publish" /\ req[r].kind # "disable"
    /\ LET q == req[r]
           draft == Row("draft", q.cfg, "pass")
           v == IF q.hasEd THEN q.ver ELSE Len(rows) + 1
           stored == IF ~q.hasEd THEN Append(rows, draft)
                     ELSE IF rows[v].status \in {"draft", "failed"}
                     THEN [rows EXCEPT ![v] = draft]
                     ELSE rows
       IN rows' = [Superseded(stored) EXCEPT ![v].status = "active"]
    /\ Responds(r)
    /\ UNCHANGED <<secrets, keyFile, arrivals, tested, byHand>>

\* publishAIEnabled, with the configuration ensureActiveAIConfig returned.
PublishDisabled(r) ==
    /\ req[r].pc = "publish" /\ req[r].kind = "disable"
    /\ rows' = Append(Superseded(rows),
                      Row("active", [Normalize(req[r].cfg) EXCEPT !.enabled = FALSE], "pass"))
    /\ Responds(r)
    /\ UNCHANGED <<secrets, keyFile, arrivals, tested, byHand>>

-----------------------------------------------------------------------------
(* The draft API: createAIConfigDraft goes on to ReadMaxVersion            *)

Editable(v) == rows[v].status \in {"draft", "failed"}

\* getAIConfigVersion and the test of the status.
ReadVersion(r) ==
    /\ req[r].pc = "read"
    /\ LET q == req[r] IN
       IF ~Editable(q.ver) THEN Done(r)
       ELSE IF q.kind = "put" THEN Goto(r, "overwrite")
       ELSE Put(r, [q EXCEPT !.pc = "stamp",
                             !.val = IF Valid(Config(q.ver), q.kind = "publish", SecretIds)
                                     THEN "pass" ELSE "fail"])
    /\ UNCHANGED <<rows, secrets, keyFile, arrivals, tested, byHand>>

\* updateAIConfigDraft's UPDATE does not ask for the status again.
OverwriteDraft(r) ==
    /\ req[r].pc = "overwrite"
    /\ rows' = [rows EXCEPT ![req[r].ver] = Row("draft", req[r].cfg, "not_run")]
    /\ Done(r)
    /\ UNCHANGED <<secrets, keyFile, arrivals, tested, byHand>>

\* Nor does validateAIConfigDraft's.
StampValidation(r) ==
    /\ req[r].pc = "stamp"
    /\ LET q == req[r] IN
       /\ rows' = [rows EXCEPT ![q.ver] = [@ EXCEPT !.val = q.val,
                                                    !.status = StatusFor(q.val)]]
       /\ IF q.kind = "publish" THEN Goto(r, "recheck") ELSE Done(r)
    /\ UNCHANGED <<secrets, keyFile, arrivals, tested, byHand>>

\* publishAIConfigDraft looks at the result as it is read back ...
RereadValidation(r) ==
    /\ req[r].pc = "recheck"
    /\ IF rows[req[r].ver].val = "pass" THEN Goto(r, "activate") ELSE Done(r)
    /\ UNCHANGED <<rows, secrets, keyFile, arrivals, tested, byHand>>

\* ... and activates the version in a transaction, whatever it holds by then.
ActivateDraft(r) ==
    /\ req[r].pc = "activate"
    /\ rows' = [Superseded(rows) EXCEPT ![req[r].ver].status = "active"]
    /\ byHand' = byHand \cup {req[r].ver}
    /\ Done(r)
    /\ UNCHANGED <<secrets, keyFile, arrivals, tested>>

Next == \E r \in Requests :
    \/ Free(r) /\ (\/ CreateArrives(r) \/ UpdateArrives(r) \/ DeleteArrives(r)
                   \/ ApplyArrives(r) \/ DisableArrives(r) \/ SaveDefaultArrives(r)
                   \/ ExpertArrives(r) \/ ViewArrives(r) \/ ProbeArrives(r)
                   \/ SecretArrives(r))
    \/ ProbeProvider(r) \/ StoreSecret(r)
    \/ ReadActive(r) \/ InsertDefault(r) \/ RereadActive(r) \/ ReadActiveVersion(r)
    \/ CreateProvider(r) \/ UpdateProvider(r) \/ DeleteProvider(r)
    \/ ApplySettings(r) \/ SaveDefault(r) \/ TestProviders(r)
    \/ ReadMasterKey(r) \/ WriteMasterKey(r) \/ InsertSecret(r)
    \/ UpdateEditable(r) \/ ReadMaxVersion(r) \/ InsertDraft(r)
    \/ Publish(r) \/ PublishDisabled(r)
    \/ ReadVersion(r) \/ OverwriteDraft(r) \/ StampValidation(r)
    \/ RereadValidation(r) \/ ActivateDraft(r)

Spec == Init /\ [][Next]_vars

-----------------------------------------------------------------------------
(* Properties                                                              *)

Statuses == {"draft", "failed", "active", "superseded"}

TypeOK ==
    /\ \A v \in Versions : /\ rows[v].status \in Statuses
                           /\ rows[v].cfg.enabled \in BOOLEAN
                           /\ rows[v].val \in {"not_run", "pass", "fail"}
    /\ \A id \in SecretIds : secrets[id] \in 1..keyFile
    /\ keyFile \in Nat /\ arrivals \in 0..MaxArrivals
    /\ \A r \in Requests : req[r].ver \in {0} \cup Versions \cup SecretIds
    /\ byHand \subseteq Versions

\* Once there is a version there is exactly one active one, whichever settings
\* requests publish, disable, edit or make the first default at the same time
\* (with ExpertAlone, one request of the draft API only while there is no other):
\* questions and settings always find the configuration they are to use.
OneActive == rows # <<>> => Cardinality(WithStatus({"active"})) = 1

\* What was published stays as it was: no later edit, save or publication of
\* a settings request that read the version while it was a draft changes the
\* contents of a version that is or was active.  Beside another request the draft
\* API does change them, which ExpertAlone excludes.
PublishedIsFrozen ==
    [][\A v \in Versions : rows[v].status \in {"active", "superseded"} =>
          /\ rows'[v].cfg = rows[v].cfg
          /\ rows'[v].status \in {"active", "superseded"}]_rows

\* AI is enabled through the settings only with a provider that can be used and
\* whose connection test passed: the test takes seconds, and in the end the
\* provider has the model and the secret row that were tested, whatever other
\* requests saved meanwhile; and questions try it, unless a provider is named
\* like the key of another (see NamesDoNotRoute).  A PATCH of the secret itself
\* replaces the API key in its row, which no test sees again.
EnabledIsTested ==
    \A v \in WithStatus({"active"}) \ byHand :
        LET cfg == Config(v)
        IN cfg.enabled =>
             \E p \in Range(cfg.providers) :
               /\ Usable(p, SecretIds) /\ Tested(p) \in tested
               /\ NamesApart(cfg.providers) => p.key \in Range(Attempts(cfg))

\* A question put to an enabled active configuration finds a provider, and only
\* such as have a model and an API key that exists, whatever the providers are
\* called.  Unless one is named like the key of another, it tries what the
\* settings page shows, in that order; after the settings API that is an order
\* of priority.
ActiveIsServed ==
    \A v \in WithStatus({"active"}) :
        LET cfg == Config(v)
            ps == cfg.providers
            tries == Attempts(cfg)
            shown == ShownRoute(cfg, SecretIds)
        IN cfg.enabled =>
             /\ tries # <<>> /\ shown # <<>>
             /\ \A k \in Range(tries) : \E p \in Range(ps) : p.key = k /\ Usable(p, SecretIds)
             /\ NamesApart(ps) => shown = tries
             /\ NamesApart(ps) /\ v \notin byHand =>
                  tries = ByPriority({p \in Range(ps) : p.key \in Range(tries)})

\* "The name is for display only, users may change it, and routes do not refer
\* to it": after the settings API a question tries the usable providers by
\* priority, whatever their names.  normalizeAIConfig also takes the entries of
\* a route for names.
NamesDoNotRoute ==
    \A v \in WithStatus({"active"}) \ byHand :
        LET cfg == Config(v)
        IN cfg.enabled => Attempts(cfg) = DefaultRoute(cfg.providers, SecretIds)
=============================================================================
