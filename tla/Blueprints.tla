----------------------------- MODULE Blueprints -----------------------------
(***************************************************************************)
(* One blueprint of the platform, its versions, and what is generated from *)
(* them: tenants that run a configuration, and packages of exported code.  *)
(*                                                                         *)
(* The views load a version, and services act later on what was loaded:    *)
(* publishing unpublishes the versions it finds published, an edit writes  *)
(* every column, a generation goes on with the configuration it validated. *)
(* A generation is one transaction that also writes its job: where it      *)
(* fails, the failure is rolled back with everything else, and no job is   *)
(* seen but those that succeeded.                                          *)
(***************************************************************************)
EXTENDS Manifests, Catalog

CONSTANTS Trials,            \* what is tried together: the kinds of request, the pairs of
                             \* kinds that may overlap (racing), the dependencies among the
                             \* business apps (graphs), the configurations (configs), and
                             \* bounds on the rows (versions, jobs)
          Threads,
          Labels,            \* version numbers chosen by hand, n for "vn"
          Statuses,          \* of tenants
          MaxTenants

\* RUNTIME_BASE_MODULE_KEYS.
Base == {"system", "organization", "authentication", "configuration", "tenant"}

\* A version is deployed by one request at a time.
ASSUME BlueprintsAssumption ==
  /\ Accepted(CorePackage, DependsOn)
  /\ Labels \subseteq Nat
  /\ \A mix \in Trials :
       /\ {"create_saas"} \notin mix.racing
       /\ \A graph \in mix.graphs : DOMAIN graph \subseteq ToSet(BusinessPackage)
       /\ \A c \in mix.configs : c = [mode |-> c.mode, modules |-> c.modules,
                                     features |-> c.features, complete |-> c.complete]

VARIABLES
  mix,         \* the kinds of request and configurations of this behaviour
  needs,       \* depends_on of every module
  registry,    \* the modules in the order they were loaded, << >> if they are refused
  version,     \* the SystemBlueprintVersion rows, in the order of their ids
  tenant,      \* the Tenant rows: status, the latest snapshot and where snapshots come from
  generated,   \* the GenerationJob rows
  serving      \* the request each thread is serving

loaded == <<mix, needs, registry>>
blueprintsVars == <<loaded, version, tenant, generated, serving>>

Apps == DOMAIN needs \ ToSet(CorePackage)  \* the business apps there are
Versions == DOMAIN version
Tenants == DOMAIN tenant
Jobs == DOMAIN generated

NoConfig == [mode |-> "none", modules |-> {}, features |-> {}, complete |-> FALSE]
NoPackage == [apps |-> << >>, pruned |-> {}]

NoRequest == [kind |-> "idle", id |-> 0, config |-> NoConfig, number |-> 0,
              publish |-> FALSE, others |-> {}, tenant |-> 0, retry |-> 0]

MayServe(w, kind) ==
  /\ registry # << >>
  /\ kind \in mix.kinds
  /\ serving[w] = NoRequest
  /\ \A v \in Threads \ {w} : serving[v] = NoRequest \/ {kind, serving[v].kind} \in mix.racing

Take(w, request) == serving' = [serving EXCEPT ![w] = request]
Answered(w) == Take(w, NoRequest)

-----------------------------------------------------------------------------
(* Configurations and plans. *)

\* validate_blueprint_config refuses modules nobody registered.
Known(c) == c.modules \subseteq ToSet(registry)

\* It adds "system" and switches off features that miss a module.
Normalised(c) ==
  LET modules == c.modules \cup {"system"}
  IN  [c EXCEPT !.modules = modules,
                !.features = {f \in @ : NeededBy(f) \subseteq modules}]

\* Mutation of Generable: dependencies among modules are not looked at.
CompleteOnly(c, mode) == c.mode = mode /\ c.complete

\* validate_blueprint_version_for_generation, publication apart.
Generable(c, mode) ==
  /\ c.mode = mode
  /\ \A k \in c.modules : needs[k] \subseteq c.modules
  /\ c.complete

\* Mutation of PlannedModules: only what is enabled is kept.
EnabledOnly(c) == Base \cup c.modules

\* The modules of a plan: what is enabled, the runtime's own, and what they need.
PlannedModules(c) == Resolved(registry, Base \cup c.modules, needs)

\* A feature that is off takes its pages and permissions with it, where its module is kept.
Pruned(c) ==
  UNION {Declared[f[1]].prunes[f[2]] :
           f \in {g \in Prunable \ c.features : g[1] \in PlannedModules(c)}}

\* The settings and the routes of a package list its apps in the order they were loaded in.
Installed(c) == InOrder(registry, PlannedModules(c))

\* export_code_package: the apps it installs, and what it takes out of their manifests.
Package(c) == [apps |-> Installed(c), pruned |-> Pruned(c)]

\* The manifest of an app of the package.
Stripped(key, pruned) ==
  LET own == Declared[key]
  IN  [own EXCEPT !.menus = Restrict(@, DOMAIN @ \ pruned),
                  !.permissions = Restrict(@, DOMAIN @ \ pruned)]

\* validate_modules, of the business apps of a package.
Loads(keys, pruned) ==
  LET manifest == [key \in keys |-> Stripped(key, pruned)]
  IN  MenusSound(manifest) /\ PermissionsSound(manifest)

\* Menus and permissions stand together wherever the apps are that their own apps need.
ASSUME LoadsAssumption ==
  \A trial \in Trials : \A graph \in trial.graphs : \A S \in SUBSET DOMAIN graph :
    (\A k \in S : graph[k] \subseteq S) => Loads(S, {})

\* The modules are loaded once, when the program starts; if they are refused it does not.
BlueprintsInit ==
  /\ mix \in Trials
  /\ \E graph \in mix.graphs :
       LET business == InOrder(BusinessPackage, DOMAIN graph)
       IN  /\ needs = [k \in ToSet(CorePackage) \cup DOMAIN graph |->
                         IF k \in DOMAIN graph THEN graph[k] ELSE DependsOn[k]]
           /\ registry = IF Accepted(business, needs) /\ Loads(DOMAIN graph, {})
                         THEN LoadOrder(CorePackage, needs) \o LoadOrder(business, needs)
                         ELSE << >>
  /\ version = << >> /\ tenant = << >> /\ generated = << >>
  /\ serving = [w \in Threads |-> NoRequest]

-----------------------------------------------------------------------------
(* Versions. *)

Live(v) == version[v].live
LiveVersions == {v \in Versions : Live(v)}
Published == {v \in LiveVersions : version[v].published}

\* get_next_blueprint_version: one more than the version made last.
NextNumber == IF LiveVersions = {} THEN 1 ELSE version[Max(LiveVersions)].number + 1

NumberFree(number, v) == \A u \in LiveVersions \ {v} : version[u].number # number

\* create_version or clone_version, up to the versions that publishing it finds published.
LoadNew(w, kind, c, number, publish) ==
  /\ MayServe(w, kind)
  /\ Len(version) < mix.versions
  /\ Known(c)
  /\ publish => Generable(Normalised(c), c.mode)
  /\ Take(w, [NoRequest EXCEPT !.kind = kind, !.config = Normalised(c), !.number = number,
                               !.publish = publish,
                               !.others = IF publish THEN Published ELSE {}])
  /\ UNCHANGED <<loaded, version, tenant, generated>>

Create(w, c, number, publish) == LoadNew(w, "create", c, number, publish)

Clone(w, v, number) == Live(v) /\ LoadNew(w, "clone", version[v].config, number, FALSE)

\* Mutation of Unpublished: the other versions stay published.
StillPublished(others) == version

\* The rows of others, no longer published.
Unpublished(others) ==
  [v \in Versions |-> IF v \in others THEN [version[v] EXCEPT !.published = FALSE] ELSE version[v]]

\* The row is inserted, if its number is still free.
InsertVersion(w) ==
  LET request == serving[w]
  IN  /\ request.kind \in {"create", "clone"}
      /\ Len(version) < mix.versions
      /\ NumberFree(request.number, 0)
      /\ version' = Append(Unpublished(request.others),
                           [live |-> TRUE, number |-> request.number, config |-> request.config,
                            published |-> request.publish])
      /\ Answered(w)
      /\ UNCHANGED <<loaded, tenant, generated>>

Publishing(v, c) == [NoRequest EXCEPT !.kind = "publish", !.id = v, !.config = c,
                                      !.others = Published \ {v}]

\* publish_blueprint_version: the version is valid, and others are published.
LoadPublish(w, v) ==
  /\ MayServe(w, "publish")
  /\ Live(v) /\ Generable(Normalised(version[v].config), version[v].config.mode)
  /\ Take(w, Publishing(v, version[v].config))
  /\ UNCHANGED <<loaded, version, tenant, generated>>

PublishVersion(w) ==
  /\ serving[w].kind = "publish"
  /\ Live(serving[w].id)
  /\ version' = [Unpublished(serving[w].others) EXCEPT ![serving[w].id].published = TRUE]
  /\ Answered(w)
  /\ UNCHANGED <<loaded, tenant, generated>>

\* update is valid: another configuration or number, published or not, for the row as loaded.
LoadEdit(w, v, c, number, publish) ==
  /\ MayServe(w, "edit")
  /\ Live(v) /\ Known(c) /\ NumberFree(number, v)
  /\ Take(w, [NoRequest EXCEPT !.kind = "edit", !.id = v, !.config = Normalised(c),
                               !.number = number, !.publish = publish])
  /\ UNCHANGED <<loaded, version, tenant, generated>>

\* Every column is written, at once; the version is published in a transaction of its own.
SaveEdit(w) ==
  LET request == serving[w]
  IN  /\ request.kind = "edit"
      /\ NumberFree(request.number, request.id)
      /\ version' = [version EXCEPT ![request.id] =
                       [live |-> TRUE, number |-> request.number, config |-> request.config,
                        published |-> request.publish]]
      /\ IF request.publish THEN Take(w, [request EXCEPT !.kind = "saved"]) ELSE Answered(w)
      /\ UNCHANGED <<loaded, tenant, generated>>

\* Where the version is not valid the request fails, and the row stays as it was saved.
Republish(w) ==
  LET request == serving[w]
  IN  /\ request.kind = "saved"
      /\ IF Generable(request.config, request.config.mode)
         THEN Take(w, Publishing(request.id, request.config)) ELSE Answered(w)
      /\ UNCHANGED <<loaded, version, tenant, generated>>

\* PROTECT: jobs and snapshots keep their version.
Referenced == {generated[j].version : j \in Jobs} \cup UNION {tenant[t].from : t \in Tenants}

DestroyVersion(w, v) ==
  /\ MayServe(w, "destroy")
  /\ Live(v) /\ v \notin Referenced
  /\ version' = [version EXCEPT ![v] = [live |-> FALSE, number |-> 0, config |-> NoConfig,
                                        published |-> FALSE]]
  /\ UNCHANGED <<loaded, tenant, generated, serving>>

-----------------------------------------------------------------------------
(* Generation. *)

ModeOf(kind) == IF kind = "create_saas" THEN "saas" ELSE "code_export"

\* The tenants a request may select.
Selectable == {0} \cup {t \in Tenants : tenant[t].status = "ACTIVE"}

\* The version is published, and valid for what is asked.
MayGenerate(v, kind) ==
  Live(v) /\ version[v].published /\ Generable(Normalised(version[v].config), ModeOf(kind))

Generation(kind, v, t, retry) ==
  [NoRequest EXCEPT !.kind = kind, !.id = v, !.config = Normalised(version[v].config),
                    !.tenant = t, !.retry = retry]

LoadGeneration(w, kind, v, t) ==
  /\ MayServe(w, kind)
  /\ MayGenerate(v, kind)
  /\ kind = "create_saas" \/ t = 0
  /\ Take(w, Generation(kind, v, t, 0))
  /\ UNCHANGED <<loaded, version, tenant, generated>>

\* retry of any job, of the version as it is now, for a tenant that is given or a new one.
LoadRetry(w, j, t) ==
  /\ MayServe(w, "retry")
  /\ MayGenerate(generated[j].version, generated[j].kind)
  /\ generated[j].kind = "create_saas" \/ t = 0
  /\ Take(w, Generation(generated[j].kind, generated[j].version, t, generated[j].retry + 1))
  /\ UNCHANGED <<loaded, version, tenant, generated>>

\* apply_blueprint_version: a snapshot of the configuration, which is now the latest.
Applied(t, v, c) ==
  [tenant EXCEPT ![t].config = c, ![t].from = @ \cup {v}]

NewTenant(v, c) == [status |-> "ACTIVE", config |-> c, from |-> {v}]

\* A tenant that is deleted is in no status.
Deployed(v, t, c) ==
  IF t = 0 THEN Len(tenant) < MaxTenants /\ tenant' = Append(tenant, NewTenant(v, c))
  ELSE tenant[t].status # "deleted" /\ tenant' = Applied(t, v, c)

Recorded(request, t, package) ==
  /\ Len(generated) < mix.jobs
  /\ generated' = Append(generated, [kind |-> request.kind, version |-> request.id,
                                     tenant |-> t, config |-> request.config,
                                     retry |-> request.retry, package |-> package])

\* create_generation and _execute_saas: a tenant is made or selected.  The job's row is made
\* before the snapshot, here in the same step: where two deployments overlapped, they might
\* be ordered differently in the two tables.
CreateSaas(w) ==
  LET request == serving[w]
  IN  /\ request.kind = "create_saas" /\ Live(request.id)
      /\ Deployed(request.id, request.tenant, request.config)
      /\ Recorded(request, IF request.tenant = 0 THEN Len(tenant) + 1 ELSE request.tenant,
                  NoPackage)
      /\ Answered(w)
      /\ UNCHANGED <<loaded, version>>

\* create_generation and _execute_code_export.
ExportCode(w) ==
  LET request == serving[w]
  IN  /\ request.kind = "export" /\ Live(request.id)
      /\ Recorded(request, 0, Package(request.config))
      /\ Answered(w)
      /\ UNCHANGED <<loaded, version, tenant>>

\* apply_version (t # 0) and create_from_version (t = 0): nothing is asked of the version.
LoadApply(w, v, t) ==
  /\ MayServe(w, "apply")
  /\ Live(v)
  /\ t # 0 => tenant[t].status # "deleted"
  /\ Take(w, Generation("apply", v, t, 0))
  /\ UNCHANGED <<loaded, version, tenant, generated>>

ApplyVersion(w) ==
  LET request == serving[w]
  IN  /\ request.kind = "apply" /\ Live(request.id)
      /\ Deployed(request.id, request.tenant, request.config)
      /\ Answered(w)
      /\ UNCHANGED <<loaded, version, generated>>

\* TenantViewSet.update and destroy, which takes the tenant's snapshots along.
SetStatus(w, t, status) ==
  /\ MayServe(w, "tenant")
  /\ tenant[t].status \notin {"deleted", status}
  /\ tenant' = [tenant EXCEPT ![t].status = status]
  /\ UNCHANGED <<loaded, version, generated, serving>>

DestroyTenant(w, t) ==
  /\ MayServe(w, "tenant")
  /\ tenant[t].status # "deleted"
  /\ tenant' = [tenant EXCEPT ![t] = [status |-> "deleted", config |-> NoConfig, from |-> {}]]
  /\ UNCHANGED <<loaded, version, generated, serving>>

\* The number was taken or the row deleted meanwhile; or a generation fails, anywhere.
Refuse(w) ==
  LET request == serving[w]
  IN  /\ CASE request.kind \in {"create", "clone"} -> ~ NumberFree(request.number, 0)
           [] request.kind = "edit" -> ~ NumberFree(request.number, request.id)
           [] request.kind = "publish" -> ~ Live(request.id)
           [] OTHER -> request.kind \in {"create_saas", "export", "apply"}
      /\ Answered(w)
      /\ UNCHANGED <<loaded, version, tenant, generated>>

VersionStep(w) ==
  \/ \E publish \in BOOLEAN, c \in mix.configs :
       \/ \E number \in {NextNumber} \cup Labels : Create(w, c, number, publish)
       \/ \E v \in Versions : \E number \in {version[v].number} \cup Labels :
            LoadEdit(w, v, c, number, publish)
  \/ \E v \in Versions :
       \/ \E number \in {NextNumber} \cup Labels : Clone(w, v, number)
       \/ LoadPublish(w, v)
       \/ DestroyVersion(w, v)
  \/ InsertVersion(w) \/ PublishVersion(w) \/ SaveEdit(w) \/ Republish(w)

GenerationStep(w) ==
  \/ \E t \in Selectable :
       \/ \E v \in Versions, kind \in {"create_saas", "export"} : LoadGeneration(w, kind, v, t)
       \/ \E j \in Jobs : LoadRetry(w, j, t)
  \/ \E v \in Versions, t \in {0} \cup Tenants : LoadApply(w, v, t)
  \/ CreateSaas(w) \/ ExportCode(w) \/ ApplyVersion(w)
  \/ \E t \in Tenants :
       \/ \E status \in Statuses : SetStatus(w, t, status)
       \/ DestroyTenant(w, t)
  \/ Refuse(w)

BlueprintsNext == \E w \in Threads : VersionStep(w) \/ GenerationStep(w)

BlueprintsSpec == BlueprintsInit /\ [][BlueprintsNext]_blueprintsVars

-----------------------------------------------------------------------------

(***************************************************************************)
(* The loader takes the manifests whose dependencies are in their package  *)
(* and have no cycle, and lists each after those it needs; and whatever    *)
(* was published when it was exported, a package is complete: it installs  *)
(* what the configuration enables, with what that needs and in an order in *)
(* which it can be loaded, nothing else, and keeps the pages of every      *)
(* feature that is on; where nothing is left out its registry accepts it.  *)
(***************************************************************************)
PackagesComplete ==
  /\ (registry = << >>) <=>
       \E k \in Apps : k \in Behind(k, needs) \/ ~ (needs[k] \subseteq Apps)
  /\ DependenciesFirst(registry, needs)
  /\ \A j \in Jobs : generated[j].kind = "export" =>
       LET c == generated[j].config
           package == generated[j].package
       IN  /\ Base \cup c.modules \subseteq ToSet(package.apps)
           /\ DependenciesFirst(package.apps, needs)
           /\ \A k \in ToSet(package.apps) \ (Base \cup c.modules) :
                \E d \in Base \cup c.modules : k \in Behind(d, needs)
           /\ \A f \in c.features \cap Prunable :
                Declared[f[1]].prunes[f[2]] \cap package.pruned = {}
           /\ package.pruned = {} => Loads(ToSet(package.apps) \cap Apps, {})

(***************************************************************************)
(* Unless one is just being published, one version at most is published.   *)
(* What publishes (publish, create, edit) is served one after the other;   *)
(* versions are cloned and destroyed, tenants made from them and packages  *)
(* exported beside it.  Kept only where edits bring valid configurations:  *)
(* another is saved as published, and found invalid afterwards.            *)
(***************************************************************************)
OnePublished ==
  ("edit" \in mix.kinds => \A c \in mix.configs : Known(c) => Generable(Normalised(c), c.mode))
    => \/ \E w \in Threads : serving[w].kind \in {"saved", "publish"}
       \/ Cardinality(Published) <= 1

(***************************************************************************)
(* Jobs and tenants keep the versions they came from.  What a job          *)
(* generated was of its mode, with every module the enabled ones need; and *)
(* as long as nobody applies versions by hand, a tenant runs what the last *)
(* of its jobs generated.                                                  *)
(***************************************************************************)
GenerationsSound ==
  /\ \A j \in Jobs :
       LET c == generated[j].config
       IN  /\ Live(generated[j].version)
           /\ c.mode = ModeOf(generated[j].kind)
           /\ \A k \in c.modules : Behind(k, needs) \subseteq c.modules
           /\ \A f \in c.features : NeededBy(f) \subseteq c.modules
  /\ \A t \in Tenants : tenant[t].from \subseteq LiveVersions
  /\ "apply" \notin mix.kinds =>
       \A t \in Tenants : tenant[t].status # "deleted" =>
         LET its == {j \in Jobs : generated[j].kind = "create_saas" /\ generated[j].tenant = t}
         IN  its # {} /\ tenant[t].config = generated[Max(its)].config

(***************************************************************************)
(* What the README of an exported package says of pruning, that it removes *)
(* the registration of pages, menus and permissions: whatever is left out, *)
(* the registry of the package accepts the manifests that are left.        *)
(***************************************************************************)
PackagesLoad ==
  \A j \in Jobs : generated[j].kind = "export" =>
    Loads(ToSet(generated[j].package.apps) \cap Apps, generated[j].package.pruned)

\* The parent of an enabled code is enabled, and so is what it refers to: where users are not
\* administered, all but the list of users.
Reaches(c) ==
  LET enabled == EnabledPermissionCodes(c.modules, c.features)
      users == IF <<"system", "user_management">> \in c.features THEN {}
               ELSE SystemFeatureCodes.user_management
  IN  /\ \A code \in enabled : ParentOf(code) \in enabled \cup {NoParent}
      /\ \A code \in enabled \cap DOMAIN PermissionDependencies :
           PermissionDependencies[code] \ users \subseteq enabled

ReachingConfigs == {c \in {Normalised(d) : d \in UNION {some.configs : some \in Trials}} :
                     c.mode = "saas" /\ Reaches(c)}

(***************************************************************************)
(* In a tenant whose configuration was validated for its generation, the   *)
(* lists that a form offers can be given to whoever may use the form, and  *)
(* no code is given without its menu: what the apps refer to agrees with   *)
(* the apps they need.                                                     *)
(***************************************************************************)
ReferencesReached ==
  "apply" \notin mix.kinds =>
    \A t \in Tenants : tenant[t].status # "deleted" => tenant[t].config \in ReachingConfigs
=============================================================================
