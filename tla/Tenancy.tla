------------------------------ MODULE Tenancy ------------------------------
(***************************************************************************)
(* One tenant of the platform: the modules its configuration enables, its  *)
(* roles and users, departments, and the grants on special data.           *)
(*                                                                         *)
(* Platform users apply versions of a blueprint to the tenant: the         *)
(* configuration is copied to a snapshot, the switch of every module       *)
(* follows it, and the role of the super administrator is filled again.    *)
(* Users of the tenant edit roles, users, departments and grants.          *)
(*                                                                         *)
(* Of the permissions two of each module are told apart: the one a role is *)
(* given, and the "reference" one that permissions of other modules imply. *)
(***************************************************************************)
EXTENDS Integers, Sequences, FiniteSets

CONSTANTS Modules,           \* those a blueprint may leave out
          Needs,             \* modules a module's permission refers to
          Resources,         \* special data, by default
          Limit,             \* Tenant.user_limit
          Bound,             \* values: the tenant of Init is bound to an instance
          Mixes, Racing,     \* sets of kinds of request; the pairs that may overlap
          Workers,
          MaxUsers, MaxRoles, MaxDepartments, MaxGrants

ASSUME TenancyAssumption ==
  /\ Needs \in [Modules -> SUBSET Modules]
  /\ Resources \subseteq Nat \ {0}
  /\ Limit \in Nat /\ Bound \subseteq BOOLEAN
  /\ {MaxUsers, MaxRoles, MaxDepartments, MaxGrants} \subseteq Nat

VARIABLES
  requests,    \* the kinds of request of this behaviour
  snapshot,    \* enabled_modules of the latest TenantConfigSnapshot, {"none"} if there is none
  switch,      \* TenantModuleState.enabled of each module, or "none"
  role,        \* the ERPRole rows, in the order of their ids
  user,        \* the ERPUser rows
  department,  \* the ERPDepartment rows
  policy,      \* ERPDataPermissionPolicy.permission_type of each resource
  grant,       \* the ERPDataSpecialGrant rows
  job          \* the request each worker is serving

config == <<snapshot, switch>>
people == <<role, user>>
access == <<department, policy, grant>>
vars == <<requests, config, people, access, job>>

Users == DOMAIN user
Roles == DOMAIN role
Departments == DOMAIN department

Idle == [kind |-> "idle", id |-> 0, name |-> "none", roles |-> {}, codes |-> {},
         place |-> 0, on |-> FALSE]

MayStart(w, kind) ==
  /\ kind \in requests
  /\ job[w] = Idle
  /\ \A v \in Workers \ {w} : job[v] = Idle \/ {kind, job[v].kind} \in Racing

Done(w) == job' = [job EXCEPT ![w] = Idle]

-----------------------------------------------------------------------------
(* Modules and permissions. *)

\* TenantRuntimeConfig.is_enabled.
IsEnabled(m) == IF switch[m] = "none" THEN m \in snapshot ELSE switch[m] = "on"

\* get_enabled_erp_permission_codes, where the modules of S are enabled.
CodesOf(S) == S \X {"use", "reference"}
EnabledModules == {m \in Modules : IsEnabled(m)}
EnabledCodes == CodesOf(EnabledModules)

\* Mutation of Expanded: nothing is implied.
NotExpanded(codes) == codes

\* expand_permission_ids_with_dependencies.
Expanded(codes) ==
  codes \cup ({<<n, "reference">> : n \in UNION {Needs[c[1]] : c \in {d \in codes : d[2] = "use"}}}
                \cap EnabledCodes)

NewRole(codes, system) == [live |-> TRUE, system |-> system, on |-> TRUE, codes |-> codes]

SystemRoles(u) == {r \in user[u].roles : role[r].system}
SuperAdmins == {u \in Users : user[u].live /\ SystemRoles(u) # {}}
Least(S) == CHOOSE i \in S : \A j \in S : i <= j

\* Mutation of Filled: a super administrator's role stays as it is.
OnlyMade(u, codes) ==
  IF SystemRoles(u) # {} THEN UNCHANGED people
  ELSE /\ Len(role) < MaxRoles
       /\ role' = Append(role, NewRole(codes, TRUE))
       /\ user' = [user EXCEPT ![u].roles = @ \cup {Len(role) + 1}]

\* ensure_super_admin_role(user u), when the enabled permissions are codes.
Filled(u, codes) ==
  IF SystemRoles(u) # {}
  THEN /\ role' = [role EXCEPT ![Least(SystemRoles(u))].codes = codes]
       /\ UNCHANGED user
  ELSE /\ Len(role) < MaxRoles
       /\ role' = Append(role, NewRole(codes, TRUE))
       /\ user' = [user EXCEPT ![u].roles = @ \cup {Len(role) + 1}]

NewUser(name, roles, place) ==
  [live |-> TRUE, on |-> TRUE, name |-> name, roles |-> roles, place |-> place]

\* Rows that are deleted.
GoneRole == [live |-> FALSE, system |-> FALSE, on |-> FALSE, codes |-> {}]
GoneUser == [live |-> FALSE, on |-> FALSE, name |-> "none", roles |-> {}, place |-> 0]
GoneDepartment == [live |-> FALSE, on |-> FALSE, parent |-> 0]
GoneGrant == [live |-> FALSE, resource |-> 0, subject |-> <<"none", 0>>]

Alive == {u \in Users : user[u].live}
HasRoom == Cardinality(Alive) < Limit
NameFree(name, u) == \A v \in Alive \ {u} : user[v].name # name

\* ensure_tenant_super_admin: refused if there is no room or "admin" is somebody else.
EnsureAdmin(codes) ==
  IF SuperAdmins # {}
  THEN Filled(Least(SuperAdmins), codes)
  ELSE /\ HasRoom /\ NameFree("admin", 0)
       /\ Len(user) < MaxUsers /\ Len(role) < MaxRoles
       /\ role' = Append(role, NewRole(codes, TRUE))
       /\ user' = Append(user, NewUser("admin", {Len(role) + 1}, 0))

Switched(S) == [m \in Modules |-> IF m \in S THEN "on" ELSE "off"]

\* A tenant that is bound: its configuration applied, its administrator made.
Init ==
  /\ requests \in Mixes
  /\ department = << >>
  /\ policy = [r \in Resources |-> "SPECIAL"]
  /\ grant = << >>
  /\ job = [w \in Workers |-> Idle]
  /\ \/ /\ FALSE \in Bound
        /\ snapshot = {"none"}
        /\ switch = [m \in Modules |-> "none"]
        /\ role = << >> /\ user = << >>
     \/ /\ TRUE \in Bound
        /\ snapshot \in SUBSET Modules
        /\ switch = Switched(snapshot)
        /\ role = <<NewRole(CodesOf(snapshot), TRUE)>>
        /\ user = <<NewUser("admin", {1}, 0)>>

-----------------------------------------------------------------------------
(* The platform's requests about the tenant. *)

Mirrored(S) == snapshot' = S /\ switch' = Switched(S)

\* apply_blueprint_version, of a version that enables the modules of S.
Apply(w, S) ==
  /\ MayStart(w, "apply")
  /\ Mirrored(S)
  /\ IF SuperAdmins = {} THEN UNCHANGED people
     ELSE Filled(Least(SuperAdmins), CodesOf(S))
  /\ UNCHANGED <<requests, access, job>>

\* bind_instance_to_tenant: the version is applied and an administrator ensured.
Bind(w, S) ==
  /\ MayStart(w, "bind")
  /\ Mirrored(S)
  /\ EnsureAdmin(CodesOf(S))
  /\ UNCHANGED <<requests, access, job>>

\* refresh_super_admin_permissions and reset_initial_admin_password.
RefreshAdmin(w) ==
  /\ MayStart(w, "refresh")
  /\ EnsureAdmin(EnabledCodes)
  /\ UNCHANGED <<requests, config, access, job>>

\* A TenantModuleState is switched by hand: nothing else follows.
Toggle(w, m) ==
  /\ MayStart(w, "toggle")
  /\ switch[m] # "none"
  /\ switch' = [switch EXCEPT ![m] = IF @ = "on" THEN "off" ELSE "on"]
  /\ UNCHANGED <<requests, snapshot, people, access, job>>

\* sync_tenant_super_admin_role_permissions, for every role of the tenant.
SyncRoles(w) ==
  /\ MayStart(w, "sync")
  /\ role' = [r \in Roles |->
                IF role[r].system THEN [role[r] EXCEPT !.codes = EnabledCodes]
                ELSE IF role[r].live /\ role[r].on
                     THEN [role[r] EXCEPT !.codes = Expanded(@)] ELSE role[r]]
  /\ UNCHANGED <<requests, config, user, access, job>>

\* clear_tenant_data deletes what belongs to the tenant, and makes an administrator.
ClearData(w) ==
  /\ MayStart(w, "clear")
  /\ Limit > 0 /\ Len(user) < MaxUsers /\ Len(role) < MaxRoles
  /\ role' = Append([r \in Roles |-> GoneRole], NewRole(EnabledCodes, TRUE))
  /\ user' = Append([u \in Users |-> GoneUser], NewUser("admin", {Len(role) + 1}, 0))
  /\ department' = [d \in Departments |-> GoneDepartment]
  /\ policy' = [r \in Resources |-> "SPECIAL"]
  /\ grant' = [g \in DOMAIN grant |-> GoneGrant]
  /\ UNCHANGED <<requests, config, job>>

-----------------------------------------------------------------------------
(* Logging in, users and roles. *)

\* The login of a super administrator, up to the permissions that are enabled.
LoadLogin(w, u) ==
  /\ MayStart(w, "login")
  /\ user[u].live /\ user[u].on /\ u \in SuperAdmins
  /\ job' = [job EXCEPT ![w] = [Idle EXCEPT !.kind = "login", !.id = u, !.codes = EnabledCodes]]
  /\ UNCHANGED <<requests, config, people, access>>

\* Its role is filled with them: another role, if it was taken away.
SaveLogin(w) ==
  /\ job[w].kind = "login"
  /\ user[job[w].id].live
  /\ Filled(job[w].id, job[w].codes)
  /\ Done(w)
  /\ UNCHANGED <<requests, config, access>>

\* validate_role_ids and validate_dept.
Assignable(r) == role[r].live /\ role[r].on
Bindable(d) == d \in {0} \cup {e \in Departments : department[e].live /\ department[e].on}
Exists(d) == d \in {0} \cup {e \in Departments : department[e].live}

\* ERPUserWriteSerializer is valid: a user to create (u = 0), or the roles of u.
LoadUser(w, u, name, roles, d) ==
  /\ MayStart(w, IF u = 0 THEN "create_user" ELSE "edit_user")
  /\ IF u = 0 THEN NameFree(name, 0) ELSE user[u].live /\ d = user[u].place /\ name = user[u].name
  /\ \A r \in roles : Assignable(r)
  /\ u = 0 => Bindable(d) /\ HasRoom
  /\ job' = [job EXCEPT ![w] = [Idle EXCEPT !.kind = IF u = 0 THEN "create_user" ELSE "edit_user",
                                            !.id = u, !.name = name, !.roles = roles, !.place = d]]
  /\ UNCHANGED <<requests, config, people, access>>

StillThere(roles) == {r \in roles : role[r].live}

\* create: where no role is chosen the request fails, but with the user made.
CreateUser(w) ==
  /\ job[w].kind = "create_user"
  /\ NameFree(job[w].name, 0) /\ Exists(job[w].place)
  /\ Len(user) < MaxUsers
  /\ user' = Append(user, NewUser(job[w].name, StillThere(job[w].roles), job[w].place))
  /\ Done(w)
  /\ UNCHANGED <<requests, config, role, access>>

\* update, of the roles.
UpdateUser(w) ==
  /\ job[w].kind = "edit_user"
  /\ user[job[w].id].live
  /\ user' = [user EXCEPT ![job[w].id].roles = StillThere(job[w].roles)]
  /\ Done(w)
  /\ UNCHANGED <<requests, config, role, access>>

\* update, of the department and the status.
MoveUser(w, u, d, on) ==
  /\ MayStart(w, "move_user")
  /\ user[u].live /\ Bindable(d)
  /\ user' = [user EXCEPT ![u].place = d, ![u].on = on]
  /\ UNCHANGED <<requests, config, role, access, job>>

Without(subject) ==
  [g \in DOMAIN grant |-> IF grant[g].subject = subject THEN GoneGrant ELSE grant[g]]

\* destroy, of a user who is neither the one who asks nor a super administrator.
LoadRemoval(w, u) ==
  /\ MayStart(w, "destroy_user")
  /\ Alive \ {u} # {} /\ u \in Alive \ SuperAdmins
  /\ job' = [job EXCEPT ![w] = [Idle EXCEPT !.kind = "destroy_user", !.id = u]]
  /\ UNCHANGED <<requests, config, people, access>>

DestroyUser(w) ==
  /\ job[w].kind = "destroy_user"
  /\ user' = [user EXCEPT ![job[w].id] = GoneUser]
  /\ grant' = Without(<<"user", job[w].id>>)
  /\ Done(w)
  /\ UNCHANGED <<requests, config, role, department, policy>>

\* ERPRoleSerializer is valid: permissions for a new role (r = 0), or for r.
LoadRole(w, r, codes, on) ==
  /\ MayStart(w, IF r = 0 THEN "create_role" ELSE "edit_role")
  /\ r # 0 => role[r].live /\ ~ role[r].system
  /\ codes \subseteq EnabledCodes /\ \A c \in codes : c[2] = "use"
  /\ job' = [job EXCEPT ![w] = [Idle EXCEPT !.kind = IF r = 0 THEN "create_role" ELSE "edit_role",
                                            !.id = r, !.codes = codes, !.on = on]]
  /\ UNCHANGED <<requests, config, people, access>>

CreateRole(w) ==
  /\ job[w].kind = "create_role"
  /\ Len(role) < MaxRoles
  /\ role' = Append(role, [NewRole(Expanded(job[w].codes), FALSE) EXCEPT !.on = job[w].on])
  /\ Done(w)
  /\ UNCHANGED <<requests, config, user, access>>

References(codes) == {c \in codes : c[2] = "reference"}

\* update keeps the permissions the editor does not show.
UpdateRole(w) ==
  LET r == job[w].id
  IN  /\ job[w].kind = "edit_role"
      /\ role[r].live
      /\ role' = [role EXCEPT ![r].on = job[w].on,
                              ![r].codes = Expanded(job[w].codes) \cup References(@)]
      /\ Done(w)
      /\ UNCHANGED <<requests, config, user, access>>

\* destroy, of a role that is not a system role and that no user has.
LoadRoleRemoval(w, r) ==
  /\ MayStart(w, "destroy_role")
  /\ role[r].live /\ ~ role[r].system /\ \A u \in Users : r \notin user[u].roles
  /\ job' = [job EXCEPT ![w] = [Idle EXCEPT !.kind = "destroy_role", !.id = r]]
  /\ UNCHANGED <<requests, config, people, access>>

DestroyRole(w) ==
  LET r == job[w].id
  IN  /\ job[w].kind = "destroy_role"
      /\ role' = [role EXCEPT ![r] = GoneRole]
      /\ user' = [u \in Users |-> [user[u] EXCEPT !.roles = @ \ {r}]]
      /\ grant' = Without(<<"role", r>>)
      /\ Done(w)
      /\ UNCHANGED <<requests, config, department, policy>>

-----------------------------------------------------------------------------
(* Departments. *)

\* The departments above d, and d: the parents are followed Len(department) times.
Above(d) ==
  LET up[n \in 0 .. Len(department)] ==
        IF n = 0 THEN {d} \ {0}
        ELSE up[n - 1] \cup ({department[e].parent : e \in up[n - 1]} \ {0})
  IN  up[Len(department)]

\* Mutation of Acceptable: only the department itself is refused.
NotItself(d, p) == p # d

\* validate_parent finds no cycle.
Acceptable(d, p) == d \notin Above(p)

\* A department to create (d = 0), one to move under p, or to edit without a move.
LoadDepartment(w, d, p, on) ==
  /\ MayStart(w, IF d = 0 THEN "create_department" ELSE "edit_department")
  /\ d # 0 => department[d].live
  /\ \/ d # 0 /\ p = department[d].parent
     \/ p = 0
     \/ p # 0 /\ Bindable(p) /\ (d # 0 => Acceptable(d, p))
  /\ job' = [job EXCEPT ![w] = [Idle EXCEPT !.kind = IF d = 0 THEN "create_department"
                                                             ELSE "edit_department",
                                            !.id = d, !.place = p, !.on = on]]
  /\ UNCHANGED <<requests, config, people, access>>

Row(w) == [live |-> TRUE, on |-> job[w].on, parent |-> job[w].place]

CreateDepartment(w) ==
  /\ job[w].kind = "create_department"
  /\ Exists(job[w].place)
  /\ Len(department) < MaxDepartments
  /\ department' = Append(department, Row(w))
  /\ Done(w)
  /\ UNCHANGED <<requests, config, people, policy, grant>>

\* The save writes every column, and the row again if it was deleted meanwhile.
UpdateDepartment(w) ==
  /\ job[w].kind = "edit_department"
  /\ Exists(job[w].place)
  /\ department' = [department EXCEPT ![job[w].id] = Row(w)]
  /\ Done(w)
  /\ UNCHANGED <<requests, config, people, policy, grant>>

\* destroy, of a department without children and users.
LoadDissolution(w, d) ==
  /\ MayStart(w, "destroy_department")
  /\ department[d].live
  /\ \A e \in Departments : department[e].parent # d
  /\ \A u \in Users : user[u].place # d
  /\ job' = [job EXCEPT ![w] = [Idle EXCEPT !.kind = "destroy_department", !.id = d]]
  /\ UNCHANGED <<requests, config, people, access>>

\* The departments a delete of d takes with it.
Fallen(d) == {e \in Departments : department[e].live /\ d \in Above(e)} \cup {d}

DestroyDepartment(w) ==
  LET F == Fallen(job[w].id)
  IN  /\ job[w].kind = "destroy_department"
      /\ department' = [d \in Departments |-> IF d \in F THEN GoneDepartment ELSE department[d]]
      /\ user' = [u \in Users |-> IF user[u].place \in F THEN [user[u] EXCEPT !.place = 0]
                                                       ELSE user[u]]
      /\ grant' = [g \in DOMAIN grant |->
                     IF grant[g].subject \in {<<"department", d>> : d \in F} THEN GoneGrant
                                                                       ELSE grant[g]]
      /\ Done(w)
      /\ UNCHANGED <<requests, config, role, policy>>

-----------------------------------------------------------------------------
(* Data permissions. *)

Subjects == {<<"user", u>> : u \in Users} \cup {<<"role", r>> : r \in Roles}
              \cup {<<"department", d>> : d \in Departments}

Present(s) ==
  CASE s[1] = "user" -> user[s[2]].live
    [] s[1] = "role" -> role[s[2]].live
    [] s[1] = "department" -> department[s[2]].live

\* Mutation of Withdrawn: the grants stay, for when the resource is special again.
NotWithdrawn(r, type) == grant

\* The grants of a resource that is no longer special are deleted.
Withdrawn(r, type) ==
  IF type = "SPECIAL" THEN grant
  ELSE [g \in DOMAIN grant |-> IF grant[g].resource = r THEN GoneGrant ELSE grant[g]]

\* ERPDataResourceView.put.
PutPolicy(w, r, type) ==
  /\ MayStart(w, "put_policy")
  /\ policy' = [policy EXCEPT ![r] = type]
  /\ grant' = Withdrawn(r, type)
  /\ UNCHANGED <<requests, config, people, department, job>>

\* ERPDataSpecialGrantSerializer is valid.
LoadGrant(w, r, s) ==
  /\ MayStart(w, "create_grant")
  /\ Present(s)
  /\ policy[r] = "SPECIAL"
  /\ \A g \in DOMAIN grant : grant[g].live => <<grant[g].resource, grant[g].subject>> # <<r, s>>
  /\ job' = [job EXCEPT ![w] = [Idle EXCEPT !.kind = "create_grant", !.id = s[2], !.name = s[1],
                                            !.place = r]]
  /\ UNCHANGED <<requests, config, people, access>>

CreateGrant(w) ==
  LET s == <<job[w].name, job[w].id>>
  IN  /\ job[w].kind = "create_grant"
      /\ Present(s)
      /\ Len(grant) < MaxGrants
      /\ grant' = Append(grant, [live |-> TRUE, resource |-> job[w].place, subject |-> s])
      /\ Done(w)
      /\ UNCHANGED <<requests, config, people, department, policy>>

DestroyGrant(w, g) ==
  /\ MayStart(w, "destroy_grant")
  /\ grant[g].live
  /\ grant' = [grant EXCEPT ![g] = GoneGrant]
  /\ UNCHANGED <<requests, config, people, department, policy, job>>

\* The request under way fails, at a row that is gone, a name that is taken or a full tenant.
Abort(w) ==
  /\ job[w] # Idle
  /\ Done(w)
  /\ UNCHANGED <<requests, config, people, access>>

-----------------------------------------------------------------------------

\* What the platform asks, what the tenant's users ask, and requests that go on.
PlatformStep(w) ==
  \/ \E S \in SUBSET Modules : Apply(w, S) \/ Bind(w, S)
  \/ RefreshAdmin(w) \/ SyncRoles(w) \/ ClearData(w)
  \/ \E m \in Modules : Toggle(w, m)

PeopleStep(w) ==
  \/ \E u \in Users : LoadLogin(w, u) \/ LoadRemoval(w, u)
  \/ \E u \in Users \cup {0}, name \in {"admin", "clerk"}, R \in SUBSET Roles,
        d \in Departments \cup {0} : LoadUser(w, u, name, R, d)
  \/ \E u \in Users, d \in Departments \cup {0}, on \in BOOLEAN : MoveUser(w, u, d, on)
  \/ \E r \in Roles \cup {0}, S \in SUBSET EnabledModules, on \in BOOLEAN :
        LoadRole(w, r, S \X {"use"}, on)
  \/ \E r \in Roles : LoadRoleRemoval(w, r)

AccessStep(w) ==
  \/ \E d, p \in Departments \cup {0}, on \in BOOLEAN : LoadDepartment(w, d, p, on)
  \/ \E d \in Departments : LoadDissolution(w, d)
  \/ \E r \in Resources, type \in {"BASIC", "SPECIAL"} : PutPolicy(w, r, type)
  \/ \E r \in Resources, s \in Subjects : LoadGrant(w, r, s)
  \/ \E g \in DOMAIN grant : DestroyGrant(w, g)

Serve(w) ==
  \/ SaveLogin(w) \/ CreateUser(w) \/ UpdateUser(w) \/ DestroyUser(w)
  \/ CreateRole(w) \/ UpdateRole(w) \/ DestroyRole(w)
  \/ CreateDepartment(w) \/ UpdateDepartment(w) \/ DestroyDepartment(w)
  \/ CreateGrant(w) \/ Abort(w)

Next == \E w \in Workers : PlatformStep(w) \/ PeopleStep(w) \/ AccessStep(w) \/ Serve(w)

Spec == Init /\ [][Next]_vars

-----------------------------------------------------------------------------

\* Unless switches are set or roles given by hand: once a configuration is applied
\* the modules enabled are those of the latest one, and the super administrator's
\* role holds the permissions of exactly those.
ConfigurationApplied ==
  {"toggle", "edit_user"} \cap requests = {} /\ snapshot # {"none"} =>
    /\ EnabledModules = snapshot
    /\ SuperAdmins # {} =>
         role[Least(SystemRoles(Least(SuperAdmins)))].codes = EnabledCodes

\* What the enabled roles of a user allow (has_erp_role_permission).
Allowed(u) ==
  (UNION {role[r].codes : r \in {q \in user[u].roles : role[q].on}}) \cap EnabledCodes

\* While the configuration stays: whoever has the permission of a module also has
\* the reference permissions it implies, of the modules that are enabled.
ReferencesFollow ==
  {"apply", "bind", "toggle"} \cap requests = {} =>
    \A u \in Alive, m \in Modules : <<m, "use">> \in Allowed(u) =>
      (Needs[m] \cap EnabledModules) \X {"reference"} \subseteq Allowed(u)

\* Departments form trees: above each are departments that exist, and never itself;
\* and users are in departments that exist.
DepartmentsAreTrees ==
  /\ \A d \in Departments :
       department[d].live => Exists(department[d].parent) /\ d \notin Above(department[d].parent)
  /\ \A u \in Alive : Exists(user[u].place)

\* A grant is of a resource that is special, to a subject that exists, and the only
\* one of its kind: deleting it takes the access away.
GrantsStand ==
  \A g \in DOMAIN grant : grant[g].live =>
    /\ policy[grant[g].resource] = "SPECIAL"
    /\ Present(grant[g].subject)
    /\ \A h \in DOMAIN grant : h # g => grant[h] # grant[g]

=============================================================================
