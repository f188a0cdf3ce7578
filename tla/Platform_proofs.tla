-------------------------- MODULE Platform_proofs ---------------------------
(***************************************************************************)
(* Proofs about Tenancy and Blueprints.  For any features, roles, users,   *)
(* departments, policies, workers and configurations, departments stay     *)
(* trees, grants have their policy and their subject, roles hold what they *)
(* can give with all it refers to, and the administrator's role follows    *)
(* what is configured.  And for any configurations, dependencies, threads  *)
(* and numbers of rows, one version at most is published, what is          *)
(* generated from a version is valid and is what the tenant runs, and the  *)
(* depth-first visits of the loader, of its check for cycles and of the    *)
(* plan come to what they should, so that packages are complete.           *)
(***************************************************************************)
EXTENDS Tenancy, Blueprints, TableTheorems

-----------------------------------------------------------------------------
(* Numbers. *)

\* What is so of 0, and of the next number where it is so of one, is so up to N.
LEMMA CountUp ==
  ASSUME NEW N \in Nat, NEW S, 0 \in S, \A n \in 0 .. N - 1 : n \in S => n + 1 \in S
  PROVE  0 .. N \subseteq S
  <1> DEFINE G == {n \in 0 .. N : 0 .. n \subseteq S}
  <1>1. 0 \in G
    BY SMT
  <1>2. IsFiniteSet(G) /\ AreNumbers(G)
    <2>1. IsFiniteSet(0 .. N)
      BY FS_Interval
    <2> QED
      BY <2>1, FS_Subset DEF AreNumbers
  <1>3. PICK n \in G : \A m \in G : m <= n
    BY <1>1, <1>2, LargestOf
  <1>4. n = N
    <2>1. SUFFICES ASSUME n # N PROVE FALSE
      OBVIOUS
    <2>2. n + 1 \in 0 .. N /\ n \in 0 .. N - 1 /\ n \in S
      BY <2>1, <1>3
    <2>3. n + 1 \in S
      BY <2>2
    <2>4. 0 .. n + 1 \subseteq S
      BY <2>2, <2>3, <1>3
    <2>5. n + 1 \in G
      BY <2>2, <2>4
    <2> QED
      BY <2>5, <1>3
  <1> QED
    BY <1>3, <1>4

-----------------------------------------------------------------------------
(* The departments above one. *)

Rising(f, d, n, g) ==
  IF n = 0 THEN {d} \ {0} ELSE g[n - 1] \cup ({f[e].parent : e \in g[n - 1]} \ {0})

IsRise(f, d, N, g) == g = [n \in 0 .. N |-> Rising(f, d, n, g)]

Rise(f, d) == CHOOSE g : IsRise(f, d, Len(f), g)

Up(f, d) == Rise(f, d)[Len(f)]

\* The departments above one, counted from its row and from the column alone, are the same.
LEMMA AboveIsUp == \A d : Above(d) = Up(department, d)
  BY DEF Above, Up, Rise, IsRise, Rising

\* The function by which Above is defined satisfies its equation.
LEMMA RiseExists ==
  ASSUME NEW f, Len(f) \in Nat, NEW d
  PROVE  IsRise(f, d, Len(f), Rise(f, d))
  <1> DEFINE S == {m \in 0 .. Len(f) : \E g : IsRise(f, d, m, g)}
  <1>1. 0 \in S
    <2> DEFINE g == [n \in 0 .. 0 |-> {d} \ {0}]
    <2>1. IsRise(f, d, 0, g)
      BY DEF IsRise, Rising
    <2> HIDE DEF g
    <2> QED
      BY <2>1
  <1>2. ASSUME NEW m \in 0 .. Len(f) - 1, m \in S PROVE m + 1 \in S
    <2>1. PICK g : IsRise(f, d, m, g)
      BY <1>2
    <2> DEFINE h == [n \in 0 .. m + 1 |-> IF n = m + 1 THEN Rising(f, d, m + 1, g) ELSE g[n]]
    <2>2. ASSUME NEW n \in 0 .. m + 1 PROVE h[n] = Rising(f, d, n, h)
      <3>1. CASE n = m + 1
        <4>1. m \in 0 .. m + 1 /\ m # m + 1 /\ n # 0 /\ n - 1 = m
          BY <1>2, <3>1
        <4>2. h[m] = g[m]
          BY <4>1
        <4>3. h[n] = Rising(f, d, n, g)
          BY <3>1
        <4> HIDE DEF h
        <4> QED
          BY <4>1, <4>2, <4>3 DEF Rising
      <3>2. CASE n # m + 1 /\ n # 0
        <4>1. n \in 0 .. m /\ n - 1 \in 0 .. m + 1 /\ n - 1 # m + 1
          BY <1>2, <3>2
        <4>2. h[n - 1] = g[n - 1] /\ h[n] = g[n]
          BY <4>1, <3>2
        <4>3. g[n] = Rising(f, d, n, g)
          BY <4>1, <2>1 DEF IsRise
        <4> HIDE DEF h
        <4> QED
          BY <3>2, <4>2, <4>3 DEF Rising
      <3>3. CASE n = 0
        <4>1. 0 \in 0 .. m /\ h[0] = g[0]
          BY <1>2
        <4>2. g[0] = Rising(f, d, 0, g)
          BY <4>1, <2>1 DEF IsRise
        <4> HIDE DEF h
        <4> QED
          BY <3>3, <4>1, <4>2 DEF Rising
      <3> QED
        BY <3>1, <3>2, <3>3
    <2>3. h = [n \in 0 .. m + 1 |-> h[n]]
      OBVIOUS
    <2>4. IsRise(f, d, m + 1, h)
      <3> HIDE DEF h
      <3> QED
        BY <2>2, <2>3 DEF IsRise
    <2> HIDE DEF h
    <2> QED
      BY <1>2, <2>4
  <1>3. 0 .. Len(f) \subseteq S
    <2> HIDE DEF S
    <2> QED
      BY <1>1, <1>2, CountUp
  <1> QED
    BY <1>3 DEF Rise

\* The parents of the departments of S are among them.
Rooted(f, S) == \A e \in S : f[e].parent \in S \cup {0}

Parented(f) == \A e \in DOMAIN f : f[e].parent \in {0} \cup DOMAIN f

\* No smaller set has d in it and the parents of what is in it.
LEMMA UpLeast ==
  ASSUME NEW f, Len(f) \in Nat, NEW d, NEW S, Rooted(f, S), d \in S \cup {0}
  PROVE  Up(f, d) \subseteq S
  <1> DEFINE g == Rise(f, d)
             T == {n \in 0 .. Len(f) : g[n] \subseteq S}
  <1>1. \A n \in 0 .. Len(f) : g[n] = Rising(f, d, n, g)
    BY RiseExists DEF IsRise
  <1> HIDE DEF g
  <1>2. 0 \in T
    <2>1. 0 \in 0 .. Len(f)
      OBVIOUS
    <2>2. g[0] = {d} \ {0}
      BY <1>1, <2>1 DEF Rising
    <2> QED
      BY <2>1, <2>2
  <1>3. ASSUME NEW n \in 0 .. Len(f) - 1, n \in T PROVE n + 1 \in T
    <2>1. n + 1 \in 0 .. Len(f) /\ n + 1 # 0 /\ (n + 1) - 1 = n
      OBVIOUS
    <2>2. g[n + 1] = g[n] \cup ({f[e].parent : e \in g[n]} \ {0})
      BY <1>1, <2>1 DEF Rising
    <2> QED
      BY <1>3, <2>1, <2>2 DEF Rooted
  <1>4. Len(f) \in T
    <2>1. 0 .. Len(f) \subseteq T
      <3> HIDE DEF T
      <3> QED
        BY <1>2, <1>3, CountUp
    <2> QED
      BY <2>1
  <1> QED
    BY <1>4 DEF Up, g

\* It is such a set.
LEMMA UpIsRooted ==
  ASSUME NEW f, Len(f) \in Nat, DOMAIN f = 1 .. Len(f), Parented(f), NEW d \in {0} \cup DOMAIN f
  PROVE  /\ Up(f, d) \subseteq DOMAIN f
         /\ d # 0 => d \in Up(f, d)
         /\ Rooted(f, Up(f, d))
  <1> DEFINE g == Rise(f, d)
             N == Len(f)
  <1>1. \A n \in 0 .. N : g[n] = Rising(f, d, n, g)
    BY RiseExists DEF IsRise
  <1>2. Up(f, d) = g[N]
    BY DEF Up
  <1> HIDE DEF g
  <1>3. Up(f, d) \subseteq DOMAIN f
    <2>1. Rooted(f, DOMAIN f)
      BY DEF Rooted, Parented
    <2> QED
      BY <2>1, UpLeast
  <1>6. IsFiniteSet(DOMAIN f) /\ Cardinality(DOMAIN f) = N
    <2>1. 1 \in Int /\ N \in Int
      OBVIOUS
    <2>2. IsFiniteSet(1 .. N) /\ Cardinality(1 .. N) = IF 1 > N THEN 0 ELSE N - 1 + 1
      BY <2>1, FS_Interval, Zenon
    <2> QED
      BY <2>2
  <1>4. CASE d = 0
    <2>1. Rooted(f, {})
      BY DEF Rooted
    <2>2. Up(f, d) = {}
      BY <1>4, <2>1, UpLeast
    <2> QED
      BY <1>4, <2>1, <2>2
  <1>5. CASE d # 0
    <2>1. \A n \in 0 .. N - 1 : g[n + 1] = g[n] \cup ({f[e].parent : e \in g[n]} \ {0})
      <3> SUFFICES ASSUME NEW n \in 0 .. N - 1
                   PROVE  g[n + 1] = g[n] \cup ({f[e].parent : e \in g[n]} \ {0})
        OBVIOUS
      <3>1. n + 1 \in 0 .. N /\ n + 1 # 0 /\ (n + 1) - 1 = n
        OBVIOUS
      <3> QED
        BY <3>1, <1>1 DEF Rising
    <2> DEFINE T == {n \in 0 .. N : /\ d \in g[n] /\ g[n] \subseteq DOMAIN f
                                    /\ Rooted(f, g[n]) \/ Cardinality(g[n]) >= n + 1}
    <2>2. 0 \in T
      <3> 0 \in 0 .. N
        OBVIOUS
      <3>1. g[0] = {d}
        BY <1>1, <1>5 DEF Rising
      <3>2. Cardinality({d}) = 1
        BY FS_Singleton
      <3>3. Cardinality(g[0]) >= 0 + 1
        BY <3>1, <3>2
      <3> QED
        BY <1>5, <3>1, <3>3
    <2>3. ASSUME NEW n \in 0 .. N - 1, n \in T PROVE n + 1 \in T
      <3>1. g[n + 1] = g[n] \cup ({f[e].parent : e \in g[n]} \ {0})
        BY <2>1
      <3>2. d \in g[n + 1] /\ g[n + 1] \subseteq DOMAIN f
        BY <3>1, <2>3 DEF Parented
      <3>3. n + 1 \in 0 .. N
        OBVIOUS
      <3>4. CASE Rooted(f, g[n])
        <4>1. g[n + 1] = g[n]
          BY <3>1, <3>4 DEF Rooted
        <4> QED
          BY <3>2, <3>3, <3>4, <4>1
      <3>5. CASE ~ Rooted(f, g[n])
        <4>1. PICK e \in g[n] : f[e].parent \notin g[n] \cup {0}
          BY <3>5 DEF Rooted
        <4>2. f[e].parent \in g[n + 1]
          BY <3>1, <4>1
        <4>3. g[n] \subseteq g[n + 1] /\ g[n] # g[n + 1]
          BY <3>1, <4>1, <4>2
        <4>4. IsFiniteSet(g[n + 1])
          BY <1>6, <3>2, FS_Subset
        <4>5. /\ Cardinality(g[n]) <= Cardinality(g[n + 1])
              /\ Cardinality(g[n]) # Cardinality(g[n + 1])
          BY <4>3, <4>4, FS_Subset, Zenon
        <4>6. Cardinality(g[n]) \in Nat /\ Cardinality(g[n + 1]) \in Nat
          BY <4>3, <4>4, FS_Subset, FS_CardinalityType
        <4>7. Cardinality(g[n]) >= n + 1
          BY <2>3, <3>5
        <4>8. Cardinality(g[n + 1]) >= (n + 1) + 1
          BY <4>5, <4>6, <4>7
        <4> QED
          BY <3>2, <3>3, <4>8
      <3> QED
        BY <3>4, <3>5
    <2>4. N \in T
      <3>1. 0 .. N \subseteq T
        <4> HIDE DEF T
        <4> QED
          BY <2>2, <2>3, CountUp
      <3> QED
        BY <3>1
    <2>5. Cardinality(g[N]) <= N /\ Cardinality(g[N]) \in Nat
      <3> QED
        BY <1>6, <2>4, FS_Subset, FS_CardinalityType
    <2>6. Rooted(f, g[N])
      BY <2>4, <2>5
    <2> QED
      BY <1>2, <1>3, <2>4, <2>6
  <1> QED
    BY <1>4, <1>5

-----------------------------------------------------------------------------
(* What is always so: the rows have their types and name rows that are there. *)

Codes == CodesOf(Modules)

Kinds == {"idle", "login", "create_user", "edit_user", "destroy_user", "create_role", "edit_role",
          "destroy_role", "create_department", "edit_department", "destroy_department",
          "create_grant"}
Names == {"none", "admin", "clerk", "user", "role", "department"}

RoleRows == [live : BOOLEAN, system : BOOLEAN, on : BOOLEAN, codes : SUBSET Codes]
UserRows == [live : BOOLEAN, on : BOOLEAN, name : Names, roles : SUBSET Nat, place : Nat]
DepartmentRows == [live : BOOLEAN, on : BOOLEAN, parent : Nat]
GrantRows == [live : BOOLEAN, resource : Nat,
              subject : {"user", "role", "department", "none"} \X Nat]
Tasks == [kind : Kinds, id : Nat, name : Names, roles : SUBSET Nat, codes : SUBSET Codes,
          place : Nat, on : BOOLEAN]

ConfigFits ==
  /\ snapshot \subseteq Modules \/ snapshot = {"none"}
  /\ switch \in [Modules -> {"none", "on", "off"}]

RolesFit == role \in Seq(RoleRows)

UsersFit ==
  /\ user \in Seq(UserRows)
  /\ \A u \in Users : user[u].roles \subseteq Roles /\ user[u].place \in {0} \cup Departments

DepartmentsFit == department \in Seq(DepartmentRows) /\ Parented(department)

GrantsFit ==
  /\ policy \in [Resources -> {"BASIC", "SPECIAL"}]
  /\ grant \in Seq(GrantRows)
  /\ \A g \in DOMAIN grant : grant[g].live =>
       grant[g].resource \in Resources /\ grant[g].subject \in Subjects

\* What a request under way names is there.
Named(t) ==
  /\ t.kind \in {"login", "edit_user", "destroy_user"} => t.id \in Users
  /\ t.kind \in {"create_user", "edit_user"} => t.roles \subseteq Roles
  /\ t.kind \in {"edit_role", "destroy_role"} => t.id \in Roles
  /\ t.kind \in {"create_role", "edit_role"} => \A c \in t.codes : c[2] = "use"
  /\ t.kind \in {"edit_department", "destroy_department"} => t.id \in Departments
  /\ t.kind \in {"create_user", "create_department", "edit_department"} =>
       t.place \in {0} \cup Departments
  /\ t.kind = "create_grant" => t.place \in Resources /\ <<t.name, t.id>> \in Subjects

TasksFit == job \in [Workers -> Tasks] /\ \A w \in Workers : Named(job[w])

Core ==
  ConfigFits /\ RolesFit /\ UsersFit /\ DepartmentsFit /\ GrantsFit /\ TasksFit

\* No row is ever lost.
Grown == Roles \subseteq Roles' /\ Users \subseteq Users' /\ Departments \subseteq Departments'

\* The numbers of the rows.
LEMMA CoreRows ==
  ASSUME Core
  PROVE  /\ Users = 1 .. Len(user) /\ Len(user) \in Nat
         /\ Roles = 1 .. Len(role) /\ Len(role) \in Nat
         /\ Departments = 1 .. Len(department) /\ Len(department) \in Nat
         /\ DOMAIN grant = 1 .. Len(grant) /\ Len(grant) \in Nat
         /\ \A u \in Users : user[u] \in UserRows
         /\ \A r \in Roles : role[r] \in RoleRows
         /\ \A d \in Departments : department[d] \in DepartmentRows
         /\ \A g \in DOMAIN grant : grant[g] \in GrantRows
         /\ \A w \in Workers : job[w] \in Tasks
  BY RowNumbers DEF Core, RolesFit, UsersFit, DepartmentsFit, GrantsFit, TasksFit,
                    Users, Roles, Departments

\* Codes that are enabled are codes, and so are those that follow from codes.
LEMMA CodesFit ==
  /\ EnabledCodes \subseteq Codes
  /\ \A S \in SUBSET Modules : CodesOf(S) \subseteq Codes /\ S \X {"use"} \subseteq Codes
  /\ \A codes \in SUBSET Codes : Expanded(codes) \in SUBSET Codes
  BY DEF Codes, CodesOf, EnabledCodes, EnabledModules, Expanded

\* An idle worker's request is one, and names nothing.
LEMMA IdleNamesNothing == Idle \in Tasks /\ Named(Idle) /\ Named(Idle)'
  BY DEF Idle, Tasks, Kinds, Names, Named

\* What a request names stays there.
LEMMA NamedStays ==
  ASSUME Grown, NEW t, Named(t)
  PROVE  Named(t)'
  <1>1. Subjects \subseteq Subjects'
    BY DEF Subjects, Grown
  <1> QED
    BY <1>1 DEF Named, Grown

\* What is not written fits as before.
LEMMA Kept ==
  ASSUME Core, Grown
  PROVE  /\ UNCHANGED config => ConfigFits'
         /\ UNCHANGED role => RolesFit'
         /\ UNCHANGED user => UsersFit'
         /\ UNCHANGED department => DepartmentsFit'
         /\ UNCHANGED policy /\ UNCHANGED grant => GrantsFit'
         /\ UNCHANGED job => TasksFit'
  <1>1. UNCHANGED config => ConfigFits'
    BY DEF Core, ConfigFits, config
  <1>2. UNCHANGED role => RolesFit'
    BY DEF Core, RolesFit
  <1>3. UNCHANGED user => UsersFit'
    BY DEF Core, UsersFit, Grown, Users
  <1>4. UNCHANGED department => DepartmentsFit'
    BY DEF Core, DepartmentsFit
  <1>5. UNCHANGED policy /\ UNCHANGED grant => GrantsFit'
    <2>1. Subjects \subseteq Subjects'
      BY DEF Subjects, Grown
    <2> QED
      BY <2>1 DEF Core, GrantsFit
  <1>6. UNCHANGED job => TasksFit'
    <2> SUFFICES ASSUME UNCHANGED job PROVE TasksFit'
      OBVIOUS
    <2>1. ASSUME NEW w \in Workers PROVE Named(job[w])'
      <3>1. PICK t : t = job[w]
        OBVIOUS
      <3>2. Named(t)'
        BY <3>1, NamedStays DEF Core, TasksFit
      <3> QED
        BY <3>1, <3>2
    <2> QED
      BY <2>1 DEF Core, TasksFit
  <1> QED
    BY <1>1, <1>2, <1>3, <1>4, <1>5, <1>6

\* A worker takes up a request, or is done with it.
LEMMA Taken ==
  ASSUME Core, Grown, NEW w \in Workers, NEW t \in Tasks, Named(t)',
         job' = [job EXCEPT ![w] = t]
  PROVE  TasksFit'
  <1>1. ASSUME NEW v \in Workers PROVE Named(job[v])'
    <2>1. PICK s : s = job'[v]
      OBVIOUS
    <2>2. s = t \/ s = job[v]
      BY <2>1 DEF Core, TasksFit
    <2>3. Named(s)'
      BY <2>2, NamedStays DEF Core, TasksFit
    <2> QED
      BY <2>1, <2>3
  <1>2. job' \in [Workers -> Tasks]
    BY DEF Core, TasksFit
  <1> QED
    BY <1>1, <1>2 DEF TasksFit

\* Only a request is taken up.
LEMMA Asked ==
  ASSUME Core, NEW w \in Workers, NEW t \in Tasks, Named(t), job' = [job EXCEPT ![w] = t],
         UNCHANGED <<requests, config, people, access>>
  PROVE  Core' /\ Grown
  <1>1. Grown
    BY DEF Grown, people, access, Users, Roles, Departments
  <1>2. Named(t)'
    BY <1>1, NamedStays
  <1> QED
    BY <1>1, <1>2, Kept, Taken DEF Core, people, access

\* Only a worker is done.
LEMMA DoneFits ==
  ASSUME Core, Grown, NEW w \in Workers, Done(w)
  PROVE  TasksFit'
  BY Taken, IdleNamesNothing DEF Done

\* The role of a super administrator is filled.
LEMMA FilledFits ==
  ASSUME Core, UNCHANGED department, NEW u, NEW codes \in SUBSET Codes, Filled(u, codes)
  PROVE  RolesFit' /\ UsersFit' /\ Grown
  <1>1. CASE SystemRoles(u) # {}
    <2>1. PICK r : role' = [role EXCEPT ![r].codes = codes]
      BY <1>1 DEF Filled
    <2>2. role' \in [Roles -> RoleRows]
      BY <2>1, CoreRows DEF RoleRows, Roles
    <2>3. role' \in Seq(RoleRows) /\ Roles' = Roles
      BY <2>2, RowsKept DEF Core, RolesFit, Roles
    <2>4. UNCHANGED user
      BY <1>1 DEF Filled
    <2>5. Grown
      BY <2>3, <2>4 DEF Grown, Users, Departments
    <2> QED
      BY <2>3, <2>4, <2>5, Kept DEF RolesFit
  <1>2. CASE SystemRoles(u) = {}
    <2> DEFINE e == NewRole(codes, TRUE)
    <2>1. role' = Append(role, e) /\ user' = [user EXCEPT ![u].roles = @ \cup {Len(role) + 1}]
      BY <1>2 DEF Filled
    <2>2. e \in RoleRows
      BY DEF NewRole, RoleRows
    <2> HIDE DEF e
    <2>3. role' \in Seq(RoleRows) /\ Roles' = Roles \cup {Len(role) + 1}
      BY <2>1, <2>2, RowMade DEF Core, RolesFit, Roles
    <2>4. Len(role) + 1 \in Nat
      BY CoreRows
    <2>5. user' \in [Users -> UserRows]
      BY <2>1, <2>4, CoreRows DEF UserRows, Users
    <2>6. user' \in Seq(UserRows) /\ Users' = Users
      BY <2>5, RowsKept DEF Core, UsersFit, Users
    <2>7. Grown
      BY <2>3, <2>6 DEF Grown, Departments
    <2>8. ASSUME NEW v \in Users
          PROVE  user'[v].roles \subseteq Roles' /\ user'[v].place \in {0} \cup Departments'
      <3>1. user[v] \in UserRows
        BY CoreRows
      <3>2. user[v].roles \subseteq Roles /\ user[v].place \in {0} \cup Departments
        BY DEF Core, UsersFit
      <3>3. user'[v].roles \subseteq user[v].roles \cup {Len(role) + 1}
        BY <2>1, <3>1 DEF UserRows, Users
      <3>4. user'[v].place = user[v].place
        BY <2>1, <3>1 DEF UserRows, Users
      <3> QED
        BY <2>3, <3>2, <3>3, <3>4 DEF Departments
    <2> QED
      BY <2>3, <2>6, <2>7, <2>8 DEF RolesFit, UsersFit
  <1> QED
    BY <1>1, <1>2

\* There is an administrator, or one is made.
LEMMA EnsureAdminFits ==
  ASSUME Core, UNCHANGED department, NEW codes \in SUBSET Codes, EnsureAdmin(codes)
  PROVE  RolesFit' /\ UsersFit' /\ Grown
  <1>1. CASE SuperAdmins # {}
    BY <1>1, FilledFits DEF EnsureAdmin
  <1>2. CASE SuperAdmins = {}
    <2> DEFINE e == NewRole(codes, TRUE)
               x == NewUser("admin", {Len(role) + 1}, 0)
    <2>1. role' = Append(role, e) /\ user' = Append(user, x)
      BY <1>2 DEF EnsureAdmin
    <2>2. e \in RoleRows
      BY DEF NewRole, RoleRows
    <2>3. Len(role) + 1 \in Nat
      BY CoreRows
    <2>4. x \in UserRows /\ x.roles = {Len(role) + 1} /\ x.place = 0
      BY <2>3 DEF NewUser, UserRows, Names
    <2> HIDE DEF e, x
    <2>5. role' \in Seq(RoleRows) /\ Roles' = Roles \cup {Len(role) + 1}
      BY <2>1, <2>2, RowMade DEF Core, RolesFit, Roles
    <2>6. /\ user' \in Seq(UserRows) /\ Users' = Users \cup {Len(user) + 1}
          /\ \A v \in Users : user'[v] = user[v]
          /\ user'[Len(user) + 1] = x
      BY <2>1, <2>4, RowMade DEF Core, UsersFit, Users
    <2>7. Grown
      BY <2>5, <2>6 DEF Grown, Departments
    <2> QED
      BY <2>4, <2>5, <2>6, <2>7 DEF Core, RolesFit, UsersFit, Grown
  <1> QED
    BY <1>1, <1>2

\* The platform's requests keep it.
LEMMA PlatformCore ==
  ASSUME Core, NEW w \in Workers, PlatformStep(w)
  PROVE  Core' /\ Grown
  <1>1. ASSUME NEW S \in SUBSET Modules, Apply(w, S) PROVE Core' /\ Grown
    <2>1. ConfigFits'
      BY <1>1 DEF Apply, Mirrored, Switched, ConfigFits
    <2>2. UNCHANGED department /\ UNCHANGED policy /\ UNCHANGED grant /\ UNCHANGED job
      BY <1>1 DEF Apply, access
    <2>3. RolesFit' /\ UsersFit' /\ Grown
      <3>1. CASE SuperAdmins = {}
        <4>1. UNCHANGED role /\ UNCHANGED user
          BY <1>1, <3>1 DEF Apply, people
        <4>2. Grown
          BY <2>2, <4>1 DEF Grown, Users, Roles, Departments
        <4> QED
          BY <4>1, <4>2, Kept
      <3>2. CASE SuperAdmins # {}
        BY <1>1, <2>2, <3>2, CodesFit, FilledFits DEF Apply
      <3> QED
        BY <3>1, <3>2
    <2> QED
      BY <2>1, <2>2, <2>3, Kept DEF Core
  <1>2. ASSUME NEW S \in SUBSET Modules, Bind(w, S) PROVE Core' /\ Grown
    <2>1. ConfigFits'
      BY <1>2 DEF Bind, Mirrored, Switched, ConfigFits
    <2>2. UNCHANGED department /\ UNCHANGED policy /\ UNCHANGED grant /\ UNCHANGED job
      BY <1>2 DEF Bind, access
    <2>3. RolesFit' /\ UsersFit' /\ Grown
      BY <1>2, <2>2, CodesFit, EnsureAdminFits DEF Bind
    <2> QED
      BY <2>1, <2>2, <2>3, Kept DEF Core
  <1>3. CASE RefreshAdmin(w)
    <2>1. /\ UNCHANGED department /\ UNCHANGED policy /\ UNCHANGED grant /\ UNCHANGED job
          /\ UNCHANGED config
      BY <1>3 DEF RefreshAdmin, access
    <2>2. RolesFit' /\ UsersFit' /\ Grown
      BY <1>3, <2>1, CodesFit, EnsureAdminFits DEF RefreshAdmin
    <2> QED
      BY <2>1, <2>2, Kept DEF Core
  <1>4. CASE SyncRoles(w)
    <2>1. /\ UNCHANGED department /\ UNCHANGED policy /\ UNCHANGED grant /\ UNCHANGED job
          /\ UNCHANGED config /\ UNCHANGED user
      BY <1>4 DEF SyncRoles, access
    <2>2. \A r \in Roles : role[r] \in RoleRows
      BY CoreRows
    <2>3. \A r \in Roles : Expanded(role[r].codes) \in SUBSET Codes
      BY <2>2, CodesFit DEF RoleRows
    <2>4. role' \in [Roles -> RoleRows]
      BY <1>4, <2>2, <2>3, CodesFit DEF SyncRoles, RoleRows
    <2>5. role' \in Seq(RoleRows) /\ Roles' = Roles
      BY <2>4, RowsKept DEF Core, RolesFit, Roles
    <2>6. Grown
      BY <2>1, <2>5 DEF Grown, Users, Departments
    <2> QED
      BY <2>1, <2>5, <2>6, Kept DEF Core, RolesFit
  <1>5. CASE ClearData(w)
    <2> DEFINE rs == [r \in Roles |-> GoneRole]
               us == [u \in Users |-> GoneUser]
               e  == NewRole(EnabledCodes, TRUE)
               x  == NewUser("admin", {Len(role) + 1}, 0)
    <2>1. /\ role' = Append(rs, e) /\ user' = Append(us, x)
          /\ department' = [d \in Departments |-> GoneDepartment]
          /\ policy' = [r \in Resources |-> "SPECIAL"]
          /\ grant' = [g \in DOMAIN grant |-> GoneGrant]
          /\ UNCHANGED config /\ UNCHANGED job
      BY <1>5 DEF ClearData
    <2>2. rs \in Seq(RoleRows) /\ Len(rs) = Len(role) /\ DOMAIN rs = Roles
      <3>1. rs \in [Roles -> RoleRows]
        BY DEF GoneRole, RoleRows
      <3> QED
        BY <3>1, RowsKept DEF Core, RolesFit, Roles
    <2>3. us \in Seq(UserRows) /\ Len(us) = Len(user) /\ DOMAIN us = Users
      <3>1. us \in [Users -> UserRows]
        BY DEF GoneUser, UserRows, Names
      <3> QED
        BY <3>1, RowsKept DEF Core, UsersFit, Users
    <2>4. e \in RoleRows
      BY CodesFit DEF NewRole, RoleRows
    <2>5. Len(role) + 1 \in Nat
      BY CoreRows
    <2>6. x \in UserRows /\ x.roles = {Len(role) + 1} /\ x.place = 0
      BY <2>5 DEF NewUser, UserRows, Names
    <2>7. \A u \in Users : us[u].roles = {} /\ us[u].place = 0
      BY DEF GoneUser
    <2> HIDE DEF e, x, rs, us
    <2>8. role' \in Seq(RoleRows) /\ Roles' = Roles \cup {Len(role) + 1}
      BY <2>1, <2>2, <2>4, RowMade DEF Roles
    <2>9. /\ user' \in Seq(UserRows) /\ Users' = Users \cup {Len(user) + 1}
          /\ \A v \in Users : user'[v] = us[v]
          /\ user'[Len(user) + 1] = x
      BY <2>1, <2>3, <2>6, RowMade DEF Users
    <2>10. department' \in Seq(DepartmentRows) /\ Departments' = Departments
      <3>1. department' \in [Departments -> DepartmentRows]
        BY <2>1 DEF GoneDepartment, DepartmentRows
      <3> QED
        BY <3>1, RowsKept DEF Core, DepartmentsFit, Departments
    <2>11. DepartmentsFit'
      BY <2>1, <2>10 DEF DepartmentsFit, Parented, Departments, GoneDepartment
    <2>12. GrantsFit'
      <3>1. grant' \in [DOMAIN grant -> GrantRows]
        BY <2>1 DEF GoneGrant, GrantRows
      <3>2. grant' \in Seq(GrantRows)
        BY <3>1, RowsKept DEF Core, GrantsFit
      <3>3. \A g \in DOMAIN grant' : ~ grant'[g].live
        BY <2>1 DEF GoneGrant
      <3> QED
        BY <2>1, <3>2, <3>3 DEF GrantsFit
    <2>13. Grown
      BY <2>8, <2>9, <2>10 DEF Grown
    <2>14. UsersFit'
      BY <2>6, <2>7, <2>8, <2>9 DEF UsersFit
    <2> QED
      BY <2>1, <2>8, <2>11, <2>12, <2>13, <2>14, Kept DEF Core, RolesFit
  <1>6. ASSUME NEW m \in Modules, Toggle(w, m) PROVE Core' /\ Grown
    <2>1. /\ UNCHANGED role /\ UNCHANGED user /\ UNCHANGED department
          /\ UNCHANGED policy /\ UNCHANGED grant /\ UNCHANGED job
      BY <1>6 DEF Toggle, people, access
    <2>2. ConfigFits'
      BY <1>6 DEF Toggle, Core, ConfigFits
    <2>3. Grown
      BY <2>1 DEF Grown, Users, Roles, Departments
    <2> QED
      BY <2>1, <2>2, <2>3, Kept DEF Core
  <1> QED
    BY <1>1, <1>2, <1>3, <1>4, <1>5, <1>6 DEF PlatformStep

\* What is taken up of users and roles names what is there; or a user is moved.
LEMMA PeopleCore ==
  ASSUME Core, NEW w \in Workers, PeopleStep(w)
  PROVE  Core' /\ Grown
  <1> USE DEF Kinds, Names, Tasks, Named, Idle
  <1>1. ASSUME NEW u \in Users, LoadLogin(w, u) PROVE Core' /\ Grown
    <2> DEFINE t == [Idle EXCEPT !.kind = "login", !.id = u, !.codes = EnabledCodes]
    <2>0. u \in Nat
      BY CoreRows
    <2>1. t \in Tasks /\ Named(t)
      BY <2>0, CodesFit
    <2>2. job' = [job EXCEPT ![w] = t] /\ UNCHANGED <<requests, config, people, access>>
      BY <1>1 DEF LoadLogin
    <2> HIDE DEF t, Named, Tasks
    <2> QED
      BY <2>1, <2>2, Asked
  <1>2. ASSUME NEW u \in Users, LoadRemoval(w, u) PROVE Core' /\ Grown
    <2> DEFINE t == [Idle EXCEPT !.kind = "destroy_user", !.id = u]
    <2>0. u \in Nat
      BY CoreRows
    <2>1. t \in Tasks /\ Named(t)
      BY <2>0
    <2>2. job' = [job EXCEPT ![w] = t] /\ UNCHANGED <<requests, config, people, access>>
      BY <1>2 DEF LoadRemoval
    <2> HIDE DEF t, Named, Tasks
    <2> QED
      BY <2>1, <2>2, Asked
  <1>3. ASSUME NEW u \in Users \cup {0}, NEW name \in {"admin", "clerk"}, NEW R \in SUBSET Roles,
               NEW d \in Departments \cup {0}, LoadUser(w, u, name, R, d)
        PROVE  Core' /\ Grown
    <2> DEFINE t == [Idle EXCEPT !.kind = IF u = 0 THEN "create_user" ELSE "edit_user",
                                 !.id = u, !.name = name, !.roles = R, !.place = d]
    <2>0. u \in Nat /\ R \in SUBSET Nat /\ d \in Nat
      BY CoreRows
    <2>1. t \in Tasks /\ Named(t)
      <3>1. CASE u = 0
        BY <2>0, <3>1
      <3>2. CASE u # 0
        BY <2>0, <3>2
      <3> QED
        BY <3>1, <3>2
    <2>2. job' = [job EXCEPT ![w] = t] /\ UNCHANGED <<requests, config, people, access>>
      BY <1>3 DEF LoadUser
    <2> HIDE DEF t, Named, Tasks
    <2> QED
      BY <2>1, <2>2, Asked
  <1>4. ASSUME NEW u \in Users, NEW d \in Departments \cup {0}, NEW on \in BOOLEAN,
               MoveUser(w, u, d, on)
        PROVE  Core' /\ Grown
    <2>1. /\ UNCHANGED config /\ UNCHANGED role /\ UNCHANGED department
          /\ UNCHANGED policy /\ UNCHANGED grant /\ UNCHANGED job
          /\ user' = [user EXCEPT ![u].place = d, ![u].on = on]
      BY <1>4 DEF MoveUser, access
    <2>2. d \in Nat /\ d \in {0} \cup Departments
      BY CoreRows
    <2>3. \A v \in Users : user[v] \in UserRows
      BY CoreRows
    <2>4. user' \in [Users -> UserRows]
      BY <2>1, <2>2, <2>3 DEF UserRows, Users
    <2>5. user' \in Seq(UserRows) /\ Users' = Users
      BY <2>4, RowsKept DEF Core, UsersFit, Users
    <2>6. Grown
      BY <2>1, <2>5 DEF Grown, Roles, Departments
    <2>7. \A v \in Users : user'[v].roles = user[v].roles /\ user'[v].place \in {d, user[v].place}
      BY <2>1, <2>3 DEF UserRows, Users
    <2>8. UsersFit'
      BY <2>1, <2>2, <2>5, <2>7 DEF Core, UsersFit, Roles, Departments
    <2> QED
      BY <2>1, <2>6, <2>8, Kept DEF Core
  <1>5. ASSUME NEW r \in Roles \cup {0}, NEW S \in SUBSET EnabledModules, NEW on \in BOOLEAN,
               LoadRole(w, r, S \X {"use"}, on)
        PROVE  Core' /\ Grown
    <2> DEFINE c == S \X {"use"}
               t == [Idle EXCEPT !.kind = IF r = 0 THEN "create_role" ELSE "edit_role",
                                 !.id = r, !.codes = c, !.on = on]
    <2>0. r \in Nat /\ c \in SUBSET Codes /\ \A x \in c : x[2] = "use"
      <3>1. r \in Nat
        BY CoreRows
      <3>2. S \in SUBSET Modules
        BY DEF EnabledModules
      <3>3. c \in SUBSET Codes
        BY <3>2, CodesFit
      <3> QED
        BY <3>1, <3>3
    <2>1. t \in Tasks /\ Named(t)
      <3> HIDE DEF c
      <3>1. CASE r = 0
        BY <2>0, <3>1
      <3>2. CASE r # 0
        BY <2>0, <3>2
      <3> QED
        BY <3>1, <3>2
    <2>2. job' = [job EXCEPT ![w] = t] /\ UNCHANGED <<requests, config, people, access>>
      BY <1>5 DEF LoadRole
    <2> HIDE DEF t, Named, Tasks
    <2> QED
      BY <2>1, <2>2, Asked
  <1>6. ASSUME NEW r \in Roles, LoadRoleRemoval(w, r) PROVE Core' /\ Grown
    <2> DEFINE t == [Idle EXCEPT !.kind = "destroy_role", !.id = r]
    <2>0. r \in Nat
      BY CoreRows
    <2>1. t \in Tasks /\ Named(t)
      BY <2>0
    <2>2. job' = [job EXCEPT ![w] = t] /\ UNCHANGED <<requests, config, people, access>>
      BY <1>6 DEF LoadRoleRemoval
    <2> HIDE DEF t, Named, Tasks
    <2> QED
      BY <2>1, <2>2, Asked
  <1> HIDE DEF Kinds, Names, Tasks, Named, Idle
  <1> QED
    BY <1>1, <1>2, <1>3, <1>4, <1>5, <1>6 DEF PeopleStep

\* The same of departments and grants; or grants are taken away.
LEMMA AccessCore ==
  ASSUME Core, NEW w \in Workers, AccessStep(w)
  PROVE  Core' /\ Grown
  <1> USE DEF Kinds, Names, Tasks, Named, Idle
  <1>1. ASSUME NEW d \in Departments \cup {0}, NEW p \in Departments \cup {0}, NEW on \in BOOLEAN,
               LoadDepartment(w, d, p, on)
        PROVE  Core' /\ Grown
    <2> DEFINE t == [Idle EXCEPT !.kind = IF d = 0 THEN "create_department" ELSE "edit_department",
                                 !.id = d, !.place = p, !.on = on]
    <2>0. d \in Nat /\ p \in Nat
      BY CoreRows
    <2>1. t \in Tasks /\ Named(t)
      <3>1. CASE d = 0
        BY <2>0, <3>1
      <3>2. CASE d # 0
        BY <2>0, <3>2
      <3> QED
        BY <3>1, <3>2
    <2>2. job' = [job EXCEPT ![w] = t] /\ UNCHANGED <<requests, config, people, access>>
      BY <1>1 DEF LoadDepartment
    <2> HIDE DEF t, Named, Tasks
    <2> QED
      BY <2>1, <2>2, Asked
  <1>2. ASSUME NEW d \in Departments, LoadDissolution(w, d) PROVE Core' /\ Grown
    <2> DEFINE t == [Idle EXCEPT !.kind = "destroy_department", !.id = d]
    <2>0. d \in Nat
      BY CoreRows
    <2>1. t \in Tasks /\ Named(t)
      BY <2>0
    <2>2. job' = [job EXCEPT ![w] = t] /\ UNCHANGED <<requests, config, people, access>>
      BY <1>2 DEF LoadDissolution
    <2> HIDE DEF t, Named, Tasks
    <2> QED
      BY <2>1, <2>2, Asked
  <1>3. ASSUME NEW r \in Resources, NEW s \in Subjects, LoadGrant(w, r, s) PROVE Core' /\ Grown
    <2> DEFINE t == [Idle EXCEPT !.kind = "create_grant", !.id = s[2], !.name = s[1], !.place = r]
    <2>0. /\ s[1] \in {"user", "role", "department"} /\ s[2] \in Nat /\ s = <<s[1], s[2]>>
          /\ r \in Nat
      <3>1. Users \subseteq Nat /\ Roles \subseteq Nat /\ Departments \subseteq Nat
        BY CoreRows
      <3> QED
        BY <3>1, TenancyAssumption DEF Subjects
    <2>1. t \in Tasks /\ Named(t)
      BY <2>0
    <2>2. job' = [job EXCEPT ![w] = t] /\ UNCHANGED <<requests, config, people, access>>
      BY <1>3 DEF LoadGrant
    <2> HIDE DEF t, Named, Tasks
    <2> QED
      BY <2>1, <2>2, Asked
  <1> HIDE DEF Kinds, Names, Tasks, Named, Idle
  <1>4. ASSUME NEW r \in Resources, NEW type \in {"BASIC", "SPECIAL"}, PutPolicy(w, r, type)
        PROVE  Core' /\ Grown
    <2>1. /\ UNCHANGED config /\ UNCHANGED role /\ UNCHANGED user /\ UNCHANGED department
          /\ UNCHANGED job
          /\ policy' = [policy EXCEPT ![r] = type] /\ grant' = Withdrawn(r, type)
      BY <1>4 DEF PutPolicy, people
    <2>2. Grown
      BY <2>1 DEF Grown, Users, Roles, Departments
    <2>3. GrantsFit'
      <3>1. policy' \in [Resources -> {"BASIC", "SPECIAL"}]
        BY <2>1 DEF Core, GrantsFit
      <3>2. /\ grant' \in [DOMAIN grant -> GrantRows]
            /\ \A g \in DOMAIN grant : grant'[g].live => grant'[g] = grant[g]
        <4>1. CASE type = "SPECIAL"
          BY <2>1, <4>1, CoreRows, RowNumbers DEF Withdrawn, Core, GrantsFit
        <4>2. CASE type # "SPECIAL"
          BY <2>1, <4>2, CoreRows DEF Withdrawn, GoneGrant, GrantRows
        <4> QED
          BY <4>1, <4>2
      <3>3. grant' \in Seq(GrantRows) /\ DOMAIN grant' = DOMAIN grant
        BY <3>2, RowsKept DEF Core, GrantsFit
      <3>4. Subjects' = Subjects
        BY <2>1 DEF Subjects, Users, Roles, Departments
      <3> QED
        BY <3>1, <3>2, <3>3, <3>4 DEF Core, GrantsFit
    <2> QED
      BY <2>1, <2>2, <2>3, Kept DEF Core
  <1>5. ASSUME NEW g \in DOMAIN grant, DestroyGrant(w, g) PROVE Core' /\ Grown
    <2>1. /\ UNCHANGED config /\ UNCHANGED role /\ UNCHANGED user /\ UNCHANGED department
          /\ UNCHANGED job /\ UNCHANGED policy
          /\ grant' = [grant EXCEPT ![g] = GoneGrant]
      BY <1>5 DEF DestroyGrant, people
    <2>2. Grown
      BY <2>1 DEF Grown, Users, Roles, Departments
    <2>3. GrantsFit'
      <3>2. /\ grant' \in [DOMAIN grant -> GrantRows]
            /\ \A h \in DOMAIN grant : grant'[h].live => grant'[h] = grant[h]
        BY <2>1, CoreRows DEF GoneGrant, GrantRows
      <3>3. grant' \in Seq(GrantRows) /\ DOMAIN grant' = DOMAIN grant
        BY <3>2, RowsKept DEF Core, GrantsFit
      <3>4. Subjects' = Subjects
        BY <2>1 DEF Subjects, Users, Roles, Departments
      <3> QED
        BY <2>1, <3>2, <3>3, <3>4 DEF Core, GrantsFit
    <2> QED
      BY <2>1, <2>2, <2>3, Kept DEF Core
  <1> QED
    BY <1>1, <1>2, <1>3, <1>4, <1>5 DEF AccessStep

\* Grants that are left of those there were still name what is there.
LEMMA GrantsLeft ==
  ASSUME Core, Grown, UNCHANGED policy,
         NEW F, grant' = [g \in DOMAIN grant |-> IF F[g] THEN GoneGrant ELSE grant[g]]
  PROVE  GrantsFit'
  <1>1. /\ grant' \in [DOMAIN grant -> GrantRows]
        /\ \A h \in DOMAIN grant : grant'[h].live => grant'[h] = grant[h]
    BY CoreRows DEF GoneGrant, GrantRows
  <1>2. grant' \in Seq(GrantRows) /\ DOMAIN grant' = DOMAIN grant
    BY <1>1, RowsKept DEF Core, GrantsFit
  <1>3. Subjects \subseteq Subjects'
    BY DEF Subjects, Grown
  <1> QED
    BY <1>1, <1>2, <1>3 DEF Core, GrantsFit

\* A user is written, with roles and a department that are there.
LEMMA UserWritten ==
  ASSUME Core, NEW u \in Users, NEW x \in UserRows, user' = [user EXCEPT ![u] = x],
         x.roles \subseteq Roles, x.place \in {0} \cup Departments,
         Roles \subseteq Roles', Departments \subseteq Departments'
  PROVE  UsersFit' /\ Grown
  <1>1. user' \in [Users -> UserRows]
    BY CoreRows DEF Users
  <1>2. user' \in Seq(UserRows) /\ Users' = Users
    BY <1>1, RowsKept DEF Core, UsersFit, Users
  <1>3. \A v \in Users : user'[v] = IF v = u THEN x ELSE user[v]
    BY CoreRows DEF Users
  <1> QED
    BY <1>2, <1>3 DEF Core, UsersFit, Grown

\* A role is written.
LEMMA RoleWritten ==
  ASSUME Core, NEW r \in Roles, NEW x \in RoleRows, role' = [role EXCEPT ![r] = x]
  PROVE  RolesFit' /\ Roles' = Roles
  <1>1. role' \in [Roles -> RoleRows]
    BY CoreRows DEF Roles
  <1> QED
    BY <1>1, RowsKept DEF Core, RolesFit, Roles

\* Requests about users go on.
LEMMA ServeUsers ==
  ASSUME Core, NEW w \in Workers,
         SaveLogin(w) \/ CreateUser(w) \/ UpdateUser(w) \/ DestroyUser(w)
  PROVE  Core' /\ Grown
  <1>0. job[w] \in Tasks /\ Named(job[w])
    BY DEF Core, TasksFit
  <1>1. CASE SaveLogin(w)
    <2>1. UNCHANGED config /\ UNCHANGED department /\ UNCHANGED policy /\ UNCHANGED grant
      BY <1>1 DEF SaveLogin, access
    <2>2. job[w].codes \in SUBSET Codes
      BY <1>0 DEF Tasks
    <2>3. RolesFit' /\ UsersFit' /\ Grown
      BY <1>1, <2>1, <2>2, FilledFits DEF SaveLogin
    <2> QED
      BY <1>1, <2>1, <2>3, Kept, DoneFits DEF SaveLogin, Core
  <1>2. CASE CreateUser(w)
    <2> DEFINE x == NewUser(job[w].name, StillThere(job[w].roles), job[w].place)
    <2>1. /\ UNCHANGED config /\ UNCHANGED department /\ UNCHANGED policy /\ UNCHANGED grant
          /\ UNCHANGED role /\ user' = Append(user, x)
      BY <1>2 DEF CreateUser, access
    <2>2. x \in UserRows /\ x.roles \subseteq Roles /\ x.place \in {0} \cup Departments
      <3>1. job[w].roles \subseteq Roles /\ job[w].place \in {0} \cup Departments
        BY <1>0, <1>2 DEF CreateUser, Named
      <3>2. StillThere(job[w].roles) \subseteq Roles /\ StillThere(job[w].roles) \subseteq Nat
        BY <3>1, CoreRows DEF StillThere
      <3>3. job[w].name \in Names /\ job[w].place \in Nat
        BY <1>0 DEF Tasks
      <3> QED
        BY <3>1, <3>2, <3>3 DEF NewUser, UserRows
    <2> HIDE DEF x
    <2>3. /\ user' \in Seq(UserRows) /\ Users' = Users \cup {Len(user) + 1}
          /\ \A v \in Users : user'[v] = user[v]
          /\ user'[Len(user) + 1] = x
      BY <2>1, <2>2, RowMade DEF Core, UsersFit, Users
    <2>4. Grown
      BY <2>1, <2>3 DEF Grown, Roles, Departments
    <2>5. UsersFit'
      BY <2>1, <2>2, <2>3 DEF Core, UsersFit, Roles, Departments
    <2> QED
      BY <1>2, <2>1, <2>4, <2>5, Kept, DoneFits DEF CreateUser, Core
  <1>3. CASE UpdateUser(w)
    <2> DEFINE u == job[w].id
               R == StillThere(job[w].roles)
               x == [user[u] EXCEPT !.roles = R]
    <2>1. /\ UNCHANGED config /\ UNCHANGED department /\ UNCHANGED policy /\ UNCHANGED grant
          /\ UNCHANGED role
      BY <1>3 DEF UpdateUser, access
    <2>2. u \in Users /\ job[w].roles \subseteq Roles
      BY <1>0, <1>3 DEF UpdateUser, Named
    <2>3. R \subseteq Roles /\ R \in SUBSET Nat
      BY <2>2, CoreRows DEF StillThere
    <2>4. user[u] \in UserRows /\ user[u].place \in {0} \cup Departments
      BY <2>2, CoreRows DEF Core, UsersFit
    <2>5. user' = [user EXCEPT ![u] = x]
      BY <1>3 DEF UpdateUser
    <2> HIDE DEF u, R
    <2>6. x \in UserRows /\ x.roles \subseteq Roles /\ x.place \in {0} \cup Departments
      BY <2>3, <2>4 DEF UserRows
    <2> HIDE DEF x
    <2>7. UsersFit' /\ Grown
      BY <2>1, <2>2, <2>5, <2>6, UserWritten DEF Roles, Departments
    <2> QED
      BY <1>3, <2>1, <2>7, Kept, DoneFits DEF UpdateUser, Core
  <1>4. CASE DestroyUser(w)
    <2> DEFINE u == job[w].id
    <2>1. UNCHANGED config /\ UNCHANGED department /\ UNCHANGED policy /\ UNCHANGED role
      BY <1>4 DEF DestroyUser
    <2>2. u \in Users
      BY <1>0, <1>4 DEF DestroyUser, Named
    <2>3. user' = [user EXCEPT ![u] = GoneUser]
      BY <1>4 DEF DestroyUser
    <2>4. grant' = Without(<<"user", u>>)
      BY <1>4 DEF DestroyUser
    <2>5. GoneUser \in UserRows /\ GoneUser.roles = {} /\ GoneUser.place = 0
      BY DEF GoneUser, UserRows, Names
    <2> HIDE DEF u
    <2>6. UsersFit' /\ Grown
      BY <2>1, <2>2, <2>3, <2>5, UserWritten DEF Roles, Departments
    <2>7. GrantsFit'
      <3> DEFINE F == [g \in DOMAIN grant |-> grant[g].subject = <<"user", u>>]
      <3>1. grant' = [g \in DOMAIN grant |-> IF F[g] THEN GoneGrant ELSE grant[g]]
        BY <2>4 DEF Without
      <3> HIDE DEF F
      <3> QED
        BY <2>1, <2>6, <3>1, GrantsLeft
    <2> QED
      BY <1>4, <2>1, <2>6, <2>7, Kept, DoneFits DEF DestroyUser, Core
  <1> QED
    BY <1>1, <1>2, <1>3, <1>4

\* Requests about roles go on.
LEMMA ServeRoles ==
  ASSUME Core, NEW w \in Workers, CreateRole(w) \/ UpdateRole(w) \/ DestroyRole(w)
  PROVE  Core' /\ Grown
  <1>0. job[w] \in Tasks /\ Named(job[w]) /\ job[w].codes \in SUBSET Codes
    BY DEF Core, TasksFit, Tasks
  <1>1. CASE CreateRole(w)
    <2> DEFINE x == [NewRole(Expanded(job[w].codes), FALSE) EXCEPT !.on = job[w].on]
    <2>1. /\ UNCHANGED config /\ UNCHANGED department /\ UNCHANGED policy /\ UNCHANGED grant
          /\ UNCHANGED user /\ role' = Append(role, x)
      BY <1>1 DEF CreateRole, access
    <2>2. Expanded(job[w].codes) \in SUBSET Codes /\ job[w].on \in BOOLEAN
      BY <1>0, CodesFit DEF Tasks
    <2>3. x \in RoleRows
      BY <2>2 DEF NewRole, RoleRows
    <2> HIDE DEF x
    <2>4. role' \in Seq(RoleRows) /\ Roles' = Roles \cup {Len(role) + 1}
      BY <2>1, <2>3, RowMade DEF Core, RolesFit, Roles
    <2>5. Grown
      BY <2>1, <2>4 DEF Grown, Users, Departments
    <2> QED
      BY <1>1, <2>1, <2>4, <2>5, Kept, DoneFits DEF CreateRole, Core, RolesFit
  <1>2. CASE UpdateRole(w)
    <2> DEFINE r == job[w].id
               x == [role[r] EXCEPT !.on = job[w].on,
                                    !.codes = Expanded(job[w].codes) \cup References(@)]
    <2>1. /\ UNCHANGED config /\ UNCHANGED department /\ UNCHANGED policy /\ UNCHANGED grant
          /\ UNCHANGED user
      BY <1>2 DEF UpdateRole, access
    <2>2. r \in Roles
      BY <1>0, <1>2 DEF UpdateRole, Named
    <2>3. role[r] \in RoleRows
      BY <2>2, CoreRows
    <2>4. Expanded(job[w].codes) \in SUBSET Codes /\ job[w].on \in BOOLEAN
      BY <1>0, CodesFit DEF Tasks
    <2>5. role' = [role EXCEPT ![r] = x]
      BY <1>2 DEF UpdateRole
    <2> HIDE DEF r
    <2>6. x \in RoleRows
      BY <2>3, <2>4 DEF RoleRows, References
    <2> HIDE DEF x
    <2>7. RolesFit' /\ Roles' = Roles
      BY <2>2, <2>5, <2>6, RoleWritten
    <2>8. Grown
      BY <2>1, <2>7 DEF Grown, Users, Departments
    <2> QED
      BY <1>2, <2>1, <2>7, <2>8, Kept, DoneFits DEF UpdateRole, Core
  <1>3. CASE DestroyRole(w)
    <2> DEFINE r == job[w].id
    <2>1. UNCHANGED config /\ UNCHANGED department /\ UNCHANGED policy
      BY <1>3 DEF DestroyRole
    <2>2. r \in Roles
      BY <1>0, <1>3 DEF DestroyRole, Named
    <2>3. /\ role' = [role EXCEPT ![r] = GoneRole]
          /\ user' = [u \in Users |-> [user[u] EXCEPT !.roles = @ \ {r}]]
          /\ grant' = Without(<<"role", r>>)
      BY <1>3 DEF DestroyRole
    <2> HIDE DEF r
    <2>4. GoneRole \in RoleRows
      BY DEF GoneRole, RoleRows
    <2>5. RolesFit' /\ Roles' = Roles
      BY <2>2, <2>3, <2>4, RoleWritten
    <2>6. \A u \in Users : user[u] \in UserRows
      BY CoreRows
    <2>7. user' \in [Users -> UserRows]
      BY <2>3, <2>6 DEF UserRows
    <2>8. user' \in Seq(UserRows) /\ Users' = Users
      BY <2>7, RowsKept DEF Core, UsersFit, Users
    <2>9. Grown
      BY <2>1, <2>5, <2>8 DEF Grown, Departments
    <2>10. \A u \in Users : user'[u].roles \subseteq user[u].roles /\ user'[u].place = user[u].place
      BY <2>3, <2>6 DEF UserRows
    <2>11. UsersFit'
      BY <2>1, <2>5, <2>8, <2>10 DEF Core, UsersFit, Departments
    <2>12. GrantsFit'
      <3> DEFINE F == [g \in DOMAIN grant |-> grant[g].subject = <<"role", r>>]
      <3>1. grant' = [g \in DOMAIN grant |-> IF F[g] THEN GoneGrant ELSE grant[g]]
        BY <2>3 DEF Without
      <3> HIDE DEF F
      <3> QED
        BY <2>1, <2>9, <3>1, GrantsLeft
    <2> QED
      BY <1>3, <2>1, <2>5, <2>9, <2>11, <2>12, Kept, DoneFits DEF DestroyRole, Core
  <1> QED
    BY <1>1, <1>2, <1>3

\* Requests about departments go on.
LEMMA ServeDepartments ==
  ASSUME Core, NEW w \in Workers,
         CreateDepartment(w) \/ UpdateDepartment(w) \/ DestroyDepartment(w)
  PROVE  Core' /\ Grown
  <1>0. job[w] \in Tasks /\ Named(job[w])
    BY DEF Core, TasksFit
  <1>1. Row(w) \in DepartmentRows
    BY <1>0 DEF Row, DepartmentRows, Tasks
  <1>2. CASE CreateDepartment(w)
    <2>1. /\ UNCHANGED config /\ UNCHANGED user /\ UNCHANGED policy /\ UNCHANGED grant
          /\ UNCHANGED role /\ department' = Append(department, Row(w))
      BY <1>2 DEF CreateDepartment, people
    <2>2. /\ department' \in Seq(DepartmentRows) /\ Departments' = Departments \cup {Len(department) + 1}
          /\ \A d \in Departments : department'[d] = department[d]
          /\ department'[Len(department) + 1] = Row(w)
      BY <1>1, <2>1, RowMade DEF Core, DepartmentsFit, Departments
    <2>3. Grown
      BY <2>1, <2>2 DEF Grown, Users, Roles
    <2>4. job[w].place \in {0} \cup Departments /\ Row(w).parent = job[w].place
      BY <1>0, <1>2 DEF CreateDepartment, Named, Row
    <2>5. DepartmentsFit'
      BY <2>2, <2>4 DEF Core, DepartmentsFit, Parented, Departments
    <2> QED
      BY <1>2, <2>1, <2>3, <2>5, Kept, DoneFits DEF CreateDepartment, Core
  <1>3. CASE UpdateDepartment(w)
    <2>1. /\ UNCHANGED config /\ UNCHANGED user /\ UNCHANGED policy /\ UNCHANGED grant
          /\ UNCHANGED role /\ department' = [department EXCEPT ![job[w].id] = Row(w)]
      BY <1>3 DEF UpdateDepartment, people
    <2>2. /\ job[w].place \in {0} \cup Departments /\ Row(w).parent = job[w].place
          /\ job[w].id \in Departments
      BY <1>0, <1>3 DEF UpdateDepartment, Named, Row
    <2>3. department' \in [Departments -> DepartmentRows]
      BY <1>1, <2>1, CoreRows DEF Departments
    <2>4. department' \in Seq(DepartmentRows) /\ Departments' = Departments
      BY <2>3, RowsKept DEF Core, DepartmentsFit, Departments
    <2>5. Grown
      BY <2>1, <2>4 DEF Grown, Users, Roles
    <2>6. \A d \in Departments : department'[d] = IF d = job[w].id THEN Row(w) ELSE department[d]
      BY <2>1 DEF Departments
    <2>7. DepartmentsFit'
      BY <2>2, <2>4, <2>6 DEF Core, DepartmentsFit, Parented, Departments
    <2> QED
      BY <1>3, <2>1, <2>5, <2>7, Kept, DoneFits DEF UpdateDepartment, Core
  <1>4. CASE DestroyDepartment(w)
    <2> DEFINE F == Fallen(job[w].id)
    <2>1. /\ UNCHANGED config /\ UNCHANGED role /\ UNCHANGED policy
          /\ department' = [d \in Departments |-> IF d \in F THEN GoneDepartment ELSE department[d]]
          /\ user' = [u \in Users |-> IF user[u].place \in F THEN [user[u] EXCEPT !.place = 0]
                                                           ELSE user[u]]
          /\ grant' = [g \in DOMAIN grant |->
                         IF grant[g].subject \in {<<"department", d>> : d \in F} THEN GoneGrant
                                                                           ELSE grant[g]]
      BY <1>4 DEF DestroyDepartment
    <2> HIDE DEF F
    <2>2. GoneDepartment \in DepartmentRows /\ GoneDepartment.parent = 0
      BY DEF GoneDepartment, DepartmentRows
    <2>3. department' \in [Departments -> DepartmentRows]
      BY <2>1, <2>2, CoreRows
    <2>4. department' \in Seq(DepartmentRows) /\ Departments' = Departments
      BY <2>3, RowsKept DEF Core, DepartmentsFit, Departments
    <2>5. DepartmentsFit'
      BY <2>1, <2>2, <2>4 DEF Core, DepartmentsFit, Parented, Departments
    <2>6. \A u \in Users : user[u] \in UserRows
      BY CoreRows
    <2>7. user' \in [Users -> UserRows]
      BY <2>1, <2>6 DEF UserRows
    <2>8. user' \in Seq(UserRows) /\ Users' = Users
      BY <2>7, RowsKept DEF Core, UsersFit, Users
    <2>9. \A u \in Users : user'[u].roles = user[u].roles /\ user'[u].place \in {0, user[u].place}
      BY <2>1, <2>6 DEF UserRows
    <2>10. Grown
      BY <2>1, <2>4, <2>8 DEF Grown, Roles
    <2>11. UsersFit'
      BY <2>1, <2>4, <2>8, <2>9 DEF Core, UsersFit, Roles
    <2>12. GrantsFit'
      <3> DEFINE G == [g \in DOMAIN grant |-> grant[g].subject \in {<<"department", d>> : d \in F}]
      <3>1. grant' = [g \in DOMAIN grant |-> IF G[g] THEN GoneGrant ELSE grant[g]]
        BY <2>1
      <3> HIDE DEF G
      <3> QED
        BY <2>1, <2>10, <3>1, GrantsLeft
    <2> QED
      BY <1>4, <2>1, <2>5, <2>10, <2>11, <2>12, Kept, DoneFits DEF DestroyDepartment, Core, RolesFit
  <1> QED
    BY <1>2, <1>3, <1>4

\* A grant is made, or a request fails.
LEMMA ServeRest ==
  ASSUME Core, NEW w \in Workers, CreateGrant(w) \/ Abort(w)
  PROVE  Core' /\ Grown
  <1>0. job[w] \in Tasks /\ Named(job[w])
    BY DEF Core, TasksFit
  <1>1. CASE CreateGrant(w)
    <2> DEFINE s == <<job[w].name, job[w].id>>
               x == [live |-> TRUE, resource |-> job[w].place, subject |-> s]
    <2>1. /\ UNCHANGED config /\ UNCHANGED role /\ UNCHANGED user /\ UNCHANGED department
          /\ UNCHANGED policy /\ grant' = Append(grant, x)
      BY <1>1 DEF CreateGrant, people
    <2>2. job[w].place \in Resources /\ s \in Subjects
      BY <1>0, <1>1 DEF CreateGrant, Named
    <2>3. s \in {"user", "role", "department", "none"} \X Nat
      BY <2>2, CoreRows DEF Subjects
    <2>4. x \in GrantRows
      BY <2>2, <2>3, TenancyAssumption DEF GrantRows
    <2>5. x.resource \in Resources /\ x.subject \in Subjects
      BY <2>2
    <2> HIDE DEF x
    <2>6. /\ grant' \in Seq(GrantRows) /\ DOMAIN grant' = DOMAIN grant \cup {Len(grant) + 1}
          /\ \A g \in DOMAIN grant : grant'[g] = grant[g]
          /\ grant'[Len(grant) + 1] = x
      BY <2>1, <2>4, RowMade DEF Core, GrantsFit
    <2>7. Grown
      BY <2>1 DEF Grown, Users, Roles, Departments
    <2>8. Subjects' = Subjects
      BY <2>1 DEF Subjects, Users, Roles, Departments
    <2>9. GrantsFit'
      BY <2>1, <2>5, <2>6, <2>8 DEF Core, GrantsFit
    <2> QED
      BY <1>1, <2>1, <2>7, <2>9, Kept, DoneFits DEF CreateGrant, Core
  <1>2. CASE Abort(w)
    <2>1. /\ UNCHANGED config /\ UNCHANGED role /\ UNCHANGED user /\ UNCHANGED department
          /\ UNCHANGED policy /\ UNCHANGED grant
      BY <1>2 DEF Abort, people, access
    <2>2. Grown
      BY <2>1 DEF Grown, Users, Roles, Departments
    <2> QED
      BY <1>2, <2>1, <2>2, Kept, DoneFits DEF Abort, Core
  <1> QED
    BY <1>1, <1>2

\* Init gives every variable a value that fits.
LEMMA InitCore == Init => Core
  <1> SUFFICES ASSUME Init PROVE Core
    OBVIOUS
  <1>1. DepartmentsFit /\ GrantsFit
    BY DEF Init, DepartmentsFit, GrantsFit, Parented
  <1>2. TasksFit
    BY IdleNamesNothing DEF Init, TasksFit
  <1>3. CASE snapshot = {"none"} /\ switch = [m \in Modules |-> "none"] /\ role = << >> /\ user = << >>
    BY <1>1, <1>2, <1>3 DEF Core, ConfigFits, RolesFit, UsersFit, Users
  <1>4. CASE /\ snapshot \in SUBSET Modules /\ switch = Switched(snapshot)
             /\ role = <<NewRole(CodesOf(snapshot), TRUE)>> /\ user = <<NewUser("admin", {1}, 0)>>
    <2> DEFINE e == NewRole(CodesOf(snapshot), TRUE)
               x == NewUser("admin", {1}, 0)
    <2>1. ConfigFits
      BY <1>4 DEF ConfigFits, Switched
    <2>2. e \in RoleRows
      BY <1>4, CodesFit DEF NewRole, RoleRows
    <2>3. x \in UserRows /\ x.roles = {1} /\ x.place = 0
      BY DEF NewUser, UserRows, Names
    <2> HIDE DEF e, x
    <2>4. role = <<e>> /\ user = <<x>>
      BY <1>4 DEF e, x
    <2>5. role \in Seq(RoleRows) /\ Roles = {1}
      BY <2>2, <2>4 DEF Roles
    <2>6. user \in Seq(UserRows) /\ Users = {1} /\ user[1] = x
      BY <2>3, <2>4 DEF Users
    <2> QED
      BY <1>1, <1>2, <2>1, <2>3, <2>5, <2>6 DEF Core, RolesFit, UsersFit
  <1> QED
    BY <1>3, <1>4 DEF Init

\* Every step keeps it, and no row is lost.
LEMMA NextCore == Core /\ [Next]_vars => Core' /\ Grown
  <1> SUFFICES ASSUME Core, [Next]_vars PROVE Core' /\ Grown
    OBVIOUS
  <1>1. CASE UNCHANGED vars
    <2>1. /\ UNCHANGED config /\ UNCHANGED role /\ UNCHANGED user /\ UNCHANGED department
          /\ UNCHANGED policy /\ UNCHANGED grant /\ UNCHANGED job
      BY <1>1 DEF vars, people, access
    <2>2. Grown
      BY <2>1 DEF Grown, Users, Roles, Departments
    <2> QED
      BY <2>1, <2>2, Kept DEF Core
  <1>2. ASSUME NEW w \in Workers, PlatformStep(w) \/ PeopleStep(w) \/ AccessStep(w) \/ Serve(w)
        PROVE  Core' /\ Grown
    BY <1>2, PlatformCore, PeopleCore, AccessCore, ServeUsers, ServeRoles, ServeDepartments,
       ServeRest DEF Serve
  <1> QED
    BY <1>1, <1>2 DEF Next

-----------------------------------------------------------------------------
(* Which requests write what. *)

\* Departments are written by these.
DepartmentWritten ==
  \E w \in Workers :
    ClearData(w) \/ CreateDepartment(w) \/ UpdateDepartment(w) \/ DestroyDepartment(w)

\* Users and roles are written by these; of grants and policies those that follow.
PeopleWritten ==
  \E w \in Workers :
    \/ \E S \in SUBSET Modules : Apply(w, S) \/ Bind(w, S)
    \/ RefreshAdmin(w) \/ SyncRoles(w) \/ ClearData(w)
    \/ \E u \in Users, d \in Departments \cup {0}, on \in BOOLEAN : MoveUser(w, u, d, on)
    \/ SaveLogin(w) \/ CreateUser(w) \/ UpdateUser(w) \/ DestroyUser(w)
    \/ CreateRole(w) \/ UpdateRole(w) \/ DestroyRole(w) \/ DestroyDepartment(w)

GrantsWritten ==
  \E w \in Workers :
    \/ ClearData(w) \/ DestroyUser(w) \/ DestroyRole(w) \/ DestroyDepartment(w)
    \/ \E r \in Resources, type \in {"BASIC", "SPECIAL"} : PutPolicy(w, r, type)
    \/ CreateGrant(w)
    \/ \E g \in DOMAIN grant : DestroyGrant(w, g)

ConfigWritten ==
  \E w \in Workers :
    \/ \E S \in SUBSET Modules : Apply(w, S) \/ Bind(w, S)
    \/ \E m \in Modules : Toggle(w, m)

\* A request is taken up where its kind may overlap with those under way.
TakenUp(w, t) == MayStart(w, t.kind) /\ job' = [job EXCEPT ![w] = t]

\* Nobody else writes them.
LEMMA Writers ==
  ASSUME [Next]_vars
  PROVE  /\ UNCHANGED department \/ DepartmentWritten
         /\ UNCHANGED people \/ PeopleWritten
         /\ UNCHANGED <<policy, grant>> \/ GrantsWritten
         /\ UNCHANGED config \/ ConfigWritten
         /\ UNCHANGED requests
  <1> USE DEF people, access
  <1> DEFINE Claim == /\ UNCHANGED department \/ DepartmentWritten
                      /\ UNCHANGED people \/ PeopleWritten
                      /\ UNCHANGED <<policy, grant>> \/ GrantsWritten
                      /\ UNCHANGED config \/ ConfigWritten
                      /\ UNCHANGED requests
  <1>1. CASE UNCHANGED vars
    BY <1>1 DEF vars
  <1>2. ASSUME NEW w \in Workers, PlatformStep(w) PROVE Claim
    <2>1. ASSUME NEW S \in SUBSET Modules, Apply(w, S) PROVE Claim
      <3>1. PeopleWritten /\ ConfigWritten
        BY <2>1 DEF PeopleWritten, ConfigWritten
      <3> QED
        BY <2>1, <3>1 DEF Apply
    <2>2. ASSUME NEW S \in SUBSET Modules, Bind(w, S) PROVE Claim
      <3>1. PeopleWritten /\ ConfigWritten
        BY <2>2 DEF PeopleWritten, ConfigWritten
      <3> QED
        BY <2>2, <3>1 DEF Bind
    <2>3. CASE RefreshAdmin(w)
      <3>1. PeopleWritten
        BY <2>3 DEF PeopleWritten
      <3> QED
        BY <2>3, <3>1 DEF RefreshAdmin
    <2>4. CASE SyncRoles(w)
      <3>1. PeopleWritten
        BY <2>4 DEF PeopleWritten
      <3> QED
        BY <2>4, <3>1 DEF SyncRoles
    <2>5. CASE ClearData(w)
      <3>1. PeopleWritten /\ GrantsWritten /\ DepartmentWritten
        BY <2>5 DEF PeopleWritten, GrantsWritten, DepartmentWritten
      <3> QED
        BY <2>5, <3>1 DEF ClearData
    <2>6. ASSUME NEW m \in Modules, Toggle(w, m) PROVE Claim
      <3>1. ConfigWritten
        BY <2>6 DEF ConfigWritten
      <3> QED
        BY <2>6, <3>1 DEF Toggle
    <2> QED
      BY <1>2, <2>1, <2>2, <2>3, <2>4, <2>5, <2>6 DEF PlatformStep
  <1>3. ASSUME NEW w \in Workers, PeopleStep(w) PROVE Claim
    <2>1. ASSUME NEW u \in Users, NEW d \in Departments \cup {0}, NEW on \in BOOLEAN,
                 MoveUser(w, u, d, on)
          PROVE  Claim
      <3>1. PeopleWritten
        BY <2>1 DEF PeopleWritten
      <3> QED
        BY <2>1, <3>1 DEF MoveUser
    <2>2. ASSUME NEW u, LoadLogin(w, u) \/ LoadRemoval(w, u) PROVE Claim
      BY <2>2 DEF LoadLogin, LoadRemoval
    <2>3. ASSUME NEW u, NEW name, NEW R, NEW d, LoadUser(w, u, name, R, d) PROVE Claim
      BY <2>3 DEF LoadUser
    <2>4. ASSUME NEW r, NEW codes, NEW on, LoadRole(w, r, codes, on) PROVE Claim
      BY <2>4 DEF LoadRole
    <2>5. ASSUME NEW r, LoadRoleRemoval(w, r) PROVE Claim
      BY <2>5 DEF LoadRoleRemoval
    <2> HIDE DEF Claim
    <2> QED
      BY <1>3, <2>1, <2>2, <2>3, <2>4, <2>5 DEF PeopleStep
  <1>4. ASSUME NEW w \in Workers, AccessStep(w) PROVE Claim
    <2>1. ASSUME NEW d, NEW p, NEW on, LoadDepartment(w, d, p, on) PROVE Claim
      BY <2>1 DEF LoadDepartment
    <2>2. ASSUME NEW d, LoadDissolution(w, d) PROVE Claim
      BY <2>2 DEF LoadDissolution
    <2>3. ASSUME NEW r \in Resources, NEW type \in {"BASIC", "SPECIAL"}, PutPolicy(w, r, type)
          PROVE  Claim
      <3>1. GrantsWritten
        BY <2>3 DEF GrantsWritten
      <3> QED
        BY <2>3, <3>1 DEF PutPolicy
    <2>4. ASSUME NEW r, NEW s, LoadGrant(w, r, s) PROVE Claim
      BY <2>4 DEF LoadGrant
    <2>5. ASSUME NEW g \in DOMAIN grant, DestroyGrant(w, g) PROVE Claim
      <3>1. GrantsWritten
        BY <2>5 DEF GrantsWritten
      <3> QED
        BY <2>5, <3>1 DEF DestroyGrant
    <2> HIDE DEF Claim
    <2> QED
      BY <1>4, <2>1, <2>2, <2>3, <2>4, <2>5 DEF AccessStep
  <1>5. ASSUME NEW w \in Workers, Serve(w) PROVE Claim
    <2>1. CASE SaveLogin(w) \/ CreateUser(w) \/ UpdateUser(w)
      <3>1. PeopleWritten
        BY <2>1 DEF PeopleWritten
      <3> QED
        BY <2>1, <3>1 DEF SaveLogin, CreateUser, UpdateUser
    <2>2. CASE CreateRole(w) \/ UpdateRole(w)
      <3>1. PeopleWritten
        BY <2>2 DEF PeopleWritten
      <3> QED
        BY <2>2, <3>1 DEF CreateRole, UpdateRole
    <2>3. CASE DestroyUser(w) \/ DestroyRole(w)
      <3>1. PeopleWritten /\ GrantsWritten
        BY <2>3 DEF PeopleWritten, GrantsWritten
      <3> QED
        BY <2>3, <3>1 DEF DestroyUser, DestroyRole
    <2>4. CASE DestroyDepartment(w)
      <3>1. PeopleWritten /\ GrantsWritten /\ DepartmentWritten
        BY <2>4 DEF PeopleWritten, GrantsWritten, DepartmentWritten
      <3> QED
        BY <2>4, <3>1 DEF DestroyDepartment
    <2>5. CASE CreateDepartment(w) \/ UpdateDepartment(w)
      <3>1. DepartmentWritten
        BY <2>5 DEF DepartmentWritten
      <3> QED
        BY <2>5, <3>1 DEF CreateDepartment, UpdateDepartment
    <2>6. CASE CreateGrant(w)
      <3>1. GrantsWritten
        BY <2>6 DEF GrantsWritten
      <3> QED
        BY <2>6, <3>1 DEF CreateGrant
    <2>7. CASE Abort(w)
      BY <2>7 DEF Abort
    <2> HIDE DEF Claim
    <2> QED
      BY <1>5, <2>1, <2>2, <2>3, <2>4, <2>5, <2>6, <2>7 DEF Serve
  <1> HIDE DEF Claim
  <1>6. CASE Next
    <2>1. PICK w \in Workers : PlatformStep(w) \/ PeopleStep(w) \/ AccessStep(w) \/ Serve(w)
      BY <1>6 DEF Next
    <2>2. Claim
      BY <2>1, <1>2, <1>3, <1>4, <1>5
    <2> QED
      BY <2>2 DEF Claim
  <1> QED
    BY <1>1, <1>6

\* The requests that are taken up, by kind; nothing else is written with them.
LoadSteps(w, t) ==
  \/ \E u \in Users : LoadLogin(w, u) /\ t.kind = "login" /\ t.id = u /\ t.codes = EnabledCodes
  \/ \E u \in Users : LoadRemoval(w, u) /\ t.kind = "destroy_user" /\ t.id = u
  \/ t.kind = "create_user"
  \/ t.kind = "edit_user"
  \/ t.kind = "create_role"
  \/ \E r \in Roles : ~ role[r].system /\ t.kind = "edit_role" /\ t.id = r
  \/ \E r \in Roles : LoadRoleRemoval(w, r) /\ t.kind = "destroy_role" /\ t.id = r
  \/ t.kind = "create_department"
  \/ \E d \in Departments, p \in Departments \cup {0}, on \in BOOLEAN :
       d # 0 /\ LoadDepartment(w, d, p, on) /\ t.kind = "edit_department" /\ t.id = d /\ t.place = p
  \/ t.kind = "destroy_department"
  \/ \E r \in Resources, s \in Subjects :
       LoadGrant(w, r, s) /\ t.kind = "create_grant" /\ t.place = r /\ <<t.name, t.id>> = s

\* A step takes up a request, or is done with one, or leaves all as they are.
LEMMA Takings ==
  ASSUME Core, [Next]_vars
  PROVE  \/ UNCHANGED job
         \/ \E w \in Workers : Done(w)
         \/ \E w \in Workers, t \in Tasks :
              TakenUp(w, t) /\ LoadSteps(w, t) /\ UNCHANGED <<config, people, access>>
  <1> DEFINE Claim == \/ UNCHANGED job
                      \/ \E w \in Workers : Done(w)
                      \/ \E w \in Workers, t \in Tasks :
                           TakenUp(w, t) /\ LoadSteps(w, t) /\ UNCHANGED <<config, people, access>>
  <1>0. ASSUME NEW w \in Workers, NEW t, TakenUp(w, t), LoadSteps(w, t),
               UNCHANGED <<config, people, access>>
        PROVE  Claim
    <2>1. job' = [job EXCEPT ![w] = t]
      BY <1>0 DEF TakenUp
    <2>2. t = job'[w]
      BY <2>1 DEF Core, TasksFit
    <2>3. t \in Tasks
      BY <2>2, NextCore DEF Core, TasksFit
    <2> QED
      BY <1>0, <2>3
  <1> HIDE DEF Claim
  <1>0a. /\ Users \subseteq Nat /\ Roles \subseteq Nat /\ Departments \subseteq Nat
         /\ 0 \notin Departments /\ 0 \notin Roles
    BY CoreRows
  <1>1. CASE UNCHANGED vars
    BY <1>1 DEF vars, Claim
  <1>2. ASSUME NEW w \in Workers, PlatformStep(w) PROVE Claim
    <2>1. UNCHANGED job
      BY <1>2 DEF PlatformStep, Apply, Bind, RefreshAdmin, SyncRoles, ClearData, Toggle
    <2> QED
      BY <2>1 DEF Claim
  <1>3. ASSUME NEW w \in Workers, PeopleStep(w) PROVE Claim
    <2>1. ASSUME NEW u \in Users, LoadLogin(w, u) PROVE Claim
      <3>1. PICK t : t = [Idle EXCEPT !.kind = "login", !.id = u, !.codes = EnabledCodes]
        OBVIOUS
      <3>2. t.kind = "login" /\ t.id = u /\ t.codes = EnabledCodes
        BY <3>1 DEF Idle
      <3>3. TakenUp(w, t) /\ UNCHANGED <<config, people, access>>
        BY <2>1, <3>1, <3>2 DEF LoadLogin, TakenUp
      <3>4. LoadSteps(w, t)
        BY <2>1, <3>2 DEF LoadSteps
      <3> QED
        BY <1>0, <3>3, <3>4
    <2>2. ASSUME NEW u \in Users, LoadRemoval(w, u) PROVE Claim
      <3>1. PICK t : t = [Idle EXCEPT !.kind = "destroy_user", !.id = u]
        OBVIOUS
      <3>2. t.kind = "destroy_user" /\ t.id = u
        BY <3>1 DEF Idle
      <3>3. TakenUp(w, t) /\ UNCHANGED <<config, people, access>>
        BY <2>2, <3>1, <3>2 DEF LoadRemoval, TakenUp
      <3>4. LoadSteps(w, t)
        BY <2>2, <3>2 DEF LoadSteps
      <3> QED
        BY <1>0, <3>3, <3>4
    <2>3. ASSUME NEW u \in Users \cup {0}, NEW name \in {"admin", "clerk"}, NEW R \in SUBSET Roles,
                 NEW d \in Departments \cup {0}, LoadUser(w, u, name, R, d)
          PROVE  Claim
      <3>1. PICK t : t = [Idle EXCEPT !.kind = IF u = 0 THEN "create_user" ELSE "edit_user",
                                      !.id = u, !.name = name, !.roles = R, !.place = d]
        OBVIOUS
      <3>2. t.kind = IF u = 0 THEN "create_user" ELSE "edit_user"
        BY <3>1 DEF Idle
      <3>3. TakenUp(w, t) /\ UNCHANGED <<config, people, access>>
        BY <2>3, <3>1, <3>2 DEF LoadUser, TakenUp
      <3>4. LoadSteps(w, t)
        BY <3>2 DEF LoadSteps
      <3> QED
        BY <1>0, <3>3, <3>4
    <2>4. ASSUME NEW u \in Users, NEW d \in Departments \cup {0}, NEW on \in BOOLEAN,
                 MoveUser(w, u, d, on)
          PROVE  Claim
      BY <2>4 DEF MoveUser, Claim
    <2>5. ASSUME NEW r \in Roles \cup {0}, NEW codes, NEW on \in BOOLEAN, LoadRole(w, r, codes, on)
          PROVE  Claim
      <3>1. PICK t : t = [Idle EXCEPT !.kind = IF r = 0 THEN "create_role" ELSE "edit_role",
                                      !.id = r, !.codes = codes, !.on = on]
        OBVIOUS
      <3>2. (t.kind = IF r = 0 THEN "create_role" ELSE "edit_role") /\ t.id = r
        BY <3>1 DEF Idle
      <3>3. TakenUp(w, t) /\ UNCHANGED <<config, people, access>>
        BY <2>5, <3>1, <3>2 DEF LoadRole, TakenUp
      <3>4. LoadSteps(w, t)
        BY <2>5, <3>2 DEF LoadSteps, LoadRole
      <3> QED
        BY <1>0, <3>3, <3>4
    <2>6. ASSUME NEW r \in Roles, LoadRoleRemoval(w, r) PROVE Claim
      <3>1. PICK t : t = [Idle EXCEPT !.kind = "destroy_role", !.id = r]
        OBVIOUS
      <3>2. t.kind = "destroy_role" /\ t.id = r
        BY <3>1 DEF Idle
      <3>3. TakenUp(w, t) /\ UNCHANGED <<config, people, access>>
        BY <2>6, <3>1, <3>2 DEF LoadRoleRemoval, TakenUp
      <3>4. LoadSteps(w, t)
        BY <2>6, <3>2 DEF LoadSteps
      <3> QED
        BY <1>0, <3>3, <3>4
    <2> QED
      BY <1>3, <2>1, <2>2, <2>3, <2>4, <2>5, <2>6 DEF PeopleStep
  <1>4. ASSUME NEW w \in Workers, AccessStep(w) PROVE Claim
    <2>1. ASSUME NEW d \in Departments \cup {0}, NEW p \in Departments \cup {0}, NEW on \in BOOLEAN,
                 LoadDepartment(w, d, p, on)
          PROVE  Claim
      <3>1. PICK t : t = [Idle EXCEPT !.kind = IF d = 0 THEN "create_department"
                                                       ELSE "edit_department",
                                      !.id = d, !.place = p, !.on = on]
        OBVIOUS
      <3>2. /\ t.kind = IF d = 0 THEN "create_department" ELSE "edit_department"
            /\ t.id = d /\ t.place = p
        BY <3>1 DEF Idle
      <3>3. TakenUp(w, t) /\ UNCHANGED <<config, people, access>>
        BY <2>1, <3>1, <3>2 DEF LoadDepartment, TakenUp
      <3>4. LoadSteps(w, t)
        BY <2>1, <3>2 DEF LoadSteps
      <3> QED
        BY <1>0, <3>3, <3>4
    <2>2. ASSUME NEW d \in Departments, LoadDissolution(w, d) PROVE Claim
      <3>1. PICK t : t = [Idle EXCEPT !.kind = "destroy_department", !.id = d]
        OBVIOUS
      <3>2. t.kind = "destroy_department"
        BY <3>1 DEF Idle
      <3>3. TakenUp(w, t) /\ UNCHANGED <<config, people, access>>
        BY <2>2, <3>1, <3>2 DEF LoadDissolution, TakenUp
      <3>4. LoadSteps(w, t)
        BY <3>2 DEF LoadSteps
      <3> QED
        BY <1>0, <3>3, <3>4
    <2>3. ASSUME NEW r \in Resources, NEW type \in {"BASIC", "SPECIAL"}, PutPolicy(w, r, type)
          PROVE  Claim
      BY <2>3 DEF PutPolicy, Claim
    <2>4. ASSUME NEW r \in Resources, NEW s \in Subjects, LoadGrant(w, r, s) PROVE Claim
      <3>1. PICK t : t = [Idle EXCEPT !.kind = "create_grant", !.id = s[2], !.name = s[1],
                                      !.place = r]
        OBVIOUS
      <3>2. t.kind = "create_grant" /\ t.place = r /\ <<t.name, t.id>> = s
        <4>1. s = <<s[1], s[2]>>
          BY DEF Subjects
        <4> QED
          BY <3>1, <4>1 DEF Idle
      <3>3. TakenUp(w, t) /\ UNCHANGED <<config, people, access>>
        BY <2>4, <3>1, <3>2 DEF LoadGrant, TakenUp
      <3>4. LoadSteps(w, t)
        BY <2>4, <3>2 DEF LoadSteps
      <3> QED
        BY <1>0, <3>3, <3>4
    <2>5. ASSUME NEW g \in DOMAIN grant, DestroyGrant(w, g) PROVE Claim
      BY <2>5 DEF DestroyGrant, Claim
    <2> QED
      BY <1>4, <2>1, <2>2, <2>3, <2>4, <2>5 DEF AccessStep
  <1>5. ASSUME NEW w \in Workers, Serve(w) PROVE Claim
    <2>1. Done(w)
      BY <1>5 DEF Serve, SaveLogin, CreateUser, UpdateUser, DestroyUser, CreateRole, UpdateRole,
                  DestroyRole, CreateDepartment, UpdateDepartment, DestroyDepartment,
                  CreateGrant, Abort
    <2> QED
      BY <2>1 DEF Claim
  <1>6. CASE Next
    <2>1. PICK w \in Workers : PlatformStep(w) \/ PeopleStep(w) \/ AccessStep(w) \/ Serve(w)
      BY <1>6 DEF Next
    <2>2. Claim
      BY <2>1, <1>2, <1>3, <1>4, <1>5
    <2> QED
      BY <2>2 DEF Claim
  <1> QED
    BY <1>1, <1>6

\* No two workers serve requests of these kinds.
Apart(k, l) == \A v, w \in Workers : v # w => ~ (job[v].kind = k /\ job[w].kind = l)

\* Requests of kinds that may not overlap do not.
LEMMA StaysApart ==
  ASSUME Core, [Next]_vars, NEW k, NEW l, k # "idle", l # "idle", {k, l} \notin Racing,
         Apart(k, l)
  PROVE  Apart(k, l)'
  <1>0. job \in [Workers -> Tasks] /\ Idle.kind = "idle"
    BY DEF Core, TasksFit, Idle
  <1>1. CASE UNCHANGED job
    BY <1>1 DEF Apart
  <1>2. CASE \E w \in Workers : Done(w)
    BY <1>0, <1>2 DEF Apart, Done
  <1>3. ASSUME NEW w \in Workers, NEW t \in Tasks, TakenUp(w, t) PROVE Apart(k, l)'
    <2>1. \A v \in Workers \ {w} : job[v].kind = "idle" \/ {t.kind, job[v].kind} \in Racing
      BY <1>0, <1>3 DEF TakenUp, MayStart
    <2>2. \A v \in Workers : job'[v] = IF v = w THEN t ELSE job[v]
      BY <1>0, <1>3 DEF TakenUp
    <2>3. \A v \in Workers \ {w} : /\ ~ (t.kind = k /\ job[v].kind = l)
                                   /\ ~ (job[v].kind = k /\ t.kind = l)
      <3>1. {l, k} = {k, l}
        OBVIOUS
      <3> QED
        BY <2>1, <3>1
    <2> QED
      BY <2>2, <2>3 DEF Apart
  <1> QED
    BY <1>1, <1>2, <1>3, Takings


-----------------------------------------------------------------------------
(* Departments form trees. *)

\* Departments in a table, under one another.
Chart(f) == Len(f) \in Nat /\ DOMAIN f = 1 .. Len(f) /\ Parented(f)

\* No department is above its parent.
Acyclic(f) == \A d \in DOMAIN f : f[d].live => d \notin Up(f, f[d].parent)

\* What is above a department that is above q is above q.
LEMMA UpWithin ==
  ASSUME NEW f, Chart(f), NEW q \in {0} \cup DOMAIN f, NEW e \in Up(f, q)
  PROVE  /\ e \in DOMAIN f
         /\ Up(f, e) \subseteq Up(f, q)
         /\ Up(f, f[e].parent) \subseteq Up(f, q)
         /\ f[e].parent \in {0} \cup Up(f, q)
  <1>1. Up(f, q) \subseteq DOMAIN f /\ Rooted(f, Up(f, q))
    BY UpIsRooted DEF Chart
  <1>2. f[e].parent \in Up(f, q) \cup {0}
    BY <1>1 DEF Rooted
  <1>3. Up(f, e) \subseteq Up(f, q) /\ Up(f, f[e].parent) \subseteq Up(f, q)
    BY <1>1, <1>2, UpLeast DEF Chart
  <1> QED
    BY <1>1, <1>2, <1>3

\* What is above the parent of a department is above it.
LEMMA UpAtParent ==
  ASSUME NEW f, Chart(f), NEW e \in DOMAIN f
  PROVE  /\ e \in Up(f, e)
         /\ f[e].parent \in {0} \cup Up(f, e)
         /\ Up(f, f[e].parent) \subseteq Up(f, e)
  <1>1. e # 0
    BY DEF Chart
  <1>2. e \in Up(f, e)
    BY <1>1, UpIsRooted DEF Chart
  <1> QED
    BY <1>2, UpWithin

\* Where parents stay, or are taken away, no department gets above q.
LEMMA UpShrinks ==
  ASSUME NEW f, NEW g, Chart(f), Chart(g), NEW q \in {0} \cup DOMAIN f,
         \A e \in Up(f, q) : g[e].parent \in {0, f[e].parent}
  PROVE  Up(g, q) \subseteq Up(f, q)
  <1>1. Rooted(f, Up(f, q)) /\ q \in Up(f, q) \cup {0}
    BY UpIsRooted DEF Chart
  <1>2. Rooted(g, Up(f, q))
    BY <1>1 DEF Rooted
  <1> QED
    BY <1>1, <1>2, UpLeast DEF Chart

\* A department moves under p, that it is not above.
LEMMA AcyclicMoved ==
  ASSUME NEW f, NEW g, Chart(f), Chart(g), Acyclic(f), DOMAIN g = DOMAIN f,
         NEW d \in DOMAIN f, NEW p \in {0} \cup DOMAIN f, d \notin Up(f, p),
         g[d].parent = p, \A e \in DOMAIN f \ {d} : g[e] = f[e]
  PROVE  Acyclic(g)
  <1>1. ASSUME NEW q \in {0} \cup DOMAIN f, d \notin Up(f, q)
        PROVE  Up(g, q) \subseteq Up(f, q)
    <2>1. Up(f, q) \subseteq DOMAIN f
      BY UpIsRooted DEF Chart
    <2> QED
      BY <1>1, <2>1, UpShrinks
  <1>2. ASSUME NEW q \in {0} \cup DOMAIN f
        PROVE  Up(g, q) \subseteq Up(f, q) \cup Up(f, p)
    <2>1. Rooted(f, Up(f, q)) /\ q \in Up(f, q) \cup {0} /\ Up(f, q) \subseteq DOMAIN f
      BY UpIsRooted DEF Chart
    <2>2. Rooted(f, Up(f, p)) /\ p \in Up(f, p) \cup {0} /\ Up(f, p) \subseteq DOMAIN f
      BY UpIsRooted DEF Chart
    <2>3. Rooted(g, Up(f, q) \cup Up(f, p))
      BY <2>1, <2>2 DEF Rooted
    <2> QED
      BY <2>1, <2>3, UpLeast DEF Chart
  <1>3. d \notin Up(g, p)
    BY <1>1
  <1>4. ASSUME NEW e \in DOMAIN f \ {d}, f[e].live PROVE e \notin Up(f, f[e].parent)
    BY <1>4 DEF Acyclic
  <1>5. ASSUME NEW e \in DOMAIN f \ {d}, f[e].live PROVE e \notin Up(g, f[e].parent)
    <2>1. f[e].parent \in {0} \cup DOMAIN f
      BY DEF Chart, Parented
    <2>2. CASE d \notin Up(f, f[e].parent)
      BY <1>1, <1>4, <1>5, <2>1, <2>2
    <2>3. CASE d \in Up(f, f[e].parent)
      <3>1. e \notin Up(f, p)
        <4>1. SUFFICES ASSUME e \in Up(f, p) PROVE FALSE
          OBVIOUS
        <4>2. Up(f, f[e].parent) \subseteq Up(f, p)
          BY <4>1, UpWithin
        <4> QED
          BY <2>3, <4>2
      <3> QED
        BY <1>2, <1>4, <1>5, <2>1, <3>1
    <2> QED
      BY <2>2, <2>3
  <1> QED
    BY <1>3, <1>5 DEF Acyclic

\* Departments are created at the bottom.
LEMMA AcyclicMade ==
  ASSUME NEW f, NEW g, Chart(f), Chart(g), Acyclic(f), NEW x, x \notin DOMAIN f,
         DOMAIN g = DOMAIN f \cup {x}, g[x].parent \in {0} \cup DOMAIN f,
         \A e \in DOMAIN f : g[e] = f[e]
  PROVE  /\ Acyclic(g)
         /\ \A q \in {0} \cup DOMAIN f : Up(g, q) \subseteq Up(f, q)
  <1>1. ASSUME NEW q \in {0} \cup DOMAIN f PROVE Up(g, q) \subseteq Up(f, q) /\ x \notin Up(f, q)
    <2>1. Up(f, q) \subseteq DOMAIN f
      BY UpIsRooted DEF Chart
    <2> QED
      BY <2>1, UpShrinks
  <1>2. ASSUME NEW e \in DOMAIN f, f[e].live PROVE e \notin Up(g, f[e].parent)
    <2>1. f[e].parent \in {0} \cup DOMAIN f
      BY DEF Chart, Parented
    <2> QED
      BY <1>1, <1>2, <2>1 DEF Acyclic
  <1> QED
    BY <1>1, <1>2 DEF Acyclic

\* Departments are deleted, or stay.
LEMMA AcyclicLeft ==
  ASSUME NEW f, NEW g, Chart(f), Chart(g), Acyclic(f), DOMAIN g = DOMAIN f,
         \A e \in DOMAIN f : g[e] \in {f[e], GoneDepartment}
  PROVE  /\ Acyclic(g)
         /\ \A q \in {0} \cup DOMAIN f : Up(g, q) \subseteq Up(f, q)
  <1>1. \A e \in DOMAIN f : g[e].parent \in {0, f[e].parent}
    BY DEF GoneDepartment
  <1>2. ASSUME NEW q \in {0} \cup DOMAIN f PROVE Up(g, q) \subseteq Up(f, q)
    <2>1. Up(f, q) \subseteq DOMAIN f
      BY UpIsRooted DEF Chart
    <2> QED
      BY <1>1, <2>1, UpShrinks
  <1>3. ASSUME NEW e \in DOMAIN f, g[e].live PROVE e \notin Up(g, g[e].parent)
    <2>1. g[e] = f[e]
      BY <1>3 DEF GoneDepartment
    <2>2. f[e].parent \in {0} \cup DOMAIN f
      BY DEF Chart, Parented
    <2> QED
      BY <1>2, <1>3, <2>1, <2>2 DEF Acyclic
  <1> QED
    BY <1>2, <1>3 DEF Acyclic

\* Parents, and the departments of users, are there.
Founded == \A d \in Departments : department[d].live => Exists(department[d].parent)
Placed == \A u \in Users : Exists(user[u].place)

\* Who is to be moved is not above the place.
MovesFit ==
  \A w \in Workers : job[w].kind = "edit_department" =>
    job[w].id \notin Up(department, job[w].place)

Forest ==
  /\ Founded /\ Acyclic(department) /\ Placed
  /\ MovesFit /\ Apart("edit_department", "edit_department")

\* The departments are such a table.
LEMMA CoreChart == Core => Chart(department)
  BY CoreRows DEF Core, DepartmentsFit, Chart, Departments

\* The writers of departments keep them trees.
LEMMA DepartmentsStayTrees ==
  ASSUME Core, Core', Founded, Acyclic(department), MovesFit, DepartmentWritten
  PROVE  /\ Founded' /\ Acyclic(department')
         /\ \/ \A q \in {0} \cup Departments : Up(department', q) \subseteq Up(department, q)
            \/ \E w \in Workers : job[w].kind = "edit_department" /\ Done(w)
  <1> DEFINE Lower == \A q \in {0} \cup Departments : Up(department', q) \subseteq Up(department, q)
  <1>0. Chart(department) /\ Chart(department')
    <2>1. Chart(department)'
      BY CoreChart, PTL
    <2> QED
      BY <2>1, CoreChart
  <1>1. PICK w \in Workers :
          ClearData(w) \/ CreateDepartment(w) \/ UpdateDepartment(w) \/ DestroyDepartment(w)
    BY DEF DepartmentWritten
  <1>2. /\ job[w] \in Tasks /\ Named(job[w])
        /\ \A d \in Departments : department[d] \in DepartmentRows
        /\ Departments = 1 .. Len(department) /\ Len(department) \in Nat
    BY CoreRows DEF Core, TasksFit
  <1>3. CASE ClearData(w)
    <2>1. department' = [d \in Departments |-> GoneDepartment]
      BY <1>3 DEF ClearData
    <2>2. DOMAIN department' = DOMAIN department
      BY <2>1 DEF Departments
    <2>3. \A d \in DOMAIN department : department'[d] \in {department[d], GoneDepartment}
      BY <2>1 DEF Departments
    <2>4. Acyclic(department') /\ Lower
      BY <1>0, <2>2, <2>3, AcyclicLeft DEF Departments
    <2>5. Founded'
      BY <2>1 DEF Founded, Departments, GoneDepartment
    <2> QED
      BY <2>4, <2>5
  <1>4. CASE CreateDepartment(w)
    <2> DEFINE x == Row(w)
               n == Len(department) + 1
    <2>1. department' = Append(department, x) /\ Exists(job[w].place)
      BY <1>4 DEF CreateDepartment
    <2>2. x.live /\ x.parent = job[w].place
      BY DEF Row
    <2>2a. department \in Seq(DepartmentRows) /\ x \in DepartmentRows
      BY <1>2 DEF Core, DepartmentsFit, Row, DepartmentRows, Tasks
    <2> HIDE DEF x
    <2>3. /\ Departments' = Departments \cup {n} /\ n \notin Departments
          /\ \A d \in Departments : department'[d] = department[d]
          /\ department'[n] = x
      BY <2>1, <2>2a, RowMade, RowNumbers DEF Departments
    <2>4. job[w].place \in {0} \cup Departments
      BY <2>1 DEF Exists
    <2>5. Acyclic(department') /\ Lower
      BY <1>0, <2>2, <2>3, <2>4, AcyclicMade DEF Departments
    <2>6. Founded'
      <3> HIDE DEF n
      <3>1. ASSUME NEW p, Exists(p) PROVE Exists(p)'
        BY <2>3, <3>1 DEF Exists
      <3>2. ASSUME NEW e \in Departments', department'[e].live
            PROVE  Exists(department[e].parent)'
        <4>1. Exists(department'[e].parent)
          BY <2>1, <2>2, <2>3, <3>2 DEF Founded
        <4> QED
          BY <3>1, <4>1
      <3> QED
        BY <3>2 DEF Founded
    <2> QED
      BY <2>5, <2>6
  <1>5. CASE UpdateDepartment(w)
    <2> DEFINE x == Row(w)
               d == job[w].id
    <2>1. department' = [department EXCEPT ![d] = x] /\ Exists(job[w].place)
      BY <1>5 DEF UpdateDepartment
    <2>2. x.live /\ x.parent = job[w].place
      BY DEF Row
    <2>3. job[w].kind = "edit_department" /\ Done(w)
      BY <1>5 DEF UpdateDepartment
    <2>4. d \in Departments /\ d \notin Up(department, job[w].place)
      BY <1>2, <2>3 DEF Named, MovesFit
    <2> HIDE DEF x, d
    <2>5. /\ DOMAIN department' = DOMAIN department
          /\ \A e \in Departments \ {d} : department'[e] = department[e]
          /\ department'[d] = x
      BY <2>1, <2>4 DEF Departments
    <2>6. job[w].place \in {0} \cup Departments
      BY <2>1 DEF Exists
    <2>7. Acyclic(department')
      BY <1>0, <2>2, <2>4, <2>5, <2>6, AcyclicMoved DEF Departments
    <2>8. Founded'
      BY <2>1, <2>2, <2>4, <2>5 DEF Founded, Exists, Departments
    <2> QED
      BY <2>3, <2>7, <2>8
  <1>6. CASE DestroyDepartment(w)
    <2> DEFINE F == Fallen(job[w].id)
    <2>1. department' = [d \in Departments |-> IF d \in F THEN GoneDepartment ELSE department[d]]
      BY <1>6 DEF DestroyDepartment
    <2>1a. job[w].kind = "destroy_department" /\ job[w].id \in Departments
      BY <1>2, <1>6 DEF DestroyDepartment, Named
    <2>2. ASSUME NEW e \in Departments \ F, department[e].live
          PROVE  department[e].parent \notin F
      <3> DEFINE p == department[e].parent
      <3>1. p \in {0} \cup Departments /\ e \in DOMAIN department
        BY <1>0 DEF Chart, Parented, Departments
      <3>2. job[w].id \notin Up(department, e)
        BY <2>2, AboveIsUp DEF Fallen
      <3>3. p \in {0} \cup Up(department, e) /\ Up(department, p) \subseteq Up(department, e)
        BY <1>0, <3>1, UpAtParent
      <3>4. 0 \notin F
        BY <1>2, <2>1a DEF Fallen
      <3> QED
        BY <3>2, <3>3, <3>4, AboveIsUp DEF Fallen
    <2> HIDE DEF F
    <2>3. DOMAIN department' = DOMAIN department
      BY <2>1 DEF Departments
    <2>4. \A d \in DOMAIN department : department'[d] \in {department[d], GoneDepartment}
      BY <2>1 DEF Departments
    <2>5. Acyclic(department') /\ Lower
      BY <1>0, <2>3, <2>4, AcyclicLeft DEF Departments
    <2>6. Founded'
      <3>1. ASSUME NEW e \in Departments, department'[e].live
            PROVE  Exists(department[e].parent)'
        <4>1. e \notin F /\ department'[e] = department[e]
          BY <2>1, <3>1 DEF GoneDepartment
        <4>2. Exists(department[e].parent) /\ department[e].parent \notin F
          BY <2>2, <3>1, <4>1 DEF Founded
        <4> QED
          BY <2>1, <4>1, <4>2 DEF Exists, Departments
      <3> QED
        BY <2>3, <3>1 DEF Founded, Departments
    <2> QED
      BY <2>5, <2>6
  <1> QED
    BY <1>1, <1>3, <1>4, <1>5, <1>6

\* Who fills the role of a super administrator gives roles, and nothing else.
LEMMA FilledRows ==
  ASSUME Core, NEW u, NEW codes, Filled(u, codes)
  PROVE  /\ Users' = Users
         /\ \A v \in Users : /\ user'[v].place = user[v].place
                             /\ user'[v].live = user[v].live
                             /\ user[v].roles \subseteq user'[v].roles
                             /\ v # u => user'[v] = user[v]
  <1>1. CASE SystemRoles(u) # {}
    BY <1>1 DEF Filled, Users
  <1>2. CASE SystemRoles(u) = {}
    <2>1. user' = [user EXCEPT ![u].roles = @ \cup {Len(role) + 1}]
      BY <1>2 DEF Filled
    <2>2. DOMAIN user' = DOMAIN user /\ \A v \in Users : user[v] \in UserRows
      BY <2>1, CoreRows
    <2>3. ASSUME NEW v \in Users
          PROVE  user'[v] = IF v = u THEN [user[v] EXCEPT !.roles = @ \cup {Len(role) + 1}]
                            ELSE user[v]
      BY <2>1 DEF Users
    <2> QED
      BY <2>2, <2>3 DEF UserRows, Users
  <1> QED
    BY <1>1, <1>2

\* A tenant whose data is cleared has one user, and one role, of those there were none.
LEMMA ClearedPeople ==
  ASSUME Core, NEW w, ClearData(w)
  PROVE  /\ Users' = Users \cup {Len(user) + 1} /\ Roles' = Roles \cup {Len(role) + 1}
         /\ \A u \in Users : user'[u] = GoneUser
         /\ \A r \in Roles : role'[r] = GoneRole
         /\ user'[Len(user) + 1] = NewUser("admin", {Len(role) + 1}, 0)
         /\ role'[Len(role) + 1] = NewRole(EnabledCodes, TRUE)
         /\ Len(user) \in Nat /\ Len(role) \in Nat
         /\ Len(user) + 1 \notin Users /\ Len(role) + 1 \notin Roles
  <1> DEFINE users == [v \in Users |-> GoneUser]
             roles == [r \in Roles |-> GoneRole]
             x == NewUser("admin", {Len(role) + 1}, 0)
             e == NewRole(EnabledCodes, TRUE)
  <1>1. user' = Append(users, x) /\ role' = Append(roles, e)
    BY DEF ClearData
  <1>2. /\ user \in Seq(UserRows) /\ role \in Seq(RoleRows)
        /\ Len(user) \in Nat /\ Len(role) \in Nat
        /\ Users = 1 .. Len(user) /\ Roles = 1 .. Len(role)
    BY CoreRows DEF Core, UsersFit, RolesFit
  <1>3. /\ users \in [Users -> {GoneUser}] /\ roles \in [Roles -> {GoneRole}]
    OBVIOUS
  <1>4. /\ \A u \in Users : users[u] = GoneUser
        /\ \A r \in Roles : roles[r] = GoneRole
    OBVIOUS
  <1> HIDE DEF users, roles, x, e
  <1>5. /\ users \in Seq({GoneUser}) /\ Len(users) = Len(user) /\ DOMAIN users = Users
        /\ roles \in Seq({GoneRole}) /\ Len(roles) = Len(role) /\ DOMAIN roles = Roles
    BY <1>2, <1>3, RowsKept DEF Users, Roles
  <1>6. /\ Users' = Users \cup {Len(user) + 1} /\ user'[Len(user) + 1] = x
        /\ \A u \in Users : user'[u] = users[u]
    BY <1>1, <1>2, <1>5 DEF Users
  <1>7. /\ Roles' = Roles \cup {Len(role) + 1} /\ role'[Len(role) + 1] = e
        /\ \A r \in Roles : role'[r] = roles[r]
    BY <1>1, <1>2, <1>5 DEF Roles
  <1> QED
    BY <1>2, <1>4, <1>6, <1>7 DEF x, e

\* Departments that are created, or edited, take none away.
LEMMA ExistsStays ==
  ASSUME Core, NEW w \in Workers, CreateDepartment(w) \/ UpdateDepartment(w), NEW p, Exists(p)
  PROVE  Exists(p)'
  <1>0. /\ Departments = 1 .. Len(department) /\ Len(department) \in Nat
        /\ department \in Seq(DepartmentRows)
    BY CoreRows DEF Core, DepartmentsFit
  <1> DEFINE x == Row(w)
  <1>1. x.live
    BY DEF Row
  <1> HIDE DEF x
  <1>2. CASE CreateDepartment(w)
    <2>1. department' = Append(department, x)
      BY <1>2 DEF CreateDepartment, x
    <2>2. Departments \subseteq Departments' /\ \A d \in Departments : department'[d] = department[d]
      BY <1>0, <2>1 DEF Departments
    <2> QED
      BY <2>2 DEF Exists
  <1>3. CASE UpdateDepartment(w)
    <2>1. department' = [department EXCEPT ![job[w].id] = x]
      BY <1>3 DEF UpdateDepartment, x
    <2> QED
      BY <1>1, <2>1 DEF Exists, Departments
  <1> QED
    BY <1>2, <1>3

\* Users stay where they are, or go where a department is.
LEMMA PlacesKept ==
  ASSUME Core, UNCHANGED people \/ PeopleWritten, NEW u \in Users'
  PROVE  \/ u \in Users /\ user'[u].place = user[u].place
         \/ Exists(user'[u].place) /\ UNCHANGED department
         \/ user'[u].place = 0
         \/ \E w \in Workers : DestroyDepartment(w)
  <1> DEFINE Claim == \/ u \in Users /\ user'[u].place = user[u].place
                      \/ Exists(user'[u].place) /\ UNCHANGED department
                      \/ user'[u].place = 0
                      \/ \E w \in Workers : DestroyDepartment(w)
  <1>0. /\ user \in Seq(UserRows) /\ \A v \in Users : user[v] \in UserRows
        /\ Users = 1 .. Len(user) /\ Len(user) \in Nat /\ Len(role) \in Nat
        /\ \A w \in Workers : job[w] \in Tasks
    BY CoreRows DEF Core, UsersFit
  <1>1. CASE UNCHANGED people
    BY <1>1 DEF people, Users
  <1>2. ASSUME NEW x, user' = Append(user, x), x.place = 0 \/ Exists(x.place), UNCHANGED department
        PROVE  Claim
    <2>1. Users' = Users \cup {Len(user) + 1} /\ user'[Len(user) + 1] = x
          /\ \A v \in Users : user'[v] = user[v]
      BY <1>0, <1>2 DEF Users
    <2> QED
      BY <1>2, <2>1
  <1>3. ASSUME NEW codes, EnsureAdmin(codes), UNCHANGED department PROVE Claim
    <2>1. CASE SuperAdmins # {}
      BY <1>3, <2>1, FilledRows DEF EnsureAdmin
    <2>2. CASE SuperAdmins = {}
      BY <1>2, <1>3, <2>2 DEF EnsureAdmin, NewUser
    <2> QED
      BY <2>1, <2>2
  <1>4. ASSUME NEW w \in Workers, NEW S \in SUBSET Modules, Apply(w, S) \/ Bind(w, S) PROVE Claim
    <2>1. CASE Apply(w, S)
      BY <2>1, FilledRows DEF Apply, people, Users
    <2>2. CASE Bind(w, S)
      BY <1>3, <2>2 DEF Bind, access
    <2> QED
      BY <1>4, <2>1, <2>2
  <1>5. ASSUME NEW w \in Workers, RefreshAdmin(w) PROVE Claim
    BY <1>3, <1>5 DEF RefreshAdmin, access
  <1>6. ASSUME NEW w \in Workers, SyncRoles(w) PROVE Claim
    BY <1>6 DEF SyncRoles, Users
  <1>7. ASSUME NEW w \in Workers, ClearData(w) PROVE Claim
    <2>1. user'[u] = GoneUser \/ user'[u] = NewUser("admin", {Len(role) + 1}, 0)
      BY <1>7, ClearedPeople
    <2> QED
      BY <2>1 DEF GoneUser, NewUser
  <1>8. ASSUME NEW w \in Workers, NEW v \in Users, NEW d \in Departments \cup {0},
               NEW on \in BOOLEAN, MoveUser(w, v, d, on)
        PROVE  Claim
    <2>1. /\ user' = [user EXCEPT ![v].place = d, ![v].on = on]
          /\ Exists(d) /\ UNCHANGED department
      BY <1>8 DEF MoveUser, Bindable, Exists, access
    <2>2. Users' = Users /\ u \in Users /\ user[u] \in UserRows
      BY <1>0, <2>1 DEF Users
    <2>3. user'[u].place = IF u = v THEN d ELSE user[u].place
      BY <1>0, <2>1, <2>2 DEF UserRows, Users
    <2> QED
      BY <2>1, <2>2, <2>3
  <1>9. ASSUME NEW w \in Workers, SaveLogin(w) \/ CreateUser(w) \/ UpdateUser(w) \/ DestroyUser(w)
        PROVE  Claim
    <2>1. CASE SaveLogin(w)
      BY <2>1, FilledRows DEF SaveLogin
    <2>2. CASE CreateUser(w)
      <3>1. UNCHANGED department
        BY <2>2 DEF CreateUser, access
      <3> QED
        BY <1>2, <2>2, <3>1 DEF CreateUser, NewUser
    <2>3. CASE UpdateUser(w)
      BY <1>0, <2>3 DEF UpdateUser, UserRows, Users
    <2>4. CASE DestroyUser(w)
      BY <1>0, <2>4 DEF DestroyUser, GoneUser, Users
    <2> QED
      BY <1>9, <2>1, <2>2, <2>3, <2>4
  <1>10. ASSUME NEW w \in Workers, CreateRole(w) \/ UpdateRole(w) \/ DestroyRole(w) PROVE Claim
    <2>1. CASE CreateRole(w) \/ UpdateRole(w)
      BY <2>1 DEF CreateRole, UpdateRole, Users
    <2>2. CASE DestroyRole(w)
      BY <1>0, <2>2 DEF DestroyRole, UserRows, Users
    <2> QED
      BY <1>10, <2>1, <2>2
  <1> HIDE DEF Claim
  <1>11. CASE PeopleWritten
    <2>1. Claim \/ \E w \in Workers : DestroyDepartment(w)
      BY <1>11, <1>4, <1>5, <1>6, <1>7, <1>8, <1>9, <1>10 DEF PeopleWritten
    <2> QED
      BY <2>1 DEF Claim
  <1> QED
    BY <1>1, <1>11

\* Users stay in departments that exist.
LEMMA PlacedStays ==
  ASSUME Core, Core', Placed, [Next]_vars
  PROVE  Placed'
  <1> SUFFICES ASSUME NEW u \in Users' PROVE Exists(user[u].place)'
    BY DEF Placed
  <1>1. CASE \E w \in Workers : DestroyDepartment(w)
    <2>1. PICK w \in Workers : DestroyDepartment(w)
      BY <1>1
    <2> DEFINE F == Fallen(job[w].id)
    <2>2. /\ department' = [d \in Departments |-> IF d \in F THEN GoneDepartment ELSE department[d]]
          /\ user' = [v \in Users |-> IF user[v].place \in F THEN [user[v] EXCEPT !.place = 0]
                                      ELSE user[v]]
      BY <2>1 DEF DestroyDepartment
    <2> HIDE DEF F
    <2>3. Users' = Users /\ user[u] \in UserRows
      BY <2>2, CoreRows DEF Users
    <2>4. user'[u].place = IF user[u].place \in F THEN 0 ELSE user[u].place
      BY <2>2, <2>3 DEF UserRows
    <2>5. Exists(user[u].place)
      BY <2>3 DEF Placed
    <2> QED
      BY <2>2, <2>4, <2>5 DEF Exists, Departments
  <1>2. CASE \A w \in Workers : ~ DestroyDepartment(w)
    <2>1. \/ u \in Users /\ user'[u].place = user[u].place
          \/ Exists(user'[u].place) /\ UNCHANGED department
          \/ user'[u].place = 0
      BY <1>2, PlacesKept, Writers
    <2>2. \A d : Exists(d) /\ UNCHANGED department => Exists(d)'
      BY DEF Exists, Departments
    <2>3. CASE UNCHANGED department
      BY <2>1, <2>2, <2>3 DEF Placed, Exists
    <2>4. CASE \E w \in Workers : ClearData(w)
      <3>1. PICK w \in Workers : ClearData(w)
        BY <2>4
      <3>2. user'[u] = GoneUser \/ user'[u] = NewUser("admin", {Len(role) + 1}, 0)
        BY <3>1, ClearedPeople
      <3>3. user'[u].place = 0
        BY <3>2 DEF GoneUser, NewUser
      <3> QED
        BY <3>3 DEF Exists
    <2>5. CASE \E w \in Workers : CreateDepartment(w) \/ UpdateDepartment(w)
      <3>1. \A d : Exists(d) => Exists(d)'
        BY <2>5, ExistsStays
      <3> QED
        BY <2>1, <2>2, <3>1 DEF Placed, Exists
    <2> QED
      BY <1>2, <2>3, <2>4, <2>5, Writers DEF DepartmentWritten
  <1> QED
    BY <1>1, <1>2

\* A department is asked to be moved where it is not above.
LEMMA MoveAsked ==
  ASSUME Core, Forest, NEW w, NEW d \in Departments, NEW p, NEW on, LoadDepartment(w, d, p, on)
  PROVE  d \notin Up(department, p)
  <1>0. Chart(department) /\ d # 0
    BY CoreChart, CoreRows
  <1>1. CASE p = department[d].parent
    BY <1>0, <1>1 DEF LoadDepartment, Forest, Acyclic, Departments
  <1>2. CASE p = 0
    <2>1. Rooted(department, {}) /\ Len(department) \in Nat
      BY <1>0 DEF Rooted, Chart
    <2>2. Up(department, p) = {}
      BY <1>2, <2>1, UpLeast
    <2> QED
      BY <2>2
  <1>3. CASE Acceptable(d, p)
    BY <1>3, AboveIsUp DEF Acceptable
  <1> QED
    BY <1>0, <1>1, <1>2, <1>3 DEF LoadDepartment

\* What is to be moved is still not above the place.
LEMMA MovesStayFit ==
  ASSUME Core, Core', Forest, [Next]_vars
  PROVE  MovesFit'
  <1> SUFFICES ASSUME NEW w \in Workers, job'[w].kind = "edit_department"
               PROVE  job'[w].id \notin Up(department', job'[w].place)
    BY DEF MovesFit
  <1>0. job \in [Workers -> Tasks] /\ Named(job[w]) /\ Idle.kind = "idle"
    BY DEF Core, TasksFit, Idle
  <1>1. CASE job'[w] = job[w]
    <2>1. /\ job[w].id \notin Up(department, job[w].place)
          /\ job[w].place \in {0} \cup Departments
      BY <1>0, <1>1 DEF Forest, MovesFit, Named
    <2>2. CASE UNCHANGED department
      BY <1>1, <2>1, <2>2
    <2>3. CASE DepartmentWritten
      <3>1. \/ \A q \in {0} \cup Departments : Up(department', q) \subseteq Up(department, q)
            \/ \E v \in Workers : job[v].kind = "edit_department" /\ Done(v)
        BY <2>3, DepartmentsStayTrees DEF Forest
      <3>2. CASE \E v \in Workers : job[v].kind = "edit_department" /\ Done(v)
        <4>1. PICK v \in Workers : job[v].kind = "edit_department" /\ Done(v)
          BY <3>2
        <4>2. v = w
          BY <1>1, <4>1 DEF Forest, Apart
        <4>3. job'[w] = Idle
          BY <1>0, <4>1, <4>2 DEF Done
        <4> QED
          BY <1>0, <4>3
      <3> QED
        BY <1>1, <2>1, <3>1, <3>2
    <2> QED
      BY <2>2, <2>3, Writers
  <1>2. CASE job'[w] # job[w]
    <2>1. CASE \E v \in Workers : Done(v)
      BY <1>0, <1>2, <2>1 DEF Done
    <2>2. CASE UNCHANGED job
      BY <1>2, <2>2
    <2>3. ASSUME NEW v \in Workers, NEW t \in Tasks,
                 TakenUp(v, t) /\ LoadSteps(v, t) /\ UNCHANGED <<config, people, access>>
          PROVE  job'[w].id \notin Up(department', job'[w].place)
      <3>1. job'[w] = t /\ UNCHANGED department
        BY <1>0, <1>2, <2>3 DEF TakenUp, access
      <3>2. PICK d \in Departments, p \in Departments \cup {0}, on \in BOOLEAN :
              LoadDepartment(v, d, p, on) /\ t.id = d /\ t.place = p
        BY <2>3, <3>1 DEF LoadSteps
      <3>3. d \notin Up(department, p)
        BY <3>2, MoveAsked
      <3> QED
        BY <3>1, <3>2, <3>3
    <2> QED
      BY <2>1, <2>2, <2>3, Takings
  <1> QED
    BY <1>1, <1>2

\* The departments are trees from the start.
LEMMA ForestInit == Init => Forest
  <1> SUFFICES ASSUME Init PROVE Forest
    OBVIOUS
  <1>1. department = << >> /\ Departments = {} /\ job = [w \in Workers |-> Idle]
    BY DEF Init, Departments
  <1>2. Founded /\ Acyclic(department)
    BY <1>1 DEF Founded, Acyclic, Departments
  <1>3. \A w \in Workers : job[w].kind = "idle"
    BY <1>1 DEF Idle
  <1>4. Placed
    <2>1. \A u \in Users : user[u].place = 0
      <3>1. user = << >> \/ user = <<NewUser("admin", {1}, 0)>>
        BY DEF Init
      <3>2. NewUser("admin", {1}, 0).place = 0
        BY DEF NewUser
      <3> HIDE DEF NewUser
      <3> QED
        BY <3>1, <3>2 DEF Users
    <2> QED
      BY <2>1 DEF Placed, Exists
  <1> QED
    BY <1>2, <1>3, <1>4 DEF Forest, MovesFit, Apart

\* And they stay trees.
LEMMA ForestNext ==
  ASSUME {"edit_department"} \notin Racing
  PROVE  Core /\ Forest /\ [Next]_vars => Core' /\ Forest'
  <1> SUFFICES ASSUME Core, Forest, [Next]_vars PROVE Core' /\ Forest'
    OBVIOUS
  <1>1. Core'
    BY NextCore
  <1>2. Founded' /\ Acyclic(department')
    <2>1. CASE UNCHANGED department
      BY <2>1 DEF Forest, Founded, Exists, Departments
    <2>2. CASE DepartmentWritten
      BY <1>1, <2>2, DepartmentsStayTrees DEF Forest
    <2> QED
      BY <2>1, <2>2, Writers
  <1>3. Placed'
    BY <1>1, PlacedStays DEF Forest
  <1>4. MovesFit'
    BY <1>1, MovesStayFit
  <1>5. Apart("edit_department", "edit_department")'
    <2>1. {"edit_department", "edit_department"} = {"edit_department"}
      OBVIOUS
    <2> QED
      BY <2>1, StaysApart DEF Forest
  <1> QED
    BY <1>1, <1>2, <1>3, <1>4, <1>5 DEF Forest

\* Departments are trees, and users in those that exist, whatever is asked of the tenant
\* meanwhile, unless two edits of departments overlap: validate_parent looks at the tree
\* once, and the save writes the parent whatever became of it.
THEOREM TenancyTrees ==
  ASSUME {"edit_department"} \notin Racing
  PROVE  Spec => []DepartmentsAreTrees
  <1>1. Init => Core /\ Forest
    BY InitCore, ForestInit
  <1>2. Core /\ Forest /\ [Next]_vars => (Core /\ Forest)'
    BY ForestNext
  <1>3. Forest => DepartmentsAreTrees
    BY AboveIsUp DEF Forest, Founded, Acyclic, Placed, DepartmentsAreTrees, Alive, Departments
  <1> QED
    BY <1>1, <1>2, <1>3, PTL DEF Spec

-----------------------------------------------------------------------------
(* Whose rows are deleted. *)

\* The roles after the role of a super administrator is filled: the codes are in one.
LEMMA FilledRoles ==
  ASSUME Core, NEW u, NEW codes, Filled(u, codes)
  PROVE  /\ Roles \subseteq Roles'
         /\ \A r \in Roles : role'[r] = role[r] \/ role'[r] = [role[r] EXCEPT !.codes = codes]
         /\ \A r \in Roles' \ Roles : role'[r] = NewRole(codes, TRUE)
  <1>0. /\ role \in Seq(RoleRows) /\ Len(role) \in Nat /\ Roles = 1 .. Len(role)
        /\ \A r \in Roles : role[r] \in RoleRows
    BY CoreRows DEF Core, RolesFit
  <1>1. CASE SystemRoles(u) # {}
    <2>1. PICK s : role' = [role EXCEPT ![s].codes = codes]
      BY <1>1 DEF Filled
    <2> QED
      BY <1>0, <2>1 DEF Roles, RoleRows
  <1>2. CASE SystemRoles(u) = {}
    <2> DEFINE e == NewRole(codes, TRUE)
    <2>1. role' = Append(role, e)
      BY <1>2 DEF Filled
    <2> HIDE DEF e
    <2>2. Roles' = Roles \cup {Len(role) + 1} /\ role'[Len(role) + 1] = e
          /\ \A r \in Roles : role'[r] = role[r]
      BY <1>0, <2>1 DEF Roles
    <2> QED
      BY <2>2 DEF e
  <1> QED
    BY <1>1, <1>2

\* The roles after an administrator is ensured.
LEMMA EnsuredRoles ==
  ASSUME Core, NEW codes, EnsureAdmin(codes)
  PROVE  /\ Roles \subseteq Roles'
         /\ \A r \in Roles : role'[r] = role[r] \/ role'[r] = [role[r] EXCEPT !.codes = codes]
         /\ \A r \in Roles' \ Roles : role'[r] = NewRole(codes, TRUE)
  <1>0. /\ role \in Seq(RoleRows) /\ Len(role) \in Nat /\ Roles = 1 .. Len(role)
    BY CoreRows DEF Core, RolesFit
  <1>1. CASE SuperAdmins # {}
    BY <1>1, FilledRoles DEF EnsureAdmin
  <1>2. CASE SuperAdmins = {}
    <2> DEFINE e == NewRole(codes, TRUE)
    <2>1. role' = Append(role, e)
      BY <1>2 DEF EnsureAdmin
    <2> HIDE DEF e
    <2>2. Roles' = Roles \cup {Len(role) + 1} /\ role'[Len(role) + 1] = e
          /\ \A r \in Roles : role'[r] = role[r]
      BY <1>0, <2>1 DEF Roles
    <2> QED
      BY <2>2 DEF e
  <1> QED
    BY <1>1, <1>2

\* The users after that.
LEMMA EnsuredUsers ==
  ASSUME Core, NEW codes, EnsureAdmin(codes)
  PROVE  /\ Users \subseteq Users'
         /\ \A u \in Users : /\ user'[u].live = user[u].live
                             /\ user[u].roles \subseteq user'[u].roles
  <1>0. /\ user \in Seq(UserRows) /\ Len(user) \in Nat /\ Users = 1 .. Len(user)
    BY CoreRows DEF Core, UsersFit
  <1>1. CASE SuperAdmins # {}
    BY <1>1, FilledRows DEF EnsureAdmin
  <1>2. CASE SuperAdmins = {}
    <2> DEFINE x == NewUser("admin", {Len(role) + 1}, 0)
    <2>1. user' = Append(user, x)
      BY <1>2 DEF EnsureAdmin
    <2> HIDE DEF x
    <2>2. Users \subseteq Users' /\ \A u \in Users : user'[u] = user[u]
      BY <1>0, <2>1 DEF Users
    <2> QED
      BY <2>2
  <1> QED
    BY <1>1, <1>2

\* A user is deleted, or all data of the tenant is.
LEMMA LiveUsersStay ==
  ASSUME Core, [Next]_vars, NEW u \in Users, user[u].live
  PROVE  \/ user'[u].live
         \/ \E w \in Workers : ClearData(w)
         \/ \E w \in Workers : DestroyUser(w) /\ job[w].id = u
  <1> DEFINE Claim == \/ user'[u].live
                      \/ \E w \in Workers : ClearData(w)
                      \/ \E w \in Workers : DestroyUser(w) /\ job[w].id = u
  <1>0. /\ user \in Seq(UserRows) /\ user[u] \in UserRows
        /\ Users = 1 .. Len(user) /\ Len(user) \in Nat
    BY CoreRows DEF Core, UsersFit
  <1>1. CASE UNCHANGED people
    BY <1>1 DEF people
  <1>2. ASSUME NEW w \in Workers, NEW S \in SUBSET Modules, Apply(w, S) \/ Bind(w, S) PROVE Claim
    BY <1>2, FilledRows, EnsuredUsers DEF Apply, Bind, people
  <1>3. ASSUME NEW w \in Workers, RefreshAdmin(w) \/ SyncRoles(w) PROVE Claim
    BY <1>3, EnsuredUsers DEF RefreshAdmin, SyncRoles
  <1>4. ASSUME NEW w \in Workers, NEW v \in Users, NEW d \in Departments \cup {0},
               NEW on \in BOOLEAN, MoveUser(w, v, d, on)
        PROVE  Claim
    BY <1>0, <1>4 DEF MoveUser, UserRows, Users
  <1>5. ASSUME NEW w \in Workers, SaveLogin(w) \/ CreateUser(w) \/ UpdateUser(w) \/ DestroyUser(w)
        PROVE  Claim
    <2>1. CASE SaveLogin(w)
      BY <2>1, FilledRows DEF SaveLogin
    <2>2. CASE CreateUser(w)
      <3> DEFINE x == NewUser(job[w].name, StillThere(job[w].roles), job[w].place)
      <3>1. user' = Append(user, x)
        BY <2>2 DEF CreateUser
      <3> HIDE DEF x
      <3>2. user'[u] = user[u]
        BY <1>0, <3>1
      <3> QED
        BY <3>2
    <2>3. CASE UpdateUser(w)
      BY <1>0, <2>3 DEF UpdateUser, UserRows, Users
    <2>4. CASE DestroyUser(w)
      <3>1. u # job[w].id => user'[u] = user[u]
        BY <2>4 DEF DestroyUser, Users
      <3> QED
        BY <2>4, <3>1
    <2> QED
      BY <1>5, <2>1, <2>2, <2>3, <2>4
  <1>6. ASSUME NEW w \in Workers, CreateRole(w) \/ UpdateRole(w) \/ DestroyRole(w) PROVE Claim
    <2>1. CASE CreateRole(w) \/ UpdateRole(w)
      BY <2>1 DEF CreateRole, UpdateRole
    <2>2. CASE DestroyRole(w)
      BY <1>0, <2>2 DEF DestroyRole, UserRows
    <2> QED
      BY <1>6, <2>1, <2>2
  <1>7. ASSUME NEW w \in Workers, DestroyDepartment(w) PROVE Claim
    <2> DEFINE F == Fallen(job[w].id)
    <2>1. user' = [v \in Users |-> IF user[v].place \in F THEN [user[v] EXCEPT !.place = 0]
                                   ELSE user[v]]
      BY <1>7 DEF DestroyDepartment
    <2> HIDE DEF F
    <2> QED
      BY <1>0, <2>1 DEF UserRows
  <1>8. CASE PeopleWritten
    <2>1. Claim
      <3> HIDE DEF Claim
      <3>1. (\E w \in Workers : ClearData(w)) => Claim
        BY DEF Claim
      <3> QED
        BY <1>8, <1>2, <1>3, <1>4, <1>5, <1>6, <1>7, <3>1 DEF PeopleWritten
    <2> QED
      BY <2>1
  <1> QED
    BY <1>1, <1>8, Writers

\* A role is deleted, or all data of the tenant is.
LEMMA LiveRolesStay ==
  ASSUME Core, [Next]_vars, NEW r \in Roles, role[r].live
  PROVE  \/ role'[r].live
         \/ \E w \in Workers : ClearData(w)
         \/ \E w \in Workers : DestroyRole(w) /\ job[w].id = r
  <1> DEFINE Claim == \/ role'[r].live
                      \/ \E w \in Workers : ClearData(w)
                      \/ \E w \in Workers : DestroyRole(w) /\ job[w].id = r
  <1>0. /\ role \in Seq(RoleRows) /\ role[r] \in RoleRows
        /\ Roles = 1 .. Len(role) /\ Len(role) \in Nat
    BY CoreRows DEF Core, RolesFit
  <1>0a. \A codes : [role[r] EXCEPT !.codes = codes].live = role[r].live
    BY <1>0 DEF RoleRows
  <1>1. CASE UNCHANGED people
    BY <1>1 DEF people
  <1>2. ASSUME NEW w \in Workers, NEW S \in SUBSET Modules, Apply(w, S) \/ Bind(w, S) PROVE Claim
    BY <1>0a, <1>2, FilledRoles, EnsuredRoles DEF Apply, Bind, people
  <1>3. ASSUME NEW w \in Workers, RefreshAdmin(w) \/ SyncRoles(w) PROVE Claim
    <2>1. CASE RefreshAdmin(w)
      BY <1>0a, <2>1, EnsuredRoles DEF RefreshAdmin
    <2>2. CASE SyncRoles(w)
      BY <1>0, <2>2 DEF SyncRoles, RoleRows
    <2> QED
      BY <1>3, <2>1, <2>2
  <1>4. ASSUME NEW w \in Workers, NEW v \in Users, NEW d \in Departments \cup {0},
               NEW on \in BOOLEAN, MoveUser(w, v, d, on)
        PROVE  Claim
    BY <1>4 DEF MoveUser
  <1>5. ASSUME NEW w \in Workers, SaveLogin(w) \/ CreateUser(w) \/ UpdateUser(w) \/ DestroyUser(w)
        PROVE  Claim
    <2>1. CASE SaveLogin(w)
      <3>1. PICK codes : Filled(job[w].id, codes)
        BY <2>1 DEF SaveLogin
      <3>2. role'[r] = role[r] \/ role'[r] = [role[r] EXCEPT !.codes = codes]
        BY <3>1, FilledRoles
      <3> QED
        BY <1>0a, <3>2
    <2> QED
      BY <1>5, <2>1 DEF CreateUser, UpdateUser, DestroyUser
  <1>6. ASSUME NEW w \in Workers, CreateRole(w) \/ UpdateRole(w) \/ DestroyRole(w) PROVE Claim
    <2>1. CASE CreateRole(w)
      <3>1. PICK e : role' = Append(role, e)
        BY <2>1 DEF CreateRole
      <3>2. role'[r] = role[r]
        BY <1>0, <3>1
      <3> QED
        BY <3>2
    <2>2. CASE UpdateRole(w)
      BY <1>0, <2>2 DEF UpdateRole, RoleRows, Roles
    <2>3. CASE DestroyRole(w)
      <3>1. r # job[w].id => role'[r] = role[r]
        BY <2>3 DEF DestroyRole, Roles
      <3> QED
        BY <2>3, <3>1
    <2> QED
      BY <1>6, <2>1, <2>2, <2>3
  <1>7. ASSUME NEW w \in Workers, DestroyDepartment(w) PROVE Claim
    BY <1>7 DEF DestroyDepartment
  <1>8. CASE PeopleWritten
    <2>1. Claim
      <3> HIDE DEF Claim
      <3>1. (\E w \in Workers : ClearData(w)) => Claim
        BY DEF Claim
      <3> QED
        BY <1>8, <1>2, <1>3, <1>4, <1>5, <1>6, <1>7, <3>1 DEF PeopleWritten
    <2> QED
      BY <2>1
  <1> QED
    BY <1>1, <1>8, Writers

\* A department is deleted with those below it, or all data of the tenant is.
LEMMA LiveDepartmentsStay ==
  ASSUME Core, [Next]_vars, NEW d \in Departments, department[d].live
  PROVE  \/ department'[d].live
         \/ \E w \in Workers : ClearData(w)
         \/ \E w \in Workers : DestroyDepartment(w) /\ d \in Fallen(job[w].id)
  <1>1. CASE UNCHANGED department
    BY <1>1
  <1>2. ASSUME NEW w \in Workers, CreateDepartment(w) \/ UpdateDepartment(w)
        PROVE  department'[d].live
    <2>1. Exists(d)' /\ d # 0
      BY <1>2, ExistsStays, CoreRows DEF Exists
    <2> QED
      BY <2>1 DEF Exists
  <1>3. ASSUME NEW w \in Workers, DestroyDepartment(w), d \notin Fallen(job[w].id)
        PROVE  department'[d].live
    BY <1>3 DEF DestroyDepartment
  <1> QED
    BY <1>1, <1>2, <1>3, Writers DEF DepartmentWritten

-----------------------------------------------------------------------------
(* Grants. *)

NoneSuch(r, s) ==
  \A g \in DOMAIN grant : grant[g].live => <<grant[g].resource, grant[g].subject>> # <<r, s>>

\* A grant is special, and of a subject that exists.
GrantStands(g) == policy[grant[g].resource] = "SPECIAL" /\ Present(grant[g].subject)

Standing == \A g \in DOMAIN grant : grant[g].live => GrantStands(g)

Single ==
  \A g, h \in DOMAIN grant : grant[g].live /\ grant[h].live /\ g # h =>
    <<grant[g].resource, grant[g].subject>> # <<grant[h].resource, grant[h].subject>>

\* A grant that is asked for is of a special resource, and there is none such.
AskFits(t) == policy[t.place] = "SPECIAL" /\ NoneSuch(t.place, <<t.name, t.id>>)

AsksFit == \A w \in Workers : job[w].kind = "create_grant" => AskFits(job[w])

Granting ==
  Standing /\ Single /\ AsksFit /\ Apart("create_grant", "create_grant")

\* A subject that goes takes its grants along.
LEMMA SubjectsStay ==
  ASSUME Core, [Next]_vars, NEW s \in Subjects, Present(s), ~ Present(s)'
  PROVE  \/ \E w \in Workers : ClearData(w)
         \/ \E w \in Workers : DestroyUser(w) /\ s = <<"user", job[w].id>>
         \/ \E w \in Workers : DestroyRole(w) /\ s = <<"role", job[w].id>>
         \/ \E w \in Workers : DestroyDepartment(w)
                               /\ s \in {<<"department", d>> : d \in Fallen(job[w].id)}
  <1>1. ASSUME NEW u \in Users, s = <<"user", u>>
        PROVE  \/ \E w \in Workers : ClearData(w)
               \/ \E w \in Workers : DestroyUser(w) /\ s = <<"user", job[w].id>>
    <2>1. user[u].live /\ ~ user'[u].live
      BY <1>1 DEF Present
    <2> QED
      BY <1>1, <2>1, LiveUsersStay
  <1>2. ASSUME NEW r \in Roles, s = <<"role", r>>
        PROVE  \/ \E w \in Workers : ClearData(w)
               \/ \E w \in Workers : DestroyRole(w) /\ s = <<"role", job[w].id>>
    <2>1. role[r].live /\ ~ role'[r].live
      BY <1>2 DEF Present
    <2> QED
      BY <1>2, <2>1, LiveRolesStay
  <1>3. ASSUME NEW d \in Departments, s = <<"department", d>>
        PROVE  \/ \E w \in Workers : ClearData(w)
               \/ \E w \in Workers : DestroyDepartment(w)
                                     /\ s \in {<<"department", e>> : e \in Fallen(job[w].id)}
    <2>1. department[d].live /\ ~ department'[d].live
      BY <1>3 DEF Present
    <2> QED
      BY <1>3, <2>1, LiveDepartmentsStay
  <1> QED
    BY <1>1, <1>2, <1>3 DEF Subjects

\* Grants are left or deleted where they are not made: those of subjects that go are.
LEMMA GrantsKept ==
  ASSUME Core, [Next]_vars, \A w \in Workers : ~ CreateGrant(w), NEW g \in DOMAIN grant',
         grant'[g].live
  PROVE  g \in DOMAIN grant /\ grant'[g] = grant[g]
  <1>1. CASE UNCHANGED grant
    BY <1>1
  <1>3. ASSUME NEW w \in Workers, ClearData(w) PROVE FALSE
    <2>1. grant' = [h \in DOMAIN grant |-> GoneGrant]
      BY <1>3 DEF ClearData
    <2> QED
      BY <2>1 DEF GoneGrant
  <1>4. ASSUME NEW w \in Workers, DestroyUser(w) \/ DestroyRole(w)
        PROVE  g \in DOMAIN grant /\ grant'[g] = grant[g]
    <2>1. PICK s : grant' = Without(s)
      BY <1>4 DEF DestroyUser, DestroyRole
    <2> QED
      BY <2>1 DEF Without, GoneGrant
  <1>5. ASSUME NEW w \in Workers, DestroyDepartment(w)
        PROVE  g \in DOMAIN grant /\ grant'[g] = grant[g]
    <2>1. PICK S : grant' = [h \in DOMAIN grant |-> IF grant[h].subject \in S THEN GoneGrant
                                                    ELSE grant[h]]
      BY <1>5 DEF DestroyDepartment
    <2> QED
      BY <2>1 DEF GoneGrant
  <1>6. ASSUME NEW w \in Workers, NEW r, NEW type, PutPolicy(w, r, type)
        PROVE  g \in DOMAIN grant /\ grant'[g] = grant[g]
    BY <1>6 DEF PutPolicy, Withdrawn, GoneGrant
  <1>7. ASSUME NEW w \in Workers, NEW h \in DOMAIN grant, DestroyGrant(w, h)
        PROVE  g \in DOMAIN grant /\ grant'[g] = grant[g]
    BY <1>7 DEF DestroyGrant, GoneGrant
  <1> QED
    BY <1>1, <1>3, <1>4, <1>5, <1>6, <1>7, Writers DEF GrantsWritten

\* A policy that a grant rests on changes only with the grant deleted.
LEMMA PoliciesKept ==
  ASSUME Core, [Next]_vars, NEW r \in Resources, policy[r] = "SPECIAL", policy'[r] # "SPECIAL"
  PROVE  /\ \E w \in Workers, type \in {"BASIC", "SPECIAL"} : PutPolicy(w, r, type)
         /\ \A g \in DOMAIN grant' : grant'[g].live => grant'[g].resource # r
  <1>0. /\ policy \in [Resources -> {"BASIC", "SPECIAL"}] /\ 0 \notin Resources
        /\ \A g \in DOMAIN grant : grant[g] \in GrantRows
    BY CoreRows, TenancyAssumption DEF Core, GrantsFit
  <1>1. ASSUME NEW w \in Workers, NEW q \in Resources, NEW type \in {"BASIC", "SPECIAL"},
               PutPolicy(w, q, type)
        PROVE  /\ PutPolicy(w, r, type)
               /\ \A g \in DOMAIN grant' : grant'[g].live => grant'[g].resource # r
    <2>1. policy' = [policy EXCEPT ![q] = type] /\ grant' = Withdrawn(q, type)
      BY <1>1 DEF PutPolicy
    <2>2. q = r /\ type # "SPECIAL"
      BY <1>0, <2>1
    <2>3. grant' = [g \in DOMAIN grant |-> IF grant[g].resource = r THEN GoneGrant ELSE grant[g]]
      BY <2>1, <2>2 DEF Withdrawn
    <2> QED
      BY <1>0, <1>1, <2>2, <2>3 DEF GoneGrant
  <1>2. ASSUME NEW w \in Workers, ClearData(w) PROVE FALSE
    BY <1>2 DEF ClearData
  <1>3. ASSUME NEW w \in Workers, \/ DestroyUser(w) \/ DestroyRole(w) \/ DestroyDepartment(w)
                                  \/ CreateGrant(w) \/ \E g \in DOMAIN grant : DestroyGrant(w, g)
        PROVE  UNCHANGED policy
    BY <1>3 DEF DestroyUser, DestroyRole, DestroyDepartment, CreateGrant, DestroyGrant
  <1> QED
    BY <1>1, <1>2, <1>3, Writers DEF GrantsWritten

\* Grants stand where none is made.
LEMMA StandingStays ==
  ASSUME Core, Granting, [Next]_vars, \A w \in Workers : ~ CreateGrant(w)
  PROVE  Standing'
  <1> SUFFICES ASSUME NEW g \in DOMAIN grant', grant'[g].live
               PROVE  policy'[grant'[g].resource] = "SPECIAL" /\ Present(grant[g].subject)'
    BY DEF Standing, GrantStands
  <1>1. g \in DOMAIN grant /\ grant'[g] = grant[g]
    BY GrantsKept
  <1> DEFINE r == grant[g].resource
             s == grant[g].subject
  <1>2. r \in Resources /\ s \in Subjects
    BY <1>1 DEF Core, GrantsFit
  <1>3. policy[r] = "SPECIAL" /\ Present(s)
    BY <1>1 DEF Granting, Standing, GrantStands
  <1>4. policy'[r] = "SPECIAL"
    BY <1>1, <1>2, <1>3, PoliciesKept
  <1>5. ASSUME NEW q, q = s, ~ Present(q)' PROVE FALSE
    <2>0. q \in Subjects /\ Present(q)
      BY <1>2, <1>3, <1>5
    <2>1. ASSUME NEW w \in Workers, ClearData(w) PROVE FALSE
      BY <1>1, <2>1 DEF ClearData, GoneGrant
    <2>2. ASSUME NEW w \in Workers, DestroyUser(w), q = <<"user", job[w].id>> PROVE FALSE
      BY <1>1, <1>5, <2>2 DEF DestroyUser, Without, GoneGrant
    <2>3. ASSUME NEW w \in Workers, DestroyRole(w), q = <<"role", job[w].id>> PROVE FALSE
      BY <1>1, <1>5, <2>3 DEF DestroyRole, Without, GoneGrant
    <2>4. ASSUME NEW w \in Workers, DestroyDepartment(w),
                 q \in {<<"department", d>> : d \in Fallen(job[w].id)}
          PROVE  FALSE
      <3> DEFINE F == Fallen(job[w].id)
      <3>1. grant' = [h \in DOMAIN grant |->
                        IF grant[h].subject \in {<<"department", d>> : d \in F} THEN GoneGrant
                        ELSE grant[h]]
        BY <2>4 DEF DestroyDepartment
      <3> HIDE DEF F
      <3>2. grant'[g] = GoneGrant
        BY <1>1, <1>5, <2>4, <3>1 DEF F
      <3> QED
        BY <3>2 DEF GoneGrant
    <2> QED
      BY <1>5, <2>0, <2>1, <2>2, <2>3, <2>4, SubjectsStay
  <1>6. Present(grant[g].subject)'
    <2>1. PICK q : q = s
      OBVIOUS
    <2>2. Present(q)'
      BY <1>5, <2>1
    <2>3. q = grant'[g].subject
      BY <1>1, <2>1
    <2> QED
      BY <2>2, <2>3
  <1> QED
    BY <1>1, <1>4, <1>6

\* The grant that is made stands, and is the only one.
LEMMA GrantMade ==
  ASSUME Core, Granting, NEW w \in Workers, CreateGrant(w)
  PROVE  Standing' /\ Single'
  <1> DEFINE s == <<job[w].name, job[w].id>>
             e == [live |-> TRUE, resource |-> job[w].place, subject |-> s]
             n == Len(grant) + 1
  <1>1. /\ job[w].kind = "create_grant" /\ Present(s) /\ grant' = Append(grant, e)
        /\ UNCHANGED <<config, people, department, policy>>
    BY DEF CreateGrant
  <1>2. grant \in Seq(GrantRows) /\ Len(grant) \in Nat /\ DOMAIN grant = 1 .. Len(grant)
    BY CoreRows DEF Core, GrantsFit
  <1>3. policy[job[w].place] = "SPECIAL" /\ NoneSuch(job[w].place, s)
    BY <1>1 DEF Granting, AsksFit, AskFits
  <1>4. e.resource = job[w].place /\ e.subject = s
    OBVIOUS
  <1> HIDE DEF e
  <1>5. /\ DOMAIN grant' = DOMAIN grant \cup {n} /\ n \notin DOMAIN grant
        /\ \A g \in DOMAIN grant : grant'[g] = grant[g]
        /\ grant'[n] = e
    BY <1>1, <1>2
  <1> HIDE DEF n, s
  <1>6. \A q : Present(q)' <=> Present(q)
    BY <1>1 DEF Present, people
  <1>7. Standing'
    <2>1. ASSUME NEW g \in DOMAIN grant', grant'[g].live
          PROVE  policy'[grant'[g].resource] = "SPECIAL" /\ Present(grant'[g].subject)
      <3>1. CASE g = n
        BY <1>1, <1>3, <1>4, <1>5, <3>1
      <3>2. CASE g # n
        BY <1>1, <1>5, <2>1, <3>2 DEF Granting, Standing, GrantStands
      <3> QED
        BY <3>1, <3>2
    <2>2. ASSUME NEW g \in DOMAIN grant', grant'[g].live PROVE Present(grant[g].subject)'
      <3>1. Present(grant'[g].subject)
        BY <2>1, <2>2
      <3> QED
        BY <1>6, <3>1
    <2> QED
      BY <2>1, <2>2 DEF Standing, GrantStands
  <1>8. Single'
    <2>1. ASSUME NEW g \in DOMAIN grant, grant[g].live
          PROVE  <<grant[g].resource, grant[g].subject>> # <<e.resource, e.subject>>
      BY <1>3, <1>4, <2>1 DEF NoneSuch
    <2>2. Single
      BY DEF Granting
    <2>3. ASSUME NEW g \in DOMAIN grant', NEW h \in DOMAIN grant',
                 grant'[g].live, grant'[h].live, g # h
          PROVE  <<grant'[g].resource, grant'[g].subject>>
                   # <<grant'[h].resource, grant'[h].subject>>
      <3>1. CASE g = n
        BY <1>5, <2>1, <2>3, <3>1
      <3>2. CASE h = n
        BY <1>5, <2>1, <2>3, <3>2
      <3>3. CASE g # n /\ h # n
        BY <1>5, <2>2, <2>3, <3>3 DEF Single
      <3> QED
        BY <3>1, <3>2, <3>3
    <2> QED
      BY <2>3 DEF Single
  <1> QED
    BY <1>7, <1>8

\* Who asks for a grant still may.
LEMMA AsksStayFit ==
  ASSUME Core, Granting, [Next]_vars, {"put_policy", "create_grant"} \notin Racing
  PROVE  AsksFit'
  <1> SUFFICES ASSUME NEW w \in Workers, NEW t, t = job'[w], t.kind = "create_grant"
               PROVE  AskFits(t)'
    BY DEF AsksFit
  <1>0. job \in [Workers -> Tasks] /\ Named(job[w]) /\ Idle.kind = "idle"
    BY DEF Core, TasksFit, Idle
  <1>1. CASE t = job[w]
    <2>1. AskFits(t) /\ t.place \in Resources
      BY <1>0, <1>1 DEF Granting, AsksFit, Named
    <2>2. ASSUME NEW v \in Workers, CreateGrant(v) PROVE FALSE
      <3>1. job[v].kind = "create_grant" /\ job' = [job EXCEPT ![v] = Idle]
        BY <2>2 DEF CreateGrant, Done
      <3>2. v = w
        BY <1>1, <3>1 DEF Granting, Apart
      <3> QED
        BY <1>0, <3>1, <3>2
    <2>3. ASSUME NEW v \in Workers, NEW r, NEW type, PutPolicy(v, r, type) PROVE FALSE
      <3>1. job[v] = Idle /\ \A u \in Workers \ {v} : \/ job[u] = Idle
                                                      \/ {"put_policy", job[u].kind} \in Racing
        BY <2>3 DEF PutPolicy, MayStart
      <3> QED
        BY <1>0, <1>1, <3>1
    <2>4. policy'[t.place] = "SPECIAL"
      BY <2>1, <2>3, PoliciesKept DEF AskFits
    <2>5. NoneSuch(t.place, <<t.name, t.id>>)'
      BY <2>1, <2>2, GrantsKept DEF AskFits, NoneSuch
    <2> QED
      BY <2>4, <2>5 DEF AskFits
  <1>2. CASE t # job[w]
    <2>1. CASE \E v \in Workers : Done(v)
      BY <1>0, <1>2, <2>1 DEF Done
    <2>2. CASE UNCHANGED job
      BY <1>2, <2>2
    <2>3. ASSUME NEW v \in Workers, NEW s \in Tasks,
                 TakenUp(v, s) /\ LoadSteps(v, s) /\ UNCHANGED <<config, people, access>>
          PROVE  AskFits(t)'
      <3>1. t = s /\ UNCHANGED <<policy, grant>>
        BY <1>0, <1>2, <2>3 DEF TakenUp, access
      <3>2. PICK r \in Resources, q \in Subjects :
              LoadGrant(v, r, q) /\ t.place = r /\ <<t.name, t.id>> = q
        BY <2>3, <3>1 DEF LoadSteps
      <3>3. policy[r] = "SPECIAL" /\ NoneSuch(r, q)
        BY <3>2 DEF LoadGrant, NoneSuch
      <3> QED
        BY <3>1, <3>2, <3>3 DEF AskFits, NoneSuch
    <2> QED
      BY <2>1, <2>2, <2>3, Takings
  <1> QED
    BY <1>1, <1>2

\* There are no grants at first.
LEMMA GrantingInit == Init => Granting
  <1> SUFFICES ASSUME Init PROVE Granting
    OBVIOUS
  <1>1. DOMAIN grant = {}
    BY DEF Init
  <1>2. \A w \in Workers : job[w].kind = "idle"
    BY DEF Init, Idle
  <1> QED
    BY <1>1, <1>2 DEF Granting, Standing, Single, AsksFit, Apart

\* Those there are stand.
LEMMA GrantingNext ==
  ASSUME {"create_grant"} \notin Racing, {"put_policy", "create_grant"} \notin Racing
  PROVE  Core /\ Granting /\ [Next]_vars => Core' /\ Granting'
  <1> SUFFICES ASSUME Core, Granting, [Next]_vars PROVE Core' /\ Granting'
    OBVIOUS
  <1>1. Core'
    BY NextCore
  <1>2. Standing' /\ Single'
    <2>1. CASE \E w \in Workers : CreateGrant(w)
      BY <2>1, GrantMade
    <2>2. CASE \A w \in Workers : ~ CreateGrant(w)
      <3>1. Standing'
        BY <2>2, StandingStays
      <3>2. \A g \in DOMAIN grant' : grant'[g].live => g \in DOMAIN grant /\ grant'[g] = grant[g]
        BY <2>2, GrantsKept
      <3>3. Single'
        BY <3>2 DEF Granting, Single
      <3> QED
        BY <3>1, <3>3
    <2> QED
      BY <2>1, <2>2
  <1>3. AsksFit'
    BY AsksStayFit
  <1>4. Apart("create_grant", "create_grant")'
    <2>1. {"create_grant", "create_grant"} = {"create_grant"}
      OBVIOUS
    <2> QED
      BY <2>1, StaysApart DEF Granting
  <1> QED
    BY <1>1, <1>2, <1>3, <1>4 DEF Granting

\* A grant is of a special resource, to somebody who exists, and the only such grant, unless
\* a grant is made beside another one, or while the policy of its resource is set: a subject
\* that is deleted takes its grants along, and so does a resource that is no longer special.
THEOREM TenancyGrants ==
  ASSUME {"create_grant"} \notin Racing, {"put_policy", "create_grant"} \notin Racing
  PROVE  Spec => []GrantsStand
  <1>1. Init => Core /\ Granting
    BY InitCore, GrantingInit
  <1>2. Core /\ Granting /\ [Next]_vars => (Core /\ Granting)'
    BY GrantingNext
  <1>3. Granting => GrantsStand
    BY DEF Granting, Standing, Single, GrantStands, GrantsStand
  <1> QED
    BY <1>1, <1>2, <1>3, PTL DEF Spec

-----------------------------------------------------------------------------
(* The permissions of roles. *)

\* The codes a step leaves a role with.
LEMMA CodesWritten ==
  ASSUME Core, [Next]_vars, NEW r \in Roles'
  PROVE  \/ r \in Roles /\ role'[r].codes \in {role[r].codes, Expanded(role[r].codes)}
         \/ role'[r].codes \in {{}, EnabledCodes}
         \/ \E w \in Workers : \E codes : /\ job[w].kind \in {"create_role", "edit_role"}
                                          /\ role'[r].codes = Expanded(job[w].codes) \cup References(codes)
         \/ \E w \in Workers : job[w].kind = "login" /\ role'[r].codes = job[w].codes
         \/ ConfigWritten
  <1> DEFINE Claim ==
         \/ r \in Roles /\ role'[r].codes \in {role[r].codes, Expanded(role[r].codes)}
         \/ role'[r].codes \in {{}, EnabledCodes}
         \/ \E w \in Workers : \E codes : /\ job[w].kind \in {"create_role", "edit_role"}
                                          /\ role'[r].codes = Expanded(job[w].codes) \cup References(codes)
         \/ \E w \in Workers : job[w].kind = "login" /\ role'[r].codes = job[w].codes
         \/ ConfigWritten
  <1>0. /\ role \in Seq(RoleRows) /\ \A q \in Roles : role[q] \in RoleRows
        /\ Roles = 1 .. Len(role) /\ Len(role) \in Nat
    BY CoreRows DEF Core, RolesFit
  <1>1. CASE UNCHANGED role
    BY <1>1 DEF Roles
  <1>2. ASSUME NEW w \in Workers, NEW S \in SUBSET Modules, Apply(w, S) \/ Bind(w, S) PROVE Claim
    BY <1>2 DEF ConfigWritten
  <1>3. ASSUME NEW w \in Workers, RefreshAdmin(w) \/ SyncRoles(w) \/ ClearData(w) PROVE Claim
    <2>1. CASE RefreshAdmin(w)
      <3>1. EnsureAdmin(EnabledCodes)
        BY <2>1 DEF RefreshAdmin
      <3>2. \/ r \in Roles /\ role'[r] = role[r]
            \/ r \in Roles /\ role'[r] = [role[r] EXCEPT !.codes = EnabledCodes]
            \/ role'[r] = NewRole(EnabledCodes, TRUE)
        BY <3>1, EnsuredRoles
      <3>3. CASE r \in Roles /\ role'[r] = [role[r] EXCEPT !.codes = EnabledCodes]
        <4>1. role'[r].codes = EnabledCodes
          BY <1>0, <3>3 DEF RoleRows
        <4> QED
          BY <4>1
      <3>4. CASE role'[r] = NewRole(EnabledCodes, TRUE)
        BY <3>4 DEF NewRole
      <3>5. CASE r \in Roles /\ role'[r] = role[r]
        BY <3>5
      <3> QED
        BY <3>2, <3>3, <3>4, <3>5
    <2>2. CASE SyncRoles(w)
      <3>1. role' = [q \in Roles |->
                IF role[q].system THEN [role[q] EXCEPT !.codes = EnabledCodes]
                ELSE IF role[q].live /\ role[q].on
                     THEN [role[q] EXCEPT !.codes = Expanded(@)] ELSE role[q]]
        BY <2>2 DEF SyncRoles
      <3>2. r \in Roles
        BY <3>1 DEF Roles
      <3>3. role'[r] \in {[role[r] EXCEPT !.codes = EnabledCodes],
                          [role[r] EXCEPT !.codes = Expanded(@)], role[r]}
        BY <3>1, <3>2
      <3>4. role'[r].codes \in {EnabledCodes, Expanded(role[r].codes), role[r].codes}
        BY <1>0, <3>2, <3>3 DEF RoleRows
      <3> QED
        BY <3>2, <3>4
    <2>3. CASE ClearData(w)
      <3>1. role'[r] = GoneRole \/ role'[r] = NewRole(EnabledCodes, TRUE)
        BY <2>3, ClearedPeople
      <3> QED
        BY <3>1 DEF GoneRole, NewRole
    <2> QED
      BY <1>3, <2>1, <2>2, <2>3
  <1>5. ASSUME NEW w \in Workers, SaveLogin(w) PROVE Claim
    <2>1. Filled(job[w].id, job[w].codes) /\ job[w].kind = "login"
      BY <1>5 DEF SaveLogin
    <2>2. \/ r \in Roles /\ role'[r] = role[r]
          \/ r \in Roles /\ role'[r] = [role[r] EXCEPT !.codes = job[w].codes]
          \/ role'[r] = NewRole(job[w].codes, TRUE)
      BY <2>1, FilledRoles
    <2>3. CASE r \in Roles /\ role'[r] = [role[r] EXCEPT !.codes = job[w].codes]
      <3>1. role'[r].codes = job[w].codes
        BY <1>0, <2>3 DEF RoleRows
      <3> QED
        BY <2>1, <3>1
    <2>4. CASE role'[r] = NewRole(job[w].codes, TRUE)
      BY <2>1, <2>4 DEF NewRole
    <2>5. CASE r \in Roles /\ role'[r] = role[r]
      BY <2>5
    <2> QED
      BY <2>2, <2>3, <2>4, <2>5
  <1>6. ASSUME NEW w \in Workers, CreateRole(w) \/ UpdateRole(w) \/ DestroyRole(w) PROVE Claim
    <2>1. CASE CreateRole(w)
      <3> DEFINE codes == Expanded(job[w].codes)
                 e == [NewRole(codes, FALSE) EXCEPT !.on = job[w].on]
      <3>1. role' = Append(role, e) /\ job[w].kind = "create_role"
        BY <2>1 DEF CreateRole
      <3>2. e.codes = codes
        BY DEF NewRole
      <3>2a. codes = codes \cup References({})
        BY DEF References
      <3> HIDE DEF e, codes
      <3>3. (r \in Roles /\ role'[r] = role[r]) \/ role'[r] = e
        BY <1>0, <3>1 DEF Roles
      <3>4. (r \in Roles /\ role'[r] = role[r]) \/ role'[r].codes = codes \cup References({})
        BY <3>2, <3>2a, <3>3
      <3>5. CASE role'[r].codes = codes \cup References({})
        <4>1. role'[r].codes = Expanded(job[w].codes) \cup References({})
          BY <3>5 DEF codes
        <4> QED
          BY <3>1, <4>1
      <3>6. CASE r \in Roles /\ role'[r] = role[r]
        BY <3>6
      <3> QED
        BY <3>4, <3>5, <3>6
    <2>2. CASE UpdateRole(w)
      <3> DEFINE q == job[w].id
                 codes == Expanded(job[w].codes) \cup References(role[q].codes)
      <3>1. job[w].kind = "edit_role"
            /\ role' = [role EXCEPT ![q].on = job[w].on,
                                    ![q].codes = Expanded(job[w].codes) \cup References(@)]
        BY <2>2 DEF UpdateRole
      <3>2. r \in Roles
        BY <3>1 DEF Roles
      <3>3. role'[r] = IF r = q THEN [role[r] EXCEPT !.on = job[w].on, !.codes = codes] ELSE role[r]
        BY <1>0, <3>1, <3>2 DEF Roles, RoleRows
      <3> HIDE DEF q
      <3>4. role'[r].codes = IF r = q THEN codes ELSE role[r].codes
        BY <1>0, <3>2, <3>3 DEF RoleRows
      <3>5. CASE r = q
        <4>1. PICK kept : role'[r].codes = Expanded(job[w].codes) \cup References(kept)
          BY <3>4, <3>5
        <4> HIDE DEF codes
        <4>2. job[w].kind \in {"create_role", "edit_role"}
          BY <3>1
        <4> QED
          BY <4>1, <4>2
      <3>6. CASE r # q
        BY <3>2, <3>4, <3>6
      <3> QED
        BY <3>5, <3>6
    <2>3. CASE DestroyRole(w)
      <3>1. r \in Roles /\ (role'[r] = role[r] \/ role'[r] = GoneRole)
        BY <2>3 DEF DestroyRole, Roles
      <3> QED
        BY <3>1 DEF GoneRole
    <2> QED
      BY <1>6, <2>1, <2>2, <2>3
  <1>7. ASSUME NEW w \in Workers, CreateUser(w) \/ UpdateUser(w) \/ DestroyUser(w)
                                  \/ DestroyDepartment(w)
        PROVE  Claim
    BY <1>1, <1>7 DEF CreateUser, UpdateUser, DestroyUser, DestroyDepartment
  <1>8. ASSUME NEW w \in Workers, NEW v, NEW d, NEW on, MoveUser(w, v, d, on) PROVE Claim
    BY <1>1, <1>8 DEF MoveUser
  <1>9. CASE PeopleWritten
    <2>1. Claim
      <3> HIDE DEF Claim
      <3> QED
        BY <1>9, <1>2, <1>3, <1>5, <1>6, <1>7, <1>8 DEF PeopleWritten
    <2> QED
      BY <2>1
  <1> QED
    BY <1>1, <1>9, Writers DEF people

\* Where the permission of a module is among the codes, so are those it implies.
Follows(codes) ==
  \A m \in Modules : <<m, "use">> \in codes =>
    (Needs[m] \cap EnabledModules) \X {"reference"} \subseteq codes

Following ==
  {"apply", "bind", "toggle"} \cap requests = {} =>
    /\ \A r \in Roles : Follows(role[r].codes)
    /\ \A w \in Workers : job[w].kind = "login" => job[w].codes = EnabledCodes

\* Codes that are enabled follow, and codes with what they imply.
LEMMA FollowsSo ==
  /\ Follows({}) /\ Follows(EnabledCodes)
  /\ \A codes, kept : Follows(Expanded(codes) \cup References(kept))
  /\ \A codes : Follows(Expanded(codes))
  <1>1. Follows({})
    BY DEF Follows
  <1>2. Follows(EnabledCodes)
    BY DEF Follows, EnabledCodes, CodesOf
  <1>3. ASSUME NEW codes, NEW kept, NEW m \in Modules,
               <<m, "use">> \in Expanded(codes) \cup References(kept)
        PROVE  (Needs[m] \cap EnabledModules) \X {"reference"} \subseteq Expanded(codes)
    <2>1. <<m, "use">> \in codes
      <3>1. \A c \in References(kept) : c[2] = "reference"
        BY DEF References
      <3>2. \A c \in Expanded(codes) : c \in codes \/ c[2] = "reference"
        BY DEF Expanded
      <3>3. <<m, "use">>[2] = "use"
        OBVIOUS
      <3>4. <<m, "use">> \notin References(kept)
        BY <3>1, <3>3
      <3>5. <<m, "use">> \in Expanded(codes)
        BY <1>3, <3>4
      <3> QED
        BY <3>2, <3>3, <3>5
    <2>2. \A n \in Needs[m] : n \in UNION {Needs[c[1]] : c \in {d \in codes : d[2] = "use"}}
      <3>1. <<m, "use">> \in {d \in codes : d[2] = "use"} /\ <<m, "use">>[1] = m
        BY <2>1
      <3> QED
        BY <3>1
    <2>3. ASSUME NEW n \in Needs[m] \cap EnabledModules PROVE <<n, "reference">> \in Expanded(codes)
      <3>1. <<n, "reference">> \in EnabledCodes
        BY DEF EnabledCodes, CodesOf
      <3> QED
        BY <2>2, <3>1 DEF Expanded
    <2> QED
      BY <2>3
  <1>4. ASSUME NEW codes, NEW m \in Modules, <<m, "use">> \in Expanded(codes)
        PROVE  (Needs[m] \cap EnabledModules) \X {"reference"} \subseteq Expanded(codes)
    <2>1. <<m, "use">> \in Expanded(codes) \cup References({})
      BY <1>4
    <2> QED
      BY <1>3, <2>1
  <1> QED
    BY <1>1, <1>2, <1>3, <1>4 DEF Follows

\* The role of the administrator that Init makes follows.
LEMMA FollowingInit == Init => Following
  <1> SUFFICES ASSUME Init PROVE Following
    OBVIOUS
  <1>1. \A w \in Workers : job[w].kind = "idle"
    BY DEF Init, Idle
  <1>2. CASE role = << >>
    BY <1>1, <1>2 DEF Following, Roles
  <1>3. CASE role # << >>
    <2>1. /\ snapshot \in SUBSET Modules /\ switch = Switched(snapshot)
          /\ role = <<NewRole(CodesOf(snapshot), TRUE)>>
      BY <1>3 DEF Init
    <2>2. EnabledModules = snapshot
      BY <2>1 DEF EnabledModules, IsEnabled, Switched
    <2>3. NewRole(CodesOf(snapshot), TRUE).codes = EnabledCodes
      BY <2>2 DEF NewRole, EnabledCodes
    <2>4. \A r \in Roles : role[r].codes = EnabledCodes
      <3>1. PICK e : role = <<e>> /\ e.codes = EnabledCodes
        BY <2>1, <2>3
      <3> QED
        BY <3>1 DEF Roles
    <2> QED
      BY <1>1, <2>4, FollowsSo DEF Following
  <1> QED
    BY <1>2, <1>3

\* The configuration is written by requests that set it.
LEMMA ConfigStays ==
  ASSUME [Next]_vars, {"apply", "bind", "toggle"} \cap requests = {}
  PROVE  UNCHANGED config /\ EnabledModules' = EnabledModules /\ EnabledCodes' = EnabledCodes
  <1>1. ~ ConfigWritten
    BY DEF ConfigWritten, Apply, Bind, Toggle, MayStart
  <1>2. UNCHANGED config
    BY <1>1, Writers
  <1>3. EnabledModules' = EnabledModules
    BY <1>2 DEF EnabledModules, IsEnabled, config
  <1> QED
    BY <1>2, <1>3 DEF EnabledCodes

\* Roles follow whatever is written in them.
LEMMA FollowingNext == Core /\ Following /\ [Next]_vars => Core' /\ Following'
  <1> SUFFICES ASSUME Core, Following, [Next]_vars, {"apply", "bind", "toggle"} \cap requests = {}
               PROVE  /\ \A r \in Roles' : Follows(role[r].codes)'
                      /\ \A w \in Workers : job'[w].kind = "login" => job'[w].codes = EnabledCodes'
    BY NextCore, Writers DEF Following
  <1>0. /\ EnabledModules' = EnabledModules /\ EnabledCodes' = EnabledCodes
        /\ ~ ConfigWritten
    BY ConfigStays DEF ConfigWritten, Apply, Bind, Toggle, MayStart
  <1>1. \A r \in Roles : Follows(role[r].codes)
    BY DEF Following
  <1>2. \A w \in Workers : job[w].kind = "login" => job[w].codes = EnabledCodes
    BY DEF Following
  <1>3. ASSUME NEW r \in Roles' PROVE Follows(role[r].codes)'
    <2> DEFINE c == role'[r].codes
    <2>1. \/ r \in Roles /\ c \in {role[r].codes, Expanded(role[r].codes)}
          \/ c \in {{}, EnabledCodes}
          \/ \E codes, kept : c = Expanded(codes) \cup References(kept)
          \/ \E w \in Workers : job[w].kind = "login" /\ c = job[w].codes
      BY <1>0, CodesWritten
    <2> HIDE DEF c
    <2>2. Follows(c)
      BY <1>1, <1>2, <2>1, FollowsSo
    <2>3. Follows(role'[r].codes)
      BY <2>2 DEF c
    <2> QED
      BY <1>0, <2>3 DEF Follows
  <1>4. ASSUME NEW w \in Workers, job'[w].kind = "login" PROVE job'[w].codes = EnabledCodes
    <2>0. job \in [Workers -> Tasks] /\ Idle.kind = "idle"
      BY DEF Core, TasksFit, Idle
    <2>1. CASE job'[w] = job[w]
      BY <1>2, <1>4, <2>1
    <2>2. CASE \E v \in Workers : Done(v)
      BY <1>2, <1>4, <2>0, <2>2 DEF Done
    <2>3. ASSUME NEW v \in Workers, NEW t \in Tasks, TakenUp(v, t), LoadSteps(v, t)
          PROVE  job'[w].codes = EnabledCodes
      <3>1. job'[w] = IF w = v THEN t ELSE job[w]
        BY <2>0, <2>3 DEF TakenUp
      <3>2. t.kind = "login" => t.codes = EnabledCodes
        BY <2>3 DEF LoadSteps
      <3> QED
        BY <1>2, <1>4, <3>1, <3>2
    <2> QED
      BY <2>1, <2>2, <2>3, Takings
  <1> QED
    BY <1>0, <1>3, <1>4

\* While the configuration of the tenant stays, whoever has the permission of a module has
\* the reference permissions it implies, whatever roles are edited, filled, synchronised and
\* deleted meanwhile: every write of a role's permissions expands them.
THEOREM TenancyReferences == Spec => []ReferencesFollow
  <1>1. Init => Core /\ Following
    BY InitCore, FollowingInit
  <1>2. Core /\ Following /\ [Next]_vars => (Core /\ Following)'
    BY FollowingNext
  <1>3. Core /\ Following => ReferencesFollow
    <2> SUFFICES ASSUME Core, Following, {"apply", "bind", "toggle"} \cap requests = {},
                        NEW u \in Alive, NEW m \in Modules, <<m, "use">> \in Allowed(u),
                        NEW n \in Needs[m] \cap EnabledModules
                 PROVE  <<n, "reference">> \in Allowed(u)
      BY DEF ReferencesFollow
    <2>1. PICK r \in user[u].roles : role[r].on /\ <<m, "use">> \in role[r].codes
      BY DEF Allowed
    <2>2. r \in Roles
      BY DEF Core, UsersFit, Alive
    <2>3. <<n, "reference">> \in role[r].codes
      BY <2>1, <2>2 DEF Following, Follows
    <2>4. <<n, "reference">> \in EnabledCodes
      BY DEF EnabledCodes, CodesOf
    <2>5. role[r].codes \in {role[q].codes : q \in {p \in user[u].roles : role[p].on}}
      BY <2>1
    <2> QED
      BY <2>3, <2>4, <2>5 DEF Allowed
  <1> QED
    BY <1>1, <1>2, <1>3, PTL DEF Spec

-----------------------------------------------------------------------------
(* The configuration and the administrator's role. *)

\* The least of some numbers is one of them.
LEMMA LeastIn ==
  ASSUME NEW S \in SUBSET Nat, S # {}
  PROVE  Least(S) \in S
  <1> DEFINE T == {n \in Nat : \A i \in S : n <= i}
  <1>1. SUFFICES ASSUME ~ \E i \in S : \A j \in S : i <= j PROVE FALSE
    BY DEF Least
  <1>2. PICK N \in S : TRUE
    OBVIOUS
  <1>3. 0 \in T /\ N + 1 \in Nat
    OBVIOUS
  <1>4. ASSUME NEW n \in 0 .. (N + 1) - 1, n \in T PROVE n + 1 \in T
    <2>1. n \notin S
      BY <1>1, <1>4
    <2> QED
      BY <1>4, <2>1
  <1>5. 0 .. N + 1 \subseteq T
    <2> HIDE DEF T
    <2> QED
      BY <1>3, <1>4, CountUp
  <1>6. N + 1 \in T
    <2>1. N + 1 \in 0 .. N + 1
      BY <1>3
    <2> QED
      BY <1>5, <2>1
  <1> QED
    BY <1>2, <1>6

Systems == {r \in Roles : role[r].system}

\* There is one role of administrators, and somebody has it.
Administered ==
  /\ \A r \in Systems : role[r].live
  /\ \A q, r \in Systems : q = r
  /\ Systems # {} => SuperAdmins # {}

\* The switches follow the configuration, and the administrators' role follows them.
ConfigFollowed ==
  snapshot # {"none"} =>
    switch = Switched(snapshot) /\ \A r \in Systems : role[r].codes = EnabledCodes

\* What is under way keeps to it: no role of users is edited, and no administrator removed.
KeepsTo(t) ==
  /\ t.kind = "login" => t.codes = EnabledCodes /\ (user[t.id].live => t.id \in SuperAdmins)
  /\ t.kind = "destroy_user" => t.id \notin SuperAdmins
  /\ t.kind \in {"edit_role", "destroy_role"} => t.id \notin Systems
  /\ t.kind # "edit_user"

Applying ==
  {"toggle", "edit_user"} \cap requests = {} =>
    Administered /\ ConfigFollowed /\ \A w \in Workers : KeepsTo(job[w])

\* Roles of users are roles, and those of administrators are theirs.
LEMMA SystemRolesFit ==
  ASSUME Core
  PROVE  /\ \A u \in Users : SystemRoles(u) = user[u].roles \cap Systems
         /\ \A u \in Users : SystemRoles(u) \in SUBSET Nat
         /\ \A u \in Users : SystemRoles(u) # {} => Least(SystemRoles(u)) \in SystemRoles(u)
         /\ SuperAdmins \in SUBSET Nat
         /\ SuperAdmins # {} => Least(SuperAdmins) \in SuperAdmins
         /\ SuperAdmins = {u \in Users : user[u].live /\ user[u].roles \cap Systems # {}}
  <1>1. ASSUME NEW u \in Users PROVE SystemRoles(u) = user[u].roles \cap Systems
    <2>1. user[u].roles \subseteq Roles
      BY DEF Core, UsersFit
    <2> QED
      BY <2>1 DEF SystemRoles, Systems
  <1>2. ASSUME NEW u \in Users PROVE SystemRoles(u) \in SUBSET Nat
    BY <1>1, CoreRows DEF Systems
  <1>3. SuperAdmins \in SUBSET Nat
    BY CoreRows DEF SuperAdmins
  <1> QED
    BY <1>1, <1>2, <1>3, LeastIn DEF SuperAdmins

\* Administrators are the users with such a role.
HaveSystems == SuperAdmins = {u \in Users : user[u].live /\ user[u].roles \cap Systems # {}}

\* Core makes it so.
LEMMA AdminsAre == Core => HaveSystems
  BY SystemRolesFit DEF HaveSystems

\* Who has the role of administrators stays one, and no other role becomes it.
StaysAdministered ==
  /\ Systems' = Systems /\ \A r \in Systems : role'[r].live = role[r].live
  /\ SuperAdmins' \cap Users = SuperAdmins
  /\ \A u \in Users : user'[u].live => user[u].live

\* The permissions of the role stay or are those that are enabled.
StaysConfigured ==
  \/ \A r \in Systems : role'[r].codes = EnabledCodes'
  \/ /\ UNCHANGED config
     /\ \A r \in Systems : role'[r].codes \in {role[r].codes, EnabledCodes}

\* An administrator is made, with the role, where there is none left.
IsMade ==
  /\ \E r : /\ r \notin Roles /\ Systems' = {r} /\ role'[r].live
            /\ role'[r].codes = EnabledCodes'
  /\ SuperAdmins' # {} /\ SuperAdmins' \cap Users = {}
  /\ \A u \in Users : user'[u].live => user[u].live /\ u \notin SuperAdmins

\* The role is filled, of an administrator.
LEMMA FilledStays ==
  ASSUME Core, Core', Administered, NEW u \in SuperAdmins, NEW codes, Filled(u, codes)
  PROVE  StaysAdministered /\ \A r \in Systems : role'[r].codes = codes
  <1> DEFINE r == Least(SystemRoles(u))
  <1>1. r \in Systems /\ role' = [role EXCEPT ![r].codes = codes] /\ UNCHANGED user
    <2>1. u \in Users /\ SystemRoles(u) # {}
      BY DEF SuperAdmins
    <2> QED
      BY <2>1, SystemRolesFit DEF Filled
  <1>2. Systems = {r}
    BY <1>1 DEF Administered
  <1> HIDE DEF r
  <1>3. /\ Roles' = Roles /\ r \in Roles /\ \A q \in Roles : role[q] \in RoleRows
        /\ Users' = Users
    BY <1>1, CoreRows DEF Roles, Systems, Users
  <1>4. \A q \in Roles : q # r => role'[q] = role[q]
    BY <1>1, <1>3 DEF Roles
  <1>5. role'[r].codes = codes /\ role'[r].live = role[r].live /\ role'[r].system = role[r].system
    BY <1>1, <1>3 DEF Roles, RoleRows
  <1>6. Systems' = Systems
    BY <1>3, <1>4, <1>5 DEF Systems
  <1>7. SuperAdmins' = SuperAdmins
    <2>1. HaveSystems'
      BY AdminsAre, PTL
    <2> QED
      BY <1>1, <1>3, <1>6, <2>1, AdminsAre DEF HaveSystems
  <1>8. SuperAdmins \subseteq Users
    BY DEF SuperAdmins
  <1> QED
    BY <1>1, <1>2, <1>5, <1>6, <1>7, <1>8 DEF StaysAdministered

\* Users keep the roles of administrators that they have.
LEMMA SameAdmins ==
  ASSUME Core, Core', Users \subseteq Users', Systems' = Systems,
         \A u \in Users : /\ user'[u].roles \cap Systems = user[u].roles \cap Systems
                          /\ user'[u].live => user[u].live
                          /\ user[u].live => user'[u].live \/ u \notin SuperAdmins
  PROVE  SuperAdmins' \cap Users = SuperAdmins
  <1>1. HaveSystems'
    BY AdminsAre, PTL
  <1> QED
    BY <1>1, AdminsAre DEF HaveSystems

\* No role becomes one of administrators that was none.
LEMMA SameSystems ==
  ASSUME Core, Roles \subseteq Roles', \A r \in Roles : role'[r].system = role[r].system,
         \A r \in Roles' \ Roles : ~ role'[r].system
  PROVE  Systems' = Systems
  BY DEF Systems

\* An administrator is ensured.
LEMMA EnsuredApplies ==
  ASSUME Core, Core', Administered, NEW codes, codes = EnabledCodes', EnsureAdmin(codes)
  PROVE  (StaysAdministered /\ StaysConfigured) \/ IsMade
  <1>1. CASE SuperAdmins # {}
    <2>1. Least(SuperAdmins) \in SuperAdmins /\ Filled(Least(SuperAdmins), codes)
      BY <1>1, SystemRolesFit DEF EnsureAdmin
    <2>2. StaysAdministered /\ \A r \in Systems : role'[r].codes = codes
      BY <2>1, FilledStays
    <2> QED
      BY <2>2 DEF StaysConfigured
  <1>2. CASE SuperAdmins = {}
    <2> DEFINE e == NewRole(codes, TRUE)
               n == Len(role) + 1
               x == NewUser("admin", {n}, 0)
               m == Len(user) + 1
    <2>1. role' = Append(role, e) /\ user' = Append(user, x)
      BY <1>2 DEF EnsureAdmin
    <2>2. /\ role \in Seq(RoleRows) /\ Len(role) \in Nat /\ Roles = 1 .. Len(role)
          /\ user \in Seq(UserRows) /\ Len(user) \in Nat /\ Users = 1 .. Len(user)
      BY CoreRows DEF Core, UsersFit, RolesFit
    <2>3. e.live /\ e.system /\ e.codes = codes /\ x.live /\ x.roles = {n}
      BY DEF NewRole, NewUser
    <2> HIDE DEF e, x
    <2>4. Roles' = Roles \cup {n} /\ role'[n] = e /\ n \notin Roles
          /\ \A r \in Roles : role'[r] = role[r]
      BY <2>1, <2>2 DEF Roles
    <2>5. Users' = Users \cup {m} /\ user'[m] = x /\ m \notin Users
          /\ \A u \in Users : user'[u] = user[u]
      BY <2>1, <2>2 DEF Users
    <2> HIDE DEF n, m
    <2>6. Systems = {}
      BY <1>2 DEF Administered
    <2>7. Systems' = {n}
      BY <2>3, <2>4, <2>6 DEF Systems
    <2>8. HaveSystems'
      BY AdminsAre, PTL
    <2>9. \A u \in Users : user[u].roles \subseteq Roles
      BY DEF Core, UsersFit
    <2>10. SuperAdmins' = {m}
      BY <2>3, <2>4, <2>5, <2>7, <2>8, <2>9 DEF HaveSystems
    <2> QED
      BY <1>2, <2>3, <2>4, <2>5, <2>7, <2>10 DEF IsMade
  <1> QED
    BY <1>1, <1>2

\* The modules of a configuration that is copied are those that are enabled.
LEMMA MirroredEnables ==
  ASSUME NEW S \in SUBSET Modules, Mirrored(S)
  PROVE  EnabledModules' = S /\ EnabledCodes' = CodesOf(S)
  <1>1. EnabledModules' = S
    BY DEF Mirrored, EnabledModules, IsEnabled, Switched
  <1> QED
    BY <1>1 DEF EnabledCodes

\* The configuration is that of the latest version.
LEMMA ConfigMirrored ==
  ASSUME [Next]_vars, "toggle" \notin requests
  PROVE  \/ UNCHANGED config /\ EnabledCodes' = EnabledCodes
         \/ \E w \in Workers, S \in SUBSET Modules : Apply(w, S) \/ Bind(w, S)
  <1>1. UNCHANGED config => EnabledCodes' = EnabledCodes
    BY DEF EnabledCodes, EnabledModules, IsEnabled, config
  <1>2. \A w \in Workers, m \in Modules : ~ Toggle(w, m)
    BY DEF Toggle, MayStart
  <1> QED
    BY <1>1, <1>2, Writers DEF ConfigWritten

\* What the requests of the platform do to the administrators.
LEMMA PlatformApplies ==
  ASSUME Core, Core', Administered, NEW w \in Workers,
         \/ \E S \in SUBSET Modules : Apply(w, S) \/ Bind(w, S)
         \/ RefreshAdmin(w) \/ SyncRoles(w) \/ ClearData(w)
  PROVE  (StaysAdministered /\ StaysConfigured) \/ IsMade
  <1>1. ASSUME NEW S \in SUBSET Modules, Apply(w, S)
        PROVE  StaysAdministered /\ StaysConfigured
    <2>1. EnabledCodes' = CodesOf(S)
      BY <1>1, MirroredEnables DEF Apply
    <2>2. CASE SuperAdmins = {}
      <3>1. UNCHANGED <<role, user>> /\ Systems = {}
        BY <1>1, <2>2 DEF Apply, people, Administered
      <3>2. Systems' = Systems /\ Users' = Users
        BY <3>1 DEF Systems, Roles, Users
      <3>3. SuperAdmins' = SuperAdmins
        BY <3>1 DEF SuperAdmins, SystemRoles, Users
      <3> QED
        BY <2>2, <3>1, <3>2, <3>3 DEF StaysAdministered, StaysConfigured
    <2>3. CASE SuperAdmins # {}
      <3>1. Least(SuperAdmins) \in SuperAdmins /\ Filled(Least(SuperAdmins), CodesOf(S))
        BY <1>1, <2>3, SystemRolesFit DEF Apply
      <3>2. StaysAdministered /\ \A r \in Systems : role'[r].codes = CodesOf(S)
        BY <3>1, FilledStays
      <3> QED
        BY <2>1, <3>2 DEF StaysConfigured
    <2> QED
      BY <2>2, <2>3
  <1>2. ASSUME NEW S \in SUBSET Modules, Bind(w, S)
        PROVE  (StaysAdministered /\ StaysConfigured) \/ IsMade
    <2>1. EnabledCodes' = CodesOf(S)
      BY <1>2, MirroredEnables DEF Bind
    <2> QED
      BY <1>2, <2>1, EnsuredApplies DEF Bind
  <1>3. ASSUME RefreshAdmin(w) PROVE (StaysAdministered /\ StaysConfigured) \/ IsMade
    <2>1. UNCHANGED config /\ EnsureAdmin(EnabledCodes)
      BY <1>3 DEF RefreshAdmin
    <2>2. EnabledCodes' = EnabledCodes
      BY <2>1 DEF EnabledCodes, EnabledModules, IsEnabled, config
    <2>3. PICK codes : codes = EnabledCodes
      OBVIOUS
    <2> QED
      BY <2>1, <2>2, <2>3, EnsuredApplies
  <1>4. ASSUME SyncRoles(w) PROVE StaysAdministered /\ StaysConfigured
    <2>1. /\ UNCHANGED config /\ UNCHANGED user
          /\ role' = [r \in Roles |->
                IF role[r].system THEN [role[r] EXCEPT !.codes = EnabledCodes]
                ELSE IF role[r].live /\ role[r].on
                     THEN [role[r] EXCEPT !.codes = Expanded(@)] ELSE role[r]]
      BY <1>4 DEF SyncRoles
    <2>2. Roles' = Roles /\ Users' = Users
      BY <2>1 DEF Roles, Users
    <2>3. ASSUME NEW r \in Roles
          PROVE  /\ role'[r].system = role[r].system /\ role'[r].live = role[r].live
                 /\ role[r].system => role'[r].codes = EnabledCodes
      <3>1. role[r] \in RoleRows
        BY CoreRows
      <3> QED
        BY <2>1, <3>1 DEF RoleRows
    <2>4. Systems' = Systems
      BY <2>2, <2>3 DEF Systems
    <2>5. SuperAdmins' \cap Users = SuperAdmins
      BY <2>1, <2>2, <2>4, SameAdmins
    <2> QED
      BY <2>1, <2>2, <2>3, <2>4, <2>5 DEF StaysAdministered, StaysConfigured, Systems
  <1>5. ASSUME ClearData(w) PROVE IsMade
    <2> DEFINE n == Len(role) + 1
               m == Len(user) + 1
               e == NewRole(EnabledCodes, TRUE)
               x == NewUser("admin", {n}, 0)
    <2>1. /\ Users' = Users \cup {m} /\ Roles' = Roles \cup {n}
          /\ \A u \in Users : user'[u] = GoneUser
          /\ \A r \in Roles : role'[r] = GoneRole
          /\ user'[m] = x /\ role'[n] = e /\ m \notin Users /\ n \notin Roles
      BY <1>5, ClearedPeople
    <2>2. /\ e.live /\ e.system /\ e.codes = EnabledCodes /\ x.live /\ x.roles = {n}
          /\ ~ GoneUser.live /\ ~ GoneRole.system
      BY DEF NewRole, NewUser, GoneUser, GoneRole
    <2> HIDE DEF n, m, e, x
    <2>3. Systems' = {n}
      BY <2>1, <2>2 DEF Systems
    <2>4. HaveSystems'
      BY AdminsAre, PTL
    <2>5. SuperAdmins' = {m}
      BY <2>1, <2>2, <2>3, <2>4 DEF HaveSystems
    <2>6. EnabledCodes' = EnabledCodes
      BY <1>5 DEF ClearData, EnabledCodes, EnabledModules, IsEnabled, config
    <2> QED
      BY <2>1, <2>2, <2>3, <2>5, <2>6 DEF IsMade
  <1> QED
    BY <1>1, <1>2, <1>3, <1>4, <1>5

\* What those of users and roles do to them.
LEMMA PeopleApplies ==
  ASSUME Core, Core', Administered, NEW w \in Workers, KeepsTo(job[w]),
         \/ \E u \in Users, d \in Departments \cup {0}, on \in BOOLEAN : MoveUser(w, u, d, on)
         \/ SaveLogin(w) \/ CreateUser(w) \/ UpdateUser(w) \/ DestroyUser(w)
         \/ CreateRole(w) \/ UpdateRole(w) \/ DestroyRole(w) \/ DestroyDepartment(w)
  PROVE  StaysAdministered /\ StaysConfigured
  <1>0. /\ job[w] \in Tasks /\ Named(job[w])
        /\ role \in Seq(RoleRows) /\ Len(role) \in Nat /\ Roles = 1 .. Len(role)
        /\ user \in Seq(UserRows) /\ Len(user) \in Nat /\ Users = 1 .. Len(user)
        /\ \A u \in Users : user[u] \in UserRows
        /\ \A r \in Roles : role[r] \in RoleRows
    BY CoreRows DEF Core, UsersFit, RolesFit, TasksFit
  <1>0a. Systems \subseteq Roles /\ SuperAdmins \subseteq Users
    BY DEF Systems, SuperAdmins
  \* Roles stay, but for what an edit writes.
  <1>1. ASSUME UNCHANGED role, Users \subseteq Users', UNCHANGED config,
               \A u \in Users : /\ user'[u].roles = user[u].roles
                                /\ user'[u].live = user[u].live
        PROVE  StaysAdministered /\ StaysConfigured
    <2>1. Systems' = Systems
      BY <1>1 DEF Systems, Roles
    <2>2. SuperAdmins' \cap Users = SuperAdmins
      BY <1>1, <2>1, SameAdmins
    <2> QED
      BY <1>0a, <1>1, <2>1, <2>2 DEF StaysAdministered, StaysConfigured
  <1>2. ASSUME UNCHANGED user, Roles \subseteq Roles', UNCHANGED config,
               \A r \in Roles : /\ role'[r].system = role[r].system
                                /\ r \in Systems => role'[r] = role[r],
               \A r \in Roles' \ Roles : ~ role'[r].system
        PROVE  StaysAdministered /\ StaysConfigured
    <2>1. Systems' = Systems
      BY <1>2, SameSystems
    <2>2. SuperAdmins' \cap Users = SuperAdmins
      <3>1. Users' = Users
        BY <1>2 DEF Users
      <3> QED
        BY <1>2, <2>1, <3>1, SameAdmins
    <2> QED
      BY <1>0a, <1>2, <2>1, <2>2 DEF StaysAdministered, StaysConfigured
  <1>3. ASSUME NEW u \in Users, NEW d \in Departments \cup {0}, NEW on \in BOOLEAN,
               MoveUser(w, u, d, on)
        PROVE  StaysAdministered /\ StaysConfigured
    <2>1. /\ UNCHANGED role /\ UNCHANGED config
          /\ user' = [user EXCEPT ![u].place = d, ![u].on = on]
      BY <1>3 DEF MoveUser
    <2>2. Users \subseteq Users' /\ \A v \in Users : /\ user'[v].roles = user[v].roles
                                                     /\ user'[v].live = user[v].live
      BY <1>0, <2>1 DEF UserRows, Users
    <2> QED
      BY <1>1, <2>1, <2>2
  <1>4. CASE SaveLogin(w)
    <2>1. /\ job[w].kind = "login" /\ user[job[w].id].live /\ Filled(job[w].id, job[w].codes)
          /\ UNCHANGED config
      BY <1>4 DEF SaveLogin
    <2>2. job[w].id \in SuperAdmins /\ job[w].codes = EnabledCodes
      BY <2>1 DEF KeepsTo
    <2>3. StaysAdministered /\ \A r \in Systems : role'[r].codes = job[w].codes
      BY <2>1, <2>2, FilledStays
    <2> QED
      BY <2>1, <2>2, <2>3 DEF StaysConfigured
  <1>5. CASE CreateUser(w)
    <2> DEFINE x == NewUser(job[w].name, StillThere(job[w].roles), job[w].place)
    <2>1. user' = Append(user, x) /\ UNCHANGED role /\ UNCHANGED config
      BY <1>5 DEF CreateUser
    <2> HIDE DEF x
    <2>2. Users \subseteq Users' /\ \A v \in Users : user'[v] = user[v]
      BY <1>0, <2>1 DEF Users
    <2> QED
      BY <1>1, <2>1, <2>2
  <1>6. CASE UpdateUser(w)
    BY <1>6 DEF UpdateUser, KeepsTo
  <1>7. CASE DestroyUser(w)
    <2>1. /\ job[w].kind = "destroy_user" /\ user' = [user EXCEPT ![job[w].id] = GoneUser]
          /\ UNCHANGED role /\ UNCHANGED config
      BY <1>7 DEF DestroyUser
    <2>2. job[w].id \in Users /\ job[w].id \notin SuperAdmins
      BY <1>0, <2>1 DEF Named, KeepsTo
    <2>3. Systems' = Systems
      BY <2>1 DEF Systems, Roles
    <2>4. /\ Users' = Users /\ \A u \in Users : u # job[w].id => user'[u] = user[u]
          /\ ~ user'[job[w].id].live
      BY <2>1, <2>2 DEF Users, GoneUser
    <2>5. HaveSystems'
      BY AdminsAre, PTL
    <2>6. SuperAdmins' = SuperAdmins
      BY <2>2, <2>3, <2>4, <2>5, AdminsAre DEF HaveSystems
    <2> QED
      BY <1>0a, <2>1, <2>3, <2>4, <2>6 DEF StaysAdministered, StaysConfigured
  <1>8. CASE CreateRole(w)
    <2> DEFINE e == [NewRole(Expanded(job[w].codes), FALSE) EXCEPT !.on = job[w].on]
    <2>1. role' = Append(role, e) /\ UNCHANGED user /\ UNCHANGED config
      BY <1>8 DEF CreateRole
    <2>2. ~ e.system
      BY DEF NewRole
    <2> HIDE DEF e
    <2>3. Roles' = Roles \cup {Len(role) + 1} /\ role'[Len(role) + 1] = e
          /\ \A r \in Roles : role'[r] = role[r]
      BY <1>0, <2>1 DEF Roles
    <2> QED
      BY <1>2, <2>1, <2>2, <2>3
  <1>9. CASE UpdateRole(w)
    <2> DEFINE r == job[w].id
    <2>1. /\ job[w].kind = "edit_role" /\ UNCHANGED user /\ UNCHANGED config
          /\ role' = [role EXCEPT ![r].on = job[w].on,
                                  ![r].codes = Expanded(job[w].codes) \cup References(@)]
      BY <1>9 DEF UpdateRole
    <2>2. r \in Roles /\ r \notin Systems
      BY <1>0, <2>1 DEF Named, KeepsTo
    <2> HIDE DEF r
    <2>3. Roles' = Roles /\ \A q \in Roles : q # r => role'[q] = role[q]
      BY <2>1 DEF Roles
    <2>4. role'[r].system = role[r].system
      BY <1>0, <2>1, <2>2 DEF RoleRows, Roles
    <2> QED
      BY <1>2, <2>1, <2>2, <2>3, <2>4
  <1>10. CASE DestroyRole(w)
    <2> DEFINE r == job[w].id
    <2>1. /\ job[w].kind = "destroy_role" /\ UNCHANGED config
          /\ role' = [role EXCEPT ![r] = GoneRole]
          /\ user' = [u \in Users |-> [user[u] EXCEPT !.roles = @ \ {r}]]
      BY <1>10 DEF DestroyRole
    <2>2. r \in Roles /\ r \notin Systems
      BY <1>0, <2>1 DEF Named, KeepsTo
    <2> HIDE DEF r
    <2>3. /\ Roles' = Roles /\ \A q \in Roles : q # r => role'[q] = role[q]
          /\ ~ role'[r].system
      BY <2>1, <2>2 DEF Roles, GoneRole
    <2>4. Systems' = Systems
      BY <2>2, <2>3 DEF Systems
    <2>5. /\ Users' = Users
          /\ \A u \in Users : user'[u].roles = user[u].roles \ {r} /\ user'[u].live = user[u].live
      BY <1>0, <2>1 DEF UserRows, Users
    <2>6. SuperAdmins' \cap Users = SuperAdmins
      BY <2>2, <2>4, <2>5, SameAdmins
    <2> QED
      BY <1>0a, <2>1, <2>2, <2>3, <2>4, <2>5, <2>6 DEF StaysAdministered, StaysConfigured
  <1>11. CASE DestroyDepartment(w)
    <2> DEFINE F == Fallen(job[w].id)
    <2>1. /\ UNCHANGED role /\ UNCHANGED config
          /\ user' = [u \in Users |-> IF user[u].place \in F THEN [user[u] EXCEPT !.place = 0]
                                      ELSE user[u]]
      BY <1>11 DEF DestroyDepartment
    <2> HIDE DEF F
    <2>2. Users \subseteq Users' /\ \A v \in Users : /\ user'[v].roles = user[v].roles
                                                     /\ user'[v].live = user[v].live
      BY <1>0, <2>1 DEF UserRows, Users
    <2> QED
      BY <1>1, <2>1, <2>2
  <1> QED
    BY <1>3, <1>4, <1>5, <1>6, <1>7, <1>8, <1>9, <1>10, <1>11

\* What any step does to them.
LEMMA StepApplies ==
  ASSUME Core, Core', Administered, \A w \in Workers : KeepsTo(job[w]), [Next]_vars,
         "toggle" \notin requests
  PROVE  (StaysAdministered /\ StaysConfigured) \/ IsMade
  <1>1. CASE UNCHANGED people /\ UNCHANGED config
    <2>1. UNCHANGED role /\ UNCHANGED user
      BY <1>1 DEF people
    <2>2. Systems' = Systems /\ SuperAdmins' = SuperAdmins
      BY <2>1 DEF Systems, Roles, SuperAdmins, SystemRoles, Users
    <2> QED
      BY <1>1, <2>1, <2>2 DEF StaysAdministered, StaysConfigured, SuperAdmins
  <1>2. CASE \E w \in Workers, S \in SUBSET Modules : Apply(w, S) \/ Bind(w, S)
    BY <1>2, PlatformApplies
  <1>3. CASE PeopleWritten
    <2>1. PICK w \in Workers :
            \/ \E S \in SUBSET Modules : Apply(w, S) \/ Bind(w, S)
            \/ RefreshAdmin(w) \/ SyncRoles(w) \/ ClearData(w)
            \/ \E u \in Users, d \in Departments \cup {0}, on \in BOOLEAN : MoveUser(w, u, d, on)
            \/ SaveLogin(w) \/ CreateUser(w) \/ UpdateUser(w) \/ DestroyUser(w)
            \/ CreateRole(w) \/ UpdateRole(w) \/ DestroyRole(w) \/ DestroyDepartment(w)
      BY <1>3 DEF PeopleWritten
    <2> QED
      BY <2>1, PlatformApplies, PeopleApplies
  <1> QED
    BY <1>1, <1>2, <1>3, Writers, ConfigMirrored

\* Requests that are under way keep to it.
LEMMA KeepsToStays ==
  ASSUME Core, NEW t, Named(t), KeepsTo(t), StaysAdministered \/ IsMade,
         t.kind = "login" => EnabledCodes' = EnabledCodes
  PROVE  KeepsTo(t)'
  <1>1. \A u \in Users : user'[u].live => user[u].live
    BY DEF StaysAdministered, IsMade
  <1>2. ASSUME t.kind = "login", user'[t.id].live PROVE t.id \in SuperAdmins'
    <2>1. t.id \in Users
      BY <1>2 DEF Named
    <2>2. t.id \in SuperAdmins
      BY <1>1, <1>2, <2>1 DEF KeepsTo
    <2> QED
      BY <1>2, <2>1, <2>2 DEF StaysAdministered, IsMade
  <1>3. ASSUME t.kind = "destroy_user" PROVE t.id \notin SuperAdmins'
    BY <1>3 DEF Named, KeepsTo, StaysAdministered, IsMade
  <1>4. ASSUME t.kind \in {"edit_role", "destroy_role"} PROVE t.id \notin Systems'
    BY <1>4 DEF Named, KeepsTo, StaysAdministered, IsMade
  <1> QED
    BY <1>2, <1>3, <1>4 DEF KeepsTo

\* A request that is taken up keeps to it.
LEMMA KeepsToTaken ==
  ASSUME Core, NEW w, NEW t, TakenUp(w, t), LoadSteps(w, t), UNCHANGED <<config, people, access>>,
         "edit_user" \notin requests
  PROVE  KeepsTo(t)'
  <1>1. EnabledCodes' = EnabledCodes /\ SuperAdmins' = SuperAdmins /\ Systems' = Systems
    BY DEF EnabledCodes, EnabledModules, IsEnabled, SuperAdmins, Systems, SystemRoles, Users,
           Roles, config, people
  <1>2. t.kind # "edit_user"
    BY DEF TakenUp, MayStart
  <1>3. t.kind = "login" => t.codes = EnabledCodes /\ t.id \in SuperAdmins
    BY DEF LoadSteps, LoadLogin
  <1>4. t.kind = "destroy_user" => t.id \notin SuperAdmins
    BY DEF LoadSteps, LoadRemoval
  <1>5. t.kind \in {"edit_role", "destroy_role"} => t.id \notin Systems
    BY DEF LoadSteps, LoadRoleRemoval, Systems
  <1> QED
    BY <1>1, <1>2, <1>3, <1>4, <1>5 DEF KeepsTo

\* An administrator is there from the start, or none.
LEMMA ApplyingInit == Init => Applying
  <1> SUFFICES ASSUME Init PROVE Administered /\ ConfigFollowed /\ \A w \in Workers : KeepsTo(job[w])
    BY DEF Applying
  <1>1. \A w \in Workers : KeepsTo(job[w])
    <2>1. \A w \in Workers : job[w].kind = "idle"
      BY DEF Init, Idle
    <2> QED
      BY <2>1 DEF KeepsTo
  <1>2. CASE snapshot = {"none"} /\ role = << >>
    <2>1. Systems = {}
      BY <1>2 DEF Systems, Roles
    <2> QED
      BY <1>1, <1>2, <2>1 DEF Administered, ConfigFollowed
  <1>3. CASE /\ snapshot \in SUBSET Modules /\ switch = Switched(snapshot)
             /\ role = <<NewRole(CodesOf(snapshot), TRUE)>>
             /\ user = <<NewUser("admin", {1}, 0)>>
    <2> DEFINE e == NewRole(CodesOf(snapshot), TRUE)
               x == NewUser("admin", {1}, 0)
    <2>1. switch = Switched(snapshot) /\ role = <<e>> /\ user = <<x>>
      BY <1>3
    <2>2. EnabledCodes = CodesOf(snapshot)
      BY <1>3, <2>1 DEF EnabledCodes, EnabledModules, IsEnabled, Switched
    <2>3. e.live /\ e.system /\ e.codes = EnabledCodes /\ x.live /\ x.roles = {1}
      BY <2>2 DEF NewRole, NewUser
    <2> HIDE DEF e, x
    <2>4. Roles = {1} /\ role[1] = e /\ Users = {1} /\ user[1] = x
      BY <2>1 DEF Roles, Users
    <2>5. Systems = {1} /\ SystemRoles(1) = {1}
      BY <2>3, <2>4 DEF Systems, SystemRoles
    <2>6. SuperAdmins = {1}
      BY <2>3, <2>4, <2>5 DEF SuperAdmins
    <2> QED
      BY <1>1, <2>1, <2>3, <2>4, <2>5, <2>6 DEF Administered, ConfigFollowed
  <1> QED
    BY <1>2, <1>3 DEF Init

\* The configuration stays applied.
LEMMA ApplyingNext ==
  ASSUME {"login", "apply"} \notin Racing, {"login", "bind"} \notin Racing
  PROVE  Core /\ Applying /\ [Next]_vars => Core' /\ Applying'
  <1> SUFFICES ASSUME Core, Applying, [Next]_vars, {"toggle", "edit_user"} \cap requests = {}
               PROVE  Administered' /\ ConfigFollowed' /\ \A w \in Workers : KeepsTo(job[w])'
    BY NextCore, Writers DEF Applying
  <1>0. /\ Core' /\ Administered /\ ConfigFollowed /\ \A w \in Workers : KeepsTo(job[w])
        /\ "toggle" \notin requests /\ "edit_user" \notin requests
        /\ job \in [Workers -> Tasks] /\ Idle.kind = "idle"
    BY NextCore DEF Applying, Core, TasksFit, Idle
  <1>1. (StaysAdministered /\ StaysConfigured) \/ IsMade
    BY <1>0, StepApplies
  <1>2. Administered'
    <2>1. CASE StaysAdministered
      BY <1>0, <2>1 DEF StaysAdministered, Administered
    <2>2. CASE IsMade
      BY <2>2 DEF IsMade, Administered
    <2> QED
      BY <1>1, <2>1, <2>2
  <1>3. ConfigFollowed'
    <2>1. snapshot' # {"none"} => switch' = Switched(snapshot)'
      <3>1. CASE UNCHANGED config
        BY <1>0, <3>1 DEF ConfigFollowed, Switched, config
      <3>2. ASSUME NEW w \in Workers, NEW S \in SUBSET Modules, Apply(w, S) \/ Bind(w, S)
            PROVE  switch' = Switched(snapshot)'
        <4>1. Mirrored(S)
          BY <3>2 DEF Apply, Bind
        <4> QED
          BY <4>1 DEF Mirrored, Switched
      <3> QED
        BY <1>0, <3>1, <3>2, ConfigMirrored
    <2>2. ASSUME snapshot' # {"none"}, NEW r \in Systems' PROVE role'[r].codes = EnabledCodes'
      <3>1. CASE IsMade
        BY <2>2, <3>1 DEF IsMade
      <3>2. CASE StaysAdministered /\ StaysConfigured
        <4>1. r \in Systems
          BY <2>2, <3>2 DEF StaysAdministered
        <4>2. CASE \A q \in Systems : role'[q].codes = EnabledCodes'
          BY <4>1, <4>2
        <4>3. CASE /\ UNCHANGED config
                   /\ \A q \in Systems : role'[q].codes \in {role[q].codes, EnabledCodes}
          <5>1. snapshot # {"none"} /\ EnabledCodes' = EnabledCodes
            BY <2>2, <4>3 DEF EnabledCodes, EnabledModules, IsEnabled, config
          <5>2. role[r].codes = EnabledCodes
            BY <1>0, <4>1, <5>1 DEF ConfigFollowed
          <5> QED
            BY <4>1, <4>3, <5>1, <5>2
        <4> QED
          BY <3>2, <4>2, <4>3 DEF StaysConfigured
      <3> QED
        BY <1>1, <3>1, <3>2
    <2> QED
      BY <2>1, <2>2 DEF ConfigFollowed
  <1>4. ASSUME NEW w \in Workers, NEW t, t = job'[w] PROVE KeepsTo(t)'
    <2>1. CASE t = job[w]
      <3>1. Named(t) /\ KeepsTo(t)
        BY <1>0, <2>1 DEF Core, TasksFit
      <3>2. t.kind = "login" => EnabledCodes' = EnabledCodes
        <4>1. ASSUME t.kind = "login", NEW v \in Workers, NEW S \in SUBSET Modules,
                     Apply(v, S) \/ Bind(v, S)
              PROVE  FALSE
          <5>1. PICK kind \in {"apply", "bind"} : MayStart(v, kind)
            BY <4>1 DEF Apply, Bind
          <5>2. job[w] = Idle \/ {kind, "login"} \in Racing
            BY <2>1, <4>1, <5>1 DEF MayStart
          <5>3. {kind, "login"} = {"login", "apply"} \/ {kind, "login"} = {"login", "bind"}
            BY <5>1
          <5> QED
            BY <1>0, <2>1, <4>1, <5>2, <5>3
        <4> QED
          BY <1>0, <4>1, ConfigMirrored
      <3> QED
        BY <1>1, <3>1, <3>2, KeepsToStays
    <2>2. CASE t # job[w]
      <3>1. CASE \E v \in Workers : Done(v)
        <4>1. t.kind = "idle"
          BY <1>0, <1>4, <2>2, <3>1 DEF Done
        <4> QED
          BY <4>1 DEF KeepsTo
      <3>2. CASE UNCHANGED job
        BY <1>4, <2>2, <3>2
      <3>3. ASSUME NEW v \in Workers, NEW s \in Tasks,
                   TakenUp(v, s) /\ LoadSteps(v, s) /\ UNCHANGED <<config, people, access>>
            PROVE  KeepsTo(t)'
        <4>1. t = s
          BY <1>0, <1>4, <2>2, <3>3 DEF TakenUp
        <4> QED
          BY <1>0, <3>3, <4>1, KeepsToTaken
      <3> QED
        BY <3>1, <3>2, <3>3, Takings
    <2> QED
      BY <2>1, <2>2
  <1> QED
    BY <1>2, <1>3, <1>4

\* Once a configuration is applied the modules that are enabled are its own, and the role of
\* the super administrator holds exactly their permissions: unless a module is switched or
\* a user's roles are edited by hand, or a login that has loaded the permissions saves them
\* after another version was applied or bound.
THEOREM TenancyConfigured ==
  ASSUME {"login", "apply"} \notin Racing, {"login", "bind"} \notin Racing
  PROVE  Spec => []ConfigurationApplied
  <1>1. Init => Core /\ Applying
    BY InitCore, ApplyingInit
  <1>2. Core /\ Applying /\ [Next]_vars => (Core /\ Applying)'
    BY ApplyingNext
  <1>3. Core /\ Applying => ConfigurationApplied
    <2> SUFFICES ASSUME Core, Administered, ConfigFollowed, snapshot # {"none"}
                 PROVE  /\ EnabledModules = snapshot
                        /\ SuperAdmins # {} =>
                             role[Least(SystemRoles(Least(SuperAdmins)))].codes = EnabledCodes
      BY DEF Applying, ConfigurationApplied
    <2>1. snapshot \subseteq Modules /\ switch = Switched(snapshot)
      BY DEF Core, ConfigFits, ConfigFollowed
    <2>2. EnabledModules = snapshot
      BY <2>1 DEF EnabledModules, IsEnabled, Switched
    <2>3. ASSUME SuperAdmins # {}
          PROVE  Least(SystemRoles(Least(SuperAdmins))) \in Systems
      <3> DEFINE u == Least(SuperAdmins)
      <3>1. u \in SuperAdmins
        BY <2>3, SystemRolesFit
      <3>2. u \in Users /\ SystemRoles(u) # {}
        BY <3>1 DEF SuperAdmins
      <3> HIDE DEF u
      <3>3. Least(SystemRoles(u)) \in Systems
        BY <3>2, SystemRolesFit
      <3> QED
        BY <3>3 DEF u
    <2> QED
      BY <2>2, <2>3 DEF ConfigFollowed
  <1> QED
    BY <1>1, <1>2, <1>3, PTL DEF Spec

-----------------------------------------------------------------------------
(* Blueprints: what is always so. *)

NormalConfigs == {Normalised(c) : c \in UNION {some.configs : some \in Trials}}
Configurations == NormalConfigs \cup {NoConfig}

VersionRows == [live : BOOLEAN, number : Nat, config : Configurations, published : BOOLEAN]
TenantRows == [status : Statuses \cup {"ACTIVE", "deleted"}, config : Configurations,
               from : SUBSET Nat]
JobRows(P) == [kind : {"create_saas", "export"}, version : Nat, tenant : Nat,
               config : Configurations, retry : Nat, package : P]
RequestKinds == {"idle", "create", "clone", "publish", "edit", "saved", "create_saas", "export",
                 "apply"}
Requested == [kind : RequestKinds, id : Nat, config : Configurations, number : Nat,
              publish : BOOLEAN, others : SUBSET Nat, tenant : Nat, retry : Nat]

\* A version that is there has a configuration that was validated.
VersionsFit ==
  /\ version \in Seq(VersionRows)
  /\ \A v \in Versions : Live(v) => version[v].config \in NormalConfigs

\* A tenant keeps the versions it came from.
TenantsFit ==
  /\ tenant \in Seq(TenantRows)
  /\ \A t \in Tenants : tenant[t].from \subseteq LiveVersions

\* A job keeps its version, and was valid for what it generated.
JobsFit ==
  /\ \E P : generated \in Seq(JobRows(P))
  /\ \A j \in Jobs : /\ generated[j].version \in LiveVersions
                     /\ generated[j].config \in NormalConfigs
                     /\ Generable(generated[j].config, ModeOf(generated[j].kind))

\* What a request under way knows.
Knows(r) ==
  /\ r.kind # "idle" => r.config \in NormalConfigs
  /\ r.kind \in {"publish", "edit", "saved", "create_saas", "export", "apply"} =>
       r.id \in Versions
  /\ r.kind \in {"create_saas", "apply"} => r.tenant \in {0} \cup Tenants
  /\ r.kind \in {"create_saas", "export"} => Generable(r.config, ModeOf(r.kind))
  /\ r.kind = "apply" => "apply" \in mix.kinds

RequestsFit ==
  serving \in [Threads -> Requested] /\ \A w \in Threads : Knows(serving[w])

Fits == mix \in Trials /\ VersionsFit /\ TenantsFit /\ JobsFit /\ RequestsFit

\* The rows, one by one.
LEMMA FittingRows ==
  ASSUME Fits
  PROVE  /\ Versions = 1 .. Len(version) /\ Len(version) \in Nat
         /\ Tenants = 1 .. Len(tenant) /\ Len(tenant) \in Nat
         /\ Jobs = 1 .. Len(generated) /\ Len(generated) \in Nat
         /\ \A v \in Versions : version[v] \in VersionRows
         /\ \A t \in Tenants : tenant[t] \in TenantRows
         /\ \A j \in Jobs : \E P : generated[j] \in JobRows(P)
         /\ \A w \in Threads : serving[w] \in Requested /\ Knows(serving[w])
  BY RowNumbers DEF Fits, VersionsFit, TenantsFit, JobsFit, RequestsFit, Versions, Tenants, Jobs

\* A configuration that was validated keeps its mode, and none of its features lacks a module.
LEMMA NormalisedFields ==
  ASSUME NEW c, c = [mode |-> c.mode, modules |-> c.modules, features |-> c.features,
                     complete |-> c.complete]
  PROVE  LET n == Normalised(c)
         IN  /\ n = [mode |-> n.mode, modules |-> n.modules, features |-> n.features,
                     complete |-> n.complete]
             /\ n.mode = c.mode /\ n.complete = c.complete
             /\ n.modules = c.modules \cup {"system"}
             /\ n.features = {f \in c.features : NeededBy(f) \subseteq n.modules}
  <1>1. PICK m, S, F, ready :
          c = [mode |-> m, modules |-> S, features |-> F, complete |-> ready]
    OBVIOUS
  <1>2. c.mode = m /\ c.modules = S /\ c.features = F /\ c.complete = ready
    BY <1>1
  <1> DEFINE all == S \cup {"system"}
             kept == {f \in F : NeededBy(f) \subseteq all}
  <1>3. Normalised(c) = [c EXCEPT !.modules = all, !.features = kept]
    BY <1>2 DEF Normalised
  <1> HIDE DEF all, kept
  <1>4. [c EXCEPT !.modules = all, !.features = kept] =
          [[c EXCEPT !.modules = all] EXCEPT !.features = kept]
    OBVIOUS
  <1>5. PICK d : d = [c EXCEPT !.modules = all]
    OBVIOUS
  <1>6. d = [mode |-> m, modules |-> all, features |-> F, complete |-> ready]
    BY <1>1, <1>5
  <1>7. [d EXCEPT !.features = kept] =
          [mode |-> m, modules |-> all, features |-> kept, complete |-> ready]
    BY <1>6
  <1>8. Normalised(c) = [mode |-> m, modules |-> all, features |-> kept, complete |-> ready]
    BY <1>3, <1>4, <1>5, <1>7
  <1> QED
    BY <1>2, <1>8 DEF all, kept

\* To validate again changes nothing.
LEMMA NormalisedOnce ==
  ASSUME NEW c \in NormalConfigs
  PROVE  /\ Normalised(c) = c
         /\ \A f \in c.features : NeededBy(f) \subseteq c.modules
  <1>1. PICK d \in UNION {some.configs : some \in Trials} : c = Normalised(d)
    BY DEF NormalConfigs
  <1>2. d = [mode |-> d.mode, modules |-> d.modules, features |-> d.features,
             complete |-> d.complete]
    BY <1>1, BlueprintsAssumption
  <1>3. /\ c = [mode |-> c.mode, modules |-> c.modules, features |-> c.features,
                complete |-> c.complete]
        /\ c.modules = d.modules \cup {"system"}
        /\ c.features = {f \in d.features : NeededBy(f) \subseteq c.modules}
    BY <1>1, <1>2, NormalisedFields
  <1>4. c.modules = c.modules \cup {"system"}
    BY <1>3
  <1>5. \A f \in c.features : NeededBy(f) \subseteq c.modules
    BY <1>3
  <1> DEFINE n == Normalised(c)
  <1>6. /\ n = [mode |-> n.mode, modules |-> n.modules, features |-> n.features,
                complete |-> n.complete]
        /\ n.mode = c.mode /\ n.complete = c.complete
        /\ n.modules = c.modules \cup {"system"}
        /\ n.features = {f \in c.features : NeededBy(f) \subseteq n.modules}
    BY <1>3, NormalisedFields
  <1> HIDE DEF n
  <1>7. n.modules = c.modules
    BY <1>4, <1>6
  <1>8. n.features = c.features
    BY <1>5, <1>6, <1>7
  <1>9. n = c
    BY <1>3, <1>6, <1>7, <1>8
  <1> QED
    BY <1>5, <1>9 DEF n

\* No step changes what was loaded when the program started.
LEMMA LoadedOnce == [BlueprintsNext]_blueprintsVars => UNCHANGED loaded
  <1>1. ASSUME UNCHANGED blueprintsVars PROVE UNCHANGED loaded
    BY <1>1 DEF blueprintsVars
  <1>2. ASSUME NEW w \in Threads, VersionStep(w) PROVE UNCHANGED loaded
    BY <1>2, Zenon DEF VersionStep, Create, Clone, LoadNew, LoadEdit, LoadPublish,
       DestroyVersion, InsertVersion, PublishVersion, SaveEdit, Republish
  <1>3. ASSUME NEW w \in Threads, GenerationStep(w) PROVE UNCHANGED loaded
    BY <1>3, Zenon DEF GenerationStep, LoadGeneration, LoadRetry, LoadApply, CreateSaas,
       ExportCode, ApplyVersion, SetStatus, DestroyTenant, Refuse
  <1> QED
    BY <1>1, <1>2, <1>3 DEF BlueprintsNext

\* Rows are made, and none is lost.
RowsStay == UNCHANGED loaded /\ Versions \subseteq Versions' /\ Tenants \subseteq Tenants'

\* What a request knows stays so.
LEMMA KnownStays ==
  ASSUME RowsStay, NEW r, Knows(r)
  PROVE  Knows(r)'
  BY DEF RowsStay, Knows, Generable, loaded

\* A thread that serves nothing knows nothing.
LEMMA NothingRequested == NoRequest \in Requested /\ Knows(NoRequest) /\ Knows(NoRequest)'
  BY DEF NoRequest, Requested, RequestKinds, Configurations, Knows

\* A thread takes up a request, or goes on with it.
LEMMA RequestTaken ==
  ASSUME Fits, RowsStay, NEW w \in Threads, NEW r \in Requested, Knows(r)', Take(w, r)
  PROVE  RequestsFit'
  <1>1. serving' \in [Threads -> Requested]
    BY DEF Fits, RequestsFit, Take
  <1>2. ASSUME NEW v \in Threads PROVE Knows(serving[v])'
    <2>1. PICK s : s = serving'[v]
      OBVIOUS
    <2>2. s = r \/ s = serving[v]
      BY <2>1 DEF Fits, RequestsFit, Take
    <2>3. Knows(s)'
      BY <2>2, KnownStays DEF Fits, RequestsFit
    <2> QED
      BY <2>1, <2>3
  <1> QED
    BY <1>1, <1>2 DEF RequestsFit

\* Nobody takes up another request.
LEMMA RequestsStand ==
  ASSUME Fits, RowsStay, UNCHANGED serving
  PROVE  RequestsFit'
  <1>1. ASSUME NEW v \in Threads PROVE Knows(serving[v])'
    <2>1. PICK s : s = serving[v]
      OBVIOUS
    <2>2. Knows(s)'
      BY <2>1, KnownStays DEF Fits, RequestsFit
    <2> QED
      BY <2>1, <2>2
  <1> QED
    BY <1>1 DEF RequestsFit, Fits

\* Where only a request moves on, everything fits.
LEMMA OnlyRequested ==
  ASSUME Fits, NEW w \in Threads, NEW r \in Requested, Knows(r), Take(w, r),
         UNCHANGED <<loaded, version, tenant, generated>>
  PROVE  Fits'
  <1>1. RowsStay
    BY DEF RowsStay, Versions, Tenants
  <1>2. RequestsFit'
    BY <1>1, KnownStays, RequestTaken
  <1>3. LiveVersions' = LiveVersions
    BY DEF LiveVersions, Live, Versions
  <1> QED
    BY <1>2, <1>3 DEF Fits, VersionsFit, TenantsFit, JobsFit, loaded, Versions, Tenants, Jobs,
       Live, Generable

\* The largest of the live versions is one of them.
LEMMA LastLive ==
  ASSUME Fits, LiveVersions # {}
  PROVE  Max(LiveVersions) \in LiveVersions
  <1>1. LiveVersions \subseteq 1 .. Len(version) /\ Len(version) \in Nat
    BY FittingRows DEF LiveVersions
  <1>2. IsFiniteSet(1 .. Len(version))
    BY <1>1, FS_Interval
  <1>3. IsFiniteSet(LiveVersions) /\ AreNumbers(LiveVersions)
    <2>1. IsFiniteSet(LiveVersions)
      BY <1>1, <1>2, FS_Subset
    <2>2. AreNumbers(LiveVersions)
      BY <1>1 DEF AreNumbers
    <2> QED
      BY <2>1, <2>2
  <1>4. PICK x \in LiveVersions : \A y \in LiveVersions : y <= x
    BY <1>3, LargestOf
  <1>5. \A y \in LiveVersions : x >= y
    BY <1>1, <1>4
  <1> QED
    BY <1>4, <1>5 DEF Max

\* The next number is one.
LEMMA NextIsNumber == ASSUME Fits PROVE NextNumber \in Nat
  <1>1. CASE LiveVersions = {}
    BY <1>1 DEF NextNumber
  <1>2. CASE LiveVersions # {}
    <2>1. PICK v \in Versions : v = Max(LiveVersions)
      BY <1>2, LastLive DEF LiveVersions
    <2>2. version[v].number \in Nat
      BY FittingRows DEF VersionRows
    <2> QED
      BY <1>2, <2>1, <2>2 DEF NextNumber
  <1> QED
    BY <1>1, <1>2

\* The requests to make and to edit a version, as they are taken up.
Making(kind, c, number, publish, others) ==
  [NoRequest EXCEPT !.kind = kind, !.config = c, !.number = number, !.publish = publish,
                    !.others = others]

Editing(v, c, number, publish) ==
  [NoRequest EXCEPT !.kind = "edit", !.id = v, !.config = c, !.number = number,
                    !.publish = publish]

\* The request to make one.
LEMMA NewFields ==
  ASSUME NEW kind \in RequestKinds, NEW c \in Configurations, NEW number \in Nat,
         NEW publish \in BOOLEAN, NEW others \in SUBSET Nat, NEW r,
         r = Making(kind, c, number, publish, others)
  PROVE  /\ r \in Requested /\ r.kind = kind /\ r.config = c /\ r.number = number
         /\ r.publish = publish /\ r.others = others
  BY NothingRequested DEF Requested, Making

\* The request to edit one.
LEMMA EditFields ==
  ASSUME NEW v \in Nat, NEW c \in Configurations, NEW number \in Nat, NEW publish \in BOOLEAN,
         NEW r, r = Editing(v, c, number, publish)
  PROVE  /\ r \in Requested /\ r.kind = "edit" /\ r.id = v /\ r.config = c
         /\ r.number = number /\ r.publish = publish
  BY NothingRequested DEF Requested, RequestKinds, Editing

\* The request to publish one.
LEMMA PublishingFields ==
  ASSUME Fits, NEW v \in Nat, NEW c \in Configurations, NEW r, r = Publishing(v, c)
  PROVE  /\ r \in Requested /\ r.kind = "publish" /\ r.id = v /\ r.config = c
         /\ r.others = Published \ {v}
  <1>1. Published \ {v} \in SUBSET Nat
    BY FittingRows DEF Published, LiveVersions
  <1> QED
    BY <1>1, NothingRequested DEF Requested, RequestKinds, Publishing

\* The request to generate from one.
LEMMA GenerationFields ==
  ASSUME NEW kind \in {"create_saas", "export", "apply"}, NEW v \in Nat, NEW t \in Nat,
         NEW retry \in Nat, Normalised(version[v].config) \in Configurations,
         NEW r, r = Generation(kind, v, t, retry)
  PROVE  /\ r \in Requested /\ r.kind = kind /\ r.id = v /\ r.tenant = t
         /\ r.config = Normalised(version[v].config) /\ r.retry = retry
  BY NothingRequested DEF Requested, RequestKinds, Generation

\* What is made is of a configuration that was validated.
LEMMA NewFits ==
  ASSUME Fits, NEW w \in Threads, NEW kind \in {"create", "clone"}, NEW c,
         Normalised(c) \in NormalConfigs, NEW number \in Nat, NEW publish \in BOOLEAN,
         LoadNew(w, kind, c, number, publish)
  PROVE  Fits'
  <1>1. PICK others : others = IF publish THEN Published ELSE {}
    OBVIOUS
  <1>2. PICK r : r = Making(kind, Normalised(c), number, publish, others)
    OBVIOUS
  <1>3. Take(w, r) /\ UNCHANGED <<loaded, version, tenant, generated>>
    BY <1>1, <1>2 DEF LoadNew, Making
  <1>4. /\ kind \in RequestKinds /\ Normalised(c) \in Configurations
        /\ others \in SUBSET Nat
    BY <1>1, FittingRows DEF RequestKinds, Configurations, Published, LiveVersions
  <1>5. r \in Requested /\ r.kind = kind /\ r.config = Normalised(c)
    BY <1>2, <1>4, NewFields
  <1>6. Knows(r)
    BY <1>5 DEF Knows
  <1> QED
    BY <1>3, <1>5, <1>6, OnlyRequested

\* A version that is asked for.
LEMMA CreateFits ==
  ASSUME Fits, NEW w \in Threads, NEW c \in mix.configs, NEW number \in {NextNumber} \cup Labels,
         NEW publish \in BOOLEAN, Create(w, c, number, publish)
  PROVE  Fits'
  <1>1. Normalised(c) \in NormalConfigs
    BY DEF Fits, NormalConfigs
  <1>2. number \in Nat
    BY NextIsNumber, BlueprintsAssumption
  <1> QED
    BY <1>1, <1>2, NewFits DEF Create

\* A copy that is asked for.
LEMMA CloneFits ==
  ASSUME Fits, NEW w \in Threads, NEW v \in Versions, NEW number \in {NextNumber} \cup Labels,
         Clone(w, v, number)
  PROVE  Fits'
  <1>1. version[v].config \in NormalConfigs
    BY DEF Fits, VersionsFit, Clone
  <1>2. Normalised(version[v].config) \in NormalConfigs
    BY <1>1, NormalisedOnce
  <1>3. number \in Nat
    BY NextIsNumber, BlueprintsAssumption
  <1> QED
    BY <1>2, <1>3, NewFits DEF Clone

\* An edit that is asked for.
LEMMA EditFits ==
  ASSUME Fits, NEW w \in Threads, NEW v \in Versions, NEW c \in mix.configs,
         NEW number \in {version[v].number} \cup Labels, NEW publish \in BOOLEAN,
         LoadEdit(w, v, c, number, publish)
  PROVE  Fits'
  <1>1. Normalised(c) \in NormalConfigs /\ Normalised(c) \in Configurations
    BY DEF Fits, NormalConfigs, Configurations
  <1>2. number \in Nat /\ v \in Nat
    BY FittingRows, BlueprintsAssumption DEF VersionRows
  <1>3. PICK r : r = Editing(v, Normalised(c), number, publish)
    OBVIOUS
  <1>4. Take(w, r) /\ UNCHANGED <<loaded, version, tenant, generated>>
    BY <1>3 DEF LoadEdit, Editing
  <1>5. r \in Requested /\ r.kind = "edit" /\ r.id = v /\ r.config = Normalised(c)
    BY <1>1, <1>2, <1>3, EditFields
  <1>6. Knows(r)
    BY <1>1, <1>5 DEF Knows
  <1> QED
    BY <1>4, <1>5, <1>6, OnlyRequested

\* A publication that is asked for.
LEMMA PublishingFits ==
  ASSUME Fits, NEW w \in Threads, NEW v \in Versions, NEW c \in NormalConfigs,
         Take(w, Publishing(v, c)), UNCHANGED <<loaded, version, tenant, generated>>
  PROVE  Fits'
  <1>1. PICK r : r = Publishing(v, c)
    OBVIOUS
  <1>2. r \in Requested /\ r.kind = "publish" /\ r.id = v /\ r.config = c
    BY <1>1, FittingRows, PublishingFields DEF Configurations
  <1>3. Knows(r)
    BY <1>2 DEF Knows
  <1> QED
    BY <1>1, <1>2, <1>3, OnlyRequested

\* A request that is over.
LEMMA AnsweredFits ==
  ASSUME Fits, NEW w \in Threads, Answered(w), UNCHANGED <<loaded, version, tenant, generated>>
  PROVE  Fits'
  BY NothingRequested, OnlyRequested DEF Answered

\* An edit that goes on to publish.
LEMMA RepublishFits ==
  ASSUME Fits, NEW w \in Threads, Republish(w)
  PROVE  Fits'
  <1>1. serving[w].id \in Versions /\ serving[w].config \in NormalConfigs
    BY FittingRows DEF Republish, Knows
  <1> QED
    BY <1>1, PublishingFits, AnsweredFits DEF Republish

\* A generation that is asked for.
LEMMA GenerationFits ==
  ASSUME Fits, NEW w \in Threads, NEW kind \in {"create_saas", "export", "apply"},
         NEW v \in Versions, NEW t \in {0} \cup Tenants, NEW retry \in Nat, Live(v),
         kind \in {"create_saas", "export"} =>
           Generable(Normalised(version[v].config), ModeOf(kind)),
         kind = "apply" => "apply" \in mix.kinds,
         Take(w, Generation(kind, v, t, retry)),
         UNCHANGED <<loaded, version, tenant, generated>>
  PROVE  Fits'
  <1>1. Normalised(version[v].config) \in NormalConfigs
    BY NormalisedOnce DEF Fits, VersionsFit
  <1>2. v \in Nat /\ t \in Nat /\ Normalised(version[v].config) \in Configurations
    BY <1>1, FittingRows DEF Configurations
  <1>3. PICK r : r = Generation(kind, v, t, retry)
    OBVIOUS
  <1>4. /\ r \in Requested /\ r.kind = kind /\ r.id = v /\ r.tenant = t
        /\ r.config = Normalised(version[v].config) /\ r.retry = retry
    BY <1>2, <1>3, GenerationFields
  <1>5. Knows(r)
    BY <1>1, <1>4 DEF Knows
  <1> QED
    BY <1>3, <1>4, <1>5, OnlyRequested

\* Where versions are written and what is referred to stays live, everything fits.
LEMMA VersionsWritten ==
  ASSUME Fits, UNCHANGED <<loaded, tenant, generated>>, Versions \subseteq Versions',
         VersionsFit', \A v \in LiveVersions : v \in Referenced => v \in LiveVersions',
         RequestsFit'
  PROVE  Fits'
  <1>1. \A t \in Tenants : tenant[t].from \subseteq Referenced
    BY DEF Referenced
  <1>2. \A j \in Jobs : generated[j].version \in Referenced
    BY DEF Referenced
  <1>3. TenantsFit'
    BY <1>1 DEF Fits, TenantsFit, Tenants
  <1>4. JobsFit'
    BY <1>2 DEF Fits, JobsFit, Jobs, Generable, loaded
  <1> QED
    BY <1>3, <1>4 DEF Fits, loaded

\* The rows of versions that are unpublished are otherwise the same.
LEMMA UnpublishedRows ==
  ASSUME Fits, NEW others
  PROVE  /\ Unpublished(others) \in Seq(VersionRows)
         /\ Len(Unpublished(others)) = Len(version)
         /\ DOMAIN Unpublished(others) = Versions
         /\ \A v \in Versions :
              /\ Unpublished(others)[v] \in VersionRows
              /\ Unpublished(others)[v].live = version[v].live
              /\ Unpublished(others)[v].config = version[v].config
              /\ Unpublished(others)[v].published = (version[v].published /\ v \notin others)
  <1> DEFINE u == Unpublished(others)
  <1>1. ASSUME NEW v \in Versions
        PROVE  /\ u[v] \in VersionRows /\ u[v].live = version[v].live
               /\ u[v].config = version[v].config
               /\ u[v].published = (version[v].published /\ v \notin others)
    <2>1. version[v] \in VersionRows
      BY FittingRows
    <2>2. u[v] = IF v \in others THEN [version[v] EXCEPT !.published = FALSE] ELSE version[v]
      BY DEF Unpublished
    <2> HIDE DEF u
    <2> QED
      BY <2>1, <2>2 DEF VersionRows
  <1>2. u \in [DOMAIN version -> VersionRows]
    BY <1>1 DEF Unpublished, Versions
  <1>3. version \in Seq(VersionRows)
    BY DEF Fits, VersionsFit
  <1> HIDE DEF u
  <1>4. u \in Seq(VersionRows) /\ Len(u) = Len(version) /\ DOMAIN u = DOMAIN version
    BY <1>2, <1>3, RowsKept
  <1> QED
    BY <1>1, <1>4 DEF u, Versions

\* What an insertion leaves.
LEMMA InsertedRows ==
  ASSUME Fits, NEW w \in Threads, InsertVersion(w)
  PROVE  /\ version' \in Seq(VersionRows) /\ Versions' = Versions \cup {Len(version) + 1}
         /\ Len(version) + 1 \notin Versions
         /\ \A v \in Versions :
              /\ version'[v].live = version[v].live
              /\ version'[v].config = version[v].config
              /\ version'[v].published =
                   (version[v].published /\ v \notin serving[w].others)
         /\ version'[Len(version) + 1].live
         /\ version'[Len(version) + 1].config = serving[w].config
         /\ version'[Len(version) + 1].published = serving[w].publish
  <1> DEFINE u == Unpublished(serving[w].others)
             e == [live |-> TRUE, number |-> serving[w].number, config |-> serving[w].config,
                   published |-> serving[w].publish]
  <1>1. version' = Append(u, e)
    BY DEF InsertVersion
  <1>2. e \in VersionRows
    BY FittingRows DEF VersionRows, Requested
  <1>3. e.live /\ e.config = serving[w].config /\ e.published = serving[w].publish
    OBVIOUS
  <1>4. /\ u \in Seq(VersionRows) /\ Len(u) = Len(version) /\ DOMAIN u = Versions
        /\ \A v \in Versions :
             /\ u[v].live = version[v].live /\ u[v].config = version[v].config
             /\ u[v].published = (version[v].published /\ v \notin serving[w].others)
    BY UnpublishedRows
  <1> HIDE DEF u, e
  <1>5. /\ version' \in Seq(VersionRows) /\ DOMAIN version' = DOMAIN u \cup {Len(u) + 1}
        /\ \A v \in DOMAIN u : version'[v] = u[v]
        /\ version'[Len(u) + 1] = e
    BY <1>1, <1>2, <1>4, RowMade
  <1>6. Len(version) + 1 \notin Versions
    BY FittingRows
  <1> QED
    BY <1>3, <1>4, <1>5, <1>6 DEF Versions

\* A version is inserted.
LEMMA InsertFits ==
  ASSUME Fits, NEW w \in Threads, InsertVersion(w)
  PROVE  Fits'
  <1>1. /\ version' \in Seq(VersionRows) /\ Versions' = Versions \cup {Len(version) + 1}
        /\ \A v \in Versions : /\ version'[v].live = version[v].live
                               /\ version'[v].config = version[v].config
        /\ version'[Len(version) + 1].config = serving[w].config
    BY InsertedRows
  <1>2. serving[w].config \in NormalConfigs
    BY FittingRows DEF InsertVersion, Knows
  <1>3. VersionsFit'
    BY <1>1, <1>2 DEF VersionsFit, Fits, Live
  <1>4. \A v \in LiveVersions : v \in LiveVersions'
    BY <1>1 DEF LiveVersions, Live
  <1>5. UNCHANGED <<loaded, tenant, generated>> /\ Answered(w)
    BY DEF InsertVersion
  <1>6. RowsStay
    BY <1>1, <1>5 DEF RowsStay, Tenants
  <1>7. RequestsFit'
    BY <1>5, <1>6, NothingRequested, RequestTaken DEF Answered
  <1> QED
    BY <1>1, <1>3, <1>4, <1>5, <1>7, VersionsWritten

\* What publishing leaves.
LEMMA PublishedRows ==
  ASSUME Fits, NEW w \in Threads, PublishVersion(w)
  PROVE  /\ version' \in Seq(VersionRows) /\ Versions' = Versions
         /\ serving[w].id \in Versions
         /\ \A v \in Versions :
              /\ version'[v].live = version[v].live
              /\ version'[v].config = version[v].config
              /\ v # serving[w].id => version'[v].published =
                   (version[v].published /\ v \notin serving[w].others)
  <1>1. PICK u : u = Unpublished(serving[w].others)
    OBVIOUS
  <1>2. serving[w].id \in Versions
    BY FittingRows DEF PublishVersion, Knows
  <1>3. version' = [u EXCEPT ![serving[w].id].published = TRUE]
    BY <1>1 DEF PublishVersion
  <1>4. /\ u \in Seq(VersionRows) /\ DOMAIN u = Versions
        /\ \A v \in Versions :
             /\ u[v] \in VersionRows
             /\ u[v].live = version[v].live /\ u[v].config = version[v].config
             /\ u[v].published = (version[v].published /\ v \notin serving[w].others)
    BY <1>1, UnpublishedRows
  <1>5. PICK e : e = [u[serving[w].id] EXCEPT !.published = TRUE]
    OBVIOUS
  <1>6. e \in VersionRows /\ e.live = u[serving[w].id].live
        /\ e.config = u[serving[w].id].config
    BY <1>2, <1>4, <1>5 DEF VersionRows
  <1>7. u \in [DOMAIN u -> VersionRows]
    BY <1>4, RowNumbers
  <1>8. /\ version' \in [DOMAIN u -> VersionRows]
        /\ \A v \in DOMAIN u : version'[v] = IF v = serving[w].id THEN e ELSE u[v]
    BY <1>2, <1>3, <1>4, <1>5, <1>6, <1>7
  <1>9. version' \in Seq(VersionRows) /\ DOMAIN version' = DOMAIN u
    BY <1>4, <1>8, RowsKept
  <1> QED
    BY <1>2, <1>4, <1>6, <1>8, <1>9 DEF Versions

\* A version is published.
LEMMA PublishFits ==
  ASSUME Fits, NEW w \in Threads, PublishVersion(w)
  PROVE  Fits'
  <1>1. /\ version' \in Seq(VersionRows) /\ Versions' = Versions
        /\ \A v \in Versions : /\ version'[v].live = version[v].live
                               /\ version'[v].config = version[v].config
    BY PublishedRows
  <1>2. VersionsFit'
    BY <1>1 DEF VersionsFit, Fits, Live
  <1>3. \A v \in LiveVersions : v \in LiveVersions'
    BY <1>1 DEF LiveVersions, Live
  <1>4. UNCHANGED <<loaded, tenant, generated>> /\ Answered(w)
    BY DEF PublishVersion
  <1>5. RowsStay
    BY <1>1, <1>4 DEF RowsStay, Tenants
  <1>6. RequestsFit'
    BY <1>4, <1>5, NothingRequested, RequestTaken DEF Answered
  <1> QED
    BY <1>1, <1>2, <1>3, <1>4, <1>6, VersionsWritten

\* What the save of an edit leaves.
LEMMA EditedRows ==
  ASSUME Fits, NEW w \in Threads, SaveEdit(w)
  PROVE  /\ version' \in Seq(VersionRows) /\ Versions' = Versions
         /\ serving[w].id \in Versions
         /\ \A v \in Versions \ {serving[w].id} : version'[v] = version[v]
         /\ version'[serving[w].id].live
         /\ version'[serving[w].id].config = serving[w].config
         /\ version'[serving[w].id].published = serving[w].publish
  <1>1. PICK e : e = [live |-> TRUE, number |-> serving[w].number, config |-> serving[w].config,
                      published |-> serving[w].publish]
    OBVIOUS
  <1>2. /\ e \in VersionRows /\ e.live /\ e.config = serving[w].config
        /\ e.published = serving[w].publish
    BY <1>1, FittingRows DEF VersionRows, Requested
  <1>3. serving[w].id \in Versions
    BY FittingRows DEF SaveEdit, Knows
  <1>4. version' = [version EXCEPT ![serving[w].id] = e]
    BY <1>1 DEF SaveEdit
  <1>5. version \in Seq(VersionRows) /\ version \in [DOMAIN version -> VersionRows]
    BY RowNumbers DEF Fits, VersionsFit
  <1>6. /\ version' \in [DOMAIN version -> VersionRows]
        /\ \A v \in DOMAIN version : version'[v] = IF v = serving[w].id THEN e ELSE version[v]
    BY <1>2, <1>4, <1>5
  <1>7. version' \in Seq(VersionRows) /\ DOMAIN version' = DOMAIN version
    BY <1>5, <1>6, RowsKept
  <1> QED
    BY <1>2, <1>3, <1>6, <1>7 DEF Versions

\* The request of an edit that is saved and goes on.
LEMMA SavedFields ==
  ASSUME NEW s \in Requested, NEW r, r = [s EXCEPT !.kind = "saved"]
  PROVE  /\ r \in Requested /\ r.kind = "saved" /\ r.id = s.id /\ r.config = s.config
         /\ r.publish = s.publish
  BY DEF Requested, RequestKinds

\* An edit is saved.
LEMMA SaveFits ==
  ASSUME Fits, NEW w \in Threads, SaveEdit(w)
  PROVE  Fits'
  <1>1. /\ version' \in Seq(VersionRows) /\ Versions' = Versions
        /\ serving[w].id \in Versions
        /\ \A v \in Versions \ {serving[w].id} : version'[v] = version[v]
        /\ version'[serving[w].id].live
        /\ version'[serving[w].id].config = serving[w].config
    BY EditedRows
  <1>2. serving[w] \in Requested /\ serving[w].config \in NormalConfigs
    BY FittingRows DEF SaveEdit, Knows
  <1>3. VersionsFit'
    BY <1>1, <1>2 DEF VersionsFit, Fits, Live
  <1>4. \A v \in LiveVersions : v \in LiveVersions'
    BY <1>1 DEF LiveVersions, Live
  <1>5. UNCHANGED <<loaded, tenant, generated>>
    BY DEF SaveEdit
  <1>6. RowsStay
    BY <1>1, <1>5 DEF RowsStay, Tenants
  <1>7. CASE Answered(w)
    BY <1>7, <1>6, <1>1, <1>3, <1>4, <1>5, NothingRequested, RequestTaken, VersionsWritten
      DEF Answered
  <1>8. CASE ~ Answered(w)
    <2>1. PICK r : r = [serving[w] EXCEPT !.kind = "saved"]
      OBVIOUS
    <2>2. Take(w, r)
      BY <1>8, <2>1 DEF SaveEdit
    <2>3. /\ r \in Requested /\ r.kind = "saved" /\ r.id = serving[w].id
          /\ r.config = serving[w].config
      BY <1>2, <2>1, SavedFields
    <2>4. Knows(r)
      BY <1>1, <1>2, <2>3 DEF Knows
    <2>5. Knows(r)'
      BY <1>6, <2>4, KnownStays
    <2> QED
      BY <1>1, <1>3, <1>4, <1>5, <1>6, <2>2, <2>3, <2>5, RequestTaken, VersionsWritten
  <1> QED
    BY <1>7, <1>8

\* What the deletion of a version leaves.
LEMMA DestroyedRows ==
  ASSUME Fits, NEW w \in Threads, NEW d \in Versions, DestroyVersion(w, d)
  PROVE  /\ version' \in Seq(VersionRows) /\ Versions' = Versions
         /\ \A v \in Versions \ {d} : version'[v] = version[v]
         /\ ~ version'[d].live /\ version'[d].config = NoConfig /\ d \notin Referenced
  <1>1. PICK e : e = [live |-> FALSE, number |-> 0, config |-> NoConfig, published |-> FALSE]
    OBVIOUS
  <1>2. e \in VersionRows /\ ~ e.live /\ e.config = NoConfig
    BY <1>1 DEF VersionRows, Configurations
  <1>3. version' = [version EXCEPT ![d] = e] /\ d \notin Referenced
    BY <1>1 DEF DestroyVersion
  <1>4. version \in Seq(VersionRows) /\ version \in [DOMAIN version -> VersionRows]
    BY RowNumbers DEF Fits, VersionsFit
  <1>5. /\ version' \in [DOMAIN version -> VersionRows]
        /\ \A v \in DOMAIN version : version'[v] = IF v = d THEN e ELSE version[v]
    BY <1>2, <1>3, <1>4
  <1>6. version' \in Seq(VersionRows) /\ DOMAIN version' = DOMAIN version
    BY <1>4, <1>5, RowsKept
  <1> QED
    BY <1>2, <1>3, <1>5, <1>6 DEF Versions

\* A version is deleted.
LEMMA DestroyFits ==
  ASSUME Fits, NEW w \in Threads, NEW d \in Versions, DestroyVersion(w, d)
  PROVE  Fits'
  <1>1. /\ version' \in Seq(VersionRows) /\ Versions' = Versions
        /\ \A v \in Versions \ {d} : version'[v] = version[v]
        /\ ~ version'[d].live /\ d \notin Referenced
    BY DestroyedRows
  <1>2. VersionsFit'
    BY <1>1 DEF VersionsFit, Fits, Live
  <1>3. \A v \in LiveVersions : v \in Referenced => v \in LiveVersions'
    BY <1>1 DEF LiveVersions, Live
  <1>4. UNCHANGED <<loaded, tenant, generated, serving>>
    BY DEF DestroyVersion
  <1>5. RowsStay
    BY <1>1, <1>4 DEF RowsStay, Tenants
  <1>6. RequestsFit'
    BY <1>4, <1>5, RequestsStand
  <1> QED
    BY <1>1, <1>2, <1>3, <1>4, <1>6, VersionsWritten

\* The number of the tenant that is generated for.
Deploys(t) == IF t = 0 THEN Len(tenant) + 1 ELSE t

\* What a deployment leaves.
LEMMA DeployedRows ==
  ASSUME Fits, NEW v \in LiveVersions, NEW t \in {0} \cup Tenants, NEW c \in NormalConfigs,
         Deployed(v, t, c)
  PROVE  /\ tenant' \in Seq(TenantRows) /\ Tenants' = Tenants \cup {Deploys(t)}
         /\ Deploys(t) \in Nat
         /\ t = 0 => Deploys(t) \notin Tenants
         /\ \A u \in Tenants \ {t} : tenant'[u] = tenant[u]
         /\ tenant'[Deploys(t)].config = c
         /\ tenant'[Deploys(t)].from \subseteq LiveVersions
  <1>1. v \in Nat /\ c \in Configurations
    BY FittingRows DEF LiveVersions, Configurations
  <1>2. tenant \in Seq(TenantRows) /\ tenant \in [DOMAIN tenant -> TenantRows]
    BY RowNumbers DEF Fits, TenantsFit
  <1>3. CASE t = 0
    <2>1. PICK e : e = NewTenant(v, c)
      OBVIOUS
    <2>2. /\ e \in TenantRows /\ e.config = c /\ e.from = {v}
      BY <1>1, <2>1 DEF NewTenant, TenantRows
    <2>3. tenant' = Append(tenant, e)
      BY <1>3, <2>1 DEF Deployed
    <2>4. /\ tenant' \in Seq(TenantRows) /\ DOMAIN tenant' = DOMAIN tenant \cup {Len(tenant) + 1}
          /\ \A u \in DOMAIN tenant : tenant'[u] = tenant[u]
          /\ tenant'[Len(tenant) + 1] = e
      BY <1>2, <2>2, <2>3, RowMade
    <2>5. Len(tenant) + 1 \notin Tenants /\ Len(tenant) + 1 \in Nat
      BY FittingRows
    <2> QED
      BY <1>3, <2>2, <2>4, <2>5 DEF Tenants, Deploys
  <1>4. CASE t # 0
    <2>1. t \in DOMAIN tenant /\ t \in Nat
      BY <1>4, FittingRows DEF Tenants
    <2>2. PICK x \in TenantRows : x = tenant[t]
      BY <1>2, <2>1
    <2>3. PICK d : d = [tenant EXCEPT ![t].config = c]
      OBVIOUS
    <2>4. PICK y : y = [x EXCEPT !.config = c]
      OBVIOUS
    <2>5. y \in TenantRows /\ y.config = c /\ y.from = x.from
      BY <1>1, <2>4 DEF TenantRows
    <2>6. d = [tenant EXCEPT ![t] = y]
      BY <2>2, <2>3, <2>4
    <2>7. d \in [DOMAIN tenant -> TenantRows] /\ d[t] = y
      BY <1>2, <2>1, <2>5, <2>6
    <2>8. PICK z : z = [y EXCEPT !.from = y.from \cup {v}]
      OBVIOUS
    <2>9. z \in TenantRows /\ z.config = c /\ z.from = x.from \cup {v}
      BY <1>1, <2>5, <2>8 DEF TenantRows
    <2>10. tenant' = [d EXCEPT ![t].from = d[t].from \cup {v}]
      BY <1>4, <2>3 DEF Deployed, Applied
    <2>11. tenant' = [d EXCEPT ![t] = z]
      BY <2>7, <2>8, <2>10
    <2>12. /\ tenant' \in [DOMAIN tenant -> TenantRows] /\ tenant'[t] = z
           /\ \A u \in DOMAIN tenant \ {t} : tenant'[u] = tenant[u]
      BY <1>2, <2>1, <2>6, <2>7, <2>9, <2>11
    <2>13. tenant' \in Seq(TenantRows) /\ DOMAIN tenant' = DOMAIN tenant
      BY <1>2, <2>12, RowsKept
    <2>14. x.from \subseteq LiveVersions
      BY <2>1, <2>2 DEF Fits, TenantsFit, Tenants
    <2> QED
      BY <1>4, <2>1, <2>9, <2>12, <2>13, <2>14 DEF Tenants, Deploys
  <1> QED
    BY <1>3, <1>4

\* A job is recorded.
LEMMA RecordedRows ==
  ASSUME Fits, NEW w \in Threads, serving[w].kind \in {"create_saas", "export"},
         NEW t \in Nat, NEW package, Recorded(serving[w], t, package)
  PROVE  /\ \E P : generated' \in Seq(JobRows(P))
         /\ Jobs' = Jobs \cup {Len(generated) + 1} /\ Len(generated) + 1 \notin Jobs
         /\ \A j \in Jobs : generated'[j] = generated[j]
         /\ LET made == generated'[Len(generated) + 1]
            IN  /\ made.kind = serving[w].kind /\ made.version = serving[w].id
                /\ made.config = serving[w].config /\ made.tenant = t
                /\ made.package = package
  <1>1. PICK r : r = serving[w]
    OBVIOUS
  <1>2. r \in Requested /\ r.kind \in {"create_saas", "export"}
    BY <1>1, FittingRows
  <1>3. PICK e : e = [kind |-> r.kind, version |-> r.id, tenant |-> t, config |-> r.config,
                      retry |-> r.retry, package |-> package]
    OBVIOUS
  <1>4. PICK P : generated \in Seq(JobRows(P))
    BY DEF Fits, JobsFit
  <1> DEFINE Q == P \cup {package}
  <1>5. e \in JobRows(Q)
    BY <1>2, <1>3 DEF JobRows, Requested
  <1>6. /\ e.kind = r.kind /\ e.version = r.id /\ e.config = r.config /\ e.tenant = t
        /\ e.package = package
    BY <1>3
  <1>7. JobRows(P) \subseteq JobRows(Q)
    BY DEF JobRows
  <1>8. generated' = Append(generated, e)
    BY <1>1, <1>3 DEF Recorded
  <1> HIDE DEF Q
  <1>9. generated \in [DOMAIN generated -> JobRows(Q)]
    BY <1>4, <1>7, RowNumbers
  <1>10. generated \in Seq(JobRows(Q))
    BY <1>4, <1>9, RowsKept
  <1>11. /\ generated' \in Seq(JobRows(Q))
         /\ DOMAIN generated' = DOMAIN generated \cup {Len(generated) + 1}
         /\ \A j \in DOMAIN generated : generated'[j] = generated[j]
         /\ generated'[Len(generated) + 1] = e
    BY <1>5, <1>8, <1>10, RowMade
  <1>12. Len(generated) + 1 \notin Jobs
    BY FittingRows
  <1> QED
    BY <1>1, <1>6, <1>11, <1>12 DEF Jobs

\* Where versions stay as they are, the parts fit one by one.
LEMMA VersionsStand ==
  ASSUME Fits, UNCHANGED <<loaded, version>>, TenantsFit', JobsFit', RequestsFit'
  PROVE  Fits'
  BY DEF Fits, VersionsFit, Versions, Live, loaded

\* The jobs with one more.
LEMMA RecordedFits ==
  ASSUME Fits, NEW w \in Threads, serving[w].kind \in {"create_saas", "export"},
         Live(serving[w].id), NEW t \in Nat, NEW package, Recorded(serving[w], t, package),
         UNCHANGED <<loaded, version>>
  PROVE  JobsFit'
  <1>1. /\ \E P : generated' \in Seq(JobRows(P))
        /\ Jobs' = Jobs \cup {Len(generated) + 1}
        /\ \A j \in Jobs : generated'[j] = generated[j]
    BY RecordedRows
  <1>2. PICK k : k = Len(generated) + 1
    OBVIOUS
  <1>3. /\ generated'[k].kind = serving[w].kind /\ generated'[k].version = serving[w].id
        /\ generated'[k].config = serving[w].config
    BY <1>2, RecordedRows
  <1>4. Knows(serving[w])
    BY FittingRows
  <1>5. serving[w].id \in LiveVersions
    BY <1>4 DEF Knows, LiveVersions
  <1>6. serving[w].config \in NormalConfigs
        /\ Generable(serving[w].config, ModeOf(serving[w].kind))
    BY <1>4 DEF Knows
  <1>7. LiveVersions' = LiveVersions
    BY DEF LiveVersions, Live, Versions
  <1>8. needs' = needs
    BY DEF loaded
  <1>9. ASSUME NEW j \in Jobs'
        PROVE  /\ generated'[j].version \in LiveVersions'
               /\ generated'[j].config \in NormalConfigs
               /\ Generable(generated[j].config, ModeOf(generated[j].kind))'
    <2>1. CASE j \in Jobs
      <3>1. PICK x : x = generated[j]
        OBVIOUS
      <3>2. x.version \in LiveVersions /\ x.config \in NormalConfigs
            /\ Generable(x.config, ModeOf(x.kind))
        BY <2>1, <3>1 DEF Fits, JobsFit
      <3>3. generated'[j] = x
        BY <1>1, <2>1, <3>1
      <3> QED
        BY <1>7, <1>8, <3>2, <3>3 DEF Generable
    <2>2. CASE j = k
      <3> QED
        BY <1>3, <1>5, <1>6, <1>7, <1>8, <2>2 DEF Generable
    <2> QED
      BY <1>1, <1>2, <2>1, <2>2
  <1> QED
    BY <1>1, <1>9 DEF JobsFit

\* The tenants with one more, or one that moves on.
LEMMA DeployedFits ==
  ASSUME Fits, NEW w \in Threads, serving[w].kind \in {"create_saas", "apply"},
         Live(serving[w].id), Deployed(serving[w].id, serving[w].tenant, serving[w].config),
         UNCHANGED <<loaded, version>>
  PROVE  TenantsFit' /\ Tenants \subseteq Tenants' /\ Deploys(serving[w].tenant) \in Nat
  <1>1. PICK r : r = serving[w]
    OBVIOUS
  <1>2. r.id \in LiveVersions /\ r.tenant \in {0} \cup Tenants /\ r.config \in NormalConfigs
    BY <1>1, FittingRows DEF Knows, LiveVersions
  <1>3. Deployed(r.id, r.tenant, r.config)
    BY <1>1
  <1>4. /\ tenant' \in Seq(TenantRows) /\ Tenants' = Tenants \cup {Deploys(r.tenant)}
        /\ Deploys(r.tenant) \in Nat
        /\ \A u \in Tenants \ {r.tenant} : tenant'[u] = tenant[u]
        /\ tenant'[Deploys(r.tenant)].from \subseteq LiveVersions
    BY <1>2, <1>3, DeployedRows
  <1>5. LiveVersions' = LiveVersions
    BY DEF LiveVersions, Live, Versions
  <1>6. \A u \in Tenants : tenant[u].from \subseteq LiveVersions
    BY DEF Fits, TenantsFit
  <1>7. ASSUME NEW u \in Tenants' PROVE tenant'[u].from \subseteq LiveVersions'
    <2>1. CASE u = Deploys(r.tenant)
      BY <1>4, <1>5, <2>1
    <2>2. CASE u # Deploys(r.tenant)
      <3>1. u \in Tenants \ {r.tenant}
        BY <1>4, <2>2, FittingRows DEF Deploys
      <3> QED
        BY <1>4, <1>5, <1>6, <3>1
    <2> QED
      BY <2>1, <2>2
  <1> QED
    BY <1>1, <1>4, <1>7 DEF TenantsFit

\* A generation for a tenant fits.
LEMMA CreateSaasFits ==
  ASSUME Fits, NEW w \in Threads, CreateSaas(w)
  PROVE  Fits'
  <1>1. PICK t : t = IF serving[w].tenant = 0 THEN Len(tenant) + 1 ELSE serving[w].tenant
    OBVIOUS
  <1>2. /\ serving[w].kind = "create_saas" /\ Live(serving[w].id)
        /\ Deployed(serving[w].id, serving[w].tenant, serving[w].config)
        /\ Recorded(serving[w], t, NoPackage)
        /\ Answered(w) /\ UNCHANGED <<loaded, version>>
    BY <1>1 DEF CreateSaas
  <1>3. TenantsFit' /\ Tenants \subseteq Tenants' /\ t \in Nat
    BY <1>1, <1>2, DeployedFits DEF Deploys
  <1>4. JobsFit'
    BY <1>2, <1>3, RecordedFits
  <1>5. RowsStay
    BY <1>2, <1>3 DEF RowsStay, Versions
  <1>6. RequestsFit'
    BY <1>2, <1>5, NothingRequested, RequestTaken DEF Answered
  <1> QED
    BY <1>2, <1>3, <1>4, <1>6, VersionsStand

\* An export fits.
LEMMA ExportCodeFits ==
  ASSUME Fits, NEW w \in Threads, ExportCode(w)
  PROVE  Fits'
  <1>1. /\ serving[w].kind = "export" /\ Live(serving[w].id)
        /\ Recorded(serving[w], 0, Package(serving[w].config))
        /\ Answered(w) /\ UNCHANGED <<loaded, version, tenant>>
    BY DEF ExportCode
  <1>2. JobsFit'
    BY <1>1, RecordedFits
  <1>3. TenantsFit'
    BY <1>1 DEF Fits, TenantsFit, Tenants, LiveVersions, Live, Versions
  <1>4. RowsStay
    BY <1>1 DEF RowsStay, Versions, Tenants
  <1>5. RequestsFit'
    BY <1>1, <1>4, NothingRequested, RequestTaken DEF Answered
  <1> QED
    BY <1>1, <1>2, <1>3, <1>5, VersionsStand

\* A version that is applied by hand fits.
LEMMA ApplyFits ==
  ASSUME Fits, NEW w \in Threads, ApplyVersion(w)
  PROVE  Fits'
  <1>1. /\ serving[w].kind = "apply" /\ Live(serving[w].id)
        /\ Deployed(serving[w].id, serving[w].tenant, serving[w].config)
        /\ Answered(w) /\ UNCHANGED <<loaded, version, generated>>
    BY DEF ApplyVersion
  <1>2. TenantsFit' /\ Tenants \subseteq Tenants'
    BY <1>1, DeployedFits
  <1>3. JobsFit'
    BY <1>1 DEF Fits, JobsFit, Jobs, Generable, LiveVersions, Live, Versions, loaded
  <1>4. RowsStay
    BY <1>1, <1>2 DEF RowsStay, Versions
  <1>5. RequestsFit'
    BY <1>1, <1>4, NothingRequested, RequestTaken DEF Answered
  <1> QED
    BY <1>1, <1>2, <1>3, <1>5, VersionsStand

\* What a change of a tenant's status, or its deletion, leaves.
LEMMA TenantRow ==
  ASSUME Fits, NEW t \in Tenants, NEW e \in TenantRows, e.from \subseteq LiveVersions,
         tenant' = [tenant EXCEPT ![t] = e], UNCHANGED <<loaded, version, generated, serving>>
  PROVE  /\ Fits' /\ Tenants' = Tenants /\ tenant'[t] = e
         /\ \A u \in Tenants \ {t} : tenant'[u] = tenant[u]
  <1>1. tenant \in Seq(TenantRows) /\ tenant \in [DOMAIN tenant -> TenantRows]
    BY RowNumbers DEF Fits, TenantsFit
  <1>2. /\ tenant' \in [DOMAIN tenant -> TenantRows]
        /\ \A u \in DOMAIN tenant : tenant'[u] = IF u = t THEN e ELSE tenant[u]
    BY <1>1 DEF Tenants
  <1>3. tenant' \in Seq(TenantRows) /\ DOMAIN tenant' = DOMAIN tenant
    BY <1>1, <1>2, RowsKept
  <1>4. LiveVersions' = LiveVersions
    BY DEF LiveVersions, Live, Versions
  <1>5. TenantsFit'
    BY <1>2, <1>3, <1>4 DEF Fits, TenantsFit, Tenants
  <1>6. JobsFit'
    BY <1>4 DEF Fits, JobsFit, Jobs, Generable, loaded
  <1>7. RowsStay
    BY <1>3 DEF RowsStay, Versions, Tenants
  <1>8. RequestsFit'
    BY <1>7, RequestsStand
  <1> QED
    BY <1>2, <1>3, <1>5, <1>6, <1>8, VersionsStand DEF Tenants

\* A tenant in another status.
LEMMA SetStatusRow ==
  ASSUME Fits, NEW w \in Threads, NEW t \in Tenants, NEW status \in Statuses,
         SetStatus(w, t, status)
  PROVE  /\ Fits' /\ Tenants' = Tenants /\ tenant[t].status # "deleted"
         /\ tenant'[t].config = tenant[t].config
         /\ \A u \in Tenants \ {t} : tenant'[u] = tenant[u]
  <1>1. PICK x \in TenantRows : x = tenant[t]
    BY FittingRows
  <1>2. PICK e : e = [x EXCEPT !.status = status]
    OBVIOUS
  <1>3. e \in TenantRows /\ e.config = x.config /\ e.from = x.from
    BY <1>2 DEF TenantRows
  <1>4. x.from \subseteq LiveVersions
    BY <1>1 DEF Fits, TenantsFit
  <1>5. tenant' = [tenant EXCEPT ![t] = e]
    BY <1>1, <1>2 DEF SetStatus
  <1> QED
    BY <1>1, <1>3, <1>4, <1>5, TenantRow DEF SetStatus

\* A tenant that is deleted.
LEMMA DestroyTenantRow ==
  ASSUME Fits, NEW w \in Threads, NEW t \in Tenants, DestroyTenant(w, t)
  PROVE  /\ Fits' /\ Tenants' = Tenants /\ tenant'[t].status = "deleted"
         /\ \A u \in Tenants \ {t} : tenant'[u] = tenant[u]
  <1>1. PICK e : e = [status |-> "deleted", config |-> NoConfig, from |-> {}]
    OBVIOUS
  <1>2. e \in TenantRows /\ e.status = "deleted" /\ e.from = {}
    BY <1>1 DEF TenantRows, Configurations
  <1>3. tenant' = [tenant EXCEPT ![t] = e]
    BY <1>1 DEF DestroyTenant
  <1> QED
    BY <1>2, <1>3, TenantRow DEF DestroyTenant

\* The requests that are loaded to publish and to generate.
LEMMA LoadFits ==
  ASSUME Fits, NEW w \in Threads,
         \/ \E v \in Versions : LoadPublish(w, v)
         \/ \E t \in Selectable :
              \/ \E v \in Versions, kind \in {"create_saas", "export"} :
                   LoadGeneration(w, kind, v, t)
              \/ \E j \in Jobs : LoadRetry(w, j, t)
         \/ \E v \in Versions, t \in {0} \cup Tenants : LoadApply(w, v, t)
  PROVE  Fits'
  <1>1. Selectable \subseteq {0} \cup Tenants
    BY DEF Selectable
  <1>2. CASE \E v \in Versions : LoadPublish(w, v)
    <2>1. PICK v \in Versions : LoadPublish(w, v)
      BY <1>2
    <2>2. version[v].config \in NormalConfigs
      BY <2>1 DEF LoadPublish, Fits, VersionsFit
    <2> QED
      BY <2>1, <2>2, PublishingFits DEF LoadPublish
  <1>3. ASSUME NEW t \in Selectable, NEW v \in Versions, NEW kind \in {"create_saas", "export"},
               LoadGeneration(w, kind, v, t)
        PROVE  Fits'
    <2>1. Live(v) /\ Generable(Normalised(version[v].config), ModeOf(kind))
      BY <1>3 DEF LoadGeneration, MayGenerate
    <2> QED
      BY <1>1, <1>3, <2>1, GenerationFits DEF LoadGeneration
  <1>4. ASSUME NEW t \in Selectable, NEW j \in Jobs, LoadRetry(w, j, t) PROVE Fits'
    <2>1. PICK v : v = generated[j].version
      OBVIOUS
    <2>2. PICK kind : kind = generated[j].kind
      OBVIOUS
    <2>3. PICK retry : retry = generated[j].retry + 1
      OBVIOUS
    <2>4. kind \in {"create_saas", "export"} /\ retry \in Nat /\ v \in Versions
      <3>1. PICK P : generated[j] \in JobRows(P)
        BY FittingRows
      <3>2. v \in Versions
        BY <2>1 DEF Fits, JobsFit, LiveVersions
      <3> QED
        BY <2>2, <2>3, <3>1, <3>2 DEF JobRows
    <2>5. /\ Live(v) /\ Generable(Normalised(version[v].config), ModeOf(kind))
          /\ Take(w, Generation(kind, v, t, retry))
          /\ UNCHANGED <<loaded, version, tenant, generated>>
      BY <1>4, <2>1, <2>2, <2>3 DEF LoadRetry, MayGenerate
    <2> QED
      BY <1>1, <2>4, <2>5, GenerationFits
  <1>5. ASSUME NEW v \in Versions, NEW t \in {0} \cup Tenants, LoadApply(w, v, t) PROVE Fits'
    BY <1>5, GenerationFits DEF LoadApply, MayServe
  <1> QED
    BY <1>2, <1>3, <1>4, <1>5

\* A request is refused where its number is taken, its row is gone, or a generation fails.
LEMMA RefuseFits ==
  ASSUME Fits, NEW w \in Threads, Refuse(w)
  PROVE  Fits'
  BY AnsweredFits DEF Refuse

\* Everything fits at first.
LEMMA FirstFits == BlueprintsInit => Fits
  <1> SUFFICES ASSUME BlueprintsInit PROVE Fits
    OBVIOUS
  <1>1. version = << >> /\ tenant = << >> /\ generated = << >> /\ mix \in Trials
    BY DEF BlueprintsInit
  <1>2. Versions = {} /\ Tenants = {} /\ Jobs = {}
    BY <1>1 DEF Versions, Tenants, Jobs
  <1>3. << >> \in Seq(VersionRows) /\ << >> \in Seq(TenantRows) /\ << >> \in Seq(JobRows({}))
    OBVIOUS
  <1>4. serving \in [Threads -> Requested] /\ \A w \in Threads : serving[w] = NoRequest
    BY NothingRequested DEF BlueprintsInit
  <1>5. RequestsFit
    BY <1>4, NothingRequested DEF RequestsFit
  <1> QED
    BY <1>1, <1>2, <1>3, <1>5 DEF Fits, VersionsFit, TenantsFit, JobsFit

\* The steps, one by one.
LEMMA BlueprintsSteps ==
  ASSUME BlueprintsNext
  PROVE  \E w \in Threads :
           \/ \E c \in mix.configs, publish \in BOOLEAN :
                \/ \E number \in {NextNumber} \cup Labels : Create(w, c, number, publish)
                \/ \E v \in Versions : \E number \in {version[v].number} \cup Labels :
                     LoadEdit(w, v, c, number, publish)
           \/ \E v \in Versions :
                \/ \E number \in {NextNumber} \cup Labels : Clone(w, v, number)
                \/ LoadPublish(w, v)
                \/ DestroyVersion(w, v)
           \/ InsertVersion(w) \/ PublishVersion(w) \/ SaveEdit(w) \/ Republish(w)
           \/ \E t \in Selectable :
                \/ \E v \in Versions, kind \in {"create_saas", "export"} :
                     LoadGeneration(w, kind, v, t)
                \/ \E j \in Jobs : LoadRetry(w, j, t)
           \/ \E v \in Versions, t \in {0} \cup Tenants : LoadApply(w, v, t)
           \/ CreateSaas(w) \/ ExportCode(w) \/ ApplyVersion(w)
           \/ \E t \in Tenants : (\E status \in Statuses : SetStatus(w, t, status))
                                   \/ DestroyTenant(w, t)
           \/ Refuse(w)
  BY Zenon DEF BlueprintsNext, VersionStep, GenerationStep

\* Every step leaves everything fitting.
LEMMA FitsStays == Fits /\ [BlueprintsNext]_blueprintsVars => Fits'
  <1>1. ASSUME Fits, UNCHANGED blueprintsVars PROVE Fits'
    <2>1. RowsStay /\ UNCHANGED serving
      BY <1>1 DEF RowsStay, blueprintsVars, Versions, Tenants
    <2>2. RequestsFit'
      BY <1>1, <2>1, RequestsStand
    <2> QED
      BY <1>1, <2>2 DEF Fits, VersionsFit, TenantsFit, JobsFit, blueprintsVars, loaded,
         Versions, Tenants, Jobs, LiveVersions, Live, Generable
  <1>2. ASSUME Fits, BlueprintsNext PROVE Fits'
    BY <1>2, BlueprintsSteps, CreateFits, EditFits, CloneFits, DestroyFits, InsertFits,
       PublishFits, SaveFits, RepublishFits, LoadFits, CreateSaasFits, ExportCodeFits,
       ApplyFits, SetStatusRow, DestroyTenantRow, RefuseFits
  <1> QED
    BY <1>1, <1>2

\* Everything always fits.
LEMMA AlwaysFits == BlueprintsSpec => []Fits
  BY FirstFits, FitsStays, PTL DEF BlueprintsSpec

-----------------------------------------------------------------------------
(* One version is published. *)

\* What publishes, and how far it has come.
Writing == {"create", "publish", "edit", "saved"}
Publishes == {"saved", "publish"}

\* Nothing that publishes overlaps with anything else that does.
PublishesAlone == \A k, l \in Writing : {k, l} \notin mix.racing

\* Edits bring configurations from which something can be generated.
EditsValid ==
  "edit" \in mix.kinds => \A c \in mix.configs : Known(c) => Generable(Normalised(c), c.mode)

AtMostOne(S) == \A x, y \in S : x = y

\* The versions that are published are those a request found, or the one it publishes.
Orderly(r) ==
  /\ r.kind = "create" /\ r.publish => Published \subseteq r.others
  /\ r.kind = "clone" => ~ r.publish
  /\ r.kind = "publish" => Published \ {r.id} \subseteq r.others
  /\ r.kind \in Publishes => AtMostOne(Published \ {r.id})
  /\ r.kind \in {"edit", "saved"} => Generable(r.config, r.config.mode)

\* No other thread is to publish.
OnlyWriter(w) == \A v \in Threads \ {w} : serving[v].kind \notin Writing

NobodyPublishes == \A w \in Threads : serving[w].kind \notin Publishes

Orders ==
  /\ \A w \in Threads : serving[w].kind \in Writing => OnlyWriter(w)
  /\ \A w \in Threads : Orderly(serving[w])
  /\ NobodyPublishes => AtMostOne(Published)

\* What is published as a request moves on.
LEMMA OrdersMoves ==
  ASSUME Fits, Orders, NEW w \in Threads, NEW r, Take(w, r), UNCHANGED loaded, Orderly(r)',
         \/ OnlyWriter(w)
         \/ Published' \subseteq Published /\ (r.kind \in Writing => serving[w].kind \in Writing),
         \/ r.kind \in Publishes \/ AtMostOne(Published)'
         \/ serving[w].kind \notin Publishes /\ Published' \subseteq Published
  PROVE  Orders'
  <1>1. /\ serving'[w] = r
        /\ \A v \in Threads \ {w} : serving'[v] = serving[v]
    BY DEF Fits, RequestsFit, Take
  <1>2. OnlyWriter(w) \/ (r.kind \notin Writing)
    BY DEF Orders
  <1>3. Publishes \subseteq Writing
    BY DEF Publishes, Writing
  <1>4. ASSUME NEW v \in Threads, serving'[v].kind \in Writing PROVE OnlyWriter(v)'
    BY <1>1, <1>2, <1>4 DEF OnlyWriter, Orders
  <1>5. ASSUME NEW v \in Threads PROVE Orderly(serving[v])'
    <2>1. CASE v = w
      BY <1>1, <2>1
    <2>2. CASE v # w /\ serving[v].kind \notin Writing
      <3>1. PICK s : s = serving[v]
        OBVIOUS
      <3>2. Orderly(s) /\ s.kind \notin Writing
        BY <2>2, <3>1 DEF Orders
      <3>3. Orderly(s)'
        BY <3>2 DEF Orderly, Writing, Publishes
      <3> QED
        BY <1>1, <2>2, <3>1, <3>3
    <2>3. CASE v # w /\ serving[v].kind \in Writing
      <3>1. Published' \subseteq Published
        BY <2>3 DEF OnlyWriter
      <3>2. PICK s : s = serving[v]
        OBVIOUS
      <3>3. Orderly(s)
        BY <3>2 DEF Orders
      <3>4. Orderly(s)'
        BY <3>1, <3>3 DEF Orderly, AtMostOne, Generable, loaded
      <3> QED
        BY <1>1, <2>3, <3>2, <3>4
    <2> QED
      BY <2>1, <2>2, <2>3
  <1>6. ASSUME NobodyPublishes' PROVE AtMostOne(Published)'
    <2>1. r.kind \notin Publishes
      BY <1>1, <1>6 DEF NobodyPublishes
    <2>2. CASE serving[w].kind \notin Publishes /\ Published' \subseteq Published
      <3>1. NobodyPublishes
        BY <1>1, <1>6, <2>2 DEF NobodyPublishes
      <3> QED
        BY <2>2, <3>1 DEF Orders, AtMostOne
    <2> QED
      BY <2>1, <2>2
  <1> QED
    BY <1>4, <1>5, <1>6 DEF Orders

\* Nothing is published that was not.
LEMMA PublishedStands ==
  UNCHANGED version => Published' = Published
  BY DEF Published, LiveVersions, Live, Versions

\* A thread that may take up a request serves none, and nobody else is to publish.
LEMMA OnlyWriterServes ==
  ASSUME PublishesAlone, NEW w \in Threads, NEW kind \in Writing, MayServe(w, kind)
  PROVE  OnlyWriter(w) /\ serving[w].kind = "idle"
  <1>1. NoRequest.kind = "idle" /\ "idle" \notin Writing
    BY DEF NoRequest, Writing
  <1>2. serving[w].kind = "idle"
    BY <1>1 DEF MayServe
  <1>3. ASSUME NEW v \in Threads \ {w} PROVE serving[v].kind \notin Writing
    <2>1. serving[v] = NoRequest \/ {kind, serving[v].kind} \in mix.racing
      BY DEF MayServe
    <2> QED
      BY <1>1, <2>1 DEF PublishesAlone
  <1> QED
    BY <1>2, <1>3 DEF OnlyWriter

\* Nothing but what publishes touches what is published.
LEMMA OrdersStand ==
  ASSUME Fits, Orders, NEW w \in Threads, NEW r, Take(w, r), UNCHANGED <<loaded, version>>,
         r.kind \notin Writing \cup {"clone"}, serving[w].kind \notin Publishes
  PROVE  Orders'
  <1>1. Published' = Published
    BY PublishedStands
  <1>2. Orderly(r)'
    BY DEF Orderly, Writing, Publishes
  <1> QED
    BY <1>1, <1>2, OrdersMoves

\* The request to create or to clone a version.
LEMMA OrdersNew ==
  ASSUME Fits, Orders, PublishesAlone, NEW w \in Threads, NEW kind \in {"create", "clone"},
         NEW c, Normalised(c) \in NormalConfigs, NEW number \in Nat, NEW publish \in BOOLEAN,
         kind = "clone" => ~ publish, LoadNew(w, kind, c, number, publish)
  PROVE  Orders'
  <1>1. PICK others : others = IF publish THEN Published ELSE {}
    OBVIOUS
  <1>2. PICK r : r = Making(kind, Normalised(c), number, publish, others)
    OBVIOUS
  <1>3. Take(w, r) /\ UNCHANGED <<loaded, version>> /\ MayServe(w, kind)
    BY <1>1, <1>2 DEF LoadNew, Making
  <1>4. /\ kind \in RequestKinds /\ Normalised(c) \in Configurations
        /\ others \in SUBSET Nat
    BY <1>1, FittingRows DEF RequestKinds, Configurations, Published, LiveVersions
  <1>5. r.kind = kind /\ r.publish = publish /\ r.others = others
    BY <1>2, <1>4, NewFields
  <1>6. Published' = Published
    BY <1>3, PublishedStands
  <1>7. Orderly(r)'
    BY <1>1, <1>5, <1>6 DEF Orderly, Publishes
  <1>8. serving[w].kind = "idle"
    BY <1>3 DEF MayServe, NoRequest
  <1>9. serving[w].kind \notin Publishes
    BY <1>8 DEF Publishes
  <1>10. kind = "create" => OnlyWriter(w)
    BY <1>3, OnlyWriterServes DEF Writing
  <1>11. kind = "clone" => r.kind \notin Writing
    BY <1>5 DEF Writing
  <1> QED
    BY <1>3, <1>6, <1>7, <1>9, <1>10, <1>11, OrdersMoves

\* The request to edit a version.
LEMMA OrdersEdit ==
  ASSUME Fits, Orders, PublishesAlone, EditsValid, NEW w \in Threads, NEW v \in Versions,
         NEW c \in mix.configs, NEW number \in {version[v].number} \cup Labels,
         NEW publish \in BOOLEAN, LoadEdit(w, v, c, number, publish)
  PROVE  Orders'
  <1>1. Normalised(c) \in Configurations
    BY DEF Fits, NormalConfigs, Configurations
  <1>2. number \in Nat /\ v \in Nat
    BY FittingRows, BlueprintsAssumption DEF VersionRows
  <1>3. PICK r : r = Editing(v, Normalised(c), number, publish)
    OBVIOUS
  <1>4. /\ Take(w, r) /\ UNCHANGED <<loaded, version>> /\ MayServe(w, "edit") /\ Known(c)
    BY <1>3 DEF LoadEdit, Editing
  <1>5. r.kind = "edit" /\ r.config = Normalised(c)
    BY <1>1, <1>2, <1>3, EditFields
  <1>6. Normalised(c).mode = c.mode
    <2>1. c = [mode |-> c.mode, modules |-> c.modules, features |-> c.features,
               complete |-> c.complete]
      BY BlueprintsAssumption DEF Fits
    <2> QED
      BY <2>1, NormalisedFields
  <1>7. Generable(r.config, r.config.mode)
    BY <1>4, <1>5, <1>6 DEF EditsValid, MayServe
  <1>8. Orderly(r)'
    BY <1>4, <1>5, <1>7 DEF Orderly, Publishes, Generable, loaded
  <1>9. OnlyWriter(w) /\ serving[w].kind \notin Publishes
    BY <1>4, OnlyWriterServes DEF Writing, Publishes
  <1>10. Published' = Published
    BY <1>4, PublishedStands
  <1> QED
    BY <1>4, <1>8, <1>9, <1>10, OrdersMoves

\* The request to publish a version, whoever makes it.
LEMMA OrdersPublishing ==
  ASSUME Fits, Orders, NEW w \in Threads, OnlyWriter(w), NEW v \in Versions,
         NEW c \in NormalConfigs, AtMostOne(Published \ {v}), Take(w, Publishing(v, c)),
         UNCHANGED <<loaded, version>>
  PROVE  Orders'
  <1>1. PICK r : r = Publishing(v, c)
    OBVIOUS
  <1>2. r.kind = "publish" /\ r.id = v /\ r.others = Published \ {v}
    BY <1>1, FittingRows, PublishingFields DEF Configurations
  <1>3. Published' = Published
    BY PublishedStands
  <1>4. Orderly(r)'
    BY <1>2, <1>3 DEF Orderly, Publishes, AtMostOne
  <1>5. r.kind \in Publishes
    BY <1>2 DEF Publishes
  <1> QED
    BY <1>1, <1>4, <1>5, OrdersMoves

\* As a view makes it.
LEMMA OrdersLoadPublish ==
  ASSUME Fits, Orders, PublishesAlone, NEW w \in Threads, NEW v \in Versions, LoadPublish(w, v)
  PROVE  Orders'
  <1>1. MayServe(w, "publish") /\ version[v].config \in NormalConfigs
    BY DEF LoadPublish, Fits, VersionsFit
  <1>2. OnlyWriter(w) /\ serving[w].kind = "idle"
    BY <1>1, OnlyWriterServes DEF Writing
  <1>3. NobodyPublishes
    BY <1>2 DEF NobodyPublishes, OnlyWriter, Writing, Publishes
  <1>4. AtMostOne(Published \ {v})
    BY <1>3 DEF Orders, AtMostOne
  <1> QED
    BY <1>1, <1>2, <1>4, OrdersPublishing DEF LoadPublish

\* As an edit makes it, which is valid.
LEMMA OrdersRepublish ==
  ASSUME Fits, Orders, NEW w \in Threads, Republish(w)
  PROVE  Orders'
  <1>1. serving[w].kind = "saved" /\ Orderly(serving[w])
    BY DEF Republish, Orders
  <1>2. /\ Generable(serving[w].config, serving[w].config.mode)
        /\ AtMostOne(Published \ {serving[w].id})
    BY <1>1 DEF Orderly, Publishes
  <1>3. OnlyWriter(w)
    BY <1>1 DEF Orders, Writing
  <1>4. serving[w].id \in Versions /\ serving[w].config \in NormalConfigs
    BY <1>1, FittingRows DEF Knows
  <1> QED
    BY <1>2, <1>3, <1>4, OrdersPublishing DEF Republish

\* A version is inserted, and published if it was asked for.
LEMMA OrdersInsert ==
  ASSUME Fits, Orders, NEW w \in Threads, InsertVersion(w)
  PROVE  Orders'
  <1>1. PICK n : n = Len(version) + 1
    OBVIOUS
  <1>2. PICK s : s = serving[w]
    OBVIOUS
  <1>3. /\ Versions' = Versions \cup {n}
        /\ \A v \in Versions :
             /\ version'[v].live = version[v].live
             /\ version'[v].published = (version[v].published /\ v \notin s.others)
        /\ version'[n].published = s.publish
    BY <1>1, <1>2, InsertedRows
  <1>4. /\ s.kind \in {"create", "clone"} /\ Take(w, NoRequest) /\ UNCHANGED loaded
    BY <1>2 DEF InsertVersion, Answered
  <1>5. s \in Requested /\ Orderly(s)
    BY <1>2, FittingRows DEF Orders
  <1>6. \A v \in Published' : v \in Published \ s.others \/ (v = n /\ s.publish)
    BY <1>3 DEF Published, LiveVersions, Live
  <1>7. NoRequest.kind = "idle" /\ "idle" \notin Writing /\ "idle" \notin Publishes
    BY DEF NoRequest, Writing, Publishes
  <1>8. Orderly(NoRequest)'
    BY <1>7 DEF Orderly, Publishes
  <1>9. s.kind \notin Publishes
    BY <1>4 DEF Publishes
  <1>10. CASE s.publish
    <2>1. s.kind = "create"
      BY <1>4, <1>5, <1>10 DEF Orderly
    <2>2. Published \subseteq s.others
      BY <1>5, <1>10, <2>1 DEF Orderly
    <2>3. AtMostOne(Published')
      BY <1>6, <2>2 DEF AtMostOne
    <2>4. OnlyWriter(w)
      BY <1>2, <2>1 DEF Orders, Writing
    <2> QED
      BY <1>4, <1>8, <2>3, <2>4, OrdersMoves DEF AtMostOne
  <1>11. CASE ~ s.publish
    <2>1. Published' \subseteq Published
      BY <1>6, <1>11
    <2> QED
      BY <1>2, <1>4, <1>7, <1>8, <1>9, <2>1, OrdersMoves
  <1> QED
    BY <1>10, <1>11

\* A version is published, and the others that were no longer are.
LEMMA OrdersPublish ==
  ASSUME Fits, Orders, NEW w \in Threads, PublishVersion(w)
  PROVE  Orders'
  <1>1. PICK s : s = serving[w]
    OBVIOUS
  <1>2. /\ Versions' = Versions
        /\ \A v \in Versions :
             /\ version'[v].live = version[v].live
             /\ v # s.id => version'[v].published = (version[v].published /\ v \notin s.others)
    BY <1>1, PublishedRows
  <1>3. s.kind = "publish" /\ Take(w, NoRequest) /\ UNCHANGED loaded
    BY <1>1 DEF PublishVersion, Answered
  <1>4. Published \ {s.id} \subseteq s.others
    BY <1>1, <1>3 DEF Orders, Orderly
  <1>5. \A v \in Published' : v = s.id
    BY <1>2, <1>4 DEF Published, LiveVersions, Live
  <1>6. AtMostOne(Published)'
    BY <1>5 DEF AtMostOne
  <1>7. OnlyWriter(w)
    BY <1>1, <1>3 DEF Orders, Writing
  <1>8. Orderly(NoRequest)'
    BY DEF Orderly, Publishes, NoRequest
  <1> QED
    BY <1>3, <1>6, <1>7, <1>8, OrdersMoves

\* An edit is saved, as published if it was asked for.
LEMMA OrdersSave ==
  ASSUME Fits, Orders, NEW w \in Threads, SaveEdit(w)
  PROVE  Orders'
  <1>1. PICK s : s = serving[w]
    OBVIOUS
  <1>2. /\ Versions' = Versions
        /\ \A v \in Versions \ {s.id} : version'[v] = version[v]
        /\ s.id \in Versions => version'[s.id].published = s.publish
    BY <1>1, EditedRows
  <1>3. s.kind = "edit" /\ UNCHANGED loaded
    BY <1>1 DEF SaveEdit
  <1>4. s \in Requested /\ Generable(s.config, s.config.mode)
    BY <1>1, <1>3, FittingRows DEF Orders, Orderly
  <1>5. OnlyWriter(w) /\ s.kind \notin Publishes
    BY <1>1, <1>3 DEF Orders, Writing, Publishes
  <1>6. NobodyPublishes
    BY <1>1, <1>5 DEF NobodyPublishes, OnlyWriter, Writing, Publishes
  <1>7. AtMostOne(Published)
    BY <1>6 DEF Orders
  <1>8. Published' \ {s.id} \subseteq Published
    BY <1>2 DEF Published, LiveVersions, Live
  <1>9. CASE s.publish
    <2>1. PICK r : r = [s EXCEPT !.kind = "saved"]
      OBVIOUS
    <2>2. r.kind = "saved" /\ r.id = s.id /\ r.config = s.config
      BY <1>4, <2>1, SavedFields
    <2>3. Take(w, r)
      BY <1>1, <1>9, <2>1 DEF SaveEdit
    <2>4. AtMostOne(Published' \ {r.id})
      BY <1>7, <1>8, <2>2 DEF AtMostOne
    <2>5. Orderly(r)'
      BY <1>3, <1>4, <2>2, <2>4 DEF Orderly, AtMostOne, Generable, loaded
    <2>6. r.kind \in Publishes
      BY <2>2 DEF Publishes
    <2> QED
      BY <1>3, <1>5, <2>3, <2>5, <2>6, OrdersMoves
  <1>10. CASE ~ s.publish
    <2>1. Take(w, NoRequest)
      BY <1>1, <1>10 DEF SaveEdit, Answered
    <2>2. Published' \subseteq Published
      <3>1. s.id \notin Published'
        BY <1>2, <1>10 DEF Published, LiveVersions
      <3> QED
        BY <1>8, <3>1
    <2>3. Orderly(NoRequest)'
      BY DEF Orderly, Publishes, NoRequest
    <2> QED
      BY <1>1, <1>3, <1>5, <2>1, <2>2, <2>3, OrdersMoves
  <1> QED
    BY <1>9, <1>10

\* A version is deleted.
LEMMA OrdersDestroy ==
  ASSUME Fits, Orders, NEW w \in Threads, NEW d \in Versions, DestroyVersion(w, d)
  PROVE  Orders'
  <1>1. /\ Versions' = Versions /\ \A v \in Versions \ {d} : version'[v] = version[v]
        /\ ~ version'[d].live
    BY DestroyedRows
  <1>2. Published' \subseteq Published
    BY <1>1 DEF Published, LiveVersions, Live
  <1>3. serving[w] = NoRequest /\ serving' = serving /\ UNCHANGED loaded
    BY DEF DestroyVersion, MayServe
  <1>4. Take(w, NoRequest)
    BY <1>3 DEF Take, Fits, RequestsFit
  <1>5. NoRequest.kind \notin Writing /\ NoRequest.kind \notin Publishes
    BY DEF NoRequest, Writing, Publishes
  <1>6. Orderly(NoRequest)'
    BY DEF Orderly, Publishes, NoRequest
  <1> QED
    BY <1>2, <1>3, <1>4, <1>5, <1>6, OrdersMoves

\* A request is refused: where it was to publish, its version is gone.
LEMMA OrdersRefuse ==
  ASSUME Fits, Orders, NEW w \in Threads, Refuse(w)
  PROVE  Orders'
  <1>1. Take(w, NoRequest) /\ UNCHANGED <<loaded, version>>
    BY DEF Refuse, Answered
  <1>2. Published' = Published
    BY <1>1, PublishedStands
  <1>3. Orderly(NoRequest)' /\ NoRequest.kind \notin Writing
    BY DEF Orderly, Publishes, NoRequest, Writing
  <1>4. CASE serving[w].kind \notin Publishes
    BY <1>1, <1>2, <1>3, <1>4, OrdersMoves
  <1>5. CASE serving[w].kind \in Publishes
    <2>1. serving[w].kind = "publish" /\ ~ Live(serving[w].id)
      BY <1>5 DEF Refuse, Publishes
    <2>2. serving[w].id \notin Published
      BY <2>1 DEF Published, LiveVersions
    <2>3. AtMostOne(Published \ {serving[w].id})
      BY <1>5 DEF Orders, Orderly
    <2>4. AtMostOne(Published)'
      BY <1>2, <2>2, <2>3 DEF AtMostOne
    <2> QED
      BY <1>1, <1>2, <1>3, <2>4, OrdersMoves
  <1> QED
    BY <1>4, <1>5

\* A generation is asked for.
LEMMA OrdersLoad ==
  ASSUME Fits, Orders, NEW w \in Threads,
         \/ \E t \in Selectable :
              \/ \E v \in Versions, kind \in {"create_saas", "export"} :
                   LoadGeneration(w, kind, v, t)
              \/ \E j \in Jobs : LoadRetry(w, j, t)
         \/ \E v \in Versions, t \in {0} \cup Tenants : LoadApply(w, v, t)
  PROVE  Orders'
  <1>1. ASSUME NEW kind \in {"create_saas", "export", "apply"}, NEW v \in Versions, Live(v),
               NEW t \in {0} \cup Tenants, NEW retry \in Nat,
               Take(w, Generation(kind, v, t, retry)),
               serving[w] = NoRequest, UNCHANGED <<loaded, version>>
        PROVE  Orders'
    <2>1. Normalised(version[v].config) \in Configurations
      BY <1>1, NormalisedOnce DEF Fits, VersionsFit, Configurations
    <2>2. v \in Nat /\ t \in Nat
      BY FittingRows
    <2>3. PICK r : r = Generation(kind, v, t, retry)
      OBVIOUS
    <2>4. r.kind = kind
      BY <2>1, <2>2, <2>3, GenerationFields
    <2>5. r.kind \notin Writing \cup {"clone"}
      BY <2>4 DEF Writing
    <2>6. serving[w].kind \notin Publishes
      BY <1>1 DEF NoRequest, Publishes
    <2> QED
      BY <1>1, <2>3, <2>5, <2>6, OrdersStand
  <1>2. Selectable \subseteq {0} \cup Tenants
    BY DEF Selectable
  <1>3. ASSUME NEW t \in Selectable, NEW v \in Versions, NEW kind \in {"create_saas", "export"},
               LoadGeneration(w, kind, v, t)
        PROVE  Orders'
    <2>1. Live(v) /\ serving[w] = NoRequest /\ t \in {0} \cup Tenants
          /\ Take(w, Generation(kind, v, t, 0)) /\ UNCHANGED <<loaded, version>>
      BY <1>2, <1>3 DEF LoadGeneration, MayGenerate, MayServe
    <2> QED
      BY <1>1, <2>1
  <1>4. ASSUME NEW t \in Selectable, NEW j \in Jobs, LoadRetry(w, j, t) PROVE Orders'
    <2>1. PICK v : v = generated[j].version
      OBVIOUS
    <2>2. PICK kind : kind = generated[j].kind
      OBVIOUS
    <2>3. PICK retry : retry = generated[j].retry + 1
      OBVIOUS
    <2>4. kind \in {"create_saas", "export"} /\ retry \in Nat /\ v \in Versions
      <3>1. PICK P : generated[j] \in JobRows(P)
        BY FittingRows
      <3>2. v \in Versions
        BY <2>1 DEF Fits, JobsFit, LiveVersions
      <3> QED
        BY <2>2, <2>3, <3>1, <3>2 DEF JobRows
    <2>5. Live(v) /\ serving[w] = NoRequest /\ t \in {0} \cup Tenants
          /\ Take(w, Generation(kind, v, t, retry)) /\ UNCHANGED <<loaded, version>>
      BY <1>2, <1>4, <2>1, <2>2, <2>3 DEF LoadRetry, MayGenerate, MayServe
    <2> QED
      BY <1>1, <2>4, <2>5
  <1>5. ASSUME NEW v \in Versions, NEW t \in {0} \cup Tenants, LoadApply(w, v, t) PROVE Orders'
    <2>1. Live(v) /\ serving[w] = NoRequest /\ Take(w, Generation("apply", v, t, 0))
          /\ UNCHANGED <<loaded, version>>
      BY <1>5 DEF LoadApply, MayServe
    <2> QED
      BY <1>1, <2>1
  <1> QED
    BY <1>3, <1>4, <1>5

\* A generation is over, or a tenant changes.
LEMMA OrdersElse ==
  ASSUME Fits, Orders, NEW w \in Threads,
         \/ CreateSaas(w) \/ ExportCode(w) \/ ApplyVersion(w)
         \/ \E t \in Tenants : (\E status \in Statuses : SetStatus(w, t, status))
                                 \/ DestroyTenant(w, t)
  PROVE  Orders'
  <1>1. NoRequest.kind \notin Writing \cup {"clone"} /\ NoRequest.kind \notin Publishes
    BY DEF NoRequest, Writing, Publishes
  <1>2. CASE CreateSaas(w) \/ ExportCode(w) \/ ApplyVersion(w)
    <2>1. /\ Take(w, NoRequest) /\ UNCHANGED <<loaded, version>>
          /\ serving[w].kind \notin Publishes
      BY <1>2 DEF CreateSaas, ExportCode, ApplyVersion, Answered, Publishes
    <2> QED
      BY <1>1, <2>1, OrdersStand
  <1>3. CASE \E t \in Tenants : (\E status \in Statuses : SetStatus(w, t, status))
                                  \/ DestroyTenant(w, t)
    <2>1. serving[w] = NoRequest /\ UNCHANGED <<loaded, version, serving>>
      BY <1>3 DEF SetStatus, DestroyTenant, MayServe
    <2>2. Take(w, NoRequest)
      BY <2>1 DEF Take, Fits, RequestsFit
    <2> QED
      BY <1>1, <2>1, <2>2, OrdersStand
  <1> QED
    BY <1>2, <1>3

\* Nobody serves anything, and nothing is published, at first.
LEMMA FirstOrders == BlueprintsInit => Orders
  <1> SUFFICES ASSUME BlueprintsInit PROVE Orders
    OBVIOUS
  <1>1. Published = {}
    BY DEF BlueprintsInit, Published, LiveVersions, Versions
  <1>2. NoRequest.kind = "idle" /\ "idle" \notin Writing /\ "idle" \notin Publishes
    BY DEF NoRequest, Writing, Publishes
  <1>3. Orderly(NoRequest)
    BY <1>2 DEF Orderly, Publishes
  <1>4. \A w \in Threads : serving[w] = NoRequest
    BY DEF BlueprintsInit
  <1> QED
    BY <1>1, <1>2, <1>3, <1>4 DEF Orders, AtMostOne

\* Where what publishes is alone and edits are valid, what is published stays in order.
Sequential == PublishesAlone /\ EditsValid

\* Every step keeps what is published in order.
LEMMA OrdersStays ==
  ASSUME Fits, Sequential, Orders, BlueprintsNext
  PROVE  Orders'
  <1>1. PublishesAlone /\ EditsValid
    BY DEF Sequential
  <1>2. \A number : number \in {NextNumber} \cup Labels => number \in Nat
    BY NextIsNumber, BlueprintsAssumption
  <1>3. ASSUME NEW w \in Threads, NEW c \in mix.configs, NEW number \in {NextNumber} \cup Labels,
               NEW publish \in BOOLEAN, Create(w, c, number, publish)
        PROVE  Orders'
    <2>1. Normalised(c) \in NormalConfigs
      BY DEF Fits, NormalConfigs
    <2> QED
      BY <1>1, <1>2, <1>3, <2>1, OrdersNew DEF Create
  <1>4. ASSUME NEW w \in Threads, NEW v \in Versions, NEW number \in {NextNumber} \cup Labels,
               Clone(w, v, number)
        PROVE  Orders'
    <2>1. version[v].config \in NormalConfigs
      BY <1>4 DEF Fits, VersionsFit, Clone
    <2>2. Normalised(version[v].config) \in NormalConfigs
      BY <2>1, NormalisedOnce
    <2> QED
      BY <1>1, <1>2, <1>4, <2>2, OrdersNew DEF Clone
  <1> QED
    BY <1>1, <1>3, <1>4, BlueprintsSteps, OrdersEdit, OrdersLoadPublish, OrdersDestroy,
       OrdersInsert, OrdersPublish, OrdersSave, OrdersRepublish, OrdersLoad, OrdersElse,
       OrdersRefuse

\* What is tried together, and whether its edits are valid, stays as it is.
LEMMA SequentialStays == ASSUME UNCHANGED loaded PROVE Sequential' = Sequential
  <1>1. mix' = mix /\ needs' = needs /\ registry' = registry
    BY DEF loaded
  <1>2. PublishesAlone' = PublishesAlone
    BY <1>1 DEF PublishesAlone
  <1>3. EditsValid' = EditsValid
    BY <1>1 DEF EditsValid, Known, Generable
  <1> QED
    BY <1>2, <1>3 DEF Sequential

\* So it is of every behaviour.
Ordered == Sequential => Orders

\* And it always is.
LEMMA AlwaysOrdered == BlueprintsSpec => []Ordered
  <1>1. BlueprintsInit => Ordered
    BY FirstOrders DEF Ordered
  <1>2. Fits /\ Ordered /\ [BlueprintsNext]_blueprintsVars => Ordered'
    <2>1. ASSUME Fits, Ordered, BlueprintsNext PROVE Ordered'
      <3>1. Sequential' = Sequential
        BY <2>1, LoadedOnce, SequentialStays
      <3> QED
        BY <2>1, <3>1, OrdersStays DEF Ordered
    <2>2. ASSUME Ordered, UNCHANGED blueprintsVars PROVE Ordered'
      <3>1. Sequential' = Sequential
        BY <2>2, SequentialStays DEF blueprintsVars
      <3>2. Orders' = Orders
        BY <2>2 DEF blueprintsVars, loaded, Orders, OnlyWriter, NobodyPublishes, AtMostOne,
           Orderly, Generable, Published, LiveVersions, Live, Versions
      <3> QED
        BY <2>2, <3>1, <3>2 DEF Ordered
    <2> QED
      BY <2>1, <2>2
  <1> QED
    BY <1>1, <1>2, AlwaysFits, PTL DEF BlueprintsSpec

(***************************************************************************)
(* As long as what publishes does not overlap with anything else that does *)
(* (publish_blueprint_version locks nothing), one version at most is       *)
(* published when nobody is just publishing one.                           *)
(***************************************************************************)
THEOREM PublicationAlone == BlueprintsSpec => [](PublishesAlone => OnePublished)
  <1>1. Ordered => (PublishesAlone => OnePublished)
    <2> SUFFICES ASSUME Ordered, PublishesAlone, EditsValid,
                        ~ \E w \in Threads : serving[w].kind \in Publishes
                 PROVE  Cardinality(Published) <= 1
      BY Zenon DEF OnePublished, EditsValid, Publishes
    <2>1. AtMostOne(Published)
      BY DEF Ordered, Sequential, Orders, NobodyPublishes
    <2>2. CASE Published = {}
      BY <2>2, FS_EmptySet
    <2>3. CASE Published # {}
      <3>1. PICK x : Published = {x}
        BY <2>1, <2>3 DEF AtMostOne
      <3>2. Cardinality(Published) = 1
        BY <3>1, FS_Singleton
      <3> QED
        BY <3>2
    <2> QED
      BY <2>2, <2>3
  <1> QED
    BY <1>1, AlwaysOrdered, PTL

-----------------------------------------------------------------------------
(* Sequences of modules. *)

\* The members of a sequence are finitely many.
LEMMA MembersFinite == ASSUME NEW T, NEW s \in Seq(T) PROVE IsFiniteSet(ToSet(s))
  <1>1. Len(s) \in Nat /\ DOMAIN s = 1 .. Len(s)
    OBVIOUS
  <1>2. s \in Surjection(1 .. Len(s), ToSet(s))
    BY <1>1 DEF Surjection, ToSet
  <1> QED
    BY <1>1, <1>2, FS_NatSurjection DEF ExistsSurjection

\* A member more.
LEMMA ToSetAppend ==
  ASSUME NEW A, NEW s \in Seq(A), NEW x
  PROVE  ToSet(Append(s, x)) = ToSet(s) \cup {x}
  <1>1. s \in Seq(A \cup {x}) /\ x \in A \cup {x}
    OBVIOUS
  <1>2. PICK t : t = Append(s, x)
    OBVIOUS
  <1>3. DOMAIN s = 1 .. Len(s) /\ DOMAIN t = 1 .. Len(s) + 1 /\ Len(s) \in Nat
    BY <1>1, <1>2
  <1>4. t[Len(s) + 1] = x /\ \A i \in 1 .. Len(s) : t[i] = s[i]
    BY <1>1, <1>2
  <1>5. \A i : i \in DOMAIN t <=> i \in DOMAIN s \/ i = Len(s) + 1
    BY <1>3
  <1>6. {t[i] : i \in DOMAIN t} = {s[i] : i \in DOMAIN s} \cup {x}
    BY <1>3, <1>4, <1>5
  <1> QED
    BY <1>2, <1>6 DEF ToSet

-----------------------------------------------------------------------------
(* Folds over a sequence, and the states they run through. *)

\* The definitions the community modules make within LET, by name: a fold takes the key with
\* the greatest index of a set last.
FoldStep(e, base, s, g) == IF s = {} THEN base ELSE e[Max(s)][g[s \ {Max(s)}]]

IsFold(m, A, e, base, g) ==
  /\ g \in [SUBSET (1 .. m) -> A]
  /\ \A s \in SUBSET (1 .. m) : g[s] = FoldStep(e, base, s, g)

\* A set of indices that is not empty has a greatest one.
LEMMA MaxOf ==
  ASSUME NEW m \in Nat, NEW s \in SUBSET (1 .. m), s # {}
  PROVE  Max(s) \in s /\ \A y \in s : y <= Max(s)
  <1>1. IsFiniteSet(1 .. m)
    BY FS_Interval
  <1>2. IsFiniteSet(s) /\ AreNumbers(s)
    <2>1. IsFiniteSet(s)
      BY <1>1, FS_Subset
    <2>2. AreNumbers(s)
      BY DEF AreNumbers
    <2> QED
      BY <2>1, <2>2
  <1>3. PICK x \in s : \A y \in s : y <= x
    BY <1>2, LargestOf
  <1>4. \A y \in s : x >= y
    BY <1>2, <1>3 DEF AreNumbers
  <1>5. Max(s) \in s /\ \A y \in s : Max(s) >= y
    BY <1>3, <1>4 DEF Max
  <1> QED
    BY <1>2, <1>5 DEF AreNumbers

\* There is a function that satisfies the equation of a fold.
LEMMA FoldExists ==
  ASSUME NEW m \in Nat, NEW A, NEW base \in A, NEW e \in [1 .. m -> [A -> A]]
  PROVE  \E g : IsFold(m, A, e, base, g)
  <1> DEFINE FoldsTo(g, i) ==
               \A s \in SUBSET (1 .. m) : s \subseteq 1 .. i => g[s] = FoldStep(e, base, s, g)
             T == {i \in 0 .. m : \E g \in [SUBSET (1 .. m) -> A] : FoldsTo(g, i)}
  <1>1. 0 \in T
    <2> DEFINE g == [s \in SUBSET (1 .. m) |-> base]
    <2>1. g \in [SUBSET (1 .. m) -> A]
      OBVIOUS
    <2>2. \A s : s \subseteq 1 .. 0 => s = {}
      OBVIOUS
    <2>3. FoldsTo(g, 0)
      BY <2>2 DEF FoldStep
    <2> HIDE DEF g
    <2>4. 0 \in 0 .. m
      OBVIOUS
    <2> QED
      BY <2>1, <2>3, <2>4
  <1>2. ASSUME NEW i \in 0 .. m - 1, i \in T PROVE i + 1 \in T
    <2>1. PICK g \in [SUBSET (1 .. m) -> A] : FoldsTo(g, i)
      BY <1>2
    <2> DEFINE new(s) == e[Max(s)][g[s \ {Max(s)}]]
               h == [s \in SUBSET (1 .. m) |->
                       IF s \subseteq 1 .. i THEN g[s]
                       ELSE IF s \subseteq 1 .. i + 1 THEN new(s) ELSE base]
    <2>2. ASSUME NEW s \in SUBSET (1 .. m), s # {}
          PROVE  /\ Max(s) \in 1 .. m /\ s \ {Max(s)} \in SUBSET (1 .. m)
                 /\ Max(s) \in s /\ \A y \in s : y <= Max(s)
      BY <2>2, MaxOf
    <2>3. ASSUME NEW s \in SUBSET (1 .. m), s # {} PROVE new(s) \in A
      <3>1. g[s \ {Max(s)}] \in A
        BY <2>2, <2>3
      <3> QED
        BY <2>2, <2>3, <3>1
    <2>4. h \in [SUBSET (1 .. m) -> A]
      <3>1. \A s : ~ (s \subseteq 1 .. i) => s # {}
        OBVIOUS
      <3> HIDE DEF new
      <3> QED
        BY <2>3, <3>1
    <2>5. ASSUME NEW s \in SUBSET (1 .. m), s \subseteq 1 .. i + 1
          PROVE  h[s] = FoldStep(e, base, s, h)
      <3>1. CASE s = {}
        <4>1. h[s] = g[s] /\ g[s] = FoldStep(e, base, s, g)
          BY <2>1, <3>1
        <4> QED
          BY <3>1, <4>1 DEF FoldStep
      <3>2. CASE s # {}
        <4>1. s \ {Max(s)} \subseteq 1 .. i
          BY <2>2, <2>5, <3>2
        <4>2. h[s \ {Max(s)}] = g[s \ {Max(s)}]
          BY <2>2, <3>2, <4>1
        <4>3. h[s] = new(s)
          <5>1. CASE s \subseteq 1 .. i
            BY <2>1, <3>2, <5>1 DEF FoldStep
          <5>2. CASE ~ (s \subseteq 1 .. i)
            BY <2>5, <5>2
          <5> QED
            BY <5>1, <5>2
        <4> HIDE DEF h
        <4> QED
          BY <3>2, <4>2, <4>3 DEF FoldStep
      <3> QED
        BY <3>1, <3>2
    <2> HIDE DEF h
    <2>6. i + 1 \in 0 .. m /\ FoldsTo(h, i + 1)
      BY <2>5
    <2> QED
      BY <2>4, <2>6
  <1>3. m \in T
    <2> HIDE DEF T
    <2>1. 0 .. m \subseteq T
      BY <1>1, <1>2, CountUp
    <2> QED
      BY <2>1
  <1>4. PICK g \in [SUBSET (1 .. m) -> A] : FoldsTo(g, m)
    BY <1>3
  <1>5. IsFold(m, A, e, base, g)
    BY <1>4 DEF IsFold
  <1> QED
    BY <1>5

\* The first i indices, and the last of them.
LEMMA FirstOf ==
  ASSUME NEW m \in Nat, NEW i \in 1 .. m
  PROVE  /\ 1 .. i \in SUBSET (1 .. m) /\ 1 .. i - 1 \in SUBSET (1 .. m) /\ 1 .. i # {}
         /\ Max(1 .. i) = i /\ (1 .. i) \ {i} = 1 .. i - 1
  <1>1. 1 .. i \in SUBSET (1 .. m) /\ 1 .. i # {} /\ i \in 1 .. i
    <2>1. i \in 1 .. i
      OBVIOUS
    <2>2. \A y \in 1 .. i : y \in 1 .. m
      OBVIOUS
    <2> QED
      BY <2>1, <2>2
  <1>2. Max(1 .. i) \in 1 .. i /\ \A y \in 1 .. i : y <= Max(1 .. i)
    BY <1>1, MaxOf
  <1>3. Max(1 .. i) = i
    BY <1>1, <1>2
  <1>4. (1 .. i) \ {i} = 1 .. i - 1
    OBVIOUS
  <1>5. 1 .. i - 1 \in SUBSET (1 .. m)
    BY <1>1, <1>4
  <1> QED
    BY <1>1, <1>3, <1>4, <1>5

\* The definition of VisitAll, by name.
AllStep(f, base, keys, s, g) ==
  IF s = {} THEN base ELSE f[keys[Max(s)]][g[s \ {Max(s)}]]

\* The equation of the function that folds, by name.
AllFolded(f, base, keys, g) ==
  g = [s \in SUBSET DOMAIN keys |-> AllStep(f, base, keys, s, g)]

\* VisitAll is the last value of that function.
LEMMA VisitAllIs ==
  \A f, base, keys :
    VisitAll(f, base, keys) = (CHOOSE g : AllFolded(f, base, keys, g))[DOMAIN keys]
  BY DEF VisitAll, FoldLeft, MapThenFoldSet, AllFolded, AllStep

\* A visit of one key after the other goes through states: h has them.
Passes(f, base, keys, h) ==
  /\ h[0] = base
  /\ \A i \in 1 .. Len(keys) : h[i] = f[keys[i]][h[i - 1]]

\* The states that the visits pass through, one after the other.
PassesTo(A, f, base, keys, h, last) ==
  h \in [0 .. Len(keys) -> A] /\ Passes(f, base, keys, h) /\ last = h[Len(keys)]

\* Visits pass through such states, the first of them to the last.
LEMMA VisitAllPasses ==
  ASSUME NEW K, NEW A, NEW f, \A k \in K, a \in A : f[k][a] \in A, NEW base \in A,
         NEW keys \in Seq(K)
  PROVE  \E h : PassesTo(A, f, base, keys, h, VisitAll(f, base, keys))
  <1> DEFINE m == Len(keys)
             e == [i \in 1 .. m |-> [a \in A |-> f[keys[i]][a]]]
  <1>1. m \in Nat /\ DOMAIN keys = 1 .. m /\ \A i \in 1 .. m : keys[i] \in K
    OBVIOUS
  <1>2. e \in [1 .. m -> [A -> A]] /\ \A i \in 1 .. m, a \in A : e[i][a] = f[keys[i]][a]
    BY <1>1
  <1> HIDE DEF e, m
  <1>3. PICK g : IsFold(m, A, e, base, g)
    <2>1. m \in Nat /\ base \in A /\ e \in [1 .. m -> [A -> A]]
      BY <1>1, <1>2
    <2> QED
      BY <2>1, FoldExists
  <1>4. ASSUME NEW s \in SUBSET (1 .. m), s # {}
        PROVE  e[Max(s)][g[s \ {Max(s)}]] = f[keys[Max(s)]][g[s \ {Max(s)}]]
    <2>1. Max(s) \in 1 .. m
      BY <1>1, <1>4, MaxOf
    <2>2. g[s \ {Max(s)}] \in A
      BY <1>3 DEF IsFold
    <2> QED
      BY <1>2, <2>1, <2>2
  <1>5. AllFolded(f, base, keys, g)
    <2>1. \A s \in SUBSET (1 .. m) : g[s] = AllStep(f, base, keys, s, g)
      BY <1>3, <1>4 DEF IsFold, FoldStep, AllStep
    <2>2. g = [s \in SUBSET (1 .. m) |-> AllStep(f, base, keys, s, g)]
      BY <1>3, <2>1 DEF IsFold
    <2> QED
      BY <1>1, <2>2 DEF AllFolded
  <1>6. PICK c : c = CHOOSE x : AllFolded(f, base, keys, x)
    OBVIOUS
  <1>7. \A s \in SUBSET (1 .. m) : c[s] = AllStep(f, base, keys, s, c)
    <2>1. AllFolded(f, base, keys, c)
      BY <1>5, <1>6
    <2> QED
      BY <1>1, <2>1 DEF AllFolded
  <1> DEFINE h == [i \in 0 .. m |-> c[1 .. i]]
  <1>8. h[0] = base
    <2>1. 1 .. 0 = {} /\ 0 \in 0 .. m
      BY <1>1
    <2> QED
      BY <1>7, <2>1 DEF AllStep
  <1>9. ASSUME NEW i \in 1 .. m PROVE h[i] = f[keys[i]][h[i - 1]]
    <2>1. i \in 0 .. m /\ i - 1 \in 0 .. m
      BY <1>1
    <2>2. c[1 .. i] = f[keys[i]][c[1 .. i - 1]]
      BY <1>1, <1>7, FirstOf DEF AllStep
    <2> QED
      BY <2>1, <2>2
  <1>10. h = [i \in 0 .. m |-> h[i]]
    OBVIOUS
  <1>11. VisitAll(f, base, keys) = h[m]
    <2>1. m \in 0 .. m
      BY <1>1
    <2>2. VisitAll(f, base, keys) = c[DOMAIN keys]
      <3> HIDE DEF h
      <3> QED
        BY <1>6, VisitAllIs
    <2> QED
      BY <1>1, <2>1, <2>2
  <1> HIDE DEF h
  <1>12. 0 .. m \subseteq {i \in 0 .. m : h[i] \in A}
    <2> DEFINE T == {i \in 0 .. m : h[i] \in A}
    <2>1. 0 \in T
      BY <1>1, <1>8
    <2>2. ASSUME NEW i \in 0 .. m - 1, i \in T PROVE i + 1 \in T
      <3>1. i + 1 \in 1 .. m /\ i + 1 \in 0 .. m /\ (i + 1) - 1 = i
        BY <1>1
      <3> QED
        BY <1>1, <1>9, <2>2, <3>1
    <2> HIDE DEF T
    <2>3. 0 .. m \subseteq T
      BY <1>1, <2>1, <2>2, CountUp
    <2> QED
      BY <2>3 DEF T
  <1>13. h \in [0 .. m -> A]
    BY <1>10, <1>12
  <1>14. PassesTo(A, f, base, keys, h, VisitAll(f, base, keys))
    BY <1>8, <1>9, <1>11, <1>13 DEF PassesTo, Passes, m
  <1> QED
    BY <1>14

\* The definition of InOrder, by name.
KeptWith(S, k, kept) == IF k \in S THEN Append(kept, k) ELSE kept

\* What InOrder keeps, one position after the other.
KeepStep(q, S, s, g) ==
  IF s = {} THEN << >> ELSE KeptWith(S, q[Max(s)], g[s \ {Max(s)}])

AllKept(q, S, g) == g = [s \in SUBSET DOMAIN q |-> KeepStep(q, S, s, g)]

\* InOrder is the last value of that function.
LEMMA InOrderIs ==
  \A q, S : InOrder(q, S) = (CHOOSE g : AllKept(q, S, g))[DOMAIN q]
  BY DEF InOrder, FoldLeft, MapThenFoldSet, AllKept, KeepStep, KeptWith

\* What is kept of the first keys.
KeepsUp(q, S, h) ==
  /\ h[0] = << >>
  /\ \A i \in 1 .. Len(q) : h[i] = KeptWith(S, q[i], h[i - 1])

\* It keeps the members of S one after the other.
LEMMA InOrderPasses ==
  ASSUME NEW K, NEW q \in Seq(K), NEW S
  PROVE  \E h : /\ h \in [0 .. Len(q) -> Seq(K)]
                /\ KeepsUp(q, S, h) /\ InOrder(q, S) = h[Len(q)]
  <1> DEFINE m == Len(q)
             A == Seq(K)
             e == [i \in 1 .. m |-> [a \in A |-> KeptWith(S, q[i], a)]]
  <1>1. m \in Nat /\ DOMAIN q = 1 .. m /\ (\A i \in 1 .. m : q[i] \in K) /\ << >> \in A
    OBVIOUS
  <1>2. \A k \in K, a \in A : KeptWith(S, k, a) \in A
    BY DEF KeptWith
  <1> HIDE DEF m, A
  <1>3. e \in [1 .. m -> [A -> A]] /\ \A i \in 1 .. m, a \in A : e[i][a] = KeptWith(S, q[i], a)
    BY <1>1, <1>2
  <1> HIDE DEF e
  <1>4. PICK g : IsFold(m, A, e, << >>, g)
    <2>1. m \in Nat /\ << >> \in A /\ e \in [1 .. m -> [A -> A]]
      BY <1>1, <1>3
    <2> QED
      BY <2>1, FoldExists
  <1>5. ASSUME NEW s \in SUBSET (1 .. m), s # {}
        PROVE  e[Max(s)][g[s \ {Max(s)}]] = KeptWith(S, q[Max(s)], g[s \ {Max(s)}])
    <2>1. Max(s) \in 1 .. m
      BY <1>1, <1>5, MaxOf
    <2>2. g[s \ {Max(s)}] \in A
      BY <1>4 DEF IsFold
    <2> QED
      BY <1>3, <2>1, <2>2
  <1>6. AllKept(q, S, g)
    <2>1. \A s \in SUBSET (1 .. m) : g[s] = KeepStep(q, S, s, g)
      BY <1>4, <1>5 DEF IsFold, FoldStep, KeepStep
    <2>2. g = [s \in SUBSET (1 .. m) |-> KeepStep(q, S, s, g)]
      BY <1>4, <2>1 DEF IsFold
    <2> QED
      BY <1>1, <2>2 DEF AllKept
  <1>7. PICK c : c = CHOOSE x : AllKept(q, S, x)
    OBVIOUS
  <1>8. \A s \in SUBSET (1 .. m) : c[s] = KeepStep(q, S, s, c)
    <2>1. AllKept(q, S, c)
      BY <1>6, <1>7
    <2> QED
      BY <1>1, <2>1 DEF AllKept
  <1> DEFINE h == [i \in 0 .. m |-> c[1 .. i]]
  <1>9. h[0] = << >>
    <2>1. 1 .. 0 = {} /\ 0 \in 0 .. m
      BY <1>1
    <2> QED
      BY <1>8, <2>1 DEF KeepStep
  <1>10. ASSUME NEW i \in 1 .. m PROVE h[i] = KeptWith(S, q[i], h[i - 1])
    <2>1. i \in 0 .. m /\ i - 1 \in 0 .. m
      BY <1>1
    <2>2. c[1 .. i] = KeptWith(S, q[i], c[1 .. i - 1])
      <3>1. /\ 1 .. i \in SUBSET (1 .. m) /\ 1 .. i # {}
            /\ Max(1 .. i) = i /\ (1 .. i) \ {i} = 1 .. i - 1
        BY <1>1, FirstOf
      <3>2. c[1 .. i] = KeepStep(q, S, 1 .. i, c)
        BY <1>8, <3>1
      <3> QED
        BY <3>1, <3>2 DEF KeepStep
    <2> QED
      BY <2>1, <2>2
  <1>11. h = [i \in 0 .. m |-> h[i]]
    OBVIOUS
  <1>12. InOrder(q, S) = h[m]
    <2>1. m \in 0 .. m
      BY <1>1
    <2>2. InOrder(q, S) = c[DOMAIN q]
      <3> HIDE DEF h
      <3> QED
        BY <1>7, InOrderIs
    <2> QED
      BY <1>1, <2>1, <2>2
  <1> HIDE DEF h
  <1> DEFINE T == {i \in 0 .. m : h[i] \in A}
  <1>13. 0 \in T
    BY <1>1, <1>9
  <1>14. ASSUME NEW i \in 0 .. m - 1, i \in T PROVE i + 1 \in T
    <2>1. i + 1 \in 1 .. m /\ i + 1 \in 0 .. m /\ (i + 1) - 1 = i
      BY <1>1
    <2> QED
      BY <1>1, <1>2, <1>10, <1>14, <2>1
  <1>15. 0 .. m \subseteq T
    <2> HIDE DEF T
    <2> QED
      BY <1>1, <1>13, <1>14, CountUp
  <1>16. h \in [0 .. m -> A]
    BY <1>11, <1>15
  <1> QED
    BY <1>9, <1>10, <1>12, <1>16 DEF KeepsUp, m, A

\* What is kept of the first i keys.
KeptUp(K, q, S, h) ==
  \A i \in 0 .. Len(q) : /\ h[i] \in Seq(K \cap S)
                         /\ ToSet(h[i]) = {q[j] : j \in 1 .. i} \cap S

\* After each key, the members of S among the keys so far are kept.
LEMMA KeptSoFar ==
  ASSUME NEW K, NEW q \in Seq(K), NEW S, NEW h \in [0 .. Len(q) -> Seq(K)], KeepsUp(q, S, h)
  PROVE  KeptUp(K, q, S, h)
  <1>2. PICK m \in Nat : m = Len(q)
    OBVIOUS
  <1> DEFINE Some(i) == {q[j] : j \in 1 .. i} \cap S
             T == {i \in 0 .. m : h[i] \in Seq(K \cap S) /\ ToSet(h[i]) = Some(i)}
  <1>3. 0 \in T
    <2>1. h[0] = << >> /\ 0 \in 0 .. m /\ 1 .. 0 = {}
      BY <1>2 DEF KeepsUp
    <2>2. ToSet(<< >>) = {} /\ << >> \in Seq(K \cap S)
      BY DEF ToSet
    <2>3. Some(0) = {}
      BY <2>1
    <2> HIDE DEF Some
    <2> QED
      BY <2>1, <2>2, <2>3
  <1>4. ASSUME NEW i \in 0 .. m - 1, i \in T PROVE i + 1 \in T
    <2>1. i + 1 \in 1 .. m /\ i + 1 \in 0 .. m /\ (i + 1) - 1 = i
      BY <1>2
    <2>2. h[i + 1] = KeptWith(S, q[i + 1], h[i])
      BY <1>2, <2>1 DEF KeepsUp
    <2>3. q[i + 1] \in K /\ h[i] \in Seq(K \cap S) /\ ToSet(h[i]) = Some(i)
      BY <1>2, <1>4, <2>1
    <2>4. Some(i + 1) = Some(i) \cup ({q[i + 1]} \cap S)
      <3>1. 1 .. i + 1 = (1 .. i) \cup {i + 1}
        BY <2>1
      <3> QED
        BY <3>1
    <2>5. CASE q[i + 1] \in S
      <3>1. h[i + 1] = Append(h[i], q[i + 1])
        BY <2>2, <2>5 DEF KeptWith
      <3>2. ToSet(Append(h[i], q[i + 1])) = ToSet(h[i]) \cup {q[i + 1]}
        BY <2>3, <2>5, ToSetAppend
      <3>3. Append(h[i], q[i + 1]) \in Seq(K \cap S)
        BY <2>3, <2>5
      <3> HIDE DEF Some
      <3> QED
        BY <2>1, <2>3, <2>4, <2>5, <3>1, <3>2, <3>3
    <2>6. CASE q[i + 1] \notin S
      BY <2>1, <2>2, <2>3, <2>4, <2>6 DEF KeptWith
    <2> QED
      BY <2>5, <2>6
  <1>5. 0 .. m \subseteq T
    <2> HIDE DEF T
    <2> QED
      BY <1>3, <1>4, CountUp
  <1> QED
    BY <1>2, <1>5 DEF KeptUp

\* What is kept are the members that are in the set.
LEMMA InOrderOf ==
  ASSUME NEW K, NEW q \in Seq(K), NEW S
  PROVE  /\ InOrder(q, S) \in Seq(K \cap S)
         /\ ToSet(InOrder(q, S)) = ToSet(q) \cap S
  <1>1. PICK h : /\ h \in [0 .. Len(q) -> Seq(K)]
                 /\ KeepsUp(q, S, h) /\ InOrder(q, S) = h[Len(q)]
    BY InOrderPasses
  <1>2. PICK m \in Nat : m = Len(q) /\ m \in 0 .. m
    OBVIOUS
  <1>3. KeptUp(K, q, S, h)
    BY <1>1, KeptSoFar
  <1>4. h[m] \in Seq(K \cap S) /\ ToSet(h[m]) = {q[j] : j \in 1 .. m} \cap S
    BY <1>2, <1>3 DEF KeptUp
  <1>5. {q[j] : j \in 1 .. m} = ToSet(q)
    BY <1>2 DEF ToSet
  <1> QED
    BY <1>1, <1>2, <1>4, <1>5

-----------------------------------------------------------------------------
(* What a module needs. *)

\* The modules m says k needs, in n more steps.
Stage(m, k, n, g) ==
  IF n = 0 THEN m[k] ELSE g[n - 1] \cup UNION {m[d] : d \in g[n - 1] \cap DOMAIN m}

IsStages(m, k, N, g) == g = [n \in 0 .. N |-> Stage(m, k, n, g)]

Stages(m, k) == CHOOSE g : IsStages(m, k, Cardinality(DOMAIN m), g)

\* Behind is the last of these stages.
LEMMA BehindIsLast == \A k, m : Behind(k, m) = Stages(m, k)[Cardinality(DOMAIN m)]
  BY DEF Behind, Stages, IsStages, Stage

\* The function by which Behind is defined satisfies its equation.
LEMMA StagesExist ==
  ASSUME NEW m, NEW k, NEW N \in Nat
  PROVE  \E g : IsStages(m, k, N, g)
  <1> DEFINE S == {n \in 0 .. N : \E g : IsStages(m, k, n, g)}
  <1>1. 0 \in S
    <2> DEFINE g == [n \in 0 .. 0 |-> m[k]]
    <2>1. IsStages(m, k, 0, g)
      BY DEF IsStages, Stage
    <2> HIDE DEF g
    <2> QED
      BY <2>1
  <1>2. ASSUME NEW i \in 0 .. N - 1, i \in S PROVE i + 1 \in S
    <2>1. PICK g : IsStages(m, k, i, g)
      BY <1>2
    <2> DEFINE h == [n \in 0 .. i + 1 |-> IF n = i + 1 THEN Stage(m, k, i + 1, g) ELSE g[n]]
    <2>2. ASSUME NEW n \in 0 .. i + 1 PROVE h[n] = Stage(m, k, n, h)
      <3>1. CASE n = i + 1
        <4>1. i \in 0 .. i + 1 /\ i # i + 1 /\ n # 0 /\ n - 1 = i
          BY <1>2, <3>1
        <4>2. h[i] = g[i]
          BY <4>1
        <4>3. h[n] = Stage(m, k, n, g)
          BY <3>1
        <4> HIDE DEF h
        <4> QED
          BY <4>1, <4>2, <4>3 DEF Stage
      <3>2. CASE n # i + 1 /\ n # 0
        <4>1. n \in 0 .. i /\ n - 1 \in 0 .. i + 1 /\ n - 1 # i + 1
          BY <1>2, <3>2
        <4>2. h[n - 1] = g[n - 1] /\ h[n] = g[n]
          BY <4>1, <3>2
        <4>3. g[n] = Stage(m, k, n, g)
          BY <4>1, <2>1 DEF IsStages
        <4> HIDE DEF h
        <4> QED
          BY <3>2, <4>2, <4>3 DEF Stage
      <3>3. CASE n = 0
        <4>1. 0 \in 0 .. i /\ h[0] = g[0]
          BY <1>2
        <4>2. g[0] = Stage(m, k, 0, g)
          BY <4>1, <2>1 DEF IsStages
        <4> HIDE DEF h
        <4> QED
          BY <3>3, <4>1, <4>2 DEF Stage
      <3> QED
        BY <3>1, <3>2, <3>3
    <2>3. h = [n \in 0 .. i + 1 |-> h[n]]
      OBVIOUS
    <2>4. IsStages(m, k, i + 1, h)
      <3> HIDE DEF h
      <3> QED
        BY <2>2, <2>3 DEF IsStages
    <2> HIDE DEF h
    <2> QED
      BY <1>2, <2>4
  <1>3. 0 .. N \subseteq S
    <2> HIDE DEF S
    <2> QED
      BY <1>1, <1>2, CountUp
  <1> QED
    BY <1>3

\* A set with what k needs, and with what each of its members needs, has all that is behind k.
LEMMA BehindWithin ==
  ASSUME NEW m, IsFiniteSet(DOMAIN m), NEW S, NEW k, m[k] \subseteq S,
         \A d \in S \cap DOMAIN m : m[d] \subseteq S
  PROVE  Behind(k, m) \subseteq S
  <1>1. PICK N \in Nat : N = Cardinality(DOMAIN m)
    BY FS_CardinalityType
  <1>2. PICK g : g = Stages(m, k)
    OBVIOUS
  <1>3. IsStages(m, k, N, g)
    BY <1>1, <1>2, StagesExist DEF Stages
  <1>4. \A n \in 0 .. N : g[n] = Stage(m, k, n, g)
    BY <1>3 DEF IsStages
  <1> DEFINE T == {n \in 0 .. N : g[n] \subseteq S}
  <1>5. 0 \in T
    <2>1. 0 \in 0 .. N
      OBVIOUS
    <2>2. g[0] = Stage(m, k, 0, g)
      BY <1>4, <2>1
    <2>3. Stage(m, k, 0, g) = m[k]
      BY DEF Stage
    <2> QED
      BY <2>1, <2>2, <2>3
  <1>6. ASSUME NEW n \in 0 .. N - 1, n \in T PROVE n + 1 \in T
    <2>1. n + 1 \in 0 .. N /\ n + 1 # 0 /\ (n + 1) - 1 = n
      OBVIOUS
    <2>2. g[n + 1] = g[n] \cup UNION {m[d] : d \in g[n] \cap DOMAIN m}
      BY <1>4, <2>1 DEF Stage
    <2> QED
      BY <1>6, <2>1, <2>2
  <1>7. N \in T
    <2>1. 0 .. N \subseteq T
      <3> HIDE DEF T
      <3> QED
        BY <1>5, <1>6, CountUp
    <2> QED
      BY <2>1
  <1> QED
    BY <1>1, <1>2, <1>7, BehindIsLast

\* There are enough stages: what is behind k has what k needs, and what its members need.
LEMMA BehindCloses ==
  ASSUME NEW m, IsFiniteSet(DOMAIN m), NEW k
  PROVE  m[k] \subseteq Behind(k, m) /\ \A d \in Behind(k, m) \cap DOMAIN m : m[d] \subseteq Behind(k, m)
  <1>1. PICK N \in Nat : N = Cardinality(DOMAIN m)
    BY FS_CardinalityType
  <1>2. PICK g : g = Stages(m, k)
    OBVIOUS
  <1>3. IsStages(m, k, N, g)
    BY <1>1, <1>2, StagesExist DEF Stages
  <1>4. \A n \in 0 .. N : g[n] = Stage(m, k, n, g)
    BY <1>3 DEF IsStages
  <1> DEFINE D == DOMAIN m
             Shut(n) == \A d \in g[n] \cap D : m[d] \subseteq g[n]
             Size(n) == Cardinality(g[n] \cap D)
             T == {n \in 0 .. N : m[k] \subseteq g[n] /\ (Shut(n) \/ Size(n) >= n + 1)}
  <1>5. \A n : IsFiniteSet(g[n] \cap D) /\ Size(n) \in Nat /\ Size(n) <= N
    <2> TAKE n
    <2>1. g[n] \cap D \subseteq D
      OBVIOUS
    <2> QED
      BY <1>1, <2>1, FS_Subset, FS_CardinalityType
  <1>6. 0 \in T
    <2>1. 0 \in 0 .. N /\ g[0] = m[k]
      <3>1. 0 \in 0 .. N
        OBVIOUS
      <3> QED
        BY <1>4, <3>1 DEF Stage
    <2>2. CASE g[0] \cap D = {}
      BY <2>1, <2>2
    <2>3. CASE g[0] \cap D # {}
      <3>1. Size(0) # 0
        BY <1>5, <2>3, FS_EmptySet
      <3>2. Size(0) >= 0 + 1
        <4>1. PICK z : z = Size(0)
          OBVIOUS
        <4>2. z \in Nat /\ z # 0
          BY <1>5, <3>1, <4>1
        <4>3. z >= 0 + 1
          BY <4>2
        <4> QED
          BY <4>1, <4>3
      <3> QED
        BY <2>1, <3>2
    <2> QED
      BY <2>2, <2>3
  <1>7. ASSUME NEW n \in 0 .. N - 1, n \in T PROVE n + 1 \in T
    <2>1. n + 1 \in 0 .. N /\ n + 1 # 0 /\ (n + 1) - 1 = n
      OBVIOUS
    <2>2. g[n + 1] = g[n] \cup UNION {m[d] : d \in g[n] \cap D}
      BY <1>4, <2>1 DEF Stage
    <2>3. m[k] \subseteq g[n + 1]
      BY <1>7, <2>2
    <2>4. CASE Shut(n)
      <3>1. g[n + 1] = g[n]
        BY <2>2, <2>4
      <3> QED
        BY <2>1, <2>3, <2>4, <3>1
    <2>5. CASE ~ Shut(n) /\ g[n + 1] \cap D = g[n] \cap D
      <3>1. Shut(n + 1)
        BY <2>2, <2>5
      <3> QED
        BY <2>1, <2>3, <3>1
    <2>6. CASE ~ Shut(n) /\ g[n + 1] \cap D # g[n] \cap D
      <3>1. Size(n) >= n + 1
        BY <1>7, <2>6
      <3>2. g[n] \cap D \subseteq g[n + 1] \cap D
        BY <2>2
      <3>3. Size(n) < Size(n + 1)
        <4> DEFINE X == g[n] \cap D
                   Y == g[n + 1] \cap D
        <4>1. IsFiniteSet(Y) /\ IsFiniteSet(X) /\ X \subseteq Y /\ X # Y
          BY <1>5, <2>6, <3>2
        <4> HIDE DEF X, Y
        <4>2. Cardinality(X) \in Nat /\ Cardinality(Y) \in Nat /\ Cardinality(X) <= Cardinality(Y)
          BY <4>1, FS_Subset, FS_CardinalityType
        <4>3. Cardinality(X) # Cardinality(Y)
          BY <4>1, FS_Subset
        <4>4. Cardinality(X) < Cardinality(Y)
          BY <4>2, <4>3
        <4> QED
          BY <4>4 DEF X, Y
      <3>4. Size(n) \in Nat /\ Size(n + 1) \in Nat
        BY <1>5
      <3>5. Size(n + 1) >= (n + 1) + 1
        <4> HIDE DEF Size
        <4> QED
          BY <3>1, <3>3, <3>4
      <3> QED
        BY <2>1, <2>3, <3>5
    <2> QED
      BY <2>4, <2>5, <2>6
  <1>8. N \in T
    <2>1. 0 .. N \subseteq T
      <3> HIDE DEF T
      <3> QED
        BY <1>6, <1>7, CountUp
    <2> QED
      BY <2>1
  <1>9. Shut(N) /\ m[k] \subseteq g[N]
    <2>1. Size(N) \in Nat /\ Size(N) <= N
      BY <1>5
    <2>2. ~ (Size(N) >= N + 1)
      <3> HIDE DEF Size
      <3> QED
        BY <2>1
    <2> QED
      BY <1>8, <2>2
  <1> QED
    BY <1>1, <1>2, <1>9, BehindIsLast

\* A graph of which no module is behind itself, among the modules of K.
Layered(K, m) ==
  /\ IsFiniteSet(DOMAIN m) /\ K \subseteq DOMAIN m
  /\ \A k \in K : m[k] \subseteq K
  /\ \A k \in K : k \notin Behind(k, m)

\* How many modules are behind one.
Depth(k, m) == Cardinality(Behind(k, m))

\* What is behind modules of such a set are modules of it.
LEMMA BehindMembers ==
  ASSUME NEW m, IsFiniteSet(DOMAIN m), NEW K, K \subseteq DOMAIN m,
         \A k \in K : m[k] \subseteq K, NEW k \in K
  PROVE  /\ Behind(k, m) \subseteq K /\ IsFiniteSet(Behind(k, m)) /\ Depth(k, m) \in Nat
         /\ IsFiniteSet(K) /\ Cardinality(K) \in Nat /\ Depth(k, m) <= Cardinality(K)
  <1>1. Behind(k, m) \subseteq K
    BY BehindWithin
  <1> QED
    BY <1>1, FS_Subset, FS_CardinalityType DEF Depth

\* Behind what a module needs there is less than behind the module.
LEMMA DepthFalls ==
  ASSUME NEW m, NEW K, Layered(K, m), NEW k \in K, NEW d \in m[k]
  PROVE  /\ d \in K /\ Behind(d, m) \subseteq Behind(k, m) /\ d \in Behind(k, m)
         /\ Depth(d, m) \in Nat /\ Depth(k, m) \in Nat /\ Depth(d, m) < Depth(k, m)
  <1>1. IsFiniteSet(DOMAIN m) /\ K \subseteq DOMAIN m /\ d \in K /\ d \in DOMAIN m
    BY DEF Layered
  <1>2. /\ m[k] \subseteq Behind(k, m)
        /\ \A c \in Behind(k, m) \cap DOMAIN m : m[c] \subseteq Behind(k, m)
    BY <1>1, BehindCloses
  <1>3. d \in Behind(k, m) /\ m[d] \subseteq Behind(k, m)
    BY <1>1, <1>2
  <1>4. Behind(d, m) \subseteq Behind(k, m)
    BY <1>1, <1>2, <1>3, BehindWithin
  <1>5. d \notin Behind(d, m)
    BY <1>1 DEF Layered
  <1>6. /\ IsFiniteSet(Behind(k, m)) /\ IsFiniteSet(Behind(d, m))
        /\ Depth(d, m) \in Nat /\ Depth(k, m) \in Nat
    BY <1>1, BehindMembers DEF Layered
  <1>7. Depth(d, m) <= Depth(k, m) /\ Depth(d, m) # Depth(k, m)
    BY <1>3, <1>4, <1>5, <1>6, FS_Subset DEF Depth
  <1>8. Depth(d, m) < Depth(k, m)
    BY <1>6, <1>7
  <1> QED
    BY <1>1, <1>3, <1>4, <1>6, <1>8

-----------------------------------------------------------------------------
(* Visits. *)

\* f stays within some states, and g does the same there.
SameOn(K, B, f, g) == \A k \in K, a \in B : f[k][a] \in B /\ g[k][a] = f[k][a]

\* Two visits that do the same in all the states they come to are alike.
LEMMA VisitAllSame ==
  ASSUME NEW K, NEW B, NEW f, NEW g, NEW base \in B, NEW keys \in Seq(K), SameOn(K, B, f, g)
  PROVE  VisitAll(f, base, keys) = VisitAll(g, base, keys) /\ VisitAll(f, base, keys) \in B
  <1> USE DEF SameOn
  <1>1. PICK h : PassesTo(B, f, base, keys, h, VisitAll(f, base, keys))
    BY VisitAllPasses
  <1>2. PICK j : PassesTo(B, g, base, keys, j, VisitAll(g, base, keys))
    <2>1. \A k \in K, a \in B : g[k][a] \in B
      OBVIOUS
    <2> QED
      BY <2>1, VisitAllPasses
  <1>3. PICK m \in Nat : m = Len(keys)
    OBVIOUS
  <1>4. h \in [0 .. m -> B] /\ h[0] = base /\ \A i \in 1 .. m : h[i] = f[keys[i]][h[i - 1]]
    BY <1>1, <1>3 DEF PassesTo, Passes
  <1>5. j \in [0 .. m -> B] /\ j[0] = base /\ \A i \in 1 .. m : j[i] = g[keys[i]][j[i - 1]]
    BY <1>2, <1>3 DEF PassesTo, Passes
  <1> DEFINE T == {i \in 0 .. m : h[i] = j[i]}
  <1>6. 0 \in T
    BY <1>3, <1>4, <1>5
  <1>7. ASSUME NEW i \in 0 .. m - 1, i \in T PROVE i + 1 \in T
    <2>1. i + 1 \in 1 .. m /\ i + 1 \in 0 .. m /\ (i + 1) - 1 = i
      BY <1>3
    <2>2. keys[i + 1] \in K /\ h[i] \in B
      BY <1>3, <1>4, <2>1
    <2> QED
      BY <1>4, <1>5, <1>7, <2>1, <2>2
  <1>8. m \in T /\ m \in 0 .. m
    <2> HIDE DEF T
    <2>1. 0 .. m \subseteq T
      BY <1>3, <1>6, <1>7, CountUp
    <2> QED
      BY <1>3, <2>1
  <1> QED
    BY <1>1, <1>2, <1>3, <1>4, <1>8 DEF PassesTo

-----------------------------------------------------------------------------
(* Depth-first visits. *)

\* What a visit of k makes of a state: nothing but leaf[k] where it stops, and otherwise join[k]
\* of what the visits of next[k] make of enter[k].
Turn(v, f, k, s) ==
  IF s \in v.stop[k] THEN v.leaf[k][s]
  ELSE v.join[k][VisitAll(f, v.enter[k][s], v.next[k])]

Visitors(v) == [v.keys -> [v.states -> v.states]]

\* The parts of a visit.
VisitTyped(v) ==
  /\ v.next \in [v.keys -> Seq(v.keys)] /\ v.stop \in [v.keys -> SUBSET v.states]
  /\ v.leaf \in Visitors(v) /\ v.enter \in Visitors(v) /\ v.join \in Visitors(v)
  /\ v.after \in [v.states -> SUBSET v.states]
  /\ v.rank \in [v.keys -> [v.states -> Nat]]
  /\ v.most \in Nat /\ \A k \in v.keys, s \in v.states : v.rank[k][s] < v.most

\* after[s] has the states a visit may make of s.
VisitOnward(v) ==
  /\ \A s \in v.states : s \in v.after[s]
  /\ \A s \in v.states : \A t \in v.after[s] : v.after[t] \subseteq v.after[s]
  /\ \A k \in v.keys, s \in v.states : s \in v.stop[k] => v.leaf[k][s] \in v.after[s]
  /\ \A k \in v.keys, s \in v.states :
       s \notin v.stop[k] =>
         \A t \in v.after[v.enter[k][s]] : v.join[k][t] \in v.after[s]

\* What is visited within has a lower rank.
VisitFalls(v) ==
  \A k \in v.keys, s \in v.states :
    s \notin v.stop[k] =>
      \A d \in ToSet(v.next[k]), t \in v.after[v.enter[k][s]] : v.rank[d][t] < v.rank[k][s]

\* f does so up to a rank.
TurnsBelow(v, f, n) ==
  \A k \in v.keys, s \in v.states :
    v.rank[k][s] < n => f[k][s] = Turn(v, f, k, s) /\ f[k][s] \in v.after[s]

\* A turn needs no more of f than its values of lower rank.
LEMMA TurnSame ==
  ASSUME NEW v, VisitTyped(v), VisitOnward(v), VisitFalls(v), NEW n \in Nat,
         NEW f \in Visitors(v), NEW g \in Visitors(v), TurnsBelow(v, f, n),
         \A k \in v.keys, s \in v.states : v.rank[k][s] < n => g[k][s] = f[k][s],
         NEW k \in v.keys, NEW s \in v.states, v.rank[k][s] <= n
  PROVE  /\ Turn(v, f, k, s) = Turn(v, g, k, s) /\ Turn(v, f, k, s) \in v.after[s]
         /\ Turn(v, f, k, s) \in v.states
  <1>1. v.after[s] \subseteq v.states
    BY DEF VisitTyped
  <1>2. CASE s \in v.stop[k]
    BY <1>1, <1>2 DEF Turn, VisitOnward
  <1>3. CASE s \notin v.stop[k]
    <2>1. PICK base : base = v.enter[k][s]
      OBVIOUS
    <2>2. base \in v.states
      BY <2>1 DEF VisitTyped, Visitors
    <2>3. PICK B : B = v.after[base]
      OBVIOUS
    <2>4. base \in B /\ B \subseteq v.states
      BY <2>2, <2>3 DEF VisitTyped, VisitOnward
    <2>5. PICK keys : keys = v.next[k]
      OBVIOUS
    <2>6. keys \in Seq(v.keys) /\ keys \in Seq(ToSet(keys)) /\ ToSet(keys) \subseteq v.keys
      <3>1. keys \in Seq(v.keys)
        BY <2>5 DEF VisitTyped
      <3> QED
        BY <3>1 DEF ToSet
    <2>7. ASSUME NEW d \in ToSet(keys), NEW t \in B
          PROVE  f[d][t] \in B /\ g[d][t] = f[d][t]
      <3>1. d \in v.keys /\ t \in v.states
        BY <2>4, <2>6
      <3>2. v.rank[d][t] < v.rank[k][s]
        BY <1>3, <2>1, <2>3, <2>5 DEF VisitFalls
      <3>3. v.rank[d][t] \in Nat /\ v.rank[k][s] \in Nat
        BY <3>1 DEF VisitTyped
      <3>4. v.rank[d][t] < n
        BY <3>2, <3>3
      <3>5. f[d][t] \in v.after[t] /\ g[d][t] = f[d][t]
        BY <3>1, <3>4 DEF TurnsBelow
      <3>6. v.after[t] \subseteq B
        BY <2>2, <2>3 DEF VisitOnward
      <3> QED
        BY <3>5, <3>6
    <2>8. VisitAll(f, base, keys) = VisitAll(g, base, keys) /\ VisitAll(f, base, keys) \in B
      <3>1. base \in B /\ keys \in Seq(ToSet(keys))
        BY <2>4, <2>6
      <3>2. SameOn(ToSet(keys), B, f, g)
        BY <2>7 DEF SameOn
      <3> QED
        BY <3>1, <3>2, VisitAllSame
    <2>9. v.join[k][VisitAll(f, base, keys)] \in v.after[s]
      BY <1>3, <2>1, <2>3, <2>8 DEF VisitOnward
    <2> QED
      BY <1>1, <1>3, <2>1, <2>5, <2>8, <2>9 DEF Turn
  <1> QED
    BY <1>2, <1>3

\* There is such a visit.
LEMMA VisitExists ==
  ASSUME NEW v, VisitTyped(v), VisitOnward(v), VisitFalls(v)
  PROVE  \E f \in Visitors(v) : TurnsBelow(v, f, v.most)
  <1> DEFINE T == {n \in 0 .. v.most : \E f \in Visitors(v) : TurnsBelow(v, f, n)}
  <1>1. v.most \in Nat /\ \A k \in v.keys, s \in v.states : v.rank[k][s] \in Nat
    BY DEF VisitTyped
  <1>2. 0 \in T
    <2> DEFINE f == [k \in v.keys |-> [s \in v.states |-> s]]
    <2>1. f \in Visitors(v)
      BY DEF Visitors
    <2>2. TurnsBelow(v, f, 0)
      BY <1>1 DEF TurnsBelow
    <2> HIDE DEF f
    <2> QED
      BY <1>1, <2>1, <2>2
  <1>3. ASSUME NEW n \in 0 .. v.most - 1, n \in T PROVE n + 1 \in T
    <2>1. PICK f \in Visitors(v) : TurnsBelow(v, f, n)
      BY <1>3
    <2>2. n \in Nat
      BY <1>1
    <2> DEFINE g == [k \in v.keys |-> [s \in v.states |->
                       IF v.rank[k][s] < n THEN f[k][s]
                       ELSE IF v.rank[k][s] = n THEN Turn(v, f, k, s) ELSE s]]
    <2>3. \A k \in v.keys, s \in v.states :
            /\ v.rank[k][s] < n => g[k][s] = f[k][s]
            /\ v.rank[k][s] = n => g[k][s] = Turn(v, f, k, s)
      BY <1>1, <2>2
    <2>4. \A k \in v.keys, s \in v.states : v.rank[k][s] <= n =>
            Turn(v, f, k, s) \in v.states
      <3> TAKE k \in v.keys, s \in v.states
      <3> QED
        BY <2>1, <2>2, TurnSame
    <2>5. g \in Visitors(v)
      BY <1>1, <2>2, <2>4, <2>1 DEF Visitors
    <2> HIDE DEF g
    <2>6. TurnsBelow(v, g, n + 1)
      <3> SUFFICES ASSUME NEW k \in v.keys, NEW s \in v.states, v.rank[k][s] < n + 1
                   PROVE  g[k][s] = Turn(v, g, k, s) /\ g[k][s] \in v.after[s]
        BY DEF TurnsBelow
      <3>1. v.rank[k][s] <= n
        BY <1>1, <2>2
      <3>2. Turn(v, f, k, s) = Turn(v, g, k, s) /\ Turn(v, f, k, s) \in v.after[s]
        BY <2>1, <2>2, <2>3, <2>5, <3>1, TurnSame
      <3>3. g[k][s] = Turn(v, f, k, s)
        <4>1. CASE v.rank[k][s] < n
          BY <2>1, <2>3, <4>1 DEF TurnsBelow
        <4>2. CASE v.rank[k][s] = n
          BY <2>3, <4>2
        <4> QED
          BY <1>1, <2>2, <3>1, <4>1, <4>2
      <3> QED
        BY <3>2, <3>3
    <2>7. n + 1 \in 0 .. v.most
      BY <1>1
    <2> QED
      BY <2>5, <2>6, <2>7
  <1>4. v.most \in T
    <2> HIDE DEF T
    <2>1. 0 .. v.most \subseteq T
      BY <1>1, <1>2, <1>3, CountUp
    <2> QED
      BY <1>1, <2>1
  <1> QED
    BY <1>4

\* What a visit of each key does, and no visit of another undoes.
Does(K, A, f, done) ==
  \A k \in K, a \in A :
    /\ f[k][a] \in A /\ f[k][a] \in done[k]
    /\ \A j \in K : a \in done[j] => f[k][a] \in done[j]

\* Visits of all keys do for all of them.
LEMMA VisitAllDoes ==
  ASSUME NEW K, NEW A, NEW f, NEW base \in A, NEW keys \in Seq(K), NEW done, Does(K, A, f, done)
  PROVE  /\ VisitAll(f, base, keys) \in A
         /\ \A k \in ToSet(keys) : VisitAll(f, base, keys) \in done[k]
  <1>1. PICK h : PassesTo(A, f, base, keys, h, VisitAll(f, base, keys))
    <2>1. \A k \in K, a \in A : f[k][a] \in A
      BY DEF Does
    <2> QED
      BY <2>1, VisitAllPasses
  <1>2. PICK m \in Nat : m = Len(keys) /\ DOMAIN keys = 1 .. m /\ \A i \in 1 .. m : keys[i] \in K
    OBVIOUS
  <1>3. /\ h \in [0 .. m -> A] /\ h[0] = base /\ VisitAll(f, base, keys) = h[m]
        /\ \A i \in 1 .. m : h[i] = f[keys[i]][h[i - 1]]
    BY <1>1, <1>2 DEF PassesTo, Passes
  <1> DEFINE T == {i \in 0 .. m : \A j \in 1 .. i : h[i] \in done[keys[j]]}
  <1>4. 0 \in T
    BY <1>2
  <1>5. ASSUME NEW i \in 0 .. m - 1, i \in T PROVE i + 1 \in T
    <2>1. i + 1 \in 1 .. m /\ i + 1 \in 0 .. m /\ (i + 1) - 1 = i /\ i \in 0 .. m
      BY <1>2
    <2>2. h[i] \in A /\ keys[i + 1] \in K /\ h[i + 1] = f[keys[i + 1]][h[i]]
      BY <1>2, <1>3, <2>1
    <2>3. ASSUME NEW j \in 1 .. i + 1 PROVE h[i + 1] \in done[keys[j]]
      <3>1. CASE j = i + 1
        BY <2>2, <3>1 DEF Does
      <3>2. CASE j \in 1 .. i
        <4>1. h[i] \in done[keys[j]]
          BY <1>5, <3>2
        <4>2. keys[j] \in K
          BY <1>2, <2>1, <3>2
        <4> QED
          BY <2>2, <4>1, <4>2 DEF Does
      <3> QED
        BY <2>1, <3>1, <3>2
    <2> QED
      BY <2>1, <2>3
  <1>6. m \in T /\ m \in 0 .. m
    <2> HIDE DEF T
    <2>1. 0 .. m \subseteq T
      BY <1>2, <1>4, <1>5, CountUp
    <2> QED
      BY <1>2, <2>1
  <1>7. \A k \in ToSet(keys) : \E j \in 1 .. m : k = keys[j]
    BY <1>2 DEF ToSet
  <1> QED
    BY <1>3, <1>6, <1>7

-----------------------------------------------------------------------------
(* The modules of a plan. *)

\* Sets of modules with all that they need.
ClosedSets(K, m) == {R \in SUBSET K : \A d \in R : m[d] \subseteq R}

\* The definition of Visited, by name.
VisitedTurn(q, m, f, k, R) ==
  IF k \in R THEN R ELSE VisitAll(f, R, InOrder(q, m[k])) \cup {k}

IsVisited(q, m, f) ==
  f = [k \in ToSet(q) |-> [R \in SUBSET ToSet(q) |-> VisitedTurn(q, m, f, k, R)]]

\* Visited is the function that is defined so.
LEMMA VisitedIs == \A q, m : Visited(q, m) = CHOOSE f : IsVisited(q, m, f)
  BY DEF Visited, IsVisited, VisitedTurn

\* A visit of a plan as a depth-first visit: it ranks by what is behind a module.
VisitedParts(q, m) ==
  LET K == ToSet(q)
      Same == [k \in K |-> [R \in SUBSET K |-> R]]
  IN  [keys |-> K, states |-> SUBSET K,
       next |-> [k \in K |-> InOrder(q, m[k])],
       stop |-> [k \in K |-> {R \in SUBSET K : k \in R}],
       leaf |-> Same, enter |-> Same,
       join |-> [k \in K |-> [R \in SUBSET K |-> R \cup {k}]],
       after |-> [R \in SUBSET K |-> SUBSET K],
       rank |-> [k \in K |-> [R \in SUBSET K |-> Depth(k, m)]],
       most |-> Cardinality(K) + 1]

\* What is listed of a package, in its order.
LEMMA Listed ==
  ASSUME NEW q, q \in Seq(ToSet(q)), NEW S, S \subseteq ToSet(q)
  PROVE  InOrder(q, S) \in Seq(ToSet(q)) /\ InOrder(q, S) \in Seq(S) /\ ToSet(InOrder(q, S)) = S
  <1>1. InOrder(q, S) \in Seq(ToSet(q) \cap S) /\ ToSet(InOrder(q, S)) = ToSet(q) \cap S
    BY InOrderOf
  <1>2. ToSet(q) \cap S = S
    OBVIOUS
  <1>3. InOrder(q, S) \in Seq(S)
    BY <1>1, <1>2
  <1>4. InOrder(q, S) \in Seq(ToSet(q))
    BY <1>3
  <1> QED
    BY <1>1, <1>2, <1>3, <1>4

\* There is a function that satisfies its equation.
LEMMA VisitedSolved ==
  ASSUME NEW q, q \in Seq(ToSet(q)), NEW m, Layered(ToSet(q), m)
  PROVE  IsVisited(q, m, Visited(q, m))
  <1> DEFINE K == ToSet(q)
  <1>1. PICK v : v = VisitedParts(q, m)
    OBVIOUS
  <1>2. /\ v.keys = K /\ v.states = SUBSET K
        /\ v.next = [k \in K |-> InOrder(q, m[k])]
        /\ v.stop = [k \in K |-> {R \in SUBSET K : k \in R}]
        /\ v.leaf = [k \in K |-> [R \in SUBSET K |-> R]]
        /\ v.enter = [k \in K |-> [R \in SUBSET K |-> R]]
        /\ v.join = [k \in K |-> [R \in SUBSET K |-> R \cup {k}]]
        /\ v.after = [R \in SUBSET K |-> SUBSET K]
        /\ v.rank = [k \in K |-> [R \in SUBSET K |-> Depth(k, m)]]
        /\ v.most = Cardinality(K) + 1
    BY <1>1 DEF VisitedParts
  <1>3. \A k \in K : /\ InOrder(q, m[k]) \in Seq(K) /\ ToSet(InOrder(q, m[k])) = m[k]
                     /\ m[k] \subseteq K
    <2> TAKE k \in K
    <2>1. m[k] \subseteq K
      BY DEF Layered
    <2> QED
      BY <2>1, Listed
  <1>4. \A k \in K : /\ Depth(k, m) \in Nat /\ Cardinality(K) \in Nat
                     /\ Depth(k, m) < Cardinality(K) + 1
    <2> TAKE k \in K
    <2>1. Depth(k, m) \in Nat /\ Cardinality(K) \in Nat /\ Depth(k, m) <= Cardinality(K)
      BY BehindMembers DEF Layered
    <2> QED
      BY <2>1
  <1>5. Cardinality(K) \in Nat
    BY FS_Subset, FS_CardinalityType DEF Layered
  <1> HIDE DEF K
  <1>6. VisitTyped(v)
    BY <1>2, <1>3, <1>4, <1>5 DEF VisitTyped, Visitors
  <1>7. VisitOnward(v)
    BY <1>2 DEF VisitOnward
  <1>8. VisitFalls(v)
    <2> SUFFICES ASSUME NEW k \in K, NEW s \in SUBSET K, NEW d \in m[k], NEW t \in SUBSET K
                 PROVE  v.rank[d][t] < v.rank[k][s]
      <3>1. \A k \in K : ToSet(v.next[k]) = m[k]
        BY <1>2, <1>3
      <3>2. \A k \in K, s \in SUBSET K : v.after[v.enter[k][s]] = SUBSET K
        BY <1>2
      <3>3. v.keys = K /\ v.states = SUBSET K
        BY <1>2
      <3> QED
        BY <3>1, <3>2, <3>3 DEF VisitFalls
    <2>1. d \in K /\ Depth(d, m) < Depth(k, m)
      BY DepthFalls DEF K
    <2> QED
      BY <1>2, <2>1
  <1>9. PICK f \in Visitors(v) : TurnsBelow(v, f, v.most)
    BY <1>6, <1>7, <1>8, VisitExists
  <1>12. f \in [K -> [SUBSET K -> SUBSET K]]
    <2>1. v.keys = K /\ v.states = SUBSET K
      BY <1>2
    <2> QED
      BY <1>9, <2>1 DEF Visitors
  <1>10. ASSUME NEW k \in K, NEW R \in SUBSET K PROVE f[k][R] = VisitedTurn(q, m, f, k, R)
    <2>1. f[k][R] = Turn(v, f, k, R)
      <3>1. v.rank[k][R] < v.most
        BY <1>2, <1>4
      <3> QED
        BY <1>2, <1>9, <3>1 DEF TurnsBelow
    <2>2. CASE k \in R
      <3>1. R \in v.stop[k] /\ v.leaf[k][R] = R
        BY <1>2, <2>2
      <3> QED
        BY <2>1, <2>2, <3>1 DEF Turn, VisitedTurn
    <2>3. CASE k \notin R
      <3>1. R \notin v.stop[k] /\ v.enter[k][R] = R /\ v.next[k] = InOrder(q, m[k])
        BY <1>2, <2>3
      <3>2. PICK w : w = VisitAll(f, R, InOrder(q, m[k]))
        OBVIOUS
      <3>3. w \in SUBSET K
        <4>1. PICK h : PassesTo(SUBSET K, f, R, InOrder(q, m[k]), h, w)
          <5>1. \A d \in K, a \in SUBSET K : f[d][a] \in SUBSET K
            BY <1>12
          <5> QED
            BY <1>3, <3>2, <5>1, VisitAllPasses
        <4>2. Len(InOrder(q, m[k])) \in 0 .. Len(InOrder(q, m[k]))
          BY <1>3
        <4> QED
          BY <4>1, <4>2 DEF PassesTo
      <3>4. v.join[k][w] = w \cup {k}
        BY <1>2, <3>3
      <3> QED
        BY <2>1, <2>3, <3>1, <3>2, <3>4 DEF Turn, VisitedTurn
    <2> QED
      BY <2>2, <2>3
  <1>11. IsVisited(q, m, f)
    <2>1. f = [k \in K |-> [R \in SUBSET K |-> f[k][R]]]
      BY <1>12
    <2> QED
      BY <1>10, <2>1 DEF IsVisited, K
  <1> QED
    BY <1>11, VisitedIs

\* A visit of k adds k and what is behind it, and leaves a closed set closed.
Gathers(K, m, k, R, S) ==
  S \in ClosedSets(K, m) /\ R \subseteq S /\ k \in S /\ S \subseteq R \cup {k} \cup Behind(k, m)

\* So does every visit of a module, from every closed set.
LEMMA VisitedGathers ==
  ASSUME NEW q, q \in Seq(ToSet(q)), NEW m, Layered(ToSet(q), m),
         NEW k \in ToSet(q), NEW R \in ClosedSets(ToSet(q), m)
  PROVE  Gathers(ToSet(q), m, k, R, Visited(q, m)[k][R])
  <1> DEFINE K == ToSet(q)
             N == Cardinality(K) + 1
             f == Visited(q, m)
             T == {n \in 0 .. N : \A d \in K, S \in ClosedSets(K, m) :
                                    Depth(d, m) < n => Gathers(K, m, d, S, f[d][S])}
  <1>1. \A d \in K : /\ Depth(d, m) \in Nat /\ Cardinality(K) \in Nat
                     /\ Depth(d, m) <= Cardinality(K)
    BY BehindMembers DEF Layered
  <1>2. N \in Nat
    BY <1>1
  <1>3. 0 \in T
    BY <1>1, <1>2
  <1>4. ASSUME NEW d \in K, NEW S \in SUBSET K PROVE f[d][S] = VisitedTurn(q, m, f, d, S)
    <2>1. IsVisited(q, m, f)
      BY VisitedSolved
    <2> HIDE DEF f
    <2>2. f[d] = [U \in SUBSET K |-> VisitedTurn(q, m, f, d, U)]
      <3>1. f = [c \in K |-> [U \in SUBSET K |-> VisitedTurn(q, m, f, c, U)]]
        BY <2>1 DEF IsVisited
      <3> HIDE DEF K
      <3> QED
        BY ONLY <3>1, d \in K
    <2> HIDE DEF K
    <2> QED
      BY <2>2
  <1> HIDE DEF f, K, N
  <1>5. ASSUME NEW n \in 0 .. N - 1, n \in T PROVE n + 1 \in T
    <2>1. n \in Nat /\ n + 1 \in 0 .. N
      BY <1>2
    <2>2. ASSUME NEW d \in K, NEW S \in ClosedSets(K, m), Depth(d, m) < n + 1
          PROVE  Gathers(K, m, d, S, f[d][S])
      <3>1. S \in SUBSET K /\ f[d][S] = VisitedTurn(q, m, f, d, S)
        BY <1>4 DEF ClosedSets
      <3>2. CASE d \in S
        BY <3>1, <3>2 DEF VisitedTurn, Gathers
      <3>3. CASE d \notin S
        <4>1. PICK keys : keys = InOrder(q, m[d])
          OBVIOUS
        <4>2. keys \in Seq(m[d]) /\ ToSet(keys) = m[d] /\ m[d] \subseteq K
          <5>1. m[d] \subseteq K
            BY DEF Layered, K
          <5> QED
            BY <4>1, <5>1, Listed DEF K
        <4> DEFINE A == {U \in ClosedSets(K, m) : S \subseteq U /\ U \subseteq S \cup Behind(d, m)}
                   done == [c \in K |-> {U \in SUBSET K : c \in U}]
        <4>3. Does(m[d], A, f, done)
          <5> SUFFICES ASSUME NEW c \in m[d], NEW U \in A
                       PROVE  /\ f[c][U] \in A /\ f[c][U] \in done[c]
                              /\ \A j \in m[d] : U \in done[j] => f[c][U] \in done[j]
            BY DEF Does
          <5>1. /\ c \in K /\ Behind(c, m) \subseteq Behind(d, m) /\ c \in Behind(d, m)
                /\ Depth(c, m) < Depth(d, m) /\ Depth(c, m) \in Nat /\ Depth(d, m) \in Nat
            BY DepthFalls DEF K
          <5>2. Depth(c, m) < n
            BY <2>1, <2>2, <5>1
          <5>3. Gathers(K, m, c, U, f[c][U])
            BY <1>5, <5>1, <5>2
          <5>4. f[c][U] \in A
            BY <5>1, <5>3 DEF Gathers
          <5>5. f[c][U] \in SUBSET K /\ U \subseteq f[c][U] /\ c \in f[c][U]
            BY <5>3 DEF Gathers, ClosedSets
          <5> QED
            BY <4>2, <5>1, <5>4, <5>5
        <4>4. S \in A
          OBVIOUS
        <4>5. PICK W : W = VisitAll(f, S, keys)
          OBVIOUS
        <4>6. W \in A /\ \A c \in m[d] : W \in done[c]
          <5> HIDE DEF A, done
          <5> QED
            BY <4>2, <4>3, <4>4, <4>5, VisitAllDoes
        <4>7. m[d] \subseteq W
          BY <4>2, <4>6
        <4>8. f[d][S] = W \cup {d}
          BY <3>1, <3>3, <4>1, <4>5 DEF VisitedTurn
        <4>9. W \cup {d} \in ClosedSets(K, m)
          BY <4>6, <4>7 DEF ClosedSets
        <4> QED
          BY <4>6, <4>8, <4>9 DEF Gathers
      <3> QED
        BY <3>2, <3>3
    <2> QED
      BY <2>1, <2>2
  <1>6. N \in T
    <2> HIDE DEF T
    <2>1. 0 .. N \subseteq T
      BY <1>2, <1>3, <1>5, CountUp
    <2> QED
      BY <1>2, <2>1
  <1>7. Depth(k, m) < N
    BY <1>1 DEF K, N
  <1> QED
    BY <1>6, <1>7 DEF K, f

\* A plan has the modules requested, what is behind them, and nothing else.
LEMMA ResolvedGathers ==
  ASSUME NEW q, q \in Seq(ToSet(q)), NEW m, Layered(ToSet(q), m), NEW S, S \subseteq ToSet(q)
  PROVE  /\ Resolved(q, S, m) \in ClosedSets(ToSet(q), m) /\ S \subseteq Resolved(q, S, m)
         /\ \A x \in Resolved(q, S, m) \ S : \E d \in S : x \in Behind(d, m)
  <1> DEFINE K == ToSet(q)
             f == Visited(q, m)
             A == {U \in ClosedSets(K, m) : \A x \in U \ S : \E d \in S : x \in Behind(d, m)}
             done == [c \in K |-> {U \in SUBSET K : c \in U}]
  <1>1. PICK keys : keys = InOrder(q, S)
    OBVIOUS
  <1>2. keys \in Seq(S) /\ ToSet(keys) = S
    BY <1>1, Listed
  <1>3. Does(S, A, f, done)
    <2> SUFFICES ASSUME NEW c \in S, NEW U \in A
                 PROVE  /\ f[c][U] \in A /\ f[c][U] \in done[c]
                        /\ \A j \in S : U \in done[j] => f[c][U] \in done[j]
      BY DEF Does
    <2>1. Gathers(K, m, c, U, f[c][U])
      BY VisitedGathers
    <2> HIDE DEF f, K
    <2>2. f[c][U] \in A
      BY <2>1 DEF Gathers
    <2>3. f[c][U] \in SUBSET K /\ U \subseteq f[c][U] /\ c \in f[c][U]
      BY <2>1 DEF Gathers, ClosedSets
    <2>4. S \subseteq K
      BY DEF K
    <2> QED
      BY <2>2, <2>3, <2>4
  <1>4. {} \in A
    BY DEF ClosedSets
  <1>5. PICK W : W = VisitAll(f, {}, keys)
    OBVIOUS
  <1>6. W \in A /\ \A c \in S : W \in done[c]
    <2> HIDE DEF A, done, f
    <2> QED
      BY <1>2, <1>3, <1>4, <1>5, VisitAllDoes
  <1>7. W = Resolved(q, S, m)
    BY <1>1, <1>5 DEF Resolved
  <1>8. S \subseteq W
    BY <1>6
  <1> QED
    BY <1>6, <1>7, <1>8

-----------------------------------------------------------------------------
(* The order in which modules are loaded. *)

\* Dependencies first, said of the elements.
Preceded(s, m) ==
  /\ \A i, j \in DOMAIN s : s[i] = s[j] => i = j
  /\ \A i \in DOMAIN s : \A d \in m[s[i]] : \E j \in 1 .. i - 1 : s[j] = d

\* The two ways to say so are the same.
LEMMA PrecededIs ==
  ASSUME NEW K, NEW s \in Seq(K), NEW m
  PROVE  DependenciesFirst(s, m) <=> Preceded(s, m)
  <1>1. DOMAIN s = 1 .. Len(s) /\ Len(s) \in Nat
    OBVIOUS
  <1>2. ASSUME NEW i \in DOMAIN s
        PROVE  ToSet(SubSeq(s, 1, i - 1)) = {s[j] : j \in 1 .. i - 1}
    <2>1. PICK t : t = SubSeq(s, 1, i - 1)
      OBVIOUS
    <2>2. i \in Nat /\ i >= 1 /\ i <= Len(s)
      BY <1>1
    <2>3. /\ t \in Seq(K) /\ Len(t) = i - 1
          /\ \A j \in 1 .. i - 1 : t[j] = s[j]
      BY <1>1, <2>1, <2>2
    <2>4. DOMAIN t = 1 .. i - 1
      BY <2>2, <2>3
    <2> QED
      BY <2>1, <2>3, <2>4 DEF ToSet
  <1>3. IsInjective(s) <=> \A i, j \in DOMAIN s : s[i] = s[j] => i = j
    BY DEF IsInjective
  <1>4. ASSUME NEW i \in DOMAIN s
        PROVE  (m[s[i]] \subseteq ToSet(SubSeq(s, 1, i - 1)))
                 <=> \A d \in m[s[i]] : \E j \in 1 .. i - 1 : s[j] = d
    BY <1>2
  <1> QED
    BY <1>3, <1>4 DEF DependenciesFirst, Preceded

\* What is listed with dependencies first has all of them.
LEMMA PrecededCloses ==
  ASSUME NEW K, NEW s \in Seq(K), NEW m, Preceded(s, m)
  PROVE  \A d \in ToSet(s) : m[d] \subseteq ToSet(s)
  <1>1. DOMAIN s = 1 .. Len(s) /\ Len(s) \in Nat
    OBVIOUS
  <1> SUFFICES ASSUME NEW i \in DOMAIN s, NEW d \in m[s[i]] PROVE d \in ToSet(s)
    BY DEF ToSet
  <1>2. PICK j \in 1 .. i - 1 : s[j] = d
    BY DEF Preceded
  <1>3. j \in DOMAIN s
    BY <1>1
  <1> QED
    BY <1>2, <1>3 DEF ToSet

\* A module may be listed next when those it needs are listed.
LEMMA PrecededAppend ==
  ASSUME NEW K, NEW s \in Seq(K), NEW m, Preceded(s, m), NEW k, k \notin ToSet(s),
         m[k] \subseteq ToSet(s)
  PROVE  Preceded(Append(s, k), m)
  <1>1. s \in Seq(K \cup {k}) /\ k \in K \cup {k}
    OBVIOUS
  <1>2. PICK t : t = Append(s, k)
    OBVIOUS
  <1>3. PICK n \in Nat : n = Len(s)
    OBVIOUS
  <1>4. /\ DOMAIN s = 1 .. n /\ DOMAIN t = 1 .. n + 1 /\ t[n + 1] = k
        /\ \A i \in 1 .. n : t[i] = s[i]
    BY <1>1, <1>2, <1>3
  <1>5. \A i \in 1 .. n : s[i] # k
    BY <1>4 DEF ToSet
  <1>6. \A i \in 1 .. n + 1 : i \in 1 .. n \/ i = n + 1
    OBVIOUS
  <1>7. \A i, j \in DOMAIN t : t[i] = t[j] => i = j
    BY <1>4, <1>5, <1>6 DEF Preceded
  <1>8. ASSUME NEW i \in DOMAIN t, NEW d \in m[t[i]] PROVE \E j \in 1 .. i - 1 : t[j] = d
    <2>1. CASE i \in 1 .. n
      <3>1. PICK j \in 1 .. i - 1 : s[j] = d
        BY <1>4, <1>8, <2>1 DEF Preceded
      <3>2. j \in 1 .. n
        BY <2>1
      <3> QED
        BY <1>4, <3>1, <3>2
    <2>2. CASE i = n + 1
      <3>1. PICK j \in DOMAIN s : s[j] = d
        BY <1>4, <1>8, <2>2 DEF ToSet
      <3>2. j \in 1 .. i - 1
        BY <1>4, <2>2
      <3> QED
        BY <1>4, <3>1, <3>2
    <2> QED
      BY <1>4, <1>6, <2>1, <2>2
  <1>9. Preceded(t, m)
    BY <1>7, <1>8 DEF Preceded
  <1> QED
    BY <1>2, <1>9

\* The definition of Sorted, by name.
SortStates(K) == [ordered : Seq(K), visiting : SUBSET K]

Met(k, s) == k \in ToSet(s.ordered) \cup s.visiting
Begun(k, s) == [s EXCEPT !.visiting = @ \cup {k}]
PutLast(k, s) == [s EXCEPT !.visiting = @ \ {k}, !.ordered = Append(@, k)]

SortedTurn(q, m, f, k, s) ==
  IF Met(k, s) THEN s ELSE PutLast(k, VisitAll(f, Begun(k, s), InOrder(q, m[k])))

\* The equation of Sorted, by name.
IsSorting(q, m, f) ==
  f = [k \in ToSet(q) |-> [s \in SortStates(ToSet(q)) |-> SortedTurn(q, m, f, k, s)]]

\* Sorted is the function that is defined so.
LEMMA SortedIs == \A q, m : Sorted(q, m) = CHOOSE f : IsSorting(q, m, f)
  BY DEF Sorted, IsSorting, SortedTurn, SortStates, Met, Begun, PutLast

\* A visit of the loader as a depth-first visit, with the same rank.
SortedParts(q, m) ==
  LET K == ToSet(q)
      S == SortStates(K)
  IN  [keys |-> K, states |-> S,
       next |-> [k \in K |-> InOrder(q, m[k])],
       stop |-> [k \in K |-> {s \in S : Met(k, s)}],
       leaf |-> [k \in K |-> [s \in S |-> s]],
       enter |-> [k \in K |-> [s \in S |-> Begun(k, s)]],
       join |-> [k \in K |-> [s \in S |-> PutLast(k, s)]],
       after |-> [s \in S |-> S],
       rank |-> [k \in K |-> [s \in S |-> Depth(k, m)]],
       most |-> Cardinality(K) + 1]

\* There is a function that satisfies its equation.
LEMMA SortedSolved ==
  ASSUME NEW q, q \in Seq(ToSet(q)), NEW m, Layered(ToSet(q), m)
  PROVE  IsSorting(q, m, Sorted(q, m))
  <1> DEFINE K == ToSet(q)
             S == SortStates(K)
  <1>1. PICK v : v = SortedParts(q, m)
    OBVIOUS
  <1>2. /\ v.keys = K /\ v.states = S
        /\ v.next = [k \in K |-> InOrder(q, m[k])]
        /\ v.stop = [k \in K |-> {s \in S : Met(k, s)}]
        /\ v.leaf = [k \in K |-> [s \in S |-> s]]
        /\ v.enter = [k \in K |-> [s \in S |-> Begun(k, s)]]
        /\ v.join = [k \in K |-> [s \in S |-> PutLast(k, s)]]
        /\ v.after = [s \in S |-> S]
        /\ v.rank = [k \in K |-> [s \in S |-> Depth(k, m)]]
        /\ v.most = Cardinality(K) + 1
    BY <1>1 DEF SortedParts
  <1>3. \A k \in K : /\ InOrder(q, m[k]) \in Seq(K) /\ ToSet(InOrder(q, m[k])) = m[k]
                     /\ m[k] \subseteq K
    <2> TAKE k \in K
    <2>1. m[k] \subseteq K
      BY DEF Layered
    <2> QED
      BY <2>1, Listed
  <1>4. \A k \in K : /\ Depth(k, m) \in Nat /\ Cardinality(K) \in Nat
                     /\ Depth(k, m) < Cardinality(K) + 1
    <2> TAKE k \in K
    <2>1. Depth(k, m) \in Nat /\ Cardinality(K) \in Nat /\ Depth(k, m) <= Cardinality(K)
      BY BehindMembers DEF Layered
    <2> QED
      BY <2>1
  <1>5. Cardinality(K) \in Nat
    BY FS_Subset, FS_CardinalityType DEF Layered
  <1>6. \A k \in K, s \in S : Begun(k, s) \in S /\ PutLast(k, s) \in S
    <2> TAKE k \in K, s \in S
    <2> HIDE DEF K
    <2>1. Append(s.ordered, k) \in Seq(K) /\ s.visiting \cup {k} \in SUBSET K
      BY DEF SortStates
    <2> QED
      BY <2>1 DEF SortStates, Begun, PutLast
  <1> HIDE DEF K, S
  <1>7. VisitTyped(v)
    <2>1. v.next \in [K -> Seq(K)] /\ v.stop \in [K -> SUBSET S] /\ v.leaf \in [K -> [S -> S]]
      BY <1>2, <1>3
    <2>2. v.enter \in [K -> [S -> S]]
      BY <1>2, <1>6
    <2>3. v.join \in [K -> [S -> S]]
      BY <1>2, <1>6
    <2>4. v.after \in [S -> SUBSET S] /\ v.rank \in [K -> [S -> Nat]] /\ v.most \in Nat
      BY <1>2, <1>4, <1>5
    <2>5. \A k \in K, s \in S : v.rank[k][s] < v.most
      BY <1>2, <1>4
    <2> QED
      BY <1>2, <2>1, <2>2, <2>3, <2>4, <2>5 DEF VisitTyped, Visitors
  <1>8. VisitOnward(v)
    <2>1. \A s \in S : v.after[s] = S
      BY <1>2
    <2>2. \A k \in K, s \in S : v.leaf[k][s] \in S /\ v.enter[k][s] \in S /\ v.join[k][s] \in S
      BY <1>2, <1>6
    <2>3. v.keys = K /\ v.states = S
      BY <1>2
    <2> QED
      BY <2>1, <2>2, <2>3 DEF VisitOnward
  <1>9. VisitFalls(v)
    <2> SUFFICES ASSUME NEW k \in K, NEW s \in S, NEW d \in m[k], NEW t \in S
                 PROVE  v.rank[d][t] < v.rank[k][s]
      <3>1. \A k \in K : ToSet(v.next[k]) = m[k]
        BY <1>2, <1>3
      <3>2. \A k \in K, s \in S : v.after[v.enter[k][s]] = S
        <4> TAKE k \in K, s \in S
        <4>1. v.enter[k][s] \in S
          BY <1>2, <1>6
        <4> QED
          BY <1>2, <4>1
      <3>3. v.keys = K /\ v.states = S
        BY <1>2
      <3> QED
        BY <3>1, <3>2, <3>3 DEF VisitFalls
    <2>1. d \in K /\ Depth(d, m) < Depth(k, m)
      BY DepthFalls DEF K
    <2> QED
      BY <1>2, <2>1
  <1>10. PICK f \in Visitors(v) : TurnsBelow(v, f, v.most)
    BY <1>7, <1>8, <1>9, VisitExists
  <1>11. f \in [K -> [S -> S]]
    <2>1. v.keys = K /\ v.states = S
      BY <1>2
    <2> QED
      BY <1>10, <2>1 DEF Visitors
  <1>12. ASSUME NEW k \in K, NEW s \in S PROVE f[k][s] = SortedTurn(q, m, f, k, s)
    <2>1. f[k][s] = Turn(v, f, k, s)
      <3>1. v.rank[k][s] < v.most
        BY <1>2, <1>4
      <3> QED
        BY <1>2, <1>10, <3>1 DEF TurnsBelow
    <2>2. CASE Met(k, s)
      <3>1. s \in v.stop[k] /\ v.leaf[k][s] = s
        BY <1>2, <2>2
      <3> QED
        BY <2>1, <2>2, <3>1 DEF Turn, SortedTurn
    <2>3. CASE ~ Met(k, s)
      <3>1. PICK e : e = Begun(k, s)
        OBVIOUS
      <3>2. s \notin v.stop[k] /\ v.enter[k][s] = e /\ v.next[k] = InOrder(q, m[k]) /\ e \in S
        <4>1. s \notin v.stop[k]
          BY <1>2, <2>3
        <4>2. v.enter[k][s] = e /\ e \in S
          BY <1>2, <1>6, <3>1
        <4> QED
          BY <1>2, <4>1, <4>2
      <3>3. PICK w : w = VisitAll(f, e, InOrder(q, m[k]))
        OBVIOUS
      <3>4. w \in S
        <4>1. PICK h : PassesTo(S, f, e, InOrder(q, m[k]), h, w)
          <5>1. \A d \in K, a \in S : f[d][a] \in S
            BY <1>11
          <5> QED
            BY <1>3, <3>2, <3>3, <5>1, VisitAllPasses
        <4>2. Len(InOrder(q, m[k])) \in 0 .. Len(InOrder(q, m[k]))
          BY <1>3
        <4> QED
          BY <4>1, <4>2 DEF PassesTo
      <3>5. v.join[k][w] = PutLast(k, w)
        BY <1>2, <3>4
      <3>6. f[k][s] = v.join[k][w]
        BY <2>1, <3>2, <3>3 DEF Turn
      <3> QED
        BY <2>3, <3>1, <3>3, <3>5, <3>6 DEF SortedTurn
    <2> QED
      BY <2>2, <2>3
  <1>13. IsSorting(q, m, f)
    <2>1. f = [k \in K |-> [s \in S |-> f[k][s]]]
      BY <1>11
    <2>2. f = [k \in K |-> [s \in S |-> SortedTurn(q, m, f, k, s)]]
      BY <1>12, <2>1
    <2> QED
      BY <2>2 DEF IsSorting, K, S
  <1> QED
    BY <1>13, SortedIs

\* A visit lists k and what is behind it, after what is listed already.
Lists(K, m, k, s, t) ==
  /\ t \in SortStates(K) /\ t.visiting = s.visiting /\ Preceded(t.ordered, m)
  /\ ToSet(s.ordered) \subseteq ToSet(t.ordered) /\ k \in ToSet(t.ordered)
  /\ ToSet(t.ordered) \subseteq ToSet(s.ordered) \cup {k} \cup Behind(k, m)

\* States in which k may be visited.
MayList(K, m, k, s) ==
  /\ s \in SortStates(K) /\ Preceded(s.ordered, m)
  /\ s.visiting \cap ({k} \cup Behind(k, m)) = {}

\* So does every visit of a module that is not behind itself.
LEMMA SortedLists ==
  ASSUME NEW q, q \in Seq(ToSet(q)), NEW m, Layered(ToSet(q), m),
         NEW k \in ToSet(q), NEW s, MayList(ToSet(q), m, k, s)
  PROVE  Lists(ToSet(q), m, k, s, Sorted(q, m)[k][s])
  <1> DEFINE K == ToSet(q)
             N == Cardinality(K) + 1
             f == Sorted(q, m)
             T == {n \in 0 .. N : \A d \in K, u \in SortStates(K) :
                     Depth(d, m) < n /\ MayList(K, m, d, u) => Lists(K, m, d, u, f[d][u])}
  <1>1. \A d \in K : /\ Depth(d, m) \in Nat /\ Cardinality(K) \in Nat
                     /\ Depth(d, m) <= Cardinality(K)
    BY BehindMembers DEF Layered
  <1>2. N \in Nat
    BY <1>1
  <1>3. 0 \in T
    BY <1>1, <1>2
  <1>4. ASSUME NEW d \in K, NEW u \in SortStates(K) PROVE f[d][u] = SortedTurn(q, m, f, d, u)
    <2>1. IsSorting(q, m, f)
      BY SortedSolved
    <2> HIDE DEF f
    <2>2. f[d] = [w \in SortStates(K) |-> SortedTurn(q, m, f, d, w)]
      <3>1. f = [c \in K |-> [w \in SortStates(K) |-> SortedTurn(q, m, f, c, w)]]
        BY <2>1 DEF IsSorting
      <3> HIDE DEF K
      <3> QED
        BY ONLY <3>1, d \in K
    <2> HIDE DEF K
    <2> QED
      BY <2>2
  <1> HIDE DEF f, K, N
  <1>5. ASSUME NEW n \in 0 .. N - 1, n \in T PROVE n + 1 \in T
    <2>1. n \in Nat /\ n + 1 \in 0 .. N
      BY <1>2
    <2>2. ASSUME NEW d \in K, NEW u \in SortStates(K), Depth(d, m) < n + 1, MayList(K, m, d, u)
          PROVE  Lists(K, m, d, u, f[d][u])
      <3>1. f[d][u] = SortedTurn(q, m, f, d, u)
        BY <1>4
      <3>2. /\ u.ordered \in Seq(K) /\ u.visiting \in SUBSET K /\ Preceded(u.ordered, m)
            /\ u.visiting \cap ({d} \cup Behind(d, m)) = {}
        BY <2>2 DEF MayList, SortStates
      <3>3. CASE Met(d, u)
        <4>1. d \in ToSet(u.ordered)
          BY <3>2, <3>3 DEF Met
        <4> QED
          BY <3>1, <3>2, <3>3, <4>1 DEF SortedTurn, Lists
      <3>4. CASE ~ Met(d, u)
        <4>1. PICK keys : keys = InOrder(q, m[d])
          OBVIOUS
        <4>2. keys \in Seq(m[d]) /\ ToSet(keys) = m[d] /\ m[d] \subseteq K
          <5>1. m[d] \subseteq K
            BY DEF Layered, K
          <5> QED
            BY <4>1, <5>1, Listed DEF K
        <4>3. PICK e : e = Begun(d, u)
          OBVIOUS
        <4>4. /\ e \in SortStates(K) /\ e.ordered = u.ordered
              /\ e.visiting = u.visiting \cup {d} /\ d \notin u.visiting
              /\ d \notin ToSet(u.ordered)
          BY <3>2, <3>4, <4>3 DEF Begun, SortStates, Met
        <4> DEFINE A == {a \in SortStates(K) :
                           /\ a.visiting = e.visiting /\ Preceded(a.ordered, m)
                           /\ ToSet(u.ordered) \subseteq ToSet(a.ordered)
                           /\ ToSet(a.ordered) \subseteq ToSet(u.ordered) \cup Behind(d, m)}
                   done == [c \in K |-> {a \in SortStates(K) : c \in ToSet(a.ordered)}]
        <4>5. Does(m[d], A, f, done)
          <5> SUFFICES ASSUME NEW c \in m[d], NEW a \in A
                       PROVE  /\ f[c][a] \in A /\ f[c][a] \in done[c]
                              /\ \A j \in m[d] : a \in done[j] => f[c][a] \in done[j]
            BY DEF Does
          <5>1. /\ c \in K /\ Behind(c, m) \subseteq Behind(d, m) /\ c \in Behind(d, m)
                /\ Depth(c, m) < Depth(d, m) /\ Depth(c, m) \in Nat /\ Depth(d, m) \in Nat
            BY DepthFalls DEF K
          <5>2. Depth(c, m) < n
            BY <2>1, <2>2, <5>1
          <5>3. d \notin Behind(d, m)
            BY DEF Layered, K
          <5>4. MayList(K, m, c, a)
            BY <3>2, <4>4, <5>1, <5>3 DEF MayList
          <5>5. Lists(K, m, c, a, f[c][a])
            BY <1>5, <5>1, <5>2, <5>4
          <5>6. f[c][a] \in A
            BY <5>1, <5>5 DEF Lists
          <5>7. /\ f[c][a] \in SortStates(K) /\ ToSet(a.ordered) \subseteq ToSet(f[c][a].ordered)
                /\ c \in ToSet(f[c][a].ordered)
            BY <5>5 DEF Lists
          <5> QED
            BY <4>2, <5>1, <5>6, <5>7
        <4>6. e \in A
          BY <3>2, <4>4
        <4>7. PICK W : W = VisitAll(f, e, keys)
          OBVIOUS
        <4>8. W \in A /\ \A c \in m[d] : W \in done[c]
          <5> HIDE DEF A, done
          <5> QED
            BY <4>2, <4>5, <4>6, <4>7, VisitAllDoes
        <4>9. m[d] \subseteq ToSet(W.ordered)
          BY <4>2, <4>8
        <4>10. f[d][u] = PutLast(d, W)
          BY <3>1, <3>4, <4>1, <4>3, <4>7 DEF SortedTurn
        <4>11. /\ W \in SortStates(K) /\ W.ordered \in Seq(K) /\ W.visiting = u.visiting \cup {d}
               /\ Preceded(W.ordered, m) /\ ToSet(u.ordered) \subseteq ToSet(W.ordered)
               /\ ToSet(W.ordered) \subseteq ToSet(u.ordered) \cup Behind(d, m)
          BY <4>4, <4>8 DEF SortStates
        <4>12. d \notin ToSet(W.ordered)
          <5>1. d \notin Behind(d, m)
            BY DEF Layered, K
          <5> QED
            BY <4>4, <4>11, <5>1
        <4>13. /\ Preceded(Append(W.ordered, d), m)
               /\ ToSet(Append(W.ordered, d)) = ToSet(W.ordered) \cup {d}
               /\ Append(W.ordered, d) \in Seq(K)
          BY <4>9, <4>11, <4>12, PrecededAppend, ToSetAppend
        <4>14. PICK t : t = PutLast(d, W)
          OBVIOUS
        <4>15. /\ t \in SortStates(K) /\ t.visiting = u.visiting
               /\ t.ordered = Append(W.ordered, d)
          BY <4>4, <4>11, <4>13, <4>14 DEF PutLast, SortStates
        <4>16. Lists(K, m, d, u, t)
          BY <4>11, <4>13, <4>15 DEF Lists
        <4> QED
          BY <4>10, <4>14, <4>16
      <3> QED
        BY <3>3, <3>4
    <2> QED
      BY <2>1, <2>2
  <1>6. N \in T
    <2> HIDE DEF T
    <2>1. 0 .. N \subseteq T
      BY <1>2, <1>3, <1>5, CountUp
    <2> QED
      BY <1>2, <2>1
  <1>7. Depth(k, m) < N
    BY <1>1 DEF K, N
  <1>8. s \in SortStates(K)
    BY DEF MayList, K
  <1> QED
    BY <1>6, <1>7, <1>8 DEF K, f

\* The modules of a package are loaded each after those it needs.
LEMMA LoadOrderListed ==
  ASSUME NEW q, q \in Seq(ToSet(q)), NEW m, Layered(ToSet(q), m)
  PROVE  /\ LoadOrder(q, m) \in Seq(ToSet(q)) /\ ToSet(LoadOrder(q, m)) = ToSet(q)
         /\ Preceded(LoadOrder(q, m), m)
  <1> DEFINE K == ToSet(q)
             f == Sorted(q, m)
             A == {a \in SortStates(K) : a.visiting = {} /\ Preceded(a.ordered, m)}
             done == [c \in K |-> {a \in SortStates(K) : c \in ToSet(a.ordered)}]
  <1>1. Does(K, A, f, done)
    <2> SUFFICES ASSUME NEW c \in K, NEW a \in A
                 PROVE  /\ f[c][a] \in A /\ f[c][a] \in done[c]
                        /\ \A j \in K : a \in done[j] => f[c][a] \in done[j]
      BY DEF Does
    <2>1. Lists(K, m, c, a, f[c][a])
      <3>1. MayList(K, m, c, a)
        BY DEF MayList
      <3> QED
        BY <3>1, SortedLists
    <2> HIDE DEF f, K
    <2>2. f[c][a] \in A
      BY <2>1 DEF Lists
    <2>3. /\ f[c][a] \in SortStates(K) /\ ToSet(a.ordered) \subseteq ToSet(f[c][a].ordered)
          /\ c \in ToSet(f[c][a].ordered)
      BY <2>1 DEF Lists
    <2> QED
      BY <2>2, <2>3
  <1>2. PICK e : e = [ordered |-> << >>, visiting |-> {}]
    OBVIOUS
  <1>3. e \in A
    <2> HIDE DEF K
    <2>1. e \in SortStates(K) /\ e.visiting = {} /\ e.ordered = << >>
      BY <1>2 DEF SortStates
    <2>2. Preceded(<< >>, m)
      BY DEF Preceded
    <2> QED
      BY <2>1, <2>2
  <1>4. PICK W : W = VisitAll(f, e, q)
    OBVIOUS
  <1>5. W \in A /\ \A c \in ToSet(q) : W \in done[c]
    <2>1. q \in Seq(K)
      OBVIOUS
    <2> HIDE DEF A, done, f, K
    <2> QED
      BY <1>1, <1>3, <1>4, <2>1, VisitAllDoes
  <1>6. LoadOrder(q, m) = W.ordered
    BY <1>2, <1>4 DEF LoadOrder
  <1>7. W.ordered \in Seq(K) /\ Preceded(W.ordered, m) /\ K \subseteq ToSet(W.ordered)
    <2> HIDE DEF f
    <2> QED
      BY <1>5 DEF SortStates
  <1>8. ToSet(W.ordered) \subseteq K
    <2> HIDE DEF K
    <2> QED
      BY <1>7 DEF ToSet
  <1> QED
    BY <1>6, <1>7, <1>8

-----------------------------------------------------------------------------
(* Cycles. *)

\* The definition of Explored, by name.
ExploreStates(K) == [visited : SUBSET K, visiting : SUBSET K, raised : BOOLEAN]

\* Visits that are over at once, what they leave, and the two halves of the others.
Over(k, s) == s.raised \/ k \in s.visited \/ k \in s.visiting
Refused(k, s) ==
  IF s.raised \/ k \in s.visited THEN s ELSE [s EXCEPT !.raised = TRUE]
Entered(k, s) == [s EXCEPT !.visiting = @ \cup {k}]
Cleared(k, s) ==
  IF s.raised THEN s ELSE [s EXCEPT !.visiting = @ \ {k}, !.visited = @ \cup {k}]

ExploredTurn(q, m, f, k, s) ==
  IF Over(k, s) THEN Refused(k, s)
  ELSE Cleared(k, VisitAll(f, Entered(k, s), InOrder(q, m[k])))

\* The equation of Explored, by name.
IsExplored(q, m, f) ==
  f = [k \in ToSet(q) |-> [s \in ExploreStates(ToSet(q)) |-> ExploredTurn(q, m, f, k, s)]]

\* What the source tests one after the other.
SourceTurn(q, m, f, k, s) ==
  IF s.raised \/ k \in s.visited THEN s
  ELSE IF k \in s.visiting THEN [s EXCEPT !.raised = TRUE]
  ELSE LET within == VisitAll(f, [s EXCEPT !.visiting = @ \cup {k}], InOrder(q, m[k]))
       IN  IF within.raised THEN within
           ELSE [within EXCEPT !.visiting = @ \ {k}, !.visited = @ \cup {k}]

\* Explored is the function that is defined so.
LEMMA ExploredIs == \A q, m : Explored(q, m) = CHOOSE f : IsExplored(q, m, f)
  <1>1. ASSUME NEW q, NEW m, NEW f, NEW k, NEW s
        PROVE  SourceTurn(q, m, f, k, s) = ExploredTurn(q, m, f, k, s)
    BY DEF SourceTurn, ExploredTurn, Over, Refused, Entered, Cleared
  <1>2. \A q, m : Explored(q, m) =
          CHOOSE f : f = [k \in ToSet(q) |-> [s \in ExploreStates(ToSet(q)) |->
                            SourceTurn(q, m, f, k, s)]]
    BY DEF Explored, SourceTurn, ExploreStates
  <1> QED
    BY <1>1, <1>2 DEF IsExplored

\* How many modules may be visited within, until the visit is over.
Room(K, s) == IF s.raised THEN 0 ELSE Cardinality(K \ s.visiting) + 1

\* The states a visit may make of one: what it was visiting it visits again.
Onward(K, s) ==
  {t \in ExploreStates(K) : t.raised \/ (~ s.raised /\ t.visiting = s.visiting)}

\* A visit of the check for cycles as a depth-first visit: it ranks by the room that is left.
ExploredParts(q, m) ==
  LET K == ToSet(q)
      S == ExploreStates(K)
  IN  [keys |-> K, states |-> S,
       next |-> [k \in K |-> InOrder(q, m[k])],
       stop |-> [k \in K |-> {s \in S : Over(k, s)}],
       leaf |-> [k \in K |-> [s \in S |-> Refused(k, s)]],
       enter |-> [k \in K |-> [s \in S |-> Entered(k, s)]],
       join |-> [k \in K |-> [s \in S |-> Cleared(k, s)]],
       after |-> [s \in S |-> Onward(K, s)],
       rank |-> [k \in K |-> [s \in S |-> Room(K, s)]],
       most |-> Cardinality(K) + 2]

\* There is room in a finite set, and less within a visit.
LEMMA RoomFalls ==
  ASSUME NEW K, IsFiniteSet(K), NEW s \in ExploreStates(K)
  PROVE  /\ Room(K, s) \in Nat /\ Room(K, s) < Cardinality(K) + 2 /\ Cardinality(K) \in Nat
         /\ \A k \in K : ~ Over(k, s) =>
              \A t \in Onward(K, Entered(k, s)) : Room(K, t) < Room(K, s)
  <1>1. \A V \in SUBSET K :
          Cardinality(K \ V) \in Nat /\ Cardinality(K) \in Nat /\ Cardinality(K \ V) <= Cardinality(K)
    <2> TAKE V \in SUBSET K
    <2>1. K \ V \subseteq K
      OBVIOUS
    <2> QED
      BY <2>1, FS_Subset, FS_CardinalityType
  <1>2. s.visiting \in SUBSET K /\ {} \in SUBSET K
    BY DEF ExploreStates
  <1>3. Room(K, s) \in Nat /\ Room(K, s) < Cardinality(K) + 2 /\ Cardinality(K) \in Nat
    <2>1. PICK a : a = Cardinality(K \ s.visiting)
      OBVIOUS
    <2>2. PICK b : b = Cardinality(K)
      OBVIOUS
    <2>3. a \in Nat /\ b \in Nat /\ a <= b
      BY <1>1, <1>2, <2>1, <2>2
    <2> QED
      BY <2>1, <2>2, <2>3 DEF Room
  <1>4. ASSUME NEW k \in K, ~ Over(k, s), NEW t \in Onward(K, Entered(k, s))
        PROVE  Room(K, t) < Room(K, s)
    <2>1. ~ s.raised /\ k \notin s.visiting
      BY <1>4 DEF Over
    <2>2. PICK a : a = Cardinality(K \ s.visiting)
      OBVIOUS
    <2>3. a \in Nat /\ Room(K, s) = a + 1
      BY <1>1, <1>2, <2>1, <2>2 DEF Room
    <2>4. CASE t.raised
      BY <2>3, <2>4 DEF Room
    <2>5. CASE ~ t.raised
      <3>1. Entered(k, s).visiting = s.visiting \cup {k}
        BY DEF Entered, ExploreStates
      <3>2. t.visiting = s.visiting \cup {k} /\ t.visiting \in SUBSET K
        BY <2>5, <3>1 DEF Onward, ExploreStates
      <3>3. K \ t.visiting = (K \ s.visiting) \ {k} /\ k \in K \ s.visiting
        BY <2>1, <3>2
      <3>4. IsFiniteSet(K \ s.visiting)
        <4>1. K \ s.visiting \subseteq K
          OBVIOUS
        <4> QED
          BY <4>1, FS_Subset
      <3>5. Cardinality((K \ s.visiting) \ {k}) = a - 1
        BY <2>2, <3>3, <3>4, FS_RemoveElement
      <3>6. Room(K, t) = a - 1 + 1
        BY <2>5, <3>3, <3>5 DEF Room
      <3> QED
        BY <2>3, <3>6
    <2> QED
      BY <2>4, <2>5
  <1> QED
    BY <1>3, <1>4

\* There is a function that satisfies its equation.
LEMMA ExploredSolved ==
  ASSUME NEW q, q \in Seq(ToSet(q)), IsFiniteSet(ToSet(q)), NEW m,
         \A k \in ToSet(q) : m[k] \subseteq ToSet(q)
  PROVE  IsExplored(q, m, Explored(q, m))
  <1> DEFINE K == ToSet(q)
             S == ExploreStates(K)
  <1>1. PICK v : v = ExploredParts(q, m)
    OBVIOUS
  <1>2. /\ v.keys = K /\ v.states = S
        /\ v.next = [k \in K |-> InOrder(q, m[k])]
        /\ v.stop = [k \in K |-> {s \in S : Over(k, s)}]
        /\ v.leaf = [k \in K |-> [s \in S |-> Refused(k, s)]]
        /\ v.enter = [k \in K |-> [s \in S |-> Entered(k, s)]]
        /\ v.join = [k \in K |-> [s \in S |-> Cleared(k, s)]]
        /\ v.after = [s \in S |-> Onward(K, s)]
        /\ v.rank = [k \in K |-> [s \in S |-> Room(K, s)]]
        /\ v.most = Cardinality(K) + 2
    BY <1>1 DEF ExploredParts
  <1>3. \A k \in K : /\ InOrder(q, m[k]) \in Seq(K) /\ ToSet(InOrder(q, m[k])) = m[k]
                     /\ m[k] \subseteq K
    <2> TAKE k \in K
    <2>1. m[k] \subseteq K
      OBVIOUS
    <2> QED
      BY <2>1, Listed
  <1>4. \A s \in S : /\ Room(K, s) \in Nat /\ Room(K, s) < Cardinality(K) + 2
                     /\ Cardinality(K) \in Nat
                     /\ \A k \in K : ~ Over(k, s) =>
                          \A t \in Onward(K, Entered(k, s)) : Room(K, t) < Room(K, s)
    BY RoomFalls
  <1>5. Cardinality(K) + 2 \in Nat
    <2>1. Cardinality(K) \in Nat
      BY FS_CardinalityType
    <2> QED
      BY <2>1
  <1>6. \A k \in K, s \in S :
          /\ Entered(k, s) \in S /\ Cleared(k, s) \in S /\ Refused(k, s) \in S
          /\ Over(k, s) => Refused(k, s) \in Onward(K, s)
          /\ ~ Over(k, s) => \A t \in Onward(K, Entered(k, s)) : Cleared(k, t) \in Onward(K, s)
    <2> TAKE k \in K, s \in S
    <2> HIDE DEF K
    <2>1. Entered(k, s) \in S /\ Entered(k, s).visiting = s.visiting \cup {k}
      BY DEF Entered, ExploreStates
    <2>2. \A t \in S : Cleared(k, t) \in S
      BY DEF Cleared, ExploreStates
    <2>3. Refused(k, s) \in S
      BY DEF Refused, ExploreStates
    <2>4. Over(k, s) => Refused(k, s) \in Onward(K, s)
      BY DEF Over, Refused, ExploreStates, Onward
    <2>5. ASSUME ~ Over(k, s), NEW t \in Onward(K, Entered(k, s)) PROVE Cleared(k, t) \in Onward(K, s)
      <3>1. t \in S /\ Cleared(k, t) \in S
        BY <2>2 DEF Onward
      <3>2. CASE t.raised
        BY <3>1, <3>2 DEF Onward, Cleared
      <3>3. CASE ~ t.raised
        <4>1. t.visiting = s.visiting \cup {k} /\ ~ s.raised /\ k \notin s.visiting
          BY <2>1, <2>5, <3>3 DEF Onward, Over
        <4>2. Cleared(k, t).visiting = t.visiting \ {k}
          BY <3>1, <3>3 DEF Cleared, ExploreStates
        <4> QED
          BY <3>1, <4>1, <4>2 DEF Onward
      <3> QED
        BY <3>2, <3>3
    <2> QED
      BY <2>1, <2>2, <2>3, <2>4, <2>5
  <1>14. \A s \in S : /\ s \in Onward(K, s) /\ Onward(K, s) \subseteq S
                      /\ \A t \in Onward(K, s) : Onward(K, t) \subseteq Onward(K, s)
    BY DEF Onward
  <1> HIDE DEF K, S
  <1>7. VisitTyped(v)
    <2>1. v.next \in [K -> Seq(K)] /\ v.stop \in [K -> SUBSET S]
      BY <1>2, <1>3
    <2>2. v.leaf \in [K -> [S -> S]] /\ v.enter \in [K -> [S -> S]] /\ v.join \in [K -> [S -> S]]
      BY <1>2, <1>6
    <2>3. v.after \in [S -> SUBSET S]
      BY <1>2, <1>14
    <2>4. v.rank \in [K -> [S -> Nat]] /\ v.most \in Nat
      BY <1>2, <1>4, <1>5
    <2>5. \A k \in K, s \in S : v.rank[k][s] < v.most
      BY <1>2, <1>4
    <2> QED
      BY <1>2, <2>1, <2>2, <2>3, <2>4, <2>5 DEF VisitTyped, Visitors
  <1>15. /\ \A s \in S : v.after[s] = Onward(K, s)
         /\ \A k \in K, s \in S : /\ v.leaf[k][s] = Refused(k, s) /\ v.enter[k][s] = Entered(k, s)
                                  /\ v.join[k][s] = Cleared(k, s)
                                  /\ s \in v.stop[k] <=> Over(k, s)
                                  /\ v.rank[k][s] = Room(K, s)
         /\ \A k \in K : v.next[k] = InOrder(q, m[k])
         /\ v.keys = K /\ v.states = S
    BY <1>2
  <1>8. VisitOnward(v)
    <2>1. \A s \in S : s \in v.after[s]
      BY <1>14, <1>15
    <2>2. \A s \in S : \A t \in v.after[s] : v.after[t] \subseteq v.after[s]
      <3> TAKE s \in S
      <3> SUFFICES ASSUME NEW t \in Onward(K, s) PROVE Onward(K, t) \subseteq Onward(K, s) /\ t \in S
        BY <1>15
      <3> QED
        BY <1>14
    <2>3. \A k \in K, s \in S : s \in v.stop[k] => v.leaf[k][s] \in v.after[s]
      BY <1>6, <1>15
    <2>4. ASSUME NEW k \in K, NEW s \in S, s \notin v.stop[k], NEW t \in v.after[v.enter[k][s]]
          PROVE  v.join[k][t] \in v.after[s]
      <3>1. t \in Onward(K, Entered(k, s)) /\ ~ Over(k, s)
        BY <1>6, <1>15, <2>4
      <3>2. t \in S
        BY <1>6, <1>14, <3>1
      <3> QED
        BY <1>6, <1>15, <3>1, <3>2
    <2> QED
      BY <1>15, <2>1, <2>2, <2>3, <2>4 DEF VisitOnward
  <1>9. VisitFalls(v)
    <2> SUFFICES ASSUME NEW k \in K, NEW s \in S, s \notin v.stop[k],
                        NEW d \in m[k], NEW t \in v.after[v.enter[k][s]]
                 PROVE  v.rank[d][t] < v.rank[k][s]
      <3>1. \A k \in K : ToSet(v.next[k]) = m[k]
        BY <1>2, <1>3
      <3> QED
        BY <1>15, <3>1 DEF VisitFalls
    <2>1. t \in Onward(K, Entered(k, s)) /\ ~ Over(k, s)
      BY <1>6, <1>15
    <2>2. t \in S /\ d \in K
      BY <1>3, <1>6, <1>14, <2>1
    <2> QED
      BY <1>4, <1>15, <2>1, <2>2
  <1>10. PICK f \in Visitors(v) : TurnsBelow(v, f, v.most)
    BY <1>7, <1>8, <1>9, VisitExists
  <1>11. f \in [K -> [S -> S]]
    <2>1. v.keys = K /\ v.states = S
      BY <1>2
    <2> QED
      BY <1>10, <2>1 DEF Visitors
  <1>12. ASSUME NEW k \in K, NEW s \in S PROVE f[k][s] = ExploredTurn(q, m, f, k, s)
    <2>1. f[k][s] = Turn(v, f, k, s)
      <3>1. v.rank[k][s] < v.most
        BY <1>2, <1>4
      <3> QED
        BY <1>15, <1>10, <3>1 DEF TurnsBelow
    <2>2. CASE Over(k, s)
      BY <1>15, <2>1, <2>2 DEF Turn, ExploredTurn
    <2>3. CASE ~ Over(k, s)
      <3>1. PICK e : e = Entered(k, s)
        OBVIOUS
      <3>2. s \notin v.stop[k] /\ v.enter[k][s] = e /\ v.next[k] = InOrder(q, m[k]) /\ e \in S
        BY <1>6, <1>15, <2>3, <3>1
      <3>3. PICK w : w = VisitAll(f, e, InOrder(q, m[k]))
        OBVIOUS
      <3>4. w \in S
        <4>1. PICK h : PassesTo(S, f, e, InOrder(q, m[k]), h, w)
          <5>1. \A d \in K, a \in S : f[d][a] \in S
            BY <1>11
          <5> QED
            BY <1>3, <3>2, <3>3, <5>1, VisitAllPasses
        <4>2. Len(InOrder(q, m[k])) \in 0 .. Len(InOrder(q, m[k]))
          BY <1>3
        <4> QED
          BY <4>1, <4>2 DEF PassesTo
      <3>5. v.join[k][w] = Cleared(k, w)
        BY <1>15, <3>4
      <3>6. f[k][s] = v.join[k][w]
        BY <2>1, <3>2, <3>3 DEF Turn
      <3> QED
        BY <2>3, <3>1, <3>3, <3>5, <3>6 DEF ExploredTurn
    <2> QED
      BY <2>2, <2>3
  <1>13. IsExplored(q, m, f)
    <2>1. f = [k \in K |-> [s \in S |-> f[k][s]]]
      BY <1>11
    <2>2. f = [k \in K |-> [s \in S |-> ExploredTurn(q, m, f, k, s)]]
      BY <1>12, <2>1
    <2> QED
      BY <2>2 DEF IsExplored, K, S
  <1> QED
    BY <1>13, ExploredIs

\* Modules with all that they need, none of them behind itself.
ClearSets(K, m) == {R \in ClosedSets(K, m) : \A x \in R : x \notin Behind(x, m)}

\* A module is behind itself.
Cyclic(K, m) == \E x \in K : x \in Behind(x, m)

\* States in which k may be visited: each of those visited just now needs k.
MayExplore(K, m, k, s) ==
  /\ s \in ExploreStates(K) /\ ~ s.raised /\ s.visited \in ClearSets(K, m)
  /\ s.visited \cap s.visiting = {}
  /\ \A v \in s.visiting : k \in Behind(v, m)

\* A visit raises where there is a cycle, or it clears k.
Explores(K, m, k, s, t) ==
  /\ t \in ExploreStates(K)
  /\ t.raised => Cyclic(K, m)
  /\ ~ t.raised => /\ t.visiting = s.visiting /\ t.visited \in ClearSets(K, m)
                   /\ s.visited \subseteq t.visited /\ k \in t.visited
                   /\ t.visited \cap t.visiting = {}

\* What is behind d is behind k where d is.
LEMMA BehindOnward ==
  ASSUME NEW m, IsFiniteSet(DOMAIN m), NEW k, NEW d \in DOMAIN m, d \in Behind(k, m)
  PROVE  Behind(d, m) \subseteq Behind(k, m)
  <1>1. \A c \in Behind(k, m) \cap DOMAIN m : m[c] \subseteq Behind(k, m)
    BY BehindCloses
  <1>2. m[d] \subseteq Behind(k, m)
    BY <1>1
  <1> QED
    BY <1>1, <1>2, BehindWithin

\* A visit raises if it meets a cycle, and clears what it visited if it meets none.
LEMMA ExploredClears ==
  ASSUME NEW q, q \in Seq(ToSet(q)), NEW m, IsFiniteSet(DOMAIN m), ToSet(q) \subseteq DOMAIN m,
         \A k \in ToSet(q) : m[k] \subseteq ToSet(q),
         NEW k \in ToSet(q), NEW s, MayExplore(ToSet(q), m, k, s)
  PROVE  Explores(ToSet(q), m, k, s, Explored(q, m)[k][s])
  <1> DEFINE K == ToSet(q)
             N == Cardinality(K) + 2
             f == Explored(q, m)
             T == {n \in 0 .. N : \A d \in K, u \in ExploreStates(K) :
                     Room(K, u) < n /\ MayExplore(K, m, d, u) => Explores(K, m, d, u, f[d][u])}
  <1>1. IsFiniteSet(K)
    BY FS_Subset
  <1>2. /\ N \in Nat
        /\ \A u \in ExploreStates(K) : /\ Room(K, u) \in Nat /\ Room(K, u) < N
             /\ \A d \in K : ~ Over(d, u) =>
                  \A t \in Onward(K, Entered(d, u)) : Room(K, t) < Room(K, u)
    <2>1. N \in Nat
      BY <1>1, FS_CardinalityType
    <2> QED
      BY <1>1, <2>1, RoomFalls
  <1>3. 0 \in T
    BY <1>2
  <1>4. ASSUME NEW d \in K, NEW u \in ExploreStates(K) PROVE f[d][u] = ExploredTurn(q, m, f, d, u)
    <2>1. IsExplored(q, m, f)
      BY <1>1, ExploredSolved
    <2> HIDE DEF f
    <2>2. f[d] = [w \in ExploreStates(K) |-> ExploredTurn(q, m, f, d, w)]
      <3>1. f = [c \in K |-> [w \in ExploreStates(K) |-> ExploredTurn(q, m, f, c, w)]]
        BY <2>1 DEF IsExplored
      <3> HIDE DEF K
      <3> QED
        BY ONLY <3>1, d \in K
    <2> HIDE DEF K
    <2> QED
      BY <2>2
  <1>14. /\ K \subseteq DOMAIN m /\ \A d \in K : m[d] \subseteq K
    OBVIOUS
  <1> HIDE DEF f, K, N
  <1>5. ASSUME NEW n \in 0 .. N - 1, n \in T PROVE n + 1 \in T
    <2>1. n \in Nat /\ n + 1 \in 0 .. N
      BY <1>2
    <2>2. ASSUME NEW d \in K, NEW u \in ExploreStates(K), Room(K, u) < n + 1,
                 MayExplore(K, m, d, u)
          PROVE  Explores(K, m, d, u, f[d][u])
      <3>1. f[d][u] = ExploredTurn(q, m, f, d, u)
        BY <1>4
      <3>2. /\ u.visited \in SUBSET K /\ u.visiting \in SUBSET K /\ ~ u.raised
            /\ u.visited \in ClearSets(K, m) /\ u.visited \cap u.visiting = {}
            /\ \A v \in u.visiting : d \in Behind(v, m)
        BY <2>2 DEF MayExplore, ExploreStates
      <3>3. CASE d \in u.visited
        BY <3>1, <3>2, <3>3 DEF ExploredTurn, Over, Refused, Explores
      <3>4. CASE d \notin u.visited /\ d \in u.visiting
        <4>1. PICK t : t = [u EXCEPT !.raised = TRUE]
          OBVIOUS
        <4>2. t \in ExploreStates(K) /\ t.raised
          BY <4>1 DEF ExploreStates
        <4>3. Cyclic(K, m)
          BY <3>2, <3>4 DEF Cyclic
        <4>4. f[d][u] = t
          BY <3>1, <3>2, <3>4, <4>1 DEF ExploredTurn, Over, Refused
        <4> QED
          BY <4>2, <4>3, <4>4 DEF Explores
      <3>5. CASE d \notin u.visited /\ d \notin u.visiting
        <4>1. PICK keys : keys = InOrder(q, m[d])
          OBVIOUS
        <4>2. keys \in Seq(m[d]) /\ ToSet(keys) = m[d] /\ m[d] \subseteq K
          <5>1. m[d] \subseteq K
            BY <1>14
          <5> QED
            BY <4>1, <5>1, Listed DEF K
        <4>3. PICK e : e = Entered(d, u)
          OBVIOUS
        <4>4. /\ e \in ExploreStates(K) /\ e.visited = u.visited /\ ~ e.raised
              /\ e.visiting = u.visiting \cup {d} /\ ~ Over(d, u)
          BY <3>2, <3>5, <4>3 DEF Entered, ExploreStates, Over
        <4> DEFINE A == {a \in ExploreStates(K) :
                           IF a.raised THEN Cyclic(K, m)
                           ELSE /\ a.visiting = e.visiting /\ a.visited \in ClearSets(K, m)
                                /\ u.visited \subseteq a.visited
                                /\ a.visited \cap a.visiting = {}}
                   done == [c \in K |-> {a \in ExploreStates(K) : a.raised \/ c \in a.visited}]
        <4>5. Does(m[d], A, f, done)
          <5> SUFFICES ASSUME NEW c \in m[d], NEW a \in A
                       PROVE  /\ f[c][a] \in A /\ f[c][a] \in done[c]
                              /\ \A j \in m[d] : a \in done[j] => f[c][a] \in done[j]
            BY DEF Does
          <5>1. c \in K /\ a \in ExploreStates(K)
            BY <4>2
          <5>2. CASE a.raised
            <6>1. f[c][a] = a
              BY <1>4, <5>1, <5>2 DEF ExploredTurn, Over, Refused
            <6> QED
              BY <5>1, <5>2, <6>1
          <5>3. CASE ~ a.raised
            <6>1. /\ a.visiting = u.visiting \cup {d} /\ a.visited \in ClearSets(K, m)
                  /\ u.visited \subseteq a.visited /\ a.visited \cap a.visiting = {}
              BY <4>4, <5>3
            <6>2. Room(K, a) < n
              <7>1. a \in Onward(K, Entered(d, u))
                BY <4>3, <4>4, <5>1, <5>3 DEF Onward
              <7>2. Room(K, a) < Room(K, u) /\ Room(K, a) \in Nat /\ Room(K, u) \in Nat
                BY <1>2, <4>4, <5>1, <7>1
              <7> QED
                BY <2>1, <2>2, <7>2
            <6>3. \A v \in u.visiting \cup {d} : c \in Behind(v, m)
              <7>1. c \in Behind(d, m)
                BY BehindCloses
              <7>2. d \in DOMAIN m
                BY <1>14
              <7>3. \A v \in u.visiting : Behind(d, m) \subseteq Behind(v, m)
                BY <3>2, <7>2, BehindOnward
              <7> QED
                BY <7>1, <7>3
            <6>4. MayExplore(K, m, c, a)
              BY <5>1, <5>3, <6>1, <6>3 DEF MayExplore
            <6>5. Explores(K, m, c, a, f[c][a])
              BY <1>5, <5>1, <6>2, <6>4
            <6>6. PICK t : t = f[c][a]
              OBVIOUS
            <6>7. /\ t \in ExploreStates(K)
                  /\ t.raised => Cyclic(K, m)
                  /\ ~ t.raised => /\ t.visiting = a.visiting /\ t.visited \in ClearSets(K, m)
                                   /\ a.visited \subseteq t.visited /\ c \in t.visited
                                   /\ t.visited \cap t.visiting = {}
              BY <6>5, <6>6 DEF Explores
            <6>8. t \in A
              BY <4>4, <6>1, <6>7
            <6>9. t \in done[c] /\ \A j \in m[d] : a \in done[j] => t \in done[j]
              BY <4>2, <5>1, <5>3, <6>7
            <6> QED
              BY <6>6, <6>8, <6>9
          <5> QED
            BY <5>2, <5>3
        <4>6. e \in A
          BY <3>2, <3>5, <4>4
        <4>7. PICK W : W = VisitAll(f, e, keys)
          OBVIOUS
        <4>8. W \in A /\ \A c \in m[d] : W \in done[c]
          <5> HIDE DEF A, done
          <5> QED
            BY <4>2, <4>5, <4>6, <4>7, VisitAllDoes
        <4>9. f[d][u] = Cleared(d, W)
          BY <3>1, <4>1, <4>3, <4>4, <4>7 DEF ExploredTurn
        <4>10. CASE W.raised
          BY <4>8, <4>9, <4>10 DEF Cleared, Explores
        <4>11. CASE ~ W.raised
          <5>1. /\ W \in ExploreStates(K) /\ W.visiting = u.visiting \cup {d}
                /\ W.visited \in ClearSets(K, m) /\ u.visited \subseteq W.visited
                /\ W.visited \cap W.visiting = {} /\ m[d] \subseteq W.visited
            BY <4>2, <4>4, <4>8, <4>11
          <5>2. PICK t : t = Cleared(d, W)
            OBVIOUS
          <5>3. /\ t \in ExploreStates(K) /\ ~ t.raised /\ t.visiting = u.visiting
                /\ t.visited = W.visited \cup {d}
            <6>1. t = [W EXCEPT !.visiting = @ \ {d}, !.visited = @ \cup {d}]
              BY <4>11, <5>2 DEF Cleared
            <6>2. /\ W.visiting \in SUBSET K /\ W.visited \in SUBSET K
                  /\ (u.visiting \cup {d}) \ {d} = u.visiting
              BY <3>5, <5>1 DEF ExploreStates
            <6>3. t.visiting = W.visiting \ {d} /\ t.visited = W.visited \cup {d} /\ ~ t.raised
              BY <4>11, <5>1, <6>1 DEF ExploreStates
            <6>4. t \in ExploreStates(K)
              BY <5>1, <6>1, <6>2 DEF ExploreStates
            <6> QED
              BY <5>1, <6>2, <6>3, <6>4
          <5>4. Behind(d, m) \subseteq W.visited
            BY <5>1, BehindWithin DEF ClearSets, ClosedSets
          <5>5. W.visited \cup {d} \in ClearSets(K, m)
            BY <5>1, <5>4 DEF ClearSets, ClosedSets
          <5>6. Explores(K, m, d, u, t)
            BY <3>5, <5>1, <5>3, <5>5 DEF Explores
          <5> QED
            BY <4>9, <5>2, <5>6
        <4> QED
          BY <4>10, <4>11
      <3> QED
        BY <3>3, <3>4, <3>5
    <2> QED
      BY <2>1, <2>2
  <1>6. N \in T
    <2> HIDE DEF T
    <2>1. 0 .. N \subseteq T
      BY <1>2, <1>3, <1>5, CountUp
    <2> QED
      BY <1>2, <2>1
  <1>7. s \in ExploreStates(K)
    BY DEF MayExplore, K
  <1> QED
    BY <1>2, <1>6, <1>7 DEF K, f

\* The check raises if and only if a module is behind itself.
LEMMA CyclesDetected ==
  ASSUME NEW q, q \in Seq(ToSet(q)), NEW m, IsFiniteSet(DOMAIN m), ToSet(q) \subseteq DOMAIN m,
         \A k \in ToSet(q) : m[k] \subseteq ToSet(q)
  PROVE  CycleDetected(q, m) <=> Cyclic(ToSet(q), m)
  <1> DEFINE K == ToSet(q)
             f == Explored(q, m)
             A == {a \in ExploreStates(K) :
                     IF a.raised THEN Cyclic(K, m)
                     ELSE a.visiting = {} /\ a.visited \in ClearSets(K, m)}
             done == [c \in K |-> {a \in ExploreStates(K) : a.raised \/ c \in a.visited}]
  <1>1. Does(K, A, f, done)
    <2> SUFFICES ASSUME NEW c \in K, NEW a \in A
                 PROVE  /\ f[c][a] \in A /\ f[c][a] \in done[c]
                        /\ \A j \in K : a \in done[j] => f[c][a] \in done[j]
      BY DEF Does
    <2>1. CASE a.raised
      <3>1. f[c][a] = a
        <4>1. IsExplored(q, m, f)
          <5>1. IsFiniteSet(K)
            BY FS_Subset
          <5> QED
            BY <5>1, ExploredSolved
        <4>2. a \in ExploreStates(K)
          OBVIOUS
        <4> HIDE DEF f
        <4>3. f[c] = [w \in ExploreStates(K) |-> ExploredTurn(q, m, f, c, w)]
          <5>1. f = [d \in K |-> [w \in ExploreStates(K) |-> ExploredTurn(q, m, f, d, w)]]
            BY <4>1 DEF IsExplored
          <5> HIDE DEF K
          <5> QED
            BY ONLY <5>1, c \in K
        <4> HIDE DEF K
        <4> QED
          BY <2>1, <4>2, <4>3 DEF ExploredTurn, Over, Refused
      <3> QED
        BY <2>1, <3>1
    <2>2. CASE ~ a.raised
      <3>1. MayExplore(K, m, c, a)
        BY <2>2 DEF MayExplore
      <3>2. Explores(K, m, c, a, f[c][a])
        BY <3>1, ExploredClears
      <3> HIDE DEF f, K
      <3>3. PICK t : t = f[c][a]
        OBVIOUS
      <3>4. /\ t \in ExploreStates(K)
            /\ t.raised => Cyclic(K, m)
            /\ ~ t.raised => /\ t.visiting = a.visiting /\ t.visited \in ClearSets(K, m)
                             /\ a.visited \subseteq t.visited /\ c \in t.visited
        BY <3>2, <3>3 DEF Explores
      <3>5. t \in A /\ t \in done[c] /\ \A j \in K : a \in done[j] => t \in done[j]
        BY <2>2, <3>4
      <3> QED
        BY <3>3, <3>5
    <2> QED
      BY <2>1, <2>2
  <1>2. PICK e : e = [visited |-> {}, visiting |-> {}, raised |-> FALSE]
    OBVIOUS
  <1>3. e \in A
    <2> HIDE DEF K
    <2>1. e \in ExploreStates(K) /\ e.visiting = {} /\ e.visited = {} /\ ~ e.raised
      BY <1>2 DEF ExploreStates
    <2>2. {} \in ClearSets(K, m)
      BY DEF ClearSets, ClosedSets
    <2> QED
      BY <2>1, <2>2
  <1>4. PICK W : W = VisitAll(f, e, q)
    OBVIOUS
  <1>5. W \in A /\ \A c \in K : W \in done[c]
    <2>1. q \in Seq(K) /\ ToSet(q) = K
      OBVIOUS
    <2> HIDE DEF A, done, f, K
    <2> QED
      BY <1>1, <1>3, <1>4, <2>1, VisitAllDoes
  <1>6. CycleDetected(q, m) <=> W.raised
    BY <1>2, <1>4 DEF CycleDetected
  <1> HIDE DEF f, K
  <1>7. W.raised => Cyclic(K, m)
    BY <1>5
  <1>8. ~ W.raised => ~ Cyclic(K, m)
    <2>1. ~ W.raised => K \subseteq W.visited /\ W.visited \in ClearSets(K, m)
      BY <1>5
    <2> QED
      BY <2>1 DEF Cyclic, ClearSets
  <1> QED
    BY <1>6, <1>7, <1>8 DEF K

-----------------------------------------------------------------------------
(* Listings. *)

\* A set of modules with all that they need is listed with dependencies first where the whole is.
LEMMA InOrderPreceded ==
  ASSUME NEW K, NEW q \in Seq(K), NEW m, Preceded(q, m), NEW S, \A k \in S : m[k] \subseteq S
  PROVE  Preceded(InOrder(q, S), m)
  <1>1. PICK h : /\ h \in [0 .. Len(q) -> Seq(K)]
                 /\ KeepsUp(q, S, h) /\ InOrder(q, S) = h[Len(q)]
    BY InOrderPasses
  <1>2. PICK n \in Nat : n = Len(q)
    OBVIOUS
  <1>3. \A i \in 0 .. n : h[i] \in Seq(K \cap S) /\ ToSet(h[i]) = {q[j] : j \in 1 .. i} \cap S
    <2>1. KeptUp(K, q, S, h)
      BY <1>1, KeptSoFar
    <2> QED
      BY <1>2, <2>1 DEF KeptUp
  <1>4. DOMAIN q = 1 .. n
    BY <1>2
  <1> DEFINE T == {i \in 0 .. n : Preceded(h[i], m)}
  <1>5. 0 \in T
    <2>1. h[0] = << >> /\ 0 \in 0 .. n
      BY <1>1, <1>2 DEF KeepsUp
    <2>2. Preceded(<< >>, m)
      BY DEF Preceded
    <2> QED
      BY <2>1, <2>2
  <1>6. ASSUME NEW i \in 0 .. n - 1, i \in T PROVE i + 1 \in T
    <2>1. i + 1 \in 1 .. n /\ i + 1 \in 0 .. n /\ (i + 1) - 1 = i /\ i \in 0 .. n
      BY <1>2
    <2>2. h[i + 1] = KeptWith(S, q[i + 1], h[i])
      BY <1>1, <1>2, <2>1 DEF KeepsUp
    <2>3. h[i] \in Seq(K \cap S) /\ ToSet(h[i]) = {q[j] : j \in 1 .. i} \cap S /\ Preceded(h[i], m)
      BY <1>3, <1>6, <2>1
    <2>4. CASE q[i + 1] \in S
      <3>1. q[i + 1] \notin {q[j] : j \in 1 .. i}
        <4>1. \A j \in 1 .. i : j \in 1 .. n /\ j # i + 1
          BY <2>1
        <4> QED
          BY <1>4, <2>1, <4>1 DEF Preceded
      <3>2. m[q[i + 1]] \subseteq {q[j] : j \in 1 .. i}
        BY <1>4, <2>1 DEF Preceded
      <3>3. q[i + 1] \notin ToSet(h[i]) /\ m[q[i + 1]] \subseteq ToSet(h[i])
        BY <2>3, <2>4, <3>1, <3>2
      <3>4. Preceded(Append(h[i], q[i + 1]), m)
        BY <2>3, <3>3, PrecededAppend
      <3> QED
        BY <2>1, <2>2, <2>4, <3>4 DEF KeptWith
    <2>5. CASE q[i + 1] \notin S
      BY <2>1, <2>2, <2>3, <2>5 DEF KeptWith
    <2> QED
      BY <2>4, <2>5
  <1>7. n \in T
    <2>1. 0 .. n \subseteq T
      <3> HIDE DEF T
      <3> QED
        BY <1>5, <1>6, CountUp
    <2> QED
      BY <2>1
  <1> QED
    BY <1>1, <1>2, <1>7

\* Two packages that have no module in common are loaded one after the other.
LEMMA PrecededBoth ==
  ASSUME NEW A, NEW s \in Seq(A), NEW B, NEW t \in Seq(B), NEW m, Preceded(s, m), Preceded(t, m),
         ToSet(s) \cap ToSet(t) = {}
  PROVE  /\ s \o t \in Seq(A \cup B) /\ ToSet(s \o t) = ToSet(s) \cup ToSet(t)
         /\ Preceded(s \o t, m)
  <1>1. s \in Seq(A \cup B) /\ t \in Seq(A \cup B)
    OBVIOUS
  <1>2. PICK i \in Nat, k \in Nat : i = Len(s) /\ k = Len(t) /\ DOMAIN s = 1 .. i /\ DOMAIN t = 1 .. k
    OBVIOUS
  <1>3. PICK r : r = s \o t
    OBVIOUS
  <1>4. r \in Seq(A \cup B) /\ Len(r) = i + k
    BY <1>1, <1>2, <1>3
  <1>5. DOMAIN r = 1 .. i + k
    BY <1>2, <1>4
  <1>6. \A j \in 1 .. i : j \in 1 .. i + k /\ r[j] = s[j]
    BY <1>1, <1>2, <1>3
  <1>7. \A j \in 1 .. k : i + j \in 1 .. i + k /\ r[i + j] = t[j]
    BY <1>1, <1>2, <1>3
  <1>8. \A j \in 1 .. i + k : j \in 1 .. i \/ (j - i \in 1 .. k /\ i + (j - i) = j)
    BY <1>2
  <1>9. ToSet(r) = ToSet(s) \cup ToSet(t)
    <2>1. ASSUME NEW j \in 1 .. i + k PROVE r[j] \in ToSet(s) \cup ToSet(t)
      <3>1. CASE j \in 1 .. i
        BY <1>2, <1>6, <3>1 DEF ToSet
      <3>2. CASE j - i \in 1 .. k /\ i + (j - i) = j
        <4>1. r[j] = t[j - i]
          BY <1>7, <3>2
        <4> QED
          BY <1>2, <3>2, <4>1 DEF ToSet
      <3> QED
        BY <1>8, <3>1, <3>2
    <2>2. \A j \in 1 .. i : s[j] \in ToSet(r)
      BY <1>5, <1>6 DEF ToSet
    <2>3. \A j \in 1 .. k : t[j] \in ToSet(r)
      BY <1>5, <1>7 DEF ToSet
    <2>4. ToSet(r) \subseteq ToSet(s) \cup ToSet(t)
      BY <1>5, <2>1 DEF ToSet
    <2>5. ToSet(s) \subseteq ToSet(r)
      BY <1>2, <2>2 DEF ToSet
    <2>6. ToSet(t) \subseteq ToSet(r)
      BY <1>2, <2>3 DEF ToSet
    <2> QED
      BY <2>4, <2>5, <2>6
  <1>10. ASSUME NEW x \in 1 .. i + k, NEW y \in 1 .. i + k, r[x] = r[y] PROVE x = y
    <2>1. CASE x \in 1 .. i /\ y \in 1 .. i
      BY <1>2, <1>6, <1>10, <2>1 DEF Preceded
    <2>2. CASE x \in 1 .. i /\ y \notin 1 .. i
      <3>1. y - i \in 1 .. k /\ r[y] = t[y - i]
        BY <1>7, <1>8, <2>2
      <3>2. r[x] \in ToSet(s) /\ r[y] \in ToSet(t)
        BY <1>2, <1>6, <2>2, <3>1 DEF ToSet
      <3> QED
        BY <1>10, <3>2
    <2>3. CASE x \notin 1 .. i /\ y \in 1 .. i
      <3>1. x - i \in 1 .. k /\ r[x] = t[x - i]
        BY <1>7, <1>8, <2>3
      <3>2. r[y] \in ToSet(s) /\ r[x] \in ToSet(t)
        BY <1>2, <1>6, <2>3, <3>1 DEF ToSet
      <3> QED
        BY <1>10, <3>2
    <2>4. CASE x \notin 1 .. i /\ y \notin 1 .. i
      <3>1. /\ x - i \in 1 .. k /\ r[x] = t[x - i] /\ i + (x - i) = x
            /\ y - i \in 1 .. k /\ r[y] = t[y - i] /\ i + (y - i) = y
        BY <1>7, <1>8, <2>4
      <3>2. x - i = y - i
        BY <1>2, <1>10, <3>1 DEF Preceded
      <3> QED
        BY <3>1, <3>2
    <2> QED
      BY <2>1, <2>2, <2>3, <2>4
  <1>11. ASSUME NEW x \in 1 .. i + k, NEW d \in m[r[x]] PROVE \E j \in 1 .. x - 1 : r[j] = d
    <2>1. CASE x \in 1 .. i
      <3>1. PICK j \in 1 .. x - 1 : s[j] = d
        BY <1>2, <1>6, <2>1 DEF Preceded
      <3>2. j \in 1 .. i
        BY <1>2, <2>1
      <3> QED
        BY <1>6, <3>1, <3>2
    <2>2. CASE x \notin 1 .. i
      <3>1. PICK z \in 1 .. k : z = x - i /\ x = i + z /\ r[x] = t[z]
        BY <1>7, <1>8, <2>2
      <3>2. PICK j \in 1 .. z - 1 : t[j] = d
        BY <1>2, <3>1 DEF Preceded
      <3>3. j \in 1 .. k /\ i + j \in 1 .. x - 1
        BY <1>2, <3>1
      <3> QED
        BY <1>7, <3>2, <3>3
    <2> QED
      BY <2>1, <2>2
  <1>12. Preceded(r, m)
    BY <1>5, <1>10, <1>11 DEF Preceded
  <1> QED
    BY <1>3, <1>4, <1>9, <1>12

\* What is behind a module does not depend on other modules.
LEMMA BehindAlike ==
  ASSUME NEW m, IsFiniteSet(DOMAIN m), NEW n, IsFiniteSet(DOMAIN n), NEW K, K \subseteq DOMAIN m,
         \A k \in K : m[k] \subseteq K /\ n[k] = m[k], NEW k \in K
  PROVE  Behind(k, n) \subseteq Behind(k, m)
  <1>1. Behind(k, m) \subseteq K
    BY BehindWithin
  <1>2. /\ m[k] \subseteq Behind(k, m)
        /\ \A d \in Behind(k, m) \cap DOMAIN m : m[d] \subseteq Behind(k, m)
    BY BehindCloses
  <1>3. n[k] \subseteq Behind(k, m)
    BY <1>2
  <1>4. \A d \in Behind(k, m) \cap DOMAIN n : n[d] \subseteq Behind(k, m)
    BY <1>1, <1>2
  <1> QED
    BY <1>3, <1>4, BehindWithin

-----------------------------------------------------------------------------
(* What was registered. *)

\* The modules of the two packages.
CoreKeys == {"authentication", "blueprints", "configuration", "erp_auth", "generation",
             "organization", "system", "tenant"}

BusinessKeys == {"accounting", "ap_payable", "ar_receivable", "crm", "finance", "inventory",
                 "platform", "purchase", "reports", "sales", "supplier", "supply_chain"}

\* They are those of the packages, and the runtime's own are core modules.
LEMMA PackagesAre ==
  /\ ToSet(CorePackage) = CoreKeys /\ CorePackage \in Seq(CoreKeys)
  /\ ToSet(BusinessPackage) = BusinessKeys /\ BusinessPackage \in Seq(BusinessKeys)
  /\ DOMAIN DependsOn = CoreKeys \cup BusinessKeys
  /\ IsFiniteSet(CoreKeys) /\ IsFiniteSet(BusinessKeys)
  /\ CoreKeys \cap BusinessKeys = {} /\ Base \subseteq CoreKeys
  <1>1. CorePackage \in Seq(CoreKeys) /\ ToSet(CorePackage) = CoreKeys
    <2>1. CorePackage \in Seq(CoreKeys)
      BY DEF CorePackage, CoreKeys
    <2>2. DOMAIN CorePackage = 1 .. 8
      BY DEF CorePackage
    <2>3. 1 .. 8 = {1, 2, 3, 4, 5, 6, 7, 8}
      OBVIOUS
    <2>4. \A x : x \in ToSet(CorePackage) <=> \E i \in {1, 2, 3, 4, 5, 6, 7, 8} : x = CorePackage[i]
      BY <2>2, <2>3 DEF ToSet
    <2>5. /\ CorePackage[1] = "authentication" /\ CorePackage[2] = "blueprints"
          /\ CorePackage[3] = "configuration" /\ CorePackage[4] = "erp_auth"
          /\ CorePackage[5] = "generation" /\ CorePackage[6] = "organization"
          /\ CorePackage[7] = "system" /\ CorePackage[8] = "tenant"
      BY DEF CorePackage
    <2>6. \A x : x \in ToSet(CorePackage) <=> x \in CoreKeys
      BY <2>4, <2>5 DEF CoreKeys
    <2> QED
      BY <2>1, <2>6
  <1>2. BusinessPackage \in Seq(BusinessKeys) /\ ToSet(BusinessPackage) = BusinessKeys
    <2>1. BusinessPackage \in Seq(BusinessKeys)
      BY DEF BusinessPackage, BusinessKeys
    <2>2. DOMAIN BusinessPackage = 1 .. 12
      BY DEF BusinessPackage
    <2>3. 1 .. 12 = {1, 2, 3, 4, 5, 6, 7, 8, 9, 10, 11, 12}
      OBVIOUS
    <2>4. \A x : x \in ToSet(BusinessPackage) <=>
                   \E i \in {1, 2, 3, 4, 5, 6, 7, 8, 9, 10, 11, 12} : x = BusinessPackage[i]
      BY <2>2, <2>3 DEF ToSet
    <2>5. /\ BusinessPackage[1] = "accounting" /\ BusinessPackage[2] = "ap_payable"
          /\ BusinessPackage[3] = "ar_receivable" /\ BusinessPackage[4] = "crm"
          /\ BusinessPackage[5] = "finance" /\ BusinessPackage[6] = "inventory"
          /\ BusinessPackage[7] = "platform" /\ BusinessPackage[8] = "purchase"
          /\ BusinessPackage[9] = "reports" /\ BusinessPackage[10] = "sales"
          /\ BusinessPackage[11] = "supplier" /\ BusinessPackage[12] = "supply_chain"
      BY DEF BusinessPackage
    <2>6. \A x : x \in ToSet(BusinessPackage) <=> x \in BusinessKeys
      BY <2>4, <2>5 DEF BusinessKeys
    <2> QED
      BY <2>1, <2>6
  <1>3. DOMAIN DependsOn = CoreKeys \cup BusinessKeys
    BY DEF DependsOn, Declared, CoreKeys, BusinessKeys
  <1>4. CoreKeys \cap BusinessKeys = {} /\ Base \subseteq CoreKeys
    BY DEF Base, CoreKeys, BusinessKeys
  <1>5. IsFiniteSet(CoreKeys) /\ IsFiniteSet(BusinessKeys)
    BY <1>1, <1>2, MembersFinite
  <1> QED
    BY <1>1, <1>2, <1>3, <1>4, <1>5

\* What is taken from a package is listed.
LEMMA TakenListed ==
  ASSUME NEW K, NEW q \in Seq(K), NEW S, S \subseteq ToSet(q)
  PROVE  /\ ToSet(InOrder(q, S)) = S /\ InOrder(q, S) \in Seq(S)
         /\ InOrder(q, S) \in Seq(ToSet(InOrder(q, S)))
  <1>1. InOrder(q, S) \in Seq(K \cap S) /\ ToSet(InOrder(q, S)) = ToSet(q) \cap S
    BY InOrderOf
  <1>2. ToSet(q) \cap S = S
    OBVIOUS
  <1>3. InOrder(q, S) \in Seq(S)
    BY <1>1
  <1> QED
    BY <1>1, <1>2, <1>3

\* The modules of a package are accepted if each has what it needs and none is behind itself.
LEMMA AcceptedIs ==
  ASSUME NEW q, q \in Seq(ToSet(q)), NEW m, IsFiniteSet(DOMAIN m), ToSet(q) \subseteq DOMAIN m
  PROVE  Accepted(q, m) <=> Layered(ToSet(q), m)
  <1>1. CASE \A k \in ToSet(q) : m[k] \subseteq ToSet(q)
    <2>1. CycleDetected(q, m) <=> Cyclic(ToSet(q), m)
      BY <1>1, CyclesDetected
    <2> QED
      BY <1>1, <2>1 DEF Accepted, Layered, Cyclic
  <1>2. CASE ~ \A k \in ToSet(q) : m[k] \subseteq ToSet(q)
    BY <1>2 DEF Accepted, Layered
  <1> QED
    BY <1>1, <1>2

\* The manifests of apps that have all they need stand together.
Loadable ==
  \A S \in SUBSET Apps : (\A k \in S : needs[k] \subseteq S) => Loads(S, {})

\* What the program started with.
Registered ==
  /\ IsFiniteSet(DOMAIN needs)
  /\ (registry = << >>) <=> \E k \in Apps : k \in Behind(k, needs) \/ ~ (needs[k] \subseteq Apps)
  /\ registry \in Seq(ToSet(registry)) /\ Preceded(registry, needs)
  /\ registry # << >> => /\ ToSet(registry) = ToSet(CorePackage) \cup Apps
                         /\ Layered(ToSet(registry), needs) /\ Loadable

\* The loader and its checks come to what they should, whatever the apps need.
LEMMA FirstRegistered == BlueprintsInit => Registered
  <1> SUFFICES ASSUME BlueprintsInit PROVE Registered
    OBVIOUS
  <1>1. PICK graph \in mix.graphs :
          /\ needs = [k \in ToSet(CorePackage) \cup DOMAIN graph |->
                        IF k \in DOMAIN graph THEN graph[k] ELSE DependsOn[k]]
          /\ registry = IF /\ Accepted(InOrder(BusinessPackage, DOMAIN graph), needs)
                           /\ Loads(DOMAIN graph, {})
                        THEN LoadOrder(CorePackage, needs)
                               \o LoadOrder(InOrder(BusinessPackage, DOMAIN graph), needs)
                        ELSE << >>
    BY DEF BlueprintsInit
  <1>2. PICK G : G = DOMAIN graph
    OBVIOUS
  <1>3. PICK q : q = InOrder(BusinessPackage, G)
    OBVIOUS
  <1>4. mix \in Trials /\ G \subseteq BusinessKeys
    BY <1>2, BlueprintsAssumption, PackagesAre DEF BlueprintsInit
  <1>5. ToSet(q) = G /\ q \in Seq(G)
    BY <1>3, <1>4, PackagesAre, TakenListed
  <1>6. /\ DOMAIN needs = CoreKeys \cup G /\ \A k \in G : needs[k] = graph[k]
        /\ \A k \in CoreKeys : needs[k] = DependsOn[k]
    BY <1>1, <1>2, <1>4, PackagesAre
  <1>7. IsFiniteSet(DOMAIN needs)
    <2>1. IsFiniteSet(G)
      BY <1>4, PackagesAre, FS_Subset
    <2>2. IsFiniteSet(CoreKeys \cup G)
      <3>1. IsFiniteSet(CoreKeys)
        BY PackagesAre
      <3> QED
        BY ONLY <2>1, <3>1, FS_Union
    <2> QED
      BY <1>6, <2>2
  <1>8. Apps = G
    BY <1>4, <1>6, PackagesAre DEF Apps
  <1>9. Accepted(q, needs) <=> Layered(G, needs)
    BY <1>5, <1>6, <1>7, AcceptedIs
  <1>10. Layered(G, needs) <=> ~ \E k \in G : k \in Behind(k, needs) \/ ~ (needs[k] \subseteq G)
    BY <1>6, <1>7 DEF Layered
  <1>11. Loadable
    <2> SUFFICES ASSUME NEW S \in SUBSET Apps, \A k \in S : needs[k] \subseteq S
                 PROVE  Loads(S, {})
      BY DEF Loadable
    <2>1. S \in SUBSET DOMAIN graph /\ \A k \in S : graph[k] \subseteq S
      BY <1>2, <1>6, <1>8
    <2> QED
      BY <1>1, <1>4, <2>1, LoadsAssumption
  <1>12. Layered(G, needs) => Loads(G, {})
    BY <1>8, <1>11 DEF Loadable, Layered
  <1>13. Layered(CoreKeys, needs)
    <2>1. IsFiniteSet(DOMAIN DependsOn)
      <3>1. IsFiniteSet(CoreKeys \cup BusinessKeys)
        <4>1. IsFiniteSet(CoreKeys) /\ IsFiniteSet(BusinessKeys)
          BY PackagesAre
        <4> QED
          BY ONLY <4>1, FS_Union
      <3> QED
        BY <3>1, PackagesAre
    <2>2. Accepted(CorePackage, DependsOn) <=> Layered(CoreKeys, DependsOn)
      <3>1. CorePackage \in Seq(ToSet(CorePackage)) /\ ToSet(CorePackage) \subseteq DOMAIN DependsOn
        BY PackagesAre
      <3> QED
        BY <2>1, <3>1, AcceptedIs, PackagesAre
    <2>3. Layered(CoreKeys, DependsOn)
      BY <2>2, BlueprintsAssumption
    <2>4. ASSUME NEW k \in CoreKeys PROVE Behind(k, needs) \subseteq Behind(k, DependsOn)
      <3>1. \A d \in CoreKeys : DependsOn[d] \subseteq CoreKeys /\ needs[d] = DependsOn[d]
        BY <1>6, <2>3 DEF Layered
      <3>2. CoreKeys \subseteq DOMAIN DependsOn
        BY PackagesAre
      <3> QED
        BY <1>7, <2>1, <3>1, <3>2, BehindAlike
    <2> QED
      BY <1>6, <1>7, <2>3, <2>4 DEF Layered
  <1>14. CASE ~ Layered(G, needs)
    <2>1. registry = << >>
      BY <1>1, <1>2, <1>3, <1>9, <1>14
    <2>2. << >> \in Seq(ToSet(<< >>)) /\ Preceded(<< >>, needs)
      BY DEF Preceded
    <2> QED
      BY <1>7, <1>8, <1>10, <1>14, <2>1, <2>2 DEF Registered
  <1>15. CASE Layered(G, needs)
    <2>1. PICK s, t : s = LoadOrder(CorePackage, needs) /\ t = LoadOrder(q, needs)
      OBVIOUS
    <2>2. s \in Seq(CoreKeys) /\ ToSet(s) = CoreKeys /\ Preceded(s, needs)
      BY <1>13, <2>1, PackagesAre, LoadOrderListed
    <2>3. t \in Seq(G) /\ ToSet(t) = G /\ Preceded(t, needs)
      BY <1>5, <1>15, <2>1, LoadOrderListed
    <2>4. registry = s \o t
      BY <1>1, <1>2, <1>3, <1>9, <1>12, <1>15, <2>1
    <2>5. ToSet(s) \cap ToSet(t) = {}
      BY <1>4, <2>2, <2>3, PackagesAre
    <2>6. /\ s \o t \in Seq(CoreKeys \cup G) /\ ToSet(s \o t) = CoreKeys \cup G
          /\ Preceded(s \o t, needs)
      <3>1. /\ s \o t \in Seq(CoreKeys \cup G) /\ ToSet(s \o t) = ToSet(s) \cup ToSet(t)
            /\ Preceded(s \o t, needs)
        <4>1. PICK m : m = needs
          OBVIOUS
        <4>2. Preceded(s, m) /\ Preceded(t, m)
          BY <2>2, <2>3, <4>1
        <4>3. s \in Seq(CoreKeys) /\ t \in Seq(G)
          BY <2>2, <2>3
        <4>4. /\ s \o t \in Seq(CoreKeys \cup G) /\ ToSet(s \o t) = ToSet(s) \cup ToSet(t)
              /\ Preceded(s \o t, m)
          BY <4>2, <4>3, <2>5, PrecededBoth
        <4> QED
          BY <4>1, <4>4
      <3> QED
        BY <2>2, <2>3, <3>1
    <2>7. registry # << >>
      <3>1. "system" \in ToSet(registry)
        BY <2>4, <2>6 DEF CoreKeys
      <3> QED
        BY <3>1 DEF ToSet
    <2>8. Layered(CoreKeys \cup G, needs)
      BY <1>13, <1>15 DEF Layered
    <2> QED
      BY <1>7, <1>8, <1>10, <1>11, <1>15, <2>4, <2>6, <2>7, <2>8, PackagesAre DEF Registered
  <1> QED
    BY <1>14, <1>15

-----------------------------------------------------------------------------
(* Pages that an export takes out. *)

\* The manifests, one by one.
LEMMA DeclaredAre ==
  /\ Declared["accounting"] = AccountingModule /\ Declared["ap_payable"] = PayableModule
  /\ Declared["ar_receivable"] = ReceivableModule /\ Declared["crm"] = CrmModule
  /\ Declared["finance"] = FinanceModule /\ Declared["inventory"] = InventoryModule
  /\ Declared["platform"] = PlatformModule /\ Declared["purchase"] = PurchaseModule
  /\ Declared["reports"] = ReportsModule /\ Declared["sales"] = SalesModule
  /\ Declared["supplier"] = SupplierModule /\ Declared["supply_chain"] = SupplyChainModule
  /\ Declared["authentication"] = AuthenticationModule
  /\ Declared["blueprints"] = BlueprintsModule
  /\ Declared["configuration"] = ConfigurationModule /\ Declared["erp_auth"] = ErpAuthModule
  /\ Declared["generation"] = GenerationModule /\ Declared["organization"] = OrganizationModule
  /\ Declared["system"] = SystemModule /\ Declared["tenant"] = TenantModule
  /\ DOMAIN Declared = CoreKeys \cup BusinessKeys
  BY DEF Declared, CoreKeys, BusinessKeys

\* A manifest takes nothing out unless it says so.
LEMMA NoPrunes ==
  \A n, menus, permissions :
    DOMAIN Manifest(n, menus, permissions).prunes = {}
  BY DEF Manifest

\* These say nothing.
LEMMA PlainModules ==
  \A m \in {AccountingModule, PayableModule, ReceivableModule, CrmModule, FinanceModule,
            PlatformModule, ReportsModule, SupplierModule, SupplyChainModule,
            AuthenticationModule, BlueprintsModule, ConfigurationModule, ErpAuthModule,
            GenerationModule, OrganizationModule, SystemModule, TenantModule} :
    DOMAIN m.prunes = {}
  <1>1. /\ DOMAIN AccountingModule.prunes = {} /\ DOMAIN PayableModule.prunes = {}
        /\ DOMAIN ReceivableModule.prunes = {} /\ DOMAIN PlatformModule.prunes = {}
        /\ DOMAIN ReportsModule.prunes = {} /\ DOMAIN SupplyChainModule.prunes = {}
    BY NoPrunes DEF AccountingModule, PayableModule, ReceivableModule, PlatformModule,
       ReportsModule, SupplyChainModule
  <1>2. DOMAIN CrmModule.prunes = {} /\ DOMAIN SupplierModule.prunes = {}
    BY NoPrunes DEF CrmModule, SupplierModule, Partners
  <1>3. DOMAIN FinanceModule.prunes = {}
    BY DEF FinanceModule, Manifest
  <1>4. /\ DOMAIN AuthenticationModule.prunes = {} /\ DOMAIN BlueprintsModule.prunes = {}
        /\ DOMAIN ConfigurationModule.prunes = {} /\ DOMAIN ErpAuthModule.prunes = {}
        /\ DOMAIN GenerationModule.prunes = {} /\ DOMAIN OrganizationModule.prunes = {}
        /\ DOMAIN SystemModule.prunes = {} /\ DOMAIN TenantModule.prunes = {}
    BY NoPrunes DEF AuthenticationModule, BlueprintsModule, ConfigurationModule, ErpAuthModule,
       GenerationModule, OrganizationModule, SystemModule, TenantModule, Bare
  <1> QED
    BY <1>1, <1>2, <1>3, <1>4

\* Inventory takes out the pages of stocktakes.
LEMMA InventoryPrunes ==
  /\ DOMAIN InventoryModule.prunes = {"stocktake"}
  /\ InventoryModule.prunes["stocktake"] =
       {<<"inventory", "stocktake">>, Append(<<"inventory", "stocktake">>, "detail")}
  <1>1. InventoryModule.prunes =
          [stocktake |-> {<<"inventory", "stocktake">>,
                          Append(<<"inventory", "stocktake">>, "detail")}]
    BY DEF InventoryModule, Manifest
  <1> QED
    BY <1>1

\* Purchase takes out those of orders, and of receipts.
LEMMA PurchasePrunes ==
  /\ DOMAIN PurchaseModule.prunes = {"approval", "partial_receipt"}
  /\ PurchaseModule.prunes["approval"] =
       {<<"purchase", "order">>, Append(<<"purchase", "order">>, "detail"),
        Append(<<"purchase", "order">>, "approve")}
  /\ PurchaseModule.prunes["partial_receipt"] = {<<"purchase", "receipt">>}
  <1>1. PurchaseModule.prunes =
          [approval |-> {<<"purchase", "order">>, Append(<<"purchase", "order">>, "detail"),
                         Append(<<"purchase", "order">>, "approve")},
           partial_receipt |-> {<<"purchase", "receipt">>}]
    BY DEF PurchaseModule, Manifest
  <1> QED
    BY <1>1

\* Sales takes out those of orders.
LEMMA SalesPrunes ==
  /\ DOMAIN SalesModule.prunes = {"approval"}
  /\ SalesModule.prunes["approval"] =
       {<<"sales", "order">>, Append(<<"sales", "order">>, "detail"),
        Append(<<"sales", "order">>, "approve")}
  <1>1. SalesModule.prunes =
          [approval |-> {<<"sales", "order">>, Append(<<"sales", "order">>, "detail"),
                         Append(<<"sales", "order">>, "approve")}]
    BY DEF SalesModule, Manifest
  <1> QED
    BY <1>1

\* The features that take pages out, and the parts of the codes of these.
PruningFeatures ==
  {<<"inventory", "stocktake">>, <<"purchase", "approval">>, <<"purchase", "partial_receipt">>,
   <<"sales", "approval">>}

\* The page of a feature: the first two parts of what it takes out.
PrunedPage(f) ==
  IF f[2] = "approval" THEN <<f[1], "order">>
  ELSE IF f[2] = "stocktake" THEN <<"inventory", "stocktake">> ELSE <<"purchase", "receipt">>

\* A code starts with the parts it is made of.
LEMMA CodesStart ==
  ASSUME NEW a, NEW b, NEW e
  PROVE  /\ Append(<<a, b>>, e)[1] = a /\ Append(<<a, b>>, e)[2] = b
         /\ <<a, b>>[1] = a /\ <<a, b>>[2] = b
  <1>1. Append(<<a, b>>, e)[1] = a
    OBVIOUS
  <1>2. Append(<<a, b>>, e)[2] = b
    OBVIOUS
  <1>3. <<a, b>>[1] = a /\ <<a, b>>[2] = b
    OBVIOUS
  <1> QED
    BY <1>1, <1>2, <1>3, Zenon

\* What a feature takes out is its page or is below it.
LEMMA PrunedCodes ==
  ASSUME NEW f \in PruningFeatures, NEW c \in Declared[f[1]].prunes[f[2]]
  PROVE  c[1] = PrunedPage(f)[1] /\ c[2] = PrunedPage(f)[2]
  <1>1. \A a, b, e : /\ Append(<<a, b>>, e)[1] = a /\ Append(<<a, b>>, e)[2] = b
                               /\ <<a, b>>[1] = a /\ <<a, b>>[2] = b
    BY CodesStart
  <1>2. CASE f = <<"inventory", "stocktake">>
    <2>1. f[1] = "inventory" /\ f[2] = "stocktake"
      BY <1>2
    <2>2. c \in {<<"inventory", "stocktake">>, Append(<<"inventory", "stocktake">>, "detail")}
      BY <2>1, DeclaredAre, InventoryPrunes
    <2> QED
      BY <1>1, <2>1, <2>2 DEF PrunedPage
  <1>3. CASE f = <<"purchase", "approval">>
    <2>1. f[1] = "purchase" /\ f[2] = "approval"
      BY <1>3
    <2>2. c \in {<<"purchase", "order">>, Append(<<"purchase", "order">>, "detail"),
                 Append(<<"purchase", "order">>, "approve")}
      BY <2>1, DeclaredAre, PurchasePrunes
    <2> QED
      BY <1>1, <2>1, <2>2 DEF PrunedPage
  <1>4. CASE f = <<"purchase", "partial_receipt">>
    <2>1. f[1] = "purchase" /\ f[2] = "partial_receipt"
      BY <1>4
    <2>2. c \in {<<"purchase", "receipt">>}
      BY <2>1, DeclaredAre, PurchasePrunes
    <2> QED
      BY <1>1, <2>1, <2>2 DEF PrunedPage
  <1>5. CASE f = <<"sales", "approval">>
    <2>1. f[1] = "sales" /\ f[2] = "approval"
      BY <1>5
    <2>2. c \in {<<"sales", "order">>, Append(<<"sales", "order">>, "detail"),
                 Append(<<"sales", "order">>, "approve")}
      BY <2>1, DeclaredAre, SalesPrunes
    <2> QED
      BY <1>1, <2>1, <2>2 DEF PrunedPage
  <1> QED
    BY <1>2, <1>3, <1>4, <1>5 DEF PruningFeatures

\* There are no other features that take pages out.
LEMMA PrunableAre == Prunable \subseteq PruningFeatures
  <1> SUFFICES ASSUME NEW key \in DOMAIN Declared, NEW name \in DOMAIN Declared[key].prunes
               PROVE  <<key, name>> \in PruningFeatures
    BY DEF Prunable
  <1>1. key \in {"inventory", "purchase", "sales"}
    <2>1. CASE key \in CoreKeys
      BY <2>1, DeclaredAre, PlainModules DEF CoreKeys
    <2>2. CASE key \in BusinessKeys
      BY <2>2, DeclaredAre, PlainModules DEF BusinessKeys
    <2> QED
      BY <2>1, <2>2, DeclaredAre
  <1>2. CASE key = "inventory"
    BY <1>2, DeclaredAre, InventoryPrunes DEF PruningFeatures
  <1>3. CASE key = "purchase"
    BY <1>3, DeclaredAre, PurchasePrunes DEF PruningFeatures
  <1>4. CASE key = "sales"
    BY <1>4, DeclaredAre, SalesPrunes DEF PruningFeatures
  <1> QED
    BY <1>1, <1>2, <1>3, <1>4

\* No page is taken out by two features.
LEMMA PrunesApart ==
  ASSUME NEW f \in Prunable, NEW g \in Prunable, f # g
  PROVE  Declared[f[1]].prunes[f[2]] \cap Declared[g[1]].prunes[g[2]] = {}
  <1>1. f \in PruningFeatures /\ g \in PruningFeatures
    BY PrunableAre
  <1>2. PrunedPage(f)[1] # PrunedPage(g)[1] \/ PrunedPage(f)[2] # PrunedPage(g)[2]
    BY <1>1 DEF PruningFeatures, PrunedPage
  <1> QED
    BY <1>1, <1>2, PrunedCodes

-----------------------------------------------------------------------------
(* The modules there are, and the packages of them. *)

\* What was registered stays so.
LEMMA AlwaysRegistered == BlueprintsSpec => []Registered
  <1>1. Registered /\ [BlueprintsNext]_blueprintsVars => Registered'
    <2> SUFFICES ASSUME Registered, [BlueprintsNext]_blueprintsVars PROVE Registered'
      OBVIOUS
    <2>1. needs' = needs /\ registry' = registry
      BY LoadedOnce DEF loaded
    <2>2. Apps' = Apps
      BY <2>1 DEF Apps
    <2>3. Loadable => Loadable'
      BY <2>1, <2>2 DEF Loadable
    <2> QED
      BY <2>1, <2>2, <2>3 DEF Registered
  <1> QED
    BY <1>1, FirstRegistered, PTL DEF BlueprintsSpec

\* A configuration that was validated has the module that everything needs.
LEMMA NormalHasSystem == ASSUME NEW c \in NormalConfigs PROVE "system" \in c.modules
  <1>1. PICK d \in UNION {some.configs : some \in Trials} : c = Normalised(d)
    BY DEF NormalConfigs
  <1>2. d = [mode |-> d.mode, modules |-> d.modules, features |-> d.features,
             complete |-> d.complete]
    BY <1>1, BlueprintsAssumption
  <1>3. c.modules = d.modules \cup {"system"}
    BY <1>1, <1>2, NormalisedFields
  <1> QED
    BY <1>3

\* Validation adds no module that is not registered, where the program runs at all.
LEMMA NormalisedKnown ==
  ASSUME Registered, registry # << >>, mix \in Trials, NEW c \in mix.configs, Known(c)
  PROVE  Known(Normalised(c))
  <1>1. c = [mode |-> c.mode, modules |-> c.modules, features |-> c.features,
             complete |-> c.complete]
    BY BlueprintsAssumption
  <1>2. Normalised(c).modules = c.modules \cup {"system"}
    BY <1>1, NormalisedFields
  <1>3. "system" \in ToSet(registry)
    BY PackagesAre DEF Registered, CoreKeys
  <1> QED
    BY <1>2, <1>3 DEF Known

\* The package of a configuration has what is enabled and what that needs, in order, and no
\* more; no page of a feature that is on is taken out, and what is whole can be loaded.
PackagedWell(c, package) ==
  /\ Base \cup c.modules \subseteq ToSet(package.apps)
  /\ DependenciesFirst(package.apps, needs)
  /\ \A k \in ToSet(package.apps) \ (Base \cup c.modules) :
       \E d \in Base \cup c.modules : k \in Behind(d, needs)
  /\ \A f \in c.features \cap Prunable :
       Declared[f[1]].prunes[f[2]] \cap package.pruned = {}
  /\ package.pruned = {} => Loads(ToSet(package.apps) \cap Apps, {})

\* So it is for every configuration that was validated, of modules that are registered.
LEMMA PackageIsWell ==
  ASSUME Registered, NEW c \in NormalConfigs, Known(c)
  PROVE  PackagedWell(c, Package(c))
  <1>1. PICK q : q = registry
    OBVIOUS
  <1>2. PICK m : m = needs
    OBVIOUS
  <1>3. PICK S : S = Base \cup c.modules
    OBVIOUS
  <1>4. q # << >>
    <2>1. "system" \in ToSet(q)
      BY <1>1, NormalHasSystem DEF Known
    <2> QED
      BY <2>1 DEF ToSet
  <1>5. /\ q \in Seq(ToSet(q)) /\ Preceded(q, m) /\ Layered(ToSet(q), m)
        /\ ToSet(q) = CoreKeys \cup Apps /\ \A k \in Apps : m[k] \subseteq Apps
        /\ Loadable
    BY <1>1, <1>2, <1>4, PackagesAre DEF Registered
  <1>6. S \subseteq ToSet(q)
    BY <1>1, <1>3, <1>5, PackagesAre DEF Known
  <1>7. PICK P : P = Resolved(q, S, m)
    OBVIOUS
  <1>8. /\ P \in ClosedSets(ToSet(q), m) /\ S \subseteq P
        /\ \A x \in P \ S : \E d \in S : x \in Behind(d, m)
    BY <1>5, <1>6, <1>7, ResolvedGathers
  <1>9. PICK s : s = InOrder(q, P)
    OBVIOUS
  <1>10. s \in Seq(ToSet(q)) /\ ToSet(s) = P
    BY <1>5, <1>8, <1>9, Listed DEF ClosedSets
  <1>11. \A k \in P : m[k] \subseteq P
    BY <1>8 DEF ClosedSets
  <1>12. Preceded(s, m)
    BY <1>5, <1>9, <1>11, InOrderPreceded
  <1>13. DependenciesFirst(s, m)
    BY <1>10, <1>12, PrecededIs
  <1>14. Package(c).apps = s /\ Package(c).pruned = Pruned(c)
    BY <1>1, <1>2, <1>3, <1>7, <1>9 DEF Package, Installed, PlannedModules
  <1>15. ASSUME NEW f \in c.features \cap Prunable
         PROVE  Declared[f[1]].prunes[f[2]] \cap Pruned(c) = {}
    <2>1. \A g \in Prunable \ c.features :
            Declared[f[1]].prunes[f[2]] \cap Declared[g[1]].prunes[g[2]] = {}
      BY PrunesApart
    <2> QED
      BY <2>1 DEF Pruned
  <1>16. Loads(P \cap Apps, {})
    BY <1>2, <1>5, <1>11 DEF Loadable
  <1> QED
    BY <1>2, <1>3, <1>8, <1>10, <1>13, <1>14, <1>15, <1>16 DEF PackagedWell

\* No configuration names a module that is not registered, and an export is of its own.
Informed ==
  /\ \A v \in Versions : Known(version[v].config)
  /\ \A w \in Threads : Known(serving[w].config)
  /\ \A j \in Jobs : /\ Known(generated[j].config)
                     /\ generated[j].kind = "export" =>
                          generated[j].package = Package(generated[j].config)

\* What was loaded decides which configurations are known, and what their packages are.
LEMMA PackageStays ==
  ASSUME UNCHANGED loaded, NEW c
  PROVE  Known(c)' = Known(c) /\ Package(c)' = Package(c)
  BY DEF loaded, Known, Package, Installed, Pruned, PlannedModules

\* Where only requests move on.
LEMMA InformedTaken ==
  ASSUME Fits, Informed, NEW w \in Threads, NEW r, Known(r.config), Take(w, r),
         UNCHANGED <<loaded, version, generated>>
  PROVE  Informed'
  <1>1. ASSUME NEW v \in Threads PROVE Known(serving'[v].config)
    BY DEF Take, Informed, Fits, RequestsFit
  <1> QED
    BY <1>1, PackageStays DEF Informed, Versions, Jobs

\* Where versions are written and a request moves on.
LEMMA InformedWritten ==
  ASSUME Fits, Informed, \A v \in Versions' : Known(version'[v].config),
         NEW w \in Threads, NEW r, Known(r.config), Take(w, r), UNCHANGED <<loaded, generated>>
  PROVE  Informed'
  <1>1. ASSUME NEW v \in Threads PROVE Known(serving'[v].config)
    BY DEF Take, Informed, Fits, RequestsFit
  <1> QED
    BY <1>1, PackageStays DEF Informed, Jobs

\* An idle request is of no modules.
LEMMA IdleKnown == Known(NoRequest.config) /\ Known(NoConfig)
  BY DEF NoRequest, NoConfig, Known

\* A request to make a version or to edit one.
LEMMA InformedAsked ==
  ASSUME Fits, Informed, Registered, NEW w \in Threads, NEW publish \in BOOLEAN,
         \/ \E c \in mix.configs :
              \/ \E number \in {NextNumber} \cup Labels : Create(w, c, number, publish)
              \/ \E v \in Versions : \E number \in {version[v].number} \cup Labels :
                   LoadEdit(w, v, c, number, publish)
         \/ \E v \in Versions : \E number \in {NextNumber} \cup Labels : Clone(w, v, number)
  PROVE  Informed'
  <1>1. Labels \subseteq Nat /\ NextNumber \in Nat /\ mix \in Trials
    BY NextIsNumber, BlueprintsAssumption DEF Fits
  <1>2. ASSUME NEW kind \in {"create", "clone"}, NEW c, NEW number \in Nat, NEW some \in BOOLEAN,
               LoadNew(w, kind, c, number, some), Normalised(c) \in NormalConfigs,
               Known(Normalised(c))
        PROVE  Informed'
    <2>1. PICK others : others = IF some THEN Published ELSE {}
      OBVIOUS
    <2>2. PICK r : r = Making(kind, Normalised(c), number, some, others)
      OBVIOUS
    <2>3. Take(w, r) /\ UNCHANGED <<loaded, version, generated>>
      BY <1>2, <2>1, <2>2 DEF LoadNew, Making
    <2>4. /\ kind \in RequestKinds /\ Normalised(c) \in Configurations /\ others \in SUBSET Nat
      BY <1>2, <2>1, FittingRows DEF RequestKinds, Configurations, Published, LiveVersions
    <2>5. r.config = Normalised(c)
      BY <2>2, <2>4, NewFields
    <2> QED
      BY <1>2, <2>3, <2>5, InformedTaken
  <1>3. ASSUME NEW c \in mix.configs, NEW number \in {NextNumber} \cup Labels,
               Create(w, c, number, publish)
        PROVE  Informed'
    <2>1. Known(c) /\ registry # << >>
      BY <1>3 DEF Create, LoadNew, MayServe
    <2>2. Known(Normalised(c)) /\ Normalised(c) \in NormalConfigs
      BY <1>1, <2>1, NormalisedKnown DEF NormalConfigs
    <2> QED
      BY <1>1, <1>2, <1>3, <2>2 DEF Create
  <1>4. ASSUME NEW c \in mix.configs, NEW v \in Versions,
               NEW number \in {version[v].number} \cup Labels,
               LoadEdit(w, v, c, number, publish)
        PROVE  Informed'
    <2>1. Known(c) /\ registry # << >>
      BY <1>4 DEF LoadEdit, MayServe
    <2>2. Known(Normalised(c)) /\ Normalised(c) \in Configurations
      BY <1>1, <2>1, NormalisedKnown DEF NormalConfigs, Configurations
    <2>3. number \in Nat /\ v \in Nat
      BY FittingRows, BlueprintsAssumption DEF VersionRows
    <2>4. PICK r : r = Editing(v, Normalised(c), number, publish)
      OBVIOUS
    <2>5. Take(w, r) /\ UNCHANGED <<loaded, version, generated>>
      BY <1>4, <2>4 DEF LoadEdit, Editing
    <2>6. r.config = Normalised(c)
      BY <2>2, <2>3, <2>4, EditFields
    <2> QED
      BY <2>2, <2>5, <2>6, InformedTaken
  <1>5. ASSUME NEW v \in Versions, NEW number \in {NextNumber} \cup Labels, Clone(w, v, number)
        PROVE  Informed'
    <2>1. version[v].config \in NormalConfigs
      BY <1>5 DEF Fits, VersionsFit, Clone
    <2>2. Normalised(version[v].config) = version[v].config
      BY <2>1, NormalisedOnce
    <2>3. Known(version[v].config)
      BY DEF Informed
    <2> QED
      BY <1>1, <1>2, <1>5, <2>1, <2>2, <2>3 DEF Clone
  <1> QED
    BY <1>3, <1>4, <1>5

\* A request to publish a version or to generate from it.
LEMMA InformedLoad ==
  ASSUME Fits, Informed, NEW w \in Threads,
         \/ \E v \in Versions : LoadPublish(w, v)
         \/ \E t \in Selectable :
              \/ \E v \in Versions, kind \in {"create_saas", "export"} :
                   LoadGeneration(w, kind, v, t)
              \/ \E j \in Jobs : LoadRetry(w, j, t)
         \/ \E v \in Versions, t \in {0} \cup Tenants : LoadApply(w, v, t)
  PROVE  Informed'
  <1>1. Selectable \subseteq Nat /\ \A t \in {0} \cup Tenants : t \in Nat
    BY FittingRows DEF Selectable
  <1>2. CASE \E v \in Versions : LoadPublish(w, v)
    <2>1. PICK v \in Versions : LoadPublish(w, v)
      BY <1>2
    <2>2. v \in Nat /\ version[v].config \in Configurations /\ Known(version[v].config)
      BY FittingRows DEF VersionRows, Informed
    <2>3. PICK r : r = Publishing(v, version[v].config)
      OBVIOUS
    <2>4. r.config = version[v].config
      BY <2>2, <2>3, PublishingFields
    <2> QED
      BY <2>1, <2>2, <2>3, <2>4, InformedTaken DEF LoadPublish
  <1>3. ASSUME NEW kind \in {"create_saas", "export", "apply"}, NEW v \in Versions, NEW t \in Nat,
               NEW retry \in Nat, Live(v), Take(w, Generation(kind, v, t, retry)),
               UNCHANGED <<loaded, version, tenant, generated>>
        PROVE  Informed'
    <2>1. version[v].config \in NormalConfigs /\ Known(version[v].config) /\ v \in Nat
      BY <1>3, FittingRows DEF Fits, VersionsFit, Informed
    <2>2. Normalised(version[v].config) = version[v].config
      BY <2>1, NormalisedOnce
    <2>3. PICK r : r = Generation(kind, v, t, retry)
      OBVIOUS
    <2>4. r.config = version[v].config
      BY <2>1, <2>2, <2>3, GenerationFields DEF Configurations
    <2> QED
      BY <1>3, <2>1, <2>3, <2>4, InformedTaken
  <1>4. ASSUME NEW t \in Selectable, NEW v \in Versions, NEW kind \in {"create_saas", "export"},
               LoadGeneration(w, kind, v, t)
        PROVE  Informed'
    <2>1. Live(v) /\ Take(w, Generation(kind, v, t, 0))
          /\ UNCHANGED <<loaded, version, tenant, generated>>
      BY <1>4 DEF LoadGeneration, MayGenerate
    <2> QED
      BY <1>1, <1>3, <2>1
  <1>5. ASSUME NEW t \in Selectable, NEW j \in Jobs, LoadRetry(w, j, t) PROVE Informed'
    <2>1. PICK v : v = generated[j].version
      OBVIOUS
    <2>2. PICK kind : kind = generated[j].kind
      OBVIOUS
    <2>3. PICK retry : retry = generated[j].retry + 1
      OBVIOUS
    <2>4. PICK P : generated[j] \in JobRows(P)
      BY FittingRows
    <2>5. v \in Versions /\ kind \in {"create_saas", "export"} /\ retry \in Nat
      BY <2>1, <2>2, <2>3, <2>4 DEF Fits, JobsFit, LiveVersions, JobRows
    <2>6. Live(v) /\ Take(w, Generation(kind, v, t, retry))
          /\ UNCHANGED <<loaded, version, tenant, generated>>
      BY <1>5, <2>1, <2>2, <2>3 DEF LoadRetry, MayGenerate
    <2> QED
      BY <1>1, <1>3, <2>5, <2>6
  <1>6. ASSUME NEW v \in Versions, NEW t \in {0} \cup Tenants, LoadApply(w, v, t) PROVE Informed'
    <2>1. Live(v) /\ Take(w, Generation("apply", v, t, 0))
          /\ UNCHANGED <<loaded, version, tenant, generated>>
      BY <1>6 DEF LoadApply
    <2> QED
      BY <1>1, <1>3, <2>1
  <1> QED
    BY <1>2, <1>4, <1>5, <1>6

\* What is written of versions.
LEMMA InformedVersions ==
  ASSUME Fits, Informed, NEW w \in Threads,
         \/ InsertVersion(w) \/ PublishVersion(w) \/ SaveEdit(w) \/ Republish(w)
         \/ \E v \in Versions : DestroyVersion(w, v)
  PROVE  Informed'
  <1>1. Known(serving[w].config) /\ \A v \in Versions : Known(version[v].config)
    BY DEF Informed
  <1>2. CASE InsertVersion(w)
    <2>1. \A v \in Versions' : Known(version'[v].config)
      BY <1>1, <1>2, InsertedRows
    <2> QED
      BY <1>2, <2>1, IdleKnown, InformedWritten DEF InsertVersion, Answered
  <1>3. CASE PublishVersion(w)
    <2>1. \A v \in Versions' : Known(version'[v].config)
      BY <1>1, <1>3, PublishedRows
    <2> QED
      BY <1>3, <2>1, IdleKnown, InformedWritten DEF PublishVersion, Answered
  <1>4. CASE SaveEdit(w)
    <2>1. ASSUME NEW v \in Versions' PROVE Known(version'[v].config)
      <3>1. v = serving[w].id => version'[v].config = serving[w].config
        BY <1>4, EditedRows
      <3>2. v # serving[w].id => v \in Versions /\ version'[v] = version[v]
        BY <1>4, <2>1, EditedRows
      <3> QED
        BY <1>1, <3>1, <3>2
    <2>2. PICK r : r = [serving[w] EXCEPT !.kind = "saved"]
      OBVIOUS
    <2>3. r.config = serving[w].config
      BY <2>2, FittingRows, SavedFields
    <2>4. (Take(w, r) \/ Take(w, NoRequest)) /\ UNCHANGED <<loaded, generated>>
      BY <1>4, <2>2 DEF SaveEdit, Answered
    <2> QED
      BY <1>1, <2>1, <2>3, <2>4, IdleKnown, InformedWritten
  <1>5. CASE Republish(w)
    <2>1. serving[w].id \in Nat /\ serving[w].config \in Configurations
      BY FittingRows DEF Requested
    <2>2. PICK r : r = Publishing(serving[w].id, serving[w].config)
      OBVIOUS
    <2>3. r.config = serving[w].config
      BY <2>1, <2>2, PublishingFields
    <2>4. (Take(w, r) \/ Take(w, NoRequest)) /\ UNCHANGED <<loaded, version, generated>>
      BY <1>5, <2>2 DEF Republish, Answered
    <2> QED
      BY <1>1, <2>3, <2>4, IdleKnown, InformedTaken
  <1>6. ASSUME NEW d \in Versions, DestroyVersion(w, d) PROVE Informed'
    <2>1. \A v \in Versions' : Known(version'[v].config)
      BY <1>1, <1>6, IdleKnown, DestroyedRows
    <2> QED
      BY <1>6, <2>1, PackageStays DEF DestroyVersion, Informed, Jobs
  <1> QED
    BY <1>2, <1>3, <1>4, <1>5, <1>6

\* A job that is recorded, of the request's configuration.
LEMMA InformedRecorded ==
  ASSUME Fits, Informed, NEW w \in Threads, CreateSaas(w) \/ ExportCode(w)
  PROVE  Informed'
  <1>1. PICK t, package :
          /\ serving[w].kind \in {"create_saas", "export"} /\ t \in Nat
          /\ Recorded(serving[w], t, package)
          /\ serving[w].kind = "export" => package = Package(serving[w].config)
          /\ Answered(w) /\ UNCHANGED <<loaded, version>>
    <2>1. CASE CreateSaas(w)
      <3>1. PICK t : t = IF serving[w].tenant = 0 THEN Len(tenant) + 1 ELSE serving[w].tenant
        OBVIOUS
      <3>2. t \in Nat
        BY <3>1, FittingRows DEF Requested
      <3> QED
        BY <2>1, <3>1, <3>2 DEF CreateSaas
    <2>2. CASE ExportCode(w)
      BY <2>2 DEF ExportCode
    <2> QED
      BY <2>1, <2>2
  <1>2. PICK n : n = Len(generated) + 1
    OBVIOUS
  <1>3. /\ Jobs' = Jobs \cup {n} /\ \A j \in Jobs : generated'[j] = generated[j]
        /\ generated'[n].kind = serving[w].kind /\ generated'[n].config = serving[w].config
        /\ generated'[n].package = package
    BY <1>1, <1>2, RecordedRows
  <1>4. ASSUME NEW j \in Jobs'
        PROVE  /\ Known(generated'[j].config)
               /\ generated'[j].kind = "export" =>
                    generated'[j].package = Package(generated'[j].config)
    <2>1. CASE j = n
      BY <1>1, <1>3, <2>1 DEF Informed
    <2>2. CASE j \in Jobs
      BY <1>3, <2>2 DEF Informed
    <2> QED
      BY <1>3, <2>1, <2>2
  <1>5. ASSUME NEW v \in Threads PROVE Known(serving'[v].config)
    BY <1>1, IdleKnown DEF Answered, Take, Informed, Fits, RequestsFit
  <1>6. \A v \in Versions' : Known(version'[v].config)
    BY <1>1 DEF Informed, Versions
  <1>7. UNCHANGED loaded
    BY <1>1
  <1> QED
    BY <1>4, <1>5, <1>6, <1>7, PackageStays DEF Informed

\* What else there is writes neither versions nor jobs.
LEMMA InformedElse ==
  ASSUME Fits, Informed, NEW w \in Threads,
         \/ ApplyVersion(w) \/ Refuse(w)
         \/ \E t \in Tenants : (\E status \in Statuses : SetStatus(w, t, status))
                                 \/ DestroyTenant(w, t)
  PROVE  Informed'
  <1>1. CASE ApplyVersion(w) \/ Refuse(w)
    BY <1>1, IdleKnown, InformedTaken DEF ApplyVersion, Refuse, Answered
  <1>2. CASE \E t \in Tenants : (\E status \in Statuses : SetStatus(w, t, status))
                                  \/ DestroyTenant(w, t)
    <2>1. UNCHANGED <<loaded, version, generated, serving>>
      BY <1>2 DEF SetStatus, DestroyTenant
    <2> QED
      BY <2>1, PackageStays DEF Informed, Versions, Jobs
  <1> QED
    BY <1>1, <1>2

\* It always is so.
LEMMA AlwaysInformed == BlueprintsSpec => []Informed
  <1>1. BlueprintsInit => Informed
    BY IdleKnown DEF BlueprintsInit, Informed, Versions, Jobs
  <1>2. Fits /\ Registered /\ Informed /\ [BlueprintsNext]_blueprintsVars => Informed'
    <2>1. ASSUME Informed, UNCHANGED blueprintsVars PROVE Informed'
      <3>1. UNCHANGED <<loaded, version, generated, serving>>
        BY <2>1 DEF blueprintsVars
      <3> QED
        BY <2>1, <3>1, PackageStays DEF Informed, Versions, Jobs
    <2>2. ASSUME Fits, Registered, Informed, BlueprintsNext PROVE Informed'
      BY <2>2, BlueprintsSteps, InformedAsked, InformedLoad, InformedVersions, InformedRecorded,
         InformedElse
    <2> QED
      BY <2>1, <2>2
  <1> QED
    BY <1>1, <1>2, AlwaysFits, AlwaysRegistered, PTL DEF BlueprintsSpec

(***************************************************************************)
(* The loader takes the manifests whose dependencies are in their package  *)
(* and have no cycle, and lists each after those it needs; and a package   *)
(* of exported code has the modules that its configuration enables and     *)
(* those they need, in an order in which they can be loaded, no others and *)
(* every page of the features that are on.  Where nothing is taken out,    *)
(* the registry of the exported program accepts it, since the menus and    *)
(* permissions that the apps declare stand together (LoadsAssumption).     *)
(***************************************************************************)
THEOREM PackagesStayComplete == BlueprintsSpec => []PackagesComplete
  <1>1. Fits /\ Registered /\ Informed => PackagesComplete
    <2> SUFFICES ASSUME Fits, Registered, Informed PROVE PackagesComplete
      OBVIOUS
    <2>1. (registry = << >>) <=> \E k \in Apps : k \in Behind(k, needs) \/ ~ (needs[k] \subseteq Apps)
      BY DEF Registered
    <2>2. DependenciesFirst(registry, needs)
      BY PrecededIs DEF Registered
    <2>3. ASSUME NEW j \in Jobs, generated[j].kind = "export"
          PROVE  PackagedWell(generated[j].config, generated[j].package)
      <3>1. PICK c : c = generated[j].config
        OBVIOUS
      <3>2. c \in NormalConfigs /\ Known(c) /\ generated[j].package = Package(c)
        BY <2>3, <3>1 DEF Fits, JobsFit, Informed
      <3> QED
        BY <3>1, <3>2, PackageIsWell
    <2> QED
      BY <2>1, <2>2, <2>3, Zenon DEF PackagesComplete, PackagedWell
  <1> QED
    BY <1>1, AlwaysFits, AlwaysRegistered, AlwaysInformed, PTL

-----------------------------------------------------------------------------
(* Tenants run what was generated for them. *)

\* The jobs that generated for a tenant.
JobsOf(t) == {j \in Jobs : generated[j].kind = "create_saas" /\ generated[j].tenant = t}

\* j was the last of them.
RunsJob(t, j) ==
  /\ j \in JobsOf(t) /\ tenant[t].config = generated[j].config
  /\ \A i \in JobsOf(t) : i <= j

Runs == \A t \in Tenants : tenant[t].status # "deleted" => \E j \in Jobs : RunsJob(t, j)

\* What is neither deployed nor generated leaves every tenant with its job.
LEMMA RunsStand ==
  ASSUME Runs, UNCHANGED <<tenant, generated>>
  PROVE  Runs'
  BY DEF Runs, RunsJob, JobsOf, Jobs, Tenants

\* A generation.
LEMMA RunsCreateSaas ==
  ASSUME Fits, Runs, NEW w \in Threads, CreateSaas(w)
  PROVE  Runs'
  <1>1. PICK s : s = serving[w]
    OBVIOUS
  <1>2. PICK d : d = Deploys(s.tenant)
    OBVIOUS
  <1>3. /\ s.kind = "create_saas" /\ Live(s.id) /\ Deployed(s.id, s.tenant, s.config)
        /\ Recorded(serving[w], d, NoPackage) /\ UNCHANGED <<loaded, version>>
    BY <1>1, <1>2 DEF CreateSaas, Deploys
  <1>4. s.id \in LiveVersions /\ s.tenant \in {0} \cup Tenants /\ s.config \in NormalConfigs
    BY <1>1, <1>3, FittingRows DEF Knows, LiveVersions
  <1>5. /\ Tenants' = Tenants \cup {d} /\ d \in Nat /\ tenant'[d].config = s.config
        /\ s.tenant = 0 => d \notin Tenants
        /\ \A u \in Tenants \ {s.tenant} : tenant'[u] = tenant[u]
    BY <1>2, <1>3, <1>4, DeployedRows
  <1>6. PICK n : n = Len(generated) + 1
    OBVIOUS
  <1>7. /\ Jobs' = Jobs \cup {n} /\ n \notin Jobs /\ \A j \in Jobs : generated'[j] = generated[j]
        /\ generated'[n].kind = "create_saas" /\ generated'[n].tenant = d
        /\ generated'[n].config = s.config
    BY <1>1, <1>3, <1>5, <1>6, RecordedRows
  <1>8. \A j \in Jobs : j \in Nat /\ j <= n /\ n \in Nat
    BY <1>6, FittingRows
  <1>9. JobsOf(d)' = JobsOf(d) \cup {n} /\ \A t : t # d => JobsOf(t)' = JobsOf(t)
    BY <1>7 DEF JobsOf
  <1>10. ASSUME NEW t \in Tenants', tenant'[t].status # "deleted"
         PROVE  \E j \in Jobs' : RunsJob(t, j)'
    <2>1. CASE t = d
      <3>1. n <= n /\ \A i \in JobsOf(d) : i <= n
        <4>1. n \in Nat
          BY <1>6, FittingRows
        <4> QED
          BY <1>8, <4>1 DEF JobsOf
      <3>2. RunsJob(d, n)'
        BY <1>5, <1>7, <1>9, <3>1 DEF RunsJob
      <3> QED
        BY <1>7, <2>1, <3>2
    <2>2. CASE t # d
      <3>1. t \in Tenants /\ t # s.tenant
        BY <1>2, <1>5, <2>2, FittingRows DEF Deploys
      <3>2. tenant'[t] = tenant[t]
        BY <1>5, <3>1
      <3>3. PICK j \in Jobs : RunsJob(t, j)
        BY <1>10, <3>1, <3>2 DEF Runs
      <3>4. RunsJob(t, j)'
        BY <1>7, <1>9, <2>2, <3>2, <3>3 DEF RunsJob
      <3> QED
        BY <1>7, <3>4
    <2> QED
      BY <2>1, <2>2
  <1> QED
    BY <1>10 DEF Runs

\* An export is for no tenant.
LEMMA RunsExport ==
  ASSUME Fits, Runs, NEW w \in Threads, ExportCode(w)
  PROVE  Runs'
  <1>1. PICK n : n = Len(generated) + 1
    OBVIOUS
  <1>2. /\ Jobs' = Jobs \cup {n} /\ n \notin Jobs /\ \A j \in Jobs : generated'[j] = generated[j]
        /\ generated'[n].kind = "export" /\ tenant' = tenant
    BY <1>1, RecordedRows DEF ExportCode
  <1>3. \A t : JobsOf(t)' = JobsOf(t)
    BY <1>2 DEF JobsOf
  <1> QED
    BY <1>2, <1>3 DEF Runs, RunsJob, Tenants

\* A tenant that is changed runs what it ran, or is gone.
LEMMA RunsTenant ==
  ASSUME Fits, Runs, NEW w \in Threads, NEW t \in Tenants,
         (\E status \in Statuses : SetStatus(w, t, status)) \/ DestroyTenant(w, t)
  PROVE  Runs'
  <1>1. /\ Tenants' = Tenants /\ \A u \in Tenants \ {t} : tenant'[u] = tenant[u]
        /\ tenant'[t].status # "deleted" =>
             tenant[t].status # "deleted" /\ tenant'[t].config = tenant[t].config
    BY SetStatusRow, DestroyTenantRow
  <1>2. generated' = generated
    BY DEF SetStatus, DestroyTenant
  <1>3. Jobs' = Jobs /\ \A u : JobsOf(u)' = JobsOf(u)
    BY <1>2 DEF Jobs, JobsOf
  <1>4. ASSUME NEW u \in Tenants', tenant'[u].status # "deleted"
        PROVE  \E j \in Jobs' : RunsJob(u, j)'
    <2>1. u \in Tenants /\ tenant[u].status # "deleted" /\ tenant'[u].config = tenant[u].config
      BY <1>1, <1>4
    <2>2. PICK j \in Jobs : RunsJob(u, j)
      BY <2>1 DEF Runs
    <2>3. RunsJob(u, j)'
      BY <1>2, <1>3, <2>1, <2>2 DEF RunsJob
    <2> QED
      BY <1>3, <2>3
  <1> QED
    BY <1>4 DEF Runs

\* Unless versions are applied by hand, tenants run what was generated last.
RunsGenerated == "apply" \notin mix.kinds => Runs

\* And they always do.
LEMMA AlwaysRuns == BlueprintsSpec => []RunsGenerated
  <1>1. BlueprintsInit => RunsGenerated
    BY DEF BlueprintsInit, RunsGenerated, Runs, Tenants
  <1>2. Fits /\ RunsGenerated /\ [BlueprintsNext]_blueprintsVars => RunsGenerated'
    <2> SUFFICES ASSUME Fits, RunsGenerated, [BlueprintsNext]_blueprintsVars,
                        "apply" \notin mix.kinds
                 PROVE  Runs'
      BY LoadedOnce DEF RunsGenerated, loaded
    <2>1. Runs
      BY DEF RunsGenerated
    <2>2. CASE UNCHANGED <<tenant, generated>>
      BY <2>1, <2>2, RunsStand
    <2>3. CASE ~ UNCHANGED <<tenant, generated>>
      <3>1. ~ UNCHANGED blueprintsVars
        BY <2>3 DEF blueprintsVars
      <3>2. PICK w \in Threads : VersionStep(w) \/ GenerationStep(w)
        BY <3>1 DEF BlueprintsNext
      <3>3. ~ VersionStep(w)
        BY <2>3 DEF VersionStep, Create, Clone, LoadNew, LoadEdit, LoadPublish, DestroyVersion,
           InsertVersion, PublishVersion, SaveEdit, Republish
      <3>4. ~ ApplyVersion(w)
        BY FittingRows DEF ApplyVersion, Knows
      <3>5. \/ CreateSaas(w) \/ ExportCode(w)
            \/ \E t \in Tenants : (\E status \in Statuses : SetStatus(w, t, status))
                                    \/ DestroyTenant(w, t)
        BY <2>3, <3>2, <3>3, <3>4 DEF GenerationStep, LoadGeneration, LoadRetry, LoadApply, Refuse
      <3> QED
        BY <2>1, <3>5, RunsCreateSaas, RunsExport, RunsTenant
    <2> QED
      BY <2>2, <2>3
  <1> QED
    BY <1>1, <1>2, AlwaysFits, PTL DEF BlueprintsSpec

(***************************************************************************)
(* What a job generated was of its mode and complete, with every module    *)
(* that the enabled ones need, and its version and those of the tenants    *)
(* are never deleted; and as long as nobody applies versions by hand, a    *)
(* tenant runs what the last of its jobs generated.                        *)
(***************************************************************************)
THEOREM GenerationsStaySound == BlueprintsSpec => []GenerationsSound
  <1>1. Fits /\ Registered /\ RunsGenerated => GenerationsSound
    <2> SUFFICES ASSUME Fits, Registered, RunsGenerated PROVE GenerationsSound
      OBVIOUS
    <2>1. ASSUME NEW j \in Jobs
          PROVE  LET c == generated[j].config
                 IN  /\ Live(generated[j].version)
                     /\ c.mode = ModeOf(generated[j].kind)
                     /\ \A k \in c.modules : Behind(k, needs) \subseteq c.modules
                     /\ \A f \in c.features : NeededBy(f) \subseteq c.modules
      <3>1. PICK c : c = generated[j].config
        OBVIOUS
      <3>2. /\ generated[j].version \in LiveVersions /\ c \in NormalConfigs
            /\ Generable(c, ModeOf(generated[j].kind))
        BY <3>1 DEF Fits, JobsFit
      <3>3. ASSUME NEW k \in c.modules PROVE Behind(k, needs) \subseteq c.modules
        BY <3>2, BehindWithin DEF Registered, Generable
      <3>4. \A f \in c.features : NeededBy(f) \subseteq c.modules
        BY <3>2, NormalisedOnce
      <3> QED
        BY <3>1, <3>2, <3>3, <3>4 DEF LiveVersions, Generable
    <2>2. \A t \in Tenants : tenant[t].from \subseteq LiveVersions
      BY DEF Fits, TenantsFit
    <2>3. ASSUME "apply" \notin mix.kinds, NEW t \in Tenants, tenant[t].status # "deleted"
          PROVE  JobsOf(t) # {} /\ tenant[t].config = generated[Max(JobsOf(t))].config
      <3>1. PICK j \in Jobs : RunsJob(t, j)
        BY <2>3 DEF RunsGenerated, Runs
      <3>2. JobsOf(t) \subseteq Nat
        BY FittingRows DEF JobsOf
      <3>3. j \in JobsOf(t) /\ \A i \in JobsOf(t) : j >= i
        BY <3>1, <3>2 DEF RunsJob
      <3>4. /\ Max(JobsOf(t)) \in JobsOf(t) /\ \A i \in JobsOf(t) : Max(JobsOf(t)) >= i
        BY <3>3 DEF Max
      <3>5. Max(JobsOf(t)) = j
        BY <3>2, <3>3, <3>4
      <3> QED
        BY <3>1, <3>3, <3>5 DEF RunsJob
    <2> QED
      BY <2>1, <2>2, <2>3, Zenon DEF GenerationsSound, JobsOf
  <1> QED
    BY <1>1, AlwaysFits, AlwaysRegistered, AlwaysRuns, PTL
=============================================================================
