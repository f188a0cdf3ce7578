------------------------------ MODULE Manifests ------------------------------
(***************************************************************************)
(* The manifests of the apps (core_apps/modules) and what is computed from *)
(* their dependencies: the order in which the loader lists them, whether   *)
(* it accepts them, and the modules a selection brings along.  A package   *)
(* is a sequence of keys in alphabetical order; needs is depends_on.       *)
(***************************************************************************)
EXTENDS Naturals, Sequences, FiniteSets, SequencesExt, FiniteSetsExt

\* The members of S in the order of the sequence.
InOrder(sequence, S) ==
  FoldLeft(LAMBDA kept, k : IF k \in S THEN Append(kept, k) ELSE kept, << >>, sequence)

\* The keys are visited one after the other; a visit takes a state to the next.
VisitAll(visit, state, keys) == FoldLeft(LAMBDA s, k : visit[k][s], state, keys)

\* visit of _topological_sort: what k needs, and then k; cycles are passed over.
Sorted(package, needs) ==
  LET keys == ToSet(package)
      visit[k \in keys] ==
        [state \in [ordered : Seq(keys), visiting : SUBSET keys] |->
           IF k \in ToSet(state.ordered) \cup state.visiting THEN state
           ELSE LET within == VisitAll(visit, [state EXCEPT !.visiting = @ \cup {k}],
                                       InOrder(package, needs[k]))
                IN  [within EXCEPT !.visiting = @ \ {k}, !.ordered = Append(@, k)]]
  IN  visit

\* _topological_sort.
LoadOrder(package, needs) ==
  VisitAll(Sorted(package, needs), [ordered |-> << >>, visiting |-> {}], package).ordered

\* visit of _ensure_no_dependency_cycles: the keys visited, and whether it raised.
Explored(package, needs) ==
  LET keys == ToSet(package)
      visit[k \in keys] ==
        [state \in [visited : SUBSET keys, visiting : SUBSET keys, raised : BOOLEAN] |->
           IF state.raised \/ k \in state.visited THEN state
           ELSE IF k \in state.visiting THEN [state EXCEPT !.raised = TRUE]
           ELSE LET within == VisitAll(visit, [state EXCEPT !.visiting = @ \cup {k}],
                                       InOrder(package, needs[k]))
                IN  IF within.raised THEN within
                    ELSE [within EXCEPT !.visiting = @ \ {k}, !.visited = @ \cup {k}]]
  IN  visit

CycleDetected(package, needs) ==
  VisitAll(Explored(package, needs), [visited |-> {}, visiting |-> {}, raised |-> FALSE],
           package).raised

\* validate_modules, of what depends on the dependencies.
Accepted(package, needs) ==
  /\ \A k \in ToSet(package) : needs[k] \subseteq ToSet(package)
  /\ ~ CycleDetected(package, needs)

\* _ensure_menu_integrity: no code twice, no parent missing, and a permission to view a page.
MenusSound(manifest) ==
  LET keys == DOMAIN manifest
      codes == UNION {DOMAIN manifest[k].menus : k \in keys}
      viewable == UNION {{manifest[k].permissions[c] :
                            c \in {d \in DOMAIN manifest[k].permissions \ manifest[k].unlisted :
                                     Last(d) = "view"}} : k \in keys}
  IN  /\ \A k, l \in keys : k # l => DOMAIN manifest[k].menus \cap DOMAIN manifest[l].menus = {}
      /\ \A k \in keys : \A c \in DOMAIN manifest[k].menus :
           /\ manifest[k].menus[c].parent \in codes \cup {<< >>}
           /\ manifest[k].menus[c].kind = "shown" => c \in viewable

\* _ensure_permission_integrity: no code twice or a menu's, and each belongs to a menu,
\* which is a page that is shown if roles are given the permission.
PermissionsSound(manifest) ==
  LET keys == DOMAIN manifest
      codes == UNION {DOMAIN manifest[k].menus : k \in keys}
      pages == UNION {{c \in DOMAIN manifest[k].menus :
                         manifest[k].menus[c].kind \in {"shown", "withheld"}} : k \in keys}
  IN  /\ \A k, l \in keys : k # l =>
           DOMAIN manifest[k].permissions \cap DOMAIN manifest[l].permissions = {}
      /\ \A k \in keys : \A c \in DOMAIN manifest[k].permissions :
           /\ c \notin codes
           /\ manifest[k].permissions[c] \in codes
           /\ \/ Last(c) = "reference" \/ c \in manifest[k].unlisted
              \/ manifest[k].permissions[c] \in pages

\* visit of build_generation_plan, of keys in the registry.
Visited(registered, needs) ==
  LET keys == ToSet(registered)
      visit[k \in keys] ==
        [resolved \in SUBSET keys |->
           IF k \in resolved THEN resolved
           ELSE VisitAll(visit, resolved, InOrder(registered, needs[k])) \cup {k}]
  IN  visit

\* The modules of a plan, where those of S are requested.
Resolved(registered, S, needs) ==
  VisitAll(Visited(registered, needs), {}, InOrder(registered, S))

-----------------------------------------------------------------------------
(* What they should compute. *)

\* The modules k needs, directly or not.
Behind(k, needs) ==
  LET after[n \in 0 .. Cardinality(DOMAIN needs)] ==
        IF n = 0 THEN needs[k]
        ELSE LET nearer == after[n - 1]
             IN  nearer \cup UNION {needs[d] : d \in nearer \cap DOMAIN needs}
  IN  after[Cardinality(DOMAIN needs)]

\* Every module is listed once, after those it needs.
DependenciesFirst(sequence, needs) ==
  /\ IsInjective(sequence)
  /\ \A i \in DOMAIN sequence : needs[sequence[i]] \subseteq ToSet(SubSeq(sequence, 1, i - 1))
=============================================================================
