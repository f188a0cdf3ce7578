---------------------------- MODULE MCBlueprints ----------------------------
(***************************************************************************)
(* Small instances of Blueprints: the apps as they are declared, and every *)
(* other way in which three of them might need each other.                 *)
(***************************************************************************)
EXTENDS Blueprints

Three == {"crm", "platform", "sales"}
AnyGraph == [Three -> SUBSET Three] \cup {[k \in Three |-> IF k = "sales" THEN {"system"} ELSE {}]}
AsWritten == {[k \in ToSet(BusinessPackage) |-> DependsOn[k]]}

Config(mode, modules, features, complete) ==
  [mode |-> mode, modules |-> modules, features |-> features, complete |-> complete]

Credit == <<"sales", "credit_control">>
Approval == <<"sales", "approval">>

Packages == {Config("code_export", S, F, TRUE) : S \in SUBSET Three, F \in SUBSET {Approval}}
Selling == {"crm", "finance", "inventory", "platform", "sales", "supplier"}
Whole == Config("saas", Selling, {Credit}, TRUE)
Small == Config("saas", {"platform"}, {Credit}, TRUE)
Torn  == Config("saas", {"sales"}, {Credit}, TRUE)
Gone  == Config("saas", {"gone"}, {}, TRUE)
Code  == Config("code_export", {"platform"}, {}, TRUE)
Draft == Config("code_export", {"platform"}, {}, FALSE)

\* Every set of apps that has what it needs, with all features, none or those on by default;
\* and all apps, with one feature off.
Closed == {S \in SUBSET ToSet(BusinessPackage) : \A k \in S : DependsOn[k] \subseteq S}
Catalogue == UNION {{Config(mode, S, F, TRUE) : S \in Closed, F \in {OnByDefault, Features, {}}}
                      \cup {Config(mode, ToSet(BusinessPackage), Features \ {f}, TRUE) :
                              f \in IF mode = "saas" THEN Features ELSE Prunable} :
                      mode \in {"saas", "code_export"}}

\* Of what publishes and of what deploys, one at a time.
Apart(kinds, Alone) == {{k, l} : k, l \in kinds} \ {{k, l} : k, l \in Alone}

Exporting == [kinds |-> {"create", "export"}, racing |-> {}, graphs |-> AnyGraph,
              configs |-> Packages, versions |-> 1, jobs |-> 1]

AsBuilt == [kinds |-> {"create", "export", "create_saas"}, racing |-> {}, graphs |-> AsWritten,
            configs |-> Catalogue, versions |-> 1, jobs |-> 1]

Versioning == [kinds |-> {"create", "clone", "publish", "edit", "destroy"},
               racing |-> Apart({"create", "clone", "publish", "edit", "saved", "destroy"},
                                {"create", "publish", "edit", "saved"}),
               graphs |-> AsWritten, configs |-> {Whole, Code, Gone},
               versions |-> 3, jobs |-> 0]

Generating == [kinds |-> {"create", "edit", "destroy", "create_saas", "export", "retry",
                          "tenant"},
               racing |-> Apart({"edit", "destroy", "create_saas", "export", "tenant"},
                                {"create_saas"}),
               graphs |-> AsWritten, configs |-> {Whole, Code, Torn, Draft},
               versions |-> 1, jobs |-> 2]

ByHand == [kinds |-> {"create", "publish", "create_saas", "apply", "tenant"},
           racing |-> {{"apply", "tenant"}, {"apply", "publish"}, {"create_saas", "publish"}},
           graphs |-> AsWritten, configs |-> {Small, Torn}, versions |-> 2, jobs |-> 1]

AllMixes == {Exporting, AsBuilt, Versioning, Generating, ByHand}
OnlyAsBuilt == {[AsBuilt EXCEPT !.kinds = {"create", "export"}]}

Alike == Permutations(Threads)
=============================================================================
