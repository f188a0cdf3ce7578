----------------------------- MODULE MCTenancy -----------------------------
(* Instances of Tenancy for TLC. *)
EXTENDS Tenancy, TLC

CONSTANTS sales, stock

\* Orders refer to products.
References1 == sales :> {stock} @@ stock :> {}

Platform == {"apply", "bind", "refresh", "sync", "clear", "login"}

Configured == Platform \cup {"create_user"}
ByHand == Platform \cup {"toggle"}
Employed == {"create_role", "edit_role", "destroy_role", "create_user", "edit_user",
             "destroy_user", "login", "refresh", "sync"}
Structured == {"create_department", "edit_department", "destroy_department", "move_user"}
Granted == {"create_department", "destroy_department", "put_policy", "create_grant",
            "destroy_grant"}
GrantedToUsers == {"create_user", "destroy_user", "put_policy", "create_grant"}
GrantedToRoles == {"create_role", "destroy_role", "put_policy", "create_grant"}

AllMixes == {Configured, ByHand, Employed, Structured, Granted, GrantedToUsers, GrantedToRoles}

AllKinds == UNION AllMixes

\* All but the pairs that undo each other's work.
Harmful == {{"create_grant"}, {"put_policy", "create_grant"}, {"edit_department"},
            {"login", "apply"}, {"login", "bind"}}

Harmless == {{k, l} : k, l \in AllKinds} \ Harmful

Alike == Permutations(Workers)
=============================================================================
