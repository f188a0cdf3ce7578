----------------------------- MODULE MCWarehouse -----------------------------
(***************************************************************************)
(* Small instances of WarehouseDocuments: two warehouses, the second one   *)
(* empty, so that its Inventory row is made by the first transfer to it.   *)
(***************************************************************************)
EXTENDS WarehouseDocuments, TLC

CONSTANTS east, west   \* the warehouses

OnHand == east :> 2 @@ west :> 0

TransferKinds  == {"create", "update", "submit", "approve", "start", "complete", "cancel",
                   "destroy"}
Overlapping    == TransferKinds \ {"destroy"}
StocktakeKinds == {"create", "retrieve", "submit", "approve", "complete", "add_items",
                   "update_items", "edit", "destroy"}

\* The users are alike.
Alike == Permutations(Users)
=============================================================================
