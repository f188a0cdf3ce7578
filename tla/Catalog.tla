------------------------------- MODULE Catalog -------------------------------
(***************************************************************************)
(* What the apps declare in their module.py: the apps they need, their     *)
(* menus, the permissions on them, and what an exported package leaves out *)
(* where a feature is off.  A code is the sequence of the parts that the   *)
(* source joins by colons; a page is known by the code of its menu, which  *)
(* stands for its path.  Names, icons and the order of menus are left out. *)
(***************************************************************************)
EXTENDS Naturals, Sequences, FiniteSets, SequencesExt, TLC

NoParent == << >>

\* Menus are headings (no component), pages shown, pages hidden, or pages no role may have.
Menu(parent, kind) == [parent |-> parent, kind |-> kind]
Heading(code, parent) == code :> Menu(parent, "heading")
Pages(root, tails, kind) == [code \in {root \o tail : tail \in tails} |-> Menu(root, kind)]

\* A heading with the pages below it.
Tree(root, shown, hidden) ==
  Heading(root, NoParent) @@ Pages(root, shown, "shown") @@ Pages(root, hidden, "hidden")

\* Permissions, each with the menu it belongs to.
Acts(prefix, menu, names) == [code \in {Append(prefix, name) : name \in names} |-> menu]
On(menu, names) == Acts(menu, menu, names)

Manifest(required, menus, permissions) ==
  [needs |-> required, menus |-> menus, permissions |-> permissions,
   unlisted |-> {},                     \* permissions with role_editor_visible = False
   prunes |-> [feature \in {} |-> {}]]  \* by feature, the codes of pages and permissions

Bare(required) == Manifest(required, [code \in {} |-> NoParent], [code \in {} |-> NoParent])

Edit == {"create", "update", "delete"}
Form == {<<"detail">>, <<"new">>, <<"edit">>}

-----------------------------------------------------------------------------
(* business_apps. *)

PlatformModule ==
  Manifest({}, Tree(<<"platform">>, {<<"file">>, <<"dict">>, <<"coderule">>}, {}),
    On(<<"platform", "file">>, {"view", "upload", "delete", "download"})
    @@ On(<<"platform", "dict">>, {"view"} \cup Edit)
    @@ On(<<"platform", "coderule">>, {"view", "create", "update"}))

\* Customers and suppliers are kept alike: a list, forms, contacts without pages.
Partners(root, partner) ==
  LET list == Append(root, partner)
  IN  Manifest({"platform"},
        Tree(root, {<<partner>>}, {<<partner>> \o form : form \in Form}),
        On(list, {"reference", "view", "transfer"} \cup Edit)
        @@ Acts(Append(root, "contact"), list, Edit))

CrmModule      == Partners(<<"crm">>, "customer")
SupplierModule == Partners(<<"supplier">>, "supplier")

InventoryModule ==
  LET root == <<"inventory">>
      stocktake == <<"inventory", "stocktake">>
  IN  [Manifest({"platform"},
         Tree(root, {<<"category">>, <<"unit">>, <<"product">>, <<"warehouse">>, <<"query">>,
                     <<"transaction">>, <<"stocktake">>},
              {<<"product">> \o form : form \in Form} \cup {<<"stocktake", "detail">>}),
         On(<<"inventory", "category">>, {"reference", "view"} \cup Edit)
         @@ On(<<"inventory", "unit">>, {"reference", "view"} \cup Edit)
         @@ On(<<"inventory", "product">>, {"reference", "view", "export", "import"} \cup Edit)
         @@ On(<<"inventory", "warehouse">>, {"reference", "view"} \cup Edit)
         @@ Acts(<<"inventory", "inventory">>, <<"inventory", "query">>,
                 {"view", "reference", "adjust"})
         @@ On(<<"inventory", "transaction">>, {"view"})
         @@ On(stocktake, {"view", "approve", "complete"} \cup Edit))
       EXCEPT !.prunes = [stocktake |-> {stocktake, Append(stocktake, "detail")}]]

PurchaseModule ==
  LET order == <<"purchase", "order">>
      receipt == <<"purchase", "receipt">>
  IN  [Manifest({"supplier", "inventory", "platform"},
         Tree(<<"purchase">>, {<<"order">>, <<"receipt">>, <<"stats">>},
              {<<"order">> \o form : form \in Form}),
         On(order, {"view", "approve", "cancel"} \cup Edit)
         @@ On(receipt, {"view", "create", "complete", "cancel"})
         @@ On(<<"purchase", "stats">>, {"view"}))
       EXCEPT !.prunes =
         [approval |-> {order, Append(order, "detail"), Append(order, "approve")},
          partial_receipt |-> {receipt}]]

SalesModule ==
  LET order == <<"sales", "order">>
  IN  [Manifest({"crm", "inventory", "platform"},
         Tree(<<"sales">>, {<<"order">>, <<"stats">>}, {<<"order">> \o form : form \in Form}),
         On(order, {"view", "reference", "approve", "allocate", "ship", "cancel", "close"}
                     \cup Edit)
         @@ On(<<"sales", "stats">>, {"view"}))
       EXCEPT !.prunes =
         [approval |-> {order, Append(order, "detail"), Append(order, "approve")}]]

SupplyChainModule ==
  LET at(name) == <<"supply_chain", name>>
      returned == {"view", "submit", "approve", "complete", "cancel"} \cup Edit
  IN  Manifest({"crm", "supplier", "inventory", "sales", "purchase", "platform"},
        Tree(<<"supply_chain">>,
             {<<"outbound">>, <<"transfer">>, <<"sales_return">>, <<"purchase_return">>,
              <<"alert">>, <<"trace">>},
             {<<name, "detail">> :
                name \in {"outbound", "transfer", "sales_return", "purchase_return"}}),
        On(at("outbound"), {"view", "approve", "complete", "cancel"} \cup Edit)
        @@ On(at("transfer"), {"start"} \cup returned)
        @@ On(at("sales_return"), returned)
        @@ On(at("purchase_return"), returned)
        @@ On(at("alert"), {"view", "scan", "resolve"})
        @@ On(at("trace"), {"view"}))

\* What the rest of finance asks for is on no page of its own.
FinanceModule ==
  LET root == <<"finance">>
      task == Acts(<<"finance", "export_task">>, root, {"view"} \cup Edit)
      aging == Acts(<<"finance", "aging">>, root, {"view"})
      recon == <<"finance", "reconciliation">>
      page == <<"finance", "recon">>
  IN  [Manifest({"crm", "supplier"},
         Tree(root, {<<"dashboard">>, <<"recon">>, <<"cash">>}, {}),
         On(<<"finance", "dashboard">>, {"view"}) @@ task @@ aging
         @@ Acts(Append(recon, "customer"), page, {"view"})
         @@ Acts(Append(recon, "supplier"), page, {"view"})
         @@ On(<<"finance", "cash">>, {"reference", "view", "create", "update"}))
       EXCEPT !.unlisted = DOMAIN task \cup DOMAIN aging]

ReceivableModule ==
  Manifest({"crm", "sales", "supply_chain", "finance"},
    Tree(<<"ar">>, {<<"receivable">>, <<"receipt">>, <<"refund">>, <<"aging">>}, {}),
    On(<<"ar", "receivable">>, {"view", "update", "generate"})
    @@ On(<<"ar", "aging">>, {"view"})
    @@ On(<<"ar", "receipt">>, {"view", "approve", "execute", "write_off"} \cup Edit)
    @@ On(<<"ar", "refund">>, {"view", "submit", "approve", "execute"} \cup Edit))

PayableModule ==
  Manifest({"supplier", "purchase", "finance", "platform"},
    Tree(<<"ap">>, {<<"account">>, <<"payment">>, <<"refund">>, <<"summary">>, <<"aging">>},
         {<<"allocate">>}),
    On(<<"ap", "account">>, {"view", "update"})
    @@ On(<<"ap", "summary">>, {"view"}) @@ On(<<"ap", "aging">>, {"view"})
    @@ On(<<"ap", "payment">>, {"view", "submit", "approve", "execute", "cancel"} \cup Edit)
    @@ On(<<"ap", "refund">>, {"view", "submit", "approve", "execute"} \cup Edit)
    @@ Acts(<<"ap", "allocation">>, <<"ap", "payment">>, {"view"} \cup Edit))

\* The heading of accounting is one of finance's menus.
AccountingModule ==
  LET root == <<"accounting">>
  IN  Manifest({"platform", "finance", "ar_receivable", "ap_payable"},
        Heading(root, <<"finance">>)
        @@ Pages(root, {<<"subject">>, <<"period">>, <<"voucher">>, <<"posting_log">>}, "shown"),
        On(<<"accounting", "period">>, {"view", "close", "open"} \cup Edit)
        @@ On(<<"accounting", "voucher">>, {"view"})
        @@ On(<<"accounting", "posting_log">>, {"view"})
        @@ On(<<"accounting", "subject">>, {"view"} \cup Edit))

ReportsModule ==
  LET reports == {"dashboard", "sales", "purchase", "inventory", "customer", "supplier",
                  "product", "export"}
      view == {<<"reports", report, "view">> : report \in reports}
  IN  Manifest({"crm", "supplier", "inventory", "sales", "purchase", "supply_chain"},
        Tree(<<"reports">>, {<<report>> : report \in reports}, {}),
        [code \in view |-> Front(code)] @@ On(<<"reports", "export">>, {"create"}))

-----------------------------------------------------------------------------
(* core_apps: what administers users is declared twice, for the two sides. *)

SystemMenus ==
  Tree(<<"system">>, {<<"user">>, <<"dept">>, <<"role">>, <<"log">>}, {})
  @@ Pages(<<"system">>, {<<"perm">>}, "withheld")

SystemPermissions ==
  On(<<"system", "log">>, {"view"})
  @@ On(<<"system", "user">>, {"view", "reference"}) @@ Acts(<<"user">>, <<"system", "user">>, Edit)
  @@ On(<<"system", "dept">>, {"view", "reference"}) @@ Acts(<<"dept">>, <<"system", "dept">>, Edit)
  @@ On(<<"system", "role">>, {"view"}) @@ Acts(<<"role">>, <<"system", "role">>, Edit)

ErpAuthModule        == Manifest({"tenant"}, SystemMenus, SystemPermissions)
SystemModule         == Manifest({}, SystemMenus, SystemPermissions)
AuthenticationModule == Bare({"organization"})
BlueprintsModule     == Bare({"system", "configuration"})
ConfigurationModule  == Bare({"system"})
GenerationModule     == Bare({"blueprints", "tenant", "configuration"})
OrganizationModule   == Bare({})
TenantModule         == Bare({"blueprints", "configuration"})

-----------------------------------------------------------------------------

CorePackage == <<"authentication", "blueprints", "configuration", "erp_auth", "generation",
                 "organization", "system", "tenant">>

BusinessPackage == <<"accounting", "ap_payable", "ar_receivable", "crm", "finance",
                     "inventory", "platform", "purchase", "reports", "sales", "supplier",
                     "supply_chain">>

Declared ==
  [accounting |-> AccountingModule, ap_payable |-> PayableModule,
   ar_receivable |-> ReceivableModule, crm |-> CrmModule, finance |-> FinanceModule,
   inventory |-> InventoryModule, platform |-> PlatformModule, purchase |-> PurchaseModule,
   reports |-> ReportsModule, sales |-> SalesModule, supplier |-> SupplierModule,
   supply_chain |-> SupplyChainModule,
   authentication |-> AuthenticationModule, blueprints |-> BlueprintsModule,
   configuration |-> ConfigurationModule, erp_auth |-> ErpAuthModule,
   generation |-> GenerationModule, organization |-> OrganizationModule,
   system |-> SystemModule, tenant |-> TenantModule]

\* Mutation of DependsOn: that orders are made out to customers is forgotten.
SalesAlone ==
  [key \in DOMAIN Declared |-> Declared[key].needs \ (IF key = "sales" THEN {"crm"} ELSE {})]

DependsOn == [key \in DOMAIN Declared |-> Declared[key].needs]

-----------------------------------------------------------------------------
(* What the roles of a tenant may hold. *)

\* The codes of the apps, those of core_apps left out but for erp_auth.
DeclaredCodes(key) == DOMAIN Declared[key].menus \cup DOMAIN Declared[key].permissions
ErpKeys == ToSet(BusinessPackage) \cup {"erp_auth"}
AllCodes == UNION {DeclaredCodes(key) : key \in ErpKeys}

ParentOf(code) ==
  LET own == Declared[CHOOSE key \in ErpKeys : code \in DeclaredCodes(key)]
  IN  IF code \in DOMAIN own.menus THEN own.menus[code].parent ELSE own.permissions[code]

\* Pages that stay in the code and are given to nobody.
HiddenForErp(code) ==
  \/ code = <<"system", "perm">>
  \/ \E page \in {"dict", "coderule"} : IsPrefix(<<"platform", page>>, code)

Section(name) ==
  {<<"system", name>>, <<"system", name, "view">>} \cup {<<name, change>> : change \in Edit}

SystemFeatureCodes ==
  [user_management       |-> Section("user") \cup {<<"system", "user", "reference">>},
   department_management |-> Section("dept") \cup {<<"system", "dept", "reference">>},
   role_management       |-> Section("role"),
   operation_log         |-> {<<"system", "log">>, <<"system", "log", "view">>},
   permission_management |-> {<<"system", "perm">>}]

SystemManaged ==
  {<<"system">>} \cup UNION {SystemFeatureCodes[f] : f \in DOMAIN SystemFeatureCodes}

\* get_enabled_erp_permission_codes, of the modules and <<module, feature>> that are on.
EnabledPermissionCodes(modules, features) ==
  LET declared == UNION {DeclaredCodes(key) : key \in (modules \cup {"erp_auth"}) \cap ErpKeys}
      managed == UNION {SystemFeatureCodes[f] :
                          f \in {g \in DOMAIN SystemFeatureCodes : <<"system", g>> \in features}}
  IN  ({code \in declared : ~ HiddenForErp(code)} \ SystemManaged)
        \cup IF "system" \notin modules \/ managed = {} THEN {} ELSE managed \cup {<<"system">>}

\* ERP_PERMISSION_DEPENDENCIES: the lists a form offers, and the actions of old menus.
PermissionDependencies ==
  LET For(codes, needed) == [code \in codes |-> needed]
      Saving(root, pages) == {<<root, page, change>> :
                                page \in pages, change \in {"create", "update"}}
      menus == {<<"ar", "aging">>, <<"ap", "aging">>, <<"ap", "summary">>,
                <<"inventory", "transaction">>, <<"purchase", "stats">>, <<"sales", "stats">>}
               \cup {<<"system", page>> : page \in {"log", "user", "dept", "role"}}
      user     == <<"system", "user", "reference">>
      customer == <<"crm", "customer", "reference">>
      supplier == <<"supplier", "supplier", "reference">>
      order    == <<"sales", "order", "reference">>
      cash     == <<"finance", "cash", "reference">>
      onHand   == <<"inventory", "inventory", "reference">>
      goods    == {<<"inventory", name, "reference">> : name \in {"product", "warehouse"}}
  IN  [menu \in menus |-> {Append(menu, "view")}]
      @@ For({<<"ar", "aging", "view">>}, {customer})
      @@ For({<<"ap", "aging", "view">>}, {supplier})
      @@ For(Saving("inventory", {"warehouse"}) \cup Saving("supplier", {"supplier"})
             \cup Saving("crm", {"customer"}) \cup Saving("finance", {"cash"})
             \cup {<<"supplier", "supplier", "transfer">>, <<"crm", "customer", "transfer">>},
             {user})
      @@ For(Saving("inventory", {"product"}),
             {<<"inventory", "category", "reference">>, <<"inventory", "unit", "reference">>})
      @@ For({<<"inventory", "inventory", "adjust">>} \cup Saving("inventory", {"stocktake"})
             \cup Saving("supply_chain", {"transfer"}), goods)
      @@ For(Saving("purchase", {"order"}) \cup {<<"purchase", "receipt", "create">>},
             {supplier} \cup goods)
      @@ For(Saving("sales", {"order"}), {customer, onHand} \cup goods)
      @@ For(Saving("supply_chain", {"outbound"}), {customer} \cup goods)
      @@ For(Saving("supply_chain", {"sales_return"}), {customer, order} \cup goods)
      @@ For(Saving("supply_chain", {"purchase_return"}), {supplier, onHand} \cup goods)
      @@ For({<<"ar", "receivable", "generate">>}, {order})
      @@ For(Saving("ar", {"receipt", "refund"}), {customer, cash})
      @@ For(Saving("ap", {"payment", "refund", "allocation"}), {supplier, cash})

-----------------------------------------------------------------------------
(* What a configuration may switch: a feature is a pair of a module and a name. *)

\* FEATURE_MODULE_REQUIREMENTS.
FeatureNeeds ==
  <<"purchase", "receipt_auto_ap">> :> {"ap_payable"}
  @@ <<"sales", "outbound_auto_ar">> :> {"ar_receivable"}
  @@ <<"sales", "credit_control">> :> {"finance"}
  @@ <<"accounting", "ar_ap_posting_enabled">> :> {"ar_receivable", "ap_payable"}
  @@ <<"accounting", "inventory_posting_enabled">> :> {"inventory"}

Prunable ==
  UNION {{<<key, name>> : name \in DOMAIN Declared[key].prunes} : key \in DOMAIN Declared}

Features ==
  DOMAIN FeatureNeeds \cup Prunable \cup {<<"system", name>> : name \in DOMAIN SystemFeatureCodes}

NeededBy(f) == IF f \in DOMAIN FeatureNeeds THEN FeatureNeeds[f] ELSE {}

\* MODULE_CONFIGURATION_CATALOG: of these features, those that are on unless switched off.
OnByDefault ==
  {<<"system", name>> : name \in {"user_management", "department_management",
                                  "role_management", "operation_log"}}
  \cup {<<"inventory", "stocktake">>, <<"purchase", "partial_receipt">>}
=============================================================================
