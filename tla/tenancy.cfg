\* A configured tenant, its staff, and its departments and grants.
CONSTANTS
  sales = sales
  stock = stock
  Modules = {sales, stock}
  Needs <- References1
  Resources = {1}
  Limit = 2
  Bound = {TRUE, FALSE}
  Mixes <- AllMixes
  Racing <- Harmless
  Workers = {a, b}
  MaxUsers = 2
  MaxRoles = 2
  MaxDepartments = 2
  MaxGrants = 2
SPECIFICATION Spec
INVARIANTS ConfigurationApplied ReferencesFollow DepartmentsAreTrees GrantsStand
SYMMETRY Alike
CHECK_DEADLOCK FALSE
