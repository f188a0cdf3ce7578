\* Packages of every graph of manifests; versions, generations and tenants.
CONSTANTS
  Trials <- AllMixes
  Threads = {a, b}
  Labels = {1}
  Statuses = {"ACTIVE", "INACTIVE"}
  MaxTenants = 2
SPECIFICATION BlueprintsSpec
INVARIANTS PackagesComplete OnePublished GenerationsSound ReferencesReached
SYMMETRY Alike
CHECK_DEADLOCK FALSE
