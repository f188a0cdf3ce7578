\* What is left of the manifests in exported packages.
CONSTANTS
  Trials <- OnlyAsBuilt
  Threads = {a}
  Labels = {}
  Statuses = {"ACTIVE"}
  MaxTenants = 0
SPECIFICATION BlueprintsSpec
INVARIANTS PackagesLoad
CHECK_DEADLOCK FALSE
