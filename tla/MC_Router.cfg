CONSTANTS
  Routes <- MCRoutes
  Hashes <- MCHashes
  Perms = {"unseal"}
  Statuses = {"UNINITIALIZED", "SEALED", "UNSEALED"}

SPECIFICATION Spec
CONSTRAINT EventBound
INVARIANTS TypeOK GateEnforced
