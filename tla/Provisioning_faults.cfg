SPECIFICATION FairSpec
CONSTANTS
  Emails = {e1}
  Grants = {"worker", "hr_manager"}
  WorkerGrant = "worker"
  Requests = {r1, r2, r3}
  Idle = Idle
  MaxFaults = 2
INVARIANTS
  UserHasAccount
  RegisteredHasMetadata
PROPERTIES
  RequestsEnd
  RegistrationSucceeds
  UserMovesOn
