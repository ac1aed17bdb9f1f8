SPECIFICATION FileSpec
CONSTANTS
  Methods = {"not_selected", "school_in_person"}
  DbsStatuses = {"not_started", "in_flight", "completed"}
  ReferenceStatuses = {"pending", "verified"}
  OtherChecks = {"section_128", "dbs_risk_assessment", "qualifications"}
  RecordSlots = {r1}
  NoRequest = NoRequest
  NoInduction = NoInduction
  Versions = {v1}
  Lists <- SchoolLists
  MaxAttempts = 3
  SelfSlots = {r1}
  NoSubmission = NoSubmission
INVARIANTS
  CompliantSeenInPerson
  StaleOnlyByDbs
  InductionInOrder
  SubmittedOnce
PROPERTIES
  ChecksStand
  GatesStay
