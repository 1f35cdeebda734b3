CONSTANTS
  NoBuild = NoBuild
  Handlers = {h1}
  Workers = {"w1"}
  Users = {member, outsider}
  Authorized = {member}
  Published = {"running"}
  Tests = {t1}
  MaxCommits = 1
  modifiedTests <- AllModified
  virtualDeviceTypes <- TwoVirtual
  physicalDeviceTypes <- OnePhysical
  triggerKeywords <- MixedKeywords
  MaxKeywords = 2
  Attempts = 1
SPECIFICATION Spec
INVARIANTS JobPerRequestedType
CHECK_DEADLOCK FALSE
