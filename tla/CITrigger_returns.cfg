CONSTANTS
  NoBuild = NoBuild
  Handlers = {h1, h2}
  Workers = {"w1"}
  Users = {member, outsider}
  Authorized = {member}
  Published = {"running"}
  Tests = {t1}
  MaxCommits = 1
  modifiedTests <- AllModified
  virtualDeviceTypes <- OneVirtual
  physicalDeviceTypes <- NoPhysical
  triggerKeywords <- CeosKeyword
  MaxKeywords = 1
  Attempts = 3
SPECIFICATION FairSpec
PROPERTIES HandlerReturns
CHECK_DEADLOCK FALSE
