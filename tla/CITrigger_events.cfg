CONSTANTS
  NoBuild = NoBuild
  Handlers = {h1, h2}
  Workers = {"w1"}
  Users = {member, outsider}
  Authorized = {member}
  Published = {"running"}
  Tests = {t1}
  MaxCommits = 2
  modifiedTests <- AllModified
  virtualDeviceTypes <- TwoVirtual
  physicalDeviceTypes <- OnePhysical
  triggerKeywords <- MixedKeywords
  MaxKeywords = 1
  Attempts = 1
SPECIFICATION Spec
SYMMETRY HandlerSymmetry
INVARIANTS BadgeBackedByJob BuildLinksMatch OneJobPerDevice RequestServed
CHECK_DEADLOCK FALSE
