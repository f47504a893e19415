SPECIFICATION Spec

CONSTANTS
  Groups <- MCGroups
  Articles <- MCArticles
  Names <- MCNames
  GroupName <- MCGroupName
  Ratio <- MCRatio
  Cutoff = 80
  Aliases <- MCAliases
  NEGATIVE_ALIASES = {"raas"}
  Sketch <- MCSketch
  Fields <- MCFields
  Indicators <- MCIndicators
  Onions = {"leak"}
  Platforms = {"github"}
  Address <- MCAddress
  RentedExact = {3}
  RentedNetworks <- MCNetworks
  RentedSpans <- MCSpans
  FeedValues <- MCFeedValues
  LoneWallet = "w1"
  Families <- MCFamilies
  SKIP_FAMILIES = {"raas"}
  MaxAudit = 4
  MaxOthers = 1

INVARIANTS
  TypeOK
  ProposedOnce
  OnlyItsOwn

PROPERTIES
  RevertRestores
