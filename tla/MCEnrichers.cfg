SPECIFICATION Spec
CONSTANTS
  Names <- MCNames
  Key <- MCKey
  Known <- MCKnown
  Groups <- MCGroups
  Altnames <- MCAltnames
  SKIP_MATCHES = {"hive"}
  SOFTWARE_TO_GROUP <- MCSoftware
  Bundles <- MCBundles
  Techniques = {"T1", "T2", "T3"}
  Countries = {"RU"}
  Items <- MCItems
  FileOf <- MCFileOf
  NamedBy <- MCNamedBy
  Pages = {"page"}
  Week = 1
  None = None
  AwareTimestamps = TRUE
INVARIANTS TypeOK TechniquesSupported NoChurn
PROPERTIES RefreshedWeekly
