SPECIFICATION CollectionSpec
CONSTANTS
  Victims <- MCVictims
  Attacks <- MCAttacks
  Unkeyed <- MCUnkeyed
  YearOf <- MCYearOf
  LastYear = 2
  Groups = {"a", "b", "c"}
  GroupOf <- MCGroupOf
  Listed = {"a"}
INVARIANTS CollectionTypeOK YearsStored
PROPERTIES PublishedArrive
