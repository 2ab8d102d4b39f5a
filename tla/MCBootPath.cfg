CONSTANTS
  DevTypes <- MCDevTypes
  Number <- MCNumber
  Addresses <- MCAddresses
  Boots <- MCBoots
  ConfigsOf <- MCConfigsOf
  Typed <- MCTyped
  Initrds <- MCInitrds
  BlockNames <- MCBlockNames
  NetNames <- MCNetNames
  Residues = {0, 12}
SPECIFICATION Spec
INVARIANTS
  RelativeStays
  PrintedNamesSame
PROPERTIES
  ComesUp
CHECK_DEADLOCK FALSE
