CONSTANTS
  Cpus <- Bits
  Strings <- OneString
  Flags <- OneFlag
  Entries <- Texts
  OddCase <- InCapitals
  MaxToken = 4
  HeapMayFail = TRUE
  MaxEntries = 4
  Keys <- Letters
  CmdLeng = 6
  MaxTyped = 2
  MaxListed = 4
SPECIFICATION Spec
INVARIANTS
  ReadsWhatIsMeant
  FiledWhereItStands
  Completes
CHECK_DEADLOCK FALSE
