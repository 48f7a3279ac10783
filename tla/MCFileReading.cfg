SPECIFICATION ReadSpec
CONSTANTS
  Files <- MCFiles
  Tables <- MCTables
  Opened <- MCOpened
  Radix = 8
  Ascii = 6
  Small <- MCSmall
  Big <- MCBig
  MaxEntries = 2
  Slack = 2
INVARIANTS
  OpensWhatIsThere
  EditsAreNoticed
  ReducedFacesFirst
  NothingPastTheEnd
  OnlyWhatWasWritten
PROPERTY
  ParsingEnds
CHECK_DEADLOCK FALSE
