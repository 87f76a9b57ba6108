SPECIFICATION Spec
CONSTANTS
  Missing = Missing
  Null = Null
  Bad = Bad
  Environment = {"CLICKHOUSE_PW"}
  Contents <- MCContents
  Score <- MCScore
  Base <- MCBase
  Variants <- MCVariants
  Tables <- MCTables
  ColumnTypes <- MCColumnTypes
  Bundles <- MCBundles
  Stored <- MCStored
  Replacements <- MCReplacements
  MaxChanges = 2
INVARIANTS
  IInv
  ReadsAreTheQuery
  FitsWhatWasAsked
  PublishedIsFound
  RunsOnVerifiedBytes
  ResultsMeanTheModel
PROPERTIES
  RetryShrinks
CHECK_DEADLOCK FALSE
