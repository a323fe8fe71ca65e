CONSTANTS
  LowBytes <- ToneBytes
  HighBytes <- Paths
  Turn = 3
  RowStep <- Rows
  ColumnStep <- Columns
  Samples = 2
  VideoWords = {0}
  Pictures = {0, 1}
  LedStates = {0, 1}
  Fields = {"second"}
  LastTime = 2
  Tm <- Instants
SPECIFICATION Spec
INVARIANTS BufferOfOneWord PhaseUnbroken GeneratorFollowsWord WindowFollows DateOfOneMoment
PROPERTIES BothThreadsGoOn
