CONSTANTS
  None = None
  PipeCap = 2
  SchemaBound = 5
  SchemaMax = 4
  Size <- MCSize
  MaxPort = 770
  MaxName = 3
  MaxEntries = 2
SPECIFICATION FairSpec
INVARIANTS
  TypeOK
  WholeSchema
  InputParsing
  EnvRendering
  FileNaming
PROPERTIES
  MeetsHandshake
  AnswerComes
  RetryAdmitted
