SPECIFICATION Spec
CONSTANTS
  Names <- TableNames
  Columns <- ColumnNames
  Types <- TypeNames
  Features = {"f", "g"}
  Id = "id"
  KeyType = "bigint"
  None = "none"
  Rank <- TableRank
  Denotes <- ColumnDenotes
  Means <- TableMeans
  BaseName <- TableBase
  NormType <- Spelling
  External = {"target_id"}
  Mutable = {"stock"}
  Happened = {"at"}
  KeyColumn <- KeyOf
  Registries <- Contracts
  Plans <- Planned
  Designs <- Answers
  Feedbacks <- Told
  Patches <- PatchSet
  MaxRepairs = 2
INVARIANTS
  SavedIsSettled
  ContractIsStored
PROPERTIES
  RepairStaysInScope
CHECK_DEADLOCK FALSE
