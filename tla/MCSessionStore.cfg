\* One session, every operation, death inside or between writes.
CONSTANT MaxId = 4
SPECIFICATION Spec
INVARIANTS
  TypeOK
  AnswersOnDisk
  NothingResurrected
  LabelsRebuild
  ParentsOlder
PROPERTIES
  LeafRebuilds
  MetadataInvisible
