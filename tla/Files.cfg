SPECIFICATION Spec
CONSTANTS
    DatasetFiles <- OneFile
    MaxEdits = 1
    Documents <- TwoDocuments
    MaxStarts = 2
INVARIANTS
    SavedComesBack
    SchemaSuffices
    PartsMatch
    ReplaysTheFile
    BoundsEnclose
CHECK_DEADLOCK FALSE
