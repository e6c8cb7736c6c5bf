\* Four files, two uploads after one start.
CONSTANTS
    FileOrder <- MCFileOrder
    Contents <- MCContents
    MaxUploads = 2
    MaxBoots = 1

SPECIFICATION CsvSpec
CHECK_DEADLOCK FALSE

INVARIANTS
    ReimportAddsNothing
