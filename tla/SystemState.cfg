SPECIFICATION Spec
CONSTANTS
 Privileged = FALSE
 TornWrites = FALSE
 SnapshotsPolicy = FALSE
INVARIANTS KillRecorded   LiveSessionLocked
PROPERTIES KillSwitchSpec
