SPECIFICATION Spec
CONSTANTS
    ArgPool <- TheArgs
    MaxArgs = 3
    ConfigFiles <- TheConfigFiles
CHECK_DEADLOCK FALSE
INVARIANTS
    FlagsOverrideFile
    RunsWithItsFiles
