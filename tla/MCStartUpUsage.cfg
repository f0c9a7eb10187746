SPECIFICATION Spec
CONSTANTS
    ArgPool <- TheUsage
    MaxArgs = 1
    ConfigFiles <- TheConfigFiles
CHECK_DEADLOCK FALSE
INVARIANTS
    UsageIsHonoured
