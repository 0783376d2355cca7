SPECIFICATION Spec
CONSTANT Configurations <- ReconnectLines
INVARIANTS VersionIsHeld
