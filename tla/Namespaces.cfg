SPECIFICATION MCSpec
CONSTANTS
    MaxProcs = 4
CHECK_DEADLOCK FALSE
INVARIANT LauncherSound
INVARIANT InitSound
PROPERTY Started
PROPERTY Reaped
PROPERTY PauseEnds
