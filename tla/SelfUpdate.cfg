CONSTANTS
    u1 = u1
    Updaters <- OneUpdater
    Checked = TRUE
    Inodes <- FourInodes
SPECIFICATION Spec
INVARIANT TargetComplete
PROPERTY NoDowngrade
