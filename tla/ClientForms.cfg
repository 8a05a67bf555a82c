SPECIFICATION Spec
CONSTANTS
    None = None
    Forms <- AllForms
    Scenes <- AllScenes
    Bounds <- AllBounds
CHECK_DEADLOCK FALSE
INVARIANT TypeOK
INVARIANT DoneOnce
INVARIANT ChangesAreShown
INVARIANT BusyAwaitsACall
INVARIANT NothingHalfMade
PROPERTY LockedFormsStay
