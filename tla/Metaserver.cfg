SPECIFICATION MCSpec
CONSTANTS
    top = top
    sub = sub
    subFile = subFile
    topFile = topFile
    Request = {1, 2, 3}
    Dir = {top, sub}
    File = {subFile, topFile}
    Root = top
    Parent <- MCParent
    None = None
    Old = Old
    Faulty = TRUE
INVARIANTS
    TypeOK
    UndisturbedDirectory
    NoForgottenContent
    StopDrainsQueue
PROPERTY GarbageCollected
CHECK_DEADLOCK FALSE
