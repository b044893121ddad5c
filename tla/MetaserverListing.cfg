SPECIFICATION Spec
CONSTANTS
    top = top
    sub = sub
    subFile = subFile
    topFile = topFile
    Request = {r1, r2}
    Dir = {top, sub}
    File = {subFile, topFile}
    Root = top
    Parent <- MCParent
    None = None
    Old = Old
    Faulty = FALSE
INVARIANT ListingExact
CHECK_DEADLOCK FALSE
