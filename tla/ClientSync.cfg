SPECIFICATION BothSpec
CONSTANTS
    d1 = d1
    d2 = d2
    file = file
    copy1 = copy1
    copy2 = copy2
    deep = deep
    ea = ea
    eb = eb
    ec = ec
    Device = {d1, d2}
    File = {file, copy1, copy2, deep}
    Main = {file}
    Edit = {ea, eb, ec}
    Old = {old}
    old = old
    CopyName <- MCCopyName
    Clash <- MCClash
    None = None
    MaxMishaps = 1
    root = root
    top = top
    sub = sub
    side = side
    Dir = {root, top, sub, side}
    Root = root
    Parent <- MCParent
    MaxOps = 2
    MaxSetbacks = 2
    MaxNotices = 3
INVARIANTS
    TypesOK
    
    
    
    
    
PROPERTY AllComesToRest
CHECK_DEADLOCK FALSE
