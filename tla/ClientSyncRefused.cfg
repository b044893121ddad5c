SPECIFICATION Spec
CONSTANTS
    d1 = d1
    d2 = d2
    file = file
    copy1 = copy1
    copy2 = copy2
    deep = deep
    ea = ea
    eb = eb
    ec = ec
    Device = {d1, d2}
    File = {file, copy1, copy2, deep}
    Main = {file}
    Edit = {ea, eb, ec}
    Old = {old}
    old = old
    CopyName <- MCCopyName
    Clash <- MCClash
    None = None
    MaxMishaps = 0
PROPERTY UploadedIsStored
CHECK_DEADLOCK FALSE
