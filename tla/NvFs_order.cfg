SPECIFICATION Spec
CONSTANTS
    Snapshots = {s1, s2, s3}
    Blank = Blank
    Torn = Torn
    Short = Short
    None = None
    ZeroHead = Blank
    OpenFaults = {}
    WriteFaults = FALSE
INVARIANT OriginFixed
