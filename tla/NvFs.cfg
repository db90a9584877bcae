SPECIFICATION Spec
CONSTANTS
    Snapshots = {s1, s2, s3}
    Blank = Blank
    Torn = Torn
    Short = Short
    None = None
    ZeroHead = Blank
    OpenFaults = {"first", "second", "fix", "bak", "ori"}
    WriteFaults = TRUE
INVARIANTS FirstFixed AckMeansStored
PROPERTIES RepairIsACopy StoreSpec
