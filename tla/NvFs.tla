-------------------------------- MODULE NvFs --------------------------------
(***************************************************************************)
(* The two-image disk store of one NV partition: ramDisk_Read and          *)
(* ramDisk_Write of src/apps/nvitem/nvitem_fs.c, with a power loss (or a   *)
(* kill of the daemon) possible between any two system calls.              *)
(*                                                                         *)
(* An image file is a 512-byte header, of which only the checksum is ever  *)
(* looked at, and a payload.  image[f] is what a crash at this instant     *)
(* leaves on the medium: `head' names the payload whose checksum the       *)
(* header holds, `body' the payload.  The checksum is taken as injective   *)
(* (NvChecksum shows how far that is so).  A zeroed header holds checksum  *)
(* 0, which is the checksum of a payload of 0xFF bytes as long as the      *)
(* 32-bit sum does not overflow, up to 65537 words: fixnv, not runtimenv.  *)
(***************************************************************************)
CONSTANTS
    Snapshots,    \* partition contents the daemon may be asked to save
    Blank,        \* the content memset(buf, 0xFF, size) leaves
    Torn,         \* a full-size payload mixing written and unwritten blocks
    Short,        \* a payload shorter than the partition
    None,         \* no usable header / no value
    ZeroHead,     \* what an all-zero header is the header of: Blank, or None if
                  \* the partition is too large for that
    OpenFaults,   \* the open() calls that may fail: "first", "second" and "fix" of
                  \* ramDisk_Read, "bak" and "ori" of ramDisk_Write
    WriteFaults   \* may write() store fewer bytes than asked?

Files  == {"ori", "bak"}
Bodies == Snapshots \cup {Blank, Torn, Short}
Heads  == Snapshots \cup {Blank, None}

ASSUME ZeroHeadAssumption == ZeroHead \in {Blank, None}
ASSUME FaultsAssumption ==
    /\ OpenFaults \subseteq {"first", "second", "fix", "bak", "ori"}
    /\ WriteFaults \in BOOLEAN
ASSUME ContentsDiffer ==
    /\ Snapshots # {}
    /\ {Blank, Torn, Short, None} \cap Snapshots = {}
    /\ Blank # Torn /\ Blank # Short /\ Torn # Short
    /\ None \notin {Blank, Torn, Short}

VARIABLES
    firstName,  \* the image rand() % 2 picks to be read first
    image,      \* Files -> what the medium holds
    pc,         \* "boot", "second", "fix": inside ramDisk_Read;
                \* "bak", "ori": inside ramDisk_Write; "run": in neither
    open,       \* the image being written is open, hence truncated
    buf,        \* the RAM buffer the read fills and the write stores
    ret2,       \* ramDisk_Read: the last read() of a payload was full-size
    ret,        \* ramDisk_Write: the value to be returned
    unopened,   \* history: the images the last read or write could not open
    broken      \* history: an open() or a write() has failed

vars == <<firstName, image, pc, open, buf, ret2, ret, unopened, broken>>

Full(c) == [head |-> c, body |-> c]

Empty == [head |-> None, body |-> Short]

\* _chkNVEcc on a full-size payload with a full-size header.
Valid(img) == img.head = img.body

\* The files the read falls back to and the write it makes go to.
secondName == IF firstName = "ori" THEN "bak" ELSE "ori"

\* What a truncated and not yet fsync'ed rewrite with content c may have put
\* on the medium: any of the header and the payload missing, zero or partial.
Partial(c) == [head : {None, ZeroHead, c}, body : {Short, Torn, c}] \ {Full(c)}

\* The image files, the RAM buffer and the steps of ramDisk_Read and
\* ramDisk_Write in range.
TypeOK == /\ firstName \in Files
          /\ image \in [Files -> [head : Heads, body : Bodies]]
          /\ pc \in {"boot", "second", "fix", "run", "bak", "ori"}
          /\ open \in BOOLEAN
          /\ open => pc \in {"fix", "bak", "ori"}
          /\ buf \in Bodies
          /\ ret2 \in BOOLEAN
          /\ ret \in BOOLEAN
          /\ unopened \subseteq Files
          /\ broken \in BOOLEAN

\* A partition that was never written, or one that was stored completely.  rand()
\* is never seeded: its n-th call, which picks the order for this partition, has
\* the same result at every start of the daemon, so either order is for ever.
Init == /\ firstName \in Files
        /\ \/ image = [f \in Files |-> Empty]
           \/ \E s \in Snapshots : image = [f \in Files |-> Full(s)]
        /\ pc = "boot"
        /\ open = FALSE
        /\ buf = Blank
        /\ ret2 = FALSE
        /\ ret = FALSE
        /\ unopened = {}
        /\ broken = FALSE

OpenResults(call) == IF call \in OpenFaults THEN BOOLEAN ELSE {TRUE}

\* ramDisk_Read, step 1: return if the first image is good.
ReadFirst ==
    /\ pc = "boot"
    /\ \E opened \in OpenResults("first") :
         LET img == image[firstName] IN
         /\ buf' = IF opened THEN img.body ELSE Blank
         /\ ret2' = (opened /\ img.body # Short)
         /\ pc' = IF opened /\ Valid(img) THEN "run" ELSE "second"
         /\ unopened' = IF opened THEN {} ELSE {firstName}
         /\ broken' = (broken \/ ~opened)
    /\ UNCHANGED <<firstName, image, open, ret>>

\* Variant: step 3, the repair, is left out.
ReadSecondNoFix ==
    /\ pc = "second"
    /\ buf' = image[secondName].body
    /\ pc' = "run"
    /\ UNCHANGED <<firstName, image, open, ret, ret2, unopened, broken>>

\* Variant: repair with whatever was read.
ReadSecondUnchecked ==
    /\ pc = "second"
    /\ buf' = image[secondName].body
    /\ pc' = "fix"
    /\ UNCHANGED <<firstName, image, open, ret, ret2, unopened, broken>>

\* ramDisk_Read, step 2: buffer and header are blanked again, the second image
\* is read over them.  If it cannot be opened, ret2 keeps the value the first
\* image left.  Every failure returns 1 with whatever the buffer then holds.
ReadSecond ==
    /\ pc = "second"
    /\ \E opened \in OpenResults("second") :
         LET img == IF opened THEN image[secondName] ELSE [head |-> ZeroHead, body |-> Blank]
             full == IF opened THEN img.body # Short ELSE ret2
         IN  /\ buf' = img.body
             /\ ret2' = full
             /\ pc' = IF full /\ Valid(img) THEN "fix" ELSE "run"
             /\ unopened' = IF opened THEN unopened ELSE unopened \cup {secondName}
             /\ broken' = (broken \/ ~opened)
    /\ UNCHANGED <<firstName, image, open, ret>>

\* saveToDisk hands a snapshot to ramDisk_Write.
Save(s) == /\ pc = "run"
           /\ buf' = s
           /\ ret' = TRUE
           /\ pc' = "bak"
           /\ unopened' = {}
           /\ UNCHANGED <<firstName, image, open, ret2, broken>>

-----------------------------------------------------------------------------
(* Rewriting one image: step 3 of the read, steps 2 and 3 of the write.    *)

Target == IF pc = "fix" THEN firstName ELSE pc

\* The backup image is written before the origin image.
AfterTarget == IF pc = "bak" THEN "ori" ELSE "run"

\* open(O_RDWR | O_CREAT | O_TRUNC) succeeds; from here on the old content is gone.
OpenImage == /\ pc \in {"fix", "bak", "ori"}
             /\ ~open
             /\ open' = TRUE
             /\ image' \in {[image EXCEPT ![Target] = i] : i \in Partial(buf)}
             /\ UNCHANGED <<firstName, pc, buf, ret2, ret, unopened, broken>>

\* A failing open() is skipped over without touching ret.
OpenFails == /\ pc \in OpenFaults \cap {"fix", "bak", "ori"}
             /\ ~open
             /\ pc' = AfterTarget
             /\ unopened' = unopened \cup {Target}
             /\ broken' = TRUE
             /\ UNCHANGED <<firstName, image, open, buf, ret2, ret>>

\* The kernel writes back some of the dirty pages.
WriteBack == /\ open
             /\ image' \in {[image EXCEPT ![Target] = i] : i \in Partial(buf)}
             /\ UNCHANGED <<firstName, pc, open, buf, ret2, ret, unopened, broken>>

\* Variant: the header is flushed, the payload is not.
SyncHeaderOnly ==
    /\ open
    /\ image' = [image EXCEPT ![Target] = [head |-> buf, body |-> Torn]]
    /\ open' = FALSE
    /\ pc' = AfterTarget
    /\ UNCHANGED <<firstName, buf, ret2, ret, unopened, broken>>

\* Both writes complete; fsync; close.
Sync == /\ open
        /\ image' = [image EXCEPT ![Target] = Full(buf)]
        /\ open' = FALSE
        /\ pc' = AfterTarget
        /\ UNCHANGED <<firstName, buf, ret2, ret, unopened, broken>>

\* Variant: a short write is not reported.
ShortWriteUnnoticed ==
    /\ WriteFaults
    /\ open
    /\ image' \in {[image EXCEPT ![Target] = i] : i \in Partial(buf)}
    /\ open' = FALSE
    /\ pc' = AfterTarget
    /\ broken' = TRUE
    /\ UNCHANGED <<firstName, buf, ret2, ret, unopened>>

\* A write stored too few bytes.  ramDisk_Write notes it and goes on with the
\* other image all the same; ramDisk_Read ignores it.
ShortWrite == /\ WriteFaults
              /\ open
              /\ image' \in {[image EXCEPT ![Target] = i] : i \in Partial(buf)}
              /\ open' = FALSE
              /\ ret' = (ret /\ pc = "fix")
              /\ pc' = AfterTarget
              /\ broken' = TRUE
              /\ UNCHANGED <<firstName, buf, ret2, unopened>>

\* Power loss, or the daemon is killed; it starts again with ramDisk_Read.
Crash == /\ pc' = "boot"
         /\ open' = FALSE
         /\ buf' = Blank
         /\ ret2' = FALSE
         /\ ret' = FALSE
         /\ unopened' = {}
         /\ UNCHANGED <<firstName, image, broken>>

Next == \/ ReadFirst
        \/ ReadSecond
        \/ \E s \in Snapshots : Save(s)
        \/ OpenImage
        \/ OpenFails
        \/ WriteBack
        \/ Sync
        \/ ShortWrite
        \/ Crash

Spec == Init /\ [][Next]_vars

-----------------------------------------------------------------------------
(* Properties *)

SomeImageValid == \E f \in Files : Valid(image[f])

\* "1 read imagPath first ... 3 fix imagePath ... note: first imagePath then
\* imageBakPath": outside both functions, imagePath is good whenever either image
\* is, so that the write which truncates the backup first loses nothing.
OriginFixed == ~broken /\ pc = "run" /\ SomeImageValid => Valid(image["ori"])

\* What the repair of ramDisk_Read achieves in either order, until an open() or a
\* write() fails: outside both functions, the image read first is good whenever
\* either image is, wherever reads, repairs and writes were cut short before.
FirstFixed == ~broken /\ pc = "run" /\ SomeImageValid => Valid(image[firstName])

\* When ramDisk_Write returns 1, every image it could open holds the whole of what
\* it was given: a short write of either image is always reported, whichever of
\* the other calls fail.  (A failed open() itself is not reported.)
AckMeansStored ==
    pc = "run" /\ ret => \A f \in Files \ unopened : image[f] = Full(buf)

\* ramDisk_Read repairs the first image only with what it read from a good second
\* one; if the second could not be opened, ret2 being stale, the repair goes on
\* with the blanked buffer and header, never with what the first image left there.
RepairIsACopy ==
    [][pc = "fix" /\ Sync =>
         image'[firstName] = IF secondName \in unopened THEN Full(Blank)
                             ELSE image[secondName]]_vars

\* The content of an image as a restart sees it.
Content(img) == IF Valid(img) THEN img.body ELSE None

\* The content a restart would find.
Survivor == IF Valid(image[firstName]) THEN image[firstName].body
            ELSE Content(image[secondName])

Store == INSTANCE NvStore WITH
    Contents <- Bodies,
    val      <- Survivor,
    spare    <- IF firstName = "ori" THEN Survivor ELSE Content(image["ori"]),
    mem      <- IF pc \in {"boot", "second", "fix"} THEN None ELSE buf,
    writing  <- pc \in {"bak", "ori"},
    careful  <- firstName = "ori"

\* Until an open() or a write() fails, the two images implement the store NvStore
\* in either read order.  With the origin read first that is a register whose
\* writes are atomic: a restart reads the old or the new content, never a mixture,
\* and never an old content once the write has returned.  With the backup read
\* first, a write falls back to what the write before left in the origin image.
StoreSpec == Store!Spec
=============================================================================
