------------------------------ MODULE NvStore ------------------------------
(***************************************************************************)
(* What ramDisk_Read and ramDisk_Write (src/apps/nvitem/nvitem_fs.c)       *)
(* together promise for one NV partition as long as no open() or write()   *)
(* has failed.  NvFs implements this specification with two image files.   *)
(*                                                                         *)
(* If the image written last is the one read first (careful), this is a    *)
(* durable register: a write takes effect at one instant between its call  *)
(* and its return, and a power loss keeps the old or the new content.  In  *)
(* the other read order the copy that counts is destroyed first: a power   *)
(* loss then falls back to the spare copy, which the write before left     *)
(* equal, but only if that one was not itself cut short; otherwise nothing *)
(* is left.                                                                *)
(***************************************************************************)
CONSTANTS
    Snapshots,  \* the contents the daemon can be asked to store
    Contents,   \* whatever can be in the RAM buffer when nothing could be read
    None        \* "no value"

VARIABLES
    val,      \* the content a restart finds; None if it finds nothing valid
    spare,    \* what is left of it when a write destroys the copy read first
    mem,      \* the daemon's RAM copy; None from a crash to the end of the read
    writing,  \* a ramDisk_Write is in progress
    careful,  \* the copy read first is the one written last; never changes
    broken    \* an open() or write() has failed: nothing is promised any more

vars == <<val, spare, mem, writing, careful, broken>>

Init == /\ val \in Snapshots \cup {None}
        /\ spare = val
        /\ mem = None
        /\ writing = FALSE
        /\ careful \in BOOLEAN
        /\ broken = FALSE

\* The read at start-up: the durable content, or garbage if there is none.
Load == /\ mem = None
        /\ mem' \in IF val = None THEN Contents ELSE {val}
        /\ UNCHANGED <<val, spare, writing>>

Write(s) == /\ mem # None
            /\ ~writing
            /\ mem' = s
            /\ writing' = TRUE
            /\ UNCHANGED <<val, spare>>

\* The copy read first is truncated before the new content is anywhere.
FallBack == /\ writing
            /\ ~careful
            /\ val' = spare
            /\ UNCHANGED <<spare, mem, writing>>

\* The instant at which the write becomes durable.
TakeEffect == /\ writing
              /\ val' = mem
              /\ spare' = IF careful THEN mem ELSE spare
              /\ UNCHANGED <<mem, writing>>

\* The other copy is being rewritten.
LoseSpare == /\ writing
             /\ ~careful
             /\ val = mem
             /\ spare' = None
             /\ UNCHANGED <<val, mem, writing>>

\* A write returns only after it took effect, with both copies the same.
Return == /\ writing
          /\ val = mem
          /\ spare' = mem
          /\ writing' = FALSE
          /\ UNCHANGED <<val, mem>>

Crash == /\ mem' = None
         /\ writing' = FALSE
         /\ UNCHANGED <<val, spare>>

Step == \/ Load
        \/ \E s \in Snapshots : Write(s)
        \/ FallBack
        \/ TakeEffect
        \/ LoseSpare
        \/ Return
        \/ Crash

Next == \/ Step /\ UNCHANGED <<careful, broken>>
        \/ broken'

Spec == Init /\ [][Next]_vars
=============================================================================
