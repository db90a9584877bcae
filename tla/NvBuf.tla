-------------------------------- MODULE NvBuf --------------------------------
(***************************************************************************)
(* The three buffer stages of nvitemd and its two threads:                 *)
(*                                                                         *)
(*    channel --> fromChannel --> backup --> toDisk --> disk images        *)
(*                                                                         *)
(* The main thread fills fromChannel with the sectors of one sync request  *)
(* and, at the end of the request, copies it to backup (backupData) or     *)
(* takes it back (restoreData).  The save task copies backup to toDisk and *)
(* writes it out (saveToDisk).  In calibration mode the main thread calls  *)
(* saveToDisk itself and the save task is never signalled.                 *)
(* Sources: src/apps/nvitem/nvitem_buf.c, nvitem_os.c, nvitem_server.c.    *)
(*                                                                         *)
(* backup is the only stage both threads touch; it is copied sector by     *)
(* sector under a mutex.  A partition's disk is the store NvStore that     *)
(* NvFs implements, in the careful read order, where a write is atomic.    *)
(***************************************************************************)
EXTENDS Naturals

CONSTANTS
    PartNum,      \* number of partitions (ramNvCtl.partNum)
    Sectors,      \* the sectors of a partition
    Values,       \* what a sector may contain
    WriteFaults,  \* may ramDisk_Write return 0?
    Spurious      \* the modes in which pthread_cond_wait may return without a signal

ASSUME PartNumAssumption == PartNum \in Nat \ {0}
ASSUME ModesAssumption ==
    WriteFaults \in BOOLEAN /\ Spurious \subseteq BOOLEAN
ASSUME DataAssumption == Sectors # {} /\ Values # {}

Parts    == 1 .. PartNum
Contents == [Sectors -> Values]
Threads  == {"main", "save"}

VARIABLES
    caliMode,          \* is_cali_mode, the daemon's second argument
    chan, chanDirty,   \* fromChannel: content and dirty sectors, by partition
    bak, bakDirty,     \* backup
    tod, todDirty,     \* toDisk
    disk,              \* what a restart would read
    mutex,             \* the thread holding communicate.mutex, or "free"
    pc,                \* where each thread is
    id,                \* partition each thread works on: _id of a request in
                       \* the main thread, the loop index in saveToDisk
    left,              \* sectors the running memcpy of each thread has still to copy
    committed,         \* history: the contents of the requests that ended well
    missed             \* history: the last signal was given while nobody waited

buffers == <<chan, chanDirty, bak, bakDirty, tod, todDirty>>
threads == <<mutex, pc, id, left>>
vars == <<caliMode, chan, chanDirty, bak, bakDirty, tod, todDirty, disk, mutex, pc, id, left,
          committed, missed>>

MainSteps == {"idle", "recv", "backup", "copyIn", "notify", "restore", "copyBack"}
SaveSteps == {"check", "get", "copyOut", "write", "written"}
Copying   == {"copyIn", "copyBack", "copyOut"}

\* The three buffers, the dirty sets, the mutex and the two threads' positions
\* in range.
TypeOK ==
    /\ caliMode \in BOOLEAN
    /\ chan \in [Parts -> Contents]
    /\ bak \in [Parts -> Contents]
    /\ tod \in [Parts -> Contents]
    /\ disk \in [Parts -> Contents]
    /\ chanDirty \in [Parts -> SUBSET Sectors]
    /\ bakDirty \in [Parts -> SUBSET Sectors]
    /\ todDirty \in [Parts -> SUBSET Sectors]
    /\ mutex \in Threads \cup {"free"}
    /\ pc \in [Threads -> MainSteps \cup SaveSteps \cup {"wait"}]
    /\ pc["main"] # "wait" /\ pc["save"] \notin MainSteps
    /\ id \in [Threads -> 1 .. PartNum + 1]
    /\ \A t \in Threads : pc[t] \notin {"idle", "check", "wait"} => id[t] \in Parts
    /\ left \in [Threads -> SUBSET Sectors]
    /\ committed \in [Parts -> SUBSET Contents]
    /\ missed \in BOOLEAN

\* The main thread opens the channel, pSaveTask waits for its first event.
AtRest == [t \in Threads |-> IF t = "main" THEN "idle" ELSE "wait"]

\* initBuf: all three stages hold what ramDisk_Read returned, nothing is dirty.
Init ==
    /\ caliMode \in BOOLEAN
    /\ disk \in [Parts -> Contents]
    /\ chan = disk /\ bak = disk /\ tod = disk
    /\ chanDirty = [p \in Parts |-> {}]
    /\ bakDirty = [p \in Parts |-> {}]
    /\ todDirty = [p \in Parts |-> {}]
    /\ mutex = "free"
    /\ pc = AtRest
    /\ id = [t \in Threads |-> 1]
    /\ left = [t \in Threads |-> {}]
    /\ committed = [p \in Parts |-> {disk[p]}]
    /\ missed = FALSE

Goto(t, l) == pc' = [pc EXCEPT ![t] = l]

-----------------------------------------------------------------------------
(* Main thread: one sync request at a time *)

\* The head of a request names its partition.
Begin(p) ==
    /\ pc["main"] = "idle"
    /\ id' = [id EXCEPT !["main"] = p]
    /\ Goto("main", "recv")
    /\ UNCHANGED <<caliMode, buffers, disk, mutex, left, committed, missed>>

\* _markDirtyInfo, for one sector of the announced range.
MarkDirty(s) ==
    /\ pc["main"] = "recv"
    /\ chanDirty' = [chanDirty EXCEPT ![id["main"]] = @ \cup {s}]
    /\ UNCHANGED <<caliMode, chan, bak, bakDirty, tod, todDirty, disk, threads, committed, missed>>

\* writeData: data arrives only for sectors that were announced.
WriteData(s, v) ==
    /\ pc["main"] = "recv"
    /\ s \in chanDirty[id["main"]]
    /\ chan' = [chan EXCEPT ![id["main"]][s] = v]
    /\ UNCHANGED <<caliMode, chanDirty, bak, bakDirty, tod, todDirty, disk, threads, committed, missed>>

\* Variant: restoreData is left out of a failed request.
FailWithoutRestore(next) ==
    /\ pc["main"] = "recv"
    /\ Goto("main", IF next = "restore" THEN "idle" ELSE next)
    /\ UNCHANGED <<caliMode, buffers, disk, mutex, id, left, committed, missed>>

\* _syncReset: the request ends well, or in any of the ways it can fail.
EndRequest(next) ==
    /\ pc["main"] = "recv"
    /\ Goto("main", next)
    /\ UNCHANGED <<caliMode, buffers, disk, mutex, id, left, committed, missed>>

\* Variant: getMutex does not wait.
AcquireAlways(t, at, next) ==
    /\ pc[t] = at
    /\ mutex' = t
    /\ left' = [left EXCEPT ![t] = Sectors]
    /\ Goto(t, next)
    /\ UNCHANGED <<caliMode, buffers, disk, id, committed, missed>>

\* getMutex, and the memcpy of a partition starts.
Acquire(t, at, next) ==
    /\ pc[t] = at
    /\ mutex = "free"
    /\ mutex' = t
    /\ left' = [left EXCEPT ![t] = Sectors]
    /\ Goto(t, next)
    /\ UNCHANGED <<caliMode, buffers, disk, id, committed, missed>>

\* backupData copies fromChannel to backup.
CopyIn(s) ==
    /\ pc["main"] = "copyIn"
    /\ s \in left["main"]
    /\ bak' = [bak EXCEPT ![id["main"]][s] = chan[id["main"]][s]]
    /\ left' = [left EXCEPT !["main"] = @ \ {s}]
    /\ UNCHANGED <<caliMode, chan, chanDirty, bakDirty, tod, todDirty, disk, mutex, pc, id,
                   committed, missed>>

\* ... adds its dirty bits (without clearing them) and calls putMutex.
MergeIn ==
    /\ pc["main"] = "copyIn"
    /\ left["main"] = {}
    /\ bakDirty' = [bakDirty EXCEPT ![id["main"]] = @ \cup chanDirty[id["main"]]]
    /\ mutex' = "free"
    /\ committed' = [committed EXCEPT ![id["main"]] = @ \cup {chan[id["main"]]}]
    /\ missed' = FALSE
    /\ Goto("main", "notify")
    /\ UNCHANGED <<caliMode, chan, chanDirty, bak, tod, todDirty, disk, id, left>>

\* Variant: neither saves nor signals.
NotifyNobody ==
    /\ pc["main"] = "notify"
    /\ pc' = [pc EXCEPT !["main"] = "idle"]
    /\ id' = [t \in Threads |-> 1]
    /\ UNCHANGED <<caliMode, buffers, disk, mutex, left, committed, missed>>

\* Calibration mode: saveToDisk in the main thread.  Otherwise giveEvent: a save
\* task that waits is woken, one that is still busy never learns of the signal.
Notify ==
    /\ pc["main"] = "notify"
    /\ IF caliMode
         THEN /\ pc' = [pc EXCEPT !["main"] = "check"]
              /\ id' = [id EXCEPT !["main"] = 1]
              /\ UNCHANGED missed
         ELSE IF pc["save"] = "wait"
         THEN /\ pc' = [pc EXCEPT !["main"] = "idle", !["save"] = "check"]
              /\ id' = [t \in Threads |-> 1]
              /\ UNCHANGED missed
         ELSE /\ pc' = [pc EXCEPT !["main"] = "idle"]
              /\ id' = [id EXCEPT !["main"] = 1]
              /\ missed' = TRUE
    /\ UNCHANGED <<caliMode, buffers, disk, mutex, left, committed>>

\* restoreData copies backup to fromChannel ...
CopyBack(s) ==
    /\ pc["main"] = "copyBack"
    /\ s \in left["main"]
    /\ chan' = [chan EXCEPT ![id["main"]][s] = bak[id["main"]][s]]
    /\ left' = [left EXCEPT !["main"] = @ \ {s}]
    /\ UNCHANGED <<caliMode, chanDirty, bak, bakDirty, tod, todDirty, disk, mutex, pc, id,
                   committed, missed>>

\* ... and its dirty bits, and calls putMutex.
MergeBack ==
    /\ pc["main"] = "copyBack"
    /\ left["main"] = {}
    /\ chanDirty' = [chanDirty EXCEPT ![id["main"]] = bakDirty[id["main"]]]
    /\ mutex' = "free"
    /\ Goto("main", "idle")
    /\ id' = [id EXCEPT !["main"] = 1]
    /\ UNCHANGED <<caliMode, chan, bak, bakDirty, tod, todDirty, disk, left, committed, missed>>

-----------------------------------------------------------------------------
(* saveToDisk, in the save task or, in calibration mode, in the main thread *)

\* pthread_cond_wait may return on its own.
SpuriousWake ==
    /\ caliMode \in Spurious
    /\ pc["save"] = "wait"
    /\ Goto("save", "check")
    /\ id' = [id EXCEPT !["save"] = 1]
    /\ UNCHANGED <<caliMode, buffers, disk, mutex, left, committed, missed>>

\* The loop head: skip the partitions without dirty bits (read without the
\* mutex); after the last one the save task waits for the next event.
Check(t) ==
    /\ pc[t] = "check"
    /\ \/ /\ id[t] > PartNum
          /\ Goto(t, IF t = "main" THEN "idle" ELSE "wait")
          /\ id' = [id EXCEPT ![t] = 1]
       \/ /\ id[t] \in Parts
          /\ bakDirty[id[t]] = {}
          /\ id' = [id EXCEPT ![t] = @ + 1]
          /\ UNCHANGED pc
       \/ /\ id[t] \in Parts
          /\ bakDirty[id[t]] # {}
          /\ Goto(t, "get")
          /\ UNCHANGED id
    /\ UNCHANGED <<caliMode, buffers, disk, mutex, left, committed, missed>>

\* __getData copies backup to toDisk ...
CopyOut(t, s) ==
    /\ pc[t] = "copyOut"
    /\ s \in left[t]
    /\ tod' = [tod EXCEPT ![id[t]][s] = bak[id[t]][s]]
    /\ left' = [left EXCEPT ![t] = @ \ {s}]
    /\ UNCHANGED <<caliMode, chan, chanDirty, bak, bakDirty, todDirty, disk, mutex, pc, id,
                   committed, missed>>

\* Variant: the dirty bits are cleared, not moved.
DirtyNotMerged(t) ==
    /\ pc[t] = "copyOut"
    /\ left[t] = {}
    /\ bakDirty' = [bakDirty EXCEPT ![id[t]] = {}]
    /\ mutex' = "free"
    /\ Goto(t, "write")
    /\ UNCHANGED <<caliMode, chan, chanDirty, bak, tod, todDirty, disk, id, left, committed, missed>>

\* ... moves the dirty bits over and calls putMutex.
MergeOut(t) ==
    /\ pc[t] = "copyOut"
    /\ left[t] = {}
    /\ todDirty' = [todDirty EXCEPT ![id[t]] = @ \cup bakDirty[id[t]]]
    /\ bakDirty' = [bakDirty EXCEPT ![id[t]] = {}]
    /\ mutex' = "free"
    /\ Goto(t, "write")
    /\ UNCHANGED <<caliMode, chan, chanDirty, bak, tod, disk, id, left, committed, missed>>

\* ramDisk_Write (NvStore!TakeEffect) ...
TakeEffect(t) ==
    /\ pc[t] = "write"
    /\ disk' = [disk EXCEPT ![id[t]] = tod[id[t]]]
    /\ Goto(t, "written")
    /\ UNCHANGED <<caliMode, buffers, mutex, id, left, committed, missed>>

\* ... returns 1: the dirty bits of toDisk are cleared.
WriteOk(t) ==
    /\ pc[t] = "written"
    /\ todDirty' = [todDirty EXCEPT ![id[t]] = {}]
    /\ Goto(t, "check")
    /\ id' = [id EXCEPT ![t] = @ + 1]
    /\ UNCHANGED <<caliMode, chan, chanDirty, bak, bakDirty, tod, disk, mutex, left, committed, missed>>

\* ... returns 0, with the old or the new content on the disk.  Nothing is
\* retried until the partition becomes dirty again.
WriteFails(t) ==
    /\ WriteFaults
    /\ pc[t] \in {"write", "written"}
    /\ Goto(t, "check")
    /\ id' = [id EXCEPT ![t] = @ + 1]
    /\ UNCHANGED <<caliMode, buffers, disk, mutex, left, committed, missed>>

\* The daemon dies at any point and starts again.
Crash ==
    /\ chan' = disk /\ bak' = disk /\ tod' = disk
    /\ chanDirty' = [p \in Parts |-> {}]
    /\ bakDirty' = [p \in Parts |-> {}]
    /\ todDirty' = [p \in Parts |-> {}]
    /\ mutex' = "free"
    /\ pc' = AtRest
    /\ id' = [t \in Threads |-> 1]
    /\ left' = [t \in Threads |-> {}]
    /\ missed' = FALSE
    /\ UNCHANGED <<caliMode, disk, committed>>

-----------------------------------------------------------------------------
\* What the co-processor decides; nothing makes it go on.
Receive == \/ \E p \in Parts : Begin(p)
           \/ \E s \in Sectors : MarkDirty(s)
           \/ \E s \in Sectors, v \in Values : WriteData(s, v)
           \/ EndRequest("backup")
           \/ EndRequest("restore")

SaveToDisk(t) == \/ Check(t)
                 \/ Acquire(t, "get", "copyOut")
                 \/ \E s \in Sectors : CopyOut(t, s)
                 \/ MergeOut(t)
                 \/ TakeEffect(t)
                 \/ WriteOk(t)
                 \/ WriteFails(t)

\* The main thread once a request has ended.
Finish == \/ Acquire("main", "backup", "copyIn")
          \/ \E s \in Sectors : CopyIn(s)
          \/ MergeIn
          \/ Notify
          \/ Acquire("main", "restore", "copyBack")
          \/ \E s \in Sectors : CopyBack(s)
          \/ MergeBack
          \/ SaveToDisk("main")

Next == Receive \/ Finish \/ SaveToDisk("save") \/ SpuriousWake \/ Crash

Spec == Init /\ [][Next]_vars

\* The kernel runs both threads, and a mutex that is free again and again goes
\* to a thread that wants it: the two compete for it only briefly.
Fairness == /\ WF_vars(Finish)
            /\ WF_vars(SaveToDisk("save"))
            /\ SF_vars(Acquire("save", "get", "copyOut"))

FairSpec == Spec /\ Fairness

-----------------------------------------------------------------------------
(* Properties *)

\* The disk only ever holds a content that was committed as a whole: no mixture
\* of two requests, although commits go on while the save task copies.
DiskIsACommit == \A p \in Parts : disk[p] \in committed[p]

Differ(a, b, p) == {s \in Sectors : a[p][s] # b[p][s]}

\* Every sector in which two neighbouring stages differ is marked dirty in the
\* earlier one, except in the middle of a copy to the later one: an update can
\* be late but is never forgotten, even if writes to the disk fail.
NothingForgotten ==
    \A p \in Parts :
      /\ Differ(chan, bak, p) \subseteq chanDirty[p]
      /\ pc["main"] # "copyIn" => Differ(bak, tod, p) \subseteq bakDirty[p]
      /\ "copyOut" \notin {pc["main"], pc["save"]} => Differ(tod, disk, p) \subseteq todDirty[p]

\* Between requests fromChannel equals backup: a request that failed half-way
\* leaves nothing behind for the next commit to pick up.
FailedRequestLeavesNoTrace == pc["main"] = "idle" => chan = bak

\* The snapshot of partition p was taken, and its write has failed.
WriteFailed(p) ==
    /\ todDirty[p] # {}
    /\ \A t \in Threads : pc[t] \in {"write", "written"} => id[t] # p

\* In calibration mode the response to a request is sent only when the disk holds
\* it, or when its own snapshot could not be written: never before the save, and
\* never after a save of something older.
CaliAckIsDurable ==
    caliMode /\ pc["main"] = "idle" =>
        \A p \in Parts : disk[p] = bak[p] \/ (WriteFailed(p) /\ tod[p] = bak[p])

\* The mutex is what makes a copy exclusive: a thread is inside a copy if and
\* only if it holds it.
CopiesExclude == \A t \in Threads : pc[t] \in Copying <=> mutex = t

\* A committed content reaches the disk or is superseded by a later commit (or
\* by a restart), unless its write failed or the signal that announced it came
\* while the save task was busy: there is no third way for it to stay in RAM.
CommitReachesDisk ==
    \A p \in Parts, c \in Contents :
      bak[p] = c /\ pc["main"] = "notify" /\ id["main"] = p
         ~> \/ disk[p] = c \/ bak[p] # c \/ missed
            \/ WriteFailed(p) /\ tod[p] = c
=============================================================================
