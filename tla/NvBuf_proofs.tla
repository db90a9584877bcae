---------------------------- MODULE NvBuf_proofs ----------------------------
(***************************************************************************)
(* Proofs about the buffer stages of nvitemd, for any number of partitions *)
(* and sectors, any sector contents, with failing disk writes and restarts *)
(* at any point.  Every theorem about the data needs one saver at a time:  *)
(* calibration mode with a spuriously woken save task is excluded.  The    *)
(* last part is about the dirty table (NvDirty), for a table of any size   *)
(* and any ranges in it.                                                   *)
(***************************************************************************)
EXTENDS NvBuf, NvDirty, TLAPS

OneSaver == TRUE \notin Spurious

\* The threads at their start.
LEMMA RestType ==
    /\ AtRest \in [Threads -> MainSteps \cup SaveSteps \cup {"wait"}]
    /\ AtRest["main"] = "idle" /\ AtRest["save"] = "wait"
    /\ [t \in Threads |-> 1] \in [Threads -> 1 .. PartNum + 1]
    /\ 1 \in Parts
    /\ [p \in Parts |-> {}] \in [Parts -> SUBSET Sectors]
    /\ [t \in Threads |-> {}] \in [Threads -> SUBSET Sectors]
<1>1. 1 \in 1 .. PartNum + 1 /\ 1 \in Parts
  BY PartNumAssumption DEF Parts
<1> QED
  BY <1>1 DEF AtRest, Threads, MainSteps, SaveSteps

\* initBuf leaves every variable in range.
LEMMA TypeInitial == Init => TypeOK
<1> SUFFICES ASSUME Init PROVE TypeOK
  OBVIOUS
<1>1. committed \in [Parts -> SUBSET Contents]
  BY DEF Init
<1>2. \A t \in Threads : pc[t] \in {"idle", "wait"}
  BY DEF Init, AtRest, Threads
<1> QED
  BY <1>1, <1>2, RestType DEF Init, TypeOK, MainSteps

\* Every step of the two threads keeps the types.
LEMMA TypeStep == TypeOK /\ [Next]_vars => TypeOK'
<1> SUFFICES ASSUME TypeOK, [Next]_vars
             PROVE  TypeOK'
  OBVIOUS
<1> USE PartNumAssumption DEF TypeOK, Threads, MainSteps, SaveSteps, buffers, threads, Goto
<1>1. ASSUME NEW p \in Parts, Begin(p) PROVE TypeOK'
  BY <1>1 DEF Begin, Parts
<1>2. ASSUME NEW s \in Sectors, MarkDirty(s) PROVE TypeOK'
  BY <1>2 DEF MarkDirty
<1>3. ASSUME NEW s \in Sectors, NEW v \in Values, WriteData(s, v) PROVE TypeOK'
  BY <1>3 DEF WriteData, Contents
<1>4. ASSUME NEW l \in {"backup", "restore"}, EndRequest(l) PROVE TypeOK'
  BY <1>4 DEF EndRequest
<1>5. ASSUME NEW t \in Threads, NEW a \in {"backup", "restore", "get"},
             NEW l \in Copying, t = "save" => l = "copyOut", Acquire(t, a, l)
      PROVE  TypeOK'
  BY <1>5 DEF Acquire, Copying
<1>6. ASSUME NEW s \in Sectors, CopyIn(s) PROVE TypeOK'
  BY <1>6 DEF CopyIn, Contents
<1>7. CASE MergeIn
  <2>1. committed' \in [Parts -> SUBSET Contents] /\ missed' \in BOOLEAN
    BY <1>7 DEF MergeIn
  <2>2. bakDirty' \in [Parts -> SUBSET Sectors] /\ mutex' = "free"
    BY <1>7 DEF MergeIn
  <2> QED
    BY <1>7, <2>1, <2>2 DEF MergeIn
<1>8. CASE Notify
  <2>1. id' \in [Threads -> 1 .. PartNum + 1]
    BY <1>8, RestType DEF Notify
  <2>2. pc' \in [Threads -> MainSteps \cup SaveSteps \cup {"wait"}]
    BY <1>8 DEF Notify
  <2>3. /\ pc'["main"] \in {"idle", "check"}
        /\ \/ pc'["save"] = pc["save"] /\ id'["save"] = id["save"]
           \/ pc'["save"] = "check" /\ id'["save"] = 1
    BY <1>8 DEF Notify
  <2>4. missed' \in BOOLEAN
    BY <1>8 DEF Notify
  <2> QED
    BY <1>8, <2>1, <2>2, <2>3, <2>4 DEF Notify
<1>9. ASSUME NEW s \in Sectors, CopyBack(s) PROVE TypeOK'
  BY <1>9 DEF CopyBack, Contents
<1>10. CASE MergeBack
  BY <1>10 DEF MergeBack
<1>11. ASSUME NEW t \in Threads, Check(t) PROVE TypeOK'
  BY <1>11 DEF Check, Parts
<1>12. ASSUME NEW t \in Threads, NEW s \in Sectors, CopyOut(t, s) PROVE TypeOK'
  BY <1>12 DEF CopyOut, Contents
<1>13. ASSUME NEW t \in Threads, MergeOut(t) PROVE TypeOK'
  BY <1>13 DEF MergeOut
<1>14. ASSUME NEW t \in Threads, TakeEffect(t) PROVE TypeOK'
  BY <1>14 DEF TakeEffect
<1>15. ASSUME NEW t \in Threads, WriteOk(t) \/ WriteFails(t) PROVE TypeOK'
  <2>1. id' = [id EXCEPT ![t] = @ + 1] /\ id[t] \in Parts /\ Goto(t, "check")
    BY <1>15 DEF WriteOk, WriteFails
  <2>2. id' \in [Threads -> 1 .. PartNum + 1]
    BY <2>1 DEF Parts
  <2> QED
    BY <1>15, <2>1, <2>2 DEF WriteOk, WriteFails
<1>16. CASE SpuriousWake
  BY <1>16 DEF SpuriousWake
<1>17. CASE Crash
  <2>1. \A t \in Threads : pc'[t] \in {"idle", "wait"}
    BY <1>17 DEF Crash, AtRest
  <2> QED
    BY <1>17, <2>1, RestType DEF Crash
<1>18. CASE UNCHANGED vars
  BY <1>18 DEF vars
<1>19. CASE Receive
  BY <1>19, <1>1, <1>2, <1>3, <1>4 DEF Receive
<1>20. ASSUME NEW t \in Threads, SaveToDisk(t) PROVE TypeOK'
  BY <1>20, <1>5, <1>11, <1>12, <1>13, <1>14, <1>15 DEF SaveToDisk, Copying
<1>21. CASE Finish
  BY <1>21, <1>5, <1>6, <1>7, <1>8, <1>9, <1>10, <1>20 DEF Finish, Copying
<1> QED
  BY <1>16, <1>17, <1>18, <1>19, <1>20, <1>21 DEF Next

(***************************************************************************)
(* The state of the buffers, the threads and the mutex stays well formed.  *)
(***************************************************************************)
THEOREM TypeCorrect == Spec => []TypeOK
  BY TypeInitial, TypeStep, PTL DEF Spec

-----------------------------------------------------------------------------
(***************************************************************************)
(* Control: who may be where.                                              *)
(***************************************************************************)
\* saveToDisk runs in one thread only.
SaverPart == /\ caliMode => pc["save"] = "wait"
             /\ ~caliMode => pc["main"] \notin SaveSteps

Control == TypeOK /\ CopiesExclude /\ SaverPart

\* The control invariant holds before the threads start.
LEMMA ControlInitial == Init => Control
<1> SUFFICES ASSUME Init PROVE Control
  OBVIOUS
<1>1. pc["main"] = "idle" /\ pc["save"] = "wait" /\ mutex = "free"
  BY RestType DEF Init
<1> QED
  BY <1>1, TypeInitial DEF Control, CopiesExclude, SaverPart, Threads, Copying, SaveSteps

\* is_cali_mode is set once, in main.
LEMMA ModeFixed == [Next]_vars => UNCHANGED caliMode
BY DEF Next, vars, Receive, Begin, MarkDirty, WriteData, EndRequest, Finish, Acquire, CopyIn,
       MergeIn, Notify, CopyBack, MergeBack, SaveToDisk, Check, CopyOut, MergeOut, TakeEffect,
       WriteOk, WriteFails, SpuriousWake, Crash

\* The control invariant is inductive: one case per action.
LEMMA ControlStep == OneSaver /\ Control /\ [Next]_vars => Control'
<1> SUFFICES ASSUME OneSaver, Control, [Next]_vars
             PROVE  Control'
  OBVIOUS
<1>ty. TypeOK' /\ caliMode' = caliMode
  BY TypeStep, ModeFixed DEF Control
<1> USE <1>ty, ModesAssumption
    DEF Control, TypeOK, CopiesExclude, SaverPart, Threads, Copying, SaveSteps, Goto
<1>1. ASSUME NEW l \in {"recv", "backup", "restore"}, Goto("main", l), UNCHANGED mutex,
             pc["main"] \in {"idle", "recv"}
      PROVE  Control'
  BY <1>1
<1>2. CASE Receive
  <2>1. CASE UNCHANGED <<pc, mutex>>
    BY <2>1
  <2>2. CASE \E p \in Parts : Begin(p)
    BY <2>2, <1>1 DEF Begin
  <2>3. CASE EndRequest("backup") \/ EndRequest("restore")
    BY <2>3, <1>1 DEF EndRequest
  <2> QED
    BY <1>2, <2>1, <2>2, <2>3 DEF Receive, MarkDirty, WriteData, threads
<1>3. CASE Acquire("main", "backup", "copyIn") \/ Acquire("main", "restore", "copyBack")
  BY <1>3 DEF Acquire
<1>4. CASE UNCHANGED <<pc, mutex>>
  BY <1>4
<1>5. CASE MergeIn \/ MergeBack
  BY <1>5 DEF MergeIn, MergeBack
<1>6. CASE Notify
  BY <1>6 DEF Notify
<1>7. ASSUME NEW t \in Threads, SaveToDisk(t) PROVE Control'
  <2>1. CASE Check(t)
    BY <1>7, <2>1 DEF Check
  <2>2. CASE Acquire(t, "get", "copyOut")
    BY <1>7, <2>2 DEF Acquire
  <2>3. CASE \E s \in Sectors : CopyOut(t, s)
    BY <2>3, <1>4 DEF CopyOut
  <2>4. CASE MergeOut(t)
    BY <1>7, <2>4 DEF MergeOut
  <2>5. CASE TakeEffect(t)
    BY <1>7, <2>5 DEF TakeEffect
  <2>6. CASE WriteOk(t) \/ WriteFails(t)
    BY <1>7, <2>6 DEF WriteOk, WriteFails
  <2> QED
    BY <1>7, <2>1, <2>2, <2>3, <2>4, <2>5, <2>6 DEF SaveToDisk
<1>8. CASE SpuriousWake
  BY <1>8 DEF SpuriousWake, OneSaver
<1>9. CASE Crash
  BY <1>9, RestType DEF Crash
<1>10. CASE Finish
  BY <1>10, <1>3, <1>4, <1>5, <1>6, <1>7 DEF Finish, CopyIn, CopyBack
<1> QED
  BY <1>2, <1>4, <1>7, <1>8, <1>9, <1>10 DEF Next, vars

(***************************************************************************)
(* A thread copies a partition if and only if it holds the mutex, so no    *)
(* two copies ever overlap.                                                *)
(***************************************************************************)
THEOREM CopiesAreExclusive == ASSUME OneSaver PROVE Spec => []CopiesExclude
<1>1. Init => Control
  BY ControlInitial
<1>2. Control /\ [Next]_vars => Control'
  BY ControlStep
<1>3. Control => CopiesExclude
  BY DEF Control
<1> QED
  BY <1>1, <1>2, <1>3, PTL DEF Spec

-----------------------------------------------------------------------------
(***************************************************************************)
(* Data: the inductive invariant.  A copy in progress has already          *)
(* transferred the sectors that are not in `left'; while it lasts, the     *)
(* dirty bits of the earlier stage stand in for those of the later one.    *)
(***************************************************************************)
InHand(p)  == pc["main"] = "copyIn" /\ id["main"] = p
OutHand(p) == \E t \in Threads : pc[t] = "copyOut" /\ id[t] = p

\* What the running copies have transferred so far.
CopyPart ==
    /\ pc["main"] \in {"copyIn", "copyBack"} =>
         \A s \in Sectors \ left["main"] : chan[id["main"]][s] = bak[id["main"]][s]
    /\ \A t \in Threads : pc[t] = "copyOut" =>
         \A s \in Sectors \ left[t] : tod[id[t]][s] = bak[id[t]][s]

\* fromChannel differs from backup only in the partition of the running request.
RequestPart ==
    \A p \in Parts : chan[p] # bak[p] =>
       id["main"] = p /\ pc["main"] \in {"recv", "backup", "copyIn", "restore", "copyBack"}

\* Dirty bits cover the differences between the stages.
DirtyPart ==
    \A p \in Parts, s \in Sectors :
      /\ chan[p][s] # bak[p][s] => s \in chanDirty[p]
      /\ bak[p][s] # tod[p][s] => s \in bakDirty[p] \/ (InHand(p) /\ s \in chanDirty[p])
      /\ tod[p][s] # disk[p][s] => s \in todDirty[p] \/ (OutHand(p) /\ s \in bakDirty[p])

\* Outside the copies each stage holds the content of one request.
CommitPart ==
    \A p \in Parts :
      /\ bak[p] \in committed[p] \/ InHand(p)
      /\ tod[p] \in committed[p] \/ OutHand(p)
      /\ disk[p] \in committed[p]

\* ramDisk_Write has taken effect and toDisk was not touched since.
WrittenPart == \A t \in Threads : pc[t] = "written" => disk[id[t]] = tod[id[t]]

Data == CopyPart /\ RequestPart /\ DirtyPart /\ CommitPart /\ WrittenPart

\* After initBuf the three stages of every partition agree.
LEMMA DataInitial == Init => Data
<1> SUFFICES ASSUME Init PROVE Data
  OBVIOUS
<1>1. pc["main"] = "idle" /\ \A t \in Threads : pc[t] \in {"idle", "wait"}
  BY RestType DEF Init, AtRest, Threads
<1> QED
  BY <1>1 DEF Init, Data, CopyPart, RequestPart, DirtyPart, CommitPart, WrittenPart

\* A step that moves threads without touching any buffer keeps Data, as long as
\* nobody enters or leaves a copy or a write and id does not move under one.
LEMMA DataStutter ==
    ASSUME Data, UNCHANGED <<chan, chanDirty, bak, bakDirty, tod, todDirty, disk, committed>>,
           \A t \in Threads : \/ UNCHANGED <<pc[t], id[t], left[t]>>
                              \/ pc'[t] \notin Copying \cup {"written"} /\ pc[t] \notin Copying,
           \/ pc'["main"] \in {"recv", "backup", "restore"} /\ pc["main"] = "recv" /\ id' = id
           \/ pc["main"] \in SaveSteps \cup {"idle", "notify"}
           \/ UNCHANGED <<pc["main"], id["main"]>>
    PROVE  Data'
<1> USE DEF Data, Threads, Copying
<1>1. CopyPart'
  BY DEF CopyPart
<1>2. RequestPart'
  BY DEF RequestPart, SaveSteps
<1>3. DirtyPart'
  BY DEF DirtyPart, InHand, OutHand
<1>4. CommitPart'
  BY DEF CommitPart, InHand, OutHand
<1>5. WrittenPart'
  BY DEF WrittenPart
<1> QED
  BY <1>1, <1>2, <1>3, <1>4, <1>5

\* One sector of one partition is overwritten.
LEMMA Overwrite ==
    ASSUME NEW f \in [Parts -> Contents], NEW p \in Parts, NEW s \in Sectors, NEW v \in Values
    PROVE  /\ [f EXCEPT ![p][s] = v] \in [Parts -> Contents]
           /\ [f EXCEPT ![p][s] = v][p][s] = v
           /\ \A x \in Sectors : x # s => [f EXCEPT ![p][s] = v][p][x] = f[p][x]
           /\ \A q \in Parts : q # p => [f EXCEPT ![p][s] = v][q] = f[q]
  BY DEF Contents

\* A copy that has transferred every sector made the two contents equal.
LEMMA CopyComplete ==
    ASSUME NEW a \in Contents, NEW b \in Contents, \A s \in Sectors : a[s] = b[s]
    PROVE  a = b
  BY DEF Contents

\* The data invariant is inductive, given the control invariant on both sides
\* of the step.
LEMMA DataStep == Control /\ Control' /\ Data /\ [Next]_vars => Data'
<1> SUFFICES ASSUME Control, Control', Data, [Next]_vars
             PROVE  Data'
  OBVIOUS
<1> USE DEF Goto, buffers, threads
<1>ty. TypeOK /\ TypeOK'
  BY DEF Control
<1>th. "main" \in Threads /\ "save" \in Threads
  BY DEF Threads
<1>m. pc["main"] \notin {"idle", "check"} => id["main"] \in Parts
  BY <1>ty, <1>th DEF TypeOK
<1>1. ASSUME NEW p \in Parts, Begin(p) PROVE Data'
  BY <1>1, <1>ty, DataStutter DEF Begin, TypeOK, Threads, Copying
<1>2. ASSUME NEW s \in Sectors, MarkDirty(s) PROVE Data'
  <2>1. /\ \A p \in Parts : chanDirty[p] \subseteq chanDirty'[p]
        /\ UNCHANGED <<chan, bak, bakDirty, tod, todDirty, disk, pc, id, left, committed>>
    BY <1>2, <1>ty DEF MarkDirty, TypeOK
  <2> QED
    BY <2>1 DEF Data, CopyPart, RequestPart, DirtyPart, CommitPart, WrittenPart, InHand, OutHand
<1>3. ASSUME NEW s \in Sectors, NEW v \in Values, WriteData(s, v) PROVE Data'
  <2>1. /\ pc["main"] = "recv" /\ s \in chanDirty[id["main"]]
        /\ UNCHANGED <<chanDirty, bak, bakDirty, tod, todDirty, disk, pc, id, left, committed>>
    BY <1>3 DEF WriteData
  <2>2. /\ \A x \in Sectors : x # s => chan'[id["main"]][x] = chan[id["main"]][x]
        /\ \A q \in Parts : q # id["main"] => chan'[q] = chan[q]
    <3>1. chan' = [chan EXCEPT ![id["main"]][s] = v]
      BY <1>3 DEF WriteData
    <3>2. chan \in [Parts -> Contents]
      BY <1>ty DEF TypeOK
    <3> QED
      BY <2>1, <1>m, <3>1, <3>2, Overwrite
  <2>3. CopyPart' /\ CommitPart' /\ WrittenPart'
    BY <2>1 DEF Data, CopyPart, CommitPart, WrittenPart, InHand, OutHand
  <2>4. RequestPart'
    BY <2>1, <2>2 DEF Data, RequestPart
  <2>5. DirtyPart'
    BY <2>1, <2>2 DEF Data, DirtyPart, InHand, OutHand
  <2> QED
    BY <2>3, <2>4, <2>5 DEF Data
<1>4. ASSUME NEW l \in {"backup", "restore"}, EndRequest(l) PROVE Data'
  BY <1>4, <1>ty, DataStutter DEF EndRequest, TypeOK, Threads, Copying
<1>5. ASSUME NEW t \in Threads, NEW a \in {"backup", "restore", "get"}, NEW l \in Copying,
             \/ t = "main" /\ a = "backup" /\ l = "copyIn"
             \/ t = "main" /\ a = "restore" /\ l = "copyBack"
             \/ a = "get" /\ l = "copyOut",
             Acquire(t, a, l)
      PROVE  Data'
  <2>1. /\ pc[t] = a /\ pc'[t] = l /\ left'[t] = Sectors
        /\ \A u \in Threads : u # t => pc'[u] = pc[u] /\ left'[u] = left[u]
        /\ UNCHANGED <<chan, chanDirty, bak, bakDirty, tod, todDirty, disk, id, committed>>
    BY <1>5, <1>ty DEF Acquire, TypeOK
  <2>2. CopyPart'
    BY <1>5, <1>th, <2>1 DEF Data, CopyPart, Copying, Threads
  <2>3. RequestPart'
    BY <1>5, <1>th, <2>1 DEF Data, RequestPart, Copying, Threads
  <2>4. DirtyPart'
    BY <1>5, <1>th, <2>1 DEF Data, DirtyPart, InHand, OutHand, Threads
  <2>5. CommitPart'
    BY <1>5, <1>th, <2>1 DEF Data, CommitPart, InHand, OutHand, Threads
  <2>6. WrittenPart'
    BY <1>5, <1>th, <2>1 DEF Data, WrittenPart, Copying, Threads
  <2> QED
    BY <2>2, <2>3, <2>4, <2>5, <2>6 DEF Data
<1>6. ASSUME NEW s \in Sectors, CopyIn(s) PROVE Data'
  <2> DEFINE p == id["main"]
  <2>1. /\ pc["main"] = "copyIn" /\ p \in Parts
        /\ UNCHANGED <<chan, chanDirty, bakDirty, tod, todDirty, disk, pc, id, committed>>
        /\ left'["main"] = left["main"] \ {s} /\ left'["save"] = left["save"]
    BY <1>6, <1>m, <1>ty DEF CopyIn, TypeOK, Threads
  <2>2. pc["save"] # "copyOut"
    BY <2>1 DEF Control, CopiesExclude, Copying, Threads
  <2>3. chan[p][s] \in Values
    BY <1>ty, <2>1 DEF TypeOK, Contents
  <2>4. /\ bak'[p][s] = chan[p][s]
        /\ \A x \in Sectors : x # s => bak'[p][x] = bak[p][x]
        /\ \A q \in Parts : q # p => bak'[q] = bak[q]
    <3>1. bak' = [bak EXCEPT ![p][s] = chan[p][s]]
      BY <1>6 DEF CopyIn
    <3>2. bak \in [Parts -> Contents]
      BY <1>ty DEF TypeOK
    <3> QED
      BY <2>1, <2>3, <3>1, <3>2, Overwrite
  <2>5. CopyPart'
    BY <1>ty, <2>1, <2>2, <2>4 DEF Data, CopyPart, Threads, TypeOK
  <2>6. RequestPart'
    BY <2>1, <2>4 DEF Data, RequestPart
  <2>7. DirtyPart'
    BY <2>1, <2>2, <2>4 DEF Data, DirtyPart, InHand, OutHand, Threads
  <2>8. CommitPart' /\ WrittenPart'
    BY <2>1, <2>4 DEF Data, CommitPart, WrittenPart, InHand, OutHand
  <2> QED
    BY <2>5, <2>6, <2>7, <2>8 DEF Data
<1>7. CASE MergeIn
  <2> DEFINE p == id["main"]
  <2>1. /\ pc["main"] = "copyIn" /\ p \in Parts /\ left["main"] = {}
        /\ UNCHANGED <<chan, chanDirty, bak, tod, todDirty, disk, id, left>>
        /\ pc'["main"] = "notify" /\ pc'["save"] = pc["save"]
    BY <1>7, <1>m, <1>ty DEF MergeIn, TypeOK, Threads
  <2>2. /\ bakDirty'[p] = bakDirty[p] \cup chanDirty[p]
        /\ \A q \in Parts : q # p => bakDirty'[q] = bakDirty[q]
        /\ committed'[p] = committed[p] \cup {chan[p]}
        /\ \A q \in Parts : q # p => committed'[q] = committed[q]
    BY <1>7, <1>ty, <2>1 DEF MergeIn, TypeOK
  <2>3. pc["save"] # "copyOut"
    BY <2>1 DEF Control, CopiesExclude, Copying, Threads
  <2>4. chan[p] = bak[p]
    BY <1>ty, <2>1, CopyComplete DEF Data, CopyPart, TypeOK
  <2>5. CopyPart' /\ WrittenPart'
    BY <2>1, <2>3 DEF Data, CopyPart, WrittenPart, Threads
  <2>6. RequestPart'
    BY <2>1, <2>4 DEF Data, RequestPart
  <2>7. DirtyPart'
    BY <2>1, <2>2, <2>3 DEF Data, DirtyPart, InHand, OutHand, Threads
  <2>8. CommitPart'
    BY <2>1, <2>2, <2>4, <2>3 DEF Data, CommitPart, InHand, OutHand, Threads
  <2> QED
    BY <2>5, <2>6, <2>7, <2>8 DEF Data
<1>8. CASE Notify
  <2>1. /\ pc["main"] = "notify" /\ pc'["main"] \in {"idle", "check"}
        /\ \/ pc'["save"] = pc["save"] /\ id'["save"] = id["save"]
           \/ pc["save"] = "wait" /\ pc'["save"] = "check"
    BY <1>8, <1>ty DEF Notify, TypeOK, Threads
  <2>2. UNCHANGED <<chan, chanDirty, bak, bakDirty, tod, todDirty, disk, committed, left>>
    BY <1>8 DEF Notify
  <2> QED
    BY <2>1, <2>2, DataStutter DEF Threads, Copying
<1>9. ASSUME NEW s \in Sectors, CopyBack(s) PROVE Data'
  <2> DEFINE p == id["main"]
  <2>1. /\ pc["main"] = "copyBack" /\ p \in Parts
        /\ UNCHANGED <<chanDirty, bak, bakDirty, tod, todDirty, disk, pc, id, committed>>
        /\ left'["main"] = left["main"] \ {s} /\ left'["save"] = left["save"]
    BY <1>9, <1>m, <1>ty DEF CopyBack, TypeOK, Threads
  <2>2. bak[p][s] \in Values
    BY <1>ty, <2>1 DEF TypeOK, Contents
  <2>3. /\ chan'[p][s] = bak[p][s]
        /\ \A x \in Sectors : x # s => chan'[p][x] = chan[p][x]
        /\ \A q \in Parts : q # p => chan'[q] = chan[q]
    <3>1. chan' = [chan EXCEPT ![p][s] = bak[p][s]]
      BY <1>9 DEF CopyBack
    <3>2. chan \in [Parts -> Contents]
      BY <1>ty DEF TypeOK
    <3> QED
      BY <2>1, <2>2, <3>1, <3>2, Overwrite
  <2>4. pc["save"] # "copyOut"
    BY <2>1 DEF Control, CopiesExclude, Copying, Threads
  <2>5. CopyPart'
    BY <1>ty, <2>1, <2>3, <2>4 DEF Data, CopyPart, Threads, TypeOK
  <2>6. RequestPart'
    BY <2>1, <2>3 DEF Data, RequestPart
  <2>7. DirtyPart'
    BY <2>1, <2>3 DEF Data, DirtyPart, InHand, OutHand
  <2>8. CommitPart' /\ WrittenPart'
    BY <2>1 DEF Data, CommitPart, WrittenPart, InHand, OutHand
  <2> QED
    BY <2>5, <2>6, <2>7, <2>8 DEF Data
<1>10. CASE MergeBack
  <2> DEFINE p == id["main"]
  <2>1. /\ pc["main"] = "copyBack" /\ p \in Parts /\ left["main"] = {}
        /\ UNCHANGED <<chan, bak, bakDirty, tod, todDirty, disk, left, committed>>
        /\ pc'["main"] = "idle" /\ pc'["save"] = pc["save"] /\ id'["save"] = id["save"]
    BY <1>10, <1>m, <1>ty DEF MergeBack, TypeOK, Threads
  <2>2. \A q \in Parts : q # p => chanDirty'[q] = chanDirty[q]
    BY <1>10, <1>ty, <2>1 DEF MergeBack, TypeOK
  <2>3. chan[p] = bak[p]
    BY <1>ty, <2>1, CopyComplete DEF Data, CopyPart, TypeOK
  <2>4. pc["save"] # "copyOut"
    BY <2>1 DEF Control, CopiesExclude, Copying, Threads
  <2>5. CopyPart' /\ WrittenPart'
    BY <2>1, <2>4 DEF Data, CopyPart, WrittenPart, Threads
  <2>6. RequestPart'
    BY <2>1, <2>3 DEF Data, RequestPart
  <2>7. DirtyPart'
    BY <2>1, <2>2, <2>3, <2>4 DEF Data, DirtyPart, InHand, OutHand, Threads
  <2>8. CommitPart'
    BY <2>1, <2>4 DEF Data, CommitPart, InHand, OutHand, Threads
  <2> QED
    BY <2>5, <2>6, <2>7, <2>8 DEF Data
<1>11. ASSUME NEW t \in Threads, Check(t) PROVE Data'
  <2>1. /\ pc[t] = "check" /\ pc'[t] \in {"check", "idle", "wait", "get"}
        /\ \A u \in Threads : u # t => pc'[u] = pc[u] /\ id'[u] = id[u]
        /\ UNCHANGED <<chan, chanDirty, bak, bakDirty, tod, todDirty, disk, committed, left>>
    BY <1>11, <1>ty DEF Check, TypeOK
  <2> QED
    BY <2>1, <1>th, DataStutter DEF Threads, Copying, SaveSteps
<1>12. ASSUME NEW t \in Threads, NEW s \in Sectors, CopyOut(t, s) PROVE Data'
  <2> DEFINE p == id[t]
  <2>1. /\ pc[t] = "copyOut" /\ p \in Parts
        /\ UNCHANGED <<chan, chanDirty, bak, bakDirty, todDirty, disk, pc, id, committed>>
        /\ left'[t] = left[t] \ {s}
        /\ \A u \in Threads : u # t => left'[u] = left[u]
    BY <1>12, <1>ty DEF CopyOut, TypeOK
  <2>2. /\ pc["main"] \notin {"copyIn", "copyBack"}
        /\ \A u \in Threads : u # t => pc[u] \notin {"copyOut", "written"}
    BY <2>1, ModesAssumption DEF Control, CopiesExclude, SaverPart, Copying, Threads, SaveSteps
  <2>3. bak[p][s] \in Values
    BY <1>ty, <2>1 DEF TypeOK, Contents
  <2>4. /\ tod'[p][s] = bak[p][s]
        /\ \A x \in Sectors : x # s => tod'[p][x] = tod[p][x]
        /\ \A q \in Parts : q # p => tod'[q] = tod[q]
    <3>1. tod' = [tod EXCEPT ![p][s] = bak[p][s]]
      BY <1>12 DEF CopyOut
    <3>2. tod \in [Parts -> Contents]
      BY <1>ty DEF TypeOK
    <3> QED
      BY <2>1, <2>3, <3>1, <3>2, Overwrite
  <2>5. CopyPart'
    BY <1>ty, <2>1, <2>2, <2>4 DEF Data, CopyPart, TypeOK
  <2>6. RequestPart'
    BY <2>1 DEF Data, RequestPart
  <2>7. DirtyPart'
    BY <2>1, <2>2, <2>4 DEF Data, DirtyPart, InHand, OutHand
  <2>8. CommitPart'
    BY <2>1, <2>4 DEF Data, CommitPart, InHand, OutHand
  <2>9. WrittenPart'
    BY <2>1, <2>2 DEF Data, WrittenPart
  <2> QED
    BY <2>5, <2>6, <2>7, <2>8, <2>9 DEF Data
<1>13. ASSUME NEW t \in Threads, MergeOut(t) PROVE Data'
  <2> DEFINE p == id[t]
  <2>1. /\ pc[t] = "copyOut" /\ p \in Parts /\ left[t] = {} /\ pc'[t] = "write"
        /\ UNCHANGED <<chan, chanDirty, bak, tod, disk, id, left, committed>>
        /\ \A u \in Threads : u # t => pc'[u] = pc[u]
    BY <1>13, <1>ty DEF MergeOut, TypeOK
  <2>2. /\ bakDirty'[p] = {} /\ todDirty'[p] = todDirty[p] \cup bakDirty[p]
        /\ \A q \in Parts : q # p => bakDirty'[q] = bakDirty[q] /\ todDirty'[q] = todDirty[q]
    BY <1>13, <1>ty, <2>1 DEF MergeOut, TypeOK
  <2>3. /\ pc["main"] \notin {"copyIn", "copyBack"}
        /\ \A u \in Threads : u # t => pc[u] \notin {"copyOut", "written"}
    BY <2>1, ModesAssumption DEF Control, CopiesExclude, SaverPart, Copying, Threads, SaveSteps
  <2>4. tod[p] = bak[p]
    BY <1>ty, <2>1, CopyComplete DEF Data, CopyPart, TypeOK
  <2>5. pc'["main"] = pc["main"] \/ (pc["main"] = "copyOut" /\ pc'["main"] = "write")
    BY <2>1, <1>th
  <2>6. CopyPart'
    BY <2>1, <2>3, <2>5 DEF Data, CopyPart
  <2>7. RequestPart'
    BY <2>1, <2>5 DEF Data, RequestPart
  <2>8. DirtyPart'
    BY <2>1, <2>2, <2>3, <2>4, <2>5 DEF Data, DirtyPart, InHand, OutHand
  <2>9. CommitPart'
    BY <2>1, <2>3, <2>4, <2>5 DEF Data, CommitPart, InHand, OutHand
  <2>10. WrittenPart'
    BY <2>1, <2>3 DEF Data, WrittenPart
  <2> QED
    BY <2>6, <2>7, <2>8, <2>9, <2>10 DEF Data
<1>14. ASSUME NEW t \in Threads, TakeEffect(t) PROVE Data'
  <2> DEFINE p == id[t]
  <2>1. /\ pc[t] = "write" /\ p \in Parts /\ pc'[t] = "written"
        /\ UNCHANGED <<chan, chanDirty, bak, bakDirty, tod, todDirty, id, left, committed>>
        /\ \A u \in Threads : u # t => pc'[u] = pc[u]
        /\ disk'[p] = tod[p]
        /\ \A q \in Parts : q # p => disk'[q] = disk[q]
    BY <1>14, <1>ty DEF TakeEffect, TypeOK
  <2>2. \A u \in Threads : u # t => pc[u] \notin {"copyOut", "written"}
    BY <2>1, ModesAssumption DEF Control, SaverPart, Threads, SaveSteps
  <2>3. pc'["main"] = pc["main"] \/ (pc["main"] = "write" /\ pc'["main"] = "written")
    BY <2>1, <1>th
  <2>4. CopyPart'
    BY <2>1, <2>2, <2>3 DEF Data, CopyPart
  <2>5. RequestPart'
    BY <2>1, <2>3 DEF Data, RequestPart
  <2>6. DirtyPart'
    BY <2>1, <2>2, <2>3 DEF Data, DirtyPart, InHand, OutHand
  <2>7. CommitPart'
    BY <2>1, <2>2, <2>3 DEF Data, CommitPart, InHand, OutHand
  <2>8. WrittenPart'
    BY <2>1, <2>2 DEF Data, WrittenPart
  <2> QED
    BY <2>4, <2>5, <2>6, <2>7, <2>8 DEF Data
<1>15. ASSUME NEW t \in Threads, WriteOk(t) \/ WriteFails(t) PROVE Data'
  <2> DEFINE p == id[t]
  <2>1. /\ pc[t] \in {"write", "written"} /\ p \in Parts /\ pc'[t] = "check"
        /\ UNCHANGED <<chan, chanDirty, bak, bakDirty, tod, disk, left, committed>>
        /\ \A u \in Threads : u # t => pc'[u] = pc[u] /\ id'[u] = id[u]
        /\ \A q \in Parts : q # p => todDirty'[q] = todDirty[q]
        /\ todDirty'[p] = todDirty[p] \/ pc[t] = "written"
    BY <1>15, <1>ty DEF WriteOk, WriteFails, TypeOK
  <2>2. \A u \in Threads : u # t => pc[u] \notin {"copyOut", "written"}
    BY <2>1, ModesAssumption DEF Control, SaverPart, Threads, SaveSteps
  <2>3. \/ pc'["main"] = pc["main"] /\ id'["main"] = id["main"]
        \/ pc["main"] \in {"write", "written"} /\ pc'["main"] = "check"
    BY <2>1, <1>th
  <2>4. CopyPart'
    BY <2>1, <2>2, <2>3 DEF Data, CopyPart
  <2>5. RequestPart'
    BY <2>1, <2>3 DEF Data, RequestPart
  <2>6. DirtyPart'
    <3>1. pc[t] = "written" => disk[p] = tod[p]
      BY DEF Data, WrittenPart
    <3> QED
      BY <2>1, <2>2, <2>3, <3>1 DEF Data, DirtyPart, InHand, OutHand
  <2>7. CommitPart'
    BY <2>1, <2>2, <2>3 DEF Data, CommitPart, InHand, OutHand
  <2>8. WrittenPart'
    BY <2>1, <2>2 DEF Data, WrittenPart
  <2> QED
    BY <2>4, <2>5, <2>6, <2>7, <2>8 DEF Data
<1>16. CASE SpuriousWake
  <2>1. /\ pc["save"] = "wait" /\ pc'["save"] = "check"
        /\ pc'["main"] = pc["main"] /\ id'["main"] = id["main"]
        /\ UNCHANGED <<chan, chanDirty, bak, bakDirty, tod, todDirty, disk, committed, left>>
    BY <1>16, <1>ty DEF SpuriousWake, TypeOK, Threads
  <2> QED
    BY <2>1, DataStutter DEF Threads, Copying
<1>17. CASE Crash
  <2>1. pc'["main"] = "idle" /\ \A t \in Threads : pc'[t] \in {"idle", "wait"}
    BY <1>17, RestType DEF Crash, AtRest, Threads
  <2>2. /\ chan' = disk /\ bak' = disk /\ tod' = disk /\ disk' = disk /\ committed' = committed
    BY <1>17 DEF Crash
  <2>3. \A p \in Parts : disk[p] \in committed[p]
    BY DEF Data, CommitPart
  <2> QED
    BY <2>1, <2>2, <2>3 DEF Data, CopyPart, RequestPart, DirtyPart, CommitPart, WrittenPart
<1>18. CASE UNCHANGED vars
  BY <1>18 DEF vars, Data, CopyPart, RequestPart, DirtyPart, CommitPart, WrittenPart,
     InHand, OutHand
<1>19. CASE Receive
  BY <1>19, <1>1, <1>2, <1>3, <1>4 DEF Receive
<1>20. ASSUME NEW t \in Threads, SaveToDisk(t) PROVE Data'
  BY <1>20, <1>5, <1>11, <1>12, <1>13, <1>14, <1>15 DEF SaveToDisk, Copying
<1>21. CASE Finish
  BY <1>21, <1>th, <1>5, <1>6, <1>7, <1>8, <1>9, <1>10, <1>20 DEF Finish, Copying
<1> QED
  BY <1>th, <1>16, <1>17, <1>18, <1>19, <1>20, <1>21 DEF Next

\* Control and Data together are an invariant of the specification.
LEMMA Invariance == ASSUME OneSaver PROVE Spec => [](Control /\ Data)
<1>1. Init => Control /\ Data
  BY ControlInitial, DataInitial
<1>2. Control /\ Data /\ [Next]_vars => Control' /\ Data'
  BY ControlStep, DataStep
<1> QED
  BY <1>1, <1>2, PTL DEF Spec

(***************************************************************************)
(* The disk only ever holds contents that were committed as a whole.       *)
(***************************************************************************)
THEOREM DiskHoldsCommits == ASSUME OneSaver PROVE Spec => []DiskIsACommit
<1>1. Control /\ Data => DiskIsACommit
  BY DEF Data, CommitPart, DiskIsACommit
<1> QED
  BY <1>1, Invariance, PTL

(***************************************************************************)
(* Every difference between two stages is covered by a dirty bit.          *)
(***************************************************************************)
THEOREM NothingIsForgotten == ASSUME OneSaver PROVE Spec => []NothingForgotten
<1>1. Control /\ Data => NothingForgotten
  BY DEF Data, DirtyPart, NothingForgotten, Differ, InHand, OutHand, Threads
<1> QED
  BY <1>1, Invariance, PTL

(***************************************************************************)
(* Between requests fromChannel equals backup in every partition.          *)
(***************************************************************************)
THEOREM FailuresLeaveNoTrace == ASSUME OneSaver PROVE Spec => []FailedRequestLeavesNoTrace
<1>1. Control /\ Data => FailedRequestLeavesNoTrace
  BY DEF Control, TypeOK, Data, RequestPart, FailedRequestLeavesNoTrace
<1> QED
  BY <1>1, Invariance, PTL

-----------------------------------------------------------------------------
(***************************************************************************)
(* Calibration mode: what saveToDisk in the main thread has still to do.   *)
(* A partition is settled if the disk has its backup, or its own snapshot  *)
(* is in toDisk and marked as not written.  One that is not settled is     *)
(* dirty and lies ahead of the loop.                                       *)
(***************************************************************************)
Settled(p) == disk[p] = bak[p] \/ (todDirty[p] # {} /\ tod[p] = bak[p])

\* Where the main thread will find the partition if it is not settled.
Ahead(p) ==
    \/ InHand(p) /\ chanDirty[p] # {}
    \/ pc["main"] = "notify" /\ bakDirty[p] # {}
    \/ pc["main"] \in SaveSteps /\ p >= id["main"] /\ bakDirty[p] # {}

CaliPart ==
    caliMode =>
      /\ \A p \in Parts : Settled(p) \/ Ahead(p)
      /\ pc["main"] \in {"get", "copyOut"} => bakDirty[id["main"]] # {}
      /\ pc["main"] \in {"write", "written"} =>
           tod[id["main"]] = bak[id["main"]] /\ todDirty[id["main"]] # {}

\* initBuf settles every partition.
LEMMA CaliInitial == Init => CaliPart
<1> SUFFICES ASSUME Init PROVE CaliPart
  OBVIOUS
<1>1. pc["main"] = "idle"
  BY RestType DEF Init
<1> QED
  BY <1>1 DEF Init, CaliPart, Settled

\* A step that leaves backup, toDisk and the disk alone, and after which the main
\* thread still has ahead what it had.
LEMMA CaliSame ==
    ASSUME CaliPart, UNCHANGED <<caliMode, bak, bakDirty, tod, todDirty, disk>>,
           pc'["main"] \notin {"get", "copyOut", "write", "written"},
           \A p \in Parts : Ahead(p) => Ahead(p)'
    PROVE  CaliPart'
BY DEF CaliPart, Settled

\* Calibration mode keeps its promise through every step.
LEMMA CaliStep ==
    ASSUME OneSaver, Control, Control', Data, CaliPart, [Next]_vars
    PROVE  CaliPart'
<1>mo. caliMode' = caliMode
  BY ModeFixed
<1> SUFFICES ASSUME caliMode PROVE CaliPart'
  BY <1>mo DEF CaliPart
<1> USE DEF Goto, buffers, threads, SaveSteps
<1> DEFINE i == id["main"]
<1>ty. TypeOK /\ TypeOK'
  BY DEF Control
<1>th. "main" \in Threads /\ "save" \in Threads
  BY DEF Threads
<1>m. pc["main"] \notin {"idle", "check"} => i \in Parts
  BY <1>ty, <1>th DEF TypeOK
<1>s. pc["save"] = "wait" /\ caliMode \notin Spurious
  BY ModesAssumption DEF Control, SaverPart, OneSaver
<1>1. CASE Receive
  <2>1. /\ pc["main"] \in {"idle", "recv"} /\ pc'["main"] \in {"recv", "backup", "restore"}
        /\ UNCHANGED <<bak, bakDirty, tod, todDirty, disk>>
    BY <1>1, <1>ty, <1>th DEF Receive, Begin, MarkDirty, WriteData, EndRequest, TypeOK
  <2> QED
    BY <2>1, CaliSame, <1>mo DEF Ahead, InHand
<1>2. CASE Acquire("main", "backup", "copyIn") \/ Acquire("main", "restore", "copyBack")
  <2>1. /\ pc["main"] \in {"backup", "restore"} /\ pc'["main"] \in {"copyIn", "copyBack"}
        /\ UNCHANGED <<bak, bakDirty, tod, todDirty, disk>>
    BY <1>2, <1>ty, <1>th DEF Acquire, TypeOK
  <2> QED
    BY <2>1, CaliSame, <1>mo DEF Ahead, InHand
<1>3. ASSUME NEW s \in Sectors, CopyIn(s) PROVE CaliPart'
  <2>1. /\ pc["main"] = "copyIn" /\ i \in Parts
        /\ UNCHANGED <<chanDirty, bakDirty, tod, todDirty, disk, pc, id>>
        /\ bak' = [bak EXCEPT ![i][s] = chan[i][s]]
    BY <1>3, <1>m DEF CopyIn
  <2>2. bak \in [Parts -> Contents] /\ chan[i] \in Contents /\ chan[i][s] \in Values
    BY <1>ty, <2>1 DEF TypeOK, Contents
  <2>3. \A q \in Parts : q # i => bak'[q] = bak[q]
    BY <2>1, <2>2, Overwrite
  <2>4. chanDirty[i] = {} => bak'[i] = bak[i]
    <3>1. chanDirty[i] = {} => chan[i][s] = bak[i][s]
      BY <2>1 DEF Data, DirtyPart
    <3>2. bak'[i] = [bak[i] EXCEPT ![s] = chan[i][s]]
      BY <2>1, <2>2
    <3> QED
      BY <2>1, <2>2, <3>1, <3>2 DEF Contents
  <2>5. ASSUME NEW p \in Parts PROVE Settled(p)' \/ Ahead(p)'
    <3>1. CASE p = i /\ chanDirty[i] # {}
      BY <2>1, <3>1 DEF Ahead, InHand
    <3>2. CASE ~(p = i /\ chanDirty[i] # {})
      <4>1. Settled(p)
        BY <2>1, <3>2 DEF CaliPart, Ahead, InHand
      <4>2. bak'[p] = bak[p]
        BY <2>3, <2>4, <3>2
      <4> QED
        BY <2>1, <4>1, <4>2 DEF Settled
    <3> QED
      BY <3>1, <3>2
  <2> QED
    BY <2>1, <2>5 DEF CaliPart
<1>4. CASE MergeIn
  <2>1. /\ pc["main"] = "copyIn" /\ i \in Parts /\ pc'["main"] = "notify"
        /\ UNCHANGED <<bak, tod, todDirty, disk>>
        /\ bakDirty'[i] = bakDirty[i] \cup chanDirty[i]
    BY <1>4, <1>m, <1>ty, <1>th DEF MergeIn, TypeOK
  <2>2. ASSUME NEW p \in Parts PROVE Settled(p)' \/ Ahead(p)'
    <3>1. Settled(p) \/ (p = i /\ chanDirty[i] # {})
      BY <2>1 DEF CaliPart, Ahead, InHand
    <3> QED
      BY <2>1, <3>1 DEF Settled, Ahead
  <2> QED
    BY <2>1, <2>2 DEF CaliPart
<1>5. CASE Notify
  <2>1. /\ pc["main"] = "notify" /\ pc'["main"] = "check" /\ id'["main"] = 1
        /\ UNCHANGED <<bak, bakDirty, tod, todDirty, disk>>
    BY <1>5, <1>ty, <1>th DEF Notify, TypeOK
  <2>2. \A p \in Parts : p >= 1
    BY PartNumAssumption DEF Parts
  <2> QED
    BY <2>1, <2>2, CaliSame, <1>mo DEF Ahead, InHand
<1>6. ASSUME NEW s \in Sectors, CopyBack(s) PROVE CaliPart'
  <2>1. pc["main"] = "copyBack" /\ UNCHANGED <<bak, bakDirty, tod, todDirty, disk, pc, id>>
    BY <1>6 DEF CopyBack
  <2> QED
    BY <2>1, CaliSame, <1>mo DEF Ahead, InHand
<1>7. CASE MergeBack
  <2>1. /\ pc["main"] = "copyBack" /\ pc'["main"] = "idle"
        /\ UNCHANGED <<bak, bakDirty, tod, todDirty, disk>>
    BY <1>7, <1>ty, <1>th DEF MergeBack, TypeOK
  <2> QED
    BY <2>1, CaliSame, <1>mo DEF Ahead, InHand
<1>8. CASE Check("main")
  <2>1. pc["main"] = "check" /\ UNCHANGED <<bak, bakDirty, tod, todDirty, disk>>
    BY <1>8 DEF Check
  <2>2. i \in 1 .. PartNum + 1 /\ PartNum \in Nat
    BY <1>ty, <1>th, PartNumAssumption DEF TypeOK
  <2>3. CASE i > PartNum
    <3>1. pc'["main"] = "idle"
      BY <1>8, <1>ty, <1>th, <2>2, <2>3 DEF Check, TypeOK, Parts
    <3>2. \A p \in Parts : ~(p >= i)
      BY <2>2, <2>3 DEF Parts
    <3> QED
      BY <2>1, <3>1, <3>2, CaliSame, <1>mo DEF Ahead, InHand
  <2>4. CASE i \in Parts /\ bakDirty[i] = {}
    <3>1. pc'["main"] = "check" /\ id'["main"] = i + 1
      BY <1>8, <1>ty, <1>th, <2>2, <2>4 DEF Check, TypeOK, Parts
    <3>2. \A p \in Parts : p >= i /\ p # i => p >= i + 1
      BY <2>2 DEF Parts
    <3> QED
      BY <2>1, <2>4, <3>1, <3>2, CaliSame, <1>mo DEF Ahead, InHand
  <2>5. CASE i \in Parts /\ bakDirty[i] # {}
    <3>1. pc'["main"] = "get" /\ id'["main"] = i
      BY <1>8, <1>ty, <1>th, <2>2, <2>5 DEF Check, TypeOK, Parts
    <3> QED
      BY <2>1, <2>5, <3>1 DEF CaliPart, Settled, Ahead, InHand
  <2> QED
    BY <2>2, <2>3, <2>4, <2>5 DEF Parts
<1>9. CASE Acquire("main", "get", "copyOut")
  <2>1. /\ pc["main"] = "get" /\ pc'["main"] = "copyOut"
        /\ UNCHANGED <<bak, bakDirty, tod, todDirty, disk, id>>
    BY <1>9, <1>ty, <1>th DEF Acquire, TypeOK
  <2> QED
    BY <2>1 DEF CaliPart, Settled, Ahead, InHand
<1>10. ASSUME NEW s \in Sectors, CopyOut("main", s) PROVE CaliPart'
  <2>1. /\ pc["main"] = "copyOut" /\ i \in Parts
        /\ UNCHANGED <<bak, bakDirty, todDirty, disk, pc, id>>
        /\ tod' = [tod EXCEPT ![i][s] = bak[i][s]]
    BY <1>10, <1>m DEF CopyOut
  <2>2. tod \in [Parts -> Contents] /\ bak[i] \in Contents /\ bak[i][s] \in Values
    BY <1>ty, <2>1 DEF TypeOK, Contents
  <2>3. \A q \in Parts : q # i => tod'[q] = tod[q]
    BY <2>1, <2>2, Overwrite
  <2>4. i >= i
    BY <2>1, PartNumAssumption DEF Parts
  <2>5. ASSUME NEW p \in Parts PROVE Settled(p)' \/ Ahead(p)'
    <3>1. CASE p = i
      BY <2>1, <2>4, <3>1 DEF CaliPart, Ahead
    <3>2. CASE p # i
      BY <2>1, <2>3, <3>2 DEF CaliPart, Settled, Ahead, InHand
    <3> QED
      BY <3>1, <3>2
  <2> QED
    BY <2>1, <2>5 DEF CaliPart
<1>11. CASE MergeOut("main")
  <2>1. /\ pc["main"] = "copyOut" /\ i \in Parts /\ left["main"] = {} /\ pc'["main"] = "write"
        /\ UNCHANGED <<bak, tod, disk, id>>
    BY <1>11, <1>m, <1>ty, <1>th DEF MergeOut, TypeOK
  <2>2. /\ todDirty'[i] = todDirty[i] \cup bakDirty[i]
        /\ \A q \in Parts : q # i => todDirty'[q] = todDirty[q]
    BY <1>11, <1>ty, <2>1 DEF MergeOut, TypeOK
  <2>3. tod[i] = bak[i] /\ bakDirty[i] # {}
    <3>1. tod[i] \in Contents /\ bak[i] \in Contents
      BY <1>ty, <2>1 DEF TypeOK
    <3>2. \A s \in Sectors : tod[i][s] = bak[i][s]
      BY <1>th, <2>1 DEF Data, CopyPart
    <3> QED
      BY <2>1, <3>1, <3>2, CopyComplete DEF CaliPart
  <2>4. \A q \in Parts : q # i => bakDirty'[q] = bakDirty[q]
    BY <1>11, <1>ty, <2>1 DEF MergeOut, TypeOK
  <2>5. ASSUME NEW p \in Parts PROVE Settled(p)' \/ Ahead(p)'
    <3>1. CASE p = i
      BY <2>1, <2>2, <2>3, <3>1 DEF Settled
    <3>2. CASE p # i
      BY <2>1, <2>2, <2>4, <3>2 DEF CaliPart, Settled, Ahead, InHand
    <3> QED
      BY <3>1, <3>2
  <2> QED
    BY <2>1, <2>2, <2>3, <2>5 DEF CaliPart
<1>12. CASE TakeEffect("main")
  <2>1. /\ pc["main"] = "write" /\ i \in Parts /\ pc'["main"] = "written"
        /\ UNCHANGED <<bak, bakDirty, tod, todDirty, id>>
        /\ \A q \in Parts : q # i => disk'[q] = disk[q]
    BY <1>12, <1>m, <1>ty, <1>th DEF TakeEffect, TypeOK
  <2>2. ASSUME NEW p \in Parts PROVE Settled(p)' \/ Ahead(p)'
    <3>1. CASE p = i
      BY <2>1, <3>1 DEF CaliPart, Settled
    <3>2. CASE p # i
      BY <2>1, <3>2 DEF CaliPart, Settled, Ahead, InHand
    <3> QED
      BY <3>1, <3>2
  <2> QED
    BY <2>1, <2>2 DEF CaliPart
<1>13. CASE WriteOk("main") \/ WriteFails("main")
  <2>1. /\ pc["main"] \in {"write", "written"} /\ i \in Parts /\ pc'["main"] = "check"
        /\ id'["main"] = i + 1 /\ UNCHANGED <<bak, bakDirty, tod, disk>>
        /\ \A q \in Parts : q # i => todDirty'[q] = todDirty[q]
        /\ todDirty'[i] = todDirty[i] \/ pc["main"] = "written"
    BY <1>13, <1>m, <1>ty, <1>th DEF WriteOk, WriteFails, TypeOK
  <2>2. pc["main"] = "written" => disk[i] = tod[i]
    BY <1>th DEF Data, WrittenPart
  <2>3. \A p \in Parts : p >= i /\ p # i => p >= i + 1
    BY <2>1, PartNumAssumption DEF Parts
  <2>4. ASSUME NEW p \in Parts PROVE Settled(p)' \/ Ahead(p)'
    <3>1. CASE p = i
      BY <2>1, <2>2, <3>1 DEF CaliPart, Settled
    <3>2. CASE p # i
      BY <2>1, <2>3, <3>2 DEF CaliPart, Settled, Ahead, InHand
    <3> QED
      BY <3>1, <3>2
  <2> QED
    BY <2>1, <2>4 DEF CaliPart
<1>14. ASSUME SaveToDisk("save") \/ SpuriousWake PROVE FALSE
  BY <1>14, <1>s DEF SaveToDisk, Check, Acquire, CopyOut, MergeOut, TakeEffect, WriteOk,
                     WriteFails, SpuriousWake
<1>15. CASE Crash
  <2>1. pc'["main"] = "idle" /\ bak' = disk /\ disk' = disk
    BY <1>15, RestType DEF Crash
  <2> QED
    BY <2>1 DEF CaliPart, Settled
<1>16. CASE UNCHANGED vars
  BY <1>16 DEF vars, CaliPart, Settled, Ahead, InHand
<1>17. CASE SaveToDisk("main")
  BY <1>17, <1>8, <1>9, <1>10, <1>11, <1>12, <1>13 DEF SaveToDisk
<1>18. CASE Finish
  BY <1>18, <1>2, <1>3, <1>4, <1>5, <1>6, <1>7, <1>17 DEF Finish
<1> QED
  BY <1>1, <1>14, <1>15, <1>16, <1>18 DEF Next

(***************************************************************************)
(* In calibration mode the response goes out when the disk has the whole   *)
(* of every request, or a partition's own snapshot could not be written.   *)
(***************************************************************************)
THEOREM CaliAckDurable == ASSUME OneSaver PROVE Spec => []CaliAckIsDurable
<1>1. Control /\ CaliPart => CaliAckIsDurable
  <2> SUFFICES ASSUME Control, CaliPart, caliMode, pc["main"] = "idle", NEW p \in Parts
               PROVE  disk[p] = bak[p] \/ (WriteFailed(p) /\ tod[p] = bak[p])
    BY DEF CaliAckIsDurable
  <2>1. Settled(p)
    BY DEF CaliPart, Ahead, InHand, SaveSteps
  <2>2. \A t \in Threads : pc[t] \notin {"write", "written"}
    BY DEF Control, SaverPart, Threads
  <2> QED
    BY <2>1, <2>2 DEF Settled, WriteFailed
<1>2. Init => Control /\ Data /\ CaliPart
  BY ControlInitial, DataInitial, CaliInitial
<1>3. Control /\ Data /\ CaliPart /\ [Next]_vars => Control' /\ Data' /\ CaliPart'
  BY ControlStep, DataStep, CaliStep
<1> QED
  BY <1>1, <1>2, <1>3, PTL DEF Spec

-----------------------------------------------------------------------------
(* _markDirtyInfo                                                          *)

MarkInv == MarkTypeOK /\ Progress

\* The bits of a word.
LEMMA WordRange == 0 .. WordBits - 1 = 0 .. 31
BY DEF WordBits

\* A word and a bit of it name one sector, and every sector has one such name.
LEMMA SectorName ==
    ASSUME NEW s \in Nat, NEW w \in Nat, NEW b \in 0 .. 31
    PROVE  /\ s \div 32 \in Nat /\ s % 32 \in 0 .. 31 /\ s = 32 * (s \div 32) + (s % 32)
           /\ (s = 32 * w + b) <=> (s \div 32 = w /\ s % 32 = b)
OBVIOUS

\* A range that does not fit the rest of a word is that rest and a range from the
\* next word on.
LEMMA SplitRange ==
    ASSUME NEW w \in Nat, NEW b \in 0 .. 31, NEW n \in Nat, 32 - b < n
    PROVE  32 * w + b .. 32 * w + b + n - 1
             = (32 * w + b .. 32 * w + 31) \cup (32 * w + 32 .. 32 * w + 32 + (n - (32 - b)) - 1)
OBVIOUS

\* TableSectors of the table have their word in the table.
LEMMA SectorWord ==
    ASSUME NEW s \in TableSectors
    PROVE  s \in Nat /\ s \div 32 \in 0 .. TableWords - 1 /\ s % 32 \in 0 .. 31
BY TableAssumption DEF TableSectors, WordBits

\* Marking a mask in a word of the table marks just the sectors of the mask.
LEMMA MarkMask ==
    ASSUME MarkTypeOK, NEW w \in 0 .. TableWords - 1, NEW a \in 0 .. 31, NEW e \in a - 1 .. 31,
           dirty' = [dirty EXCEPT ![w] = @ \cup a .. e]
    PROVE  /\ dirty' \in [0 .. TableWords - 1 -> SUBSET (0 .. 31)]
           /\ Marked' = Marked \cup 32 * w + a .. 32 * w + e
<1>1. dirty' \in [0 .. TableWords - 1 -> SUBSET (0 .. 31)]
  <2>1. dirty \in [0 .. TableWords - 1 -> SUBSET (0 .. 31)]
    BY WordRange DEF MarkTypeOK
  <2>2. a .. e \subseteq 0 .. 31
    OBVIOUS
  <2> QED BY <2>1, <2>2
<1>2. ASSUME NEW s \in TableSectors
      PROVE  s % 32 \in dirty'[s \div 32]
               <=> s % 32 \in dirty[s \div 32] \/ s \in 32 * w + a .. 32 * w + e
  <2> DEFINE i == s \div 32
             b == s % 32
  <2>1. i \in 0 .. TableWords - 1 /\ b \in 0 .. 31 /\ s = 32 * i + b /\ s \in Nat
    BY SectorWord, SectorName
  <2>2. CASE i = w
    <3>1. dirty'[i] = dirty[i] \cup a .. e
      BY <2>1, <2>2 DEF MarkTypeOK
    <3>2. b \in a .. e <=> s \in 32 * w + a .. 32 * w + e
      <4> HIDE DEF i, b
      <4> QED BY <2>1, <2>2
    <3> QED BY <3>1, <3>2
  <2>3. CASE i # w
    <3>1. dirty'[i] = dirty[i]
      BY <2>1, <2>3 DEF MarkTypeOK
    <3>2. s \notin 32 * w + a .. 32 * w + e
      <4> HIDE DEF i, b
      <4> QED BY <2>1, <2>3
    <3> QED BY <3>1, <3>2
  <2> QED BY <2>2, <2>3
<1>3. 32 * w + a .. 32 * w + e \subseteq TableSectors
  BY TableAssumption DEF TableSectors, WordBits
<1> QED BY <1>1, <1>2, <1>3 DEF Marked, WordBits

\* The empty table marks nothing.
LEMMA MarkInitial == MarkInit => MarkInv
<1> SUFFICES ASSUME MarkInit PROVE MarkInv
  OBVIOUS
<1>1. Marked = {}
  BY SectorWord DEF Marked, MarkInit, WordBits
<1>2. MarkTypeOK
  BY TableAssumption DEF MarkInit, MarkTypeOK, WordBits
<1> QED BY <1>1, <1>2, TableAssumption DEF MarkInv, Progress, MarkInit, Pos, WordBits

\* A call splits its start into a word and a bit.
LEMMA CallStep ==
    ASSUME MarkInv, NEW c \in Calls, Call(c[1], c[2])
    PROVE  MarkInv'
<1>1. c[1] \in Nat /\ c[2] \in Nat /\ c[1] \in TableSectors /\ c[1] + c[2] <= 32 * TableWords
  BY CallsAssumption DEF WordBits
<1> DEFINE a == c[1]
           n == c[2]
<1>2. a \div 32 \in 0 .. TableWords - 1 /\ a % 32 \in 0 .. 31 /\ a = 32 * (a \div 32) + (a % 32)
  BY <1>1, SectorWord, SectorName
<1>3. Marked' = Marked
  BY DEF Call, Marked
<1>4. /\ bytes' \in 0 .. TableWords - 1 /\ bits' \in 0 .. 31 /\ scts' = n /\ markPc' = "loop"
      /\ dirty' = dirty /\ Pos' = a
      /\ want' = want \cup a .. a + n - 1
  <2>1. /\ bytes' = a \div 32 /\ bits' = a % 32 /\ scts' = n /\ markPc' = "loop"
        /\ dirty' = dirty /\ want' = want \cup a .. a + n - 1
    BY DEF Call, WordBits
  <2>2. Pos' = 32 * bytes' + bits'
    BY DEF Pos, WordBits
  <2> QED BY <1>2, <2>1, <2>2
<1>5. slack' = IF n = 0 THEN slack \cup a .. 32 * bytes' + 31 ELSE slack
  <2>1. slack' = IF n = 0 THEN slack \cup a .. 32 * (a \div 32) + 32 - 1 ELSE slack
    BY DEF Call, WordBits
  <2>2. bytes' = a \div 32
    BY DEF Call, WordBits
  <2>3. 32 * bytes' + 32 - 1 = 32 * bytes' + 31
    BY <1>4
  <2> QED BY <2>1, <2>2, <2>3
<1>6. a .. a + n - 1 \subseteq TableSectors /\ a .. 32 * bytes' + 31 \subseteq TableSectors
  BY <1>1, <1>4, TableAssumption DEF TableSectors, WordBits
<1> HIDE DEF a, n
<1>7. n \in Nat /\ a + n <= 32 * TableWords /\ a \in Nat
  BY <1>1 DEF a, n
<1>8. MarkTypeOK'
  <2>1. want' \subseteq TableSectors /\ slack' \subseteq TableSectors
    BY <1>4, <1>5, <1>6 DEF MarkInv, MarkTypeOK
  <2>2. bytes' \in Nat /\ bits' \in 0 .. WordBits - 1 /\ scts' \in Nat
    BY <1>4, <1>7, WordRange, TableAssumption
  <2> QED BY <1>4, <2>1, <2>2 DEF MarkInv, MarkTypeOK
<1>9. markPc = "idle" /\ scts = 0
  BY DEF Call, MarkInv, Progress, a
<1>10. want \subseteq Marked
  <2>1. bytes \in Nat /\ bits \in Nat
    BY DEF MarkInv, MarkTypeOK, WordBits
  <2>2. Pos .. Pos + scts - 1 = {}
    BY <1>9, <2>1 DEF Pos, WordBits
  <2> QED BY <2>2 DEF MarkInv, Progress
<1>11. Marked \subseteq want \cup slack
  BY DEF MarkInv, Progress
<1>12. 32 * bytes' + 32 - 1 = 32 * bytes' + 31 /\ bytes' < TableWords
  BY <1>4, TableAssumption
<1>13. /\ Pos' .. Pos' + scts' - 1 \subseteq want'
       /\ want' \subseteq Marked' \cup Pos' .. Pos' + scts' - 1
       /\ Marked' \subseteq want' \cup slack'
       /\ scts' = 0 => Pos' .. 32 * bytes' + 31 \subseteq slack'
  BY <1>3, <1>4, <1>5, <1>10, <1>11
<1>14. Progress'
  BY <1>4, <1>7, <1>12, <1>13 DEF Progress, WordBits
<1> QED BY <1>8, <1>14 DEF MarkInv

\* An iteration marks the rest of a word and leaves a rest of the range.
LEMMA FillStep == ASSUME MarkInv, Fill PROVE MarkInv'
<1>1. /\ markPc = "loop" /\ bytes \in 0 .. TableWords - 1 /\ bits \in 0 .. 31 /\ scts \in Nat
      /\ 32 - bits < scts /\ 32 * bytes + bits + scts <= 32 * TableWords
  BY TableAssumption DEF MarkInv, MarkTypeOK, Progress, Fill, More, Pos, WordBits
<1>2. /\ bytes' = bytes + 1 /\ bits' = 0 /\ scts' = scts - (32 - bits) /\ markPc' = "loop"
      /\ want' = want /\ slack' = slack
      /\ dirty' = [dirty EXCEPT ![bytes] = @ \cup bits .. 31]
  <2>1. FillMask = bits .. 31
    BY <1>1 DEF FillMask, WordBits
  <2> QED BY <1>1, <2>1 DEF Fill, WordBits
<1>3. /\ dirty' \in [0 .. TableWords - 1 -> SUBSET (0 .. 31)]
      /\ Marked' = Marked \cup 32 * bytes + bits .. 32 * bytes + 31
  <2>1. MarkTypeOK /\ 31 \in bits - 1 .. 31
    BY <1>1 DEF MarkInv
  <2> QED BY <1>1, <1>2, <2>1, MarkMask
<1>4. /\ Pos' = 32 * bytes + 32 /\ Pos = 32 * bytes + bits /\ scts' \in Nat \ {0}
      /\ Pos' + scts' = Pos + scts
  BY <1>1, <1>2 DEF Pos, WordBits
<1>5. bytes' < TableWords
  BY <1>1, <1>2, TableAssumption
<1>6. MarkTypeOK'
  BY <1>1, <1>2, <1>3, <1>4, WordRange, TableAssumption DEF MarkInv, MarkTypeOK
<1>7. Pos .. Pos + scts - 1 \subseteq want /\ want \subseteq Marked \cup Pos .. Pos + scts - 1
      /\ Marked \subseteq want \cup slack
  BY DEF MarkInv, Progress
<1>8. Pos .. Pos + scts - 1 = (32 * bytes + bits .. 32 * bytes + 31) \cup Pos' .. Pos' + scts' - 1
  <2>1. bytes \in Nat
    BY <1>1, TableAssumption
  <2> QED BY <1>1, <1>2, <1>4, <2>1, SplitRange
<1>9. /\ Pos' .. Pos' + scts' - 1 \subseteq want'
      /\ want' \subseteq Marked' \cup Pos' .. Pos' + scts' - 1
      /\ Marked' \subseteq want' \cup slack'
  BY <1>2, <1>3, <1>7, <1>8
<1>10. Pos' + scts' <= 32 * TableWords
  BY <1>1, <1>4
<1> QED BY <1>2, <1>4, <1>5, <1>6, <1>9, <1>10 DEF MarkInv, Progress, WordBits

\* The last step marks the rest of the range, which lies in one word.
LEMMA LastStep == ASSUME MarkInv, Last PROVE MarkInv'
<1>1. /\ markPc = "loop" /\ bytes \in 0 .. TableWords - 1 /\ bits \in 0 .. 31 /\ scts \in Nat
      /\ scts <= 32 - bits /\ 32 * bytes + bits + scts <= 32 * TableWords
  BY TableAssumption DEF MarkInv, MarkTypeOK, Progress, Last, More, Pos, WordBits
<1>2. /\ markPc' = "idle" /\ bytes' = 0 /\ bits' = 0 /\ scts' = 0 /\ want' = want /\ slack' = slack
  BY DEF Last
<1>3. PICK e \in bits - 1 .. 31 :
           /\ dirty' = [dirty EXCEPT ![bytes] = @ \cup bits .. e]
           /\ scts > 0 => e = bits + scts - 1
  <2>1. PICK mask \in LastMasks : dirty' = [dirty EXCEPT ![bytes] = @ \cup mask]
    BY DEF Last
  <2>2. CASE scts > 0
    <3>1. mask = bits .. bits + scts - 1 /\ bits + scts - 1 \in bits - 1 .. 31
      BY <1>1, <2>2 DEF LastMasks
    <3> QED BY <2>1, <3>1
  <2>3. CASE scts = 0 /\ mask = {}
    <3>1. bits .. bits - 1 = mask /\ bits - 1 \in bits - 1 .. 31
      BY <1>1, <2>3
    <3>2. dirty' = [dirty EXCEPT ![bytes] = @ \cup bits .. bits - 1]
      BY <2>1, <2>3, <3>1, Zenon
    <3>3. ~(scts > 0)
      BY <2>3
    <3> QED BY <3>1, <3>2, <3>3
  <2>4. CASE scts = 0 /\ mask = bits .. WordBits - 1
    <3>1. mask = bits .. 31 /\ 31 \in bits - 1 .. 31
      BY <1>1, <2>4 DEF WordBits
    <3>2. dirty' = [dirty EXCEPT ![bytes] = @ \cup bits .. 31]
      BY <2>1, <2>4, <3>1, Zenon
    <3>3. ~(scts > 0)
      BY <2>4
    <3> QED BY <3>1, <3>2, <3>3
  <2> QED BY <1>1, <2>2, <2>3, <2>4 DEF LastMasks
<1>4. /\ dirty' \in [0 .. TableWords - 1 -> SUBSET (0 .. 31)]
      /\ Marked' = Marked \cup 32 * bytes + bits .. 32 * bytes + e
  BY <1>1, <1>3, MarkMask DEF MarkInv
<1>5. Pos = 32 * bytes + bits /\ Pos' = 0
  BY <1>2 DEF Pos, WordBits
<1>6. /\ Pos .. Pos + scts - 1 \subseteq want
      /\ want \subseteq Marked \cup Pos .. Pos + scts - 1
      /\ Marked \subseteq want \cup slack
      /\ scts = 0 => Pos .. 32 * bytes + 31 \subseteq slack
  <2>1. 32 * bytes + 32 - 1 = 32 * bytes + 31
    BY <1>1
  <2> QED BY <1>1, <2>1 DEF MarkInv, Progress, WordBits
<1>7. Pos .. Pos + scts - 1 \subseteq Marked'
  BY <1>1, <1>3, <1>4, <1>5
<1>8. Pos .. 32 * bytes + e \subseteq want \cup slack
  <2>1. CASE scts > 0
    <3>1. 32 * bytes + e = Pos + scts - 1
      BY <1>1, <1>3, <1>5, <2>1
    <3> QED BY <1>6, <3>1
  <2>2. CASE scts = 0
    BY <1>1, <1>3, <1>5, <1>6, <2>2
  <2> QED BY <1>1, <2>1, <2>2
<1>9. Pos' .. Pos' + scts' - 1 = {}
  BY <1>2, <1>5
<1>10. MarkTypeOK'
  BY <1>2, <1>4, WordRange DEF MarkInv, MarkTypeOK
<1>11. want' \subseteq Marked' /\ Marked' \subseteq want' \cup slack'
  BY <1>2, <1>4, <1>5, <1>6, <1>7, <1>8
<1> QED BY <1>2, <1>9, <1>10, <1>11 DEF MarkInv, Progress

\* Every step keeps the invariant.
LEMMA MarkStep == MarkInv /\ [MarkNext]_markVars => MarkInv'
<1> SUFFICES ASSUME MarkInv, [MarkNext]_markVars PROVE MarkInv'
  OBVIOUS
<1>1. CASE \E c \in Calls : Call(c[1], c[2])
  BY <1>1, CallStep
<1>2. CASE Fill
  BY <1>2, FillStep
<1>3. CASE Last
  BY <1>3, LastStep
<1>4. CASE UNCHANGED markVars
  BY <1>4 DEF markVars, MarkInv, MarkTypeOK, Progress, Pos, Marked
<1> QED BY <1>1, <1>2, <1>3, <1>4 DEF MarkNext

\* The variables of _markDirtyInfo keep their types.
THEOREM MarkTypeCorrect == MarkSpec => []MarkTypeOK
<1>1. MarkInv => MarkTypeOK
  BY DEF MarkInv
<1> QED BY <1>1, MarkInitial, MarkStep, PTL DEF MarkSpec

\* _markDirtyInfo never indexes past the table.
THEOREM StaysInTable == MarkSpec => []InTable
<1>1. MarkInv => InTable
  BY DEF MarkInv, Progress, InTable
<1> QED BY <1>1, MarkInitial, MarkStep, PTL DEF MarkSpec

\* Every announced sector is marked when _markDirtyInfo has returned.
THEOREM MarksEverySector == MarkSpec => []MarksTheRange
<1>1. ASSUME MarkInv PROVE MarksTheRange
  <2>1. markPc = "idle" => Pos .. Pos + scts - 1 = {}
    BY <1>1 DEF MarkInv, MarkTypeOK, Progress, Pos, WordBits
  <2> QED BY <1>1, <2>1 DEF MarkInv, Progress, MarksTheRange
<1> QED BY <1>1, MarkInitial, MarkStep, PTL DEF MarkSpec

\* No sector is marked that no range asked for, but for an empty range's word.
THEOREM MarksNoOtherSector == MarkSpec => []MarksNothingElse
<1>1. MarkInv => MarksNothingElse
  BY DEF MarkInv, Progress, MarksNothingElse
<1> QED BY <1>1, MarkInitial, MarkStep, PTL DEF MarkSpec
=============================================================================
