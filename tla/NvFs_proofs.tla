----------------------------- MODULE NvFs_proofs -----------------------------
(***************************************************************************)
(* Proofs about the two-image store, for every set of snapshots, in both   *)
(* read orders, with crashes anywhere and any set of I/O faults.  What the *)
(* store promises of its contents (FirstFixed, StoreSpec) it promises      *)
(* until the first fault; what the return value and the repair mean holds  *)
(* after faults too.  The last part is about the checksum (NvChecksum),    *)
(* for the widths of the code, which are out of TLC's reach.               *)
(***************************************************************************)
EXTENDS NvFs, NvChecksum, TLAPS

\* What is put into an image is an image.
LEMMA PartialType ==
    ASSUME NEW c \in Bodies, NEW i \in Partial(c), c \notin {Torn, Short}
    PROVE  i \in [head : Heads, body : Bodies]
  BY ZeroHeadAssumption DEF Partial, Heads, Bodies, Full

(***************************************************************************)
(* TypeOK alone is not inductive: the checksum written is that of buf, so  *)
(* buf must be a complete content while an image is being rewritten.       *)
(***************************************************************************)
TypeInv == /\ TypeOK
           /\ pc \in {"fix", "bak", "ori"} => buf \in Snapshots \cup {Blank}

\* The state ramDisk_Read starts in is well-typed.
LEMMA TypeInitial == Init => TypeInv
<1> SUFFICES ASSUME Init PROVE TypeInv
  OBVIOUS
<1>1. image \in [Files -> [head : Heads, body : Bodies]]
  BY DEF Init, Heads, Bodies, Full, Empty
<1> QED
  BY <1>1 DEF Init, TypeInv, TypeOK, Bodies

\* Every step, a crash included, keeps the types.
LEMMA TypeStep == TypeInv /\ [Next]_vars => TypeInv'
<1> SUFFICES ASSUME TypeInv, [Next]_vars
             PROVE  TypeInv'
  OBVIOUS
<1> USE ZeroHeadAssumption, FaultsAssumption, ContentsDiffer
<1>1. CASE ReadFirst
  <2>1. PICK opened \in BOOLEAN :
          /\ buf' = IF opened THEN image[firstName].body ELSE Blank
          /\ ret2' = (opened /\ image[firstName].body # Short)
          /\ unopened' = IF opened THEN {} ELSE {firstName}
          /\ broken' = (broken \/ ~opened)
    BY <1>1 DEF ReadFirst, OpenResults
  <2>2. pc' \in {"run", "second"} /\ UNCHANGED <<firstName, image, open, ret>> /\ pc = "boot"
    BY <1>1 DEF ReadFirst
  <2>3. buf' \in Bodies /\ unopened' \subseteq Files /\ ret2' \in BOOLEAN /\ broken' \in BOOLEAN
    BY <2>1 DEF TypeInv, TypeOK, Bodies, Files
  <2> QED
    BY <2>2, <2>3 DEF TypeInv, TypeOK
<1>2. CASE ReadSecond
  <2>1. PICK opened \in BOOLEAN :
          LET img == IF opened THEN image[secondName] ELSE [head |-> ZeroHead, body |-> Blank]
              full == IF opened THEN img.body # Short ELSE ret2
          IN  /\ buf' = img.body
              /\ ret2' = full
              /\ pc' = IF full /\ Valid(img) THEN "fix" ELSE "run"
              /\ unopened' = IF opened THEN unopened ELSE unopened \cup {secondName}
              /\ broken' = (broken \/ ~opened)
    BY <1>2 DEF ReadSecond, OpenResults
  <2>2. UNCHANGED <<firstName, image, open, ret>> /\ pc = "second" /\ secondName \in Files
    BY <1>2 DEF ReadSecond, secondName, Files
  <2>3. image[secondName] \in [head : Heads, body : Bodies]
    BY <2>2 DEF TypeInv, TypeOK
  <2>4. buf' \in Bodies /\ (pc' = "fix" => buf' \in Snapshots \cup {Blank})
    BY <2>1, <2>3 DEF Valid, Heads, Bodies
  <2>5. unopened' \subseteq Files /\ ret2' \in BOOLEAN /\ broken' \in BOOLEAN
    BY <2>1, <2>2 DEF TypeInv, TypeOK
  <2> QED
    BY <2>1, <2>2, <2>4, <2>5 DEF TypeInv, TypeOK
<1>3. ASSUME NEW s \in Snapshots, Save(s)
      PROVE  TypeInv'
  BY <1>3 DEF Save, TypeInv, TypeOK, Bodies
<1>4. Target \in Files \/ pc \notin {"fix", "bak", "ori"}
  BY DEF Target, Files, TypeInv, TypeOK
<1>5. \A i \in Partial(buf) :
         pc \in {"fix", "bak", "ori"} =>
            [image EXCEPT ![Target] = i] \in [Files -> [head : Heads, body : Bodies]]
  BY <1>4, PartialType DEF TypeInv, TypeOK, Bodies
<1>6. CASE OpenImage
  BY <1>6, <1>5 DEF OpenImage, TypeInv, TypeOK
<1>7. CASE OpenFails
  BY <1>7, <1>4 DEF OpenFails, TypeInv, TypeOK, AfterTarget
<1>8. CASE WriteBack
  BY <1>8, <1>5 DEF WriteBack, TypeInv, TypeOK
<1>9. CASE Sync
  BY <1>9, <1>4 DEF Sync, TypeInv, TypeOK, AfterTarget, Full, Heads, Bodies
<1>10. CASE ShortWrite
  <2>1. image' \in [Files -> [head : Heads, body : Bodies]]
    BY <1>10, <1>5 DEF ShortWrite, TypeInv, TypeOK
  <2>2. ret' \in BOOLEAN
    BY <1>10 DEF ShortWrite
  <2> QED
    BY <1>10, <2>1, <2>2 DEF ShortWrite, TypeInv, TypeOK, AfterTarget
<1>11. CASE Crash
  BY <1>11 DEF Crash, TypeInv, TypeOK, Bodies
<1>12. CASE UNCHANGED vars
  BY <1>12 DEF vars, TypeInv, TypeOK
<1> QED
  BY <1>1, <1>2, <1>3, <1>6, <1>7, <1>8, <1>9, <1>10, <1>11, <1>12 DEF Next

(***************************************************************************)
(* Every reachable state is well typed and a file is open for writing only *)
(* inside the three rewriting steps, whatever the faults and the order.    *)
(***************************************************************************)
THEOREM TypeCorrect == Spec => []TypeOK
<1>1. TypeInv => TypeOK
  BY DEF TypeInv
<1> QED
  BY <1>1, TypeInitial, TypeStep, PTL DEF Spec

-----------------------------------------------------------------------------
(***************************************************************************)
(* The inductive invariant behind durability.  Its parts say, for each     *)
(* place of the two functions, which image can be relied on there as long  *)
(* as no call has failed.                                                  *)
(***************************************************************************)
\* A valid image holds a snapshot, never the blank or a torn content.
ValidMeansStored == \A f \in Files : Valid(image[f]) => image[f].body \in Snapshots

\* ramDisk_Read looks at the second image, and repairs, only when the first is bad.
ReadPart == /\ pc \in {"second", "fix"} => ~Valid(image[firstName])
            /\ pc = "fix" => image[secondName] = Full(buf)

\* ramDisk_Write comes with a snapshot; if the origin is read first, it truncates
\* the backup only if the origin is good or both are bad; in either order it
\* truncates the origin only when the backup holds the new content.
WritePart == /\ pc \in Files => buf \in Snapshots
             /\ pc = "bak" /\ firstName = "ori" => (Valid(image["bak"]) => Valid(image["ori"]))
             /\ pc = "ori" => image["bak"] = Full(buf)
             /\ open /\ pc \in Files => ~Valid(image[pc])

IInv == /\ TypeInv
        /\ FirstFixed
        /\ ~broken => ValidMeansStored /\ ReadPart /\ WritePart

(***************************************************************************)
(* No partial rewrite passes the check of ramDisk_Read.                    *)
(***************************************************************************)
LEMMA PartialInvalid ==
    ASSUME NEW c \in Snapshots, NEW i \in Partial(c)
    PROVE  ~Valid(i)
  BY ContentsDiffer, ZeroHeadAssumption DEF Partial, Valid, Full

\* What the read of the first image does when no open() fails.
LEMMA ReadFirstGood ==
    ASSUME ReadFirst, ~broken'
    PROVE  /\ pc = "boot" /\ ~broken /\ UNCHANGED <<firstName, image, open>>
           /\ buf' = image[firstName].body
           /\ pc' = IF Valid(image[firstName]) THEN "run" ELSE "second"
  BY DEF ReadFirst, OpenResults

\* Likewise for the second image.
LEMMA ReadSecondGood ==
    ASSUME ReadSecond, ~broken'
    PROVE  /\ pc = "second" /\ ~broken /\ UNCHANGED <<firstName, image, open>>
           /\ buf' = image[secondName].body
           /\ pc' = IF image[secondName].body # Short /\ Valid(image[secondName])
                    THEN "fix" ELSE "run"
  BY DEF ReadSecond, OpenResults

\* The inductive invariant holds at boot.
LEMMA IInitial == Init => IInv
<1> SUFFICES ASSUME Init PROVE IInv
  OBVIOUS
<1>1. ValidMeansStored
  BY ContentsDiffer DEF Init, ValidMeansStored, Valid, Full, Empty
<1> QED
  BY <1>1, TypeInitial DEF Init, IInv, ReadPart, FirstFixed, WritePart, Files

\* The inductive invariant is preserved by every system call and by a crash at
\* any point.
LEMMA IStep == IInv /\ [Next]_vars => IInv'
<1> SUFFICES ASSUME IInv, [Next]_vars
             PROVE  IInv'
  OBVIOUS
<1>1. TypeInv'
  BY TypeStep DEF IInv
<1>0. CASE broken'
  BY <1>0, <1>1 DEF IInv, FirstFixed
<1> SUFFICES ASSUME ~broken' PROVE IInv'
  BY <1>0
<1> USE ContentsDiffer
<1>b. ~broken
  BY DEF Next, ReadFirst, ReadSecond, Save, OpenImage, OpenFails, WriteBack, Sync,
         ShortWrite, Crash, vars, IInv, TypeInv, TypeOK
<1>ty. /\ image \in [Files -> [head : Heads, body : Bodies]]
       /\ firstName \in Files /\ secondName \in Files /\ firstName # secondName
       /\ {firstName, secondName} = Files
  BY DEF IInv, TypeInv, TypeOK, secondName, Files
<1>2. CASE ReadFirst
  BY <1>1, <1>2, <1>b, <1>ty, ReadFirstGood DEF IInv, ReadPart, WritePart, FirstFixed,
     ValidMeansStored, SomeImageValid, Files, secondName
<1>3. CASE ReadSecond
  <2>1. /\ buf' = image[secondName].body /\ pc = "second"
        /\ UNCHANGED <<firstName, image, open, secondName>>
        /\ pc' = IF image[secondName].body # Short /\ Valid(image[secondName])
                 THEN "fix" ELSE "run"
    BY <1>3, ReadSecondGood DEF secondName
  <2>4. pc' = "fix" => image[secondName] = Full(buf')
    BY <2>1, <1>ty DEF Valid, Full
  <2>5. pc' = "run" => ~Valid(image[secondName])
    BY <2>1, <1>b, <1>ty DEF IInv, ValidMeansStored
  <2>6. ~Valid(image[firstName])
    BY <1>b, <2>1 DEF IInv, ReadPart
  <2>7. pc' = "run" => ~SomeImageValid
    BY <2>5, <2>6, <1>ty DEF SomeImageValid
  <2>8. SomeImageValid' = SomeImageValid /\ ValidMeansStored' = ValidMeansStored
    BY <2>1 DEF SomeImageValid, ValidMeansStored, Valid
  <2>9. pc' \in {"fix", "run"}
    BY <2>1
  <2>10. ReadPart'
    BY <2>1, <2>4, <2>6 DEF ReadPart
  <2>11. WritePart'
    BY <2>9 DEF WritePart, Files
  <2>12. FirstFixed'
    BY <2>7, <2>8 DEF FirstFixed
  <2> QED
    BY <1>1, <1>b, <2>8, <2>10, <2>11, <2>12 DEF IInv
<1>4. ASSUME NEW s \in Snapshots, Save(s)
      PROVE  IInv'
  <2>1. pc = "run" /\ pc' = "bak" /\ buf' = s /\ UNCHANGED <<firstName, image, open>> /\ ~open
    BY <1>4 DEF Save, IInv, TypeInv, TypeOK
  <2>2. firstName = "ori" => (Valid(image["bak"]) => Valid(image["ori"]))
    BY <1>b, <2>1 DEF IInv, FirstFixed, SomeImageValid, Files
  <2> QED
    BY <1>1, <1>b, <2>1, <2>2 DEF IInv, ReadPart, WritePart, FirstFixed, ValidMeansStored, Files
<1>5. pc \in {"fix", "bak", "ori"} => buf \in Snapshots
  BY <1>b, <1>ty DEF IInv, ReadPart, WritePart, ValidMeansStored, Files, Full, Valid
<1>6. CASE OpenImage \/ WriteBack
  <2>1. PICK i \in Partial(buf) : image' = [image EXCEPT ![Target] = i]
    BY <1>6 DEF OpenImage, WriteBack
  <2>2. /\ pc \in {"fix", "bak", "ori"} /\ pc' = pc /\ buf' = buf
        /\ firstName' = firstName /\ secondName' = secondName
    BY <1>6 DEF OpenImage, WriteBack, IInv, TypeInv, TypeOK, secondName
  <2>3. ~Valid(i)
    BY <1>5, <2>2, PartialInvalid
  <2>5. CASE pc = "bak"
    <3>1. image'["bak"] = i /\ image'["ori"] = image["ori"]
      BY <1>ty, <2>1, <2>5 DEF Target, Files
    <3> QED
      BY <1>1, <1>b, <2>2, <2>3, <2>5, <3>1 DEF IInv, ReadPart, WritePart, FirstFixed,
         ValidMeansStored, Files
  <2>6. CASE pc = "ori"
    <3>1. image'["ori"] = i /\ image'["bak"] = image["bak"]
      BY <1>ty, <2>1, <2>6 DEF Target, Files
    <3> QED
      BY <1>1, <1>b, <2>2, <2>3, <2>6, <3>1 DEF IInv, ReadPart, WritePart, FirstFixed,
         ValidMeansStored, Files
  <2>7. CASE pc = "fix"
    <3>1. image'[firstName] = i /\ image'[secondName] = image[secondName]
      BY <1>ty, <2>1, <2>7 DEF Target, Files
    <3>2. \A f \in Files : f = firstName \/ f = secondName
      BY <1>ty
    <3> QED
      BY <1>1, <1>b, <2>2, <2>3, <2>7, <3>1, <3>2 DEF IInv, ReadPart, WritePart, FirstFixed,
         ValidMeansStored, Files
  <2> QED
    BY <2>2, <2>5, <2>6, <2>7
<1>7. CASE Sync
  <2>1. /\ pc \in {"fix", "bak", "ori"} /\ buf' = buf /\ open' = FALSE
        /\ firstName' = firstName /\ pc' = AfterTarget
        /\ image' = [image EXCEPT ![Target] = Full(buf)]
    BY <1>7 DEF Sync, IInv, TypeInv, TypeOK
  <2>3. Valid(Full(buf)) /\ Full(buf).body = buf
    BY DEF Valid, Full
  <2>4. CASE pc = "bak"
    <3>1. image'["bak"] = Full(buf) /\ image'["ori"] = image["ori"] /\ pc' = "ori"
      BY <1>ty, <2>1, <2>4 DEF Target, AfterTarget, Files
    <3> QED
      BY <1>1, <1>5, <1>b, <2>1, <2>3, <2>4, <3>1 DEF IInv, ReadPart, WritePart, FirstFixed,
         ValidMeansStored, Files
  <2>5. CASE pc = "ori"
    <3>1. image'["ori"] = Full(buf) /\ image'["bak"] = Full(buf) /\ pc' = "run"
      BY <1>ty, <1>b, <2>1, <2>5 DEF Target, AfterTarget, Files, IInv, WritePart
    <3> QED
      BY <1>1, <1>5, <1>b, <1>ty, <2>1, <2>3, <2>5, <3>1 DEF IInv, ReadPart, WritePart, FirstFixed,
         ValidMeansStored, Files
  <2>6. CASE pc = "fix"
    <3>1. image'[firstName] = Full(buf) /\ image'[secondName] = Full(buf) /\ pc' = "run"
      BY <1>ty, <1>b, <2>1, <2>6 DEF Target, AfterTarget, IInv, ReadPart
    <3>2. \A f \in Files : f = firstName \/ f = secondName
      BY <1>ty
    <3> QED
      BY <1>1, <1>5, <1>b, <1>ty, <2>1, <2>3, <2>6, <3>1, <3>2 DEF IInv, ReadPart, WritePart,
         FirstFixed, ValidMeansStored, Files
  <2> QED
    BY <2>1, <2>4, <2>5, <2>6
<1>8. CASE OpenFails \/ ShortWrite
  BY <1>8 DEF OpenFails, ShortWrite
<1>9. CASE Crash
  BY <1>1, <1>9, <1>b DEF Crash, IInv, ReadPart, WritePart, FirstFixed, ValidMeansStored, Files
<1>10. CASE UNCHANGED vars
  BY <1>1, <1>10, <1>b DEF vars, IInv, ReadPart, WritePart, FirstFixed, ValidMeansStored,
     SomeImageValid, secondName
<1> QED
  BY <1>2, <1>3, <1>4, <1>6, <1>7, <1>8, <1>9, <1>10 DEF Next

(***************************************************************************)
(* In either order, and until a call fails, ramDisk_Read leaves the image  *)
(* it reads first good whenever any image was.                             *)
(***************************************************************************)
THEOREM FirstIsFixed == Spec => []FirstFixed
<1>1. IInv => FirstFixed
  BY DEF IInv
<1> QED
  BY <1>1, IInitial, IStep, PTL DEF Spec

-----------------------------------------------------------------------------
(***************************************************************************)
(* Refinement.  With the origin read first a write takes effect when the   *)
(* origin image, until then good, is truncated (or, on a partition never   *)
(* written before, when the backup is complete).  With the backup read     *)
(* first it falls back to the origin's content when the backup is          *)
(* truncated, and takes effect when the backup is complete.                *)
(***************************************************************************)
Mem == IF pc \in {"boot", "second", "fix"} THEN None ELSE buf

Writing == pc \in {"bak", "ori"}

Spare == IF firstName = "ori" THEN Survivor ELSE Content(image["ori"])

\* The initial states map to initial states of NvStore.
LEMMA StoreInitial == Init => Store!Init
<1> SUFFICES ASSUME Init PROVE Store!Init
  OBVIOUS
<1>1. Survivor \in Snapshots \cup {None} /\ Spare = Survivor
  BY ContentsDiffer DEF Init, Survivor, Spare, Content, secondName, Files, Valid, Full, Empty
<1> QED
  BY <1>1 DEF Init, Store!Init, Spare

\* Every step maps to a step of NvStore or leaves its variables unchanged.
LEMMA StoreStep ==
    ASSUME IInv, IInv', [Next]_vars
    PROVE  [Store!Next]_(Store!vars)
<1>0. CASE broken'
  BY <1>0 DEF Store!Next
<1> SUFFICES ASSUME ~broken' PROVE [Store!Next]_(Store!vars)
  BY <1>0
<1> USE ContentsDiffer
<1>b. ~broken /\ broken' = broken /\ firstName' = firstName
  BY DEF Next, ReadFirst, ReadSecond, Save, OpenImage, OpenFails, WriteBack, Sync,
         ShortWrite, Crash, vars, IInv, TypeInv, TypeOK
<1>ty. /\ image \in [Files -> [head : Heads, body : Bodies]]
       /\ pc \in {"boot", "second", "fix", "run", "bak", "ori"}
       /\ buf \in Bodies
       /\ buf' \in Bodies
       /\ firstName \in {"ori", "bak"}
  BY DEF IInv, TypeInv, TypeOK, Files
<1>in. ValidMeansStored /\ ReadPart /\ WritePart
  BY <1>b DEF IInv
<1>v1. firstName = "ori" =>
         /\ Survivor = IF Valid(image["ori"]) THEN image["ori"].body ELSE Content(image["bak"])
         /\ Spare = Survivor
  BY DEF Survivor, Spare, secondName
<1>v2. firstName = "bak" =>
         /\ Survivor = IF Valid(image["bak"]) THEN image["bak"].body ELSE Content(image["ori"])
         /\ Spare = Content(image["ori"])
  BY DEF Survivor, Spare, secondName
<1>w1. firstName = "ori" =>
         /\ Survivor' = IF Valid(image'["ori"]) THEN image'["ori"].body ELSE Content(image'["bak"])
         /\ Spare' = Survivor'
  BY <1>b DEF Survivor, Spare, secondName, Valid, Content
<1>w2. firstName = "bak" =>
         /\ Survivor' = IF Valid(image'["bak"]) THEN image'["bak"].body ELSE Content(image'["ori"])
         /\ Spare' = Content(image'["ori"])
  BY <1>b DEF Survivor, Spare, secondName, Valid, Content
<1>u. image' = image => Survivor' = Survivor /\ Spare' = Spare
  BY <1>v1, <1>v2, <1>w1, <1>w2, <1>ty
<1>s. Survivor \in Snapshots \cup {None}
  BY <1>v1, <1>v2, <1>in, <1>ty DEF ValidMeansStored, Files, Content
<1> DEFINE Load == /\ Mem = None
                   /\ Mem' \in IF Survivor = None THEN Bodies ELSE {Survivor}
                   /\ Survivor' = Survivor /\ Spare' = Spare
                   /\ Writing' = Writing
           Fall == /\ Writing /\ firstName # "ori"
                   /\ Survivor' = Spare /\ Spare' = Spare
                   /\ Mem' = Mem /\ Writing' = Writing
           Effect == /\ Writing
                     /\ Survivor' = Mem
                     /\ Spare' = IF firstName = "ori" THEN Mem ELSE Spare
                     /\ Mem' = Mem /\ Writing' = Writing
           Lose == /\ Writing /\ firstName # "ori"
                   /\ Survivor = Mem /\ Spare' = None
                   /\ Survivor' = Survivor /\ Mem' = Mem /\ Writing' = Writing
           Ret == /\ Writing
                  /\ Survivor = Mem /\ Spare' = Mem
                  /\ Writing' = FALSE
                  /\ Survivor' = Survivor /\ Mem' = Mem
           Stutter == /\ Survivor' = Survivor /\ Spare' = Spare
                      /\ Mem' = Mem /\ Writing' = Writing
<1>k. (firstName = "ori")' = (firstName = "ori") /\ broken' = broken
  BY <1>b
<1>l. Load => Store!Next
  BY <1>k DEF Store!Next, Store!Step, Store!Load, Mem, Writing, Spare
<1>f. Fall => Store!Next
  BY <1>k DEF Store!Next, Store!Step, Store!FallBack, Mem, Writing, Spare
<1>e. Effect => Store!Next
  BY <1>k DEF Store!Next, Store!Step, Store!TakeEffect, Mem, Writing, Spare
<1>o. Lose => Store!Next
  BY <1>k DEF Store!Next, Store!Step, Store!LoseSpare, Mem, Writing, Spare
<1>r. Ret => Store!Next
  BY <1>k DEF Store!Next, Store!Step, Store!Return, Mem, Writing, Spare
<1>st. Stutter => UNCHANGED Store!vars
  BY <1>k DEF Store!vars, Mem, Writing, Spare
<1> HIDE DEF Load, Fall, Effect, Lose, Ret, Stutter
<1>1. CASE ReadFirst
  <2>1. pc = "boot" /\ image' = image /\ buf' = image[firstName].body
    BY <1>1, ReadFirstGood
  <2>2. pc' = IF Valid(image[firstName]) THEN "run" ELSE "second"
    BY <1>1, ReadFirstGood
  <2>3. CASE Valid(image[firstName])
    <3>1. Survivor = image[firstName].body
      BY <2>3 DEF Survivor
    <3>2. Load
      BY <1>ty, <1>s, <1>u, <2>1, <2>2, <2>3, <3>1 DEF Load, Mem, Writing
    <3> QED
      BY <3>2, <1>l
  <2>4. CASE ~Valid(image[firstName])
    <3>1. Stutter
      BY <1>u, <2>1, <2>2, <2>4 DEF Stutter, Mem, Writing
    <3> QED
      BY <3>1, <1>st
  <2> QED
    BY <2>3, <2>4
<1>2. CASE ReadSecond
  <2>1. pc = "second" /\ image' = image /\ buf' = image[secondName].body
    BY <1>2, ReadSecondGood
  <2>2. pc' = IF image[secondName].body # Short /\ Valid(image[secondName]) THEN "fix" ELSE "run"
    BY <1>2, ReadSecondGood
  <2>3. CASE pc' = "fix"
    <3>1. Stutter
      BY <1>u, <2>1, <2>3 DEF Stutter, Mem, Writing
    <3> QED
      BY <3>1, <1>st
  <2>4. CASE pc' = "run"
    <3>1. ~Valid(image[firstName])
      BY <1>in, <2>1 DEF ReadPart
    <3>2. ~Valid(image[secondName])
      BY <1>in, <1>ty, <2>2, <2>4 DEF ValidMeansStored, Files, secondName
    <3>3. Survivor = None
      BY <3>1, <3>2 DEF Survivor, Content
    <3>4. Load
      BY <3>3, <1>ty, <1>u, <2>1, <2>4 DEF Load, Mem, Writing
    <3> QED
      BY <3>4, <1>l
  <2> QED
    BY <2>2, <2>3, <2>4
<1>3. ASSUME NEW s \in Snapshots, Save(s)
      PROVE  Store!Next
  <2>1. /\ Mem # None /\ ~Writing /\ Mem' = s /\ Writing' = TRUE
        /\ Survivor' = Survivor /\ Spare' = Spare
    BY <1>3, <1>ty, <1>u DEF Save, Mem, Writing, Bodies
  <2>2. Store!Write(s)
    BY <2>1 DEF Store!Write, Mem, Writing, Spare
  <2> QED
    BY <2>2, <1>k DEF Store!Next, Store!Step
<1>4. CASE OpenImage \/ WriteBack
  <2>1. PICK i \in Partial(buf) : image' = [image EXCEPT ![Target] = i]
    BY <1>4 DEF OpenImage, WriteBack
  <2>2. pc \in {"fix", "bak", "ori"} /\ pc' = pc /\ buf' = buf
    BY <1>4 DEF OpenImage, WriteBack, IInv, TypeInv, TypeOK
  <2>3. buf \in Snapshots
    BY <2>2, <1>in, <1>ty DEF ReadPart, WritePart, ValidMeansStored, Files, Full, Valid, secondName
  <2>4. ~Valid(i) /\ Content(i) = None
    BY <2>3, PartialInvalid DEF Content
  <2>m. Mem' = Mem /\ Writing' = Writing
    BY <2>2 DEF Mem, Writing
  <2>5. CASE pc = "bak"
    <3>1. image'["ori"] = image["ori"] /\ image'["bak"] = i
      BY <1>ty, <2>1, <2>5 DEF Target, Files
    <3>2. CASE firstName = "ori"
      \* The origin, or nothing, is what survives.
      <4>1. Valid(image["bak"]) => Valid(image["ori"])
        BY <2>5, <3>2, <1>in DEF WritePart
      <4>2. Survivor' = Survivor /\ Spare' = Spare
        BY <1>v1, <1>w1, <2>4, <3>1, <3>2, <4>1 DEF Content
      <4>3. Stutter
        BY <2>m, <4>2 DEF Stutter
      <4> QED
        BY <4>3, <1>st
    <3>3. CASE firstName = "bak"
      <4>1. Survivor' = Spare /\ Spare' = Spare
        BY <1>v2, <1>w2, <2>4, <3>1, <3>3
      <4>2. Fall
        BY <2>m, <2>5, <3>3, <4>1 DEF Fall, Writing
      <4> QED
        BY <4>2, <1>f
    <3> QED
      BY <3>2, <3>3, <1>ty
  <2>6. CASE pc = "ori"
    <3>1. image'["ori"] = i /\ image'["bak"] = image["bak"] /\ image["bak"] = Full(buf)
      BY <1>ty, <1>in, <2>1, <2>6 DEF Target, Files, WritePart
    <3>2. Valid(image["bak"]) /\ image["bak"].body = buf /\ Content(image["bak"]) = buf
      BY <3>1 DEF Valid, Full, Content
    <3>3. Mem = buf /\ Writing
      BY <2>6 DEF Mem, Writing
    <3>4. CASE firstName = "ori"
      <4>1. Survivor' = Mem /\ Spare' = Mem
        BY <1>w1, <2>4, <3>1, <3>2, <3>3, <3>4
      <4>2. Effect
        BY <2>m, <3>3, <3>4, <4>1 DEF Effect
      <4> QED
        BY <4>2, <1>e
    <3>5. CASE firstName = "bak"
      <4>1. Survivor = Mem /\ Survivor' = Mem /\ Spare' = None
        BY <1>v2, <1>w2, <2>4, <3>1, <3>2, <3>3, <3>5
      <4>2. Lose
        BY <2>m, <3>3, <3>5, <4>1 DEF Lose
      <4> QED
        BY <4>2, <1>o
    <3> QED
      BY <3>4, <3>5, <1>ty
  <2>7. CASE pc = "fix"
    \* The first image is bad before and after; the second one survives.
    <3>1. image'[firstName] = i /\ image'[secondName] = image[secondName]
      BY <1>ty, <2>1, <2>7 DEF Target, Files, secondName
    <3>2. ~Valid(image[firstName])
      BY <1>in, <2>7 DEF ReadPart
    <3>3. CASE firstName = "ori"
      <4>1. Survivor' = Survivor /\ Spare' = Spare
        BY <1>v1, <1>w1, <2>4, <3>1, <3>2, <3>3 DEF secondName
      <4>2. Stutter
        BY <2>m, <4>1 DEF Stutter
      <4> QED
        BY <4>2, <1>st
    <3>4. CASE firstName = "bak"
      <4>1. Survivor' = Survivor /\ Spare' = Spare
        BY <1>v2, <1>w2, <2>4, <3>1, <3>2, <3>4 DEF secondName
      <4>2. Stutter
        BY <2>m, <4>1 DEF Stutter
      <4> QED
        BY <4>2, <1>st
    <3> QED
      BY <3>3, <3>4, <1>ty
  <2> QED
    BY <2>2, <2>5, <2>6, <2>7
<1>5. CASE Sync
  <2>1. pc \in {"fix", "bak", "ori"} /\ buf' = buf
    BY <1>5 DEF Sync, IInv, TypeInv, TypeOK
  <2>2. image' = [image EXCEPT ![Target] = Full(buf)] /\ pc' = AfterTarget /\ open
    BY <1>5 DEF Sync
  <2>3. buf \in Snapshots
    BY <2>1, <1>in, <1>ty DEF ReadPart, WritePart, ValidMeansStored, Files, Full, Valid, secondName
  <2>c. Valid(Full(buf)) /\ Full(buf).body = buf /\ Content(Full(buf)) = buf
    BY DEF Valid, Full, Content
  <2>4. CASE pc = "bak"
    <3>1. image'["ori"] = image["ori"] /\ image'["bak"] = Full(buf) /\ pc' = "ori"
      BY <1>ty, <2>2, <2>4 DEF Target, AfterTarget, Files
    <3>2. ~Valid(image["bak"])
      BY <1>in, <2>2, <2>4 DEF WritePart, Files
    <3>m. Mem = buf /\ Writing /\ Mem' = Mem /\ Writing' = Writing
      BY <2>1, <2>4, <3>1 DEF Mem, Writing
    <3>3. CASE firstName = "ori" /\ Valid(image["ori"])
      <4>1. Survivor' = Survivor /\ Spare' = Spare
        BY <1>v1, <1>w1, <3>1, <3>3
      <4>2. Stutter
        BY <3>m, <4>1 DEF Stutter
      <4> QED
        BY <4>2, <1>st
    <3>4. CASE firstName = "ori" /\ ~Valid(image["ori"])
      <4>1. Survivor' = Mem /\ Spare' = Mem
        BY <1>w1, <2>c, <3>1, <3>4, <3>m
      <4>2. Effect
        BY <3>m, <3>4, <4>1 DEF Effect
      <4> QED
        BY <4>2, <1>e
    <3>5. CASE firstName = "bak"
      <4>1. Survivor' = Mem /\ Spare' = Spare
        BY <1>v2, <1>w2, <2>c, <3>1, <3>5, <3>m
      <4>2. Effect
        BY <3>m, <3>5, <4>1 DEF Effect
      <4> QED
        BY <4>2, <1>e
    <3> QED
      BY <3>3, <3>4, <3>5, <1>ty
  <2>5. CASE pc = "ori"
    <3>1. image'["ori"] = Full(buf) /\ image'["bak"] = image["bak"] /\ pc' = "run"
      BY <1>ty, <2>2, <2>5 DEF Target, AfterTarget, Files
    <3>2. image["bak"] = Full(buf) /\ ~Valid(image["ori"])
      BY <1>in, <2>2, <2>5 DEF WritePart, Files
    <3>3. Mem = buf /\ Writing /\ Mem' = Mem /\ Writing' = FALSE
      BY <2>1, <2>5, <3>1 DEF Mem, Writing
    <3>4. Survivor = buf /\ Survivor' = buf /\ Spare' = buf
      BY <1>ty, <1>v1, <1>v2, <1>w1, <1>w2, <2>c, <3>1, <3>2
    <3>5. Ret
      BY <3>3, <3>4 DEF Ret
    <3> QED
      BY <3>5, <1>r
  <2>6. CASE pc = "fix"
    <3>1. image'[firstName] = Full(buf) /\ image'[secondName] = image[secondName] /\ pc' = "run"
      BY <1>ty, <2>2, <2>6 DEF Target, AfterTarget, Files, secondName
    <3>2. image[secondName] = Full(buf) /\ ~Valid(image[firstName])
      BY <1>in, <2>6 DEF ReadPart
    <3>3. Survivor = buf /\ Survivor' = buf /\ Spare' = Spare
      BY <1>ty, <1>v1, <1>v2, <1>w1, <1>w2, <2>c, <3>1, <3>2 DEF secondName
    <3>4. Load
      BY <2>1, <2>3, <2>6, <3>1, <3>3 DEF Load, Mem, Writing
    <3> QED
      BY <3>4, <1>l
  <2> QED
    BY <2>1, <2>4, <2>5, <2>6
<1>6. CASE OpenFails \/ ShortWrite
  BY <1>6 DEF OpenFails, ShortWrite
<1>7. CASE Crash
  <2>1. Mem' = None /\ Writing' = FALSE /\ Survivor' = Survivor /\ Spare' = Spare
    BY <1>7, <1>u DEF Crash, Mem, Writing
  <2>2. Store!Crash
    BY <2>1 DEF Store!Crash, Mem, Writing, Spare
  <2> QED
    BY <2>2, <1>k DEF Store!Next, Store!Step
<1>8. CASE UNCHANGED vars
  <2>1. Stutter
    BY <1>8, <1>u DEF Stutter, vars, Mem, Writing
  <2> QED
    BY <2>1, <1>st
<1> QED
  BY <1>1, <1>2, <1>3, <1>4, <1>5, <1>6, <1>7, <1>8 DEF Next

(***************************************************************************)
(* The image pair implements NvStore until the first call fails.  If the   *)
(* origin is read first, whatever step a crash hits, a restart reads the   *)
(* old or the new content, and the new one once ramDisk_Write has          *)
(* returned; if the backup is, an interrupted write may cost the content.  *)
(***************************************************************************)
THEOREM ImplementsStore == Spec => StoreSpec
<1>1. IInv /\ IInv' /\ [Next]_vars => [Store!Next]_(Store!vars)
  BY StoreStep
<1> QED
  BY <1>1, IInitial, IStep, StoreInitial, PTL DEF Spec, StoreSpec, Store!Spec

-----------------------------------------------------------------------------
(***************************************************************************)
(* What the return value of ramDisk_Write says, for every order and fault: *)
(* ret is set by a write only, and once the write has gone on to the       *)
(* origin image the backup is whole, unless its open() failed.             *)
(***************************************************************************)
AckInv ==
    /\ pc \in {"boot", "second", "fix"} => ~ret
    /\ pc = "ori" /\ ret => "bak" \in unopened \/ image["bak"] = Full(buf)
    /\ AckMeansStored

\* Nothing is acknowledged at boot.
LEMMA AckInitial == Init => AckInv
BY DEF Init, AckInv, AckMeansStored

\* Every step, a failing one included, keeps the meaning of ret.
LEMMA AckStep == TypeInv /\ AckInv /\ [Next]_vars => AckInv'
<1> SUFFICES ASSUME TypeInv, AckInv, [Next]_vars PROVE AckInv'
  OBVIOUS
<1> USE DEF AckInv, AckMeansStored, Files
<1>ty. /\ image \in [Files -> [head : Heads, body : Bodies]]
       /\ (open => pc \in {"fix", "bak", "ori"})
       /\ firstName \in Files
  BY DEF TypeInv, TypeOK
<1>1. CASE ReadFirst
  BY <1>1 DEF ReadFirst
<1>2. CASE ReadSecond
  BY <1>2 DEF ReadSecond
<1>3. ASSUME NEW s \in Snapshots, Save(s) PROVE AckInv'
  BY <1>3 DEF Save
<1>4. CASE OpenImage \/ WriteBack
  <2>1. /\ pc \in {"fix", "bak", "ori"} /\ UNCHANGED <<pc, buf, ret, unopened>>
        /\ \E i : image' = [image EXCEPT ![Target] = i]
    BY <1>4, <1>ty DEF OpenImage, WriteBack
  <2>2. pc = "ori" => image'["bak"] = image["bak"]
    BY <1>ty, <2>1 DEF Target
  <2> QED
    BY <2>1, <2>2
<1>5. CASE OpenFails
  <2>1. /\ pc \in {"fix", "bak", "ori"} /\ UNCHANGED <<image, buf, ret>>
        /\ pc' = AfterTarget /\ unopened' = unopened \cup {Target}
    BY <1>5 DEF OpenFails
  <2> QED
    BY <2>1 DEF AfterTarget, Target
<1>6. CASE Sync
  <2>1. /\ pc \in {"fix", "bak", "ori"} /\ UNCHANGED <<buf, ret, unopened>> /\ pc' = AfterTarget
        /\ image' = [image EXCEPT ![Target] = Full(buf)]
    BY <1>6, <1>ty DEF Sync
  <2>2. CASE pc = "fix"
    BY <2>1, <2>2 DEF AfterTarget
  <2>3. CASE pc = "bak"
    <3>1. image'["bak"] = Full(buf) /\ pc' = "ori"
      BY <1>ty, <2>1, <2>3 DEF Target, AfterTarget
    <3> QED
      BY <2>1, <3>1
  <2>4. CASE pc = "ori"
    <3>1. image'["ori"] = Full(buf) /\ image'["bak"] = image["bak"] /\ pc' = "run"
      BY <1>ty, <2>1, <2>4 DEF Target, AfterTarget
    <3> QED
      BY <2>1, <2>4, <3>1
  <2> QED
    BY <2>1, <2>2, <2>3, <2>4
<1>7. CASE ShortWrite
  <2>1. ~ret'
    BY <1>7, <1>ty DEF ShortWrite
  <2> QED
    BY <2>1
<1>8. CASE Crash
  BY <1>8 DEF Crash
<1>9. CASE UNCHANGED vars
  BY <1>9 DEF vars
<1> QED
  BY <1>1, <1>2, <1>3, <1>4, <1>5, <1>6, <1>7, <1>8, <1>9 DEF Next

(***************************************************************************)
(* A ramDisk_Write that returns 1 has stored the whole content in every    *)
(* image it could open, whatever fails and whichever image is read first.  *)
(***************************************************************************)
THEOREM AcknowledgedIsStored == Spec => []AckMeansStored
<1>1. AckInv => AckMeansStored
  BY DEF AckInv
<1> QED
  BY <1>1, TypeInitial, TypeStep, AckInitial, AckStep, PTL DEF Spec

(***************************************************************************)
(* While ramDisk_Read repairs the first image, buf is the second one.  An  *)
(* image that cannot be opened leaves the blank buffer, which passes the   *)
(* check only where a zeroed header is that of a blank payload.            *)
(***************************************************************************)
RepairInv == pc = "fix" => IF secondName \in unopened THEN buf = Blank
                           ELSE image[secondName] = Full(buf)

\* Before the second image is tried, it does not count as unopened.
BeforeSecond == pc = "second" => secondName \notin unopened

\* Every step keeps the source of the repair in place.
LEMMA RepairStep ==
    ASSUME TypeInv, RepairInv, BeforeSecond, [Next]_vars
    PROVE  RepairInv' /\ BeforeSecond'
<1> USE DEF RepairInv, BeforeSecond
<1>ty. /\ image \in [Files -> [head : Heads, body : Bodies]]
       /\ firstName \in Files /\ secondName \in Files /\ firstName # secondName
  BY DEF TypeInv, TypeOK, secondName, Files
<1>1. CASE ReadSecond
  <2>0. UNCHANGED <<firstName, secondName, image>> /\ pc = "second" /\ pc' # "second"
    BY <1>1 DEF ReadSecond, secondName
  <2> SUFFICES ASSUME pc' = "fix"
               PROVE  IF secondName \in unopened' THEN buf' = Blank
                      ELSE image[secondName] = Full(buf')
    BY <2>0
  <2>1. PICK opened \in BOOLEAN :
          LET img == IF opened THEN image[secondName] ELSE [head |-> ZeroHead, body |-> Blank]
          IN  /\ buf' = img.body /\ Valid(img)
              /\ unopened' = IF opened THEN unopened ELSE unopened \cup {secondName}
    BY <1>1 DEF ReadSecond, OpenResults
  <2>2. CASE opened
    BY <1>ty, <2>0, <2>1, <2>2 DEF Valid, Full
  <2>3. CASE ~opened
    BY <2>1, <2>3
  <2> QED
    BY <2>2, <2>3
<1>2. CASE OpenImage \/ WriteBack
  <2>1. /\ UNCHANGED <<pc, buf, unopened, firstName, secondName>>
        /\ \E i : image' = [image EXCEPT ![Target] = i]
    BY <1>2 DEF OpenImage, WriteBack, secondName
  <2> QED
    BY <1>ty, <2>1 DEF Target
<1>3. CASE OpenFails \/ Sync \/ ShortWrite
  BY <1>3 DEF OpenFails, Sync, ShortWrite, AfterTarget
<1>4. CASE ReadFirst
  BY <1>4, <1>ty DEF ReadFirst, secondName
<1>5. CASE (\E s \in Snapshots : Save(s)) \/ Crash
  BY <1>5 DEF Save, Crash
<1>6. CASE UNCHANGED vars
  BY <1>6 DEF vars, secondName
<1> QED
  BY <1>1, <1>2, <1>3, <1>4, <1>5, <1>6 DEF Next

(***************************************************************************)
(* The repair at the end of ramDisk_Read makes the first image a copy of   *)
(* the second one, or a blank one if the second could not be opened,       *)
(* whichever is first and whatever fails.                                  *)
(***************************************************************************)
THEOREM RepairCopies == Spec => RepairIsACopy
<1>1. Init => RepairInv /\ BeforeSecond
  BY DEF Init, RepairInv, BeforeSecond
<1>2. TypeInv /\ RepairInv /\ BeforeSecond /\ [Next]_vars => RepairInv' /\ BeforeSecond'
  BY RepairStep
<1>3. TypeInv /\ RepairInv /\ [Next]_vars =>
        [pc = "fix" /\ Sync =>
           image'[firstName] = IF secondName \in unopened THEN Full(Blank)
                               ELSE image[secondName]]_vars
  BY DEF TypeInv, TypeOK, RepairInv, Sync, Target
<1> QED
  BY <1>1, <1>2, <1>3, TypeInitial, TypeStep, PTL DEF Spec, RepairIsACopy

-----------------------------------------------------------------------------
(* calc_checksum                                                           *)

\* unsigned char, unsigned short and the unsigned long of the 32-bit build.
CodeWidths == Byte = 256 /\ Word = 65536 /\ Acc = 4294967296

\* The two sums differ by the change, up to one wrap of either accumulator.
Apart == LET d == changed[2] - changed[1]
         IN  readSum - chkSum \in {d, d - Acc, d + Acc}

SumInv == SumTypeOK /\ Apart

\* The two folds keep the residue modulo Word - 1 and give 0 for 0 only.
LEMMA FoldValue ==
    ASSUME CodeWidths, NEW c \in Nat, c < Acc
    PROVE  /\ Fold(c) \in Nat /\ Fold(c) < Word
           /\ Fold(c) = 0 <=> c = 0
           /\ \E k \in Nat : c = Fold(c) + (Word - 1) * k
<1> DEFINE hi == c \div 65536
           lo == c % 65536
<1>1. /\ hi \in Nat /\ hi < 65536 /\ lo \in Nat /\ lo < 65536
      /\ c = 65536 * hi + lo
  BY SMT DEF CodeWidths
<1>2. Fold(c) = ((hi + lo) + ((hi + lo) \div 65536)) % 65536
  BY SMT DEF Fold, CodeWidths
<1>3. Word = 65536
  BY SMT DEF CodeWidths
<1> HIDE DEF hi, lo
<1>4. CASE hi + lo < 65536
  <2>1. Fold(c) = hi + lo
    BY <1>1, <1>2, <1>4, SMT
  <2>2. c = Fold(c) + (Word - 1) * hi
    BY <1>1, <1>3, <2>1, SMT
  <2> QED BY <1>1, <1>3, <1>4, <2>1, <2>2, SMT
<1>5. CASE hi + lo >= 65536
  <2>1. (hi + lo) \div 65536 = 1
    BY <1>1, <1>5, SMT
  <2>2. Fold(c) = hi + lo - 65535
    BY <1>1, <1>2, <1>5, <2>1, SMT
  <2>3. c = Fold(c) + (Word - 1) * (hi + 1) /\ hi + 1 \in Nat
    BY <1>1, <1>3, <2>2, SMT
  <2>4. Fold(c) \in Nat /\ Fold(c) < Word /\ (Fold(c) = 0 <=> c = 0)
    BY <1>1, <1>3, <1>5, <2>2, SMT
  <2> QED BY <2>3, <2>4, SMT
<1> QED BY <1>1, <1>4, <1>5, SMT

\* Two accumulators that differ by the change of one word have different folds.
LEMMA FoldsDiffer ==
    ASSUME CodeWidths,
           NEW c \in Nat, c < Acc, NEW r \in Nat, r < Acc,
           NEW w \in Nat, w < Word, NEW v \in Nat, v < Word,
           w # v, {w, v} # {0, Word - 1},
           r - c \in {v - w, v - w - Acc, v - w + Acc}
    PROVE  Fold(c) # Fold(r)
<1>1. PICK i \in Nat : c = Fold(c) + (Word - 1) * i
  BY FoldValue, Zenon
<1>2. PICK j \in Nat : r = Fold(r) + (Word - 1) * j
  BY FoldValue, Zenon
<1>3. Fold(c) \in Nat /\ (Fold(c) = 0 <=> c = 0) /\ (Fold(r) = 0 <=> r = 0)
  BY FoldValue, Zenon
<1>4. w < 65536 /\ v < 65536 /\ ~(w = 0 /\ v = 65535) /\ ~(w = 65535 /\ v = 0)
  BY SMT DEF CodeWidths
<1> SUFFICES ASSUME Fold(c) = Fold(r) PROVE FALSE
  BY Zenon
<1>5. r - c = 65535 * (j - i)
  BY <1>1, <1>2, <1>3, SMT DEF CodeWidths
<1>6. CASE r - c = v - w
  BY <1>4, <1>5, <1>6, SMT
<1>7. CASE r - c = v - w - Acc
  <2>1. v - w - 1 = 65535 * (j - i + 65537)
    BY <1>5, <1>7, SMT DEF CodeWidths
  <2>2. v - w = 1
    BY <1>4, <1>7, <2>1, SMT DEF CodeWidths
  <2>3. r = 0 /\ c # 0
    BY <1>7, <2>2, SMT DEF CodeWidths
  <2> QED BY <1>3, <2>3, Zenon
<1>8. CASE r - c = v - w + Acc
  <2>1. v - w + 1 = 65535 * (j - i - 65537)
    BY <1>5, <1>8, SMT DEF CodeWidths
  <2>2. v - w = -1
    BY <1>4, <1>8, <2>1, SMT DEF CodeWidths
  <2>3. c = 0 /\ r # 0
    BY <1>8, <2>2, SMT DEF CodeWidths
  <2> QED BY <1>3, <2>3, Zenon
<1> QED BY <1>6, <1>7, <1>8, Zenon

\* Both sums are 0 before the first word.
LEMMA SumInitial == CodeWidths /\ SumInit => SumInv
BY SMT DEF CodeWidths, SumInit, SumInv, SumTypeOK, Apart, NoChange

\* A word of both buffers is summed.
LEMMA AddBoth ==
    ASSUME CodeWidths, SumInv,
           NEW w \in Nat, w < Word, NEW v \in Nat, v < Word,
           w # v => changed = NoChange,
           chkSum' = Add(chkSum, w), readSum' = Add(readSum, v),
           changed' = IF w # v THEN <<w, v>> ELSE changed
    PROVE  /\ chkSum' \in Nat /\ chkSum' < Acc /\ readSum' \in Nat /\ readSum' < Acc
           /\ changed' \in Nat \X Nat /\ changed'[1] < Word /\ changed'[2] < Word
           /\ Apart'
<1>1. chkSum \in Nat /\ chkSum < Acc /\ readSum \in Nat /\ readSum < Acc
  BY SMT DEF SumInv, SumTypeOK
<1>2. /\ chkSum' \in Nat /\ chkSum' < Acc /\ chkSum' - chkSum \in {w, w - Acc}
      /\ readSum' \in Nat /\ readSum' < Acc /\ readSum' - readSum \in {v, v - Acc}
  BY <1>1, SMT DEF Add, CodeWidths
<1>3. changed \in Nat \X Nat /\ changed[1] < Word /\ changed[2] < Word /\ Acc \in Nat
  BY SMT DEF SumInv, SumTypeOK, CodeWidths
<1>4. LET d == changed[2] - changed[1] IN readSum - chkSum \in {d, d - Acc, d + Acc}
  BY SMT DEF SumInv, Apart
<1>5. CASE w = v
  <2>1. changed' = changed
    BY <1>5, SMT
  <2>2. LET d == changed[2] - changed[1] IN readSum' - chkSum' \in {d, d - Acc, d + Acc}
    BY <1>1, <1>2, <1>3, <1>4, <1>5, SMT DEF CodeWidths
  <2> QED BY <1>2, <1>3, <2>1, <2>2, SMT DEF Apart
<1>6. CASE w # v
  <2>1. changed' = <<w, v>> /\ readSum - chkSum \in {0, -Acc, Acc}
    BY <1>3, <1>4, <1>6, SMT DEF NoChange
  <2>2. readSum' - chkSum' \in {v - w, v - w - Acc, v - w + Acc}
    BY <1>1, <1>2, <2>1, SMT DEF CodeWidths
  <2> QED BY <1>2, <2>1, <2>2, SMT DEF Apart
<1> QED BY <1>5, <1>6, SMT

\* Every step keeps the invariant.
LEMMA SumStep == CodeWidths /\ SumInv /\ [SumNext]_sumVars => SumInv'
<1> SUFFICES ASSUME CodeWidths, SumInv, [SumNext]_sumVars PROVE SumInv'
  OBVIOUS
<1>1. ASSUME NEW w, NEW v, w \in 0 .. Word - 1, v \in 0 .. Word - 1, SumWord(w, v)
      PROVE  SumInv'
  <2>1. Word \in Nat
    BY SMT DEF CodeWidths
  <2>2. w \in Nat /\ w < Word /\ v \in Nat /\ v < Word
    BY <1>1, <2>1, SMT
  <2>3. /\ chkSum' \in Nat /\ chkSum' < Acc /\ readSum' \in Nat /\ readSum' < Acc
        /\ changed' \in Nat \X Nat /\ changed'[1] < Word /\ changed'[2] < Word
        /\ Apart'
    BY <1>1, <2>2, AddBoth, Zenon DEF SumWord
  <2>4. blanks' \in Int /\ -1 <= blanks' /\ blanks' <= Word + 2
    BY <1>1, <2>1, SMT DEF SumWord, SumInv, SumTypeOK
  <2> QED BY <1>1, <2>3, <2>4, SMT DEF SumWord, SumInv, SumTypeOK
<1>2. ASSUME NEW b, NEW d, b \in 0 .. Byte - 1, d \in 0 .. Byte - 1, SumOddByte(b, d)
      PROVE  SumInv'
  <2>1. Byte \in Nat /\ Byte <= Word /\ Word \in Nat
    BY SMT DEF CodeWidths
  <2>2. b \in Nat /\ b < Word /\ d \in Nat /\ d < Word
    BY <1>2, <2>1, SMT
  <2>3. /\ chkSum' \in Nat /\ chkSum' < Acc /\ readSum' \in Nat /\ readSum' < Acc
        /\ changed' \in Nat \X Nat /\ changed'[1] < Word /\ changed'[2] < Word
        /\ Apart'
    BY <1>2, <2>2, AddBoth, Zenon DEF SumOddByte, OddByte
  <2>4. blanks' \in Int /\ -1 <= blanks' /\ blanks' <= Word + 2
    BY <1>2, <2>1, SMT DEF SumOddByte
  <2> QED BY <1>2, <2>3, <2>4, SMT DEF SumOddByte, SumInv, SumTypeOK
<1>3. CASE UNCHANGED sumVars
  BY <1>3, SMT DEF sumVars, SumInv, SumTypeOK, Apart
<1> QED BY <1>1, <1>2, <1>3 DEF SumNext

\* The accumulators of calc_checksum stay within 32 bits.
THEOREM SumTypeCorrect == ASSUME CodeWidths PROVE SumSpec => []SumTypeOK
<1>1. SumInv => SumTypeOK
  BY DEF SumInv
<1> QED BY <1>1, SumInitial, SumStep, PTL DEF SumSpec

\* calc_checksum notices every change of one word of an image of any length, with
\* the exception of zeros for ones: the wrap of the accumulator hides none.
THEOREM EveryChangeIsNoticed == ASSUME CodeWidths PROVE SumSpec => []ChangeNoticed
<1>1. ASSUME CodeWidths, SumInv PROVE ChangeNoticed
  <2> SUFFICES ASSUME changed[1] # changed[2], {changed[1], changed[2]} # {0, Word - 1}
               PROVE  Checksum(chkSum) # Checksum(readSum)
    BY DEF ChangeNoticed
  <2>1. PICK c \in Nat, r \in Nat, w \in Nat, v \in Nat :
             c = chkSum /\ r = readSum /\ w = changed[1] /\ v = changed[2]
    BY <1>1, SMT DEF SumInv, SumTypeOK
  <2>2. c < Acc /\ r < Acc /\ w < Word /\ v < Word
    BY <1>1, <2>1, SMT DEF SumInv, SumTypeOK
  <2>3. w # v /\ {w, v} # {0, Word - 1} /\ r - c \in {v - w, v - w - Acc, v - w + Acc}
    <3>1. w # v /\ {w, v} # {0, Word - 1}
      BY <2>1, Zenon
    <3>2. r - c \in {v - w, v - w - Acc, v - w + Acc}
      BY <1>1, <2>1, Zenon DEF SumInv, Apart
    <3> QED BY <3>1, <3>2, Zenon
  <2>4. Fold(c) # Fold(r)
    BY <1>1, <2>2, <2>3, FoldsDiffer, Zenon
  <2>5. Fold(c) \in Nat /\ Fold(r) \in Nat
    BY <1>1, <2>2, FoldValue, Zenon
  <2>6. Word - 1 - Fold(c) # Word - 1 - Fold(r)
    BY <1>1, <2>4, <2>5, SMT DEF CodeWidths
  <2>7. Checksum(chkSum) = Word - 1 - Fold(c) /\ Checksum(readSum) = Word - 1 - Fold(r)
    BY <2>1, Zenon DEF Checksum, Fold
  <2> QED BY <2>6, <2>7, Zenon
<1> QED BY <1>1, SumInitial, SumStep, PTL DEF SumSpec

\* The two folds are the ones' complement sum for every 32-bit accumulator.
THEOREM FoldsAreOnesComplement == ASSUME CodeWidths PROVE SumSpec => []SumsLikeOnesComplement
<1>1. ASSUME CodeWidths, SumInv PROVE SumsLikeOnesComplement
  <2>1. PICK c \in Nat : c = chkSum /\ c < Acc
    BY <1>1, SMT DEF SumInv, SumTypeOK
  <2>2. PICK k \in Nat : c = Fold(c) + (Word - 1) * k
    BY <1>1, <2>1, FoldValue, Zenon
  <2>3. Fold(c) \in Nat /\ Fold(c) < Word /\ (Fold(c) = 0 <=> c = 0)
    BY <1>1, <2>1, FoldValue, Zenon
  <2>4. CASE c = 0
    <3>1. Fold(c) = 0
      BY <2>3, <2>4, Zenon
    <3> QED BY <2>1, <2>4, <3>1, Zenon DEF SumsLikeOnesComplement, Fold
  <2>5. CASE c # 0
    <3> DEFINE f == Fold(c)
    <3>1. f \in Nat /\ 1 <= f /\ f < 65536 /\ c - 1 = (f - 1) + 65535 * k
      BY <1>1, <2>2, <2>3, <2>5, SMT DEF CodeWidths
    <3> HIDE DEF f
    <3>2. (c - 1) % 65535 = f - 1
      BY <3>1, SMT
    <3>3. f = ((c - 1) % (Word - 1)) + 1
      BY <1>1, <3>1, <3>2, SMT DEF CodeWidths
    <3> QED BY <2>1, <2>5, <3>3, Zenon DEF SumsLikeOnesComplement, Fold, f
  <2> QED BY <2>4, <2>5, Zenon
<1> QED BY <1>1, SumInitial, SumStep, PTL DEF SumSpec

(***************************************************************************)
(* As long as every word was blank and there were at most Word + 1 of      *)
(* them, the accumulator has not wrapped: the last sum is Acc - 1.         *)
(***************************************************************************)
BlankPart == 0 <= blanks /\ blanks <= Word + 1 => chkSum = blanks * (Word - 1)

\* One more blank word, while the sum still fits.
LEMMA BlankSum ==
    ASSUME CodeWidths, NEW n \in Nat, n <= Word
    PROVE  (n * (Word - 1) + (Word - 1)) % Acc = (n + 1) * (Word - 1)
<1>1. n * 65535 + 65535 \in Nat /\ n * 65535 + 65535 < 4294967296
  BY SMT DEF CodeWidths
<1>2. n * 65535 + 65535 = (n + 1) * 65535
  BY SMT
<1>3. (n * 65535 + 65535) % 4294967296 = (n + 1) * 65535
  BY <1>1, <1>2, SMT
<1>4. Word - 1 = 65535 /\ Acc = 4294967296
  BY SMT DEF CodeWidths
<1> QED BY <1>3, <1>4, SMT

\* No step breaks it.
LEMMA BlankStep == CodeWidths /\ SumInv /\ BlankPart /\ [SumNext]_sumVars => BlankPart'
<1> SUFFICES ASSUME CodeWidths, SumInv, BlankPart, [SumNext]_sumVars PROVE BlankPart'
  OBVIOUS
<1>1. Word \in Nat
  BY SMT DEF CodeWidths
<1>2. blanks \in Int /\ blanks >= -1
  BY SMT DEF SumInv, SumTypeOK
<1>3. ASSUME NEW w, NEW v, SumWord(w, v) PROVE BlankPart'
  <2>1. CASE blanks # -1 /\ w = Word - 1 /\ blanks <= Word + 1
    <3>1. blanks' = blanks + 1 /\ chkSum' = (chkSum + w) % Acc
      BY <1>3, <2>1, Zenon DEF SumWord, Add
    <3>2. blanks \in Nat /\ 0 <= blanks
      BY <1>2, <2>1, SMT
    <3>3. CASE blanks <= Word
      <4>1. chkSum = blanks * (Word - 1)
        BY <2>1, <3>2, Zenon DEF BlankPart
      <4>2. chkSum' = (blanks + 1) * (Word - 1)
        BY <2>1, <3>1, <3>2, <3>3, <4>1, BlankSum, Zenon
      <4> QED BY <3>1, <4>2, Zenon DEF BlankPart
    <3>4. CASE ~(blanks <= Word)
      <4>1. ~(blanks + 1 <= Word + 1)
        BY <1>1, <3>2, <3>4, SMT
      <4> QED BY <3>1, <4>1, Zenon DEF BlankPart
    <3> QED BY <3>3, <3>4, Zenon
  <2>2. CASE ~(blanks # -1 /\ w = Word - 1 /\ blanks <= Word + 1)
    <3>1. blanks' = -1
      BY <1>3, <2>2, Zenon DEF SumWord
    <3> QED BY <3>1, SMT DEF BlankPart
  <2> QED BY <2>1, <2>2, Zenon
<1>4. ASSUME NEW b, NEW d, SumOddByte(b, d) PROVE BlankPart'
  BY <1>4, SMT DEF SumOddByte, BlankPart
<1>5. CASE UNCHANGED sumVars
  BY <1>5, Zenon DEF sumVars, BlankPart
<1> QED BY <1>3, <1>4, <1>5, Zenon DEF SumNext

\* A blank image of at most 65537 words has the checksum 0, so that _chkNVEcc takes
\* it for valid against a header of zeros.
THEOREM BlankPassesForValid == ASSUME CodeWidths PROVE SumSpec => []BlankSumsToZero
<1>1. ASSUME CodeWidths, SumInit PROVE BlankPart
  BY <1>1, SMT DEF SumInit, BlankPart, CodeWidths
<1>2. ASSUME CodeWidths, SumInv, BlankPart PROVE BlankSumsToZero
  <2>1. PICK b \in Int : b = blanks
    BY <1>2, SMT DEF SumInv, SumTypeOK
  <2>2. PICK c \in Nat : c = chkSum /\ c < Acc
    BY <1>2, SMT DEF SumInv, SumTypeOK
  <2>3. CASE 1 <= b /\ b <= Word + 1
    <3>1. 0 <= b
      BY <2>3, SMT
    <3>2. c = b * (Word - 1)
      BY <1>2, <2>1, <2>2, <2>3, <3>1, Zenon DEF BlankPart
    <3>3. PICK k \in Nat : c = Fold(c) + (Word - 1) * k
      BY <1>2, <2>2, FoldValue, Zenon
    <3>4. Fold(c) \in Nat /\ Fold(c) < Word /\ (Fold(c) = 0 <=> c = 0)
      BY <1>2, <2>2, FoldValue, Zenon
    <3> DEFINE f == Fold(c)
    <3>5. /\ f \in Nat /\ f < 65536 /\ (f = 0 <=> c = 0)
          /\ c = b * 65535 /\ c = f + 65535 * k
      BY <1>2, <3>2, <3>3, <3>4, SMT DEF CodeWidths
    <3> HIDE DEF f
    <3>6. f = 65535
      BY <2>3, <3>5, SMT
    <3>7. Word - 1 - f = 0
      BY <1>2, <3>6, SMT DEF CodeWidths
    <3>8. Checksum(chkSum) = Word - 1 - f
      BY <2>2, Zenon DEF Checksum, f
    <3> QED BY <3>7, <3>8, Zenon DEF BlankSumsToZero
  <2>4. CASE ~(1 <= b /\ b <= Word + 1)
    <3>1. Word \in Nat
      BY <1>2, SMT DEF CodeWidths
    <3>2. b \notin 1 .. Word + 1
      BY <2>4, <3>1, SMT
    <3> QED BY <2>1, <3>2, Zenon DEF BlankSumsToZero
  <2> QED BY <2>3, <2>4, Zenon
<1> QED BY <1>1, <1>2, BlankStep, SumInitial, SumStep, PTL DEF SumSpec
=============================================================================
