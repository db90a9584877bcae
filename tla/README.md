# Verification of vendor/sprd/open-source: system daemons and camera threads

The repository is the open part of Spreadtrum's Android vendor tree: small
daemons under `src/apps` that tie the application processor (AP) to the
co-processors of the chip (the modem CP and the connectivity processor CP2),
hardware abstraction libraries under `src/libs` and test programs under
`src/tools`. The libraries mostly wrap drivers and binary codecs. The logic that
has to survive crashes, concurrency and lost messages is in the daemons and in the
threads of the camera library. This directory models three daemons, `nvitemd`,
`wcnd` and `modemd`, and of the camera library the message queue and the preview,
checks the models with TLC and proves main properties with TLAPS.

1. [Inventory](#1-inventory)
2. [Modules and how they correspond to the code](#2-modules-and-how-they-correspond-to-the-code)
3. [Runs](#3-runs)
4. [What is proved](#4-what-is-proved)
5. [Where code and comments disagree](#5-where-code-and-comments-disagree)
6. [What is not modelled](#6-what-is-not-modelled)
7. [Plan](#7-plan)

To repeat everything: `tlc -config X.cfg M` for the configurations of section 3
and `tlapm M_proofs.tla` for the eight proof modules.

## 1. Inventory

### nvitemd (`src/apps/nvitem`)

The modem keeps its parameters (calibration data, IMEI, run-time settings) in NV
partitions whose master copy lives in RAM of the AP. The CP reports changes over
a pipe; `nvitemd` applies them and stores them in files.

    CP --packets--> nvitem_packet.c --> nvitem_sync.c --> fromChannel
                                                             | backupData / restoreData
                                                          backup          (mutex)
                                                             | __getData, in the save task
                                                          toDisk
                                                             | ramDisk_Write
                                                      imagePath, imageBakPath

| part | state | operations | what is hard | what makes it correct |
|---|---|---|---|---|
| disk images, `nvitem_fs.c` | two files per partition, each a 512-byte header with a checksum and a payload | `ramDisk_Init`, `ramDisk_Read` (reads, falls back, repairs), `ramDisk_Write` | power loss between `open(O_TRUNC)`, `write` and `fsync`; one of two images failing; blank buffers that pass the checksum | a restart reads the old or the new content, never a mixture; a repair copies what was stored; 1 is returned only if every image that could be opened is written |
| checksum, `calc_checksum` | a 32-bit accumulator | summing, two folds | overflow, the odd byte, 0 against 0xFFFF | a change of one word is noticed |
| buffers, `nvitem_buf.c` | three stages per partition, each with a dirty table | `writeData`, `_markDirtyInfo`, `backupData`, `restoreData`, `saveToDisk` | two threads copy through `backup`; dirty bits are read without the mutex; failed writes; in calibration mode a different thread saves | the disk holds whole requests; a difference between stages is marked dirty; a failed request leaves nothing behind |
| threads, `nvitem_os.c`, `nvitem_server.c` | a mutex, a condition variable | `getMutex`, `putMutex`, `waiteEvent`, `giveEvent` | a condition variable without a predicate: lost signals, spurious wake-ups | a commit reaches the disk |
| packets, `nvitem_packet.c` | current group and sub index, the packet last read | `_getPacket`, `__sendPacketRsp` | lost, repeated, stale packets; `read` errors | packets of one request are taken once and in order |
| analyzer, `nvitem_sync.c` | a three-state parser | `syncAnalyzer` and the token functions | requests given up half-way, packets cut anywhere, the channel failing | a commit is one whole request; a positive answer to the last packet means a commit; a well-formed request is accepted |

### wcnd (`src/apps/wcnd`)

`wcnd` supervises CP2 (Bluetooth, WLAN, FM). `cp2_listen_thread` watches the
assert and watchdog devices. `cp2_loop_check_thread` sends a message through the
loop device every few seconds. Both only announce an exception to the clients
of the daemon's socket. A client (`WcnManagerService`) answers with "wcn reset",
which `client_listen_thread` executes: wait for slog to dump the memory of CP2,
stop, download, start, poll, and repeat on failure.

State: `is_cp2_error` and `doing_reset`, shared by three threads without a lock;
the client table; the system properties `persist.sys.sprd.wcnreset` and
`persist.sys.sprd.wcnlog.result`. Hard: an event during or at the end of a
reset; a step of the reset failing; CP2 dying again while it boots; the client
being away; the loop check being switched off by a flag that only a successful
reset lowers. Correct means: somebody always acts on a raised error flag; CP2 is
announced alive only after it answered; retries are bounded; CP2 comes back.

The client table (`client_fds`, guarded by `client_fds_lock`) is used by
`client_listen_thread`, which accepts, reads and drops clients, and by every thread
that notifies. The lock guards the table and not the descriptors, whose numbers the
kernel gives away as soon as they are closed. Hard: a full table; a socket closed by a
notification between `select` and `read`; both sides closing the same socket. Correct
means: nobody closes a descriptor that is not its own, no client is lost while there
is room, every client is told, and a command is read.

### modemd (`src/apps/modemd`)

`modemd` supervises a modem. `detect_sipc_modem` waits for events of the assert and
the watchdog device, `detect_modem_blocked` for reports of the phoneserver. Each of
them reloads the modem itself: stop it, load the image, restart the services, start it,
wait 20 s for it on a timer, announce it alive, shake hands, declare it `READY`. State:
`td_modem_state`, guarded by a mutex; the set `rfds`; `wakealarm_fd` and `epollfd`,
guarded by nothing; the system properties. Hard: two reloads at the same time; a device
dropped from `rfds`; a timer or an epoll object created twice; a step of the reload that
fails; `exit(-1)` in the handshake. Correct means: `READY` and "Modem Alive" are true,
a modem that is not `READY` is being reloaded, a failed modem runs again.

### Camera library (`src/libs/libcamera/sc8830/src`)

Five threads: the HAL's, which calls; the main thread, which executes; the thread that
grabs frames from the driver; the preview thread, which handles them; the face detection
thread. They exchange messages through the queues of `cmr_msg.c` and share two global
contexts, mostly without a lock.

| part | state | operations | what is hard | what makes it correct |
|---|---|---|---|---|
| message queue, `cmr_msg.c` | a ring, two pointers, a counter, a mutex, a semaphore | `cmr_msg_post`, `cmr_msg_get`, `cmr_msg_timedget`, `cmr_msg_peak` | the counter and the semaphore change apart; a pointer read before the mutex; a full ring; a return with the mutex locked | a bounded queue, first in first out; the semaphore is exact; nobody is left waiting |
| preview, `SprdOEMCamera.c`, `cmr_v4l2.c`, `cmr_oem.c` | `preview_status`, `v4l2_state`, `chn_1_status`, `recover_status`, `recover_cnt`, `is_working` | start, stop, error recovery, close, frame handling | stop during a recovery or with frames under way; a start that fails half-way; re-opening before the old thread has left | no frame in use after a stop; waiting calls return; endless errors are given up |
| face detection, `cmr_arith.c` | `fd_busy`, `fd_is_inited`, `arith_fd_flag`, memory for one frame, one semaphore for two purposes | init, start, exit, deinit | destruction while the thread works; missing memory; a full queue | the frame is kept until it was copied; nothing is destroyed in use |

### The other daemons

* `modem_control` (`src/apps/modem_control`): boots an external modem over a
  serial link: handshake, download in frames, retries, a state machine driven by
  messages.
* `refnotify` (`src/apps/refnotify`): executes the modem's commands to set and
  read date and time and to reset; a second thread reports screen sleep and wake
  over the same descriptor.
* `slog`, `vlog`, `engmode`, `engmoded`, `batterysrv`, `charge`, `alarm`,
  `aGPS`, `calibration_init`: logging, diagnostics and start-up programs; see
  section 6.

How the daemons interact: `modemd` stops and starts the telephony and engineering
services through `ctl.stop` and `ctl.start`; `wcnd`, `modemd`, `slog` and their
clients exchange one-line messages over local sockets; `slog` reports the end of a
CP2 dump to `wcnd` by a system property. Everything else goes through the
co-processors.

`PROJECT.json` lists every component with its status and, under `hazards`, each
place of the modelled code that tests hardly reach, with the properties aimed at
it. Hazards without a property say why.

## 2. Modules and how they correspond to the code

| module | models | composed with |
|---|---|---|
| `NvStore` | what one partition's storage promises: an atomic durable register in one read order, less in the other | abstract specification of `NvFs`; `NvBuf` uses its `TakeEffect` as the disk |
| `NvFs` | `ramDisk_Read`, `ramDisk_Write` and power loss | refines `NvStore` |
| `NvChecksum` | `calc_checksum` | justifies the injective checksum of `NvFs` |
| `NvBuf` | the three stages and the two threads | the disk is `NvStore`'s register; a request is what `NvSync` delivers |
| `NvDirty` | `_markDirtyInfo` on the table of 32-bit words | its `Marked` is the dirty set of `NvBuf` |
| `NvSync`, `MCNvSync` | packet layer, analyzer and channel, with a CP | `backupData`/`restoreData` are single steps, detailed in `NvBuf` |
| `WcndReset` | detection and reset of CP2 in `wcnd` | the client's side of the socket is abstract |
| `WcndClients` | the client table of `wcnd` | a notification of `WcndReset` is one round of its `Notify*` steps |
| `Modemd` | detection and reload in `modemd` | |
| `CmrFifo` | what a message queue promises | abstract specification of `CmrMsg`; the queues of `CmrPreview` are sequences used in this way |
| `CmrMsg` | `cmr_msg.c` | refines `CmrFifo` |
| `CmrPreview` | a preview session with face detection | |
| `*_proofs` | theorems of the module they extend; `NvFs_proofs` also extends `NvChecksum`, `NvBuf_proofs` also `NvDirty` | |

Operators named as variants ("Variant: ...") are mutated forms of the
definition that follows them. They are not part of a specification. They serve
to show that each property notices a plausible bug.

**NvFs.** One partition. `image[f]` is what a crash at this instant would leave
of file `f`: the payload whose checksum its header holds (`head`) and the
payload (`body`). `ReadFirst`, `ReadSecond` and the rewriting steps in state
`"fix"` are `ramDisk_Read`; `Save` and the rewriting steps in states `"bak"` and
`"ori"` are `ramDisk_Write`. Opening truncates. From then until `fsync` returns
the kernel may have written any part of header and payload (`Partial`,
`WriteBack`). `ret2` is modelled because the code uses it after a failed `open`.
`rand()` is never seeded, so its n-th result is the same at every start: the
image a partition reads first (`firstName`) is chosen once, in `Init`, and both choices
are followed. Each `open` and each `write` may fail. `unopened` and `broken` are histories of that: the images
the last call could not open, and that anything has failed at all. A zero header is the
header of a blank payload if the partition has at most 65537 words
(`BlankSumsToZero` of `NvChecksum`).

**NvStore.** If the origin is read first (`careful`) the storage is an atomic register.
Otherwise a write first destroys the copy that counts: until the new content is stored a
restart finds `spare`, what the write before left in the other image
(`FallBack`), and while the origin is rewritten there is no spare (`LoseSpare`). A power loss
there and another one in the next write lose everything; `NvStore` allows that, since the code
does it. After a failed `open` or `write` nothing is promised (`broken`).

**NvChecksum.** The buffer as written and the buffer as read are summed in step,
and one word may differ. Widths are constants; the code's are 2^8, 2^16, 2^32.
Its names begin with `Sum` where `NvFs` has the same ones, so that one proof module extends both.

**NvBuf.** `chan`, `bak`, `tod` are the three stages, with their dirty sectors.
A `memcpy` is one step per sector, in any order, since only then an unprotected
copy could show a mixture. `pc` is the position of each thread; `saveToDisk` runs
in `"save"` or, in calibration mode (`caliMode`, chosen in `Init`), in `"main"`. `Notify` is `giveEvent`:
without a waiter the signal is lost, which the history variable `missed`
records. `WriteFails` leaves the old or the new content on the disk.
The disk is `NvStore`'s register in the read order in which its writes are atomic. `Spurious` is the set of
modes in which `pthread_cond_wait` may return without a signal.

**NvDirty.** A word is the set of its 1 bits, each loop iteration a step. An
empty range shifts by 32, which C leaves undefined: both outcomes of the
hardware are possible. Its names begin with `Mark` where `NvBuf` has the same ones.

**NvSync.** The stream of a request is a sequence of words cut into packets. `UpTo` builds
it range by range, each range a body token (start and number of sectors) and its data.
The daemon does not check a range (`writeData`): `RequestsAssumption` says that the CP sends
only ranges inside the partition.
One iteration of `syncAnalyzer`'s loop is one action. The CP is external: it
numbers its requests (`grp`) and packets (`nextSub`). If `reliable` is FALSE it may
resend, give a request up, and the channel may lose packets, fail, or `read` may
return -1. That value, as an unsigned number, is not less than the size asked
for, so the packet before is taken again (`ReadError`). After a short read
(`ChannelFails`) `packeBuf` holds the packet before, or none. If `reliable` is TRUE the
CP sends the next packet as soon as the channel is free, whether or not the last one was
answered: a packet that ends with an item gets no answer.

**WcndReset.** One action per access to shared state of the three threads.
`hpc` is the position of the two detecting threads inside their handlers, `lpc`
that of `client_listen_thread` inside `do_cp2_reset_process`. CP2, the client and
slog are external. Sleeps are the time between two steps. The 300 s that
`wait_for_dump_logs` may take are over at any time (`WaitForDump`).

**WcndClients.** `file[f]` is what the kernel has behind descriptor `f`: a connection,
the loop device or nothing. `accept` and the loop test's `open` get the lowest free
number, as POSIX prescribes. The steps of `client_listen_thread` are `build` (FD_SET of the
table), `select`, `accept`, `store` (`store_client_fd`), `pend`, `read`, `zap` and
`notify`. `pending` is the array `pending_fds`; its loop goes through the slots in order, so it
takes the lowest one that still waits (`Turn`). A notification walks over the slots under the lock, closes the sockets whose
peer has gone and clears their slots in a step of its own. `displaced`, `closed` and
`due` are histories that the properties use.

**Modemd.** One modem. `pc[t]` is the position of each thread, in the same sequence of steps
(`LoadSteps`) when it reloads. `rfds` is kept as a variable because the code does not
rebuild it after `select`. Timers and epoll objects are numbered in the order of their
creation, so that two threads can create two. The test and the assignment of `wakealarm_fd`
and of `epollfd` are steps of their own, as is the test of the result, which reads the
shared variable again. `timerfd_create`, `epoll_create`, `epoll_ctl` and
`timerfd_settime` may fail, and the reload may be refused at its beginning
(`LoadRefused`); a reload that returns -1 leaves the state as it was (`GiveUp`,
`aborted`). External: the modem, the phoneserver,
init. The loop test is left out: the code does not use its result.

**CmrMsg.** Any number of producers and consumers. A step is what a thread does under
the mutex or between two uses of mutex and semaphore. Storing and wrapping are two
steps under the mutex; reading `ori_node` before it is another. `cmr_msg_peak` with an
empty ring leaves with the mutex locked, as the code does. `ret` is what the last
`cmr_msg_post` of a thread returned; `CmrFifo` has a step for each answer, so that
the refinement also says when a message may be refused.

**CmrPreview.** A step is what lies between two accesses to a field that another thread
uses as well. `app` is the HAL, `main` and `job` the main thread, `prev`, `grab` and `fd` the
others, `old` the main thread of the session before, if the camera was opened again before
it had left. The HAL (`SprdCameraHardwareInterface.cpp`) is followed in its preview state: `failed` stands for
`SPRD_ERROR` after `CAMERA_EXIT_CB_FAILED`, from when on it takes a running preview for ended
(`NotPreviewing`), starts another one over it or closes the camera. It learns of a failure in the
step that reports it; the code uses a thread of its own for that, so the real HAL may
learn of it later. The wait for the first frame (`WaitForPreviewStart`) may end in vain.
Rotation, zero-shutter-lag and capture are left out. `scope` is what may happen in a
behaviour: device errors, face detection, queues filled by messages of the parts that are left out (`"flood"`: every post to
the main and to the preview thread may be refused), and a camera that is opened again
before the old main thread has gone (`"late"`). `risk` is a history of what
the code is not prepared for; each of these is behaviour of the model, and a property
that does not hold after one of them names it:

| `risk` | what happened | excepted by |
|---|---|---|
| `"halfway"` | `cmr_v4l2_cap_start` failed after channel 1 was marked busy: the next error restarts a preview that was stopped | `Orderly` |
| `"unstopped"` | the HAL takes a preview that it did not stop for stopped: it was told of a failure, or a stop could not be sent; until the next complete stop | `Orderly` |
| `"full"` | the queue of the face detection thread was full: it is destroyed without waiting for the thread | `Orderly`, `CallsReturn` |
| `"midway"` | the face detection thread was asked to exit by a restart while frames may still come: main and preview thread wait on the same semaphore | `Orderly`, `CallsReturn` |
| `"second"` | the old main thread found the new one's `is_working` and goes on beside it | `Orderly` |
| `"overtaken"` | the same, or the old main thread cleared the new one's `is_working` | `CallsReturn` |
| `"stuck"` | a thread that could not be created, or could not be asked to exit, is waited for | `CallsReturn` |
| `"nomem"` | a frame was to be searched when there was no memory | `BusyMeansWorking` |

`Orderly` is the hypothesis of `QuietAfterStop`, `FrameHeld`, `NothingDangling` and
`BusyMeansWorking`. Only `TypeOK`, `CallsReturn` and `GivesUp` speak of the rest.

## 3. Runs

| run | configuration | property | result |
|---|---|---|---|
| `fs` | `NvFs.cfg` | `FirstFixed`, `AckMeansStored`, `RepairIsACopy`, `StoreSpec` | pass |
| `fs_order` | `NvFs_order.cfg` | `OriginFixed` | violated: section 5, case 1 |
| `buf` | `NvBuf.cfg` | `DiskIsACommit`, `NothingForgotten`, `FailedRequestLeavesNoTrace`, `CaliAckIsDurable`, `CommitReachesDisk` | pass |
| `sync` | `NvSync.cfg` | `TypeOK`, `LastAckMeansCommitted`, `CommitIsWhole`, `RequestCommitted` | pass |
| `sync_token` | `NvSync_token.cfg` | `RequestCommitted` | violated: section 5, case 2 |
| `dirty` | `NvDirty.cfg` | `InTable`, `MarksTheRange` | pass |
| `checksum` | `NvChecksum.cfg` | `ChangeNoticed`, `SumsLikeOnesComplement` | pass |
| `reset` | `WcndReset.cfg` | `AliveMeansAnswered`, `NoSilentError`, `Recovers` | pass |
| `clients` | `WcndClients.cfg` | `TypeOK`, `OwnDescriptors`, `NoOrphan`, `NotifiedAll`, `DisplacedOnlyIfFull`, `CommandServed` | pass |
| `modemd` | `Modemd.cfg` | `TypeOK`, `ReadyIsRunning`, `NotReadyIsHandled`, `WaitIsTimed`, `Recovers` | pass |
| `queue` | `CmrMsg.cfg` | `FifoSpec`, `FifoLive` | pass |
| `preview` | `CmrPreview.cfg` | `TypeOK`, `QuietAfterStop`, `FrameHeld`, `NothingDangling`, `BusyMeansWorking`, `CallsReturn`, `GivesUp` | pass |

Properties that a theorem of section 4 states for every instance are left out of the runs
where another property would notice the same faults: the type invariants of `NvFs`, `NvBuf`,
`NvDirty`, `NvChecksum`, `WcndReset` and `CmrMsg`,
`CopiesExclude`, `MarksNothingElse`, `BlankSumsToZero`, and the parts
of `CmrMsg`'s invariant.

What they show, with the bounds and why they are enough:

* **fs, fs_order.** Three snapshots: one stored before, one being written, one
  written next. A crash may happen after every system call, and any number of
  times, so a crash during the repair of an earlier crash is included. Both read orders,
  every `open` and every `write` failing, a partition small enough for a blank buffer to pass the
  check. Until the first failure the two files
  implement `NvStore` and the image that is read first is repaired; after it a return value of 1 still means that
  every image that could be opened was written, and a repair still writes what
  was read. Short writes on both images can
  lose both: then `NvStore` promises nothing. `fs_order` has no failing call at all, and shows that
  the repair of the *origin*, which the comments describe, depends on the order.
* **buf.** One partition, two sectors, two values: two sectors are needed
  for a mixture of two requests, two values to tell them apart. Both modes, any number of
  requests, failed requests, failing writes and restarts, and spurious wake-ups in normal mode. `CommitReachesDisk`
  states what the event without a predicate still gives: a commit stays in RAM
  only if its signal was given while the save task was busy or its write
  failed. In calibration mode
  `backupData` answers 1 whether or not the save succeeded; the property says
  exactly that: the disk holds the request, or its own snapshot is recorded as
  not written in the dirty bits of `toDisk`. The safety properties are proved for any number of
  partitions, where `saveToDisk` loops.
* **sync, sync_token.** Two partitions of two sectors of two words. The requests have one range
  of two sectors, two ranges out of order, another partition, an unknown
  partition. Packets of up to eleven words (head, body and one word of data),
  cut in `sync` at every place inside data or between items, in `sync_token` also inside a token. Two requests in a row
  (`MaxGroup = 1`), so that one can be given up, fail or be repeated while the
  next begins. The reliable and the unreliable CP are two initial states of
  `sync`; `sync_token` has the reliable one, so that nothing but the cut can be the cause.
* **dirty.** A table of three words and all ranges between seven edges at and next to
  word boundaries, in any sequence.
* **checksum.** Words of 4 bits and an accumulator of 8 bits, wrapping included, for
  buffers of any length (the accumulators are the whole state). The theorems
  cover the widths of the code.
* **reset.** Two faults (crash of CP2, unsolicited command, client restart), one
  command queued, one retry, two loop tests per attempt; every access to a
  control file may fail. Two faults are enough for a crash during or right after
  the reset that answers a crash. The retry limits of the code, 3 and more, only
  lengthen the run. Deadlock is not checked: with resets switched off, or after
  giving up, everybody may be idle, and the number of faults is bounded.
* **clients.** A table of two slots (10 in the code), three connections, of which one sends
  commands, and three descriptor numbers: enough to fill the table and overflow it, to
  give a closed number to the next client or to the loop device, and to run out of
  numbers. Connections are bounded, so everybody may be idle: no deadlock check.
* **modemd.** Three faults: failures of the modem, false reports, refused and failing loads, failing
  `timerfd_create`, `epoll_create`, `epoll_ctl` and `timerfd_settime`,
  tty and handshake. Two are needed for a failure during a reload and for two threads to
  reload at the same time, a third for a failing call in such a race, or a failure after a handshake ended the process and
  init restarted it. Deadlock is not checked, since an exited process or a modem given up stops.
* **queue.** Two producers, two consumers, two messages, three slots: a ring that wraps, is full (two
  messages) and has two threads at each end. The theorems cover every other size.
* **preview.** One frame in the preview queue, one error event waiting, a face detection queue of 2
  messages (full with start and exit; 4 in the code), two recoveries (3 in the code). The
  number of sessions is not bounded. `Toggles = 0`: the HAL switches face detection on or off only
  when that queue is empty (a guard of `SendCommand`). `Scopes` lists what a behaviour may contain: the run has three kinds, device
  errors; face detection; full queues with late re-openings. Together they exceed its time. The theorems
  of section 4 cover all of them together, and all bounds, for the safety properties; the two liveness
  properties are checked for each kind alone. Deadlock is not checked: the HAL need not call, and the
  code may wait in vain.

**Fairness.** `NvBuf!FairSpec`: both threads are scheduled (weak fairness of their
steps), and the save task gets the mutex if it is free again and again (strong
fairness of `Acquire`): the main thread holds it only for a copy and then waits
for the CP. Nothing is assumed of the CP, of spurious wake-ups or of crashes.
`NvSync!FairSpec`: the daemon's thread runs and the CP, where it is reliable, goes
on with its request. `WcndReset!FairSpec`: the three threads run, a started CP2
boots unless it crashes, the client answers what it has read, and init restarts
it. `WcndClients!FairSpec`: `client_listen_thread` runs and gets the lock if it is
free again and again (strong fairness), a notification that began ends.
`Modemd!FairSpec`: the two threads run, and the phoneserver reports a modem that does
not answer, which is its task; nothing is assumed of the modem, of I/O or of init.
`CmrMsg!FairSpec`: a thread that is inside a call goes on, and consumers keep asking,
as the thread loops of the library do. `CmrPreview!FairSpec`: each of the threads runs;
nothing makes the HAL call or the driver deliver.

**Mutants.** For each property of a passing run, `PROJECT.json` names a variant of one
definition (a dropped guard, a swapped order, an off-by-one) under which TLC
finds that property violated.

## 4. What is proved

For every value of the constants, under the assumptions the modules declare:

| theorem | statement | further hypothesis |
|---|---|---|
| `NvFs_proofs!TypeCorrect` | `Spec => []TypeOK`, both read orders, any faults | |
| `NvFs_proofs!FirstIsFixed` | `Spec => []FirstFixed`, both read orders, until the first fault | |
| `NvFs_proofs!ImplementsStore` | `Spec => StoreSpec` (refinement), both read orders, until the first fault | |
| `NvFs_proofs!AcknowledgedIsStored` | `Spec => []AckMeansStored`, both read orders, any faults | |
| `NvFs_proofs!RepairCopies` | `Spec => RepairIsACopy`, both read orders, any faults | |
| `NvBuf_proofs!TypeCorrect` | `Spec => []TypeOK` | |
| `NvBuf_proofs!CopiesAreExclusive` | `Spec => []CopiesExclude` | `OneSaver` |
| `NvBuf_proofs!DiskHoldsCommits` | `Spec => []DiskIsACommit` | `OneSaver` |
| `NvBuf_proofs!NothingIsForgotten` | `Spec => []NothingForgotten` | `OneSaver` |
| `NvBuf_proofs!FailuresLeaveNoTrace` | `Spec => []FailedRequestLeavesNoTrace` | `OneSaver` |
| `NvBuf_proofs!CaliAckDurable` | `Spec => []CaliAckIsDurable` | `OneSaver` |
| `NvBuf_proofs!MarkTypeCorrect`, `StaysInTable`, `MarksEverySector`, `MarksNoOtherSector` | the four invariants of `NvDirty`, any table size and ranges | |
| `NvFs_proofs!SumTypeCorrect` | `SumSpec => []SumTypeOK` | `CodeWidths` |
| `NvFs_proofs!EveryChangeIsNoticed` | `SumSpec => []ChangeNoticed` | `CodeWidths` |
| `NvFs_proofs!FoldsAreOnesComplement` | `SumSpec => []SumsLikeOnesComplement` | `CodeWidths` |
| `NvFs_proofs!BlankPassesForValid` | `SumSpec => []BlankSumsToZero` | `CodeWidths` |
| `NvSync_proofs!TypeCorrect` | `Spec => []TypeOK`, any requests and cuts | |
| `NvSync_proofs!EvenBetweenRequests` | `Spec => []BetweenRequests`: `syncState = 0 => chan = bak`, any requests and cuts | |
| `NvSync_proofs!CommitsAreWhole` | `Spec => CommitIsWhole` (action property), any requests | `NoTokenCut` |
| `NvSync_proofs!LastAckIsCommit` | `Spec => []LastAckMeansCommitted`, any requests | `NoTokenCut` |
| `WcndReset_proofs!TypeCorrect`, `AliveIsTrue`, `ErrorsAreAnswered` | `TypeOK`, `AliveMeansAnswered`, `NoSilentError`, any limits and number of faults | |
| `WcndClients_proofs!TypeCorrect`, `DescriptorsAreOwned`, `NoSocketLeaks`, `EveryClientNotified` | `TypeOK`, `OwnDescriptors`, `NoOrphan`, `NotifiedAll`, any table size, descriptors and number of clients | |
| `WcndClients_proofs!ClientsLostOnlyWhenFull` | `Spec => DisplacedOnlyIfFull` (action property) | |
| `Modemd_proofs!TypeCorrect`, `ReadyMeansRunning`, `NotReadyMeansHandled`, `WaitsAreTimed` | `TypeOK`, `ReadyIsRunning`, `NotReadyIsHandled`, `WaitIsTimed`, any number of faults | |
| `CmrMsg_proofs!TypeCorrect`, `PointersStayApart`, `SemaphoreIsExact`, `NoUnderflow`, `MutexIsReleased` | the five invariants, any number of threads, messages and slots | |
| `CmrMsg_proofs!ImplementsFifo` | `Spec => FifoSpec` (refinement) | |
| `CmrPreview_proofs!TypeCorrect`, `NoFrameAfterStop`, `FrameIsHeld`, `NothingIsDangling`, `BusyIsWorking` | `TypeOK`, `QuietAfterStop`, `FrameHeld`, `NothingDangling`, `BusyMeansWorking`, any queue lengths, recoveries and scopes | |

"Until the first fault" is part of the properties of `NvFs`, not a hypothesis of the
theorems: `broken` becomes true when an `open()` or a `write()` fails, and `FirstFixed` and
`NvStore` promise nothing from then on. The hypotheses of the others: `OneSaver`: the
condition variable does not wake up spuriously in calibration mode, since then two threads
run `saveToDisk` on the same buffers. `CodeWidths`: 2^8, 2^16, 2^32. `NoTokenCut`: the CP ends
no packet inside a token; packets may end inside data or between items, and be lost, repeated
or read twice. Without it both properties fail (section 5, case 2).

The inductive invariants:

* `NvFs_proofs!IInv`: `TypeInv`, `FirstFixed` and, until the first fault, `ValidMeansStored`,
  `ReadPart` and `WritePart`. `FirstFixed` alone is not inductive: whether a truncation is
  safe depends on what the *other* image holds at that place. If the origin is read
  first, the backup is truncated only if the origin is good or both are bad; in either
  order the origin is truncated only once the backup holds the new content.
  `ValidMeansStored` excludes a torn or blank content that passes the check.
  The refinement maps `val` to the content the next start would choose (`Survivor`) and
  `spare` to what the origin image holds (to `Survivor` again if the origin is read first).
  In that order the write takes effect when the origin, good until then, is truncated,
  or, on a partition never written before, when the backup is complete; in the other
  order the truncation of the backup falls back to the spare copy and the write takes
  effect when the backup is complete.
  The return value and the repair need less: `AckInv` says which image the
  write has already stored at each place, `RepairInv` that the buffer of a repair is what
  the second image holds, or blank if that image could not be opened.
* `NvBuf_proofs!Control` and `Data`. While a copy runs, the stages hold mixtures.
  `CopyPart` says which sectors have been transferred, `DirtyPart` lets the dirty
  bits of the earlier stage stand in for those of the later one during the copy,
  `CommitPart` says that outside copies each stage holds one request.
  For the answer in calibration mode `CaliPart` follows the request through the save:
  a partition is `Settled` (the disk has it, or `toDisk` has it and is marked), or it is `Ahead`
  of `saveToDisk` and marked in an earlier stage.
* `NvBuf_proofs!MarkInv`, with `NvDirty!Progress`: what was asked for is marked or is the rest still to be marked.
* `NvFs_proofs!SumInv`: the two sums differ by the difference of the changed word modulo
  Word - 1, also if one of them wraps, since Acc is 1 modulo Word - 1. For a blank image
  `BlankPart`: the sum is the number of words times Word - 1, and Word + 1 words just fit.
* `NvSync_proofs!ContentInv`. What the analyzer does with a word depends on where in the
  stream the packet begins, and the daemon keeps no such position. The invariant says
  that a layout `e` exists, `e[g][s]` being the words of group `g` before its packet `s`, such that
  every packet on the way, resent or read is the piece of its group's stream that `e` says
  (`Genuine`), the analyzer stands at the place of the stream that its state, frame number and
  remaining length denote (`ParserAt`), `fromChannel` holds the backup with the ranges
  written so far (`Written`, a later range over an earlier one), and a positive response to
  the last packet is that of a committed group (`RspInv`). Sending a packet extends `e` by one entry.
  That a token is never cut (`TokensWhole`) and that the whole stream gives `Apply`
  (`WrittenAll`) rest on lemmas about the stream, by an induction over the ranges that
  `Induction` derives for sets of numbers from the well-foundedness of the natural numbers.
  `EvenBetweenRequests` needs only `OnlyPart`: `fromChannel` differs from `backup` at most
  in the partition of the request in progress.
* `WcndReset_proofs!Inv`: `Position` relates `client_listen_thread` to the flags.
  The decisive part is that `doing_reset` is never set while the listener is idle or about
  to lower `is_cp2_error`: a handler that drops its event because of
  `doing_reset` therefore drops it while a reset is still under way.
* `WcndClients_proofs!Inv`: `OwnDescriptors` alone is not inductive, since a
  number that is closed may be given out again before its slot is cleared. The parts of
  `Descriptors`: no two slots have the same number, not even one that was just closed
  (`Distinct`); a slot in use, or the socket just accepted, has a connection behind
  it (`Owned`) that no other descriptor has (`Unique`); every open socket is reached from
  the table, is the accepted one or was overwritten (`Kept`); the clients a notification
  still owes a message are at slots ahead of it (`DueAhead`). That a client is
  overwritten only if more clients are connected than slots exist is a pigeonhole argument
  (the map from slots to connections is injective), on the library's `FS_Injection`.
* `Modemd_proofs!Inv`: `Counted` counts the timers and epoll objects together with the
  threads about to create one, which bounds them by two more than the calls that failed,
  although no lock is held. `Watched` says, as long as no call of the alarm failed, that the
  epoll object in use watches a timer or is about to, and that every wait is `Served`: by a
  timer that runs, by one that was replaced, by one the other thread will set, or
  by a running one the other thread will register. `Restarts` says who will start a stopped
  modem and its services; `Exited`: `exit` ends both threads.
* `CmrPreview_proofs!Inv`: a message is in a queue, with the thread that took it, or
  in the semaphore it has been answered with. `CallOnce` says that each call of the HAL
  is in one of these places, `OneAnswer` the same of the semaphore on which two threads
  wait for the face detection thread: it is posted once per wait. `Quiet` says that nothing is behind
  the message that stops the preview, since `chn_1_status` is idle by then. `Ended`: a start
  ends an old face detection only when no frames are left, or the risk `midway` is recorded.
  `Clean` says what a closed session leaves behind, which is needed because opening the
  camera again makes the session orderly again. The parts hold under what they need:
  `Quiet` and `Lowered` if the session is `Calm`, `Rest` if it is `Orderly`, `OneAnswer` if it
  is calm and was not closed over a running preview. `FdQueueStep` gives the queue of the
  face detection thread after every step once, for all parts that speak of it.
* `CmrMsg_proofs!IInv`: `OneWriter` (the mutex is locked exactly when one producer is at a
  step under it), `Pointers` (`msg_write` is `msg_number` slots after
  `msg_read`, or past the end for the producer that has to wrap it) and
  `SemaphoreCounts`, which counts the threads that have changed one of counter and
  semaphore and not yet the other; its steps rest on the cardinality theorems of the library.
  With it a consumer past the semaphore finds a message, so
  `cmr_msg_peak` never reaches the return that leaves the mutex locked.
  The refinement maps the queue to the `msg_number` slots from `msg_read` on. It needs
  `Stored`: the slot a producer has counted and not yet left holds its message. A call
  counts as answered once `msg_number` counts its message, or once it has seen the queue
  full under the mutex, so that a refusal is a step of `CmrFifo` with a full queue.

Only model-checked:

* liveness (`CommitReachesDisk`, `RequestCommitted`, `Recovers` of `WcndReset` and of
  `Modemd`, `CommandServed`, `FifoLive`, `CallsReturn`, `GivesUp`), which the prover does
  not support.

## 5. Where code and comments disagree

1. **Read order** (`nvitem_fs.c:141`; run `fs_order`). The comment says the origin
   image is read first and fixed from the backup; the code draws the order with
   `rand() % 2`. If the backup is read first and is good, a broken origin is not
   repaired, and the next write truncates the backup: a second power loss then leaves no
   valid image. `FirstFixed` and `NvStore` say what holds in both orders.
2. **A token that continues in the next packet** (`nvitem_sync.c:101`; run `sync_token`).
   The comments say the analyzer waits for more information; it does not keep the bytes
   it already has, so a request cut there is not committed although nothing is lost. With
   such cuts `LastAckMeansCommitted` and `CommitIsWhole` fail too.
3. **A repair from a blank buffer** (`nvitem_fs.c:190`). If the second image cannot be
   opened, the length read from the first one is used in its place, and for a partition of
   at most 65537 words the blank buffer passes the check against the zeroed header.
   The run `fs` contains this case: `RepairIsACopy` says that the first image then becomes
   blank, and that nothing else is ever written there.
4. **A silent CP2** (`wcnd.c:1776`; `WcndReset.cfg` with `LoopCheckResets` as the
   property). "if fail, reset the cp2": the
   loop check only notifies the clients and then stays off until a reset
   succeeds. If the client is away at that moment, CP2 stays down.
5. **The wake alarm of two reloads** (`modemd_sipc.c:183`). The file-scope descriptors are tested
   and set without a lock. `WaitIsTimed` says exactly when a wait for the modem has a timer;
   with a timer replaced before it was set, after a failed call, or while the other
   thread has still to register or set it, it has none.
6. **Waits in vain in the camera library.** The result of posting `CMR_EVT_EXIT` is ignored
   before the wait (`SprdOEMCamera.c:3654`), that of `pthread_create` too
   (`cmr_arith.c:346`), and a camera opened again may keep the old main thread
   running (`SprdOEMCamera.c:4069`). These are in the run `preview`, as the risks of the table in
   section 2; `CallsReturn` holds in every behaviour that avoids them.

## 6. What is not modelled

* In the modelled daemons: the parsing of the configuration file and of path names
  (`initConfig`, `main` of `nvitem_server.c`), logging, the WIN32 variants,
  `nvitem_channel.c` (not part of the build: `Android.mk` takes `nvitem_channe_spipe.c`); in `wcnd`
  the command line parser, AT commands to CP2 and the generation of MAC addresses;
  in `modemd` the variant for the older chip (`modemd_vlx.c`), the client table, the control of
  the engineering service and the loop test.
* In the camera library: rotation, zero-shutter-lag, capture, scaling, settings, autofocus and the
  buffers of the driver (a frame the code forgets to return to the driver is not
  seen); the destruction of a message queue.
* A restart of the CP that reuses a group number, and a CP that sends nothing before the
  response to the packet before. The CP of `NvSync` numbers its requests without repetition.
* A packet buffer of which a short read overwrote the front and whose rest is an older
  packet. After a failing read `NvSync` lets the analyzer see the older packet or none.
* A `sem_wait` interrupted by a signal (`cmr_msg.c:69` does not test its result): the
  library installs no signal handler.
* In `CmrPreview`: what a second main thread does with the messages it takes (they are lost to
  the first one, and the risk `second` is recorded), callbacks of the HAL that arrive late, and a face detection thread left behind by a
  start: it is taken to stay blocked in its queue.
* `modem_control`, `refnotify`: planned, see below.
* `slog`, `vlog`, `engmode`, `engmoded`, `batterysrv`, `charge`, `alarm`, `aGPS`,
  `calibration_init`, the Java applications: interpreters of independent commands, user
  interfaces and copy loops with little shared state.
* The rest of `src/libs`: audio, sensors and image tuning of the camera, display, codecs and other
  hardware abstraction. Most of the repository's lines are here: register and tuning tables,
  codec wrappers and third-party code (mali, OMX components) with no state
  machine of their own.
* `src/tools`: test programs and host tools.

## 7. Plan

Done, in this order: `NvStore`, `NvFs`, `NvChecksum`, `NvBuf`, `NvDirty`, `NvSync`,
`WcndReset`, since losing the modem's parameters is the worst these daemons can do; then
`WcndClients`, `Modemd`, `CmrFifo`, `CmrMsg` with its proofs, and `CmrPreview`; then the
proofs of `WcndClients`, `Modemd` and `CmrPreview` and the missing ones of `NvFs` and `NvBuf`;
then those of `NvSync`; then both read orders and every failing call in `NvFs`, the failing
calls of `Modemd` and `CmrPreview`, and the refusal of a full queue in `CmrFifo`.

Next:

1. `NvItemd`: composition of `NvSync`, `NvBuf` and the register of `NvStore`; property:
   a positive answer in calibration mode means that the request survives a crash.
   With it a restart of the CP that reuses group numbers.
2. `ModemBoot`: `modem_control`, the boot handshake with its retries and the
   state messages.
3. `RefNotify`: framing of the modem's commands over partial reads, two threads on one
   descriptor.
4. Capture and rotation in `CmrPreview`, with the buffers of the driver.

Runs stay few: a new question is added to the run of its component where one instance can
answer both.
