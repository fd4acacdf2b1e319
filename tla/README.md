# Verification of the NGD-Detect gas camera

TLA+ models, TLC runs and TLAPS proofs for the software of an RK3588
gas-detection camera.  The software has two layers: **jpsdk** (video input,
neural-network gas detection, lens heating, GPIO) and **middleware** (device
control: infrared and visible camera, pan-tilt head, areas, alarms, MQTT messages,
HTTP configuration).  Paths are relative to the repository root; `NGD` is the
build profile (`middleware/src/profile`) the inventory describes.

## 1. Inventory

```
application ── IR_Sys_* ──► mpu_init ─► CChannelManager ─► one object per device
    │                          ▲            │  CCInfraredImage, CVisLightImage, CPtzCtrl,
    │ frames                   │            │  CCAreaInvasion, CExtctrl, CActionAlarm, CCoder
    ▼                          │ callbacks  ├─► CConfig ─► minIni ─► one file for all
 JPSys_PushStream         HTTP server       ├─► CSerial (tty) / callbacks of the application
    │                     (external lib)    ├─► MessageManager ─► AsyncPro ─► MQTT broker
    ▼                                       └─► JPSys_* ─► heater, GPIO, callbacks
 mpp_venc ─► Detect_Task ─► recv thread ─► result callback
```

| Component | State it keeps | Operations | What is hard |
|---|---|---|---|
| `SafeQueuee` (`jpsdk/src/common/safe_quene.hpp`, copied in the middleware) | contents, capacity, blocking flag, two waiting counters | `push`, `pop`, `clear`, `set_block`, `set_maxsize` | the decision to notify is taken after the unlock from an atomic counter |
| Detection pipeline (`mpp_venc.cpp`, `yolo_rknn.cpp`, `detect_api.cpp`, `lgc_algo.cpp`, `ThreadPool.h`) | three bounded queues, one unbounded task queue, NPU handles, RGB buffers passed as bare pointers | `mpp_venc_push_stream`, vi / GetFrame / pool / receive threads, callbacks | six threads or more, out-of-order completion, failure paths, ownership of buffers |
| Heater control (`lgc_sys.cpp`, `gpio_hal.c`, `CExtctrl.cpp`) | mode, heater flags, GPIO pins, temperature window | temperature thread, `JPSys_SetHeatMode`, `JPSys_SetheatEnable`, `JPSys_SetAutoTemperaCfg` | a polling thread and API calls on the same flags, pins that can fail, flags and pins that must agree |
| Timer service (`ipc_timeout_task.c`) | three lists of tasks; one detached thread per task, which sleeps in `select()` and frees its own record | `ipc_timeout_task_add`, `ipc_onetime_task_add`, `ipc_timeout_task_remove`, `_init`, `_deinit`, checker thread | removals racing tasks that end, an id that is a pointer and is reused, a flag read without the lock |
| MQTT request/response (`MSG/AsyncPro.cpp`, `MessageManager.cpp`) | a condition and a flag per request code, one reply queue for all codes, one queue for unsolicited messages | `sendMessage`, `receiveMessages`, `getMessage`, `MSG_SendMessage` | replies that are late, lost, duplicated or early; reconnection; a flag shared by all requests of a code |
| Configuration file (`CConfig.cpp` over `moudle/minini`) | one INI file that every component of the middleware stores into | `SetValue` and `DeleteSection` = `ini_puts()`; getters | no lock between the components, one temporary name, remove-then-rename, crashes |
| Infrared image (`CCInfraredImage.cpp`) | a cached copy of every setting, the application's callbacks | 13 setters, `LoadParam` | cache, device and configuration file that must agree, also after a restart |
| Visible image (`CVisLightImage.cpp`) | the same for the visible camera | 7 setters, `LoadParam` | the same, and a branch that unlocks a lock it does not hold |
| Pan-tilt head (`CPtzCtrl.cpp`, `mpu_ciu_ptz.cpp`) | angles, scan mode, target, preset table | movement commands made of several calls, presets | a command is many critical sections; cached angles against the head and the file; preset sections written key by key |
| Areas (`CCAreaInvasion.cpp`) | 32 slots, two counters, all persisted | `SetAreaPoint`, `SetAllAreaPoint`, `GetAreaPoint`, `DeleteAreaPoint`, `Init` | a counter kept beside the set it counts |
| External control (`CExtctrl.cpp`) | temperature mode and window, factory reset | `SetTemperatureMode`, `SetTemCtrlCfg`, `CtrlDevFactoryReset` | lock held while waiting for an MQTT reply |
| Alarm actions (`CActionAlarm.cpp`) | one bit mask | `EnableAction`, `PushEnevt` | callback that may be missing |
| Coder settings (`CCoder.cpp`) | OSD, time zone, NTP | getters, setters, `LoadParam` | one configuration key read for three settings |
| Network settings (`NET/INet.cpp`) | cached addresses | setters, getters, DHCP | cache that is stale when the system changes the address |
| SDK lock (`meida_common.cpp`) | lock state, reader count | `HY_Res_SDK_Lock`, `HY_Res_SDK_UnLock`, thread helpers | only ever taken shared |
| Life cycle (`jpsyssdk.cpp`, `lgc.cpp`, `mpu_init.cpp`) | which subsystems run | `JPSys_Init`, `JPSys_DeInit`, `mpu_init`, `mpu_uninit` | threads joined while blocked, resources freed under running threads |
| Dispatch (`mpu_ciu_*.cpp`, `mpu_avl_api.cpp`, `CChannelManager.cpp`, `IR_sys_api.cpp`) | none of its own | size checks, then delegation | nothing beyond its callees |
| Neural network (`rknn_unitl.cpp`) | model buffers | letterbox, inference, sort, NMS, masks | numerical, sequential |
| Sensors (`CCGyro.cpp`, `CCompass.cpp`, `CCGpsPosition.cpp`) | last reading | poll threads | not created in this build |
| Utilities (`CSerial`, `gpio`, `memmap`, `common`, `LOG`, `dma_alloc`, `drm_alloc`, `image_utils`, `file_utils`) | file handles, buffers | I/O | I/O |

Of `moudle/` only minIni is modelled, because the correctness of every setting rests
on it and the glue it is built with is the project's choice; the MQTT client, mahony,
IP tools, spdlog, OpenCV, librga, the DRM headers, `nlohmann_json.hpp`, the font tables
and the demo applications (`algo_detect_NGD`, `my_gui`) are third-party code, data or
examples and are left aside.  They are by far the most lines of the tree.

What makes each component correct, from the point of view of its user (what the code makes of
it when calls overlap or a failure goes unnoticed is in section 3):

- **Queue**: it is a bounded FIFO; no wake-up is lost; the unlocked counters are exact.
- **Pipeline**: an accepted frame is reported once or counted as lost, never both and
  never dropped in silence; its RGB buffer is freed once and not used afterwards; an NPU
  handle has one user; the camera thread is not held up; every frame ends.
- **Heaters**: the flags the thread decides by are the pins; no heater is on outside
  the automatic mode or hotter than its window; the cut-off works in spite of failures;
  the saved, cached and active modes agree after a restart.
- **Timers**: no list keeps a record that was freed; a removal stops the task it was
  meant for; `deinit` returns and nothing is called after it; finished tasks are freed.
- **Configuration file**: what any component stored stays stored, whoever else stores
  something and wherever the process dies.
- **Settings** (infrared, visible, pan-tilt): what a getter reports is what the device
  has and what the file holds; an acknowledged value survives a restart; locks are given back.
- **Pan-tilt head**: it goes to zero before it is moved, ends enabled and still, at the
  angles the members say; the file has exactly the presets of the table.
- **MQTT**: a woken caller finds a reply; a call ends within its time limit.

The hazards, each at its line with the properties that cover it, are in `PROJECT.json`.

### Seen while reading

Real in the code, but with nothing for a property to say (no caller in this build, one
line away from a listed hazard, or no promise to hold the code to):

- `LGC_ALGO_DeInit()` joins a thread that may be blocked in `pop()` for ever
  (`lgc_algo.cpp:299`; no caller); `LGC_ALGO_RegisterGasResultCb()` stores callback and user
  data while the receive thread may read them (`lgc_algo.cpp:315`; called before any frame).
- `CtrlDevClear()` unlocks a mutex it never locked (`CExtctrl.cpp:214`; no caller).
- `ManualDefectRemoval()` stores the threshold before it sends it, and keeps it when the
  write fails (`CCInfraredImage.cpp:365`; the model has this order of steps).
- `ipc_timeout_task_add()` reads the record after it gave the lock back
  (`ipc_timeout_task.c:177`), when the task's thread may have freed it.
- Between `remove()` and `rename()` in `ini_puts()` a reader finds no file and takes its
  defaults (`minIni.c:693`).
- The GetFrame thread moves frames from a bounded queue into the thread pool's unbounded
  one, so that refusing frames at the camera does not bound those in memory
  (`yolo_rknn.cpp:12`; `MemoryBound` says what the memory is bounded by).
- A request is published before its `ConditionData` is registered or reset
  (`AsyncPro.cpp:100`): an answer faster than that is forgotten, and the call ends with its
  time limit.  After a lost connection one of the two topics is subscribed again, and
  failures of the first connection are not noticed (`AsyncPro.cpp:43`; `topics`).
- `m_target_x` is assigned before the lock is taken and stored under it, and the pitch is
  stored after the lock was given back (`CPtzCtrl.cpp:654`, `:267`): of two overlapping
  commands the file may get the column of one and the angle of the other (the model does so).
- A zoom of 1.5 that was acknowledged is 1 after a restart, as it is written as a float
  and read as a long (`CCInfraredImage.cpp:652` and `:67`; the model converts as the code
  does).  No document names the values a zoom may have.
- `CVisLightImage`'s constructor sets the members to 0, so a stored 0 is taken for
  unchanged and not sent (`CVisLightImage.cpp:11`; the model starts there).
- `CPtzCtrl` computes a column with a panorama width nobody has set before the head went
  to zero, accepts more presets than the table has room for when the client says so
  (`CPtzCtrl.cpp:988`), and joins a thread that was never started when it is destroyed.
- The same `/dev/ttyS7` is opened by three objects, at 9600 and at 115200 baud.
- `CCAreaInvasion` keeps a counter beside its table, and deleting a slot twice would
  count it twice (`CCAreaInvasion.cpp:279`; no caller).
- `condition_map` is read without `map_mutex` by `wait_for()`'s predicate (`AsyncPro.cpp:117`).
- The `algor_frame` structure of every frame is never freed; `detect_reuslt_delete()` reads
  the first mask of a zero-length array when there are no detections.

## 2. Plan

Order: the code that runs on every frame first, then what can damage the device,
then what can lose a user's settings, then what can block a caller.

| # | Modules | Composition and abstraction | State |
|---|---|---|---|
| 1 | `BoundedFifo`, `SafeQueue`, `SafeQueueProofs` | `SafeQueue` implements `BoundedFifo`; every later module uses the abstract queue | done, proved |
| 2 | `DetectService`, `DetectPipeline`, `DetectPipelineProofs` | four queues, the threads and the handle pool composed; `DetectPipeline` implements `DetectService` | done, proved |
| 3 | `HeaterControl`, `HeaterControlProofs` | temperature thread, SDK calls, `CExtctrl` and restart composed | done, proved |
| 4 | `InfraredImage`, `InfraredImageProofs` | cache, file and camera composed with `LoadParam()` and restart | done, proved |
| 5 | `MessageHandler`, `MessageHandlerProofs` | receiver, callers, broker; uses the abstract queue | done, proved |
| 6 | `TimerService`, `TimeoutTask`, `TimeoutTaskProofs` | callers, checker, a thread per task, deinit; `TimeoutTask` implements `TimerService` | done, proved |
| 7 | `KeyStore`, `ConfigFile`, `ConfigFileProofs` | components and crashes around one file; `ConfigFile` implements `KeyStore` until calls overlap or a failure costs every key; the settings of 4 and 8 take that (a store is kept, or fails) as their file | done, proved |
| 8 | `VisLightImage`, `PtzControl`, `PtzPresets`, `MiddlewareProofs` | cached settings, movement commands and presets over the file; checked together by `MCMiddleware` | done, proved |

What could still be added is small beside this: the ordering of `LoadParam()` between the
objects of the middleware, `CCoder`'s keys, and the scan and step commands of the head if
a build calls them.  Section 6 says why the rest is not modelled.

## 3. Modules

### SafeQueue, BoundedFifo (`jpsdk/src/common/safe_quene.hpp`)

`BoundedFifo` is what a user of the queue may rely on: contents, capacity, append at
the end, remove at the head, `clear()`, a capacity that never falls below the
contents.  `SafeQueue` is the class as written: `mc_queue`, `mn_maxsize`, `mb_block`,
the two atomic counters, and for every thread its place in the code.

A critical section is one step; leaving it by `wait()` and by the closing brace are
different outcomes.  After the closing brace, reading the counter (`push_signal`,
`pop_signal`) and `notify_one()` (`push_notify`, `pop_notify`) are two more steps,
and other threads run in between.  A sleeping thread may wake spuriously.
`clear()` and `set_block()` notify everybody; `set_maxsize()` notifies nobody.

The question is whether a thread can sleep while what it waits for is there.  For
consumers it cannot (`NoStrandedPopper`), with any number of threads and whatever the
controllers do.  For producers it cannot as long as no call of `set_maxsize()` raises the
capacity (`NoStrandedPusher`): producers asleep on the old limit are woken only by the
next `pop()`.  Every caller in the repository sets the capacity before the threads start.
The run checks the two as one, `NobodyStranded`.

### DetectPipeline, DetectService (`mpp_venc.cpp`, `yolo_rknn.cpp`, `detect_api.cpp`, `lgc_algo.cpp`, `ThreadPool.h`)

| Thread | Actions | Code |
|---|---|---|
| the application's camera thread | `PushStreamCheck`, `PushStreamPush` | `mpp_venc_push_stream()`: `full()` and `push()` are two critical sections |
| vi | `ViPop`, `ViSend`, `ViSendFails` | `mpp_vi_get_buffer_thread()` |
| GetFrame | `GetFramePop`, `Enqueue` | `GetFrameDetectThread()` |
| a worker of the pool | `TakeTask`, `GetFreeHandle`, `InferSucceeds`, `InferFails`, `PushResult`, `SerFreeHandle` | `taskModelReson()` |
| receiver | `RecvPop`, `Report`, `RecvFree` | `GasResulRecvThread()` |

A frame is a pair (camera, number); its RGB buffer is `none`, `live` or `freed`.  The
queues are sequences with a capacity, which is what `SafeQueue` implements.  The
history variables `refused`, `lost` and `reports` say what became of each frame, and
`FateOf` maps the state to `DetectService`: a frame found in two places at once, or
reported twice, has the fate `confused`, which no step of the service allows.
Frames overtake each other in the pool only: up to it the frames of a camera keep the
order they were offered in, in the queues and between them (`InOrder`); behind it the code
attaches no promise to the order.  Each bounded queue is used as a `BoundedFifo`
(`QueuesAreFifos`).  `NeverStuck` is the safety side of `EveryFrameEnds`: while a frame is
in the pipeline, the guard of some thread's next step holds, without counting on
failures.

`AdmissionBound` is what the test before the push is worth: the frames queued and
admitted exceed the capacity by at most one per camera beyond the first, so with the one
camera of this program a frame that was admitted never waits.  `MemoryBound` says where
the memory can grow when inference is slower than the camera: the RGB buffers in use
(`Held`: not those leaked with a frame that was given up) never exceed what two queues and
the threads have room for, plus one for each task waiting in the pool, which has no bound.

### HeaterControl (`lgc_sys.cpp`, `gpio_hal.c`, `CExtctrl.cpp`)

`m_AutoTemperatureMode`, `m_TemCtrlFlag` and `m_autoTemCtrlCfg` are the SDK's; `pin`
is the hardware and outlives the process; `m_TemperMode` is `CExtctrl`'s copy, `file`
the configuration.  `m_CheckTemperatureLock` is `lock`; `CExtctrl::m_Lock` is the
condition that `ext` is idle.  The start of the process is a sequence of phases; the
temperature thread already runs from `sdk` on.  `LGC_SYS_SetheatMode()` is two
steps with the lock held, because of its pause.  `Crash` ends the process anywhere.
`seen` is a history variable: the last temperature dealt with under the present mode,
window and command; `NoReading` until there is one.  `watched` says that the thread is in
its loop: it returns for good when it cannot open the files of its sensors, and then
nothing is cut off or heated, so both liveness properties ask for it.  `SaveMode` may
fail, as `SetValue()` does with nobody looking; `unsaved` remembers it, and is the one case
in which member and file differ (`ModesAgree`) until another mode is set or the process
starts again.  `FailingPins` and `Commanded` name
the channels whose pin may fail and those `JPSys_SetheatEnable()` is called for, so that
one instance holds disturbed and undisturbed channels side by side.  `ModeInForce` says
that between calls the SDK is in the mode `CExtctrl` answers; it holds when the memory of
the uninitialised member is no mode (finding 1).  `Hysteresis` says that no heater is
switched to and fro at one temperature: under a window that is not inverted the thread
switches on below it, and off within it, above it or above the rated temperature.

Not modelled: the table from resistance to temperature (its range is `Temps`),
the wipers, light and CVBS switches, which only store a value in this build.

### InfraredImage (`CCInfraredImage.cpp`)

All calls take `m_Lock`, so at most one is in progress: `held` says whose it is, the
setting, the value and the steps still to take.  The setters are of five kinds, told
apart by the order of their steps (`Steps`):

| Kind | Steps | Settings |
|---|---|---|
| `Controlled` | compare, callback, file, member | brightness, contrast, polarity |
| `Primed` | the same, but `LoadParam()` assigns the member first, without the lock | zoom, focus, gas enhancement |
| `Kept` | compare, file, member | saturation, sharpening |
| `Serial` | serial line, file | hot spot, video format |
| `Threshold` | file, serial line | defect removal |

Values are counted in tenths, for the zoom: it is a float, written as `%f`, and
`LoadParam()` reads it as a long (`CCInfraredImage.cpp:67`), where `strtol()` stops at the
point.  `ReadBack` is what the file is read as: the whole part of a zoom, and any other
setting as it is.  So `StoreFollows` and `AckedSurvives` promise what the code keeps and no
more: of a zoom of 1.5 told done, 1 is what the next start has, and is what a getter
then reports, although the file still says 1.5.

The two commands only reach the camera.  `programmed`, `known`, `told` and `durable`
are history variables: what a call carried out, which members are more than bare
memory, what callers were told, what the file may hold.  `LaterAnswersReach` bounds
finding 3: from the first time a setting was carried out in a run, the camera has what was
last answered 0 to.

Assumed: a callback that fails leaves the camera as it was; the object's `Init()`
returned 0.  `Raced` is an exception in two properties and not an abstraction: with
early callers, `LoadParam()` overwrites the three primed members under a running
call, and the code can then really report one value and hold another.

### MessageHandler (`AsyncPro.cpp`, `MessageManager.cpp`)

A caller is `idle`, `waiting` (inside `wait_for()`) or `taking` (past it, with the
mutex of its code held until `pop()` returns).  The receiver's place is `rpc`; `msg` is
the code of the message it handles.  `MutexFree` is the mutex of one `ConditionData`;
`map_mutex` is held within single steps.  The request itself is left to the broker,
which delivers any code at any time: early, late, twice or never.

A reply that comes after its caller gave up becomes the answer to the next call, because
neither code nor request is compared when a reply is taken.  `Owed` are the callers for
whom a message lies in the shared queue, `Surplus` the messages beyond those.
`SurplusStays` says that what is too much stays too much: no step, no later call and no
reconnection brings answers and requests back into step.  `NoCircle` says that, with room
in the queue, receiver and callers never wait in a circle for mutexes and messages; both
queues are used as a `BoundedFifo` (`QueuesAreFifos`).  Two callers of one code share a
flag; the second can then wait in `pop()` for ever, so `TakerFindsReply` assumes codes of
their own (as do the theorems about `SurplusStays` and `NoCircle`), which is how the two
requests of this build (factory reset and format in `CExtctrl`, under its lock) use it.
After a reconnection only the topic `pre` is subscribed again.

### TimeoutTask (`jpsdk/src/common/ipc_timeout_task.c`)

| Thread | Actions | Code |
|---|---|---|
| a caller | `TaskAdd`, `TaskInsert`, `TaskReturn`, `TaskRemove`, `RemoveInsert` | `ipc_timeout_task_add()`, `ipc_onetime_task_add()`, `ipc_timeout_task_remove()`: `running` is read first, the list is changed under the mutex afterwards |
| the checker | `CheckTest`, `CheckBegin`, `CheckCancel`, `CheckUnlink`, `CheckEnd` | `check_task()`: one pass of its loop under the mutex |
| the thread of a task | `Wake`, `Called`, `Tested`, `Request`, `Exit` | `timer_process()`, which takes the mutex only to ask for its own removal |
| the caller of deinit | `DeinitBegin`, `DeinitCancel`, `DeinitUnlink`, `DeinitClear`, `DeinitJoin` | `ipc_timeout_task_deinit()` |

A task is a number, its record has an address out of `Cells`, which `calloc()` reuses
once the record was freed; the id a caller holds is that address.  Cancelling a task
and unlinking its record are two steps although both are under the mutex, because the
task's thread reads `cancel` and frees the record without it.  The two macros then work
on freed memory: that is `undefined`, where the model stops.  `LinkedIsAllocated` says
that this is the only place where a list ever holds a freed record, and
`MisdirectedOnlyIfRemovedTwice` when a removal can stop somebody else's task: only if
the caller of an earlier task at the same address removed it while it ended by itself.
`TimerService` is what a user may rely on: of each task whether it is made, listed, due,
called or freed (`PhaseOf`), which tasks said they were called for the last time (`Over`),
which are cancelled, and whether the service has stopped.  A task that is cancelled or
over is never called again, none is cancelled or freed twice or freed in a call, and the
service only stops (`Stopped`, when the lists are cleared) once every task it started is
cancelled.  `QuietAfterDeinit` says the last of these for the state after deinit.
`NothingOverlooked` is the safety side of `EverythingEnds`: while the checker waits, what
is in its lists and the deinit that waits for it have set `update`, and a task that said it
was over and sleeps on has its removal in the list or was cancelled.
The intervals are an arbitrary delay.  Only init and deinit have callers today.

### ConfigFile (`CConfig.cpp`, `moudle/minini/minIni.c`, `minGlue.h`)

Every component of the middleware stores through `CConfig::SetValue()`, under a lock of
its own.  `ini_puts()` reads the file through (`Search`), and then rewrites one line in
place (`Rewrite`), makes a new file (`Create`, `Fill`), or copies everything into the
one temporary file and puts that in its place (`OpenTemp`, `Reopen`, `Copy`, `Remove`,
`Rename`).  The two names `main` and `temp` lead to inodes; an open file keeps its inode
when its name goes.  One key stands for all that a component stores, because
`ini_puts()` treats all lines but one alike; `Width` decides between rewriting and
copying.  `Crash` loses what was not closed.  `Over` is a copy written into an inode
that another call has filled meanwhile.

With `DiskFails` every operation on a file that is there may fail too.  Those whose result
`ini_puts()` tests end in the answer 0 (`OpenTemp`, `Create`, and `Rewrite` when the file
cannot be opened).  The others it does not notice, and answers 1 (`ReturnUnsaid`, which
puts the component into `unsaid`): a file that cannot be opened for reading counts as one
that is not there, which means made anew for a value and nothing to do for an erasure
(`SearchFails`); a file that cannot be opened again leaves the value under the temporary
name (`Reopen`), or, erasing, ends the process at an assertion (`Die`); a line that cannot be written holds anything (`CutLine`); a copy that is cut
short puts anything in the place of the file (`Copy`); `remove()` or `rename()` do nothing
(`Remove`, `RenameFails`).

`KeyStore` is what the components expect: a value replaces the old one at one moment or
not at all, nobody else's key changes, the answer 0 is given only for a value that is not
stored, and a process that dies changes nothing.  The moment is `remove()`, from which on
the temporary file is the one that counts, `rename()` when `remove()` failed, or the
writing of the line.  Three exceptions are part of the promise.  Who is answered 1 in spite
of a failure is `misled`: the value is not stored, and may have damaged the component's own
old one, but nobody else's.  A process that dies between `remove()` and `rename()` leaves
the store `adrift`: all is in the temporary file, but the next store makes the file anew.
And nothing is promised (`Lost`, the store's `collided`) once a call runs while another one
copies (`raced`), or once one of three failures has come about that may cost every key: a
file that is there but cannot be opened is emptied, a copy is cut short, `rename()` fails
after `remove()` did not (`spoilt`).  `SuccessIsStored`, what the library's comment says,
fails without any crash or failure in the first of these cases (finding 4);
`SuccessUndisturbed` says that otherwise a component can only be told something false in a
call that met such a failure, and with a disk that does not fail never.
`KeysAreOwn` is what `InfraredImage`, `VisLightImage`, `PtzControl` and `PtzPresets` rest on
when each models its part of the file as its own, where a store may fail: until `Lost`, what
is stored for a component changes in its own calls only, to the value it asked for or to
what a failed write makes of it.

### VisLightImage (`CVisLightImage.cpp`)

Like the infrared settings, but a call is not always alone: `SetAutoFocuData()` unlocks
`m_Lock` without holding it when its callback is missing (`Unlock`), after which two
setters can be inside.  `visCall` is what each thread has still to do; `ToDo` gives the
order of the steps (serial write, member, file; for the zoom callback, file, member).
A serial write can be lost unnoticed, a callback can fail or be missing, and a store can
fail, which nobody looks at (`visUnsaved`: the file then keeps the old value and the member
has the new one).  The serial line carries the low byte of a value (`Wire`): that is what
the camera has of it.  Values are whole numbers, for the zoom too; `%f` and `GetValue()`
with a float keep six decimals of it here, unlike in the infrared camera.  `LoadParam()`
reads each key (`LoadRead`) and calls the setter with it (`LoadSets`), the lock free in
between.  `visMixed` names the settings two calls were inside for at once: for these the
code makes no promise.  `VisSectionExclusive` says the missing callback is the only way
into that, `VisAgrees` that all other settings agree with camera and file whether or
not the lock does its work.

### PtzControl, PtzPresets (`CPtzCtrl.cpp`, `mpu_ciu_ptz.cpp`, `CChannelManager.cpp`)

A movement command (`MPU_PtzCtrlNormal()`) is up to nine calls of `CPtzCtrl`, each under
`m_lock` for itself, with values read by the first used by the last; two clients
interleave anywhere between them.  The actions carry the names of the calls.  `head` is
what the head was last told, `member` what `CPtzCtrl` believes, `file` what is stored;
the thread that would read the angle back is never started, so nothing corrects them.
A message may be lost on the serial line (`Tell`; `lost` names what the head was last not
told) and a store may fail (`Save`; `stale` names the keys), without anybody looking.  The
angle and the column of a target are two stores with the lock held, between which the
process may die; the new angle is then in the file with the old column (`stale` again).

`scan_mode` in the installed file may be anything (`ScanModes`).  With 2 or 3 no command
ever sends the head to zero, enables it or sets its mode (`SkipsZero`), as
`mpu_ciu_ptz.cpp:17` takes it to be done: the head then moves from wherever it stood by
angles counted from 0, and the width of the panorama, which only going to zero sets, is
what was in memory (`Column`).  `ReadyAtRest` and `PtzFileAgrees` say what holds of the
other modes, and what is left in this case: the yaw agrees from the first turn on.  What
`ptz_enable` is stored as is read into a member nothing uses, and left out.

The test "not within a second of the last time" (`ZeroCheck`) computes milliseconds in
an `int`: it is only effective with a clock in the first 2^31 ms of 1970, which is
`earlyClock`.  `ReadyAtRest` is what survives all overlaps, `UndisturbedAgrees` what
needs a client to be alone.

`PtzPresets` is `SetPresetEx()`: the table is written section by section, key by key,
then the sections of the presets there were more of are deleted, then the member takes
the table over.  A crash leaves any prefix of that; `PresetsOnFile` says when file and
table are the same again.

### MCMiddleware

The four modules of the middleware below its dispatch layer share no variable, and so
one run checks them side by side: `part` is chosen in the initial state, the other
parts stay where they started (`VisPlain`, `PtzPlain` fix their initial choices, so that
these are not multiplied).  The users of the visible camera are symmetric.  `PartView`
leaves out what no later step and no property of this run reads: the variables of the
other parts; inodes behind no name and no open file; what the visible camera has of a
setting nobody was told of in this run, whose last write was lost, or which two calls set at
once, and its count of restarts, since a restart leads to a state the process may also be
started in; and of the head the angle a client that was overlapped will not use and the
time since it went to zero without an early clock.  What the head was told, what was moved,
lost or not stored, and the columns in the file are read by no step, and whatever changes
one of them also changes what it is compared with: of these `PtzClaims` keeps the truth of
each comparison the properties make, or will make when the clients on their way have
arrived.  `StillPromised` stops the file's part where `KeyStore` promises nothing any more;
`config_overlap` goes on from there.

## 4. Runs

| Run | Instance | Shows |
|---|---|---|
| `queue` | 3 producers of one item, 2 consumers, a controller; capacity 2, `set_maxsize()` with 1 and 0 | exact counters, no lost wake-up on either side, refinement of `BoundedFifo`, every element leaves |
| `detect` | 2 cameras of 2 frames, 2 workers and handles, capacities 1 | handles, buffers, leaks, admission, refinement of `DetectService`, every frame ends |
| `heater` | 3 temperatures, 2 windows of which one is inverted, 4 initial values of `m_TemperMode`, 1 restart, failing stores and sensors, a thread that does not start; channel 1 has a pin that fails and is commanded | flags, modes, window; the cut-off and the heating happen |
| `infrared_faults` | brightness and zoom, early callers, failing file, 1 restart | the getters follow the camera |
| `infrared_store` | zoom (1, 2 and 2.5), saturation, video format (2 values each), 1 restart; the camera starts with one choice of values | the file follows the getters, acknowledged values survive, calls and `LoadParam()` end |
| `messages` | 2 callers, 3 codes, queues of 2 | a woken caller finds a reply; late replies never leave the queue on their own; only a full queue blocks |
| `timeout_tasks` | 1 caller, 2 tasks, 2 addresses, the first task at the first of them, deinit at any time | the lists, the removals, refinement of `TimerService`; deinit returns and finished tasks are freed |
| `middleware` | file: 2 components, one that erases, 2 values, 5 inodes, a disk that fails, 1 crash; visible camera: 2 users, brightness and zoom, 2 values, lost writes, failed stores, 1 restart; head: 2 clients, scan modes 0 and 3, yaw 0 and 10, pitch -5 to 10 asked, 0 to 5 kept, lost messages, failed stores, 1 restart; presets: 2 slots, 2 names, failed stores, 1 restart | refinement of `KeyStore`; section and agreement of the settings; head and file; preset sections |
| `heater_off_is_off`, `heater_on_is_on`, `infrared_zoom`, `config_overlap` | as above, without what the finding does not need | the four findings below |

**Why the bounds are enough.**  The queue's decisions compare the contents with 0 and
with the capacity, and the counters with 0: two sleepers on a side and one thread more
than that already give every order of wait, notify and unlock.  In the pipeline every
stage holds at most one frame, so capacities of 1 make every queue full and empty with
few frames.  The heater's decisions compare a temperature with the two bounds of the
window, its middle and the rated temperature: under the first window a temperature is too
cold, one its middle, one inside it but above the rated one; under the second, which is
inverted, one is below its lower and above its upper bound and two are above both.  The
violation runs use -40 (the open sensor) as well.  A setting's values are only compared for equality, so two are enough, but
for the zoom, which is read back as its whole part: 1, 2 and 2.5 (or 1 and 1.5) show a value
that survives, one that does not, and what that one comes back as (`WholeSettings` keeps
the broken values to the zoom).  One setting of each kind stands for its kind.  In the `middleware` run the visible
camera's values are the 0 its constructor sets and 261, whose low byte, all the serial line
carries, is another value.  The scan modes are told apart only by whether the head stands
still in them, so 0 and 3 are enough (2 is what every command sets).  One restart shows whatever the file
carries over: a second one starts from a file the first could have left.  In
`infrared_store` the camera starts with the defaults (`StoreSpec`): no step reads the
camera, and the properties of that run ask only for what a call has set it to since; the
other infrared runs start it with any values.  Two
components in `ini_puts()` use at most two open files each besides the two names, and a
third would find the same names.  The head's decisions compare angles with the ends of
their range, which one step reaches.  Two timer tasks are what it takes for an address
to be used twice; the addresses are alike, so the first task may be given the first of
them (`FirstCellSpec`; a symmetry set would not be sound with liveness).  In `MessageHandler` a capacity of 2 tells empty, partly full and full
apart; 64 adds nothing to the comparison.  The theorems of section 5 hold without
these bounds.

**Deadlock** is not checked where the instance ends: the queue's producers and the
cameras stop after their bound, and the timer service after deinit.  Everywhere else it
is.

**Fairness.**

- *Queue*: weak fairness of each thread past the start of a `push()`, and of the
  consumers, which loop for ever.  Nobody has to call `push()`.  With finitely many
  items a place in the queue is not taken away for ever, so weak fairness suffices.
- *Pipeline*: weak fairness of each thread; cameras may stop offering frames.
- *Heaters*: weak fairness of the thread and of calls in progress; strong fairness of a
  check in which sensor and pin work (a pin tried again and again works at last).  Without
  the latter a dead sensor never lets the thread decide, and nothing can be promised; nor
  can it when the thread ended at once because it could not open its files.
  Both liveness properties assume that the application stops commanding the channel.
- *Infrared*: weak fairness of the thread that holds the lock and of `LoadParam()`.
  `m_Lock` is not a fair mutex, so the end of `LoadParam()` is checked without early
  callers only.
- *Messages*: strong fairness of a caller leaving `wait_for()` and of the receiver
  setting a flag, because both contend for a mutex and the receiver sleeps 20 ms after
  every message.  Nothing is assumed of the broker, the connection or new calls.
- *Timer service*: strong fairness of each thread that is past a call or belongs to the
  service, since each of them gets the mutex in the end although others take it again
  and again, and the functions of the tasks return; nobody has to add, remove or deinit.

### Findings

1. `heater_off_is_off`: `CExtctrl` never initialises `m_TemperMode`
   (`CExtctrl.cpp:267` compares it).  If the memory holds the saved mode, the SDK is
   not told, stays in the automatic mode it starts in, and heats while the
   configuration says off.  Setting "off" again is ignored as well.  `OffIsOffIfSet` proves
   that nothing else breaks the promise: with an initial value that is none of the modes,
   off is off, for any history of calls, failures and crashes.
2. `heater_on_is_on`: mode 1 is documented as "on"; the code behind it switches both
   pins off, and no one in the middleware switches one on.
3. `infrared_zoom`: `LoadParam()` assigns `m_ElectronicZoom` before it calls the
   setter, which then sees no change.  After a restart the saved zoom is reported but the
   camera is not set to it, and setting it again answers 0 without effect.  Focus mode and
   gas enhancement share the pattern.  `AnswersCorrect` proves that, without
   early callers, only the answers before the first call with another value miss.
4. `config_overlap`: `minIni.c:679` says `ini_puts()` returns "1 if successful".  Two
   components that store at the same time, without a lock (`minGlue.h` defines none),
   can both be told 1 while one of them has truncated what the other had just renamed
   into place: its keys, and all it had stored before, are gone.  The run has no failing
   disk.  `SuccessCorrect` proves that without such an overlap, a crash, and the failures
   `ini_puts()` does not look at, the comment is true; with these failures it is not, as the
   answer is 1 then (`ReturnUnsaid`), and the theorem says whom they mislead.

## 5. Proofs

All theorems are of the form `Spec => []P` (or a refinement) and hold for every value
of the constants that satisfies the named assumptions.

| Module | Theorems | Inductive invariant |
|---|---|---|
| `SafeQueueProofs` | `TypeCorrect`, `CapacityCorrect`, `FifoImplemented`, `CountersCorrect`, `NoPopperStranded`, `NoPusherStranded`, `NoneStranded` | the counters are exact, and `NoStrandedPopper` relative to them: while a consumer sleeps, every element left has a thread on its way (woken, or past an unlock and about to notify).  The same for producers and free places |
| `DetectPipelineProofs` | `TypeCorrect`, `HandlesCorrect`, `AdmissionBounded`, `BuffersCorrect`, `LeaksCorrect`, `ServiceImplemented`, `QueuesCorrect`, `OrderCorrect`, `NoDeadlock`, `MemoryBounded` | types, `HandlesExclusive`, and that a worker past `TakeTask` has a frame: a worker that looks for a handle finds one by counting, as the busy workers are fewer than the handles.  For the buffers and the refinement `FlowInv`: no queue holds a frame twice, a converted frame is in exactly one of the places behind the vi thread (`Single`), its buffer is live exactly there or it was given up (`Buffer`), it had none before (`Unconverted`), and at most one end (`Ends`).  From `Ends` the fate of a frame can be read off (`Status`), and each step changes it as the service allows.  For the order (`Ordered`), every camera's frames by place and number: each move takes the oldest of one place to the end of the next.  For the memory (`MemoryBounded`), every buffer in use is in a place, and a queue holds no more frames than it is long |
| `HeaterControlProofs` | `TypeCorrect`, `FlagsCorrect`, `OffCorrect`, `WindowCorrect`, `HysteresisCorrect`, `ModesCorrect`, `ForceCorrect`, `OffIsOffIfSet` | who holds the lock is where the thread and the call are (`LockInv`); flags equal pins except for the pin a mode change has already cleared (`PinInv`); outside the automatic mode no flag is set (`OffInv`); the last reading against the window (`WindowInv`), and for `HysteresisCorrect` that the middle temperature as C divides it lies within a window that is not inverted (`MidWithin`); file, call and caches (`ModeInv`); until `CExtctrl` has told the SDK the saved mode its own member is bare memory, afterwards both have the same between calls (`ForceInv`) |
| `InfraredImageProofs` | `TypeCorrect`, `CameraCorrect`, `StoreCorrect`, `AckedCorrect`, `AnswersCorrect` | the steps left to a call are a tail of its kind's steps (`CallInv`); `LoadParam()` makes its calls in order and, without early callers, is the first to carry one out (`LoadInv`); the camera, the file and the answers against the step the call is at (`CameraInv`, `StoreInv`, `AckInv`, `ToldInv`) |
| `MessageHandlerProofs` | `TypeCorrect`, `TakersCorrect`, `SurplusCorrect`, `QueuesCorrect`, `NoCircleCorrect` | the callers that are owed a message are at most as many as the messages in the shared queue, and nobody takes without being owed one (`OwedInv`) |
| `TimeoutTaskProofs` | `TypeCorrect`, `ListsCorrect`, `RemovalsCorrect`, `DeinitCorrect`, `WakeupsCorrect`, `ServiceImplemented` | where the record of each task can be (`Place`: its thread, its lists, its flag and `free()` tied together); what a caller holds is its own and not yet removed (`Callers`, `Fresh`); an address is shared only with freed records (`Addresses`); why a task was cancelled and where each removal still to do may lead (`Cause`); a task that asked for its removal is cancelled or its request is still in the list (`Awaited`), because the checker, taking it out, finds that very task: another one at its address would mean it had been freed (`OwnRemoval`) |
| `ConfigFileProofs` | `TypeCorrect`, `StoreImplemented`, `OwnKeys`, `SuccessCorrect` | until calls overlap or a failure costs every key (`Lost`), the one that copies is alone (`Exclusive`), there is one file that counts (`Whole`), and each stage of the copy has behind it what `Rename` needs, whether or not `Remove` did anything (`Stage`); without a crash, what was answered 1 to is what is stored, but for the components whose answer hides a failure (`Faithful`) |
| `MiddlewareProofs` | `PresetsCorrect`, `AnglesCorrect`, `HeadCorrect`, `UndisturbedCorrect`, `SectionCorrect`, `SettingsCorrect`, `PresetTypesCorrect`, `VisTypesCorrect`, `Composition`, `MiddlewareTypes` | what the call in progress has done to each section (`Written`); the client that skips going to zero waits for the lock of the one that does it, and with a scan mode that stands still none gets to where it is done (`ZeroInv`); what is missing is on some client's way, or its message was lost (`ReadyInv`); what an undisturbed client has read is still so, and what it has yet to store is what the member has (`AloneInv`, `FileInv`); while the lock works it is held for the one inside (`Section`), and camera, member and file against the step of the only call for the setting, but for lost writes and failed stores (`Agrees`) |

The invariants need strengthening because the properties speak of quiet moments and
the code is interrupted between them.

Assumptions used: finite disjoint sets of threads, no fewer handles than workers
(`PoolAssumption`; the code gives both the same constant), at least one camera, no call of
`set_maxsize()` that raises the capacity (`NeverRaised`) for `NoPusherStranded` and `NoneStranded`,
a file that can be written for `StoreCorrect`, that and no early callers for `AckedCorrect`, for
both a default that is whole (`InfraredAssumption`; the code's is 1), callers with
codes of their own for `TakersCorrect`, `SurplusCorrect` and `NoCircleCorrect`, no early
callers for `AnswersCorrect`, an initial `m_TemperMode` that is no mode for `ForceCorrect`
and `OffIsOffIfSet`, a worker in the pool for `NoDeadlock`.  What else a property needs
(pins that work, channels nobody commands, calls that do not overlap, messages and stores
that succeeded) is part of its statement.  `ScanModes` may be any integers.

`Composition` says that a behaviour of `MCMiddleware` is one of each of the four modules
it puts side by side, so that their theorems hold of the run; `MiddlewareTypes` is the
first use of that.

Every invariant, action property and refinement of a passing run is proved.  Proved, but
in no run of their own because another property of the run implies them or they need an
instance of theirs: `CapacityRespected`, `NoStrandedPopper`, `NoStrandedPusher`,
`QuietAfterDeinit`, `QueuesAreFifos` (of the pipeline and of the messages), `InOrder`,
`NeverStuck`, `MemoryBound`, `NoCircle`, `NothingOverlooked`, `KeysAreOwn`,
`SuccessUndisturbed`, `Hysteresis`, `ModeInForce` and `LaterAnswersReach`.
TLC agreed with each of them on the instances above before it was proved.  (`MemoryBound`
is not reached there: four frames cannot fill every place at once.)

Only model-checked are the liveness properties, as fairness and ENABLED are beyond the
prover: `EveryItemLeaves`, `EveryFrameEnds`, `CutOffWorks`, `ColdIsHeated`, `CallsEnd`,
`OnlyAFullQueueBlocks` and `EverythingEnds`.  Four of them rest on a state of waiting that
must not come about, and that part is proved: `NobodyStranded` for `EveryItemLeaves`,
`NeverStuck` for `EveryFrameEnds`, `NoCircle` for `OnlyAFullQueueBlocks` and
`NothingOverlooked` for `EverythingEnds`.
No model has a recursive definition; what a recursion computes for all inputs could not
be proved either, since the induction theorems take an operator as parameter.

## 6. Not modelled

- **No caller in the repository**: the shut-down (`JPSys_DeInit()`), `AVL_Area_*` (the table
  is read at start-up and never changed), the factory reset, the alarm callback
  (`LGC_ALGO_RegisterAlarmCb()`), the gas event (`LGC_ALGO_SetGasEventCfg()`), the scan,
  step, fan and single-preset commands of the head in this build.
- **Nothing to check**: the SDK lock only ever has readers; the dispatch layer keeps no
  state; the coder settings are sequential over the configuration file.
- **The truth is outside the repository**: the network settings run shell commands and
  cache what these answer.
- **Out of reach or pure I/O**: inference on pixels, drivers, file and serial access,
  logging; sensors are not created in this build.
- **Third-party code and data**, which make up nearly all lines of the tree (section 1).
