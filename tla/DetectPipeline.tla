---------------------------- MODULE DetectPipeline ---------------------------
(***************************************************************************)
(* The gas detection pipeline of the SDK: camera threads hand frames to    *)
(* mpp_venc_push_stream(), the vi thread converts them to RGB, the         *)
(* GetFrame thread turns them into tasks of a thread pool, the pool's      *)
(* workers share the NPU handles, and the receive thread reports results   *)
(* and frees the RGB buffers.                                              *)
(*                                                                         *)
(* The three queues are bounded FIFOs with atomic operations: that is what *)
(* SafeQueue shows the queue class to implement.  The task queue of the    *)
(* thread pool has no bound.                                               *)
(***************************************************************************)
EXTENDS Integers, Sequences, FiniteSets, Functions

CONSTANTS
  Cameras,      (* application threads that call IR_Sys_AlgoSendFrame()     *)
  Workers,      (* threads of the pool                                      *)
  NumHandles,   (* MAX_PTHREAD_NUM: the NPU handles                         *)
  ViCap,        (* capacity of m_ViStream (32 in the code)                  *)
  FrameCap,     (* capacity of m_DetectFrame (16)                           *)
  ResultCap,    (* capacity of m_DetectResult (32)                          *)
  None,         (* no frame                                                 *)
  MaxCalls      (* bound: frames offered by each camera                     *)

Frames  == Cameras \X (1..MaxCalls)
Handles == 0..(NumHandles - 1)

ASSUME PoolAssumption ==
  /\ IsFiniteSet(Workers)
  /\ NumHandles \in Nat
  /\ Cardinality(Workers) <= NumHandles

ASSUME CameraAssumption == IsFiniteSet(Cameras) /\ Cameras # {}

ASSUME CapAssumption ==
  /\ ViCap \in Nat \ {0} /\ FrameCap \in Nat \ {0} /\ ResultCap \in Nat \ {0}
  /\ MaxCalls \in Nat
  /\ None \notin Frames

VARIABLES
  cam,            (* "idle", or "admitted": past the full() test            *)
  calls,          (* frames offered so far by each camera                   *)
  m_ViStream, m_DetectFrame, tasks, m_DetectResult,   (* the four queues    *)
  vi,             (* frame in the hands of the vi thread                    *)
  getframe,       (* frame in the hands of the GetFrame thread              *)
  task,           (* frame of the task each worker runs                     *)
  wpc,            (* where each worker is in taskModelReson()               *)
  index,          (* its local variable `index'                             *)
  m_HandleValid,  (* 1: the handle is taken                                 *)
  recv, rpc,      (* frame and place of the receive thread                  *)
  rgb,            (* the RGB buffer of each frame: none, live or freed      *)
  refused,        (* history: frames refused by push_stream                 *)
  lost,           (* history: frames given up for lack of memory or NPU     *)
  reports         (* history: how often each frame's result was reported    *)

camVars    == <<cam, calls, refused>>
workerVars == <<task, wpc, index, m_HandleValid>>
recvVars   == <<recv, rpc, reports>>
vars == <<cam, calls, m_ViStream, m_DetectFrame, tasks, m_DetectResult, vi,
          getframe, task, wpc, index, m_HandleValid, recv, rpc, rgb, refused,
          lost, reports>>

Init ==
  /\ cam = [c \in Cameras |-> "idle"]
  /\ calls = [c \in Cameras |-> 0]
  /\ m_ViStream = <<>> /\ m_DetectFrame = <<>>
  /\ tasks = <<>> /\ m_DetectResult = <<>>
  /\ vi = None /\ getframe = None
  /\ task = [w \in Workers |-> None]
  /\ wpc = [w \in Workers |-> "wait"]
  /\ index = [w \in Workers |-> -1]
  /\ m_HandleValid = [i \in Handles |-> 0]
  /\ recv = None /\ rpc = "pop"
  /\ rgb = [f \in Frames |-> "none"]
  /\ refused = {} /\ lost = {}
  /\ reports = [f \in Frames |-> 0]

-----------------------------------------------------------------------------
(* A camera: mpp_venc_push_stream()                                        *)

\* Mutant: the full() test is gone.
PushStreamUnchecked(c) ==
  /\ cam[c] = "idle" /\ calls[c] < MaxCalls
  /\ calls' = [calls EXCEPT ![c] = @ + 1]
  /\ cam' = [cam EXCEPT ![c] = "admitted"]
  /\ UNCHANGED <<m_ViStream, m_DetectFrame, tasks, m_DetectResult, vi, getframe,
                 workerVars, recvVars, rgb, refused, lost>>

\* full() is tested under the queue's mutex, the copy is made after it.
PushStreamCheck(c) ==
  /\ cam[c] = "idle" /\ calls[c] < MaxCalls
  /\ calls' = [calls EXCEPT ![c] = @ + 1]
  /\ \/ /\ Len(m_ViStream) >= ViCap
        /\ refused' = refused \cup {<<c, calls[c] + 1>>}
        /\ UNCHANGED cam
     \/ /\ Len(m_ViStream) < ViCap
        /\ cam' = [cam EXCEPT ![c] = "admitted"]
        /\ UNCHANGED refused
  /\ UNCHANGED <<m_ViStream, m_DetectFrame, tasks, m_DetectResult, vi, getframe,
                 workerVars, recvVars, rgb, lost>>

\* Mutant: the queue is not a blocking one and takes the frame all the same.
PushStreamPushForces(c) ==
  /\ cam[c] = "admitted"
  /\ m_ViStream' = Append(m_ViStream, <<c, calls[c]>>)
  /\ cam' = [cam EXCEPT ![c] = "idle"]
  /\ UNCHANGED <<calls, m_DetectFrame, tasks, m_DetectResult, vi, getframe,
                 workerVars, recvVars, rgb, refused, lost>>

\* The queue blocks a producer that finds it full after all.
PushStreamPush(c) ==
  /\ cam[c] = "admitted"
  /\ Len(m_ViStream) < ViCap
  /\ m_ViStream' = Append(m_ViStream, <<c, calls[c]>>)
  /\ cam' = [cam EXCEPT ![c] = "idle"]
  /\ UNCHANGED <<calls, m_DetectFrame, tasks, m_DetectResult, vi, getframe,
                 workerVars, recvVars, rgb, refused, lost>>

-----------------------------------------------------------------------------
(* mpp_vi_get_buffer_thread() and GetFrameDetectThread()                   *)

\* pop(), malloc() of the RGB buffer and the conversion into it.
ViPop ==
  /\ vi = None /\ m_ViStream # <<>>
  /\ vi' = Head(m_ViStream)
  /\ m_ViStream' = Tail(m_ViStream)
  /\ rgb' = [rgb EXCEPT ![Head(m_ViStream)] = "live"]
  /\ UNCHANGED <<camVars, m_DetectFrame, tasks, m_DetectResult, getframe,
                 workerVars, recvVars, lost>>

\* Mutant: the RGB buffer is freed whatever GasSendFrame() returns.
ViSendFrees ==
  /\ vi # None
  /\ Len(m_DetectFrame) < FrameCap
  /\ m_DetectFrame' = Append(m_DetectFrame, vi)
  /\ rgb' = [rgb EXCEPT ![vi] = "freed"]
  /\ vi' = None
  /\ UNCHANGED <<camVars, m_ViStream, tasks, m_DetectResult, getframe, workerVars,
                 recvVars, lost>>

\* GasSendFrame(): push() into m_DetectFrame, waiting while it is full.
ViSend ==
  /\ vi # None
  /\ Len(m_DetectFrame) < FrameCap
  /\ m_DetectFrame' = Append(m_DetectFrame, vi)
  /\ vi' = None
  /\ UNCHANGED <<camVars, m_ViStream, tasks, m_DetectResult, getframe, workerVars,
                 recvVars, rgb, lost>>

\* calloc() fails in Detect_task_SendFrame(): the vi thread frees the buffer.
ViSendFails ==
  /\ vi # None
  /\ rgb' = [rgb EXCEPT ![vi] = "freed"]
  /\ lost' = lost \cup {vi}
  /\ vi' = None
  /\ UNCHANGED <<camVars, m_ViStream, m_DetectFrame, tasks, m_DetectResult,
                 getframe, workerVars, recvVars>>

GetFramePop ==
  /\ getframe = None /\ m_DetectFrame # <<>>
  /\ getframe' = Head(m_DetectFrame)
  /\ m_DetectFrame' = Tail(m_DetectFrame)
  /\ UNCHANGED <<camVars, m_ViStream, tasks, m_DetectResult, vi, workerVars,
                 recvVars, rgb, lost>>

\* Mutant: the loop passes the same frame to the pool twice.
EnqueueTwice ==
  /\ getframe # None
  /\ tasks' = tasks \o <<getframe, getframe>>
  /\ getframe' = None
  /\ UNCHANGED <<camVars, m_ViStream, m_DetectFrame, m_DetectResult, vi,
                 workerVars, recvVars, rgb, lost>>

\* ThreadPool::enqueue(); the pool is not stopped while this thread runs.
Enqueue ==
  /\ getframe # None
  /\ tasks' = Append(tasks, getframe)
  /\ getframe' = None
  /\ UNCHANGED <<camVars, m_ViStream, m_DetectFrame, m_DetectResult, vi,
                 workerVars, recvVars, rgb, lost>>

-----------------------------------------------------------------------------
(* A worker of the pool: taskModelReson()                                  *)

TakeTask(w) ==
  /\ wpc[w] = "wait" /\ tasks # <<>>
  /\ task' = [task EXCEPT ![w] = Head(tasks)]
  /\ tasks' = Tail(tasks)
  /\ wpc' = [wpc EXCEPT ![w] = "start"]
  /\ UNCHANGED <<camVars, m_ViStream, m_DetectFrame, m_DetectResult, vi, getframe,
                 index, m_HandleValid, recvVars, rgb, lost>>

FreeHandles == {i \in Handles : m_HandleValid[i] = 0}

\* Mutant: the free slot is returned without being marked.
GetFreeHandleUnmarked(w) ==
  /\ wpc[w] = "start"
  /\ \/ /\ FreeHandles = {}
        /\ index' = [index EXCEPT ![w] = -1]
     \/ \E i \in FreeHandles :
          /\ \A j \in FreeHandles : i <= j
          /\ index' = [index EXCEPT ![w] = i]
  /\ wpc' = [wpc EXCEPT ![w] = "infer"]
  /\ UNCHANGED <<camVars, m_ViStream, m_DetectFrame, tasks, m_DetectResult, vi,
                 getframe, task, m_HandleValid, recvVars, rgb, lost>>

\* The first free slot, or -1; the caller does not test for -1.
GetFreeHandle(w) ==
  /\ wpc[w] = "start"
  /\ \/ /\ FreeHandles = {}
        /\ index' = [index EXCEPT ![w] = -1]
        /\ UNCHANGED m_HandleValid
     \/ \E i \in FreeHandles :
          /\ \A j \in FreeHandles : i <= j
          /\ index' = [index EXCEPT ![w] = i]
          /\ m_HandleValid' = [m_HandleValid EXCEPT ![i] = 1]
  /\ wpc' = [wpc EXCEPT ![w] = "infer"]
  /\ UNCHANGED <<camVars, m_ViStream, m_DetectFrame, tasks, m_DetectResult, vi,
                 getframe, task, recvVars, rgb, lost>>

InferSucceeds(w) ==
  /\ wpc[w] = "infer"
  /\ wpc' = [wpc EXCEPT ![w] = "push"]
  /\ UNCHANGED <<camVars, m_ViStream, m_DetectFrame, tasks, m_DetectResult, vi,
                 getframe, task, index, m_HandleValid, recvVars, rgb, lost>>

\* Mutant: the error path returns without SerFreeHandle().
InferFailsKeepsHandle(w) ==
  /\ wpc[w] = "infer"
  /\ lost' = lost \cup {task[w]}
  /\ task' = [task EXCEPT ![w] = None]
  /\ wpc' = [wpc EXCEPT ![w] = "wait"]
  /\ UNCHANGED <<camVars, m_ViStream, m_DetectFrame, tasks, m_DetectResult, vi,
                 getframe, index, m_HandleValid, recvVars, rgb>>

\* No memory for the result, or the NPU fails: the result is dropped, and
\* with it the only reference to the frame's RGB buffer.
InferFails(w) ==
  /\ wpc[w] = "infer"
  /\ lost' = lost \cup {task[w]}
  /\ task' = [task EXCEPT ![w] = None]
  /\ wpc' = [wpc EXCEPT ![w] = "release"]
  /\ UNCHANGED <<camVars, m_ViStream, m_DetectFrame, tasks, m_DetectResult, vi,
                 getframe, index, m_HandleValid, recvVars, rgb>>

\* Mutant: a result that finds the queue full is dropped.
PushResultDrops(w) ==
  /\ wpc[w] = "push"
  /\ m_DetectResult' = IF Len(m_DetectResult) < ResultCap
                       THEN Append(m_DetectResult, task[w]) ELSE m_DetectResult
  /\ task' = [task EXCEPT ![w] = None]
  /\ wpc' = [wpc EXCEPT ![w] = "release"]
  /\ UNCHANGED <<camVars, m_ViStream, m_DetectFrame, tasks, vi, getframe, index,
                 m_HandleValid, recvVars, rgb, lost>>

\* The handle is still held while the worker waits for room.
PushResult(w) ==
  /\ wpc[w] = "push"
  /\ Len(m_DetectResult) < ResultCap
  /\ m_DetectResult' = Append(m_DetectResult, task[w])
  /\ task' = [task EXCEPT ![w] = None]
  /\ wpc' = [wpc EXCEPT ![w] = "release"]
  /\ UNCHANGED <<camVars, m_ViStream, m_DetectFrame, tasks, vi, getframe, index,
                 m_HandleValid, recvVars, rgb, lost>>

SerFreeHandle(w) ==
  /\ wpc[w] = "release"
  /\ m_HandleValid' = [m_HandleValid EXCEPT ![index[w]] = 0]
  /\ wpc' = [wpc EXCEPT ![w] = "wait"]
  /\ index' = [index EXCEPT ![w] = -1]
  /\ UNCHANGED <<camVars, m_ViStream, m_DetectFrame, tasks, m_DetectResult, vi,
                 getframe, task, recvVars, rgb, lost>>

-----------------------------------------------------------------------------
(* GasResulRecvThread()                                                    *)

RecvPop ==
  /\ rpc = "pop" /\ m_DetectResult # <<>>
  /\ recv' = Head(m_DetectResult)
  /\ m_DetectResult' = Tail(m_DetectResult)
  /\ rpc' = "report"
  /\ UNCHANGED <<camVars, m_ViStream, m_DetectFrame, tasks, vi, getframe,
                 workerVars, rgb, lost, reports>>

\* GasResultPacket(): the registered callback gets the result.
Report ==
  /\ rpc = "report"
  /\ reports' = [reports EXCEPT ![recv] = @ + 1]
  /\ rpc' = "free"
  /\ UNCHANGED <<camVars, m_ViStream, m_DetectFrame, tasks, m_DetectResult, vi,
                 getframe, workerVars, recv, rgb, lost>>

\* Mutant: user_data is not freed.
RecvFreeLeaks ==
  /\ rpc = "free"
  /\ recv' = None
  /\ rpc' = "pop"
  /\ UNCHANGED <<camVars, m_ViStream, m_DetectFrame, tasks, m_DetectResult, vi,
                 getframe, workerVars, rgb, lost, reports>>

\* free(result.user_data) and detect_reuslt_delete().
RecvFree ==
  /\ rpc = "free"
  /\ rgb' = [rgb EXCEPT ![recv] = "freed"]
  /\ recv' = None
  /\ rpc' = "pop"
  /\ UNCHANGED <<camVars, m_ViStream, m_DetectFrame, tasks, m_DetectResult, vi,
                 getframe, workerVars, lost, reports>>

-----------------------------------------------------------------------------
Camera(c) == PushStreamCheck(c) \/ PushStreamPush(c)

ViThread       == ViPop \/ ViSend \/ ViSendFails
GetFrameThread == GetFramePop \/ Enqueue

Worker(w) ==
  \/ TakeTask(w) \/ GetFreeHandle(w) \/ InferSucceeds(w) \/ InferFails(w)
  \/ PushResult(w) \/ SerFreeHandle(w)

RecvThread == RecvPop \/ Report \/ RecvFree

Next ==
  \/ \E c \in Cameras : Camera(c)
  \/ ViThread
  \/ GetFrameThread
  \/ \E w \in Workers : Worker(w)
  \/ RecvThread

Spec == Init /\ [][Next]_vars

(***************************************************************************)
(* Every thread of the pipeline keeps running; a camera may stop offering  *)
(* frames at any time but returns from a push() it has begun.  None of the *)
(* threads is favoured: weak fairness of each.                             *)
(***************************************************************************)
Fairness ==
  /\ \A c \in Cameras : WF_vars(PushStreamPush(c))
  /\ WF_vars(ViThread)
  /\ WF_vars(GetFrameThread)
  /\ \A w \in Workers : WF_vars(Worker(w))
  /\ WF_vars(RecvThread)

FairSpec == Spec /\ Fairness

-----------------------------------------------------------------------------
(* Properties                                                              *)

MaybeFrame == Frames \cup {None}
Busy(w) == wpc[w] \in {"infer", "push", "release"}

\* The type invariant, the queues within their capacities.
TypeOK ==
  /\ cam \in [Cameras -> {"idle", "admitted"}]
  /\ calls \in [Cameras -> 0..MaxCalls]
  /\ m_ViStream \in Seq(Frames) /\ Len(m_ViStream) <= ViCap
  /\ m_DetectFrame \in Seq(Frames) /\ Len(m_DetectFrame) <= FrameCap
  /\ tasks \in Seq(Frames)
  /\ m_DetectResult \in Seq(Frames) /\ Len(m_DetectResult) <= ResultCap
  /\ vi \in MaybeFrame /\ getframe \in MaybeFrame /\ recv \in MaybeFrame
  /\ task \in [Workers -> MaybeFrame]
  /\ wpc \in [Workers -> {"wait", "start", "infer", "push", "release"}]
  /\ index \in [Workers -> -1..(NumHandles - 1)]
  /\ m_HandleValid \in [Handles -> {0, 1}]
  /\ rpc \in {"pop", "report", "free"}
  /\ rgb \in [Frames -> {"none", "live", "freed"}]
  /\ refused \subseteq Frames /\ lost \subseteq Frames
  /\ reports \in [Frames -> Nat]

\* The NPU handle a worker uses between GetFreeHandle() and SerFreeHandle() is
\* a valid slot and its own: the -1 the caller never tests for does not occur,
\* and no slot is marked that nobody will release.
HandlesExclusive ==
  /\ \A w \in Workers : Busy(w) => index[w] \in Handles
  /\ \A w1, w2 \in Workers :
       Busy(w1) /\ Busy(w2) /\ w1 # w2 => index[w1] # index[w2]
  /\ \A i \in Handles :
       m_HandleValid[i] = 1 <=> \E w \in Workers : Busy(w) /\ index[w] = i

\* The frames whose RGB buffer some later stage still reads or frees.
Converted ==
  Range(m_DetectFrame) \cup Range(tasks) \cup Range(m_DetectResult)
    \cup ({vi, getframe, recv} \ {None}) \cup (Range(task) \ {None})

\* Nobody reads or frees an RGB buffer that was already freed.
NoUseAfterFree == \A f \in Converted : rgb[f] = "live"

\* A buffer that nothing in the pipeline refers to any more was freed, except
\* for the frames a worker gave up: their buffers leak, and no others do.
LeaksAreFailures ==
  \A f \in Frames : rgb[f] = "live" /\ f \notin Converted => f \in lost

Held == {f \in Frames : rgb[f] = "live"} \ lost

\* The buffers the pipeline holds at a time are no more than the two bounded
\* queues and the threads have room for, and one for each task of the pool, whose
\* queue is the only part that can grow.
MemoryBound ==
  Cardinality(Held) <= Len(tasks) + FrameCap + ResultCap + Cardinality(Workers) + 3

\* The admission test and the push are two steps, so cameras that passed the
\* test together may have to wait for each other; but never all of them: what
\* was promised a place exceeds the queue by at most one frame per other camera.
\* With one camera, as in this program, an admitted frame never waits.
AdmissionBound ==
  Len(m_ViStream) + Cardinality({c \in Cameras : cam[c] = "admitted"})
    <= ViCap + Cardinality(Cameras) - 1

InFlight ==
  {f \in Frames : cam[f[1]] = "admitted" /\ calls[f[1]] = f[2]}
    \cup Range(m_ViStream)
    \cup Range(m_DetectFrame) \cup Range(tasks) \cup Range(m_DetectResult)
    \cup {vi, getframe} \cup Range(task)
    \cup (IF rpc = "report" THEN {recv} ELSE {})

\* The service's view of a frame; one found in two of these conditions at
\* once, or reported twice, has no fate.
FateOf(f, inflight) ==
  CASE f \in refused  /\ f \notin inflight \cup lost /\ reports[f] = 0 -> "refused"
    [] f \in inflight /\ f \notin refused \cup lost  /\ reports[f] = 0 -> "accepted"
    [] f \in lost     /\ f \notin refused \cup inflight /\ reports[f] = 0 -> "lost"
    [] f \notin refused \cup inflight \cup lost /\ reports[f] = 1 -> "reported"
    [] f \notin refused \cup inflight \cup lost /\ reports[f] = 0 -> "new"
    [] OTHER -> "confused"

Fate == LET inflight == InFlight IN [f \in Frames |-> FateOf(f, inflight)]

Service == INSTANCE DetectService WITH fate <- Fate

\* The pipeline of threads and queues is the detection service: no accepted
\* frame vanishes, is duplicated or is reported twice.
ImplementsService == Service!Spec

\* Each of the pipeline's queues is used as the queue class promises to work.
ViQueue == INSTANCE BoundedFifo WITH
  Elements <- Frames, InitialLimit <- ViCap, fifo <- m_ViStream, limit <- ViCap
FrameQueue == INSTANCE BoundedFifo WITH
  Elements <- Frames, InitialLimit <- FrameCap, fifo <- m_DetectFrame, limit <- FrameCap
ResultQueue == INSTANCE BoundedFifo WITH
  Elements <- Frames, InitialLimit <- ResultCap, fifo <- m_DetectResult, limit <- ResultCap

QueuesAreFifos == ViQueue!FifoSpec /\ FrameQueue!FifoSpec /\ ResultQueue!FifoSpec

\* The places on the way to the pool, the last one first.
OnTheWay(k, f) ==
  \/ k = 1 /\ f \in Range(tasks)
  \/ k = 2 /\ f = getframe
  \/ k = 3 /\ f \in Range(m_DetectFrame)
  \/ k = 4 /\ f = vi
  \/ k = 5 /\ f \in Range(m_ViStream)
  \/ k = 6 /\ cam[f[1]] = "admitted" /\ calls[f[1]] = f[2]

Earlier(f, g) == f[1] = g[1] => f[2] < g[2]
Sorted(queue) == \A i, j \in 1..Len(queue) : i < j => Earlier(queue[i], queue[j])

\* The frames of a camera come to the pool in the order they were offered: none
\* overtakes another in a queue or between two places.
InOrder ==
  /\ Sorted(tasks) /\ Sorted(m_DetectFrame) /\ Sorted(m_ViStream)
  /\ \A f, g \in Frames, k, l \in 1..6 :
       k < l /\ OnTheWay(k, f) /\ OnTheWay(l, g) => Earlier(f, g)

\* The guards of the threads' next steps, failures not counted on.
CameraGoes(c) == cam[c] = "admitted" /\ Len(m_ViStream) < ViCap
ViGoes == IF vi = None THEN m_ViStream # <<>> ELSE Len(m_DetectFrame) < FrameCap
GetFrameGoes == getframe # None \/ m_DetectFrame # <<>>
WorkerGoes(w) ==
  /\ wpc[w] = "wait" => tasks # <<>>
  /\ wpc[w] = "push" => Len(m_DetectResult) < ResultCap
RecvGoes == rpc # "pop" \/ m_DetectResult # <<>>

\* The threads that push wait for those that pop, and never in a circle: while a
\* frame is in the pipeline some thread can go on with its work.
NeverStuck ==
  InFlight \ {None} # {} =>
    \/ \E c \in Cameras : CameraGoes(c)
    \/ ViGoes \/ GetFrameGoes \/ RecvGoes
    \/ \E w \in Workers : WorkerGoes(w)

\* Every frame taken from a camera ends: its result is reported, or it is
\* counted as lost.
EveryFrameEnds ==
  \A f \in Frames : f \in InFlight ~> (f \in lost \/ reports[f] > 0)

=============================================================================
