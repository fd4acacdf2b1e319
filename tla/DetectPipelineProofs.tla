------------------------ MODULE DetectPipelineProofs -------------------------
(***************************************************************************)
(* Proofs about DetectPipeline, for any number of cameras and workers, any *)
(* capacities and any number of NPU handles not below that of workers: the *)
(* handles, the admission of frames, the RGB buffers, and the pipeline as  *)
(* an implementation of DetectService.                                     *)
(***************************************************************************)
EXTENDS DetectPipeline, FiniteSetTheorems, TLAPS

\* What the type invariant rests on: a thread past its pop() has a frame.
HoldsFrame ==
  /\ \A c \in Cameras : cam[c] = "admitted" => calls[c] >= 1
  /\ \A w \in Workers : wpc[w] \in {"start", "infer", "push"} => task[w] \in Frames
  /\ rpc \in {"report", "free"} => recv \in Frames

IInv == TypeOK /\ HoldsFrame /\ HandlesExclusive

LEMMA InitIInv == Init => IInv
<1> SUFFICES ASSUME Init PROVE IInv
  OBVIOUS
<1> USE CapAssumption, PoolAssumption DEF Init
<1>1. TypeOK
  BY DEF TypeOK, MaybeFrame, Handles
<1>2. HoldsFrame
  BY DEF HoldsFrame
<1>3. HandlesExclusive
  BY DEF HandlesExclusive, Busy
<1> QED
  BY <1>1, <1>2, <1>3 DEF IInv

\* Steps of the cameras, the vi, GetFrame and receive threads preserve the
\* invariant: the workers and their handles stay as they are.
LEMMA OutsideStep ==
  ASSUME IInv,
         (\E c \in Cameras : Camera(c)) \/ ViThread \/ GetFrameThread \/ RecvThread
  PROVE  IInv'
<1> USE CapAssumption DEF MaybeFrame
<1>t. TypeOK /\ HoldsFrame /\ HandlesExclusive
  BY DEF IInv
<1>w. UNCHANGED workerVars
  BY DEF Camera, PushStreamCheck, PushStreamPush, ViThread, ViPop, ViSend,
         ViSendFails, GetFrameThread, GetFramePop, Enqueue, RecvThread, RecvPop,
         Report, RecvFree
<1>3. HandlesExclusive'
  BY <1>t, <1>w DEF HandlesExclusive, Busy, workerVars
<1>k. /\ (task \in [Workers -> Frames \cup {None}])'
      /\ (wpc \in [Workers -> {"wait", "start", "infer", "push", "release"}])'
      /\ (index \in [Workers -> -1..(NumHandles - 1)])'
      /\ (m_HandleValid \in [Handles -> {0, 1}])'
      /\ (\A w \in Workers : wpc[w] \in {"start", "infer", "push"} => task[w] \in Frames)'
  BY <1>t, <1>w DEF TypeOK, HoldsFrame, workerVars
<1>f. \A c \in Cameras, n \in 1..MaxCalls : <<c, n>> \in Frames
  BY DEF Frames
<1>1. ASSUME NEW c \in Cameras, PushStreamCheck(c)
      PROVE  TypeOK' /\ HoldsFrame'
  <2>1. calls[c] + 1 \in 1..MaxCalls /\ calls' \in [Cameras -> 0..MaxCalls]
    BY SMTT(30), <1>1, <1>t DEF PushStreamCheck, TypeOK
  <2>2. cam' \in [Cameras -> {"idle", "admitted"}] /\ refused' \subseteq Frames
    BY <1>1, <1>t, <1>f, <2>1 DEF PushStreamCheck, TypeOK
  <2>3. TypeOK'
    BY <1>1, <1>t, <1>k, <2>1, <2>2 DEF PushStreamCheck, TypeOK, recvVars
  <2>4. HoldsFrame'
    BY <1>1, <1>t, <1>k, <2>1 DEF PushStreamCheck, TypeOK, HoldsFrame, recvVars
  <2> QED
    BY <2>3, <2>4
<1>2. ASSUME NEW c \in Cameras, PushStreamPush(c)
      PROVE  TypeOK' /\ HoldsFrame'
  <2>1. <<c, calls[c]>> \in Frames
    BY <1>2, <1>t, <1>f DEF PushStreamPush, TypeOK, HoldsFrame
  <2>2. m_ViStream' \in Seq(Frames) /\ Len(m_ViStream') <= ViCap
    BY <1>2, <1>t, <2>1 DEF PushStreamPush, TypeOK
  <2>3. TypeOK'
    BY <1>2, <1>t, <1>k, <2>2 DEF PushStreamPush, TypeOK, recvVars
  <2>4. HoldsFrame'
    BY <1>2, <1>t, <1>k DEF PushStreamPush, TypeOK, HoldsFrame, recvVars
  <2> QED
    BY <2>3, <2>4
<1>4. CASE ViPop
  <2>1. Head(m_ViStream) \in Frames /\ m_ViStream' \in Seq(Frames)
        /\ Len(m_ViStream') <= ViCap
    BY <1>4, <1>t DEF ViPop, TypeOK
  <2> QED
    BY <1>4, <1>t, <1>k, <1>3, <2>1 DEF ViPop, TypeOK, HoldsFrame, IInv, camVars, recvVars
<1>5. CASE ViSend
  <2>1. m_DetectFrame' \in Seq(Frames) /\ Len(m_DetectFrame') <= FrameCap
    BY <1>5, <1>t DEF ViSend, TypeOK
  <2> QED
    BY <1>5, <1>t, <1>k, <1>3, <2>1 DEF ViSend, TypeOK, HoldsFrame, IInv, camVars, recvVars
<1>6. CASE ViSendFails
  BY <1>6, <1>t, <1>k, <1>3 DEF ViSendFails, TypeOK, HoldsFrame, IInv, camVars, recvVars
<1>7. CASE GetFramePop
  <2>1. Head(m_DetectFrame) \in Frames /\ m_DetectFrame' \in Seq(Frames)
        /\ Len(m_DetectFrame') <= FrameCap
    BY <1>7, <1>t DEF GetFramePop, TypeOK
  <2> QED
    BY <1>7, <1>t, <1>k, <1>3, <2>1 DEF GetFramePop, TypeOK, HoldsFrame, IInv, camVars, recvVars
<1>8. CASE Enqueue
  <2>1. tasks' \in Seq(Frames)
    BY <1>8, <1>t DEF Enqueue, TypeOK
  <2> QED
    BY <1>8, <1>t, <1>k, <1>3, <2>1 DEF Enqueue, TypeOK, HoldsFrame, IInv, camVars, recvVars
<1>9. CASE RecvPop
  <2>1. Head(m_DetectResult) \in Frames /\ m_DetectResult' \in Seq(Frames)
        /\ Len(m_DetectResult') <= ResultCap
    BY <1>9, <1>t DEF RecvPop, TypeOK
  <2> QED
    BY <1>9, <1>t, <1>k, <1>3, <2>1 DEF RecvPop, TypeOK, HoldsFrame, IInv, camVars
<1>10. CASE Report
  <2>1. reports' \in [Frames -> Nat]
    BY <1>10, <1>t DEF Report, TypeOK, HoldsFrame
  <2> QED
    BY <1>10, <1>t, <1>k, <1>3, <2>1 DEF Report, TypeOK, HoldsFrame, IInv, camVars
<1>11. CASE RecvFree
  BY <1>11, <1>t, <1>k, <1>3 DEF RecvFree, TypeOK, HoldsFrame, IInv, camVars
<1> QED
  BY <1>1, <1>2, <1>3, <1>4, <1>5, <1>6, <1>7, <1>8, <1>9, <1>10, <1>11
     DEF Camera, ViThread, GetFrameThread, RecvThread, IInv

\* As long as a worker asks for a handle there is a free one: each taken handle
\* is held by a busy worker, and the asking one is not busy.
LEMMA HandleAvailable ==
  ASSUME IInv, NEW w \in Workers, wpc[w] = "start"
  PROVE  FreeHandles # {}
<1> SUFFICES ASSUME FreeHandles = {} PROVE FALSE
  OBVIOUS
<1> DEFINE Holders == {v \in Workers : Busy(v)}
           holds == [v \in Holders |-> index[v]]
<1>1. w \notin Holders
  BY DEF Busy
<1>2. /\ IsFiniteSet(Holders \cup {w}) /\ IsFiniteSet(Holders)
      /\ Cardinality(Holders \cup {w}) <= Cardinality(Workers)
      /\ Cardinality(Holders) \in Nat
  BY PoolAssumption, FS_Subset, FS_CardinalityType
<1>3. Cardinality(Holders) + 1 = Cardinality(Holders \cup {w})
  BY <1>1, <1>2, FS_AddElement
<1>4. \A i \in Handles : m_HandleValid[i] = 1
  BY DEF FreeHandles, IInv, TypeOK
<1>5. holds \in Surjection(Holders, Handles)
  BY <1>4 DEF IInv, HandlesExclusive, Surjection
<1>6. Cardinality(Handles) <= Cardinality(Holders)
  BY <1>2, <1>5, FS_Surjection
<1>7. Cardinality(Handles) = NumHandles
  BY PoolAssumption, FS_Interval DEF Handles
<1>8. Cardinality(Workers) \in Nat /\ Cardinality(Holders \cup {w}) \in Nat
  BY PoolAssumption, <1>2, FS_CardinalityType
<1> QED
  BY <1>2, <1>3, <1>6, <1>7, <1>8, PoolAssumption

\* Steps of a worker preserve the invariant.
LEMMA WorkerStep ==
  ASSUME IInv, NEW w \in Workers, Worker(w)
  PROVE  IInv'
<1> USE CapAssumption, PoolAssumption DEF MaybeFrame
<1>t. TypeOK /\ HoldsFrame /\ HandlesExclusive
  BY DEF IInv
<1>1. CASE TakeTask(w)
  <2>1. Head(tasks) \in Frames /\ tasks' \in Seq(Frames)
    BY <1>1, <1>t DEF TakeTask, TypeOK
  <2>2. TypeOK'
    BY <1>1, <1>t, <2>1 DEF TakeTask, TypeOK, camVars, recvVars
  <2>3. HoldsFrame'
    BY <1>1, <1>t, <2>1 DEF TakeTask, TypeOK, HoldsFrame, camVars, recvVars
  <2>4. \A v \in Workers : Busy(v)' <=> Busy(v)
    BY <1>1, <1>t DEF TakeTask, TypeOK, Busy
  <2>5. HandlesExclusive'
    BY <1>1, <1>t, <2>4 DEF TakeTask, HandlesExclusive
  <2> QED
    BY <2>2, <2>3, <2>5 DEF IInv
<1>2. CASE GetFreeHandle(w)
  <2>1. PICK i \in FreeHandles :
          /\ index' = [index EXCEPT ![w] = i]
          /\ m_HandleValid' = [m_HandleValid EXCEPT ![i] = 1]
    BY <1>2, HandleAvailable DEF GetFreeHandle
  <2>2. i \in Handles /\ m_HandleValid[i] = 0
    BY DEF FreeHandles
  <2>3. TypeOK'
    BY SMTT(30), <1>2, <1>t, <2>1, <2>2 DEF GetFreeHandle, TypeOK, Handles, camVars, recvVars
  <2>4. HoldsFrame'
    BY <1>2, <1>t DEF GetFreeHandle, TypeOK, HoldsFrame, camVars, recvVars
  <2>5. \A v \in Workers : Busy(v)' <=> Busy(v) \/ v = w
    BY <1>2, <1>t DEF GetFreeHandle, TypeOK, Busy
  <2>6. ~Busy(w)
    BY <1>2 DEF GetFreeHandle, Busy
  <2>7. \A v \in Workers : index'[v] = IF v = w THEN i ELSE index[v]
    BY <1>t, <2>1 DEF TypeOK
  <2>8. \A v \in Workers : Busy(v) => index[v] # i
    BY <1>t, <2>2 DEF HandlesExclusive
  <2>9. \A j \in Handles : m_HandleValid'[j] = IF j = i THEN 1 ELSE m_HandleValid[j]
    BY <1>t, <2>1 DEF TypeOK
  <2>10. \A v \in Workers : Busy(v)' => index'[v] \in Handles
    BY <1>t, <2>2, <2>5, <2>7 DEF HandlesExclusive
  <2>11. \A v1, v2 \in Workers :
           Busy(v1)' /\ Busy(v2)' /\ v1 # v2 => index'[v1] # index'[v2]
    BY <1>t, <2>5, <2>7, <2>8 DEF HandlesExclusive
  <2>12. ASSUME NEW j \in Handles
         PROVE  m_HandleValid'[j] = 1 <=> \E v \in Workers : Busy(v)' /\ index'[v] = j
    <3>1. CASE j = i
      BY <3>1, <2>5, <2>7, <2>9
    <3>2. CASE j # i
      <4>1. m_HandleValid'[j] = m_HandleValid[j]
        BY <3>2, <2>9
      <4>2. \A v \in Workers : Busy(v)' /\ index'[v] = j <=> Busy(v) /\ index[v] = j
        BY <3>2, <2>5, <2>6, <2>7
      <4>3. m_HandleValid[j] = 1 <=> \E v \in Workers : Busy(v) /\ index[v] = j
        BY <1>t DEF HandlesExclusive
      <4> QED
        BY <4>1, <4>2, <4>3
    <3> QED
      BY <3>1, <3>2
  <2>13. HandlesExclusive'
    BY <2>10, <2>11, <2>12 DEF HandlesExclusive
  <2> QED
    BY <2>3, <2>4, <2>13 DEF IInv
<1>3. CASE InferSucceeds(w) \/ InferFails(w) \/ PushResult(w)
  <2>1. task[w] \in Frames
    BY <1>3, <1>t DEF InferSucceeds, InferFails, PushResult, HoldsFrame
  <2>2. m_DetectResult' \in Seq(Frames) /\ Len(m_DetectResult') <= ResultCap
    <3>1. CASE InferSucceeds(w) \/ InferFails(w)
      BY <3>1, <1>t DEF InferSucceeds, InferFails, TypeOK
    <3>2. CASE PushResult(w)
      BY <3>2, <1>t, <2>1 DEF PushResult, TypeOK
    <3> QED
      BY <3>1, <3>2, <1>3
  <2>3. lost' \subseteq Frames
    BY <1>3, <1>t, <2>1 DEF InferSucceeds, InferFails, PushResult, TypeOK
  <2>4. /\ task' \in [Workers -> Frames \cup {None}]
        /\ wpc' \in [Workers -> {"wait", "start", "infer", "push", "release"}]
    BY <1>3, <1>t DEF InferSucceeds, InferFails, PushResult, TypeOK
  <2>5. /\ UNCHANGED <<cam, calls, refused, m_ViStream, m_DetectFrame, tasks, vi,
                       getframe, index, m_HandleValid, recv, rpc, reports, rgb>>
    BY <1>3 DEF InferSucceeds, InferFails, PushResult, camVars, recvVars
  <2>6. TypeOK'
    BY <1>t, <2>2, <2>3, <2>4, <2>5 DEF TypeOK
  <2>7. HoldsFrame'
    BY <1>3, <1>t, <2>1, <2>5 DEF InferSucceeds, InferFails, PushResult, TypeOK, HoldsFrame
  <2>8. \A v \in Workers : Busy(v)' <=> Busy(v)
    BY <1>3, <1>t DEF InferSucceeds, InferFails, PushResult, TypeOK, Busy
  <2>9. HandlesExclusive'
    BY <1>t, <2>5, <2>8 DEF HandlesExclusive
  <2> QED
    BY <2>6, <2>7, <2>9 DEF IInv
<1>4. CASE SerFreeHandle(w)
  <2>1. Busy(w) /\ index[w] \in Handles
    BY <1>4, <1>t DEF SerFreeHandle, Busy, HandlesExclusive
  <2>2. TypeOK'
    BY SMTT(30), <1>4, <1>t, <2>1 DEF SerFreeHandle, TypeOK, Handles, camVars, recvVars
  <2>3. HoldsFrame'
    BY <1>4, <1>t DEF SerFreeHandle, TypeOK, HoldsFrame, camVars, recvVars
  <2>4. \A v \in Workers : Busy(v)' <=> Busy(v) /\ v # w
    BY <1>4, <1>t DEF SerFreeHandle, TypeOK, Busy
  <2>5. \A v \in Workers : v # w => index'[v] = index[v]
    BY <1>4, <1>t DEF SerFreeHandle, TypeOK
  <2>6. \A j \in Handles :
          m_HandleValid'[j] = IF j = index[w] THEN 0 ELSE m_HandleValid[j]
    BY <1>4, <1>t DEF SerFreeHandle, TypeOK
  <2>7. \A v \in Workers : Busy(v)' => index'[v] \in Handles
    BY <1>t, <2>4, <2>5 DEF HandlesExclusive
  <2>8. \A v1, v2 \in Workers :
          Busy(v1)' /\ Busy(v2)' /\ v1 # v2 => index'[v1] # index'[v2]
    BY <1>t, <2>4, <2>5 DEF HandlesExclusive
  <2>9. ASSUME NEW j \in Handles
        PROVE  m_HandleValid'[j] = 1 <=> \E v \in Workers : Busy(v)' /\ index'[v] = j
    <3>1. m_HandleValid[j] = 1 <=> \E v \in Workers : Busy(v) /\ index[v] = j
      BY <1>t DEF HandlesExclusive
    <3>2. CASE j = index[w]
      <4>1. \A v \in Workers : Busy(v) /\ v # w => index[v] # j
        BY <1>t, <2>1, <3>2 DEF HandlesExclusive
      <4>2. \A v \in Workers : Busy(v)' => index'[v] # j
        BY <4>1, <2>4, <2>5
      <4> QED
        BY <4>2, <2>6, <3>2
    <3>3. CASE j # index[w]
      <4>1. \A v \in Workers : Busy(v)' /\ index'[v] = j <=> Busy(v) /\ index[v] = j
        BY <3>3, <2>4, <2>5
      <4> QED
        BY <4>1, <3>1, <2>6, <3>3
    <3> QED
      BY <3>2, <3>3
  <2>10. HandlesExclusive'
    BY <2>7, <2>8, <2>9 DEF HandlesExclusive
  <2> QED
    BY <2>2, <2>3, <2>10 DEF IInv
<1> QED
  BY <1>1, <1>2, <1>3, <1>4 DEF Worker

LEMMA InductiveStep == ASSUME IInv, [Next]_vars PROVE IInv'
<1>1. CASE UNCHANGED vars
  BY <1>1 DEF vars, IInv, TypeOK, HoldsFrame, HandlesExclusive, Busy, MaybeFrame
<1>2. CASE Next
  BY <1>2, OutsideStep, WorkerStep DEF Next
<1> QED
  BY <1>1, <1>2

LEMMA Inductive == Spec => []IInv
BY InitIInv, InductiveStep, PTL DEF Spec

\* Type correctness: every queue within its capacity, every local variable a
\* value the thread can hold.
THEOREM TypeCorrect == Spec => []TypeOK
<1>1. IInv => TypeOK
  BY DEF IInv
<1> QED
  BY <1>1, Inductive, PTL

\* As many handles as workers are enough: no worker ever indexes with -1, no
\* two share a handle and none is lost, for any interleaving of the workers and
\* any failures (GetFreeHandle, SerFreeHandle and taskModelReson).
THEOREM HandlesCorrect == Spec => []HandlesExclusive
<1>1. IInv => HandlesExclusive
  BY DEF IInv
<1> QED
  BY <1>1, Inductive, PTL

\* The frames a camera was promised a place for exceed the places by at most
\* one for each other camera: mpp_venc_push_stream() never lets every camera wait.
THEOREM AdmissionBounded == Spec => []AdmissionBound
<1> DEFINE Admitted == {c \in Cameras : cam[c] = "admitted"}
           Bound == Len(m_ViStream) + Cardinality(Admitted) <= ViCap + Cardinality(Cameras) - 1
<1>n. Cardinality(Cameras) \in Nat /\ Cardinality(Cameras) # 0
  BY CameraAssumption, FS_CardinalityType, FS_EmptySet
<1>1. Init => Bound
  <2> SUFFICES ASSUME Init PROVE Bound
    OBVIOUS
  <2>1. Admitted = {}
    BY DEF Init
  <2>2. Cardinality(Admitted) = 0 /\ Len(m_ViStream) = 0
    BY <2>1, FS_EmptySet DEF Init
  <2> QED
    BY <1>n, <2>2, CapAssumption
<1>2. IInv /\ Bound /\ [Next]_vars => Bound'
  <2> SUFFICES ASSUME IInv, Bound, [Next]_vars PROVE Bound'
    OBVIOUS
  <2>t. /\ cam \in [Cameras -> {"idle", "admitted"}]
        /\ m_ViStream \in Seq(Frames) /\ Len(m_ViStream) \in Nat /\ ViCap \in Nat
    BY CapAssumption DEF IInv, TypeOK
  <2>f. IsFiniteSet(Admitted) /\ Cardinality(Admitted) \in Nat
    BY CameraAssumption, FS_Subset, FS_CardinalityType
  <2>1. CASE UNCHANGED <<cam, m_ViStream>>
    BY <2>1
  <2>2. ASSUME NEW c \in Cameras, PushStreamCheck(c) PROVE Bound'
    <3>1. c \notin Admitted /\ m_ViStream' = m_ViStream
      BY <2>2 DEF PushStreamCheck
    <3>2. CASE cam' = cam
      BY <3>1, <3>2, <2>1
    <3>3. CASE Len(m_ViStream) < ViCap /\ cam' = [cam EXCEPT ![c] = "admitted"]
      <4>1. Admitted' = Admitted \cup {c}
        BY <3>3, <2>t
      <4>2. Cardinality(Admitted') = Cardinality(Admitted) + 1
        BY <2>f, <3>1, <4>1, FS_AddElement
      <4>3. Cardinality(Admitted') <= Cardinality(Cameras)
        BY CameraAssumption, FS_Subset, FS_CardinalityType
      <4> QED
        BY <1>n, <2>t, <2>f, <3>1, <3>3, <4>2, <4>3
    <3> QED
      BY <2>2, <3>2, <3>3 DEF PushStreamCheck
  <2>3. ASSUME NEW c \in Cameras, PushStreamPush(c) PROVE Bound'
    <3>1. c \in Admitted /\ Admitted' = Admitted \ {c}
      BY <2>3, <2>t DEF PushStreamPush
    <3>2. Cardinality(Admitted') = Cardinality(Admitted) - 1
      BY <2>f, <3>1, FS_RemoveElement
    <3>3. Len(m_ViStream') = Len(m_ViStream) + 1
      BY <2>3, <2>t DEF PushStreamPush
    <3> QED
      BY <1>n, <2>t, <2>f, <3>2, <3>3
  <2>4. CASE ViPop
    <3>1. Admitted' = Admitted /\ Len(m_ViStream') = Len(m_ViStream) - 1
      BY <2>4, <2>t DEF ViPop, camVars
    <3>2. Cardinality(Admitted') = Cardinality(Admitted)
      BY <3>1
    <3> QED
      BY <1>n, <2>t, <2>f, <3>1, <3>2
  <2>5. ASSUME ViSend \/ ViSendFails \/ GetFrameThread \/ RecvThread
                 \/ (\E w \in Workers : Worker(w))
        PROVE  UNCHANGED <<cam, m_ViStream>>
    BY <2>5 DEF ViSend, ViSendFails, GetFrameThread, GetFramePop, Enqueue,
         RecvThread, RecvPop, Report, RecvFree, Worker, TakeTask, GetFreeHandle,
         InferSucceeds, InferFails, PushResult, SerFreeHandle, camVars
  <2> QED
    BY <2>1, <2>2, <2>3, <2>4, <2>5 DEF Next, Camera, ViThread, vars
<1>3. Bound => AdmissionBound
  BY DEF AdmissionBound
<1> QED
  BY <1>1, <1>2, <1>3, Inductive, PTL DEF Spec

-----------------------------------------------------------------------------
(* The RGB buffers: every frame behind the vi thread is in one place.      *)

Distinct(queue) == \A i, j \in 1..Len(queue) : queue[i] = queue[j] => i = j

Places == ({"vi", "frame", "get", "tasks", "result", "recv"} \X {None})
            \cup ({"worker"} \X Workers)

In(p, f) ==
  \/ p[1] = "vi" /\ vi = f
  \/ p[1] = "frame" /\ f \in Range(m_DetectFrame)
  \/ p[1] = "get" /\ getframe = f
  \/ p[1] = "tasks" /\ f \in Range(tasks)
  \/ p[1] = "worker" /\ task[p[2]] = f
  \/ p[1] = "result" /\ f \in Range(m_DetectResult)
  \/ p[1] = "recv" /\ recv = f

Single(f) == \A p, q \in Places : In(p, f) /\ In(q, f) => p = q

\* Its buffer is there from the conversion on until it is freed, and is only
\* left alone for a frame that was given up.
Buffer(f) ==
  /\ (\E p \in Places : In(p, f)) => rgb[f] = "live"
  /\ rgb[f] = "live" => f \in lost \/ \E p \in Places : In(p, f)

\* Before the conversion there is none.
Unconverted(f) ==
  /\ f \in Range(m_ViStream) =>
       /\ rgb[f] = "none"
       /\ f[2] < calls[f[1]] \/ (f[2] = calls[f[1]] /\ cam[f[1]] = "idle")
  /\ f[2] > calls[f[1]] \/ (f[2] = calls[f[1]] /\ cam[f[1]] = "admitted") => rgb[f] = "none"

\* How a frame ends: refused, given up, or reported once, just before its
\* buffer is freed.
Pending(f) == cam[f[1]] = "admitted" /\ calls[f[1]] = f[2]

Ends(f) ==
  /\ f \in refused =>
       rgb[f] = "none" /\ f \notin Range(m_ViStream) /\ ~Pending(f) /\ f[2] <= calls[f[1]]
  /\ f \in lost => rgb[f] # "none" /\ \A p \in Places : ~In(p, f)
  /\ reports[f] # 0 =>
       /\ reports[f] = 1 /\ f \notin lost /\ rgb[f] # "none"
       /\ \A p \in Places : In(p, f) => p[1] = "recv" /\ rpc = "free"
  /\ recv = f /\ rpc = "free" => reports[f] = 1
  /\ rgb[f] = "freed" => f \in lost \/ reports[f] = 1
  /\ rgb[f] = "none" /\ f[2] <= calls[f[1]] =>
       f \in refused \/ f \in Range(m_ViStream) \/ Pending(f)

FlowInv ==
  /\ Distinct(m_ViStream) /\ Distinct(m_DetectFrame) /\ Distinct(tasks)
  /\ Distinct(m_DetectResult)
  /\ \A w \in Workers : wpc[w] \in {"wait", "release"} => task[w] = None
  /\ rpc = "pop" => recv = None
  /\ \A f \in Frames : Single(f) /\ Buffer(f) /\ Unconverted(f) /\ Ends(f)

LEMMA TakenFirst ==
  ASSUME NEW S, NEW queue \in Seq(S), queue # <<>>, Distinct(queue)
  PROVE  /\ Distinct(Tail(queue)) /\ Head(queue) \in Range(queue) /\ Head(queue) \in S
         /\ \A f : f \in Range(Tail(queue)) <=> f \in Range(queue) /\ f # Head(queue)
<1>1. /\ Len(queue) \in Nat \ {0} /\ Head(queue) = queue[1] /\ Len(Tail(queue)) = Len(queue) - 1
      /\ \A i \in 1..Len(Tail(queue)) : Tail(queue)[i] = queue[i + 1]
      /\ DOMAIN queue = 1..Len(queue) /\ DOMAIN Tail(queue) = 1..Len(Tail(queue))
  OBVIOUS
<1>2. Distinct(Tail(queue))  BY <1>1 DEF Distinct
<1>3. 1 \in 1..Len(queue)  BY <1>1
<1>4. Head(queue) \in Range(queue) /\ Head(queue) \in S  BY <1>1, <1>3 DEF Range
<1>5. ASSUME NEW f, f \in Range(Tail(queue)) PROVE f \in Range(queue) /\ f # Head(queue)
  <2>1. PICK i \in 1..Len(Tail(queue)) : f = Tail(queue)[i]  BY <1>1, <1>5 DEF Range
  <2>2. i + 1 \in 1..Len(queue) /\ f = queue[i + 1] /\ i + 1 # 1  BY <1>1, <2>1
  <2> QED BY <1>1, <1>3, <2>2 DEF Range, Distinct
<1>6. ASSUME NEW f \in Range(queue), f # Head(queue) PROVE f \in Range(Tail(queue))
  <2>1. PICK i \in 1..Len(queue) : f = queue[i]  BY <1>1 DEF Range
  <2>2. i - 1 \in 1..Len(Tail(queue))  BY <1>1, <1>6, <2>1
  <2>3. Tail(queue)[i - 1] = f  BY <1>1, <2>1, <2>2
  <2> QED BY <1>1, <2>2, <2>3 DEF Range
<1> QED BY <1>2, <1>4, <1>5, <1>6

LEMMA PutLast ==
  ASSUME NEW S, NEW queue \in Seq(S), NEW g \in S, Distinct(queue), g \notin Range(queue)
  PROVE  /\ Distinct(Append(queue, g))
         /\ \A f : f \in Range(Append(queue, g)) <=> f \in Range(queue) \/ f = g
<1> DEFINE longer == Append(queue, g)
<1>1. /\ Len(queue) \in Nat /\ Len(longer) = Len(queue) + 1 /\ longer[Len(queue) + 1] = g
      /\ \A i \in 1..Len(queue) : longer[i] = queue[i]
      /\ DOMAIN queue = 1..Len(queue) /\ DOMAIN longer = 1..Len(longer)
  OBVIOUS
<1>2. \A i \in 1..Len(longer) : i \in 1..Len(queue) \/ i = Len(queue) + 1  BY <1>1
<1>3. \A i \in 1..Len(queue) : queue[i] # g  BY <1>1 DEF Range
<1> HIDE DEF longer
<1>4. Distinct(longer)  BY <1>1, <1>2, <1>3 DEF Distinct
<1>5. \A f : f \in Range(longer) <=> f \in Range(queue) \/ f = g
  <2>1. \A i \in 1..Len(queue) : i \in 1..Len(longer)  BY <1>1
  <2>2. Len(queue) + 1 \in 1..Len(longer)  BY <1>1
  <2> QED BY <1>1, <1>2, <2>1, <2>2 DEF Range
<1> QED BY <1>4, <1>5 DEF longer

\* The frame g goes from where it was to q, or out of the pipeline.
LEMMA Moves ==
  ASSUME NEW f \in Frames, NEW g \in Frames, Single(f), f = g \/ Buffer(f),
         f # g => /\ \A x \in Places : In(x, f)' <=> In(x, f)
                  /\ rgb'[f] = rgb[f] /\ (f \in lost => f \in lost'),
         f = g => \/ /\ rgb'[f] = "live"
                     /\ \E q \in Places : \A x \in Places : In(x, f)' <=> x = q
                  \/ /\ \A x \in Places : ~In(x, f)'
                     /\ rgb'[f] # "live" \/ f \in lost'
  PROVE  Single(f)' /\ Buffer(f)'
<1>1. CASE f = g  BY <1>1 DEF Single, Buffer
<1>2. CASE f # g
  <2>1. Single(f)'  BY <1>2 DEF Single
  <2>2. Buffer(f)'  BY <1>2 DEF Buffer
  <2> QED BY <2>1, <2>2
<1> QED BY <1>1, <1>2

LEMMA PlaceFacts ==
  /\ \A name \in {"vi", "frame", "get", "tasks", "result", "recv"} : <<name, None>> \in Places
  /\ \A w \in Workers : <<"worker", w>> \in Places
  /\ \A p \in Places :
       \/ p[1] \in {"vi", "frame", "get", "tasks", "result", "recv"} /\ p = <<p[1], None>>
       \/ p[1] = "worker" /\ p[2] \in Workers /\ p = <<"worker", p[2]>>
BY DEF Places

LEMMA FlowInit == Init => FlowInv
<1> SUFFICES ASSUME Init PROVE FlowInv
  OBVIOUS
<1>1. \A f \in Frames, p \in Places : ~In(p, f)
  BY PlaceFacts, CapAssumption DEF Init, In, Range
<1>2. \A f \in Frames : rgb[f] = "none" /\ f \notin Range(m_ViStream)
  BY DEF Init, Range
<1>3. \A f \in Frames : Single(f) /\ Buffer(f) /\ Unconverted(f)
  BY <1>1, <1>2 DEF Single, Buffer, Unconverted
<1>4. \A f \in Frames : f[1] \in Cameras /\ f[2] \in Int /\ f[2] > 0
  BY CapAssumption DEF Frames
<1>5. \A f \in Frames : Ends(f)
  BY <1>1, <1>2, <1>4 DEF Init, Ends
<1> QED BY <1>3, <1>5 DEF Init, FlowInv, Distinct

LEMMA FlowStep == ASSUME IInv, FlowInv, [Next]_vars PROVE FlowInv'
<1>t. /\ TypeOK /\ HoldsFrame /\ None \notin Frames
      /\ Distinct(m_ViStream) /\ Distinct(m_DetectFrame) /\ Distinct(tasks)
      /\ Distinct(m_DetectResult)
      /\ \A w \in Workers : wpc[w] \in {"wait", "release"} => task[w] = None
      /\ rpc = "pop" => recv = None
      /\ \A f \in Frames : Single(f) /\ Buffer(f) /\ Unconverted(f) /\ Ends(f)
      /\ \A f \in Frames : f[1] \in Cameras /\ f[2] \in Int /\ calls[f[1]] \in Int
  BY SMTT(30), CapAssumption DEF IInv, FlowInv, TypeOK, Frames
<1>q. /\ m_ViStream \in Seq(Frames) /\ m_DetectFrame \in Seq(Frames) /\ tasks \in Seq(Frames)
      /\ m_DetectResult \in Seq(Frames)
      /\ task \in [Workers -> Frames \cup {None}] /\ rgb \in [Frames -> {"none", "live", "freed"}]
      /\ vi \in Frames \cup {None} /\ getframe \in Frames \cup {None}
      /\ recv \in Frames \cup {None}
      /\ wpc \in [Workers -> {"wait", "start", "infer", "push", "release"}]
  BY <1>t DEF TypeOK, MaybeFrame
\* What a step that moves the frame g from one place to another has to show.
<1>m. ASSUME NEW g \in Frames, NEW p \in Places, NEW q \in Places, In(p, g), p # q,
             UNCHANGED <<m_ViStream, cam, calls, rgb, lost, refused, reports>>, p[1] # "recv",
             UNCHANGED <<recv, rpc>> \/ (rpc = "pop" /\ rpc' = "report"),
             Distinct(m_DetectFrame)', Distinct(tasks)', Distinct(m_DetectResult)',
             \A w \in Workers : wpc'[w] \in {"wait", "release"} => task'[w] = None,
             rpc' = "pop" => recv' = None,
             \A f \in Frames, x \in Places :
               In(x, f)' <=> IF f = g THEN x = q ELSE In(x, f)
      PROVE  FlowInv'
  <2>1. rgb[g] = "live"  BY <1>t, <1>m DEF Buffer
  <2>2. ASSUME NEW f \in Frames PROVE Single(f)' /\ Buffer(f)'
    BY <1>t, <1>m, <2>1, Moves
  <2>3. \A f \in Frames : Unconverted(f)'  BY <1>t, <1>m DEF Unconverted
  <2>4. g \notin lost /\ reports[g] = 0  BY <1>t, <1>m DEF Ends
  <2>5. ASSUME NEW f \in Frames PROVE Ends(f)'
    <3>1. CASE f = g  BY <1>t, <1>m, <2>1, <2>4, <3>1 DEF Ends, Pending
    <3>2. CASE f # g  BY <1>t, <1>m, <3>2 DEF Ends, Pending
    <3> QED BY <3>1, <3>2
  <2> QED BY <1>t, <1>m, <2>2, <2>3, <2>5 DEF FlowInv, Distinct
\* ... and one that takes it out.
<1>o. ASSUME NEW g \in Frames, NEW p \in Places, In(p, g),
             UNCHANGED <<m_ViStream, m_DetectFrame, tasks, m_DetectResult, cam, calls>>,
             \A w \in Workers : wpc'[w] \in {"wait", "release"} => task'[w] = None,
             rpc' = "pop" => recv' = None,
             \A f \in Frames, x \in Places : In(x, f)' <=> f # g /\ In(x, f),
             \A f \in Frames : f # g => rgb'[f] = rgb[f] /\ (f \in lost => f \in lost'),
             rgb'[g] # "live" \/ g \in lost',
             rgb'[g] = "freed" \/ rgb'[g] = rgb[g],
             UNCHANGED <<refused, reports>>, \A f \in Frames : f \in lost' => f \in lost \/ f = g,
             \/ g \in lost' /\ p[1] # "recv" /\ UNCHANGED <<recv, rpc>>
             \/ recv = g /\ rpc = "free" /\ rpc' = "pop" /\ g \notin lost'
      PROVE  FlowInv'
  <2>1. rgb[g] = "live"  BY <1>t, <1>o DEF Buffer
  <2>2. ASSUME NEW f \in Frames PROVE Single(f)' /\ Buffer(f)'
    BY <1>t, <1>o, Moves
  <2>3. ASSUME NEW f \in Frames PROVE Unconverted(f)'
    BY <1>t, <1>o, <2>1 DEF Unconverted
  <2>4. ASSUME NEW f \in Frames PROVE Ends(f)'
    <3>1. CASE f = g  BY <1>t, <1>o, <2>1, <3>1 DEF Ends, Pending
    <3>2. CASE f # g /\ UNCHANGED <<recv, rpc>>
      BY <1>t, <1>o, <3>2 DEF Ends, Pending
    <3>3. CASE f # g /\ recv = g /\ rpc = "free" /\ rpc' = "pop"
      <4>1. \A x \in Places : In(x, f) => recv = f \/ reports[f] = 0
        BY <1>t, <3>3, PlaceFacts DEF Ends, In
      <4> QED BY <1>t, <1>o, <3>3, <4>1 DEF Ends, Pending
    <3> QED BY <1>o, <3>1, <3>2, <3>3
  <2> QED BY <1>t, <1>o, <2>2, <2>3, <2>4 DEF FlowInv, Distinct
\* The cameras and the vi thread: frames without a buffer.
<1>1. ASSUME NEW c \in Cameras, PushStreamCheck(c) PROVE FlowInv'
  <2>1. /\ cam[c] = "idle" /\ calls' = [calls EXCEPT ![c] = @ + 1]
        /\ \/ cam' = cam /\ refused' = refused \cup {<<c, calls[c] + 1>>}
           \/ cam' = [cam EXCEPT ![c] = "admitted"] /\ refused' = refused
        /\ UNCHANGED <<m_ViStream, m_DetectFrame, tasks, m_DetectResult, vi, getframe, task,
                       wpc, recv, rpc, rgb, lost, reports>>
    BY <1>1 DEF PushStreamCheck, workerVars, recvVars
  <2>2. ASSUME NEW f \in Frames PROVE Unconverted(f)'
    <3>1. f[1] \in Cameras /\ f[2] \in Int /\ calls[f[1]] \in Int
      BY <1>t, CapAssumption DEF Frames, TypeOK
    <3>2. calls'[f[1]] = IF f[1] = c THEN calls[f[1]] + 1 ELSE calls[f[1]]
      BY <1>t, <2>1, <3>1 DEF TypeOK
    <3>3. f[1] # c => cam'[f[1]] = cam[f[1]]
      BY <1>t, <2>1, <3>1 DEF TypeOK
    <3>4. CASE f[1] = c
      BY <1>t, <2>1, <3>1, <3>2, <3>4 DEF Unconverted
    <3>5. CASE f[1] # c
      BY <1>t, <2>1, <3>1, <3>2, <3>3, <3>5 DEF Unconverted
    <3> QED BY <3>4, <3>5
  <2>3. ASSUME NEW f \in Frames PROVE Single(f)' /\ Buffer(f)'
    BY <1>t, <2>1 DEF Single, Buffer, In
  <2>4. ASSUME NEW f \in Frames PROVE Ends(f)'
    <3>1. calls'[f[1]] = IF f[1] = c THEN calls[f[1]] + 1 ELSE calls[f[1]]
      BY <1>t, <2>1 DEF TypeOK
    <3>2. f[1] # c => cam'[f[1]] = cam[f[1]]
      BY <1>t, <2>1 DEF TypeOK
    <3>3. f = <<f[1], f[2]>>  BY CapAssumption DEF Frames
    <3>4. \A x \in Places : In(x, f)' <=> In(x, f)  BY <2>1 DEF In
    <3>5. CASE f[1] = c /\ f[2] = calls[c] + 1
      <4>1. rgb[f] = "none"  BY <1>t, <3>5 DEF Unconverted
      <4>2. f \notin Range(m_ViStream)  BY <1>t, <3>5 DEF Unconverted
      <4>3. \/ cam'[c] = "idle" /\ f \in refused'
            \/ cam'[c] = "admitted" /\ refused' = refused
        BY <1>t, <2>1, <3>3, <3>5 DEF TypeOK
      <4>4. f \notin refused  BY <1>t, <3>5 DEF Ends
      <4> QED BY <1>t, <2>1, <3>1, <3>4, <3>5, <4>1, <4>2, <4>3, <4>4 DEF Ends, Pending
    <3>6. CASE ~(f[1] = c /\ f[2] = calls[c] + 1)
      <4>1. f \in refused' <=> f \in refused  BY <2>1, <3>3, <3>6
      <4>2. Pending(f) => f[1] # c  BY <2>1 DEF Pending
      <4>3. Pending(f)' <=> Pending(f)
        BY <1>t, <2>1, <3>1, <3>2, <3>6, <4>2 DEF Pending
      <4>4. f[2] <= calls'[f[1]] <=> f[2] <= calls[f[1]]  BY <1>t, <3>1, <3>6
      <4> QED BY <1>t, <2>1, <3>4, <4>1, <4>3, <4>4 DEF Ends
    <3> QED BY <3>5, <3>6
  <2> QED BY <1>t, <2>1, <2>2, <2>3, <2>4 DEF FlowInv, Distinct
<1>2. ASSUME NEW c \in Cameras, PushStreamPush(c) PROVE FlowInv'
  <2> DEFINE g == <<c, calls[c]>>
  <2>1. /\ cam[c] = "admitted" /\ cam' = [cam EXCEPT ![c] = "idle"]
        /\ m_ViStream' = Append(m_ViStream, g)
        /\ UNCHANGED <<calls, m_DetectFrame, tasks, m_DetectResult, vi, getframe, task,
                       wpc, recv, rpc, rgb, lost, reports, refused>>
    BY <1>2 DEF PushStreamPush, workerVars, recvVars
  <2>2. g \in Frames /\ g[1] = c /\ g[2] = calls[c]
    BY <1>t, <2>1, CapAssumption DEF Frames, TypeOK, HoldsFrame
  <2>3. rgb[g] = "none" /\ g \notin Range(m_ViStream)
    BY <1>t, <2>1, <2>2, CapAssumption DEF Unconverted, Frames
  <2>4. /\ Distinct(m_ViStream')
        /\ \A f : f \in Range(m_ViStream') <=> f \in Range(m_ViStream) \/ f = g
    <3> HIDE DEF g
    <3> QED BY <1>t, <1>q, <2>1, <2>2, <2>3, PutLast
  <2>5. ASSUME NEW f \in Frames PROVE Unconverted(f)'
    <3>1. f[1] \in Cameras /\ f[2] \in Int /\ calls[f[1]] \in Int
          /\ cam'[f[1]] = IF f[1] = c THEN "idle" ELSE cam[f[1]]
      BY <1>t, <2>1, CapAssumption DEF Frames, TypeOK
    <3>2. f \in Range(m_ViStream) =>
            f[2] < calls[f[1]] \/ (f[2] = calls[f[1]] /\ cam'[f[1]] = "idle")
      BY <1>t, <3>1 DEF Unconverted
    <3>3. f = g => f[1] = c /\ f[2] = calls[c] /\ rgb[f] = "none"
      BY <2>2, <2>3
    <3> HIDE DEF g
    <3> QED BY <1>t, <2>1, <2>4, <3>1, <3>2, <3>3 DEF Unconverted
  <2>6. ASSUME NEW f \in Frames PROVE Single(f)' /\ Buffer(f)'
    BY <1>t, <2>1 DEF Single, Buffer, In
  <2>7. Distinct(m_ViStream)'  BY <2>4 DEF Distinct
  <2>8. ASSUME NEW f \in Frames PROVE Ends(f)'
    <3>1. cam'[f[1]] = IF f[1] = c THEN "idle" ELSE cam[f[1]]
      BY <1>t, <2>1 DEF TypeOK
    <3>2. f = <<f[1], f[2]>>  BY CapAssumption DEF Frames
    <3>3. Pending(f) <=> f = g \/ (f[1] # c /\ Pending(f))
      BY <2>1, <3>2 DEF Pending
    <3>4. Pending(f)' <=> f[1] # c /\ Pending(f)  BY <2>1, <3>1 DEF Pending
    <3>5. \A x \in Places : In(x, f)' <=> In(x, f)  BY <2>1 DEF In
    <3> HIDE DEF g
    <3> QED BY <1>t, <2>1, <2>4, <3>3, <3>4, <3>5 DEF Ends
  <2> QED BY <1>t, <2>1, <2>5, <2>6, <2>7, <2>8 DEF FlowInv, Distinct
<1>3. CASE ViPop
  <2>0. PICK g : g = Head(m_ViStream)  OBVIOUS
  <2>1. /\ vi = None /\ m_ViStream # <<>> /\ vi' = g /\ m_ViStream' = Tail(m_ViStream)
        /\ rgb' = [rgb EXCEPT ![g] = "live"]
        /\ UNCHANGED <<calls, cam, m_DetectFrame, tasks, m_DetectResult, getframe, task,
                       wpc, recv, rpc, lost, reports, refused>>
    BY <1>3, <2>0 DEF ViPop, camVars, workerVars, recvVars
  <2>2. /\ Distinct(m_ViStream') /\ g \in Range(m_ViStream) /\ g \in Frames
        /\ \A f : f \in Range(m_ViStream') <=> f \in Range(m_ViStream) /\ f # g
    BY <1>t, <1>q, <2>0, <2>1, TakenFirst
  <2>3. /\ rgb[g] = "none" /\ \A x \in Places : ~In(x, g)
        /\ ~(g[2] > calls[g[1]] \/ (g[2] = calls[g[1]] /\ cam[g[1]] = "admitted"))
    <3>1. g[2] \in Int /\ calls[g[1]] \in Int
      BY <1>t, <2>2, CapAssumption DEF Frames, TypeOK
    <3> QED BY <1>t, <2>2, <3>1 DEF Unconverted, Buffer
  <2>4. rgb'[g] = "live" /\ \A f \in Frames : f # g => rgb'[f] = rgb[f]
    BY <1>q, <2>1, <2>2
  <2>5. \A f \in Frames, x \in Places :
          In(x, f)' <=> IF f = g THEN x = <<"vi", None>> ELSE In(x, f)
    BY <1>t, <2>1, <2>3, PlaceFacts DEF In
  <2>6. ASSUME NEW f \in Frames PROVE Single(f)' /\ Buffer(f)'
    BY <1>t, <2>1, <2>2, <2>4, <2>5, PlaceFacts, Moves
  <2>7. ASSUME NEW f \in Frames PROVE Unconverted(f)'
    BY <1>t, <2>1, <2>2, <2>3, <2>4 DEF Unconverted
  <2>8. Distinct(m_ViStream)'  BY <2>2 DEF Distinct
  <2>9. ASSUME NEW f \in Frames PROVE Ends(f)'
    <3>1. CASE f = g
      <4>1. f \notin refused /\ f \notin lost /\ reports[f] = 0
        BY <1>t, <2>2, <2>3, <3>1 DEF Ends
      <4>2. recv # f  BY <2>2, <2>3, <3>1, PlaceFacts DEF In
      <4> QED BY <2>1, <2>4, <3>1, <4>1, <4>2 DEF Ends
    <3>2. CASE f # g
      BY <1>t, <2>1, <2>2, <2>4, <2>5, <3>2 DEF Ends, Pending
    <3> QED BY <3>1, <3>2
  <2> QED BY <1>t, <2>1, <2>6, <2>7, <2>8, <2>9 DEF FlowInv, Distinct
<1>4. CASE ViSend
  <2>0. PICK g : g = vi  OBVIOUS
  <2>1. /\ g # None /\ vi' = None /\ m_DetectFrame' = Append(m_DetectFrame, g)
        /\ UNCHANGED <<calls, cam, m_ViStream, tasks, m_DetectResult, getframe, task,
                       wpc, recv, rpc, rgb, lost, reports, refused>>
    BY <1>4, <2>0 DEF ViSend, camVars, workerVars, recvVars
  <2>2. g \in Frames /\ In(<<"vi", None>>, g)  BY <1>q, <2>0, <2>1 DEF In
  <2>3. g \notin Range(m_DetectFrame)
    BY <1>t, <2>2, PlaceFacts DEF Single, In
  <2>4. /\ Distinct(m_DetectFrame')
        /\ \A f : f \in Range(m_DetectFrame') <=> f \in Range(m_DetectFrame) \/ f = g
    BY <1>t, <1>q, <2>1, <2>2, <2>3, PutLast
  <2>5. \A f \in Frames, x \in Places :
          In(x, f)' <=> IF f = g THEN x = <<"frame", None>> ELSE In(x, f)
    BY <1>t, <2>0, <2>1, <2>2, <2>4, PlaceFacts DEF In, Single
  <2>6. Distinct(m_DetectFrame)' /\ Distinct(tasks)' /\ Distinct(m_DetectResult)'
    BY <1>t, <2>1, <2>4 DEF Distinct
  <2> QED BY <1>m, <1>t, <2>1, <2>2, <2>5, <2>6, PlaceFacts
<1>5. CASE ViSendFails
  <2>0. PICK g : g = vi  OBVIOUS
  <2>1. /\ g # None /\ vi' = None /\ rgb' = [rgb EXCEPT ![g] = "freed"]
        /\ lost' = lost \cup {g}
        /\ UNCHANGED <<calls, cam, m_ViStream, m_DetectFrame, tasks, m_DetectResult, getframe,
                       task, wpc, recv, rpc, reports, refused>>
    BY <1>5, <2>0 DEF ViSendFails, camVars, workerVars, recvVars
  <2>2. g \in Frames /\ In(<<"vi", None>>, g)  BY <1>q, <2>0, <2>1 DEF In
  <2>3. rgb'[g] = "freed" /\ \A f \in Frames : f # g => rgb'[f] = rgb[f]
    BY <1>q, <2>1, <2>2
  <2>4. \A f \in Frames, x \in Places : In(x, f)' <=> f # g /\ In(x, f)
    BY <1>t, <2>0, <2>1, <2>2, PlaceFacts DEF In, Single
  <2> QED BY <1>o, <1>t, <2>1, <2>2, <2>3, <2>4, PlaceFacts
<1>6. CASE GetFramePop
  <2>0. PICK g : g = Head(m_DetectFrame)  OBVIOUS
  <2>1. /\ getframe = None /\ m_DetectFrame # <<>> /\ getframe' = g
        /\ m_DetectFrame' = Tail(m_DetectFrame)
        /\ UNCHANGED <<calls, cam, m_ViStream, tasks, m_DetectResult, vi, task,
                       wpc, recv, rpc, rgb, lost, reports, refused>>
    BY <1>6, <2>0 DEF GetFramePop, camVars, workerVars, recvVars
  <2>2. /\ Distinct(m_DetectFrame') /\ g \in Range(m_DetectFrame) /\ g \in Frames
        /\ \A f : f \in Range(m_DetectFrame') <=> f \in Range(m_DetectFrame) /\ f # g
    BY <1>t, <1>q, <2>0, <2>1, TakenFirst
  <2>3. In(<<"frame", None>>, g)  BY <2>2 DEF In
  <2>4. \A f \in Frames, x \in Places :
          In(x, f)' <=> IF f = g THEN x = <<"get", None>> ELSE In(x, f)
    BY <1>t, <2>1, <2>2, <2>3, PlaceFacts DEF In, Single
  <2>5. Distinct(m_DetectFrame)' /\ Distinct(tasks)' /\ Distinct(m_DetectResult)'
    BY <1>t, <2>1, <2>2 DEF Distinct
  <2>6. /\ <<"frame", None>> \in Places /\ <<"get", None>> \in Places
        /\ <<"frame", None>> # <<"get", None>>
    BY PlaceFacts
  <2> QED BY <1>m, <1>t, <2>1, <2>2, <2>3, <2>4, <2>5, <2>6
<1>7. CASE Enqueue
  <2>0. PICK g : g = getframe  OBVIOUS
  <2>1. /\ g # None /\ getframe' = None /\ tasks' = Append(tasks, g)
        /\ UNCHANGED <<calls, cam, m_ViStream, m_DetectFrame, m_DetectResult, vi, task,
                       wpc, recv, rpc, rgb, lost, reports, refused>>
    BY <1>7, <2>0 DEF Enqueue, camVars, workerVars, recvVars
  <2>2. g \in Frames /\ In(<<"get", None>>, g)  BY <1>q, <2>0, <2>1 DEF In
  <2>3. g \notin Range(tasks)
    BY <1>t, <2>2, PlaceFacts DEF Single, In
  <2>4. /\ Distinct(tasks')
        /\ \A f : f \in Range(tasks') <=> f \in Range(tasks) \/ f = g
    BY <1>t, <1>q, <2>1, <2>2, <2>3, PutLast
  <2>5. \A f \in Frames, x \in Places :
          In(x, f)' <=> IF f = g THEN x = <<"tasks", None>> ELSE In(x, f)
    BY <1>t, <2>0, <2>1, <2>2, <2>4, PlaceFacts DEF In, Single
  <2>6. Distinct(m_DetectFrame)' /\ Distinct(tasks)' /\ Distinct(m_DetectResult)'
    BY <1>t, <2>1, <2>4 DEF Distinct
  <2> QED BY <1>m, <1>t, <2>1, <2>2, <2>5, <2>6, PlaceFacts
\* The workers and the receive thread.
<1>8. ASSUME NEW w \in Workers, TakeTask(w) PROVE FlowInv'
  <2>0. PICK g : g = Head(tasks)  OBVIOUS
  <2>1. /\ wpc[w] = "wait" /\ tasks # <<>> /\ tasks' = Tail(tasks)
        /\ task' = [task EXCEPT ![w] = g] /\ wpc' = [wpc EXCEPT ![w] = "start"]
        /\ UNCHANGED <<calls, cam, m_ViStream, m_DetectFrame, m_DetectResult, vi, getframe,
                       recv, rpc, rgb, lost, reports, refused>>
    BY <1>8, <2>0 DEF TakeTask, camVars, recvVars
  <2>2. /\ Distinct(tasks') /\ g \in Range(tasks) /\ g \in Frames
        /\ \A f : f \in Range(tasks') <=> f \in Range(tasks) /\ f # g
    BY <1>t, <1>q, <2>0, <2>1, TakenFirst
  <2>3. In(<<"tasks", None>>, g)  BY <2>2 DEF In
  <2>4. task[w] = None /\ \A v \in Workers : task'[v] = IF v = w THEN g ELSE task[v]
    BY <1>t, <1>q, <2>1, <2>2
  <2>5. \A v \in Workers : wpc'[v] \in {"wait", "release"} => task'[v] = None
    BY <1>t, <1>q, <2>1, <2>4
  <2>6. \A f \in Frames, x \in Places :
          In(x, f)' <=> IF f = g THEN x = <<"worker", w>> ELSE In(x, f)
    BY <1>t, <2>1, <2>2, <2>3, <2>4, PlaceFacts DEF In, Single
  <2>7. Distinct(m_DetectFrame)' /\ Distinct(tasks)' /\ Distinct(m_DetectResult)'
    BY <1>t, <2>1, <2>2 DEF Distinct
  <2>8. /\ <<"tasks", None>> \in Places /\ <<"worker", w>> \in Places
        /\ <<"tasks", None>> # <<"worker", w>>
    BY PlaceFacts
  <2> QED BY <1>m, <1>t, <2>1, <2>2, <2>3, <2>5, <2>6, <2>7, <2>8
<1>9. ASSUME UNCHANGED <<calls, cam, m_ViStream, m_DetectFrame, tasks, m_DetectResult, vi,
                         getframe, task, recv, rpc, rgb, lost, refused, reports>>,
             \A w \in Workers : wpc'[w] \in {"wait", "release"} => task'[w] = None
      PROVE  FlowInv'
  <2>1. ASSUME NEW f \in Frames PROVE /\ Single(f)' /\ Buffer(f)' /\ Unconverted(f)'
                                     /\ Ends(f)'
    BY <1>t, <1>9 DEF Single, Buffer, In, Unconverted, Ends, Pending
  <2> QED BY <1>t, <1>9, <2>1 DEF FlowInv, Distinct
<1>10. ASSUME NEW w \in Workers, GetFreeHandle(w) \/ InferSucceeds(w) \/ SerFreeHandle(w)
       PROVE  FlowInv'
  <2>1. \A v \in Workers : wpc'[v] \in {"wait", "release"} => wpc[v] \in {"wait", "release"}
    BY <1>q, <1>10 DEF GetFreeHandle, InferSucceeds, SerFreeHandle
  <2> QED BY <1>9, <1>t, <1>10, <2>1 DEF GetFreeHandle, InferSucceeds, SerFreeHandle, camVars,
          recvVars
<1>11. ASSUME NEW w \in Workers, InferFails(w) PROVE FlowInv'
  <2>0. PICK g : g = task[w]  OBVIOUS
  <2>1. /\ wpc[w] = "infer" /\ lost' = lost \cup {g}
        /\ task' = [task EXCEPT ![w] = None] /\ wpc' = [wpc EXCEPT ![w] = "release"]
        /\ UNCHANGED <<calls, cam, m_ViStream, m_DetectFrame, tasks, m_DetectResult, vi,
                       getframe, recv, rpc, rgb, reports, refused>>
    BY <1>11, <2>0 DEF InferFails, camVars, recvVars
  <2>2. g \in Frames /\ In(<<"worker", w>>, g)  BY <1>t, <2>0, <2>1 DEF In, HoldsFrame
  <2>3. \A v \in Workers : task'[v] = IF v = w THEN None ELSE task[v]
    BY <1>q, <2>1
  <2>4. \A v \in Workers : wpc'[v] \in {"wait", "release"} => task'[v] = None
    BY <1>t, <1>q, <2>1, <2>3
  <2>5. ASSUME NEW f \in Frames, NEW x \in Places PROVE In(x, f)' <=> f # g /\ In(x, f)
    <3>1. In(x, g) => x = <<"worker", w>>  BY <1>t, <2>2, PlaceFacts DEF Single
    <3>2. CASE x[1] = "worker"
      <4>1. In(x, f)' <=> task'[x[2]] = f  BY <3>2 DEF In
      <4>2. In(x, f) <=> task[x[2]] = f  BY <3>2 DEF In
      <4>3. x[2] \in Workers /\ (x[2] = w => task[x[2]] = g)  BY <2>0, <3>2, PlaceFacts
      <4>4. In(x, g) => x[2] = w  BY <3>1
      <4> QED BY <1>t, <2>3, <4>1, <4>2, <4>3, <4>4
    <3>3. CASE x[1] # "worker"
      <4>1. ~In(x, g)  BY <3>1, <3>3
      <4>2. In(x, f)' <=> In(x, f)  BY <2>1, <3>3 DEF In
      <4> QED BY <4>1, <4>2
    <3> QED BY <3>2, <3>3
  <2> QED BY <1>o, <1>t, <2>1, <2>2, <2>4, <2>5, PlaceFacts
<1>12. ASSUME NEW w \in Workers, PushResult(w) PROVE FlowInv'
  <2>0. PICK g : g = task[w]  OBVIOUS
  <2>1. /\ wpc[w] = "push" /\ m_DetectResult' = Append(m_DetectResult, g)
        /\ task' = [task EXCEPT ![w] = None] /\ wpc' = [wpc EXCEPT ![w] = "release"]
        /\ UNCHANGED <<calls, cam, m_ViStream, m_DetectFrame, tasks, vi,
                       getframe, recv, rpc, rgb, lost, reports, refused>>
    BY <1>12, <2>0 DEF PushResult, camVars, recvVars
  <2>2. g \in Frames /\ In(<<"worker", w>>, g)  BY <1>t, <2>0, <2>1 DEF In, HoldsFrame
  <2>3. g \notin Range(m_DetectResult)
    BY <1>t, <2>2, PlaceFacts DEF Single, In
  <2>4. /\ Distinct(m_DetectResult')
        /\ \A f : f \in Range(m_DetectResult') <=> f \in Range(m_DetectResult) \/ f = g
    BY <1>t, <1>q, <2>1, <2>2, <2>3, PutLast
  <2>5. \A v \in Workers : task'[v] = IF v = w THEN None ELSE task[v]
    BY <1>q, <2>1
  <2>6. \A v \in Workers : wpc'[v] \in {"wait", "release"} => task'[v] = None
    BY <1>t, <1>q, <2>1, <2>5
  <2>7. ASSUME NEW f \in Frames, NEW x \in Places
        PROVE  In(x, f)' <=> IF f = g THEN x = <<"result", None>> ELSE In(x, f)
    <3>1. In(x, g) => x = <<"worker", w>>  BY <1>t, <2>2, PlaceFacts DEF Single
    <3>2. CASE x[1] = "worker"
      <4>1. In(x, f)' <=> task'[x[2]] = f  BY <3>2 DEF In
      <4>2. In(x, f) <=> task[x[2]] = f  BY <3>2 DEF In
      <4>3. x[2] \in Workers /\ (x[2] = w => task[x[2]] = g)  BY <2>0, <3>2, PlaceFacts
      <4>4. In(x, g) => x[2] = w  BY <3>1
      <4>5. x # <<"result", None>>  BY <3>2
      <4> QED BY <1>t, <2>5, <4>1, <4>2, <4>3, <4>4, <4>5
    <3>3. CASE x[1] = "result"
      <4>1. x = <<"result", None>>  BY <3>3, PlaceFacts
      <4>2. In(x, f)' <=> f \in Range(m_DetectResult')  BY <3>3 DEF In
      <4>3. In(x, f) <=> f \in Range(m_DetectResult)  BY <3>3 DEF In
      <4> QED BY <2>4, <4>1, <4>2, <4>3
    <3>4. CASE x[1] \notin {"worker", "result"}
      <4>1. ~In(x, g) /\ x # <<"result", None>>  BY <3>1, <3>4
      <4>2. In(x, f)' <=> In(x, f)  BY <2>1, <3>4 DEF In
      <4> QED BY <4>1, <4>2
    <3> QED BY <3>2, <3>3, <3>4
  <2>8. Distinct(m_DetectFrame)' /\ Distinct(tasks)' /\ Distinct(m_DetectResult)'
    BY <1>t, <2>1, <2>4 DEF Distinct
  <2>9. /\ <<"worker", w>> \in Places /\ <<"result", None>> \in Places
        /\ <<"worker", w>> # <<"result", None>>
    BY PlaceFacts
  <2> QED BY <1>m, <1>t, <2>1, <2>2, <2>6, <2>7, <2>8, <2>9
<1>13. CASE RecvPop
  <2>0. PICK g : g = Head(m_DetectResult)  OBVIOUS
  <2>1. /\ rpc = "pop" /\ m_DetectResult # <<>> /\ recv' = g /\ rpc' = "report"
        /\ m_DetectResult' = Tail(m_DetectResult)
        /\ UNCHANGED <<calls, cam, m_ViStream, m_DetectFrame, tasks, vi, getframe, task,
                       wpc, rgb, lost, reports, refused>>
    BY <1>13, <2>0 DEF RecvPop, camVars, workerVars
  <2>2. /\ Distinct(m_DetectResult') /\ g \in Range(m_DetectResult) /\ g \in Frames
        /\ \A f : f \in Range(m_DetectResult') <=> f \in Range(m_DetectResult) /\ f # g
    BY <1>t, <1>q, <2>0, <2>1, TakenFirst
  <2>3. In(<<"result", None>>, g)  BY <2>2 DEF In
  <2>4. \A f \in Frames, x \in Places :
          In(x, f)' <=> IF f = g THEN x = <<"recv", None>> ELSE In(x, f)
    BY <1>t, <2>1, <2>2, <2>3, PlaceFacts DEF In, Single
  <2>5. Distinct(m_DetectFrame)' /\ Distinct(tasks)' /\ Distinct(m_DetectResult)'
    BY <1>t, <2>1, <2>2 DEF Distinct
  <2>6. /\ <<"result", None>> \in Places /\ <<"recv", None>> \in Places
        /\ <<"result", None>> # <<"recv", None>>
    BY PlaceFacts
  <2> QED BY <1>m, <1>t, <2>1, <2>2, <2>3, <2>4, <2>5, <2>6
<1>14. CASE Report
  <2>0. PICK g : g = recv  OBVIOUS
  <2>1. /\ rpc = "report" /\ rpc' = "free" /\ reports' = [reports EXCEPT ![g] = @ + 1]
        /\ UNCHANGED <<calls, cam, m_ViStream, m_DetectFrame, tasks, m_DetectResult, vi,
                       getframe, task, wpc, recv, rgb, lost, refused>>
    BY <1>14, <2>0 DEF Report, camVars, workerVars
  <2>2. g \in Frames /\ In(<<"recv", None>>, g)  BY <1>t, <2>0, <2>1 DEF In, HoldsFrame
  <2>3. rgb[g] = "live" /\ g \notin lost /\ reports[g] = 0
    BY <1>t, <2>1, <2>2, PlaceFacts DEF Buffer, Ends
  <2>4. reports'[g] = 1 /\ \A f \in Frames : f # g => reports'[f] = reports[f]
    BY <1>t, <2>1, <2>2, <2>3 DEF TypeOK
  <2>5. \A f \in Frames, x \in Places : In(x, f)' <=> In(x, f)  BY <2>1 DEF In
  <2>6. \A x \in Places : In(x, g) => x[1] = "recv"  BY <1>t, <2>2, PlaceFacts DEF Single
  <2>7. ASSUME NEW f \in Frames PROVE Single(f)' /\ Buffer(f)' /\ Unconverted(f)'
    BY <1>t, <2>1, <2>5 DEF Single, Buffer, Unconverted
  <2>8. ASSUME NEW f \in Frames PROVE Ends(f)'
    <3>1. CASE f = g
      BY <1>t, <2>1, <2>3, <2>4, <2>5, <2>6, <3>1 DEF Ends, Pending
    <3>2. CASE f # g
      BY <1>t, <2>0, <2>1, <2>4, <2>5, <3>2 DEF Ends, Pending
    <3> QED BY <3>1, <3>2
  <2> QED BY <1>t, <2>1, <2>7, <2>8 DEF FlowInv, Distinct
<1>15. CASE RecvFree
  <2>0. PICK g : g = recv  OBVIOUS
  <2>1. /\ rpc = "free" /\ recv' = None /\ rpc' = "pop" /\ rgb' = [rgb EXCEPT ![g] = "freed"]
        /\ UNCHANGED <<calls, cam, m_ViStream, m_DetectFrame, tasks, m_DetectResult, vi,
                       getframe, task, wpc, lost, reports, refused>>
    BY <1>15, <2>0 DEF RecvFree, camVars, workerVars
  <2>2. g \in Frames /\ In(<<"recv", None>>, g)  BY <1>t, <2>0, <2>1 DEF In, HoldsFrame
  <2>3. rgb'[g] = "freed" /\ \A f \in Frames : f # g => rgb'[f] = rgb[f]
    BY <1>q, <2>1, <2>2
  <2>4. \A f \in Frames, x \in Places : In(x, f)' <=> f # g /\ In(x, f)
    BY <1>t, <2>0, <2>1, <2>2, PlaceFacts DEF In, Single
  <2>5. g \notin lost /\ <<"recv", None>> \in Places
    BY <1>t, <2>2, PlaceFacts DEF Ends
  <2> QED BY <1>o, <1>t, <2>0, <2>1, <2>2, <2>3, <2>4, <2>5
<1>16. CASE UNCHANGED vars
  BY <1>9, <1>t, <1>16 DEF vars
<1> QED
  BY <1>1, <1>2, <1>3, <1>4, <1>5, <1>6, <1>7, <1>8, <1>10, <1>11, <1>12, <1>13, <1>14, <1>15, <1>16
  DEF Next, Camera, ViThread, GetFrameThread, Worker, RecvThread

\* The frames whose buffer a later stage reads or frees are those in a place.
LEMMA ConvertedPlaces ==
  ASSUME IInv
  PROVE  \A f : f \in Converted <=> f \in Frames /\ \E p \in Places : In(p, f)
<1>t. /\ m_DetectFrame \in Seq(Frames) /\ tasks \in Seq(Frames)
      /\ m_DetectResult \in Seq(Frames) /\ task \in [Workers -> Frames \cup {None}]
      /\ vi \in Frames \cup {None} /\ getframe \in Frames \cup {None}
      /\ recv \in Frames \cup {None} /\ None \notin Frames
  BY CapAssumption DEF IInv, TypeOK, MaybeFrame
<1>1. /\ Range(m_DetectFrame) \subseteq Frames /\ Range(tasks) \subseteq Frames
      /\ Range(m_DetectResult) \subseteq Frames
  BY <1>t DEF Range
<1>2. \A f : f \in Range(task) <=> \E w \in Workers : task[w] = f
  BY <1>t DEF Range
<1>3. ASSUME NEW f \in Converted PROVE f \in Frames /\ \E p \in Places : In(p, f)
  <2>1. CASE f \in Range(task) \ {None}
    <3>1. PICK w \in Workers : task[w] = f  BY <1>2, <2>1
    <3>2. In(<<"worker", w>>, f) /\ f \in Frames  BY <1>t, <2>1, <3>1 DEF In
    <3> QED BY <3>2, PlaceFacts
  <2>2. CASE f \in Range(m_DetectFrame)
    <3>1. In(<<"frame", None>>, f)  BY <2>2 DEF In
    <3> QED BY <1>1, <2>2, <3>1, PlaceFacts
  <2>3. CASE f \in Range(tasks)
    <3>1. In(<<"tasks", None>>, f)  BY <2>3 DEF In
    <3> QED BY <1>1, <2>3, <3>1, PlaceFacts
  <2>4. CASE f \in Range(m_DetectResult)
    <3>1. In(<<"result", None>>, f)  BY <2>4 DEF In
    <3> QED BY <1>1, <2>4, <3>1, PlaceFacts
  <2>5. CASE f \in {vi, getframe, recv} \ {None}
    <3>1. In(<<"vi", None>>, f) \/ In(<<"get", None>>, f) \/ In(<<"recv", None>>, f)
      BY <2>5 DEF In
    <3> QED BY <1>t, <2>5, <3>1, PlaceFacts
  <2> QED BY <2>1, <2>2, <2>3, <2>4, <2>5 DEF Converted
<1>4. ASSUME NEW f \in Frames, NEW p \in Places, In(p, f) PROVE f \in Converted
  BY <1>t, <1>2, <1>4, PlaceFacts DEF In, Converted
<1> QED BY <1>3, <1>4

LEMMA FlowInvariant == Spec => []FlowInv
BY FlowInit, FlowStep, Inductive, PTL DEF Spec

\* Nobody reads or frees an RGB buffer that was already freed (NoUseAfterFree:
\* mpp_vi_get_buffer_thread, taskModelReson, GasResulRecvThread), for any number
\* of cameras, frames and workers and any capacities.
THEOREM BuffersCorrect == Spec => []NoUseAfterFree
<1>1. IInv /\ FlowInv => NoUseAfterFree
  BY ConvertedPlaces DEF FlowInv, Buffer, NoUseAfterFree
<1> QED BY <1>1, FlowInvariant, Inductive, PTL

\* The only RGB buffers nobody refers to are those of the frames a thread gave
\* up (LeaksAreFailures, the same threads).
THEOREM LeaksCorrect == Spec => []LeaksAreFailures
<1>1. IInv /\ FlowInv => LeaksAreFailures
  BY ConvertedPlaces DEF FlowInv, Buffer, LeaksAreFailures
<1> QED BY <1>1, FlowInvariant, Inductive, PTL

\* A function has no more values than arguments.
LEMMA RangeSize ==
  ASSUME NEW f, f = [x \in DOMAIN f |-> f[x]], IsFiniteSet(DOMAIN f)
  PROVE  IsFiniteSet(Range(f)) /\ Cardinality(Range(f)) <= Cardinality(DOMAIN f)
<1>1. f \in Surjection(DOMAIN f, Range(f))  BY DEF Surjection, Range
<1> QED BY <1>1, FS_Surjection

LEMMA QueueSize ==
  ASSUME NEW queue \in Seq(Frames)
  PROVE  IsFiniteSet(Range(queue)) /\ Cardinality(Range(queue)) <= Len(queue)
<1>1. /\ queue = [i \in DOMAIN queue |-> queue[i]] /\ DOMAIN queue = 1..Len(queue)
      /\ Len(queue) \in Nat
  OBVIOUS
<1>2. IsFiniteSet(1..Len(queue)) /\ Cardinality(1..Len(queue)) = Len(queue)
  BY <1>1, FS_Interval
<1> QED BY <1>1, <1>2, RangeSize

LEMMA UnionSize ==
  ASSUME NEW S, NEW T, IsFiniteSet(S), IsFiniteSet(T)
  PROVE  IsFiniteSet(S \cup T) /\ Cardinality(S \cup T) <= Cardinality(S) + Cardinality(T)
<1>1. IsFiniteSet(S \cup T)
      /\ Cardinality(S \cup T) = Cardinality(S) + Cardinality(T) - Cardinality(S \cap T)
  BY FS_Union
<1>2. IsFiniteSet(S \cap T)  BY FS_Subset
<1>3. Cardinality(S) \in Nat /\ Cardinality(T) \in Nat /\ Cardinality(S \cap T) \in Nat
  BY <1>2, FS_CardinalityType
<1> QED BY <1>1, <1>3

\* At any time there are no more RGB buffers than the two bounded queues and the
\* threads have room for, one for each task of the pool, and those of the frames
\* given up (MemoryBound: mpp_vi_get_buffer_thread, GetFrameDetectThread,
\* taskModelReson, GasResulRecvThread): only the pool's queue can grow.
THEOREM MemoryBounded == Spec => []MemoryBound
<1>1. ASSUME IInv, FlowInv PROVE MemoryBound
  <2> DEFINE Hands == {vi, getframe, recv}
             Q1    == Range(m_DetectFrame)
             Q2    == Range(tasks)
             Q3    == Range(m_DetectResult)
             W     == Range(task)
             U2    == Q3 \cup (Hands \cup W)
             U3    == Q2 \cup U2
             U4    == Q1 \cup U3
  <2>t. /\ m_DetectFrame \in Seq(Frames) /\ tasks \in Seq(Frames)
        /\ m_DetectResult \in Seq(Frames) /\ task \in [Workers -> MaybeFrame]
        /\ Len(m_DetectFrame) <= FrameCap /\ Len(m_DetectResult) <= ResultCap
        /\ FrameCap \in Nat /\ ResultCap \in Nat
    BY <1>1, CapAssumption DEF IInv, TypeOK
  <2>1. LeaksAreFailures  BY <1>1, ConvertedPlaces DEF FlowInv, Buffer, LeaksAreFailures
  <2>2. Held \subseteq Q1 \cup (Q2 \cup (Q3 \cup (Hands \cup W)))
    BY <2>1 DEF LeaksAreFailures, Converted, Held
  <2>3. IsFiniteSet(Hands) /\ Cardinality(Hands) <= 3
    <3> DEFINE Pair == {vi, getframe}
    <3>1. IsFiniteSet({vi}) /\ Cardinality({vi}) = 1  BY FS_Singleton
    <3>2. Pair = {vi} \cup {getframe} /\ Hands = Pair \cup {recv}  OBVIOUS
    <3> HIDE DEF Pair, Hands
    <3>3. ASSUME NEW S, NEW x, IsFiniteSet(S)
          PROVE  /\ IsFiniteSet(S \cup {x})
                 /\ Cardinality(S \cup {x}) <= Cardinality(S) + 1
                 /\ Cardinality(S) \in Nat /\ Cardinality(S \cup {x}) \in Nat
      BY <3>3, FS_AddElement, FS_CardinalityType
    <3>4. IsFiniteSet(Pair) /\ Cardinality(Pair) <= 2 /\ Cardinality(Pair) \in Nat
      <4>1. /\ IsFiniteSet({vi} \cup {getframe})
            /\ Cardinality({vi} \cup {getframe}) <= Cardinality({vi}) + 1
            /\ Cardinality({vi} \cup {getframe}) \in Nat
        BY <3>1, <3>3
      <4>2. IsFiniteSet(Pair) /\ Cardinality(Pair) <= Cardinality({vi}) + 1 /\ Cardinality(Pair) \in Nat
        BY <3>2, <4>1, Zenon
      <4> QED BY <3>1, <4>2
    <3>5. /\ IsFiniteSet(Hands) /\ Cardinality(Hands) <= Cardinality(Pair) + 1
          /\ Cardinality(Hands) \in Nat
      BY <3>2, <3>3, <3>4
    <3> QED BY <3>4, <3>5
  <2>4. IsFiniteSet(W) /\ Cardinality(W) <= Cardinality(Workers)
    BY <2>t, PoolAssumption, RangeSize DEF PoolAssumption
  <2>5. /\ IsFiniteSet(Q1) /\ Cardinality(Q1) <= FrameCap
        /\ IsFiniteSet(Q2) /\ Cardinality(Q2) <= Len(tasks)
        /\ IsFiniteSet(Q3) /\ Cardinality(Q3) <= ResultCap
    <3>1. /\ IsFiniteSet(Q1) /\ Cardinality(Q1) <= Len(m_DetectFrame)
          /\ IsFiniteSet(Q2) /\ Cardinality(Q2) <= Len(tasks)
          /\ IsFiniteSet(Q3) /\ Cardinality(Q3) <= Len(m_DetectResult)
      BY <2>t, QueueSize
    <3>2. Cardinality(Q1) \in Nat /\ Cardinality(Q3) \in Nat  BY <3>1, FS_CardinalityType
    <3>3. Len(m_DetectFrame) \in Nat /\ Len(m_DetectResult) \in Nat  BY <2>t
    <3> QED BY <2>t, <3>1, <3>2, <3>3
  <2>6. /\ IsFiniteSet(Hands \cup W)
        /\ Cardinality(Hands \cup W) <= Cardinality(Hands) + Cardinality(W)
    <3> HIDE DEF Hands, W
    <3> QED BY <2>3, <2>4, UnionSize
  <2> HIDE DEF Hands, Q1, Q2, Q3, W
  <2>7. IsFiniteSet(U2) /\ Cardinality(U2) <= Cardinality(Q3) + Cardinality(Hands \cup W)
    BY <2>5, <2>6, UnionSize
  <2> HIDE DEF U2
  <2>8. IsFiniteSet(U3) /\ Cardinality(U3) <= Cardinality(Q2) + Cardinality(U2)
    BY <2>5, <2>7, UnionSize
  <2> HIDE DEF U3
  <2>9. IsFiniteSet(U4) /\ Cardinality(U4) <= Cardinality(Q1) + Cardinality(U3)
    BY <2>5, <2>8, UnionSize
  <2>10. IsFiniteSet(Held) /\ Cardinality(Held) <= Cardinality(U4)
    <3>1. Held \subseteq U4  BY <2>2 DEF U2, U3
    <3> HIDE DEF U4
    <3> QED BY <3>1, <2>9, FS_Subset
  <2> HIDE DEF U4
  <2>11. /\ Cardinality(Hands) \in Nat /\ Cardinality(W) \in Nat /\ Cardinality(Q1) \in Nat
         /\ Cardinality(Q2) \in Nat /\ Cardinality(Q3) \in Nat /\ Cardinality(Held) \in Nat
         /\ Cardinality(Hands \cup W) \in Nat /\ Cardinality(U2) \in Nat
         /\ Cardinality(U3) \in Nat /\ Cardinality(U4) \in Nat /\ Cardinality(Workers) \in Nat
    BY <2>3, <2>4, <2>5, <2>6, <2>7, <2>8, <2>9, <2>10, PoolAssumption, FS_CardinalityType
    DEF PoolAssumption
  <2>12. FrameCap \in Nat /\ ResultCap \in Nat /\ Len(tasks) \in Nat  BY <2>t
  <2>13. Cardinality(Hands \cup W) <= 3 + Cardinality(Workers)  BY <2>3, <2>4, <2>6, <2>11
  <2>14. Cardinality(U2) <= ResultCap + 3 + Cardinality(Workers)
    BY SMTT(30), <2>5, <2>7, <2>11, <2>12, <2>13
  <2>15. Cardinality(U3) <= Len(tasks) + ResultCap + 3 + Cardinality(Workers)
    BY SMTT(30), <2>5, <2>8, <2>11, <2>12, <2>14
  <2>16. Cardinality(U4) <= FrameCap + Len(tasks) + ResultCap + 3 + Cardinality(Workers)
    BY SMTT(30), <2>5, <2>9, <2>11, <2>12, <2>15
  <2>17. Cardinality(Held) <= Len(tasks) + FrameCap + ResultCap + Cardinality(Workers) + 3
    BY <2>10, <2>11, <2>12, <2>16
  <2> QED BY <2>17 DEF MemoryBound
<1> QED BY <1>1, FlowInvariant, Inductive, PTL

-----------------------------------------------------------------------------
(* The pipeline implements the detection service.                          *)

\* The fate of a frame, told by its end.
Status(f) ==
  IF f \in refused THEN "refused"
  ELSE IF f \in lost THEN "lost"
  ELSE IF reports[f] = 1 THEN "reported"
  ELSE IF f[2] <= calls[f[1]] THEN "accepted"
  ELSE "new"

\* A frame is in flight exactly while it is accepted and nothing else.
LEMMA StatusIsFate == IInv /\ FlowInv => Fate = [f \in Frames |-> Status(f)]
<1> SUFFICES ASSUME IInv, FlowInv PROVE Fate = [f \in Frames |-> Status(f)]
  OBVIOUS
<1>a. TypeOK /\ HoldsFrame /\ None \notin Frames  BY CapAssumption DEF IInv
<1>t. /\ \A f \in Frames : Buffer(f) /\ Unconverted(f) /\ Ends(f)
      /\ \A f \in Frames : f[1] \in Cameras /\ f[2] \in Int /\ calls[f[1]] \in Int
  BY <1>a, CapAssumption DEF FlowInv, TypeOK, Frames
<1>q. /\ m_ViStream \in Seq(Frames) /\ m_DetectFrame \in Seq(Frames) /\ tasks \in Seq(Frames)
      /\ m_DetectResult \in Seq(Frames)
      /\ task \in [Workers -> Frames \cup {None}] /\ rgb \in [Frames -> {"none", "live", "freed"}]
      /\ vi \in Frames \cup {None} /\ getframe \in Frames \cup {None}
      /\ recv \in Frames \cup {None} /\ rpc \in {"pop", "report", "free"}
      /\ reports \in [Frames -> Nat] /\ calls \in [Cameras -> 0..MaxCalls]
  BY <1>a DEF TypeOK, MaybeFrame
<1>r. rpc = "pop" => recv = None  BY DEF FlowInv
<1>1. ASSUME NEW f \in Frames PROVE FateOf(f, InFlight) = Status(f)
  <2> DEFINE flying == \E p \in Places : In(p, f) /\ ~(p[1] = "recv" /\ rpc = "free")
  <2>1. f \in InFlight <=> Pending(f) \/ f \in Range(m_ViStream) \/ flying
    <3>1. f \in Range(task) <=> \E w \in Workers : task[w] = f  BY <1>q DEF Range
    <3>2. f # None  BY <1>a
    <3>3. f = recv => rpc \in {"report", "free"}  BY <1>q, <1>r, <3>2
    <3>4. f \in InFlight <=>
            \/ Pending(f)
            \/ f \in Range(m_ViStream)
            \/ f \in Range(m_DetectFrame) \/ f \in Range(tasks) \/ f \in Range(m_DetectResult)
            \/ f = vi \/ f = getframe \/ f \in Range(task)
            \/ rpc = "report" /\ f = recv
      BY DEF InFlight, Pending
    <3>5. flying <=>
            \/ f \in Range(m_DetectFrame) \/ f \in Range(tasks) \/ f \in Range(m_DetectResult)
            \/ f = vi \/ f = getframe \/ (\E w \in Workers : task[w] = f)
            \/ rpc = "report" /\ f = recv
      BY <3>3, PlaceFacts DEF In
    <3> HIDE DEF flying
    <3> QED BY <3>1, <3>4, <3>5
  <2> HIDE DEF flying
  <2>2. Pending(f) \/ f \in Range(m_ViStream) =>
          f \notin refused /\ f \notin lost /\ reports[f] = 0 /\ f[2] <= calls[f[1]]
    BY <1>t DEF Ends, Unconverted, Pending
  <2>3. flying => f \notin refused /\ f \notin lost /\ reports[f] = 0 /\ f[2] <= calls[f[1]]
    BY <1>t DEF Ends, Unconverted, Buffer, flying
  <2>4. f \in refused \/ f \in lost \/ reports[f] = 1 => f \notin InFlight
    BY <2>1, <2>2, <2>3
  <2>5. f \notin refused /\ f \notin lost /\ reports[f] # 1 /\ f[2] <= calls[f[1]] => f \in InFlight
    <3>1. SUFFICES ASSUME f \notin refused, f \notin lost, reports[f] # 1, f[2] <= calls[f[1]]
                   PROVE  f \in InFlight
      OBVIOUS
    <3>2. CASE rgb[f] = "none"  BY <1>t, <2>1, <3>1, <3>2 DEF Ends
    <3>3. CASE rgb[f] = "live"
      <4>1. PICK p \in Places : In(p, f)  BY <1>t, <3>1, <3>3 DEF Buffer
      <4>2. p[1] = "recv" => recv = f  BY <4>1 DEF In
      <4> QED BY <1>t, <2>1, <3>1, <4>1, <4>2 DEF Ends, flying
    <3>4. CASE rgb[f] = "freed"  BY <1>t, <3>1, <3>4 DEF Ends
    <3> QED BY <1>q, <3>2, <3>3, <3>4
  <2>6. f \notin refused /\ f[2] > calls[f[1]] => f \notin InFlight /\ f \notin lost /\ reports[f] = 0
    BY <1>t, <2>1, <2>2, <2>3 DEF Ends, Unconverted
  <2>7. /\ reports[f] \in {0, 1}
        /\ f \in refused => f \notin lost /\ reports[f] = 0
        /\ f \in lost => reports[f] = 0
        /\ f[2] > calls[f[1]] \/ f[2] <= calls[f[1]]
    BY <1>t DEF Ends
  <2> QED BY <2>4, <2>5, <2>6, <2>7 DEF FateOf, Status
<1> QED BY <1>1 DEF Fate

\* Every step of the pipeline is one of the service, or none.
LEMMA StatusStep ==
  ASSUME IInv, FlowInv, [Next]_vars
  PROVE  \/ \A f \in Frames : Status(f)' = Status(f)
         \/ \E g \in Frames :
              /\ \A f \in Frames : f # g => Status(f)' = Status(f)
              /\ \/ Status(g) = "new" /\ Status(g)' \in {"refused", "accepted"}
                 \/ Status(g) = "accepted" /\ Status(g)' \in {"reported", "lost"}
<1>a. TypeOK /\ HoldsFrame /\ None \notin Frames  BY CapAssumption DEF IInv
<1>t. /\ \A f \in Frames : Buffer(f) /\ Unconverted(f) /\ Ends(f)
      /\ \A f \in Frames : f[1] \in Cameras /\ f[2] \in Int /\ calls[f[1]] \in Int
  BY <1>a, CapAssumption DEF FlowInv, TypeOK, Frames
<1>q. /\ m_ViStream \in Seq(Frames) /\ m_DetectFrame \in Seq(Frames) /\ tasks \in Seq(Frames)
      /\ m_DetectResult \in Seq(Frames)
      /\ task \in [Workers -> Frames \cup {None}] /\ rgb \in [Frames -> {"none", "live", "freed"}]
      /\ vi \in Frames \cup {None} /\ getframe \in Frames \cup {None}
      /\ recv \in Frames \cup {None} /\ rpc \in {"pop", "report", "free"}
      /\ reports \in [Frames -> Nat] /\ calls \in [Cameras -> 0..MaxCalls]
  BY <1>a DEF TypeOK, MaybeFrame
<1>r. rpc = "pop" => recv = None  BY DEF FlowInv
<1>1. CASE UNCHANGED <<calls, refused, lost, reports>>
  BY <1>1 DEF Status
<1>2. ASSUME NEW c \in Cameras, PushStreamCheck(c)
      PROVE  \E g \in Frames :
              /\ \A f \in Frames : f # g => Status(f)' = Status(f)
              /\ Status(g) = "new" /\ Status(g)' \in {"refused", "accepted"}
  <2>0. PICK g : g = <<c, calls[c] + 1>>  OBVIOUS
  <2>1. /\ calls[c] < MaxCalls /\ calls' = [calls EXCEPT ![c] = @ + 1]
        /\ refused' = refused \cup {g} \/ refused' = refused
        /\ UNCHANGED <<lost, reports>>
    BY <1>2, <2>0 DEF PushStreamCheck, recvVars
  <2>2. g \in Frames /\ g[1] = c /\ g[2] = calls[c] + 1
    BY <1>a, <1>q, <2>0, <2>1, CapAssumption DEF Frames
  <2>3. \A f \in Frames : calls'[f[1]] = IF f[1] = c THEN calls[f[1]] + 1 ELSE calls[f[1]]
    BY <1>q, <1>t, <2>1
  <2>4. g \notin refused /\ g \notin lost /\ reports[g] = 0 /\ ~(g[2] <= calls[g[1]])
    <3>1. g[2] > calls[g[1]] /\ ~(g[2] <= calls[g[1]])  BY <1>t, <2>2
    <3> QED BY <1>t, <2>2, <3>1 DEF Ends, Unconverted
  <2>5. g[2] <= calls'[g[1]]  BY <1>t, <2>2, <2>3
  <2>6. ASSUME NEW f \in Frames, f # g PROVE Status(f)' = Status(f)
    <3>1. f = <<f[1], f[2]>>  BY CapAssumption DEF Frames
    <3>2. ~(f[1] = c /\ f[2] = calls[c] + 1)  BY <2>0, <2>6, <3>1
    <3>3. f[2] <= calls'[f[1]] <=> f[2] <= calls[f[1]]  BY <1>t, <2>3, <3>2
    <3> QED BY <2>1, <2>6, <3>3 DEF Status
  <2>7. Status(g) = "new" /\ Status(g)' \in {"refused", "accepted"}
    BY <2>1, <2>4, <2>5 DEF Status
  <2> QED BY <2>2, <2>6, <2>7
<1>3. ASSUME NEW g \in Frames, lost' = lost \cup {g}, UNCHANGED <<calls, refused, reports>>,
             NEW p \in Places, In(p, g), p[1] # "recv"
      PROVE  /\ \A f \in Frames : f # g => Status(f)' = Status(f)
             /\ Status(g) = "accepted" /\ Status(g)' = "lost"
  <2>1. rgb[g] = "live" /\ g \notin refused /\ g \notin lost /\ reports[g] = 0
    BY <1>t, <1>3 DEF Buffer, Ends
  <2>2. g[2] <= calls[g[1]]  BY <1>t, <2>1 DEF Unconverted
  <2> QED BY <1>3, <2>1, <2>2 DEF Status
<1>4. CASE ViSendFails
  <2>0. PICK g : g = vi  OBVIOUS
  <2>1. /\ g \in Frames /\ In(<<"vi", None>>, g) /\ lost' = lost \cup {g}
        /\ UNCHANGED <<calls, refused, reports>>
    BY <1>q, <1>4, <2>0 DEF ViSendFails, camVars, recvVars, In
  <2> QED BY <1>3, <2>1, PlaceFacts
<1>5. ASSUME NEW w \in Workers, InferFails(w)
      PROVE  \E g \in Frames :
              /\ \A f \in Frames : f # g => Status(f)' = Status(f)
              /\ Status(g) = "accepted" /\ Status(g)' = "lost"
  <2>0. PICK g : g = task[w]  OBVIOUS
  <2>1. /\ g \in Frames /\ In(<<"worker", w>>, g) /\ lost' = lost \cup {g}
        /\ UNCHANGED <<calls, refused, reports>>
    BY <1>a, <1>q, <1>5, <2>0 DEF InferFails, camVars, recvVars, HoldsFrame, In
  <2> QED BY <1>3, <2>1, PlaceFacts
<1>6. CASE Report
  <2>0. PICK g : g = recv  OBVIOUS
  <2>1. /\ rpc = "report" /\ reports' = [reports EXCEPT ![g] = @ + 1]
        /\ UNCHANGED <<calls, refused, lost>>
    BY <1>6, <2>0 DEF Report, camVars
  <2>2. g \in Frames /\ In(<<"recv", None>>, g)  BY <1>a, <2>0, <2>1 DEF In, HoldsFrame
  <2>3. rgb[g] = "live" /\ g \notin lost /\ reports[g] = 0 /\ g \notin refused
    BY <1>t, <2>1, <2>2, PlaceFacts DEF Buffer, Ends
  <2>4. g[2] <= calls[g[1]]  BY <1>t, <2>2, <2>3 DEF Unconverted
  <2>5. reports'[g] = 1 /\ \A f \in Frames : f # g => reports'[f] = reports[f]
    BY <1>q, <2>1, <2>2, <2>3
  <2> QED BY <2>1, <2>2, <2>3, <2>4, <2>5 DEF Status
<1>7. ASSUME \/ \E c \in Cameras : PushStreamPush(c)
             \/ ViPop \/ ViSend \/ GetFrameThread \/ RecvPop \/ RecvFree \/ UNCHANGED vars
             \/ \E w \in Workers : TakeTask(w) \/ GetFreeHandle(w) \/ InferSucceeds(w)
                                   \/ PushResult(w) \/ SerFreeHandle(w)
      PROVE  UNCHANGED <<calls, refused, lost, reports>>
  BY <1>7 DEF PushStreamPush, ViPop, ViSend, GetFrameThread, GetFramePop, Enqueue, RecvPop,
     RecvFree, TakeTask, GetFreeHandle, InferSucceeds, PushResult, SerFreeHandle, camVars,
     recvVars, vars
<1> QED
  BY <1>1, <1>2, <1>4, <1>5, <1>6, <1>7
  DEF Next, Camera, ViThread, Worker, RecvThread

\* The pipeline of threads and queues is the detection service
\* (ImplementsService): no accepted frame vanishes, is duplicated or is reported
\* twice, for any number of cameras, frames and workers and any capacities.
THEOREM ServiceImplemented == Spec => ImplementsService
<1>1. ASSUME IInv, FlowInv, [Next]_vars PROVE [Service!Next]_Fate
  <2>1. IInv'  BY <1>1, InductiveStep
  <2>2. FlowInv'  BY <1>1, FlowStep
  <2>3. Fate = [f \in Frames |-> Status(f)]  BY <1>1, StatusIsFate
  <2>4. (Fate = [f \in Frames |-> Status(f)])'  BY <2>1, <2>2, StatusIsFate, PTL
  <2>5. CASE \A f \in Frames : Status(f)' = Status(f)
    <3>1. Fate' = Fate  BY <2>3, <2>4, <2>5
    <3> QED BY <3>1
  <2>6. ASSUME NEW g \in Frames, \A f \in Frames : f # g => Status(f)' = Status(f),
               \/ Status(g) = "new" /\ Status(g)' \in {"refused", "accepted"}
               \/ Status(g) = "accepted" /\ Status(g)' \in {"reported", "lost"}
        PROVE  Service!Next
    <3>1. Fate' = [Fate EXCEPT ![g] = Status(g)']  BY <2>3, <2>4, <2>6
    <3>2. Fate[g] = Status(g)  BY <2>3
    <3> QED BY <2>6, <3>1, <3>2
        DEF Service!Next, Service!Refuse, Service!Accept, Service!Report, Service!Lose
  <2> QED BY <1>1, <2>5, <2>6, StatusStep
<1>2. Init => Service!Init
  <2> SUFFICES ASSUME Init PROVE Service!Init
    OBVIOUS
  <2>1. Fate = [f \in Frames |-> Status(f)]  BY InitIInv, FlowInit, StatusIsFate
  <2>2. \A f \in Frames : f[1] \in Cameras /\ f[2] \in Int /\ f[2] > 0
    BY CapAssumption DEF Frames
  <2>3. \A f \in Frames : Status(f) = "new"  BY <2>2 DEF Init, Status
  <2> QED BY <2>1, <2>3 DEF Service!Init
<1> QED BY <1>1, <1>2, FlowInvariant, Inductive, PTL DEF Spec, ImplementsService, Service!Spec


-----------------------------------------------------------------------------
(* The queues, their order, and that the threads do not wait in a circle   *)

\* What the pipeline does with its queues is what the queue class promises: the
\* three are bounded FIFOs, each used from its two ends only.
THEOREM QueuesCorrect == Spec => QueuesAreFifos
<1> USE DEF ViQueue!fifoVars, FrameQueue!fifoVars, ResultQueue!fifoVars
<1>1. Init => ViQueue!FifoInit /\ FrameQueue!FifoInit /\ ResultQueue!FifoInit
  BY DEF Init, ViQueue!FifoInit, FrameQueue!FifoInit, ResultQueue!FifoInit
<1>2. ASSUME IInv, [Next]_vars
      PROVE  /\ [ViQueue!FifoNext]_(ViQueue!fifoVars)
             /\ [FrameQueue!FifoNext]_(FrameQueue!fifoVars)
             /\ [ResultQueue!FifoNext]_(ResultQueue!fifoVars)
  <2>1. \/ UNCHANGED m_ViStream
        \/ m_ViStream # <<>> /\ m_ViStream' = Tail(m_ViStream)
        \/ /\ Len(m_ViStream) < ViCap
           /\ \E c \in Cameras : <<c, calls[c]>> \in Frames /\ m_ViStream' = Append(m_ViStream, <<c, calls[c]>>)
    <3>1. ASSUME NEW c \in Cameras, PushStreamPush(c) PROVE <<c, calls[c]>> \in Frames
      BY <1>2, <3>1, CapAssumption DEF PushStreamPush, IInv, TypeOK, HoldsFrame, Frames
    <3>2. ASSUME NEW c \in Cameras, PushStreamPush(c)
          PROVE  Len(m_ViStream) < ViCap /\ m_ViStream' = Append(m_ViStream, <<c, calls[c]>>)
      BY <3>2 DEF PushStreamPush
    <3>3. ASSUME NEW c \in Cameras, PushStreamCheck(c) PROVE UNCHANGED m_ViStream
      BY <3>3 DEF PushStreamCheck
    <3>4. ASSUME ViPop PROVE m_ViStream # <<>> /\ m_ViStream' = Tail(m_ViStream)
      BY <3>4 DEF ViPop
    <3>5. ASSUME ViSend \/ ViSendFails \/ GetFrameThread \/ RecvThread
                   \/ (\E w \in Workers : Worker(w))
          PROVE  UNCHANGED m_ViStream
      BY <3>5 DEF ViSend, ViSendFails, GetFrameThread, GetFramePop, Enqueue, RecvThread,
         RecvPop, Report, RecvFree, Worker, TakeTask, GetFreeHandle, InferSucceeds,
         InferFails, PushResult, SerFreeHandle
    <3> QED BY <1>2, <3>1, <3>2, <3>3, <3>4, <3>5 DEF Next, Camera, ViThread, vars
  <2>2. \/ UNCHANGED m_DetectFrame
        \/ m_DetectFrame # <<>> /\ m_DetectFrame' = Tail(m_DetectFrame)
        \/ Len(m_DetectFrame) < FrameCap /\ vi \in Frames /\ m_DetectFrame' = Append(m_DetectFrame, vi)
    <3>1. vi # None => vi \in Frames  BY <1>2 DEF IInv, TypeOK, MaybeFrame
    <3> QED BY <1>2, <3>1 DEF Next, vars, Camera, PushStreamCheck, PushStreamPush, ViThread,
         ViPop, ViSend, ViSendFails, GetFrameThread, GetFramePop, Enqueue, Worker, TakeTask,
         GetFreeHandle, InferSucceeds, InferFails, PushResult, SerFreeHandle, RecvThread,
         RecvPop, Report, RecvFree
  <2>3. \/ UNCHANGED m_DetectResult
        \/ m_DetectResult # <<>> /\ m_DetectResult' = Tail(m_DetectResult)
        \/ /\ Len(m_DetectResult) < ResultCap
           /\ \E w \in Workers : task[w] \in Frames /\ m_DetectResult' = Append(m_DetectResult, task[w])
    <3>1. \A w \in Workers : wpc[w] = "push" => task[w] \in Frames  BY <1>2 DEF IInv, HoldsFrame
    <3> QED BY <1>2, <3>1 DEF Next, vars, Camera, PushStreamCheck, PushStreamPush, ViThread,
         ViPop, ViSend, ViSendFails, GetFrameThread, GetFramePop, Enqueue, Worker, TakeTask,
         GetFreeHandle, InferSucceeds, InferFails, PushResult, SerFreeHandle, RecvThread,
         RecvPop, Report, RecvFree
  <2>4. [ViQueue!FifoNext]_(ViQueue!fifoVars)
    BY <2>1 DEF ViQueue!FifoNext, ViQueue!Put, ViQueue!Take
  <2>5. [FrameQueue!FifoNext]_(FrameQueue!fifoVars)
    BY <2>2 DEF FrameQueue!FifoNext, FrameQueue!Put, FrameQueue!Take
  <2>6. [ResultQueue!FifoNext]_(ResultQueue!fifoVars)
    BY <2>3 DEF ResultQueue!FifoNext, ResultQueue!Put, ResultQueue!Take
  <2> QED BY <2>4, <2>5, <2>6
<1> QED
  BY <1>1, <1>2, Inductive, PTL
     DEF Spec, QueuesAreFifos, ViQueue!FifoSpec, FrameQueue!FifoSpec, ResultQueue!FifoSpec

\* A sorted queue stays sorted when its first element is taken, which was earlier
\* than what is left.
LEMMA SortedTail ==
  ASSUME NEW S, NEW queue \in Seq(S), queue # <<>>, Sorted(queue)
  PROVE  /\ Sorted(Tail(queue)) /\ Head(queue) \in Range(queue)
         /\ \A f \in Range(Tail(queue)) : f \in Range(queue) /\ Earlier(Head(queue), f)
<1>1. /\ Len(queue) \in Nat \ {0} /\ Head(queue) = queue[1] /\ Len(Tail(queue)) = Len(queue) - 1
      /\ \A i \in 1..Len(Tail(queue)) : Tail(queue)[i] = queue[i + 1]
      /\ DOMAIN queue = 1..Len(queue) /\ DOMAIN Tail(queue) = 1..Len(Tail(queue))
  OBVIOUS
<1>2. Sorted(Tail(queue))
  <2> SUFFICES ASSUME NEW i \in 1..Len(Tail(queue)), NEW j \in 1..Len(Tail(queue)), i < j
               PROVE  Earlier(Tail(queue)[i], Tail(queue)[j])
    BY DEF Sorted
  <2>1. i + 1 \in 1..Len(queue) /\ j + 1 \in 1..Len(queue) /\ i + 1 < j + 1  BY <1>1
  <2>2. Earlier(queue[i + 1], queue[j + 1])  BY <2>1 DEF Sorted
  <2> QED BY <1>1, <2>2
<1>3. 1 \in 1..Len(queue)  BY <1>1
<1>4. ASSUME NEW f \in Range(Tail(queue)) PROVE f \in Range(queue) /\ Earlier(Head(queue), f)
  <2>1. PICK i \in 1..Len(Tail(queue)) : f = Tail(queue)[i]  BY <1>1 DEF Range
  <2>2. i + 1 \in 1..Len(queue) /\ f = queue[i + 1] /\ 1 < i + 1  BY <1>1, <2>1
  <2>3. Earlier(queue[1], queue[i + 1])  BY <1>3, <2>2 DEF Sorted
  <2> QED BY <1>1, <2>2, <2>3 DEF Range
<1> QED BY <1>1, <1>2, <1>3, <1>4 DEF Range

LEMMA SortedAppend ==
  ASSUME NEW S, NEW queue \in Seq(S), NEW g \in S, Sorted(queue),
         \A f \in Range(queue) : Earlier(f, g)
  PROVE  /\ Sorted(Append(queue, g))
         /\ \A f \in Range(Append(queue, g)) : f \in Range(queue) \/ f = g
<1> DEFINE longer == Append(queue, g)
<1>1. /\ Len(queue) \in Nat /\ Len(longer) = Len(queue) + 1 /\ longer[Len(queue) + 1] = g
      /\ \A i \in 1..Len(queue) : longer[i] = queue[i]
      /\ DOMAIN queue = 1..Len(queue) /\ DOMAIN longer = 1..Len(longer)
  OBVIOUS
<1> HIDE DEF longer
<1>2. \A i \in 1..Len(queue) : Earlier(queue[i], g)  BY <1>1 DEF Range
<1>3. Sorted(longer)
  <2> SUFFICES ASSUME NEW i \in 1..Len(longer), NEW j \in 1..Len(longer), i < j
               PROVE  Earlier(longer[i], longer[j])
    BY DEF Sorted
  <2>1. i \in 1..Len(queue)  BY <1>1
  <2>2. CASE j \in 1..Len(queue)
    <3>1. Earlier(queue[i], queue[j])  BY <2>1, <2>2 DEF Sorted
    <3> QED BY <1>1, <2>1, <2>2, <3>1
  <2>3. CASE j = Len(queue) + 1  BY <1>1, <1>2, <2>1, <2>3
  <2> QED BY <1>1, <2>2, <2>3
<1>4. ASSUME NEW f \in Range(longer) PROVE f \in Range(queue) \/ f = g
  <2>1. PICK i \in 1..Len(longer) : f = longer[i]  BY <1>1 DEF Range
  <2>2. i \in 1..Len(queue) \/ i = Len(queue) + 1  BY <1>1
  <2> QED BY <1>1, <2>1, <2>2 DEF Range
<1> QED BY <1>3, <1>4 DEF longer

\* No frame on the way was offered after the one its camera offered last.
Ordered ==
  InOrder /\ \A f \in Frames, k \in 1..6 : OnTheWay(k, f) => f[2] <= calls[f[1]]

\* The frame x, the first of its place, goes one place further.
LEMMA Advance ==
  ASSUME Ordered, NEW x \in Frames, NEW k \in 1..6, NEW m \in 1..6, m = k + 1,
         OnTheWay(m, x), UNCHANGED calls,
         \A f \in Frames : OnTheWay(k, f)' => OnTheWay(k, f) \/ f = x,
         \A f \in Frames : OnTheWay(m, f)' => OnTheWay(m, f) /\ Earlier(x, f),
         \A f \in Frames, l \in 1..6 \ {k, m} : OnTheWay(l, f)' => OnTheWay(l, f),
         (Sorted(tasks) /\ Sorted(m_DetectFrame) /\ Sorted(m_ViStream))'
  PROVE  Ordered'
<1>1. ASSUME NEW f \in Frames, NEW l \in 1..6, OnTheWay(l, f)'
      PROVE  OnTheWay(l, f) \/ (l = k /\ f = x)
  BY <1>1
<1>2. ASSUME NEW f \in Frames, NEW g \in Frames, NEW l \in 1..6, NEW n \in 1..6,
             l < n, OnTheWay(l, f)', OnTheWay(n, g)'
      PROVE  Earlier(f, g)
  <2>1. CASE OnTheWay(l, f) /\ OnTheWay(n, g)  BY <1>2, <2>1 DEF Ordered, InOrder
  <2>2. CASE l = k /\ f = x
    <3>1. CASE n = m  BY <1>2, <2>2, <3>1
    <3>2. CASE n # m
      <4>1. OnTheWay(n, g) /\ m < n  BY <1>1, <1>2, <2>2, <3>2
      <4> QED BY <4>1, <2>2 DEF Ordered, InOrder
    <3> QED BY <3>1, <3>2
  <2>3. CASE n = k /\ g = x
    <3>1. OnTheWay(l, f) /\ l < m  BY <1>1, <1>2, <2>3
    <3> QED BY <3>1, <2>3 DEF Ordered, InOrder
  <2> QED BY <1>1, <1>2, <2>1, <2>2, <2>3
<1>3. ASSUME NEW f \in Frames, NEW l \in 1..6, OnTheWay(l, f)'
      PROVE  f[2] <= calls'[f[1]]
  <2>1. CASE OnTheWay(l, f)  BY <2>1 DEF Ordered
  <2>2. CASE l = k /\ f = x  BY <2>2 DEF Ordered
  <2> QED BY <1>1, <1>3, <2>1, <2>2
<1>4. InOrder'
  BY <1>2 DEF InOrder, Earlier
<1> QED BY <1>3, <1>4 DEF Ordered

\* No frame gets to a place.
LEMMA NoneNew ==
  ASSUME Ordered, UNCHANGED calls,
         \A f \in Frames, l \in 1..6 : OnTheWay(l, f)' => OnTheWay(l, f),
         (Sorted(tasks) /\ Sorted(m_DetectFrame) /\ Sorted(m_ViStream))'
  PROVE  Ordered'
<1>1. InOrder'
  BY DEF Ordered, InOrder, Earlier
<1> QED BY <1>1 DEF Ordered

LEMMA SixPlaces == \A l \in 1..6 : l = 1 \/ l = 2 \/ l = 3 \/ l = 4 \/ l = 5 \/ l = 6
OBVIOUS

LEMMA OrderInit == ASSUME Init PROVE Ordered
<1>1. \A f \in Frames, k \in 1..6 : ~OnTheWay(k, f)
  <2>1. \A f \in Frames : f # None /\ cam[f[1]] = "idle"
    BY CapAssumption DEF Init, Frames
  <2> QED BY <2>1 DEF Init, OnTheWay, Range
<1>2. Sorted(tasks) /\ Sorted(m_DetectFrame) /\ Sorted(m_ViStream)  BY DEF Init, Sorted
<1> QED BY <1>1, <1>2 DEF Ordered, InOrder

LEMMA OrderStep == ASSUME IInv, Ordered, [Next]_vars PROVE Ordered'
<1> USE CapAssumption
<1>t. /\ cam \in [Cameras -> {"idle", "admitted"}] /\ calls \in [Cameras -> 0..MaxCalls]
      /\ m_ViStream \in Seq(Frames) /\ m_DetectFrame \in Seq(Frames) /\ tasks \in Seq(Frames)
      /\ vi \in Frames \cup {None} /\ getframe \in Frames \cup {None}
      /\ \A c \in Cameras : cam[c] = "admitted" => calls[c] >= 1
  BY DEF IInv, TypeOK, HoldsFrame, MaybeFrame
<1>f. \A f \in Frames : f[1] \in Cameras /\ f[2] \in 1..MaxCalls /\ f = <<f[1], f[2]>> /\ f # None
  BY DEF Frames
<1>s. Sorted(tasks) /\ Sorted(m_DetectFrame) /\ Sorted(m_ViStream)  BY DEF Ordered, InOrder
<1>e. ASSUME NEW k \in 1..6, NEW l \in 1..6, NEW f \in Frames, NEW g \in Frames,
             k < l, OnTheWay(k, f), OnTheWay(l, g)
      PROVE  Earlier(f, g)
  BY <1>e DEF Ordered, InOrder
<1>1. ASSUME NEW c \in Cameras, PushStreamCheck(c) PROVE Ordered'
  <2> PICK n \in 1..MaxCalls : n = calls[c] + 1  BY <1>1, <1>t DEF PushStreamCheck
  <2>1. /\ UNCHANGED <<tasks, getframe, m_DetectFrame, vi, m_ViStream>>
        /\ \A d \in Cameras : calls'[d] = IF d = c THEN n ELSE calls[d]
        /\ \A d \in Cameras : d # c => cam'[d] = cam[d]
        /\ cam[c] = "idle"
    BY <1>1, <1>t DEF PushStreamCheck
  <2>2. \A d \in Cameras : calls[d] <= calls'[d] /\ calls[d] \in Int /\ calls'[d] \in Int
    BY <1>t, <2>1
  <2>3. ASSUME NEW f \in Frames, NEW l \in 1..6, OnTheWay(l, f)'
        PROVE  OnTheWay(l, f) \/ (l = 6 /\ f = <<c, n>>)
    <3>1. CASE l = 6 /\ f[1] = c  BY <3>1, <2>1, <2>3, <1>f DEF OnTheWay
    <3>2. CASE l = 6 /\ f[1] # c  BY <3>2, <2>1, <2>3, <1>f DEF OnTheWay
    <3>3. CASE l # 6  BY <3>3, <2>1, <2>3, SixPlaces DEF OnTheWay
    <3> QED BY <3>1, <3>2, <3>3
  <2>4. ASSUME NEW f \in Frames, NEW l \in 1..6, OnTheWay(l, f)'
        PROVE  f[2] <= calls'[f[1]]
    <3>1. CASE OnTheWay(l, f)  BY <3>1, <2>2, <1>f DEF Ordered
    <3>2. CASE f = <<c, n>>  BY <3>2, <2>1
    <3> QED BY <2>3, <2>4, <3>1, <3>2
  <2>5. ASSUME NEW f \in Frames, NEW g \in Frames, NEW k \in 1..6, NEW l \in 1..6, k < l,
               OnTheWay(k, f)', OnTheWay(l, g)'
        PROVE  Earlier(f, g)
    <3>1. OnTheWay(k, f)  BY <2>3, <2>5
    <3>2. CASE OnTheWay(l, g)  BY <3>1, <3>2, <2>5, <1>e
    <3>3. CASE g = <<c, n>>
      <4>1. f[2] <= calls[f[1]]  BY <3>1 DEF Ordered
      <4> QED BY <4>1, <3>3, <1>f, <1>t DEF Earlier
    <3> QED BY <2>3, <2>5, <3>2, <3>3
  <2>6. (Sorted(tasks) /\ Sorted(m_DetectFrame) /\ Sorted(m_ViStream))'
    BY <1>s, <2>1 DEF Sorted
  <2>7. InOrder'  BY <2>5, <2>6 DEF InOrder, Earlier
  <2> QED BY <2>4, <2>7 DEF Ordered
<1>2. ASSUME NEW c \in Cameras, PushStreamPush(c) PROVE Ordered'
  <2> PICK n \in 1..MaxCalls : n = calls[c]  BY <1>2, <1>t DEF PushStreamPush
  <2> PICK x \in Frames : x = <<c, n>>  BY DEF Frames
  <2>1. /\ UNCHANGED <<tasks, getframe, m_DetectFrame, vi, calls>>
        /\ m_ViStream' = Append(m_ViStream, x)
        /\ \A d \in Cameras : cam'[d] = IF d = c THEN "idle" ELSE cam[d]
        /\ cam[c] = "admitted" /\ x[1] = c /\ x[2] = calls[c]
    BY <1>2, <1>t DEF PushStreamPush
  <2>2. OnTheWay(6, x)  BY <2>1 DEF OnTheWay
  <2>3. \A f \in Range(m_ViStream) : f \in Frames /\ OnTheWay(5, f)
    BY <1>t DEF OnTheWay, Range
  <2>4. \A f \in Range(m_ViStream) : Earlier(f, x)  BY <2>2, <2>3, <1>e
  <2>5. /\ Sorted(m_ViStream')
        /\ \A f \in Range(m_ViStream') : f \in Range(m_ViStream) \/ f = x
    BY <2>1, <2>4, <1>t, <1>s, SortedAppend
  <2>6. \A f \in Frames : OnTheWay(5, f)' => OnTheWay(5, f) \/ f = x
    BY <2>5 DEF OnTheWay
  <2>7. \A f \in Frames : OnTheWay(6, f)' => OnTheWay(6, f) /\ Earlier(x, f)
    BY <2>1, <1>f DEF OnTheWay, Earlier
  <2>8. \A f \in Frames, l \in 1..6 \ {5, 6} : OnTheWay(l, f)' => OnTheWay(l, f)
    BY <2>1, SixPlaces DEF OnTheWay
  <2>9. (Sorted(tasks) /\ Sorted(m_DetectFrame) /\ Sorted(m_ViStream))'
    BY <2>1, <2>5, <1>s DEF Sorted
  <2>10. 5 \in 1..6 /\ 6 \in 1..6 /\ 6 = 5 + 1  OBVIOUS
  <2> QED BY <2>1, <2>2, <2>6, <2>7, <2>8, <2>9, <2>10, Advance
<1>3. CASE ViPop
  <2> PICK x \in Frames : x = Head(m_ViStream)  BY <1>3, <1>t DEF ViPop
  <2>1. /\ UNCHANGED <<tasks, getframe, m_DetectFrame, calls, cam>>
        /\ vi' = x /\ m_ViStream' = Tail(m_ViStream) /\ m_ViStream # <<>>
    BY <1>3 DEF ViPop, camVars
  <2>2. /\ Sorted(m_ViStream') /\ x \in Range(m_ViStream)
        /\ \A f \in Range(m_ViStream') : f \in Range(m_ViStream) /\ Earlier(x, f)
    BY <2>1, <1>t, <1>s, SortedTail
  <2>3. OnTheWay(5, x)  BY <2>2 DEF OnTheWay
  <2>4. \A f \in Frames : OnTheWay(4, f)' => f = x  BY <2>1 DEF OnTheWay
  <2>5. \A f \in Frames : OnTheWay(5, f)' => OnTheWay(5, f) /\ Earlier(x, f)
    BY <2>2 DEF OnTheWay
  <2>6. \A f \in Frames, l \in 1..6 \ {4, 5} : OnTheWay(l, f)' => OnTheWay(l, f)
    BY <2>1, SixPlaces DEF OnTheWay
  <2>7. (Sorted(tasks) /\ Sorted(m_DetectFrame) /\ Sorted(m_ViStream))'
    BY <2>1, <2>2, <1>s DEF Sorted
  <2>8. 4 \in 1..6 /\ 5 \in 1..6 /\ 5 = 4 + 1  OBVIOUS
  <2> QED BY <2>1, <2>3, <2>4, <2>5, <2>6, <2>7, <2>8, Advance
<1>4. CASE ViSend
  <2> PICK x \in Frames : x = vi  BY <1>4, <1>t DEF ViSend
  <2>1. /\ UNCHANGED <<tasks, getframe, m_ViStream, calls, cam>>
        /\ vi' = None /\ m_DetectFrame' = Append(m_DetectFrame, x)
    BY <1>4 DEF ViSend, camVars
  <2>2. OnTheWay(4, x)  BY DEF OnTheWay
  <2>3. \A f \in Range(m_DetectFrame) : f \in Frames /\ OnTheWay(3, f)
    BY <1>t DEF OnTheWay, Range
  <2>4. \A f \in Range(m_DetectFrame) : Earlier(f, x)  BY <2>2, <2>3, <1>e
  <2>5. /\ Sorted(m_DetectFrame')
        /\ \A f \in Range(m_DetectFrame') : f \in Range(m_DetectFrame) \/ f = x
    BY <2>1, <2>4, <1>t, <1>s, SortedAppend
  <2>6. \A f \in Frames : OnTheWay(3, f)' => OnTheWay(3, f) \/ f = x
    BY <2>5 DEF OnTheWay
  <2>7. \A f \in Frames : ~OnTheWay(4, f)'  BY <2>1, <1>f DEF OnTheWay
  <2>8. \A f \in Frames, l \in 1..6 \ {3, 4} : OnTheWay(l, f)' => OnTheWay(l, f)
    BY <2>1, SixPlaces DEF OnTheWay
  <2>9. (Sorted(tasks) /\ Sorted(m_DetectFrame) /\ Sorted(m_ViStream))'
    BY <2>1, <2>5, <1>s DEF Sorted
  <2>10. 3 \in 1..6 /\ 4 \in 1..6 /\ 4 = 3 + 1  OBVIOUS
  <2> QED BY <2>1, <2>2, <2>6, <2>7, <2>8, <2>9, <2>10, Advance
<1>5. CASE GetFramePop
  <2> PICK x \in Frames : x = Head(m_DetectFrame)  BY <1>5, <1>t DEF GetFramePop
  <2>1. /\ UNCHANGED <<tasks, vi, m_ViStream, calls, cam>>
        /\ getframe' = x /\ m_DetectFrame' = Tail(m_DetectFrame) /\ m_DetectFrame # <<>>
    BY <1>5 DEF GetFramePop, camVars
  <2>2. /\ Sorted(m_DetectFrame') /\ x \in Range(m_DetectFrame)
        /\ \A f \in Range(m_DetectFrame') : f \in Range(m_DetectFrame) /\ Earlier(x, f)
    BY <2>1, <1>t, <1>s, SortedTail
  <2>3. OnTheWay(3, x)  BY <2>2 DEF OnTheWay
  <2>4. \A f \in Frames : OnTheWay(2, f)' => f = x  BY <2>1 DEF OnTheWay
  <2>5. \A f \in Frames : OnTheWay(3, f)' => OnTheWay(3, f) /\ Earlier(x, f)
    BY <2>2 DEF OnTheWay
  <2>6. \A f \in Frames, l \in 1..6 \ {2, 3} : OnTheWay(l, f)' => OnTheWay(l, f)
    BY <2>1, SixPlaces DEF OnTheWay
  <2>7. (Sorted(tasks) /\ Sorted(m_DetectFrame) /\ Sorted(m_ViStream))'
    BY <2>1, <2>2, <1>s DEF Sorted
  <2>8. 2 \in 1..6 /\ 3 \in 1..6 /\ 3 = 2 + 1  OBVIOUS
  <2> QED BY <2>1, <2>3, <2>4, <2>5, <2>6, <2>7, <2>8, Advance
<1>6. CASE Enqueue
  <2> PICK x \in Frames : x = getframe  BY <1>6, <1>t DEF Enqueue
  <2>1. /\ UNCHANGED <<vi, m_DetectFrame, m_ViStream, calls, cam>>
        /\ getframe' = None /\ tasks' = Append(tasks, x)
    BY <1>6 DEF Enqueue, camVars
  <2>2. OnTheWay(2, x)  BY DEF OnTheWay
  <2>3. \A f \in Range(tasks) : f \in Frames /\ OnTheWay(1, f)
    BY <1>t DEF OnTheWay, Range
  <2>4. \A f \in Range(tasks) : Earlier(f, x)  BY <2>2, <2>3, <1>e
  <2>5. /\ Sorted(tasks')
        /\ \A f \in Range(tasks') : f \in Range(tasks) \/ f = x
    BY <2>1, <2>4, <1>t, <1>s, SortedAppend
  <2>6. \A f \in Frames : OnTheWay(1, f)' => OnTheWay(1, f) \/ f = x
    BY <2>5 DEF OnTheWay
  <2>7. \A f \in Frames : ~OnTheWay(2, f)'  BY <2>1, <1>f DEF OnTheWay
  <2>8. \A f \in Frames, l \in 1..6 \ {1, 2} : OnTheWay(l, f)' => OnTheWay(l, f)
    BY <2>1, SixPlaces DEF OnTheWay
  <2>9. (Sorted(tasks) /\ Sorted(m_DetectFrame) /\ Sorted(m_ViStream))'
    BY <2>1, <2>5, <1>s DEF Sorted
  <2>10. 1 \in 1..6 /\ 2 \in 1..6 /\ 2 = 1 + 1  OBVIOUS
  <2> QED BY <2>1, <2>2, <2>6, <2>7, <2>8, <2>9, <2>10, Advance
<1>7. CASE ViSendFails
  <2>1. vi' = None /\ UNCHANGED <<tasks, getframe, m_DetectFrame, m_ViStream, calls, cam>>
    BY <1>7 DEF ViSendFails, camVars
  <2>2. \A f \in Frames, l \in 1..6 : OnTheWay(l, f)' => OnTheWay(l, f)
    BY <2>1, <1>f, SixPlaces DEF OnTheWay
  <2> QED BY <2>1, <2>2, <1>s, NoneNew DEF Sorted
<1>8. ASSUME NEW w \in Workers, TakeTask(w) PROVE Ordered'
  <2>1. /\ UNCHANGED <<getframe, m_DetectFrame, vi, m_ViStream, calls, cam>>
        /\ tasks' = Tail(tasks) /\ tasks # <<>>
    BY <1>8 DEF TakeTask, camVars
  <2>2. Sorted(tasks') /\ \A f \in Range(tasks') : f \in Range(tasks)
    BY <2>1, <1>t, <1>s, SortedTail
  <2>3. \A f \in Frames, l \in 1..6 : OnTheWay(l, f)' => OnTheWay(l, f)
    BY <2>1, <2>2, SixPlaces DEF OnTheWay
  <2>4. (Sorted(tasks) /\ Sorted(m_DetectFrame) /\ Sorted(m_ViStream))'
    BY <2>1, <2>2, <1>s DEF Sorted
  <2> QED BY <2>1, <2>3, <2>4, NoneNew
<1>9. ASSUME UNCHANGED <<tasks, getframe, m_DetectFrame, vi, m_ViStream, calls, cam>>
      PROVE  Ordered'
  <2>1. \A f \in Frames, l \in 1..6 : OnTheWay(l, f)' => OnTheWay(l, f)
    BY <1>9, SixPlaces DEF OnTheWay
  <2> QED BY <2>1, <1>9, <1>s, NoneNew DEF Sorted
<1>10. ASSUME \/ RecvThread \/ UNCHANGED vars
              \/ \E w \in Workers : GetFreeHandle(w) \/ InferSucceeds(w) \/ InferFails(w)
                                      \/ PushResult(w) \/ SerFreeHandle(w)
       PROVE  UNCHANGED <<tasks, getframe, m_DetectFrame, vi, m_ViStream, calls, cam>>
  BY <1>10 DEF vars, RecvThread, RecvPop, Report, RecvFree, GetFreeHandle, InferSucceeds,
     InferFails, PushResult, SerFreeHandle, camVars
<1> QED
  BY <1>1, <1>2, <1>3, <1>4, <1>5, <1>6, <1>7, <1>8, <1>9, <1>10
     DEF Next, Camera, ViThread, GetFrameThread, Worker

\* A camera's frames come to the pool in the order they were offered, for any
\* number of cameras and frames (mpp_venc_push_stream, mpp_vi_get_buffer_thread
\* and GetFrameDetectThread).
THEOREM OrderCorrect == Spec => []InOrder
<1>1. Init => Ordered  BY OrderInit
<1>2. IInv /\ Ordered /\ [Next]_vars => Ordered'  BY OrderStep
<1>3. Ordered => InOrder  BY DEF Ordered
<1> QED BY <1>1, <1>2, <1>3, Inductive, PTL DEF Spec

\* The threads never wait for each other in a circle, if the pool has a worker:
\* while a frame is in the pipeline some thread can go on with its work.
THEOREM NoDeadlock == Workers # {} /\ Spec => []NeverStuck
<1>1. ASSUME IInv, FlowInv, Workers # {} PROVE NeverStuck
  <2> SUFFICES ASSUME ~(\E c \in Cameras : CameraGoes(c)), ~ViGoes, ~GetFrameGoes, ~RecvGoes,
                      ~(\E w \in Workers : WorkerGoes(w))
               PROVE  InFlight \subseteq {None}
    BY DEF NeverStuck
  <2> USE CapAssumption
  <2>1. rpc = "pop" /\ m_DetectResult = <<>>  BY DEF RecvGoes
  <2>2. \A w \in Workers : wpc[w] = "wait" /\ tasks = <<>>
    BY <2>1 DEF WorkerGoes
  <2>3. tasks = <<>>  BY <1>1, <2>2
  <2>4. getframe = None /\ m_DetectFrame = <<>>  BY DEF GetFrameGoes
  <2>5. vi = None /\ m_ViStream = <<>>  BY <2>4 DEF ViGoes
  <2>6. \A c \in Cameras : cam[c] # "admitted"  BY <2>5 DEF CameraGoes
  <2>7. \A w \in Workers : task[w] = None  BY <1>1, <2>2 DEF FlowInv
  <2>8. \A f \in Frames : f[1] \in Cameras  BY DEF Frames
  <2>9. Range(task) \subseteq {None}  BY <1>1, <2>7 DEF Range, IInv, TypeOK
  <2>10. Range(<<>>) = {}  BY DEF Range
  <2> QED BY <2>1, <2>3, <2>4, <2>5, <2>6, <2>8, <2>9, <2>10 DEF InFlight
<1> QED
  <2> SUFFICES ASSUME Workers # {} PROVE Spec => []NeverStuck
    OBVIOUS
  <2>1. IInv /\ FlowInv => NeverStuck  BY <1>1
  <2> QED BY <2>1, Inductive, FlowInvariant, PTL

=============================================================================
