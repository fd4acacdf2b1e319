------------------------- MODULE MessageHandlerProofs -------------------------
(***************************************************************************)
(* Type correctness of MessageHandler, that a caller woken for a reply     *)
(* always finds a message, and that late replies stay, for any number of   *)
(* callers that use codes of their own.                                    *)
(***************************************************************************)
EXTENDS MessageHandler, TLAPS, FiniteSetTheorems

OwedInv ==
  /\ Cardinality(Owed) <= Len(receive_inline_queue)
  /\ \A s \in Senders : pc[s] = "taking" => s \in Owed

\* No two callers use the same code.
OwnCodes == \A s, t \in Senders : Code[s] = Code[t] => s = t

\* Type correctness, whatever the threads, the broker and stopReceiver() do.
THEOREM TypeCorrect == Spec => []TypeOK
<1> USE MessageAssumption
<1>1. Init => TypeOK
  <2> SUFFICES ASSUME Init PROVE TypeOK
    OBVIOUS
  <2>1. /\ rpc \in {"head", "receive", "flag", "push", "outer", "stopped"}
        /\ connected \in BOOLEAN
        /\ topics \subseteq {"pre", "vo"}
    BY DEF Init
  <2>2. /\ pc \in [Senders -> {"idle", "waiting", "taking"}]
        /\ processed \in [Codes -> BOOLEAN]
    BY DEF Init
  <2>3. /\ receive_inline_queue \in Seq(Codes) /\ Len(receive_inline_queue) = 0
        /\ receive_msg_queue \in Seq(Codes) /\ Len(receive_msg_queue) = 0
    BY DEF Init
  <2>4. 0 <= QueueCap
    OBVIOUS
  <2>5. condition_map \subseteq Codes /\ msg \in Codes /\ stop_flag \in BOOLEAN
    BY DEF Init
  <2> QED
    BY <2>1, <2>2, <2>3, <2>4, <2>5 DEF TypeOK
<1>2. TypeOK /\ [Next]_vars => TypeOK'
  <2> SUFFICES ASSUME TypeOK, [Next]_vars PROVE TypeOK'
    OBVIOUS
  <2> USE DEF TypeOK
  <2>1. ASSUME NEW s \in Senders, Sender(s) PROVE TypeOK'
    <3>1. CASE Register(s)
      BY <3>1 DEF Register, connection
    <3>2. CASE WaitSucceeds(s) \/ WaitTimesOut(s)
      BY <3>2 DEF WaitSucceeds, WaitTimesOut, connection
    <3>3. CASE TakeReply(s)
      BY <3>3 DEF TakeReply, connection
    <3> QED
      BY <2>1, <3>1, <3>2, <3>3 DEF Sender, WaitEnds
  <2>2. ASSUME NEW c \in Codes, Receive(c) PROVE TypeOK'
    BY <2>2 DEF Receive, connection
  <2>3. CASE LoopHead \/ ReceiveNothing
    BY <2>3 DEF LoopHead, ReceiveNothing, connection
  <2>4. CASE Reconnect
    BY <2>4 DEF Reconnect
  <2>5. CASE Flag
    BY <2>5 DEF Flag, connection
  <2>6. CASE PushInline
    BY <2>6 DEF PushInline, connection
  <2>7. CASE PushOuter
    BY <2>7 DEF PushOuter, connection
  <2>8. CASE GetMessage
    BY <2>8 DEF GetMessage, connection
  <2>9. CASE Disconnect \/ StopReceiver
    BY <2>9 DEF Disconnect, StopReceiver
  <2>10. CASE UNCHANGED vars
    BY <2>10 DEF vars
  <2> QED
    BY <2>1, <2>2, <2>3, <2>4, <2>5, <2>6, <2>7, <2>8, <2>9, <2>10
       DEF Next, Receiver, Handle
<1> QED
  BY <1>1, <1>2, PTL DEF Spec

LEMMA OwedFinite == IsFiniteSet(Owed) /\ Cardinality(Owed) \in Nat
<1>1. Owed \subseteq Senders
  BY DEF Owed
<1> QED
  BY <1>1, MessageAssumption, FS_Subset, FS_CardinalityType

\* A step after which no more callers are owed a message than before.
LEMMA NotMore ==
  ASSUME TypeOK, OwedInv, Owed' \subseteq Owed,
         UNCHANGED receive_inline_queue,
         \A s \in Senders : pc'[s] = "taking" => s \in Owed'
  PROVE  OwedInv'
<1>1. Cardinality(Owed') <= Cardinality(Owed) /\ Cardinality(Owed') \in Nat
  BY OwedFinite, FS_Subset, FS_CardinalityType
<1>2. Len(receive_inline_queue) \in Nat
  BY DEF TypeOK
<1> QED
  BY <1>1, <1>2, OwedFinite DEF OwedInv

\* The calls of sendMessage().
LEMMA SenderStep ==
  ASSUME TypeOK, OwedInv, OwnCodes, NEW s \in Senders, Sender(s)
  PROVE  OwedInv'
<1> USE MessageAssumption DEF TypeOK
<1>1. CASE Register(s)
  <2>1. \A t \in Senders : t # s => Code[t] # Code[s]
    BY DEF OwnCodes
  <2>2. Owed' \subseteq Owed
    BY <1>1 DEF Register, Owed
  <2>3. \A t \in Senders : pc'[t] = "taking" => t \in Owed'
    BY <1>1, <2>1 DEF Register, Owed, OwedInv
  <2> QED
    BY <1>1, <2>2, <2>3, NotMore DEF Register
<1>2. CASE WaitSucceeds(s)
  <2>1. Owed' = Owed
    BY <1>2 DEF WaitSucceeds, Owed
  <2>2. s \in Owed
    BY <1>2 DEF WaitSucceeds, Owed, MutexFree
  <2>3. \A t \in Senders : pc'[t] = "taking" => t \in Owed'
    BY <1>2, <2>1, <2>2 DEF WaitSucceeds, OwedInv
  <2> QED
    BY <1>2, <2>1, <2>3, NotMore DEF WaitSucceeds
<1>3. CASE WaitTimesOut(s)
  <2>1. Owed' = Owed
    BY <1>3 DEF WaitTimesOut, Owed
  <2>2. \A t \in Senders : pc'[t] = "taking" => t \in Owed'
    BY <1>3, <2>1 DEF WaitTimesOut, OwedInv
  <2> QED
    BY <1>3, <2>1, <2>2, NotMore DEF WaitTimesOut
<1>4. CASE TakeReply(s)
  <2>1. s \in Owed
    BY <1>4 DEF TakeReply, OwedInv
  <2>2. Owed' = Owed \ {s}
    BY <1>4 DEF TakeReply, Owed
  <2>3. Cardinality(Owed') = Cardinality(Owed) - 1
    BY <2>1, <2>2, OwedFinite, FS_RemoveElement
  <2>4. Len(receive_inline_queue') = Len(receive_inline_queue) - 1
    BY <1>4 DEF TakeReply
  <2>5. \A t \in Senders : pc'[t] = "taking" => t \in Owed'
    BY <1>4, <2>2 DEF TakeReply, OwedInv
  <2>6. Len(receive_inline_queue) \in Nat
    OBVIOUS
  <2> QED
    BY <2>3, <2>4, <2>5, <2>6, OwedFinite DEF OwedInv
<1> QED
  BY <1>1, <1>2, <1>3, <1>4 DEF Sender, WaitEnds

\* The receiver's push: at most one caller uses the code of the message.
LEMMA PushOwes ==
  ASSUME TypeOK, OwnCodes, PushInline
  PROVE  /\ Owed \subseteq Owed'
         /\ Cardinality(Owed') <= Cardinality(Owed) + 1 /\ Cardinality(Owed') \in Nat
<1>1. Owed \subseteq Owed'
  BY DEF PushInline, Owed
<1>2. ASSUME NEW t \in Owed', t \notin Owed
      PROVE  Code[t] = msg /\ t \in Senders
  BY <1>2 DEF PushInline, Owed
<1>3. CASE Owed' = Owed
  BY <1>3, OwedFinite
<1>4. CASE Owed' # Owed
  <2>1. PICK t \in Owed' : t \notin Owed
    BY <1>1, <1>4
  <2>2. Owed' = Owed \cup {t}
    BY <1>1, <1>2, <2>1 DEF OwnCodes
  <2>3. Cardinality(Owed \cup {t}) = Cardinality(Owed) + 1
    BY <2>1, OwedFinite, FS_AddElement
  <2> QED
    BY <1>1, <2>2, <2>3, OwedFinite
<1> QED
  BY <1>3, <1>4

LEMMA PushStep ==
  ASSUME TypeOK, OwedInv, OwnCodes, PushInline
  PROVE  OwedInv'
<1>1. /\ Len(receive_inline_queue) \in Nat
      /\ Len(receive_inline_queue') = Len(receive_inline_queue) + 1
  BY DEF PushInline, TypeOK
<1>2. \A t \in Senders : pc'[t] = "taking" => t \in Owed'
  BY PushOwes DEF PushInline, OwedInv
<1> QED
  BY <1>1, <1>2, PushOwes, OwedFinite DEF OwedInv

\* Every other step.
LEMMA OtherStep ==
  ASSUME TypeOK, OwedInv,
         \/ \E c \in Codes : Receive(c)
         \/ LoopHead \/ ReceiveNothing \/ Reconnect \/ Flag \/ PushOuter
         \/ GetMessage \/ Disconnect \/ StopReceiver \/ UNCHANGED vars
  PROVE  OwedInv'
<1> USE MessageAssumption DEF TypeOK
<1>1. CASE Flag
  <2>1. Owed' \subseteq Owed
    BY <1>1 DEF Flag, Owed
  <2>2. \A s \in Senders : pc[s] = "taking" => Code[s] # msg
    BY <1>1 DEF Flag, MutexFree, Taking
  <2>3. \A s \in Senders : pc'[s] = "taking" => s \in Owed'
    BY <1>1, <2>2 DEF Flag, Owed, OwedInv
  <2> QED
    BY <1>1, <2>1, <2>3, NotMore DEF Flag
<1>2. CASE ~Flag
  <2>1. /\ UNCHANGED <<pc, processed, receive_inline_queue>>
        /\ rpc = "push" => UNCHANGED <<rpc, msg>>
        /\ rpc' = "push" => rpc = "push"
    BY <1>2 DEF Receive, LoopHead, ReceiveNothing, Reconnect, PushOuter, GetMessage,
                Disconnect, StopReceiver, vars, connection
  <2>2. Owed' = Owed
    BY <2>1 DEF Owed
  <2>3. \A s \in Senders : pc'[s] = "taking" => s \in Owed'
    BY <2>1, <2>2 DEF OwedInv
  <2> QED
    BY <2>1, <2>2, <2>3, NotMore
<1> QED
  BY <1>1, <1>2

\* Every flag set after a caller registered is followed by a push before that
\* caller can look.
LEMMA OwedCorrect ==
  ASSUME OwnCodes
  PROVE  Spec => []OwedInv
<1>1. Init => OwedInv
  <2> SUFFICES ASSUME Init PROVE OwedInv
    OBVIOUS
  <2>1. Owed = {} /\ \A s \in Senders : pc[s] # "taking"
    BY DEF Init, Owed
  <2>2. Len(receive_inline_queue) = 0 /\ Cardinality({}) = 0
    BY FS_EmptySet DEF Init
  <2> QED
    BY <2>1, <2>2 DEF OwedInv
<1>2. TypeOK /\ OwedInv /\ [Next]_vars => OwedInv'
  BY SenderStep, PushStep, OtherStep DEF Next, Receiver, Handle
<1> QED
  BY <1>1, <1>2, TypeCorrect, PTL DEF Spec

\* A caller whose wait_for() succeeded never finds receive_inline_queue empty,
\* for any number of callers with codes of their own.
THEOREM TakersCorrect ==
  ASSUME OwnCodes
  PROVE  Spec => []TakerFindsReply
<1>1. TypeOK /\ OwedInv => TakerFindsReply
  <2> SUFFICES ASSUME TypeOK, OwedInv, NEW s \in Senders, pc[s] = "taking",
                      receive_inline_queue = <<>>
               PROVE  FALSE
    BY DEF TakerFindsReply
  <2>1. s \in Owed
    BY DEF OwedInv
  <2>2. Cardinality(Owed) = 0
    BY OwedFinite DEF OwedInv
  <2> QED
    BY <2>1, <2>2, OwedFinite, FS_EmptySet
<1> QED
  BY <1>1, OwedCorrect, TypeCorrect, PTL

-----------------------------------------------------------------------------
(* Late replies                                                            *)

\* A step that leaves the queue alone and makes no caller owed a message.
LEMMA NoneMoreOwed ==
  ASSUME TypeOK, Owed' \subseteq Owed, UNCHANGED receive_inline_queue
  PROVE  Surplus' >= Surplus
<1>1. Cardinality(Owed') <= Cardinality(Owed) /\ Cardinality(Owed') \in Nat
  BY OwedFinite, FS_Subset, FS_CardinalityType
<1>2. Len(receive_inline_queue) \in Nat
  BY DEF TypeOK
<1> QED
  BY <1>1, <1>2, OwedFinite DEF Surplus

\* A caller takes a message on the account of its own reply only.
LEMMA TakesOwn ==
  ASSUME TypeOK, OwedInv, NEW s \in Senders, TakeReply(s)
  PROVE  Surplus' = Surplus
<1>1. s \in Owed
  BY DEF TakeReply, OwedInv
<1>2. Owed' = Owed \ {s}
  BY DEF TakeReply, Owed, TypeOK
<1>3. Cardinality(Owed') = Cardinality(Owed) - 1
  BY <1>1, <1>2, OwedFinite, FS_RemoveElement
<1>4. /\ Len(receive_inline_queue) \in Nat
      /\ Len(receive_inline_queue') = Len(receive_inline_queue) - 1
  BY DEF TakeReply, TypeOK
<1> QED
  BY <1>3, <1>4, OwedFinite DEF Surplus

\* A push is for one caller at most.
LEMMA PushesOne ==
  ASSUME TypeOK, OwnCodes, PushInline
  PROVE  Surplus' >= Surplus
<1>1. /\ Len(receive_inline_queue) \in Nat
      /\ Len(receive_inline_queue') = Len(receive_inline_queue) + 1
  BY DEF PushInline, TypeOK
<1>2. Cardinality(Owed') <= Cardinality(Owed) + 1 /\ Cardinality(Owed') \in Nat
  BY PushOwes
<1> QED
  BY <1>1, <1>2, OwedFinite DEF Surplus

\* Replies that nobody is told of any more stay in the queue for ever, for any
\* number of callers with codes of their own (AsyncPro.cpp:119): only clearing
\* the queue could bring answers and requests together again.
THEOREM SurplusCorrect ==
  ASSUME OwnCodes
  PROVE  Spec => SurplusStays
<1>1. TypeOK /\ OwedInv /\ [Next]_vars => Surplus' >= Surplus
  <2> SUFFICES ASSUME TypeOK, OwedInv, [Next]_vars PROVE Surplus' >= Surplus
    OBVIOUS
  <2>1. ASSUME NEW s \in Senders, Register(s) PROVE Surplus' >= Surplus
    <3>1. Owed' \subseteq Owed
      BY <2>1, MessageAssumption DEF Register, Owed, TypeOK
    <3> QED
      BY <2>1, <3>1, NoneMoreOwed DEF Register
  <2>2. ASSUME NEW s \in Senders, WaitEnds(s) PROVE Surplus' >= Surplus
    <3>1. Owed' \subseteq Owed
      BY <2>2 DEF WaitEnds, WaitSucceeds, WaitTimesOut, Owed, TypeOK
    <3> QED
      BY <2>2, <3>1, NoneMoreOwed DEF WaitEnds, WaitSucceeds, WaitTimesOut
  <2>3. ASSUME NEW s \in Senders, TakeReply(s) PROVE Surplus' >= Surplus
    <3>1. Surplus \in Int
      BY OwedFinite DEF Surplus, TypeOK
    <3> QED
      BY <2>3, <3>1, TakesOwn
  <2>4. CASE PushInline
    BY <2>4, PushesOne
  <2>5. CASE Flag
    <3>1. Owed' \subseteq Owed
      BY <2>5, MessageAssumption DEF Flag, Owed, TypeOK
    <3> QED
      BY <2>5, <3>1, NoneMoreOwed DEF Flag
  <2>6. CASE /\ UNCHANGED <<pc, processed, receive_inline_queue>>
             /\ rpc = "push" => UNCHANGED <<rpc, msg>>
             /\ rpc' = "push" => rpc = "push"
    <3>1. Owed' \subseteq Owed
      BY <2>6 DEF Owed
    <3> QED
      BY <2>6, <3>1, NoneMoreOwed
  <2>7. ASSUME \/ \E c \in Codes : Receive(c)
               \/ LoopHead \/ ReceiveNothing \/ Reconnect \/ PushOuter
               \/ GetMessage \/ Disconnect \/ StopReceiver \/ UNCHANGED vars
        PROVE  Surplus' >= Surplus
    BY <2>6, <2>7 DEF Receive, LoopHead, ReceiveNothing, Reconnect, PushOuter, GetMessage,
                      Disconnect, StopReceiver, vars, connection
  <2> QED
    BY <2>1, <2>2, <2>3, <2>4, <2>5, <2>7
       DEF Next, Sender, Receiver, Handle
<1>2. TypeOK /\ OwedInv /\ [Next]_vars => [Surplus' >= Surplus]_vars
  BY <1>1
<1> QED
  BY <1>2, OwedCorrect, TypeCorrect, PTL DEF Spec, SurplusStays

-----------------------------------------------------------------------------
(* The queues and the mutexes                                              *)

\* The receiver and the callers use both queues as bounded FIFOs, from their two
\* ends only, for any callers, codes and capacity.
THEOREM QueuesCorrect == Spec => QueuesAreFifos
<1> USE DEF InlineQueue!fifoVars, OuterQueue!fifoVars
<1>1. Init => InlineQueue!FifoInit /\ OuterQueue!FifoInit
  BY DEF Init, InlineQueue!FifoInit, OuterQueue!FifoInit
<1>2. TypeOK /\ [Next]_vars =>
        /\ [InlineQueue!FifoNext]_(InlineQueue!fifoVars)
        /\ [OuterQueue!FifoNext]_(OuterQueue!fifoVars)
  <2> SUFFICES ASSUME TypeOK, [Next]_vars
               PROVE  /\ [InlineQueue!FifoNext]_(InlineQueue!fifoVars)
                      /\ [OuterQueue!FifoNext]_(OuterQueue!fifoVars)
    OBVIOUS
  <2>1. msg \in Codes
    BY DEF TypeOK
  <2>2. \/ UNCHANGED receive_inline_queue
        \/ /\ receive_inline_queue # <<>>
           /\ receive_inline_queue' = Tail(receive_inline_queue)
        \/ /\ Len(receive_inline_queue) < QueueCap
           /\ receive_inline_queue' = Append(receive_inline_queue, msg)
    BY DEF Next, vars, connection, Sender, WaitEnds, Register, WaitSucceeds, WaitTimesOut,
           TakeReply, Receiver, Handle, LoopHead, Receive, ReceiveNothing, Reconnect, Flag,
           PushInline, PushOuter, GetMessage, Disconnect, StopReceiver
  <2>3. \/ UNCHANGED receive_msg_queue
        \/ receive_msg_queue # <<>> /\ receive_msg_queue' = Tail(receive_msg_queue)
        \/ /\ Len(receive_msg_queue) < QueueCap
           /\ receive_msg_queue' = Append(receive_msg_queue, msg)
    BY DEF Next, vars, connection, Sender, WaitEnds, Register, WaitSucceeds, WaitTimesOut,
           TakeReply, Receiver, Handle, LoopHead, Receive, ReceiveNothing, Reconnect, Flag,
           PushInline, PushOuter, GetMessage, Disconnect, StopReceiver
  <2>4. [InlineQueue!FifoNext]_(InlineQueue!fifoVars)
    BY <2>1, <2>2 DEF InlineQueue!FifoNext, InlineQueue!Put, InlineQueue!Take
  <2>5. [OuterQueue!FifoNext]_(OuterQueue!fifoVars)
    BY <2>1, <2>3 DEF OuterQueue!FifoNext, OuterQueue!Put, OuterQueue!Take
  <2> QED BY <2>4, <2>5
<1> QED
  BY <1>1, <1>2, TypeCorrect, PTL
     DEF Spec, QueuesAreFifos, InlineQueue!FifoSpec, OuterQueue!FifoSpec

\* With room in the queue nobody waits in a circle, for any number of callers with
\* codes of their own: the one way to block sendMessage() is to fill the queue
\* (AsyncPro.cpp:67).
THEOREM NoCircleCorrect ==
  ASSUME OwnCodes
  PROVE  Spec => []NoCircle
<1>1. TypeOK /\ TakerFindsReply => NoCircle
  BY DEF TypeOK, TakerFindsReply, NoCircle, SenderGoes, ReceiverGoes, MutexFree, Taking
<1>2. Spec => []TakerFindsReply
  BY TakersCorrect
<1> QED
  BY <1>1, <1>2, TypeCorrect, PTL

=============================================================================
