---------------------------- MODULE MessageHandler ----------------------------
(***************************************************************************)
(* Requests and replies over MQTT (MSG/AsyncPro.cpp).  sendMessage()       *)
(* publishes a request and waits, with a time limit, for the flag of its   *)
(* code; the receiver thread sets that flag and puts the message into one  *)
(* queue shared by all codes, from which the woken caller takes the oldest *)
(* message.  What the broker delivers is up to the environment: replies    *)
(* come in time, late, twice, never, or before the caller has registered.  *)
(*                                                                         *)
(* The mutex of a code's ConditionData is held by a caller that is taking  *)
(* its message, and by the receiver from the flag to the end of the push.  *)
(* The two queues are the bounded FIFOs SafeQueue implements, blocking.    *)
(***************************************************************************)
EXTENDS Integers, Sequences, FiniteSets

CONSTANTS
  Senders,       (* threads inside sendMessage() with is_wait set           *)
  Codes,         (* the codes of messages                                   *)
  Code,          (* the request code each sender uses                       *)
  QueueCap       (* capacity of both queues (64)                            *)

ASSUME MessageAssumption ==
  /\ IsFiniteSet(Senders)
  /\ Code \in [Senders -> Codes]
  /\ QueueCap \in Nat \ {0}

VARIABLES
  pc,                     (* where each sender is                           *)
  condition_map,          (* the codes that have a ConditionData            *)
  processed,              (* their flags                                    *)
  receive_inline_queue,   (* messages of registered codes                   *)
  receive_msg_queue,      (* the others, for GetMessageThread()             *)
  rpc, msg,               (* place of the receiver, and the code it handles *)
  stop_flag,
  connected, topics       (* the MQTT connection and its subscriptions      *)

connection == <<stop_flag, connected, topics>>
vars == <<pc, condition_map, processed, receive_inline_queue,
          receive_msg_queue, rpc, msg, stop_flag, connected, topics>>

\* MessageHandler::Init(): if the connection fails there is no receiver, and
\* MessageManager::Init() does not look; the subscriptions may fail unseen.
Init ==
  /\ pc = [s \in Senders |-> "idle"]
  /\ condition_map = {}
  /\ processed = [c \in Codes |-> FALSE]
  /\ receive_inline_queue = <<>> /\ receive_msg_queue = <<>>
  /\ msg \in Codes
  /\ stop_flag = FALSE
  /\ \/ connected = TRUE /\ rpc = "head"    /\ topics \in SUBSET {"pre", "vo"}
     \/ connected = FALSE /\ rpc = "stopped" /\ topics = {}

Taking(c) == \E s \in Senders : pc[s] = "taking" /\ Code[s] = c
MutexFree(c) == ~Taking(c) /\ ~(rpc = "push" /\ msg = c)

-----------------------------------------------------------------------------
(* sendMessage()                                                           *)

\* Mutant: the flag keeps its value from the last call.
RegisterKeepsFlag(s) ==
  /\ pc[s] = "idle"
  /\ condition_map' = condition_map \cup {Code[s]}
  /\ pc' = [pc EXCEPT ![s] = "waiting"]
  /\ UNCHANGED <<processed, receive_inline_queue, receive_msg_queue, rpc, msg,
                 connection>>

\* The request is published first; then, under map_mutex and without the
\* mutex of the code, its ConditionData is made or reset.
Register(s) ==
  /\ pc[s] = "idle"
  /\ condition_map' = condition_map \cup {Code[s]}
  /\ processed' = [processed EXCEPT ![Code[s]] = FALSE]
  /\ pc' = [pc EXCEPT ![s] = "waiting"]
  /\ UNCHANGED <<receive_inline_queue, receive_msg_queue, rpc, msg, connection>>

\* wait_for() finds the flag set, before it sleeps, when notified or when the
\* time is up, and holds the mutex again.
WaitSucceeds(s) ==
  /\ pc[s] = "waiting"
  /\ MutexFree(Code[s]) /\ processed[Code[s]]
  /\ pc' = [pc EXCEPT ![s] = "taking"]
  /\ UNCHANGED <<condition_map, processed, receive_inline_queue,
                 receive_msg_queue, rpc, msg, connection>>

\* Mutant: when the time is up the wait begins again.
WaitStartsAgain(s) ==
  /\ pc[s] = "waiting"
  /\ MutexFree(Code[s]) /\ ~processed[Code[s]]
  /\ UNCHANGED vars

\* The time is up and the flag is not set: return 0.
WaitTimesOut(s) ==
  /\ pc[s] = "waiting"
  /\ MutexFree(Code[s]) /\ ~processed[Code[s]]
  /\ pc' = [pc EXCEPT ![s] = "idle"]
  /\ UNCHANGED <<condition_map, processed, receive_inline_queue,
                 receive_msg_queue, rpc, msg, connection>>

\* The oldest message, whatever its code; pop() waits while there is none,
\* with the mutex held.
TakeReply(s) ==
  /\ pc[s] = "taking"
  /\ receive_inline_queue # <<>>
  /\ receive_inline_queue' = Tail(receive_inline_queue)
  /\ pc' = [pc EXCEPT ![s] = "idle"]
  /\ UNCHANGED <<condition_map, processed, receive_msg_queue, rpc, msg, connection>>

-----------------------------------------------------------------------------
(* receiveMessages() and GetMessageThread()                                *)

\* The head of the loop, where stopReceiver() ends it.
LoopHead ==
  /\ rpc = "head"
  /\ rpc' = IF stop_flag THEN "stopped" ELSE "receive"
  /\ UNCHANGED <<pc, condition_map, processed, receive_inline_queue,
                 receive_msg_queue, msg, connection>>

\* A message arrives and its code is looked up; one without a code has
\* whatever code the memory held.
Receive(c) ==
  /\ rpc = "receive" /\ connected /\ topics # {}
  /\ msg' = c
  /\ rpc' = IF c \in condition_map THEN "flag" ELSE "outer"
  /\ UNCHANGED <<pc, condition_map, processed, receive_inline_queue,
                 receive_msg_queue, connection>>

\* Nothing arrives within 200 ms, or a message that does not parse.
ReceiveNothing ==
  /\ rpc = "receive" /\ connected
  /\ rpc' = "head"
  /\ UNCHANGED <<pc, condition_map, processed, receive_inline_queue,
                 receive_msg_queue, msg, connection>>

Flag ==
  /\ rpc = "flag" /\ MutexFree(msg)
  /\ processed' = [processed EXCEPT ![msg] = TRUE]
  /\ rpc' = "push"
  /\ UNCHANGED <<pc, condition_map, receive_inline_queue, receive_msg_queue, msg,
                 connection>>

\* Mutant: the queue has no limit.
PushInlineUnbounded ==
  /\ rpc = "push"
  /\ receive_inline_queue' = Append(receive_inline_queue, msg)
  /\ rpc' = "head"
  /\ UNCHANGED <<pc, condition_map, processed, receive_msg_queue, msg, connection>>

\* push() waits while the queue is full, with the mutex held; then notify_one().
PushInline ==
  /\ rpc = "push" /\ Len(receive_inline_queue) < QueueCap
  /\ receive_inline_queue' = Append(receive_inline_queue, msg)
  /\ rpc' = "head"
  /\ UNCHANGED <<pc, condition_map, processed, receive_msg_queue, msg, connection>>

PushOuter ==
  /\ rpc = "outer" /\ Len(receive_msg_queue) < QueueCap
  /\ receive_msg_queue' = Append(receive_msg_queue, msg)
  /\ rpc' = "head"
  /\ UNCHANGED <<pc, condition_map, processed, receive_inline_queue, msg, connection>>

\* GetMessageThread() takes the messages nobody asked for and drops them.
GetMessage ==
  /\ receive_msg_queue # <<>>
  /\ receive_msg_queue' = Tail(receive_msg_queue)
  /\ UNCHANGED <<pc, condition_map, processed, receive_inline_queue, rpc, msg,
                 connection>>

Disconnect ==
  /\ connected
  /\ connected' = FALSE /\ topics' = {}
  /\ UNCHANGED <<pc, condition_map, processed, receive_inline_queue,
                 receive_msg_queue, rpc, msg, stop_flag>>

\* mqtt_connect() may fail and be tried again on the next pass; only one of the
\* two topics is subscribed again, and that result is not looked at either.
Reconnect ==
  /\ rpc = "receive" /\ ~connected
  /\ \/ UNCHANGED <<connected, topics>>
     \/ connected' = TRUE /\ topics' \in {{}, {"pre"}}
  /\ rpc' = "head"
  /\ UNCHANGED <<pc, condition_map, processed, receive_inline_queue,
                 receive_msg_queue, msg, stop_flag>>

StopReceiver ==
  /\ ~stop_flag
  /\ stop_flag' = TRUE
  /\ UNCHANGED <<pc, condition_map, processed, receive_inline_queue,
                 receive_msg_queue, rpc, msg, connected, topics>>

-----------------------------------------------------------------------------
WaitEnds(s) == WaitSucceeds(s) \/ WaitTimesOut(s)
Sender(s) == Register(s) \/ WaitEnds(s) \/ TakeReply(s)
Handle == Flag \/ PushInline \/ PushOuter
Receiver ==
  \/ LoopHead
  \/ (\E c \in Codes : Receive(c)) \/ ReceiveNothing \/ Reconnect
  \/ Handle

Next ==
  \/ \E s \in Senders : Sender(s)
  \/ Receiver
  \/ GetMessage
  \/ Disconnect \/ StopReceiver

Spec == Init /\ [][Next]_vars

(***************************************************************************)
(* The threads keep running.  A caller contends with the receiver for the  *)
(* mutex of its code; the receiver sleeps 20 ms after every message, so    *)
(* that a mutex that is free again and again is taken.                     *)
(***************************************************************************)
Fairness ==
  /\ \A s \in Senders : SF_vars(WaitEnds(s)) /\ WF_vars(TakeReply(s))
  /\ SF_vars(Flag)
  /\ WF_vars(PushInline \/ PushOuter)
  /\ WF_vars(GetMessage)

FairSpec == Spec /\ Fairness

-----------------------------------------------------------------------------
(* Properties                                                              *)

TypeOK ==
  /\ pc \in [Senders -> {"idle", "waiting", "taking"}]
  /\ condition_map \subseteq Codes
  /\ processed \in [Codes -> BOOLEAN]
  /\ receive_inline_queue \in Seq(Codes) /\ Len(receive_inline_queue) <= QueueCap
  /\ receive_msg_queue \in Seq(Codes) /\ Len(receive_msg_queue) <= QueueCap
  /\ rpc \in {"head", "receive", "flag", "push", "outer", "stopped"}
  /\ msg \in Codes
  /\ stop_flag \in BOOLEAN /\ connected \in BOOLEAN
  /\ topics \subseteq {"pre", "vo"}

\* A caller that was told of a reply finds a message to take, although others
\* take from the same queue and flags and queue change in different critical
\* sections; if it did not, it would wait in pop() without a time limit and
\* with the mutex the receiver needs.  No two callers may share a code.
TakerFindsReply ==
  \A s \in Senders : pc[s] = "taking" => receive_inline_queue # <<>>

\* The callers for which a message is in the queue: their flag was set since
\* they registered, and the push that follows is done.
Owed ==
  {s \in Senders : /\ pc[s] # "idle" /\ processed[Code[s]]
                   /\ ~(rpc = "push" /\ msg = Code[s])}

\* The messages in the queue beyond those: replies to callers that gave up, or
\* second replies.
Surplus == Len(receive_inline_queue) - Cardinality(Owed)

\* A reply that came too late, or a second time, never leaves the queue on its
\* own account: no step, not even a restart of the call that gave up or a loss
\* of the connection, brings callers back to answers as old as their requests.
SurplusStays == [][Surplus' >= Surplus]_vars

\* Every sendMessage() returns, its time limit is kept, whatever is lost, late
\* or repeated, unless the queue has filled up with replies nobody waited for:
\* then the receiver waits for room with the mutex of a code, for ever.
OnlyAFullQueueBlocks ==
  \A s \in Senders :
    <>[](pc[s] # "idle") => <>[](Len(receive_inline_queue) = QueueCap)

\* The two queues are used as the queue class promises to work.
InlineQueue == INSTANCE BoundedFifo WITH
  Elements <- Codes, InitialLimit <- QueueCap,
  fifo <- receive_inline_queue, limit <- QueueCap
OuterQueue == INSTANCE BoundedFifo WITH
  Elements <- Codes, InitialLimit <- QueueCap,
  fifo <- receive_msg_queue, limit <- QueueCap

QueuesAreFifos == InlineQueue!FifoSpec /\ OuterQueue!FifoSpec

\* Each thread can take its next step; a sender that waits may also have to wait
\* for its time limit.
SenderGoes(s) ==
  \/ pc[s] = "waiting" /\ MutexFree(Code[s])
  \/ pc[s] = "taking" /\ receive_inline_queue # <<>>
ReceiverGoes ==
  \/ rpc = "flag" /\ MutexFree(msg)
  \/ rpc = "push" /\ Len(receive_inline_queue) < QueueCap

\* With room in the queue no circle of waiting closes between the mutexes of the
\* codes and the queue: a caller can go on, or whoever has the mutex it waits for
\* can, and so can a receiver that has looked up a code or whoever it waits for.
NoCircle ==
  Len(receive_inline_queue) < QueueCap =>
    /\ \A s \in Senders : pc[s] # "idle" =>
         \/ SenderGoes(s)
         \/ \E t \in Senders : Code[t] = Code[s] /\ pc[t] = "taking" /\ SenderGoes(t)
         \/ rpc = "push" /\ msg = Code[s] /\ ReceiverGoes
    /\ rpc \in {"flag", "push"} =>
         \/ ReceiverGoes
         \/ \E t \in Senders : Code[t] = msg /\ pc[t] = "taking" /\ SenderGoes(t)

=============================================================================
