------------------------------ MODULE SafeQueue ------------------------------
(***************************************************************************)
(* SafeQueuee<T> (safe_quene.hpp), the bounded queue every pipeline of the *)
(* camera is built from.  One mutex guards the contents; two condition     *)
(* variables park the producers of a full queue and the consumers of an    *)
(* empty one.  A critical section is one step: everything between taking   *)
(* the mutex and releasing it, by leaving the block or by sleeping in      *)
(* wait().  What the code does after the unlock (read a waiting counter,   *)
(* notify) are steps of their own, because other threads run in between.   *)
(***************************************************************************)
EXTENDS Integers, Sequences, FiniteSets

CONSTANTS
  Producers,    (* threads that call push()                                *)
  Consumers,    (* threads that call pop(), with or without an out value   *)
  Controllers,  (* threads that call clear(), set_block(), set_maxsize()   *)
  InitMaxsize,  (* the pn_maxsize given to the constructor                 *)
  Sizes,        (* the arguments of set_maxsize() that are tried           *)
  MaxItems      (* bound: push() calls per producer                        *)

ASSUME ThreadAssumption ==
  /\ IsFiniteSet(Producers) /\ IsFiniteSet(Consumers)
  /\ Producers \cap Consumers = {}
  /\ Controllers \cap (Producers \cup Consumers) = {}

ASSUME SizeAssumption ==
  /\ InitMaxsize \in Nat \ {0}
  /\ Sizes \subseteq Nat
  /\ MaxItems \in Nat

VARIABLES
  mc_queue,         (* the contents, oldest first                          *)
  mn_maxsize,       (* the capacity                                        *)
  mb_block,         (* TRUE: wait when full or empty; FALSE: return false  *)
  mb_push_waiting,  (* the two atomic counters read after the unlock       *)
  mb_pop_waiting,
  pc,               (* where each thread is in its call                    *)
  sent              (* push() calls made by each producer                  *)

vars == <<mc_queue, mn_maxsize, mb_block, mb_push_waiting, mb_pop_waiting,
          pc, sent>>

Threads == Producers \cup Consumers \cup Controllers

\* The n-th value a producer pushes; values are told apart, nothing more.
Items == Producers \X (1..MaxItems)

(***************************************************************************)
(* The threads at some place of the code.  A sleeping thread is inside     *)
(* wait(), a woken one was notified and must take the mutex again, and a   *)
(* signalling one is past its unlock and has not yet notified.             *)
(***************************************************************************)
At(T, places) == {t \in T : pc[t] \in places}

AsleepPushers == At(Producers, {"push_wait"})
AsleepPoppers == At(Consumers, {"pop_wait"})
WokenPushers  == At(Producers, {"push_woken"})
WokenPoppers  == At(Consumers, {"pop_woken"})
WaitingPushers == At(Producers, {"push_wait", "push_woken"})
WaitingPoppers == At(Consumers, {"pop_wait", "pop_woken"})
SignalsToPop  == At(Producers, {"push_signal", "push_notify"})
SignalsToPush == At(Consumers, {"pop_signal", "pop_notify"})

\* Mutant: the limit is tested with > instead of >=.
FullOffByOne == Len(mc_queue) > mn_maxsize

Full == Len(mc_queue) >= mn_maxsize

Init ==
  /\ mc_queue = <<>>
  /\ mn_maxsize = InitMaxsize
  /\ mb_block = TRUE
  /\ mb_push_waiting = 0
  /\ mb_pop_waiting = 0
  /\ pc = [t \in Threads |-> "idle"]
  /\ sent = [p \in Producers |-> 0]

-----------------------------------------------------------------------------
(* push()                                                                  *)

\* Mutant: push() goes to sleep without counting itself as waiting.
PushBodyUncounted(p, waiting, x) ==
  /\ \/ /\ Full /\ mb_block
        /\ pc' = [pc EXCEPT ![p] = "push_wait"]
        /\ UNCHANGED mc_queue
     \/ /\ Full /\ ~mb_block
        /\ pc' = [pc EXCEPT ![p] = "idle"]
        /\ UNCHANGED mc_queue
     \/ /\ ~Full
        /\ pc' = [pc EXCEPT ![p] = "push_signal"]
        /\ mc_queue' = Append(mc_queue, x)
  /\ mb_push_waiting' = waiting
  /\ UNCHANGED <<mn_maxsize, mb_block, mb_pop_waiting>>

\* The critical section of push() from the loop test on, with `waiting` the
\* value of mb_push_waiting at that moment and x the value to insert.
PushBody(p, waiting, x) ==
  /\ \/ /\ Full /\ mb_block
        /\ mb_push_waiting' = waiting + 1
        /\ pc' = [pc EXCEPT ![p] = "push_wait"]
        /\ UNCHANGED mc_queue
     \/ /\ Full /\ ~mb_block
        /\ mb_push_waiting' = waiting
        /\ pc' = [pc EXCEPT ![p] = "idle"]
        /\ UNCHANGED mc_queue
     \/ /\ ~Full
        /\ mb_push_waiting' = waiting
        /\ pc' = [pc EXCEPT ![p] = "push_signal"]
        /\ mc_queue' = Append(mc_queue, x)
  /\ UNCHANGED <<mn_maxsize, mb_block, mb_pop_waiting>>

Push(p) ==
  /\ pc[p] = "idle"
  /\ sent[p] < MaxItems
  /\ sent' = [sent EXCEPT ![p] = @ + 1]
  /\ PushBody(p, mb_push_waiting, <<p, sent[p] + 1>>)

\* Mutant: the counter is not decremented on the way out of wait().
PushResumeKeepsCount(p) ==
  /\ pc[p] = "push_woken"
  /\ PushBody(p, mb_push_waiting, <<p, sent[p]>>)
  /\ UNCHANGED sent

\* wait() returns with the mutex held; the loop tests again.
PushResume(p) ==
  /\ pc[p] = "push_woken"
  /\ PushBody(p, mb_push_waiting - 1, <<p, sent[p]>>)
  /\ UNCHANGED sent

\* Mutant: the wrong one of the two counters decides whether to notify.
PushSignalWrongCounter(p) ==
  /\ pc[p] = "push_signal"
  /\ pc' = [pc EXCEPT ![p] = IF mb_push_waiting > 0 THEN "push_notify" ELSE "idle"]
  /\ UNCHANGED <<mc_queue, mn_maxsize, mb_block, mb_push_waiting,
                 mb_pop_waiting, sent>>

\* After the unlock: notify only if a consumer is counted as waiting.
PushSignal(p) ==
  /\ pc[p] = "push_signal"
  /\ pc' = [pc EXCEPT ![p] = IF mb_pop_waiting > 0 THEN "push_notify" ELSE "idle"]
  /\ UNCHANGED <<mc_queue, mn_maxsize, mb_block, mb_push_waiting,
                 mb_pop_waiting, sent>>

\* notify_one(): any one sleeper is woken, or nobody if none sleeps.
PushNotify(p) ==
  /\ pc[p] = "push_notify"
  /\ \/ \E c \in AsleepPoppers :
          pc' = [pc EXCEPT ![p] = "idle", ![c] = "pop_woken"]
     \/ /\ AsleepPoppers = {}
        /\ pc' = [pc EXCEPT ![p] = "idle"]
  /\ UNCHANGED <<mc_queue, mn_maxsize, mb_block, mb_push_waiting,
                 mb_pop_waiting, sent>>

-----------------------------------------------------------------------------
(* pop(), both overloads: they differ only in what they do with the value. *)

PopBody(c, waiting) ==
  /\ \/ /\ mc_queue = <<>> /\ mb_block
        /\ mb_pop_waiting' = waiting + 1
        /\ pc' = [pc EXCEPT ![c] = "pop_wait"]
        /\ UNCHANGED mc_queue
     \/ /\ mc_queue = <<>> /\ ~mb_block
        /\ mb_pop_waiting' = waiting
        /\ pc' = [pc EXCEPT ![c] = "idle"]
        /\ UNCHANGED mc_queue
     \/ /\ mc_queue # <<>>
        /\ mb_pop_waiting' = waiting
        /\ pc' = [pc EXCEPT ![c] = "pop_signal"]
        /\ mc_queue' = Tail(mc_queue)
  /\ UNCHANGED <<mn_maxsize, mb_block, mb_push_waiting, sent>>

Pop(c) ==
  /\ pc[c] = "idle"
  /\ PopBody(c, mb_pop_waiting)

PopResume(c) ==
  /\ pc[c] = "pop_woken"
  /\ PopBody(c, mb_pop_waiting - 1)

PopSignal(c) ==
  /\ pc[c] = "pop_signal"
  /\ pc' = [pc EXCEPT ![c] = IF mb_push_waiting > 0 THEN "pop_notify" ELSE "idle"]
  /\ UNCHANGED <<mc_queue, mn_maxsize, mb_block, mb_push_waiting,
                 mb_pop_waiting, sent>>

PopNotify(c) ==
  /\ pc[c] = "pop_notify"
  /\ \/ \E p \in AsleepPushers :
          pc' = [pc EXCEPT ![c] = "idle", ![p] = "push_woken"]
     \/ /\ AsleepPushers = {}
        /\ pc' = [pc EXCEPT ![c] = "idle"]
  /\ UNCHANGED <<mc_queue, mn_maxsize, mb_block, mb_push_waiting,
                 mb_pop_waiting, sent>>

-----------------------------------------------------------------------------
(* clear(), set_block(), set_maxsize()                                     *)

\* Mutant: clear() forgets the notify_all.
ClearSilently(k) ==
  /\ pc[k] = "idle"
  /\ mc_queue' = <<>>
  /\ UNCHANGED <<mn_maxsize, mb_block, mb_push_waiting, mb_pop_waiting, pc, sent>>

Clear(k) ==
  /\ pc[k] = "idle"
  /\ mc_queue' = <<>>
  /\ pc' = [pc EXCEPT ![k] = "wake_pushers"]
  /\ UNCHANGED <<mn_maxsize, mb_block, mb_push_waiting, mb_pop_waiting, sent>>

SetBlock(k) ==
  /\ pc[k] = "idle"
  /\ mb_block' = ~mb_block
  /\ pc' = [pc EXCEPT ![k] = "wake_poppers"]
  /\ UNCHANGED <<mc_queue, mn_maxsize, mb_push_waiting, mb_pop_waiting, sent>>

\* notify_all() on one side: every sleeper in `asleep` goes to `place`.
WakeAll(k, asleep, place, next) ==
  /\ pc' = [t \in Threads |-> IF t \in asleep THEN place
                              ELSE IF t = k THEN next ELSE pc[t]]
  /\ UNCHANGED <<mc_queue, mn_maxsize, mb_block, mb_push_waiting,
                 mb_pop_waiting, sent>>

WakePoppers(k) ==
  /\ pc[k] = "wake_poppers"
  /\ WakeAll(k, AsleepPoppers, "pop_woken", "wake_pushers")

WakePushers(k) ==
  /\ pc[k] = "wake_pushers"
  /\ WakeAll(k, AsleepPushers, "push_woken", "idle")

\* Refused below the current size or at zero; no waiting producer is told.
SetMaxsize(k, n) ==
  /\ pc[k] = "idle"
  /\ n >= Len(mc_queue) /\ n > 0
  /\ mn_maxsize' = n
  /\ UNCHANGED <<mc_queue, mb_block, mb_push_waiting, mb_pop_waiting, pc, sent>>

\* A condition variable may wake a sleeper that nobody notified.
SpuriousWakeup(t) ==
  /\ \/ pc[t] = "push_wait" /\ pc' = [pc EXCEPT ![t] = "push_woken"]
     \/ pc[t] = "pop_wait" /\ pc' = [pc EXCEPT ![t] = "pop_woken"]
  /\ UNCHANGED <<mc_queue, mn_maxsize, mb_block, mb_push_waiting,
                 mb_pop_waiting, sent>>

-----------------------------------------------------------------------------
ProducerStep(p) == Push(p) \/ PushResume(p) \/ PushSignal(p) \/ PushNotify(p)

ConsumerStep(c) == Pop(c) \/ PopResume(c) \/ PopSignal(c) \/ PopNotify(c)

ControllerStep(k) ==
  \/ Clear(k)
  \/ SetBlock(k)
  \/ WakePoppers(k)
  \/ WakePushers(k)
  \/ \E n \in Sizes : SetMaxsize(k, n)

Next ==
  \/ \E p \in Producers : ProducerStep(p)
  \/ \E c \in Consumers : ConsumerStep(c)
  \/ \E k \in Controllers : ControllerStep(k)
  \/ \E t \in Producers \cup Consumers : SpuriousWakeup(t)

Spec == Init /\ [][Next]_vars

\* A thread inside a call keeps running, and the consumer threads of the
\* camera call pop() in an endless loop.  Nothing makes a producer call push().
Fairness ==
  /\ \A p \in Producers : WF_vars(PushResume(p) \/ PushSignal(p) \/ PushNotify(p))
  /\ \A c \in Consumers : WF_vars(ConsumerStep(c))
  /\ \A k \in Controllers : WF_vars(WakePoppers(k) \/ WakePushers(k))

FairSpec == Spec /\ Fairness

-----------------------------------------------------------------------------
(* Properties                                                              *)

ShapeOK ==
  /\ mc_queue \in Seq(Items)
  /\ mn_maxsize \in Nat \ {0}
  /\ mb_block \in BOOLEAN
  /\ pc \in [Threads -> {"idle", "push_wait", "push_woken", "push_signal",
                         "push_notify", "pop_wait", "pop_woken", "pop_signal",
                         "pop_notify", "wake_poppers", "wake_pushers"}]
  /\ \A p \in Producers :
       pc[p] \in {"idle", "push_wait", "push_woken", "push_signal", "push_notify"}
  /\ \A c \in Consumers :
       pc[c] \in {"idle", "pop_wait", "pop_woken", "pop_signal", "pop_notify"}
  /\ \A k \in Controllers : pc[k] \in {"idle", "wake_poppers", "wake_pushers"}
  /\ sent \in [Producers -> 0..MaxItems]
  /\ \A p \in Producers : pc[p] # "idle" => sent[p] \in 1..MaxItems

\* Every thread is at a place of its own kind, and no way into and out of wait()
\* takes a waiting counter (an int32 in the code) below zero.
TypeOK ==
  /\ ShapeOK
  /\ mb_push_waiting \in Nat
  /\ mb_pop_waiting \in Nat

\* No interleaving of pushes, wake-ups and resizings overfills the queue: a
\* producer that slept must find room again, not assume it.
CapacityRespected == Len(mc_queue) <= mn_maxsize

\* Each atomic counter counts exactly the threads that are inside wait() or on
\* their way out of it, so a zero read after the unlock means that nobody sleeps.
WaitingCountersExact ==
  /\ mb_push_waiting = Cardinality(WaitingPushers)
  /\ mb_pop_waiting = Cardinality(WaitingPoppers)

\* No wake-up of a consumer is lost: while one sleeps, every element in the
\* queue has a notification under way or a consumer already woken for it.
NoStrandedPopper ==
  AsleepPoppers # {} =>
    Len(mc_queue) <= Cardinality(SignalsToPop) + Cardinality(WokenPoppers)

\* The same for producers and free places, unless a notify_all is under way.
\* It needs a capacity that is never raised.
NoStrandedPusher ==
  AsleepPushers # {} =>
    \/ mn_maxsize - Len(mc_queue)
         <= Cardinality(SignalsToPush) + Cardinality(WokenPushers)
    \/ At(Controllers, {"wake_pushers"}) # {}

\* Neither side's counter, read after the unlock, ever leaves anybody asleep who
\* could go on.
NobodyStranded == NoStrandedPopper /\ NoStrandedPusher

\* The mutex and the condition variables implement a bounded FIFO.
Fifo == INSTANCE BoundedFifo WITH
          Elements <- Items, InitialLimit <- InitMaxsize,
          fifo <- mc_queue, limit <- mn_maxsize

ImplementsFifo == Fifo!FifoSpec

\* Every element pushed leaves the queue again: a consumer takes it, or clear()
\* drops it.  No schedule leaves it behind while the consumers sleep.
EveryItemLeaves ==
  \A x \in Items :
    (\E i \in DOMAIN mc_queue : mc_queue[i] = x)
      ~> ~(\E i \in DOMAIN mc_queue : mc_queue[i] = x)

=============================================================================
