------------------------- MODULE InfraredImageProofs -------------------------
(***************************************************************************)
(* Proofs about InfraredImage for any settings and values.  The shape of   *)
(* the call in progress (CallInv) says which of its steps are done; each   *)
(* property is then strengthened to say what holds between those steps.    *)
(***************************************************************************)
EXTENDS InfraredImage, TLAPS

Todos == {<<"camera", "store", "cache">>, <<"store", "cache">>, <<"cache">>,
          <<"camera", "store">>, <<"store">>, <<"store", "camera">>, <<"camera">>}

CallInv ==
  /\ held = Free \/
       /\ held \in [by : {"user", "load"}, setting : Settings, value : Values,
                    todo : Todos]
       /\ \/ /\ Current \in Controlled \cup Primed
             /\ held.todo \in {<<"camera", "store", "cache">>, <<"store", "cache">>,
                               <<"cache">>}
          \/ Current \in Kept /\ held.todo \in {<<"store", "cache">>, <<"cache">>}
          \/ Current \in Serial /\ held.todo \in {<<"camera", "store">>, <<"store">>}
          \/ Current \in Threshold /\ held.todo \in {<<"store", "camera">>, <<"camera">>}
          \/ Current \in Commands /\ held.todo = <<"camera">>
  /\ load \in [at : 0..(Last + 1), pc : {"read", "prime", "arg", "call"},
               value : Values \cup {NoValue}]
  /\ load.pc # "read" =>
       /\ load.at \in 1..Last
       /\ LoadOrder[load.at] \in Settings /\ load.value \in Values
       /\ held.by # "load"
       /\ load.pc \in {"prime", "arg"} => LoadOrder[load.at] \in Primed
       /\ load.pc = "arg" =>
            /\ LoadOrder[load.at] \in known
            /\ ~EarlyUsers => load.value = member[LoadOrder[load.at]]
       /\ ~EarlyUsers => held = Free
  /\ held.by = "load" => load.at \in 1..(Last + 1)
  /\ ~EarlyUsers /\ ~Loaded => held.by # "user"

TypeInv == TypeOK /\ CallInv

LEMMA FreeFacts ==
  /\ Free.by = "nobody" /\ Free.setting = "none" /\ Free.value = NoValue
  /\ Free.todo = <<>>
BY DEF Free

LEMMA OrderFacts == \A i \in 1..Last :
  /\ LoadOrder[i] \in Controlled \cup Primed
  /\ \A j \in 1..Last : i # j => LoadOrder[i] # LoadOrder[j]
BY DEF LoadOrder, Last, Controlled, Primed

LEMMA KindFacts == ASSUME NEW s \in Settings PROVE
  /\ s \in Controlled \cup Primed => Steps(s) = <<"camera", "store", "cache">>
  /\ s \in Kept => Steps(s) = <<"store", "cache">>
  /\ s \in Serial => Steps(s) = <<"camera", "store">>
  /\ s \in Threshold => Steps(s) = <<"store", "camera">>
  /\ s \in Commands => Steps(s) = <<"camera">>
  /\ s \in Controlled \cup Primed \cup Kept \cup Serial \cup Threshold \cup Commands
BY InfraredAssumption
   DEF InfraredAssumption, Steps, Controlled, Primed, Kept, Serial, Threshold, Commands,
       Cached

LEMMA Apart ==
  /\ Controlled \cap (Primed \cup Kept \cup Serial \cup Threshold \cup Commands) = {}
  /\ Primed \cap (Kept \cup Serial \cup Threshold \cup Commands) = {}
  /\ Kept \cap (Serial \cup Threshold \cup Commands) = {}
  /\ Serial \cap (Threshold \cup Commands) = {}
  /\ Threshold \cap Commands = {}
  /\ "none" \notin Controlled \cup Primed \cup Kept \cup Serial \cup Threshold \cup Commands
BY DEF Controlled, Primed, Kept, Serial, Threshold, Commands

\* Reading a value back keeps its whole part, and changes it once only.
LEMMA ReadFacts == ASSUME NEW s, NEW v \in Values PROVE
  /\ ReadBack(s, v) \in Values
  /\ ReadBack(s, ReadBack(s, v)) = ReadBack(s, v)
  /\ s \in Serial => ReadBack(s, v) = v
<1>1. v \in Nat /\ Whole(v) \in Values
  BY InfraredAssumption DEF InfraredAssumption
<1>2. Whole(Whole(v)) = Whole(v)
  BY <1>1 DEF Whole
<1> QED BY <1>1, <1>2 DEF ReadBack, Serial

\* What the file holds, read with its default, is a value, and read whole.
LEMMA StoredType == ASSUME ini \in [Settings -> Values \cup {NoValue}], NEW s \in Settings
  PROVE Stored(s) \in Values /\ ReadBack(s, Stored(s)) = Stored(s)
<1>1. Default \in Values /\ ReadBack(s, Default) = Default
  BY InfraredAssumption DEF InfraredAssumption, ReadBack
<1>2. ini[s] # NoValue => ini[s] \in Values
  OBVIOUS
<1> QED BY <1>1, <1>2, ReadFacts DEF Stored

\* The three ways a step of a call leaves it.
LEMMA TodoFacts == ASSUME CallInv, held # Free PROVE
  /\ At("camera") =>
       \/ Current \in Controlled \cup Primed /\ Next1 = <<"store", "cache">>
       \/ Current \in Serial /\ Next1 = <<"store">>
       \/ Current \in Threshold \cup Commands /\ Next1 = <<>>
  /\ At("store") =>
       \/ Current \in Controlled \cup Primed \cup Kept /\ Next1 = <<"cache">>
       \/ Current \in Serial /\ Next1 = <<>>
       \/ Current \in Threshold /\ Next1 = <<"camera">>
  /\ At("cache") => Current \in Controlled \cup Primed \cup Kept /\ Next1 = <<>>
  /\ At("camera") \/ At("store") \/ At("cache")
<1> DEFINE todo == held.todo
<1>1. CASE todo = <<"camera", "store", "cache">>
  BY <1>1, Apart DEF CallInv, At, Next1
<1>2. CASE todo = <<"store", "cache">>
  BY <1>2, Apart DEF CallInv, At, Next1
<1>3. CASE todo = <<"cache">>
  BY <1>3, Apart DEF CallInv, At, Next1
<1>4. CASE todo = <<"camera", "store">>
  BY <1>4, Apart DEF CallInv, At, Next1
<1>5. CASE todo = <<"store">>
  BY <1>5, Apart DEF CallInv, At, Next1
<1>6. CASE todo = <<"store", "camera">>
  BY <1>6, Apart DEF CallInv, At, Next1
<1>7. CASE todo = <<"camera">>
  BY <1>7, Apart DEF CallInv, At, Next1
<1> QED BY <1>1, <1>2, <1>3, <1>4, <1>5, <1>6, <1>7 DEF CallInv

-----------------------------------------------------------------------------
(* Type correctness                                                        *)

LEMMA NonEmpty == ASSUME NEW s \in Todos PROVE s # <<>>
BY DEF Todos

LEMMA StepsTodo == ASSUME NEW s \in Settings PROVE Steps(s) \in Todos
BY KindFacts DEF Todos

LEMMA AdvanceCall == ASSUME TypeInv, held # Free, Advance, NEW step, At(step),
                            step \in {"camera", "store", "cache"}
  PROVE /\ \/ held' = Free
           \/ /\ held' \in [by : {"user", "load"}, setting : Settings, value : Values,
                            todo : Todos]
              /\ held'.by = held.by /\ held'.setting = held.setting
              /\ held'.value = held.value /\ held'.todo = Next1
        /\ held' = Free <=> Next1 = <<>>
<1>1. held \in [by : {"user", "load"}, setting : Settings, value : Values, todo : Todos]
  BY DEF TypeInv, CallInv
<1>2. CASE Next1 = <<>>
  BY <1>2 DEF Advance
<1>3. CASE Next1 # <<>>
  <2>1. held' = [held EXCEPT !.todo = Next1]
    BY <1>3 DEF Advance
  <2>2. Next1 \in Todos
    BY <1>3, TodoFacts DEF TypeInv, Todos
  <2>3. held'.todo # <<>>
    BY <1>1, <1>3, <2>1
  <2> QED BY <1>1, <1>3, <2>1, <2>2, <2>3, FreeFacts
<1> QED BY <1>2, <1>3

LEMMA AdvanceHistory == ASSUME TypeInv, held # Free, Advance
  PROVE /\ programmed' \subseteq Settings /\ known' \subseteq Settings
        /\ told' \in [Settings -> Values \cup {NoValue}]
        /\ durable' \in [Settings -> SUBSET (Values \cup {NoValue})]
<1>1. Current \in Settings /\ held.value \in Values
  BY DEF TypeInv, CallInv, Current
<1>2. CASE Next1 # <<>>
  BY <1>2 DEF Advance, TypeInv, TypeOK
<1>3. CASE Next1 = <<>> /\ held.by = "user"
  BY <1>1, <1>3 DEF Advance, Answer, TypeInv, TypeOK
<1>4. CASE Next1 = <<>> /\ held.by # "user"
  BY <1>1, <1>4 DEF Advance, Answer, TypeInv, TypeOK
<1> QED BY <1>2, <1>3, <1>4

\* What a call may do to the lock and the histories.
LEMMA CallType == ASSUME TypeInv, NEW by \in {"user", "load"}, NEW s \in Settings,
                         NEW v \in Values, Call(by, s, v)
  PROVE /\ UNCHANGED <<callbacks, member, ini, camera, programmed, restarts>>
        /\ held = Free
        /\ \/ held' = Free
           \/ held' = [by |-> by, setting |-> s, value |-> v, todo |-> Steps(s)]
        /\ known' \subseteq Settings
        /\ told' \in [Settings -> Values \cup {NoValue}]
        /\ durable' \in [Settings -> SUBSET (Values \cup {NoValue})]
<1>1. CASE Same(by, s, v) /\ by = "user"
  BY <1>1 DEF Same, Answer, TypeInv, TypeOK
<1>2. CASE Same(by, s, v) /\ by = "load"
  BY <1>2 DEF Same, Answer, TypeInv, TypeOK
<1>3. CASE Refused(s, v)
  BY <1>3 DEF Refused, history, TypeInv, TypeOK
<1>4. CASE Enter(by, s, v)
  BY <1>4 DEF Enter, history, TypeInv, TypeOK
<1> QED BY <1>1, <1>2, <1>3, <1>4 DEF Call

LEMMA EnterShape == ASSUME NEW by \in {"user", "load"}, NEW s \in Settings,
                           NEW v \in Values,
                           held' = [by |-> by, setting |-> s, value |-> v,
                                    todo |-> Steps(s)]
  PROVE /\ held' \in [by : {"user", "load"}, setting : Settings, value : Values,
                      todo : Todos]
        /\ held'.by = by /\ held'.setting = s /\ held'.value = v
        /\ held'.todo = Steps(s)
BY StepsTodo

LEMMA InitType == Init => TypeInv
<1> SUFFICES ASSUME Init PROVE TypeInv OBVIOUS
<1>1. \A s \in Settings : Stored(s) \in Values
  BY StoredType DEF Init
<1>2. TypeOK
  BY <1>1, InfraredAssumption
     DEF InfraredAssumption, Init, TypeOK, Waiting, Free, Last
<1>3. CallInv
  BY DEF Init, CallInv, Waiting, Free, Last
<1> QED BY <1>2, <1>3 DEF TypeInv

LEMMA CallKnows == ASSUME NEW by, NEW s, NEW v, Call(by, s, v) PROVE known \subseteq known'
BY DEF Call, Same, Refused, Enter, history

\* A call the user makes, or LoadParam() makes, keeps the types.
LEMMA CallKeepsType == ASSUME TypeInv, NEW by \in {"user", "load"}, NEW s \in Settings,
                              NEW v \in Values, Call(by, s, v),
                              \/ /\ by = "user" /\ UNCHANGED load
                                 /\ EarlyUsers \/ Loaded
                              \/ /\ by = "load" /\ load.pc = "call"
                                 /\ load' = Reading(load.at + 1)
  PROVE TypeInv'
<1> USE CallType
<1>1. TypeOK' /\ load' \in [at : 0..(Last + 1), pc : {"read", "prime", "arg", "call"},
                            value : Values \cup {NoValue}]
  <2>1. /\ load'.at \in 0..(Last + 1) /\ load'.pc \in {"read", "prime", "arg", "call"}
        /\ load'.value \in Values \cup {NoValue}
        /\ load' \in [at : 0..(Last + 1), pc : {"read", "prime", "arg", "call"},
                      value : Values \cup {NoValue}]
    BY DEF TypeInv, TypeOK, CallInv, Reading, Last
  <2>2. \/ held' = Free
        \/ held'.by \in {"user", "load"} /\ held'.setting \in Settings
           /\ held'.value \in Values /\ held'.todo # <<>>
    BY EnterShape, NonEmpty
  <2> QED BY <2>1, <2>2 DEF TypeInv, TypeOK
<1>2. \/ held' = Free
      \/ /\ held' \in [by : {"user", "load"}, setting : Settings, value : Values,
                       todo : Todos]
         /\ held'.by = by /\ held'.setting = s /\ held'.todo = Steps(s)
  BY EnterShape
<1>3. CallInv'
  <2>1. \/ held' = Free
        \/ /\ Current' \in Controlled \cup Primed
           /\ held'.todo \in {<<"camera", "store", "cache">>, <<"store", "cache">>,
                              <<"cache">>}
        \/ Current' \in Kept /\ held'.todo \in {<<"store", "cache">>, <<"cache">>}
        \/ Current' \in Serial /\ held'.todo \in {<<"camera", "store">>, <<"store">>}
        \/ Current' \in Threshold /\ held'.todo \in {<<"store", "camera">>, <<"camera">>}
        \/ Current' \in Commands /\ held'.todo = <<"camera">>
    BY <1>2, KindFacts DEF Current
  <2>2. load'.pc # "read" =>
          /\ load'.at \in 1..Last
          /\ LoadOrder[load'.at] \in Settings /\ load'.value \in Values
          /\ held'.by # "load"
          /\ load'.pc \in {"prime", "arg"} => LoadOrder[load'.at] \in Primed
          /\ load'.pc = "arg" => LoadOrder[load'.at] \in known' /\ EarlyUsers
          /\ ~EarlyUsers => held' = Free
    BY <1>2, FreeFacts, CallKnows DEF TypeInv, CallInv, Reading, Loaded, Last
  <2>3. held'.by = "load" => load'.at \in 1..(Last + 1)
    BY <1>2, FreeFacts DEF TypeInv, CallInv, Reading, Last
  <2>4. ~EarlyUsers /\ ~Loaded' => held'.by # "user"
    BY <1>1, <1>2, FreeFacts DEF Reading, Loaded, TypeInv, CallInv, Last
  <2> QED BY <1>1, <1>2, <2>1, <2>2, <2>3, <2>4 DEF CallInv
<1> QED BY <1>1, <1>3 DEF TypeInv

\* So does a step of the call in progress.
LEMMA AdvanceKeepsType ==
  ASSUME TypeInv, held # Free, Advance, NEW step \in {"camera", "store", "cache"},
         At(step), UNCHANGED <<callbacks, load, restarts>>,
         member' \in [Settings -> Values], camera' \in [Settings -> Values],
         ini' \in [Settings -> Values \cup {NoValue}]
  PROVE TypeInv'
<1>1. /\ \/ held' = Free
         \/ /\ held' \in [by : {"user", "load"}, setting : Settings, value : Values,
                          todo : Todos]
            /\ held'.by = held.by /\ held'.setting = held.setting
            /\ held'.todo = Next1 /\ Next1 # <<>>
  BY AdvanceCall
<1>2. TypeOK'
  BY <1>1, AdvanceHistory, NonEmpty DEF TypeInv, TypeOK
<1>3. \/ held' = Free
      \/ /\ Current' \in Controlled \cup Primed
         /\ held'.todo \in {<<"camera", "store", "cache">>, <<"store", "cache">>,
                            <<"cache">>}
      \/ Current' \in Kept /\ held'.todo \in {<<"store", "cache">>, <<"cache">>}
      \/ Current' \in Serial /\ held'.todo \in {<<"camera", "store">>, <<"store">>}
      \/ Current' \in Threshold /\ held'.todo \in {<<"store", "camera">>, <<"camera">>}
      \/ Current' \in Commands /\ held'.todo = <<"camera">>
  <2>1. CASE At("camera")
    BY <1>1, <2>1, TodoFacts DEF TypeInv, Current
  <2>2. CASE At("store")
    BY <1>1, <2>2, TodoFacts DEF TypeInv, Current
  <2>3. CASE At("cache")
    BY <1>1, <2>3, TodoFacts DEF TypeInv, Current
  <2> QED BY <2>1, <2>2, <2>3
<1>4. held'.by = held.by \/ held'.by = "nobody"
  BY <1>1, FreeFacts
<1>5. known \subseteq known'
  BY DEF Advance
<1>6. CallInv'
  BY <1>1, <1>3, <1>4, <1>5 DEF TypeInv, CallInv, Loaded
<1> QED BY <1>2, <1>6 DEF TypeInv

LEMMA HeldFacts == ASSUME TypeInv, held # Free
  PROVE /\ Current \in Settings /\ held.value \in Values
        /\ held.by \in {"user", "load"}
BY DEF TypeInv, CallInv, Current

LEMMA AtHeld == ASSUME NEW step, At(step) PROVE held # Free
BY FreeFacts DEF At

LEMMA NextType == TypeInv /\ [Next]_vars => TypeInv'
<1> SUFFICES ASSUME TypeInv, [Next]_vars PROVE TypeInv' OBVIOUS
<1>1. CASE \E s \in Settings, v \in Values : UserCall(s, v)
  <2> PICK s \in Settings, v \in Values : UserCall(s, v)
    BY <1>1
  <2>1. Call("user", s, v) /\ UNCHANGED load /\ (EarlyUsers \/ Loaded)
    BY DEF UserCall
  <2> QED BY <2>1, CallKeepsType
<1>2. CASE CameraSet
  <2>1. held # Free
    BY <1>2, AtHeld DEF CameraSet
  <2>2. camera' \in [Settings -> Values]
    BY <1>2, <2>1, HeldFacts DEF CameraSet, TypeInv, TypeOK
  <2> QED BY <1>2, <2>1, <2>2, AdvanceKeepsType DEF CameraSet, TypeInv, TypeOK
<1>3. CASE CameraFails
  <2>1. TypeOK'
    BY <1>3 DEF CameraFails, history, TypeInv, TypeOK
  <2>2. CallInv'
    BY <1>3, FreeFacts DEF CameraFails, history, TypeInv, CallInv
  <2> QED BY <2>1, <2>2 DEF TypeInv
<1>4. CASE Store
  <2>1. held # Free
    BY <1>4, AtHeld DEF Store
  <2>2. ini' \in [Settings -> Values \cup {NoValue}]
    BY <1>4, <2>1, HeldFacts DEF Store, TypeInv, TypeOK
  <2> QED BY <1>4, <2>1, <2>2, AdvanceKeepsType DEF Store, TypeInv, TypeOK
<1>5. CASE Cache
  <2>1. held # Free
    BY <1>5, AtHeld DEF Cache
  <2>2. member' \in [Settings -> Values]
    BY <1>5, <2>1, HeldFacts DEF Cache, TypeInv, TypeOK
  <2> QED BY <1>5, <2>1, <2>2, AdvanceKeepsType DEF Cache, TypeInv, TypeOK
<1>6. CASE Register
  <2>1. TypeOK'
    BY <1>6 DEF Register, Reading, history, TypeInv, TypeOK, Last
  <2>2. CallInv'
    BY <1>6, FreeFacts DEF Register, Reading, history, TypeInv, CallInv, Last
  <2> QED BY <2>1, <2>2 DEF TypeInv
<1>7. CASE LoadSkip
  <2>1. TypeOK'
    BY <1>7 DEF LoadSkip, Reading, history, Loaded, TypeInv, TypeOK, Last
  <2>2. CallInv'
    BY <1>7 DEF LoadSkip, Reading, history, Loaded, TypeInv, CallInv, Last, Current
  <2> QED BY <2>1, <2>2 DEF TypeInv
<1>8. CASE LoadRead
  <2> DEFINE s == LoadOrder[load.at]
  <2>1. s \in Settings /\ Stored(s) \in Values
    BY <1>8, StoredType DEF LoadRead, TypeInv, TypeOK
  <2>2. /\ load' \in [at : 0..(Last + 1), pc : {"read", "prime", "arg", "call"},
                      value : Values \cup {NoValue}]
        /\ load'.at = load.at /\ load'.value = Stored(s)
        /\ load'.pc = IF s \in Primed THEN "prime" ELSE "call"
    BY <1>8, <2>1 DEF LoadRead, TypeInv, CallInv
  <2>3. TypeOK'
    BY <1>8, <2>2 DEF LoadRead, history, TypeInv, TypeOK
  <2>4. ~EarlyUsers => held = Free
    BY <1>8, HeldFacts DEF LoadRead, TypeInv, CallInv
  <2>5. CallInv'
    BY <1>8, <2>1, <2>2, <2>4 DEF LoadRead, Loaded, history, TypeInv, CallInv, Current, Last
  <2> QED BY <2>3, <2>5 DEF TypeInv
<1>9. CASE LoadPrime
  <2> DEFINE s == LoadOrder[load.at]
  <2>1. s \in Settings /\ load.value \in Values
    BY <1>9 DEF LoadPrime, TypeInv, CallInv
  <2>2. TypeOK'
    BY <1>9, <2>1 DEF LoadPrime, TypeInv, TypeOK, CallInv
  <2>3. member'[s] = load.value /\ s \in known'
    BY <1>9, <2>1 DEF LoadPrime, TypeInv, TypeOK
  <2>4. load' = [load EXCEPT !.pc = "arg"] /\ UNCHANGED held /\ load.pc = "prime"
    BY <1>9 DEF LoadPrime
  <2>5. CallInv'
    BY <2>1, <2>3, <2>4 DEF Loaded, TypeInv, CallInv, Current
  <2> QED BY <2>2, <2>5 DEF TypeInv
<1>13. CASE LoadArg
  <2>1. LoadOrder[load.at] \in Settings /\ load.value \in Values
        /\ member[LoadOrder[load.at]] \in Values
    BY <1>13 DEF LoadArg, TypeInv, CallInv, TypeOK
  <2>2. TypeOK'
    BY <1>13, <2>1 DEF LoadArg, TypeInv, TypeOK, CallInv, history
  <2>3. CallInv'
    BY <1>13, <2>1 DEF LoadArg, Loaded, TypeInv, CallInv, Current, history
  <2> QED BY <2>2, <2>3 DEF TypeInv
<1>10. CASE LoadCall
  <2>1. LoadOrder[load.at] \in Settings /\ load.value \in Values
    BY <1>10 DEF LoadCall, TypeInv, CallInv
  <2> QED BY <1>10, <2>1, CallKeepsType DEF LoadCall
<1>11. CASE Restart
  <2>1. durable' \in [Settings -> SUBSET (Values \cup {NoValue})]
    BY <1>11, HeldFacts, FreeFacts DEF Restart, TypeInv, TypeOK
  <2>2. TypeOK'
    BY <1>11, <2>1, InfraredAssumption
       DEF Restart, Waiting, InfraredAssumption, TypeInv, TypeOK, Last
  <2>3. CallInv'
    BY <1>11, FreeFacts DEF Restart, Waiting, TypeInv, CallInv, Last
  <2> QED BY <2>2, <2>3 DEF TypeInv
<1>12. CASE UNCHANGED vars
  BY <1>12 DEF vars, Loaded, TypeInv, TypeOK, CallInv, Current, Stored
<1> QED BY <1>1, <1>2, <1>3, <1>4, <1>5, <1>6, <1>7, <1>8, <1>9, <1>10, <1>11, <1>12, <1>13
         DEF Next, Work, Load

\* Type correctness, for any settings, values and faults (CCInfraredImage.cpp).
THEOREM TypeCorrect == Spec => []TypeOK
<1>1. Spec => []TypeInv
  BY InitType, NextType, PTL DEF Spec
<1>2. TypeInv => TypeOK
  BY DEF TypeInv
<1> QED BY <1>1, <1>2, PTL

-----------------------------------------------------------------------------
(* The steps of a call                                                     *)

\* What Advance does, in the two cases a proof distinguishes.
LEMMA AdvanceFacts == ASSUME TypeInv, held # Free, Advance,
                             NEW step \in {"camera", "store", "cache"}, At(step)
  PROVE /\ Next1 # <<>> => /\ held' # Free /\ Current' = Current
                           /\ held'.value = held.value /\ held'.by = held.by
                           /\ held'.todo = Next1
                           /\ UNCHANGED <<programmed, known, told, durable>>
        /\ Next1 = <<>> => /\ held' = Free
                           /\ programmed' = programmed \cup {Current}
                           /\ known' = known \cup {Current}
BY AdvanceCall, FreeFacts DEF Advance, Current

\* A call that begins, ends at once or is refused.
LEMMA CallFacts == ASSUME TypeInv, NEW by \in {"user", "load"}, NEW s \in Settings,
                          NEW v \in Values, Call(by, s, v)
  PROVE /\ UNCHANGED <<callbacks, member, ini, camera, programmed, restarts>>
        /\ held = Free
        /\ \/ /\ held' = Free /\ s \in Cached /\ member[s] = v
              /\ known' = IF by = "load" THEN known \cup {s} ELSE known
              /\ Answer(by, s, v)
           \/ held' = Free /\ UNCHANGED <<known, told, durable>>
           \/ /\ held' # Free /\ held'.by = by /\ Current' = s /\ held'.value = v
              /\ held'.todo = Steps(s) /\ UNCHANGED <<known, told, durable>>
<1>1. CASE Same(by, s, v)
  BY <1>1 DEF Same
<1>2. CASE Refused(s, v)
  BY <1>2 DEF Refused, history
<1>3. CASE Enter(by, s, v)
  BY <1>3, EnterShape, FreeFacts DEF Enter, history, Current
<1> QED BY <1>1, <1>2, <1>3 DEF Call

\* LoadParam() makes its own calls in order, and is the first to carry out any.
LoadInv ==
  /\ held.by = "load" => load.at \in 2..(Last + 1) /\ Current = LoadOrder[load.at - 1]
  /\ ~EarlyUsers => \A j \in 1..Last : j >= load.at => LoadOrder[j] \notin programmed

LEMMA AdvanceLoad == ASSUME TypeInv, LoadInv, held # Free, Advance, UNCHANGED load,
                            NEW step \in {"camera", "store", "cache"}, At(step)
  PROVE LoadInv'
<1>1. CASE Next1 # <<>>
  BY <1>1, AdvanceFacts DEF LoadInv
<1>2. CASE Next1 = <<>>
  <2>1. held' = Free /\ programmed' = programmed \cup {Current}
    BY <1>2, AdvanceFacts
  <2>2. held'.by # "load"
    BY <2>1, FreeFacts
  <2>3. ASSUME ~EarlyUsers, NEW j \in 1..Last, j >= load.at
        PROVE  LoadOrder[j] # Current
    <3>1. ~Loaded /\ load.at \in 0..(Last + 1)
      BY <2>3 DEF Loaded, Last, TypeInv, TypeOK
    <3>2. held.by = "load"
      BY <2>3, <3>1, HeldFacts DEF TypeInv, CallInv
    <3> QED BY <2>3, <3>1, <3>2, OrderFacts DEF LoadInv, Last
  <2> QED BY <2>1, <2>2, <2>3 DEF LoadInv
<1> QED BY <1>1, <1>2

LEMMA NextLoad == TypeInv /\ LoadInv /\ [Next]_vars => LoadInv'
<1> SUFFICES ASSUME TypeInv, LoadInv, [Next]_vars PROVE LoadInv' OBVIOUS
<1>1. CASE \E s \in Settings, v \in Values : UserCall(s, v)
  <2> PICK s \in Settings, v \in Values : UserCall(s, v)
    BY <1>1
  <2>1. /\ held'.by # "load" /\ UNCHANGED <<programmed, load>>
    BY CallFacts, FreeFacts DEF UserCall
  <2> QED BY <2>1 DEF LoadInv
<1>2. CASE CameraSet
  BY <1>2, AtHeld, AdvanceLoad DEF CameraSet
<1>3. CASE CameraFails
  BY <1>3, FreeFacts DEF CameraFails, history, LoadInv
<1>4. CASE Store
  BY <1>4, AtHeld, AdvanceLoad DEF Store
<1>5. CASE Cache
  BY <1>5, AtHeld, AdvanceLoad DEF Cache
<1>6. CASE Register
  BY <1>6, FreeFacts DEF Register, Reading, history, LoadInv
<1>7. CASE LoadSkip
  BY <1>7 DEF LoadSkip, Reading, history, LoadInv, TypeInv, TypeOK
<1>8. CASE LoadRead
  <2>1. load'.at = load.at
    BY <1>8 DEF LoadRead, TypeInv, CallInv
  <2> QED BY <1>8, <2>1 DEF LoadRead, history, LoadInv, Current
<1>9. CASE LoadPrime
  <2>1. load'.at = load.at
    BY <1>9 DEF LoadPrime, TypeInv, CallInv
  <2> QED BY <1>9, <2>1 DEF LoadPrime, LoadInv, Current
<1>13. CASE LoadArg
  <2>1. load'.at = load.at
    BY <1>13 DEF LoadArg, TypeInv, CallInv
  <2> QED BY <1>13, <2>1 DEF LoadArg, LoadInv, Current, history
<1>10. CASE LoadCall
  <2> DEFINE s == LoadOrder[load.at]
  <2>1. s \in Settings /\ load.value \in Values /\ load.at \in 1..Last
    BY <1>10 DEF LoadCall, TypeInv, CallInv
  <2>2. /\ UNCHANGED programmed
        /\ held'.by = "load" => Current' = s
        /\ load'.at = load.at + 1
    BY <1>10, <2>1, CallFacts, FreeFacts DEF LoadCall, Reading
  <2> QED BY <2>1, <2>2 DEF LoadInv, Last
<1>11. CASE Restart
  BY <1>11, FreeFacts DEF Restart, Waiting, LoadInv
<1>12. CASE UNCHANGED vars
  BY <1>12 DEF vars, LoadInv, Current
<1> QED BY <1>1, <1>2, <1>3, <1>4, <1>5, <1>6, <1>7, <1>8, <1>9, <1>10, <1>11, <1>12, <1>13
         DEF Next, Work, Load

-----------------------------------------------------------------------------
(* The member and the camera                                               *)

Moved == (Controlled \cup Primed) \ Raced

\* Between the callback and the assignment of the member, the camera has the new
\* value; at any other time a setting carried out is the same in both places.
CameraInv ==
  /\ held # Free /\ Current \in Controlled \cup Primed /\ ~At("camera")
       => camera[Current] = held.value
  /\ \A s \in programmed \cap Moved :
       Quiet(s) \/ At("camera") => member[s] = camera[s]

LEMMA CameraIsCameraFollows == CameraInv => CameraFollows
BY DEF CameraInv, CameraFollows, Moved

LEMMA NextCamera == TypeInv /\ LoadInv /\ CameraInv /\ [Next]_vars => CameraInv'
<1> SUFFICES ASSUME TypeInv, LoadInv, CameraInv, [Next]_vars PROVE CameraInv' OBVIOUS
<1> USE DEF Moved
<1>1. ASSUME NEW by \in {"user", "load"}, NEW s \in Settings, NEW v \in Values,
             Call(by, s, v)
      PROVE  CameraInv'
  <2>1. UNCHANGED <<member, camera, programmed>> /\ held = Free
    BY <1>1, CallFacts
  <2>2. \A q \in programmed \cap Moved : member[q] = camera[q]
    BY <2>1, FreeFacts, Apart DEF CameraInv, Quiet, Current
  <2>3. held' # Free => held'.todo = Steps(s) /\ Current' = s
    BY <1>1, CallFacts
  <2>4. s \in Controlled \cup Primed => Head(Steps(s)) = "camera" /\ Steps(s) # <<>>
    BY KindFacts
  <2>5. held' # Free /\ s \in Controlled \cup Primed => At("camera")'
    BY <2>3, <2>4 DEF At
  <2> QED BY <2>1, <2>2, <2>3, <2>5 DEF CameraInv
<1>2. CASE \E s \in Settings, v \in Values : UserCall(s, v)
  BY <1>1, <1>2 DEF UserCall
<1>3. CASE CameraSet
  <2>1. held # Free /\ Advance /\ At("camera")
    BY <1>3, AtHeld DEF CameraSet
  <2>2. /\ UNCHANGED member /\ Current \in Settings
        /\ camera' = [camera EXCEPT ![Current] = held.value]
        /\ camera \in [Settings -> Values] /\ programmed \subseteq Settings
    BY <1>3, <2>1, HeldFacts DEF CameraSet, TypeInv, TypeOK
  <2>3. CASE Current \in Controlled \cup Primed
    <3>1. Next1 = <<"store", "cache">>
      BY <2>1, <2>3, TodoFacts, Apart DEF TypeInv
    <3>2. /\ Current' = Current /\ held'.value = held.value /\ UNCHANGED programmed
          /\ held'.todo = <<"store", "cache">>
      BY <3>1, <2>1, AdvanceFacts
    <3>3. ~At("camera")'
      BY <3>2 DEF At
    <3> QED BY <2>2, <3>2, <3>3 DEF CameraInv, Quiet
  <2>4. CASE Current \notin Controlled \cup Primed
    <3>1. programmed' \cap Moved = programmed \cap Moved
      BY <2>1, <2>4, AdvanceFacts
    <3>2. \A q \in programmed \cap Moved : member[q] = camera[q]
      BY <2>4 DEF CameraInv, Quiet
    <3>3. \A q \in programmed \cap Moved : camera'[q] = camera[q]
      BY <2>2, <2>4
    <3>4. held' # Free => Current' = Current
      BY <2>1, AdvanceFacts
    <3> QED BY <2>2, <2>4, <3>1, <3>2, <3>3, <3>4 DEF CameraInv
  <2> QED BY <2>3, <2>4
<1>4. CASE CameraFails
  BY <1>4 DEF CameraFails, history, CameraInv
<1>5. CASE Store
  <2>1. held # Free /\ Advance /\ At("store") /\ ~At("camera") /\ Current \in Settings
    BY <1>5, AtHeld, HeldFacts DEF Store, At
  <2>2. UNCHANGED <<member, camera>>
    BY <1>5 DEF Store
  <2>3. CASE Current \in Controlled \cup Primed
    <3>1. Next1 = <<"cache">>
      BY <2>1, <2>3, TodoFacts, Apart DEF TypeInv
    <3>2. /\ Current' = Current /\ held'.value = held.value /\ UNCHANGED programmed
          /\ held'.todo = <<"cache">>
      BY <3>1, <2>1, AdvanceFacts
    <3>3. ~At("camera")'
      BY <3>2 DEF At
    <3> QED BY <2>1, <2>2, <2>3, <3>2, <3>3 DEF CameraInv, Quiet
  <2>4. CASE Current \notin Controlled \cup Primed
    <3>1. programmed' \cap Moved = programmed \cap Moved
      BY <2>1, <2>4, AdvanceFacts
    <3>2. \A q \in programmed \cap Moved : member[q] = camera[q]
      BY <2>4 DEF CameraInv, Quiet
    <3>4. held' # Free => Current' = Current
      BY <2>1, AdvanceFacts
    <3> QED BY <2>2, <2>4, <3>1, <3>2, <3>4 DEF CameraInv
  <2> QED BY <2>3, <2>4
<1>6. CASE Cache
  <2>1. held # Free /\ Advance /\ At("cache") /\ ~At("camera") /\ Current \in Settings
    BY <1>6, AtHeld, HeldFacts DEF Cache, At
  <2>2. Next1 = <<>>
    BY <2>1, TodoFacts DEF TypeInv
  <2>3. /\ held' = Free /\ programmed' = programmed \cup {Current}
        /\ UNCHANGED camera /\ member' = [member EXCEPT ![Current] = held.value]
        /\ member \in [Settings -> Values] /\ programmed \subseteq Settings
    BY <1>6, <2>1, <2>2, AdvanceFacts DEF Cache, TypeInv, TypeOK
  <2>4. ASSUME NEW q \in programmed' \cap Moved PROVE member'[q] = camera'[q]
    <3>1. CASE q = Current
      BY <2>1, <2>3, <3>1 DEF CameraInv
    <3>2. CASE q # Current
      BY <2>3, <2>4, <3>2 DEF CameraInv, Quiet
    <3> QED BY <3>1, <3>2
  <2> QED BY <2>3, <2>4 DEF CameraInv
<1>7. CASE Register \/ LoadSkip \/ LoadRead \/ LoadArg
  BY <1>7 DEF Register, LoadSkip, LoadRead, LoadArg, history, CameraInv, Quiet, Current, At
<1>8. CASE LoadPrime
  <2> DEFINE s == LoadOrder[load.at]
  <2>1. /\ s \in Settings \cap Primed /\ load.at \in 1..Last
        /\ UNCHANGED <<held, camera, programmed>>
        /\ member' = [member EXCEPT ![s] = load.value]
        /\ member \in [Settings -> Values]
    BY <1>8 DEF LoadPrime, TypeInv, CallInv, TypeOK
  <2>2. s \notin programmed \cap Moved
    BY <2>1 DEF LoadInv, Raced, TypeInv, TypeOK
  <2>3. programmed \subseteq Settings
    BY DEF TypeInv, TypeOK
  <2> QED BY <2>1, <2>2, <2>3 DEF CameraInv, Quiet, Current, At
<1>9. CASE LoadCall
  <2>1. LoadOrder[load.at] \in Settings /\ load.value \in Values
    BY <1>9 DEF LoadCall, TypeInv, CallInv
  <2> QED BY <1>1, <1>9, <2>1 DEF LoadCall
<1>10. CASE Restart
  BY <1>10 DEF Restart, CameraInv
<1>11. CASE UNCHANGED vars
  BY <1>11 DEF vars, CameraInv, Quiet, Current, At
<1> QED BY <1>2, <1>3, <1>4, <1>5, <1>6, <1>7, <1>8, <1>9, <1>10, <1>11
         DEF Next, Work, Load

\* The camera is set to what the getters report, for every setting carried out,
\* under any failures and restarts (CCInfraredImage.cpp, the six setters that
\* call the application).
THEOREM CameraCorrect == Spec => []CameraFollows
<1>1. Init => TypeInv /\ LoadInv /\ CameraInv
  BY InitType, FreeFacts DEF Init, LoadInv, CameraInv
<1>2. TypeInv /\ LoadInv /\ CameraInv /\ [Next]_vars => (TypeInv /\ LoadInv /\ CameraInv)'
  BY NextType, NextLoad, NextCamera
<1>3. Spec => [](TypeInv /\ LoadInv /\ CameraInv)
  BY <1>1, <1>2, PTL DEF Spec
<1> QED BY <1>3, CameraIsCameraFollows, PTL

-----------------------------------------------------------------------------
(* The answers and the camera                                              *)

\* When calls wait for LoadParam() to end, the member has the value last answered
\* 0 to: the answer and the assignment are one step under the lock.
ToldInv ==
  /\ ~Loaded \/ held.by = "load" => \A s \in Settings : told[s] = NoValue
  /\ \A s \in Settings \cap Cached : told[s] # NoValue => member[s] = told[s]

\* The last step of a call of a user answers, that of LoadParam() does not.
LEMMA AdvanceTells ==
  ASSUME TypeInv, held # Free, Advance, Next1 = <<>>
  PROVE  /\ held'.by # "load"
         /\ held.by = "user" => told' = [told EXCEPT ![Current] = held.value]
         /\ held.by # "user" => UNCHANGED told
BY FreeFacts DEF Advance, Answer

LEMMA NextTold ==
  ASSUME ~EarlyUsers, TypeInv, ToldInv, [Next]_vars
  PROVE  ToldInv'
<1>t. /\ told \in [Settings -> Values \cup {NoValue}] /\ member \in [Settings -> Values]
      /\ NoValue \notin Values
  BY InfraredAssumption DEF InfraredAssumption, TypeInv, TypeOK
<1>1. CASE \E s \in Settings, v \in Values : UserCall(s, v)
  <2>1. PICK s \in Settings, v \in Values : UserCall(s, v)
    BY <1>1
  <2>2. Loaded /\ UNCHANGED <<load, member>> /\ Call("user", s, v)
    BY <2>1, CallFacts DEF UserCall
  <2>3. Loaded' /\ held'.by # "load"
    <3>1. Loaded'
      BY <2>2 DEF Loaded
    <3>2. held' = Free \/ (held' # Free /\ held'.by = "user")
      BY <2>2, CallFacts
    <3> QED BY <3>1, <3>2, FreeFacts
  <2>4. UNCHANGED told \/ (member[s] = v /\ told' = [told EXCEPT ![s] = v])
    BY <2>2, CallFacts DEF Answer
  <2> QED BY <1>t, <2>2, <2>3, <2>4 DEF ToldInv
<1>2. CASE CameraSet \/ Store \/ Cache
  <2>1. held # Free /\ Advance /\ UNCHANGED load /\ (~Cache => UNCHANGED member)
        /\ (At("camera") \/ At("store") \/ At("cache"))
    BY <1>2, AtHeld DEF CameraSet, Store, Cache
  <2>2. CASE Next1 # <<>>
    <3>1. ~At("cache")
      BY <2>1, <2>2, TodoFacts DEF TypeInv
    <3>2. UNCHANGED member
      BY <2>1, <3>1 DEF Cache
    <3>3. held'.by = held.by /\ UNCHANGED told
      BY <2>1, <2>2, AdvanceFacts
    <3> QED BY <2>1, <3>2, <3>3 DEF ToldInv, Loaded
  <2>3. CASE Next1 = <<>>
    <3>1. /\ held'.by # "load"
          /\ held.by = "user" => told' = [told EXCEPT ![Current] = held.value]
          /\ held.by # "user" => UNCHANGED told
      BY <2>1, <2>3, AdvanceTells
    <3>2. Current \in Settings /\ held.by \in {"user", "load"} /\ held.value \in Values
      BY <2>1 DEF TypeInv, TypeOK, Current
    <3>3. held.by = "user" => Loaded
      BY DEF TypeInv, CallInv
    <3>4. Cache \/ Current \notin Cached
      <4>1. At("cache") \/ Current \in Serial \cup Threshold \cup Commands
        BY <2>1, <2>3, TodoFacts DEF TypeInv
      <4>2. At("cache") => Cache
        BY <1>2 DEF CameraSet, Store, At
      <4> QED BY <4>1, <4>2, Apart DEF Cached
    <3>5. Cache => member' = [member EXCEPT ![Current] = held.value]
      BY DEF Cache
    <3>6. CASE held.by = "user"
      BY <1>t, <2>1, <3>1, <3>2, <3>3, <3>4, <3>5, <3>6 DEF ToldInv, Loaded
    <3>7. CASE held.by = "load"
      <4>1. \A s \in Settings : told[s] = NoValue
        BY <3>7 DEF ToldInv
      <4> QED BY <3>1, <3>7, <4>1 DEF ToldInv
    <3> QED BY <3>2, <3>6, <3>7
  <2> QED BY <2>2, <2>3
<1>3. CASE CameraFails
  BY <1>3, FreeFacts DEF CameraFails, history, ToldInv, Loaded
<1>4. CASE Register \/ LoadSkip \/ LoadRead \/ LoadArg
  <2>1. UNCHANGED <<held, member, told>> /\ ~Loaded
    BY <1>4 DEF Register, LoadSkip, LoadRead, LoadArg, history, Loaded, Last,
                TypeInv, CallInv
  <2> QED BY <2>1 DEF ToldInv
<1>5. CASE LoadPrime
  <2>1. ~Loaded /\ UNCHANGED told
    BY <1>5 DEF LoadPrime, Loaded, Last, TypeInv, CallInv
  <2> QED BY <2>1 DEF ToldInv
<1>6. CASE LoadCall
  <2>1. /\ ~Loaded /\ LoadOrder[load.at] \in Settings /\ load.value \in Values
        /\ Call("load", LoadOrder[load.at], load.value)
    BY <1>6 DEF LoadCall, Loaded, Last, TypeInv, CallInv
  <2>2. UNCHANGED told
    BY <2>1, CallFacts DEF Answer
  <2> QED BY <2>1, <2>2 DEF ToldInv
<1>7. CASE Restart
  BY <1>7 DEF Restart, ToldInv
<1>8. CASE UNCHANGED vars
  BY <1>8 DEF vars, ToldInv, Loaded
<1> QED BY <1>1, <1>2, <1>3, <1>4, <1>5, <1>6, <1>7, <1>8 DEF Next, Work, Load

\* The value last answered 0 to is the camera's, for any settings and values and
\* whatever fails, as soon as a call of this run has carried the setting out: the
\* run that finds ZoomReachesCamera violated needs a member no call has set.
THEOREM AnswersCorrect ==
  ASSUME ~EarlyUsers
  PROVE  Spec => []LaterAnswersReach
<1>1. Init => ToldInv
  BY DEF Init, ToldInv
<1>2. TypeInv /\ ToldInv /\ [Next]_vars => ToldInv'
  BY NextTold
<1>3. Spec => []TypeInv
  BY InitType, NextType, PTL DEF Spec
<1>4. TypeInv /\ ToldInv /\ CameraFollows => LaterAnswersReach
  <2> SUFFICES ASSUME TypeInv, ToldInv, CameraFollows,
                      NEW s \in programmed \cap (Controlled \cup Primed),
                      Quiet(s), told[s] # NoValue
               PROVE  camera[s] = told[s]
    BY DEF LaterAnswersReach
  <2>1. s \in Settings \cap Cached
    BY DEF TypeInv, TypeOK, Cached
  <2>2. member[s] = camera[s]
    BY DEF CameraFollows, Raced
  <2> QED BY <2>1, <2>2 DEF ToldInv
<1> QED BY <1>1, <1>2, <1>3, <1>4, CameraCorrect, PTL DEF Spec

-----------------------------------------------------------------------------
(* The member and the file                                                 *)

\* A cached setting between its two writes, and one of the serial line.
Storing(s) == Current = s /\ At("cache")
Sending(s) == Current = s /\ At("store")

StoreInv ==
  /\ \A s \in Settings : Storing(s) => Stored(s) = ReadBack(s, held.value)
  /\ \A s \in Serial \cap Settings : Sending(s) => camera[s] = held.value
  /\ \A s \in (known \cap Cached) \ Raced :
       ~Storing(s) => ReadBack(s, member[s]) = Stored(s)
  /\ \A s \in programmed \cap Serial : ~Sending(s) => camera[s] = Stored(s)
  /\ \A s \in Settings :
       /\ load.pc # "read" /\ s = LoadOrder[load.at]
       /\ (~EarlyUsers \/ s \notin known) /\ ~Storing(s)
       => load.value = Stored(s)

LEMMA StoreIsStoreFollows == StoreInv /\ TypeInv => StoreFollows
BY FreeFacts DEF StoreInv, StoreFollows, Quiet, Storing, Sending, TypeInv, TypeOK

LEMMA StoreCall == ASSUME TypeInv, StoreInv, NEW by \in {"user", "load"},
                          NEW s \in Settings, NEW v \in Values, Call(by, s, v),
                          \/ by = "user" /\ UNCHANGED load
                          \/ by = "load" /\ load.pc = "call" /\ s = LoadOrder[load.at]
                             /\ v = load.value /\ load' = Reading(load.at + 1)
  PROVE StoreInv'
<1>1. UNCHANGED <<member, camera, ini, programmed>> /\ held = Free
  BY CallFacts
<1>2. \A q : Stored(q)' = Stored(q)
  BY <1>1 DEF Stored
<1>3. \A q : ~Storing(q) /\ ~Sending(q)
  BY <1>1, FreeFacts DEF Storing, Sending, At
<1>4. \A q \in (known' \cap Cached) \ Raced : ReadBack(q, member[q]) = Stored(q)
  <2> SUFFICES ASSUME NEW q \in (known' \cap Cached) \ Raced
               PROVE  ReadBack(q, member[q]) = Stored(q)
    OBVIOUS
  <2>1. CASE q \in known
    BY <1>3, <2>1 DEF StoreInv
  <2>2. CASE q \notin known
    <3>1. by = "load" /\ q = s /\ member[s] = v
      BY <2>2, CallFacts
    <3>2. v = Stored(s) /\ ReadBack(s, Stored(s)) = Stored(s)
      BY <3>1, <2>2, <1>3, StoredType DEF StoreInv, TypeInv, TypeOK
    <3> QED BY <3>1, <3>2
  <2> QED BY <2>1, <2>2
<1>5. held' # Free => /\ ~At("cache")' /\ held'.todo = Steps(s) /\ Current' = s
                      /\ Current' \in Serial => ~At("store")'
  <2>1. /\ Head(Steps(s)) # "cache"
        /\ s \in Serial => Head(Steps(s)) # "store"
    BY KindFacts
  <2> QED BY <2>1, CallFacts DEF At
<1>6. \A q : ~Storing(q)' /\ (q \in Serial => ~Sending(q)')
  BY <1>5, FreeFacts DEF Storing, Sending, At
<1>7. load'.pc # "read" => load' = load /\ known' = known
  BY CallFacts DEF Reading
<1> QED BY <1>1, <1>2, <1>3, <1>4, <1>5, <1>6, <1>7 DEF StoreInv

LEMMA NextStore == ASSUME ~ConfigFails, TypeInv, LoadInv, StoreInv, [Next]_vars
                   PROVE  StoreInv'
<1>1. CASE \E s \in Settings, v \in Values : UserCall(s, v)
  BY <1>1, StoreCall DEF UserCall
<1>2. CASE CameraSet
  <2>1. held # Free /\ Advance /\ At("camera") /\ ~At("cache") /\ ~At("store")
    BY <1>2, AtHeld DEF CameraSet, At
  <2>2. /\ UNCHANGED <<member, ini, load>> /\ Current \in Settings
        /\ camera' = [camera EXCEPT ![Current] = held.value]
        /\ camera \in [Settings -> Values] /\ programmed \subseteq Settings
    BY <1>2, <2>1, HeldFacts DEF CameraSet, TypeInv, TypeOK
  <2>3. \A q : Stored(q)' = Stored(q)
    BY <2>2 DEF Stored
  <2>4. \A q : ~Storing(q) /\ ~Sending(q)
    BY <2>1 DEF Storing, Sending
  <2>5. CASE Current \in Controlled \cup Primed
    <3>1. Next1 = <<"store", "cache">>
      BY <2>1, <2>5, TodoFacts, Apart DEF TypeInv
    <3>2. /\ Current' = Current /\ held'.todo = <<"store", "cache">>
          /\ UNCHANGED <<programmed, known>>
      BY <3>1, <2>1, AdvanceFacts
    <3>3. \A q : ~Storing(q)' /\ (Sending(q)' => q = Current)
      BY <3>2 DEF At, Storing, Sending
    <3> QED BY <2>2, <2>3, <2>4, <2>5, <3>2, <3>3, Apart DEF StoreInv, Cached
  <2>6. CASE Current \in Serial
    <3>1. Next1 = <<"store">>
      BY <2>1, <2>6, TodoFacts, Apart DEF TypeInv
    <3>2. /\ Current' = Current /\ held'.todo = <<"store">> /\ held'.value = held.value
          /\ UNCHANGED <<programmed, known>>
      BY <3>1, <2>1, AdvanceFacts
    <3>3. \A q : ~Storing(q)' /\ (Sending(q)' <=> q = Current)
      BY <3>2 DEF At, Storing, Sending
    <3> QED BY <2>2, <2>3, <2>4, <2>6, <3>2, <3>3, Apart DEF StoreInv
  <2>7. CASE Current \in Threshold \cup Commands
    <3>1. Next1 = <<>>
      BY <2>1, <2>7, TodoFacts, Apart DEF TypeInv
    <3>2. /\ held' = Free /\ programmed' = programmed \cup {Current}
          /\ known' = known \cup {Current}
      BY <3>1, <2>1, AdvanceFacts
    <3>3. Current \notin Cached \cup Serial
      BY <2>7, Apart DEF Cached
    <3>4. \A q : ~Storing(q)' /\ ~Sending(q)'
      BY <3>2, FreeFacts DEF Storing, Sending, At
    <3> QED BY <2>2, <2>3, <2>4, <3>2, <3>3, <3>4 DEF StoreInv
  <2> QED BY <2>1, <2>5, <2>6, <2>7, TodoFacts DEF TypeInv
<1>3. CASE CameraFails
  <2>1. ~At("cache") /\ ~At("store") /\ UNCHANGED <<member, ini, camera, load>>
        /\ UNCHANGED <<programmed, known>> /\ held' = Free
    BY <1>3 DEF CameraFails, At, history
  <2>2. \A q : /\ Stored(q)' = Stored(q)
               /\ ~Storing(q) /\ ~Sending(q) /\ ~Storing(q)' /\ ~Sending(q)'
    BY <2>1, FreeFacts DEF Stored, Storing, Sending, At
  <2> QED BY <2>1, <2>2 DEF StoreInv
<1>4. CASE Store
  <2>1. held # Free /\ Advance /\ At("store") /\ ~At("cache")
    BY <1>4, AtHeld DEF Store, At
  <2>2. /\ UNCHANGED <<member, camera, load>> /\ Current \in Settings
        /\ ini' = [ini EXCEPT ![Current] = held.value] /\ held.value \in Values
        /\ ini \in [Settings -> Values \cup {NoValue}]
        /\ programmed \subseteq Settings /\ known \subseteq Settings
    BY <1>4, <2>1, HeldFacts DEF Store, TypeInv, TypeOK
  <2>3. \A q \in Settings :
          Stored(q)' = IF q = Current THEN ReadBack(q, held.value) ELSE Stored(q)
    BY <2>2, InfraredAssumption DEF Stored, InfraredAssumption
  <2>4. \A q : ~Storing(q)
    BY <2>1 DEF Storing
  <2>5. load.pc # "read" => LoadOrder[load.at] \in (Controlled \cup Primed) \cap Settings
    BY OrderFacts DEF TypeInv, CallInv
  <2>6. CASE Current \in Cached
    <3>1. Next1 = <<"cache">>
      BY <2>1, <2>6, TodoFacts, Apart DEF TypeInv, Cached
    <3>2. /\ held' # Free /\ Current' = Current /\ held'.todo = <<"cache">>
          /\ held'.value = held.value /\ UNCHANGED <<programmed, known>>
      BY <3>1, <2>1, AdvanceFacts
    <3>3. \A q : ~Sending(q)' /\ (Storing(q)' <=> q = Current)
      BY <3>2 DEF At, Storing, Sending
    <3>4. \A q \in Settings : Storing(q)' => Stored(q)' = ReadBack(q, held'.value)
      BY <2>3, <3>2, <3>3
    <3>5. \A q \in (known' \cap Cached) \ Raced :
          ~Storing(q)' => ReadBack(q, member'[q]) = Stored(q)'
      BY <2>2, <2>3, <2>4, <3>2, <3>3 DEF StoreInv
    <3>6. \A q \in programmed' \cap Serial : camera'[q] = Stored(q)'
      BY <2>1, <2>2, <2>3, <2>6, <3>2, Apart DEF StoreInv, Sending, Cached
    <3>7. \A q \in Settings :
            /\ load'.pc # "read" /\ q = LoadOrder[load'.at]
            /\ (~EarlyUsers \/ q \notin known') /\ ~Storing(q)'
            => load'.value = Stored(q)'
      BY <2>2, <2>3, <2>4, <2>5, <3>2, <3>3 DEF StoreInv
    <3> QED BY <3>2, <3>3, <3>4, <3>5, <3>6, <3>7 DEF StoreInv
  <2>7. CASE Current \in Serial
    <3>1. Next1 = <<>>
      BY <2>1, <2>7, TodoFacts, Apart DEF TypeInv
    <3>2. /\ held' = Free /\ programmed' = programmed \cup {Current}
          /\ known' = known \cup {Current}
      BY <3>1, <2>1, AdvanceFacts
    <3>3. camera[Current] = held.value
      BY <2>1, <2>2, <2>7 DEF StoreInv, Sending
    <3>4. \A q : ~Storing(q)' /\ ~Sending(q)'
      BY <3>2, FreeFacts DEF Storing, Sending, At
    <3>5. \A q \in (known' \cap Cached) \ Raced : ReadBack(q, member'[q]) = Stored(q)'
      BY <2>2, <2>3, <2>4, <2>7, <3>2, Apart DEF StoreInv, Cached
    <3>6. \A q \in programmed' \cap Serial : camera'[q] = Stored(q)'
      BY <2>1, <2>2, <2>3, <2>7, <3>2, <3>3, ReadFacts DEF StoreInv, Sending
    <3>7. \A q \in Settings :
            /\ load'.pc # "read" /\ q = LoadOrder[load'.at]
            /\ ~EarlyUsers \/ q \notin known'
            => load'.value = Stored(q)'
      BY <2>2, <2>3, <2>4, <2>5, <2>7, <3>2, Apart DEF StoreInv
    <3> QED BY <3>2, <3>4, <3>5, <3>6, <3>7 DEF StoreInv
  <2>8. CASE Current \in Threshold
    <3>1. Next1 = <<"camera">>
      BY <2>1, <2>8, TodoFacts, Apart DEF TypeInv
    <3>2. /\ held' # Free /\ Current' = Current /\ held'.todo = <<"camera">>
          /\ UNCHANGED <<programmed, known>>
      BY <3>1, <2>1, AdvanceFacts
    <3>3. \A q : ~Storing(q)' /\ ~Sending(q)'
      BY <3>2 DEF At, Storing, Sending
    <3>4. Current \notin Cached \cup Serial \cup Controlled \cup Primed
      BY <2>8, Apart DEF Cached
    <3>5. \A q \in (known' \cap Cached) \ Raced : ReadBack(q, member'[q]) = Stored(q)'
      BY <2>2, <2>3, <2>4, <3>2, <3>4 DEF StoreInv
    <3>6. \A q \in programmed' \cap Serial : camera'[q] = Stored(q)'
      BY <2>2, <2>3, <3>2, <3>4 DEF StoreInv, Sending
    <3>7. \A q \in Settings :
            /\ load'.pc # "read" /\ q = LoadOrder[load'.at]
            /\ ~EarlyUsers \/ q \notin known'
            => load'.value = Stored(q)'
      BY <2>2, <2>3, <2>4, <2>5, <3>2, <3>4 DEF StoreInv
    <3> QED BY <3>2, <3>3, <3>5, <3>6, <3>7 DEF StoreInv
  <2> QED BY <2>1, <2>6, <2>7, <2>8, TodoFacts DEF TypeInv, Cached
<1>5. CASE Cache
  <2>1. held # Free /\ Advance /\ At("cache") /\ ~At("store") /\ Current \in Settings
    BY <1>5, AtHeld, HeldFacts DEF Cache, At
  <2>2. Next1 = <<>> /\ Current \notin Serial
    BY <2>1, TodoFacts, Apart DEF TypeInv
  <2>3. /\ held' = Free /\ programmed' = programmed \cup {Current}
        /\ known' = known \cup {Current}
        /\ UNCHANGED <<camera, ini, load>>
        /\ member' = [member EXCEPT ![Current] = held.value]
        /\ member \in [Settings -> Values] /\ known \subseteq Settings
    BY <1>5, <2>1, <2>2, AdvanceFacts DEF Cache, TypeInv, TypeOK
  <2>4. \A q : Stored(q)' = Stored(q) /\ ~Storing(q)' /\ ~Sending(q)' /\ ~Sending(q)
    BY <2>1, <2>3, FreeFacts DEF Stored, Storing, Sending, At
  <2>5. ASSUME NEW q \in (known' \cap Cached) \ Raced PROVE ReadBack(q, member'[q]) = Stored(q)'
    <3>1. CASE q = Current
      BY <2>1, <2>3, <2>4, <3>1 DEF StoreInv, Storing
    <3>2. CASE q # Current
      BY <2>3, <2>4, <2>5, <3>2 DEF StoreInv, Storing
    <3> QED BY <3>1, <3>2
  <2>6. \A q \in programmed' \cap Serial : camera'[q] = Stored(q)'
    BY <2>2, <2>3, <2>4 DEF StoreInv
  <2>7. load.pc # "read" => held = Free \/ EarlyUsers
    BY DEF TypeInv, CallInv
  <2>8. \A q \in Settings :
          /\ load'.pc # "read" /\ q = LoadOrder[load'.at]
          /\ ~EarlyUsers \/ q \notin known'
          => load'.value = Stored(q)'
    BY <2>1, <2>3, <2>4, <2>7 DEF StoreInv, Storing
  <2> QED BY <2>3, <2>4, <2>5, <2>6, <2>8 DEF StoreInv
<1>6. CASE Register \/ LoadSkip
  <2>1. /\ UNCHANGED <<member, ini, camera, held, programmed, known>>
        /\ load'.pc = "read"
    BY <1>6 DEF Register, LoadSkip, history, Reading
  <2>2. \A q : Stored(q)' = Stored(q) /\ Storing(q)' = Storing(q)
               /\ Sending(q)' = Sending(q)
    BY <2>1 DEF Stored, Storing, Sending, At, Current
  <2> QED BY <2>1, <2>2 DEF StoreInv, At, Current
<1>7. CASE LoadRead
  <2>1. /\ UNCHANGED <<member, ini, camera, held, programmed, known>>
        /\ load'.at = load.at /\ load'.value = Stored(LoadOrder[load.at])
    BY <1>7 DEF LoadRead, history, TypeInv, CallInv
  <2>2. \A q : Stored(q)' = Stored(q) /\ Storing(q)' = Storing(q)
               /\ Sending(q)' = Sending(q)
    BY <2>1 DEF Stored, Storing, Sending, At, Current
  <2> QED BY <2>1, <2>2 DEF StoreInv, At, Current
<1>8. CASE LoadPrime
  <2> DEFINE s == LoadOrder[load.at]
  <2>1. /\ s \in Settings \cap Primed
        /\ UNCHANGED <<ini, camera, held, programmed>>
        /\ member' = [member EXCEPT ![s] = load.value]
        /\ member \in [Settings -> Values] /\ known \subseteq Settings
        /\ known' = known \cup {s}
        /\ load'.at = load.at /\ load'.value = load.value
    BY <1>8 DEF LoadPrime, TypeInv, CallInv, TypeOK
  <2>2. \A q : Stored(q)' = Stored(q) /\ Storing(q)' = Storing(q)
               /\ Sending(q)' = Sending(q)
    BY <2>1 DEF Stored, Storing, Sending, At, Current
  <2>3. /\ ~EarlyUsers => held = Free
        /\ held = Free => ~Storing(s)
        /\ EarlyUsers => s \in Raced
    BY <1>8, <2>1, FreeFacts DEF LoadPrime, TypeInv, CallInv, Storing, At, Raced
  <2>6. ReadBack(s, Stored(s)) = Stored(s)
    BY <2>1, StoredType DEF TypeInv, TypeOK
  <2>4. \A q \in (known' \cap Cached) \ Raced :
          ~Storing(q)' => ReadBack(q, member'[q]) = Stored(q)'
    BY <1>8, <2>1, <2>2, <2>3, <2>6 DEF StoreInv, LoadPrime
  <2>5. \A q \in Settings :
          /\ load'.pc # "read" /\ q = LoadOrder[load'.at]
          /\ (~EarlyUsers \/ q \notin known') /\ ~Storing(q)'
          => load'.value = Stored(q)'
    BY <1>8, <2>1, <2>2 DEF StoreInv, LoadPrime
  <2> QED BY <2>1, <2>2, <2>4, <2>5 DEF StoreInv
<1>12. CASE LoadArg
  <2> DEFINE s == LoadOrder[load.at]
  <2>1. /\ UNCHANGED <<member, ini, camera, held, programmed, known>>
        /\ load'.at = load.at /\ load'.value \in {load.value, member[s]}
        /\ s \in Settings \cap Primed /\ load.pc = "arg"
    BY <1>12 DEF LoadArg, history, TypeInv, CallInv
  <2>2. \A q : Stored(q)' = Stored(q) /\ Storing(q)' = Storing(q)
               /\ Sending(q)' = Sending(q)
    BY <2>1 DEF Stored, Storing, Sending, At, Current
  <2>3. ~EarlyUsers => load'.value = load.value
    BY <1>12, <2>1 DEF TypeInv, CallInv
  <2>4. s \in known
    BY <2>1 DEF TypeInv, CallInv
  <2>5. \A q \in Settings :
          /\ load'.pc # "read" /\ q = LoadOrder[load'.at]
          /\ (~EarlyUsers \/ q \notin known') /\ ~Storing(q)'
          => load'.value = Stored(q)'
    BY <2>1, <2>2, <2>3, <2>4 DEF StoreInv
  <2> QED BY <2>1, <2>2, <2>5 DEF StoreInv, At, Current
<1>9. CASE LoadCall
  <2>1. LoadOrder[load.at] \in Settings /\ load.value \in Values
    BY <1>9 DEF LoadCall, TypeInv, CallInv
  <2> QED BY <1>9, <2>1, StoreCall DEF LoadCall
<1>10. CASE Restart
  <2>1. /\ programmed' = {} /\ known' = {} /\ load'.pc = "read" /\ held' = Free
    BY <1>10 DEF Restart, Waiting
  <2>2. \A q : ~Storing(q)' /\ ~Sending(q)'
    BY <2>1, FreeFacts DEF Storing, Sending, At
  <2> QED BY <2>1, <2>2 DEF StoreInv
<1>11. CASE UNCHANGED vars
  <2>1. \A q : Stored(q)' = Stored(q) /\ Storing(q)' = Storing(q)
               /\ Sending(q)' = Sending(q)
    BY <1>11 DEF Stored, Storing, Sending, At, Current, vars
  <2> QED BY <1>11, <2>1 DEF vars, StoreInv, At, Current
<1> QED BY <1>1, <1>2, <1>3, <1>4, <1>5, <1>6, <1>7, <1>8, <1>9, <1>10, <1>11, <1>12
         DEF Next, Work, Load

\* The member and the file agree for every setting, if writing the file does not
\* fail: CConfig::SetValue() is the one result no setter looks at.
THEOREM StoreCorrect == ASSUME ~ConfigFails PROVE Spec => []StoreFollows
<1>1. Init => TypeInv /\ LoadInv /\ StoreInv
  BY InitType, FreeFacts DEF Init, LoadInv, StoreInv, Storing, Sending, At, Waiting
<1>2. TypeInv /\ LoadInv /\ StoreInv /\ [Next]_vars => (TypeInv /\ LoadInv /\ StoreInv)'
  BY NextType, NextLoad, NextStore
<1>3. Spec => [](TypeInv /\ LoadInv /\ StoreInv)
  BY <1>1, <1>2, PTL DEF Spec
<1> QED BY <1>3, StoreIsStoreFollows, PTL

-----------------------------------------------------------------------------
(* What the callers were told                                              *)

\* A user's call has stored and not yet answered.
Unanswered(s) == Storing(s) /\ held.by = "user"

ReadAs(s, D) == {ReadBack(s, v) : v \in D}

AckInv ==
  /\ \A s \in (Cached \cup Serial) \cap Settings :
       ~Unanswered(s) => Stored(s) \in ReadAs(s, durable[s])
  /\ \A s \in Settings : held.by = "load" /\ Current = s => held.value = Stored(s)

LEMMA AckIsAcked == AckInv => AckedSurvives
BY DEF AckInv, AckedSurvives, ReadAs, Quiet, Unanswered, Storing

\* What Answer() leaves of the history, once the file holds the value.
LEMMA AnswerDurable ==
  ASSUME durable \in [Settings -> SUBSET (Values \cup {NoValue})], NEW by, NEW s \in Settings, NEW v,
         Answer(by, s, v)
  PROVE  /\ \A q \in Settings : q # s => durable'[q] = durable[q]
         /\ durable'[s] = IF by = "user" /\ s \in known' THEN {v} ELSE durable[s]
BY DEF Answer

LEMMA NextAck == ASSUME ~ConfigFails, ~EarlyUsers, TypeInv, StoreInv, AckInv, [Next]_vars
                 PROVE  AckInv'
<1>t. durable \in [Settings -> SUBSET (Values \cup {NoValue})]
  BY DEF TypeInv, TypeOK
<1>r. Raced = {}
  BY DEF Raced
<1>m. /\ \A q, D : \A v \in D : ReadBack(q, v) \in ReadAs(q, D)
      /\ \A q, D, E : D \subseteq E => ReadAs(q, D) \subseteq ReadAs(q, E)
  BY DEF ReadAs
<1>0. ASSUME NEW by \in {"user", "load"}, NEW s \in Settings, NEW v \in Values,
             Call(by, s, v), by = "load" => v = Stored(s)
      PROVE  AckInv'
  <2>1. UNCHANGED ini /\ held = Free
    BY <1>0, CallFacts
  <2>2. \A q : Stored(q)' = Stored(q) /\ ~Unanswered(q)
    BY <2>1, FreeFacts DEF Stored, Unanswered
  <2>3. CASE Same(by, s, v)
    <3>1. /\ member[s] = v /\ s \in Cached /\ Answer(by, s, v) /\ UNCHANGED held
          /\ by = "user" => known' = known
      BY <2>3 DEF Same
    <3>2. by = "user" /\ s \in known => Stored(s) = ReadBack(s, v)
      BY <1>r, <2>1, <3>1, FreeFacts DEF StoreInv, Storing, At
    <3>3. /\ \A q \in Settings : q # s => durable'[q] = durable[q]
          /\ durable'[s] = IF by = "user" /\ s \in known' THEN {v} ELSE durable[s]
      BY <1>t, <3>1, AnswerDurable
    <3>4. \A q \in (Cached \cup Serial) \cap Settings : Stored(q) \in ReadAs(q, durable'[q])
      BY <1>m, <2>2, <3>1, <3>2, <3>3 DEF AckInv
    <3> QED BY <2>1, <2>2, <3>1, <3>4, FreeFacts DEF AckInv
  <2>4. CASE Refused(s, v)
    <3>1. UNCHANGED <<held, durable>>
      BY <2>4 DEF Refused, history
    <3> QED BY <2>1, <2>2, <3>1, FreeFacts DEF AckInv
  <2>5. CASE Enter(by, s, v)
    <3>1. /\ UNCHANGED durable
          /\ held' = [by |-> by, setting |-> s, value |-> v, todo |-> Steps(s)]
      BY <2>5 DEF Enter, history
    <3>2. \A q : Current' = q => q = s
      BY <3>1 DEF Current
    <3> QED BY <1>0, <2>1, <2>2, <3>1, <3>2 DEF AckInv
  <2> QED BY <1>0, <2>3, <2>4, <2>5 DEF Call
<1>1. CASE \E s \in Settings, v \in Values : UserCall(s, v)
  BY <1>0, <1>1 DEF UserCall
<1>2. CASE CameraSet \/ CameraFails
  <2>1. /\ UNCHANGED ini /\ At("camera") /\ ~At("cache") /\ Current \in Settings /\ held # Free
    BY <1>2, AtHeld, HeldFacts DEF CameraSet, CameraFails, At
  <2>2. \A q : Stored(q)' = Stored(q) /\ ~Unanswered(q)
    BY <2>1 DEF Stored, Unanswered, Storing
  <2>3. CASE held' = Free
    <3>1. UNCHANGED durable \/ Current \notin Cached \cup Serial
      <4>1. CASE CameraSet /\ Current \in Cached \cup Serial
        <5>1. Next1 # <<>>
          BY <2>1, <4>1, TodoFacts, Apart DEF TypeInv, Cached
        <5> QED BY <4>1, <5>1, <2>1, AdvanceFacts DEF CameraSet
      <4> QED BY <1>2, <4>1 DEF CameraFails, history
    <3>2. \A q \in Settings : q # Current => durable'[q] = durable[q]
      BY <1>2, <1>t, <2>1, AnswerDurable DEF CameraSet, CameraFails, history, Advance
    <3>3. \A q \in (Cached \cup Serial) \cap Settings : durable'[q] = durable[q]
      BY <3>1, <3>2
    <3> QED BY <2>2, <2>3, <3>3, FreeFacts DEF AckInv
  <2>4. CASE held' # Free
    <3>1. /\ UNCHANGED durable /\ Current' = Current
          /\ held'.by = held.by /\ held'.value = held.value
      BY <1>2, <2>1, <2>4, AdvanceFacts DEF CameraSet, CameraFails
    <3> QED BY <2>2, <3>1 DEF AckInv
  <2> QED BY <2>3, <2>4
<1>3. CASE Store
  <2>1. held # Free /\ Advance /\ At("store") /\ ~At("cache") /\ Current \in Settings
        /\ held.value \in Values /\ ini' = [ini EXCEPT ![Current] = held.value]
        /\ ini \in [Settings -> Values \cup {NoValue}]
    BY <1>3, AtHeld, HeldFacts DEF Store, At, TypeInv, TypeOK
  <2>2. \A q \in Settings :
          Stored(q)' = IF q = Current THEN ReadBack(q, held.value) ELSE Stored(q)
    BY <2>1, InfraredAssumption DEF Stored, InfraredAssumption
  <2>3. \A q : ~Unanswered(q)
    BY <2>1 DEF Unanswered, Storing
  <2>4. held.by \in {"user", "load"}
    BY <2>1, HeldFacts DEF TypeInv, TypeOK
  <2>7. held.by = "load" => /\ held.value = Stored(Current)
                            /\ ReadBack(Current, held.value) = held.value
    BY <2>1, StoredType DEF AckInv
  <2>5. CASE Next1 = <<>>
    <3>1. /\ held' = Free /\ known' = known \cup {Current}
          /\ Answer(held.by, Current, held.value)
      BY <2>1, <2>5 DEF Advance
    <3>2. /\ \A q \in Settings : q # Current => durable'[q] = durable[q]
          /\ durable'[Current] = IF held.by = "user" THEN {held.value} ELSE durable[Current]
      BY <1>t, <2>1, <3>1, AnswerDurable
    <3>3. \A q \in (Cached \cup Serial) \cap Settings : Stored(q)' \in ReadAs(q, durable'[q])
      BY <1>m, <2>1, <2>2, <2>3, <2>4, <2>7, <3>2 DEF AckInv
    <3> QED BY <3>1, <3>3, FreeFacts DEF AckInv
  <2>6. CASE Next1 # <<>>
    <3>1. /\ UNCHANGED durable /\ held'.by = held.by /\ held'.value = held.value
          /\ Current' = Current /\ held'.todo = Next1 /\ held' # Free
      BY <2>1, <2>6, AdvanceFacts
    <3>2. Current \in Cached => At("cache")'
      BY <2>1, <2>6, <3>1, TodoFacts, Apart DEF TypeInv, Cached, At
    <3>3. Current \notin Serial
      BY <2>1, <2>6, TodoFacts, Apart DEF TypeInv
    <3>4. \A q : Unanswered(q)' <=> (q = Current /\ held.by = "user" /\ At("cache")')
      BY <3>1 DEF Unanswered, Storing
    <3>5. \A q \in (Cached \cup Serial) \cap Settings :
            ~Unanswered(q)' => Stored(q)' \in ReadAs(q, durable'[q])
      BY <1>m, <2>1, <2>2, <2>3, <2>4, <2>7, <3>1, <3>2, <3>3, <3>4 DEF AckInv
    <3> QED BY <2>2, <2>7, <3>1, <3>5 DEF AckInv
  <2> QED BY <2>5, <2>6
<1>4. CASE Cache
  <2>1. held # Free /\ Advance /\ At("cache") /\ Current \in Settings /\ UNCHANGED ini
        /\ held.by \in {"user", "load"}
    BY <1>4, AtHeld, HeldFacts DEF Cache, At, TypeInv, TypeOK
  <2>2. Next1 = <<>>
    BY <2>1, TodoFacts, Apart DEF TypeInv
  <2>3. /\ held' = Free /\ known' = known \cup {Current}
        /\ Answer(held.by, Current, held.value)
    BY <2>1, <2>2 DEF Advance
  <2>4. /\ \A q \in Settings : q # Current => durable'[q] = durable[q]
        /\ durable'[Current] = IF held.by = "user" THEN {held.value} ELSE durable[Current]
    BY <1>t, <2>1, <2>3, AnswerDurable
  <2>5. /\ Stored(Current) = ReadBack(Current, held.value)
        /\ \A q : Unanswered(q) => q = Current /\ held.by = "user"
        /\ \A q : Stored(q)' = Stored(q)
    BY <2>1 DEF StoreInv, Storing, Unanswered, Stored
  <2>6. \A q \in (Cached \cup Serial) \cap Settings : Stored(q)' \in ReadAs(q, durable'[q])
    BY <1>m, <2>1, <2>4, <2>5 DEF AckInv
  <2> QED BY <2>3, <2>6, FreeFacts DEF AckInv
<1>5. CASE Register \/ LoadSkip \/ LoadRead \/ LoadPrime \/ LoadArg \/ UNCHANGED vars
  <2>1. UNCHANGED <<held, ini, durable>>
    BY <1>5 DEF Register, LoadSkip, LoadRead, LoadPrime, LoadArg, history, vars
  <2>2. \A q : Stored(q)' = Stored(q) /\ (Unanswered(q)' <=> Unanswered(q))
    BY <2>1 DEF Stored, Unanswered, Storing, At, Current
  <2> QED BY <2>1, <2>2 DEF AckInv, Current
<1>6. CASE LoadCall
  <2>1. LoadOrder[load.at] \in Settings /\ load.value \in Values /\ held = Free
    BY <1>6 DEF LoadCall, TypeInv, CallInv
  <2>2. load.value = Stored(LoadOrder[load.at])
    BY <1>6, <2>1, FreeFacts DEF LoadCall, StoreInv, Storing, At
  <2> QED BY <1>0, <1>6, <2>1, <2>2 DEF LoadCall
<1>7. CASE Restart
  <2>1. /\ held' = Free /\ UNCHANGED ini
        /\ durable' = IF held.by = "user" /\ held.todo # <<>>
                      THEN [durable EXCEPT ![Current] = @ \cup {held.value}] ELSE durable
    BY <1>7 DEF Restart
  <2>2. \A q \in Settings : /\ durable[q] \subseteq durable'[q]
                            /\ Unanswered(q) => held.value \in durable'[q]
    BY <1>t, <2>1 DEF Unanswered, Storing, At
  <2>3. \A q \in Settings : Unanswered(q) => Stored(q) = ReadBack(q, held.value)
    BY DEF StoreInv, Unanswered
  <2>4. \A q : Stored(q)' = Stored(q) /\ ~Unanswered(q)'
    BY <2>1, FreeFacts DEF Stored, Unanswered
  <2>5. \A q \in (Cached \cup Serial) \cap Settings : Stored(q)' \in ReadAs(q, durable'[q])
    BY <1>m, <2>2, <2>3, <2>4 DEF AckInv
  <2> QED BY <2>1, <2>5, FreeFacts DEF AckInv
<1> QED BY <1>1, <1>2, <1>3, <1>4, <1>5, <1>6, <1>7 DEF Next, Work, Load

\* What a caller was told is done survives failing calls and restarts, if nobody
\* calls before LoadParam() has ended and writing the file does not fail.
THEOREM AckedCorrect == ASSUME ~EarlyUsers, ~ConfigFails PROVE Spec => []AckedSurvives
<1>1. Init => TypeInv /\ LoadInv /\ StoreInv /\ AckInv
  <2> SUFFICES ASSUME Init PROVE TypeInv /\ LoadInv /\ StoreInv /\ AckInv OBVIOUS
  <2>1. TypeInv
    BY InitType
  <2>2. LoadInv /\ StoreInv
    BY FreeFacts DEF Init, LoadInv, StoreInv, Storing, Sending, At, Waiting
  <2>3. \A s \in Settings : ReadBack(s, Stored(s)) = Stored(s)
    BY <2>1, StoredType DEF TypeInv, TypeOK
  <2>4. \A s \in Settings : Stored(s) \in ReadAs(s, durable[s])
    BY <2>3 DEF Init, ReadAs
  <2> QED BY <2>1, <2>2, <2>4, FreeFacts DEF Init, AckInv
<1>2. TypeInv /\ LoadInv /\ StoreInv /\ AckInv /\ [Next]_vars
        => (TypeInv /\ LoadInv /\ StoreInv /\ AckInv)'
  BY NextType, NextLoad, NextStore, NextAck
<1>3. Spec => [](TypeInv /\ LoadInv /\ StoreInv /\ AckInv)
  BY <1>1, <1>2, PTL DEF Spec
<1> QED BY <1>3, AckIsAcked, PTL

=============================================================================
