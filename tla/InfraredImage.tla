---------------------------- MODULE InfraredImage ----------------------------
(***************************************************************************)
(* The settings of the infrared camera (CCInfraredImage.cpp): the member   *)
(* the getters report, the configuration file, and the camera behind the   *)
(* application's callbacks or the serial line.                             *)
(*                                                                         *)
(* Every call runs under m_Lock, so one call at most is in progress: it is *)
(* `held', with the steps it still has to take.  LoadParam(), which runs   *)
(* when the application registers its callbacks, is outside the lock       *)
(* between the setters it calls.  The modelled object is one whose Init()  *)
(* returned 0.                                                             *)
(***************************************************************************)
EXTENDS Sequences, Integers

CONSTANTS
  Settings,      (* the settings of this instance                           *)
  Values,        (* values they take, in tenths                             *)
  Default,       (* what GetValue() answers for a missing key               *)
  NoValue,       (* a missing key; no answer given                          *)
  EarlyUsers,    (* TRUE: calls arrive before LoadParam() has finished      *)
  ConfigFails,   (* TRUE: writing the file may fail, which no setter checks *)
  MaxRestarts    (* bound: restarts of the process                          *)

(* Six setters compare with the member, call the application, store, cache;*)
(* LoadParam() assigns three of those members itself first.  Two setters   *)
(* reach no camera.  Three write to the serial line, and have no member.   *)
Controlled == {"brightness", "contrast", "polarity"}
Primed == {"zoom", "focus", "gas"}
Kept == {"saturation", "sharpening"}
Serial == {"hotspot", "pal"}
Threshold == {"defect"}
Commands == {"autofocus", "save"}
Cached == Controlled \cup Primed \cup Kept
NeedsCallback == Controlled \cup Primed \cup {"autofocus"}

(* The zoom is written as "%f" and read as a long, where its digits end;   *)
(* every other setting is a whole number, read as it was written.          *)
Whole(v) == v - (v % 10)
ReadBack(s, v) == IF s = "zoom" THEN Whole(v) ELSE v

ASSUME InfraredAssumption ==
  /\ Settings \subseteq Cached \cup Serial \cup Threshold \cup Commands
  /\ Values \subseteq Nat /\ NoValue \notin Values
  /\ \A v \in Values : Whole(v) \in Values
  /\ Default \in Values /\ Whole(Default) = Default
  /\ EarlyUsers \in BOOLEAN /\ ConfigFails \in BOOLEAN
  /\ MaxRestarts \in Nat

VARIABLES
  callbacks,     (* the settings whose callback is not NULL                 *)
  member,        (* m_brightness, m_contrast, m_pseudo, ...                 *)
  ini,           (* the section infrareImage of the file                    *)
  camera,        (* what the camera is set to                               *)
  held,          (* the call that holds m_Lock                              *)
  load,          (* progress of LoadParam()                                 *)
  programmed,    (* history: settings a call carried out in this run        *)
  known,         (* history: settings whose member came from the file or    *)
                 (* from a call carried out, and not from bare memory       *)
  told,          (* history: the value last answered 0 to in this run       *)
  durable,       (* history: values the file may hold                       *)
  restarts

history == <<programmed, known, told, durable>>
vars == <<callbacks, member, ini, camera, held, load, programmed, known, told,
          durable, restarts>>

Free == [by |-> "nobody", setting |-> "none", value |-> NoValue, todo |-> <<>>]
LoadOrder == <<"brightness", "contrast", "polarity", "zoom", "focus", "gas">>
Waiting == [at |-> 0, pc |-> "read", value |-> NoValue]
Last == 6
Loaded == load.at > Last
Reading(i) == [at |-> i, pc |-> "read", value |-> NoValue]

\* Mutant: a missing key is read without its default.
StoredBare(s) == IF ini[s] = NoValue THEN NoValue ELSE ReadBack(s, ini[s])

\* What GetValue() answers.
Stored(s) == IF ini[s] = NoValue THEN Default ELSE ReadBack(s, ini[s])

\* The constructor sets none of the members: they are what the memory held.
Init ==
  /\ callbacks = {}
  /\ member \in [Settings -> Values]
  /\ ini \in [Settings -> Values \cup {NoValue}]
  /\ camera \in [Settings -> Values]
  /\ held = Free /\ load = Waiting
  /\ programmed = {} /\ known = {}
  /\ told = [s \in Settings |-> NoValue]
  /\ durable = [s \in Settings |-> {Stored(s)}]
  /\ restarts = 0

-----------------------------------------------------------------------------
(* The setters                                                             *)

\* Mutant: a setter stores before it calls the application.
StepsStoreFirst(s) ==
  CASE s \in Controlled \cup Primed -> <<"store", "camera", "cache">>
    [] s \in Kept -> <<"store", "cache">>
    [] OTHER -> <<"camera", "store">>

Steps(s) ==
  CASE s \in Controlled \cup Primed -> <<"camera", "store", "cache">>
    [] s \in Kept -> <<"store", "cache">>
    [] s \in Serial -> <<"camera", "store">>
    [] s \in Threshold -> <<"store", "camera">>
    [] OTHER -> <<"camera">>

\* The answer 0 to a caller other than LoadParam().
Answer(by, s, v) ==
  IF by = "user"
  THEN /\ told' = [told EXCEPT ![s] = v]
       /\ durable' = IF s \in known'
                     THEN [durable EXCEPT ![s] = {v}] ELSE durable
  ELSE UNCHANGED <<told, durable>>

\* The member already has the value: return 0 at once.
Same(by, s, v) ==
  /\ held = Free
  /\ s \in Cached /\ member[s] = v
  /\ known' = IF by = "load" THEN known \cup {s} ELSE known
  /\ Answer(by, s, v)
  /\ UNCHANGED <<callbacks, member, ini, camera, held, programmed, restarts>>

\* The callback is NULL: return -1.
Refused(s, v) ==
  /\ held = Free
  /\ s \in NeedsCallback \ callbacks
  /\ s \in Cached => member[s] # v
  /\ UNCHANGED <<callbacks, member, ini, camera, held, history, restarts>>

Enter(by, s, v) ==
  /\ held = Free
  /\ s \in Cached => member[s] # v
  /\ s \in NeedsCallback => s \in callbacks
  /\ held' = [by |-> by, setting |-> s, value |-> v, todo |-> Steps(s)]
  /\ UNCHANGED <<callbacks, member, ini, camera, history, restarts>>

\* One setter, up to the point where it has returned or reached its first step.
Call(by, s, v) == Same(by, s, v) \/ Refused(s, v) \/ Enter(by, s, v)

\* SetElectricFocu() and SetAutoFocuData() share a callback; the former always
\* passes 1, as InfraredImageSaveCmd() does on the serial line.
UserCall(s, v) ==
  /\ EarlyUsers \/ Loaded
  /\ Call("user", s, v)
  /\ UNCHANGED load

Current == held.setting
Next1 == Tail(held.todo)

\* The step just taken was the last: unlock and return 0.
Advance ==
  IF Next1 # <<>>
  THEN /\ held' = [held EXCEPT !.todo = Next1]
       /\ UNCHANGED <<programmed, known, told, durable>>
  ELSE /\ held' = Free
       /\ programmed' = programmed \cup {Current}
       /\ known' = known \cup {Current}
       /\ Answer(held.by, Current, held.value)

At(step) == held.todo # <<>> /\ Head(held.todo) = step

CameraSet ==
  /\ At("camera")
  /\ camera' = [camera EXCEPT ![Current] = held.value]
  /\ Advance
  /\ UNCHANGED <<callbacks, member, ini, load, restarts>>

\* Mutant: the result of the callback is ignored.
CameraFailsUnseen ==
  /\ At("camera")
  /\ Advance
  /\ UNCHANGED <<callbacks, member, ini, camera, load, restarts>>

\* The callback, or the serial write, fails: unlock and return -1.
CameraFails ==
  /\ At("camera")
  /\ held' = Free
  /\ UNCHANGED <<callbacks, member, ini, camera, load, history, restarts>>

\* CConfig::SetValue(), whose result is ignored.
Store ==
  /\ At("store")
  /\ \/ ini' = [ini EXCEPT ![Current] = held.value]
     \/ ConfigFails /\ UNCHANGED ini
  /\ Advance
  /\ UNCHANGED <<callbacks, member, camera, load, restarts>>

Cache ==
  /\ At("cache")
  /\ member' = [member EXCEPT ![Current] = held.value]
  /\ Advance
  /\ UNCHANGED <<callbacks, ini, camera, load, restarts>>

-----------------------------------------------------------------------------
(* RegisterIrCtrlCb(), LoadParam()                                         *)

Register ==
  /\ load.at = 0 /\ held = Free
  /\ callbacks' \in SUBSET (NeedsCallback \cap Settings)
  /\ load' = Reading(1)
  /\ UNCHANGED <<member, ini, camera, held, history, restarts>>

\* A setting this instance leaves out.
LoadSkip ==
  /\ load.at > 0 /\ ~Loaded /\ LoadOrder[load.at] \notin Settings
  /\ held.by # "load"
  /\ load' = Reading(load.at + 1)
  /\ UNCHANGED <<callbacks, member, ini, camera, held, history, restarts>>

LoadRead ==
  /\ load.at > 0 /\ ~Loaded /\ load.pc = "read" /\ held.by # "load"
  /\ LET s == LoadOrder[load.at] IN
       /\ s \in Settings
       /\ load' = [load EXCEPT !.pc = IF s \in Primed THEN "prime" ELSE "call",
                               !.value = Stored(s)]
  /\ UNCHANGED <<callbacks, member, ini, camera, held, history, restarts>>

\* Mutant: the key is misspelt, so that the default is loaded.
LoadPrimeDefault ==
  /\ load.pc = "prime"
  /\ LET s == LoadOrder[load.at] IN
       /\ member' = [member EXCEPT ![s] = Default]
       /\ known' = known \cup {s}
  /\ load' = [load EXCEPT !.pc = "arg"]
  /\ UNCHANGED <<callbacks, ini, camera, held, programmed, told, durable, restarts>>

\* m_ElectronicZoom, m_FocusMode and m_GasEnhanced are assigned without the lock.
LoadPrime ==
  /\ load.pc = "prime"
  /\ LET s == LoadOrder[load.at] IN
       /\ member' = [member EXCEPT ![s] = load.value]
       /\ known' = known \cup {s}
  /\ load' = [load EXCEPT !.pc = "arg"]
  /\ UNCHANGED <<callbacks, ini, camera, held, programmed, told, durable, restarts>>

\* The argument is that member, or the value still in a register.
LoadArg ==
  /\ load.pc = "arg"
  /\ \/ load' = [load EXCEPT !.pc = "call"]
     \/ load' = [load EXCEPT !.pc = "call", !.value = member[LoadOrder[load.at]]]
  /\ UNCHANGED <<callbacks, member, ini, camera, held, history, restarts>>

\* Mutant: LoadParam() repeats a setter instead of going on to the next.
LoadCallAgain ==
  /\ load.pc = "call"
  /\ Call("load", LoadOrder[load.at], load.value)
  /\ load' = Reading(load.at)

LoadCall ==
  /\ load.pc = "call"
  /\ Call("load", LoadOrder[load.at], load.value)
  /\ load' = Reading(load.at + 1)

\* The process ends and starts again; the camera keeps its settings, or starts
\* from its own.
Restart ==
  /\ restarts < MaxRestarts
  /\ callbacks' = {}
  /\ member' \in [Settings -> Values]
  /\ camera' \in [Settings -> Values]
  /\ held' = Free /\ load' = Waiting
  /\ programmed' = {} /\ known' = {}
  /\ told' = [s \in Settings |-> NoValue]
  /\ durable' = IF held.by = "user" /\ held.todo # <<>>
                THEN [durable EXCEPT ![Current] = @ \cup {held.value}] ELSE durable
  /\ restarts' = restarts + 1
  /\ UNCHANGED ini

-----------------------------------------------------------------------------

Load == LoadSkip \/ LoadRead \/ LoadPrime \/ LoadArg \/ LoadCall
Work == CameraSet \/ CameraFails \/ Store \/ Cache

Next ==
  \/ \E s \in Settings, v \in Values : UserCall(s, v)
  \/ Work
  \/ Register \/ Load
  \/ Restart

\* A thread that holds m_Lock, or runs LoadParam(), goes on.
Spec == Init /\ [][Next]_vars /\ WF_vars(Work) /\ WF_vars(Load)

-----------------------------------------------------------------------------
(* Properties                                                              *)

TypeOK ==
  /\ callbacks \subseteq NeedsCallback \cap Settings
  /\ member \in [Settings -> Values]
  /\ ini \in [Settings -> Values \cup {NoValue}]
  /\ camera \in [Settings -> Values]
  /\ held = Free \/ /\ held.by \in {"user", "load"}
                    /\ held.setting \in Settings /\ held.value \in Values
                    /\ held.todo # <<>>
  /\ load.at \in 0..(Last + 1)
  /\ load.pc \in {"read", "prime", "arg", "call"}
  /\ load.value \in Values \cup {NoValue}
  /\ programmed \subseteq Settings /\ known \subseteq Settings
  /\ told \in [Settings -> Values \cup {NoValue}]
  /\ durable \in [Settings -> SUBSET (Values \cup {NoValue})]
  /\ restarts \in 0..MaxRestarts

\* The settings whose member LoadParam() may overwrite under a user's call.
Raced == IF EarlyUsers THEN Primed ELSE {}

Quiet(s) == Current # s

\* What a getter reports is what the camera is set to, for every setting a call
\* has carried out in this run and whatever calls fail, race with LoadParam() or
\* find a callback missing: the member and the camera move together, although the
\* callback is called two steps before the member is assigned.
CameraFollows ==
  \A s \in (programmed \cap (Controlled \cup Primed)) \ Raced :
    Quiet(s) => member[s] = camera[s]

\* What a getter reports is what the next start would load, for every setting
\* whose member is more than uninitialised memory, but for the tenths of a zoom,
\* which the file has and no start reads; a setting of the serial line that was
\* carried out is the one on file.
StoreFollows ==
  \A s \in Settings : Quiet(s) =>
    /\ s \in (known \cap Cached) \ Raced => ReadBack(s, member[s]) = Stored(s)
    /\ s \in programmed \cap Serial => camera[s] = Stored(s)

\* A setting the caller was told is done is what the file is read as until a later
\* call replaces it: neither a restart, LoadParam() writing back what it read, nor
\* a call that fails loses it.  Of a zoom that is its whole part: 1.5 told done is
\* 1 at the next start.  (A call cut off by the restart may have been stored.)
\* ManualDefectRemoval() stores first and is not among them.
AckedSurvives ==
  \A s \in (Cached \cup Serial) \cap Settings :
    Quiet(s) => Stored(s) \in {ReadBack(s, v) : v \in durable[s]}

\* Every call returns and gives the lock back, whatever fails.
CallsReturn == (held # Free) ~> (held = Free)

\* LoadParam() ends: registering the callbacks returns.
LoadEnds == (load.at > 0) ~> (Loaded \/ load = Waiting)

\* Both: no thread is kept in a setter or in the registration.
CallsEnd == CallsReturn /\ LoadEnds

\* SetInfraredImageElectronicZoom(): "successful 0".  Once it has answered 0 the
\* camera is at that zoom.
ZoomReachesCamera ==
  held = Free /\ told["zoom"] # NoValue => camera["zoom"] = told["zoom"]

\* Only the answers before a setting is first carried out in a run can miss:
\* from then on the camera has the value last answered 0 to, unless a call that
\* may change it is in progress.
LaterAnswersReach ==
  \A s \in programmed \cap (Controlled \cup Primed) :
    Quiet(s) /\ told[s] # NoValue => camera[s] = told[s]

=============================================================================
