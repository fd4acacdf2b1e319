--------------------------- MODULE VisLightImage ---------------------------
(***************************************************************************)
(* The settings of the visible-light camera (CVisLightImage.cpp): the      *)
(* member the getters report, the configuration file, and the camera       *)
(* behind the serial line or the application's callbacks.                  *)
(*                                                                         *)
(* The setters run under m_Lock, except that SetAutoFocuData() unlocks it  *)
(* without holding it when its callback is missing: more than one call may *)
(* then be inside.  LoadParam() is outside the lock between the setters it *)
(* calls.  The modelled object is one whose Init() returned 0.             *)
(***************************************************************************)
EXTENDS Integers, Sequences

CONSTANTS
  VisUsers,      (* the threads that call the setters                       *)
  VisSettings,   (* the settings of this instance                           *)
  VisValues,     (* values they take; a missing key reads as one of them    *)
  VisNone,       (* no value                                                *)
  VisMaxRestarts (* bound: restarts of the process                          *)

(* Three setters write to the serial line, whatever comes of it; one       *)
(* reaches no camera; two, and the focusing command, call the application. *)
Sent == {"brightness", "contrast", "sharpness"}
Called == {"focus", "zoom"}
Held == Sent \cup Called \cup {"saturation"}
Loader == "LoadParam"
Callers == VisUsers \cup {Loader}

ASSUME VisAssumption ==
  /\ VisSettings \subseteq Held /\ VisNone \notin VisValues
  /\ VisValues \subseteq Int
  /\ Loader \notin VisUsers
  /\ VisMaxRestarts \in Nat

VARIABLES
  visCallbacks,  (* what the application registered a callback for          *)
  visMember,     (* m_brightness, m_contrast, m_focu_mode, ...              *)
  visFile,       (* the section vis_light_section_cfg                       *)
  visCamera,     (* what the camera is set to                               *)
  visLocked,     (* m_Lock                                                  *)
  visCall,       (* the setter each thread is in, and what it has yet to do *)
  visLoad,       (* progress of LoadParam()                                 *)
  visKnown,      (* history: settings set, or found set, in this run        *)
  visTold,       (* history: settings the camera was told in this run       *)
  visLost,       (* history: settings whose last serial write failed        *)
  visMixed,      (* history: settings two calls were inside for at once     *)
  visUnsaved,    (* history: settings whose last store failed in this run   *)
  visRestarts

visVars == <<visCallbacks, visMember, visFile, visCamera, visLocked, visCall,
             visLoad, visKnown, visTold, visLost, visMixed, visUnsaved, visRestarts>>

Outside == [setting |-> "none", value |-> VisNone, todo |-> <<>>]
LoadOrder == <<"brightness", "contrast", "focus", "saturation", "sharpness", "zoom">>
Unloaded == [at |-> 0, value |-> VisNone]
Inside(c) == visCall[c].todo # <<>>
Busy(s) == \E c \in Callers : Inside(c) /\ visCall[c].setting = s

\* The constructor sets three of the members; the others are bare memory.
Made(s) ==
  CASE s \in {"brightness", "contrast"} -> {0}
    [] s = "focus" -> {-1}
    [] OTHER -> VisValues

\* A setting that goes over the serial line loses all but its low byte.
Wire(s, v) == IF s \in Sent THEN v % 256 ELSE v

MadeMembers == {m \in [VisSettings -> VisValues \cup {0, -1}] :
                  \A s \in VisSettings : m[s] \in Made(s)}

VisInit ==
  /\ visCallbacks = {}
  /\ visMember \in MadeMembers
  /\ visFile \in [VisSettings -> VisValues]
  /\ \E told \in [VisSettings -> VisValues] :
       visCamera = [s \in VisSettings |-> Wire(s, told[s])]
  /\ visLocked = FALSE
  /\ visCall = [c \in Callers |-> Outside]
  /\ visLoad = Unloaded
  /\ visKnown = {} /\ visTold = {} /\ visLost = {} /\ visMixed = {}
  /\ visUnsaved = {}
  /\ visRestarts = 0

-----------------------------------------------------------------------------
(* The setters                                                             *)

\* Mutant: the zoom is kept before the camera is told, as if it could not fail.
ToDoKeepFirst(s) ==
  CASE s \in Sent -> <<"send", "keep", "store">>
    [] s = "saturation" -> <<"keep", "store">>
    [] s = "focus" -> <<"call", "keep", "store">>
    [] s = "zoom" -> <<"keep", "call", "store">>
    [] OTHER -> <<"call">>

ToDo(s) ==
  CASE s \in Sent -> <<"send", "keep", "store">>
    [] s = "saturation" -> <<"keep", "store">>
    [] s = "focus" -> <<"call", "keep", "store">>
    [] s = "zoom" -> <<"call", "store", "keep">>
    [] OTHER -> <<"call">>

\* All but the zoom are compared with the member before anything is done.
Same(s, v) == s \in Held \ {"zoom"} /\ visMember[s] = v
Missing(s) == s \in Called \cup {"autofocus"} /\ s \notin visCallbacks

\* LoadParam() goes on when a setter it called returns.
LoadNext(c) == visLoad' = IF c = Loader THEN [at |-> visLoad.at + 1, value |-> VisNone]
                                        ELSE visLoad

EnterSame(c, s, v) ==
  /\ ~visLocked /\ Same(s, v)
  /\ visKnown' = IF c = Loader THEN visKnown \cup {s} ELSE visKnown
  /\ LoadNext(c)
  /\ UNCHANGED <<visCallbacks, visMember, visFile, visCamera, visLocked,
                 visCall, visTold, visLost, visMixed, visUnsaved, visRestarts>>

EnterMissing(c, s, v) ==
  /\ ~visLocked /\ ~Same(s, v) /\ Missing(s) /\ s # "autofocus"
  /\ LoadNext(c)
  /\ UNCHANGED <<visCallbacks, visMember, visFile, visCamera, visLocked,
                 visCall, visKnown, visTold, visLost, visMixed, visUnsaved,
                 visRestarts>>

\* Mutant: a setter without the lock.
EnterUnlocked(c, s, v) ==
  /\ ~Same(s, v) /\ ~Missing(s)
  /\ visLocked' = TRUE
  /\ visCall' = [visCall EXCEPT ![c] = [setting |-> s, value |-> v, todo |-> ToDo(s)]]
  /\ visMixed' = IF Busy(s) THEN visMixed \cup {s} ELSE visMixed
  /\ UNCHANGED <<visCallbacks, visMember, visFile, visCamera, visLoad, visKnown,
                 visTold, visLost, visUnsaved, visRestarts>>

Enter(c, s, v) ==
  /\ ~visLocked /\ ~Same(s, v) /\ ~Missing(s)
  /\ visLocked' = TRUE
  /\ visCall' = [visCall EXCEPT ![c] = [setting |-> s, value |-> v, todo |-> ToDo(s)]]
  /\ visMixed' = IF Busy(s) THEN visMixed \cup {s} ELSE visMixed
  /\ UNCHANGED <<visCallbacks, visMember, visFile, visCamera, visLoad, visKnown,
                 visTold, visLost, visUnsaved, visRestarts>>

\* SetAutoFocuData() without its callback.
Unlock(s) ==
  /\ s = "autofocus" /\ Missing(s)
  /\ visLocked' = FALSE
  /\ UNCHANGED <<visCallbacks, visMember, visFile, visCamera, visCall, visLoad,
                 visKnown, visTold, visLost, visMixed, visUnsaved, visRestarts>>

Set(c, s, v) == EnterSame(c, s, v) \/ EnterMissing(c, s, v) \/ Enter(c, s, v)

UserSets(c) ==
  /\ visLoad.at > 0 /\ ~Inside(c)
  /\ \/ \E s \in VisSettings, v \in VisValues : Set(c, s, v)
     \/ Enter(c, "autofocus", VisNone)
     \/ Unlock("autofocus")

\* The call of c leaves the section.
Leave(c) ==
  /\ visLocked' = FALSE
  /\ visCall' = [visCall EXCEPT ![c] = Outside]
  /\ LoadNext(c)

\* A step of the call is done, the last one perhaps.
Done(c) ==
  LET call == visCall[c] IN
  IF Tail(call.todo) = <<>>
  THEN Leave(c) /\ visKnown' = visKnown \cup ({call.setting} \cap Held)
  ELSE /\ visCall' = [visCall EXCEPT ![c].todo = Tail(@)]
       /\ UNCHANGED <<visLocked, visLoad, visKnown>>

At(c, step) == Inside(c) /\ Head(visCall[c].todo) = step

Apply(c) ==
  LET s == visCall[c].setting IN
  IF s \in Held
  THEN /\ visCamera' = [visCamera EXCEPT ![s] = Wire(s, visCall[c].value)]
       /\ visTold' = visTold \cup {s} /\ visLost' = visLost \ {s}
  ELSE UNCHANGED <<visCamera, visTold, visLost>>

\* UartWrite(): nobody asks whether the bytes went out.
Send(c) ==
  /\ At(c, "send")
  /\ \/ Apply(c)
     \/ visLost' = visLost \cup {visCall[c].setting} /\ UNCHANGED <<visCamera,
                                                                    visTold>>
  /\ Done(c)
  /\ UNCHANGED <<visCallbacks, visMember, visFile, visMixed, visUnsaved,
                 visRestarts>>

Call(c) ==
  /\ At(c, "call")
  /\ Apply(c) /\ Done(c)
  /\ UNCHANGED <<visCallbacks, visMember, visFile, visMixed, visUnsaved,
                 visRestarts>>

CallFails(c) ==
  /\ At(c, "call")
  /\ Leave(c)
  /\ UNCHANGED <<visCallbacks, visMember, visFile, visCamera, visKnown, visTold,
                 visLost, visMixed, visUnsaved, visRestarts>>

Keep(c) ==
  /\ At(c, "keep")
  /\ visMember' = [visMember EXCEPT ![visCall[c].setting] = visCall[c].value]
  /\ Done(c)
  /\ UNCHANGED <<visCallbacks, visFile, visCamera, visTold, visLost, visMixed,
                 visUnsaved, visRestarts>>

\* Nobody asks whether the value was stored, either.
Store(c) ==
  /\ At(c, "store")
  /\ LET s == visCall[c].setting IN
     \/ /\ visFile' = [visFile EXCEPT ![s] = visCall[c].value]
        /\ visUnsaved' = visUnsaved \ {s}
     \/ visUnsaved' = visUnsaved \cup {s} /\ UNCHANGED visFile
  /\ Done(c)
  /\ UNCHANGED <<visCallbacks, visMember, visCamera, visTold, visLost, visMixed,
                 visRestarts>>

-----------------------------------------------------------------------------
(* RegisterVisCtrlCb() and LoadParam()                                     *)

\* The application may leave any of the callbacks out.
Register ==
  /\ visLoad.at = 0 /\ ~visLocked
  /\ visCallbacks' \in SUBSET ((Called \cap VisSettings) \cup {"autofocus"})
  /\ visLoad' = [visLoad EXCEPT !.at = 1]
  /\ UNCHANGED <<visMember, visFile, visCamera, visLocked, visCall, visKnown,
                 visTold, visLost, visMixed, visUnsaved, visRestarts>>

Loading == visLoad.at \in 1..6

LoadSkip ==
  /\ Loading /\ LoadOrder[visLoad.at] \notin VisSettings
  /\ visLoad' = [visLoad EXCEPT !.at = @ + 1]
  /\ UNCHANGED <<visCallbacks, visMember, visFile, visCamera, visLocked,
                 visCall, visKnown, visTold, visLost, visMixed, visUnsaved,
                 visRestarts>>

LoadRead ==
  /\ Loading /\ LoadOrder[visLoad.at] \in VisSettings
  /\ visLoad.value = VisNone
  /\ visLoad' = [visLoad EXCEPT !.value = visFile[LoadOrder[visLoad.at]]]
  /\ UNCHANGED <<visCallbacks, visMember, visFile, visCamera, visLocked,
                 visCall, visKnown, visTold, visLost, visMixed, visUnsaved,
                 visRestarts>>

LoadSets ==
  /\ Loading /\ visLoad.value # VisNone /\ ~Inside(Loader)
  /\ Set(Loader, LoadOrder[visLoad.at], visLoad.value)

\* The process dies and starts again; the camera and the file stay.
VisRestart ==
  /\ visRestarts < VisMaxRestarts /\ visRestarts' = visRestarts + 1
  /\ visCallbacks' = {}
  /\ visMember' \in MadeMembers
  /\ visLocked' = FALSE
  /\ visCall' = [c \in Callers |-> Outside]
  /\ visLoad' = Unloaded
  /\ visKnown' = {} /\ visTold' = {} /\ visLost' = {} /\ visMixed' = {}
  /\ visUnsaved' = {}
  /\ UNCHANGED <<visFile, visCamera>>

VisWork(c) == Send(c) \/ Call(c) \/ CallFails(c) \/ Keep(c) \/ Store(c)

VisNext ==
  \/ \E c \in VisUsers : UserSets(c)
  \/ \E c \in Callers : VisWork(c)
  \/ Register \/ LoadSkip \/ LoadRead \/ LoadSets
  \/ VisRestart

VisSpec == VisInit /\ [][VisNext]_visVars

-----------------------------------------------------------------------------
(* Correctness                                                             *)

\* Every variable has its type, and a call has steps left while it is inside.
VisTypeOK ==
  /\ visCallbacks \subseteq Called \cup {"autofocus"}
  /\ visMember \in [VisSettings -> VisValues \cup {0, -1}]
  /\ visFile \in [VisSettings -> VisValues]
  /\ visCamera \in [VisSettings -> Int]
  /\ visLocked \in BOOLEAN
  /\ \A c \in Callers :
       \/ visCall[c] = Outside
       \/ \E s \in VisSettings, v \in VisValues, i \in 1..3 :
            /\ i <= Len(ToDo(s))
            /\ visCall[c] = [setting |-> s, value |-> v, todo |-> SubSeq(ToDo(s), i, Len(ToDo(s)))]
       \/ visCall[c] = [setting |-> "autofocus", value |-> VisNone, todo |-> <<"call">>]
  /\ visLoad \in [at : 0..7, value : VisValues \cup {VisNone}]
  /\ visKnown \subseteq VisSettings /\ visTold \subseteq VisSettings
  /\ visLost \subseteq VisSettings /\ visMixed \subseteq VisSettings \cup {"autofocus"}
  /\ visUnsaved \subseteq VisSettings
  /\ visRestarts \in 0..VisMaxRestarts

\* With the focusing callback registered, m_Lock does its work: it is locked
\* exactly while a call is inside, and no second one is.
VisSectionExclusive ==
  (visLoad.at > 0 /\ "autofocus" \in visCallbacks) =>
    /\ visLocked <=> \E c \in Callers : Inside(c)
    /\ \A c, d \in Callers : Inside(c) /\ Inside(d) => c = d

Quiet(s) == ~Busy(s) /\ s \notin visMixed

\* The member a getter reports is what the camera was last told, as much of it as
\* goes over the line, whatever failed or overlapped, except for a setting whose
\* last serial write was lost or which two calls set at the same time; so it is
\* with or without the lock.
VisCameraAgrees ==
  \A s \in visTold \ visLost : Quiet(s) => visCamera[s] = Wire(s, visMember[s])

\* Between calls, what a setting is after LoadParam() or a call is also what the
\* next start of the process will load, unless its last store failed, which
\* nobody notices, or two calls set it at once.
VisStoreAgrees ==
  \A s \in visKnown \ visUnsaved : Quiet(s) => visFile[s] = visMember[s]

\* Both: camera, member and file agree between calls.
VisAgrees == VisCameraAgrees /\ VisStoreAgrees

=============================================================================
