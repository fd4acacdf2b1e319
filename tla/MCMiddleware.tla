---------------------------- MODULE MCMiddleware ----------------------------
(***************************************************************************)
(* Four parts of the middleware that share no variable: the configuration  *)
(* file, the visible-light camera, the pan-tilt head and its presets.  A   *)
(* behaviour is one of one part, the others staying as they were started.  *)
(***************************************************************************)
EXTENDS ConfigFile, VisLightImage, PtzControl, PtzPresets, TLC

CONSTANTS i1, i2, i3, i4, i5, u1, u2

VARIABLE part

TwoComponents == {"vis", "ptz"}
PtzErases == {"ptz"}
FiveInodes == {i1, i2, i3, i4, i5}
SameWidth == [v \in IniValues |-> 1]
TwoUsers == {u1, u2}
BrightnessAndZoom == {"brightness", "zoom"}
TwoVisValues == {0, 261}
StillOrNot == {WEEKLY, 3}

VisPlain ==
  /\ visMember = [s \in VisSettings |-> CHOOSE v \in Made(s) : TRUE]
  /\ visFile = [s \in VisSettings |-> 261]
  /\ visCamera = [s \in VisSettings |-> Wire(s, 261)]
PtzPlain == file.scan = WEEKLY /\ ~earlyClock

MCInit ==
  /\ part \in {"config", "vis", "ptz", "presets"}
  /\ IniInit /\ VisInit /\ PtzInit /\ PresetInit
  /\ part # "vis" => VisPlain
  /\ part # "ptz" => PtzPlain

MCNext ==
  \/ part = "config" /\ IniNext /\ UNCHANGED <<part, visVars, ptzVars, presetVars>>
  \/ part = "vis" /\ VisNext /\ UNCHANGED <<part, iniVars, ptzVars, presetVars>>
  \/ part = "ptz" /\ PtzNext /\ UNCHANGED <<part, iniVars, visVars, presetVars>>
  \/ part = "presets" /\ PresetNext /\ UNCHANGED <<part, iniVars, visVars, ptzVars>>

MCSpec == MCInit /\ [][MCNext]_<<part, iniVars, visVars, ptzVars, presetVars>>

Symmetry == Permutations(VisUsers)

\* Once calls have overlapped, or a failure has cost other keys, the file promises
\* nothing but its types.
StillPromised == ~Lost

\* What is behind no name and no FILE has no effect any more.
ConfigView ==
  <<[i \in InUse \ {NoFile} |-> text[i]], main, temp, put, done, unsaid, Lost, crashes>>

\* Nothing reads what the camera has of a setting, nor what is known of it, while
\* it was never told, lost the last write, or was set by two calls at once; and
\* a restart leads to where the process also starts.
Reported == visTold \ (visLost \cup visMixed)
VisView ==
  <<visCallbacks, visMember, visFile, [s \in Reported |-> visCamera[s]], visLocked,
    visCall, visLoad, visKnown \ visMixed, visMixed \cap VisSettings,
    visUnsaved \ visMixed>>

\* A call that was overlapped reads what it moves by, once it has read it; the
\* time since the head went to zero matters to an early clock only.  No step reads
\* what the head has, what was moved, lost or stale, or the columns in the file,
\* and each of them is written whenever what it is compared with is: of them it
\* is enough to know which comparisons hold, those apart that a client on its way
\* is still to make true.
Overtaken(c) == c \notin alone
OpView(c) ==
  [op[c] EXCEPT
     !.yaw = IF Overtaken(c) /\ op[c].move \notin {"LEFT", "RIGHT"} THEN 0 ELSE @,
     !.pitch = IF Overtaken(c) /\ op[c].move \notin {"UP", "DOWN"} THEN 0 ELSE @]
SomeOn(pcs) == \E c \in Clients : op[c].pc \in pcs
PtzClaims ==
  <<moved = {} \/ zeroed \/ SkipsZero,
    YawKnown => head.yaw = member.yaw,
    "pitch" \in moved \ lost => PitchWithinStep,
    zeroed /\ ~SomeOn({"enable"}) => head.enabled \/ "enabled" \in lost,
    zeroed /\ ~SomeOn({"enable", "scan"}) => head.mode = CONSTANT_SCAN \/ "mode" \in lost,
    ~overlapped /\ ~SomeOn({"save", "store"}) /\ "pitch" \notin stale => file.pitch = member.pitch,
    ~overlapped /\ ~SkipsZero =>
      IF SomeOn({"column"}) THEN "angle" \in stale \/ file.angle = member.target
                         ELSE ColumnStored => file.target = file.angle>>
PtzView ==
  <<IF ~overlapped /\ ~SkipsZero /\ SomeOn({"target", "angle", "column"})
    THEN member ELSE [member EXCEPT !.target = Unset],
    locked, file.scan, file.pitch, [c \in Clients |-> OpView(c)],
    recent /\ earlyClock, earlyClock, {c \in alone : ~On(c, "idle")}, overlapped, zeroed,
    PtzClaims, ptzRestarts>>

PartView == <<part, CASE part = "config" -> ConfigView
                      [] part = "vis" -> VisView
                      [] part = "ptz" -> PtzView
                      [] part = "presets" -> presetVars>>

\* The variables of each part have their types.
MiddlewareTypeOK == IniTypeOK /\ VisTypeOK /\ PtzTypeOK /\ PresetTypeOK

=============================================================================
