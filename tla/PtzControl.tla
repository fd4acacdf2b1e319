----------------------------- MODULE PtzControl -----------------------------
(***************************************************************************)
(* The pan-tilt head: MPU_PtzCtrlNormal(), which every client's movement   *)
(* command ends in, over the members of CPtzCtrl, the head behind the      *)
(* serial line, and the section ptz_ctrlinfo of the configuration file.    *)
(*                                                                         *)
(* The calls of CPtzCtrl take m_lock one by one: clients whose commands    *)
(* overlap interleave between them.  The thread that would read the head's *)
(* angle back is never started, so that the member is all there is.        *)
(***************************************************************************)
EXTENDS Integers

CONSTANTS
  Clients,                (* the threads that move the head                 *)
  MaxYaw, YawStep,        (* 360 and 10 degrees                             *)
  LowPitch, HighPitch,    (* -20 and 35 degrees                             *)
  PitchStep,              (* 5 degrees                                      *)
  Unset,                  (* what the head or the file was never told       *)
  ScanModes,              (* values the installed file may give scan_mode   *)
  PtzMaxRestarts          (* bound: restarts of the process                 *)

ASSUME PtzAssumption ==
  /\ MaxYaw \in Nat /\ YawStep \in Nat \ {0}
  /\ LowPitch \in Int /\ HighPitch \in Int /\ LowPitch <= 0 /\ 0 <= HighPitch
  /\ PitchStep \in Nat
  /\ Unset \notin Int /\ Unset \notin Clients
  /\ ScanModes \subseteq Int
  /\ PtzMaxRestarts \in Nat

Moves == {"UP", "DOWN", "LEFT", "RIGHT", "HOME"}
WEEKLY == 0
CONSTANT_SCAN == 2
Modes == {WEEKLY, CONSTANT_SCAN, -1} \cup ScanModes
StandsStill(mode) == mode \in {2, 3}
Yaws == 0..MaxYaw

VARIABLES
  member,     (* m_ptzYaw, m_ptzPitch, m_mode and m_target_x                *)
  locked,     (* the client that holds m_lock across a wait                 *)
  head,       (* yaw, pitch, enabled and mode the head was last told        *)
  file,       (* scan_mode, ptz_pitch, ptz_TargetAngle, ptz_TargetPix_x     *)
  op,         (* the command each client is in                              *)
  recent,     (* less than a second has passed since last_time              *)
  earlyClock, (* the clock shows the first days of 1970                     *)
  alone,      (* history: clients nobody overlapped since they began        *)
  overlapped, (* history: two commands overlapped                           *)
  zeroed,     (* the head was sent to zero in this run, which also sets     *)
              (* the width of the panorama                                  *)
  moved,      (* history: the axes a client moved in this run               *)
  lost,       (* history: of what the last message was not written          *)
  stale,      (* history: keys whose last value was not stored              *)
  ptzRestarts

ptzHistory == <<alone, overlapped, zeroed, moved, lost, stale>>
ptzVars == <<member, locked, head, file, op, recent, earlyClock, alone,
             overlapped, zeroed, moved, lost, stale, ptzRestarts>>

Nobody == Unset
NoOp == [pc |-> "idle", move |-> "HOME", yaw |-> 0, pitch |-> 0]

\* The constructor and Init(): the scan mode is read but never stored.
Started(f) == [yaw |-> 0, pitch |-> f.pitch, mode |-> f.scan, target |-> f.target]

PtzInit ==
  /\ \E scan \in ScanModes :
       file = [scan |-> scan, pitch |-> 0, angle |-> Unset, target |-> Unset]
  /\ member = Started(file)
  /\ locked = Nobody
  /\ head = [yaw |-> Unset, pitch |-> Unset, enabled |-> FALSE, mode |-> WEEKLY]
  /\ op = [c \in Clients |-> NoOp]
  /\ recent = FALSE /\ earlyClock \in BOOLEAN
  /\ alone = {} /\ overlapped = FALSE /\ zeroed = FALSE /\ moved = {}
  /\ lost = {} /\ stale = {}
  /\ ptzRestarts = 0

Free == locked = Nobody
On(c, pc) == op[c].pc = pc
To(c, pc) == op' = [op EXCEPT ![c].pc = pc]
Finish(c) == op' = [op EXCEPT ![c] = NoOp]
Others == <<recent, earlyClock, ptzRestarts>>

\* A message on the serial line may not be written: nobody looks at the answer.
Tell(what, value) ==
  \/ head' = [head EXCEPT ![what] = value] /\ lost' = lost \ {what}
  \/ UNCHANGED head /\ lost' = lost \cup {what}

\* Nor at SetValue()'s.
Save(key, value) ==
  \/ file' = [file EXCEPT ![key] = value] /\ stale' = stale \ {key}
  \/ UNCHANGED file /\ stale' = stale \cup {key}

-----------------------------------------------------------------------------
(* MPU_PtzCtrlNormal()                                                     *)

Begin(c, move) ==
  /\ On(c, "idle") /\ Free
  /\ op' = [op EXCEPT ![c] = [NoOp EXCEPT !.pc = "pitch", !.move = move, !.yaw = member.yaw]]
  /\ LET others == {d \in Clients \ {c} : ~On(d, "idle")} IN
     IF others = {}
     THEN alone' = alone \cup {c} /\ UNCHANGED overlapped
     ELSE alone' = alone \ (others \cup {c}) /\ overlapped' = TRUE
  /\ UNCHANGED <<member, locked, head, file, zeroed, moved, lost, stale, Others>>

GetPtzPitchAngle(c) ==
  /\ On(c, "pitch") /\ Free
  /\ op' = [op EXCEPT ![c].pc = "mode", ![c].pitch = member.pitch]
  /\ UNCHANGED <<member, locked, head, file, ptzHistory, Others>>

\* Outside the modes 2 and 3 the head goes to zero first.
GetScanMode(c) ==
  /\ On(c, "mode") /\ Free
  /\ To(c, IF StandsStill(member.mode) THEN "act" ELSE "check")
  /\ UNCHANGED <<member, locked, head, file, ptzHistory, Others>>

\* PtzZeroInit() does nothing within a second of the last time, which it tests
\* before it takes the lock; the time is kept in an int, so that the test fails
\* for any clock past the first 2^31 ms of 1970.
ZeroCheck(c) ==
  /\ On(c, "check")
  /\ To(c, IF recent /\ earlyClock THEN "enable" ELSE "zero")
  /\ UNCHANGED <<member, locked, head, file, ptzHistory, Others>>

ZeroLock(c) ==
  /\ On(c, "zero") /\ Free
  /\ locked' = c /\ recent' = TRUE
  /\ To(c, "zeroing")
  /\ UNCHANGED <<member, head, file, ptzHistory, earlyClock, ptzRestarts>>

\* The message to stop, then the one to go to zero.
StopAndZero ==
  \E stops \in BOOLEAN :
    LET stopped == [head EXCEPT !.enabled = @ /\ ~stops] IN
    \/ head' = [stopped EXCEPT !.yaw = 0] /\ lost' = lost \ {"yaw"}
    \/ head' = stopped /\ lost' = lost \cup {"yaw"}

\* Mutant: the member keeps the angle from before.
ZeroInitKeepsYaw(c) ==
  /\ On(c, "zeroing")
  /\ StopAndZero
  /\ member' = [member EXCEPT !.mode = -1]
  /\ zeroed' = TRUE
  /\ locked' = Nobody
  /\ To(c, "enable")
  /\ UNCHANGED <<file, alone, overlapped, moved, stale, Others>>

ZeroInit(c) ==
  /\ On(c, "zeroing")
  /\ StopAndZero
  /\ member' = [member EXCEPT !.yaw = 0, !.mode = -1]
  /\ zeroed' = TRUE
  /\ locked' = Nobody
  /\ To(c, "enable")
  /\ UNCHANGED <<file, alone, overlapped, moved, stale, Others>>

\* Mutant: a head believed to be enabled is not told again.
SetPtzEnableCached(c) ==
  /\ On(c, "enable") /\ Free
  /\ To(c, "scan")
  /\ UNCHANGED <<member, locked, head, file, ptzHistory, Others>>

\* What ptz_enable is stored as, Init() only reads into a member nothing uses.
SetPtzEnable(c) ==
  /\ On(c, "enable") /\ Free
  /\ Tell("enabled", TRUE)
  /\ To(c, "scan")
  /\ UNCHANGED <<member, locked, file, alone, overlapped, zeroed, moved, stale, Others>>

SetScanMode(c) ==
  /\ On(c, "scan") /\ Free
  /\ Tell("mode", CONSTANT_SCAN)
  /\ member' = [member EXCEPT !.mode = CONSTANT_SCAN]
  /\ To(c, "act")
  /\ UNCHANGED <<locked, file, alone, overlapped, zeroed, moved, stale, Others>>

Target(c) ==
  CASE op[c].move = "LEFT" -> op[c].yaw - YawStep
    [] op[c].move = "RIGHT" -> op[c].yaw + YawStep
    [] OTHER -> 0

PitchAsked(c) == IF op[c].move = "UP" THEN op[c].pitch + PitchStep
                                      ELSE op[c].pitch - PitchStep

\* The column of an angle in a panorama whose width only going to zero sets:
\* before, the width is what was in the memory of the object.
Column(yaw) == IF zeroed THEN {yaw} ELSE Yaws \cup {Unset}

\* SetTargetLocation() answers 0 and does nothing for an angle out of range;
\* the column of the target is assigned before the lock is taken.
SetTarget(c) ==
  /\ On(c, "act") /\ op[c].move \notin {"UP", "DOWN"}
  /\ IF Target(c) \in Yaws
     THEN /\ \E column \in Column(Target(c)) : member' = [member EXCEPT !.target = column]
          /\ To(c, "target")
     ELSE Finish(c) /\ UNCHANGED member
  /\ UNCHANGED <<locked, head, file, ptzHistory, Others>>

\* The head is told under the lock, which is kept while the target is stored.
SetTargetLocation(c) ==
  /\ On(c, "target") /\ Free
  /\ Tell("yaw", Target(c))
  /\ member' = [member EXCEPT !.yaw = Target(c)]
  /\ moved' = moved \cup {"yaw"}
  /\ locked' = c
  /\ To(c, "angle")
  /\ UNCHANGED <<file, alone, overlapped, zeroed, stale, Others>>

StoreAngle(c) ==
  /\ On(c, "angle")
  /\ Save("angle", Target(c))
  /\ To(c, "column")
  /\ UNCHANGED <<member, locked, head, alone, overlapped, zeroed, moved, lost, Others>>

\* The row, which is stored last, is always the same.
StoreColumn(c) ==
  /\ On(c, "column")
  /\ Save("target", member.target)
  /\ locked' = Nobody
  /\ Finish(c)
  /\ UNCHANGED <<member, head, alone, overlapped, zeroed, moved, lost, Others>>

Clamped(p) == IF p > HighPitch THEN HighPitch ELSE IF p < LowPitch THEN LowPitch ELSE p

\* The member is limited; the head is told what was asked for.
SetPtzPitchAngle(c) ==
  /\ On(c, "act") /\ op[c].move \in {"UP", "DOWN"} /\ Free
  /\ Tell("pitch", PitchAsked(c))
  /\ member' = [member EXCEPT !.pitch = Clamped(PitchAsked(c))]
  /\ moved' = moved \cup {"pitch"}
  /\ To(c, "save")
  /\ UNCHANGED <<locked, file, alone, overlapped, zeroed, stale, Others>>

\* Without the lock the member is read, and then stored.
ReadPitch(c) ==
  /\ On(c, "save")
  /\ op' = [op EXCEPT ![c].pc = "store", ![c].pitch = member.pitch]
  /\ UNCHANGED <<member, locked, head, file, ptzHistory, Others>>

StorePitch(c) ==
  /\ On(c, "store")
  /\ Save("pitch", op[c].pitch)
  /\ Finish(c)
  /\ UNCHANGED <<member, locked, head, alone, overlapped, zeroed, moved, lost, Others>>

\* A second passes.
SecondPasses ==
  /\ recent /\ recent' = FALSE
  /\ \A c \in Clients : ~On(c, "zeroing")
  /\ UNCHANGED <<member, locked, head, file, op, ptzHistory, earlyClock, ptzRestarts>>

\* The process dies and starts again; the head and the file stay, with the new
\* angle and the old column when it dies between the two.
PtzRestart ==
  /\ ptzRestarts < PtzMaxRestarts /\ ptzRestarts' = ptzRestarts + 1
  /\ member' = Started(file)
  /\ locked' = Nobody
  /\ op' = [c \in Clients |-> NoOp]
  /\ recent' = FALSE
  /\ alone' = {} /\ zeroed' = FALSE /\ moved' = {} /\ lost' = {}
  /\ stale' = (stale \ {"pitch"}) \cup {key \in {"target"} : \E c \in Clients : On(c, "column")}
  /\ UNCHANGED <<head, file, earlyClock, overlapped>>

PtzCtrlNormal(c) ==
  \/ \E move \in Moves : Begin(c, move)
  \/ GetPtzPitchAngle(c) \/ GetScanMode(c)
  \/ ZeroCheck(c) \/ ZeroLock(c) \/ ZeroInit(c) \/ SetPtzEnable(c) \/ SetScanMode(c)
  \/ SetTarget(c) \/ SetTargetLocation(c) \/ StoreAngle(c) \/ StoreColumn(c)
  \/ SetPtzPitchAngle(c) \/ ReadPitch(c) \/ StorePitch(c)

PtzNext == (\E c \in Clients : PtzCtrlNormal(c)) \/ SecondPasses \/ PtzRestart

PtzSpec == PtzInit /\ [][PtzNext]_ptzVars

-----------------------------------------------------------------------------
(* Correctness                                                             *)

Pitches == LowPitch..HighPitch

\* Every variable has its type: the yaw, told or kept, stays within the range,
\* the pitch that is kept too.
PtzTypeOK ==
  /\ member \in [yaw : Yaws, pitch : Pitches, mode : Modes, target : Yaws \cup {Unset}]
  /\ locked \in Clients \cup {Nobody}
  /\ head.yaw \in Yaws \cup {Unset} /\ head.enabled \in BOOLEAN /\ head.mode \in Modes
  /\ file \in [scan : ScanModes, pitch : Int, angle : Yaws \cup {Unset},
               target : Yaws \cup {Unset}]
  /\ \A c \in Clients : op[c].move \in Moves /\ op[c].yaw \in Yaws
  /\ alone \subseteq Clients /\ moved \subseteq {"yaw", "pitch"}
  /\ lost \subseteq DOMAIN head /\ stale \subseteq DOMAIN file

AtRest == \A c \in Clients : On(c, "idle")

\* The installed file starts the head in a mode in which no client sends it to
\* zero, or enables it.
SkipsZero == StandsStill(file.scan)

\* It is known where the head stands: it went to zero or was turned in this run.
YawKnown == (zeroed \/ "yaw" \in moved) /\ "yaw" \notin lost

PitchWithinStep ==
  /\ member.pitch = Clamped(head.pitch)
  /\ head.pitch \in LowPitch - PitchStep .. HighPitch + PitchStep

\* However commands overlap, once the head was moved it was first sent to zero
\* in this run, unless the file's scan mode skips that, although the one that
\* does so tests and is tested outside the lock; and when the commands are over
\* it is enabled, in the mode in which it stands still, and where the member
\* says, its pitch within a step, but for messages that were not written.
ReadyAtRest ==
  moved # {} =>
    /\ zeroed \/ SkipsZero
    /\ AtRest =>
         /\ zeroed =>
              /\ member.mode = CONSTANT_SCAN
              /\ head.mode = CONSTANT_SCAN \/ "mode" \in lost
              /\ head.enabled \/ "enabled" \in lost
         /\ YawKnown => head.yaw = member.yaw
         /\ "pitch" \in moved \ lost => PitchWithinStep

\* A client nobody overlapped moves from where the head is: what it read before
\* the head went to zero is still true when it acts.
AloneIsFresh ==
  \A c \in alone : On(c, "act") =>
    /\ op[c].yaw = member.yaw /\ op[c].pitch = member.pitch
    /\ YawKnown => head.yaw = member.yaw

ColumnStored == stale \cap {"angle", "target"} = {}

\* Between commands that did not overlap, the file has the pitch the member has
\* and the column of the angle it has, unless one of them could not be stored,
\* the process died between the two, or the width of the panorama is not known.
PtzFileAgrees ==
  AtRest /\ ~overlapped =>
    /\ "pitch" \notin stale => file.pitch = member.pitch
    /\ ColumnStored /\ ~SkipsZero => file.target = file.angle

\* Both: what a client nobody disturbs reads, and leaves in the file, is so.
UndisturbedAgrees == AloneIsFresh /\ PtzFileAgrees

=============================================================================
