--------------------------- MODULE MiddlewareProofs ---------------------------
(***************************************************************************)
(* Proofs about three components of the middleware, each for any threads   *)
(* and values: the preset table, the pan-tilt head and the settings of the *)
(* visible camera; and about their composition with the configuration      *)
(* file, of which every behaviour is one of each component.                *)
(***************************************************************************)
EXTENDS MCMiddleware, ConfigFileProofs, SequenceTheorems

-----------------------------------------------------------------------------
(* The preset table                                                        *)

WholeSection(i, name) == \A f \in Fields : sections[i][f] = name

\* Section i is as it was before the call.
Before(i) ==
  /\ i < m_preset_size => WholeSection(i, m_preset[i])
  /\ i >= m_preset_size /\ sections[i] # NoSection => i \in left

\* What the call in progress has done to each section.
Written(i) ==
  /\ saving.step = "idle" => Before(i)
  /\ saving.step # "idle" =>
       /\ i < saving.i /\ i < saving.num => WholeSection(i, saving.table[i])
       /\ saving.num <= i /\ i < saving.i => sections[i] = NoSection
       /\ saving.i < i \/ (i = saving.i /\ saving.step # "num") => Before(i)
       /\ i = saving.i /\ saving.step = "num" => sections[i]["name"] = saving.table[i]

PresetInv ==
  /\ PresetTypeOK
  /\ saving.step \in {"name", "num"} => saving.i < saving.num
  /\ saving.step = "delete" => saving.num <= saving.i
  /\ ~unwritten => \A i \in Indices : Written(i)

SavingType ==
  [step : {"idle", "name", "num", "delete"}, i : 0 .. Slots, num : 0 .. Slots,
   table : [Indices -> PresetNames \cup {NoPreset}]]

LEMMA NotSavingFacts ==
  ASSUME PresetAssumption
  PROVE  NotSaving \in SavingType /\ NotSaving.step = "idle"
BY DEF NotSaving, SavingType, PresetAssumption, Indices

LEMMA PresetInvInit == ASSUME PresetAssumption, PresetInit PROVE PresetInv
<1>1. NoSection \in [Fields -> PresetNames \cup {NoPreset}]  BY DEF NoSection
<1>2. saving \in SavingType /\ saving.step = "idle"  BY NotSavingFacts DEF PresetInit
<1>3. /\ m_preset \in [Indices -> PresetNames \cup {NoPreset}]
      /\ left \subseteq Indices /\ unwritten \in BOOLEAN
  BY DEF PresetInit
<1>6. m_preset_size \in 0 .. Slots /\ presetRestarts \in 0 .. PresetMaxRestarts
  BY DEF PresetInit, PresetAssumption
<1>4. sections \in [Indices -> [Fields -> PresetNames \cup {NoPreset}]]
  BY <1>1 DEF PresetInit
<1>5. PresetTypeOK  BY <1>2, <1>3, <1>4, <1>6 DEF PresetTypeOK, SavingType
<1> QED BY <1>2, <1>5 DEF PresetInit, PresetInv, Written, Before, Indices

LEMMA PresetInvStep ==
  ASSUME PresetAssumption, PresetInv, [PresetNext]_presetVars
  PROVE  PresetInv'
<1>0. /\ Slots \in Nat /\ m_preset \in [Indices -> PresetNames \cup {NoPreset}]
      /\ m_preset_size \in 0 .. Slots
      /\ sections \in [Indices -> [Fields -> PresetNames \cup {NoPreset}]]
      /\ saving \in SavingType /\ left \subseteq Indices /\ unwritten \in BOOLEAN
      /\ presetRestarts \in 0 .. PresetMaxRestarts /\ PresetMaxRestarts \in Nat
      /\ Indices = 0 .. Slots - 1
  BY DEF PresetInv, PresetTypeOK, SavingType, PresetAssumption, Indices
<1>t. /\ saving.i \in Nat /\ saving.num \in 0 .. Slots /\ saving.i <= Slots
      /\ saving.table \in [Indices -> PresetNames \cup {NoPreset}]
      /\ m_preset_size \in Nat
  BY <1>0 DEF SavingType
<1>s. /\ saving.step \in {"name", "num"} => saving.i < saving.num
      /\ saving.step = "delete" => saving.num <= saving.i
      /\ ~unwritten => \A i \in Indices : Written(i)
  BY DEF PresetInv
<1> USE DEF Fields
<1>1. ASSUME NEW num \in 0 .. Slots, NEW table \in [Indices -> PresetNames \cup {NoPreset}],
             SetPresetEx(table, num)
      PROVE  PresetInv'
  <2>1. saving' \in SavingType /\ saving'.i = 0 /\ saving'.num = num
        /\ saving'.step = IF num = 0 THEN "delete" ELSE "name"
    BY <1>0, <1>1 DEF SetPresetEx, SavingType
  <2>2. \A i \in Indices : Written(i) => Written(i)'
    BY <1>0, <1>1, <2>1 DEF SetPresetEx, Written, Before, WholeSection
  <2> QED BY <1>0, <1>1, <2>1, <2>2 DEF SetPresetEx, PresetInv, PresetTypeOK, SavingType
<1>2. CASE WriteName
  <2>1. saving' \in SavingType /\ saving'.i = saving.i /\ saving'.num = saving.num
        /\ saving'.step = "num" /\ saving'.table = saving.table /\ saving.i \in Indices
        /\ saving.table[saving.i] \in PresetNames \cup {NoPreset}
    BY SMTT(30), <1>0, <1>2 DEF WriteName, SavingType, PresetInv
  <2>2. CASE sections' = [sections EXCEPT ![saving.i]["name"] = saving.table[saving.i]]
             /\ UNCHANGED unwritten
    <3>1. sections' \in [Indices -> [Fields -> PresetNames \cup {NoPreset}]]
      BY <1>0, <2>1, <2>2
    <3>2. \A i \in Indices : Written(i) => Written(i)'
      BY <1>0, <1>2, <2>1, <2>2 DEF WriteName, Written, Before, WholeSection
    <3> QED BY <1>0, <1>2, <2>1, <2>2, <3>1, <3>2
      DEF WriteName, PresetInv, PresetTypeOK, SavingType
  <2>3. CASE unwritten' = TRUE /\ UNCHANGED sections
    BY <1>0, <1>2, <2>1, <2>3 DEF WriteName, PresetInv, PresetTypeOK, SavingType
  <2> QED BY <1>2, <2>2, <2>3 DEF WriteName, Wrote
<1>3. CASE WriteNum
  <2>1. saving' \in SavingType /\ saving'.i = saving.i + 1 /\ saving'.num = saving.num
        /\ saving'.step = (IF saving.i + 1 = saving.num THEN "delete" ELSE "name")
        /\ saving'.table = saving.table /\ saving.i \in Indices
        /\ saving.table[saving.i] \in PresetNames \cup {NoPreset}
    <3>1. saving.i + 1 \in 0 .. Slots /\ saving.i \in Indices  BY <1>0, <1>t, <1>s, <1>3 DEF WriteNum
    <3>2. saving' = [saving EXCEPT !.i = saving.i + 1,
                       !.step = IF saving.i + 1 = saving.num THEN "delete" ELSE "name"]
      BY <1>3 DEF WriteNum
    <3> QED BY <1>0, <1>t, <3>1, <3>2 DEF SavingType
  <2>2. CASE sections' = [sections EXCEPT ![saving.i]["num"] = saving.table[saving.i]]
             /\ UNCHANGED unwritten
    <3>1. sections' \in [Indices -> [Fields -> PresetNames \cup {NoPreset}]]
      BY <1>0, <2>1, <2>2
    <3>2. \A i \in Indices : Written(i) => Written(i)'
      <4> SUFFICES ASSUME NEW i \in Indices, Written(i) PROVE Written(i)'
        OBVIOUS
      <4>1. /\ UNCHANGED <<m_preset, m_preset_size, left>> /\ saving.step = "num"
            /\ i \in Nat
        BY <1>0, <1>3 DEF WriteNum
      <4>2. CASE i = saving.i
        <5>1. sections'[i]["num"] = saving.table[i] /\ sections'[i]["name"] = sections[i]["name"]
          BY <1>0, <2>1, <2>2, <4>2
        <5> QED BY <1>t, <1>s, <2>1, <4>1, <4>2, <5>1 DEF Written, WholeSection
      <4>3. CASE i # saving.i
        <5>1. sections'[i] = sections[i]  BY <1>0, <2>1, <2>2, <4>3
        <5>2. Before(i) => Before(i)'  BY <4>1, <5>1 DEF Before, WholeSection
        <5> QED BY <1>t, <1>s, <2>1, <4>1, <4>3, <5>1, <5>2 DEF Written, WholeSection
      <4> QED BY <4>2, <4>3
    <3> QED BY <1>0, <1>3, <2>1, <2>2, <3>1, <3>2
      DEF WriteNum, PresetInv, PresetTypeOK, SavingType
  <2>3. CASE unwritten' = TRUE /\ UNCHANGED sections
    BY <1>0, <1>3, <2>1, <2>3 DEF WriteNum, PresetInv, PresetTypeOK, SavingType
  <2> QED BY <1>3, <2>2, <2>3 DEF WriteNum, Wrote
<1>4. CASE DeleteSection
  <2>1. saving' \in SavingType /\ saving'.i = saving.i + 1 /\ saving'.num = saving.num
        /\ saving'.step = "delete" /\ saving'.table = saving.table /\ saving.i \in Indices
    <3>1. saving.i + 1 \in 0 .. Slots /\ saving.i \in Indices  BY <1>0, <1>t, <1>4 DEF DeleteSection
    <3>2. saving' = [saving EXCEPT !.i = saving.i + 1] /\ saving.step = "delete"
      BY <1>4 DEF DeleteSection
    <3> QED BY <1>0, <1>t, <3>1, <3>2 DEF SavingType
  <2>a. saving'.num <= saving'.i
    <3>1. saving.num <= saving.i  BY <1>4, <1>s DEF DeleteSection
    <3> QED BY <3>1, <1>t, <2>1
  <2>b. /\ UNCHANGED <<m_preset, m_preset_size, left, presetRestarts>>
        /\ saving'.step = "delete" /\ saving' \in SavingType
    BY <1>4, <2>1 DEF DeleteSection
  <2>2. CASE sections' = [sections EXCEPT ![saving.i] = NoSection] /\ UNCHANGED unwritten
    <3>1. sections' \in [Indices -> [Fields -> PresetNames \cup {NoPreset}]]
      BY <1>0, <2>1, <2>2 DEF NoSection
    <3>2. \A i \in Indices : Written(i) => Written(i)'
      <4> SUFFICES ASSUME NEW i \in Indices, Written(i) PROVE Written(i)'
        OBVIOUS
      <4>1. /\ UNCHANGED <<m_preset, m_preset_size, left>> /\ saving.step = "delete"
            /\ i \in Nat
        BY <1>0, <1>4 DEF DeleteSection
      <4>2. CASE i = saving.i
        <5>1. sections'[i] = NoSection  BY <1>0, <2>1, <2>2, <4>2
        <5> QED BY <1>t, <1>s, <2>1, <4>1, <4>2, <5>1 DEF Written
      <4>3. CASE i # saving.i
        <5>1. sections'[i] = sections[i]  BY <1>0, <2>1, <2>2, <4>3
        <5>2. Before(i) => Before(i)'  BY <4>1, <5>1 DEF Before, WholeSection
        <5> QED BY <1>t, <1>s, <2>1, <4>1, <4>3, <5>1, <5>2 DEF Written, WholeSection
      <4> QED BY <4>2, <4>3
    <3> QED BY <1>0, <1>s, <2>a, <2>b, <2>2, <3>1, <3>2
      DEF PresetInv, PresetTypeOK, SavingType
  <2>3. CASE unwritten' = TRUE /\ UNCHANGED sections
    BY <1>0, <2>a, <2>b, <2>3 DEF PresetInv, PresetTypeOK, SavingType
  <2> QED BY <1>4, <2>2, <2>3 DEF DeleteSection
<1>5. CASE KeepTable
  <2>1. saving' \in SavingType /\ saving'.step = "idle"
    BY <1>5, NotSavingFacts DEF KeepTable
  <2>2. m_preset' \in [Indices -> PresetNames \cup {NoPreset}]
    BY <1>0, <1>5 DEF KeepTable, SavingType
  <2>3. m_preset_size' \in 0 .. Slots /\ m_preset_size' = saving.num
    BY <1>0, <1>5 DEF KeepTable, SavingType
  <2>4. \A i \in Indices : Written(i) => Written(i)'
    <3> SUFFICES ASSUME NEW i \in Indices, Written(i) PROVE Before(i)'
      BY <2>1 DEF Written
    <3>1. /\ UNCHANGED <<sections, left>> /\ saving.step = "delete" /\ saving.i >= m_preset_size
          /\ i < saving.num => m_preset'[i] = saving.table[i]
          /\ i \in Nat /\ saving.num <= saving.i
      BY <1>0, <1>s, <1>5 DEF KeepTable
    <3>2. CASE i < saving.num
      BY <1>t, <2>3, <3>1, <3>2 DEF Written, Before, WholeSection
    <3>3. CASE saving.num <= i /\ i < saving.i
      BY <1>t, <2>3, <3>1, <3>3 DEF Written, Before
    <3>4. CASE saving.i <= i
      <4>1. Before(i)  BY <1>t, <3>1, <3>4 DEF Written
      <4> QED BY <1>t, <2>3, <3>1, <3>4, <4>1 DEF Before
    <3> QED BY <1>t, <3>1, <3>2, <3>3, <3>4
  <2> QED BY <1>0, <1>5, <2>1, <2>2, <2>3, <2>4
    DEF KeepTable, PresetInv, PresetTypeOK, SavingType
<1>6. CASE PresetRestart
  <2>1. saving' \in SavingType /\ saving'.step = "idle"
    BY <1>6, NotSavingFacts DEF PresetRestart
  <2>2. \A i \in Indices : Written(i)'
    BY <1>0, <1>6, <2>1 DEF PresetRestart, Written, Before
  <2> QED BY <1>0, <1>6, <2>1, <2>2 DEF PresetRestart, PresetInv, PresetTypeOK, SavingType
<1>7. CASE UNCHANGED presetVars
  BY <1>7 DEF presetVars, PresetInv, PresetTypeOK, Written, Before, WholeSection
<1> QED BY <1>1, <1>2, <1>3, <1>4, <1>5, <1>6, <1>7 DEF PresetNext

\* Between calls the file has whole sections for the presets of the table and no
\* others but those an earlier run left (PresetsOnFile, CPtzCtrl.cpp:977-1009),
\* for tables of any length.
THEOREM PresetsCorrect == PresetSpec => []PresetsOnFile
<1>1. PresetInit => PresetInv  BY PresetAssumption, PresetInvInit
<1>2. PresetInv /\ [PresetNext]_presetVars => PresetInv'
  BY PresetAssumption, PresetInvStep
<1>3. PresetInv => PresetsOnFile
  BY DEF PresetInv, PresetsOnFile, Written, Before, WholeSection
<1> QED BY <1>1, <1>2, <1>3, PTL DEF PresetSpec

\* The preset table, the file's sections and the call in progress are well
\* typed (PresetTypeOK, CPtzCtrl.cpp:977-1009), for tables of any length.
THEOREM PresetTypesCorrect == PresetSpec => []PresetTypeOK
<1>1. PresetInit => PresetInv  BY PresetAssumption, PresetInvInit
<1>2. PresetInv /\ [PresetNext]_presetVars => PresetInv'
  BY PresetAssumption, PresetInvStep
<1>3. PresetInv => PresetTypeOK  BY DEF PresetInv
<1> QED BY <1>1, <1>2, <1>3, PTL DEF PresetSpec

-----------------------------------------------------------------------------
(* The pan-tilt head                                                       *)

PcTypes == {"idle", "pitch", "mode", "act", "check", "zero", "zeroing", "enable", "scan",
            "target", "angle", "column", "save", "store"}
OpTypes == [pc : PcTypes, move : Moves, yaw : Yaws, pitch : Pitches]

HeadType == [yaw : Yaws \cup {Unset}, pitch : Int \cup {Unset}, enabled : BOOLEAN, mode : Modes]
MemberType == [yaw : Yaws, pitch : Pitches, mode : Modes, target : Yaws \cup {Unset}]
FileType == [scan : ScanModes, pitch : Pitches, angle : Yaws \cup {Unset},
             target : Yaws \cup {Unset}]

\* A client on its way to an angle, which is within the range.
Turning(c) == op[c].pc \in {"target", "angle", "column"}

PtzTypes ==
  /\ member \in MemberType /\ head \in HeadType /\ file \in FileType
  /\ locked \in Clients \cup {Nobody}
  /\ op \in [Clients -> OpTypes]
  /\ recent \in BOOLEAN /\ zeroed \in BOOLEAN /\ overlapped \in BOOLEAN
  /\ alone \subseteq Clients /\ moved \subseteq {"yaw", "pitch"}
  /\ lost \subseteq {"yaw", "pitch", "enabled", "mode"}
  /\ stale \subseteq {"pitch", "angle", "target"}
  /\ \A c \in Clients : Turning(c) => Target(c) \in Yaws

\* A client that enables, or gets past that, does so after the head went to
\* zero: the one that skips it waits for the lock of the one that does it.  With
\* a scan mode in which the head stands still, none of them gets there.
ZeroInv ==
  /\ \A c \in Clients : op[c].pc \in {"zeroing", "angle", "column"} <=> locked = c
  /\ recent => zeroed \/ ~Free
  /\ \A c \in Clients :
       /\ On(c, "enable") => zeroed \/ ~Free
       /\ op[c].pc \in {"scan", "act", "target", "angle", "column", "save", "store"}
            => zeroed \/ SkipsZero
  /\ StandsStill(member.mode) => zeroed \/ SkipsZero
  /\ moved # {} => zeroed \/ SkipsZero
  /\ ~zeroed /\ ~SkipsZero => member.yaw = 0
  /\ SkipsZero =>
       /\ StandsStill(member.mode) /\ ~recent
       /\ \A c \in Clients : op[c].pc \notin {"check", "zero", "zeroing", "enable", "scan"}

\* After that, what is still missing is to be done by a client on its way.
ReadyInv ==
  /\ zeroed =>
       /\ head.enabled \/ "enabled" \in lost \/ \E c \in Clients : On(c, "enable")
       /\ \/ member.mode = CONSTANT_SCAN /\ (head.mode = CONSTANT_SCAN \/ "mode" \in lost)
          \/ \E c \in Clients : On(c, "enable") \/ On(c, "scan")
  /\ YawKnown => head.yaw = member.yaw
  /\ "pitch" \in moved \ lost => PitchWithinStep

\* What a client nobody overlaps has read.
AloneInv ==
  \A c \in alone : ~On(c, "idle") =>
    /\ \A d \in Clients \ {c} : On(d, "idle")
    /\ op[c].pc \notin {"angle", "column"} => op[c].yaw = member.yaw
    /\ op[c].pc \notin {"pitch", "save", "store"} => op[c].pitch = member.pitch
    /\ op[c].pc \in {"check", "zero", "zeroing"} => member.yaw = 0

\* What the file lacks while commands do not overlap.
FileInv ==
  ~overlapped =>
    /\ \A c, d \in Clients : ~On(c, "idle") /\ ~On(d, "idle") => c = d
    /\ ColumnStored /\ ~SkipsZero
         => file.target = file.angle \/ \E c \in Clients : On(c, "column")
    /\ "pitch" \notin stale
         => file.pitch = member.pitch \/ \E c \in Clients : On(c, "save") \/ On(c, "store")
    /\ \A c \in Clients :
         /\ Turning(c) /\ ~SkipsZero => member.target = Target(c)
         /\ On(c, "column") /\ "angle" \notin stale => file.angle = Target(c)
         /\ On(c, "store") => op[c].pitch = member.pitch

PtzInv == PtzTypes /\ ZeroInv /\ ReadyInv /\ AloneInv /\ FileInv

\* A client's command goes on: it keeps what it read.
LEMMA ToFacts ==
  ASSUME op \in [Clients -> OpTypes], NEW c \in Clients, NEW pc \in PcTypes, To(c, pc)
  PROVE  /\ op' \in [Clients -> OpTypes]
         /\ \A d \in Clients :
              /\ op'[d].pc = IF d = c THEN pc ELSE op[d].pc
              /\ op'[d].move = op[d].move /\ op'[d].yaw = op[d].yaw
              /\ op'[d].pitch = op[d].pitch /\ Target(d)' = Target(d)
<1>1. op' = [op EXCEPT ![c].pc = pc]  BY DEF To
<1>2. [op[c] EXCEPT !.pc = pc] \in OpTypes  BY DEF OpTypes, PcTypes
<1>3. op' \in [Clients -> OpTypes]  BY <1>1, <1>2
<1>4. ASSUME NEW d \in Clients
      PROVE  /\ op'[d].pc = IF d = c THEN pc ELSE op[d].pc
             /\ op'[d].move = op[d].move /\ op'[d].yaw = op[d].yaw
             /\ op'[d].pitch = op[d].pitch
  BY <1>1 DEF OpTypes
<1>5. \A d \in Clients : Target(d)' = Target(d)  BY <1>4 DEF Target
<1> QED BY <1>3, <1>4, <1>5

LEMMA NoOpFacts ==
  ASSUME PtzAssumption
  PROVE  NoOp \in OpTypes /\ NoOp.pc = "idle"
BY DEF PtzAssumption, NoOp, OpTypes, PcTypes, Moves, Yaws, Pitches

\* A command that is over.
LEMMA FinishFacts ==
  ASSUME PtzAssumption, op \in [Clients -> OpTypes], NEW c \in Clients, Finish(c)
  PROVE  /\ op' \in [Clients -> OpTypes]
         /\ \A d \in Clients : op'[d] = IF d = c THEN NoOp ELSE op[d]
BY NoOpFacts DEF Finish

LEMMA PtzInvInit == ASSUME PtzAssumption, PtzInit PROVE PtzInv
<1>1. op \in [Clients -> OpTypes] /\ \A c \in Clients : op[c].pc = "idle"
  BY NoOpFacts DEF PtzInit
<1>2. 0 \in Yaws /\ 0 \in Pitches /\ Modes = {0, 2, -1} \cup ScanModes
  BY DEF PtzAssumption, Yaws, Pitches, Modes, WEEKLY, CONSTANT_SCAN
<1>3. PICK scan \in ScanModes :
        file = [scan |-> scan, pitch |-> 0, angle |-> Unset, target |-> Unset]
  BY DEF PtzInit
<1>4. member = [yaw |-> 0, pitch |-> 0, mode |-> file.scan, target |-> Unset]
  BY <1>3 DEF PtzInit, Started
<1>5. /\ member \in MemberType /\ file \in FileType
      /\ member.yaw = 0 /\ member.mode = file.scan /\ member.pitch = file.pitch
      /\ file.target = file.angle
  BY <1>2, <1>3, <1>4 DEF MemberType, FileType
<1>6. head \in HeadType  BY <1>2 DEF PtzInit, HeadType, WEEKLY
<1>7. /\ locked = Nobody /\ ~recent /\ alone = {} /\ moved = {} /\ ~zeroed /\ ~overlapped
      /\ recent \in BOOLEAN /\ zeroed \in BOOLEAN /\ overlapped \in BOOLEAN
      /\ lost = {} /\ stale = {}
  BY DEF PtzInit
<1>8. PtzTypes  BY <1>1, <1>5, <1>6, <1>7 DEF PtzTypes, Turning
<1>9. ZeroInv  BY <1>1, <1>5, <1>7 DEF ZeroInv, On, SkipsZero, Nobody, PtzAssumption
<1>10. ReadyInv  BY <1>7 DEF ReadyInv, YawKnown
<1>11. AloneInv /\ FileInv  BY <1>1, <1>5, <1>7 DEF AloneInv, FileInv, Turning, On
<1> QED BY <1>8, <1>9, <1>10, <1>11 DEF PtzInv

\* A client that does not overlap goes to zero only while the yaw is zero.
LEMMA UnzeroedYaw ==
  ASSUME ZeroInv, ReadyInv, NEW c \in Clients, \A d \in Clients \ {c} : On(d, "idle"),
         On(c, "mode") \/ On(c, "idle"), ~StandsStill(member.mode)
  PROVE  member.yaw = 0
<1>1. ~SkipsZero  BY DEF ZeroInv
<1>2. member.mode # CONSTANT_SCAN  BY DEF StandsStill, CONSTANT_SCAN
<1>3. ~zeroed  BY <1>2 DEF ReadyInv, On
<1> QED BY <1>1, <1>3 DEF ZeroInv

\* A message that was written, or was not.
LEMMA TellFacts ==
  ASSUME PtzTypes, NEW value
  PROVE  /\ Tell("yaw", value) /\ value \in Yaws =>
              /\ head' \in HeadType /\ head'.pitch = head.pitch
              /\ head'.enabled = head.enabled /\ head'.mode = head.mode
              /\ head'.yaw = value \/ "yaw" \in lost'
         /\ Tell("pitch", value) /\ value \in Int =>
              /\ head' \in HeadType /\ head'.yaw = head.yaw
              /\ head'.enabled = head.enabled /\ head'.mode = head.mode
              /\ head'.pitch = value \/ "pitch" \in lost'
         /\ Tell("enabled", value) /\ value \in BOOLEAN =>
              /\ head' \in HeadType /\ head'.yaw = head.yaw
              /\ head'.pitch = head.pitch /\ head'.mode = head.mode
              /\ head'.enabled = value \/ "enabled" \in lost'
         /\ Tell("mode", value) /\ value \in Modes =>
              /\ head' \in HeadType /\ head'.yaw = head.yaw
              /\ head'.pitch = head.pitch /\ head'.enabled = head.enabled
              /\ head'.mode = value \/ "mode" \in lost'
BY DEF PtzTypes, Tell, HeadType

LEMMA TellLost ==
  ASSUME PtzTypes, NEW value, NEW what \in {"yaw", "pitch", "enabled", "mode"}, Tell(what, value)
  PROVE  /\ lost' \subseteq {"yaw", "pitch", "enabled", "mode"}
         /\ \A other : other # what => (other \in lost' <=> other \in lost)
BY DEF PtzTypes, Tell

LEMMA PtzInvStep ==
  ASSUME PtzAssumption, PtzInv, [PtzNext]_ptzVars
  PROVE  PtzInv'
<1>0. /\ MaxYaw \in Nat /\ YawStep \in Nat /\ LowPitch \in Int /\ HighPitch \in Int
      /\ LowPitch <= 0 /\ 0 <= HighPitch /\ PitchStep \in Nat /\ Unset \notin Int
      /\ Unset \notin Clients
  BY DEF PtzAssumption
<1>t. /\ member \in MemberType /\ head \in HeadType /\ file \in FileType
      /\ locked \in Clients \cup {Unset}
      /\ op \in [Clients -> OpTypes]
      /\ recent \in BOOLEAN /\ zeroed \in BOOLEAN /\ overlapped \in BOOLEAN
      /\ alone \subseteq Clients /\ moved \subseteq {"yaw", "pitch"}
      /\ lost \subseteq {"yaw", "pitch", "enabled", "mode"}
      /\ stale \subseteq {"pitch", "angle", "target"}
      /\ \A c \in Clients : Turning(c) => Target(c) \in Yaws
  BY DEF PtzInv, PtzTypes, Nobody
<1>i. PtzTypes /\ ZeroInv /\ ReadyInv /\ AloneInv /\ FileInv  BY DEF PtzInv
<1>n. NoOp \in OpTypes /\ NoOp.pc = "idle"  BY NoOpFacts
<1>m. /\ member.yaw \in Yaws /\ member.pitch \in Pitches /\ CONSTANT_SCAN \in Modes
      /\ -1 \in Modes /\ 0 \in Yaws /\ 0 \in Pitches
      /\ CONSTANT_SCAN # -1 /\ ~StandsStill(-1) /\ StandsStill(CONSTANT_SCAN)
  BY <1>0, <1>t DEF MemberType, Modes, CONSTANT_SCAN, StandsStill, Yaws, Pitches
<1> USE DEF On, Free, Nobody, Others, ptzHistory
<1>1. ASSUME NEW c \in Clients, NEW move \in Moves, Begin(c, move) PROVE PtzInv'
  <2> DEFINE new == [NoOp EXCEPT !.pc = "pitch", !.move = move, !.yaw = member.yaw]
  <2>1. new \in OpTypes /\ new.pc = "pitch" /\ new.yaw = member.yaw
    BY <1>m, <1>n DEF OpTypes, PcTypes
  <2>2. op' = [op EXCEPT ![c] = new] /\ op[c].pc = "idle"  BY <1>1 DEF Begin
  <2> HIDE DEF new
  <2>3. op' \in [Clients -> OpTypes] /\ \A d \in Clients : op'[d] = IF d = c THEN new ELSE op[d]
    BY <1>t, <2>1, <2>2
  <2>4. UNCHANGED <<member, locked, head, file, zeroed, moved, lost, stale, recent, earlyClock>>
       /\ locked = Unset
    BY <1>1 DEF Begin
  <2>5. LET others == {d \in Clients \ {c} : ~On(d, "idle")} IN
        IF others = {}
        THEN alone' = alone \cup {c} /\ UNCHANGED overlapped
        ELSE alone' = alone \ (others \cup {c}) /\ overlapped' = TRUE
    BY <1>1 DEF Begin
  <2>6. PtzTypes'
    <3>1. \A d \in Clients : op'[d].pc \in {"target", "angle", "column"} => Target(d)' \in Yaws
      BY <1>t, <2>1, <2>3 DEF Target, Turning
    <3> QED BY <1>t, <2>3, <2>4, <2>5, <3>1 DEF PtzTypes, Turning
  <2>7. ZeroInv'  BY <1>i, <2>1, <2>2, <2>3, <2>4 DEF ZeroInv, SkipsZero
  <2>8. ReadyInv'
    BY <1>t, <1>i, <2>1, <2>2, <2>3, <2>4 DEF ReadyInv, YawKnown, PitchWithinStep, Clamped
  <2>9. AloneInv'  BY <1>t, <1>i, <2>1, <2>2, <2>3, <2>4, <2>5 DEF AloneInv
  <2>10. FileInv'
    <3>1. \A d \in Clients : d # c => Target(d)' = Target(d)  BY <2>3 DEF Target
    <3> QED BY <1>t, <1>i, <2>1, <2>2, <2>3, <2>4, <2>5, <3>1
      DEF FileInv, ColumnStored, SkipsZero, Turning
  <2> QED BY <2>6, <2>7, <2>8, <2>9, <2>10 DEF PtzInv
<1>2. ASSUME NEW c \in Clients, GetPtzPitchAngle(c) PROVE PtzInv'
  <2> DEFINE new == [op[c] EXCEPT !.pc = "mode", !.pitch = member.pitch]
  <2>1. new \in OpTypes /\ new.pc = "mode" /\ new.yaw = op[c].yaw /\ new.pitch = member.pitch
    BY <1>t, <1>m DEF OpTypes, PcTypes
  <2>2. op' = [op EXCEPT ![c] = new] /\ op[c].pc = "pitch"
    BY <1>t, <1>2 DEF GetPtzPitchAngle, OpTypes
  <2> HIDE DEF new
  <2>3. op' \in [Clients -> OpTypes] /\ \A d \in Clients : op'[d] = IF d = c THEN new ELSE op[d]
    BY <1>t, <2>1, <2>2
  <2>4. UNCHANGED <<member, locked, head, file, ptzHistory, recent, earlyClock>>
    BY <1>2 DEF GetPtzPitchAngle
  <2>5. \A d \in Clients : op'[d].pc \in {"target", "angle", "column"}
          => d # c /\ Target(d)' = Target(d)
    BY <2>1, <2>3 DEF Target
  <2>6. PtzTypes'  BY <1>t, <2>3, <2>4, <2>5 DEF PtzTypes, Turning
  <2>7. ZeroInv'  BY <1>i, <2>1, <2>2, <2>3, <2>4 DEF ZeroInv, SkipsZero
  <2>8. ReadyInv'
    BY <1>t, <1>i, <2>1, <2>2, <2>3, <2>4 DEF ReadyInv, YawKnown, PitchWithinStep, Clamped
  <2>9. AloneInv'  BY <1>t, <1>i, <2>1, <2>2, <2>3, <2>4 DEF AloneInv
  <2>10. FileInv'
    BY <1>i, <2>1, <2>2, <2>3, <2>4, <2>5 DEF FileInv, ColumnStored, SkipsZero, Turning
  <2> QED BY <2>6, <2>7, <2>8, <2>9, <2>10 DEF PtzInv
\* A step that only takes the client further.
<1>3. ASSUME NEW c \in Clients, NEW pc \in PcTypes, To(c, pc),
             UNCHANGED <<member, locked, head, file, ptzHistory, recent>>,
             op[c].pc \in {"mode", "check"}, pc \in {"act", "check", "zero", "enable"},
             pc = "act" => zeroed \/ SkipsZero,
             pc # "act" => ~SkipsZero,
             pc = "enable" => zeroed \/ locked # Unset,
             op[c].pc = "mode" /\ pc # "act" => ~StandsStill(member.mode)
      PROVE  PtzInv'
  <2>1. /\ op' \in [Clients -> OpTypes]
        /\ \A d \in Clients :
             /\ op'[d].pc = IF d = c THEN pc ELSE op[d].pc
             /\ op'[d].move = op[d].move /\ op'[d].yaw = op[d].yaw
             /\ op'[d].pitch = op[d].pitch /\ Target(d)' = Target(d)
    BY <1>t, <1>3, ToFacts
  <2>2. PtzTypes'  BY <1>t, <1>3, <2>1 DEF PtzTypes, Turning
  <2>3. ZeroInv'  BY <1>i, <1>3, <2>1 DEF ZeroInv, SkipsZero
  <2>4. ReadyInv'  BY <1>t, <1>i, <1>3, <2>1 DEF ReadyInv, YawKnown, PitchWithinStep, Clamped
  <2>5. AloneInv'
    <3>1. c \in alone /\ op[c].pc = "mode" /\ ~StandsStill(member.mode) => member.yaw = 0
      BY <1>t, <1>i, UnzeroedYaw DEF AloneInv
    <3> QED BY <1>t, <1>i, <1>3, <2>1, <3>1 DEF AloneInv
  <2>6. FileInv'  BY <1>i, <1>3, <2>1 DEF FileInv, ColumnStored, SkipsZero, Turning
  <2> QED BY <2>2, <2>3, <2>4, <2>5, <2>6 DEF PtzInv
<1>4. ASSUME NEW c \in Clients, GetScanMode(c) PROVE PtzInv'
  <2> DEFINE pc == IF StandsStill(member.mode) THEN "act" ELSE "check"
  <2>1. /\ pc \in {"act", "check"}
        /\ pc = "act" <=> StandsStill(member.mode)
    OBVIOUS
  <2>2. /\ op[c].pc = "mode" /\ To(c, pc)
        /\ UNCHANGED <<member, locked, head, file, ptzHistory, recent>>
    BY <1>4 DEF GetScanMode
  <2> HIDE DEF pc
  <2>3. (pc = "act" => zeroed \/ SkipsZero) /\ (pc # "act" => ~SkipsZero)
    BY <1>i, <2>1 DEF ZeroInv
  <2>4. pc \in PcTypes /\ pc \in {"act", "check", "zero", "enable"}  BY <2>1 DEF PcTypes
  <2> QED BY <2>1, <2>2, <2>3, <2>4, <1>3
<1>5. ASSUME NEW c \in Clients, ZeroCheck(c) PROVE PtzInv'
  <2> DEFINE pc == IF recent /\ earlyClock THEN "enable" ELSE "zero"
  <2>1. pc \in {"enable", "zero"} /\ (pc = "enable" => recent)  OBVIOUS
  <2>2. /\ op[c].pc = "check" /\ To(c, pc)
        /\ UNCHANGED <<member, locked, head, file, ptzHistory, recent>>
    BY <1>5 DEF ZeroCheck
  <2> HIDE DEF pc
  <2>3. (pc = "enable" => zeroed \/ locked # Unset) /\ ~SkipsZero
    BY <1>i, <2>1, <2>2 DEF ZeroInv
  <2> QED BY <2>1, <2>2, <2>3, <1>3 DEF PcTypes
<1>6. ASSUME NEW c \in Clients, ZeroLock(c) PROVE PtzInv'
  <2>1. /\ op' \in [Clients -> OpTypes]
        /\ \A d \in Clients :
             /\ op'[d].pc = IF d = c THEN "zeroing" ELSE op[d].pc
             /\ op'[d].move = op[d].move /\ op'[d].yaw = op[d].yaw
             /\ op'[d].pitch = op[d].pitch /\ Target(d)' = Target(d)
    BY <1>t, <1>6, ToFacts DEF ZeroLock, PcTypes
  <2>2. /\ op[c].pc = "zero" /\ locked = Unset /\ locked' = c /\ recent' = TRUE
        /\ UNCHANGED <<member, head, file, ptzHistory, earlyClock>>
    BY <1>6 DEF ZeroLock
  <2>3. PtzTypes'  BY <1>t, <2>1, <2>2 DEF PtzTypes, Turning
  <2>4. ZeroInv'  BY <1>0, <1>i, <2>1, <2>2 DEF ZeroInv, SkipsZero
  <2>5. ReadyInv'  BY <1>t, <1>i, <2>1, <2>2 DEF ReadyInv, YawKnown, PitchWithinStep, Clamped
  <2>6. AloneInv'  BY <1>t, <1>i, <2>1, <2>2 DEF AloneInv
  <2>7. FileInv'  BY <1>i, <2>1, <2>2 DEF FileInv, ColumnStored, SkipsZero, Turning
  <2> QED BY <2>3, <2>4, <2>5, <2>6, <2>7 DEF PtzInv
<1>7. ASSUME NEW c \in Clients, ZeroInit(c) PROVE PtzInv'
  <2>0. To(c, "enable") /\ "enable" \in PcTypes  BY <1>7 DEF ZeroInit, PcTypes
  <2>1. /\ op' \in [Clients -> OpTypes]
        /\ \A d \in Clients :
             /\ op'[d].pc = IF d = c THEN "enable" ELSE op[d].pc
             /\ op'[d].move = op[d].move /\ op'[d].yaw = op[d].yaw
             /\ op'[d].pitch = op[d].pitch /\ Target(d)' = Target(d)
    BY <1>t, <2>0, ToFacts
  <2>2. /\ op[c].pc = "zeroing" /\ locked' = Unset /\ zeroed' = TRUE /\ StopAndZero
        /\ UNCHANGED <<file, alone, overlapped, moved, stale, recent, earlyClock>>
        /\ member' = [member EXCEPT !.yaw = 0, !.mode = -1]
    BY <1>7 DEF ZeroInit
  <2>3. /\ head' \in HeadType /\ head'.pitch = head.pitch /\ head'.mode = head.mode
        /\ head'.yaw = 0 \/ "yaw" \in lost'
        /\ lost' \subseteq {"yaw", "pitch", "enabled", "mode"}
        /\ \A other : other # "yaw" => (other \in lost' <=> other \in lost)
    <3>1. lost' = lost \ {"yaw"} \/ lost' = lost \cup {"yaw"}  BY <2>2 DEF StopAndZero
    <3>2. lost \subseteq {"yaw", "pitch", "enabled", "mode"}  BY <1>t DEF PtzTypes
    <3>3. PICK stops \in BOOLEAN :
            LET stopped == [head EXCEPT !.enabled = @ /\ ~stops] IN
            \/ head' = [stopped EXCEPT !.yaw = 0] /\ lost' = lost \ {"yaw"}
            \/ head' = stopped /\ lost' = lost \cup {"yaw"}
      BY <2>2, Zenon DEF StopAndZero
    <3>4. head \in HeadType /\ [head EXCEPT !.enabled = @ /\ ~stops] \in HeadType
      BY <1>t DEF PtzTypes, HeadType
    <3>5. /\ head' \in HeadType /\ head'.pitch = head.pitch /\ head'.mode = head.mode
          /\ head'.yaw = 0 \/ "yaw" \in lost'
      BY <1>m, <3>3, <3>4 DEF HeadType
    <3> QED BY <3>1, <3>2, <3>5
  <2>4. /\ member' \in MemberType /\ member'.yaw = 0 /\ member'.mode = -1
        /\ member'.pitch = member.pitch /\ member'.target = member.target
    BY <1>t, <1>m, <2>2 DEF MemberType
  <2>5. PtzTypes'  BY <1>t, <2>1, <2>2, <2>3, <2>4 DEF PtzTypes, Turning
  <2>6. ~SkipsZero  BY <1>i, <2>2 DEF ZeroInv
  <2>7. ZeroInv'  BY <1>0, <1>i, <1>m, <2>1, <2>2, <2>4, <2>6 DEF ZeroInv, SkipsZero
  <2>8. ReadyInv'
    <3>1. (YawKnown => head.yaw = member.yaw)'  BY <2>3, <2>4 DEF YawKnown
    <3>2. ("pitch" \in moved \ lost => PitchWithinStep)'
      BY <1>i, <2>2, <2>3, <2>4 DEF ReadyInv, PitchWithinStep, Clamped
    <3> QED BY <2>1, <3>1, <3>2 DEF ReadyInv
  <2>9. AloneInv'  BY <1>t, <1>i, <2>1, <2>2, <2>4 DEF AloneInv
  <2>10. FileInv'
    BY <1>i, <2>1, <2>2, <2>4, <2>6 DEF FileInv, ColumnStored, SkipsZero, Turning
  <2> QED BY <2>5, <2>7, <2>8, <2>9, <2>10 DEF PtzInv
<1>8. ASSUME NEW c \in Clients, SetPtzEnable(c) PROVE PtzInv'
  <2>1. /\ op' \in [Clients -> OpTypes]
        /\ \A d \in Clients :
             /\ op'[d].pc = IF d = c THEN "scan" ELSE op[d].pc
             /\ op'[d].move = op[d].move /\ op'[d].yaw = op[d].yaw
             /\ op'[d].pitch = op[d].pitch /\ Target(d)' = Target(d)
    BY <1>t, <1>8, ToFacts DEF SetPtzEnable, PcTypes
  <2>2. /\ op[c].pc = "enable" /\ locked = Unset /\ Tell("enabled", TRUE)
        /\ UNCHANGED <<member, locked, file, alone, overlapped, zeroed,
                       moved, stale, recent, earlyClock>>
    BY <1>8 DEF SetPtzEnable
  <2>3. /\ head' \in HeadType /\ head'.yaw = head.yaw /\ head'.pitch = head.pitch
        /\ head'.mode = head.mode /\ (head'.enabled = TRUE \/ "enabled" \in lost')
    BY <1>i, <2>2, TellFacts
  <2>4. /\ lost' \subseteq {"yaw", "pitch", "enabled", "mode"}
        /\ \A other : other # "enabled" => (other \in lost' <=> other \in lost)
    BY <1>i, <2>2, TellLost
  <2>5. PtzTypes'  BY <1>t, <2>1, <2>2, <2>3, <2>4 DEF PtzTypes, Turning
  <2>6. ZeroInv'  BY <1>i, <2>1, <2>2 DEF ZeroInv, SkipsZero
  <2>7. ReadyInv'
    <3>1. (YawKnown => head.yaw = member.yaw)'
      BY <1>i, <2>2, <2>3, <2>4 DEF ReadyInv, YawKnown
    <3>2. ("pitch" \in moved \ lost => PitchWithinStep)'
      BY <1>i, <2>2, <2>3, <2>4 DEF ReadyInv, PitchWithinStep, Clamped
    <3> QED BY <2>1, <2>3, <3>1, <3>2 DEF ReadyInv
  <2>8. AloneInv'  BY <1>t, <1>i, <2>1, <2>2 DEF AloneInv
  <2>9. FileInv'  BY <1>i, <2>1, <2>2 DEF FileInv, ColumnStored, SkipsZero, Turning
  <2> QED BY <2>5, <2>6, <2>7, <2>8, <2>9 DEF PtzInv
<1>9. ASSUME NEW c \in Clients, SetScanMode(c) PROVE PtzInv'
  <2>1. /\ op' \in [Clients -> OpTypes]
        /\ \A d \in Clients :
             /\ op'[d].pc = IF d = c THEN "act" ELSE op[d].pc
             /\ op'[d].move = op[d].move /\ op'[d].yaw = op[d].yaw
             /\ op'[d].pitch = op[d].pitch /\ Target(d)' = Target(d)
    BY <1>t, <1>9, ToFacts DEF SetScanMode, PcTypes
  <2>2. /\ op[c].pc = "scan" /\ locked = Unset /\ Tell("mode", CONSTANT_SCAN)
        /\ UNCHANGED <<locked, file, alone, overlapped, zeroed, moved, stale, recent, earlyClock>>
        /\ member' = [member EXCEPT !.mode = CONSTANT_SCAN]
    BY <1>9 DEF SetScanMode
  <2>3. /\ head' \in HeadType /\ head'.yaw = head.yaw /\ head'.pitch = head.pitch
        /\ head'.enabled = head.enabled /\ (head'.mode = CONSTANT_SCAN \/ "mode" \in lost')
    BY <1>i, <1>m, <2>2, TellFacts
  <2>4. /\ lost' \subseteq {"yaw", "pitch", "enabled", "mode"}
        /\ \A other : other # "mode" => (other \in lost' <=> other \in lost)
    BY <1>i, <2>2, TellLost
  <2>5. /\ member' \in MemberType /\ member'.yaw = member.yaw /\ member'.mode = CONSTANT_SCAN
        /\ member'.pitch = member.pitch /\ member'.target = member.target
    BY <1>t, <1>m, <2>2 DEF MemberType
  <2>6. PtzTypes'  BY <1>t, <2>1, <2>2, <2>3, <2>4, <2>5 DEF PtzTypes, Turning
  <2>7. zeroed /\ ~SkipsZero  BY <1>i, <2>2 DEF ZeroInv
  <2>8. ZeroInv'  BY <1>i, <2>1, <2>2, <2>5, <2>7 DEF ZeroInv, SkipsZero
  <2>9. ReadyInv'
    <3>1. (YawKnown => head.yaw = member.yaw)'
      BY <1>i, <2>2, <2>3, <2>4, <2>5 DEF ReadyInv, YawKnown
    <3>2. ("pitch" \in moved \ lost => PitchWithinStep)'
      BY <1>i, <2>2, <2>3, <2>4, <2>5 DEF ReadyInv, PitchWithinStep, Clamped
    <3>3. head'.enabled \/ "enabled" \in lost' \/ \E d \in Clients : op'[d].pc = "enable"
      BY <1>i, <2>1, <2>2, <2>3, <2>4, <2>7 DEF ReadyInv
    <3> QED BY <2>3, <2>5, <3>1, <3>2, <3>3 DEF ReadyInv
  <2>10. AloneInv'  BY <1>t, <1>i, <2>1, <2>2, <2>5 DEF AloneInv
  <2>11. FileInv'  BY <1>i, <2>1, <2>2, <2>5 DEF FileInv, ColumnStored, SkipsZero, Turning
  <2> QED BY <2>6, <2>8, <2>9, <2>10, <2>11 DEF PtzInv
<1>10. ASSUME NEW c \in Clients, SetTarget(c) PROVE PtzInv'
  <2>1. CASE Target(c) \in Yaws
    <3>1. /\ op' \in [Clients -> OpTypes]
          /\ \A d \in Clients :
               /\ op'[d].pc = IF d = c THEN "target" ELSE op[d].pc
               /\ op'[d].move = op[d].move /\ op'[d].yaw = op[d].yaw
               /\ op'[d].pitch = op[d].pitch /\ Target(d)' = Target(d)
      BY <1>t, <1>10, <2>1, ToFacts DEF SetTarget, PcTypes
    <3>2. PICK column \in Column(Target(c)) : member' = [member EXCEPT !.target = column]
      BY <1>10, <2>1 DEF SetTarget
    <3>3. op[c].pc = "act" /\ UNCHANGED <<locked, head, file, ptzHistory, recent, earlyClock>>
      BY <1>10 DEF SetTarget
    <3>4. /\ member' \in MemberType /\ member'.yaw = member.yaw /\ member'.mode = member.mode
          /\ member'.pitch = member.pitch /\ (zeroed => member'.target = Target(c))
      BY <1>t, <2>1, <3>2 DEF MemberType, Column
    <3>5. zeroed \/ SkipsZero  BY <1>i, <3>3 DEF ZeroInv
    <3>6. PtzTypes'  BY <1>t, <2>1, <3>1, <3>3, <3>4 DEF PtzTypes, Turning
    <3>7. ZeroInv'  BY <1>i, <3>1, <3>3, <3>4 DEF ZeroInv, SkipsZero
    <3>8. ReadyInv'
      BY <1>t, <1>i, <3>1, <3>3, <3>4 DEF ReadyInv, YawKnown, PitchWithinStep, Clamped
    <3>9. AloneInv'  BY <1>t, <1>i, <3>1, <3>3, <3>4 DEF AloneInv
    <3>10. FileInv'
      BY <1>t, <1>i, <3>1, <3>3, <3>4, <3>5 DEF FileInv, ColumnStored, SkipsZero, Turning
    <3> QED BY <3>6, <3>7, <3>8, <3>9, <3>10 DEF PtzInv
  <2>2. CASE Target(c) \notin Yaws
    <3>1. /\ op[c].pc = "act" /\ Finish(c)
          /\ UNCHANGED <<member, locked, head, file, ptzHistory, recent, earlyClock>>
      BY <1>10, <2>2 DEF SetTarget
    <3>2. op' \in [Clients -> OpTypes] /\ \A d \in Clients : op'[d] = IF d = c THEN NoOp ELSE op[d]
      BY <1>t, <3>1, FinishFacts
    <3>3. \A d \in Clients : Turning(d)' => d # c /\ Target(d)' = Target(d)
      BY <1>n, <3>2 DEF Target, Turning
    <3>4. PtzTypes'  BY <1>t, <3>1, <3>2, <3>3 DEF PtzTypes, Turning
    <3>5. ZeroInv'  BY <1>n, <1>i, <3>1, <3>2 DEF ZeroInv, SkipsZero
    <3>6. ReadyInv'
      BY <1>t, <1>n, <1>i, <3>1, <3>2 DEF ReadyInv, YawKnown, PitchWithinStep, Clamped
    <3>7. AloneInv'  BY <1>t, <1>n, <1>i, <3>1, <3>2 DEF AloneInv
    <3>8. FileInv'
      BY <1>t, <1>n, <1>i, <3>1, <3>2, <3>3 DEF FileInv, ColumnStored, SkipsZero, Turning
    <3> QED BY <3>4, <3>5, <3>6, <3>7, <3>8 DEF PtzInv
  <2> QED BY <2>1, <2>2
<1>11. ASSUME NEW c \in Clients, SetTargetLocation(c) PROVE PtzInv'
  <2>1. /\ op' \in [Clients -> OpTypes]
        /\ \A d \in Clients :
             /\ op'[d].pc = IF d = c THEN "angle" ELSE op[d].pc
             /\ op'[d].move = op[d].move /\ op'[d].yaw = op[d].yaw
             /\ op'[d].pitch = op[d].pitch /\ Target(d)' = Target(d)
    BY <1>t, <1>11, ToFacts DEF SetTargetLocation, PcTypes
  <2>2. /\ op[c].pc = "target" /\ locked = Unset /\ locked' = c /\ Tell("yaw", Target(c))
        /\ UNCHANGED <<file, alone, overlapped, zeroed, stale, recent, earlyClock>>
        /\ moved' = moved \cup {"yaw"}
        /\ member' = [member EXCEPT !.yaw = Target(c)]
    BY <1>11 DEF SetTargetLocation
  <2>3. Target(c) \in Yaws  BY <1>t, <2>2 DEF Turning
  <2>4. /\ head' \in HeadType /\ head'.pitch = head.pitch
        /\ head'.enabled = head.enabled /\ head'.mode = head.mode
        /\ head'.yaw = Target(c) \/ "yaw" \in lost'
    BY <1>i, <2>2, <2>3, TellFacts
  <2>5. /\ lost' \subseteq {"yaw", "pitch", "enabled", "mode"}
        /\ \A other : other # "yaw" => (other \in lost' <=> other \in lost)
    BY <1>i, <2>2, TellLost
  <2>6. /\ member' \in MemberType /\ member'.yaw = Target(c) /\ member'.mode = member.mode
        /\ member'.pitch = member.pitch /\ member'.target = member.target
    BY <1>t, <2>2, <2>3 DEF MemberType
  <2>7. PtzTypes'  BY <1>t, <2>1, <2>2, <2>3, <2>4, <2>5, <2>6 DEF PtzTypes, Turning
  <2>8. zeroed \/ SkipsZero  BY <1>i, <2>2 DEF ZeroInv
  <2>9. ZeroInv'  BY <1>0, <1>i, <2>1, <2>2, <2>6, <2>8 DEF ZeroInv, SkipsZero
  <2>10. ReadyInv'
    <3>1. (YawKnown => head.yaw = member.yaw)'  BY <2>4, <2>6 DEF YawKnown
    <3>2. ("pitch" \in moved \ lost => PitchWithinStep)'
      BY <1>i, <2>2, <2>4, <2>5, <2>6 DEF ReadyInv, PitchWithinStep, Clamped
    <3> QED BY <1>i, <2>1, <2>2, <2>4, <2>5, <2>6, <3>1, <3>2 DEF ReadyInv
  <2>11. AloneInv'  BY <1>t, <1>i, <2>1, <2>2, <2>6 DEF AloneInv
  <2>12. FileInv'
    BY <1>t, <1>i, <2>1, <2>2, <2>6 DEF FileInv, ColumnStored, SkipsZero, Turning
  <2> QED BY <2>7, <2>9, <2>10, <2>11, <2>12 DEF PtzInv
<1>12. ASSUME NEW c \in Clients, StoreAngle(c) PROVE PtzInv'
  <2>1. /\ op' \in [Clients -> OpTypes]
        /\ \A d \in Clients :
             /\ op'[d].pc = IF d = c THEN "column" ELSE op[d].pc
             /\ op'[d].move = op[d].move /\ op'[d].yaw = op[d].yaw
             /\ op'[d].pitch = op[d].pitch /\ Target(d)' = Target(d)
    BY <1>t, <1>12, ToFacts DEF StoreAngle, PcTypes
  <2>2. /\ op[c].pc = "angle" /\ Save("angle", Target(c))
        /\ UNCHANGED <<member, locked, head, alone, overlapped, zeroed,
                       moved, lost, recent, earlyClock>>
    BY <1>12 DEF StoreAngle
  <2>3. Target(c) \in Yaws  BY <1>t, <2>2 DEF Turning
  <2>4. /\ file' \in FileType /\ file'.scan = file.scan /\ file'.pitch = file.pitch
        /\ file'.target = file.target /\ (file'.angle = Target(c) \/ "angle" \in stale')
        /\ stale' \subseteq {"pitch", "angle", "target"}
        /\ "pitch" \in stale' <=> "pitch" \in stale
    BY <1>t, <2>2, <2>3 DEF Save, FileType
  <2>5. PtzTypes'  BY <1>t, <2>1, <2>2, <2>4 DEF PtzTypes, Turning
  <2>6. ZeroInv'  BY <1>i, <2>1, <2>2, <2>4 DEF ZeroInv, SkipsZero
  <2>7. ReadyInv'
    BY <1>t, <1>i, <2>1, <2>2 DEF ReadyInv, YawKnown, PitchWithinStep, Clamped
  <2>8. AloneInv'  BY <1>t, <1>i, <2>1, <2>2 DEF AloneInv
  <2>9. FileInv'
    BY <1>t, <1>i, <2>1, <2>2, <2>4 DEF FileInv, ColumnStored, SkipsZero, Turning
  <2> QED BY <2>5, <2>6, <2>7, <2>8, <2>9 DEF PtzInv
<1>13. ASSUME NEW c \in Clients, StoreColumn(c) PROVE PtzInv'
  <2>1. /\ op[c].pc = "column" /\ Finish(c) /\ Save("target", member.target) /\ locked' = Unset
        /\ UNCHANGED <<member, head, alone, overlapped, zeroed, moved, lost, recent, earlyClock>>
    BY <1>13 DEF StoreColumn
  <2>2. op' \in [Clients -> OpTypes] /\ \A d \in Clients : op'[d] = IF d = c THEN NoOp ELSE op[d]
    BY <1>t, <2>1, FinishFacts
  <2>3. /\ file' \in FileType /\ file'.scan = file.scan /\ file'.pitch = file.pitch
        /\ file'.angle = file.angle /\ (file'.target = member.target \/ "target" \in stale')
        /\ stale' \subseteq {"pitch", "angle", "target"}
        /\ \A other : other # "target" => (other \in stale' <=> other \in stale)
    BY <1>t, <2>1 DEF Save, FileType, MemberType
  <2>4. \A d \in Clients : Turning(d)' => d # c /\ Target(d)' = Target(d)
    BY <1>n, <2>2 DEF Target, Turning
  <2>5. PtzTypes'  BY <1>t, <2>1, <2>2, <2>3, <2>4 DEF PtzTypes, Turning
  <2>6. zeroed \/ SkipsZero  BY <1>i, <2>1 DEF ZeroInv
  <2>7. \A d \in Clients : op[d].pc \in {"zeroing", "angle", "column"} => d = c
    BY <1>i, <2>1 DEF ZeroInv
  <2>8. ZeroInv'  BY <1>0, <1>n, <1>i, <2>1, <2>2, <2>3, <2>6, <2>7 DEF ZeroInv, SkipsZero
  <2>9. ReadyInv'
    BY <1>t, <1>n, <1>i, <2>1, <2>2 DEF ReadyInv, YawKnown, PitchWithinStep, Clamped
  <2>10. AloneInv'  BY <1>t, <1>n, <1>i, <2>1, <2>2 DEF AloneInv
  <2>11. FileInv'
    BY <1>t, <1>n, <1>i, <2>1, <2>2, <2>3, <2>4 DEF FileInv, ColumnStored, SkipsZero, Turning
  <2> QED BY <2>5, <2>8, <2>9, <2>10, <2>11 DEF PtzInv
<1>14. ASSUME NEW c \in Clients, SetPtzPitchAngle(c) PROVE PtzInv'
  <2> DEFINE p == PitchAsked(c)
  <2>1. /\ op[c].pc = "act" /\ To(c, "save") /\ locked = Unset /\ Tell("pitch", p)
        /\ UNCHANGED <<locked, file, alone, overlapped, zeroed, stale, recent, earlyClock>>
        /\ moved' = moved \cup {"pitch"}
        /\ member' = [member EXCEPT !.pitch = Clamped(p)]
    BY <1>14 DEF SetPtzPitchAngle
  <2>2. /\ op' \in [Clients -> OpTypes]
        /\ \A d \in Clients :
             /\ op'[d].pc = IF d = c THEN "save" ELSE op[d].pc
             /\ op'[d].move = op[d].move /\ op'[d].yaw = op[d].yaw
             /\ op'[d].pitch = op[d].pitch /\ Target(d)' = Target(d)
    BY <1>t, <2>1, ToFacts DEF PcTypes
  <2>3. p \in Int /\ p \in LowPitch - PitchStep .. HighPitch + PitchStep
    <3>1. op[c].pitch \in LowPitch .. HighPitch  BY <1>t DEF OpTypes, Pitches
    <3> QED BY <1>0, <3>1 DEF PitchAsked
  <2> HIDE DEF p
  <2>4. Clamped(p) \in Pitches  BY <1>0, <2>3 DEF Clamped, Pitches
  <2>5. /\ head' \in HeadType /\ head'.yaw = head.yaw
        /\ head'.enabled = head.enabled /\ head'.mode = head.mode
        /\ head'.pitch = p \/ "pitch" \in lost'
    BY <1>i, <2>1, <2>3, TellFacts
  <2>6. /\ lost' \subseteq {"yaw", "pitch", "enabled", "mode"}
        /\ \A other : other # "pitch" => (other \in lost' <=> other \in lost)
    BY <1>i, <2>1, TellLost
  <2>7. /\ member' \in MemberType /\ member'.yaw = member.yaw /\ member'.mode = member.mode
        /\ member'.pitch = Clamped(p) /\ member'.target = member.target
    BY <1>t, <2>1, <2>4 DEF MemberType
  <2>8. PtzTypes'  BY <1>t, <2>1, <2>2, <2>5, <2>6, <2>7 DEF PtzTypes, Turning
  <2>9. ZeroInv'  BY <1>i, <2>1, <2>2, <2>7 DEF ZeroInv, SkipsZero
  <2>10. ReadyInv'
    <3>1. (YawKnown => head.yaw = member.yaw)'
      BY <1>i, <2>1, <2>5, <2>6, <2>7 DEF ReadyInv, YawKnown
    <3>2. ("pitch" \in moved \ lost => PitchWithinStep)'
      BY <2>3, <2>5, <2>7 DEF PitchWithinStep, Clamped
    <3> QED BY <1>i, <2>1, <2>2, <2>5, <2>6, <2>7, <3>1, <3>2 DEF ReadyInv
  <2>11. AloneInv'  BY <1>t, <1>i, <2>1, <2>2, <2>7 DEF AloneInv
  <2>12. FileInv'
    BY <1>t, <1>i, <2>1, <2>2, <2>7 DEF FileInv, ColumnStored, SkipsZero, Turning
  <2> QED BY <2>8, <2>9, <2>10, <2>11, <2>12 DEF PtzInv
<1>15. ASSUME NEW c \in Clients, ReadPitch(c) PROVE PtzInv'
  <2> DEFINE new == [op[c] EXCEPT !.pc = "store", !.pitch = member.pitch]
  <2>1. new \in OpTypes /\ new.pc = "store" /\ new.yaw = op[c].yaw /\ new.pitch = member.pitch
    BY <1>t, <1>m DEF OpTypes, PcTypes
  <2>2. op' = [op EXCEPT ![c] = new] /\ op[c].pc = "save"
    BY <1>t, <1>15 DEF ReadPitch, OpTypes
  <2> HIDE DEF new
  <2>3. op' \in [Clients -> OpTypes] /\ \A d \in Clients : op'[d] = IF d = c THEN new ELSE op[d]
    BY <1>t, <2>1, <2>2
  <2>4. UNCHANGED <<member, locked, head, file, ptzHistory, recent, earlyClock>>
    BY <1>15 DEF ReadPitch
  <2>5. \A d \in Clients : op'[d].pc \in {"target", "angle", "column"}
          => d # c /\ Target(d)' = Target(d)
    BY <2>1, <2>3 DEF Target
  <2>6. PtzTypes'  BY <1>t, <2>3, <2>4, <2>5 DEF PtzTypes, Turning
  <2>7. ZeroInv'  BY <1>i, <2>1, <2>2, <2>3, <2>4 DEF ZeroInv, SkipsZero
  <2>8. ReadyInv'
    BY <1>t, <1>i, <2>1, <2>2, <2>3, <2>4 DEF ReadyInv, YawKnown, PitchWithinStep, Clamped
  <2>9. AloneInv'  BY <1>t, <1>i, <2>1, <2>2, <2>3, <2>4 DEF AloneInv
  <2>10. FileInv'
    BY <1>t, <1>i, <2>1, <2>2, <2>3, <2>4, <2>5 DEF FileInv, ColumnStored, SkipsZero, Turning
  <2> QED BY <2>6, <2>7, <2>8, <2>9, <2>10 DEF PtzInv
<1>16. ASSUME NEW c \in Clients, StorePitch(c) PROVE PtzInv'
  <2>1. /\ op[c].pc = "store" /\ Finish(c) /\ Save("pitch", op[c].pitch)
        /\ UNCHANGED <<member, locked, head, alone, overlapped, zeroed,
                       moved, lost, recent, earlyClock>>
    BY <1>16 DEF StorePitch
  <2>2. op' \in [Clients -> OpTypes] /\ \A d \in Clients : op'[d] = IF d = c THEN NoOp ELSE op[d]
    BY <1>t, <2>1, FinishFacts
  <2>3. op[c].pitch \in Pitches  BY <1>t DEF OpTypes
  <2>4. /\ file' \in FileType /\ file'.scan = file.scan /\ file'.angle = file.angle
        /\ file'.target = file.target /\ (file'.pitch = op[c].pitch \/ "pitch" \in stale')
        /\ stale' \subseteq {"pitch", "angle", "target"}
        /\ \A other : other # "pitch" => (other \in stale' <=> other \in stale)
    BY <1>t, <2>1, <2>3 DEF Save, FileType
  <2>5. \A d \in Clients : Turning(d)' => d # c /\ Target(d)' = Target(d)
    BY <1>n, <2>2 DEF Target, Turning
  <2>6. PtzTypes'  BY <1>t, <2>1, <2>2, <2>4, <2>5 DEF PtzTypes, Turning
  <2>7. ZeroInv'  BY <1>n, <1>i, <2>1, <2>2, <2>4 DEF ZeroInv, SkipsZero
  <2>8. ReadyInv'
    BY <1>t, <1>n, <1>i, <2>1, <2>2 DEF ReadyInv, YawKnown, PitchWithinStep, Clamped
  <2>9. AloneInv'  BY <1>t, <1>n, <1>i, <2>1, <2>2 DEF AloneInv
  <2>10. FileInv'
    BY <1>t, <1>n, <1>i, <2>1, <2>2, <2>4, <2>5 DEF FileInv, ColumnStored, SkipsZero, Turning
  <2> QED BY <2>6, <2>7, <2>8, <2>9, <2>10 DEF PtzInv
<1>17. CASE SecondPasses
  <2>1. /\ recent' = FALSE
        /\ UNCHANGED <<member, locked, head, file, op, ptzHistory, earlyClock>>
    BY <1>17 DEF SecondPasses
  <2>2. \A d \in Clients : Target(d)' = Target(d)  BY <2>1 DEF Target
  <2>3. PtzTypes'  BY <1>t, <2>1, <2>2 DEF PtzTypes, Turning
  <2>4. ZeroInv'  BY <1>i, <2>1 DEF ZeroInv, SkipsZero
  <2>5. ReadyInv'  BY <1>i, <2>1 DEF ReadyInv, YawKnown, PitchWithinStep, Clamped
  <2>6. AloneInv'  BY <1>t, <1>i, <2>1 DEF AloneInv
  <2>7. FileInv'  BY <1>i, <2>1, <2>2 DEF FileInv, ColumnStored, SkipsZero, Turning
  <2> QED BY <2>3, <2>4, <2>5, <2>6, <2>7 DEF PtzInv
<1>18. CASE PtzRestart
  <2>1. /\ locked' = Unset /\ op' = [c \in Clients |-> NoOp] /\ recent' = FALSE
        /\ alone' = {} /\ zeroed' = FALSE /\ moved' = {} /\ lost' = {}
        /\ UNCHANGED <<head, file, overlapped>>
        /\ member' = [yaw |-> 0, pitch |-> file.pitch, mode |-> file.scan, target |-> file.target]
    BY <1>18 DEF PtzRestart, Started
  <2>2. /\ stale' \subseteq {"pitch", "angle", "target"}
        /\ ColumnStored' => ColumnStored /\ \A c \in Clients : op[c].pc # "column"
    BY <1>t, <1>18 DEF PtzRestart, ColumnStored
  <2>3. /\ member' \in MemberType /\ member'.yaw = 0 /\ member'.mode = file.scan
        /\ member'.pitch = file.pitch
    BY <1>t, <1>m, <2>1 DEF MemberType, FileType, Modes
  <2>4. op' \in [Clients -> OpTypes] /\ \A c \in Clients : op'[c].pc = "idle"
    BY <1>n, <2>1
  <2>5. PtzTypes'  BY <1>t, <2>1, <2>2, <2>3, <2>4 DEF PtzTypes, Turning
  <2>6. ZeroInv'  BY <1>0, <2>1, <2>3, <2>4 DEF ZeroInv, SkipsZero
  <2>7. ReadyInv'  BY <2>1 DEF ReadyInv, YawKnown
  <2>8. AloneInv'  BY <2>1 DEF AloneInv
  <2>9. FileInv'
    <3>1. ~overlapped' /\ ColumnStored' /\ ~SkipsZero' => file'.target = file'.angle
      BY <1>i, <2>1, <2>2 DEF FileInv, SkipsZero
    <3> QED BY <2>1, <2>3, <2>4, <3>1 DEF FileInv, Turning
  <2> QED BY <2>5, <2>6, <2>7, <2>8, <2>9 DEF PtzInv
<1>19. CASE UNCHANGED ptzVars
  <2>1. UNCHANGED <<member, locked, head, file, op, ptzHistory, recent>>
    BY <1>19 DEF ptzVars
  <2>2. \A d \in Clients : Target(d)' = Target(d)  BY <2>1 DEF Target
  <2> QED BY <1>t, <1>i, <2>1, <2>2
    DEF PtzInv, PtzTypes, ZeroInv, ReadyInv, AloneInv, FileInv, Turning, SkipsZero, YawKnown,
        PitchWithinStep, ColumnStored, Clamped
<1> QED
  BY <1>1, <1>2, <1>4, <1>5, <1>6, <1>7, <1>8, <1>9, <1>10, <1>11, <1>12, <1>13, <1>14, <1>15,
     <1>16, <1>17, <1>18, <1>19 DEF PtzNext, PtzCtrlNormal

LEMMA PtzInvariant == PtzSpec => []PtzInv
<1>1. PtzInit => PtzInv  BY PtzAssumption, PtzInvInit
<1>2. PtzInv /\ [PtzNext]_ptzVars => PtzInv'  BY PtzAssumption, PtzInvStep
<1> QED BY <1>1, <1>2, PTL DEF PtzSpec

\* Every variable has its type, and both angles stay within their ranges
\* (PtzTypeOK, CPtzCtrl.cpp:226-264, 639-710), for any ranges and steps.
THEOREM AnglesCorrect == PtzSpec => []PtzTypeOK
<1>1. PtzInv => PtzTypeOK
  BY PtzAssumption DEF PtzAssumption, PtzInv, PtzTypes, PtzTypeOK, MemberType, HeadType, FileType,
     OpTypes, Pitches
<1> QED BY <1>1, PtzInvariant, PTL

\* However commands overlap, the head was sent to zero before it is moved, unless
\* the file's scan mode skips that, and stands enabled and where the member says
\* when they are over, but for messages that were not written (ReadyAtRest,
\* CPtzCtrl.cpp:168, 226-710, mpu_ciu_ptz.cpp:17), for any scan modes in the file,
\* clients, ranges and steps.
THEOREM HeadCorrect == PtzSpec => []ReadyAtRest
<1>1. PtzInv => ReadyAtRest
  BY DEF PtzInv, ZeroInv, ReadyInv, ReadyAtRest, AtRest, On
<1> QED BY <1>1, PtzInvariant, PTL

\* A client nobody overlaps moves from where the head is, and the file has what
\* the members have, but for values that could not be stored and a process that
\* died between storing the angle and its column (UndisturbedAgrees,
\* mpu_ciu_ptz.cpp:9-89, CPtzCtrl.cpp:267, 690-697).
THEOREM UndisturbedCorrect == PtzSpec => []UndisturbedAgrees
<1>1. PtzInv => UndisturbedAgrees
  <2>1. PtzInv => AloneIsFresh
    BY DEF PtzInv, PtzTypes, AloneInv, ReadyInv, ZeroInv, AloneIsFresh, On
  <2>2. PtzInv => PtzFileAgrees
    BY DEF PtzInv, FileInv, PtzFileAgrees, AtRest, On
  <2> QED BY <2>1, <2>2 DEF UndisturbedAgrees
<1> QED BY <1>1, PtzInvariant, PTL


-----------------------------------------------------------------------------
(* The settings of the visible camera                                      *)

\* What the calls for a setting may still have to do.
IsTodo(s, todo) ==
  \/ s \in Sent /\ todo = <<"send", "keep", "store">>
  \/ s = "focus" /\ todo = <<"call", "keep", "store">>
  \/ s \in Sent \cup {"focus", "saturation"} /\ todo \in {<<"keep", "store">>, <<"store">>}
  \/ s = "zoom" /\ todo \in {<<"call", "store", "keep">>, <<"store", "keep">>, <<"keep">>}
  \/ s = "autofocus" /\ todo = <<"call">>

IsCall(call) ==
  \/ call = Outside
  \/ /\ call = [setting |-> call.setting, value |-> call.value, todo |-> call.todo]
     /\ call.setting \in VisSettings \cup {"autofocus"}
     /\ IsTodo(call.setting, call.todo)
     /\ call.setting \in VisSettings => call.value \in VisValues

VisTypes ==
  /\ DOMAIN visMember = VisSettings /\ visMember = [s \in VisSettings |-> visMember[s]]
  /\ visFile \in [VisSettings -> VisValues]
  /\ DOMAIN visCamera = VisSettings /\ visCamera = [s \in VisSettings |-> visCamera[s]]
  /\ visCall = [c \in Callers |-> visCall[c]]
  /\ \A c \in Callers : IsCall(visCall[c])
  /\ visLoad \in [at : Nat, value : VisValues \cup {VisNone}]
  /\ visLoad.value # VisNone => Loading /\ LoadOrder[visLoad.at] \in VisSettings

\* The section: nobody is in it before the callbacks are there, and with the
\* focusing callback m_Lock is held for the one that is.
Section ==
  /\ visLoad.at = 0 => ~visLocked /\ \A c \in Callers : ~Inside(c)
  /\ "autofocus" \in visCallbacks =>
       /\ visLocked <=> \E c \in Callers : Inside(c)
       /\ \A c, d \in Callers : Inside(c) /\ Inside(d) => c = d

\* A setting no two calls are inside for.
Works(c, s) == visCall[c].setting = s

CallAgrees(c, s) ==
  /\ s \in visTold \ visLost =>
       visCamera[s] =
         Wire(s, IF visCall[c].todo \in {<<"keep", "store">>, <<"store", "keep">>, <<"keep">>}
                 THEN visCall[c].value ELSE visMember[s])
  /\ visCall[c].todo \notin {<<"store">>, <<"keep">>} /\ s \in visKnown \ visUnsaved =>
       visFile[s] = visMember[s]
  /\ visCall[c].todo = <<"store">> => visMember[s] = visCall[c].value
  /\ visCall[c].todo = <<"keep">> /\ s \notin visUnsaved => visFile[s] = visCall[c].value

RestAgrees(s) ==
  /\ s \in visTold \ visLost => visCamera[s] = Wire(s, visMember[s])
  /\ s \in visKnown \ visUnsaved => visFile[s] = visMember[s]

Agrees(s) ==
  s \notin visMixed =>
    /\ \A c, d \in Callers : Works(c, s) /\ Works(d, s) => c = d
    /\ \A c \in Callers : Works(c, s) => CallAgrees(c, s)
    /\ (\A c \in Callers : ~Works(c, s)) => RestAgrees(s)
    /\ (Loading /\ LoadOrder[visLoad.at] = s /\ s # "zoom" /\ visLoad.value # VisNone) =>
         s \in visKnown \/ visFile[s] = visLoad.value

\* Nothing tells the camera of the saturation.
HistoryType == visTold \subseteq VisSettings \ {"saturation"} /\ visKnown \subseteq VisSettings

VisInv ==
  /\ VisTypes /\ Section
  /\ HistoryType
  /\ \A s \in VisSettings : Agrees(s)

LEMMA SettingsFacts == ASSUME VisAssumption
  PROVE /\ "none" \notin VisSettings /\ "autofocus" \notin VisSettings
        /\ \A s \in VisSettings : s \in Sent \cup {"saturation", "focus", "zoom"}
        /\ "saturation" \notin Sent /\ "focus" \notin Sent /\ "zoom" \notin Sent
        /\ "autofocus" \notin Sent
BY DEF VisAssumption, Held, Sent, Called

\* The first of the steps a call has left, and those after it.
LEMMA StepFacts ==
  ASSUME VisAssumption, NEW s \in VisSettings \cup {"autofocus"}, NEW todo, IsTodo(s, todo)
  PROVE  \/ /\ todo = <<"send", "keep", "store">> /\ Head(todo) = "send"
            /\ Tail(todo) = <<"keep", "store">> /\ s \in Sent
         \/ /\ todo = <<"call", "keep", "store">> /\ Head(todo) = "call"
            /\ Tail(todo) = <<"keep", "store">> /\ s = "focus"
         \/ /\ todo = <<"keep", "store">> /\ Head(todo) = "keep"
            /\ Tail(todo) = <<"store">> /\ s \in Sent \cup {"focus", "saturation"}
         \/ /\ todo = <<"store">> /\ Head(todo) = "store"
            /\ Tail(todo) = <<>> /\ s \in Sent \cup {"focus", "saturation"}
         \/ /\ todo = <<"call", "store", "keep">> /\ Head(todo) = "call"
            /\ Tail(todo) = <<"store", "keep">> /\ s = "zoom"
         \/ /\ todo = <<"store", "keep">> /\ Head(todo) = "store"
            /\ Tail(todo) = <<"keep">> /\ s = "zoom"
         \/ /\ todo = <<"keep">> /\ Head(todo) = "keep" /\ Tail(todo) = <<>> /\ s = "zoom"
         \/ /\ todo = <<"call">> /\ Head(todo) = "call" /\ Tail(todo) = <<>> /\ s = "autofocus"
<1>1. CASE todo = <<"send", "keep", "store">>
  BY <1>1, SettingsFacts DEF IsTodo
<1>2. CASE todo = <<"call", "keep", "store">>
  BY <1>2, SettingsFacts DEF IsTodo
<1>3. CASE todo = <<"keep", "store">>
  BY <1>3, SettingsFacts DEF IsTodo
<1>4. CASE todo = <<"store">>
  BY <1>4, SettingsFacts DEF IsTodo
<1>5. CASE todo = <<"call", "store", "keep">>
  BY <1>5, SettingsFacts DEF IsTodo
<1>6. CASE todo = <<"store", "keep">>
  BY <1>6, SettingsFacts DEF IsTodo
<1>7. CASE todo = <<"keep">>
  BY <1>7, SettingsFacts DEF IsTodo
<1>8. CASE todo = <<"call">>
  BY <1>8, SettingsFacts DEF IsTodo
<1> QED BY <1>1, <1>2, <1>3, <1>4, <1>5, <1>6, <1>7, <1>8 DEF IsTodo

LEMMA RestFacts ==
  ASSUME VisAssumption, NEW s \in VisSettings \cup {"autofocus"}, NEW todo, IsTodo(s, todo),
         Tail(todo) # <<>>
  PROVE  IsTodo(s, Tail(todo))
<1>1. CASE todo = <<"send", "keep", "store">>
  BY <1>1, SettingsFacts DEF IsTodo
<1>2. CASE todo = <<"call", "keep", "store">>
  BY <1>2, SettingsFacts DEF IsTodo
<1>3. CASE todo = <<"keep", "store">>
  BY <1>3, SettingsFacts DEF IsTodo
<1>4. CASE todo = <<"store">>
  BY <1>4, SettingsFacts DEF IsTodo
<1>5. CASE todo = <<"call", "store", "keep">>
  BY <1>5, SettingsFacts DEF IsTodo
<1>6. CASE todo = <<"store", "keep">>
  BY <1>6, SettingsFacts DEF IsTodo
<1>7. CASE todo = <<"keep">>
  BY <1>7, SettingsFacts DEF IsTodo
<1>8. CASE todo = <<"call">>
  BY <1>8, SettingsFacts DEF IsTodo
<1> QED BY <1>1, <1>2, <1>3, <1>4, <1>5, <1>6, <1>7, <1>8 DEF IsTodo

\* A call about a setting is inside the setter.
LEMMA CallFacts ==
  ASSUME VisTypes, NEW c \in Callers, ~Inside(c)
  PROVE  visCall[c] = Outside
<1>1. \A s, todo : IsTodo(s, todo) => todo # <<>>  BY DEF IsTodo
<1> QED BY <1>1 DEF VisTypes, IsCall, Inside

LEMMA LoadNextFacts ==
  ASSUME VisTypes, NEW c \in Callers, LoadNext(c)
  PROVE  /\ visLoad' \in [at : Nat, value : VisValues \cup {VisNone}]
         /\ visLoad' = visLoad \/ (visLoad'.value = VisNone /\ visLoad'.at = visLoad.at + 1)
BY DEF VisTypes, LoadNext

LEMMA CallExcept ==
  ASSUME NEW call, NEW rest,
         call = [setting |-> call.setting, value |-> call.value, todo |-> call.todo]
  PROVE  [call EXCEPT !.todo = rest] = [setting |-> call.setting, value |-> call.value, todo |-> rest]
OBVIOUS

\* A step of a call is over: the call has the others left, or has left.
LEMMA DoneFacts ==
  ASSUME VisTypes, NEW c \in Callers, Inside(c), Done(c)
  PROVE  LET s == visCall[c].setting
             rest == Tail(visCall[c].todo)
         IN
         /\ visCall' = [d \in Callers |-> visCall'[d]]
         /\ \A d \in Callers : d # c => visCall'[d] = visCall[d]
         /\ \/ /\ rest = <<>> /\ visCall'[c] = Outside /\ visLocked' = FALSE /\ LoadNext(c)
               /\ visKnown' = visKnown \cup ({s} \cap Held)
            \/ /\ rest # <<>> /\ UNCHANGED <<visLocked, visLoad, visKnown>>
               /\ visCall'[c] = [setting |-> s, value |-> visCall[c].value, todo |-> rest]
<1> DEFINE s == visCall[c].setting
           rest == Tail(visCall[c].todo)
<1>1. CASE rest = <<>>
  <2>1. /\ visCall' = [visCall EXCEPT ![c] = Outside] /\ visLocked' = FALSE /\ LoadNext(c)
        /\ visKnown' = visKnown \cup ({s} \cap Held)
    BY <1>1 DEF Done, Leave
  <2> QED BY <1>1, <2>1 DEF VisTypes
<1>2. CASE rest # <<>>
  <2>1. /\ visCall' = [visCall EXCEPT ![c].todo = Tail(@)]
        /\ UNCHANGED <<visLocked, visLoad, visKnown>>
    BY <1>2 DEF Done
  <2>2. visCall[c] = [setting |-> s, value |-> visCall[c].value, todo |-> visCall[c].todo]
    BY DEF VisTypes, IsCall, Inside, Outside
  <2>3. visCall' = [visCall EXCEPT ![c] = [visCall[c] EXCEPT !.todo = rest]]
    BY <2>1
  <2>4. [visCall[c] EXCEPT !.todo = rest] = [setting |-> s, value |-> visCall[c].value, todo |-> rest]
    BY <2>2, CallExcept
  <2> HIDE DEF s, rest
  <2>5. visCall' = [visCall EXCEPT ![c] = [setting |-> s, value |-> visCall[c].value, todo |-> rest]]
    BY <2>3, <2>4
  <2> QED BY <1>2, <2>1, <2>5 DEF VisTypes, s, rest
<1> QED BY <1>1, <1>2

\* What a step that is about another setting does to this one.
LEMMA OtherSetting ==
  ASSUME NEW s \in VisSettings, Agrees(s),
         \A c \in Callers : Works(c, s)' <=> Works(c, s),
         \A c \in Callers : Works(c, s) => visCall'[c] = visCall[c],
         visMember'[s] = visMember[s], visFile'[s] = visFile[s], visCamera'[s] = visCamera[s],
         s \in visTold' <=> s \in visTold, s \in visLost' <=> s \in visLost,
         s \in visKnown' <=> s \in visKnown, s \in visMixed => s \in visMixed',
         s \in visUnsaved' <=> s \in visUnsaved,
         visLoad' = visLoad \/ visLoad'.value = VisNone
  PROVE  Agrees(s)'
<1> SUFFICES ASSUME s \notin visMixed PROVE Agrees(s)'
  BY DEF Agrees
<1>1. \A c, d \in Callers : Works(c, s)' /\ Works(d, s)' => c = d
  BY DEF Agrees
<1>2. \A c \in Callers : Works(c, s)' => CallAgrees(c, s)'
  BY DEF Agrees, CallAgrees
<1>3. (\A c \in Callers : ~Works(c, s)') => RestAgrees(s)'
  BY DEF Agrees, RestAgrees
<1>4. (Loading' /\ LoadOrder[visLoad'.at] = s /\ s # "zoom" /\ visLoad'.value # VisNone) =>
         s \in visKnown' \/ visFile'[s] = visLoad'.value
  <2>1. CASE visLoad' = visLoad  BY <2>1 DEF Agrees, Loading
  <2> QED BY <2>1
<1> QED BY <1>1, <1>2, <1>3, <1>4 DEF Agrees

\* What a step of the only call about a setting does to it.
LEMMA OwnSetting ==
  ASSUME NEW s \in VisSettings, NEW c \in Callers, Works(c, s), Agrees(s),
         visMixed' = visMixed, \A d \in Callers : d # c => visCall'[d] = visCall[d],
         visLoad' = visLoad \/ visLoad'.value = VisNone,
         \/ s = "zoom" \/ s \in visKnown'
         \/ visFile'[s] = visFile[s] /\ UNCHANGED visKnown,
         s \notin visMixed => \/ Works(c, s)' /\ CallAgrees(c, s)'
                              \/ ~Works(c, s)' /\ RestAgrees(s)'
  PROVE  Agrees(s)'
<1> SUFFICES ASSUME s \notin visMixed PROVE Agrees(s)'
  BY DEF Agrees
<1>1. \A d \in Callers : Works(d, s) => d = c
  BY DEF Agrees
<1>2. \A d \in Callers : Works(d, s)' => d = c
  BY <1>1 DEF Works
<1>3. \A d \in Callers : Works(d, s)' => CallAgrees(d, s)'
  BY <1>2
<1>4. (\A d \in Callers : ~Works(d, s)') => RestAgrees(s)'
  OBVIOUS
<1>5. (Loading' /\ LoadOrder[visLoad'.at] = s /\ s # "zoom" /\ visLoad'.value # VisNone) =>
         s \in visKnown' \/ visFile'[s] = visLoad'.value
  <2>1. CASE visLoad' = visLoad  BY <2>1 DEF Agrees, Loading
  <2> QED BY <2>1
<1> QED BY <1>2, <1>3, <1>4, <1>5 DEF Agrees

\* What a step of a call keeps, whatever it does to the setting.
LEMMA CallKeeps ==
  ASSUME VisAssumption, VisTypes, Section, NEW c \in Callers, Inside(c),
         visCallbacks' = visCallbacks,
         visCall' = [d \in Callers |-> visCall'[d]],
         \A d \in Callers : d # c => visCall'[d] = visCall[d],
         \/ visCall'[c] = Outside /\ visLocked' = FALSE /\ LoadNext(c)
         \/ /\ UNCHANGED <<visLocked, visLoad>> /\ Tail(visCall[c].todo) # <<>>
            /\ visCall'[c] = [setting |-> visCall[c].setting, value |-> visCall[c].value,
                              todo |-> Tail(visCall[c].todo)]
  PROVE  /\ Section'
         /\ \A d \in Callers : IsCall(visCall'[d])
         /\ visLoad' \in [at : Nat, value : VisValues \cup {VisNone}]
         /\ visLoad'.value # VisNone => Loading' /\ LoadOrder[visLoad'.at] \in VisSettings
         /\ visLoad' = visLoad \/ visLoad'.value = VisNone
<1> DEFINE s == visCall[c].setting
           rest == Tail(visCall[c].todo)
<1>1. /\ visLoad' \in [at : Nat, value : VisValues \cup {VisNone}]
      /\ visLoad' = visLoad \/ (visLoad'.value = VisNone /\ visLoad'.at = visLoad.at + 1)
  BY LoadNextFacts DEF VisTypes
<1>2. visLoad.at # 0 /\ visLoad'.at # 0
  BY <1>1 DEF Section, VisTypes
<1>3. visLoad'.value # VisNone => Loading' /\ LoadOrder[visLoad'.at] \in VisSettings
  BY <1>1 DEF VisTypes, Loading
<1>4. visCall'[c] # Outside => IsCall(visCall'[c])
  <2>1. SUFFICES ASSUME rest # <<>>,
                        visCall'[c] = [setting |-> s, value |-> visCall[c].value, todo |-> rest]
                 PROVE  IsCall(visCall'[c])
    OBVIOUS
  <2>2. /\ s \in VisSettings \cup {"autofocus"} /\ IsTodo(s, visCall[c].todo)
        /\ s \in VisSettings => visCall[c].value \in VisValues
    BY DEF VisTypes, IsCall, Inside, Outside
  <2>3. IsTodo(s, rest)
    BY <2>1, <2>2, RestFacts
  <2> HIDE DEF s, rest
  <2>4. /\ visCall'[c].setting = s /\ visCall'[c].value = visCall[c].value
        /\ visCall'[c].todo = rest
    BY <2>1
  <2> QED BY <2>1, <2>2, <2>3, <2>4 DEF IsCall
<1>5. \A d \in Callers : IsCall(visCall'[d])
  BY <1>4 DEF VisTypes, IsCall
<1>6. CASE visCall'[c] = Outside /\ visLocked' = FALSE
  <2>1. ~Inside(c)' /\ \A d \in Callers : d # c => (Inside(d)' <=> Inside(d))
    BY <1>6 DEF Inside, Outside
  <2>2. /\ visCallbacks' = visCallbacks
        /\ \A d \in Callers : Inside(d) => visLocked \/ "autofocus" \notin visCallbacks
    BY DEF Section
  <2>3. Section'  BY <1>2, <1>6, <2>1, <2>2 DEF Section
  <2> QED BY <1>1, <1>3, <1>5, <2>3
<1>7. CASE /\ UNCHANGED <<visLocked, visLoad>> /\ rest # <<>>
           /\ visCall'[c] = [setting |-> s, value |-> visCall[c].value, todo |-> rest]
  <2>0. visCall'[c].todo # <<>>  BY <1>7
  <2>1. \A d \in Callers : Inside(d)' <=> Inside(d)
    BY <2>0 DEF Inside
  <2> QED BY <1>1, <1>2, <1>3, <1>5, <1>7, <2>1 DEF Section
<1> QED BY <1>6, <1>7

\* The steps of a call that do something to the setting: s is the setting, in
\* VisSettings or the focusing command, and what happens to the others is that
\* nothing does.
LEMMA WorkStep ==
  ASSUME VisAssumption, VisInv, NEW c \in Callers, VisWork(c)
  PROVE  VisInv'
<1> DEFINE call == visCall[c]
           rest == Tail(call.todo)
<1>0. PICK s : s = visCall[c].setting  OBVIOUS
<1>1. Inside(c)
  BY DEF VisWork, Send, Call, CallFails, Keep, Store, At
<1>2. /\ VisTypes /\ Section /\ HistoryType
      /\ \A t \in VisSettings : Agrees(t)
  BY DEF VisInv
<1>3. s \in VisSettings \cup {"autofocus"} /\ IsTodo(s, call.todo)
  BY <1>0, <1>1, <1>2 DEF VisTypes, IsCall, Inside, Outside
<1>4. UNCHANGED <<visCallbacks, visMixed>>
  BY DEF VisWork, Send, Call, CallFails, Keep, Store
<1>5. /\ visCall' = [d \in Callers |-> visCall'[d]]
      /\ \A d \in Callers : d # c => visCall'[d] = visCall[d]
      /\ \/ visCall'[c] = Outside /\ visLocked' = FALSE /\ LoadNext(c)
         \/ /\ UNCHANGED <<visLocked, visLoad>> /\ rest # <<>>
            /\ visCall'[c] = [setting |-> s, value |-> call.value, todo |-> rest]
  <2>1. CASE Done(c)  BY <1>0, <1>1, <1>2, <2>1, DoneFacts
  <2>2. CASE Leave(c)  BY <1>2, <2>2 DEF Leave, VisTypes
  <2> QED BY <2>1, <2>2 DEF VisWork, Send, Call, CallFails, Keep, Store
<1>6. /\ Section'
      /\ \A d \in Callers : IsCall(visCall'[d])
      /\ visLoad' \in [at : Nat, value : VisValues \cup {VisNone}]
      /\ visLoad'.value # VisNone => Loading' /\ LoadOrder[visLoad'.at] \in VisSettings
      /\ visLoad' = visLoad \/ visLoad'.value = VisNone
  BY <1>0, <1>1, <1>2, <1>4, <1>5, CallKeeps
<1>7. visCall'[c].setting = s \/ visCall'[c].setting = "none"
  BY <1>5 DEF Outside
<1>8. ASSUME DOMAIN visMember' = VisSettings /\ visMember' = [t \in VisSettings |-> visMember'[t]],
             visFile' \in [VisSettings -> VisValues],
             DOMAIN visCamera' = VisSettings /\ visCamera' = [t \in VisSettings |-> visCamera'[t]],
             HistoryType',
             \A t \in VisSettings : t # s =>
               /\ visMember'[t] = visMember[t] /\ visFile'[t] = visFile[t]
               /\ visCamera'[t] = visCamera[t]
               /\ t \in visTold' <=> t \in visTold
               /\ t \in visLost' <=> t \in visLost
               /\ t \in visKnown' <=> t \in visKnown
               /\ t \in visUnsaved' <=> t \in visUnsaved,
             s \in VisSettings => Agrees(s)'
      PROVE  VisInv'
  <2>1. VisTypes'  BY <1>5, <1>6, <1>8 DEF VisTypes
  <2>2. ASSUME NEW t \in VisSettings, t # s PROVE Agrees(t)'
    <3>1. \A d \in Callers : Works(d, t)' <=> Works(d, t)
      BY <1>0, <1>5, <1>7, <2>2, SettingsFacts DEF Works
    <3>2. \A d \in Callers : Works(d, t) => visCall'[d] = visCall[d]
      BY <1>0, <1>5, <2>2 DEF Works
    <3> QED BY <1>2, <1>4, <1>6, <1>8, <2>2, <3>1, <3>2, OtherSetting
  <2>3. \A t \in VisSettings : Agrees(t)'  BY <1>8, <2>2
  <2> QED BY <1>6, <1>8, <2>1, <2>3 DEF VisInv
<1>9. ASSUME s \in VisSettings,
             \/ s = "zoom" \/ s \in visKnown'
             \/ visFile'[s] = visFile[s] /\ UNCHANGED visKnown,
             s \notin visMixed => \/ visCall'[c] # Outside /\ CallAgrees(c, s)'
                                  \/ visCall'[c] = Outside /\ RestAgrees(s)'
      PROVE  Agrees(s)'
  <2>1. Works(c, s)  BY <1>0 DEF Works
  <2>2. visCall'[c] # Outside => Works(c, s)'  BY <1>5 DEF Works
  <2>3. visCall'[c] = Outside => ~Works(c, s)'  BY <1>9, SettingsFacts DEF Works, Outside
  <2> QED BY <1>2, <1>4, <1>5, <1>6, <1>9, <2>1, <2>2, <2>3, OwnSetting
\* What is known of the setting before the step.
<1>10. s \in VisSettings /\ s \notin visMixed => CallAgrees(c, s)
  BY <1>0, <1>2 DEF Agrees, Works
\* The step, those after it, and the setting it is about.
<1>11. \/ /\ call.todo = <<"send", "keep", "store">> /\ Head(call.todo) = "send"
          /\ rest = <<"keep", "store">> /\ s \in Sent
       \/ /\ call.todo = <<"call", "keep", "store">> /\ Head(call.todo) = "call"
          /\ rest = <<"keep", "store">> /\ s = "focus"
       \/ /\ call.todo = <<"keep", "store">> /\ Head(call.todo) = "keep"
          /\ rest = <<"store">> /\ s \in Sent \cup {"focus", "saturation"}
       \/ /\ call.todo = <<"store">> /\ Head(call.todo) = "store"
          /\ rest = <<>> /\ s \in Sent \cup {"focus", "saturation"}
       \/ /\ call.todo = <<"call", "store", "keep">> /\ Head(call.todo) = "call"
          /\ rest = <<"store", "keep">> /\ s = "zoom"
       \/ /\ call.todo = <<"store", "keep">> /\ Head(call.todo) = "store"
          /\ rest = <<"keep">> /\ s = "zoom"
       \/ /\ call.todo = <<"keep">> /\ Head(call.todo) = "keep" /\ rest = <<>> /\ s = "zoom"
       \/ /\ call.todo = <<"call">> /\ Head(call.todo) = "call" /\ rest = <<>>
          /\ s = "autofocus"
  BY <1>3, StepFacts
<1>12. CASE CallFails(c)
  <2>1. /\ visCall'[c] = Outside /\ Head(call.todo) = "call"
        /\ UNCHANGED <<visMember, visFile, visCamera, visKnown, visTold, visLost, visUnsaved>>
    BY <1>2, <1>12 DEF CallFails, Leave, At, VisTypes
  <2>2. s \in VisSettings => Agrees(s)'
    <3>1. s \in VisSettings /\ s \notin visMixed => RestAgrees(s)
      BY <1>10, <1>11, <2>1, SettingsFacts DEF CallAgrees, RestAgrees
    <3>2. s \in VisSettings /\ s \notin visMixed => RestAgrees(s)'
      BY <2>1, <3>1 DEF RestAgrees
    <3> QED BY <1>9, <2>1, <3>2
  <2> QED BY <1>2, <1>8, <2>1, <2>2 DEF VisTypes, HistoryType
\* What the other steps leave to be done.
<1>13. ASSUME Done(c)
       PROVE  /\ rest = <<>> => visCall'[c] = Outside /\ visKnown' = visKnown \cup ({s} \cap Held)
              /\ rest # <<>> => /\ visCall'[c] # Outside /\ visKnown' = visKnown
                              /\ visCall'[c].todo = rest /\ visCall'[c].value = call.value
  <2>1. CASE rest = <<>>
    BY <1>0, <1>1, <1>2, <1>13, <2>1, DoneFacts
  <2>2. CASE rest # <<>>
    <3>1. /\ visKnown' = visKnown
          /\ visCall'[c] = [setting |-> s, value |-> call.value, todo |-> rest]
      BY <1>0, <1>1, <1>2, <1>13, <2>2, DoneFacts
    <3> HIDE DEF call, rest
    <3>2. visCall'[c].todo = rest /\ visCall'[c].value = call.value  BY <3>1
    <3> QED BY <2>2, <3>1, <3>2 DEF Outside
  <2> QED BY <2>1, <2>2
<1>14. s \in VisSettings => s \in Held  BY DEF VisAssumption
<1>14a. Done(c) => visKnown' \subseteq VisSettings
  <2>1. {s} \cap Held \subseteq VisSettings  BY <1>3 DEF Held, Sent, Called
  <2> QED BY <1>2, <1>13, <2>1 DEF HistoryType
<1>15. CASE Keep(c)
  <2>1. /\ Head(call.todo) = "keep" /\ Done(c)
        /\ visMember' = [visMember EXCEPT ![s] = call.value]
        /\ UNCHANGED <<visFile, visCamera, visTold, visLost, visUnsaved>>
    BY <1>0, <1>15 DEF Keep, At
  <2>2. s \in VisSettings  BY <1>3, <1>11, <2>1, SettingsFacts
  <2>3. visMember'[s] = call.value  BY <1>2, <2>1, <2>2 DEF VisTypes
  <2>4. Agrees(s)'
    <3>1. CASE rest = <<"store">>
      <4>0. call.todo = <<"keep", "store">>
        BY <1>11, <2>1, <3>1
      <4>a. visCall'[c].todo = <<"store">> /\ visCall'[c].value = call.value
        <5>1. rest # <<>>  BY <3>1
        <5> QED BY <1>13, <2>1, <3>1, <5>1
      <4>b. s \notin visMixed /\ s \in visTold \ visLost => visCamera[s] = Wire(s, call.value)
        BY <1>10, <2>2, <4>0 DEF CallAgrees
      <4>1. s \notin visMixed => CallAgrees(c, s)'
        BY <2>1, <2>3, <4>a, <4>b DEF CallAgrees
      <4>2. rest # <<>>  BY <3>1
      <4>3. visCall'[c] # Outside /\ UNCHANGED <<visFile, visKnown>>  BY <1>13, <2>1, <4>2
      <4> QED BY <1>9, <2>2, <4>1, <4>3
    <3>2. CASE rest = <<>> /\ call.todo = <<"keep">>
      <4>1. s \notin visMixed => RestAgrees(s)'
        BY <1>10, <1>13, <2>1, <2>2, <2>3, <3>2 DEF CallAgrees, RestAgrees
      <4> QED BY <1>9, <1>13, <1>14, <2>1, <2>2, <3>2, <4>1
    <3> QED BY <1>11, <2>1, <3>1, <3>2
  <2> QED BY <1>2, <1>8, <1>14a, <1>13, <2>1, <2>2, <2>4 DEF VisTypes, HistoryType
<1>16. CASE Store(c)
  <2>1. /\ Head(call.todo) = "store" /\ Done(c)
        /\ \/ visFile' = [visFile EXCEPT ![s] = call.value] /\ visUnsaved' = visUnsaved \ {s}
           \/ visUnsaved' = visUnsaved \cup {s} /\ UNCHANGED visFile
        /\ UNCHANGED <<visMember, visCamera, visTold, visLost>>
    BY <1>0, <1>16 DEF Store, At
  <2>2. s \in VisSettings  BY <1>3, <1>11, <2>1, SettingsFacts
  <2>3. s \notin visUnsaved' => visFile'[s] = call.value  BY <1>2, <2>1, <2>2 DEF VisTypes
  <2>4. Agrees(s)'
    <3>1. CASE rest = <<"keep">>
      <4>0. call.todo = <<"store", "keep">> /\ s = "zoom"
        BY <1>11, <2>1, <3>1
      <4>a. visCall'[c].todo = <<"keep">> /\ visCall'[c].value = call.value
        <5>1. rest # <<>>  BY <3>1
        <5> QED BY <1>13, <2>1, <3>1, <5>1
      <4>b. s \notin visMixed /\ s \in visTold \ visLost => visCamera[s] = Wire(s, call.value)
        BY <1>10, <2>2, <4>0 DEF CallAgrees
      <4>1. s \notin visMixed => CallAgrees(c, s)'
        BY <2>1, <2>3, <4>a, <4>b DEF CallAgrees
      <4> QED BY <1>9, <1>13, <2>1, <2>2, <3>1, <4>0, <4>1
    <3>2. CASE rest = <<>> /\ call.todo = <<"store">>
      <4>1. s \notin visMixed => RestAgrees(s)'
        BY <1>10, <1>13, <2>1, <2>2, <2>3, <3>2 DEF CallAgrees, RestAgrees
      <4> QED BY <1>9, <1>13, <1>14, <2>1, <2>2, <3>2, <4>1
    <3> QED BY <1>11, <2>1, <3>1, <3>2
  <2>5. visFile' \in [VisSettings -> VisValues]
    <3>1. call.value \in VisValues  BY <1>0, <1>1, <1>2, <2>2 DEF VisTypes, IsCall, Inside, Outside
    <3> QED BY <1>2, <2>1, <3>1 DEF VisTypes
  <2>7. \A t \in VisSettings : t # s =>
          /\ t \in visKnown' <=> t \in visKnown
          /\ t \in visUnsaved' <=> t \in visUnsaved
          /\ visFile'[t] = visFile[t]
    BY <1>2, <1>13, <2>1 DEF VisTypes
  <2> QED BY <1>2, <1>8, <1>14a, <2>1, <2>2, <2>4, <2>5, <2>7 DEF VisTypes, HistoryType
\* What the camera is told of the setting, or not told.
<1>17. ASSUME Apply(c) \/ (visLost' = visLost \cup {s} /\ UNCHANGED <<visCamera, visTold>>),
              Done(c), UNCHANGED <<visMember, visFile, visUnsaved>>,
              Head(call.todo) \in {"send", "call"}
       PROVE  VisInv'
  <2>1. CASE s \in VisSettings
    <3>1. s \in Held /\ s # "saturation" /\ rest \in {<<"keep", "store">>, <<"store", "keep">>}
      BY <1>11, <1>14, <1>17, <2>1, SettingsFacts
    <3>2. \/ /\ visCamera' = [visCamera EXCEPT ![s] = Wire(s, call.value)]
             /\ visTold' = visTold \cup {s} /\ visLost' = visLost \ {s}
          \/ visLost' = visLost \cup {s} /\ UNCHANGED <<visCamera, visTold>>
      BY <1>0, <1>17, <3>1 DEF Apply
    <3>3. s \in visTold' \ visLost' => visCamera'[s] = Wire(s, call.value)
      BY <1>2, <2>1, <3>2 DEF VisTypes
    <3>4. /\ visCall'[c].todo = rest /\ visCall'[c].value = call.value
          /\ visCall'[c] # Outside /\ visKnown' = visKnown
      BY <1>13, <1>17, <3>1
    <3>5. s \notin visMixed /\ s \in visKnown \ visUnsaved => visFile[s] = visMember[s]
      <4>1. call.todo \notin {<<"store">>, <<"keep">>}  BY <1>17
      <4> QED BY <1>10, <2>1, <4>1 DEF CallAgrees
    <3>6. s \notin visMixed => CallAgrees(c, s)'
      BY <1>17, <3>1, <3>3, <3>4, <3>5 DEF CallAgrees
    <3>7. Agrees(s)'  BY <1>9, <1>17, <2>1, <3>4, <3>6
    <3> QED BY <1>2, <1>8, <1>14a, <1>17, <2>1, <3>1, <3>2, <3>4, <3>7 DEF VisTypes, HistoryType
  <2>2. CASE s \notin VisSettings
    <3>1. s = "autofocus"  BY <1>3, <2>2
    <3>2. rest = <<>> /\ s \notin Held
      BY <1>11, <3>1, SettingsFacts DEF Held, Called
    <3>3. visKnown' = visKnown  BY <1>13, <1>17, <3>2
    <3>4. visCamera' = visCamera /\ visTold' = visTold
      BY <1>0, <1>17, <3>2 DEF Apply
    <3>5. \A t \in VisSettings : t # s => t \in visLost' <=> t \in visLost
      BY <1>0, <1>17, <3>2 DEF Apply
    <3> QED BY <1>2, <1>8, <1>14a, <1>17, <2>2, <3>3, <3>4, <3>5 DEF VisTypes, HistoryType
  <2> QED BY <2>1, <2>2
<1>18. CASE Send(c)
  BY <1>0, <1>17, <1>18 DEF Send, At
<1>19. CASE Call(c)
  BY <1>0, <1>17, <1>19 DEF Call, At
<1> QED BY <1>12, <1>15, <1>16, <1>18, <1>19 DEF VisWork

LEMMA VisInvInit == ASSUME VisAssumption, VisInit PROVE VisInv
<1>1. \A c \in Callers : visCall[c] = Outside /\ ~Inside(c)
  BY DEF VisInit, Inside, Outside
<1>2. \A c \in Callers, s \in VisSettings : ~Works(c, s)
  BY <1>1, SettingsFacts DEF Works, Outside
<1>3. \A s \in VisSettings : Agrees(s)
  BY <1>2 DEF VisInit, Agrees, RestAgrees, Unloaded, Loading
<1>4. VisTypes  BY <1>1 DEF VisInit, VisTypes, IsCall, Unloaded, MadeMembers
<1>5. Section  BY <1>1 DEF VisInit, Section, Unloaded
<1> QED BY <1>3, <1>4, <1>5 DEF VisInit, VisInv, HistoryType

LEMMA ToDoFacts ==
  ASSUME VisAssumption, NEW s \in VisSettings \cup {"autofocus"}
  PROVE  /\ IsTodo(s, ToDo(s)) /\ ToDo(s) # <<>>
         /\ s # "saturation" => ToDo(s) \notin {<<"keep", "store">>, <<"store", "keep">>, <<"keep">>}
         /\ ToDo(s) \notin {<<"store">>, <<"keep">>}
<1>1. CASE s \in Sent
  <2>1. ToDo(s) = <<"send", "keep", "store">>  BY <1>1 DEF ToDo, Sent
  <2> QED BY <1>1, <2>1 DEF IsTodo
<1>2. CASE s = "saturation"
  <2>1. ToDo(s) = <<"keep", "store">>  BY <1>2 DEF ToDo, Sent
  <2> QED BY <1>2, <2>1 DEF IsTodo
<1>3. CASE s = "focus"
  <2>1. ToDo(s) = <<"call", "keep", "store">>  BY <1>3 DEF ToDo, Sent
  <2> QED BY <1>3, <2>1 DEF IsTodo
<1>4. CASE s = "zoom"
  <2>1. ToDo(s) = <<"call", "store", "keep">>  BY <1>4 DEF ToDo, Sent
  <2> QED BY <1>4, <2>1 DEF IsTodo
<1>5. CASE s = "autofocus"
  <2>1. ToDo(s) = <<"call">>  BY <1>5 DEF ToDo, Sent
  <2> QED BY <1>5, <2>1 DEF IsTodo
<1> QED BY <1>1, <1>2, <1>3, <1>4, <1>5, SettingsFacts

\* Only the calls to a setter change more than the loading.
LEMMA SetStep ==
  ASSUME VisAssumption, VisInv, NEW c \in Callers, NEW s \in VisSettings \cup {"autofocus"},
         NEW v, s \in VisSettings => v \in VisValues, visLoad.at > 0, ~Inside(c),
         c = Loader => s \in VisSettings /\ v = visLoad.value /\ Loading
                       /\ s = LoadOrder[visLoad.at],
         Set(c, s, v), s = "autofocus" => Enter(c, s, v)
  PROVE  VisInv'
<1>1. /\ VisTypes /\ Section /\ HistoryType
      /\ \A t \in VisSettings : Agrees(t)
  BY DEF VisInv
<1>2. ASSUME UNCHANGED <<visCallbacks, visMember, visFile, visCamera, visLocked, visCall,
                         visTold, visLost, visMixed, visUnsaved>>,
             LoadNext(c), visKnown' \subseteq VisSettings, \A t \in VisSettings : Agrees(t)'
      PROVE  VisInv'
  <2>1. /\ visLoad' \in [at : Nat, value : VisValues \cup {VisNone}]
        /\ visLoad' = visLoad \/ (visLoad'.value = VisNone /\ visLoad'.at = visLoad.at + 1)
    BY <1>1, <1>2, LoadNextFacts
  <2>2. VisTypes'  BY <1>1, <1>2, <2>1 DEF VisTypes, Loading
  <2>3. visLoad'.at # 0  BY <1>1, <2>1 DEF VisTypes
  <2>4. Section'  BY <1>1, <1>2, <2>3 DEF Section, Inside
  <2> QED BY <1>1, <1>2, <2>2, <2>4 DEF VisInv, HistoryType
<1>3. ASSUME UNCHANGED <<visMember, visFile, visCamera, visCall, visTold, visLost, visMixed, visUnsaved>>,
             LoadNext(c), NEW t \in VisSettings, t \in visKnown' <=> t \in visKnown
      PROVE  Agrees(t)'
  <2>1. visLoad' = visLoad \/ visLoad'.value = VisNone
    BY <1>1, <1>3, LoadNextFacts
  <2>2. \A d \in Callers : Works(d, t)' <=> Works(d, t)  BY <1>3 DEF Works
  <2> QED BY <1>1, <1>3, <2>1, <2>2, OtherSetting
<1>4. CASE EnterSame(c, s, v)
  <2>1. /\ s \in Held /\ s # "zoom" /\ visMember[s] = v /\ LoadNext(c)
        /\ visKnown' = IF c = Loader THEN visKnown \cup {s} ELSE visKnown
        /\ UNCHANGED <<visCallbacks, visMember, visFile, visCamera, visLocked, visCall,
                       visTold, visLost, visMixed, visUnsaved>>
    BY <1>4 DEF EnterSame, Same
  <2>2. s \in VisSettings  BY <2>1 DEF Held, Sent, Called
  <2>3. CASE c = Loader
    <3>1. visLoad' = [at |-> visLoad.at + 1, value |-> VisNone] /\ visKnown' = visKnown \cup {s}
      BY <2>1, <2>3 DEF LoadNext
    <3>2. visLoad'.value = VisNone  BY <3>1
    <3>3. s \in visMixed \/ s \in visKnown \/ visFile[s] = visMember[s]
      <4>1. v # VisNone  BY <2>2 DEF VisAssumption
      <4> QED BY <1>1, <2>1, <2>2, <2>3, <4>1 DEF Agrees
    <3>4. ASSUME s \notin visMixed PROVE Agrees(s)'
      <4>1. \A d, e \in Callers : Works(d, s)' /\ Works(e, s)' => d = e
        BY <1>1, <2>1, <2>2, <3>4 DEF Agrees, Works
      <4>2. \A d \in Callers : Works(d, s)' => CallAgrees(d, s)'
        BY <1>1, <2>1, <2>2, <3>3, <3>4 DEF Agrees, Works, CallAgrees
      <4>3. (\A d \in Callers : ~Works(d, s)') => RestAgrees(s)'
        BY <1>1, <2>1, <2>2, <3>3, <3>4 DEF Agrees, Works, RestAgrees
      <4> QED BY <3>2, <4>1, <4>2, <4>3 DEF Agrees
    <3>5. Agrees(s)'  BY <2>1, <3>4 DEF Agrees
    <3>6. \A t \in VisSettings : t # s => Agrees(t)'  BY <1>3, <2>1, <3>1
    <3>7. \A t \in VisSettings : Agrees(t)'  BY <3>5, <3>6
    <3> QED BY <1>1, <1>2, <2>1, <2>2, <3>1, <3>7 DEF HistoryType
  <2>4. CASE c # Loader
    <3>1. \A t \in VisSettings : Agrees(t)'  BY <1>3, <2>1, <2>4
    <3> QED BY <1>1, <1>2, <2>1, <2>4, <3>1 DEF HistoryType
  <2> QED BY <2>3, <2>4
<1>5. CASE EnterMissing(c, s, v)
  <2>1. /\ LoadNext(c)
        /\ UNCHANGED <<visCallbacks, visMember, visFile, visCamera, visLocked, visCall,
                       visTold, visLost, visMixed, visUnsaved, visKnown>>
    BY <1>5 DEF EnterMissing
  <2>2. \A t \in VisSettings : Agrees(t)'  BY <1>3, <2>1
  <2> QED BY <1>1, <1>2, <2>1, <2>2 DEF HistoryType
<1>6. CASE Enter(c, s, v)
  <2> DEFINE new == [setting |-> s, value |-> v, todo |-> ToDo(s)]
  <2>1. /\ ~visLocked /\ visLocked' = TRUE /\ visCall' = [visCall EXCEPT ![c] = new]
        /\ visMixed' = IF Busy(s) THEN visMixed \cup {s} ELSE visMixed
        /\ UNCHANGED <<visCallbacks, visMember, visFile, visCamera, visLoad, visKnown,
                       visTold, visLost, visUnsaved>>
    BY <1>6 DEF Enter
  <2>2. /\ IsTodo(s, ToDo(s)) /\ ToDo(s) # <<>> /\ ToDo(s) \notin {<<"store">>, <<"keep">>}
        /\ s # "saturation" =>
             ToDo(s) \notin {<<"keep", "store">>, <<"store", "keep">>, <<"keep">>}
    BY ToDoFacts
  <2>3. new.setting = s /\ new.value = v /\ new.todo = ToDo(s)  OBVIOUS
  <2>4. IsCall(new)  BY <2>2, <2>3 DEF IsCall
  <2> HIDE DEF new
  <2>5. /\ visCall' = [d \in Callers |-> visCall'[d]]
        /\ \A d \in Callers : visCall'[d] = IF d = c THEN new ELSE visCall[d]
    BY <1>1, <2>1 DEF VisTypes
  <2>6. VisTypes'  BY <1>1, <2>1, <2>4, <2>5 DEF VisTypes, Loading
  <2>7. Inside(c)' /\ \A d \in Callers : d # c => (Inside(d)' <=> Inside(d))
    BY <2>2, <2>3, <2>5 DEF Inside
  <2>8. Section'  BY <1>1, <2>1, <2>7 DEF Section
  <2>9. visCall[c] = Outside
    BY <1>1, CallFacts
  <2>10. ASSUME NEW t \in VisSettings, t # s PROVE Agrees(t)'
    <3>1. \A d \in Callers : Works(d, t)' <=> Works(d, t)
      BY <2>3, <2>5, <2>9, <2>10, SettingsFacts DEF Works, Outside
    <3>2. \A d \in Callers : Works(d, t) => visCall'[d] = visCall[d]
      BY <2>5, <2>9, SettingsFacts DEF Works, Outside
    <3> QED BY <1>1, <2>1, <2>10, <3>1, <3>2, OtherSetting
  <2>11. ASSUME s \in VisSettings PROVE Agrees(s)'
    <3>1. SUFFICES ASSUME s \notin visMixed' PROVE Agrees(s)'
      BY DEF Agrees
    <3>2. ~Busy(s) /\ s \notin visMixed  BY <2>1, <3>1
    <3>3. \A d \in Callers : ~Works(d, s)
      BY <1>1, <2>11, <3>2, CallFacts, SettingsFacts DEF Busy, Works, Outside
    <3>4. RestAgrees(s)  BY <1>1, <2>11, <3>2, <3>3 DEF Agrees
    <3>5. \A d \in Callers : Works(d, s)' <=> d = c  BY <2>3, <2>5, <3>3 DEF Works
    <3>6. CallAgrees(c, s)'
      BY <1>1, <2>1, <2>2, <2>3, <2>5, <3>4 DEF RestAgrees, CallAgrees, HistoryType
    <3>7. (Loading' /\ LoadOrder[visLoad'.at] = s /\ s # "zoom" /\ visLoad'.value # VisNone) =>
             s \in visKnown' \/ visFile'[s] = visLoad'.value
      BY <1>1, <2>1, <2>11, <3>2 DEF Agrees, Loading
    <3> QED BY <3>5, <3>6, <3>7 DEF Agrees
  <2>12. \A t \in VisSettings : Agrees(t)'  BY <2>10, <2>11
  <2> QED BY <1>1, <2>1, <2>6, <2>8, <2>12 DEF VisInv, HistoryType
<1> QED BY <1>4, <1>5, <1>6 DEF Set

LEMMA VisInvStep == ASSUME VisAssumption, VisInv, [VisNext]_visVars PROVE VisInv'
<1>1. /\ VisTypes /\ Section /\ HistoryType
      /\ \A t \in VisSettings : Agrees(t)
  BY DEF VisInv
<1>2. ASSUME NEW c \in VisUsers, UserSets(c) PROVE VisInv'
  <2>1. visLoad.at > 0 /\ ~Inside(c) /\ c \in Callers /\ c # Loader
    BY <1>2 DEF UserSets, Callers, VisAssumption
  <2>2. ASSUME NEW s \in VisSettings, NEW v \in VisValues, Set(c, s, v) PROVE VisInv'
    BY <2>1, <2>2, SetStep, SettingsFacts
  <2>3. CASE Enter(c, "autofocus", VisNone)
    BY <2>1, <2>3, SetStep, SettingsFacts DEF Set
  <2>4. CASE Unlock("autofocus")
    <3>1. /\ visLocked' = FALSE /\ "autofocus" \notin visCallbacks
          /\ UNCHANGED <<visCallbacks, visMember, visFile, visCamera, visCall, visLoad,
                         visKnown, visTold, visLost, visMixed, visUnsaved>>
      BY <2>4 DEF Unlock, Missing
    <3>2. VisTypes'  BY <1>1, <3>1 DEF VisTypes, Loading
    <3>3. Section'  BY <1>1, <2>1, <3>1 DEF Section, VisTypes
    <3>4. \A t \in VisSettings : Agrees(t)'
      BY <1>1, <3>1 DEF Agrees, Works, CallAgrees, RestAgrees, Loading
    <3> QED BY <1>1, <3>1, <3>2, <3>3, <3>4 DEF VisInv, HistoryType
  <2> QED BY <1>2, <2>2, <2>3, <2>4 DEF UserSets
<1>3. ASSUME NEW c \in Callers, VisWork(c) PROVE VisInv'
  BY <1>3, WorkStep
\* A step of the loading that only goes on, or reads a setting.
<1>4. ASSUME UNCHANGED <<visMember, visFile, visCamera, visLocked, visCall, visKnown,
                         visTold, visLost, visMixed, visUnsaved>>,
             visLoad' \in [at : Nat, value : VisValues \cup {VisNone}], visLoad'.at # 0,
             visLoad'.value = VisNone \/
               (Loading' /\ LoadOrder[visLoad'.at] \in VisSettings
                /\ visLoad'.value = visFile[LoadOrder[visLoad'.at]]),
             visLoad.at = 0 \/ UNCHANGED visCallbacks
      PROVE  VisInv'
  <2>1. VisTypes'  BY <1>1, <1>4 DEF VisTypes
  <2>2. Section'  BY <1>1, <1>4 DEF Section, Inside
  <2>3. ASSUME NEW t \in VisSettings PROVE Agrees(t)'
    <3>1. t \notin visMixed =>
            \A c, d \in Callers : Works(c, t)' /\ Works(d, t)' => c = d
      BY <1>1, <1>4 DEF Agrees, Works
    <3>2. t \notin visMixed => \A c \in Callers : Works(c, t)' => CallAgrees(c, t)'
      BY <1>1, <1>4 DEF Agrees, Works, CallAgrees
    <3>3. t \notin visMixed /\ (\A c \in Callers : ~Works(c, t)') => RestAgrees(t)'
      BY <1>1, <1>4 DEF Agrees, Works, RestAgrees
    <3> QED BY <1>4, <3>1, <3>2, <3>3 DEF Agrees
  <2> QED BY <1>1, <1>4, <2>1, <2>2, <2>3 DEF VisInv, HistoryType
<1>5. CASE Register
  <2>1. visLoad' = [at |-> 1, value |-> visLoad.value] /\ visLoad.at = 0
    BY <1>1, <1>5 DEF Register, VisTypes
  <2>2. visLoad'.at = 1 /\ visLoad'.value = VisNone
    BY <1>1, <2>1 DEF VisTypes, Loading
  <2> QED BY <1>1, <1>4, <1>5, <2>1, <2>2 DEF Register, VisTypes
<1>6. CASE LoadSkip
  <2>1. visLoad' = [at |-> visLoad.at + 1, value |-> visLoad.value] /\ visLoad.value = VisNone
    BY <1>1, <1>6 DEF LoadSkip, VisTypes
  <2>2. visLoad'.at = visLoad.at + 1 /\ visLoad'.value = VisNone  BY <2>1
  <2> QED BY <1>1, <1>4, <1>6, <2>1, <2>2 DEF LoadSkip, VisTypes
<1>7. CASE LoadRead
  <2>1. /\ visLoad' = [at |-> visLoad.at, value |-> visFile[LoadOrder[visLoad.at]]]
        /\ Loading /\ LoadOrder[visLoad.at] \in VisSettings
    BY <1>1, <1>7 DEF LoadRead, VisTypes
  <2>2. visLoad'.at = visLoad.at /\ visLoad'.value = visFile[LoadOrder[visLoad.at]]  BY <2>1
  <2>3. Loading'  BY <2>1, <2>2 DEF Loading
  <2> QED BY <1>1, <1>4, <1>7, <2>1, <2>2, <2>3 DEF LoadRead, VisTypes, Loading
<1>8. CASE LoadSets
  <2>1. /\ Loading /\ visLoad.value # VisNone /\ ~Inside(Loader) /\ Loader \in Callers
        /\ Set(Loader, LoadOrder[visLoad.at], visLoad.value)
    BY <1>8 DEF LoadSets, Callers
  <2>2. LoadOrder[visLoad.at] \in VisSettings /\ visLoad.value \in VisValues /\ visLoad.at > 0
    BY <1>1, <2>1 DEF VisTypes, Loading
  <2> QED BY <2>1, <2>2, SetStep, SettingsFacts
<1>9. CASE VisRestart
  <2>1. /\ visLocked' = FALSE /\ visCall' = [c \in Callers |-> Outside] /\ visLoad' = Unloaded
        /\ visKnown' = {} /\ visTold' = {} /\ visLost' = {} /\ visMixed' = {} /\ visUnsaved' = {}
        /\ UNCHANGED <<visFile, visCamera>> /\ visMember' \in MadeMembers
    BY <1>9 DEF VisRestart
  <2>2. \A c \in Callers : visCall'[c] = Outside /\ ~Inside(c)'
    BY <2>1 DEF Inside, Outside
  <2>3. \A c \in Callers, s \in VisSettings : ~Works(c, s)'
    BY <2>2, SettingsFacts DEF Works, Outside
  <2>4. visLoad'.at = 0 /\ visLoad'.value = VisNone  BY <2>1 DEF Unloaded
  <2>5. \A s \in VisSettings : Agrees(s)'
    BY <2>1, <2>3, <2>4 DEF Agrees, RestAgrees
  <2>6. VisTypes'  BY <1>1, <2>1, <2>2, <2>4 DEF VisTypes, IsCall, Unloaded, MadeMembers
  <2>7. Section'  BY <2>1, <2>2 DEF Section
  <2> QED BY <2>1, <2>5, <2>6, <2>7 DEF VisInv, HistoryType
<1>10. CASE UNCHANGED visVars
  BY <1>1, <1>10
  DEF visVars, VisInv, HistoryType, VisTypes, Section, Agrees, Works, Inside, CallAgrees,
      RestAgrees, Loading
<1> QED BY <1>2, <1>3, <1>5, <1>6, <1>7, <1>8, <1>9, <1>10 DEF VisNext

LEMMA VisInvariant == VisSpec => []VisInv
<1>1. VisInit => VisInv  BY VisAssumption, VisInvInit
<1>2. VisInv /\ [VisNext]_visVars => VisInv'  BY VisAssumption, VisInvStep
<1> QED BY <1>1, <1>2, PTL DEF VisSpec

\* With the focusing callback, m_Lock is held exactly while one call is inside
\* (VisSectionExclusive, CVisLightImage.cpp:73-356), for any threads.
THEOREM SectionCorrect == VisSpec => []VisSectionExclusive
<1>1. VisInv => VisSectionExclusive
  BY DEF VisInv, Section, VisSectionExclusive
<1> QED BY <1>1, VisInvariant, PTL

\* Camera, member and file agree between calls (VisAgrees, CVisLightImage.cpp:
\* 73-356), for any threads, settings and values, with or without the lock, but
\* for a setting two calls set at once, the camera's after a lost serial write,
\* and the file's after a failed store.
THEOREM SettingsCorrect == VisSpec => []VisAgrees
<1>1. ASSUME VisInv, NEW s \in VisSettings, Quiet(s) PROVE RestAgrees(s)
  <2>1. \A c \in Callers : ~Works(c, s)
    BY <1>1, VisAssumption, CallFacts, SettingsFacts DEF VisInv, Quiet, Busy, Works, Outside
  <2> QED BY <1>1, <2>1 DEF VisInv, Agrees, Quiet
<1>2. VisInv => visTold \subseteq VisSettings /\ visKnown \subseteq VisSettings
  BY DEF VisInv, HistoryType
<1>3. VisInv => VisAgrees
  BY <1>1, <1>2 DEF VisAgrees, VisCameraAgrees, VisStoreAgrees, RestAgrees
<1> QED BY <1>3, VisInvariant, PTL

\* What the type invariant says beyond VisTypes: LoadParam() is inside a setter
\* only while it has a setting to load, and the focusing command has no value.
VisRest ==
  /\ visCallbacks \subseteq Called \cup {"autofocus"}
  /\ visMember \in [VisSettings -> VisValues \cup {0, -1}]
  /\ visCamera \in [VisSettings -> Int]
  /\ visLocked \in BOOLEAN
  /\ visLoad.at \in 0..7
  /\ Inside(Loader) => visLoad.value # VisNone
  /\ \A c \in Callers : visCall[c].setting = "autofocus" => visCall[c].value = VisNone
  /\ visTold \subseteq VisSettings /\ visKnown \subseteq VisSettings
  /\ visLost \subseteq VisSettings /\ visMixed \subseteq VisSettings \cup {"autofocus"}
  /\ visUnsaved \subseteq VisSettings
  /\ visRestarts \in 0..VisMaxRestarts

\* What is left of a setter's steps is the end of them all.
LEMMA TodoIsRest ==
  ASSUME VisAssumption, NEW s \in VisSettings, NEW todo, IsTodo(s, todo)
  PROVE  \E i \in 1..3 : i <= Len(ToDo(s)) /\ todo = SubSeq(ToDo(s), i, Len(ToDo(s)))
<1>1. ASSUME NEW a, NEW b, NEW c
      PROVE  /\ Len(<<a, b, c>>) = 3
             /\ SubSeq(<<a, b, c>>, 1, 3) = <<a, b, c>>
             /\ SubSeq(<<a, b, c>>, 2, 3) = <<b, c>>
             /\ SubSeq(<<a, b, c>>, 3, 3) = <<c>>
  <2>1. PICK all : all = <<a, b, c>>  OBVIOUS
  <2>2. all \in Seq({a, b, c}) /\ Len(all) = 3 /\ all # <<>>  BY <2>1
  <2>3. SubSeq(all, 1, 3) = all /\ SubSeq(all, 2, 3) = Tail(all)
    BY <2>2, SubSeqFull, TailIsSubSeq
  <2>4. SubSeq(all, 3, 3) = Tail(SubSeq(all, 2, 3))  BY <2>2, HeadTailOfSubSeq
  <2>5. Tail(all) = <<b, c>> /\ Tail(<<b, c>>) = <<c>>  BY <2>1
  <2> QED BY <2>1, <2>2, <2>3, <2>4, <2>5
<1>2. ASSUME NEW a, NEW b
      PROVE  /\ Len(<<a, b>>) = 2
             /\ SubSeq(<<a, b>>, 1, 2) = <<a, b>>
             /\ SubSeq(<<a, b>>, 2, 2) = <<b>>
  <2>1. PICK both : both = <<a, b>>  OBVIOUS
  <2>2. both \in Seq({a, b}) /\ Len(both) = 2 /\ both # <<>>  BY <2>1
  <2>3. SubSeq(both, 1, 2) = both /\ SubSeq(both, 2, 2) = Tail(both)
    BY <2>2, SubSeqFull, TailIsSubSeq
  <2>4. Tail(both) = <<b>>  BY <2>1
  <2> QED BY <2>1, <2>2, <2>3, <2>4
<1>3. CASE s \in Sent
  <2>1. ToDo(s) = <<"send", "keep", "store">>  BY <1>3 DEF ToDo, Sent
  <2>2. todo \in {<<"send", "keep", "store">>, <<"keep", "store">>, <<"store">>}
    BY <1>3, SettingsFacts DEF IsTodo
  <2> QED BY <2>1, <2>2, <1>1
<1>4. CASE s = "focus"
  <2>1. ToDo(s) = <<"call", "keep", "store">>  BY <1>4 DEF ToDo, Sent
  <2>2. todo \in {<<"call", "keep", "store">>, <<"keep", "store">>, <<"store">>}
    BY <1>4, SettingsFacts DEF IsTodo
  <2> QED BY <2>1, <2>2, <1>1
<1>5. CASE s = "zoom"
  <2>1. ToDo(s) = <<"call", "store", "keep">>  BY <1>5 DEF ToDo, Sent
  <2>2. todo \in {<<"call", "store", "keep">>, <<"store", "keep">>, <<"keep">>}
    BY <1>5, SettingsFacts DEF IsTodo
  <2> QED BY <2>1, <2>2, <1>1
<1>6. CASE s = "saturation"
  <2>1. ToDo(s) = <<"keep", "store">>  BY <1>6 DEF ToDo, Sent
  <2>2. todo \in {<<"keep", "store">>, <<"store">>}
    BY <1>6, SettingsFacts DEF IsTodo
  <2> QED BY <2>1, <2>2, <1>2
<1> QED BY <1>3, <1>4, <1>5, <1>6, SettingsFacts

LEMMA WireIsInt ==
  ASSUME VisAssumption, NEW s, NEW v \in VisValues
  PROVE  Wire(s, v) \in Int
BY DEF VisAssumption, Wire

LEMMA VisRestInit == ASSUME VisAssumption, VisInit PROVE VisRest
<1>1. \A c \in Callers : visCall[c] = Outside /\ ~Inside(c) /\ visCall[c].setting # "autofocus"
  BY DEF VisInit, Inside, Outside
<1>2. Loader \in Callers  BY DEF Callers
<1>3. /\ visLocked = FALSE /\ visLoad.at = 0 /\ visRestarts = 0
      /\ visCallbacks = {} /\ visKnown = {} /\ visTold = {} /\ visLost = {} /\ visMixed = {}
      /\ visUnsaved = {}
      /\ visMember \in [VisSettings -> VisValues \cup {0, -1}]
  BY DEF VisInit, Unloaded, MadeMembers
<1>3a. visCamera \in [VisSettings -> Int]
  <2>1. PICK told \in [VisSettings -> VisValues] :
          visCamera = [s \in VisSettings |-> Wire(s, told[s])]
    BY DEF VisInit
  <2>2. \A s \in VisSettings : told[s] \in VisValues  OBVIOUS
  <2> QED BY <2>1, <2>2, WireIsInt
<1>4. visRestarts \in 0..VisMaxRestarts /\ visLoad.at \in 0..7
  BY <1>3 DEF VisAssumption
<1> QED BY <1>1, <1>2, <1>3, <1>3a, <1>4 DEF VisRest

LEMMA VisTyped == ASSUME VisAssumption, VisInv, VisRest PROVE VisTypeOK
<1>1. visFile \in [VisSettings -> VisValues]
      /\ visLoad \in [at : Nat, value : VisValues \cup {VisNone}]
      /\ \A c \in Callers : IsCall(visCall[c])
  BY DEF VisInv, VisTypes
<1>2. visLoad \in [at : 0..7, value : VisValues \cup {VisNone}]  BY <1>1 DEF VisRest
<1>3. ASSUME NEW c \in Callers
      PROVE  \/ visCall[c] = Outside
             \/ \E s \in VisSettings, v \in VisValues, i \in 1..3 :
                  /\ i <= Len(ToDo(s))
                  /\ visCall[c] = [setting |-> s, value |-> v,
                                   todo |-> SubSeq(ToDo(s), i, Len(ToDo(s)))]
             \/ visCall[c] = [setting |-> "autofocus", value |-> VisNone, todo |-> <<"call">>]
  <2> DEFINE call == visCall[c]
  <2>1. SUFFICES ASSUME call = [setting |-> call.setting, value |-> call.value,
                                todo |-> call.todo],
                        call.setting \in VisSettings \cup {"autofocus"},
                        IsTodo(call.setting, call.todo),
                        call.setting \in VisSettings => call.value \in VisValues
                 PROVE  \/ \E s \in VisSettings, v \in VisValues, i \in 1..3 :
                             /\ i <= Len(ToDo(s))
                             /\ call = [setting |-> s, value |-> v,
                                        todo |-> SubSeq(ToDo(s), i, Len(ToDo(s)))]
                        \/ call = [setting |-> "autofocus", value |-> VisNone, todo |-> <<"call">>]
    BY <1>1 DEF IsCall
  <2>2. CASE call.setting \in VisSettings
    <3>1. PICK i \in 1..3 : /\ i <= Len(ToDo(call.setting))
                            /\ call.todo = SubSeq(ToDo(call.setting), i, Len(ToDo(call.setting)))
      BY <2>1, <2>2, TodoIsRest
    <3> QED BY <2>1, <2>2, <3>1
  <2>3. CASE call.setting = "autofocus"
    <3>1. call.value = VisNone  BY <2>3 DEF VisRest
    <3>2. call.todo = <<"call">>  BY <2>1, <2>3, SettingsFacts DEF IsTodo
    <3> QED BY <2>1, <2>3, <3>1, <3>2
  <2> QED BY <2>1, <2>2, <2>3
<1> QED BY <1>1, <1>2, <1>3 DEF VisTypeOK, VisRest

\* A step of a call that is inside.
LEMMA VisRestWork ==
  ASSUME VisAssumption, VisInv, VisRest, NEW c \in Callers, VisWork(c)
  PROVE  VisRest'
<1>0. PICK s : s = visCall[c].setting  OBVIOUS
<1>1. Inside(c) /\ VisTypes
  BY DEF VisWork, Send, Call, CallFails, Keep, Store, At, VisInv
<1>2. /\ s \in VisSettings \cup {"autofocus"} /\ IsTodo(s, visCall[c].todo)
      /\ s \in VisSettings => visCall[c].value \in VisValues
  BY <1>0, <1>1 DEF VisTypes, IsCall, Inside, Outside
<1>3. UNCHANGED <<visCallbacks, visMixed, visRestarts>>
  BY DEF VisWork, Send, Call, CallFails, Keep, Store
<1>4. /\ \A d \in Callers : d # c => visCall'[d] = visCall[d]
      /\ \/ visCall'[c] = Outside /\ visLocked' = FALSE /\ LoadNext(c)
         \/ /\ UNCHANGED <<visLocked, visLoad>>
            /\ visCall'[c] = [setting |-> s, value |-> visCall[c].value,
                              todo |-> Tail(visCall[c].todo)]
  <2>1. CASE Done(c)  BY <1>0, <1>1, <2>1, DoneFacts
  <2>2. CASE Leave(c)  BY <1>1, <2>2 DEF Leave, VisTypes
  <2> QED BY <2>1, <2>2 DEF VisWork, Send, Call, CallFails, Keep, Store
<1>5. visLocked' \in BOOLEAN  BY <1>4 DEF VisRest
<1>6. visLoad'.at \in 0..7
  <2>1. CASE UNCHANGED visLoad  BY <2>1 DEF VisRest
  <2>2. CASE LoadNext(c) /\ c = Loader
    <3>1. visLoad.at \in 1..6  BY <1>1, <2>2 DEF VisRest, VisTypes, Loading
    <3> QED BY <2>2, <3>1 DEF LoadNext
  <2>3. CASE LoadNext(c) /\ c # Loader  BY <2>3 DEF LoadNext, VisRest
  <2> QED BY <1>4, <2>1, <2>2, <2>3
<1>7. Inside(Loader)' => visLoad'.value # VisNone
  <2>1. CASE c = Loader /\ visCall'[c] = Outside  BY <2>1 DEF Inside, Outside
  <2>2. CASE UNCHANGED visLoad
    <3>1. Inside(Loader)' => Inside(Loader)  BY <1>1, <1>4 DEF Inside, Callers
    <3> QED BY <2>2, <3>1 DEF VisRest
  <2>3. CASE LoadNext(c) /\ c # Loader
    <3>1. visLoad' = visLoad  BY <2>3 DEF LoadNext
    <3> QED BY <2>2, <3>1
  <2> QED BY <1>4, <2>1, <2>2, <2>3
<1>8. \A d \in Callers : visCall'[d].setting = "autofocus" => visCall'[d].value = VisNone
  <2>1. visCall'[c].setting = "autofocus" => visCall'[c].value = VisNone
    <3>1. CASE visCall'[c] = Outside  BY <3>1 DEF Outside
    <3>2. CASE visCall'[c] = [setting |-> s, value |-> visCall[c].value,
                              todo |-> Tail(visCall[c].todo)]
      BY <1>0, <3>2 DEF VisRest
    <3> QED BY <1>4, <3>1, <3>2
  <2> QED BY <1>4, <2>1 DEF VisRest
<1>9. Head(visCall[c].todo) \in {"keep", "store", "send"} => s \in VisSettings
  BY <1>2, StepFacts, SettingsFacts
<1>10. s \in Held => s \in VisSettings  BY <1>2 DEF Held, Sent, Called
<1>11. /\ visMember' = visMember
          \/ (s \in VisSettings /\ visMember' = [visMember EXCEPT ![s] = visCall[c].value])
       /\ visCamera' = visCamera
          \/ (s \in VisSettings /\ visCamera' = [visCamera EXCEPT ![s] = Wire(s, visCall[c].value)])
       /\ visTold' = visTold \/ (s \in VisSettings /\ visTold' = visTold \cup {s})
       /\ visLost' = visLost \/ visLost' = visLost \ {s}
          \/ (s \in VisSettings /\ visLost' = visLost \cup {s})
       /\ visUnsaved' = visUnsaved \/ visUnsaved' = visUnsaved \ {s}
          \/ (s \in VisSettings /\ visUnsaved' = visUnsaved \cup {s})
  <2> USE <1>0
  <2>1. Apply(c) => \/ UNCHANGED <<visCamera, visTold, visLost>>
                    \/ /\ s \in VisSettings /\ visTold' = visTold \cup {s}
                       /\ visCamera' = [visCamera EXCEPT ![s] = Wire(s, visCall[c].value)]
                       /\ visLost' = visLost \ {s}
    BY <1>10 DEF Apply
  <2>2. CASE Send(c)  BY <1>9, <2>1, <2>2 DEF Send, At
  <2>3. CASE Call(c)  BY <2>1, <2>3 DEF Call
  <2>4. CASE CallFails(c)  BY <2>4 DEF CallFails
  <2>5. CASE Keep(c)  BY <1>9, <2>5 DEF Keep, At
  <2>6. CASE Store(c)  BY <1>9, <2>6 DEF Store, At
  <2> QED BY <2>2, <2>3, <2>4, <2>5, <2>6 DEF VisWork
<1>12. visMember' \in [VisSettings -> VisValues \cup {0, -1}]
  BY <1>2, <1>11 DEF VisRest
<1>12a. visCamera' \in [VisSettings -> Int]
  <2>1. s \in VisSettings => Wire(s, visCall[c].value) \in Int  BY <1>2, WireIsInt
  <2> QED BY <1>11, <2>1 DEF VisRest
<1>13. /\ visTold' \subseteq VisSettings /\ visLost' \subseteq VisSettings
       /\ visUnsaved' \subseteq VisSettings
  BY <1>11 DEF VisRest
<1>14. visKnown' \subseteq VisSettings
  <2>1. VisInv'  BY WorkStep
  <2> QED BY <2>1 DEF VisInv, HistoryType
<1> QED BY <1>3, <1>5, <1>6, <1>7, <1>8, <1>12, <1>12a, <1>13, <1>14 DEF VisRest

LEMMA VisRestStep ==
  ASSUME VisAssumption, VisInv, VisRest, [VisNext]_visVars
  PROVE  VisRest'
<1>0. VisTypes  BY DEF VisInv
<1>1. Loader \in Callers /\ Loader \notin VisUsers  BY DEF Callers, VisAssumption
\* A setter that returns at once, or begins.
<1>2. ASSUME NEW c \in Callers, NEW s \in VisSettings, NEW v, v # VisNone,
             Set(c, s, v), c = Loader => Loading /\ visLoad.value # VisNone /\ ~Inside(Loader)
      PROVE  VisRest'
  <2>1. CASE EnterSame(c, s, v) \/ EnterMissing(c, s, v)
    <3>1. /\ UNCHANGED <<visCallbacks, visMember, visFile, visCamera, visLocked, visCall,
                         visTold, visLost, visMixed, visUnsaved, visRestarts>>
          /\ visKnown' = visKnown \/ visKnown' = visKnown \cup {s}
      BY <2>1 DEF EnterSame, EnterMissing
    <3>2. LoadNext(c)  BY <2>1 DEF EnterSame, EnterMissing
    <3>3. CASE c # Loader
      <4>1. visLoad' = visLoad  BY <3>2, <3>3 DEF LoadNext
      <4> QED BY <3>1, <4>1 DEF VisRest, Inside
    <3>4. CASE c = Loader
      <4>1. visLoad.at \in 1..6  BY <1>2, <3>4 DEF Loading
      <4>2. visLoad'.at \in 0..7  BY <3>2, <3>4, <4>1 DEF LoadNext
      <4>3. ~Inside(Loader)'  BY <1>2, <3>1, <3>4 DEF Inside
      <4> QED BY <3>1, <4>2, <4>3 DEF VisRest
    <3> QED BY <3>3, <3>4
  <2>2. CASE Enter(c, s, v)
    <3>1. /\ UNCHANGED <<visCallbacks, visMember, visFile, visCamera, visLoad, visKnown,
                         visTold, visLost, visUnsaved, visRestarts>>
          /\ visLocked' = TRUE
          /\ visMixed' = visMixed \/ visMixed' = visMixed \cup {s}
          /\ visCall' = [visCall EXCEPT ![c] = [setting |-> s, value |-> v, todo |-> ToDo(s)]]
      BY <2>2 DEF Enter
    <3>2. \A d \in Callers : visCall'[d].setting = "autofocus" => visCall'[d].value = VisNone
      BY <3>1, <1>0, SettingsFacts DEF VisTypes, VisRest
    <3>3. Inside(Loader)' => visLoad'.value # VisNone
      BY <3>1, <1>0, <1>1, <1>2 DEF VisTypes, VisRest, Inside
    <3> QED BY <3>1, <3>2, <3>3 DEF VisRest
  <2> QED BY <1>2, <2>1, <2>2 DEF Set
<1>3. ASSUME NEW c \in VisUsers, UserSets(c) PROVE VisRest'
  <2>1. c \in Callers /\ c # Loader  BY <1>1 DEF Callers
  <2>2. ASSUME NEW s \in VisSettings, NEW v \in VisValues, Set(c, s, v) PROVE VisRest'
    <3>1. v # VisNone  BY DEF VisAssumption
    <3> QED BY <1>2, <2>1, <2>2, <3>1
  <2>3. CASE Enter(c, "autofocus", VisNone)
    <3>1. /\ UNCHANGED <<visCallbacks, visMember, visFile, visCamera, visLoad, visKnown,
                         visTold, visLost, visUnsaved, visRestarts>>
          /\ visLocked' = TRUE
          /\ visMixed' = visMixed \/ visMixed' = visMixed \cup {"autofocus"}
          /\ visCall' = [visCall EXCEPT ![c] = [setting |-> "autofocus", value |-> VisNone,
                                                todo |-> ToDo("autofocus")]]
      BY <2>3 DEF Enter
    <3>2. \A d \in Callers : visCall'[d].setting = "autofocus" => visCall'[d].value = VisNone
      BY <3>1, <1>0 DEF VisTypes, VisRest
    <3>3. Inside(Loader)' => visLoad'.value # VisNone
      BY <3>1, <1>0, <1>1, <2>1 DEF VisTypes, VisRest, Inside
    <3> QED BY <3>1, <3>2, <3>3 DEF VisRest
  <2>4. CASE Unlock("autofocus")
    <3>1. /\ UNCHANGED <<visCallbacks, visMember, visFile, visCamera, visCall, visLoad,
                         visKnown, visTold, visLost, visMixed, visUnsaved, visRestarts>>
          /\ visLocked' = FALSE
      BY <2>4 DEF Unlock
    <3> QED BY <3>1 DEF VisRest, Inside
  <2> QED BY <1>3, <2>2, <2>3, <2>4 DEF UserSets
<1>4. ASSUME NEW c \in Callers, VisWork(c) PROVE VisRest'
  BY <1>4, VisRestWork
\* A step of the loading outside the setters.
<1>5. ASSUME UNCHANGED <<visMember, visFile, visCamera, visLocked, visCall, visKnown,
                         visTold, visLost, visMixed, visUnsaved, visRestarts>>,
             visCallbacks' \subseteq Called \cup {"autofocus"},
             visLoad'.at \in 0..7, visLoad'.value = VisNone => visLoad.value = VisNone
      PROVE  VisRest'
  BY <1>5 DEF VisRest, Inside
<1>6. CASE Register
  <2>1. visLoad' = [at |-> 1, value |-> visLoad.value]
    BY <1>0, <1>6 DEF Register, VisTypes
  <2> QED BY <1>5, <1>6, <2>1 DEF Register
<1>7. CASE LoadSkip
  <2>1. visLoad' = [at |-> visLoad.at + 1, value |-> visLoad.value] /\ visLoad.at \in 1..6
    BY <1>0, <1>7 DEF LoadSkip, VisTypes, Loading
  <2> QED BY <1>5, <1>7, <2>1 DEF LoadSkip, VisRest
<1>8. CASE LoadRead
  <2>1. visLoad' = [at |-> visLoad.at, value |-> visFile[LoadOrder[visLoad.at]]]
        /\ visLoad.value = VisNone
    BY <1>0, <1>8 DEF LoadRead, VisTypes
  <2> QED BY <1>5, <1>8, <2>1 DEF LoadRead, VisRest
<1>9. CASE LoadSets
  <2>1. /\ Loading /\ visLoad.value # VisNone /\ ~Inside(Loader)
        /\ Set(Loader, LoadOrder[visLoad.at], visLoad.value)
    BY <1>9 DEF LoadSets
  <2>2. LoadOrder[visLoad.at] \in VisSettings  BY <1>0, <2>1 DEF VisTypes
  <2> QED BY <1>1, <1>2, <2>1, <2>2
<1>10. CASE VisRestart
  <2>1. /\ visCallbacks' = {} /\ visLocked' = FALSE /\ visLoad' = Unloaded
        /\ visCall' = [c \in Callers |-> Outside] /\ visMember' \in MadeMembers
        /\ visKnown' = {} /\ visTold' = {} /\ visLost' = {} /\ visMixed' = {} /\ visUnsaved' = {}
        /\ UNCHANGED <<visFile, visCamera>>
        /\ visRestarts < VisMaxRestarts /\ visRestarts' = visRestarts + 1
    BY <1>10 DEF VisRestart
  <2>2. visLoad'.at = 0 /\ visMember' \in [VisSettings -> VisValues \cup {0, -1}]
    BY <2>1 DEF Unloaded, MadeMembers
  <2>3. visRestarts' \in 0..VisMaxRestarts  BY <2>1 DEF VisRest, VisAssumption
  <2>4. \A c \in Callers : visCall'[c].setting # "autofocus" /\ ~Inside(c)'
    BY <2>1 DEF Inside, Outside
  <2>5a. visCamera' \in [VisSettings -> Int]
    <3>1. visCamera' = visCamera  BY <2>1
    <3> QED BY <3>1 DEF VisRest
  <2>5b. visLocked' \in BOOLEAN  BY <2>1
  <2>5c. visLoad'.at \in 0..7  BY <2>2
  <2>6. /\ visCallbacks' = {} /\ visKnown' = {} /\ visTold' = {}
        /\ visLost' = {} /\ visMixed' = {} /\ visUnsaved' = {}
    BY <2>1
  <2> QED BY <1>1, <2>2, <2>3, <2>4, <2>5a, <2>5b, <2>5c, <2>6 DEF VisRest
<1>11. CASE UNCHANGED visVars
  BY <1>11 DEF visVars, VisRest, Inside
<1> QED BY <1>3, <1>4, <1>6, <1>7, <1>8, <1>9, <1>10, <1>11 DEF VisNext

\* The settings of the visible camera are well typed, and a setter in progress
\* has left an end of the steps of its kind (VisTypeOK, CVisLightImage.cpp:
\* 73-356), for any threads, settings and values.
THEOREM VisTypesCorrect == VisSpec => []VisTypeOK
<1>1. VisInit => VisRest  BY VisAssumption, VisRestInit
<1>2. VisInv /\ VisRest /\ [VisNext]_visVars => VisRest'  BY VisAssumption, VisRestStep
<1>3. VisInv /\ VisRest => VisTypeOK  BY VisAssumption, VisTyped
<1> QED BY <1>1, <1>2, <1>3, VisInvariant, PTL DEF VisSpec

-----------------------------------------------------------------------------
(* The four parts together                                                 *)

\* A behaviour of the four parts is one of each of them: what is proved of a
\* part holds of it here.
THEOREM Composition == MCSpec => IniSpec /\ VisSpec /\ PtzSpec /\ PresetSpec
<1> DEFINE all == <<part, iniVars, visVars, ptzVars, presetVars>>
<1>1. MCInit => IniInit /\ VisInit /\ PtzInit /\ PresetInit  BY DEF MCInit
<1>2. [MCNext]_all =>
        /\ [IniNext]_iniVars /\ [VisNext]_visVars
        /\ [PtzNext]_ptzVars /\ [PresetNext]_presetVars
  BY DEF MCNext
<1> QED BY <1>1, <1>2, PTL DEF MCSpec, IniSpec, VisSpec, PtzSpec, PresetSpec

\* The variables of the four parts are well typed (MiddlewareTypeOK), for any
\* components, threads, values, files and tables.
THEOREM MiddlewareTypes == MCSpec => []MiddlewareTypeOK
<1>1. IniTypeOK /\ VisTypeOK /\ PtzTypeOK /\ PresetTypeOK => MiddlewareTypeOK
  BY DEF MiddlewareTypeOK
<1> QED BY <1>1, Composition, TypeCorrect, VisTypesCorrect, AnglesCorrect,
           PresetTypesCorrect, PTL
====
