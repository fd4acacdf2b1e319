----------------------------- MODULE PtzPresets -----------------------------
(***************************************************************************)
(* The preset table of CPtzCtrl and its sections Ptz_PresetInfo_<i> in the *)
(* configuration file.  A client sends the whole table (SetPresetEx()),    *)
(* which is written key by key, one ini_puts() each, before the member     *)
(* takes it over, all under m_lock: one call at a time.                    *)
(***************************************************************************)
EXTENDS Integers, FiniteSets

CONSTANTS
  Slots,             (* how many presets the table can hold                 *)
  PresetNames,
  NoPreset,          (* no section, or what there is of one                 *)
  PresetMaxRestarts  (* bound: restarts of the process                      *)

ASSUME PresetAssumption ==
  Slots \in Nat /\ PresetMaxRestarts \in Nat /\ NoPreset \notin PresetNames

VARIABLES
  m_preset, m_preset_size,
  sections,          (* the name and the number in each section of the file *)
  saving,            (* the call in progress: its table, where it is        *)
  left,              (* history: sections an earlier run left               *)
  unwritten,         (* history: a value could not be stored                *)
  presetRestarts

presetVars == <<m_preset, m_preset_size, sections, saving, left, unwritten, presetRestarts>>

Indices == 0 .. Slots - 1
Fields == {"name", "num"}
NoSection == [f \in Fields |-> NoPreset]
NotSaving == [step |-> "idle", i |-> 0, num |-> 0, table |-> [i \in Indices |-> NoPreset]]

PresetInit ==
  /\ m_preset = [i \in Indices |-> NoPreset] /\ m_preset_size = 0
  /\ sections = [i \in Indices |-> NoSection]
  /\ saving = NotSaving
  /\ left = {} /\ unwritten = FALSE /\ presetRestarts = 0

\* The call begins; a table of no presets has nothing to write.
SetPresetEx(table, num) ==
  /\ saving.step = "idle"
  /\ saving' = [step |-> IF num = 0 THEN "delete" ELSE "name", i |-> 0, num |-> num,
                table |-> table]
  /\ UNCHANGED <<m_preset, m_preset_size, sections, left, unwritten, presetRestarts>>

\* SetValue(), whose answer is not looked at.
Wrote(i, f, v) ==
  \/ sections' = [sections EXCEPT ![i][f] = v] /\ UNCHANGED unwritten
  \/ unwritten' = TRUE /\ UNCHANGED sections

WriteName ==
  /\ saving.step = "name"
  /\ Wrote(saving.i, "name", saving.table[saving.i])
  /\ saving' = [saving EXCEPT !.step = "num"]
  /\ UNCHANGED <<m_preset, m_preset_size, left, presetRestarts>>

\* The number goes with the name; it is the last of the section's keys.
WriteNum ==
  /\ saving.step = "num"
  /\ Wrote(saving.i, "num", saving.table[saving.i])
  /\ saving' = [saving EXCEPT !.i = @ + 1,
                              !.step = IF saving.i + 1 = saving.num THEN "delete" ELSE "name"]
  /\ UNCHANGED <<m_preset, m_preset_size, left, presetRestarts>>

\* Mutant: sections are counted from one.
DeleteSectionFromOne ==
  /\ saving.step = "delete" /\ saving.i < m_preset_size
  /\ sections' = [i \in Indices |-> IF i = saving.i + 1 THEN NoSection ELSE sections[i]]
  /\ UNCHANGED unwritten
  /\ saving' = [saving EXCEPT !.i = @ + 1]
  /\ UNCHANGED <<m_preset, m_preset_size, left, presetRestarts>>

\* The sections of the presets there were more of.
DeleteSection ==
  /\ saving.step = "delete" /\ saving.i < m_preset_size
  /\ \/ sections' = [sections EXCEPT ![saving.i] = NoSection] /\ UNCHANGED unwritten
     \/ unwritten' = TRUE /\ UNCHANGED sections
  /\ saving' = [saving EXCEPT !.i = @ + 1]
  /\ UNCHANGED <<m_preset, m_preset_size, left, presetRestarts>>

KeepTable ==
  /\ saving.step = "delete" /\ saving.i >= m_preset_size
  /\ m_preset_size' = saving.num
  /\ m_preset' = [i \in Indices |-> IF i < saving.num THEN saving.table[i] ELSE m_preset[i]]
  /\ saving' = NotSaving
  /\ UNCHANGED <<sections, left, unwritten, presetRestarts>>

\* The process dies and starts again.  Init() reads as many presets as the key
\* ptz_preset_size says, and nothing ever writes that key.
PresetRestart ==
  /\ presetRestarts < PresetMaxRestarts /\ presetRestarts' = presetRestarts + 1
  /\ m_preset' = [i \in Indices |-> NoPreset] /\ m_preset_size' = 0
  /\ saving' = NotSaving
  /\ left' = {i \in Indices : sections[i] # NoSection}
  /\ UNCHANGED <<sections, unwritten>>

PresetNext ==
  \/ \E num \in 0 .. Slots : \E table \in [Indices -> PresetNames \cup {NoPreset}] :
       /\ \A i \in Indices : table[i] = NoPreset <=> i >= num
       /\ SetPresetEx(table, num)
  \/ WriteName \/ WriteNum \/ DeleteSection \/ KeepTable
  \/ PresetRestart

PresetSpec == PresetInit /\ [][PresetNext]_presetVars

-----------------------------------------------------------------------------

\* Every variable has its type.
PresetTypeOK ==
  /\ m_preset \in [Indices -> PresetNames \cup {NoPreset}]
  /\ m_preset_size \in 0 .. Slots
  /\ sections \in [Indices -> [Fields -> PresetNames \cup {NoPreset}]]
  /\ saving \in [step : {"idle", "name", "num", "delete"}, i : 0 .. Slots, num : 0 .. Slots,
                 table : [Indices -> PresetNames \cup {NoPreset}]]
  /\ left \subseteq Indices /\ unwritten \in BOOLEAN
  /\ presetRestarts \in 0 .. PresetMaxRestarts

\* Between calls, the file has whole sections for exactly the presets of the
\* table, and no others but those an earlier run left behind: its size forgotten,
\* nothing deletes them any more.  A call broken off by a crash leaves a mixture,
\* which the next call that reaches as far puts right.
PresetsOnFile ==
  saving.step = "idle" /\ ~unwritten =>
    \A i \in Indices :
      /\ i < m_preset_size => \A f \in Fields : sections[i][f] = m_preset[i]
      /\ i >= m_preset_size /\ sections[i] # NoSection => i \in left

=============================================================================
