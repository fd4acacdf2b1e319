---------------------------- MODULE HeaterControl ----------------------------
(***************************************************************************)
(* The two lens heaters: the temperature thread and the API of the SDK     *)
(* (lgc_sys.cpp) on the pins and the flags that mirror them, CExtctrl of   *)
(* the middleware with its cached mode and the configuration file, and the *)
(* restart of the process, which the heaters' pins outlive.                *)
(*                                                                         *)
(* m_CheckTemperatureLock serialises the temperature thread and the API;   *)
(* CExtctrl::m_Lock, held for the whole of SetTemperatureMode(), is the    *)
(* condition that `ext' is idle.                                           *)
(***************************************************************************)
EXTENDS Integers

CONSTANTS
  Temps,          (* temperatures the sensors may show                      *)
  Windows,        (* [min, max] pairs the configuration file may hold       *)
  Garbage,        (* what m_TemperMode, never initialised, may start as     *)
  FailingPins,    (* channels whose heat_pin_status_set() may fail          *)
  ReadFails,      (* TRUE: fread() of a sensor may return nothing           *)
  Commanded,      (* channels JPSys_SetheatEnable() is called for           *)
  NoReading,      (* no reading dealt with                                  *)
  MaxRestarts     (* bound: restarts of the process                         *)

Channels == {1, 2}
HEAT_OFF == 0   HEAT_ON == 1   HEAT_AUTO == 2
Modes == {HEAT_OFF, HEAT_ON, HEAT_AUTO}
Rated == 50     \* above it the thread switches off whatever the window says

ASSUME HeaterAssumption ==
  /\ Temps \subseteq Int /\ NoReading \notin Temps
  /\ Windows \subseteq [min : Int, max : Int]
  /\ Garbage \subseteq Int /\ Garbage # {}
  /\ FailingPins \subseteq Channels /\ Commanded \subseteq Channels
  /\ ReadFails \in BOOLEAN
  /\ MaxRestarts \in Nat

VARIABLES
  phase,          (* down, boot, sdk, load, mode, up: how far the start is  *)
  file,           (* what the configuration file holds                      *)
  m_TemperMode,   (* CExtctrl's copy of the mode                            *)
  ext,            (* the SetTemperatureMode() call in progress              *)
  unsaved,        (* history: the store of the last such call has failed    *)
  lock,           (* holder of m_CheckTemperatureLock                       *)
  m_AutoTemperatureMode, m_TemCtrlFlag, m_autoTemCtrlCfg,   (* SystemInfo_t *)
  watched,        (* the temperature thread is in its loop                  *)
  chk,            (* the channel it deals with next                         *)
  pin,            (* the heaters                                            *)
  temp,           (* the temperatures                                       *)
  seen,           (* history: last reading dealt with under this mode,      *)
                  (* window and command                                     *)
  restarts

sysVars == <<m_AutoTemperatureMode, m_TemCtrlFlag, m_autoTemCtrlCfg>>
saveVars == <<file, unsaved>>
threadVars == <<watched, chk>>
vars == <<phase, file, m_TemperMode, ext, unsaved, lock, m_AutoTemperatureMode,
          m_TemCtrlFlag, m_autoTemCtrlCfg, watched, chk, pin, temp, seen,
          restarts>>

Idle == [pc |-> "idle", mode |-> HEAT_OFF]
ZeroWindow == [min |-> 0, max |-> 0]

Init ==
  /\ phase = "down"
  /\ file \in [mode : Modes, window : Windows]
  /\ m_TemperMode \in Garbage
  /\ ext = Idle /\ lock = "free" /\ chk = 0
  /\ unsaved = FALSE /\ watched = FALSE
  /\ m_AutoTemperatureMode = HEAT_OFF
  /\ m_TemCtrlFlag = [c \in Channels |-> 0]
  /\ m_autoTemCtrlCfg = ZeroWindow
  /\ pin = [c \in Channels |-> 0]
  /\ temp \in [Channels -> Temps]
  /\ seen = [c \in Channels |-> NoReading]
  /\ restarts = 0

\* heat_pin_status_set(); its result is ignored by every caller.
SetPin(c, value) ==
  \/ pin' = [pin EXCEPT ![c] = value]
  \/ c \in FailingPins /\ UNCHANGED pin

-----------------------------------------------------------------------------
(* Start of the process: LGC_SYS_Init(), then CExtctrl::Init()             *)

BootPin1 ==
  /\ phase = "down"
  /\ m_AutoTemperatureMode' = HEAT_AUTO
  /\ m_TemCtrlFlag' = [c \in Channels |-> 0]
  /\ m_autoTemCtrlCfg' = ZeroWindow
  /\ SetPin(1, 0)
  /\ phase' = "boot"
  /\ seen' = [c \in Channels |-> NoReading]
  /\ UNCHANGED <<saveVars, m_TemperMode, ext, lock, threadVars, temp, restarts>>

\* The second pin, and the temperature thread starts; it returns for good when it
\* cannot open the files of the sensors.
BootPin2 ==
  /\ phase = "boot"
  /\ SetPin(2, 0)
  /\ watched' \in BOOLEAN
  /\ phase' = "sdk"
  /\ UNCHANGED <<saveVars, m_TemperMode, ext, lock, sysVars, chk, temp, seen,
                 restarts>>

\* The constructor leaves m_TemperMode as it finds the memory.
Construct ==
  /\ phase = "sdk"
  /\ m_TemperMode' \in Garbage
  /\ phase' = "load"
  /\ UNCHANGED <<saveVars, ext, lock, sysVars, threadVars, pin, temp, seen,
                 restarts>>

\* SetTemCtrlCfg() with what LoadParam() read; it saves the same values again.
LoadWindow ==
  /\ phase = "load" /\ lock = "free"
  /\ m_autoTemCtrlCfg' = file.window
  /\ seen' = [c \in Channels |-> NoReading]
  /\ phase' = "mode"
  /\ UNCHANGED <<saveVars, m_TemperMode, ext, lock, m_AutoTemperatureMode,
                 m_TemCtrlFlag, threadVars, pin, temp, restarts>>

Begin(mode) ==
  ext' = IF m_TemperMode = mode THEN ext ELSE [pc |-> "pin1", mode |-> mode]

LoadMode ==
  /\ phase = "mode"
  /\ Begin(file.mode)
  /\ phase' = "up"
  /\ UNCHANGED <<saveVars, m_TemperMode, lock, sysVars, threadVars, pin, temp,
                 seen, restarts>>

\* The process ends at any point; the pins keep their value.
Crash ==
  /\ phase # "down" /\ restarts < MaxRestarts
  /\ phase' = "down"
  /\ ext' = Idle /\ lock' = "free" /\ chk' = 0
  /\ watched' = FALSE /\ unsaved' = FALSE
  /\ restarts' = restarts + 1
  /\ UNCHANGED <<file, m_TemperMode, sysVars, pin, temp, seen>>

-----------------------------------------------------------------------------
(* CExtctrl::SetTemperatureMode() and LGC_SYS_SetheatMode() under it       *)

SetTemperatureMode(mode) ==
  /\ phase = "up" /\ ext.pc = "idle"
  /\ Begin(mode)
  /\ UNCHANGED <<phase, saveVars, m_TemperMode, lock, sysVars, threadVars, pin,
                 temp, seen, restarts>>

\* Mutant: SetheatMode() does not take the lock.
SetheatModeUnlocked ==
  /\ ext.pc = "pin1"
  /\ SetPin(1, 0)
  /\ ext' = [ext EXCEPT !.pc = "pin2"]
  /\ UNCHANGED <<phase, saveVars, m_TemperMode, lock, sysVars, threadVars, temp,
                 seen, restarts>>

\* Switching the mode first turns the heaters off.
SetheatModePin1 ==
  /\ ext.pc = "pin1" /\ lock = "free"
  /\ lock' = "api"
  /\ SetPin(1, 0)
  /\ ext' = [ext EXCEPT !.pc = "pin2"]
  /\ UNCHANGED <<phase, saveVars, m_TemperMode, sysVars, threadVars, temp, seen,
                 restarts>>

\* Mutant: the flags are left as they were.
SetheatModeKeepsFlags ==
  /\ ext.pc = "pin2"
  /\ SetPin(2, 0)
  /\ m_AutoTemperatureMode' = ext.mode
  /\ seen' = [c \in Channels |-> NoReading]
  /\ lock' = "free"
  /\ ext' = [ext EXCEPT !.pc = "save"]
  /\ UNCHANGED <<phase, saveVars, m_TemperMode, m_TemCtrlFlag, m_autoTemCtrlCfg,
                 threadVars, temp, restarts>>

SetheatModePin2 ==
  /\ ext.pc = "pin2"
  /\ SetPin(2, 0)
  /\ m_TemCtrlFlag' = [c \in Channels |-> 0]
  /\ m_AutoTemperatureMode' = ext.mode
  /\ seen' = [c \in Channels |-> NoReading]
  /\ lock' = "free"
  /\ ext' = [ext EXCEPT !.pc = "save"]
  /\ UNCHANGED <<phase, saveVars, m_TemperMode, m_autoTemCtrlCfg, threadVars,
                 temp, restarts>>

\* Mutant: the mode is not written to the configuration file.
SaveModeForgets ==
  /\ ext.pc = "save"
  /\ ext' = [ext EXCEPT !.pc = "cache"]
  /\ UNCHANGED <<phase, saveVars, m_TemperMode, lock, sysVars, threadVars, pin,
                 temp, seen, restarts>>

\* SetValue() may fail; its result is ignored, and CacheMode follows all the same.
SaveMode ==
  /\ ext.pc = "save"
  /\ \/ file' = [file EXCEPT !.mode = ext.mode] /\ unsaved' = FALSE
     \/ unsaved' = TRUE /\ UNCHANGED file
  /\ ext' = [ext EXCEPT !.pc = "cache"]
  /\ UNCHANGED <<phase, m_TemperMode, lock, sysVars, threadVars, pin, temp,
                 seen, restarts>>

CacheMode ==
  /\ ext.pc = "cache"
  /\ m_TemperMode' = ext.mode
  /\ ext' = Idle
  /\ UNCHANGED <<phase, saveVars, lock, sysVars, threadVars, pin, temp, seen,
                 restarts>>

\* JPSys_SetheatEnable(): works in every mode.
SetheatEnable(c, enable) ==
  /\ phase \notin {"down", "boot"} /\ lock = "free"
  /\ m_TemCtrlFlag' = [m_TemCtrlFlag EXCEPT ![c] = enable]
  /\ SetPin(c, enable)
  /\ seen' = [seen EXCEPT ![c] = NoReading]
  /\ UNCHANGED <<phase, saveVars, m_TemperMode, ext, lock,
                 m_AutoTemperatureMode, m_autoTemCtrlCfg, threadVars, temp,
                 restarts>>

-----------------------------------------------------------------------------
(* check_temperature_thread()                                              *)

\* Integer division of C, towards zero.
Third(d) == IF d >= 0 THEN d \div 3 ELSE -((-d) \div 3)

Mid(window) == window.min + Third(window.max - window.min)

Heating(c) == m_TemCtrlFlag[c] = 1

\* The three outcomes of deal_temctrl().
SwitchOff(c, t) ==
  \/ t > Rated
  \/ Heating(c) /\ t = Mid(m_autoTemCtrlCfg)
  \/ Heating(c) /\ t >= m_autoTemCtrlCfg.min /\ t > m_autoTemCtrlCfg.max

SwitchOn(c, t) ==
  /\ t <= Rated /\ t # Mid(m_autoTemCtrlCfg)
  /\ t < m_autoTemCtrlCfg.min
  /\ ~Heating(c)

\* Mutant: above the rated temperature only a heater whose flag is set is
\* switched off.
DealTrustsFlag(c, t) ==
  \/ /\ SwitchOff(c, t) /\ Heating(c)
     /\ m_TemCtrlFlag' = [m_TemCtrlFlag EXCEPT ![c] = 0]
     /\ SetPin(c, 0)
  \/ /\ SwitchOn(c, t)
     /\ m_TemCtrlFlag' = [m_TemCtrlFlag EXCEPT ![c] = 1]
     /\ SetPin(c, 1)
  \/ /\ ~(SwitchOff(c, t) /\ Heating(c)) /\ ~SwitchOn(c, t)
     /\ UNCHANGED <<m_TemCtrlFlag, pin>>

\* Mutant: the rated temperature is not checked.
DealUnrated(c, t) ==
  \/ /\ Heating(c) /\ t > m_autoTemCtrlCfg.max
     /\ m_TemCtrlFlag' = [m_TemCtrlFlag EXCEPT ![c] = 0]
     /\ SetPin(c, 0)
  \/ /\ ~Heating(c) /\ t < m_autoTemCtrlCfg.min
     /\ m_TemCtrlFlag' = [m_TemCtrlFlag EXCEPT ![c] = 1]
     /\ SetPin(c, 1)
  \/ /\ ~(Heating(c) /\ t > m_autoTemCtrlCfg.max)
     /\ ~(~Heating(c) /\ t < m_autoTemCtrlCfg.min)
     /\ UNCHANGED <<m_TemCtrlFlag, pin>>

deal_temctrl(c, t) ==
  \/ /\ SwitchOff(c, t)
     /\ m_TemCtrlFlag' = [m_TemCtrlFlag EXCEPT ![c] = 0]
     /\ SetPin(c, 0)
  \/ /\ SwitchOn(c, t)
     /\ m_TemCtrlFlag' = [m_TemCtrlFlag EXCEPT ![c] = 1]
     /\ SetPin(c, 1)
  \/ /\ ~SwitchOff(c, t) /\ ~SwitchOn(c, t)
     /\ UNCHANGED <<m_TemCtrlFlag, pin>>

\* The lock is taken and the mode is the automatic one.
CheckBegin ==
  /\ watched /\ chk = 0 /\ phase \notin {"down", "boot"} /\ lock = "free"
  /\ m_AutoTemperatureMode = HEAT_AUTO
  /\ lock' = "thread"
  /\ chk' = 1
  /\ UNCHANGED <<phase, saveVars, m_TemperMode, ext, sysVars, watched, pin,
                 temp, seen, restarts>>

\* Mutant: the pass goes on to a third channel.
NextChannelThird(c) ==
  /\ chk' = c + 1
  /\ lock' = IF c = 1 THEN lock ELSE "free"
  /\ UNCHANGED <<phase, saveVars, m_TemperMode, ext, m_AutoTemperatureMode,
                 m_autoTemCtrlCfg, watched, temp, restarts>>

NextChannel(c) ==
  /\ chk' = IF c = 1 THEN 2 ELSE 0
  /\ lock' = IF c = 1 THEN lock ELSE "free"
  /\ UNCHANGED <<phase, saveVars, m_TemperMode, ext, m_AutoTemperatureMode,
                 m_autoTemCtrlCfg, watched, temp, restarts>>

CheckChannel(c) ==
  /\ chk = c
  /\ deal_temctrl(c, temp[c])
  /\ seen' = [seen EXCEPT ![c] = temp[c]]
  /\ NextChannel(c)

CheckUnread(c) ==
  /\ ReadFails /\ chk = c
  /\ NextChannel(c)
  /\ UNCHANGED <<m_TemCtrlFlag, pin, seen>>

\* The temperature changes under the heaters and the weather.
Weather(c, t) ==
  /\ temp' = [temp EXCEPT ![c] = t]
  /\ UNCHANGED <<phase, saveVars, m_TemperMode, ext, lock, sysVars, threadVars,
                 pin, seen, restarts>>

-----------------------------------------------------------------------------
Boot    == BootPin1 \/ BootPin2 \/ Construct \/ LoadWindow \/ LoadMode
ApiStep == SetheatModePin1 \/ SetheatModePin2 \/ SaveMode \/ CacheMode
Check   == \E c \in Channels : CheckChannel(c) \/ CheckUnread(c)

Next ==
  \/ Boot \/ ApiStep \/ Crash
  \/ \E mode \in Modes : SetTemperatureMode(mode)
  \/ \E c \in Commanded, enable \in {0, 1} : SetheatEnable(c, enable)
  \/ CheckBegin \/ Check
  \/ \E c \in Channels, t \in Temps : Weather(c, t)

Spec == Init /\ [][Next]_vars

\* A check of channel c in which the sensor and the pin worked.
CheckWorks(c) ==
  /\ CheckChannel(c)
  /\ m_TemCtrlFlag'[c] = pin'[c]

(***************************************************************************)
(* The temperature thread and the calls in progress keep running; a sensor *)
(* or a pin that is tried again and again works again and again.           *)
(***************************************************************************)
Fairness ==
  /\ WF_vars(Boot) /\ WF_vars(ApiStep) /\ WF_vars(CheckBegin) /\ WF_vars(Check)
  /\ \A c \in Channels : SF_vars(CheckWorks(c))

FairSpec == Spec /\ Fairness

-----------------------------------------------------------------------------
(* Properties                                                              *)

TypeOK ==
  /\ phase \in {"down", "boot", "sdk", "load", "mode", "up"}
  /\ file \in [mode : Modes, window : Windows]
  /\ m_TemperMode \in Modes \cup Garbage
  /\ ext \in [pc : {"idle", "pin1", "pin2", "save", "cache"}, mode : Modes]
  /\ lock \in {"free", "api", "thread"}
  /\ m_AutoTemperatureMode \in Modes
  /\ m_TemCtrlFlag \in [Channels -> {0, 1}]
  /\ m_autoTemCtrlCfg \in [min : Int, max : Int]
  /\ chk \in {0} \cup Channels
  /\ pin \in [Channels -> {0, 1}]
  /\ temp \in [Channels -> Temps]
  /\ seen \in [Channels -> Temps \cup {NoReading}]
  /\ unsaved \in BOOLEAN /\ watched \in BOOLEAN
  /\ restarts \in 0..MaxRestarts

\* Nobody is in the middle of a change: the process is past LGC_SYS_Init() and
\* the lock is free.
Settled == phase \notin {"down", "boot"} /\ lock = "free"

\* The channels whose pin works, and those the application does not command.
Working == Channels \ FailingPins
Untouched == Working \ Commanded

\* Where the pin works, the flag the thread decides by is the pin.
FlagsMatchPins == Settled => \A c \in Working : m_TemCtrlFlag[c] = pin[c]

\* Outside the automatic mode the heaters are off (nothing but a command of the
\* SDK's own API turns one on): a check that began in the automatic mode
\* cannot switch one on after SetheatMode().
OffOutsideAuto ==
  Settled /\ m_AutoTemperatureMode # HEAT_AUTO => \A c \in Untouched : pin[c] = 0

\* A heater that is on was last seen below the rated temperature and not above
\* its window.
HeaterOnWithinWindow ==
  Settled =>
    \A c \in Working :
      pin[c] = 1 /\ seen[c] # NoReading =>
        /\ seen[c] <= Rated
        /\ seen[c] <= m_autoTemCtrlCfg.max \/ seen[c] < m_autoTemCtrlCfg.min

\* No heater is switched to and fro at one temperature: under a window that is not
\* inverted, one that the application does not command goes on only in the
\* automatic mode, below the window, and the thread switches it off only within or
\* above the window, or above the rated temperature.
SwitchesApart ==
  m_autoTemCtrlCfg.min <= m_autoTemCtrlCfg.max =>
    \A c \in Channels \ Commanded :
      /\ pin[c] = 0 /\ pin'[c] = 1 =>
           /\ lock = "thread" /\ m_AutoTemperatureMode = HEAT_AUTO
           /\ temp[c] < m_autoTemCtrlCfg.min /\ temp[c] <= Rated
      /\ pin[c] = 1 /\ pin'[c] = 0 /\ lock = "thread" /\ phase' = phase =>
           temp[c] >= m_autoTemCtrlCfg.min \/ temp[c] > Rated

Hysteresis == [][SwitchesApart]_vars

\* Between calls CExtctrl's mode is the saved one, unless the last store of a mode
\* failed, and the SDK runs it or still runs the automatic mode it started with.
ModesAgree ==
  phase = "up" /\ ext.pc = "idle" =>
    /\ m_TemperMode = file.mode \/ unsaved
    /\ m_AutoTemperatureMode \in {m_TemperMode, HEAT_AUTO}

\* From some point on the application does not command channel c any more.
LeftAlone(c) ==
  <>[][\A enable \in {0, 1} : ~SetheatEnable(c, enable)]_vars

\* Above the rated temperature the heater goes off for good, even if the pin
\* fails at times, once the thread has its sensors: the cut-off does not trust
\* the flag.
CutOffWorks ==
  \A c \in Channels :
    LeftAlone(c) =>
      (<>[](watched /\ m_AutoTemperatureMode = HEAT_AUTO /\ temp[c] > Rated)
         => <>[](pin[c] = 0))

\* In the automatic mode a lens that stays too cold is heated, if the pin works
\* and the thread has its sensors.
ColdIsHeated ==
  \A c \in Working :
    LeftAlone(c) =>
      (<>[](/\ watched /\ m_AutoTemperatureMode = HEAT_AUTO
            /\ temp[c] < m_autoTemCtrlCfg.min /\ temp[c] <= Rated
            /\ m_autoTemCtrlCfg.min <= m_autoTemCtrlCfg.max)
         => <>[](pin[c] = 1))

\* network_common.h: NETWORK_CONFIG_HEAT_OFF is "off".  Between calls, with the
\* mode saved as off, the heaters are off.
HeatOffIsOff ==
  phase = "up" /\ ext.pc = "idle" /\ Settled /\ m_TemperMode = HEAT_OFF
    => \A c \in Untouched : pin[c] = 0

\* network_common.h: NETWORK_CONFIG_HEAT_ON is "on".  Between calls, with the
\* mode saved as on, the heaters are on.
HeatOnIsOn ==
  phase = "up" /\ ext.pc = "idle" /\ Settled /\ m_TemperMode = HEAT_ON
    => \A c \in Untouched : pin[c] = 1

\* Between calls the SDK runs the mode CExtctrl answers, and not the one it
\* started with.
ModeInForce == phase = "up" /\ ext.pc = "idle" => m_AutoTemperatureMode = m_TemperMode

=============================================================================
