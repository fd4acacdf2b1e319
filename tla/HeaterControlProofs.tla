------------------------- MODULE HeaterControlProofs -------------------------
(***************************************************************************)
(* Proofs about HeaterControl, for any temperatures, windows and initial   *)
(* memory.  The argument is the lock: what the thread and the API do to    *)
(* the flags and pins of a channel is complete whenever the lock is free,  *)
(* and half done only in the one place the invariant names.                *)
(***************************************************************************)
EXTENDS HeaterControl, TLAPS

Running == phase \notin {"down", "boot"}

\* Who holds the lock, and what the start-up has done so far.
LockInv ==
  /\ lock = "thread" <=> chk # 0
  /\ lock = "api" <=> ext.pc = "pin2"
  /\ ext.pc # "idle" => phase = "up"
  /\ ~Running => lock = "free"
  /\ lock = "thread" => m_AutoTemperatureMode = HEAT_AUTO
  /\ phase \in {"boot", "sdk", "load", "mode"} => m_AutoTemperatureMode = HEAT_AUTO

\* The flags follow the pins; SetheatMode() has already cleared the first pin
\* when it holds the lock.
PinInv ==
  /\ phase = "boot" =>
       /\ 1 \in Working => pin[1] = 0
       /\ \A c \in Channels : m_TemCtrlFlag[c] = 0 /\ seen[c] = NoReading
  /\ Running =>
       /\ lock # "api" => \A c \in Working : m_TemCtrlFlag[c] = pin[c]
       /\ lock = "api" =>
            /\ 1 \in Working => pin[1] = 0
            /\ 2 \in Working => m_TemCtrlFlag[2] = pin[2]

\* Outside the automatic mode no flag is set, unless the API is just clearing
\* them or the application set one itself.
OffInv ==
  Running /\ lock # "api" /\ m_AutoTemperatureMode # HEAT_AUTO
    => \A c \in Untouched : m_TemCtrlFlag[c] = 0

\* A heater that is on was last seen within its limits, in every running state.
WindowInv ==
  Running =>
    \A c \in Working :
      pin[c] = 1 /\ seen[c] # NoReading =>
        /\ seen[c] <= Rated
        /\ seen[c] <= m_autoTemCtrlCfg.max \/ seen[c] < m_autoTemCtrlCfg.min

\* How far a call has brought the three copies of the mode.
ModeInv ==
  phase = "up" =>
    /\ ext.pc = "idle" =>
         /\ m_TemperMode = file.mode \/ unsaved
         /\ m_AutoTemperatureMode \in {m_TemperMode, HEAT_AUTO}
    /\ ext.pc \in {"save", "cache"} => m_AutoTemperatureMode = ext.mode
    /\ ext.pc = "cache" => file.mode = ext.mode \/ unsaved

-----------------------------------------------------------------------------
LEMMA InitAll == Init => TypeOK /\ LockInv /\ PinInv /\ OffInv /\ WindowInv /\ ModeInv
<1> SUFFICES ASSUME Init
             PROVE  TypeOK /\ LockInv /\ PinInv /\ OffInv /\ WindowInv /\ ModeInv
  OBVIOUS
<1> USE HeaterAssumption DEF Init, Channels, Modes, HEAT_OFF, HEAT_ON, HEAT_AUTO
<1>b. unsaved \in BOOLEAN /\ watched \in BOOLEAN
  OBVIOUS
<1>1. TypeOK
  BY <1>b DEF TypeOK, Idle, ZeroWindow
<1>2. LockInv
  BY DEF LockInv, Idle, Running
<1>3. PinInv /\ OffInv /\ WindowInv /\ ModeInv
  BY DEF PinInv, OffInv, WindowInv, ModeInv, Running
<1> QED
  BY <1>1, <1>2, <1>3

\* A pin holds 0 or 1 whatever heat_pin_status_set() does.
LEMMA SetPinType ==
  ASSUME TypeOK, NEW c \in Channels, NEW value \in {0, 1}, SetPin(c, value)
  PROVE  pin' \in [Channels -> {0, 1}]
BY DEF TypeOK, SetPin

LEMMA SetPinWorks ==
  ASSUME TypeOK, NEW c \in Channels, NEW value \in {0, 1}, SetPin(c, value)
  PROVE  /\ \A d \in Channels : d # c => pin'[d] = pin[d]
         /\ c \in Working => pin'[c] = value
BY DEF TypeOK, SetPin, Working

\* What dealing with one channel does to the flags and pins.
LEMMA DealEffect ==
  ASSUME TypeOK, NEW c \in Channels, NEW t \in Temps, deal_temctrl(c, t)
  PROVE  /\ m_TemCtrlFlag' \in [Channels -> {0, 1}]
         /\ pin' \in [Channels -> {0, 1}]
         /\ \A d \in Channels : d # c =>
              m_TemCtrlFlag'[d] = m_TemCtrlFlag[d] /\ pin'[d] = pin[d]
         /\ c \in Working /\ m_TemCtrlFlag[c] = pin[c] =>
              /\ m_TemCtrlFlag'[c] = pin'[c]
              /\ pin'[c] = 1 => /\ t <= Rated
                                /\ t <= m_autoTemCtrlCfg.max \/ t < m_autoTemCtrlCfg.min
<1> USE HeaterAssumption
<1>t. t \in Int /\ m_autoTemCtrlCfg.min \in Int /\ m_autoTemCtrlCfg.max \in Int
      /\ m_TemCtrlFlag \in [Channels -> {0, 1}] /\ pin \in [Channels -> {0, 1}]
  BY DEF TypeOK
<1>1. CASE SwitchOff(c, t) /\ m_TemCtrlFlag' = [m_TemCtrlFlag EXCEPT ![c] = 0]
           /\ SetPin(c, 0)
  BY <1>1, <1>t, SetPinType, SetPinWorks
<1>2. CASE SwitchOn(c, t) /\ m_TemCtrlFlag' = [m_TemCtrlFlag EXCEPT ![c] = 1]
           /\ SetPin(c, 1)
  BY <1>2, <1>t, SetPinType, SetPinWorks DEF SwitchOn, Rated
<1>3. CASE ~SwitchOff(c, t) /\ ~SwitchOn(c, t) /\ UNCHANGED <<m_TemCtrlFlag, pin>>
  BY <1>3, <1>t DEF SwitchOff, Heating, Rated
<1> QED
  BY <1>1, <1>2, <1>3 DEF deal_temctrl

-----------------------------------------------------------------------------
\* Every step keeps the types.
LEMMA TypeStep == TypeOK /\ LockInv /\ [Next]_vars => TypeOK'
<1> SUFFICES ASSUME TypeOK, LockInv, [Next]_vars PROVE TypeOK'
  OBVIOUS
<1> USE HeaterAssumption DEF Channels, Modes, HEAT_OFF, HEAT_ON, HEAT_AUTO, sysVars, saveVars, threadVars
<1>1. CASE BootPin1
  BY <1>1, SetPinType DEF BootPin1, TypeOK, ZeroWindow
<1>2. CASE BootPin2
  BY <1>2, SetPinType DEF BootPin2, TypeOK
<1>3. CASE Construct
  BY <1>3 DEF Construct, TypeOK
<1>4. CASE LoadWindow
  <2>1. file.window \in [min : Int, max : Int]
    BY DEF TypeOK
  <2> QED
    BY <1>4, <2>1 DEF LoadWindow, TypeOK
<1>5. ASSUME NEW mode \in Modes, Begin(mode) PROVE
        ext' \in [pc : {"idle", "pin1", "pin2", "save", "cache"}, mode : Modes]
  BY <1>5 DEF Begin, TypeOK
<1>6. CASE LoadMode
  <2>1. file.mode \in Modes
    BY DEF TypeOK
  <2> QED
    BY <1>6, <1>5, <2>1 DEF LoadMode, TypeOK
<1>7. CASE Crash
  <2>1. unsaved' \in BOOLEAN /\ watched' \in BOOLEAN
    BY <1>7 DEF Crash
  <2> QED
    BY <1>7, <2>1 DEF Crash, TypeOK, Idle
<1>8. ASSUME NEW mode \in Modes, SetTemperatureMode(mode) PROVE TypeOK'
  BY <1>8, <1>5 DEF SetTemperatureMode, TypeOK
<1>9. CASE SetheatModePin1
  BY <1>9, SetPinType DEF SetheatModePin1, TypeOK
<1>10. CASE SetheatModePin2
  BY <1>10, SetPinType DEF SetheatModePin2, TypeOK
<1>11. CASE SaveMode
  <2>1. unsaved' \in BOOLEAN
    BY <1>11 DEF SaveMode
  <2>2. file' \in [mode : Modes, window : Windows]
    BY <1>11 DEF SaveMode, TypeOK
  <2> QED
    BY <1>11, <2>1, <2>2 DEF SaveMode, TypeOK
<1>12. CASE CacheMode
  BY <1>12 DEF CacheMode, TypeOK, Idle
<1>13. ASSUME NEW c \in Commanded, NEW enable \in {0, 1}, SetheatEnable(c, enable)
       PROVE  TypeOK'
  BY <1>13, SetPinType DEF SetheatEnable, TypeOK
<1>14. CASE CheckBegin
  BY <1>14 DEF CheckBegin, TypeOK
<1>15. ASSUME NEW c \in Channels, CheckChannel(c) PROVE TypeOK'
  <2>1. temp[c] \in Temps
    BY DEF TypeOK
  <2>2. m_TemCtrlFlag' \in [Channels -> {0, 1}] /\ pin' \in [Channels -> {0, 1}]
    BY <1>15, <2>1, DealEffect DEF CheckChannel
  <2> QED
    BY <1>15, <2>1, <2>2 DEF CheckChannel, NextChannel, TypeOK
<1>16. ASSUME NEW c \in Channels, CheckUnread(c) PROVE TypeOK'
  BY <1>16 DEF CheckUnread, NextChannel, TypeOK
<1>17. ASSUME NEW c \in Channels, NEW t \in Temps, Weather(c, t) PROVE TypeOK'
  BY <1>17 DEF Weather, TypeOK
<1>18. CASE UNCHANGED vars
  BY <1>18 DEF vars, TypeOK
<1> QED
  BY <1>1, <1>2, <1>3, <1>4, <1>6, <1>7, <1>8, <1>9, <1>10, <1>11, <1>12, <1>13,
     <1>14, <1>15, <1>16, <1>17, <1>18
     DEF Next, Boot, ApiStep, Check

\* The lock has one holder, and the three copies of the mode change in order.
LEMMA LockStep == TypeOK /\ LockInv /\ ModeInv /\ [Next]_vars => LockInv' /\ ModeInv'
<1> SUFFICES ASSUME TypeOK, LockInv, ModeInv, [Next]_vars PROVE LockInv' /\ ModeInv'
  OBVIOUS
<1> USE DEF LockInv, ModeInv, Running, Channels, HEAT_OFF, HEAT_ON, HEAT_AUTO, sysVars, saveVars, threadVars
<1>1. CASE BootPin1
  BY <1>1 DEF BootPin1
<1>2. CASE BootPin2 \/ Construct \/ LoadWindow
  BY <1>2 DEF BootPin2, Construct, LoadWindow
<1>3. CASE LoadMode
  BY <1>3 DEF LoadMode, Begin, TypeOK
<1>4. CASE Crash
  BY <1>4 DEF Crash, Idle
<1>5. ASSUME NEW mode \in Modes, SetTemperatureMode(mode) PROVE LockInv' /\ ModeInv'
  BY <1>5 DEF SetTemperatureMode, Begin, TypeOK
<1>6. CASE SetheatModePin1
  BY <1>6 DEF SetheatModePin1, TypeOK
<1>7. CASE SetheatModePin2
  BY <1>7 DEF SetheatModePin2, TypeOK
<1>8. CASE SaveMode
  BY <1>8 DEF SaveMode, TypeOK
<1>9. CASE CacheMode
  BY <1>9 DEF CacheMode, Idle, TypeOK
<1>10. ASSUME NEW c \in Commanded, NEW enable \in {0, 1}, SetheatEnable(c, enable)
       PROVE  LockInv' /\ ModeInv'
  BY <1>10 DEF SetheatEnable
<1>11. CASE CheckBegin
  BY <1>11 DEF CheckBegin
<1>12. ASSUME NEW c \in Channels, CheckChannel(c) \/ CheckUnread(c)
       PROVE  LockInv' /\ ModeInv'
  BY <1>12 DEF CheckChannel, CheckUnread, NextChannel
<1>13. ASSUME NEW c \in Channels, NEW t \in Temps, Weather(c, t) PROVE LockInv' /\ ModeInv'
  BY <1>13 DEF Weather
<1>14. CASE UNCHANGED vars
  BY <1>14 DEF vars
<1> QED
  BY <1>1, <1>2, <1>3, <1>4, <1>5, <1>6, <1>7, <1>8, <1>9, <1>10, <1>11, <1>12,
     <1>13, <1>14
     DEF Next, Boot, ApiStep, Check

\* The flags follow the pins, and with them the other two claims.
LEMMA PinStep ==
  TypeOK /\ LockInv /\ PinInv /\ OffInv /\ WindowInv /\ [Next]_vars
    => PinInv' /\ OffInv' /\ WindowInv'
<1> SUFFICES ASSUME TypeOK, LockInv, PinInv, OffInv, WindowInv, [Next]_vars
             PROVE  PinInv' /\ OffInv' /\ WindowInv'
  OBVIOUS
<1> DEFINE Goal == PinInv' /\ OffInv' /\ WindowInv'
<1> USE HeaterAssumption
    DEF PinInv, OffInv, WindowInv, Running, Channels, Working, Untouched, HEAT_OFF, HEAT_ON, HEAT_AUTO,
        sysVars, saveVars, threadVars
<1>1. CASE BootPin1
  BY <1>1, SetPinWorks DEF BootPin1, LockInv
<1>2. CASE BootPin2
  BY <1>2, SetPinWorks DEF BootPin2, LockInv
<1>3. CASE Construct \/ LoadMode
  BY <1>3 DEF Construct, LoadMode
<1>4. CASE LoadWindow
  BY <1>4 DEF LoadWindow
<1>5. CASE Crash
  BY <1>5 DEF Crash
<1>6. ASSUME NEW mode \in Modes, SetTemperatureMode(mode) PROVE Goal
  BY <1>6 DEF SetTemperatureMode
<1>7. CASE SetheatModePin1
  <2>1. (1 \in Working => pin'[1] = 0) /\ pin'[2] = pin[2]
    BY <1>7, SetPinWorks DEF SetheatModePin1
  <2> QED
    BY <1>7, <2>1 DEF SetheatModePin1, LockInv
<1>8. CASE SetheatModePin2
  <2>1. pin'[1] = pin[1] /\ (2 \in Working => pin'[2] = 0)
    BY <1>8, SetPinWorks DEF SetheatModePin2
  <2>2. 1 \in Working => pin[1] = 0
    BY <1>8 DEF SetheatModePin2, LockInv
  <2>3. /\ \A d \in Channels : m_TemCtrlFlag'[d] = 0 /\ seen'[d] = NoReading
        /\ lock' # "api" /\ UNCHANGED phase
        /\ \A d \in Working : pin'[d] = 0
    BY <1>8, <2>1, <2>2 DEF SetheatModePin2
  <2>4. phase = "up"
    BY <1>8 DEF SetheatModePin2, LockInv
  <2> QED
    BY <2>3, <2>4
<1>9. CASE SaveMode \/ CacheMode
  BY <1>9 DEF SaveMode, CacheMode
<1>10. ASSUME NEW c \in Commanded, NEW enable \in {0, 1}, SetheatEnable(c, enable)
       PROVE  Goal
  <2>1. \A d \in Working : pin'[d] = IF d = c THEN enable ELSE pin[d]
    BY <1>10, SetPinWorks DEF SetheatEnable
  <2>2. \A d \in Channels : m_TemCtrlFlag'[d] = IF d = c THEN enable ELSE m_TemCtrlFlag[d]
    BY <1>10 DEF SetheatEnable, TypeOK
  <2>3. \A d \in Channels : seen'[d] = IF d = c THEN NoReading ELSE seen[d]
    BY <1>10 DEF SetheatEnable, TypeOK
  <2> QED
    BY <1>10, <2>1, <2>2, <2>3 DEF SetheatEnable
<1>11. CASE CheckBegin
  BY <1>11 DEF CheckBegin
<1>12. ASSUME NEW c \in Channels, CheckChannel(c) PROVE Goal
  <2>1. temp[c] \in Temps /\ lock = "thread" /\ m_AutoTemperatureMode = HEAT_AUTO
        /\ phase \notin {"down", "boot"}
    BY <1>12 DEF CheckChannel, LockInv, TypeOK
  <2>2. c \in Working => m_TemCtrlFlag[c] = pin[c]
    BY <2>1
  <2>3. /\ \A d \in Channels : d # c =>
             m_TemCtrlFlag'[d] = m_TemCtrlFlag[d] /\ pin'[d] = pin[d]
        /\ c \in Working => m_TemCtrlFlag'[c] = pin'[c]
        /\ c \in Working /\ pin'[c] = 1 =>
                          /\ temp[c] <= Rated
                          /\ \/ temp[c] <= m_autoTemCtrlCfg.max
                             \/ temp[c] < m_autoTemCtrlCfg.min
    BY <1>12, <2>1, <2>2, DealEffect DEF CheckChannel
  <2>4. \A d \in Channels : seen'[d] = IF d = c THEN temp[c] ELSE seen[d]
    BY <1>12 DEF CheckChannel, TypeOK
  <2>5. UNCHANGED <<phase, m_AutoTemperatureMode, m_autoTemCtrlCfg>> /\ lock' # "api"
    BY <1>12, <2>1 DEF CheckChannel, NextChannel
  <2>6. PinInv'
    BY <2>1, <2>3, <2>5
  <2>7. OffInv'
    BY <2>1, <2>5
  <2>8. WindowInv'
    BY <2>1, <2>3, <2>4, <2>5
  <2> QED
    BY <2>6, <2>7, <2>8
<1>13. ASSUME NEW c \in Channels, CheckUnread(c) PROVE Goal
  BY <1>13 DEF CheckUnread, NextChannel, LockInv
<1>14. ASSUME NEW c \in Channels, NEW t \in Temps, Weather(c, t) PROVE Goal
  BY <1>14 DEF Weather
<1>15. CASE UNCHANGED vars
  BY <1>15 DEF vars
<1> QED
  BY <1>1, <1>2, <1>3, <1>4, <1>5, <1>6, <1>7, <1>8, <1>9, <1>10, <1>11, <1>12,
     <1>13, <1>14, <1>15
     DEF Next, Boot, ApiStep, Check

LEMMA Inductive == Spec => [](TypeOK /\ LockInv /\ PinInv /\ OffInv /\ WindowInv /\ ModeInv)
BY InitAll, TypeStep, LockStep, PinStep, PTL DEF Spec

\* Type correctness.
THEOREM TypeCorrect == Spec => []TypeOK
BY Inductive, PTL

\* With pins that work, the flags deal_temctrl() decides by are the pins.
THEOREM FlagsCorrect == Spec => []FlagsMatchPins
<1>1. TypeOK /\ PinInv => FlagsMatchPins
  BY DEF TypeOK, PinInv, FlagsMatchPins, Settled, Running, Channels, Working, Untouched
<1> QED
  BY <1>1, Inductive, PTL

\* No heater is on outside the automatic mode: LGC_SYS_SetheatMode() and the
\* temperature thread exclude each other.
THEOREM OffCorrect == Spec => []OffOutsideAuto
<1>1. PinInv /\ OffInv => OffOutsideAuto
  BY DEF PinInv, OffInv, OffOutsideAuto, Settled, Running, Channels, Working, Untouched
<1> QED
  BY <1>1, Inductive, PTL

\* A heater that is on was last seen within its window and below the rated
\* temperature, for every window, inverted ones included.
THEOREM WindowCorrect == Spec => []HeaterOnWithinWindow
<1>1. WindowInv => HeaterOnWithinWindow
  BY DEF WindowInv, HeaterOnWithinWindow, Settled, Running
<1> QED
  BY <1>1, Inductive, PTL

\* Through any crash and any failing store, CExtctrl's mode is between calls the
\* saved one unless the store of the last mode set has failed, and the SDK runs it
\* or the automatic mode.
THEOREM ModesCorrect == Spec => []ModesAgree
<1>1. ModeInv => ModesAgree
  BY DEF ModeInv, ModesAgree
<1> QED
  BY <1>1, Inductive, PTL

\* The middle temperature lies within a window that is not inverted.
LEMMA MidWithin ==
  ASSUME NEW window \in [min : Int, max : Int], window.min <= window.max
  PROVE  Mid(window) \in Int /\ Mid(window) >= window.min
BY DEF Mid, Third

LEMMA SwitchStep == ASSUME TypeOK, LockInv, [Next]_vars PROVE SwitchesApart
<1> SUFFICES ASSUME m_autoTemCtrlCfg.min <= m_autoTemCtrlCfg.max, NEW c \in Channels \ Commanded
             PROVE  /\ pin[c] = 0 /\ pin'[c] = 1 =>
                         /\ lock = "thread" /\ m_AutoTemperatureMode = HEAT_AUTO
                         /\ temp[c] < m_autoTemCtrlCfg.min /\ temp[c] <= Rated
                    /\ pin[c] = 1 /\ pin'[c] = 0 /\ lock = "thread" /\ phase' = phase =>
                         temp[c] >= m_autoTemCtrlCfg.min \/ temp[c] > Rated
  BY DEF SwitchesApart
<1>t. /\ pin \in [Channels -> {0, 1}] /\ m_autoTemCtrlCfg \in [min : Int, max : Int]
      /\ temp[c] \in Int /\ m_TemCtrlFlag \in [Channels -> {0, 1}]
  BY HeaterAssumption DEF TypeOK
<1>1. ASSUME NEW d \in Channels, CheckChannel(d)
      PROVE  /\ pin[c] = 0 /\ pin'[c] = 1 =>
                  /\ lock = "thread" /\ m_AutoTemperatureMode = HEAT_AUTO
                  /\ temp[c] < m_autoTemCtrlCfg.min /\ temp[c] <= Rated
             /\ pin[c] = 1 /\ pin'[c] = 0 => temp[c] >= m_autoTemCtrlCfg.min \/ temp[c] > Rated
  <2>1. lock = "thread" /\ m_AutoTemperatureMode = HEAT_AUTO /\ deal_temctrl(d, temp[d])
    BY <1>1 DEF CheckChannel, LockInv, Channels
  <2>2. CASE SwitchOff(d, temp[d]) /\ SetPin(d, 0)
    <3>1. \/ pin'[c] = pin[c]
          \/ c = d /\ pin'[c] = 0
      BY <1>t, <2>2 DEF SetPin
    <3>2. c = d => temp[c] > Rated \/ temp[c] >= m_autoTemCtrlCfg.min
      BY <1>t, <2>2, MidWithin DEF SwitchOff
    <3> QED BY <3>1, <3>2
  <2>3. CASE SwitchOn(d, temp[d]) /\ SetPin(d, 1)
    <3>1. \/ pin'[c] = pin[c]
          \/ c = d /\ pin'[c] = 1
      BY <1>t, <2>3 DEF SetPin
    <3> QED BY <2>1, <2>3, <3>1 DEF SwitchOn
  <2>4. CASE UNCHANGED pin  BY <2>4
  <2> QED BY <2>1, <2>2, <2>3, <2>4 DEF deal_temctrl
<1>2. ASSUME NEW d \in Channels, SetPin(d, 0), lock # "thread" \/ phase' # phase
      PROVE  ~(pin[c] = 0 /\ pin'[c] = 1)
  BY <1>t, <1>2 DEF SetPin
<1>3. CASE BootPin1 \/ BootPin2
  <2>1. phase' # phase  BY <1>3 DEF BootPin1, BootPin2
  <2>2. SetPin(1, 0) \/ SetPin(2, 0)  BY <1>3 DEF BootPin1, BootPin2
  <2> QED BY <1>2, <2>1, <2>2 DEF Channels
<1>4. CASE SetheatModePin1 \/ SetheatModePin2
  <2>1. lock # "thread"
    BY <1>4 DEF SetheatModePin1, SetheatModePin2, LockInv
  <2>2. SetPin(1, 0) \/ SetPin(2, 0)  BY <1>4 DEF SetheatModePin1, SetheatModePin2
  <2> QED BY <1>2, <2>1, <2>2 DEF Channels
<1>5. ASSUME NEW d \in Commanded, NEW e \in {0, 1}, SetheatEnable(d, e)
      PROVE  pin'[c] = pin[c]
  BY <1>t, <1>5, HeaterAssumption DEF SetheatEnable, SetPin, HeaterAssumption
<1>6. CASE UNCHANGED pin  BY <1>6
<1> QED
  BY <1>1, <1>3, <1>4, <1>5, <1>6 DEF Next, Boot, ApiStep, Check, Construct, LoadWindow,
     LoadMode, Crash, SaveMode, CacheMode, SetTemperatureMode, CheckBegin, CheckUnread, Weather,
     vars

\* The temperature thread never switches a heater on and off at one temperature
\* (Hysteresis: deal_temctrl() with the middle temperature as C divides it), for
\* any window that is not inverted, and neither does anything else switch one on
\* that the application does not command.
THEOREM HysteresisCorrect == Spec => Hysteresis
<1>1. TypeOK /\ LockInv /\ [Next]_vars => [SwitchesApart]_vars  BY SwitchStep
<1> QED BY <1>1, Inductive, PTL DEF Spec, Hysteresis

-----------------------------------------------------------------------------
(* What the uninitialised m_TemperMode costs                               *)

\* Until the saved mode is loaded, CExtctrl has the value the memory held.
ForceInv ==
  /\ phase \in {"load", "mode"} => m_TemperMode \in Garbage
  /\ ModeInForce

\* Were that value never a mode, the saved mode would always reach the SDK: then
\* between calls the mode CExtctrl answers is the one in force, whatever the file
\* held and whenever the process was started again.  (CExtctrl.cpp:267 skips the
\* call because of it.)
THEOREM ForceCorrect ==
  ASSUME Garbage \cap Modes = {}
  PROVE  Spec => []ModeInForce
<1>1. Init => ForceInv
  BY DEF Init, ForceInv, ModeInForce
<1>2. TypeOK /\ LockInv /\ ModeInv /\ ForceInv /\ [Next]_vars => ForceInv'
  <2> SUFFICES ASSUME TypeOK, LockInv, ModeInv, ForceInv, [Next]_vars PROVE ForceInv'
    OBVIOUS
  <2> USE DEF ForceInv, ModeInForce, sysVars, saveVars, threadVars
  <2>1. CASE BootPin1 \/ BootPin2 \/ LoadWindow \/ Crash
    BY <2>1 DEF BootPin1, BootPin2, LoadWindow, Crash
  <2>2. CASE Construct
    BY <2>2 DEF Construct
  <2>3. CASE LoadMode
    <3>1. file.mode # m_TemperMode
      BY <2>3 DEF LoadMode, TypeOK
    <3> QED BY <2>3, <3>1 DEF LoadMode, Begin
  <2>4. ASSUME NEW mode \in Modes, SetTemperatureMode(mode) PROVE ForceInv'
    BY <2>4 DEF SetTemperatureMode, Begin
  <2>5. CASE SetheatModePin1 \/ SetheatModePin2 \/ SaveMode
    BY <2>5 DEF SetheatModePin1, SetheatModePin2, SaveMode, TypeOK, LockInv
  <2>6. CASE CacheMode
    BY <2>6 DEF CacheMode, ModeInv, LockInv
  <2>7. ASSUME NEW c \in Commanded, NEW enable \in {0, 1}, SetheatEnable(c, enable)
        PROVE  ForceInv'
    BY <2>7 DEF SetheatEnable
  <2>8. CASE CheckBegin
    BY <2>8 DEF CheckBegin
  <2>9. ASSUME NEW c \in Channels, CheckChannel(c) \/ CheckUnread(c) PROVE ForceInv'
    BY <2>9 DEF CheckChannel, CheckUnread, NextChannel
  <2>10. ASSUME NEW c \in Channels, NEW t \in Temps, Weather(c, t) PROVE ForceInv'
    BY <2>10 DEF Weather
  <2>11. CASE UNCHANGED vars
    BY <2>11 DEF vars
  <2> QED
    BY <2>1, <2>2, <2>3, <2>4, <2>5, <2>6, <2>7, <2>8, <2>9, <2>10, <2>11
       DEF Next, Boot, ApiStep, Check
<1>3. ForceInv => ModeInForce
  BY DEF ForceInv
<1> QED
  BY <1>1, <1>2, <1>3, Inductive, PTL DEF Spec

\* And then off would be off: the uninitialised member is all that
\* heater_off_is_off finds.
THEOREM OffIsOffIfSet ==
  ASSUME Garbage \cap Modes = {}
  PROVE  Spec => []HeatOffIsOff
<1>1. OffOutsideAuto /\ ModeInForce => HeatOffIsOff
  BY DEF OffOutsideAuto, ModeInForce, HeatOffIsOff, HEAT_OFF, HEAT_AUTO
<1>2. Spec => []ModeInForce
  BY ForceCorrect
<1> QED
  BY <1>1, <1>2, OffCorrect, PTL

=============================================================================
