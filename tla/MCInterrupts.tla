---------------------------- MODULE MCInterrupts -----------------------------
(***************************************************************************)
(* The programs with an interrupt of their own in one run: a behaviour is  *)
(* one of Semaforo_Contador1 (IsrCounting), of Semaforo_Test1 (Binary) or  *)
(* of Timergroup (Wave), which share nothing.                              *)
(***************************************************************************)
EXTENDS IsrCounting

CONSTANTS Patience, BinarySleep,        \* of IsrBinary
          Alarm, Latency, INT_MAX       \* of HardwareTimer

VARIABLES program,
          SMF, pc, bleft, ticked, age, quiet,
          counter, alarm_en, raised, waiting, cnt, level, width

Binary == INSTANCE IsrBinary WITH Sleep <- BinarySleep, left <- bleft
Wave   == INSTANCE HardwareTimer

binary == <<SMF, pc, bleft, ticked, age, quiet>>
wave   == <<counter, alarm_en, raised, waiting, cnt, level, width>>

ASSUME BinaryAssumption == Binary!TicksAssumption
ASSUME WaveAssumption == Wave!ConstantsAssumption

AnyInit == program \in {"counting", "binary", "wave"} /\ Init /\ Binary!Init /\ Wave!Init
AnyNext ==
  \/ program = "counting" /\ Next /\ UNCHANGED <<program, binary, wave>>
  \/ program = "binary" /\ Binary!Next /\ UNCHANGED <<program, vars, wave>>
  \/ program = "wave" /\ Wave!Next /\ UNCHANGED <<program, vars, binary>>

AnySpec == AnyInit /\ [][AnyNext]_<<program, vars, binary, wave>>

(* Semaforo_Test1 answers a press when its sleep is over, at the latest. *)
AnsweredInTime == Binary!AnsweredInTime

(* Semaforo_Test1 reports a timeout only when nobody pressed the button. *)
TimeoutOnlyIfQuiet == Binary!TimeoutOnlyIfQuiet

(* The wave of Timergroup has no gap, also when its counter runs over. *)
SquareWave == Wave!SquareWave
=============================================================================
