------------------------------ MODULE Mpu6050 -------------------------------
(***************************************************************************)
(* i2c_PCA_MPU6050.c: loop_task selects channel 1 of the multiplexer,      *)
(* wakes the MPU6050 behind it and then reads its name, temperature,       *)
(* acceleration and rotation for ever.  No result of a transfer has any    *)
(* effect, and each of the four reads creates two command links and        *)
(* deletes one of them.                                                    *)
(*                                                                         *)
(* Of the three axes, which are read alike, the model keeps one.           *)
(***************************************************************************)
EXTENDS Integers

CONSTANTS Links,       \* command links the heap has room for
          Readings,    \* bound: what a sixteen-bit register of the sensor may hold
          Garbage,     \* made of bytes nobody wrote
          MaxFaults    \* bound: faults of the bus and of the supply

ConstantsAssumption ==
  /\ Links \in Nat /\ MaxFaults \in Nat
  /\ Readings \subseteq Int /\ \A r \in Readings : -32768 <= r /\ r < 32768
  /\ Garbage \notin Int

PCA9548_CH1 == 1
MPU_NAME    == 104     \* what the register WHO_AM_I holds

VARIABLES channel,   \* the multiplexer: the channel selected, 0 if none
          awake,     \* the sensor: out of its sleep mode
          heap,      \* command links that can still be created
          pc,        \* the function loop_task is about to call
          printed,   \* what was read last, what the sensor held, and what was printed
          turns,     \* turns of the loop since the last reset
          faults,    \* bound
          sound      \* no fault since the last reset

vars == <<channel, awake, heap, pc, printed, turns, faults, sound>>

Nothing == [what |-> "none", held |-> 0, shown |-> 0]
Held(what) == IF what = "whoAMI" THEN {MPU_NAME} ELSE Readings

Init ==
  /\ channel \in 0..2 /\ awake \in BOOLEAN   \* a reset of the ESP32 leaves both as they are
  /\ heap = Links /\ pc = "select" /\ printed = Nothing /\ turns = 0
  /\ faults = 0 /\ sound = TRUE

Fault == faults < MaxFaults /\ faults' = faults + 1 /\ sound' = FALSE
NoFault == UNCHANGED <<faults, sound>>

-----------------------------------------------------------------------------
(* One link, created and deleted: the heap is as before. *)
selectI2CChannel ==
  /\ pc = "select" /\ pc' = "init"
  /\ \/ heap > 0 /\ NoFault /\ channel' = PCA9548_CH1
     \/ heap > 0 /\ Fault /\ UNCHANGED channel
     \/ heap = 0 /\ NoFault /\ UNCHANGED channel
  /\ UNCHANGED <<awake, heap, printed, turns>>

initMPU6050 ==
  /\ pc = "init" /\ pc' = "whoAMI"
  /\ \/ heap > 0 /\ channel = PCA9548_CH1 /\ NoFault /\ awake' = TRUE
     \/ heap > 0 /\ channel = PCA9548_CH1 /\ Fault /\ UNCHANGED awake
     \/ ~(heap > 0 /\ channel = PCA9548_CH1) /\ NoFault /\ UNCHANGED awake
  /\ UNCHANGED <<channel, heap, printed, turns>>

(***************************************************************************)
(* The first of the two links is never deleted; without memory for the     *)
(* second, the transfer is not made.                                       *)
(***************************************************************************)
BothLeaked == IF heap > 1 THEN heap - 2 ELSE 0
AfterRead  == IF heap > 0 THEN heap - 1 ELSE 0
Answers    == heap > 1 /\ channel = PCA9548_CH1

(* TempRaw/340 is an integer division, and TempDeg an int16_t. *)
Truncated(n, d)  == IF n < 0 THEN -((-n) \div d) ELSE n \div d
SumDivided(raw)  == Truncated(100 * raw, 37653)
TempDeg(raw)     == Truncated(100 * Truncated(raw, 340) + 3653, 100)

(* The two bytes as the bus carries them, put together in an int16_t. *)
Byte(raw)    == [H |-> (raw % 65536) \div 256, L |-> raw % 256]
Assembled(b) == LET word == b.H * 256 + b.L IN IF word < 32768 THEN word ELSE word - 65536

Shown(what, raw) ==
  CASE what = "whoAMI"  -> raw
    [] what = "getTemp" -> TempDeg(Assembled(Byte(raw)))
    [] OTHER            -> Assembled(Byte(raw))

(* Asleep, the sensor holds zeros and its name. *)
Transferred(what, held) ==
  Shown(what, IF awake \/ what = "whoAMI" THEN held ELSE 0)

Read(what, next) ==
  /\ pc = what /\ pc' = next
  /\ heap' = AfterRead
  /\ \E held \in Held(what) :
       \/ /\ Answers /\ NoFault
          /\ printed' = [what |-> what, held |-> held, shown |-> Transferred(what, held)]
       \/ /\ IF Answers THEN Fault ELSE NoFault
          /\ printed' = [what |-> what, held |-> held, shown |-> Garbage]
  /\ UNCHANGED <<channel, awake, turns>>

vTaskDelay ==
  /\ pc = "delay" /\ pc' = "whoAMI"
  /\ turns' = IF turns <= Links THEN turns + 1 ELSE turns
  /\ UNCHANGED <<channel, awake, heap, printed, faults, sound>>

loop_task ==
  \/ selectI2CChannel \/ initMPU6050 \/ vTaskDelay
  \/ Read("whoAMI", "getTemp") \/ Read("getTemp", "getRawAcc")
  \/ Read("getRawAcc", "getRawGyro") \/ Read("getRawGyro", "delay")

-----------------------------------------------------------------------------
(* The supply of the sensor and the multiplexer drops. *)
Brownout ==
  /\ Fault /\ channel' = 0 /\ awake' = FALSE
  /\ UNCHANGED <<heap, pc, printed, turns>>

Reset ==
  /\ heap' = Links /\ pc' = "select" /\ printed' = Nothing /\ turns' = 0 /\ sound' = TRUE
  /\ UNCHANGED <<channel, awake, faults>>

Next == loop_task \/ Brownout \/ Reset
Spec == Init /\ [][Next]_vars

-----------------------------------------------------------------------------
(* The heap has room for the four links that each turn so far has cost. *)
HeapLasts == 4 * (turns + 1) < Links

(* 34000 times the difference of the temperature printed and the one of the data sheet. *)
TempError == 34000 * printed.shown - (100 * printed.held + 1242020)

(***************************************************************************)
(* What was printed is what the sensor held, sign included; a temperature, *)
(* which is rounded twice, differs from raw/340 + 36.53 by less than 1.53. *)
(***************************************************************************)
Exact ==
  IF printed.what = "getTemp"
    THEN printed.shown # Garbage /\ -52020 < TempError /\ TempError < 52020
    ELSE printed.shown = printed.held

(***************************************************************************)
(* As long as the heap lasts and nothing has failed since the reset, what  *)
(* is printed is what the sensor held: whatever channel the multiplexer    *)
(* and whatever mode the sensor was left in by an earlier run, and however *)
(* many faults there were in it.                                           *)
(***************************************************************************)
PrintedAsHeld == sound /\ HeapLasts => Exact

(***************************************************************************)
(* Why: a turn leaks four links, one with each read, and without a fault   *)
(* the two calls before the loop select the channel and wake the sensor.   *)
(***************************************************************************)
Reads == [select |-> 0, init |-> 0, whoAMI |-> 0, getTemp |-> 1, getRawAcc |-> 2,
          getRawGyro |-> 3, delay |-> 4]

TypeOK ==
  /\ channel \in 0..2 /\ awake \in BOOLEAN /\ sound \in BOOLEAN
  /\ heap \in 0..Links /\ turns \in 0..(Links + 1) /\ faults \in 0..MaxFaults
  /\ pc \in DOMAIN Reads

LeakBounded == Links <= heap + 4 * turns + Reads[pc]
SetUp ==
  sound /\ HeapLasts =>
    /\ pc # "select" => channel = PCA9548_CH1
    /\ pc \notin {"select", "init"} => awake

MpuInv == TypeOK /\ LeakBounded /\ SetUp /\ PrintedAsHeld

(***************************************************************************)
(* The functions "read acceleration, temperature and name" of the sensor,  *)
(* says the head of the file, whenever bus and sensor are in order.  They  *)
(* do not once their links have used up the heap.                          *)
(***************************************************************************)
FunctionsRead == sound => Exact
=============================================================================
