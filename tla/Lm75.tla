-------------------------------- MODULE Lm75 --------------------------------
(***************************************************************************)
(* LM75_Mid/main.c: the sensor is woken, read once after 100 ms, and shut  *)
(* down; then app_main returns.  The ESP32 may be reset at any moment: the *)
(* sensor keeps its mode and the last temperature it converted.            *)
(* Temperatures are in eighths of a degree, as the sensor sends them.      *)
(***************************************************************************)
EXTENDS Integers

CONSTANTS Temperatures,  \* bound: what the sensor may measure
          Garbage,       \* made of bytes nobody wrote
          Delay,         \* ticks app_main waits: 10
          Conversion, Period   \* ticks until the first conversion, and between conversions: 1, 10

ConstantsAssumption ==
  /\ Temperatures \subseteq -1024 .. 1023 /\ Temperatures # {} /\ Garbage \notin Int
  /\ {Delay, Conversion, Period} \subseteq Nat /\ Conversion < Delay /\ Conversion <= Period

MODE_NORMAL   == 0
MODE_SHUTDOWN == 1

VARIABLES mode, register, due,  \* of the sensor; ticks to its next conversion
          age,             \* ticks since the register was written, at most Period + 1
          pc, left,        \* what app_main is about to call; ticks it still waits
          failed,          \* the calls whose transfer failed since the reset
          printed, held    \* the temperature printed, and the one then in the register

vars == <<mode, register, due, age, pc, left, failed, printed, held>>

Init ==
  /\ mode \in {MODE_NORMAL, MODE_SHUTDOWN} /\ register \in Temperatures
  /\ due = Conversion /\ age = IF mode = MODE_NORMAL THEN 0 ELSE Period + 1
  /\ pc = "wake" /\ left = 0 /\ failed = {} /\ printed = Garbage /\ held = Garbage

Convert ==
  /\ mode = MODE_NORMAL /\ due = 0
  /\ register' \in Temperatures /\ age' = 0 /\ due' = Period
  /\ UNCHANGED <<mode, pc, left, failed, printed, held>>

(* Time passes while app_main waits, and after it has returned. *)
Tick ==
  /\ (pc = "delay" /\ left > 0) \/ pc = "returned"
  /\ mode = MODE_NORMAL => due > 0
  /\ due' = IF mode = MODE_NORMAL THEN due - 1 ELSE due
  /\ age' = IF age <= Period THEN age + 1 ELSE age
  /\ left' = IF pc = "delay" THEN left - 1 ELSE left
  /\ UNCHANGED <<mode, register, pc, failed, printed, held>>

setMode(m, call, next) ==
  /\ pc = call /\ pc' = next
  /\ \/ /\ mode' = m /\ UNCHANGED failed
        /\ due' = IF m = MODE_NORMAL /\ mode = MODE_SHUTDOWN THEN Conversion ELSE due
     \/ failed' = failed \cup {call} /\ UNCHANGED <<mode, due>>
  /\ UNCHANGED <<register, age, printed, held>>

InSeconds  == left' = 0          \* 100 / 1000
vTaskDelay == left' = Delay

Wake      == setMode(MODE_NORMAL, "wake", "delay") /\ vTaskDelay
Shutdown  == setMode(MODE_SHUTDOWN, "shutdown", "returned") /\ UNCHANGED left
DelayOver ==
  /\ pc = "delay" /\ left = 0 /\ pc' = "getTemp"
  /\ UNCHANGED <<mode, register, due, age, left, failed, printed, held>>

(***************************************************************************)
(* Eleven bits in two's complement, in the upper part of two bytes.  The   *)
(* code clears the sign bit and takes the rest for a magnitude.            *)
(***************************************************************************)
AsSent(t) == (t % 2048) * 32
Temperature(raw) ==
  LET data == (raw % 32768) \div 32 IN IF raw >= 32768 THEN -data ELSE data

getTemp ==
  /\ pc = "getTemp" /\ pc' = "shutdown"
  /\ held' = register
  /\ \/ printed' = Temperature(AsSent(register)) /\ UNCHANGED failed
     \/ printed' = Garbage /\ failed' = failed \cup {"getTemp"}
  /\ UNCHANGED <<mode, register, due, age, left>>

app_main == Wake \/ DelayOver \/ getTemp \/ Shutdown

Reset ==
  /\ pc' = "wake" /\ left' = 0 /\ failed' = {} /\ printed' = Garbage /\ held' = Garbage
  /\ UNCHANGED <<mode, register, due, age>>

Next == Convert \/ Tick \/ app_main \/ Reset
Spec == Init /\ [][Next]_vars

-----------------------------------------------------------------------------
(***************************************************************************)
(* If the sensor acknowledged the change to its normal mode, what is       *)
(* printed is the temperature of the last 100 ms, although the sensor may  *)
(* have been shut down for long and kept an old one.  From 0 degrees up    *)
(* the number is the one the sensor sent; below, where the code takes      *)
(* two's complement for a magnitude, the two add up to -128 degrees.       *)
(***************************************************************************)
AsPrinted == IF held >= 0 THEN printed = held ELSE printed + held = -128 * 8
FreshTemperature ==
  pc = "shutdown" /\ "wake" \notin failed => age <= Period /\ ("getTemp" \in failed \/ AsPrinted)

(***************************************************************************)
(* Why: a sensor in its normal mode holds a temperature no older than the  *)
(* next conversion is far, or waits for the first one, which is due before *)
(* app_main stops waiting.                                                 *)
(***************************************************************************)
TypeOK ==
  /\ mode \in {MODE_NORMAL, MODE_SHUTDOWN} /\ register \in Temperatures
  /\ due \in 0..Period /\ age \in 0..(Period + 1)
  /\ pc \in {"wake", "delay", "getTemp", "shutdown", "returned"} /\ left \in 0..Delay
  /\ failed \subseteq {"wake", "getTemp", "shutdown"}

Fresh == age + due <= Period
First == due <= Conversion /\ (pc = "delay" => due + Delay <= Conversion + left)
Awake == mode = MODE_NORMAL => Fresh \/ First

ReadInTime ==
  /\ pc = "delay" /\ "wake" \notin failed => mode = MODE_NORMAL
  /\ pc \in {"getTemp", "shutdown"} /\ "wake" \notin failed => age <= Period
  /\ pc = "shutdown" => "getTemp" \in failed \/ AsPrinted

LmInv == TypeOK /\ Awake /\ ReadInTime
=============================================================================
