---------------------------- MODULE HardwareTimer ----------------------------
(***************************************************************************)
(* Timergroup/main.c: timer 0 counts up to its alarm, starts again from 0  *)
(* and raises an interrupt, which disables the alarm; timer_group0_isr     *)
(* clears the interrupt, enables the alarm and puts out the lowest bit of  *)
(* a counter.  Time is in tenths of a millisecond.                         *)
(***************************************************************************)
EXTENDS Integers

CONSTANTS Alarm,     \* TIMER_INTERVAL0_SEC * TIMER_SCALE: 100 tenths
          Latency,   \* tenths an interrupt may have to wait
          INT_MAX    \* of cnt, 2^31 - 1 in the code

ConstantsAssumption ==
  /\ {Alarm, Latency} \subseteq Nat /\ Latency < Alarm
  /\ INT_MAX \in Nat

VARIABLES counter, alarm_en, raised,   \* of the timer
          waiting,                     \* tenths the interrupt has waited
          cnt, level,
          width                        \* tenths since the handler last ran

vars == <<counter, alarm_en, raised, waiting, cnt, level, width>>

(* tg0_timer0_init; the pin is low after a reset. *)
Init ==
  /\ counter = 0 /\ alarm_en = TRUE /\ raised = FALSE /\ waiting = 0
  /\ cnt = 0 /\ level = 0 /\ width = 0

Count ==
  /\ raised => waiting < Latency
  /\ waiting' = IF raised THEN waiting + 1 ELSE 0
  /\ width' = IF width <= 2 * Alarm THEN width + 1 ELSE width
  /\ IF alarm_en /\ counter + 1 >= Alarm
       THEN counter' = 0 /\ raised' = TRUE /\ alarm_en' = FALSE
       ELSE /\ counter' = IF counter <= 2 * Alarm THEN counter + 1 ELSE counter
            /\ UNCHANGED <<raised, alarm_en>>
  /\ UNCHANGED <<cnt, level>>

(* cnt%2 has the sign of cnt, and gpio_set_level takes what is not 0 for high. *)
Remainder == IF cnt < 0 THEN -((-cnt) % 2) ELSE cnt % 2
Level == IF Remainder # 0 THEN 1 ELSE 0

Incremented == IF cnt < INT_MAX THEN cnt + 1 ELSE (-INT_MAX) - 1

OneShot == alarm_en
Rearmed == TRUE

timer_group0_isr ==
  /\ raised /\ raised' = FALSE
  /\ alarm_en' = Rearmed
  /\ level' = Level /\ cnt' = Incremented
  /\ waiting' = 0 /\ width' = 0
  /\ UNCHANGED counter

Next == Count \/ timer_group0_isr
Spec == Init /\ [][Next]_vars

-----------------------------------------------------------------------------
(***************************************************************************)
(* The wave has no gap: the handler runs every 10 ms, give or take what an *)
(* interrupt waits, and each time but the first it changes the pin, also   *)
(* when cnt has run over and its remainders are negative.                  *)
(***************************************************************************)
SquareWave ==
  [][/\ width <= Alarm + Latency
     /\ timer_group0_isr => width >= Alarm - Latency /\ (level' # level \/ cnt = 0)]_vars

-----------------------------------------------------------------------------
TypeOK ==
  /\ counter \in Nat /\ waiting \in Nat /\ width \in Nat
  /\ cnt \in ((-INT_MAX) - 1)..INT_MAX /\ level \in 0..1

(* The alarm is on unless its interrupt is waiting, and the counter does not stop for the handler. *)
CounterRuns ==
  /\ alarm_en <=> ~raised
  /\ ~raised => counter < Alarm /\ width <= counter /\ counter <= width + Latency
  /\ raised =>
       /\ counter = waiting /\ waiting <= Latency
       /\ Alarm + waiting <= width + Latency /\ width <= Alarm + waiting

LevelOfLast == cnt # 0 => level = 1 - (cnt % 2)

(* Inductive. *)
WaveInv == TypeOK /\ CounterRuns /\ LevelOfLast
=============================================================================
