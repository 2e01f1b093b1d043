--------------------------- MODULE InterruptsProofs --------------------------
(***************************************************************************)
(* Proofs about the programs of MCInterrupts: IsrCounting, for any limit,  *)
(* any sleep and any burst that the limit has room for, IsrBinary, for any *)
(* delays, and HardwareTimer, for any alarm, any latency below it and any  *)
(* width of cnt.                                                           *)
(***************************************************************************)
EXTENDS MCInterrupts, Integers, TLAPS

-----------------------------------------------------------------------------
(* Semaforo_Contador1 *)

LEMMA Cancel ==
  ASSUME NEW s \in Nat \ {0}, NEW a \in Nat, NEW b \in Nat, s * a <= s * b
  PROVE  a <= b
<1>1. a > b => s * a > s * b
  <2> SUFFICES ASSUME a > b PROVE s * a > s * b
    OBVIOUS
  <2>1. PICK d \in Nat \ {0} : a = b + d
    <3>1. a - b \in Nat \ {0} /\ a = b + (a - b)
      OBVIOUS
    <3> QED
      BY <3>1
  <2>2. s * a = s * b + s * d /\ s * d > 0 /\ s * b \in Nat
    BY <2>1
  <2> QED
    BY <2>2
<1>2. s * a \in Nat /\ s * b \in Nat
  OBVIOUS
<1> QED
  BY <1>1, <1>2

(* Whoever can pay for a press finds room for its four gives. *)
LEMMA RoomForPress ==
  ASSUME WithinBudget, credit >= Price
  PROVE  count + 4 <= Limit
<1> USE ConstantsAssumption
<1>1. count \in Nat /\ left \in Nat /\ credit \in Nat
  BY DEF WithinBudget
<1>2. Price = Sleep * 4 /\ Price * MaxBurst = Sleep * (4 * MaxBurst)
  BY DEF Price
<1>3. Sleep * (count + 4) = Sleep * count + Sleep * 4 /\ Sleep * count \in Nat
  BY <1>1
<1>4. Sleep * (count + 4) <= Sleep * (4 * MaxBurst)
  <2>1. Sleep * (4 * MaxBurst) \in Nat /\ Sleep * 4 \in Nat
    OBVIOUS
  <2>2. Sleep * count + left + credit <= Sleep * (4 * MaxBurst) /\ credit >= Sleep * 4
    BY <1>2 DEF WithinBudget
  <2> QED
    BY <1>1, <1>3, <2>1, <2>2
<1>5. count + 4 <= 4 * MaxBurst
  BY <1>1, <1>4, Cancel
<1> QED
  BY <1>1, <1>5

LEMMA PressGivesFour ==
  ASSUME WithinBudget, isr
  PROVE  count' = count + 4 /\ count' <= Limit
<1>1. count + 4 <= Limit /\ count \in Nat /\ Limit \in Nat
  BY RoomForPress, ConstantsAssumption DEF isr, WithinBudget
<1> QED
  BY <1>1 DEF isr, FourGives, Give

LEMMA Alternates ==
  ASSUME NEW n \in Nat
  PROVE  n % 2 = 1 - ((n + 1) % 2)
OBVIOUS

LEMMA OneMore ==
  ASSUME NEW s \in Nat, NEW n \in Nat
  PROVE  s * n \in Nat /\ s * (n + 1) = s * n + s
OBVIOUS

LEMMA Exchanged ==
  ASSUME NEW w \in Nat, NEW l \in Nat, NEW c \in Nat, NEW d \in Nat, NEW p \in Nat,
         NEW b \in Nat, w + l + c <= b, d + p = c
  PROVE  (w + p) + l + d <= b
OBVIOUS

(* The products are named, so that the steps are linear in work and budget. *)
LEMMA BudgetStep ==
  ASSUME NEW work \in Nat, NEW budget \in Nat,
         work = Sleep * count, budget = Price * MaxBurst,
         WithinBudget, [Next]_vars
  PROVE  WithinBudget'
<1>1. /\ count \in 0..Limit /\ left \in Nat /\ credit \in Nat /\ state = count % 2
      /\ work + left + credit <= budget
  BY DEF WithinBudget
<1>2. Sleep \in Nat /\ Price \in Nat /\ Limit \in Nat
  BY ConstantsAssumption DEF Price
<1>3. ASSUME NEW work2 \in Nat, work2 = Sleep * count',
             count' \in 0..Limit, left' \in Nat, credit' \in Nat, state' = count' % 2,
             work2 + left' + credit' <= budget
      PROVE  WithinBudget'
  BY <1>3 DEF WithinBudget, Price
<1>4. CASE isr
  <2>1. count' = count + 4 /\ count' \in 0..Limit
    BY <1>1, <1>2, <1>4, PressGivesFour
  <2>2. work + Price \in Nat /\ work + Price = Sleep * count'
    BY <1>1, <1>2, <2>1 DEF Price
  <2>3. credit' \in Nat /\ credit' + Price = credit /\ state' = state /\ left' = left
    BY <1>1, <1>2, <1>4 DEF isr
  <2>4. state' = count' % 2
    BY <1>1, <2>1, <2>3
  <2>5. (work + Price) + left' + credit' <= budget
    BY <1>1, <1>2, <2>3, Exchanged
  <2> QED
    BY <1>1, <1>3, <2>1, <2>2, <2>3, <2>4, <2>5
<1>5. CASE Tarea1
  <2>1. /\ left = 0 /\ count' \in Nat /\ count' \in 0..Limit /\ count = count' + 1
        /\ left' = Sleep /\ credit' = credit /\ state' = 1 - state
    BY <1>1, <1>2, <1>5 DEF Tarea1, vTaskDelay
  <2>2. Sleep * count' \in Nat /\ work = Sleep * count' + Sleep
    BY <1>2, <2>1, OneMore
  <2>3. state' = count' % 2
    BY <1>1, <2>1, Alternates
  <2>4. Sleep * count' + left' + credit' <= budget
    BY <1>1, <1>2, <2>1, <2>2
  <2> QED
    BY <1>1, <1>2, <1>3, <2>1, <2>2, <2>3, <2>4
<1>6. CASE Tick
  <2>1. /\ count' = count /\ state' = state
        /\ left' \in Nat /\ credit' \in Nat
    BY <1>1, <1>2, <1>6 DEF Tick
  <2>2. left > 0 => left' = left - 1 /\ credit' <= credit + 1
    BY <1>1, <1>6 DEF Tick
  <2>3. left = 0 => work = 0 /\ left' = 0
    BY <1>1, <1>2, <1>6 DEF Tick
  <2>4. left = 0 => credit' <= budget
    BY <1>1, <1>2, <1>6 DEF Tick
  <2>5. work + left' + credit' <= budget
    BY <1>1, <2>1, <2>2, <2>3, <2>4
  <2> QED
    BY <1>1, <1>3, <2>1, <2>5
<1>7. CASE UNCHANGED vars
  BY <1>7 DEF vars, WithinBudget, Price
<1> QED
  BY <1>4, <1>5, <1>6, <1>7 DEF Next

LEMMA BudgetInvariant == Spec => []WithinBudget
<1>1. Price \in Nat /\ Price * MaxBurst \in Nat
  BY ConstantsAssumption DEF Price
<1>2. Init => WithinBudget
  <2> SUFFICES ASSUME Init PROVE WithinBudget
    OBVIOUS
  <2>1. Sleep * count = 0
    BY ConstantsAssumption DEF Init
  <2> QED
    BY <1>1, <2>1, ConstantsAssumption DEF Init, WithinBudget
<1>3. WithinBudget /\ [Next]_vars => WithinBudget'
  <2> SUFFICES ASSUME WithinBudget, [Next]_vars PROVE WithinBudget'
    OBVIOUS
  <2>1. Sleep * count \in Nat
    BY ConstantsAssumption DEF WithinBudget
  <2> QED
    BY <1>1, <2>1, BudgetStep
<1> QED
  BY <1>2, <1>3, PTL DEF Spec

(* Within its budget of presses the button never has a give refused. *)
THEOREM GivesNeverLost == Spec => NoGiveLost
<1>1. WithinBudget /\ [Next]_vars => [isr => count' = count + 4]_vars
  BY PressGivesFour
<1> QED
  BY <1>1, BudgetInvariant, PTL DEF Spec, NoGiveLost

(* Within that budget the LED is off whenever all gives have been taken. *)
THEOREM LedAtRest == Spec => []LedOffAtRest
<1>1. WithinBudget => LedOffAtRest
  BY DEF WithinBudget, LedOffAtRest
<1> QED
  BY <1>1, BudgetInvariant, PTL

-----------------------------------------------------------------------------
(* Semaforo_Test1 *)

LEMMA BinaryInvariant == Binary!Spec => []Binary!BinaryInv
<1>0. Patience \in Nat \ {0} /\ BinarySleep \in Nat \ {0}
  BY BinaryAssumption DEF Binary!TicksAssumption
<1>1. Binary!Init => Binary!BinaryInv
  BY <1>0 DEF Binary!Init, Binary!BinaryInv, Binary!TypeOK, Binary!PressWaits, Binary!QuietSince
<1>2. Binary!BinaryInv /\ [Binary!Next]_Binary!vars => Binary!BinaryInv'
  <2> SUFFICES ASSUME Binary!BinaryInv, [Binary!Next]_Binary!vars PROVE Binary!BinaryInv'
    OBVIOUS
  <2> USE <1>0 DEF Binary!BinaryInv, Binary!TypeOK, Binary!PressWaits, Binary!QuietSince
  <2>1. CASE Binary!isr
    <3>1. /\ SMF' /\ quiet' = 0 /\ UNCHANGED <<pc, bleft, ticked>>
          /\ SMF => age' = age
          /\ ~SMF => age' = 0
      BY <2>1 DEF Binary!isr
    <3>2. CASE SMF
      BY <3>1, <3>2
    <3>3. CASE ~SMF
      BY <3>1, <3>3
    <3> QED
      BY <3>2, <3>3
  <2>2. CASE Binary!Taken
    BY <2>2 DEF Binary!Taken, Binary!Pulse
  <2>3. CASE Binary!Expired
    BY <2>3 DEF Binary!Expired, Binary!Pulse
  <2>4. CASE Binary!EndBurst
    BY <2>4 DEF Binary!EndBurst, Binary!vTaskDelay
  <2>5. CASE Binary!NextTurn
    BY <2>5 DEF Binary!NextTurn, Binary!TakeAgain
  <2>6. CASE Binary!Tick
    <3>1. UNCHANGED <<SMF, pc>> /\ age' = Binary!Capped(age) /\ quiet' = Binary!Capped(quiet)
      BY <2>6 DEF Binary!Tick
    <3>2. CASE pc = "take" /\ ~SMF /\ bleft > 0 /\ bleft' = bleft - 1
      BY <3>1, <3>2 DEF Binary!Capped
    <3>3. CASE pc = "burst" /\ ~ticked /\ bleft' = bleft /\ ticked'
      BY <3>1, <3>3 DEF Binary!Capped
    <3>4. CASE pc = "delay" /\ bleft > 0 /\ bleft' = bleft - 1
      BY <3>1, <3>4 DEF Binary!Capped
    <3> QED
      BY <2>6, <3>2, <3>3, <3>4 DEF Binary!Tick
  <2>7. CASE UNCHANGED Binary!vars
    BY <2>7 DEF Binary!vars
  <2> QED
    BY <2>1, <2>2, <2>3, <2>4, <2>5, <2>6, <2>7 DEF Binary!Next, Binary!tarea1
<1> QED
  BY <1>1, <1>2, PTL DEF Binary!Spec

(***************************************************************************)
(* A press never waits longer than the sleep of tarea1 and a tick, however *)
(* the button bounces.                                                     *)
(***************************************************************************)
THEOREM PressAnswered == Binary!Spec => []AnsweredInTime
<1>1. Binary!BinaryInv => AnsweredInTime
  BY BinaryAssumption
  DEF Binary!TicksAssumption, Binary!BinaryInv, Binary!TypeOK, Binary!PressWaits,
      AnsweredInTime, Binary!AnsweredInTime
<1> QED
  BY <1>1, BinaryInvariant, PTL

(* tarea1 reports a timeout only if no press came in its wait or in the sleep before it. *)
THEOREM TimeoutsAreQuiet == Binary!Spec => TimeoutOnlyIfQuiet
<1>1. Binary!BinaryInv => [Binary!Expired => quiet >= Patience + BinarySleep]_Binary!vars
  BY BinaryAssumption
  DEF Binary!TicksAssumption, Binary!BinaryInv, Binary!TypeOK, Binary!QuietSince, Binary!Expired
<1> QED
  BY <1>1, BinaryInvariant, PTL DEF TimeoutOnlyIfQuiet, Binary!TimeoutOnlyIfQuiet

-----------------------------------------------------------------------------
(* Timergroup *)

LEMMA Parity ==
  ASSUME NEW n \in Int
  PROVE  /\ n % 2 \in 0..1 /\ (-n) % 2 = n % 2
         /\ n % 2 = 1 - ((n + 1) % 2)
OBVIOUS

(* C's remainder is -1 for a negative odd number, which the pin takes for 1. *)
LEMMA LevelIsParity ==
  ASSUME cnt \in Int
  PROVE  Wave!Level = cnt % 2
BY Parity DEF Wave!Level, Wave!Remainder

LEMMA WaveInvariant == Wave!Spec => []Wave!WaveInv
<1>0. Alarm \in Nat /\ Latency \in Nat /\ Latency < Alarm /\ INT_MAX \in Nat
  BY WaveAssumption DEF Wave!ConstantsAssumption
<1>1. Wave!Init => Wave!WaveInv
  BY <1>0 DEF Wave!Init, Wave!WaveInv, Wave!TypeOK, Wave!CounterRuns, Wave!LevelOfLast
<1>2. Wave!WaveInv /\ [Wave!Next]_Wave!vars => Wave!WaveInv'
  <2> SUFFICES ASSUME Wave!WaveInv, [Wave!Next]_Wave!vars PROVE Wave!WaveInv'
    OBVIOUS
  <2>0. Wave!TypeOK /\ Wave!CounterRuns /\ Wave!LevelOfLast
    BY DEF Wave!WaveInv
  <2>1. CASE Wave!Count
    <3>1. Wave!TypeOK' /\ Wave!LevelOfLast'
      BY <1>0, <2>0, <2>1 DEF Wave!Count, Wave!TypeOK, Wave!LevelOfLast
    <3>2. CASE raised
      BY <1>0, <2>0, <2>1, <3>1, <3>2 DEF Wave!Count, Wave!TypeOK, Wave!CounterRuns, Wave!WaveInv
    <3>3. CASE ~raised
      BY <1>0, <2>0, <2>1, <3>1, <3>3 DEF Wave!Count, Wave!TypeOK, Wave!CounterRuns, Wave!WaveInv
    <3> QED
      BY <3>2, <3>3
  <2>2. CASE Wave!timer_group0_isr
    <3>1. cnt \in Int /\ level' = cnt % 2
      BY <1>0, <2>0, <2>2, LevelIsParity DEF Wave!timer_group0_isr, Wave!TypeOK
    <3>2. cnt' \in ((-INT_MAX) - 1)..INT_MAX /\ (cnt' = cnt + 1 \/ (cnt = INT_MAX /\ cnt' = -(cnt + 1)))
      BY <1>0, <2>0, <2>2 DEF Wave!timer_group0_isr, Wave!TypeOK, Wave!Incremented
    <3>3. cnt' % 2 = (cnt + 1) % 2
      <4>1. CASE cnt' = cnt + 1
        BY <4>1
      <4>2. CASE cnt' = -(cnt + 1)
        <5>1. cnt + 1 \in Int
          BY <3>1
        <5> QED
          BY <4>2, <5>1, Parity
      <4> QED
        BY <3>2, <4>1, <4>2
    <3>4. Wave!LevelOfLast'
      <4>1. cnt % 2 = 1 - ((cnt + 1) % 2)
        BY <3>1, Parity
      <4>2. level' = 1 - (cnt' % 2)
        BY <3>1, <3>3, <4>1
      <4> QED
        BY <4>2 DEF Wave!LevelOfLast
    <3>5. Wave!TypeOK'
      BY <2>0, <2>2, <3>1, <3>2, Parity DEF Wave!timer_group0_isr, Wave!TypeOK
    <3>6. Wave!CounterRuns'
      BY <1>0, <2>0, <2>2 DEF Wave!timer_group0_isr, Wave!TypeOK, Wave!CounterRuns, Wave!Rearmed
    <3> QED
      BY <3>4, <3>5, <3>6 DEF Wave!WaveInv
  <2>3. CASE UNCHANGED Wave!vars
    BY <2>0, <2>3 DEF Wave!vars, Wave!WaveInv, Wave!TypeOK, Wave!CounterRuns, Wave!LevelOfLast
  <2> QED
    BY <2>1, <2>2, <2>3 DEF Wave!Next
<1> QED
  BY <1>1, <1>2, PTL DEF Wave!Spec

(***************************************************************************)
(* The wave of Timergroup has no gap: the handler runs within the latency  *)
(* of every alarm and changes the pin each time, also when cnt has run     *)
(* over and is negative.                                                   *)
(***************************************************************************)
THEOREM WaveHasNoGap == Wave!Spec => SquareWave
<1>1. Wave!WaveInv =>
        [/\ width <= Alarm + Latency
         /\ Wave!timer_group0_isr => width >= Alarm - Latency /\ (level' # level \/ cnt = 0)]_Wave!vars
  <2> SUFFICES ASSUME Wave!WaveInv
               PROVE  /\ width <= Alarm + Latency
                      /\ Wave!timer_group0_isr =>
                           width >= Alarm - Latency /\ (level' # level \/ cnt = 0)
    OBVIOUS
  <2>0. Alarm \in Nat /\ Latency \in Nat /\ INT_MAX \in Nat
    BY WaveAssumption DEF Wave!ConstantsAssumption
  <2>1. width <= Alarm + Latency
    BY <2>0 DEF Wave!WaveInv, Wave!TypeOK, Wave!CounterRuns
  <2>2. ASSUME Wave!timer_group0_isr
        PROVE  width >= Alarm - Latency /\ (level' # level \/ cnt = 0)
    <3>1. width >= Alarm - Latency
      BY <2>0, <2>2 DEF Wave!WaveInv, Wave!TypeOK, Wave!CounterRuns, Wave!timer_group0_isr
    <3>2. cnt \in Int /\ level' = cnt % 2 /\ (cnt # 0 => level = 1 - (cnt % 2))
      BY <2>0, <2>2, LevelIsParity
      DEF Wave!WaveInv, Wave!TypeOK, Wave!LevelOfLast, Wave!timer_group0_isr
    <3> QED
      BY <3>1, <3>2, Parity
  <2> QED
    BY <2>1, <2>2
<1> QED
  BY <1>1, WaveInvariant, PTL DEF SquareWave, Wave!SquareWave
=============================================================================
