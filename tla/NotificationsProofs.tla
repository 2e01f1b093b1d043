-------------------------- MODULE NotificationsProofs -------------------------
(***************************************************************************)
(* Proofs about the notification programs of MCTasks: NotifyBits, for any  *)
(* sequence of sets of bits, and NotifyCount, for any number of            *)
(* notifications.                                                          *)
(***************************************************************************)
EXTENDS MCTasks, TLAPS

-----------------------------------------------------------------------------
(* Task Notification 2 *)

LEMMA TurnTyped == \A h \in 1..Len(Turn) : Turn[h] \subseteq Nat
BY BitsAssumption DEF Bits!TurnAssumption

LEMMA NextHalfTyped ==
  ASSUME half \in 1..Len(Turn), Bits!NextHalf
  PROVE  half' \in 1..Len(Turn) /\ unsent' = Turn[half']
<1>1. Len(Turn) \in Nat \ {0}
  BY BitsAssumption DEF Bits!TurnAssumption
<1>2. half % Len(Turn) \in 0..(Len(Turn) - 1)
  BY <1>1
<1> QED
  BY <1>1, <1>2 DEF Bits!NextHalf

LEMMA BitsInvariant == Bits!Spec => []Bits!ValueOfHalf
<1> USE TurnTyped DEF Bits!ValueOfHalf, Bits!TypeOK, Bits!NoBitLost
<1>1. Bits!Init => Bits!ValueOfHalf
  <2>1. 1 \in 1..Len(Turn)
    BY BitsAssumption DEF Bits!TurnAssumption
  <2>2. TRUE \in BOOLEAN /\ FALSE \in BOOLEAN
    OBVIOUS
  <2> QED
    BY <2>1, <2>2 DEF Bits!Init
<1>2. Bits!ValueOfHalf /\ [Bits!Next]_Bits!vars => Bits!ValueOfHalf'
  <2> SUFFICES ASSUME Bits!ValueOfHalf, [Bits!Next]_Bits!vars PROVE Bits!ValueOfHalf'
    OBVIOUS
  <2>1. CASE Bits!xTaskNotify
    BY <2>1 DEF Bits!xTaskNotify, Bits!SetBits
  <2>2. CASE Bits!vTaskDelay
    BY <2>2, NextHalfTyped DEF Bits!vTaskDelay
  <2>3. CASE Bits!EnterWait
    BY <2>3 DEF Bits!EnterWait, Bits!ClearOnEntry
  <2>4. CASE Bits!LeaveWait
    BY <2>4 DEF Bits!LeaveWait
  <2>5. CASE Bits!Report
    BY <2>5 DEF Bits!Report
  <2>6. CASE UNCHANGED Bits!vars
    BY <2>6 DEF Bits!vars
  <2> QED
    BY <2>1, <2>2, <2>3, <2>4, <2>5, <2>6 DEF Bits!Next, Bits!sender, Bits!receiver
<1> QED
  BY <1>1, <1>2, PTL DEF Bits!Spec

(* No bit set by sender is cleared before receiver has got it. *)
THEOREM BitsNeverLost == Bits!Spec => []NoBitLost
<1>1. Bits!ValueOfHalf => NoBitLost
  BY DEF Bits!ValueOfHalf, NoBitLost
<1> QED
  BY <1>1, BitsInvariant, PTL

(* What receiver prints never mixes the bits of two halves of the loop. *)
THEOREM HalvesNeverMixed == Bits!Spec => []HalvesNotMixed
<1>1. Bits!ValueOfHalf => HalvesNotMixed
  BY DEF Bits!ValueOfHalf, HalvesNotMixed, Bits!HalvesNotMixed
<1> QED
  BY <1>1, BitsInvariant, PTL

-----------------------------------------------------------------------------
(* TaskNotification_1 *)

LEMMA CountInvariant == Counting!Spec => []Counting!InFlight
<1> USE CountingAssumption DEF Counting!MaxGivenAssumption
<1>1. Counting!Init => Counting!InFlight
  BY DEF Counting!Init, Counting!InFlight, Counting!TypeOK, Counting!EveryGiveCounted
<1>2. Counting!InFlight /\ [Counting!Next]_Counting!vars => Counting!InFlight'
  <2> SUFFICES ASSUME Counting!InFlight, [Counting!Next]_Counting!vars PROVE Counting!InFlight'
    OBVIOUS
  <2> USE DEF Counting!InFlight, Counting!TypeOK, Counting!EveryGiveCounted
  <2>1. CASE Counting!xTaskNotifyGive
    BY <2>1 DEF Counting!xTaskNotifyGive, Counting!Incremented
  <2>2. CASE Counting!vTaskDelay
    BY <2>2 DEF Counting!vTaskDelay
  <2>3. CASE Counting!ulTaskNotifyTake
    BY <2>3 DEF Counting!ulTaskNotifyTake, Counting!Cleared
  <2>4. CASE Counting!Report
    BY <2>4 DEF Counting!Report
  <2>5. CASE UNCHANGED Counting!vars
    BY <2>5 DEF Counting!vars
  <2> QED
    BY <2>1, <2>2, <2>3, <2>4, <2>5 DEF Counting!Next, Counting!sender, Counting!receiver
<1> QED
  BY <1>1, <1>2, PTL DEF Counting!Spec

(* No notification of TaskNotification_1 is lost or counted twice. *)
THEOREM GivesCounted == Counting!Spec => []Counting!EveryGiveCounted
<1>1. Counting!InFlight => Counting!EveryGiveCounted
  BY DEF Counting!InFlight
<1> QED
  BY <1>1, CountInvariant, PTL

(* A printed count never adds up the notifications of two turns. *)
THEOREM CountsWithinTurn == Counting!Spec => []Counting!CountWithinTurn
<1>1. Counting!InFlight => Counting!CountWithinTurn
  BY DEF Counting!InFlight, Counting!TypeOK, Counting!CountWithinTurn
<1> QED
  BY <1>1, CountInvariant, PTL
=============================================================================
