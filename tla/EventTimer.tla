------------------------------ MODULE EventTimer -----------------------------
(***************************************************************************)
(* gruposEventos_2: a timer of one second gives the binary semaphore smf;  *)
(* app_main takes it, counts, and at the second and the third expiry sets  *)
(* the bits of tarea1, and of tarea2 and tarea3, in an event group.  Each  *)
(* task waits for its own bit and clears it on exit.                       *)
(*                                                                         *)
(* xEventGroupSetBitsFromISR does not set anything itself: it leaves that  *)
(* to the timer task, which also runs the timer's callback.  The kernel is *)
(* external.  Everything runs on one core; time is in ticks of 10 ms and   *)
(* passes when all tasks are blocked, or once while one is at work.        *)
(***************************************************************************)
EXTENDS Naturals, Sequences

CONSTANTS Period, MainDelay     \* ticks: 100 and 1 in the code

TicksAssumption == Period \in Nat /\ Period > 1 /\ MainDelay \in Nat /\ MainDelay < Period

Task == 1..3      \* TASK_1_BIT, TASK_2_BIT, TASK_3_BIT

VARIABLES
  left,         \* ticks until the timer expires
  smf,          \* the semaphore
  count, state, \* the globals
  delay,        \* ticks app_main sleeps
  pended,       \* calls left to the timer task: sets of bits
  bits,         \* the event group
  pc, xbit,     \* each task: blocked in "wait" or about to "print" xbit
  woken,        \* the tasks that have waited with success since count was last 0
  ticked        \* a tick has passed while some task was at work

vars == <<left, smf, count, state, delay, pended, bits, pc, xbit, woken, ticked>>

Init ==
  /\ left = Period /\ smf = FALSE /\ count = 0 /\ state = 0 /\ delay = 0
  /\ pended = <<>> /\ bits = {}
  /\ pc = [t \in Task |-> "wait"] /\ xbit = [t \in Task |-> {}]
  /\ woken = {} /\ ticked = FALSE

-----------------------------------------------------------------------------
(* The timer task *)

ISR ==
  /\ left = 0 /\ left' = Period /\ smf' = TRUE
  /\ UNCHANGED <<count, state, delay, pended, bits, pc, xbit, woken, ticked>>

(***************************************************************************)
(* All tasks whose bit is there are released, with the bits as they were   *)
(* before the released ones are cleared.                                   *)
(***************************************************************************)
Released(set) == {t \in Task : t \in set /\ pc[t] = "wait"}

SetBits ==
  /\ left > 0 /\ pended # <<>> /\ pended' = Tail(pended)
  /\ LET set  == bits \cup Head(pended)
         free == Released(set)
     IN  /\ bits' = set \ free /\ woken' = woken \cup free
         /\ pc' = [t \in Task |-> IF t \in free THEN "print" ELSE pc[t]]
         /\ xbit' = [t \in Task |-> IF t \in free THEN set ELSE xbit[t]]
  /\ UNCHANGED <<left, smf, count, state, delay, ticked>>

-----------------------------------------------------------------------------
(* app_main *)

OneByOne(n) == CASE n = 2 -> <<{1}>> [] n = 3 -> <<{2}, {3}>> [] OTHER -> <<>>
TooLate(n)  == CASE n = 2 -> <<{1}>> [] n = 5 -> <<{2, 3}>> [] OTHER -> <<>>
BitsAt(n)   == CASE n = 2 -> <<{1}>> [] n = 3 -> <<{2, 3}>> [] OTHER -> <<>>

Reset(n) == IF n = 4 THEN 0 ELSE n

TooLong    == delay' = MainDelay + 2 * Period
vTaskDelay == delay' = MainDelay

xSemaphoreTake ==
  /\ delay = 0 /\ smf /\ smf' = FALSE
  /\ state' = 1 - state
  /\ count' = Reset(count + 1) /\ pended' = pended \o BitsAt(count + 1)
  /\ woken' = IF count' = 0 THEN {} ELSE woken
  /\ vTaskDelay
  /\ UNCHANGED <<left, bits, pc, xbit, ticked>>

-----------------------------------------------------------------------------
(* tarea1, tarea2, tarea3: a wait whose bit is there already returns at once. *)

tarea(t) ==
  /\ pc[t] = "print"
  /\ IF t \in bits
       THEN bits' = bits \ {t} /\ xbit' = [xbit EXCEPT ![t] = bits]
            /\ woken' = woken \cup {t} /\ UNCHANGED pc
       ELSE pc' = [pc EXCEPT ![t] = "wait"] /\ UNCHANGED <<bits, xbit, woken>>
  /\ UNCHANGED <<left, smf, count, state, delay, pended, ticked>>

-----------------------------------------------------------------------------
AtWork == left = 0 \/ pended # <<>> \/ (smf /\ delay = 0) \/ \E t \in Task : pc[t] = "print"

Tick ==
  /\ left > 0 /\ (AtWork => ~ticked)
  /\ ticked' = AtWork
  /\ left' = left - 1 /\ delay' = IF delay > 0 THEN delay - 1 ELSE 0
  /\ UNCHANGED <<smf, count, state, pended, bits, pc, xbit, woken>>

TimerTask == ISR \/ SetBits
Next == TimerTask \/ xSemaphoreTake \/ (\E t \in Task : tarea(t)) \/ Tick

Spec == Init /\ [][Next]_vars

-----------------------------------------------------------------------------
(* No expiry finds the binary semaphore still given: each of them is counted. *)
EachExpiryCounted == [][ISR => ~smf]_vars

(***************************************************************************)
(* tarea2 and tarea3 wait for different bits, but both are released by one *)
(* call: each of them finds the other's bit in what it prints.             *)
(***************************************************************************)
ReleasedTogether == \A t \in Task : pc[t] = "print" => xbit[t] = IF t = 1 THEN {1} ELSE {2, 3}

(* When the count starts again every task has had its turn, and no bit is left behind. *)
RoundComplete ==
  [][xSemaphoreTake /\ count' = 0 => woken = Task /\ bits = {} /\ pended = <<>>]_vars

-----------------------------------------------------------------------------
TypeOK ==
  /\ left \in Nat /\ delay \in Nat /\ count \in 0..3
  /\ pc \in [Task -> {"wait", "print"}] /\ xbit \in [Task -> SUBSET Task]

AllWait == \A t \in Task : pc[t] = "wait"

(* What an expiry causes is over before the next one, a tick later at most. *)
DoneInTime ==
  /\ smf \/ pended # <<>> \/ ~AllWait => Period <= left \/ (ticked /\ Period <= left + 1)
  /\ delay > 0 => delay + Period <= MainDelay + left + 1

(* The steps it takes: the semaphore, the call left to the timer task, the tasks it releases. *)
OneAtATime ==
  /\ smf => delay = 0 /\ pended = <<>> /\ AllWait
  /\ \/ pended = <<>>
     \/ pended = <<{1}>> /\ count = 2 /\ AllWait
     \/ pended = <<{2, 3}>> /\ count = 3 /\ AllWait

WokenSoFar ==
  /\ count < 2 => pended = <<>> /\ woken = {}
  /\ count = 2 => woken = IF pended = <<>> THEN {1} ELSE {}
  /\ count = 3 => woken = IF pended = <<>> THEN Task ELSE {1}

(* Inductive. *)
TimerInv ==
  /\ TypeOK /\ DoneInTime /\ OneAtATime /\ WokenSoFar
  /\ bits = {} /\ ReleasedTogether
=============================================================================
