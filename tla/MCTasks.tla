------------------------------- MODULE MCTasks -------------------------------
(***************************************************************************)
(* The programs in which tasks wake each other, in one run: a behaviour is *)
(* one of Semaforo_Mutex_1 (PriorityMutex), of gruposEventos_2 (Timer), of *)
(* "Task Notification 2" (Bits) or of TaskNotification_1 (Counting), which *)
(* share nothing.                                                          *)
(***************************************************************************)
EXTENDS PriorityMutex, Sequences

CONSTANTS Period, MainDelay,     \* of EventTimer
          Turn,                  \* of NotifyBits
          MaxGiven               \* bound of NotifyCount

VARIABLES program,
          left, smf, count, state, delay, pended, bits, pc, xbit, woken, worked,
          value, pending, half, unsent, bpc, seen, unreported,
          cvalue, sent, cpc, taken, given, printed

Timer == INSTANCE EventTimer WITH ticked <- worked
Bits  == INSTANCE NotifyBits WITH pc <- bpc, state <- seen
Counting == INSTANCE NotifyCount WITH value <- cvalue, pc <- cpc, count <- taken

timer    == <<left, smf, count, state, delay, pended, bits, pc, xbit, woken, worked>>
notified == <<value, pending, half, unsent, bpc, seen, unreported>>
counting == <<cvalue, sent, cpc, taken, given, printed>>

ASSUME TimerAssumption == Timer!TicksAssumption
ASSUME BitsAssumption == Bits!TurnAssumption
ASSUME CountingAssumption == Counting!MaxGivenAssumption

Halves == <<{0, 1}, {2, 3}>>     \* the code's Turn

AnyInit ==
  /\ program \in {"mutex", "timer", "bits", "count"}
  /\ Init /\ Timer!Init /\ Bits!Init /\ Counting!Init

(* The bounded program stops when its last notification has been taken. *)
Ended == program = "count" /\ given = MaxGiven /\ cpc = "take" /\ cvalue = 0

AnyNext ==
  \/ program = "mutex" /\ Next /\ UNCHANGED <<program, timer, notified, counting>>
  \/ program = "timer" /\ Timer!Next /\ UNCHANGED <<program, vars, notified, counting>>
  \/ program = "bits" /\ Bits!Next /\ UNCHANGED <<program, vars, timer, counting>>
  \/ program = "count" /\ Counting!Next /\ UNCHANGED <<program, vars, timer, notified>>
  \/ Ended /\ UNCHANGED <<program, vars, timer, notified, counting>>

AnySpec ==
  /\ AnyInit /\ [][AnyNext]_<<program, vars, timer, notified, counting>>
  /\ program = "count" => Counting!Fairness

(* The tasks released by one xEventGroupSetBitsFromISR see each other's bits. *)
ReleasedTogether == Timer!ReleasedTogether

(* No expiry of the timer is lost in the binary semaphore. *)
EachExpiryCounted == Timer!EachExpiryCounted

(* The count starts again only when every task has been woken in this round. *)
RoundComplete == Timer!RoundComplete

(* "Task Notification 2" clears no bit receiver has not got. *)
NoBitLost == Bits!NoBitLost

(* "Task Notification 2" never prints the bits of two halves of the loop together. *)
HalvesNotMixed == Bits!HalvesNotMixed

(* Every notification of TaskNotification_1 is printed at last. *)
EveryGivePrinted == Counting!EveryGivePrinted
=============================================================================
