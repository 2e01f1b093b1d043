------------------------------ MODULE MCTimeouts -----------------------------
(***************************************************************************)
(* The programs that wait with a timeout, or must not let a queue fill up, *)
(* in one run: a behaviour is one of gruposEventos_1 (EventTimeout), of    *)
(* cxColas_1 (Queue), of cxColas_2 (Front) or of mutex_2 (Writers), which  *)
(* share nothing.                                                          *)
(***************************************************************************)
EXTENDS EventTimeout, Sequences

CONSTANTS Slots, Items,                    \* of QueueTimeout
          FrontSlots, Second, MaxCounter,  \* of QueueFront
          MutexPatience, Sleep1, Sleep2    \* of TwoWriters

VARIABLES program,
          buffer, snd, qdelay, pc, qpatience, rcv, timeouts,
          stack, counter, fdelay, fwaited, data, expected, fticked,
          owner, wpc, left, old

Queue == INSTANCE QueueTimeout WITH
  delay <- qdelay, patience <- qpatience
Front == INSTANCE QueueFront WITH
  Slots <- FrontSlots,
  buffer <- stack, delay <- fdelay, waited <- fwaited, ticked <- fticked
Writers == INSTANCE TwoWriters WITH
  Patience <- MutexPatience, pc <- wpc

queue   == <<buffer, snd, qdelay, pc, qpatience, rcv, timeouts>>
front   == <<stack, counter, fdelay, fwaited, data, expected, fticked>>
writers == <<owner, wpc, left, old>>

ASSUME QueueAssumption == Queue!SizesAssumption
ASSUME FrontAssumption == Front!ConstantsAssumption
ASSUME WritersAssumption == Writers!TicksAssumption

AnyInit ==
  /\ program \in {"events", "queue", "front", "writers"}
  /\ Init /\ Queue!Init /\ Front!Init /\ Writers!Init
  /\ program # "front" => \A s \in DOMAIN fdelay : fdelay[s] = 0

AnyNext ==
  \/ program = "events" /\ Next /\ UNCHANGED <<program, queue, front, writers>>
  \/ program = "queue" /\ Queue!Next /\ UNCHANGED <<program, vars, front, writers>>
  \/ program = "front" /\ Front!Next /\ UNCHANGED <<program, vars, queue, writers>>
  \/ program = "writers" /\ Writers!Next /\ UNCHANGED <<program, vars, queue, front>>

AnySpec == AnyInit /\ [][AnyNext]_<<program, vars, queue, front, writers>>

(* cxColas_1 receives every number in its turn, although no send looks at its result. *)
ReceivedInTurn == Queue!ReceivedInTurn

(* cxColas_1 reports timeouts in the pause of its sender and nowhere else. *)
TimeoutsOnlyInPause == Queue!TimeoutsOnlyInPause

(* cxColas_2 receives the items of each sender in the order they were sent. *)
SenderOrder == Front!SenderOrder

(* mutex_2 never gets to one of its "timed out" branches. *)
NeverTimesOut == Writers!NeverTimesOut
=============================================================================
