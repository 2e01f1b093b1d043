--------------------------- MODULE ReadingPipeline ---------------------------
(***************************************************************************)
(* What wifi_mqtt_6 promises of its readings, with the network, the event  *)
(* loop and the task notifications left out: readings 1, 2, ... are        *)
(* offered in order, one may be turned away only when the pipeline holds   *)
(* QueueLength or more, and those accepted are delivered once each, in     *)
(* the order they were offered.                                            *)
(***************************************************************************)
EXTENDS Naturals, Sequences

CONSTANTS MaxReadings,   \* bound: readings offered in a behaviour
          QueueLength

VARIABLES offered, waiting, delivered

vars == <<offered, waiting, delivered>>

Init == offered = 0 /\ waiting = <<>> /\ delivered = <<>>

Offer ==
  /\ offered < MaxReadings
  /\ offered' = offered + 1
  /\ \/ Len(waiting) <= QueueLength /\ waiting' = Append(waiting, offered')
     \/ Len(waiting) >= QueueLength /\ waiting' = waiting
  /\ UNCHANGED delivered

Deliver ==
  /\ waiting # <<>>
  /\ delivered' = Append(delivered, Head(waiting))
  /\ waiting' = Tail(waiting)
  /\ UNCHANGED offered

Next == Offer \/ Deliver

Spec == Init /\ [][Next]_vars

Fairness == WF_vars(Offer) /\ WF_vars(Deliver)
=============================================================================
