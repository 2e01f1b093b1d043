----------------------------- MODULE MCServices ------------------------------
(***************************************************************************)
(* The programs that depend on the card, the line or the network they      *)
(* talk to, in one run: a behaviour is one of uart_eco or of rx_task       *)
(* (UartReader), of SDcard (Card) or of wifi_ntp_3 (Ntp), which share      *)
(* nothing.                                                                *)
(***************************************************************************)
EXTENDS UartReader

CONSTANTS NoFile, Cut, Greeting, Garbage, MaxFaults      \* of SdCard

VARIABLES
  program,
  file, spc, line, mishaps, faults, suffered, held,
  clock, client, callback, npc, i

Card == INSTANCE SdCard WITH pc <- spc
Ntp  == INSTANCE NtpClock WITH pc <- npc

card == <<file, spc, line, mishaps, faults, suffered, held>>
ntp  == <<clock, client, callback, npc, i>>

ASSUME CardAssumption == Card!ConstantsAssumption

(* 1024 bytes are three units, and one more for the terminator of rx_task. *)
Buffers  == [uart_eco |-> 3, rx_task |-> 4]
Requests == [uart_eco |-> 6, rx_task |-> 3]

(* Only SDcard needs more than one of the states the card may be in. *)
AnyInit ==
  /\ program \in {"uart", "SDcard", "wifi_ntp_3"}
  /\ Init /\ Card!Init /\ Ntp!Init
  /\ program # "SDcard" => \A name \in DOMAIN file : file[name] = NoFile
  /\ program # "uart" => reader = "rx_task"

AnyNext ==
  \/ program = "uart" /\ Next /\ UNCHANGED <<program, card, ntp>>
  \/ program = "SDcard" /\ Card!Next /\ UNCHANGED <<program, vars, ntp>>
  \/ program = "wifi_ntp_3" /\ Ntp!Next /\ UNCHANGED <<program, vars, card>>

AnySpec ==
  /\ AnyInit /\ [][AnyNext]_<<program, vars, card, ntp>>
  /\ program = "wifi_ntp_3" => Ntp!Fairness

(* SDcard: one cut or failure never costs the greeting, a failed write excepted. *)
OneFaultSurvives == Card!OneFaultSurvives

(* SDcard: the line that is printed is the one just written. *)
LineIsGreeting == Card!LineIsGreeting

(* SDcard: a run that nothing disturbs repairs what earlier ones left. *)
RunRepairs == Card!RunRepairs

(* wifi_ntp_3 shows the time of the network, although an answer may come too early. *)
TimeShown == program = "wifi_ntp_3" => Ntp!TimeShown
=============================================================================
