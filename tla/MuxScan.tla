------------------------------- MODULE MuxScan -------------------------------
(***************************************************************************)
(* i2cPCA9548a.c and i2c_scanner.c: both ask every address of the bus      *)
(* whether a device answers.  The first has a multiplexer on the bus: it   *)
(* scans once, selects channel 1 and then channel 2, and goes on scanning. *)
(***************************************************************************)
EXTENDS Naturals

CONSTANTS LastAddress,   \* 126 in the code
          PCA9548ADDR,   \* the address of the multiplexer
          Direct,        \* addresses of the devices on the bus itself
          Behind         \* for each channel, the addresses of the devices behind it

ConstantsAssumption ==
  /\ LastAddress \in Nat \ {0} /\ PCA9548ADDR \in 1..LastAddress
  /\ DOMAIN Behind = {1, 2} /\ \A c \in {1, 2} : Behind[c] \subseteq 1..LastAddress
  /\ Direct \subseteq 1..LastAddress

VARIABLES board,     \* the program, with the board it is written for
          channel,   \* the channel the multiplexer has selected, 0 for none
          pc, address, found,
          loops,     \* the task is in its endless loop
          failed     \* a transfer failed since the scan began, or one that selects a channel

vars == <<board, channel, pc, address, found, loops, failed>>

HasMux == board = "i2cPCA9548a"

Init ==
  /\ board \in {"i2cPCA9548a", "i2c_scanner"}
  /\ channel = 0
  /\ pc = "scan" /\ address = 1 /\ found = {} /\ loops = FALSE /\ failed = {}

(* The devices the master can reach now. *)
Reachable ==
  Direct \cup (IF HasMux THEN {PCA9548ADDR} ELSE {}) \cup (IF channel = 0 THEN {} ELSE Behind[channel])

Probe ==
  /\ pc = "scan" /\ address <= LastAddress
  /\ address' = address + 1
  /\ \/ found' = (IF address \in Reachable THEN found \cup {address} ELSE found) /\ UNCHANGED failed
     \/ address \in Reachable /\ failed' = failed \cup {"scan"} /\ UNCHANGED found
  /\ UNCHANGED <<board, channel, pc, loops>>

ScanCompleted ==
  /\ pc = "scan" /\ address > LastAddress
  /\ pc' = CASE ~HasMux -> "idle" [] loops -> "delay" [] OTHER -> "select1"
  /\ UNCHANGED <<board, channel, address, found, loops, failed>>

(* A transfer that fails is not repeated, and only a good one is reported. *)
Select(c) ==
  \/ channel' = c /\ failed' = failed \ {"select"}
  \/ failed' = failed \cup {"select"} /\ UNCHANGED channel

i2c_scan == address' = 1 /\ found' = {} /\ failed' = failed \ {"scan"}

SelectFirst ==
  /\ pc = "select1" /\ pc' = "select2" /\ Select(1)
  /\ UNCHANGED <<board, address, found, loops>>

OnlyOne ==
  /\ pc = "select2" /\ pc' = "loop"
  /\ UNCHANGED <<board, channel, address, found, loops, failed>>

SelectSecond ==
  /\ pc = "select2" /\ pc' = "loop" /\ Select(2)
  /\ UNCHANGED <<board, address, found, loops>>

Loop ==
  /\ pc \in {"loop", "delay"} /\ pc' = "scan" /\ i2c_scan /\ loops' = TRUE
  /\ UNCHANGED <<board, channel>>

(* The ESP32 is reset, the multiplexer is not. *)
Reset ==
  /\ pc' = "scan" /\ address' = 1 /\ found' = {} /\ loops' = FALSE /\ failed' = {}
  /\ UNCHANGED <<board, channel>>

Next == Probe \/ ScanCompleted \/ SelectFirst \/ SelectSecond \/ Loop \/ Reset
Spec == Init /\ [][Next]_vars

-----------------------------------------------------------------------------
(***************************************************************************)
(* A scan that ends without a failed transfer shows what is on the bus and *)
(* behind channel 2, every device and no other: those behind channel 1,    *)
(* or behind the channel an earlier program left selected, are not listed, *)
(* not even where the address is used twice.                               *)
(***************************************************************************)
ScanShowsSelected ==
  loops /\ pc = "delay" /\ failed = {} => found = Direct \cup {PCA9548ADDR} \cup Behind[2]

(***************************************************************************)
(* Why: what the scan has found is what can be reached below the address   *)
(* it is at, and the selection that the loop begins with stays.            *)
(***************************************************************************)
TypeOK ==
  /\ board \in {"i2cPCA9548a", "i2c_scanner"} /\ channel \in 0..2
  /\ pc \in {"scan", "select1", "select2", "loop", "delay", "idle"}
  /\ address \in 1..(LastAddress + 1) /\ found \subseteq 1..LastAddress
  /\ loops \in BOOLEAN /\ failed \subseteq {"scan", "select"}

Below(a) == {d \in Reachable : d < a}

ScanListed ==
  /\ pc \in {"scan", "delay"} /\ "scan" \notin failed => found = Below(address)
  /\ pc = "delay" => address = LastAddress + 1

SelectionKept ==
  /\ pc \in {"select1", "select2", "loop", "delay"} => HasMux
  /\ loops => HasMux /\ pc \in {"scan", "delay"}
  /\ pc = "delay" => loops
  /\ loops \/ pc = "loop" => "select" \in failed \/ channel = 2

MuxInv == TypeOK /\ ScanListed /\ SelectionKept
=============================================================================
