------------------------------- MODULE SdCard -------------------------------
(***************************************************************************)
(* SDcard/main.c: a greeting is written to hello.txt, foo.txt is removed,  *)
(* hello.txt is renamed to foo.txt, and foo.txt is read back.  The power   *)
(* may go at any moment and every operation on the card may fail; the      *)
(* program looks at the result of some of them.                            *)
(*                                                                         *)
(* A file holds the Greeting or is Cut short (empty, or part of it).       *)
(***************************************************************************)
EXTENDS Naturals

CONSTANTS NoFile, Cut, Greeting, Garbage,
          MaxFaults      \* bound: power cuts and failing operations

ConstantsAssumption ==
  /\ MaxFaults \in Nat
  /\ NoFile # Cut /\ Greeting \notin {NoFile, Cut, Garbage}

hello == "/sdcard/hello.txt"
foo   == "/sdcard/foo.txt"

VARIABLES file,      \* what the card holds
          pc,        \* the call app_main is about to make; "off" without power
          line,      \* the buffer read into and printed
          mishaps,   \* what went wrong since the power came on
          faults,    \* how many things went wrong since the last run that nothing disturbed,
          suffered,  \* and what they were
          held       \* there was such a run

vars == <<file, pc, line, mishaps, faults, suffered, held>>

Steps == {"mount", "fopen_w", "fprintf", "stat", "unlink", "rename", "fopen_r", "fgets", "listDir"}

Init ==
  /\ file \in [{hello, foo} -> {NoFile, Cut, Greeting}]
  /\ pc = "off" /\ line = Garbage /\ mishaps = {}
  /\ faults = 0 /\ suffered = {} /\ held = FALSE

Fault(what) ==
  /\ faults < MaxFaults /\ faults' = faults + 1
  /\ mishaps' = mishaps \cup {what} /\ suffered' = suffered \cup {what}

(* The call succeeds and the next one is made. *)
Succeeds(call, next) == pc = call /\ pc' = next /\ UNCHANGED <<mishaps, faults, suffered, held>>

(* The call fails, and app_main returns or goes on with "next". *)
Fails(call, next) == pc = call /\ Fault(call) /\ pc' = next /\ UNCHANGED held

-----------------------------------------------------------------------------
InPlace == foo
Target  == hello

PowerOn ==
  /\ pc = "off" /\ pc' = "mount"
  /\ line' = Garbage /\ mishaps' = {}
  /\ UNCHANGED <<file, faults, suffered, held>>

Mount ==
  /\ Succeeds("mount", "fopen_w") \/ Fails("mount", "returned")
  /\ UNCHANGED <<file, line>>

(* Mode "w" empties the file: on the card now, or not before it is closed. *)
OpenForWriting ==
  /\ \/ Succeeds("fopen_w", "fprintf") /\ file' \in {file, [file EXCEPT ![Target] = Cut]}
     \/ Fails("fopen_w", "returned") /\ UNCHANGED file
  /\ UNCHANGED line

(* The results of fprintf and fclose are not looked at. *)
Write ==
  /\ \/ Succeeds("fprintf", "stat") /\ file' = [file EXCEPT ![Target] = Greeting]
     \/ Fails("fprintf", "stat") /\ file' \in {file, [file EXCEPT ![Target] = Cut]}
  /\ UNCHANGED line

Stat ==
  /\ \/ Succeeds("stat", IF file[foo] # NoFile THEN "unlink" ELSE "rename")
     \/ Fails("stat", "rename")
  /\ UNCHANGED <<file, line>>

NoUnlink == Succeeds("unlink", "rename") /\ UNCHANGED <<file, line>>

(* The result of unlink is not looked at. *)
Unlink ==
  /\ \/ Succeeds("unlink", "rename") /\ file' = [file EXCEPT ![foo] = NoFile]
     \/ Fails("unlink", "rename") /\ UNCHANGED file
  /\ UNCHANGED line

(* FAT does not rename to a name that is taken. *)
Renamable == file[hello] # NoFile /\ file[foo] = NoFile
Renamed   == [file EXCEPT ![foo] = file[hello], ![hello] = NoFile]

RenameUnchecked ==
  /\ Succeeds("rename", "fopen_r")
  /\ file' = IF Renamable THEN Renamed ELSE file
  /\ UNCHANGED line

Rename ==
  /\ \/ Renamable /\ Succeeds("rename", "fopen_r") /\ file' = Renamed
     \/ ~Renamable /\ Succeeds("rename", "returned") /\ UNCHANGED file
     \/ Fails("rename", "returned") /\ UNCHANGED file
  /\ UNCHANGED line

OpenForReading ==
  /\ Succeeds("fopen_r", "fgets") \/ Fails("fopen_r", "returned")
  /\ UNCHANGED <<file, line>>

(* fgets leaves the buffer as it was when there is nothing to read. *)
Read ==
  /\ \/ Succeeds("fgets", "listDir")
        /\ line' \in IF file[foo] = Cut THEN {Cut, line} ELSE {file[foo]}
     \/ Fails("fgets", "listDir") /\ UNCHANGED line
  /\ UNCHANGED file

(* app_main returns; after a run that nothing disturbed we count anew. *)
ListDir ==
  /\ pc = "listDir" /\ pc' = "done"
  /\ IF mishaps = {} THEN held' = TRUE /\ faults' = 0 /\ suffered' = {}
                    ELSE UNCHANGED <<held, faults, suffered>>
  /\ UNCHANGED <<file, line, mishaps>>

app_main ==
  \/ Mount \/ OpenForWriting \/ Write \/ Stat \/ Unlink
  \/ Rename \/ OpenForReading \/ Read \/ ListDir

PowerOff ==
  /\ pc \in {"returned", "done"} /\ pc' = "off"
  /\ UNCHANGED <<file, line, mishaps, faults, suffered, held>>

PowerCut ==
  /\ pc \in Steps /\ Fault("power") /\ pc' = "off"
  /\ UNCHANGED <<file, line, held>>

Next == PowerOn \/ app_main \/ PowerOff \/ PowerCut
Spec == Init /\ [][Next]_vars

-----------------------------------------------------------------------------
(***************************************************************************)
(* Once a run has gone through, one thing may go wrong, in any run after   *)
(* it, and the greeting is still on the card under one of its two names;   *)
(* except that a write that fails unnoticed replaces it by its beginning,  *)
(* and that a run which repairs a lost rename is writing it anew.          *)
(***************************************************************************)
OneFaultSurvives ==
  held /\ faults <= 1 /\ "fprintf" \notin suffered /\ pc # "fprintf" =>
    \E name \in {hello, foo} : file[name] = Greeting

(***************************************************************************)
(* The line that is printed is the greeting, whatever the card held before *)
(* and whatever else failed, unless writing or reading it did: app_main    *)
(* gets that far only if the renamed file is the one just written.         *)
(***************************************************************************)
LineIsGreeting == pc = "listDir" /\ mishaps \cap {"fprintf", "fgets"} = {} => line = Greeting

(***************************************************************************)
(* A run that nothing disturbs repairs what earlier ones left: it goes     *)
(* through to its end, foo.txt holds the greeting, and hello.txt is gone.  *)
(***************************************************************************)
RunRepairs ==
  mishaps = {} =>
    /\ pc # "returned"
    /\ pc = "done" => file[foo] = Greeting /\ file[hello] = NoFile

-----------------------------------------------------------------------------
TypeOK ==
  /\ file \in [{hello, foo} -> {NoFile, Cut, Greeting}]
  /\ pc \in Steps \cup {"off", "returned", "done"}
  /\ faults \in Nat

(* What went wrong in this run is among what went wrong since the last undisturbed one. *)
Recorded == mishaps \subseteq suffered /\ (faults = 0 => suffered = {})

(* Unless the write failed, the greeting is in hello.txt until it is renamed, then in foo.txt. *)
WrittenAnew ==
  "fprintf" \notin mishaps =>
    /\ pc \in {"stat", "unlink", "rename"} => file[hello] = Greeting
    /\ pc \in {"fopen_r", "fgets", "listDir"} => file[foo] = Greeting
    /\ pc = "listDir" /\ "fgets" \notin mishaps => line = Greeting

InOrder ==
  mishaps = {} =>
    /\ pc # "returned"
    /\ pc = "rename" => file[foo] = NoFile
    /\ pc \in {"fopen_r", "fgets", "listDir", "done"} => file[foo] = Greeting /\ file[hello] = NoFile

(* After an undisturbed run foo.txt holds the greeting until a new one is written. *)
Kept ==
  held /\ faults <= 1 /\ "fprintf" \notin suffered =>
    /\ pc # "fprintf" => file[foo] = Greeting \/ file[hello] = Greeting
    /\ faults = 0 /\ pc \in {"off", "mount", "fopen_w", "fprintf"} => file[foo] = Greeting

(* Inductive. *)
CardInv == TypeOK /\ Recorded /\ WrittenAnew /\ InOrder /\ Kept
=============================================================================
