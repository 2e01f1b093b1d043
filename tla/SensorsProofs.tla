----------------------------- MODULE SensorsProofs ----------------------------
(***************************************************************************)
(* Proofs about the programs of MCSensors: DacSampling, for any number of  *)
(* samples and any readings of a 12-bit ADC, MuxScan, for any devices,     *)
(* Lm75, for any temperatures and any conversion shorter than the wait,    *)
(* Mpu6050, for any heap and any registers, and DhtReader, for bytes of    *)
(* eight bits, any measurements that fit and any number of wrong levels.   *)
(***************************************************************************)
EXTENDS MCSensors, Integers, TLAPS

-----------------------------------------------------------------------------
(* spidemo_dac *)

(* The bytes of a word, and the fields of a word with only bit 12 above its level. *)
LEMMA Bytes ==
  ASSUME NEW word \in Nat, word < 65536
  PROVE  (word \div 256) % 256 = word \div 256 /\ (word \div 256) * 256 + (word % 256) = word
<1>1. word \div 256 \in Nat /\ word \div 256 < 256 /\ word % 256 \in 0..255
  OBVIOUS
<1>2. word = 256 * (word \div 256) + (word % 256)
  BY <1>1
<1>3. \A n \in 0..255 : n % 256 = n
  OBVIOUS
<1>4. (word \div 256) % 256 = word \div 256
  BY <1>1, <1>3
<1>5. 256 * (word \div 256) = (word \div 256) * 256
  BY <1>1
<1>6. (word \div 256) * 256 + (word % 256) = word
  BY <1>1, <1>2, <1>5
<1> QED
  BY <1>4, <1>6

LEMMA Fields ==
  ASSUME NEW level \in 0..4095
  PROVE  /\ (4096 + level) \div 32768 = 0 /\ ((4096 + level) \div 8192) % 2 = 0
         /\ ((4096 + level) \div 4096) % 2 = 1 /\ (4096 + level) % 4096 = level
OBVIOUS

LEMMA Masked == ASSUME NEW v \in Nat PROVE v % 4096 \in 0..4095
OBVIOUS

(* The masked command word survives the two bytes and the DAC's decoding. *)
LEMMA Decoded ==
  ASSUME NEW v \in Nat
  PROVE  Latched(Byte(Command(v))) =
           [channel |-> Channel, gain |-> Gain, onoff |-> OnOff, level |-> v % 4096]
<1> DEFINE level == v % 4096
<1>1. level \in 0..4095
  BY Masked
<1> HIDE DEF level
<1>2. Command(v) = 4096 + level
  BY <1>1 DEF Command, Channel, Gain, OnOff, level
<1>3. 4096 + level \in Nat /\ 4096 + level < 65536
  BY <1>1
<1>4. Byte(Command(v))[1] * 256 + Byte(Command(v))[2] = 4096 + level
  BY <1>2, <1>3, Bytes DEF Byte
<1> QED
  BY <1>1, <1>4, Fields DEF Latched, Channel, Gain, OnOff, level

LEMMA Monotone ==
  ASSUME NEW n \in Nat, NEW a \in Nat, NEW b \in Nat, a <= b
  PROVE  n * a <= n * b
OBVIOUS

(* One more sample keeps the sum above the least sample, and below the largest. *)
LEMMA SumAbove ==
  ASSUME NEW n \in Nat, NEW s \in Nat, NEW a \in Nat, NEW r \in Nat, NEW a2 \in Nat,
         n * a <= s, a2 <= a, a2 <= r
  PROVE  (n + 1) * a2 <= s + r
<1>1. n * a2 <= n * a
  BY Monotone
<1>2. (n + 1) * a2 = n * a2 + a2
  OBVIOUS
<1>3. n * a2 \in Nat /\ n * a \in Nat
  OBVIOUS
<1> QED
  BY <1>1, <1>2, <1>3

LEMMA SumBelow ==
  ASSUME NEW n \in Nat, NEW s \in Nat, NEW b \in Nat, NEW r \in Nat, NEW b2 \in Nat,
         s <= n * b, b <= b2, r <= b2
  PROVE  s + r <= (n + 1) * b2
<1>1. n * b <= n * b2
  BY Monotone
<1>2. (n + 1) * b2 = n * b2 + b2
  OBVIOUS
<1>3. n * b \in Nat /\ n * b2 \in Nat
  OBVIOUS
<1> QED
  BY <1>1, <1>2, <1>3

(* A sum between n times the least and n times the largest has its quotient between them. *)
LEMMA Quotient ==
  ASSUME NEW n \in Nat \ {0}, NEW s \in Nat, NEW a \in Nat, NEW b \in Nat,
         n * a <= s, s <= n * b
  PROVE  s \div n \in Nat /\ a <= s \div n /\ s \div n <= b
OBVIOUS

-----------------------------------------------------------------------------
LEMMA SumInvariant == Spec => []SumBounds
<1>1. Init => SumBounds
  BY ConstantsAssumption DEF Init, SumBounds, TypeOK, AverageWithinSamples
<1>2. SumBounds /\ [Next]_vars => SumBounds'
  <2> SUFFICES ASSUME SumBounds, [Next]_vars PROVE SumBounds'
    OBVIOUS
  <2>1. CASE Clear
    BY <2>1, ConstantsAssumption DEF Clear, Cleared, SumWithin, SumBounds, TypeOK, AverageWithinSamples
  <2>2. CASE Sample
    <3>1. PICK raw \in Raw : /\ adc_reading' = adc_reading + raw
                             /\ low' = IF raw < low THEN raw ELSE low
                             /\ high' = IF raw > high THEN raw ELSE high
      BY <2>2 DEF Sample
    <3>2. SumBounds /\ TypeOK /\ SumWithin
      BY <2>2 DEF Sample, SumBounds
    <3>3. raw \in 0..4095 /\ low' \in 0..4095 /\ high' \in 0..4095 /\ adc_reading' \in Nat
      BY <3>1, <3>2, ConstantsAssumption DEF TypeOK
    <3>4. low' <= raw /\ low' <= low /\ raw <= high' /\ high <= high'
      BY <3>1, <3>3, <3>2 DEF TypeOK
    <3>5. i * low <= adc_reading /\ adc_reading <= i * high
      BY <3>2 DEF SumWithin
    <3>6. /\ i \in Nat /\ adc_reading \in Nat /\ low \in Nat /\ high \in Nat
          /\ raw \in Nat /\ low' \in Nat /\ high' \in Nat
      BY <3>3, <3>2 DEF TypeOK
    <3>7. i' = i + 1 /\ i' \in 0..NO_OF_SAMPLES /\ pc' = "sum"
      BY <2>2, <3>2, ConstantsAssumption DEF Sample, TypeOK
    <3>8. voltage' \in Nat
      BY <2>2, <3>2, ConstantsAssumption DEF Sample, TypeOK
    <3>9. (i + 1) * low' <= adc_reading + raw
      BY <3>4, <3>5, <3>6, SumAbove, Zenon
    <3>10. adc_reading + raw <= (i + 1) * high'
      BY <3>4, <3>5, <3>6, SumBelow
    <3>11. SumWithin'
      BY <3>1, <3>9, <3>7, <3>10 DEF SumWithin
    <3>12. pc' # "average"
      BY <3>7
    <3>13. TypeOK'
      BY <3>3, <3>7, <3>8 DEF TypeOK
    <3>14. AverageWithinSamples'
      BY <3>12 DEF AverageWithinSamples
    <3> QED
      BY <3>11, <3>13, <3>14 DEF SumBounds
  <2>3. CASE Average
    <3>1. /\ adc_reading \div NO_OF_SAMPLES \in Nat
          /\ low <= adc_reading \div NO_OF_SAMPLES
          /\ adc_reading \div NO_OF_SAMPLES <= high
      BY <2>3, Quotient, ConstantsAssumption DEF Average, SumWithin, SumBounds, TypeOK
    <3> QED
      BY <2>3, <3>1 DEF Average, SumBounds, TypeOK, AverageWithinSamples
  <2>4. CASE Sleep
    BY <2>4 DEF Sleep, SumWithin, SumBounds, TypeOK, AverageWithinSamples
  <2>5. CASE dacSetVoltage
    BY <2>5 DEF dacSetVoltage, SumWithin, SumBounds, TypeOK, AverageWithinSamples
  <2>6. CASE UNCHANGED vars
    BY <2>6 DEF vars, SumWithin, SumBounds, TypeOK, AverageWithinSamples
  <2> QED
    BY <2>1, <2>2, <2>3, <2>4, <2>5, <2>6 DEF Next, adcRead_task
<1> QED
  BY <1>1, <1>2, PTL DEF Spec

(* The finished average lies within its samples, whatever app_main read meanwhile. *)
THEOREM AveragesAreAverages == Spec => []AverageWithinSamples
<1>1. SumBounds => AverageWithinSamples
  BY DEF SumBounds
<1> QED
  BY <1>1, SumInvariant, PTL

(* A reading taken in the middle of a sum never changes the DAC's settings. *)
THEOREM SettingsAlwaysKept == Spec => []SettingsKept
<1> DEFINE Sent == dac = Byte(Command(voltage))
<1>1. Init => Sent
  BY DEF Init
<1>2. Sent /\ [Next]_vars => Sent'
  BY DEF Next, adcRead_task, Clear, Sample, Average, Sleep, dacSetVoltage, vars
<1>3. SumBounds => voltage \in Nat
  BY DEF SumBounds, TypeOK
<1>4. Sent /\ voltage \in Nat => SettingsKept
  BY Decoded DEF SettingsKept
<1> QED
  BY <1>1, <1>2, <1>3, <1>4, SumInvariant, PTL DEF Spec

-----------------------------------------------------------------------------
(* i2cPCA9548a and i2c_scanner *)

LEMMA MuxDevices ==
  ASSUME Mux!TypeOK
  PROVE  Mux!Reachable \subseteq 1..LastAddress
<1>1. /\ Direct \subseteq 1..LastAddress /\ PCA9548ADDR \in 1..LastAddress
      /\ BehindFirst \subseteq 1..LastAddress /\ BehindSecond \subseteq 1..LastAddress
  BY MuxAssumption DEF Mux!ConstantsAssumption
<1>2. muxed \in {0, 1, 2}
  BY DEF Mux!TypeOK
<1>3. <<BehindFirst, BehindSecond>>[1] = BehindFirst /\ <<BehindFirst, BehindSecond>>[2] = BehindSecond
  OBVIOUS
<1>4. CASE muxed = 0
  BY <1>1, <1>4 DEF Mux!Reachable
<1>5. CASE muxed = 1
  BY <1>1, <1>3, <1>5 DEF Mux!Reachable
<1>6. CASE muxed = 2
  BY <1>1, <1>3, <1>6 DEF Mux!Reachable
<1> QED
  BY <1>2, <1>4, <1>5, <1>6

LEMMA MuxStarts == Mux!Init => Mux!MuxInv
<1> SUFFICES ASSUME Mux!Init PROVE Mux!MuxInv
  OBVIOUS
<1>1. LastAddress \in Nat \ {0}
  BY MuxAssumption DEF Mux!ConstantsAssumption
<1>2. Mux!TypeOK
  <2>1. board \in {"i2cPCA9548a", "i2c_scanner"}
    BY DEF Mux!Init
  <2>2. muxed \in 0..2
    BY DEF Mux!Init
  <2>3. address \in 1..(LastAddress + 1)
    BY <1>1 DEF Mux!Init
  <2>4. found \subseteq 1..LastAddress
    BY <1>1 DEF Mux!Init
  <2>5. loops \in BOOLEAN
    BY DEF Mux!Init
  <2>6. failed \subseteq {"scan", "select"}
    BY DEF Mux!Init
  <2> QED
    BY <2>1, <2>2, <2>3, <2>4, <2>5, <2>6 DEF Mux!Init, Mux!TypeOK
<1>3. Mux!ScanListed
  BY <1>2, MuxDevices DEF Mux!Init, Mux!ScanListed, Mux!Below
<1> QED
  BY <1>2, <1>3 DEF Mux!Init, Mux!SelectionKept, Mux!MuxInv

(* A scan that starts anew has listed nothing, and there is nothing below address 1. *)
LEMMA NothingListed ==
  ASSUME Mux!TypeOK, xpc' = "scan", address' = 1, found' = {}, board' = board, muxed' = muxed
  PROVE  Mux!ScanListed'
<1>1. Mux!Reachable' = Mux!Reachable
  BY DEF Mux!Reachable, Mux!HasMux
<1> QED
  BY <1>1, MuxDevices DEF Mux!ScanListed, Mux!Below

LEMMA MuxStep == Mux!MuxInv /\ [Mux!Next]_Mux!vars => Mux!MuxInv'
<1> SUFFICES ASSUME Mux!MuxInv, [Mux!Next]_Mux!vars PROVE Mux!MuxInv'
  OBVIOUS
<1>0. LastAddress \in Nat \ {0} /\ Mux!Reachable \subseteq 1..LastAddress
  BY MuxDevices, MuxAssumption DEF Mux!ConstantsAssumption, Mux!MuxInv
<1>1. CASE Mux!Probe
  <2>0. Mux!TypeOK
    BY DEF Mux!MuxInv
  <2>1. Mux!TypeOK'
    <3>1. address' \in 1..(LastAddress + 1)
      BY <1>0, <1>1, <2>0 DEF Mux!Probe, Mux!TypeOK
    <3>2. found' \subseteq 1..LastAddress
      <4>1. found \subseteq 1..LastAddress
        BY <2>0 DEF Mux!TypeOK
      <4>2. found' = found \/ (address \in Mux!Reachable /\ found' = found \cup {address})
        BY <1>1 DEF Mux!Probe
      <4>3. Mux!Reachable \subseteq 1..LastAddress
        BY <1>0
      <4> QED
        BY <4>1, <4>2, <4>3, Zenon
    <3>3. failed' \subseteq {"scan", "select"}
      BY <1>1, <2>0 DEF Mux!Probe, Mux!TypeOK
    <3> QED
      BY <1>1, <2>0, <3>1, <3>2, <3>3 DEF Mux!Probe, Mux!TypeOK
  <2>2. Mux!Reachable' = Mux!Reachable
    BY <1>1 DEF Mux!Probe, Mux!Reachable, Mux!HasMux
  <2>3. \A d \in Mux!Reachable : d < address + 1 <=> d < address \/ d = address
    BY <1>0 DEF Mux!MuxInv, Mux!TypeOK
  <2>4. Mux!ScanListed'
    BY <1>1, <2>2, <2>3 DEF Mux!Probe, Mux!ScanListed, Mux!Below, Mux!MuxInv
  <2>5. Mux!SelectionKept'
    BY <1>1 DEF Mux!Probe, Mux!SelectionKept, Mux!MuxInv, Mux!HasMux
  <2> QED
    BY <2>1, <2>4, <2>5 DEF Mux!MuxInv
<1>2. CASE Mux!ScanCompleted
  <2>1. Mux!TypeOK'
    BY <1>2 DEF Mux!ScanCompleted, Mux!TypeOK, Mux!MuxInv
  <2>2. Mux!Reachable' = Mux!Reachable /\ address' = LastAddress + 1
    BY <1>0, <1>2 DEF Mux!ScanCompleted, Mux!Reachable, Mux!HasMux, Mux!TypeOK, Mux!MuxInv
  <2>3. Mux!ScanListed'
    BY <1>2, <2>2 DEF Mux!ScanCompleted, Mux!ScanListed, Mux!Below, Mux!MuxInv
  <2>4. Mux!SelectionKept'
    BY <1>2 DEF Mux!ScanCompleted, Mux!SelectionKept, Mux!MuxInv, Mux!HasMux
  <2> QED
    BY <2>1, <2>3, <2>4 DEF Mux!MuxInv
<1>3. CASE Mux!SelectFirst
  <2>1. Mux!TypeOK'
    <3>1. muxed \in 0..2 /\ failed \subseteq {"scan", "select"}
      BY DEF Mux!TypeOK, Mux!MuxInv
    <3>2. muxed' \in 0..2
      BY <1>3, <3>1 DEF Mux!SelectFirst, Mux!Select
    <3>3. failed' \subseteq {"scan", "select"}
      BY <1>3, <3>1 DEF Mux!SelectFirst, Mux!Select
    <3> QED
      BY <1>3, <3>2, <3>3 DEF Mux!SelectFirst, Mux!TypeOK, Mux!MuxInv
  <2>2. Mux!ScanListed'
    BY <1>3 DEF Mux!SelectFirst, Mux!ScanListed
  <2>3. Mux!SelectionKept'
    BY <1>3 DEF Mux!SelectFirst, Mux!Select, Mux!SelectionKept, Mux!MuxInv, Mux!HasMux
  <2> QED
    BY <2>1, <2>2, <2>3 DEF Mux!MuxInv
<1>4. CASE Mux!SelectSecond
  <2>1. Mux!TypeOK'
    <3>1. muxed \in 0..2 /\ failed \subseteq {"scan", "select"}
      BY DEF Mux!TypeOK, Mux!MuxInv
    <3>2. muxed' \in 0..2
      BY <1>4, <3>1 DEF Mux!SelectSecond, Mux!Select
    <3>3. failed' \subseteq {"scan", "select"}
      BY <1>4, <3>1 DEF Mux!SelectSecond, Mux!Select
    <3> QED
      BY <1>4, <3>2, <3>3 DEF Mux!SelectSecond, Mux!TypeOK, Mux!MuxInv
  <2>2. Mux!ScanListed'
    BY <1>4 DEF Mux!SelectSecond, Mux!ScanListed
  <2>3. Mux!SelectionKept'
    BY <1>4 DEF Mux!SelectSecond, Mux!Select, Mux!SelectionKept, Mux!MuxInv, Mux!HasMux
  <2> QED
    BY <2>1, <2>2, <2>3 DEF Mux!MuxInv
<1>5. CASE Mux!Loop
  <2>1. Mux!TypeOK'
    BY <1>0, <1>5 DEF Mux!Loop, Mux!i2c_scan, Mux!TypeOK, Mux!MuxInv
  <2>2. Mux!ScanListed'
    BY <1>5, NothingListed DEF Mux!Loop, Mux!i2c_scan, Mux!MuxInv
  <2>3. Mux!SelectionKept'
    <3>1. Mux!HasMux /\ Mux!HasMux'
      BY <1>5 DEF Mux!Loop, Mux!SelectionKept, Mux!MuxInv, Mux!HasMux
    <3>2. "select" \in failed \/ muxed = 2
      BY <1>5 DEF Mux!Loop, Mux!SelectionKept, Mux!MuxInv
    <3> QED
      BY <1>5, <3>1, <3>2 DEF Mux!Loop, Mux!i2c_scan, Mux!SelectionKept
  <2> QED
    BY <2>1, <2>2, <2>3 DEF Mux!MuxInv
<1>6. CASE Mux!Reset
  <2>1. Mux!TypeOK'
    <3>1. address' \in 1..(LastAddress + 1) /\ found' \subseteq 1..LastAddress
      BY <1>0, <1>6 DEF Mux!Reset
    <3>2. loops' \in BOOLEAN /\ failed' \subseteq {"scan", "select"}
      BY <1>6 DEF Mux!Reset
    <3> QED
      BY <1>6, <3>1, <3>2 DEF Mux!Reset, Mux!TypeOK, Mux!MuxInv
  <2>2. Mux!ScanListed'
    BY <1>6, NothingListed DEF Mux!Reset, Mux!MuxInv
  <2> QED
    BY <1>6, <2>1, <2>2 DEF Mux!Reset, Mux!SelectionKept, Mux!MuxInv
<1>7. CASE UNCHANGED Mux!vars
  BY <1>7 DEF Mux!vars, Mux!MuxInv, Mux!TypeOK, Mux!ScanListed, Mux!Below, Mux!Reachable,
              Mux!SelectionKept, Mux!HasMux
<1> QED
  BY <1>1, <1>2, <1>3, <1>4, <1>5, <1>6, <1>7 DEF Mux!Next

(***************************************************************************)
(* A scan in the endless loop without a failed transfer lists the devices  *)
(* on the bus and behind channel 2, whatever was selected before.          *)
(***************************************************************************)
THEOREM ScansAreRight == Mux!Spec => []ScanShowsSelected
<1>1. Mux!MuxInv => ScanShowsSelected
  <2> SUFFICES ASSUME Mux!MuxInv, loops, xpc = "delay", failed = {}
               PROVE  found = Direct \cup {PCA9548ADDR} \cup BehindSecond
    BY DEF ScanShowsSelected, Mux!ScanShowsSelected
  <2>1. Mux!HasMux /\ muxed = 2 /\ found = Mux!Below(LastAddress + 1)
    BY DEF Mux!MuxInv, Mux!SelectionKept, Mux!ScanListed
  <2>2. \A d \in Mux!Reachable : d < LastAddress + 1
    BY MuxDevices, MuxAssumption DEF Mux!ConstantsAssumption, Mux!MuxInv
  <2> QED
    BY <2>1, <2>2 DEF Mux!Below, Mux!Reachable
<1> QED
  BY <1>1, MuxStarts, MuxStep, PTL DEF Mux!Spec

-----------------------------------------------------------------------------
(* LM75_Mid *)

(* The eleven bits of a temperature, as the code reads them back. *)
LEMMA Sent ==
  ASSUME NEW t \in -1024 .. 1023
  PROVE  /\ t >= 0 => Lm!Temperature(Lm!AsSent(t)) = t
         /\ t < 0 => Lm!Temperature(Lm!AsSent(t)) + t = -128 * 8
<1>1. CASE t >= 0
  <2>1. Lm!AsSent(t) = 32 * t
    BY <1>1 DEF Lm!AsSent
  <2>2. (32 * t) % 32768 = 32 * t /\ (32 * t) \div 32 = t /\ ~(32 * t >= 32768)
    BY <1>1
  <2> QED
    BY <1>1, <2>1, <2>2 DEF Lm!Temperature
<1>2. CASE t < 0
  <2>1. Lm!AsSent(t) = 32 * (t + 2048)
    BY <1>2 DEF Lm!AsSent
  <2>2. /\ (32 * (t + 2048)) % 32768 = 32 * (t + 1024) /\ (32 * (t + 1024)) \div 32 = t + 1024
        /\ 32 * (t + 2048) >= 32768
    BY <1>2
  <2> QED
    BY <1>2, <2>1, <2>2 DEF Lm!Temperature
<1> QED
  BY <1>1, <1>2

LEMMA LmStarts == Lm!Init => Lm!LmInv
<1> SUFFICES ASSUME Lm!Init PROVE Lm!LmInv
  OBVIOUS
<1>1. Delay \in Nat /\ Conversion \in Nat /\ Period \in Nat /\ Conversion <= Period
  BY LmAssumption DEF Lm!ConstantsAssumption
<1>2. Lm!TypeOK
  BY <1>1 DEF Lm!Init, Lm!TypeOK, Lm!MODE_NORMAL, Lm!MODE_SHUTDOWN
<1>3. Lm!Awake /\ Lm!ReadInTime
  BY <1>1 DEF Lm!Init, Lm!Awake, Lm!First, Lm!ReadInTime
<1> QED
  BY <1>2, <1>3 DEF Lm!LmInv

LEMMA LmStep == Lm!LmInv /\ [Lm!Next]_Lm!vars => Lm!LmInv'
<1> SUFFICES ASSUME Lm!LmInv, [Lm!Next]_Lm!vars PROVE Lm!LmInv'
  OBVIOUS
<1>0. /\ Delay \in Nat /\ Conversion \in Nat /\ Period \in Nat
      /\ Conversion < Delay /\ Conversion <= Period /\ Temperatures \subseteq -1024 .. 1023
  BY LmAssumption DEF Lm!ConstantsAssumption
<1>t. Lm!TypeOK /\ Lm!Awake /\ Lm!ReadInTime
  BY DEF Lm!LmInv
<1> USE DEF Lm!MODE_NORMAL, Lm!MODE_SHUTDOWN
<1>1. CASE Lm!Convert
  <2>1. Lm!TypeOK'
    BY <1>0, <1>t, <1>1 DEF Lm!Convert, Lm!TypeOK
  <2>2. Lm!Awake'
    BY <1>0, <1>1 DEF Lm!Convert, Lm!Awake, Lm!Fresh
  <2>3. Lm!ReadInTime'
    BY <1>0, <1>t, <1>1 DEF Lm!Convert, Lm!ReadInTime, Lm!AsPrinted
  <2> QED
    BY <2>1, <2>2, <2>3 DEF Lm!LmInv
<1>2. CASE Lm!Tick
  <2>1. Lm!TypeOK'
    <3>1. due' \in 0..Period
      BY <1>0, <1>t, <1>2 DEF Lm!Tick, Lm!TypeOK
    <3>2. age' \in 0..(Period + 1)
      BY <1>0, <1>t, <1>2 DEF Lm!Tick, Lm!TypeOK
    <3>3. left' \in 0..Delay
      BY <1>0, <1>t, <1>2 DEF Lm!Tick, Lm!TypeOK
    <3> QED
      BY <1>t, <1>2, <3>1, <3>2, <3>3 DEF Lm!Tick, Lm!TypeOK
  <2>2. Lm!Awake'
    <3> SUFFICES ASSUME mode = 0 PROVE (Lm!Fresh \/ Lm!First)'
      BY <1>2 DEF Lm!Tick, Lm!Awake
    <3>1. due' = due - 1 /\ due \in Nat /\ due > 0 /\ lpc' = lpc
      BY <1>t, <1>2 DEF Lm!Tick, Lm!TypeOK
    <3>2. age \in Nat /\ (age' = age + 1 \/ age' = age)
      BY <1>t, <1>2 DEF Lm!Tick, Lm!TypeOK
    <3>3. left \in Nat /\ (lpc = "delay" => left' = left - 1)
      BY <1>t, <1>2 DEF Lm!Tick, Lm!TypeOK
    <3>4. CASE Lm!Fresh
      BY <1>0, <3>1, <3>2, <3>4 DEF Lm!Fresh
    <3>5. CASE Lm!First
      BY <1>0, <3>1, <3>3, <3>5 DEF Lm!First
    <3> QED
      BY <1>t, <3>4, <3>5 DEF Lm!Awake
  <2>3. Lm!ReadInTime'
    BY <1>t, <1>2 DEF Lm!Tick, Lm!ReadInTime
  <2> QED
    BY <2>1, <2>2, <2>3 DEF Lm!LmInv
<1>3. CASE Lm!Wake
  <2>1. Lm!TypeOK'
    <3>1. mode' \in {0, 1} /\ register' \in Temperatures /\ age' \in 0..(Period + 1)
      BY <1>t, <1>3 DEF Lm!Wake, Lm!setMode, Lm!TypeOK
    <3>2. due' \in 0..Period /\ left' \in 0..Delay
      BY <1>0, <1>t, <1>3 DEF Lm!Wake, Lm!setMode, Lm!vTaskDelay, Lm!TypeOK
    <3>3. refused' \subseteq {"wake", "getTemp", "shutdown"}
      BY <1>t, <1>3 DEF Lm!Wake, Lm!setMode, Lm!TypeOK
    <3> QED
      BY <1>3, <3>1, <3>2, <3>3 DEF Lm!Wake, Lm!setMode, Lm!TypeOK
  <2>2. Lm!Awake'
    <3>1. age' = age /\ lpc' = "delay" /\ left' = Delay /\ lpc = "wake"
      BY <1>3 DEF Lm!Wake, Lm!setMode, Lm!vTaskDelay
    <3>2. \/ mode' = 0 /\ mode = 1 /\ due' = Conversion
          \/ mode' = 0 /\ mode = 0 /\ due' = due
          \/ mode' = mode /\ due' = due
      BY <1>t, <1>3 DEF Lm!Wake, Lm!setMode, Lm!TypeOK
    <3> QED
      BY <1>0, <1>t, <3>1, <3>2 DEF Lm!Awake, Lm!Fresh, Lm!First, Lm!TypeOK
  <2>3. Lm!ReadInTime'
    BY <1>t, <1>3 DEF Lm!Wake, Lm!setMode, Lm!ReadInTime
  <2> QED
    BY <2>1, <2>2, <2>3 DEF Lm!LmInv
<1>4. CASE Lm!DelayOver
  <2>1. Lm!TypeOK' /\ Lm!Awake'
    BY <1>0, <1>t, <1>4 DEF Lm!DelayOver, Lm!TypeOK, Lm!Awake, Lm!Fresh, Lm!First
  <2>2. mode = 0 => age <= Period
    BY <1>0, <1>t, <1>4 DEF Lm!DelayOver, Lm!TypeOK, Lm!Awake, Lm!Fresh, Lm!First
  <2>3. Lm!ReadInTime'
    BY <1>t, <1>4, <2>2 DEF Lm!DelayOver, Lm!ReadInTime
  <2> QED
    BY <2>1, <2>3 DEF Lm!LmInv
<1>5. CASE Lm!getTemp
  <2>1. Lm!TypeOK' /\ Lm!Awake'
    BY <1>t, <1>5 DEF Lm!getTemp, Lm!TypeOK, Lm!Awake, Lm!Fresh, Lm!First
  <2>2. "getTemp" \in refused' \/ Lm!AsPrinted'
    <3>1. CASE temperature' = Lm!Temperature(Lm!AsSent(register))
      <4>1. register \in -1024 .. 1023 /\ held' = register
        BY <1>0, <1>t, <1>5 DEF Lm!getTemp, Lm!TypeOK
      <4> QED
        BY <3>1, <4>1, Sent DEF Lm!AsPrinted
    <3> QED
      BY <1>5, <3>1 DEF Lm!getTemp
  <2>3. Lm!ReadInTime'
    BY <1>t, <1>5, <2>2 DEF Lm!getTemp, Lm!ReadInTime
  <2> QED
    BY <2>1, <2>3 DEF Lm!LmInv
<1>6. CASE Lm!Shutdown
  <2>1. Lm!TypeOK'
    <3>1. mode' \in {0, 1} /\ register' \in Temperatures /\ age' \in 0..(Period + 1)
      BY <1>t, <1>6 DEF Lm!Shutdown, Lm!setMode, Lm!TypeOK
    <3>2. due' \in 0..Period /\ left' \in 0..Delay
      BY <1>0, <1>t, <1>6 DEF Lm!Shutdown, Lm!setMode, Lm!TypeOK
    <3>3. refused' \subseteq {"wake", "getTemp", "shutdown"}
      BY <1>t, <1>6 DEF Lm!Shutdown, Lm!setMode, Lm!TypeOK
    <3> QED
      BY <1>6, <3>1, <3>2, <3>3 DEF Lm!Shutdown, Lm!setMode, Lm!TypeOK
  <2>2. Lm!Awake'
    BY <1>t, <1>6 DEF Lm!Shutdown, Lm!setMode, Lm!Awake, Lm!Fresh, Lm!First
  <2>3. Lm!ReadInTime'
    BY <1>6 DEF Lm!Shutdown, Lm!setMode, Lm!ReadInTime
  <2> QED
    BY <2>1, <2>2, <2>3 DEF Lm!LmInv
<1>7. CASE Lm!Reset
  <2>1. Lm!TypeOK'
    BY <1>0, <1>t, <1>7 DEF Lm!Reset, Lm!TypeOK
  <2>2. Lm!Awake' /\ Lm!ReadInTime'
    BY <1>t, <1>7 DEF Lm!Reset, Lm!Awake, Lm!Fresh, Lm!First, Lm!ReadInTime
  <2> QED
    BY <2>1, <2>2 DEF Lm!LmInv
<1>8. CASE UNCHANGED Lm!vars
  BY <1>t, <1>8 DEF Lm!vars, Lm!LmInv, Lm!TypeOK, Lm!Awake, Lm!Fresh, Lm!First,
                    Lm!ReadInTime, Lm!AsPrinted
<1> QED
  BY <1>1, <1>2, <1>3, <1>4, <1>5, <1>6, <1>7, <1>8 DEF Lm!Next, Lm!app_main

(***************************************************************************)
(* A sensor that acknowledged its wake-up never has an old temperature     *)
(* printed, in whatever mode resets and failed transfers left it.          *)
(***************************************************************************)
THEOREM NeverStale == Lm!Spec => []FreshTemperature
<1>1. Lm!LmInv => FreshTemperature
  BY DEF Lm!LmInv, Lm!ReadInTime, FreshTemperature, Lm!FreshTemperature
<1> QED
  BY <1>1, LmStarts, LmStep, PTL DEF Lm!Spec

-----------------------------------------------------------------------------
(* i2c_PCA_MPU6050 *)

(* A register survives the two bytes it is sent in. *)
LEMMA Assembling ==
  ASSUME NEW raw \in Int, -32768 <= raw, raw < 32768
  PROVE  Mpu!Assembled(Mpu!Byte(raw)) = raw
<1> DEFINE word == raw % 65536
<1>1. /\ word \in Nat /\ word < 65536
      /\ raw >= 0 => word = raw /\ raw < 32768
      /\ raw < 0 => word = raw + 65536 /\ ~(word < 32768)
  <2>1. CASE raw >= 0
    BY <2>1
  <2>2. CASE raw < 0
    BY <2>2
  <2> QED
    BY <2>1, <2>2
<1>2. raw % 256 = word % 256
  OBVIOUS
<1>3. Mpu!Byte(raw).H * 256 + Mpu!Byte(raw).L = (word \div 256) * 256 + (word % 256)
  BY <1>2 DEF Mpu!Byte
<1> HIDE DEF word
<1>4. Mpu!Byte(raw).H * 256 + Mpu!Byte(raw).L = word
  BY <1>1, <1>3, Bytes
<1>5. Mpu!Assembled(Mpu!Byte(raw)) = IF word < 32768 THEN word ELSE word - 65536
  BY <1>4 DEF Mpu!Assembled
<1> QED
  BY <1>1, <1>5

(* Two integer divisions and a sum cost less than 1.53 degrees. *)
LEMMA Rounding ==
  ASSUME NEW raw \in Int, -32768 <= raw, raw < 32768
  PROVE  /\ Mpu!TempDeg(raw) \in Int
         /\ -52020 < 34000 * Mpu!TempDeg(raw) - (100 * raw + 1242020)
         /\ 34000 * Mpu!TempDeg(raw) - (100 * raw + 1242020) < 52020
<1> DEFINE q == Mpu!Truncated(raw, 340)
<1>1. /\ q \in Int
      /\ raw >= 0 => 340 * q <= raw /\ raw < 340 * q + 340
      /\ raw < 0 => raw <= 340 * q /\ 340 * q < raw + 340
  BY DEF Mpu!Truncated
<1>2. Mpu!TempDeg(raw) = Mpu!Truncated(100 * q + 3653, 100)
  BY DEF Mpu!TempDeg
<1> HIDE DEF q
<1>3. Mpu!TempDeg(raw) = q + 36 \/ (raw < 0 /\ Mpu!TempDeg(raw) = q + 37)
  <2>1. CASE 100 * q + 3653 >= 0
    BY <1>1, <1>2, <2>1 DEF Mpu!Truncated
  <2>2. CASE 100 * q + 3653 < 0
    BY <1>1, <1>2, <2>2 DEF Mpu!Truncated
  <2> QED
    BY <1>1, <2>1, <2>2
<1> QED
  BY <1>1, <1>3

LEMMA Shown ==
  ASSUME NEW what \in {"whoAMI", "getTemp", "getRawAcc", "getRawGyro"},
         NEW h \in Mpu!Held(what),
         awake, printed' = [what |-> what, held |-> h, shown |-> Mpu!Transferred(what, h)]
  PROVE  Mpu!Exact'
<1>1. /\ Readings \subseteq Int /\ \A r \in Readings : -32768 <= r /\ r < 32768
      /\ Garbage \notin Int
  BY MpuAssumption DEF Mpu!ConstantsAssumption
<1>2. printed'.what = what /\ printed'.held = h /\ printed'.shown = Mpu!Shown(what, h)
  BY DEF Mpu!Transferred
<1>3. CASE what = "whoAMI"
  BY <1>2, <1>3 DEF Mpu!Shown, Mpu!Exact
<1>4. CASE what = "getTemp"
  <2>1. h \in Readings
    BY <1>4 DEF Mpu!Held
  <2>2. h \in Int /\ -32768 <= h /\ h < 32768
    BY <1>1, <2>1
  <2>3. printed'.shown = Mpu!TempDeg(h)
    BY <1>2, <1>4, <2>2, Assembling DEF Mpu!Shown
  <2>4. Mpu!TempDeg(h) # Garbage /\ Mpu!TempError' = 34000 * Mpu!TempDeg(h) - (100 * h + 1242020)
    BY <1>1, <1>2, <2>2, <2>3, Rounding DEF Mpu!TempError
  <2> QED
    BY <1>2, <1>4, <2>2, <2>3, <2>4, Rounding DEF Mpu!Exact
<1>5. CASE what \in {"getRawAcc", "getRawGyro"}
  <2>1. h \in Readings
    BY <1>5 DEF Mpu!Held
  <2>2. h \in Int /\ -32768 <= h /\ h < 32768
    BY <1>1, <2>1
  <2>3. printed'.shown = h
    BY <1>2, <1>5, <2>2, Assembling DEF Mpu!Shown
  <2> QED
    BY <1>2, <1>5, <2>3 DEF Mpu!Exact
<1> QED
  BY <1>3, <1>4, <1>5

LEMMA MpuStarts == Mpu!Init => Mpu!MpuInv
<1> SUFFICES ASSUME Mpu!Init PROVE Mpu!MpuInv
  OBVIOUS
<1>1. Links \in Nat /\ MaxFaults \in Nat
  BY MpuAssumption DEF Mpu!ConstantsAssumption
<1>2. Mpu!TypeOK /\ Mpu!LeakBounded
  BY <1>1 DEF Mpu!Init, Mpu!TypeOK, Mpu!LeakBounded, Mpu!Reads
<1>3. Mpu!SetUp
  BY DEF Mpu!Init, Mpu!SetUp
<1>4. Mpu!PrintedAsHeld
  BY DEF Mpu!Init, Mpu!Nothing, Mpu!PrintedAsHeld, Mpu!Exact
<1> QED
  BY <1>2, <1>3, <1>4 DEF Mpu!MpuInv

(* A read leaks one link, and while the heap lasts there are two to create. *)
LEMMA MpuReads ==
  ASSUME Mpu!MpuInv,
         NEW what \in {"whoAMI", "getTemp", "getRawAcc", "getRawGyro"},
         NEW next \in {"getTemp", "getRawAcc", "getRawGyro", "delay"},
         Mpu!Reads[next] = Mpu!Reads[what] + 1, Mpu!Reads[what] \in 0..3,
         Mpu!Read(what, next)
  PROVE  Mpu!MpuInv'
<1>0. Links \in Nat /\ Mpu!TypeOK /\ Mpu!LeakBounded /\ Mpu!SetUp
  BY MpuAssumption DEF Mpu!ConstantsAssumption, Mpu!MpuInv
<1>1. /\ heap \in 0..Links /\ turns \in 0..(Links + 1) /\ faults \in 0..MaxFaults /\ MaxFaults \in Nat
      /\ mpc = what /\ mpc' = next /\ turns' = turns /\ channel' = channel /\ awake' = awake
  BY <1>0, MpuAssumption DEF Mpu!TypeOK, Mpu!Read, Mpu!ConstantsAssumption
<1>2. \/ heap > 0 /\ heap' = heap - 1
      \/ heap = 0 /\ heap' = 0
  BY <1>0, <1>1 DEF Mpu!Read, Mpu!AfterRead
<1>3. heap' \in 0..Links
  BY <1>0, <1>1, <1>2
<1>4. Mpu!LeakBounded'
  BY <1>0, <1>1, <1>2 DEF Mpu!LeakBounded
<1>5. PICK h \in Mpu!Held(what) :
        \/ /\ Mpu!Answers /\ Mpu!NoFault
           /\ printed' = [what |-> what, held |-> h, shown |-> Mpu!Transferred(what, h)]
        \/ IF Mpu!Answers THEN Mpu!Fault ELSE Mpu!NoFault
  BY DEF Mpu!Read
<1>6. /\ faults' \in 0..MaxFaults
      /\ (sound' = sound /\ faults' = faults) \/ sound' = FALSE
  BY <1>1, <1>5 DEF Mpu!Fault, Mpu!NoFault
<1>7. sound' \in BOOLEAN
  BY <1>0, <1>6 DEF Mpu!TypeOK
<1>8. Mpu!TypeOK'
  BY <1>0, <1>1, <1>3, <1>6, <1>7 DEF Mpu!TypeOK, Mpu!Reads
<1>9. Mpu!HeapLasts' = Mpu!HeapLasts
  BY <1>1 DEF Mpu!HeapLasts
<1>10. Mpu!SetUp'
  BY <1>0, <1>1, <1>6, <1>9 DEF Mpu!SetUp
<1>11. Mpu!PrintedAsHeld'
  <2> SUFFICES ASSUME sound', Mpu!HeapLasts PROVE Mpu!Exact'
    BY <1>9 DEF Mpu!PrintedAsHeld
  <2>1. channel = 1 /\ awake
    BY <1>0, <1>1, <1>6 DEF Mpu!SetUp, Mpu!PCA9548_CH1
  <2>2. heap > 1
    BY <1>0, <1>1 DEF Mpu!HeapLasts, Mpu!LeakBounded
  <2>3. Mpu!Answers
    BY <2>1, <2>2 DEF Mpu!Answers, Mpu!PCA9548_CH1
  <2>4. printed' = [what |-> what, held |-> h, shown |-> Mpu!Transferred(what, h)]
    BY <1>5, <2>3 DEF Mpu!Fault
  <2> QED
    BY <2>1, <2>4, Shown
<1> QED
  BY <1>4, <1>8, <1>10, <1>11 DEF Mpu!MpuInv

LEMMA FewerTurns ==
  ASSUME NEW a \in Nat, NEW b \in Nat, NEW l \in Nat, a <= b, 4 * (b + 1) < l
  PROVE  4 * (a + 1) < l
OBVIOUS

LEMMA MpuStep == Mpu!MpuInv /\ [Mpu!Next]_Mpu!vars => Mpu!MpuInv'
<1> SUFFICES ASSUME Mpu!MpuInv, [Mpu!Next]_Mpu!vars PROVE Mpu!MpuInv'
  OBVIOUS
<1>0. /\ Links \in Nat /\ MaxFaults \in Nat
      /\ Mpu!TypeOK /\ Mpu!LeakBounded /\ Mpu!SetUp /\ Mpu!PrintedAsHeld
  BY MpuAssumption DEF Mpu!ConstantsAssumption, Mpu!MpuInv
<1>1. CASE Mpu!selectI2CChannel
  <2>1. /\ mpc = "select" /\ mpc' = "init" /\ heap' = heap /\ turns' = turns
        /\ awake' = awake /\ printed' = printed
    BY <1>1 DEF Mpu!selectI2CChannel
  <2>2. \/ heap > 0 /\ sound' = sound /\ faults' = faults /\ channel' = 1
        \/ sound' = FALSE /\ faults' = faults + 1 /\ faults < MaxFaults /\ channel' = channel
        \/ heap = 0 /\ sound' = sound /\ faults' = faults /\ channel' = channel
    BY <1>1 DEF Mpu!selectI2CChannel, Mpu!Fault, Mpu!NoFault, Mpu!PCA9548_CH1
  <2>3. Mpu!TypeOK'
    <3>1. channel' \in 0..2 /\ faults' \in 0..MaxFaults
      BY <1>0, <2>2 DEF Mpu!TypeOK
    <3>2. sound' \in BOOLEAN
      BY <1>0, <2>2 DEF Mpu!TypeOK
    <3> QED
      BY <1>0, <2>1, <3>1, <3>2 DEF Mpu!TypeOK, Mpu!Reads
  <2>4. Mpu!LeakBounded'
    BY <1>0, <2>1 DEF Mpu!LeakBounded, Mpu!Reads
  <2>5. Mpu!HeapLasts' = Mpu!HeapLasts
    BY <2>1 DEF Mpu!HeapLasts
  <2>6. Mpu!HeapLasts => heap > 0
    BY <1>0, <2>1 DEF Mpu!HeapLasts, Mpu!LeakBounded, Mpu!Reads, Mpu!TypeOK
  <2>7. Mpu!SetUp'
    <3> SUFFICES ASSUME sound', Mpu!HeapLasts PROVE channel' = 1
      BY <2>1, <2>5 DEF Mpu!SetUp, Mpu!PCA9548_CH1
    <3>1. heap > 0
      BY <2>6
    <3>2. ~(heap = 0)
      BY <1>0, <3>1 DEF Mpu!TypeOK
    <3> QED
      BY <2>2, <3>2, Zenon
  <2>8. Mpu!PrintedAsHeld'
    <3>1. sound' => sound
      BY <2>2
    <3> QED
      BY <1>0, <2>1, <2>5, <3>1 DEF Mpu!PrintedAsHeld, Mpu!Exact, Mpu!TempError
  <2> QED
    BY <2>3, <2>4, <2>7, <2>8 DEF Mpu!MpuInv
<1>2. CASE Mpu!initMPU6050
  <2>1. /\ mpc = "init" /\ mpc' = "whoAMI" /\ heap' = heap /\ turns' = turns
        /\ channel' = channel /\ printed' = printed
    BY <1>2 DEF Mpu!initMPU6050
  <2>2. \/ sound' = sound /\ faults' = faults /\ awake' = TRUE
        \/ sound' = FALSE /\ faults' = faults + 1 /\ faults < MaxFaults /\ awake' = awake
        \/ /\ ~(heap > 0 /\ channel = 1)
           /\ sound' = sound /\ faults' = faults /\ awake' = awake
    BY <1>2 DEF Mpu!initMPU6050, Mpu!Fault, Mpu!NoFault, Mpu!PCA9548_CH1
  <2>3. Mpu!TypeOK'
    <3>1. faults' \in 0..MaxFaults
      BY <1>0, <2>2 DEF Mpu!TypeOK
    <3>2. sound' \in BOOLEAN
      BY <1>0, <2>2 DEF Mpu!TypeOK
    <3>3. awake' \in BOOLEAN
      BY <1>0, <2>2 DEF Mpu!TypeOK
    <3> QED
      BY <1>0, <2>1, <3>1, <3>2, <3>3 DEF Mpu!TypeOK, Mpu!Reads
  <2>4. Mpu!LeakBounded'
    BY <1>0, <2>1 DEF Mpu!LeakBounded, Mpu!Reads
  <2>5. Mpu!HeapLasts' = Mpu!HeapLasts
    BY <2>1 DEF Mpu!HeapLasts
  <2>6. Mpu!HeapLasts => heap > 0
    BY <1>0, <2>1 DEF Mpu!HeapLasts, Mpu!LeakBounded, Mpu!Reads, Mpu!TypeOK
  <2>7. sound' => sound
    BY <2>2
  <2>8. Mpu!SetUp'
    <3> SUFFICES ASSUME sound', Mpu!HeapLasts PROVE channel' = 1 /\ awake'
      BY <2>5 DEF Mpu!SetUp, Mpu!PCA9548_CH1
    <3>1. channel = 1 /\ heap > 0
      BY <1>0, <2>1, <2>6, <2>7 DEF Mpu!SetUp, Mpu!PCA9548_CH1
    <3> QED
      BY <2>1, <2>2, <3>1
  <2>9. Mpu!PrintedAsHeld'
    BY <1>0, <2>1, <2>5, <2>7 DEF Mpu!PrintedAsHeld, Mpu!Exact, Mpu!TempError
  <2> QED
    BY <2>3, <2>4, <2>8, <2>9 DEF Mpu!MpuInv
<1>3. CASE Mpu!vTaskDelay
  <2>1. /\ mpc = "delay" /\ mpc' = "whoAMI" /\ UNCHANGED <<channel, awake, heap, printed, faults, sound>>
        /\ \/ turns <= Links /\ turns' = turns + 1
           \/ turns > Links /\ turns' = turns
    BY <1>0, <1>3 DEF Mpu!vTaskDelay, Mpu!TypeOK
  <2>2. turns \in 0..(Links + 1) /\ turns' \in 0..(Links + 1) /\ heap \in 0..Links
    BY <1>0, <2>1 DEF Mpu!TypeOK
  <2>3. Mpu!TypeOK'
    BY <1>0, <2>1, <2>2 DEF Mpu!TypeOK, Mpu!Reads
  <2>4. Mpu!LeakBounded'
    BY <1>0, <2>1, <2>2 DEF Mpu!LeakBounded, Mpu!Reads
  <2>5. Mpu!HeapLasts' => Mpu!HeapLasts
    <3>1. turns \in Nat /\ turns' \in Nat /\ turns <= turns'
      BY <2>1, <2>2
    <3>2. Links \in Nat
      BY <1>0
    <3>3. 4 * (turns' + 1) < Links => 4 * (turns + 1) < Links
      BY <3>1, <3>2, FewerTurns
    <3> QED
      BY <3>3 DEF Mpu!HeapLasts
  <2>6. Mpu!SetUp'
    BY <1>0, <2>1, <2>5 DEF Mpu!SetUp
  <2>7. Mpu!PrintedAsHeld'
    BY <1>0, <2>1, <2>5 DEF Mpu!PrintedAsHeld, Mpu!Exact, Mpu!TempError
  <2> QED
    BY <2>3, <2>4, <2>6, <2>7 DEF Mpu!MpuInv
<1>4. CASE Mpu!Read("whoAMI", "getTemp")
  BY <1>4, MpuReads DEF Mpu!Reads
<1>5. CASE Mpu!Read("getTemp", "getRawAcc")
  BY <1>5, MpuReads DEF Mpu!Reads
<1>6. CASE Mpu!Read("getRawAcc", "getRawGyro")
  BY <1>6, MpuReads DEF Mpu!Reads
<1>7. CASE Mpu!Read("getRawGyro", "delay")
  BY <1>7, MpuReads DEF Mpu!Reads
<1>8. CASE Mpu!Brownout
  <2>1. /\ UNCHANGED <<heap, mpc, printed, turns>> /\ channel' = 0 /\ awake' = FALSE
        /\ sound' = FALSE /\ faults' = faults + 1 /\ faults < MaxFaults
    BY <1>8 DEF Mpu!Brownout, Mpu!Fault
  <2>2. Mpu!TypeOK'
    <3>1. channel' \in 0..2 /\ faults' \in 0..MaxFaults
      BY <1>0, <2>1 DEF Mpu!TypeOK
    <3>2. awake' \in BOOLEAN /\ sound' \in BOOLEAN
      BY <2>1
    <3> QED
      BY <1>0, <2>1, <3>1, <3>2 DEF Mpu!TypeOK
  <2>3. Mpu!LeakBounded' /\ Mpu!SetUp' /\ Mpu!PrintedAsHeld'
    BY <1>0, <2>1 DEF Mpu!LeakBounded, Mpu!SetUp, Mpu!PrintedAsHeld
  <2> QED
    BY <2>2, <2>3 DEF Mpu!MpuInv
<1>9. CASE Mpu!Reset
  <2>1. Mpu!TypeOK' /\ Mpu!LeakBounded'
    BY <1>0, <1>9 DEF Mpu!Reset, Mpu!TypeOK, Mpu!LeakBounded, Mpu!Reads
  <2>2. Mpu!SetUp' /\ Mpu!PrintedAsHeld'
    BY <1>9 DEF Mpu!Reset, Mpu!SetUp, Mpu!PrintedAsHeld, Mpu!Exact, Mpu!Nothing
  <2> QED
    BY <2>1, <2>2 DEF Mpu!MpuInv
<1>10. CASE UNCHANGED Mpu!vars
  BY <1>0, <1>10 DEF Mpu!vars, Mpu!MpuInv, Mpu!TypeOK, Mpu!LeakBounded, Mpu!SetUp,
                     Mpu!PrintedAsHeld, Mpu!HeapLasts, Mpu!Exact, Mpu!TempError
<1> QED
  BY <1>1, <1>2, <1>3, <1>4, <1>5, <1>6, <1>7, <1>8, <1>9, <1>10 DEF Mpu!Next, Mpu!loop_task

(***************************************************************************)
(* Until the leaked links have used up the heap, what is printed is what   *)
(* the sensor held, whatever was left selected or asleep before the reset. *)
(***************************************************************************)
THEOREM PrintsWhatIsHeld == Mpu!Spec => []PrintedAsHeld
<1>1. Mpu!MpuInv => PrintedAsHeld
  BY DEF Mpu!MpuInv, PrintedAsHeld
<1> QED
  BY <1>1, MpuStarts, MpuStep, PTL DEF Mpu!Spec

-----------------------------------------------------------------------------
(* dhtdemo *)

(* All the powers of two the code shifts by. *)
LEMMA Powers ==
  /\ 2 ^ 0 = 1 /\ 2 ^ 1 = 2 /\ 2 ^ 2 = 4 /\ 2 ^ 3 = 8 /\ 2 ^ 4 = 16
  /\ 2 ^ 5 = 32 /\ 2 ^ 6 = 64 /\ 2 ^ 7 = 128 /\ 2 ^ 8 = 256
OBVIOUS

LEMMA Width == ASSUME BYTE_BITS = 8 PROVE Dht!Radix = 256 /\ Dht!Half = 128
<1>1. BYTE_BITS - 1 = 7
  OBVIOUS
<1> QED
  BY <1>1, Powers DEF Dht!Radix, Dht!Half

(* A measurement survives its two bytes. *)
LEMMA Converted ==
  ASSUME BYTE_BITS = 8, NEW v, Dht!Fits(sensor_type, v)
  PROVE  /\ Dht!Bytes(v)[1] \in 0..255 /\ Dht!Bytes(v)[2] \in 0..255
         /\ Dht!dht_convert_data(Dht!Bytes(v)[1], Dht!Bytes(v)[2]) = Dht!Units(v)
<1>1. CASE sensor_type = "DHT_TYPE_DHT11"
  <2>1. v \in 0..255 /\ Dht!Bytes(v) = <<v, 0>>
    BY <1>1, Width DEF Dht!Fits, Dht!Bytes
  <2> QED
    BY <1>1, <2>1 DEF Dht!dht_convert_data, Dht!Units
<1>2. CASE sensor_type # "DHT_TYPE_DHT11"
  <2>1. v \in Int /\ -32768 < v /\ v < 32768
    BY <1>2, Width DEF Dht!Fits
  <2>2. CASE v >= 0
    <3>1. Dht!Bytes(v) = <<v \div 256, v % 256>>
      BY <1>2, <2>1, <2>2, Width DEF Dht!Bytes
    <3>2. v \div 256 \in 0..127 /\ v % 256 \in 0..255 /\ v = 256 * (v \div 256) + (v % 256)
      BY <2>1, <2>2
    <3>3. (v \div 256) % 128 = v \div 256
      BY <3>2
    <3> QED
      BY <1>2, <2>1, <3>1, <3>2, <3>3, Width DEF Dht!dht_convert_data, Dht!Units
  <2>3. CASE v < 0
    <3> DEFINE w == -v
    <3>1. Dht!Bytes(v) = <<128 + (w \div 256), w % 256>>
      BY <1>2, <2>1, <2>3, Width DEF Dht!Bytes
    <3>2. w \in 1..32767 /\ v = -w
      BY <2>1, <2>3
    <3> HIDE DEF w
    <3>3. w \div 256 \in 0..127 /\ w % 256 \in 0..255 /\ w = 256 * (w \div 256) + (w % 256)
      BY <3>2
    <3>4. (128 + (w \div 256)) % 128 = w \div 256 /\ ~(128 + (w \div 256) < 128)
      BY <3>3
    <3> QED
      BY <1>2, <3>1, <3>2, <3>3, <3>4, Width DEF Dht!dht_convert_data, Dht!Units
  <2> QED
    BY <2>1, <2>2, <2>3
<1> QED
  BY <1>1, <1>2

LEMMA Framed ==
  ASSUME BYTE_BITS = 8, Dht!TypeOK
  PROVE  /\ \A b \in 1..5 : Dht!Frame[b] \in 0..255
         /\ Dht!Frame[5] = (Dht!Frame[1] + Dht!Frame[2] + Dht!Frame[3] + Dht!Frame[4]) % 256
         /\ Dht!dht_convert_data(Dht!Frame[1], Dht!Frame[2]) = Dht!Units(measured[1])
         /\ Dht!dht_convert_data(Dht!Frame[3], Dht!Frame[4]) = Dht!Units(measured[2])
<1> DEFINE h == Dht!Bytes(measured[1])
           t == Dht!Bytes(measured[2])
<1>1. measured[1] \in Percents[sensor_type] /\ measured[2] \in Degrees[sensor_type]
  BY DEF Dht!TypeOK, Dht!Measurable
<1>2. Dht!Fits(sensor_type, measured[1]) /\ Dht!Fits(sensor_type, measured[2])
  BY <1>1, DhtAssumption DEF Dht!ConstantsAssumption, Dht!TypeOK
<1>3. /\ h[1] \in 0..255 /\ h[2] \in 0..255 /\ t[1] \in 0..255 /\ t[2] \in 0..255
      /\ Dht!dht_convert_data(h[1], h[2]) = Dht!Units(measured[1])
      /\ Dht!dht_convert_data(t[1], t[2]) = Dht!Units(measured[2])
  BY <1>2, Converted
<1>4. Dht!Frame = <<h[1], h[2], t[1], t[2], (h[1] + h[2] + t[1] + t[2]) % 256>>
  BY Width DEF Dht!Frame
<1> HIDE DEF h, t
<1>5. /\ Dht!Frame[1] = h[1] /\ Dht!Frame[2] = h[2] /\ Dht!Frame[3] = t[1] /\ Dht!Frame[4] = t[2]
      /\ Dht!Frame[5] = (h[1] + h[2] + t[1] + t[2]) % 256
  BY <1>4
<1>6. Dht!Frame[5] \in 0..255
  <2>1. \A w, x, y, z \in 0..255 : w + x + y + z \in Nat
    OBVIOUS
  <2>3. h[1] + h[2] + t[1] + t[2] \in Nat
    BY <1>3, <2>1
  <2>2. \A n \in Nat : n % 256 \in 0..255
    OBVIOUS
  <2> QED
    BY <1>5, <2>2, <2>3
<1>7. \A b \in 1..5 : b = 1 \/ b = 2 \/ b = 3 \/ b = 4 \/ b = 5
  OBVIOUS
<1>8. \A b \in 1..5 : Dht!Frame[b] \in 0..255
  BY <1>3, <1>5, <1>6, <1>7
<1> QED
  BY <1>3, <1>5, <1>8

(* The places of the bits in a byte, from the highest to the lowest. *)
LEMMA Places ==
  ASSUME BYTE_BITS = 8, NEW m \in 0..7
  PROVE  /\ 2 ^ (BYTE_BITS - 1 - m) \in {1, 2, 4, 8, 16, 32, 64, 128}
         /\ 2 ^ (BYTE_BITS - m) = 2 * 2 ^ (BYTE_BITS - 1 - m)
<1>0. m = 0 \/ m = 1 \/ m = 2 \/ m = 3 \/ m = 4 \/ m = 5 \/ m = 6 \/ m = 7
  OBVIOUS
<1>1. CASE m = 0
  <2>1. BYTE_BITS - m = 8 /\ BYTE_BITS - 1 - m = 7
    BY <1>1
  <2>2. 2 ^ (BYTE_BITS - m) = 256 /\ 2 ^ (BYTE_BITS - 1 - m) = 128
    <3>1. 2 ^ 8 = 256 /\ 2 ^ 7 = 128
      BY Powers
    <3>2. 2 ^ (BYTE_BITS - m) = 2 ^ 8
      BY <2>1, Zenon
    <3>3. 2 ^ (BYTE_BITS - 1 - m) = 2 ^ 7
      BY <2>1, Zenon
    <3> QED
      BY <3>1, <3>2, <3>3
  <2> QED
    BY <2>2
<1>2. CASE m = 1
  <2>1. BYTE_BITS - m = 7 /\ BYTE_BITS - 1 - m = 6
    BY <1>2
  <2>2. 2 ^ (BYTE_BITS - m) = 128 /\ 2 ^ (BYTE_BITS - 1 - m) = 64
    BY <2>1, Powers
  <2> QED
    BY <2>2
<1>3. CASE m = 2
  <2>1. BYTE_BITS - m = 6 /\ BYTE_BITS - 1 - m = 5
    BY <1>3
  <2>2. 2 ^ (BYTE_BITS - m) = 64 /\ 2 ^ (BYTE_BITS - 1 - m) = 32
    BY <2>1, Powers
  <2> QED
    BY <2>2
<1>4. CASE m = 3
  <2>1. BYTE_BITS - m = 5 /\ BYTE_BITS - 1 - m = 4
    BY <1>4
  <2>2. 2 ^ (BYTE_BITS - m) = 32 /\ 2 ^ (BYTE_BITS - 1 - m) = 16
    BY <2>1, Powers
  <2> QED
    BY <2>2
<1>5. CASE m = 4
  <2>1. BYTE_BITS - m = 4 /\ BYTE_BITS - 1 - m = 3
    BY <1>5
  <2>2. 2 ^ (BYTE_BITS - m) = 16 /\ 2 ^ (BYTE_BITS - 1 - m) = 8
    BY <2>1, Powers
  <2> QED
    BY <2>2
<1>6. CASE m = 5
  <2>1. BYTE_BITS - m = 3 /\ BYTE_BITS - 1 - m = 2
    BY <1>6
  <2>2. 2 ^ (BYTE_BITS - m) = 8 /\ 2 ^ (BYTE_BITS - 1 - m) = 4
    BY <2>1, Powers
  <2> QED
    BY <2>2
<1>7. CASE m = 6
  <2>1. BYTE_BITS - m = 2 /\ BYTE_BITS - 1 - m = 1
    BY <1>7
  <2>2. 2 ^ (BYTE_BITS - m) = 4 /\ 2 ^ (BYTE_BITS - 1 - m) = 2
    BY <2>1, Powers
  <2> QED
    BY <2>2
<1>8. CASE m = 7
  <2>1. BYTE_BITS - m = 1 /\ BYTE_BITS - 1 - m = 0
    BY <1>8
  <2>2. 2 ^ (BYTE_BITS - m) = 2 /\ 2 ^ (BYTE_BITS - 1 - m) = 1
    BY <2>1, Powers
  <2> QED
    BY <2>2
<1> QED
  BY <1>0, <1>1, <1>2, <1>3, <1>4, <1>5, <1>6, <1>7, <1>8

LEMMA BitPlaced ==
  ASSUME NEW v \in 0..255, NEW c \in {1, 2, 4, 8, 16, 32, 64, 128}
  PROVE  /\ (v \div c) * c \in Int /\ (v \div (2 * c)) * (2 * c) \in Int
         /\ (v \div c) * c = (v \div (2 * c)) * (2 * c) + ((v \div c) % 2) * c
<1>1. CASE c = 1
  <2>1. 2 * c = 2
    BY <1>1
  <2> QED
    BY <1>1, <2>1
<1>2. CASE c = 2
  <2>1. 2 * c = 4
    BY <1>2
  <2> QED
    BY <1>2, <2>1
<1>3. CASE c = 4
  <2>1. 2 * c = 8
    BY <1>3
  <2> QED
    BY <1>3, <2>1
<1>4. CASE c = 8
  <2>1. 2 * c = 16
    BY <1>4
  <2> QED
    BY <1>4, <2>1
<1>5. CASE c = 16
  <2>1. 2 * c = 32
    BY <1>5
  <2> QED
    BY <1>5, <2>1
<1>6. CASE c = 32
  <2>1. 2 * c = 64
    BY <1>6
  <2> QED
    BY <1>6, <2>1
<1>7. CASE c = 64
  <2>1. 2 * c = 128
    BY <1>7
  <2> QED
    BY <1>7, <2>1
<1>8. CASE c = 128
  <2>1. 2 * c = 256
    BY <1>8
  <2> QED
    BY <1>8, <2>1
<1> QED
  BY <1>1, <1>2, <1>3, <1>4, <1>5, <1>6, <1>7, <1>8

(* One bit more: what was heard of a byte grows by this bit in its place. *)
LEMMA BitHeard ==
  ASSUME BYTE_BITS = 8, NEW v \in 0..255, NEW m \in 0..7
  PROVE  /\ Dht!Heard(v, m) \in Int /\ Dht!Heard(v, m + 1) \in Int
         /\ Dht!Heard(v, m + 1) =
              Dht!Heard(v, m) + ((v \div 2 ^ (BYTE_BITS - 1 - m)) % 2) * 2 ^ (BYTE_BITS - 1 - m)
<1> DEFINE c == 2 ^ (BYTE_BITS - 1 - m)
<1>1. BYTE_BITS - (m + 1) = BYTE_BITS - 1 - m
  OBVIOUS
<1>2. c \in {1, 2, 4, 8, 16, 32, 64, 128} /\ 2 ^ (BYTE_BITS - m) = 2 * c
  BY Places
<1>3. Dht!Heard(v, m + 1) = (v \div c) * c
  BY <1>1 DEF Dht!Heard
<1>4. Dht!Heard(v, m) = (v \div (2 * c)) * (2 * c)
  BY <1>2 DEF Dht!Heard
<1> HIDE DEF c
<1>5. /\ (v \div c) * c \in Int /\ (v \div (2 * c)) * (2 * c) \in Int
      /\ (v \div c) * c = (v \div (2 * c)) * (2 * c) + ((v \div c) % 2) * c
  BY <1>2, BitPlaced
<1>6. /\ Dht!Heard(v, m) \in Int /\ Dht!Heard(v, m + 1) \in Int
      /\ Dht!Heard(v, m + 1) = Dht!Heard(v, m) + ((v \div c) % 2) * c
  BY <1>3, <1>4, <1>5, Zenon
<1> QED
  BY <1>6 DEF c

(* Nothing is heard of a byte before its first bit, and all of it with its last. *)
LEMMA HeardEnds ==
  ASSUME BYTE_BITS = 8, NEW v \in 0..255
  PROVE  Dht!Heard(v, 0) = 0 /\ Dht!Heard(v, 8) = v
<1>1. BYTE_BITS - 0 = 8 /\ BYTE_BITS - 8 = 0
  OBVIOUS
<1>2. Dht!Heard(v, 0) = (v \div 256) * 256 /\ Dht!Heard(v, 8) = (v \div 1) * 1
  BY <1>1, Powers DEF Dht!Heard
<1> QED
  BY <1>2

LEMMA HeardInt ==
  ASSUME BYTE_BITS = 8, NEW v \in 0..255, NEW n \in 0..8
  PROVE  Dht!Heard(v, n) \in Int
<1>1. CASE n = 8
  <2>1. 7 \in 0..7 /\ 7 + 1 = 8
    OBVIOUS
  <2> QED
    BY <1>1, HeardEnds
<1>2. CASE n # 8
  <2>1. n \in 0..7
    BY <1>2
  <2> QED
    BY <2>1, BitHeard
<1> QED
  BY <1>1, <1>2

LEMMA ErrorInt ==
  ASSUME BYTE_BITS = 8, Dht!TypeOK
  PROVE  \A b \in 1..5 : Dht!Error(b) \in Int
<1> SUFFICES ASSUME NEW b \in 1..5 PROVE Dht!Error(b) \in Int
  OBVIOUS
<1>1. Dht!Frame[b] \in 0..255
  BY Framed
<1>2. Dht!BitsOf(b) \in 0..8
  BY DEF Dht!BitsOf, Dht!TypeOK
<1>3. data[b] \in Int
  BY DEF Dht!TypeOK
<1>4. Dht!Heard(Dht!Frame[b], Dht!BitsOf(b)) \in Int
  BY <1>1, <1>2, HeardInt
<1> QED
  BY <1>3, <1>4 DEF Dht!Error

(* A bit read changes nothing but its own byte, and that byte only if it is wrong. *)
LEMMA BitRead ==
  ASSUME BYTE_BITS = 8, Dht!TypeOK, bit < 40, NEW x \in {0, 1}, NEW byte, NEW m,
         byte = (bit \div BYTE_BITS) + 1, m = bit % BYTE_BITS,
         data' = [data EXCEPT ![byte] = Dht!Stored(byte, m, x)], bit' = bit + 1,
         UNCHANGED <<sensor_type, measured>>
  PROVE  /\ byte \in 1..5 /\ data' \in [1..5 -> Int]
         /\ \A b \in 1..5 \ {byte} : Dht!Error(b)' = Dht!Error(b)
         /\ x = Dht!Sent(bit) => Dht!Error(byte)' = 0 \/ Dht!Error(byte)' = Dht!Error(byte)
         /\ Dht!Error(byte) = 0 => -128 <= Dht!Error(byte)' /\ Dht!Error(byte)' <= 128
<1>1. bit \in Nat /\ data \in [1..5 -> Int]
  BY DEF Dht!TypeOK
<1>2. byte \in 1..5 /\ m \in 0..7 /\ bit = 8 * (byte - 1) + m
  BY <1>1
<1>3. Dht!Frame' = Dht!Frame /\ \A b \in 1..5 : Dht!Frame[b] \in 0..255
  BY Framed DEF Dht!Frame, Dht!Bytes
<1>4. \A b \in 1..5 \ {byte} : Dht!BitsOf(b)' = Dht!BitsOf(b)
  BY <1>1, <1>2 DEF Dht!BitsOf
<1>5. Dht!BitsOf(byte) = m /\ Dht!BitsOf(byte)' = m + 1
  BY <1>1, <1>2 DEF Dht!BitsOf
<1>6. \A b \in 1..5 \ {byte} : data'[b] = data[b]
  BY <1>1, <1>2
<1>7. \A b \in 1..5 \ {byte} : Dht!Error(b)' = Dht!Error(b)
  BY <1>3, <1>4, <1>6 DEF Dht!Error, Dht!Heard
<1> DEFINE c == 2 ^ (BYTE_BITS - 1 - m)
           f == Dht!Frame[byte]
           h == Dht!Heard(f, m)
           d == data[byte]
           s == Dht!Sent(bit)
<1>8. data'[byte] = (IF m = 0 THEN 0 ELSE d) + x * c
  BY <1>1, <1>2 DEF Dht!Stored
<1>9. c \in {1, 2, 4, 8, 16, 32, 64, 128}
  BY <1>2, Places
<1>10. s = (f \div c) % 2
  <2>1. byte = (bit \div BYTE_BITS) + 1 /\ m = bit % BYTE_BITS
    OBVIOUS
  <2> QED
    BY <2>1, Zenon DEF Dht!Sent
<1>11. f \in 0..255 /\ s \in {0, 1}
  <2>1. f \in 0..255
    BY <1>2, <1>3
  <2>2. f \div c \in Nat
    BY <1>9, <2>1
  <2>3. \A n \in Nat : n % 2 \in {0, 1}
    OBVIOUS
  <2> QED
    BY <1>10, <2>1, <2>2, <2>3
<1>12. h \in Int /\ Dht!Heard(f, m + 1) = h + s * c
  BY <1>2, <1>10, <1>11, BitHeard, Zenon
<1>13. m = 0 => h = 0
  BY <1>11, HeardEnds
<1>14. d \in Int
  BY <1>1, <1>2
<1>15. Dht!Error(byte) = d - h
  BY <1>5 DEF Dht!Error
<1>16. Dht!Error(byte)' = data'[byte] - (h + s * c)
  BY <1>3, <1>5, <1>12 DEF Dht!Error, Dht!Heard
<1> HIDE DEF c, f, h, d, s
<1>17. data'[byte] \in Int
  BY <1>8, <1>9, <1>14
<1>18. data' \in [1..5 -> Int]
  BY <1>1, <1>2, <1>6, <1>17
<1>19. x = s => Dht!Error(byte)' = 0 \/ Dht!Error(byte)' = Dht!Error(byte)
  BY <1>8, <1>9, <1>11, <1>12, <1>13, <1>14, <1>15, <1>16
<1>20. Dht!Error(byte) = 0 => -128 <= Dht!Error(byte)' /\ Dht!Error(byte)' <= 128
  BY <1>8, <1>9, <1>11, <1>12, <1>13, <1>14, <1>15, <1>16
<1> QED
  BY <1>2, <1>7, <1>18, <1>19, <1>20 DEF s

(* How late the reader is after a level, and how long it took that to be. *)
LEMMA Overshoot ==
  ASSUME NEW length \in Nat, NEW behind \in Nat, length >= 1
  PROVE  /\ Dht!Duration(length - behind) \in Nat
         /\ behind + Dht!Duration(length - behind) + 2 - length \in Nat
         /\ behind <= 1 => behind + Dht!Duration(length - behind) + 2 - length <= 2
         /\ behind <= 2 /\ length >= 20 =>
              /\ behind + Dht!Duration(length - behind) + 2 - length <= 1
              /\ length - behind - 2 <= Dht!Duration(length - behind)
              /\ Dht!Duration(length - behind) < length - behind
<1> DEFINE d == length - behind
<1>1. d \in Int
  OBVIOUS
<1>2. CASE d > 2
  <2>1. Dht!Duration(d) = 2 * ((d - 1) \div 2)
    BY <1>2 DEF Dht!Duration
  <2>2. Dht!Duration(d) \in Nat /\ d - 2 <= Dht!Duration(d) /\ Dht!Duration(d) < d
    BY <1>1, <1>2, <2>1
  <2> QED
    BY <1>2, <2>2
<1>3. CASE ~(d > 2)
  <2>1. Dht!Duration(d) = 0
    BY <1>3 DEF Dht!Duration
  <2> QED
    BY <1>1, <1>3, <2>1
<1> QED
  BY <1>2, <1>3

(* The levels of the data sheet, and those of any other length. *)
LEMMA Lengths ==
  ASSUME NEW phase \in {"B", "C", "D", "low", "high"}
  PROVE  /\ \A length \in Dht!Lasts[phase] :
              /\ length \in Nat /\ 20 <= length
              /\ phase = "B" => length <= 40
              /\ phase \in {"C", "D"} => length <= 85
              /\ phase = "low" => 48 <= length /\ length <= 55
              /\ phase = "high" => length <= 75
              /\ phase = "high" /\ Dht!Sent(bit) = 0 => length <= 30
              /\ phase = "high" /\ Dht!Sent(bit) # 0 => 68 <= length
         /\ \A length \in Dht!Wrong : length \in Nat /\ length >= 1
<1>1. phase = "B" \/ phase = "C" \/ phase = "D" \/ phase = "low" \/ phase = "high"
  OBVIOUS
<1>2. \A length \in Dht!Wrong : length \in Nat /\ length >= 1
  BY DEF Dht!Wrong
<1>3. CASE phase = "B"
  BY <1>2, <1>3 DEF Dht!Lasts
<1>4. CASE phase = "C"
  BY <1>2, <1>4 DEF Dht!Lasts
<1>5. CASE phase = "D"
  BY <1>2, <1>5 DEF Dht!Lasts
<1>6. CASE phase = "low"
  BY <1>2, <1>6 DEF Dht!Lasts
<1>7. CASE phase = "high"
  BY <1>2, <1>7 DEF Dht!Lasts
<1> QED
  BY <1>1, <1>3, <1>4, <1>5, <1>6, <1>7

(***************************************************************************)
(* A level as the data sheet has it, after at most one wrong one, ends     *)
(* before its limit, and the reader is not late for the next.              *)
(***************************************************************************)
LEMMA RightLevel ==
  ASSUME Dht!TypeOK, dlate <= 2, NEW phase \in {"B", "C", "D", "low", "high"},
         NEW length \in Dht!Lasts[phase], NEW duration, duration = Dht!Duration(length - dlate)
  PROVE  /\ duration \in Nat /\ duration < Dht!Limit[phase]
         /\ dlate + duration + 2 - length <= 1
         /\ phase = "low" => 44 <= duration /\ duration <= 54
         /\ phase = "high" /\ Dht!Sent(bit) = 0 => duration < 44
         /\ phase = "high" /\ Dht!Sent(bit) # 0 => 54 < duration
<1>1. /\ length \in Nat /\ 20 <= length
      /\ phase = "B" => length <= 40
      /\ phase \in {"C", "D"} => length <= 85
      /\ phase = "low" => 48 <= length /\ length <= 55
      /\ phase = "high" => length <= 75
      /\ phase = "high" /\ Dht!Sent(bit) = 0 => length <= 30
      /\ phase = "high" /\ Dht!Sent(bit) # 0 => 68 <= length
  BY Lengths
<1>2. dlate \in Nat /\ length >= 1
  BY <1>1 DEF Dht!TypeOK
<1>3. /\ duration \in Nat /\ length - dlate - 2 <= duration /\ duration < length - dlate
      /\ dlate + duration + 2 - length <= 1
  BY <1>1, <1>2, Overshoot
<1>4. CASE phase = "B"
  <2>1. duration < 40
    BY <1>1, <1>2, <1>3, <1>4
  <2>2. Dht!Limit[phase] = 40
    BY <1>4 DEF Dht!Limit
  <2> QED
    BY <1>3, <1>4, <2>1, <2>2
<1>5. CASE phase = "C" \/ phase = "D"
  <2>1. duration < 88
    BY <1>1, <1>2, <1>3, <1>5
  <2>2. Dht!Limit[phase] = 88
    BY <1>5 DEF Dht!Limit
  <2> QED
    BY <1>3, <1>5, <2>1, <2>2
<1>6. CASE phase = "low"
  <2>1. 44 <= duration /\ duration <= 54 /\ duration < 65
    BY <1>1, <1>2, <1>3, <1>6
  <2>2. Dht!Limit[phase] = 65
    BY <1>6 DEF Dht!Limit
  <2> QED
    BY <1>3, <1>6, <2>1, <2>2
<1>7. CASE phase = "high"
  <2>1. /\ duration < 75
        /\ Dht!Sent(bit) = 0 => duration < 44
        /\ Dht!Sent(bit) # 0 => 54 < duration
    BY <1>1, <1>2, <1>3, <1>7
  <2>2. Dht!Limit[phase] = 75
    BY <1>7 DEF Dht!Limit
  <2> QED
    BY <1>3, <1>7, <2>1, <2>2
<1> QED
  BY <1>4, <1>5, <1>6, <1>7

LEMMA DhtTimes ==
  ASSUME Dht!TypeOK, Dht!NoticedInTime,
         NEW phase \in {"B", "C", "D", "low", "high"}, Dht!Await(phase)
  PROVE  dlate' \in Nat /\ glitches' \in Nat /\ Dht!NoticedInTime'
<1>1. PICK length \in Dht!Lasts[phase] \cup Dht!Wrong :
        /\ dlate' = dlate + Dht!Duration(length - dlate) + 2 - length
        /\ glitches' = IF length \in Dht!Lasts[phase] THEN glitches ELSE glitches + 1
  BY DEF Dht!Await, Dht!DHT_TIMER_INTERVAL
<1>2. dlate \in Nat /\ glitches \in Nat
  BY DEF Dht!TypeOK
<1>3. length \in Nat /\ length >= 1
  BY Lengths
<1>4. dlate' \in Nat /\ (dlate <= 1 => dlate' <= 2)
  BY <1>1, <1>2, <1>3, Overshoot
<1>5. CASE length \in Dht!Lasts[phase]
  <2>1. dlate <= 2 => dlate' <= 1
    BY <1>1, <1>5, RightLevel
  <2> QED
    BY <1>1, <1>2, <1>4, <1>5, <2>1 DEF Dht!NoticedInTime
<1>6. CASE length \notin Dht!Lasts[phase]
  BY <1>1, <1>2, <1>4, <1>6 DEF Dht!NoticedInTime
<1> QED
  BY <1>5, <1>6

(* A level before the first bit, or before a bit: the bytes stay as they are. *)
LEMMA LevelOfNoBit ==
  ASSUME BYTE_BITS = 8, Dht!DhtInv,
         NEW phase \in {"B", "C", "D", "low"}, Dht!Await(phase), dpc' # "done"
  PROVE  Dht!TypeOK' /\ Dht!BitsCounted' /\ Dht!OneBitWrong'
<1>0. Dht!TypeOK /\ Dht!NoticedInTime /\ Dht!BitsCounted /\ Dht!OneBitWrong
  BY DEF Dht!DhtInv, Dht!Await
<1>1. PICK length \in Dht!Lasts[phase] \cup Dht!Wrong :
        /\ glitches' = IF length \in Dht!Lasts[phase] THEN glitches ELSE glitches + 1
        /\ Dht!Noticed(phase, Dht!Duration(length - dlate))
  BY DEF Dht!Await, Dht!Failed
<1> DEFINE duration == Dht!Duration(length - dlate)
<1>2. /\ dpc = phase /\ UNCHANGED <<sensor_type, measured, data, bit>>
      /\ phase = "low" => dpc' = "high" /\ low_duration' = duration
      /\ phase # "low" => low_duration' = low_duration
      /\ phase = "B" => dpc' = "C"
      /\ phase = "C" => dpc' = "D"
      /\ phase = "D" => dpc' = "low"
  BY <1>1 DEF Dht!Await, Dht!Noticed, Dht!Follows
<1>3. length \in Nat /\ length >= 1 /\ dlate \in Nat /\ glitches \in Nat
  BY <1>0, Lengths DEF Dht!TypeOK
<1>4. duration \in Nat
  BY <1>3, Overshoot
<1> HIDE DEF duration
<1>5. dlate' \in Nat /\ glitches' \in Nat
  BY <1>0, DhtTimes
<1>6. Dht!TypeOK'
  <2>1. low_duration' \in Nat
    BY <1>0, <1>2, <1>4 DEF Dht!TypeOK
  <2>2. dpc' \in {"done", "B", "C", "D", "low", "high", "check"}
    BY <1>2
  <2>3. Dht!Measurable' = Dht!Measurable
    BY <1>2 DEF Dht!Measurable
  <2> QED
    BY <1>0, <1>2, <1>5, <2>1, <2>2, <2>3 DEF Dht!TypeOK
<1>7. Dht!BitsCounted'
  BY <1>0, <1>2 DEF Dht!BitsCounted
<1>8. \A b \in 1..5 : Dht!Error(b)' = Dht!Error(b)
  BY <1>2 DEF Dht!Error, Dht!Heard, Dht!Frame, Dht!Bytes, Dht!BitsOf
<1>9. length \in Dht!Lasts[phase] /\ glitches <= 1 => Dht!SteadyLow'
  <2> SUFFICES ASSUME length \in Dht!Lasts[phase], glitches <= 1, dpc' = "high"
               PROVE  44 <= low_duration' /\ low_duration' <= 54
    BY DEF Dht!SteadyLow
  <2>1. phase = "low"
    BY <1>2
  <2>2. dlate <= 2
    BY <1>0, <1>3 DEF Dht!NoticedInTime
  <2> QED
    BY <1>0, <1>2, <2>1, <2>2, RightLevel DEF duration
<1>10. Dht!Half' = Dht!Half
  BY DEF Dht!Half
<1>11. length \in Dht!Lasts[phase] => Dht!OneBitWrong'
  BY <1>0, <1>1, <1>3, <1>8, <1>9, <1>10 DEF Dht!OneBitWrong
<1>12. length \notin Dht!Lasts[phase] => Dht!OneBitWrong'
  BY <1>0, <1>1, <1>3, <1>8 DEF Dht!OneBitWrong
<1> QED
  BY <1>6, <1>7, <1>11, <1>12

(* A bit: right if both its levels were, and wrong in its own byte only. *)
LEMMA LevelOfBit ==
  ASSUME BYTE_BITS = 8, Dht!DhtInv, Dht!Await("high"), dpc' # "done"
  PROVE  Dht!TypeOK' /\ Dht!BitsCounted' /\ Dht!OneBitWrong'
<1>0. Dht!TypeOK /\ Dht!NoticedInTime /\ Dht!BitsCounted /\ Dht!OneBitWrong /\ dpc = "high"
  BY DEF Dht!DhtInv, Dht!Await
<1>1. PICK length \in Dht!Lasts["high"] \cup Dht!Wrong :
        /\ glitches' = IF length \in Dht!Lasts["high"] THEN glitches ELSE glitches + 1
        /\ Dht!Noticed("high", Dht!Duration(length - dlate))
  BY DEF Dht!Await, Dht!Failed
<1> DEFINE duration == Dht!Duration(length - dlate)
<1>b. PICK byte, m, x :
        /\ byte = (bit \div BYTE_BITS) + 1 /\ m = bit % BYTE_BITS
        /\ x = IF duration > low_duration THEN 1 ELSE 0
  OBVIOUS
<1>2. /\ UNCHANGED <<sensor_type, measured, low_duration>>
      /\ bit' = bit + 1 /\ data' = [data EXCEPT ![byte] = Dht!Stored(byte, m, x)]
      /\ dpc' = IF bit + 1 = 5 * BYTE_BITS THEN "check" ELSE "low"
  BY <1>1, <1>b DEF Dht!Await, Dht!Noticed, Dht!Follows
<1>3. length \in Nat /\ length >= 1 /\ dlate \in Nat /\ glitches \in Nat /\ low_duration \in Nat
  BY <1>0, Lengths DEF Dht!TypeOK
<1>4. bit \in Nat /\ bit < 40
  BY <1>0 DEF Dht!TypeOK, Dht!BitsCounted
<1>5. x \in {0, 1}
  BY <1>b
<1>6. /\ byte \in 1..5 /\ data' \in [1..5 -> Int]
      /\ \A b \in 1..5 \ {byte} : Dht!Error(b)' = Dht!Error(b)
      /\ x = Dht!Sent(bit) => Dht!Error(byte)' = 0 \/ Dht!Error(byte)' = Dht!Error(byte)
      /\ Dht!Error(byte) = 0 => -128 <= Dht!Error(byte)' /\ Dht!Error(byte)' <= 128
  BY <1>0, <1>b, <1>2, <1>4, <1>5, BitRead
<1>7. Dht!TypeOK'
  <2>1. dlate' \in Nat /\ glitches' \in Nat
    BY <1>0, DhtTimes
  <2>2. dpc' \in {"done", "B", "C", "D", "low", "high", "check"}
    BY <1>2
  <2>3. Dht!Measurable' = Dht!Measurable
    BY <1>2 DEF Dht!Measurable
  <2>4. bit' \in Nat /\ low_duration' \in Nat
    BY <1>2, <1>3, <1>4
  <2> QED
    BY <1>0, <1>2, <1>6, <2>1, <2>2, <2>3, <2>4 DEF Dht!TypeOK
<1>8. Dht!BitsCounted'
  BY <1>2, <1>4 DEF Dht!BitsCounted
<1>9. Dht!SteadyLow'
  BY <1>2 DEF Dht!SteadyLow
<1>10. length \in Dht!Lasts["high"] /\ glitches <= 1 /\ Dht!SteadyLow => x = Dht!Sent(bit)
  <2> SUFFICES ASSUME length \in Dht!Lasts["high"], glitches <= 1, Dht!SteadyLow
               PROVE  x = Dht!Sent(bit)
    OBVIOUS
  <2>1. dlate <= 2 /\ 44 <= low_duration /\ low_duration <= 54
    BY <1>0, <1>3 DEF Dht!NoticedInTime, Dht!SteadyLow
  <2>2. /\ duration \in Nat
        /\ Dht!Sent(bit) = 0 => duration < 44
        /\ Dht!Sent(bit) # 0 => 54 < duration
    BY <1>0, <2>1, RightLevel
  <2>3. Dht!Sent(bit) \in {0, 1}
    <3>1. Dht!Frame[byte] \in 0..255
      BY <1>0, <1>6, Framed
    <3>2. m \in 0..7
      BY <1>b, <1>4
    <3>3. 2 ^ (BYTE_BITS - 1 - m) \in {1, 2, 4, 8, 16, 32, 64, 128}
      BY <3>2, Places
    <3>4. \A v \in 0..255, c \in {1, 2, 4, 8, 16, 32, 64, 128} : v \div c \in Nat
      OBVIOUS
    <3>5. \A n \in Nat : n % 2 \in {0, 1}
      OBVIOUS
    <3> QED
      BY <1>b, <3>1, <3>3, <3>4, <3>5 DEF Dht!Sent
  <2> HIDE DEF duration
  <2> QED
    BY <1>b, <1>3, <2>1, <2>2, <2>3
<1>11. Dht!Half = 128 /\ Dht!Half' = 128
  BY Width DEF Dht!Half
<1>12. \A b \in 1..5 : Dht!Error(b) \in Int
  BY <1>0, ErrorInt
<1>13. ASSUME length \in Dht!Lasts["high"], Dht!SteadyLow PROVE Dht!OneBitWrong'
  <2>1. glitches' = glitches
    BY <1>1, <1>13
  <2>2. glitches <= 1 => Dht!Error(byte)' = 0 \/ Dht!Error(byte)' = Dht!Error(byte)
    BY <1>6, <1>10, <1>13
  <2>3. glitches = 0 => \A b \in 1..5 : Dht!Error(b)' = 0
    BY <1>0, <1>6, <2>2 DEF Dht!OneBitWrong
  <2>4. CASE \A b \in 1..5 : Dht!Error(b) = 0
    BY <1>6, <1>9, <2>1, <2>2, <2>3, <2>4 DEF Dht!OneBitWrong
  <2>5. CASE glitches = 1 /\ ~\A b \in 1..5 : Dht!Error(b) = 0
    <3>1. PICK b \in 1..5 : /\ -128 <= Dht!Error(b) /\ Dht!Error(b) <= 128
                            /\ \A c \in 1..5 \ {b} : Dht!Error(c) = 0
      BY <1>0, <1>11, <2>5 DEF Dht!OneBitWrong
    <3>2. Dht!Error(b)' = 0 \/ Dht!Error(b)' = Dht!Error(b)
      BY <1>6, <2>2, <2>5
    <3>3. \A c \in 1..5 \ {b} : Dht!Error(c)' = 0
      BY <1>6, <2>2, <2>5, <3>1
    <3>4. -128 <= Dht!Error(b)' /\ Dht!Error(b)' <= 128
      BY <3>1, <3>2
    <3> QED
      BY <1>9, <1>11, <2>1, <2>5, <3>3, <3>4 DEF Dht!OneBitWrong
  <2>6. CASE glitches = 0
    BY <1>9, <2>1, <2>3, <2>6 DEF Dht!OneBitWrong
  <2>7. CASE glitches # 0 /\ glitches # 1
    BY <2>1, <2>7 DEF Dht!OneBitWrong
  <2> QED
    BY <2>4, <2>5, <2>6, <2>7
<1>14. ASSUME ~(length \in Dht!Lasts["high"] /\ Dht!SteadyLow) PROVE Dht!OneBitWrong'
  <2>1. glitches' # 0
    BY <1>0, <1>1, <1>3, <1>14 DEF Dht!OneBitWrong
  <2>2. glitches' = 1 => \A b \in 1..5 : Dht!Error(b) = 0
    BY <1>0, <1>1, <1>3, <1>14 DEF Dht!OneBitWrong
  <2>3. SUFFICES ASSUME \A b \in 1..5 : Dht!Error(b) = 0
                 PROVE  Dht!OneBitWrong'
    BY <2>1, <2>2 DEF Dht!OneBitWrong
  <2>4. -128 <= Dht!Error(byte)' /\ Dht!Error(byte)' <= 128
    BY <1>6, <2>3
  <2>5. \A c \in 1..5 \ {byte} : Dht!Error(c)' = 0
    BY <1>6, <2>3
  <2> QED
    BY <1>6, <1>9, <1>11, <2>1, <2>4, <2>5 DEF Dht!OneBitWrong
<1> QED
  BY <1>7, <1>8, <1>13, <1>14

(* A call starts with five empty bytes, of which nothing was sent. *)
LEMMA NothingRead ==
  ASSUME BYTE_BITS = 8, Dht!TypeOK, bit = 0, data = [b \in 1..5 |-> 0]
  PROVE  \A b \in 1..5 : Dht!Error(b) = 0
<1> SUFFICES ASSUME NEW b \in 1..5 PROVE Dht!Error(b) = 0
  OBVIOUS
<1>1. Dht!BitsOf(b) = 0
  BY DEF Dht!BitsOf
<1>2. Dht!Frame[b] \in 0..255
  BY Framed
<1> QED
  BY <1>1, <1>2, HeardEnds DEF Dht!Error

(* A changed sum: less than a whole byte too much or too little never goes unseen. *)
LEMMA SumTells ==
  ASSUME NEW s \in Nat, NEW e \in Int, -128 <= e, e <= 128, (s + e) % 256 = s % 256
  PROVE  e = 0
<1>1. s = 256 * (s \div 256) + (s % 256) /\ s \div 256 \in Int /\ s % 256 \in Int
  OBVIOUS
<1>2. s + e = 256 * ((s + e) \div 256) + ((s + e) % 256) /\ (s + e) \div 256 \in Int
  OBVIOUS
<1> QED
  BY <1>1, <1>2

(* So the bytes of a frame whose sum is right are those that were sent. *)
LEMMA Accepted ==
  ASSUME BYTE_BITS = 8, Dht!DhtInv, dpc = "check", glitches <= 1, Dht!Checksum
  PROVE  /\ data[1] = Dht!Frame[1] /\ data[2] = Dht!Frame[2]
         /\ data[3] = Dht!Frame[3] /\ data[4] = Dht!Frame[4]
<1>0. Dht!TypeOK /\ Dht!BitsCounted /\ Dht!OneBitWrong
  BY DEF Dht!DhtInv
<1>1. \A b \in 1..5 : Dht!Frame[b] \in 0..255
  BY <1>0, Framed
<1>2. \A b \in 1..5 : Dht!Error(b) \in Int /\ data[b] = Dht!Frame[b] + Dht!Error(b)
  <2> SUFFICES ASSUME NEW b \in 1..5
               PROVE  Dht!Error(b) \in Int /\ data[b] = Dht!Frame[b] + Dht!Error(b)
    OBVIOUS
  <2>1. Dht!BitsOf(b) = 8
    BY <1>0 DEF Dht!BitsCounted, Dht!BitsOf
  <2>2. data[b] \in Int /\ Dht!Frame[b] \in Int
    BY <1>0, <1>1 DEF Dht!TypeOK
  <2>3. Dht!Error(b) = data[b] - Dht!Frame[b]
    BY <1>1, <2>1, HeardEnds DEF Dht!Error
  <2> QED
    BY <2>2, <2>3
<1>3. 1 \in 1..5 /\ 2 \in 1..5 /\ 3 \in 1..5 /\ 4 \in 1..5 /\ 5 \in 1..5
  OBVIOUS
<1>4. /\ Dht!Frame[1] \in Nat /\ Dht!Frame[2] \in Nat /\ Dht!Frame[3] \in Nat
      /\ Dht!Frame[4] \in Nat /\ Dht!Frame[5] \in Nat
  BY <1>1, <1>3
<1> DEFINE s == Dht!Frame[1] + Dht!Frame[2] + Dht!Frame[3] + Dht!Frame[4]
<1>5. s \in Nat /\ Dht!Frame[5] = s % 256
  BY <1>0, <1>4, Framed
<1>6. data[5] = (data[1] + data[2] + data[3] + data[4]) % 256
  BY Width DEF Dht!Checksum
<1>7. \A b \in 1..5 : Dht!Error(b) = 0 => data[b] = Dht!Frame[b]
  <2> SUFFICES ASSUME NEW b \in 1..5, Dht!Error(b) = 0 PROVE data[b] = Dht!Frame[b]
    OBVIOUS
  <2>1. data[b] = Dht!Frame[b] + 0 /\ Dht!Frame[b] \in Nat
    BY <1>1, <1>2
  <2> QED
    BY <2>1
<1>8. CASE \A b \in 1..5 : Dht!Error(b) = 0
  BY <1>3, <1>7, <1>8
<1>9. CASE \E b \in 1..5 : /\ -128 <= Dht!Error(b) /\ Dht!Error(b) <= 128
                           /\ \A c \in 1..5 \ {b} : Dht!Error(c) = 0
  <2>1. PICK b \in 1..5 : /\ -128 <= Dht!Error(b) /\ Dht!Error(b) <= 128
                          /\ \A c \in 1..5 \ {b} : Dht!Error(c) = 0
    BY <1>9
  <2> DEFINE e == Dht!Error(b)
  <2>2. /\ e \in Int /\ -128 <= e /\ e <= 128 /\ data[b] = Dht!Frame[b] + e
        /\ \A c \in 1..5 \ {b} : data[c] = Dht!Frame[c]
    BY <1>2, <1>7, <2>1
  <2> HIDE DEF e
  <2>3. CASE b = 5
    BY <1>3, <2>2, <2>3
  <2>4. CASE b # 5
    <3>1. data[5] = s % 256
      BY <1>5, <2>2, <2>4
    <3>2. data[1] + data[2] + data[3] + data[4] = s + e
      <4>1. CASE b = 1
        BY <1>3, <1>4, <2>2, <4>1
      <4>2. CASE b = 2
        BY <1>3, <1>4, <2>2, <4>2
      <4>3. CASE b = 3
        BY <1>3, <1>4, <2>2, <4>3
      <4>4. CASE b = 4
        BY <1>3, <1>4, <2>2, <4>4
      <4> QED
        BY <2>4, <4>1, <4>2, <4>3, <4>4
    <3> HIDE DEF s
    <3>3. e = 0
      BY <1>5, <1>6, <2>2, <3>1, <3>2, SumTells
    <3>4. data[b] = Dht!Frame[b]
      BY <1>7, <3>3 DEF e
    <3> QED
      BY <1>3, <2>2, <3>4
  <2> QED
    BY <2>3, <2>4
<1>10. CASE glitches = 0
  BY <1>0, <1>8, <1>10 DEF Dht!OneBitWrong
<1>11. CASE glitches = 1
  BY <1>0, <1>8, <1>9, <1>11, Width DEF Dht!OneBitWrong
<1> QED
  BY <1>0, <1>10, <1>11 DEF Dht!TypeOK

LEMMA DhtStarts == ASSUME Dht!Init PROVE Dht!DhtInv
<1>1. Dht!TypeOK
  BY DEF Dht!Init, Dht!TypeOK
<1>2. Dht!NoticedInTime /\ Dht!BitsCounted /\ Dht!LastKept
  BY DEF Dht!Init, Dht!NoticedInTime, Dht!BitsCounted, Dht!LastKept
<1>3. Dht!ReadingIsMeasured
  BY DEF Dht!Init, Dht!ReadingIsMeasured, Dht!ESP_OK, Dht!ESP_ERR_TIMEOUT
<1> QED
  BY <1>1, <1>2, <1>3 DEF Dht!Init, Dht!DhtInv

(* What holds of empty bytes now holds of those the next call starts with. *)
LEMMA NothingReadNext ==
  ASSUME BYTE_BITS = 8
  PROVE  Dht!TypeOK' /\ bit' = 0 /\ data' = [b \in 1..5 |-> 0] => \A b \in 1..5 : Dht!Error(b)' = 0
<1> DEFINE Empty == Dht!TypeOK /\ bit = 0 /\ data = [b \in 1..5 |-> 0]
           Right == \A b \in 1..5 : Dht!Error(b) = 0
<1>1. Empty => Right
  BY NothingRead
<1>2. Empty' => Right'
  BY <1>1, PTL
<1> QED
  BY <1>2

LEMMA DhtStep ==
  ASSUME BYTE_BITS = 8, Dht!DhtInv, [Dht!Next]_Dht!vars
  PROVE  Dht!DhtInv'
<1>0. /\ Dht!TypeOK /\ Dht!NoticedInTime /\ Dht!BitsCounted /\ Dht!LastKept
      /\ Dht!ReadingIsMeasured /\ (dpc # "done" => Dht!OneBitWrong)
  BY DEF Dht!DhtInv
<1>1. CASE Dht!dht_read_data
  <2>1. Dht!TypeOK'
    <3>1. measured' \in Dht!Measurable'
      BY <1>1 DEF Dht!dht_read_data, Dht!Measurable
    <3> QED
      BY <1>0, <1>1, <3>1 DEF Dht!dht_read_data, Dht!TypeOK
  <2>2. Dht!NoticedInTime' /\ Dht!BitsCounted' /\ Dht!LastKept' /\ Dht!ReadingIsMeasured'
    BY <1>1 DEF Dht!dht_read_data, Dht!NoticedInTime, Dht!BitsCounted, Dht!LastKept, Dht!ReadingIsMeasured, Dht!Old
  <2>3. \A b \in 1..5 : Dht!Error(b)' = 0
    BY <1>1, <2>1, NothingReadNext DEF Dht!dht_read_data
  <2>4. Dht!OneBitWrong'
    BY <1>1, <2>3 DEF Dht!dht_read_data, Dht!OneBitWrong, Dht!SteadyLow
  <2> QED
    BY <2>1, <2>2, <2>4 DEF Dht!DhtInv
<1>2. CASE Dht!Check
  <2>1. dpc' = "done" /\ UNCHANGED <<sensor_type, measured, dlate, bit, low_duration, data, glitches>>
    BY <1>2 DEF Dht!Check, Dht!locals
  <2>2. Dht!TypeOK'
    BY <1>0, <2>1 DEF Dht!TypeOK, Dht!Measurable
  <2>3. Dht!NoticedInTime' /\ Dht!BitsCounted' /\ Dht!LastKept'
    BY <1>0, <2>1 DEF Dht!NoticedInTime, Dht!BitsCounted, Dht!LastKept
  <2>4. Dht!ReadingIsMeasured'
    <3>1. CASE ~Dht!Checksum
      BY <1>0, <1>2, <2>1, <3>1 DEF Dht!Check, Dht!LastKept, Dht!ReadingIsMeasured, Dht!ESP_OK,
                                    Dht!ESP_ERR_INVALID_CRC, Dht!Old
    <3>2. CASE Dht!Checksum
      <4>1. dpc = "check" /\ result' = Dht!ESP_OK
            /\ humidity' = Dht!dht_convert_data(data[1], data[2])
            /\ warmth' = Dht!dht_convert_data(data[3], data[4])
        BY <1>2, <3>2 DEF Dht!Check
      <4>2. glitches <= 1 => humidity' = Dht!Units(measured[1]) /\ warmth' = Dht!Units(measured[2])
        BY <1>0, <3>2, <4>1, Accepted, Framed
      <4> QED
        BY <2>1, <4>1, <4>2 DEF Dht!ReadingIsMeasured, Dht!Units
    <3> QED
      BY <3>1, <3>2
  <2> QED
    BY <2>1, <2>2, <2>3, <2>4 DEF Dht!DhtInv
<1>3. ASSUME NEW phase \in {"B", "C", "D", "low", "high"}, Dht!Await(phase)
      PROVE  Dht!DhtInv'
  <2>1. Dht!NoticedInTime' /\ dlate' \in Nat /\ glitches' \in Nat
    BY <1>0, <1>3, DhtTimes
  <2>2. dpc = phase /\ UNCHANGED <<sensor_type, measured, humidity, warmth>>
    BY <1>3 DEF Dht!Await
  <2>3. Dht!LastKept'
    BY <1>0, <2>2 DEF Dht!LastKept, Dht!Old
  <2>4. CASE dpc' = "done"
    <3>1. result' = Dht!ESP_ERR_TIMEOUT /\ UNCHANGED <<bit, low_duration, data>>
      BY <1>3, <2>2, <2>4 DEF Dht!Await, Dht!Noticed, Dht!Follows, Dht!Failed, Dht!locals
    <3>2. Dht!TypeOK'
      BY <1>0, <2>1, <2>2, <2>4, <3>1 DEF Dht!TypeOK, Dht!Measurable
    <3>3. Dht!ReadingIsMeasured'
      BY <1>0, <2>2, <2>4, <3>1 DEF Dht!LastKept, Dht!ReadingIsMeasured, Dht!ESP_OK,
                                    Dht!ESP_ERR_TIMEOUT, Dht!Old
    <3> QED
      BY <2>1, <2>3, <2>4, <3>2, <3>3 DEF Dht!DhtInv, Dht!BitsCounted
  <2>5. CASE dpc' # "done"
    <3>1. Dht!TypeOK' /\ Dht!BitsCounted' /\ Dht!OneBitWrong'
      BY <1>3, <2>5, LevelOfNoBit, LevelOfBit
    <3>2. Dht!ReadingIsMeasured'
      BY <2>5 DEF Dht!ReadingIsMeasured
    <3> QED
      BY <2>1, <2>3, <2>5, <3>1, <3>2 DEF Dht!DhtInv
  <2> QED
    BY <2>4, <2>5
<1>4. CASE UNCHANGED Dht!vars
  <2>1. /\ UNCHANGED <<sensor_type, dpc, measured, dlate, bit, low_duration, data>>
        /\ UNCHANGED <<glitches, result, humidity, warmth>>
    BY <1>4 DEF Dht!vars, Dht!locals
  <2>2. Dht!TypeOK' /\ Dht!NoticedInTime' /\ Dht!BitsCounted' /\ Dht!LastKept'
    BY <1>0, <2>1 DEF Dht!TypeOK, Dht!Measurable, Dht!NoticedInTime, Dht!BitsCounted, Dht!LastKept, Dht!Old
  <2>3. Dht!ReadingIsMeasured'
    BY <1>0, <2>1 DEF Dht!ReadingIsMeasured, Dht!Units, Dht!Old, Dht!ESP_OK
  <2>4. (dpc # "done" => Dht!OneBitWrong)'
    <3>1. \A b \in 1..5 : Dht!Error(b)' = Dht!Error(b)
      BY <2>1 DEF Dht!Error, Dht!Heard, Dht!Frame, Dht!Bytes, Dht!BitsOf
    <3> QED
      BY <1>0, <2>1, <3>1 DEF Dht!OneBitWrong, Dht!SteadyLow, Dht!Half
  <2> QED
    BY <2>2, <2>3, <2>4 DEF Dht!DhtInv
<1> QED
  BY <1>1, <1>2, <1>3, <1>4 DEF Dht!Next

LEMMA DhtAlways == ASSUME BYTE_BITS = 8 PROVE Dht!Spec => []Dht!DhtInv
<1>1. Dht!Init => Dht!DhtInv
  BY DhtStarts
<1>2. Dht!DhtInv /\ [Dht!Next]_Dht!vars => Dht!DhtInv'
  BY DhtStep
<1> QED
  BY <1>1, <1>2, PTL DEF Dht!Spec

(***************************************************************************)
(* dht_read_data: with bytes of eight bits, a reading is what the sensor   *)
(* measured, or none, whichever level of the line had a wrong length.      *)
(***************************************************************************)
THEOREM ReadingsAreMeasured == ASSUME BYTE_BITS = 8 PROVE Dht!Spec => []ReadingIsMeasured
<1>1. Dht!DhtInv => ReadingIsMeasured
  BY DEF Dht!DhtInv, ReadingIsMeasured
<1> QED
  BY <1>1, DhtAlways, PTL

(***************************************************************************)
(* dht_read_data: a sensor that keeps to its data sheet is always read: no *)
(* limit of dht_await_pin_state is met, and the checksum is right.         *)
(***************************************************************************)
THEOREM SteadyLinesAreRead == ASSUME BYTE_BITS = 8 PROVE Dht!Spec => SteadyLineRead
<1>1. Dht!DhtInv /\ [Dht!Next]_Dht!vars
        => [dpc # "done" /\ dpc' = "done" /\ glitches' = 0 => result' = Dht!ESP_OK]_Dht!vars
  <2> SUFFICES ASSUME Dht!DhtInv, Dht!Next, dpc # "done", dpc' = "done", glitches' = 0
               PROVE  result' = Dht!ESP_OK
    OBVIOUS
  <2>0. Dht!TypeOK /\ Dht!NoticedInTime /\ Dht!BitsCounted /\ Dht!OneBitWrong
    BY DEF Dht!DhtInv
  <2>1. CASE Dht!Check
    <3>1. glitches = 0 /\ dpc = "check"
      BY <2>1 DEF Dht!Check
    <3>2. \A b \in 1..5 : data[b] = Dht!Frame[b]
      <4> SUFFICES ASSUME NEW b \in 1..5 PROVE data[b] = Dht!Frame[b]
        OBVIOUS
      <4>1. Dht!BitsOf(b) = 8
        BY <2>0, <3>1 DEF Dht!BitsCounted, Dht!BitsOf
      <4>2. Dht!Frame[b] \in 0..255
        BY <2>0, Framed
      <4>3. Dht!Error(b) = data[b] - Dht!Frame[b] /\ Dht!Error(b) = 0
        BY <2>0, <3>1, <4>1, <4>2, HeardEnds DEF Dht!Error, Dht!OneBitWrong
      <4>4. data[b] \in Int
        BY <2>0 DEF Dht!TypeOK
      <4> QED
        BY <4>2, <4>3, <4>4
    <3>3. Dht!Checksum
      BY <2>0, <3>2, Framed, Width DEF Dht!Checksum
    <3> QED
      BY <2>1, <3>3 DEF Dht!Check
  <2>2. ASSUME NEW phase \in {"B", "C", "D", "low", "high"}, Dht!Await(phase)
        PROVE  FALSE
    <3>1. PICK length \in Dht!Lasts[phase] \cup Dht!Wrong :
            /\ glitches' = IF length \in Dht!Lasts[phase] THEN glitches ELSE glitches + 1
            /\ IF Dht!Duration(length - dlate) < Dht!Limit[phase]
                 THEN Dht!Noticed(phase, Dht!Duration(length - dlate)) ELSE Dht!Failed
      BY <2>2 DEF Dht!Await
    <3>2. glitches \in Nat
      BY <2>0 DEF Dht!TypeOK
    <3>3. length \in Dht!Lasts[phase] /\ glitches = 0
      BY <3>1, <3>2
    <3>4. Dht!Duration(length - dlate) < Dht!Limit[phase]
      BY <2>0, <3>3, RightLevel DEF Dht!NoticedInTime, Dht!TypeOK
    <3> QED
      BY <3>1, <3>4 DEF Dht!Noticed, Dht!Follows
  <2>3. CASE Dht!dht_read_data
    BY <2>3 DEF Dht!dht_read_data
  <2> QED
    BY <2>1, <2>2, <2>3 DEF Dht!Next
<1> QED
  BY <1>1, DhtAlways, PTL DEF Dht!Spec, SteadyLineRead, Dht!SteadyLineRead
=============================================================================
