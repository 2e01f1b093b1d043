----------------------------- MODULE DacSampling -----------------------------
(***************************************************************************)
(* spidemo_dac: adcRead_task adds NO_OF_SAMPLES readings of the ADC up in  *)
(* the global adc_reading, divides it and sleeps; app_main hands whatever  *)
(* adc_reading holds at the moment to dacSetVoltage, which sends a command *)
(* word to the MCP4822.  The tasks may run on different cores and nothing  *)
(* orders their steps.                                                     *)
(***************************************************************************)
EXTENDS Integers, Sequences

CONSTANTS NO_OF_SAMPLES,  \* 64 in the code
          Raw             \* what adc1_get_raw returns: 0..4095

ASSUME ConstantsAssumption ==
  NO_OF_SAMPLES \in Nat \ {0} /\ Raw \subseteq 0..4095

Channel == 0     \* DAC_CHANEL_A
Gain    == 0     \* DAC_GAIN_2x
OnOff   == 1     \* DAC_ON

VARIABLES
  adc_reading,   \* the global
  pc, i,         \* adcRead_task: to "clear", in its "sum" at sample i, or done ("average")
  low, high,     \* the smallest and the largest sample of the current sum
  voltage,       \* the last argument of dacSetVoltage, 0 before the first call
  dac            \* the two bytes last sent to the DAC

vars == <<adc_reading, pc, i, low, high, voltage, dac>>

(***************************************************************************)
(* dacSetVoltage's command word and spi_master_write_data_word's bytes.    *)
(***************************************************************************)
Unmasked(v) == Channel * 32768 + Gain * 8192 + OnOff * 4096 + v

Command(v) == Channel * 32768 + Gain * 8192 + OnOff * 4096 + (v % 4096)

Swapped(word) == <<word % 256, (word \div 256) % 256>>

Byte(word) == <<(word \div 256) % 256, word % 256>>

(* What the MCP4822 does with them. *)
Latched(bytes) ==
  LET word == bytes[1] * 256 + bytes[2]
  IN  [channel |-> word \div 32768, gain |-> (word \div 8192) % 2,
       onoff |-> (word \div 4096) % 2, level |-> word % 4096]

Init ==
  /\ adc_reading = 0 /\ pc = "clear" /\ i = 0 /\ low = 4095 /\ high = 0
  /\ voltage = 0 /\ dac = Byte(Command(0))

NotCleared == UNCHANGED adc_reading
Cleared    == adc_reading' = 0

Clear ==
  /\ pc = "clear" /\ Cleared
  /\ pc' = "sum" /\ i' = 0 /\ low' = 4095 /\ high' = 0
  /\ UNCHANGED <<voltage, dac>>

Sample ==
  /\ pc = "sum" /\ i < NO_OF_SAMPLES
  /\ \E raw \in Raw :
       /\ adc_reading' = adc_reading + raw
       /\ low' = IF raw < low THEN raw ELSE low
       /\ high' = IF raw > high THEN raw ELSE high
  /\ i' = i + 1
  /\ UNCHANGED <<pc, voltage, dac>>

Average ==
  /\ pc = "sum" /\ i = NO_OF_SAMPLES
  /\ adc_reading' = adc_reading \div NO_OF_SAMPLES
  /\ pc' = "average"
  /\ UNCHANGED <<i, low, high, voltage, dac>>

Sleep == pc = "average" /\ pc' = "clear" /\ UNCHANGED <<adc_reading, i, low, high, voltage, dac>>

dacSetVoltage ==
  /\ voltage' = adc_reading
  /\ dac' = Byte(Command(adc_reading))
  /\ UNCHANGED <<adc_reading, pc, i, low, high>>

adcRead_task == Clear \/ Sample \/ Average \/ Sleep
Next == adcRead_task \/ dacSetVoltage
Spec == Init /\ [][Next]_vars

-----------------------------------------------------------------------------
TypeOK ==
  /\ adc_reading \in Nat /\ voltage \in Nat
  /\ pc \in {"clear", "sum", "average"} /\ i \in 0..NO_OF_SAMPLES
  /\ low \in 0..4095 /\ high \in 0..4095

(* "@param voltage: 0-4095": what dacSetVoltage is called with. *)
VoltageInRange == voltage \in 0..4095

(***************************************************************************)
(* Once the loop is done adc_reading is an average: it lies between the    *)
(* smallest and the largest of the samples of this loop.                   *)
(***************************************************************************)
AverageWithinSamples == pc = "average" => low <= adc_reading /\ adc_reading <= high

(***************************************************************************)
(* app_main may read adc_reading in the middle of the sum, far above 4095. *)
(* The level the DAC then shows is wrong, but the excess never reaches the *)
(* bits that select its channel, its gain and its output.                  *)
(***************************************************************************)
SettingsKept ==
  LET l == Latched(dac)
  IN  l.channel = Channel /\ l.gain = Gain /\ l.onoff = OnOff /\ l.level = voltage % 4096

-----------------------------------------------------------------------------
(* Inductive: the sum after i samples. *)
SumWithin == i * low <= adc_reading /\ adc_reading <= i * high

SumBounds ==
  /\ TypeOK
  /\ pc = "sum" => SumWithin
  /\ AverageWithinSamples

=============================================================================
