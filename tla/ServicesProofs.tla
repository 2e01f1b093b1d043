---------------------------- MODULE ServicesProofs ----------------------------
(***************************************************************************)
(* Proofs about SdCard, for any number of faults, and about UartReader,    *)
(* for all sizes of its buffers.                                           *)
(***************************************************************************)
EXTENDS MCServices, SequenceTheorems, WellFoundedInduction, TLAPS

-----------------------------------------------------------------------------
(* SDcard *)

(* A fault that ends the run, or a power cut, leaves the card as it is. *)
LEMMA RunEnds ==
  ASSUME Card!CardInv, NEW what, Card!Fault(what), UNCHANGED <<file, line, held>>,
         spc' \in {"off", "returned"}
  PROVE  Card!CardInv'
BY DEF Card!CardInv, Card!TypeOK, Card!Recorded, Card!WrittenAnew, Card!InOrder, Card!Kept, Card!Fault

LEMMA CardInvariant == Card!Spec => []Card!CardInv
<1> USE CardAssumption DEF Card!ConstantsAssumption
<1>1. Card!Init => Card!CardInv
  BY DEF Card!Init, Card!CardInv, Card!TypeOK, Card!Recorded, Card!WrittenAnew, Card!InOrder,
         Card!Kept
<1>2. Card!CardInv /\ [Card!Next]_Card!vars => Card!CardInv'
  <2> SUFFICES ASSUME Card!CardInv, [Card!Next]_Card!vars PROVE Card!CardInv'
    OBVIOUS
  <2> USE DEF Card!CardInv, Card!TypeOK, Card!Recorded, Card!WrittenAnew, Card!InOrder, Card!Kept,
              Card!Steps
  <2>1. CASE Card!PowerOn
    BY <2>1 DEF Card!PowerOn
  <2>2. CASE Card!Mount
    <3>1. CASE Card!Succeeds("mount", "fopen_w")
      BY <2>2, <3>1 DEF Card!Mount, Card!Succeeds
    <3>2. CASE Card!Fails("mount", "returned")
      BY <2>2, <3>2, RunEnds DEF Card!Mount, Card!Fails
    <3> QED BY <2>2, <3>1, <3>2 DEF Card!Mount
  <2>3. CASE Card!OpenForWriting
    <3>1. CASE Card!Succeeds("fopen_w", "fprintf") /\ file' \in {file, [file EXCEPT ![Card!hello] = Cut]}
      <4>1. spc = "fopen_w" /\ spc' = "fprintf" /\ UNCHANGED <<line, mishaps, faults, suffered, held>>
        BY <2>3, <3>1 DEF Card!OpenForWriting, Card!Succeeds
      <4>2. file' \in [{Card!hello, Card!foo} -> {NoFile, Cut, Greeting}] /\ file'[Card!foo] = file[Card!foo]
        BY <3>1 DEF Card!hello, Card!foo
      <4>3. Card!TypeOK'
        BY <4>1, <4>2
      <4>4. Card!Recorded'
        BY <4>1, <4>2
      <4>5. Card!WrittenAnew'
        BY <4>1, <4>2
      <4>6. Card!InOrder'
        BY <4>1, <4>2
      <4>7. Card!Kept'
        BY <4>1, <4>2
      <4> QED BY <4>3, <4>4, <4>5, <4>6, <4>7
    <3>2. CASE Card!Fails("fopen_w", "returned") /\ UNCHANGED file
      BY <2>3, <3>2, RunEnds DEF Card!OpenForWriting, Card!Fails
    <3> QED BY <2>3, <3>1, <3>2 DEF Card!OpenForWriting, Card!Target
  <2>4. CASE Card!Write
    <3>1. CASE Card!Succeeds("fprintf", "stat") /\ file' = [file EXCEPT ![Card!hello] = Greeting]
      BY <2>4, <3>1 DEF Card!Write, Card!Succeeds, Card!hello, Card!foo
    <3>2. CASE Card!Fails("fprintf", "stat") /\ file' \in {file, [file EXCEPT ![Card!hello] = Cut]}
      BY <2>4, <3>2 DEF Card!Fault, Card!Write, Card!Fails, Card!hello, Card!foo
    <3> QED BY <2>4, <3>1, <3>2 DEF Card!Write, Card!Target
  <2>5. CASE Card!Stat
    <3>1. CASE Card!Succeeds("stat", IF file[Card!foo] # NoFile THEN "unlink" ELSE "rename")
      BY <2>5, <3>1 DEF Card!Stat, Card!Succeeds
    <3>2. CASE Card!Fails("stat", "rename")
      BY <2>5, <3>2 DEF Card!Fault, Card!Stat, Card!Fails
    <3> QED BY <2>5, <3>1, <3>2 DEF Card!Stat
  <2>6. CASE Card!Unlink
    <3>1. CASE Card!Succeeds("unlink", "rename") /\ file' = [file EXCEPT ![Card!foo] = NoFile]
      BY <2>6, <3>1 DEF Card!Unlink, Card!Succeeds, Card!hello, Card!foo
    <3>2. CASE Card!Fails("unlink", "rename") /\ UNCHANGED file
      BY <2>6, <3>2 DEF Card!Fault, Card!Unlink, Card!Fails
    <3> QED BY <2>6, <3>1, <3>2 DEF Card!Unlink
  <2>7. CASE Card!Rename
    <3>1. CASE Card!Renamable /\ Card!Succeeds("rename", "fopen_r") /\ file' = Card!Renamed
      BY <2>7, <3>1 DEF Card!Rename, Card!Renamed, Card!Succeeds, Card!hello, Card!foo
    <3>2. CASE ~Card!Renamable /\ Card!Succeeds("rename", "returned") /\ UNCHANGED file
      BY <2>7, <3>2 DEF Card!Rename, Card!Renamable, Card!Succeeds
    <3>3. CASE Card!Fails("rename", "returned") /\ UNCHANGED file
      BY <2>7, <3>3, RunEnds DEF Card!Rename, Card!Fails
    <3> QED BY <2>7, <3>1, <3>2, <3>3 DEF Card!Rename
  <2>8. CASE Card!OpenForReading
    <3>1. CASE Card!Succeeds("fopen_r", "fgets")
      BY <2>8, <3>1 DEF Card!OpenForReading, Card!Succeeds
    <3>2. CASE Card!Fails("fopen_r", "returned")
      BY <2>8, <3>2, RunEnds DEF Card!OpenForReading, Card!Fails
    <3> QED BY <2>8, <3>1, <3>2 DEF Card!OpenForReading
  <2>9. CASE Card!Read
    <3>1. CASE Card!Succeeds("fgets", "listDir") /\ line' \in IF file[Card!foo] = Cut THEN {Cut, line} ELSE {file[Card!foo]}
      BY <2>9, <3>1 DEF Card!Read, Card!Succeeds
    <3>2. CASE Card!Fails("fgets", "listDir") /\ UNCHANGED line
      BY <2>9, <3>2 DEF Card!Fault, Card!Read, Card!Fails
    <3> QED BY <2>9, <3>1, <3>2 DEF Card!Read
  <2>10. CASE Card!ListDir
    BY <2>10 DEF Card!ListDir
  <2>11. CASE Card!PowerOff
    BY <2>11 DEF Card!PowerOff
  <2>12. CASE Card!PowerCut
    BY <2>12, RunEnds DEF Card!PowerCut
  <2>13. CASE UNCHANGED Card!vars
    BY <2>13 DEF Card!vars
  <2> QED
    BY <2>1, <2>2, <2>3, <2>4, <2>5, <2>6, <2>7, <2>8, <2>9, <2>10, <2>11, <2>12, <2>13
    DEF Card!Next, Card!app_main
<1> QED
  BY <1>1, <1>2, PTL DEF Card!Spec

(***************************************************************************)
(* Once a run of SDcard has gone through, one power cut or one failing     *)
(* operation, in any run after it, leaves the greeting on the card; a      *)
(* failed write excepted.                                                  *)
(***************************************************************************)
THEOREM CardFaultSurvived == Card!Spec => []OneFaultSurvives
<1>1. Card!CardInv => OneFaultSurvives
  BY DEF Card!CardInv, Card!Kept, OneFaultSurvives, Card!OneFaultSurvives
<1> QED
  BY <1>1, CardInvariant, PTL

(***************************************************************************)
(* Whatever the card held before, and whatever else failed, the line that  *)
(* SDcard prints is the one it has just written.                           *)
(***************************************************************************)
THEOREM CardLine == Card!Spec => []LineIsGreeting
<1>1. Card!CardInv => LineIsGreeting
  BY DEF Card!CardInv, Card!WrittenAnew, LineIsGreeting, Card!LineIsGreeting
<1> QED
  BY <1>1, CardInvariant, PTL

(***************************************************************************)
(* A run of SDcard that nothing disturbs goes through to its end and       *)
(* leaves foo.txt with the greeting and no hello.txt, whatever state the   *)
(* earlier ones left the card in.                                          *)
(***************************************************************************)
THEOREM CardRepaired == Card!Spec => []RunRepairs
<1>1. Card!CardInv => RunRepairs
  BY DEF Card!CardInv, Card!InOrder, RunRepairs, Card!RunRepairs
<1> QED
  BY <1>1, CardInvariant, PTL

-----------------------------------------------------------------------------
(* uart_eco and rx_task *)

LEMMA AppendIncreasing ==
  ASSUME NEW s \in Seq(Byte), NEW e \in Byte, Increasing(s), \A k \in 1..Len(s) : s[k] < e
  PROVE  Increasing(Append(s, e))
<1>1. /\ Len(s) \in Nat /\ Len(Append(s, e)) = Len(s) + 1
      /\ \A k \in 1..Len(s) : Append(s, e)[k] = s[k]
      /\ Append(s, e)[Len(s) + 1] = e
  BY AppendProperties, LenProperties
<1> QED
  BY <1>1 DEF Increasing

LEMMA TailIncreasing ==
  ASSUME NEW s \in Seq(Byte), s # <<>>, Increasing(s)
  PROVE  /\ Increasing(Tail(s))
         /\ \A k \in 1..Len(Tail(s)) : s[1] < Tail(s)[k]
<1>1. /\ Len(s) \in Nat \ {0} /\ Len(Tail(s)) = Len(s) - 1
      /\ \A k \in 1..Len(Tail(s)) : Tail(s)[k] = s[k + 1]
  BY HeadTailProperties, LenProperties, EmptySeq
<1> QED
  BY <1>1 DEF Increasing

LEMMA ConcatIncreasing ==
  ASSUME NEW s \in Seq(Byte), NEW t \in Seq(Byte), Increasing(s), Increasing(t), Before(s, t)
  PROVE  Increasing(s \o t)
<1>1. /\ Len(s) \in Nat /\ Len(t) \in Nat /\ Len(s \o t) = Len(s) + Len(t)
      /\ \A k \in 1..Len(s) + Len(t) :
           (s \o t)[k] = IF k <= Len(s) THEN s[k] ELSE t[k - Len(s)]
  BY ConcatProperties, LenProperties
<1> SUFFICES ASSUME NEW j \in 1..Len(s \o t), NEW k \in 1..Len(s \o t), j < k
             PROVE  (s \o t)[j] < (s \o t)[k]
  BY DEF Increasing
<1>2. CASE k <= Len(s)
  BY <1>1, <1>2 DEF Increasing
<1>3. CASE j <= Len(s) /\ Len(s) < k
  BY <1>1, <1>3 DEF Before
<1>4. CASE Len(s) < j
  <2>1. j - Len(s) \in 1..Len(t) /\ k - Len(s) \in 1..Len(t) /\ j - Len(s) < k - Len(s)
    BY <1>1, <1>4
  <2> QED
    BY <1>1, <1>4, <2>1 DEF Increasing
<1> QED
  BY <1>1, <1>2, <1>3, <1>4

(* Some first elements of a sequence, and those of another that starts like it. *)
LEMMA Prefix ==
  ASSUME NEW S, NEW s \in Seq(S), NEW m \in Nat, m <= Len(s)
  PROVE  /\ SubSeq(s, 1, m) \in Seq(S) /\ Len(SubSeq(s, 1, m)) = m
         /\ \A k \in 1..m : k \in 1..Len(s) /\ SubSeq(s, 1, m)[k] = s[k]
<1>1. Len(s) \in Nat /\ \A k \in 1..Len(s) : s[k] \in S
  BY LenProperties, ElementOfSeq
<1>2. \A k \in 1..m : s[k] \in S
  BY <1>1
<1>3. /\ SubSeq(s, 1, m) \in Seq(S)
      /\ Len(SubSeq(s, 1, m)) = IF 1 <= m THEN m - 1 + 1 ELSE 0
      /\ \A k \in 1..m - 1 + 1 : SubSeq(s, 1, m)[k] = s[1 + k - 1]
  BY <1>2, SubSeqProperties
<1> QED
  BY <1>1, <1>3

LEMMA SamePrefix ==
  ASSUME NEW s \in Seq(Nat), NEW t \in Seq(Nat), NEW m \in Nat, m <= Len(s), m <= Len(t),
         \A k \in 1..m : s[k] = t[k]
  PROVE  SubSeq(s, 1, m) = SubSeq(t, 1, m)
<1>1. /\ SubSeq(s, 1, m) \in Seq(Nat) /\ Len(SubSeq(s, 1, m)) = m
      /\ \A k \in 1..m : SubSeq(s, 1, m)[k] = s[k]
  BY Prefix
<1>2. /\ SubSeq(t, 1, m) \in Seq(Nat) /\ Len(SubSeq(t, 1, m)) = m
      /\ \A k \in 1..m : SubSeq(t, 1, m)[k] = t[k]
  BY Prefix
<1> QED
  BY <1>1, <1>2, SeqEqual

LEMMA LeastNumber ==
  ASSUME NEW S \in SUBSET Nat, S # {}
  PROVE  \E least \in S : \A other \in S : least <= other
<1>1. PICK least \in S : \A other \in S : ~(<<other, least>> \in OpToRel(<, Nat))
  BY NatLessThanWellFounded, WFMin
<1>2. \A other \in S : ~(other < least)
  BY <1>1 DEF OpToRel
<1>3. least \in Nat /\ \A other \in S : other \in Nat
  BY <1>1
<1>4. ASSUME NEW other \in S PROVE least <= other
  BY <1>2, <1>3
<1> QED
  BY <1>4

(* "%s" prints what lies before the first zero: the chunk, up to a NUL in it. *)
LEMMA PrintsUpToNul ==
  ASSUME TypeOK, Delimited, Received(chunk), pc = "print"
  PROVE  \E m \in 0..Len(chunk) :
           UpToZero = SubSeq(chunk, 1, m) /\ (IsText => m = Len(chunk))
<1> DEFINE zeros == {k \in 1..Len(data) : IsZero(data[k])}
           n     == Len(chunk)
<1>1. n \in Nat /\ Len(data) \in Nat /\ \A k \in 1..n : chunk[k] \in Byte
  BY LenProperties, ElementOfSeq DEF TypeOK
<1>2. n < Len(data) /\ data[n + 1] = 0 /\ \A k \in 1..n : data[k] = chunk[k]
  BY DEF Delimited
<1>3. n + 1 \in zeros /\ zeros \subseteq Nat \ {0}
  BY <1>1, <1>2 DEF IsZero
<1>4. PICK least \in zeros : \A other \in zeros : least <= other
  <2> HIDE DEF zeros
  <2>1. zeros \in SUBSET Nat /\ zeros # {}
    BY <1>3
  <2> QED
    BY <2>1, LeastNumber
<1>5. (CHOOSE k \in zeros : \A other \in zeros : k <= other) = least
  <2> HIDE DEF zeros
  <2>1. ASSUME NEW k \in zeros, \A other \in zeros : k <= other PROVE k = least
    BY <1>3, <1>4, <2>1
  <2> QED
    BY <1>4, <2>1
<1>6. least \in 1..n + 1 /\ least - 1 \in 0..n
  <2> HIDE DEF zeros
  <2> QED
    BY <1>1, <1>3, <1>4
<1>7. UpToZero = SubSeq(data, 1, least - 1)
  <2>1. zeros # {}
    BY <1>3
  <2> QED
    BY <1>5, <2>1 DEF UpToZero
<1>8. SubSeq(data, 1, least - 1) = SubSeq(chunk, 1, least - 1)
  <2>1. /\ \A k \in 1..least - 1 : data[k] = chunk[k]
        /\ least - 1 <= n /\ least - 1 <= Len(data) /\ least - 1 \in Nat
    BY <1>1, <1>2, <1>6
  <2>2. data \in Seq(Nat) /\ chunk \in Seq(Nat)
    BY SeqMonotonic DEF TypeOK, Byte
  <2> QED
    BY <2>1, <2>2, SamePrefix
<1>9. IsText => least = n + 1
  <2> SUFFICES ASSUME IsText, least # n + 1 PROVE FALSE
    OBVIOUS
  <2>1. least \in 1..n
    BY <1>1, <1>6
  <2>2. chunk[least] \in Nat \ {0} /\ chunk[least] <= sent /\ sent \in Nat
    BY <1>1, <2>1 DEF Received, Byte, TypeOK
  <2>3. IsZero(chunk[least])
    BY <1>2, <1>4, <2>1
  <2> QED
    BY <2>2, <2>3 DEF IsZero, IsText
<1> QED
  BY <1>1, <1>6, <1>7, <1>8, <1>9

(* The hex dump prints the whole chunk. *)
LEMMA DumpsChunk ==
  ASSUME TypeOK, Delimited, pc = "print"
  PROVE  SubSeq(data, 1, Len(chunk)) = SubSeq(chunk, 1, Len(chunk))
<1>1. Len(chunk) \in Nat /\ data \in Seq(Nat) /\ chunk \in Seq(Nat) /\ Len(data) \in Nat
  BY SeqMonotonic, LenProperties DEF TypeOK, Byte
<1>2. Len(chunk) <= Len(data) /\ \A k \in 1..Len(chunk) : data[k] = chunk[k]
  BY <1>1 DEF Delimited
<1> QED
  BY <1>1, <1>2, SamePrefix

(***************************************************************************)
(* Printing some of the chunk from its start, and leaving none of it,      *)
(* keeps what was printed in order.                                        *)
(***************************************************************************)
LEMMA PassedOn ==
  ASSUME NEW s \in Seq(Byte), NEW m \in 0..Len(chunk), TypeOK, InSequence, Passed(s)
  PROVE  /\ s \o SubSeq(chunk, 1, m) \in Seq(Byte)
         /\ Len(s \o SubSeq(chunk, 1, m)) = Len(s) + m
         /\ Increasing(s \o SubSeq(chunk, 1, m))
         /\ Before(s \o SubSeq(chunk, 1, m), ring)
         /\ Received(s \o SubSeq(chunk, 1, m))
<1> DEFINE part == SubSeq(chunk, 1, m)
<1>1. /\ Len(s) \in Nat /\ Len(chunk) \in Nat /\ m \in Nat /\ m <= Len(chunk)
      /\ chunk \in Seq(Byte)
  BY LenProperties DEF TypeOK
<1>2. /\ part \in Seq(Byte) /\ Len(part) = m
      /\ \A k \in 1..m : k \in 1..Len(chunk) /\ part[k] = chunk[k]
  BY <1>1, Prefix DEF Byte
<1> HIDE DEF part
<1>3. Increasing(part) /\ Before(s, part)
  BY <1>1, <1>2 DEF InSequence, Passed, Increasing, Before
<1>4. Increasing(s \o part)
  BY <1>2, <1>3, ConcatIncreasing DEF Passed
<1>5. /\ s \o part \in Seq(Byte) /\ Len(s \o part) = Len(s) + m
      /\ \A k \in 1..Len(s) + m :
           (s \o part)[k] = IF k <= Len(s) THEN s[k] ELSE part[k - Len(s)]
  BY <1>2, ConcatProperties
<1>6. ASSUME NEW j \in 1..Len(s \o part)
      PROVE  \/ j \in 1..Len(s) /\ (s \o part)[j] = s[j]
             \/ j - Len(s) \in 1..Len(chunk) /\ (s \o part)[j] = chunk[j - Len(s)]
  <2>1. CASE j <= Len(s)
    BY <1>1, <1>5, <2>1
  <2>2. CASE Len(s) < j
    <3>1. j - Len(s) \in 1..m
      BY <1>1, <1>5, <2>2
    <3> QED
      BY <1>1, <1>2, <1>5, <2>2, <3>1
  <2> QED
    BY <1>1, <1>5, <2>1, <2>2
<1>7. Before(s \o part, ring) /\ Received(s \o part)
  BY <1>6 DEF InSequence, Passed, Before, Received
<1> QED
  BY <1>4, <1>5, <1>7 DEF part

LEMMA Sizes ==
  ASSUME TypeOK
  PROVE  Asked[reader] \in Nat \ {0} /\ Allocated[reader] \in Nat \ {0}
BY SizesAssumption DEF TypeOK, Reader

LEMMA ReaderInvariant == Spec => []ReaderInv
<1>1. Init => ReaderInv
  <2> SUFFICES ASSUME Init PROVE ReaderInv
    OBVIOUS
  <2>1. TypeOK
    BY EmptySeq DEF Init, TypeOK, Byte
  <2>2. InSequence /\ Passed(out) /\ Passed(dump) /\ Accounted /\ Delimited
    BY EmptySeq DEF Init, InSequence, Passed, Increasing, Before, Received, Accounted, Complete,
                    Delimited
  <2>3. InBounds
    BY <2>1, EmptySeq, Sizes DEF Init, InBounds
  <2> QED
    BY <2>1, <2>2, <2>3 DEF ReaderInv
<1>2. ReaderInv /\ [Next]_vars => ReaderInv'
  <2> SUFFICES ASSUME ReaderInv, [Next]_vars PROVE ReaderInv'
    OBVIOUS
  <2>0. /\ TypeOK /\ InSequence /\ Passed(out) /\ Passed(dump) /\ Accounted /\ InBounds /\ Delimited
        /\ Len(ring) \in Nat /\ Len(chunk) \in Nat /\ Len(out) \in Nat /\ Len(dump) \in Nat
    BY LenProperties DEF ReaderInv, TypeOK
  <2>b. /\ \A k \in 1..Len(ring) : ring[k] \in Byte
        /\ \A k \in 1..Len(chunk) : chunk[k] \in Byte
        /\ \A k \in 1..Len(out) : out[k] \in Byte
        /\ \A k \in 1..Len(dump) : dump[k] \in Byte
    BY <2>0, ElementOfSeq DEF TypeOK
  <2>1. CASE Arrive
    <3>0. sent' = sent + 1 /\ UNCHANGED <<reader, pc, chunk, data, out, dump>>
      BY <2>1 DEF Arrive
    <3>1. sent' \in Byte
      BY <2>0, <3>0 DEF TypeOK, Byte
    <3>2. InBounds' /\ Delimited'
      BY <2>0, <3>0 DEF InBounds, Delimited
    <3>3. IsText' => IsText
      BY <2>0, <3>0 DEF IsText, TypeOK
    <3>4. ASSUME NEW s \in Seq(Byte), Received(s)
          PROVE  (\A k \in 1..Len(s) : s[k] < sent') /\ (\A k \in 1..Len(s) : s[k] <= sent')
      <4>1. \A k \in 1..Len(s) : s[k] \in Byte
        BY ElementOfSeq
      <4> QED
        BY <2>0, <3>0, <3>4, <4>1 DEF Received, TypeOK, Byte
    <3>5. /\ \A k \in 1..Len(out) : out[k] < sent' /\ out[k] <= sent'
          /\ \A k \in 1..Len(dump) : dump[k] < sent' /\ dump[k] <= sent'
          /\ \A k \in 1..Len(chunk) : chunk[k] < sent' /\ chunk[k] <= sent'
          /\ \A k \in 1..Len(ring) : ring[k] < sent' /\ ring[k] <= sent'
      BY <2>0, <3>4 DEF InSequence, Passed, TypeOK
    <3>6. CASE ring' = Append(ring, sent') /\ UNCHANGED lost
      <4>1. /\ ring' \in Seq(Byte) /\ Len(ring') = Len(ring) + 1
            /\ \A k \in 1..Len(ring) : ring'[k] = ring[k]
            /\ ring'[Len(ring) + 1] = sent'
        BY <2>0, <3>1, <3>6, AppendProperties DEF TypeOK
      <4>2. Increasing(ring')
        BY <2>0, <3>1, <3>5, <3>6, AppendIncreasing DEF InSequence, TypeOK
      <4>3. ASSUME NEW k \in 1..Len(ring')
            PROVE  (k \in 1..Len(ring) /\ ring'[k] = ring[k]) \/ ring'[k] = sent'
        BY <2>0, <4>1
      <4>4. Received(ring)'
        BY <3>1, <3>5, <4>3 DEF Received, Byte
      <4>5. InSequence'
        BY <2>0, <3>0, <3>5, <4>2, <4>3, <4>4 DEF InSequence, Increasing, Before, Received
      <4>6. Passed(out)' /\ Passed(dump)'
        BY <2>0, <3>0, <3>5, <4>3 DEF Passed, Increasing, Before, Received
      <4>7. TypeOK'
        BY <2>0, <3>0, <3>1, <4>1 DEF TypeOK, Byte
      <4>8. Accounted'
        <5>1. (Complete(out) => Complete(out)') /\ (Complete(dump) => Complete(dump)')
          <6>1. ASSUME NEW n \in Nat, n + Len(chunk) + Len(ring) = sent
                PROVE  n + Len(chunk') + Len(ring') = sent'
            BY <2>0, <3>0, <4>1, <6>1 DEF TypeOK
          <6> QED
            BY <2>0, <3>0, <3>6, <6>1 DEF Complete
        <5> QED
          BY <2>0, <3>0, <3>3, <5>1 DEF Accounted
      <4> QED
        BY <3>2, <4>5, <4>6, <4>7, <4>8 DEF ReaderInv
    <3>7. CASE lost' = TRUE /\ UNCHANGED ring
      <4>1. InSequence' /\ Passed(out)' /\ Passed(dump)'
        BY <2>0, <3>0, <3>5, <3>7 DEF InSequence, Passed, Increasing, Before, Received
      <4>2. TypeOK' /\ Accounted'
        BY <2>0, <3>0, <3>1, <3>7 DEF TypeOK, Accounted, Complete, Byte
      <4> QED
        BY <3>2, <4>1, <4>2 DEF ReaderInv
    <3> QED
      BY <2>1, <3>6, <3>7 DEF Arrive
  <2>2. CASE Copy
    <3>0. /\ pc = "read" /\ Len(chunk) < Asked[reader] /\ ring # <<>>
          /\ chunk' = Append(chunk, Head(ring)) /\ ring' = Tail(ring)
          /\ UNCHANGED <<reader, sent, lost, pc, data, out, dump>>
      BY <2>2 DEF Copy, MayCopy
    <3>1. Head(ring) = ring[1] /\ Head(ring) \in Byte /\ 1 \in 1..Len(ring)
      BY <2>0, <3>0, HeadTailProperties, EmptySeq DEF TypeOK
    <3>2. /\ ring' \in Seq(Byte) /\ Len(ring') = Len(ring) - 1
          /\ \A k \in 1..Len(ring') : ring'[k] = ring[k + 1]
      BY <2>0, <3>0, HeadTailProperties DEF TypeOK
    <3>3. /\ chunk' \in Seq(Byte) /\ Len(chunk') = Len(chunk) + 1
          /\ \A k \in 1..Len(chunk) : chunk'[k] = chunk[k]
          /\ chunk'[Len(chunk) + 1] = ring[1]
      BY <2>0, <3>0, <3>1, AppendProperties DEF TypeOK
    <3>4. Increasing(ring') /\ \A k \in 1..Len(ring') : ring[1] < ring'[k]
      BY <2>0, <3>0, TailIncreasing DEF InSequence, TypeOK
    <3>5. Increasing(chunk')
      BY <2>0, <3>0, <3>1, AppendIncreasing DEF InSequence, Before, TypeOK
    <3>a. \A k \in 1..Len(ring') : k + 1 \in 1..Len(ring) /\ ring'[k] = ring[k + 1]
      BY <2>0, <3>2
    <3>6. ASSUME NEW j \in 1..Len(chunk')
          PROVE  (j \in 1..Len(chunk) /\ chunk'[j] = chunk[j]) \/ chunk'[j] = ring[1]
      BY <2>0, <3>3
    <3>7. Before(chunk, ring)'
      <4>1. ASSUME NEW j \in 1..Len(chunk'), NEW k \in 1..Len(ring')
            PROVE  chunk'[j] < ring'[k]
        BY <2>0, <3>4, <3>6, <3>a DEF InSequence, Before
      <4> QED
        BY <4>1 DEF Before
    <3>8. Received(chunk)' /\ Received(ring)'
      BY <2>0, <3>0, <3>1, <3>6, <3>a DEF InSequence, Received
    <3>9. InSequence'
      BY <3>4, <3>5, <3>7, <3>8 DEF InSequence, Increasing
    <3>10. ASSUME NEW s \in Seq(Byte), Passed(s)
           PROVE  Before(s, chunk') /\ Before(s, ring')
      BY <3>1, <3>6, <3>10, <3>a DEF Passed, Before
    <3>11. Passed(out)' /\ Passed(dump)'
      <4>1. /\ Before(out, chunk') /\ Before(out, ring')
            /\ Before(dump, chunk') /\ Before(dump, ring')
        BY <2>0, <3>10 DEF TypeOK
      <4> QED
        BY <2>0, <3>0, <4>1 DEF Passed, Increasing, Before, Received
    <3>12. TypeOK' /\ Delimited'
      BY <2>0, <3>0, <3>2, <3>3 DEF TypeOK, Delimited
    <3>13. Accounted'
      <4>1. ASSUME NEW n \in Nat
            PROVE  n + Len(chunk') + Len(ring') = n + Len(chunk) + Len(ring)
        BY <2>0, <3>2, <3>3
      <4>2. (Complete(out) => Complete(out)') /\ (Complete(dump) => Complete(dump)')
        BY <2>0, <3>0, <4>1 DEF Complete
      <4> QED
        BY <2>0, <3>0, <4>2 DEF Accounted, IsText
    <3>14. InBounds'
      BY <2>0, <3>0, <3>3, Sizes DEF InBounds, TypeOK
    <3> QED
      BY <3>9, <3>11, <3>12, <3>13, <3>14 DEF ReaderInv
  <2>3. CASE uart_read_bytes
    <3>0. /\ data' = Terminated /\ pc' = "print" /\ UNCHANGED <<reader, sent, ring, lost, chunk, out, dump>>
      BY <2>3 DEF uart_read_bytes
    <3> DEFINE rest == SubSeq(data, Len(chunk) + 2, Len(data))
               head == Append(chunk, 0)
    <3>1. rest \in Seq(Nat) /\ Len(rest) \in Nat
      <4>1. \A k \in 1..Len(data) : data[k] \in Nat
        BY <2>0, ElementOfSeq DEF TypeOK
      <4>2. Len(chunk) + 2 \in Nat \ {0} /\ Len(data) \in Nat
        BY <2>0, LenProperties DEF TypeOK
      <4>3. \A k \in Len(chunk) + 2 .. Len(data) : data[k] \in Nat
        BY <2>0, <4>1, <4>2
      <4> QED
        BY <4>2, <4>3, SubSeqProperties, LenProperties
    <3>2. /\ head \in Seq(Nat) /\ Len(head) = Len(chunk) + 1
          /\ \A k \in 1..Len(chunk) : head[k] = chunk[k]
          /\ head[Len(chunk) + 1] = 0
      <4>1. chunk \in Seq(Nat)
        BY <2>0, SeqMonotonic DEF TypeOK, Byte
      <4> QED
        BY <4>1, AppendProperties
    <3>d. data' = head \o rest
      BY <3>0 DEF Terminated
    <3> HIDE DEF head, rest
    <3>3. /\ data' \in Seq(Nat) /\ Len(data') = Len(head) + Len(rest)
          /\ \A k \in 1..Len(head) + Len(rest) :
               data'[k] = IF k <= Len(head) THEN head[k] ELSE rest[k - Len(head)]
      BY <3>d, <3>1, <3>2, ConcatProperties
    <3>4. Delimited'
      <4>1. \A k \in 1..Len(chunk) + 1 : data'[k] = head[k]
        BY <2>0, <3>1, <3>2, <3>3
      <4>2. Len(chunk) < Len(data')
        BY <2>0, <3>1, <3>2, <3>3
      <4>3. data'[Len(chunk) + 1] = 0 /\ \A k \in 1..Len(chunk) : data'[k] = chunk[k]
        BY <2>0, <3>2, <4>1
      <4> QED
        BY <3>0, <4>2, <4>3 DEF Delimited
    <3> QED
      BY <2>0, <3>0, <3>3, <3>4 DEF ReaderInv, TypeOK, InSequence, Passed, Increasing, Before,
                                    Received, Accounted, Complete, IsText, InBounds
  <2>4. CASE Overrun
    <3>0. /\ Allocated[reader] <= Len(chunk) /\ pc' = "overrun"
          /\ UNCHANGED <<reader, sent, ring, lost, chunk, data, out, dump>>
      BY <2>0, <2>4, Sizes DEF Overrun, Room
    <3>1. reader # "rx_task"
      BY <2>0, <3>0, Sizes, SizesAssumption DEF InBounds
    <3> QED
      BY <2>0, <3>0, <3>1 DEF ReaderInv, TypeOK, InSequence, Passed, Increasing, Before, Received,
                              Accounted, Complete, IsText, InBounds, Delimited
  <2>5. ASSUME pc = "print", Printed, UNCHANGED reader,
               \/ reader # "rx_task" /\ UNCHANGED dump
               \/ dump' = dump \o SubSeq(data, 1, Len(chunk))
        PROVE  ReaderInv'
    <3>0. /\ pc' = "read" /\ out' = out \o UpToZero /\ chunk' = <<>>
          /\ UNCHANGED <<reader, sent, ring, lost, data>>
      BY <2>5 DEF Printed
    <3>1. PICK m \in 0..Len(chunk) :
            UpToZero = SubSeq(chunk, 1, m) /\ (IsText => m = Len(chunk))
      BY <2>0, <2>5, PrintsUpToNul DEF InSequence
    <3>2. /\ out' \in Seq(Byte) /\ Len(out') = Len(out) + m
          /\ Increasing(out') /\ Before(out', ring) /\ Received(out')
      BY <2>0, <3>0, <3>1, PassedOn DEF TypeOK
    <3>3. /\ dump' \in Seq(Byte) /\ Increasing(dump') /\ Before(dump', ring) /\ Received(dump')
          /\ reader = "rx_task" => Len(dump') = Len(dump) + Len(chunk)
      <4>1. CASE UNCHANGED dump /\ reader # "rx_task"
        BY <2>0, <4>1 DEF Passed, TypeOK
      <4>2. CASE dump' = dump \o SubSeq(data, 1, Len(chunk))
        <5>1. dump' = dump \o SubSeq(chunk, 1, Len(chunk)) /\ Len(chunk) \in 0..Len(chunk)
          BY <2>0, <2>5, <4>2, DumpsChunk
        <5> QED
          BY <2>0, <5>1, PassedOn DEF TypeOK
      <4> QED
        BY <2>5, <4>1, <4>2
    <3>4. chunk' \in Seq(Byte) /\ Len(chunk') = 0
      BY <3>0, EmptySeq
    <3>5. InSequence' /\ Passed(out)' /\ Passed(dump)'
      <4>1. \A s \in {out', dump'} : Received(s)'
        BY <3>0, <3>2, <3>3 DEF Received
      <4> QED
        BY <2>0, <3>0, <3>2, <3>3, <3>4, <4>1 DEF InSequence, Passed, Before, Received, Increasing
    <3>6. TypeOK' /\ Delimited'
      BY <2>0, <3>0, <3>2, <3>3, <3>4 DEF TypeOK, Delimited
    <3>7. Accounted'
      <4>1. IsText => (Complete(out) => Complete(out)')
        <5>1. IsText => Len(out') = Len(out) + Len(chunk)
          BY <3>1, <3>2
        <5> QED
          BY <2>0, <3>0, <3>4, <5>1 DEF Complete
      <4>2. reader = "rx_task" => (Complete(dump) => Complete(dump)')
        BY <2>0, <3>0, <3>3, <3>4 DEF Complete
      <4> QED
        BY <2>0, <3>0, <4>1, <4>2 DEF Accounted, IsText
    <3>8. InBounds'
      BY <2>0, <3>0, <3>4, Sizes DEF InBounds
    <3> QED
      BY <3>5, <3>6, <3>7, <3>8 DEF ReaderInv
  <2>6. CASE printf
    <3>1. pc = "print" /\ Printed /\ reader # "rx_task" /\ UNCHANGED <<reader, dump>>
      BY <2>6 DEF printf, Printed
    <3> QED
      BY <2>5, <3>1
  <2>7. CASE ESP_LOGI
    <3>1. /\ pc = "print" /\ Printed /\ UNCHANGED reader
          /\ dump' = dump \o SubSeq(data, 1, Len(chunk))
      BY <2>7 DEF ESP_LOGI, Printed
    <3> QED
      BY <2>5, <3>1
  <2>8. CASE UNCHANGED vars
    BY <2>0, <2>8 DEF vars, ReaderInv, TypeOK, InSequence, Passed, Increasing, Before, Received,
                      Accounted, Complete, IsText, InBounds, Delimited
  <2> QED
    BY <2>1, <2>2, <2>3, <2>4, <2>6, <2>7, <2>8 DEF Next
<1> QED
  BY <1>1, <1>2, PTL DEF Spec

(***************************************************************************)
(* For every size of buffer, request and ring, and NULs anywhere in the    *)
(* text: what uart_eco and rx_task print was received, in order and once,  *)
(* and is all of it when the ring buffer sufficed and the text has no NUL; *)
(* rx_task, which asks for less than it has allocated, never writes behind *)
(* its buffer, and dumps what follows a NUL too.  Of uart_eco this holds   *)
(* as long as its buffer suffices; that it does is not claimed.            *)
(***************************************************************************)
THEOREM ReaderEchoes == Spec => []Echoed
<1>1. ReaderInv => Echoed
  <2> SUFFICES ASSUME ReaderInv PROVE Echoed
    OBVIOUS
  <2>0. /\ TypeOK /\ Passed(out) /\ Passed(dump) /\ Accounted /\ InBounds
        /\ Len(out) \in Nat /\ Len(dump) \in Nat
    BY LenProperties DEF ReaderInv, TypeOK
  <2>1. reader = "rx_task" => pc # "overrun"
    BY <2>0 DEF InBounds
  <2>2. InOrder(out) /\ InOrder(dump)
    BY <2>0 DEF InOrder, Passed, Increasing
  <2>3. /\ Quiet /\ IsText => Len(out) = sent
        /\ Quiet /\ reader = "rx_task" => Len(dump) = sent
    BY <2>0, EmptySeq DEF Quiet, Accounted, Complete
  <2> QED
    BY <2>1, <2>2, <2>3 DEF Echoed
<1> QED
  BY <1>1, ReaderInvariant, PTL
=============================================================================
