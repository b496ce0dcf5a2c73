--------------------------- MODULE CardInitProofs ---------------------------
(***************************************************************************)
(* Proofs about CardInit: the size arithmetic for bytes of any width, the  *)
(* invariants, and that the handshake implements module SdCard's Probe.    *)
(***************************************************************************)
EXTENDS CardInit, TLAPS

Sizes == [high : 0 .. Byte - 1, mid : 0 .. Byte - 1, low : 0 .. Byte - 1]

\* The cards whose middle size byte the code reads as it is: below 32 GB, and every
\* other one whose size has that bit clear.
SmallMid(c) == c.mid < Byte \div 2

\* Products of the positional weights, for provers that do not multiply variables.
LEMMA Weights ==
  ASSUME NEW h \in Nat, NEW m \in Nat, m < Byte \div 2, NEW l \in Nat, l < Byte
  PROVE  /\ h * Byte * Byte + m * Byte + l \in Nat
         /\ h * Byte * Byte + m * Byte + l + 1 < (h + 1) * Byte * Byte
<1> DEFINE half == Byte \div 2
<1>1. half \in Nat /\ Byte = 2 * half
  BY CardInitAssumption
<1>2. m + 1 <= half
  BY <1>1
<1>3. (m + 1) * Byte <= half * Byte
  BY <1>1, <1>2, CardInitAssumption
<1>4. half * Byte < Byte * Byte
  BY <1>1, CardInitAssumption
<1>5. m * Byte + l + 1 < Byte * Byte
  BY <1>3, <1>4, CardInitAssumption
<1>6. h * Byte * Byte + Byte * Byte = (h + 1) * Byte * Byte
  BY CardInitAssumption
<1> QED BY <1>5, <1>6, CardInitAssumption

\* For such a card the code computes the documented number of blocks, with no
\* overflow (sdcard.c:619-631).
THEOREM SizeExact ==
  ASSUME NEW c \in Cards, SmallMid(c)
  PROVE  BlocksOf(c) = TrueBlocks(c) /\ TrueBlocks(c) \in 1 .. Word - 1
<1> DEFINE size == c.high * Byte * Byte + c.mid * Byte + c.low
<1>1. c.high \in Nat /\ c.mid \in Nat /\ c.low \in Nat /\ c.low < Byte
  BY CardInitAssumption
<1>2. size \in Nat /\ size + 1 < (c.high + 1) * Byte * Byte
  BY <1>1, Weights DEF SmallMid
<1>3. CSize(c) = size
  BY <1>1, CardInitAssumption DEF CSize, SmallMid
<1>4. TrueBlocks(c) = (size + 1) * Unit
  BY DEF TrueBlocks
<1> HIDE DEF size
<1>5. (c.high + 1) * Byte * Byte \in Nat
  BY <1>1, CardInitAssumption
<1>6. (size + 1) * Unit < (c.high + 1) * Byte * Byte * Unit
  <2> DEFINE top == (c.high + 1) * Byte * Byte
  <2>1. top \in Nat /\ size + 1 < top
    BY <1>2, <1>5
  <2> HIDE DEF top
  <2>2. (size + 1) * Unit < top * Unit
    BY <1>2, <2>1, CardInitAssumption
  <2> QED BY <2>2 DEF top
<1>7. (size + 1) * Unit \in Nat /\ (size + 1) * Unit >= 1
  BY <1>2, CardInitAssumption
<1>8. Word \in Nat /\ (c.high + 1) * Byte * Byte * Unit \in Nat
  BY <1>5, CardInitAssumption DEF Word
<1>9. (size + 1) * Unit < Word
  BY <1>6, <1>7, <1>8, CardInitAssumption DEF Word
<1> QED BY <1>3, <1>4, <1>7, <1>8, <1>9 DEF BlocksOf

LEMMA WordPositive == Word \in Nat \ {0}
BY CardInitAssumption DEF Word

LEMMA BlocksOfInWord ==
  ASSUME NEW c \in Sizes
  PROVE  BlocksOf(c) \in 0 .. Word - 1
<1>1. CSize(c) \in Nat
  <2>1. Byte * Byte - 1 \in Nat
    BY CardInitAssumption
  <2>2. (Byte * Byte - 1) * Byte * Byte \in Nat
    BY <2>1, CardInitAssumption
  <2> QED BY <2>2, CardInitAssumption DEF CSize, Sizes
<1>2. (CSize(c) + 1) * Unit \in Nat
  BY <1>1, CardInitAssumption
<1> QED BY <1>2, WordPositive DEF BlocksOf

-----------------------------------------------------------------------------
\* TypeOK together with the limits of the loop counters and where the number of blocks
\* comes from.
SizeKnown ==
  /\ csd \in Cards
  /\ tries <= IF pc = "cmd0" THEN GoIdleTries - 1
              ELSE IF pc = "acmd41" THEN OpCondTries - 1 ELSE GoIdleTries + OpCondTries
  /\ pc = "cmd8" => tries = 0
  /\ pc = "done" => numberOfBlocks = BlocksOf(csd)
  /\ pc \notin {"done", "off"} => numberOfBlocks = 0

IInv == TypeOK /\ SizeKnown

LEMMA InitIInv == Init => IInv
BY CardInitAssumption, BlocksOfInWord DEF Init, IInv, TypeOK, SizeKnown, Sizes, Word

LEMMA NextIInv == IInv /\ [Next]_vars => IInv'
<1> SUFFICES ASSUME IInv, [Next]_vars PROVE IInv'
  OBVIOUS
<1> USE CardInitAssumption DEF IInv, TypeOK, SizeKnown
<1>1. CASE PowerOn
  BY <1>1, WordPositive DEF PowerOn
<1>2. CASE GoIdle
  <2>1. tries \in Nat /\ tries + 1 <= GoIdleTries /\ GoIdleTries \in Nat \ {0}
    BY <1>2 DEF GoIdle
  <2>2. CASE pc' = "cmd8" /\ tries' = 0
    BY <1>2, <2>2 DEF GoIdle
  <2>3. CASE tries' = tries + 1 /\ tries + 1 = GoIdleTries /\ pc' = "failed"
    BY <1>2, <2>1, <2>3 DEF GoIdle
  <2>4. CASE tries' = tries + 1 /\ tries + 1 # GoIdleTries /\ pc' = "cmd0"
    BY <1>2, <2>1, <2>4 DEF GoIdle
  <2> QED BY <1>2, <2>2, <2>3, <2>4 DEF GoIdle
<1>3. CASE IfCond
  BY <1>3 DEF IfCond
<1>4. CASE OpCond
  BY <1>4 DEF OpCond
<1>5. CASE SendCsd
  <2>1. BlocksOf(csd) \in 0 .. Word - 1
    BY BlocksOfInWord DEF Sizes
  <2> QED BY <1>5, <2>1 DEF SendCsd
<1>6. CASE PowerOff
  BY <1>6 DEF PowerOff
<1>7. CASE UNCHANGED vars
  BY <1>7 DEF vars
<1> QED BY <1>1, <1>2, <1>3, <1>4, <1>5, <1>6, <1>7 DEF Next, Handshake

\* Every reachable state is well typed: no loop counter passes its limit and no
\* block number passes 32 bits.
THEOREM TypeCorrect == Spec => []TypeOK
<1>1. IInv => TypeOK
  BY DEF IInv
<1> QED BY InitIInv, NextIInv, <1>1, PTL DEF Spec

-----------------------------------------------------------------------------
\* For cards whose middle size byte is read as it is, the handshake is one step of
\* SdCard, Probe or ProbeFails, and hands it the right number of blocks.
THEOREM HandshakeIsProbe ==
  (\A c \in Cards : SmallMid(c)) => (Spec => ImplementsProbe)
<1> SUFFICES ASSUME \A c \in Cards : SmallMid(c) PROVE Spec => ImplementsProbe
  OBVIOUS
<1>1. Init => Card!Init
  <2> SUFFICES ASSUME Init PROVE Card!Init
    OBVIOUS
  <2> DEFINE contents == [b \in 0 .. Capacity - 1 |-> 0]
  <2>1. contents = [b \in Card!Blocks |-> IF b = 0 THEN 0 ELSE IF b = 1 THEN 0 ELSE 0]
    BY DEF Card!Blocks
  <2> QED BY <2>1 DEF Init, Card!Init
<1>2. IInv /\ IInv' /\ [Next]_vars => [Card!Next]_Card!vars
  <2> SUFFICES ASSUME IInv, IInv', [Next]_vars PROVE [Card!Next]_Card!vars
    OBVIOUS
  <2> USE DEF Card!vars, Card!globals, Card!history
  <2>1. CASE PowerOn
    BY <2>1 DEF PowerOn, Card!PowerOn, Card!Next
  <2>2. CASE GoIdle
    BY <2>2 DEF GoIdle, Card!ProbeFails, Card!Next
  <2>3. CASE IfCond
    BY <2>3 DEF IfCond, Card!ProbeFails, Card!Next
  <2>4. CASE OpCond
    BY <2>4 DEF OpCond
  <2>5. CASE SendCsd
    <3>1. numberOfBlocks = 0
      BY <2>5 DEF SendCsd, IInv, SizeKnown
    <3>2. BlocksOf(csd) = TrueBlocks(csd) /\ TrueBlocks(csd) # 0
      BY SizeExact DEF IInv, SizeKnown
    <3> QED BY <2>5, <3>1, <3>2 DEF SendCsd, Card!Probe, Card!ProbeFails, Card!Next
  <2>6. CASE PowerOff
    BY <2>6 DEF PowerOff, Card!PowerOff, Card!Next
  <2>7. CASE UNCHANGED vars
    BY <2>7 DEF vars
  <2> QED BY <2>1, <2>2, <2>3, <2>4, <2>5, <2>6, <2>7 DEF Next, Handshake
<1> QED BY InitIInv, NextIInv, <1>1, <1>2, PTL DEF Spec, ImplementsProbe, Card!Spec
=============================================================================
