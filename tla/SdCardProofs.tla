---------------------------- MODULE SdCardProofs ----------------------------
(***************************************************************************)
(* Theorems about SdCard, for every capacity, update period, set of card   *)
(* errors and nesting of calls the assumptions of that module admit.       *)
(***************************************************************************)
EXTENDS SdCard, Integers, TLAPS, SequenceTheorems

-----------------------------------------------------------------------------
(* Type correctness.                                                       *)

\* What the steps of SPI_Init have established by the time logging starts.
BootInv ==
  /\ pc \in {"id", "resume", "rewrite"} => numberOfBlocks = Capacity
  /\ pc = "rewrite" => blockNumber \in DataBlocks
  /\ ready = 1 => pc = "log" /\ numberOfBlocks = Capacity
  /\ calls # << >> => ready = 1
  /\ torn = 1 => overtaken = 1

\* All that most steps need of the constants.
LEMMA SmallFacts == Capacity \in Nat /\ Capacity > 3 /\ Leftovers \subseteq Nat
BY CardAssumption

\* The number read from block 1, whatever it is, becomes a block of the ring.
LEMMA ResumeInRing ==
  ASSUME numberOfBlocks = Capacity, NEW n \in Nat
  PROVE  Resume(n) \in DataBlocks
BY CardAssumption DEF Resume, DataBlocks

\* The successor of a block of the ring is a block of the ring, of another one one of
\* the card.
LEMMA NextBlockInRing ==
  ASSUME NEW b \in DataBlocks
  PROVE  NextBlock(b) \in DataBlocks
BY CardAssumption DEF NextBlock, DataBlocks

LEMMA NextBlockOnCard ==
  ASSUME NEW b \in Blocks
  PROVE  NextBlock(b) \in Blocks
BY CardAssumption DEF NextBlock, Blocks

\* A remainder is small, and what is without it is a multiple.
LEMMA Remainder ==
  ASSUME NEW a \in Nat, NEW w \in Nat \ {0}
  PROVE  (a % w) \in 0 .. a /\ (a % w) < w /\ (a % 1) = 0
<1>1. a = (w * (a \div w)) + (a % w) /\ (a % w) \in 0 .. w - 1 /\ a \div w \in Nat
  OBVIOUS
<1>2. w * (a \div w) \in Nat
  BY <1>1
<1> QED BY <1>1, <1>2

\* A multiple of w more does not change the remainder.
LEMMA Multiple ==
  ASSUME NEW w \in Nat \ {0}, NEW r \in 0 .. w - 1, NEW q \in Nat
  PROVE  (r + (w * q)) % w = r
<1> DEFINE x == r + (w * q)
           p == x \div w
           d == q - p
<1>1. w * q \in Nat
  OBVIOUS
<1>2. x \in Nat
  BY <1>1
<1> HIDE DEF x
<1>3. x = (w * p) + (x % w) /\ (x % w) \in 0 .. w - 1 /\ p \in Nat
  BY <1>2
<1> HIDE DEF p
<1>4. d \in Int /\ w * d = (w * q) - (w * p)
  BY <1>3
<1>5. w * d = (x % w) - r
  BY <1>1, <1>2, <1>3, <1>4 DEF x
<1> HIDE DEF d
<1>6. d >= 1 => w * d >= w
  BY <1>4
<1>7. d <= -1 => w * d <= -w
  BY <1>4
<1>8. d = 0
  BY <1>3, <1>4, <1>5, <1>6, <1>7
<1>9. w * d = 0
  BY <1>8
<1>10. x % w = r
  BY <1>3, <1>5, <1>9
<1> QED BY <1>10 DEF x

\* Lower bytes of a and upper bytes of b.
LEMMA Mixed ==
  ASSUME NEW w \in Nat \ {0}, NEW a \in Nat, NEW b \in Nat
  PROVE  /\ Mix(w, a, b) \in Nat
         /\ Mix(1, a, b) = b
         /\ Mix(w, a, b) % w = a % w
         /\ a % w = b % w => Mix(w, a, b) = b
         /\ (a % w) % w = a % w
<1>1. /\ (a % w) \in 0 .. a /\ (a % w) < w /\ (a % 1) = 0
      /\ (b % w) \in 0 .. b /\ (b % w) < w /\ (b % 1) = 0
  BY Remainder
<1>2. (a % w) % w = a % w
  BY <1>1
<1>3. Mix(w, a, b) % w = a % w
  <2> DEFINE q == b \div w
  <2>1. q \in Nat /\ b - (b % w) = w * q
    OBVIOUS
  <2> HIDE DEF q
  <2>2. (a % w) \in 0 .. w - 1
    BY <1>1
  <2>3. ((a % w) + (w * q)) % w = a % w
    BY <2>1, <2>2, Multiple
  <2> QED BY <2>1, <2>3 DEF Mix
<1> QED BY <1>1, <1>2, <1>3 DEF Mix

-----------------------------------------------------------------------------
(* The stack of calls.                                                     *)

LEMMA Replaced ==
  ASSUME NEW S, NEW s \in Seq(S), NEW x \in S, s # << >>
  PROVE  /\ [s EXCEPT ![Len(s)] = x] \in Seq(S)
         /\ Len([s EXCEPT ![Len(s)] = x]) = Len(s)
         /\ \A j \in 1 .. Len(s) - 1 : [s EXCEPT ![Len(s)] = x][j] = s[j]
         /\ [s EXCEPT ![Len(s)] = x][Len(s)] = x
OBVIOUS

LEMMA Shortened ==
  ASSUME NEW S, NEW s \in Seq(S), s # << >>
  PROVE  /\ SubSeq(s, 1, Len(s) - 1) \in Seq(S)
         /\ Len(SubSeq(s, 1, Len(s) - 1)) = Len(s) - 1
         /\ \A j \in 1 .. Len(s) - 1 : SubSeq(s, 1, Len(s) - 1)[j] = s[j]
<1> DEFINE n == Len(s) - 1
<1>1. 1 \in Int /\ n \in Int /\ n >= 0 /\ \A i \in 1 .. n : s[i] \in S
  OBVIOUS
<1> HIDE DEF n
<1>2. /\ SubSeq(s, 1, n) \in Seq(S)
      /\ Len(SubSeq(s, 1, n)) = IF 1 <= n THEN n - 1 + 1 ELSE 0
      /\ \A i \in 1 .. n - 1 + 1 : SubSeq(s, 1, n)[i] = s[1 + i - 1]
  BY <1>1, SubSeqProperties
<1>3. n - 1 + 1 = n /\ Len(SubSeq(s, 1, n)) = n /\ \A i \in 1 .. n : 1 + i - 1 = i
  BY <1>1, <1>2
<1>4. \A i \in 1 .. n : SubSeq(s, 1, n)[i] = s[i]
  BY <1>2, <1>3
<1> QED BY <1>2, <1>3, <1>4 DEF n

\* A frame with another width, with another register too, and at another stage.
LEMMA FrameWithWidth ==
  ASSUME NEW f \in Frame, NEW w \in Nat \ {0}
  PROVE  [f EXCEPT !.width = w] \in Frame
BY DEF Frame

LEMMA FrameWithRegister ==
  ASSUME NEW f \in Frame, NEW w \in Nat \ {0}, NEW r \in Nat
  PROVE  [f EXCEPT !.width = w, !.reg = r] \in Frame
BY DEF Frame

LEMMA FrameAt ==
  ASSUME NEW f \in Frame, NEW r \in Nat, NEW stage \in Stages
  PROVE  [f EXCEPT !.pc = stage, !.width = 1, !.reg = r] \in Frame
<1>1. 1 \in Nat \ {0}
  OBVIOUS
<1> QED BY <1>1 DEF Frame

\* The call in progress is a frame.
LEMMA Innermost ==
  ASSUME TypeOK, InProgress
  PROVE  /\ Len(calls) \in Nat \ {0} /\ Current \in Frame
         /\ \A i \in 1 .. Len(calls) : calls[i] \in Frame
BY DEF TypeOK, InProgress, Current

\* A step of it changes its frame only.
LEMMA Continued ==
  ASSUME TypeOK, InProgress, NEW f \in Frame, Continue(f)
  PROVE  /\ calls' \in Seq(Frame) /\ Len(calls') = Len(calls)
         /\ InProgress' /\ Current' = f
         /\ \A i \in 1 .. Len(calls) - 1 : calls'[i] = calls[i]
<1>1. Len(calls) \in Nat \ {0} /\ calls \in Seq(Frame) /\ calls # << >>
  BY Innermost DEF TypeOK, InProgress
<1>2. calls' = [calls EXCEPT ![Len(calls)] = f]
  BY DEF Continue
<1>3. /\ calls' \in Seq(Frame) /\ Len(calls') = Len(calls)
      /\ \A i \in 1 .. Len(calls) - 1 : calls'[i] = calls[i]
      /\ calls'[Len(calls)] = f
  BY <1>1, <1>2, Replaced
<1>4. calls' # << >>
  BY <1>1, <1>3
<1> QED BY <1>3, <1>4 DEF InProgress, Current

LEMMA GoneTo ==
  ASSUME TypeOK, InProgress, NEW stage \in Stages, NEW reg \in Nat, Goto(stage, reg)
  PROVE  /\ calls' \in Seq(Frame) /\ Len(calls') = Len(calls)
         /\ InProgress' /\ Current'.pc = stage /\ Current'.width = 1 /\ Current'.reg = reg
         /\ \A i \in 1 .. Len(calls) - 1 : calls'[i] = calls[i]
<1> DEFINE f == [Current EXCEPT !.pc = stage, !.width = 1, !.reg = reg]
<1>1. f \in Frame
  BY Innermost, FrameAt
<1>2. f.pc = stage /\ f.width = 1 /\ f.reg = reg
  BY Innermost DEF Frame
<1>3. Continue(f)
  BY DEF Goto
<1> HIDE DEF f
<1> QED BY <1>1, <1>3, <1>2, Continued

\* A return takes it away.
LEMMA Returned ==
  ASSUME TypeOK, InProgress, Return
  PROVE  /\ calls' \in Seq(Frame) /\ Len(calls') = Len(calls) - 1
         /\ calls' = << >> <=> Len(calls) = 1
         /\ \A i \in 1 .. Len(calls) - 1 : calls'[i] = calls[i]
<1>1. Len(calls) \in Nat \ {0} /\ calls \in Seq(Frame) /\ calls # << >>
  BY Innermost DEF TypeOK, InProgress
<1>2. /\ calls' \in Seq(Frame) /\ Len(calls') = Len(calls) - 1
      /\ \A i \in 1 .. Len(calls) - 1 : calls'[i] = calls[i]
  BY <1>1, Shortened DEF Return
<1>3. calls' = << >> <=> Len(calls') = 0
  BY <1>2
<1> QED BY <1>1, <1>2, <1>3

\* A further call comes on top.
LEMMA Called ==
  ASSUME TypeOK, NEW f \in Frame, calls' = Append(calls, f)
  PROVE  /\ calls' \in Seq(Frame) /\ Len(calls') = Len(calls) + 1
         /\ InProgress' /\ Current' = f
         /\ \A i \in 1 .. Len(calls) : calls'[i] = calls[i]
BY DEF TypeOK, InProgress, Current

NewFrame(isr) == [isr |-> isr, pc |-> "load", width |-> 1, reg |-> 0]

LEMMA NewFrameType == ASSUME NEW isr \in BOOLEAN PROVE NewFrame(isr) \in Frame
BY DEF NewFrame, Frame, Stages

\* What an access to the block number makes of it and of the register.
LEMMA Accesses ==
  ASSUME TypeOK, InProgress
  PROVE  /\ Loaded \in Nat /\ Stored \in Nat
         /\ Current.width = 1 => Loaded = blockNumber /\ Stored = Current.reg
         /\ Current.reg = blockNumber % Current.width => Loaded = blockNumber
         /\ blockNumber % Current.width = Current.reg % Current.width =>
              Stored = Current.reg
<1> DEFINE w == Current.width
           r == Current.reg
<1>1. w \in Nat \ {0} /\ r \in Nat /\ blockNumber \in Nat
  BY Innermost DEF Frame, TypeOK
<1>2. Loaded = Mix(w, r, blockNumber) /\ Stored = Mix(w, blockNumber, r)
  BY DEF Loaded, Stored
<1> HIDE DEF w, r
<1>3. Loaded \in Nat /\ Stored \in Nat /\ (w = 1 => Loaded = blockNumber /\ Stored = r)
  BY <1>1, <1>2, Mixed
<1>4. r = blockNumber % w => r % w = blockNumber % w
  BY <1>1, Mixed
<1>5. r = blockNumber % w => Loaded = blockNumber
  BY <1>1, <1>2, <1>4, Mixed
<1>6. blockNumber % w = r % w => Stored = r
  BY <1>1, <1>2, Mixed
<1> QED BY <1>3, <1>5, <1>6 DEF w, r

-----------------------------------------------------------------------------
LEMMA AdvanceType ==
  ASSUME TypeOK, BootInv, Advance
  PROVE  TypeOK' /\ BootInv'
<1> USE SmallFacts
<1>0. InProgress
  BY DEF Advance, LoadLower, StoreLower, LoadNumber, StoreNumber, CompareNumber,
         ResetNumber, TestNumber, PassNumber, StartMeta, EndMeta, Executes
<1>1. UNCHANGED <<pc, sector, ready, numberOfBlocks, chunk, first, givenUp, overtaken,
                  torn, head, misread, boots>>
  BY DEF Advance, LoadLower, StoreLower, LoadNumber, StoreNumber, CompareNumber,
         ResetNumber, TestNumber, PassNumber, StartMeta, EndMeta, globals, history
<1>2. card' \in [Blocks -> Nat] /\ metaStale' \in {0, 1}
  <2>1. CASE EndMeta
    <3>1. Current.reg \in Nat
      BY <1>0, Innermost DEF Frame
    <3> QED BY <2>1, <3>1, CardAssumption DEF EndMeta, WriteMetadata, TypeOK
  <2> QED BY <2>1 DEF Advance, LoadLower, StoreLower, LoadNumber, StoreNumber, CompareNumber,
         ResetNumber, TestNumber, PassNumber, StartMeta, EndMeta, globals, history, TypeOK
<1>3. calls' \in Seq(Frame) /\ blockNumber' \in Nat
  <2>0. /\ Loaded \in Nat /\ Stored \in Nat /\ Current \in Frame /\ blockNumber \in Nat
        /\ Current.reg \in Nat
    BY <1>0, Accesses, Innermost DEF TypeOK, Frame
  <2>1. CASE LoadLower
    <3>1. PICK w \in Widths : Continue([Current EXCEPT !.width = w, !.reg = blockNumber % w])
      BY <2>1 DEF LoadLower
    <3>2. w \in Nat \ {0}
      BY CardAssumption
    <3>3. [Current EXCEPT !.width = w, !.reg = blockNumber % w] \in Frame
      <4>1. blockNumber % w \in Nat
        BY <2>0, <3>2
      <4> QED BY <2>0, <3>2, <4>1, FrameWithRegister
    <3> QED BY <1>0, <2>0, <2>1, <3>1, <3>3, Continued DEF LoadLower, globals
  <2>2. CASE StoreLower
    <3>1. PICK w \in Widths : /\ Continue([Current EXCEPT !.width = w])
                              /\ blockNumber' = Mix(w, Current.reg, blockNumber)
      BY <2>2 DEF StoreLower
    <3>2. w \in Nat \ {0}
      BY CardAssumption
    <3>3. [Current EXCEPT !.width = w] \in Frame
      BY <2>0, <3>2, FrameWithWidth
    <3> QED BY <1>0, <2>0, <3>1, <3>2, <3>3, Continued, Mixed
  <2>3. CASE LoadNumber
    BY <1>0, <2>0, <2>3, GoneTo DEF LoadNumber, Stages, globals
  <2>4. CASE StoreNumber
    BY <1>0, <2>0, <2>4, GoneTo DEF StoreNumber, Stages
  <2>5. CASE CompareNumber
    BY <1>0, <2>0, <2>5, GoneTo DEF CompareNumber, Stages, globals
  <2>6. CASE ResetNumber
    BY <1>0, <2>0, <2>6, GoneTo DEF ResetNumber, Stages
  <2>7. CASE TestNumber
    BY <1>0, <2>0, <2>7, GoneTo, Returned DEF TestNumber, Stages, globals
  <2>8. CASE PassNumber
    BY <1>0, <2>0, <2>8, GoneTo DEF PassNumber, Stages, globals
  <2>9. CASE StartMeta
    BY <1>0, <2>0, <2>9, GoneTo DEF StartMeta, Stages, globals
  <2>10. CASE EndMeta
    BY <1>0, <2>0, <2>10, Returned DEF EndMeta, globals
  <2> QED BY <2>1, <2>2, <2>3, <2>4, <2>5, <2>6, <2>7, <2>8, <2>9, <2>10 DEF Advance
<1>4. TypeOK'
  BY <1>1, <1>2, <1>3 DEF TypeOK
<1>5. ready = 1
  BY <1>0 DEF BootInv, InProgress
<1> QED BY <1>1, <1>4, <1>5 DEF BootInv

LEMMA TypeStep ==
  ASSUME TypeOK, BootInv, [Next]_vars
  PROVE  TypeOK' /\ BootInv'
<1> USE SmallFacts DEF TypeOK, globals, history
<1>1. CASE PowerOn
  BY <1>1 DEF PowerOn, BootInv
<1>2. CASE Probe
  BY <1>2 DEF Probe, BootInv
<1>3. CASE ProbeFails
  BY <1>3 DEF ProbeFails, BootInv
<1>4. CASE ReadId
  BY <1>4 DEF ReadId, ReadSector, Blocks, BootInv
<1>5. CASE ReadResume
  <2>1. sector' \in Nat
    BY <1>5 DEF ReadResume, ReadSector, Blocks
  <2>2. numberOfBlocks = Capacity
    BY <1>5 DEF ReadResume, BootInv
  <2>3. blockNumber' \in DataBlocks
    BY <1>5, <2>1, <2>2, ResumeInRing DEF ReadResume
  <2> QED
    BY <1>5, <2>1, <2>3 DEF ReadResume, BootInv, DataBlocks
<1>6. CASE RewriteResume
  BY <1>6 DEF RewriteResume, WriteMetadata, BootInv
<1>7. ASSUME NEW isr \in BOOLEAN, StoreChunk(isr)
      PROVE  TypeOK' /\ BootInv'
  <2>1. calls' = Append(calls, NewFrame(isr))
    BY <1>7 DEF StoreChunk, NewFrame
  <2>2. calls' \in Seq(Frame)
    BY <2>1, NewFrameType, Called
  <2>3. head' \in Blocks
    BY <1>7, NextBlockOnCard DEF StoreChunk, TakeChunk
  <2> QED
    BY <1>7, <2>2, <2>3 DEF StoreChunk, TakeChunk, Overtake, BootInv
<1>8. ASSUME NEW isr \in BOOLEAN, RejectChunk(isr)
      PROVE  TypeOK' /\ BootInv'
  BY <1>8 DEF RejectChunk, TakeChunk, Overtake, BootInv
<1>9. ASSUME NEW isr \in BOOLEAN, TimeoutChunk(isr)
      PROVE  TypeOK' /\ BootInv'
  BY <1>9 DEF TimeoutChunk, TakeChunk, Overtake, BootInv
<1>10. CASE RefuseChunk
  BY <1>10 DEF RefuseChunk, Overtake, BootInv
<1>11. CASE Advance
  BY <1>11, AdvanceType
<1>12. CASE PowerOff
  BY <1>12 DEF PowerOff, BootInv
<1>13. CASE UNCHANGED vars
  BY <1>13 DEF vars, BootInv
<1> QED
  BY <1>1, <1>2, <1>3, <1>4, <1>5, <1>6, <1>7, <1>8, <1>9, <1>10, <1>11, <1>12, <1>13
     DEF Next

\* The state has its types in every reachable state, whatever the card does and whenever
\* interrupts come.
THEOREM TypeCorrect == Spec => [](TypeOK /\ BootInv)
<1>1. Init => TypeOK /\ BootInv
  <2> SUFFICES ASSUME Init PROVE TypeOK /\ BootInv
    OBVIOUS
  <2>1. PICK id \in {0, MagicWord}, m \in FirstMeta :
          card = [b \in Blocks |-> IF b = 0 THEN id ELSE IF b = 1 THEN m ELSE 0]
    BY DEF Init
  <2>2. card \in [Blocks -> Nat]
    BY <2>1, CardAssumption
  <2> QED
    BY <2>2, SmallFacts DEF Init, TypeOK, BootInv, Blocks
<1>2. TypeOK /\ BootInv /\ [Next]_vars => TypeOK' /\ BootInv'
  BY TypeStep
<1> QED
  BY <1>1, <1>2, PTL DEF Spec
-----------------------------------------------------------------------------
(* The block number, as long as no call came in between two bytes of it.   *)

\* What a call, wherever it is, has in its register.
RegisterOK(call) ==
  /\ call.pc = "store" => call.reg \in DataBlocks \union {Capacity}
  /\ call.pc = "reset" => call.reg = 2
  /\ call.pc \in {"announce", "transfer"} => call.reg \in DataBlocks

\* The block number while the call executes.  It is one of the ring except between the
\* increment and the wrap, and while it is being stored; a part of it that was loaded or
\* stored already agrees with what it is taken from.
NumberFits(call) ==
  /\ call.pc \notin {"store", "compare", "reset"} => blockNumber \in DataBlocks
  /\ call.pc = "store" /\ call.width = 1 => blockNumber \in DataBlocks
  /\ call.pc = "compare" \/ (call.pc = "reset" /\ call.width = 1) =>
       blockNumber \in DataBlocks \union {Capacity}
  /\ call.pc \in {"load", "compare", "test", "pass"} /\ call.width # 1 =>
       call.reg = blockNumber % call.width
  /\ call.pc \in {"store", "reset"} /\ call.width # 1 =>
       blockNumber % call.width = call.reg % call.width

NumberInv ==
  ready = 1 /\ torn = 0 =>
    /\ \A i \in 1 .. Len(calls) :
         RegisterOK(calls[i]) /\ (i < Len(calls) => ~Exposed(calls[i]))
    /\ IF InProgress THEN NumberFits(Current) ELSE blockNumber \in DataBlocks

\* What an access yields then.
LEMMA Accessed ==
  ASSUME TypeOK, InProgress, NumberFits(Current)
  PROVE  /\ Current.pc \in {"load", "compare", "test", "pass"} => Loaded = blockNumber
         /\ Current.pc \in {"store", "reset"} => Stored = Current.reg
BY Accesses DEF NumberFits

\* The inner calls only change when the innermost one returns, and it leaves a block of
\* the ring behind, which suits every call that is not Exposed.
LEMMA NumberAfter ==
  ASSUME TypeOK, TypeOK', BootInv, NumberInv, InProgress, torn = 0,
         \/ /\ InProgress' /\ Len(calls') = Len(calls)
            /\ RegisterOK(Current') /\ NumberFits(Current)'
         \/ Len(calls') = Len(calls) - 1 /\ blockNumber' \in DataBlocks,
         \A i \in 1 .. Len(calls) - 1 : calls'[i] = calls[i]
  PROVE  NumberInv'
<1>1. Len(calls) \in Nat \ {0} /\ ready = 1
  BY Innermost DEF BootInv, InProgress
<1>2. \A i \in 1 .. Len(calls) : RegisterOK(calls[i]) /\ (i < Len(calls) => ~Exposed(calls[i]))
  BY <1>1 DEF NumberInv
<1>3. CASE InProgress' /\ Len(calls') = Len(calls) /\ RegisterOK(Current') /\ NumberFits(Current)'
  <2>1. ASSUME NEW i \in 1 .. Len(calls)
        PROVE  RegisterOK(calls'[i]) /\ (i < Len(calls') => ~Exposed(calls'[i]))
    <3>1. CASE i = Len(calls)
      BY <1>3, <3>1 DEF Current
    <3>2. CASE i \in 1 .. Len(calls) - 1
      BY <1>2, <1>3, <3>2
    <3> QED BY <1>1, <3>1, <3>2
  <2> QED BY <1>3, <2>1 DEF NumberInv, RegisterOK, Exposed
<1>4. CASE Len(calls') = Len(calls) - 1 /\ blockNumber' \in DataBlocks
  <2>1. ASSUME NEW i \in 1 .. Len(calls) - 1
        PROVE  RegisterOK(calls'[i]) /\ ~Exposed(calls'[i])
    BY <1>1, <1>2, <2>1
  <2>2. InProgress' => RegisterOK(Current') /\ ~Exposed(Current')
    <3> SUFFICES ASSUME InProgress' PROVE RegisterOK(Current') /\ ~Exposed(Current')
      OBVIOUS
    <3>1. Len(calls') # 0
      BY DEF InProgress, TypeOK
    <3>2. Len(calls') \in 1 .. Len(calls) - 1
      BY <1>1, <1>4, <3>1
    <3> QED BY <1>4, <2>1, <3>2 DEF Current
  <2>3. InProgress' => NumberFits(Current)'
    BY <1>4, <2>2 DEF NumberFits, Exposed
  <2> QED BY <1>1, <1>4, <2>1, <2>3 DEF NumberInv, RegisterOK, Exposed
<1> QED
  <2>1. \/ InProgress' /\ Len(calls') = Len(calls) /\ RegisterOK(Current') /\ NumberFits(Current)'
        \/ Len(calls') = Len(calls) - 1 /\ blockNumber' \in DataBlocks
    OBVIOUS
  <2> QED BY <1>3, <1>4, <2>1
LEMMA NumberAdvance ==
  ASSUME TypeOK, BootInv, NumberInv, torn = 0, Advance
  PROVE  NumberInv'
<1>0. InProgress
  BY DEF Advance, LoadLower, StoreLower, LoadNumber, StoreNumber, CompareNumber,
         ResetNumber, TestNumber, PassNumber, StartMeta, EndMeta, Executes
<1>1. TypeOK' /\ ready = 1 /\ numberOfBlocks = Capacity
  BY <1>0, AdvanceType DEF BootInv, InProgress
<1>2. /\ Current \in Frame /\ Len(calls) \in Nat \ {0}
      /\ Current.reg \in Nat /\ Current.width \in Nat \ {0} /\ blockNumber \in Nat
      /\ RegisterOK(Current) /\ NumberFits(Current)
  BY <1>0, <1>1, Innermost DEF NumberInv, Current, Frame, TypeOK
<1>3. /\ Current.pc \in {"load", "compare", "test", "pass"} => Loaded = blockNumber
      /\ Current.pc \in {"store", "reset"} => Stored = Current.reg
  BY <1>0, <1>2, Accessed
<1> USE SmallFacts
<1>4. CASE LoadLower
  <2>1. PICK w \in Widths : Continue([Current EXCEPT !.width = w, !.reg = blockNumber % w])
    BY <1>4 DEF LoadLower
  <2>2. w \in Nat \ {0, 1} /\ blockNumber % w \in Nat
    BY <1>2, <2>1, CardAssumption
  <2> DEFINE f == [Current EXCEPT !.width = w, !.reg = blockNumber % w]
  <2>3. f \in Frame
    BY <1>2, <2>2, FrameWithRegister
  <2>4. f.pc = Current.pc /\ f.width = w /\ f.reg = blockNumber % w
    BY <1>2 DEF Frame
  <2> HIDE DEF f
  <2>5. /\ Len(calls') = Len(calls) /\ InProgress' /\ Current' = f
        /\ \A i \in 1 .. Len(calls) - 1 : calls'[i] = calls[i]
    BY <1>0, <2>1, <2>3, Continued DEF f
  <2>6. Current.pc \in {"load", "compare", "test", "pass"} /\ blockNumber' = blockNumber
    BY <1>4 DEF LoadLower, globals
  <2>7. RegisterOK(Current') /\ NumberFits(Current)'
    BY <1>2, <2>4, <2>5, <2>6 DEF RegisterOK, NumberFits
  <2> QED BY <1>0, <1>1, <2>5, <2>7, NumberAfter
<1>5. CASE StoreLower
  <2>1. PICK w \in Widths : /\ Continue([Current EXCEPT !.width = w])
                            /\ blockNumber' = Mix(w, Current.reg, blockNumber)
    BY <1>5 DEF StoreLower
  <2>2. w \in Nat \ {0, 1}
    BY CardAssumption
  <2> DEFINE f == [Current EXCEPT !.width = w]
  <2>3. f \in Frame
    BY <1>2, <2>2, FrameWithWidth
  <2>4. f.pc = Current.pc /\ f.width = w /\ f.reg = Current.reg
    BY <1>2 DEF Frame
  <2> HIDE DEF f
  <2>5. /\ Len(calls') = Len(calls) /\ InProgress' /\ Current' = f
        /\ \A i \in 1 .. Len(calls) - 1 : calls'[i] = calls[i]
    BY <1>0, <2>1, <2>3, Continued DEF f
  <2>6. Current.pc \in {"store", "reset"} /\ blockNumber' % w = Current.reg % w
    BY <1>2, <1>5, <2>1, <2>2, Mixed DEF StoreLower
  <2>7. RegisterOK(Current') /\ NumberFits(Current)'
    BY <1>2, <2>2, <2>4, <2>5, <2>6 DEF RegisterOK, NumberFits
  <2> QED BY <1>0, <1>1, <2>5, <2>7, NumberAfter
<1>6. CASE LoadNumber
  <2>1. /\ Len(calls') = Len(calls) /\ InProgress'
        /\ Current'.pc = "store" /\ Current'.width = 1 /\ Current'.reg = blockNumber + 1
        /\ \A i \in 1 .. Len(calls) - 1 : calls'[i] = calls[i]
    BY <1>0, <1>2, <1>3, <1>6, GoneTo DEF LoadNumber, Executes, Stages
  <2>2. blockNumber' = blockNumber /\ blockNumber \in DataBlocks
    BY <1>2, <1>6 DEF LoadNumber, Executes, NumberFits, globals
  <2>3. RegisterOK(Current') /\ NumberFits(Current)'
    BY <2>1, <2>2 DEF RegisterOK, NumberFits, DataBlocks
  <2> QED BY <1>0, <1>1, <2>1, <2>3, NumberAfter
<1>7. CASE StoreNumber
  <2>1. /\ Len(calls') = Len(calls) /\ InProgress'
        /\ Current'.pc = "compare" /\ Current'.width = 1 /\ Current'.reg = 0
        /\ \A i \in 1 .. Len(calls) - 1 : calls'[i] = calls[i]
    BY <1>0, <1>7, GoneTo DEF StoreNumber, Stages
  <2>2. blockNumber' \in DataBlocks \union {Capacity}
    BY <1>2, <1>3, <1>7 DEF StoreNumber, Executes, RegisterOK
  <2>3. RegisterOK(Current') /\ NumberFits(Current)'
    BY <2>1, <2>2 DEF RegisterOK, NumberFits
  <2> QED BY <1>0, <1>1, <2>1, <2>3, NumberAfter
<1>8. CASE CompareNumber
  <2>1. /\ Len(calls') = Len(calls) /\ InProgress' /\ Current'.width = 1
        /\ IF blockNumber >= Capacity THEN Current'.pc = "reset" /\ Current'.reg = 2
           ELSE Current'.pc = "test"
        /\ \A i \in 1 .. Len(calls) - 1 : calls'[i] = calls[i]
    <3>1. IF blockNumber >= Capacity THEN Goto("reset", 2) ELSE Goto("test", 0)
      BY <1>1, <1>3, <1>8 DEF CompareNumber, Executes, PastEnd
    <3> QED BY <1>0, <3>1, GoneTo DEF Stages
  <2>2. blockNumber' = blockNumber /\ blockNumber \in DataBlocks \union {Capacity}
    BY <1>2, <1>8 DEF CompareNumber, Executes, NumberFits, globals
  <2>3. RegisterOK(Current') /\ NumberFits(Current)'
    BY <2>1, <2>2 DEF RegisterOK, NumberFits, DataBlocks
  <2> QED BY <1>0, <1>1, <2>1, <2>3, NumberAfter
<1>9. CASE ResetNumber
  <2>1. /\ Len(calls') = Len(calls) /\ InProgress'
        /\ Current'.pc = "test" /\ Current'.width = 1 /\ Current'.reg = 0
        /\ \A i \in 1 .. Len(calls) - 1 : calls'[i] = calls[i]
    BY <1>0, <1>9, GoneTo DEF ResetNumber, Stages
  <2>2. blockNumber' \in DataBlocks
    BY <1>2, <1>3, <1>9 DEF ResetNumber, Executes, RegisterOK, DataBlocks
  <2>3. RegisterOK(Current') /\ NumberFits(Current)'
    BY <2>1, <2>2 DEF RegisterOK, NumberFits
  <2> QED BY <1>0, <1>1, <2>1, <2>3, NumberAfter
<1>10. CASE TestNumber
  <2>1. blockNumber' = blockNumber /\ blockNumber \in DataBlocks
    BY <1>2, <1>10 DEF TestNumber, Executes, NumberFits, globals
  <2>2. CASE MetaDue(Loaded)
    <3>1. /\ Len(calls') = Len(calls) /\ InProgress'
          /\ Current'.pc = "pass" /\ Current'.width = 1 /\ Current'.reg = 0
          /\ \A i \in 1 .. Len(calls) - 1 : calls'[i] = calls[i]
      BY <1>0, <1>10, <2>2, GoneTo DEF TestNumber, Stages
    <3>2. RegisterOK(Current') /\ NumberFits(Current)'
      BY <2>1, <3>1 DEF RegisterOK, NumberFits
    <3> QED BY <1>0, <1>1, <3>1, <3>2, NumberAfter
  <2>3. CASE ~MetaDue(Loaded)
    <3>1. /\ Len(calls') = Len(calls) - 1
          /\ \A i \in 1 .. Len(calls) - 1 : calls'[i] = calls[i]
      BY <1>0, <1>10, <2>3, Returned DEF TestNumber
    <3> QED BY <1>0, <1>1, <2>1, <3>1, NumberAfter
  <2> QED BY <2>2, <2>3
<1>11. CASE PassNumber
  <2>1. /\ Len(calls') = Len(calls) /\ InProgress'
        /\ Current'.pc = "announce" /\ Current'.width = 1 /\ Current'.reg = blockNumber
        /\ \A i \in 1 .. Len(calls) - 1 : calls'[i] = calls[i]
    BY <1>0, <1>2, <1>3, <1>11, GoneTo DEF PassNumber, Executes, Stages
  <2>2. blockNumber' = blockNumber /\ blockNumber \in DataBlocks
    BY <1>2, <1>11 DEF PassNumber, Executes, NumberFits, globals
  <2>3. RegisterOK(Current') /\ NumberFits(Current)'
    BY <2>1, <2>2 DEF RegisterOK, NumberFits
  <2> QED BY <1>0, <1>1, <2>1, <2>3, NumberAfter
<1>12. CASE StartMeta
  <2>1. /\ Len(calls') = Len(calls) /\ InProgress'
        /\ Current'.pc = "transfer" /\ Current'.width = 1 /\ Current'.reg = Current.reg
        /\ \A i \in 1 .. Len(calls) - 1 : calls'[i] = calls[i]
    BY <1>0, <1>2, <1>12, GoneTo DEF StartMeta, Stages
  <2>2. /\ blockNumber' = blockNumber /\ blockNumber \in DataBlocks
        /\ Current.reg \in DataBlocks
    BY <1>2, <1>12 DEF StartMeta, Executes, NumberFits, RegisterOK, globals
  <2>3. RegisterOK(Current') /\ NumberFits(Current)'
    BY <2>1, <2>2 DEF RegisterOK, NumberFits
  <2> QED BY <1>0, <1>1, <2>1, <2>3, NumberAfter
<1>13. CASE EndMeta
  <2>1. /\ Len(calls') = Len(calls) - 1
        /\ \A i \in 1 .. Len(calls) - 1 : calls'[i] = calls[i]
    BY <1>0, <1>13, Returned DEF EndMeta
  <2>2. blockNumber' = blockNumber /\ blockNumber \in DataBlocks
    BY <1>2, <1>13 DEF EndMeta, Executes, NumberFits, globals
  <2> QED BY <1>0, <1>1, <2>1, <2>2, NumberAfter
<1> QED BY <1>4, <1>5, <1>6, <1>7, <1>8, <1>9, <1>10, <1>11, <1>12, <1>13 DEF Advance

\* A call that comes in neither between two bytes of the number nor while it is past the
\* end of the card finds a block of the ring in it.
LEMMA BlockTaken ==
  ASSUME TypeOK, BootInv, NumberInv, NEW isr \in BOOLEAN, TakeChunk(isr), torn' = 0
  PROVE  /\ torn = 0 /\ ready = 1 /\ ready' = 1 /\ blockNumber \in DataBlocks
         /\ blockNumber' = blockNumber
         /\ \A i \in 1 .. Len(calls) : RegisterOK(calls[i]) /\ ~Exposed(calls[i])
<1>1. /\ torn = 0 /\ ready = 1 /\ ready' = 1 /\ blockNumber \in Blocks
      /\ blockNumber' = blockNumber
      /\ InProgress => ~Exposed(Current)
  BY DEF TakeChunk, Overtake, globals, TypeOK
<1>2. CASE ~InProgress
  <2>1. Len(calls) = 0
    BY <1>2 DEF InProgress
  <2> QED BY <1>1, <1>2, <2>1 DEF NumberInv
<1>3. CASE InProgress
  <2>1. blockNumber \in DataBlocks
    BY <1>1, <1>3, Innermost, SmallFacts
       DEF NumberInv, NumberFits, Exposed, Frame, Stages, Blocks, DataBlocks
  <2>2. ASSUME NEW i \in 1 .. Len(calls)
        PROVE  RegisterOK(calls[i]) /\ ~Exposed(calls[i])
    BY <1>1, <1>3, Innermost DEF NumberInv, Current
  <2> QED BY <1>1, <2>1, <2>2
<1> QED BY <1>2, <1>3
LEMMA NumberStep ==
  ASSUME TypeOK, BootInv, NumberInv, [Next]_vars
  PROVE  NumberInv'
<1> USE SmallFacts
<1>1. CASE PowerOn \/ PowerOff \/ Probe \/ ProbeFails \/ ReadId \/ ReadResume
  <2>1. ready' = 0 \/ ready' = ready
    BY <1>1 DEF PowerOn, PowerOff, Probe, ProbeFails, ReadId, ReadResume, globals
  <2>2. ready = 1 => ready' = 0
    BY <1>1 DEF PowerOn, PowerOff, Probe, ProbeFails, ReadId, ReadResume, BootInv
  <2>3. ready' # 1
    BY <2>1, <2>2
  <2> QED BY <2>3 DEF NumberInv
<1>2. CASE RewriteResume
  <2>1. calls' = << >> /\ blockNumber' \in DataBlocks
    BY <1>2 DEF RewriteResume, BootInv
  <2>2. ~InProgress' /\ Len(calls') = 0
    BY <2>1 DEF InProgress
  <2> QED BY <2>1, <2>2 DEF NumberInv
<1>3. ASSUME NEW isr \in BOOLEAN, StoreChunk(isr), torn' = 0
      PROVE  NumberInv'
  <2>1. /\ torn = 0 /\ ready = 1 /\ ready' = 1 /\ blockNumber \in DataBlocks
        /\ blockNumber' = blockNumber
        /\ \A i \in 1 .. Len(calls) : RegisterOK(calls[i]) /\ ~Exposed(calls[i])
    BY <1>3, BlockTaken DEF StoreChunk
  <2>2. /\ Len(calls') = Len(calls) + 1 /\ InProgress' /\ Current' = NewFrame(isr)
        /\ \A i \in 1 .. Len(calls) : calls'[i] = calls[i]
    BY <1>3, Called, NewFrameType DEF StoreChunk, NewFrame
  <2>3. RegisterOK(Current') /\ NumberFits(Current)'
    BY <2>1, <2>2 DEF RegisterOK, NumberFits, NewFrame
  <2>4. Len(calls) \in Nat
    BY DEF TypeOK
  <2>5. ASSUME NEW i \in 1 .. Len(calls')
        PROVE  RegisterOK(calls'[i]) /\ (i < Len(calls') => ~Exposed(calls'[i]))
    <3>1. CASE i = Len(calls')
      BY <2>3, <3>1 DEF Current
    <3>2. CASE i \in 1 .. Len(calls)
      BY <2>1, <2>2, <2>4, <3>2
    <3> QED BY <2>2, <2>4, <3>1, <3>2
  <2> QED BY <2>2, <2>3, <2>5 DEF NumberInv, RegisterOK, Exposed
<1>4. ASSUME NEW isr \in BOOLEAN, RejectChunk(isr) \/ TimeoutChunk(isr), torn' = 0
      PROVE  NumberInv'
  <2>1. torn = 0 /\ UNCHANGED <<ready, blockNumber, calls>>
    BY <1>4 DEF RejectChunk, TimeoutChunk, TakeChunk, Overtake, globals, TypeOK
  <2> QED BY <2>1 DEF NumberInv, InProgress, Current, NumberFits, RegisterOK, Exposed
<1>5. CASE RefuseChunk
  <2>1. torn' = 1
    BY <1>5 DEF RefuseChunk, Overtake, Exposed
  <2> QED BY <2>1 DEF NumberInv
<1>6. CASE Advance
  <2>1. CASE torn = 0
    BY <1>6, <2>1, NumberAdvance
  <2>2. CASE torn # 0
    <3>1. torn' # 0
      BY <1>6, <2>2 DEF Advance, LoadLower, StoreLower, LoadNumber, StoreNumber,
        CompareNumber, ResetNumber, TestNumber, PassNumber, StartMeta, EndMeta, history
    <3> QED BY <3>1 DEF NumberInv
  <2> QED BY <2>1, <2>2
<1>7. CASE UNCHANGED vars
  <2>1. UNCHANGED <<ready, torn, blockNumber, calls>>
    BY <1>7 DEF vars, globals, history
  <2> QED BY <2>1 DEF NumberInv, InProgress, Current, NumberFits, RegisterOK, Exposed
<1>8. \A isr \in BOOLEAN : StoreChunk(isr) \/ RejectChunk(isr) \/ TimeoutChunk(isr) => NumberInv'
  BY <1>3, <1>4 DEF NumberInv
<1> QED BY <1>1, <1>2, <1>5, <1>6, <1>7, <1>8 DEF Next

LEMMA NumberInvariant == Spec => []NumberInv
<1>1. Init => NumberInv
  BY DEF Init, NumberInv
<1>2. TypeOK /\ BootInv /\ NumberInv /\ [Next]_vars => NumberInv'
  BY NumberStep
<1> QED BY <1>1, <1>2, TypeCorrect, PTL DEF Spec

\* HeadInRing for every capacity: no content of block 1, no card error, no power failure
\* and no call that comes in during others leaves the number outside blocks
\* 2 .. Capacity-1, unless it comes in between two of its bytes.
THEOREM HeadAlwaysInRing == Spec => []HeadInRing
<1>1. NumberInv => HeadInRing
  BY DEF NumberInv, HeadInRing
<1> QED
  BY <1>1, NumberInvariant, PTL

\* ReservedBlocks for every capacity: block 0 is never changed and block 1 only ever gets
\* a block of the ring, whichever calls overtake which.
THEOREM ReservedBlocksKept == Spec => ReservedBlocks
<1>1. TypeOK /\ BootInv /\ NumberInv /\ [Next]_vars
      => [torn' = 0 => /\ card'[0] = card[0]
                       /\ card'[1] # card[1] => card'[1] \in DataBlocks]_card
  <2> SUFFICES ASSUME TypeOK, BootInv, NumberInv, [Next]_vars, card' # card, torn' = 0
               PROVE  /\ card'[0] = card[0]
                      /\ card'[1] # card[1] => card'[1] \in DataBlocks
    OBVIOUS
  <2>0. card \in [Blocks -> Nat] /\ 0 \in Blocks /\ 1 \in Blocks
    BY SmallFacts DEF TypeOK, Blocks
  <2>1. CASE RewriteResume
    BY <2>0, <2>1, SmallFacts DEF RewriteResume, WriteMetadata, BootInv
  <2>2. ASSUME NEW isr \in BOOLEAN, StoreChunk(isr) \/ TimeoutChunk(isr)
        PROVE  card'[0] = card[0] /\ card'[1] = card[1]
    <3>1. blockNumber \in DataBlocks
      BY <2>2, BlockTaken DEF StoreChunk, TimeoutChunk
    <3>2. card' = card \/ card' = [card EXCEPT ![blockNumber] = chunk]
      BY <2>2 DEF StoreChunk, TimeoutChunk
    <3> QED BY <2>0, <3>1, <3>2 DEF DataBlocks
  <2>3. CASE EndMeta
    <3>1. torn = 0 /\ InProgress /\ Current.pc = "transfer" /\ ready = 1
      BY <2>3 DEF EndMeta, Executes, BootInv, InProgress
    <3>2. Current.reg \in DataBlocks
      BY <3>1, Innermost DEF NumberInv, Current, RegisterOK
    <3>3. card' = card \/ card' = [card EXCEPT ![1] = Current.reg]
      BY <2>3, <3>1 DEF EndMeta, WriteMetadata
    <3> QED BY <2>0, <3>2, <3>3
  <2> QED
    BY <2>1, <2>2, <2>3
       DEF Next, vars, PowerOn, Probe, ProbeFails, ReadId, ReadResume, RejectChunk,
           RefuseChunk, Advance, LoadLower, StoreLower, LoadNumber, StoreNumber,
           CompareNumber, ResetNumber, TestNumber, PassNumber, StartMeta, PowerOff
<1> QED
  BY <1>1, TypeCorrect, NumberInvariant, PTL DEF Spec, ReservedBlocks

-----------------------------------------------------------------------------
(* A card that is not marked is not written.                               *)

MarkedInv ==
  (pc \in {"resume", "rewrite"} \/ ready = 1) /\ misread = 0 /\ torn = 0 =>
    card[0] = MagicWord

\* Steps that leave what MarkedInv speaks of.
LEMMA MarkedKept ==
  ASSUME MarkedInv, pc' = pc, ready' = ready, misread' = misread, torn' = 0 => torn = 0,
         torn' = 0 => card'[0] = card[0]
  PROVE  MarkedInv'
BY DEF MarkedInv

\* OnlyMarkedCards for every capacity and set of card errors: what lets a card
\* without the string be written is a failed read of block 0 and nothing else
\* (sdcard.c:653 then compares uninitialised memory).
THEOREM UnmarkedCardsUntouched == Spec => OnlyMarkedCards
<1> USE SmallFacts
<1>1. Init => MarkedInv
  BY DEF Init, MarkedInv
<1>2. TypeOK /\ BootInv /\ NumberInv /\ MarkedInv /\ [Next]_vars => MarkedInv'
  <2> SUFFICES ASSUME TypeOK, BootInv, NumberInv, MarkedInv, [Next]_vars
               PROVE  MarkedInv'
    OBVIOUS
  <2>0. card \in [Blocks -> Nat] /\ 0 \in Blocks
    BY DEF TypeOK, Blocks
  <2>1. CASE ReadId
    BY <2>1 DEF ReadId, ReadSector, IdMatches, MarkedInv, BootInv, globals
  <2>2. CASE RewriteResume
    BY <2>0, <2>2 DEF RewriteResume, WriteMetadata, MarkedInv, BootInv
  <2>3. ASSUME NEW isr \in BOOLEAN, StoreChunk(isr) \/ RejectChunk(isr) \/ TimeoutChunk(isr)
        PROVE  MarkedInv'
    <3>1. torn' = 0 => torn = 0 /\ blockNumber \in DataBlocks
      BY <2>3, BlockTaken DEF StoreChunk, RejectChunk, TimeoutChunk
    <3>2. card' = card \/ card' = [card EXCEPT ![blockNumber] = chunk]
      BY <2>3 DEF StoreChunk, RejectChunk, TimeoutChunk
    <3>3. torn' = 0 => card'[0] = card[0]
      BY <2>0, <3>1, <3>2 DEF DataBlocks
    <3>4. pc' = pc /\ ready' = ready /\ misread' = misread
      BY <2>3 DEF StoreChunk, RejectChunk, TimeoutChunk, TakeChunk, globals
    <3> QED BY <3>1, <3>3, <3>4, MarkedKept
  <2>4. CASE EndMeta
    <3>1. card'[0] = card[0]
      BY <2>0, <2>4 DEF EndMeta, WriteMetadata
    <3> QED BY <2>4, <3>1, MarkedKept DEF EndMeta, globals
  <2>5. CASE RefuseChunk
    BY <2>5, MarkedKept DEF RefuseChunk, Overtake, Exposed, globals
  <2>6. CASE PowerOn \/ Probe \/ ProbeFails \/ ReadResume \/ PowerOff
    BY <2>6 DEF PowerOn, Probe, ProbeFails, ReadResume, PowerOff, MarkedInv, BootInv,
                globals, history
  <2>7. CASE Advance /\ ~EndMeta
    <3>1. UNCHANGED <<card, pc, ready, misread, torn>>
      BY <2>7 DEF Advance, LoadLower, StoreLower, LoadNumber, StoreNumber, CompareNumber,
        ResetNumber, TestNumber, PassNumber, StartMeta, globals, history
    <3> QED BY <3>1, MarkedKept
  <2>8. CASE UNCHANGED vars
    BY <2>8, MarkedKept DEF vars, globals, history
  <2> QED BY <2>1, <2>2, <2>3, <2>4, <2>5, <2>6, <2>7, <2>8 DEF Next
<1>3. BootInv /\ MarkedInv /\ [Next]_vars
      => [misread = 0 /\ torn = 0 => card[0] = MagicWord]_card
  <2> SUFFICES ASSUME BootInv, MarkedInv, [Next]_vars, card' # card
               PROVE  pc = "rewrite" \/ ready = 1
    BY DEF MarkedInv
  <2> QED
    BY DEF Next, vars, PowerOn, Probe, ProbeFails, ReadId, ReadResume, RewriteResume,
         StoreChunk, RejectChunk, TimeoutChunk, TakeChunk, RefuseChunk, PowerOff, Advance,
         LoadLower, StoreLower, LoadNumber, StoreNumber, CompareNumber, ResetNumber,
         TestNumber, PassNumber, StartMeta, EndMeta, Executes, InProgress, BootInv
<1> QED
  BY <1>1, <1>2, <1>3, TypeCorrect, NumberInvariant, PTL DEF Spec, OnlyMarkedCards
-----------------------------------------------------------------------------
(* The number and the newest chunk, as long as no call overtakes another.  *)

Wrapped(n) == IF n >= Capacity THEN 2 ELSE n

\* How far the only call is on the way to the block after the newest chunk.
HeadInv ==
  ready = 1 /\ overtaken = 0 =>
    /\ Len(calls) <= 1
    /\ InProgress =>
         /\ Current.pc = "load" => head = NextBlock(blockNumber)
         /\ Current.pc = "store" => head = Wrapped(Current.reg)
         /\ Current.pc = "compare" => head = Wrapped(blockNumber)
         /\ Current.pc = "reset" => head = 2
         /\ Current.pc \in {"test", "pass", "announce", "transfer"} => blockNumber = head
         /\ Current.pc \in {"announce", "transfer"} => Current.reg = head

\* The only call in progress.
LEMMA OnlyCall ==
  ASSUME TypeOK, BootInv, NumberInv, HeadInv, InProgress, overtaken = 0
  PROVE  /\ ready = 1 /\ torn = 0 /\ numberOfBlocks = Capacity
         /\ Len(calls) = 1 /\ NumberFits(Current)
         /\ Current \in Frame /\ Current.reg \in Nat /\ Current.width \in Nat \ {0}
         /\ Current.pc \in {"load", "compare", "test", "pass"} => Loaded = blockNumber
         /\ Current.pc \in {"store", "reset"} => Stored = Current.reg
<1>1. ready = 1 /\ torn = 0 /\ numberOfBlocks = Capacity
  BY DEF BootInv, InProgress, TypeOK
<1>2. NumberFits(Current)
  BY <1>1 DEF NumberInv
<1>3. Len(calls) = 1
  <2>1. Len(calls) <= 1
    BY <1>1 DEF HeadInv
  <2>2. Len(calls) \in Nat \ {0}
    BY Innermost
  <2>3. \A n \in Nat \ {0} : n <= 1 => n = 1
    OBVIOUS
  <2> QED BY <2>1, <2>2, <2>3
<1>4. Current \in Frame /\ Current.reg \in Nat /\ Current.width \in Nat \ {0}
  BY Innermost DEF Frame
<1> QED BY <1>1, <1>2, <1>3, <1>4, Accessed

\* Its steps bring the number to the head, and leave the data blocks alone.  When it
\* returns, the head was not due for an update of block 1, or has had one.
Approach ==
  /\ UNCHANGED <<pc, sector, ready, chunk, first, givenUp, overtaken, head>>
  /\ InProgress /\ (~InProgress' => blockNumber' = head)
  /\ \A b \in DataBlocks : card'[b] = card[b]
  /\ \/ card' = card /\ metaStale' = metaStale /\ (InProgress' \/ ~MetaDue(head))
     \/ card'[1] = head /\ ~InProgress'
     \/ metaStale' = 1

LEMMA HeadAdvance ==
  ASSUME TypeOK, BootInv, NumberInv, HeadInv, overtaken = 0, Advance
  PROVE  HeadInv' /\ Approach
<1>0. InProgress
  BY DEF Advance, LoadLower, StoreLower, LoadNumber, StoreNumber, CompareNumber,
         ResetNumber, TestNumber, PassNumber, StartMeta, EndMeta, Executes
<1>1. UNCHANGED <<pc, sector, ready, chunk, first, givenUp, overtaken, head>>
  BY DEF Advance, LoadLower, StoreLower, LoadNumber, StoreNumber, CompareNumber,
         ResetNumber, TestNumber, PassNumber, StartMeta, EndMeta, globals, history
<1>2. /\ ready = 1 /\ torn = 0 /\ numberOfBlocks = Capacity
      /\ Len(calls) = 1 /\ NumberFits(Current)
      /\ Current \in Frame /\ Current.reg \in Nat /\ Current.width \in Nat \ {0}
      /\ Current.pc \in {"load", "compare", "test", "pass"} => Loaded = blockNumber
      /\ Current.pc \in {"store", "reset"} => Stored = Current.reg
  BY <1>0, OnlyCall
<1>3. blockNumber \in Nat /\ head \in Nat /\ card \in [Blocks -> Nat] /\ 1 \in Blocks
  BY SmallFacts DEF TypeOK, Blocks
<1> DEFINE Kept == card' = card /\ metaStale' = metaStale
           Goes(stage) == /\ Len(calls') = 1 /\ InProgress'
                          /\ Current'.pc = stage
<1>4. ASSUME Kept, InProgress', HeadInv'
      PROVE  HeadInv' /\ Approach
  BY <1>0, <1>1, <1>4 DEF Approach
<1>5. CASE LoadLower
  <2>1. PICK w \in Widths : Continue([Current EXCEPT !.width = w, !.reg = blockNumber % w])
    BY <1>5 DEF LoadLower
  <2>2. w \in Nat \ {0, 1} /\ blockNumber % w \in Nat
    BY <1>3, <2>1, CardAssumption
  <2> DEFINE f == [Current EXCEPT !.width = w, !.reg = blockNumber % w]
  <2>3. f \in Frame
    BY <1>2, <2>2, FrameWithRegister
  <2>4. f.pc = Current.pc
    BY <1>2 DEF Frame
  <2> HIDE DEF f
  <2>5. Len(calls') = Len(calls) /\ InProgress' /\ Current' = f
    BY <1>0, <2>1, <2>3, Continued DEF f
  <2>6. /\ Current.pc \in {"load", "compare", "test", "pass"} /\ blockNumber' = blockNumber
        /\ Kept
    BY <1>5 DEF LoadLower, globals, history
  <2>7. HeadInv'
    BY <1>0, <1>1, <1>2, <2>4, <2>5, <2>6 DEF HeadInv, NextBlock, Wrapped
  <2> QED BY <1>4, <2>5, <2>6, <2>7
<1>6. CASE StoreLower
  <2>1. PICK w \in Widths : Continue([Current EXCEPT !.width = w])
    BY <1>6 DEF StoreLower
  <2>2. w \in Nat \ {0, 1}
    BY CardAssumption
  <2> DEFINE f == [Current EXCEPT !.width = w]
  <2>3. f \in Frame
    BY <1>2, <2>2, FrameWithWidth
  <2>4. f.pc = Current.pc /\ f.reg = Current.reg
    BY <1>2 DEF Frame
  <2> HIDE DEF f
  <2>5. Len(calls') = Len(calls) /\ InProgress' /\ Current' = f
    BY <1>0, <2>1, <2>3, Continued DEF f
  <2>6. Current.pc \in {"store", "reset"} /\ Kept
    BY <1>6 DEF StoreLower, history
  <2>7. HeadInv'
    BY <1>0, <1>1, <1>2, <2>4, <2>5, <2>6 DEF HeadInv, Wrapped
  <2> QED BY <1>4, <2>5, <2>6, <2>7
<1>7. CASE LoadNumber
  <2>1. Goes("store") /\ Current'.reg = blockNumber + 1
    BY <1>0, <1>2, <1>3, <1>7, GoneTo DEF LoadNumber, Executes, Stages
  <2>2. Kept /\ head = NextBlock(blockNumber)
    BY <1>0, <1>2, <1>7 DEF LoadNumber, Executes, HeadInv, history
  <2>3. HeadInv'
    BY <1>1, <2>1, <2>2 DEF HeadInv, NextBlock, Wrapped
  <2> QED BY <1>4, <2>1, <2>2, <2>3
<1>8. CASE StoreNumber
  <2>1. Goes("compare")
    BY <1>0, <1>2, <1>8, GoneTo DEF StoreNumber, Stages
  <2>2. Kept /\ blockNumber' = Current.reg /\ head = Wrapped(Current.reg)
    BY <1>0, <1>2, <1>8 DEF StoreNumber, Executes, HeadInv, history
  <2>3. HeadInv'
    BY <1>1, <2>1, <2>2 DEF HeadInv, Wrapped
  <2> QED BY <1>4, <2>1, <2>2, <2>3
<1>9. CASE CompareNumber
  <2>1. IF blockNumber >= Capacity THEN Goto("reset", 2) ELSE Goto("test", 0)
    BY <1>2, <1>9 DEF CompareNumber, Executes, PastEnd
  <2>2. Kept /\ blockNumber' = blockNumber /\ head = Wrapped(blockNumber)
    BY <1>0, <1>2, <1>9 DEF CompareNumber, Executes, HeadInv, globals, history
  <2>3. CASE blockNumber >= Capacity
    <3>1. Goes("reset")
      BY <1>0, <1>2, <2>1, <2>3, GoneTo DEF Stages
    <3>2. HeadInv'
      BY <1>1, <2>2, <2>3, <3>1 DEF HeadInv, Wrapped
    <3> QED BY <1>4, <2>2, <3>1, <3>2
  <2>4. CASE ~(blockNumber >= Capacity)
    <3>1. Goes("test")
      BY <1>0, <1>2, <2>1, <2>4, GoneTo DEF Stages
    <3>2. HeadInv'
      BY <1>1, <2>2, <2>4, <3>1 DEF HeadInv, Wrapped
    <3> QED BY <1>4, <2>2, <3>1, <3>2
  <2> QED BY <2>3, <2>4
<1>10. CASE ResetNumber
  <2>1. Goes("test")
    BY <1>0, <1>2, <1>10, GoneTo DEF ResetNumber, Stages
  <2>2. Current.reg = 2
    BY <1>0, <1>2, <1>10, Innermost DEF ResetNumber, Executes, NumberInv, Current, RegisterOK
  <2>3. Kept /\ blockNumber' = head
    BY <1>0, <1>2, <1>10, <2>2 DEF ResetNumber, Executes, HeadInv, history
  <2>4. HeadInv'
    BY <1>1, <2>1, <2>3 DEF HeadInv
  <2> QED BY <1>4, <2>1, <2>3, <2>4
<1>11. CASE TestNumber
  <2>1. Kept /\ blockNumber' = blockNumber /\ blockNumber = head /\ Loaded = head
    BY <1>0, <1>2, <1>11 DEF TestNumber, Executes, HeadInv, globals, history
  <2>2. CASE MetaDue(Loaded)
    <3>1. Goes("pass")
      BY <1>0, <1>2, <1>11, <2>2, GoneTo DEF TestNumber, Stages
    <3>2. HeadInv'
      BY <1>1, <2>1, <3>1 DEF HeadInv
    <3> QED BY <1>4, <2>1, <3>1, <3>2
  <2>3. CASE ~MetaDue(Loaded)
    <3>1. calls' = << >>
      BY <1>0, <1>2, <1>11, <2>3, Returned DEF TestNumber
    <3>2. ~InProgress' /\ Len(calls') = 0
      BY <3>1 DEF InProgress
    <3>3. HeadInv'
      BY <3>2 DEF HeadInv
    <3> QED BY <1>0, <1>1, <2>1, <2>3, <3>2, <3>3 DEF Approach
  <2> QED BY <2>2, <2>3
<1>12. CASE PassNumber
  <2>1. Goes("announce") /\ Current'.reg = blockNumber
    BY <1>0, <1>2, <1>3, <1>12, GoneTo DEF PassNumber, Executes, Stages
  <2>2. Kept /\ blockNumber' = blockNumber /\ blockNumber = head
    BY <1>0, <1>2, <1>12 DEF PassNumber, Executes, HeadInv, globals, history
  <2>3. HeadInv'
    BY <1>1, <2>1, <2>2 DEF HeadInv
  <2> QED BY <1>4, <2>1, <2>2, <2>3
<1>13. CASE StartMeta
  <2>1. Goes("transfer") /\ Current'.reg = Current.reg
    BY <1>0, <1>2, <1>13, GoneTo DEF StartMeta, Stages
  <2>2. Kept /\ blockNumber' = blockNumber /\ blockNumber = head /\ Current.reg = head
    BY <1>0, <1>2, <1>13 DEF StartMeta, Executes, HeadInv, globals, history
  <2>3. HeadInv'
    BY <1>1, <2>1, <2>2 DEF HeadInv
  <2> QED BY <1>4, <2>1, <2>2, <2>3
<1>14. CASE EndMeta
  <2>1. calls' = << >>
    BY <1>0, <1>2, <1>14, Returned DEF EndMeta
  <2>2. ~InProgress' /\ Len(calls') = 0
    BY <2>1 DEF InProgress
  <2>3. blockNumber' = head /\ Current.reg = head
    BY <1>0, <1>2, <1>14 DEF EndMeta, Executes, HeadInv, globals
  <2>4. card' = [card EXCEPT ![1] = head] \/ card' = card
    BY <1>2, <1>14, <2>3 DEF EndMeta, WriteMetadata
  <2>5. \A b \in DataBlocks : card'[b] = card[b]
    BY <1>3, <2>4, SmallFacts DEF DataBlocks, Blocks
  <2>6. card'[1] = head \/ metaStale' = 1
    BY <1>14, <2>3 DEF EndMeta
  <2>7. HeadInv'
    BY <2>2 DEF HeadInv
  <2> QED BY <1>0, <1>1, <2>2, <2>3, <2>5, <2>6, <2>7 DEF Approach
<1> QED BY <1>5, <1>6, <1>7, <1>8, <1>9, <1>10, <1>11, <1>12, <1>13, <1>14 DEF Advance
\* A call while none is in progress.
LEMMA QuietCall ==
  ASSUME TypeOK, BootInv, NumberInv, NEW isr \in BOOLEAN, TakeChunk(isr), overtaken' = 0
  PROVE  /\ overtaken = 0 /\ ~InProgress /\ calls = << >> /\ ready = 1 /\ ready' = 1
         /\ pc' = pc /\ chunk' = chunk + 1 /\ first' = first
         /\ blockNumber \in DataBlocks /\ blockNumber' = blockNumber
         /\ WritePosition = blockNumber
<1>1. overtaken = 0 /\ ~InProgress /\ torn' = torn /\ torn = 0
  BY DEF TakeChunk, Overtake, TypeOK, BootInv
<1>2. /\ blockNumber \in DataBlocks /\ blockNumber' = blockNumber
      /\ ready = 1 /\ ready' = 1
  BY <1>1, BlockTaken
<1> QED BY <1>1, <1>2 DEF TakeChunk, InProgress, WritePosition

\* A chunk the card takes, and one it refuses or times out on.
LEMMA QuietStore ==
  ASSUME TypeOK, BootInv, NumberInv, NEW isr \in BOOLEAN, StoreChunk(isr), overtaken' = 0
  PROVE  /\ Len(calls') = 1 /\ InProgress' /\ Current' = NewFrame(isr)
         /\ head' = NextBlock(blockNumber) /\ WritePosition' = NextBlock(blockNumber)
         /\ card' = [card EXCEPT ![blockNumber] = chunk]
         /\ givenUp' = givenUp
         /\ metaStale' = IF card[1] = blockNumber THEN 0 ELSE metaStale
<1>1. calls = << >> /\ ~InProgress
  BY QuietCall DEF StoreChunk
<1>2. calls' = Append(calls, NewFrame(isr))
  BY DEF StoreChunk, NewFrame
<1>3. Len(calls') = 1 /\ InProgress' /\ Current' = NewFrame(isr)
  BY <1>1, <1>2, Called, NewFrameType
<1> QED BY <1>3 DEF StoreChunk, WritePosition

LEMMA QuietLoss ==
  ASSUME TypeOK, BootInv, NumberInv, NEW isr \in BOOLEAN,
         RejectChunk(isr) \/ TimeoutChunk(isr), overtaken' = 0
  PROVE  /\ UNCHANGED <<calls, head, metaStale>> /\ givenUp' = 1
         /\ WritePosition' = blockNumber
         /\ card' = card \/ card' = [card EXCEPT ![blockNumber] = chunk]
<1>1. ~InProgress /\ blockNumber' = blockNumber
  BY QuietCall DEF RejectChunk, TimeoutChunk
<1>2. UNCHANGED <<calls, head, metaStale>>
  BY DEF RejectChunk, TimeoutChunk
<1> QED BY <1>1, <1>2 DEF RejectChunk, TimeoutChunk, WritePosition, InProgress

LEMMA HeadStep ==
  ASSUME TypeOK, BootInv, NumberInv, HeadInv, [Next]_vars
  PROVE  HeadInv'
<1>1. CASE PowerOn \/ PowerOff \/ Probe \/ ProbeFails \/ ReadId \/ ReadResume
  <2>1. ready' = 0 \/ ready' = ready
    BY <1>1 DEF PowerOn, PowerOff, Probe, ProbeFails, ReadId, ReadResume, globals
  <2>2. ready = 1 => ready' = 0
    BY <1>1 DEF PowerOn, PowerOff, Probe, ProbeFails, ReadId, ReadResume, BootInv
  <2>3. ready' # 1
    BY <2>1, <2>2
  <2> QED BY <2>3 DEF HeadInv
<1>2. CASE RewriteResume
  <2>1. calls' = << >>
    BY <1>2 DEF RewriteResume, BootInv
  <2>2. ~InProgress' /\ Len(calls') = 0
    BY <2>1 DEF InProgress
  <2> QED BY <2>2 DEF HeadInv
<1>3. ASSUME NEW isr \in BOOLEAN, StoreChunk(isr), overtaken' = 0
      PROVE  HeadInv'
  <2>1. Len(calls') = 1 /\ Current' = NewFrame(isr) /\ head' = NextBlock(blockNumber)
    BY <1>3, QuietStore
  <2>2. blockNumber' = blockNumber
    BY <1>3, QuietCall DEF StoreChunk
  <2> QED BY <2>1, <2>2 DEF HeadInv, NewFrame, NextBlock
<1>4. ASSUME NEW isr \in BOOLEAN, RejectChunk(isr) \/ TimeoutChunk(isr), overtaken' = 0
      PROVE  HeadInv'
  <2>1. calls' = calls /\ ~InProgress /\ calls = << >>
    BY <1>4, QuietLoss, QuietCall DEF RejectChunk, TimeoutChunk
  <2>2. ~InProgress' /\ Len(calls') = 0
    BY <2>1 DEF InProgress
  <2> QED BY <2>2 DEF HeadInv
<1>5. CASE RefuseChunk
  BY <1>5 DEF RefuseChunk, Overtake, HeadInv
<1>6. CASE Advance
  <2>1. CASE overtaken = 0
    BY <1>6, <2>1, HeadAdvance
  <2>2. CASE overtaken # 0
    <3>1. overtaken' # 0
      BY <1>6, <2>2 DEF Advance, LoadLower, StoreLower, LoadNumber, StoreNumber,
        CompareNumber, ResetNumber, TestNumber, PassNumber, StartMeta, EndMeta, history
    <3> QED BY <3>1 DEF HeadInv
  <2> QED BY <2>1, <2>2
<1>7. CASE UNCHANGED vars
  <2>1. UNCHANGED <<ready, overtaken, blockNumber, calls, head>>
    BY <1>7 DEF vars, globals, history
  <2> QED BY <2>1 DEF HeadInv, InProgress, Current, Wrapped, NextBlock
<1>8. \A isr \in BOOLEAN : StoreChunk(isr) \/ RejectChunk(isr) \/ TimeoutChunk(isr) => HeadInv'
  BY <1>3, <1>4 DEF HeadInv
<1> QED BY <1>1, <1>2, <1>5, <1>6, <1>7, <1>8 DEF Next

LEMMA HeadInvariant == Spec => []HeadInv
<1>1. Init => HeadInv
  BY DEF Init, HeadInv
<1>2. TypeOK /\ BootInv /\ NumberInv /\ HeadInv /\ [Next]_vars => HeadInv'
  BY HeadStep
<1> QED BY <1>1, <1>2, TypeCorrect, NumberInvariant, PTL DEF Spec

-----------------------------------------------------------------------------
(* How far a restart rewinds.                                              *)

\* Rounding up to a multiple gives a multiple.
LEMMA RoundedUp ==
  ASSUME NEW a \in Nat, NEW m \in Nat \ {0}
  PROVE  (a + m - (a % m)) % m = 0
BY SMTT(20)

\* Among MetaPeriod successive block numbers one is due for an update.
LEMMA DueWithinPeriod ==
  ASSUME NEW a \in Nat
  PROVE  \E x \in a + 1 .. a + MetaPeriod : MetaDue(x)
<1> DEFINE x == a + MetaPeriod - (a % MetaPeriod)
<1>1. a % MetaPeriod \in 0 .. MetaPeriod - 1
  BY CardAssumption
<1>2. x \in a + 1 .. a + MetaPeriod
  BY <1>1, CardAssumption
<1>3. x % MetaPeriod = 0
  <2>1. MetaPeriod \in Nat \ {0}
    BY CardAssumption
  <2> QED
    BY <2>1, RoundedUp
<1> QED
  BY <1>2, <1>3 DEF MetaDue

LEMMA PeriodIsDue == MetaDue(MetaPeriod)
BY CardAssumption DEF MetaDue

\* No block strictly between a and b on the ring is due for an update.
NoneDueBetween(a, b) ==
  IF a <= b
    THEN \A x \in a + 1 .. b - 1 : ~MetaDue(x)
    ELSE /\ \A x \in a + 1 .. Capacity - 1 : ~MetaDue(x)
         /\ \A x \in 2 .. b - 1 : ~MetaDue(x)

\* Two blocks with none due between them are close on the ring.
LEMMA NoneDueIsClose ==
  ASSUME NEW a \in DataBlocks, NEW b \in DataBlocks, NoneDueBetween(a, b)
  PROVE  RingDistance(a, b) <= 2 * MetaPeriod - 2
<1> USE CardAssumption DEF DataBlocks, RingDistance
<1>1. PICK x \in a + 1 .. a + MetaPeriod : MetaDue(x)
  <2>1. a \in Nat
    BY SmallFacts DEF DataBlocks
  <2> QED
    BY <2>1, DueWithinPeriod
<1>2. CASE a <= b
  <2>1. ~(x \in a + 1 .. b - 1)
    BY <1>1, <1>2 DEF NoneDueBetween
  <2> QED
    BY <1>2, <2>1
<1>3. CASE ~(a <= b)
  <2>1. ~(x \in a + 1 .. Capacity - 1)
    BY <1>1, <1>3 DEF NoneDueBetween
  <2>2. ~(MetaPeriod \in 2 .. b - 1)
    BY <1>3, PeriodIsDue DEF NoneDueBetween
  <2> QED
    BY <1>3, <2>1, <2>2
<1> QED
  BY <1>2, <1>3

\* Nothing lies between a block and its successor.
LEMMA NoneDueStart ==
  ASSUME NEW b \in DataBlocks
  PROVE  NoneDueBetween(b, NextBlock(b))
BY CardAssumption DEF NoneDueBetween, NextBlock, DataBlocks

\* One more write keeps the blocks behind the head free of missed updates,
\* unless the head itself was one.
LEMMA NoneDueStep ==
  ASSUME NEW a \in DataBlocks, NEW b \in DataBlocks,
         NoneDueBetween(a, b), ~MetaDue(b)
  PROVE  NoneDueBetween(a, NextBlock(b))
BY CardAssumption DEF NoneDueBetween, NextBlock, DataBlocks

\* The strengthening of RestartRewind: where block 1 stands relative to the
\* newest chunk and to the write position of a running session.
RewindInv ==
  overtaken = 0 =>
    /\ ready = 1 => \/ head = WritePosition \/ card[1] = WritePosition \/ metaStale = 1
    /\ metaStale = 0 /\ head # 0 =>
         card[1] \in DataBlocks /\ head \in DataBlocks /\ NoneDueBetween(card[1], head)
    /\ metaStale = 0 /\ ready = 1 => card[1] \in DataBlocks
    /\ metaStale = 0 /\ ready = 1 /\ ~InProgress =>
         blockNumber = card[1] \/ ~MetaDue(blockNumber)
    /\ pc = "rewrite" /\ metaStale = 0 /\ head # 0 /\ sector = card[1] =>
         blockNumber = card[1]

LEMMA RewindInductive ==
  ASSUME TypeOK, BootInv, NumberInv, HeadInv, RewindInv, [Next]_vars
  PROVE  RewindInv'
<1> SUFFICES ASSUME overtaken' = 0 PROVE RewindInv'
  BY DEF RewindInv
<1>0. card \in [Blocks -> Nat] /\ 1 \in Blocks /\ blockNumber \in Nat
  BY SmallFacts DEF TypeOK, Blocks
<1>1. CASE PowerOn
  <2>1. ready' = 0 /\ pc' = "probe" /\ card' = card /\ head' = head
        /\ metaStale' = IF overtaken = 1 THEN 1 ELSE metaStale
    BY <1>1 DEF PowerOn
  <2>2. overtaken \in {0, 1} /\ metaStale \in {0, 1}
    BY DEF TypeOK
  <2> QED BY <2>1, <2>2 DEF RewindInv, NoneDueBetween
<1>2. CASE Probe \/ ProbeFails \/ ReadId
  <2>1. /\ UNCHANGED <<card, ready, overtaken, head, metaStale>>
        /\ ready # 1 /\ pc' # "rewrite"
    BY <1>2 DEF Probe, ProbeFails, ReadId, globals, history, BootInv
  <2> QED BY <2>1 DEF RewindInv, NoneDueBetween
<1>3. CASE ReadResume
  <2>1. /\ UNCHANGED <<card, ready, overtaken, head, metaStale>>
        /\ ready # 1 /\ numberOfBlocks = Capacity
        /\ blockNumber' = Resume(sector')
    BY <1>3 DEF ReadResume, history, BootInv
  <2>2. card[1] \in DataBlocks /\ sector' = card[1] => blockNumber' = card[1]
    BY <2>1, SmallFacts DEF Resume, DataBlocks
  <2> QED BY <2>1, <2>2 DEF RewindInv, NoneDueBetween
<1>4. CASE RewriteResume
  <2>1. /\ UNCHANGED <<blockNumber, calls, overtaken, head, sector>>
        /\ blockNumber \in DataBlocks /\ calls = << >>
        /\ metaStale' = IF card'[1] # blockNumber \/ sector # card[1] THEN 1 ELSE metaStale
        /\ pc = "rewrite" /\ pc' = "log"
    BY <1>4 DEF RewriteResume, BootInv
  <2>2. metaStale' = 0 => /\ card'[1] = blockNumber /\ sector = card[1] /\ metaStale = 0
    BY <2>1
  <2>3. ~InProgress' /\ WritePosition' = blockNumber
    BY <2>1 DEF InProgress, WritePosition
  <2>4. metaStale' = 0 /\ head # 0 => card[1] = blockNumber /\ NoneDueBetween(card[1], head)
    BY <2>1, <2>2 DEF RewindInv
  <2>5. metaStale' \in {0, 1}
    BY <2>1 DEF TypeOK
  <2> QED BY <2>1, <2>2, <2>3, <2>4, <2>5 DEF RewindInv, NoneDueBetween
<1>5. ASSUME NEW isr \in BOOLEAN, StoreChunk(isr)
      PROVE  RewindInv'
  <2>1. /\ overtaken = 0 /\ ~InProgress /\ ready = 1 /\ ready' = 1 /\ pc' = pc
        /\ blockNumber \in DataBlocks /\ blockNumber' = blockNumber
        /\ WritePosition = blockNumber
    BY <1>5, QuietCall DEF StoreChunk
  <2>2. /\ InProgress' /\ head' = NextBlock(blockNumber) /\ WritePosition' = head'
        /\ card' = [card EXCEPT ![blockNumber] = chunk]
        /\ metaStale' = IF card[1] = blockNumber THEN 0 ELSE metaStale
    BY <1>5, QuietStore
  <2>3. card'[1] = card[1] /\ pc' # "rewrite" /\ head' \in DataBlocks
    BY <1>0, <2>1, <2>2, NextBlockInRing, SmallFacts DEF DataBlocks, Blocks, BootInv
  <2>4. metaStale' = 0 =>
          card[1] \in DataBlocks /\ NoneDueBetween(card[1], NextBlock(blockNumber))
    <3>1. CASE card[1] = blockNumber
      <4>1. NoneDueBetween(blockNumber, NextBlock(blockNumber))
        BY <2>1, NoneDueStart
      <4> QED
        BY <2>1, <3>1, <4>1
    <3>2. CASE card[1] # blockNumber /\ metaStale = 0
      <4>1. head = blockNumber /\ head # 0
        BY <2>1, <3>2, SmallFacts DEF RewindInv, DataBlocks
      <4>2. NoneDueBetween(card[1], blockNumber) /\ ~MetaDue(blockNumber)
        BY <2>1, <3>2, <4>1 DEF RewindInv
      <4>3. card[1] \in DataBlocks
        BY <2>1, <3>2, <4>1 DEF RewindInv
      <4> QED
        BY <2>1, <4>2, <4>3, NoneDueStep
    <3> QED
      BY <2>2, <3>1, <3>2
  <2> QED
    BY <2>1, <2>2, <2>3, <2>4 DEF RewindInv, NoneDueBetween
<1>6. ASSUME NEW isr \in BOOLEAN, RejectChunk(isr) \/ TimeoutChunk(isr)
      PROVE  RewindInv'
  <2>1. /\ overtaken = 0 /\ ~InProgress /\ calls = << >> /\ ready = 1 /\ ready' = 1 /\ pc' = pc
        /\ blockNumber \in DataBlocks /\ blockNumber' = blockNumber
        /\ WritePosition = blockNumber
    BY <1>6, QuietCall DEF RejectChunk, TimeoutChunk
  <2>2. /\ UNCHANGED <<calls, head, metaStale>> /\ WritePosition' = blockNumber
        /\ card' = card \/ card' = [card EXCEPT ![blockNumber] = chunk]
    BY <1>6, QuietLoss
  <2>3. card'[1] = card[1] /\ pc' # "rewrite" /\ ~InProgress'
    BY <1>0, <2>1, <2>2 DEF DataBlocks, BootInv, InProgress
  <2> QED BY <2>1, <2>2, <2>3 DEF RewindInv, NoneDueBetween
<1>7. CASE RefuseChunk
  BY <1>7 DEF RefuseChunk, Overtake
<1>8. CASE Advance
  <2>1. overtaken = 0
    BY <1>8 DEF Advance, LoadLower, StoreLower, LoadNumber, StoreNumber,
        CompareNumber, ResetNumber, TestNumber, PassNumber, StartMeta, EndMeta, history
  <2>2. Approach
    BY <1>8, <2>1, HeadAdvance
  <2>3. ready = 1 /\ pc = "log" /\ WritePosition = head
    BY <2>2 DEF Approach, BootInv, InProgress, WritePosition
  <2>4. WritePosition' = head' /\ head' = head /\ ready' = ready /\ pc' = "log"
    BY <2>2, <2>3 DEF Approach, WritePosition
  <2>5. CASE card' = card /\ metaStale' = metaStale /\ (InProgress' \/ ~MetaDue(head))
    BY <2>1, <2>2, <2>3, <2>4, <2>5 DEF RewindInv, NoneDueBetween, Approach
  <2>6. CASE card'[1] = head /\ ~InProgress'
    <3>1. blockNumber' \in DataBlocks
      <4>1. NumberInv' /\ BootInv' /\ TypeOK'
        BY NumberStep, TypeStep
      <4> QED BY <2>3, <2>4, <2>6, <4>1 DEF NumberInv, BootInv, TypeOK
    <3>2. blockNumber' = head
      BY <2>2, <2>6 DEF Approach
    <3>3. NoneDueBetween(head, head)
      BY <3>1, <3>2, SmallFacts DEF NoneDueBetween, DataBlocks
    <3> QED BY <2>4, <2>6, <3>1, <3>2, <3>3 DEF RewindInv, NoneDueBetween
  <2>7. CASE metaStale' = 1
    BY <2>3, <2>4, <2>7 DEF RewindInv
  <2> QED BY <2>2, <2>5, <2>6, <2>7 DEF Approach
<1>9. CASE PowerOff
  <2>1. /\ UNCHANGED <<card, overtaken, head, metaStale>>
        /\ ready' = 0 /\ pc' = "off"
    BY <1>9 DEF PowerOff, history
  <2> QED BY <2>1 DEF RewindInv, NoneDueBetween
<1>10. CASE UNCHANGED vars
  BY <1>10 DEF vars, globals, history, RewindInv, NoneDueBetween, WritePosition, InProgress
<1> QED
  BY <1>1, <1>2, <1>3, <1>4, <1>5, <1>6, <1>7, <1>8, <1>9, <1>10 DEF Next

\* RestartRewind for every capacity, period and set of card errors: a restart goes
\* back by at most 2 * MetaPeriod - 2 writes (198 for the firmware's period of
\* 100), unless block 1 could not be read or rewritten, or a call overtook another.
THEOREM RestartRewindBounded == Spec => []RestartRewind
<1>1. Init => RewindInv
  BY DEF Init, RewindInv
<1>2. TypeOK /\ BootInv /\ NumberInv /\ HeadInv /\ RewindInv /\ [Next]_vars => RewindInv'
  BY RewindInductive
<1>3. TypeOK /\ RewindInv => RestartRewind
  <2> SUFFICES ASSUME TypeOK, RewindInv, head # 0, metaStale = 0, overtaken = 0
               PROVE  RingDistance(card[1], head) <= 2 * MetaPeriod - 2
    BY DEF RestartRewind
  <2>1. card[1] \in DataBlocks /\ head \in DataBlocks /\ NoneDueBetween(card[1], head)
    BY DEF RewindInv
  <2> QED BY <2>1, NoneDueIsClose
<1> QED
  BY <1>1, <1>2, <1>3, TypeCorrect, NumberInvariant, HeadInvariant, PTL DEF Spec
-----------------------------------------------------------------------------
(* What the ring holds.                                                    *)

\* Before SPI_Init is done nothing of this power-up is on the card, and what is on the
\* card is older than the next chunk.
ChunksInv ==
  /\ \A b \in DataBlocks : card[b] < chunk
  /\ pc # "off" /\ ready = 0 =>
       chunk = first /\ \A b \in DataBlocks : card[b] < first

LEMMA ChunksInductive ==
  ASSUME TypeOK, BootInv, ChunksInv, [Next]_vars
  PROVE  ChunksInv'
<1>0. card \in [Blocks -> Nat] /\ DataBlocks \subseteq Blocks /\ chunk \in Nat
  BY SmallFacts DEF TypeOK, Blocks, DataBlocks
<1>1. CASE PowerOn
  BY <1>1 DEF PowerOn, ChunksInv
<1>2. CASE Probe \/ ProbeFails \/ ReadId \/ ReadResume
  <2>1. UNCHANGED <<card, ready, chunk, first>> /\ pc # "off"
    BY <1>2 DEF Probe, ProbeFails, ReadId, ReadResume, globals, history
  <2> QED BY <2>1 DEF ChunksInv
<1>3. CASE RewriteResume
  <2>1. ready' = 1 /\ chunk' = chunk
    BY <1>3 DEF RewriteResume
  <2>2. \A b \in DataBlocks : card'[b] = card[b]
    BY <1>0, <1>3, SmallFacts DEF RewriteResume, WriteMetadata, DataBlocks
  <2> QED BY <2>1, <2>2 DEF ChunksInv
<1>4. ASSUME NEW isr \in BOOLEAN, StoreChunk(isr) \/ RejectChunk(isr) \/ TimeoutChunk(isr)
      PROVE  ChunksInv'
  <2>1. /\ ready' = 1 /\ chunk' = chunk + 1
        /\ card' = card \/ card' = [card EXCEPT ![blockNumber] = chunk]
    BY <1>4 DEF StoreChunk, RejectChunk, TimeoutChunk, TakeChunk, globals
  <2>2. ASSUME NEW b \in DataBlocks
        PROVE  card'[b] < chunk'
    <3>1. card[b] \in Nat /\ card[b] < chunk /\ (card'[b] = card[b] \/ card'[b] = chunk)
      BY <1>0, <2>1 DEF ChunksInv
    <3> QED BY <1>0, <2>1, <3>1
  <2> QED BY <2>1, <2>2 DEF ChunksInv
<1>5. CASE RefuseChunk
  BY <1>5 DEF RefuseChunk, ChunksInv, globals
<1>6. CASE Advance
  <2>1. UNCHANGED <<pc, ready, chunk, first>>
    BY <1>6 DEF Advance, LoadLower, StoreLower, LoadNumber, StoreNumber, CompareNumber,
      ResetNumber, TestNumber, PassNumber, StartMeta, EndMeta, globals, history
  <2>2. card' = card \/ \E m : card' = [card EXCEPT ![1] = m]
    BY <1>6 DEF Advance, LoadLower, StoreLower, LoadNumber, StoreNumber, CompareNumber,
      ResetNumber, TestNumber, PassNumber, StartMeta, EndMeta, WriteMetadata
  <2>3. \A b \in DataBlocks : card'[b] = card[b]
    BY <1>0, <2>2, SmallFacts DEF DataBlocks
  <2> QED BY <2>1, <2>3 DEF ChunksInv
<1>7. CASE PowerOff
  BY <1>7 DEF PowerOff, ChunksInv, history
<1>8. CASE UNCHANGED vars
  BY <1>8 DEF vars, globals, history, ChunksInv
<1> QED BY <1>1, <1>2, <1>3, <1>4, <1>5, <1>6, <1>7, <1>8 DEF Next

LEMMA InitChunks == ASSUME Init PROVE ChunksInv
<1>1. PICK id \in {0, MagicWord}, m \in FirstMeta :
        card = [b \in Blocks |-> IF b = 0 THEN id ELSE IF b = 1 THEN m ELSE 0]
  BY DEF Init
<1>2. \A b \in DataBlocks : card[b] = 0
  BY <1>1, SmallFacts DEF Blocks, DataBlocks
<1> QED
  BY <1>2 DEF Init, ChunksInv

LEMMA ChunksInvariant == Spec => []ChunksInv
BY InitChunks, ChunksInductive, TypeCorrect, PTL DEF Spec

\* No two blocks have the same successor in the ring, and none is its own.
LEMMA NextBlockInjective ==
  ASSUME NEW a \in DataBlocks, NEW b \in DataBlocks
  PROVE  /\ NextBlock(a) = NextBlock(b) => a = b
         /\ NextBlock(a) # a
BY CardAssumption DEF NextBlock, DataBlocks

\* What a step that touches the data blocks does to them: at most the block at the
\* write position changes, to the newest chunk, and that position moves on by one block
\* only then.
LEMMA DataStep ==
  ASSUME TypeOK, BootInv, NumberInv, HeadInv, [Next]_vars, ready' = 1, ready = 1,
         overtaken' = 0
  PROVE  /\ overtaken = 0 /\ first' = first /\ WritePosition \in DataBlocks
         /\ \A b \in DataBlocks \ {WritePosition} : card'[b] = card[b]
         /\ \/ WritePosition' = NextBlock(WritePosition) /\ card'[WritePosition] = chunk
               /\ chunk' = chunk + 1 /\ givenUp' = givenUp
            \/ WritePosition' = WritePosition /\ chunk' = chunk /\ givenUp' = givenUp
               /\ card'[WritePosition] = card[WritePosition]
            \/ WritePosition' = WritePosition /\ givenUp' = 1
<1>0. card \in [Blocks -> Nat] /\ DataBlocks \subseteq Blocks
  BY SmallFacts DEF TypeOK, Blocks, DataBlocks
<1>1. ASSUME NEW isr \in BOOLEAN, StoreChunk(isr)
      PROVE  /\ overtaken = 0 /\ first' = first /\ WritePosition \in DataBlocks
             /\ \A b \in DataBlocks \ {WritePosition} : card'[b] = card[b]
             /\ WritePosition' = NextBlock(WritePosition) /\ card'[WritePosition] = chunk
             /\ chunk' = chunk + 1 /\ givenUp' = givenUp
  <2>1. /\ overtaken = 0 /\ WritePosition = blockNumber /\ blockNumber \in DataBlocks
        /\ chunk' = chunk + 1 /\ first' = first
    BY <1>1, QuietCall DEF StoreChunk
  <2>2. /\ WritePosition' = NextBlock(blockNumber)
        /\ card' = [card EXCEPT ![blockNumber] = chunk] /\ givenUp' = givenUp
    BY <1>1, QuietStore
  <2> QED BY <1>0, <2>1, <2>2
<1>2. ASSUME NEW isr \in BOOLEAN, RejectChunk(isr) \/ TimeoutChunk(isr)
      PROVE  /\ overtaken = 0 /\ first' = first /\ WritePosition \in DataBlocks
             /\ \A b \in DataBlocks \ {WritePosition} : card'[b] = card[b]
             /\ WritePosition' = WritePosition /\ givenUp' = 1
  <2>1. /\ overtaken = 0 /\ WritePosition = blockNumber /\ blockNumber \in DataBlocks
        /\ first' = first
    BY <1>2, QuietCall DEF RejectChunk, TimeoutChunk
  <2>2. /\ WritePosition' = blockNumber /\ givenUp' = 1
        /\ card' = card \/ card' = [card EXCEPT ![blockNumber] = chunk]
    BY <1>2, QuietLoss
  <2> QED BY <1>0, <2>1, <2>2
<1>3. CASE RefuseChunk
  BY <1>3 DEF RefuseChunk, Overtake
<1>4. CASE Advance
  <2>1. overtaken = 0
    BY <1>4 DEF Advance, LoadLower, StoreLower, LoadNumber, StoreNumber,
        CompareNumber, ResetNumber, TestNumber, PassNumber, StartMeta, EndMeta, history
  <2>2. Approach
    BY <1>4, <2>1, HeadAdvance
  <2>3. WritePosition = head /\ WritePosition' = head
    BY <2>2 DEF Approach, WritePosition
  <2>4. head \in DataBlocks
    <3>1. CASE ~InProgress'
      <4>1. NumberInv' /\ BootInv' /\ TypeOK'
        BY NumberStep, TypeStep
      <4> QED BY <2>1, <2>2, <3>1, <4>1 DEF NumberInv, BootInv, TypeOK, Approach
    <3>2. CASE InProgress'
      BY <2>1, <2>2, OnlyCall, Innermost, SmallFacts
         DEF Approach, HeadInv, NumberInv, NumberFits, RegisterOK, Current, Frame, Stages,
             Wrapped, NextBlock, DataBlocks
    <3> QED BY <3>1, <3>2
  <2> QED BY <2>1, <2>2, <2>3, <2>4 DEF Approach
<1>5. CASE UNCHANGED vars
  <2>1. WritePosition \in DataBlocks
    <3>1. CASE ~InProgress
      BY <1>5, <3>1 DEF WritePosition, NumberInv, BootInv, TypeOK, vars, history
    <3>2. CASE InProgress
      BY <1>5, <3>2, OnlyCall, Innermost, SmallFacts
         DEF WritePosition, HeadInv, NumberInv, NumberFits, RegisterOK, Current, Frame,
             Stages, Wrapped, NextBlock, DataBlocks, vars, history
    <3> QED BY <3>1, <3>2
  <2> QED BY <1>5, <2>1 DEF vars, globals, history, WritePosition, InProgress
<1>6. CASE PowerOn \/ PowerOff \/ Probe \/ ProbeFails \/ ReadId \/ ReadResume \/ RewriteResume
  BY <1>6 DEF PowerOn, PowerOff, Probe, ProbeFails, ReadId, ReadResume, RewriteResume, BootInv
<1> QED
  BY <1>1, <1>2, <1>3, <1>4, <1>5, <1>6 DEF Next

\* SPI_Init declares the card ready without a chunk of this power-up on it.
LEMMA BecomesReady ==
  ASSUME TypeOK, BootInv, ChunksInv, [Next]_vars, ready' = 1, ready # 1
  PROVE  /\ first' = first /\ chunk' = chunk /\ chunk = first
         /\ \A b \in DataBlocks : card'[b] < first
<1>1. ASSUME NEW isr \in BOOLEAN, StoreChunk(isr) \/ RejectChunk(isr) \/ TimeoutChunk(isr)
      PROVE  FALSE
  BY <1>1 DEF StoreChunk, RejectChunk, TimeoutChunk, TakeChunk
<1>2. ~(RefuseChunk \/ Advance)
  <2>1. RefuseChunk \/ Advance => InProgress
    BY DEF RefuseChunk, Advance, LoadLower, StoreLower, LoadNumber, StoreNumber,
         CompareNumber, ResetNumber, TestNumber, PassNumber, StartMeta, EndMeta, Executes
  <2> QED BY <2>1 DEF BootInv, InProgress
<1>3. ~(PowerOn \/ PowerOff \/ Probe \/ ProbeFails \/ ReadId \/ ReadResume \/ UNCHANGED vars)
  BY DEF PowerOn, PowerOff, Probe, ProbeFails, ReadId, ReadResume, vars, globals
<1>4. RewriteResume
  BY <1>1, <1>2, <1>3 DEF Next
<1> QED BY <1>4, SmallFacts DEF RewriteResume, WriteMetadata, TypeOK, ChunksInv, Blocks, DataBlocks

LEMMA OrderedInductive ==
  ASSUME TypeOK, BootInv, NumberInv, HeadInv, ChunksInv, LogOrdered, [Next]_vars
  PROVE  LogOrdered'
<1> SUFFICES ASSUME ready' = 1, overtaken' = 0,
                    NEW b \in DataBlocks,
                    b # WritePosition', NextBlock(b) # WritePosition',
                    card'[b] >= first', card'[NextBlock(b)] >= first'
             PROVE  card'[b] < card'[NextBlock(b)]
  BY DEF LogOrdered, NextBlock
<1>1. NextBlock(b) \in DataBlocks
  BY NextBlockInRing
<1>2. CASE ready = 1
  <2>1. /\ overtaken = 0 /\ first' = first /\ WritePosition \in DataBlocks
        /\ \A c \in DataBlocks \ {WritePosition} : card'[c] = card[c]
    BY <1>2, DataStep
  <2>2. b # WritePosition /\ NextBlock(b) # WritePosition =>
          card'[b] < card'[NextBlock(b)]
    BY <1>1, <1>2, <2>1 DEF LogOrdered
  <2>3. WritePosition' # WritePosition =>
          WritePosition' = NextBlock(WritePosition) /\ card'[WritePosition] = chunk
    BY <1>2, DataStep
  <2>4. CASE b = WritePosition
    BY <2>3, <2>4
  <2>5. CASE NextBlock(b) = WritePosition
    <3>1. card'[NextBlock(b)] = chunk
      BY <2>3, <2>5
    <3>2. card'[b] = card[b] /\ card[b] < chunk
      BY <2>1, <2>5, NextBlockInjective DEF ChunksInv
    <3> QED BY <3>1, <3>2
  <2> QED BY <2>2, <2>4, <2>5
<1>3. CASE ready # 1
  <2>1. first' = first /\ card'[b] < first
    BY <1>3, BecomesReady
  <2>2. card'[b] \in Nat /\ first \in Nat
    <3>1. TypeOK'
      BY TypeStep
    <3> QED BY <3>1 DEF TypeOK, DataBlocks, Blocks
  <2> QED BY <2>1, <2>2
<1> QED BY <1>2, <1>3

\* LogOrdered for every capacity and set of card errors: however many chunks the card
\* refuses or times out on, the others of this power-up are on it in their order, while no
\* call overtakes another.
THEOREM RingInOrder == Spec => []LogOrdered
<1>1. Init => LogOrdered
  BY DEF Init, LogOrdered
<1>2. TypeOK /\ BootInv /\ NumberInv /\ HeadInv /\ ChunksInv /\ LogOrdered /\ [Next]_vars => LogOrdered'
  BY OrderedInductive
<1> QED BY <1>1, <1>2, TypeCorrect, NumberInvariant, HeadInvariant, ChunksInvariant,
            PTL DEF Spec

LEMMA Turn ==
  ASSUME NEW n \in Nat \ {0}, NEW r \in 0 .. n - 1
  PROVE  r % n = r /\ (r + n) % n = r
OBVIOUS

\* Back without its remainder.
LEMMA BackIs ==
  ASSUME NEW b \in DataBlocks, NEW k \in 1 .. Capacity - 2
  PROVE  Back(b, k) = IF b - k >= 2 THEN b - k ELSE b - k + (Capacity - 2)
<1> DEFINE n == Capacity - 2
<1>1. /\ n \in Nat \ {0} /\ b \in Nat /\ k \in Nat
      /\ b >= 2 /\ b - 2 < n /\ k >= 1 /\ k <= n
  BY CardAssumption DEF DataBlocks
<1>2. Back(b, k) = 2 + (((b - 2) + n - k) % n)
  BY DEF Back
<1>3. (IF b - k >= 2 THEN b - k ELSE b - k + (Capacity - 2))
      = IF b - k >= 2 THEN b - k ELSE b - k + n
  OBVIOUS
<1> HIDE DEF n
<1>4. CASE b - k >= 2
  <2> DEFINE r == b - 2 - k
  <2>1. r \in 0 .. n - 1 /\ (b - 2) + n - k = r + n /\ 2 + r = b - k
    BY <1>1, <1>4
  <2> HIDE DEF r
  <2>2. ((b - 2) + n - k) % n = r
    BY <1>1, <2>1, Turn
  <2> QED BY <1>2, <1>3, <1>4, <2>1, <2>2
<1>5. CASE ~(b - k >= 2)
  <2> DEFINE r == b - 2 + n - k
  <2>1. r \in 0 .. n - 1 /\ (b - 2) + n - k = r /\ 2 + r = b - k + n
    BY <1>1, <1>5
  <2> HIDE DEF r
  <2>2. ((b - 2) + n - k) % n = r
    BY <1>1, <2>1, Turn
  <2> QED BY <1>2, <1>3, <1>5, <2>1, <2>2
<1> QED BY <1>4, <1>5

\* One place further on, everything is one place further back.
LEMMA BackOfNext ==
  ASSUME NEW b \in DataBlocks, NEW k \in 1 .. Capacity - 2
  PROVE  /\ k = 1 => Back(NextBlock(b), k) = b
         /\ k > 1 => /\ k - 1 \in 1 .. Capacity - 2
                     /\ Back(NextBlock(b), k) = Back(b, k - 1)
                     /\ Back(b, k - 1) \in DataBlocks \ {b}
<1>1. NextBlock(b) \in DataBlocks
  BY NextBlockInRing
<1>2. Back(NextBlock(b), k) = IF NextBlock(b) - k >= 2 THEN NextBlock(b) - k
                              ELSE NextBlock(b) - k + (Capacity - 2)
  BY <1>1, BackIs
<1>3. k > 1 => /\ k - 1 \in 1 .. Capacity - 2
               /\ Back(b, k - 1) = IF b - (k - 1) >= 2 THEN b - (k - 1)
                                   ELSE b - (k - 1) + (Capacity - 2)
  <2> SUFFICES ASSUME k > 1
               PROVE  /\ k - 1 \in 1 .. Capacity - 2
                      /\ Back(b, k - 1) = IF b - (k - 1) >= 2 THEN b - (k - 1)
                                          ELSE b - (k - 1) + (Capacity - 2)
    OBVIOUS
  <2>1. k - 1 \in 1 .. Capacity - 2
    BY SmallFacts
  <2> QED BY <2>1, BackIs
<1> QED BY <1>2, <1>3, SmallFacts DEF NextBlock, DataBlocks

LEMMA CompleteInductive ==
  ASSUME TypeOK, BootInv, NumberInv, HeadInv, ChunksInv, LogComplete, [Next]_vars
  PROVE  LogComplete'
<1> SUFFICES ASSUME ready' = 1, givenUp' = 0, overtaken' = 0,
                    NEW k \in 1 .. Capacity - 2, k <= chunk' - first'
             PROVE  card'[Back(WritePosition', k)] = chunk' - k
  BY DEF LogComplete, RingHolds, Back
<1>1. chunk \in Nat /\ first \in Nat
  BY DEF TypeOK
<1>2. CASE ready = 1
  <2>1. /\ overtaken = 0 /\ first' = first /\ WritePosition \in DataBlocks
        /\ \A c \in DataBlocks \ {WritePosition} : card'[c] = card[c]
    BY <1>2, DataStep
  <2>2. givenUp = 0
    BY <1>2, DataStep
  <2>3. ASSUME NEW j \in 1 .. Capacity - 2, j <= chunk - first
        PROVE  card[Back(WritePosition, j)] = chunk - j
    BY <1>2, <2>1, <2>2, <2>3 DEF LogComplete, RingHolds
  <2>4. CASE WritePosition' = NextBlock(WritePosition) /\ card'[WritePosition] = chunk /\ chunk' = chunk + 1
    <3>1. CASE k = 1
      BY <1>1, <2>1, <2>4, <3>1, BackOfNext
    <3>2. CASE k > 1
      <4>1. /\ k - 1 \in 1 .. Capacity - 2
            /\ Back(WritePosition', k) = Back(WritePosition, k - 1)
            /\ Back(WritePosition, k - 1) \in DataBlocks \ {WritePosition}
        BY <2>1, <2>4, <3>2, BackOfNext
      <4>2. card'[Back(WritePosition', k)] = card[Back(WritePosition, k - 1)]
        BY <2>1, <4>1
      <4>3. k - 1 <= chunk - first
        BY <1>1, <2>1, <2>4, SmallFacts
      <4>4. card[Back(WritePosition, k - 1)] = chunk - (k - 1)
        BY <2>3, <4>1, <4>3
      <4> QED BY <1>1, <2>4, <4>2, <4>4, SmallFacts
    <3> QED BY <3>1, <3>2
  <2>5. CASE WritePosition' = WritePosition /\ chunk' = chunk /\ card'[WritePosition] = card[WritePosition]
    <3>1. Back(WritePosition, k) \in DataBlocks
      BY <2>1, BackIs, SmallFacts DEF DataBlocks
    <3>2. card'[Back(WritePosition, k)] = card[Back(WritePosition, k)]
      BY <2>1, <2>5, <3>1
    <3> QED BY <2>1, <2>3, <2>5, <3>2
  <2> QED BY <1>2, <2>4, <2>5, DataStep
<1>3. CASE ready # 1
  <2>1. chunk' - first' = 0
    BY <1>1, <1>3, BecomesReady
  <2> QED BY <2>1
<1> QED BY <1>2, <1>3

\* LogComplete for every capacity and set of card errors: across the wrap of the ring and
\* any number of turns, the ring holds the chunks of this power-up, the newest as
\* many as fit, until one is given up or a call overtakes another.
THEOREM RingComplete == Spec => []LogComplete
<1>1. Init => LogComplete
  BY DEF Init, LogComplete
<1>2. TypeOK /\ BootInv /\ NumberInv /\ HeadInv /\ ChunksInv /\ LogComplete
      /\ [Next]_vars => LogComplete'
  BY CompleteInductive
<1> QED BY <1>1, <1>2, TypeCorrect, NumberInvariant, HeadInvariant, ChunksInvariant,
            PTL DEF Spec
=============================================================================
