-------------------------- MODULE CircWriterProofs --------------------------
(***************************************************************************)
(* Theorems about CircWriter for every ring and card: the lock under every *)
(* set of interrupts and card errors; what a call knows of the indices     *)
(* with no interrupt but the transmitter's; and that the bytes reach the   *)
(* card, under the hypotheses Calm, Fits and ShortBacklog.                 *)
(***************************************************************************)
EXTENDS CircWriter, TLAPS

-----------------------------------------------------------------------------
(* What the three changes of the stack do to its frames.                   *)

LEMMA Pushed ==
  ASSUME NEW S, NEW s \in Seq(S), NEW x \in S
  PROVE  /\ Append(s, x) \in Seq(S)
         /\ Len(Append(s, x)) = Len(s) + 1
         /\ \A j \in 1 .. Len(s) : Append(s, x)[j] = s[j]
         /\ Append(s, x)[Len(s) + 1] = x
OBVIOUS

LEMMA Replaced ==
  ASSUME NEW S, NEW s \in Seq(S), NEW x \in S, s # << >>
  PROVE  /\ [s EXCEPT ![Len(s)] = x] \in Seq(S)
         /\ Len([s EXCEPT ![Len(s)] = x]) = Len(s)
         /\ \A j \in 1 .. Len(s) - 1 : [s EXCEPT ![Len(s)] = x][j] = s[j]
         /\ [s EXCEPT ![Len(s)] = x][Len(s)] = x
OBVIOUS

LEMMA Popped ==
  ASSUME NEW S, NEW s \in Seq(S), s # << >>
  PROVE  LET r == [j \in 1 .. Len(s) - 1 |-> s[j]]
         IN  /\ r \in Seq(S)
             /\ Len(r) = Len(s) - 1
             /\ \A j \in 1 .. Len(r) : r[j] = s[j]
OBVIOUS

LEMMA NotIdle ==
  ASSUME NEW s, s \in Seq(Frame), s # << >>
  PROVE  Len(s) \in Nat \ {0} /\ s[Len(s)] \in Frame
OBVIOUS

-----------------------------------------------------------------------------
(* Type correctness.                                                       *)

LEMMA NewCall ==
  ASSUME NEW by \in {"main", "isr"}, NEW in \in {"printf", "irq"}
  PROVE  Call(by, in) \in Frame /\ Call(by, in).pc = "low"
BY DEF Call, Frame, Labels

LEMMA TopFrame ==
  ASSUME TypeOK, ~Idle
  PROVE  /\ Top \in Frame
         /\ \A l \in Labels : [Top EXCEPT !.pc = l] \in Frame
BY NotIdle DEF TypeOK, Idle, Top, Frame

LEMMA FrameWithStop ==
  ASSUME NEW f \in Frame, NEW l \in Labels, NEW n \in Nat
  PROVE  [f EXCEPT !.pc = l, !.stop = n] \in Frame
BY DEF Frame

LEMMA FrameWithData ==
  ASSUME NEW f \in Frame, NEW l \in Labels, NEW d \in Seq(Nat)
  PROVE  [f EXCEPT !.pc = l, !.data = d] \in Frame
BY DEF Frame

LEMMA FrameWithBytes ==
  ASSUME NEW f \in Frame, NEW d \in Seq(Nat)
  PROVE  [f EXCEPT !.data = d] \in Frame
BY DEF Frame

LEMMA Remainder ==
  ASSUME NEW n \in Nat, NEW m \in Nat \ {0}
  PROVE  n % m \in Nat /\ n - (n % m) \in Nat
OBVIOUS

LEMMA ContinueType ==
  ASSUME TypeOK, ~Idle, NEW f \in Frame, Continue(f)
  PROVE  stack' \in Seq(Frame)
BY Replaced DEF TypeOK, Idle, Continue

LEMMA GotoType ==
  ASSUME TypeOK, ~Idle, NEW l \in Labels, Goto(l)
  PROVE  stack' \in Seq(Frame)
BY ContinueType, TopFrame DEF Goto

LEMMA ReturnType ==
  ASSUME TypeOK, ~Idle, Return
  PROVE  stack' \in Seq(Frame) /\ txMask' \in {0, 1}
BY Popped DEF TypeOK, Idle, Return

LEMMA CappedType ==
  ASSUME TypeOK, NEW n \in Nat
  PROVE  printed + Capped(n) \in Nat
BY CircWriterAssumption DEF TypeOK, Capped

LEMMA DebugType ==
  ASSUME TypeOK, ~Idle, NEW l \in Labels, Debug(l)
  PROVE  stack' \in Seq(Frame) /\ printed' \in Nat /\ txMask' \in {0, 1}
<1>1. [stack EXCEPT ![Len(stack)].pc = l] = [stack EXCEPT ![Len(stack)] = [Top EXCEPT !.pc = l]]
  BY DEF Top
<1>2. [stack EXCEPT ![Len(stack)].pc = l] \in Seq(Frame)
  BY <1>1, TopFrame, Replaced DEF TypeOK, Idle
<1>3. Call(Top.by, "printf") \in Frame
  BY TopFrame, NewCall DEF Frame
<1> QED
  BY <1>2, <1>3, Pushed, CappedType, CircWriterAssumption DEF Debug

LEMMA CellType ==
  ASSUME TypeOK, NEW c \in Nat
  PROVE  Cell(c) \in Nat
<1>1. Size \in Nat \ {0}
  BY CircWriterAssumption
<1>2. (printed - 1 - c) % Size \in Int
  BY <1>1 DEF TypeOK
<1> QED
  BY <1>2 DEF TypeOK, Cell

LEMMA ReadLowType ==
  ASSUME TypeOK, ReadLow
  PROVE  [Top EXCEPT !.pc = "high", !.stop = producerIdx % LowRange] \in Frame
<1>1. producerIdx % LowRange \in Nat
  BY Remainder, CircWriterAssumption DEF TypeOK, producerIdx
<1>2. Top \in Frame /\ "high" \in Labels
  BY TopFrame DEF ReadLow, At, Labels
<1> QED
  BY <1>1, <1>2, FrameWithStop

LEMMA ReadHighType ==
  ASSUME TypeOK, ReadHigh
  PROVE  [Top EXCEPT !.pc = "test", !.stop = @ + (producerIdx - (producerIdx % LowRange))] \in Frame
<1>1. producerIdx \in Nat /\ LowRange \in Nat \ {0}
  BY Remainder, CircWriterAssumption DEF TypeOK, producerIdx
<1>2. producerIdx - (producerIdx % LowRange) \in Nat
  BY <1>1, Remainder
<1>3. Top \in Frame /\ "test" \in Labels
  BY TopFrame DEF ReadHigh, At, Labels
<1>4. Top.stop + (producerIdx - (producerIdx % LowRange)) \in Nat
  BY <1>2, <1>3 DEF Frame
<1> QED
  BY <1>3, <1>4, FrameWithStop

LEMMA AcceptType ==
  ASSUME TypeOK, Accept
  PROVE  [Top EXCEPT !.pc = "data", !.data = << >>] \in Frame
<1>1. Top \in Frame /\ "data" \in Labels
  BY TopFrame DEF Accept, At, Labels
<1>2. << >> \in Seq(Nat)
  OBVIOUS
<1> QED
  BY <1>1, <1>2, FrameWithData

LEMMA SendByteType ==
  ASSUME TypeOK, SendByte
  PROVE  [Top EXCEPT !.data = Append(Top.data, Cell((Len(Top.data) + consumer) % Size))] \in Frame
<1>1. Top \in Frame /\ Top.data \in Seq(Nat) /\ Len(Top.data) + consumer \in Nat
  BY TopFrame DEF SendByte, At, Frame, TypeOK
<1>2. (Len(Top.data) + consumer) % Size \in Nat
  <2>1. Size \in Nat \ {0}
    BY CircWriterAssumption
  <2> QED
    BY <1>1, <2>1, Remainder
<1> DEFINE bytes == Append(Top.data, Cell((Len(Top.data) + consumer) % Size))
<1>3. bytes \in Seq(Nat)
  BY <1>1, <1>2, CellType
<1>4. [Top EXCEPT !.data = bytes] \in Frame
  <2> HIDE DEF bytes
  <2> QED
    BY <1>1, <1>3, FrameWithBytes
<1> QED
  BY <1>4

\* The state has its types in every reachable state.
THEOREM TypeCorrect == Spec => []TypeOK
<1>1. Init => TypeOK
  BY CircWriterAssumption DEF Init, TypeOK
<1>2. TypeOK /\ [Next]_vars => TypeOK'
  <2> SUFFICES ASSUME TypeOK, [Next]_vars PROVE TypeOK'
    OBVIOUS
  <2> USE DEF At, Proceed, Report, OnlyStack
  <2>1. CASE PrintLine
    BY <2>1, NewCall, CircWriterAssumption DEF PrintLine, TypeOK
  <2>2. CASE RxInterrupt
    BY <2>2, NewCall, Pushed, CircWriterAssumption DEF RxInterrupt, TypeOK
  <2>3. CASE TxInterrupt
    BY <2>3, NewCall, Pushed DEF TxInterrupt, TypeOK
  <2>4. CASE EdgeInterrupt
    BY <2>4, NewCall, Pushed, CircWriterAssumption DEF EdgeInterrupt, TypeOK
  <2>5. CASE ReadLow
    BY <2>5, ReadLowType, ContinueType DEF ReadLow, TypeOK
  <2>6. CASE ReadHigh
    BY <2>6, ReadHighType, ContinueType DEF ReadHigh, TypeOK
  <2>7. CASE TestLock
    BY <2>7, GotoType, ReturnType DEF TestLock, TypeOK, Labels
  <2>8. CASE TakeLock
    BY <2>8, GotoType DEF TakeLock, TypeOK, Labels
  <2>9. CASE NoRoom
    BY <2>9, ReturnType DEF NoRoom, TypeOK
  <2>10. CASE Room
    BY <2>10, GotoType DEF Room, TypeOK, Labels
  <2>11. CASE Command
    BY <2>11, DebugType DEF Command, TypeOK, Labels
  <2>12. CASE Accept
    BY <2>12, AcceptType, ContinueType DEF Accept, TypeOK
  <2>13. CASE Refuse
    BY <2>13, DebugType DEF Refuse, TypeOK, Labels
  <2>14. CASE SendByte
    BY <2>14, SendByteType, ContinueType DEF SendByte, TypeOK
  <2>15. CASE EndData
    <3>1. Advance(consumer) \in 0 .. Size - 1
      BY CircWriterAssumption DEF TypeOK, Advance
    <3> QED
      BY <2>15, <3>1, GotoType DEF EndData, TypeOK, Labels
  <2>16. CASE Stored
    <3>1. Top.data \in Seq(Nat)
      BY <2>16, TopFrame DEF Stored, Frame
    <3> QED
      BY <2>16, <3>1, GotoType DEF Stored, TypeOK, Labels
  <2>17. CASE Rejected
    BY <2>17, DebugType DEF Rejected, TypeOK, Labels
  <2>18. CASE Wait
    BY <2>18, DebugType DEF Wait, TypeOK, Labels
  <2>19. CASE Finished
    BY <2>19, GotoType DEF Finished, TypeOK, Labels
  <2>20. CASE TimedOut
    BY <2>20, DebugType DEF TimedOut, TypeOK, Labels
  <2>21. CASE GiveUp
    BY <2>21, ReturnType DEF GiveUp, TypeOK
  <2>22. CASE Unlock
    BY <2>22, GotoType DEF Unlock, TypeOK, Labels
  <2>23. CASE Due
    BY <2>23, GotoType DEF Due, TypeOK, Labels
  <2>24. CASE MetaCommand
    BY <2>24, DebugType DEF MetaCommand, TypeOK, Labels
  <2>25. CASE MetaAccept
    BY <2>25, GotoType DEF MetaAccept, TypeOK, Labels
  <2>26. CASE MetaFails
    BY <2>26, DebugType DEF MetaFails, TypeOK, Labels
  <2>27. CASE MetaStored
    BY <2>27, GotoType DEF MetaStored, TypeOK, Labels
  <2>28. CASE MetaWait
    BY <2>28, DebugType DEF MetaWait, TypeOK, Labels
  <2>29. CASE MetaFinished
    BY <2>29, GotoType DEF MetaFinished, TypeOK, Labels
  <2>30. CASE Done
    BY <2>30, ReturnType DEF Done, TypeOK
  <2>31. CASE UNCHANGED vars
    BY <2>31 DEF vars, TypeOK
  <2> QED
    BY <2>1, <2>2, <2>3, <2>4, <2>5, <2>6, <2>7, <2>8, <2>9, <2>10, <2>11, <2>12,
       <2>13, <2>14, <2>15, <2>16, <2>17, <2>18, <2>19, <2>20, <2>21, <2>22, <2>23,
       <2>24, <2>25, <2>26, <2>27, <2>28, <2>29, <2>30, <2>31
       DEF Next, Writer
<1> QED
  BY <1>1, <1>2, PTL DEF Spec

-----------------------------------------------------------------------------
(* Mutual exclusion.                                                       *)

\* A call that has not passed the test of the lock.
Entering(f) == f.pc \in {"low", "high", "test"}

\* What makes the lock work although it is tested and set in two steps: above a
\* call that holds it there are only calls that have still to test it.
LockOK(s, l) ==
  /\ \A j \in 1 .. Len(s) : Holding(s[j]) => l = 1
  /\ l = 1 => \E j \in 1 .. Len(s) : Holding(s[j])
  /\ \A i, j \in 1 .. Len(s) : i < j /\ Holding(s[i]) => Entering(s[j])

LockInv == LockOK(stack, lock)

LEMMA PushKeepsLock ==
  ASSUME NEW s \in Seq(Frame), NEW l \in {0, 1}, LockOK(s, l),
         NEW f \in Frame, f.pc = "low"
  PROVE  LockOK(Append(s, f), l)
<1>1. Entering(f) /\ ~Holding(f)
  BY DEF Entering, Holding
<1> QED
  BY <1>1, Pushed DEF LockOK

\* The top call moves on; it neither takes nor releases the lock.
LEMMA MoveKeepsLock ==
  ASSUME NEW s \in Seq(Frame), s # << >>, NEW l \in {0, 1}, LockOK(s, l),
         NEW f \in Frame, Holding(f) <=> Holding(s[Len(s)]),
         Entering(f) \/ ~Entering(s[Len(s)]) \/ l = 0
  PROVE  LockOK([s EXCEPT ![Len(s)] = f], l)
BY Replaced, NotIdle DEF LockOK

\* The top call, past the test, takes the lock or releases it.
LEMMA MoveSetsLock ==
  ASSUME NEW s \in Seq(Frame), s # << >>, NEW l \in {0, 1}, LockOK(s, l),
         ~Entering(s[Len(s)]), NEW f \in Frame, NEW m \in {0, 1},
         Holding(f) <=> m = 1
  PROVE  LockOK([s EXCEPT ![Len(s)] = f], m)
BY Replaced, NotIdle DEF LockOK

\* The top call, past the test, returns and leaves the lock free.
LEMMA PopFreesLock ==
  ASSUME NEW s \in Seq(Frame), s # << >>, NEW l \in {0, 1}, LockOK(s, l),
         ~Entering(s[Len(s)])
  PROVE  LockOK([j \in 1 .. Len(s) - 1 |-> s[j]], 0)
BY Popped, NotIdle DEF LockOK

\* The top call finds the lock set and returns.
LEMMA PopKeepsLock ==
  ASSUME NEW s \in Seq(Frame), s # << >>, NEW l \in {0, 1}, LockOK(s, l),
         Entering(s[Len(s)])
  PROVE  LockOK([j \in 1 .. Len(s) - 1 |-> s[j]], l)
<1> DEFINE r == [j \in 1 .. Len(s) - 1 |-> s[j]]
<1>1. /\ Len(s) \in Nat \ {0} /\ Len(r) = Len(s) - 1
      /\ \A j \in 1 .. Len(r) : r[j] = s[j]
  BY Popped, NotIdle
<1>2. ~Holding(s[Len(s)])
  BY DEF Entering, Holding
<1> HIDE DEF r
<1> QED
  BY <1>1, <1>2 DEF LockOK

\* A debug message: the top call moves on and a new one is put on top of it.
LEMMA DebugKeepsLock ==
  ASSUME TypeOK, LockInv, ~Idle, ~Entering(Top), NEW l \in Labels, Debug(l),
         Holding([Top EXCEPT !.pc = l]) <=> Holding(Top), lock' = lock
  PROVE  LockInv'
<1> DEFINE s == [stack EXCEPT ![Len(stack)] = [Top EXCEPT !.pc = l]]
           c == Call(Top.by, "printf")
<1>1. Top \in Frame /\ [Top EXCEPT !.pc = l] \in Frame
  BY TopFrame
<1>2. s \in Seq(Frame)
  BY <1>1, Replaced DEF TypeOK, Idle
<1>3. LockOK(s, lock)
  BY <1>1, MoveKeepsLock DEF TypeOK, LockInv, Idle, Top
<1>4. c \in Frame /\ c.pc = "low"
  BY <1>1, NewCall DEF Frame
<1>5. stack' = Append(s, c)
  BY DEF Debug, Top
<1> HIDE DEF s, c
<1>6. LockOK(Append(s, c), lock)
  BY <1>2, <1>3, <1>4, PushKeepsLock DEF TypeOK
<1> QED
  BY <1>5, <1>6 DEF LockInv

LEMMA ContinueKeepsLock ==
  ASSUME TypeOK, LockInv, ~Idle, NEW f \in Frame, Continue(f), lock' = lock,
         Holding(f) <=> Holding(Top), Entering(f) \/ ~Entering(Top) \/ lock = 0
  PROVE  LockInv'
BY MoveKeepsLock DEF TypeOK, LockInv, Idle, Top, Continue

LEMMA ContinueSetsLock ==
  ASSUME TypeOK, LockInv, ~Idle, ~Entering(Top), NEW f \in Frame, Continue(f),
         lock' \in {0, 1}, Holding(f) <=> lock' = 1
  PROVE  LockInv'
BY MoveSetsLock DEF TypeOK, LockInv, Idle, Top, Continue

LEMMA ReturnFreesLock ==
  ASSUME TypeOK, LockInv, ~Idle, ~Entering(Top), Return, lock' = 0
  PROVE  LockInv'
BY PopFreesLock DEF TypeOK, LockInv, Idle, Top, Return

LEMMA ReturnKeepsLock ==
  ASSUME TypeOK, LockInv, ~Idle, Entering(Top), Return, lock' = lock
  PROVE  LockInv'
BY PopKeepsLock DEF TypeOK, LockInv, Idle, Top, Return

\* Where a call stands is decided by its label.
LEMMA FrameLabel ==
  ASSUME NEW f \in Frame, NEW l \in Labels, NEW x
  PROVE  /\ [f EXCEPT !.pc = l].pc = l
         /\ [f EXCEPT !.pc = l, !.stop = x].pc = l
         /\ [f EXCEPT !.pc = l, !.data = x].pc = l
         /\ [f EXCEPT !.data = x].pc = f.pc
BY DEF Frame

LEMMA GotoKeepsLock ==
  ASSUME TypeOK, LockInv, ~Idle, NEW l \in Labels, Goto(l), lock' = lock,
         Holding([Top EXCEPT !.pc = l]) <=> Holding(Top),
         ~Entering(Top) \/ lock = 0
  PROVE  LockInv'
BY ContinueKeepsLock, TopFrame DEF Goto

LEMMA LockStep ==
  ASSUME TypeOK, LockInv, [Next]_vars
  PROVE  LockInv'
<1> USE DEF At, Proceed, Report, OnlyStack
<1>1. CASE PrintLine
  <2>1. Idle /\ stack = << >>
    BY <1>1 DEF PrintLine, Idle
  <2>2. stack' = Append(stack, Call("main", "printf"))
    BY <1>1, <2>1 DEF PrintLine
  <2> QED
    BY <1>1, <2>2, NewCall, PushKeepsLock DEF PrintLine, TypeOK, LockInv
<1>2. CASE RxInterrupt
  BY <1>2, NewCall, PushKeepsLock DEF RxInterrupt, TypeOK, LockInv
<1>3. CASE TxInterrupt
  BY <1>3, NewCall, PushKeepsLock DEF TxInterrupt, TypeOK, LockInv
<1>4. CASE EdgeInterrupt
  BY <1>4, NewCall, PushKeepsLock DEF EdgeInterrupt, TypeOK, LockInv
<1>5. CASE TestLock
  <2>1. Entering(Top) /\ ~Holding(Top) /\ ~Idle /\ lock' = lock
    BY <1>5 DEF TestLock, Entering, Holding
  <2>2. CASE lock = 1
    BY <1>5, <2>1, <2>2, ReturnKeepsLock DEF TestLock
  <2>3. CASE lock = 0
    <3>1. Goto("lock") /\ "lock" \in Labels
      BY <1>5, <2>3 DEF TestLock, Labels
    <3>2. ~Holding([Top EXCEPT !.pc = "lock"])
      BY <2>1, <3>1, TopFrame, FrameLabel DEF Holding
    <3> QED
      BY <2>1, <2>3, <3>1, <3>2, GotoKeepsLock
  <2> QED
    BY <2>2, <2>3 DEF TypeOK
<1>6. CASE TakeLock
  <2>1. ~Entering(Top) /\ ~Idle /\ lock' = 1 /\ "room" \in Labels
    BY <1>6 DEF TakeLock, Entering, Labels
  <2>2. Holding([Top EXCEPT !.pc = "room"])
    BY <2>1, TopFrame, FrameLabel DEF Holding
  <2> QED
    BY <1>6, <2>1, <2>2, ContinueSetsLock, TopFrame DEF TakeLock, Goto
<1>7. CASE ReadLow
  <2> DEFINE f == [Top EXCEPT !.pc = "high", !.stop = producerIdx % LowRange]
  <2>1. ~Idle /\ Continue(f) /\ lock' = lock
    BY <1>7 DEF ReadLow
  <2>2. f \in Frame
    BY <1>7, ReadLowType
  <2>3. f.pc = "high"
    BY <2>1, TopFrame DEF Frame
  <2>4. Holding(f) <=> Holding(Top)
    BY <1>7, <2>3 DEF ReadLow, Holding
  <2>5. Entering(f) \/ ~Entering(Top)
    BY <2>1, <2>3 DEF Entering
  <2> HIDE DEF f
  <2> QED
    BY <2>1, <2>2, <2>4, <2>5, ContinueKeepsLock
<1>8. CASE ReadHigh
  <2> DEFINE f == [Top EXCEPT !.pc = "test", !.stop = @ + (producerIdx - (producerIdx % LowRange))]
  <2>1. ~Idle /\ Continue(f) /\ lock' = lock
    BY <1>8 DEF ReadHigh
  <2>2. f \in Frame
    BY <1>8, ReadHighType
  <2>3. f.pc = "test"
    BY <2>1, TopFrame DEF Frame
  <2>4. Holding(f) <=> Holding(Top)
    BY <1>8, <2>3 DEF ReadHigh, Holding
  <2>5. Entering(f) \/ ~Entering(Top)
    BY <2>1, <2>3 DEF Entering
  <2> HIDE DEF f
  <2> QED
    BY <2>1, <2>2, <2>4, <2>5, ContinueKeepsLock
<1>9. CASE NoRoom
  BY <1>9, ReturnFreesLock DEF NoRoom, Entering
<1>10. CASE Room
  <2>1. ~Entering(Top) /\ ~Idle /\ Goto("command") /\ lock' = lock /\ "command" \in Labels
    BY <1>10 DEF Room, Entering, Labels
  <2>2. Holding([Top EXCEPT !.pc = "command"]) <=> Holding(Top)
    BY <1>10, <2>1, TopFrame, FrameLabel DEF Room, Holding
  <2> QED
    BY <2>1, <2>2, GotoKeepsLock
<1>11. CASE Command
  <2>1. ~Entering(Top) /\ ~Idle /\ Debug("send") /\ lock' = lock /\ "send" \in Labels
    BY <1>11 DEF Command, Entering, Labels
  <2>2. Holding([Top EXCEPT !.pc = "send"]) <=> Holding(Top)
    BY <1>11, <2>1, TopFrame, FrameLabel DEF Command, Holding
  <2> QED
    BY <2>1, <2>2, DebugKeepsLock
<1>12. CASE Accept
  <2> DEFINE f == [Top EXCEPT !.pc = "data", !.data = << >>]
  <2>1. ~Idle /\ Continue(f) /\ lock' = lock /\ ~Entering(Top)
    BY <1>12 DEF Accept, Entering
  <2>2. f \in Frame
    BY <1>12, AcceptType
  <2>3. f.pc = "data"
    BY <2>1, TopFrame DEF Frame
  <2>4. Holding(f) <=> Holding(Top)
    BY <1>12, <2>3 DEF Accept, Holding
  <2>5. Entering(f) \/ ~Entering(Top)
    BY <2>1, <2>3 DEF Entering
  <2> HIDE DEF f
  <2> QED
    BY <2>1, <2>2, <2>4, <2>5, ContinueKeepsLock
<1>13. CASE Refuse
  <2>1. ~Entering(Top) /\ ~Idle /\ Debug("giveup") /\ lock' = lock /\ "giveup" \in Labels
    BY <1>13 DEF Refuse, Entering, Labels
  <2>2. Holding([Top EXCEPT !.pc = "giveup"]) <=> Holding(Top)
    BY <1>13, <2>1, TopFrame, FrameLabel DEF Refuse, Holding
  <2> QED
    BY <2>1, <2>2, DebugKeepsLock
<1>14. CASE SendByte
  <2> DEFINE bytes == Append(Top.data, Cell((Len(Top.data) + consumer) % Size))
             f == [Top EXCEPT !.data = bytes]
  <2>1. ~Entering(Top) /\ ~Idle /\ Continue(f) /\ lock' = lock
    BY <1>14 DEF SendByte, Entering
  <2>2. f \in Frame
    BY <1>14, SendByteType
  <2>3. f.pc = Top.pc
    BY <2>1, TopFrame DEF Frame
  <2>4. Holding(f) <=> Holding(Top)
    BY <2>3 DEF Holding
  <2> HIDE DEF f
  <2> QED
    BY <2>1, <2>2, <2>4, ContinueKeepsLock
<1>15. CASE EndData
  <2>1. ~Entering(Top) /\ ~Idle /\ Goto("response") /\ lock' = lock /\ "response" \in Labels
    BY <1>15 DEF EndData, Entering, Labels
  <2>2. Holding([Top EXCEPT !.pc = "response"]) <=> Holding(Top)
    BY <1>15, <2>1, TopFrame, FrameLabel DEF EndData, Holding
  <2> QED
    BY <2>1, <2>2, GotoKeepsLock
<1>16. CASE Stored
  <2>1. ~Entering(Top) /\ ~Idle /\ Goto("wait") /\ lock' = lock /\ "wait" \in Labels
    BY <1>16 DEF Stored, Entering, Labels
  <2>2. Holding([Top EXCEPT !.pc = "wait"]) <=> Holding(Top)
    BY <1>16, <2>1, TopFrame, FrameLabel DEF Stored, Holding
  <2> QED
    BY <2>1, <2>2, GotoKeepsLock
<1>17. CASE Rejected
  <2>1. ~Entering(Top) /\ ~Idle /\ Debug("giveup") /\ lock' = lock /\ "giveup" \in Labels
    BY <1>17 DEF Rejected, Entering, Labels
  <2>2. Holding([Top EXCEPT !.pc = "giveup"]) <=> Holding(Top)
    BY <1>17, <2>1, TopFrame, FrameLabel DEF Rejected, Holding
  <2> QED
    BY <2>1, <2>2, DebugKeepsLock
<1>18. CASE Wait
  <2>1. ~Entering(Top) /\ ~Idle /\ Debug("busy") /\ lock' = lock /\ "busy" \in Labels
    BY <1>18 DEF Wait, Entering, Labels
  <2>2. Holding([Top EXCEPT !.pc = "busy"]) <=> Holding(Top)
    BY <1>18, <2>1, TopFrame, FrameLabel DEF Wait, Holding
  <2> QED
    BY <2>1, <2>2, DebugKeepsLock
<1>19. CASE Finished
  <2>1. ~Entering(Top) /\ ~Idle /\ Goto("unlock") /\ lock' = lock /\ "unlock" \in Labels
    BY <1>19 DEF Finished, Entering, Labels
  <2>2. Holding([Top EXCEPT !.pc = "unlock"]) <=> Holding(Top)
    BY <1>19, <2>1, TopFrame, FrameLabel DEF Finished, Holding
  <2> QED
    BY <2>1, <2>2, GotoKeepsLock
<1>20. CASE TimedOut
  <2>1. ~Entering(Top) /\ ~Idle /\ Debug("giveup") /\ lock' = lock /\ "giveup" \in Labels
    BY <1>20 DEF TimedOut, Entering, Labels
  <2>2. Holding([Top EXCEPT !.pc = "giveup"]) <=> Holding(Top)
    BY <1>20, <2>1, TopFrame, FrameLabel DEF TimedOut, Holding
  <2> QED
    BY <2>1, <2>2, DebugKeepsLock
<1>21. CASE GiveUp
  BY <1>21, ReturnFreesLock DEF GiveUp, Entering
<1>22. CASE Unlock
  <2>1. ~Entering(Top) /\ ~Idle /\ lock' = 0 /\ "number" \in Labels
    BY <1>22 DEF Unlock, Entering, Labels
  <2>2. ~Holding([Top EXCEPT !.pc = "number"])
    BY <2>1, TopFrame, FrameLabel DEF Holding
  <2> QED
    BY <1>22, <2>1, <2>2, ContinueSetsLock, TopFrame DEF Unlock, Goto
<1>23. CASE Due
  <2>1. PICK l \in {"metacommand", "done"} : Goto(l)
    BY <1>23 DEF Due
  <2>2. ~Entering(Top) /\ ~Holding(Top) /\ ~Idle /\ lock' = lock /\ l \in Labels
    BY <1>23 DEF Due, Entering, Holding, Labels
  <2>3. ~Holding([Top EXCEPT !.pc = l])
    BY <2>2, TopFrame, FrameLabel DEF Holding
  <2> QED
    BY <2>1, <2>2, <2>3, GotoKeepsLock
<1>24. CASE MetaCommand
  <2>1. ~Entering(Top) /\ ~Idle /\ Debug("metasend") /\ lock' = lock /\ "metasend" \in Labels
    BY <1>24 DEF MetaCommand, Entering, Labels
  <2>2. Holding([Top EXCEPT !.pc = "metasend"]) <=> Holding(Top)
    BY <1>24, <2>1, TopFrame, FrameLabel DEF MetaCommand, Holding
  <2> QED
    BY <2>1, <2>2, DebugKeepsLock
<1>25. CASE MetaAccept
  <2>1. ~Entering(Top) /\ ~Idle /\ Goto("metadata") /\ lock' = lock /\ "metadata" \in Labels
    BY <1>25 DEF MetaAccept, Entering, Labels
  <2>2. Holding([Top EXCEPT !.pc = "metadata"]) <=> Holding(Top)
    BY <1>25, <2>1, TopFrame, FrameLabel DEF MetaAccept, Holding
  <2> QED
    BY <2>1, <2>2, GotoKeepsLock
<1>26. CASE MetaFails
  <2>1. ~Entering(Top) /\ ~Idle /\ Debug("done") /\ lock' = lock /\ "done" \in Labels
    BY <1>26 DEF MetaFails, Entering, Labels
  <2>2. Holding([Top EXCEPT !.pc = "done"]) <=> Holding(Top)
    BY <1>26, <2>1, TopFrame, FrameLabel DEF MetaFails, Holding
  <2> QED
    BY <2>1, <2>2, DebugKeepsLock
<1>27. CASE MetaStored
  <2>1. ~Entering(Top) /\ ~Idle /\ Goto("metawait") /\ lock' = lock /\ "metawait" \in Labels
    BY <1>27 DEF MetaStored, Entering, Labels
  <2>2. Holding([Top EXCEPT !.pc = "metawait"]) <=> Holding(Top)
    BY <1>27, <2>1, TopFrame, FrameLabel DEF MetaStored, Holding
  <2> QED
    BY <2>1, <2>2, GotoKeepsLock
<1>28. CASE MetaWait
  <2>1. ~Entering(Top) /\ ~Idle /\ Debug("metabusy") /\ lock' = lock /\ "metabusy" \in Labels
    BY <1>28 DEF MetaWait, Entering, Labels
  <2>2. Holding([Top EXCEPT !.pc = "metabusy"]) <=> Holding(Top)
    BY <1>28, <2>1, TopFrame, FrameLabel DEF MetaWait, Holding
  <2> QED
    BY <2>1, <2>2, DebugKeepsLock
<1>29. CASE MetaFinished
  <2>1. ~Entering(Top) /\ ~Idle /\ Goto("done") /\ lock' = lock /\ "done" \in Labels
    BY <1>29 DEF MetaFinished, Entering, Labels
  <2>2. Holding([Top EXCEPT !.pc = "done"]) <=> Holding(Top)
    BY <1>29, <2>1, TopFrame, FrameLabel DEF MetaFinished, Holding
  <2> QED
    BY <2>1, <2>2, GotoKeepsLock
<1>30. CASE Done
  BY <1>30, ReturnFreesLock DEF Done, Entering
<1>31. CASE UNCHANGED vars
  BY <1>31 DEF vars, LockInv
<1> QED
  BY <1>1, <1>2, <1>3, <1>4, <1>7, <1>8, <1>5, <1>6, <1>9, <1>10, <1>11, <1>12, <1>13,
     <1>14, <1>15, <1>16, <1>17, <1>18, <1>19, <1>20, <1>21, <1>22,
     <1>23, <1>24, <1>25, <1>26, <1>27, <1>28, <1>29, <1>30, <1>31 DEF Next, Writer

\* MutualExclusion for every ring, card and set of interrupts.  The strengthening
\* says what lies above the call that holds the lock; it rests on handlers running
\* to their end before the interrupted call goes on.
THEOREM LockExcludes == Spec => []MutualExclusion
<1>1. Init => LockInv
  BY DEF Init, LockInv, LockOK
<1>2. TypeOK /\ LockInv /\ [Next]_vars => LockInv'
  BY LockStep
<1>3. TypeOK /\ LockInv => MutualExclusion
  <2> SUFFICES ASSUME TypeOK, LockInv,
                      NEW i \in 1 .. Len(stack), NEW j \in 1 .. Len(stack),
                      Holding(stack[i]), Holding(stack[j])
               PROVE  i = j
    BY DEF MutualExclusion
  <2>1. ~Entering(stack[i]) /\ ~Entering(stack[j])
    BY DEF Entering, Holding
  <2>2. ~(i < j) /\ ~(j < i)
    BY <2>1 DEF LockInv, LockOK
  <2>3. i \in Nat /\ j \in Nat
    BY DEF TypeOK
  <2> QED
    BY <2>2, <2>3
<1> QED
  BY <1>1, <1>2, <1>3, TypeCorrect, PTL DEF Spec

\* LockReleased for every instance: whatever path the calls take, a lock that is
\* set has a call in progress to release it.
THEOREM LockIsReleased == Spec => []LockReleased
<1>1. Init => LockInv
  BY DEF Init, LockInv, LockOK
<1>2. TypeOK /\ LockInv /\ [Next]_vars => LockInv'
  BY LockStep
<1>3. TypeOK /\ LockInv => LockReleased
  BY DEF TypeOK, LockInv, LockOK, LockReleased, Idle
<1> QED
  BY <1>1, <1>2, <1>3, TypeCorrect, PTL DEF Spec

-----------------------------------------------------------------------------
(* Enough bytes: what a call knows of the indices when it goes on to write,*)
(* if no handler but the transmitter's interrupts.                         *)

\* Before a call has printed its first message.
Early(f) == f.pc \in {"low", "high", "test", "lock", "room", "command"}

\* Only the call on top is so early, and then, if main made it, with the transmitter's
\* handler masked: nothing comes between its look at the index and the use of it.
EarlyOK(s, m) ==
  /\ \A j \in 1 .. Len(s) - 1 : ~Early(s[j])
  /\ s # << >> /\ Early(s[Len(s)]) /\ s[Len(s)].by = "main" => m = 1

\* Its argument stop is the producer index, and the test is about the same indices
\* as they are when it goes on.
StopOK(f, p, c) ==
  /\ f.pc = "high" => f.stop = p % LowRange
  /\ f.pc \in {"test", "lock", "room"} => f.stop = p
  /\ f.pc = "command" => (p - c) % Size >= Chunk

EarlyInv == EarlyOK(stack, txMask) /\ (~Idle => StopOK(Top, producerIdx, consumer))

LEMMA EarlyPush ==
  ASSUME NEW s \in Seq(Frame), NEW m, EarlyOK(s, m), s # << >> => ~Early(s[Len(s)]),
         NEW f \in Frame, NEW k, f.by = "main" => k = 1
  PROVE  EarlyOK(Append(s, f), k)
BY Pushed DEF EarlyOK

LEMMA EarlyMove ==
  ASSUME NEW s \in Seq(Frame), s # << >>, NEW m, EarlyOK(s, m), NEW f \in Frame,
         Early(f) => Early(s[Len(s)]) /\ f.by = s[Len(s)].by
  PROVE  EarlyOK([s EXCEPT ![Len(s)] = f], m)
BY Replaced, NotIdle DEF EarlyOK

LEMMA EarlyPop ==
  ASSUME NEW s \in Seq(Frame), s # << >>, NEW m, EarlyOK(s, m), NEW k
  PROVE  EarlyOK([j \in 1 .. Len(s) - 1 |-> s[j]], k)
<1> DEFINE r == [j \in 1 .. Len(s) - 1 |-> s[j]]
<1>1. /\ Len(s) \in Nat \ {0} /\ Len(r) = Len(s) - 1 /\ r \in Seq(Frame)
      /\ \A j \in 1 .. Len(r) : r[j] = s[j]
  BY Popped, NotIdle
<1> HIDE DEF r
<1>2. \A j \in 1 .. Len(r) : ~Early(r[j])
  BY <1>1 DEF EarlyOK
<1>3. r # << >> => Len(r) \in 1 .. Len(r)
  BY <1>1
<1>4. EarlyOK(r, k)
  BY <1>1, <1>2, <1>3 DEF EarlyOK
<1> QED BY <1>4 DEF r

\* The call on top goes on as f.
LEMMA EarlyContinue ==
  ASSUME TypeOK, EarlyInv, ~Idle, NEW f \in Frame, Continue(f), txMask' = txMask,
         Early(f) => Early(Top) /\ f.by = Top.by /\ StopOK(f, producerIdx', consumer')
  PROVE  EarlyInv'
<1>1. EarlyOK(stack', txMask')
  BY EarlyMove DEF TypeOK, EarlyInv, Idle, Top, Continue
<1>2. Top' = f
  BY Replaced DEF TypeOK, Idle, Top, Continue
<1>3. StopOK(f, producerIdx', consumer')
  BY DEF StopOK, Early
<1> QED BY <1>1, <1>2, <1>3 DEF EarlyInv, StopOK

LEMMA EarlyReturn ==
  ASSUME TypeOK, EarlyInv, ~Idle, Return
  PROVE  EarlyInv'
<1>1. EarlyOK(stack', txMask')
  BY EarlyPop DEF TypeOK, EarlyInv, Idle, Return
<1>2. stack' \in Seq(Frame) /\ (stack' # << >> => ~Early(stack'[Len(stack')]))
  <2> DEFINE r == [j \in 1 .. Len(stack) - 1 |-> stack[j]]
  <2>1. /\ Len(stack) \in Nat \ {0} /\ Len(r) = Len(stack) - 1 /\ r \in Seq(Frame)
        /\ \A j \in 1 .. Len(r) : r[j] = stack[j]
    BY Popped, NotIdle DEF TypeOK, Idle
  <2>2. stack' = r
    BY DEF Return
  <2> HIDE DEF r
  <2>3. r # << >> => Len(r) \in 1 .. Len(stack) - 1
    BY <2>1
  <2> QED BY <2>1, <2>2, <2>3 DEF EarlyInv, EarlyOK
<1>3. ~Idle' => ~Early(Top')
  BY <1>2 DEF Idle, Top
<1>4. ~Idle' => StopOK(Top', producerIdx', consumer')
  BY <1>3 DEF StopOK, Early
<1> QED BY <1>1, <1>4 DEF EarlyInv

\* A new call on top of calls that are not early.
LEMMA EarlyCall ==
  ASSUME TypeOK, NEW s \in Seq(Frame), NEW m, EarlyOK(s, m), s # << >> => ~Early(s[Len(s)]),
         NEW by \in {"main", "isr"}, NEW in \in {"printf", "irq"},
         stack' = Append(s, Call(by, in)), by = "main" => txMask' = 1
  PROVE  EarlyInv'
<1>1. Call(by, in) \in Frame /\ Call(by, in).pc = "low" /\ Call(by, in).by = by
  BY NewCall DEF Call
<1>2. EarlyOK(stack', txMask')
  BY <1>1, EarlyPush
<1>3. Top' = Call(by, in)
  <2> DEFINE c == Call(by, in)
  <2> HIDE DEF c
  <2>1. Len(Append(s, c)) = Len(s) + 1 /\ Append(s, c)[Len(s) + 1] = c
    BY <1>1, Pushed DEF c
  <2> QED BY <2>1 DEF Top, c
<1>4. StopOK(Top', producerIdx', consumer')
  BY <1>1, <1>3 DEF StopOK
<1> QED BY <1>2, <1>4 DEF EarlyInv

LEMMA EarlyDebug ==
  ASSUME TypeOK, EarlyInv, ~Idle, NEW l \in Labels, Debug(l),
         l \notin {"low", "high", "test", "lock", "room", "command"}
  PROVE  EarlyInv'
<1> DEFINE f == [Top EXCEPT !.pc = l]
           s == [stack EXCEPT ![Len(stack)] = f]
<1>1. Top \in Frame /\ f \in Frame /\ f.pc = l /\ Top.by \in {"main", "isr"}
  BY TopFrame, FrameLabel DEF Frame
<1>2. stack' = Append(s, Call(Top.by, "printf")) /\ txMask' = 1
  BY DEF Debug, Top
<1>3. ~Early(f)
  BY <1>1 DEF Early
<1> HIDE DEF f
<1>4. s \in Seq(Frame) /\ Len(s) = Len(stack) /\ s[Len(s)] = f
  BY <1>1, Replaced DEF TypeOK, Idle
<1>5. EarlyOK(s, txMask)
  BY <1>1, <1>3, EarlyMove DEF TypeOK, EarlyInv, Idle
<1> HIDE DEF s
<1> QED BY <1>1, <1>2, <1>3, <1>4, <1>5, EarlyCall

\* A label decides whether a call is early.
LEMMA EarlyGoto ==
  ASSUME TypeOK, EarlyInv, ~Idle, NEW l \in Labels, Goto(l), txMask' = txMask,
         l \notin {"low", "high", "test", "lock", "room", "command"}
  PROVE  EarlyInv'
<1> DEFINE f == [Top EXCEPT !.pc = l]
<1>1. f \in Frame /\ f.pc = l
  BY TopFrame, FrameLabel
<1>2. Continue(f)
  BY DEF Goto
<1> HIDE DEF f
<1> QED BY <1>1, <1>2, EarlyContinue DEF Early

LEMMA SizeFacts ==
  /\ Size \in Nat \ {0} /\ Chunk \in Nat \ {0} /\ LowRange \in Nat \ {0}
  /\ Noise \in Nat /\ MaxBytes \in Nat /\ Lines \subseteq Nat
BY CircWriterAssumption

LEMMA ModInt ==
  ASSUME NEW n \in Nat \ {0}, NEW q \in Int, NEW r \in 0 .. n - 1, NEW x \in Int, x = (n * q) + r
  PROVE  x % n = r
BY SMT

\* The code's case distinction is the distance around the ring.
LEMMA AvailableIs ==
  ASSUME NEW a \in 0 .. Size - 1, consumer \in 0 .. Size - 1
  PROVE  Available(a) = (a - consumer) % Size
<1> DEFINE x == a - consumer
<1>1. CASE consumer > a
  <2>1. x = (Size * (-1)) + (x + Size) /\ x + Size \in 0 .. Size - 1 /\ -1 \in Int /\ x \in Int
    BY <1>1, SizeFacts
  <2>2. Available(a) = x + Size
    BY <1>1, SizeFacts DEF Available
  <2> HIDE DEF x
  <2>3. x % Size = x + Size
    BY <2>1, SizeFacts, ModInt
  <2> QED BY <2>2, <2>3 DEF x
<1>2. CASE consumer <= a
  <2>1. x = (Size * 0) + x /\ x \in 0 .. Size - 1 /\ x \in Int
    BY <1>2, SizeFacts
  <2>2. Available(a) = x
    BY <1>2, SizeFacts DEF Available
  <2> HIDE DEF x
  <2>3. x % Size = x
    BY <2>1, SizeFacts, ModInt
  <2> QED BY <2>2, <2>3 DEF x
<1> QED BY <1>1, <1>2, SizeFacts

LEMMA ProducerInRing == ASSUME TypeOK PROVE producerIdx \in 0 .. Size - 1
BY SizeFacts DEF TypeOK, producerIdx

\* The fields a move leaves alone.
LEMMA FrameFields ==
  ASSUME NEW f \in Frame, NEW l \in Labels, NEW x
  PROVE  /\ [f EXCEPT !.pc = l].by = f.by /\ [f EXCEPT !.pc = l].stop = f.stop
         /\ [f EXCEPT !.pc = l].data = f.data
         /\ [f EXCEPT !.pc = l, !.stop = x].by = f.by /\ [f EXCEPT !.pc = l, !.stop = x].stop = x
         /\ [f EXCEPT !.pc = l, !.data = x].data = x
         /\ [f EXCEPT !.data = x].data = x
BY DEF Frame

LEMMA EarlyStep ==
  ASSUME TypeOK, EarlyInv, [Next]_vars, Interrupts \subseteq {"tx"}
  PROVE  EarlyInv'
<1> USE DEF At, Proceed, Report, OnlyStack
<1>1. CASE PrintLine
  <2>1. stack = << >> /\ stack' = Append(stack, Call("main", "printf")) /\ txMask' = 1
    BY <1>1 DEF PrintLine, Idle
  <2> QED
    BY <2>1, EarlyCall DEF TypeOK, EarlyInv
<1>2. CASE RxInterrupt \/ EdgeInterrupt
  BY <1>2 DEF RxInterrupt, EdgeInterrupt
<1>3. CASE TxInterrupt
  <2>1. stack # << >> => Top.by = "main"
    BY <1>3, NotIdle DEF TxInterrupt, CanInterrupt, Top, TypeOK
  <2>2. stack # << >> => ~Early(stack[Len(stack)])
    BY <1>3, <2>1 DEF TxInterrupt, EarlyInv, EarlyOK, Top
  <2> QED
    BY <1>3, <2>2, EarlyCall DEF TxInterrupt, TypeOK, EarlyInv
<1>4. CASE ReadLow
  <2> DEFINE f == [Top EXCEPT !.pc = "high", !.stop = producerIdx % LowRange]
  <2>1. ~Idle /\ Continue(f) /\ Top.pc = "low" /\ UNCHANGED <<txMask, printed>>
    BY <1>4 DEF ReadLow
  <2>2. f \in Frame
    BY <1>4, ReadLowType
  <2>3. f.pc = "high" /\ f.by = Top.by /\ f.stop = producerIdx % LowRange
    BY <2>1, TopFrame, FrameLabel, FrameFields DEF Labels
  <2> HIDE DEF f
  <2>4. StopOK(f, producerIdx', consumer')
    BY <2>1, <2>3 DEF StopOK, producerIdx
  <2> QED
    BY <2>1, <2>2, <2>3, <2>4, EarlyContinue DEF Early
<1>5. CASE ReadHigh
  <2> DEFINE rest == producerIdx - (producerIdx % LowRange)
             f == [Top EXCEPT !.pc = "test", !.stop = Top.stop + rest]
  <2>1. ~Idle /\ Continue(f) /\ Top.pc = "high" /\ UNCHANGED <<txMask, printed>>
    BY <1>5 DEF ReadHigh
  <2>2. f \in Frame
    BY <1>5, ReadHighType
  <2>3. f.pc = "test" /\ f.by = Top.by /\ f.stop = Top.stop + rest
    BY <2>1, TopFrame, FrameLabel, FrameFields DEF Labels
  <2>4. Top.stop = producerIdx % LowRange
    BY <2>1 DEF EarlyInv, StopOK
  <2>5. f.stop = producerIdx
    <3>1. producerIdx \in Nat /\ producerIdx % LowRange \in Nat
      BY ProducerInRing, SizeFacts, Remainder
    <3> QED BY <2>3, <2>4, <3>1
  <2> HIDE DEF f
  <2>6. StopOK(f, producerIdx', consumer')
    BY <2>1, <2>3, <2>5 DEF StopOK, producerIdx
  <2> QED
    BY <2>1, <2>2, <2>3, <2>6, EarlyContinue DEF Early
<1>6. CASE TestLock
  <2>1. CASE lock = 1
    BY <1>6, <2>1, EarlyReturn DEF TestLock
  <2>2. CASE lock # 1
    <3> DEFINE f == [Top EXCEPT !.pc = "lock"]
    <3>1. ~Idle /\ Continue(f) /\ Top.pc = "test" /\ UNCHANGED <<txMask, printed>>
      BY <1>6, <2>2 DEF TestLock, Goto
    <3>2. f \in Frame /\ f.pc = "lock" /\ f.by = Top.by /\ f.stop = Top.stop
      BY <3>1, TopFrame, FrameLabel, FrameFields DEF Labels
    <3>3. f.stop = producerIdx
      BY <3>1, <3>2 DEF EarlyInv, StopOK
    <3> HIDE DEF f
    <3>4. StopOK(f, producerIdx', consumer')
      BY <3>1, <3>2, <3>3 DEF StopOK, producerIdx
    <3> QED
      BY <3>1, <3>2, <3>4, EarlyContinue DEF Early
  <2> QED BY <2>1, <2>2
<1>7. CASE TakeLock
  <2> DEFINE f == [Top EXCEPT !.pc = "room"]
  <2>1. ~Idle /\ Continue(f) /\ Top.pc = "lock" /\ UNCHANGED <<txMask, printed>>
    BY <1>7 DEF TakeLock, Goto
  <2>2. f \in Frame /\ f.pc = "room" /\ f.by = Top.by /\ f.stop = Top.stop
    BY <2>1, TopFrame, FrameLabel, FrameFields DEF Labels
  <2>3. f.stop = producerIdx
    BY <2>1, <2>2 DEF EarlyInv, StopOK
  <2> HIDE DEF f
  <2>4. StopOK(f, producerIdx', consumer')
    BY <2>1, <2>2, <2>3 DEF StopOK, producerIdx
  <2> QED
    BY <2>1, <2>2, <2>4, EarlyContinue DEF Early
<1>8. CASE Room
  <2> DEFINE f == [Top EXCEPT !.pc = "command"]
  <2>1. ~Idle /\ Continue(f) /\ Top.pc = "room" /\ UNCHANGED <<txMask, printed, consumer>>
        /\ Available(Top.stop) >= Chunk
    BY <1>8 DEF Room, Goto
  <2>2. f \in Frame
    BY <2>1, TopFrame DEF Labels
  <2>3. f.pc = "command" /\ f.by = Top.by
    BY <2>1, TopFrame, FrameLabel, FrameFields DEF Labels
  <2>4. Top.stop = producerIdx
    BY <2>1 DEF EarlyInv, StopOK
  <2>5. (producerIdx - consumer) % Size >= Chunk
    BY <2>1, <2>4, AvailableIs, ProducerInRing DEF TypeOK
  <2> HIDE DEF f
  <2>6. StopOK(f, producerIdx', consumer')
    BY <2>1, <2>3, <2>5 DEF StopOK, producerIdx
  <2> QED
    BY <2>1, <2>2, <2>3, <2>6, EarlyContinue DEF Early
<1>9. CASE Accept
  <2> DEFINE f == [Top EXCEPT !.pc = "data", !.data = << >>]
  <2>1. ~Idle /\ Continue(f) /\ UNCHANGED txMask
    BY <1>9 DEF Accept
  <2>2. f \in Frame /\ f.pc = "data"
    BY <1>9, <2>1, AcceptType, TopFrame, FrameLabel DEF Labels
  <2> HIDE DEF f
  <2> QED
    BY <2>1, <2>2, EarlyContinue DEF Early
<1>10. CASE SendByte
  <2> DEFINE f == [Top EXCEPT !.data = Append(Top.data, Cell((Len(Top.data) + consumer) % Size))]
  <2>1. ~Idle /\ Continue(f) /\ UNCHANGED txMask /\ Top.pc = "data"
    BY <1>10 DEF SendByte
  <2>2. f \in Frame /\ f.pc = "data"
    BY <1>10, <2>1, SendByteType, TopFrame, FrameLabel DEF Labels
  <2> HIDE DEF f
  <2> QED
    BY <2>1, <2>2, EarlyContinue DEF Early
<1>11. CASE NoRoom \/ GiveUp \/ Done
  BY <1>11, EarlyReturn DEF NoRoom, GiveUp, Done
<1>12. CASE Command
  BY <1>12, EarlyDebug DEF Command, Labels
<1>13. CASE Refuse \/ Rejected \/ TimedOut
  BY <1>13, EarlyDebug DEF Refuse, Rejected, TimedOut, Labels
<1>14. CASE Wait
  BY <1>14, EarlyDebug DEF Wait, Labels
<1>15. CASE MetaCommand \/ MetaFails \/ MetaWait
  BY <1>15, EarlyDebug DEF MetaCommand, MetaFails, MetaWait, Labels
<1>16. CASE EndData
  BY <1>16, EarlyGoto DEF EndData, Labels
<1>17. CASE Stored
  BY <1>17, EarlyGoto DEF Stored, Labels
<1>18. CASE Finished \/ Unlock
  BY <1>18, EarlyGoto DEF Finished, Unlock, Labels
<1>19. CASE Due
  BY <1>19, EarlyGoto DEF Due, Labels
<1>20. CASE MetaAccept \/ MetaStored \/ MetaFinished
  BY <1>20, EarlyGoto DEF MetaAccept, MetaStored, MetaFinished, Labels
<1>21. CASE UNCHANGED vars
  BY <1>21 DEF vars, EarlyInv, Idle, Top, StopOK, producerIdx
<1> QED
  BY <1>1, <1>2, <1>3, <1>4, <1>5, <1>6, <1>7, <1>8, <1>9, <1>10, <1>11, <1>12, <1>13,
     <1>14, <1>15, <1>16, <1>17, <1>18, <1>19, <1>20, <1>21 DEF Next, Writer

LEMMA InitEarly == ASSUME Init PROVE EarlyInv
BY DEF Init, EarlyInv, EarlyOK, Idle

\* EnoughBytes for every ring and card, also one that refuses blocks, if no handler
\* interrupts but the transmitter's: stop is read before the lock is taken, but with
\* that handler masked, and nothing else moves the indices.
THEOREM EnoughToWrite ==
  Interrupts \subseteq {"tx"} => (Spec => []EnoughBytes)
<1> SUFFICES ASSUME Interrupts \subseteq {"tx"} PROVE Spec => []EnoughBytes
  OBVIOUS
<1>1. Init => EarlyInv
  BY InitEarly
<1>2. TypeOK /\ EarlyInv /\ [Next]_vars => EarlyInv'
  BY EarlyStep
<1>3. TypeOK /\ EarlyInv => EnoughBytes
  <2> SUFFICES ASSUME TypeOK, EarlyInv, NEW j \in 1 .. Len(stack), stack[j].pc = "command"
               PROVE  (producerIdx - consumer) % Size >= Chunk
    BY DEF EnoughBytes
  <2>1. Early(stack[j])
    BY DEF Early
  <2>2. j = Len(stack) /\ ~Idle
    BY <2>1 DEF TypeOK, EarlyInv, EarlyOK, Idle
  <2> QED
    BY <2>2 DEF EarlyInv, StopOK, Top
<1> QED BY <1>1, <1>2, <1>3, TypeCorrect, PTL DEF Spec

-----------------------------------------------------------------------------
(* Levels: how far the printed bytes may be ahead of those on the card, at *)
(* every point of a call.                                                  *)

\* The bytes on the card, and those that are not.
logged == Chunk * Len(log)
level  == printed - logged

\* What a call may find that still has to take the lock: less than a block and a line
\* or a message.
EntryMax == 2 * Chunk - 1 - 4 * Noise

Entry(f) == f.pc \in {"low", "high", "test", "lock"}

\* Where the call f that holds the lock stands, u bytes are not on the card; n are, the
\* consumer index is c, and the bytes it has sent are those that follow.
HolderOK(f, u, n, c) ==
  /\ f.pc = "room" => u <= EntryMax
  /\ f.pc = "command" => Chunk <= u /\ u <= EntryMax
  /\ f.pc \in {"send", "data", "response"} => Chunk <= u /\ u <= EntryMax + Noise
  /\ f.pc = "data" => Len(f.data) <= Chunk /\ \A k \in 1 .. Len(f.data) : f.data[k] = n + k
  /\ f.pc = "response" => /\ Len(f.data) = Chunk /\ \A k \in 1 .. Chunk : f.data[k] = n + k
                          /\ c = (n + Chunk) % Size
  /\ f.pc = "wait" => u <= EntryMax + Noise - Chunk
  /\ f.pc \in {"busy", "unlock"} => u <= Chunk - 1 - 2 * Noise
  /\ f.pc # "giveup"

\* With the lock free there is less than a block, unless a call is about to take it.
LevelOK(s, l, u, n, c) ==
  /\ 0 <= u
  /\ \A j \in 1 .. Len(s) : HolderOK(s[j], u, n, c)
  /\ (\A j \in 1 .. Len(s) : s[j].pc # "response") => c = n % Size
  /\ l = 0 => u <= Chunk - 1 \/ (s # << >> /\ Entry(s[Len(s)]) /\ u <= EntryMax)

\* The blocks on the card are the stream.
LogOK(g) ==
  \A k \in 1 .. Len(g) :
    Len(g[k]) = Chunk /\ \A i \in 1 .. Chunk : g[k][i] = (Chunk * (k - 1)) + i

Level == /\ printed <= MaxBytes /\ LogOK(log)
         /\ LevelOK(stack, lock, level, logged, consumer)

LEMMA FitsFacts ==
  ASSUME Fits
  PROVE  /\ EntryMax \in Nat /\ Chunk - 1 <= EntryMax /\ EntryMax + Noise < Size
         /\ EntryMax + (2 * Noise) - Chunk = Chunk - 1 - (2 * Noise)
         /\ Chunk - 1 + Noise <= EntryMax
         /\ \A n \in Lines : Chunk - 1 + n <= EntryMax
BY SizeFacts DEF Fits, EntryMax

LEMMA LevelTypes ==
  ASSUME TypeOK
  PROVE  logged \in Nat /\ level \in Int /\ Len(log) \in Nat /\ printed = logged + level
<1>1. Len(log) \in Nat /\ printed \in Nat
  BY DEF TypeOK
<1>2. logged \in Nat
  BY <1>1, SizeFacts DEF logged
<1> HIDE DEF logged
<1> QED BY <1>1, <1>2 DEF level

LEMMA NotHolding ==
  ASSUME NEW f, ~Holding(f), NEW u, NEW n, NEW c
  PROVE  HolderOK(f, u, n, c) /\ f.pc # "response"
BY DEF Holding, HolderOK

LEMMA NoneBelow ==
  ASSUME NEW s \in Seq(Frame), s # << >>, NEW l, LockOK(s, l), ~Entering(s[Len(s)])
  PROVE  /\ \A j \in 1 .. Len(s) - 1 : ~Holding(s[j])
         /\ ~Holding(s[Len(s)]) => l # 1
         /\ Holding(s[Len(s)]) => l = 1
BY NotIdle DEF LockOK

\* A new call, which has not looked at anything yet.
LEMMA LevelPush ==
  ASSUME NEW s \in Seq(Frame), NEW l, NEW u, NEW n, NEW c, LevelOK(s, l, u, n, c),
         NEW f \in Frame, f.pc = "low", l = 0 => u <= EntryMax
  PROVE  LevelOK(Append(s, f), l, u, n, c)
<1>1. ~Holding(f) /\ Entry(f)
  BY DEF Holding, Entry
<1>2. /\ Append(s, f) \in Seq(Frame) /\ Len(Append(s, f)) = Len(s) + 1 /\ Len(s) \in Nat
      /\ \A j \in 1 .. Len(s) : Append(s, f)[j] = s[j]
      /\ Append(s, f)[Len(s) + 1] = f /\ Append(s, f) # << >>
  BY Pushed
<1> DEFINE r == Append(s, f)
<1> HIDE DEF r
<1>3. /\ Len(r) = Len(s) + 1 /\ r[Len(s) + 1] = f /\ r # << >>
      /\ \A j \in 1 .. Len(s) : r[j] = s[j]
  BY <1>2 DEF r
<1>4. \A j \in 1 .. Len(r) : HolderOK(r[j], u, n, c)
  BY <1>1, <1>2, <1>3, NotHolding DEF LevelOK
<1>5. (\A j \in 1 .. Len(r) : r[j].pc # "response") => \A j \in 1 .. Len(s) : s[j].pc # "response"
  BY <1>2, <1>3
<1>6. LevelOK(r, l, u, n, c)
  BY <1>1, <1>3, <1>4, <1>5 DEF LevelOK
<1> QED BY <1>6 DEF r

\* The top call moves on before it holds the lock.
LEMMA LevelMove ==
  ASSUME NEW s \in Seq(Frame), s # << >>, NEW l, NEW u, NEW n, NEW c, LevelOK(s, l, u, n, c),
         NEW f \in Frame, ~Holding(f), ~Holding(s[Len(s)]), Entry(f)
  PROVE  LevelOK([s EXCEPT ![Len(s)] = f], l, u, n, c)
<1> DEFINE r == [s EXCEPT ![Len(s)] = f]
<1>1. /\ Len(r) = Len(s) /\ Len(s) \in Nat \ {0} /\ r[Len(s)] = f /\ r # << >>
      /\ \A j \in 1 .. Len(s) - 1 : r[j] = s[j]
  BY Replaced, NotIdle
<1> HIDE DEF r
<1>2. \A j \in 1 .. Len(r) : HolderOK(r[j], u, n, c)
  BY <1>1, NotHolding DEF LevelOK
<1>3. (\A j \in 1 .. Len(r) : r[j].pc # "response") => \A j \in 1 .. Len(s) : s[j].pc # "response"
  <2>1. s[Len(s)].pc # "response"
    BY NotHolding
  <2> QED BY <1>1, <2>1
<1>4. LevelOK(r, l, u, n, c)
  BY <1>1, <1>2, <1>3 DEF LevelOK
<1> QED BY <1>4 DEF r

\* It finds the lock set and returns.
LEMMA LevelPop ==
  ASSUME NEW s \in Seq(Frame), s # << >>, NEW u, NEW n, NEW c, LevelOK(s, 1, u, n, c),
         ~Holding(s[Len(s)])
  PROVE  LevelOK([j \in 1 .. Len(s) - 1 |-> s[j]], 1, u, n, c)
<1> DEFINE r == [j \in 1 .. Len(s) - 1 |-> s[j]]
<1>1. /\ Len(r) = Len(s) - 1 /\ Len(s) \in Nat \ {0}
      /\ \A j \in 1 .. Len(r) : r[j] = s[j]
  BY Popped, NotIdle
<1> HIDE DEF r
<1>2. \A j \in 1 .. Len(r) : HolderOK(r[j], u, n, c)
  BY <1>1 DEF LevelOK
<1>3. (\A j \in 1 .. Len(r) : r[j].pc # "response") => \A j \in 1 .. Len(s) : s[j].pc # "response"
  <2>1. s[Len(s)].pc # "response"
    BY NotHolding
  <2> QED BY <1>1, <2>1
<1>4. LevelOK(r, 1, u, n, c)
  BY <1>2, <1>3 DEF LevelOK
<1> QED BY <1>4 DEF r

\* The top call, past the test of the lock, moves on: no call below it holds the lock.
LEMMA LevelAct ==
  ASSUME NEW s \in Seq(Frame), s # << >>, \A j \in 1 .. Len(s) - 1 : ~Holding(s[j]),
         NEW f \in Frame, NEW l, NEW u, NEW n, NEW c, HolderOK(f, u, n, c), 0 <= u,
         f.pc # "response" => c = n % Size,
         l = 0 => u <= Chunk - 1
  PROVE  LevelOK([s EXCEPT ![Len(s)] = f], l, u, n, c)
<1> DEFINE r == [s EXCEPT ![Len(s)] = f]
<1>1. /\ Len(r) = Len(s) /\ Len(s) \in Nat \ {0} /\ r[Len(s)] = f
      /\ \A j \in 1 .. Len(s) - 1 : r[j] = s[j]
  BY Replaced, NotIdle
<1> HIDE DEF r
<1>2. \A j \in 1 .. Len(r) : HolderOK(r[j], u, n, c)
  BY <1>1, NotHolding
<1>3. (\A j \in 1 .. Len(r) : r[j].pc # "response") => f.pc # "response"
  BY <1>1
<1>4. LevelOK(r, l, u, n, c)
  BY <1>2, <1>3 DEF LevelOK
<1> QED BY <1>4 DEF r

\* It prints a message: it moves on, with a new call on top of it.
LEMMA LevelActPush ==
  ASSUME NEW s \in Seq(Frame), s # << >>, \A j \in 1 .. Len(s) - 1 : ~Holding(s[j]),
         NEW f \in Frame, NEW l, NEW u, NEW n, NEW c, HolderOK(f, u, n, c), 0 <= u,
         c = n % Size, NEW g \in Frame, g.pc = "low",
         l = 0 => u <= EntryMax
  PROVE  LevelOK(Append([s EXCEPT ![Len(s)] = f], g), l, u, n, c)
<1> DEFINE r == [s EXCEPT ![Len(s)] = f]
<1>1. /\ r \in Seq(Frame) /\ Len(r) = Len(s) /\ Len(s) \in Nat \ {0} /\ r[Len(s)] = f
      /\ \A j \in 1 .. Len(s) - 1 : r[j] = s[j]
  BY Replaced, NotIdle
<1> HIDE DEF r
<1> DEFINE t == Append(r, g)
<1>2. /\ Len(t) = Len(r) + 1 /\ \A j \in 1 .. Len(r) : t[j] = r[j]
      /\ t[Len(r) + 1] = g /\ t # << >>
  BY <1>1, Pushed
<1> HIDE DEF t
<1>3. ~Holding(g) /\ Entry(g)
  BY DEF Holding, Entry
<1>4. \A j \in 1 .. Len(r) : HolderOK(r[j], u, n, c)
  BY <1>1, NotHolding
<1>5. \A j \in 1 .. Len(t) : HolderOK(t[j], u, n, c)
  BY <1>1, <1>2, <1>3, <1>4, NotHolding
<1>6. Entry(t[Len(t)])
  BY <1>1, <1>2, <1>3
<1>7. LevelOK(t, l, u, n, c)
  BY <1>2, <1>5, <1>6 DEF LevelOK
<1> QED BY <1>7 DEF t, r

\* It returns.
LEMMA LevelActPop ==
  ASSUME NEW s \in Seq(Frame), s # << >>, \A j \in 1 .. Len(s) - 1 : ~Holding(s[j]),
         NEW l, NEW u, NEW n, NEW c, 0 <= u, u <= Chunk - 1, c = n % Size
  PROVE  LevelOK([j \in 1 .. Len(s) - 1 |-> s[j]], l, u, n, c)
<1> DEFINE r == [j \in 1 .. Len(s) - 1 |-> s[j]]
<1>1. Len(r) = Len(s) - 1 /\ \A j \in 1 .. Len(r) : r[j] = s[j]
  BY Popped, NotIdle
<1> HIDE DEF r
<1>2. \A j \in 1 .. Len(r) : HolderOK(r[j], u, n, c)
  BY <1>1, NotHolding
<1>3. LevelOK(r, l, u, n, c)
  BY <1>2 DEF LevelOK
<1> QED BY <1>3 DEF r
LEMMA ModUnique ==
  ASSUME NEW n \in Nat \ {0}, NEW q \in Nat, NEW r \in 0 .. n - 1, NEW x \in Nat, x = (n * q) + r
  PROVE  x % n = r
  OBVIOUS

LEMMA ModDivides ==
  ASSUME NEW n \in Nat \ {0}, NEW x \in Nat
  PROVE  x % n \in 0 .. n - 1 /\ \E q \in Nat : x = (n * q) + (x % n)
<1>1. x \div n \in Nat /\ x % n \in 0 .. n - 1 /\ x = (n * (x \div n)) + (x % n)
  OBVIOUS
<1> QED BY <1>1

LEMMA ModPlus ==
  ASSUME NEW n \in Nat \ {0}, NEW x \in Nat, NEW k \in Nat
  PROVE  ((x % n) + k) % n = (x + k) % n
<1> DEFINE r == x % n
<1>1. r \in 0 .. n - 1 /\ \E q \in Nat : x = (n * q) + r
  BY ModDivides
<1>2. PICK q \in Nat : x = (n * q) + r
  BY <1>1
<1> HIDE DEF r
<1> DEFINE s == (r + k) % n
<1>3. s \in 0 .. n - 1 /\ \E p \in Nat : r + k = (n * p) + s
  <2>1. r + k \in Nat
    BY <1>1
  <2> DEFINE y == r + k
  <2> HIDE DEF y
  <2>2. y % n \in 0 .. n - 1 /\ \E p \in Nat : y = (n * p) + (y % n)
    BY <2>1, ModDivides DEF y
  <2> QED BY <2>2 DEF y
<1>4. PICK p \in Nat : r + k = (n * p) + s
  BY <1>3
<1> HIDE DEF s
<1>5. x + k = (n * (q + p)) + s
  BY <1>1, <1>2, <1>3, <1>4
<1>6. (x + k) % n = s
  <2> DEFINE y == x + k
          p0 == q + p
  <2>1. y \in Nat /\ p0 \in Nat /\ y = (n * p0) + s
    BY <1>2, <1>4, <1>5
  <2> HIDE DEF y, p0
  <2>2. y % n = s
    BY <1>3, <2>1, ModUnique
  <2> QED BY <2>2 DEF y
<1> QED BY <1>6 DEF r, s

\* The distance around the ring from the consumer index to the producer index is what
\* is not on the card, as long as that is less than the ring.
LEMMA Distance ==
  ASSUME NEW m \in Nat \ {0}, NEW n \in Nat, NEW u \in 0 .. m - 1
  PROVE  (((n + u) % m) - (n % m)) % m = u
<1> DEFINE r == n % m
           p == (n + u) % m
<1>1. r \in 0 .. m - 1 /\ u \in Nat
  BY ModDivides
<1>2. p = (r + u) % m
  BY <1>1, ModPlus
<1> HIDE DEF r, p
<1>3. CASE r + u < m
  <2>1. r + u \in 0 .. m - 1 /\ r + u \in Nat /\ r + u = (m * 0) + (r + u)
    BY <1>1, <1>3
  <2>2. p = r + u
    BY <1>2, <2>1, ModUnique
  <2>3. p - r = (m * 0) + u /\ p - r \in Int /\ 0 \in Int
    BY <1>1, <2>2
  <2> DEFINE x == p - r
  <2>4. x % m = u
    <3> HIDE DEF x
    <3> QED BY <2>3, ModInt DEF x
  <2> QED BY <2>4 DEF r, p
<1>4. CASE r + u >= m
  <2>1. r + u - m \in 0 .. m - 1 /\ r + u \in Nat /\ r + u = (m * 1) + (r + u - m) /\ 1 \in Nat
    BY <1>1, <1>4
  <2>2. p = r + u - m
    BY <1>2, <2>1, ModUnique
  <2>3. p - r = (m * (-1)) + u /\ p - r \in Int /\ -1 \in Int
    BY <1>1, <2>2
  <2> DEFINE x == p - r
  <2>4. x % m = u
    <3> HIDE DEF x
    <3> QED BY <2>3, ModInt DEF x
  <2> QED BY <2>4 DEF r, p
<1> QED BY <1>1, <1>3, <1>4

\* A byte that is no more than the ring behind the newest one is still in its cell.
LEMMA CellIs ==
  ASSUME TypeOK, NEW x \in Nat, x < printed, printed - x <= Size
  PROVE  Cell(x % Size) = x + 1
<1> DEFINE c == x % Size
<1>1. c \in 0 .. Size - 1 /\ \E q \in Nat : x = (Size * q) + c
  BY ModDivides, SizeFacts
<1> HIDE DEF c
<1>2. PICK q \in Nat : x = (Size * q) + c
  BY <1>1
<1> DEFINE y == printed - 1 - c
           d == printed - 1 - x
<1>3. y \in Int /\ q \in Int /\ d \in 0 .. Size - 1 /\ y = (Size * q) + d
  <2>1. printed \in Nat
    BY DEF TypeOK
  <2> DEFINE z == Size * q
  <2>2. z \in Nat
    BY SizeFacts
  <2> HIDE DEF z
  <2> QED BY <1>1, <1>2, <2>1, <2>2, SizeFacts DEF z
<1> HIDE DEF y, d
<1>4. y % Size = d
  BY <1>3, SizeFacts, ModInt
<1>5. printed - 1 - d = x
  BY DEF TypeOK, d
<1> QED BY <1>4, <1>5 DEF Cell, y, c

-----------------------------------------------------------------------------
(* The levels hold along every call.                                       *)

\* What is known when the top call acts.
LEMMA TopFacts ==
  ASSUME TypeOK, LockInv, Level, ~Idle, ~Entering(Top)
  PROVE  /\ Top \in Frame /\ stack \in Seq(Frame) /\ stack # << >>
         /\ \A j \in 1 .. Len(stack) - 1 : ~Holding(stack[j])
         /\ HolderOK(Top, level, logged, consumer) /\ 0 <= level
         /\ Top.pc # "response" => consumer = logged % Size
         /\ Holding(Top) <=> lock = 1
         /\ lock = 0 => level <= Chunk - 1 \/ (Entry(Top) /\ level <= EntryMax)
<1>1. stack \in Seq(Frame) /\ stack # << >> /\ Top \in Frame /\ Len(stack) \in Nat \ {0}
  BY TopFrame, NotIdle DEF TypeOK, Idle
<1>2. /\ \A j \in 1 .. Len(stack) - 1 : ~Holding(stack[j])
      /\ ~Holding(Top) => lock # 1
      /\ Holding(Top) => lock = 1
  BY <1>1, NoneBelow DEF LockInv, Top
<1>3. \A j \in 1 .. Len(stack) - 1 : stack[j].pc # "response"
  BY <1>2, NotHolding
<1>4. LevelOK(stack, lock, level, logged, consumer)
  BY DEF Level
<1>5. Top.pc # "response" => consumer = logged % Size
  BY <1>1, <1>3, <1>4 DEF LevelOK, Top
<1>6. HolderOK(Top, level, logged, consumer) /\ 0 <= level
  BY <1>1, <1>4 DEF LevelOK, Top
<1>7. lock = 0 => level <= Chunk - 1 \/ (Entry(Top) /\ level <= EntryMax)
  BY <1>4 DEF LevelOK, Top
<1> QED BY <1>1, <1>2, <1>5, <1>6, <1>7

\* The top call goes on as f and prints nothing.
LEMMA LevelContinue ==
  ASSUME TypeOK, LockInv, Level, ~Idle, ~Entering(Top), NEW f \in Frame, Continue(f),
         printed' = printed, LogOK(log'), 0 <= level', HolderOK(f, level', logged', consumer'),
         f.pc # "response" => consumer' = logged' % Size,
         lock' = 0 => level' <= Chunk - 1
  PROVE  Level'
<1> DEFINE u == level'
           n == logged'
           c == consumer'
           l == lock'
<1>1. stack \in Seq(Frame) /\ stack # << >> /\ \A j \in 1 .. Len(stack) - 1 : ~Holding(stack[j])
  BY TopFacts
<1>2. /\ HolderOK(f, u, n, c) /\ 0 <= u /\ (f.pc # "response" => c = n % Size)
      /\ (l = 0 => u <= Chunk - 1)
  OBVIOUS
<1> HIDE DEF u, n, c, l
<1>3. LevelOK([stack EXCEPT ![Len(stack)] = f], l, u, n, c)
  BY <1>1, <1>2, LevelAct
<1>4. LevelOK(stack', l, u, n, c)
  BY <1>3 DEF Continue
<1> QED BY <1>4 DEF Level, u, n, c, l

\* A message is no longer than Noise.
LEMMA DebugLevel ==
  ASSUME TypeOK, Level, NEW l, Debug(l), log' = log
  PROVE  printed' <= MaxBytes /\ level' \in Int /\ level <= level' /\ level' <= level + Noise
<1>1. printed \in Nat /\ printed <= MaxBytes
  BY DEF TypeOK, Level
<1>2. Capped(Noise) \in 0 .. Noise /\ printed + Capped(Noise) <= MaxBytes
  BY <1>1, SizeFacts DEF Capped
<1>3. printed' = printed + Capped(Noise)
  BY DEF Debug
<1>4. level' = printed' - logged
  BY DEF level, logged
<1>5. logged \in Nat /\ level = printed - logged /\ level \in Int /\ Noise \in Nat
  BY LevelTypes, SizeFacts DEF level
<1> QED BY <1>1, <1>2, <1>3, <1>4, <1>5

\* It prints a message and goes on at l.
LEMMA LevelDebug ==
  ASSUME TypeOK, LockInv, Level, Fits, ~Idle, ~Entering(Top), Top.pc \notin {"lock", "response"},
         NEW l \in Labels, Debug(l), UNCHANGED <<consumer, lock, log>>,
         \A u \in Int : level <= u /\ u <= level + Noise
                          => HolderOK([Top EXCEPT !.pc = l], u, logged, consumer)
  PROVE  Level'
<1> DEFINE f == [Top EXCEPT !.pc = l]
           g == Call(Top.by, "printf")
           u == level'
<1>1. /\ stack \in Seq(Frame) /\ stack # << >> /\ Top \in Frame
      /\ \A j \in 1 .. Len(stack) - 1 : ~Holding(stack[j])
      /\ consumer = logged % Size /\ 0 <= level
      /\ lock = 0 => level <= Chunk - 1
  BY TopFacts DEF Entry, Entering
<1>2. f \in Frame /\ g \in Frame /\ g.pc = "low"
  BY <1>1, TopFrame, NewCall DEF Frame
<1>3. stack' = Append([stack EXCEPT ![Len(stack)] = f], g)
  BY DEF Debug, Top
<1>4. logged' = logged
  BY DEF logged
<1>5. /\ printed' <= MaxBytes /\ u \in Int /\ level <= u /\ u <= level + Noise
  BY DebugLevel
<1>6. HolderOK(f, u, logged, consumer)
  BY <1>5
<1> HIDE DEF f, g, u
<1>7. 0 <= u /\ (lock = 0 => u <= EntryMax)
  <2>1. level \in Int /\ Chunk \in Int /\ Noise \in Int /\ EntryMax \in Int
    BY LevelTypes, FitsFacts, SizeFacts
  <2>2. Chunk - 1 + Noise <= EntryMax
    BY FitsFacts
  <2> QED BY <1>1, <1>5, <2>1, <2>2
<1>8. LevelOK(stack', lock, u, logged, consumer)
  BY <1>1, <1>2, <1>3, <1>6, <1>7, LevelActPush
<1>9. LogOK(log')
  BY DEF Level
<1> QED BY <1>4, <1>5, <1>8, <1>9 DEF Level, u

\* It returns.
LEMMA LevelReturn ==
  ASSUME TypeOK, LockInv, Level, ~Idle, ~Entering(Top), Top.pc # "response",
         Return, UNCHANGED <<printed, consumer, log>>, level <= Chunk - 1
  PROVE  Level'
<1>1. /\ stack \in Seq(Frame) /\ stack # << >> /\ consumer = logged % Size /\ 0 <= level
      /\ \A j \in 1 .. Len(stack) - 1 : ~Holding(stack[j])
  BY TopFacts
<1>2. LevelOK(stack', lock', level, logged, consumer)
  BY <1>1, LevelActPop DEF Return
<1>3. logged' = logged /\ level' = level
  BY DEF logged, level
<1> QED BY <1>2, <1>3 DEF Level

\* Between two messages of main there is room for the next line.
LEMMA LevelPrintLine ==
  ASSUME TypeOK, LockInv, Level, Fits, PrintLine
  PROVE  Level'
<1> DEFINE f == Call("main", "printf")
<1>1. stack = << >> /\ f \in Frame /\ f.pc = "low" /\ stack' = <<f>>
      /\ UNCHANGED <<consumer, lock, log>>
  BY NewCall DEF PrintLine, Idle
<1>2. lock = 0
  BY <1>1 DEF TypeOK, LockInv, LockOK
<1>3. 0 <= level /\ level <= Chunk - 1 /\ consumer = logged % Size
  BY <1>1, <1>2 DEF Level, LevelOK
<1>4. logged' = logged
  BY <1>1 DEF logged
<1> DEFINE u == level'
<1>5. printed' <= MaxBytes /\ 0 <= u /\ u <= EntryMax
  <2>1. PICK n \in Lines : printed + n <= MaxBytes /\ printed' = printed + n
    BY DEF PrintLine
  <2>2. n \in Nat /\ Chunk - 1 + n <= EntryMax /\ EntryMax \in Nat /\ Chunk \in Nat
    BY FitsFacts, SizeFacts
  <2>3. u = printed' - logged
    BY <1>4 DEF level
  <2>4. logged \in Nat /\ level = printed - logged /\ printed \in Nat /\ level \in Int
    BY LevelTypes DEF level, TypeOK
  <2> HIDE DEF u
  <2> QED BY <1>3, <2>1, <2>2, <2>3, <2>4
<1> HIDE DEF f, u
<1>6. ~Holding(f) /\ Entry(f)
  BY <1>1 DEF Holding, Entry
<1>7. \A j \in 1 .. Len(stack') : stack'[j] = f
  BY <1>1
<1>8. stack' # << >> /\ stack'[Len(stack')] = f
  BY <1>1
<1>9. LevelOK(stack', lock, u, logged, consumer)
  BY <1>3, <1>5, <1>6, <1>7, <1>8, NotHolding DEF LevelOK
<1> QED BY <1>1, <1>4, <1>5, <1>9 DEF Level, u

LEMMA LevelTx ==
  ASSUME TypeOK, LockInv, Level, Fits, TxInterrupt
  PROVE  Level'
<1> DEFINE f == Call("isr", "irq")
<1>1. f \in Frame /\ f.pc = "low" /\ stack' = Append(stack, f)
      /\ UNCHANGED <<printed, consumer, lock, log>>
  BY NewCall DEF TxInterrupt, OnlyStack
<1>2. LevelOK(stack, lock, level, logged, consumer)
  BY DEF Level
<1>3. lock = 0 => level <= EntryMax
  <2>1. lock = 0 => level <= Chunk - 1 \/ level <= EntryMax
    BY <1>2 DEF LevelOK
  <2> QED BY <2>1, LevelTypes, FitsFacts, SizeFacts
<1> HIDE DEF f
<1>4. LevelOK(stack', lock, level, logged, consumer)
  BY <1>1, <1>2, <1>3, LevelPush DEF TypeOK
<1>5. logged' = logged /\ level' = level
  BY <1>1 DEF logged, level
<1> QED BY <1>1, <1>4, <1>5 DEF Level

\* A call on its way to the lock.
LEMMA LevelEntry ==
  ASSUME TypeOK, Level, ~Idle, NEW f \in Frame, Continue(f), Entry(f), Entry(Top),
         UNCHANGED <<printed, consumer, lock, log>>
  PROVE  Level'
<1>1. ~Holding(f) /\ ~Holding(Top)
  BY DEF Entry, Holding
<1>2. LevelOK(stack', lock, level, logged, consumer)
  BY <1>1, LevelMove DEF TypeOK, Idle, Level, Continue, Top
<1>3. logged' = logged /\ level' = level
  BY DEF logged, level
<1> QED BY <1>2, <1>3 DEF Level

LEMMA LevelTestLock ==
  ASSUME TypeOK, Level, TestLock
  PROVE  Level'
<1>1. ~Idle /\ Top.pc = "test" /\ UNCHANGED <<printed, consumer, lock, log>>
  BY DEF TestLock, At
<1>2. CASE lock = 1
  <2>1. ~Holding(Top) /\ Return
    BY <1>1, <1>2 DEF Holding, TestLock
  <2>2. LevelOK(stack', 1, level, logged, consumer)
    BY <1>2, <1>1, <2>1, LevelPop DEF TypeOK, Idle, Level, Return, Top
  <2>3. logged' = logged /\ level' = level
    BY <1>1 DEF logged, level
  <2> QED BY <1>1, <1>2, <2>2, <2>3 DEF Level
<1>3. CASE lock # 1
  <2> DEFINE f == [Top EXCEPT !.pc = "lock"]
  <2>1. Continue(f)
    BY <1>3 DEF TestLock, Goto
  <2>2. f \in Frame /\ f.pc = "lock"
    BY <1>1, TopFrame, FrameLabel DEF Labels
  <2> HIDE DEF f
  <2>3. Entry(f) /\ Entry(Top)
    BY <1>1, <2>2 DEF Entry
  <2> QED BY <1>1, <2>1, <2>2, <2>3, LevelEntry
<1> QED BY <1>2, <1>3

LEMMA LevelTakeLock ==
  ASSUME TypeOK, LockInv, Level, Fits, TakeLock
  PROVE  Level'
<1> DEFINE f == [Top EXCEPT !.pc = "room"]
<1>1. ~Idle /\ Top.pc = "lock" /\ UNCHANGED <<printed, consumer, log>> /\ lock' = 1 /\ Continue(f)
  BY DEF TakeLock, At, Goto
<1>2. f \in Frame /\ f.pc = "room"
  BY <1>1, TopFrame, FrameLabel DEF Labels
<1> HIDE DEF f
<1>3. ~Entering(Top) /\ ~Holding(Top) /\ Top.pc # "response"
  BY <1>1 DEF Entering, Holding
<1>4. lock = 0
  BY <1>1, <1>3, TopFacts DEF TypeOK
<1>5. level <= EntryMax /\ 0 <= level /\ consumer = logged % Size
  <2>1. level <= Chunk - 1 \/ level <= EntryMax
    BY <1>1, <1>3, <1>4, TopFacts
  <2> QED BY <1>1, <1>3, <2>1, TopFacts, LevelTypes, FitsFacts, SizeFacts
<1>6. logged' = logged /\ level' = level
  BY <1>1 DEF logged, level
<1>7. HolderOK(f, level, logged, consumer)
  BY <1>2, <1>5 DEF HolderOK
<1> QED BY <1>1, <1>2, <1>3, <1>5, <1>6, <1>7, LevelContinue DEF Level

\* What the test for a block tells of the level.
LEMMA LevelAtRoom ==
  ASSUME TypeOK, LockInv, EarlyInv, Level, Fits, At("room")
  PROVE  /\ ~Idle /\ ~Entering(Top) /\ Available(Top.stop) = level
         /\ 0 <= level /\ level <= EntryMax /\ consumer = logged % Size
<1>1. ~Idle /\ Top.pc = "room" /\ ~Entering(Top)
  BY DEF At, Entering
<1>2. 0 <= level /\ level <= EntryMax /\ consumer = logged % Size
  BY <1>1, TopFacts DEF HolderOK
<1>3. Top.stop = producerIdx
  BY <1>1 DEF EarlyInv, StopOK
<1>4. Available(Top.stop) = (producerIdx - consumer) % Size
  BY <1>3, ProducerInRing, AvailableIs DEF TypeOK
<1>5. level \in 0 .. Size - 1
  <2>1. EntryMax + Noise < Size /\ EntryMax \in Nat /\ Noise \in Nat /\ Size \in Nat
    BY FitsFacts, SizeFacts
  <2> QED BY <1>2, <2>1, LevelTypes
<1>6. (((logged + level) % Size) - (logged % Size)) % Size = level
  BY <1>5, Distance, LevelTypes, SizeFacts
<1> QED BY <1>1, <1>2, <1>4, <1>6, LevelTypes DEF producerIdx

LEMMA LevelNoRoom ==
  ASSUME TypeOK, LockInv, EarlyInv, Level, Fits, NoRoom
  PROVE  Level'
<1>1. At("room") /\ Top.pc = "room" /\ Return /\ UNCHANGED <<printed, consumer, log>>
  BY DEF NoRoom, At
<1>2. ~Idle /\ ~Entering(Top) /\ Available(Top.stop) = level
  BY <1>1, LevelAtRoom
<1>3. level <= Chunk - 1
  BY <1>2, LevelTypes, SizeFacts DEF NoRoom
<1> QED BY <1>1, <1>2, <1>3, LevelReturn

LEMMA LevelRoom ==
  ASSUME TypeOK, LockInv, EarlyInv, Level, Fits, Room
  PROVE  Level'
<1> DEFINE f == [Top EXCEPT !.pc = "command"]
<1>1. At("room") /\ Continue(f) /\ UNCHANGED <<printed, consumer, lock, log>>
  BY DEF Room, Goto, OnlyStack
<1>2. ~Idle /\ ~Entering(Top) /\ Available(Top.stop) = level /\ level <= EntryMax
      /\ consumer = logged % Size /\ 0 <= level
  BY <1>1, LevelAtRoom
<1>3. f \in Frame /\ f.pc = "command"
  BY <1>2, TopFrame, FrameLabel DEF Labels
<1> HIDE DEF f
<1>4. Chunk <= level
  BY <1>2, LevelTypes, SizeFacts DEF Room
<1>5. HolderOK(f, level, logged, consumer)
  BY <1>2, <1>3, <1>4 DEF HolderOK
<1>6. logged' = logged /\ level' = level
  BY <1>1 DEF logged, level
<1>7. lock = 1
  BY <1>1, <1>2, TopFacts DEF At, Holding
<1> QED BY <1>1, <1>2, <1>3, <1>5, <1>6, <1>7, LevelContinue DEF Level

LEMMA LevelAccept ==
  ASSUME TypeOK, LockInv, Level, Accept
  PROVE  Level'
<1> DEFINE f == [Top EXCEPT !.pc = "data", !.data = << >>]
<1>1. ~Idle /\ Top.pc = "send" /\ Continue(f) /\ UNCHANGED <<printed, consumer, lock, log>>
  BY DEF Accept, At, OnlyStack
<1>2. f \in Frame /\ f.pc = "data" /\ f.data = << >>
  BY <1>1, AcceptType, TopFrame, FrameLabel, FrameFields DEF Labels
<1> HIDE DEF f
<1>3. ~Entering(Top) /\ Top.pc # "response" /\ Holding(Top)
  BY <1>1 DEF Entering, Holding
<1>4. HolderOK(Top, level, logged, consumer) /\ 0 <= level /\ consumer = logged % Size /\ lock = 1
  BY <1>1, <1>3, TopFacts
<1>5. HolderOK(f, level, logged, consumer)
  BY <1>1, <1>2, <1>4, SizeFacts DEF HolderOK
<1>6. logged' = logged /\ level' = level
  BY <1>1 DEF logged, level
<1> QED BY <1>1, <1>2, <1>3, <1>4, <1>5, <1>6, LevelContinue DEF Level

\* The byte sent is the next of the stream: its cell has not been overwritten.
LEMMA LevelSendByte ==
  ASSUME TypeOK, LockInv, Level, Fits, SendByte
  PROVE  Level'
<1> DEFINE byte == Cell((Len(Top.data) + consumer) % Size)
           bytes == Append(Top.data, byte)
           f == [Top EXCEPT !.data = bytes]
           m == Len(Top.data)
<1>1. ~Idle /\ Top.pc = "data" /\ Continue(f) /\ UNCHANGED <<printed, consumer, lock, log>>
      /\ m < Chunk
  BY DEF SendByte, At, OnlyStack
<1>2. ~Entering(Top) /\ Top.pc # "response" /\ Holding(Top)
  BY <1>1 DEF Entering, Holding
<1>3. HolderOK(Top, level, logged, consumer) /\ 0 <= level /\ consumer = logged % Size /\ lock = 1
  BY <1>1, <1>2, TopFacts
<1>4. Chunk <= level /\ level <= EntryMax + Noise /\ \A k \in 1 .. m : Top.data[k] = logged + k
  BY <1>1, <1>3 DEF HolderOK
<1>5. Top.data \in Seq(Nat) /\ m \in Nat /\ Top \in Frame
  BY <1>1, TopFrame DEF Frame
<1>6. byte = logged + m + 1
  <2> DEFINE x == logged + m
  <2>1. x \in Nat /\ x < printed /\ printed - x <= Size
    <3>1. EntryMax + Noise < Size /\ EntryMax \in Nat /\ Noise \in Nat /\ Size \in Nat
          /\ Chunk \in Nat
      BY FitsFacts, SizeFacts
    <3>2. m < Chunk /\ Chunk <= level /\ level <= EntryMax + Noise /\ m \in Nat
      BY <1>1, <1>4, <1>5
    <3>3. logged \in Nat /\ level \in Int /\ printed = logged + level
      BY LevelTypes
    <3> HIDE DEF m
    <3> QED BY <3>1, <3>2, <3>3
  <2>2. (m + consumer) % Size = x % Size
    <3>1. ((logged % Size) + m) % Size = (logged + m) % Size
      BY <1>5, LevelTypes, SizeFacts, ModPlus
    <3>2. consumer \in Nat /\ m + consumer = consumer + m
      BY <1>5 DEF TypeOK
    <3> QED BY <1>3, <3>1, <3>2
  <2> HIDE DEF x, m
  <2>3. Cell(x % Size) = x + 1
    BY <2>1, CellIs
  <2>4. byte = x + 1
    BY <2>2, <2>3 DEF m
  <2> QED BY <2>4 DEF x
<1> HIDE DEF byte
<1>7. /\ bytes \in Seq(Nat) /\ Len(bytes) = m + 1
      /\ \A k \in 1 .. m : bytes[k] = Top.data[k]
      /\ bytes[m + 1] = byte
  <2>1. byte \in Nat
    BY <1>5, <1>6, LevelTypes
  <2> QED BY <1>5, <2>1, Pushed
<1> HIDE DEF bytes
<1>8. f \in Frame /\ f.pc = "data" /\ f.data = bytes
  BY <1>1, <1>5, <1>7, FrameWithBytes, FrameLabel, FrameFields DEF Labels
<1> HIDE DEF f
<1>9. Len(bytes) <= Chunk /\ \A k \in 1 .. Len(bytes) : bytes[k] = logged + k
  <2>1. Len(bytes) <= Chunk
    BY <1>1, <1>5, <1>7, SizeFacts
  <2>2. ASSUME NEW k \in 1 .. Len(bytes) PROVE bytes[k] = logged + k
    <3>1. k \in 1 .. m \/ k = m + 1
      BY <1>5, <1>7
    <3> QED BY <1>4, <1>5, <1>6, <1>7, <3>1, LevelTypes
  <2> QED BY <2>1, <2>2
<1>10. HolderOK(f, level, logged, consumer)
  BY <1>4, <1>8, <1>9 DEF HolderOK
<1>11. logged' = logged /\ level' = level
  BY <1>1 DEF logged, level
<1> QED BY <1>1, <1>2, <1>3, <1>8, <1>10, <1>11, LevelContinue DEF Level

\* The consumer index moves on, the blocks on the card do not yet.
LEMMA LevelEndData ==
  ASSUME TypeOK, LockInv, Level, EndData
  PROVE  Level'
<1> DEFINE f == [Top EXCEPT !.pc = "response"]
<1>1. ~Idle /\ Top.pc = "data" /\ Continue(f) /\ UNCHANGED <<printed, lock, log>>
      /\ Len(Top.data) = Chunk /\ consumer' = (consumer + Chunk) % Size
  BY DEF EndData, At, Goto, Advance
<1>2. f \in Frame /\ f.pc = "response" /\ f.data = Top.data
  BY <1>1, TopFrame, FrameLabel, FrameFields DEF Labels
<1> HIDE DEF f
<1>3. ~Entering(Top) /\ Top.pc # "response" /\ Holding(Top)
  BY <1>1 DEF Entering, Holding
<1>4. HolderOK(Top, level, logged, consumer) /\ 0 <= level /\ consumer = logged % Size /\ lock = 1
  BY <1>1, <1>3, TopFacts
<1>5. consumer' = (logged + Chunk) % Size
  BY <1>1, <1>4, ModPlus, LevelTypes, SizeFacts
<1>6. HolderOK(f, level, logged, consumer')
  BY <1>1, <1>2, <1>4, <1>5 DEF HolderOK
<1>7. logged' = logged /\ level' = level
  BY <1>1 DEF logged, level
<1> QED BY <1>1, <1>2, <1>3, <1>4, <1>6, <1>7, LevelContinue DEF Level

\* The card takes the block: it is the next of the stream.
LEMMA StoredFacts ==
  ASSUME TypeOK, LockInv, Level, Stored
  PROVE  /\ ~Idle /\ Top.pc = "response" /\ ~Entering(Top) /\ lock = 1
         /\ UNCHANGED <<printed, consumer, lock>>
         /\ logged' = logged + Chunk /\ level' = level - Chunk /\ Chunk <= level
         /\ Len(log') = Len(log) + 1
         /\ \A k \in 1 .. Len(log) : log'[k] = log[k]
         /\ Len(log'[Len(log) + 1]) = Chunk
         /\ \A i \in 1 .. Chunk : log'[Len(log) + 1][i] = logged + i
         /\ LogOK(log')
<1> DEFINE b == Top.data
<1>1. ~Idle /\ Top.pc = "response" /\ UNCHANGED <<printed, consumer, lock>>
      /\ log' = Append(log, b) /\ b = Top.data
  BY DEF Stored, At
<1>2. ~Entering(Top) /\ Holding(Top)
  BY <1>1 DEF Entering, Holding
<1>3. HolderOK(Top, level, logged, consumer) /\ lock = 1
  BY <1>1, <1>2, TopFacts
<1>4. /\ Chunk <= level /\ Len(Top.data) = Chunk
      /\ \A i \in 1 .. Chunk : Top.data[i] = logged + i
  BY <1>1, <1>3 DEF HolderOK
<1> DEFINE S == Seq(Nat)
           n == Len(log)
<1>5. b \in S /\ log \in Seq(S)
  BY <1>1, TopFrame DEF TypeOK, Frame
<1> HIDE DEF S, b
<1>6. Len(log') = n + 1 /\ (\A k \in 1 .. n : log'[k] = log[k]) /\ log'[n + 1] = b /\ n \in Nat
  BY <1>1, <1>5, Pushed
<1> HIDE DEF n
<1>7. logged' = logged + Chunk
  <2>1. Chunk * (n + 1) = (Chunk * n) + Chunk
    BY <1>6, SizeFacts
  <2> QED BY <1>6, <2>1 DEF logged, n
<1>8. level' = level - Chunk
  <2>1. level' = printed' - logged' /\ level = printed - logged /\ printed \in Nat
    BY DEF level, TypeOK
  <2> QED BY <1>1, <1>7, <2>1, LevelTypes, SizeFacts
<1>9. LogOK(log')
  <2> SUFFICES ASSUME NEW k \in 1 .. Len(log')
               PROVE  Len(log'[k]) = Chunk
                      /\ \A i \in 1 .. Chunk : log'[k][i] = (Chunk * (k - 1)) + i
    BY DEF LogOK
  <2>1. CASE k \in 1 .. n
    BY <1>6, <2>1 DEF Level, LogOK, n
  <2>2. CASE k = n + 1
    <3>1. k - 1 = n
      BY <1>6, <2>2
    <3>2. logged = Chunk * (k - 1)
      BY <3>1 DEF logged, n
    <3> QED BY <1>1, <1>4, <1>6, <2>2, <3>2
  <2> QED BY <1>6, <2>1, <2>2
<1> QED BY <1>1, <1>2, <1>3, <1>4, <1>6, <1>7, <1>8, <1>9 DEF n

LEMMA LevelStored ==
  ASSUME TypeOK, LockInv, Level, Fits, Stored
  PROVE  Level'
<1> DEFINE f == [Top EXCEPT !.pc = "wait"]
<1>1. Continue(f)
  BY DEF Stored, Goto
<1>2. ~Idle /\ Top.pc = "response" /\ ~Entering(Top) /\ lock = 1
      /\ UNCHANGED <<printed, consumer, lock>> /\ LogOK(log')
      /\ logged' = logged + Chunk /\ level' = level - Chunk /\ Chunk <= level
  BY StoredFacts
<1>3. f \in Frame /\ f.pc = "wait"
  BY <1>2, TopFrame, FrameLabel DEF Labels
<1> HIDE DEF f
<1>4. HolderOK(Top, level, logged, consumer)
  BY <1>2, TopFacts
<1>5. consumer = logged' % Size /\ level <= EntryMax + Noise
  BY <1>2, <1>4 DEF HolderOK
<1>6. 0 <= level' /\ level' <= EntryMax + Noise - Chunk
  <2>1. EntryMax \in Nat /\ Noise \in Nat /\ Chunk \in Nat
    BY FitsFacts, SizeFacts
  <2> QED BY <1>2, <1>5, <2>1, LevelTypes
<1>7. HolderOK(f, level', logged', consumer')
  BY <1>3, <1>6 DEF HolderOK
<1> QED BY <1>1, <1>2, <1>3, <1>5, <1>6, <1>7, LevelContinue DEF Level

\* After it has released the lock.
LEMMA LevelFree ==
  ASSUME TypeOK, LockInv, Level, ~Idle,
         Top.pc \in {"number", "metacommand", "metasend", "metadata", "metawait", "metabusy",
                     "done"}
  PROVE  ~Entering(Top) /\ 0 <= level /\ level <= Chunk - 1 /\ consumer = logged % Size
<1>1. ~Entering(Top) /\ ~Holding(Top) /\ ~Entry(Top) /\ Top.pc # "response"
  BY DEF Entering, Holding, Entry
<1>2. lock = 0
  BY <1>1, TopFacts DEF TypeOK
<1> QED BY <1>1, <1>2, TopFacts

LEMMA LevelFreeContinue ==
  ASSUME TypeOK, LockInv, Level, ~Idle,
         Top.pc \in {"number", "metasend", "metadata", "metabusy"},
         NEW f \in Frame, Continue(f), ~Holding(f), UNCHANGED <<printed, consumer, lock, log>>
  PROVE  Level'
<1>1. ~Entering(Top) /\ 0 <= level /\ level <= Chunk - 1 /\ consumer = logged % Size
  BY LevelFree
<1>2. HolderOK(f, level, logged, consumer)
  BY NotHolding
<1>3. logged' = logged /\ level' = level
  BY DEF logged, level
<1> QED BY <1>1, <1>2, <1>3, LevelContinue DEF Level

LEMMA LevelFreeGoto ==
  ASSUME TypeOK, LockInv, Level, ~Idle,
         Top.pc \in {"number", "metasend", "metadata", "metabusy"},
         NEW l \in {"metacommand", "metadata", "metawait", "done"}, Goto(l),
         UNCHANGED <<printed, consumer, lock, log>>
  PROVE  Level'
<1> DEFINE f == [Top EXCEPT !.pc = l]
<1>1. f \in Frame /\ f.pc = l
  <2>1. l \in Labels
    BY DEF Labels
  <2> QED BY <2>1, TopFrame, FrameLabel
<1>2. Continue(f)
  BY DEF Goto
<1> HIDE DEF f
<1>3. ~Holding(f)
  BY <1>1 DEF Holding
<1> QED BY <1>1, <1>2, <1>3, LevelFreeContinue

LEMMA LevelFreeDebug ==
  ASSUME TypeOK, LockInv, Level, Fits, ~Idle, Top.pc \in {"metacommand", "metawait"},
         NEW l \in {"metasend", "metabusy"}, Debug(l), UNCHANGED <<consumer, lock, log>>
  PROVE  Level'
<1> DEFINE f == [Top EXCEPT !.pc = l]
<1>1. f \in Frame /\ f.pc = l /\ l \in Labels
  BY TopFrame, FrameLabel DEF Labels
<1>2. ~Holding(f)
  BY <1>1 DEF Holding
<1>3. \A u \in Int : HolderOK(f, u, logged, consumer)
  BY <1>2, NotHolding
<1>4. ~Entering(Top)
  BY LevelFree
<1> QED BY <1>1, <1>3, <1>4, LevelDebug

\* The two messages a call prints while it holds the lock.
LEMMA LevelCommand ==
  ASSUME TypeOK, LockInv, Level, Fits, Command
  PROVE  Level'
<1> DEFINE f == [Top EXCEPT !.pc = "send"]
<1>1. ~Idle /\ Top.pc = "command" /\ Debug("send") /\ UNCHANGED <<consumer, lock, log>>
  BY DEF Command, Report, At
<1>2. ~Entering(Top) /\ f.pc = "send" /\ "send" \in Labels
  BY <1>1, TopFrame, FrameLabel DEF Entering, Labels
<1>3. Chunk <= level /\ level <= EntryMax
  BY <1>1, <1>2, TopFacts DEF HolderOK
<1> HIDE DEF f
<1>4. ASSUME NEW u \in Int, level <= u, u <= level + Noise
      PROVE  HolderOK(f, u, logged, consumer)
  <2>1. Chunk <= u /\ u <= EntryMax + Noise
    BY <1>3, <1>4, LevelTypes, FitsFacts, SizeFacts
  <2> QED BY <1>2, <2>1 DEF HolderOK
<1> QED BY <1>1, <1>2, <1>4, LevelDebug DEF f

LEMMA LevelWait ==
  ASSUME TypeOK, LockInv, Level, Fits, Wait
  PROVE  Level'
<1> DEFINE f == [Top EXCEPT !.pc = "busy"]
<1>1. ~Idle /\ Top.pc = "wait" /\ Debug("busy") /\ UNCHANGED <<consumer, lock, log>>
  BY DEF Wait, Report, At
<1>2. ~Entering(Top) /\ f.pc = "busy" /\ "busy" \in Labels
  BY <1>1, TopFrame, FrameLabel DEF Entering, Labels
<1>3. level <= EntryMax + Noise - Chunk
  BY <1>1, <1>2, TopFacts DEF HolderOK
<1> HIDE DEF f
<1>4. ASSUME NEW u \in Int, level <= u, u <= level + Noise
      PROVE  HolderOK(f, u, logged, consumer)
  <2>1. EntryMax + (2 * Noise) - Chunk = Chunk - 1 - (2 * Noise)
    BY FitsFacts
  <2>2. u <= Chunk - 1 - (2 * Noise)
    BY <1>3, <1>4, <2>1, LevelTypes, FitsFacts, SizeFacts
  <2> QED BY <1>2, <2>2 DEF HolderOK
<1> QED BY <1>1, <1>2, <1>4, LevelDebug DEF f

LEMMA LevelFinished ==
  ASSUME TypeOK, LockInv, Level, Finished
  PROVE  Level'
<1> DEFINE f == [Top EXCEPT !.pc = "unlock"]
<1>1. ~Idle /\ Top.pc = "busy" /\ Continue(f) /\ UNCHANGED <<printed, consumer, lock, log>>
  BY DEF Finished, Proceed, At, Goto, OnlyStack
<1>2. f \in Frame /\ f.pc = "unlock"
  BY <1>1, TopFrame, FrameLabel DEF Labels
<1> HIDE DEF f
<1>3. ~Entering(Top) /\ Top.pc # "response" /\ Holding(Top)
  BY <1>1 DEF Entering, Holding
<1>4. HolderOK(Top, level, logged, consumer) /\ 0 <= level /\ consumer = logged % Size
  BY <1>1, <1>3, TopFacts
<1>5. level <= Chunk - 1 - (2 * Noise)
  BY <1>1, <1>4 DEF HolderOK
<1>6. HolderOK(f, level, logged, consumer)
  BY <1>2, <1>5 DEF HolderOK
<1>7. logged' = logged /\ level' = level
  BY <1>1 DEF logged, level
<1>8. level <= Chunk - 1
  BY <1>5, LevelTypes, SizeFacts
<1>9. LogOK(log') /\ printed' = printed /\ 0 <= level' /\ consumer' = logged' % Size
  BY <1>1, <1>4, <1>7 DEF Level
<1> QED BY <1>1, <1>2, <1>3, <1>6, <1>7, <1>8, <1>9, LevelContinue

LEMMA LevelUnlock ==
  ASSUME TypeOK, LockInv, Level, Unlock
  PROVE  Level'
<1> DEFINE f == [Top EXCEPT !.pc = "number"]
<1>1. ~Idle /\ Top.pc = "unlock" /\ Continue(f) /\ UNCHANGED <<printed, consumer, log>>
  BY DEF Unlock, At, Goto
<1>2. f \in Frame /\ f.pc = "number"
  BY <1>1, TopFrame, FrameLabel DEF Labels
<1> HIDE DEF f
<1>3. ~Entering(Top) /\ Top.pc # "response" /\ ~Holding(f)
  BY <1>1, <1>2 DEF Entering, Holding
<1>4. HolderOK(Top, level, logged, consumer) /\ 0 <= level /\ consumer = logged % Size
  BY <1>1, <1>3, TopFacts
<1>5. level <= Chunk - 1
  <2>1. level <= Chunk - 1 - (2 * Noise)
    BY <1>1, <1>4 DEF HolderOK
  <2> QED BY <2>1, LevelTypes, SizeFacts
<1>6. HolderOK(f, level, logged, consumer)
  BY <1>3, NotHolding
<1>7. logged' = logged /\ level' = level
  BY <1>1 DEF logged, level
<1> QED BY <1>1, <1>2, <1>3, <1>4, <1>5, <1>6, <1>7, LevelContinue DEF Level

LEMMA LevelStep ==
  ASSUME TypeOK, LockInv, EarlyInv, Level, [Next]_vars, Calm, Fits
  PROVE  Level'
<1> USE DEF At, Proceed, Report, OnlyStack
<1>1. CASE PrintLine
  BY <1>1, LevelPrintLine
<1>2. CASE RxInterrupt \/ EdgeInterrupt
  BY <1>2 DEF RxInterrupt, EdgeInterrupt, Calm
<1>3. CASE TxInterrupt
  BY <1>3, LevelTx
<1>4. CASE ReadLow
  <2> DEFINE f == [Top EXCEPT !.pc = "high", !.stop = producerIdx % LowRange]
  <2>1. ~Idle /\ Continue(f) /\ Top.pc = "low" /\ UNCHANGED <<printed, consumer, lock, log>>
    BY <1>4 DEF ReadLow
  <2>2. f \in Frame /\ f.pc = "high"
    BY <1>4, <2>1, ReadLowType, TopFrame, FrameLabel DEF Labels
  <2> HIDE DEF f
  <2> QED BY <2>1, <2>2, LevelEntry DEF Entry
<1>5. CASE ReadHigh
  <2> DEFINE f == [Top EXCEPT !.pc = "test",
                              !.stop = Top.stop + (producerIdx - (producerIdx % LowRange))]
  <2>1. ~Idle /\ Continue(f) /\ Top.pc = "high" /\ UNCHANGED <<printed, consumer, lock, log>>
    BY <1>5 DEF ReadHigh
  <2>2. f \in Frame /\ f.pc = "test"
    BY <1>5, <2>1, ReadHighType, TopFrame, FrameLabel DEF Labels
  <2> HIDE DEF f
  <2> QED BY <2>1, <2>2, LevelEntry DEF Entry
<1>6. CASE TestLock
  BY <1>6, LevelTestLock
<1>7. CASE TakeLock
  BY <1>7, LevelTakeLock
<1>8. CASE NoRoom
  BY <1>8, LevelNoRoom
<1>9. CASE Room
  BY <1>9, LevelRoom
<1>10. CASE Command
  BY <1>10, LevelCommand
<1>11. CASE Accept
  BY <1>11, LevelAccept
<1>12. CASE Refuse \/ Rejected \/ TimedOut \/ MetaFails
  BY <1>12 DEF Refuse, Rejected, TimedOut, MetaFails, Calm
<1>13. CASE SendByte
  BY <1>13, LevelSendByte
<1>14. CASE EndData
  BY <1>14, LevelEndData
<1>15. CASE Stored
  BY <1>15, LevelStored
<1>16. CASE Wait
  BY <1>16, LevelWait
<1>17. CASE Finished
  BY <1>17, LevelFinished
<1>18. CASE GiveUp
  <2>1. ~Idle /\ Top.pc = "giveup" /\ ~Entering(Top)
    BY <1>18 DEF GiveUp, Entering
  <2> QED BY <2>1, TopFacts DEF HolderOK
<1>19. CASE Unlock
  BY <1>19, LevelUnlock
<1>20. CASE Due
  BY <1>20, LevelFreeGoto DEF Due
<1>21. CASE MetaCommand \/ MetaWait
  BY <1>21, LevelFreeDebug DEF MetaCommand, MetaWait
<1>22. CASE MetaAccept \/ MetaStored \/ MetaFinished
  BY <1>22, LevelFreeGoto DEF MetaAccept, MetaStored, MetaFinished
<1>23. CASE Done
  <2>1. ~Idle /\ Top.pc = "done" /\ Return /\ UNCHANGED <<printed, consumer, log>>
    BY <1>23 DEF Done
  <2> QED BY <2>1, LevelFree, LevelReturn
<1>24. CASE UNCHANGED vars
  BY <1>24 DEF vars, Level, level, logged
<1> QED
  BY <1>1, <1>2, <1>3, <1>4, <1>5, <1>6, <1>7, <1>8, <1>9, <1>10, <1>11, <1>12, <1>13, <1>14,
     <1>15, <1>16, <1>17, <1>18, <1>19, <1>20, <1>21, <1>22, <1>23, <1>24
     DEF Next, Writer

LEMMA InitLevel == ASSUME Init, ShortBacklog PROVE Level
<1>1. stack = << >> /\ log = << >> /\ consumer = 0 /\ lock = 0 /\ printed \in Backlogs
  BY DEF Init
<1>2. printed \in Nat /\ printed <= MaxBytes /\ printed <= Chunk - 1
  BY <1>1, CircWriterAssumption DEF ShortBacklog
<1>3. logged = 0 /\ level = printed
  BY <1>1, <1>2, SizeFacts DEF logged, level
<1>4. 0 % Size = 0
  BY SizeFacts
<1> QED BY <1>1, <1>2, <1>3, <1>4, SizeFacts DEF Level, LevelOK, LogOK

\* Everything the three theorems below rest on.
WriterInv == TypeOK /\ LockInv /\ EarlyInv /\ Level

LEMMA WriterInvariant ==
  ASSUME Calm, Fits, ShortBacklog
  PROVE  Spec => []WriterInv
<1>1. Init => LockInv /\ EarlyInv /\ Level
  BY InitEarly, InitLevel DEF Init, LockInv, LockOK
<1>2. TypeOK /\ LockInv /\ EarlyInv /\ Level /\ [Next]_vars => LockInv' /\ EarlyInv' /\ Level'
  BY LockStep, EarlyStep, LevelStep DEF Calm
<1>3. TypeOK /\ LockInv /\ EarlyInv /\ Level => WriterInv
  BY DEF WriterInv
<1> QED BY <1>1, <1>2, <1>3, TypeCorrect, PTL DEF Spec

\* NoOverrun for every ring and card, if no handler but the transmitter's interrupts, the
\* card takes what it is offered, and lines and messages are as short as Fits says:
\* what a call finds when it takes the lock is less than a block and one line or message,
\* and grows by one message until the block is on the card.
THEOREM RingNeverLaps == Calm /\ Fits /\ ShortBacklog => (Spec => []NoOverrun)
<1> SUFFICES ASSUME Calm, Fits, ShortBacklog PROVE Spec => []NoOverrun
  OBVIOUS
<1>1. WriterInv => NoOverrun
  <2> SUFFICES ASSUME WriterInv PROVE level <= Size
    BY DEF NoOverrun, level, logged
  <2> USE DEF WriterInv
  <2>1. EntryMax + Noise < Size /\ EntryMax \in Nat /\ Noise \in Nat /\ Chunk \in Nat
        /\ Size \in Nat /\ level \in Int /\ Chunk - 1 <= EntryMax
    BY FitsFacts, SizeFacts, LevelTypes
  <2>2. CASE lock = 0
    <3>1. level <= Chunk - 1 \/ level <= EntryMax
      BY <2>2 DEF Level, LevelOK
    <3> QED BY <2>1, <3>1
  <2>3. CASE lock = 1
    <3>1. PICK j \in 1 .. Len(stack) : Holding(stack[j])
      BY <2>3 DEF LockInv, LockOK
    <3>2. HolderOK(stack[j], level, logged, consumer)
      BY DEF Level, LevelOK
    <3>3. \/ level <= EntryMax \/ level <= EntryMax + Noise
          \/ level <= EntryMax + Noise - Chunk \/ level <= Chunk - 1 - 2 * Noise
      BY <3>1, <3>2 DEF Holding, HolderOK
    <3> QED BY <2>1, <3>3
  <2> QED BY <2>2, <2>3 DEF TypeOK
<1> QED BY <1>1, WriterInvariant, PTL

-----------------------------------------------------------------------------
(* The writer implements ByteLog.                                          *)

\* The bytes on the card.
Out == [k \in 1 .. Chunk * Len(log) |-> ByteOnCard(k)]

\* They are the first of the stream.
LEMMA OutIs ==
  ASSUME TypeOK, LogOK(log)
  PROVE  Out = [k \in 1 .. logged |-> k]
<1>1. ASSUME NEW k \in 1 .. logged PROVE ByteOnCard(k) = k
  <2> DEFINE x == k - 1
             q == x \div Chunk
             r == x % Chunk
  <2>1. x \in Nat /\ x < logged /\ k = x + 1
    BY LevelTypes
  <2>2. q \in Nat /\ r \in 0 .. Chunk - 1 /\ x = (Chunk * q) + r
    <3> HIDE DEF x
    <3>1. Chunk \in Nat \ {0}
      BY SizeFacts
    <3> QED BY <2>1, <3>1
  <2>3. q < Len(log)
    <3> HIDE DEF x, q, r
    <3>1. Chunk * q < Chunk * Len(log)
      BY <2>1, <2>2, SizeFacts DEF logged
    <3> DEFINE n == Len(log)
    <3>2. n \in Nat /\ Chunk \in Nat \ {0}
      BY LevelTypes, SizeFacts
    <3> HIDE DEF n
    <3>3. Chunk * q < Chunk * n
      BY <3>1 DEF n
    <3>4. ASSUME q >= n PROVE Chunk * q >= Chunk * n
      BY <2>2, <3>2, <3>4
    <3>5. ~(q >= n)
      <4>1. Chunk * q \in Nat /\ Chunk * n \in Nat
        BY <2>2, <3>2
      <4> QED BY <3>3, <3>4, <4>1
    <3> QED BY <2>2, <3>2, <3>5 DEF n
  <2>4. log[q + 1][1 + r] = (Chunk * q) + (1 + r)
    <3> HIDE DEF x, q, r
    <3>1. q + 1 \in 1 .. Len(log) /\ 1 + r \in 1 .. Chunk /\ (q + 1) - 1 = q
      BY <2>2, <2>3, LevelTypes, SizeFacts
    <3> QED BY <3>1 DEF LogOK
  <2>5. ByteOnCard(k) = log[q + 1][1 + r]
    <3>1. 1 + q = q + 1
      BY <2>2
    <3> QED BY <3>1 DEF ByteOnCard
  <2>6. (Chunk * q) + (1 + r) = k
    <3> DEFINE z == Chunk * q
    <3>1. z \in Nat
      BY <2>2, SizeFacts
    <3> HIDE DEF z, q, r, x
    <3> QED BY <2>1, <2>2, <3>1 DEF z
  <2> QED BY <2>4, <2>5, <2>6
<1> QED BY <1>1 DEF Out, logged

\* All other steps leave the card alone; some print.
LEMMA NotStored ==
  ASSUME TypeOK, Level, [Next]_vars, ~Stored
  PROVE  log' = log /\ printed' \in Nat /\ printed <= printed'
<1>1. /\ printed \in Nat /\ Capped(Noise) \in Nat
      /\ \A n \in Lines : n \in Nat
  <2>1. printed \in Nat /\ printed <= MaxBytes
    BY DEF TypeOK, Level
  <2> QED BY <2>1, SizeFacts DEF Capped
<1> USE DEF OnlyStack, Proceed, Report, Debug
<1>2. CASE PrintLine \/ RxInterrupt \/ TxInterrupt \/ EdgeInterrupt
  BY <1>1, <1>2 DEF PrintLine, RxInterrupt, TxInterrupt, EdgeInterrupt
<1>3. CASE ReadLow \/ ReadHigh \/ TestLock \/ TakeLock \/ NoRoom \/ Room
  BY <1>1, <1>3 DEF ReadLow, ReadHigh, TestLock, TakeLock, NoRoom, Room
<1>4. CASE Command \/ Accept \/ Refuse \/ SendByte \/ EndData \/ Rejected
  BY <1>1, <1>4 DEF Command, Accept, Refuse, SendByte, EndData, Rejected
<1>5. CASE Wait \/ Finished \/ TimedOut \/ GiveUp
  BY <1>1, <1>5 DEF Wait, Finished, TimedOut, GiveUp
<1>6. CASE Unlock \/ Due \/ Done
  BY <1>1, <1>6 DEF Unlock, Due, Done
<1>7. CASE MetaCommand \/ MetaAccept \/ MetaFails \/ MetaStored \/ MetaWait \/ MetaFinished
  BY <1>1, <1>7 DEF MetaCommand, MetaAccept, MetaFails, MetaStored, MetaWait, MetaFinished
<1>8. CASE UNCHANGED vars
  BY <1>1, <1>8 DEF vars
<1> QED BY <1>2, <1>3, <1>4, <1>5, <1>6, <1>7, <1>8 DEF Next, Writer

\* The card takes a block: the next Chunk bytes of the stream, all printed.
LEMMA StoredTakes ==
  ASSUME TypeOK, TypeOK', LockInv, Level, Stored
  PROVE  /\ Len(Out) + Chunk <= printed /\ printed' = printed
         /\ Out' = Out \o [i \in 1 .. Chunk |-> Len(Out) + i]
<1>1. /\ logged' = logged + Chunk /\ Chunk <= level /\ LogOK(log') /\ printed' = printed
  BY StoredFacts
<1>2. Out = [k \in 1 .. logged |-> k] /\ Len(Out) = logged /\ logged \in Nat
  BY OutIs, LevelTypes DEF Level
<1>3. Out' = [k \in 1 .. logged' |-> k]
  <2>1. (TypeOK /\ LogOK(log) => Out = [k \in 1 .. logged |-> k])'
    BY OutIs, PTL
  <2> QED BY <1>1, <2>1
<1>4. Len(Out) + Chunk <= printed
  BY <1>1, <1>2, LevelTypes, SizeFacts
<1>5. [k \in 1 .. logged + Chunk |-> k] = [k \in 1 .. logged |-> k] \o [i \in 1 .. Chunk |-> logged + i]
  <2>1. logged \in Nat /\ Chunk \in Nat
    BY <1>2, SizeFacts
  <2> QED BY <2>1
<1> QED BY <1>1, <1>2, <1>3, <1>4, <1>5

LEMMA Increase ==
  ASSUME NEW a \in Nat, NEW b \in Nat, NEW m \in Nat, a <= b, b # a, b <= m
  PROVE  b - a \in 1 .. m - a /\ b = a + (b - a)
OBVIOUS

\* The card receives the stream of printed bytes, each once and in order, for every ring
\* and card: printing puts, the end of a block takes, every other step stutters.
THEOREM WriterImplementsLog == Calm /\ Fits /\ ShortBacklog => (Spec => LogIsStream)
<1> SUFFICES ASSUME Calm, Fits, ShortBacklog PROVE Spec => LogIsStream
  OBVIOUS
<1>1. Init => Logged!Init
  <2> SUFFICES ASSUME Init PROVE printed \in 0 .. MaxBytes /\ Out = << >>
    BY DEF Logged!Init, Out
  <2>1. printed \in 0 .. MaxBytes /\ log = << >>
    BY CircWriterAssumption DEF Init
  <2>2. Chunk * Len(log) = 0
    BY <2>1, SizeFacts
  <2>3. Out = << >>
    BY <2>2 DEF Out
  <2> QED BY <2>1, <2>3
<1>2. WriterInv /\ WriterInv' /\ [Next]_vars => [Logged!Next]_<<printed, Out>>
  <2> SUFFICES ASSUME WriterInv, WriterInv', [Next]_vars
               PROVE  [Logged!Next]_<<printed, Out>>
    OBVIOUS
  <2>1. CASE Stored
    <3>1. Logged!Take
      BY <2>1, StoredTakes DEF WriterInv, Logged!Take, Out
    <3> QED BY <3>1 DEF Logged!Next
  <2>2. CASE ~Stored
    <3>1. log' = log /\ printed' \in Nat /\ printed <= printed' /\ printed \in Nat
      BY <2>2, NotStored DEF WriterInv, TypeOK
    <3>2. Out' = Out
      BY <3>1 DEF Out, ByteOnCard
    <3>3. printed' <= MaxBytes
      BY DEF WriterInv, Level
    <3>4. CASE printed' = printed
      BY <3>2, <3>4
    <3>5. CASE printed' # printed
      <4>1. MaxBytes \in Nat
        BY SizeFacts
      <4>2. printed' - printed \in 1 .. MaxBytes - printed
            /\ printed' = printed + (printed' - printed)
        BY <3>1, <3>3, <3>5, <4>1, Increase
      <4>3. Logged!Put
        BY <3>2, <4>2 DEF Logged!Put, Out
      <4> QED BY <4>3 DEF Logged!Next
    <3> QED BY <3>4, <3>5
  <2> QED BY <2>1, <2>2
<1>3. (Logged!Init /\ [][Logged!Next]_<<printed, Out>>) => LogIsStream
  BY DEF LogIsStream, Logged!Spec, Out
<1> QED BY <1>1, <1>2, <1>3, WriterInvariant, PTL DEF Spec

-----------------------------------------------------------------------------
(* No overlap: what a call that has released the lock, and the calls above *)
(* it, know of the level.                                                  *)

\* Before a call has found a block to write.
Passing(f) == f.pc \in {"low", "high", "test", "lock", "room"}

\* Where the call f that has released the lock stands, u bytes are not on the card: it
\* may still print two messages, or one, before that is a block.
FinishOK(f, u) ==
  /\ f.pc \in {"number", "metacommand"} => u <= Chunk - 1 - 2 * Noise
  /\ f.pc \in {"metasend", "metadata", "metawait"} => u <= Chunk - 1 - Noise
  /\ f.pc \in {"metabusy", "done"} => u <= Chunk - 1

\* Above it there are only calls that find less than a block, or the lock set.
OverlapOK(s, u) ==
  /\ \A j \in 1 .. Len(s) : FinishOK(s[j], u)
  /\ \A i, j \in 1 .. Len(s) : i < j /\ Finishing(s[i]) => Passing(s[j])

OverlapInv == OverlapOK(stack, level)

LEMMA FinishFree ==
  ASSUME NEW f, ~Finishing(f), NEW u
  PROVE  FinishOK(f, u)
BY DEF Finishing, FinishOK

LEMMA FinishLess ==
  ASSUME NEW f, Finishing(f), NEW u \in Int, FinishOK(f, u)
  PROVE  u <= Chunk - 1
BY SizeFacts DEF Finishing, FinishOK

LEMMA PassingIs ==
  ASSUME NEW f, Passing(f)
  PROVE  ~Finishing(f)
BY DEF Passing, Finishing

LEMMA OverlapPush ==
  ASSUME NEW s \in Seq(Frame), NEW u, OverlapOK(s, u), NEW f \in Frame, Passing(f)
  PROVE  OverlapOK(Append(s, f), u)
<1> DEFINE r == Append(s, f)
<1>1. /\ Len(r) = Len(s) + 1 /\ Len(s) \in Nat /\ r[Len(s) + 1] = f
      /\ \A j \in 1 .. Len(s) : r[j] = s[j]
  BY Pushed
<1>2. ~Finishing(f) /\ FinishOK(f, u)
  BY PassingIs, FinishFree
<1> HIDE DEF r
<1>3. \A j \in 1 .. Len(r) : FinishOK(r[j], u)
  BY <1>1, <1>2 DEF OverlapOK
<1>4. \A i, j \in 1 .. Len(r) : i < j /\ Finishing(r[i]) => Passing(r[j])
  BY <1>1, <1>2 DEF OverlapOK
<1>5. OverlapOK(r, u)
  BY <1>3, <1>4 DEF OverlapOK
<1> QED BY <1>5 DEF r

LEMMA OverlapMove ==
  ASSUME NEW s \in Seq(Frame), s # << >>, NEW u, OverlapOK(s, u),
         NEW f \in Frame, Passing(f), Passing(s[Len(s)])
  PROVE  OverlapOK([s EXCEPT ![Len(s)] = f], u)
<1> DEFINE r == [s EXCEPT ![Len(s)] = f]
<1>1. /\ Len(r) = Len(s) /\ Len(s) \in Nat \ {0} /\ r[Len(s)] = f
      /\ \A j \in 1 .. Len(s) - 1 : r[j] = s[j]
  BY Replaced, NotIdle
<1>2. ~Finishing(f) /\ FinishOK(f, u)
  BY PassingIs, FinishFree
<1> HIDE DEF r
<1>3. \A j \in 1 .. Len(r) : FinishOK(r[j], u)
  BY <1>1, <1>2 DEF OverlapOK
<1>4. \A i, j \in 1 .. Len(r) : i < j /\ Finishing(r[i]) => Passing(r[j])
  BY <1>1, <1>2 DEF OverlapOK
<1>5. OverlapOK(r, u)
  BY <1>3, <1>4 DEF OverlapOK
<1> QED BY <1>5 DEF r

LEMMA OverlapPop ==
  ASSUME NEW s \in Seq(Frame), s # << >>, NEW u, OverlapOK(s, u)
  PROVE  OverlapOK([j \in 1 .. Len(s) - 1 |-> s[j]], u)
<1> DEFINE r == [j \in 1 .. Len(s) - 1 |-> s[j]]
<1>1. /\ Len(r) = Len(s) - 1 /\ Len(s) \in Nat \ {0}
      /\ \A j \in 1 .. Len(r) : r[j] = s[j]
  BY Popped, NotIdle
<1> HIDE DEF r
<1>2. \A j \in 1 .. Len(r) : FinishOK(r[j], u)
  BY <1>1 DEF OverlapOK
<1>3. \A i, j \in 1 .. Len(r) : i < j /\ Finishing(r[i]) => Passing(r[j])
  BY <1>1 DEF OverlapOK
<1>4. OverlapOK(r, u)
  BY <1>2, <1>3 DEF OverlapOK
<1> QED BY <1>4 DEF r

\* No call below the top one has released the lock and not returned.
Quiet(s) == \A j \in 1 .. Len(s) - 1 : ~Finishing(s[j])

LEMMA OverlapAct ==
  ASSUME NEW s \in Seq(Frame), s # << >>, Quiet(s), NEW f \in Frame, NEW u, FinishOK(f, u)
  PROVE  OverlapOK([s EXCEPT ![Len(s)] = f], u)
<1> DEFINE r == [s EXCEPT ![Len(s)] = f]
<1>1. /\ Len(r) = Len(s) /\ Len(s) \in Nat \ {0} /\ r[Len(s)] = f
      /\ \A j \in 1 .. Len(s) - 1 : r[j] = s[j]
  BY Replaced, NotIdle
<1> HIDE DEF r
<1>2. \A j \in 1 .. Len(r) : FinishOK(r[j], u)
  BY <1>1, FinishFree DEF Quiet
<1>3. \A i, j \in 1 .. Len(r) : i < j => ~Finishing(r[i])
  BY <1>1 DEF Quiet
<1>4. OverlapOK(r, u)
  BY <1>2, <1>3 DEF OverlapOK
<1> QED BY <1>4 DEF r

\* What is known when the top call acts, past the test for a block.
LEMMA TopOverlap ==
  ASSUME TypeOK, OverlapInv, ~Idle, ~Passing(Top)
  PROVE  /\ Top \in Frame /\ stack \in Seq(Frame) /\ stack # << >> /\ Quiet(stack)
         /\ FinishOK(Top, level)
<1>1. stack \in Seq(Frame) /\ stack # << >> /\ Top \in Frame /\ Len(stack) \in Nat \ {0}
  BY TopFrame, NotIdle DEF TypeOK, Idle
<1>2. \A j \in 1 .. Len(stack) - 1 : ~Finishing(stack[j])
  BY <1>1 DEF OverlapInv, OverlapOK, Top
<1>3. FinishOK(Top, level)
  BY <1>1 DEF OverlapInv, OverlapOK, Top
<1> QED BY <1>1, <1>2, <1>3 DEF Quiet

\* The top call goes on as f.
LEMMA OverlapContinue ==
  ASSUME TypeOK, OverlapInv, ~Idle, ~Passing(Top), NEW f \in Frame, Continue(f),
         FinishOK(f, level')
  PROVE  OverlapInv'
<1> DEFINE u == level'
<1> HIDE DEF u
<1>1. OverlapOK([stack EXCEPT ![Len(stack)] = f], u)
  BY TopOverlap, OverlapAct DEF u
<1> QED BY <1>1 DEF Continue, OverlapInv, u

LEMMA OverlapGoto ==
  ASSUME TypeOK, OverlapInv, ~Idle, ~Passing(Top), NEW l \in Labels, Goto(l),
         FinishOK([Top EXCEPT !.pc = l], level')
  PROVE  OverlapInv'
<1>1. [Top EXCEPT !.pc = l] \in Frame
  BY TopFrame
<1> QED BY <1>1, OverlapContinue DEF Goto

\* It prints a message and goes on at l.
LEMMA OverlapDebug ==
  ASSUME TypeOK, Level, OverlapInv, ~Idle, ~Passing(Top), NEW l \in Labels, Debug(l),
         log' = log,
         \A u \in Int : level <= u /\ u <= level + Noise => FinishOK([Top EXCEPT !.pc = l], u)
  PROVE  OverlapInv'
<1> DEFINE f == [Top EXCEPT !.pc = l]
           g == Call(Top.by, "printf")
           s == [stack EXCEPT ![Len(stack)] = f]
           u == level'
<1>1. stack \in Seq(Frame) /\ stack # << >> /\ Top \in Frame /\ Quiet(stack)
  BY TopOverlap
<1>2. f \in Frame /\ g \in Frame /\ g.pc = "low"
  BY <1>1, TopFrame, NewCall DEF Frame
<1>3. stack' = Append(s, g)
  BY DEF Debug, Top
<1>4. FinishOK(f, u)
  BY DebugLevel
<1> HIDE DEF f, g, u
<1>5. s \in Seq(Frame) /\ OverlapOK(s, u)
  BY <1>1, <1>2, <1>4, OverlapAct, Replaced
<1> HIDE DEF s
<1>6. OverlapOK(stack', u)
  BY <1>2, <1>3, <1>5, OverlapPush DEF Passing
<1> QED BY <1>6 DEF OverlapInv, u

\* It returns.
LEMMA OverlapReturn ==
  ASSUME TypeOK, OverlapInv, ~Idle, Return, UNCHANGED <<printed, log>>
  PROVE  OverlapInv'
<1>1. level' = level
  BY DEF level, logged
<1>2. OverlapOK(stack', level)
  BY OverlapPop DEF TypeOK, Idle, OverlapInv, Return
<1> QED BY <1>1, <1>2 DEF OverlapInv

\* It is still on its way to the test for a block.
LEMMA OverlapPass ==
  ASSUME TypeOK, OverlapInv, ~Idle, NEW f \in Frame, Continue(f), Passing(f), Passing(Top),
         UNCHANGED <<printed, log>>
  PROVE  OverlapInv'
<1>1. level' = level
  BY DEF level, logged
<1>2. OverlapOK(stack', level)
  BY OverlapMove DEF TypeOK, Idle, OverlapInv, Continue, Top
<1> QED BY <1>1, <1>2 DEF OverlapInv

\* A call that goes on to write finds a block, and so none that has released the lock.
LEMMA OverlapRoom ==
  ASSUME WriterInv, OverlapInv, Fits, Room
  PROVE  OverlapInv'
<1> USE DEF WriterInv
<1> DEFINE f == [Top EXCEPT !.pc = "command"]
<1>1. At("room") /\ Continue(f) /\ UNCHANGED <<printed, log>>
  BY DEF Room, Goto, OnlyStack
<1>2. ~Idle /\ Available(Top.stop) = level /\ level \in Int
  BY <1>1, LevelAtRoom, LevelTypes
<1>3. f \in Frame /\ f.pc = "command"
  BY <1>2, TopFrame, FrameLabel DEF Labels
<1> HIDE DEF f
<1>4. ~(level <= Chunk - 1)
  BY <1>2, SizeFacts DEF Room
<1>5. stack \in Seq(Frame) /\ stack # << >> /\ Len(stack) \in Nat \ {0}
  BY <1>2, NotIdle DEF TypeOK, Idle
<1>6. Quiet(stack)
  <2> SUFFICES ASSUME NEW j \in 1 .. Len(stack) - 1 PROVE ~Finishing(stack[j])
    BY DEF Quiet
  <2>1. FinishOK(stack[j], level)
    BY <1>5 DEF OverlapInv, OverlapOK
  <2> QED BY <1>2, <1>4, <2>1, FinishLess
<1>7. FinishOK(f, level)
  BY <1>3, FinishFree DEF Finishing
<1>8. OverlapOK(stack', level)
  BY <1>1, <1>3, <1>5, <1>6, <1>7, OverlapAct DEF Continue
<1>9. level' = level
  BY <1>1 DEF level, logged
<1> QED BY <1>8, <1>9 DEF OverlapInv

\* The lock is free again, with two messages less than a block to write.
LEMMA OverlapUnlock ==
  ASSUME WriterInv, OverlapInv, Unlock
  PROVE  OverlapInv'
<1> USE DEF WriterInv
<1> DEFINE f == [Top EXCEPT !.pc = "number"]
<1>1. ~Idle /\ Top.pc = "unlock" /\ Goto("number") /\ UNCHANGED <<printed, log>>
  BY DEF Unlock, At
<1>2. f.pc = "number" /\ ~Passing(Top) /\ ~Entering(Top) /\ "number" \in Labels
  BY <1>1, TopFrame, FrameLabel DEF Labels, Passing, Entering
<1>3. level <= Chunk - 1 - (2 * Noise)
  BY <1>1, <1>2, TopFacts DEF HolderOK
<1>4. level' = level
  BY <1>1 DEF level, logged
<1> HIDE DEF f
<1>5. FinishOK(f, level')
  BY <1>2, <1>3, <1>4 DEF FinishOK
<1> QED BY <1>1, <1>2, <1>5, OverlapGoto DEF f

\* After that it goes on with the same level.
LEMMA OverlapRest ==
  ASSUME TypeOK, OverlapInv, ~Idle, NEW l \in Labels, Goto(l), UNCHANGED <<printed, log>>,
         \/ Top.pc = "number" /\ l \in {"metacommand", "done"}
         \/ Top.pc = "metasend" /\ l = "metadata"
         \/ Top.pc = "metadata" /\ l = "metawait"
         \/ Top.pc = "metabusy" /\ l = "done"
  PROVE  OverlapInv'
<1> DEFINE f == [Top EXCEPT !.pc = l]
<1>1. f.pc = l /\ ~Passing(Top)
  BY TopFrame, FrameLabel DEF Passing
<1>2. FinishOK(Top, level) /\ level \in Int /\ Noise \in Nat /\ Chunk \in Nat
  BY <1>1, TopOverlap, LevelTypes, SizeFacts
<1>3. level' = level
  BY DEF level, logged
<1> HIDE DEF f
<1>4. FinishOK(f, level')
  BY <1>1, <1>2, <1>3 DEF FinishOK
<1> QED BY <1>1, <1>4, OverlapGoto DEF f

\* A message of sdcard_write_metadata.
LEMMA OverlapRestDebug ==
  ASSUME TypeOK, Level, OverlapInv, ~Idle, NEW l \in Labels, Debug(l), log' = log,
         \/ Top.pc = "metacommand" /\ l = "metasend"
         \/ Top.pc = "metawait" /\ l = "metabusy"
  PROVE  OverlapInv'
<1> DEFINE f == [Top EXCEPT !.pc = l]
<1>1. f.pc = l /\ ~Passing(Top)
  BY TopFrame, FrameLabel DEF Passing
<1>2. FinishOK(Top, level) /\ level \in Int /\ Noise \in Nat /\ Chunk \in Nat
  BY <1>1, TopOverlap, LevelTypes, SizeFacts
<1> HIDE DEF f
<1>3. ASSUME NEW u \in Int, level <= u, u <= level + Noise PROVE FinishOK(f, u)
  BY <1>1, <1>2, <1>3 DEF FinishOK
<1> QED BY <1>1, <1>3, OverlapDebug DEF f

\* While it writes nothing is claimed of the level.
LEMMA OverlapWrite ==
  ASSUME TypeOK, OverlapInv, ~Idle, Writing(Top), NEW f \in Frame, Continue(f), Writing(f)
  PROVE  OverlapInv'
<1>1. ~Passing(Top) /\ ~Finishing(f)
  BY DEF Writing, Passing, Finishing
<1> QED BY <1>1, FinishFree, OverlapContinue

LEMMA OverlapWriteGoto ==
  ASSUME TypeOK, OverlapInv, ~Idle, Writing(Top), NEW l \in Labels, Goto(l),
         l \in {"response", "wait", "unlock"}
  PROVE  OverlapInv'
<1> DEFINE f == [Top EXCEPT !.pc = l]
<1>1. f \in Frame /\ f.pc = l
  BY TopFrame, FrameLabel
<1>2. Continue(f)
  BY DEF Goto
<1> HIDE DEF f
<1> QED BY <1>1, <1>2, OverlapWrite DEF Writing

LEMMA OverlapWriteDebug ==
  ASSUME TypeOK, Level, OverlapInv, ~Idle, Writing(Top), NEW l \in Labels, Debug(l),
         log' = log, l \in {"send", "busy"}
  PROVE  OverlapInv'
<1> DEFINE f == [Top EXCEPT !.pc = l]
<1>1. f.pc = l /\ ~Passing(Top)
  BY TopFrame, FrameLabel DEF Passing, Writing
<1> HIDE DEF f
<1>2. ~Finishing(f)
  BY <1>1 DEF Finishing
<1> QED BY <1>1, <1>2, FinishFree, OverlapDebug DEF f

LEMMA OverlapPrintLine ==
  ASSUME PrintLine
  PROVE  OverlapInv'
<1> DEFINE f == Call("main", "printf")
           u == level'
<1>1. f \in Frame /\ f.pc = "low" /\ stack' = <<f>>
  BY NewCall DEF PrintLine
<1> HIDE DEF f, u
<1>2. ~Finishing(f) /\ Passing(f) /\ \A j \in 1 .. Len(stack') : stack'[j] = f
  BY <1>1 DEF Finishing, Passing
<1>3. OverlapOK(stack', u)
  BY <1>2, FinishFree DEF OverlapOK
<1> QED BY <1>3 DEF OverlapInv, u

LEMMA OverlapTx ==
  ASSUME TypeOK, OverlapInv, TxInterrupt
  PROVE  OverlapInv'
<1> DEFINE f == Call("isr", "irq")
<1>1. f \in Frame /\ f.pc = "low" /\ stack' = Append(stack, f) /\ UNCHANGED <<printed, log>>
  BY NewCall DEF TxInterrupt, OnlyStack
<1>2. level' = level
  BY <1>1 DEF level, logged
<1> HIDE DEF f
<1>3. OverlapOK(stack', level)
  BY <1>1, OverlapPush DEF TypeOK, OverlapInv, Passing
<1> QED BY <1>2, <1>3 DEF OverlapInv

LEMMA OverlapEntry ==
  ASSUME TypeOK, OverlapInv, ReadLow \/ ReadHigh \/ TestLock \/ TakeLock
  PROVE  OverlapInv'
<1> USE DEF At, OnlyStack
<1>1. CASE ReadLow
  <2> DEFINE f == [Top EXCEPT !.pc = "high", !.stop = producerIdx % LowRange]
  <2>1. ~Idle /\ Continue(f) /\ Top.pc = "low" /\ UNCHANGED <<printed, log>>
    BY <1>1 DEF ReadLow
  <2>2. f \in Frame /\ f.pc = "high"
    BY <1>1, <2>1, ReadLowType, TopFrame, FrameLabel DEF Labels
  <2> HIDE DEF f
  <2> QED BY <2>1, <2>2, OverlapPass DEF Passing
<1>2. CASE ReadHigh
  <2> DEFINE f == [Top EXCEPT !.pc = "test",
                              !.stop = Top.stop + (producerIdx - (producerIdx % LowRange))]
  <2>1. ~Idle /\ Continue(f) /\ Top.pc = "high" /\ UNCHANGED <<printed, log>>
    BY <1>2 DEF ReadHigh
  <2>2. f \in Frame /\ f.pc = "test"
    BY <1>2, <2>1, ReadHighType, TopFrame, FrameLabel DEF Labels
  <2> HIDE DEF f
  <2> QED BY <2>1, <2>2, OverlapPass DEF Passing
<1>3. CASE TestLock
  <2>1. ~Idle /\ Top.pc = "test" /\ UNCHANGED <<printed, log>>
    BY <1>3 DEF TestLock
  <2>2. CASE lock = 1
    BY <1>3, <2>1, <2>2, OverlapReturn DEF TestLock
  <2>3. CASE lock # 1
    <3> DEFINE f == [Top EXCEPT !.pc = "lock"]
    <3>1. Continue(f)
      BY <1>3, <2>3 DEF TestLock, Goto
    <3>2. f \in Frame /\ f.pc = "lock"
      BY <2>1, TopFrame, FrameLabel DEF Labels
    <3> HIDE DEF f
    <3> QED BY <2>1, <3>1, <3>2, OverlapPass DEF Passing
  <2> QED BY <2>2, <2>3
<1>4. CASE TakeLock
  <2> DEFINE f == [Top EXCEPT !.pc = "room"]
  <2>1. ~Idle /\ Top.pc = "lock" /\ UNCHANGED <<printed, log>> /\ Continue(f)
    BY <1>4 DEF TakeLock, Goto
  <2>2. f \in Frame /\ f.pc = "room"
    BY <2>1, TopFrame, FrameLabel DEF Labels
  <2> HIDE DEF f
  <2> QED BY <2>1, <2>2, OverlapPass DEF Passing
<1> QED BY <1>1, <1>2, <1>3, <1>4

LEMMA OverlapStep ==
  ASSUME WriterInv, OverlapInv, [Next]_vars, Calm, Fits
  PROVE  OverlapInv'
<1> USE DEF WriterInv, At, Proceed, Report, OnlyStack
<1>1. CASE PrintLine
  BY <1>1, OverlapPrintLine
<1>2. CASE RxInterrupt \/ EdgeInterrupt
  BY <1>2 DEF RxInterrupt, EdgeInterrupt, Calm
<1>3. CASE TxInterrupt
  BY <1>3, OverlapTx
<1>4. CASE ReadLow \/ ReadHigh \/ TestLock \/ TakeLock
  BY <1>4, OverlapEntry
<1>5. CASE NoRoom \/ GiveUp \/ Done
  BY <1>5, OverlapReturn DEF NoRoom, GiveUp, Done
<1>6. CASE Room
  BY <1>6, OverlapRoom
<1>7. CASE Command \/ Wait
  BY <1>7, OverlapWriteDebug DEF Command, Wait, Writing, Labels
<1>8. CASE Accept
  <2> DEFINE f == [Top EXCEPT !.pc = "data", !.data = << >>]
  <2>1. ~Idle /\ Continue(f) /\ Top.pc = "send"
    BY <1>8 DEF Accept
  <2>2. f \in Frame /\ f.pc = "data"
    BY <1>8, <2>1, AcceptType, TopFrame, FrameLabel DEF Labels
  <2> HIDE DEF f
  <2> QED BY <2>1, <2>2, OverlapWrite DEF Writing
<1>9. CASE Refuse \/ Rejected \/ TimedOut \/ MetaFails
  BY <1>9 DEF Refuse, Rejected, TimedOut, MetaFails, Calm
<1>10. CASE SendByte
  <2> DEFINE f == [Top EXCEPT !.data = Append(Top.data, Cell((Len(Top.data) + consumer) % Size))]
  <2>1. ~Idle /\ Continue(f) /\ Top.pc = "data"
    BY <1>10 DEF SendByte
  <2>2. f \in Frame /\ f.pc = "data"
    BY <1>10, <2>1, SendByteType, TopFrame, FrameLabel DEF Labels
  <2> HIDE DEF f
  <2> QED BY <2>1, <2>2, OverlapWrite DEF Writing
<1>11. CASE EndData \/ Stored \/ Finished
  BY <1>11, OverlapWriteGoto DEF EndData, Stored, Finished, Writing, Labels
<1>12. CASE Unlock
  BY <1>12, OverlapUnlock
<1>13. CASE Due
  BY <1>13, OverlapRest DEF Due, Labels
<1>14. CASE MetaAccept \/ MetaStored \/ MetaFinished
  BY <1>14, OverlapRest DEF MetaAccept, MetaStored, MetaFinished, Labels
<1>15. CASE MetaCommand \/ MetaWait
  BY <1>15, OverlapRestDebug DEF MetaCommand, MetaWait, Labels
<1>16. CASE UNCHANGED vars
  BY <1>16 DEF vars, OverlapInv, level, logged
<1> QED
  BY <1>1, <1>2, <1>3, <1>4, <1>5, <1>6, <1>7, <1>8, <1>9, <1>10, <1>11, <1>12, <1>13, <1>14,
     <1>15, <1>16 DEF Next, Writer

\* NoOverlap for every ring, under the hypotheses of RingNeverLaps: a call that has released
\* the lock leaves so little unwritten that neither the transmitter's handler nor its own
\* messages bring it to a block before the call is done.
THEOREM CallsDoNotOverlap == Calm /\ Fits /\ ShortBacklog => (Spec => []NoOverlap)
<1> SUFFICES ASSUME Calm, Fits, ShortBacklog PROVE Spec => []NoOverlap
  OBVIOUS
<1>1. Init => OverlapInv
  BY DEF Init, OverlapInv, OverlapOK
<1>2. WriterInv /\ OverlapInv /\ [Next]_vars => OverlapInv'
  BY OverlapStep
<1>3. WriterInv /\ OverlapInv => NoOverlap
  <2> SUFFICES ASSUME WriterInv, OverlapInv,
                      NEW i \in 1 .. Len(stack), NEW j \in 1 .. Len(stack),
                      Finishing(stack[i]), Writing(stack[j])
               PROVE  FALSE
    BY DEF NoOverlap
  <2>1. ~Passing(stack[j]) /\ ~Entering(stack[i]) /\ Holding(stack[j]) /\ ~Writing(stack[i])
    BY DEF Passing, Entering, Holding, Writing, Finishing
  <2>2. ~(i < j)
    BY <2>1 DEF OverlapInv, OverlapOK
  <2>3. ~(j < i)
    BY <2>1 DEF WriterInv, LockInv, LockOK
  <2>4. i \in Nat /\ j \in Nat /\ i # j
    BY <2>1 DEF WriterInv, TypeOK
  <2> QED BY <2>2, <2>3, <2>4
<1> QED BY <1>1, <1>2, <1>3, WriterInvariant, PTL DEF Spec
=============================================================================
