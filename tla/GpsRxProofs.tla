----------------------------- MODULE GpsRxProofs ------------------------------
(***************************************************************************)
(* Proofs about the receiver of GPS sentences, for every size of the line  *)
(* buffer, depth of the receiver and stream of bytes.                      *)
(***************************************************************************)
EXTENDS GpsRx, SequenceTheorems, FiniteSetTheorems, TLAPS

\* The receiver is emptied from its oldest byte, so the newest is the last to go, and
\* what was taken is older than what waits.
Newest == waiting # {} => sent \in waiting
InOrder == \A n \in 1 .. sent : Taken(n) => \A byte \in waiting : n < byte

\* The line buffer holds the beginning of a sentence, if it was not damaged, up to
\* the newest byte taken.
LineBegun ==
  \A first \in 1 .. sent + 1 : \A last \in first - 1 .. sent :
    /\ first = 1 \/ (first - 1 \in feeds /\ Taken(first - 1))
    /\ \A n \in first .. last : Taken(n) /\ n \notin feeds
    /\ \A n \in last + 1 .. sent : ~Taken(n)
    /\ last < first + BufferSize - 1
    => line = Run(first, last)

\* A byte that waits is not lost.
Apart == waiting \cap lost = {}

Receiver == TypeOK /\ Newest /\ InOrder /\ Apart
Inv == Receiver /\ LineBegun /\ SentencesWhole

-----------------------------------------------------------------------------

LEMMA SeqMonotone ==
  ASSUME NEW S, NEW T, S \subseteq T
  PROVE  Seq(S) \subseteq Seq(T)
  OBVIOUS

LEMMA RunBegins ==
  ASSUME NEW first \in Nat
  PROVE  Run(first, first - 1) = << >>
  BY DEF Run

LEMMA RunGrows ==
  ASSUME NEW first \in Nat \ {0}, NEW last \in Nat, first <= last + 1
  PROVE  Append(Run(first, last), last + 1) = Run(first, last + 1)
  BY DEF Run

LEMMA InitInv ==
  ASSUME Init
  PROVE  Inv
<1>1. Receiver
  BY GpsRxAssumption DEF Init, Receiver, TypeOK, Newest, InOrder, Apart
<1>2. LineBegun
  <2> SUFFICES ASSUME NEW first \in 1 .. sent + 1, NEW last \in first - 1 .. sent
               PROVE  line = Run(first, last)
    BY DEF LineBegun
  <2>1. first = 1 /\ last = first - 1
    BY DEF Init
  <2> QED BY <2>1, RunBegins DEF Init
<1>3. SentencesWhole
  BY DEF Init, SentencesWhole
<1> QED BY <1>1, <1>2, <1>3 DEF Inv

-----------------------------------------------------------------------------
(* The steps of the receiver and of its handler.                           *)

\* A byte that arrives is not taken, nor is the one it overwrites.
LEMMA ArriveTakesNone ==
  ASSUME Inv, Arrive, NEW new \in Nat, new = sent + 1
  PROVE  /\ \/ waiting' = waiting \cup {new} /\ lost' = lost
            \/ /\ sent \in waiting
               /\ waiting' = (waiting \ {sent}) \cup {new} /\ lost' = lost \cup {sent}
         /\ ~Taken(new)' /\ \A n \in 1 .. sent : Taken(n)' <=> Taken(n)
<1>1. TypeOK /\ Newest
  BY DEF Inv, Receiver
<1>2. /\ sent \in Nat
      /\ waiting \subseteq 1 .. sent /\ feeds \subseteq 1 .. sent /\ lost \subseteq 1 .. sent
  BY <1>1 DEF TypeOK
<1>3. sent' = new
  BY DEF Arrive
<1>4. \/ waiting' = waiting \cup {new} /\ lost' = lost
      \/ /\ sent \in waiting
         /\ waiting' = (waiting \ {sent}) \cup {new} /\ lost' = lost \cup {sent}
  <2>1. CASE waiting = {}
    <3>1. Cardinality(waiting) < Depth
      BY <2>1, FS_EmptySet, GpsRxAssumption
    <3> QED BY <1>3, <3>1 DEF Arrive
  <2>2. CASE waiting # {}
    BY <1>1, <1>3, <2>2 DEF Arrive, Newest
  <2> QED BY <2>1, <2>2
<1>5. ~Taken(new)' /\ \A n \in 1 .. sent : Taken(n)' <=> Taken(n)
  <2>1. new \in waiting'
    BY <1>4
  <2>2. ASSUME NEW n \in 1 .. sent
        PROVE  n \in waiting' \/ n \in lost' <=> n \in waiting \/ n \in lost
    <3>1. n # new
      BY <1>2
    <3> QED BY <1>4, <3>1
  <2> QED BY <2>1, <2>2 DEF Taken
<1> QED BY <1>4, <1>5

LEMMA ArriveStep ==
  ASSUME Inv, Arrive
  PROVE  Inv'
<1>1. TypeOK /\ Newest /\ InOrder /\ Apart /\ LineBegun /\ SentencesWhole
  BY DEF Inv, Receiver
<1>2. /\ sent \in Nat
      /\ waiting \subseteq 1 .. sent /\ feeds \subseteq 1 .. sent /\ lost \subseteq 1 .. sent
  BY <1>1 DEF TypeOK
<1>0. PICK new \in Nat : new = sent + 1
  BY <1>2
<1>3. /\ sent' = new /\ feeds \subseteq feeds' /\ feeds' \subseteq feeds \cup {new}
      /\ UNCHANGED <<rxEnabled, copying, serving, line, printed>>
  BY <1>0 DEF Arrive, buffers
<1>4. \/ waiting' = waiting \cup {new} /\ lost' = lost
      \/ /\ sent \in waiting
         /\ waiting' = (waiting \ {sent}) \cup {new} /\ lost' = lost \cup {sent}
  BY <1>0, ArriveTakesNone
<1>5. ~Taken(new)' /\ \A n \in 1 .. sent : Taken(n)' <=> Taken(n)
  BY <1>0, ArriveTakesNone
<1>6. TypeOK'
  <2>1. 1 .. sent \subseteq 1 .. new /\ new \in 1 .. new
    BY <1>0, <1>2
  <2>2. Seq(1 .. sent) \subseteq Seq(1 .. new)
    BY <2>1, SeqMonotone
  <2>3. Seq(Seq(1 .. sent)) \subseteq Seq(Seq(1 .. new))
    BY <2>2, SeqMonotone
  <2>4. line' \in Seq(1 .. new) /\ Len(line') < BufferSize
        /\ printed' \in Seq(Seq(1 .. new))
    BY <1>1, <1>3, <2>2, <2>3 DEF TypeOK
  <2>5. feeds' \subseteq 1 .. new
    BY <1>0, <1>2, <1>3, <2>1
  <2>6. waiting' \subseteq 1 .. new
    BY <1>0, <1>2, <1>4, <2>1
  <2>7. lost' \subseteq 1 .. new
    BY <1>0, <1>2, <1>4, <2>1
  <2>8. /\ rxEnabled' \in {0, 1} /\ copying' \in {0, 1} /\ serving' \in {0, 1}
        /\ sent' \in Nat
    BY <1>0, <1>1, <1>2, <1>3 DEF TypeOK
  <2> QED BY <1>3, <2>4, <2>5, <2>6, <2>7, <2>8 DEF TypeOK
<1>7. Newest'
  BY <1>0, <1>3, <1>4 DEF Newest
<1>8. InOrder'
  <2> SUFFICES ASSUME NEW n \in 1 .. new, Taken(n)', NEW byte \in waiting'
               PROVE  n < byte
    BY <1>0, <1>3 DEF InOrder
  <2>1. n \in 1 .. sent /\ Taken(n)
    BY <1>0, <1>2, <1>5
  <2>2. CASE byte \in waiting
    BY <1>1, <2>1, <2>2 DEF InOrder
  <2>3. CASE byte = new
    BY <1>0, <1>2, <2>1, <2>3
  <2> QED BY <1>4, <2>2, <2>3
<1>8a. Apart'
  <2>1. sent + 1 \notin lost /\ sent + 1 # sent /\ waiting \cap lost = {}
    BY <1>1, <1>2 DEF Apart
  <2>2. new \notin lost /\ new # sent
    BY <1>0, <2>1
  <2>3. CASE waiting' = waiting \cup {new} /\ lost' = lost
    BY <2>1, <2>2, <2>3 DEF Apart
  <2>4. CASE waiting' = (waiting \ {sent}) \cup {new} /\ lost' = lost \cup {sent}
    BY <2>1, <2>2, <2>4 DEF Apart
  <2> QED BY <1>4, <2>3, <2>4
<1>9. LineBegun'
  <2> SUFFICES ASSUME NEW first \in 1 .. new + 1, NEW last \in first - 1 .. new,
                      first = 1 \/ (first - 1 \in feeds' /\ Taken(first - 1)'),
                      \A n \in first .. last : Taken(n)' /\ n \notin feeds',
                      \A n \in last + 1 .. new : ~Taken(n)',
                      last < first + BufferSize - 1
               PROVE  line' = Run(first, last)
    BY <1>0, <1>2, <1>3 DEF LineBegun, Run
  <2>1. first # new + 1
    BY <1>0, <1>2, <1>5
  <2>2. last # new
    BY <1>0, <1>2, <1>5, <2>1
  <2>3. first \in 1 .. sent + 1 /\ last \in first - 1 .. sent
    BY <1>0, <1>2, <2>1, <2>2
  <2>4. first = 1 \/ (first - 1 \in feeds /\ Taken(first - 1))
    BY <1>0, <1>2, <1>3, <1>5, <2>3
  <2>5. \A n \in first .. last : Taken(n) /\ n \notin feeds
    BY <1>0, <1>2, <1>3, <1>5, <2>3
  <2>6. \A n \in last + 1 .. sent : ~Taken(n)
    BY <1>0, <1>2, <1>5, <2>3
  <2> QED BY <1>1, <1>3, <2>3, <2>4, <2>5, <2>6 DEF LineBegun
<1>10. SentencesWhole'
  <2> SUFFICES ASSUME NEW last \in feeds', NEW first \in 1 .. last,
                      Sentence(first, last)', last < first + BufferSize,
                      first = 1 \/ Taken(first - 1)',
                      \A n \in first .. last : Taken(n)'
               PROVE  \E k \in 1 .. Len(printed') : printed'[k] = Run(first, last)
    BY DEF SentencesWhole, Run
  <2>1. last \in 1 .. sent /\ last \in feeds
    BY <1>0, <1>2, <1>3, <1>5
  <2>2. Sentence(first, last)
    BY <1>0, <1>2, <1>3, <2>1 DEF Sentence
  <2>3. first = 1 \/ Taken(first - 1)
    BY <1>0, <1>2, <1>5, <2>1
  <2>4. \A n \in first .. last : Taken(n)
    BY <1>0, <1>2, <1>5, <2>1
  <2> QED BY <1>1, <1>3, <2>1, <2>2, <2>3, <2>4 DEF SentencesWhole
<1> QED BY <1>6, <1>7, <1>8, <1>8a, <1>9, <1>10 DEF Inv, Receiver

\* Taking the oldest byte: whatever is newer is not taken, the rest is as before.
LEMMA ReceiveStep ==
  ASSUME Inv, Receive
  PROVE  Inv'
<1>1. TypeOK /\ Newest /\ InOrder /\ Apart /\ LineBegun /\ SentencesWhole
  BY DEF Inv, Receiver
<1>2. /\ sent \in Nat
      /\ waiting \subseteq 1 .. sent /\ feeds \subseteq 1 .. sent /\ lost \subseteq 1 .. sent
  BY <1>1 DEF TypeOK
<1>2s. line \in Seq(1 .. sent) /\ Len(line) < BufferSize /\ printed \in Seq(Seq(1 .. sent))
  BY <1>1 DEF TypeOK
<1>3. PICK byte \in waiting : /\ \A other \in waiting : byte <= other
                              /\ waiting' = waiting \ {byte}
                              /\ EndLine(byte) \/ Store(byte)
  BY DEF Receive
<1>4. UNCHANGED <<copying, serving, sent, feeds, lost>> /\ byte \in 1 .. sent
  BY <1>2 DEF Receive, gps
<1>5. ~Taken(byte) /\ Taken(byte)'
  BY <1>1, <1>3, <1>4 DEF Apart, Taken
<1>6. \A n \in 1 .. sent : /\ n > byte => ~Taken(n) /\ ~Taken(n)'
                           /\ n # byte => (Taken(n)' <=> Taken(n))
  <2> SUFFICES ASSUME NEW n \in 1 .. sent, n # byte
               PROVE  (n > byte => ~Taken(n)) /\ (Taken(n)' <=> Taken(n))
    BY <1>2, <1>4
  <2>1. Taken(n)' <=> Taken(n)
    BY <1>3, <1>4 DEF Taken
  <2>2. ~(n > byte /\ Taken(n))
    BY <1>1, <1>2, <1>4 DEF InOrder
  <2> QED BY <2>1, <2>2
<1>7. (byte \in feeds /\ EndLine(byte)) \/ (byte \notin feeds /\ Store(byte))
  <2>1. CASE EndLine(byte) BY <2>1 DEF EndLine
  <2>2. CASE Store(byte) BY <2>2 DEF Store
  <2> QED BY <1>3, <2>1, <2>2
<1>8. TypeOK'
  <2>1. Append(line, byte) \in Seq(1 .. sent) /\ Len(Append(line, byte)) = Len(line) + 1
        /\ << >> \in Seq(1 .. sent) /\ Len(<< >>) = 0 /\ Len(line) \in Nat
    BY <1>2s, <1>4
  <2>2. line' \in Seq(1 .. sent) /\ Len(line') < BufferSize
    <3>1. CASE EndLine(byte)
      BY <1>2s, <2>1, <3>1, GpsRxAssumption DEF EndLine
    <3>2. CASE Store(byte)
      <4>1. line' = << >> \/ (line' = Append(line, byte) /\ Len(line) + 1 < BufferSize)
        BY <1>2s, <2>1, <3>2, GpsRxAssumption DEF Store
      <4>2. CASE line' = << >>
        BY <2>1, <4>2, GpsRxAssumption
      <4>3. CASE line' = Append(line, byte) /\ Len(line) + 1 < BufferSize
        BY <2>1, <4>3
      <4> QED BY <4>1, <4>2, <4>3
    <3> QED BY <1>3, <3>1, <3>2
  <2>3. printed' \in Seq(Seq(1 .. sent))
    <3>1. CASE EndLine(byte)
      <4> DEFINE whole == Append(line, byte)
      <4>1. printed' = Append(printed, whole) /\ whole \in Seq(1 .. sent)
        BY <2>1, <3>1 DEF EndLine
      <4> HIDE DEF whole
      <4> QED BY <1>2s, <4>1, AppendProperties
    <3>2. CASE Store(byte)
      BY <1>2s, <3>2 DEF Store
    <3> QED BY <1>3, <3>1, <3>2
  <2>4. waiting' \subseteq 1 .. sent
    BY <1>2, <1>3
  <2>5. rxEnabled' \in {0, 1}
    BY <1>1, <1>3 DEF TypeOK, EndLine, Store
  <2> QED BY <1>1, <1>4, <2>2, <2>3, <2>4, <2>5 DEF TypeOK
<1>9. Newest' /\ InOrder' /\ Apart'
  <2>1. Newest'
    <3>1. CASE byte = sent
      <4>1. ASSUME NEW other \in waiting' PROVE FALSE
        <5>1. other \in waiting /\ other # byte
          BY <1>3, <4>1
        <5>2. other \in 1 .. sent /\ byte <= other
          BY <1>2, <1>3, <5>1
        <5> QED BY <1>2, <3>1, <5>1, <5>2
      <4> QED BY <4>1 DEF Newest
    <3>2. CASE byte # sent
      BY <1>1, <1>3, <1>4, <3>2 DEF Newest
    <3> QED BY <3>1, <3>2
  <2>2. ASSUME NEW n \in 1 .. sent, Taken(n)', NEW other \in waiting'
        PROVE  n < other
    BY <1>1, <1>2, <1>3, <1>4, <1>6, <2>2 DEF InOrder
  <2>3. Apart'
    BY <1>1, <1>3, <1>4 DEF Apart
  <2> QED BY <1>4, <2>1, <2>2, <2>3 DEF InOrder
<1>10. LineBegun'
  <2> SUFFICES ASSUME NEW first \in 1 .. sent + 1, NEW last \in first - 1 .. sent,
                      first = 1 \/ (first - 1 \in feeds /\ Taken(first - 1)'),
                      \A n \in first .. last : Taken(n)' /\ n \notin feeds,
                      \A n \in last + 1 .. sent : ~Taken(n)',
                      last < first + BufferSize - 1
               PROVE  line' = Run(first, last)
    BY <1>4 DEF LineBegun, Run
  <2>1. byte <= last
    BY <1>2, <1>4, <1>5
  <2>2. CASE byte \in first .. last
    <3>1. last = byte
      BY <1>2, <1>4, <1>6, <2>1, <2>2
    <3>2. line = Run(first, byte - 1)
      <4>1. first = 1 \/ (first - 1 \in feeds /\ Taken(first - 1))
        <5>1. first # 1 => first - 1 \in 1 .. sent /\ first - 1 # byte
          BY <1>2, <1>4, <2>2
        <5> QED BY <1>6, <5>1
      <4>2. \A n \in first .. byte - 1 : Taken(n) /\ n \notin feeds
        BY <1>2, <1>4, <1>6, <3>1
      <4>3. \A n \in byte .. sent : ~Taken(n)
        BY <1>2, <1>4, <1>5, <1>6
      <4>4. byte - 1 \in first - 1 .. sent /\ byte - 1 < first + BufferSize - 1
            /\ byte - 1 + 1 = byte
        BY <1>2, <1>4, <2>2, <3>1, GpsRxAssumption
      <4> QED BY <1>1, <4>1, <4>2, <4>3, <4>4 DEF LineBegun
    <3>3. Len(line) = byte - first
      BY <1>4, <2>2, <3>2 DEF Run
    <3>4. line' = Append(line, byte)
      BY <1>2, <1>4, <1>7, <2>2, <3>1, <3>3, GpsRxAssumption DEF Store
    <3>5. first \in Nat \ {0} /\ byte - 1 \in Nat /\ first <= byte - 1 + 1 /\ byte - 1 + 1 = byte
      BY <1>2, <1>4, <2>2
    <3>6. Append(Run(first, byte - 1), byte) = Run(first, byte)
      BY <3>5, RunGrows
    <3> QED BY <3>1, <3>2, <3>4, <3>6
  <2>3. CASE byte \notin first .. last
    <3>1. first - 1 = byte
      BY <1>2, <1>4, <1>6, <2>1, <2>3
    <3>2. last = first - 1
      BY <1>2, <1>4, <1>6, <3>1
    <3>3. line' = << >>
      BY <1>4, <1>7, <3>1 DEF EndLine
    <3> QED BY <1>4, <3>2, <3>3, RunBegins
  <2> QED BY <2>2, <2>3
<1>11. SentencesWhole'
  <2> SUFFICES ASSUME NEW last \in feeds, NEW first \in 1 .. last,
                      Sentence(first, last), last < first + BufferSize,
                      first = 1 \/ Taken(first - 1)',
                      \A n \in first .. last : Taken(n)'
               PROVE  \E k \in 1 .. Len(printed') : printed'[k] = Run(first, last)
    BY <1>4 DEF SentencesWhole, Sentence, Run
  <2>1. last \in 1 .. sent
    BY <1>2
  <2>2. CASE last = byte
    <3>1. line = Run(first, byte - 1)
      <4>1. first = 1 \/ (first - 1 \in feeds /\ Taken(first - 1))
        <5>1. first # 1 => first - 1 \in 1 .. sent /\ first - 1 # byte
          BY <1>2, <1>4, <2>2
        <5> QED BY <1>6, <5>1 DEF Sentence
      <4>2. \A n \in first .. byte - 1 : Taken(n) /\ n \notin feeds
        BY <1>2, <1>4, <1>6, <2>1, <2>2 DEF Sentence
      <4>3. \A n \in byte .. sent : ~Taken(n)
        BY <1>2, <1>4, <1>5, <1>6
      <4>4. byte - 1 \in first - 1 .. sent /\ byte - 1 < first + BufferSize - 1
            /\ byte - 1 + 1 = byte /\ first \in 1 .. sent + 1
        BY <1>2, <1>4, <2>2, GpsRxAssumption
      <4> QED BY <1>1, <4>1, <4>2, <4>3, <4>4 DEF LineBegun
    <3>2. printed' = Append(printed, Append(line, byte))
      BY <1>7, <2>2 DEF EndLine
    <3>3. first \in Nat \ {0} /\ byte - 1 \in Nat /\ first <= byte - 1 + 1 /\ byte - 1 + 1 = byte
      BY <1>2, <1>4, <2>2
    <3>4. Append(line, byte) = Run(first, last)
      BY <2>2, <3>1, <3>3, RunGrows
    <3>5. printed' = Append(printed, Run(first, last))
      BY <3>2, <3>4
    <3>6. Len(printed') = Len(printed) + 1 /\ printed'[Len(printed) + 1] = Run(first, last)
          /\ Len(printed) \in Nat
      BY <1>2s, <3>5
    <3> QED BY <3>6
  <2>3. CASE last # byte
    <3>1. last < byte
      BY <1>2, <1>4, <1>6, <2>1, <2>3
    <3>2. first = 1 \/ Taken(first - 1)
      BY <1>2, <1>4, <1>6, <2>1, <3>1
    <3>3. \A n \in first .. last : Taken(n)
      BY <1>2, <1>4, <1>6, <2>1, <3>1
    <3>4. PICK k \in 1 .. Len(printed) : printed[k] = Run(first, last)
      BY <1>1, <3>2, <3>3 DEF SentencesWhole
    <3>5. k \in 1 .. Len(printed') /\ printed'[k] = printed[k]
      <4>1. printed' = printed \/ printed' = Append(printed, Append(line, byte))
        BY <1>7 DEF EndLine, Store
      <4>2. printed \in Seq(Seq(1 .. sent)) /\ Append(line, byte) \in Seq(1 .. sent)
        BY <1>2s, <1>4
      <4> DEFINE whole == Append(line, byte)
      <4> HIDE DEF whole
      <4>3. printed' = printed \/ printed' = Append(printed, whole)
        BY <4>1 DEF whole
      <4>4. whole \in Seq(1 .. sent)
        BY <4>2 DEF whole
      <4>5. Len(Append(printed, whole)) = Len(printed) + 1 /\ Len(printed) \in Nat
            /\ Append(printed, whole)[k] = printed[k]
        BY <1>2s, <4>4, AppendProperties
      <4> QED BY <4>3, <4>5
    <3> QED BY <3>4, <3>5
  <2> QED BY <2>2, <2>3
<1> QED BY <1>8, <1>9, <1>10, <1>11 DEF Inv, Receiver

LEMMA NextStep ==
  ASSUME Inv, [Next]_vars
  PROVE  Inv'
<1>1. CASE Arrive BY <1>1, ArriveStep
<1>2. CASE Receive BY <1>2, ReceiveStep
<1>3. CASE Copy \/ Unmask \/ Copied \/ Enter \/ Leave \/ UNCHANGED vars
  <2>1. UNCHANGED <<waiting, buffers, gps>>
    BY <1>3 DEF Copy, Unmask, Copied, Enter, Leave, vars
  <2>2. TypeOK'
    BY <1>3, <2>1 DEF Inv, Receiver, TypeOK, Copy, Unmask, Copied, Enter, Leave, vars, buffers, gps
  <2>3. Newest' /\ InOrder' /\ Apart' /\ LineBegun' /\ SentencesWhole'
    BY <2>1 DEF Inv, Receiver, Newest, InOrder, Apart, LineBegun, SentencesWhole, Sentence, Taken, Run,
                buffers, gps
  <2> QED BY <2>2, <2>3 DEF Inv, Receiver
<1> QED BY <1>1, <1>2, <1>3 DEF Next

LEMMA Invariance == Spec => []Inv
  BY InitInv, NextStep, PTL DEF Spec

\* The bytes, the line and the lines printed have their types, and fifo_buffer_len never
\* reaches the end of fifo_buffer (usart.c:97).
THEOREM TypeCorrect == Spec => []TypeOK
<1>1. Inv => TypeOK BY DEF Inv, Receiver
<1> QED BY <1>1, Invariance, PTL

\* For every buffer, receiver and stream: an undamaged sentence that fits is printed
\* whole, whatever happened before it.
THEOREM UndamagedPrinted == Spec => []SentencesWhole
<1>1. Inv => SentencesWhole BY DEF Inv
<1> QED BY <1>1, Invariance, PTL

-----------------------------------------------------------------------------
(* What is printed is lines.                                               *)

\* fifo_buffer holds bytes in their order, none of them a line feed.
Ascending ==
  /\ \A p \in 1 .. Len(line) : line[p] \notin feeds /\ Taken(line[p])
  /\ \A p \in 1 .. Len(line) - 1 : line[p] < line[p + 1]

Last(k) == printed[k][Len(printed[k])]

\* They are younger than what was printed.
Younger ==
  Len(printed) > 0 =>
    /\ Taken(Last(Len(printed)))
    /\ Len(line) > 0 => Last(Len(printed)) < line[1]

Sound == Ascending /\ Younger /\ LinesSound

LEMMA NextSoundReceive ==
  ASSUME Inv, Sound, Receive
  PROVE  Sound'
<1>1. TypeOK /\ InOrder /\ Apart /\ Ascending /\ Younger /\ LinesSound
  BY DEF Inv, Receiver, Sound
<1>2. /\ sent \in Nat
      /\ waiting \subseteq 1 .. sent /\ feeds \subseteq 1 .. sent /\ lost \subseteq 1 .. sent
      /\ line \in Seq(1 .. sent) /\ Len(line) < BufferSize /\ printed \in Seq(Seq(1 .. sent))
  BY <1>1 DEF TypeOK
<1>2n. sent \in Nat /\ Len(line) \in Nat /\ Len(printed) \in Nat
  BY <1>2
<1>3. PICK byte \in waiting : /\ waiting' = waiting \ {byte}
                              /\ EndLine(byte) \/ Store(byte)
  BY DEF Receive
<1>4. UNCHANGED <<sent, feeds, lost>> /\ byte \in 1 .. sent
  BY <1>2 DEF Receive, gps
<1>5. Taken(byte)' /\ \A n \in 1 .. sent : Taken(n) => Taken(n)' /\ n < byte
  BY <1>1, <1>2, <1>3, <1>4 DEF Apart, Taken, InOrder
<1> DEFINE whole == Append(line, byte)
<1>6. /\ whole \in Seq(1 .. sent) /\ Len(whole) = Len(line) + 1 /\ whole[Len(line) + 1] = byte
      /\ \A p \in 1 .. Len(line) : whole[p] = line[p] /\ line[p] \in 1 .. sent
  BY <1>2, <1>4
<1>7. \A p \in 1 .. Len(whole) - 1 : whole[p] < whole[p + 1] /\ whole[p] \notin feeds
  <2> SUFFICES ASSUME NEW p \in 1 .. Len(line)
               PROVE  whole[p] < whole[p + 1] /\ whole[p] \notin feeds
    BY <1>2, <1>6
  <2>1. whole[p] = line[p] /\ line[p] \in 1 .. sent /\ line[p] \notin feeds /\ Taken(line[p])
    BY <1>1, <1>6 DEF Ascending
  <2>2. CASE p = Len(line)
    BY <1>5, <1>6, <2>1, <2>2
  <2>3. CASE p # Len(line)
    <3>1. p \in 1 .. Len(line) - 1 /\ p + 1 \in 1 .. Len(line)
      BY <1>2, <2>3
    <3>2. line[p] < line[p + 1] /\ whole[p + 1] = line[p + 1]
      BY <1>1, <1>6, <3>1 DEF Ascending
    <3> QED BY <2>1, <3>2
  <2> QED BY <2>2, <2>3
<1>8. Len(printed) > 0 => Last(Len(printed)) < whole[1]
  <2> SUFFICES ASSUME Len(printed) > 0 PROVE Last(Len(printed)) < whole[1]
    OBVIOUS
  <2>1. CASE Len(line) > 0
    BY <1>1, <1>2, <1>6, <2>1 DEF Younger
  <2>2. CASE Len(line) = 0
    <3>1. Last(Len(printed)) \in 1 .. sent
      <4>1. Len(printed) \in 1 .. Len(printed)
        BY <1>2
      <4>2. PICK text \in Seq(1 .. sent) : text = printed[Len(printed)]
        BY <1>2, <4>1
      <4>3. Len(text) \in 1 .. BufferSize
        BY <1>1, <4>1, <4>2 DEF LinesSound
      <4>4. Len(text) \in 1 .. Len(text)
        BY <4>3, GpsRxAssumption
      <4>5. text[Len(text)] \in 1 .. sent
        BY <4>2, <4>4, ElementOfSeq
      <4> QED BY <4>2, <4>5 DEF Last
    <3> QED BY <1>1, <1>5, <1>6, <2>2, <3>1 DEF Younger
  <2> QED BY <1>2, <2>1, <2>2
<1>9. CASE EndLine(byte)
  <2>1. byte \in feeds /\ printed' = Append(printed, whole) /\ line' = << >>
    BY <1>9 DEF EndLine
  <2> HIDE DEF whole
  <2>2. /\ Len(printed') = Len(printed) + 1 /\ printed'[Len(printed) + 1] = whole
        /\ \A k \in 1 .. Len(printed) : printed'[k] = printed[k]
    BY <1>2, <1>6, <2>1, AppendProperties
  <2>3. Ascending'
    BY <2>1 DEF Ascending
  <2>4. Younger'
    <3>1. Last(Len(printed))' = byte
      BY <1>2, <1>6, <2>2 DEF Last
    <3> QED BY <1>5, <2>1, <3>1 DEF Younger
  <2>5. LinesSound'
    <3> SUFFICES ASSUME NEW k \in 1 .. Len(printed) + 1
                 PROVE  /\ Len(printed'[k]) \in 1 .. BufferSize
                        /\ printed'[k][Len(printed'[k])] \in feeds
                        /\ \A p \in 1 .. Len(printed'[k]) - 1 :
                             printed'[k][p] \notin feeds /\ printed'[k][p] < printed'[k][p + 1]
                        /\ k > 1 => printed'[k - 1][Len(printed'[k - 1])] < printed'[k][1]
      BY <1>4, <2>2 DEF LinesSound
    <3>1. CASE k <= Len(printed)
      <4>1. printed'[k] = printed[k] /\ (k > 1 => printed'[k - 1] = printed[k - 1])
        <5>1. k \in 1 .. Len(printed) /\ (k > 1 => k - 1 \in 1 .. Len(printed))
          BY <1>2n, <3>1
        <5> QED BY <2>2, <5>1
      <4>2. k \in 1 .. Len(printed)
        BY <1>2n, <3>1
      <4>3. /\ Len(printed[k]) \in 1 .. BufferSize
            /\ printed[k][Len(printed[k])] \in feeds
            /\ \A p \in 1 .. Len(printed[k]) - 1 :
                 printed[k][p] \notin feeds /\ printed[k][p] < printed[k][p + 1]
            /\ k > 1 => printed[k - 1][Len(printed[k - 1])] < printed[k][1]
        BY <1>1, <4>2 DEF LinesSound
      <4> QED BY Zenon, <4>1, <4>3
    <3>2. CASE k = Len(printed) + 1
      <4>1. printed'[k] = whole /\ (k > 1 => printed'[k - 1] = printed[Len(printed)])
        <5>1. k - 1 = Len(printed) /\ (k > 1 => Len(printed) \in 1 .. Len(printed))
          BY <1>2n, <3>2
        <5> QED BY <2>2, <3>2, <5>1
      <4>2. Len(whole) \in 1 .. BufferSize /\ whole[Len(whole)] \in feeds
        BY <1>2, <1>6, <2>1, GpsRxAssumption
      <4>3. k > 1 => printed'[k - 1][Len(printed'[k - 1])] < printed'[k][1]
        BY <1>2, <1>8, <3>2, <4>1 DEF Last
      <4> QED BY <1>7, <4>1, <4>2, <4>3
    <3>3. k <= Len(printed) \/ k = Len(printed) + 1
      BY <1>2n
    <3> QED BY Zenon, <3>1, <3>2, <3>3
  <2> QED BY <2>3, <2>4, <2>5 DEF Sound
<1>10. CASE Store(byte)
  <2>1. byte \notin feeds /\ printed' = printed /\ (line' = << >> \/ line' = whole)
    BY <1>10 DEF Store
  <2> HIDE DEF whole
  <2>2. LinesSound'
    BY <1>1, <1>4, <2>1 DEF LinesSound
  <2>3. Ascending'
    <3>1. CASE line' = << >>
      BY <3>1 DEF Ascending
    <3>2. CASE line' = whole
      <4>1. \A p \in 1 .. Len(line) + 1 :
              \E n \in 1 .. sent : whole[p] = n /\ n \notin feeds /\ Taken(n)'
        <5> SUFFICES ASSUME NEW p \in 1 .. Len(line) + 1
                     PROVE  \E n \in 1 .. sent : whole[p] = n /\ n \notin feeds /\ Taken(n)'
          OBVIOUS
        <5>1. CASE p = Len(line) + 1
          BY <1>4, <1>5, <1>6, <2>1, <5>1
        <5>2. CASE p # Len(line) + 1
          <6>1. p \in 1 .. Len(line)
            BY <1>2n, <5>2
          <6>2. PICK n \in 1 .. sent : n = line[p]
            BY <1>6, <6>1
          <6>3. n \notin feeds /\ Taken(n) /\ whole[p] = n
            BY <1>1, <1>6, <6>1, <6>2 DEF Ascending
          <6> QED BY <1>5, <6>3
        <5> QED BY <5>1, <5>2
      <4>2. \A p \in 1 .. Len(line') : line'[p] \notin feeds' /\ Taken(line[p])'
        BY <1>4, <1>6, <3>2, <4>1 DEF Taken
      <4>3. \A p \in 1 .. Len(line') - 1 : line'[p] < line'[p + 1]
        BY <1>7, <3>2
      <4> QED BY <4>2, <4>3 DEF Ascending, Taken
    <3> QED BY <2>1, <3>1, <3>2
  <2>4. Younger'
    <3> SUFFICES ASSUME Len(printed) > 0
                 PROVE  /\ Taken(Last(Len(printed)))'
                        /\ Len(line') > 0 => Last(Len(printed)) < line'[1]
      BY <2>1 DEF Younger, Last
    <3>1. Taken(Last(Len(printed)))'
      <4>1. Taken(Last(Len(printed)))
        BY <1>1 DEF Younger
      <4>2. Last(Len(printed))' = Last(Len(printed)) /\ waiting' \subseteq waiting /\ lost' = lost
        BY <1>3, <1>4, <2>1 DEF Last
      <4> QED BY <4>1, <4>2 DEF Taken
    <3> QED BY <1>8, <2>1, <3>1
  <2> QED BY <2>2, <2>3, <2>4 DEF Sound
<1> QED BY <1>3, <1>9, <1>10

LEMMA NextSoundArrive ==
  ASSUME Inv, Sound, Arrive
  PROVE  Sound'
<1>1. TypeOK /\ Ascending /\ Younger /\ LinesSound
  BY DEF Inv, Receiver, Sound
<1>2. /\ sent \in Nat /\ line \in Seq(1 .. sent) /\ printed \in Seq(Seq(1 .. sent))
      /\ Len(line) \in Nat /\ Len(printed) \in Nat
  BY <1>1 DEF TypeOK
<1>3. PICK new \in Nat : new = sent + 1
  BY <1>2
<1>4. /\ feeds \subseteq feeds' /\ feeds' \subseteq feeds \cup {new}
      /\ UNCHANGED <<line, printed>>
  BY <1>3 DEF Arrive, buffers
<1>5. \A n \in 1 .. sent : (Taken(n)' <=> Taken(n)) /\ (n \in feeds' <=> n \in feeds)
  <2>1. \A n \in 1 .. sent : n # new
    BY <1>2, <1>3
  <2> QED BY <1>3, <1>4, <2>1, ArriveTakesNone
<1>6. Ascending'
  <2>1. ASSUME NEW p \in 1 .. Len(line)
        PROVE  line[p] \notin feeds' /\ Taken(line[p])'
    <3>1. PICK n \in 1 .. sent : n = line[p]
      BY <1>2
    <3>2. n \notin feeds' /\ Taken(n)'
      BY <1>1, <1>5, <3>1 DEF Ascending
    <3> QED BY <1>4, <3>1, <3>2 DEF Taken
  <2> QED BY <1>1, <1>4, <2>1 DEF Ascending
<1>7. ASSUME NEW k \in 1 .. Len(printed), NEW p \in 1 .. Len(printed[k])
      PROVE  printed[k][p] \in 1 .. sent
  <2>1. printed[k] \in Seq(1 .. sent)
    BY <1>2
  <2> QED BY <2>1, ElementOfSeq
<1>8. Younger'
  <2> SUFFICES ASSUME Len(printed) > 0
               PROVE  Taken(Last(Len(printed)))'
    BY <1>1, <1>4 DEF Younger, Last
  <2>1. Len(printed) \in 1 .. Len(printed)
    BY <1>2
  <2>2. Len(printed[Len(printed)]) \in 1 .. BufferSize
    BY <1>1, <2>1 DEF LinesSound
  <2>3. Len(printed[Len(printed)]) \in 1 .. Len(printed[Len(printed)])
    BY <2>2, GpsRxAssumption
  <2>4. PICK n \in 1 .. sent : n = Last(Len(printed))
    BY <1>7, <2>1, <2>3 DEF Last
  <2>5. Taken(n)'
    BY <1>1, <1>5, <2>4 DEF Younger
  <2>6. Last(Len(printed))' = n
    BY <1>4, <2>4 DEF Last
  <2> QED BY <2>5, <2>6 DEF Taken
<1>9. LinesSound'
  <2> SUFFICES ASSUME NEW k \in 1 .. Len(printed)
               PROVE  /\ Len(printed[k]) \in 1 .. BufferSize
                      /\ printed[k][Len(printed[k])] \in feeds'
                      /\ \A p \in 1 .. Len(printed[k]) - 1 :
                           printed[k][p] \notin feeds' /\ printed[k][p] < printed[k][p + 1]
                      /\ k > 1 => printed[k - 1][Len(printed[k - 1])] < printed[k][1]
    BY <1>4 DEF LinesSound
  <2>1. /\ Len(printed[k]) \in 1 .. BufferSize
        /\ printed[k][Len(printed[k])] \in feeds
        /\ \A p \in 1 .. Len(printed[k]) - 1 :
             printed[k][p] \notin feeds /\ printed[k][p] < printed[k][p + 1]
        /\ k > 1 => printed[k - 1][Len(printed[k - 1])] < printed[k][1]
    BY <1>1 DEF LinesSound
  <2>2. ASSUME NEW p \in 1 .. Len(printed[k]) - 1
        PROVE  printed[k][p] \notin feeds'
    <3>1. p \in 1 .. Len(printed[k])
      BY <2>1, GpsRxAssumption
    <3> QED BY <1>5, <1>7, <2>1, <3>1
  <2> QED BY <1>4, <2>1, <2>2
<1> QED BY <1>6, <1>8, <1>9 DEF Sound

LEMMA NextSound ==
  ASSUME Inv, Sound, [Next]_vars
  PROVE  Sound'
<1>1. CASE Arrive
  BY <1>1, NextSoundArrive
<1>2. CASE Receive
  BY <1>2, NextSoundReceive
<1>3. CASE UNCHANGED <<waiting, buffers, gps>>
  BY <1>3 DEF Sound, Ascending, Younger, Last, Taken, LinesSound, buffers, gps
<1> QED
  BY <1>1, <1>2, <1>3 DEF Next, Copy, Unmask, Copied, Enter, Leave, vars

\* For every line buffer, receiver and stream of bytes: whatever was lost or dropped,
\* what is printed is lines that fit the buffer, of bytes in the order they were sent.
THEOREM OnlyLines == Spec => []LinesSound
<1>1. Init => Sound
  BY DEF Init, Sound, Ascending, Younger, LinesSound
<1>2. Sound => LinesSound
  BY DEF Sound
<1> QED BY <1>1, <1>2, Invariance, NextSound, PTL DEF Spec
=============================================================================
