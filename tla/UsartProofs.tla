----------------------------- MODULE UsartProofs ------------------------------
(***************************************************************************)
(* Proofs about the print buffer, for every size of the buffer and length  *)
(* of lines: main's printing, in single loads and stores, against the      *)
(* handlers of the GPS receiver and of the transmitter.                    *)
(***************************************************************************)
EXTENDS Usart, SequenceTheorems, TLAPS

Byte == [line : 0 .. MaxLines, place : 1 .. MainLen + HandlerLen, last : BOOLEAN]

\* An index is past the end of the buffer only between its increment and its wrap, and
\* main's copy of one never is.
Indices ==
  /\ pc # "wrap" => producer < Size
  /\ pc # "sendwrap" => consumer < Size
  /\ pc \in {"put", "bump", "sendbump"} => reg < Size
  /\ pc = "mask" => i = 0
  /\ Copying => i < MainLen

Types == TypeOK /\ Indices /\ stream \in Seq(Byte)

-----------------------------------------------------------------------------
(* Arithmetic of the indices.                                              *)

LEMMA ModUnique ==
  ASSUME NEW n \in Nat \ {0}, NEW q \in Nat, NEW r \in 0 .. n - 1, NEW x \in Nat, x = (n * q) + r
  PROVE  x % n = r
  OBVIOUS

LEMMA ModDivides ==
  ASSUME NEW n \in Nat \ {0}, NEW x \in Nat
  PROVE  x % n \in 0 .. n - 1 /\ \E q \in Nat : x = (n * q) + (x % n)
<1>1. x \div n \in Nat /\ x % n \in 0 .. n - 1 /\ x = (n * (x \div n)) + (x % n)
  OBVIOUS
<1> QED BY <1>1

LEMMA ModPlus ==
  ASSUME NEW n \in Nat \ {0}, NEW x \in Nat, NEW k \in Nat
  PROVE  ((x % n) + k) % n = (x + k) % n
<1> DEFINE r == x % n
<1>1. r \in 0 .. n - 1 /\ \E q \in Nat : x = (n * q) + r
  BY ModDivides
<1>2. PICK q \in Nat : x = (n * q) + r
  BY <1>1
<1> HIDE DEF r
<1> DEFINE s == (r + k) % n
<1>3. s \in 0 .. n - 1 /\ \E p \in Nat : r + k = (n * p) + s
  <2>1. r + k \in Nat
    BY <1>1
  <2> DEFINE y == r + k
  <2> HIDE DEF y
  <2>2. y % n \in 0 .. n - 1 /\ \E p \in Nat : y = (n * p) + (y % n)
    BY <2>1, ModDivides DEF y
  <2> QED BY <2>2 DEF y
<1>4. PICK p \in Nat : r + k = (n * p) + s
  BY <1>3
<1> HIDE DEF s
<1>5. x + k = (n * (q + p)) + s
  BY <1>1, <1>2, <1>3, <1>4
<1>6. (x + k) % n = s
  <2> DEFINE y == x + k
          p0 == q + p
  <2>1. y \in Nat /\ p0 \in Nat /\ y = (n * p0) + s
    BY <1>2, <1>4, <1>5
  <2> HIDE DEF y, p0
  <2>2. y % n = s
    BY <1>3, <2>1, ModUnique
  <2> QED BY <2>2 DEF y
<1> QED BY <1>6 DEF r, s

LEMMA ModSmall ==
  ASSUME NEW n \in Nat \ {0}, NEW r \in 0 .. n - 1
  PROVE  r % n = r
  BY ModUnique

LEMMA SlotInBuffer ==
  ASSUME NEW index \in 0 .. Size, NEW k \in 0 .. Size, k = 0 => index < Size
  PROVE  Slot(index, k) \in 0 .. Size - 1
<1>1. (index + k) % Size \in 0 .. Size - 1
  BY UsartAssumption, ModDivides
<1> QED BY <1>1, UsartAssumption DEF Slot

-----------------------------------------------------------------------------
(* Types.                                                                  *)

LEMMA SizeFacts ==
  /\ Size \in Nat /\ MainLen \in Nat /\ HandlerLen \in Nat /\ MaxLines \in Nat
  /\ 0 < MainLen /\ MainLen < Size /\ 0 < HandlerLen /\ HandlerLen < Size
  BY UsartAssumption

LEMMA BytesType ==
  ASSUME NEW l \in 0 .. MaxLines
  PROVE  Bytes(l, HandlerLen) \in Seq(Byte)
  BY SizeFacts DEF Bytes, Byte

\* A handler's line: the buffer and the stream keep their types, and the index is wrapped.
LEMMA PutLineType ==
  ASSUME Types, lines < MaxLines, PutLine(HandlerLen)
  PROVE  /\ buffer' \in [0 .. Size -> Byte] /\ producer' \in 0 .. Size - 1
         /\ stream' \in Seq(Byte) /\ lines' \in 0 .. MaxLines
<1> DEFINE bytes == Bytes(lines + 1, HandlerLen)
<1>1. lines + 1 \in 0 .. MaxLines /\ producer \in 0 .. Size /\ stream \in Seq(Byte)
      /\ buffer \in [0 .. Size -> Byte]
  BY SizeFacts DEF Types, TypeOK, Byte
<1>2. bytes \in Seq(Byte) /\ Len(bytes) = HandlerLen
  BY <1>1, BytesType, SizeFacts DEF Bytes
<1> HIDE DEF bytes
<1>3. producer' \in 0 .. Size - 1
  BY <1>1, SlotInBuffer, SizeFacts DEF PutLine
<1>4. stream' \in Seq(Byte) /\ lines' \in 0 .. MaxLines
  BY <1>1, <1>2 DEF PutLine, bytes
<1>5. buffer' \in [0 .. Size -> Byte]
  <2>1. ASSUME NEW c \in 0 .. Size, \E k \in 0 .. HandlerLen - 1 : c = Slot(producer, k)
        PROVE  bytes[1 + CHOOSE k \in 0 .. HandlerLen - 1 : c = Slot(producer, k)] \in Byte
    <3> DEFINE k0 == CHOOSE k \in 0 .. HandlerLen - 1 : c = Slot(producer, k)
    <3>1. k0 \in 0 .. HandlerLen - 1
      BY <2>1
    <3> HIDE DEF k0
    <3>2. 1 + k0 \in 1 .. Len(bytes)
      BY <1>2, <3>1, SizeFacts
    <3> QED BY <1>2, <3>2 DEF k0
  <2> QED BY <1>1, <2>1 DEF PutLine, bytes
<1> QED BY <1>3, <1>4, <1>5

\* The transmitter takes bytes: its index is past the end only where main left it.
LEMMA TransmitType ==
  ASSUME Types, producer' \in 0 .. Size, Transmit
  PROVE  /\ consumer' \in 0 .. Size /\ (pc # "sendwrap" => consumer' < Size)
         /\ hw' \in 0 .. 2
<1>1. consumer \in 0 .. Size /\ hw \in 0 .. 2 /\ (pc # "sendwrap" => consumer < Size)
  BY DEF Types, TypeOK, Indices
<1> DEFINE waiting == (producer' + Size - consumer) % Size
           n == IF producer' = consumer THEN 0
                ELSE IF waiting < 2 - hw THEN waiting ELSE 2 - hw
<1>2. waiting \in 0 .. Size - 1
  <2> DEFINE y == producer' + Size - consumer
  <2>1. y \in Nat
    <3>1. \A p \in 0 .. Size, c \in 0 .. Size : p + Size - c \in Nat
      BY SizeFacts
    <3> QED BY <1>1, <3>1
  <2> HIDE DEF y
  <2>2. y % Size \in 0 .. Size - 1
    BY <2>1, ModDivides, UsartAssumption
  <2> QED BY <2>2 DEF y
<1>3. hw' = hw + n /\ consumer' = IF n = 0 THEN consumer ELSE Slot(consumer, n)
  BY DEF Transmit
<1> HIDE DEF waiting
<1>4. n \in 0 .. 2 - hw /\ n \in 0 .. Size
  BY <1>1, <1>2, SizeFacts
<1> HIDE DEF n
<1>5. n # 0 => Slot(consumer, n) \in 0 .. Size - 1
  BY <1>1, <1>4, SlotInBuffer
<1> QED BY <1>1, <1>3, <1>4, <1>5, SizeFacts

LEMMA InitTypes ==
  ASSUME Init
  PROVE  Types
  BY SizeFacts DEF Init, Types, TypeOK, Indices, Copying, Nothing

\* Where main stands does not matter to a handler, nor main's locals.
LEMMA HandlerTypes ==
  ASSUME Types, producer' \in 0 .. Size, pc # "wrap" => producer' < Size,
         buffer' \in [0 .. Size -> Byte], stream' \in Seq(Byte), lines' \in 0 .. MaxLines,
         rxEnabled' \in {0, 1}, txEnabled' \in {0, 1}, txc' \in {0, 1},
         Transmit, UNCHANGED <<pc, i, reg, irqs>>
  PROVE  Types'
<1>1. consumer' \in 0 .. Size /\ (pc # "sendwrap" => consumer' < Size) /\ hw' \in 0 .. 2
  BY TransmitType
<1>2. TypeOK'
  BY <1>1 DEF Types, TypeOK, Byte
<1>3. Indices'
  BY <1>1 DEF Types, Indices, Copying
<1> QED BY <1>2, <1>3 DEF Types, Byte

LEMMA NextTypes ==
  ASSUME Types, [Next]_vars
  PROVE  Types'
<1>1. /\ irqs \in Irqs /\ buffer \in [0 .. Size -> Byte] /\ stream \in Seq(Byte)
      /\ producer \in 0 .. Size /\ consumer \in 0 .. Size /\ lines \in 0 .. MaxLines
      /\ rxEnabled \in {0, 1} /\ txEnabled \in {0, 1} /\ txc \in {0, 1}
      /\ hw \in 0 .. 2 /\ i \in 0 .. MainLen /\ reg \in 0 .. Size
  BY DEF Types, TypeOK, Byte
<1>2. CASE Next
  <2>1. CASE Printf
    BY <1>2, <2>1, SizeFacts DEF Next, Printf, port, Types, TypeOK, Indices, Copying
  <2>2. CASE Mask
    BY <1>2, <2>2, SizeFacts DEF Next, Mask, ring, port, Types, TypeOK, Indices, Copying
  <2>3. CASE Put
    <3> DEFINE byte == [line |-> lines, place |-> i + 1, last |-> i + 1 = MainLen]
    <3>1. byte \in Byte
      BY <1>1, <2>3, SizeFacts, SMTT(30) DEF Byte, Put, Types, Indices, Copying
    <3>2. buffer' = [buffer EXCEPT ![reg] = byte] /\ stream' = Append(stream, byte)
      BY <2>3 DEF Put
    <3> HIDE DEF byte
    <3>3. buffer' \in [0 .. Size -> Byte] /\ stream' \in Seq(Byte)
      BY <1>1, <3>1, <3>2
    <3>4. /\ pc = "put" /\ pc' = "load" /\ UNCHANGED <<producer, consumer, i, reg, irqs, lines, hw>>
          /\ UNCHANGED <<rxEnabled, txEnabled, txc>>
      BY <1>2, <2>3 DEF Next, Put, port, masks
    <3>5. TypeOK'
      BY <1>1, <3>3, <3>4 DEF TypeOK, Byte
    <3>6. Indices'
      BY <3>4 DEF Types, Indices, Copying
    <3> QED BY <3>3, <3>5, <3>6 DEF Types, Byte
  <2>4. CASE Load
    BY <1>2, <2>4 DEF Next, Load, ring, port, masks, Types, TypeOK, Indices, Copying
  <2>5. CASE Bump
    BY <1>1, <1>2, <2>5, SizeFacts DEF Next, Bump, port, masks, Types, TypeOK, Indices, Copying
  <2>6. CASE Wrap
    BY <1>1, <1>2, <2>6, SizeFacts DEF Next, Wrap, Wrapped, port, Types, TypeOK, Indices, Copying
  <2>7. CASE Test
    BY <1>2, <2>7 DEF Next, Test, ring, port, masks, Types, TypeOK, Indices, Copying
  <2>8. CASE SendLoad
    BY <1>1, <1>2, <2>8 DEF Next, SendLoad, ring, masks, Types, TypeOK, Indices, Copying
  <2>9. CASE SendBump
    BY <1>1, <1>2, <2>9, SizeFacts DEF Next, SendBump, ring, masks, Types, TypeOK, Indices, Copying
  <2>10. CASE SendWrap
    BY <1>1, <1>2, <2>10, SizeFacts DEF Next, SendWrap, Wrapped, ring, masks, Types, TypeOK, Indices, Copying
  <2>11. CASE Unmask
    BY <1>2, <2>11 DEF Next, Unmask, ring, port, Types, TypeOK, Indices, Copying
  <2>12. CASE RxInterrupt
    <3>1. lines < MaxLines /\ PutLine(HandlerLen) /\ Transmit /\ rxEnabled' = 1
          /\ UNCHANGED <<txEnabled, txc, pc, i, reg, irqs>>
      BY <1>2, <2>12 DEF Next, RxInterrupt, LineArrives
    <3> QED BY <1>1, <3>1, PutLineType, HandlerTypes, SizeFacts
  <2>13. CASE EdgeInterrupt
    <3>1. lines < MaxLines /\ PutLine(HandlerLen) /\ Transmit /\ rxEnabled' = 1 /\ txEnabled' = 1
          /\ UNCHANGED <<txc, pc, i, reg, irqs>>
      BY <1>2, <2>13 DEF Next, EdgeInterrupt, LineArrives
    <3> QED BY <1>1, <3>1, PutLineType, HandlerTypes, SizeFacts
  <2>14. CASE TxInterrupt
    <3>1. /\ UNCHANGED <<buffer, producer, stream, lines>> /\ Transmit /\ txc' = 0
          /\ UNCHANGED <<rxEnabled, txEnabled, pc, i, reg, irqs>>
      BY <1>2, <2>14 DEF Next, TxInterrupt, ring, masks
    <3>2. pc # "wrap" => producer' < Size
      BY <3>1 DEF Types, Indices
    <3> QED BY <1>1, <3>1, <3>2, HandlerTypes
  <2>15. CASE Shift
    BY <1>1, <1>2, <2>15 DEF Next, Shift, ring, masks, Types, TypeOK, Indices, Copying
  <2> QED BY <1>2, <2>1, <2>2, <2>3, <2>4, <2>5, <2>6, <2>7, <2>8, <2>9, <2>10, <2>11, <2>12,
             <2>13, <2>14, <2>15 DEF Next, Main
<1>3. CASE UNCHANGED vars
  BY <1>3 DEF vars, ring, port, masks, Types, TypeOK, Indices, Copying
<1> QED BY <1>2, <1>3

LEMMA TypesInvariant == Spec => []Types
  BY InitTypes, NextTypes, PTL DEF Spec

\* The indices stay in the buffer, but between an increment and its wrap (usart.c:58-61,
\* 179-182), and the transmitter never holds more than its two bytes.
THEOREM TypeCorrect == Spec => []TypeOK
<1>1. Types => TypeOK BY DEF Types
<1> QED BY <1>1, TypesInvariant, PTL

-----------------------------------------------------------------------------
(* Masks.                                                                  *)

\* The receiver is masked only while main copies, the transmitter only while it prints.
Masks ==
  /\ pc = "idle" => txEnabled = 1
  /\ ~Copying => rxEnabled = 1

LEMMA NextMasks ==
  ASSUME Masks, Types, [Next]_vars
  PROVE  Masks'
<1> USE DEF Masks, Copying
<1>1. CASE Next
  <2>1. CASE Printf BY <2>1 DEF Printf
  <2>2. CASE Mask BY <2>2 DEF Mask
  <2>3. CASE Put BY <2>3 DEF Put, masks
  <2>4. CASE Load BY <2>4 DEF Load, masks
  <2>5. CASE Bump BY <2>5 DEF Bump, masks
  <2>6. CASE Wrap BY <2>6 DEF Wrap
  <2>7. CASE Test BY <2>7 DEF Test, masks
  <2>8. CASE SendLoad BY <2>8 DEF SendLoad, masks
  <2>9. CASE SendBump BY <2>9 DEF SendBump, masks
  <2>10. CASE SendWrap BY <2>10 DEF SendWrap, masks
  <2>11. CASE Unmask BY <2>11 DEF Unmask
  <2>12. CASE RxInterrupt BY <2>12 DEF RxInterrupt
  <2>13. CASE EdgeInterrupt BY <2>13 DEF EdgeInterrupt
  <2>14. CASE TxInterrupt BY <2>14 DEF TxInterrupt, masks
  <2>15. CASE Shift BY <2>15 DEF Shift, masks
  <2> QED BY <1>1, <2>1, <2>2, <2>3, <2>4, <2>5, <2>6, <2>7, <2>8, <2>9, <2>10, <2>11, <2>12,
             <2>13, <2>14, <2>15 DEF Next, Main
<1>2. CASE UNCHANGED vars
  BY <1>2 DEF vars, masks
<1> QED BY <1>1, <1>2

\* Whichever handlers run on top of whichever step of main, both interrupts are on
\* again when nobody prints.
THEOREM InterruptsComeBack == Spec => []InterruptsBackOn
<1>1. Init => Masks
  BY DEF Init, Masks
<1>2. Masks => InterruptsBackOn
  BY DEF Masks, InterruptsBackOn, Copying
<1> QED BY <1>1, <1>2, NextMasks, TypesInvariant, PTL DEF Spec

-----------------------------------------------------------------------------
(* Lines.                                                                  *)

\* The stream ends with the first n bytes of main's line, or with a whole line.
EndsWith(n) ==
  IF n = 0 THEN stream = << >> \/ stream[Len(stream)].last = TRUE
  ELSE /\ stream # << >>
       /\ stream[Len(stream)] = [line |-> lines, place |-> n, last |-> n = MainLen]

\* How many bytes of its line main has put.
Progress == IF pc = "put" THEN i ELSE IF Copying THEN i + 1 ELSE 0

\* While main copies, with the receiver masked, only main puts bytes.
Unmixed ==
  "edge" \notin irqs =>
    /\ LinesWhole
    /\ Copying => rxEnabled = 0
    /\ EndsWith(Progress)

LEMMA ByteFields ==
  ASSUME NEW l, NEW k \in 1 .. HandlerLen
  PROVE  LET byte == Bytes(l, HandlerLen)[k]
         IN  byte.line = l /\ byte.place = k /\ byte.last = (k = HandlerLen)
<1> DEFINE byte == Bytes(l, HandlerLen)[k]
<1>1. byte = [line |-> l, place |-> k, last |-> k = HandlerLen]
  BY Zenon DEF Bytes
<1> HIDE DEF byte
<1>2. byte.line = l /\ byte.place = k /\ byte.last = (k = HandlerLen)
  BY <1>1, Zenon
<1> QED BY <1>2 DEF byte

\* A whole line after a whole line.
LEMMA LineAppended ==
  ASSUME stream \in Seq(Byte), lines \in 0 .. MaxLines, lines < MaxLines, LinesWhole, EndsWith(0),
         PutLine(HandlerLen)
  PROVE  /\ stream' # << >> /\ stream'[Len(stream')].last = TRUE
         /\ LinesWhole'
<1> DEFINE bytes == Bytes(lines + 1, HandlerLen)
<1>1. /\ bytes \in Seq(Byte) /\ Len(bytes) = HandlerLen
      /\ \A k \in 1 .. HandlerLen : bytes[k].line = lines + 1 /\ bytes[k].place = k
      /\ bytes[HandlerLen].last = TRUE
      /\ \A k \in 1 .. HandlerLen - 1 : bytes[k].last = FALSE
  <2>1. bytes \in Seq(Byte) /\ Len(bytes) = HandlerLen
    BY BytesType, SizeFacts DEF Bytes
  <2>2. \A k \in 1 .. HandlerLen :
          bytes[k].line = lines + 1 /\ bytes[k].place = k /\ bytes[k].last = (k = HandlerLen)
    BY ByteFields
  <2>5. HandlerLen \in 1 .. HandlerLen /\ (HandlerLen = HandlerLen) = TRUE
        /\ \A k \in 1 .. HandlerLen - 1 : k \in 1 .. HandlerLen /\ (k = HandlerLen) = FALSE
    BY SizeFacts
  <2>6. bytes[HandlerLen].last = TRUE
    BY <2>2, <2>5, Zenon
  <2>7. \A k \in 1 .. HandlerLen - 1 : bytes[k].last = FALSE
    BY <2>2, <2>5, Zenon
  <2> QED BY <2>1, <2>2, <2>6, <2>7
<1>2. stream' = stream \o bytes
  BY DEF PutLine
<1> HIDE DEF bytes
<1>3. /\ Len(stream') = Len(stream) + HandlerLen /\ Len(stream) \in Nat
      /\ \A k \in 1 .. Len(stream) : stream'[k] = stream[k]
      /\ \A k \in 1 .. HandlerLen : stream'[Len(stream) + k] = bytes[k]
  <2> DEFINE S == Byte
  <2> HIDE DEF S
  <2>0. stream \in Seq(S) /\ bytes \in Seq(S)
    BY <1>1 DEF S
  <2>1. /\ Len(stream \o bytes) = Len(stream) + Len(bytes)
        /\ \A k \in 1 .. Len(stream) + Len(bytes) :
             (stream \o bytes)[k] = IF k <= Len(stream) THEN stream[k] ELSE bytes[k - Len(stream)]
    BY <2>0, ConcatProperties
  <2>2. Len(stream) \in Nat
    BY <2>0
  <2> QED BY <1>1, <1>2, <2>1, <2>2, SizeFacts
<1>4. stream'[Len(stream')].last = TRUE
  BY <1>1, <1>3, SizeFacts
<1>5. LinesWhole'
  <2> SUFFICES ASSUME NEW k \in 1 .. Len(stream') - 1
               PROVE  IF stream'[k].last THEN stream'[k + 1].place = 1
                      ELSE /\ stream'[k + 1].line = stream'[k].line
                           /\ stream'[k + 1].place = stream'[k].place + 1
    BY DEF LinesWhole
  <2>1. CASE k + 1 <= Len(stream)
    BY <1>3, <2>1 DEF LinesWhole
  <2>2. CASE k = Len(stream)
    <3>1. stream'[k].last = TRUE
      BY <1>3, <2>2 DEF EndsWith
    <3>2. stream'[k + 1] = bytes[1] /\ bytes[1].place = 1
      BY <1>1, <1>3, <2>2, SizeFacts
    <3> QED BY <3>1, <3>2
  <2>3. CASE k > Len(stream)
    <3>1. PICK m \in 1 .. HandlerLen - 1 : k = Len(stream) + m
      <4>1. k - Len(stream) \in 1 .. HandlerLen - 1
        BY <1>3, <2>3, SizeFacts
      <4> QED BY <1>3, <4>1
    <3>2. /\ stream'[k].line = lines + 1 /\ stream'[k].place = m /\ stream'[k].last = FALSE
          /\ stream'[k + 1].line = lines + 1 /\ stream'[k + 1].place = m + 1
      <4>1. m \in 1 .. HandlerLen /\ m + 1 \in 1 .. HandlerLen /\ k + 1 = Len(stream) + (m + 1)
        BY <1>3, <3>1, SizeFacts
      <4>2. stream'[k] = bytes[m] /\ stream'[k + 1] = bytes[m + 1]
        BY <1>3, <3>1, <4>1
      <4>3. bytes[m].line = lines + 1 /\ bytes[m].place = m /\ bytes[m].last = FALSE
        BY <1>1, <4>1
      <4>4. bytes[m + 1].line = lines + 1 /\ bytes[m + 1].place = m + 1
        BY <1>1, <4>1
      <4> QED BY <4>2, <4>3, <4>4
    <3> QED BY <3>2
  <2> QED BY <1>3, <2>1, <2>2, <2>3, SizeFacts
<1> QED BY <1>1, <1>3, <1>4, <1>5, SizeFacts

\* The next byte of main's line.
LEMMA ByteAppended ==
  ASSUME stream \in Seq(Byte), LinesWhole, NEW n \in 0 .. MainLen - 1, EndsWith(n),
         stream' = Append(stream, [line |-> lines, place |-> n + 1, last |-> n + 1 = MainLen])
  PROVE  LinesWhole' /\ stream' # << >>
         /\ stream'[Len(stream')] = [line |-> lines, place |-> n + 1, last |-> n + 1 = MainLen]
<1> DEFINE byte == [line |-> lines, place |-> n + 1, last |-> n + 1 = MainLen]
<1>1. /\ byte.line = lines /\ byte.place = n + 1
  OBVIOUS
<1>2. stream' = Append(stream, byte)
  OBVIOUS
<1> HIDE DEF byte
<1>3. /\ Len(stream') = Len(stream) + 1 /\ Len(stream) \in Nat /\ stream'[Len(stream) + 1] = byte
      /\ \A k \in 1 .. Len(stream) : stream'[k] = stream[k]
  BY <1>2
<1>4. LinesWhole'
  <2> SUFFICES ASSUME NEW k \in 1 .. Len(stream') - 1
               PROVE  IF stream'[k].last THEN stream'[k + 1].place = 1
                      ELSE /\ stream'[k + 1].line = stream'[k].line
                           /\ stream'[k + 1].place = stream'[k].place + 1
    BY DEF LinesWhole
  <2>1. CASE k + 1 <= Len(stream)
    BY <1>3, <2>1 DEF LinesWhole
  <2>2. CASE k = Len(stream)
    <3>1. stream'[k] = stream[Len(stream)] /\ stream'[k + 1] = byte /\ stream # << >>
      BY <1>3, <2>2
    <3>2. CASE n = 0
      BY <1>1, <3>1, <3>2 DEF EndsWith
    <3>3. CASE n # 0
      <4>1. stream[Len(stream)] = [line |-> lines, place |-> n, last |-> n = MainLen]
        BY <3>3 DEF EndsWith
      <4>2. (n = MainLen) = FALSE
        BY SizeFacts
      <4>3. stream[Len(stream)] = [line |-> lines, place |-> n, last |-> FALSE]
        BY <4>1, <4>2, Zenon
      <4>4. stream'[k].line = lines /\ stream'[k].place = n /\ stream'[k].last = FALSE
        BY <3>1, <4>3
      <4> QED BY <1>1, <3>1, <4>4
    <3> QED BY <3>2, <3>3
  <2> QED BY <1>3, <2>1, <2>2
<1> QED BY <1>3, <1>4 DEF byte

\* A step that puts no byte.
LEMMA UnmixedKept ==
  ASSUME Unmixed, UNCHANGED <<stream, irqs>>,
         "edge" \notin irqs /\ Copying' => rxEnabled' = 0,
         Progress' = Progress, Progress # 0 => UNCHANGED lines
  PROVE  Unmixed'
<1> SUFFICES ASSUME "edge" \notin irqs PROVE Unmixed'
  BY DEF Unmixed
<1>1. LinesWhole' /\ EndsWith(Progress)
  BY DEF Unmixed, LinesWhole
<1>2. EndsWith(Progress)'
  BY <1>1 DEF EndsWith
<1> QED BY <1>1, <1>2 DEF Unmixed

LEMMA NextUnmixed ==
  ASSUME Types, Unmixed, [Next]_vars
  PROVE  Unmixed'
<1>1. stream \in Seq(Byte) /\ lines \in 0 .. MaxLines /\ i \in 0 .. MainLen
      /\ (pc = "mask" => i = 0) /\ (Copying => i < MainLen)
  BY DEF Types, TypeOK, Indices
<1>2. CASE Next
  <2>0. UNCHANGED irqs
    BY <1>2 DEF Next
  <2>1. CASE Printf
    BY <2>0, <2>1, UnmixedKept DEF Printf, Progress, Copying
  <2>2. CASE Mask
    <3>1. i = 0
      BY <1>1, <2>2 DEF Mask
    <3> QED BY <2>0, <2>2, <3>1, UnmixedKept DEF Mask, ring, Progress, Copying
  <2>3. CASE Put
    <3>1. pc = "put" /\ pc' = "load" /\ UNCHANGED <<lines, rxEnabled, i>>
          /\ stream' = Append(stream, [line |-> lines, place |-> i + 1, last |-> i + 1 = MainLen])
      BY <2>3 DEF Put, masks
    <3>2. Progress = i /\ Progress' = i + 1 /\ Copying /\ Copying' /\ i \in 0 .. MainLen - 1
          /\ i + 1 # 0
      BY <1>1, <3>1, SizeFacts DEF Progress, Copying
    <3> SUFFICES ASSUME "edge" \notin irqs PROVE Unmixed'
      BY <2>0 DEF Unmixed
    <3>3. LinesWhole /\ EndsWith(i) /\ rxEnabled = 0
      BY <3>2 DEF Unmixed
    <3>4. LinesWhole' /\ stream' # << >>
          /\ stream'[Len(stream')] = [line |-> lines, place |-> i + 1, last |-> i + 1 = MainLen]
      BY <1>1, <3>1, <3>2, <3>3, ByteAppended
    <3>5. EndsWith(Progress)'
      BY <3>1, <3>2, <3>4 DEF EndsWith
    <3> QED BY <3>1, <3>3, <3>4, <3>5 DEF Unmixed
  <2>4. CASE Load
    BY <2>0, <2>4, UnmixedKept DEF Load, ring, masks, Unmixed, Progress, Copying
  <2>5. CASE Bump
    BY <2>0, <2>5, UnmixedKept DEF Bump, masks, Unmixed, Progress, Copying
  <2>6. CASE Wrap
    <3>1. pc = "wrap" /\ i' = i + 1 /\ UNCHANGED <<stream, lines, irqs>>
          /\ IF i' < MainLen THEN pc' = "put" /\ UNCHANGED rxEnabled ELSE pc' = "test"
      BY <2>0, <2>6 DEF Wrap
    <3>2. CASE i + 1 < MainLen
      BY <1>1, <3>1, <3>2, UnmixedKept DEF Unmixed, Progress, Copying
    <3>3. CASE i + 1 = MainLen
      <4> SUFFICES ASSUME "edge" \notin irqs PROVE Unmixed'
        BY <2>0 DEF Unmixed
      <4>1. ~Copying' /\ Progress' = 0 /\ Copying /\ Progress = i + 1
        BY <3>1, <3>3, <1>1, SizeFacts DEF Progress, Copying
      <4>2. LinesWhole' /\ EndsWith(i + 1)
        BY <3>1, <4>1 DEF Unmixed, LinesWhole
      <4>3. stream[Len(stream)].last = TRUE
        <5>1. stream[Len(stream)] = [line |-> lines, place |-> i + 1, last |-> i + 1 = MainLen]
          BY <1>1, <4>2 DEF EndsWith
        <5>2. (i + 1 = MainLen) = TRUE
          BY <3>3
        <5>3. stream[Len(stream)] = [line |-> lines, place |-> i + 1, last |-> TRUE]
          BY <5>1, <5>2, Zenon
        <5> QED BY <5>3
      <4>4. EndsWith(Progress)'
        BY <3>1, <4>1, <4>3 DEF EndsWith
      <4> QED BY <4>1, <4>2, <4>4 DEF Unmixed
    <3> QED BY <1>1, <3>1, <3>2, <3>3, SizeFacts DEF Copying
  <2>7. CASE Test \/ SendLoad \/ SendBump \/ SendWrap \/ Unmask
    BY <2>0, <2>7, UnmixedKept
    DEF Test, SendLoad, SendBump, SendWrap, Unmask, ring, port, masks, Progress, Copying
  <2>8. CASE RxInterrupt
    <3> SUFFICES ASSUME "edge" \notin irqs PROVE Unmixed'
      BY <2>0 DEF Unmixed
    <3>1. rxEnabled = 1 /\ lines < MaxLines /\ PutLine(HandlerLen) /\ UNCHANGED <<pc, i>>
      BY <2>8 DEF RxInterrupt, LineArrives
    <3>2. ~Copying /\ ~Copying' /\ Progress = 0 /\ Progress' = 0
      BY <3>1 DEF Unmixed, Progress, Copying
    <3>3. LinesWhole /\ EndsWith(0)
      BY <3>2 DEF Unmixed
    <3>4. stream' # << >> /\ stream'[Len(stream')].last = TRUE /\ LinesWhole'
      BY <1>1, <3>1, <3>3, LineAppended
    <3>5. EndsWith(Progress)'
      BY <3>2, <3>4 DEF EndsWith
    <3> QED BY <3>2, <3>4, <3>5 DEF Unmixed
  <2>9. CASE EdgeInterrupt
    BY <2>0, <2>9 DEF EdgeInterrupt, Unmixed
  <2>10. CASE TxInterrupt \/ Shift
    BY <2>0, <2>10, UnmixedKept DEF TxInterrupt, Shift, ring, masks, Unmixed, Progress, Copying
  <2> QED BY <1>2, <2>1, <2>2, <2>3, <2>4, <2>5, <2>6, <2>7, <2>8, <2>9, <2>10 DEF Next, Main
<1>3. CASE UNCHANGED vars
  BY <1>3, UnmixedKept DEF vars, ring, masks, Unmixed, Progress, Copying
<1> QED BY <1>2, <1>3

\* For every buffer and length of lines: a GPS sentence never gets into a line of main's,
\* nor the other way round, unless a handler of a pin prints.
THEOREM LinesApart == Spec => []LinesKeptApart
<1>1. Init => Unmixed
  BY DEF Init, Unmixed, LinesWhole, EndsWith, Progress, Copying
<1>2. Unmixed => LinesKeptApart
  BY DEF Unmixed, LinesKeptApart
<1> QED BY <1>1, <1>2, NextUnmixed, TypesInvariant, PTL DEF Spec

-----------------------------------------------------------------------------
(* The producer index.                                                     *)

\* The index counts the stream, one byte behind while main increments it.
Counted ==
  "edge" \notin irqs =>
    /\ IF pc \in {"load", "bump", "wrap"}
         THEN /\ stream # << >>
              /\ producer = ((Len(stream) - 1) % Size) + (IF pc = "wrap" THEN 1 ELSE 0)
         ELSE producer = Len(stream) % Size
    /\ pc \in {"put", "bump"} => reg = producer
    /\ buffer[Size] = Nothing

LEMMA WrappedCounts ==
  ASSUME NEW x \in Nat
  PROVE  Wrapped((x % Size) + 1) = (x + 1) % Size
<1> DEFINE r == x % Size
<1>1. r \in 0 .. Size - 1
  BY UsartAssumption, ModDivides
<1>2. (r + 1) % Size = (x + 1) % Size
  BY UsartAssumption, ModPlus
<1> HIDE DEF r
<1>3. CASE r + 1 < Size
  <2>1. r + 1 \in 0 .. Size - 1
    BY <1>1, <1>3, SizeFacts
  <2>2. (r + 1) % Size = r + 1
    BY <2>1, UsartAssumption, ModSmall
  <2> QED BY <1>1, <1>2, <1>3, <2>2, SizeFacts DEF Wrapped, r
<1>4. CASE r + 1 = Size
  <2>1. Size = (Size * 1) + 0 /\ 0 \in 0 .. Size - 1
    BY SizeFacts
  <2>2. Size % Size = 0
    BY <2>1, UsartAssumption, ModUnique
  <2> QED BY <1>2, <1>4, <2>2, SizeFacts DEF Wrapped, r
<1> QED BY <1>1, <1>3, <1>4, SizeFacts

\* A handler's line moves the index by its length and stays in the buffer.
LEMMA LineCounted ==
  ASSUME Types, lines < MaxLines, PutLine(HandlerLen), producer < Size, producer = Len(stream) % Size,
         buffer[Size] = Nothing
  PROVE  producer' = Len(stream') % Size /\ buffer'[Size] = Nothing
<1>1. stream \in Seq(Byte) /\ lines + 1 \in 0 .. MaxLines /\ producer \in 0 .. Size
  BY SizeFacts DEF Types, TypeOK
<1>2. Len(stream') = Len(stream) + HandlerLen /\ Len(stream) \in Nat
  <2> DEFINE bytes == Bytes(lines + 1, HandlerLen)
  <2>1. bytes \in Seq(Byte) /\ Len(bytes) = HandlerLen
    BY <1>1, BytesType, SizeFacts DEF Bytes
  <2>2. stream' = stream \o bytes
    BY DEF PutLine
  <2> HIDE DEF bytes
  <2> DEFINE S == Byte
  <2> HIDE DEF S
  <2>3. stream \in Seq(S) /\ bytes \in Seq(S)
    BY <1>1, <2>1 DEF S
  <2>4. Len(stream \o bytes) = Len(stream) + Len(bytes)
    BY <2>3, ConcatProperties
  <2> QED BY <2>1, <2>2, <2>3, <2>4
<1>3. producer' = (Len(stream) + HandlerLen) % Size
  <2>1. producer' = (producer + HandlerLen) % Size
    BY <1>1, SizeFacts DEF PutLine, Slot
  <2>2. ((Len(stream) % Size) + HandlerLen) % Size = (Len(stream) + HandlerLen) % Size
    BY <1>2, ModPlus, UsartAssumption
  <2> QED BY <2>1, <2>2
<1>4. buffer'[Size] = Nothing
  <2>1. ASSUME NEW k \in 0 .. HandlerLen - 1
        PROVE  Slot(producer, k) \in 0 .. Size - 1
    <3>1. k \in 0 .. Size
      BY SizeFacts
    <3> QED BY <1>1, <3>1, SlotInBuffer
  <2>2. Size \in 0 .. Size /\ ~\E k \in 0 .. HandlerLen - 1 : Size = Slot(producer, k)
    BY <2>1, SizeFacts
  <2> QED BY <2>2 DEF PutLine
<1> QED BY <1>2, <1>3, <1>4

LEMMA NextCounted ==
  ASSUME Types, Unmixed, Counted, [Next]_vars
  PROVE  Counted'
<1>1. /\ stream \in Seq(Byte) /\ Len(stream) \in Nat /\ producer \in 0 .. Size
      /\ buffer \in [0 .. Size -> Byte]
      /\ pc # "wrap" => producer < Size
      /\ pc \in {"put", "bump"} => reg < Size
      /\ reg \in 0 .. Size
  BY DEF Types, TypeOK, Indices, Byte
<1>2. CASE Next
  <2>0. UNCHANGED irqs
    BY <1>2 DEF Next
  <2> SUFFICES ASSUME "edge" \notin irqs PROVE Counted'
    BY <2>0 DEF Counted
  <2> USE DEF Counted
  <2>1. CASE Printf
    BY <2>1 DEF Printf
  <2>2. CASE Mask
    BY <2>2 DEF Mask, ring
  <2>3. CASE Put
    <3> DEFINE byte == [line |-> lines, place |-> i + 1, last |-> i + 1 = MainLen]
    <3>1. /\ pc = "put" /\ pc' = "load" /\ UNCHANGED producer
          /\ buffer' = [buffer EXCEPT ![reg] = byte] /\ stream' = Append(stream, byte)
      BY <2>3 DEF Put
    <3> HIDE DEF byte
    <3>2. stream' # << >> /\ Len(stream') = Len(stream) + 1
      BY <1>1, <3>1
    <3>3. buffer'[Size] = buffer[Size]
      BY <1>1, <3>1, SizeFacts
    <3>4. (Len(stream') - 1) % Size = producer
      BY <1>1, <3>1, <3>2
    <3> QED BY <1>1, <3>1, <3>2, <3>3, <3>4
  <2>4. CASE Load
    BY <1>1, <2>4 DEF Load, ring
  <2>5. CASE Bump
    <3> DEFINE behind == (Len(stream) - 1) % Size
    <3>1. pc = "bump" /\ pc' = "wrap" /\ producer' = reg + 1 /\ UNCHANGED <<buffer, stream>>
      BY <2>5 DEF Bump
    <3>2. stream # << >> /\ producer = behind + 0 /\ reg = producer
      BY <3>1
    <3>3. behind' = behind
      BY <3>1
    <3> HIDE DEF behind
    <3>4. behind \in Nat
      <4>1. Len(stream) - 1 \in Nat
        BY <1>1, <3>2
      <4> QED BY <4>1, ModDivides, UsartAssumption DEF behind
    <3>5. producer' = behind' + 1
      BY <3>1, <3>2, <3>3, <3>4
    <3> QED BY <3>1, <3>2, <3>5 DEF behind
  <2>6. CASE Wrap
    <3>1. /\ pc = "wrap" /\ pc' \in {"put", "test"} /\ producer' = Wrapped(producer) /\ reg' = producer'
          /\ UNCHANGED <<stream, buffer>>
      BY <2>6 DEF Wrap
    <3>2. stream # << >> /\ Len(stream) - 1 \in Nat
      BY <1>1, <3>1
    <3>3. Wrapped(((Len(stream) - 1) % Size) + 1) = (Len(stream) - 1 + 1) % Size
      BY <3>2, WrappedCounts
    <3>4. Len(stream) - 1 + 1 = Len(stream)
      BY <1>1
    <3> QED BY <3>1, <3>3, <3>4
  <2>7. CASE Test \/ SendLoad \/ SendBump \/ SendWrap \/ Unmask
    BY <2>7 DEF Test, SendLoad, SendBump, SendWrap, Unmask, ring
  <2>8. CASE RxInterrupt
    <3>1. rxEnabled = 1 /\ lines < MaxLines /\ PutLine(HandlerLen) /\ UNCHANGED pc
      BY <2>8 DEF RxInterrupt, LineArrives
    <3>2. ~Copying
      BY <3>1 DEF Unmixed
    <3>3. pc \notin {"put", "load", "bump", "wrap"}
      BY <3>2 DEF Copying
    <3>4. producer < Size /\ producer = Len(stream) % Size /\ buffer[Size] = Nothing
      BY <1>1, <3>3
    <3>5. producer' = Len(stream') % Size /\ buffer'[Size] = Nothing
      BY <3>1, <3>4, LineCounted
    <3> QED BY <3>1, <3>3, <3>5
  <2>9. CASE EdgeInterrupt
    BY <2>0, <2>9 DEF EdgeInterrupt
  <2>10. CASE TxInterrupt \/ Shift
    BY <2>10 DEF TxInterrupt, Shift, ring
  <2> QED BY <1>2, <2>1, <2>2, <2>3, <2>4, <2>5, <2>6, <2>7, <2>8, <2>9, <2>10 DEF Next, Main
<1>3. CASE UNCHANGED vars
  BY <1>3 DEF vars, ring, Counted
<1> QED BY <1>2, <1>3

\* For every buffer and length of lines: main's increment of the producer index in
\* several steps loses no byte of a handler's, and no byte is put behind the buffer.
THEOREM NoUpdateLost == Spec => []ProducerSound
<1>1. Init => Counted
  <2>1. 0 % Size = 0
    <3>1. 0 \in 0 .. Size - 1
      BY SizeFacts
    <3> QED BY <3>1, ModSmall, UsartAssumption
  <2> QED BY <2>1, SizeFacts DEF Init, Counted
<1>2. Init => Unmixed
  BY DEF Init, Unmixed, LinesWhole, EndsWith, Progress, Copying
<1>3. Counted => ProducerSound
  BY DEF Counted, ProducerSound, Copying
<1> QED BY <1>1, <1>2, <1>3, NextUnmixed, NextCounted, TypesInvariant, PTL DEF Spec

-----------------------------------------------------------------------------
(* What the transmitter sends when only its own handler interrupts main.   *)

\* Two bytes of the stream less than Size apart do not share a slot of the buffer.
LEMMA ModDistinct ==
  ASSUME NEW n \in Nat \ {0}, NEW a \in Nat, NEW b \in Nat, a < b, b - a < n
  PROVE  a % n # b % n
<1> DEFINE r == a % n
<1> SUFFICES ASSUME b % n = r PROVE FALSE
  OBVIOUS
<1>1. r \in 0 .. n - 1 /\ \E q \in Nat : a = (n * q) + r
  BY ModDivides
<1>2. \E q \in Nat : b = (n * q) + r
  BY ModDivides
<1> HIDE DEF r
<1>3. PICK p \in Nat : a = (n * p) + r
  BY <1>1
<1>4. PICK q \in Nat : b = (n * q) + r
  BY <1>2
<1>5. ASSUME NEW u \in Nat, NEW v \in Nat, u > v PROVE n * u >= (n * v) + n
  BY <1>5, SMT
<1>6. CASE q > p
  <2>1. n * q >= (n * p) + n
    BY <1>5, <1>6
  <2> QED BY <1>1, <1>3, <1>4, <2>1
<1>7. CASE q <= p
  <2>1. n * p >= n * q
    BY <1>5, <1>7
  <2> QED BY <1>1, <1>3, <1>4, <2>1
<1> QED BY <1>6, <1>7

\* How far one index is ahead of another.
LEMMA ModDifference ==
  ASSUME NEW n \in Nat \ {0}, NEW a \in Nat, NEW d \in 0 .. n - 1
  PROVE  (((a + d) % n) + n - (a % n)) % n = d
<1> DEFINE r == a % n
           s == (a + d) % n
<1>1. r \in 0 .. n - 1
  BY ModDivides
<1>2. s = (r + d) % n
  <2>1. d \in Nat
    OBVIOUS
  <2> QED BY <2>1, ModPlus
<1> HIDE DEF r, s
<1>3. CASE r + d < n
  <2>1. r + d \in 0 .. n - 1
    BY <1>1, <1>3
  <2>2. s = r + d
    BY <1>2, <2>1, ModSmall
  <2>3. s + n - r = (n * 1) + d /\ s + n - r \in Nat
    BY <1>1, <2>2
  <2>4. (s + n - r) % n = d
    BY <2>3, ModUnique
  <2> QED BY <2>4 DEF r, s
<1>4. CASE r + d >= n
  <2> DEFINE x == r + d
  <2>1. x \in Nat /\ x - n \in 0 .. n - 1 /\ x = (n * 1) + (x - n)
    BY <1>1, <1>4
  <2>2. x % n = x - n
    BY <2>1, ModUnique
  <2>3. s + n - r = d
    BY <1>1, <1>2, <2>2
  <2>4. d % n = d
    BY ModSmall
  <2> QED BY <2>3, <2>4 DEF r, s
<1> QED BY <1>1, <1>3, <1>4

\* Bytes of its line that main has still to put.
Remaining ==
  IF pc \in {"mask", "put"} THEN MainLen - i
  ELSE IF pc \in {"load", "bump", "wrap"} THEN MainLen - i - 1 ELSE 0

\* The bytes on the wire are the first of the stream; those behind them wait in the
\* buffer, each in its slot, and main's line does not reach them.  The transmitter's
\* handler does not run while main prints.
Sent ==
  irqs \subseteq {"tx"} =>
    /\ wire \in Seq(Byte) /\ Len(wire) <= Len(stream)
    /\ \A k \in 1 .. Len(wire) : wire[k] = stream[k]
    /\ \A k \in Len(wire) .. Len(stream) - 1 : buffer[k % Size] = stream[k + 1]
    /\ Len(stream) - Len(wire) + Remaining < Size
    /\ pc # "idle" => txEnabled = 0
    /\ pc = "sendload" => hw < 2 /\ Len(wire) < Len(stream)
    /\ IF pc \in {"sendbump", "sendwrap"}
         THEN /\ wire # << >>
              /\ consumer = ((Len(wire) - 1) % Size) + (IF pc = "sendwrap" THEN 1 ELSE 0)
         ELSE consumer = Len(wire) % Size
    /\ pc = "sendbump" => reg = consumer

\* A byte of main's line goes behind those that wait.
LEMMA PutSent ==
  ASSUME Types, Counted, Sent, Put, UNCHANGED irqs, irqs \subseteq {"tx"}
  PROVE  Sent'
<1> DEFINE byte == [line |-> lines, place |-> i + 1, last |-> i + 1 = MainLen]
           m == Len(stream)
<1>1. /\ pc = "put" /\ pc' = "load" /\ UNCHANGED <<i, wire, consumer, hw, txEnabled>>
      /\ buffer' = [buffer EXCEPT ![reg] = byte] /\ stream' = Append(stream, byte)
  BY DEF Put, masks, port
<1> HIDE DEF byte
<1>2. stream \in Seq(Byte) /\ buffer \in [0 .. Size -> Byte] /\ i \in 0 .. MainLen - 1
  BY <1>1, SizeFacts DEF Types, TypeOK, Indices, Copying, Byte
<1>3. m \in Nat /\ reg = m % Size /\ m % Size \in 0 .. Size - 1
  <2>1. m \in Nat
    BY <1>2
  <2>2. "edge" \notin irqs
    OBVIOUS
  <2>3. reg = m % Size
    BY <1>1, <2>2 DEF Counted
  <2> HIDE DEF m
  <2>4. m % Size \in 0 .. Size - 1
    BY <2>1, ModDivides, UsartAssumption
  <2> QED BY <2>1, <2>3, <2>4
<1>4. /\ Len(stream') = m + 1 /\ stream'[m + 1] = byte
      /\ \A k \in 1 .. m : stream'[k] = stream[k]
  BY <1>1, <1>2
<1>5. Len(wire) \in Nat /\ Len(wire) <= m /\ m - Len(wire) + (MainLen - i) < Size
  BY <1>1, <1>2 DEF Sent, Remaining
<1> HIDE DEF m
<1>6. ASSUME NEW k \in Len(wire) .. m - 1
      PROVE  buffer'[k % Size] = stream'[k + 1]
  <2>1. k \in Nat /\ k < m /\ m - k < Size /\ k + 1 \in 1 .. m
    BY <1>2, <1>3, <1>5, SizeFacts
  <2>2. k % Size # m % Size /\ k % Size \in 0 .. Size - 1
    BY <1>3, <2>1, ModDistinct, ModDivides, UsartAssumption
  <2>3. buffer'[k % Size] = buffer[k % Size]
    BY <1>1, <1>2, <1>3, <2>2
  <2>4. buffer[k % Size] = stream[k + 1]
    BY DEF Sent, m
  <2> QED BY <1>4, <2>1, <2>3, <2>4
<1>7. buffer'[m % Size] = stream'[m + 1]
  BY <1>1, <1>2, <1>3, <1>4, SizeFacts
<1>8. \A k \in Len(wire) .. m : buffer'[k % Size] = stream'[k + 1]
  BY <1>3, <1>5, <1>6, <1>7
<1>9. \A k \in 1 .. Len(wire) : wire[k] = stream'[k]
  BY <1>3, <1>4, <1>5 DEF Sent, m
<1>10. (m + 1) - Len(wire) + (MainLen - i - 1) < Size /\ m + 1 - 1 = m
  BY <1>2, <1>3, <1>5, SizeFacts
<1>11. /\ wire \in Seq(Byte) /\ pc' # "idle" /\ txEnabled = 0 /\ consumer = Len(wire) % Size
  BY <1>1 DEF Sent
<1> QED BY <1>1, <1>3, <1>4, <1>5, <1>8, <1>9, <1>10, <1>11 DEF Sent, Remaining, Byte

\* The slot k places further on, from a wrapped index.
LEMMA SlotIs ==
  ASSUME NEW a \in Nat, NEW k \in Nat
  PROVE  Slot(a % Size, k) = (a + k) % Size
<1>1. a % Size \in 0 .. Size - 1
  BY ModDivides, UsartAssumption
<1>2. ((a % Size) + k) % Size = (a + k) % Size
  BY ModPlus, UsartAssumption
<1>3. k = 0 => a + k = a
  OBVIOUS
<1> QED BY <1>1, <1>2, <1>3, SizeFacts DEF Slot

\* The handler takes the bytes that wait longest.
LEMMA TransmitSent ==
  ASSUME Types, Counted, Sent, TxInterrupt, UNCHANGED irqs, irqs \subseteq {"tx"}
  PROVE  Sent'
<1> DEFINE m == Len(stream)
           w == Len(wire)
           waiting == (producer + Size - consumer) % Size
           n == IF producer = consumer THEN 0
                ELSE IF waiting < 2 - hw THEN waiting ELSE 2 - hw
           taken == [k \in 1 .. n |-> buffer[Slot(consumer, k - 1)]]
<1>1. /\ txEnabled = 1 /\ UNCHANGED <<buffer, producer, stream, lines, pc, i, reg, txEnabled>>
  BY DEF TxInterrupt, ring, masks
<1>2. pc = "idle" /\ pc' = "idle"
  BY <1>1 DEF Sent
<1>3. /\ stream \in Seq(Byte) /\ wire \in Seq(Byte) /\ hw \in 0 .. 2
      /\ buffer \in [0 .. Size -> Byte]
  BY DEF Types, TypeOK, Byte, Sent
<1>4. /\ m \in Nat /\ w \in Nat /\ w <= m /\ m - w < Size
  BY <1>2, <1>3 DEF Sent, Remaining
<1>5. producer = m % Size /\ consumer = w % Size
  BY <1>2 DEF Counted, Sent
<1>6. wire' = wire \o taken /\ consumer' = IF n = 0 THEN consumer ELSE Slot(consumer, n)
  BY <1>1 DEF TxInterrupt, Transmit
<1>7. \A k \in w .. m - 1 : buffer[k % Size] = stream[k + 1]
  BY DEF Sent
<1>8. \A k \in 1 .. w : wire[k] = stream[k]
  BY DEF Sent
<1> HIDE DEF m, w
<1>9. waiting = m - w
  <2>1. m - w \in 0 .. Size - 1 /\ w + (m - w) = m
    BY <1>4, SizeFacts
  <2>2. (((w + (m - w)) % Size) + Size - (w % Size)) % Size = m - w
    BY <1>4, <2>1, ModDifference, UsartAssumption
  <2> QED BY <1>5, <2>1, <2>2
<1> HIDE DEF waiting
<1>10. n \in Nat /\ w + n <= m
  BY <1>3, <1>4, <1>9
<1> HIDE DEF n
<1>11. ASSUME NEW k \in 1 .. n
       PROVE  taken[k] = stream[w + k] /\ taken[k] \in Byte
  <2>1. w + (k - 1) \in w .. m - 1 /\ k - 1 \in Nat /\ w + (k - 1) + 1 = w + k /\ w + k \in 1 .. m
    BY <1>4, <1>10
  <2>2. Slot(consumer, k - 1) = (w + (k - 1)) % Size
    BY <1>4, <1>5, <2>1, SlotIs
  <2>3. buffer[(w + (k - 1)) % Size] = stream[w + k]
    BY <1>7, <2>1
  <2>4. stream[w + k] \in Byte
    BY <1>3, <2>1, ElementOfSeq DEF m
  <2> QED BY <2>2, <2>3, <2>4
<1>12. taken \in Seq(Byte) /\ Len(taken) = n
  BY <1>10, <1>11
<1> HIDE DEF taken
<1>13. /\ wire' \in Seq(Byte) /\ Len(wire') = w + n
       /\ \A k \in 1 .. w + n : wire'[k] = IF k <= w THEN wire[k] ELSE taken[k - w]
  <2> DEFINE S == Byte
  <2>1. wire \in Seq(S) /\ taken \in Seq(S)
    BY <1>3, <1>12
  <2> HIDE DEF S
  <2>2. /\ wire \o taken \in Seq(S) /\ Len(wire \o taken) = Len(wire) + Len(taken)
        /\ \A k \in 1 .. Len(wire) + Len(taken) :
             (wire \o taken)[k] = IF k <= Len(wire) THEN wire[k] ELSE taken[k - Len(wire)]
    BY <2>1, ConcatProperties
  <2> QED BY <1>6, <1>12, <2>2 DEF w, S
<1>14. \A k \in 1 .. w + n : wire'[k] = stream[k]
  <2> SUFFICES ASSUME NEW k \in 1 .. w + n PROVE wire'[k] = stream[k]
    OBVIOUS
  <2>1. CASE k <= w
    BY <1>4, <1>8, <1>13, <2>1
  <2>2. CASE k > w
    <3>1. k - w \in 1 .. n /\ w + (k - w) = k
      BY <1>4, <1>10, <2>2
    <3>2. taken[k - w] = stream[w + (k - w)]
      BY <1>11, <3>1
    <3>3. wire'[k] = taken[k - w]
      BY <1>4, <1>10, <1>13, <2>2
    <3> QED BY <3>1, <3>2, <3>3
  <2> QED BY <1>4, <1>10, <2>1, <2>2
<1>15. consumer' = (w + n) % Size
  <2>1. n = 0 => w + n = w
    BY <1>4
  <2> QED BY <1>4, <1>5, <1>6, <1>10, <2>1, SlotIs
<1>16. /\ m - (w + n) < Size /\ w + n <= m /\ \A k \in w + n .. m - 1 : k \in w .. m - 1
  BY <1>4, <1>10, SizeFacts
<1>17. \A k \in w + n .. m - 1 : buffer[k % Size] = stream[k + 1]
  BY <1>7, <1>16
<1>18. m - (w + n) + 0 < Size
  BY <1>4, <1>10, <1>16
<1> QED BY <1>1, <1>2, <1>13, <1>14, <1>15, <1>16, <1>17, <1>18 DEF Sent, Remaining, Byte, m

\* Main sends the byte that waits longest.
LEMMA SendLoadSent ==
  ASSUME Types, Sent, SendLoad, UNCHANGED irqs, irqs \subseteq {"tx"}
  PROVE  Sent'
<1> DEFINE m == Len(stream)
           w == Len(wire)
           byte == buffer[consumer]
<1>1. pc = "sendload" /\ pc' = "sendbump" /\ reg' = consumer
      /\ UNCHANGED <<buffer, stream, consumer, txEnabled, i>>
  BY DEF SendLoad, ring, masks
<1>2. hw < 2 /\ w < m /\ consumer = w % Size /\ txEnabled = 0 /\ wire \in Seq(Byte)
  BY <1>1 DEF Sent
<1>3. wire' = Append(wire, byte)
  BY <1>2 DEF SendLoad
<1>4. m \in Nat /\ w \in Nat /\ m - w < Size /\ stream \in Seq(Byte)
  BY <1>1, <1>2 DEF Sent, Remaining, Types
<1>5. byte = stream[w + 1] /\ stream[w + 1] \in Byte
  <2>1. w \in w .. m - 1 /\ w + 1 \in 1 .. m
    BY <1>2, <1>4
  <2>2. buffer[w % Size] = stream[w + 1]
    BY <2>1 DEF Sent
  <2>3. stream[w + 1] \in Byte
    BY <1>4, <2>1, ElementOfSeq
  <2> QED BY <1>2, <2>2, <2>3
<1> HIDE DEF byte
<1>6. /\ wire' \in Seq(Byte) /\ wire' # << >> /\ Len(wire') = w + 1 /\ wire'[w + 1] = byte
      /\ \A k \in 1 .. w : wire'[k] = wire[k]
  <2> DEFINE S == Byte
  <2>1. wire \in Seq(S) /\ byte \in S
    BY <1>2, <1>5
  <2> HIDE DEF S
  <2>2. /\ Append(wire, byte) \in Seq(S) /\ Len(Append(wire, byte)) = Len(wire) + 1
        /\ Append(wire, byte)[Len(wire) + 1] = byte
        /\ \A k \in 1 .. Len(wire) : Append(wire, byte)[k] = wire[k]
        /\ Append(wire, byte) # << >>
    BY <2>1, AppendProperties
  <2> QED BY <1>3, <2>2 DEF S
<1>7. \A k \in 1 .. w : wire[k] = stream[k]
  BY DEF Sent
<1>8. \A k \in w .. m - 1 : buffer[k % Size] = stream[k + 1]
  BY DEF Sent
<1> HIDE DEF m, w
<1>9. \A k \in 1 .. w + 1 : wire'[k] = stream[k]
  BY <1>4, <1>5, <1>6, <1>7
<1>10. /\ w + 1 <= m /\ m - (w + 1) + 0 < Size /\ w + 1 - 1 = w
       /\ \A k \in w + 1 .. m - 1 : k \in w .. m - 1
  BY <1>2, <1>4, SizeFacts
<1>11. \A k \in w + 1 .. m - 1 : buffer[k % Size] = stream[k + 1]
  BY <1>8, <1>10
<1>12. consumer = (w % Size) + 0
  <2>1. w % Size \in 0 .. Size - 1
    BY <1>4, ModDivides, UsartAssumption
  <2> QED BY <1>2, <2>1
<1>13. /\ Len(wire') <= Len(stream') /\ Len(stream') - Len(wire') + Remaining' < Size
       /\ consumer' = ((Len(wire') - 1) % Size) + 0
  <2>1. Len(stream') = m /\ Len(wire') = w + 1 /\ Remaining' = 0 /\ consumer' = consumer
    BY <1>1, <1>6 DEF Remaining, m
  <2>2. Len(wire') - 1 = w
    BY <1>4, <2>1
  <2> QED BY <1>10, <1>12, <2>1, <2>2
<1>14. /\ \A k \in 1 .. Len(wire') : wire'[k] = stream'[k]
       /\ \A k \in Len(wire') .. Len(stream') - 1 : buffer'[k % Size] = stream'[k + 1]
  BY <1>1, <1>6, <1>9, <1>11 DEF m
<1>15. wire' \in Seq(Byte') /\ wire' # << >> /\ txEnabled' = 0 /\ reg' = consumer'
  BY <1>1, <1>2, <1>6 DEF Byte
<1> QED BY <1>1, <1>13, <1>14, <1>15 DEF Sent

\* No other step of main sends or puts a byte; they leave the transmitter masked until
\* the last.
LEMMA MainSent ==
  ASSUME Types, Counted, Sent, UNCHANGED irqs, irqs \subseteq {"tx"},
         Printf \/ Mask \/ Load \/ Bump \/ Wrap \/ Test \/ SendBump \/ SendWrap \/ Unmask \/ Shift
  PROVE  Sent'
<1>1. UNCHANGED <<stream, wire, buffer>>
  BY DEF Printf, Mask, Load, Bump, Wrap, Test, SendBump, SendWrap, Unmask, Shift, ring, port
<1>2. /\ wire \in Seq(Byte) /\ Len(wire) <= Len(stream) /\ Len(wire) \in Nat /\ Len(stream) \in Nat
      /\ \A k \in 1 .. Len(wire) : wire[k] = stream[k]
      /\ \A k \in Len(wire) .. Len(stream) - 1 : buffer[k % Size] = stream[k + 1]
  BY DEF Sent, Types
<1>3. i \in 0 .. MainLen /\ hw \in 0 .. 2 /\ (Copying => i < MainLen) /\ (pc = "mask" => i = 0)
  BY DEF Types, TypeOK, Indices
<1>4. Len(stream) - Len(wire) + Remaining' < Size
  <2>1. Len(stream) - Len(wire) + Remaining < Size
    BY DEF Sent
  <2>2. CASE Printf
    BY <1>2, <2>2, SizeFacts DEF Printf, Paced, Remaining
  <2>3. CASE Mask
    BY <2>1, <2>3 DEF Mask, Remaining
  <2>4. CASE Load \/ Bump
    BY <2>1, <2>4 DEF Load, Bump, Remaining
  <2>5. CASE Wrap
    <3>1. pc = "wrap" /\ i' = i + 1 /\ pc' \in {"put", "test"}
      BY <2>5 DEF Wrap
    <3>2. Remaining' \in {MainLen - i - 1, 0} /\ Remaining = MainLen - i - 1 /\ i < MainLen
      BY <1>3, <3>1, SizeFacts DEF Remaining, Copying
    <3> QED BY <1>2, <1>3, <2>1, <3>2, SizeFacts
  <2>6. CASE Test \/ SendBump \/ SendWrap \/ Unmask \/ Shift
    BY <2>1, <2>6 DEF Test, SendBump, SendWrap, Unmask, Shift, ring, port, masks, Remaining
  <2> QED BY <2>2, <2>3, <2>4, <2>5, <2>6
<1>5. pc' # "idle" => txEnabled' = 0
  BY DEF Sent, Printf, Mask, Load, Bump, Wrap, Test, SendBump, SendWrap, Unmask, Shift, masks
<1>6. pc' = "sendload" => hw' < 2 /\ Len(wire) < Len(stream)
  <2>1. CASE Test
    <3>1. pc' = "sendload" => hw < 2 /\ producer # consumer
      BY <2>1 DEF Test
    <3>2. producer = Len(stream) % Size /\ consumer = Len(wire) % Size
      BY <2>1 DEF Test, Counted, Sent
    <3>3. hw' = hw /\ (Len(wire) = Len(stream) => producer = consumer)
      BY <2>1, <3>2 DEF Test, port
    <3> QED BY <1>2, <3>1, <3>3
  <2>2. CASE Shift
    BY <1>3, <2>2 DEF Shift, Sent
  <2>3. CASE ~Test /\ ~Shift
    BY <2>3 DEF Printf, Mask, Load, Bump, Wrap, SendBump, SendWrap, Unmask
  <2> QED BY <2>1, <2>2, <2>3
<1>7. /\ IF pc' \in {"sendbump", "sendwrap"}
           THEN /\ wire # << >>
                /\ consumer' = ((Len(wire) - 1) % Size) + (IF pc' = "sendwrap" THEN 1 ELSE 0)
           ELSE consumer' = Len(wire) % Size
      /\ pc' = "sendbump" => reg' = consumer'
  <2>1. CASE SendBump
    <3>1. /\ pc = "sendbump" /\ pc' = "sendwrap" /\ wire # << >> /\ reg = consumer
          /\ consumer = ((Len(wire) - 1) % Size) + 0 /\ consumer' = reg + 1
      BY <2>1 DEF SendBump, Sent
    <3> DEFINE behind == (Len(wire) - 1) % Size
    <3>2. behind \in Nat /\ consumer = behind + 0
      <4>1. Len(wire) - 1 \in Nat
        BY <1>2, <3>1
      <4> QED BY <3>1, <4>1, ModDivides, UsartAssumption
    <3> HIDE DEF behind
    <3>3. consumer' = behind + 1
      BY <3>1, <3>2
    <3> QED BY <3>1, <3>3 DEF behind
  <2>2. CASE SendWrap
    <3>1. /\ pc = "sendwrap" /\ pc' = "test" /\ wire # << >>
          /\ consumer = ((Len(wire) - 1) % Size) + 1 /\ consumer' = Wrapped(consumer)
      BY <2>2 DEF SendWrap, Sent
    <3>2. Len(wire) - 1 \in Nat /\ Len(wire) - 1 + 1 = Len(wire)
      BY <1>2, <3>1
    <3>3. Wrapped(((Len(wire) - 1) % Size) + 1) = (Len(wire) - 1 + 1) % Size
      BY <3>2, WrappedCounts
    <3> QED BY <3>1, <3>2, <3>3
  <2>3. CASE Printf \/ Mask \/ Load \/ Bump \/ Wrap \/ Test \/ Unmask
    <3>1. pc \notin {"sendload", "sendbump", "sendwrap"} /\ pc' \notin {"sendbump", "sendwrap"}
          /\ consumer' = consumer
      BY <2>3 DEF Printf, Mask, Load, Bump, Wrap, Test, Unmask, port
    <3> QED BY <3>1 DEF Sent
  <2>4. CASE Shift
    BY <2>4 DEF Shift, Sent
  <2> QED BY <2>1, <2>2, <2>3, <2>4
<1> QED BY <1>1, <1>2, <1>4, <1>5, <1>6, <1>7 DEF Sent, Byte

LEMMA NextSent ==
  ASSUME Types, Counted, Sent, [Next]_vars
  PROVE  Sent'
<1> SUFFICES ASSUME irqs' \subseteq {"tx"} PROVE Sent'
  BY DEF Sent
<1>1. irqs' = irqs
  BY DEF Next, vars
<1>2. CASE Put
  BY <1>1, <1>2, PutSent
<1>3. CASE SendLoad
  BY <1>1, <1>3, SendLoadSent
<1>4. CASE TxInterrupt
  BY <1>1, <1>4, TransmitSent
<1>5. CASE RxInterrupt \/ EdgeInterrupt
  BY <1>1, <1>5 DEF RxInterrupt, EdgeInterrupt
<1>6. CASE Printf \/ Mask \/ Load \/ Bump \/ Wrap \/ Test \/ SendBump \/ SendWrap \/ Unmask \/ Shift
  BY <1>1, <1>6, MainSent
<1>7. CASE UNCHANGED vars
  BY <1>1, <1>7 DEF Sent, Remaining, Byte, vars, ring, port, masks
<1> QED BY <1>2, <1>3, <1>4, <1>5, <1>6, <1>7 DEF Next, Main

\* For every size of the buffer and length of lines that main's delays keep from lapping
\* the consumer: as long as only the transmitter's own handler interrupts main, the port
\* sends exactly what was printed, once and in order (usart.c:15, 93-112).
THEOREM WireFollowsStream == Spec => []WireIsStream
<1>1. Init => Counted /\ Sent
  <2>1. 0 % Size = 0
    <3>1. 0 \in 0 .. Size - 1
      BY SizeFacts
    <3> QED BY <3>1, ModSmall, UsartAssumption
  <2> QED BY <2>1, SizeFacts DEF Init, Counted, Sent, Remaining
<1>2. Init => Unmixed
  BY DEF Init, Unmixed, LinesWhole, EndsWith, Progress, Copying
<1>3. Types /\ Sent => WireIsStream
  <2> SUFFICES ASSUME Types, Sent, irqs \subseteq {"tx"} PROVE IsPrefix(wire, stream)
    BY DEF WireIsStream
  <2>1. /\ Len(wire) \in Nat /\ Len(stream) \in Nat /\ Len(wire) <= Len(stream)
        /\ \A k \in 1 .. Len(wire) : wire[k] = stream[k]
    BY DEF Sent, Types
  <2> QED BY <2>1 DEF IsPrefix
<1> QED BY <1>1, <1>2, <1>3, NextUnmixed, NextCounted, NextSent, TypesInvariant, PTL DEF Spec
=============================================================================
