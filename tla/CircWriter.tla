----------------------------- MODULE CircWriter -----------------------------
(***************************************************************************)
(* The callers of sdcard_write_from_circ_buffer (firmware/sdcard.c).       *)
(*                                                                         *)
(* Every printed line and every serial interrupt ends in _try_to_transmit  *)
(* (firmware/usart.c), which offers the print buffer to the SD card.  The  *)
(* writer prints debug messages while it works, so it calls itself through *)
(* USART0_printf; and whatever main executes, an interrupt handler may run *)
(* on top of it, to its end.  The calls in progress therefore form a       *)
(* stack: the top frame executes, and an interrupt is taken only when no   *)
(* frame of a handler is on the stack (the AVR runs handlers with the      *)
(* interrupt flag clear).                                                  *)
(*                                                                         *)
(* A byte is named by its place in the stream of printed bytes, so that    *)
(* the module can tell which bytes reach the card and in which order.      *)
(* This module starts when SPI_Init has set sd_card_is_ready; the serial   *)
(* side of _try_to_transmit and the byte-wise filling of the buffer are    *)
(* the subject of module Usart, the block number that a call advances once *)
(* it has released the lock that of module SdCard.                         *)
(***************************************************************************)
EXTENDS Integers, Sequences

CONSTANTS
  Size,        \* PRINT_BUFFER_SIZE (1024)
  Chunk,       \* bytes per block (512)
  LowRange,    \* an index is read in two bytes, the low one modulo LowRange (256)
  Backlogs,    \* where SPI_Init's messages may have left print_producer_idx
  Lines,       \* lengths of the lines printed or received
  Noise,       \* length of a debug message of the writer
  Interrupts,  \* the interrupts that may occur, a subset of {"rx", "tx", "edge"}
  CardFaults,  \* what the card may do wrong, a subset of {"command", "response", "timeout"}
  MaxBytes     \* bound: bytes printed

ASSUME CircWriterAssumption ==
  /\ Chunk \in Nat \ {0} /\ Size \in Nat /\ Size % Chunk = 0 /\ Size >= Chunk
  /\ LowRange \in Nat \ {0}
  /\ Lines \subseteq Nat \ {0} /\ Noise \in Nat /\ MaxBytes \in Nat
  /\ Backlogs \subseteq 0 .. Size - 1 /\ \A b \in Backlogs : b <= MaxBytes
  /\ Interrupts \subseteq {"rx", "tx", "edge"}
  /\ CardFaults \subseteq {"command", "response", "timeout"}

VARIABLES
  printed,      \* bytes printed since print_producer_idx was last 0 in SPI_Init; the
                \* index is this number modulo Size
  consumer,     \* sdcard_consumer_idx
  lock,         \* lock
  txMask,       \* 1 while USART0_printf has TXCIE0 cleared
  stack,        \* the calls in progress, innermost last
  log           \* history: the chunks the card took, in the order it took them

vars == <<printed, consumer, lock, txMask, stack, log>>

\* Where a call of sdcard_write_from_circ_buffer may be.
Labels == {"low", "high", "test", "lock", "room", "command", "send", "data",
           "response", "wait", "busy", "giveup", "unlock", "number", "metacommand", "metasend", "metadata",
           "metawait", "metabusy", "done"}

\* A call: who made it, where it is, and its locals.
Frame == [ by    : {"main", "isr"},   \* whether it runs in a handler
           in    : {"printf", "irq"}, \* whether USART0_printf called _try_to_transmit
           pc    : Labels,
           stop  : Nat,               \* the argument stop
           data  : Seq(Nat) ]         \* the bytes sent so far

TypeOK ==
  /\ printed \in Nat
  /\ consumer \in 0 .. Size - 1
  /\ lock \in {0, 1} /\ txMask \in {0, 1}
  /\ stack \in Seq(Frame)
  /\ log \in Seq(Seq(Nat))

Top  == stack[Len(stack)]
Idle == stack = << >>

Call(by, in) == [by |-> by, in |-> in, pc |-> "low", stop |-> 0, data |-> << >>]

\* The top frame continues as f.
Continue(f) == stack' = [stack EXCEPT ![Len(stack)] = f]
Goto(label) == Continue([Top EXCEPT !.pc = label])

\* The top call returns; a USART0_printf it belongs to then sets TXCIE0 (usart.c:191).
Return == /\ stack' = [j \in 1 .. Len(stack) - 1 |-> stack[j]]
          /\ txMask' = IF Top.in = "printf" THEN 0 ELSE txMask

\* Bytes that fit the bound on printed bytes.
Capped(n) == IF printed + n <= MaxBytes THEN n ELSE MaxBytes - printed

\* The top frame prints a debug message and continues at label once that nested
\* USART0_printf, and the call of the writer it makes in turn, have returned.
Debug(label) ==
  /\ printed' = printed + Capped(Noise)
  /\ txMask' = 1
  /\ stack' = Append([stack EXCEPT ![Len(stack)].pc = label], Call(Top.by, "printf"))

\* The byte in cell c of print_buffer: the newest one put there, 0 if it is one from
\* before the count of printed bytes began.
Cell(c) ==
  LET last == printed - 1 - ((printed - 1 - c) % Size)
  IN  IF last >= 0 THEN last + 1 ELSE 0

producerIdx == printed % Size

At(label) == ~Idle /\ Top.pc = label

OnlyStack == UNCHANGED <<printed, consumer, lock, txMask, log>>

\* Steps that do no more than go on, or print a debug message and go on.
Proceed(from, to) == At(from) /\ Goto(to) /\ OnlyStack
Report(from, to)  == At(from) /\ Debug(to) /\ UNCHANGED <<consumer, lock, log>>

-----------------------------------------------------------------------------
(* The callers.                                                            *)

\* main prints a line.
PrintLine ==
  /\ Idle
  /\ \E n \in Lines : printed + n <= MaxBytes /\ printed' = printed + n
  /\ txMask' = 1
  /\ stack' = <<Call("main", "printf")>>
  /\ UNCHANGED <<consumer, lock, log>>

\* No handler is running.
CanInterrupt == \A j \in 1 .. Len(stack) : stack[j].by = "main"

\* USART1_RX: the end of a sentence from the GPS.
RxInterrupt ==
  /\ CanInterrupt /\ "rx" \in Interrupts
  /\ \E n \in Lines : printed + n <= MaxBytes /\ printed' = printed + n
  /\ stack' = Append(stack, Call("isr", "irq"))
  /\ UNCHANGED <<consumer, lock, txMask, log>>

\* USART0_TX, when USART0_printf has not masked it.
TxInterrupt ==
  /\ CanInterrupt /\ "tx" \in Interrupts
  /\ txMask = 0
  /\ stack' = Append(stack, Call("isr", "irq"))
  /\ OnlyStack

\* PCINT3 and INT2: the handler prints a line.
EdgeInterrupt ==
  /\ CanInterrupt /\ "edge" \in Interrupts
  /\ \E n \in Lines : printed + n <= MaxBytes /\ printed' = printed + n
  /\ txMask' = 1
  /\ stack' = Append(stack, Call("isr", "printf"))
  /\ UNCHANGED <<consumer, lock, log>>

-----------------------------------------------------------------------------
(* sdcard_write_from_circ_buffer: entry.                                   *)

\* usart.c:65 evaluates print_producer_idx, a 16-bit variable, one byte at a time.
ReadLow ==
  /\ At("low")
  /\ Continue([Top EXCEPT !.pc = "high", !.stop = producerIdx % LowRange])
  /\ OnlyStack

ReadHigh ==
  /\ At("high")
  /\ Continue([Top EXCEPT !.pc = "test",
                          !.stop = @ + (producerIdx - (producerIdx % LowRange))])
  /\ OnlyStack

TestLockIgnored == Proceed("test", "lock")

TestLockSpins == lock = 0 /\ Proceed("test", "lock")

\* The test and the setting of lock are two steps; a call that finds the lock set
\* returns -1.
TestLock ==
  /\ At("test")
  /\ IF lock = 1 THEN Return ELSE Goto("lock") /\ UNCHANGED txMask
  /\ UNCHANGED <<printed, consumer, lock, log>>

TakeLock ==
  /\ At("lock")
  /\ lock' = 1
  /\ Goto("room")
  /\ UNCHANGED <<printed, consumer, txMask, log>>

AvailableNoWrap(stop) == stop - consumer
\* The bytes between the consumer index and stop, around the ring.
Available(stop) == IF consumer > stop THEN stop + Size - consumer ELSE stop - consumer

\* Less than a block: release the lock and return -1.
NoRoom ==
  /\ At("room") /\ Available(Top.stop) < Chunk
  /\ lock' = 0
  /\ Return
  /\ UNCHANGED <<printed, consumer, log>>

RoomTooSoon ==
  At("room") /\ Available(Top.stop) >= Chunk - 1 /\ Goto("command") /\ OnlyStack

Room == At("room") /\ Available(Top.stop) >= Chunk /\ Goto("command") /\ OnlyStack

-----------------------------------------------------------------------------
(* The block: CMD24, 512 bytes, the card's response, and its busy time.    *)

\* sdcard_cardCommand prints before it sends; its messages count as one.
Command == Report("command", "send")

Accept ==
  /\ At("send")
  /\ Continue([Top EXCEPT !.pc = "data", !.data = << >>])
  /\ OnlyStack

\* "write failed".
Refuse == "command" \in CardFaults /\ Report("send", "giveup")

SendByte ==
  /\ At("data") /\ Len(Top.data) < Chunk
  /\ Continue([Top EXCEPT !.data = Append(@, Cell((Len(@) + consumer) % Size))])
  /\ OnlyStack

AdvanceByOne(c) == (c + 1) % Size
Advance(c) == (c + Chunk) % Size

\* The consumer index moves on before the card has answered.
EndData ==
  /\ At("data") /\ Len(Top.data) = Chunk
  /\ consumer' = Advance(consumer)
  /\ Goto("response")
  /\ UNCHANGED <<printed, lock, txMask, log>>

Stored ==
  /\ At("response")
  /\ log' = Append(log, Top.data)
  /\ Goto("wait")
  /\ UNCHANGED <<printed, consumer, lock, txMask>>

\* "write not accepted".
Rejected == "response" \in CardFaults /\ Report("response", "giveup")

\* _spi_waitForToken prints, then polls the card.
Wait == Report("wait", "busy")

Finished == Proceed("busy", "unlock")

\* "write timeout".
TimedOut == "timeout" \in CardFaults /\ Report("busy", "giveup")

GiveUpLocked ==
  /\ At("giveup")
  /\ Return
  /\ UNCHANGED <<printed, consumer, lock, log>>

GiveUp ==
  /\ At("giveup")
  /\ lock' = 0
  /\ Return
  /\ UNCHANGED <<printed, consumer, log>>

-----------------------------------------------------------------------------
(* After the lock is released (sdcard.c:453).                              *)

Unlock ==
  /\ At("unlock")
  /\ lock' = 0
  /\ Goto("number")
  /\ UNCHANGED <<printed, consumer, txMask, log>>

\* The block number, which no call in progress depends on here, is advanced, and says
\* whether block 1 is due.
Due == \E l \in {"metacommand", "done"} : Proceed("number", l)

\* sdcard_write_metadata.
MetaCommand == Report("metacommand", "metasend")

MetaAccept == Proceed("metasend", "metadata")

\* "write failed", "write not accepted" and "write timeout": a message, and done.
MetaFails ==
  \/ "command" \in CardFaults /\ Report("metasend", "done")
  \/ "response" \in CardFaults /\ Report("metadata", "done")
  \/ "timeout" \in CardFaults /\ Report("metabusy", "done")

MetaStored == Proceed("metadata", "metawait")

MetaWait == Report("metawait", "metabusy")

MetaFinished == Proceed("metabusy", "done")

\* sdcard.c:466.
Done ==
  /\ At("done")
  /\ lock' = 0
  /\ Return
  /\ UNCHANGED <<printed, consumer, log>>

-----------------------------------------------------------------------------
Writer ==
  \/ ReadLow \/ ReadHigh \/ TestLock \/ TakeLock \/ NoRoom \/ Room
  \/ Command \/ Accept \/ Refuse \/ SendByte \/ EndData \/ Stored \/ Rejected
  \/ Wait \/ Finished \/ TimedOut \/ GiveUp
  \/ Unlock \/ Due
  \/ MetaCommand \/ MetaAccept \/ MetaFails \/ MetaStored \/ MetaWait \/ MetaFinished
  \/ Done

Next == PrintLine \/ RxInterrupt \/ TxInterrupt \/ EdgeInterrupt \/ Writer

\* SPI_Init has printed: the calls it made returned at once and left the rest of the
\* state as it is at reset (sdcard.c:387-397).
Init ==
  /\ printed \in Backlogs
  /\ consumer = 0 /\ lock = 0
  /\ txMask = 0 /\ stack = << >> /\ log = << >>

Spec == Init /\ [][Next]_vars

\* The processor executes what is on top, and after every interrupt at least one
\* instruction of the interrupted program.
Fairness == WF_vars(Writer) /\ SF_vars(Writer /\ Top.by = "main")

FairSpec == Spec /\ Fairness

-----------------------------------------------------------------------------
(* Properties.                                                             *)

\* Between taking the lock and releasing it.
Holding(f) == f.pc \in {"room", "command", "send", "data", "response", "wait", "busy",
                        "giveup", "unlock"}

\* Although lock is tested and set in two steps (sdcard.c:399-402), never are two
\* calls between them and line 453: a handler that gets in between is done before
\* the interrupted call goes on.
MutualExclusion ==
  \A i, j \in 1 .. Len(stack) : Holding(stack[i]) /\ Holding(stack[j]) => i = j

\* Every path out of the writer leaves the lock free: with no call in progress
\* the card can be written.
LockReleased == Idle => lock = 0

\* Every call returns, although calls nest and interrupts repeat: a call that
\* finds the lock set does not wait for it.
CallsReturn == ~Idle ~> Idle

-----------------------------------------------------------------------------
(* What the card receives as long as only the handler of the transmitter   *)
(* interrupts: it prints nothing, and finds less than a block or the lock  *)
(* set.                                                                    *)

\* The card takes every block it is offered.
Calm == Interrupts \subseteq {"tx"} /\ CardFaults = {}

\* A block takes a line or a message, and the debug messages of two commands, its own
\* and that of block 1, and of their busy times; the ring takes two blocks.  In the code
\* the longest line of main's loop has 88 bytes (main.c:120), and a command's messages 95
\* (sdcard.c:191-252): 88 + 4 * 95 and 95 + 4 * 95 of 512, and 2 * 512 of 1024.
Fits ==
  /\ \A n \in Lines \union {Noise} : n + 4 * Noise <= Chunk
  /\ 2 * Chunk <= Size

\* SPI_Init has left less than a block.  The code does not see to it: what it prints goes
\* round the ring, and how far depends on the card (sdcard.c:495-681).
ShortBacklog == \A b \in Backlogs : b < Chunk

\* The ring never laps the card: the debug messages of a write fit beside the bytes
\* it is writing and a new line (usart.c:177, sdcard.c:390-466).
NoOverrun == printed - Chunk * Len(log) <= Size

\* The k-th byte on the card, of chunks of Chunk bytes.
ByteOnCard(k) == log[1 + ((k - 1) \div Chunk)][1 + ((k - 1) % Chunk)]

\* What reaches the card is the stream of printed bytes, each once and in order.
Logged == INSTANCE ByteLog WITH out <- [k \in 1 .. Chunk * Len(log) |-> ByteOnCard(k)]
LogIsStream == Logged!Spec

\* "must have at least 512 bytes..." (sdcard.c:409): a call that goes on to write
\* has a block of bytes in the buffer that are not on the card yet.
EnoughBytes ==
  \A j \in 1 .. Len(stack) :
    stack[j].pc = "command" => (producerIdx - consumer) % Size >= Chunk

\* A call that has a chunk to write and still needs the block number for it, and one
\* that has written one and is not done.
Writing(f)   == f.pc \in {"command", "send", "data", "response", "wait", "busy", "giveup",
                          "unlock"}
Finishing(f) == f.pc \in {"number", "metacommand", "metasend", "metadata", "metawait",
                          "metabusy", "done"}

\* No call writes a chunk while another one advances the block number or rewrites block 1,
\* although the lock is free then (sdcard.c:453-466): the calls that get in between find
\* less than a block.  It is what module SdCard has as overtaken = 0, the hypothesis of
\* what it says of the order of the log and of the resume position.
NoOverlap ==
  \A i, j \in 1 .. Len(stack) : ~(Finishing(stack[i]) /\ Writing(stack[j]))
=============================================================================
