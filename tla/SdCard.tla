------------------------------- MODULE SdCard -------------------------------
(***************************************************************************)
(* The log on the SD card, across power cycles (firmware/sdcard.c).        *)
(*                                                                         *)
(* Block 0 of the card holds an identifying string, block 1 the block      *)
(* number at which logging resumes, and blocks 2 .. Capacity-1 are a ring  *)
(* of 512-byte chunks of serial output.  SPI_Init finds the resume         *)
(* position at power-up; sdcard_write_from_circ_buffer stores one chunk    *)
(* per call and every MetaPeriod-th block rewrites block 1.                *)
(*                                                                         *)
(* That function gives its lock back as soon as the card has the chunk     *)
(* (sdcard.c:453), and only then advances the block number, a volatile     *)
(* variable of four bytes, and rewrites block 1.  From there on interrupt  *)
(* handlers, and the messages it prints itself, may make further calls,    *)
(* each on top of the ones in progress and to its end.                     *)
(*                                                                         *)
(* This module is about the contents of the card, so a block is a number:  *)
(* what block 0 and block 1 read as, and, for a data block, the serial     *)
(* number of the chunk it holds (0: whatever was there before).  What a    *)
(* call does up to line 453, and whether a further one finds a chunk to    *)
(* write, is the subject of module CircWriter, the decoding of the card's  *)
(* size that of module CardInit.                                           *)
(***************************************************************************)
EXTENDS Naturals, Sequences

CONSTANTS
  Capacity,    \* number of 512-byte blocks of the card
  MetaPeriod,  \* block 1 is rewritten when the block number is a multiple of it (100)
  MagicWord,   \* block 0 of a marked card, read as a number ("GPS-" = 0x4750532d)
  FirstMeta,   \* what block 1 of a card may hold before it is first used
  Leftovers,   \* what the uninitialised sector buffer of SPI_Init may hold
  Faults,      \* the card errors that may occur, a subset of FaultKinds
  Widths,      \* how many values the bytes of the block number have that are loaded, or
               \* stored, when an interrupt comes (256, 256^2, 256^3)
  MaxCalls,    \* bound: calls in progress at once
  MaxChunks,   \* bound: chunks taken from the serial output
  MaxOvertaken,\* bound: chunks taken until one overtakes another, if one does
  MaxBoots     \* bound: power-ups

FaultKinds == {"read", "meta", "response", "timeout"}

\* sdcard.c:630 makes Capacity a multiple of 1024, MetaPeriod is 100; the last
\* conjunct holds of every card below 570 GB.
ASSUME CardAssumption ==
  /\ Capacity \in Nat /\ MetaPeriod \in Nat /\ MetaPeriod > 1
  /\ Capacity > 2 * MetaPeriod /\ Capacity > 3
  /\ MagicWord \in Nat /\ MagicWord >= Capacity
  /\ FirstMeta \subseteq Nat /\ Leftovers \subseteq Nat
  /\ Faults \subseteq FaultKinds
  /\ Widths \subseteq Nat \ {0, 1} /\ MaxCalls \in Nat
  /\ MaxChunks \in Nat /\ MaxOvertaken \in Nat /\ MaxBoots \in Nat

VARIABLES
  card,       \* the card: block number -> content; the only state that survives power-off
  pc,         \* where the firmware is
  sector,     \* inData, the sector buffer of SPI_Init
  ready,      \* sd_card_is_ready
  blockNumber,    \* _sdcard_block_number, the next block to write
  numberOfBlocks, \* _sdcard_number_of_blocks
  calls,      \* the calls that have stored a chunk and not returned, innermost last
  \* history, read by the properties only
  chunk,      \* serial number of the next chunk
  first,      \* serial number of the first chunk of this power-up
  givenUp,    \* 1 when a chunk of this power-up was given up
  overtaken,  \* 1 when at this power-up a chunk was taken while a call was in progress
  torn,       \* 1 when this was between two bytes of the block number or of block 1
  head,       \* block after the last stored one, 0 before the first store
  misread,    \* 1 when the identifying string was not read from block 0
  metaStale,  \* 1 when block 1 was rewritten wrongly or not, and that was not made up for
  boots       \* power-ups so far

globals == <<ready, blockNumber, numberOfBlocks>>
history == <<chunk, first, givenUp, overtaken, torn, head, misread, metaStale>>
vars == <<card, pc, sector, globals, calls, history, boots>>

Blocks     == 0 .. Capacity - 1
DataBlocks == 2 .. Capacity - 1

\* Where a call is: it loads the number, stores it plus one, compares it with the number
\* of blocks, stores a 2, tests it, and passes it to sdcard_write_metadata, which
\* prints messages before it transfers block 1.
Stages == {"load", "store", "compare", "reset", "test", "pass", "announce", "transfer"}

\* Whether a handler made the call, where it is, and what it has in its registers; the
\* bytes with width values are loaded or stored already.
Frame == [isr : BOOLEAN, pc : Stages, width : Nat \ {0}, reg : Nat]

TypeOK ==
  /\ card \in [Blocks -> Nat]
  /\ pc \in {"off", "probe", "id", "resume", "rewrite", "log"}
  /\ sector \in Nat
  /\ ready \in {0, 1}
  /\ blockNumber \in Nat /\ numberOfBlocks \in {0, Capacity}
  /\ chunk \in Nat /\ first \in Nat /\ first <= chunk /\ boots \in Nat
  /\ givenUp \in {0, 1} /\ misread \in {0, 1} /\ metaStale \in {0, 1}
  /\ overtaken \in {0, 1} /\ torn \in {0, 1}
  /\ head \in Blocks
  /\ calls \in Seq(Frame)

-----------------------------------------------------------------------------
(* The block number.                                                       *)

\* PastEnd, Resume, MetaDue and IdMatches are the code's; the variants stated
\* before them are slips that the properties must tell from the code.
PastEndByOne(b) == b > numberOfBlocks
PastEndEarly(b) == b + 1 >= numberOfBlocks
PastEnd(b) == b >= numberOfBlocks

ResumeUnclamped(n) == n
\* The resume position read from block 1, made a block of the ring.
Resume(n) == IF n <= 1 \/ n >= numberOfBlocks THEN 2 ELSE n

MetaDueOnce(b) == b = MetaPeriod
MetaDue(b) == b % MetaPeriod = 0

\* The lower bytes of one number, of width values, and the upper ones of another.
Mix(width, lower, upper) == (lower % width) + (upper - (upper % width))

\* The block after b in the ring: past the last block of the card, block 2.
NextBlock(b) == IF b + 1 >= Capacity THEN 2 ELSE b + 1

-----------------------------------------------------------------------------
(* Power-up: SPI_Init, one action per exchange with the card, so that the  *)
(* power may fail between any two.                                         *)

Init ==
  /\ \E id \in {0, MagicWord}, m \in FirstMeta :
       card = [b \in Blocks |-> IF b = 0 THEN id ELSE IF b = 1 THEN m ELSE 0]
  /\ pc = "off" /\ sector = 0 /\ ready = 0
  /\ blockNumber = 1 /\ numberOfBlocks = 0
  /\ calls = << >>
  /\ chunk = 1 /\ first = 1 /\ givenUp = 0 /\ overtaken = 0 /\ torn = 0
  /\ head = 0 /\ misread = 0 /\ metaStale = 0 /\ boots = 0

\* Reset: the globals get their initial values, the stack keeps what the
\* memory happens to hold.
PowerOn ==
  /\ pc = "off" /\ boots < MaxBoots
  /\ pc' = "probe"
  /\ boots' = boots + 1
  /\ \E w \in Leftovers : sector' = w
  /\ ready' = 0 /\ blockNumber' = 1 /\ numberOfBlocks' = 0
  /\ first' = chunk /\ givenUp' = 0 /\ overtaken' = 0 /\ torn' = 0
  /\ metaStale' = IF overtaken = 1 THEN 1 ELSE metaStale
  /\ UNCHANGED <<card, calls, chunk, head, misread>>

\* The card answers CMD0, CMD8 and CMD9 and the size is taken from its CSD.
Probe ==
  /\ pc = "probe"
  /\ pc' = "id"
  /\ numberOfBlocks' = Capacity
  /\ UNCHANGED <<card, sector, ready, blockNumber, calls, history, boots>>

\* One of the exchanges fails and SPI_Init returns -1: main logs without a card.
ProbeFails ==
  /\ pc = "probe"
  /\ pc' = "log"
  /\ UNCHANGED <<card, sector, globals, calls, history, boots>>

\* CMD17 and _spi_read_transfer: the buffer gets block b; when the read fails
\* it keeps what it held, and SPI_Init looks at neither return value.
ReadSector(b) ==
  \/ sector' = card[b]
  \/ "read" \in Faults /\ sector' = sector

IdAny(word) == TRUE
IdMatches(word) == word = MagicWord

\* Block 0 must begin with the string, or SPI_Init returns -2.
ReadId ==
  /\ pc = "id"
  /\ ReadSector(0)
  /\ misread' = IF sector' = card[0] THEN 0 ELSE 1
  /\ pc' = IF IdMatches(sector') THEN "resume" ELSE "log"
  /\ UNCHANGED <<card, globals, calls, chunk, first, givenUp, overtaken, torn, head,
                 metaStale, boots>>

ReadResume ==
  /\ pc = "resume"
  /\ ReadSector(1)
  /\ blockNumber' = Resume(sector')
  /\ pc' = "rewrite"
  /\ UNCHANGED <<card, ready, numberOfBlocks, calls, history, boots>>

\* sdcard_write_metadata: block 1 gets the block number, or the card refuses
\* or times out and nobody is told.
WriteMetadata(number) ==
  \/ card' = [card EXCEPT ![1] = number]
  \/ "meta" \in Faults /\ card' = card

\* SPI_Init writes the position back and declares the card ready.
RewriteResume ==
  /\ pc = "rewrite"
  /\ WriteMetadata(blockNumber)
  /\ metaStale' = IF card'[1] # blockNumber \/ sector # card[1] THEN 1 ELSE metaStale
  /\ ready' = 1
  /\ pc' = "log"
  /\ UNCHANGED <<sector, blockNumber, numberOfBlocks, calls, chunk, first, givenUp,
                 overtaken, torn, head, misread, boots>>

-----------------------------------------------------------------------------
(* Logging: a call of sdcard_write_from_circ_buffer that finds the lock     *)
(* free and 512 bytes to write, up to line 453, in one step: meanwhile the  *)
(* lock is set, and other calls return.  A call whose CMD24 is refused, as  *)
(* it is for a block the card does not have, returns -4 and leaves all of   *)
(* this state as it was: the chunk is offered again by the next call.      *)

InProgress == calls # << >>
Current == calls[Len(calls)]

\* main calls when it has no call in progress, or prints a message; a handler when no
\* other one runs.
MayCall(isr) ==
  InProgress => \/ Current.pc = "announce" /\ isr = Current.isr
                \/ isr /\ \A i \in 1 .. Len(calls) : ~calls[i].isr

\* The number, or block 1, is half way between the call in progress and memory or card.
Exposed(call) == call.width # 1 \/ call.pc = "transfer"
Overtake == /\ overtaken' = IF InProgress THEN 1 ELSE overtaken
            /\ torn' = IF InProgress /\ Exposed(Current) THEN 1 ELSE torn

TakeChunk(isr) ==
  /\ pc = "log" /\ ready = 1
  /\ chunk < IF InProgress \/ overtaken = 1 THEN MaxOvertaken ELSE MaxChunks
  /\ MayCall(isr)
  /\ blockNumber \in Blocks
  /\ chunk' = chunk + 1
  /\ Overtake
  /\ UNCHANGED <<pc, sector, globals, first, misread, boots>>

\* The card takes the chunk.
StoreChunk(isr) ==
  /\ TakeChunk(isr) /\ Len(calls) < MaxCalls
  /\ card' = [card EXCEPT ![blockNumber] = chunk]
  /\ calls' = Append(calls, [isr |-> isr, pc |-> "load", width |-> 1, reg |-> 0])
  /\ head' = NextBlock(blockNumber)
  /\ metaStale' = IF card[1] = blockNumber THEN 0 ELSE metaStale
  /\ UNCHANGED givenUp

\* "write not accepted": sdcard_consumer_idx is past the chunk already.  A card that is
\* in the middle of block 1 takes the command for data, and the chunk is lost as well.
RejectChunk(isr) ==
  /\ TakeChunk(isr)
  /\ "response" \in Faults \/ (InProgress /\ Current.pc = "transfer")
  /\ givenUp' = 1
  /\ UNCHANGED <<card, calls, head, metaStale>>

\* "write timeout": the card may or may not hold the chunk, the block number
\* stays and the next chunk goes to the same block.
TimeoutChunk(isr) ==
  /\ TakeChunk(isr) /\ "timeout" \in Faults
  /\ card' = card \/ card' = [card EXCEPT ![blockNumber] = chunk]
  /\ givenUp' = 1
  /\ UNCHANGED <<calls, head, metaStale>>

\* A call whose CMD24 comes in the middle of block 1 is refused, but disturbs it.
RefuseChunk ==
  /\ pc = "log" /\ InProgress /\ Current.pc = "transfer" /\ MayCall(TRUE)
  /\ Overtake
  /\ UNCHANGED <<card, pc, sector, globals, calls, chunk, first, givenUp, head, misread,
                 metaStale, boots>>

-----------------------------------------------------------------------------
(* The rest of the call (sdcard.c:455-464), one step per access to the     *)
(* block number; only the innermost call executes.  One point of each      *)
(* access at which an interrupt comes is enough, as nothing is claimed     *)
(* after one that takes a chunk there.                                     *)

Executes(stage) == InProgress /\ Current.pc = stage
Continue(call) == calls' = [calls EXCEPT ![Len(calls)] = call]
Goto(stage, reg) == Continue([Current EXCEPT !.pc = stage, !.width = 1, !.reg = reg])
Return == calls' = SubSeq(calls, 1, Len(calls) - 1)

\* The lower bytes are loaded.
LoadLower ==
  /\ InProgress /\ Current.pc \in {"load", "compare", "test", "pass"} /\ Current.width = 1
  /\ \E w \in Widths : Continue([Current EXCEPT !.width = w, !.reg = blockNumber % w])
  /\ UNCHANGED <<card, pc, sector, globals, history, boots>>

Loaded == Mix(Current.width, Current.reg, blockNumber)

\* The lower bytes are stored.
StoreLower ==
  /\ InProgress /\ Current.pc \in {"store", "reset"} /\ Current.width = 1
  /\ \E w \in Widths : /\ Continue([Current EXCEPT !.width = w])
                       /\ blockNumber' = Mix(w, Current.reg, blockNumber)
  /\ UNCHANGED <<card, pc, sector, ready, numberOfBlocks, history, boots>>

Stored == Mix(Current.width, blockNumber, Current.reg)

LoadNumber ==
  /\ Executes("load")
  /\ Goto("store", Loaded + 1)
  /\ UNCHANGED <<card, pc, sector, globals, history, boots>>

StoreNumber ==
  /\ Executes("store")
  /\ blockNumber' = Stored
  /\ Goto("compare", 0)
  /\ UNCHANGED <<card, pc, sector, ready, numberOfBlocks, history, boots>>

CompareNumber ==
  /\ Executes("compare")
  /\ IF PastEnd(Loaded) THEN Goto("reset", 2) ELSE Goto("test", 0)
  /\ UNCHANGED <<card, pc, sector, globals, history, boots>>

ResetNumber ==
  /\ Executes("reset")
  /\ blockNumber' = Stored
  /\ Goto("test", 0)
  /\ UNCHANGED <<card, pc, sector, ready, numberOfBlocks, history, boots>>

\* Block 1 is rewritten when the number is a multiple of MetaPeriod, or the call returns.
TestNumber ==
  /\ Executes("test")
  /\ IF MetaDue(Loaded) THEN Goto("pass", 0) ELSE Return
  /\ UNCHANGED <<card, pc, sector, globals, history, boots>>

PassNumber ==
  /\ Executes("pass")
  /\ Goto("announce", Loaded)
  /\ UNCHANGED <<card, pc, sector, globals, history, boots>>

StartMeta ==
  /\ Executes("announce")
  /\ Goto("transfer", Current.reg)
  /\ UNCHANGED <<card, pc, sector, globals, history, boots>>

\* The periodic rewrite of block 1; when it was disturbed, anything may be there.
EndMeta ==
  /\ Executes("transfer")
  /\ \/ WriteMetadata(Current.reg)
     \/ torn = 1 /\ \E m \in FirstMeta : card' = [card EXCEPT ![1] = m]
  /\ metaStale' = IF card'[1] # Current.reg THEN 1 ELSE 0
  /\ Return
  /\ UNCHANGED <<pc, sector, globals, chunk, first, givenUp, overtaken, torn, head, misread,
                 boots>>

\* The power may go at any time; only the card remembers.
PowerOff ==
  /\ pc # "off"
  /\ pc' = "off" /\ ready' = 0 /\ calls' = << >>
  /\ UNCHANGED <<card, sector, blockNumber, numberOfBlocks, history, boots>>

Advance ==
  \/ LoadLower \/ StoreLower \/ LoadNumber \/ StoreNumber \/ CompareNumber \/ ResetNumber
  \/ TestNumber \/ PassNumber \/ StartMeta \/ EndMeta

Next ==
  \/ PowerOn \/ Probe \/ ProbeFails \/ ReadId \/ ReadResume \/ RewriteResume
  \/ \E isr \in BOOLEAN : StoreChunk(isr) \/ RejectChunk(isr) \/ TimeoutChunk(isr)
  \/ RefuseChunk
  \/ Advance
  \/ PowerOff

Spec == Init /\ [][Next]_vars

-----------------------------------------------------------------------------
(* Properties.  No interrupt is excluded.  Most of them have a hypothesis   *)
(* about what interrupts did: overtaken = 0 is what module CircWriter has  *)
(* as NoOverlap, and the run card_overtaken shows what happens otherwise.  *)

\* Writes it takes the ring to get from block a to block b.
RingDistance(a, b) == IF a <= b THEN b - a ELSE (Capacity - a) + (b - 2)

\* The block k places before b in the ring.
Back(b, k) == 2 + (((b - 2) + (Capacity - 2) - k) % (Capacity - 2))

\* Whatever block 1 held at power-up, and whatever calls came in during others, the
\* block number is one of the ring again when none is in progress, unless one came in
\* between two bytes of it (sdcard.c:455-458 and the clamping of sdcard.c:675-679).
HeadInRing == ready = 1 /\ torn = 0 /\ ~InProgress => blockNumber \in DataBlocks

\* The firmware never changes block 0, and what it puts in block 1 is always a
\* block of the ring, so the next SPI_Init can use it as it is: also when calls came in
\* during others, which see the number before it is wrapped, and may write an older one
\* to block 1 after a newer one; but not when one came in between two bytes.  Then a
\* chunk can go to block 0, on the way from block 0xffff to 0x10000.
ReservedBlocks ==
  [][torn' = 0 => /\ card'[0] = card[0]
                  /\ card'[1] # card[1] => card'[1] \in DataBlocks]_card

\* "Before writing to the card, we will check for a unique string" (sdcard.c:30):
\* a card whose block 0 is not the identifying string is never written, provided
\* the read of block 0 at this power-up succeeded (nothing checks that it did).
OnlyMarkedCards == [][misread = 0 /\ torn = 0 => card[0] = MagicWord]_card

\* A restart rewinds by less than two update periods: from the position in
\* block 1 to the place after the newest chunk it is at most 2 * MetaPeriod - 2
\* writes, provided block 1 was read and rewritten successfully (sdcard.c:460-464
\* and the wrap of the block number, which may skip an update) and no call overtook
\* another, as then neither may see the multiple of MetaPeriod.
RestartRewind ==
  head # 0 /\ metaStale = 0 /\ overtaken = 0 =>
    RingDistance(card[1], head) <= 2 * MetaPeriod - 2

\* Where the next chunk goes when the call in progress is done.
WritePosition == IF InProgress THEN head ELSE blockNumber

RingHolds ==
  \A k \in 1 .. Capacity - 2 :
    k <= chunk - first => card[Back(WritePosition, k)] = chunk - k

\* While no chunk was given up and no call overtook another, the ring holds all chunks
\* of this power-up, or as many as fit, each right after its predecessor and the newest
\* just before the write position.
LogComplete == ready = 1 /\ givenUp = 0 /\ overtaken = 0 => RingHolds

\* Whatever the card refuses or times out on, the chunks of this power-up that
\* are on the card stand in the order they were taken: only around the write
\* position does the ring step back in time.
LogOrdered ==
  ready = 1 /\ overtaken = 0 =>
    \A b \in DataBlocks :
      (b # WritePosition /\ NextBlock(b) # WritePosition
       /\ card[b] >= first /\ card[NextBlock(b)] >= first)
      => card[b] < card[NextBlock(b)]

-----------------------------------------------------------------------------
(* What the documentation says.                                            *)

\* README.md:28, "Blocks #2 through max is the ring buffer": with a card that takes
\* every chunk, each is in the block after the one before.
SuccessiveBlocks == ready = 1 /\ givenUp = 0 => RingHolds
=============================================================================
