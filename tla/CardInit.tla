------------------------------ MODULE CardInit ------------------------------
(***************************************************************************)
(* The power-up handshake of SPI_Init with the card (firmware/sdcard.c),   *)
(* command by command, up to the moment the number of blocks is known.     *)
(*                                                                         *)
(* Module SdCard takes all of this in one step, Probe or ProbeFails; the   *)
(* handshake is shown to be just that, with the retries it makes, the      *)
(* return value it ignores, and the size it computes from the card's CSD   *)
(* register in the AVR's 16-bit int.  The R1 answer of a command is reduced *)
(* to what the code distinguishes.                                         *)
(***************************************************************************)
EXTENDS Naturals

CONSTANTS
  Byte,         \* values of a byte (256): an int has two bytes, a uint32_t four
  Unit,         \* blocks per unit of the card's size field (1024)
  Cards,        \* the size fields of the cards that may be inserted
  GoIdleTries,  \* tries of CMD0 (5)
  OpCondTries,  \* tries of ACMD41 (300)
  MaxBoots      \* bound: power-ups

\* A byte and its multiples are powers of two; the 22-bit size field of a card of
\* up to 2 TB makes a block number that fits in 32 bits.
ASSUME CardInitAssumption ==
  /\ Byte \in Nat /\ Byte > 1 /\ Byte % 2 = 0
  /\ Unit \in Nat /\ Unit > 0
  /\ Cards \subseteq [high : 0 .. Byte - 1, mid : 0 .. Byte - 1, low : 0 .. Byte - 1]
  /\ \A c \in Cards : (c.high + 1) * Byte * Byte * Unit <= Byte * Byte * Byte * Byte
  /\ GoIdleTries \in Nat \ {0} /\ OpCondTries \in Nat \ {0} /\ MaxBoots \in Nat

VARIABLES
  csd,    \* the card's size fields
  pc,     \* the command SPI_Init sends next, or how it ended
  tries,  \* its loop counter
  numberOfBlocks, \* _sdcard_number_of_blocks
  boots   \* power-ups so far

vars == <<csd, pc, tries, numberOfBlocks, boots>>

Word == Byte * Byte * Byte * Byte

TypeOK ==
  /\ csd \in [high : 0 .. Byte - 1, mid : 0 .. Byte - 1, low : 0 .. Byte - 1]
  /\ pc \in {"off", "cmd0", "cmd8", "acmd41", "cmd9", "failed", "done"}
  /\ tries \in 0 .. GoIdleTries + OpCondTries
  /\ numberOfBlocks \in 0 .. Word - 1
  /\ boots \in 0 .. MaxBoots

-----------------------------------------------------------------------------
(* The size of the card (sdcard.c:619-631, sdcard_csd.h).                  *)

\* Six bits of the high byte, the middle and the low byte make C_SIZE; the card
\* has C_SIZE + 1 units.
TrueBlocks(c) == (c.high * Byte * Byte + c.mid * Byte + c.low + 1) * Unit

\* c_size |= (c_size_mid << 8) | c_size_low: the right-hand side is an int, negative
\* when the middle byte has its top bit set, and sign-extended to 32 bits.
CSize(c) == c.mid * Byte + c.low
            + IF c.mid < Byte \div 2 THEN c.high * Byte * Byte
                                     ELSE (Byte * Byte - 1) * Byte * Byte

BlocksWithoutOne(c) == (CSize(c) * Unit) % Word
\* C_SIZE + 1 units, in 32 bits.
BlocksOf(c) == ((CSize(c) + 1) * Unit) % Word

-----------------------------------------------------------------------------
Init ==
  /\ csd \in Cards
  /\ pc = "off" /\ tries = 0 /\ numberOfBlocks = 0 /\ boots = 0

PowerOn ==
  /\ pc = "off" /\ boots < MaxBoots
  /\ pc' = "cmd0" /\ tries' = 0 /\ numberOfBlocks' = 0 /\ boots' = boots + 1
  /\ UNCHANGED csd

\* CMD0: the card says that it goes idle, or the answer is lost or another one.
GoIdle ==
  /\ pc = "cmd0"
  /\ \/ pc' = "cmd8" /\ tries' = 0
     \/ /\ tries' = tries + 1
        /\ pc' = IF tries' = GoIdleTries THEN "failed" ELSE "cmd0"
  /\ UNCHANGED <<csd, numberOfBlocks, boots>>

\* CMD8: a version 2 card for 3.3 V answers and echoes the test pattern.
IfCond ==
  /\ pc = "cmd8"
  /\ pc' \in {"acmd41", "failed"}
  /\ UNCHANGED <<csd, tries, numberOfBlocks, boots>>

OpCondForever ==
  /\ pc = "acmd41"
  /\ \/ pc' = "cmd9" /\ UNCHANGED tries
     \/ tries' = (tries + 1) % OpCondTries /\ UNCHANGED pc
  /\ UNCHANGED <<csd, numberOfBlocks, boots>>

\* CMD55 and ACMD41: the card says that it is ready, and the code goes on; after the
\* last try the code goes on as well (sdcard.c:569-586).
OpCond ==
  /\ pc = "acmd41"
  /\ \/ pc' = "cmd9" /\ UNCHANGED tries
     \/ /\ tries' = tries + 1
        /\ pc' = IF tries' = OpCondTries THEN "cmd9" ELSE "acmd41"
  /\ UNCHANGED <<csd, numberOfBlocks, boots>>

\* CMD9: the card sends its CSD, or it does not answer or sends no data and SPI_Init
\* ends.  Nothing else is checked: a card that answers before it is ready, when the
\* tries of ACMD41 have run out, gets as far as one that is.
SendCsd ==
  /\ pc = "cmd9"
  /\ \/ pc' = "done" /\ numberOfBlocks' = BlocksOf(csd)
     \/ pc' = "failed" /\ UNCHANGED numberOfBlocks
  /\ UNCHANGED <<csd, tries, boots>>

PowerOff ==
  /\ pc # "off"
  /\ pc' = "off"
  /\ UNCHANGED <<csd, tries, numberOfBlocks, boots>>

Handshake == GoIdle \/ IfCond \/ OpCond \/ SendCsd

Next == PowerOn \/ Handshake \/ PowerOff

Spec == Init /\ [][Next]_vars

\* The processor executes the handshake; every wait in it has a timeout.
FairSpec == Spec /\ WF_vars(Handshake)

-----------------------------------------------------------------------------
(* Properties.                                                             *)

\* Whatever the card answers or not, and also when it never says that it is ready, the
\* handshake ends (or the power does).
HandshakeEnds == (pc = "cmd0") ~> (pc \in {"failed", "done", "off"})

\* The handshake is one step of module SdCard, Probe or ProbeFails, and the number
\* of blocks is the card's; SdCard's Capacity stands for that number.
Capacity == 7
Card == INSTANCE SdCard WITH
  Capacity <- Capacity, MetaPeriod <- 3, MagicWord <- 7, FirstMeta <- {0},
  Leftovers <- {0}, Faults <- {}, Widths <- {}, MaxCalls <- 0, MaxChunks <- 0,
  MaxOvertaken <- 0,
  card <- [b \in 0 .. Capacity - 1 |-> 0],
  pc <- IF pc = "off" THEN "off" ELSE IF pc = "failed" THEN "log"
        ELSE IF pc = "done" THEN "id" ELSE "probe",
  numberOfBlocks <- IF numberOfBlocks = 0 THEN 0
                    ELSE IF numberOfBlocks = TrueBlocks(csd) THEN Capacity ELSE Capacity + 1,
  sector <- 0, ready <- 0, blockNumber <- 1, calls <- << >>,
  chunk <- 1, first <- 1, givenUp <- 0, overtaken <- 0, torn <- 0, head <- 0,
  misread <- 0, metaStale <- 0
ImplementsProbe == Card!Spec
=============================================================================
