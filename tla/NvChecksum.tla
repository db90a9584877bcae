----------------------------- MODULE NvChecksum -----------------------------
(***************************************************************************)
(* The checksum of an NV image: calc_checksum of                           *)
(* src/apps/nvitem/nvitem_fs.c, which decides (_chkNVEcc) whether an image *)
(* is used after a restart.                                                *)
(*                                                                         *)
(* Two buffers of the same length are summed in step: the image as it was  *)
(* written and the image as it is read back, in which one 16-bit word, or  *)
(* the odd byte at the end, may have changed.  The buffers may have any    *)
(* length: the 32-bit accumulator wraps.                                   *)
(***************************************************************************)
EXTENDS Integers

CONSTANTS
    Byte,   \* number of values of a byte: 2^8
    Word,   \* of num, an unsigned short: 2^16
    Acc     \* of chkSum, an unsigned long of the 32-bit build: 2^32

ASSUME WidthsAssumption == /\ Byte \in Nat /\ Byte > 1
                           /\ Word = Byte * Byte
                           /\ Acc = Word * Word

VARIABLES
    phase,     \* "sum" in the loop, "done" after the odd byte
    chkSum,    \* the accumulator for the image as written
    readSum,   \* the accumulator for the image as read
    changed,   \* history: the word written and the word read, or <<0, 0>>
    blanks     \* history: number of words, if all of them have all bits set; else -1

sumVars == <<phase, chkSum, readSum, changed, blanks>>

NoChange == <<0, 0>>

SumInit == /\ phase = "sum"
           /\ chkSum = 0 /\ readSum = 0
           /\ changed = NoChange
           /\ blanks = 0

\* chkSum += num
Add(c, w) == (c + w) % Acc

\* An iteration of the loop: the word w was written, v is read.
SumWord(w, v) ==
    /\ phase = "sum"
    /\ w # v => changed = NoChange
    /\ chkSum' = Add(chkSum, w)
    /\ readSum' = Add(readSum, v)
    /\ changed' = IF w # v THEN <<w, v>> ELSE changed
    /\ blanks' = IF blanks # -1 /\ w = Word - 1 /\ blanks <= Word + 1 THEN blanks + 1 ELSE -1
    /\ UNCHANGED phase

\* Variant: the odd byte is left out.
OddByteIgnored(b) == 0

\* What the odd byte adds.
OddByte(b) == b

\* The byte after the last word, if the length is odd.
SumOddByte(b, d) ==
    /\ phase = "sum"
    /\ b # d => changed = NoChange
    /\ phase' = "done"
    /\ chkSum' = Add(chkSum, OddByte(b))
    /\ readSum' = Add(readSum, OddByte(d))
    /\ changed' = IF b # d THEN <<b, d>> ELSE changed
    /\ blanks' = -1

SumNext == \/ \E w, v \in 0 .. Word - 1 : SumWord(w, v)
           \/ \E b, d \in 0 .. Byte - 1 : SumOddByte(b, d)

SumSpec == SumInit /\ [][SumNext]_sumVars

\* Variant: the carry of the first fold is lost.
FoldOnce(c) == ((c \div Word) + (c % Word)) % Word

\* The two folds, as an unsigned short.
Fold(c) ==
    LET c1 == (c \div Word) + (c % Word)
    IN  (c1 + (c1 \div Word)) % Word

\* The result, if the buffer ended here.
Checksum(c) == Word - 1 - Fold(c)

-----------------------------------------------------------------------------
(* Properties *)

\* The accumulators stay within the 32-bit unsigned long they are kept in.
SumTypeOK == /\ phase \in {"sum", "done"}
             /\ chkSum \in Nat /\ chkSum < Acc
             /\ readSum \in Nat /\ readSum < Acc
             /\ changed \in Nat \X Nat /\ changed[1] < Word /\ changed[2] < Word
             /\ blanks \in Int /\ -1 <= blanks /\ blanks <= Word + 2

\* _chkNVEcc notices every change of one word, however long the image is and even
\* if the accumulator wraps in one of the sums only.  A word of zeros and a word
\* of ones are the only two that it takes for each other.
ChangeNoticed ==
    changed[1] # changed[2] /\ {changed[1], changed[2]} # {0, Word - 1}
    => Checksum(chkSum) # Checksum(readSum)

\* The two folds compute the ones' complement sum of a whole accumulator.
SumsLikeOnesComplement ==
    Fold(chkSum) = IF chkSum = 0 THEN 0 ELSE ((chkSum - 1) % (Word - 1)) + 1

\* A blank image (all bytes 0xFF) of at most Word + 1 words has the checksum 0:
\* with a header of zeros it passes for valid.
BlankSumsToZero == blanks \in 1 .. Word + 1 => Checksum(chkSum) = 0
=============================================================================
