------------------------------- MODULE NvDirty -------------------------------
(***************************************************************************)
(* The dirty table of a partition: _markDirtyInfo of                       *)
(* src/apps/nvitem/nvitem_buf.c.                                           *)
(*                                                                         *)
(* The table has one bit per sector, 32 to a word.  A word is the set of   *)
(* its bits that are 1, so |= is union and a mask is an interval.  A range *)
(* of sectors is marked word by word: each iteration of the loop is a      *)
(* step.  NvBuf uses the table as the set of sectors that it stands for,   *)
(* which is Marked here.                                                   *)
(***************************************************************************)
EXTENDS Integers

CONSTANTS
    TableWords,   \* words of the table in use (at most RAMNV_DIRTYTABLE_MAXSIZE)
    Calls         \* the ranges <<start, scts>> that the CP may announce

WordBits     == 32
TableSectors == 0 .. WordBits * TableWords - 1

ASSUME TableAssumption == TableWords \in Nat \ {0}

\* A range of the partition.  A range may be empty (num = 0 in the request).
ASSUME CallsAssumption ==
    \A c \in Calls : /\ c \in Nat \X Nat
                     /\ c[1] \in TableSectors
                     /\ c[1] + c[2] <= WordBits * TableWords

VARIABLES
    markPc,   \* "idle", or "loop" while _markDirtyInfo runs
    dirty,    \* fromChannel.dirty: the set bits of every word
    bytes,    \* _bytes: index of the current word
    bits,     \* _bits: first bit of the current word
    scts,     \* sectors still to be marked
    want,     \* history: the sectors of all ranges announced so far
    slack     \* history: the sectors an empty range may have marked

markVars == <<markPc, dirty, bytes, bits, scts, want, slack>>

MarkInit == /\ markPc = "idle"
            /\ dirty = [i \in 0 .. TableWords - 1 |-> {}]
            /\ bytes = 0 /\ bits = 0 /\ scts = 0
            /\ want = {} /\ slack = {}

\* The call: the range is split into a word and a bit.
Call(start, n) ==
    /\ markPc = "idle"
    /\ markPc' = "loop"
    /\ bytes' = start \div WordBits
    /\ bits' = start % WordBits
    /\ scts' = n
    /\ want' = want \cup start .. start + n - 1
    /\ slack' = IF n = 0
                  THEN slack \cup start .. WordBits * (start \div WordBits) + WordBits - 1
                  ELSE slack
    /\ UNCHANGED dirty

\* Variant: a range that ends with the word leaves an empty rest.
MoreInclusive == WordBits - bits <= scts

\* The condition of the loop.
More == WordBits - bits < scts

\* _U32MASK << _bits
FillMask == bits .. WordBits - 1

\* An iteration of the loop: the rest of the word is marked.
Fill == /\ markPc = "loop"
        /\ More
        /\ dirty' = [dirty EXCEPT ![bytes] = @ \cup FillMask]
        /\ scts' = scts - (WordBits - bits)
        /\ bytes' = bytes + 1
        /\ bits' = 0
        /\ UNCHANGED <<markPc, want, slack>>

\* Variant: one sector less.
LastMasksShort == { bits .. bits + scts - 2 }

\* (_U32MASK >> (32 - scts)) << _bits.  With scts = 0 the shift is by 32, which
\* C leaves undefined: the processor shifts by 0 or shifts everything out.
LastMasks == IF scts > 0 THEN { bits .. bits + scts - 1 }
                         ELSE { {}, bits .. WordBits - 1 }

\* After the loop the rest of the range lies in one word.  The locals are gone.
Last == /\ markPc = "loop"
        /\ ~More
        /\ \E mask \in LastMasks : dirty' = [dirty EXCEPT ![bytes] = @ \cup mask]
        /\ markPc' = "idle" /\ bytes' = 0 /\ bits' = 0 /\ scts' = 0
        /\ UNCHANGED <<want, slack>>

MarkNext == \/ \E c \in Calls : Call(c[1], c[2])
            \/ Fill
            \/ Last

MarkSpec == MarkInit /\ [][MarkNext]_markVars

-----------------------------------------------------------------------------
(* Properties *)

\* The set of sectors that the table stands for.
Marked == {s \in TableSectors : s % WordBits \in dirty[s \div WordBits]}

\* Every mask written to the table fits the 32-bit word, and the loop counters
\* are in range.
MarkTypeOK == /\ markPc \in {"idle", "loop"}
              /\ dirty \in [0 .. TableWords - 1 -> SUBSET (0 .. WordBits - 1)]
              /\ bytes \in Nat /\ bits \in 0 .. WordBits - 1 /\ scts \in Nat
              /\ want \subseteq TableSectors /\ slack \subseteq TableSectors

\* While _markDirtyInfo runs, _bytes indexes a word of the table, also when the
\* range ends with the last word.
InTable == markPc = "loop" => bytes < TableWords

\* When it returns, every sector of every range announced is marked, however the
\* range lies over the words: a sector that is missed is never saved.
MarksTheRange == markPc = "idle" => want \subseteq Marked

\* And nothing else is, except for the rest of the word of an empty range.
MarksNothingElse == Marked \subseteq want \cup slack

\* The inductive invariant behind them.  The first sector not yet looked at:
Pos == WordBits * bytes + bits

\* what is still to be marked lies in the table and was asked for, and what was
\* asked for is marked or still to be marked.
Progress ==
    /\ markPc = "idle" => scts = 0
    /\ markPc = "loop" => bytes < TableWords /\ Pos + scts <= WordBits * TableWords
    /\ markPc = "loop" /\ scts = 0 => Pos .. WordBits * bytes + WordBits - 1 \subseteq slack
    /\ Pos .. Pos + scts - 1 \subseteq want
    /\ want \subseteq Marked \cup Pos .. Pos + scts - 1
    /\ Marked \subseteq want \cup slack
=============================================================================
