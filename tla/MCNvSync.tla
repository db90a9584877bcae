------------------------------ MODULE MCNvSync ------------------------------
(***************************************************************************)
(* Instances of NvSync: partitions 1 and 2 of two sectors of two words,    *)
(* packets of up to eleven words, so that a range may need more than one   *)
(* packet and a packet may hold more than one item.                        *)
(***************************************************************************)
EXTENDS NvSync

\* Two sectors in one range, two ranges, another partition, an unknown one.
TwoSectors == [part |-> 1, ranges |-> << [start |-> 0, count |-> 2, data |-> <<11, 12, 13, 14>>] >>]
TwoRanges  == [part |-> 1, ranges |-> << [start |-> 1, count |-> 1, data |-> <<21, 22>>],
                                         [start |-> 0, count |-> 1, data |-> <<23, 24>>] >>]
OtherPart  == [part |-> 2, ranges |-> << [start |-> 1, count |-> 1, data |-> <<31, 32>>] >>]
NoSuchPart == [part |-> 9, ranges |-> << [start |-> 0, count |-> 1, data |-> <<41, 42>>] >>]

MCRequests == {TwoSectors, TwoRanges, OtherPart, NoSuchPart}
=============================================================================
