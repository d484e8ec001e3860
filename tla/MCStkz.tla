------------------------------- MODULE MCStkz -------------------------------
(* Instances of StkzSystem for TLC: two 16-byte blocks and a half, so that  *)
(* a region can start in one block and end in the next.                     *)
EXTENDS StkzSystem

Tagged(a, b, t) == [cap |-> "tagged", sd |-> TRUE, addr |-> a, base |-> b, top |-> t]

\* A three-word run across a block boundary, a run down to address zero,
\* nothing to clear (address = base), an address above the top, and no store permission.
DisciplinedWrites ==
    {Tagged(24, 12, 32), Tagged(8, 0, 32), Tagged(16, 16, 32), Tagged(36, 16, 32),
     [Tagged(24, 12, 32) EXCEPT !.sd = FALSE]}

\* For the run in which ZTOPC is written in any cycle; NULL stops a run.
MixedWrites == {Tagged(24, 12, 32), Tagged(8, 0, 32), Tagged(36, 16, 32), NullZtop,
                [Tagged(20, 16, 24) EXCEPT !.sd = FALSE]}

BlockAligned == {Tagged(24, 16, 32)}

Access(op, cap, addr) == [op |-> op, cap |-> cap, addr |-> addr]

\* Capability accesses inside and below the region, words inside, above and in
\* the block of its base, and one that is misaligned inside the region.
AlignedAccesses ==
    {Access("load", TRUE, 16), Access("store", TRUE, 8), Access("store", FALSE, 12),
     Access("store", FALSE, 24), Access("load", FALSE, 4), Access("store", FALSE, 18)}

FewAccesses == {Access("load", TRUE, 16), Access("store", FALSE, 20)}

\* A misaligned load that starts in the block below the region.
StraddlingAccesses == {Access("load", FALSE, 14), Access("store", FALSE, 14)}
=============================================================================
