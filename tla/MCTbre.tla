------------------------------- MODULE MCTbre -------------------------------
(* Instances of TbreSystem for TLC. *)
EXTENDS TbreSystem

MCCaps == {"A"}
MCCapOf == [c \in MCCaps |-> [base8 |-> 1, sealing |-> FALSE, tag |-> TRUE]]
MCRegs == {"rd"}

Csc(g) == [op |-> "csc", g |-> g, c |-> "A"]
Swl(g) == [op |-> "swl", g |-> g]

\* Stores of data and of a capability into the region, over what the engine has
\* loaded or is yet to load.
SweepOps == {Csc(1), Swl(1)}

\* A region of two granules, not the last of the window.
OneSweep == {[start8 |-> 0, end8 |-> 1]}
=============================================================================
