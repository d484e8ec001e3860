------------------------------ MODULE MCEngines ------------------------------
(* Instances of EnginesSystem for TLC. *)
EXTENDS EnginesSystem

MCCaps == {"A"}
MCCapOf == [c \in MCCaps |-> [base8 |-> 1, sealing |-> FALSE, tag |-> TRUE]]
MCRegs == {"rd"}

\* Granule 2 is on the stack, and both its words are cleared; the CPU uses
\* granule 1; the sweep covers both.
MCWrites == {[cap |-> "tagged", sd |-> TRUE, addr |-> 24, base |-> 16, top |-> 24]}
MCCpu == {[op |-> "store", g |-> 1], [op |-> "clc", g |-> 1]}
ShortSweep == [start8 |-> 1, end8 |-> 2]
LongSweep == [start8 |-> 0, end8 |-> 2]
=============================================================================
