-------------------------------- MODULE MCIf --------------------------------
(* Instances of IfStage for TLC: six halfwords of code. *)
EXTENDS IfStage

Pcc(b, t) == [base |-> b, top |-> t, exec |-> TRUE, debug |-> FALSE]
All == Pcc(0, 2 * HalfCount)
To(a, p) == [addr |-> a, pcc |-> p]

\* A 32-bit instruction at 0, a compressed one at 2, 32-bit ones across two
\* words at 3 and at 5, the last around the end of the address space, and then
\* a compressed one in the upper half of a word at 1.
MCCompressed == {1, 2}
MCBoot == To(0, All)

\* Into debug mode, in the middle of a word, with a PCC that covers all of
\* memory; to a region that ends in the middle of the instruction at 3; and with
\* a PCC that does not permit execution.
MCBranches == {To(3, [All EXCEPT !.debug = TRUE]), To(2, Pcc(4, 8)), To(5, [All EXCEPT !.exec = FALSE])}
=============================================================================
