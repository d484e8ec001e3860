-------------------------------- MODULE MCLsu --------------------------------
(* Instances of LoadStoreUnit for TLC. *)
EXTENDS LoadStoreUnit

Req(kind, we) == [kind |-> kind, we |-> we, cheriErr |-> FALSE, pmp |-> {}]

\* Loads and stores of every kind, one that cheri_ex has rejected, and one of
\* which the PMP rejects the second half; the bus may reject either.
MCCpu == {Req("mis", FALSE), Req("data", FALSE), Req("cap", TRUE), [Req("cap", FALSE) EXCEPT !.cheriErr = TRUE],
          [Req("mis", TRUE) EXCEPT !.pmp = {2}]}

\* The revocation engine: loads of capabilities.
MCEng == {Req("cap", FALSE)}
=============================================================================
