------------------------------- MODULE MCCap -------------------------------
(* Instances of Capability for TLC. *)
EXTENDS Capability

\* One permission taken away at a time, GL kept or not with all others.
MCMasks == {AllPerms} \cup {AllPerms \ {p} : p \in AllPerms}
MCHighs == {0, 2^CEXP_LO - 1, 2^(CPERMS_LO - 3) - 1}

\* None, one, and around what has one exponent, another and the last.
MCLengths == {0, 1, 7, 8, 15, 16, 30, 32, 63}

\* The root's bounds with all permissions, the root's permissions with all
\* bounds.
Explored ==
    at = "reg" =>
        \/ cap.valid /\ cap.cperms = CPERMS_TX /\ cap.otype = 0
        \/ addr = 0 /\ cap.exp = RESETEXP /\ cap.base = 0
=============================================================================
