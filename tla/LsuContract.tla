----------------------------- MODULE LsuContract -----------------------------
(***************************************************************************)
(* The abstract specification of the load-store unit: the cycles of module *)
(* LsuPort, and the response that each of them delivers.                   *)
(***************************************************************************)
EXTENDS LsuPort

VARIABLE answered     \* the master that got its response in the last cycle, or "none"

ContractInit == PortInit /\ answered = "none"

ContractNext ==
    \E resp, cpuReq, tbreGood, done \in BOOLEAN :
        /\ PortCycle(resp, cpuReq, tbreGood, done)
        /\ answered' = IF resp THEN lsu.who ELSE "none"

ContractSpec == ContractInit /\ [][ContractNext]_<<lsu, answered>>
=============================================================================
