------------------------------ MODULE LsuPort ------------------------------
(***************************************************************************)
(* What the load-store unit (rtl/ibex_load_store_unit.sv) promises to the  *)
(* masters that share it: the CPU pipeline ("cpu") and the background      *)
(* engines behind cheri_tbre_wrapper.sv ("tbre": the revocation engine and *)
(* the stack zeroiser).  One step is one clock cycle.                      *)
(*                                                                         *)
(* The unit serves one request at a time.  A request is taken in a cycle   *)
(* in which the unit is free, or in which the response to the previous one *)
(* is delivered; it is done (lsu_req_done) in that cycle or in a later     *)
(* one; its response is delivered in a cycle after the one it is done in.  *)
(* Between taking a request and its done no other master is served, so a   *)
(* two-word access is not interleaved with another master's.               *)
(*                                                                         *)
(* The systems around the engines use this module in place of the unit;    *)
(* LsuContract makes a specification of it, which LoadStoreUnit is shown   *)
(* to implement.                                                           *)
(***************************************************************************)
EXTENDS Integers

VARIABLE lsu      \* [st, who]: what the unit is doing, and for which master

Masters == {"cpu", "tbre"}

\* "busy": ls_fsm_cs # IDLE; "resp": ls_fsm_cs = IDLE and a response is
\* outstanding; "free": neither.
LsuStates == [st : {"free"}, who : {"none"}]
             \cup [st : {"busy", "resp"}, who : Masters]

LsuFree == [st |-> "free", who |-> "none"]

PortTypeOK == lsu \in LsuStates

PortInit == lsu = LsuFree

\* The master served in this cycle.  resp: the outstanding response is
\* delivered in this cycle (otherwise resp_wait holds new requests back);
\* tbreGood: tbre_req_good; cpuReq: cpu_req_valid or cpu_req_erred.
Server(resp, cpuReq, tbreGood) ==
    IF lsu.st = "busy" THEN lsu.who
    ELSE IF lsu.st = "resp" /\ ~resp THEN "none"
    ELSE IF tbreGood THEN "tbre"
    ELSE IF cpuReq THEN "cpu" ELSE "none"

\* One clock cycle; done is lsu_req_done.
PortCycle(resp, cpuReq, tbreGood, done) ==
    LET who == Server(resp, cpuReq, tbreGood)
    IN  /\ resp => lsu.st = "resp"
        /\ done => who # "none"
        /\ lsu' = IF who # "none" THEN [st |-> IF done THEN "resp" ELSE "busy", who |-> who]
                  ELSE IF resp THEN LsuFree ELSE lsu
=============================================================================
