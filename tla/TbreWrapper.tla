----------------------------- MODULE TbreWrapper -----------------------------
(***************************************************************************)
(* The arbiter between the two background engines and the load-store unit, *)
(* rtl/cheri_tbre_wrapper.sv: the stack zeroiser ("stkz", block 0) before  *)
(* the revocation engine ("tbre", block 1).  A decision is registered      *)
(* until the request it was made for is done, and the block whose request  *)
(* was done last gets the next response.                                   *)
(***************************************************************************)
EXTENDS Integers

VARIABLES
    req_pending_q,    \* a decision is held
    mstr_arbit_q,     \* the decision
    resp_sel_q        \* the response belongs to block 1

wrapperVars == <<req_pending_q, mstr_arbit_q, resp_sel_q>>

Blocks == {"none", "stkz", "tbre"}

WrapperTypeOK ==
    /\ req_pending_q \in BOOLEAN
    /\ mstr_arbit_q \in Blocks
    /\ resp_sel_q \in BOOLEAN

WrapperInit ==
    /\ req_pending_q = FALSE
    /\ mstr_arbit_q = "none"
    /\ resp_sel_q = FALSE

\* blk0, blk1: the requests of the zeroiser and of the revocation engine.
mstr_arbit(blk0, blk1) == IF blk0 THEN "stkz" ELSE IF blk1 THEN "tbre" ELSE "none"

\* A slip: the held decision is not used.
ArbitrateAfresh(blk0, blk1) == mstr_arbit(blk0, blk1)

mstr_arbit_comb(blk0, blk1) == IF req_pending_q THEN mstr_arbit_q ELSE mstr_arbit(blk0, blk1)

\* sel: lsu_tbre_sel_i, the load-store unit serves the wrapper in this cycle.
req_pending(blk0, blk1, sel, gnt) == (blk0 \/ blk1) /\ ~gnt /\ ~req_pending_q /\ sel

\* A slip: the response selector follows the arbiter in every cycle.
WrapperFollowing(blk0, blk1, sel, gnt) ==
    /\ req_pending_q' = IF gnt THEN FALSE
                        ELSE req_pending_q \/ req_pending(blk0, blk1, sel, gnt)
    /\ mstr_arbit_q' = IF req_pending(blk0, blk1, sel, gnt)
                       THEN mstr_arbit(blk0, blk1) ELSE mstr_arbit_q
    /\ resp_sel_q' = (mstr_arbit_comb(blk0, blk1) = "tbre")

\* gnt: lsu_tbre_req_done_i.
WrapperCycle(blk0, blk1, sel, gnt) ==
    /\ req_pending_q' = IF gnt THEN FALSE
                        ELSE req_pending_q \/ req_pending(blk0, blk1, sel, gnt)
    /\ mstr_arbit_q' = IF req_pending(blk0, blk1, sel, gnt)
                       THEN mstr_arbit(blk0, blk1) ELSE mstr_arbit_q
    /\ resp_sel_q' = IF gnt THEN mstr_arbit_comb(blk0, blk1) = "tbre" ELSE resp_sel_q
=============================================================================
