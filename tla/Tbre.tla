-------------------------------- MODULE Tbre --------------------------------
(***************************************************************************)
(* The background revocation engine, rtl/cheri_tbre.sv (DataWidth = 33).   *)
(* A sweep loads every 8-byte granule of a region; addresses, loaded words *)
(* and revocation verdicts arrive in three FIFOs that share a read         *)
(* pointer; a tagged, revoked capability at the head is stored back        *)
(* without its tag unless a CPU store to the granule was snooped.          *)
(*                                                                         *)
(* addr8 is an address in units of 8 bytes inside the window given by the  *)
(* upper bits of the start address.                                        *)
(***************************************************************************)
EXTENDS Integers

CONSTANTS
    FifoSize,         \* a power of two (4)
    MaxAddr8          \* the largest addr8 (2^(AddrHi-2) - 1)

ASSUME TbreAssumption == FifoSize \in Nat \ {0} /\ MaxAddr8 \in Nat

VARIABLES
    tbre_fsm,         \* the memory walk
    tbre_sch,         \* what is scheduled on the load-store unit
    cur_load_addr8,   \* the next granule to load
    wait_resp_q,      \* a response is outstanding
    tbre_err,         \* sticky: an error response during the sweep
    req_wr_ptr, cap_wr_ptr, shdw_wr_ptr, rd_ptr,
    req_fifo,         \* [slot -> [addr8, valid]]
    cap_fifo,         \* [slot -> [word, tag, err]]
    shdw_fifo         \* [slot -> verdict]

tbreVars == <<tbre_fsm, tbre_sch, cur_load_addr8, wait_resp_q, tbre_err, req_wr_ptr,
              cap_wr_ptr, shdw_wr_ptr, rd_ptr, req_fifo, cap_fifo, shdw_fifo>>

\* Pointers carry one bit more than a slot number.
Slots == 0 .. FifoSize - 1
Ptrs == 0 .. 2 * FifoSize - 1
Slot(p) == p % FifoSize

Incr(p) == (p + 1) % (2 * FifoSize)
Dist(w) == (w - rd_ptr) % (2 * FifoSize)

-----------------------------------------------------------------------------
(* Combinational signals. *)

os_req_cnt == Dist(req_wr_ptr)

fifo_not_empty == req_wr_ptr # rd_ptr /\ cap_wr_ptr # rd_ptr /\ shdw_wr_ptr # rd_ptr

head == Slot(rd_ptr)

\* A slip: the snooped bit is ignored.
StoreIgnoringSnoop ==
    /\ fifo_not_empty
    /\ cap_fifo[head].tag /\ shdw_fifo[head] /\ ~cap_fifo[head].err

store_req_valid ==
    /\ fifo_not_empty
    /\ cap_fifo[head].tag
    /\ shdw_fifo[head]
    /\ req_fifo[head].valid
    /\ ~cap_fifo[head].err

load_addr8_p1 == (cur_load_addr8 + 1) % (MaxAddr8 + 1)

\* A slip: the last granule is left out.
StopEarly(end8) == load_addr8_p1 >= end8

load_stop_cond(end8) == load_addr8_p1 > end8

\* resp: lsu_tbre_resp_valid_i in this cycle.
tbre_lsu_req(resp, add1wait) ==
    /\ tbre_sch = "SCH_LOAD" \/ (tbre_sch = "SCH_STORE" /\ store_req_valid)
    /\ ~wait_resp_q \/ (resp /\ ~add1wait)

load_gnt(reqDone) == tbre_sch = "SCH_LOAD" /\ reqDone
store_gnt(reqDone) == tbre_sch = "SCH_STORE" /\ reqDone

\* A slip: entries with nothing to store stay in the FIFO.
PopStoredOnly(reqDone) == fifo_not_empty /\ store_gnt(reqDone)

fifo_rd_en(reqDone) == fifo_not_empty /\ (store_gnt(reqDone) \/ ~store_req_valid)

-----------------------------------------------------------------------------
(* One clock cycle.  ctrl: the control registers [go, start8, end8];       *)
(* reqDone, resp, respErr, respIsWr, rdata: the load-store unit's answers  *)
(* (rdata is the granule's lower word with its tag); snoop: the granule of *)
(* a CPU store done in this cycle, or -1; trvkEn, trvkClr: the verdict.    *)

TbreInit ==
    /\ tbre_fsm = "TBRE_IDLE"
    /\ tbre_sch = "SCH_NONE"
    /\ cur_load_addr8 = 0
    /\ wait_resp_q = FALSE
    /\ tbre_err = FALSE
    /\ req_wr_ptr = 0 /\ cap_wr_ptr = 0 /\ shdw_wr_ptr = 0 /\ rd_ptr = 0
    /\ req_fifo = [s \in Slots |-> [addr8 |-> 0, valid |-> FALSE]]
    /\ cap_fifo = [s \in Slots |-> [word |-> "data", tag |-> FALSE, err |-> FALSE]]
    /\ shdw_fifo = [s \in Slots |-> FALSE]

tbre_fsm_d(ctrl, reqDone) ==
    IF tbre_fsm = "TBRE_IDLE" /\ ctrl.go THEN "TBRE_LOAD"
    ELSE IF tbre_fsm = "TBRE_LOAD" /\ load_gnt(reqDone) /\ load_stop_cond(ctrl.end8) THEN "TBRE_WAIT"
    ELSE IF tbre_fsm = "TBRE_WAIT" /\ os_req_cnt = 0 THEN "TBRE_IDLE"
    ELSE tbre_fsm

\* A slip: after a load the scheduler looks at the FIFO one entry too late.
StallTooLate == os_req_cnt >= FifoSize

load_stall == os_req_cnt >= FifoSize - 1
req_fifo_full == os_req_cnt >= FifoSize

tbre_sch_d(ctrl, reqDone) ==
    LET lastLoad == load_gnt(reqDone)
                    /\ (load_stall \/ tbre_fsm_d(ctrl, reqDone) = "TBRE_WAIT")
        storeOver == store_gnt(reqDone) \/ ~store_req_valid
    IN  IF tbre_sch = "SCH_NONE"
        THEN IF tbre_fsm = "TBRE_LOAD" /\ ~req_fifo_full THEN "SCH_LOAD"
             ELSE IF store_req_valid THEN "SCH_STORE" ELSE "SCH_NONE"
        ELSE IF tbre_sch = "SCH_LOAD"
        THEN IF ~lastLoad THEN "SCH_LOAD"
             ELSE IF store_req_valid THEN "SCH_STORE" ELSE "SCH_NONE"
        ELSE IF ~storeOver THEN "SCH_STORE"
             ELSE IF tbre_fsm = "TBRE_LOAD" THEN "SCH_LOAD" ELSE "SCH_NONE"

WalkUpdate(ctrl, reqDone, resp, respErr) ==
    LET starts == tbre_fsm = "TBRE_IDLE" /\ ctrl.go
    IN  /\ tbre_fsm' = tbre_fsm_d(ctrl, reqDone)
        /\ tbre_sch' = tbre_sch_d(ctrl, reqDone)
        /\ cur_load_addr8' = IF starts THEN ctrl.start8
                             ELSE IF load_gnt(reqDone) THEN load_addr8_p1 ELSE cur_load_addr8
        /\ wait_resp_q' = IF load_gnt(reqDone) \/ store_gnt(reqDone) THEN TRUE
                          ELSE wait_resp_q /\ ~resp
        /\ tbre_err' = IF starts THEN FALSE ELSE tbre_err \/ (resp /\ respErr)

\* A granted load enters its address; a snooped store strikes out every entry
\* of its granule.
ReqFifoUpdate(reqDone, snoop) ==
    /\ req_wr_ptr' = IF load_gnt(reqDone) THEN Incr(req_wr_ptr) ELSE req_wr_ptr
    /\ req_fifo' = [s \in Slots |->
          IF load_gnt(reqDone) /\ s = Slot(req_wr_ptr) THEN [addr8 |-> cur_load_addr8, valid |-> TRUE]
          ELSE IF req_fifo[s].addr8 = snoop THEN [req_fifo[s] EXCEPT !.valid = FALSE]
          ELSE req_fifo[s]]

CapFifoUpdate(resp, respErr, respIsWr, rdata) ==
    IF resp /\ ~respIsWr
    THEN /\ cap_wr_ptr' = Incr(cap_wr_ptr)
         /\ cap_fifo' = [cap_fifo EXCEPT ![Slot(cap_wr_ptr)] =
                            [word |-> rdata.word, tag |-> rdata.tag, err |-> respErr]]
    ELSE UNCHANGED <<cap_wr_ptr, cap_fifo>>

ShdwFifoUpdate(trvkEn, trvkClr) ==
    IF trvkEn
    THEN /\ shdw_wr_ptr' = Incr(shdw_wr_ptr)
         /\ shdw_fifo' = [shdw_fifo EXCEPT ![Slot(shdw_wr_ptr)] = trvkClr]
    ELSE UNCHANGED <<shdw_wr_ptr, shdw_fifo>>

TbreCycle(ctrl, reqDone, resp, respErr, respIsWr, rdata, snoop, trvkEn, trvkClr) ==
    /\ WalkUpdate(ctrl, reqDone, resp, respErr)
    /\ ReqFifoUpdate(reqDone, snoop)
    /\ CapFifoUpdate(resp, respErr, respIsWr, rdata)
    /\ ShdwFifoUpdate(trvkEn, trvkClr)
    /\ rd_ptr' = IF fifo_rd_en(reqDone) THEN Incr(rd_ptr) ELSE rd_ptr
=============================================================================
