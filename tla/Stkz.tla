-------------------------------- MODULE Stkz --------------------------------
(***************************************************************************)
(* The stack zeroisation engine, rtl/cheri_stkz.sv, as configured by       *)
(* ibexc_top.sv (DataWidth = 33, so one 32-bit word is cleared at a time). *)
(* The engine is commanded by writes to the special capability register    *)
(* ZTOPC and clears words downwards from the written address to the base   *)
(* of the written capability.                                              *)
(*                                                                         *)
(* Addresses are byte addresses; Word(a) is the slice a[31:2].             *)
(***************************************************************************)
EXTENDS Integers

CONSTANT AddrMax             \* the largest byte address (2^32 - 1)

ASSUME AddrMaxAssumption == AddrMax \in Nat

VARIABLES
    stkz_fsm,                \* the state machine
    stkz_ptrw,               \* ZTOPC's address as read back, a word address
    stkz_ptrw_nxt,           \* the word being cleared
    stkz_basew,              \* the last word to clear
    ztop_rcap,               \* ZTOPC's metadata as read back
    stkz_err                 \* sticky: a clearing store got an error response

stkzVars == <<stkz_fsm, stkz_ptrw, stkz_ptrw_nxt, stkz_basew, ztop_rcap, stkz_err>>

Word(a) == a \div 4

Addrs == 0 .. AddrMax
Words == 0 .. Word(AddrMax)

\* Capability metadata is abstracted to what the engine tells apart: the NULL
\* capability, an untagged one and a tagged one.
RegCaps == {"null", "untagged", "tagged"}

\* A value written to ZTOPC: metadata, the store permission, the address and
\* the bounds (top is exclusive and may be one past the last address).
ZtopValues == [cap : RegCaps, sd : BOOLEAN, addr : Addrs, base : Addrs, top : 0 .. AddrMax + 1]

\* No write in this cycle (ztop_wr_i low).
NoWrite == [cap |-> "none"]

NullZtop == [cap |-> "null", sd |-> FALSE, addr |-> 0, base |-> 0, top |-> 0]

-----------------------------------------------------------------------------
(* The command decoder. *)

ztop_wr(w) == w.cap # "none"

cmd_cap_good(w) == /\ w.cap = "tagged"
                   /\ Word(w.top) >= Word(w.addr)
                   /\ w.sd

cmd_is_n2z(w) == cmd_cap_good(w) /\ Word(w.addr) = Word(w.base)

cmd_new_null(w) == w = NullZtop

stkz_start(w) == /\ ztop_wr(w)
                 /\ ~cmd_new_null(w)
                 /\ cmd_cap_good(w)
                 /\ Word(w.addr) > Word(w.base)

\* A slip: one word too many.
DoneBelowBase == stkz_ptrw_nxt < stkz_basew

stkz_done == stkz_ptrw_nxt <= stkz_basew

stkz_stop(w, intr) == intr \/ cmd_new_null(w)

-----------------------------------------------------------------------------
(* The outputs. *)

stkz_active == stkz_fsm # "STKZ_IDLE"

stkz_lsu_req == stkz_active

-----------------------------------------------------------------------------
(* One clock cycle.  w: the value written to ZTOPC or NoWrite; intr:       *)
(* unmasked_intr_i; reqDone: lsu_stkz_req_done_i; respErr: an error        *)
(* response to a clearing store.                                           *)

StkzInit ==
    /\ stkz_fsm = "STKZ_IDLE"
    /\ stkz_ptrw = 0
    /\ stkz_ptrw_nxt = 0
    /\ stkz_basew = 0
    /\ ztop_rcap = "null"
    /\ stkz_err = FALSE

\* A slip: normal completion is forgotten.
FsmNeverCompletes(w, intr, reqDone) ==
    IF stkz_fsm = "STKZ_IDLE" /\ stkz_start(w) THEN "STKZ_ACTIVE"
    ELSE IF stkz_fsm = "STKZ_ACTIVE" /\ stkz_stop(w, intr) /\ reqDone THEN "STKZ_IDLE"
    ELSE IF stkz_fsm = "STKZ_ACTIVE" /\ stkz_stop(w, intr) THEN "STKZ_ABORT"
    ELSE IF stkz_fsm = "STKZ_ABORT" /\ reqDone THEN "STKZ_IDLE"
    ELSE stkz_fsm

\* A stop waits for the store in flight: ABORT keeps the request up.
stkz_fsm_d(w, intr, reqDone) ==
    IF stkz_fsm = "STKZ_IDLE" /\ stkz_start(w) THEN "STKZ_ACTIVE"
    ELSE IF stkz_fsm = "STKZ_ACTIVE" /\ (stkz_done \/ stkz_stop(w, intr)) /\ reqDone THEN "STKZ_IDLE"
    ELSE IF stkz_fsm = "STKZ_ACTIVE" /\ stkz_stop(w, intr) THEN "STKZ_ABORT"
    ELSE IF stkz_fsm = "STKZ_ABORT" /\ reqDone THEN "STKZ_IDLE"
    ELSE stkz_fsm

\* cmd_wcap: the tag is stripped from a value that has nothing to clear.
cmd_wcap(w) == IF cmd_is_n2z(w) THEN "untagged" ELSE w.cap

\* A slip: the tag outlives the run.
TagKept == ztop_rcap

ztop_rcap_nxt == IF ztop_rcap = "tagged" /\ stkz_done THEN "untagged" ELSE ztop_rcap

\* A slip: progress is reported before the store is done.
ZtopUpdateEarly(w, reqDone) ==
    IF ztop_wr(w)
    THEN stkz_ptrw' = Word(w.addr) /\ ztop_rcap' = cmd_wcap(w)
    ELSE IF stkz_active
    THEN stkz_ptrw' = stkz_ptrw_nxt /\ ztop_rcap' = ztop_rcap_nxt
    ELSE UNCHANGED <<stkz_ptrw, ztop_rcap>>

\* The readable register: a write wins over the engine's own progress.
ZtopUpdate(w, reqDone) ==
    IF ztop_wr(w)
    THEN stkz_ptrw' = Word(w.addr) /\ ztop_rcap' = cmd_wcap(w)
    ELSE IF stkz_active /\ reqDone
    THEN stkz_ptrw' = stkz_ptrw_nxt /\ ztop_rcap' = ztop_rcap_nxt
    ELSE UNCHANGED <<stkz_ptrw, ztop_rcap>>

\* The context of the run in progress.
ContextUpdate(w, intr, reqDone) ==
    IF stkz_start(w)
    THEN stkz_ptrw_nxt' = Word(w.addr) - 1 /\ stkz_basew' = Word(w.base)
    ELSE IF stkz_active /\ reqDone /\ ~(stkz_done \/ stkz_stop(w, intr))
    THEN stkz_ptrw_nxt' = stkz_ptrw_nxt - 1 /\ UNCHANGED stkz_basew
    ELSE UNCHANGED <<stkz_ptrw_nxt, stkz_basew>>

StkzCycle(w, intr, reqDone, respErr) ==
    /\ stkz_fsm' = stkz_fsm_d(w, intr, reqDone)
    /\ ZtopUpdate(w, reqDone)
    /\ ContextUpdate(w, intr, reqDone)
    /\ stkz_err' = IF ~stkz_active /\ stkz_start(w) THEN FALSE ELSE stkz_err \/ respErr

-----------------------------------------------------------------------------

StkzTypeOK ==
    /\ stkz_fsm \in {"STKZ_IDLE", "STKZ_ACTIVE", "STKZ_ABORT"}
    /\ stkz_ptrw \in Words
    /\ stkz_ptrw_nxt \in Words
    /\ stkz_basew \in Words
    /\ ztop_rcap \in RegCaps
    /\ stkz_err \in BOOLEAN
=============================================================================
