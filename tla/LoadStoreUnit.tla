---------------------------- MODULE LoadStoreUnit ----------------------------
(***************************************************************************)
(* The load-store unit, rtl/ibex_load_store_unit.sv, in CHERIoT mode with  *)
(* 33-bit memory: the request state machine, the capability receiver and   *)
(* the response logic, between two masters (the CPU and the background     *)
(* engines) and a bus that grants and answers when it likes, in order.     *)
(* One step is one clock cycle.                                            *)
(*                                                                         *)
(* An access is one word ("data"), two halves of a misaligned word ("mis") *)
(* or the two words of a capability ("cap").  Addresses are abstracted to  *)
(* the half of the access, 1 or 2; a word read is named by the access and  *)
(* the half it was read for.                                               *)
(***************************************************************************)
EXTENDS Integers, Sequences

CONSTANTS
    CpuRequests,          \* what the CPU asks for
    EngRequests           \* what the engines ask for

\* pmp: the halves the PMP rejects; cheriErr: cheri_ex found the access illegal.
Requests == [kind : {"data", "mis", "cap"}, we : BOOLEAN, cheriErr : BOOLEAN, pmp : SUBSET {1, 2}]

NoReq == [kind |-> "none", we |-> FALSE, cheriErr |-> FALSE, pmp |-> {}]

ASSUME RequestsAssumption ==
    /\ CpuRequests \subseteq Requests
    /\ EngRequests \subseteq {r \in Requests : r.kind # "mis" /\ ~r.cheriErr}

VARIABLES
    ls_fsm_cs, cap_rx_fsm_q,
    handle_misaligned_q,  \* the second half is being requested
    pmp_err_q, lsu_err_q, cheri_err_q,
    resp_is_cap_q, req_is_tbre_q, outstanding_resp_q,
    data_we_q,
    cap_lsw_q,            \* first word of a capability load
    cap_lsw_err_q,
    rdata_q,              \* first half of a misaligned load
    addr_last_q           \* the address reported in mtval

unitVars == <<ls_fsm_cs, cap_rx_fsm_q, handle_misaligned_q, pmp_err_q, lsu_err_q, cheri_err_q,
              resp_is_cap_q, req_is_tbre_q, outstanding_resp_q, data_we_q, cap_lsw_q,
              cap_lsw_err_q, rdata_q, addr_last_q>>

VARIABLES
    cpu, eng,             \* the requests presented, or NoReq
    bus,                  \* granted words whose response is to come, oldest first
    job,                  \* the access taken last and what went wrong with it (history)
    answer                \* the response of the cycle before, or NoAnswer (history)

vars == <<unitVars, cpu, eng, bus, job, answer>>

States == {"IDLE", "WAIT_GNT_MIS", "WAIT_RVALID_MIS", "WAIT_GNT", "WAIT_RVALID_MIS_GNTS_DONE",
           "CTX_WAIT_GNT1", "CTX_WAIT_GNT2", "CTX_WAIT_RESP"}

\* Consecutive accesses are numbered alternately.
Tokens == [id : {0, 1}, half : {0, 1, 2}]
NoToken == [id |-> 0, half |-> 0]
NoJob == [who |-> "none", id |-> 0, req |-> NoReq, bad |-> {}]
NoAnswer == [to |-> "none"]

\* The inputs of a cycle: cpuReq (cpu_lsu_req_i), stall (cpu_stall_by_stkz_i), grant
\* (cpu_grant_to_stkz_i), gnt, rvalid and err (the bus).
Inputs == [cpuReq : BOOLEAN, stall : BOOLEAN, grant : BOOLEAN,
           gnt : BOOLEAN, rvalid : BOOLEAN, err : BOOLEAN]

-----------------------------------------------------------------------------
(* Combinational signals. *)

lsu_resp_valid(in) == ls_fsm_cs = "IDLE" /\ (in.rvalid \/ pmp_err_q \/ cheri_err_q)

resp_wait(in) == outstanding_resp_q /\ ~lsu_resp_valid(in)

tbre_req_good(in) == eng # NoReq /\ (cpu # NoReq => in.grant)

cur_req_is_tbre(in) ==
    IF ls_fsm_cs = "IDLE" THEN tbre_req_good(in) /\ ~resp_wait(in) ELSE req_is_tbre_q

lsu_req(in) == IF cur_req_is_tbre(in) THEN eng ELSE cpu

lsu_cheri_err(in) == ~cur_req_is_tbre(in) /\ cpu.cheriErr
cpu_req_valid(in) == in.cpuReq /\ ~lsu_cheri_err(in) /\ ~in.stall
cpu_req_erred(in) == in.cpuReq /\ lsu_cheri_err(in)

\* In IDLE: a request that goes to the bus.
request_taken(in) == (cpu_req_valid(in) \/ tbre_req_good(in)) /\ ~resp_wait(in)

addr_incr_req ==
    \/ ls_fsm_cs \in {"WAIT_RVALID_MIS", "WAIT_RVALID_MIS_GNTS_DONE", "CTX_WAIT_GNT2", "CTX_WAIT_RESP"}
    \/ ls_fsm_cs = "WAIT_GNT" /\ handle_misaligned_q

data_addr == IF addr_incr_req THEN 2 ELSE 1

data_req(in) ==
    IF ls_fsm_cs = "IDLE"
    THEN request_taken(in) /\ ~(cpu_req_erred(in) /\ ~resp_wait(in))
    ELSE ls_fsm_cs \notin {"WAIT_RVALID_MIS_GNTS_DONE", "CTX_WAIT_RESP"}

data_pmp_err(in) == data_addr \in lsu_req(in).pmp

\* A slip: the error of a capability's first word is lost.
SecondWordErrorOnly(in) == lsu_err_q \/ in.err \/ pmp_err_q \/ cheri_err_q

data_or_pmp_err(in) == \/ lsu_err_q \/ in.err \/ pmp_err_q \/ cheri_err_q
                       \/ resp_is_cap_q /\ cap_lsw_err_q

-----------------------------------------------------------------------------
(* The state machine's outputs, one operator per state.  ns: the next      *)
(* state; hm, pmp, lsuErr, cheriErr: the next values of the registers;     *)
(* addr, ctrl, rdata: addr_update, ctrl_update, rdata_update.              *)

Hold == [ns |-> ls_fsm_cs, hm |-> handle_misaligned_q, pmp |-> pmp_err_q, lsuErr |-> lsu_err_q,
         cheriErr |-> cheri_err_q, addr |-> FALSE, ctrl |-> FALSE, rdata |-> FALSE,
         go |-> FALSE, goodcap |-> FALSE]

IdleOut(in) ==
    LET rest == [Hold EXCEPT !.pmp = FALSE, !.cheriErr = FALSE]
        sent == [rest EXCEPT !.pmp = data_pmp_err(in), !.lsuErr = FALSE, !.go = TRUE,
                             !.addr = in.gnt, !.ctrl = in.gnt]
    IN  IF cpu_req_erred(in) /\ ~resp_wait(in)
        THEN [rest EXCEPT !.cheriErr = TRUE, !.ctrl = TRUE, !.addr = TRUE, !.lsuErr = FALSE, !.go = TRUE]
        ELSE IF ~request_taken(in) THEN rest
        ELSE IF lsu_req(in).kind = "cap"
        THEN [sent EXCEPT !.goodcap = TRUE, !.ns = IF in.gnt THEN "CTX_WAIT_GNT2" ELSE "CTX_WAIT_GNT1"]
        ELSE IF lsu_req(in).kind = "mis"
        THEN [sent EXCEPT !.hm = IF in.gnt THEN TRUE ELSE handle_misaligned_q,
                          !.ns = IF in.gnt THEN "WAIT_RVALID_MIS" ELSE "WAIT_GNT_MIS"]
        ELSE [sent EXCEPT !.hm = IF in.gnt THEN FALSE ELSE handle_misaligned_q,
                          !.ns = IF in.gnt THEN "IDLE" ELSE "WAIT_GNT"]

\* A slip: the second half is sent with the first one's byte enables.
MisalignedForgotten(in) ==
    IF in.gnt \/ pmp_err_q
    THEN [Hold EXCEPT !.addr = TRUE, !.ctrl = TRUE, !.ns = "WAIT_RVALID_MIS"]
    ELSE Hold

WaitGntMisOut(in) ==
    IF in.gnt \/ pmp_err_q
    THEN [Hold EXCEPT !.addr = TRUE, !.ctrl = TRUE, !.hm = TRUE, !.ns = "WAIT_RVALID_MIS"]
    ELSE Hold

\* A slip: the first half's address is lost although it failed.
AddrAlwaysUpdated(in) ==
    IF in.rvalid \/ pmp_err_q
    THEN [Hold EXCEPT !.pmp = data_pmp_err(in), !.lsuErr = in.err \/ pmp_err_q, !.rdata = ~data_we_q,
                      !.ns = IF in.gnt THEN "IDLE" ELSE "WAIT_GNT",
                      !.addr = in.gnt, !.hm = ~in.gnt]
    ELSE IF in.gnt THEN [Hold EXCEPT !.ns = "WAIT_RVALID_MIS_GNTS_DONE", !.hm = FALSE]
    ELSE Hold

WaitRvalidMisOut(in) ==
    IF in.rvalid \/ pmp_err_q
    THEN [Hold EXCEPT !.pmp = data_pmp_err(in), !.lsuErr = in.err \/ pmp_err_q, !.rdata = ~data_we_q,
                      !.ns = IF in.gnt THEN "IDLE" ELSE "WAIT_GNT",
                      !.addr = in.gnt /\ ~(in.err \/ pmp_err_q), !.hm = ~in.gnt]
    ELSE IF in.gnt THEN [Hold EXCEPT !.ns = "WAIT_RVALID_MIS_GNTS_DONE", !.hm = FALSE]
    ELSE Hold

\* A slip: a request blocked by the PMP waits for its grant.
GntOnly(in) ==
    IF in.gnt THEN [Hold EXCEPT !.ctrl = TRUE, !.addr = ~lsu_err_q, !.ns = "IDLE", !.hm = FALSE]
    ELSE Hold

WaitGntOut(in) ==
    IF in.gnt \/ pmp_err_q
    THEN [Hold EXCEPT !.ctrl = TRUE, !.addr = ~lsu_err_q, !.ns = "IDLE", !.hm = FALSE]
    ELSE Hold

WaitRvalidMisGntsDoneOut(in) ==
    IF in.rvalid
    THEN [Hold EXCEPT !.pmp = data_pmp_err(in), !.lsuErr = in.err, !.addr = ~in.err,
                      !.rdata = ~data_we_q, !.ns = "IDLE"]
    ELSE Hold

CtxWaitGnt1Out(in) ==
    IF in.gnt THEN [Hold EXCEPT !.ns = "CTX_WAIT_GNT2", !.ctrl = TRUE, !.addr = TRUE] ELSE Hold

\* A slip: the unit goes idle before the first word has arrived.
IdleTooEarly(in) == IF in.gnt THEN [Hold EXCEPT !.ns = "IDLE"] ELSE Hold

CtxWaitGnt2Out(in) ==
    IF in.gnt
    THEN [Hold EXCEPT !.ns = IF in.rvalid \/ cap_rx_fsm_q = "CRX_WAIT_RESP2"
                             THEN "IDLE" ELSE "CTX_WAIT_RESP"]
    ELSE Hold

CtxWaitRespOut(in) == IF in.rvalid THEN [Hold EXCEPT !.ns = "IDLE"] ELSE Hold

cap_rx_fsm_d(in, goodcap) ==
    IF cap_rx_fsm_q = "CRX_IDLE" THEN IF goodcap THEN "CRX_WAIT_RESP1" ELSE "CRX_IDLE"
    ELSE IF ~in.rvalid THEN cap_rx_fsm_q
    ELSE IF cap_rx_fsm_q = "CRX_WAIT_RESP1" THEN "CRX_WAIT_RESP2"
    ELSE IF goodcap THEN "CRX_WAIT_RESP1" ELSE "CRX_IDLE"

-----------------------------------------------------------------------------
(* The cycle. *)

Init ==
    /\ ls_fsm_cs = "IDLE" /\ cap_rx_fsm_q = "CRX_IDLE"
    /\ handle_misaligned_q = FALSE
    /\ pmp_err_q = FALSE /\ lsu_err_q = FALSE /\ cheri_err_q = FALSE
    /\ resp_is_cap_q = FALSE /\ req_is_tbre_q = FALSE /\ outstanding_resp_q = FALSE
    /\ data_we_q = FALSE
    /\ cap_lsw_q = NoToken /\ cap_lsw_err_q = FALSE /\ rdata_q = NoToken /\ addr_last_q = NoToken
    /\ cpu = NoReq /\ eng = NoReq
    /\ bus = <<>>
    /\ job = NoJob
    /\ answer = NoAnswer

\* The bus answers what it has granted, in order, and only grants what is
\* requested and not blocked by the PMP (data_req_o of ibex_core.sv).
InputPossible(in) ==
    /\ in.cpuReq => cpu # NoReq
    /\ in.grant => in.stall
    /\ ls_fsm_cs # "IDLE" => ~in.cpuReq /\ ~in.stall    \* not looked at
    /\ in.gnt => data_req(in) /\ ~data_pmp_err(in)
    /\ in.rvalid => bus # <<>>
    /\ in.err => in.rvalid

who(in) == IF cur_req_is_tbre(in) THEN "tbre" ELSE "cpu"

\* A slip: the owner of the response is not qualified by lsu_go.
OwnerUnqualified(in, o) == cur_req_is_tbre(in)

\* The owner of the access in progress.
NextOwner(in, o) == IF o.go THEN cur_req_is_tbre(in) ELSE req_is_tbre_q

\* The registers.
UnitUpdate(in, o) ==
    /\ ls_fsm_cs' = o.ns
    /\ handle_misaligned_q' = o.hm
    /\ pmp_err_q' = o.pmp /\ lsu_err_q' = o.lsuErr /\ cheri_err_q' = o.cheriErr
    /\ cap_rx_fsm_q' = cap_rx_fsm_d(in, o.goodcap)
    /\ resp_is_cap_q' = IF o.go THEN lsu_req(in).kind = "cap" ELSE resp_is_cap_q
    /\ req_is_tbre_q' = NextOwner(in, o)
    /\ outstanding_resp_q' = (o.go \/ (outstanding_resp_q /\ ~lsu_resp_valid(in)))
    /\ data_we_q' = IF o.ctrl THEN lsu_req(in).we ELSE data_we_q

\* The data path.
DataUpdate(in, o) ==
    LET first == cap_rx_fsm_q = "CRX_WAIT_RESP1" /\ in.rvalid
        id    == IF o.go THEN 1 - job.id ELSE job.id
    IN  /\ cap_lsw_q' = IF first /\ ~data_we_q THEN bus[1] ELSE cap_lsw_q
        /\ cap_lsw_err_q' = IF first THEN in.err ELSE cap_lsw_err_q
        /\ rdata_q' = IF o.rdata /\ in.rvalid THEN bus[1]
                      ELSE IF o.rdata THEN NoToken ELSE rdata_q
        /\ addr_last_q' = IF o.addr /\ ~cur_req_is_tbre(in)
                          THEN [id |-> id, half |-> data_addr] ELSE addr_last_q
        /\ bus' = (IF in.rvalid THEN Tail(bus) ELSE bus)
                  \o (IF in.gnt THEN <<[id |-> id, half |-> data_addr]>> ELSE <<>>)

\* Bookkeeping for the properties: the halves that failed, and the response.
HistoryUpdate(in, o) ==
    LET bad == job.bad \cup (IF in.err THEN {bus[1].half} ELSE {})
    IN  /\ job' = IF o.go
                  THEN [who |-> who(in), id |-> 1 - job.id, req |-> lsu_req(in),
                        bad |-> (IF o.cheriErr THEN {1} ELSE {})
                                \cup (IF o.pmp THEN {data_addr} ELSE {})]
                  ELSE [job EXCEPT !.bad = bad \cup (IF o.pmp THEN {data_addr} ELSE {})]
        /\ answer' = IF lsu_resp_valid(in)
                     THEN [to |-> IF req_is_tbre_q THEN "tbre" ELSE "cpu", isWr |-> data_we_q,
                           err |-> data_or_pmp_err(in), addr |-> addr_last_q,
                           first |-> IF resp_is_cap_q THEN cap_lsw_q ELSE rdata_q,
                           last |-> IF in.rvalid THEN bus[1] ELSE NoToken,
                           job |-> [job EXCEPT !.bad = bad]]
                     ELSE NoAnswer

\* A master holds its request until it is done; until it is taken, it may also
\* withdraw it.
Presents(req, all, served, done) ==
    IF req = NoReq \/ done THEN all \cup {NoReq}
    ELSE IF served THEN {req} ELSE {req, NoReq}

MastersUpdate(in, o) ==
    LET active == o.go \/ ls_fsm_cs # "IDLE"
        done   == active /\ o.ns = "IDLE"
        engIs  == cur_req_is_tbre(in)
    IN  /\ cpu' \in Presents(cpu, CpuRequests, active /\ ~engIs, done /\ ~engIs)
        /\ eng' \in Presents(eng, EngRequests, active /\ engIs, done /\ engIs)

Clock(in, o) ==
    /\ InputPossible(in)
    /\ UnitUpdate(in, o)
    /\ DataUpdate(in, o)
    /\ HistoryUpdate(in, o)
    /\ MastersUpdate(in, o)

Idle(in)                 == ls_fsm_cs = "IDLE" /\ Clock(in, IdleOut(in))
WaitGntMis(in)           == ls_fsm_cs = "WAIT_GNT_MIS" /\ Clock(in, WaitGntMisOut(in))
WaitRvalidMis(in)        == ls_fsm_cs = "WAIT_RVALID_MIS" /\ Clock(in, WaitRvalidMisOut(in))
WaitGnt(in)              == ls_fsm_cs = "WAIT_GNT" /\ Clock(in, WaitGntOut(in))
WaitRvalidMisGntsDone(in) == ls_fsm_cs = "WAIT_RVALID_MIS_GNTS_DONE" /\ Clock(in, WaitRvalidMisGntsDoneOut(in))
CtxWaitGnt1(in)          == ls_fsm_cs = "CTX_WAIT_GNT1" /\ Clock(in, CtxWaitGnt1Out(in))
CtxWaitGnt2(in)          == ls_fsm_cs = "CTX_WAIT_GNT2" /\ Clock(in, CtxWaitGnt2Out(in))
CtxWaitResp(in)          == ls_fsm_cs = "CTX_WAIT_RESP" /\ Clock(in, CtxWaitRespOut(in))

Cycle(in) == \/ Idle(in) \/ WaitGntMis(in) \/ WaitRvalidMis(in) \/ WaitGnt(in)
             \/ WaitRvalidMisGntsDone(in) \/ CtxWaitGnt1(in) \/ CtxWaitGnt2(in) \/ CtxWaitResp(in)

Next == \E in \in Inputs : Cycle(in)

Spec == Init /\ [][Next]_vars

\* The clock runs, and the bus grants and answers.
Fairness == /\ WF_vars(Next)
            /\ WF_vars(\E in \in Inputs : in.gnt /\ Cycle(in))
            /\ WF_vars(\E in \in Inputs : in.rvalid /\ Cycle(in))

FairSpec == Spec /\ Fairness

-----------------------------------------------------------------------------
(* Properties. *)

TypeOK ==
    /\ ls_fsm_cs \in States
    /\ cap_rx_fsm_q \in {"CRX_IDLE", "CRX_WAIT_RESP1", "CRX_WAIT_RESP2"}
    /\ handle_misaligned_q \in BOOLEAN /\ pmp_err_q \in BOOLEAN /\ lsu_err_q \in BOOLEAN
    /\ cheri_err_q \in BOOLEAN /\ resp_is_cap_q \in BOOLEAN /\ req_is_tbre_q \in BOOLEAN
    /\ outstanding_resp_q \in BOOLEAN /\ data_we_q \in BOOLEAN /\ cap_lsw_err_q \in BOOLEAN
    /\ cap_lsw_q \in Tokens /\ rdata_q \in Tokens /\ addr_last_q \in Tokens
    /\ cpu \in CpuRequests \cup {NoReq} /\ eng \in EngRequests \cup {NoReq}
    /\ bus \in Seq(Tokens) /\ Len(bus) <= 2

\* Every response goes to the master that made the request, reports an error
\* exactly if one of its words (or the checks before it) failed, and a good
\* load returns the words of this very access, in their places.
AnswersTheRequest ==
    answer # NoAnswer =>
        /\ answer.to = answer.job.who
        /\ answer.isWr = answer.job.req.we
        /\ answer.err = (answer.job.bad # {})
        /\ ~answer.err /\ ~answer.isWr =>
              /\ answer.last = [id |-> answer.job.id,
                                half |-> IF answer.job.req.kind = "data" THEN 1 ELSE 2]
              /\ answer.job.req.kind # "data" => answer.first = [id |-> answer.job.id, half |-> 1]

\* The address a failing CPU access reports for mtval is its own, that of the
\* first half that failed if it was misaligned.
FirstFailingAddress ==
    answer # NoAnswer /\ answer.to = "cpu" /\ answer.err =>
        /\ answer.addr.id = answer.job.id
        /\ answer.addr.half = IF answer.job.req.kind = "mis" /\ 1 \notin answer.job.bad THEN 2 ELSE 1

\* The bus owes words only to the access in progress, never to one that has
\* been answered, so a late word cannot be taken for another access's.
NoStrayWord == \A k \in 1 .. Len(bus) : outstanding_resp_q /\ bus[k].id = job.id

\* The byte enables, chosen by handle_misaligned_q, and the address, chosen by
\* addr_incr_req, belong to the same half whenever a misaligned access is on the
\* bus.
HalvesAgree ==
    ls_fsm_cs \notin {"IDLE", "WAIT_RVALID_MIS_GNTS_DONE"} /\ job.req.kind = "mis" =>
        handle_misaligned_q = addr_incr_req

\* Every access taken is answered.
EveryRequestAnswered == outstanding_resp_q ~> answer # NoAnswer

-----------------------------------------------------------------------------
(* The unit implements the contract that the systems around the engines     *)
(* rely on: it serves one master at a time, from taking a request to the    *)
(* end of its last word.                                                    *)

portState ==
    IF ls_fsm_cs = "IDLE" /\ ~outstanding_resp_q THEN [st |-> "free", who |-> "none"]
    ELSE [st |-> IF ls_fsm_cs = "IDLE" THEN "resp" ELSE "busy",
          who |-> IF req_is_tbre_q THEN "tbre" ELSE "cpu"]

Contract == INSTANCE LsuContract WITH lsu <- portState, answered <- answer.to

\* LoadStoreUnit implements LsuContract: in every cycle it does what the
\* contract allows, for the master the contract allows it for, and delivers
\* each response once.
ImplementsContract == Contract!ContractSpec
=============================================================================
