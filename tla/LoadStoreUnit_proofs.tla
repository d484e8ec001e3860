------------------------- MODULE LoadStoreUnit_proofs -------------------------
(***************************************************************************)
(* Proofs about the load-store unit, for every set of requests of either   *)
(* master and a bus with any delays: its types, that no granted word is    *)
(* left over from an answered access, that the unit implements the         *)
(* contract LsuContract, and what it answers: each response goes to its    *)
(* master, reports an error exactly if one happened, brings the words of   *)
(* its own access, and a failing one reports the right address.            *)
(*                                                                         *)
(* The inductive invariant says for each state of the state machine how    *)
(* many words the bus owes, where the capability receiver is, and which    *)
(* error registers can be set.  A second one, for the answers, says what   *)
(* the registers hold of the access in progress: which of its halves       *)
(* failed, which word was kept, which address is recorded.                 *)
(***************************************************************************)
EXTENDS LoadStoreUnit, SequenceTheorems, TLAPS

\* The request of the access in progress.
served == IF req_is_tbre_q THEN eng ELSE cpu

\* Everything but the number of words on the bus.
Typed ==
    /\ ls_fsm_cs \in States
    /\ cap_rx_fsm_q \in {"CRX_IDLE", "CRX_WAIT_RESP1", "CRX_WAIT_RESP2"}
    /\ handle_misaligned_q \in BOOLEAN /\ pmp_err_q \in BOOLEAN /\ lsu_err_q \in BOOLEAN
    /\ cheri_err_q \in BOOLEAN /\ resp_is_cap_q \in BOOLEAN /\ req_is_tbre_q \in BOOLEAN
    /\ outstanding_resp_q \in BOOLEAN /\ data_we_q \in BOOLEAN /\ cap_lsw_err_q \in BOOLEAN
    /\ cap_lsw_q \in Tokens /\ rdata_q \in Tokens /\ addr_last_q \in Tokens
    /\ cpu \in CpuRequests \cup {NoReq} /\ eng \in EngRequests \cup {NoReq}
    /\ bus \in Seq(Tokens)
    /\ job \in [who : {"none", "cpu", "tbre"}, id : {0, 1}, req : Requests \cup {NoReq},
                bad : SUBSET {0, 1, 2}]

IdleShape ==
    ls_fsm_cs = "IDLE" =>
        /\ ~handle_misaligned_q
        /\ pmp_err_q \/ cheri_err_q => outstanding_resp_q
        /\ outstanding_resp_q /\ ~pmp_err_q /\ ~cheri_err_q => Len(bus) = 1
        /\ ~outstanding_resp_q \/ pmp_err_q \/ cheri_err_q => Len(bus) = 0 /\ cap_rx_fsm_q = "CRX_IDLE"
        /\ cap_rx_fsm_q # "CRX_WAIT_RESP1"

BusyShape ==
    ls_fsm_cs # "IDLE" => outstanding_resp_q /\ ~cheri_err_q /\ served # NoReq

MisShape ==
    /\ ls_fsm_cs = "WAIT_GNT_MIS" =>
          /\ ~handle_misaligned_q /\ Len(bus) = 0 /\ cap_rx_fsm_q = "CRX_IDLE"
          /\ pmp_err_q => 1 \in served.pmp
    /\ ls_fsm_cs = "WAIT_RVALID_MIS" =>
          /\ handle_misaligned_q /\ Len(bus) = (IF pmp_err_q THEN 0 ELSE 1)
          /\ cap_rx_fsm_q = "CRX_IDLE"
    /\ ls_fsm_cs = "WAIT_GNT" =>
          /\ Len(bus) = 0 /\ cap_rx_fsm_q = "CRX_IDLE"
          /\ pmp_err_q => data_addr \in served.pmp
    /\ ls_fsm_cs = "WAIT_RVALID_MIS_GNTS_DONE" =>
          /\ ~handle_misaligned_q /\ Len(bus) = 2 /\ cap_rx_fsm_q = "CRX_IDLE"
          /\ ~pmp_err_q /\ 2 \notin served.pmp

CapShape ==
    /\ ls_fsm_cs = "CTX_WAIT_GNT1" =>
          /\ ~handle_misaligned_q /\ Len(bus) = 0 /\ cap_rx_fsm_q = "CRX_WAIT_RESP1"
          /\ pmp_err_q => 1 \in served.pmp
    /\ ls_fsm_cs = "CTX_WAIT_GNT2" =>
          /\ ~handle_misaligned_q /\ ~pmp_err_q
          /\ \/ Len(bus) = 1 /\ cap_rx_fsm_q = "CRX_WAIT_RESP1"
             \/ Len(bus) = 0 /\ cap_rx_fsm_q = "CRX_WAIT_RESP2"
    /\ ls_fsm_cs = "CTX_WAIT_RESP" =>
          /\ ~handle_misaligned_q /\ ~pmp_err_q
          /\ Len(bus) = 2 /\ cap_rx_fsm_q = "CRX_WAIT_RESP1"
    /\ ls_fsm_cs \in {"CTX_WAIT_GNT1", "CTX_WAIT_GNT2", "CTX_WAIT_RESP"} => job.req.kind = "cap"

Owed == \A k \in 1 .. Len(bus) : bus[k].id = job.id

IInv == Typed /\ IdleShape /\ BusyShape /\ MisShape /\ CapShape /\ Owed

-----------------------------------------------------------------------------
(* What every cycle does, whatever the state machine's outputs are.        *)

\* How a cycle changes the number of words the bus owes.
Moved(in) ==
    /\ in.rvalid => Len(bus) > 0
    /\ ~in.rvalid /\ ~in.gnt => Len(bus') = Len(bus)
    /\ ~in.rvalid /\ in.gnt => Len(bus') = Len(bus) + 1
    /\ in.rvalid /\ ~in.gnt => Len(bus) = Len(bus') + 1
    /\ in.rvalid /\ in.gnt => Len(bus') = Len(bus)

\* A cycle takes the answered word off the bus and puts the granted one on it; a
\* word carries the number of the access it was granted for.
LEMMA BusStep ==
    ASSUME Typed, NEW in \in Inputs, NEW o, InputPossible(in), DataUpdate(in, o), o.go \in BOOLEAN
    PROVE  /\ bus' \in Seq(Tokens)
           /\ in.rvalid => Len(bus) > 0 /\ bus[1] \in Tokens
           /\ Moved(in)
           /\ ~o.go /\ Owed => \A k \in 1 .. Len(bus') : bus'[k].id = job.id
           /\ o.go /\ Len(bus) = (IF in.rvalid THEN 1 ELSE 0)
                 => \A k \in 1 .. Len(bus') : bus'[k].id = 1 - job.id
<1> DEFINE id   == IF o.go THEN 1 - job.id ELSE job.id
           left == IF in.rvalid THEN Tail(bus) ELSE bus
           new  == IF in.gnt THEN <<[id |-> id, half |-> data_addr]>> ELSE <<>>
<1>1. bus' = left \o new
  BY DEF DataUpdate
<1>2. id \in {0, 1} /\ data_addr \in {1, 2}
  BY DEF Typed, data_addr
<1>3. new \in Seq(Tokens) /\ Len(new) = (IF in.gnt THEN 1 ELSE 0)
  <2>1. [id |-> id, half |-> data_addr] \in Tokens
    BY <1>2 DEF Tokens
  <2> HIDE DEF id
  <2>2. <<[id |-> id, half |-> data_addr]>> \in Seq(Tokens)
        /\ Len(<<[id |-> id, half |-> data_addr]>>) = 1
    BY <2>1
  <2> QED
    BY <2>2
<1>4. in.rvalid => bus # <<>>
  BY DEF InputPossible
<1>5. left \in Seq(Tokens) /\ Len(left) + (IF in.rvalid THEN 1 ELSE 0) = Len(bus)
  BY <1>4 DEF Typed
<1>6. in.rvalid => Len(bus) > 0 /\ bus[1] \in Tokens
  BY <1>4 DEF Typed
<1>7. Owed => \A k \in 1 .. Len(left) : left[k].id = job.id
  BY <1>4, <1>5 DEF Typed, Owed
<1>8. \A k \in 1 .. Len(new) : new[k].id = id
  BY <1>3
<1> HIDE DEF id, left, new
<1>9. bus' \in Seq(Tokens) /\ Len(bus') = Len(left) + Len(new)
  BY <1>1, <1>3, <1>5, ConcatProperties
<1>10. \A k \in 1 .. Len(bus') : bus'[k] = (IF k <= Len(left) THEN left[k] ELSE new[k - Len(left)])
  BY <1>1, <1>3, <1>5
<1>11. ASSUME ~o.go, Owed, NEW k \in 1 .. Len(bus') PROVE bus'[k].id = job.id
  <2>1. id = job.id
    BY <1>11 DEF id
  <2>2. Len(left) \in Nat /\ Len(new) \in Nat
    BY <1>3, <1>5
  <2>3. CASE k <= Len(left)
    BY <2>2, <2>3, <1>7, <1>10, <1>11
  <2>4. CASE ~(k <= Len(left))
    <3>1. k - Len(left) \in 1 .. Len(new)
      BY <2>2, <2>4, <1>9
    <3> QED
      BY <3>1, <2>1, <2>4, <1>8, <1>10
  <2> QED
    BY <2>3, <2>4
<1>12. ASSUME o.go, Len(bus) = (IF in.rvalid THEN 1 ELSE 0), NEW k \in 1 .. Len(bus')
       PROVE  bus'[k].id = 1 - job.id
  <2>1. id = 1 - job.id
    BY <1>12 DEF id
  <2>2. Len(left) = 0 /\ Len(new) \in Nat
    BY <1>3, <1>5, <1>12
  <2>3. k \in 1 .. Len(new) /\ ~(k <= Len(left)) /\ k - Len(left) = k
    BY <2>2, <1>9
  <2> QED
    BY <2>1, <2>3, <1>8, <1>10
<1>13. Moved(in)
  <2>1. Len(bus) \in Nat /\ Len(left) \in Nat /\ Len(bus') \in Nat
    BY <1>5, <1>9 DEF Typed
  <2>2. in.rvalid => Len(bus) = Len(left) + 1
    BY <1>5
  <2>3. ~in.rvalid => Len(left) = Len(bus)
    BY <1>5
  <2>4. in.gnt => Len(new) = 1
    BY <1>3
  <2>5. ~in.gnt => Len(new) = 0
    BY <1>3
  <2>6. ASSUME in.rvalid, in.gnt PROVE Len(bus') = Len(bus)
    BY <1>9, <2>1, <2>2, <2>4, <2>6
  <2>7. ASSUME in.rvalid, ~in.gnt PROVE Len(bus) = Len(bus') + 1
    BY <1>9, <2>1, <2>2, <2>5, <2>7
  <2>8. ASSUME ~in.rvalid, in.gnt PROVE Len(bus') = Len(bus) + 1
    BY <1>9, <2>1, <2>3, <2>4, <2>8
  <2>9. ASSUME ~in.rvalid, ~in.gnt PROVE Len(bus') = Len(bus)
    BY <1>9, <2>1, <2>3, <2>5, <2>9
  <2> QED
    BY <1>6, <2>6, <2>7, <2>8, <2>9 DEF Moved
<1> QED
  BY <1>6, <1>9, <1>11, <1>12, <1>13

\* What the proof needs to know of a state machine's outputs.
Output == [ns : States, hm : BOOLEAN, pmp : BOOLEAN, lsuErr : BOOLEAN, cheriErr : BOOLEAN,
           addr : BOOLEAN, ctrl : BOOLEAN, rdata : BOOLEAN, go : BOOLEAN, goodcap : BOOLEAN]

\* The requests presented to the unit, and the one it selects, are requests.
LEMMA RequestTypes ==
    ASSUME Typed, NEW in \in Inputs
    PROVE  /\ cpu \in Requests \cup {NoReq} /\ eng \in Requests \cup {NoReq}
           /\ lsu_req(in) \in Requests \cup {NoReq}
           /\ lsu_req(in).we \in BOOLEAN /\ cpu.cheriErr \in BOOLEAN
           /\ data_pmp_err(in) \in BOOLEAN
           /\ eng.cheriErr = FALSE
<1>1. cpu \in Requests \cup {NoReq} /\ eng \in Requests \cup {NoReq} /\ ~eng.cheriErr
  BY RequestsAssumption DEF Typed, NoReq
<1>2. lsu_req(in) \in Requests \cup {NoReq}
  BY <1>1 DEF lsu_req
<1>3. \A r \in Requests \cup {NoReq} : r.we \in BOOLEAN /\ r.cheriErr \in BOOLEAN
  <2>1. \A r \in Requests : r.we \in BOOLEAN /\ r.cheriErr \in BOOLEAN
    BY DEF Requests
  <2>2. NoReq.we \in BOOLEAN /\ NoReq.cheriErr \in BOOLEAN
    BY DEF NoReq
  <2> QED
    BY <2>1, <2>2
<1>4. data_pmp_err(in) \in BOOLEAN
  BY DEF data_pmp_err
<1>5. lsu_req(in).we \in BOOLEAN
  BY <1>2, <1>3
<1> QED
  BY <1>1, <1>2, <1>3, <1>4, <1>5

\* A cycle preserves the types, whatever the state machine puts out.
LEMMA TypedStep ==
    ASSUME Typed, NEW in \in Inputs, NEW o \in Output, Clock(in, o)
    PROVE  Typed'
<1> USE DEF Clock
<1>1. InputPossible(in) /\ UnitUpdate(in, o) /\ DataUpdate(in, o) /\ HistoryUpdate(in, o) /\ MastersUpdate(in, o)
  OBVIOUS
<1>2. o.go \in BOOLEAN /\ o.ns \in States /\ o.hm \in BOOLEAN /\ o.pmp \in BOOLEAN
      /\ o.lsuErr \in BOOLEAN /\ o.cheriErr \in BOOLEAN
  BY DEF Output
<1>3. bus' \in Seq(Tokens) /\ (in.rvalid => Len(bus) > 0 /\ bus[1] \in Tokens)
  BY <1>1, <1>2, BusStep
<1>4. data_addr \in {1, 2} /\ NoToken \in Tokens /\ job.id \in {0, 1}
  BY DEF data_addr, Tokens, NoToken, Typed
<1>5. cap_lsw_q' \in Tokens /\ rdata_q' \in Tokens /\ addr_last_q' \in Tokens
  <2>1. cap_lsw_q' \in Tokens
    BY <1>1, <1>3 DEF DataUpdate, Typed
  <2>2. rdata_q' \in Tokens
    BY <1>1, <1>3, <1>4 DEF DataUpdate, Typed
  <2>3. addr_last_q' \in Tokens
    BY <1>1, <1>4 DEF DataUpdate, Typed, Tokens
  <2> QED
    BY <2>1, <2>2, <2>3
<1>6. cap_lsw_err_q' \in BOOLEAN
  <2>1. in.err \in BOOLEAN
    BY DEF Inputs
  <2> QED
    BY <1>1, <2>1 DEF DataUpdate, Typed
<1>7. ls_fsm_cs' \in States
      /\ cap_rx_fsm_q' \in {"CRX_IDLE", "CRX_WAIT_RESP1", "CRX_WAIT_RESP2"}
  BY <1>1, <1>2 DEF UnitUpdate, cap_rx_fsm_d, Typed
<1>8. handle_misaligned_q' \in BOOLEAN /\ pmp_err_q' \in BOOLEAN /\ lsu_err_q' \in BOOLEAN
      /\ cheri_err_q' \in BOOLEAN
  BY <1>1, <1>2 DEF UnitUpdate
<1>9. resp_is_cap_q' \in BOOLEAN /\ req_is_tbre_q' \in BOOLEAN /\ outstanding_resp_q' \in BOOLEAN
      /\ data_we_q' \in BOOLEAN
  <2>1. resp_is_cap_q' \in BOOLEAN
    BY <1>1 DEF UnitUpdate, Typed
  <2>2. cur_req_is_tbre(in) \in BOOLEAN
    BY Zenon DEF cur_req_is_tbre, Typed
  <2>3. req_is_tbre_q' \in BOOLEAN
    BY <1>1, <2>2 DEF UnitUpdate, NextOwner, Typed
  <2>4. outstanding_resp_q' \in BOOLEAN
    BY <1>1, Zenon DEF UnitUpdate
  <2>5. data_we_q' \in BOOLEAN
    BY <1>1, RequestTypes DEF UnitUpdate, Typed
  <2> QED
    BY <2>1, <2>3, <2>4, <2>5
<1>10. cpu' \in CpuRequests \cup {NoReq} /\ eng' \in EngRequests \cup {NoReq}
  BY <1>1 DEF MastersUpdate, Presents, Typed
<1>11. job' \in [who : {"none", "cpu", "tbre"}, id : {0, 1}, req : Requests \cup {NoReq},
                 bad : SUBSET {0, 1, 2}]
  <2> DEFINE bad == job.bad \cup (IF in.err THEN {bus[1].half} ELSE {})
  <2>1. bad \in SUBSET {0, 1, 2}
    BY <1>1, <1>3 DEF InputPossible, Typed, Tokens
  <2>2. CASE o.go
    <3>1. who(in) \in {"cpu", "tbre"}
      BY DEF who
    <3>2. 1 - job.id \in {0, 1}
      BY <1>4
    <3>3. lsu_req(in) \in Requests \cup {NoReq}
      BY RequestTypes
    <3> QED
      BY <1>1, <1>4, <2>2, <3>1, <3>2, <3>3 DEF HistoryUpdate
  <2>3. CASE ~o.go
    <3>1. bad \cup (IF o.pmp THEN {data_addr} ELSE {}) \in SUBSET {0, 1, 2}
      BY <1>4, <2>1
    <3> HIDE DEF bad
    <3>2. job' = [job EXCEPT !.bad = bad \cup (IF o.pmp THEN {data_addr} ELSE {})]
      BY <1>1, <2>3 DEF HistoryUpdate, bad
    <3> QED
      BY <3>1, <3>2 DEF Typed
  <2> QED
    BY <2>2, <2>3
<1> QED
  BY <1>3, <1>5, <1>6, <1>7, <1>8, <1>9, <1>10, <1>11 DEF Typed

-----------------------------------------------------------------------------
(* The outputs of each state, field by field.                              *)

\* The default outputs.
LEMMA HoldType == ASSUME Typed PROVE Hold \in Output
  BY DEF Hold, Output, Typed

\* In IDLE: a CPU access that cheri_ex rejected is answered without the bus
\* (erred); any other that is taken is sent to it (sent).
LEMMA IdleOutputs ==
    ASSUME Typed, NEW in \in Inputs, ls_fsm_cs = "IDLE", NEW o, o = IdleOut(in)
    PROVE  LET erred == cpu_req_erred(in) /\ ~resp_wait(in)
               sent  == request_taken(in) /\ ~erred
           IN  /\ o \in Output
               /\ o.go <=> erred \/ sent
               /\ o.cheriErr <=> erred
               /\ o.pmp <=> sent /\ data_pmp_err(in)
               /\ o.goodcap <=> sent /\ lsu_req(in).kind = "cap"
               /\ ~sent => o.ns = "IDLE" /\ (o.hm <=> handle_misaligned_q)
               /\ sent /\ lsu_req(in).kind = "cap" =>
                     /\ o.ns = (IF in.gnt THEN "CTX_WAIT_GNT2" ELSE "CTX_WAIT_GNT1")
                     /\ o.hm <=> handle_misaligned_q
               /\ sent /\ lsu_req(in).kind = "mis" =>
                     /\ o.ns = (IF in.gnt THEN "WAIT_RVALID_MIS" ELSE "WAIT_GNT_MIS")
                     /\ o.hm <=> in.gnt \/ handle_misaligned_q
               /\ sent /\ lsu_req(in).kind \notin {"cap", "mis"} =>
                     /\ o.ns = (IF in.gnt THEN "IDLE" ELSE "WAIT_GNT")
                     /\ o.hm <=> ~in.gnt /\ handle_misaligned_q
<1> DEFINE erred == cpu_req_erred(in) /\ ~resp_wait(in)
           taken == request_taken(in)
           kind  == lsu_req(in).kind
           rest  == [Hold EXCEPT !.pmp = FALSE, !.cheriErr = FALSE]
           out   == [rest EXCEPT !.pmp = data_pmp_err(in), !.lsuErr = FALSE, !.go = TRUE,
                                 !.addr = in.gnt, !.ctrl = in.gnt]
<1>0. in.gnt \in BOOLEAN /\ data_pmp_err(in) \in BOOLEAN
  BY RequestTypes DEF Inputs
<1>1. rest \in Output /\ rest.ns = "IDLE" /\ ~rest.pmp /\ ~rest.cheriErr /\ ~rest.go /\ ~rest.goodcap
      /\ rest.hm = handle_misaligned_q
  BY HoldType DEF Hold, Output
<1> HIDE DEF rest
<1>2. out \in Output /\ out.ns = "IDLE" /\ out.pmp = data_pmp_err(in) /\ ~out.cheriErr /\ out.go
      /\ ~out.goodcap /\ out.hm = handle_misaligned_q
  BY <1>0, <1>1 DEF Output
<1> HIDE DEF out
<1>3. CASE erred
  <2>1. o = [rest EXCEPT !.cheriErr = TRUE, !.ctrl = TRUE, !.addr = TRUE, !.lsuErr = FALSE, !.go = TRUE]
    BY <1>3 DEF IdleOut, rest
  <2>2. o \in Output /\ o.ns = "IDLE" /\ ~o.pmp /\ o.cheriErr /\ o.go /\ ~o.goodcap
        /\ o.hm = handle_misaligned_q
    BY <1>1, <2>1 DEF Output
  <2> QED
    BY <1>3, <2>2
<1>4. CASE ~erred /\ ~taken
  <2>1. o = rest
    BY <1>4 DEF IdleOut, rest
  <2> QED
    BY <1>4, <1>1, <2>1
<1>5. CASE ~erred /\ taken /\ kind = "cap"
  <2>1. o = [out EXCEPT !.goodcap = TRUE, !.ns = IF in.gnt THEN "CTX_WAIT_GNT2" ELSE "CTX_WAIT_GNT1"]
    BY <1>5 DEF IdleOut, rest, out
  <2>2. o \in Output /\ o.ns = (IF in.gnt THEN "CTX_WAIT_GNT2" ELSE "CTX_WAIT_GNT1")
        /\ o.pmp = data_pmp_err(in) /\ ~o.cheriErr /\ o.go /\ o.goodcap /\ o.hm = handle_misaligned_q
    BY <1>2, <2>1 DEF Output, States
  <2> QED
    BY <1>5, <2>2
<1>6. CASE ~erred /\ taken /\ kind = "mis"
  <2>1. o = [out EXCEPT !.hm = IF in.gnt THEN TRUE ELSE handle_misaligned_q,
                        !.ns = IF in.gnt THEN "WAIT_RVALID_MIS" ELSE "WAIT_GNT_MIS"]
    BY <1>6 DEF IdleOut, rest, out
  <2>2. o \in Output /\ o.ns = (IF in.gnt THEN "WAIT_RVALID_MIS" ELSE "WAIT_GNT_MIS")
        /\ o.pmp = data_pmp_err(in) /\ ~o.cheriErr /\ o.go /\ ~o.goodcap
        /\ o.hm = (IF in.gnt THEN TRUE ELSE handle_misaligned_q)
    BY <1>2, <2>1 DEF Output, States, Typed
  <2> QED
    BY <1>6, <2>2
<1>7. CASE ~erred /\ taken /\ kind \notin {"cap", "mis"}
  <2>1. o = [out EXCEPT !.hm = IF in.gnt THEN FALSE ELSE handle_misaligned_q,
                        !.ns = IF in.gnt THEN "IDLE" ELSE "WAIT_GNT"]
    BY <1>7 DEF IdleOut, rest, out
  <2>2. o \in Output /\ o.ns = (IF in.gnt THEN "IDLE" ELSE "WAIT_GNT")
        /\ o.pmp = data_pmp_err(in) /\ ~o.cheriErr /\ o.go /\ ~o.goodcap
        /\ o.hm = (IF in.gnt THEN FALSE ELSE handle_misaligned_q)
    BY <1>2, <2>1 DEF Output, States, Typed
  <2> QED
    BY <1>7, <2>2
<1> QED
  BY <1>3, <1>4, <1>5, <1>6, <1>7

\* No request is taken, and cheri_err_q keeps its value.
Same(o) == o \in Output /\ ~o.go /\ ~o.goodcap /\ o.cheriErr = cheri_err_q

\* In the states of an access in progress no request is taken.
LEMMA BusyOutputs ==
    ASSUME Typed, NEW in \in Inputs
    PROVE  /\ Same(WaitGntMisOut(in)) /\ Same(WaitRvalidMisOut(in)) /\ Same(WaitGntOut(in))
           /\ Same(WaitRvalidMisGntsDoneOut(in)) /\ Same(CtxWaitGnt1Out(in))
           /\ Same(CtxWaitGnt2Out(in)) /\ Same(CtxWaitRespOut(in))
<1>0. in.gnt \in BOOLEAN /\ in.rvalid \in BOOLEAN /\ in.err \in BOOLEAN /\ data_pmp_err(in) \in BOOLEAN
  BY RequestTypes DEF Inputs
<1>1. Hold \in Output /\ Same(Hold)
  BY HoldType DEF Same, Hold
<1>2. Same(WaitGntMisOut(in))
  BY <1>1 DEF WaitGntMisOut, Same, Output, States
<1>3. Same(WaitRvalidMisOut(in))
  <2>1. CASE in.rvalid \/ pmp_err_q
    <3>1. PICK p, e, r, a, h \in BOOLEAN :
             WaitRvalidMisOut(in) = [Hold EXCEPT !.pmp = p, !.lsuErr = e, !.rdata = r,
                                       !.ns = IF in.gnt THEN "IDLE" ELSE "WAIT_GNT",
                                       !.addr = a, !.hm = h]
      BY <1>0, <2>1 DEF WaitRvalidMisOut
    <3> QED
      BY <1>1, <3>1 DEF Same, Output, States
  <2>2. CASE ~(in.rvalid \/ pmp_err_q)
    BY <1>1, <2>2 DEF WaitRvalidMisOut, Same, Output, States
  <2> QED
    BY <2>1, <2>2
<1>4. Same(WaitGntOut(in))
  BY <1>1 DEF WaitGntOut, Same, Output, States
<1>5. Same(WaitRvalidMisGntsDoneOut(in))
  <2>1. CASE in.rvalid
    <3>1. PICK p, e, a, r \in BOOLEAN :
             WaitRvalidMisGntsDoneOut(in) = [Hold EXCEPT !.pmp = p, !.lsuErr = e, !.addr = a,
                                               !.rdata = r, !.ns = "IDLE"]
      BY <1>0, <2>1 DEF WaitRvalidMisGntsDoneOut
    <3> QED
      BY <1>1, <3>1 DEF Same, Output, States
  <2>2. CASE ~in.rvalid
    BY <1>1, <2>2 DEF WaitRvalidMisGntsDoneOut
  <2> QED
    BY <2>1, <2>2
<1>6. Same(CtxWaitGnt1Out(in))
  BY <1>1 DEF CtxWaitGnt1Out, Same, Output, States
<1>7. Same(CtxWaitGnt2Out(in))
  BY <1>1 DEF CtxWaitGnt2Out, Same, Output, States
<1>8. Same(CtxWaitRespOut(in))
  BY <1>1 DEF CtxWaitRespOut, Same, Output, States
<1> QED
  BY <1>2, <1>3, <1>4, <1>5, <1>6, <1>7, <1>8

-----------------------------------------------------------------------------
(* The invariant is inductive.                                             *)

\* Reset establishes the invariant.
LEMMA InitInv == Init => IInv
<1> SUFFICES ASSUME Init PROVE IInv
  OBVIOUS
<1>1. Typed
  <2>1. NoToken \in Tokens
    BY DEF Tokens, NoToken
  <2>2. NoJob \in [who : {"none", "cpu", "tbre"}, id : {0, 1}, req : Requests \cup {NoReq},
                   bad : SUBSET {0, 1, 2}]
    <3>1. NoReq \in Requests \cup {NoReq} /\ {} \in SUBSET {0, 1, 2}
      OBVIOUS
    <3> QED
      BY <3>1 DEF NoJob
  <2> QED
    BY <2>1, <2>2, EmptySeq DEF Init, Typed, States
<1>2. Len(bus) = 0
  BY DEF Init
<1> QED
  BY <1>1, <1>2 DEF Init, IInv, IdleShape, BusyShape, MisShape, CapShape, Owed

\* The request being served stays where it is until it is done.
LEMMA ServedHeld ==
    ASSUME Typed, NEW in \in Inputs, NEW o \in Output, UnitUpdate(in, o), MastersUpdate(in, o),
           o.go \/ ls_fsm_cs # "IDLE", o.ns # "IDLE", lsu_req(in) # NoReq
    PROVE  served' = lsu_req(in)
<1>1. (req_is_tbre_q' <=> cur_req_is_tbre(in))
  BY DEF UnitUpdate, NextOwner, cur_req_is_tbre
<1>2. CASE cur_req_is_tbre(in)
  BY <1>1, <1>2 DEF MastersUpdate, Presents, lsu_req, served
<1>3. CASE ~cur_req_is_tbre(in)
  BY <1>1, <1>3 DEF MastersUpdate, Presents, lsu_req, served
<1> QED
  BY <1>2, <1>3

\* A cycle in IDLE preserves the invariant.
LEMMA IdleStep ==
    ASSUME IInv, NEW in \in Inputs, Idle(in)
    PROVE  IInv'
<1> DEFINE o     == IdleOut(in)
           erred == cpu_req_erred(in) /\ ~resp_wait(in)
           sent  == request_taken(in) /\ ~erred
           kind  == lsu_req(in).kind
<1>1. ls_fsm_cs = "IDLE" /\ Clock(in, o) /\ Typed
  BY DEF Idle, IInv
<1>2. InputPossible(in) /\ UnitUpdate(in, o) /\ DataUpdate(in, o) /\ HistoryUpdate(in, o)
      /\ MastersUpdate(in, o)
  BY <1>1 DEF Clock
<1>3. /\ o \in Output
      /\ o.go <=> erred \/ sent
      /\ o.cheriErr <=> erred
      /\ o.pmp <=> sent /\ data_pmp_err(in)
      /\ o.goodcap <=> sent /\ kind = "cap"
      /\ ~sent => o.ns = "IDLE" /\ (o.hm <=> handle_misaligned_q)
      /\ sent /\ kind = "cap" =>
            /\ o.ns = (IF in.gnt THEN "CTX_WAIT_GNT2" ELSE "CTX_WAIT_GNT1")
            /\ o.hm <=> handle_misaligned_q
      /\ sent /\ kind = "mis" =>
            /\ o.ns = (IF in.gnt THEN "WAIT_RVALID_MIS" ELSE "WAIT_GNT_MIS")
            /\ o.hm <=> in.gnt \/ handle_misaligned_q
      /\ sent /\ kind \notin {"cap", "mis"} =>
            /\ o.ns = (IF in.gnt THEN "IDLE" ELSE "WAIT_GNT")
            /\ o.hm <=> ~in.gnt /\ handle_misaligned_q
  BY <1>1, IdleOutputs
<1> HIDE DEF o
<1>4. Typed'
  BY <1>1, <1>3, TypedStep
<1>5. o.go \in BOOLEAN
  BY <1>3 DEF Output
<1>6. Moved(in)
  BY <1>1, <1>2, <1>5, BusStep
<1>7. in.gnt => sent /\ ~data_pmp_err(in)
  BY <1>1, <1>2 DEF InputPossible, data_req
\* A request is taken only when nothing is left of the last access.
<1>8. o.go => ~resp_wait(in)
  BY <1>3 DEF request_taken
<1>9. IdleShape
  BY DEF IInv
<1>10. Len(bus) \in Nat
  BY <1>1 DEF Typed
<1>11. ~resp_wait(in) => Len(bus) = (IF in.rvalid THEN 1 ELSE 0)
                         /\ (cap_rx_fsm_q = "CRX_IDLE" \/ (in.rvalid /\ cap_rx_fsm_q = "CRX_WAIT_RESP2"))
  BY <1>1, <1>6, <1>9, <1>10 DEF IdleShape, resp_wait, lsu_resp_valid, Typed, Moved
<1>12. resp_wait(in) => ~sent /\ ~erred /\ ~in.rvalid /\ ~pmp_err_q /\ ~cheri_err_q /\ outstanding_resp_q
  BY <1>1 DEF resp_wait, lsu_resp_valid, request_taken
<1>13. cap_rx_fsm_q' = cap_rx_fsm_d(in, o.goodcap)
  BY <1>2 DEF UnitUpdate
<1>14. ls_fsm_cs' = o.ns /\ (handle_misaligned_q' <=> o.hm) /\ (pmp_err_q' <=> o.pmp)
       /\ (cheri_err_q' <=> o.cheriErr) /\ (outstanding_resp_q' <=> o.go \/ resp_wait(in))
  BY <1>2 DEF UnitUpdate, resp_wait
<1>15. sent => lsu_req(in) # NoReq
  BY <1>1, <1>2 DEF request_taken, lsu_req, cur_req_is_tbre, tbre_req_good, cpu_req_valid, InputPossible
<1>16. sent /\ o.ns # "IDLE" => served' = lsu_req(in)
  BY <1>1, <1>2, <1>3, <1>15, ServedHeld
<1>17. data_addr = 1 /\ ~handle_misaligned_q
  BY <1>1, <1>9 DEF data_addr, addr_incr_req, IdleShape
<1>18. data_pmp_err(in) <=> 1 \in lsu_req(in).pmp
  BY <1>17 DEF data_pmp_err
<1>19. Owed'
  <2>1. job'.id = IF o.go THEN 1 - job.id ELSE job.id
    BY <1>1, <1>2 DEF HistoryUpdate, Typed
  <2>2. CASE o.go
    <3>1. \A k \in 1 .. Len(bus') : bus'[k].id = 1 - job.id
      BY <1>1, <1>2, <1>5, <1>8, <1>11, <2>2, BusStep
    <3> QED
      BY <2>1, <2>2, <3>1 DEF Owed
  <2>3. CASE ~o.go
    <3>1. \A k \in 1 .. Len(bus') : bus'[k].id = job.id
      BY <1>1, <1>2, <1>5, <2>3, BusStep DEF IInv
    <3> QED
      BY <2>1, <2>3, <3>1 DEF Owed
  <2> QED
    BY <2>2, <2>3
<1>20. ~resp_wait(in) => Len(bus') = (IF in.gnt THEN 1 ELSE 0)
  <2> SUFFICES ASSUME ~resp_wait(in) PROVE Len(bus') = (IF in.gnt THEN 1 ELSE 0)
    OBVIOUS
  <2>0. Len(bus') \in Nat
    BY <1>4 DEF Typed
  <2>1. CASE in.rvalid
    <3>1. Len(bus) = 1
      BY <1>11, <2>1
    <3>2. ~in.gnt => Len(bus) = Len(bus') + 1
      BY <1>6, <2>1 DEF Moved
    <3>3. in.gnt => Len(bus) = Len(bus')
      BY <1>6, <2>1 DEF Moved
    <3> QED
      BY <2>0, <3>1, <3>2, <3>3
  <2>2. CASE ~in.rvalid
    <3>1. Len(bus) = 0
      BY <1>11, <2>2
    <3>2. ~in.gnt => Len(bus) = Len(bus')
      BY <1>6, <2>2 DEF Moved
    <3>3. in.gnt => Len(bus') = Len(bus) + 1
      BY <1>6, <2>2 DEF Moved
    <3> QED
      BY <2>0, <3>1, <3>2, <3>3
  <2> QED
    BY <2>1, <2>2
<1> HIDE DEF erred, sent, kind
<1>21. IdleShape'
  <2>1. CASE ~resp_wait(in) /\ ~sent
    <3>1. Len(bus') = 0 /\ cap_rx_fsm_q' = "CRX_IDLE"
      BY <1>3, <1>7, <1>13, <1>20, <1>11, <2>1 DEF cap_rx_fsm_d
    <3> QED
      BY <1>3, <1>14, <1>17, <2>1, <3>1 DEF IdleShape
  <2>2. CASE resp_wait(in)
    <3>1. ~o.go /\ ~o.pmp /\ ~o.cheriErr /\ ~o.goodcap /\ ~in.gnt /\ ~in.rvalid
      BY <1>3, <1>7, <1>12, <2>2
    <3>2. Len(bus) = 1 /\ cap_rx_fsm_q # "CRX_WAIT_RESP1"
      BY <1>1, <1>9, <1>12, <2>2 DEF IdleShape
    <3>3. Len(bus') = 1 /\ cap_rx_fsm_q' = cap_rx_fsm_q
      BY <1>6, <1>13, <3>1, <3>2 DEF cap_rx_fsm_d, Moved
    <3> QED
      BY <1>3, <1>12, <1>14, <1>17, <2>2, <3>1, <3>2, <3>3 DEF IdleShape
  <2>3. CASE ~resp_wait(in) /\ sent
    <3> SUFFICES ASSUME ls_fsm_cs' = "IDLE" PROVE IdleShape'
      BY DEF IdleShape
    <3>1. kind \notin {"cap", "mis"} /\ in.gnt
      BY <1>3, <1>14, <2>3
    <3>2. Len(bus') = 1 /\ cap_rx_fsm_q' = "CRX_IDLE"
      BY <1>3, <1>13, <1>20, <1>11, <2>3, <3>1 DEF cap_rx_fsm_d
    <3>3. ~pmp_err_q' /\ ~cheri_err_q' /\ outstanding_resp_q' /\ ~handle_misaligned_q'
      BY <1>3, <1>7, <1>14, <1>17, <2>3, <3>1 DEF sent
    <3> QED
      BY <3>2, <3>3 DEF IdleShape
  <2> QED
    BY <2>1, <2>2, <2>3
<1>22. BusyShape'
  <2> SUFFICES ASSUME ls_fsm_cs' # "IDLE" PROVE outstanding_resp_q' /\ ~cheri_err_q' /\ served' # NoReq
    BY DEF BusyShape
  <2>1. sent
    BY <1>3, <1>14
  <2> QED
    BY <1>3, <1>14, <1>15, <1>16, <2>1 DEF sent
<1>23. MisShape' /\ CapShape'
  <2>1. CASE ~sent
    BY <1>3, <1>14, <2>1 DEF MisShape, CapShape
  <2>2. CASE sent
    <3>1. o.go /\ ~resp_wait(in)
      BY <1>3, <1>8, <2>2
    <3>2. job'.req = lsu_req(in)
      BY <1>2, <3>1 DEF HistoryUpdate
    <3>3. pmp_err_q' => 1 \in lsu_req(in).pmp
      BY <1>3, <1>14, <1>18
    <3>4. ls_fsm_cs' # "IDLE" => served' = lsu_req(in)
      BY <1>14, <1>16, <2>2
    <3>5. Len(bus') = (IF in.gnt THEN 1 ELSE 0) /\ (in.gnt => ~pmp_err_q')
      BY <1>3, <1>7, <1>14, <1>20, <3>1
    <3>6. CASE kind = "cap"
      <4>1. cap_rx_fsm_q' = "CRX_WAIT_RESP1"
        BY <1>3, <1>11, <1>13, <2>2, <3>1, <3>6 DEF cap_rx_fsm_d
      <4> QED
        BY <1>3, <1>14, <1>17, <2>2, <3>2, <3>3, <3>4, <3>5, <3>6, <4>1 DEF MisShape, CapShape, kind
    <3>7. CASE kind # "cap"
      <4>1. cap_rx_fsm_q' = "CRX_IDLE"
        BY <1>3, <1>11, <1>13, <2>2, <3>1, <3>7 DEF cap_rx_fsm_d
      <4>2. data_addr' = 1 \/ ls_fsm_cs' # "WAIT_GNT"
        BY <1>3, <1>14, <1>17, <2>2, <3>7 DEF data_addr, addr_incr_req
      <4>3. ls_fsm_cs' \in {"IDLE", "WAIT_GNT", "WAIT_RVALID_MIS", "WAIT_GNT_MIS"}
        BY <1>3, <1>14, <2>2, <3>7
      <4> QED
        BY <1>3, <1>14, <1>17, <2>2, <3>3, <3>4, <3>5, <3>7, <4>1, <4>2, <4>3 DEF MisShape, CapShape
    <3> QED
      BY <3>6, <3>7
  <2> QED
    BY <2>1, <2>2
<1> QED
  BY <1>4, <1>19, <1>21, <1>22, <1>23 DEF IInv

\* What a cycle does in any state but IDLE.
Progress(in, o) ==
    /\ Typed' /\ Owed' /\ BusyShape'
    /\ outstanding_resp_q' /\ ~cheri_err_q'
    /\ Moved(in) /\ Len(bus) \in Nat /\ Len(bus') \in Nat
    /\ ls_fsm_cs' = o.ns /\ (handle_misaligned_q' <=> o.hm) /\ (pmp_err_q' <=> o.pmp)
    /\ cap_rx_fsm_q' = cap_rx_fsm_d(in, FALSE)
    /\ lsu_req(in) = served
    /\ data_pmp_err(in) <=> data_addr \in served.pmp
    /\ ls_fsm_cs' # "IDLE" => served' = served
    /\ job'.req = job.req
    /\ in.gnt => data_req(in) /\ data_addr \notin served.pmp

\* Every cycle outside IDLE is of this form.
LEMMA BusyFacts ==
    ASSUME IInv, NEW in \in Inputs, NEW o, Same(o), ls_fsm_cs # "IDLE", Clock(in, o)
    PROVE  Progress(in, o)
<1>1. Typed /\ o \in Output /\ ~o.go /\ ~o.goodcap /\ o.cheriErr = cheri_err_q
  BY DEF IInv, Same
<1>2. InputPossible(in) /\ UnitUpdate(in, o) /\ DataUpdate(in, o) /\ HistoryUpdate(in, o)
      /\ MastersUpdate(in, o)
  BY DEF Clock
<1>3. Typed'
  BY <1>1, TypedStep
<1>4. o.go \in BOOLEAN /\ o.goodcap = FALSE
  BY <1>1 DEF Output
<1>5. Moved(in) /\ (Owed => \A k \in 1 .. Len(bus') : bus'[k].id = job.id)
  BY <1>1, <1>2, <1>4, BusStep
<1>6. job'.id = job.id /\ job'.req = job.req
  BY <1>1, <1>2 DEF HistoryUpdate, Typed
<1>7. Owed'
  BY <1>5, <1>6 DEF Owed, IInv
<1>8. outstanding_resp_q' /\ ~cheri_err_q' /\ served # NoReq
  BY <1>1, <1>2 DEF UnitUpdate, lsu_resp_valid, IInv, BusyShape
<1>9. ls_fsm_cs' = o.ns /\ (handle_misaligned_q' <=> o.hm) /\ (pmp_err_q' <=> o.pmp)
      /\ cap_rx_fsm_q' = cap_rx_fsm_d(in, FALSE)
  BY <1>2, <1>4 DEF UnitUpdate
<1>10. lsu_req(in) = served
  BY DEF lsu_req, cur_req_is_tbre, served
<1>11. data_pmp_err(in) <=> data_addr \in served.pmp
  BY <1>10 DEF data_pmp_err
<1>12. ls_fsm_cs' # "IDLE" => served' = served
  BY <1>1, <1>2, <1>8, <1>9, <1>10, ServedHeld
<1>13. BusyShape'
  BY <1>8, <1>12 DEF BusyShape
<1>14. in.gnt => data_req(in) /\ data_addr \notin served.pmp
  BY <1>2, <1>11 DEF InputPossible
<1>15. Len(bus) \in Nat /\ Len(bus') \in Nat
  BY <1>1, <1>3 DEF Typed
<1> QED
  BY <1>3, <1>5, <1>6, <1>7, <1>8, <1>9, <1>10, <1>11, <1>12, <1>13, <1>14, <1>15 DEF Progress

\* The first half of a misaligned access waits for its grant.
LEMMA WaitGntMisStep ==
    ASSUME IInv, NEW in \in Inputs, WaitGntMis(in)
    PROVE  IInv'
<1> DEFINE o == WaitGntMisOut(in)
<1>1. ls_fsm_cs = "WAIT_GNT_MIS" /\ Clock(in, o) /\ Typed
  BY DEF WaitGntMis, IInv
<1>2. Same(o)
  BY <1>1, BusyOutputs
<1>3. Progress(in, o)
  BY <1>1, <1>2, BusyFacts
<1>4. /\ in.gnt \/ pmp_err_q => o.ns = "WAIT_RVALID_MIS" /\ o.hm
      /\ ~(in.gnt \/ pmp_err_q) => o.ns = "WAIT_GNT_MIS" /\ o.hm = handle_misaligned_q
      /\ o.pmp = pmp_err_q
  BY <1>1 DEF WaitGntMisOut, Hold
<1> HIDE DEF o
<1>5. ~handle_misaligned_q /\ Len(bus) = 0 /\ cap_rx_fsm_q = "CRX_IDLE" /\ (pmp_err_q => 1 \in served.pmp)
  BY <1>1 DEF IInv, MisShape
<1>6. data_addr = 1
  BY <1>1 DEF data_addr, addr_incr_req
<1>7. ~in.rvalid
  BY <1>3, <1>5 DEF Progress, Moved
<1>8. (in.gnt => Len(bus') = 1 /\ ~pmp_err_q) /\ (~in.gnt => Len(bus') = 0)
  BY <1>3, <1>5, <1>6, <1>7 DEF Progress, Moved
<1>9. cap_rx_fsm_q' = "CRX_IDLE"
  BY <1>3, <1>5 DEF Progress, cap_rx_fsm_d
<1>10. IdleShape' /\ CapShape'
  BY <1>3, <1>4 DEF Progress, IdleShape, CapShape
<1>11. MisShape'
  BY <1>3, <1>4, <1>5, <1>8, <1>9 DEF Progress, MisShape
<1> QED
  BY <1>3, <1>10, <1>11 DEF Progress, IInv

\* The first half waits for its response, the second for its grant.
LEMMA WaitRvalidMisStep ==
    ASSUME IInv, NEW in \in Inputs, WaitRvalidMis(in)
    PROVE  IInv'
<1> DEFINE o == WaitRvalidMisOut(in)
<1>1. ls_fsm_cs = "WAIT_RVALID_MIS" /\ Clock(in, o) /\ Typed
  BY DEF WaitRvalidMis, IInv
<1>2. Same(o)
  BY <1>1, BusyOutputs
<1>3. Progress(in, o)
  BY <1>1, <1>2, BusyFacts
<1> DEFINE answered == in.rvalid \/ pmp_err_q
<1>4. /\ answered /\ in.gnt => o.ns = "IDLE" /\ ~o.hm
      /\ answered /\ ~in.gnt => o.ns = "WAIT_GNT" /\ o.hm
      /\ answered => (o.pmp <=> data_pmp_err(in))
      /\ ~answered /\ in.gnt => o.ns = "WAIT_RVALID_MIS_GNTS_DONE" /\ ~o.hm /\ o.pmp = pmp_err_q
      /\ ~answered /\ ~in.gnt => o.ns = "WAIT_RVALID_MIS" /\ o.hm = handle_misaligned_q /\ o.pmp = pmp_err_q
  BY <1>1 DEF WaitRvalidMisOut, Hold
<1> HIDE DEF o
<1>5. handle_misaligned_q /\ Len(bus) = (IF pmp_err_q THEN 0 ELSE 1) /\ cap_rx_fsm_q = "CRX_IDLE"
  BY <1>1 DEF IInv, MisShape
<1>6. data_addr = 2
  BY <1>1 DEF data_addr, addr_incr_req
<1>7. answered => (in.gnt => Len(bus') = 1) /\ (~in.gnt => Len(bus') = 0)
  <2>1. CASE in.rvalid
    <3>1. Len(bus) = 1 /\ ~pmp_err_q
      BY <1>3, <1>5, <2>1 DEF Progress, Moved
    <3> QED
      BY <1>3, <2>1, <3>1 DEF Progress, Moved
  <2>2. CASE ~in.rvalid /\ pmp_err_q
    <3>1. Len(bus) = 0
      BY <1>5, <2>2
    <3> QED
      BY <1>3, <2>2, <3>1 DEF Progress, Moved
  <2> QED
    BY <2>1, <2>2
<1>8. ~answered => Len(bus) = 1 /\ (in.gnt => Len(bus') = 2) /\ (~in.gnt => Len(bus') = 1)
  BY <1>3, <1>5 DEF Progress, Moved
<1>9. cap_rx_fsm_q' = "CRX_IDLE"
  BY <1>3, <1>5 DEF Progress, cap_rx_fsm_d
<1>10. IdleShape' /\ CapShape'
  BY <1>3, <1>4, <1>6, <1>7, <1>9 DEF Progress, IdleShape, CapShape
<1>11. MisShape'
  <2>1. CASE answered
    <3>1. ~in.gnt => data_addr' = 2
      BY <1>3, <1>4, <2>1 DEF Progress, data_addr, addr_incr_req
    <3> QED
      BY <1>3, <1>4, <1>6, <1>7, <1>9, <2>1, <3>1 DEF Progress, MisShape
  <2>2. CASE ~answered
    BY <1>3, <1>4, <1>5, <1>6, <1>8, <1>9, <2>2 DEF Progress, MisShape
  <2> QED
    BY <2>1, <2>2
<1> QED
  BY <1>3, <1>10, <1>11 DEF Progress, IInv

\* A word, or the second half, waits for its grant.
LEMMA WaitGntStep ==
    ASSUME IInv, NEW in \in Inputs, WaitGnt(in)
    PROVE  IInv'
<1> DEFINE o == WaitGntOut(in)
<1>1. ls_fsm_cs = "WAIT_GNT" /\ Clock(in, o) /\ Typed
  BY DEF WaitGnt, IInv
<1>2. Same(o)
  BY <1>1, BusyOutputs
<1>3. Progress(in, o)
  BY <1>1, <1>2, BusyFacts
<1>4. /\ in.gnt \/ pmp_err_q => o.ns = "IDLE" /\ ~o.hm
      /\ ~(in.gnt \/ pmp_err_q) => o.ns = "WAIT_GNT" /\ o.hm = handle_misaligned_q
      /\ o.pmp = pmp_err_q
  BY <1>1 DEF WaitGntOut, Hold
<1> HIDE DEF o
<1>5. Len(bus) = 0 /\ cap_rx_fsm_q = "CRX_IDLE" /\ (pmp_err_q => data_addr \in served.pmp)
  BY <1>1 DEF IInv, MisShape
<1>6. ~in.rvalid
  BY <1>3, <1>5 DEF Progress, Moved
<1>7. (in.gnt => Len(bus') = 1 /\ ~pmp_err_q) /\ (~in.gnt => Len(bus') = 0)
  BY <1>3, <1>5, <1>6 DEF Progress, Moved
<1>8. cap_rx_fsm_q' = "CRX_IDLE"
  BY <1>3, <1>5 DEF Progress, cap_rx_fsm_d
<1>9. IdleShape' /\ CapShape'
  BY <1>3, <1>4, <1>7, <1>8 DEF Progress, IdleShape, CapShape
<1>10. MisShape'
  BY <1>3, <1>4, <1>5, <1>7, <1>8 DEF Progress, MisShape
<1> QED
  BY <1>3, <1>9, <1>10 DEF Progress, IInv

\* Both halves are granted and the first waits for its response.
LEMMA WaitRvalidMisGntsDoneStep ==
    ASSUME IInv, NEW in \in Inputs, WaitRvalidMisGntsDone(in)
    PROVE  IInv'
<1> DEFINE o == WaitRvalidMisGntsDoneOut(in)
<1>1. ls_fsm_cs = "WAIT_RVALID_MIS_GNTS_DONE" /\ Clock(in, o) /\ Typed
  BY DEF WaitRvalidMisGntsDone, IInv
<1>2. Same(o)
  BY <1>1, BusyOutputs
<1>3. Progress(in, o)
  BY <1>1, <1>2, BusyFacts
<1>4. /\ in.rvalid => o.ns = "IDLE" /\ (o.pmp <=> data_pmp_err(in))
      /\ ~in.rvalid => o.ns = "WAIT_RVALID_MIS_GNTS_DONE" /\ o.pmp = pmp_err_q
      /\ o.hm = handle_misaligned_q
  BY <1>1 DEF WaitRvalidMisGntsDoneOut, Hold
<1> HIDE DEF o
<1>5. ~handle_misaligned_q /\ Len(bus) = 2 /\ cap_rx_fsm_q = "CRX_IDLE" /\ ~pmp_err_q /\ 2 \notin served.pmp
  BY <1>1 DEF IInv, MisShape
<1>6. data_addr = 2 /\ ~in.gnt
  BY <1>1, <1>3 DEF data_addr, addr_incr_req, Progress, data_req
<1>7. in.rvalid => Len(bus') = 1
  <2>1. Len(bus') \in Nat /\ (in.rvalid => Len(bus) = Len(bus') + 1)
    BY <1>3, <1>6 DEF Progress, Moved
  <2>2. Len(bus) = 2
    BY <1>5
  <2> QED
    BY <2>1, <2>2
<1>8. ~in.rvalid => Len(bus') = 2
  BY <1>3, <1>5, <1>6 DEF Progress, Moved
<1>9. cap_rx_fsm_q' = "CRX_IDLE" /\ ~pmp_err_q'
  BY <1>3, <1>4, <1>5, <1>6 DEF Progress, cap_rx_fsm_d
<1>10. IdleShape' /\ CapShape'
  BY <1>3, <1>4, <1>5, <1>7, <1>9 DEF Progress, IdleShape, CapShape
<1>11. MisShape'
  BY <1>3, <1>4, <1>5, <1>8, <1>9 DEF Progress, MisShape
<1> QED
  BY <1>3, <1>10, <1>11 DEF Progress, IInv

\* The first word of a capability waits for its grant.
LEMMA CtxWaitGnt1Step ==
    ASSUME IInv, NEW in \in Inputs, CtxWaitGnt1(in)
    PROVE  IInv'
<1> DEFINE o == CtxWaitGnt1Out(in)
<1>1. ls_fsm_cs = "CTX_WAIT_GNT1" /\ Clock(in, o) /\ Typed
  BY DEF CtxWaitGnt1, IInv
<1>2. Same(o)
  BY <1>1, BusyOutputs
<1>3. Progress(in, o)
  BY <1>1, <1>2, BusyFacts
<1>4. /\ in.gnt => o.ns = "CTX_WAIT_GNT2"
      /\ ~in.gnt => o.ns = "CTX_WAIT_GNT1"
      /\ o.hm = handle_misaligned_q /\ o.pmp = pmp_err_q
  BY <1>1 DEF CtxWaitGnt1Out, Hold
<1> HIDE DEF o
<1>5. ~handle_misaligned_q /\ Len(bus) = 0 /\ cap_rx_fsm_q = "CRX_WAIT_RESP1"
      /\ (pmp_err_q => 1 \in served.pmp) /\ job.req.kind = "cap"
  BY <1>1 DEF IInv, CapShape
<1>6. data_addr = 1
  BY <1>1 DEF data_addr, addr_incr_req
<1>7. ~in.rvalid
  BY <1>3, <1>5 DEF Progress, Moved
<1>8. (in.gnt => Len(bus') = 1 /\ ~pmp_err_q) /\ (~in.gnt => Len(bus') = 0)
  BY <1>3, <1>5, <1>6, <1>7 DEF Progress, Moved
<1>9. cap_rx_fsm_q' = "CRX_WAIT_RESP1"
  BY <1>3, <1>5, <1>7 DEF Progress, cap_rx_fsm_d
<1>10. IdleShape' /\ MisShape'
  BY <1>3, <1>4 DEF Progress, IdleShape, MisShape
<1>11. CapShape'
  BY <1>3, <1>4, <1>5, <1>8, <1>9 DEF Progress, CapShape
<1> QED
  BY <1>3, <1>10, <1>11 DEF Progress, IInv

\* The second word waits for its grant; the first word's response may come
\* before, in the same cycle, or after.
LEMMA CtxWaitGnt2Step ==
    ASSUME IInv, NEW in \in Inputs, CtxWaitGnt2(in)
    PROVE  IInv'
<1> DEFINE o == CtxWaitGnt2Out(in)
<1>1. ls_fsm_cs = "CTX_WAIT_GNT2" /\ Clock(in, o) /\ Typed
  BY DEF CtxWaitGnt2, IInv
<1>2. Same(o)
  BY <1>1, BusyOutputs
<1>3. Progress(in, o)
  BY <1>1, <1>2, BusyFacts
<1>4. /\ in.gnt /\ (in.rvalid \/ cap_rx_fsm_q = "CRX_WAIT_RESP2") => o.ns = "IDLE"
      /\ in.gnt /\ ~(in.rvalid \/ cap_rx_fsm_q = "CRX_WAIT_RESP2") => o.ns = "CTX_WAIT_RESP"
      /\ ~in.gnt => o.ns = "CTX_WAIT_GNT2"
      /\ o.hm = handle_misaligned_q /\ o.pmp = pmp_err_q
  BY <1>1 DEF CtxWaitGnt2Out, Hold
<1> HIDE DEF o
<1>5. ~handle_misaligned_q /\ ~pmp_err_q /\ job.req.kind = "cap"
  BY <1>1 DEF IInv, CapShape
<1>6. CASE Len(bus) = 0 /\ cap_rx_fsm_q = "CRX_WAIT_RESP2"
  <2>1. ~in.rvalid
    BY <1>3, <1>6 DEF Progress, Moved
  <2>2. (in.gnt => Len(bus') = 1) /\ (~in.gnt => Len(bus') = 0)
    BY <1>3, <1>6, <2>1 DEF Progress, Moved
  <2>3. cap_rx_fsm_q' = "CRX_WAIT_RESP2"
    BY <1>3, <1>6, <2>1 DEF Progress, cap_rx_fsm_d
  <2>4. IdleShape' /\ MisShape' /\ CapShape'
    BY <1>3, <1>4, <1>5, <1>6, <2>2, <2>3 DEF Progress, IdleShape, MisShape, CapShape
  <2> QED
    BY <1>3, <2>4 DEF Progress, IInv
<1>7. CASE Len(bus) = 1 /\ cap_rx_fsm_q = "CRX_WAIT_RESP1" /\ in.rvalid
  <2>1. (in.gnt => Len(bus') = 1) /\ (~in.gnt => Len(bus') = 0)
    BY <1>3, <1>7 DEF Progress, Moved
  <2>2. cap_rx_fsm_q' = "CRX_WAIT_RESP2"
    BY <1>3, <1>7 DEF Progress, cap_rx_fsm_d
  <2>3. IdleShape' /\ MisShape' /\ CapShape'
    BY <1>3, <1>4, <1>5, <1>7, <2>1, <2>2 DEF Progress, IdleShape, MisShape, CapShape
  <2> QED
    BY <1>3, <2>3 DEF Progress, IInv
<1>8. CASE Len(bus) = 1 /\ cap_rx_fsm_q = "CRX_WAIT_RESP1" /\ ~in.rvalid
  <2>1. (in.gnt => Len(bus') = 2) /\ (~in.gnt => Len(bus') = 1)
    BY <1>3, <1>8 DEF Progress, Moved
  <2>2. cap_rx_fsm_q' = "CRX_WAIT_RESP1"
    BY <1>3, <1>8 DEF Progress, cap_rx_fsm_d
  <2>3. IdleShape' /\ MisShape' /\ CapShape'
    BY <1>3, <1>4, <1>5, <1>8, <2>1, <2>2 DEF Progress, IdleShape, MisShape, CapShape
  <2> QED
    BY <1>3, <2>3 DEF Progress, IInv
<1> QED
  BY <1>1, <1>6, <1>7, <1>8 DEF IInv, CapShape

\* Both words are granted and the first waits for its response.
LEMMA CtxWaitRespStep ==
    ASSUME IInv, NEW in \in Inputs, CtxWaitResp(in)
    PROVE  IInv'
<1> DEFINE o == CtxWaitRespOut(in)
<1>1. ls_fsm_cs = "CTX_WAIT_RESP" /\ Clock(in, o) /\ Typed
  BY DEF CtxWaitResp, IInv
<1>2. Same(o)
  BY <1>1, BusyOutputs
<1>3. Progress(in, o)
  BY <1>1, <1>2, BusyFacts
<1>4. /\ in.rvalid => o.ns = "IDLE"
      /\ ~in.rvalid => o.ns = "CTX_WAIT_RESP"
      /\ o.hm = handle_misaligned_q /\ o.pmp = pmp_err_q
  BY <1>1 DEF CtxWaitRespOut, Hold
<1> HIDE DEF o
<1>5. ~handle_misaligned_q /\ ~pmp_err_q /\ Len(bus) = 2 /\ cap_rx_fsm_q = "CRX_WAIT_RESP1"
      /\ job.req.kind = "cap"
  BY <1>1 DEF IInv, CapShape
<1>6. ~in.gnt
  BY <1>1, <1>3 DEF Progress, data_req
<1>7. in.rvalid => Len(bus') = 1 /\ cap_rx_fsm_q' = "CRX_WAIT_RESP2"
  <2>1. Len(bus') \in Nat /\ (in.rvalid => Len(bus) = Len(bus') + 1)
    BY <1>3, <1>6 DEF Progress, Moved
  <2>2. Len(bus) = 2
    BY <1>5
  <2>3. in.rvalid => Len(bus') = 1
    BY <2>1, <2>2
  <2>4. cap_rx_fsm_q = "CRX_WAIT_RESP1" /\ cap_rx_fsm_q' = cap_rx_fsm_d(in, FALSE)
    BY <1>3, <1>5 DEF Progress
  <2> QED
    BY <2>3, <2>4 DEF cap_rx_fsm_d
<1>8. ~in.rvalid => Len(bus') = 2 /\ cap_rx_fsm_q' = "CRX_WAIT_RESP1"
  BY <1>3, <1>5, <1>6 DEF Progress, Moved, cap_rx_fsm_d
<1>9. IdleShape' /\ MisShape'
  BY <1>3, <1>4, <1>5, <1>7 DEF Progress, IdleShape, MisShape
<1>10. CapShape'
  BY <1>3, <1>4, <1>5, <1>8 DEF Progress, CapShape
<1> QED
  BY <1>3, <1>9, <1>10 DEF Progress, IInv

\* Every cycle preserves the invariant.
LEMMA NextInv == IInv /\ [Next]_vars => IInv'
<1> SUFFICES ASSUME IInv, [Next]_vars PROVE IInv'
  OBVIOUS
<1>1. ASSUME NEW in \in Inputs, Cycle(in) PROVE IInv'
  BY <1>1, IdleStep, WaitGntMisStep, WaitRvalidMisStep, WaitGntStep, WaitRvalidMisGntsDoneStep,
     CtxWaitGnt1Step, CtxWaitGnt2Step, CtxWaitRespStep DEF Cycle
<1>2. CASE UNCHANGED vars
  <2>1. UNCHANGED unitVars /\ cpu' = cpu /\ eng' = eng /\ bus' = bus /\ job' = job
    BY <1>2 DEF vars
  <2> QED
    BY <2>1 DEF unitVars, IInv, Typed, IdleShape, BusyShape, MisShape, CapShape, Owed, served,
                data_addr, addr_incr_req
<1> QED
  BY <1>1, <1>2 DEF Next

\* The invariant holds in every reachable state.
LEMMA Invariance == Spec => []IInv
<1> QED
  BY InitInv, NextInv, PTL DEF Spec

-----------------------------------------------------------------------------
(* The theorems.                                                           *)

\* The registers of the unit keep their types, and the bus never owes it more
\* than two words, whatever the masters ask for.
THEOREM TypeCorrect == Spec => []TypeOK
<1>1. IInv => TypeOK
  <2> SUFFICES ASSUME IInv PROVE TypeOK
    OBVIOUS
  <2>1. Typed
    BY DEF IInv
  <2>2. Len(bus) \in {0, 1, 2}
    BY <2>1, Zenon DEF IInv, Typed, States, IdleShape, MisShape, CapShape
  <2>3. Len(bus) <= 2
    <3>1. \A n \in {0, 1, 2} : n <= 2
      OBVIOUS
    <3> QED
      BY <2>2, <3>1
  <2> QED
    BY <2>1, <2>3 DEF Typed, TypeOK
<1> QED
  BY <1>1, Invariance, PTL

\* The words on the bus belong to the access in progress: none outlives the
\* response of its access.
THEOREM WordsOwned == Spec => []NoStrayWord
<1>1. IInv => NoStrayWord
  <2> SUFFICES ASSUME IInv, NEW k \in 1 .. Len(bus) PROVE outstanding_resp_q /\ bus[k].id = job.id
    BY DEF NoStrayWord
  <2>1. bus[k].id = job.id
    BY DEF IInv, Owed
  <2>2. Len(bus) # 0
    BY DEF IInv, Typed
  <2>3. outstanding_resp_q
    BY <2>2 DEF IInv, IdleShape, BusyShape
  <2> QED
    BY <2>1, <2>3
<1> QED
  BY <1>1, Invariance, PTL

\* The byte enables and the address of a misaligned access are those of the same
\* half.
THEOREM HalvesTogether == Spec => []HalvesAgree
<1>1. IInv => HalvesAgree
  BY DEF IInv, Typed, States, HalvesAgree, MisShape, CapShape, addr_incr_req
<1> QED
  BY <1>1, Invariance, PTL

-----------------------------------------------------------------------------
(* The unit implements the contract.                                       *)

\* A response is delivered only when one is outstanding.
LEMMA RespOutstanding ==
    ASSUME IInv, NEW in \in Inputs, InputPossible(in), lsu_resp_valid(in)
    PROVE  ls_fsm_cs = "IDLE" /\ outstanding_resp_q
<1>1. ls_fsm_cs = "IDLE" /\ (in.rvalid \/ pmp_err_q \/ cheri_err_q)
  BY DEF lsu_resp_valid
<1>2. in.rvalid => Len(bus) # 0
  BY DEF InputPossible, IInv, Typed
<1> QED
  BY <1>1, <1>2 DEF IInv, IdleShape

\* The response of a cycle, as the contract sees it.
LEMMA AnswerTo ==
    ASSUME NEW in \in Inputs, NEW o, HistoryUpdate(in, o)
    PROVE  answer'.to = IF lsu_resp_valid(in) THEN IF req_is_tbre_q THEN "tbre" ELSE "cpu"
                        ELSE "none"
  BY DEF HistoryUpdate, NoAnswer

\* In IDLE the unit takes a request as the contract says, or waits.
LEMMA IdleRefines ==
    ASSUME IInv, NEW in \in Inputs, Idle(in)
    PROVE  Contract!ContractNext
<1> DEFINE o      == IdleOut(in)
           resp   == lsu_resp_valid(in)
           tbre   == tbre_req_good(in)
           cpuReq == o.go
           done   == o.go /\ o.ns = "IDLE"
           owner  == IF req_is_tbre_q THEN "tbre" ELSE "cpu"
<1>1. ls_fsm_cs = "IDLE" /\ Typed /\ InputPossible(in) /\ UnitUpdate(in, o) /\ HistoryUpdate(in, o)
  BY DEF Idle, Clock, IInv
<1>2. /\ o.go \in BOOLEAN
      /\ o.go <=> (cpu_req_erred(in) \/ request_taken(in)) /\ ~resp_wait(in)
      /\ ~o.go => o.ns = "IDLE"
  BY <1>1, IdleOutputs DEF Output, request_taken
<1> HIDE DEF o
<1>3. resp => outstanding_resp_q
  BY <1>1, RespOutstanding
<1>4. ~resp_wait(in) /\ tbre => o.go /\ cur_req_is_tbre(in)
  BY <1>1, <1>2 DEF request_taken, cur_req_is_tbre
<1>5. ~resp_wait(in) /\ ~tbre => ~cur_req_is_tbre(in)
  BY <1>1 DEF cur_req_is_tbre
<1>6. resp_wait(in) <=> outstanding_resp_q /\ ~resp
  BY DEF resp_wait
<1>7. /\ ls_fsm_cs' = o.ns
      /\ outstanding_resp_q' <=> o.go \/ resp_wait(in)
      /\ o.go => (req_is_tbre_q' <=> cur_req_is_tbre(in))
      /\ ~o.go => req_is_tbre_q' = req_is_tbre_q
  BY <1>1 DEF UnitUpdate, NextOwner, resp_wait
<1>8. answer'.to = IF resp THEN owner ELSE "none"
  BY <1>1, AnswerTo
<1>9. portState = IF outstanding_resp_q THEN [st |-> "resp", who |-> owner]
                  ELSE [st |-> "free", who |-> "none"]
  BY <1>1 DEF portState
<1>10. CASE resp_wait(in)
  <2>1. ~o.go /\ o.ns = "IDLE" /\ outstanding_resp_q /\ ~resp
    BY <1>2, <1>6, <1>10
  <2>2. portState' = portState
    BY <1>1, <1>7, <1>10, <2>1 DEF portState
  <2>3. portState.st = "resp"
    BY <1>9, <2>1
  <2>4. Contract!Server(FALSE, FALSE, FALSE) = "none"
    BY <2>3 DEF Contract!Server
  <2>5. Contract!PortCycle(FALSE, FALSE, FALSE, FALSE)
    BY <2>2, <2>4 DEF Contract!PortCycle
  <2>6. answer'.to = "none"
    BY <1>8, <2>1
  <2> QED
    BY <2>5, <2>6 DEF Contract!ContractNext
<1>11. CASE ~resp_wait(in) /\ ~o.go
  <2>1. o.ns = "IDLE" /\ (outstanding_resp_q <=> resp)
    BY <1>2, <1>3, <1>6, <1>11
  <2>2. portState' = [st |-> "free", who |-> "none"]
    BY <1>7, <1>11, <2>1 DEF portState
  <2>3. CASE resp
    <3>1. portState.st = "resp" /\ portState.who = owner
      BY <1>9, <2>1, <2>3
    <3>2. Contract!Server(TRUE, FALSE, FALSE) = "none"
      BY <3>1 DEF Contract!Server
    <3>3. Contract!PortCycle(TRUE, FALSE, FALSE, FALSE)
      BY <2>2, <3>1, <3>2 DEF Contract!PortCycle, Contract!LsuFree
    <3>4. answer'.to = portState.who
      BY <1>8, <2>3, <3>1
    <3> QED
      BY <3>3, <3>4 DEF Contract!ContractNext
  <2>4. CASE ~resp
    <3>1. portState = [st |-> "free", who |-> "none"]
      BY <1>9, <2>1, <2>4
    <3>2. Contract!Server(FALSE, FALSE, FALSE) = "none"
      BY <3>1 DEF Contract!Server
    <3>3. Contract!PortCycle(FALSE, FALSE, FALSE, FALSE)
      BY <2>2, <3>1, <3>2 DEF Contract!PortCycle
    <3>4. answer'.to = "none"
      BY <1>8, <2>4
    <3> QED
      BY <3>3, <3>4 DEF Contract!ContractNext
  <2> QED
    BY <2>3, <2>4
<1>12. CASE ~resp_wait(in) /\ o.go
  <2> DEFINE w == IF tbre THEN "tbre" ELSE "cpu"
  <2>1. portState' = [st |-> IF done THEN "resp" ELSE "busy", who |-> w]
    BY <1>4, <1>5, <1>7, <1>12 DEF portState
  <2>2. portState.st # "busy" /\ (portState.st = "resp" <=> outstanding_resp_q)
        /\ (outstanding_resp_q => portState.who = owner)
    BY <1>9
  <2>3. outstanding_resp_q <=> resp
    BY <1>3, <1>6, <1>12
  <2>4. \E rv, tb, dn \in BOOLEAN : (rv <=> resp) /\ (tb <=> tbre) /\ (dn <=> done)
    OBVIOUS
  <2>5. PICK rv \in BOOLEAN, tb \in BOOLEAN, dn \in BOOLEAN : (rv <=> resp) /\ (tb <=> tbre) /\ (dn <=> done)
    BY <2>4
  <2>6. Contract!Server(rv, TRUE, tb) = w
    BY <2>2, <2>3, <2>5 DEF Contract!Server
  <2>7. portState' = [st |-> IF dn THEN "resp" ELSE "busy", who |-> w] /\ w # "none"
    BY <2>1, <2>5
  <2> HIDE DEF w
  <2>8. Contract!PortCycle(rv, TRUE, tb, dn)
    BY <2>2, <2>3, <2>5, <2>6, <2>7 DEF Contract!PortCycle
  <2>9. answer'.to = IF rv THEN portState.who ELSE "none"
    BY <1>8, <2>2, <2>3, <2>5
  <2> QED
    BY <2>8, <2>9 DEF Contract!ContractNext
<1> QED
  BY <1>10, <1>11, <1>12

\* In the other states it works on for the same master.
LEMMA BusyRefines ==
    ASSUME IInv, NEW in \in Inputs, NEW o, Same(o), ls_fsm_cs # "IDLE", Clock(in, o)
    PROVE  Contract!ContractNext
<1> DEFINE owner == IF req_is_tbre_q THEN "tbre" ELSE "cpu"
<1>1. ~o.go /\ UnitUpdate(in, o) /\ HistoryUpdate(in, o) /\ Progress(in, o)
  BY BusyFacts DEF Same, Clock
<1>2. req_is_tbre_q' = req_is_tbre_q /\ outstanding_resp_q' /\ ls_fsm_cs' = o.ns
  BY <1>1 DEF UnitUpdate, NextOwner, Progress
<1>3. answer'.to = "none"
  BY <1>1, AnswerTo DEF lsu_resp_valid
<1>4. portState = [st |-> "busy", who |-> owner] /\ owner # "none"
  BY DEF portState
<1>5. portState' = [st |-> IF o.ns = "IDLE" THEN "resp" ELSE "busy", who |-> owner]
  BY <1>2 DEF portState
<1> HIDE DEF owner
<1>6. Contract!Server(FALSE, FALSE, FALSE) = owner
  BY <1>4 DEF Contract!Server
<1>7. CASE o.ns = "IDLE"
  <2>1. Contract!PortCycle(FALSE, FALSE, FALSE, TRUE)
    BY <1>4, <1>5, <1>6, <1>7 DEF Contract!PortCycle
  <2> QED
    BY <1>3, <2>1 DEF Contract!ContractNext
<1>8. CASE o.ns # "IDLE"
  <2>1. Contract!PortCycle(FALSE, FALSE, FALSE, FALSE)
    BY <1>4, <1>5, <1>6, <1>8 DEF Contract!PortCycle
  <2> QED
    BY <1>3, <2>1 DEF Contract!ContractNext
<1> QED
  BY <1>7, <1>8

\* The unit serves one master at a time, as the contract that the engines'
\* systems are built on says, for every set of requests.
THEOREM Refinement == Spec => ImplementsContract
<1>1. Init => Contract!ContractInit
  BY DEF Init, portState, NoAnswer, Contract!ContractInit, Contract!PortInit, Contract!LsuFree
<1>2. IInv /\ [Next]_vars => [Contract!ContractNext]_<<portState, answer.to>>
  <2> SUFFICES ASSUME IInv, [Next]_vars PROVE [Contract!ContractNext]_<<portState, answer.to>>
    OBVIOUS
  <2>1. ASSUME NEW in \in Inputs, Cycle(in) PROVE Contract!ContractNext
    <3>1. Typed
      BY DEF IInv
    <3>2. CASE Idle(in)
      BY <3>2, IdleRefines
    <3>3. CASE ~Idle(in)
      <4>1. PICK o : Same(o) /\ ls_fsm_cs # "IDLE" /\ Clock(in, o)
        BY <2>1, <3>1, <3>3, BusyOutputs
           DEF Cycle, WaitGntMis, WaitRvalidMis, WaitGnt, WaitRvalidMisGntsDone, CtxWaitGnt1,
               CtxWaitGnt2, CtxWaitResp
      <4> QED
        BY <4>1, BusyRefines
    <3> QED
      BY <3>2, <3>3
  <2>2. CASE UNCHANGED vars
    BY <2>2 DEF vars, unitVars, portState
  <2> QED
    BY <2>1, <2>2 DEF Next
<1> QED
  BY <1>1, <1>2, Invariance, PTL DEF Spec, ImplementsContract, Contract!ContractSpec

-----------------------------------------------------------------------------
(* What is answered: what the registers hold of the access in progress,     *)
(* which of its halves failed, which word was kept, which address recorded. *)

\* The word of a half of the access in progress.
Word(h) == [id |-> job.id, half |-> h]

\* A CPU access has recorded the address of this half.
Recorded(h) == job.who = "cpu" => addr_last_q = Word(h)

\* Nothing of the access is back; at most the PMP has rejected its first half.
NothingBack ==
    /\ ~lsu_err_q
    /\ pmp_err_q => job.bad = {1}
    /\ ~pmp_err_q => job.bad = {}

\* The first half of a misaligned access is back.
FirstHalfBack ==
    /\ job.bad \subseteq {1, 2}
    /\ lsu_err_q <=> 1 \in job.bad
    /\ pmp_err_q <=> 2 \in job.bad
    /\ ~lsu_err_q /\ ~job.req.we => rdata_q = Word(1)

\* The first word of a capability is back.
FirstWordBack ==
    /\ ~lsu_err_q
    /\ job.bad \subseteq {1}
    /\ cap_lsw_err_q <=> 1 \in job.bad
    /\ ~job.req.we => cap_lsw_q = Word(1)

\* The registers that are set when an access is taken describe it.
Described ==
    outstanding_resp_q =>
        /\ job.req \in Requests
        /\ req_is_tbre_q => job.who = "tbre"
        /\ ~req_is_tbre_q => job.who = "cpu"
        /\ resp_is_cap_q <=> job.req.kind = "cap"
        /\ ls_fsm_cs # "IDLE" => served = job.req

\* The direction is recorded with the grant of the first half.
Ungranted == \/ ls_fsm_cs \in {"WAIT_GNT_MIS", "CTX_WAIT_GNT1"}
             \/ ls_fsm_cs = "WAIT_GNT" /\ ~handle_misaligned_q

Directed == outstanding_resp_q /\ ~Ungranted => (data_we_q <=> job.req.we)

\* In IDLE, the response that is still to come.
IdleJob ==
    ls_fsm_cs = "IDLE" /\ outstanding_resp_q =>
        /\ cheri_err_q => job.bad = {1} /\ Recorded(1)
        /\ ~cheri_err_q /\ job.req.kind = "data" =>
              NothingBack /\ Recorded(1) /\ (Len(bus) = 1 => bus[1].half = 1)
        /\ ~cheri_err_q /\ job.req.kind = "mis" =>
              /\ FirstHalfBack /\ (Len(bus) = 1 => bus[1].half = 2)
              /\ lsu_err_q => Recorded(1)
              /\ ~lsu_err_q => Recorded(2)
        /\ ~cheri_err_q /\ job.req.kind = "cap" =>
              FirstWordBack /\ Recorded(1) /\ ~pmp_err_q /\ bus[1].half = 2

MisJob ==
    /\ ls_fsm_cs = "WAIT_GNT_MIS" => job.req.kind = "mis" /\ NothingBack
    /\ ls_fsm_cs = "WAIT_RVALID_MIS" =>
          job.req.kind = "mis" /\ NothingBack /\ Recorded(1) /\ (Len(bus) = 1 => bus[1].half = 1)
    /\ ls_fsm_cs = "WAIT_RVALID_MIS_GNTS_DONE" =>
          job.req.kind = "mis" /\ NothingBack /\ Recorded(1) /\ bus[1].half = 1 /\ bus[2].half = 2
    /\ ls_fsm_cs = "WAIT_GNT" /\ handle_misaligned_q =>
          job.req.kind = "mis" /\ FirstHalfBack /\ (lsu_err_q => Recorded(1))
    /\ ls_fsm_cs = "WAIT_GNT" /\ ~handle_misaligned_q => job.req.kind = "data" /\ NothingBack

CapJob ==
    /\ ls_fsm_cs = "CTX_WAIT_GNT1" => NothingBack
    /\ ls_fsm_cs = "CTX_WAIT_GNT2" =>
          /\ Recorded(1)
          /\ cap_rx_fsm_q = "CRX_WAIT_RESP1" => NothingBack /\ bus[1].half = 1
          /\ cap_rx_fsm_q = "CRX_WAIT_RESP2" => FirstWordBack
    /\ ls_fsm_cs = "CTX_WAIT_RESP" =>
          NothingBack /\ Recorded(1) /\ bus[1].half = 1 /\ bus[2].half = 2

JobInv == Described /\ Directed /\ IdleJob /\ MisJob /\ CapJob

AnswerInv == AnswersTheRequest /\ FirstFailingAddress

-----------------------------------------------------------------------------
(* What every cycle does to the words.                                     *)

\* A word on the bus is known by its half.
LEMMA WordOnBus ==
    ASSUME Typed, Owed, NEW k \in 1 .. Len(bus)
    PROVE  bus[k] = Word(bus[k].half)
<1>1. bus[k] \in Tokens /\ bus[k].id = job.id
  BY DEF Typed, Owed
<1> QED
  BY <1>1 DEF Tokens, Word

\* The answered word leaves the bus at one end, the granted one joins it at the
\* other.
Shifted(in) ==
    /\ ~in.rvalid /\ Len(bus) > 0 => bus'[1] = bus[1]
    /\ ~in.rvalid /\ Len(bus) > 1 => bus'[2] = bus[2]
    /\ in.rvalid /\ Len(bus) > 1 => bus'[1] = bus[2]
    /\ in.gnt => bus'[Len(bus')].half = data_addr

\* Which words are on the bus after a cycle.
LEMMA BusWords ==
    ASSUME Typed, NEW in \in Inputs, NEW o, InputPossible(in), DataUpdate(in, o), o.go \in BOOLEAN
    PROVE  Shifted(in)
<1> DEFINE id   == IF o.go THEN 1 - job.id ELSE job.id
           tok  == [id |-> id, half |-> data_addr]
           left == IF in.rvalid THEN Tail(bus) ELSE bus
           new  == IF in.gnt THEN <<tok>> ELSE <<>>
<1>1. bus' = left \o new
  BY DEF DataUpdate
<1>2. tok \in Tokens
  BY DEF Typed, data_addr, Tokens
<1>3. tok.half = data_addr
  OBVIOUS
<1> HIDE DEF tok
<1>4. new \in Seq(Tokens) /\ (in.gnt => Len(new) = 1 /\ new[1] = tok) /\ (~in.gnt => Len(new) = 0)
  BY <1>2
<1>5. bus \in Seq(Tokens) /\ (in.rvalid => bus # <<>>)
  BY DEF Typed, InputPossible
<1>6. /\ left \in Seq(Tokens) /\ Len(left) \in Nat /\ Len(bus) \in Nat
      /\ ~in.rvalid => left = bus
      /\ in.rvalid => Len(left) = Len(bus) - 1 /\ (Len(bus) > 1 => left[1] = bus[2])
  BY <1>5
<1> HIDE DEF left, new
<1>7. Len(bus') = Len(left) + Len(new)
  BY <1>1, <1>4, <1>6, ConcatProperties
<1>8. \A k \in 1 .. Len(bus') : bus'[k] = (IF k <= Len(left) THEN left[k] ELSE new[k - Len(left)])
  BY <1>1, <1>4, <1>6
<1>9. in.gnt => bus'[Len(bus')] = tok
  <2>1. in.gnt => Len(bus') = Len(left) + 1
    BY <1>4, <1>7
  <2> QED
    BY <1>4, <1>6, <1>8, <2>1
<1>10. Len(new) \in Nat
  BY <1>4
<1>11. Len(left) > 0 => bus'[1] = left[1]
  BY <1>6, <1>7, <1>8, <1>10
<1>12. Len(left) > 1 => bus'[2] = left[2]
  BY <1>6, <1>7, <1>8, <1>10
<1>13. in.rvalid /\ Len(bus) > 1 => Len(left) > 0
  BY <1>6
<1> QED
  BY <1>3, <1>6, <1>9, <1>11, <1>12, <1>13 DEF Shifted

-----------------------------------------------------------------------------
(* The states of an access in progress.                                    *)

\* What a cycle outside IDLE does to the registers that describe the access.
Kept(in, o) ==
    /\ job'.who = job.who /\ job'.id = job.id /\ job'.req = job.req
    /\ job'.bad = job.bad \cup (IF in.err THEN {bus[1].half} ELSE {})
                          \cup (IF o.pmp THEN {data_addr} ELSE {})
    /\ lsu_err_q' <=> o.lsuErr
    /\ data_we_q' <=> IF o.ctrl THEN job.req.we ELSE data_we_q
    /\ job.who = "cpu" => addr_last_q' = IF o.addr THEN Word(data_addr) ELSE addr_last_q
    /\ rdata_q' = IF o.rdata /\ in.rvalid THEN bus[1] ELSE IF o.rdata THEN NoToken ELSE rdata_q
    /\ cap_lsw_q' = IF cap_rx_fsm_q = "CRX_WAIT_RESP1" /\ in.rvalid /\ ~data_we_q
                    THEN bus[1] ELSE cap_lsw_q
    /\ cap_lsw_err_q' <=> IF cap_rx_fsm_q = "CRX_WAIT_RESP1" /\ in.rvalid THEN in.err ELSE cap_lsw_err_q
    /\ in.err => in.rvalid
    /\ in.rvalid => bus[1] = Word(bus[1].half)
    /\ Shifted(in)
    /\ answer' = NoAnswer
    /\ Described'
    /\ \A h : Word(h)' = Word(h)

\* Every cycle outside IDLE is of this form.
LEMMA BusyKept ==
    ASSUME IInv, JobInv, NEW in \in Inputs, NEW o, Same(o), ls_fsm_cs # "IDLE", Clock(in, o)
    PROVE  Kept(in, o)
<1>1. Typed /\ Owed /\ o \in Output /\ ~o.go /\ o.go \in BOOLEAN /\ outstanding_resp_q
  BY DEF IInv, Same, BusyShape, Output
<1>2. InputPossible(in) /\ UnitUpdate(in, o) /\ DataUpdate(in, o) /\ HistoryUpdate(in, o)
  BY DEF Clock
<1>3. Progress(in, o)
  BY BusyFacts
<1>4. Described /\ lsu_req(in) = job.req
  BY <1>1, <1>3 DEF JobInv, Described, Progress
<1>5. /\ job'.who = job.who /\ job'.id = job.id /\ job'.req = job.req
      /\ job'.bad = job.bad \cup (IF in.err THEN {bus[1].half} ELSE {})
                            \cup (IF o.pmp THEN {data_addr} ELSE {})
  BY <1>1, <1>2 DEF HistoryUpdate, Typed
<1>6. answer' = NoAnswer
  BY <1>2 DEF HistoryUpdate, lsu_resp_valid
<1>7. /\ lsu_err_q' <=> o.lsuErr
      /\ data_we_q' <=> IF o.ctrl THEN job.req.we ELSE data_we_q
      /\ req_is_tbre_q' = req_is_tbre_q /\ resp_is_cap_q' = resp_is_cap_q
  BY <1>1, <1>2, <1>4 DEF UnitUpdate, NextOwner
<1>8. job.who = "cpu" => ~cur_req_is_tbre(in)
  BY <1>1, <1>4 DEF Described, cur_req_is_tbre
<1>9. /\ job.who = "cpu" => addr_last_q' = IF o.addr THEN Word(data_addr) ELSE addr_last_q
      /\ rdata_q' = IF o.rdata /\ in.rvalid THEN bus[1] ELSE IF o.rdata THEN NoToken ELSE rdata_q
      /\ cap_lsw_q' = IF cap_rx_fsm_q = "CRX_WAIT_RESP1" /\ in.rvalid /\ ~data_we_q
                      THEN bus[1] ELSE cap_lsw_q
      /\ cap_lsw_err_q' <=> IF cap_rx_fsm_q = "CRX_WAIT_RESP1" /\ in.rvalid THEN in.err
                            ELSE cap_lsw_err_q
  BY <1>1, <1>2, <1>8 DEF DataUpdate, Word
<1>10. in.err => in.rvalid
  BY <1>2 DEF InputPossible
<1>11. in.rvalid => bus[1] = Word(bus[1].half)
  <2>1. in.rvalid => 1 \in 1 .. Len(bus)
    BY <1>2, <1>1 DEF InputPossible, Typed
  <2> QED
    BY <1>1, <2>1, WordOnBus
<1>12. Shifted(in)
  BY <1>1, <1>2, BusWords
<1>13. Described'
  <2>1. ls_fsm_cs' # "IDLE" => served' = job'.req
    BY <1>1, <1>3, <1>4, <1>5 DEF Progress, Described
  <2> QED
    BY <1>1, <1>4, <1>5, <1>7, <2>1 DEF Described
<1>14. \A h : Word(h)' = Word(h)
  BY <1>5 DEF Word
<1> QED
  BY <1>5, <1>6, <1>7, <1>9, <1>10, <1>11, <1>12, <1>13, <1>14 DEF Kept

\* The first half of a misaligned access waits for its grant.
LEMMA WaitGntMisJob ==
    ASSUME IInv, JobInv, NEW in \in Inputs, WaitGntMis(in)
    PROVE  JobInv' /\ answer' = NoAnswer
<1> DEFINE o == WaitGntMisOut(in)
<1>1. ls_fsm_cs = "WAIT_GNT_MIS" /\ Clock(in, o) /\ Typed
  BY DEF WaitGntMis, IInv
<1>2. Same(o)
  BY <1>1, BusyOutputs
<1>3. Progress(in, o) /\ Kept(in, o)
  BY <1>1, <1>2, BusyFacts, BusyKept
<1>4. /\ in.gnt \/ pmp_err_q => o.ns = "WAIT_RVALID_MIS" /\ o.hm /\ o.addr /\ o.ctrl
      /\ ~(in.gnt \/ pmp_err_q) => o.ns = "WAIT_GNT_MIS" /\ ~o.hm
      /\ o.pmp = pmp_err_q /\ o.lsuErr = lsu_err_q
  BY <1>1 DEF WaitGntMisOut, Hold, IInv, MisShape
<1> HIDE DEF o
<1>5. Len(bus) = 0 /\ data_addr = 1 /\ job.req.kind = "mis" /\ NothingBack
  BY <1>1 DEF IInv, MisShape, data_addr, addr_incr_req, JobInv, MisJob
<1>6. ~in.rvalid /\ ~in.err
  BY <1>3, <1>5 DEF Progress, Moved, Kept, Shifted
<1>7. NothingBack'
  BY <1>3, <1>4, <1>5, <1>6 DEF Progress, Kept, NothingBack
<1>8. in.gnt => Len(bus') = 1 /\ bus'[1].half = 1
  BY <1>3, <1>5, <1>6 DEF Progress, Moved, Kept, Shifted
<1>9. ~in.gnt => Len(bus') = 0
  BY <1>3, <1>5, <1>6 DEF Progress, Moved
<1>10. in.gnt \/ pmp_err_q => Recorded(1)' /\ (data_we_q' <=> job'.req.we)
  BY <1>3, <1>4, <1>5 DEF Kept, Recorded
<1>11. MisJob'
  BY <1>3, <1>4, <1>5, <1>7, <1>8, <1>9, <1>10 DEF Progress, Kept, MisJob
<1>12. IdleJob' /\ CapJob'
  BY <1>3, <1>4 DEF Progress, IdleJob, CapJob
<1>13. Directed'
  BY <1>3, <1>4, <1>10 DEF Progress, Directed, Ungranted
<1> QED
  BY <1>3, <1>11, <1>12, <1>13 DEF JobInv, Kept

\* The first half is granted; its response and the grant of the second half may
\* come in either order or together.
LEMMA WaitRvalidMisJob ==
    ASSUME IInv, JobInv, NEW in \in Inputs, WaitRvalidMis(in)
    PROVE  JobInv' /\ answer' = NoAnswer
<1> DEFINE o == WaitRvalidMisOut(in)
<1>1. ls_fsm_cs = "WAIT_RVALID_MIS" /\ Clock(in, o) /\ Typed
  BY DEF WaitRvalidMis, IInv
<1>2. Same(o)
  BY <1>1, BusyOutputs
<1>3. Progress(in, o) /\ Kept(in, o)
  BY <1>1, <1>2, BusyFacts, BusyKept
<1>4. /\ in.rvalid \/ pmp_err_q =>
            /\ o.ns = (IF in.gnt THEN "IDLE" ELSE "WAIT_GNT")
            /\ o.pmp <=> data_pmp_err(in)
            /\ o.lsuErr <=> in.err \/ pmp_err_q
            /\ o.rdata <=> ~data_we_q
            /\ o.addr <=> in.gnt /\ ~(in.err \/ pmp_err_q)
            /\ o.hm <=> ~in.gnt
            /\ ~o.ctrl
      /\ ~(in.rvalid \/ pmp_err_q) =>
            /\ o.ns = (IF in.gnt THEN "WAIT_RVALID_MIS_GNTS_DONE" ELSE "WAIT_RVALID_MIS")
            /\ o.pmp = pmp_err_q /\ o.lsuErr = lsu_err_q /\ ~o.addr /\ ~o.ctrl /\ ~o.rdata
  BY <1>1 DEF WaitRvalidMisOut, Hold
<1> HIDE DEF o
<1>5. /\ Len(bus) = (IF pmp_err_q THEN 0 ELSE 1) /\ data_addr = 2 /\ job.req.kind = "mis"
      /\ NothingBack /\ Recorded(1) /\ (Len(bus) = 1 => bus[1].half = 1) /\ (data_we_q <=> job.req.we)
  BY <1>1 DEF IInv, MisShape, BusyShape, data_addr, addr_incr_req, JobInv, MisJob, Directed, Ungranted
<1>6. CASE in.rvalid \/ pmp_err_q
  <2>1. (in.rvalid => ~pmp_err_q /\ Len(bus) = 1 /\ bus[1].half = 1 /\ bus[1] = Word(1))
    BY <1>3, <1>5 DEF Progress, Moved, Kept, Shifted
  <2>2. /\ in.err => job'.bad = {1} \cup (IF o.pmp THEN {2} ELSE {})
        /\ pmp_err_q => job'.bad = {1} \cup (IF o.pmp THEN {2} ELSE {})
        /\ ~in.err /\ ~pmp_err_q => job'.bad = (IF o.pmp THEN {2} ELSE {})
    BY <1>3, <1>5, <2>1 DEF Kept, NothingBack
  <2>3. (lsu_err_q' <=> in.err \/ pmp_err_q) /\ (pmp_err_q' <=> o.pmp)
    BY <1>3, <1>4, <1>6 DEF Kept, Progress
  <2>4. ~lsu_err_q' /\ ~job'.req.we => rdata_q' = Word(1)'
    BY <1>3, <1>4, <1>5, <1>6, <2>1, <2>3 DEF Kept
  <2>5. FirstHalfBack'
    BY <2>2, <2>3, <2>4 DEF FirstHalfBack
  <2>6. (lsu_err_q' => Recorded(1)') /\ (in.gnt /\ ~lsu_err_q' => Recorded(2)')
    BY <1>3, <1>4, <1>5, <1>6, <2>3 DEF Kept, Recorded
  <2>7. in.gnt => Len(bus') = 1 /\ bus'[1].half = 2
    BY <1>3, <1>5, <1>6, <2>1 DEF Progress, Moved, Kept, Shifted
  <2>8. data_we_q' <=> job'.req.we
    BY <1>3, <1>4, <1>5, <1>6 DEF Kept
  <2>9. MisJob' /\ CapJob'
    BY <1>3, <1>4, <1>5, <1>6, <2>5, <2>6 DEF Progress, Kept, MisJob, CapJob
  <2>10. IdleJob'
    BY <1>3, <1>4, <1>5, <1>6, <2>5, <2>6, <2>7 DEF Progress, Kept, IdleJob
  <2>11. Directed'
    BY <2>8 DEF Directed
  <2> QED
    BY <1>3, <2>9, <2>10, <2>11 DEF JobInv, Kept
<1>7. CASE ~(in.rvalid \/ pmp_err_q)
  <2>1. Len(bus) = 1 /\ bus[1].half = 1 /\ ~in.err /\ ~pmp_err_q
    BY <1>3, <1>5, <1>7 DEF Kept
  <2>2. NothingBack' /\ Recorded(1)' /\ (data_we_q' <=> job'.req.we)
    BY <1>3, <1>4, <1>5, <1>7, <2>1 DEF Progress, Kept, NothingBack, Recorded
  <2>3. in.gnt => Len(bus') = 2 /\ bus'[1].half = 1 /\ bus'[2].half = 2
    <3>1. in.gnt => Len(bus') = Len(bus) + 1
      BY <1>3, <1>7 DEF Progress, Moved
    <3>2. in.gnt => Len(bus') = 2
      BY <2>1, <3>1
    <3>3. bus'[1] = bus[1] /\ (in.gnt => bus'[Len(bus')].half = data_addr)
      BY <1>3, <1>7, <2>1 DEF Kept, Shifted
    <3> QED
      BY <1>5, <2>1, <3>2, <3>3
  <2>4. ~in.gnt => bus'[1].half = 1
    BY <1>3, <1>7, <2>1 DEF Kept, Shifted
  <2>5. MisJob'
    BY <1>3, <1>4, <1>5, <1>7, <2>2, <2>3, <2>4 DEF Progress, Kept, MisJob
  <2>6. IdleJob' /\ CapJob'
    BY <1>3, <1>4, <1>7 DEF Progress, IdleJob, CapJob
  <2>7. Directed'
    BY <2>2 DEF Directed
  <2> QED
    BY <1>3, <2>5, <2>6, <2>7 DEF JobInv, Kept
<1> QED
  BY <1>6, <1>7

\* A single word, or the second half of a misaligned one, waits for its grant.
LEMMA WaitGntJob ==
    ASSUME IInv, JobInv, NEW in \in Inputs, WaitGnt(in)
    PROVE  JobInv' /\ answer' = NoAnswer
<1> DEFINE o == WaitGntOut(in)
<1>1. ls_fsm_cs = "WAIT_GNT" /\ Clock(in, o) /\ Typed
  BY DEF WaitGnt, IInv
<1>2. Same(o)
  BY <1>1, BusyOutputs
<1>3. Progress(in, o) /\ Kept(in, o)
  BY <1>1, <1>2, BusyFacts, BusyKept
<1>4. /\ in.gnt \/ pmp_err_q => o.ns = "IDLE" /\ ~o.hm /\ o.ctrl /\ (o.addr <=> ~lsu_err_q)
      /\ ~(in.gnt \/ pmp_err_q) => o.ns = "WAIT_GNT" /\ (o.hm <=> handle_misaligned_q) /\ ~o.ctrl /\ ~o.addr
      /\ (o.pmp <=> pmp_err_q) /\ (o.lsuErr <=> lsu_err_q) /\ ~o.rdata
  BY <1>1 DEF WaitGntOut, Hold
<1> HIDE DEF o
<1>5. Len(bus) = 0 /\ cap_rx_fsm_q = "CRX_IDLE"
  BY <1>1 DEF IInv, MisShape
<1>6. ~in.rvalid /\ ~in.err
  BY <1>3, <1>5 DEF Progress, Moved, Kept
<1>7. in.gnt => Len(bus') = 1 /\ bus'[1].half = data_addr
  BY <1>3, <1>5, <1>6 DEF Progress, Moved, Kept, Shifted
<1>8. ~in.gnt => Len(bus') = 0
  BY <1>3, <1>5, <1>6 DEF Progress, Moved
<1>9. CapJob'
  BY <1>3, <1>4 DEF Progress, CapJob
<1>10. CASE handle_misaligned_q
  <2>1. /\ data_addr = 2 /\ job.req.kind = "mis" /\ FirstHalfBack /\ (lsu_err_q => Recorded(1))
        /\ (data_we_q <=> job.req.we)
    BY <1>1, <1>10 DEF data_addr, addr_incr_req, JobInv, MisJob, Directed, Ungranted, IInv, BusyShape
  <2>2. FirstHalfBack'
    BY <1>3, <1>4, <1>6, <2>1 DEF Progress, Kept, FirstHalfBack
  <2>3. lsu_err_q' => Recorded(1)'
    BY <1>3, <1>4, <2>1 DEF Kept, Recorded
  <2>4. in.gnt \/ pmp_err_q => (~lsu_err_q' => Recorded(2)')
    BY <1>3, <1>4, <2>1 DEF Kept, Recorded
  <2>5. data_we_q' <=> job'.req.we
    BY <1>3, <1>4, <2>1 DEF Kept
  <2>6. MisJob'
    BY <1>3, <1>4, <1>10, <2>1, <2>2, <2>3 DEF Progress, Kept, MisJob
  <2>7. IdleJob'
    BY <1>3, <1>4, <1>7, <1>8, <2>1, <2>2, <2>3, <2>4 DEF Progress, Kept, IdleJob
  <2>8. Directed'
    BY <2>5 DEF Directed
  <2> QED
    BY <1>3, <1>9, <2>6, <2>7, <2>8 DEF JobInv, Kept
<1>11. CASE ~handle_misaligned_q
  <2>1. data_addr = 1 /\ job.req.kind = "data" /\ NothingBack
    BY <1>1, <1>11 DEF data_addr, addr_incr_req, JobInv, MisJob
  <2>2. NothingBack'
    BY <1>3, <1>4, <1>6, <2>1 DEF Progress, Kept, NothingBack
  <2>3. in.gnt \/ pmp_err_q => Recorded(1)' /\ (data_we_q' <=> job'.req.we)
    BY <1>3, <1>4, <2>1 DEF Kept, Recorded, NothingBack
  <2>4. MisJob'
    BY <1>3, <1>4, <1>11, <2>1, <2>2 DEF Progress, Kept, MisJob
  <2>5. IdleJob'
    BY <1>3, <1>4, <1>7, <1>8, <2>1, <2>2, <2>3 DEF Progress, Kept, IdleJob
  <2>6. Directed'
    BY <1>3, <1>4, <1>11, <2>3 DEF Directed, Ungranted, Progress
  <2> QED
    BY <1>3, <1>9, <2>4, <2>5, <2>6 DEF JobInv, Kept
<1> QED
  BY <1>10, <1>11

\* Both halves are granted and the first waits for its response.
LEMMA WaitRvalidMisGntsDoneJob ==
    ASSUME IInv, JobInv, NEW in \in Inputs, WaitRvalidMisGntsDone(in)
    PROVE  JobInv' /\ answer' = NoAnswer
<1> DEFINE o == WaitRvalidMisGntsDoneOut(in)
<1>1. ls_fsm_cs = "WAIT_RVALID_MIS_GNTS_DONE" /\ Clock(in, o) /\ Typed
  BY DEF WaitRvalidMisGntsDone, IInv
<1>2. Same(o)
  BY <1>1, BusyOutputs
<1>3. Progress(in, o) /\ Kept(in, o)
  BY <1>1, <1>2, BusyFacts, BusyKept
<1>4. /\ in.rvalid => /\ o.ns = "IDLE" /\ (o.pmp <=> data_pmp_err(in)) /\ (o.lsuErr <=> in.err)
                      /\ (o.addr <=> ~in.err) /\ (o.rdata <=> ~data_we_q)
      /\ ~in.rvalid => /\ o.ns = "WAIT_RVALID_MIS_GNTS_DONE" /\ (o.pmp <=> pmp_err_q)
                       /\ (o.lsuErr <=> lsu_err_q) /\ ~o.addr /\ ~o.rdata
      /\ ~o.ctrl
  BY <1>1 DEF WaitRvalidMisGntsDoneOut, Hold
<1> HIDE DEF o
<1>5. /\ Len(bus) = 2 /\ ~pmp_err_q /\ 2 \notin served.pmp /\ data_addr = 2 /\ job.req.kind = "mis"
      /\ NothingBack /\ Recorded(1) /\ bus[1].half = 1 /\ bus[2].half = 2 /\ (data_we_q <=> job.req.we)
  BY <1>1 DEF IInv, MisShape, BusyShape, data_addr, addr_incr_req, JobInv, MisJob, Directed, Ungranted
<1>6. ~data_pmp_err(in) /\ ~in.gnt
  BY <1>1, <1>3, <1>5 DEF Progress, data_req
<1>7. CASE in.rvalid
  <2>1. bus[1] = Word(1) /\ bus'[1] = bus[2]
    BY <1>3, <1>5, <1>7 DEF Kept, Shifted
  <2>2. (lsu_err_q' <=> in.err) /\ ~pmp_err_q' /\ (in.err => job'.bad = {1}) /\ (~in.err => job'.bad = {})
    BY <1>3, <1>4, <1>5, <1>6, <1>7 DEF Progress, Kept, NothingBack
  <2>3. ~job'.req.we => rdata_q' = Word(1)'
    BY <1>3, <1>4, <1>5, <1>7, <2>1 DEF Kept
  <2>4. FirstHalfBack'
    BY <2>2, <2>3 DEF FirstHalfBack
  <2>5. (lsu_err_q' => Recorded(1)') /\ (~lsu_err_q' => Recorded(2)')
    BY <1>3, <1>4, <1>5, <1>7, <2>2 DEF Kept, Recorded
  <2>6. IdleJob'
    BY <1>3, <1>4, <1>5, <1>7, <2>1, <2>4, <2>5 DEF Progress, Kept, IdleJob
  <2>7. MisJob' /\ CapJob'
    BY <1>3, <1>4, <1>7 DEF Progress, MisJob, CapJob
  <2>8. Directed'
    BY <1>3, <1>4, <1>5 DEF Kept, Directed
  <2> QED
    BY <1>3, <2>6, <2>7, <2>8 DEF JobInv, Kept
<1>8. CASE ~in.rvalid
  <2>1. ~in.err /\ bus'[1] = bus[1] /\ bus'[2] = bus[2]
    BY <1>3, <1>5, <1>8 DEF Kept, Shifted
  <2>2. NothingBack' /\ Recorded(1)' /\ (data_we_q' <=> job'.req.we)
    BY <1>3, <1>4, <1>5, <1>8, <2>1 DEF Progress, Kept, NothingBack, Recorded
  <2>3. MisJob'
    BY <1>3, <1>4, <1>5, <1>8, <2>1, <2>2 DEF Progress, Kept, MisJob
  <2>4. IdleJob' /\ CapJob'
    BY <1>3, <1>4, <1>8 DEF Progress, IdleJob, CapJob
  <2>5. Directed'
    BY <2>2 DEF Directed
  <2> QED
    BY <1>3, <2>3, <2>4, <2>5 DEF JobInv, Kept
<1> QED
  BY <1>7, <1>8

\* The first word of a capability waits for its grant.
LEMMA CtxWaitGnt1Job ==
    ASSUME IInv, JobInv, NEW in \in Inputs, CtxWaitGnt1(in)
    PROVE  JobInv' /\ answer' = NoAnswer
<1> DEFINE o == CtxWaitGnt1Out(in)
<1>1. ls_fsm_cs = "CTX_WAIT_GNT1" /\ Clock(in, o) /\ Typed
  BY DEF CtxWaitGnt1, IInv
<1>2. Same(o)
  BY <1>1, BusyOutputs
<1>3. Progress(in, o) /\ Kept(in, o)
  BY <1>1, <1>2, BusyFacts, BusyKept
<1>4. /\ in.gnt => o.ns = "CTX_WAIT_GNT2" /\ o.ctrl /\ o.addr
      /\ ~in.gnt => o.ns = "CTX_WAIT_GNT1" /\ ~o.ctrl /\ ~o.addr
      /\ (o.pmp <=> pmp_err_q) /\ (o.lsuErr <=> lsu_err_q)
  BY <1>1 DEF CtxWaitGnt1Out, Hold
<1> HIDE DEF o
<1>5. Len(bus) = 0 /\ cap_rx_fsm_q = "CRX_WAIT_RESP1" /\ data_addr = 1 /\ NothingBack
  BY <1>1 DEF IInv, CapShape, data_addr, addr_incr_req, JobInv, CapJob
<1>6. ~in.rvalid /\ ~in.err
  BY <1>3, <1>5 DEF Progress, Moved, Kept
<1>7. NothingBack'
  BY <1>3, <1>4, <1>5, <1>6 DEF Progress, Kept, NothingBack
<1>8. in.gnt => bus'[1].half = 1 /\ Recorded(1)' /\ (data_we_q' <=> job'.req.we)
  <2>1. in.gnt => Len(bus') = 1
    BY <1>3, <1>5, <1>6 DEF Progress, Moved
  <2> QED
    BY <1>3, <1>4, <1>5, <2>1 DEF Kept, Shifted, Recorded
<1>9. cap_rx_fsm_q' = "CRX_WAIT_RESP1"
  BY <1>3, <1>5, <1>6 DEF Progress, cap_rx_fsm_d
<1>10. CapJob'
  BY <1>3, <1>4, <1>7, <1>8, <1>9 DEF Progress, CapJob
<1>11. IdleJob' /\ MisJob'
  BY <1>3, <1>4 DEF Progress, IdleJob, MisJob
<1>12. Directed'
  BY <1>3, <1>4, <1>8 DEF Progress, Directed, Ungranted
<1> QED
  BY <1>3, <1>10, <1>11, <1>12 DEF JobInv, Kept

\* The first word's response, when the receiver waits for it.
LEMMA FirstWordArrives ==
    ASSUME NEW in \in Inputs, NEW o, Progress(in, o), Kept(in, o), in.rvalid, ~o.pmp,
           cap_rx_fsm_q = "CRX_WAIT_RESP1", NothingBack, ~pmp_err_q, bus[1].half = 1,
           o.lsuErr <=> lsu_err_q, data_we_q <=> job.req.we
    PROVE  FirstWordBack'
<1>1. bus[1] = Word(1)
  BY DEF Kept
<1>2. (in.err => job'.bad = {1}) /\ (~in.err => job'.bad = {})
  BY DEF Kept, NothingBack
<1>3. ~lsu_err_q' /\ (cap_lsw_err_q' <=> in.err)
  BY DEF Kept, NothingBack
<1>4. ~job'.req.we => cap_lsw_q' = Word(1)'
  BY <1>1 DEF Kept
<1> QED
  BY <1>2, <1>3, <1>4 DEF FirstWordBack

\* The second word waits for its grant.
LEMMA CtxWaitGnt2Job ==
    ASSUME IInv, JobInv, NEW in \in Inputs, CtxWaitGnt2(in)
    PROVE  JobInv' /\ answer' = NoAnswer
<1> DEFINE o == CtxWaitGnt2Out(in)
<1>1. ls_fsm_cs = "CTX_WAIT_GNT2" /\ Clock(in, o) /\ Typed
  BY DEF CtxWaitGnt2, IInv
<1>2. Same(o)
  BY <1>1, BusyOutputs
<1>3. Progress(in, o) /\ Kept(in, o)
  BY <1>1, <1>2, BusyFacts, BusyKept
<1>4. /\ in.gnt /\ (in.rvalid \/ cap_rx_fsm_q = "CRX_WAIT_RESP2") => o.ns = "IDLE"
      /\ in.gnt /\ ~(in.rvalid \/ cap_rx_fsm_q = "CRX_WAIT_RESP2") => o.ns = "CTX_WAIT_RESP"
      /\ ~in.gnt => o.ns = "CTX_WAIT_GNT2"
      /\ (o.pmp <=> pmp_err_q) /\ (o.lsuErr <=> lsu_err_q) /\ ~o.addr /\ ~o.ctrl
  BY <1>1 DEF CtxWaitGnt2Out, Hold
<1> HIDE DEF o
<1>5. ~pmp_err_q /\ job.req.kind = "cap" /\ data_addr = 2 /\ Recorded(1) /\ (data_we_q <=> job.req.we)
  BY <1>1 DEF IInv, BusyShape, CapShape, data_addr, addr_incr_req, JobInv, CapJob, Directed, Ungranted
<1>6. Recorded(1)' /\ (data_we_q' <=> job'.req.we) /\ ~pmp_err_q' /\ job'.req.kind = "cap" /\ ~o.pmp
  BY <1>3, <1>4, <1>5 DEF Progress, Kept, Recorded
<1>7. Directed'
  BY <1>6 DEF Directed
<1>8. MisJob'
  BY <1>3, <1>4 DEF Progress, MisJob
<1>9. CASE Len(bus) = 0 /\ cap_rx_fsm_q = "CRX_WAIT_RESP2"
  <2>1. ~in.rvalid /\ ~in.err /\ FirstWordBack
    BY <1>1, <1>3, <1>9 DEF Progress, Moved, Kept, JobInv, CapJob
  <2>2. cap_rx_fsm_q' = "CRX_WAIT_RESP2" /\ (in.gnt => Len(bus') = 1)
    BY <1>3, <1>9, <2>1 DEF Progress, Moved, cap_rx_fsm_d
  <2>3. FirstWordBack'
    BY <1>3, <1>4, <1>6, <1>9, <2>1 DEF Kept, FirstWordBack
  <2>4. in.gnt => bus'[1].half = 2
    BY <1>3, <1>5, <2>2 DEF Kept, Shifted
  <2>5. IdleJob' /\ CapJob'
    BY <1>3, <1>4, <1>6, <1>9, <2>2, <2>3, <2>4 DEF Progress, IdleJob, CapJob
  <2> QED
    BY <1>3, <1>7, <1>8, <2>5 DEF JobInv, Kept
<1>10. CASE Len(bus) = 1 /\ cap_rx_fsm_q = "CRX_WAIT_RESP1" /\ in.rvalid
  <2>1. NothingBack /\ bus[1].half = 1
    BY <1>1, <1>10 DEF JobInv, CapJob
  <2>2. FirstWordBack'
    BY <1>3, <1>4, <1>5, <1>6, <1>10, <2>1, FirstWordArrives
  <2>3. cap_rx_fsm_q' = "CRX_WAIT_RESP2" /\ (in.gnt => Len(bus') = 1)
    BY <1>3, <1>10 DEF Progress, Moved, cap_rx_fsm_d
  <2>4. in.gnt => bus'[1].half = 2
    BY <1>3, <1>5, <2>3 DEF Kept, Shifted
  <2>5. IdleJob' /\ CapJob'
    BY <1>3, <1>4, <1>6, <1>10, <2>2, <2>3, <2>4 DEF Progress, IdleJob, CapJob
  <2> QED
    BY <1>3, <1>7, <1>8, <2>5 DEF JobInv, Kept
<1>11. CASE Len(bus) = 1 /\ cap_rx_fsm_q = "CRX_WAIT_RESP1" /\ ~in.rvalid
  <2>1. NothingBack /\ bus[1].half = 1
    BY <1>1, <1>11 DEF JobInv, CapJob
  <2>2. NothingBack'
    BY <1>3, <1>4, <1>6, <1>11, <2>1 DEF Progress, Kept, NothingBack
  <2>3. cap_rx_fsm_q' = "CRX_WAIT_RESP1" /\ bus'[1].half = 1
    BY <1>3, <1>11, <2>1 DEF Progress, Kept, Shifted, cap_rx_fsm_d
  <2>4. in.gnt => bus'[2].half = 2
    <3>1. in.gnt => Len(bus') = Len(bus) + 1
      BY <1>3, <1>11 DEF Progress, Moved
    <3>2. in.gnt => Len(bus') = 2
      BY <1>11, <3>1
    <3> QED
      BY <1>3, <1>5, <3>2 DEF Kept, Shifted
  <2>5. IdleJob' /\ CapJob'
    BY <1>3, <1>4, <1>6, <1>11, <2>2, <2>3, <2>4 DEF Progress, IdleJob, CapJob
  <2> QED
    BY <1>3, <1>7, <1>8, <2>5 DEF JobInv, Kept
<1> QED
  BY <1>1, <1>9, <1>10, <1>11 DEF IInv, CapShape

\* Both words are granted and the first waits for its response.
LEMMA CtxWaitRespJob ==
    ASSUME IInv, JobInv, NEW in \in Inputs, CtxWaitResp(in)
    PROVE  JobInv' /\ answer' = NoAnswer
<1> DEFINE o == CtxWaitRespOut(in)
<1>1. ls_fsm_cs = "CTX_WAIT_RESP" /\ Clock(in, o) /\ Typed
  BY DEF CtxWaitResp, IInv
<1>2. Same(o)
  BY <1>1, BusyOutputs
<1>3. Progress(in, o) /\ Kept(in, o)
  BY <1>1, <1>2, BusyFacts, BusyKept
<1>4. /\ in.rvalid => o.ns = "IDLE"
      /\ ~in.rvalid => o.ns = "CTX_WAIT_RESP"
      /\ (o.pmp <=> pmp_err_q) /\ (o.lsuErr <=> lsu_err_q) /\ ~o.addr /\ ~o.ctrl
  BY <1>1 DEF CtxWaitRespOut, Hold
<1> HIDE DEF o
<1>5. /\ ~pmp_err_q /\ Len(bus) = 2 /\ cap_rx_fsm_q = "CRX_WAIT_RESP1" /\ job.req.kind = "cap"
      /\ NothingBack /\ Recorded(1) /\ bus[1].half = 1 /\ bus[2].half = 2 /\ (data_we_q <=> job.req.we)
  BY <1>1 DEF IInv, BusyShape, CapShape, JobInv, CapJob, Directed, Ungranted
<1>6. Recorded(1)' /\ (data_we_q' <=> job'.req.we) /\ ~pmp_err_q' /\ job'.req.kind = "cap" /\ ~o.pmp
  BY <1>3, <1>4, <1>5 DEF Progress, Kept, Recorded
<1>7. Directed'
  BY <1>6 DEF Directed
<1>8. MisJob'
  BY <1>3, <1>4 DEF Progress, MisJob
<1>9. CASE in.rvalid
  <2>1. FirstWordBack'
    BY <1>3, <1>4, <1>5, <1>6, <1>9, FirstWordArrives
  <2>2. bus'[1].half = 2
    BY <1>3, <1>5, <1>9 DEF Kept, Shifted
  <2>3. IdleJob' /\ CapJob'
    BY <1>3, <1>4, <1>6, <1>9, <2>1, <2>2 DEF Progress, IdleJob, CapJob
  <2> QED
    BY <1>3, <1>7, <1>8, <2>3 DEF JobInv, Kept
<1>10. CASE ~in.rvalid
  <2>1. NothingBack'
    BY <1>3, <1>4, <1>5, <1>6, <1>10 DEF Progress, Kept, NothingBack
  <2>2. bus'[1].half = 1 /\ bus'[2].half = 2
    BY <1>3, <1>5, <1>10 DEF Kept, Shifted
  <2>3. IdleJob' /\ CapJob'
    BY <1>3, <1>4, <1>6, <1>10, <2>1, <2>2 DEF Progress, IdleJob, CapJob
  <2> QED
    BY <1>3, <1>7, <1>8, <2>3 DEF JobInv, Kept
<1> QED
  BY <1>9, <1>10

-----------------------------------------------------------------------------
(* IDLE.                                                                   *)

\* In IDLE, the outputs that IdleOutputs leaves open.
LEMMA IdleUpdates ==
    ASSUME Typed, NEW in \in Inputs, ls_fsm_cs = "IDLE", NEW o, o = IdleOut(in)
    PROVE  LET erred == cpu_req_erred(in) /\ ~resp_wait(in)
               sent  == request_taken(in) /\ ~erred
           IN  /\ ~o.rdata
               /\ erred => ~o.lsuErr /\ o.addr /\ o.ctrl
               /\ sent => ~o.lsuErr /\ (o.addr <=> in.gnt) /\ (o.ctrl <=> in.gnt)
               /\ ~erred /\ ~sent => (o.lsuErr <=> lsu_err_q) /\ ~o.addr /\ ~o.ctrl
<1> DEFINE erred == cpu_req_erred(in) /\ ~resp_wait(in)
           taken == request_taken(in)
           kind  == lsu_req(in).kind
           rest  == [Hold EXCEPT !.pmp = FALSE, !.cheriErr = FALSE]
           out   == [rest EXCEPT !.pmp = data_pmp_err(in), !.lsuErr = FALSE, !.go = TRUE,
                                 !.addr = in.gnt, !.ctrl = in.gnt]
<1>1. rest \in Output /\ ~rest.rdata /\ ~rest.addr /\ ~rest.ctrl /\ rest.lsuErr = lsu_err_q
  BY HoldType DEF Hold, Output
<1> HIDE DEF rest
<1>2. out \in Output /\ ~out.rdata /\ out.addr = in.gnt /\ out.ctrl = in.gnt /\ ~out.lsuErr
  <2>1. in.gnt \in BOOLEAN /\ data_pmp_err(in) \in BOOLEAN
    BY RequestTypes DEF Inputs
  <2> QED
    BY <1>1, <2>1 DEF Output
<1> HIDE DEF out
<1>3. CASE erred
  <2>1. o = [rest EXCEPT !.cheriErr = TRUE, !.ctrl = TRUE, !.addr = TRUE, !.lsuErr = FALSE, !.go = TRUE]
    BY <1>3 DEF IdleOut, rest
  <2>2. ~o.rdata /\ ~o.lsuErr /\ o.addr /\ o.ctrl
    BY <1>1, <2>1 DEF Output
  <2> QED
    BY <1>3, <2>2
<1>4. CASE ~erred /\ ~taken
  <2>1. o = rest
    BY <1>4 DEF IdleOut, rest
  <2> QED
    BY <1>4, <1>1, <2>1
<1>5. CASE ~erred /\ taken
  <2>1. \E n, h, g : o = [out EXCEPT !.ns = n, !.hm = h, !.goodcap = g]
    <3>1. CASE kind = "cap"
      <4>1. o = [out EXCEPT !.goodcap = TRUE, !.ns = IF in.gnt THEN "CTX_WAIT_GNT2" ELSE "CTX_WAIT_GNT1"]
        BY <1>5, <3>1 DEF IdleOut, rest, out
      <4>2. o = [out EXCEPT !.ns = IF in.gnt THEN "CTX_WAIT_GNT2" ELSE "CTX_WAIT_GNT1",
                            !.hm = out.hm, !.goodcap = TRUE]
        BY <1>2, <4>1 DEF Output
      <4> QED
        BY <4>2
    <3>2. CASE kind = "mis"
      <4>1. o = [out EXCEPT !.hm = IF in.gnt THEN TRUE ELSE handle_misaligned_q,
                            !.ns = IF in.gnt THEN "WAIT_RVALID_MIS" ELSE "WAIT_GNT_MIS"]
        BY <1>5, <3>2 DEF IdleOut, rest, out
      <4>2. o = [out EXCEPT !.ns = IF in.gnt THEN "WAIT_RVALID_MIS" ELSE "WAIT_GNT_MIS",
                            !.hm = IF in.gnt THEN TRUE ELSE handle_misaligned_q,
                            !.goodcap = out.goodcap]
        BY <1>2, <4>1 DEF Output
      <4> QED
        BY <4>2
    <3>3. CASE kind \notin {"cap", "mis"}
      <4>1. o = [out EXCEPT !.hm = IF in.gnt THEN FALSE ELSE handle_misaligned_q,
                            !.ns = IF in.gnt THEN "IDLE" ELSE "WAIT_GNT"]
        BY <1>5, <3>3 DEF IdleOut, rest, out
      <4>2. o = [out EXCEPT !.ns = IF in.gnt THEN "IDLE" ELSE "WAIT_GNT",
                            !.hm = IF in.gnt THEN FALSE ELSE handle_misaligned_q,
                            !.goodcap = out.goodcap]
        BY <1>2, <4>1 DEF Output
      <4> QED
        BY <4>2
    <3> QED
      BY <3>1, <3>2, <3>3
  <2>2. ~o.rdata /\ ~o.lsuErr /\ o.addr = in.gnt /\ o.ctrl = in.gnt
    BY <1>2, <2>1 DEF Output
  <2> QED
    BY <1>5, <2>2
<1> QED
  BY <1>3, <1>4, <1>5

\* The response given in a cycle of IDLE is the right one.
LEMMA IdleAnswer ==
    ASSUME IInv, JobInv, NEW in \in Inputs, NEW o, ls_fsm_cs = "IDLE", InputPossible(in),
           HistoryUpdate(in, o)
    PROVE  AnswerInv'
<1>0. CASE ~lsu_resp_valid(in)
  <2>1. answer' = NoAnswer
    BY <1>0 DEF HistoryUpdate
  <2> QED
    BY <2>1 DEF AnswerInv, AnswersTheRequest, FirstFailingAddress
<1>1. CASE lsu_resp_valid(in)
  <2> DEFINE bad == job.bad \cup (IF in.err THEN {bus[1].half} ELSE {})
             a   == answer'
  <2>1. Typed /\ Owed /\ outstanding_resp_q /\ IdleShape /\ Described /\ Directed /\ IdleJob
    BY <1>1, RespOutstanding DEF IInv, JobInv
  <2>2. a = [to |-> IF req_is_tbre_q THEN "tbre" ELSE "cpu", isWr |-> data_we_q,
             err |-> data_or_pmp_err(in), addr |-> addr_last_q,
             first |-> IF resp_is_cap_q THEN cap_lsw_q ELSE rdata_q,
             last |-> IF in.rvalid THEN bus[1] ELSE NoToken,
             job |-> [job EXCEPT !.bad = bad]]
    BY <1>1 DEF HistoryUpdate
  <2>3. /\ a.to = (IF req_is_tbre_q THEN "tbre" ELSE "cpu") /\ a.isWr = data_we_q
        /\ a.err = data_or_pmp_err(in) /\ a.addr = addr_last_q
        /\ a.first = (IF resp_is_cap_q THEN cap_lsw_q ELSE rdata_q)
        /\ a.last = (IF in.rvalid THEN bus[1] ELSE NoToken)
        /\ a.job = [job EXCEPT !.bad = bad]
    BY <2>2
  <2> HIDE DEF a
  <2>4. a.job.who = job.who /\ a.job.id = job.id /\ a.job.req = job.req /\ a.job.bad = bad
    <3> HIDE DEF bad
    <3> QED
      BY <2>1, <2>3 DEF Typed
  <2>5. a.to = a.job.who
    BY <2>1, <2>3, <2>4 DEF Described
  <2>6. a.isWr = a.job.req.we
    <3>1. data_we_q \in BOOLEAN /\ job.req.we \in BOOLEAN
      BY <2>1 DEF Typed, Described, Requests
    <3>2. data_we_q <=> job.req.we
      BY <2>1 DEF Directed, Ungranted
    <3> QED
      BY <2>3, <2>4, <3>1, <3>2
  <2>7. (in.err => in.rvalid) /\ (in.rvalid => Len(bus) > 0)
    BY <2>1 DEF InputPossible, Typed
  <2>8. in.rvalid => Len(bus) = 1 /\ ~pmp_err_q /\ ~cheri_err_q /\ bus[1] = Word(bus[1].half)
    <3>1. in.rvalid => Len(bus) = 1 /\ ~pmp_err_q /\ ~cheri_err_q
      BY <2>1, <2>7 DEF IdleShape
    <3>2. in.rvalid => 1 \in 1 .. Len(bus)
      BY <3>1
    <3> QED
      BY <2>1, <3>1, <3>2, WordOnBus
  <2>9. in.rvalid \/ pmp_err_q \/ cheri_err_q
    BY <1>1 DEF lsu_resp_valid
  <2>10. resp_is_cap_q <=> job.req.kind = "cap"
    BY <2>1 DEF Described
  <2>11. data_or_pmp_err(in) <=> \/ lsu_err_q \/ in.err \/ pmp_err_q \/ cheri_err_q
                                 \/ resp_is_cap_q /\ cap_lsw_err_q
    BY DEF data_or_pmp_err
  <2>12. job.req.kind \in {"data", "mis", "cap"}
    BY <2>1 DEF Described, Requests
  <2> DEFINE Good == /\ data_or_pmp_err(in) <=> bad # {}
                     /\ ~data_or_pmp_err(in) /\ ~job.req.we =>
                           /\ in.rvalid
                           /\ bus[1] = Word(IF job.req.kind = "data" THEN 1 ELSE 2)
                           /\ job.req.kind = "mis" => rdata_q = Word(1)
                           /\ job.req.kind = "cap" => cap_lsw_q = Word(1)
                     /\ data_or_pmp_err(in) =>
                           Recorded(IF job.req.kind = "mis" /\ 1 \notin bad THEN 2 ELSE 1)
  <2>13. ASSUME cheri_err_q PROVE Good
    <3>1. job.bad = {1} /\ Recorded(1) /\ ~in.rvalid /\ ~in.err
      BY <2>1, <2>7, <2>8, <2>13 DEF IdleJob
    <3>2. bad = {1} /\ data_or_pmp_err(in)
      BY <2>11, <2>13, <3>1
    <3> QED
      BY <3>1, <3>2
  <2>14. ASSUME ~cheri_err_q, job.req.kind = "data" PROVE Good
    <3>1. NothingBack /\ Recorded(1) /\ (in.rvalid => bus[1].half = 1)
      BY <2>1, <2>8, <2>14 DEF IdleJob
    <3>2. /\ pmp_err_q => bad = {1} /\ ~in.rvalid
          /\ ~pmp_err_q => bad = (IF in.err THEN {1} ELSE {}) /\ in.rvalid
      BY <2>7, <2>8, <2>9, <2>14, <3>1 DEF NothingBack
    <3>3. data_or_pmp_err(in) <=> in.err \/ pmp_err_q
      BY <2>10, <2>11, <2>14, <3>1 DEF NothingBack
    <3> QED
      BY <2>8, <2>14, <3>1, <3>2, <3>3
  <2>15. ASSUME ~cheri_err_q, job.req.kind = "mis" PROVE Good
    <3>1. /\ FirstHalfBack /\ (in.rvalid => bus[1].half = 2)
          /\ (lsu_err_q => Recorded(1)) /\ (~lsu_err_q => Recorded(2))
      BY <2>1, <2>8, <2>15 DEF IdleJob
    <3>2. data_or_pmp_err(in) <=> lsu_err_q \/ in.err \/ pmp_err_q
      BY <2>10, <2>11, <2>15
    <3>3. (1 \in bad <=> lsu_err_q) /\ (2 \in bad <=> pmp_err_q \/ in.err) /\ bad \subseteq {1, 2}
      BY <2>7, <3>1 DEF FirstHalfBack
    <3>4. data_or_pmp_err(in) <=> bad # {}
      BY <3>2, <3>3
    <3> HIDE DEF bad
    <3> QED
      BY <2>8, <2>9, <2>15, <3>1, <3>2, <3>3, <3>4 DEF FirstHalfBack
  <2>16. ASSUME ~cheri_err_q, job.req.kind = "cap" PROVE Good
    <3>1. FirstWordBack /\ Recorded(1) /\ ~pmp_err_q /\ bus[1].half = 2
      BY <2>1, <2>16 DEF IdleJob
    <3>2. data_or_pmp_err(in) <=> in.err \/ cap_lsw_err_q
      BY <2>10, <2>11, <2>16, <3>1 DEF FirstWordBack
    <3>3. (1 \in bad <=> cap_lsw_err_q) /\ (2 \in bad <=> in.err) /\ bad \subseteq {1, 2}
      BY <2>7, <3>1 DEF FirstWordBack
    <3>4. data_or_pmp_err(in) <=> bad # {}
      BY <3>2, <3>3
    <3> HIDE DEF bad
    <3> QED
      BY <2>8, <2>9, <2>16, <3>1, <3>2, <3>3, <3>4 DEF FirstWordBack
  <2>17. Good
    BY <2>12, <2>13, <2>14, <2>15, <2>16
  <2> HIDE DEF Good
  <2>18. a.err = (a.job.bad # {})
    <3>1. data_or_pmp_err(in) = (bad # {})
      BY <2>17, Zenon DEF Good, data_or_pmp_err
    <3> QED
      BY <2>3, <2>4, <3>1
  <2>19. ASSUME ~a.err, ~a.isWr
         PROVE  /\ a.last = [id |-> a.job.id, half |-> IF a.job.req.kind = "data" THEN 1 ELSE 2]
                /\ a.job.req.kind # "data" => a.first = [id |-> a.job.id, half |-> 1]
    <3>1. ~data_or_pmp_err(in) /\ ~job.req.we
      BY <2>3, <2>4, <2>6, <2>19
    <3>2. /\ in.rvalid
          /\ bus[1] = Word(IF job.req.kind = "data" THEN 1 ELSE 2)
          /\ job.req.kind = "mis" => rdata_q = Word(1)
          /\ job.req.kind = "cap" => cap_lsw_q = Word(1)
      BY <2>17, <3>1 DEF Good
    <3> QED
      BY <2>3, <2>4, <2>10, <2>12, <3>2 DEF Word
  <2>20. AnswersTheRequest'
    BY <2>5, <2>6, <2>18, <2>19 DEF AnswersTheRequest, a
  <2>21. FirstFailingAddress'
    <3>1. ASSUME a.to = "cpu", a.err
          PROVE  /\ a.addr.id = a.job.id
                 /\ a.addr.half = IF a.job.req.kind = "mis" /\ 1 \notin a.job.bad THEN 2 ELSE 1
      <4>1. job.who = "cpu" /\ data_or_pmp_err(in)
        BY <2>3, <2>4, <2>5, <3>1
      <4>2. addr_last_q = Word(IF job.req.kind = "mis" /\ 1 \notin bad THEN 2 ELSE 1)
        BY <2>17, <4>1 DEF Good, Recorded
      <4> QED
        BY <2>3, <2>4, <4>2 DEF Word
    <3> QED
      BY <3>1 DEF FirstFailingAddress, a
  <2> QED
    BY <2>20, <2>21 DEF AnswerInv
<1> QED
  BY <1>0, <1>1

\* A cycle in IDLE takes an access and describes it, or leaves the one whose
\* response is outstanding as it is.
LEMMA IdleJobStep ==
    ASSUME IInv, JobInv, NEW in \in Inputs, Idle(in)
    PROVE  JobInv' /\ AnswerInv'
<1> DEFINE o     == IdleOut(in)
           erred == cpu_req_erred(in) /\ ~resp_wait(in)
           sent  == request_taken(in) /\ ~erred
           kind  == lsu_req(in).kind
<1>1. ls_fsm_cs = "IDLE" /\ Clock(in, o) /\ Typed /\ IInv'
  BY IdleStep DEF Idle, IInv
<1>2. InputPossible(in) /\ UnitUpdate(in, o) /\ DataUpdate(in, o) /\ HistoryUpdate(in, o)
      /\ MastersUpdate(in, o)
  BY <1>1 DEF Clock
<1>3. /\ o \in Output /\ o.go \in BOOLEAN
      /\ o.go <=> erred \/ sent
      /\ o.cheriErr <=> erred
      /\ o.pmp <=> sent /\ data_pmp_err(in)
      /\ ~sent => o.ns = "IDLE"
      /\ sent /\ kind = "cap" => o.ns = (IF in.gnt THEN "CTX_WAIT_GNT2" ELSE "CTX_WAIT_GNT1")
      /\ sent /\ kind = "mis" =>
            /\ o.ns = (IF in.gnt THEN "WAIT_RVALID_MIS" ELSE "WAIT_GNT_MIS")
      /\ sent /\ kind \notin {"cap", "mis"} =>
            /\ o.ns = (IF in.gnt THEN "IDLE" ELSE "WAIT_GNT")
            /\ o.hm <=> ~in.gnt /\ handle_misaligned_q
  BY <1>1, IdleOutputs DEF Output
<1>4. /\ ~o.rdata
      /\ erred => ~o.lsuErr /\ o.addr /\ o.ctrl
      /\ sent => ~o.lsuErr /\ (o.addr <=> in.gnt) /\ (o.ctrl <=> in.gnt)
      /\ ~erred /\ ~sent => (o.lsuErr <=> lsu_err_q) /\ ~o.addr /\ ~o.ctrl
  BY <1>1, IdleUpdates
<1> HIDE DEF o
<1>5. AnswerInv'
  BY <1>1, <1>2, IdleAnswer
<1>6. /\ ls_fsm_cs' = o.ns /\ (handle_misaligned_q' <=> o.hm) /\ (pmp_err_q' <=> o.pmp)
      /\ (lsu_err_q' <=> o.lsuErr) /\ (cheri_err_q' <=> o.cheriErr)
      /\ (outstanding_resp_q' <=> o.go \/ resp_wait(in))
  BY <1>2 DEF UnitUpdate, resp_wait
<1>7. in.gnt => sent /\ ~data_pmp_err(in)
  BY <1>1, <1>2 DEF InputPossible, data_req
<1>8. Shifted(in)
  BY <1>1, <1>2, <1>3, BusWords
<1>9. data_addr = 1 /\ ~handle_misaligned_q
  BY <1>1 DEF data_addr, addr_incr_req, IInv, IdleShape
\* An access is taken.
<1>10. CASE o.go
  <2>1. erred \/ sent
    BY <1>3, <1>10
  <2>2. lsu_req(in) # NoReq
    <3>1. CASE sent
      BY <1>1, <1>2, <3>1 DEF request_taken, lsu_req, cur_req_is_tbre, tbre_req_good, cpu_req_valid,
                              InputPossible
    <3>2. CASE erred
      BY <1>1, <1>2, <3>2 DEF cpu_req_erred, lsu_cheri_err, lsu_req, InputPossible
    <3> QED
      BY <2>1, <3>1, <3>2
  <2>3. lsu_req(in) \in Requests
    BY <1>1, <2>2, RequestTypes
  <2> HIDE DEF erred, sent
  <2>4. job' = [who |-> who(in), id |-> 1 - job.id, req |-> lsu_req(in),
                bad |-> (IF o.cheriErr THEN {1} ELSE {}) \cup (IF o.pmp THEN {data_addr} ELSE {})]
    BY <1>2, <1>10 DEF HistoryUpdate
  <2>5. /\ job'.who = (IF cur_req_is_tbre(in) THEN "tbre" ELSE "cpu") /\ job'.id = 1 - job.id
        /\ job'.req = lsu_req(in)
        /\ job'.bad = (IF o.cheriErr THEN {1} ELSE {}) \cup (IF o.pmp THEN {1} ELSE {})
    BY <1>9, <2>4 DEF who
  <2>6. (req_is_tbre_q' <=> cur_req_is_tbre(in)) /\ (resp_is_cap_q' <=> kind = "cap")
        /\ (o.ctrl => (data_we_q' <=> lsu_req(in).we))
    BY <1>2, <1>10 DEF UnitUpdate, NextOwner
  <2>7. o.addr => Recorded(1)'
    BY <1>2, <1>9, <1>10, <2>5 DEF DataUpdate, Recorded, Word
  <2>8. ls_fsm_cs' # "IDLE" => served' = lsu_req(in)
    BY <1>1, <1>2, <1>3, <1>6, <1>10, <2>2, ServedHeld
  <2>9. Described'
    BY <2>3, <2>5, <2>6, <2>8 DEF Described
  <2>10. CASE erred
    <3>1. ~sent
      BY <2>10 DEF sent
    <3>2. ls_fsm_cs' = "IDLE" /\ cheri_err_q' /\ job'.bad = {1} /\ Recorded(1)'
      BY <1>3, <1>4, <1>6, <2>5, <2>7, <2>10, <3>1
    <3>3. Directed'
      BY <1>4, <2>5, <2>6, <2>10 DEF Directed
    <3>4. IdleJob' /\ MisJob' /\ CapJob'
      BY <3>2 DEF IdleJob, MisJob, CapJob
    <3> QED
      BY <1>5, <2>9, <3>3, <3>4 DEF JobInv
  <2>11. CASE sent
    <3>1. ~cheri_err_q' /\ ~erred
      BY <1>3, <1>6, <2>11 DEF sent
    <3>2. NothingBack'
      BY <1>3, <1>4, <1>6, <2>5, <2>11, <3>1 DEF NothingBack
    <3>3. in.gnt => Len(bus') = 1 /\ bus'[1].half = 1 /\ Recorded(1)' /\ (data_we_q' <=> job'.req.we)
      <4>1. in.gnt => Len(bus') = 1
        <5>1. /\ ls_fsm_cs' = "IDLE" => outstanding_resp_q' /\ IdleShape'
              /\ ls_fsm_cs' # "IDLE" => MisShape' /\ CapShape'
          BY <1>1, <1>6, <1>10 DEF IInv
        <5>2. in.gnt => ~pmp_err_q'
          BY <1>3, <1>6, <1>7
        <5>3. CASE kind = "cap"
          <6>1. in.gnt => Moved(in) /\ Len(bus) = (IF in.rvalid THEN 1 ELSE 0)
            <7>1. ~resp_wait(in)
              BY <2>11 DEF sent, request_taken
            <7>2. Moved(in)
              BY <1>1, <1>2, <1>3, BusStep
            <7>3. Len(bus) \in Nat
              BY <1>1 DEF Typed
            <7> QED
              BY <1>1, <7>1, <7>2, <7>3 DEF IInv, IdleShape, resp_wait, lsu_resp_valid, Typed, Moved
          <6> QED
            BY <6>1 DEF Moved
        <5>4. CASE kind # "cap"
          BY <1>3, <1>6, <2>11, <3>1, <5>1, <5>2, <5>4 DEF IdleShape, MisShape
        <5> QED
          BY <5>3, <5>4
      <4> QED
        BY <1>4, <1>8, <1>9, <2>5, <2>6, <2>7, <2>11, <4>1 DEF Shifted
    <3>4. kind \in {"data", "mis", "cap"} /\ job'.req.kind = kind
      BY <2>3, <2>5 DEF Requests
    <3>5. ~in.gnt => Ungranted'
      BY <1>3, <1>6, <1>9, <2>11, <3>4 DEF Ungranted
    <3>6. Directed'
      BY <3>3, <3>5 DEF Directed
    <3>7. IdleJob'
      BY <1>3, <1>6, <2>11, <3>1, <3>2, <3>3, <3>4 DEF IdleJob
    <3>8. MisJob'
      BY <1>3, <1>6, <1>9, <2>11, <3>2, <3>3, <3>4 DEF MisJob
    <3>9. CapJob'
      <4>1. ls_fsm_cs' = "CTX_WAIT_GNT2" => cap_rx_fsm_q' = "CRX_WAIT_RESP1"
        BY <1>1, <3>3, <1>3, <1>6, <2>11, <3>4 DEF IInv, CapShape
      <4> QED
        BY <1>3, <1>6, <2>11, <3>2, <3>3, <3>4, <4>1 DEF CapJob
    <3> QED
      BY <1>5, <2>9, <3>6, <3>7, <3>8, <3>9 DEF JobInv
  <2> QED
    BY <2>1, <2>10, <2>11
\* No access is taken, and the response of the last one is outstanding.
<1>11. CASE ~o.go /\ resp_wait(in)
  <2>1. ~sent /\ ~erred /\ ls_fsm_cs' = "IDLE" /\ outstanding_resp_q
    BY <1>3, <1>6, <1>11 DEF resp_wait
  <2>2. ~in.rvalid /\ ~in.err /\ ~pmp_err_q /\ ~cheri_err_q /\ ~pmp_err_q' /\ ~cheri_err_q'
    BY <1>1, <1>2, <1>3, <1>6, <1>11, <2>1 DEF resp_wait, lsu_resp_valid, InputPossible
  <2>3. job' = [job EXCEPT !.bad = (job.bad \cup {}) \cup {}]
    BY <1>2, <1>3, <1>11, <2>1, <2>2 DEF HistoryUpdate
  <2>4. job' = job
    BY <1>1, <2>3 DEF Typed
  <2>5. /\ (lsu_err_q' <=> lsu_err_q) /\ req_is_tbre_q' = req_is_tbre_q
        /\ resp_is_cap_q' = resp_is_cap_q /\ data_we_q' = data_we_q
    BY <1>2, <1>4, <1>6, <1>11, <2>1 DEF UnitUpdate, NextOwner
  <2>6. /\ cap_lsw_q' = cap_lsw_q /\ cap_lsw_err_q' = cap_lsw_err_q /\ rdata_q' = rdata_q
        /\ addr_last_q' = addr_last_q
    BY <1>2, <1>4, <2>1, <2>2 DEF DataUpdate
  <2>7. bus' = bus
    <3>1. ~in.gnt
      BY <1>7, <2>1
    <3>2. bus' = bus \o <<>> /\ bus \in Seq(Tokens)
      BY <1>1, <1>2, <2>2, <3>1 DEF DataUpdate, Typed
    <3> QED
      BY <3>2
  <2>8. Described' /\ Directed'
    BY <1>1, <2>1, <2>4, <2>5 DEF JobInv, Described, Directed, Ungranted
  <2>9. IdleJob'
    BY <1>1, <2>1, <2>2, <2>4, <2>5, <2>6, <2>7
       DEF JobInv, IdleJob, NothingBack, FirstHalfBack, FirstWordBack, Recorded, Word
  <2>10. MisJob' /\ CapJob'
    BY <2>1 DEF MisJob, CapJob
  <2> QED
    BY <1>5, <2>8, <2>9, <2>10 DEF JobInv
\* The unit is free.
<1>12. CASE ~o.go /\ ~resp_wait(in)
  <2>1. ls_fsm_cs' = "IDLE" /\ ~outstanding_resp_q'
    BY <1>3, <1>6, <1>12
  <2> QED
    BY <1>5, <2>1 DEF JobInv, Described, Directed, IdleJob, MisJob, CapJob
<1> QED
  BY <1>10, <1>11, <1>12

-----------------------------------------------------------------------------
(* The theorems.                                                           *)

\* Every cycle preserves the invariant.
LEMMA NextJob == IInv /\ JobInv /\ AnswerInv /\ [Next]_vars => JobInv' /\ AnswerInv'
<1> SUFFICES ASSUME IInv, JobInv, AnswerInv, [Next]_vars PROVE JobInv' /\ AnswerInv'
  OBVIOUS
<1>1. answer' = NoAnswer => AnswerInv'
  BY DEF AnswerInv, AnswersTheRequest, FirstFailingAddress
<1>2. ASSUME NEW in \in Inputs, Cycle(in) PROVE JobInv' /\ AnswerInv'
  BY <1>1, <1>2, IdleJobStep, WaitGntMisJob, WaitRvalidMisJob, WaitGntJob, WaitRvalidMisGntsDoneJob,
     CtxWaitGnt1Job, CtxWaitGnt2Job, CtxWaitRespJob DEF Cycle
<1>3. CASE UNCHANGED vars
  <2>1. UNCHANGED unitVars /\ cpu' = cpu /\ eng' = eng /\ bus' = bus /\ job' = job /\ answer' = answer
    BY <1>3 DEF vars
  <2>2. AnswerInv'
    BY <2>1 DEF AnswerInv, AnswersTheRequest, FirstFailingAddress
  <2>3. Described' /\ Directed'
    BY <2>1 DEF unitVars, JobInv, Described, Directed, Ungranted, served
  <2>4. IdleJob' /\ MisJob' /\ CapJob'
    BY <2>1 DEF unitVars, JobInv, IdleJob, MisJob, CapJob, NothingBack, FirstHalfBack, FirstWordBack,
                Recorded, Word
  <2> QED
    BY <2>2, <2>3, <2>4 DEF JobInv
<1> QED
  BY <1>2, <1>3 DEF Next

\* The invariant holds in every reachable state.
LEMMA AnswerInvariance == Spec => []AnswerInv
<1>1. Init => JobInv /\ AnswerInv
  BY DEF Init, JobInv, Described, Directed, IdleJob, MisJob, CapJob, AnswerInv, AnswersTheRequest,
         FirstFailingAddress
<1> QED
  BY <1>1, NextJob, Invariance, PTL DEF Spec

\* Every response of the unit goes to the master that asked, reports an error
\* exactly if a word of the access, the PMP or cheri_ex failed it, and a good load
\* brings the words of that access in their places: whatever the masters ask
\* for, however long the bus takes, and whichever words it rejects.
THEOREM AnswersCorrect == Spec => []AnswersTheRequest
<1>1. AnswerInv => AnswersTheRequest
  BY DEF AnswerInv
<1> QED
  BY <1>1, AnswerInvariance, PTL

\* The address that a failing CPU access leaves for mtval is its own, and of a
\* misaligned one that of the first half that failed.
THEOREM FailingAddressCorrect == Spec => []FirstFailingAddress
<1>1. AnswerInv => FirstFailingAddress
  BY DEF AnswerInv
<1> QED
  BY <1>1, AnswerInvariance, PTL
=============================================================================
