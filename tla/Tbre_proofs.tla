----------------------------- MODULE Tbre_proofs -----------------------------
(***************************************************************************)
(* What the revocation engine does in a cycle, whatever system it is part  *)
(* of: its three FIFOs advance in step, provided that each load is         *)
(* answered once and looked up once.                                       *)
(***************************************************************************)
EXTENDS Tbre, TLAPS

\* W: the words of memory.
TbreTypes(W) ==
    /\ tbre_fsm \in {"TBRE_IDLE", "TBRE_LOAD", "TBRE_WAIT"}
    /\ tbre_sch \in {"SCH_NONE", "SCH_LOAD", "SCH_STORE"}
    /\ cur_load_addr8 \in 0 .. MaxAddr8
    /\ wait_resp_q \in BOOLEAN /\ tbre_err \in BOOLEAN
    /\ req_wr_ptr \in Ptrs /\ cap_wr_ptr \in Ptrs /\ shdw_wr_ptr \in Ptrs /\ rd_ptr \in Ptrs
    /\ req_fifo \in [Slots -> [addr8 : 0 .. MaxAddr8, valid : BOOLEAN]]
    /\ cap_fifo \in [Slots -> [word : W, tag : BOOLEAN, err : BOOLEAN]]
    /\ shdw_fifo \in [Slots -> BOOLEAN]

\* The pointers, with `answers' loads that await their response and `lookups'
\* words that await their verdict: how far the write pointers are ahead of the
\* read pointer.
Gap(w, r) == (w - r) % (2 * FifoSize)

InStep(req, cap, shdw, rd, answers, lookups) ==
    /\ Gap(req, rd) = Gap(cap, rd) + answers
    /\ Gap(cap, rd) = Gap(shdw, rd) + lookups
    /\ Gap(req, rd) <= FifoSize

\* A load is scheduled with room for its address, a store with something to store.
Scheduled ==
    /\ tbre_sch = "SCH_LOAD" => Gap(req_wr_ptr, rd_ptr) < FifoSize /\ tbre_fsm = "TBRE_LOAD"
    /\ tbre_sch = "SCH_STORE" => shdw_wr_ptr # rd_ptr

Pointers(answers, lookups) == InStep(req_wr_ptr, cap_wr_ptr, shdw_wr_ptr, rd_ptr, answers, lookups)

-----------------------------------------------------------------------------
(* Pointers.                                                               *)

\* Pointer arithmetic without the modulus.
LEMMA Modulus ==
    ASSUME NEW p \in Ptrs, NEW q \in Ptrs
    PROVE  /\ Gap(p, q) = IF p >= q THEN p - q ELSE p - q + 2 * FifoSize
           /\ Incr(p) = IF p = 2 * FifoSize - 1 THEN 0 ELSE p + 1
           /\ Slot(p) = IF p < FifoSize THEN p ELSE p - FifoSize
<1>1. FifoSize \in Nat \ {0} /\ p \in Int /\ q \in Int
  BY TbreAssumption DEF Ptrs
<1>2. Gap(p, q) = IF p >= q THEN p - q ELSE p - q + 2 * FifoSize
  BY <1>1, SMT DEF Gap, Ptrs
<1>3. Incr(p) = IF p = 2 * FifoSize - 1 THEN 0 ELSE p + 1
  BY <1>1, SMT DEF Incr, Ptrs
<1>4. Slot(p) = IF p < FifoSize THEN p ELSE p - FifoSize
  BY <1>1, SMT DEF Slot, Ptrs
<1> QED
  BY <1>2, <1>3, <1>4

\* The ranges, and when two pointers have the same slot.
LEMMA Ring ==
    ASSUME NEW p \in Ptrs, NEW q \in Ptrs
    PROVE  /\ Incr(p) \in Ptrs /\ Slot(p) \in Slots
           /\ Gap(p, q) \in 0 .. 2 * FifoSize - 1
           /\ Gap(p, q) = 0 <=> p = q
           /\ Gap(p, q) > 0 /\ Gap(p, q) < FifoSize => Slot(p) # Slot(q)
<1>1. FifoSize \in Nat \ {0} /\ p \in 0 .. 2 * FifoSize - 1 /\ q \in 0 .. 2 * FifoSize - 1
  BY TbreAssumption DEF Ptrs
<1>2. Incr(p) \in Ptrs
  BY <1>1, Modulus DEF Ptrs
<1>3. Slot(p) \in Slots
  BY <1>1, Modulus DEF Slots
<1>4. Gap(p, q) \in 0 .. 2 * FifoSize - 1 /\ (Gap(p, q) = 0 <=> p = q)
  BY <1>1, Modulus
<1>5. Gap(p, q) > 0 /\ Gap(p, q) < FifoSize => Slot(p) # Slot(q)
  BY <1>1, Modulus
<1> QED
  BY <1>2, <1>3, <1>4, <1>5

\* Different pointers are apart.
LEMMA Apart ==
    ASSUME NEW p \in Ptrs, NEW q \in Ptrs
    PROVE  Gap(p, q) \in Nat /\ (p # q => Gap(p, q) \in Nat \ {0})
<1>1. FifoSize \in Nat /\ Gap(p, q) \in 0 .. 2 * FifoSize - 1 /\ (Gap(p, q) = 0 <=> p = q)
  BY TbreAssumption, Ring
<1> QED
  BY <1>1

\* A pointer and the read pointer move by one or stay.
LEMMA GapMoves ==
    ASSUME NEW w \in Ptrs, NEW r \in Ptrs
    PROVE  /\ Gap(w, r) < 2 * FifoSize - 1 => Gap(Incr(w), r) = Gap(w, r) + 1
           /\ w # r => Gap(w, Incr(r)) = Gap(w, r) - 1
           /\ w # r => Gap(Incr(w), Incr(r)) = Gap(w, r)
<1>1. FifoSize \in Nat \ {0} /\ w \in 0 .. 2 * FifoSize - 1 /\ r \in 0 .. 2 * FifoSize - 1
  BY TbreAssumption DEF Ptrs
<1>2. Incr(w) \in Ptrs /\ Incr(r) \in Ptrs
  BY Ring
<1>3. Gap(w, r) < 2 * FifoSize - 1 => Gap(Incr(w), r) = Gap(w, r) + 1
  BY <1>1, <1>2, Modulus
<1>4. w # r => Gap(w, Incr(r)) = Gap(w, r) - 1
  BY <1>1, <1>2, Modulus
<1>5. w # r => Gap(Incr(w), Incr(r)) = Gap(w, r)
  BY <1>1, <1>2, Modulus
<1> QED
  BY <1>3, <1>4, <1>5

-----------------------------------------------------------------------------
(* A cycle.                                                                *)

Controls == [go : BOOLEAN, start8 : 0 .. MaxAddr8, end8 : 0 .. MaxAddr8]

\* The engine at reset.
LEMMA TbreStart == ASSUME NEW W, "data" \in W, TbreInit PROVE TbreTypes(W) /\ Pointers(0, 0) /\ Scheduled
<1>1. FifoSize \in Nat \ {0} /\ MaxAddr8 \in Nat /\ 0 \in Ptrs
  BY TbreAssumption DEF Ptrs
<1>2. TbreTypes(W)
  <2>1. req_fifo \in [Slots -> [addr8 : 0 .. MaxAddr8, valid : BOOLEAN]]
    BY <1>1 DEF TbreInit
  <2>2. cap_fifo \in [Slots -> [word : W, tag : BOOLEAN, err : BOOLEAN]]
    BY DEF TbreInit
  <2>3. shdw_fifo \in [Slots -> BOOLEAN] /\ cur_load_addr8 \in 0 .. MaxAddr8
    BY <1>1 DEF TbreInit
  <2> QED
    BY <1>1, <2>1, <2>2, <2>3 DEF TbreTypes, TbreInit
<1>3. Gap(0, 0) = 0
  BY <1>1, Ring
<1>4. Pointers(0, 0) /\ Scheduled
  BY <1>1, <1>3 DEF Pointers, InStep, Scheduled, TbreInit
<1> QED
  BY <1>2, <1>4

\* Pointers stay in their range.
LEMMA PointersStay ==
    ASSUME NEW W, TbreTypes(W), NEW ctrl, NEW reqDone, NEW resp, NEW respErr, NEW respIsWr,
           NEW rdata, NEW snoop, NEW trvkEn, NEW trvkClr,
           TbreCycle(ctrl, reqDone, resp, respErr, respIsWr, rdata, snoop, trvkEn, trvkClr)
    PROVE  req_wr_ptr' \in Ptrs /\ cap_wr_ptr' \in Ptrs /\ shdw_wr_ptr' \in Ptrs /\ rd_ptr' \in Ptrs
<1>1. req_wr_ptr \in Ptrs /\ cap_wr_ptr \in Ptrs /\ shdw_wr_ptr \in Ptrs /\ rd_ptr \in Ptrs
  BY DEF TbreTypes
<1>2. Incr(req_wr_ptr) \in Ptrs /\ Incr(cap_wr_ptr) \in Ptrs /\ Incr(shdw_wr_ptr) \in Ptrs /\ Incr(rd_ptr) \in Ptrs
  BY <1>1, Ring
<1> QED
  BY <1>1, <1>2 DEF TbreCycle, ReqFifoUpdate, CapFifoUpdate, ShdwFifoUpdate

\* Registers keep their types.
LEMMA TbreTypesStep ==
    ASSUME NEW W, TbreTypes(W), NEW ctrl \in Controls,
           NEW reqDone \in BOOLEAN, NEW resp \in BOOLEAN, NEW respErr \in BOOLEAN, NEW respIsWr \in BOOLEAN,
           NEW rdata \in [word : W, tag : BOOLEAN], NEW snoop,
           NEW trvkEn \in BOOLEAN, NEW trvkClr \in BOOLEAN,
           TbreCycle(ctrl, reqDone, resp, respErr, respIsWr, rdata, snoop, trvkEn, trvkClr)
    PROVE  TbreTypes(W)'
<1>1. FifoSize \in Nat \ {0} /\ MaxAddr8 \in Nat
  BY TbreAssumption
<1>2. /\ tbre_fsm' \in {"TBRE_IDLE", "TBRE_LOAD", "TBRE_WAIT"}
      /\ tbre_sch' \in {"SCH_NONE", "SCH_LOAD", "SCH_STORE"}
      /\ wait_resp_q' \in BOOLEAN /\ tbre_err' \in BOOLEAN
  BY DEF TbreTypes, TbreCycle, WalkUpdate, tbre_fsm_d, tbre_sch_d
<1>3. cur_load_addr8' \in 0 .. MaxAddr8
  <2>1. load_addr8_p1 \in 0 .. MaxAddr8
    BY <1>1, SMT DEF load_addr8_p1, TbreTypes
  <2> QED
    BY <2>1 DEF TbreTypes, TbreCycle, WalkUpdate, Controls
<1>4. req_wr_ptr' \in Ptrs /\ cap_wr_ptr' \in Ptrs /\ shdw_wr_ptr' \in Ptrs /\ rd_ptr' \in Ptrs
  BY PointersStay
<1>5. req_fifo' \in [Slots -> [addr8 : 0 .. MaxAddr8, valid : BOOLEAN]]
  <2>1. \A s \in Slots : [req_fifo[s] EXCEPT !.valid = FALSE] \in [addr8 : 0 .. MaxAddr8, valid : BOOLEAN]
    BY DEF TbreTypes
  <2>2. [addr8 |-> cur_load_addr8, valid |-> TRUE] \in [addr8 : 0 .. MaxAddr8, valid : BOOLEAN]
    BY DEF TbreTypes
  <2> QED
    BY <2>1, <2>2 DEF TbreTypes, TbreCycle, ReqFifoUpdate
<1>6. cap_fifo' \in [Slots -> [word : W, tag : BOOLEAN, err : BOOLEAN]]
  <2>1. [word |-> rdata.word, tag |-> rdata.tag, err |-> respErr] \in [word : W, tag : BOOLEAN, err : BOOLEAN]
    OBVIOUS
  <2> QED
    BY <2>1 DEF TbreTypes, TbreCycle, CapFifoUpdate
<1>7. shdw_fifo' \in [Slots -> BOOLEAN]
  BY DEF TbreTypes, TbreCycle, ShdwFifoUpdate
<1> QED
  BY <1>2, <1>3, <1>4, <1>5, <1>6, <1>7 DEF TbreTypes

\* The three FIFOs advance in step, and a load is scheduled only with room
\* for its address.
LEMMA QueuesAdvance ==
    ASSUME NEW W, TbreTypes(W), NEW a \in Nat, NEW v \in Nat, Pointers(a, v), Scheduled,
           NEW ctrl, NEW reqDone \in BOOLEAN, NEW resp \in BOOLEAN, NEW respErr, NEW respIsWr \in BOOLEAN,
           NEW rdata, NEW snoop, NEW trvkEn \in BOOLEAN, NEW trvkClr,
           TbreCycle(ctrl, reqDone, resp, respErr, respIsWr, rdata, snoop, trvkEn, trvkClr),
           resp /\ ~respIsWr => a > 0,
           trvkEn => v > 0
    PROVE  /\ InStep(req_wr_ptr', cap_wr_ptr', shdw_wr_ptr', rd_ptr',
                     a + (IF load_gnt(reqDone) THEN 1 ELSE 0) - (IF resp /\ ~respIsWr THEN 1 ELSE 0),
                     v + (IF resp /\ ~respIsWr THEN 1 ELSE 0) - (IF trvkEn THEN 1 ELSE 0))
           /\ Scheduled'
<1> DEFINE a2 == a + (IF load_gnt(reqDone) THEN 1 ELSE 0) - (IF resp /\ ~respIsWr THEN 1 ELSE 0)
           v2 == v + (IF resp /\ ~respIsWr THEN 1 ELSE 0) - (IF trvkEn THEN 1 ELSE 0)
<1>0. /\ a2 = a + (IF load_gnt(reqDone) THEN 1 ELSE 0) - (IF resp /\ ~respIsWr THEN 1 ELSE 0)
      /\ v2 = v + (IF resp /\ ~respIsWr THEN 1 ELSE 0) - (IF trvkEn THEN 1 ELSE 0)
  OBVIOUS
<1> HIDE DEF a2, v2
<1> DEFINE load == load_gnt(reqDone)
           answered == resp /\ ~respIsWr
           pop == fifo_rd_en(reqDone)
           R == Gap(req_wr_ptr, rd_ptr)
           C == Gap(cap_wr_ptr, rd_ptr)
           S == Gap(shdw_wr_ptr, rd_ptr)
<1>1. FifoSize \in Nat \ {0} /\ req_wr_ptr \in Ptrs /\ cap_wr_ptr \in Ptrs /\ shdw_wr_ptr \in Ptrs /\ rd_ptr \in Ptrs
  BY TbreAssumption DEF TbreTypes
<1>2. /\ R = C + a /\ C = S + v /\ R <= FifoSize
      /\ tbre_sch = "SCH_LOAD" => R < FifoSize /\ tbre_fsm = "TBRE_LOAD"
      /\ tbre_sch = "SCH_STORE" => shdw_wr_ptr # rd_ptr
  BY DEF Pointers, InStep, Scheduled
<1>3. /\ R \in 0 .. 2 * FifoSize - 1 /\ C \in 0 .. 2 * FifoSize - 1 /\ S \in 0 .. 2 * FifoSize - 1
      /\ (R = 0 <=> req_wr_ptr = rd_ptr) /\ (C = 0 <=> cap_wr_ptr = rd_ptr) /\ (S = 0 <=> shdw_wr_ptr = rd_ptr)
  BY <1>1, Ring
<1>4. /\ req_wr_ptr' = (IF load THEN Incr(req_wr_ptr) ELSE req_wr_ptr)
      /\ cap_wr_ptr' = (IF answered THEN Incr(cap_wr_ptr) ELSE cap_wr_ptr)
      /\ shdw_wr_ptr' = (IF trvkEn THEN Incr(shdw_wr_ptr) ELSE shdw_wr_ptr)
      /\ rd_ptr' = (IF pop THEN Incr(rd_ptr) ELSE rd_ptr)
  BY DEF TbreCycle, ReqFifoUpdate, CapFifoUpdate, ShdwFifoUpdate
<1>5. load => R < FifoSize
  BY <1>2 DEF load_gnt
<1>6. fifo_not_empty <=> S # 0
  BY <1>1, <1>2, <1>3 DEF fifo_not_empty
<1>7. pop => S # 0
  BY <1>6 DEF fifo_rd_en
<1> HIDE DEF load, answered, pop, R, C, S
<1>8. Gap(req_wr_ptr', rd_ptr') = R + (IF load THEN 1 ELSE 0) - (IF pop THEN 1 ELSE 0)
  <2>1. load => R < 2 * FifoSize - 1
    BY <1>1, <1>3, <1>5
  <2>2. pop => req_wr_ptr # rd_ptr
    BY <1>2, <1>3, <1>7
  <2> QED
    BY <1>1, <1>3, <1>4, <2>1, <2>2, GapMoves DEF R
<1>9. Gap(cap_wr_ptr', rd_ptr') = C + (IF answered THEN 1 ELSE 0) - (IF pop THEN 1 ELSE 0)
  <2>1. answered => C < 2 * FifoSize - 1
    BY <1>1, <1>2, <1>3 DEF answered
  <2>2. pop => cap_wr_ptr # rd_ptr
    BY <1>2, <1>3, <1>7
  <2> QED
    BY <1>1, <1>3, <1>4, <2>1, <2>2, GapMoves DEF C
<1>10. Gap(shdw_wr_ptr', rd_ptr') = S + (IF trvkEn THEN 1 ELSE 0) - (IF pop THEN 1 ELSE 0)
  <2>1. trvkEn => S < 2 * FifoSize - 1
    BY <1>1, <1>2, <1>3
  <2>2. pop => shdw_wr_ptr # rd_ptr
    BY <1>3, <1>7
  <2> QED
    BY <1>1, <1>3, <1>4, <2>1, <2>2, GapMoves DEF S
<1>11. /\ Gap(req_wr_ptr', rd_ptr') = Gap(cap_wr_ptr', rd_ptr') + a2
       /\ Gap(cap_wr_ptr', rd_ptr') = Gap(shdw_wr_ptr', rd_ptr') + v2
       /\ Gap(req_wr_ptr', rd_ptr') <= FifoSize
  BY <1>0, <1>1, <1>2, <1>3, <1>5, <1>8, <1>9, <1>10 DEF load, answered
<1>12. /\ tbre_fsm' = tbre_fsm_d(ctrl, reqDone)
       /\ tbre_sch' = tbre_sch_d(ctrl, reqDone)
  BY DEF TbreCycle, WalkUpdate
<1>13. os_req_cnt = R
  BY DEF os_req_cnt, Dist, R, Gap
<1>14. ASSUME tbre_sch' = "SCH_LOAD" PROVE Gap(req_wr_ptr', rd_ptr') < FifoSize /\ tbre_fsm' = "TBRE_LOAD"
  <2>1. CASE tbre_sch = "SCH_NONE"
    <3>1. tbre_fsm = "TBRE_LOAD" /\ ~(R >= FifoSize) /\ ~load
      BY <1>12, <1>13, <1>14, <2>1 DEF tbre_sch_d, req_fifo_full, load, load_gnt
    <3>2. tbre_fsm' = "TBRE_LOAD"
      BY <1>12, <3>1 DEF tbre_fsm_d, load
    <3> QED
      BY <1>1, <1>3, <1>8, <3>1, <3>2
  <2>2. CASE tbre_sch = "SCH_LOAD"
    <3>1. tbre_fsm = "TBRE_LOAD" /\ R < FifoSize
      BY <1>2, <2>2
    <3>2. ~(load /\ (R >= FifoSize - 1 \/ tbre_fsm' = "TBRE_WAIT"))
      BY <1>12, <1>13, <1>14, <2>2 DEF tbre_sch_d, load_stall, load
    <3>3. tbre_fsm' = "TBRE_LOAD"
      BY <1>12, <3>1, <3>2 DEF tbre_fsm_d, load
    <3> QED
      BY <1>1, <1>3, <1>8, <3>1, <3>2, <3>3
  <2>3. CASE tbre_sch = "SCH_STORE"
    <3>1. tbre_fsm = "TBRE_LOAD" /\ (store_gnt(reqDone) \/ ~store_req_valid)
      BY <1>12, <1>14, <2>3 DEF tbre_sch_d
    <3>2. pop /\ ~load
      BY <1>2, <1>3, <1>6, <2>3, <3>1 DEF pop, fifo_rd_en, load, load_gnt
    <3>3. tbre_fsm' = "TBRE_LOAD"
      BY <1>12, <3>1, <3>2 DEF tbre_fsm_d, load
    <3> QED
      BY <1>1, <1>2, <1>3, <1>8, <3>2, <3>3
  <2> QED
    BY <2>1, <2>2, <2>3 DEF TbreTypes
<1>15. ASSUME tbre_sch' = "SCH_STORE" PROVE shdw_wr_ptr' # rd_ptr'
  <2>1. store_req_valid /\ ~store_gnt(reqDone)
    BY <1>12, <1>15 DEF tbre_sch_d, store_gnt, TbreTypes
  <2>2. ~pop /\ S # 0
    BY <1>6, <2>1 DEF pop, fifo_rd_en, store_req_valid
  <2>3. Gap(shdw_wr_ptr', rd_ptr') # 0
    BY <1>3, <1>10, <2>2
  <2>4. shdw_wr_ptr' \in Ptrs /\ rd_ptr' \in Ptrs
    BY <1>1, <1>4, Ring
  <2> QED
    BY <2>3, <2>4, Ring
<1> QED
  BY <1>11, <1>14, <1>15 DEF InStep, Scheduled, a2, v2

\* The same with names for the counts after the cycle.
LEMMA QueuesStep ==
    ASSUME NEW W, TbreTypes(W), NEW a \in Nat, NEW v \in Nat, Pointers(a, v), Scheduled, NEW a2, NEW v2,
           NEW ctrl, NEW reqDone \in BOOLEAN, NEW resp \in BOOLEAN, NEW respErr, NEW respIsWr \in BOOLEAN,
           NEW rdata, NEW snoop, NEW trvkEn \in BOOLEAN, NEW trvkClr,
           TbreCycle(ctrl, reqDone, resp, respErr, respIsWr, rdata, snoop, trvkEn, trvkClr),
           resp /\ ~respIsWr => a > 0,
           trvkEn => v > 0,
           a2 = a + (IF load_gnt(reqDone) THEN 1 ELSE 0) - (IF resp /\ ~respIsWr THEN 1 ELSE 0),
           v2 = v + (IF resp /\ ~respIsWr THEN 1 ELSE 0) - (IF trvkEn THEN 1 ELSE 0)
    PROVE  InStep(req_wr_ptr', cap_wr_ptr', shdw_wr_ptr', rd_ptr', a2, v2) /\ Scheduled'
  BY QueuesAdvance

\* A request that is not done stays as it is, while no store of the CPU is
\* snooped: the entry at the head is not overwritten, whatever arrives in the
\* FIFOs.
LEMMA RequestKept ==
    ASSUME NEW W, TbreTypes(W), NEW a \in Nat, NEW v \in Nat, Pointers(a, v), Scheduled,
           NEW ctrl, NEW reqDone \in BOOLEAN, NEW resp \in BOOLEAN, NEW respErr, NEW respIsWr \in BOOLEAN,
           NEW rdata, NEW snoop, NEW trvkEn \in BOOLEAN, NEW trvkClr,
           TbreCycle(ctrl, reqDone, resp, respErr, respIsWr, rdata, snoop, trvkEn, trvkClr),
           ~reqDone, snoop = -1,
           resp /\ ~respIsWr => a > 0,
           trvkEn => v > 0
    PROVE  /\ tbre_sch = "SCH_LOAD" => tbre_sch' = "SCH_LOAD" /\ cur_load_addr8' = cur_load_addr8
           /\ tbre_sch = "SCH_STORE" /\ store_req_valid =>
                 /\ tbre_sch' = "SCH_STORE" /\ store_req_valid' /\ head' = head
                 /\ req_fifo'[head] = req_fifo[head] /\ cap_fifo'[head] = cap_fifo[head]
<1>1. FifoSize \in Nat \ {0} /\ req_wr_ptr \in Ptrs /\ cap_wr_ptr \in Ptrs /\ shdw_wr_ptr \in Ptrs /\ rd_ptr \in Ptrs
  BY TbreAssumption DEF TbreTypes
<1>2. ~load_gnt(reqDone) /\ ~store_gnt(reqDone)
  BY DEF load_gnt, store_gnt
<1>3. ASSUME tbre_sch = "SCH_LOAD"
      PROVE  tbre_sch' = "SCH_LOAD" /\ cur_load_addr8' = cur_load_addr8
  <2>1. tbre_fsm = "TBRE_LOAD"
    BY <1>3 DEF Scheduled
  <2> QED
    BY <1>2, <1>3, <2>1 DEF TbreCycle, WalkUpdate, tbre_sch_d
<1>4. ASSUME tbre_sch = "SCH_STORE", store_req_valid
      PROVE  /\ tbre_sch' = "SCH_STORE" /\ store_req_valid' /\ head' = head
             /\ req_fifo'[head] = req_fifo[head] /\ cap_fifo'[head] = cap_fifo[head]
  <2>1. tbre_sch' = "SCH_STORE"
    BY <1>2, <1>4 DEF TbreCycle, WalkUpdate, tbre_sch_d
  <2>2. rd_ptr' = rd_ptr /\ head' = head /\ head \in Slots
    BY <1>1, <1>2, <1>4, Ring DEF TbreCycle, fifo_rd_en, head
  <2> DEFINE a2 == a - (IF resp /\ ~respIsWr THEN 1 ELSE 0)
             v2 == v + (IF resp /\ ~respIsWr THEN 1 ELSE 0) - (IF trvkEn THEN 1 ELSE 0)
  <2>3. a2 \in Nat /\ v2 \in Nat
    OBVIOUS
  <2>4. /\ a2 = a + (IF load_gnt(reqDone) THEN 1 ELSE 0) - (IF resp /\ ~respIsWr THEN 1 ELSE 0)
        /\ v2 = v + (IF resp /\ ~respIsWr THEN 1 ELSE 0) - (IF trvkEn THEN 1 ELSE 0)
    BY <1>2
  <2> HIDE DEF a2, v2
  <2>5. InStep(req_wr_ptr', cap_wr_ptr', shdw_wr_ptr', rd_ptr', a2, v2) /\ Scheduled'
    BY <2>4, QueuesStep
  <2>6. fifo_not_empty'
    <3>1. req_wr_ptr' \in Ptrs /\ cap_wr_ptr' \in Ptrs /\ shdw_wr_ptr' \in Ptrs /\ rd_ptr' \in Ptrs
      BY PointersStay
    <3>2. shdw_wr_ptr' # rd_ptr'
      BY <2>1, <2>5 DEF Scheduled
    <3>3. /\ Gap(req_wr_ptr', rd_ptr') = Gap(cap_wr_ptr', rd_ptr') + a2
          /\ Gap(cap_wr_ptr', rd_ptr') = Gap(shdw_wr_ptr', rd_ptr') + v2
      BY <2>5 DEF InStep
    <3>4. Gap(shdw_wr_ptr', rd_ptr') \in Nat \ {0} /\ Gap(cap_wr_ptr', rd_ptr') \in Nat
      BY <3>1, <3>2, Apart
    <3>5. Gap(cap_wr_ptr', rd_ptr') # 0 /\ Gap(req_wr_ptr', rd_ptr') # 0
      BY <2>3, <3>3, <3>4
    <3> QED
      BY <3>1, <3>2, <3>5, Ring DEF fifo_not_empty
  <2>7. req_fifo'[head] = req_fifo[head]
    <3>1. req_fifo[head].addr8 # -1
      BY <2>2, TbreAssumption DEF TbreTypes
    <3> QED
      BY <1>2, <2>2, <3>1 DEF TbreCycle, ReqFifoUpdate
  <2>8. /\ Gap(cap_wr_ptr, rd_ptr) = Gap(shdw_wr_ptr, rd_ptr) + v
        /\ Gap(req_wr_ptr, rd_ptr) = Gap(cap_wr_ptr, rd_ptr) + a
        /\ Gap(req_wr_ptr, rd_ptr) <= FifoSize
        /\ Gap(shdw_wr_ptr, rd_ptr) \in Nat \ {0} /\ Gap(cap_wr_ptr, rd_ptr) \in Nat
    <3>1. shdw_wr_ptr # rd_ptr
      BY <1>4 DEF Scheduled
    <3>2. Gap(shdw_wr_ptr, rd_ptr) \in Nat \ {0} /\ Gap(cap_wr_ptr, rd_ptr) \in Nat
      BY <1>1, <3>1, Apart
    <3> QED
      BY <3>2 DEF Pointers, InStep
  <2>9. cap_fifo'[head] = cap_fifo[head]
    <3>1. CASE resp /\ ~respIsWr
      <4>1. Gap(cap_wr_ptr, rd_ptr) > 0 /\ Gap(cap_wr_ptr, rd_ptr) < FifoSize
        BY <1>1, <2>8, <3>1
      <4>2. Slot(cap_wr_ptr) # head
        BY <1>1, <4>1, Ring DEF head
      <4> QED
        BY <2>2, <3>1, <4>2 DEF TbreCycle, CapFifoUpdate, TbreTypes
    <3>2. CASE ~(resp /\ ~respIsWr)
      BY <3>2 DEF TbreCycle, CapFifoUpdate
    <3> QED
      BY <3>1, <3>2
  <2>10. shdw_fifo'[head] = shdw_fifo[head]
    <3>1. CASE trvkEn
      <4>1. Gap(shdw_wr_ptr, rd_ptr) > 0 /\ Gap(shdw_wr_ptr, rd_ptr) < FifoSize
        BY <1>1, <2>8, <3>1
      <4>2. Slot(shdw_wr_ptr) # head
        BY <1>1, <4>1, Ring DEF head
      <4> QED
        BY <2>2, <3>1, <4>2 DEF TbreCycle, ShdwFifoUpdate, TbreTypes
    <3>2. CASE ~trvkEn
      BY <3>2 DEF TbreCycle, ShdwFifoUpdate
    <3> QED
      BY <3>1, <3>2
  <2>11. store_req_valid'
    BY <1>4, <2>2, <2>6, <2>7, <2>9, <2>10 DEF store_req_valid
  <2> QED
    BY <2>1, <2>2, <2>7, <2>9, <2>11
<1> QED
  BY <1>3, <1>4
=============================================================================
