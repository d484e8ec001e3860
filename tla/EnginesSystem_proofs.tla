------------------------- MODULE EnginesSystem_proofs -------------------------
(***************************************************************************)
(* Proofs about both engines behind the arbiter, for every size of the     *)
(* FIFOs, every memory and region, whatever the CPU does.                  *)
(*                                                                         *)
(* The arbiter's register says who is served as long as the load-store     *)
(* unit is busy with an engine; the engine it names has its request up     *)
(* and unchanged; and every load of the revocation engine is either        *)
(* awaited, being looked up or in the FIFOs.                               *)
(***************************************************************************)
EXTENDS EnginesSystem, Tbre_proofs

LowWords == CapIds \cup {"data", "zero"}
Loads == {"none", "rd", "tbre"}

EngineTypes ==
    /\ TbreTypes(LowWords) /\ PortTypeOK /\ WrapperTypeOK
    /\ stkz_fsm \in {"STKZ_IDLE", "STKZ_ACTIVE", "STKZ_ABORT"}
    /\ reserved \in {"none", "rd"} /\ stage0.op \in Loads
    /\ stage1 \in [op : Loads, clr : BOOLEAN] /\ stage2 \in [op : Loads, clr : BOOLEAN]
    /\ mem \in [Granules -> Cells]
    /\ id \in Instrs
    /\ done_req \in [we : BOOLEAN, cell : Cells, err : BOOLEAN]

\* The revocation engine has its request up.
TbreAsks == tbre_sch = "SCH_LOAD" \/ (tbre_sch = "SCH_STORE" /\ store_req_valid)

\* A decision is held exactly while the unit is busy for an engine, and it is
\* for the engine whose request was taken; the CPU waits for its own.
Held ==
    /\ req_pending_q <=> lsu.st = "busy" /\ lsu.who = "tbre"
    /\ req_pending_q => /\ mstr_arbit_q = taken.who
                        /\ \/ taken.who = "tbre" /\ TbreAsks
                           \/ taken.who = "stkz" /\ stkz_active
    /\ lsu.st = "busy" /\ lsu.who = "cpu" => cpu_lsu_dec

\* Who gets the response; the zeroiser makes stores only.
Owned ==
    lsu.st = "resp" /\ lsu.who = "tbre" =>
        /\ resp_sel_q <=> taken.who = "tbre"
        /\ ~resp_sel_q => done_req.we

One(b) == IF b THEN 1 ELSE 0
Answers == One(lsu.st = "resp" /\ lsu.who = "tbre" /\ resp_sel_q /\ ~done_req.we)
Lookups == One(stage0.op = "tbre") + One(stage1.op = "tbre") + One(stage2.op = "tbre")

EngineInv == EngineTypes /\ Held /\ Owned /\ Pointers(Answers, Lookups) /\ Scheduled

\* The request that waits is the one the unit took, and software does not
\* start a run of the zeroiser during one.
Kept ==
    /\ req_pending_q /\ taken.who = "stkz" => taken = [who |-> "stkz", we |-> TRUE, addr |-> stkz_ptrw_nxt]
    /\ req_pending_q /\ taken.who = "tbre" =>
          taken = [who |-> "tbre", we |-> tbre_sch = "SCH_STORE",
                   addr |-> 2 * (IF tbre_sch = "SCH_LOAD" THEN cur_load_addr8 ELSE req_fifo[head].addr8)]
    /\ id.op = "ztop" /\ stkz_start(id.w) => ~stkz_active

-----------------------------------------------------------------------------
(* One cycle, by its signals.                                              *)

engResp(resp)  == resp /\ lsu.who = "tbre"
tbreResp(resp) == engResp(resp) /\ resp_sel_q
blk1(resp)     == tbre_lsu_req(tbreResp(resp), FALSE)
engGood(resp)  == (stkz_lsu_req \/ blk1(resp)) /\ ~cpu_lsu_dec
who(resp)      == Server(resp, cpu_lsu_dec, engGood(resp))
engDone(resp, done) == done /\ who(resp) = "tbre"
cpuDone(resp, done) == done /\ who(resp) = "cpu"
request(resp)  == Presented(blk1(resp))
tbreDone(resp, done) == engDone(resp, done) /\ request(resp).who = "tbre"

\* The signals are Boolean.
LEMMA Signals ==
    ASSUME EngineTypes, NEW resp \in BOOLEAN, NEW done \in BOOLEAN
    PROVE  /\ engResp(resp) \in BOOLEAN /\ tbreResp(resp) \in BOOLEAN /\ blk1(resp) \in BOOLEAN
           /\ engGood(resp) \in BOOLEAN /\ engDone(resp, done) \in BOOLEAN /\ cpuDone(resp, done) \in BOOLEAN
           /\ tbreDone(resp, done) \in BOOLEAN
  BY DEF engResp, tbreResp, blk1, engGood, engDone, cpuDone, tbreDone, tbre_lsu_req

\* Who is served.
LEMMA Served ==
    ASSUME EngineTypes, NEW resp \in BOOLEAN, NEW done \in BOOLEAN,
           PortCycle(resp, cpu_lsu_dec, engGood(resp), done)
    PROVE  /\ who(resp) \in {"none", "cpu", "tbre"}
           /\ resp => lsu.st = "resp"
           /\ done => who(resp) # "none"
           /\ lsu.st = "busy" => who(resp) = lsu.who /\ who(resp) # "none"
           /\ lsu.st # "busy" /\ who(resp) = "tbre" => engGood(resp)
           /\ lsu.st # "busy" /\ who(resp) = "cpu" => cpu_lsu_dec
           /\ lsu.st = "resp" /\ ~resp => who(resp) = "none"
           /\ lsu.st \in {"free", "busy", "resp"}
           /\ lsu.st = "free" => lsu.who = "none"
           /\ lsu.st # "free" => lsu.who \in {"cpu", "tbre"}
           /\ who(resp) # "none" => lsu' = [st |-> IF done THEN "resp" ELSE "busy", who |-> who(resp)]
           /\ who(resp) = "none" /\ resp => lsu' = LsuFree
           /\ who(resp) = "none" /\ ~resp => lsu' = lsu
<1>1. /\ lsu.st \in {"free", "busy", "resp"}
      /\ lsu.st = "free" => lsu.who = "none"
      /\ lsu.st # "free" => lsu.who \in {"cpu", "tbre"}
  BY DEF EngineTypes, PortTypeOK, LsuStates, Masters
<1>2. /\ resp => lsu.st = "resp"
      /\ done => who(resp) # "none"
      /\ lsu' = (IF who(resp) # "none" THEN [st |-> IF done THEN "resp" ELSE "busy", who |-> who(resp)]
                 ELSE IF resp THEN LsuFree ELSE lsu)
  BY DEF PortCycle, who
<1>3. /\ lsu.st = "busy" => who(resp) = lsu.who
      /\ lsu.st # "busy" /\ who(resp) = "tbre" => engGood(resp)
      /\ lsu.st # "busy" /\ who(resp) = "cpu" => cpu_lsu_dec
      /\ lsu.st = "resp" /\ ~resp => who(resp) = "none"
      /\ who(resp) \in {"none", "cpu", "tbre"}
  BY <1>1 DEF who, Server
<1> QED
  BY <1>1, <1>2, <1>3

\* The engine served, and its request.
LEMMA Request ==
    ASSUME NEW resp
    PROVE  /\ request(resp).who = mstr_arbit_comb(stkz_lsu_req, blk1(resp))
           /\ request(resp).who = "tbre" =>
                 request(resp) = [who |-> "tbre", we |-> tbre_sch = "SCH_STORE",
                                  addr |-> 2 * (IF tbre_sch = "SCH_LOAD" THEN cur_load_addr8 ELSE req_fifo[head].addr8)]
           /\ request(resp).who # "tbre" =>
                 request(resp) = [who |-> request(resp).who, we |-> TRUE, addr |-> stkz_ptrw_nxt]
<1> DEFINE w == mstr_arbit_comb(stkz_lsu_req, blk1(resp))
<1>1. request(resp) = IF w = "tbre"
        THEN [who |-> w, we |-> tbre_sch = "SCH_STORE",
              addr |-> 2 * (IF tbre_sch = "SCH_LOAD" THEN cur_load_addr8 ELSE req_fifo[head].addr8)]
        ELSE [who |-> w, we |-> TRUE, addr |-> stkz_ptrw_nxt]
  BY DEF request, Presented
<1> HIDE DEF w
<1>2. request(resp).who = w
  BY <1>1
<1> QED
  BY <1>1, <1>2 DEF w

\* The engine that is served has asked for it, and is the one whose request
\* was taken.
LEMMA Asked ==
    ASSUME EngineInv, NEW resp \in BOOLEAN, NEW done \in BOOLEAN,
           PortCycle(resp, cpu_lsu_dec, engGood(resp), done), who(resp) = "tbre"
    PROVE  /\ \/ request(resp).who = "tbre" /\ TbreAsks
              \/ request(resp).who = "stkz" /\ stkz_active
           /\ lsu.st = "busy" => /\ req_pending_q
                                 /\ request(resp).who = taken.who
                                 /\ mstr_arbit_q = taken.who
           /\ lsu.st # "busy" => /\ ~req_pending_q /\ ~cpu_lsu_dec /\ (stkz_lsu_req \/ blk1(resp))
                                 /\ request(resp).who = mstr_arbit(stkz_lsu_req, blk1(resp))
<1>1. CASE lsu.st = "busy"
  <2>1. lsu.who = "tbre"
    BY <1>1, Served DEF EngineInv
  <2>2. req_pending_q /\ mstr_arbit_q = taken.who
    BY <1>1, <2>1 DEF EngineInv, Held
  <2>3. request(resp).who = taken.who
    BY <2>2, Request DEF mstr_arbit_comb
  <2> QED
    BY <1>1, <2>2, <2>3 DEF EngineInv, Held
<1>2. CASE lsu.st # "busy"
  <2>1. engGood(resp)
    BY <1>2, Served DEF EngineInv
  <2>2. ~req_pending_q
    BY <1>2 DEF EngineInv, Held
  <2>3. request(resp).who = mstr_arbit(stkz_lsu_req, blk1(resp))
    BY <2>2, Request DEF mstr_arbit_comb
  <2>4. ~cpu_lsu_dec /\ (stkz_lsu_req \/ blk1(resp))
    BY <2>1 DEF engGood
  <2>5. \/ request(resp).who = "tbre" /\ TbreAsks
        \/ request(resp).who = "stkz" /\ stkz_active
    BY <2>3, <2>4 DEF mstr_arbit, stkz_lsu_req, blk1, tbre_lsu_req, TbreAsks
  <2> QED
    BY <1>2, <2>2, <2>3, <2>4, <2>5
<1> QED
  BY <1>1, <1>2

Verdicts == {tsmap_ptr(CapOf[c]) : c \in CapIds}

\* A cycle in these terms.
LEMMA CycleParts ==
    ASSUME NEW resp, NEW done, NEW err, NEW go, Cycle(resp, done, err, go)
    PROVE  /\ PortCycle(resp, cpu_lsu_dec, engGood(resp), done)
           /\ WrapperCycle(stkz_lsu_req, blk1(resp), who(resp) = "tbre", engDone(resp, done))
           /\ StkzCycle(ztop_write, FALSE, engDone(resp, done) /\ request(resp).who = "stkz",
                        engResp(resp) /\ ~resp_sel_q /\ done_req.err)
           /\ TbreCycle([go |-> go, start8 |-> Sweep.start8, end8 |-> Sweep.end8],
                        tbreDone(resp, done), tbreResp(resp), done_req.err, done_req.we,
                        [word |-> done_req.cell.word, tag |-> done_req.cell.lt],
                        IF cpuDone(resp, done) /\ id.op = "store" THEN id.g ELSE -1, tbre_trvk_en, trvk_clrtag)
           /\ TrvkCycle(IF cpuDone(resp, done) /\ id.op = "clc" THEN "rd" ELSE "none",
                        resp /\ lsu.who = "cpu", done_req.err,
                        engResp(resp) /\ ~done_req.we, done_req.err, Holds(done_req.cell), Verdicts)
           /\ MemUpdate(engDone(resp, done), cpuDone(resp, done), request(resp), err)
           /\ DoneUpdate(engDone(resp, done), cpuDone(resp, done), request(resp), err, resp)
           /\ IF cpu_lsu_dec /\ ~cpuDone(resp, done) THEN id' = id ELSE id' \in Instrs
           /\ id'.op = "ztop" /\ stkz_start(id'.w) => RestartWhileActive \/ stkz_fsm' = "STKZ_IDLE"
           /\ taken' = IF who(resp) = "tbre" /\ lsu.st # "busy" THEN request(resp) ELSE taken
  BY DEF Cycle, engResp, tbreResp, blk1, engGood, who, engDone, cpuDone, request, tbreDone, Verdicts

\* What the response in this cycle was counted as.
LEMMA Counted ==
    ASSUME EngineInv, NEW resp \in BOOLEAN, NEW done \in BOOLEAN,
           PortCycle(resp, cpu_lsu_dec, engGood(resp), done)
    PROVE  /\ Answers \in Nat /\ Lookups \in Nat
           /\ tbreResp(resp) /\ ~done_req.we => Answers > 0
           /\ tbre_trvk_en => Lookups > 0
           /\ who(resp) # "none" \/ resp => Answers = One(tbreResp(resp) /\ ~done_req.we)
           /\ engResp(resp) /\ ~done_req.we <=> tbreResp(resp) /\ ~done_req.we
<1>1. Answers \in Nat /\ Lookups \in Nat
  BY DEF Answers, Lookups, One
<1>2. resp => lsu.st = "resp"
  BY Served DEF EngineInv
<1>3. tbreResp(resp) /\ ~done_req.we => Answers > 0
  BY <1>2 DEF tbreResp, engResp, Answers, One
<1>4. tbre_trvk_en => Lookups > 0
  BY DEF tbre_trvk_en, Lookups, One
<1>5. who(resp) # "none" \/ resp => Answers = One(tbreResp(resp) /\ ~done_req.we)
  <2>1. lsu.st = "resp" /\ ~resp => who(resp) = "none"
    BY Served DEF EngineInv
  <2> QED
    BY <1>2, <2>1 DEF tbreResp, engResp, Answers, One
<1>6. engResp(resp) /\ ~done_req.we <=> tbreResp(resp) /\ ~done_req.we
  BY <1>2 DEF tbreResp, engResp, EngineInv, Owned
<1> QED
  BY <1>1, <1>3, <1>4, <1>5, <1>6

\* The loads in flight after a cycle.
LEMMA Recounted ==
    ASSUME EngineInv, NEW resp \in BOOLEAN, NEW done \in BOOLEAN, NEW err \in BOOLEAN, NEW go \in BOOLEAN,
           Cycle(resp, done, err, go)
    PROVE  /\ Answers' = Answers + (IF load_gnt(tbreDone(resp, done)) THEN 1 ELSE 0)
                                 - (IF tbreResp(resp) /\ ~done_req.we THEN 1 ELSE 0)
           /\ Lookups' = Lookups + (IF tbreResp(resp) /\ ~done_req.we THEN 1 ELSE 0)
                                 - (IF tbre_trvk_en THEN 1 ELSE 0)
<1>1. PortCycle(resp, cpu_lsu_dec, engGood(resp), done)
  BY CycleParts
<1>2. /\ Answers \in Nat /\ Lookups \in Nat
      /\ who(resp) # "none" \/ resp => Answers = One(tbreResp(resp) /\ ~done_req.we)
      /\ engResp(resp) /\ ~done_req.we <=> tbreResp(resp) /\ ~done_req.we
  BY <1>1, Counted
<1>3. resp_sel_q' = (IF engDone(resp, done) THEN request(resp).who = "tbre" ELSE resp_sel_q)
  BY CycleParts, Request DEF WrapperCycle
<1>4. /\ engDone(resp, done) => done_req'.we = request(resp).we
      /\ ~engDone(resp, done) /\ ~cpuDone(resp, done) /\ ~resp => done_req' = done_req
  <2>1. DoneUpdate(engDone(resp, done), cpuDone(resp, done), request(resp), err, resp)
    BY CycleParts
  <2> QED
    BY <2>1 DEF DoneUpdate
<1>5. Answers' = Answers + (IF load_gnt(tbreDone(resp, done)) THEN 1 ELSE 0)
                         - (IF tbreResp(resp) /\ ~done_req.we THEN 1 ELSE 0)
  <2>1. CASE engDone(resp, done)
    <3>1. who(resp) = "tbre" /\ done
      BY <2>1 DEF engDone
    <3>2. lsu'.st = "resp" /\ lsu'.who = "tbre"
      <4>1. lsu' = [st |-> IF done THEN "resp" ELSE "busy", who |-> who(resp)]
        BY <1>1, <3>1, Served DEF EngineInv
      <4> QED
        BY <3>1, <4>1
    <3>3. \/ request(resp).who = "tbre" /\ TbreAsks
          \/ request(resp).who = "stkz" /\ stkz_active
      BY <1>1, <3>1, Asked
    <3>4. ASSUME request(resp).who = "tbre" PROVE request(resp).we <=> tbre_sch = "SCH_STORE"
      <4> DEFINE w  == tbre_sch = "SCH_STORE"
                 ad == 2 * (IF tbre_sch = "SCH_LOAD" THEN cur_load_addr8 ELSE req_fifo[head].addr8)
      <4>1. request(resp) = [who |-> "tbre", we |-> w, addr |-> ad]
        BY <3>4, Request
      <4> HIDE DEF w, ad
      <4>2. request(resp).we = w
        BY <4>1
      <4> QED
        BY <4>2 DEF w
    <3>5. load_gnt(tbreDone(resp, done)) <=> request(resp).who = "tbre" /\ tbre_sch = "SCH_LOAD"
      BY <2>1 DEF load_gnt, tbreDone
    <3>6. resp_sel_q' <=> request(resp).who = "tbre"
      BY <1>3, <2>1
    <3>7. request(resp).who = "tbre" => (done_req'.we <=> tbre_sch = "SCH_STORE")
      BY <1>4, <2>1, <3>4
    <3>8. resp_sel_q' /\ ~done_req'.we <=> load_gnt(tbreDone(resp, done))
      BY <3>3, <3>5, <3>6, <3>7 DEF TbreAsks
    <3>9. Answers' = IF load_gnt(tbreDone(resp, done)) THEN 1 ELSE 0
      BY <3>2, <3>8 DEF Answers, One
    <3>10. Answers = IF tbreResp(resp) /\ ~done_req.we THEN 1 ELSE 0
      BY <1>2, <3>1 DEF One
    <3> QED
      BY <3>9, <3>10
  <2>2. CASE ~engDone(resp, done)
    <3>1. ~load_gnt(tbreDone(resp, done))
      BY <2>2 DEF load_gnt, tbreDone
    <3>2. CASE who(resp) # "none" \/ resp
      <4>1. ~(lsu'.st = "resp" /\ lsu'.who = "tbre")
        BY <1>1, <2>2, <3>2, Served DEF engDone, LsuFree, EngineInv
      <4>2. Answers' = 0
        BY <4>1 DEF Answers, One
      <4> QED
        BY <1>2, <3>1, <3>2, <4>2 DEF One
    <3>3. CASE who(resp) = "none" /\ ~resp
      <4>1. lsu' = lsu /\ ~cpuDone(resp, done)
        BY <1>1, <3>3, Served DEF cpuDone, EngineInv
      <4>2. resp_sel_q' = resp_sel_q /\ done_req' = done_req
        BY <1>3, <1>4, <2>2, <3>3, <4>1
      <4>3. Answers' = Answers
        BY <4>1, <4>2 DEF Answers
      <4> QED
        BY <1>2, <3>1, <3>3, <4>3 DEF tbreResp, engResp
    <3> QED
      BY <3>2, <3>3
  <2> QED
    BY <2>1, <2>2
<1>6. Lookups' = Lookups + (IF tbreResp(resp) /\ ~done_req.we THEN 1 ELSE 0)
                         - (IF tbre_trvk_en THEN 1 ELSE 0)
  <2>1. /\ stage0'.op = trvk_op(resp /\ lsu.who = "cpu", engResp(resp) /\ ~done_req.we)
        /\ stage1'.op = stage0.op /\ stage2' = stage1
    <3>1. TrvkCycle(IF cpuDone(resp, done) /\ id.op = "clc" THEN "rd" ELSE "none",
                    resp /\ lsu.who = "cpu", done_req.err,
                    engResp(resp) /\ ~done_req.we, done_req.err, Holds(done_req.cell), Verdicts)
      BY CycleParts
    <3> QED
      BY <3>1 DEF TrvkCycle
  <2>2. stage0'.op = "tbre" <=> tbreResp(resp) /\ ~done_req.we
    <3>1. reserved \in {"none", "rd"}
      BY DEF EngineInv, EngineTypes
    <3>2. engResp(resp) => ~(resp /\ lsu.who = "cpu")
      BY DEF engResp
    <3> QED
      BY <1>2, <2>1, <3>1, <3>2 DEF trvk_op
  <2>3. Lookups' = One(tbreResp(resp) /\ ~done_req.we) + One(stage0.op = "tbre") + One(stage1.op = "tbre")
    BY <2>1, <2>2 DEF Lookups, One
  <2> QED
    BY <2>3 DEF Lookups, One, tbre_trvk_en
<1> QED
  BY <1>5, <1>6

-----------------------------------------------------------------------------
(* The invariant is inductive.                                             *)

\* The words read and the controls have their types.
LEMMA Inputs ==
    ASSUME EngineTypes, NEW go \in BOOLEAN
    PROVE  /\ [go |-> go, start8 |-> Sweep.start8, end8 |-> Sweep.end8] \in Controls
           /\ [word |-> done_req.cell.word, tag |-> done_req.cell.lt] \in [word : LowWords, tag : BOOLEAN]
           /\ done_req.err \in BOOLEAN /\ done_req.we \in BOOLEAN
           /\ tbre_trvk_en \in BOOLEAN /\ trvk_clrtag \in BOOLEAN
<1>1. Sweep \in [start8 : 0 .. MaxAddr8, end8 : 0 .. MaxAddr8]
  BY EnginesAssumption DEF Granules
<1>2. [go |-> go, start8 |-> Sweep.start8, end8 |-> Sweep.end8] \in Controls
  BY <1>1 DEF Controls
<1>3. done_req \in [we : BOOLEAN, cell : Cells, err : BOOLEAN]
  BY DEF EngineTypes
<1>4. done_req.cell \in [word : LowWords, lt : BOOLEAN, mt : BOOLEAN]
  BY <1>3 DEF Cells, LowWords
<1>5. [word |-> done_req.cell.word, tag |-> done_req.cell.lt] \in [word : LowWords, tag : BOOLEAN]
  BY <1>4
<1>6. tbre_trvk_en \in BOOLEAN /\ trvk_clrtag \in BOOLEAN
  BY DEF tbre_trvk_en, trvk_clrtag, EngineTypes
<1> QED
  BY <1>2, <1>3, <1>5, <1>6

\* The engine's cycle, with its inputs named.
LEMMA TbrePart ==
    ASSUME EngineInv, NEW resp \in BOOLEAN, NEW done \in BOOLEAN, NEW err \in BOOLEAN, NEW go \in BOOLEAN,
           Cycle(resp, done, err, go)
    PROVE  \E ctrl \in Controls, rdata \in [word : LowWords, tag : BOOLEAN], snoop \in Int :
              /\ TbreCycle(ctrl, tbreDone(resp, done), tbreResp(resp), done_req.err, done_req.we, rdata,
                           snoop, tbre_trvk_en, trvk_clrtag)
              /\ who(resp) = "tbre" => snoop = -1
<1> DEFINE ctrl == [go |-> go, start8 |-> Sweep.start8, end8 |-> Sweep.end8]
           rdata == [word |-> done_req.cell.word, tag |-> done_req.cell.lt]
           snoop == IF cpuDone(resp, done) /\ id.op = "store" THEN id.g ELSE -1
<1>1. ctrl \in Controls /\ rdata \in [word : LowWords, tag : BOOLEAN]
  BY Inputs DEF EngineInv
<1>2. TbreCycle(ctrl, tbreDone(resp, done), tbreResp(resp), done_req.err, done_req.we, rdata,
                snoop, tbre_trvk_en, trvk_clrtag)
  BY CycleParts
<1>3. who(resp) = "tbre" => snoop = -1
  BY DEF cpuDone
<1>4. snoop \in Int
  <2>1. id.op = "store" => id \in CpuOps
    BY DEF EngineInv, EngineTypes, Instrs, Other
  <2>2. id \in CpuOps => id.g \in Granules
    BY EnginesAssumption
  <2>3. Granules \subseteq Int
    BY TbreAssumption DEF Granules
  <2>4. CASE cpuDone(resp, done) /\ id.op = "store"
    BY <2>1, <2>2, <2>3, <2>4
  <2>5. CASE ~(cpuDone(resp, done) /\ id.op = "store")
    BY <2>5
  <2> QED
    BY <2>4, <2>5
<1> HIDE DEF ctrl, rdata, snoop
<1> QED
  BY <1>1, <1>2, <1>3, <1>4

\* The engine, its FIFOs and the loads in flight.
LEMMA QueuesCycle ==
    ASSUME EngineInv, NEW resp \in BOOLEAN, NEW done \in BOOLEAN, NEW err \in BOOLEAN, NEW go \in BOOLEAN,
           Cycle(resp, done, err, go)
    PROVE  TbreTypes(LowWords)' /\ Pointers(Answers, Lookups)' /\ Scheduled'
<1>1. PICK ctrl \in Controls, rdata \in [word : LowWords, tag : BOOLEAN], snoop \in Int :
         TbreCycle(ctrl, tbreDone(resp, done), tbreResp(resp), done_req.err, done_req.we, rdata,
                   snoop, tbre_trvk_en, trvk_clrtag)
  BY TbrePart
<1>2. TbreTypes(LowWords) /\ Pointers(Answers, Lookups) /\ Scheduled /\ EngineTypes
  BY DEF EngineInv, EngineTypes
<1>3. /\ tbreDone(resp, done) \in BOOLEAN /\ tbreResp(resp) \in BOOLEAN
      /\ done_req.err \in BOOLEAN /\ done_req.we \in BOOLEAN
      /\ tbre_trvk_en \in BOOLEAN /\ trvk_clrtag \in BOOLEAN
  BY <1>2, Signals, Inputs
<1>4. /\ Answers \in Nat /\ Lookups \in Nat
      /\ tbreResp(resp) /\ ~done_req.we => Answers > 0
      /\ tbre_trvk_en => Lookups > 0
  <2>1. PortCycle(resp, cpu_lsu_dec, engGood(resp), done)
    BY CycleParts
  <2> QED
    BY <2>1, Counted
<1>5. TbreTypes(LowWords)'
  <2>1. PICK W : W = LowWords
    OBVIOUS
  <2>2. TbreTypes(W) /\ rdata \in [word : W, tag : BOOLEAN]
    BY <1>2, <2>1
  <2>3. TbreTypes(W)'
    BY <1>1, <1>3, <2>2, TbreTypesStep
  <2> QED
    BY <2>1, <2>3 DEF TbreTypes, LowWords
<1>6. InStep(req_wr_ptr', cap_wr_ptr', shdw_wr_ptr', rd_ptr', Answers', Lookups') /\ Scheduled'
  <2>1. PICK a2, v2 : a2 = Answers' /\ v2 = Lookups'
    OBVIOUS
  <2>2. PICK d \in BOOLEAN, r \in BOOLEAN, w \in BOOLEAN, e \in BOOLEAN :
           (d <=> tbreDone(resp, done)) /\ (r <=> tbreResp(resp)) /\ (w <=> done_req.we) /\ (e <=> tbre_trvk_en)
    BY <1>3
  <2>3. TbreCycle(ctrl, d, r, done_req.err, w, rdata, snoop, e, trvk_clrtag)
    BY <1>1, <1>3, <2>2
  <2>4. load_gnt(d) <=> load_gnt(tbreDone(resp, done))
    BY <2>2 DEF load_gnt
  <2>5. /\ a2 = Answers + (IF load_gnt(d) THEN 1 ELSE 0) - (IF r /\ ~w THEN 1 ELSE 0)
        /\ v2 = Lookups + (IF r /\ ~w THEN 1 ELSE 0) - (IF e THEN 1 ELSE 0)
    BY <2>1, <2>2, <2>4, Recounted
  <2>6. (r /\ ~w => Answers > 0) /\ (e => Lookups > 0)
    BY <1>4, <2>2
  <2>7. InStep(req_wr_ptr', cap_wr_ptr', shdw_wr_ptr', rd_ptr', a2, v2) /\ Scheduled'
    <3>1. PICK a, v : a = Answers /\ v = Lookups
      OBVIOUS
    <3>2. PICK W : W = LowWords
      OBVIOUS
    <3>3. a \in Nat /\ v \in Nat /\ Pointers(a, v) /\ Scheduled /\ TbreTypes(W)
      BY <1>2, <1>4, <3>1, <3>2
    <3>4. /\ a2 = a + (IF load_gnt(d) THEN 1 ELSE 0) - (IF r /\ ~w THEN 1 ELSE 0)
          /\ v2 = v + (IF r /\ ~w THEN 1 ELSE 0) - (IF e THEN 1 ELSE 0)
          /\ r /\ ~w => a > 0
          /\ e => v > 0
      BY <2>5, <2>6, <3>1
    <3> QED
      BY <2>3, <3>3, <3>4, QueuesStep, SMTT(60)
  <2> QED
    BY <2>1, <2>7
<1> QED
  BY <1>5, <1>6 DEF Pointers

\* Memory, the pipeline, the CPU and the response keep their types.
LEMMA TypesCycle ==
    ASSUME EngineInv, NEW resp \in BOOLEAN, NEW done \in BOOLEAN, NEW err \in BOOLEAN, NEW go \in BOOLEAN,
           Cycle(resp, done, err, go)
    PROVE  EngineTypes'
<1>1. EngineTypes /\ PortCycle(resp, cpu_lsu_dec, engGood(resp), done)
  BY CycleParts DEF EngineInv
<1>2. PortTypeOK'
  <2>1. CASE who(resp) # "none"
    <3>1. who(resp) \in Masters /\ lsu' = [st |-> IF done THEN "resp" ELSE "busy", who |-> who(resp)]
      BY <1>1, <2>1, Served DEF Masters
    <3> QED
      BY <3>1 DEF PortTypeOK, LsuStates
  <2>2. CASE who(resp) = "none"
    <3>1. lsu' = LsuFree \/ lsu' = lsu
      BY <1>1, <2>2, Served
    <3> QED
      BY <1>1, <3>1 DEF PortTypeOK, LsuStates, LsuFree, EngineTypes
  <2> QED
    BY <2>1, <2>2
<1>3. WrapperTypeOK'
  <2>1. WrapperCycle(stkz_lsu_req, blk1(resp), who(resp) = "tbre", engDone(resp, done))
    BY CycleParts
  <2> QED
    BY <1>1, <2>1 DEF WrapperTypeOK, WrapperCycle, mstr_arbit, req_pending, Blocks, EngineTypes
<1>4. stkz_fsm' \in {"STKZ_IDLE", "STKZ_ACTIVE", "STKZ_ABORT"}
  <2>1. StkzCycle(ztop_write, FALSE, engDone(resp, done) /\ request(resp).who = "stkz",
                  engResp(resp) /\ ~resp_sel_q /\ done_req.err)
    BY CycleParts
  <2> QED
    BY <1>1, <2>1 DEF StkzCycle, stkz_fsm_d, EngineTypes
<1>5. /\ reserved' \in {"none", "rd"} /\ stage0'.op \in Loads
      /\ stage1' \in [op : Loads, clr : BOOLEAN] /\ stage2' \in [op : Loads, clr : BOOLEAN]
  <2>1. TrvkCycle(IF cpuDone(resp, done) /\ id.op = "clc" THEN "rd" ELSE "none",
                  resp /\ lsu.who = "cpu", done_req.err,
                  engResp(resp) /\ ~done_req.we, done_req.err, Holds(done_req.cell), Verdicts)
    BY CycleParts
  <2>2. reserved' \in {"none", "rd"}
    BY <1>1, <2>1 DEF TrvkCycle, EngineTypes
  <2>3. stage0'.op \in Loads
    BY <1>1, <2>1 DEF TrvkCycle, trvk_op, EngineTypes, Loads
  <2>4. stage1' \in [op : Loads, clr : BOOLEAN] /\ stage2' = stage1
    BY <1>1, <2>1 DEF TrvkCycle, EngineTypes
  <2> QED
    BY <1>1, <2>2, <2>3, <2>4 DEF EngineTypes
<1>6. Blank \in Cells
  BY DEF Blank, Cells
<1>7. mem' \in [Granules -> Cells]
  <2>1. mem \in [Granules -> Cells]
    BY <1>1 DEF EngineTypes
  <2>2. \A c \in Cells : Written(request(resp), c) \in Cells
    <3>1. cap_fifo[head].word \in LowWords
      <4>1. head \in Slots
        BY <1>1, Ring DEF head, EngineTypes, TbreTypes
      <4> QED
        BY <1>1, <4>1 DEF EngineTypes, TbreTypes
    <3> QED
      BY <3>1 DEF Written, Cells, LowWords
  <2>3. MemUpdate(engDone(resp, done), cpuDone(resp, done), request(resp), err)
    BY CycleParts
  <2> QED
    BY <1>6, <2>1, <2>2, <2>3 DEF MemUpdate
<1>8. id' \in Instrs
  BY <1>1, CycleParts DEF EngineTypes
<1>9. done_req' \in [we : BOOLEAN, cell : Cells, err : BOOLEAN]
  <2>1. DoneUpdate(engDone(resp, done), cpuDone(resp, done), request(resp), err, resp)
    BY CycleParts
  <2>2. CASE engDone(resp, done)
    <3>1. who(resp) = "tbre"
      BY <2>2 DEF engDone
    <3>2. \/ request(resp).who = "tbre" /\ TbreAsks
          \/ request(resp).who = "stkz" /\ stkz_active
      BY <1>1, <3>1, Asked
    <3>3. CASE request(resp).who = "tbre"
      <4> DEFINE w  == tbre_sch = "SCH_STORE"
                 ad == 2 * (IF tbre_sch = "SCH_LOAD" THEN cur_load_addr8 ELSE req_fifo[head].addr8)
      <4>1. request(resp) = [who |-> "tbre", we |-> w, addr |-> ad]
        BY <3>3, Request
      <4>2. w \in BOOLEAN /\ (~w => ad = 2 * cur_load_addr8)
        BY <3>2, <3>3 DEF TbreAsks
      <4> HIDE DEF w, ad
      <4>3. request(resp).we = w /\ request(resp).addr = ad
        BY <4>1
      <4>4. cur_load_addr8 \in Granules /\ cur_load_addr8 \in Nat
        BY <1>1, TbreAssumption DEF EngineTypes, TbreTypes, Granules
      <4>5. ~w => ad \div 2 = cur_load_addr8
        BY <4>2, <4>4
      <4>6. ~w => mem[request(resp).addr \div 2] \in Cells
        BY <1>1, <4>3, <4>4, <4>5 DEF EngineTypes
      <4> QED
        BY <1>6, <2>1, <2>2, <4>2, <4>3, <4>6 DEF DoneUpdate
    <3>4. CASE request(resp).who # "tbre"
      <4>1. request(resp).we = TRUE
        BY <3>4, Request
      <4> QED
        BY <1>6, <2>1, <2>2, <4>1 DEF DoneUpdate
    <3> QED
      BY <3>3, <3>4
  <2>3. CASE ~engDone(resp, done) /\ cpuDone(resp, done)
    <3>1. cpu_lsu_dec
      BY <1>1, <2>3, Served DEF cpuDone, EngineInv, Held
    <3>2. id \in CpuOps
      BY <1>1, <3>1 DEF EngineTypes, Instrs, Other, cpu_lsu_dec
    <3>3. id.g \in Granules
      BY <3>2, EnginesAssumption
    <3>4. mem[id.g] \in Cells
      BY <1>1, <3>3 DEF EngineTypes
    <3> QED
      BY <1>6, <2>1, <2>3, <3>4 DEF DoneUpdate
  <2>4. CASE ~engDone(resp, done) /\ ~cpuDone(resp, done)
    <3>1. Quiet \in [we : BOOLEAN, cell : Cells, err : BOOLEAN]
      BY <1>6 DEF Quiet
    <3> QED
      BY <1>1, <2>1, <2>4, <3>1 DEF DoneUpdate, EngineTypes
  <2> QED
    BY <2>2, <2>3, <2>4
<1> QED
  BY <1>2, <1>3, <1>4, <1>5, <1>7, <1>8, <1>9, QueuesCycle DEF EngineTypes
\* The revocation engine keeps the request that waits.
LEMMA TbreWaits ==
    ASSUME EngineInv, NEW resp \in BOOLEAN, NEW done \in BOOLEAN, NEW err \in BOOLEAN, NEW go \in BOOLEAN,
           Cycle(resp, done, err, go), who(resp) = "tbre", ~done
    PROVE  /\ tbre_sch = "SCH_LOAD" => tbre_sch' = "SCH_LOAD" /\ cur_load_addr8' = cur_load_addr8
           /\ tbre_sch = "SCH_STORE" /\ store_req_valid =>
                 /\ tbre_sch' = "SCH_STORE" /\ store_req_valid' /\ head' = head
                 /\ req_fifo'[head] = req_fifo[head]
<1>1. PICK ctrl \in Controls, rdata \in [word : LowWords, tag : BOOLEAN], snoop \in Int :
         /\ TbreCycle(ctrl, tbreDone(resp, done), tbreResp(resp), done_req.err, done_req.we, rdata,
                      snoop, tbre_trvk_en, trvk_clrtag)
         /\ who(resp) = "tbre" => snoop = -1
  BY TbrePart
<1>2. TbreTypes(LowWords) /\ Pointers(Answers, Lookups) /\ Scheduled /\ EngineTypes
  BY DEF EngineInv, EngineTypes
<1>3. /\ tbreDone(resp, done) \in BOOLEAN /\ tbreResp(resp) \in BOOLEAN
      /\ done_req.we \in BOOLEAN /\ tbre_trvk_en \in BOOLEAN
  BY <1>2, Signals, Inputs
<1>4. /\ Answers \in Nat /\ Lookups \in Nat
      /\ tbreResp(resp) /\ ~done_req.we => Answers > 0
      /\ tbre_trvk_en => Lookups > 0
  <2>1. PortCycle(resp, cpu_lsu_dec, engGood(resp), done)
    BY CycleParts
  <2> QED
    BY <2>1, Counted
<1>5. ~tbreDone(resp, done) /\ snoop = -1
  BY <1>1 DEF tbreDone, engDone
<1> QED
  BY <1>1, <1>2, <1>3, <1>4, <1>5, RequestKept

\* The arbiter and the load-store unit agree on whose turn it is.
LEMMA HeldCycle ==
    ASSUME EngineInv, NEW resp \in BOOLEAN, NEW done \in BOOLEAN, NEW err \in BOOLEAN, NEW go \in BOOLEAN,
           Cycle(resp, done, err, go)
    PROVE  Held'
<1>1. EngineTypes /\ Held /\ PortCycle(resp, cpu_lsu_dec, engGood(resp), done)
  BY CycleParts DEF EngineInv
<1>2. /\ who(resp) # "none" => lsu' = [st |-> IF done THEN "resp" ELSE "busy", who |-> who(resp)]
      /\ who(resp) = "none" /\ resp => lsu' = LsuFree
      /\ who(resp) = "none" /\ ~resp => lsu' = lsu
      /\ lsu.st = "busy" => who(resp) = lsu.who /\ who(resp) # "none"
      /\ who(resp) \in {"none", "cpu", "tbre"}
      /\ done => who(resp) # "none"
  BY <1>1, Served
<1>3. /\ req_pending_q' = (IF engDone(resp, done) THEN FALSE
                           ELSE req_pending_q \/ req_pending(stkz_lsu_req, blk1(resp), who(resp) = "tbre", engDone(resp, done)))
      /\ mstr_arbit_q' = (IF req_pending(stkz_lsu_req, blk1(resp), who(resp) = "tbre", engDone(resp, done))
                          THEN mstr_arbit(stkz_lsu_req, blk1(resp)) ELSE mstr_arbit_q)
  BY CycleParts DEF WrapperCycle
<1>4. lsu'.st = "busy" /\ lsu'.who = "tbre" <=> who(resp) = "tbre" /\ ~done
  <2>1. CASE who(resp) # "none"
    BY <1>2, <2>1
  <2>2. CASE who(resp) = "none"
    BY <1>2, <2>2 DEF LsuFree
  <2> QED
    BY <2>1, <2>2
<1>5. lsu'.st = "busy" /\ lsu'.who = "cpu" <=> who(resp) = "cpu" /\ ~done
  <2>1. CASE who(resp) # "none"
    BY <1>2, <2>1
  <2>2. CASE who(resp) = "none"
    BY <1>2, <2>2 DEF LsuFree
  <2> QED
    BY <2>1, <2>2
<1>6. ASSUME who(resp) = "cpu", ~done PROVE cpu_lsu_dec'
  <2>1. cpu_lsu_dec
    BY <1>1, <1>6, Served DEF Held
  <2>2. id' = id
    BY <1>6, <2>1, CycleParts DEF cpuDone
  <2> QED
    BY <2>1, <2>2 DEF cpu_lsu_dec
<1>7. CASE who(resp) # "tbre" \/ done
  <2>1. req_pending_q => who(resp) = "tbre"
    BY <1>1, <1>2 DEF Held
  <2>2. ~req_pending_q'
    BY <1>3, <1>7, <2>1 DEF engDone, req_pending
  <2> QED
    BY <1>4, <1>5, <1>6, <1>7, <2>2 DEF Held
<1>8. CASE who(resp) = "tbre" /\ ~done
  <2>1. /\ \/ request(resp).who = "tbre" /\ TbreAsks
           \/ request(resp).who = "stkz" /\ stkz_active
        /\ lsu.st = "busy" => /\ req_pending_q
                              /\ request(resp).who = taken.who
                              /\ mstr_arbit_q = taken.who
        /\ lsu.st # "busy" => /\ ~req_pending_q /\ ~cpu_lsu_dec /\ (stkz_lsu_req \/ blk1(resp))
                              /\ request(resp).who = mstr_arbit(stkz_lsu_req, blk1(resp))
    BY <1>1, <1>8, Asked
  <2>2. ~engDone(resp, done) /\ ~tbreDone(resp, done)
    BY <1>8 DEF engDone, tbreDone
  <2>3. taken' = (IF lsu.st # "busy" THEN request(resp) ELSE taken)
    BY <1>8, CycleParts
  <2>4. taken'.who = request(resp).who
    BY <2>1, <2>3
  <2>5. req_pending_q' /\ mstr_arbit_q' = taken'.who
    <3>1. CASE lsu.st = "busy"
      BY <1>3, <2>1, <2>2, <2>4, <3>1 DEF req_pending
    <3>2. CASE lsu.st # "busy"
      BY <1>3, <1>8, <2>1, <2>2, <2>4, <3>2 DEF req_pending
    <3> QED
      BY <3>1, <3>2
  <2>6. request(resp).who = "stkz" => stkz_active'
    <3>1. stkz_fsm' = stkz_fsm_d(ztop_write, FALSE, engDone(resp, done) /\ request(resp).who = "stkz")
      BY CycleParts DEF StkzCycle
    <3> QED
      BY <2>1, <2>2, <3>1 DEF stkz_fsm_d, stkz_active
  <2>7. ASSUME request(resp).who = "tbre" PROVE TbreAsks'
    BY <1>8, <2>1, <2>7, TbreWaits DEF TbreAsks
  <2> QED
    BY <1>4, <1>5, <1>8, <2>1, <2>4, <2>5, <2>6, <2>7 DEF Held
<1> QED
  BY <1>7, <1>8

\* The response belongs to the engine whose request was done.
LEMMA OwnedCycle ==
    ASSUME EngineInv, NEW resp \in BOOLEAN, NEW done \in BOOLEAN, NEW err \in BOOLEAN, NEW go \in BOOLEAN,
           Cycle(resp, done, err, go)
    PROVE  Owned'
<1>1. EngineTypes /\ Owned /\ PortCycle(resp, cpu_lsu_dec, engGood(resp), done)
  BY CycleParts DEF EngineInv
<1>2. /\ who(resp) # "none" => lsu' = [st |-> IF done THEN "resp" ELSE "busy", who |-> who(resp)]
      /\ who(resp) = "none" /\ resp => lsu' = LsuFree
      /\ who(resp) = "none" /\ ~resp => lsu' = lsu
      /\ done => who(resp) # "none"
  BY <1>1, Served
<1>3. resp_sel_q' = (IF engDone(resp, done) THEN request(resp).who = "tbre" ELSE resp_sel_q)
  BY CycleParts, Request DEF WrapperCycle
<1>4. /\ engDone(resp, done) => done_req'.we = request(resp).we
      /\ ~engDone(resp, done) /\ ~cpuDone(resp, done) /\ ~resp => done_req' = done_req
  <2>1. DoneUpdate(engDone(resp, done), cpuDone(resp, done), request(resp), err, resp)
    BY CycleParts
  <2> QED
    BY <2>1 DEF DoneUpdate
<1>5. taken' = IF who(resp) = "tbre" /\ lsu.st # "busy" THEN request(resp) ELSE taken
  BY CycleParts
<1>6. CASE engDone(resp, done)
  <2>1. who(resp) = "tbre"
    BY <1>6 DEF engDone
  <2>2. taken'.who = request(resp).who
    BY <1>1, <1>5, <2>1, Asked
  <2>3. request(resp).who # "tbre" => done_req'.we
    BY <1>4, <1>6, Request
  <2>4. resp_sel_q' <=> request(resp).who = "tbre"
    BY <1>3, <1>6
  <2> QED
    BY <2>2, <2>3, <2>4 DEF Owned
<1>7. CASE ~engDone(resp, done)
  <2>1. CASE who(resp) # "none" \/ resp
    <3>1. ~(lsu'.st = "resp" /\ lsu'.who = "tbre")
      BY <1>2, <1>7, <2>1 DEF engDone, LsuFree
    <3> QED
      BY <3>1 DEF Owned
  <2>2. CASE who(resp) = "none" /\ ~resp
    <3>1. lsu' = lsu /\ ~cpuDone(resp, done) /\ taken' = taken
      BY <1>2, <1>5, <2>2 DEF cpuDone
    <3>2. resp_sel_q' = resp_sel_q /\ done_req' = done_req
      BY <1>3, <1>4, <1>7, <2>2, <3>1
    <3> QED
      BY <1>1, <3>1, <3>2 DEF Owned
  <2> QED
    BY <2>1, <2>2
<1> QED
  BY <1>6, <1>7

\* The engines at reset.
LEMMA EnginesStart == Init => EngineInv
<1> SUFFICES ASSUME Init PROVE EngineInv
  OBVIOUS
<1>1. TbreTypes(LowWords) /\ Pointers(0, 0) /\ Scheduled
  BY TbreStart DEF Init, LowWords
<1>2. Blank \in Cells /\ Quiet \in [we : BOOLEAN, cell : Cells, err : BOOLEAN]
  BY DEF Blank, Quiet, Cells
<1>3. mem \in [Granules -> Cells]
  <2>1. {[word |-> c, lt |-> TRUE, mt |-> TRUE] : c \in CapIds} \subseteq Cells
    <3>1. \A c \in CapIds : [word |-> c, lt |-> TRUE, mt |-> TRUE] \in Cells
      BY DEF Cells
    <3> QED
      BY <3>1
  <2> QED
    BY <2>1 DEF Init
<1>4. /\ reserved \in {"none", "rd"} /\ stage0.op \in Loads
      /\ stage1 \in [op : Loads, clr : BOOLEAN] /\ stage2 \in [op : Loads, clr : BOOLEAN]
  BY DEF Init, TrvkInit, Empty0, Empty, Loads
<1>5. EngineTypes
  <2>1. PortTypeOK
    BY DEF Init, PortInit, PortTypeOK, LsuFree, LsuStates
  <2>2. WrapperTypeOK
    BY DEF Init, WrapperInit, WrapperTypeOK, Blocks
  <2>3. stkz_fsm \in {"STKZ_IDLE", "STKZ_ACTIVE", "STKZ_ABORT"}
    BY DEF Init, StkzInit
  <2>4. id \in Instrs /\ done_req = Quiet
    BY DEF Init, Instrs
  <2> QED
    BY <1>1, <1>2, <1>3, <1>4, <2>1, <2>2, <2>3, <2>4 DEF EngineTypes
<1>6. lsu.st = "free" /\ ~req_pending_q
  BY DEF Init, PortInit, LsuFree, WrapperInit
<1>7. Answers = 0 /\ Lookups = 0
  BY <1>6 DEF Answers, Lookups, One, Init, TrvkInit, Empty0, Empty
<1>8. Held /\ Owned
  BY <1>6 DEF Held, Owned
<1> QED
  BY <1>1, <1>5, <1>7, <1>8 DEF EngineInv

\* A step keeps the invariant.
LEMMA EnginesStep == EngineInv /\ [Next]_vars => EngineInv'
<1> SUFFICES ASSUME EngineInv, [Next]_vars PROVE EngineInv'
  OBVIOUS
<1>1. CASE Next
  <2>1. PICK resp \in BOOLEAN, done \in BOOLEAN, err \in BOOLEAN, go \in BOOLEAN : Cycle(resp, done, err, go)
    BY <1>1 DEF Next
  <2>2. Pointers(Answers, Lookups)' /\ Scheduled'
    BY <2>1, QueuesCycle
  <2>3. EngineTypes'
    BY <2>1, TypesCycle
  <2>4. Held'
    BY <2>1, HeldCycle
  <2>5. Owned'
    BY <2>1, OwnedCycle
  <2> QED
    BY <2>2, <2>3, <2>4, <2>5 DEF EngineInv
<1>2. CASE UNCHANGED vars
  <2>1. /\ UNCHANGED tbreVars /\ UNCHANGED trvkVars /\ UNCHANGED stkzVars /\ UNCHANGED wrapperVars
        /\ UNCHANGED <<lsu, mem, id, done_req, taken>>
    BY <1>2 DEF vars
  <2>2. EngineTypes'
    BY <2>1 DEF EngineInv, EngineTypes, TbreTypes, LowWords, PortTypeOK, WrapperTypeOK,
                tbreVars, trvkVars, stkzVars, wrapperVars
  <2>3. (TbreAsks' <=> TbreAsks) /\ (stkz_active' <=> stkz_active) /\ (cpu_lsu_dec' <=> cpu_lsu_dec)
    BY <2>1 DEF TbreAsks, store_req_valid, fifo_not_empty, head, stkz_active, cpu_lsu_dec, tbreVars, stkzVars
  <2>4. Held'
    <3>1. /\ req_pending_q' = req_pending_q /\ mstr_arbit_q' = mstr_arbit_q
          /\ lsu' = lsu /\ taken' = taken
      BY <2>1 DEF wrapperVars
    <3>2. Held
      BY DEF EngineInv
    <3> QED
      BY <2>3, <3>1, <3>2 DEF Held
  <2>5. Owned'
    BY <2>1 DEF EngineInv, Owned, wrapperVars
  <2>6. Answers' = Answers /\ Lookups' = Lookups
    BY <2>1 DEF Answers, Lookups, trvkVars, wrapperVars
  <2>7. Pointers(Answers, Lookups)' /\ Scheduled'
    BY <2>1, <2>6 DEF EngineInv, Pointers, Scheduled, tbreVars
  <2> QED
    BY <2>2, <2>4, <2>5, <2>7 DEF EngineInv
<1> QED
  BY <1>1, <1>2

LEMMA EnginesInvariance == Spec => []EngineInv
  BY EnginesStart, EnginesStep, PTL DEF Spec

-----------------------------------------------------------------------------
(* Theorems.                                                               *)

\* The response goes to the engine whose request it answers, whatever the two
\* engines and the CPU ask for in the meantime.
THEOREM ResponsesToOwner == Spec => []ResponseToOwner
<1>1. EngineInv => ResponseToOwner
  <2> SUFFICES ASSUME EngineInv, lsu.st = "resp", lsu.who = "tbre"
               PROVE  resp_sel_q = (taken.who = "tbre")
    BY DEF ResponseToOwner
  <2>1. resp_sel_q <=> taken.who = "tbre"
    BY DEF EngineInv, Owned
  <2>2. resp_sel_q \in BOOLEAN
    BY DEF EngineInv, EngineTypes, WrapperTypeOK
  <2> QED
    BY <2>1, <2>2
<1> QED
  BY <1>1, EnginesInvariance, PTL

\* The three FIFOs of the revocation engine never overflow and stay aligned
\* beside the zeroiser, for every FIFO size.
THEOREM FifosStayAligned == Spec => []FifosAligned
<1>1. EngineInv => FifosAligned
  <2> SUFFICES ASSUME EngineInv PROVE FifosAligned
    OBVIOUS
  <2>1. Answers \in Nat /\ Lookups \in Nat
    BY DEF Answers, Lookups, One
  <2>2. req_wr_ptr \in Ptrs /\ cap_wr_ptr \in Ptrs /\ shdw_wr_ptr \in Ptrs /\ rd_ptr \in Ptrs
    BY DEF EngineInv, EngineTypes, TbreTypes
  <2>3. Gap(cap_wr_ptr, rd_ptr) \in Nat /\ Gap(shdw_wr_ptr, rd_ptr) \in Nat /\ FifoSize \in Nat
    BY <2>2, Apart, TbreAssumption
  <2>4. /\ Gap(req_wr_ptr, rd_ptr) = Gap(cap_wr_ptr, rd_ptr) + Answers
        /\ Gap(cap_wr_ptr, rd_ptr) = Gap(shdw_wr_ptr, rd_ptr) + Lookups
        /\ Gap(req_wr_ptr, rd_ptr) <= FifoSize
    BY DEF EngineInv, Pointers, InStep
  <2>5. /\ os_req_cnt = Gap(req_wr_ptr, rd_ptr)
        /\ Dist(cap_wr_ptr) = Gap(cap_wr_ptr, rd_ptr)
        /\ Dist(shdw_wr_ptr) = Gap(shdw_wr_ptr, rd_ptr)
    BY DEF os_req_cnt, Dist, Gap
  <2> QED
    BY <2>1, <2>3, <2>4, <2>5 DEF FifosAligned
<1> QED
  BY <1>1, EnginesInvariance, PTL

\* The request that waits is kept, unless software starts a run during one.
LEMMA KeptCycle ==
    ASSUME ~RestartWhileActive, EngineInv, Kept,
           NEW resp \in BOOLEAN, NEW done \in BOOLEAN, NEW err \in BOOLEAN, NEW go \in BOOLEAN,
           Cycle(resp, done, err, go)
    PROVE  Kept'
<1> DEFINE ForTbre == [who |-> "tbre", we |-> tbre_sch = "SCH_STORE",
                       addr |-> 2 * (IF tbre_sch = "SCH_LOAD" THEN cur_load_addr8 ELSE req_fifo[head].addr8)]
           ForStkz == [who |-> "stkz", we |-> TRUE, addr |-> stkz_ptrw_nxt]
<1>1. EngineTypes /\ Held /\ PortCycle(resp, cpu_lsu_dec, engGood(resp), done)
  BY CycleParts DEF EngineInv
<1>2. id'.op = "ztop" /\ stkz_start(id'.w) => ~stkz_active'
  <2>1. id'.op = "ztop" /\ stkz_start(id'.w) => RestartWhileActive \/ stkz_fsm' = "STKZ_IDLE"
    BY CycleParts
  <2> QED
    BY <2>1 DEF stkz_active
<1>3. ASSUME req_pending_q'
      PROVE  /\ taken'.who = "stkz" => taken' = ForStkz'
             /\ taken'.who = "tbre" => taken' = ForTbre'
  <2>1. lsu'.st = "busy" /\ lsu'.who = "tbre"
    <3>1. Held'
      BY HeldCycle
    <3> QED
      BY <1>3, <3>1 DEF Held
  <2>2. who(resp) = "tbre" /\ ~done
    <3>1. CASE who(resp) # "none"
      <4>1. lsu' = [st |-> IF done THEN "resp" ELSE "busy", who |-> who(resp)]
        BY <1>1, <3>1, Served
      <4> QED
        BY <2>1, <4>1
    <3>2. CASE who(resp) = "none"
      BY <1>1, <2>1, <3>2, Served DEF LsuFree
    <3> QED
      BY <3>1, <3>2
  <2>3. taken' = (IF lsu.st # "busy" THEN request(resp) ELSE taken)
    BY <2>2, CycleParts
  <2>4. /\ \/ request(resp).who = "tbre" /\ TbreAsks
           \/ request(resp).who = "stkz" /\ stkz_active
        /\ lsu.st = "busy" => req_pending_q /\ request(resp).who = taken.who
    BY <1>1, <2>2, Asked
  <2>5. taken' = request(resp)
    <3>1. CASE lsu.st = "busy"
      <4>1. /\ taken.who = "stkz" => taken = ForStkz
            /\ taken.who = "tbre" => taken = ForTbre
        BY <2>4, <3>1 DEF Kept
      <4>2. /\ request(resp).who = "tbre" => request(resp) = ForTbre
            /\ request(resp).who = "stkz" => request(resp) = ForStkz
        BY Request
      <4> QED
        BY <2>3, <2>4, <3>1, <4>1, <4>2
    <3>2. CASE lsu.st # "busy"
      BY <2>3, <3>2
    <3> QED
      BY <3>1, <3>2
  <2>6. ASSUME request(resp).who = "stkz" PROVE taken' = ForStkz'
    <3>1. stkz_ptrw_nxt' = stkz_ptrw_nxt
      <4>1. ContextUpdate(ztop_write, FALSE, engDone(resp, done) /\ request(resp).who = "stkz")
        BY CycleParts DEF StkzCycle
      <4>2. stkz_active /\ ~engDone(resp, done)
        BY <2>2, <2>4, <2>6 DEF engDone
      <4>3. ~stkz_start(ztop_write)
        BY <4>2 DEF Kept, ztop_write, stkz_start, ztop_wr, NoWrite
      <4> QED
        BY <4>1, <4>2, <4>3 DEF ContextUpdate
    <3>2. request(resp) = ForStkz
      BY <2>6, Request
    <3> QED
      BY <2>5, <3>1, <3>2
  <2>7. ASSUME request(resp).who = "tbre" PROVE taken' = ForTbre'
    <3>1. request(resp) = ForTbre
      BY <2>7, Request
    <3>2. TbreAsks
      BY <2>4, <2>7
    <3>3. CASE tbre_sch = "SCH_LOAD"
      <4>1. tbre_sch' = "SCH_LOAD" /\ cur_load_addr8' = cur_load_addr8
        BY <2>2, <3>3, TbreWaits
      <4> QED
        BY <2>5, <3>1, <3>3, <4>1
    <3>4. CASE tbre_sch = "SCH_STORE" /\ store_req_valid
      <4>1. tbre_sch' = "SCH_STORE" /\ head' = head /\ req_fifo'[head] = req_fifo[head]
        BY <2>2, <3>4, TbreWaits
      <4> QED
        BY <2>5, <3>1, <3>4, <4>1
    <3> QED
      BY <3>2, <3>3, <3>4 DEF TbreAsks
  <2> QED
    BY <2>5, <2>4, <2>6, <2>7
<1> HIDE DEF ForTbre, ForStkz
<1>4. /\ req_pending_q' /\ taken'.who = "stkz" => taken' = ForStkz'
      /\ req_pending_q' /\ taken'.who = "tbre" => taken' = ForTbre'
  BY <1>3
<1> QED
  BY <1>2, <1>4 DEF Kept, ForTbre, ForStkz

\* The request on the load-store unit does not change under it, as long as
\* software starts no run of the zeroiser during one: the address register of
\* cheri_stkz.sv takes a start in every state.
THEOREM RequestsHeld == ASSUME ~RestartWhileActive PROVE Spec => []RequestHeld
<1>1. Init => Kept
  BY DEF Init, Kept, WrapperInit, Other
<1>2. EngineInv /\ Kept /\ [Next]_vars => Kept'
  <2> SUFFICES ASSUME EngineInv, Kept, [Next]_vars PROVE Kept'
    OBVIOUS
  <2>1. CASE Next
    <3>1. PICK resp \in BOOLEAN, done \in BOOLEAN, err \in BOOLEAN, go \in BOOLEAN : Cycle(resp, done, err, go)
      BY <2>1 DEF Next
    <3> QED
      BY <3>1, KeptCycle
  <2>2. CASE UNCHANGED vars
    BY <2>2 DEF Kept, vars, tbreVars, stkzVars, wrapperVars, head, stkz_active, stkz_start
  <2> QED
    BY <2>1, <2>2
<1>3. EngineInv /\ Kept => RequestHeld
  <2> SUFFICES ASSUME EngineInv, Kept, lsu.st = "busy", lsu.who = "tbre"
               PROVE  Presented(tbre_lsu_req(FALSE, FALSE)) = taken
    BY DEF RequestHeld
  <2>1. /\ req_pending_q /\ mstr_arbit_q = taken.who
        /\ taken.who \in {"tbre", "stkz"}
    BY DEF EngineInv, Held
  <2>2. mstr_arbit_comb(stkz_lsu_req, tbre_lsu_req(FALSE, FALSE)) = taken.who
    BY <2>1 DEF mstr_arbit_comb
  <2> QED
    BY <2>1, <2>2 DEF Presented, Kept
<1> QED
  BY <1>1, <1>2, <1>3, EnginesInvariance, PTL DEF Spec

===============================================================================
