-------------------------- MODULE TbreSystem_proofs --------------------------
(***************************************************************************)
(* Proofs about revocation sweeps, for every size of the FIFOs, every      *)
(* memory, region and set of capabilities, whatever the CPU stores, loads  *)
(* or frees meanwhile, and whichever requests are answered with errors.    *)
(*                                                                         *)
(* The invariant says where each loaded word and its verdict are: the      *)
(* address is in one FIFO, the word on its way or in the second, the       *)
(* verdict in a stage of the look-up or in the third; all three will meet  *)
(* at one value of the shared read pointer.                                *)
(***************************************************************************)
EXTENDS TbreSystem, Tbre_proofs

Loads == {"none", "rd", "tbre"}

SweepTypes ==
    /\ TbreTypes(LowWords) /\ PortTypeOK
    /\ reserved \in {"none", "rd"} /\ stage0.op \in Loads
    /\ stage1 \in [op : Loads, clr : BOOLEAN] /\ stage2 \in [op : Loads, clr : BOOLEAN]
    /\ mem \in [Granules -> Cells]
    /\ revoked \subseteq CapIds
    /\ id \in CpuOps \cup {Other}
    /\ sweep \in Sweeps
    /\ done_req \in [we : BOOLEAN, cell : Cells, err : BOOLEAN]

\* The engine has its request up, and keeps it up while the unit works on it;
\* so does the CPU.
TbreAsks == tbre_sch = "SCH_LOAD" \/ (tbre_sch = "SCH_STORE" /\ store_req_valid)

Held == lsu.st = "busy" => IF lsu.who = "tbre" THEN TbreAsks ELSE cpu_lsu_dec

\* A load awaits its response; loads that do, words that are being looked up.
Awaiting == lsu.st = "resp" /\ lsu.who = "tbre" /\ ~done_req.we

One(b) == IF b THEN 1 ELSE 0
Answers == One(Awaiting)
Lookups == One(stage0.op = "tbre") + One(stage1.op = "tbre") + One(stage2.op = "tbre")

\* The pointers an entry in the look-up stages 1 and 0 will get, and how the
\* write pointers follow each other.
After(p, b) == IF b THEN Incr(p) ELSE p
Ptr1 == After(shdw_wr_ptr, stage2.op = "tbre")
Ptr0 == After(Ptr1, stage1.op = "tbre")

Chain ==
    /\ cap_wr_ptr = After(Ptr0, stage0.op = "tbre")
    /\ req_wr_ptr = After(cap_wr_ptr, Awaiting)

QueueInv == SweepTypes /\ Held /\ Pointers(Answers, Lookups) /\ Scheduled /\ Chain

\* p is in the FIFO with write pointer w.
InQ(p, w) == Gap(p, rd_ptr) < Gap(w, rd_ptr)

\* An entry that no store of the CPU has struck out has the word that is in memory.
WordsCurrent ==
    /\ \A p \in Ptrs : InQ(p, cap_wr_ptr) /\ req_fifo[Slot(p)].valid =>
          cap_fifo[Slot(p)].word = mem[req_fifo[Slot(p)].addr8].word
    /\ Awaiting /\ req_fifo[Slot(cap_wr_ptr)].valid =>
          done_req.cell.word = mem[req_fifo[Slot(cap_wr_ptr)].addr8].word

\* A verdict to clear is about the word it will meet.
Found(p) == cap_fifo[Slot(p)].word \in Revoked

VerdictsTrue ==
    /\ \A p \in Ptrs : InQ(p, shdw_wr_ptr) /\ shdw_fifo[Slot(p)] => Found(p)
    /\ stage2.op = "tbre" /\ stage2.clr => Found(shdw_wr_ptr)
    /\ stage1.op = "tbre" /\ stage1.clr => Found(Ptr1)
    /\ stage0.op = "tbre" /\ stage0.cap.tag =>
          cap_fifo[Slot(Ptr0)].word \in CapIds /\ stage0.cap = CapOf[cap_fifo[Slot(Ptr0)].word]

\* The entry at p will clear it: a verdict to clear is there, or on its way.
Condemned(p, g) ==
    \/ InQ(p, shdw_wr_ptr) /\ shdw_fifo[Slot(p)]
    \/ p = shdw_wr_ptr /\ stage2.op = "tbre" /\ stage2.clr
    \/ p = Ptr1 /\ stage1.op = "tbre" /\ stage1.clr
    \/ p = Ptr0 /\ stage0.op = "tbre" /\ stage0.cap = CapOf[mem[g].word]

Caught(p, g) ==
    /\ req_fifo[Slot(p)] = [addr8 |-> g, valid |-> TRUE]
    /\ \/ p = cap_wr_ptr /\ Awaiting /\ done_req.cell = mem[g]
       \/ /\ InQ(p, cap_wr_ptr)
          /\ cap_fifo[Slot(p)] = [word |-> mem[g].word, tag |-> TRUE, err |-> FALSE]
          /\ Condemned(p, g)

\* Each claimed capability of the region is yet to be loaded or on its way
\* through the engine.
Tracked ==
    \A g \in sweep.start8 .. sweep.end8 :
        g \in stored \/ g \in struck \/ Reported \/ ~LeftRevoked(g)
        \/ (tbre_fsm = "TBRE_LOAD" /\ cur_load_addr8 <= g)
        \/ \E p \in Ptrs : Caught(p, g)

SweepInv ==
    /\ QueueInv /\ WordsCurrent /\ VerdictsTrue
    /\ claim \subseteq Revoked
    /\ Tracked
    /\ tbre_fsm = "TBRE_IDLE" => req_wr_ptr = rd_ptr

-----------------------------------------------------------------------------
(* Positions in the FIFOs.                                                 *)

\* Two positions less than a FIFO from the read pointer have different slots.
LEMMA SlotsDiffer ==
    ASSUME NEW p \in Ptrs, NEW q \in Ptrs, NEW r \in Ptrs, p # q,
           Gap(p, r) < FifoSize, Gap(q, r) < FifoSize
    PROVE  Slot(p) # Slot(q)
<1>1. FifoSize \in Nat \ {0} /\ p \in 0 .. 2 * FifoSize - 1 /\ q \in 0 .. 2 * FifoSize - 1
      /\ r \in 0 .. 2 * FifoSize - 1
  BY TbreAssumption DEF Ptrs
<1>2. /\ Gap(p, r) = IF p >= r THEN p - r ELSE p - r + 2 * FifoSize
      /\ Gap(q, r) = IF q >= r THEN q - r ELSE q - r + 2 * FifoSize
      /\ Slot(p) = IF p < FifoSize THEN p ELSE p - FifoSize
      /\ Slot(q) = IF q < FifoSize THEN q ELSE q - FifoSize
  BY Modulus
<1> QED
  BY <1>1, <1>2

\* What is in a FIFO after a cycle was in it before or has entered at its
\* write pointer; and it was not popped.
LEMMA Entered ==
    ASSUME NEW p \in Ptrs, NEW w \in Ptrs, NEW r \in Ptrs, NEW push \in BOOLEAN, NEW pop \in BOOLEAN,
           Gap(w, r) <= FifoSize, push => Gap(w, r) < FifoSize, pop => w # r,
           Gap(p, After(r, pop)) < Gap(After(w, push), After(r, pop))
    PROVE  /\ Gap(p, r) < Gap(w, r) \/ (push /\ p = w)
           /\ pop => p # r
<1>1. FifoSize \in Nat \ {0} /\ p \in 0 .. 2 * FifoSize - 1 /\ w \in 0 .. 2 * FifoSize - 1
      /\ r \in 0 .. 2 * FifoSize - 1
  BY TbreAssumption DEF Ptrs
<1>2. After(r, pop) \in Ptrs /\ After(w, push) \in Ptrs
  BY Ring DEF After
<1>3. /\ After(r, pop) = IF pop THEN (IF r = 2 * FifoSize - 1 THEN 0 ELSE r + 1) ELSE r
      /\ After(w, push) = IF push THEN (IF w = 2 * FifoSize - 1 THEN 0 ELSE w + 1) ELSE w
  BY Modulus DEF After
<1> DEFINE r2 == After(r, pop)
           w2 == After(w, push)
<1>4. /\ Gap(p, r) = IF p >= r THEN p - r ELSE p - r + 2 * FifoSize
      /\ Gap(w, r) = IF w >= r THEN w - r ELSE w - r + 2 * FifoSize
      /\ Gap(p, r2) = IF p >= r2 THEN p - r2 ELSE p - r2 + 2 * FifoSize
      /\ Gap(w2, r2) = IF w2 >= r2 THEN w2 - r2 ELSE w2 - r2 + 2 * FifoSize
  BY <1>2, Modulus
<1>5. Gap(p, r2) < Gap(w2, r2)
  OBVIOUS
<1>6. /\ r2 = IF pop THEN (IF r = 2 * FifoSize - 1 THEN 0 ELSE r + 1) ELSE r
      /\ w2 = IF push THEN (IF w = 2 * FifoSize - 1 THEN 0 ELSE w + 1) ELSE w
  BY <1>3
<1> HIDE DEF r2, w2
<1> QED
  BY <1>1, <1>4, <1>5, <1>6

\* What is in a FIFO, or enters it, is in it after the cycle unless it is popped.
LEMMA Stays ==
    ASSUME NEW p \in Ptrs, NEW w \in Ptrs, NEW r \in Ptrs, NEW push \in BOOLEAN, NEW pop \in BOOLEAN,
           Gap(w, r) <= FifoSize, push => Gap(w, r) < FifoSize, pop => w # r,
           Gap(p, r) < Gap(w, r) \/ (push /\ p = w), pop => p # r
    PROVE  Gap(p, After(r, pop)) < Gap(After(w, push), After(r, pop))
<1>1. FifoSize \in Nat \ {0} /\ p \in 0 .. 2 * FifoSize - 1 /\ w \in 0 .. 2 * FifoSize - 1
      /\ r \in 0 .. 2 * FifoSize - 1
  BY TbreAssumption DEF Ptrs
<1>2. After(r, pop) \in Ptrs /\ After(w, push) \in Ptrs
  BY Ring DEF After
<1> DEFINE r2 == After(r, pop)
           w2 == After(w, push)
<1>3. /\ r2 = IF pop THEN (IF r = 2 * FifoSize - 1 THEN 0 ELSE r + 1) ELSE r
      /\ w2 = IF push THEN (IF w = 2 * FifoSize - 1 THEN 0 ELSE w + 1) ELSE w
  BY Modulus DEF After
<1>4. /\ Gap(p, r) = IF p >= r THEN p - r ELSE p - r + 2 * FifoSize
      /\ Gap(w, r) = IF w >= r THEN w - r ELSE w - r + 2 * FifoSize
      /\ Gap(p, r2) = IF p >= r2 THEN p - r2 ELSE p - r2 + 2 * FifoSize
      /\ Gap(w2, r2) = IF w2 >= r2 THEN w2 - r2 ELSE w2 - r2 + 2 * FifoSize
  BY <1>2, Modulus
<1> SUFFICES Gap(p, r2) < Gap(w2, r2)
  OBVIOUS
<1> HIDE DEF r2, w2
<1> QED
  BY <1>1, <1>3, <1>4

-----------------------------------------------------------------------------
(* One cycle, by its signals.                                              *)

TbreResp(resp) == resp /\ lsu.who = "tbre"
TbreGood(resp) == tbre_lsu_req(TbreResp(resp), Add1Wait) /\ ~cpu_lsu_dec
who(resp)      == Server(resp, cpu_lsu_dec, TbreGood(resp))
TbreDone(resp, done) == done /\ who(resp) = "tbre"
CpuDone(resp, done)  == done /\ who(resp) = "cpu"
Snoop(resp, done)    == IF CpuDone(resp, done) /\ IsStore(id) THEN id.g ELSE -1

\* A load is done; a load is answered; the entry at the head leaves the FIFOs.
Load(resp, done) == load_gnt(TbreDone(resp, done))
Loaded(resp)     == TbreResp(resp) /\ ~done_req.we
Pop(resp, done)  == fifo_rd_en(TbreDone(resp, done))

Starts(go) == go /\ tbre_fsm = "TBRE_IDLE"

\* A cycle in these terms.
LEMMA CycleParts ==
    ASSUME NEW resp, NEW done, NEW err, NEW go, Cycle(resp, done, err, go)
    PROVE  /\ err => done
           /\ PortCycle(resp, cpu_lsu_dec, TbreGood(resp), done)
           /\ TbreCycle([go |-> go, start8 |-> sweep.start8, end8 |-> sweep.end8],
                        TbreDone(resp, done), TbreResp(resp), done_req.err, done_req.we,
                        [word |-> done_req.cell.word, tag |-> done_req.cell.lt],
                        Snoop(resp, done), tbre_trvk_en, trvk_clrtag)
           /\ TrvkCycle(IF CpuDone(resp, done) /\ id.op = "clc" THEN "rd" ELSE "none",
                        resp /\ lsu.who = "cpu", done_req.err, Loaded(resp), done_req.err,
                        Holds(done_req.cell), ShadowBits)
           /\ MemUpdate(TbreDone(resp, done), CpuDone(resp, done), err)
           /\ DoneUpdate(TbreDone(resp, done), CpuDone(resp, done), err, resp)
           /\ revoked' = IF CpuDone(resp, done) /\ ~err /\ id.op = "free" THEN revoked \cup {id.c} ELSE revoked
           /\ IF cpu_lsu_dec /\ ~CpuDone(resp, done) THEN id' = id ELSE id' \in CpuOps \cup {Other}
           /\ HistoryUpdate(Starts(go), CpuDone(resp, done) /\ IsStore(id), err)
           /\ claim' = IF Starts(go) THEN Revoked ELSE claim
           /\ sweep' = sweep
  BY DEF Cycle, TbreResp, TbreGood, who, TbreDone, CpuDone, Snoop, Loaded, Starts, HistoryUpdate

\* The signals are Boolean, and the inputs of the engine have their types.
LEMMA Signals ==
    ASSUME SweepTypes, NEW resp \in BOOLEAN, NEW done \in BOOLEAN, NEW go \in BOOLEAN
    PROVE  /\ TbreResp(resp) \in BOOLEAN /\ TbreGood(resp) \in BOOLEAN
           /\ TbreDone(resp, done) \in BOOLEAN /\ CpuDone(resp, done) \in BOOLEAN
           /\ Load(resp, done) \in BOOLEAN /\ Loaded(resp) \in BOOLEAN /\ Pop(resp, done) \in BOOLEAN
           /\ done_req.err \in BOOLEAN /\ done_req.we \in BOOLEAN
           /\ tbre_trvk_en \in BOOLEAN /\ trvk_clrtag \in BOOLEAN
           /\ [go |-> go, start8 |-> sweep.start8, end8 |-> sweep.end8] \in Controls
           /\ [word |-> done_req.cell.word, tag |-> done_req.cell.lt] \in [word : LowWords, tag : BOOLEAN]
<1>1. sweep \in [start8 : 0 .. MaxAddr8, end8 : 0 .. MaxAddr8]
  BY TbreSystemAssumption DEF Granules, SweepTypes
<1>2. [go |-> go, start8 |-> sweep.start8, end8 |-> sweep.end8] \in Controls
  BY <1>1 DEF Controls
<1>3. done_req \in [we : BOOLEAN, cell : Cells, err : BOOLEAN]
  BY DEF SweepTypes
<1>4. [word |-> done_req.cell.word, tag |-> done_req.cell.lt] \in [word : LowWords, tag : BOOLEAN]
  BY <1>3 DEF Cells
<1>5. tbre_trvk_en \in BOOLEAN /\ trvk_clrtag \in BOOLEAN
  BY DEF tbre_trvk_en, trvk_clrtag, SweepTypes
<1>6. /\ TbreResp(resp) \in BOOLEAN /\ TbreGood(resp) \in BOOLEAN
      /\ TbreDone(resp, done) \in BOOLEAN /\ CpuDone(resp, done) \in BOOLEAN
      /\ Load(resp, done) \in BOOLEAN /\ Loaded(resp) \in BOOLEAN /\ Pop(resp, done) \in BOOLEAN
  BY DEF TbreResp, TbreGood, tbre_lsu_req, TbreDone, CpuDone, Load, load_gnt, Loaded, Pop, fifo_rd_en
<1> QED
  BY <1>2, <1>3, <1>4, <1>5, <1>6

\* Who is served.
LEMMA Served ==
    ASSUME PortTypeOK, NEW resp \in BOOLEAN, NEW done \in BOOLEAN,
           PortCycle(resp, cpu_lsu_dec, TbreGood(resp), done)
    PROVE  /\ who(resp) \in {"none", "cpu", "tbre"}
           /\ resp => lsu.st = "resp"
           /\ done => who(resp) # "none"
           /\ lsu.st = "busy" => who(resp) = lsu.who /\ who(resp) # "none"
           /\ lsu.st # "busy" /\ who(resp) = "tbre" => TbreGood(resp)
           /\ lsu.st # "busy" /\ who(resp) = "cpu" => cpu_lsu_dec
           /\ lsu.st = "resp" /\ ~resp => who(resp) = "none"
           /\ who(resp) # "none" => lsu'.st = (IF done THEN "resp" ELSE "busy") /\ lsu'.who = who(resp)
           /\ who(resp) = "none" /\ resp => lsu'.st = "free"
           /\ who(resp) = "none" /\ ~resp => lsu' = lsu
           /\ PortTypeOK'
<1>1. /\ lsu.st \in {"free", "busy", "resp"}
      /\ lsu.st # "free" => lsu.who \in {"cpu", "tbre"}
  BY DEF PortTypeOK, LsuStates, Masters
<1>2. /\ resp => lsu.st = "resp"
      /\ done => who(resp) # "none"
      /\ lsu' = (IF who(resp) # "none" THEN [st |-> IF done THEN "resp" ELSE "busy", who |-> who(resp)]
                 ELSE IF resp THEN LsuFree ELSE lsu)
  BY DEF PortCycle, who
<1>3. /\ lsu.st = "busy" => who(resp) = lsu.who
      /\ lsu.st # "busy" /\ who(resp) = "tbre" => TbreGood(resp)
      /\ lsu.st # "busy" /\ who(resp) = "cpu" => cpu_lsu_dec
      /\ lsu.st = "resp" /\ ~resp => who(resp) = "none"
      /\ who(resp) \in {"none", "cpu", "tbre"}
  BY <1>1 DEF who, Server
<1>4. PortTypeOK'
  BY <1>2, <1>3 DEF PortTypeOK, LsuStates, Masters, LsuFree
<1> QED
  BY <1>1, <1>2, <1>3, <1>4 DEF LsuFree

\* A master that is served has asked for it.
LEMMA Asked ==
    ASSUME QueueInv, NEW resp \in BOOLEAN, NEW done \in BOOLEAN,
           PortCycle(resp, cpu_lsu_dec, TbreGood(resp), done)
    PROVE  /\ who(resp) = "tbre" => TbreAsks
           /\ who(resp) = "cpu" => cpu_lsu_dec
<1>1. PortTypeOK /\ Held
  BY DEF QueueInv, SweepTypes
<1>2. CASE lsu.st = "busy"
  BY <1>1, <1>2, Served DEF Held
<1>3. CASE lsu.st # "busy"
  BY <1>1, <1>3, Served DEF TbreGood, tbre_lsu_req, TbreAsks
<1> QED
  BY <1>2, <1>3

\* What the pipeline and the record of the request awaiting its response are
\* after a cycle.
LEMMA Flow ==
    ASSUME QueueInv, NEW resp \in BOOLEAN, NEW done \in BOOLEAN, NEW err \in BOOLEAN, NEW go \in BOOLEAN,
           Cycle(resp, done, err, go)
    PROVE  /\ stage2' = stage1
           /\ stage1'.op = stage0.op
           /\ stage1'.clr <=> /\ stage0.cap.tag /\ range_ok(stage0.cap)
                              /\ tsmap_ptr(stage0.cap) \in ShadowBits
           /\ stage0'.op = "tbre" <=> Loaded(resp)
           /\ Loaded(resp) => stage0'.cap = IF Holds(done_req.cell).tag /\ ~done_req.err
                                            THEN Holds(done_req.cell) ELSE NoCap
           /\ Loaded(resp) => Awaiting
           /\ Awaiting /\ ~Loaded(resp) =>
                 who(resp) = "none" /\ ~resp /\ ~done /\ lsu' = lsu /\ done_req' = done_req
           /\ Awaiting' <=> Load(resp, done) \/ (Awaiting /\ ~Loaded(resp))
           /\ Load(resp, done) => done_req'.cell = mem[cur_load_addr8] /\ mem' = mem
<1>1. PortCycle(resp, cpu_lsu_dec, TbreGood(resp), done) /\ PortTypeOK
  BY CycleParts DEF QueueInv, SweepTypes
<1>2. TrvkCycle(IF CpuDone(resp, done) /\ id.op = "clc" THEN "rd" ELSE "none",
                resp /\ lsu.who = "cpu", done_req.err, Loaded(resp), done_req.err,
                Holds(done_req.cell), ShadowBits)
  BY CycleParts
<1>3. /\ stage2' = stage1 /\ stage1'.op = stage0.op
      /\ stage1'.clr <=> /\ stage0.cap.tag /\ range_ok(stage0.cap)
                         /\ tsmap_ptr(stage0.cap) \in ShadowBits
  BY <1>2 DEF TrvkCycle
<1>4. /\ stage0'.op = trvk_op(resp /\ lsu.who = "cpu", Loaded(resp))
      /\ stage0'.cap = IF cap_good(resp /\ lsu.who = "cpu", done_req.err, Loaded(resp), done_req.err,
                                   Holds(done_req.cell))
                       THEN Holds(done_req.cell) ELSE NoCap
  BY <1>2 DEF TrvkCycle
<1>5. stage0'.op = "tbre" <=> Loaded(resp)
  <2>1. reserved \in {"none", "rd"}
    BY DEF QueueInv, SweepTypes
  <2> QED
    BY <1>4, <2>1 DEF trvk_op, Loaded, TbreResp
<1>6. ASSUME Loaded(resp)
      PROVE  stage0'.cap = IF Holds(done_req.cell).tag /\ ~done_req.err THEN Holds(done_req.cell) ELSE NoCap
  BY <1>4, <1>6 DEF cap_good, Loaded, TbreResp
<1>7. Loaded(resp) => Awaiting
  BY <1>1, Served DEF Loaded, TbreResp, Awaiting
<1>8. DoneUpdate(TbreDone(resp, done), CpuDone(resp, done), err, resp)
  BY CycleParts
<1>9. ASSUME Awaiting, ~Loaded(resp)
      PROVE  who(resp) = "none" /\ ~resp /\ ~done /\ lsu' = lsu /\ done_req' = done_req
  <2>1. ~resp
    BY <1>9 DEF Awaiting, Loaded, TbreResp
  <2>2. who(resp) = "none" /\ ~done
    BY <1>1, <1>9, <2>1, Served DEF Awaiting
  <2>3. lsu' = lsu
    BY <1>1, <2>1, <2>2, Served
  <2>4. done_req' = done_req
    BY <1>8, <2>1, <2>2 DEF DoneUpdate, TbreDone, CpuDone
  <2> QED
    BY <2>1, <2>2, <2>3, <2>4
<1>10. ASSUME TbreDone(resp, done) PROVE /\ done_req'.we <=> tbre_sch = "SCH_STORE"
                                         /\ lsu'.st = "resp" /\ lsu'.who = "tbre"
                                         /\ tbre_sch = "SCH_LOAD" \/ tbre_sch = "SCH_STORE"
  <2>1. done_req'.we <=> tbre_sch = "SCH_STORE"
    BY <1>8, <1>10 DEF DoneUpdate
  <2>2. lsu'.st = "resp" /\ lsu'.who = "tbre"
    BY <1>1, <1>10, Served DEF TbreDone
  <2>3. TbreAsks
    BY <1>1, <1>10, Asked DEF TbreDone
  <2> QED
    BY <2>1, <2>2, <2>3 DEF TbreAsks
<1>11. Awaiting' <=> Load(resp, done) \/ (Awaiting /\ ~Loaded(resp))
  <2>1. CASE TbreDone(resp, done)
    <3>1. Awaiting' <=> Load(resp, done)
      BY <1>10, <2>1 DEF Awaiting, Load, load_gnt
    <3>2. Awaiting => Loaded(resp)
      BY <1>9, <2>1 DEF TbreDone
    <3> QED
      BY <3>1, <3>2
  <2>2. CASE ~TbreDone(resp, done)
    <3>1. ~Load(resp, done)
      BY <2>2 DEF Load, load_gnt
    <3>2. CASE Awaiting /\ ~Loaded(resp)
      BY <1>9, <3>2 DEF Awaiting
    <3>3. CASE ~(Awaiting /\ ~Loaded(resp))
      <4>1. CASE who(resp) # "none"
        BY <1>1, <2>2, <3>1, <3>3, <4>1, Served DEF TbreDone, Awaiting
      <4>2. CASE who(resp) = "none" /\ resp
        BY <1>1, <3>1, <3>3, <4>2, Served DEF Awaiting
      <4>3. CASE who(resp) = "none" /\ ~resp
        <5>1. lsu' = lsu /\ done_req' = done_req
          BY <1>1, <1>8, <4>3, Served DEF DoneUpdate, TbreDone, CpuDone
        <5>2. ~Awaiting
          BY <3>3, <4>3 DEF Loaded, TbreResp
        <5> QED
          BY <3>1, <5>1, <5>2 DEF Awaiting
      <4> QED
        BY <4>1, <4>2, <4>3
    <3> QED
      BY <3>2, <3>3
  <2> QED
    BY <2>1, <2>2
<1>12. ASSUME Load(resp, done) PROVE done_req'.cell = mem[cur_load_addr8] /\ mem' = mem
  <2>1. TbreDone(resp, done) /\ ~CpuDone(resp, done) /\ tbre_sch = "SCH_LOAD"
    BY <1>12 DEF Load, load_gnt, TbreDone, CpuDone
  <2>2. MemUpdate(TbreDone(resp, done), CpuDone(resp, done), err)
    BY CycleParts
  <2> QED
    BY <1>8, <2>1, <2>2 DEF DoneUpdate, MemUpdate
<1> QED
  BY <1>3, <1>5, <1>6, <1>7, <1>9, <1>11, <1>12

\* How the pointers move.
LEMMA Moves ==
    ASSUME NEW resp \in BOOLEAN, NEW done \in BOOLEAN, NEW err \in BOOLEAN, NEW go \in BOOLEAN,
           Cycle(resp, done, err, go)
    PROVE  /\ req_wr_ptr' = After(req_wr_ptr, Load(resp, done))
           /\ cap_wr_ptr' = After(cap_wr_ptr, Loaded(resp))
           /\ shdw_wr_ptr' = After(shdw_wr_ptr, tbre_trvk_en)
           /\ rd_ptr' = After(rd_ptr, Pop(resp, done))
<1>1. TbreCycle([go |-> go, start8 |-> sweep.start8, end8 |-> sweep.end8],
                TbreDone(resp, done), TbreResp(resp), done_req.err, done_req.we,
                [word |-> done_req.cell.word, tag |-> done_req.cell.lt],
                Snoop(resp, done), tbre_trvk_en, trvk_clrtag)
  BY CycleParts
<1> QED
  BY <1>1 DEF TbreCycle, ReqFifoUpdate, CapFifoUpdate, ShdwFifoUpdate, After, Load, Loaded, Pop

\* The pointers keep following each other.
LEMMA ChainStep ==
    ASSUME QueueInv, NEW resp \in BOOLEAN, NEW done \in BOOLEAN, NEW err \in BOOLEAN, NEW go \in BOOLEAN,
           Cycle(resp, done, err, go)
    PROVE  Chain' /\ shdw_wr_ptr' = Ptr1 /\ Ptr1' = Ptr0 /\ Ptr0' = cap_wr_ptr
<1>1. Chain
  BY DEF QueueInv
<1>2. shdw_wr_ptr' = Ptr1
  BY Moves DEF Ptr1, tbre_trvk_en
<1>3. Ptr1' = Ptr0
  BY <1>2, Flow DEF Ptr1, Ptr0, After
<1>4. Ptr0' = cap_wr_ptr
  BY <1>1, <1>3, Flow DEF Ptr0, Chain, After
<1>5. cap_wr_ptr' = After(Ptr0', stage0'.op = "tbre")
  BY <1>4, Moves, Flow DEF After
<1>6. req_wr_ptr' = After(cap_wr_ptr', Awaiting')
  <2>1. CASE Loaded(resp)
    <3>1. cap_wr_ptr' = req_wr_ptr
      BY <1>1, <2>1, Moves, Flow DEF Chain, After
    <3> QED
      BY <2>1, <3>1, Moves, Flow DEF After
  <2>2. CASE ~Loaded(resp)
    <3>1. cap_wr_ptr' = cap_wr_ptr
      BY <2>2, Moves DEF After
    <3>2. CASE Awaiting
      <4>1. ~Load(resp, done)
        BY <2>2, <3>2, Flow DEF Load, load_gnt, TbreDone
      <4> QED
        BY <1>1, <2>2, <3>1, <3>2, <4>1, Moves, Flow DEF Chain, After
    <3>3. CASE ~Awaiting
      BY <1>1, <3>1, <3>3, Moves, Flow DEF Chain, After
    <3> QED
      BY <3>2, <3>3
  <2> QED
    BY <2>1, <2>2
<1> QED
  BY <1>2, <1>3, <1>4, <1>5, <1>6 DEF Chain

\* The engine's cycle, with its inputs named.
LEMMA TbrePart ==
    ASSUME QueueInv, NEW resp \in BOOLEAN, NEW done \in BOOLEAN, NEW err \in BOOLEAN, NEW go \in BOOLEAN,
           Cycle(resp, done, err, go)
    PROVE  \E ctrl \in Controls, rdata \in [word : LowWords, tag : BOOLEAN], snoop \in {Snoop(resp, done)} :
              TbreCycle(ctrl, TbreDone(resp, done), TbreResp(resp), done_req.err, done_req.we, rdata,
                        snoop, tbre_trvk_en, trvk_clrtag)
<1> DEFINE ctrl == [go |-> go, start8 |-> sweep.start8, end8 |-> sweep.end8]
           rdata == [word |-> done_req.cell.word, tag |-> done_req.cell.lt]
<1>1. ctrl \in Controls /\ rdata \in [word : LowWords, tag : BOOLEAN]
  BY Signals DEF QueueInv
<1>2. TbreCycle(ctrl, TbreDone(resp, done), TbreResp(resp), done_req.err, done_req.we, rdata,
                Snoop(resp, done), tbre_trvk_en, trvk_clrtag)
  BY CycleParts
<1> HIDE DEF ctrl, rdata
<1> QED
  BY <1>1, <1>2

\* The loads in flight, before and after a cycle.
LEMMA Counted ==
    ASSUME QueueInv, NEW resp \in BOOLEAN, NEW done \in BOOLEAN, NEW err \in BOOLEAN, NEW go \in BOOLEAN,
           Cycle(resp, done, err, go)
    PROVE  /\ Answers \in Nat /\ Lookups \in Nat
           /\ Loaded(resp) => Answers > 0
           /\ tbre_trvk_en => Lookups > 0
           /\ Answers' = Answers + (IF Load(resp, done) THEN 1 ELSE 0) - (IF Loaded(resp) THEN 1 ELSE 0)
           /\ Lookups' = Lookups + (IF Loaded(resp) THEN 1 ELSE 0) - (IF tbre_trvk_en THEN 1 ELSE 0)
<1>1. Answers \in Nat /\ Lookups \in Nat
  BY DEF Answers, Lookups, One
<1>2. Loaded(resp) => Answers > 0
  BY Flow DEF Answers, One
<1>3. tbre_trvk_en => Lookups > 0
  BY DEF tbre_trvk_en, Lookups, One
<1>4. Awaiting /\ ~Loaded(resp) => ~Load(resp, done)
  BY Flow DEF Load, load_gnt, TbreDone
<1>5. Answers' = Answers + (IF Load(resp, done) THEN 1 ELSE 0) - (IF Loaded(resp) THEN 1 ELSE 0)
  BY <1>4, Flow DEF Answers, One
<1>6. Lookups' = One(Loaded(resp)) + One(stage0.op = "tbre") + One(stage1.op = "tbre")
  BY Flow DEF Lookups, One
<1>7. Lookups' = Lookups + (IF Loaded(resp) THEN 1 ELSE 0) - (IF tbre_trvk_en THEN 1 ELSE 0)
  BY <1>6 DEF Lookups, One, tbre_trvk_en
<1> QED
  BY <1>1, <1>2, <1>3, <1>5, <1>7

\* The engine, its FIFOs and the loads in flight.
LEMMA QueuesCycle ==
    ASSUME QueueInv, NEW resp \in BOOLEAN, NEW done \in BOOLEAN, NEW err \in BOOLEAN, NEW go \in BOOLEAN,
           Cycle(resp, done, err, go)
    PROVE  TbreTypes(LowWords)' /\ Pointers(Answers, Lookups)' /\ Scheduled'
<1>1. PICK ctrl \in Controls, rdata \in [word : LowWords, tag : BOOLEAN], snoop \in {Snoop(resp, done)} :
         TbreCycle(ctrl, TbreDone(resp, done), TbreResp(resp), done_req.err, done_req.we, rdata,
                   snoop, tbre_trvk_en, trvk_clrtag)
  BY TbrePart
<1>2. TbreTypes(LowWords) /\ Pointers(Answers, Lookups) /\ Scheduled /\ SweepTypes
  BY DEF QueueInv, SweepTypes
<1>3. /\ TbreDone(resp, done) \in BOOLEAN /\ TbreResp(resp) \in BOOLEAN
      /\ done_req.err \in BOOLEAN /\ done_req.we \in BOOLEAN
      /\ tbre_trvk_en \in BOOLEAN /\ trvk_clrtag \in BOOLEAN
  BY <1>2, Signals
<1>4. TbreTypes(LowWords)'
  <2>1. PICK W : W = LowWords
    OBVIOUS
  <2>2. TbreTypes(W) /\ rdata \in [word : W, tag : BOOLEAN]
    BY <1>2, <2>1
  <2>3. TbreTypes(W)'
    BY <1>1, <1>3, <2>2, TbreTypesStep
  <2> QED
    BY <2>1, <2>3 DEF TbreTypes, LowWords
<1>5. PICK a, v, a2, v2, W : a = Answers /\ v = Lookups /\ a2 = Answers' /\ v2 = Lookups' /\ W = LowWords
  OBVIOUS
<1>6. PICK d \in BOOLEAN, r \in BOOLEAN, w \in BOOLEAN, e \in BOOLEAN :
         (d <=> TbreDone(resp, done)) /\ (r <=> TbreResp(resp)) /\ (w <=> done_req.we) /\ (e <=> tbre_trvk_en)
  BY <1>3
<1>7. InStep(req_wr_ptr', cap_wr_ptr', shdw_wr_ptr', rd_ptr', a2, v2) /\ Scheduled'
  <2>1. PICK k, x, data, s, c : TbreCycle(k, d, r, x, w, data, s, e, c)
    BY <1>1, <1>3, <1>6
  <2>2. (load_gnt(d) <=> Load(resp, done)) /\ (r /\ ~w <=> Loaded(resp))
    BY <1>6 DEF load_gnt, Load, Loaded
  <2>3. /\ a2 = a + (IF load_gnt(d) THEN 1 ELSE 0) - (IF r /\ ~w THEN 1 ELSE 0)
        /\ v2 = v + (IF r /\ ~w THEN 1 ELSE 0) - (IF e THEN 1 ELSE 0)
        /\ r /\ ~w => a > 0
        /\ e => v > 0
        /\ a \in Nat /\ v \in Nat
    BY <1>5, <1>6, <2>2, Counted
  <2>4. Pointers(a, v) /\ Scheduled /\ TbreTypes(W)
    BY <1>2, <1>5
  <2>5. /\ InStep(req_wr_ptr', cap_wr_ptr', shdw_wr_ptr', rd_ptr',
                  a + (IF load_gnt(d) THEN 1 ELSE 0) - (IF r /\ ~w THEN 1 ELSE 0),
                  v + (IF r /\ ~w THEN 1 ELSE 0) - (IF e THEN 1 ELSE 0))
        /\ Scheduled'
    BY <2>1, <2>3, <2>4, QueuesAdvance
  <2> QED
    BY <2>3, <2>5
<1>8. Pointers(Answers, Lookups)'
  BY <1>5, <1>7 DEF Pointers
<1> QED
  BY <1>4, <1>7, <1>8

\* The granules the CPU's instructions name.
LEMMA CpuInstr ==
    ASSUME SweepTypes
    PROVE  /\ cpu_lsu_dec => id \in CpuOps
           /\ IsStore(id) => id.g \in Granules /\ (id.op = "csc" => id.c \in CapIds)
           /\ id.op = "clc" => id.g \in Granules
           /\ id.op = "free" => id.c \in CapIds
<1>1. id # Other => id \in CpuOps
  BY DEF SweepTypes
<1>2. cpu_lsu_dec => id \in CpuOps
  BY <1>1 DEF cpu_lsu_dec, Other
<1>3. id \in CpuOps => \/ id \in [op : {"clc", "swl", "swm"}, g : Granules]
                       \/ id \in [op : {"csc"}, g : Granules, c : CapIds]
                       \/ id \in [op : {"free"}, c : CapIds]
  BY TbreSystemAssumption
<1> QED
  BY <1>1, <1>2, <1>3 DEF IsStore, Other

\* What a cycle does to memory: a store of the CPU that is snooped, or an
\* invalidating store for the entry at the head.
LEMMA MemoryStep ==
    ASSUME QueueInv, NEW resp \in BOOLEAN, NEW done \in BOOLEAN, NEW err \in BOOLEAN, NEW go \in BOOLEAN,
           Cycle(resp, done, err, go)
    PROVE  \/ mem' = mem /\ ~(store_gnt(TbreDone(resp, done)) /\ ~err)
           \/ /\ CpuDone(resp, done) /\ ~err /\ IsStore(id) /\ Snoop(resp, done) = id.g /\ id.g \in Granules
              /\ mem' = [mem EXCEPT ![id.g] = Stored(id, @)]
              /\ Stored(id, mem[id.g]) \in Cells
           \/ /\ store_gnt(TbreDone(resp, done)) /\ ~err /\ store_req_valid
              /\ req_fifo[head].addr8 \in Granules
              /\ mem' = [mem EXCEPT ![req_fifo[head].addr8] = Invalidated(@)]
              /\ Invalidated(mem[req_fifo[head].addr8]) \in Cells
              /\ ~CpuDone(resp, done)
<1>1. MemUpdate(TbreDone(resp, done), CpuDone(resp, done), err) /\ SweepTypes
      /\ PortCycle(resp, cpu_lsu_dec, TbreGood(resp), done)
  BY CycleParts DEF QueueInv
<1>2. mem \in [Granules -> Cells] /\ "data" \in LowWords /\ CapIds \subseteq LowWords
  BY <1>1 DEF SweepTypes, LowWords
<1>3. CASE TbreDone(resp, done) /\ ~err /\ tbre_sch = "SCH_STORE"
  <2>1. TbreAsks
    BY <1>1, <1>3, Asked DEF TbreDone
  <2>2. store_gnt(TbreDone(resp, done)) /\ store_req_valid /\ ~CpuDone(resp, done)
    BY <1>3, <2>1 DEF TbreAsks, store_gnt, TbreDone, CpuDone
  <2>3. TbreTypes(LowWords) /\ rd_ptr \in Ptrs
    BY <1>1 DEF SweepTypes, TbreTypes
  <2>4. head \in Slots
    BY <2>3, Ring DEF head
  <2>5. req_fifo[head].addr8 \in Granules /\ cap_fifo[head].word \in LowWords
    BY <2>3, <2>4 DEF TbreTypes, Granules
  <2>6. Invalidated(mem[req_fifo[head].addr8]) \in Cells
    BY <1>2, <2>5 DEF Invalidated, Cells
  <2>7. mem' = [mem EXCEPT ![req_fifo[head].addr8] = Invalidated(@)]
    BY <1>1, <1>3 DEF MemUpdate
  <2> QED
    BY <1>3, <2>2, <2>5, <2>6, <2>7
<1>4. CASE ~(TbreDone(resp, done) /\ ~err /\ tbre_sch = "SCH_STORE") /\ CpuDone(resp, done) /\ ~err /\ IsStore(id)
  <2>1. id.g \in Granules /\ (id.op = "csc" => id.c \in CapIds)
    BY <1>1, <1>4, CpuInstr
  <2>2. Stored(id, mem[id.g]) \in Cells
    BY <1>2, <2>1 DEF Stored, Cells
  <2>3. mem' = [mem EXCEPT ![id.g] = Stored(id, @)]
    BY <1>1, <1>4 DEF MemUpdate
  <2> QED
    BY <1>4, <2>1, <2>2, <2>3 DEF Snoop
<1>5. CASE ~(TbreDone(resp, done) /\ ~err /\ tbre_sch = "SCH_STORE") /\ ~(CpuDone(resp, done) /\ ~err /\ IsStore(id))
  BY <1>1, <1>5 DEF MemUpdate, store_gnt
<1> QED
  BY <1>3, <1>4, <1>5

\* Where the pointers are.
LEMMA Positions ==
    ASSUME QueueInv
    PROVE  /\ req_wr_ptr \in Ptrs /\ cap_wr_ptr \in Ptrs /\ shdw_wr_ptr \in Ptrs /\ rd_ptr \in Ptrs
           /\ Ptr1 \in Ptrs /\ Ptr0 \in Ptrs
           /\ Gap(shdw_wr_ptr, rd_ptr) \in Nat /\ Gap(cap_wr_ptr, rd_ptr) \in Nat /\ Gap(req_wr_ptr, rd_ptr) \in Nat
           /\ Gap(shdw_wr_ptr, rd_ptr) <= Gap(cap_wr_ptr, rd_ptr)
           /\ Gap(cap_wr_ptr, rd_ptr) <= Gap(req_wr_ptr, rd_ptr)
           /\ Gap(req_wr_ptr, rd_ptr) <= FifoSize
           /\ Awaiting => InQ(cap_wr_ptr, req_wr_ptr)
           /\ stage2.op = "tbre" => InQ(shdw_wr_ptr, cap_wr_ptr)
           /\ stage1.op = "tbre" => InQ(Ptr1, cap_wr_ptr)
           /\ stage0.op = "tbre" => InQ(Ptr0, cap_wr_ptr)
           /\ shdw_wr_ptr # rd_ptr => Ptr1 # rd_ptr /\ Ptr0 # rd_ptr
<1> DEFINE R == Gap(req_wr_ptr, rd_ptr)
           C == Gap(cap_wr_ptr, rd_ptr)
           S == Gap(shdw_wr_ptr, rd_ptr)
           n2 == One(stage2.op = "tbre")
           n1 == One(stage1.op = "tbre")
           n0 == One(stage0.op = "tbre")
<1>1. FifoSize \in Nat \ {0} /\ req_wr_ptr \in Ptrs /\ cap_wr_ptr \in Ptrs /\ shdw_wr_ptr \in Ptrs /\ rd_ptr \in Ptrs
  BY TbreAssumption DEF QueueInv, SweepTypes, TbreTypes
<1>2. Ptr1 \in Ptrs /\ Ptr0 \in Ptrs
  BY <1>1, Ring DEF Ptr1, Ptr0, After
<1>3. R \in Nat /\ C \in Nat /\ S \in Nat
  BY <1>1, Apart
<1>4. R = C + Answers /\ C = S + Lookups /\ R <= FifoSize
  BY DEF QueueInv, Pointers, InStep
<1>5. /\ n2 \in {0, 1} /\ n1 \in {0, 1} /\ n0 \in {0, 1} /\ Answers \in {0, 1} /\ Lookups = n0 + n1 + n2
      /\ stage2.op = "tbre" <=> n2 = 1
      /\ stage1.op = "tbre" <=> n1 = 1
      /\ stage0.op = "tbre" <=> n0 = 1
      /\ Awaiting <=> Answers = 1
  BY DEF Lookups, Answers, One
<1> HIDE DEF R, C, S, n2, n1, n0
<1>6. S + n0 + n1 + n2 <= FifoSize
  BY <1>1, <1>3, <1>4, <1>5
<1>7. Gap(Ptr1, rd_ptr) = S + n2
  <2>1. CASE stage2.op = "tbre"
    <3>1. S < 2 * FifoSize - 1
      BY <1>1, <1>3, <1>5, <1>6, <2>1
    <3> QED
      BY <1>1, <1>5, <2>1, <3>1, GapMoves DEF Ptr1, After, S
  <2>2. CASE stage2.op # "tbre"
    BY <1>3, <1>5, <2>2 DEF Ptr1, After, S
  <2> QED
    BY <2>1, <2>2
<1>8. Gap(Ptr0, rd_ptr) = S + n2 + n1
  <2>1. CASE stage1.op = "tbre"
    <3>1. S + n2 < 2 * FifoSize - 1
      BY <1>1, <1>3, <1>5, <1>6, <2>1
    <3> QED
      BY <1>1, <1>2, <1>5, <1>7, <2>1, <3>1, GapMoves DEF Ptr0, After
  <2>2. CASE stage1.op # "tbre"
    BY <1>3, <1>5, <1>7, <2>2 DEF Ptr0, After
  <2> QED
    BY <2>1, <2>2
<1>9. /\ Awaiting => C < R
      /\ stage2.op = "tbre" => S < C
      /\ stage1.op = "tbre" => Gap(Ptr1, rd_ptr) < C
      /\ stage0.op = "tbre" => Gap(Ptr0, rd_ptr) < C
      /\ S <= C /\ C <= R
  BY <1>3, <1>4, <1>5, <1>7, <1>8
<1>10. shdw_wr_ptr # rd_ptr => Ptr1 # rd_ptr /\ Ptr0 # rd_ptr
  <2>1. shdw_wr_ptr # rd_ptr => S \in Nat \ {0}
    BY <1>1, Apart DEF S
  <2>2. shdw_wr_ptr # rd_ptr => Gap(Ptr1, rd_ptr) # 0 /\ Gap(Ptr0, rd_ptr) # 0
    BY <1>5, <1>7, <1>8, <2>1
  <2> QED
    BY <1>1, <1>2, <2>2, Ring
<1> QED
  BY <1>1, <1>2, <1>3, <1>4, <1>9, <1>10 DEF R, C, S, InQ

\* When entries enter and leave the FIFOs there is room, and something to take.
LEMMA Room ==
    ASSUME QueueInv, NEW resp \in BOOLEAN, NEW done \in BOOLEAN, NEW err \in BOOLEAN, NEW go \in BOOLEAN,
           Cycle(resp, done, err, go)
    PROVE  /\ Load(resp, done) => Gap(req_wr_ptr, rd_ptr) < FifoSize
           /\ Loaded(resp) => Gap(cap_wr_ptr, rd_ptr) < FifoSize
           /\ tbre_trvk_en => Gap(shdw_wr_ptr, rd_ptr) < FifoSize
           /\ Pop(resp, done) => req_wr_ptr # rd_ptr /\ cap_wr_ptr # rd_ptr /\ shdw_wr_ptr # rd_ptr
           /\ Gap(cap_wr_ptr, rd_ptr) <= FifoSize /\ Gap(shdw_wr_ptr, rd_ptr) <= FifoSize
<1>1. Load(resp, done) => Gap(req_wr_ptr, rd_ptr) < FifoSize
  BY DEF Load, load_gnt, QueueInv, Scheduled
<1>2. Pop(resp, done) => req_wr_ptr # rd_ptr /\ cap_wr_ptr # rd_ptr /\ shdw_wr_ptr # rd_ptr
  BY DEF Pop, fifo_rd_en, fifo_not_empty
<1>3. /\ Gap(shdw_wr_ptr, rd_ptr) \in Nat /\ Gap(cap_wr_ptr, rd_ptr) \in Nat /\ Gap(req_wr_ptr, rd_ptr) \in Nat
      /\ Gap(shdw_wr_ptr, rd_ptr) <= Gap(cap_wr_ptr, rd_ptr)
      /\ Gap(cap_wr_ptr, rd_ptr) <= Gap(req_wr_ptr, rd_ptr)
      /\ Gap(req_wr_ptr, rd_ptr) <= FifoSize /\ FifoSize \in Nat
  BY Positions, TbreAssumption
<1>4. Loaded(resp) => Gap(cap_wr_ptr, rd_ptr) < Gap(req_wr_ptr, rd_ptr)
  BY Flow, Positions DEF InQ
<1>5. tbre_trvk_en => Gap(shdw_wr_ptr, rd_ptr) < Gap(cap_wr_ptr, rd_ptr)
  BY Positions DEF InQ, tbre_trvk_en
<1> QED
  BY <1>1, <1>2, <1>3, <1>4, <1>5

\* A request that waits stays up.
LEMMA HeldStep ==
    ASSUME QueueInv, NEW resp \in BOOLEAN, NEW done \in BOOLEAN, NEW err \in BOOLEAN, NEW go \in BOOLEAN,
           Cycle(resp, done, err, go)
    PROVE  Held'
<1> SUFFICES ASSUME lsu'.st = "busy"
             PROVE  IF lsu'.who = "tbre" THEN TbreAsks' ELSE cpu_lsu_dec'
  BY DEF Held
<1>1. PortCycle(resp, cpu_lsu_dec, TbreGood(resp), done) /\ PortTypeOK
  BY CycleParts DEF QueueInv, SweepTypes
<1>2. who(resp) = "none" /\ ~resp => who(resp) = lsu'.who
  BY <1>1, Served
<1>3. who(resp) \in {"cpu", "tbre"} /\ lsu'.who = who(resp) /\ ~done
  BY <1>1, <1>2, Served
<1>4. CASE who(resp) = "cpu"
  <2>1. cpu_lsu_dec /\ ~CpuDone(resp, done)
    BY <1>1, <1>3, <1>4, Asked DEF CpuDone
  <2>2. id' = id
    BY <2>1, CycleParts
  <2> QED
    BY <1>3, <1>4, <2>1, <2>2 DEF cpu_lsu_dec
<1>5. CASE who(resp) = "tbre"
  <2>1. TbreAsks /\ ~TbreDone(resp, done) /\ Snoop(resp, done) = -1
    BY <1>1, <1>3, <1>5, Asked DEF TbreDone, CpuDone, Snoop
  <2>2. PICK ctrl \in Controls, rdata \in [word : LowWords, tag : BOOLEAN], snoop \in {Snoop(resp, done)} :
           TbreCycle(ctrl, TbreDone(resp, done), TbreResp(resp), done_req.err, done_req.we, rdata,
                     snoop, tbre_trvk_en, trvk_clrtag)
    BY TbrePart
  <2>3. TbreDone(resp, done) \in BOOLEAN /\ TbreResp(resp) \in BOOLEAN /\ done_req.we \in BOOLEAN
        /\ tbre_trvk_en \in BOOLEAN
    BY Signals DEF QueueInv
  <2>4. PICK a, v, W : a = Answers /\ v = Lookups /\ W = LowWords
    OBVIOUS
  <2>5. PICK d \in BOOLEAN, r \in BOOLEAN, w \in BOOLEAN, e \in BOOLEAN :
           (d <=> TbreDone(resp, done)) /\ (r <=> TbreResp(resp)) /\ (w <=> done_req.we) /\ (e <=> tbre_trvk_en)
    BY <2>3
  <2>6. PICK x, c : TbreCycle(ctrl, d, r, x, w, rdata, snoop, e, c)
    BY <2>2, <2>3, <2>5
  <2>7. /\ a \in Nat /\ v \in Nat /\ (r /\ ~w => a > 0) /\ (e => v > 0)
    BY <2>4, <2>5, Counted DEF Loaded
  <2>8. Pointers(a, v) /\ Scheduled /\ TbreTypes(W)
    BY <2>4 DEF QueueInv, SweepTypes
  <2>9. ~d /\ snoop = -1
    BY <2>1, <2>2, <2>5
  <2>10. /\ tbre_sch = "SCH_LOAD" => tbre_sch' = "SCH_LOAD"
         /\ tbre_sch = "SCH_STORE" /\ store_req_valid => tbre_sch' = "SCH_STORE" /\ store_req_valid'
    BY <2>6, <2>7, <2>8, <2>9, RequestKept, SMTT(60)
  <2> QED
    BY <1>3, <1>5, <2>1, <2>10 DEF TbreAsks
<1> QED
  BY <1>3, <1>4, <1>5

\* Types are kept.
LEMMA TypesStep ==
    ASSUME QueueInv, NEW resp \in BOOLEAN, NEW done \in BOOLEAN, NEW err \in BOOLEAN, NEW go \in BOOLEAN,
           Cycle(resp, done, err, go)
    PROVE  SweepTypes'
<1>1. SweepTypes
  BY DEF QueueInv
<1>2. TbreTypes(LowWords)' /\ PortTypeOK'
  <2>1. PortCycle(resp, cpu_lsu_dec, TbreGood(resp), done) /\ PortTypeOK
    BY CycleParts DEF QueueInv, SweepTypes
  <2> QED
    BY <2>1, QueuesCycle, Served
<1>3. mem' \in [Granules -> Cells]
  <2>1. mem \in [Granules -> Cells]
    BY <1>1 DEF SweepTypes
  <2> QED
    BY <2>1, MemoryStep
<1>4. /\ reserved' \in {"none", "rd"} /\ stage0'.op \in Loads
      /\ stage1' \in [op : Loads, clr : BOOLEAN] /\ stage2' \in [op : Loads, clr : BOOLEAN]
  <2>1. TrvkCycle(IF CpuDone(resp, done) /\ id.op = "clc" THEN "rd" ELSE "none",
                  resp /\ lsu.who = "cpu", done_req.err, Loaded(resp), done_req.err,
                  Holds(done_req.cell), ShadowBits)
    BY CycleParts
  <2>2. /\ reserved \in {"none", "rd"} /\ stage0.op \in Loads
        /\ stage1 \in [op : Loads, clr : BOOLEAN]
    BY <1>1 DEF SweepTypes
  <2>3. stage1' \in [op : Loads, clr : BOOLEAN] /\ stage2' \in [op : Loads, clr : BOOLEAN]
    BY <2>1, <2>2 DEF TrvkCycle
  <2>4. stage0'.op \in Loads /\ reserved' \in {"none", "rd"}
    BY <2>1, <2>2 DEF TrvkCycle, trvk_op, Loads
  <2> QED
    BY <2>3, <2>4
<1>5. revoked' \subseteq CapIds
  BY <1>1, CycleParts, CpuInstr DEF SweepTypes
<1>6. id' \in CpuOps \cup {Other} /\ sweep' \in Sweeps
  BY <1>1, CycleParts DEF SweepTypes
<1>7. done_req' \in [we : BOOLEAN, cell : Cells, err : BOOLEAN]
  <2>1. DoneUpdate(TbreDone(resp, done), CpuDone(resp, done), err, resp)
    BY CycleParts
  <2>2. Quiet \in [we : BOOLEAN, cell : Cells, err : BOOLEAN] /\ Quiet.cell \in Cells
    BY DEF Quiet, Cells, LowWords
  <2>3. mem[cur_load_addr8] \in Cells
    BY <1>1 DEF SweepTypes, TbreTypes, Granules
  <2>4. id.op = "clc" => mem[id.g] \in Cells
    BY <1>1, CpuInstr DEF SweepTypes
  <2>5. done_req \in [we : BOOLEAN, cell : Cells, err : BOOLEAN]
    BY <1>1 DEF SweepTypes
  <2> HIDE DEF Quiet
  <2> QED
    BY <2>1, <2>2, <2>3, <2>4, <2>5 DEF DoneUpdate
<1> QED
  BY <1>2, <1>3, <1>4, <1>5, <1>6, <1>7 DEF SweepTypes, Granules, Cells, LowWords, Loads, Other

\* The FIFOs and the loads in flight, together.
LEMMA QueueStep ==
    ASSUME QueueInv, NEW resp \in BOOLEAN, NEW done \in BOOLEAN, NEW err \in BOOLEAN, NEW go \in BOOLEAN,
           Cycle(resp, done, err, go)
    PROVE  QueueInv'
  BY TypesStep, HeldStep, QueuesCycle, ChainStep DEF QueueInv

-----------------------------------------------------------------------------
(* Entries of the FIFOs.                                                   *)

\* What is in the FIFOs of words and of verdicts after a cycle.
LEMMA QueueEntered ==
    ASSUME QueueInv, NEW resp \in BOOLEAN, NEW done \in BOOLEAN, NEW err \in BOOLEAN, NEW go \in BOOLEAN,
           Cycle(resp, done, err, go), NEW p \in Ptrs
    PROVE  /\ InQ(p, cap_wr_ptr)' => InQ(p, cap_wr_ptr) \/ (Loaded(resp) /\ p = cap_wr_ptr)
           /\ InQ(p, shdw_wr_ptr)' => InQ(p, shdw_wr_ptr) \/ (stage2.op = "tbre" /\ p = shdw_wr_ptr)
<1>1. PICK push \in BOOLEAN, look \in BOOLEAN, pop \in BOOLEAN :
         (push <=> Loaded(resp)) /\ (look <=> tbre_trvk_en) /\ (pop <=> Pop(resp, done))
  BY Signals DEF QueueInv
<1>2. /\ cap_wr_ptr' = After(cap_wr_ptr, push) /\ shdw_wr_ptr' = After(shdw_wr_ptr, look)
      /\ rd_ptr' = After(rd_ptr, pop)
  BY <1>1, Moves DEF After
<1>3. cap_wr_ptr \in Ptrs /\ shdw_wr_ptr \in Ptrs /\ rd_ptr \in Ptrs
  BY Positions
<1>4. /\ Gap(cap_wr_ptr, rd_ptr) <= FifoSize /\ Gap(shdw_wr_ptr, rd_ptr) <= FifoSize
      /\ push => Gap(cap_wr_ptr, rd_ptr) < FifoSize
      /\ look => Gap(shdw_wr_ptr, rd_ptr) < FifoSize
      /\ pop => cap_wr_ptr # rd_ptr /\ shdw_wr_ptr # rd_ptr
  BY <1>1, Room
<1>5. ASSUME Gap(p, rd_ptr') < Gap(cap_wr_ptr', rd_ptr')
      PROVE  Gap(p, rd_ptr) < Gap(cap_wr_ptr, rd_ptr) \/ (push /\ p = cap_wr_ptr)
  BY <1>2, <1>3, <1>4, <1>5, Entered
<1>6. ASSUME Gap(p, rd_ptr') < Gap(shdw_wr_ptr', rd_ptr')
      PROVE  Gap(p, rd_ptr) < Gap(shdw_wr_ptr, rd_ptr) \/ (look /\ p = shdw_wr_ptr)
  BY <1>2, <1>3, <1>4, <1>6, Entered
<1> QED
  BY <1>1, <1>5, <1>6 DEF InQ, tbre_trvk_en

\* What is not popped stays.
LEMMA QueueStays ==
    ASSUME QueueInv, NEW resp \in BOOLEAN, NEW done \in BOOLEAN, NEW err \in BOOLEAN, NEW go \in BOOLEAN,
           Cycle(resp, done, err, go), NEW p \in Ptrs, Pop(resp, done) => p # rd_ptr
    PROVE  /\ InQ(p, cap_wr_ptr) \/ (Loaded(resp) /\ p = cap_wr_ptr) => InQ(p, cap_wr_ptr)'
           /\ InQ(p, shdw_wr_ptr) \/ (stage2.op = "tbre" /\ p = shdw_wr_ptr) => InQ(p, shdw_wr_ptr)'
<1>1. PICK push \in BOOLEAN, look \in BOOLEAN, pop \in BOOLEAN :
         (push <=> Loaded(resp)) /\ (look <=> tbre_trvk_en) /\ (pop <=> Pop(resp, done))
  BY Signals DEF QueueInv
<1>2. /\ cap_wr_ptr' = After(cap_wr_ptr, push) /\ shdw_wr_ptr' = After(shdw_wr_ptr, look)
      /\ rd_ptr' = After(rd_ptr, pop)
  BY <1>1, Moves DEF After
<1>3. cap_wr_ptr \in Ptrs /\ shdw_wr_ptr \in Ptrs /\ rd_ptr \in Ptrs
  BY Positions
<1>4. /\ Gap(cap_wr_ptr, rd_ptr) <= FifoSize /\ Gap(shdw_wr_ptr, rd_ptr) <= FifoSize
      /\ push => Gap(cap_wr_ptr, rd_ptr) < FifoSize
      /\ look => Gap(shdw_wr_ptr, rd_ptr) < FifoSize
      /\ pop => cap_wr_ptr # rd_ptr /\ shdw_wr_ptr # rd_ptr /\ p # rd_ptr
  BY <1>1, Room
<1>5. ASSUME Gap(p, rd_ptr) < Gap(cap_wr_ptr, rd_ptr) \/ (push /\ p = cap_wr_ptr)
      PROVE  Gap(p, rd_ptr') < Gap(cap_wr_ptr', rd_ptr')
  BY <1>2, <1>3, <1>4, <1>5, Stays
<1>6. ASSUME Gap(p, rd_ptr) < Gap(shdw_wr_ptr, rd_ptr) \/ (look /\ p = shdw_wr_ptr)
      PROVE  Gap(p, rd_ptr') < Gap(shdw_wr_ptr', rd_ptr')
  BY <1>2, <1>3, <1>4, <1>6, Stays
<1> QED
  BY <1>1, <1>5, <1>6 DEF InQ, tbre_trvk_en

\* What enters the FIFOs.
LEMMA Written ==
    ASSUME QueueInv, NEW resp \in BOOLEAN, NEW done \in BOOLEAN, NEW err \in BOOLEAN, NEW go \in BOOLEAN,
           Cycle(resp, done, err, go)
    PROVE  /\ Load(resp, done) => req_fifo'[Slot(req_wr_ptr)] = [addr8 |-> cur_load_addr8, valid |-> TRUE]
           /\ Loaded(resp) => cap_fifo'[Slot(cap_wr_ptr)] =
                                 [word |-> done_req.cell.word, tag |-> done_req.cell.lt, err |-> done_req.err]
           /\ stage2.op = "tbre" => (shdw_fifo'[Slot(shdw_wr_ptr)] <=> stage2.clr)
<1>1. TbreCycle([go |-> go, start8 |-> sweep.start8, end8 |-> sweep.end8],
                TbreDone(resp, done), TbreResp(resp), done_req.err, done_req.we,
                [word |-> done_req.cell.word, tag |-> done_req.cell.lt],
                Snoop(resp, done), tbre_trvk_en, trvk_clrtag)
  BY CycleParts
<1>2. Slot(req_wr_ptr) \in Slots /\ Slot(cap_wr_ptr) \in Slots /\ Slot(shdw_wr_ptr) \in Slots
  BY Positions, Ring
<1>3. TbreTypes(LowWords)
  BY DEF QueueInv, SweepTypes
<1>4. Load(resp, done) => req_fifo'[Slot(req_wr_ptr)] = [addr8 |-> cur_load_addr8, valid |-> TRUE]
  BY <1>1, <1>2 DEF TbreCycle, ReqFifoUpdate, Load
<1>5. Loaded(resp) => cap_fifo'[Slot(cap_wr_ptr)] =
                         [word |-> done_req.cell.word, tag |-> done_req.cell.lt, err |-> done_req.err]
  BY <1>1, <1>2, <1>3 DEF TbreCycle, CapFifoUpdate, Loaded, TbreTypes
<1>6. stage2.op = "tbre" => (shdw_fifo'[Slot(shdw_wr_ptr)] <=> stage2.clr)
  BY <1>1, <1>2, <1>3 DEF TbreCycle, ShdwFifoUpdate, tbre_trvk_en, trvk_clrtag, TbreTypes
<1> QED
  BY <1>4, <1>5, <1>6

\* What is in a FIFO is not overwritten; a snooped store strikes out the
\* entries of its granule.
LEMMA EntryKept ==
    ASSUME QueueInv, NEW resp \in BOOLEAN, NEW done \in BOOLEAN, NEW err \in BOOLEAN, NEW go \in BOOLEAN,
           Cycle(resp, done, err, go), NEW p \in Ptrs
    PROVE  /\ InQ(p, req_wr_ptr) =>
                 req_fifo'[Slot(p)] = IF req_fifo[Slot(p)].addr8 = Snoop(resp, done)
                                      THEN [req_fifo[Slot(p)] EXCEPT !.valid = FALSE] ELSE req_fifo[Slot(p)]
           /\ InQ(p, cap_wr_ptr) => InQ(p, req_wr_ptr) /\ cap_fifo'[Slot(p)] = cap_fifo[Slot(p)]
           /\ InQ(p, shdw_wr_ptr) => InQ(p, cap_wr_ptr) /\ shdw_fifo'[Slot(p)] = shdw_fifo[Slot(p)]
<1>1. TbreCycle([go |-> go, start8 |-> sweep.start8, end8 |-> sweep.end8],
                TbreDone(resp, done), TbreResp(resp), done_req.err, done_req.we,
                [word |-> done_req.cell.word, tag |-> done_req.cell.lt],
                Snoop(resp, done), tbre_trvk_en, trvk_clrtag)
  BY CycleParts
<1>2. /\ req_wr_ptr \in Ptrs /\ cap_wr_ptr \in Ptrs /\ shdw_wr_ptr \in Ptrs /\ rd_ptr \in Ptrs
      /\ Slot(p) \in Slots
  BY Positions, Ring
<1>3. TbreTypes(LowWords) /\ FifoSize \in Nat /\ Gap(p, rd_ptr) \in Nat
  BY <1>2, Apart, TbreAssumption DEF QueueInv, SweepTypes
<1>4. /\ InQ(p, shdw_wr_ptr) => InQ(p, cap_wr_ptr)
      /\ InQ(p, cap_wr_ptr) => InQ(p, req_wr_ptr)
      /\ InQ(p, req_wr_ptr) => Gap(p, rd_ptr) < FifoSize
  BY <1>3, Positions DEF InQ
<1>5. ASSUME InQ(p, req_wr_ptr)
      PROVE  req_fifo'[Slot(p)] = IF req_fifo[Slot(p)].addr8 = Snoop(resp, done)
                                  THEN [req_fifo[Slot(p)] EXCEPT !.valid = FALSE] ELSE req_fifo[Slot(p)]
  <2>1. p # req_wr_ptr
    BY <1>3, <1>5 DEF InQ
  <2>2. Load(resp, done) => Slot(p) # Slot(req_wr_ptr)
    BY <1>2, <1>4, <1>5, <2>1, Room, SlotsDiffer
  <2> QED
    BY <1>1, <1>2, <2>2 DEF TbreCycle, ReqFifoUpdate, Load
<1>6. ASSUME InQ(p, cap_wr_ptr) PROVE cap_fifo'[Slot(p)] = cap_fifo[Slot(p)]
  <2>1. p # cap_wr_ptr
    BY <1>3, <1>6 DEF InQ
  <2>2. Loaded(resp) => Slot(p) # Slot(cap_wr_ptr)
    BY <1>2, <1>4, <1>6, <2>1, Room, SlotsDiffer
  <2>3. /\ Loaded(resp) => cap_fifo' = [cap_fifo EXCEPT ![Slot(cap_wr_ptr)] =
              [word |-> done_req.cell.word, tag |-> done_req.cell.lt, err |-> done_req.err]]
        /\ ~Loaded(resp) => cap_fifo' = cap_fifo
    BY <1>1 DEF TbreCycle, CapFifoUpdate, Loaded
  <2> QED
    BY <1>2, <1>3, <2>2, <2>3 DEF TbreTypes
<1>7. ASSUME InQ(p, shdw_wr_ptr) PROVE shdw_fifo'[Slot(p)] = shdw_fifo[Slot(p)]
  <2>1. p # shdw_wr_ptr
    BY <1>3, <1>7 DEF InQ
  <2>2. tbre_trvk_en => Slot(p) # Slot(shdw_wr_ptr)
    BY <1>2, <1>4, <1>7, <2>1, Room, SlotsDiffer
  <2>3. /\ tbre_trvk_en => shdw_fifo' = [shdw_fifo EXCEPT ![Slot(shdw_wr_ptr)] = trvk_clrtag]
        /\ ~tbre_trvk_en => shdw_fifo' = shdw_fifo
    BY <1>1 DEF TbreCycle, ShdwFifoUpdate
  <2> QED
    BY <1>2, <1>3, <2>2, <2>3 DEF TbreTypes
<1> QED
  BY <1>4, <1>5, <1>6, <1>7

\* The entry at the head is in all three FIFOs.
LEMMA AtHead ==
    ASSUME QueueInv, fifo_not_empty
    PROVE  /\ rd_ptr \in Ptrs /\ Slot(rd_ptr) = head
           /\ InQ(rd_ptr, shdw_wr_ptr) /\ InQ(rd_ptr, cap_wr_ptr)
<1>1. cap_wr_ptr \in Ptrs /\ shdw_wr_ptr \in Ptrs /\ rd_ptr \in Ptrs
  BY Positions
<1>2. Gap(cap_wr_ptr, rd_ptr) \in Nat \ {0} /\ Gap(shdw_wr_ptr, rd_ptr) \in Nat \ {0}
  BY <1>1, Apart DEF fifo_not_empty
<1>3. Gap(rd_ptr, rd_ptr) = 0
  BY <1>1, Ring
<1> QED
  BY <1>1, <1>2, <1>3 DEF InQ, head

\* A freed capability stays freed.
LEMMA RevokedGrows ==
    ASSUME NEW resp \in BOOLEAN, NEW done \in BOOLEAN, NEW err \in BOOLEAN, NEW go \in BOOLEAN,
           Cycle(resp, done, err, go)
    PROVE  Revoked \subseteq Revoked'
<1>1. revoked \subseteq revoked'
  BY CycleParts
<1> QED
  BY <1>1 DEF Revoked, ShadowBits

-----------------------------------------------------------------------------
(* Words and verdicts.                                                     *)

\* The word of a granule changes only by a store of the CPU, which is snooped.
LEMMA WordKept ==
    ASSUME QueueInv, WordsCurrent,
           NEW resp \in BOOLEAN, NEW done \in BOOLEAN, NEW err \in BOOLEAN, NEW go \in BOOLEAN,
           Cycle(resp, done, err, go), NEW g \in Granules, g # Snoop(resp, done)
    PROVE  mem'[g].word = mem[g].word
<1>1. mem \in [Granules -> Cells]
  BY DEF QueueInv, SweepTypes
<1>2. CASE mem' = mem
  BY <1>2
<1>3. CASE /\ Snoop(resp, done) = id.g
           /\ mem' = [mem EXCEPT ![id.g] = Stored(id, @)]
  BY <1>1, <1>3
<1>4. CASE /\ store_req_valid
           /\ mem' = [mem EXCEPT ![req_fifo[head].addr8] = Invalidated(@)]
  <2>1. CASE g = req_fifo[head].addr8
    <3>1. fifo_not_empty /\ req_fifo[head].valid
      BY <1>4 DEF store_req_valid
    <3>2. cap_fifo[head].word = mem[g].word
      BY <2>1, <3>1, AtHead DEF WordsCurrent
    <3>3. mem[g] \in Cells /\ mem'[g] = Invalidated(mem[g])
      BY <1>1, <1>4, <2>1
    <3>4. Invalidated(mem[g]).word = cap_fifo[head].word
      BY <3>3 DEF Invalidated, Cells
    <3> QED
      BY <3>2, <3>3, <3>4
  <2>2. CASE g # req_fifo[head].addr8
    BY <1>1, <1>4, <2>2
  <2> QED
    BY <2>1, <2>2
<1> QED
  BY <1>2, <1>3, <1>4, MemoryStep

\* Entries that are valid after a cycle have the word that is in memory.
LEMMA WordsStep ==
    ASSUME QueueInv, WordsCurrent,
           NEW resp \in BOOLEAN, NEW done \in BOOLEAN, NEW err \in BOOLEAN, NEW go \in BOOLEAN,
           Cycle(resp, done, err, go)
    PROVE  WordsCurrent'
<1>1. TbreTypes(LowWords) /\ cap_wr_ptr \in Ptrs /\ req_wr_ptr \in Ptrs
  BY Positions DEF QueueInv, SweepTypes
<1>2. ASSUME NEW p \in Ptrs, InQ(p, req_wr_ptr), req_fifo'[Slot(p)].valid
      PROVE  /\ req_fifo'[Slot(p)] = req_fifo[Slot(p)] /\ req_fifo[Slot(p)].valid
             /\ mem'[req_fifo[Slot(p)].addr8].word = mem[req_fifo[Slot(p)].addr8].word
  <2>1. Slot(p) \in Slots
    BY <1>1, Ring
  <2>2. req_fifo[Slot(p)] \in [addr8 : 0 .. MaxAddr8, valid : BOOLEAN]
    BY <1>1, <2>1 DEF TbreTypes
  <2>3. req_fifo[Slot(p)].addr8 # Snoop(resp, done)
    <3> SUFFICES ASSUME req_fifo[Slot(p)].addr8 = Snoop(resp, done) PROVE FALSE
      OBVIOUS
    <3>1. req_fifo'[Slot(p)] = [req_fifo[Slot(p)] EXCEPT !.valid = FALSE]
      BY <1>2, EntryKept
    <3> QED
      BY <1>2, <2>2, <3>1
  <2>4. req_fifo'[Slot(p)] = req_fifo[Slot(p)]
    <3>1. req_fifo'[Slot(p)] = IF req_fifo[Slot(p)].addr8 = Snoop(resp, done)
                               THEN [req_fifo[Slot(p)] EXCEPT !.valid = FALSE] ELSE req_fifo[Slot(p)]
      BY <1>2, EntryKept
    <3> QED
      BY ONLY <2>3, <3>1
  <2>5. req_fifo[Slot(p)].addr8 \in Granules
    BY <2>2 DEF Granules
  <2> QED
    BY <1>2, <2>3, <2>4, <2>5, WordKept
<1>3. ASSUME NEW p \in Ptrs, InQ(p, cap_wr_ptr)', req_fifo'[Slot(p)].valid
      PROVE  cap_fifo'[Slot(p)].word = mem'[req_fifo'[Slot(p)].addr8].word
  <2>1. CASE InQ(p, cap_wr_ptr)
    <3>1. InQ(p, req_wr_ptr) /\ cap_fifo'[Slot(p)] = cap_fifo[Slot(p)]
      BY <2>1, EntryKept
    <3> QED
      BY <1>2, <1>3, <2>1, <3>1 DEF WordsCurrent
  <2>2. CASE Loaded(resp) /\ p = cap_wr_ptr
    <3>1. Awaiting /\ InQ(p, req_wr_ptr)
      BY <2>2, Flow, Positions
    <3>2. cap_fifo'[Slot(p)].word = done_req.cell.word
      BY <2>2, Written
    <3> QED
      BY <1>2, <1>3, <2>2, <3>1, <3>2 DEF WordsCurrent
  <2> QED
    BY <1>3, <2>1, <2>2, QueueEntered
<1>4. ASSUME Awaiting', req_fifo'[Slot(cap_wr_ptr')].valid
      PROVE  done_req'.cell.word = mem'[req_fifo'[Slot(cap_wr_ptr')].addr8].word
  <2>1. CASE Load(resp, done)
    <3>1. cap_wr_ptr' = req_wr_ptr
      BY <2>1, Flow, Moves DEF QueueInv, Chain, After, Load, load_gnt, TbreDone
    <3>2. req_fifo'[Slot(req_wr_ptr)].addr8 = cur_load_addr8
      BY <2>1, Written
    <3> QED
      BY <2>1, <3>1, <3>2, Flow
  <2>2. CASE Awaiting /\ ~Loaded(resp)
    <3>1. cap_wr_ptr' = cap_wr_ptr /\ done_req' = done_req
      BY <2>2, Flow, Moves DEF After
    <3>2. InQ(cap_wr_ptr, req_wr_ptr)
      BY <2>2, Positions
    <3> QED
      BY <1>1, <1>2, <1>4, <2>2, <3>1, <3>2 DEF WordsCurrent
  <2> QED
    BY <1>4, <2>1, <2>2, Flow
<1> QED
  BY <1>3, <1>4 DEF WordsCurrent, Ptrs, Slot

\* Verdicts stay true: words keep their place and revoked capabilities stay revoked.
LEMMA VerdictsStep ==
    ASSUME QueueInv, VerdictsTrue,
           NEW resp \in BOOLEAN, NEW done \in BOOLEAN, NEW err \in BOOLEAN, NEW go \in BOOLEAN,
           Cycle(resp, done, err, go)
    PROVE  VerdictsTrue'
<1>1. ASSUME NEW p \in Ptrs, InQ(p, cap_wr_ptr), Found(p) PROVE Found(p)'
  <2>1. cap_fifo'[Slot(p)] = cap_fifo[Slot(p)]
    BY <1>1, EntryKept
  <2> QED
    BY <1>1, <2>1, RevokedGrows DEF Found, Slot
<1>2. ASSUME NEW p \in Ptrs, InQ(p, shdw_wr_ptr)', shdw_fifo'[Slot(p)] PROVE Found(p)'
  <2>1. CASE InQ(p, shdw_wr_ptr)
    BY <1>1, <1>2, <2>1, EntryKept DEF VerdictsTrue
  <2>2. CASE stage2.op = "tbre" /\ p = shdw_wr_ptr
    BY <1>1, <1>2, <2>2, Written, Positions DEF VerdictsTrue
  <2> QED
    BY <1>2, <2>1, <2>2, QueueEntered
<1>3. ASSUME stage1.op = "tbre", stage1.clr
      PROVE  cap_fifo'[Slot(Ptr1)].word \in Revoked'
  <2>1. Ptr1 \in Ptrs /\ InQ(Ptr1, cap_wr_ptr) /\ Found(Ptr1)
    BY <1>3, Positions DEF VerdictsTrue
  <2>2. cap_fifo'[Slot(Ptr1)] = cap_fifo[Slot(Ptr1)]
    BY <2>1, EntryKept
  <2> QED
    BY <2>1, <2>2, RevokedGrows DEF Found
<1>4. ASSUME stage0.op = "tbre", stage1'.clr
      PROVE  cap_fifo'[Slot(Ptr0)].word \in Revoked'
  <2>1. /\ stage0.cap.tag /\ range_ok(stage0.cap) /\ tsmap_ptr(stage0.cap) \in ShadowBits
    BY <1>4, Flow
  <2>2. Ptr0 \in Ptrs /\ InQ(Ptr0, cap_wr_ptr)
    BY <1>4, Positions
  <2>3. cap_fifo[Slot(Ptr0)].word \in CapIds /\ stage0.cap = CapOf[cap_fifo[Slot(Ptr0)].word]
    BY <1>4, <2>1 DEF VerdictsTrue
  <2>4. cap_fifo[Slot(Ptr0)].word \in Revoked
    BY <2>1, <2>3 DEF Revoked
  <2>5. cap_fifo'[Slot(Ptr0)] = cap_fifo[Slot(Ptr0)]
    BY <2>2, EntryKept
  <2> QED
    BY <2>4, <2>5, RevokedGrows
<1>5. ASSUME Loaded(resp), stage0'.cap.tag
      PROVE  /\ cap_fifo'[Slot(cap_wr_ptr)].word \in CapIds
             /\ stage0'.cap = CapOf[cap_fifo'[Slot(cap_wr_ptr)].word]
  <2>1. stage0'.cap = Holds(done_req.cell) /\ Holds(done_req.cell).tag
    BY <1>5, Flow DEF NoCap
  <2>2. done_req.cell.word \in CapIds /\ Holds(done_req.cell) = CapOf[done_req.cell.word]
    BY <2>1 DEF Holds, NoCap
  <2>3. cap_fifo'[Slot(cap_wr_ptr)].word = done_req.cell.word
    BY <1>5, Written
  <2> QED
    BY <2>1, <2>2, <2>3
<1>6. /\ stage2' = stage1 /\ stage1'.op = stage0.op /\ (stage0'.op = "tbre" <=> Loaded(resp))
      /\ shdw_wr_ptr' = Ptr1 /\ Ptr1' = Ptr0 /\ Ptr0' = cap_wr_ptr
  BY Flow, ChainStep
<1>7. stage2'.op = "tbre" /\ stage2'.clr => Found(shdw_wr_ptr)'
  BY <1>3, <1>6 DEF Found, Slot
<1>8. stage1'.op = "tbre" /\ stage1'.clr => Found(Ptr1)'
  BY <1>4, <1>6 DEF Found, Slot
<1>9. stage0'.op = "tbre" /\ stage0'.cap.tag =>
         cap_fifo'[Slot(Ptr0')].word \in CapIds /\ stage0'.cap = CapOf[cap_fifo'[Slot(Ptr0')].word]
  BY <1>5, <1>6
<1>10. \A p \in Ptrs : InQ(p, shdw_wr_ptr)' /\ shdw_fifo'[Slot(p)] => Found(p)'
  BY <1>2
<1> QED
  BY <1>7, <1>8, <1>9, <1>10 DEF VerdictsTrue, Ptrs, Slot

\* The engine changes memory only by taking the tag off a revoked capability.
LEMMA ClearsOnly ==
    ASSUME QueueInv, WordsCurrent, VerdictsTrue,
           NEW resp \in BOOLEAN, NEW done \in BOOLEAN, NEW err \in BOOLEAN, NEW go \in BOOLEAN,
           Cycle(resp, done, err, go), NEW g \in Granules, mem'[g] # mem[g], lsu'.who = "tbre"
    PROVE  mem'[g] = [mem[g] EXCEPT !.lt = FALSE] /\ mem[g].word \in Revoked
<1>1. mem \in [Granules -> Cells]
  BY DEF QueueInv, SweepTypes
<1>2. ~CpuDone(resp, done)
  <2>1. PortCycle(resp, cpu_lsu_dec, TbreGood(resp), done) /\ PortTypeOK
    BY CycleParts DEF QueueInv, SweepTypes
  <2> QED
    BY <2>1, Served DEF CpuDone
<1>3. /\ store_req_valid
      /\ mem' = [mem EXCEPT ![req_fifo[head].addr8] = Invalidated(@)]
  BY <1>2, MemoryStep
<1>4. g = req_fifo[head].addr8 /\ mem'[g] = Invalidated(mem[g])
  BY <1>1, <1>3
<1>5. fifo_not_empty /\ req_fifo[head].valid /\ shdw_fifo[head]
  BY <1>3 DEF store_req_valid
<1>6. cap_fifo[head].word = mem[g].word
  BY <1>4, <1>5, AtHead DEF WordsCurrent
<1>7. cap_fifo[head].word \in Revoked
  BY <1>5, AtHead DEF VerdictsTrue, Found
<1>8. mem'[g] = [mem[g] EXCEPT !.lt = FALSE]
  <2>1. mem[g] \in [word : LowWords, lt : BOOLEAN, mt : BOOLEAN]
    BY <1>1 DEF Cells
  <2>2. PICK w : w = cap_fifo[head].word
    OBVIOUS
  <2>3. [mem[g] EXCEPT !.word = w] = mem[g]
    BY <1>6, <2>1, <2>2
  <2> QED
    BY <1>4, <2>1, <2>2, <2>3 DEF Invalidated
<1> QED
  BY <1>6, <1>7, <1>8

-----------------------------------------------------------------------------
(* The sweep.                                                              *)

\* The walk over the region.
LEMMA Walk ==
    ASSUME NEW resp \in BOOLEAN, NEW done \in BOOLEAN, NEW err \in BOOLEAN, NEW go \in BOOLEAN,
           Cycle(resp, done, err, go)
    PROVE  /\ Starts(go) => tbre_fsm' = "TBRE_LOAD" /\ cur_load_addr8' = sweep.start8
           /\ ~Starts(go) => /\ cur_load_addr8' = IF Load(resp, done) THEN load_addr8_p1 ELSE cur_load_addr8
                             /\ tbre_err' <=> tbre_err \/ (TbreResp(resp) /\ done_req.err)
           /\ tbre_fsm = "TBRE_LOAD" =>
                 tbre_fsm' = IF Load(resp, done) /\ load_addr8_p1 > sweep.end8 THEN "TBRE_WAIT" ELSE "TBRE_LOAD"
           /\ tbre_fsm' = "TBRE_IDLE" => tbre_fsm = "TBRE_IDLE" \/ (tbre_fsm = "TBRE_WAIT" /\ os_req_cnt = 0)
<1>1. PICK ctrl : ctrl = [go |-> go, start8 |-> sweep.start8, end8 |-> sweep.end8]
  OBVIOUS
<1>2. WalkUpdate(ctrl, TbreDone(resp, done), TbreResp(resp), done_req.err)
  BY <1>1, CycleParts DEF TbreCycle
<1>3. (ctrl.go <=> go) /\ ctrl.start8 = sweep.start8 /\ ctrl.end8 = sweep.end8
  BY <1>1
<1>4. tbre_fsm' = tbre_fsm_d(ctrl, TbreDone(resp, done))
  BY <1>2 DEF WalkUpdate
<1>5. /\ Starts(go) => tbre_fsm' = "TBRE_LOAD" /\ cur_load_addr8' = sweep.start8
      /\ ~Starts(go) => /\ cur_load_addr8' = IF Load(resp, done) THEN load_addr8_p1 ELSE cur_load_addr8
                        /\ tbre_err' <=> tbre_err \/ (TbreResp(resp) /\ done_req.err)
  BY <1>2, <1>3, <1>4 DEF WalkUpdate, Starts, Load, tbre_fsm_d
<1>6. tbre_fsm = "TBRE_LOAD" =>
         tbre_fsm' = IF Load(resp, done) /\ load_addr8_p1 > sweep.end8 THEN "TBRE_WAIT" ELSE "TBRE_LOAD"
  BY <1>3, <1>4 DEF tbre_fsm_d, load_stop_cond, Load
<1>7. tbre_fsm' = "TBRE_IDLE" => tbre_fsm = "TBRE_IDLE" \/ (tbre_fsm = "TBRE_WAIT" /\ os_req_cnt = 0)
  BY <1>4 DEF tbre_fsm_d
<1> QED
  BY <1>5, <1>6, <1>7

\* An error response excuses the rest of the sweep.
LEMMA ErrorStays ==
    ASSUME QueueInv, NEW resp \in BOOLEAN, NEW done \in BOOLEAN, NEW err \in BOOLEAN, NEW go \in BOOLEAN,
           Cycle(resp, done, err, go), ~Starts(go), Reported
    PROVE  Reported'
<1>1. tbre_err' <=> tbre_err \/ (TbreResp(resp) /\ done_req.err)
  BY Walk
<1>2. CASE tbre_err \/ resp
  <2>1. tbre_err'
    BY <1>1, <1>2 DEF Reported, TbreResp
  <2> QED
    BY <2>1 DEF Reported
<1>3. CASE ~tbre_err /\ ~resp
  <2>1. PortCycle(resp, cpu_lsu_dec, TbreGood(resp), done) /\ PortTypeOK
    BY CycleParts DEF QueueInv, SweepTypes
  <2>2. who(resp) = "none" /\ ~done /\ lsu' = lsu
    BY <1>3, <2>1, Served DEF Reported
  <2>3. DoneUpdate(TbreDone(resp, done), CpuDone(resp, done), err, resp)
    BY CycleParts
  <2>4. done_req' = done_req
    BY <1>3, <2>2, <2>3 DEF DoneUpdate, TbreDone, CpuDone
  <2> QED
    BY <1>3, <2>2, <2>4 DEF Reported
<1> QED
  BY <1>2, <1>3

\* A capability that is still claimed after a cycle was claimed before it, and
\* its granule has not changed.
LEMMA ClaimedBefore ==
    ASSUME QueueInv, NEW resp \in BOOLEAN, NEW done \in BOOLEAN, NEW err \in BOOLEAN, NEW go \in BOOLEAN,
           Cycle(resp, done, err, go), ~Starts(go), NEW g \in Granules, g \notin stored', LeftRevoked(g)'
    PROVE  /\ g \notin stored
           /\ g = Snoop(resp, done) => err
           /\ mem'[g] = mem[g] /\ claim' = claim /\ LeftRevoked(g)
           /\ store_gnt(TbreDone(resp, done)) /\ req_fifo[head].addr8 = g => err
<1>1. mem \in [Granules -> Cells] /\ MaxAddr8 \in Nat
  BY TbreAssumption DEF QueueInv, SweepTypes
<1>2. /\ stored' = (IF CpuDone(resp, done) /\ IsStore(id) /\ ~err THEN stored \cup {id.g} ELSE stored)
      /\ claim' = claim
  BY CycleParts DEF HistoryUpdate
<1>3. g \notin stored /\ ~(CpuDone(resp, done) /\ IsStore(id) /\ ~err /\ id.g = g)
  BY <1>2
<1>4. g = Snoop(resp, done) => err
  <2>1. g # -1
    BY <1>1 DEF Granules
  <2> QED
    BY <1>3, <2>1 DEF Snoop
<1>5. mem'[g].lt
  BY DEF LeftRevoked
<1>6. ASSUME mem' = [mem EXCEPT ![req_fifo[head].addr8] = Invalidated(@)] PROVE req_fifo[head].addr8 # g
  <2> SUFFICES ASSUME req_fifo[head].addr8 = g PROVE FALSE
    OBVIOUS
  <2>1. mem'[g] = Invalidated(mem[g]) /\ mem[g] \in Cells
    BY <1>1, <1>6
  <2>2. PICK w, c : w = cap_fifo[head].word /\ c = [mem[g] EXCEPT !.word = w]
    OBVIOUS
  <2>3. Invalidated(mem[g]) = [c EXCEPT !.lt = FALSE]
    BY <2>2 DEF Invalidated
  <2>4. ~[c EXCEPT !.lt = FALSE].lt
    BY <2>1, <2>2 DEF Cells
  <2> QED
    BY <1>5, <2>1, <2>3, <2>4
<1>7. mem'[g] = mem[g] /\ (store_gnt(TbreDone(resp, done)) /\ req_fifo[head].addr8 = g => err)
  <2>1. CASE mem' = mem /\ ~(store_gnt(TbreDone(resp, done)) /\ ~err)
    BY <2>1
  <2>2. CASE /\ CpuDone(resp, done) /\ ~err /\ IsStore(id) /\ Snoop(resp, done) = id.g
             /\ mem' = [mem EXCEPT ![id.g] = Stored(id, @)]
    <3>1. ~store_gnt(TbreDone(resp, done))
      BY <2>2 DEF store_gnt, TbreDone, CpuDone
    <3> QED
      BY <1>1, <1>4, <2>2, <3>1
  <2>3. CASE mem' = [mem EXCEPT ![req_fifo[head].addr8] = Invalidated(@)]
    BY <1>1, <1>6, <2>3
  <2> QED
    BY <2>1, <2>2, <2>3, MemoryStep
<1>8. LeftRevoked(g)
  BY <1>2, <1>7 DEF LeftRevoked
<1> QED
  BY <1>2, <1>3, <1>4, <1>7, <1>8

\* What a failed store has struck out stays known, and so does what it strikes out.
LEMMA StruckStays ==
    ASSUME QueueInv, NEW resp \in BOOLEAN, NEW done \in BOOLEAN, NEW err \in BOOLEAN, NEW go \in BOOLEAN,
           Cycle(resp, done, err, go), ~Starts(go), NEW g \in Granules, g \notin struck'
    PROVE  /\ g \notin struck
           /\ \A p \in Ptrs :
                 InQ(p, req_wr_ptr) /\ req_fifo[Slot(p)] = [addr8 |-> g, valid |-> TRUE] /\ err
                    => g # Snoop(resp, done)
<1>1. struck' = IF CpuDone(resp, done) /\ IsStore(id) /\ err /\ Queued(id.g) THEN struck \cup {id.g} ELSE struck
  BY CycleParts DEF HistoryUpdate
<1>2. ASSUME NEW p \in Ptrs, InQ(p, req_wr_ptr), req_fifo[Slot(p)] = [addr8 |-> g, valid |-> TRUE], err,
             g = Snoop(resp, done)
      PROVE  FALSE
  <2>1. g # -1
    BY TbreAssumption DEF Granules
  <2>2. CpuDone(resp, done) /\ IsStore(id) /\ id.g = g
    BY <1>2, <2>1 DEF Snoop
  <2>3. Dist(p) < os_req_cnt
    BY <1>2 DEF InQ, Gap, Dist, os_req_cnt
  <2>4. Queued(g)
    BY <1>2, <2>3 DEF Queued
  <2> QED
    BY <1>1, <1>2, <2>2, <2>4
<1> QED
  BY <1>1, <1>2

\* The entry of a claimed capability is not lost on its way, and is popped
\* only by the store that clears it.
LEMMA CaughtStays ==
    ASSUME QueueInv, claim \subseteq Revoked,
           NEW resp \in BOOLEAN, NEW done \in BOOLEAN, NEW err \in BOOLEAN, NEW go \in BOOLEAN,
           Cycle(resp, done, err, go), ~Starts(go),
           NEW g \in Granules, g \notin stored', g \notin struck', ~Reported', LeftRevoked(g)',
           NEW p \in Ptrs, Caught(p, g)
    PROVE  Caught(p, g)'
<1>0. InQ(p, req_wr_ptr) /\ req_fifo[Slot(p)] = [addr8 |-> g, valid |-> TRUE]
  <2>1. Awaiting => InQ(cap_wr_ptr, req_wr_ptr)
    BY Positions
  <2>2. InQ(p, cap_wr_ptr) => InQ(p, req_wr_ptr)
    BY EntryKept
  <2> QED
    BY ONLY <2>1, <2>2, Caught(p, g) DEF Caught
<1>1. /\ g # Snoop(resp, done) /\ mem'[g] = mem[g] /\ LeftRevoked(g)
      /\ store_gnt(TbreDone(resp, done)) /\ req_fifo[head].addr8 = g => err
  <2>1. /\ g = Snoop(resp, done) => err
        /\ mem'[g] = mem[g] /\ LeftRevoked(g)
        /\ store_gnt(TbreDone(resp, done)) /\ req_fifo[head].addr8 = g => err
    BY ClaimedBefore
  <2>2. err => g # Snoop(resp, done)
    BY <1>0, StruckStays
  <2> QED
    BY ONLY <2>1, <2>2
<1>2. ~Reported
  BY ErrorStays
<1>3. mem[g].word \in Revoked /\ mem[g].word \in CapIds /\ mem[g].lt = TRUE /\ mem[g].mt = TRUE
  <2>1. mem[g] \in Cells
    BY DEF QueueInv, SweepTypes
  <2> QED
    BY <1>1, <2>1 DEF LeftRevoked, Revoked, Cells
<1>4. CapOf[mem[g].word].tag
  BY <1>3, TbreSystemAssumption DEF Capabilities
<1>5. InQ(p, req_wr_ptr)
  BY <1>0
<1>6. req_fifo[Slot(p)].addr8 = g /\ req_fifo[Slot(p)].valid
  BY ONLY <1>0
<1>7. req_fifo'[Slot(p)] = [addr8 |-> g, valid |-> TRUE]
  <2>1. req_fifo'[Slot(p)] = IF req_fifo[Slot(p)].addr8 = Snoop(resp, done)
                             THEN [req_fifo[Slot(p)] EXCEPT !.valid = FALSE] ELSE req_fifo[Slot(p)]
    BY <1>5, EntryKept
  <2>2. g # Snoop(resp, done)
    BY <1>1
  <2> QED
    BY ONLY <1>0, <1>6, <2>1, <2>2
<1>8. Pop(resp, done) => p # rd_ptr
  <2> SUFFICES ASSUME Pop(resp, done), p = rd_ptr PROVE FALSE
    OBVIOUS
  <2>1. cap_wr_ptr # rd_ptr /\ shdw_wr_ptr # rd_ptr /\ Ptr1 # rd_ptr /\ Ptr0 # rd_ptr /\ fifo_not_empty
    BY Room, Positions DEF Pop, fifo_rd_en
  <2>2. Slot(p) = head
    BY DEF head
  <2>3. /\ shdw_fifo[Slot(p)]
        /\ cap_fifo[Slot(p)] = [word |-> mem[g].word, tag |-> TRUE, err |-> FALSE]
    BY <2>1 DEF Caught, Condemned
  <2>4. store_req_valid
    BY <1>6, <2>1, <2>2, <2>3 DEF store_req_valid
  <2>5. store_gnt(TbreDone(resp, done))
    BY <2>4 DEF Pop, fifo_rd_en
  <2>6. err /\ TbreDone(resp, done)
    BY <1>1, <1>6, <2>2, <2>5 DEF store_gnt
  <2>7. done_req'.err
    <3>1. DoneUpdate(TbreDone(resp, done), CpuDone(resp, done), err, resp)
      BY CycleParts
    <3> QED
      BY <2>6, <3>1 DEF DoneUpdate
  <2>8. lsu'.st = "resp" /\ lsu'.who = "tbre"
    <3>1. PortCycle(resp, cpu_lsu_dec, TbreGood(resp), done) /\ PortTypeOK
      BY CycleParts DEF QueueInv, SweepTypes
    <3> QED
      BY <2>6, <3>1, Served DEF TbreDone
  <2> QED
    BY <2>7, <2>8 DEF Reported
<1>9. shdw_wr_ptr' = Ptr1 /\ Ptr1' = Ptr0 /\ Ptr0' = cap_wr_ptr
  BY ChainStep
<1>10. CASE p = cap_wr_ptr /\ Awaiting /\ done_req.cell = mem[g]
  <2>1. CASE Loaded(resp)
    <3>1. done_req.err = FALSE
      <4>1. done_req.err \in BOOLEAN
        BY DEF QueueInv, SweepTypes
      <4> QED
        BY <1>2, <1>10, <4>1 DEF Reported, Awaiting
    <3>2. cap_fifo'[Slot(p)] = [word |-> mem'[g].word, tag |-> TRUE, err |-> FALSE]
      BY <1>1, <1>3, <1>10, <2>1, <3>1, Written
    <3>3. InQ(p, cap_wr_ptr)'
      BY <1>8, <1>10, <2>1, QueueStays
    <3>4. stage0'.op = "tbre" /\ stage0'.cap = CapOf[mem'[g].word]
      <4>1. Holds(done_req.cell) = CapOf[mem[g].word]
        BY <1>3, <1>10 DEF Holds
      <4> QED
        BY <1>1, <1>4, <2>1, <3>1, <4>1, Flow
    <3>5. p = Ptr0'
      BY <1>9, <1>10
    <3> QED
      BY <1>7, <3>2, <3>3, <3>4, <3>5 DEF Caught, Condemned, Slot
  <2>2. CASE ~Loaded(resp)
    <3>1. Awaiting' /\ cap_wr_ptr' = cap_wr_ptr /\ done_req' = done_req
      BY <1>10, <2>2, Flow, Moves DEF After
    <3> QED
      BY <1>1, <1>7, <1>10, <3>1 DEF Caught, Slot
  <2> QED
    BY <2>1, <2>2
<1>11. CASE /\ InQ(p, cap_wr_ptr) /\ Condemned(p, g)
            /\ cap_fifo[Slot(p)] = [word |-> mem[g].word, tag |-> TRUE, err |-> FALSE]
  <2>1. InQ(p, cap_wr_ptr)'
    BY <1>8, <1>11, QueueStays
  <2>2. cap_fifo'[Slot(p)] = [word |-> mem'[g].word, tag |-> TRUE, err |-> FALSE]
    BY <1>1, <1>11, EntryKept
  <2>3. Condemned(p, g)'
    <3>1. CASE InQ(p, shdw_wr_ptr) /\ shdw_fifo[Slot(p)]
      <4>1. InQ(p, shdw_wr_ptr)' /\ shdw_fifo'[Slot(p)]
        BY <1>8, <3>1, QueueStays, EntryKept
      <4> QED
        BY <4>1 DEF Condemned, Slot
    <3>2. CASE p = shdw_wr_ptr /\ stage2.op = "tbre" /\ stage2.clr
      <4>1. InQ(p, shdw_wr_ptr)' /\ shdw_fifo'[Slot(p)]
        BY <1>8, <3>2, QueueStays, Written
      <4> QED
        BY <4>1 DEF Condemned, Slot
    <3>3. CASE p = Ptr1 /\ stage1.op = "tbre" /\ stage1.clr
      <4>1. p = shdw_wr_ptr' /\ stage2'.op = "tbre" /\ stage2'.clr
        BY <1>9, <3>3, Flow
      <4> QED
        BY <4>1 DEF Condemned
    <3>4. CASE p = Ptr0 /\ stage0.op = "tbre" /\ stage0.cap = CapOf[mem[g].word]
      <4>1. stage0.cap.tag /\ range_ok(stage0.cap) /\ tsmap_ptr(stage0.cap) \in ShadowBits
        BY <1>3, <1>4, <3>4 DEF Revoked
      <4>2. p = Ptr1' /\ stage1'.op = "tbre" /\ stage1'.clr
        BY <1>9, <3>4, <4>1, Flow
      <4> QED
        BY <4>2 DEF Condemned
    <3> QED
      BY <1>11, <3>1, <3>2, <3>3, <3>4 DEF Condemned
  <2> QED
    BY <1>7, <2>1, <2>2, <2>3 DEF Caught, Slot
<1> QED
  BY <1>10, <1>11 DEF Caught

\* The walk leaves no granule out.
LEMMA TrackStep ==
    ASSUME QueueInv, claim \subseteq Revoked, Tracked,
           NEW resp \in BOOLEAN, NEW done \in BOOLEAN, NEW err \in BOOLEAN, NEW go \in BOOLEAN,
           Cycle(resp, done, err, go)
    PROVE  Tracked'
<1>1. sweep' = sweep /\ sweep.start8 \in Granules /\ sweep.end8 \in Granules /\ MaxAddr8 \in Nat
  BY CycleParts, TbreAssumption, TbreSystemAssumption DEF QueueInv, SweepTypes
<1> SUFFICES ASSUME NEW g \in sweep.start8 .. sweep.end8, g \notin stored', g \notin struck',
                    ~Reported', LeftRevoked(g)', ~(tbre_fsm' = "TBRE_LOAD" /\ cur_load_addr8' <= g)
             PROVE  \E p \in Ptrs : Caught(p, g)'
  BY <1>1 DEF Tracked, Ptrs
<1>2. g \in Granules /\ g \in Nat /\ sweep.start8 <= g /\ g <= sweep.end8 /\ g <= MaxAddr8
      /\ sweep.start8 \in Nat /\ sweep.end8 \in Nat
  BY <1>1 DEF Granules
<1>3. ~Starts(go)
  BY <1>2, Walk
<1>4. g \notin stored /\ g \notin struck /\ mem'[g] = mem[g] /\ LeftRevoked(g)
  BY <1>2, <1>3, ClaimedBefore, StruckStays
<1>5. ~Reported
  BY <1>3, ErrorStays
<1>6. CASE \E p \in Ptrs : Caught(p, g)
  BY <1>2, <1>3, <1>6, CaughtStays
<1>7. CASE tbre_fsm = "TBRE_LOAD" /\ cur_load_addr8 <= g
  <2>1. cur_load_addr8 \in Nat /\ cur_load_addr8 <= MaxAddr8
    BY <1>1 DEF QueueInv, SweepTypes, TbreTypes
  <2>2. Load(resp, done)
    BY <1>3, <1>7, Walk
  <2>3. cur_load_addr8 = g
    <3> SUFFICES ASSUME cur_load_addr8 # g PROVE FALSE
      OBVIOUS
    <3>1. cur_load_addr8 + 1 <= MaxAddr8 /\ cur_load_addr8 + 1 <= g
      BY <1>1, <1>2, <1>7, <2>1
    <3>2. load_addr8_p1 = cur_load_addr8 + 1
      BY <1>1, <2>1, <3>1, SMT DEF load_addr8_p1
    <3>3. ~(load_addr8_p1 > sweep.end8)
      BY <1>2, <2>1, <3>1, <3>2
    <3>4. tbre_fsm' = "TBRE_LOAD" /\ cur_load_addr8' = load_addr8_p1
      BY <1>3, <1>7, <2>2, <3>3, Walk
    <3> QED
      BY <3>1, <3>2, <3>4
  <2>4. req_wr_ptr \in Ptrs /\ cap_wr_ptr' = req_wr_ptr
    BY <2>2, Positions, Flow, Moves DEF QueueInv, Chain, After, Load, load_gnt, TbreDone
  <2>5. Awaiting' /\ done_req'.cell = mem'[g]
    BY <1>4, <2>2, <2>3, Flow
  <2>6. req_fifo'[Slot(req_wr_ptr)] = [addr8 |-> g, valid |-> TRUE]
    BY <2>2, <2>3, Written
  <2>7. PICK p \in Ptrs : p = req_wr_ptr
    BY <2>4
  <2>8. Caught(p, g)'
    BY <2>4, <2>5, <2>6, <2>7 DEF Caught, Slot
  <2> QED
    BY <2>8
<1> QED
  BY <1>4, <1>5, <1>6, <1>7 DEF Tracked

\* The engine is idle only with empty FIFOs.
LEMMA EndedStep ==
    ASSUME QueueInv, tbre_fsm = "TBRE_IDLE" => req_wr_ptr = rd_ptr,
           NEW resp \in BOOLEAN, NEW done \in BOOLEAN, NEW err \in BOOLEAN, NEW go \in BOOLEAN,
           Cycle(resp, done, err, go)
    PROVE  tbre_fsm' = "TBRE_IDLE" => req_wr_ptr' = rd_ptr'
<1> SUFFICES ASSUME tbre_fsm' = "TBRE_IDLE" PROVE req_wr_ptr' = rd_ptr'
  OBVIOUS
<1>1. req_wr_ptr = rd_ptr /\ tbre_fsm # "TBRE_LOAD"
  <2>1. CASE tbre_fsm = "TBRE_IDLE"
    BY <2>1
  <2>2. CASE tbre_fsm = "TBRE_WAIT" /\ os_req_cnt = 0
    <3>1. Gap(req_wr_ptr, rd_ptr) = 0
      BY <2>2 DEF os_req_cnt, Dist, Gap
    <3> QED
      BY <2>2, <3>1, Positions, Ring
  <2> QED
    BY <2>1, <2>2, Walk
<1>2. ~Load(resp, done)
  BY <1>1 DEF Load, load_gnt, QueueInv, Scheduled
<1>3. ~Pop(resp, done)
  BY <1>1, Room
<1> QED
  BY <1>1, <1>2, <1>3, Moves DEF After

-----------------------------------------------------------------------------
(* Theorems.                                                               *)

\* At reset the FIFOs and the pipeline are empty.
LEMMA InitSweep == Init => SweepInv
<1> SUFFICES ASSUME Init PROVE SweepInv
  OBVIOUS
<1>1. TbreInit /\ TrvkInit /\ PortInit
  BY DEF Init
<1>2. TbreTypes(LowWords) /\ Pointers(0, 0) /\ Scheduled
  <2>1. PICK W : W = LowWords
    OBVIOUS
  <2>2. "data" \in W
    BY <2>1 DEF LowWords
  <2>3. TbreTypes(W) /\ Pointers(0, 0) /\ Scheduled
    BY <1>1, <2>2, TbreStart
  <2> QED
    BY <2>1, <2>3
<1>3. /\ stage0.op = "none" /\ stage1.op = "none" /\ stage2.op = "none" /\ lsu.st = "free"
      /\ reserved = "none" /\ stage1.clr = FALSE /\ stage2.clr = FALSE
      /\ stage1 \in [op : Loads, clr : BOOLEAN] /\ stage2 \in [op : Loads, clr : BOOLEAN]
  BY <1>1 DEF TrvkInit, PortInit, Empty0, Empty, LsuFree, Loads
<1>4. SweepTypes
  <2>1. PortTypeOK
    BY <1>1 DEF PortInit, PortTypeOK, LsuStates, LsuFree
  <2>2. mem \in [Granules -> Cells]
    <3>1. \A c \in CapIds : [word |-> c, lt |-> TRUE, mt |-> TRUE] \in Cells
      BY DEF Cells, LowWords
    <3> QED
      BY <3>1 DEF Init
  <2>3. done_req \in [we : BOOLEAN, cell : Cells, err : BOOLEAN]
    BY DEF Init, Quiet, Cells, LowWords
  <2> QED
    BY <1>2, <1>3, <2>1, <2>2, <2>3 DEF SweepTypes, Init, Loads
<1>5. ~Awaiting /\ Answers = 0 /\ Lookups = 0
  BY <1>3 DEF Awaiting, Answers, Lookups, One
<1>6. req_wr_ptr = 0 /\ cap_wr_ptr = 0 /\ shdw_wr_ptr = 0 /\ rd_ptr = 0 /\ Ptr1 = 0 /\ Ptr0 = 0
  BY <1>1, <1>3 DEF TbreInit, Ptr1, Ptr0, After
<1>7. QueueInv
  BY <1>2, <1>3, <1>4, <1>5, <1>6 DEF QueueInv, Held, Chain, After
<1>8. \A p \in Ptrs : ~InQ(p, cap_wr_ptr) /\ ~InQ(p, shdw_wr_ptr)
  <2>1. 0 \in Ptrs /\ Gap(0, 0) = 0
    BY <1>6, <1>7, Positions, Ring
  <2>2. \A p \in Ptrs : Gap(p, 0) \in Nat
    BY <2>1, Apart
  <2> QED
    BY <1>6, <2>1, <2>2 DEF InQ
<1>9. WordsCurrent /\ VerdictsTrue
  BY <1>3, <1>5, <1>8 DEF WordsCurrent, VerdictsTrue
<1>10. claim = {} /\ Tracked
  BY DEF Init, Tracked, LeftRevoked
<1> QED
  BY <1>6, <1>7, <1>9, <1>10 DEF SweepInv

\* The invariant is inductive.
LEMMA NextSweep == SweepInv /\ [Next]_vars => SweepInv'
<1> SUFFICES ASSUME SweepInv, [Next]_vars PROVE SweepInv'
  OBVIOUS
<1>1. CASE Next
  <2>1. PICK resp \in BOOLEAN, done \in BOOLEAN, err \in BOOLEAN, go \in BOOLEAN : Cycle(resp, done, err, go)
    BY <1>1 DEF Next
  <2>2. /\ QueueInv /\ WordsCurrent /\ VerdictsTrue /\ claim \subseteq Revoked /\ Tracked
        /\ tbre_fsm = "TBRE_IDLE" => req_wr_ptr = rd_ptr
    BY DEF SweepInv
  <2>3. QueueInv'
    BY <2>1, <2>2, QueueStep
  <2>4. WordsCurrent' /\ VerdictsTrue'
    BY <2>1, <2>2, WordsStep, VerdictsStep
  <2>5. (claim \subseteq Revoked)'
    <3>1. claim' = Revoked \/ claim' = claim
      BY <2>1, CycleParts
    <3> QED
      BY <2>1, <2>2, <3>1, RevokedGrows
  <2>6. Tracked'
    BY <2>1, <2>2, TrackStep
  <2>7. (tbre_fsm = "TBRE_IDLE" => req_wr_ptr = rd_ptr)'
    BY <2>1, <2>2, EndedStep
  <2> QED
    BY <2>3, <2>4, <2>5, <2>6, <2>7 DEF SweepInv
<1>2. CASE UNCHANGED vars
  <2>1. /\ UNCHANGED <<tbre_fsm, tbre_sch, cur_load_addr8, wait_resp_q, tbre_err, req_wr_ptr,
                       cap_wr_ptr, shdw_wr_ptr, rd_ptr, req_fifo, cap_fifo, shdw_fifo>>
        /\ UNCHANGED <<reserved, stage0, stage1, stage2, lsu, mem, revoked, id, sweep, done_req, claim, stored, struck>>
    BY <1>2 DEF vars, history, tbreVars, trvkVars
  <2>2. QueueInv'
    <3>1. SweepTypes' /\ Scheduled' /\ Held'
      BY <2>1 DEF SweepInv, QueueInv, SweepTypes, TbreTypes, PortTypeOK, Scheduled, Held, TbreAsks,
                  store_req_valid, fifo_not_empty, head, cpu_lsu_dec
    <3>2. Pointers(Answers, Lookups)' /\ Chain'
      BY <2>1 DEF SweepInv, QueueInv, Pointers, Answers, Lookups, Awaiting, Chain, Ptr1, Ptr0
    <3> QED
      BY <3>1, <3>2 DEF QueueInv
  <2>3. WordsCurrent' /\ VerdictsTrue'
    BY <2>1 DEF SweepInv, WordsCurrent, VerdictsTrue, InQ, Awaiting, Found, Ptr1, Ptr0, Revoked, ShadowBits
  <2>4. Tracked'
    BY <2>1 DEF SweepInv, Tracked, Reported, LeftRevoked, Caught, Condemned, InQ, Awaiting, Ptr1, Ptr0
  <2> QED
    BY <2>1, <2>2, <2>3, <2>4 DEF SweepInv, Revoked, ShadowBits
<1> QED
  BY <1>1, <1>2

\* Where every loaded word and its verdict are, in every reachable state.
LEMMA SweepInvariance == Spec => []SweepInv
  BY InitSweep, NextSweep, PTL DEF Spec

\* A sweep that has ended leaves no capability in its region that was revoked
\* when it started, unless the CPU stored it there since, a CPU store that
\* failed struck out its entry, or an error was reported: cheri_tbre.sv neither
\* passes over a granule nor pairs a word with another's verdict, and loses an
\* entry in this one way only.
THEOREM SweepsComplete == Spec => []SweepComplete
<1>1. SweepInv => SweepComplete
  <2> SUFFICES ASSUME SweepInv, tbre_fsm = "TBRE_IDLE", NEW g \in sweep.start8 .. sweep.end8,
                      g \notin stored, g \notin struck, ~Reported, LeftRevoked(g)
               PROVE  FALSE
    BY DEF SweepComplete
  <2>1. QueueInv /\ req_wr_ptr = rd_ptr
    BY DEF SweepInv
  <2>2. PICK p \in Ptrs : Caught(p, g)
    BY DEF SweepInv, Tracked
  <2>3. Gap(p, rd_ptr) \in Nat /\ Gap(req_wr_ptr, rd_ptr) = 0
    BY <2>1, Positions, Apart, Ring
  <2>4. Gap(p, rd_ptr) < Gap(req_wr_ptr, rd_ptr)
    <3>1. CASE p = cap_wr_ptr /\ Awaiting
      BY <2>1, <3>1, Positions DEF InQ
    <3>2. CASE InQ(p, cap_wr_ptr)
      BY <2>1, <2>3, <3>2, Positions DEF InQ
    <3> QED
      BY <2>2, <3>1, <3>2 DEF Caught
  <2> QED
    BY <2>3, <2>4
<1> QED
  BY <1>1, SweepInvariance, PTL

\* The engine changes memory only by taking the tag off a capability whose
\* shadow bit is set: the word its store writes back is the one in memory,
\* because cheri_tbre.sv strikes out the entries of a granule the CPU stores to.
THEOREM OnlyTagsCleared == Spec => OnlyClearsTags
<1> DEFINE P == \A g \in Granules :
                   mem'[g] # mem[g] /\ lsu'.who = "tbre" =>
                      /\ mem'[g] = [mem[g] EXCEPT !.lt = FALSE]
                      /\ mem[g].word \in Revoked
<1>1. ASSUME SweepInv, [Next]_vars PROVE [P]_vars
  <2>1. CASE Next
    <3>1. PICK resp \in BOOLEAN, done \in BOOLEAN, err \in BOOLEAN, go \in BOOLEAN : Cycle(resp, done, err, go)
      BY <2>1 DEF Next
    <3>2. QueueInv /\ WordsCurrent /\ VerdictsTrue
      BY <1>1 DEF SweepInv
    <3>3. P
      BY <3>1, <3>2, ClearsOnly
    <3> QED
      BY <3>3
  <2>2. CASE UNCHANGED vars
    BY <2>2
  <2> QED
    BY <1>1, <2>1, <2>2
<1> QED
  BY <1>1, SweepInvariance, PTL DEF Spec, OnlyClearsTags
==============================================================================
