---------------------------- MODULE EnginesSystem ----------------------------
(***************************************************************************)
(* Both background engines at work on one memory: the revocation engine    *)
(* (Tbre, with its look-up pipeline Trvk) and the stack zeroiser (Stkz)    *)
(* behind the arbiter of module TbreWrapper, next to a CPU that has        *)
(* priority over both on the load-store unit (LsuPort).                    *)
(*                                                                         *)
(* The CPU keeps away from the stack region here: how it is kept away is   *)
(* the subject of StkzSystem.  Memory is in granules of 8 bytes, as in     *)
(* TbreSystem, with "zero" for a lower word cleared by the zeroiser.       *)
(***************************************************************************)
EXTENDS Tbre, Trvk, Stkz, TbreWrapper, LsuPort

CONSTANTS
    CapIds,           \* names of the capabilities around, all revoked
    CapOf,            \* [CapIds -> Capabilities]
    CpuOps,           \* what the CPU does: [op, g], a store of data or a CLC
    ZtopWrites,       \* the values software writes to ZTOPC
    Sweep,            \* the region the revocation engine walks: [start8, end8]
    BusErrors,        \* whether the bus answers with errors
    RestartWhileActive \* whether software starts a run of the zeroiser during one

Granules == 0 .. MaxAddr8
Cells == [word : CapIds \cup {"data", "zero"}, lt : BOOLEAN, mt : BOOLEAN]

ASSUME EnginesAssumption ==
    /\ CapOf \in [CapIds -> Capabilities]
    /\ CapIds \cap {"data", "zero"} = {}
    /\ AddrMax = 8 * MaxAddr8 + 7
    /\ ZtopWrites \subseteq ZtopValues
    /\ CpuOps \subseteq [op : {"store", "clc"}, g : Granules]
    /\ \A w \in ZtopWrites, i \in CpuOps : i.g < 2 * (w.base \div 16) \/ 8 * i.g >= w.addr
    /\ Sweep \in [start8 : Granules, end8 : Granules]
    /\ BusErrors \in BOOLEAN /\ RestartWhileActive \in BOOLEAN

VARIABLES
    mem,              \* [Granules -> Cells]
    id,               \* the instruction in ID/EX
    done_req,         \* the request that awaits its response
    taken             \* the engine request the unit took last (history)

vars == <<tbreVars, trvkVars, stkzVars, wrapperVars, lsu, mem, id, done_req, taken>>

Other == [op |-> "other"]
Instrs == {Other} \cup CpuOps \cup [op : {"ztop"}, w : ZtopWrites]

Blank == [word |-> "data", lt |-> FALSE, mt |-> FALSE]
Quiet == [we |-> FALSE, cell |-> Blank, err |-> FALSE]
NoRequest == [who |-> "none", we |-> FALSE, addr |-> 0]

\* As in TbreSystem: a capability is two tagged words.
Holds(cell) == IF cell.word \in CapIds /\ cell.lt /\ cell.mt THEN CapOf[cell.word] ELSE NoCap

Init ==
    /\ TbreInit /\ TrvkInit /\ StkzInit /\ WrapperInit /\ PortInit
    /\ mem \in [Granules -> {[word |-> c, lt |-> TRUE, mt |-> TRUE] : c \in CapIds}]
    /\ id = Other
    /\ done_req = Quiet
    /\ taken = NoRequest

cpu_lsu_dec == id.op \in {"store", "clc"}
ztop_write == IF id.op = "ztop" THEN id.w ELSE NoWrite

\* What the wrapper presents to the load-store unit; addr is a word address.
Presented(blk1) ==
    LET who == mstr_arbit_comb(stkz_lsu_req, blk1)
    IN  IF who = "tbre"
        THEN [who |-> who, we |-> tbre_sch = "SCH_STORE",
              addr |-> 2 * (IF tbre_sch = "SCH_LOAD" THEN cur_load_addr8 ELSE req_fifo[head].addr8)]
        ELSE [who |-> who, we |-> TRUE, addr |-> stkz_ptrw_nxt]

\* The zeroiser clears one word and its tag; the revocation engine writes the
\* lower word back as it was loaded, with tag 0.
Written(req, cell) ==
    IF req.who = "tbre" THEN [cell EXCEPT !.word = cap_fifo[head].word, !.lt = FALSE]
    ELSE IF req.addr % 2 = 0 THEN [cell EXCEPT !.word = "zero", !.lt = FALSE]
    ELSE [cell EXCEPT !.mt = FALSE]

MemUpdate(engDone, cpuDone, req, err) ==
    mem' = IF engDone /\ req.we /\ ~err
           THEN [mem EXCEPT ![req.addr \div 2] = Written(req, @)]
           ELSE IF cpuDone /\ id.op = "store" /\ ~err THEN [mem EXCEPT ![id.g] = Blank]
           ELSE mem

DoneUpdate(engDone, cpuDone, req, err, resp) ==
    done_req' = IF engDone
                THEN [we |-> req.we, err |-> err,
                      cell |-> IF req.we THEN Blank ELSE mem[req.addr \div 2]]
                ELSE IF cpuDone
                THEN [we |-> id.op = "store", err |-> err,
                      cell |-> IF id.op = "store" THEN Blank ELSE mem[id.g]]
                ELSE IF resp THEN Quiet ELSE done_req

Cycle(resp, done, err, go) ==
    LET engResp  == resp /\ lsu.who = "tbre"
        tbreResp == engResp /\ resp_sel_q
        stkzResp == engResp /\ ~resp_sel_q
        blk1     == tbre_lsu_req(tbreResp, FALSE)
        engGood  == (stkz_lsu_req \/ blk1) /\ ~cpu_lsu_dec
        who      == Server(resp, cpu_lsu_dec, engGood)
        engDone  == done /\ who = "tbre"
        cpuDone  == done /\ who = "cpu"
        req      == Presented(blk1)
    IN  /\ err => done /\ BusErrors
        /\ go => tbre_fsm = "TBRE_IDLE"
        /\ PortCycle(resp, cpu_lsu_dec, engGood, done)
        /\ WrapperCycle(stkz_lsu_req, blk1, who = "tbre", engDone)
        /\ StkzCycle(ztop_write, FALSE, engDone /\ req.who = "stkz", stkzResp /\ done_req.err)
        /\ TbreCycle([go |-> go, start8 |-> Sweep.start8, end8 |-> Sweep.end8],
                     engDone /\ req.who = "tbre", tbreResp, done_req.err, done_req.we,
                     [word |-> done_req.cell.word, tag |-> done_req.cell.lt],
                     IF cpuDone /\ id.op = "store" THEN id.g ELSE -1, tbre_trvk_en, trvk_clrtag)
        /\ TrvkCycle(IF cpuDone /\ id.op = "clc" THEN "rd" ELSE "none", resp /\ lsu.who = "cpu", done_req.err,
                     engResp /\ ~done_req.we, done_req.err,
                     Holds(done_req.cell), {tsmap_ptr(CapOf[c]) : c \in CapIds})
        /\ MemUpdate(engDone, cpuDone, req, err)
        /\ DoneUpdate(engDone, cpuDone, req, err, resp)
        /\ IF cpu_lsu_dec /\ ~cpuDone THEN id' = id ELSE id' \in Instrs
        /\ id'.op = "ztop" /\ stkz_start(id'.w) => RestartWhileActive \/ stkz_fsm' = "STKZ_IDLE"
        /\ taken' = IF who = "tbre" /\ lsu.st # "busy" THEN req ELSE taken

Next == \E resp, done, err, go \in BOOLEAN : Cycle(resp, done, err, go)

Spec == Init /\ [][Next]_vars

-----------------------------------------------------------------------------
(* Properties. *)

\* The request on the load-store unit does not change under it, whatever the
\* other engine or the CPU does before it is done: same engine, same address,
\* same direction.  It needs software that starts no run of the zeroiser
\* during one: a start loads stkz_ptrw_nxt in every state of the engine, and
\* moves the address of a store that waits.
RequestHeld ==
    lsu.st = "busy" /\ lsu.who = "tbre" => Presented(tbre_lsu_req(FALSE, FALSE)) = taken

\* The response goes to the engine whose request it answers.
ResponseToOwner ==
    lsu.st = "resp" /\ lsu.who = "tbre" => resp_sel_q = (taken.who = "tbre")

\* The FIFOs of the revocation engine stay aligned beside the zeroiser, whose
\* responses come over the same wires.
FifosAligned ==
    /\ os_req_cnt <= FifoSize
    /\ Dist(cap_wr_ptr) <= os_req_cnt
    /\ Dist(shdw_wr_ptr) <= Dist(cap_wr_ptr)

\* cheri_tbre.sv:253-254: an invalidating store is issued only if there was no
\* write collision on the address.  Refuted: stores of the zeroiser are not
\* snooped, and a word it has cleared gets its old contents back.
ClearedStaysCleared ==
    [][\A g \in Granules :
          mem[g].word = "zero" /\ mem'[g].word # "zero" => lsu'.who = "cpu"]_vars
=============================================================================
