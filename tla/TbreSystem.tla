----------------------------- MODULE TbreSystem -----------------------------
(***************************************************************************)
(* A revocation sweep at work: the engine of module Tbre, the look-up      *)
(* pipeline of module Trvk that it shares with the CPU's capability loads, *)
(* the load-store unit (module LsuPort), the memory and the shadow bits.   *)
(* One step is one clock cycle.                                            *)
(*                                                                         *)
(* A granule of memory is two 33-bit words, each with a tag bit: the lower *)
(* word (what the engine writes back) and the tags are kept.  It holds a   *)
(* capability when both tags are set.                                      *)
(***************************************************************************)
EXTENDS Tbre, Trvk, LsuPort

CONSTANTS
    CapIds,           \* names of the capabilities around
    CapOf,            \* [CapIds -> Capabilities]
    CpuOps,           \* what the CPU does: loads and stores of granules
    Sweeps,           \* the regions firmware asks for: [start8, end8]
    Add1Wait          \* the add1wait control bit

Granules == 0 .. MaxAddr8
LowWords == CapIds \cup {"data"}
Cells == [word : LowWords, lt : BOOLEAN, mt : BOOLEAN]

\* "clc": load a capability; "csc": store the capability c, tagged; "swl",
\* "swm": store data to the lower or the upper word; "free": set the shadow bit
\* of c, a store to the shadow map.
ASSUME TbreSystemAssumption ==
    /\ CapOf \in [CapIds -> Capabilities] /\ "data" \notin CapIds
    /\ CpuOps \subseteq [op : {"clc", "swl", "swm"}, g : Granules]
                        \cup [op : {"csc"}, g : Granules, c : CapIds]
                        \cup [op : {"free"}, c : CapIds]
    /\ Sweeps \subseteq [start8 : Granules, end8 : Granules]
    /\ Add1Wait \in BOOLEAN

VARIABLES
    mem,              \* [Granules -> Cells]
    revoked,          \* the capabilities software has freed: the shadow bits it has set
    id,               \* the instruction in ID/EX
    sweep,            \* the control registers [start8, end8]
    done_req,         \* the request that awaits its response: kind, what was read, error
    claim,            \* capabilities revoked when the sweep started (history)
    stored,           \* granules the CPU has changed since then (history)
    struck            \* granules with an entry struck out by a CPU store that
                      \* failed (history)

history == <<claim, stored, struck>>
vars == <<tbreVars, trvkVars, lsu, mem, revoked, id, sweep, done_req, history>>

Other == [op |-> "other"]
Quiet == [we |-> FALSE, cell |-> [word |-> "data", lt |-> FALSE, mt |-> FALSE], err |-> FALSE]

\* The shadow bits that are set, and the capabilities they revoke: those whose
\* base has such a bit in the map.
ShadowBits == {tsmap_ptr(CapOf[c]) : c \in revoked}
Revoked == {c \in CapIds : range_ok(CapOf[c]) /\ tsmap_ptr(CapOf[c]) \in ShadowBits}

Holds(cell) == IF cell.word \in CapIds /\ cell.lt /\ cell.mt THEN CapOf[cell.word] ELSE NoCap

-----------------------------------------------------------------------------

Init ==
    /\ TbreInit /\ TrvkInit /\ PortInit
    /\ mem \in [Granules -> {[word |-> c, lt |-> TRUE, mt |-> TRUE] : c \in CapIds}]
    /\ revoked \in SUBSET CapIds
    /\ id = Other
    /\ sweep \in Sweeps
    /\ done_req = Quiet
    /\ claim = {}
    /\ stored = {} /\ struck = {}

cpu_lsu_dec == id.op # "other"
IsStore(i) == i.op \in {"csc", "swl", "swm"}

\* The cell a CPU store leaves behind.
Stored(i, cell) ==
    IF i.op = "csc" THEN [word |-> i.c, lt |-> TRUE, mt |-> TRUE]
    ELSE IF i.op = "swl" THEN [cell EXCEPT !.word = "data", !.lt = FALSE]
    ELSE [cell EXCEPT !.mt = FALSE]

\* The invalidating store: the lower word as it was loaded, with tag 0.
Invalidated(cell) == [cell EXCEPT !.word = cap_fifo[head].word, !.lt = FALSE]

\* What the request done in this cycle does to memory; a request answered
\* with an error does nothing.
MemUpdate(tbreDone, cpuDone, err) ==
    mem' = IF tbreDone /\ ~err /\ tbre_sch = "SCH_STORE"
           THEN [mem EXCEPT ![req_fifo[head].addr8] = Invalidated(@)]
           ELSE IF cpuDone /\ ~err /\ IsStore(id)
           THEN [mem EXCEPT ![id.g] = Stored(id, @)]
           ELSE mem

DoneUpdate(tbreDone, cpuDone, err, resp) ==
    done_req' = IF tbreDone
                THEN [we |-> tbre_sch = "SCH_STORE", err |-> err,
                      cell |-> IF tbre_sch = "SCH_LOAD" THEN mem[cur_load_addr8] ELSE Quiet.cell]
                ELSE IF cpuDone
                THEN [we |-> id.op # "clc", err |-> err,
                      cell |-> IF id.op = "clc" THEN mem[id.g] ELSE Quiet.cell]
                ELSE IF resp THEN Quiet ELSE done_req

\* The engine has an entry for granule g that is not struck out.
Queued(g) == \E p \in Ptrs : Dist(p) < os_req_cnt /\ req_fifo[Slot(p)] = [addr8 |-> g, valid |-> TRUE]

\* What happened since the sweep started.  A CPU store that ends in an error, of
\* the bus or because cheri_ex refuses it, is done for the snoop all the same.
HistoryUpdate(starts, cpuStore, err) ==
    /\ claim' = IF starts THEN Revoked ELSE claim
    /\ stored' = IF starts THEN {} ELSE IF cpuStore /\ ~err THEN stored \cup {id.g} ELSE stored
    /\ struck' = IF starts THEN {} ELSE IF cpuStore /\ err /\ Queued(id.g) THEN struck \cup {id.g} ELSE struck

Cycle(resp, done, err, go) ==
    LET tbreResp  == resp /\ lsu.who = "tbre"
        cpuResp   == resp /\ lsu.who = "cpu"
        tbreGood  == tbre_lsu_req(tbreResp, Add1Wait) /\ ~cpu_lsu_dec
        who       == Server(resp, cpu_lsu_dec, tbreGood)
        tbreDone  == done /\ who = "tbre"
        cpuDone   == done /\ who = "cpu"
        ctrl      == [go |-> go, start8 |-> sweep.start8, end8 |-> sweep.end8]
        rdata     == [word |-> done_req.cell.word, tag |-> done_req.cell.lt]
    IN  /\ err => done
        /\ go => tbre_fsm = "TBRE_IDLE"
        /\ PortCycle(resp, cpu_lsu_dec, tbreGood, done)
        /\ DoneUpdate(tbreDone, cpuDone, err, resp)
        /\ TbreCycle(ctrl, tbreDone, tbreResp, done_req.err, done_req.we, rdata,
                     IF cpuDone /\ IsStore(id) THEN id.g ELSE -1,
                     tbre_trvk_en, trvk_clrtag)
        /\ TrvkCycle(IF cpuDone /\ id.op = "clc" THEN "rd" ELSE "none",
                     cpuResp, done_req.err, tbreResp /\ ~done_req.we, done_req.err,
                     Holds(done_req.cell), ShadowBits)
        /\ MemUpdate(tbreDone, cpuDone, err)
        /\ revoked' = IF cpuDone /\ ~err /\ id.op = "free" THEN revoked \cup {id.c} ELSE revoked
        /\ IF cpu_lsu_dec /\ ~cpuDone THEN id' = id ELSE id' \in CpuOps \cup {Other}
        /\ HistoryUpdate(go /\ tbre_fsm = "TBRE_IDLE", cpuDone /\ IsStore(id), err)
        /\ UNCHANGED sweep

Next == \E resp, done, err, go \in BOOLEAN : Cycle(resp, done, err, go)

Spec == Init /\ [][Next]_vars

\* The master that a cycle serves.
MasterServed(resp) == Server(resp, cpu_lsu_dec, tbre_lsu_req(resp /\ lsu.who = "tbre", Add1Wait) /\ ~cpu_lsu_dec)

\* The bus answers, and the CPU now and then executes something
\* other than loads and stores, with the unit able to serve the engine then.
Responds   == \E done, err, go \in BOOLEAN : Cycle(TRUE, done, err, go)
Completes  == \E resp, err, go \in BOOLEAN : Cycle(resp, TRUE, err, go)
ServesTbre == \E resp, done, err, go \in BOOLEAN :
                 MasterServed(resp) = "tbre" /\ Cycle(resp, done, err, go)
LsuIdles   == \E resp, done, err, go \in BOOLEAN :
                 /\ cpu_lsu_dec => done /\ MasterServed(resp) = "cpu"
                 /\ id' = Other
                 /\ Cycle(resp, done, err, go)

Fairness == /\ WF_vars(Responds)
            /\ WF_vars(Completes)
            /\ SF_vars(ServesTbre)
            /\ SF_vars(LsuIdles)

FairSpec == Spec /\ Fairness

-----------------------------------------------------------------------------
(* Properties. *)

\* An invalidating store only takes the tag off a revoked capability: the word
\* it writes back is the one in memory, never one the CPU has replaced.
OnlyClearsTags ==
    [][\A g \in Granules :
          mem'[g] # mem[g] /\ lsu'.who = "tbre" =>
             /\ mem'[g] = [mem[g] EXCEPT !.lt = FALSE]
             /\ mem[g].word \in Revoked]_vars

\* Granule g holds a capability that was revoked when the sweep started.
LeftRevoked(g) == mem[g].word \in claim /\ mem[g].lt /\ mem[g].mt

\* An error response to the engine is in tbre_err, or about to be: that to
\* the last store comes when the engine may be idle again.
Reported == tbre_err \/ (lsu.st = "resp" /\ lsu.who = "tbre" /\ done_req.err)

\* When a sweep has ended, no granule of the region holds a capability that was
\* revoked when it started, except where the CPU has stored it since, where
\* a CPU store that failed has struck out the engine's entry (see
\* RevokedIsCleared), and if an error response was reported.
\* (cheri_tbre.sv: the walk, the three FIFOs and the snoop.)
SweepComplete ==
    tbre_fsm = "TBRE_IDLE" =>
        \A g \in sweep.start8 .. sweep.end8 :
            LeftRevoked(g) => g \in stored \/ g \in struck \/ Reported

\* The same without the second exception, as README.md:81 has it ("If a match is
\* found, the tag of the capability is cleared"): a store that failed has
\* not replaced what the engine was to clear.  Not so in cheri_tbre.sv:236.
RevokedIsCleared ==
    tbre_fsm = "TBRE_IDLE" =>
        \A g \in sweep.start8 .. sweep.end8 : LeftRevoked(g) => g \in stored \/ Reported

\* A sweep ends: the walk, the FIFOs and the stores do not wait on each other.
SweepEnds == tbre_fsm # "TBRE_IDLE" ~> tbre_fsm = "TBRE_IDLE"
=============================================================================
