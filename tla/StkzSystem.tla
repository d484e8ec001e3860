----------------------------- MODULE StkzSystem -----------------------------
(***************************************************************************)
(* The stack zeroiser at work: the engine of module Stkz, the load-store   *)
(* unit it shares with the CPU (module LsuPort), the memory both write,    *)
(* and the part of rtl/cheri_ex.sv that keeps the CPU away from the words  *)
(* still to be cleared.  One step is one clock cycle.                      *)
(*                                                                         *)
(* A memory word is labelled by where its contents come from, relative to  *)
(* the latest start of the engine: "old" (from before it), "zero" (cleared *)
(* since) or "new" (stored by the CPU since).                              *)
(***************************************************************************)
EXTENDS Stkz, LsuPort

CONSTANTS
    ZtopWrites,           \* the values software writes to ZTOPC
    CpuAccesses,          \* the loads and stores the CPU makes
    StkZIntrOK,           \* parameter of cheri_tbre_wrapper: interrupts stop the engine
    WriteWhileActive      \* whether software writes ZTOPC while the engine runs

ASSUME ZtopWritesAssumption == ZtopWrites \subseteq ZtopValues
ASSUME CpuAccessesAssumption ==
    CpuAccesses \subseteq [op : {"load", "store"}, cap : BOOLEAN, addr : 0 .. AddrMax - 7]
ASSUME FlagsAssumption == StkZIntrOK \in BOOLEAN /\ WriteWhileActive \in BOOLEAN

VARIABLES
    mem,                  \* [Words -> {"old", "zero", "new"}]
    id,                   \* the instruction in the ID/EX stage
    instr_first_cycle,    \* it is in its first cycle there
    stkz_stall_q,         \* the CPU was held back in the previous cycle
    lsuErr,               \* the done request will get an error response
    run,                  \* the ZTOPC value that started the latest run (history)
    readback              \* ZTOPC has not been written since (history)

vars == <<stkzVars, lsu, mem, id, instr_first_cycle, stkz_stall_q, lsuErr, run, readback>>

Other == [op |-> "other"]
Instrs == {Other} \cup CpuAccesses \cup [op : {"ztop"}, w : ZtopWrites]

-----------------------------------------------------------------------------
(* The CPU side. *)

cpu_lsu_dec == id.op \in {"load", "store"}

\* The words an access touches: both halves of a capability (its address is
\* 8-byte aligned), and both words of a misaligned data access.
Touched(i) == {Word(i.addr)} \cup (IF i.cap \/ i.addr % 4 # 0 THEN {Word(i.addr) + 1} ELSE {})

\* The address the CPU presents; incr: the unit asked for the second word.
cpu_lsu_addr(incr) == IF incr THEN 4 * (Word(id.addr) + 1) ELSE id.addr

\* Slips a designer could make here (see the mutants in PROJECT.json).
RangeMissesCurrentWord(incr) ==
    /\ cpu_lsu_dec
    /\ cpu_lsu_addr(incr) \div 16 >= (4 * stkz_basew) \div 16
    /\ Word(cpu_lsu_addr(incr)) < stkz_ptrw_nxt

RangeMissesBaseBlock(incr) ==
    /\ cpu_lsu_dec
    /\ cpu_lsu_addr(incr) \div 16 > (4 * stkz_basew) \div 16
    /\ Word(cpu_lsu_addr(incr)) < stkz_ptrw

lsu_addr_in_stkz_range(incr) ==
    /\ cpu_lsu_dec
    /\ cpu_lsu_addr(incr) \div 16 >= (4 * stkz_basew) \div 16
    /\ Word(cpu_lsu_addr(incr)) < stkz_ptrw

cpu_stall_by_stkz(incr) == stkz_active /\ lsu_addr_in_stkz_range(incr)

GrantInFirstCycleOnly == instr_first_cycle /\ stkz_stall_q

cpu_grant_to_stkz == ~instr_first_cycle /\ stkz_stall_q

\* The ZTOPC write of this cycle: cspecialrw takes one cycle in ID/EX.
ztop_write == IF id.op = "ztop" THEN id.w ELSE NoWrite

-----------------------------------------------------------------------------
(* The cycle. *)

Init ==
    /\ StkzInit
    /\ PortInit
    /\ mem = [x \in Words |-> "old"]
    /\ id = Other
    /\ instr_first_cycle = TRUE
    /\ stkz_stall_q = FALSE
    /\ lsuErr = FALSE
    /\ run = NoWrite
    /\ readback = FALSE

cpu_req_valid == cpu_lsu_dec /\ ~cpu_stall_by_stkz(FALSE)

tbre_req_good == stkz_lsu_req /\ (cpu_lsu_dec => cpu_grant_to_stkz)

\* The address only moves to the second word once the first is on the bus.
IncrPossible(incr) == incr => /\ lsu.st = "busy"
                              /\ lsu.who = "cpu"
                              /\ cpu_lsu_dec
                              /\ Touched(id) # {Word(id.addr)}

\* What the request that is done in this cycle does to memory.  A request
\* answered with an error does nothing.
MemUpdate(stkzDone, cpuDone, err) ==
    mem' = IF stkz_start(ztop_write) THEN [x \in Words |-> "old"]
           ELSE IF stkzDone /\ ~err THEN [mem EXCEPT ![stkz_ptrw_nxt] = "zero"]
           ELSE IF cpuDone /\ ~err /\ id.op = "store"
           THEN [x \in Words |-> IF x \in Touched(id) THEN "new" ELSE mem[x]]
           ELSE mem

\* The instruction leaves ID/EX when it is complete: a load or store when its
\* request is done, anything else after one cycle.
IdUpdate(cpuDone) ==
    IF cpu_lsu_dec /\ ~cpuDone
    THEN id' = id /\ instr_first_cycle' = FALSE
    ELSE /\ id' \in Instrs
         /\ id'.op = "ztop" => WriteWhileActive \/ stkz_fsm' = "STKZ_IDLE"
         /\ instr_first_cycle' = TRUE

Cycle(resp, done, err, intr, incr) ==
    LET who      == Server(resp, cpu_req_valid, tbre_req_good)
        stkzDone == done /\ who = "tbre"
        cpuDone  == done /\ who = "cpu"
    IN  /\ intr => StkZIntrOK
        /\ err => done
        /\ IncrPossible(incr)
        /\ PortCycle(resp, cpu_req_valid, tbre_req_good, done)
        /\ StkzCycle(ztop_write, intr, stkzDone, resp /\ lsu.who = "tbre" /\ lsuErr)
        /\ MemUpdate(stkzDone, cpuDone, err)
        /\ IdUpdate(cpuDone)
        /\ stkz_stall_q' = cpu_stall_by_stkz(incr)
        /\ lsuErr' = IF done THEN err ELSE lsuErr /\ ~resp
        /\ run' = IF stkz_start(ztop_write) THEN ztop_write ELSE run
        /\ readback' = IF ztop_wr(ztop_write) THEN stkz_start(ztop_write) ELSE readback

Next == \E resp, done, err, intr, incr \in BOOLEAN : Cycle(resp, done, err, intr, incr)

\* The clock runs; the bus answers every request and every transaction; the CPU does not
\* execute loads and stores only, and a unit that can infinitely often serve
\* the engine does so.
Responds   == \E done, err, intr, incr \in BOOLEAN : Cycle(TRUE, done, err, intr, incr)
Completes  == \E resp, err, intr, incr \in BOOLEAN : Cycle(resp, TRUE, err, intr, incr)
ServesStkz == \E resp, done, err, intr, incr \in BOOLEAN :
                 /\ Cycle(resp, done, err, intr, incr)
                 /\ Server(resp, cpu_req_valid, tbre_req_good) = "tbre"
LsuIdles   == Next /\ id'.op = "other"

Fairness == /\ WF_vars(Next)
            /\ WF_vars(Responds)
            /\ WF_vars(Completes)
            /\ SF_vars(ServesStkz)
            /\ SF_vars(LsuIdles)

Spec == Init /\ [][Next]_vars
FairSpec == Spec /\ Fairness
-----------------------------------------------------------------------------
(* Properties. *)

TypeOK ==
    /\ StkzTypeOK
    /\ PortTypeOK
    /\ mem \in [Words -> {"old", "zero", "new"}]
    /\ id \in Instrs
    /\ instr_first_cycle \in BOOLEAN
    /\ stkz_stall_q \in BOOLEAN
    /\ lsuErr \in BOOLEAN
    /\ run \in ZtopWrites \cup {NoWrite}
    /\ readback \in BOOLEAN

\* ZTOPC's readback never runs ahead of memory: from the progress address up
\* to the address the run started at every word has been cleared (or stored to
\* by the CPU since), unless an error response is on record or on its way.
ProgressIsCleared ==
    readback =>
        \A x \in stkz_ptrw .. Word(run.addr) - 1 :
            mem[x] # "old" \/ stkz_err \/ (lsuErr /\ lsu.who = "tbre")

\* The engine clears only words of the capability that started the run, even
\* when ZTOPC is rewritten while a clearing store waits for its grant.
ClearsOnlyItsRegion ==
    [][\A x \in Words : mem[x] # "zero" /\ mem'[x] = "zero" =>
            Word(run.base) <= x /\ x < Word(run.addr)]_vars

\* A CPU store made during a run is never wiped out by the engine, unless ZTOPC
\* has been rewritten since the run started.
NoLostStore == [][readback => \A x \in Words : mem[x] = "new" => mem'[x] # "zero"]_vars

\* While the engine runs (and ZTOPC has not been rewritten), no CPU access
\* completes on a word of the region that has not been cleared yet: a load would
\* see the contents to be erased, a store would be erased.
CpuSeesClearedOnly ==
    [][stkz_active /\ readback /\ cpu_lsu_dec /\ instr_first_cycle' =>
         \A x \in Touched(id) \cap (stkz_basew .. Word(run.addr) - 1) :
            mem[x] # "old" \/ stkz_err \/ (lsuErr /\ lsu.who = "tbre")]_vars

\* With interrupts unable to stop a run (StkZIntrOK = 0, as built), a started
\* ZTOPC value that still reads back tagged is being worked on: polling the tag
\* is a sound way to wait for the end of the run.
TaggedMeansRunning == ~StkZIntrOK /\ readback /\ ztop_rcap = "tagged" => stkz_active

\* A run ends, ...
RunEnds == stkz_active ~> ~stkz_active

\* ... and a CPU access held back by the engine is served in the end.
StalledAccessServed == (cpu_lsu_dec /\ ~instr_first_cycle) ~> instr_first_cycle

-----------------------------------------------------------------------------
(* What a comment says and the code does not do; refuted by a run.           *)

\* cheri_ex.sv:1115-1116: if the first word of an access was not in the range
\* to be cleared, its second word is not either.
SecondWordStaysOut ==
    stkz_active /\ IncrPossible(TRUE) => ~lsu_addr_in_stkz_range(TRUE)
=============================================================================
