------------------------------- MODULE IfStage -------------------------------
(***************************************************************************)
(* The instruction fetch stage (ibex_if_stage.sv) around the prefetcher:   *)
(* the check of every instruction against the bounds of PCC, the registers *)
(* between IF and ID and the PC increment check of a hardened core         *)
(* (PCIncrCheck), together with the instruction bus and the core's         *)
(* redirections of the PC.                                                 *)
(*                                                                         *)
(* One step is one clock cycle.  The bus, the ID stage and the controller  *)
(* are inputs: grants, responses in order, errors, whether ID takes an     *)
(* instruction, and branches, which set PC and PCC in the same cycle.      *)
(***************************************************************************)
EXTENDS Prefetch

CONSTANTS
    Boot,             \* where the core starts: a branch target
    Branches          \* the redirections: [addr, pcc]

\* Bounds are byte addresses; exec stands for tag, permission and seal, and
\* debug for debug mode, which the controller enters and leaves by a branch.
Pccs == [base : 0 .. 2 * HalfCount, top : 0 .. 2 * HalfCount, exec : BOOLEAN, debug : BOOLEAN]

ASSUME IfAssumption ==
    /\ Branches \subseteq [addr : Halves, pcc : Pccs]
    /\ Boot \in [addr : Halves, pcc : Pccs]

VARIABLES
    pcc,              \* pcc_cap_q of the CSRs, and debug_mode_q
    id,               \* pc_id_o and instr_is_compressed_id_o
    issued,           \* the instruction that entered ID in the last cycle
    prev_instr_seq_q, \* the next PC must follow the one in id
    bus,              \* requests granted and not answered (external)
    held,             \* the request presented and not granted in the last cycle (history)
    next_pc           \* the address the program is to execute next (history)

vars == <<prefetchVars, pcc, id, issued, prev_instr_seq_q, bus, held, next_pc>>

Unknown == -1                      \* next_pc after an erred instruction
NoRequest == [addr |-> -1, old |-> FALSE]
NoBr == [addr |-> NoBranch]
Nothing == [valid |-> FALSE, why |-> "waits"]
Flushed == [valid |-> FALSE, why |-> "branch"]
NoData == [word |-> NoWord, err |-> FALSE, old |-> FALSE]

Init ==
    /\ PrefetchInit(Boot.addr)
    /\ pcc = Boot.pcc
    /\ id = [pc |-> 0, is_compressed |-> FALSE]
    /\ issued = Nothing
    /\ prev_instr_seq_q = FALSE
    /\ bus = <<>>
    /\ held = NoRequest
    /\ next_pc = Boot.addr

-----------------------------------------------------------------------------
(* Checks against PCC.  if_instr_addr is instr_addr_q; 2 * HalfCount is 2^32. *)

instr_hdrm == pcc.top - 2 * instr_addr_q
allow_all == pcc.base = 0 /\ pcc.top = 2 * HalfCount
base_ok == ~(2 * instr_addr_q < pcc.base)

\* A slip: the check looks at the first two bytes only.
HdrmTwo(is_compressed) == allow_all \/ instr_hdrm >= 2

hdrm_ok(is_compressed) == allow_all \/ instr_hdrm >= (IF is_compressed THEN 2 ELSE 4)

cheri_bound_vio(is_compressed) == ~pcc.debug /\ (~base_ok \/ ~hdrm_ok(is_compressed))
cheri_acc_vio == ~pcc.debug /\ ~pcc.exec
cheri_force_uc == ~allow_all /\ (~base_ok \/ instr_hdrm < 4)

-----------------------------------------------------------------------------
(* A cycle.  in: the data wires; br: a member of Branches or NoBr.           *)

instr_is_compressed(in) == out_lo(in).half \in Compressed

if_instr_err(in) ==
    \/ out_err(in, cheri_force_uc)
    \/ cheri_acc_vio \/ cheri_bound_vio(instr_is_compressed(in))

Registers(in, br) ==
    [valid |-> TRUE, pc |-> instr_addr_q, pcc |-> pcc,
     want |-> IF br # NoBr THEN br.addr ELSE next_pc,
     lo |-> out_lo(in), hi |-> out_hi(in),
     err |-> if_instr_err(in), err_plus2 |-> out_err_plus2(in),
     vio |-> cheri_acc_vio \/ cheri_bound_vio(instr_is_compressed(in))]

\* The registers are written whenever ID is ready; a branch in the same cycle
\* leaves them invalid.
IdUpdate(in, new, br) ==
    /\ id' = IF new THEN [pc |-> instr_addr_q, is_compressed |-> instr_is_compressed(in)] ELSE id
    /\ issued' = IF br # NoBr THEN Flushed ELSE IF new THEN Registers(in, br) ELSE Nothing

\* A slip: the check is not suspended by a branch.
SeqDespiteBranch(in, new, br) ==
    prev_instr_seq_q' = ((prev_instr_seq_q \/ new) /\ ~if_instr_err(in))

SeqUpdate(in, new, br) ==
    prev_instr_seq_q' = ((prev_instr_seq_q \/ new) /\ br = NoBr /\ ~if_instr_err(in))

pc_mismatch_alert ==
    prev_instr_seq_q /\ instr_addr_q # Plus(id.pc, IF id.is_compressed THEN 1 ELSE 2)

\* The bus answers requests in order.  A branch makes everything asked for
\* before it old; a request that waits keeps its age.
BusUpdate(req, br, gnt, rvalid) ==
    LET old     == (branch(br.addr) /\ valid_req_q) \/ held.old
        asked   == [addr |-> WordOf(instr_addr(br.addr)), old |-> old]
        granted == valid_req(req, br.addr) /\ gnt
        aged    == [i \in DOMAIN bus |-> [bus[i] EXCEPT !.old = @ \/ branch(br.addr)]]
        grown   == IF granted THEN Append(aged, [word |-> asked.addr, old |-> old]) ELSE aged
    IN  /\ bus' = IF rvalid THEN Tail(grown) ELSE grown
        /\ held' = IF valid_req(req, br.addr) /\ ~gnt THEN asked ELSE NoRequest

\* What the data wires show: the word asked for, which an error makes
\* unusable, or nothing in particular when there is no response.
DataWires(rvalid, err) ==
    IF rvalid THEN [word |-> bus[1].word, err |-> err, old |-> bus[1].old]
    ELSE [NoData EXCEPT !.err = err]

\* The program continues after the instruction handed on, or at the branch target.
NextPcUpdate(in, new, br) ==
    next_pc' = IF br # NoBr THEN br.addr
               ELSE IF ~new THEN next_pc
               ELSE IF next_pc = Unknown \/ if_instr_err(in) THEN Unknown
               ELSE Plus(next_pc, IF next_pc \in Compressed THEN 1 ELSE 2)

Cycle(req, br, gnt, rvalid, err, ready) ==
    LET in  == DataWires(rvalid, err)
        new == ready /\ out_valid(in, fifo_valid(rvalid), cheri_force_uc)
    IN  /\ rvalid => bus # <<>>
        /\ gnt => valid_req(req, br.addr)
        /\ PrefetchCycle(req, br.addr, gnt, rvalid, in, ready, cheri_force_uc)
        /\ IdUpdate(in, new, br)
        /\ SeqUpdate(in, new, br)
        /\ NextPcUpdate(in, new, br)
        /\ BusUpdate(req, br, gnt, rvalid)
        /\ pcc' = IF br # NoBr THEN br.pcc ELSE pcc

Next == \E req, gnt, rvalid, err, ready \in BOOLEAN, br \in Branches \cup {NoBr} :
           Cycle(req, br, gnt, rvalid, err, ready)

Spec == Init /\ [][Next]_vars

\* Between branches the bus grants and answers every request, and ID takes an
\* instruction in the end.  (With branches for ever FetchGoesOn holds anyway.)
Grants  == \E rvalid, err, ready \in BOOLEAN : Cycle(TRUE, NoBr, TRUE, rvalid, err, ready)
Answers == \E req, gnt, err, ready \in BOOLEAN : Cycle(req, NoBr, gnt, TRUE, err, ready)
Takes   == \E req, gnt, rvalid, err \in BOOLEAN :
              Cycle(req, NoBr, gnt, rvalid, err, TRUE) /\ issued'.valid

Fairness == WF_vars(Grants) /\ WF_vars(Answers) /\ WF_vars(Takes)
FairSpec == Spec /\ Fairness

-----------------------------------------------------------------------------
(* Properties. *)

TypeOK ==
    /\ PrefetchTypeOK
    /\ pcc \in Pccs
    /\ prev_instr_seq_q \in BOOLEAN
    /\ bus \in Seq([word : Words, old : BOOLEAN])
    /\ next_pc \in Halves \cup {Unknown}
    /\ id \in [pc : Halves, is_compressed : BOOLEAN]
    /\ held \in [addr : Words \cup {-1}, old : BOOLEAN]

\* An instruction that reaches ID without an error is the next one of the
\* program, in one piece: its halfwords are those at its address and the next,
\* none from a fetch made before the last branch (FENCE.I relies on it), none
\* from a word answered with an error.
InstructionIntact ==
    issued.valid /\ ~issued.err /\ issued.want # Unknown =>
        LET need == IF issued.want \in Compressed THEN {issued.lo} ELSE {issued.lo, issued.hi}
        IN  /\ issued.pc = issued.want
            /\ issued.lo.half = issued.want
            /\ issued.want \notin Compressed => issued.hi.half = Plus(issued.want, 1)
            /\ \A h \in need : ~h.err /\ ~h.old

\* An instruction is refused only for an error of its own words, or of PCC, and
\* mtval (pc or pc + 2) names the first of its words that failed.
ErrorIsItsOwn ==
    issued.valid /\ issued.err /\ ~issued.vio =>
        /\ issued.lo.err \/ (issued.hi.err /\ issued.lo.half \notin Compressed)
        /\ issued.err_plus2 = ~issued.lo.err

\* Outside debug mode no instruction without an error reaches beyond PCC, also
\* where it wraps around the address space.
FetchAuthorised ==
    issued.valid /\ ~issued.err /\ ~issued.pcc.debug =>
        \A b \in 0 .. (IF issued.lo.half \in Compressed THEN 1 ELSE 3) :
            LET a == (2 * issued.pc + b) % (2 * HalfCount)
            IN  issued.pcc.base <= a /\ a < issued.pcc.top

\* ibex_fetch_fifo.sv, IbexFetchFifoPushFull: no word arrives at a full FIFO.
PushNeverFull == bus # <<>> /\ ~outstanding[1] => Len(fifo) < DEPTH

\* The prefetcher and the bus agree on what is to come, and on what of it was
\* asked for before the last branch and will be thrown away.
OutstandingAgree ==
    /\ Len(outstanding) = Len(bus)
    /\ \A i \in DOMAIN bus : outstanding[i] = bus[i].old

\* A request stays on the bus, at the same address, until it is granted.
RequestStable ==
    /\ valid_req_q = (held # NoRequest)
    /\ valid_req_q => WordOf(instr_addr(NoBranch)) = held.addr
    /\ \A b \in Branches : valid_req_q => WordOf(instr_addr(b.addr)) = held.addr

\* While the core asks for instructions it gets them, or branches: no branch,
\* discarded word or full FIFO leaves the prefetcher waiting for ever.
FetchGoesOn == issued = Nothing ~> issued # Nothing

\* The PC increment check of a hardened core raises no alert by itself.
NoFalseAlert == ~pc_mismatch_alert
=============================================================================
