-------------------------------- MODULE Trvk --------------------------------
(***************************************************************************)
(* The revocation look-up pipeline, rtl/cheri_trvk_stage.sv.  Every        *)
(* capability that the CPU (CLC) or the background revocation engine loads *)
(* enters the pipeline with the load's response; two cycles later the      *)
(* shadow bit of its base has been read, and in the third the verdict      *)
(* leaves it.  The two masters share the pipeline: a stage holds at most   *)
(* one operation, "tbre" or the register a CPU load is to fill.            *)
(*                                                                         *)
(* base8 is a base address in units of 8 bytes, the granularity of the     *)
(* shadow bits.                                                            *)
(***************************************************************************)
EXTENDS Integers

CONSTANTS
    Regs,              \* the register addresses
    HeapBase8,         \* HeapBase >> 3
    TSMapSize,         \* the size of the shadow map in map words
    MapWordBits,       \* bits in a map word (32)
    Addr8Space         \* number of 8-byte granules in the address space (2^29)

ASSUME TrvkAssumption ==
    /\ HeapBase8 \in Nat /\ TSMapSize \in Nat
    /\ MapWordBits \in Nat \ {0} /\ Addr8Space \in Nat \ {0}
    /\ Regs \cap {"none", "tbre"} = {}

VARIABLES
    reserved,          \* the register of the CLC awaiting its response, or "none"
    stage0, stage1, stage2

trvkVars == <<reserved, stage0, stage1, stage2>>

\* A loaded value that is not a tagged capability.
NoCap == [base8 |-> 0, sealing |-> TRUE, tag |-> FALSE]

Capabilities == [base8 : 0 .. Addr8Space - 1, sealing : BOOLEAN, tag : {TRUE}]

Ops == Regs \cup {"none", "tbre"}

\* (base32 - HeapBase) >> 3, in 29 bits
tsmap_ptr(c) == (c.base8 - HeapBase8) % Addr8Space

range_ok(c) == tsmap_ptr(c) \div MapWordBits <= TSMapSize /\ ~c.sealing

Empty0 == [op |-> "none", cap |-> NoCap]
Empty == [op |-> "none", clr |-> FALSE]

TrvkInit ==
    /\ reserved = "none"
    /\ stage0 = Empty0
    /\ stage1 = Empty
    /\ stage2 = Empty

-----------------------------------------------------------------------------
(* One clock cycle.  trsv: the register reserved by a CLC whose request is *)
(* done in this cycle, or "none"; cpuResp, cpuErr: a response to the CPU   *)
(* and its error; tbreLoad, tbreErr: a response to a load of the engine;   *)
(* cap: the capability on the response; revoked: the shadow bits that are  *)
(* set.                                                                    *)

trvk_op(cpuResp, tbreLoad) ==
    IF cpuResp /\ reserved # "none" THEN reserved
    ELSE IF tbreLoad THEN "tbre" ELSE "none"

cap_good(cpuResp, cpuErr, tbreLoad, tbreErr, cap) ==
    /\ cap.tag
    /\ (cpuResp /\ reserved # "none" /\ ~cpuErr) \/ (tbreLoad /\ ~tbreErr)

TrvkCycle(trsv, cpuResp, cpuErr, tbreLoad, tbreErr, cap, revoked) ==
    /\ reserved' = IF trsv # "none" THEN trsv
                   ELSE IF cpuResp THEN "none" ELSE reserved
    /\ stage0' = [op  |-> trvk_op(cpuResp, tbreLoad),
                  cap |-> IF cap_good(cpuResp, cpuErr, tbreLoad, tbreErr, cap)
                          THEN cap ELSE NoCap]
    /\ stage1' = [op  |-> stage0.op,
                  clr |-> stage0.cap.tag /\ range_ok(stage0.cap)
                          /\ tsmap_ptr(stage0.cap) \in revoked]
    /\ stage2' = stage1

(* The outputs. *)

rf_trvk_en == stage2.op \in Regs
tbre_trvk_en == stage2.op = "tbre"
trvk_clrtag == stage2.clr
=============================================================================
