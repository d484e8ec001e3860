----------------------------- MODULE Capability -----------------------------
(***************************************************************************)
(* The life of one capability: what the instructions of rtl/cheri_ex.sv    *)
(* make of it in a register, stores and loads, jumps into and reads of     *)
(* the program counter capability, and the special registers for traps.    *)
(* The capability is in one place at a time, in the form that place has:   *)
(* a copy that stays behind is not followed.  What other registers say     *)
(* (the authority to seal, to load and to store) is a free choice where    *)
(* the code leaves it one.  Outside debug mode, and faults for cleared     *)
(* tags (csr_dbg_tclr_fault_i) not enabled.                                *)
(***************************************************************************)
EXTENDS CapLib

CONSTANTS
    Lengths,     \* operands of the set-bounds instructions,
    Masks,       \* of CAndPerm,
    Otypes,      \* of CSeal, the low bits,
    Highs        \* and of CSetHigh

ASSUME OperandAssumption ==
    /\ Lengths \subseteq Addrs /\ Masks \subseteq SUBSET AllPerms /\ Otypes \subseteq 0 .. 7
    /\ Highs \subseteq 0 .. 2^TAG - 1

CPERMS_TX == 47
CPERMS_TM == 63
CPERMS_TS == 39

VARIABLES
    it8,         \* CheriCapIT8
    at,          \* "reg", "mem", "pcc" or "scr": MTCC or MEPCC
    cap,         \* a register's record, a word or the pcc's record
    addr         \* 0 in the pcc, which has none

vars == <<it8, at, cap, addr>>

Root(cperms) ==
    [valid |-> TRUE, exp |-> RESETEXP, top |-> 2^(TOP_W - 1), base |-> 0, top_cor |-> 0, base_cor |-> 0,
     otype |-> 0, cperms |-> cperms]

\* A capability that the core has after reset, read from its special register.
Init ==
    /\ it8 \in BOOLEAN
    /\ at = "reg" /\ addr = 0
    /\ cap \in {Root(p) : p \in {CPERMS_TX, CPERMS_TM, CPERMS_TS}}

fullcap == reg2fullcap(cap, addr)

Result(c, a) == at = "reg" /\ at' = at /\ cap' = c /\ addr' = a /\ UNCHANGED it8
Moved(from, to, c, a) == at = from /\ at' = to /\ cap' = c /\ addr' = a /\ UNCHANGED it8

-----------------------------------------------------------------------------

\* CSetAddr, CIncAddr, CIncAddrImm and CAuicgp, by the address they give
CSetAddr(a) ==
    \E f \in {fullcap} :
        Result([full2regcap(set_address(f, a)) EXCEPT !.valid = @ /\ ~is_cap_sealed(cap)], a)

\* CSetBounds and CSetBoundsImm, CSetBoundsExact, and CSetBoundsRoundDown
CSetBounds(len, req_exact) ==
    \E f \in {fullcap} : \E q \in {prep_bound_req(it8, f, addr, len)} :
        Result([set_bounds(f, addr, q, req_exact) EXCEPT !.valid = @ /\ ~is_cap_sealed(cap)], addr)
CSetBoundsRndn(len) ==
    \E f \in {fullcap} : \E q \in {prep_bound_req(it8, f, addr, len)} :
        Result([set_bounds_rndn(it8, f, addr, q) EXCEPT !.valid = @ /\ ~is_cap_sealed(cap)], addr)

CAndPerm(mask) ==
    Result([cap EXCEPT !.cperms = compress_perms(expand_perms(@) \cap mask),
                       !.valid = @ /\ (~is_cap_sealed(cap) \/ AllPerms \subseteq mask \cup {"GL"})], addr)

\* `allowed': neither addr_bound_vio nor perm_vio, which other registers decide,
\* but for the checks of this one.
CSeal(otype, allowed) ==
    /\ allowed => ~is_cap_sealed(cap) /\ otype # 0
    /\ Result([cap EXCEPT !.otype = otype, !.valid = @ /\ allowed], addr)
CUnseal(global, allowed) ==
    /\ allowed => is_cap_sealed(cap)
    /\ Result([cap EXCEPT !.otype = 0, !.valid = @ /\ allowed,
                          !.cperms = compress_perms(IF global THEN expand_perms(@) ELSE expand_perms(@) \ {"GL"})],
              addr)

CClearTag == Result([cap EXCEPT !.valid = FALSE], addr)
CSetHigh(high) == Result(mem2regcap(it8, high, addr, {}), addr)

\* CSC; without SL in the authority, a capability that is not global loses its tag.
CStoreCap(perm_vio_slc) ==
    /\ perm_vio_slc => cap.valid /\ "GL" \notin fullcap.perms
    /\ Moved("reg", "mem", reg2memcap(it8, [cap EXCEPT !.valid = @ /\ ~perm_vio_slc]), addr)
CLoadCap(clrperm) == Moved("mem", "reg", mem2regcap(it8, cap, addr, clrperm), addr)

\* CJALR to a capability that its registers and its type allow.
CJALR ==
    /\ cap.valid /\ "EX" \in fullcap.perms /\ cap.otype \in 0 .. 5
    /\ Moved("reg", "pcc", full2pcap([fullcap EXCEPT !.reg.otype = 0]), 0)

\* CAuipcc, and the link of CJAL and CJALR, a sentry or not
CAUIPCC(a, otype) ==
    Moved("pcc", "reg", [full2regcap(set_address(pcc2fullcap(cap), a)) EXCEPT !.otype = IF otype = 0 THEN @ ELSE otype], a)

\* A trap saves the pcc in MEPCC; MTCC (trap) or MEPCC (mret) becomes the pcc.
SaveCause(a, clrtag) == Moved("pcc", "scr", pcc2mepcc(cap, a, clrtag), a)
Redirect == Moved("scr", "pcc", full2pcap(fullcap), 0)

\* CSpecialRW: MTCC (align = 4) and MEPCC (2) take what is fit for the pcc.
ScrWrite(align) ==
    LET a == addr - (addr % align) IN
    Moved("reg", "scr",
          [full2regcap(set_address(fullcap, a)) EXCEPT
              !.valid = cap.valid /\ addr % align = 0 /\ "EX" \in fullcap.perms /\ cap.otype = 0], a)
ScrRead == Moved("scr", "reg", cap, addr)

Next ==
    \/ at = "reg" /\ \/ \E a \in Addrs : CSetAddr(a)
                     \/ \E len \in Lengths : CSetBoundsRndn(len) \/ \E exact \in BOOLEAN : CSetBounds(len, exact)
                     \/ \E mask \in Masks : CAndPerm(mask)
                     \/ \E otype \in Otypes, allowed \in BOOLEAN : CSeal(otype, allowed)
                     \/ \E global, allowed \in BOOLEAN : CUnseal(global, allowed)
                     \/ CClearTag \/ CJALR
                     \/ \E high \in Highs : CSetHigh(high)
                     \/ \E slc \in BOOLEAN : CStoreCap(slc)
                     \/ \E align \in {2, 4} : ScrWrite(align)
    \/ at = "mem" /\ \E clrperm \in SUBSET {"tag", "sdlm", "glg"} : CLoadCap(clrperm)
    \/ at = "pcc" /\ \E a \in Addrs : (\E otype \in {0, 4, 5} : CAUIPCC(a, otype))
                                         \/ \E clrtag \in BOOLEAN : SaveCause(a, clrtag)
    \/ at = "scr" /\ (Redirect \/ ScrRead)

Spec == Init /\ [][Next]_vars

-----------------------------------------------------------------------------
(* Properties.                                                              *)

\* What the capability allows, wherever it is.
Expanded ==
    CASE at = "mem" -> reg2fullcap(mem2regcap(it8, cap, addr, {}), addr)
      [] at = "pcc" -> pcc2fullcap(cap)
      [] at \in {"reg", "scr"} -> fullcap

\* No step adds to what a capability allows: a tag never comes back, bounds never
\* grow, nor do permissions; a step that changes the address or the place,
\* through memory and the pcc in either encoding, keeps the bounds to the byte;
\* and a sealed one stays as it is, its GL apart, until it is unsealed.
\* (cheri_pkg.sv set_address, set_bounds, get_bound33, mem2regcap; cheri_ex.sv main_ex.)
Monotone ==
    [][\A before \in {Expanded}, after \in {Expanded'} :
         after.reg.valid =>
             /\ before.reg.valid
             /\ before.base32 <= after.base32 /\ after.base32 <= after.top33 /\ after.top33 <= before.top33
             /\ after.perms \subseteq before.perms
             /\ at' # at \/ addr' # addr \/ is_cap_sealed(before.reg) =>
                    after.base32 = before.base32 /\ after.top33 = before.top33
             /\ is_cap_sealed(before.reg) /\ is_cap_sealed(after.reg) =>
                    addr' = addr /\ before.perms \ after.perms \subseteq {"GL"}]_vars

\* CRRL and CRAM: length and alignment for which bounds are exact.
NullCap == [reg |-> [Root(0) EXCEPT !.valid = FALSE, !.exp = 0, !.top = 0], perms |-> {}, top33 |-> 0, base32 |-> 0]
ForLength(len) == Chosen(0, prep_bound_req(it8, NullCap, 0, len))
CRRL(len) == (ForLength(len).len * 2^ForLength(len).exp) % 2^ADDR_W
CRAM(len) == 2^ADDR_W - 2^ForLength(len).exp

\* Bounds asked for at an address within the root are covered by what set_bounds
\* makes; they are exact if they were asked to be; a length and an address
\* that CRRL and CRAM name are; and rounding down begins there and stays
\* inside.  (cheri_pkg.sv set_bounds, set_bounds_rndn.)
BoundsContract ==
    (at = "reg" /\ cap.valid /\ fullcap.base32 = 0 /\ fullcap.top33 = 2^ADDR_W /\ ~is_cap_sealed(cap)) =>
        \A len \in {l \in Addrs : addr + l <= 2^ADDR_W}, f \in {fullcap} :
        \A q \in {prep_bound_req(it8, f, addr, len)} :
        \A near \in {reg2fullcap(set_bounds(f, addr, q, FALSE), addr)},
           exact \in {reg2fullcap(set_bounds(f, addr, q, TRUE), addr)},
           down \in {reg2fullcap(set_bounds_rndn(it8, f, addr, q), addr)} :
            /\ near.reg.valid /\ near.base32 <= addr /\ addr + len <= near.top33
            /\ exact.reg.valid => exact.base32 = addr /\ exact.top33 = addr + len
            /\ CRRL(len) = len /\ addr % (2^ADDR_W - CRAM(len)) = 0 => exact.reg.valid
            /\ down.reg.valid /\ down.base32 = addr /\ down.top33 <= addr + len
            /\ len > 0 => down.top33 > addr

Trace == INSTANCE TraceCap

\* Sail writes a permission as a letter.
SailLetter ==
    [GL |-> "G", LD |-> "R", SD |-> "W", MC |-> "c", LG |-> "g", LM |-> "m", SL |-> "l", EX |-> "X", SR |-> "a",
     SE |-> "S", US |-> "U", U0 |-> "zero"]

\* compare_trace.py reads a capability in the core's trace, tagged or not, as
\* the core understands it, and permissions as Sail writes them.  Words of the
\* original encoding, that is: the script does not know IT8.
\* (compare_trace.py parse_ibex_cap, parse_sail_perms.)
DecodersAgree ==
    at = "reg" /\ ~it8 =>
        LET c == Trace!parse_ibex_cap(reg2memcap_fmt0(cap), addr) IN
        /\ c.tag = Flag(cap.valid) /\ c.obj_type = cap.otype
        /\ c.top = fullcap.top33 /\ c.base = fullcap.base32
        /\ c.perm = Trace!parse_sail_perms({SailLetter[p] : p \in fullcap.perms})
=============================================================================
