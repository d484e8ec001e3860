------------------------------- MODULE CapLib -------------------------------
(***************************************************************************)
(* The capability library, rtl/cheri_pkg.sv: permissions and bounds in     *)
(* their compressed form, the expansion of both, and the change of address *)
(* and bounds, in the original encoding and in IT8.                        *)
(*                                                                         *)
(* Widths are parameters.  A permission is a name, the expanded            *)
(* permissions are a set; the compressed ones, and a capability in memory, *)
(* are numbers with fields.  A capability in a register is a record, the   *)
(* two-bit top_cor a number from -1 to 1, and its address is kept apart.   *)
(* The reserved bit, which nothing reads, is left out.                     *)
(***************************************************************************)
EXTENDS Integers, FiniteSets

CONSTANTS
    ADDR_W,      \* 32
    TOP_W,       \* 9, also BOT_W
    CEXP_W       \* 4, one less than EXP_W

RESETEXP == ADDR_W + 1 - TOP_W
RESETCEXP == 2^CEXP_W - 1

ASSUME WidthAssumption ==
    /\ {ADDR_W, TOP_W, CEXP_W} \subseteq Nat \ {0} /\ TOP_W > 1
    /\ RESETCEXP < RESETEXP /\ RESETEXP < 2^(CEXP_W + 1) - 1

Addrs == 0 .. 2^ADDR_W - 1
Field(n, lo, w) == (n \div 2^lo) % 2^w
Bit(n, i) == Field(n, i, 1) = 1
Flag(b) == IF b THEN 1 ELSE 0

-----------------------------------------------------------------------------
(* Permissions.                                                             *)

PERMS == <<"GL", "LG", "SD", "LM", "SL", "LD", "MC", "SR", "EX", "US", "SE", "U0">>
AllPerms == {PERMS[i] : i \in DOMAIN PERMS}

\* The formats of the low five bits: the value of the leading bits, the
\* implied permissions, and those of the low bits.
Formats == {"MC", "LC", "SC", "DD", "EX", "SE"}
Lead == [MC |-> 24, LC |-> 20, SC |-> 16, DD |-> 16, EX |-> 8, SE |-> 0]
IMSK == [MC |-> {"LD", "MC", "SD"}, LC |-> {"LD", "MC"}, SC |-> {"SD", "MC"}, DD |-> {},
         EX |-> {"EX", "MC", "LD"}, SE |-> {}]
LowBits == [MC |-> <<"LG", "LM", "SL">>, LC |-> <<"LG", "LM">>, SC |-> <<>>, DD |-> <<"SD", "LD">>,
            EX |-> <<"LG", "LM", "SR">>, SE |-> <<"US", "SE", "U0">>]

Format(cperms) ==
    LET c == cperms % 32 IN
    CASE c >= 24 -> "MC" [] c \in 20 .. 23 -> "LC" [] c = 16 -> "SC"
      [] c \in 17 .. 19 -> "DD" [] c \in 8 .. 15 -> "EX" [] c < 8 -> "SE"

expand_perms(cperms) ==
    LET f == Format(cperms) IN
    {p \in {"GL"} : Bit(cperms, 5)} \cup IMSK[f]
        \cup {LowBits[f][i] : i \in {j \in DOMAIN LowBits[f] : Bit(cperms, j - 1)}}

compress_perms(perms) ==
    LET f == IF IMSK.EX \subseteq perms THEN "EX"
             ELSE IF IMSK.MC \subseteq perms THEN "MC"
             ELSE IF IMSK.LC \subseteq perms THEN "LC"
             ELSE IF IMSK.SC \subseteq perms THEN "SC"
             ELSE IF {"SD", "LD"} \cap perms # {} THEN "DD" ELSE "SE"
        bit(i) == IF i \in DOMAIN LowBits[f] THEN Flag(LowBits[f][i] \in perms) * 2^(i - 1) ELSE 0
    IN  32 * Flag("GL" \in perms) + Lead[f] + bit(1) + bit(2) + bit(3)

\* What loading through a capability without some permissions takes away.
mask_clcperms(cperms, clrperm, valid_in, sealed) ==
    LET clr_gl == "glg" \in clrperm /\ valid_in
        clr_lg == clr_gl /\ ~sealed
        clr_sdlm == "sdlm" \in clrperm /\ valid_in /\ ~sealed
        f == Format(cperms)
        b0 == Flag(Bit(cperms, 0))
        b1 == Flag(Bit(cperms, 1))
        b2 == Flag(Bit(cperms, 2))
        lg == b0 * Flag(~clr_lg)
        lm == 2 * b1 * Flag(~clr_sdlm)
    IN  32 * Flag(Bit(cperms, 5) /\ ~clr_gl) +
        (CASE f = "MC" -> lg + lm + (IF clr_sdlm THEN Lead.LC ELSE Lead.MC + 4 * b2)
           [] f = "LC" -> lg + lm + Lead.LC
           [] f = "SC" -> IF clr_sdlm THEN 0 ELSE Lead.SC
           [] f = "DD" -> 16 * Flag(~(clr_sdlm /\ b1 = 0)) + 2 * b1 + b0 * Flag(~clr_sdlm)
           [] f = "EX" -> lg + lm + Lead.EX + 4 * b2
           [] f = "SE" -> cperms % 32)

-----------------------------------------------------------------------------
(* Bounds.                                                                  *)

get_bound33(top, cor, exp, addr) ==
    LET w == 2^(exp + TOP_W) IN ((addr \div w + cor) * w + top * 2^exp) % 2^(ADDR_W + 1)

update_temp_fields(top, base, addrmi) ==
    LET top_hi == top < base
        addr_hi == addrmi < base
    IN  [top_cor |-> IF top_hi = addr_hi THEN 0 ELSE IF top_hi THEN 1 ELSE -1, base_cor |-> Flag(addr_hi)]
Corrected(r, addr) ==
    LET t == update_temp_fields(r.top, r.base, Field(addr, r.exp, TOP_W))
    IN  [r EXCEPT !.top_cor = t.top_cor, !.base_cor = t.base_cor]

reg2fullcap(r, addr) ==
    [reg |-> r, perms |-> expand_perms(r.cperms),
     top33 |-> get_bound33(r.top, r.top_cor, r.exp, addr),
     base32 |-> get_bound33(r.base, -r.base_cor, r.exp, addr) % 2^ADDR_W]
full2regcap(f) == f.reg

is_cap_sealed(r) == r.otype # 0

\* set_address, which is never asked to check bounds as well.
Representable(f, newptr) == ((newptr - f.base32) % 2^(ADDR_W + 1)) \div 2^(f.reg.exp + TOP_W) = 0
set_address(f, newptr) ==
    [f EXCEPT !.reg = [Corrected(f.reg, newptr) EXCEPT !.valid = @ /\ Representable(f, newptr)]]

get_size(n) == Cardinality({i \in 0 .. ADDR_W - 1 : 2^i <= n})
count_tz(n) == Cardinality({i \in 0 .. ADDR_W - 1 : n % 2^(i + 1) = 0})

\* A slip: only the top is compared.
TopInBound(f, addr, top33req) == top33req <= f.top33

InBound(f, addr, top33req) == ~(top33req > f.top33 \/ addr < f.base32)

\* prep_bound_req and prep_bound_req_it8
prep_bound_req(it8, f, addr, length) ==
    LET explen == get_size(length \div 2^TOP_W)
        saturated(e) == IF ~it8 /\ e >= RESETCEXP THEN RESETEXP ELSE e
    IN  [top33req |-> addr + length, expb |-> count_tz(addr), explen |-> explen,
         exp1 |-> saturated(explen), exp2 |-> saturated(explen + 1),
         in_bound |-> InBound(f, addr, addr + length)]

\* One of the two paths of set_bounds.
Path(addr, top33req, e) ==
    LET off == top33req % 2^e # 0
        base == Field(addr, e, TOP_W + 1)
        top == (top33req \div 2^e + Flag(off)) % 2^(TOP_W + 1)
    IN  [exp |-> e, base |-> base % 2^TOP_W, top |-> top % 2^TOP_W,
         len |-> (top - base) % 2^(TOP_W + 1), off |-> off \/ addr % 2^e # 0]

\* A slip: the length is taken for too long only beyond the limit.
WellBeyond(path) == path.len > 2^TOP_W

ovrflw(path) == path.len >= 2^TOP_W

NewBounds(r, exp, base, top, valid) ==
    [r EXCEPT !.exp = exp, !.base = base, !.top = top, !.valid = valid,
              !.top_cor = Flag(top < base), !.base_cor = 0]

Chosen(addr, q) ==
    LET path1 == Path(addr, q.top33req, q.exp1)
    IN  IF ovrflw(path1) THEN Path(addr, q.top33req, q.exp2) ELSE path1
set_bounds(f, addr, q, req_exact) ==
    LET p == Chosen(addr, q)
    IN  NewBounds(f.reg, p.exp, p.base, p.top, f.reg.valid /\ ~(req_exact /\ p.off) /\ q.in_bound)

\* set_bounds_rndn and set_bounds_rndn_it8
set_bounds_rndn(it8, f, addr, q) ==
    LET limit == RESETCEXP - 1
        el_gt_eb == q.explen > q.expb
        el_gt_14 == ~it8 /\ q.explen > limit
        eb_gt_14 == ~it8 /\ q.expb > limit
        exp == IF el_gt_eb /\ ~eb_gt_14 THEN q.expb ELSE IF el_gt_14 THEN limit ELSE q.explen
        base == Field(addr, exp, TOP_W)
        top == IF el_gt_eb \/ el_gt_14 THEN (base - 1) % 2^TOP_W ELSE Field(q.top33req, exp, TOP_W)
    IN  NewBounds(f.reg, exp, base, top, f.reg.valid /\ q.in_bound)

-----------------------------------------------------------------------------
(* The program counter's form and the memory's, format 0.                   *)

full2pcap(f) ==
    [valid |-> f.reg.valid, exp |-> f.reg.exp, top33 |-> f.top33, base32 |-> f.base32,
     otype |-> f.reg.otype, perms |-> f.perms, cperms |-> f.reg.cperms]
pcc2fullcap(p) ==
    [reg |-> [valid |-> p.valid, exp |-> p.exp, top |-> Field(p.top33, p.exp, TOP_W),
              base |-> Field(p.base32, p.exp, TOP_W), top_cor |-> 0, base_cor |-> 0,
              otype |-> p.otype, cperms |-> p.cperms],
     perms |-> p.perms, top33 |-> p.top33, base32 |-> p.base32]
pcc2mepcc(p, address, clrtag) ==
    [full2regcap(set_address(pcc2fullcap(p), address)) EXCEPT !.valid = @ /\ ~clrtag]

BASE_LO == 0
TOP_LO == TOP_W
CEXP_LO == 2 * TOP_W
CEXP5_LO == CEXP_LO - 1
OTYPE_LO == CEXP_LO + CEXP_W
CPERMS_LO == OTYPE_LO + 3
TAG == CPERMS_LO + 7

AllOnes == 2^(CEXP_W + 1) - 1

Word(r, exponent, top) ==
    r.base + top * 2^TOP_LO + exponent + r.otype * 2^OTYPE_LO + r.cperms * 2^CPERMS_LO + Flag(r.valid) * 2^TAG
reg2memcap_fmt0(r) ==
    Word(r, (IF r.exp = RESETEXP THEN RESETCEXP ELSE r.exp % 2^CEXP_W) * 2^CEXP_LO, r.top)
reg2memcap_it8_fmt0(r) ==
    LET cor == r.top_cor = -r.base_cor
        len == (Flag(~cor) * 2^TOP_W + r.top - r.base) % 2^(TOP_W + 1)
        denorm == r.exp = 0 /\ len < 2^(TOP_W - 1)
    IN  Word(r, (IF denorm THEN r.exp ELSE AllOnes - r.exp) * 2^CEXP5_LO, r.top % 2^(TOP_W - 1))

\* The rest of a capability in memory, with its bounds.
Loaded(msw, addr, clrperm, exp, base, top) ==
    LET valid == Bit(msw, TAG) /\ "tag" \notin clrperm
        otype == Field(msw, OTYPE_LO, 3)
    IN  Corrected([valid |-> valid, exp |-> exp, top |-> top, base |-> base, top_cor |-> 0, base_cor |-> 0,
                   otype |-> otype,
                   cperms |-> mask_clcperms(Field(msw, CPERMS_LO, 6), clrperm, valid, otype # 0)], addr)
mem2regcap_fmt0(msw, addr, clrperm) ==
    LET cexp == Field(msw, CEXP_LO, CEXP_W)
    IN  Loaded(msw, addr, clrperm, IF cexp = RESETCEXP THEN RESETEXP ELSE cexp,
               Field(msw, BASE_LO, TOP_W), Field(msw, TOP_LO, TOP_W))
mem2regcap_it8_fmt0(msw, addr, clrperm) ==
    LET cexp == Field(msw, CEXP5_LO, CEXP_W + 1)
        denorm == cexp = 0
        base9 == Field(msw, BASE_LO, TOP_W)
        top8 == Field(msw, TOP_LO, TOP_W - 1)
        tcin == top8 < base9 % 2^(TOP_W - 1)
        \* exclusive or of ltop, tcin and btop
        ttop == (Flag(~denorm) + Flag(tcin) + base9 \div 2^(TOP_W - 1)) % 2
    IN  Loaded(msw, addr, clrperm, IF denorm THEN 0 ELSE AllOnes - cexp, base9, ttop * 2^(TOP_W - 1) + top8)

reg2memcap(it8, r) == IF it8 THEN reg2memcap_it8_fmt0(r) ELSE reg2memcap_fmt0(r)
mem2regcap(it8, msw, addr, clrperm) ==
    IF it8 THEN mem2regcap_it8_fmt0(msw, addr, clrperm) ELSE mem2regcap_fmt0(msw, addr, clrperm)
=============================================================================
