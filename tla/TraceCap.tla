------------------------------ MODULE TraceCap ------------------------------
(***************************************************************************)
(* How compare_trace.py reads capabilities: from the words of the core's   *)
(* trace (parse_ibex_cap) and from the letters of Sail's                   *)
(* (parse_sail_perms).  Permissions are numbers here.  The widths are      *)
(* those of the capability library; the script has them as literals.       *)
(***************************************************************************)
EXTENDS Integers

CONSTANTS ADDR_W, TOP_W, CEXP_W

GL == 2^0
LG == 2^1
SD == 2^2
LM == 2^3
SL == 2^4
LD == 2^5
MC == 2^6
SR == 2^7
EX == 2^8
US == 2^9
SE == 2^10
U0 == 2^11

expand_perms(cperms_in) ==
    LET cperms == cperms_in % 32
        b(i) == (cperms \div 2^i) % 2
    IN  (cperms_in \div 32) * GL +
        (CASE cperms \div 8 = 3 -> b(0) * LG + b(1) * LM + b(2) * SL + LD + MC + SD
           [] cperms \div 4 = 5 -> b(0) * LG + b(1) * LM + LD + MC
           [] cperms = 16 -> SD + MC
           [] cperms \div 4 = 4 /\ cperms # 16 -> b(0) * SD + b(1) * LD
           [] cperms \div 8 = 1 -> b(0) * LG + b(1) * LM + b(2) * SR + EX + MC + LD
           [] cperms \div 8 = 0 -> b(0) * US + b(1) * SE + b(2) * U0)

\* The letters that are looked for in the text.
Letter == [G |-> GL, R |-> LD, W |-> SD, c |-> MC, g |-> LG, m |-> LM, l |-> SL, X |-> EX, a |-> SR,
           S |-> SE, U |-> US, zero |-> U0]
parse_sail_perms(text) ==
    LET bit(x) == IF x \in text THEN Letter[x] ELSE 0
    IN  bit("G") + bit("R") + bit("W") + bit("c") + bit("g") + bit("m") + bit("l") + bit("X") + bit("a")
            + bit("S") + bit("U") + bit("zero")

\* A slip: the top is never corrected downwards.
NoBorrow(top, base, addrmi) == IF top < base /\ addrmi >= base THEN 1 ELSE 0

top_cor(top, base, addrmi) ==
    IF (top < base) = (addrmi < base) THEN 0 ELSE IF top < base THEN 1 ELSE -1

parse_ibex_cap(cap_val, addr_val) ==
    LET field(lo, w) == (cap_val \div 2^lo) % 2^w
        otype_lo == 2 * TOP_W + CEXP_W
        cexp == field(2 * TOP_W, CEXP_W)
        whole == ADDR_W + 1 - TOP_W
        exp == IF cexp = 2^CEXP_W - 1 THEN whole ELSE cexp
        top9 == field(TOP_W, TOP_W)
        base9 == field(0, TOP_W)
        addrmi9 == (addr_val \div 2^exp) % 2^TOP_W
        base_cor == IF addrmi9 < base9 THEN 1 ELSE 0
        window(cor) == IF exp = whole THEN 0 ELSE (addr_val \div 2^(exp + TOP_W) + cor) * 2^(exp + TOP_W)
    IN  [tag |-> cap_val \div 2^(otype_lo + 10),
         perm |-> expand_perms(field(otype_lo + 3, 6)),
         obj_type |-> field(otype_lo, 3),
         top |-> (top9 * 2^exp + window(top_cor(top9, base9, addrmi9))) % 2^(ADDR_W + 1),
         base |-> (base9 * 2^exp + window(-base_cor)) % 2^ADDR_W]
=============================================================================
