------------------------ MODULE Capability_proofs -------------------------
(***************************************************************************)
(* Proofs about capabilities, for every width of address, mantissa and     *)
(* exponent that WidthAssumption admits, both encodings, any operands, and *)
(* every sequence of instructions, stores, loads, jumps and traps:         *)
(* no step gives anything away (Monotone), the set-bounds family keeps its *)
(* promises (BoundsContract), and the comparison script reads a word as    *)
(* the core does (DecodersAgree).                                          *)
(*                                                                         *)
(* The fields of a register are mantissas and corrections; what they stand *)
(* for is a region, from m to n in units of 2^exp.  Sound ties a register  *)
(* to a region and the address to the reach of it; get_bound33 then gives  *)
(* m * 2^exp and n * 2^exp back (BoundsOf).  CapInv says that the          *)
(* capability with a tag is sound in the form its place has, and is        *)
(* inductive: the arithmetic of cheri_pkg.sv is settled for any register   *)
(* first (SetAddress, SetBounds, SetBoundsRndn, RoundTrip, PermsShrink,    *)
(* Mask), then each action has a lemma of its own.                         *)
(***************************************************************************)
EXTENDS Capability, FiniteSetTheorems, WellFoundedInduction, TLAPS

\* The order that least elements are found by.
Less == {ss \in Nat \X Nat : ss[1] < ss[2]}

-----------------------------------------------------------------------------
(* Powers of two, quotients and remainders                                 *)

\* A set of naturals that is not empty has a least element.
LEMMA LeastNat ==
    ASSUME NEW U \in SUBSET Nat, U # {}
    PROVE  \E x \in U : \A y \in U : x <= y
<1>1. IsWellFoundedOn(Less, Nat)
  BY NatLessThanWellFounded DEF OpToRel, Less
<1>2. PICK x \in U : \A y \in U : ~(<<y, x>> \in Less)
  BY <1>1, WFMin
<1>3. ASSUME NEW y \in U PROVE x <= y
  <2>1. x \in Nat /\ y \in Nat /\ ~(<<y, x>> \in Less)
    BY <1>2
  <2> QED
    BY <2>1 DEF Less
<1> QED
  BY <1>3

\* Induction over the naturals, for a set: what the facts about powers rest on.
LEMMA NatInduct ==
    ASSUME NEW T \in SUBSET Nat, 0 \in T, \A n \in T : n + 1 \in T
    PROVE  \A n \in Nat : n \in T
<1> DEFINE U == Nat \ T
<1> SUFFICES ASSUME U # {} PROVE FALSE
  OBVIOUS
<1>1. PICK x \in U : \A y \in U : x <= y
  <2>1. U \in SUBSET Nat
    OBVIOUS
  <2> HIDE DEF U
  <2> QED
    BY <2>1, LeastNat
<1>2. x \in Nat /\ x # 0 /\ x \notin T
  BY <1>1
<1>3. x - 1 \in Nat /\ x - 1 \notin U
  BY <1>1, <1>2
<1> QED
  BY <1>2, <1>3

\* The power of two counts the subsets of an interval, which is what makes it
\* twice as large for one more: the shifts of cheri_pkg.sv are powers of two.
LEMMA PowCard ==
    ASSUME NEW n \in Nat
    PROVE  IsFiniteSet(SUBSET (1 .. n)) /\ 2^n = Cardinality(SUBSET (1 .. n)) /\ 2^n \in Nat
<1>1. IsFiniteSet(1 .. n) /\ Cardinality(1 .. n) = n
  BY FS_Interval
<1> QED
  BY <1>1, FS_SUBSET, FS_CardinalityType

\* No shift is a factor of one.
LEMMA PowZero == 2^0 = 1
<1>1. SUBSET (1 .. 0) = {{}}
  OBVIOUS
<1> QED
  BY <1>1, PowCard, FS_Singleton

\* A shift by one more doubles.
LEMMA PowSucc == ASSUME NEW n \in Nat PROVE 2^(n + 1) = 2 * 2^n
<1> DEFINE S == SUBSET (1 .. n)
           f == [s \in S |-> s \cup {n + 1}]
           T == {s \cup {n + 1} : s \in S}
<1>1. SUBSET (1 .. n + 1) = S \cup T
  <2>1. ASSUME NEW s \in SUBSET (1 .. n + 1) PROVE s \in S \cup T
    <3>1. CASE n + 1 \in s
      <4>1. s \ {n + 1} \in S /\ s = (s \ {n + 1}) \cup {n + 1}
        BY <2>1, <3>1
      <4> QED
        BY <4>1
    <3>2. CASE n + 1 \notin s
      BY <2>1, <3>2
    <3> QED
      BY <3>1, <3>2
  <2>2. 1 .. n \subseteq 1 .. n + 1 /\ n + 1 \in 1 .. n + 1
    OBVIOUS
  <2>3. S \cup T \subseteq SUBSET (1 .. n + 1)
    BY <2>2
  <2> QED
    BY <2>1, <2>3
<1>2. S \cap T = {}
  OBVIOUS
<1>3. f \in Bijection(S, T)
  <2>1. f \in [S -> T]
    OBVIOUS
  <2>2. \A s, t \in S : f[s] = f[t] => s = t
    <3>1. ASSUME NEW s \in S, NEW t \in S, f[s] = f[t] PROVE s = t
      <4>1. s \cup {n + 1} = t \cup {n + 1} /\ n + 1 \notin s /\ n + 1 \notin t
        BY <3>1
      <4> QED
        BY <4>1
    <3> QED
      BY <3>1
  <2>3. \A t \in T : \E s \in S : f[s] = t
    OBVIOUS
  <2> QED
    BY <2>1, <2>2, <2>3 DEF Bijection, Injection, Surjection, IsInjective
<1>4. IsFiniteSet(S) /\ Cardinality(S) = 2^n /\ 2^n \in Nat
  BY PowCard
<1>5. ExistsBijection(S, T)
  BY <1>3 DEF ExistsBijection
<1> HIDE DEF f, S, T
<1>6. IsFiniteSet(T) /\ Cardinality(T) = 2^n
  BY <1>4, <1>5, FS_Bijection
<1>7. Cardinality(S \cup T) = Cardinality(S) + Cardinality(T) - Cardinality(S \cap T)
  BY <1>4, <1>6, FS_Union
<1>8. Cardinality(S \cap T) = 0
  BY <1>2, FS_EmptySet, Zenon
<1>9. 2^(n + 1) = Cardinality(SUBSET (1 .. n + 1))
  <2>1. n + 1 \in Nat
    OBVIOUS
  <2> QED
    BY <2>1, PowCard, Zenon
<1>10. Cardinality(S \cup T) = 2 * 2^n
  BY <1>4, <1>6, <1>7, <1>8
<1> QED
  BY <1>1, <1>9, <1>10

\* A power of two is a positive natural.
LEMMA PowPositive == \A n \in Nat : 2^n \in Nat \ {0}
<1> DEFINE T == {n \in Nat : 2^n \in Nat \ {0}}
<1>1. 0 \in T
  BY PowZero
<1>2. \A n \in T : n + 1 \in T
  BY PowSucc
<1>3. T \in SUBSET Nat
  OBVIOUS
<1> HIDE DEF T
<1>4. \A n \in Nat : n \in T
  BY <1>1, <1>2, <1>3, NatInduct
<1> QED
  BY <1>4 DEF T

\* Two shifts make one by the sum.
LEMMA PowAdd == \A a, b \in Nat : 2^(a + b) = 2^a * 2^b
<1> SUFFICES ASSUME NEW a \in Nat PROVE \A b \in Nat : 2^(a + b) = 2^a * 2^b
  OBVIOUS
<1> DEFINE T == {b \in Nat : 2^(a + b) = 2^a * 2^b}
<1>1. 0 \in T
  BY PowZero, PowPositive
<1>2. ASSUME NEW b \in T PROVE b + 1 \in T
  <2>1. 2^(a + b + 1) = 2 * 2^(a + b) /\ 2^(b + 1) = 2 * 2^b
    BY PowSucc
  <2>2. 2^(a + b) = 2^a * 2^b /\ 2^a \in Nat /\ 2^b \in Nat
    BY PowPositive
  <2>3. \A x, y \in Nat : 2 * (x * y) = x * (2 * y)
    OBVIOUS
  <2>4. 2^(a + (b + 1)) = 2^a * 2^(b + 1)
    BY <2>1, <2>2, <2>3
  <2> QED
    BY <2>4
<1>3. T \in SUBSET Nat
  OBVIOUS
<1> HIDE DEF T
<1>4. \A b \in Nat : b \in T
  BY <1>1, <1>2, <1>3, NatInduct
<1> QED
  BY <1>4 DEF T

\* Quotient and remainder of integers, negative ones too.
LEMMA Euclid ==
    ASSUME NEW y \in Int, NEW x \in Nat \ {0}
    PROVE  y \div x \in Int /\ y % x \in 0 .. x - 1 /\ y = x * (y \div x) + (y % x)
OBVIOUS

\* Quotient and remainder are the only ones: how every field is found.
LEMMA Division ==
    ASSUME NEW x \in Nat \ {0}, NEW q \in Int, NEW r \in 0 .. x - 1, NEW y, y = x * q + r
    PROVE  y \div x = q /\ y % x = r
OBVIOUS

\* The smaller of two powers divides the larger.
LEMMA PowLess ==
    ASSUME NEW a \in Nat, NEW b \in Nat, a < b
    PROVE  2^b = 2^a * 2^(b - a) /\ 2 * 2^a <= 2^b
<1>1. b - a \in Nat /\ b - a - 1 \in Nat /\ a + (b - a) = b /\ b - a - 1 + 1 = b - a
  OBVIOUS
<1>2. 2^b = 2^a * 2^(b - a)
  BY <1>1, PowAdd
<1>3. 2^(b - a) = 2 * 2^(b - a - 1)
  BY <1>1, PowSucc
<1>4. 2^a \in Nat \ {0} /\ 2^(b - a - 1) \in Nat \ {0}
  BY <1>1, PowPositive
<1>5. \A x, y \in Nat \ {0} : 2 * x <= x * (2 * y)
  OBVIOUS
<1> QED
  BY <1>2, <1>3, <1>4, <1>5

\* Powers are ordered as their exponents.
LEMMA PowOrder ==
    ASSUME NEW a \in Nat, NEW b \in Nat
    PROVE  2^a < 2^b <=> a < b
BY PowLess, PowPositive

\* Two shifts to the right make one.
LEMMA DivDiv ==
    ASSUME NEW a \in Nat, NEW p \in Nat \ {0}, NEW k \in Nat \ {0}
    PROVE  a \div (p * k) = (a \div p) \div k
<1> DEFINE q == a \div p
           r == a % p
           s == q \div k
           t == q % k
<1>1. q \in Int /\ r \in 0 .. p - 1 /\ a = p * q + r
  BY Euclid
<1>2. s \in Int /\ t \in 0 .. k - 1 /\ q = k * s + t
  BY <1>1, Euclid
<1> HIDE DEF q, r, s, t
<1>3. p * k \in Nat \ {0}
  OBVIOUS
<1>4. p * t <= p * (k - 1) /\ p * t >= 0
  BY <1>2
<1>5. p * t + r \in 0 .. (p * k) - 1
  BY <1>1, <1>2, <1>4
<1>6. a = (p * k) * s + (p * t + r)
  BY <1>1, <1>2
<1> DEFINE pk == p * k
           rest == p * t + r
<1> HIDE DEF pk, rest
<1>7. pk \in Nat \ {0} /\ rest \in 0 .. pk - 1 /\ a = pk * s + rest
  BY <1>3, <1>5, <1>6 DEF pk, rest
<1>8. a \div pk = s
  BY <1>2, <1>7, Division
<1> QED
  BY <1>8 DEF q, s, pk

\* Near x the quotient is that of m, or one more if the remainder wrapped: what
\* update_temp_fields finds from the two remainders.
LEMMA Carry ==
    ASSUME NEW k \in Nat \ {0}, NEW m \in Int, NEW x \in Int, m <= x, x < m + k
    PROVE  x \div k = (m \div k) + (IF x % k < m % k THEN 1 ELSE 0)
<1> DEFINE q == m \div k
           r == m % k
           d == (x \div k) - q
           t == x % k
<1>1. q \in Int /\ r \in 0 .. k - 1 /\ m = k * q + r
  BY Euclid
<1>2. d \in Int /\ t \in 0 .. k - 1 /\ x = k * (q + d) + t
  BY <1>1, Euclid
<1> HIDE DEF q, r, d, t
<1>3. x - m = k * d + t - r
  BY <1>1, <1>2
<1>4. k * d > -k /\ k * d < 2 * k
  BY <1>1, <1>2, <1>3
<1>5. d >= 0 /\ d <= 1
  <2>1. CASE d <= -1
    <3>1. k * d <= -k
      BY <1>2, <2>1
    <3> QED
      BY <1>2, <1>4, <3>1
  <2>2. CASE d >= 2
    <3>1. k * d >= 2 * k
      BY <1>2, <2>2
    <3> QED
      BY <1>2, <1>4, <3>1
  <2> QED
    BY <1>2, <2>1, <2>2
<1>6. CASE d = 0
  BY <1>1, <1>2, <1>3, <1>6 DEF d, q, r, t
<1>7. CASE d = 1
  BY <1>1, <1>2, <1>3, <1>7 DEF d, q, r, t
<1> QED
  BY <1>2, <1>5, <1>6, <1>7

\* A multiple added leaves the remainder.
LEMMA ModShift ==
    ASSUME NEW k \in Nat \ {0}, NEW c \in Int, NEW x \in Int
    PROVE  (c * k + x) % k = x % k
<1>1. x \div k \in Int /\ x % k \in 0 .. k - 1 /\ x = k * (x \div k) + (x % k)
  BY Euclid
<1>2. c * k + x = k * (c + (x \div k)) + (x % k)
  BY <1>1
<1> DEFINE q == c + (x \div k)
           r == x % k
           y == c * k + x
<1>3. q \in Int /\ r \in 0 .. k - 1 /\ y = k * q + r
  BY <1>1, <1>2
<1> HIDE DEF q, r, y
<1>4. y % k = r
  BY <1>3, Division
<1> QED
  BY <1>4 DEF r, y

\* A value within the width is its own remainder.
LEMMA ModSmall ==
    ASSUME NEW k \in Nat \ {0}, NEW x \in 0 .. k - 1
    PROVE  x % k = x /\ x \div k = 0
OBVIOUS

\* A multiple has no remainder.
LEMMA DivMult ==
    ASSUME NEW k \in Nat \ {0}, NEW c \in Int
    PROVE  (c * k) \div k = c /\ (c * k) % k = 0
<1>1. c * k = k * c + 0 /\ 0 \in 0 .. k - 1
  OBVIOUS
<1> QED
  BY <1>1, Division

-----------------------------------------------------------------------------
(* The bounds that a register stands for                                   *)

\* The values of a mantissa, and the size of the memory.
Mant == 2^TOP_W
Mem == 2^ADDR_W

\* The widths of cheri_pkg.sv: the largest exponent makes a mantissa of the memory.
LEMMA Widths ==
    /\ ADDR_W \in Nat \ {0} /\ TOP_W \in Nat \ {0, 1} /\ CEXP_W \in Nat \ {0}
    /\ RESETEXP \in Nat \ {0} /\ RESETEXP + TOP_W = ADDR_W + 1
    /\ RESETCEXP \in Nat \ {0} /\ RESETCEXP < RESETEXP
    /\ Mant \in Nat /\ Mant >= 4 /\ Mem \in Nat \ {0}
    /\ 2^(ADDR_W + 1) = 2 * Mem /\ 2^RESETEXP * Mant = 2 * Mem
<1>1. ADDR_W \in Nat \ {0} /\ TOP_W \in Nat \ {0, 1} /\ CEXP_W \in Nat \ {0}
  BY WidthAssumption
<1>2. 2^CEXP_W >= 2 /\ Mant >= 4 /\ 2^CEXP_W \in Nat /\ Mant \in Nat
  <2>1. CEXP_W - 1 \in Nat /\ CEXP_W - 1 + 1 = CEXP_W
    BY <1>1
  <2>2. TOP_W - 1 \in Nat /\ TOP_W - 1 + 1 = TOP_W /\ TOP_W - 2 \in Nat /\ TOP_W - 2 + 1 = TOP_W - 1
    BY <1>1
  <2>3. 2^CEXP_W = 2 * 2^(CEXP_W - 1)
    BY <2>1, PowSucc
  <2>4. 2^TOP_W = 2 * 2^(TOP_W - 1) /\ 2^(TOP_W - 1) = 2 * 2^(TOP_W - 2)
    BY <2>2, PowSucc
  <2>5. 2^(CEXP_W - 1) \in Nat \ {0} /\ 2^(TOP_W - 2) \in Nat \ {0}
    BY <2>1, <2>2, PowPositive
  <2> QED
    BY <2>3, <2>4, <2>5 DEF Mant
<1>3. RESETEXP \in Int /\ RESETCEXP \in Nat \ {0} /\ RESETCEXP < RESETEXP
  BY <1>1, <1>2, WidthAssumption DEF RESETEXP, RESETCEXP
<1>4. RESETEXP \in Nat \ {0} /\ RESETEXP + TOP_W = ADDR_W + 1
  BY <1>1, <1>3 DEF RESETEXP
<1>5. 2^(ADDR_W + 1) = 2 * Mem /\ Mem \in Nat \ {0}
  BY <1>1, PowSucc, PowPositive DEF Mem
<1>6. 2^(RESETEXP + TOP_W) = 2^RESETEXP * Mant
  BY <1>1, <1>4, PowAdd DEF Mant
<1> QED
  BY <1>1, <1>2, <1>3, <1>4, <1>5, <1>6

\* A region from m to n in units of the exponent: its length fits a mantissa.
Region(e, m, n) ==
    /\ e \in 0 .. RESETEXP /\ m \in Nat /\ n \in Nat
    /\ m <= n /\ n < m + Mant
    /\ m * 2^e < Mem /\ n * 2^e <= Mem

\* An address from which the region is found again.
Reach(e, m, a) == e = RESETEXP \/ (m <= a \div 2^e /\ a \div 2^e < m + Mant)

\* get_bound33 in units of the exponent: the address's upper part corrected, the
\* mantissa below it.
LEMMA BoundUnits ==
    ASSUME NEW e \in Nat, NEW a \in Nat, NEW t \in Int, NEW c \in Int
    PROVE  get_bound33(t, c, e, a) = (((((a \div 2^e) \div Mant) + c) * Mant + t) * 2^e) % (2 * Mem)
<1> DEFINE P == 2^e
           v == (a \div P) \div Mant
<1>1. P \in Nat \ {0} /\ Mant \in Nat \ {0}
  BY Widths, PowPositive
<1>2. 2^(e + TOP_W) = P * Mant
  BY Widths, PowAdd DEF Mant
<1>3. a \div (P * Mant) = v
  BY <1>1, DivDiv
<1>4. v \in Int
  BY <1>1
<1>5. get_bound33(t, c, e, a) = ((v + c) * (P * Mant) + t * P) % (2 * Mem)
  BY <1>2, <1>3, Widths DEF get_bound33
<1> HIDE DEF P, v
<1>6. (v + c) * (P * Mant) + t * P = ((v + c) * Mant + t) * P
  BY <1>1, <1>4
<1> QED
  BY <1>5, <1>6 DEF P, v

\* The corrections of update_temp_fields make get_bound33 give both bounds back,
\* as long as the address is in reach.
LEMMA BoundsOf ==
    ASSUME NEW e, NEW m, NEW n, NEW a \in Nat, Region(e, m, n), Reach(e, m, a),
           NEW top, NEW base, top = n % Mant, base = m % Mant
    PROVE  LET t == update_temp_fields(top, base, Field(a, e, TOP_W))
           IN  /\ get_bound33(top, t.top_cor, e, a) = n * 2^e
               /\ get_bound33(base, -t.base_cor, e, a) = m * 2^e
               /\ get_bound33(base, -t.base_cor, e, a) % 2^ADDR_W = m * 2^e
<1> DEFINE P == 2^e
           u == a \div P
           t == update_temp_fields(top, base, Field(a, e, TOP_W))
           v == u \div Mant
<1>1. e \in Nat /\ m \in Nat /\ n \in Nat /\ P \in Nat \ {0} /\ Mant \in Nat \ {0} /\ Mem \in Nat \ {0}
  BY Widths, PowPositive DEF Region
<1>2. u \in Nat /\ v \in Int
  BY <1>1
<1>3. top \in 0 .. Mant - 1 /\ base \in 0 .. Mant - 1
  BY <1>1
<1>4. Field(a, e, TOP_W) = u % Mant /\ u % Mant \in Int
  BY <1>1, <1>2 DEF Field, Mant
<1>5. /\ t.base_cor = IF u % Mant < base THEN 1 ELSE 0
      /\ t.top_cor = (IF top < base THEN 1 ELSE 0) - (IF u % Mant < base THEN 1 ELSE 0)
      /\ t.base_cor \in Int /\ t.top_cor \in Int
  BY <1>4 DEF update_temp_fields, Flag
<1>6. m * P \in 0 .. Mem - 1 /\ n * P \in 0 .. Mem
  BY <1>1 DEF Region
<1>7. /\ get_bound33(top, t.top_cor, e, a) = (((v + t.top_cor) * Mant + top) * P) % (2 * Mem)
      /\ get_bound33(base, -t.base_cor, e, a) = (((v - t.base_cor) * Mant + base) * P) % (2 * Mem)
  <2> DEFINE tc == t.top_cor
             bc == -t.base_cor
  <2>1. tc \in Int /\ bc \in Int /\ top \in Int /\ base \in Int
    BY <1>3, <1>5
  <2>2. v + bc = v - t.base_cor
    BY <1>2, <1>5
  <2>3. \A b, c \in Int : get_bound33(b, c, e, a) = (((v + c) * Mant + b) * P) % (2 * Mem)
    BY <1>1, BoundUnits
  <2> HIDE DEF t, tc, bc, v, P
  <2>4. /\ get_bound33(top, tc, e, a) = (((v + tc) * Mant + top) * P) % (2 * Mem)
        /\ get_bound33(base, bc, e, a) = (((v + bc) * Mant + base) * P) % (2 * Mem)
    BY ONLY <2>1, <2>3
  <2> QED
    BY <2>2, <2>4 DEF tc, bc
<1> HIDE DEF P, u, t, v
<1>8. CASE e # RESETEXP
  <2>1. m <= u /\ u < m + Mant
    BY <1>8 DEF Reach, u, P
  <2>2. m <= n /\ n < m + Mant
    BY DEF Region
  <2>3. v = (m \div Mant) + (IF u % Mant < base THEN 1 ELSE 0)
    BY <1>1, <1>2, <2>1, Carry DEF v
  <2>4. n \div Mant = (m \div Mant) + (IF top < base THEN 1 ELSE 0)
    BY <1>1, <2>2, Carry
  <2>5. m = Mant * (m \div Mant) + base /\ n = Mant * (n \div Mant) + top /\ m \div Mant \in Int
    BY <1>1, Euclid
  <2>7. v - t.base_cor = m \div Mant /\ v + t.top_cor = n \div Mant
    BY <1>5, <2>3, <2>4, <2>5
  <2>8. (v - t.base_cor) * Mant + base = m /\ (v + t.top_cor) * Mant + top = n
    BY <1>1, <2>5, <2>7
  <2>9. n * P \in 0 .. (2 * Mem) - 1 /\ m * P \in 0 .. (2 * Mem) - 1 /\ 2 * Mem \in Nat \ {0}
    BY <1>1, <1>6
  <2> QED
    BY <1>1, <1>6, <1>7, <2>8, <2>9, ModSmall DEF Mem, P, t
<1>9. CASE e = RESETEXP
  <2>1. P * Mant = 2 * Mem
    BY <1>9, Widths DEF P
  <2>2. n < Mant /\ m < Mant
    <3>1. n * P < Mant * P
      BY <1>1, <1>6, <2>1
    <3>2. \A x, y \in Nat : x < y \/ x * P >= y * P
      BY <1>1
    <3>3. n < Mant
      BY <1>1, <3>1, <3>2
    <3> QED
      BY <1>1, <3>3 DEF Region
  <2>3. top = n /\ base = m
    BY <1>1, <2>2
  <2>4. ASSUME NEW c \in Int, NEW x \in Nat, x * P <= Mem
        PROVE  ((c * Mant + x) * P) % (2 * Mem) = x * P
    <3>1. (c * Mant + x) * P = c * (2 * Mem) + x * P
      <4>1. (c * Mant + x) * P = c * (P * Mant) + x * P
        BY <1>1, <2>4
      <4> QED
        BY <2>1, <4>1
    <3>2. x * P \in 0 .. (2 * Mem) - 1 /\ x * P \in Int /\ 2 * Mem \in Nat \ {0}
      BY <1>1, <2>4
    <3> QED
      BY <3>1, <3>2, ModSmall, ModShift
  <2> DEFINE cb == v - t.base_cor
             ct == v + t.top_cor
  <2>5. cb \in Int /\ ct \in Int /\ m * P <= Mem /\ n * P <= Mem
    BY <1>1, <1>2, <1>5, <1>6
  <2> HIDE DEF cb, ct
  <2>6. ((ct * Mant + n) * P) % (2 * Mem) = n * P
    BY <1>1, <2>4, <2>5
  <2>7. ((cb * Mant + m) * P) % (2 * Mem) = m * P
    BY <1>1, <2>4, <2>5
  <2>8. (m * P) % Mem = m * P
    BY <1>1, <1>6, ModSmall
  <2> QED
    BY <1>7, <2>3, <2>6, <2>7, <2>8 DEF Mem, P, t, cb, ct
<1> QED
  BY <1>8, <1>9

\* A multiple that is not above x is not above its quotient.
LEMMA DivBelow ==
    ASSUME NEW p \in Nat \ {0}, NEW x \in Int, NEW m \in Int, m * p <= x
    PROVE  m <= x \div p
<1> DEFINE q == x \div p
           r == x % p
<1>1. q \in Int /\ r \in 0 .. p - 1 /\ x = p * q + r
  BY Euclid
<1> HIDE DEF q, r
<1>2. SUFFICES ASSUME m >= q + 1 PROVE FALSE
  BY <1>1 DEF q
<1>3. m * p >= (q + 1) * p
  BY <1>1, <1>2
<1> QED
  BY <1>1, <1>3

\* A multiple that is above x is above its quotient.
LEMMA DivAbove ==
    ASSUME NEW p \in Nat \ {0}, NEW x \in Int, NEW m \in Int, x < m * p
    PROVE  x \div p < m
<1> DEFINE q == x \div p
           r == x % p
<1>1. q \in Int /\ r \in 0 .. p - 1 /\ x = p * q + r
  BY Euclid
<1> HIDE DEF q, r
<1>2. SUFFICES ASSUME q >= m PROVE FALSE
  BY <1>1 DEF q
<1>3. q * p >= m * p
  BY <1>1, <1>2
<1> QED
  BY <1>1, <1>3

\* An address that set_address finds representable is in reach of the base.
LEMMA InReach ==
    ASSUME NEW e, NEW m, NEW n, Region(e, m, n), NEW newptr \in Addrs,
           ((newptr - m * 2^e) % 2^(ADDR_W + 1)) \div 2^(e + TOP_W) = 0
    PROVE  Reach(e, m, newptr)
<1> DEFINE P == 2^e
           d == newptr - m * P
<1> SUFFICES ASSUME e # RESETEXP PROVE m <= newptr \div P /\ newptr \div P < m + Mant
  BY DEF Reach
<1>1. e \in Nat /\ e < RESETEXP /\ m \in Nat /\ P \in Nat \ {0} /\ Mant \in Nat \ {0} /\ Mem \in Nat \ {0}
  BY Widths, PowPositive DEF Region
<1>2. newptr \in 0 .. Mem - 1 /\ m * P \in 0 .. Mem - 1
  BY <1>1 DEF Addrs, Mem, Region
<1>3. 2^(e + TOP_W) = P * Mant /\ P * Mant \in Nat \ {0}
  BY <1>1, Widths, PowAdd DEF Mant
<1>4. P * Mant <= Mem
  <2>1. 2 * P <= 2^RESETEXP /\ 2^RESETEXP \in Nat
    BY <1>1, Widths, PowLess, PowPositive
  <2>2. (2 * P) * Mant <= 2^RESETEXP * Mant
    BY <1>1, <2>1
  <2> QED
    BY <1>1, <2>2, Widths
<1>5. d \in Int /\ d > -Mem /\ d < Mem
  BY <1>1, <1>2
<1>6. (d % (2 * Mem)) \div (P * Mant) = 0
  BY <1>3, Widths
<1> DEFINE w == P * Mant
<1> HIDE DEF P, d, w
<1>7. d % (2 * Mem) < w
  <2> DEFINE x == d % (2 * Mem)
  <2>1. x \in Nat /\ w \in Nat \ {0}
    BY <1>1, <1>3, <1>5 DEF w
  <2> HIDE DEF x
  <2>2. x = w * (x \div w) + (x % w) /\ x % w < w
    BY <2>1
  <2>3. x \div w = 0
    BY <1>6 DEF x, w
  <2> QED
    BY <2>1, <2>2, <2>3 DEF x
<1>8. d >= 0 /\ d < w
  <2>1. CASE d >= 0
    BY <1>1, <1>5, <1>7, <2>1
  <2>2. CASE d < 0
    <3>1. d % (2 * Mem) = d + 2 * Mem
      BY <1>1, <1>5, <2>2
    <3> QED
      BY <1>1, <1>4, <1>5, <1>7, <3>1 DEF w
  <2> QED
    BY <1>5, <2>1, <2>2
<1>9. m * P <= newptr /\ newptr < (m + Mant) * P
  BY <1>1, <1>2, <1>8 DEF d, w
<1> QED
  BY <1>1, <1>2, <1>9, DivBelow, DivAbove

\* The exponents that each encoding has.
Exponents(i8) == IF i8 THEN 0 .. AllOnes - 1 ELSE (0 .. RESETCEXP - 1) \cup {RESETEXP}

\* The registers of each encoding.
Regs(i8) ==
    [valid : BOOLEAN, exp : Exponents(i8), top : 0 .. Mant - 1, base : 0 .. Mant - 1,
     top_cor : -1 .. 1, base_cor : 0 .. 1, otype : 0 .. 7, cperms : 0 .. 63]

\* A register that stands for a region, at an address in reach of it; in IT8
\* normalised, which is what lets the top's leading bit be left out.
Sound(i8, r, a, m, n) ==
    /\ Region(r.exp, m, n) /\ Reach(r.exp, m, a)
    /\ r.base = m % Mant /\ r.top = n % Mant
    /\ i8 /\ r.exp > 0 => 2 * (n - m) >= Mant

\* Its corrections are those of the address, and with a tag it stands for a region.
Good(i8, r, a) ==
    /\ r \in Regs(i8) /\ Corrected(r, a) = r
    /\ r.valid => \E m, n \in Nat : Sound(i8, r, a, m, n)

\* Fields and bounds of one region, no matter where the address is.
Holds(i8, g, b, t, m, n) ==
    /\ Region(g.exp, m, n) /\ b = m * 2^g.exp /\ t = n * 2^g.exp
    /\ g.base = m % Mant /\ g.top = n % Mant
    /\ i8 /\ g.exp > 0 => 2 * (n - m) >= Mant

\* Exponents are naturals.
LEMMA ExponentsNat == ASSUME NEW i8 \in BOOLEAN PROVE Exponents(i8) \subseteq Nat
<1>1. AllOnes \in Int
  BY Widths, PowPositive DEF AllOnes
<1> QED
  BY <1>1, Widths DEF Exponents

\* Corrections change the two correction fields of a register and nothing else.
LEMMA CorrectedReg ==
    ASSUME NEW i8 \in BOOLEAN, NEW r \in Regs(i8), NEW a
    PROVE  LET c == Corrected(r, a)
           IN  /\ c \in Regs(i8)
               /\ c.valid = r.valid /\ c.exp = r.exp /\ c.top = r.top /\ c.base = r.base
               /\ c.otype = r.otype /\ c.cperms = r.cperms
               /\ c.top_cor = update_temp_fields(r.top, r.base, Field(a, r.exp, TOP_W)).top_cor
               /\ c.base_cor = update_temp_fields(r.top, r.base, Field(a, r.exp, TOP_W)).base_cor
<1>1. \A t, b, x : /\ update_temp_fields(t, b, x).top_cor \in -1 .. 1
                   /\ update_temp_fields(t, b, x).base_cor \in 0 .. 1
  BY DEF update_temp_fields, Flag
<1> QED
  BY <1>1 DEF Corrected, Regs

\* A register with the same mantissas and corrections needs no others.
LEMMA CorrectedAgain ==
    ASSUME NEW i8 \in BOOLEAN, NEW r \in Regs(i8), NEW s \in Regs(i8), NEW a, s.exp = r.exp, s.top = r.top, s.base = r.base,
           s.top_cor = Corrected(r, a).top_cor, s.base_cor = Corrected(r, a).base_cor
    PROVE  Corrected(s, a) = s
<1>1. s.top_cor = update_temp_fields(s.top, s.base, Field(a, s.exp, TOP_W)).top_cor
  BY CorrectedReg
<1>2. s.base_cor = update_temp_fields(s.top, s.base, Field(a, s.exp, TOP_W)).base_cor
  BY CorrectedReg
<1> QED
  BY <1>1, <1>2 DEF Corrected, Regs

\* The addresses are those below the size of the memory.
LEMMA AddrsAre == Addrs = 0 .. Mem - 1
BY DEF Addrs, Mem

\* reg2fullcap gives the bounds that a sound register stands for.
LEMMA Expansion ==
    ASSUME NEW i8 \in BOOLEAN, NEW r \in Regs(i8), NEW a \in Nat, Corrected(r, a) = r,
           NEW m, NEW n, Sound(i8, r, a, m, n)
    PROVE  reg2fullcap(r, a).base32 = m * 2^r.exp /\ reg2fullcap(r, a).top33 = n * 2^r.exp
<1>1. Region(r.exp, m, n) /\ Reach(r.exp, m, a) /\ r.base = m % Mant /\ r.top = n % Mant
  BY DEF Sound
<1>2. /\ r.top_cor = update_temp_fields(r.top, r.base, Field(a, r.exp, TOP_W)).top_cor
      /\ r.base_cor = update_temp_fields(r.top, r.base, Field(a, r.exp, TOP_W)).base_cor
  BY CorrectedReg
<1>3. /\ get_bound33(r.top, r.top_cor, r.exp, a) = n * 2^r.exp
      /\ get_bound33(r.base, -r.base_cor, r.exp, a) % 2^ADDR_W = m * 2^r.exp
  BY <1>1, <1>2, BoundsOf
<1> QED
  BY <1>3 DEF reg2fullcap

\* What set_address makes of a capability with its bounds: in a register with a
\* new address, or of the program counter's.  If it keeps the tag, the bounds are
\* those it had.
LEMMA SetAddress ==
    ASSUME NEW i8 \in BOOLEAN, NEW g \in Regs(i8), NEW p, NEW t, NEW b, NEW newptr \in Addrs,
           g.valid => \E m, n \in Nat : Holds(i8, g, b, t, m, n)
    PROVE  LET r == full2regcap(set_address([reg |-> g, perms |-> p, top33 |-> t, base32 |-> b], newptr))
           IN  /\ Good(i8, r, newptr)
               /\ r.valid => g.valid /\ reg2fullcap(r, newptr).base32 = b /\ reg2fullcap(r, newptr).top33 = t
               /\ r.exp = g.exp /\ r.top = g.top /\ r.base = g.base
               /\ r.otype = g.otype /\ r.cperms = g.cperms
<1> DEFINE f == [reg |-> g, perms |-> p, top33 |-> t, base32 |-> b]
           c == Corrected(g, newptr)
           r == [c EXCEPT !.valid = @ /\ Representable(f, newptr)]
<1>0. full2regcap(set_address(f, newptr)) = r
  BY DEF full2regcap, set_address
<1>1. /\ c \in Regs(i8)
      /\ c.valid = g.valid /\ c.exp = g.exp /\ c.top = g.top /\ c.base = g.base
      /\ c.otype = g.otype /\ c.cperms = g.cperms
  BY CorrectedReg
<1> HIDE DEF c
<1>2. /\ r \in Regs(i8) /\ (r.valid <=> g.valid /\ Representable(f, newptr))
      /\ r.exp = g.exp /\ r.top = g.top /\ r.base = g.base
      /\ r.otype = g.otype /\ r.cperms = g.cperms
      /\ r.top_cor = c.top_cor /\ r.base_cor = c.base_cor
  BY <1>1 DEF Regs
<1> HIDE DEF r
<1>3. Corrected(r, newptr) = r
  BY <1>2, CorrectedAgain DEF c
<1>4. ASSUME r.valid
      PROVE  /\ \E m, n \in Nat : Sound(i8, r, newptr, m, n)
             /\ reg2fullcap(r, newptr).base32 = b /\ reg2fullcap(r, newptr).top33 = t
  <2>1. PICK m \in Nat, n \in Nat : Holds(i8, g, b, t, m, n)
    BY <1>2, <1>4
  <2>2. ((newptr - m * 2^g.exp) % 2^(ADDR_W + 1)) \div 2^(g.exp + TOP_W) = 0
    BY <1>2, <1>4, <2>1 DEF Representable, Holds
  <2>3. Reach(g.exp, m, newptr)
    BY <2>1, <2>2, InReach DEF Holds
  <2>4. Sound(i8, r, newptr, m, n)
    BY <1>2, <2>1, <2>3 DEF Sound, Holds
  <2>5. newptr \in Nat
    BY AddrsAre, Widths
  <2>6. reg2fullcap(r, newptr).base32 = m * 2^r.exp /\ reg2fullcap(r, newptr).top33 = n * 2^r.exp
    BY <1>2, <1>3, <2>4, <2>5, Expansion
  <2> QED
    BY <1>2, <2>1, <2>4, <2>6 DEF Holds
<1> QED
  BY <1>0, <1>2, <1>3, <1>4 DEF Good

-----------------------------------------------------------------------------
(* New bounds: the arithmetic of the set-bounds family                     *)

\* An initial segment has as many elements as its end says.
LEMMA InitialSegment ==
    ASSUME NEW s \in Nat, NEW S, S = 0 .. s - 1
    PROVE  Cardinality(S) = s
<1>1. Cardinality(0 .. s - 1) = IF 0 > s - 1 THEN 0 ELSE s - 1 - 0 + 1
  BY FS_Interval
<1> QED
  BY <1>1

\* get_size is the number of bits of its operand.
LEMMA GetSize ==
    ASSUME NEW n \in 0 .. Mem - 1
    PROVE  /\ get_size(n) \in 0 .. ADDR_W /\ n < 2^get_size(n)
           /\ get_size(n) > 0 => 2^(get_size(n) - 1) <= n
<1> DEFINE U == {i \in Nat : n < 2^i}
<1>1. U \in SUBSET Nat /\ ADDR_W \in U
  BY Widths DEF Mem
<1>2. PICK s \in U : \A y \in U : s <= y
  <2> HIDE DEF U
  <2> QED
    BY <1>1, LeastNat
<1>3. s \in 0 .. ADDR_W /\ n < 2^s /\ n \in Int
  BY <1>1, <1>2, Widths
<1>4. ASSUME NEW i \in Nat PROVE 2^i <= n <=> i < s
  <2>1. 2^i \in Nat /\ 2^s \in Nat
    BY <1>3, PowPositive
  <2>2. CASE i < s
    <3>1. i \notin U
      BY <1>2, <1>3, <2>2
    <3> QED
      BY <1>3, <2>1, <2>2, <3>1
  <2>3. CASE i >= s
    <3>1. 2^s <= 2^i
      BY <1>3, <2>1, <2>3, PowOrder
    <3> QED
      BY <1>3, <2>1, <2>3, <3>1
  <2> QED
    BY <1>3, <2>2, <2>3
<1>5. {i \in 0 .. ADDR_W - 1 : 2^i <= n} = 0 .. s - 1
  <2>1. ASSUME NEW i \in 0 .. ADDR_W - 1 PROVE 2^i <= n <=> i \in 0 .. s - 1
    BY <1>3, <1>4, Widths
  <2>2. 0 .. s - 1 \subseteq 0 .. ADDR_W - 1
    BY <1>3, Widths
  <2> QED
    BY <2>1, <2>2
<1>6. get_size(n) = s
  BY <1>3, <1>5, InitialSegment DEF get_size
<1>7. s > 0 => 2^(s - 1) <= n
  BY <1>3, <1>4
<1> QED
  BY <1>3, <1>6, <1>7

\* What a power divides, a smaller one divides.
LEMMA Divides ==
    ASSUME NEW n \in Int, NEW b \in Nat, NEW a \in 0 .. b, n % 2^b = 0
    PROVE  n % 2^a = 0
<1> DEFINE P == 2^a
           Q == 2^b
           k == 2^(b - a)
           c == n \div Q
<1>1. b - a \in Nat /\ a + (b - a) = b
  OBVIOUS
<1>2. P \in Nat \ {0} /\ Q \in Nat \ {0} /\ k \in Nat \ {0} /\ Q = P * k
  BY <1>1, PowPositive, PowAdd
<1>3. c \in Int /\ n = Q * c + (n % Q)
  BY <1>2, Euclid
<1>4. n % Q = 0
  OBVIOUS
<1> HIDE DEF P, Q, k, c
<1>5. n = (k * c) * P /\ k * c \in Int
  BY <1>2, <1>3, <1>4
<1>6. n % P = 0
  BY <1>2, <1>5, DivMult
<1> QED
  BY <1>6 DEF P

\* count_tz is a shift that loses nothing.
LEMMA CountTz ==
    ASSUME NEW n \in Nat
    PROVE  count_tz(n) \in 0 .. ADDR_W /\ n % 2^count_tz(n) = 0
<1> DEFINE U == {i \in Nat : i = ADDR_W \/ n % 2^(i + 1) # 0}
<1>1. U \in SUBSET Nat /\ ADDR_W \in U
  BY Widths
<1>2. PICK s \in U : \A y \in U : s <= y
  <2> HIDE DEF U
  <2> QED
    BY <1>1, LeastNat
<1>3. s \in 0 .. ADDR_W
  BY <1>1, <1>2, Widths
<1>4. ASSUME NEW i \in 0 .. ADDR_W - 1 PROVE n % 2^(i + 1) = 0 <=> i < s
  <2>1. CASE i < s
    <3>1. i \notin U /\ i \in Nat
      BY <1>2, <1>3, <2>1, Widths
    <3> QED
      BY <2>1, <3>1
  <2>2. CASE i >= s
    <3>1. s + 1 \in 0 .. i + 1 /\ i + 1 \in Nat /\ s # ADDR_W
      BY <1>3, <2>2, Widths
    <3>2. n % 2^(s + 1) # 0
      BY <1>2, <3>1
    <3>3. n % 2^(i + 1) # 0
      BY <3>1, <3>2, Divides
    <3> QED
      BY <1>3, <2>2, <3>3, Widths
  <2> QED
    BY <1>3, <2>1, <2>2, Widths
<1>5. {i \in 0 .. ADDR_W - 1 : n % 2^(i + 1) = 0} = 0 .. s - 1
  <2>1. ASSUME NEW i \in 0 .. ADDR_W - 1 PROVE n % 2^(i + 1) = 0 <=> i \in 0 .. s - 1
    BY <1>3, <1>4, Widths
  <2>2. 0 .. s - 1 \subseteq 0 .. ADDR_W - 1
    BY <1>3, Widths
  <2> QED
    BY <2>1, <2>2
<1>6. count_tz(n) = s
  BY <1>3, <1>5, InitialSegment DEF count_tz
<1>7. n % 2^s = 0
  <2>1. CASE s = 0
    BY <2>1, PowZero
  <2>2. CASE s > 0
    <3>1. s - 1 \in 0 .. ADDR_W - 1 /\ s - 1 + 1 = s /\ s - 1 < s
      BY <1>3, <2>2, Widths
    <3> QED
      BY <1>4, <3>1
  <2> QED
    BY <1>3, <2>1, <2>2
<1> QED
  BY <1>3, <1>6, <1>7

\* A remainder of twice k, cut to k.
LEMMA ModMod ==
    ASSUME NEW k \in Nat \ {0}, NEW x \in Int
    PROVE  (x % (2 * k)) % k = x % k
<1> DEFINE kk == 2 * k
           c == x \div kk
           y == x % kk
<1>0. kk \in Nat \ {0}
  OBVIOUS
<1> HIDE DEF kk
<1>1. c \in Int /\ y \in Int /\ x = kk * c + y
  BY <1>0, Euclid
<1> HIDE DEF c, y
<1>2. x = (2 * c) * k + y /\ 2 * c \in Int
  BY <1>1 DEF kk
<1>3. x % k = y % k
  BY <1>1, <1>2, ModShift
<1> QED
  BY <1>3 DEF y, kk

\* A difference of remainders, cut: lengths are taken so in set_bounds.
LEMMA ModSub ==
    ASSUME NEW k \in Nat \ {0}, NEW x \in Int, NEW y \in Int
    PROVE  ((x % k) - (y % k)) % k = (x - y) % k
<1> DEFINE c == (x \div k) - (y \div k)
           w == x - y
           z == (x % k) - (y % k)
<1>1. c \in Int /\ z \in Int /\ w = c * k + z
  OBVIOUS
<1> HIDE DEF c, w, z
<1>2. w % k = z % k
  BY <1>1, ModShift
<1> QED
  BY <1>2 DEF w, z

\* Rounded up to units of size p.
Up(t, p) == (t \div p) + (IF t % p = 0 THEN 0 ELSE 1)

\* Rounding down to a unit.
LEMMA Down ==
    ASSUME NEW p \in Nat \ {0}, NEW t \in Nat
    PROVE  /\ t \div p \in Nat /\ (t \div p) * p <= t /\ t < (t \div p) * p + p
           /\ t % p = 0 => (t \div p) * p = t
<1> DEFINE q == t \div p
           r == t % p
<1>1. q \in Nat /\ r \in 0 .. p - 1 /\ t = p * q + r
  OBVIOUS
<1> HIDE DEF q, r
<1>2. q * p <= t /\ t < q * p + p /\ (r = 0 => q * p = t)
  BY <1>1
<1> QED
  BY <1>1, <1>2 DEF q, r

\* Rounding up to a unit, as topoff does in set_bounds.
LEMMA UpIs ==
    ASSUME NEW p \in Nat \ {0}, NEW t \in Nat
    PROVE  /\ Up(t, p) \in Nat /\ t <= Up(t, p) * p /\ Up(t, p) * p < t + p
           /\ t % p = 0 => Up(t, p) * p = t
           /\ \A x \in Int : t <= x * p => Up(t, p) <= x
<1> DEFINE q == t \div p
           r == t % p
           u == Up(t, p)
<1>1. q \in Nat /\ r \in 0 .. p - 1 /\ t = p * q + r
  OBVIOUS
<1>2. u = q + (IF r = 0 THEN 0 ELSE 1)
  BY DEF Up
<1> HIDE DEF q, r, u
<1>3. u \in Nat /\ t <= u * p /\ u * p < t + p /\ (r = 0 => u * p = t)
  <2>1. (q + 1) * p = q * p + p
    BY <1>1
  <2> QED
    BY <1>1, <1>2, <2>1
<1>4. ASSUME NEW x \in Int, t <= x * p PROVE u <= x
  <2>1. SUFFICES ASSUME x <= u - 1 PROVE FALSE
    BY <1>3
  <2>2. x * p <= (u - 1) * p
    BY <1>3, <2>1
  <2>3. (u - 1) * p = u * p - p
    BY <1>3
  <2> QED
    BY <1>3, <1>4, <2>2, <2>3
<1> QED
  BY <1>3, <1>4 DEF u, r

\* How many units of size p it takes to cover a length.
LEMMA Span ==
    ASSUME NEW p \in Nat \ {0}, NEW a \in Nat, NEW len \in Nat
    PROVE  /\ a \div p <= Up(a + len, p)
           /\ \A x \in Nat : len < x * p => Up(a + len, p) - (a \div p) < x + 2
           /\ \A x \in Nat : x * p <= len => Up(a + len, p) - (a \div p) >= x
<1> DEFINE t == a + len
           m == a \div p
           n == Up(t, p)
<1>1. m \in Nat /\ m * p <= a /\ a < m * p + p
  BY Down
<1>2. n \in Nat /\ t <= n * p /\ n * p < t + p
  BY UpIs
<1> HIDE DEF m, n
<1>3. (n - m) * p = n * p - m * p
  BY <1>1, <1>2
<1>4. (n - m) * p >= len /\ (n - m) * p < len + 2 * p
  BY <1>1, <1>2, <1>3
<1>5. m <= n
  <2>1. SUFFICES ASSUME n - m <= -1 PROVE FALSE
    BY <1>1, <1>2
  <2>2. (n - m) * p <= -p
    BY <1>1, <1>2, <2>1
  <2> QED
    BY <1>1, <1>2, <1>4, <2>2
<1>6. ASSUME NEW x \in Nat, len < x * p PROVE n - m < x + 2
  <2>1. SUFFICES ASSUME n - m >= x + 2 PROVE FALSE
    BY <1>1, <1>2
  <2>2. (n - m) * p >= (x + 2) * p
    BY <1>1, <1>2, <2>1
  <2>3. (x + 2) * p = x * p + 2 * p
    OBVIOUS
  <2> QED
    BY <1>1, <1>2, <1>4, <1>6, <2>2, <2>3
<1>7. ASSUME NEW x \in Nat, x * p <= len PROVE n - m >= x
  <2>1. SUFFICES ASSUME n - m <= x - 1 PROVE FALSE
    BY <1>1, <1>2
  <2>2. (n - m) * p <= (x - 1) * p
    BY <1>1, <1>2, <2>1
  <2>3. (x - 1) * p = x * p - p
    OBVIOUS
  <2> QED
    BY <1>1, <1>2, <1>4, <1>7, <2>2, <2>3
<1> QED
  BY <1>5, <1>6, <1>7 DEF m, n

\* One path of set_bounds: its mantissas, and its length, which does not wrap.
LEMMA PathIs ==
    ASSUME NEW e \in Nat, NEW a \in Nat, NEW t \in Nat,
           a \div 2^e <= Up(t, 2^e), Up(t, 2^e) - (a \div 2^e) < 2 * Mant
    PROVE  /\ Path(a, t, e).exp = e
           /\ Path(a, t, e).base = (a \div 2^e) % Mant
           /\ Path(a, t, e).top = Up(t, 2^e) % Mant
           /\ Path(a, t, e).len = Up(t, 2^e) - (a \div 2^e)
           /\ Path(a, t, e).off <=> (t % 2^e # 0 \/ a % 2^e # 0)
<1> DEFINE P == 2^e
           m == a \div P
           n == Up(t, P)
           M == 2 * Mant
<1>1. P \in Nat \ {0} /\ Mant \in Nat \ {0} /\ M \in Nat \ {0} /\ 2^(TOP_W + 1) = M
  BY Widths, PowPositive, PowSucc DEF Mant
<1>2. m \in Nat /\ n \in Nat /\ m <= n /\ n - m < M
  BY <1>1, Down, UpIs
<1>3. Flag(t % P # 0) = IF t % P = 0 THEN 0 ELSE 1
  BY DEF Flag
<1>4. t \div P + Flag(t % P # 0) = n
  BY <1>3 DEF Up
<1>5. /\ Path(a, t, e).exp = e
      /\ Path(a, t, e).base = (m % M) % 2^TOP_W
      /\ Path(a, t, e).top = (n % M) % 2^TOP_W
      /\ Path(a, t, e).len = ((n % M) - (m % M)) % M
      /\ Path(a, t, e).off <=> (t % P # 0 \/ a % P # 0)
  BY <1>1, <1>4 DEF Path, Field
<1> HIDE DEF P, m, n
<1>6. m \in Int /\ n \in Int /\ Mant \in Nat \ {0} /\ M \in Nat \ {0}
  BY <1>1, <1>2
<1>7. /\ (m % (2 * Mant)) % Mant = m % Mant /\ (n % (2 * Mant)) % Mant = n % Mant
      /\ ((n % M) - (m % M)) % M = (n - m) % M
  BY <1>6, ModMod, ModSub, Zenon
<1> HIDE DEF M
<1>8. (n - m) % M = n - m
  BY <1>1, <1>2
<1> QED
  BY <1>5, <1>7, <1>8 DEF P, m, n, M, Mant

Half == 2^(TOP_W - 1)

\* Half of what a mantissa can say.
LEMMA HalfIs == Half \in Nat /\ Half >= 2 /\ Mant = 2 * Half /\ Half * 2^RESETEXP = Mem
<1>1. TOP_W - 1 \in Nat /\ TOP_W - 1 + 1 = TOP_W
  BY Widths
<1>2. Half \in Nat /\ Mant = 2 * Half
  BY <1>1, PowSucc, PowPositive DEF Half, Mant
<1>3. 2^RESETEXP * Mant = 2 * Mem /\ 2^RESETEXP \in Nat /\ Mem \in Nat /\ Mant >= 4
  BY Widths, PowPositive
<1>4. 2^RESETEXP * (2 * Half) = 2 * (Half * 2^RESETEXP)
  BY <1>2, <1>3
<1>5. Half * 2^RESETEXP \in Nat
  BY <1>2, <1>3
<1> QED
  BY <1>2, <1>3, <1>4, <1>5

\* The exponent of a length: prep_bound_req's explen says it in half to all of the
\* mantissas.
LEMMA Explen ==
    ASSUME NEW len \in Addrs
    PROVE  LET s == get_size(len \div 2^TOP_W)
           IN  /\ s \in 0 .. RESETEXP - 1 /\ len < Mant * 2^s
               /\ s > 0 => Mant * 2^(s - 1) <= len /\ Half * 2^s <= len
<1> DEFINE d == len \div Mant
           s == get_size(d)
<1>1. len \in Nat /\ len < Mem /\ Mem \in Nat /\ Mant \in Nat \ {0}
  BY Widths, AddrsAre
<1>2. d \in Nat /\ d * Mant <= len /\ len < d * Mant + Mant
  BY <1>1, Down
<1>3. d \in 0 .. Mem - 1
  <2>1. d <= d * Mant
    BY <1>1, <1>2
  <2> QED
    BY <1>1, <1>2, <2>1
<1>4. s \in 0 .. ADDR_W /\ d < 2^s /\ (s > 0 => 2^(s - 1) <= d)
  BY <1>3, GetSize
<1> HIDE DEF d, s
<1>5. 2^s \in Nat \ {0} /\ s \in Nat
  BY <1>4, PowPositive, Widths
<1>6. len < Mant * 2^s
  <2>1. (d + 1) * Mant <= 2^s * Mant
    BY <1>1, <1>2, <1>4, <1>5
  <2> QED
    BY <1>1, <1>2, <1>5, <2>1
<1>7. ASSUME s > 0 PROVE Mant * 2^(s - 1) <= len /\ Half * 2^s <= len
  <2>1. s - 1 \in Nat /\ s - 1 + 1 = s
    BY <1>5, <1>7
  <2>2. 2^s = 2 * 2^(s - 1) /\ 2^(s - 1) \in Nat
    BY <2>1, PowSucc, PowPositive
  <2>3. Mant * 2^(s - 1) <= d * Mant
    BY <1>1, <1>2, <1>4, <1>7, <2>2
  <2>4. Half * 2^s = Mant * 2^(s - 1)
    BY <2>2, HalfIs
  <2>5. Mant * 2^(s - 1) \in Nat /\ d * Mant \in Nat
    BY <1>1, <1>2, <2>2
  <2> QED
    BY <1>1, <1>2, <2>3, <2>4, <2>5
<1>8. s < RESETEXP
  <2>1. SUFFICES ASSUME s >= RESETEXP PROVE FALSE
    BY <1>5, Widths
  <2>2. 2^RESETEXP <= 2^s /\ 2^RESETEXP \in Nat
    BY <1>5, <2>1, Widths, PowOrder, PowPositive
  <2>3. Half * 2^RESETEXP <= Half * 2^s
    BY <1>5, <2>2, HalfIs
  <2> QED
    BY <1>1, <1>5, <1>7, <2>1, <2>3, HalfIs, Widths
<1> QED
  BY <1>5, <1>6, <1>7, <1>8, Widths DEF s, d, Mant

\* An exponent that the original encoding does not have becomes the largest.
ExpFor(i8, s) == IF ~i8 /\ s >= RESETCEXP THEN RESETEXP ELSE s

\* The units that a request covers.
Units(a, len, e) == Up(a + len, 2^e) - (a \div 2^e)

\* Both exponents that prep_bound_req offers: the first may be too small by one,
\* the second never is, and the first is not too large.
LEMMA UnitsAre ==
    ASSUME NEW i8 \in BOOLEAN, NEW a \in Addrs, NEW len \in Addrs
    PROVE  LET s == get_size(len \div 2^TOP_W)
               e1 == ExpFor(i8, s)
               e2 == ExpFor(i8, s + 1)
           IN  /\ e1 \in 0 .. RESETEXP /\ e1 \in Exponents(i8)
               /\ e2 \in 0 .. RESETEXP /\ e2 \in Exponents(i8)
               /\ Units(a, len, e1) \in 0 .. (2 * Mant) - 1 /\ Units(a, len, e2) \in 0 .. Mant - 1
               /\ e1 = RESETEXP => Units(a, len, e1) < Mant
               /\ i8 /\ e1 > 0 => 2 * Units(a, len, e1) >= Mant
<1> DEFINE s == get_size(len \div 2^TOP_W)
           e1 == ExpFor(i8, s)
           e2 == ExpFor(i8, s + 1)
<1>1. a \in Nat /\ len \in Nat /\ len < Mem
  BY Widths, AddrsAre
<1>2. s \in 0 .. RESETEXP - 1 /\ len < Mant * 2^s /\ (s > 0 => Half * 2^s <= len)
  BY Explen
<1> HIDE DEF s
<1>3. s \in Nat /\ s + 1 \in Nat /\ RESETEXP \in Nat /\ s + 1 <= RESETEXP
  BY <1>2, Widths
<1>4. RESETEXP < AllOnes /\ AllOnes \in Int
  BY <1>3, Widths, WidthAssumption, PowPositive DEF AllOnes
<1>5. /\ e1 \in 0 .. RESETEXP /\ e1 \in Exponents(i8)
      /\ e2 \in 0 .. RESETEXP /\ e2 \in Exponents(i8)
      /\ e1 = s \/ e1 = RESETEXP
      /\ e2 = s + 1 \/ e2 = RESETEXP
      /\ i8 => e1 = s
  BY <1>3, <1>4, Widths DEF ExpFor, Exponents
<1>6. ASSUME NEW e \in Nat, NEW x \in Nat, len < x * 2^e
      PROVE  Units(a, len, e) \in Nat /\ Units(a, len, e) < x + 2
  <2>1. 2^e \in Nat \ {0}
    BY PowPositive
  <2> DEFINE p == 2^e
  <2> HIDE DEF p
  <2>2. p \in Nat \ {0} /\ len < x * p
    BY <1>6, <2>1 DEF p
  <2>4. a \div p <= Up(a + len, p) /\ Up(a + len, p) - (a \div p) < x + 2
    BY <1>1, <2>2, Span
  <2>3. a \div p \in Nat /\ Up(a + len, p) \in Nat
    <3>1. a + len \in Nat
      BY <1>1
    <3> QED
      BY <1>1, <2>2, <3>1, Down, UpIs
  <2> QED
    BY <2>3, <2>4 DEF Units, p
<1>7. Units(a, len, RESETEXP) \in 0 .. Mant - 1
  <2>1. len < Half * 2^RESETEXP
    BY <1>1, HalfIs
  <2>2. Units(a, len, RESETEXP) \in Nat /\ Units(a, len, RESETEXP) < Half + 2
    BY <1>3, <1>6, <2>1, HalfIs
  <2> QED
    BY <2>2, HalfIs
<1>8. Units(a, len, s) \in 0 .. (2 * Mant) - 1
  <2>1. Units(a, len, s) \in Nat /\ Units(a, len, s) < Mant + 2
    BY <1>2, <1>3, <1>6, Widths
  <2> QED
    BY <2>1, Widths
<1>9. Units(a, len, s + 1) \in 0 .. Mant - 1
  <2>1. 2^(s + 1) = 2 * 2^s /\ 2^s \in Nat
    BY <1>3, PowSucc, PowPositive
  <2>2. Half * 2^(s + 1) = Mant * 2^s
    BY <2>1, HalfIs
  <2>3. Units(a, len, s + 1) \in Nat /\ Units(a, len, s + 1) < Half + 2
    BY <1>2, <1>3, <1>6, <2>2, HalfIs
  <2> QED
    BY <2>3, HalfIs
<1>10. ASSUME i8, s > 0 PROVE 2 * Units(a, len, s) >= Mant
  <2>1. 2^s \in Nat \ {0} /\ Half * 2^s <= len
    BY <1>2, <1>3, <1>10, PowPositive
  <2> DEFINE p == 2^s
             h == Half
  <2> HIDE DEF p, h
  <2>4. p \in Nat \ {0} /\ h \in Nat /\ h * p <= len
    BY <2>1, HalfIs DEF p, h
  <2>2. Up(a + len, p) - (a \div p) >= h
    BY <1>1, <2>4, Span
  <2>3. a \div p \in Nat /\ Up(a + len, p) \in Nat
    <3>1. a + len \in Nat
      BY <1>1
    <3> QED
      BY <1>1, <2>4, <3>1, Down, UpIs
  <2> QED
    BY <2>2, <2>3, HalfIs DEF Units, p, h
<1> HIDE DEF e1, e2
<1>11. Mant \in Nat
  BY Widths
<1> QED
  BY <1>3, <1>5, <1>7, <1>8, <1>9, <1>10, <1>11 DEF e1, e2, s

\* The units of a request are naturals.
LEMMA UnitsNat ==
    ASSUME NEW a \in Nat, NEW len \in Nat, NEW e \in Nat
    PROVE  /\ 2^e \in Nat \ {0} /\ a + len \in Nat
           /\ a \div 2^e \in Nat /\ Up(a + len, 2^e) \in Nat /\ Units(a, len, e) \in Nat
           /\ a \div 2^e <= Up(a + len, 2^e)
<1> DEFINE p == 2^e
           t == a + len
<1>1. p \in Nat \ {0} /\ t \in Nat
  BY PowPositive
<1>2. a \div p <= Up(t, p)
  <2> HIDE DEF p
  <2> QED
    BY <1>1, Span
<1> HIDE DEF p, t
<1>3. a \div p \in Nat /\ Up(t, p) \in Nat
  BY <1>1, Down, UpIs
<1> QED
  BY <1>1, <1>2, <1>3 DEF p, t, Units

\* A unit twice as large needs at least half as many.
LEMMA Coarser ==
    ASSUME NEW a \in Nat, NEW len \in Nat, NEW e \in Nat
    PROVE  Units(a, len, e) <= 2 * Units(a, len, e + 1)
<1> DEFINE p == 2^e
           pp == 2^(e + 1)
           t == a + len
           m == a \div pp
           n == Up(t, pp)
<1>1. p \in Nat \ {0} /\ pp = 2 * p /\ pp \in Nat \ {0} /\ t \in Nat
  BY PowPositive, PowSucc
<1> HIDE DEF p, pp, t
<1>2. m \in Nat /\ m * pp <= a
  BY <1>1, Down
<1>3. n \in Nat /\ t <= n * pp
  BY <1>1, UpIs
<1> HIDE DEF m, n
<1>4. (2 * m) * p <= a /\ 2 * m \in Int
  BY <1>1, <1>2
<1>5. 2 * m <= a \div p /\ a \div p \in Nat
  BY <1>1, <1>4, DivBelow
<1>6. t <= (2 * n) * p /\ 2 * n \in Int
  BY <1>1, <1>3
<1>7. Up(t, p) <= 2 * n /\ Up(t, p) \in Nat
  BY <1>1, <1>6, UpIs
<1>8. Up(t, p) - (a \div p) <= 2 * (n - m)
  BY <1>2, <1>3, <1>5, <1>7
<1> QED
  BY <1>8 DEF Units, p, pp, t, m, n

\* A request within given bounds, rounded to a finer unit than theirs, is within
\* them still.
LEMMA Within ==
    ASSUME NEW e0 \in Nat, NEW e \in 0 .. e0, NEW m0 \in Nat, NEW n0 \in Nat, NEW a \in Nat, NEW t \in Nat,
           m0 * 2^e0 <= a, t <= n0 * 2^e0
    PROVE  /\ m0 * 2^e0 <= (a \div 2^e) * 2^e /\ m0 * 2^(e0 - e) <= a \div 2^e
           /\ Up(t, 2^e) * 2^e <= n0 * 2^e0 /\ Up(t, 2^e) <= n0 * 2^(e0 - e)
<1> DEFINE p == 2^e
           k == 2^(e0 - e)
           p0 == 2^e0
<1>1. e0 - e \in Nat /\ e + (e0 - e) = e0
  OBVIOUS
<1>2. p \in Nat \ {0} /\ k \in Nat \ {0} /\ p0 = p * k /\ m0 * p0 <= a /\ t <= n0 * p0
  BY <1>1, PowPositive, PowAdd
<1> HIDE DEF p, k, p0
<1>3. (m0 * k) * p <= a /\ m0 * k \in Int /\ t <= (n0 * k) * p /\ n0 * k \in Int
  BY <1>2
<1>4. m0 * k <= a \div p /\ a \div p \in Nat
  BY <1>2, <1>3, DivBelow
<1>5. Up(t, p) <= n0 * k /\ Up(t, p) \in Nat
  BY <1>2, <1>3, UpIs
<1>6. (m0 * k) * p <= (a \div p) * p
  BY <1>2, <1>3, <1>4
<1>7. Up(t, p) * p <= (n0 * k) * p
  BY <1>2, <1>3, <1>5
<1>8. (m0 * k) * p = m0 * p0 /\ (n0 * k) * p = n0 * p0
  BY <1>2
<1> QED
  BY <1>4, <1>5, <1>6, <1>7, <1>8 DEF p, k, p0

\* The path that set_bounds chooses, by the overflow of the first.
LEMMA ChosenIs ==
    ASSUME NEW i8 \in BOOLEAN, NEW f, NEW a \in Addrs, NEW len \in Addrs
    PROVE  LET s == get_size(len \div 2^TOP_W)
               e1 == ExpFor(i8, s)
               e2 == ExpFor(i8, s + 1)
               e == IF Units(a, len, e1) >= Mant THEN e2 ELSE e1
               p == Chosen(a, prep_bound_req(i8, f, a, len))
           IN  /\ p.exp = e /\ p.base = (a \div 2^e) % Mant /\ p.top = Up(a + len, 2^e) % Mant
               /\ p.len = Units(a, len, e)
               /\ p.off <=> ((a + len) % 2^e # 0 \/ a % 2^e # 0)
<1> DEFINE s == get_size(len \div 2^TOP_W)
           e1 == ExpFor(i8, s)
           e2 == ExpFor(i8, s + 1)
           q == prep_bound_req(i8, f, a, len)
           t == a + len
<1>1. q.top33req = t /\ q.exp1 = e1 /\ q.exp2 = e2
  BY DEF prep_bound_req, ExpFor
<1>2. /\ e1 \in 0 .. RESETEXP /\ e2 \in 0 .. RESETEXP
      /\ Units(a, len, e1) \in 0 .. (2 * Mant) - 1 /\ Units(a, len, e2) \in 0 .. Mant - 1
  BY UnitsAre
<1> HIDE DEF e1, e2, q
<1>3. a \in Nat /\ len \in Nat /\ t \in Nat /\ e1 \in Nat /\ e2 \in Nat /\ Mant \in Nat
  BY <1>2, AddrsAre, Widths
<1>4. ASSUME NEW e \in {e1, e2}
      PROVE  /\ Path(a, t, e).exp = e /\ Path(a, t, e).base = (a \div 2^e) % Mant
             /\ Path(a, t, e).top = Up(t, 2^e) % Mant
             /\ Path(a, t, e).len = Units(a, len, e)
             /\ Path(a, t, e).off <=> (t % 2^e # 0 \/ a % 2^e # 0)
  <2>1. e \in Nat /\ a \div 2^e <= Up(t, 2^e) /\ Units(a, len, e) < 2 * Mant
    BY <1>2, <1>3, UnitsNat
  <2>2. Units(a, len, e) = Up(t, 2^e) - (a \div 2^e)
    BY DEF Units
  <2> HIDE DEF t
  <2> QED
    BY <1>3, <2>1, <2>2, PathIs
<1>5. ovrflw(Path(a, t, e1)) <=> Units(a, len, e1) >= Mant
  BY <1>4 DEF ovrflw, Mant
<1>6. Chosen(a, q) = IF ovrflw(Path(a, t, e1)) THEN Path(a, t, e2) ELSE Path(a, t, e1)
  BY <1>1 DEF Chosen
<1> QED
  BY <1>4, <1>5, <1>6 DEF e1, e2, q

\* The exponent that set_bounds ends up with.
Exponent(i8, a, len) ==
    LET s == get_size(len \div 2^TOP_W)
    IN  IF Units(a, len, ExpFor(i8, s)) >= Mant THEN ExpFor(i8, s + 1) ELSE ExpFor(i8, s)

\* The exponent of new bounds is one that the encoding has, and the length fits;
\* in IT8 it is normalised.
LEMMA ExponentType ==
    ASSUME NEW i8 \in BOOLEAN, NEW a \in Addrs, NEW len \in Addrs
    PROVE  LET e == Exponent(i8, a, len)
           IN  /\ e \in 0 .. RESETEXP /\ e \in Exponents(i8)
               /\ Units(a, len, e) \in 0 .. Mant - 1
               /\ i8 /\ e > 0 => 2 * Units(a, len, e) >= Mant
<1> DEFINE s == get_size(len \div 2^TOP_W)
           e1 == ExpFor(i8, s)
           e2 == ExpFor(i8, s + 1)
           e == Exponent(i8, a, len)
<1>1. /\ e1 \in 0 .. RESETEXP /\ e1 \in Exponents(i8)
      /\ e2 \in 0 .. RESETEXP /\ e2 \in Exponents(i8)
      /\ Units(a, len, e1) \in 0 .. (2 * Mant) - 1 /\ Units(a, len, e2) \in 0 .. Mant - 1
      /\ i8 /\ e1 > 0 => 2 * Units(a, len, e1) >= Mant
  BY UnitsAre
<1>2. e = IF Units(a, len, e1) >= Mant THEN e2 ELSE e1
  BY DEF Exponent
<1>3. s \in Nat
  BY Explen, Widths
<1>4. i8 => e1 = s /\ e2 = s + 1
  BY DEF ExpFor
<1>5. a \in Nat /\ len \in Nat /\ Mant \in Nat
  BY AddrsAre, Widths
<1> HIDE DEF s, e1, e2, e
<1>6. ASSUME i8, e = e2, Units(a, len, e1) >= Mant PROVE 2 * Units(a, len, e2) >= Mant
  <2>1. Units(a, len, s) <= 2 * Units(a, len, s + 1)
    BY <1>3, <1>5, Coarser
  <2>2. Units(a, len, s) \in Int /\ Units(a, len, s + 1) \in Int
    BY <1>1, <1>4, <1>5, <1>6
  <2> QED
    BY <1>4, <1>5, <1>6, <2>1, <2>2
<1>7. CASE Units(a, len, e1) >= Mant
  BY <1>1, <1>2, <1>5, <1>6, <1>7 DEF e
<1>8. CASE ~(Units(a, len, e1) >= Mant)
  BY <1>1, <1>2, <1>5, <1>8 DEF e
<1> QED
  BY <1>7, <1>8

\* The exponent that a length within given bounds needs is at most theirs: rounding
\* cannot leave the bounds.
LEMMA ExponentFits ==
    ASSUME NEW i8 \in BOOLEAN, NEW a \in Addrs, NEW len \in Addrs,
           NEW e0 \in Exponents(i8), NEW m0, NEW n0, Region(e0, m0, n0),
           m0 * 2^e0 <= a, a + len <= n0 * 2^e0
    PROVE  get_size(len \div 2^TOP_W) <= e0 /\ Exponent(i8, a, len) \in 0 .. e0
<1> DEFINE s == get_size(len \div 2^TOP_W)
           e1 == ExpFor(i8, s)
           e2 == ExpFor(i8, s + 1)
           e == Exponent(i8, a, len)
           p0 == 2^e0
<1>1. /\ a \in Nat /\ len \in Nat /\ Mant \in Nat \ {0} /\ p0 \in Nat \ {0} /\ e0 \in Nat /\ e0 <= RESETEXP
      /\ m0 \in Nat /\ n0 \in Nat /\ n0 < m0 + Mant /\ m0 <= n0 /\ RESETEXP \in Nat
  BY AddrsAre, Widths, PowPositive DEF Region
<1>2. s \in Nat /\ s < RESETEXP /\ (s > 0 => Mant * 2^(s - 1) <= len)
  BY Explen, Widths
<1>3. len <= (n0 - m0) * p0 /\ (n0 - m0) * p0 < Mant * p0
  <2>1. (n0 - m0) * p0 = n0 * p0 - m0 * p0
    BY <1>1
  <2>2. (n0 - m0) * p0 < Mant * p0
    BY <1>1
  <2> HIDE DEF p0
  <2>3. m0 * p0 <= a /\ a + len <= n0 * p0
    BY DEF p0
  <2>4. m0 * p0 \in Nat /\ n0 * p0 \in Nat
    BY <1>1
  <2> QED
    BY <1>1, <2>1, <2>2, <2>3, <2>4
<1>4. e = (IF Units(a, len, e1) >= Mant THEN e2 ELSE e1)
  BY DEF Exponent
<1>5. Units(a, len, e0) < Mant
  <2>1. e0 \in 0 .. e0 /\ e0 - e0 = 0 /\ a + len \in Nat
    BY <1>1
  <2>2. m0 * 2^(e0 - e0) <= a \div 2^e0 /\ Up(a + len, 2^e0) <= n0 * 2^(e0 - e0)
    BY <1>1, <2>1, Within
  <2>3. m0 <= a \div 2^e0 /\ Up(a + len, 2^e0) <= n0
    BY <1>1, <2>1, <2>2, PowZero
  <2>4. a \div 2^e0 \in Nat /\ Up(a + len, 2^e0) \in Nat
    BY <1>1, UnitsNat
  <2> QED
    BY <1>1, <2>3, <2>4 DEF Units
<1>10. e1 = RESETEXP => Units(a, len, e1) < Mant
  BY UnitsAre
<1> HIDE DEF s, p0, e, e1, e2
<1>6. s <= e0
  <2>1. SUFFICES ASSUME s - 1 >= e0 PROVE FALSE
    BY <1>1, <1>2
  <2>2. s - 1 \in Nat /\ p0 <= 2^(s - 1) /\ 2^(s - 1) \in Nat
    BY <1>1, <1>2, <2>1, PowOrder, PowPositive DEF p0
  <2>3. Mant * p0 <= Mant * 2^(s - 1)
    BY <1>1, <2>2
  <2>4. Mant * p0 \in Nat /\ Mant * 2^(s - 1) \in Nat /\ (n0 - m0) * p0 \in Int
    BY <1>1, <2>2
  <2>5. Mant * 2^(s - 1) <= len
    BY <1>1, <1>2, <2>1
  <2> QED
    BY <1>1, <1>3, <2>3, <2>4, <2>5
<1>7. ~i8 /\ e0 >= RESETCEXP => e0 = RESETEXP
  BY <1>1, Widths DEF Exponents
<1>8. e1 \in 0 .. e0
  BY <1>1, <1>2, <1>6, <1>7, Widths DEF ExpFor, e1
<1>9. ASSUME Units(a, len, e1) >= Mant PROVE e2 \in 0 .. e0
  <2>1. e1 \in Nat /\ Units(a, len, e1) \in Nat
    <3>1. e1 \in Nat
      BY <1>1, <1>8
    <3> QED
      BY <1>1, <3>1, UnitsNat, Zenon
  <2>2. e1 # RESETEXP /\ e1 # e0
    <3>1. ~(Units(a, len, e1) < Mant)
      BY <1>1, <1>9, <2>1
    <3> QED
      BY <1>5, <1>10, <3>1, Zenon
  <2>3. e1 = s
    BY <2>2 DEF ExpFor, e1
  <2>4. s + 1 <= e0
    BY <1>1, <1>2, <1>6, <2>2, <2>3
  <2> QED
    BY <1>1, <1>2, <1>7, <2>4, Widths DEF ExpFor, e2
<1> QED
  BY <1>4, <1>6, <1>8, <1>9 DEF e, s

\* New bounds whose base is at the address have the corrections that set_bounds
\* gives them.
LEMMA NewBoundsReg ==
    ASSUME NEW i8 \in BOOLEAN, NEW g \in Regs(i8), NEW e \in Exponents(i8), NEW a \in Nat,
           NEW base, base = (a \div 2^e) % Mant, NEW top \in 0 .. Mant - 1, NEW v \in BOOLEAN
    PROVE  LET r == NewBounds(g, e, base, top, v)
           IN  /\ r \in Regs(i8) /\ Corrected(r, a) = r
               /\ r.valid = v /\ r.exp = e /\ r.base = base /\ r.top = top
               /\ r.otype = g.otype /\ r.cperms = g.cperms
<1> DEFINE r == NewBounds(g, e, base, top, v)
<1>1. 2^e \in Nat \ {0} /\ Mant \in Nat \ {0}
  BY ExponentsNat, PowPositive, Widths
<1>2. base \in 0 .. Mant - 1
  <2>1. a \div 2^e \in Nat
    BY <1>1, Down
  <2> QED
    BY <1>1, <2>1
<1>3. Flag(top < base) \in {0, 1} /\ Flag(top < base) = IF top < base THEN 1 ELSE 0
  BY DEF Flag
<1>4. /\ r \in Regs(i8)
      /\ r.valid = v /\ r.exp = e /\ r.base = base /\ r.top = top
      /\ r.otype = g.otype /\ r.cperms = g.cperms
      /\ r.top_cor = Flag(top < base) /\ r.base_cor = 0
  <2>1. PICK tc \in -1 .. 1 : tc = Flag(top < base)
    BY <1>3
  <2>2. r = [g EXCEPT !.exp = e, !.base = base, !.top = top, !.valid = v, !.top_cor = tc, !.base_cor = 0]
    BY <2>1 DEF NewBounds
  <2> HIDE DEF r
  <2>3. DOMAIN g = {"valid", "exp", "top", "base", "top_cor", "base_cor", "otype", "cperms"}
    BY DEF Regs
  <2>4. /\ r.valid = v /\ r.exp = e /\ r.base = base /\ r.top = top
        /\ r.otype = g.otype /\ r.cperms = g.cperms
        /\ r.top_cor = tc /\ r.base_cor = 0
    BY <2>2, <2>3
  <2>5. r = [valid |-> v, exp |-> e, top |-> top, base |-> base, top_cor |-> tc, base_cor |-> 0,
             otype |-> g.otype, cperms |-> g.cperms]
    BY <2>2 DEF Regs
  <2>6. g.otype \in 0 .. 7 /\ g.cperms \in 0 .. 63
    BY DEF Regs
  <2>7. r \in Regs(i8)
    BY <1>2, <2>1, <2>5, <2>6 DEF Regs
  <2> QED
    BY <2>1, <2>4, <2>7
<1> HIDE DEF r
<1>5. Field(a, e, TOP_W) = base
  BY DEF Field, Mant
<1>6. ~(base < base)
  BY <1>2
<1>7. /\ update_temp_fields(top, base, base).top_cor = Flag(top < base)
      /\ update_temp_fields(top, base, base).base_cor = 0
  BY <1>3, <1>6 DEF update_temp_fields, Flag
<1>8. Corrected(r, a) = r
  BY <1>4, <1>5, <1>7 DEF Corrected, Regs
<1> QED
  BY <1>4, <1>8 DEF r

\* What set_bounds is given: the bounds in full.
Fits(i8, f) ==
    /\ f.reg \in Regs(i8)
    /\ f.reg.valid => \E m, n \in Nat : Region(f.reg.exp, m, n) /\ f.base32 = m * 2^f.reg.exp /\ f.top33 = n * 2^f.reg.exp

\* What set_bounds returns.
NearBounds(i8, f, a, len, exact) ==
    LET r == set_bounds(f, a, prep_bound_req(i8, f, a, len), exact)
        e == Exponent(i8, a, len)
        base == (a \div 2^e) * 2^e
        top == Up(a + len, 2^e) * 2^e
    IN  /\ Good(i8, r, a) /\ r.otype = f.reg.otype /\ r.cperms = f.reg.cperms
        /\ r.valid <=> /\ f.reg.valid /\ f.base32 <= a /\ a + len <= f.top33
                       /\ exact => (a + len) % 2^e = 0 /\ a % 2^e = 0
        /\ r.valid => /\ reg2fullcap(r, a).base32 = base /\ reg2fullcap(r, a).top33 = top
                      /\ f.base32 <= base /\ base <= top /\ top <= f.top33

\* set_bounds: the new bounds are the request rounded outwards, and within the old
\* ones whenever the request is (TLC has them for one width, this for every width).
LEMMA SetBounds ==
    \A i8 \in BOOLEAN : \A f : \A a \in Addrs, len \in Addrs, exact \in BOOLEAN :
        Fits(i8, f) => NearBounds(i8, f, a, len, exact)
<1> SUFFICES ASSUME NEW i8 \in BOOLEAN, NEW f, NEW a \in Addrs, NEW len \in Addrs, NEW exact \in BOOLEAN, Fits(i8, f)
             PROVE  NearBounds(i8, f, a, len, exact)
  OBVIOUS
<1>0. PICK g, t, b :
         /\ g \in Regs(i8) /\ g = f.reg /\ t = f.top33 /\ b = f.base32
         /\ g.valid => \E m, n \in Nat : Region(g.exp, m, n) /\ b = m * 2^g.exp /\ t = n * 2^g.exp
  BY DEF Fits
<1> DEFINE q == prep_bound_req(i8, f, a, len)
           c == Chosen(a, q)
           r == set_bounds(f, a, q, exact)
           e == Exponent(i8, a, len)
           m == a \div 2^e
           n == Up(a + len, 2^e)
<1>1. /\ c.exp = e /\ c.base = m % Mant /\ c.top = n % Mant
      /\ c.off <=> ((a + len) % 2^e # 0 \/ a % 2^e # 0)
  BY ChosenIs DEF Exponent
<1>2. /\ e \in 0 .. RESETEXP /\ e \in Exponents(i8)
      /\ Units(a, len, e) \in 0 .. Mant - 1
      /\ i8 /\ e > 0 => 2 * Units(a, len, e) >= Mant
  BY ExponentType
<1>3. a \in Nat /\ a < Mem /\ len \in Nat /\ e \in Nat /\ Mant \in Nat \ {0} /\ Mem \in Nat
  BY <1>2, AddrsAre, Widths
<1>4. /\ 2^e \in Nat \ {0} /\ a + len \in Nat /\ m \in Nat /\ n \in Nat /\ m <= n
      /\ Units(a, len, e) = n - m
  BY <1>3, UnitsNat DEF Units
<1>5. q.in_bound <=> ~(a + len > t \/ a < b)
  BY <1>0 DEF prep_bound_req, InBound
<1> DEFINE v == g.valid /\ ~(exact /\ c.off) /\ q.in_bound
<1>6. r = NewBounds(g, e, m % Mant, n % Mant, v)
  BY <1>0, <1>1 DEF set_bounds
<1>7. v \in BOOLEAN /\ n % Mant \in 0 .. Mant - 1 /\ m % Mant \in 0 .. Mant - 1
  BY <1>3, <1>4
<1> HIDE DEF q, c, r, e, m, n, v
<1>8. /\ r \in Regs(i8) /\ Corrected(r, a) = r
      /\ r.valid = v /\ r.exp = e /\ r.base = m % Mant /\ r.top = n % Mant
      /\ r.otype = g.otype /\ r.cperms = g.cperms
  <2>1. PICK mb \in 0 .. Mant - 1, nt \in 0 .. Mant - 1, w \in BOOLEAN, x \in Exponents(i8) :
            mb = m % Mant /\ nt = n % Mant /\ w = v /\ x = e
    BY <1>2, <1>7
  <2>2. mb = (a \div 2^x) % Mant
    BY <2>1 DEF m
  <2>3. LET s == NewBounds(g, x, mb, nt, w)
        IN  /\ s \in Regs(i8) /\ Corrected(s, a) = s
            /\ s.valid = w /\ s.exp = x /\ s.base = mb /\ s.top = nt
            /\ s.otype = g.otype /\ s.cperms = g.cperms
    <3>1. /\ i8 \in BOOLEAN /\ g \in Regs(i8) /\ x \in Exponents(i8) /\ a \in Nat
          /\ nt \in 0 .. Mant - 1 /\ w \in BOOLEAN /\ mb = (a \div 2^x) % Mant
      BY <1>0, <1>3, <2>2
    <3> QED
      BY ONLY <3>1, NewBoundsReg
  <2> QED
    BY <1>6, <2>1, <2>3
<1>9. v <=> /\ g.valid /\ b <= a /\ a + len <= t
            /\ exact => (a + len) % 2^e = 0 /\ a % 2^e = 0
  <2>1. CASE g.valid
    <3>1. PICK m0 \in Nat, n0 \in Nat : Region(g.exp, m0, n0) /\ b = m0 * 2^g.exp /\ t = n0 * 2^g.exp
      BY <1>0, <2>1
    <3>2. 2^g.exp \in Nat
      BY <3>1, PowPositive, Widths DEF Region
    <3>3. b \in Int /\ t \in Int
      BY <3>1, <3>2
    <3>4. q.in_bound <=> (b <= a /\ a + len <= t)
      BY <1>3, <1>4, <1>5, <3>3
    <3> QED
      BY <1>1, <2>1, <3>4 DEF v
  <2> QED
    BY <2>1 DEF v
<1>10. ASSUME v
       PROVE  /\ Sound(i8, r, a, m, n)
              /\ b <= m * 2^e /\ m * 2^e <= n * 2^e /\ n * 2^e <= t
  <2>1. g.valid /\ b <= a /\ a + len <= t
    BY <1>9, <1>10
  <2>2. PICK m0 \in Nat, n0 \in Nat : Region(g.exp, m0, n0) /\ b = m0 * 2^g.exp /\ t = n0 * 2^g.exp
    BY <1>0, <2>1
  <2>3. g.exp \in Exponents(i8) /\ g.exp \in Nat
    BY <1>0, ExponentsNat DEF Regs
  <2>4. e \in 0 .. g.exp
    BY <2>1, <2>2, <2>3, ExponentFits DEF e
  <2>5. b <= m * 2^e /\ n * 2^e <= t
    BY <1>3, <1>4, <2>1, <2>2, <2>3, <2>4, Within DEF m, n
  <2>6. t <= Mem /\ t \in Int
    BY <1>3, <2>2, <2>3, PowPositive DEF Region
  <2>7. m * 2^e <= a /\ m * 2^e <= n * 2^e /\ m * 2^e \in Nat /\ n * 2^e \in Nat
    <3>1. m * 2^e <= a
      BY <1>3, <1>4, Down DEF m
    <3> QED
      BY <1>4, <3>1
  <2>8. n < m + Mant /\ (i8 /\ e > 0 => 2 * (n - m) >= Mant)
    BY <1>2, <1>3, <1>4
  <2>9. Region(e, m, n)
    BY <1>2, <1>3, <1>4, <2>5, <2>6, <2>7, <2>8 DEF Region
  <2>10. Reach(e, m, a)
    BY <1>3, <1>4 DEF Reach, m
  <2> QED
    BY <1>8, <2>5, <2>7, <2>8, <2>9, <2>10 DEF Sound
<1>11. v => reg2fullcap(r, a).base32 = m * 2^e /\ reg2fullcap(r, a).top33 = n * 2^e
  BY <1>3, <1>8, <1>10, Expansion
<1>12. Good(i8, r, a)
  BY <1>4, <1>8, <1>10 DEF Good
<1> QED
  BY <1>0, <1>8, <1>9, <1>10, <1>11, <1>12 DEF NearBounds, q, r, e, m, n

\* The exponent and the top that set_bounds_rndn picks, before it cuts them.
DownExponent(i8, s, z) ==
    IF s > z /\ (i8 \/ z < RESETCEXP) THEN z ELSE IF ~i8 /\ s >= RESETCEXP THEN RESETCEXP - 1 ELSE s
DownTop(i8, a, len, s, z) ==
    LET e == DownExponent(i8, s, z)
    IN  IF s > z \/ (~i8 /\ s >= RESETCEXP) THEN (a \div 2^e) + Mant - 1 ELSE (a + len) \div 2^e

\* The exponent and the top that set_bounds_rndn picks: the base exact, the top
\* not above the request, and not at the base if the length is not zero.
LEMMA DownChoice ==
    ASSUME NEW i8 \in BOOLEAN, NEW a \in Addrs, NEW len \in Addrs
    PROVE  LET s == get_size(len \div 2^TOP_W)
               z == count_tz(a)
               e == DownExponent(i8, s, z)
               m == a \div 2^e
               n == DownTop(i8, a, len, s, z)
           IN  /\ e \in 0 .. RESETEXP - 1 /\ e \in Exponents(i8)
               /\ m \in Nat /\ m * 2^e = a
               /\ n \in Nat /\ m <= n /\ n < m + Mant /\ n * 2^e <= a + len
               /\ i8 /\ e > 0 => 2 * (n - m) >= Mant
               /\ len > 0 => m < n
<1> DEFINE s == get_size(len \div 2^TOP_W)
           z == count_tz(a)
           e == DownExponent(i8, s, z)
           n == DownTop(i8, a, len, s, z)
           p == 2^e
           m == a \div p
<1>1. a \in Nat /\ len \in Nat /\ Mant \in Nat \ {0} /\ Mant >= 4 /\ RESETEXP \in Nat
  BY AddrsAre, Widths
<1>2. /\ s \in 0 .. RESETEXP - 1 /\ len < Mant * 2^s
      /\ s > 0 => Mant * 2^(s - 1) <= len /\ Half * 2^s <= len
  BY Explen
<1>3. z \in Nat /\ a % 2^z = 0
  BY <1>1, CountTz, Widths
<1> HIDE DEF s, z
<1>4. RESETEXP < AllOnes /\ AllOnes \in Int
  BY Widths, WidthAssumption, PowPositive DEF AllOnes
<1>5. e \in 0 .. z /\ e \in 0 .. s /\ e \in Exponents(i8)
  BY <1>1, <1>2, <1>3, <1>4, Widths DEF DownExponent, Exponents
<1>6. e \in Nat /\ s \in Nat /\ p \in Nat \ {0}
  BY <1>2, <1>5, PowPositive
<1>7. a % p = 0
  BY <1>1, <1>3, <1>5, Divides
<1>8. m \in Nat /\ m * p = a
  BY <1>1, <1>6, <1>7, Down
<1> DEFINE short == s > z \/ (~i8 /\ s >= RESETCEXP)
<1>9. short => e < s /\ n = m + Mant - 1
  BY <1>1, <1>2, <1>3, Widths DEF DownExponent, DownTop
<1>10. ~short => e = s /\ n = (a + len) \div p
  BY <1>1, <1>2, <1>3, Widths DEF DownExponent, DownTop
<1> HIDE DEF m, n, p, e, short
<1>11. CASE short
  <2>1. s - 1 \in Nat /\ p <= 2^(s - 1) /\ 2^(s - 1) \in Nat /\ Mant * 2^(s - 1) <= len
    BY <1>2, <1>6, <1>9, <1>11, PowOrder, PowPositive DEF p
  <2>2. Mant * p <= Mant * 2^(s - 1) /\ Mant * 2^(s - 1) \in Nat /\ Mant * p \in Nat
    BY <1>1, <1>6, <2>1
  <2>3. n * p = m * p + Mant * p - p
    BY <1>1, <1>6, <1>8, <1>9, <1>11
  <2>4. n * p <= a + len
    BY <1>1, <1>6, <1>8, <2>1, <2>2, <2>3
  <2> QED
    BY <1>1, <1>2, <1>5, <1>6, <1>8, <1>9, <1>11, <2>4 DEF m, n, p, e, s, z
<1>12. CASE ~short
  <2>1. e = s /\ n = (a + len) \div p /\ a + len \in Nat
    BY <1>1, <1>10, <1>12
  <2>2. n \in Nat /\ n * p <= a + len
    BY <1>6, <2>1, Down
  <2>3. len < Mant * p /\ (s > 0 => Half * p <= len)
    BY <1>2, <2>1 DEF p
  <2>4. m <= n
    BY <1>1, <1>6, <1>8, <2>1, DivBelow
  <2>5. n < m + Mant
    <3>1. a + len < (m + Mant) * p /\ m + Mant \in Int
      BY <1>1, <1>6, <1>8, <2>3
    <3> QED
      BY <1>6, <2>1, <3>1, DivAbove
  <2>6. s > 0 => n >= m + Half
    <3>1. SUFFICES ASSUME s > 0 PROVE n >= m + Half
      OBVIOUS
    <3>2. (m + Half) * p <= a + len /\ m + Half \in Int
      BY <1>1, <1>6, <1>8, <2>3, <3>1, HalfIs
    <3> QED
      BY <1>6, <2>1, <3>2, DivBelow
  <2>7. len > 0 => m < n
    <3>1. CASE s > 0
      BY <1>8, <2>2, <2>6, <3>1, HalfIs
    <3>2. CASE s = 0
      <4>1. p = 1
        BY <2>1, <3>2, PowZero DEF p
      <4>2. m = a /\ n = a + len
        BY <1>1, <1>8, <2>1, <4>1
      <4> QED
        BY <1>1, <4>2
    <3> QED
      BY <1>2, <3>1, <3>2
  <2>8. i8 /\ e > 0 => 2 * (n - m) >= Mant
    BY <1>8, <2>1, <2>2, <2>6, HalfIs
  <2> QED
    BY <1>2, <1>5, <1>8, <2>1, <2>2, <2>4, <2>5, <2>7, <2>8 DEF m, n, p, e, s, z
<1> QED
  BY <1>11, <1>12

\* The mantissa before that of the base is the largest top in reach.
LEMMA ModPred ==
    ASSUME NEW k \in Nat \ {0, 1}, NEW m \in Nat
    PROVE  ((m % k) - 1) % k = (m + k - 1) % k
<1> DEFINE x == m - 1
           y == m + k - 1
           o == 1
           i == m
<1>1. x \in Int /\ y = o * k + x /\ o \in Int /\ i \in Int /\ k \in Nat \ {0}
  OBVIOUS
<1> HIDE DEF x, y, o, i
<1>2. (o * k + x) % k = x % k
  BY <1>1, ModShift
<1>3. ((i % k) - (o % k)) % k = (i - o) % k
  BY <1>1, ModSub
<1>4. 1 % k = 1
  OBVIOUS
<1> QED
  BY <1>1, <1>2, <1>3, <1>4 DEF x, y, o, i

\* What set_bounds_rndn returns.
InnerBounds(i8, f, a, len) ==
    LET r == set_bounds_rndn(i8, f, a, prep_bound_req(i8, f, a, len))
        top == reg2fullcap(r, a).top33
    IN  /\ Good(i8, r, a) /\ r.otype = f.reg.otype /\ r.cperms = f.reg.cperms
        /\ r.valid <=> f.reg.valid /\ f.base32 <= a /\ a + len <= f.top33
        /\ r.valid => /\ reg2fullcap(r, a).base32 = a
                      /\ a <= top /\ top <= a + len /\ (len > 0 => a < top)

\* set_bounds_rndn: the base is the address and the top is rounded downwards, to
\* no less than a unit.
LEMMA SetBoundsRndn ==
    \A i8 \in BOOLEAN : \A f : \A a \in Addrs, len \in Addrs : Fits(i8, f) => InnerBounds(i8, f, a, len)
<1> SUFFICES ASSUME NEW i8 \in BOOLEAN, NEW f, NEW a \in Addrs, NEW len \in Addrs, Fits(i8, f)
             PROVE  InnerBounds(i8, f, a, len)
  OBVIOUS
<1>0. PICK g, t, b :
         /\ g \in Regs(i8) /\ g = f.reg /\ t = f.top33 /\ b = f.base32
         /\ g.valid => \E m, n \in Nat : Region(g.exp, m, n) /\ b = m * 2^g.exp /\ t = n * 2^g.exp
  BY DEF Fits
<1> DEFINE q == prep_bound_req(i8, f, a, len)
           s == get_size(len \div 2^TOP_W)
           z == count_tz(a)
           r == set_bounds_rndn(i8, f, a, q)
           e == DownExponent(i8, s, z)
           m == a \div 2^e
           n == DownTop(i8, a, len, s, z)
<1>1. /\ e \in 0 .. RESETEXP - 1 /\ e \in Exponents(i8)
      /\ m \in Nat /\ m * 2^e = a
      /\ n \in Nat /\ m <= n /\ n < m + Mant /\ n * 2^e <= a + len
      /\ i8 /\ e > 0 => 2 * (n - m) >= Mant
      /\ len > 0 => m < n
  BY DownChoice
<1>2. a \in Nat /\ a < Mem /\ len \in Nat /\ e \in Nat /\ Mant \in Nat \ {0} /\ Mem \in Nat /\ s \in Int /\ z \in Int
  BY <1>1, AddrsAre, Widths, Explen, CountTz
<1>3. /\ q.explen = s /\ q.expb = z /\ q.top33req = a + len
      /\ q.in_bound <=> ~(a + len > t \/ a < b)
  BY <1>0 DEF prep_bound_req, InBound
<1> DEFINE v == g.valid /\ q.in_bound
           short == s > z \/ (~i8 /\ s >= RESETCEXP)
           top == IF short THEN ((m % Mant) - 1) % Mant ELSE ((a + len) \div 2^e) % Mant
<1>4. r = NewBounds(g, e, m % Mant, top, v)
  <2>1. \A x \in Int : x > RESETCEXP - 1 <=> x >= RESETCEXP
    BY Widths
  <2>2. \A x \in Int : ~(x > RESETCEXP - 1) <=> x < RESETCEXP
    BY Widths
  <2>3. (IF s > z /\ ~(~i8 /\ z > RESETCEXP - 1) THEN z ELSE IF ~i8 /\ s > RESETCEXP - 1 THEN RESETCEXP - 1 ELSE s) = e
    BY <1>2, <2>1, <2>2 DEF DownExponent
  <2>4. (s > z \/ (~i8 /\ s > RESETCEXP - 1)) <=> short
    BY <1>2, <2>1
  <2> HIDE DEF e, s, z, q, short
  <2> QED
    BY <1>0, <1>3, <2>3, <2>4 DEF set_bounds_rndn, Field, Mant
<1>5. top = n % Mant
  <2>1. CASE short
    <3>1. n = m + Mant - 1
      BY <2>1 DEF DownTop
    <3>2. m \in Nat /\ Mant \in Nat \ {0, 1}
      BY <1>1, Widths
    <3>3. ((m % Mant) - 1) % Mant = (m + Mant - 1) % Mant
      BY <3>2, ModPred, Zenon
    <3> QED
      BY <2>1, <3>1, <3>3
  <2>2. CASE ~short
    BY <2>2 DEF DownTop
  <2> QED
    BY <2>1, <2>2
<1> HIDE DEF q, r, e, m, n, v, top, s, z
<1>6. v \in BOOLEAN /\ n % Mant \in 0 .. Mant - 1 /\ m % Mant \in 0 .. Mant - 1 /\ 2^e \in Nat \ {0}
  BY <1>1, <1>2, PowPositive DEF v
<1>7. /\ r \in Regs(i8) /\ Corrected(r, a) = r
      /\ r.valid = v /\ r.exp = e /\ r.base = m % Mant /\ r.top = n % Mant
      /\ r.otype = g.otype /\ r.cperms = g.cperms
  <2>1. PICK mb \in 0 .. Mant - 1, nt \in 0 .. Mant - 1, w \in BOOLEAN, x \in Exponents(i8) :
            mb = m % Mant /\ nt = n % Mant /\ w = v /\ x = e
    BY <1>1, <1>6
  <2>2. mb = (a \div 2^x) % Mant
    BY <2>1 DEF m
  <2>3. LET c == NewBounds(g, x, mb, nt, w)
        IN  /\ c \in Regs(i8) /\ Corrected(c, a) = c
            /\ c.valid = w /\ c.exp = x /\ c.base = mb /\ c.top = nt
            /\ c.otype = g.otype /\ c.cperms = g.cperms
    <3>1. /\ i8 \in BOOLEAN /\ g \in Regs(i8) /\ x \in Exponents(i8) /\ a \in Nat
          /\ nt \in 0 .. Mant - 1 /\ w \in BOOLEAN /\ mb = (a \div 2^x) % Mant
      BY <1>0, <1>2, <2>2
    <3> QED
      BY ONLY <3>1, NewBoundsReg
  <2> QED
    BY <1>4, <1>5, <2>1, <2>3
<1>8. ASSUME g.valid PROVE t <= Mem /\ t \in Int /\ b \in Int
  <2>1. PICK m0 \in Nat, n0 \in Nat : Region(g.exp, m0, n0) /\ b = m0 * 2^g.exp /\ t = n0 * 2^g.exp
    BY <1>0, <1>8
  <2>2. 2^g.exp \in Nat
    BY <2>1, PowPositive, Widths DEF Region
  <2> QED
    BY <2>1, <2>2 DEF Region
<1>9. v <=> g.valid /\ b <= a /\ a + len <= t
  <2>1. a + len \in Int /\ a \in Int
    BY <1>2
  <2>2. ASSUME g.valid PROVE q.in_bound <=> b <= a /\ a + len <= t
    BY <1>3, <1>8, <2>1, <2>2
  <2> QED
    BY <2>2 DEF v
<1>10. ASSUME v PROVE Sound(i8, r, a, m, n)
  <2>1. a + len <= t /\ t <= Mem /\ t \in Int /\ n * 2^e \in Int
    BY <1>1, <1>6, <1>8, <1>9, <1>10
  <2>2. n * 2^e <= Mem
    BY <1>1, <1>2, <2>1
  <2>3. Region(e, m, n)
    BY <1>1, <1>2, <2>2, Widths DEF Region
  <2>4. Reach(e, m, a)
    BY <1>1, <1>2 DEF Reach, m
  <2> QED
    BY <1>1, <1>7, <2>3, <2>4 DEF Sound
<1>11. v => reg2fullcap(r, a).base32 = m * 2^e /\ reg2fullcap(r, a).top33 = n * 2^e
  BY <1>2, <1>7, <1>10, Expansion
<1>12. Good(i8, r, a)
  BY <1>1, <1>7, <1>10 DEF Good
<1>13. a <= n * 2^e /\ (len > 0 => a < n * 2^e)
  <2>1. m * 2^e <= n * 2^e /\ (m < n => m * 2^e < n * 2^e)
    BY <1>1, <1>6
  <2> QED
    BY <1>1, <2>1
<1> QED
  BY <1>0, <1>1, <1>7, <1>9, <1>11, <1>12, <1>13 DEF InnerBounds, q, r

-----------------------------------------------------------------------------
(* Words: how fields are put together and found                            *)

\* The powers that permissions and tests of single bits use.
LEMMA SmallPowers == 2^0 = 1 /\ 2^1 = 2 /\ 2^2 = 4 /\ 2^3 = 8 /\ 2^4 = 16 /\ 2^5 = 32 /\ 2^6 = 64 /\ 2^7 = 128
<1>1. 2^(0 + 1) = 2 * 2^0 /\ 2^(1 + 1) = 2 * 2^1 /\ 2^(2 + 1) = 2 * 2^2 /\ 2^(3 + 1) = 2 * 2^3
  BY PowSucc
<1>2. 2^(4 + 1) = 2 * 2^4 /\ 2^(5 + 1) = 2 * 2^5 /\ 2^(6 + 1) = 2 * 2^6
  BY PowSucc
<1> QED
  BY <1>1, <1>2, PowZero

\* The lowest digit, and the rest.
LEMMA Digit ==
    ASSUME NEW k \in Nat \ {0}, NEW d \in 0 .. k - 1, NEW h \in Nat, NEW x, x = d + k * h
    PROVE  x \in Nat /\ x \div k = h /\ x % k = d
<1>1. x = k * h + d /\ h \in Int
  OBVIOUS
<1> QED
  BY <1>1, Division

\* The fields of a word, put together; the top and the exponent as wide as the
\* encoding has them.
Packed(wt, wc, b, t, c, o, p, v, W) ==
    /\ wt \in Nat /\ wc \in Nat /\ TOP_W + wt + wc = OTYPE_LO
    /\ b \in 0 .. Mant - 1 /\ t \in 0 .. 2^wt - 1 /\ c \in 0 .. 2^wc - 1
    /\ o \in 0 .. 7 /\ p \in 0 .. 63 /\ v \in 0 .. 1
    /\ W = b + t * 2^TOP_W + c * 2^(TOP_W + wt) + o * 2^OTYPE_LO + p * 2^CPERMS_LO + v * 2^TAG
Unpacked(wt, wc, b, t, c, o, p, v, W) ==
    /\ W \in Nat
    /\ Field(W, 0, TOP_W) = b /\ Field(W, TOP_W, wt) = t /\ Field(W, TOP_W + wt, wc) = c
    /\ Field(W, OTYPE_LO, 3) = o /\ Field(W, CPERMS_LO, 6) = p /\ Field(W, TAG, 1) = v
    /\ W \div 2^TAG = v

\* Fields that are put together as reg2memcap_fmt0 does are found again where
\* mem2regcap_fmt0 looks.
LEMMA Layout ==
    \A wt, wc, b, t, c, o, p, v, W :
        Packed(wt, wc, b, t, c, o, p, v, W) => Unpacked(wt, wc, b, t, c, o, p, v, W)
<1> SUFFICES ASSUME NEW wt, NEW wc, NEW b, NEW t, NEW c, NEW o, NEW p, NEW v, NEW W,
                    Packed(wt, wc, b, t, c, o, p, v, W)
             PROVE  Unpacked(wt, wc, b, t, c, o, p, v, W)
  OBVIOUS
<1>0. /\ wt \in Nat /\ wc \in Nat /\ TOP_W + wt + wc = OTYPE_LO
      /\ b \in 0 .. Mant - 1 /\ t \in 0 .. 2^wt - 1 /\ c \in 0 .. 2^wc - 1
      /\ o \in 0 .. 7 /\ p \in 0 .. 63 /\ v \in 0 .. 1
      /\ W = b + t * 2^TOP_W + c * 2^(TOP_W + wt) + o * 2^OTYPE_LO + p * 2^CPERMS_LO + v * 2^TAG
  BY DEF Packed
<1> USE <1>0
<1> DEFINE T == 2^wt
           C == 2^wc
           H5 == p + 128 * v
           H4 == o + 8 * H5
           H3 == c + C * H4
           H2 == t + T * H3
           H1 == b + Mant * H2
<1>1. T \in Nat \ {0} /\ C \in Nat \ {0} /\ Mant \in Nat \ {0} /\ TOP_W \in Nat
  BY PowPositive, Widths
<1>2. /\ OTYPE_LO \in Nat /\ OTYPE_LO = (TOP_W + wt) + wc /\ TOP_W + wt \in Nat
      /\ CPERMS_LO = OTYPE_LO + 3 /\ CPERMS_LO \in Nat /\ TAG = CPERMS_LO + 7
  <2>1. OTYPE_LO \in Nat /\ OTYPE_LO = (TOP_W + wt) + wc /\ TOP_W + wt \in Nat
    BY <1>1
  <2>2. CPERMS_LO = OTYPE_LO + 3 /\ TAG = CPERMS_LO + 7
    BY DEF CPERMS_LO, TAG
  <2> QED
    BY <2>1, <2>2
<1>3. 2^TOP_W = Mant /\ 2^(TOP_W + wt) = Mant * T /\ 2^OTYPE_LO = (Mant * T) * C
  <2>1. 2^((TOP_W + wt) + wc) = 2^(TOP_W + wt) * 2^wc
    BY <1>2, PowAdd
  <2>2. 2^(TOP_W + wt) = Mant * T
    BY <1>1, PowAdd DEF Mant
  <2> QED
    BY <1>2, <2>1, <2>2 DEF Mant
<1>4. 2^CPERMS_LO = ((Mant * T) * C) * 8 /\ 2^TAG = (((Mant * T) * C) * 8) * 128
  <2>1. 2^(OTYPE_LO + 3) = 2^OTYPE_LO * 2^3 /\ 2^(CPERMS_LO + 7) = 2^CPERMS_LO * 2^7
    BY <1>2, PowAdd
  <2> QED
    BY <1>2, <1>3, <2>1, SmallPowers
<1> HIDE DEF T, C
<1>5. W = H1
  <2> DEFINE KT == Mant * T
             KTC == KT * C
  <2>1. W = b + t * Mant + c * KT + o * KTC + p * (KTC * 8) + v * ((KTC * 8) * 128)
    BY <1>3, <1>4
  <2>2. /\ t \in Int /\ c \in Int /\ o \in Int /\ p \in Int /\ v \in Int /\ b \in Int /\ T \in Int /\ C \in Int
        /\ Mant \in Int
    BY <1>1 DEF T, C
  <2>3. \A k1, k2, k3 \in Int : b + t * k1 + c * (k1 * k2) + o * ((k1 * k2) * k3) + p * (((k1 * k2) * k3) * 8)
                                  + v * ((((k1 * k2) * k3) * 8) * 128)
                                = b + k1 * (t + k2 * (c + k3 * (o + 8 * (p + 128 * v))))
    BY <2>2
  <2> QED
    BY <2>1, <2>2, <2>3
<1>6. H5 \in Nat /\ H4 \in Nat
  OBVIOUS
<1>7. H3 \in Nat
  BY <1>1, <1>6 DEF C
<1>8. H2 \in Nat
  BY <1>1, <1>7 DEF T
<1> HIDE DEF H1, H2, H3, H4, H5
<1>9. W \in Nat /\ W \div Mant = H2 /\ W % Mant = b
  BY <1>1, <1>5, <1>8, Digit DEF H1
<1>10. H2 \div T = H3 /\ H2 % T = t
  BY <1>1, <1>7, Digit DEF H2, T
<1>11. H3 \div C = H4 /\ H3 % C = c
  BY <1>1, <1>6, Digit DEF H3, C
<1>12. H4 \div 8 = H5 /\ H4 % 8 = o
  BY <1>6 DEF H4
<1>13. H5 % 64 = p /\ H5 \div 128 = v
  BY DEF H5
<1>14. W \div (Mant * T) = H3
  BY <1>1, <1>9, <1>10, DivDiv
<1> DEFINE KT == Mant * T
           KTC == KT * C
           KTC8 == KTC * 8
<1>15. KT \in Nat \ {0} /\ KTC \in Nat \ {0} /\ KTC8 \in Nat \ {0}
  BY <1>1
<1> HIDE DEF KT, KTC, KTC8
<1>16. W \div (KT * C) = H4
  BY <1>1, <1>9, <1>11, <1>14, <1>15, DivDiv DEF KT
<1>17. W \div (KTC * 8) = H5
  BY <1>9, <1>12, <1>15, <1>16, DivDiv DEF KTC
<1>18. W \div (KTC8 * 128) = v
  BY <1>9, <1>13, <1>15, <1>17, DivDiv DEF KTC8
<1>19. W \div 2^0 = W
  BY <1>9, PowZero
<1>20. W \div 2^TAG = v
  BY <1>4, <1>18 DEF KT, KTC, KTC8
<1> QED
  <2>1. Field(W, 0, TOP_W) = b
    BY <1>3, <1>9, <1>19 DEF Field
  <2>2. Field(W, TOP_W, wt) = t
    BY <1>3, <1>9, <1>10 DEF Field, T
  <2>3. Field(W, TOP_W + wt, wc) = c
    BY <1>3, <1>11, <1>14 DEF Field, C
  <2>4. Field(W, OTYPE_LO, 3) = o
    BY <1>3, <1>12, <1>16, SmallPowers DEF Field, KT
  <2>5. Field(W, CPERMS_LO, 6) = p
    BY <1>4, <1>13, <1>17, SmallPowers DEF Field, KT, KTC
  <2>6. Field(W, TAG, 1) = v
    BY <1>20, SmallPowers DEF Field
  <2> QED
    BY <1>9, <1>20, <2>1, <2>2, <2>3, <2>4, <2>5, <2>6 DEF Unpacked

-----------------------------------------------------------------------------
(* Permissions: compressed and expanded                                    *)

\* The bits of compressed permissions that name a format's own ones.
LEMMA Bits ==
    ASSUME NEW c \in 0 .. 63
    PROVE  /\ Bit(c, 5) <=> c >= 32
           /\ Bit(c, 0) <=> c % 2 = 1
           /\ Bit(c, 1) <=> (c \div 2) % 2 = 1
           /\ Bit(c, 2) <=> (c \div 4) % 2 = 1
<1>1. Field(c, 5, 1) = (c \div 32) % 2 /\ Field(c, 0, 1) = (c \div 1) % 2
  BY SmallPowers DEF Field
<1>2. Field(c, 1, 1) = (c \div 2) % 2 /\ Field(c, 2, 1) = (c \div 4) % 2
  BY SmallPowers DEF Field
<1>3. c \div 1 = c /\ ((c \div 32) % 2 = 1 <=> c >= 32)
  OBVIOUS
<1> QED
  BY <1>1, <1>2, <1>3 DEF Bit

\* The permissions that the formats with three bits of their own give.
LEMMA Expand3 ==
    ASSUME NEW c \in 0 .. 63, NEW f \in {"MC", "EX", "SE"}, Format(c) = f
    PROVE  \A x : x \in expand_perms(c) <=>
                     \/ (x = "GL" /\ Bit(c, 5)) \/ x \in IMSK[f]
                     \/ (x = LowBits[f][1] /\ Bit(c, 0)) \/ (x = LowBits[f][2] /\ Bit(c, 1))
                     \/ (x = LowBits[f][3] /\ Bit(c, 2))
<1>1. DOMAIN LowBits[f] = {1, 2, 3}
  BY DEF LowBits
<1> DEFINE low == {LowBits[f][i] : i \in {j \in DOMAIN LowBits[f] : Bit(c, j - 1)}}
<1>2. \A x : x \in low <=> \E i \in {1, 2, 3} : Bit(c, i - 1) /\ x = LowBits[f][i]
  BY <1>1
<1>3. \A x : x \in expand_perms(c) <=> (x = "GL" /\ Bit(c, 5)) \/ x \in IMSK[f] \/ x \in low
  BY DEF expand_perms
<1> HIDE DEF low
<1>4. 1 - 1 = 0 /\ 2 - 1 = 1 /\ 3 - 1 = 2
  OBVIOUS
<1>5. \A x : x \in low <=>  \/ (x = LowBits[f][1] /\ Bit(c, 0)) \/ (x = LowBits[f][2] /\ Bit(c, 1))
                           \/ (x = LowBits[f][3] /\ Bit(c, 2))
  <2>1. Bit(c, 1 - 1) = Bit(c, 0) /\ Bit(c, 2 - 1) = Bit(c, 1) /\ Bit(c, 3 - 1) = Bit(c, 2)
    BY <1>4
  <2> QED
    BY <1>2, <2>1, Zenon
<1> QED
  BY <1>3, <1>5, Zenon

\* The permissions that the formats with two bits of their own give.
LEMMA Expand2 ==
    ASSUME NEW c \in 0 .. 63, NEW f \in {"LC", "DD"}, Format(c) = f
    PROVE  \A x : x \in expand_perms(c) <=>
                     \/ (x = "GL" /\ Bit(c, 5)) \/ x \in IMSK[f]
                     \/ (x = LowBits[f][1] /\ Bit(c, 0)) \/ (x = LowBits[f][2] /\ Bit(c, 1))
<1>1. DOMAIN LowBits[f] = {1, 2}
  BY DEF LowBits
<1> DEFINE low == {LowBits[f][i] : i \in {j \in DOMAIN LowBits[f] : Bit(c, j - 1)}}
<1>2. \A x : x \in low <=> \E i \in {1, 2} : Bit(c, i - 1) /\ x = LowBits[f][i]
  BY <1>1
<1>3. \A x : x \in expand_perms(c) <=> (x = "GL" /\ Bit(c, 5)) \/ x \in IMSK[f] \/ x \in low
  BY DEF expand_perms
<1> HIDE DEF low
<1>4. 1 - 1 = 0 /\ 2 - 1 = 1
  OBVIOUS
<1>5. \A x : x \in low <=> (x = LowBits[f][1] /\ Bit(c, 0)) \/ (x = LowBits[f][2] /\ Bit(c, 1))
  <2>1. Bit(c, 1 - 1) = Bit(c, 0) /\ Bit(c, 2 - 1) = Bit(c, 1)
    BY <1>4
  <2> QED
    BY <1>2, <2>1, Zenon
<1> QED
  BY <1>3, <1>5, Zenon

\* The permissions that the format of its own stores gives.
LEMMA Expand0 ==
    ASSUME NEW c \in 0 .. 63, Format(c) = "SC"
    PROVE  \A x : x \in expand_perms(c) <=> (x = "GL" /\ Bit(c, 5)) \/ x \in IMSK.SC
<1>1. DOMAIN LowBits["SC"] = {}
  BY DEF LowBits
<1> QED
  BY <1>1 DEF expand_perms

\* The format of compressed permissions, by their value.
LEMMA FormatIs ==
    ASSUME NEW c \in 0 .. 63
    PROVE  /\ c % 32 \in 0 .. 31 /\ (c >= 32 => c = 32 + (c % 32)) /\ (c < 32 => c = c % 32)
           /\ c % 32 >= 24 => Format(c) = "MC"
           /\ c % 32 \in 20 .. 23 => Format(c) = "LC"
           /\ c % 32 = 16 => Format(c) = "SC"
           /\ c % 32 \in 17 .. 19 => Format(c) = "DD"
           /\ c % 32 \in 8 .. 15 => Format(c) = "EX"
           /\ c % 32 < 8 => Format(c) = "SE"
<1> DEFINE d == c % 32
<1>1. d \in 0 .. 31 /\ (c >= 32 => c = 32 + d) /\ (c < 32 => c = d)
  OBVIOUS
<1>2. Format(c) = CASE d >= 24 -> "MC" [] d \in 20 .. 23 -> "LC" [] d = 16 -> "SC"
      [] d \in 17 .. 19 -> "DD" [] d \in 8 .. 15 -> "EX" [] d < 8 -> "SE"
  BY DEF Format
<1> HIDE DEF d
<1>3. /\ d >= 24 => Format(c) = "MC"
      /\ d \in 20 .. 23 => Format(c) = "LC"
      /\ d = 16 => Format(c) = "SC"
      /\ d \in 17 .. 19 => Format(c) = "DD"
      /\ d \in 8 .. 15 => Format(c) = "EX"
      /\ d < 8 => Format(c) = "SE"
  BY <1>1, <1>2
<1> QED
  BY <1>1, <1>3 DEF d

\* The format that compress_perms chooses.
FormatFor(q) ==
    IF IMSK.EX \subseteq q THEN "EX"
    ELSE IF IMSK.MC \subseteq q THEN "MC"
    ELSE IF IMSK.LC \subseteq q THEN "LC"
    ELSE IF IMSK.SC \subseteq q THEN "SC"
    ELSE IF {"SD", "LD"} \cap q # {} THEN "DD" ELSE "SE"

\* A format is chosen whose own permissions all are there.
LEMMA FormatForIs ==
    ASSUME NEW q
    PROVE FormatFor(q) \in Formats /\ IMSK[FormatFor(q)] \subseteq q
BY DEF FormatFor, Formats, IMSK

\* What compress_perms makes of a set, by the format it chooses.
LEMMA CompressIs ==
    ASSUME NEW q
    PROVE  LET f == FormatFor(q)
               bit(i) == IF LowBits[f][i] \in q THEN 1 ELSE 0
               g == IF "GL" \in q THEN 1 ELSE 0
           IN  /\ f \in {"EX", "MC", "SE"} => compress_perms(q) = 32 * g + Lead[f] + bit(1) + bit(2) * 2 + bit(3) * 4
               /\ f \in {"LC", "DD"} => compress_perms(q) = 32 * g + Lead[f] + bit(1) + bit(2) * 2
               /\ f = "SC" => compress_perms(q) = 32 * g + Lead[f]
<1> DEFINE f == FormatFor(q)
           b(i) == IF LowBits[f][i] \in q THEN 1 ELSE 0
           fb(i) == IF i \in DOMAIN LowBits[f] THEN Flag(LowBits[f][i] \in q) * 2^(i - 1) ELSE 0
           g == IF "GL" \in q THEN 1 ELSE 0
<1>1. Flag("GL" \in q) = g
  BY DEF Flag
<1>2. compress_perms(q) = 32 * g + Lead[f] + fb(1) + fb(2) + fb(3)
  BY <1>1 DEF compress_perms, FormatFor
<1>3. f \in Formats
  BY FormatForIs
<1> HIDE DEF f
<1>4. Lead[f] \in Nat
  BY <1>3 DEF Lead, Formats
<1>5. 2^(1 - 1) = 1 /\ 2^(2 - 1) = 2 /\ 2^(3 - 1) = 4
  <2>1. 1 - 1 = 0 /\ 2 - 1 = 1 /\ 3 - 1 = 2
    OBVIOUS
  <2> QED
    BY <2>1, SmallPowers
<1>6. \A i : Flag(LowBits[f][i] \in q) = b(i)
  BY DEF Flag
<1>7. \A i : b(i) \in 0 .. 1
  OBVIOUS
<1>8. /\ 1 \in DOMAIN LowBits[f] => fb(1) = b(1)
      /\ 2 \in DOMAIN LowBits[f] => fb(2) = b(2) * 2
      /\ 3 \in DOMAIN LowBits[f] => fb(3) = b(3) * 4
  <2>1. \A x \in 0 .. 1 : x * 1 = x
    OBVIOUS
  <2> HIDE DEF b
  <2> QED
    BY <1>5, <1>6, <1>7, <2>1
<1> HIDE DEF b, g
<1>9. CASE f \in {"EX", "MC", "SE"}
  <2>1. DOMAIN LowBits[f] = {1, 2, 3}
    BY <1>9 DEF LowBits
  <2>2. fb(1) = b(1) /\ fb(2) = b(2) * 2 /\ fb(3) = b(3) * 4
    BY <1>8, <2>1
  <2> HIDE DEF fb
  <2> QED
    BY <1>2, <1>9, <2>2 DEF f, b, g
<1>10. CASE f \in {"LC", "DD"}
  <2>1. DOMAIN LowBits[f] = {1, 2}
    BY <1>10 DEF LowBits
  <2>2. fb(1) = b(1) /\ fb(2) = b(2) * 2 /\ fb(3) = 0
    BY <1>8, <2>1
  <2>3. g \in 0 .. 1
    BY DEF g
  <2> HIDE DEF fb
  <2>4. compress_perms(q) = 32 * g + Lead[f] + b(1) + b(2) * 2
    BY <1>2, <1>4, <1>7, <2>2, <2>3
  <2> QED
    BY <1>10, <2>4 DEF f, b, g
<1>11. CASE f = "SC"
  <2>1. DOMAIN LowBits[f] = {}
    BY <1>11 DEF LowBits
  <2>2. fb(1) = 0 /\ fb(2) = 0 /\ fb(3) = 0
    BY <2>1
  <2>3. g \in 0 .. 1
    BY DEF g
  <2> HIDE DEF fb
  <2>4. compress_perms(q) = 32 * g + Lead[f]
    BY <1>2, <1>4, <1>7, <2>2, <2>3
  <2> QED
    BY <1>11, <2>4 DEF f, b, g
<1> QED
  BY <1>3, <1>9, <1>10, <1>11 DEF Formats, f

\* Compressed permissions put together bit by bit, and taken apart.
LEMMA Encoded ==
    ASSUME NEW g \in 0 .. 1, NEW b0 \in 0 .. 1, NEW b1 \in 0 .. 1, NEW b2 \in 0 .. 1, NEW l \in {0, 8, 16, 24},
           NEW c, c = 32 * g + l + b0 + b1 * 2 + b2 * 4
    PROVE  /\ c \in 0 .. 63 /\ c % 32 = l + b0 + b1 * 2 + b2 * 4
           /\ Bit(c, 5) <=> g = 1
           /\ Bit(c, 0) <=> b0 = 1
           /\ Bit(c, 1) <=> b1 = 1
           /\ Bit(c, 2) <=> b2 = 1
<1>1. c \in 0 .. 63 /\ c % 32 = l + b0 + b1 * 2 + b2 * 4 /\ (c >= 32 <=> g = 1)
  OBVIOUS
<1>2. (c % 2 = 1 <=> b0 = 1) /\ ((c \div 2) % 2 = 1 <=> b1 = 1) /\ ((c \div 4) % 2 = 1 <=> b2 = 1)
  OBVIOUS
<1> QED
  BY <1>1, <1>2, Bits

\* Compressed and expanded again: what the chosen format can say of the set.
LEMMA ExpandCompress ==
    ASSUME NEW q
    PROVE  /\ compress_perms(q) \in 0 .. 63
           /\ \A x : x \in expand_perms(compress_perms(q)) <=>
                     \/ x = "GL" /\ x \in q
                     \/ x \in IMSK[FormatFor(q)]
                     \/ \E i \in DOMAIN LowBits[FormatFor(q)] : x = LowBits[FormatFor(q)][i] /\ x \in q
<1> DEFINE f == FormatFor(q)
           c == compress_perms(q)
           bit(i) == IF LowBits[f][i] \in q THEN 1 ELSE 0
<1>1. PICK g \in 0 .. 1, b0 \in 0 .. 1, b1 \in 0 .. 1, b2 \in 0 .. 1 :
          /\ g = (IF "GL" \in q THEN 1 ELSE 0) /\ b0 = bit(1) /\ b1 = bit(2) /\ b2 = bit(3)
  OBVIOUS
<1>2. /\ f \in {"EX", "MC", "SE"} => c = 32 * g + Lead[f] + b0 + b1 * 2 + b2 * 4
      /\ f \in {"LC", "DD"} => c = 32 * g + Lead[f] + b0 + b1 * 2
      /\ f = "SC" => c = 32 * g + Lead[f]
  BY <1>1, CompressIs
<1>3. f \in Formats
  BY FormatForIs
<1>4. f = "DD" => b0 = 1 \/ b1 = 1
  BY <1>1 DEF FormatFor, LowBits
<1>5. ("GL" \in q <=> g = 1) /\ (LowBits[f][1] \in q <=> b0 = 1) /\ (LowBits[f][2] \in q <=> b1 = 1)
        /\ (LowBits[f][3] \in q <=> b2 = 1)
  BY <1>1
<1> HIDE DEF f, c
<1>6. CASE f \in {"EX", "MC", "SE"}
  <2>1. Lead[f] \in {0, 8, 24} /\ (f = "EX" => Lead[f] = 8) /\ (f = "MC" => Lead[f] = 24) /\ (f = "SE" => Lead[f] = 0)
    BY <1>6 DEF Lead
  <2>2. PICK l \in {0, 8, 16, 24} : l = Lead[f]
    BY <2>1
  <2>3. c = 32 * g + l + b0 + b1 * 2 + b2 * 4
    BY <1>2, <1>6, <2>2
  <2>4. /\ c \in 0 .. 63 /\ c % 32 = l + b0 + b1 * 2 + b2 * 4
        /\ (Bit(c, 5) <=> g = 1) /\ (Bit(c, 0) <=> b0 = 1) /\ (Bit(c, 1) <=> b1 = 1) /\ (Bit(c, 2) <=> b2 = 1)
    BY <2>3, Encoded
  <2>5. Format(c) = f
    <3>1. PICK d \in Int : d = c % 32 /\ l <= d /\ d <= l + 7
      <4>1. l + b0 + b1 * 2 + b2 * 4 \in Int /\ l <= l + b0 + b1 * 2 + b2 * 4 /\ l + b0 + b1 * 2 + b2 * 4 <= l + 7
        OBVIOUS
      <4> QED
        BY <2>4, <4>1
    <3>2. /\ c % 32 >= 24 => Format(c) = "MC"
          /\ c % 32 \in 8 .. 15 => Format(c) = "EX"
          /\ c % 32 < 8 => Format(c) = "SE"
      BY <2>4, FormatIs
    <3>3. /\ d >= 24 => Format(c) = "MC"
          /\ d \in 8 .. 15 => Format(c) = "EX"
          /\ d < 8 => Format(c) = "SE"
      BY <3>1, <3>2
    <3> QED
      BY <1>6, <2>1, <2>2, <3>1, <3>3
  <2>6. DOMAIN LowBits[f] = {1, 2, 3}
    BY <1>6 DEF LowBits
  <2>7. \A x : x \in expand_perms(c) <=>
                     \/ (x = "GL" /\ Bit(c, 5)) \/ x \in IMSK[f]
                     \/ (x = LowBits[f][1] /\ Bit(c, 0)) \/ (x = LowBits[f][2] /\ Bit(c, 1))
                     \/ (x = LowBits[f][3] /\ Bit(c, 2))
    <3>1. f \in {"MC", "EX", "SE"} /\ c \in 0 .. 63 /\ Format(c) = f
      BY <1>6, <2>4, <2>5
    <3> QED
      BY <3>1, Expand3, Zenon
  <2>8. \A x : (\E i \in DOMAIN LowBits[f] : x = LowBits[f][i] /\ x \in q)
               <=> \/ (x = LowBits[f][1] /\ x \in q) \/ (x = LowBits[f][2] /\ x \in q)
                   \/ (x = LowBits[f][3] /\ x \in q)
    BY <2>6, Zenon
  <2>9. \A x : x \in expand_perms(c) <=>
                     \/ (x = "GL" /\ x \in q) \/ x \in IMSK[f]
                     \/ (x = LowBits[f][1] /\ x \in q) \/ (x = LowBits[f][2] /\ x \in q)
                     \/ (x = LowBits[f][3] /\ x \in q)
    BY <1>5, <2>4, <2>7
  <2> QED
    BY <2>4, <2>8, <2>9 DEF f, c
<1>7. CASE f \in {"LC", "DD"}
  <2> DEFINE b == IF f = "LC" THEN 1 ELSE 0
  <2>1. b \in 0 .. 1 /\ Lead[f] = 16 + b * 4
    BY <1>7 DEF Lead
  <2>2. c = 32 * g + 16 + b0 + b1 * 2 + b * 4
    BY <1>2, <1>7, <2>1
  <2>3. PICK l \in {0, 8, 16, 24}, bb \in 0 .. 1 : l = 16 /\ bb = b
    BY <2>1
  <2>4. /\ c \in 0 .. 63 /\ c % 32 = l + b0 + b1 * 2 + bb * 4
        /\ (Bit(c, 5) <=> g = 1) /\ (Bit(c, 0) <=> b0 = 1) /\ (Bit(c, 1) <=> b1 = 1)
    BY <2>2, <2>3, Encoded
  <2>5. Format(c) = f
    BY <1>4, <1>7, <2>3, <2>4, FormatIs
  <2>6. DOMAIN LowBits[f] = {1, 2}
    BY <1>7 DEF LowBits
  <2>7. \A x : x \in expand_perms(c) <=>
                     \/ (x = "GL" /\ Bit(c, 5)) \/ x \in IMSK[f]
                     \/ (x = LowBits[f][1] /\ Bit(c, 0)) \/ (x = LowBits[f][2] /\ Bit(c, 1))
    BY <1>7, <2>4, <2>5, Expand2
  <2>8. \A x : (\E i \in DOMAIN LowBits[f] : x = LowBits[f][i] /\ x \in q)
               <=> (x = LowBits[f][1] /\ x \in q) \/ (x = LowBits[f][2] /\ x \in q)
    BY <2>6, Zenon
  <2>9. \A x : x \in expand_perms(c) <=>
                     \/ (x = "GL" /\ x \in q) \/ x \in IMSK[f]
                     \/ (x = LowBits[f][1] /\ x \in q) \/ (x = LowBits[f][2] /\ x \in q)
    BY <1>5, <2>4, <2>7
  <2> QED
    BY <2>4, <2>8, <2>9 DEF f, c
<1>8. CASE f = "SC"
  <2>1. Lead[f] = 16
    BY <1>8 DEF Lead
  <2>2. PICK l \in {0, 8, 16, 24}, b \in 0 .. 1 : l = 16 /\ b = 0
    OBVIOUS
  <2>3. c = 32 * g + l + b + b * 2 + b * 4
    BY <1>2, <1>8, <2>1, <2>2
  <2>4. /\ c \in 0 .. 63 /\ c % 32 = l + b + b * 2 + b * 4
        /\ (Bit(c, 5) <=> g = 1)
    BY <2>3, Encoded
  <2>5. Format(c) = f
    BY <1>8, <2>2, <2>4, FormatIs
  <2>6. DOMAIN LowBits[f] = {}
    BY <1>8 DEF LowBits
  <2>7. \A x : x \in expand_perms(c) <=> (x = "GL" /\ Bit(c, 5)) \/ x \in IMSK[f]
    BY <1>8, <2>4, <2>5, Expand0
  <2>8. \A x : ~(\E i \in DOMAIN LowBits[f] : x = LowBits[f][i] /\ x \in q)
    BY <2>6, Zenon
  <2>9. \A x : x \in expand_perms(c) <=> (x = "GL" /\ x \in q) \/ x \in IMSK[f]
    BY <1>5, <2>4, <2>7
  <2> QED
    BY <2>4, <2>8, <2>9 DEF f, c
<1> QED
  BY <1>3, <1>6, <1>7, <1>8 DEF Formats

\* compress_perms gives no permission that was not there: any set, also those that
\* no format can say.
THEOREM PermsShrink ==
    ASSUME NEW q
    PROVE  compress_perms(q) \in 0 .. 63 /\ expand_perms(compress_perms(q)) \subseteq q
<1>1. IMSK[FormatFor(q)] \subseteq q
  BY FormatForIs
<1> QED
  BY <1>1, ExpandCompress

\* Every code has a format.
LEMMA FormatType == ASSUME NEW c \in 0 .. 63 PROVE Format(c) \in Formats
<1>1. PICK d \in 0 .. 31 : d = c % 32
  BY FormatIs
<1>2. /\ d >= 24 => Format(c) = "MC"
      /\ d \in 20 .. 23 => Format(c) = "LC"
      /\ d = 16 => Format(c) = "SC"
      /\ d \in 17 .. 19 => Format(c) = "DD"
      /\ d \in 8 .. 15 => Format(c) = "EX"
      /\ d < 8 => Format(c) = "SE"
  BY <1>1, FormatIs
<1> QED
  BY <1>1, <1>2 DEF Formats

\* A set that came from a code, with or without GL, is kept by compress_perms: what
\* CUnseal and a load without GL rely on.
LEMMA PermsKept ==
    ASSUME NEW c \in 0 .. 63, NEW q, q = expand_perms(c) \/ q = expand_perms(c) \ {"GL"}
    PROVE  expand_perms(compress_perms(q)) = q
<1> DEFINE f == Format(c)
<1>1. \A x : x \in expand_perms(c) <=>
               \/ (x = "GL" /\ Bit(c, 5)) \/ x \in IMSK[f]
               \/ \E i \in DOMAIN LowBits[f] : Bit(c, i - 1) /\ x = LowBits[f][i]
  BY DEF expand_perms
<1>2. \A x : x \in q <=> x \in expand_perms(c) /\ (x = "GL" => x \in q)
  OBVIOUS
<1>3. f \in Formats
  BY FormatType
<1>4. f = "DD" => Bit(c, 0) \/ Bit(c, 1)
  <2>1. PICK d \in 0 .. 31 : d = c % 32 /\ (d = 16 => Format(c) = "SC") /\ (d >= 24 => Format(c) = "MC")
                 /\ (d \in 20 .. 23 => Format(c) = "LC") /\ (d \in 8 .. 15 => Format(c) = "EX") /\ (d < 8 => Format(c) = "SE")
                 /\ (c >= 32 => c = 32 + d) /\ (c < 32 => c = d)
    BY FormatIs
  <2>2. f = "DD" => d \in 17 .. 19
    BY <2>1
  <2>3. d \in 17 .. 19 => c % 2 = 1 \/ (c \div 2) % 2 = 1
    BY <2>1
  <2> QED
    BY <2>2, <2>3, Bits
<1> HIDE DEF f
<1>5. FormatFor(q) = f
  <2>1. CASE f = "MC"
    <3>1. \A x \in q : x \in {"GL", "LD", "MC", "SD", "LG", "LM", "SL"}
      BY <1>1, <1>2, <2>1 DEF IMSK, LowBits
    <3>2. {"LD", "MC", "SD"} \subseteq q
      BY <1>1, <1>2, <2>1 DEF IMSK
    <3> QED
      BY <2>1, <3>1, <3>2 DEF FormatFor, IMSK
  <2>2. CASE f = "LC"
    <3>1. \A x \in q : x \in {"GL", "LD", "MC", "LG", "LM"}
      BY <1>1, <1>2, <2>2 DEF IMSK, LowBits
    <3>2. {"LD", "MC"} \subseteq q
      BY <1>1, <1>2, <2>2 DEF IMSK
    <3> QED
      BY <2>2, <3>1, <3>2 DEF FormatFor, IMSK
  <2>3. CASE f = "SC"
    <3>1. \A x \in q : x \in {"GL", "SD", "MC"}
      BY <1>1, <1>2, <2>3 DEF IMSK, LowBits
    <3>2. {"SD", "MC"} \subseteq q
      BY <1>1, <1>2, <2>3 DEF IMSK
    <3> QED
      BY <2>3, <3>1, <3>2 DEF FormatFor, IMSK
  <2>4. CASE f = "DD"
    <3>1. \A x \in q : x \in {"GL", "SD", "LD"}
      BY <1>1, <1>2, <2>4 DEF IMSK, LowBits
    <3>2. "SD" \in q \/ "LD" \in q
      <4>1. 1 - 1 = 0 /\ 2 - 1 = 1
        OBVIOUS
      <4>2. 1 \in DOMAIN LowBits[f] /\ 2 \in DOMAIN LowBits[f] /\ LowBits[f][1] = "SD" /\ LowBits[f][2] = "LD"
        BY <2>4 DEF LowBits
      <4>3. (Bit(c, 1 - 1) => "SD" \in expand_perms(c)) /\ (Bit(c, 2 - 1) => "LD" \in expand_perms(c))
        BY <1>1, <4>2
      <4> QED
        BY <1>2, <1>4, <2>4, <4>1, <4>3
    <3> QED
      BY <2>4, <3>1, <3>2 DEF FormatFor, IMSK
  <2>5. CASE f = "EX"
    <3>2. {"EX", "MC", "LD"} \subseteq q
      BY <1>1, <1>2, <2>5 DEF IMSK
    <3> QED
      BY <2>5, <3>2 DEF FormatFor, IMSK
  <2>6. CASE f = "SE"
    <3>1. \A x \in q : x \in {"GL", "US", "SE", "U0"}
      BY <1>1, <1>2, <2>6 DEF IMSK, LowBits
    <3> QED
      BY <2>6, <3>1 DEF FormatFor, IMSK
  <2> QED
    BY <1>3, <2>1, <2>2, <2>3, <2>4, <2>5, <2>6 DEF Formats
<1>6. \A x : x \in expand_perms(compress_perms(q)) <=>
               \/ (x = "GL" /\ x \in q) \/ x \in IMSK[f]
               \/ \E i \in DOMAIN LowBits[f] : x = LowBits[f][i] /\ x \in q
  BY <1>5, ExpandCompress
<1>7. IMSK[f] \subseteq q
  BY <1>5, FormatForIs
<1>8. \A x : x \in q => x \in expand_perms(compress_perms(q))
  BY <1>1, <1>2, <1>6
<1> QED
  BY <1>6, <1>7, <1>8

\* What compressed permissions say, bit by bit.
LEMMA Meaning ==
    ASSUME NEW g \in 0 .. 1, NEW b0 \in 0 .. 1, NEW b1 \in 0 .. 1, NEW b2 \in 0 .. 1, NEW l \in {0, 8, 16, 24},
           NEW c, c = 32 * g + l + b0 + b1 * 2 + b2 * 4
    PROVE  \A x : x \in expand_perms(c) <=>
             \/ (x = "GL" /\ g = 1)
             \/ (l = 24 /\ (x \in {"LD", "MC", "SD"} \/ (x = "LG" /\ b0 = 1) \/ (x = "LM" /\ b1 = 1) \/ (x = "SL" /\ b2 = 1)))
             \/ (l = 16 /\ b2 = 1 /\ (x \in {"LD", "MC"} \/ (x = "LG" /\ b0 = 1) \/ (x = "LM" /\ b1 = 1)))
             \/ (l = 16 /\ b2 = 0 /\ b0 = 0 /\ b1 = 0 /\ x \in {"SD", "MC"})
             \/ (l = 16 /\ b2 = 0 /\ ((x = "SD" /\ b0 = 1) \/ (x = "LD" /\ b1 = 1)))
             \/ (l = 8 /\ (x \in {"EX", "MC", "LD"} \/ (x = "LG" /\ b0 = 1) \/ (x = "LM" /\ b1 = 1) \/ (x = "SR" /\ b2 = 1)))
             \/ (l = 0 /\ ((x = "US" /\ b0 = 1) \/ (x = "SE" /\ b1 = 1) \/ (x = "U0" /\ b2 = 1)))
<1>1. /\ c \in 0 .. 63 /\ c % 32 = l + b0 + b1 * 2 + b2 * 4
      /\ (Bit(c, 5) <=> g = 1) /\ (Bit(c, 0) <=> b0 = 1) /\ (Bit(c, 1) <=> b1 = 1) /\ (Bit(c, 2) <=> b2 = 1)
  BY Encoded
<1>2. PICK d \in Int : d = c % 32 /\ d = l + b0 + b1 * 2 + b2 * 4
  BY <1>1
<1>3. /\ d >= 24 => Format(c) = "MC"
      /\ d \in 20 .. 23 => Format(c) = "LC"
      /\ d = 16 => Format(c) = "SC"
      /\ d \in 17 .. 19 => Format(c) = "DD"
      /\ d \in 8 .. 15 => Format(c) = "EX"
      /\ d < 8 => Format(c) = "SE"
  BY <1>1, <1>2, FormatIs
<1>4. CASE l = 24
  <2>1. d >= 24
    BY <1>2, <1>4
  <2>2. Format(c) = "MC" /\ "MC" \in {"MC", "EX", "SE"}
    BY <1>3, <2>1
  <2>3. \A x : x \in expand_perms(c) <=>
                     \/ (x = "GL" /\ Bit(c, 5)) \/ x \in IMSK["MC"]
                     \/ (x = LowBits["MC"][1] /\ Bit(c, 0)) \/ (x = LowBits["MC"][2] /\ Bit(c, 1))
                     \/ (x = LowBits["MC"][3] /\ Bit(c, 2))
    BY <1>1, <2>2, Expand3, Zenon
  <2>4. IMSK["MC"] = {"LD", "MC", "SD"} /\ LowBits["MC"][1] = "LG" /\ LowBits["MC"][2] = "LM" /\ LowBits["MC"][3] = "SL"
    BY DEF IMSK, LowBits
  <2> QED
    BY <1>1, <1>4, <2>3, <2>4
<1>5. CASE l = 16 /\ b2 = 1
  <2>1. d \in 20 .. 23
    BY <1>2, <1>5
  <2>2. Format(c) = "LC" /\ "LC" \in {"LC", "DD"}
    BY <1>3, <2>1
  <2>3. \A x : x \in expand_perms(c) <=>
                     \/ (x = "GL" /\ Bit(c, 5)) \/ x \in IMSK["LC"]
                     \/ (x = LowBits["LC"][1] /\ Bit(c, 0)) \/ (x = LowBits["LC"][2] /\ Bit(c, 1))
    BY <1>1, <2>2, Expand2, Zenon
  <2>4. IMSK["LC"] = {"LD", "MC"} /\ LowBits["LC"][1] = "LG" /\ LowBits["LC"][2] = "LM"
    BY DEF IMSK, LowBits
  <2> QED
    BY <1>1, <1>5, <2>3, <2>4
<1>6. CASE l = 16 /\ b2 = 0 /\ b0 = 0 /\ b1 = 0
  <2>1. d = 16
    BY <1>2, <1>6
  <2>2. Format(c) = "SC"
    BY <1>3, <2>1
  <2>3. \A x : x \in expand_perms(c) <=> (x = "GL" /\ Bit(c, 5)) \/ x \in IMSK.SC
    BY <1>1, <2>2, Expand0, Zenon
  <2>4. IMSK.SC = {"SD", "MC"}
    BY DEF IMSK
  <2> QED
    BY <1>1, <1>6, <2>3, <2>4
<1>7. CASE l = 16 /\ b2 = 0 /\ ~(b0 = 0 /\ b1 = 0)
  <2>1. d \in 17 .. 19
    BY <1>2, <1>7
  <2>2. Format(c) = "DD" /\ "DD" \in {"LC", "DD"}
    BY <1>3, <2>1
  <2>3. \A x : x \in expand_perms(c) <=>
                     \/ (x = "GL" /\ Bit(c, 5)) \/ x \in IMSK["DD"]
                     \/ (x = LowBits["DD"][1] /\ Bit(c, 0)) \/ (x = LowBits["DD"][2] /\ Bit(c, 1))
    BY <1>1, <2>2, Expand2, Zenon
  <2>4. IMSK["DD"] = {} /\ LowBits["DD"][1] = "SD" /\ LowBits["DD"][2] = "LD"
    BY DEF IMSK, LowBits
  <2> QED
    BY <1>1, <1>7, <2>3, <2>4
<1>8. CASE l = 8
  <2>1. d \in 8 .. 15
    BY <1>2, <1>8
  <2>2. Format(c) = "EX" /\ "EX" \in {"MC", "EX", "SE"}
    BY <1>3, <2>1
  <2>3. \A x : x \in expand_perms(c) <=>
                     \/ (x = "GL" /\ Bit(c, 5)) \/ x \in IMSK["EX"]
                     \/ (x = LowBits["EX"][1] /\ Bit(c, 0)) \/ (x = LowBits["EX"][2] /\ Bit(c, 1))
                     \/ (x = LowBits["EX"][3] /\ Bit(c, 2))
    BY <1>1, <2>2, Expand3, Zenon
  <2>4. IMSK["EX"] = {"EX", "MC", "LD"} /\ LowBits["EX"][1] = "LG" /\ LowBits["EX"][2] = "LM" /\ LowBits["EX"][3] = "SR"
    BY DEF IMSK, LowBits
  <2> QED
    BY <1>1, <1>8, <2>3, <2>4
<1>9. CASE l = 0
  <2>1. d < 8
    BY <1>2, <1>9
  <2>2. Format(c) = "SE" /\ "SE" \in {"MC", "EX", "SE"}
    BY <1>3, <2>1
  <2>3. \A x : x \in expand_perms(c) <=>
                     \/ (x = "GL" /\ Bit(c, 5)) \/ x \in IMSK["SE"]
                     \/ (x = LowBits["SE"][1] /\ Bit(c, 0)) \/ (x = LowBits["SE"][2] /\ Bit(c, 1))
                     \/ (x = LowBits["SE"][3] /\ Bit(c, 2))
    BY <1>1, <2>2, Expand3, Zenon
  <2>4. IMSK["SE"] = {} /\ LowBits["SE"][1] = "US" /\ LowBits["SE"][2] = "SE" /\ LowBits["SE"][3] = "U0"
    BY DEF IMSK, LowBits
  <2> QED
    BY <1>1, <1>9, <2>3, <2>4
<1>10. (l = 16 /\ b2 = 1) \/ (l = 16 /\ b2 = 0 /\ b0 = 0 /\ b1 = 0) \/ (l = 16 /\ b2 = 0 /\ ~(b0 = 0 /\ b1 = 0))
          \/ l = 24 \/ l = 8 \/ l = 0
  OBVIOUS
<1> QED
  BY <1>4, <1>5, <1>6, <1>7, <1>8, <1>9, <1>10, Zenon

\* Every code is made of the bits that Encoded puts together.
LEMMA Decompose ==
    ASSUME NEW c \in 0 .. 63
    PROVE  \E g, b0, b1, b2 \in 0 .. 1, l \in {0, 8, 16, 24} :
              /\ c = 32 * g + l + b0 + b1 * 2 + b2 * 4
              /\ c % 32 = l + b0 + b1 * 2 + b2 * 4
              /\ (Bit(c, 5) <=> g = 1) /\ (Bit(c, 0) <=> b0 = 1) /\ (Bit(c, 1) <=> b1 = 1) /\ (Bit(c, 2) <=> b2 = 1)
              /\ l = 24 => Format(c) = "MC"
              /\ l = 16 /\ b2 = 1 => Format(c) = "LC"
              /\ l = 16 /\ b2 = 0 /\ b0 = 0 /\ b1 = 0 => Format(c) = "SC"
              /\ l = 16 /\ b2 = 0 /\ ~(b0 = 0 /\ b1 = 0) => Format(c) = "DD"
              /\ l = 8 => Format(c) = "EX"
              /\ l = 0 => Format(c) = "SE"
<1>1. PICK g \in 0 .. 1, b0 \in 0 .. 1, b1 \in 0 .. 1, b2 \in 0 .. 1, l \in {0, 8, 16, 24} :
           c = 32 * g + l + b0 + b1 * 2 + b2 * 4
  <2>1. PICK g \in 0 .. 1, d \in 0 .. 31 : c = 32 * g + d
    <3>1. c < 32 => c = 32 * 0 + c /\ c \in 0 .. 31
      OBVIOUS
    <3>2. c >= 32 => c = 32 * 1 + (c - 32) /\ c - 32 \in 0 .. 31
      OBVIOUS
    <3>3. 0 \in 0 .. 1 /\ 1 \in 0 .. 1
      OBVIOUS
    <3> QED
      BY <3>1, <3>2, <3>3
  <2>2. PICK l \in {0, 8, 16, 24}, h \in 0 .. 7 : d = l + h
    <3>1. (d < 8 => d = 0 + d /\ d \in 0 .. 7) /\ (d >= 8 /\ d < 16 => d = 8 + (d - 8) /\ (d - 8) \in 0 .. 7)
           /\ (d >= 16 /\ d < 24 => d = 16 + (d - 16) /\ (d - 16) \in 0 .. 7) /\ (d >= 24 => d = 24 + (d - 24) /\ (d - 24) \in 0 .. 7)
      OBVIOUS
    <3> QED
      BY <3>1
  <2>3. PICK b0 \in 0 .. 1, b1 \in 0 .. 1, b2 \in 0 .. 1 : h = b0 + b1 * 2 + b2 * 4
    <3>1. /\ 0 = 0 + 0 * 2 + 0 * 4 /\ 1 = 1 + 0 * 2 + 0 * 4 /\ 2 = 0 + 1 * 2 + 0 * 4 /\ 3 = 1 + 1 * 2 + 0 * 4
          /\ 4 = 0 + 0 * 2 + 1 * 4 /\ 5 = 1 + 0 * 2 + 1 * 4 /\ 6 = 0 + 1 * 2 + 1 * 4 /\ 7 = 1 + 1 * 2 + 1 * 4
      OBVIOUS
    <3>2. h \in {0, 1, 2, 3, 4, 5, 6, 7} /\ 0 \in 0 .. 1 /\ 1 \in 0 .. 1
      OBVIOUS
    <3> QED
      BY <3>1, <3>2
  <2> QED
    BY <2>1, <2>2, <2>3
<1>2. /\ c % 32 = l + b0 + b1 * 2 + b2 * 4
      /\ (Bit(c, 5) <=> g = 1) /\ (Bit(c, 0) <=> b0 = 1) /\ (Bit(c, 1) <=> b1 = 1) /\ (Bit(c, 2) <=> b2 = 1)
  BY <1>1, Encoded
<1>3. PICK d \in Int : d = c % 32 /\ d = l + b0 + b1 * 2 + b2 * 4
  BY <1>2
<1>4. /\ d >= 24 => Format(c) = "MC"
      /\ d \in 20 .. 23 => Format(c) = "LC"
      /\ d = 16 => Format(c) = "SC"
      /\ d \in 17 .. 19 => Format(c) = "DD"
      /\ d \in 8 .. 15 => Format(c) = "EX"
      /\ d < 8 => Format(c) = "SE"
  BY <1>3, FormatIs
<1>5. /\ l = 24 => d >= 24
      /\ l = 16 /\ b2 = 1 => d \in 20 .. 23
      /\ l = 16 /\ b2 = 0 /\ b0 = 0 /\ b1 = 0 => d = 16
      /\ l = 16 /\ b2 = 0 /\ ~(b0 = 0 /\ b1 = 0) => d \in 17 .. 19
      /\ l = 8 => d \in 8 .. 15
      /\ l = 0 => d < 8
  BY <1>3
<1> QED
  BY <1>1, <1>2, <1>4, <1>5

\* mask_clcperms, bit by bit on the compressed form, takes permissions away and adds
\* none; of a sealed capability it takes GL alone.
LEMMA Mask ==
    ASSUME NEW c \in 0 .. 63, NEW clr, NEW v \in BOOLEAN, NEW sealed \in BOOLEAN
    PROVE  LET d == mask_clcperms(c, clr, v, sealed)
           IN  /\ d \in 0 .. 63 /\ expand_perms(d) \subseteq expand_perms(c)
               /\ sealed => expand_perms(c) \ expand_perms(d) \subseteq {"GL"}
               /\ clr = {} => d = c
<1> DEFINE d == mask_clcperms(c, clr, v, sealed)
<1>1. PICK g \in 0 .. 1, b0 \in 0 .. 1, b1 \in 0 .. 1, b2 \in 0 .. 1, l \in {0, 8, 16, 24} :
              /\ c = 32 * g + l + b0 + b1 * 2 + b2 * 4
              /\ c % 32 = l + b0 + b1 * 2 + b2 * 4
              /\ (Bit(c, 5) <=> g = 1) /\ (Bit(c, 0) <=> b0 = 1) /\ (Bit(c, 1) <=> b1 = 1) /\ (Bit(c, 2) <=> b2 = 1)
              /\ l = 24 => Format(c) = "MC"
              /\ l = 16 /\ b2 = 1 => Format(c) = "LC"
              /\ l = 16 /\ b2 = 0 /\ b0 = 0 /\ b1 = 0 => Format(c) = "SC"
              /\ l = 16 /\ b2 = 0 /\ ~(b0 = 0 /\ b1 = 0) => Format(c) = "DD"
              /\ l = 8 => Format(c) = "EX"
              /\ l = 0 => Format(c) = "SE"
  BY Decompose
<1>2. PICK y \in BOOLEAN, z \in BOOLEAN :
           /\ y <=> ("glg" \in clr /\ v) /\ ~sealed
           /\ z <=> "sdlm" \in clr /\ v /\ ~sealed
  OBVIOUS
<1>3. PICK x \in BOOLEAN : x <=> "glg" \in clr /\ v
  OBVIOUS
<1>4. (sealed => ~y /\ ~z) /\ (clr = {} => ~x /\ ~y /\ ~z)
  BY <1>2, <1>3
<1> DEFINE G == IF g = 1 /\ ~x THEN 1 ELSE 0
           lg == IF y THEN 0 ELSE b0
           lm == IF z THEN 0 ELSE b1
<1>5. Flag(Bit(c, 5) /\ ~x) = G
  BY <1>1 DEF Flag
<1>6. Flag(Bit(c, 0)) = b0 /\ Flag(Bit(c, 1)) = b1 /\ Flag(Bit(c, 2)) = b2
  BY <1>1 DEF Flag
<1>7. b0 * Flag(~y) = lg /\ 2 * b1 * Flag(~z) = lm * 2 /\ b0 * Flag(~z) = (IF z THEN 0 ELSE b0)
  BY DEF Flag
<1>8. d = 32 * Flag(Bit(c, 5) /\ ~x) +
          (CASE Format(c) = "MC" -> b0 * Flag(~y) + 2 * b1 * Flag(~z) + (IF z THEN Lead.LC ELSE Lead.MC + 4 * b2)
             [] Format(c) = "LC" -> b0 * Flag(~y) + 2 * b1 * Flag(~z) + Lead.LC
             [] Format(c) = "SC" -> IF z THEN 0 ELSE Lead.SC
             [] Format(c) = "DD" -> 16 * Flag(~(z /\ b1 = 0)) + 2 * b1 + b0 * Flag(~z)
             [] Format(c) = "EX" -> b0 * Flag(~y) + 2 * b1 * Flag(~z) + Lead.EX + 4 * b2
             [] Format(c) = "SE" -> c % 32)
  <2>1. ("glg" \in clr /\ v) = x /\ ("glg" \in clr /\ v /\ ~sealed) = y /\ ("sdlm" \in clr /\ v /\ ~sealed) = z
           /\ (("glg" \in clr /\ v) /\ ~sealed) = y
    BY <1>2, <1>3
  <2> QED
    BY <1>6, <2>1 DEF mask_clcperms
<1>9. Lead.LC = 20 /\ Lead.MC = 24 /\ Lead.SC = 16 /\ Lead.EX = 8
  BY DEF Lead
<1>10. PICK G1 \in 0 .. 1, lg1 \in 0 .. 1, lm1 \in 0 .. 1 : G1 = G /\ lg1 = lg /\ lm1 = lm
  OBVIOUS
<1>11. (~x => G1 = g) /\ (~y => lg1 = b0) /\ (~z => lm1 = b1) /\ G1 <= g /\ lg1 <= b0 /\ lm1 <= b1
         /\ (y => lg1 = 0) /\ (z => lm1 = 0)
  BY <1>10
<1>12. /\ Format(c) = "MC" => d = 32 * G1 + (lg1 + lm1 * 2 + (IF z THEN 20 ELSE 24 + 4 * b2))
       /\ Format(c) = "LC" => d = 32 * G1 + (lg1 + lm1 * 2 + 20)
       /\ Format(c) = "SC" => d = 32 * G1 + (IF z THEN 0 ELSE 16)
       /\ Format(c) = "DD" => d = 32 * G1 + (16 * Flag(~(z /\ b1 = 0)) + 2 * b1 + (IF z THEN 0 ELSE b0))
       /\ Format(c) = "EX" => d = 32 * G1 + (lg1 + lm1 * 2 + 8 + 4 * b2)
       /\ Format(c) = "SE" => d = 32 * G1 + (c % 32)
  <2> HIDE DEF d, G, lg, lm
  <2> QED
    BY <1>5, <1>7, <1>8, <1>9, <1>10
<1> HIDE DEF d, G, lg, lm
<1> DEFINE same == \A e : (e \in expand_perms(c) => e \in expand_perms(d) \/ e = "GL")
           less == \A e : (e \in expand_perms(d) => e \in expand_perms(c))
<1> SUFFICES d \in 0 .. 63 /\ less /\ (sealed => same) /\ (clr = {} => d = c)
  BY DEF d
<1>13. ASSUME NEW k0 \in 0 .. 1, NEW k1 \in 0 .. 1, NEW k2 \in 0 .. 1, NEW k \in {0, 8, 16, 24},
              d = 32 * G1 + k + k0 + k1 * 2 + k2 * 4,
              ~y /\ ~z => k0 = b0 /\ k1 = b1 /\ k2 = b2 /\ k = l,
              \/ (k = l /\ k2 = b2 /\ (k \in {24, 8} \/ (k = 16 /\ b2 = 1) \/ (k = 16 /\ k1 = b1 /\ k0 = b0)) /\ k0 <= b0 /\ k1 <= b1)
              \/ (k = 16 /\ k2 = 1 /\ l = 24 /\ k0 <= b0 /\ k1 <= b1)
              \/ (k = 0 /\ k2 = 0 /\ k1 = 0 /\ k0 = 0 )
              \/ (k = 0 /\ l = 0 /\ k0 = b0 /\ k1 = b1 /\ k2 = b2)
              \/ (k = 16 /\ l = 16 /\ k2 = 0 /\ b2 = 0 /\ k1 = 1 /\ b1 = 1 /\ k0 = 0)
       PROVE  d \in 0 .. 63 /\ less /\ (sealed => same) /\ (clr = {} => d = c)
  <2>1. \A e : e \in expand_perms(d) <=>
             \/ (e = "GL" /\ G1 = 1)
             \/ (k = 24 /\ (e \in {"LD", "MC", "SD"} \/ (e = "LG" /\ k0 = 1) \/ (e = "LM" /\ k1 = 1) \/ (e = "SL" /\ k2 = 1)))
             \/ (k = 16 /\ k2 = 1 /\ (e \in {"LD", "MC"} \/ (e = "LG" /\ k0 = 1) \/ (e = "LM" /\ k1 = 1)))
             \/ (k = 16 /\ k2 = 0 /\ k0 = 0 /\ k1 = 0 /\ e \in {"SD", "MC"})
             \/ (k = 16 /\ k2 = 0 /\ ((e = "SD" /\ k0 = 1) \/ (e = "LD" /\ k1 = 1)))
             \/ (k = 8 /\ (e \in {"EX", "MC", "LD"} \/ (e = "LG" /\ k0 = 1) \/ (e = "LM" /\ k1 = 1) \/ (e = "SR" /\ k2 = 1)))
             \/ (k = 0 /\ ((e = "US" /\ k0 = 1) \/ (e = "SE" /\ k1 = 1) \/ (e = "U0" /\ k2 = 1)))
    BY <1>13, Meaning
  <2>2. \A e : e \in expand_perms(c) <=>
             \/ (e = "GL" /\ g = 1)
             \/ (l = 24 /\ (e \in {"LD", "MC", "SD"} \/ (e = "LG" /\ b0 = 1) \/ (e = "LM" /\ b1 = 1) \/ (e = "SL" /\ b2 = 1)))
             \/ (l = 16 /\ b2 = 1 /\ (e \in {"LD", "MC"} \/ (e = "LG" /\ b0 = 1) \/ (e = "LM" /\ b1 = 1)))
             \/ (l = 16 /\ b2 = 0 /\ b0 = 0 /\ b1 = 0 /\ e \in {"SD", "MC"})
             \/ (l = 16 /\ b2 = 0 /\ ((e = "SD" /\ b0 = 1) \/ (e = "LD" /\ b1 = 1)))
             \/ (l = 8 /\ (e \in {"EX", "MC", "LD"} \/ (e = "LG" /\ b0 = 1) \/ (e = "LM" /\ b1 = 1) \/ (e = "SR" /\ b2 = 1)))
             \/ (l = 0 /\ ((e = "US" /\ b0 = 1) \/ (e = "SE" /\ b1 = 1) \/ (e = "U0" /\ b2 = 1)))
    BY <1>1, Meaning
  <2>3. d \in 0 .. 63
    BY <1>13
  <2>4. less
    BY <1>11, <1>13, <2>1, <2>2
  <2>5. ~y /\ ~z => same
    BY <1>13, <2>1, <2>2
  <2>6. clr = {} => d = c
    BY <1>1, <1>4, <1>11, <1>13
  <2> QED
    BY <1>4, <2>3, <2>4, <2>5, <2>6
<1>14. CASE Format(c) = "MC"
  <2>1. l = 24
    BY <1>1, <1>14
  <2>2. z => d = 32 * G1 + 16 + lg1 + lm1 * 2 + 1 * 4
    BY <1>12, <1>14
  <2>3. ~z => d = 32 * G1 + 24 + lg1 + lm1 * 2 + b2 * 4
    BY <1>12, <1>14
  <2>4. 16 \in {0, 8, 16, 24} /\ 24 \in {0, 8, 16, 24} /\ 1 \in 0 .. 1
    OBVIOUS
  <2>5. CASE z
    BY <1>11, <1>13, <2>1, <2>2, <2>4, <2>5
  <2>6. CASE ~z
    BY <1>11, <1>13, <2>1, <2>3, <2>4, <2>6
  <2> QED
    BY <2>5, <2>6
<1>15. CASE Format(c) = "LC"
  <2>1. l = 16 /\ b2 = 1
    BY <1>1, <1>15
  <2>2. d = 32 * G1 + l + lg1 + lm1 * 2 + b2 * 4
    BY <1>12, <1>15, <2>1
  <2> QED
    BY <1>11, <1>13, <2>1, <2>2
<1>16. CASE Format(c) = "SC"
  <2>1. l = 16 /\ b2 = 0 /\ b0 = 0 /\ b1 = 0
    BY <1>1, <1>16
  <2>2. PICK k \in {0, 8, 16, 24} : k = (IF z THEN 0 ELSE 16)
    OBVIOUS
  <2>3. d = 32 * G1 + k + b0 + b1 * 2 + b2 * 4
    BY <1>12, <1>16, <2>1, <2>2
  <2> QED
    BY <1>11, <1>13, <2>1, <2>2, <2>3
<1>17. CASE Format(c) = "DD"
  <2>1. l = 16 /\ b2 = 0 /\ ~(b0 = 0 /\ b1 = 0)
    BY <1>1, <1>17
  <2>2. PICK k \in {0, 8, 16, 24}, k0 \in 0 .. 1 : k = (IF z /\ b1 = 0 THEN 0 ELSE 16) /\ k0 = (IF z THEN 0 ELSE b0)
    OBVIOUS
  <2>3. 16 * Flag(~(z /\ b1 = 0)) = k
    BY <2>2 DEF Flag
  <2>4. d = 32 * G1 + k + k0 + b1 * 2 + b2 * 4
    BY <1>12, <1>17, <2>1, <2>2, <2>3
  <2>5. CASE z /\ b1 = 0
    BY <1>13, <2>1, <2>2, <2>4, <2>5
  <2>6. CASE z /\ b1 = 1
    BY <1>13, <2>1, <2>2, <2>4, <2>6
  <2>7. CASE ~z
    BY <1>13, <2>1, <2>2, <2>4, <2>7
  <2> QED
    BY <2>5, <2>6, <2>7
<1>18. CASE Format(c) = "EX"
  <2>1. l = 8
    BY <1>1, <1>18
  <2>2. d = 32 * G1 + l + lg1 + lm1 * 2 + b2 * 4
    BY <1>12, <1>18, <2>1
  <2> QED
    BY <1>11, <1>13, <2>1, <2>2
<1>19. CASE Format(c) = "SE"
  <2>1. l = 0
    BY <1>1, <1>19
  <2>2. d = 32 * G1 + l + b0 + b1 * 2 + b2 * 4
    BY <1>1, <1>12, <1>19
  <2> QED
    BY <1>13, <2>1, <2>2
<1> QED
  BY FormatType, <1>14, <1>15, <1>16, <1>17, <1>18, <1>19 DEF Formats

-----------------------------------------------------------------------------
(* Loads                                                                   *)

\* A field is within its width.
LEMMA FieldType ==
    ASSUME NEW n \in Nat, NEW lo \in Nat, NEW w \in Nat
    PROVE  Field(n, lo, w) \in 0 .. 2^w - 1
<1>1. PICK p \in Nat \ {0}, q \in Nat \ {0} : p = 2^lo /\ q = 2^w
  BY PowPositive
<1>2. n \div p \in Int
  BY Euclid
<1>3. (n \div p) % q \in 0 .. q - 1
  BY <1>2, Euclid
<1> QED
  BY <1>1, <1>3 DEF Field

\* The places of the fields in a word, in both encodings.
LEMMA WordLayout ==
    /\ OTYPE_LO \in Nat /\ CPERMS_LO \in Nat /\ TAG \in Nat
    /\ TOP_W + TOP_W + CEXP_W = OTYPE_LO /\ TOP_W + (TOP_W - 1) + (CEXP_W + 1) = OTYPE_LO
    /\ TOP_W + TOP_W = CEXP_LO /\ TOP_W + (TOP_W - 1) = CEXP5_LO /\ CEXP_LO \in Nat /\ CEXP5_LO \in Nat
    /\ CEXP_W + 1 \in Nat /\ TOP_W - 1 \in Nat /\ TOP_LO = TOP_W /\ BASE_LO = 0
    /\ 2^CEXP_W = RESETCEXP + 1 /\ 2^(CEXP_W + 1) = AllOnes + 1 /\ AllOnes \in Nat \ {0} /\ AllOnes = 2 * RESETCEXP + 1
    /\ RESETEXP < AllOnes
<1>1. 2^CEXP_W \in Nat \ {0} /\ 2^(CEXP_W + 1) = 2 * 2^CEXP_W
  BY Widths, PowPositive, PowSucc
<1>2. /\ 2^CEXP_W = RESETCEXP + 1 /\ 2^(CEXP_W + 1) = AllOnes + 1 /\ AllOnes \in Nat \ {0} /\ AllOnes = 2 * RESETCEXP + 1
  BY <1>1 DEF RESETCEXP, AllOnes
<1>3. RESETEXP < AllOnes
  BY WidthAssumption DEF AllOnes
<1> QED
  BY <1>2, <1>3, Widths DEF OTYPE_LO, CPERMS_LO, TAG, CEXP_LO, CEXP5_LO, TOP_LO, BASE_LO

\* A loaded register, whatever the word says of the bounds.
LEMMA LoadedIs ==
    ASSUME NEW i8 \in BOOLEAN, NEW W \in Nat, NEW a, NEW clr,
           NEW e \in Exponents(i8), NEW b \in 0 .. Mant - 1, NEW t \in 0 .. Mant - 1
    PROVE  LET r == Loaded(W, a, clr, e, b, t)
           IN  /\ r \in Regs(i8) /\ Corrected(r, a) = r
               /\ r.valid <=> Bit(W, TAG) /\ "tag" \notin clr
               /\ r.exp = e /\ r.base = b /\ r.top = t
               /\ r.otype = Field(W, OTYPE_LO, 3)
               /\ r.cperms = mask_clcperms(Field(W, CPERMS_LO, 6), clr, Bit(W, TAG) /\ "tag" \notin clr, r.otype # 0)
               /\ Field(W, CPERMS_LO, 6) \in 0 .. 63
<1>1. PICK o : o = Field(W, OTYPE_LO, 3)
  OBVIOUS
<1>2. PICK v \in BOOLEAN : v = (Bit(W, TAG) /\ "tag" \notin clr)
  BY DEF Bit
<1>3. PICK c : c = Field(W, CPERMS_LO, 6)
  OBVIOUS
<1>4. o \in 0 .. 7 /\ c \in 0 .. 63
  <2>1. 3 \in Nat /\ 6 \in Nat
    OBVIOUS
  <2>2. o \in 0 .. 2^3 - 1 /\ c \in 0 .. 2^6 - 1
    BY <1>1, <1>3, <2>1, FieldType, WordLayout
  <2> QED
    BY <2>2, SmallPowers
<1>5. PICK d : d = mask_clcperms(c, clr, v, o # 0)
  OBVIOUS
<1>6. d \in 0 .. 63
  <2>1. PICK s \in BOOLEAN : s = (o # 0)
    OBVIOUS
  <2> QED
    BY <1>4, <1>5, <2>1, Mask
<1> DEFINE g == [valid |-> v, exp |-> e, top |-> t, base |-> b, top_cor |-> 0, base_cor |-> 0, otype |-> o, cperms |-> d]
<1>7. g \in Regs(i8)
  BY <1>4, <1>6 DEF Regs
<1>8. Loaded(W, a, clr, e, b, t) = Corrected(g, a)
  BY <1>1, <1>2, <1>3, <1>5 DEF Loaded
<1>9. g.valid = v /\ g.exp = e /\ g.top = t /\ g.base = b /\ g.otype = o /\ g.cperms = d
  OBVIOUS
<1> HIDE DEF g
<1>10. PICK r : r = Corrected(g, a)
  OBVIOUS
<1>11. /\ r \in Regs(i8)
       /\ r.valid = g.valid /\ r.exp = g.exp /\ r.top = g.top /\ r.base = g.base
       /\ r.otype = g.otype /\ r.cperms = g.cperms
  BY <1>7, <1>10, CorrectedReg
<1>12. Corrected(r, a) = r
  BY <1>7, <1>10, <1>11, CorrectedAgain
<1>13. /\ r \in Regs(i8) /\ Corrected(r, a) = r
       /\ r.valid <=> Bit(W, TAG) /\ "tag" \notin clr
       /\ r.exp = e /\ r.base = b /\ r.top = t
       /\ r.otype = Field(W, OTYPE_LO, 3)
       /\ r.cperms = mask_clcperms(Field(W, CPERMS_LO, 6), clr, Bit(W, TAG) /\ "tag" \notin clr, r.otype # 0)
       /\ Field(W, CPERMS_LO, 6) \in 0 .. 63
  BY <1>1, <1>2, <1>3, <1>4, <1>5, <1>9, <1>11, <1>12
<1> QED
  BY <1>8, <1>10, <1>13

\* What is read of the bounds of a word: the top's leading bit, the exponent, the top.
TopBit(d, t, b) == (Flag(~d) + Flag(t < b % Half) + b \div Half) % 2
ReadExp(i8, W) ==
    IF i8 THEN LET c == Field(W, CEXP5_LO, CEXP_W + 1) IN IF c = 0 THEN 0 ELSE AllOnes - c
    ELSE LET c == Field(W, CEXP_LO, CEXP_W) IN IF c = RESETCEXP THEN RESETEXP ELSE c
ReadTop(i8, W) ==
    IF i8 THEN LET t == Field(W, TOP_LO, TOP_W - 1)
                IN  TopBit(Field(W, CEXP5_LO, CEXP_W + 1) = 0, t, Field(W, BASE_LO, TOP_W)) * Half + t
    ELSE Field(W, TOP_LO, TOP_W)

\* mem2regcap in both encodings: the exponent and the top as they are read.
LEMMA LoadIs ==
    ASSUME NEW i8 \in BOOLEAN, NEW W \in Nat, NEW a, NEW clr
    PROVE  /\ mem2regcap(i8, W, a, clr) = Loaded(W, a, clr, ReadExp(i8, W), Field(W, BASE_LO, TOP_W), ReadTop(i8, W))
           /\ ReadExp(i8, W) \in Exponents(i8) /\ Field(W, BASE_LO, TOP_W) \in 0 .. Mant - 1
           /\ ReadTop(i8, W) \in 0 .. Mant - 1
<1>1. Field(W, BASE_LO, TOP_W) \in 0 .. Mant - 1
  BY Widths, WordLayout, FieldType DEF Mant
<1>2. CASE i8
  <2>1. mem2regcap(i8, W, a, clr) = Loaded(W, a, clr, ReadExp(i8, W), Field(W, BASE_LO, TOP_W), ReadTop(i8, W))
    BY <1>2 DEF mem2regcap, mem2regcap_it8_fmt0, ReadExp, ReadTop, TopBit, Half
  <2>2. PICK c : c = Field(W, CEXP5_LO, CEXP_W + 1)
    OBVIOUS
  <2>3. c \in 0 .. AllOnes
    <3>1. c \in 0 .. 2^(CEXP_W + 1) - 1
      BY <2>2, WordLayout, FieldType
    <3> QED
      BY <3>1, WordLayout
  <2>4. ReadExp(i8, W) \in Exponents(i8)
    <3>1. (IF c = 0 THEN 0 ELSE AllOnes - c) \in 0 .. AllOnes - 1
      BY <2>3, WordLayout
    <3> QED
      BY <1>2, <2>2, <3>1 DEF ReadExp, Exponents
  <2>5. PICK t : t = Field(W, TOP_LO, TOP_W - 1)
    OBVIOUS
  <2>6. t \in 0 .. Half - 1
    BY <2>5, WordLayout, Widths, FieldType DEF Half
  <2>7. PICK x : x = TopBit(c = 0, t, Field(W, BASE_LO, TOP_W))
    OBVIOUS
  <2>8. x \in 0 .. 1
    <3>1. PICK b \in 0 .. Mant - 1 : b = Field(W, BASE_LO, TOP_W)
      BY <1>1
    <3>2. PICK h \in Nat \ {0} : h = Half
      BY HalfIs
    <3>3. b \in Int
      OBVIOUS
    <3>4. b \div h \in Int
      BY <3>3, Euclid
    <3>5. PICK y \in Int : y = Flag(~(c = 0)) + Flag(t < b % Half) + b \div Half
      BY <3>2, <3>4 DEF Flag
    <3>6. y % 2 \in 0 .. 1
      OBVIOUS
    <3> QED
      BY <2>7, <3>1, <3>5, <3>6 DEF TopBit
  <2>9. ReadTop(i8, W) = x * Half + t
    BY <1>2, <2>2, <2>5, <2>7 DEF ReadTop
  <2>10. x * Half + t \in 0 .. Mant - 1
    <3>1. PICK h \in Nat : h = Half /\ Mant = 2 * h
      BY HalfIs
    <3>2. x = 0 \/ x = 1
      BY <2>8
    <3>3. t \in 0 .. h - 1
      BY <2>6, <3>1
    <3>4. x * h + t \in 0 .. 2 * h - 1
      <4>1. x * h = 0 \/ x * h = h
        BY <3>1, <3>2
      <4> QED
        BY <3>1, <3>3, <4>1
    <3> QED
      BY <3>1, <3>4
  <2> QED
    BY <1>1, <2>1, <2>4, <2>9, <2>10
<1>3. CASE ~i8
  <2>1. mem2regcap(i8, W, a, clr) = Loaded(W, a, clr, ReadExp(i8, W), Field(W, BASE_LO, TOP_W), ReadTop(i8, W))
    BY <1>3 DEF mem2regcap, mem2regcap_fmt0, ReadExp, ReadTop
  <2>2. PICK c : c = Field(W, CEXP_LO, CEXP_W)
    OBVIOUS
  <2>3. c \in 0 .. RESETCEXP
    <3>1. c \in 0 .. 2^CEXP_W - 1
      BY <2>2, WordLayout, Widths, FieldType
    <3>2. PICK k \in Nat : k = RESETCEXP
      BY Widths
    <3>3. 2^CEXP_W = k + 1
      BY <3>2, WordLayout
    <3>4. c \in 0 .. k
      BY <3>1, <3>3
    <3> QED
      BY <3>2, <3>4
  <2>4. ReadExp(i8, W) \in Exponents(i8)
    <3>1. (IF c = RESETCEXP THEN RESETEXP ELSE c) \in (0 .. RESETCEXP - 1) \cup {RESETEXP}
      BY <2>3, Widths
    <3>2. Exponents(i8) = (0 .. RESETCEXP - 1) \cup {RESETEXP}
      BY <1>3 DEF Exponents
    <3>3. ReadExp(i8, W) = IF c = RESETCEXP THEN RESETEXP ELSE c
      BY <1>3, <2>2 DEF ReadExp
    <3> QED
      BY <3>1, <3>2, <3>3
  <2>5. ReadTop(i8, W) \in 0 .. Mant - 1
    BY <1>3, WordLayout, Widths, FieldType DEF ReadTop, Mant
  <2> QED
    BY <1>1, <2>1, <2>4, <2>5
<1> QED
  BY <1>2, <1>3

\* What a load makes of any word: a register with its corrections right.
LEMMA Load ==
    ASSUME NEW i8 \in BOOLEAN, NEW W \in Nat, NEW a, NEW clr
    PROVE  LET r == mem2regcap(i8, W, a, clr)
           IN  /\ r \in Regs(i8) /\ Corrected(r, a) = r
               /\ r.valid <=> Bit(W, TAG) /\ "tag" \notin clr
               /\ r.exp = ReadExp(i8, W) /\ r.base = Field(W, BASE_LO, TOP_W) /\ r.top = ReadTop(i8, W)
               /\ r.otype = Field(W, OTYPE_LO, 3)
               /\ r.cperms = mask_clcperms(Field(W, CPERMS_LO, 6), clr, Bit(W, TAG) /\ "tag" \notin clr, r.otype # 0)
               /\ Field(W, CPERMS_LO, 6) \in 0 .. 63
<1>1. PICK e \in Exponents(i8), b \in 0 .. Mant - 1, t \in 0 .. Mant - 1 :
          /\ e = ReadExp(i8, W) /\ b = Field(W, BASE_LO, TOP_W) /\ t = ReadTop(i8, W)
          /\ mem2regcap(i8, W, a, clr) = Loaded(W, a, clr, e, b, t)
  BY LoadIs
<1> QED
  BY <1>1, LoadedIs

-----------------------------------------------------------------------------
(* Stores, and loads of what was stored                                    *)

\* The exponent survives the original encoding.
LEMMA ExponentField ==
    ASSUME NEW e \in Exponents(FALSE)
    PROVE  LET c == IF e = RESETEXP THEN RESETCEXP ELSE e % 2^CEXP_W
           IN  /\ c \in 0 .. 2^CEXP_W - 1
               /\ (IF c = RESETCEXP THEN RESETEXP ELSE c) = e
<1>1. PICK k \in Nat \ {0} : k = RESETCEXP /\ 2^CEXP_W = k + 1 /\ k < RESETEXP
  BY Widths, WordLayout
<1>2. e = RESETEXP \/ e \in 0 .. k - 1
  BY <1>1 DEF Exponents
<1>3. CASE e = RESETEXP
  BY <1>1, <1>3, Widths
<1>4. CASE e \in 0 .. k - 1
  <2>1. e \in 0 .. (k + 1) - 1 /\ k + 1 \in Nat \ {0} /\ e # RESETEXP /\ e # k
    BY <1>1, <1>4, Widths
  <2>2. e % (k + 1) = e
    BY <2>1, ModSmall
  <2> QED
    BY <1>1, <2>1, <2>2
<1> QED
  BY <1>2, <1>3, <1>4

\* The length that reg2memcap_it8_fmt0 finds is the length of the bounds.
LEMMA LengthIs ==
    ASSUME NEW i8 \in BOOLEAN, NEW r \in Regs(i8), NEW a \in Nat, Corrected(r, a) = r,
           NEW m, NEW n, Sound(i8, r, a, m, n)
    PROVE  /\ ((Flag(~(r.top_cor = -r.base_cor)) * 2^TOP_W + r.top - r.base) % 2^(TOP_W + 1)) = n - m
           /\ n - m = (IF r.top < r.base THEN Mant + r.top - r.base ELSE r.top - r.base)
<1>1. PICK t \in 0 .. Mant - 1, b \in 0 .. Mant - 1 : t = r.top /\ b = r.base
  BY DEF Regs
<1>2. PICK k \in Nat \ {0} : k = Mant /\ 2^TOP_W = k /\ 2^(TOP_W + 1) = 2 * k
  BY Widths, PowSucc DEF Mant
<1>3. m \in Nat /\ n \in Nat /\ m <= n /\ n < m + k /\ b = m % k /\ t = n % k
  BY <1>1, <1>2 DEF Sound, Region
<1>4. n - m = (IF t < b THEN k + t - b ELSE t - b)
  <2>1. n \div k = (m \div k) + (IF n % k < m % k THEN 1 ELSE 0)
    BY <1>3, Carry
  <2>2. m = k * (m \div k) + (m % k) /\ n = k * (n \div k) + (n % k) /\ m \div k \in Int /\ n \div k \in Int
    BY <1>3, Euclid
  <2>3. PICK x \in Int, y \in Int : x = m \div k /\ y = n \div k
    BY <2>2
  <2>4. m = k * x + b /\ n = k * y + t /\ y = x + (IF t < b THEN 1 ELSE 0)
    BY <1>3, <2>1, <2>2, <2>3
  <2>5. t \in Int /\ b \in Int
    BY <1>1, <1>2
  <2>6. k * (x + 1) = k * x + k
    OBVIOUS
  <2> QED
    BY <2>4, <2>5, <2>6
<1>5. (r.top_cor = -r.base_cor) <=> ~(t < b)
  <2>1. PICK u : u = Field(a, r.exp, TOP_W)
    OBVIOUS
  <2>2. /\ r.top_cor = update_temp_fields(r.top, r.base, u).top_cor
        /\ r.base_cor = update_temp_fields(r.top, r.base, u).base_cor
    BY <2>1, CorrectedReg
  <2>3. PICK hi \in BOOLEAN : hi <=> (u < b)
    OBVIOUS
  <2>4. PICK th \in BOOLEAN : th <=> (t < b)
    OBVIOUS
  <2>5. /\ r.top_cor = (IF th = hi THEN 0 ELSE IF th THEN 1 ELSE -1)
        /\ r.base_cor = (IF hi THEN 1 ELSE 0)
    BY <1>1, <2>2, <2>3, <2>4 DEF update_temp_fields, Flag
  <2>6. (r.top_cor = -r.base_cor) <=> ~th
    BY <2>5
  <2> QED
    BY <2>4, <2>6
<1>6. Flag(~(r.top_cor = -r.base_cor)) * k + t - b = n - m
  <2>1. Flag(~(r.top_cor = -r.base_cor)) = IF t < b THEN 1 ELSE 0
    BY <1>5 DEF Flag
  <2>2. t \in Int /\ b \in Int
    BY <1>1, <1>2
  <2> QED
    BY <1>4, <2>1, <2>2
<1>7. (n - m) % (2 * k) = n - m
  <2>1. n - m \in 0 .. (2 * k) - 1 /\ 2 * k \in Nat \ {0}
    BY <1>3
  <2> QED
    BY <2>1, ModSmall
<1> QED
  BY <1>1, <1>2, <1>4, <1>6, <1>7

\* The top's leading bit, which IT8 does not store, is found again from the base,
\* the rest of the top and whether the length is less than half.
LEMMA LeadingBit ==
    ASSUME NEW h \in Nat \ {0}, NEW t \in 0 .. (2 * h) - 1, NEW b \in 0 .. (2 * h) - 1, NEW d \in BOOLEAN,
           d <=> (IF t < b THEN 2 * h + t - b ELSE t - b) < h
    PROVE  (((IF d THEN 0 ELSE 1) + (IF (t % h) < (b % h) THEN 1 ELSE 0) + (b \div h)) % 2) * h + (t % h) = t
<1>1. PICK x \in 0 .. 1, u \in 0 .. h - 1 : t = h * x + u
  <2>1. t < h => t = h * 0 + t /\ t \in 0 .. h - 1
    OBVIOUS
  <2>2. t >= h => t = h * 1 + (t - h) /\ t - h \in 0 .. h - 1
    OBVIOUS
  <2>3. 0 \in 0 .. 1 /\ 1 \in 0 .. 1
    OBVIOUS
  <2> QED
    BY <2>1, <2>2, <2>3
<1>2. PICK y \in 0 .. 1, v \in 0 .. h - 1 : b = h * y + v
  <2>1. b < h => b = h * 0 + b /\ b \in 0 .. h - 1
    OBVIOUS
  <2>2. b >= h => b = h * 1 + (b - h) /\ b - h \in 0 .. h - 1
    OBVIOUS
  <2>3. 0 \in 0 .. 1 /\ 1 \in 0 .. 1
    OBVIOUS
  <2> QED
    BY <2>1, <2>2, <2>3
<1>3. t % h = u /\ b % h = v /\ b \div h = y
  BY <1>1, <1>2, Division
<1>4. ((IF d THEN 0 ELSE 1) + (IF u < v THEN 1 ELSE 0) + y) % 2 = x
  <2>1. (x = 0 \/ x = 1) /\ (y = 0 \/ y = 1)
    OBVIOUS
  <2>2. CASE x = 0 /\ y = 0
    BY <1>1, <1>2, <2>2
  <2>3. CASE x = 0 /\ y = 1
    BY <1>1, <1>2, <2>3
  <2>4. CASE x = 1 /\ y = 0
    BY <1>1, <1>2, <2>4
  <2>5. CASE x = 1 /\ y = 1
    BY <1>1, <1>2, <2>5
  <2> QED
    BY <2>1, <2>2, <2>3, <2>4, <2>5
<1>5. x * h = h * x
  OBVIOUS
<1> QED
  BY <1>1, <1>3, <1>4, <1>5

\* reg2memcap_it8_fmt0's test for a length that needs no exponent.
Denorm(r) ==
    r.exp = 0 /\ ((Flag(~(r.top_cor = -r.base_cor)) * 2^TOP_W + r.top - r.base) % 2^(TOP_W + 1)) < 2^(TOP_W - 1)

\* The fields of a stored word, in both encodings.
LEMMA StoreFields ==
    ASSUME NEW i8 \in BOOLEAN, NEW r \in Regs(i8)
    PROVE  LET W == reg2memcap(i8, r)
           IN  /\ W \in Nat /\ Field(W, BASE_LO, TOP_W) = r.base
               /\ Field(W, OTYPE_LO, 3) = r.otype /\ Field(W, CPERMS_LO, 6) = r.cperms
               /\ Bit(W, TAG) <=> r.valid
               /\ W \div 2^TAG = IF r.valid THEN 1 ELSE 0
               /\ ~i8 => Field(W, TOP_LO, TOP_W) = r.top
                          /\ Field(W, CEXP_LO, CEXP_W) = IF r.exp = RESETEXP THEN RESETCEXP ELSE r.exp % 2^CEXP_W
               /\ i8 => Field(W, TOP_LO, TOP_W - 1) = r.top % Half
                         /\ Field(W, CEXP5_LO, CEXP_W + 1) = IF Denorm(r) THEN r.exp ELSE AllOnes - r.exp
<1>1. PICK W : W = reg2memcap(i8, r)
  OBVIOUS
<1>2. PICK b \in 0 .. Mant - 1, o \in 0 .. 7, p \in 0 .. 63, v \in 0 .. 1 :
         b = r.base /\ o = r.otype /\ p = r.cperms /\ v = (IF r.valid THEN 1 ELSE 0)
  <2>1. r.base \in 0 .. Mant - 1 /\ r.otype \in 0 .. 7 /\ r.cperms \in 0 .. 63
    BY DEF Regs
  <2>2. (IF r.valid THEN 1 ELSE 0) \in 0 .. 1
    OBVIOUS
  <2> QED
    BY ONLY <2>1, <2>2
<1>3. r.exp \in Exponents(i8) /\ r.top \in 0 .. Mant - 1
  BY DEF Regs
<1>4. CASE i8
  <2>1. PICK t : t = r.top % Half
    OBVIOUS
  <2>2. t \in 0 .. 2^(TOP_W - 1) - 1
    <3>1. PICK h \in Nat \ {0} : h = Half
      BY HalfIs
    <3>2. r.top \in Int
      BY <1>3, Widths
    <3>3. r.top % h \in 0 .. h - 1
      BY <3>2, Euclid
    <3> QED
      BY <2>1, <3>1, <3>3 DEF Half
  <2>3. PICK c : c = IF Denorm(r) THEN r.exp ELSE AllOnes - r.exp
    OBVIOUS
  <2>4. c \in 0 .. 2^(CEXP_W + 1) - 1
    <3>1. PICK k \in Nat \ {0} : k = AllOnes /\ 2^(CEXP_W + 1) = k + 1
      BY WordLayout
    <3>2. r.exp \in 0 .. k - 1
      BY <1>3, <1>4, <3>1 DEF Exponents
    <3> QED
      BY <2>3, <3>1, <3>2
  <2>5. W = b + t * 2^TOP_W + c * 2^(TOP_W + (TOP_W - 1)) + o * 2^OTYPE_LO + p * 2^CPERMS_LO + v * 2^TAG
    <3>1. W = Word(r, c * 2^CEXP5_LO, r.top % 2^(TOP_W - 1))
      BY <1>1, <1>4, <2>3 DEF reg2memcap, reg2memcap_it8_fmt0, Denorm
    <3> QED
      BY <1>2, <2>1, <3>1, WordLayout DEF Word, Flag, Half
  <2>6. /\ W \in Nat
        /\ Field(W, 0, TOP_W) = b /\ Field(W, TOP_W, TOP_W - 1) = t /\ Field(W, TOP_W + (TOP_W - 1), CEXP_W + 1) = c
        /\ Field(W, OTYPE_LO, 3) = o /\ Field(W, CPERMS_LO, 6) = p /\ Field(W, TAG, 1) = v
        /\ W \div 2^TAG = v
    <3>1. PICK wt \in Nat, wc \in Nat : wt = TOP_W - 1 /\ wc = CEXP_W + 1
      BY WordLayout
    <3>2. TOP_W + wt + wc = OTYPE_LO
      BY <3>1, WordLayout
    <3>3. t \in 0 .. 2^wt - 1 /\ c \in 0 .. 2^wc - 1
      BY <2>2, <2>4, <3>1
    <3>4. W = b + t * 2^TOP_W + c * 2^(TOP_W + wt) + o * 2^OTYPE_LO + p * 2^CPERMS_LO + v * 2^TAG
      BY <2>5, <3>1
    <3>5. /\ W \in Nat
          /\ Field(W, 0, TOP_W) = b /\ Field(W, TOP_W, wt) = t /\ Field(W, TOP_W + wt, wc) = c
          /\ Field(W, OTYPE_LO, 3) = o /\ Field(W, CPERMS_LO, 6) = p /\ Field(W, TAG, 1) = v
          /\ W \div 2^TAG = v
      <4>1. Packed(wt, wc, b, t, c, o, p, v, W)
        BY <3>2, <3>3, <3>4 DEF Packed
      <4>2. Unpacked(wt, wc, b, t, c, o, p, v, W)
        BY <4>1, Layout, Zenon
      <4> QED
        BY <4>2 DEF Unpacked
    <3> QED
      BY <3>1, <3>5
  <2>7. (Bit(W, TAG) <=> r.valid) /\ W \div 2^TAG = (IF r.valid THEN 1 ELSE 0)
    BY <1>2, <2>6 DEF Bit
  <2>8. Field(W, TOP_LO, TOP_W - 1) = t /\ Field(W, CEXP5_LO, CEXP_W + 1) = c /\ Field(W, BASE_LO, TOP_W) = b
    BY <2>6, WordLayout
  <2> QED
    BY <1>1, <1>2, <1>4, <2>1, <2>3, <2>6, <2>7, <2>8
<1>5. CASE ~i8
  <2>1. PICK c : c = IF r.exp = RESETEXP THEN RESETCEXP ELSE r.exp % 2^CEXP_W
    OBVIOUS
  <2>2. c \in 0 .. 2^CEXP_W - 1
    <3>1. r.exp \in Exponents(FALSE)
      BY <1>3, <1>5
    <3> QED
      BY <2>1, <3>1, ExponentField
  <2>3. PICK t \in 0 .. 2^TOP_W - 1 : t = r.top
    BY <1>3 DEF Mant
  <2>5. W = b + t * 2^TOP_W + c * 2^(TOP_W + TOP_W) + o * 2^OTYPE_LO + p * 2^CPERMS_LO + v * 2^TAG
    <3>1. W = Word(r, c * 2^CEXP_LO, r.top)
      BY <1>1, <1>5, <2>1 DEF reg2memcap, reg2memcap_fmt0
    <3> QED
      BY <1>2, <2>3, <3>1, WordLayout DEF Word, Flag
  <2>6. /\ W \in Nat
        /\ Field(W, 0, TOP_W) = b /\ Field(W, TOP_W, TOP_W) = t /\ Field(W, TOP_W + TOP_W, CEXP_W) = c
        /\ Field(W, OTYPE_LO, 3) = o /\ Field(W, CPERMS_LO, 6) = p /\ Field(W, TAG, 1) = v
        /\ W \div 2^TAG = v
    <3>1. TOP_W + TOP_W + CEXP_W = OTYPE_LO /\ TOP_W \in Nat /\ CEXP_W \in Nat
      BY WordLayout, Widths
    <3> QED
      <4>1. Packed(TOP_W, CEXP_W, b, t, c, o, p, v, W)
        BY <2>2, <2>5, <3>1 DEF Packed
      <4>2. Unpacked(TOP_W, CEXP_W, b, t, c, o, p, v, W)
        BY <4>1, Layout, Zenon
      <4> QED
        BY <4>2 DEF Unpacked
  <2>7. (Bit(W, TAG) <=> r.valid) /\ W \div 2^TAG = (IF r.valid THEN 1 ELSE 0)
    BY <1>2, <2>6 DEF Bit
  <2>8. Field(W, TOP_LO, TOP_W) = t /\ Field(W, CEXP_LO, CEXP_W) = c /\ Field(W, BASE_LO, TOP_W) = b
    BY <2>6, WordLayout
  <2> QED
    BY <1>1, <1>2, <1>5, <2>1, <2>3, <2>6, <2>7, <2>8
<1> QED
  BY <1>4, <1>5

\* Two registers with their corrections right and the same fields are the same.
LEMMA SameReg ==
    ASSUME NEW i8 \in BOOLEAN, NEW r \in Regs(i8), NEW s \in Regs(i8), NEW a,
           Corrected(r, a) = r, Corrected(s, a) = s,
           s.valid <=> r.valid, s.exp = r.exp, s.base = r.base, s.top = r.top, s.otype = r.otype, s.cperms = r.cperms
    PROVE  s = r
<1>1. s.top_cor = r.top_cor /\ s.base_cor = r.base_cor
  BY CorrectedReg
<1> QED
  BY <1>1 DEF Regs

\* A capability that is stored and loaded again is what it was: in the original
\* encoding always, in IT8 if its bounds are normalised.
THEOREM RoundTrip ==
    ASSUME NEW i8 \in BOOLEAN, NEW r \in Regs(i8), NEW a \in Nat, Corrected(r, a) = r,
           i8 => \E m, n \in Nat : Sound(i8, r, a, m, n)
    PROVE  mem2regcap(i8, reg2memcap(i8, r), a, {}) = r
<1>1. PICK W : W = reg2memcap(i8, r)
  OBVIOUS
<1>2.          /\ W \in Nat /\ Field(W, BASE_LO, TOP_W) = r.base
               /\ Field(W, OTYPE_LO, 3) = r.otype /\ Field(W, CPERMS_LO, 6) = r.cperms
               /\ Bit(W, TAG) <=> r.valid
               /\ ~i8 => Field(W, TOP_LO, TOP_W) = r.top
                          /\ Field(W, CEXP_LO, CEXP_W) = IF r.exp = RESETEXP THEN RESETCEXP ELSE r.exp % 2^CEXP_W
               /\ i8 => Field(W, TOP_LO, TOP_W - 1) = r.top % Half
                         /\ Field(W, CEXP5_LO, CEXP_W + 1) = IF Denorm(r) THEN r.exp ELSE AllOnes - r.exp
  BY <1>1, StoreFields
<1>3. PICK s : s = mem2regcap(i8, W, a, {})
  OBVIOUS
<1>4.          /\ s \in Regs(i8) /\ Corrected(s, a) = s
               /\ s.valid <=> Bit(W, TAG)
               /\ s.exp = ReadExp(i8, W) /\ s.base = Field(W, BASE_LO, TOP_W) /\ s.top = ReadTop(i8, W)
               /\ s.otype = Field(W, OTYPE_LO, 3)
               /\ s.cperms = mask_clcperms(Field(W, CPERMS_LO, 6), {}, Bit(W, TAG) /\ "tag" \notin {}, s.otype # 0)
  BY <1>2, <1>3, Load
<1>5. s.cperms = r.cperms
  <2>1. r.cperms \in 0 .. 63
    BY DEF Regs
  <2>2. PICK v \in BOOLEAN : v = (Bit(W, TAG) /\ "tag" \notin {})
    BY DEF Bit
  <2>3. PICK z \in BOOLEAN : z = (s.otype # 0)
    OBVIOUS
  <2>4. PICK none : none = {}
    OBVIOUS
  <2>5. mask_clcperms(r.cperms, none, v, z) = r.cperms
    <3>1. r.cperms \in 0 .. 63 /\ v \in BOOLEAN /\ z \in BOOLEAN /\ none = {}
      BY <2>1, <2>4
    <3> QED
      BY ONLY <3>1, Mask
  <2> QED
    BY <1>2, <1>4, <2>2, <2>3, <2>4, <2>5
<1>6. s.exp = r.exp /\ s.top = r.top
  <2>1. CASE ~i8
    <3>1. r.exp \in Exponents(FALSE)
      BY <2>1 DEF Regs
    <3>2. PICK c : c = IF r.exp = RESETEXP THEN RESETCEXP ELSE r.exp % 2^CEXP_W
      OBVIOUS
    <3>3. (IF c = RESETCEXP THEN RESETEXP ELSE c) = r.exp
      BY <3>1, <3>2, ExponentField
    <3>4. ReadExp(i8, W) = r.exp
      BY <1>2, <2>1, <3>2, <3>3 DEF ReadExp
    <3>5. ReadTop(i8, W) = r.top
      BY <1>2, <2>1 DEF ReadTop
    <3> QED
      BY <1>4, <3>4, <3>5
  <2>2. CASE i8
    <3>1. PICK m \in Nat, n \in Nat : Sound(i8, r, a, m, n)
      BY <2>2
    <3>2. /\ ((Flag(~(r.top_cor = -r.base_cor)) * 2^TOP_W + r.top - r.base) % 2^(TOP_W + 1)) = n - m
          /\ n - m = (IF r.top < r.base THEN Mant + r.top - r.base ELSE r.top - r.base)
      BY <3>1, LengthIs
    <3>3. PICK h \in Nat \ {0} : h = Half /\ Mant = 2 * h
      BY HalfIs
    <3>4. PICK t \in 0 .. (2 * h) - 1, b \in 0 .. (2 * h) - 1 : t = r.top /\ b = r.base
      BY <3>3 DEF Regs
    <3>5. PICK k \in Nat \ {0} : k = AllOnes
      BY WordLayout
    <3>6. PICK e \in 0 .. k - 1 : e = r.exp
      BY <2>2, <3>5 DEF Regs, Exponents
    <3>7. PICK d \in BOOLEAN : d <=> Denorm(r)
      OBVIOUS
    <3>8. d <=> (e = 0 /\ n - m < h)
      BY <3>2, <3>3, <3>6, <3>7 DEF Denorm, Half
    <3>9. e > 0 => n - m >= h
      <4>1. 2 * (n - m) >= Mant \/ ~(e > 0)
        BY <2>2, <3>1, <3>6 DEF Sound
      <4> QED
        BY <3>3, <4>1
    <3>10. d <=> (IF t < b THEN 2 * h + t - b ELSE t - b) < h
      BY <3>2, <3>3, <3>4, <3>8, <3>9
    <3>11. (((IF d THEN 0 ELSE 1) + (IF (t % h) < (b % h) THEN 1 ELSE 0) + (b \div h)) % 2) * h + (t % h) = t
      BY ONLY <3>10, LeadingBit, h \in Nat \ {0}, t \in 0 .. (2 * h) - 1, b \in 0 .. (2 * h) - 1, d \in BOOLEAN
    <3>12. PICK c : c = Field(W, CEXP5_LO, CEXP_W + 1)
      OBVIOUS
    <3>13. c = IF d THEN e ELSE k - e
      BY <1>2, <2>2, <3>5, <3>6, <3>7, <3>12
    <3>14. (c = 0 <=> d) /\ (IF c = 0 THEN 0 ELSE k - c) = e
      BY <3>8, <3>13
    <3>15. ReadExp(i8, W) = e
      BY <2>2, <3>5, <3>12, <3>14 DEF ReadExp
    <3>16. ReadTop(i8, W) = t
      <4>1. ReadTop(i8, W) = TopBit(c = 0, t % h, b) * h + (t % h)
        BY <1>2, <2>2, <3>3, <3>4, <3>12 DEF ReadTop
      <4>2. TopBit(c = 0, t % h, b) = ((IF d THEN 0 ELSE 1) + (IF (t % h) < (b % h) THEN 1 ELSE 0) + (b \div h)) % 2
        <5>1. Flag(~(c = 0)) = IF d THEN 0 ELSE 1
          BY <3>14 DEF Flag
        <5>2. Flag((t % h) < (b % h)) = IF (t % h) < (b % h) THEN 1 ELSE 0
          BY DEF Flag
        <5>3. TopBit(c = 0, t % h, b) = (Flag(~(c = 0)) + Flag((t % h) < (b % h)) + (b \div h)) % 2
          BY <3>3 DEF TopBit
        <5> QED
          BY <5>1, <5>2, <5>3
      <4> QED
        BY <3>11, <4>1, <4>2
    <3> QED
      BY <1>4, <3>4, <3>6, <3>15, <3>16
  <2> QED
    BY <2>1, <2>2
<1>7. s = r
  BY <1>2, <1>4, <1>5, <1>6, SameReg
<1> QED
  BY <1>1, <1>3, <1>7

-----------------------------------------------------------------------------
(* What a step may do to a capability                                      *)

\* Registers with the same bounds and corrections mean the same bounds.
SameBounds(r, s) ==
    /\ s.exp = r.exp /\ s.top = r.top /\ s.base = r.base /\ s.top_cor = r.top_cor /\ s.base_cor = r.base_cor
    /\ s.valid => r.valid

\* A register with the bounds of a good one is good, and has the same bounds.
LEMMA SameShape ==
    \A i8 \in BOOLEAN : \A r, s, a :
        Good(i8, r, a) /\ s \in Regs(i8) /\ SameBounds(r, s) =>
            /\ Good(i8, s, a)
            /\ reg2fullcap(s, a).base32 = reg2fullcap(r, a).base32
            /\ reg2fullcap(s, a).top33 = reg2fullcap(r, a).top33
<1> SUFFICES ASSUME NEW i8 \in BOOLEAN, NEW r, NEW s, NEW a, Good(i8, r, a), s \in Regs(i8), SameBounds(r, s)
             PROVE  /\ Good(i8, s, a)
                    /\ reg2fullcap(s, a).base32 = reg2fullcap(r, a).base32
                    /\ reg2fullcap(s, a).top33 = reg2fullcap(r, a).top33
  OBVIOUS
<1> USE DEF SameBounds
<1>1. r \in Regs(i8) /\ Corrected(r, a) = r /\ (r.valid => \E m, n \in Nat : Sound(i8, r, a, m, n))
  BY DEF Good
<1>2. Corrected(s, a) = s
  BY <1>1, CorrectedAgain
<1>3. s.valid => \E m, n \in Nat : Sound(i8, s, a, m, n)
  BY <1>1 DEF Sound
<1> QED
  BY <1>2, <1>3 DEF Good, reg2fullcap

\* The expanded form of a good register.
LEMMA ExpandedIs ==
    ASSUME NEW i8 \in BOOLEAN, NEW r, NEW a \in Nat, Good(i8, r, a)
    PROVE  LET f == reg2fullcap(r, a)
           IN  /\ f = [reg |-> r, perms |-> expand_perms(r.cperms), top33 |-> f.top33, base32 |-> f.base32]
               /\ f.reg = r /\ f.perms = expand_perms(r.cperms)
               /\ r.valid => \E m, n \in Nat : Holds(i8, r, f.base32, f.top33, m, n)
<1>1. r \in Regs(i8) /\ Corrected(r, a) = r /\ (r.valid => \E m, n \in Nat : Sound(i8, r, a, m, n))
  BY DEF Good
<1> DEFINE f == reg2fullcap(r, a)
<1>2. f = [reg |-> r, perms |-> expand_perms(r.cperms), top33 |-> f.top33, base32 |-> f.base32]
  BY DEF reg2fullcap
<1>3. f.reg = r /\ f.perms = expand_perms(r.cperms)
  BY DEF reg2fullcap
<1>4. ASSUME r.valid PROVE \E m, n \in Nat : Holds(i8, r, f.base32, f.top33, m, n)
  <2>1. PICK m \in Nat, n \in Nat : Sound(i8, r, a, m, n)
    BY <1>1, <1>4
  <2>2. f.base32 = m * 2^r.exp /\ f.top33 = n * 2^r.exp
    BY <1>1, <2>1, Expansion
  <2> QED
    BY <2>1, <2>2 DEF Holds, Sound
<1> QED
  BY <1>2, <1>3, <1>4

\* Bounds are naturals, even those of a register without a tag.
LEMMA BoundType ==
    ASSUME NEW i8 \in BOOLEAN, NEW r \in Regs(i8), NEW a \in Nat
    PROVE  reg2fullcap(r, a).base32 \in Nat /\ reg2fullcap(r, a).top33 \in Nat
<1>1. r.exp \in Nat /\ r.top \in Int /\ r.base \in Int /\ r.top_cor \in Int /\ -r.base_cor \in Int
  BY ExponentsNat, Widths DEF Regs
<1>2. PICK M \in Nat \ {0} : M = Mem /\ 2^ADDR_W = M
  BY Widths DEF Mem
<1>3. ASSUME NEW t \in Int, NEW c \in Int PROVE get_bound33(t, c, r.exp, a) \in Nat
  <2>1. PICK x : x = ((((a \div 2^r.exp) \div Mant) + c) * Mant + t) * 2^r.exp
    OBVIOUS
  <2>2. x \in Int
    <3>1. PICK p \in Nat \ {0}, k \in Nat \ {0} : p = 2^r.exp /\ k = Mant
      BY <1>1, PowPositive, Widths
    <3>2. a \div p \in Int
      BY Euclid
    <3>3. PICK y \in Int : y = (a \div p) \div k
      BY <3>2, Euclid
    <3>4. ((y + c) * k + t) * p \in Int
      OBVIOUS
    <3> QED
      BY <2>1, <3>1, <3>3, <3>4
  <2>3. get_bound33(t, c, r.exp, a) = x % (2 * M)
    <3>1. PICK e \in Nat : e = r.exp
      BY <1>1
    <3>2. get_bound33(t, c, e, a) = (((((a \div 2^e) \div Mant) + c) * Mant + t) * 2^e) % (2 * Mem)
      BY BoundUnits
    <3> QED
      BY <1>2, <2>1, <3>1, <3>2
  <2>4. PICK K \in Nat \ {0} : K = 2 * M
    OBVIOUS
  <2>5. x % K \in 0 .. K - 1
    BY <2>2, Euclid
  <2> QED
    BY <2>3, <2>4, <2>5
<1>4. PICK x \in Nat : x = get_bound33(r.base, -r.base_cor, r.exp, a)
  BY <1>1, <1>3
<1>5. x % M \in Nat
  BY Euclid
<1>6. reg2fullcap(r, a).base32 = x % M
  BY <1>2, <1>4 DEF reg2fullcap
<1>7. reg2fullcap(r, a).top33 \in Nat
  BY <1>1, <1>3 DEF reg2fullcap
<1> QED
  BY <1>5, <1>6, <1>7

\* Every code stands for architectural permissions.
LEMMA PermsType == ASSUME NEW c \in 0 .. 63 PROVE expand_perms(c) \subseteq AllPerms
<1>1. PICK g \in 0 .. 1, b0 \in 0 .. 1, b1 \in 0 .. 1, b2 \in 0 .. 1, l \in {0, 8, 16, 24} :
          c = 32 * g + l + b0 + b1 * 2 + b2 * 4
  BY Decompose
<1>2. \A x \in expand_perms(c) : x \in {"GL", "LG", "SD", "LM", "SL", "LD", "MC", "SR", "EX", "US", "SE", "U0"}
  BY <1>1, Meaning
<1>3. {"GL", "LG", "SD", "LM", "SL", "LD", "MC", "SR", "EX", "US", "SE", "U0"} \subseteq AllPerms
  <2>1. DOMAIN PERMS = 1 .. 12
    BY DEF PERMS
  <2>2. /\ PERMS[1] = "GL" /\ PERMS[2] = "LG" /\ PERMS[3] = "SD" /\ PERMS[4] = "LM" /\ PERMS[5] = "SL" /\ PERMS[6] = "LD"
        /\ PERMS[7] = "MC" /\ PERMS[8] = "SR" /\ PERMS[9] = "EX" /\ PERMS[10] = "US" /\ PERMS[11] = "SE" /\ PERMS[12] = "U0"
    BY DEF PERMS
  <2>3. \A i \in 1 .. 12 : PERMS[i] \in AllPerms
    BY <2>1 DEF AllPerms
  <2>4. \A i \in {1, 2, 3, 4, 5, 6, 7, 8, 9, 10, 11, 12} : i \in 1 .. 12
    OBVIOUS
  <2> QED
    BY <2>2, <2>3, <2>4
<1> QED
  BY <1>2, <1>3

\* What a capability and its successor have in common: Monotone, for any two.
Narrower(before, after, kept, same) ==
    after.reg.valid =>
        /\ before.reg.valid
        /\ before.base32 <= after.base32 /\ after.base32 <= after.top33 /\ after.top33 <= before.top33
        /\ after.perms \subseteq before.perms
        /\ kept \/ is_cap_sealed(before.reg) => after.base32 = before.base32 /\ after.top33 = before.top33
        /\ is_cap_sealed(before.reg) /\ is_cap_sealed(after.reg) =>
               same /\ before.perms \ after.perms \subseteq {"GL"}

\* A region's base is not above its top.
LEMMA Ordered ==
    ASSUME NEW i8, NEW g, g.exp \in Nat, NEW b, NEW t, NEW m, NEW n, Holds(i8, g, b, t, m, n)
    PROVE  b \in Nat /\ t \in Nat /\ b <= t
<1>1. m \in Nat /\ n \in Nat /\ m <= n /\ b = m * 2^g.exp /\ t = n * 2^g.exp
  BY DEF Holds, Region
<1>2. PICK p \in Nat \ {0} : p = 2^g.exp
  BY PowPositive
<1>3. m * p \in Nat /\ n * p \in Nat /\ m * p <= n * p
  BY <1>1
<1> QED
  BY <1>1, <1>2, <1>3

\* A successor with the bounds it had, and no more permissions, is narrower.
LEMMA KeepBounds ==
    ASSUME NEW i8 \in BOOLEAN, NEW before, NEW after, NEW kept, NEW same,
           before.reg.exp \in Nat,
           after.reg.valid =>
               /\ before.reg.valid /\ after.perms \subseteq before.perms
               /\ after.base32 = before.base32 /\ after.top33 = before.top33
               /\ \E m, n \in Nat : Holds(i8, before.reg, before.base32, before.top33, m, n)
               /\ is_cap_sealed(before.reg) /\ is_cap_sealed(after.reg) =>
                      same /\ before.perms \ after.perms \subseteq {"GL"}
    PROVE  Narrower(before, after, kept, same)
<1> SUFFICES ASSUME after.reg.valid
             PROVE  /\ before.reg.valid
                    /\ before.base32 <= after.base32 /\ after.base32 <= after.top33 /\ after.top33 <= before.top33
                    /\ after.perms \subseteq before.perms
                    /\ after.base32 = before.base32 /\ after.top33 = before.top33
                    /\ is_cap_sealed(before.reg) /\ is_cap_sealed(after.reg) =>
                           same /\ before.perms \ after.perms \subseteq {"GL"}
  BY DEF Narrower
<1>1. PICK m \in Nat, n \in Nat : Holds(i8, before.reg, before.base32, before.top33, m, n)
  OBVIOUS
<1>2. before.base32 \in Nat /\ before.top33 \in Nat /\ before.base32 <= before.top33
  BY <1>1, Ordered
<1> QED
  BY <1>2

\* A good register that may have lost its tag.
Retagged(i8, s, a, v, c) ==
    /\ Good(i8, s, a) /\ v \in BOOLEAN /\ (v => s.valid) /\ c = [s EXCEPT !.valid = v]

\* A good register may lose its tag.
LEMMA Retag ==
    \A i8 \in BOOLEAN : \A s, a, v, c : Retagged(i8, s, a, v, c) =>
        /\ c \in Regs(i8) /\ Good(i8, c, a)
        /\ (c.valid <=> v) /\ c.exp = s.exp /\ c.top = s.top /\ c.base = s.base /\ c.otype = s.otype /\ c.cperms = s.cperms
        /\ reg2fullcap(c, a).base32 = reg2fullcap(s, a).base32
        /\ reg2fullcap(c, a).top33 = reg2fullcap(s, a).top33
<1> SUFFICES ASSUME NEW i8 \in BOOLEAN, NEW s, NEW a, NEW v, NEW c, Retagged(i8, s, a, v, c)
             PROVE  /\ c \in Regs(i8) /\ Good(i8, c, a)
                    /\ (c.valid <=> v) /\ c.exp = s.exp /\ c.top = s.top /\ c.base = s.base /\ c.otype = s.otype
                    /\ c.cperms = s.cperms
                    /\ reg2fullcap(c, a).base32 = reg2fullcap(s, a).base32
                    /\ reg2fullcap(c, a).top33 = reg2fullcap(s, a).top33
  OBVIOUS
<1>1. s \in Regs(i8) /\ Good(i8, s, a) /\ v \in BOOLEAN /\ (v => s.valid) /\ c = [s EXCEPT !.valid = v]
  BY DEF Good, Retagged
<1>2. /\ c \in Regs(i8) /\ (c.valid <=> v) /\ c.exp = s.exp /\ c.top = s.top /\ c.base = s.base
      /\ c.otype = s.otype /\ c.cperms = s.cperms /\ c.top_cor = s.top_cor /\ c.base_cor = s.base_cor
  BY <1>1 DEF Regs
<1>3. Good(i8, s, a) /\ c \in Regs(i8) /\ SameBounds(s, c)
  BY <1>1, <1>2 DEF SameBounds
<1>4. /\ Good(i8, c, a)
      /\ reg2fullcap(c, a).base32 = reg2fullcap(s, a).base32
      /\ reg2fullcap(c, a).top33 = reg2fullcap(s, a).top33
  BY <1>3, SameShape
<1> QED
  BY <1>2, <1>4

\* The same for two registers at two addresses.
LEMMA KeepReg ==
    ASSUME NEW i8 \in BOOLEAN, NEW r, NEW a \in Nat, Good(i8, r, a), NEW c, NEW b \in Nat, Good(i8, c, b),
           NEW kept, NEW same,
           c.valid => /\ r.valid /\ expand_perms(c.cperms) \subseteq expand_perms(r.cperms)
                      /\ reg2fullcap(c, b).base32 = reg2fullcap(r, a).base32
                      /\ reg2fullcap(c, b).top33 = reg2fullcap(r, a).top33
                      /\ is_cap_sealed(r) /\ is_cap_sealed(c) =>
                            same /\ expand_perms(r.cperms) \ expand_perms(c.cperms) \subseteq {"GL"}
    PROVE  Narrower(reg2fullcap(r, a), reg2fullcap(c, b), kept, same)
<1>1. PICK before : before = reg2fullcap(r, a)
  OBVIOUS
<1>2. PICK after : after = reg2fullcap(c, b)
  OBVIOUS
<1>3. before.reg = r /\ before.perms = expand_perms(r.cperms)
        /\ (r.valid => \E m, n \in Nat : Holds(i8, r, before.base32, before.top33, m, n))
  BY <1>1, ExpandedIs
<1>4. after.reg = c /\ after.perms = expand_perms(c.cperms)
  BY <1>2, ExpandedIs
<1>5. r.exp \in Nat
  BY ExponentsNat DEF Good, Regs
<1>6. Narrower(before, after, kept, same)
  BY <1>1, <1>2, <1>3, <1>4, <1>5, KeepBounds
<1> QED
  BY <1>1, <1>2, <1>6

\* Addresses are naturals.
LEMMA AddrNat == Addrs \subseteq Nat
BY AddrsAre, Widths

\* What cheri_ex.sv does with the tag of a result: an operand that is sealed gives
\* none.
Unsealed(s, r) == [s EXCEPT !.valid = @ /\ ~is_cap_sealed(r)]

\* CSetAddr and its family, on any register: the result is good and narrower.
LEMMA StepAddr ==
    ASSUME NEW i8 \in BOOLEAN, NEW r, NEW a \in Addrs, Good(i8, r, a), NEW b \in Addrs, NEW kept, NEW same,
           NEW c, c = Unsealed(full2regcap(set_address(reg2fullcap(r, a), b)), r)
    PROVE  Good(i8, c, b) /\ Narrower(reg2fullcap(r, a), reg2fullcap(c, b), kept, same)
<1>1. a \in Nat /\ b \in Nat
  BY AddrNat
<1>2. PICK f : f = reg2fullcap(r, a)
  OBVIOUS
<1>3. PICK t, d : t = f.top33 /\ d = f.base32
  OBVIOUS
<1>4. PICK p : p = expand_perms(r.cperms)
  OBVIOUS
<1>5. f = [reg |-> r, perms |-> p, top33 |-> t, base32 |-> d]
        /\ (r.valid => \E m, n \in Nat : Holds(i8, r, d, t, m, n))
  BY <1>1, <1>2, <1>3, <1>4, ExpandedIs
<1>6. PICK s : s = full2regcap(set_address([reg |-> r, perms |-> p, top33 |-> t, base32 |-> d], b))
  OBVIOUS
<1>7. r \in Regs(i8)
  BY DEF Good
<1>8. /\ Good(i8, s, b)
      /\ s.valid => r.valid /\ reg2fullcap(s, b).base32 = d /\ reg2fullcap(s, b).top33 = t
      /\ s.otype = r.otype /\ s.cperms = r.cperms
  BY <1>5, <1>6, <1>7, SetAddress
<1>9. PICK v \in BOOLEAN : v = (s.valid /\ ~is_cap_sealed(r)) /\ (v <=> s.valid /\ ~is_cap_sealed(r))
  BY <1>8 DEF Good, Regs
<1>10. Retagged(i8, s, b, v, c)
  BY <1>2, <1>5, <1>6, <1>8, <1>9 DEF Retagged, Unsealed
<1>11. /\ Good(i8, c, b) /\ (c.valid <=> v) /\ c.otype = s.otype /\ c.cperms = s.cperms
       /\ reg2fullcap(c, b).base32 = reg2fullcap(s, b).base32
       /\ reg2fullcap(c, b).top33 = reg2fullcap(s, b).top33
  BY <1>10, Retag
<1>12. c.valid => /\ r.valid /\ expand_perms(c.cperms) \subseteq expand_perms(r.cperms)
                  /\ reg2fullcap(c, b).base32 = reg2fullcap(r, a).base32
                  /\ reg2fullcap(c, b).top33 = reg2fullcap(r, a).top33
                  /\ ~is_cap_sealed(r)
  BY <1>2, <1>3, <1>8, <1>9, <1>11
<1>13. Narrower(reg2fullcap(r, a), reg2fullcap(c, b), kept, same)
  BY <1>1, <1>11, <1>12, KeepReg
<1> QED
  BY <1>11, <1>13

\* A register with new bounds within the old, as set_bounds and set_bounds_rndn
\* both give it, is narrower.
LEMMA StepBounds ==
    ASSUME NEW i8 \in BOOLEAN, NEW r, NEW a \in Addrs, Good(i8, r, a), NEW s, Good(i8, s, a),
           s.otype = r.otype, s.cperms = r.cperms,
           s.valid => /\ r.valid /\ reg2fullcap(r, a).base32 <= reg2fullcap(s, a).base32
                      /\ reg2fullcap(s, a).base32 <= reg2fullcap(s, a).top33
                      /\ reg2fullcap(s, a).top33 <= reg2fullcap(r, a).top33,
           NEW c, c = Unsealed(s, r), NEW kept, ~kept, NEW same
    PROVE  Good(i8, c, a) /\ Narrower(reg2fullcap(r, a), reg2fullcap(c, a), kept, same)
<1>1. PICK v \in BOOLEAN : v = (s.valid /\ ~is_cap_sealed(r)) /\ (v <=> s.valid /\ ~is_cap_sealed(r))
  BY DEF Good, Regs
<1>2. Retagged(i8, s, a, v, c)
  BY <1>1 DEF Retagged, Unsealed
<1>3. /\ Good(i8, c, a) /\ (c.valid <=> v) /\ c.otype = s.otype /\ c.cperms = s.cperms
      /\ reg2fullcap(c, a).base32 = reg2fullcap(s, a).base32
      /\ reg2fullcap(c, a).top33 = reg2fullcap(s, a).top33
  BY <1>2, Retag
<1>4. a \in Nat
  BY AddrNat
<1>5. reg2fullcap(r, a).reg = r /\ reg2fullcap(r, a).perms = expand_perms(r.cperms)
        /\ reg2fullcap(c, a).reg = c /\ reg2fullcap(c, a).perms = expand_perms(c.cperms)
  BY DEF reg2fullcap
<1>6. PICK before, after : before = reg2fullcap(r, a) /\ after = reg2fullcap(c, a)
  OBVIOUS
<1>7. ASSUME after.reg.valid
      PROVE  /\ before.reg.valid /\ ~is_cap_sealed(before.reg)
             /\ before.base32 <= after.base32 /\ after.base32 <= after.top33 /\ after.top33 <= before.top33
             /\ after.perms \subseteq before.perms
  <2>1. v
    BY <1>3, <1>5, <1>6, <1>7
  <2> QED
    BY <1>1, <1>3, <1>5, <1>6, <2>1
<1>8. Narrower(before, after, kept, same)
  BY <1>7 DEF Narrower
<1> QED
  BY <1>3, <1>6, <1>8

\* The set-bounds family, on any register.
LEMMA StepSetBounds ==
    ASSUME NEW i8 \in BOOLEAN, NEW r, NEW a \in Addrs, Good(i8, r, a), NEW len \in Addrs, NEW exact \in BOOLEAN,
           NEW f, f = reg2fullcap(r, a), NEW q, q = prep_bound_req(i8, f, a, len),
           NEW c, NEW kept, ~kept, NEW same,
           \/ c = Unsealed(set_bounds(f, a, q, exact), r)
           \/ c = Unsealed(set_bounds_rndn(i8, f, a, q), r)
    PROVE  Good(i8, c, a) /\ Narrower(reg2fullcap(r, a), reg2fullcap(c, a), kept, same)
<1>1. a \in Nat /\ r \in Regs(i8)
  BY AddrNat DEF Good
<1>2. PICK p, t, b : p = expand_perms(r.cperms) /\ t = f.top33 /\ b = f.base32
  OBVIOUS
<1>3. f = [reg |-> r, perms |-> p, top33 |-> t, base32 |-> b]
        /\ (r.valid => \E m, n \in Nat : Holds(i8, r, b, t, m, n))
  BY <1>1, <1>2, ExpandedIs
<1>4. Fits(i8, f)
  <2>1. f.reg = r
    BY <1>3
  <2> QED
    BY <1>1, <1>2, <1>3, <2>1 DEF Fits, Holds
<1>5. CASE c = Unsealed(set_bounds(f, a, q, exact), r)
  <2>1. PICK s : s = set_bounds(f, a, q, exact)
    OBVIOUS
  <2>2. /\ Good(i8, s, a) /\ s.otype = r.otype /\ s.cperms = r.cperms
        /\ s.valid => /\ r.valid
                      /\ b <= reg2fullcap(s, a).base32 /\ reg2fullcap(s, a).base32 <= reg2fullcap(s, a).top33
                      /\ reg2fullcap(s, a).top33 <= t
    <3>1. NearBounds(i8, f, a, len, exact)
      BY <1>4, SetBounds
    <3>2. f.reg = r /\ f.base32 = b /\ f.top33 = t
      BY <1>2, <1>3
    <3>3. s = set_bounds(f, a, prep_bound_req(i8, f, a, len), exact)
      BY <2>1
    <3>4. PICK e, base, top : /\ e = Exponent(i8, a, len) /\ base = (a \div 2^e) * 2^e
                              /\ top = Up(a + len, 2^e) * 2^e
      OBVIOUS
    <3>5. /\ Good(i8, s, a) /\ s.otype = f.reg.otype /\ s.cperms = f.reg.cperms
          /\ s.valid => f.reg.valid
          /\ s.valid => /\ reg2fullcap(s, a).base32 = base /\ reg2fullcap(s, a).top33 = top
                        /\ f.base32 <= base /\ base <= top /\ top <= f.top33
      BY <3>1, <3>3, <3>4, Zenon DEF NearBounds
    <3> QED
      BY <3>2, <3>5
  <2> QED
    BY <1>2, <1>5, <2>1, <2>2, StepBounds
<1>6. CASE c = Unsealed(set_bounds_rndn(i8, f, a, q), r)
  <2>1. PICK s : s = set_bounds_rndn(i8, f, a, q)
    OBVIOUS
  <2>2. /\ Good(i8, s, a) /\ s.otype = r.otype /\ s.cperms = r.cperms
        /\ s.valid => /\ r.valid /\ b <= a /\ a + len <= t
                      /\ reg2fullcap(s, a).base32 = a
                      /\ a <= reg2fullcap(s, a).top33 /\ reg2fullcap(s, a).top33 <= a + len
    <3>1. InnerBounds(i8, f, a, len)
      BY <1>4, SetBoundsRndn
    <3>2. f.reg = r /\ f.base32 = b /\ f.top33 = t
      BY <1>2, <1>3
    <3>3. s = set_bounds_rndn(i8, f, a, prep_bound_req(i8, f, a, len))
      BY <2>1
    <3>4. PICK top : top = reg2fullcap(s, a).top33
      OBVIOUS
    <3>5. /\ Good(i8, s, a) /\ s.otype = f.reg.otype /\ s.cperms = f.reg.cperms
          /\ s.valid => f.reg.valid /\ f.base32 <= a /\ a + len <= f.top33
          /\ s.valid => /\ reg2fullcap(s, a).base32 = a
                        /\ a <= top /\ top <= a + len
      BY <3>1, <3>3, <3>4, Zenon DEF InnerBounds
    <3> QED
      BY <3>2, <3>4, <3>5
  <2>3. s.valid => reg2fullcap(s, a).top33 <= t
    <3> SUFFICES ASSUME s.valid PROVE reg2fullcap(s, a).top33 <= t
      OBVIOUS
    <3>1. PICK m \in Nat, n \in Nat : Holds(i8, r, b, t, m, n)
      BY <1>3, <2>2
    <3>2. r.exp \in Nat
      BY <1>1, ExponentsNat DEF Regs
    <3>3. t \in Nat
      BY <3>1, <3>2, Ordered
    <3>4. reg2fullcap(s, a).top33 \in Nat
      BY <1>1, <2>2, BoundType DEF Good
    <3>5. len \in Nat
      BY AddrNat
    <3> QED
      BY <1>1, <2>2, <3>3, <3>4, <3>5
  <2> QED
    BY <1>2, <1>6, <2>1, <2>2, <2>3, StepBounds
<1> QED
  BY <1>5, <1>6

\* A register with other permissions, type and tag, from which at most GL is gone
\* if it stays sealed.
Lesser(r, c, v, o, p) ==
    /\ v \in BOOLEAN /\ o \in 0 .. 7 /\ p \in 0 .. 63
    /\ c = [r EXCEPT !.cperms = p, !.otype = o, !.valid = v]
    /\ v => r.valid /\ expand_perms(p) \subseteq expand_perms(r.cperms)
    /\ v /\ r.otype # 0 /\ o # 0 => expand_perms(r.cperms) \ expand_perms(p) \subseteq {"GL"}

\* A register that keeps its bounds and address, and may lose permissions and its
\* tag, is narrower: CAndPerm, CSeal, CUnseal, CClearTag.
LEMMA StepSame ==
    \A i8 \in BOOLEAN : \A a \in Addrs : \A r, c, v, o, p, kept, same :
        Good(i8, r, a) /\ Lesser(r, c, v, o, p) /\ same =>
            Good(i8, c, a) /\ Narrower(reg2fullcap(r, a), reg2fullcap(c, a), kept, same)
<1> TAKE i8 \in BOOLEAN
<1> TAKE a \in Addrs
<1> TAKE r, c, v, o, p, kept, same
<1> HAVE Good(i8, r, a) /\ Lesser(r, c, v, o, p) /\ same
<1> USE DEF Lesser
<1>1. r \in Regs(i8)
  BY DEF Good
<1>2. /\ c \in Regs(i8) /\ (c.valid <=> v) /\ c.exp = r.exp /\ c.top = r.top /\ c.base = r.base
      /\ c.otype = o /\ c.cperms = p /\ c.top_cor = r.top_cor /\ c.base_cor = r.base_cor
      /\ c.valid => r.valid
  BY <1>1 DEF Regs
<1>3. /\ Good(i8, c, a)
      /\ reg2fullcap(c, a).base32 = reg2fullcap(r, a).base32
      /\ reg2fullcap(c, a).top33 = reg2fullcap(r, a).top33
  <2>1. c \in Regs(i8) /\ SameBounds(r, c)
    BY <1>2 DEF SameBounds
  <2> QED
    BY <2>1, SameShape
<1>4. a \in Nat
  BY AddrNat
<1>5. c.valid => /\ r.valid /\ expand_perms(c.cperms) \subseteq expand_perms(r.cperms)
                 /\ reg2fullcap(c, a).base32 = reg2fullcap(r, a).base32
                 /\ reg2fullcap(c, a).top33 = reg2fullcap(r, a).top33
                 /\ is_cap_sealed(r) /\ is_cap_sealed(c) =>
                       same /\ expand_perms(r.cperms) \ expand_perms(c.cperms) \subseteq {"GL"}
  BY <1>2, <1>3 DEF is_cap_sealed
<1>6. Narrower(reg2fullcap(r, a), reg2fullcap(c, a), kept, same)
  BY <1>3, <1>4, <1>5, KeepReg
<1> QED
  BY <1>3, <1>6

-----------------------------------------------------------------------------
(* Memory and the program counter                                          *)

\* A good register stored, its tag kept or not.
Stored(i8, r, a, v, W) == Good(i8, r, a) /\ v \in BOOLEAN /\ (v => r.valid) /\ W = reg2memcap(i8, [r EXCEPT !.valid = v])

\* A store, which may clear the tag, leaves a word that means no more.
LEMMA StepStore ==
    ASSUME NEW i8 \in BOOLEAN, NEW r, NEW a \in Addrs, NEW v, NEW W, Stored(i8, r, a, v, W), NEW kept, NEW same, same
    PROVE  /\ W \in Nat /\ Good(i8, mem2regcap(i8, W, a, {}), a)
           /\ Narrower(reg2fullcap(r, a), reg2fullcap(mem2regcap(i8, W, a, {}), a), kept, same)
<1>1. PICK c : c = [r EXCEPT !.valid = v]
  OBVIOUS
<1>2. Retagged(i8, r, a, v, c) /\ Good(i8, r, a)
  BY <1>1 DEF Stored, Retagged
<1>3. /\ c \in Regs(i8) /\ Good(i8, c, a) /\ (c.valid <=> v) /\ c.otype = r.otype /\ c.cperms = r.cperms
      /\ reg2fullcap(c, a).base32 = reg2fullcap(r, a).base32
      /\ reg2fullcap(c, a).top33 = reg2fullcap(r, a).top33
  BY <1>2, Retag
<1>4. a \in Nat
  BY AddrNat
<1>5. W = reg2memcap(i8, c)
  BY <1>1 DEF Stored
<1>6. W \in Nat /\ (Bit(W, TAG) <=> c.valid)
  BY <1>3, <1>5, StoreFields
<1>7. PICK s : s = mem2regcap(i8, W, a, {})
  OBVIOUS
<1>8. s \in Regs(i8) /\ Corrected(s, a) = s /\ (s.valid <=> Bit(W, TAG))
  BY <1>6, <1>7, Load
<1>9. CASE c.valid
  <2>1. Corrected(c, a) = c /\ \E m, n \in Nat : Sound(i8, c, a, m, n)
    BY <1>3, <1>9 DEF Good
  <2>2. mem2regcap(i8, reg2memcap(i8, c), a, {}) = c
    BY <1>3, <1>4, <2>1, RoundTrip
  <2>3. s = c
    BY <1>5, <1>7, <2>2
  <2>4. c.valid => r.valid
    BY <1>3 DEF Stored
  <2>5. c.valid => /\ r.valid /\ expand_perms(c.cperms) \subseteq expand_perms(r.cperms)
                   /\ reg2fullcap(c, a).base32 = reg2fullcap(r, a).base32
                   /\ reg2fullcap(c, a).top33 = reg2fullcap(r, a).top33
                   /\ is_cap_sealed(r) /\ is_cap_sealed(c) =>
                         same /\ expand_perms(r.cperms) \ expand_perms(c.cperms) \subseteq {"GL"}
    BY <1>3, <2>4
  <2>6. Narrower(reg2fullcap(r, a), reg2fullcap(c, a), kept, same)
    BY <1>2, <1>3, <1>4, <2>5, KeepReg
  <2> QED
    BY <1>3, <1>6, <1>7, <2>3, <2>6
<1>10. CASE ~c.valid
  <2>1. ~s.valid
    BY <1>6, <1>8, <1>10
  <2>2. Good(i8, s, a)
    BY <1>8, <2>1 DEF Good
  <2>3. reg2fullcap(s, a).reg = s
    BY DEF reg2fullcap
  <2>4. Narrower(reg2fullcap(r, a), reg2fullcap(s, a), kept, same)
    BY <2>1, <2>3 DEF Narrower
  <2> QED
    BY <1>6, <1>7, <2>2, <2>4
<1> QED
  BY <1>9, <1>10

\* A load, with what the authority takes away, gives no more than the word.
LEMMA StepLoad ==
    ASSUME NEW i8 \in BOOLEAN, NEW W \in Nat, NEW a \in Addrs, Good(i8, mem2regcap(i8, W, a, {}), a), NEW clr,
           NEW kept, NEW same, same
    PROVE  /\ Good(i8, mem2regcap(i8, W, a, clr), a)
           /\ Narrower(reg2fullcap(mem2regcap(i8, W, a, {}), a), reg2fullcap(mem2regcap(i8, W, a, clr), a), kept, same)
<1>1. PICK r, c, none : none = {} /\ r = mem2regcap(i8, W, a, none) /\ c = mem2regcap(i8, W, a, clr)
  OBVIOUS
<1>2. PICK p : p = Field(W, CPERMS_LO, 6)
  OBVIOUS
<1>3. /\ r \in Regs(i8) /\ Corrected(r, a) = r
      /\ r.valid <=> Bit(W, TAG)
      /\ r.exp = ReadExp(i8, W) /\ r.base = Field(W, BASE_LO, TOP_W) /\ r.top = ReadTop(i8, W)
      /\ r.otype = Field(W, OTYPE_LO, 3)
      /\ r.cperms = mask_clcperms(p, none, Bit(W, TAG) /\ "tag" \notin none, r.otype # 0)
      /\ p \in 0 .. 63
  BY <1>1, <1>2, Load
<1>4. /\ c \in Regs(i8) /\ Corrected(c, a) = c
      /\ c.valid <=> Bit(W, TAG) /\ "tag" \notin clr
      /\ c.exp = ReadExp(i8, W) /\ c.base = Field(W, BASE_LO, TOP_W) /\ c.top = ReadTop(i8, W)
      /\ c.otype = Field(W, OTYPE_LO, 3)
      /\ c.cperms = mask_clcperms(p, clr, Bit(W, TAG) /\ "tag" \notin clr, c.otype # 0)
  BY <1>1, <1>2, Load
<1>5. r.cperms = p
  <2>1. PICK v \in BOOLEAN, z \in BOOLEAN : v = (Bit(W, TAG) /\ "tag" \notin none) /\ z = (r.otype # 0)
    BY DEF Bit
  <2>2. mask_clcperms(p, none, v, z) = p
    <3>1. p \in 0 .. 63 /\ v \in BOOLEAN /\ z \in BOOLEAN /\ none = {}
      BY <1>1, <1>3
    <3> QED
      BY ONLY <3>1, Mask
  <2>3. r.cperms = mask_clcperms(p, none, Bit(W, TAG) /\ "tag" \notin none, r.otype # 0)
    BY <1>3
  <2> QED
    BY <2>1, <2>2, <2>3
<1>6. /\ expand_perms(c.cperms) \subseteq expand_perms(p)
      /\ c.otype # 0 => expand_perms(p) \ expand_perms(c.cperms) \subseteq {"GL"}
  <2>1. PICK v \in BOOLEAN, z \in BOOLEAN : v = (Bit(W, TAG) /\ "tag" \notin clr) /\ z = (c.otype # 0)
    BY DEF Bit
  <2>2. PICK d : d = mask_clcperms(p, clr, v, z)
    OBVIOUS
  <2>3. /\ expand_perms(d) \subseteq expand_perms(p)
        /\ z => expand_perms(p) \ expand_perms(d) \subseteq {"GL"}
    BY <1>3, <2>2, Mask
  <2> QED
    BY <1>4, <2>1, <2>2, <2>3
<1>7. SameBounds(r, c)
  <2>1. PICK u : u = update_temp_fields(ReadTop(i8, W), Field(W, BASE_LO, TOP_W), Field(a, ReadExp(i8, W), TOP_W))
    OBVIOUS
  <2>2. r.top_cor = u.top_cor /\ r.base_cor = u.base_cor
    BY <1>3, <2>1, CorrectedReg
  <2>3. c.top_cor = u.top_cor /\ c.base_cor = u.base_cor
    BY <1>4, <2>1, CorrectedReg
  <2>4. r.exp = c.exp /\ r.base = c.base /\ r.top = c.top
    BY <1>3, <1>4
  <2>5. c.valid => r.valid
    BY <1>3, <1>4
  <2> QED
    BY <2>2, <2>3, <2>4, <2>5 DEF SameBounds
<1>8. Good(i8, r, a)
  BY <1>1
<1>9. /\ Good(i8, c, a)
      /\ reg2fullcap(c, a).base32 = reg2fullcap(r, a).base32
      /\ reg2fullcap(c, a).top33 = reg2fullcap(r, a).top33
  BY <1>4, <1>7, <1>8, SameShape
<1>10. a \in Nat
  BY AddrNat
<1>11. c.valid => /\ r.valid /\ expand_perms(c.cperms) \subseteq expand_perms(r.cperms)
                  /\ reg2fullcap(c, a).base32 = reg2fullcap(r, a).base32
                  /\ reg2fullcap(c, a).top33 = reg2fullcap(r, a).top33
                  /\ is_cap_sealed(r) /\ is_cap_sealed(c) =>
                        same /\ expand_perms(r.cperms) \ expand_perms(c.cperms) \subseteq {"GL"}
  BY <1>3, <1>4, <1>5, <1>6, <1>9 DEF is_cap_sealed
<1>12. Narrower(reg2fullcap(r, a), reg2fullcap(c, a), kept, same)
  BY <1>8, <1>9, <1>10, <1>11, KeepReg
<1> QED
  BY <1>1, <1>9, <1>12

\* CSetHigh makes a word without a tag: nothing comes of it.
LEMMA StepHigh ==
    ASSUME NEW i8 \in BOOLEAN, NEW W \in 0 .. 2^TAG - 1, NEW a, NEW before, NEW kept, NEW same
    PROVE  Good(i8, mem2regcap(i8, W, a, {}), a) /\ Narrower(before, reg2fullcap(mem2regcap(i8, W, a, {}), a), kept, same)
<1>1. PICK K \in Nat \ {0} : K = 2^TAG
  BY WordLayout, PowPositive
<1>2. W \in 0 .. K - 1 /\ W \in Nat
  BY <1>1
<1>3. W \div K = 0
  BY <1>2, ModSmall
<1>4. ~Bit(W, TAG)
  BY <1>1, <1>3, SmallPowers DEF Bit, Field
<1>5. PICK s : s = mem2regcap(i8, W, a, {})
  OBVIOUS
<1>6. s \in Regs(i8) /\ Corrected(s, a) = s /\ (s.valid <=> Bit(W, TAG))
  BY <1>2, <1>5, Load
<1>7. Good(i8, s, a)
  BY <1>4, <1>6 DEF Good
<1>8. reg2fullcap(s, a).reg = s
  BY DEF reg2fullcap
<1>9. Narrower(before, reg2fullcap(s, a), kept, same)
  BY <1>4, <1>6, <1>8 DEF Narrower
<1> QED
  BY <1>5, <1>7, <1>9

\* The program counter's capabilities.
Pccs(i8) ==
    [valid : BOOLEAN, exp : Exponents(i8), top33 : Nat, base32 : Nat, otype : 0 .. 7, perms : SUBSET AllPerms, cperms : 0 .. 63]

\* The program counter's capability, with its bounds in full.
GoodPcc(i8, p) ==
    /\ p \in Pccs(i8) /\ p.perms = expand_perms(p.cperms)
    /\ p.valid => /\ p.otype = 0
                  /\ \E m, n \in Nat : /\ Region(p.exp, m, n) /\ p.base32 = m * 2^p.exp /\ p.top33 = n * 2^p.exp
                                       /\ i8 /\ p.exp > 0 => 2 * (n - m) >= Mant

\* A jump moves a good register into the program counter's capability.
LEMMA StepToPcc ==
    ASSUME NEW i8 \in BOOLEAN, NEW r, NEW a \in Addrs, Good(i8, r, a), NEW o \in 0 .. 7, r.valid => o = 0,
           NEW p, p = [valid |-> r.valid, exp |-> r.exp, top33 |-> reg2fullcap(r, a).top33,
                       base32 |-> reg2fullcap(r, a).base32, otype |-> o, perms |-> reg2fullcap(r, a).perms, cperms |-> r.cperms],
           NEW kept, NEW same
    PROVE  GoodPcc(i8, p) /\ Narrower(reg2fullcap(r, a), pcc2fullcap(p), kept, same)
<1>1. a \in Nat /\ r \in Regs(i8)
  BY AddrNat DEF Good
<1>2. PICK f : f = reg2fullcap(r, a)
  OBVIOUS
<1>3. f.reg = r /\ f.perms = expand_perms(r.cperms)
        /\ (r.valid => \E m, n \in Nat : Holds(i8, r, f.base32, f.top33, m, n))
  BY <1>1, <1>2, ExpandedIs
<1>4. f.base32 \in Nat /\ f.top33 \in Nat
  BY <1>1, <1>2, BoundType
<1>5. f.perms \in SUBSET AllPerms
  <2>1. r.cperms \in 0 .. 63
    BY <1>1 DEF Regs
  <2>2. expand_perms(r.cperms) \subseteq AllPerms
    BY <2>1, PermsType
  <2> QED
    BY <1>3, <2>2
<1>6. /\ p \in Pccs(i8) /\ (p.valid <=> r.valid) /\ p.exp = r.exp /\ p.top33 = f.top33 /\ p.base32 = f.base32 /\ p.otype = o
      /\ p.perms = f.perms /\ p.cperms = r.cperms
  BY <1>1, <1>2, <1>4, <1>5 DEF Pccs, Regs
<1>7. GoodPcc(i8, p)
  BY <1>3, <1>6 DEF GoodPcc, Holds
<1>8. PICK h : h = pcc2fullcap(p)
  OBVIOUS
<1>9. (h.reg.valid <=> p.valid) /\ h.reg.otype = p.otype /\ h.perms = p.perms /\ h.top33 = p.top33 /\ h.base32 = p.base32
  BY <1>8 DEF pcc2fullcap
<1>10. r.exp \in Nat
  BY <1>1, ExponentsNat DEF Regs
<1>11. h.reg.valid => ~is_cap_sealed(h.reg)
  BY <1>6, <1>9 DEF is_cap_sealed
<1>12. Narrower(f, h, kept, same)
  BY <1>3, <1>6, <1>9, <1>10, <1>11, KeepBounds
<1> QED
  BY <1>2, <1>7, <1>8, <1>12

\* set_address makes a good register of the program counter's capability.
LEMMA StepFromPcc ==
    ASSUME NEW i8 \in BOOLEAN, NEW p, GoodPcc(i8, p), NEW b \in Addrs,
           NEW s, s = full2regcap(set_address(pcc2fullcap(p), b))
    PROVE  /\ Good(i8, s, b) /\ s.otype = p.otype /\ s.cperms = p.cperms
           /\ s.valid => /\ p.valid /\ reg2fullcap(s, b).base32 = p.base32 /\ reg2fullcap(s, b).top33 = p.top33
<1>1. PICK g : g = [valid |-> p.valid, exp |-> p.exp, top |-> Field(p.top33, p.exp, TOP_W),
              base |-> Field(p.base32, p.exp, TOP_W), top_cor |-> 0, base_cor |-> 0,
              otype |-> p.otype, cperms |-> p.cperms]
  OBVIOUS
<1>2. PICK q, t, d : q = p.perms /\ t = p.top33 /\ d = p.base32
  OBVIOUS
<1>3. pcc2fullcap(p) = [reg |-> g, perms |-> q, top33 |-> t, base32 |-> d]
  BY <1>1, <1>2 DEF pcc2fullcap
<1>4. p \in Pccs(i8) /\ p.exp \in Nat
  BY ExponentsNat DEF GoodPcc, Pccs
<1>5. g \in Regs(i8)
  <2>1. p.top33 \in Nat /\ p.base32 \in Nat /\ TOP_W \in Nat
    BY <1>4, Widths DEF Pccs
  <2>2. Field(p.top33, p.exp, TOP_W) \in 0 .. Mant - 1 /\ Field(p.base32, p.exp, TOP_W) \in 0 .. Mant - 1
    BY <1>4, <2>1, FieldType DEF Mant
  <2> QED
    BY <1>1, <1>4, <2>2 DEF Pccs, Regs
<1>6. (g.valid <=> p.valid) /\ g.exp = p.exp /\ g.otype = p.otype /\ g.cperms = p.cperms
        /\ g.top = Field(p.top33, p.exp, TOP_W) /\ g.base = Field(p.base32, p.exp, TOP_W)
  BY <1>1
<1>7. g.valid => \E m, n \in Nat : Holds(i8, g, d, t, m, n)
  <2> SUFFICES ASSUME g.valid PROVE \E m, n \in Nat : Holds(i8, g, d, t, m, n)
    OBVIOUS
  <2>1. PICK m \in Nat, n \in Nat : /\ Region(p.exp, m, n) /\ p.base32 = m * 2^p.exp /\ p.top33 = n * 2^p.exp
                                    /\ i8 /\ p.exp > 0 => 2 * (n - m) >= Mant
    BY <1>6 DEF GoodPcc
  <2>2. PICK k \in Nat \ {0} : k = 2^p.exp
    BY <1>4, PowPositive
  <2>3. (m * k) \div k = m /\ (n * k) \div k = n
    BY DivMult
  <2>4. g.top = n % Mant /\ g.base = m % Mant
    BY <1>6, <2>1, <2>2, <2>3 DEF Field, Mant
  <2> QED
    BY <1>2, <1>6, <2>1, <2>4 DEF Holds
<1>8. PICK w : w = full2regcap(set_address([reg |-> g, perms |-> q, top33 |-> t, base32 |-> d], b))
  OBVIOUS
<1>9. /\ Good(i8, w, b)
      /\ w.valid => g.valid /\ reg2fullcap(w, b).base32 = d /\ reg2fullcap(w, b).top33 = t
      /\ w.otype = g.otype /\ w.cperms = g.cperms
  BY <1>5, <1>7, <1>8, SetAddress
<1>10. s = w
  BY <1>3, <1>8
<1> QED
  BY <1>2, <1>6, <1>9, <1>10

\* The same with another type, or without its tag: CAUIPCC, CJALR's link, traps.
LEMMA StepFromPccTo ==
    ASSUME NEW i8 \in BOOLEAN, NEW p, GoodPcc(i8, p), NEW b \in Addrs,
           NEW s, s = full2regcap(set_address(pcc2fullcap(p), b)), NEW o \in 0 .. 7, NEW v \in BOOLEAN, v => s.valid,
           NEW c, c = [s EXCEPT !.otype = o, !.valid = v], NEW kept, NEW same
    PROVE  Good(i8, c, b) /\ Narrower(pcc2fullcap(p), reg2fullcap(c, b), kept, same)
<1>1. /\ Good(i8, s, b) /\ s.otype = p.otype /\ s.cperms = p.cperms
      /\ s.valid => /\ p.valid /\ reg2fullcap(s, b).base32 = p.base32 /\ reg2fullcap(s, b).top33 = p.top33
  BY StepFromPcc
<1>2. s \in Regs(i8)
  BY <1>1 DEF Good
<1>3. /\ c \in Regs(i8) /\ (c.valid <=> v) /\ c.exp = s.exp /\ c.top = s.top /\ c.base = s.base
      /\ c.cperms = s.cperms /\ c.top_cor = s.top_cor /\ c.base_cor = s.base_cor
  BY <1>2 DEF Regs
<1>4. SameBounds(s, c)
  BY <1>3 DEF SameBounds
<1>5. /\ Good(i8, c, b)
      /\ reg2fullcap(c, b).base32 = reg2fullcap(s, b).base32
      /\ reg2fullcap(c, b).top33 = reg2fullcap(s, b).top33
  BY <1>1, <1>3, <1>4, SameShape
<1>6. PICK f, h : f = pcc2fullcap(p) /\ h = reg2fullcap(c, b)
  OBVIOUS
<1>7. (f.reg.valid <=> p.valid) /\ f.reg.otype = p.otype /\ f.perms = p.perms /\ f.top33 = p.top33 /\ f.base32 = p.base32
        /\ f.reg.exp = p.exp
  BY <1>6 DEF pcc2fullcap
<1>8. h.reg = c /\ h.perms = expand_perms(c.cperms)
  BY <1>6 DEF reg2fullcap
<1>9. ASSUME h.reg.valid
      PROVE  /\ f.reg.valid /\ ~is_cap_sealed(f.reg) /\ h.perms = f.perms
             /\ h.base32 = f.base32 /\ h.top33 = f.top33 /\ f.base32 <= f.top33
  <2>1. s.valid /\ p.valid /\ h.base32 = f.base32 /\ h.top33 = f.top33
    BY <1>1, <1>3, <1>5, <1>6, <1>7, <1>8, <1>9
  <2>2. f.reg.valid /\ ~is_cap_sealed(f.reg) /\ h.perms = f.perms
    BY <1>1, <1>3, <1>7, <1>8, <2>1 DEF GoodPcc, is_cap_sealed
  <2>3. PICK m \in Nat, n \in Nat : m <= n /\ p.base32 = m * 2^p.exp /\ p.top33 = n * 2^p.exp
    BY <2>1 DEF GoodPcc, Region
  <2>4. p.exp \in Nat
    BY ExponentsNat DEF GoodPcc, Pccs
  <2>5. PICK k \in Nat \ {0} : k = 2^p.exp
    BY <2>4, PowPositive
  <2>6. m * k <= n * k
    BY <2>3
  <2> QED
    BY <1>7, <2>1, <2>2, <2>3, <2>5, <2>6
<1>10. f.base32 \in Nat /\ f.top33 \in Nat
  BY <1>7 DEF GoodPcc, Pccs
<1>11. Narrower(f, h, kept, same)
  BY <1>9, <1>10 DEF Narrower
<1> QED
  BY <1>5, <1>6, <1>11

-----------------------------------------------------------------------------
(* The invariant, and each step                                            *)

\* In every place the capability is good, in the form it has there.
CapInv ==
    /\ it8 \in BOOLEAN /\ addr \in Addrs /\ at \in {"reg", "mem", "pcc", "scr"}
    /\ at \in {"reg", "scr"} => Good(it8, cap, addr)
    /\ at = "scr" /\ cap.valid => cap.otype = 0
    /\ at = "mem" => cap \in Nat /\ Good(it8, mem2regcap(it8, cap, addr, {}), addr)
    /\ at = "pcc" => GoodPcc(it8, cap)

\* The roots that the core has after reset are good.
LEMMA RootGood ==
    ASSUME NEW i8 \in BOOLEAN, NEW p \in 0 .. 63
    PROVE  Good(i8, Root(p), 0)
<1>1. PICK r : r = Root(p)
  OBVIOUS
<1>2. PICK h \in Nat, k \in Nat : h = Half /\ k = Mant /\ k = 2 * h /\ h >= 2 /\ h * 2^RESETEXP = Mem
  BY HalfIs, Widths
<1>3. RESETEXP \in Exponents(i8)
  <2>1. RESETEXP \in Nat /\ AllOnes \in Nat /\ RESETEXP < AllOnes
    BY Widths, WordLayout
  <2> QED
    BY <2>1 DEF Exponents
<1>4. r.exp = RESETEXP /\ r.top = h /\ r.base = 0 /\ r.valid /\ r.top_cor = 0 /\ r.base_cor = 0
  BY <1>1, <1>2 DEF Root, Half
<1>5. r \in Regs(i8)
  <2>1. h \in 0 .. Mant - 1 /\ 0 \in 0 .. Mant - 1 /\ 0 \in -1 .. 1 /\ 0 \in 0 .. 1 /\ 0 \in 0 .. 7
    BY <1>2
  <2> QED
    BY <1>1, <1>2, <1>3, <2>1 DEF Root, Regs, Half
<1>6. Corrected(r, 0) = r
  <2>1. PICK u : u = Field(0, RESETEXP, TOP_W)
    OBVIOUS
  <2>2. u \in Nat
    <3>1. u \in 0 .. 2^TOP_W - 1
      BY <2>1, Widths, FieldType
    <3>2. PICK w \in Nat : w = 2^TOP_W
      BY Widths DEF Mant
    <3> QED
      BY <3>1, <3>2
  <2>3. update_temp_fields(h, 0, u) = [top_cor |-> 0, base_cor |-> 0]
    <3>1. ~(h < 0) /\ ~(u < 0)
      BY <1>2, <2>2
    <3> QED
      BY <3>1 DEF update_temp_fields, Flag
  <2>4. Corrected(r, 0) = [r EXCEPT !.top_cor = 0, !.base_cor = 0]
    <3>1. PICK t : t = update_temp_fields(r.top, r.base, Field(0, r.exp, TOP_W))
      OBVIOUS
    <3>2. t = update_temp_fields(h, 0, u)
      BY <1>4, <2>1, <3>1
    <3>3. t.top_cor = 0 /\ t.base_cor = 0
      BY <2>3, <3>2
    <3>4. Corrected(r, 0) = [r EXCEPT !.top_cor = t.top_cor, !.base_cor = t.base_cor]
      BY <3>1 DEF Corrected
    <3> QED
      BY <3>3, <3>4
  <2>5. [r EXCEPT !.top_cor = 0, !.base_cor = 0] = r
    BY <1>4, <1>5 DEF Regs
  <2> QED
    BY <2>4, <2>5
<1>7. Sound(i8, r, 0, 0, h)
  <2>1. h % k = h /\ 0 % k = 0
    <3>1. h \in 0 .. k - 1 /\ 0 \in 0 .. k - 1 /\ k \in Nat \ {0}
      BY <1>2
    <3> QED
      BY <3>1, ModSmall
  <2>2. Region(RESETEXP, 0, h)
    <3>1. RESETEXP \in 0 .. RESETEXP /\ Mem \in Nat \ {0} /\ 2^RESETEXP \in Nat
      BY Widths, PowPositive
    <3>2. 0 * 2^RESETEXP = 0
      BY <3>1
    <3> QED
      BY <1>2, <3>1, <3>2 DEF Region
  <2>3. Reach(RESETEXP, 0, 0)
    BY DEF Reach
  <2> QED
    BY <1>2, <1>4, <2>1, <2>2, <2>3 DEF Sound
<1>8. \E m, n \in Nat : Sound(i8, r, 0, m, n)
  BY <1>2, <1>7
<1> QED
  BY <1>1, <1>5, <1>6, <1>8 DEF Good

\* The invariant holds after reset.
LEMMA InitCap == Init => CapInv
<1> SUFFICES ASSUME Init PROVE CapInv
  OBVIOUS
<1>1. it8 \in BOOLEAN /\ at = "reg" /\ addr = 0
  BY DEF Init
<1>2. PICK p \in 0 .. 63 : cap = Root(p)
  BY DEF Init, CPERMS_TX, CPERMS_TM, CPERMS_TS
<1>3. Good(it8, cap, addr)
  BY <1>1, <1>2, RootGood
<1>4. addr \in Addrs
  BY <1>1, AddrsAre, Widths
<1> QED
  BY <1>1, <1>3, <1>4 DEF CapInv

\* What a step must do: keep the invariant, and give nothing away.
StepOk == CapInv' /\ Narrower(Expanded, Expanded', at' # at \/ addr' # addr, addr' = addr)

\* A result in the register that is good and narrower keeps the invariant.
LEMMA RegResult ==
    ASSUME CapInv, NEW c, NEW a \in Addrs, Result(c, a), Good(it8, c, a),
           Narrower(reg2fullcap(cap, addr), reg2fullcap(c, a), a # addr, a = addr)
    PROVE  StepOk
<1>1. at = "reg" /\ at' = "reg" /\ cap' = c /\ addr' = a /\ it8' = it8
  BY DEF Result
<1>2. CapInv'
  BY <1>1 DEF CapInv
<1>3. Expanded = reg2fullcap(cap, addr)
  BY <1>1 DEF Expanded, fullcap
<1>4. Expanded' = reg2fullcap(c, a)
  BY <1>1 DEF Expanded, fullcap
<1>5. Narrower(Expanded, Expanded', at' # at \/ addr' # addr, addr' = addr)
  <2>1. (at' # at \/ addr' # addr) <=> (a # addr)
    BY <1>1
  <2>2. (addr' = addr) <=> (a = addr)
    BY <1>1
  <2> QED
    BY <1>3, <1>4, <2>1, <2>2 DEF Narrower
<1> QED
  BY <1>2, <1>5 DEF StepOk

\* CSetAddr, CIncAddr, CIncAddrImm and CAuicgp keep the invariant and give nothing away.
LEMMA CSetAddrOk == ASSUME CapInv, NEW a \in Addrs, CSetAddr(a) PROVE StepOk
<1>1. at = "reg" /\ Good(it8, cap, addr) /\ it8 \in BOOLEAN /\ addr \in Addrs
  BY DEF CSetAddr, Result, CapInv
<1>2. PICK c : c = Unsealed(full2regcap(set_address(reg2fullcap(cap, addr), a)), cap)
  OBVIOUS
<1>3. Result(c, a)
  BY <1>2 DEF CSetAddr, fullcap, Unsealed
<1>4. Good(it8, c, a) /\ Narrower(reg2fullcap(cap, addr), reg2fullcap(c, a), a # addr, a = addr)
  BY <1>1, <1>2, StepAddr
<1> QED
  BY <1>3, <1>4, RegResult

\* So do the instructions of the set-bounds family.
LEMMA BoundsOk ==
    ASSUME CapInv, NEW len \in Lengths,
           CSetBoundsRndn(len) \/ \E exact \in BOOLEAN : CSetBounds(len, exact)
    PROVE  StepOk
<1>1. at = "reg"
  BY DEF CSetBounds, CSetBoundsRndn, Result
<1>2. Good(it8, cap, addr) /\ it8 \in BOOLEAN /\ addr \in Addrs /\ len \in Addrs
  BY <1>1, OperandAssumption DEF CapInv
<1>3. PICK f, q : f = reg2fullcap(cap, addr) /\ q = prep_bound_req(it8, f, addr, len)
  OBVIOUS
<1>a. PICK c : /\ \/ \E exact \in BOOLEAN : c = Unsealed(set_bounds(f, addr, q, exact), cap)
                 \/ c = Unsealed(set_bounds_rndn(it8, f, addr, q), cap)
              /\ Result(c, addr)
  <2>1. CASE CSetBoundsRndn(len)
    BY <1>3, <2>1 DEF CSetBoundsRndn, fullcap, Unsealed
  <2>2. CASE \E exact \in BOOLEAN : CSetBounds(len, exact)
    <3>1. PICK exact \in BOOLEAN : CSetBounds(len, exact)
      BY <2>2
    <3>2. Result(Unsealed(set_bounds(f, addr, q, exact), cap), addr)
      BY <1>3, <3>1 DEF CSetBounds, fullcap, Unsealed
    <3> QED
      BY <3>2
  <2> QED
    BY <2>1, <2>2
<1>4. PICK exact \in BOOLEAN : \/ c = Unsealed(set_bounds(f, addr, q, exact), cap)
                               \/ c = Unsealed(set_bounds_rndn(it8, f, addr, q), cap)
  BY <1>a
<1>5. PICK kept \in BOOLEAN, same \in BOOLEAN : ~kept /\ same
  OBVIOUS
<1>6. Good(it8, c, addr) /\ Narrower(reg2fullcap(cap, addr), reg2fullcap(c, addr), kept, same)
  BY <1>2, <1>3, <1>4, <1>5, StepSetBounds
<1>7. Narrower(reg2fullcap(cap, addr), reg2fullcap(c, addr), addr # addr, addr = addr)
  BY <1>5, <1>6 DEF Narrower
<1> QED
  BY <1>2, <1>a, <1>6, <1>7, RegResult

\* A result at the same address with the same bounds.
LEMMA SameResult ==
    ASSUME CapInv, NEW v \in BOOLEAN, NEW o \in 0 .. 7, NEW p \in 0 .. 63,
           NEW c, c = [cap EXCEPT !.cperms = p, !.otype = o, !.valid = v], Result(c, addr),
           v => cap.valid /\ expand_perms(p) \subseteq expand_perms(cap.cperms),
           v /\ cap.otype # 0 /\ o # 0 => expand_perms(cap.cperms) \ expand_perms(p) \subseteq {"GL"}
    PROVE  StepOk
<1>1. Good(it8, cap, addr) /\ it8 \in BOOLEAN /\ addr \in Addrs
  BY DEF CapInv, Result
<1>2. PICK kept \in BOOLEAN, same \in BOOLEAN : ~kept /\ same
  OBVIOUS
<1>3. Good(it8, c, addr) /\ Narrower(reg2fullcap(cap, addr), reg2fullcap(c, addr), kept, same)
  <2>1. Lesser(cap, c, v, o, p)
    BY DEF Lesser
  <2> QED
    BY <1>1, <1>2, <2>1, StepSame
<1>4. Narrower(reg2fullcap(cap, addr), reg2fullcap(c, addr), addr # addr, addr = addr)
  BY <1>2, <1>3 DEF Narrower
<1> QED
  BY <1>1, <1>3, <1>4, RegResult

\* The types of a capability in a register.
LEMMA RegCap ==
    ASSUME CapInv, at = "reg"
    PROVE  cap \in Regs(it8) /\ cap.valid \in BOOLEAN /\ cap.otype \in 0 .. 7 /\ cap.cperms \in 0 .. 63
<1>1. cap \in Regs(it8)
  BY DEF CapInv, Good
<1> QED
  BY <1>1 DEF Regs

\* CAndPerm: a sealed capability loses its tag, or at most GL.
LEMMA CAndPermOk == ASSUME CapInv, NEW mask \in Masks, CAndPerm(mask) PROVE StepOk
<1>1. at = "reg"
  BY DEF CAndPerm, Result
<1>2. cap \in Regs(it8) /\ cap.valid \in BOOLEAN /\ cap.otype \in 0 .. 7 /\ cap.cperms \in 0 .. 63
  BY <1>1, RegCap
<1>3. PICK q, p, o : q = expand_perms(cap.cperms) \cap mask /\ p = compress_perms(q) /\ o = cap.otype
  OBVIOUS
<1>4. PICK v \in BOOLEAN : v = (cap.valid /\ (~is_cap_sealed(cap) \/ AllPerms \subseteq mask \cup {"GL"}))
                            /\ (v <=> cap.valid /\ (~is_cap_sealed(cap) \/ AllPerms \subseteq mask \cup {"GL"}))
  BY <1>2
<1>5. PICK c : c = [cap EXCEPT !.cperms = p, !.valid = v]
  OBVIOUS
<1>6. Result(c, addr)
  BY <1>3, <1>4, <1>5 DEF CAndPerm
<1>7. c = [cap EXCEPT !.cperms = p, !.otype = o, !.valid = v]
  BY <1>2, <1>3, <1>5 DEF Regs
<1>8. p \in 0 .. 63 /\ expand_perms(p) \subseteq q
  BY <1>3, PermsShrink
<1>9. ASSUME v, cap.otype # 0 PROVE expand_perms(cap.cperms) \ expand_perms(p) \subseteq {"GL"}
  <2>1. AllPerms \subseteq mask \cup {"GL"}
    BY <1>4, <1>9 DEF is_cap_sealed
  <2>2. expand_perms(cap.cperms) \subseteq AllPerms
    BY <1>2, PermsType
  <2>3. q = expand_perms(cap.cperms) \/ q = expand_perms(cap.cperms) \ {"GL"}
    BY <1>3, <2>1, <2>2
  <2>4. expand_perms(compress_perms(q)) = q
    BY <1>2, <2>3, PermsKept
  <2> QED
    BY <1>3, <2>3, <2>4
<1> QED
  BY <1>2, <1>3, <1>4, <1>6, <1>7, <1>8, <1>9, SameResult

\* CSeal: only the type changes, and the tag goes unless it is allowed.
LEMMA CSealOk == ASSUME CapInv, NEW otype \in Otypes, NEW allowed \in BOOLEAN, CSeal(otype, allowed) PROVE StepOk
<1>1. at = "reg"
  BY DEF CSeal, Result
<1>2. cap \in Regs(it8) /\ cap.valid \in BOOLEAN /\ cap.otype \in 0 .. 7 /\ cap.cperms \in 0 .. 63
  BY <1>1, RegCap
<1>3. otype \in 0 .. 7
  BY OperandAssumption
<1>4. PICK v \in BOOLEAN : v = (cap.valid /\ allowed) /\ (v <=> cap.valid /\ allowed)
  BY <1>2
<1>5. PICK p : p = cap.cperms
  OBVIOUS
<1>6. PICK c : c = [cap EXCEPT !.otype = otype, !.valid = v]
  OBVIOUS
<1>7. Result(c, addr)
  BY <1>4, <1>6 DEF CSeal
<1>8. c = [cap EXCEPT !.cperms = p, !.otype = otype, !.valid = v]
  BY <1>2, <1>5, <1>6 DEF Regs
<1>9. expand_perms(cap.cperms) \ expand_perms(p) \subseteq {"GL"} /\ expand_perms(p) \subseteq expand_perms(cap.cperms)
  BY <1>5
<1> QED
  BY <1>2, <1>3, <1>4, <1>5, <1>7, <1>8, <1>9, SameResult

\* CUnseal: permissions that came from a code are kept but for GL.
LEMMA CUnsealOk == ASSUME CapInv, NEW global \in BOOLEAN, NEW allowed \in BOOLEAN, CUnseal(global, allowed) PROVE StepOk
<1>1. at = "reg"
  BY DEF CUnseal, Result
<1>2. cap \in Regs(it8) /\ cap.valid \in BOOLEAN /\ cap.otype \in 0 .. 7 /\ cap.cperms \in 0 .. 63
  BY <1>1, RegCap
<1>3. PICK v \in BOOLEAN : v = (cap.valid /\ allowed) /\ (v <=> cap.valid /\ allowed)
  BY <1>2
<1>4. PICK q, p : q = (IF global THEN expand_perms(cap.cperms) ELSE expand_perms(cap.cperms) \ {"GL"}) /\ p = compress_perms(q)
  OBVIOUS
<1>5. PICK o \in 0 .. 7 : o = 0
  OBVIOUS
<1>6. PICK c : c = [cap EXCEPT !.otype = 0, !.valid = v, !.cperms = p]
  OBVIOUS
<1>7. Result(c, addr)
  BY <1>3, <1>4, <1>6 DEF CUnseal
<1>8. c = [cap EXCEPT !.cperms = p, !.otype = o, !.valid = v]
  BY <1>2, <1>5, <1>6 DEF Regs
<1>9. p \in 0 .. 63 /\ expand_perms(p) \subseteq expand_perms(cap.cperms)
  <2>1. p \in 0 .. 63 /\ expand_perms(p) \subseteq q
    BY <1>4, PermsShrink
  <2>2. q \subseteq expand_perms(cap.cperms)
    BY <1>4
  <2> QED
    BY <2>1, <2>2
<1> QED
  BY <1>2, <1>3, <1>5, <1>7, <1>8, <1>9, SameResult

\* CClearTag: all but the tag is kept.
LEMMA CClearTagOk == ASSUME CapInv, CClearTag PROVE StepOk
<1>1. at = "reg"
  BY DEF CClearTag, Result
<1>2. cap \in Regs(it8) /\ cap.otype \in 0 .. 7 /\ cap.cperms \in 0 .. 63
  BY <1>1, RegCap
<1>3. PICK o \in 0 .. 7, p \in 0 .. 63, v \in BOOLEAN : o = cap.otype /\ p = cap.cperms /\ v = FALSE /\ ~v
  BY <1>2
<1>4. PICK c : c = [cap EXCEPT !.valid = FALSE]
  OBVIOUS
<1>5. Result(c, addr)
  BY <1>4 DEF CClearTag
<1>6. c = [cap EXCEPT !.cperms = p, !.otype = o, !.valid = v]
  BY <1>2, <1>3, <1>4 DEF Regs
<1> QED
  BY <1>3, <1>5, <1>6, SameResult

\* CSetHigh: the tag is gone, whatever the word.
LEMMA CSetHighOk == ASSUME CapInv, NEW high \in Highs, CSetHigh(high) PROVE StepOk
<1>1. PICK W \in 0 .. 2^TAG - 1 : W = high
  BY OperandAssumption
<1>2. PICK c : c = mem2regcap(it8, W, addr, {})
  OBVIOUS
<1>3. Result(c, addr) /\ it8 \in BOOLEAN /\ addr \in Addrs
  BY <1>1, <1>2 DEF CSetHigh, CapInv
<1>4. Good(it8, c, addr) /\ Narrower(reg2fullcap(cap, addr), reg2fullcap(c, addr), addr # addr, addr = addr)
  BY <1>2, <1>3, StepHigh
<1> QED
  BY <1>3, <1>4, RegResult

\* A store of a capability, local ones without the authority for them losing the tag.
LEMMA CStoreCapOk == ASSUME CapInv, NEW slc \in BOOLEAN, CStoreCap(slc) PROVE StepOk
<1>1. at = "reg" /\ at' = "mem" /\ addr' = addr /\ it8' = it8
  BY DEF CStoreCap, Moved
<1>2. Good(it8, cap, addr) /\ it8 \in BOOLEAN /\ addr \in Addrs /\ cap.valid \in BOOLEAN
  BY <1>1, RegCap DEF CapInv
<1>3. PICK v \in BOOLEAN : v = (cap.valid /\ ~slc) /\ (v <=> cap.valid /\ ~slc)
  BY <1>2
<1>4. PICK W : W = reg2memcap(it8, [cap EXCEPT !.valid = v])
  OBVIOUS
<1>5. cap' = W
  BY <1>3, <1>4 DEF CStoreCap, Moved
<1>6. Stored(it8, cap, addr, v, W)
  BY <1>2, <1>3, <1>4 DEF Stored
<1>7. PICK kept \in BOOLEAN, same \in BOOLEAN : kept /\ same
  OBVIOUS
<1>8. /\ W \in Nat /\ Good(it8, mem2regcap(it8, W, addr, {}), addr)
      /\ Narrower(reg2fullcap(cap, addr), reg2fullcap(mem2regcap(it8, W, addr, {}), addr), kept, same)
  BY <1>2, <1>6, <1>7, StepStore
<1>9. CapInv'
  BY <1>1, <1>2, <1>5, <1>8 DEF CapInv
<1>10. Expanded = reg2fullcap(cap, addr)
  BY <1>1 DEF Expanded, fullcap
<1>11. Expanded' = reg2fullcap(mem2regcap(it8, W, addr, {}), addr)
  BY <1>1, <1>5 DEF Expanded
<1>12. Narrower(Expanded, Expanded', at' # at \/ addr' # addr, addr' = addr)
  BY <1>1, <1>7, <1>8, <1>10, <1>11 DEF Narrower
<1> QED
  BY <1>9, <1>12 DEF StepOk

\* A load of a capability, with what its authority lacks cleared.
LEMMA CLoadCapOk == ASSUME CapInv, NEW clr, CLoadCap(clr) PROVE StepOk
<1>1. at = "mem" /\ at' = "reg" /\ addr' = addr /\ it8' = it8 /\ cap' = mem2regcap(it8, cap, addr, clr)
  BY DEF CLoadCap, Moved
<1>2. cap \in Nat /\ Good(it8, mem2regcap(it8, cap, addr, {}), addr) /\ it8 \in BOOLEAN /\ addr \in Addrs
  BY <1>1 DEF CapInv
<1>3. PICK kept \in BOOLEAN, same \in BOOLEAN : kept /\ same
  OBVIOUS
<1>4. /\ Good(it8, mem2regcap(it8, cap, addr, clr), addr)
      /\ Narrower(reg2fullcap(mem2regcap(it8, cap, addr, {}), addr), reg2fullcap(mem2regcap(it8, cap, addr, clr), addr), kept, same)
  BY <1>2, <1>3, StepLoad
<1>5. CapInv'
  BY <1>1, <1>2, <1>4 DEF CapInv
<1>6. Expanded = reg2fullcap(mem2regcap(it8, cap, addr, {}), addr)
  BY <1>1 DEF Expanded
<1>7. Expanded' = reg2fullcap(mem2regcap(it8, cap, addr, clr), addr)
  BY <1>1 DEF Expanded, fullcap
<1>8. Narrower(Expanded, Expanded', at' # at \/ addr' # addr, addr' = addr)
  BY <1>1, <1>3, <1>4, <1>6, <1>7 DEF Narrower
<1> QED
  BY <1>5, <1>8 DEF StepOk

\* A capability that becomes the program counter's, from a register or from MTCC or
\* MEPCC.
LEMMA ToPccOk ==
    ASSUME CapInv, at \in {"reg", "scr"}, NEW o \in 0 .. 7, cap.valid => o = 0,
           at' = "pcc", addr' = 0, it8' = it8,
           cap' = [valid |-> cap.valid, exp |-> cap.exp, top33 |-> reg2fullcap(cap, addr).top33,
                   base32 |-> reg2fullcap(cap, addr).base32, otype |-> o, perms |-> reg2fullcap(cap, addr).perms,
                   cperms |-> cap.cperms]
    PROVE  StepOk
<1>1. Good(it8, cap, addr) /\ it8 \in BOOLEAN /\ addr \in Addrs
  BY DEF CapInv
<1>2. PICK p : p = [valid |-> cap.valid, exp |-> cap.exp, top33 |-> reg2fullcap(cap, addr).top33,
                   base32 |-> reg2fullcap(cap, addr).base32, otype |-> o, perms |-> reg2fullcap(cap, addr).perms,
                   cperms |-> cap.cperms]
  OBVIOUS
<1>3. PICK kept, same : kept = (at' # at \/ addr' # addr) /\ same = (addr' = addr)
  OBVIOUS
<1>4. GoodPcc(it8, p) /\ Narrower(reg2fullcap(cap, addr), pcc2fullcap(p), kept, same)
  BY <1>1, <1>2, StepToPcc
<1>5. 0 \in Addrs
  BY AddrsAre, Widths
<1>6. cap' = p
  BY <1>2
<1>7. CapInv'
  BY <1>1, <1>4, <1>5, <1>6 DEF CapInv
<1>8. Expanded = reg2fullcap(cap, addr) /\ Expanded' = pcc2fullcap(p)
  BY <1>6 DEF Expanded, fullcap
<1> QED
  BY <1>3, <1>4, <1>7, <1>8 DEF StepOk

\* CJALR: the capability jumped to, unsealed by the jump if it is a sentry.
LEMMA CJALROk == ASSUME CapInv, CJALR PROVE StepOk
<1>1. at = "reg" /\ at' = "pcc" /\ addr' = 0 /\ it8' = it8 /\ cap' = full2pcap([fullcap EXCEPT !.reg.otype = 0])
  BY DEF CJALR, Moved
<1>2. PICK o \in 0 .. 7 : o = 0
  OBVIOUS
<1>3. cap \in Regs(it8)
  BY <1>1, RegCap
<1>4. cap' = [valid |-> cap.valid, exp |-> cap.exp, top33 |-> reg2fullcap(cap, addr).top33,
                   base32 |-> reg2fullcap(cap, addr).base32, otype |-> o, perms |-> reg2fullcap(cap, addr).perms,
                   cperms |-> cap.cperms]
  BY <1>1, <1>2, <1>3 DEF full2pcap, fullcap, reg2fullcap, Regs
<1> QED
  BY <1>1, <1>2, <1>4, ToPccOk

\* A trap or a return, which takes MTCC or MEPCC into the program counter.
LEMMA RedirectOk == ASSUME CapInv, Redirect PROVE StepOk
<1>1. at = "scr" /\ at' = "pcc" /\ addr' = 0 /\ it8' = it8 /\ cap' = full2pcap(fullcap)
  BY DEF Redirect, Moved
<1>2. cap \in Regs(it8) /\ (cap.valid => cap.otype = 0)
  BY <1>1 DEF CapInv, Good
<1>3. PICK o \in 0 .. 7 : o = cap.otype
  BY <1>2 DEF Regs
<1>4. cap' = [valid |-> cap.valid, exp |-> cap.exp, top33 |-> reg2fullcap(cap, addr).top33,
                   base32 |-> reg2fullcap(cap, addr).base32, otype |-> o, perms |-> reg2fullcap(cap, addr).perms,
                   cperms |-> cap.cperms]
  BY <1>1, <1>3 DEF full2pcap, fullcap, reg2fullcap
<1> QED
  BY <1>1, <1>2, <1>3, <1>4, ToPccOk

\* The program counter's capability in a register or MEPCC.
LEMMA FromPccOk ==
    ASSUME CapInv, at = "pcc", at' \in {"reg", "scr"}, it8' = it8, NEW a \in Addrs, addr' = a,
           NEW s, s = full2regcap(set_address(pcc2fullcap(cap), a)), NEW o \in 0 .. 7, NEW v \in BOOLEAN, v => s.valid,
           cap' = [s EXCEPT !.otype = o, !.valid = v], at' = "scr" => o = s.otype
    PROVE  StepOk
<1>1. GoodPcc(it8, cap) /\ it8 \in BOOLEAN
  BY DEF CapInv
<1>2. PICK c : c = [s EXCEPT !.otype = o, !.valid = v]
  OBVIOUS
<1>3. PICK kept, same : kept = (at' # at \/ addr' # addr) /\ same = (addr' = addr)
  OBVIOUS
<1>4. Good(it8, c, a) /\ Narrower(pcc2fullcap(cap), reg2fullcap(c, a), kept, same)
  BY <1>1, <1>2, StepFromPccTo
<1>5. cap' = c
  BY <1>2
<1>6. at' = "scr" /\ c.valid => c.otype = 0
  <2>1. s \in Regs(it8) /\ s.otype = cap.otype /\ (s.valid => cap.valid)
    BY <1>1, StepFromPcc DEF Good
  <2>2. (c.valid <=> v) /\ c.otype = o
    BY <1>2, <2>1 DEF Regs
  <2>3. cap.valid => cap.otype = 0
    BY <1>1 DEF GoodPcc
  <2> QED
    BY <2>1, <2>2, <2>3
<1>7. CapInv'
  BY <1>1, <1>4, <1>5, <1>6 DEF CapInv
<1>8. Expanded = pcc2fullcap(cap)
  BY DEF Expanded
<1>9. Expanded' = reg2fullcap(c, a)
  BY <1>5 DEF Expanded, fullcap
<1> QED
  BY <1>3, <1>4, <1>7, <1>8, <1>9 DEF StepOk

\* CAUIPCC, and the link of CJAL and CJALR.
LEMMA CAUIPCCOk == ASSUME CapInv, NEW a \in Addrs, NEW otype \in {0, 4, 5}, CAUIPCC(a, otype) PROVE StepOk
<1>1. PICK s : s = full2regcap(set_address(pcc2fullcap(cap), a))
  OBVIOUS
<1>2. at = "pcc" /\ at' = "reg" /\ addr' = a /\ it8' = it8 /\ cap' = [s EXCEPT !.otype = IF otype = 0 THEN s.otype ELSE otype]
  BY <1>1 DEF CAUIPCC, Moved
<1>3. GoodPcc(it8, cap) /\ it8 \in BOOLEAN
  BY <1>2 DEF CapInv
<1>4. s \in Regs(it8)
  BY <1>1, <1>3, StepFromPcc DEF Good
<1>5. PICK o \in 0 .. 7, v \in BOOLEAN : o = (IF otype = 0 THEN s.otype ELSE otype) /\ v = s.valid /\ (v <=> s.valid)
  BY <1>4 DEF Regs
<1>6. cap' = [s EXCEPT !.otype = o, !.valid = v]
  BY <1>2, <1>4, <1>5 DEF Regs
<1>7. at' \in {"reg", "scr"} /\ (at' = "scr" => o = s.otype) /\ (v => s.valid) /\ it8' = it8 /\ addr' = a /\ at = "pcc"
  BY <1>2, <1>5
<1> QED
  BY <1>1, <1>6, <1>7, FromPccOk

\* MEPCC as a trap saves it.
LEMMA SaveCauseOk == ASSUME CapInv, NEW a \in Addrs, NEW clrtag \in BOOLEAN, SaveCause(a, clrtag) PROVE StepOk
<1>1. PICK s : s = full2regcap(set_address(pcc2fullcap(cap), a))
  OBVIOUS
<1>2. at = "pcc" /\ at' = "scr" /\ addr' = a /\ it8' = it8 /\ cap' = [s EXCEPT !.valid = s.valid /\ ~clrtag]
  BY <1>1 DEF SaveCause, Moved, pcc2mepcc
<1>3. GoodPcc(it8, cap) /\ it8 \in BOOLEAN
  BY <1>2 DEF CapInv
<1>4. s \in Regs(it8)
  BY <1>1, <1>3, StepFromPcc DEF Good
<1>5. PICK o \in 0 .. 7, v \in BOOLEAN : o = s.otype /\ v = (s.valid /\ ~clrtag) /\ (v <=> s.valid /\ ~clrtag)
  BY <1>4 DEF Regs
<1>6. cap' = [s EXCEPT !.otype = o, !.valid = v]
  BY <1>2, <1>4, <1>5 DEF Regs
<1> QED
  BY <1>1, <1>2, <1>5, <1>6, FromPccOk

\* CSpecialRW reads MTCC or MEPCC.
LEMMA ScrReadOk == ASSUME CapInv, ScrRead PROVE StepOk
<1>1. at = "scr" /\ at' = "reg" /\ addr' = addr /\ it8' = it8 /\ cap' = cap
  BY DEF ScrRead, Moved
<1>2. Good(it8, cap, addr) /\ it8 \in BOOLEAN /\ addr \in Addrs /\ addr \in Nat
  BY <1>1, AddrNat DEF CapInv
<1>3. CapInv'
  BY <1>1 DEF CapInv
<1>4. Expanded = reg2fullcap(cap, addr) /\ Expanded' = reg2fullcap(cap, addr)
  BY <1>1 DEF Expanded, fullcap
<1>5. PICK kept, same : kept = (at' # at \/ addr' # addr) /\ same = (addr' = addr)
  OBVIOUS
<1>6. Narrower(reg2fullcap(cap, addr), reg2fullcap(cap, addr), kept, same)
  BY <1>1, <1>2, <1>5, KeepReg
<1> QED
  BY <1>3, <1>4, <1>5, <1>6 DEF StepOk

\* A write of MTCC or MEPCC, on any register: the tag goes if the address had to be
\* aligned or the capability is sealed.
LEMMA StepScrWrite ==
    ASSUME NEW i8 \in BOOLEAN, NEW r, NEW a \in Addrs, Good(i8, r, a), NEW b \in Addrs, NEW v \in BOOLEAN,
           v => r.valid /\ b = a /\ r.otype = 0,
           NEW s, s = full2regcap(set_address(reg2fullcap(r, a), b)), NEW c, c = [s EXCEPT !.valid = v],
           NEW kept, NEW same
    PROVE  /\ Good(i8, c, b) /\ Narrower(reg2fullcap(r, a), reg2fullcap(c, b), kept, same)
           /\ c.valid => c.otype = 0
<1>1. a \in Nat /\ b \in Nat
  BY AddrNat
<1>2. PICK f : f = reg2fullcap(r, a)
  OBVIOUS
<1>3. PICK t, d, p : t = f.top33 /\ d = f.base32 /\ p = expand_perms(r.cperms)
  OBVIOUS
<1>4. f = [reg |-> r, perms |-> p, top33 |-> t, base32 |-> d]
        /\ (r.valid => \E m, n \in Nat : Holds(i8, r, d, t, m, n))
  BY <1>1, <1>2, <1>3, ExpandedIs
<1>5. PICK w : w = full2regcap(set_address([reg |-> r, perms |-> p, top33 |-> t, base32 |-> d], b))
  OBVIOUS
<1>6. r \in Regs(i8) /\ Corrected(r, a) = r
  BY DEF Good
<1>7. Good(i8, w, b)
  BY <1>4, <1>5, <1>6, SetAddress
<1>8. s = w
  BY <1>2, <1>4, <1>5
<1>9. CASE ~v
  <2>1. Retagged(i8, s, b, v, c)
    BY <1>7, <1>8, <1>9 DEF Retagged
  <2>2. Good(i8, c, b) /\ (c.valid <=> v)
    BY <2>1, Retag
  <2>3. Narrower(reg2fullcap(r, a), reg2fullcap(c, b), kept, same)
    BY <1>1, <1>9, <2>2, KeepReg
  <2> QED
    BY <1>9, <2>2, <2>3
<1>10. CASE v
  <2>1. r.valid /\ b = a /\ r.otype = 0
    BY <1>10
  <2>2. PICK u : u = (r.valid /\ Representable(f, b))
    OBVIOUS
  <2>3. s = [r EXCEPT !.valid = u]
    BY <1>2, <1>4, <1>6, <2>1, <2>2 DEF full2regcap, set_address
  <2>4. c = [r EXCEPT !.valid = v]
    BY <1>6, <2>3 DEF Regs
  <2>5. Retagged(i8, r, a, v, c)
    <3>1. Good(i8, r, a) /\ v \in BOOLEAN /\ (v => r.valid)
      OBVIOUS
    <3> QED
      BY <2>4, <3>1 DEF Retagged
  <2>6. /\ Good(i8, c, a) /\ c.otype = r.otype /\ c.cperms = r.cperms
        /\ reg2fullcap(c, a).base32 = reg2fullcap(r, a).base32
        /\ reg2fullcap(c, a).top33 = reg2fullcap(r, a).top33
    <3>1. i8 \in BOOLEAN
      OBVIOUS
    <3> QED
      BY ONLY <2>5, <3>1, Retag
  <2>7. ~is_cap_sealed(r)
    BY <2>1 DEF is_cap_sealed
  <2>8. Narrower(reg2fullcap(r, a), reg2fullcap(c, a), kept, same)
    BY <1>1, <2>1, <2>6, <2>7, KeepReg
  <2> QED
    BY <2>1, <2>6, <2>8
<1> QED
  BY <1>9, <1>10

\* CSpecialRW writes MTCC, aligned to 4, or MEPCC, to 2.
LEMMA ScrWriteOk == ASSUME CapInv, NEW align \in {2, 4}, ScrWrite(align) PROVE StepOk
<1>1. PICK a : a = addr - (addr % align)
  OBVIOUS
<1>2. PICK s : s = full2regcap(set_address(reg2fullcap(cap, addr), a))
  OBVIOUS
<1>3. PICK v \in BOOLEAN :
         /\ v = (cap.valid /\ addr % align = 0 /\ "EX" \in fullcap.perms /\ cap.otype = 0)
         /\ v => cap.valid /\ addr % align = 0 /\ cap.otype = 0
  OBVIOUS
<1>4. PICK c : c = [s EXCEPT !.valid = v]
  OBVIOUS
<1>5. at = "reg" /\ at' = "scr" /\ addr' = a /\ it8' = it8 /\ cap' = c
  BY <1>1, <1>2, <1>3, <1>4 DEF ScrWrite, Moved, fullcap
<1>6. Good(it8, cap, addr) /\ it8 \in BOOLEAN /\ addr \in Addrs
  BY <1>5 DEF CapInv
<1>7. a \in Addrs /\ (v => a = addr)
  <2>1. PICK M \in Nat : Addrs = 0 .. M - 1 /\ addr \in 0 .. M - 1
    BY <1>6, AddrsAre, Widths
  <2> QED
    BY <1>1, <1>3, <2>1
<1>8. PICK kept, same : kept = (at' # at \/ addr' # addr) /\ same = (addr' = addr)
  OBVIOUS
<1>9. v => cap.valid /\ a = addr /\ cap.otype = 0
  BY <1>3, <1>7
<1>10. /\ Good(it8, c, a) /\ Narrower(reg2fullcap(cap, addr), reg2fullcap(c, a), kept, same)
       /\ c.valid => c.otype = 0
  <2>1. v \in BOOLEAN
    OBVIOUS
  <2> QED
    BY ONLY <1>2, <1>4, <1>6, <1>7, <1>9, <2>1, StepScrWrite
<1>11. CapInv'
  BY <1>5, <1>6, <1>7, <1>10 DEF CapInv
<1>12. Expanded = reg2fullcap(cap, addr) /\ Expanded' = reg2fullcap(c, a)
  BY <1>5 DEF Expanded, fullcap
<1> QED
  BY <1>8, <1>10, <1>11, <1>12 DEF StepOk

\* Every step keeps the invariant and gives nothing away.
LEMMA NextOk == ASSUME CapInv, Next PROVE StepOk
<1>1. CASE \E a \in Addrs : CSetAddr(a)
  BY <1>1, CSetAddrOk
<1>2. CASE \E len \in Lengths : CSetBoundsRndn(len) \/ \E exact \in BOOLEAN : CSetBounds(len, exact)
  BY <1>2, BoundsOk
<1>3. CASE \E mask \in Masks : CAndPerm(mask)
  BY <1>3, CAndPermOk
<1>4. CASE \E otype \in Otypes, allowed \in BOOLEAN : CSeal(otype, allowed)
  BY <1>4, CSealOk
<1>5. CASE \E global, allowed \in BOOLEAN : CUnseal(global, allowed)
  BY <1>5, CUnsealOk
<1>6. CASE CClearTag
  BY <1>6, CClearTagOk
<1>7. CASE CJALR
  BY <1>7, CJALROk
<1>8. CASE \E high \in Highs : CSetHigh(high)
  BY <1>8, CSetHighOk
<1>9. CASE \E slc \in BOOLEAN : CStoreCap(slc)
  BY <1>9, CStoreCapOk
<1>10. CASE \E align \in {2, 4} : ScrWrite(align)
  BY <1>10, ScrWriteOk
<1>11. CASE \E clrperm \in SUBSET {"tag", "sdlm", "glg"} : CLoadCap(clrperm)
  BY <1>11, CLoadCapOk
<1>12. CASE \E a \in Addrs : \E otype \in {0, 4, 5} : CAUIPCC(a, otype)
  BY <1>12, CAUIPCCOk
<1>13. CASE \E a \in Addrs : \E clrtag \in BOOLEAN : SaveCause(a, clrtag)
  BY <1>13, SaveCauseOk
<1>14. CASE Redirect \/ ScrRead
  BY <1>14, RedirectOk, ScrReadOk
<1> QED
  BY <1>1, <1>2, <1>3, <1>4, <1>5, <1>6, <1>7, <1>8, <1>9, <1>10, <1>11, <1>12, <1>13, <1>14 DEF Next

\* The invariant is inductive.
LEMMA CapInvInductive == ASSUME CapInv, [Next]_vars PROVE CapInv'
<1>1. CASE Next
  BY <1>1, NextOk DEF StepOk
<1>2. CASE UNCHANGED vars
  BY <1>2 DEF vars, CapInv
<1> QED
  BY <1>1, <1>2

\* A capability with a tag has bounds that its encoding can say, in reach of its
\* address, wherever it is and whatever was done to it: cheri_ex.sv and
\* cheri_pkg.sv, for every width and every operand.
THEOREM CapabilityInvariant == Spec => []CapInv
<1>1. CapInv /\ [Next]_vars => CapInv'
  BY CapInvInductive
<1> QED
  BY <1>1, InitCap, PTL DEF Spec

\* No step widens bounds, adds a permission, gives a tag or changes what is sealed
\* (Monotone), for every width and every operand.
THEOREM MonotoneHolds == Spec => Monotone
<1> DEFINE Step == \A before \in {Expanded}, after \in {Expanded'} :
         after.reg.valid =>
             /\ before.reg.valid
             /\ before.base32 <= after.base32 /\ after.base32 <= after.top33 /\ after.top33 <= before.top33
             /\ after.perms \subseteq before.perms
             /\ at' # at \/ addr' # addr \/ is_cap_sealed(before.reg) =>
                    after.base32 = before.base32 /\ after.top33 = before.top33
             /\ is_cap_sealed(before.reg) /\ is_cap_sealed(after.reg) =>
                    addr' = addr /\ before.perms \ after.perms \subseteq {"GL"}
<1>1. CapInv /\ [Next]_vars => [Step]_vars
  <2>1. ASSUME CapInv, Next PROVE Step
    <3>1. Narrower(Expanded, Expanded', at' # at \/ addr' # addr, addr' = addr)
      BY <2>1, NextOk DEF StepOk
    <3> QED
      BY <3>1 DEF Narrower
  <2> QED
    BY <2>1
<1> QED
  BY <1>1, CapabilityInvariant, PTL DEF Spec, Monotone

-----------------------------------------------------------------------------
(* BoundsContract                                                          *)

\* A length takes no more units at an aligned address than anywhere else.
LEMMA MultipleUnits ==
    ASSUME NEW p \in Nat \ {0}, NEW a \in Nat, NEW len \in Nat
    PROVE  /\ Up(a + len, p) - (a \div p) >= Up(len, p)
           /\ a % p = 0 /\ len % p = 0 => (a + len) % p = 0 /\ Up(a + len, p) - (a \div p) = Up(len, p)
<1>1. PICK t \in Nat : t = a + len
  OBVIOUS
<1>2. PICK m \in Nat : m = a \div p /\ m * p <= a /\ (a % p = 0 => m * p = a)
  BY Down
<1>3. PICK n \in Nat : n = Up(t, p) /\ t <= n * p
  BY <1>1, UpIs
<1>4. len <= (n - m) * p
  <2>1. (n - m) * p = n * p - m * p
    BY <1>2, <1>3
  <2> QED
    BY <1>1, <1>2, <1>3, <2>1
<1>5. Up(len, p) <= n - m /\ Up(len, p) \in Nat
  <2>1. n - m \in Int
    BY <1>2, <1>3
  <2> QED
    BY <1>4, <2>1, UpIs
<1>6. ASSUME a % p = 0, len % p = 0 PROVE t % p = 0 /\ n - m <= Up(len, p)
  <2>1. PICK u \in Nat : u = Up(len, p) /\ u * p = len
    BY <1>6, UpIs
  <2>2. m * p = a
    BY <1>2, <1>6
  <2>3. PICK w \in Int : w = m + u
    BY <1>2, <2>1
  <2>4. t = w * p
    <3>1. (m + u) * p = m * p + u * p
      <4>1. m \in Int /\ u \in Int /\ p \in Int
        BY <1>2, <2>1
      <4> QED
        BY ONLY <4>1
    <3>2. m * p + u * p = a + len
      BY <2>1, <2>2
    <3> QED
      BY <1>1, <2>3, <3>1, <3>2
  <2>5. t % p = 0
    BY <2>3, <2>4, DivMult
  <2>6. n <= w
    <3>1. t <= w * p
      BY <1>1, <2>4
    <3> QED
      BY <1>1, <1>3, <2>3, <3>1, UpIs
  <2> QED
    BY <1>2, <1>3, <2>1, <2>3, <2>5, <2>6
<1>7. (a % p = 0 /\ len % p = 0) => t % p = 0 /\ n - m = Up(len, p)
  BY <1>2, <1>3, <1>5, <1>6
<1> QED
  BY <1>1, <1>2, <1>3, <1>5, <1>7

\* A length that CRRL leaves alone is a multiple of the unit.
LEMMA RoundedLength ==
    ASSUME NEW p \in Nat \ {0}, NEW k \in Nat, NEW M \in Nat \ {0}, M = k * p, NEW len \in Nat, len < M,
           (Up(len, p) * p) % M = len
    PROVE  len % p = 0
<1>1. PICK u \in Nat : u = Up(len, p) /\ len <= u * p /\ u * p < len + p /\ (\A x \in Int : len <= x * p => u <= x)
  BY UpIs
<1>2. u <= k
  BY <1>1
<1>3. PICK w \in Nat : w = u * p
  BY <1>1
<1>4. w <= M
  BY <1>1, <1>2, <1>3
<1>5. w % M = len
  BY <1>1, <1>3
<1>6. w = len
  <2>1. CASE w < M
    BY <1>5, <2>1
  <2>2. CASE w = M
    <3>1. len = 0
      BY <1>5, <2>2
    <3>2. u <= 0
      BY <1>1, <3>1
    <3>3. w = 0
      BY <1>1, <1>3, <3>2
    <3> QED
      BY <3>1, <3>3
  <2> QED
    BY <1>4, <2>1, <2>2
<1>7. (u * p) % p = 0
  BY <1>1, DivMult
<1> QED
  BY <1>3, <1>6, <1>7

\* A unit divides the memory.
LEMMA PowDivides == ASSUME NEW e \in 0 .. ADDR_W PROVE \E k \in Nat : Mem = k * 2^e
<1>1. e \in Nat /\ ADDR_W - e \in Nat /\ e + (ADDR_W - e) = ADDR_W
  BY Widths
<1>2. 2^ADDR_W = 2^e * 2^(ADDR_W - e) /\ 2^(ADDR_W - e) \in Nat /\ 2^e \in Nat
  BY <1>1, PowAdd, PowPositive
<1>3. Mem = 2^(ADDR_W - e) * 2^e
  BY <1>2 DEF Mem
<1> QED
  BY <1>2, <1>3

\* The units of a length at address 0, where CRRL and CRAM look.
LEMMA UnitsAtZero == ASSUME NEW len \in Nat, NEW e \in Nat PROVE Units(0, len, e) = Up(len, 2^e)
<1>1. PICK p \in Nat \ {0} : p = 2^e
  BY PowPositive
<1>2. 0 \div p = 0 /\ 0 + len = len
  BY <1>1
<1>3. Up(len, p) \in Nat
  BY UpIs
<1> QED
  BY <1>1, <1>2, <1>3 DEF Units

\* The exponent that CRRL and CRAM are told is the one that a length they name gets
\* at an address they allow.
LEMMA ExactExponent ==
    ASSUME NEW i8 \in BOOLEAN, NEW a \in Addrs, NEW len \in Addrs, NEW e, e = Exponent(i8, 0, len),
           NEW p, p = 2^e, a % p = 0, (Units(0, len, e) * p) % Mem = len
    PROVE  Exponent(i8, a, len) = e /\ (a + len) % p = 0
<1>1. a \in Nat /\ len \in Nat /\ len < Mem /\ Mem \in Nat \ {0} /\ 0 \in Addrs /\ Mant \in Nat
  BY AddrsAre, Widths
<1>2. e \in 0 .. ADDR_W /\ e \in Nat
  <2>1. e \in 0 .. RESETEXP
    BY <1>1, ExponentType
  <2>2. RESETEXP <= ADDR_W
    BY Widths
  <2> QED
    BY <2>1, <2>2, Widths
<1>3. PICK k \in Nat : Mem = k * p
  BY <1>2, PowDivides
<1>4. p \in Nat \ {0}
  BY <1>2, PowPositive
<1>5. (Up(len, p) * p) % Mem = len
  BY <1>1, <1>2, UnitsAtZero
<1>6. len % p = 0
  BY <1>1, <1>3, <1>4, <1>5, RoundedLength
<1>7. (a + len) % p = 0 /\ Up(a + len, p) - (a \div p) = Up(len, p)
  <2>1. p \in Nat \ {0} /\ a \in Nat /\ len \in Nat /\ a % p = 0 /\ len % p = 0
    BY <1>1, <1>4, <1>6
  <2> QED
    BY ONLY <2>1, MultipleUnits
<1>8. Units(a, len, e) = Units(0, len, e)
  BY <1>1, <1>2, <1>7, UnitsAtZero DEF Units
<1>9. PICK s, e1, e2 : s = get_size(len \div 2^TOP_W) /\ e1 = ExpFor(i8, s) /\ e2 = ExpFor(i8, s + 1)
  OBVIOUS
<1>10. e1 \in Nat
  BY <1>9, UnitsAre, Widths
<1>11. e = IF Units(0, len, e1) >= Mant THEN e2 ELSE e1
  BY <1>9 DEF Exponent
<1>12. Exponent(i8, a, len) = IF Units(a, len, e1) >= Mant THEN e2 ELSE e1
  BY <1>9 DEF Exponent
<1>13. Units(a, len, e1) >= Units(0, len, e1) /\ Units(a, len, e1) \in Nat /\ Units(0, len, e1) \in Nat
  <2>1. PICK x \in Nat \ {0} : x = 2^e1
    BY <1>10, PowPositive
  <2>2. Up(a + len, x) - (a \div x) >= Up(len, x)
    BY <1>1, MultipleUnits
  <2>3. 0 \in Nat
    OBVIOUS
  <2>4. Units(a, len, e1) \in Nat /\ Units(0, len, e1) \in Nat
    BY <1>1, <1>10, <2>3, UnitsNat
  <2> QED
    BY <1>1, <1>10, <2>1, <2>2, <2>4, UnitsAtZero DEF Units
<1>14. CASE Units(0, len, e1) >= Mant
  BY <1>1, <1>7, <1>11, <1>12, <1>13, <1>14
<1>15. CASE ~(Units(0, len, e1) >= Mant)
  BY <1>7, <1>8, <1>11, <1>12, <1>15
<1> QED
  BY <1>14, <1>15

\* What CRRL and CRAM give, in units.
LEMMA ForLengthIs ==
    ASSUME it8 \in BOOLEAN, NEW len \in Addrs
    PROVE  LET e == Exponent(it8, 0, len)
           IN  /\ ForLength(len).exp = e /\ ForLength(len).len = Units(0, len, e)
               /\ CRRL(len) = (Units(0, len, e) * 2^e) % Mem
               /\ 2^ADDR_W - CRAM(len) = 2^e
<1>1. 0 \in Addrs
  BY AddrsAre, Widths
<1>2. PICK e : e = Exponent(it8, 0, len)
  OBVIOUS
<1>3. PICK i8 \in BOOLEAN : i8 = it8
  OBVIOUS
<1>4. PICK f : f = NullCap
  OBVIOUS
<1>5. LET p == Chosen(0, prep_bound_req(i8, f, 0, len))
      IN  p.exp = Exponent(i8, 0, len) /\ p.len = Units(0, len, Exponent(i8, 0, len))
  BY <1>1, ChosenIs DEF Exponent
<1>6. ForLength(len).exp = e /\ ForLength(len).len = Units(0, len, e)
  BY <1>2, <1>3, <1>4, <1>5 DEF ForLength
<1>7. CRRL(len) = (Units(0, len, e) * 2^e) % Mem /\ CRAM(len) = Mem - 2^e
  BY <1>6 DEF CRRL, CRAM, Mem
<1>8. 2^e \in Nat /\ Mem \in Nat
  <2>1. e \in Nat
    BY <1>1, <1>2, ExponentType, Widths
  <2> QED
    BY <2>1, PowPositive, Widths
<1>9. Mem - CRAM(len) = 2^e
  BY <1>7, <1>8
<1> QED
  BY <1>2, <1>6, <1>7, <1>9 DEF Mem

\* What set_bounds and set_bounds_rndn promise within the root.
Promised(len) ==
        LET f == fullcap
            q == prep_bound_req(it8, f, addr, len)
            near == reg2fullcap(set_bounds(f, addr, q, FALSE), addr)
            exact == reg2fullcap(set_bounds(f, addr, q, TRUE), addr)
            down == reg2fullcap(set_bounds_rndn(it8, f, addr, q), addr)
        IN  /\ near.reg.valid /\ near.base32 <= addr /\ addr + len <= near.top33
            /\ exact.reg.valid => exact.base32 = addr /\ exact.top33 = addr + len
            /\ CRRL(len) = len /\ addr % (2^ADDR_W - CRAM(len)) = 0 => exact.reg.valid
            /\ down.reg.valid /\ down.base32 = addr /\ down.top33 <= addr + len
            /\ len > 0 => down.top33 > addr

\* The promises are kept, from the root, for any length at any address within it.
LEMMA PromiseKept ==
    ASSUME CapInv, at = "reg", cap.valid, fullcap.base32 = 0, fullcap.top33 = 2^ADDR_W,
           NEW len \in Addrs, addr + len <= 2^ADDR_W
    PROVE  Promised(len)
<1>1. Good(it8, cap, addr) /\ it8 \in BOOLEAN /\ addr \in Addrs /\ addr \in Nat /\ len \in Nat
  BY AddrNat DEF CapInv
<1>2. PICK f : f = fullcap
  OBVIOUS
<1>3. f.reg = cap /\ f.base32 = 0 /\ f.top33 = Mem /\ f.reg.valid /\ f = reg2fullcap(cap, addr)
  BY <1>2 DEF fullcap, reg2fullcap, Mem
<1>4. Fits(it8, f)
  <2>1. \E m, n \in Nat : Holds(it8, cap, f.base32, f.top33, m, n)
    BY <1>1, <1>3, ExpandedIs
  <2>2. cap \in Regs(it8)
    BY <1>1 DEF Good
  <2> QED
    BY <1>3, <2>1, <2>2 DEF Fits, Holds
<1>5. PICK q : q = prep_bound_req(it8, f, addr, len)
  OBVIOUS
<1>6. PICK rn, re, rd : rn = set_bounds(f, addr, q, FALSE) /\ re = set_bounds(f, addr, q, TRUE)
                          /\ rd = set_bounds_rndn(it8, f, addr, q)
  OBVIOUS
<1>7. PICK e, p : e = Exponent(it8, addr, len) /\ p = 2^e
  OBVIOUS
<1>8. p \in Nat \ {0}
  <2>1. e \in Nat
    BY <1>1, <1>7, ExponentType, Widths
  <2> QED
    BY <1>7, <2>1, PowPositive
<1>9. 0 <= addr /\ addr + len <= Mem /\ addr + len \in Nat
  BY <1>1 DEF Mem
<1>10. /\ rn.valid
       /\ reg2fullcap(rn, addr).base32 = (addr \div p) * p /\ reg2fullcap(rn, addr).top33 = Up(addr + len, p) * p
  <2>1. NearBounds(it8, f, addr, len, FALSE)
    BY <1>1, <1>4, SetBounds
  <2> QED
    BY <1>3, <1>5, <1>6, <1>7, <1>9, <2>1 DEF NearBounds
<1>11. /\ re.valid <=> (addr + len) % p = 0 /\ addr % p = 0
       /\ re.valid => /\ reg2fullcap(re, addr).base32 = (addr \div p) * p
                      /\ reg2fullcap(re, addr).top33 = Up(addr + len, p) * p
  <2>1. NearBounds(it8, f, addr, len, TRUE)
    BY <1>1, <1>4, SetBounds
  <2> QED
    BY <1>3, <1>5, <1>6, <1>7, <1>9, <2>1 DEF NearBounds
<1>12. /\ rd.valid /\ reg2fullcap(rd, addr).base32 = addr /\ reg2fullcap(rd, addr).top33 <= addr + len
       /\ len > 0 => addr < reg2fullcap(rd, addr).top33
  <2>1. InnerBounds(it8, f, addr, len)
    BY <1>1, <1>4, SetBoundsRndn
  <2> QED
    BY <1>3, <1>5, <1>6, <1>9, <2>1 DEF InnerBounds
<1>13. (addr \div p) * p <= addr /\ (addr % p = 0 => (addr \div p) * p = addr)
  BY <1>1, <1>8, Down
<1>14. addr + len <= Up(addr + len, p) * p /\ ((addr + len) % p = 0 => Up(addr + len, p) * p = addr + len)
  BY <1>8, <1>9, UpIs
<1>15. ASSUME CRRL(len) = len, addr % (2^ADDR_W - CRAM(len)) = 0 PROVE re.valid
  <2>1. PICK e0, p0 : e0 = Exponent(it8, 0, len) /\ p0 = 2^e0
    OBVIOUS
  <2>2. CRRL(len) = (Units(0, len, e0) * p0) % Mem /\ 2^ADDR_W - CRAM(len) = p0
    BY <1>1, <2>1, ForLengthIs
  <2>3. addr % p0 = 0 /\ (Units(0, len, e0) * p0) % Mem = len
    BY <1>15, <2>2
  <2>4. Exponent(it8, addr, len) = e0 /\ (addr + len) % p0 = 0
    BY <1>1, <2>1, <2>3, ExactExponent
  <2> QED
    BY <1>7, <1>11, <2>1, <2>3, <2>4
<1>16. PICK near, exact, down : near = reg2fullcap(rn, addr) /\ exact = reg2fullcap(re, addr)
                                  /\ down = reg2fullcap(rd, addr)
  OBVIOUS
<1>17. near.reg = rn /\ exact.reg = re /\ down.reg = rd
  BY <1>16 DEF reg2fullcap
<1>18. /\ near.reg.valid /\ near.base32 <= addr /\ addr + len <= near.top33
       /\ exact.reg.valid => exact.base32 = addr /\ exact.top33 = addr + len
       /\ CRRL(len) = len /\ addr % (2^ADDR_W - CRAM(len)) = 0 => exact.reg.valid
       /\ down.reg.valid /\ down.base32 = addr /\ down.top33 <= addr + len
       /\ len > 0 => down.top33 > addr
  <2>1. near.reg.valid /\ near.base32 <= addr /\ addr + len <= near.top33
    BY <1>10, <1>13, <1>14, <1>16, <1>17
  <2>2. exact.reg.valid => exact.base32 = addr /\ exact.top33 = addr + len
    BY <1>11, <1>13, <1>14, <1>16, <1>17
  <2>3. CRRL(len) = len /\ addr % (2^ADDR_W - CRAM(len)) = 0 => exact.reg.valid
    BY <1>15, <1>17
  <2>4. down.reg.valid /\ down.base32 = addr /\ down.top33 <= addr + len /\ (len > 0 => addr < down.top33)
    BY <1>12, <1>16, <1>17
  <2>5. down.top33 \in Int
    <3>1. Good(it8, rd, addr)
      BY <1>1, <1>4, <1>5, <1>6, SetBoundsRndn DEF InnerBounds
    <3>2. rd \in Regs(it8)
      BY <3>1 DEF Good
    <3> QED
      BY <1>1, <1>16, <3>2, BoundType
  <2> QED
    BY <1>1, <2>1, <2>2, <2>3, <2>4, <2>5
<1> QED
  BY <1>2, <1>5, <1>6, <1>16, <1>18 DEF Promised

\* What software relies on when it sets bounds (BoundsContract): the request is
\* covered, an exact result is exact, CRRL and CRAM say when it will be, and
\* CSetBoundsRoundDown keeps the base and gives no more.  For every width.
THEOREM BoundsContractHolds == Spec => []BoundsContract
<1>1. ASSUME CapInv PROVE BoundsContract
  <2> SUFFICES ASSUME at = "reg" /\ cap.valid /\ fullcap.base32 = 0 /\ fullcap.top33 = 2^ADDR_W /\ ~is_cap_sealed(cap)
               PROVE  \A len \in {l \in Addrs : addr + l <= 2^ADDR_W}, f \in {fullcap} :
                      \A q \in {prep_bound_req(it8, f, addr, len)} :
                      \A near \in {reg2fullcap(set_bounds(f, addr, q, FALSE), addr)},
                         exact \in {reg2fullcap(set_bounds(f, addr, q, TRUE), addr)},
                         down \in {reg2fullcap(set_bounds_rndn(it8, f, addr, q), addr)} :
                          /\ near.reg.valid /\ near.base32 <= addr /\ addr + len <= near.top33
                          /\ exact.reg.valid => exact.base32 = addr /\ exact.top33 = addr + len
                          /\ CRRL(len) = len /\ addr % (2^ADDR_W - CRAM(len)) = 0 => exact.reg.valid
                          /\ down.reg.valid /\ down.base32 = addr /\ down.top33 <= addr + len
                          /\ len > 0 => down.top33 > addr
    BY Zenon DEF BoundsContract
  <2> TAKE len \in {l \in Addrs : addr + l <= 2^ADDR_W}, f \in {fullcap}
  <2> TAKE q \in {prep_bound_req(it8, f, addr, len)}
  <2> TAKE near \in {reg2fullcap(set_bounds(f, addr, q, FALSE), addr)},
           exact \in {reg2fullcap(set_bounds(f, addr, q, TRUE), addr)},
           down \in {reg2fullcap(set_bounds_rndn(it8, f, addr, q), addr)}
  <2>1. len \in Addrs /\ addr + len <= 2^ADDR_W
    OBVIOUS
  <2>2. Promised(len)
    BY <1>1, <2>1, PromiseKept
  <2> QED
    BY <2>2 DEF Promised
<1> QED
  BY <1>1, CapabilityInvariant, PTL

-----------------------------------------------------------------------------
(* DecodersAgree                                                           *)

\* The powers of the wider permission words of compare_trace.py.
LEMMA MorePowers == 2^8 = 256 /\ 2^9 = 512 /\ 2^10 = 1024 /\ 2^11 = 2048
<1>1. 2^(7 + 1) = 2 * 2^7 /\ 2^(8 + 1) = 2 * 2^8 /\ 2^(9 + 1) = 2 * 2^9 /\ 2^(10 + 1) = 2 * 2^10
  BY PowSucc
<1> QED
  BY <1>1, SmallPowers

\* The script's bits for the permissions.
LEMMA TraceBits ==
    /\ Trace!GL = 1 /\ Trace!LG = 2 /\ Trace!SD = 4 /\ Trace!LM = 8 /\ Trace!SL = 16 /\ Trace!LD = 32
    /\ Trace!MC = 64 /\ Trace!SR = 128 /\ Trace!EX = 256 /\ Trace!US = 512 /\ Trace!SE = 1024 /\ Trace!U0 = 2048
BY SmallPowers, MorePowers
   DEF Trace!GL, Trace!LG, Trace!SD, Trace!LM, Trace!SL, Trace!LD, Trace!MC, Trace!SR, Trace!EX, Trace!US, Trace!SE, Trace!U0

\* The architectural permissions by name.
Names == {"GL", "LG", "SD", "LM", "SL", "LD", "MC", "SR", "EX", "US", "SE", "U0"}

\* The letters that Sail writes stand for one permission each.
LEMMA Letters ==
    ASSUME NEW q \in SUBSET Names
    PROVE  LET text == {SailLetter[p] : p \in q}
           IN  /\ "G" \in text <=> "GL" \in q
               /\ "R" \in text <=> "LD" \in q
               /\ "W" \in text <=> "SD" \in q
               /\ "c" \in text <=> "MC" \in q
               /\ "g" \in text <=> "LG" \in q
               /\ "m" \in text <=> "LM" \in q
               /\ "l" \in text <=> "SL" \in q
               /\ "X" \in text <=> "EX" \in q
               /\ "a" \in text <=> "SR" \in q
               /\ "S" \in text <=> "SE" \in q
               /\ "U" \in text <=> "US" \in q
               /\ "zero" \in text <=> "U0" \in q
<1>1. /\ SailLetter["GL"] = "G" /\ SailLetter["LD"] = "R" /\ SailLetter["SD"] = "W" /\ SailLetter["MC"] = "c"
      /\ SailLetter["LG"] = "g" /\ SailLetter["LM"] = "m" /\ SailLetter["SL"] = "l" /\ SailLetter["EX"] = "X"
      /\ SailLetter["SR"] = "a" /\ SailLetter["SE"] = "S" /\ SailLetter["US"] = "U" /\ SailLetter["U0"] = "zero"
  BY DEF SailLetter
<1>2. \A x : x \in {SailLetter[p] : p \in q} <=> \E p \in q : x = SailLetter[p]
  OBVIOUS
<1>3. \A p \in q : p \in Names
  OBVIOUS
<1> QED
  BY <1>1, <1>2, <1>3 DEF Names

\* The word of a set of permissions, as the script writes it.
Value(q) ==
    (IF "GL" \in q THEN 1 ELSE 0) + (IF "LD" \in q THEN 32 ELSE 0) + (IF "SD" \in q THEN 4 ELSE 0)
    + (IF "MC" \in q THEN 64 ELSE 0) + (IF "LG" \in q THEN 2 ELSE 0) + (IF "LM" \in q THEN 8 ELSE 0)
    + (IF "SL" \in q THEN 16 ELSE 0) + (IF "EX" \in q THEN 256 ELSE 0) + (IF "SR" \in q THEN 128 ELSE 0)
    + (IF "SE" \in q THEN 1024 ELSE 0) + (IF "US" \in q THEN 512 ELSE 0) + (IF "U0" \in q THEN 2048 ELSE 0)

\* parse_sail_perms gives the sum of the bits of a set.
LEMMA SailValue ==
    ASSUME NEW q \in SUBSET Names
    PROVE  Trace!parse_sail_perms({SailLetter[p] : p \in q}) = Value(q)
<1>1. PICK text : text = {SailLetter[p] : p \in q}
  OBVIOUS
<1>2. /\ "G" \in text <=> "GL" \in q
      /\ "R" \in text <=> "LD" \in q
      /\ "W" \in text <=> "SD" \in q
      /\ "c" \in text <=> "MC" \in q
      /\ "g" \in text <=> "LG" \in q
      /\ "m" \in text <=> "LM" \in q
      /\ "l" \in text <=> "SL" \in q
      /\ "X" \in text <=> "EX" \in q
      /\ "a" \in text <=> "SR" \in q
      /\ "S" \in text <=> "SE" \in q
      /\ "U" \in text <=> "US" \in q
      /\ "zero" \in text <=> "U0" \in q
  BY <1>1, Letters
<1>3. /\ Trace!Letter["G"] = 1 /\ Trace!Letter["R"] = 32 /\ Trace!Letter["W"] = 4 /\ Trace!Letter["c"] = 64
      /\ Trace!Letter["g"] = 2 /\ Trace!Letter["m"] = 8 /\ Trace!Letter["l"] = 16 /\ Trace!Letter["X"] = 256
      /\ Trace!Letter["a"] = 128 /\ Trace!Letter["S"] = 1024 /\ Trace!Letter["U"] = 512 /\ Trace!Letter["zero"] = 2048
  BY TraceBits DEF Trace!Letter
<1>4. Trace!parse_sail_perms(text) = Value(q)
  BY <1>2, <1>3 DEF Trace!parse_sail_perms, Value
<1> QED
  BY <1>1, <1>4

\* expand_perms of the script says of a code what that of cheri_pkg.sv says.
LEMMA IbexValue == ASSUME NEW c \in 0 .. 63 PROVE Trace!expand_perms(c) = Value(expand_perms(c))
<1>1. PICK g \in 0 .. 1, b0 \in 0 .. 1, b1 \in 0 .. 1, b2 \in 0 .. 1, l \in {0, 8, 16, 24} :
          c = 32 * g + l + b0 + b1 * 2 + b2 * 4
  BY Decompose
<1>2. PICK d \in 0 .. 31 : d = l + b0 + b1 * 2 + b2 * 4
  OBVIOUS
<1>3. c % 32 = d /\ c \div 32 = g
  BY <1>1, <1>2
<1>4. (d \div 1) % 2 = b0 /\ (d \div 2) % 2 = b1 /\ (d \div 4) % 2 = b2
  BY <1>2
<1>5. PICK q : q = expand_perms(c)
  OBVIOUS
<1>6. \A x : x \in q <=>
             \/ (x = "GL" /\ g = 1)
             \/ (l = 24 /\ (x \in {"LD", "MC", "SD"} \/ (x = "LG" /\ b0 = 1) \/ (x = "LM" /\ b1 = 1) \/ (x = "SL" /\ b2 = 1)))
             \/ (l = 16 /\ b2 = 1 /\ (x \in {"LD", "MC"} \/ (x = "LG" /\ b0 = 1) \/ (x = "LM" /\ b1 = 1)))
             \/ (l = 16 /\ b2 = 0 /\ b0 = 0 /\ b1 = 0 /\ x \in {"SD", "MC"})
             \/ (l = 16 /\ b2 = 0 /\ ((x = "SD" /\ b0 = 1) \/ (x = "LD" /\ b1 = 1)))
             \/ (l = 8 /\ (x \in {"EX", "MC", "LD"} \/ (x = "LG" /\ b0 = 1) \/ (x = "LM" /\ b1 = 1) \/ (x = "SR" /\ b2 = 1)))
             \/ (l = 0 /\ ((x = "US" /\ b0 = 1) \/ (x = "SE" /\ b1 = 1) \/ (x = "U0" /\ b2 = 1)))
  BY <1>1, <1>5, Meaning
<1>7. Trace!expand_perms(c) = g * 1 +
        (CASE d \div 8 = 3 -> b0 * 2 + b1 * 8 + b2 * 16 + 32 + 64 + 4
           [] d \div 4 = 5 -> b0 * 2 + b1 * 8 + 32 + 64
           [] d = 16 -> 4 + 64
           [] d \div 4 = 4 /\ d # 16 -> b0 * 4 + b1 * 32
           [] d \div 8 = 1 -> b0 * 2 + b1 * 8 + b2 * 128 + 256 + 64 + 32
           [] d \div 8 = 0 -> b0 * 512 + b1 * 1024 + b2 * 2048)
  BY <1>3, <1>4, TraceBits, SmallPowers DEF Trace!expand_perms
<1>8. g \in {0, 1} /\ b0 \in {0, 1} /\ b1 \in {0, 1} /\ b2 \in {0, 1}
  OBVIOUS
<1>9. CASE l = 24
  <2>1. d \div 8 = 3 /\ ~(d \div 4 = 5) /\ d # 16 /\ ~(d \div 4 = 4)
    BY <1>2, <1>9
  <2>2. Trace!expand_perms(c) = g * 1 + (b0 * 2 + b1 * 8 + b2 * 16 + 32 + 64 + 4)
    BY <1>7, <2>1
  <2>3. Value(q) = g * 1 + (b0 * 2 + b1 * 8 + b2 * 16 + 32 + 64 + 4)
    BY <1>6, <1>8, <1>9 DEF Value
  <2> QED
    BY <1>5, <2>2, <2>3
<1>10. CASE l = 16 /\ b2 = 1
  <2>1. ~(d \div 8 = 3) /\ d \div 4 = 5 /\ d # 16 /\ ~(d \div 4 = 4) /\ ~(d \div 8 = 1) /\ ~(d \div 8 = 0)
    BY <1>2, <1>10
  <2>2. Trace!expand_perms(c) = g * 1 + (b0 * 2 + b1 * 8 + 32 + 64)
    BY <1>7, <2>1
  <2>3. Value(q) = g * 1 + (b0 * 2 + b1 * 8 + 32 + 64)
    BY <1>6, <1>8, <1>10 DEF Value
  <2> QED
    BY <1>5, <2>2, <2>3
<1>11. CASE l = 16 /\ b2 = 0 /\ b0 = 0 /\ b1 = 0
  <2>1. ~(d \div 8 = 3) /\ ~(d \div 4 = 5) /\ d = 16 /\ ~(d \div 8 = 1) /\ ~(d \div 8 = 0)
    BY <1>2, <1>11
  <2>2. Trace!expand_perms(c) = g * 1 + (4 + 64)
    BY <1>7, <2>1
  <2>3. Value(q) = g * 1 + (4 + 64)
    BY <1>6, <1>8, <1>11 DEF Value
  <2> QED
    BY <1>5, <2>2, <2>3
<1>12. CASE l = 16 /\ b2 = 0 /\ ~(b0 = 0 /\ b1 = 0)
  <2>1. ~(d \div 8 = 3) /\ ~(d \div 4 = 5) /\ d # 16 /\ d \div 4 = 4 /\ ~(d \div 8 = 1) /\ ~(d \div 8 = 0)
    BY <1>2, <1>12
  <2>2. Trace!expand_perms(c) = g * 1 + (b0 * 4 + b1 * 32)
    BY <1>7, <2>1
  <2>3. Value(q) = g * 1 + (b0 * 4 + b1 * 32)
    BY <1>6, <1>8, <1>12 DEF Value
  <2> QED
    BY <1>5, <2>2, <2>3
<1>13. CASE l = 8
  <2>1. ~(d \div 8 = 3) /\ ~(d \div 4 = 5) /\ d # 16 /\ ~(d \div 4 = 4) /\ d \div 8 = 1
    BY <1>2, <1>13
  <2>2. Trace!expand_perms(c) = g * 1 + (b0 * 2 + b1 * 8 + b2 * 128 + 256 + 64 + 32)
    BY <1>7, <2>1
  <2>3. Value(q) = g * 1 + (b0 * 2 + b1 * 8 + b2 * 128 + 256 + 64 + 32)
    BY <1>6, <1>8, <1>13 DEF Value
  <2> QED
    BY <1>5, <2>2, <2>3
<1>14. CASE l = 0
  <2>1. ~(d \div 8 = 3) /\ ~(d \div 4 = 5) /\ d # 16 /\ ~(d \div 4 = 4) /\ ~(d \div 8 = 1) /\ d \div 8 = 0
    BY <1>2, <1>14
  <2>2. Trace!expand_perms(c) = g * 1 + (b0 * 512 + b1 * 1024 + b2 * 2048)
    BY <1>7, <2>1
  <2>3. Value(q) = g * 1 + (b0 * 512 + b1 * 1024 + b2 * 2048)
    BY <1>6, <1>8, <1>14 DEF Value
  <2> QED
    BY <1>5, <2>2, <2>3
<1> QED
  BY <1>8, <1>9, <1>10, <1>11, <1>12, <1>13, <1>14

\* The upper part of the address, which the script adds unless the bounds are all
\* of the memory.
Window(e, a, cor) == IF e = RESETEXP THEN 0 ELSE (a \div 2^(e + TOP_W) + cor) * 2^(e + TOP_W)

\* The bounds as the script puts them together; it leaves out the window of the
\* whole memory, which is a multiple of the width it cuts to.
LEMMA IbexBound ==
    \A e \in Exponents(FALSE), a \in Nat, t \in Int, cor \in Int :
        /\ (t * 2^e + Window(e, a, cor)) % (2 * Mem) = get_bound33(t, cor, e, a)
        /\ (t * 2^e + Window(e, a, cor)) % Mem = get_bound33(t, cor, e, a) % Mem
<1> TAKE e \in Exponents(FALSE), a \in Nat, t \in Int, cor \in Int
<1> PICK w : w = Window(e, a, cor)
  OBVIOUS
<1> SUFFICES /\ (t * 2^e + w) % (2 * Mem) = get_bound33(t, cor, e, a)
             /\ (t * 2^e + w) % Mem = get_bound33(t, cor, e, a) % Mem
  OBVIOUS
<1>0. w = IF e = RESETEXP THEN 0 ELSE (a \div 2^(e + TOP_W) + cor) * 2^(e + TOP_W)
  BY DEF Window
<1> USE <1>0
<1>1. e \in Nat /\ TOP_W \in Nat /\ e + TOP_W \in Nat
  <2>1. PICK i8 \in BOOLEAN : i8 = FALSE
    OBVIOUS
  <2>2. e \in Nat
    BY <2>1, ExponentsNat
  <2>3. TOP_W \in Nat
    BY Widths
  <2> QED
    BY ONLY <2>2, <2>3
<1>2. PICK p \in Nat \ {0}, k \in Nat \ {0} : p = 2^e /\ k = 2^(e + TOP_W)
  BY <1>1, PowPositive
<1>3. PICK M \in Nat \ {0}, N \in Nat \ {0} : M = Mem /\ N = 2 * M /\ 2^(ADDR_W + 1) = N
  BY Widths
<1>4. PICK v \in Int : v = a \div k
  BY Euclid
<1>5. PICK x \in Int : x = (v + cor) * k + t * p
  OBVIOUS
<1>6. get_bound33(t, cor, e, a) = x % N
  BY <1>2, <1>3, <1>4, <1>5 DEF get_bound33
<1>7. PICK y \in Int : y = t * p + w
  <2>1. w \in Int
    BY <1>2, <1>4
  <2> QED
    BY <2>1
<1>8. y % N = x % N
  <2>1. CASE e = RESETEXP
    <3>1. k = N
      <4>1. RESETEXP + TOP_W = ADDR_W + 1
        BY Widths
      <4> QED
        BY ONLY <1>2, <1>3, <2>1, <4>1
    <3>a. t \in Int /\ p \in Int /\ v \in Int /\ cor \in Int
      BY <1>2
    <3>b. t * p \in Int /\ v + cor \in Int
      BY ONLY <3>a
    <3>2. PICK z \in Int, c \in Int : z = t * p /\ c = v + cor
      BY ONLY <3>b
    <3>3. x = c * N + z /\ y = z
      BY <1>5, <1>7, <2>1, <3>1, <3>2
    <3>4. (c * N + z) % N = z % N
      BY ModShift
    <3> QED
      BY <3>3, <3>4
  <2>2. CASE e # RESETEXP
    <3>1. w = (v + cor) * k
      BY <1>2, <1>4, <2>2
    <3>2. PICK z \in Int, c \in Int : z = t * p /\ c = (v + cor) * k
      OBVIOUS
    <3>3. x = c + z /\ y = z + c
      BY <1>5, <1>7, <3>1, <3>2
    <3>4. x = y
      BY <3>2, <3>3
    <3> QED
      BY <3>4
  <2> QED
    BY <2>1, <2>2
<1>9. (x % N) % M = x % M /\ (y % N) % M = y % M
  BY <1>3, ModMod
<1> QED
  BY <1>2, <1>3, <1>6, <1>7, <1>8, <1>9

\* The fields of a word that the script takes apart, and what it makes of them.
InWord(W, a, e, b, t, u, tc, bc) ==
    /\ e = (IF Field(W, CEXP_LO, CEXP_W) = RESETCEXP THEN RESETEXP ELSE Field(W, CEXP_LO, CEXP_W))
    /\ b = Field(W, BASE_LO, TOP_W) /\ t = Field(W, TOP_LO, TOP_W) /\ u = Field(a, e, TOP_W)
    /\ tc = Trace!top_cor(t, b, u) /\ bc = (IF u < b THEN 1 ELSE 0)
ReadFrom(W, a, e, b, t, tc, bc) ==
    LET c == Trace!parse_ibex_cap(W, a)
    IN  /\ c.tag = W \div 2^TAG /\ c.obj_type = Field(W, OTYPE_LO, 3)
        /\ c.perm = Trace!expand_perms(Field(W, CPERMS_LO, 6))
        /\ c.top = (t * 2^e + Window(e, a, tc)) % 2^(ADDR_W + 1)
        /\ c.base = (b * 2^e + Window(e, a, -bc)) % 2^ADDR_W

\* What parse_ibex_cap makes of the fields of a word.
LEMMA IbexFields ==
    \A W, a, e, b, t, u, tc, bc : InWord(W, a, e, b, t, u, tc, bc) => ReadFrom(W, a, e, b, t, tc, bc)
<1> SUFFICES ASSUME NEW W, NEW a, NEW e, NEW b, NEW t, NEW u, NEW tc, NEW bc, InWord(W, a, e, b, t, u, tc, bc)
             PROVE  ReadFrom(W, a, e, b, t, tc, bc)
  OBVIOUS
<1>0. PICK x : x = Field(W, CEXP_LO, CEXP_W)
  OBVIOUS
<1>1. 2 * TOP_W = CEXP_LO /\ 2 * TOP_W + CEXP_W = OTYPE_LO /\ OTYPE_LO + 3 = CPERMS_LO /\ OTYPE_LO + 10 = TAG
  <2>1. CPERMS_LO = OTYPE_LO + 3 /\ TAG = CPERMS_LO + 7 /\ OTYPE_LO \in Nat
    BY WordLayout DEF CPERMS_LO, TAG
  <2> QED
    BY <2>1 DEF CEXP_LO, OTYPE_LO
<1>2. x = (W \div 2^CEXP_LO) % 2^CEXP_W /\ b = (W \div 2^0) % 2^TOP_W /\ t = (W \div 2^TOP_W) % 2^TOP_W
        /\ u = (a \div 2^e) % 2^TOP_W /\ tc = Trace!top_cor(t, b, u) /\ bc = (IF u < b THEN 1 ELSE 0)
  BY <1>0 DEF InWord, Field, BASE_LO, TOP_LO
<1>3. e = IF x = 2^CEXP_W - 1 THEN ADDR_W + 1 - TOP_W ELSE x
  BY <1>0 DEF InWord, RESETEXP, RESETCEXP
<1>4. Field(W, OTYPE_LO, 3) = (W \div 2^OTYPE_LO) % 2^3 /\ Field(W, CPERMS_LO, 6) = (W \div 2^CPERMS_LO) % 2^6
  BY DEF Field
<1>5. ADDR_W + 1 - TOP_W = RESETEXP
  BY DEF RESETEXP
<1> QED
  BY <1>1, <1>2, <1>3, <1>4, <1>5 DEF Trace!parse_ibex_cap, Window, ReadFrom

\* parse_ibex_cap reads a stored register as reg2fullcap expands it.
LEMMA IbexReads ==
    ASSUME NEW r \in Regs(FALSE), NEW a \in Nat, Corrected(r, a) = r
    PROVE  LET c == Trace!parse_ibex_cap(reg2memcap_fmt0(r), a)
               f == reg2fullcap(r, a)
           IN  /\ c.tag = Flag(r.valid) /\ c.obj_type = r.otype
               /\ c.top = f.top33 /\ c.base = f.base32
               /\ c.perm = Trace!parse_sail_perms({SailLetter[p] : p \in f.perms})
<1>1. PICK i8 \in BOOLEAN : i8 = FALSE /\ r \in Regs(i8)
  OBVIOUS
<1>2. PICK W : W = reg2memcap(i8, r)
  OBVIOUS
<1>3. W = reg2memcap_fmt0(r)
  BY <1>1, <1>2 DEF reg2memcap
<1>4. PICK x : x = Field(W, CEXP_LO, CEXP_W)
  OBVIOUS
<1>5. PICK e, b, t : e = r.exp /\ b = r.base /\ t = r.top
  OBVIOUS
<1>6. e \in Exponents(FALSE) /\ b \in Int /\ t \in Int /\ r.cperms \in 0 .. 63 /\ r.top_cor \in Int /\ r.base_cor \in Int
  <2>1. /\ r.exp \in Exponents(FALSE) /\ r.base \in 0 .. Mant - 1 /\ r.top \in 0 .. Mant - 1
        /\ r.cperms \in 0 .. 63 /\ r.top_cor \in -1 .. 1 /\ r.base_cor \in 0 .. 1
    BY DEF Regs
  <2>2. \A k \in Nat : 0 .. k - 1 \subseteq Int
    OBVIOUS
  <2>3. r.base \in Int /\ r.top \in Int
    BY <2>1, <2>2, Widths
  <2>4. r.top_cor \in Int /\ r.base_cor \in Int
    BY <2>1
  <2> QED
    BY <1>5, <2>1, <2>3, <2>4
<1>7. /\ b = Field(W, BASE_LO, TOP_W) /\ t = Field(W, TOP_LO, TOP_W)
      /\ Field(W, OTYPE_LO, 3) = r.otype /\ Field(W, CPERMS_LO, 6) = r.cperms
      /\ W \div 2^TAG = (IF r.valid THEN 1 ELSE 0)
      /\ x = IF e = RESETEXP THEN RESETCEXP ELSE e % 2^CEXP_W
  BY <1>1, <1>2, <1>4, <1>5, StoreFields
<1>8. e = IF x = RESETCEXP THEN RESETEXP ELSE x
  BY <1>6, <1>7, ExponentField
<1>9. PICK u : u = Field(a, e, TOP_W)
  OBVIOUS
<1>10. r.top_cor = Trace!top_cor(t, b, u) /\ r.base_cor = (IF u < b THEN 1 ELSE 0)
  <2>1. /\ r.top_cor = update_temp_fields(r.top, r.base, u).top_cor
        /\ r.base_cor = update_temp_fields(r.top, r.base, u).base_cor
    BY <1>1, <1>5, <1>9, CorrectedReg
  <2> QED
    BY <1>5, <2>1 DEF update_temp_fields, Flag, Trace!top_cor
<1>11. PICK wt, wb :
          wt = Window(e, a, r.top_cor) /\ wb = Window(e, a, -r.base_cor)
  OBVIOUS
<1>12. PICK c : c = Trace!parse_ibex_cap(W, a)
  OBVIOUS
<1>13. /\ c.tag = W \div 2^TAG /\ c.obj_type = Field(W, OTYPE_LO, 3)
       /\ c.perm = Trace!expand_perms(Field(W, CPERMS_LO, 6))
       /\ c.top = (t * 2^e + wt) % 2^(ADDR_W + 1)
       /\ c.base = (b * 2^e + wb) % 2^ADDR_W
  <2>1. PICK tc, bc : tc = r.top_cor /\ bc = r.base_cor
    OBVIOUS
  <2>2. InWord(W, a, e, b, t, u, tc, bc)
    BY <1>4, <1>7, <1>8, <1>9, <1>10, <2>1 DEF InWord
  <2>3. ReadFrom(W, a, e, b, t, tc, bc)
    BY <2>2, IbexFields, Zenon
  <2> QED
    BY <1>11, <1>12, <2>1, <2>3 DEF ReadFrom
<1>14. (t * 2^e + wt) % (2 * Mem) = get_bound33(t, r.top_cor, e, a)
  BY <1>6, <1>11, IbexBound
<1>15. (b * 2^e + wb) % Mem = get_bound33(b, -r.base_cor, e, a) % Mem
  <2>1. PICK cor \in Int : cor = -r.base_cor
    BY <1>6
  <2>2. wb = Window(e, a, cor)
    BY <1>11, <2>1
  <2>3. (b * 2^e + wb) % Mem = get_bound33(b, cor, e, a) % Mem
    BY <1>6, <2>2, IbexBound
  <2> QED
    BY <2>1, <2>3
<1>16. PICK f : f = reg2fullcap(r, a)
  OBVIOUS
<1>17. f.top33 = c.top /\ f.base32 = c.base /\ f.perms = expand_perms(r.cperms)
  <2>1. 2^(ADDR_W + 1) = 2 * Mem
    BY Widths
  <2> QED
    BY <1>5, <1>13, <1>14, <1>15, <1>16, <2>1 DEF reg2fullcap, Mem
<1>18. c.perm = Trace!parse_sail_perms({SailLetter[p] : p \in f.perms})
  <2>1. f.perms \in SUBSET Names
    <3>1. PICK g \in 0 .. 1, b0 \in 0 .. 1, b1 \in 0 .. 1, b2 \in 0 .. 1, l \in {0, 8, 16, 24} :
              r.cperms = 32 * g + l + b0 + b1 * 2 + b2 * 4
      BY <1>6, Decompose
    <3>2. \A y \in expand_perms(r.cperms) : y \in Names
      BY <3>1, Meaning DEF Names
    <3> QED
      BY <1>17, <3>2
  <2>2. Trace!parse_sail_perms({SailLetter[p] : p \in f.perms}) = Value(f.perms)
    BY <2>1, SailValue
  <2>3. Trace!expand_perms(r.cperms) = Value(expand_perms(r.cperms))
    BY <1>6, IbexValue
  <2> QED
    BY <1>7, <1>13, <1>17, <2>2, <2>3
<1>19. c.tag = Flag(r.valid) /\ c.obj_type = r.otype
  BY <1>7, <1>13 DEF Flag
<1> QED
  BY <1>3, <1>12, <1>16, <1>17, <1>18, <1>19

\* The comparison script reads a capability in the original encoding as the core
\* expands it, and as Sail prints it (DecodersAgree): an alarm is never the
\* script's reading.  For every width and every good register.
THEOREM DecodersAgreeHolds == Spec => []DecodersAgree
<1>1. ASSUME CapInv PROVE DecodersAgree
  <2> SUFFICES ASSUME at = "reg", ~it8
               PROVE  LET c == Trace!parse_ibex_cap(reg2memcap_fmt0(cap), addr) IN
                      /\ c.tag = Flag(cap.valid) /\ c.obj_type = cap.otype
                      /\ c.top = fullcap.top33 /\ c.base = fullcap.base32
                      /\ c.perm = Trace!parse_sail_perms({SailLetter[p] : p \in fullcap.perms})
    BY Zenon DEF DecodersAgree
  <2>1. it8 = FALSE /\ Good(it8, cap, addr) /\ addr \in Nat
    BY <1>1, AddrNat DEF CapInv
  <2>2. cap \in Regs(FALSE) /\ Corrected(cap, addr) = cap
    BY <2>1 DEF Good
  <2> QED
    BY <2>1, <2>2, IbexReads DEF fullcap
<1> QED
  BY <1>1, CapabilityInvariant, PTL

=============================================================================
