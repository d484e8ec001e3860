--------------------------- MODULE RegrFlow_proofs ---------------------------
(***************************************************************************)
(* Proofs about the regression flow, for every list of tests, every        *)
(* configuration and set of options, every outcome of a simulation and     *)
(* any number of runs of make, stopped or not: what is reported as passed  *)
(* has passed, with the parameters asked for.                              *)
(*                                                                         *)
(* The inductive invariant says in which order the targets leave the list  *)
(* of those to be made, which of them are newer than what they are made    *)
(* from, and what that means for their contents.                           *)
(***************************************************************************)
EXTENDS RegrFlow, WellFoundedInduction, TLAPS

Benches == {NoBench} \cup {[frag |-> COMPILE_OPTS(s, o.config), enabled |-> o.enabled] :
                              s \in Simulators, o \in Options}
SimSettings == {{}} \cup {SIM_OPTS(s, o.config) : s \in Simulators, o \in Options}
Sims == [log : Seq(Lines), trace : Traces, bench : Benches, opts : SimSettings]
Results == {"absent", "empty", "partial", "passed", "failed"}

FlowTypes ==
    /\ simulator \in Simulators /\ matched \subseteq Tests /\ opts \in Options
    /\ saved \in Benches /\ bench \in Benches /\ copy \in Benches
    /\ sim \in [Tests -> Sims] /\ result \in [Tests -> Results]
    /\ report \subseteq Tests
    /\ running \in BOOLEAN /\ broken \in BOOLEAN /\ collected \in BOOLEAN /\ miscompiled \in BOOLEAN
    /\ status \in {"none", "ok", "failed"}
    /\ edits \in Nat

\* What make is doing.
MakeShape ==
    /\ jobs \subseteq todo
    /\ ~running => todo = {}
    /\ todo \subseteq {Bench, Copy, Regr} \cup Logs \cup Ymls
    /\ status = "ok" => ~running /\ ~broken

\* A target is not made before those it is made from.
Order ==
    /\ Bench \in todo => Copy \in todo /\ Copy \notin jobs
    /\ Copy \in todo => \A t \in tests : /\ Log(t) \in todo /\ Log(t) \notin jobs
                                         /\ Yml(t) \in todo /\ Yml(t) \notin jobs
    /\ (\E t \in tests : Log(t) \in todo) => \A t \in tests : Yml(t) \in todo /\ Yml(t) \notin jobs
    /\ Regr \in jobs => todo = {Regr}

\* What is made is up to date, unless make has met a failure.
UpToDate ==
    /\ (running /\ ~broken) \/ status = "ok" =>
          /\ Bench \notin todo => saved = compile_vars
          /\ Copy \notin todo => Copy \in fresh
          /\ \A t \in tests : Log(t) \notin todo => Log(t) \in fresh
    /\ running => \A t \in tests : Yml(t) \notin todo => Yml(t) \in fresh

\* Targets in the making.
InTheMaking ==
    /\ Bench \in jobs => saved = compile_vars
    /\ Copy \in todo /\ Bench \notin todo /\ ~broken => Copy \notin fresh
    /\ Copy \in jobs => /\ Copy \notin fresh /\ Regr \notin fresh
                        /\ \A t \in Tests : Log(t) \notin fresh /\ Yml(t) \notin fresh
    /\ \A t \in Tests : Log(t) \in jobs => Log(t) \in fresh
    /\ \A t \in Tests : Yml(t) \in jobs => Yml(t) \in fresh /\ Log(t) \in fresh /\ Log(t) \notin todo

\* The simulation of t is over and stays as it is while its log is up to date.
Settled(t) == Successful(t) /\ Log(t) \in fresh /\ Log(t) \notin jobs

ResultsTrue ==
    \A t \in Tests : Yml(t) \in fresh /\ result[t] = "passed" => Settled(t)

ReportTrue ==
    Regr \in fresh => \A t \in report : Settled(t) /\ (Log(t) \in todo => Copy \in todo)

SuccessTrue ==
    collected /\ ~broken /\ (running \/ status = "ok") =>
        todo = {} /\ tests # {} /\ \A t \in tests : Successful(t)

\* Where a test bench, its copy and the simulations come from.
BenchChain ==
    /\ ~miscompiled /\ Bench \notin jobs => bench = saved
    /\ ~miscompiled /\ Copy \in fresh => copy = bench
    /\ \A t \in Tests : Log(t) \in fresh =>
          /\ sim[t].bench = copy
          /\ simulator \in OneStep \/ edits = 0 => sim[t].opts = SIM_OPTS(simulator, opts.config)

FlowInv == /\ FlowTypes /\ MakeShape /\ Order /\ UpToDate /\ InTheMaking
           /\ ResultsTrue /\ ReportTrue /\ SuccessTrue /\ BenchChain

-----------------------------------------------------------------------------
(* Targets.                                                                *)

\* The targets of the Makefile are distinct.
LEMMA Names ==
    /\ Bench # Copy /\ Bench # Regr /\ Copy # Regr
    /\ \A t, u : Log(t) = Log(u) => t = u
    /\ \A t, u : Yml(t) = Yml(u) => t = u
    /\ \A t : Log(t) \notin {Bench, Copy, Regr} /\ Yml(t) \notin {Bench, Copy, Regr}
    /\ \A t, u : Log(t) # Yml(u)
  BY DEF Bench, Copy, Regr, Log, Yml

\* Which of the targets are logs and results.
LEMMA Kinds ==
    /\ \A t : t \in Tests <=> Log(t) \in AllLogs
    /\ \A t : t \in Tests <=> Yml(t) \in AllYmls
    /\ \A t : t \in tests <=> Log(t) \in Logs
    /\ \A t : t \in tests <=> Yml(t) \in Ymls
    /\ \A t : Log(t) \notin AllYmls /\ Yml(t) \notin AllLogs /\ Log(t) \notin Ymls /\ Yml(t) \notin Logs
    /\ {Bench, Copy, Regr} \cap (AllLogs \cup AllYmls \cup Logs \cup Ymls) = {}
  BY Names DEF AllLogs, AllYmls, Logs, Ymls

\* Which targets are older than one that is made.
LEMMA Touched ==
    /\ Touch(Bench) = (fresh \ {Copy}) \cup {Bench}
    /\ Touch(Copy) = (fresh \ AllLogs) \cup {Copy}
    /\ \A t \in Tests : Touch(Log(t)) = (fresh \ AllYmls) \cup {Log(t)}
    /\ \A t \in Tests : Touch(Yml(t)) = (fresh \ {Regr}) \cup {Yml(t)}
<1>1. Below(Bench) = {Copy}
  BY Names, Kinds DEF Below
<1>2. Below(Copy) = AllLogs
  BY Names, Kinds DEF Below
<1>3. ASSUME NEW t \in Tests PROVE Below(Log(t)) = AllYmls
  <2>1. Log(t) \in AllLogs /\ Log(t) \notin AllYmls /\ Log(t) # Bench /\ Log(t) # Copy
    BY Names, Kinds
  <2> QED
    BY <2>1 DEF Below
<1>4. ASSUME NEW t \in Tests PROVE Below(Yml(t)) = {Regr}
  <2>1. Yml(t) \in AllYmls /\ Yml(t) \notin AllLogs /\ Yml(t) # Bench /\ Yml(t) # Copy
    BY Names, Kinds
  <2> QED
    BY <2>1 DEF Below
<1> QED
  BY <1>1, <1>2, <1>3, <1>4 DEF Touch

\* The tests are entries of the test list.
LEMMA TestsListed == ASSUME FlowTypes PROVE tests \subseteq Tests
  BY DEF FlowTypes, tests, list_tests

\* The tests and the options of a compilation depend on the options only.
LEMMA Frame ==
    ASSUME UNCHANGED <<context, opts>>
    PROVE  /\ tests' = tests /\ compile_vars' = compile_vars /\ Logs' = Logs /\ Ymls' = Ymls
           /\ simulator' = simulator /\ matched' = matched /\ opts' = opts
<1>1. simulator' = simulator /\ matched' = matched /\ opts' = opts
  BY DEF context
<1> QED
  BY <1>1 DEF tests, compile_vars, Logs, Ymls

\* Whether a simulation was successful depends on its log and trace only.
LEMMA SameSim ==
    ASSUME NEW t, sim'[t].log = sim[t].log, sim'[t].trace = sim[t].trace
    PROVE  Successful(t)' <=> Successful(t)
  BY DEF Successful

-----------------------------------------------------------------------------
(* The scan of a simulation log, by induction over its lines.              *)

Less == {ss \in Nat \X Nat : ss[1] < ss[2]}

\* Every set of numbers that is not empty has a least element.
LEMMA LeastNumber ==
    ASSUME NEW T \in SUBSET Nat, T # {}
    PROVE  \E x \in T : \A y \in T : x <= y
<1>1. IsWellFoundedOn(Less, Nat)
  BY NatLessThanWellFounded DEF OpToRel, Less
<1>2. PICK x \in T : \A y \in T : ~(<<y, x>> \in Less)
  BY <1>1, WFMin
<1>3. ASSUME NEW y \in T PROVE x <= y
  <2>1. x \in Nat /\ y \in Nat /\ ~(<<y, x>> \in Less)
    BY <1>2
  <2> QED
    BY <2>1 DEF Less
<1> QED
  BY <1>3

\* A set of numbers with 0 and every successor is Nat.
LEMMA Induction ==
    ASSUME NEW T \in SUBSET Nat, 0 \in T, \A n \in T : n + 1 \in T
    PROVE  T = Nat
<1> DEFINE U == Nat \ T
<1> SUFFICES ASSUME U # {} PROVE FALSE
  OBVIOUS
<1>1. PICK x \in U : \A y \in U : x <= y
  <2>1. U \in SUBSET Nat
    OBVIOUS
  <2> HIDE DEF U
  <2> QED
    BY <2>1, LeastNumber
<1>2. x \in Nat /\ x # 0 /\ x \notin T
  BY <1>1
<1>3. x - 1 \in Nat /\ x - 1 \notin U
  BY <1>1, <1>2
<1> QED
  BY <1>2, <1>3

\* What check_ibex_uvm_log knows after n lines, of a function that knows it
\* after the lines before.
After(log, n, g) ==
    IF n = 0 THEN [passed |-> FALSE, failed |-> FALSE, seen |-> FALSE, stop |-> FALSE]
    ELSE IF g[n - 1].stop THEN g[n - 1] ELSE ScanLine(g[n - 1], log[n])

IsScan(log, k, g) == g = [n \in 0 .. k |-> After(log, n, g)]

\* The recursive definition defines a function.
LEMMA ScanExists == ASSUME NEW log, NEW k \in Nat PROVE \E g : IsScan(log, k, g)
<1> DEFINE T == {n \in Nat : \E g : IsScan(log, n, g)}
<1>1. 0 \in T
  <2> DEFINE g == [n \in 0 .. 0 |-> After(log, 0, 0)]
  <2>1. \A n \in 0 .. 0 : After(log, n, g) = After(log, 0, 0)
    BY DEF After
  <2>2. g = [n \in 0 .. 0 |-> After(log, n, g)]
    BY <2>1
  <2> QED
    BY <2>2 DEF IsScan
<1>2. ASSUME NEW n \in T PROVE n + 1 \in T
  <2>1. n \in Nat
    OBVIOUS
  <2>2. PICK g : IsScan(log, n, g)
    OBVIOUS
  <2> DEFINE h == [i \in 0 .. n + 1 |-> IF i = n + 1 THEN After(log, n + 1, g) ELSE g[i]]
  <2>3. \A i \in 0 .. n : h[i] = g[i] /\ g[i] = After(log, i, g)
    BY <2>1, <2>2 DEF IsScan
  <2>4. ASSUME NEW i \in 0 .. n + 1 PROVE h[i] = After(log, i, h)
    <3>1. i # 0 => i - 1 \in 0 .. n
      BY <2>1
    <3>2. i # 0 => h[i - 1] = g[i - 1]
      BY <2>3, <3>1
    <3>3. After(log, i, h) = After(log, i, g)
      BY <3>2 DEF After
    <3>4. i = n + 1 \/ i \in 0 .. n
      BY <2>1
    <3> HIDE DEF h
    <3>5. i = n + 1 => h[i] = After(log, i, g)
      BY DEF h
    <3> QED
      BY <2>3, <3>3, <3>4, <3>5
  <2>5. h = [i \in 0 .. n + 1 |-> After(log, i, h)]
    BY <2>4
  <2> HIDE DEF h
  <2>6. IsScan(log, n + 1, h)
    BY <2>5 DEF IsScan
  <2> QED
    BY <2>1, <2>6
<1>3. T = Nat
  <2> HIDE DEF T
  <2>1. T \in SUBSET Nat
    BY DEF T
  <2> QED
    BY <1>1, <1>2, <2>1, Induction
<1> QED
  BY <1>3

\* What is known after n lines: unless a failure has been found there was no
\* line FAILED; before a result is seen there was no error; and a pass was
\* announced by a line with no error before it.
Known(log, n, r) ==
    /\ r \in [passed : BOOLEAN, failed : BOOLEAN, seen : BOOLEAN, stop : BOOLEAN]
    /\ r.stop => r.failed
    /\ r.seen /\ ~r.failed => r.passed
    /\ ~r.failed => \A m \in 1 .. n : log[m] # "FAILED"
    /\ ~r.failed /\ ~r.seen => \A m \in 1 .. n : log[m] # "error"
    /\ ~r.failed /\ r.passed =>
          \E k \in 1 .. n : log[k] = "PASSED" /\ \A m \in 1 .. k : log[m] # "error"

\* One more line.
LEMMA ScanOneLine ==
    ASSUME NEW log \in Seq(Lines), NEW n \in Nat, NEW r, Known(log, n, r), ~r.stop,
           n + 1 \in 1 .. Len(log)
    PROVE  Known(log, n + 1, ScanLine(r, log[n + 1]))
<1> DEFINE line == log[n + 1]
           q    == ScanLine(r, line)
<1>1. /\ q.passed = (r.passed \/ line = "PASSED")
      /\ q.failed = (r.failed \/ line = "FAILED" \/ (line = "error" /\ ~r.seen))
      /\ q.seen = (r.seen \/ line \in {"PASSED", "FAILED"})
      /\ q.stop = (line = "FAILED")
  BY DEF ScanLine
<1>2. q \in [passed : BOOLEAN, failed : BOOLEAN, seen : BOOLEAN, stop : BOOLEAN]
  BY DEF ScanLine
<1> HIDE DEF q
<1>3. \A m \in 1 .. n + 1 : m \in 1 .. n \/ m = n + 1
  OBVIOUS
<1>4. ~q.failed => ~r.failed /\ line # "FAILED" /\ (line = "error" => r.seen)
  BY <1>1
<1>5. ~q.failed => \A m \in 1 .. n + 1 : log[m] # "FAILED"
  BY <1>3, <1>4 DEF Known
<1>6. ~q.failed /\ ~q.seen => \A m \in 1 .. n + 1 : log[m] # "error"
  <2>1. ~q.seen => ~r.seen
    BY <1>1
  <2> QED
    BY <1>3, <1>4, <2>1 DEF Known
<1>7. ASSUME ~q.failed, q.passed
      PROVE  \E k \in 1 .. n + 1 : log[k] = "PASSED" /\ \A m \in 1 .. k : log[m] # "error"
  <2>1. CASE r.passed
    <3>1. PICK k \in 1 .. n : log[k] = "PASSED" /\ \A m \in 1 .. k : log[m] # "error"
      BY <1>4, <1>7, <2>1 DEF Known
    <3>2. k \in 1 .. n + 1
      OBVIOUS
    <3> QED
      BY <3>1, <3>2
  <2>2. CASE ~r.passed
    <3>1. line = "PASSED" /\ ~r.failed
      BY <1>1, <1>4, <1>7, <2>2
    <3>2. ~r.seen
      BY <2>2, <3>1 DEF Known
    <3>3. \A m \in 1 .. n : log[m] # "error"
      BY <3>1, <3>2 DEF Known
    <3>4. \A m \in 1 .. n + 1 : log[m] # "error"
      BY <1>3, <3>1, <3>3
    <3>5. n + 1 \in 1 .. n + 1
      OBVIOUS
    <3> QED
      BY <3>1, <3>4, <3>5
  <2> QED
    BY <2>1, <2>2
<1>8. (q.stop => q.failed) /\ (q.seen /\ ~q.failed => q.passed)
  BY <1>1, <1>4 DEF Known
<1> QED
  BY <1>2, <1>5, <1>6, <1>7, <1>8 DEF Known, q

\* A log that passes the check announces a pass with no error before it, and
\* no failure.
LEMMA CheckedLog ==
    ASSUME NEW log \in Seq(Lines), check_ibex_uvm_log(log)
    PROVE  /\ \E n \in DOMAIN log : log[n] = "PASSED" /\ \A m \in 1 .. n : log[m] # "error"
           /\ \A n \in DOMAIN log : log[n] # "FAILED"
<1> DEFINE len == Len(log)
           g   == CHOOSE f : IsScan(log, len, f)
<1>1. len \in Nat /\ DOMAIN log = 1 .. len
  OBVIOUS
<1>2. IsScan(log, len, g)
  BY <1>1, ScanExists
<1>3. g[len].passed /\ ~g[len].failed
  BY DEF check_ibex_uvm_log, IsScan, After
<1> HIDE DEF g
<1>4. \A n \in 0 .. len : g[n] = After(log, n, g)
  BY <1>2 DEF IsScan
<1> DEFINE T == {n \in Nat : n <= len => Known(log, n, g[n])}
<1>5. 0 \in T
  <2>1. g[0] = [passed |-> FALSE, failed |-> FALSE, seen |-> FALSE, stop |-> FALSE]
    BY <1>1, <1>4 DEF After
  <2>2. Known(log, 0, g[0])
    BY <2>1 DEF Known
  <2> QED
    BY <2>2
<1>6. ASSUME NEW n \in T PROVE n + 1 \in T
  <2>1. n \in Nat /\ (n <= len => Known(log, n, g[n]))
    OBVIOUS
  <2>2. ASSUME n + 1 <= len PROVE Known(log, n + 1, g[n + 1])
    <3>1. Known(log, n, g[n]) /\ n + 1 \in 0 .. len /\ n + 1 # 0 /\ (n + 1) - 1 = n
          /\ n + 1 \in 1 .. len
      BY <1>1, <2>1, <2>2
    <3>2. g[n + 1] = IF g[n].stop THEN g[n] ELSE ScanLine(g[n], log[n + 1])
      BY <1>4, <3>1 DEF After
    <3>3. CASE g[n].stop
      <4>1. g[n].failed
        BY <3>1, <3>3 DEF Known
      <4> QED
        BY <3>1, <3>2, <3>3, <4>1 DEF Known
    <3>4. CASE ~g[n].stop
      BY <2>1, <3>1, <3>2, <3>4, ScanOneLine
    <3> QED
      BY <3>3, <3>4
  <2> QED
    BY <2>1, <2>2
<1>7. len \in T
  <2> HIDE DEF T
  <2>1. T \in SUBSET Nat
    BY DEF T
  <2>2. T = Nat
    BY <1>5, <1>6, <2>1, Induction
  <2> QED
    BY <1>1, <2>2
<1>8. Known(log, len, g[len])
  BY <1>1, <1>7
<1> QED
  BY <1>1, <1>3, <1>8 DEF Known

\* A comparison with the verdict "passed" is of a successful simulation.
LEMMA VerdictTrue ==
    ASSUME FlowTypes, NEW t \in Tests, compare_test_run(t, sim[t]) = "passed"
    PROVE  Successful(t)
<1>1. sim[t] \in Sims
  BY DEF FlowTypes
<1>2. sim[t].log \in Seq(Lines) /\ sim[t].trace \in Traces
  BY <1>1 DEF Sims
<1>3. /\ check_ibex_uvm_log(sim[t].log)
      /\ sim[t].trace # "missing"
      /\ TestEntry[t].no_post_compare \/ sim[t].trace = "agrees"
  BY DEF compare_test_run
<1>4. sim[t].trace = "agrees" \/ (TestEntry[t].no_post_compare /\ sim[t].trace = "differs")
  BY <1>2, <1>3 DEF Traces
<1>5. /\ \E n \in DOMAIN sim[t].log : sim[t].log[n] = "PASSED" /\ \A m \in 1 .. n : sim[t].log[m] # "error"
      /\ \A n \in DOMAIN sim[t].log : sim[t].log[n] # "FAILED"
  BY <1>2, <1>3, CheckedLog
<1> QED
  BY <1>4, <1>5 DEF Successful

-----------------------------------------------------------------------------
(* The invariant is inductive.                                             *)

\* A fresh directory satisfies the invariant.
LEMMA FlowInitInv == Init => FlowInv
<1> SUFFICES ASSUME Init PROVE FlowInv
  OBVIOUS
<1>1. NoSim \in Sims
  <2>1. <<>> \in Seq(Lines) /\ "missing" \in Traces /\ NoBench \in Benches /\ {} \in SimSettings
    BY DEF Traces, Benches, SimSettings
  <2> QED
    BY <2>1 DEF NoSim, Sims
<1>2. FlowTypes
  <2>1. sim \in [Tests -> Sims] /\ result \in [Tests -> Results]
    BY <1>1 DEF Init, Results
  <2>2. NoBench \in Benches
    BY DEF Benches
  <2> QED
    BY <2>1, <2>2 DEF Init, FlowTypes
<1>3. MakeShape /\ Order /\ UpToDate /\ InTheMaking
  BY DEF Init, MakeShape, Order, UpToDate, InTheMaking
<1>4. ResultsTrue /\ ReportTrue /\ SuccessTrue /\ BenchChain
  BY DEF Init, ResultsTrue, ReportTrue, SuccessTrue, BenchChain
<1> QED
  BY <1>2, <1>3, <1>4 DEF FlowInv

\* The user changes the options.
LEMMA EditOptionsInv == ASSUME FlowInv, EditOptions PROVE FlowInv'
<1>1. /\ ~running /\ opts' \in Options /\ edits' = edits + 1 /\ status' = "none"
      /\ UNCHANGED <<context, files, fresh, running, todo, jobs, broken, collected, miscompiled>>
  BY DEF EditOptions
<1>2. simulator' = simulator /\ matched' = matched
  BY <1>1 DEF context
<1>3. /\ bench' = bench /\ copy' = copy /\ sim' = sim /\ result' = result /\ report' = report
      /\ saved' = saved
  BY <1>1 DEF files
<1>4. todo = {} /\ jobs = {}
  BY <1>1 DEF FlowInv, MakeShape
<1>5. FlowTypes'
  BY <1>1, <1>2, <1>3 DEF FlowInv, FlowTypes
<1>6. MakeShape' /\ Order' /\ UpToDate' /\ InTheMaking' /\ SuccessTrue'
  BY <1>1, <1>4 DEF MakeShape, Order, UpToDate, InTheMaking, SuccessTrue
<1>7. \A t : Successful(t)' <=> Successful(t)
  BY <1>3 DEF Successful
<1>8. ResultsTrue' /\ ReportTrue'
  BY <1>1, <1>3, <1>4, <1>7 DEF FlowInv, ResultsTrue, ReportTrue, Settled
<1>9. BenchChain'
  <2>1. edits' # 0
    BY <1>1 DEF FlowInv, FlowTypes
  <2>2. \A o, q : simulator \in OneStep => SIM_OPTS(simulator, o) = SIM_OPTS(simulator, q)
    BY DEF SIM_OPTS
  <2> QED
    BY <1>1, <1>2, <1>3, <2>1, <2>2 DEF FlowInv, BenchChain
<1> QED
  BY <1>5, <1>6, <1>8, <1>9 DEF FlowInv

\* What make plans.
LEMMA Planned ==
    /\ Plan \subseteq {Bench, Copy, Regr} \cup Logs \cup Ymls
    /\ Bench \in Plan <=> benchDue
    /\ Copy \in Plan <=> benchDue \/ Copy \notin fresh
    /\ \A t \in tests : Log(t) \in Plan <=> Copy \in Plan \/ Log(t) \notin fresh
    /\ \A t \in tests : Yml(t) \in Plan <=> (\E u \in tests : Log(u) \in Plan) \/ Yml(t) \notin fresh
<1> DEFINE b == IF benchDue THEN {Bench} ELSE {}
           c == IF b # {} \/ Copy \notin fresh THEN {Copy} ELSE {}
           l == IF c # {} THEN Logs ELSE Logs \ fresh
           y == IF l # {} THEN Ymls ELSE Ymls \ fresh
           r == IF y # {} \/ Regr \notin fresh THEN {Regr} ELSE {}
<1>1. Plan = b \cup c \cup l \cup y \cup r
  BY DEF Plan
<1>2. b \subseteq {Bench} /\ c \subseteq {Copy} /\ l \subseteq Logs /\ y \subseteq Ymls /\ r \subseteq {Regr}
  OBVIOUS
<1>3. Bench \in b <=> benchDue
  OBVIOUS
<1>4. Copy \in c <=> benchDue \/ Copy \notin fresh
  OBVIOUS
<1>5. \A t \in tests : Log(t) \in l <=> Copy \in c \/ Log(t) \notin fresh
  BY DEF Logs
<1>6. l # {} <=> \E u \in tests : Log(u) \in l
  BY DEF Logs
<1>7. \A t \in tests : Yml(t) \in y <=> l # {} \/ Yml(t) \notin fresh
  BY DEF Ymls
<1> HIDE DEF b, c, l, y, r
<1>8. (Bench \in Plan <=> Bench \in b) /\ (Copy \in Plan <=> Copy \in c)
  BY <1>1, <1>2, Names, Kinds
<1>9. \A t \in tests : (Log(t) \in Plan <=> Log(t) \in l) /\ (Yml(t) \in Plan <=> Yml(t) \in y)
  BY <1>1, <1>2, Names, Kinds
<1> QED
  BY <1>1, <1>2, <1>3, <1>4, <1>5, <1>6, <1>7, <1>8, <1>9

\* Make is run.
LEMMA StartInv == ASSUME FlowInv, Start PROVE FlowInv'
<1>1. /\ ~running /\ collected' = FALSE /\ (broken' <=> ~Parses(opts.config))
      /\ (running' <=> ~broken') /\ todo' = (IF broken' THEN {} ELSE Plan)
      /\ status' = (IF broken' THEN "failed" ELSE "none")
      /\ broken' \in BOOLEAN /\ running' \in BOOLEAN
      /\ UNCHANGED <<context, opts, files, fresh, jobs, miscompiled, edits>>
  BY DEF Start
<1>2. /\ tests' = tests /\ compile_vars' = compile_vars /\ Logs' = Logs /\ Ymls' = Ymls
      /\ simulator' = simulator /\ matched' = matched /\ opts' = opts
  BY <1>1, Frame
<1>3. /\ bench' = bench /\ copy' = copy /\ sim' = sim /\ result' = result /\ report' = report
      /\ saved' = saved
  BY <1>1 DEF files
<1>4. todo = {} /\ jobs = {} /\ jobs' = {}
  BY <1>1 DEF FlowInv, MakeShape
<1>5. FlowTypes'
  BY <1>1, <1>2, <1>3 DEF FlowInv, FlowTypes
<1>6. \A t : Successful(t)' <=> Successful(t)
  BY <1>3 DEF Successful
<1>7. tests \subseteq Tests /\ report \subseteq Tests
  BY TestsListed DEF FlowInv, FlowTypes
<1>8. SuccessTrue' /\ ResultsTrue' /\ BenchChain'
  BY <1>1, <1>2, <1>3, <1>4, <1>6 DEF FlowInv, SuccessTrue, ResultsTrue, Settled, BenchChain
<1>9. CASE broken'
  <2>1. MakeShape' /\ Order' /\ UpToDate' /\ InTheMaking'
    BY <1>1, <1>4, <1>9 DEF MakeShape, Order, UpToDate, InTheMaking
  <2>2. ReportTrue'
    BY <1>1, <1>3, <1>4, <1>6, <1>9 DEF FlowInv, ReportTrue, Settled
  <2> QED
    BY <1>5, <1>8, <2>1, <2>2 DEF FlowInv
<1>10. CASE ~broken'
  <2>1. todo' = Plan /\ running'
    BY <1>1, <1>10
  <2>2. MakeShape'
    BY <1>1, <1>2, <1>4, <2>1, Planned DEF MakeShape
  <2>3. Order'
    BY <1>2, <1>4, <2>1, Planned DEF Order
  <2>4. UpToDate'
    BY <1>1, <1>2, <1>3, <2>1, Planned DEF UpToDate, benchDue
  <2>5. InTheMaking'
    BY <1>1, <1>2, <1>4, <2>1, Planned DEF InTheMaking
  <2>6. ReportTrue'
    <3>1. ASSUME NEW t \in report, Log(t) \in fresh, Log(t) \in Plan PROVE Copy \in Plan
      <4>1. Log(t) \in Logs
        BY <3>1, Names, Kinds, Planned
      <4>2. t \in tests
        BY <4>1, Kinds
      <4> QED
        BY <3>1, <4>2, Planned
    <3> QED
      BY <1>1, <1>3, <1>4, <1>6, <2>1, <3>1 DEF FlowInv, ReportTrue, Settled
  <2> QED
    BY <1>5, <1>8, <2>2, <2>3, <2>4, <2>5, <2>6 DEF FlowInv
<1> QED
  BY <1>9, <1>10

-----------------------------------------------------------------------------
(* Recipes.                                                                *)

\* What make has to do when it begins a recipe, and what stays.
Beginning(g, after) ==
    /\ running /\ ~broken /\ g \in todo /\ g \notin jobs /\ after \cap todo = {}
    /\ jobs' = jobs \cup {g} /\ todo' = todo /\ Regr \notin jobs
    /\ running' = running /\ broken' = broken /\ status' = status /\ collected' = collected
    /\ status # "ok" /\ ~collected /\ edits' = edits
    /\ tests' = tests /\ compile_vars' = compile_vars /\ Logs' = Logs /\ Ymls' = Ymls
    /\ simulator' = simulator /\ matched' = matched /\ opts' = opts
    /\ tests \subseteq Tests /\ report \subseteq Tests
    /\ MakeShape' /\ SuccessTrue'

\* The same for the end of a recipe.
Ending(g, ok) ==
    /\ running /\ g \in todo /\ g \in jobs
    /\ jobs' = jobs \ {g} /\ todo' = todo \ {g}
    /\ running' = running /\ (broken' <=> broken \/ ~ok) /\ broken' \in BOOLEAN
    /\ status' = status /\ status # "ok" /\ ~(collected /\ ~broken) /\ edits' = edits
    /\ tests' = tests /\ compile_vars' = compile_vars /\ Logs' = Logs /\ Ymls' = Ymls
    /\ simulator' = simulator /\ matched' = matched /\ opts' = opts
    /\ tests \subseteq Tests /\ report \subseteq Tests
    /\ MakeShape'

\* The beginning of a recipe does no more than that.
LEMMA Begun ==
    ASSUME FlowInv, NEW g, NEW after, Begins(g, after)
    PROVE  Beginning(g, after)
<1>1. /\ running /\ ~broken /\ g \in todo /\ g \notin jobs /\ after \cap todo = {}
      /\ jobs' = jobs \cup {g} /\ todo' = todo
      /\ UNCHANGED <<context, opts, running, broken, status, collected>> /\ edits' = edits
  BY DEF Begins, bounds
<1>2. /\ tests' = tests /\ compile_vars' = compile_vars /\ Logs' = Logs /\ Ymls' = Ymls
      /\ simulator' = simulator /\ matched' = matched /\ opts' = opts
  BY <1>1, Frame
<1>3. Regr \notin jobs
  BY <1>1 DEF FlowInv, Order
<1>4. status # "ok"
  BY <1>1 DEF FlowInv, MakeShape
<1>5. ~collected
  BY <1>1 DEF FlowInv, SuccessTrue
<1>6. tests \subseteq Tests /\ report \subseteq Tests
  BY TestsListed DEF FlowInv, FlowTypes
<1>7. MakeShape'
  BY <1>1, <1>2 DEF FlowInv, MakeShape
<1>8. SuccessTrue'
  BY <1>1, <1>5 DEF SuccessTrue
<1> QED
  BY <1>1, <1>2, <1>3, <1>4, <1>5, <1>6, <1>7, <1>8 DEF Beginning

\* A recipe is ended as the invariant says.
LEMMA Ended ==
    ASSUME FlowInv, NEW g, NEW ok \in BOOLEAN, Ends(g, ok)
    PROVE  Ending(g, ok)
<1>1. /\ g \in jobs /\ jobs' = jobs \ {g} /\ todo' = todo \ {g}
      /\ (broken' <=> broken \/ ~ok) /\ broken' \in BOOLEAN
      /\ UNCHANGED <<context, opts, running, status>> /\ edits' = edits
  BY DEF Ends, bounds
<1>2. /\ tests' = tests /\ compile_vars' = compile_vars /\ Logs' = Logs /\ Ymls' = Ymls
      /\ simulator' = simulator /\ matched' = matched /\ opts' = opts
  BY <1>1, Frame
<1>3. g \in todo /\ running
  BY <1>1 DEF FlowInv, MakeShape
<1>4. status # "ok"
  BY <1>3 DEF FlowInv, MakeShape
<1>5. ~(collected /\ ~broken)
  BY <1>3 DEF FlowInv, SuccessTrue
<1>6. tests \subseteq Tests /\ report \subseteq Tests
  BY TestsListed DEF FlowInv, FlowTypes
<1>7. MakeShape'
  BY <1>1, <1>2, <1>4 DEF FlowInv, MakeShape
<1> QED
  BY <1>1, <1>2, <1>3, <1>4, <1>5, <1>6, <1>7 DEF Ending

\* The logs and results to be made are those of tests.
LEMMA ToBeMade ==
    ASSUME FlowInv
    PROVE  \A t : (Log(t) \in todo => t \in tests) /\ (Yml(t) \in todo => t \in tests)
<1> SUFFICES ASSUME NEW t PROVE (Log(t) \in todo => t \in tests) /\ (Yml(t) \in todo => t \in tests)
  OBVIOUS
<1>1. todo \subseteq {Bench, Copy, Regr} \cup Logs \cup Ymls
  BY DEF FlowInv, MakeShape
<1>2. Log(t) \in todo => Log(t) \in Logs
  BY <1>1, Names, Kinds
<1>3. Yml(t) \in todo => Yml(t) \in Ymls
  BY <1>1, Names, Kinds
<1> QED
  BY <1>2, <1>3, Kinds

\* While the bench is copied nothing else is in the making, and while results
\* are made or collected, nothing before them.
LEMMA Alone ==
    ASSUME FlowInv
    PROVE  /\ Copy \in todo => \A t : /\ Log(t) \notin jobs /\ Yml(t) \notin jobs
           /\ \A t : Log(t) \in todo => \A u : Yml(u) \notin jobs
           /\ \A t : Yml(t) \in jobs => Bench \notin todo /\ Copy \notin todo /\ \A u : Log(u) \notin todo
<1>1. jobs \subseteq todo
  BY DEF FlowInv, MakeShape
<1>2. Copy \in todo => \A t : /\ Log(t) \notin jobs /\ Yml(t) \notin jobs
  BY <1>1, ToBeMade DEF FlowInv, Order
<1>3. ASSUME NEW t, Log(t) \in todo, NEW u, Yml(u) \in jobs PROVE FALSE
  <2>1. t \in tests /\ u \in tests
    BY <1>1, <1>3, ToBeMade
  <2> QED
    BY <1>3, <2>1 DEF FlowInv, Order
<1>4. ASSUME NEW t, Yml(t) \in jobs PROVE Bench \notin todo /\ Copy \notin todo
  BY <1>2, <1>4 DEF FlowInv, Order
<1> QED
  BY <1>2, <1>3, <1>4

\* What a simulation leaves before it has begun.
LEMMA NoSimIsSim == NoSim \in Sims /\ NoBench \in Benches
<1>1. <<>> \in Seq(Lines) /\ "missing" \in Traces /\ NoBench \in Benches /\ {} \in SimSettings
  BY DEF Traces, Benches, SimSettings
<1> QED
  BY <1>1 DEF NoSim, Sims

\* make compile, begun.
LEMMA StartCompileInv == ASSUME FlowInv, StartCompile PROVE FlowInv'
<1>1. /\ Begins(Bench, {}) /\ saved' = compile_vars
      /\ UNCHANGED <<bench, copy, sim, result, report, fresh, miscompiled>>
  BY DEF StartCompile
<1>2. Beginning(Bench, {})
  BY <1>1, Begun
<1> USE DEF Beginning
<1>3. FlowTypes'
  <2>1. compile_vars \in Benches
    BY DEF FlowInv, FlowTypes, compile_vars, Benches
  <2> QED
    BY <1>1, <1>2, <2>1 DEF FlowInv, FlowTypes
<1>4. /\ Copy \in jobs' <=> Copy \in jobs
      /\ Regr \notin jobs'
      /\ \A t : (Log(t) \in jobs' <=> Log(t) \in jobs) /\ (Yml(t) \in jobs' <=> Yml(t) \in jobs)
  BY <1>2, Names
<1>5. Order'
  BY <1>2, <1>4 DEF FlowInv, Order
<1>6. UpToDate'
  BY <1>1, <1>2 DEF FlowInv, UpToDate
<1>7. InTheMaking'
  BY <1>1, <1>2, <1>4 DEF FlowInv, InTheMaking
<1>8. \A t : Successful(t)' <=> Successful(t)
  BY <1>1 DEF Successful
<1>9. ResultsTrue' /\ ReportTrue'
  BY <1>1, <1>2, <1>4, <1>8 DEF FlowInv, ResultsTrue, ReportTrue, Settled
<1>10. BenchChain'
  BY <1>1, <1>2 DEF FlowInv, BenchChain
<1> QED
  BY <1>2, <1>3, <1>5, <1>6, <1>7, <1>9, <1>10 DEF FlowInv

\* make compile, ended by success, by an error or by the time limit.
LEMMA EndCompileInv == ASSUME FlowInv, NEW how, EndCompile(how) PROVE FlowInv'
<1>1. /\ Ends(Bench, how # "error")
      /\ bench' \in (IF how = "ok" THEN {compile_vars} ELSE {bench, NoBench})
      /\ fresh' = (IF how = "error" THEN fresh ELSE Touch(Bench))
      /\ miscompiled' = (how # "ok")
      /\ UNCHANGED <<copy, sim, result, report, saved, collected>>
  BY DEF EndCompile
<1> DEFINE ok == how # "error"
<1>2. ok \in BOOLEAN /\ Ends(Bench, ok)
  BY <1>1
<1> HIDE DEF ok
<1>3. Ending(Bench, ok)
  BY <1>2, Ended
<1> USE DEF Ending
<1>4. FlowTypes'
  <2>1. compile_vars \in Benches
    BY DEF FlowInv, FlowTypes, compile_vars, Benches
  <2>2. bench' \in Benches
    BY <1>1, <2>1, NoSimIsSim DEF FlowInv, FlowTypes
  <2>3. miscompiled' \in BOOLEAN
    BY <1>1
  <2> QED
    BY <1>1, <1>3, <2>2, <2>3 DEF FlowInv, FlowTypes
<1>5. /\ \A g : g # Bench => (g \in jobs' <=> g \in jobs) /\ (g \in todo' <=> g \in todo)
      /\ \A g : g \notin {Bench, Copy} => (g \in fresh' <=> g \in fresh)
      /\ Copy \in fresh' => Copy \in fresh
      /\ ok => Copy \notin fresh'
  BY <1>1, <1>3, Touched, Names DEF ok
<1>6. saved = compile_vars /\ Copy \in todo /\ Copy \notin jobs /\ Regr \notin jobs
  BY <1>3, Names DEF FlowInv, InTheMaking, Order
<1>7. /\ (Copy \in jobs' <=> Copy \in jobs) /\ (Copy \in todo' <=> Copy \in todo)
      /\ (Regr \in jobs' <=> Regr \in jobs) /\ (Regr \in fresh' <=> Regr \in fresh)
      /\ \A t : /\ (Log(t) \in jobs' <=> Log(t) \in jobs) /\ (Yml(t) \in jobs' <=> Yml(t) \in jobs)
                /\ (Log(t) \in todo' <=> Log(t) \in todo) /\ (Yml(t) \in todo' <=> Yml(t) \in todo)
                /\ (Log(t) \in fresh' <=> Log(t) \in fresh) /\ (Yml(t) \in fresh' <=> Yml(t) \in fresh)
      /\ Bench \notin todo' /\ Bench \notin jobs'
  BY <1>3, <1>5, Names
<1>8. Order'
  BY <1>3, <1>6, <1>7 DEF FlowInv, Order
<1>9. UpToDate'
  <2>1. \A t \in tests : Log(t) \in todo
    BY <1>6 DEF FlowInv, Order
  <2> QED
    BY <1>1, <1>3, <1>6, <1>7, <2>1 DEF FlowInv, UpToDate
<1>10. InTheMaking'
  BY <1>1, <1>3, <1>5, <1>6, <1>7 DEF FlowInv, InTheMaking
<1>11. \A t : Successful(t)' <=> Successful(t)
  BY <1>1 DEF Successful
<1>12. ResultsTrue' /\ ReportTrue'
  BY <1>1, <1>3, <1>7, <1>11 DEF FlowInv, ResultsTrue, ReportTrue, Settled
<1>13. SuccessTrue'
  BY <1>1, <1>3 DEF SuccessTrue
<1>14. BenchChain'
  <2>1. ASSUME ~miscompiled' PROVE bench' = saved' /\ Copy \notin fresh'
    BY <1>1, <1>5, <1>6, <2>1 DEF ok
  <2>2. \A t \in Tests : Log(t) \in fresh' =>
           /\ sim'[t].bench = copy'
           /\ simulator \in OneStep \/ edits = 0 => sim'[t].opts = SIM_OPTS(simulator, opts.config)
    BY <1>1, <1>7 DEF FlowInv, BenchChain
  <2> QED
    BY <1>3, <2>1, <2>2 DEF BenchChain
<1> QED
  BY <1>3, <1>4, <1>8, <1>9, <1>10, <1>12, <1>13, <1>14 DEF FlowInv

\* The copy of the bench, begun.
LEMMA StartCopyInv == ASSUME FlowInv, StartCopy PROVE FlowInv'
<1>1. /\ Begins(Copy, {Bench}) /\ copy' = NoBench
      /\ sim' = [t \in Tests |-> NoSim] /\ result' = [t \in Tests |-> "absent"]
      /\ fresh' = fresh \ (AllLogs \cup AllYmls \cup {Regr})
      /\ UNCHANGED <<bench, report, saved, miscompiled>>
  BY DEF StartCopy
<1>2. Beginning(Copy, {Bench})
  BY <1>1, Begun
<1> USE DEF Beginning
<1>3. FlowTypes'
  <2>1. sim' \in [Tests -> Sims] /\ result' \in [Tests -> Results] /\ copy' \in Benches
    BY <1>1, NoSimIsSim DEF Results
  <2> QED
    BY <1>1, <1>2, <2>1 DEF FlowInv, FlowTypes
<1>4. Bench \notin todo /\ Copy \notin fresh
  BY <1>2 DEF FlowInv, InTheMaking
<1>5. \A t \in Tests : Log(t) \notin fresh' /\ Yml(t) \notin fresh'
  BY <1>1, Kinds
<1>6. Regr \notin fresh' /\ Copy \notin fresh'
  BY <1>1, <1>4
<1>7. \A t : Log(t) \notin jobs' /\ Yml(t) \notin jobs'
  BY <1>2, Alone, Names
<1>8. Regr \notin jobs' /\ (Bench \in jobs' <=> Bench \in jobs)
  BY <1>2, Names
<1>9. Order'
  BY <1>2, <1>4, <1>7, <1>8 DEF FlowInv, Order
<1>10. UpToDate'
  <2>1. \A t \in tests : Log(t) \in todo /\ Yml(t) \in todo
    BY <1>2 DEF FlowInv, Order
  <2> QED
    BY <1>1, <1>2, <2>1 DEF FlowInv, UpToDate
<1>11. InTheMaking'
  BY <1>1, <1>2, <1>5, <1>6, <1>7, <1>8 DEF FlowInv, InTheMaking
<1>12. ResultsTrue' /\ ReportTrue'
  BY <1>5, <1>6 DEF ResultsTrue, ReportTrue
<1>13. BenchChain'
  BY <1>1, <1>5, <1>6, <1>8 DEF FlowInv, BenchChain
<1> QED
  BY <1>2, <1>3, <1>9, <1>10, <1>11, <1>12, <1>13 DEF FlowInv

\* The copy of the bench, ended.
LEMMA EndCopyInv == ASSUME FlowInv, EndCopy PROVE FlowInv'
<1>1. /\ Ends(Copy, TRUE) /\ copy' = bench /\ fresh' = (fresh \ AllLogs) \cup {Copy}
      /\ UNCHANGED <<bench, sim, result, report, saved, collected, miscompiled>>
  BY Touched DEF EndCopy
<1>2. Ending(Copy, TRUE)
  BY <1>1, Ended
<1> USE DEF Ending
<1>3. FlowTypes'
  BY <1>1, <1>2 DEF FlowInv, FlowTypes
<1>4. /\ Bench \notin todo /\ Bench \notin jobs /\ Regr \notin jobs
      /\ Regr \notin fresh /\ \A t \in Tests : Log(t) \notin fresh /\ Yml(t) \notin fresh
  BY <1>2, Names DEF FlowInv, InTheMaking, Order, MakeShape
<1>5. \A t \in Tests : Log(t) \notin fresh' /\ Yml(t) \notin fresh'
  BY <1>1, <1>4, Names
<1>6. \A t : Log(t) \notin jobs' /\ Yml(t) \notin jobs'
  BY <1>2, Alone
<1>7. /\ Bench \notin todo' /\ Copy \notin todo' /\ Copy \in fresh' /\ Regr \notin fresh'
      /\ Bench \notin jobs' /\ Copy \notin jobs' /\ Regr \notin jobs'
  BY <1>1, <1>2, <1>4, Names
<1>8. \A t \in tests : Log(t) \in todo' /\ Yml(t) \in todo'
  BY <1>2, Names DEF FlowInv, Order
<1>9. Order'
  BY <1>2, <1>6, <1>7, <1>8 DEF Order
<1>10. UpToDate'
  BY <1>1, <1>2, <1>4, <1>7, <1>8 DEF FlowInv, UpToDate
<1>11. InTheMaking'
  BY <1>6, <1>7 DEF InTheMaking
<1>12. ResultsTrue' /\ ReportTrue' /\ SuccessTrue'
  BY <1>1, <1>2, <1>5, <1>7 DEF ResultsTrue, ReportTrue, SuccessTrue
<1>13. BenchChain'
  BY <1>1, <1>4, <1>5 DEF FlowInv, BenchChain
<1> QED
  BY <1>2, <1>3, <1>9, <1>10, <1>11, <1>12, <1>13 DEF FlowInv

\* A simulation that run_rtl.py cannot start.
LEMMA RefuseSimInv == ASSUME FlowInv, NEW t \in Tests, RefuseSim(t) PROVE FlowInv'
<1>1. /\ running /\ ~broken /\ Log(t) \in todo /\ Log(t) \notin jobs /\ {Bench, Copy} \cap todo = {}
      /\ todo' = todo \ {Log(t)} /\ broken' = TRUE
      /\ UNCHANGED <<context, opts, files, fresh, running, jobs, status, collected, miscompiled, bounds>>
  BY DEF RefuseSim
<1>2. /\ tests' = tests /\ compile_vars' = compile_vars /\ Logs' = Logs /\ Ymls' = Ymls
      /\ simulator' = simulator /\ matched' = matched /\ opts' = opts
  BY <1>1, Frame
<1>3. /\ bench' = bench /\ copy' = copy /\ sim' = sim /\ result' = result /\ report' = report
      /\ saved' = saved /\ edits' = edits
  BY <1>1 DEF files, bounds
<1>4. FlowTypes'
  BY <1>1, <1>2, <1>3 DEF FlowInv, FlowTypes
<1>5. status # "ok" /\ Regr \notin jobs /\ Bench \notin todo /\ Copy \notin todo
  BY <1>1, Names DEF FlowInv, MakeShape, Order
<1>6. MakeShape'
  BY <1>1, <1>2, <1>5 DEF FlowInv, MakeShape
<1>7. \A u : (Log(u) \in todo' => Log(u) \in todo) /\ (Yml(u) \in todo' <=> Yml(u) \in todo)
  BY <1>1, Names
<1>8. Bench \notin todo' /\ Copy \notin todo'
  BY <1>1, <1>5
<1>9. Order'
  BY <1>1, <1>2, <1>5, <1>7, <1>8 DEF FlowInv, Order
<1>10. UpToDate'
  BY <1>1, <1>2, <1>5, <1>7 DEF FlowInv, UpToDate
<1>11. InTheMaking'
  BY <1>1, <1>2, <1>3, <1>5, <1>7, <1>8 DEF FlowInv, InTheMaking
<1>12. \A u : Successful(u)' <=> Successful(u)
  BY <1>3 DEF Successful
<1>13. ReportTrue'
  BY <1>1, <1>3, <1>5, <1>7, <1>12 DEF FlowInv, ReportTrue, Settled
<1>14. ResultsTrue' /\ SuccessTrue'
  BY <1>1, <1>3, <1>5, <1>12 DEF FlowInv, ResultsTrue, Settled, SuccessTrue
<1>15. BenchChain'
  BY <1>1, <1>2, <1>3 DEF FlowInv, BenchChain
<1> QED
  BY <1>4, <1>6, <1>9, <1>10, <1>11, <1>13, <1>14, <1>15 DEF FlowInv

\* A simulation, begun.
LEMMA StartSimInv == ASSUME FlowInv, NEW t \in Tests, StartSim(t) PROVE FlowInv'
<1> DEFINE begun == [NoSim EXCEPT !.bench = copy, !.opts = SIM_OPTS(simulator, opts.config)]
<1>1. /\ Begins(Log(t), {Bench, Copy})
      /\ sim' = [sim EXCEPT ![t] = begun]
      /\ fresh' = (fresh \ AllYmls) \cup {Log(t)}
      /\ UNCHANGED <<bench, copy, result, report, saved, miscompiled>>
  BY Touched DEF StartSim
<1>2. Beginning(Log(t), {Bench, Copy})
  BY <1>1, Begun
<1> USE DEF Beginning
<1>3. FlowTypes'
  <2>1. SIM_OPTS(simulator, opts.config) \in SimSettings
    BY DEF FlowInv, FlowTypes, SimSettings
  <2>2. begun \in Sims
    BY <2>1, NoSimIsSim DEF Sims, FlowInv, FlowTypes
  <2> HIDE DEF begun
  <2>3. sim' \in [Tests -> Sims]
    BY <1>1, <2>2 DEF FlowInv, FlowTypes
  <2> QED
    BY <1>1, <1>2, <2>3 DEF FlowInv, FlowTypes
<1>4. /\ sim'[t].bench = copy /\ sim'[t].opts = SIM_OPTS(simulator, opts.config)
      /\ \A u \in Tests : u # t => sim'[u] = sim[u]
  BY <1>1 DEF FlowInv, FlowTypes, NoSim
<1> HIDE DEF begun
<1>5. t \in tests /\ Bench \notin todo /\ Copy \notin todo
  BY <1>2, ToBeMade
<1>6. /\ \A u : Yml(u) \notin jobs'
      /\ \A u : Log(u) \in jobs' => Log(u) \in jobs \/ u = t
      /\ \A u : Log(u) \in jobs => Log(u) \in jobs'
      /\ Regr \notin jobs' /\ (Bench \in jobs' <=> Bench \in jobs) /\ (Copy \in jobs' <=> Copy \in jobs)
  BY <1>2, Alone, Names
<1>7. /\ \A u \in Tests : Yml(u) \notin fresh'
      /\ \A u : Log(u) \in fresh' <=> Log(u) \in fresh \/ u = t
      /\ Log(t) \in fresh'
      /\ (Copy \in fresh' <=> Copy \in fresh) /\ (Regr \in fresh' <=> Regr \in fresh)
  BY <1>1, Names, Kinds
<1>8. Order'
  BY <1>2, <1>5, <1>6 DEF FlowInv, Order
<1>9. UpToDate'
  <2>1. \A u \in tests : Yml(u) \in todo
    BY <1>2, <1>5 DEF FlowInv, Order
  <2> QED
    BY <1>1, <1>2, <1>7, <2>1 DEF FlowInv, UpToDate
<1>10. InTheMaking'
  <2>1. Copy \notin jobs
    BY <1>5 DEF FlowInv, MakeShape
  <2> QED
    BY <1>1, <1>2, <1>5, <1>6, <1>7, <2>1 DEF FlowInv, InTheMaking
<1>11. ResultsTrue'
  BY <1>7 DEF ResultsTrue
<1>12. ReportTrue'
  <2> SUFFICES ASSUME Regr \in fresh, NEW u \in report
               PROVE  Settled(u)' /\ (Log(u) \in todo => Copy \in todo)
    BY <1>1, <1>2, <1>7 DEF ReportTrue
  <2>1. Settled(u) /\ (Log(u) \in todo => Copy \in todo)
    BY DEF FlowInv, ReportTrue
  <2>2. u # t /\ u \in Tests
    BY <1>2, <1>5, <2>1
  <2>3. sim'[u] = sim[u]
    BY <1>4, <2>2
  <2>4. Successful(u)' <=> Successful(u)
    BY <2>3, SameSim
  <2> QED
    BY <1>6, <1>7, <2>1, <2>2, <2>4 DEF Settled
<1>13. BenchChain'
  BY <1>1, <1>2, <1>4, <1>6, <1>7 DEF FlowInv, BenchChain
<1> QED
  BY <1>2, <1>3, <1>8, <1>9, <1>10, <1>11, <1>12, <1>13 DEF FlowInv

\* A simulation, ended.
LEMMA EndSimInv == ASSUME FlowInv, NEW t \in Tests, NEW o \in Outcomes, EndSim(t, o) PROVE FlowInv'
<1>1. /\ Ends(Log(t), TRUE)
      /\ sim' = [sim EXCEPT ![t].log = o.log, ![t].trace = o.trace]
      /\ UNCHANGED <<bench, copy, result, report, saved, fresh, collected, miscompiled>>
  BY DEF EndSim
<1>2. Ending(Log(t), TRUE)
  BY <1>1, Ended
<1> USE DEF Ending
<1>3. /\ sim'[t] = [sim[t] EXCEPT !.log = o.log, !.trace = o.trace]
      /\ \A u \in Tests : u # t => sim'[u] = sim[u]
      /\ sim' \in [Tests -> Sims]
  <2>1. sim \in [Tests -> Sims] /\ sim[t] \in Sims
    BY DEF FlowInv, FlowTypes
  <2>2. o.log \in Seq(Lines) /\ o.trace \in Traces
    BY FlowAssumption
  <2>3. [sim[t] EXCEPT !.log = o.log, !.trace = o.trace] \in Sims
    BY <2>1, <2>2 DEF Sims
  <2>4. sim' = [sim EXCEPT ![t] = [sim[t] EXCEPT !.log = o.log, !.trace = o.trace]]
    BY <1>1, <2>1
  <2> QED
    BY <2>1, <2>3, <2>4
<1>4. FlowTypes'
  BY <1>1, <1>2, <1>3 DEF FlowInv, FlowTypes
<1>5. /\ \A u : (Log(u) \in todo' => Log(u) \in todo) /\ (Yml(u) \in todo' <=> Yml(u) \in todo)
      /\ \A u : (Log(u) \in jobs' => Log(u) \in jobs) /\ (Yml(u) \in jobs' <=> Yml(u) \in jobs)
      /\ \A u : u # t => (Log(u) \in todo' <=> Log(u) \in todo)
      /\ \A g \in {Bench, Copy, Regr} : (g \in todo' <=> g \in todo) /\ (g \in jobs' <=> g \in jobs)
  BY <1>2, Names
<1>6. Copy \notin todo /\ Bench \notin todo /\ Regr \notin jobs
  BY <1>2, Alone, Names DEF FlowInv, Order
<1>7. Order'
  BY <1>2, <1>5, <1>6 DEF FlowInv, Order
<1>8. UpToDate'
  <2>1. Log(t) \in fresh
    BY <1>2 DEF FlowInv, InTheMaking
  <2> QED
    BY <1>1, <1>2, <1>5, <2>1 DEF FlowInv, UpToDate
<1>9. InTheMaking'
  BY <1>1, <1>2, <1>5 DEF FlowInv, InTheMaking
<1>10. ASSUME NEW u \in Tests, Settled(u) PROVE Settled(u)'
  <2>1. u # t
    BY <1>2, <1>10 DEF Settled
  <2>2. sim'[u] = sim[u]
    BY <1>3, <2>1
  <2>3. Successful(u)' <=> Successful(u)
    BY <2>2, SameSim
  <2> QED
    BY <1>1, <1>5, <1>10, <2>3 DEF Settled
<1>11. ResultsTrue'
  BY <1>1, <1>10 DEF FlowInv, ResultsTrue
<1>12. ReportTrue'
  BY <1>1, <1>2, <1>5, <1>10 DEF FlowInv, ReportTrue
<1>13. SuccessTrue'
  BY <1>1, <1>2 DEF SuccessTrue
<1>14. BenchChain'
  <2>1. \A u \in Tests : sim'[u].bench = sim[u].bench /\ sim'[u].opts = sim[u].opts
    <3>1. sim[t] \in Sims
      BY DEF FlowInv, FlowTypes
    <3>2. sim'[t].bench = sim[t].bench /\ sim'[t].opts = sim[t].opts
      BY <1>3, <3>1 DEF Sims
    <3> QED
      BY <1>3, <3>2
  <2> QED
    BY <1>1, <1>2, <1>5, <2>1 DEF FlowInv, BenchChain
<1> QED
  BY <1>2, <1>4, <1>7, <1>8, <1>9, <1>11, <1>12, <1>13, <1>14 DEF FlowInv

\* A comparison, begun.
LEMMA StartCompareInv == ASSUME FlowInv, NEW t \in Tests, StartCompare(t) PROVE FlowInv'
<1>1. /\ Begins(Yml(t), {Bench, Copy} \cup Logs)
      /\ result' = [result EXCEPT ![t] = "empty"]
      /\ fresh' = (fresh \ {Regr}) \cup {Yml(t)}
      /\ UNCHANGED <<bench, copy, sim, report, saved, miscompiled>>
  BY Touched DEF StartCompare
<1>2. Beginning(Yml(t), {Bench, Copy} \cup Logs)
  BY <1>1, Begun
<1> USE DEF Beginning
<1>3. FlowTypes'
  <2>1. result' \in [Tests -> Results]
    BY <1>1 DEF FlowInv, FlowTypes, Results
  <2> QED
    BY <1>1, <1>2, <2>1 DEF FlowInv, FlowTypes
<1>4. t \in tests /\ Bench \notin todo /\ Copy \notin todo /\ \A u : Log(u) \notin todo
  <2>1. \A u \in tests : Log(u) \notin todo
    BY <1>2 DEF Logs
  <2> QED
    BY <1>2, <2>1, ToBeMade
<1>5. /\ \A u : Yml(u) \in jobs' => Yml(u) \in jobs \/ u = t
      /\ \A u : Log(u) \in jobs' <=> Log(u) \in jobs
      /\ Regr \notin jobs' /\ (Bench \in jobs' <=> Bench \in jobs) /\ (Copy \in jobs' <=> Copy \in jobs)
  BY <1>2, Names
<1>6. /\ \A u : Yml(u) \in fresh' <=> Yml(u) \in fresh \/ u = t
      /\ \A u : Log(u) \in fresh' <=> Log(u) \in fresh
      /\ (Copy \in fresh' <=> Copy \in fresh) /\ Regr \notin fresh'
  BY <1>1, Names
<1>7. Order'
  BY <1>2, <1>4, <1>5 DEF Order
<1>8. UpToDate'
  BY <1>1, <1>2, <1>6 DEF FlowInv, UpToDate
<1>9. InTheMaking'
  <2>1. Log(t) \in fresh
    BY <1>2, <1>4 DEF FlowInv, UpToDate
  <2>2. Copy \notin jobs
    BY <1>4 DEF FlowInv, MakeShape
  <2> QED
    BY <1>1, <1>2, <1>4, <1>5, <1>6, <2>1, <2>2 DEF FlowInv, InTheMaking
<1>10. ResultsTrue'
  <2> SUFFICES ASSUME NEW u \in Tests, Yml(u) \in fresh', result'[u] = "passed" PROVE Settled(u)'
    BY DEF ResultsTrue
  <2>1. u # t /\ result[u] = "passed"
    BY <1>1 DEF FlowInv, FlowTypes
  <2>2. Settled(u)
    BY <1>6, <2>1 DEF FlowInv, ResultsTrue
  <2>3. Successful(u)' <=> Successful(u)
    BY <1>1, SameSim
  <2> QED
    BY <1>5, <1>6, <2>2, <2>3 DEF Settled
<1>11. ReportTrue'
  BY <1>6 DEF ReportTrue
<1>12. BenchChain'
  BY <1>1, <1>2, <1>5, <1>6 DEF FlowInv, BenchChain
<1> QED
  BY <1>2, <1>3, <1>7, <1>8, <1>9, <1>10, <1>11, <1>12 DEF FlowInv

\* A comparison, ended.
LEMMA EndCompareInv == ASSUME FlowInv, NEW t \in Tests, EndCompare(t) PROVE FlowInv'
<1>1. /\ Ends(Yml(t), TRUE)
      /\ result' = [result EXCEPT ![t] = compare_test_run(t, sim[t])]
      /\ UNCHANGED <<bench, copy, sim, report, saved, fresh, collected, miscompiled>>
  BY DEF EndCompare
<1>2. Ending(Yml(t), TRUE)
  BY <1>1, Ended
<1> USE DEF Ending
<1>3. FlowTypes'
  <2>1. result' \in [Tests -> Results]
    BY <1>1 DEF FlowInv, FlowTypes, Results, compare_test_run
  <2> QED
    BY <1>1, <1>2, <2>1 DEF FlowInv, FlowTypes
<1>4. Bench \notin todo /\ Copy \notin todo /\ (\A u : Log(u) \notin todo) /\ Regr \notin jobs
  BY <1>2, Alone, Names DEF FlowInv, Order
<1>5. /\ \A u : (Log(u) \in todo' <=> Log(u) \in todo) /\ (Yml(u) \in todo' => Yml(u) \in todo)
      /\ \A u : (Log(u) \in jobs' <=> Log(u) \in jobs) /\ (Yml(u) \in jobs' => Yml(u) \in jobs)
      /\ \A u : u # t => (Yml(u) \in todo' <=> Yml(u) \in todo)
      /\ \A g \in {Bench, Copy, Regr} : (g \in todo' <=> g \in todo) /\ (g \in jobs' <=> g \in jobs)
  BY <1>2, Names
<1>6. Yml(t) \in fresh /\ Log(t) \in fresh /\ Log(t) \notin jobs
  BY <1>2, <1>4 DEF FlowInv, InTheMaking, MakeShape
<1>7. Order'
  BY <1>2, <1>4, <1>5 DEF Order
<1>8. UpToDate'
  BY <1>1, <1>2, <1>5, <1>6 DEF FlowInv, UpToDate
<1>9. InTheMaking'
  BY <1>1, <1>2, <1>5 DEF FlowInv, InTheMaking
<1>10. ASSUME NEW u \in Tests, Settled(u) PROVE Settled(u)'
  <2>1. Successful(u)' <=> Successful(u)
    BY <1>1, SameSim
  <2> QED
    BY <1>1, <1>5, <1>10, <2>1 DEF Settled
<1>11. ResultsTrue'
  <2> SUFFICES ASSUME NEW u \in Tests, Yml(u) \in fresh, result'[u] = "passed" PROVE Settled(u)
    BY <1>1, <1>10 DEF ResultsTrue
  <2>1. CASE u = t
    <3>1. compare_test_run(t, sim[t]) = "passed"
      BY <1>1, <2>1 DEF FlowInv, FlowTypes
    <3>2. Successful(t)
      BY <3>1, VerdictTrue DEF FlowInv
    <3> QED
      BY <1>6, <2>1, <3>2 DEF Settled
  <2>2. CASE u # t
    <3>1. result[u] = "passed"
      BY <1>1, <2>2 DEF FlowInv, FlowTypes
    <3> QED
      BY <3>1 DEF FlowInv, ResultsTrue
  <2> QED
    BY <2>1, <2>2
<1>12. ReportTrue'
  BY <1>1, <1>2, <1>5, <1>10 DEF FlowInv, ReportTrue
<1>13. SuccessTrue'
  BY <1>1, <1>2 DEF SuccessTrue
<1>14. BenchChain'
  BY <1>1, <1>2, <1>5 DEF FlowInv, BenchChain
<1> QED
  BY <1>2, <1>3, <1>7, <1>8, <1>9, <1>11, <1>12, <1>13, <1>14 DEF FlowInv

\* The collection of the results, begun.
LEMMA StartCollectInv == ASSUME FlowInv, StartCollect PROVE FlowInv'
<1>1. /\ Begins(Regr, {Bench, Copy} \cup Logs \cup Ymls)
      /\ UNCHANGED <<files, fresh, miscompiled>>
  BY DEF StartCollect
<1>2. Beginning(Regr, {Bench, Copy} \cup Logs \cup Ymls)
  BY <1>1, Begun
<1> USE DEF Beginning
<1>3. /\ bench' = bench /\ copy' = copy /\ sim' = sim /\ result' = result /\ report' = report
      /\ saved' = saved
  BY <1>1 DEF files
<1>4. FlowTypes'
  BY <1>1, <1>2, <1>3 DEF FlowInv, FlowTypes
<1>5. todo = {Regr}
  BY <1>2 DEF FlowInv, MakeShape
<1>6. /\ Bench \notin todo /\ Copy \notin todo /\ Bench \notin jobs' /\ Copy \notin jobs'
      /\ \A u : /\ Log(u) \notin todo /\ Yml(u) \notin todo
                /\ Log(u) \notin jobs' /\ Yml(u) \notin jobs' /\ Log(u) \notin jobs
      /\ Bench \notin jobs
  BY <1>2, <1>5, Names DEF FlowInv, MakeShape
<1>7. Order' /\ InTheMaking'
  BY <1>2, <1>5, <1>6 DEF Order, InTheMaking
<1>8. UpToDate'
  BY <1>1, <1>2, <1>3 DEF FlowInv, UpToDate
<1>9. \A u : Successful(u)' <=> Successful(u)
  BY <1>3 DEF Successful
<1>10. ResultsTrue' /\ ReportTrue'
  BY <1>1, <1>2, <1>3, <1>6, <1>9 DEF FlowInv, ResultsTrue, ReportTrue, Settled
<1>11. BenchChain'
  BY <1>1, <1>2, <1>3, <1>6 DEF FlowInv, BenchChain
<1> QED
  BY <1>2, <1>4, <1>7, <1>8, <1>10, <1>11 DEF FlowInv

\* The collection of the results, ended.
LEMMA EndCollectInv == ASSUME FlowInv, EndCollect PROVE FlowInv'
<1> DEFINE ok == Readable /\ Succeeds
<1>1. /\ Ends(Regr, ok)
      /\ report' = (IF Readable THEN PassingTests ELSE report)
      /\ fresh' = (IF Readable THEN fresh \cup {Regr} ELSE fresh)
      /\ collected' = Readable
      /\ UNCHANGED <<bench, copy, sim, result, saved, miscompiled>>
  BY DEF EndCollect
<1>2. ok \in BOOLEAN /\ Readable \in BOOLEAN
  BY DEF Readable, Succeeds
<1> HIDE DEF ok
<1>3. Ending(Regr, ok)
  BY <1>1, <1>2, Ended
<1> USE DEF Ending
<1>4. todo = {Regr} /\ todo' = {} /\ jobs' = {}
  BY <1>3 DEF FlowInv, Order, MakeShape
<1>5. /\ Bench \notin todo /\ Copy \notin todo
      /\ \A u : Log(u) \notin todo /\ Yml(u) \notin todo /\ Log(u) \notin jobs
      /\ Bench \notin jobs
  BY <1>4, Names DEF FlowInv, MakeShape
<1>6. /\ \A u : (Log(u) \in fresh' <=> Log(u) \in fresh) /\ (Yml(u) \in fresh' <=> Yml(u) \in fresh)
      /\ (Copy \in fresh' <=> Copy \in fresh)
  BY <1>1, Names
<1>7. FlowTypes'
  <2>1. report' \subseteq Tests
    BY <1>1, <1>3 DEF PassingTests
  <2> QED
    BY <1>1, <1>2, <1>3, <2>1 DEF FlowInv, FlowTypes
<1>8. Order' /\ InTheMaking'
  BY <1>4 DEF Order, InTheMaking
<1>9. UpToDate'
  BY <1>1, <1>3, <1>5, <1>6 DEF FlowInv, UpToDate
<1>10. \A u : Settled(u)' <=> Settled(u)
  <2>1. \A u : Successful(u)' <=> Successful(u)
    BY <1>1 DEF Successful
  <2> QED
    BY <1>4, <1>5, <1>6, <2>1 DEF Settled
<1>11. \A u \in tests : result[u] = "passed" => Settled(u)
  BY <1>3, <1>5 DEF FlowInv, UpToDate, ResultsTrue
<1>12. ResultsTrue'
  BY <1>1, <1>6, <1>10 DEF FlowInv, ResultsTrue
<1>13. ReportTrue'
  BY <1>1, <1>4, <1>10, <1>11 DEF FlowInv, ReportTrue, PassingTests
<1>14. SuccessTrue'
  <2> SUFFICES ASSUME Readable, ok PROVE tests # {} /\ \A u \in tests : Successful(u)'
    BY <1>1, <1>3, <1>4 DEF SuccessTrue
  <2>1. tests # {} /\ \A u \in tests : result[u] = "passed"
    BY DEF ok, Succeeds, FailingTests
  <2> QED
    BY <1>10, <1>11, <2>1 DEF Settled
<1>15. BenchChain'
  BY <1>1, <1>3, <1>4, <1>5, <1>6 DEF FlowInv, BenchChain
<1> QED
  BY <1>3, <1>7, <1>8, <1>9, <1>12, <1>13, <1>14, <1>15 DEF FlowInv

-----------------------------------------------------------------------------
(* The end of a run of make.                                               *)

\* Make has done what it can.
LEMMA FinishInv == ASSUME FlowInv, Finish PROVE FlowInv'
<1>1. /\ running /\ NothingLeft
      /\ running' = FALSE /\ todo' = {} /\ status' = (IF broken THEN "failed" ELSE "ok")
      /\ UNCHANGED <<context, opts, files, fresh, jobs, broken, collected, miscompiled, bounds>>
  BY DEF Finish
<1>2. /\ tests' = tests /\ compile_vars' = compile_vars /\ Logs' = Logs /\ Ymls' = Ymls
      /\ simulator' = simulator /\ matched' = matched /\ opts' = opts
  BY <1>1, Frame
<1>3. /\ bench' = bench /\ copy' = copy /\ sim' = sim /\ result' = result /\ report' = report
      /\ saved' = saved /\ edits' = edits
  BY <1>1 DEF files, bounds
<1>4. jobs = {} /\ jobs' = {} /\ (~broken => todo = {})
  BY <1>1 DEF NothingLeft, FlowInv, MakeShape
<1>5. FlowTypes'
  BY <1>1, <1>2, <1>3 DEF FlowInv, FlowTypes
<1>6. MakeShape' /\ Order' /\ InTheMaking'
  BY <1>1, <1>2, <1>4 DEF MakeShape, Order, InTheMaking
<1>7. UpToDate'
  BY <1>1, <1>2, <1>3, <1>4 DEF FlowInv, UpToDate
<1>8. \A u : Successful(u)' <=> Successful(u)
  BY <1>3 DEF Successful
<1>9. ResultsTrue' /\ ReportTrue' /\ SuccessTrue'
  BY <1>1, <1>2, <1>3, <1>4, <1>8 DEF FlowInv, ResultsTrue, ReportTrue, SuccessTrue, Settled
<1>10. BenchChain'
  BY <1>1, <1>2, <1>3, <1>4 DEF FlowInv, BenchChain
<1> QED
  BY <1>5, <1>6, <1>7, <1>9, <1>10 DEF FlowInv

\* What does not depend on how make is stopped.
LEMMA StoppedInv ==
    ASSUME FlowInv, Stopped, UNCHANGED <<context, opts, broken>>
    PROVE  /\ MakeShape' /\ Order' /\ UpToDate' /\ InTheMaking' /\ SuccessTrue'
           /\ todo' = {} /\ jobs' = {} /\ running' = FALSE /\ status' = "failed"
           /\ miscompiled' \in BOOLEAN /\ (~miscompiled' => ~miscompiled /\ Bench \notin jobs)
<1>1. /\ running' = FALSE /\ todo' = {} /\ jobs' = {} /\ status' = "failed"
      /\ miscompiled' = (miscompiled \/ Bench \in jobs)
  BY DEF Stopped
<1> QED
  BY <1>1 DEF MakeShape, Order, UpToDate, InTheMaking, SuccessTrue

\* Make is interrupted.
LEMMA InterruptInv == ASSUME FlowInv, Interrupt PROVE FlowInv'
<1>1. /\ sim' = [t \in Tests |-> IF Log(t) \in jobs THEN NoSim ELSE sim[t]]
      /\ result' = [t \in Tests |-> IF Yml(t) \in jobs THEN "absent" ELSE result[t]]
      /\ fresh' = fresh \ (jobs \cap (AllLogs \cup AllYmls))
      /\ Stopped
      /\ UNCHANGED <<context, opts, bench, copy, report, saved, broken, collected, edits>>
  BY DEF Interrupt
<1>2. /\ tests' = tests /\ simulator' = simulator /\ matched' = matched /\ opts' = opts
  BY <1>1, Frame
<1>3. /\ MakeShape' /\ Order' /\ UpToDate' /\ InTheMaking' /\ SuccessTrue'
      /\ todo' = {} /\ jobs' = {} /\ running' = FALSE /\ status' = "failed"
      /\ miscompiled' \in BOOLEAN /\ (~miscompiled' => ~miscompiled /\ Bench \notin jobs)
  BY <1>1, StoppedInv
<1>4. FlowTypes'
  <2>1. sim' \in [Tests -> Sims] /\ result' \in [Tests -> Results]
    BY <1>1, NoSimIsSim DEF FlowInv, FlowTypes, Results
  <2> QED
    BY <1>1, <1>2, <1>3, <2>1 DEF FlowInv, FlowTypes
<1>5. /\ \A t \in Tests : Log(t) \in fresh' <=> Log(t) \in fresh /\ Log(t) \notin jobs
      /\ \A t \in Tests : Yml(t) \in fresh' <=> Yml(t) \in fresh /\ Yml(t) \notin jobs
      /\ fresh' \subseteq fresh
  BY <1>1, Kinds
<1>6. ASSUME NEW t \in Tests, Settled(t) PROVE Settled(t)'
  <2>1. sim'[t] = sim[t]
    BY <1>1, <1>6 DEF Settled
  <2>2. Successful(t)' <=> Successful(t)
    BY <2>1, SameSim
  <2> QED
    BY <1>3, <1>5, <1>6, <2>2 DEF Settled
<1>7. ResultsTrue'
  <2> SUFFICES ASSUME NEW t \in Tests, Yml(t) \in fresh', result'[t] = "passed" PROVE Settled(t)
    BY <1>6 DEF ResultsTrue
  <2>1. result[t] = "passed"
    BY <1>1, <1>5
  <2> QED
    BY <1>5, <2>1 DEF FlowInv, ResultsTrue
<1>8. ReportTrue'
  BY <1>1, <1>3, <1>5, <1>6 DEF FlowInv, FlowTypes, ReportTrue
<1>9. BenchChain'
  <2>1. \A t \in Tests : Log(t) \in fresh' => Log(t) \in fresh /\ sim'[t] = sim[t]
    BY <1>1, <1>5
  <2> QED
    BY <1>1, <1>2, <1>3, <1>5, <2>1 DEF FlowInv, BenchChain
<1> QED
  BY <1>3, <1>4, <1>7, <1>8, <1>9 DEF FlowInv

\* Make is killed.
LEMMA KillInv == ASSUME FlowInv, Kill PROVE FlowInv'
<1>1. PICK cut \in SUBSET {t \in Tests : Yml(t) \in jobs} :
         result' = [t \in Tests |-> IF t \in cut THEN "partial" ELSE result[t]]
  BY DEF Kill
<1>2. /\ Stopped
      /\ UNCHANGED <<context, opts, bench, copy, sim, report, saved, fresh, broken, collected, edits>>
  BY DEF Kill
<1>3. /\ tests' = tests /\ simulator' = simulator /\ matched' = matched /\ opts' = opts
  BY <1>2, Frame
<1>4. /\ MakeShape' /\ Order' /\ UpToDate' /\ InTheMaking' /\ SuccessTrue'
      /\ todo' = {} /\ jobs' = {} /\ running' = FALSE /\ status' = "failed"
      /\ miscompiled' \in BOOLEAN /\ (~miscompiled' => ~miscompiled /\ Bench \notin jobs)
  BY <1>2, StoppedInv
<1>5. FlowTypes'
  <2>1. result' \in [Tests -> Results]
    BY <1>1 DEF FlowInv, FlowTypes, Results
  <2> QED
    BY <1>2, <1>3, <1>4, <2>1 DEF FlowInv, FlowTypes
<1>6. ASSUME NEW t, Settled(t) PROVE Settled(t)'
  <2>1. Successful(t)' <=> Successful(t)
    BY <1>2, SameSim
  <2> QED
    BY <1>2, <1>4, <1>6, <2>1 DEF Settled
<1>7. ResultsTrue'
  <2> SUFFICES ASSUME NEW t \in Tests, Yml(t) \in fresh, result'[t] = "passed" PROVE Settled(t)
    BY <1>2, <1>6 DEF ResultsTrue
  <2>1. result[t] = "passed"
    BY <1>1
  <2> QED
    BY <2>1 DEF FlowInv, ResultsTrue
<1>8. ReportTrue'
  BY <1>2, <1>4, <1>6 DEF FlowInv, ReportTrue
<1>9. BenchChain'
  BY <1>2, <1>3, <1>4 DEF FlowInv, BenchChain
<1> QED
  BY <1>4, <1>5, <1>7, <1>8, <1>9 DEF FlowInv

-----------------------------------------------------------------------------
(* Theorems.                                                               *)

\* The invariant holds in every state.
LEMMA FlowInvariance == Spec => []FlowInv
<1>1. FlowInv /\ [Next]_vars => FlowInv'
  <2> SUFFICES ASSUME FlowInv, [Next]_vars PROVE FlowInv'
    OBVIOUS
  <2>1. CASE Next
    <3>1. CASE EditOptions
      BY <3>1, EditOptionsInv
    <3>2. CASE Start
      BY <3>2, StartInv
    <3>3. CASE StartCompile
      BY <3>3, StartCompileInv
    <3>4. CASE \E how \in {"ok", "error", "timeout"} : EndCompile(how)
      BY <3>4, EndCompileInv
    <3>5. CASE StartCopy
      BY <3>5, StartCopyInv
    <3>6. CASE EndCopy
      BY <3>6, EndCopyInv
    <3>7. ASSUME NEW t \in Tests, RefuseSim(t) \/ StartSim(t) \/ StartCompare(t) \/ EndCompare(t)
          PROVE  FlowInv'
      BY <3>7, RefuseSimInv, StartSimInv, StartCompareInv, EndCompareInv
    <3>8. ASSUME NEW t \in Tests, NEW o \in Outcomes, EndSim(t, o) PROVE FlowInv'
      BY <3>8, EndSimInv
    <3>9. CASE StartCollect
      BY <3>9, StartCollectInv
    <3>10. CASE EndCollect
      BY <3>10, EndCollectInv
    <3>11. CASE Finish
      BY <3>11, FinishInv
    <3>12. CASE Interrupt
      BY <3>12, InterruptInv
    <3>13. CASE Kill
      BY <3>13, KillInv
    <3> QED
      BY <2>1, <3>1, <3>2, <3>3, <3>4, <3>5, <3>6, <3>7, <3>8, <3>9, <3>10, <3>11, <3>12, <3>13
      DEF Next, MakeStep
  <2>2. CASE UNCHANGED vars
    <3>1. /\ UNCHANGED <<context, opts, fresh, miscompiled>>
          /\ UNCHANGED <<bench, copy, sim, result, report, saved>>
          /\ UNCHANGED <<running, todo, jobs, broken, status, collected, edits>>
      BY <2>2 DEF vars, files, make, bounds
    <3>2. /\ tests' = tests /\ compile_vars' = compile_vars /\ Logs' = Logs /\ Ymls' = Ymls
          /\ simulator' = simulator /\ matched' = matched /\ opts' = opts
      BY <3>1, Frame
    <3>3. \A u : Successful(u)' <=> Successful(u)
      BY <3>1 DEF Successful
    <3>4. FlowTypes' /\ MakeShape' /\ Order' /\ UpToDate' /\ InTheMaking'
      BY <3>1, <3>2 DEF FlowInv, FlowTypes, MakeShape, Order, UpToDate, InTheMaking
    <3>5. ResultsTrue' /\ ReportTrue' /\ SuccessTrue' /\ BenchChain'
      BY <3>1, <3>2, <3>3 DEF FlowInv, ResultsTrue, ReportTrue, SuccessTrue, BenchChain, Settled
    <3> QED
      BY <3>4, <3>5 DEF FlowInv
  <2> QED
    BY <2>1, <2>2
<1> QED
  BY FlowInitInv, <1>1, PTL DEF Spec

\* A test that an up-to-date regr.log calls passed was successful in the
\* simulation whose log is there: for every list of tests, and any number of
\* runs of make, stopped, killed or failing anywhere.  (compare.py,
\* collect_results.py.)
THEOREM PassesDeserved == Spec => []PassDeserved
<1>1. FlowInv => PassDeserved
  BY DEF FlowInv, ReportTrue, Settled, PassDeserved
<1> QED
  BY <1>1, FlowInvariance, PTL

\* A run of make that collects results and exits with success has seen all
\* tests succeed, at least one.  (collect_results.py, main.)
THEOREM SuccessIsDeserved == Spec => []SuccessDeserved
<1>1. FlowInv => SuccessDeserved
  BY DEF FlowInv, MakeShape, SuccessTrue, SuccessDeserved
<1> QED
  BY <1>1, FlowInvariance, PTL

\* The settings made at compile time and those made at run time are together
\* all parameters of a configuration, for each simulator, although an
\* outputter yields nothing for some of them.  (ibex_config.py, SimOpts.)
LEMMA AllParametersSet ==
    ASSUME NEW s \in Simulators, NEW name
    PROVE  {<<x.name, x.val>> : x \in COMPILE_OPTS(s, name) \cup SIM_OPTS(s, name)}
             = {<<p, Text(Configs[name][p])>> : p \in DOMAIN Configs[name]}
<1> DEFINE c == Configs[name]
           setting(p) == [set |-> IF c[p].k = "str" THEN "define" ELSE "param", name |-> p, val |-> Text(c[p])]
           opts1 == COMPILE_OPTS(s, name) \cup SIM_OPTS(s, name)
<1>1. \A p : /\ setting(p).name = p /\ setting(p).val = Text(c[p])
             /\ setting(p).set \in {"define", "param"}
  OBVIOUS
<1>2. \A cmd : output(cmd, c) = {x \in {setting(p) : p \in DOMAIN c} : x.set \in Outputter[cmd]}
  BY DEF output
<1>3. /\ Outputter["vcs_opts"] = {"param", "define"} /\ Outputter["xlm_opts"] = {"param", "define"}
      /\ Outputter["riviera_sim_opts"] = {"param"} /\ Outputter["riviera_compile_opts"] = {"define"}
      /\ Outputter["questa_sim_opts"] = {"param"} /\ Outputter["questa_compile_opts"] = {"define"}
  BY DEF Outputter
<1>4. s \in {"vcs", "xlm", "riviera", "questa"}
  BY FlowAssumption
<1> HIDE DEF setting
<1>5. opts1 = {setting(p) : p \in DOMAIN c}
  <2>1. CASE s = "vcs"
    BY <1>1, <1>2, <1>3, <2>1 DEF COMPILE_OPTS, SIM_OPTS, OneStep
  <2>2. CASE s = "xlm"
    BY <1>1, <1>2, <1>3, <2>2 DEF COMPILE_OPTS, SIM_OPTS, OneStep
  <2>3. CASE s = "riviera"
    BY <1>1, <1>2, <1>3, <2>3 DEF COMPILE_OPTS, SIM_OPTS, OneStep
  <2>4. CASE s = "questa"
    BY <1>1, <1>2, <1>3, <2>4 DEF COMPILE_OPTS, SIM_OPTS, OneStep
  <2> QED
    BY <1>4, <2>1, <2>2, <2>3, <2>4
<1> HIDE DEF opts1
<1>6. {<<x.name, x.val>> : x \in opts1} = {<<p, Text(c[p])>> : p \in DOMAIN c}
  BY <1>1, <1>5
<1> QED
  BY <1>6 DEF opts1

\* After a successful run every test ran on a bench compiled with the present
\* options and with all parameters of the present configuration, unless the
\* last compilation was not completed; whatever changes of options, failures
\* and interruptions came before.  (Makefile, compile-vars-prereq.)
THEOREM BenchIsRight == Spec => []RightBench
<1>1. FlowInv => RightBench
  <2> SUFFICES ASSUME FlowInv, status = "ok", ~miscompiled, simulator \in OneStep \/ edits = 0,
                      NEW t \in tests
               PROVE  /\ {<<s.name, s.val>> : s \in sim[t].bench.frag \cup sim[t].opts}
                           = {<<p, Text(Configs[opts.config][p])>> : p \in DOMAIN Configs[opts.config]}
                      /\ sim[t].bench.enabled = opts.enabled
    BY DEF RightBench
  <2>1. todo = {} /\ jobs = {}
    BY DEF FlowInv, MakeShape
  <2>2. t \in Tests
    BY TestsListed DEF FlowInv
  <2>3. saved = compile_vars /\ Copy \in fresh /\ Log(t) \in fresh
    BY <2>1 DEF FlowInv, UpToDate
  <2>4. sim[t].bench = compile_vars /\ sim[t].opts = SIM_OPTS(simulator, opts.config)
    BY <2>1, <2>2, <2>3 DEF FlowInv, BenchChain
  <2>5. sim[t].bench.frag = COMPILE_OPTS(simulator, opts.config) /\ sim[t].bench.enabled = opts.enabled
    BY <2>4 DEF compile_vars
  <2>6. simulator \in Simulators
    BY DEF FlowInv, FlowTypes
  <2> QED
    BY <2>4, <2>5, <2>6, AllParametersSet
<1> QED
  BY <1>1, FlowInvariance, PTL
=============================================================================
