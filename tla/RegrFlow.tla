------------------------------ MODULE RegrFlow ------------------------------
(***************************************************************************)
(* The regression flow of dv/uvm/core_ibex: the Makefile has options and   *)
(* tests worked out for a core configuration (IbexConfig), compiles a test *)
(* bench (sim.py), copies it, simulates the tests in parallel (run_rtl.py),*)
(* compares each with the instruction set simulator (compare.py) and       *)
(* collects the results (collect_results.py).  Make is run again after     *)
(* failures, after a change of options and after it was stopped, on the    *)
(* files left behind.                                                      *)
(*                                                                         *)
(* Files are variables; in place of their times, `fresh' holds the targets *)
(* that exist and are newer than what they are made from.  The generated   *)
(* programs and the ISS logs are taken to be there.                        *)
(***************************************************************************)
EXTENDS IbexConfig, FiniteSets

CONSTANTS
    Tests,       \* entries of the test list, one seed each
    Options,     \* [config, enabled] of a run: IBEX_CONFIG; COV, WAVES, COSIM
    Simulators,  \* SIMULATOR
    EnvVars,     \* environment variables that may be set or not
    Outcomes,    \* of a simulation: lines of sim.log, and trace against ISS
    MaxMakes,    \* bound: runs of make
    MaxStops,    \* bound: runs of make that are stopped from outside
    MaxEdits     \* bound: changes of the options

Lines == {"info", "error", "PASSED", "FAILED"}
Traces == {"missing", "differs", "agrees"}

ASSUME FlowAssumption ==
    /\ IsFiniteSet(Tests)
    /\ \A o \in Outcomes : o.log \in Seq(Lines) /\ o.trace \in Traces
    /\ Simulators \subseteq {"vcs", "xlm", "riviera", "questa"}
    /\ {MaxMakes, MaxStops, MaxEdits} \subseteq Nat

\* Targets of the Makefile.  A test bench is known by what it was compiled with.
NoBench == [frag |-> {}, enabled |-> {"none"}]
Bench == <<"rtl_sim/.compile.stamp">>
Copy == <<"rtl_sim.compile.stamp">>
Log(t) == <<"sim.log", t>>
Yml(t) == <<"test-result.yml", t>>
Regr == <<"regr.log">>

VARIABLES
    simulator, env,
    matched,     \* the entries that TEST selects
    opts,        \* the options
    saved,       \* the compile options recorded in .compile-vars.mk
    bench, copy, \* the compiled test bench, and the seed's copy of it
    sim,         \* per test: sim.log and trace, and the bench they are from
    result,      \* per test: test-result.yml
    report,      \* regr.log: the tests that passed
    fresh,
    running,     \* make is running,
    todo,        \* has yet to make these
    jobs,        \* and is executing the recipes of these
    broken,      \* a recipe has failed
    status,      \* exit status of the last run
    collected,   \* whether that run executed collect_results.py
    miscompiled, \* the last compilation failed, timed out or was stopped
    makes, stops, edits

files == <<bench, copy, sim, result, report, saved>>
make == <<running, todo, jobs, broken, status, collected>>
bounds == <<makes, stops, edits>>
context == <<simulator, env, matched>>
vars == <<context, opts, files, fresh, make, miscompiled, bounds>>

NoSim == [log |-> <<>>, trace |-> "missing", bench |-> NoBench, opts |-> {}]

Init ==
    /\ simulator \in Simulators /\ env \in SUBSET EnvVars /\ matched \in SUBSET Tests
    /\ opts \in Options /\ saved = NoBench /\ bench = NoBench /\ copy = NoBench
    /\ sim = [t \in Tests |-> NoSim] /\ result = [t \in Tests |-> "absent"]
    /\ report = {}
    /\ fresh = {} /\ running = FALSE /\ todo = {} /\ jobs = {} /\ broken = FALSE
    /\ status = "none" /\ collected = FALSE /\ miscompiled = FALSE
    /\ makes = 0 /\ stops = 0 /\ edits = 0

-----------------------------------------------------------------------------
(* The scripts.                                                             *)

tests == list_tests(opts.config, matched)
compile_vars == [frag |-> COMPILE_OPTS(simulator, opts.config), enabled |-> opts.enabled]

\* ibex_log_to_trace_csv.check_ibex_uvm_log, line by line.
ScanLine(s, line) ==
    [passed |-> s.passed \/ line = "PASSED",
     failed |-> s.failed \/ line = "FAILED" \/ (line = "error" /\ ~s.seen),
     seen |-> s.seen \/ line \in {"PASSED", "FAILED"},
     stop |-> line = "FAILED"]
check_ibex_uvm_log(log) ==
    LET scan[n \in 0 .. Len(log)] ==
            IF n = 0 THEN [passed |-> FALSE, failed |-> FALSE, seen |-> FALSE, stop |-> FALSE]
            ELSE IF scan[n - 1].stop THEN scan[n - 1] ELSE ScanLine(scan[n - 1], log[n])
    IN  scan[Len(log)].passed /\ ~scan[Len(log)].failed

\* A slip: the log is not looked at where the traces agree.
TraceDecides(t, s) == IF s.trace = "agrees" THEN "passed" ELSE "failed"

\* compare.compare_test_run: the log, the conversion of the trace (which fails
\* if there is none, or no instruction in it), the comparison unless the
\* test is not to be compared.
compare_test_run(t, s) ==
    IF /\ check_ibex_uvm_log(s.log)
       /\ s.trace # "missing"
       /\ TestEntry[t].no_post_compare \/ s.trace = "agrees"
    THEN "passed" ELSE "failed"

\* collect_results.parse_test_run_result: a truncated result has not all the
\* fields and is the failure of an unknown test; an empty one has no keys,
\* which is an exception nobody catches.
Readable == \A t \in tests : result[t] # "empty"
PassingTests == {t \in tests : result[t] = "passed"}

\* A slip: results that cannot be parsed are left out.
FailingParsed == {t \in tests : result[t] = "failed"}

FailingTests == {t \in tests : result[t] # "passed"}

\* collect_results.main: its exit status; without a test the percentage
\* divides by zero, after regr.log was opened.
Succeeds == FailingTests = {} /\ tests # {}

-----------------------------------------------------------------------------
(* Make.                                                                    *)

Logs == {Log(t) : t \in tests}
Ymls == {Yml(t) : t \in tests}
AllLogs == {Log(t) : t \in Tests}
AllYmls == {Yml(t) : t \in Tests}

\* What is newer once target g is: the targets made from it are not fresh.
Below(g) ==
    CASE g = Bench -> {Copy}
      [] g = Copy -> AllLogs
      [] g \in AllLogs -> AllYmls
      [] g \in AllYmls -> {Regr}
      [] OTHER -> {}
Touch(g) == (fresh \ Below(g)) \cup {g}

\* A slip: changed options do not force a compilation.
StampDecides == Bench \notin fresh

benchDue == Bench \notin fresh \/ saved # compile_vars

\* What a run has to make: each target that is not fresh or below such a one.
Plan ==
    LET b == IF benchDue THEN {Bench} ELSE {}
        c == IF b # {} \/ Copy \notin fresh THEN {Copy} ELSE {}
        l == IF c # {} THEN Logs ELSE Logs \ fresh
        y == IF l # {} THEN Ymls ELSE Ymls \ fresh
        r == IF y # {} \/ Regr \notin fresh THEN {Regr} ELSE {}
    IN  b \cup c \cup l \cup y \cup r

EditOptions ==
    /\ ~running /\ edits < MaxEdits
    /\ opts' \in Options \ {opts} /\ edits' = edits + 1 /\ status' = "none"
    /\ UNCHANGED <<context, files, fresh, running, todo, jobs, broken, collected, miscompiled, makes, stops>>

\* sim_makefrag_gen.py is run first, in every run; if it fails, make does.
Start ==
    /\ ~running /\ makes < MaxMakes
    /\ makes' = makes + 1 /\ collected' = FALSE /\ broken' = ~Parses(opts.config)
    /\ running' = ~broken' /\ todo' = IF broken' THEN {} ELSE Plan
    /\ status' = IF broken' THEN "failed" ELSE "none"
    /\ UNCHANGED <<context, opts, files, fresh, jobs, miscompiled, stops, edits>>

\* Make begins the recipe of g when all of `after' is made.
Begins(g, after) ==
    /\ running /\ ~broken /\ g \in todo \ jobs /\ after \cap todo = {}
    /\ jobs' = jobs \cup {g}
    /\ UNCHANGED <<context, opts, running, todo, broken, status, collected, bounds>>

Ends(g, ok) ==
    /\ g \in jobs
    /\ jobs' = jobs \ {g} /\ todo' = todo \ {g} /\ broken' = (broken \/ ~ok)
    /\ UNCHANGED <<context, opts, running, status, bounds>>

\* Make expands the whole recipe first, and with it records the options.
StartCompile ==
    /\ Begins(Bench, {})
    /\ saved' = compile_vars
    /\ UNCHANGED <<bench, copy, sim, result, report, fresh, miscompiled>>

\* sim.py: a command that fails, or cannot be built, ends the script; one that
\* is killed after the time limit of run_cmd counts as done.
EndCompile(how) ==
    /\ Ends(Bench, how # "error")
    /\ ~get_simulator_cmd(simulator, opts.enabled, env) => how = "error"
    /\ bench' \in IF how = "ok" THEN {compile_vars} ELSE {bench, NoBench}
    /\ fresh' = IF how = "error" THEN fresh ELSE Touch(Bench)
    /\ miscompiled' = (how # "ok")
    /\ UNCHANGED <<copy, sim, result, report, saved, collected>>

\* rm -rf, which takes the logs and results of all tests with it, cp -r and touch.
StartCopy ==
    /\ Begins(Copy, {Bench})
    /\ copy' = NoBench
    /\ sim' = [t \in Tests |-> NoSim] /\ result' = [t \in Tests |-> "absent"]
    /\ fresh' = fresh \ (AllLogs \cup AllYmls \cup {Regr})
    /\ UNCHANGED <<bench, report, saved, miscompiled>>
EndCopy ==
    /\ Ends(Copy, TRUE)
    /\ copy' = bench /\ fresh' = Touch(Copy)
    /\ UNCHANGED <<bench, sim, result, report, saved, collected, miscompiled>>

\* run_rtl.py builds the commands, opens the log, runs the simulator and does
\* not look at its exit status.  Without a test bench the shell writes the log.
RtlEnables == opts.enabled \ {"cosim_opts"}
RefuseSim(t) ==
    /\ running /\ ~broken /\ Log(t) \in todo \ jobs /\ {Bench, Copy} \cap todo = {}
    /\ ~get_simulator_cmd(simulator, RtlEnables, env)
    /\ todo' = todo \ {Log(t)} /\ broken' = TRUE
    /\ UNCHANGED <<context, opts, files, fresh, running, jobs, status, collected, miscompiled, bounds>>
StartSim(t) ==
    /\ Begins(Log(t), {Bench, Copy})
    /\ get_simulator_cmd(simulator, RtlEnables, env)
    /\ sim' = [sim EXCEPT ![t] = [NoSim EXCEPT !.bench = copy, !.opts = SIM_OPTS(simulator, opts.config)]]
    /\ fresh' = Touch(Log(t))
    /\ UNCHANGED <<bench, copy, result, report, saved, miscompiled>>
EndSim(t, o) ==
    /\ Ends(Log(t), TRUE)
    /\ copy = NoBench => o.log = <<"info">> /\ o.trace = "missing"
    /\ sim' = [sim EXCEPT ![t].log = o.log, ![t].trace = o.trace]
    /\ UNCHANGED <<bench, copy, result, report, saved, fresh, collected, miscompiled>>

\* compare.py, which make starts when all simulations have ended, opens
\* its output when it has a verdict.
StartCompare(t) ==
    /\ Begins(Yml(t), {Bench, Copy} \cup Logs)
    /\ result' = [result EXCEPT ![t] = "empty"]
    /\ fresh' = Touch(Yml(t))
    /\ UNCHANGED <<bench, copy, sim, report, saved, miscompiled>>
EndCompare(t) ==
    /\ Ends(Yml(t), TRUE)
    /\ result' = [result EXCEPT ![t] = compare_test_run(t, sim[t])]
    /\ UNCHANGED <<bench, copy, sim, report, saved, fresh, collected, miscompiled>>

StartCollect ==
    /\ Begins(Regr, {Bench, Copy} \cup Logs \cup Ymls)
    /\ UNCHANGED <<files, fresh, miscompiled>>
EndCollect ==
    /\ Ends(Regr, Readable /\ Succeeds)
    /\ report' = IF Readable THEN PassingTests ELSE report
    /\ fresh' = IF Readable THEN fresh \cup {Regr} ELSE fresh
    /\ collected' = Readable
    /\ UNCHANGED <<bench, copy, sim, result, saved, miscompiled>>

\* After a failure make waits for the recipes in execution only.
NothingLeft == todo = {} \/ (broken /\ jobs = {})

Finish ==
    /\ running /\ NothingLeft
    /\ running' = FALSE /\ todo' = {} /\ status' = IF broken THEN "failed" ELSE "ok"
    /\ UNCHANGED <<context, opts, files, fresh, jobs, broken, collected, miscompiled, bounds>>

\* Make is stopped.  On an interrupt it deletes the targets in the making that
\* have changed, and what the scripts had written so far stays if it is killed.
Stopped ==
    /\ running /\ stops < MaxStops /\ stops' = stops + 1
    /\ running' = FALSE /\ todo' = {} /\ jobs' = {} /\ status' = "failed"
    /\ miscompiled' = (miscompiled \/ Bench \in jobs)
Interrupt ==
    /\ sim' = [t \in Tests |-> IF Log(t) \in jobs THEN NoSim ELSE sim[t]]
    /\ result' = [t \in Tests |-> IF Yml(t) \in jobs THEN "absent" ELSE result[t]]
    /\ fresh' = fresh \ (jobs \cap (AllLogs \cup AllYmls))
    /\ Stopped
    /\ UNCHANGED <<context, opts, bench, copy, report, saved, broken, collected, makes, edits>>
Kill ==
    /\ \E cut \in SUBSET {t \in Tests : Yml(t) \in jobs} :
          result' = [t \in Tests |-> IF t \in cut THEN "partial" ELSE result[t]]
    /\ Stopped
    /\ UNCHANGED <<context, opts, bench, copy, sim, report, saved, fresh, broken, collected, makes, edits>>

MakeStep ==
    \/ StartCompile \/ StartCopy \/ EndCopy \/ StartCollect \/ EndCollect \/ Finish
    \/ \E how \in {"ok", "error", "timeout"} : EndCompile(how)
    \/ \E t \in Tests : RefuseSim(t) \/ StartSim(t) \/ StartCompare(t) \/ EndCompare(t)
    \/ \E t \in Tests, o \in Outcomes : EndSim(t, o)

Next == EditOptions \/ Start \/ MakeStep \/ Interrupt \/ Kill

Spec == Init /\ [][Next]_vars

-----------------------------------------------------------------------------
(* Properties.                                                              *)

\* The simulation of a test was a success: its log announces a pass, not
\* preceded by an error and not contradicted, and the traces agree if they
\* are to be compared.
Successful(t) ==
    LET s == sim[t] IN
    /\ s.trace = "agrees" \/ (TestEntry[t].no_post_compare /\ s.trace = "differs")
    /\ \E n \in DOMAIN s.log : s.log[n] = "PASSED" /\ \A m \in 1 .. n : s.log[m] # "error"
    /\ \A n \in DOMAIN s.log : s.log[n] # "FAILED"

\* A test that an up-to-date regr.log calls passed was successful in the
\* simulation whose log is there, whatever was stopped, truncated or run
\* again before.  (compare.py, ibex_log_to_trace_csv.py, collect_results.py.)
PassDeserved == Regr \in fresh => \A t \in report : Successful(t)

\* A run of make that collects results and succeeds has seen every test
\* succeed, at least one.  (collect_results.py:215, "Succeed if no tests failed".)
SuccessDeserved == status = "ok" /\ collected => tests # {} /\ \A t \in tests : Successful(t)

\* After a run of make that succeeds, the parameters of every test's simulation,
\* set when the bench was compiled or when it was started, are those of
\* the present configuration, and the other options the present ones.  Not so
\* if the last compilation failed, timed out or was stopped, nor for a change
\* of options where the simulator gets parameters when it is started.
\* (sim_makefrag_gen.py; Makefile, compile-vars-prereq, rtl_sim.compile.stamp.)
RightBench ==
    status = "ok" /\ ~miscompiled /\ (simulator \in OneStep \/ edits = 0) =>
        LET c == Configs[opts.config] IN
        \A t \in tests :
            /\ {<<s.name, s.val>> : s \in sim[t].bench.frag \cup sim[t].opts} = {<<p, Text(c[p])>> : p \in DOMAIN c}
            /\ sim[t].bench.enabled = opts.enabled
=============================================================================
