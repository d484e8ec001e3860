------------------------------- MODULE MCFlow -------------------------------
(* Instances of RegrFlow for TLC. *)
EXTENDS RegrFlow, TLC

CONSTANTS t1, t2, t3

Bool(b) == [k |-> "bool", v |-> b]
Str(s) == [k |-> "str", v |-> s]

MCConfigs == [small |-> [pmp |-> Bool(FALSE), bitmanip |-> Str("none")],
              secure |-> [pmp |-> Bool(TRUE), bitmanip |-> Str("none")]]

\* One for every configuration that is not compared, one for those with PMP, and
\* one with a parameter that no configuration has.
Needs(p, vals) == [p |-> p, vals |-> vals]
MCTestEntry ==
    (t1 :> [rtl_params |-> <<>>, no_post_compare |-> TRUE]) @@
    (t2 :> [rtl_params |-> <<Needs("pmp", {TRUE})>>, no_post_compare |-> FALSE]) @@
    (t3 :> [rtl_params |-> <<Needs("pmp", {TRUE, FALSE}), Needs("typo", {TRUE})>>, no_post_compare |-> FALSE])

\* Cosimulation needs an environment variable, waves of questa are not described.
Yaml(step, replaced) == [cmd |-> {"wave_opts"} \cup (IF step = "compile" THEN {"cosim_opts"} ELSE {}), opts |-> replaced]
MCSimYaml ==
    [vcs |-> [env_var |-> {"ISS_ROOT"},
              compile |-> Yaml("compile", [cosim_opts |-> {"ISS_ROOT"}, wave_opts |-> {}]),
              sim |-> Yaml("sim", [wave_opts |-> {}])],
     questa |-> [env_var |-> {"ISS_ROOT"},
              compile |-> Yaml("compile", [cosim_opts |-> {"ISS_ROOT"}]),
              sim |-> [cmd |-> {"wave_opts", "ISS_ROOT"}, opts |-> <<>>]]]
MCTests == {t1, t2, t3}

Run(config, enabled) == [config |-> config, enabled |-> enabled]
MCOptions == {Run("small", {"wave_opts"}), Run("secure", {"cosim_opts"}), Run("unknown", {})}

Outcome(log, trace) == [log |-> log, trace |-> trace]

\* A pass, a simulator that does not start, one that is cut off after a good
\* trace, an error before the result, two results, an error in the summary
\* after the result, and traces that differ.
MCOutcomes ==
    {Outcome(<<"PASSED">>, "agrees"), Outcome(<<"info">>, "missing"), Outcome(<<"info">>, "agrees"),
     Outcome(<<"error", "PASSED">>, "agrees"), Outcome(<<"PASSED", "FAILED">>, "agrees"),
     Outcome(<<"PASSED", "error">>, "agrees"), Outcome(<<"PASSED">>, "differs")}
=============================================================================
