----------------------------- MODULE IbexConfig -----------------------------
(***************************************************************************)
(* What the regression flow does with a core configuration: ibex_config.py *)
(* checks ibex_configs.yaml and turns a configuration into the options of  *)
(* a simulator, sim_makefrag_gen.py puts them into Makefile variables,     *)
(* list_tests.py leaves out the tests the configuration does not support,  *)
(* and sim_cmd.py fills in the simulator's command lines.                  *)
(*                                                                         *)
(* A configuration is a function from parameters to values [k, v], k being *)
(* the YAML type; a number is its text.  An option line is the set of the  *)
(* settings on it.                                                         *)
(***************************************************************************)
EXTENDS Naturals, Sequences

CONSTANTS
    Configs,     \* ibex_configs.yaml: name |-> configuration
    TestEntry,   \* testlist.yaml: test |-> [rtl_params, no_post_compare]
    SimYaml      \* rtl_simulation.yaml: simulator |-> [env_var, compile, sim]

-----------------------------------------------------------------------------
(* ibex_config.py                                                           *)

_verify_config(c) == \A p \in DOMAIN c : c[p].k \in {"int", "str", "bool"}
_verify_config_parameters == \A m, n \in DOMAIN Configs : DOMAIN Configs[m] = DOMAIN Configs[n]
get_config_dicts == (\A n \in DOMAIN Configs : _verify_config(Configs[n])) /\ _verify_config_parameters

\* parse_config exits with an error unless this holds.
Parses(name) == get_config_dicts /\ name \in DOMAIN Configs

\* Which settings the two functions of an outputter yield, and which not (None).
Outputter ==
    [vcs_opts |-> {"param", "define"}, xlm_opts |-> {"param", "define"},
     riviera_sim_opts |-> {"param"}, riviera_compile_opts |-> {"define"},
     questa_sim_opts |-> {"param"}, questa_compile_opts |-> {"define"}]

\* A value as text.
Text(x) == IF x.k = "bool" THEN (IF x.v THEN "1" ELSE "0") ELSE x.v

\* SimOpts.output
output(cmd, c) ==
    LET setting(p) ==
            [set |-> IF c[p].k = "str" THEN "define" ELSE "param", name |-> p, val |-> Text(c[p])]
    IN  {s \in {setting(p) : p \in DOMAIN c} : s.set \in Outputter[cmd]}

-----------------------------------------------------------------------------
(* sim_makefrag_gen.py                                                      *)

OneStep == {"vcs", "xlm"}
COMPILE_OPTS(sim, name) ==
    output(CASE sim = "vcs" -> "vcs_opts" [] sim = "xlm" -> "xlm_opts"
             [] sim = "riviera" -> "riviera_compile_opts" [] sim = "questa" -> "questa_compile_opts",
           Configs[name])
SIM_OPTS(sim, name) ==
    IF sim \in OneStep THEN {}
    ELSE output(IF sim = "riviera" THEN "riviera_sim_opts" ELSE "questa_sim_opts", Configs[name])

-----------------------------------------------------------------------------
(* list_tests.py                                                            *)

\* A test names parameters, in order, with the values it can run with.
\* Looking for a mismatch ends at the first one.
Reached(c, params) ==
    {i \in DOMAIN params : \A j \in 1 .. i - 1 : params[j].p \in DOMAIN c /\ c[params[j].p].v \in params[j].vals}
Raises(c, params) == \E i \in Reached(c, params) : params[i].p \notin DOMAIN c
Good(c, params) == \A i \in DOMAIN params : params[i].p \in DOMAIN c /\ c[params[i].p].v \in params[i].vals

\* What main prints; $(shell) takes an exception for an empty list.
list_tests(name, matched) ==
    IF Parses(name) /\ \A t \in matched : ~Raises(Configs[name], TestEntry[t].rtl_params)
    THEN {t \in matched : Good(Configs[name], TestEntry[t].rtl_params)}
    ELSE {}

-----------------------------------------------------------------------------
(* sim_cmd.py                                                               *)

\* subst_cmd succeeds: each enabled option in the command line has a
\* replacement, and environment variables that are then in it are set.
subst_cmd(y, env_var, enabled, env) ==
    /\ y.cmd \cap enabled \subseteq DOMAIN y.opts
    /\ (y.cmd \cup UNION {y.opts[n] : n \in y.cmd \cap enabled}) \cap env_var \subseteq env

\* get_simulator_cmd: both scripts build both commands.
get_simulator_cmd(sim, enabled, env) ==
    \A step \in {"compile", "sim"} : subst_cmd(SimYaml[sim][step], SimYaml[sim].env_var, enabled, env)
=============================================================================
