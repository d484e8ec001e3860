# A TLA+ model of CHERIoT-Ibex

This directory holds a TLA+ development of CHERIoT-Ibex: the core, a 32-bit
RISC-V core with CHERIoT capabilities (SystemVerilog, `src/rtl`), and the
Python programs that decide whether a simulation of it counts as correct
(`src/dv`, `src/util`).  TLC checks the modules on small instances, and TLAPS
proves theorems about them for all values of their parameters.

In the modules of the core **one step is one clock cycle** (one instruction in
`Capability`).  A register of the source is a variable of the same name, a
combinational signal is an operator of the same name, and what the
surroundings of a block may do in a cycle (grants, responses, errors,
interrupts, what the pipeline executes) is quantified over in the step.  In the modules of
the programs a step is one pass of a loop or one start or end of a recipe of
make, and a function keeps its name.
`PROJECT.json` lists for every definition the source lines it stands for.

## 1. Inventory

### What the core consists of

| Part (file in `rtl/`) | State | Operations | Here |
|---|---|---|---|
| Stack zeroiser (`cheri_stkz.sv`) | state machine, base and pointer counters, ZTOPC read-back, error | start by a ZTOPC write, clear a word downwards, stop, finish | `Stkz`, `StkzSystem` |
| Revocation engine (`cheri_tbre.sv`) | walk state, scheduler, three FIFOs with one read pointer, error | start a sweep, load a granule, take load data, take a verdict, store back without tag, snoop CPU stores, end | `Tbre`, `TbreSystem` |
| Revocation look-up (`cheri_trvk_stage.sv`) | three pipeline stages, reserved register | take a loaded capability, read the shadow map, give the verdict | `Trvk` |
| Engine arbiter (`cheri_tbre_wrapper.sv`) | arbitration held, last master | choose, hold, route responses | `TbreWrapper`, `EnginesSystem` |
| Load-store unit (`ibex_load_store_unit.sv`) | request state machine, capability receiver, error and ownership registers | one to two bus transfers per access, for the CPU and the engines | `LoadStoreUnit`, `LsuPort`, `LsuContract` |
| Prefetcher (`ibex_prefetch_buffer.sv`, `ibex_fetch_fifo.sv`) | waiting request, outstanding requests and discard bits, FIFO, addresses | request, take or discard a word, align, hand over, branch | `Prefetch` |
| Fetch stage (`ibex_if_stage.sv`) | registers towards ID, PC increment check | check against PCC, hand over, flush | `IfStage` |
| Capability encoding (`cheri_pkg.sv`) | none | expand and compress permissions and bounds, set address and bounds, to and from memory | `CapLib` |
| Capability unit (`cheri_ex.sv`) | set-bounds pipeline, stall of the CPU by the zeroiser | capability instructions, checks of accesses, arbitration with the zeroiser | `Capability` (what instructions make of a capability), `StkzSystem` (arbitration) |
| CSRs (`ibex_cs_registers.sv`) | status, PCC and SCRs, high-water mark, counters | – | PCC, MTCC and MEPCC in `Capability` |
| Register file (`cheri_regfile.sv`) | registers, tags, ready bits | write, reserve, clear a tag | planned |
| Controller, ID and WB stages | pipeline control, multi-cycle state, traps, debug, sleep | – | planned |
| Multiplier/divider, PMP | none, or the state of an iteration | pure functions | planned |
| ALU, decoders, original register files, branch predictor, dummy instructions, lockstep, instruction cache, DMA | – | – | see section 8 |

| Program | State | Operations | Here |
|---|---|---|---|
| Trace comparison (`dv/cheriot/scripts/compare_trace.py`) | position in two traces, pending revocations, whether in a handler, outstanding trap, counters | parse the next instruction of either trace, skip handlers, compare, give the verdict | `TraceCompare`, `TraceCap` |
| Regression flow (`dv/uvm/core_ibex`: Makefile, `sim.py`, `run_rtl.py`, `compare.py`, `ibex_log_to_trace_csv.py`, `collect_results.py`) | the files of the build directory | compile, copy, simulate, compare, collect | `RegrFlow` |
| Configuration and test selection (`util/ibex_config.py`, `sim_makefrag_gen.py`, `list_tests.py`, `sim_cmd.py`) | none | check configurations, make options of them, select tests, build commands | `IbexConfig` |

### How the parts interact

The CPU (through `cheri_ex`) and the engines (through the arbiter) are two
masters of one load-store unit; the CPU has priority, and an access once begun
is finished before the other master is served.  The zeroiser clears stack memory
from the ZTOPC address down to its base, while `cheri_ex` compares each CPU
address with the part not yet cleared and holds the CPU back; a held-back CPU in
turn grants its slot to the zeroiser.  The revocation engine loads the granules
of a region, sends each capability through the look-up pipeline, which it shares
with the CPU's capability loads, and stores back without a tag what the shadow
map calls revoked, unless it saw the CPU store to the same granule meanwhile.
The fetch path runs beside all this on its own bus, redirected by the controller.

A simulation writes a trace with each capability as a memory word.
`compare_trace.py` decodes it by its own reading of the encoding and sets it
against the trace of the Sail model, making allowance for what only the core
does: interrupts and debug requests, and a load that writes a tag which the
revocation look-up clears later.  In the UVM flow make connects the scripts, and the files they
leave are all that one run of make knows of the one before.

### What is hard here

No test bench drives these in all the orders they can take:

* three masters on one memory, with state read in one cycle (a loaded word, a
  range comparison, an arbitration decision) and used several cycles later;
* responses that say nothing about whom they belong to: the load-store unit, the
  arbiter, the look-up pipeline and the prefetcher all remember an owner and
  must not forget or mix them up;
* FIFOs whose entries are completed at different times, and request counters
  that have to account for what is still on the bus;
* accesses of two words of which either can fail, in any order of grant and
  response;
* software that rewrites ZTOPC, or branches, in the worst possible cycle;
* the CPU waits for the engine that waits for the CPU;
* an encoding with corrections, rounding and two exponent paths, of which one
  error gives a capability rights it should not have, and a second decoder in
  another language that has to agree;
* a comparison that forgives differences for a while and must not forget to
  settle them;
* runs of make on what failed, stopped or killed runs have left.

`PROJECT.json` lists each of these hazards at its line with the properties that
cover it.

## 2. Modules

| Module | Contents |
|---|---|
| `LsuPort` | The load-store unit as its masters see it: free, busy for a master, or waiting to respond. Used by the three engine systems. |
| `LsuContract` | `LsuPort` as a specification on its own, with the master the response goes to. |
| `LoadStoreUnit` | The unit itself: one action per state of `ls_fsm_cs`, each with the outputs of that state, the capability receiver, the bus as the sequence of words it owes. |
| `Stkz` / `StkzSystem` | The zeroiser; and the zeroiser with port, memory, CPU and the range comparison of `cheri_ex`. A word of memory is `old`, `zero` or `new` relative to the start of the run. |
| `Tbre`, `Trvk` / `TbreSystem` | Engine and look-up pipeline; and both with memory (per granule: lower word and both tags), shadow map and CPU. |
| `TbreWrapper` / `EnginesSystem` | The arbiter; and both engines, arbiter, pipeline, port and CPU on one memory. |
| `Prefetch` / `IfStage` | Prefetcher and aligner; and the fetch stage around it with bus and branches. A word is named by its address, of an instruction only its length is kept. |
| `CapLib` | The encoding library with its widths as parameters, both encodings. |
| `Capability` | One capability on its way through registers, memory, PCC and the trap registers, one action per instruction. |
| `TraceCap` | `compare_trace.py`'s decoding of capabilities and permissions. |
| `TraceCompare` | Both machines execute a stream and write their traces, the core with at most one defect; then the script compares. |
| `IbexConfig` / `RegrFlow` | Options, tests and commands from a configuration; and make with its recipes and files. |
| `MC*` | Values of the constants for TLC, nothing else. |
| `*_proofs` | Theorems and proofs. |

In `LoadStoreUnit` a word on the bus is a token: the number of the access (one
bit suffices, as accesses do not overlap) and the half.  In `IfStage` a fetched
word also records whether it was asked for before the last branch.  In `TraceCompare`, `golden`
and `rtl` hold what was executed, as opposed to what was printed.  Such
history is for the properties only and guards no action; so are `claim`, `stored` and
`struck` of `TbreSystem`: what was revoked when the sweep started, and the granules to
which CPU stores have since succeeded, or have failed and struck out an entry of the engine.

`LsuPort` is not an assumption: `LoadStoreUnit` is shown to implement
`LsuContract` under the mapping `portState`, by TLC and by proof.  Likewise
`Capability` instantiates `TraceCap`, so that the script's decoder is judged by
the core's.

Definitions introduced by a comment "A slip: ..." or "Slips ..." are plausible
mistakes in the code next to them.  They are not used by any specification;
`PROJECT.json` ("mutants") says which definition they stand in for and which
property notices.

## 3. Runs

| Run | Instance | Shows |
|---|---|---|
| `stkz_run` | 40 bytes (two and a half 16-byte blocks, the unit of the range comparison); five ZTOPC values, written in any cycle, interrupts that stop runs; six accesses inside, below and above the region, one misaligned | `ClearsOnlyItsRegion`, `ProgressIsCleared` (read-back is never ahead of memory), `NoLostStore`, `CpuSeesClearedOnly` |
| `stkz_live` | the same memory, ZTOPC written between runs | `RunEnds`, `StalledAccessServed`, `TaggedMeansRunning` (polling the tag is sound) |
| `tbre_sweep` | three granules, a sweep of two, one capability, FIFOs of two; the capability revoked or not; stores of a capability and of data into the region, error responses to either master | `SweepComplete`, `OnlyClearsTags`, `SweepEnds` |
| `engines_run` | four granules, a sweep of three (more than the FIFOs hold), a run of the zeroiser over two words, not restarted while it is active, CPU stores and capability loads | `RequestHeld`, `ResponseToOwner`, `FifosAligned` |
| `lsu_run` | every kind of access of either master, some rejected by `cheri_ex` or the PMP | `AnswersTheRequest`, `FirstFailingAddress`, `NoStrayWord`, `HalvesAgree`, `ImplementsContract`, `EveryRequestAnswered` |
| `if_run` | six halfwords of code with all alignments of 16- and 32-bit instructions, also around the end of memory; three branches, one of them into debug mode, in any cycle | `InstructionIntact`, `ErrorIsItsOwn`, `FetchAuthorised`, `PushNeverFull`, `OutstandingAgree`, `RequestStable`, `NoFalseAlert`, `FetchGoesOn` |
| `cap_run` | an address space of 6 bits with bounds of 3 and exponents of 2, the three roots, both encodings | `Monotone` (no right is ever gained), `BoundsContract` (set-bounds, CRRL, CRAM and rounding down fit together), `DecodersAgree` (script and core read the same) |
| `trace_run` | three instructions of ten kinds, fifteen kinds of defects (one of them a trap whose handler returns), one interrupt or debug request, plain trace and RVFI trace with `-k` | `PassMeansAgree`, `NoFalseAlarm` |
| `flow_run` | three tests, two simulators, three sets of options, up to three runs of make with one change of options and one interrupt or kill, seven outcomes of a simulation | `PassDeserved`, `SuccessDeserved`, `RightBench` |
| `stkz_straddle`, `engines_lost`, `tbre_lost` | small instances | findings, section 6 |

Why the bounds are enough to be interesting:

* *Zeroiser.* A region is compared by 16-byte blocks below and words above, so
  it has to start inside a block, cross a boundary and end inside the next; one
  region reaches address 0, one is empty, one starts above its top.
* *Revocation engine.* The FIFOs have two entries instead of four (`FifoSize`):
  full, one short of full and empty all occur, and pointers wrap around
  several times.  `engines_run` sweeps more granules than the FIFOs hold.
  One capability name is enough, because verdicts and words are paired by
  position and any slip pairs a granule with another's verdict: some granules
  hold the capability and some do not after the CPU's stores.  `MaxAddr8`,
  `Addr8Space` and `MapWordBits` scale the address widths and keep their
  wrap-around.
* *Engines together.* Error responses are off (`BusErrors`): how an engine takes
  an error is the subject of `stkz_run` and `tbre_sweep`, and with them the
  instance does not finish in minutes.
* *Load-store unit.* It has no parameter but the requests; all shapes occur.
* *Fetch.* Three words against a FIFO of three entries, with the depth of the
  code (`NUM_REQS` = 2), so the FIFO fills, and the PC wraps around.  Bounds of
  PCC cut an instruction in half.
* *Capabilities.* Widths 6, 3 and 2 stand for 32, 9 and 4 and keep what the
  code relies on: `RESETEXP` is one more than the address width less the bounds
  width, the largest compressed exponent stands for it, and there is a gap
  between the two that IT8 can express and the original encoding cannot
  (`WidthAssumption`).  All addresses occur, all lengths in `BoundsContract`,
  and in the actions lengths on either side of each change of exponent.  `Explored`
  restricts the states that are developed further: all bounds with the root's
  permissions, and all permissions and types with the root's bounds; bounds
  and permissions meet only in the checks of tags.
* *Trace comparison.* A revoked load, its pending tag and the instruction
  that settles it are three steps; a handler, lines at the end
  (`MaxTail`) and the limit on lines left over (`MaxLinesLeft`, 1 instead of
  1000) come on top.
* *Regression flow.* One run of make to fail or be stopped, one
  after a change of options, one to rely on what was left.

Deadlock is checked in the runs of the core: a clock cycle, or an instruction,
is always possible.  `trace_run` and `flow_run` do without:
a comparison ends with its verdict, and after the last run of make nothing happens.

## 4. Fairness

Only liveness properties use it (`FairSpec` of each module).

* The clock runs: weak fairness of `Next` (implied by the others for the
  revocation engine and the fetch path).
* The bus grants and answers each request (weak fairness of grants, answers or
  completion).  The repository's bus protocol promises no more and no less:
  any finite delay.
* The CPU has priority on the load-store unit, so both engines starve beside code that does
  nothing but load and store; this is how the core is built.  `stkz_live` and
  `tbre_sweep` therefore assume that the CPU infinitely often executes something
  else (`LsuIdles`) and that an engine that can be served again and again is
  (`ServesStkz`, `ServesTbre`), both strong fairness.  A CPU access that the
  zeroiser itself holds back is *not* assumed to go away: that the grant breaks
  this circle is what `StalledAccessServed` shows.
* For the fetch path, ID takes an instruction in the end if no branch comes
  (`Takes`); branches are never assumed.
* For the programs nothing is assumed: neither a comparison nor a run of make need
  go on.

## 5. Proofs

All proofs rest on the named assumptions on constants (sizes are
positive, sets of inputs have the right type), which TLC evaluates in the runs,
and on the conditions that a theorem names itself:

* `NoStraddle` (`StoresKept`, `OnlyClearedSeen`): no access reaches from the last word
  below a block-aligned base into the region.  This is the hole that the run
  `stkz_straddle` is about; with it closed, the range comparison is right.
* `~WriteWhileActive` (`PollingSound`): software writes ZTOPC between runs.
* `~RestartWhileActive` (`RequestsHeld`): software starts no run during one.
* `DebugInBounds` (`InstructionsIntact`, `NoFalseAlerts`): in debug mode PCC, which is then MTCC,
  covers what is fetched.  `cheri_force_uc` ignores debug mode (section 6).

Each is a constraint on software, satisfied by the instances TLC runs.

**`StkzSystem_proofs`**: `TypeCorrect`, `RegionSafe` (`ClearsOnlyItsRegion`),
`ProgressCorrect` (`ProgressIsCleared`), `StoresKept` (`NoLostStore`), `OnlyClearedSeen`
(`CpuSeesClearedOnly`) and `PollingSound` (`TaggedMeansRunning`), for every
memory size, all ZTOPC values and accesses and any timing.  Three invariants
build on each other.  `RunInv`: an active engine's base is that of
the ZTOPC value that started it, its next word lies between base and address,
and the load-store unit holds a request of the zeroiser only while it is active (so a
store that waits for its grant while ZTOPC is rewritten is still accounted for).
`ProgressInv`: while the ZTOPC value of the run has not been overwritten, the read-back
address is the word above the next one to be cleared, and what lies above it is no
longer old.  `ShieldInv`: a CPU access in progress is outside the range that
`cheri_ex` compares, and no word still to be cleared has been stored to; an access stays
outside because the range only shrinks, and `OutsideTheRange` takes it from
the compared address to all words it touches, which is where `NoStraddle` comes in.
`TypeCorrect` includes that the word counter never passes below 0.

**`LoadStoreUnit_proofs`**: `TypeCorrect`, `WordsOwned` (`NoStrayWord`), `HalvesTogether`
(`HalvesAgree`) and `Refinement` (`ImplementsContract`), for all sets of
requests and any delays of the bus.  The invariant `IInv` says for each
state of the state machine how many words the bus owes, where the capability
receiver is and which error registers can be set (`IdleShape`, `BusyShape`,
`MisShape`, `CapShape`), and that what is owed belongs to the access in progress
(`Owed`).  Without the word counts the key fact is out of reach: that the unit is idle with a
response outstanding exactly when one word, or none after an error, is to come.
One lemma per action shows it preserved; `IdleRefines` and `BusyRefines` map
each step to a step of the contract.

On top of this, `AnswersCorrect` (`AnswersTheRequest`) and
`FailingAddressCorrect` (`FirstFailingAddress`).  A response is judged against a request
made many cycles before, so `JobInv` follows the access through the state
machine: for each state, which of its halves are back and which of them failed, the registers
in which that is kept (`NothingBack`, `FirstHalfBack`, `FirstWordBack`), which
halves the bus still owes, and which address has been recorded.

**`IfStage_proofs`**: for code of any size, all branches and any delays of the bus.
`TypeCorrect`, `Agreement` (`OutstandingAgree`), `NoOverflow`
(`PushNeverFull`) and `StableRequest` (`RequestStable`) follow from `IInv`.  `PushNeverFull`
speaks of the word that arrives now, and is inductive only with `Space`: FIFO
entries, outstanding words still wanted and the waiting request together never
exceed `DEPTH`.  The sum is kept because a request is made only if the FIFO has a place
beside everything outstanding, discarded or not, and a branch empties the FIFO.  `Waiting`
says that the stored request is the one on the bus, is discarded exactly if it
precedes the last branch, and will find a place among the outstanding ones; `RequestStable`
follows from it.
`InstructionsIntact` (`InstructionIntact`) needs `Stream`: what is in the FIFO, on its way, asked
for and to be asked for next, leaving out what is to be thrown away, are the words
from the one at the program counter on, with no gap and no repetition, and none from
before the last branch.  A cycle without a branch shifts this stream by the word taken, if one is
(`FifoMoves`, `StreamGoesOn`); a branch starts it afresh, whatever is outstanding
(`StreamBranch`).  With `Follows` (the program goes on at the program counter, up to an
instruction with an error) the instruction handed on is the program's: the
counter moves by its length (`MovedByLength`), because an instruction cut
short by the bounds is refused because of them (`NotCutShort`).  `NoFalseAlerts`
(`NoFalseAlert`) uses the same fact; `ErrorsAreOwn` (`ErrorIsItsOwn`) and
`FetchesAuthorised` (`FetchAuthorised`) follow from the types alone.

**`Tbre_proofs`** holds lemmas about the revocation engine in any surroundings: its
registers keep their types, and its three FIFOs advance in step (`InStep`) if each load is
answered once and looked up once.  The ring pointers are
reduced to differences without the modulus (`Modulus`, `GapMoves`), for every `FifoSize`.

**`TbreSystem_proofs`**: `SweepsComplete` (`SweepComplete`) and `OnlyTagsCleared`
(`OnlyClearsTags`), for all memories, regions, capabilities and FIFO sizes, with CPU
stores, loads and frees (a shadow bit set during the sweep, which `tbre_sweep` leaves out)
and error responses at any moment.  Three things excuse a granule in `SweepComplete`: a CPU store
to it that succeeded, a failed one that struck out its entry (the finding `tbre_lost`; a failed
store at any other time does not), and an error response to the engine.  `SweepInv` says where each loaded word and its
verdict are.  `Chain`: the write pointers follow each other, each ahead of the next by
what is in a look-up stage or awaits its response, so the FIFO position of every item in flight
is known.  `WordsCurrent`: an entry not struck out by the snoop has the word that is in memory; it
holds for the load awaiting its response too.  `VerdictsTrue`: a verdict to clear, in any stage,
is about the word at its position.  These three give `OnlyClearsTags`.
`Tracked`: each capability of the region that was revoked at the start is yet to be loaded
or is an entry that no step loses (`Caught`, `CaughtStays`); it is popped only by the
store that clears it, struck out only by a CPU store, which `StruckStays` and `ClaimedBefore`
find in `struck` or `stored`, and the engine is idle only with empty FIFOs.  A region that
reaches the last granule of the window is no exception: the sweep never ends then
(the address wraps before the comparison).

**`EnginesSystem_proofs`**: `ResponsesToOwner` (`ResponseToOwner`), `FifosStayAligned`
(`FifosAligned`) and `RequestsHeld` (`RequestHeld`), for all FIFO sizes, regions, ZTOPC values and
timings.  `EngineInv` counts for each moment how many loads await their response
(`Answers`) and how many words are in the look-up pipeline for the engine (`Lookups`); the
FIFOs are in step with these counts because a load's response is routed to the
engine that made it.  This in turn needs that the arbiter's decision, the
port and the record of the request agree.  `Kept` says that the request presented
is the one taken: the scheduler does not leave it, the entry at the FIFO's
head is not overwritten (`RequestKept`), and the zeroiser's pointer stands still.

**`RegrFlow_proofs`**: `PassesDeserved` (`PassDeserved`), `SuccessIsDeserved`
(`SuccessDeserved`) and `BenchIsRight` (`RightBench`), for any set of tests, any number of runs of make,
and failures, interrupts and kills anywhere.  `FlowInv` says in which order targets leave
the list of those to be made (`Order`), which are newer than what they are made from
(`UpToDate`, `InTheMaking`) and what that means for their contents
(`ResultsTrue`, `ReportTrue`, `BenchChain`).  What the scan of a log (a recursive
function) finds, for logs of any length, is shown by induction on a set of numbers: one that has 0 and
every successor is `Nat` (`Induction`, from `WFMin` of the library).

**`Capability_proofs`**: `CapabilityInvariant`, `MonotoneHolds` (`Monotone`),
`BoundsContractHolds` (`BoundsContract`) and `DecodersAgreeHolds` (`DecodersAgree`), for every
width that `WidthAssumption` admits (the code's 32, 9 and 4 among them), both
encodings and any operands (`OperandAssumption` gives their ranges).
The run has 6-bit addresses and explores bounds and permissions mostly apart; the
theorems are about all of them together.
A register holds mantissas and corrections; what they stand for is a region
from m to n in units of 2^exp.  `Sound` ties the two together: the mantissas are m
and n modulo 2^TOP_W, the region is shorter than 2^TOP_W units, and the address is in
`Reach`, from which `get_bound33` finds the region again (`BoundsOf`).  In IT8 the region
is also at least half as long as it could be, unless the exponent is 0: only
so can the top's leading bit, which is not stored, be inferred
(`LeadingBit`).  `CapInv` says that a capability with a tag is sound in the form its place has;
`Monotone` alone is not inductive, since it does not say that a register keeps its bounds
on its way through memory or PCC.  The arithmetic is settled for any
register first:
`SetAddress` (an address found representable is in reach), `SetBounds` (the first
exponent of `prep_bound_req` is too small by one at most, and rounding to it
cannot leave the old bounds, `ExponentFits`), `SetBoundsRndn`,
`RoundTrip` (stored and loaded again it is the same), `PermsShrink` and `Mask` (compression
and load permissions only take away).  Then each action has a lemma that it keeps `CapInv` and is
`Narrower` (`NextOk`).  For `BoundsContract`, `ExactExponent` shows that the exponent
CRRL and CRAM find at address 0 is the one `set_bounds` finds at an address
they allow.  For `DecodersAgree`, `IbexBound` relates the script's arithmetic,
which leaves the window out for the whole memory, to `get_bound33`.  That 2^n behaves as a power
is itself proved, from the number of subsets of a set of n elements
(`PowCard`), as the library says nothing of `^`.

**Model-checked only.**
* Liveness: `RunEnds`, `StalledAccessServed`, `SweepEnds`, `EveryRequestAnswered`,
  `FetchGoesOn`.  The prover has no rule for fairness.
* `PassMeansAgree` and `NoFalseAlarm`: they would need an invariant that relates both
  parsers' positions in traces of any length to the streams they were written from,
  and what the filters over whole traces (`SelectSeq`, a recursive definition) return is
  an induction over data.
* The types of the modules other than zeroiser, load-store unit and fetch stage have no
  property of their own; those of the engines are part of `EngineInv`.

## 6. Findings

Each is a run in which TLC produces a behaviour of the code that contradicts
what the repository says.

* **`stkz_straddle`.** A comment in `cheri_ex.sv` (1115) argues that if the first word
  of an access is outside the range to be cleared, so is the second.  A
  misaligned access that starts in the last word below a block-aligned base reaches
  into the range with its second word, which is not checked.
* **`engines_lost`.** The revocation engine's snoop sees CPU stores only
  (`ibex_core.sv` 1075).  A word cleared by the zeroiser between the engine's load and
  store gets its old contents back, though not its tag.
* **`tbre_lost`.** The snoop (`cheri_tbre.sv` 236) strikes out an entry for every CPU store
  whose request is done.  A store that `cheri_ex` refuses is done as well
  (`ibex_load_store_unit.sv` 489–499, 702–704), as is one that the bus answers with an error,
  and neither changes memory; `snoop_lsu_cheri_err_i` is a port that nothing reads.  The
  revoked capability keeps its tag, and the sweep ends without `tbre_err`, although the
  repository's README (line 81) says that the tag of a match is cleared.

Observations made while modelling, which no run is about:

* A capability access rejected by the PMP waits for ever in `CTX_WAIT_GNT1`
  (`ibex_load_store_unit.sv` 627).  `ibex_top.sv` permits PMP and CHERIoT together;
  `ibexc_top.sv` builds the core without PMP, where this cannot happen.
* `cheri_force_uc` (`ibex_if_stage.sv` 384) ignores debug mode: where the debug
  handler lies outside PCC's bounds, a 32-bit instruction across two words is
  handed on with a wrong second half, without an error.
* A ZTOPC write in the cycle in which a run completes, or while it is being
  stopped, is recorded with its tag but not worked on; software that writes
  only when no run is active (`stkz_live`) does not meet this.
* NULL written to ZTOPC while a clearing store waits: the store is still made,
  after the range that keeps the CPU away has become empty, and its completion
  overwrites the NULL read-back.  `NoLostStore` and `CpuSeesClearedOnly`
  are stated for runs whose ZTOPC value is not overwritten.  A new value written then moves the
  address of the waiting store (`stkz_ptrw_nxt` takes a start in every state), against the
  bus protocol; `RequestHeld` is about software that does not (`RestartWhileActive`).
* The zeroiser rounds the base down to a word, so up to three bytes below an unaligned base
  are cleared; `ClearsOnlyItsRegion` counts words.
* `load_addr8_p1` of the revocation engine wraps: a region that ends on the
  last granule of the window is swept for ever.  `SweepEnds` is checked for other regions.
* `tbre_stat` falls before the response to the engine's last store.  An error in it
  reaches `tbre_err` after the sweep (`Reported` allows for it), and if firmware starts
  the next sweep in the cycle in which it comes, `tbre_err` is cleared instead (185) and the
  error of the earlier sweep is lost; if it comes later, it counts as the next one's.  `SweepComplete`
  speaks of the last sweep only and does not catch this.
* The range check of the look-up is `<= TSMapSize`, one word more than the map.
* With `CheriSBND2` the operator `CSET_BOUNDS_RNDN` is missing from
  `set_bounds_done` (`cheri_ex.sv` 766), for which line 442 waits.
* With 65-bit memory the engine writes back whole granules, but the snoop
  compares only one address of a misaligned CPU store.
* `compare_trace.py`: `reg_wcap[1:5]` (192) leaves out the base, though the comment at 187
  excludes only the tag; 580 tests `reg_raddr1` where it means `reg_raddr2`; the
  verdict (640–642) does not count `revoke_err_cnt`; Sail's last instruction
  may remain uncompared; a Sail trace of fewer than ten lines ends in an
  `IndexError`; IT8 words are not known to `parse_ibex_cap`.  Its test for instructions
  without a memory access asks for `mem_rd` twice (195–196), where the comments (194, 198)
  mean reads and writes, and so holds for every store: stores of other data, or to another address,
  pass.  With `-k` any line marked as a trap is skipped up to the next `mret`
  (541–547): a synchronous trap that the core takes and Sail does not goes unnoticed if
  its handler returns or it is the last instruction.  `PassMeansAgree` and
  `DecodersAgree` are stated with these exceptions.
* The Makefile has no `.DELETE_ON_ERROR`: `collect_results.py` writes
  `regr.log` and then fails, so the next `make` finds it up to date and
  succeeds.  With no tests selected the script divides by zero, with the
  same effect.  `SuccessDeserved` is about runs that collect.
* Make expands `dump-vars` before it executes a recipe (Makefile 387): after a
  compilation with changed options has failed, timed out or was stopped, the old test bench
  counts as that of the new options.  `RightBench` excepts runs whose last compilation was not completed.
* For Riviera and Questa, parameters are passed when a simulation is started, in variables
  that no list of prerequisites tracks: results stay after a change of `IBEX_CONFIG`.
* A simulation cut off by a kill leaves a `sim.log` that counts as done (its
  test fails); `run_cmd` takes a time-out for success; an empty
  `test-result.yml` makes collection fail until it is removed.
* `sim_makefrag_gen.py` 97 formats the function in place of the options for DSim.

## 7. Plan

1. *Done:* load-store unit and contract, zeroiser, revocation engine and
   look-up, both with the arbiter, fetch path; capabilities; trace
   comparison; regression flow with configurations; proofs about zeroiser,
   load-store unit, fetch path, revocation sweeps, both engines together,
   capabilities and regression flow.
2. `LoadFilter`: ready bits and tag clearing of `cheri_regfile.sv` with `Trvk`
   and the stalls of ID: no instruction reads a capability before its
   verdict, no verdict hits a later value of the register.
3. `Controller` with ID and WB: traps, interrupts, debug entry and sleep; one
   cause taken at a time and none lost, the saved PC is that of the
   instruction not executed, `WFI` wakes up.  Abstract specification: precise
   traps.  Then its composition with `IfStage`, whose branches it chooses.
4. The two-cycle set-bounds path with the multi-cycle state of ID; CSRs:
   interrupt-enable stack, high-water mark, counters.
5. Multiplier and divider, PMP matching, memory format 1 as functions.
6. Last: dual-core lockstep and the instruction cache.

## 8. Not modelled

* The 65-bit memory variant of engines and load-store unit, and the load-store unit outside
  CHERIoT mode.
* Data paths (ALU, byte lanes and sign extension of loads, decoders): no state;
  equivalence checking against the ISA model serves them better.
* Branch predictor, dummy instructions, instruction cache, PMP errors on
  fetches: off in the CHERIoT configuration.
* Lockstep, DMA (a separate block not instantiated by the core), test
  benches, examples, vendored code; of the tracer, all but the line that the
  comparison reads.
* Capabilities: exception causes, instructions that yield an integer, memory
  format 1.
* Regression flow: generation of programs, runs of the instruction set
  simulator, coverage; options for fusesoc and DSim; the text of operands in
  traces.
* Helper scripts without state that outlives them: version checks of tools
  (`check_tool_requirements.py`), the sv2v wrapper, the generator of
  intermediate properties in `dv/formal`.
* Rewriting the revocation engine's control registers during a sweep, which
  firmware is not to do.

## 9. Running

    tlc -config StkzRun.cfg MCStkz       # likewise the other .cfg files
    tlapm LoadStoreUnit_proofs.tla       # likewise the other *_proofs modules
