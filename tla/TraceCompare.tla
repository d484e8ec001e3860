---------------------------- MODULE TraceCompare ----------------------------
(***************************************************************************)
(* dv/cheriot/scripts/compare_trace.py: the trace of an RTL simulation is  *)
(* compared with that of the Sail model of CHERIoT, instruction by         *)
(* instruction.                                                            *)
(*                                                                         *)
(* First both machines execute a stream of instructions and write their    *)
(* traces, the RTL with at most one defect; then the script runs.  A line  *)
(* of a trace is a record of what its regular expressions tell apart,      *)
(* numbers are small, and `golden' and `rtl' keep what was really          *)
(* executed: they are what a verdict is judged by and guide no action of   *)
(* the script.                                                             *)
(***************************************************************************)
EXTENDS Naturals, Sequences, FiniteSets

CONSTANTS
    Formats,     \* pairs of option -k and format of the Sail trace (RVFI or not)
    MaxSteps,    \* bound: instructions in the stream
    MaxExcursions, \* bound: interrupts and debug requests
    MaxTail,     \* bound: lines the RTL prints after the end of the stream
    MaxLinesLeft,\* how many ibex lines may be left over, 1000 in the script
    Kinds,       \* the instructions in use, of AllKinds
    Defects      \* the defects in use, of AllDefects

AllKinds == {"alu", "lw", "sw", "uart", "clc", "revoked clc", "cgettag", "csc", "trap", "mret fault"}
AllDefects == {"pc", "data", "reg", "no write", "perms", "top", "base", "tag", "addr", "size",
               "store", "trap", "trap and return", "lost", "not revoked"}

\* The registers in use, the stack pointer, and the PCs of interrupt handler and debug ROM (0x80040000).
Regs == {1, 2}
SP == 3
IsrPc == 80
DebugPc == 90

ASSUME TraceAssumption ==
    /\ Formats \subseteq BOOLEAN \X BOOLEAN
    /\ MaxSteps \in 1 .. 9 /\ {MaxExcursions, MaxTail, MaxLinesLeft} \subseteq Nat
    /\ Kinds \subseteq AllKinds /\ Defects \subseteq AllDefects

VARIABLES
    golden, rtl,              \* what Sail and the RTL executed
    tags,                     \* of the registers, on either machine
    defect,                   \* the defect of the RTL
    skip_isr, is_rvfi,        \* option -k; format of the Sail trace
    ibex_lines, sail_lines,   \* the two files
    ibex_ptr, sail_ptr,       \* line_ptr of each
    pending_revoke_regs, ibex_in_isr, outstanding_trap,
    neq_cnt, revoke_err_cnt,
    phase                     \* "execute", "compare", "passed", "failed"

machine == <<golden, rtl, tags, defect, skip_isr, is_rvfi, ibex_lines, sail_lines>>
script == <<ibex_ptr, sail_ptr, pending_revoke_regs, ibex_in_isr, outstanding_trap, neq_cnt, revoke_err_cnt>>
vars == <<machine, script, phase>>

-----------------------------------------------------------------------------
(* The two machines.                                                        *)

\* A capability as the script keeps it: tag, permissions, type, 0, top, base.
Cap(tag) == <<tag, 1, 0, 0, 1, 1>>
NullCap == <<0, 0, 0, 0, 0, 0>>

Nop(pc, instr) == [pc |-> pc, instr |-> instr, trap |-> FALSE, trapPc |-> pc, handler |-> FALSE,
                   write |-> <<>>, mem |-> <<>>, reads |-> <<>>]
Write(r, d, c) == <<[reg |-> r, data |-> d, cap |-> c]>>
Access(dir, a, size, d) == <<[dir |-> dir, addr |-> a, size |-> size, data |-> d]>>
Read(r, t) == [reg |-> r, tag |-> t]

\* What an instruction of kind k does at pc, on a machine with
\* register tags t.  Sail's load of a revoked capability clears the tag at
\* once; the RTL writes, and traces, the loaded tag and clears it when
\* the look-up has ended.
Effect(k, pc, t, loaded) ==
    LET nop == Nop(pc, k)
        load8 == Access("load", 1, 8, 1)
    IN
    CASE k = "alu" -> [nop EXCEPT !.write = Write(1, 1, NullCap)]
      [] k = "lw" -> [nop EXCEPT !.write = Write(1, 1, NullCap), !.mem = Access("load", 1, 4, 1)]
      [] k = "sw" -> [nop EXCEPT !.mem = Access("store", 1, 4, 1)]
      [] k = "uart" -> [nop EXCEPT !.mem = Access("uart", 1, 4, 1)]
      [] k = "clc" -> [nop EXCEPT !.write = Write(1, 1, Cap(1)), !.mem = load8,
                                  !.reads = <<Read(SP, 1)>>]
      [] k = "revoked clc" -> [nop EXCEPT !.write = Write(1, 1, Cap(loaded)),
                                          !.mem = load8, !.reads = <<Read(SP, 1)>>]
      [] k = "cgettag" -> [nop EXCEPT !.write = Write(2, t[1], NullCap), !.reads = <<Read(1, t[1])>>]
      [] k = "csc" -> [nop EXCEPT !.mem = Access("store", 1, 8, t[1]),
                                  !.reads = <<Read(SP, 1), Read(1, t[1])>>]
      [] k = "trap" -> [nop EXCEPT !.trap = TRUE]
      [] k = "mret fault" -> [nop EXCEPT !.trapPc = pc + 40]

\* The faulting fetch after an mret to where PCC does not permit execution.
FaultAt(e) == [Nop(e.trapPc, "none") EXCEPT !.trap = TRUE]

\* What defect d makes of an instruction; of most it makes nothing.
SetWrite(e, f(_)) == IF e.write = <<>> THEN e ELSE [e EXCEPT !.write[1] = f(@)]
SetMem(e, f(_)) == IF e.mem = <<>> THEN e ELSE [e EXCEPT !.mem[1] = f(@)]
Corrupt(d, e) ==
    CASE d = "pc" -> [e EXCEPT !.pc = @ + 20]
      [] d = "data" -> SetWrite(e, LAMBDA w : [w EXCEPT !.data = 1 - @])
      [] d = "reg" -> SetWrite(e, LAMBDA w : [w EXCEPT !.reg = 3 - @])
      [] d = "no write" -> [e EXCEPT !.write = <<>>]
      [] d = "perms" -> SetWrite(e, LAMBDA w : [w EXCEPT !.cap[2] = 1 - @])
      [] d = "top" -> SetWrite(e, LAMBDA w : [w EXCEPT !.cap[5] = 1 - @])
      [] d = "base" -> SetWrite(e, LAMBDA w : [w EXCEPT !.cap[6] = 1 - @])
      [] d = "tag" -> SetWrite(e, LAMBDA w : [w EXCEPT !.cap[1] = 1 - @])
      [] d = "addr" -> SetMem(e, LAMBDA m : [m EXCEPT !.addr = 0])
      [] d = "size" -> SetMem(e, LAMBDA m : [m EXCEPT !.size = @ \div 2])
      [] d = "store" -> SetMem(e, LAMBDA m : IF m.dir = "store" THEN [m EXCEPT !.data = 1 - @] ELSE m)
      [] d = "trap" -> [e EXCEPT !.trap = ~@]
      [] OTHER -> e

\* The line the tracer writes (ibex_tracer.sv): marks, registers read and
\* written, memory access.
IbexLine(e) ==
    [pc |-> e.pc, instr |-> e.instr, mark |-> IF e.trap THEN "-->" ELSE IF e.handler THEN "==>" ELSE "",
     writes |-> e.write, mem |-> e.mem, reads |-> e.reads]

\* The lines Sail writes for an instruction.
SailLines(e) ==
    (IF is_rvfi THEN <<>> ELSE <<[t |-> "mem[X"]>>)
    \o <<[t |-> "instr", pc |-> e.pc, instr |-> e.instr]>>
    \o [i \in DOMAIN e.write |-> [t |-> "reg", w |-> e.write[i]]]
    \o [i \in DOMAIN e.mem |-> [t |-> IF e.mem[i].dir = "uart" THEN "uart" ELSE "mem", m |-> e.mem[i]]]
    \o (IF e.trap \/ e.trapPc # e.pc THEN <<[t |-> "trapping", pc |-> e.trapPc]>> ELSE <<>>)
    \o (IF is_rvfi THEN <<[t |-> "response"]>> ELSE <<>>)

Init ==
    /\ golden = <<>> /\ rtl = <<>> /\ defect = "none"
    /\ tags = [golden |-> [r \in Regs |-> 0], rtl |-> [r \in Regs |-> 0]]
    /\ \E f \in Formats : skip_isr = f[1] /\ is_rvfi = f[2]
    /\ ibex_lines = <<[mark |-> "header", instr |-> "header"]>> /\ sail_lines = <<[t |-> "header"]>>
    /\ ibex_ptr = 1 /\ sail_ptr = 1
    /\ pending_revoke_regs = {} /\ ibex_in_isr = FALSE /\ outstanding_trap = 0
    /\ neq_cnt = 0 /\ revoke_err_cnt = 0
    /\ phase = "execute"

\* Tags after an instruction; a revoked capability loses its tag unless kept.
TagsAfter(t, e, kept) ==
    IF e.write = <<>> THEN t
    ELSE [t EXCEPT ![e.write[1].reg] = IF e.instr = "revoked clc" /\ ~kept THEN 0 ELSE e.write[1].cap[1]]

\* Both machines execute an instruction, the RTL perhaps with defect d.  With
\* -k the instructions do not trap in Sail: it would trace their handlers too.
Execute(k, d) ==
    LET pc == Len(SelectSeq(golden, LAMBDA e : e.instr # "none")) + 1
        g == Effect(k, pc, tags.golden, 0)
        sound == Effect(k, pc, tags.rtl, 1)
        x == Corrupt(d, sound)
        gs == IF k = "mret fault" THEN <<g, FaultAt(g)>> ELSE <<g>>
        xs == IF d = "lost" THEN <<>> ELSE IF k = "mret fault" THEN <<x, FaultAt(g)>> ELSE <<x>>
    IN  /\ phase = "execute" /\ pc <= MaxSteps
        /\ skip_isr => k \notin {"trap", "mret fault"}
        /\ d # "none" => /\ defect = "none"
                         /\ \/ x # sound \/ d = "lost"
                            \/ d = "not revoked" /\ k = "revoked clc"
        /\ defect' = IF d = "none" THEN defect ELSE d
        /\ golden' = golden \o gs /\ rtl' = rtl \o xs
        /\ tags' = [golden |-> TagsAfter(tags.golden, g, FALSE),
                    rtl |-> IF d = "lost" THEN tags.rtl ELSE TagsAfter(tags.rtl, x, d = "not revoked")]
        /\ ibex_lines' = ibex_lines \o [i \in DOMAIN xs |-> IbexLine(xs[i])]
        /\ sail_lines' = sail_lines \o SailLines(g)
        /\ UNCHANGED <<skip_isr, is_rvfi, script, phase>>

\* The RTL alone takes an interrupt, or a debug request, whose handler
\* returns; these are what -k skips.
Excursion(first) ==
    LET xs == <<[Nop(first, "first") EXCEPT !.handler = first = IsrPc],
                Nop(first + 1, IF first = IsrPc THEN "mret" ELSE "dret")>>
    IN  /\ phase = "execute" /\ skip_isr
        /\ Len(SelectSeq(ibex_lines, LAMBDA l : l.instr = "first")) < MaxExcursions
        /\ ibex_lines' = ibex_lines \o [i \in DOMAIN xs |-> IbexLine(xs[i])]
        /\ UNCHANGED <<golden, rtl, tags, defect, skip_isr, is_rvfi, sail_lines, script, phase>>

\* A defect: the RTL alone takes a synchronous trap, whose handler returns to the
\* instruction.
TrapAndReturn ==
    LET pc == Len(SelectSeq(golden, LAMBDA e : e.instr # "none")) + 1
        x == [Nop(pc, "alu") EXCEPT !.trap = TRUE]
    IN  /\ phase = "execute" /\ defect = "none" /\ "trap and return" \in Defects
        /\ defect' = "trap and return"
        /\ rtl' = Append(rtl, x)
        /\ ibex_lines' = ibex_lines \o <<IbexLine(x), IbexLine(Nop(IsrPc, "mret"))>>
        /\ UNCHANGED <<golden, tags, skip_isr, is_rvfi, sail_lines, script, phase>>

\* The stream has ended; the RTL runs on until the simulation stops.
RunOn(n) ==
    /\ phase = "execute" /\ golden # <<>>
    /\ ibex_lines' = ibex_lines \o [i \in 1 .. n |-> IbexLine(Nop(70, "idle"))]
    /\ phase' = "compare"
    /\ UNCHANGED <<golden, rtl, tags, defect, skip_isr, is_rvfi, sail_lines, script>>

-----------------------------------------------------------------------------
(* Reading the traces.                                                      *)

trace_obj ==
    [valid |-> FALSE, pc |-> 0, instr |-> "none", trap |-> FALSE, trap_nxt |-> FALSE, trap_pc |-> 0,
     intr |-> FALSE, reg_wr |-> FALSE, reg_waddr |-> 0, reg_wdata |-> 0, reg_wcap |-> NullCap,
     mem_wr |-> FALSE, mem_rd |-> FALSE, mem_addr |-> 0, mem_size |-> 0, mem_data |-> 0,
     reads |-> <<>>, uart_wr |-> FALSE]

\* The first line from p on that satisfies Match, or one past the last line.
Seek(lines, p, Match(_)) ==
    CHOOSE i \in p .. Len(lines) + 1 :
        /\ i \in DOMAIN lines => Match(lines[i])
        /\ \A j \in p .. i - 1 : ~Match(lines[j])

\* What both parsers make of a register write and of a memory access.
Wrote(o, w) ==
    IF w = <<>> THEN o
    ELSE [o EXCEPT !.reg_wr = TRUE, !.reg_waddr = w[1].reg, !.reg_wdata = w[1].data, !.reg_wcap = w[1].cap]
Accessed(o, m) ==
    IF m = <<>> THEN o
    ELSE [o EXCEPT !.mem_rd = m[1].dir = "load", !.mem_wr = m[1].dir # "load",
                   !.mem_addr = m[1].addr, !.mem_data = m[1].data, !.mem_size = m[1].size]

\* ibex_trace_file.find_nxt: the object, and line_ptr after it.
IbexAt == Seek(ibex_lines, ibex_ptr, LAMBDA l : l.mark # "header")
ibex_find_nxt ==
    IF IbexAt > Len(ibex_lines) THEN trace_obj
    ELSE LET l == ibex_lines[IbexAt]
             basic == [trace_obj EXCEPT
                !.valid = TRUE, !.pc = l.pc, !.instr = l.instr, !.reads = l.reads,
                !.trap = l.mark = "-->", !.intr = l.mark = "==>",
                !.uart_wr = l.mem # <<>> /\ l.mem[1].dir = "uart"]
         IN  Accessed(Wrote(basic, l.writes), l.mem)
ibex_line_ptr == IF IbexAt > Len(ibex_lines) THEN IbexAt ELSE IbexAt + 1

\* sail_trace_file.find_nxt: an instruction's lines reach up to a separator,
\* which is consumed, or to the end of the file.
separator(l) == l.t \in {"blank", IF is_rvfi THEN "response" ELSE "mem[X"}
SailAt == Seek(sail_lines, sail_ptr, LAMBDA l : l.t = "instr")
SailEnd == Seek(sail_lines, SailAt + 1, separator)
sail_find_nxt ==
    IF SailAt > Len(sail_lines) THEN trace_obj
    ELSE LET full_instr == SubSeq(sail_lines, SailAt + 1, SailEnd - 1)
             found(kind) == SelectSeq(full_instr, LAMBDA l : l.t = kind)
             i == sail_lines[SailAt]
             t == found("trapping")
             w == found("reg")
             m == found("mem")
             trap_pc == IF t = <<>> THEN i.pc ELSE t[1].pc
             basic == [trace_obj EXCEPT
                !.valid = TRUE, !.pc = i.pc, !.instr = i.instr, !.trap_pc = trap_pc,
                !.trap = t # <<>> /\ trap_pc = i.pc,
                !.trap_nxt = t # <<>> /\ trap_pc # i.pc,
                !.uart_wr = found("uart") # <<>>]
         IN  Accessed(Wrote(basic, [j \in DOMAIN w |-> w[j].w]), [j \in DOMAIN m |-> m[j].m])
sail_line_ptr ==
    IF SailAt > Len(sail_lines) THEN SailAt
    ELSE IF SailEnd > Len(sail_lines) THEN Len(sail_lines) + 1 ELSE SailEnd + 1

-----------------------------------------------------------------------------
(* Comparing.                                                               *)

\* Permissions, type and top of a capability: reg_wcap[1:5].
AllButTag(c) == SubSeq(c, 2, 5)

\* A slip: the destination register is not compared.
SameValue(i, s) == i.instr = s.instr /\ i.reg_wr = s.reg_wr /\ i.reg_wdata = s.reg_wdata

SameWrite(i, s) ==
    /\ i.instr = s.instr /\ i.reg_wr = s.reg_wr
    /\ i.reg_wr => /\ i.reg_waddr = s.reg_waddr
                   /\ i.reg_wdata = s.reg_wdata
                   /\ AllButTag(i.reg_wcap) = AllButTag(s.reg_wcap)

NoAccess(i, s) == i.mem_wr = s.mem_wr /\ i.mem_rd = s.mem_rd /\ ~i.mem_rd
SameStore(i, s) == /\ i.mem_wr = s.mem_wr /\ i.mem_wr
                   /\ i.mem_addr = s.mem_addr /\ i.mem_size = s.mem_size /\ i.mem_data = s.mem_data
SameLoad(i, s) == /\ i.mem_rd = s.mem_rd /\ i.mem_rd
                  /\ i.mem_addr = s.mem_addr /\ i.mem_size = s.mem_size

almost_eq(i, s) ==
    /\ i.valid /\ s.valid /\ i.pc = s.pc /\ i.trap = s.trap
    /\ \/ i.trap
       \/ /\ SameWrite(i, s)
          /\ \/ NoAccess(i, s) \/ SameStore(i, s) \/ SameLoad(i, s)
             \/ i.uart_wr /\ s.uart_wr

eq(i, s) == almost_eq(i, s) /\ i.reg_wcap[1] = s.reg_wcap[1]

\* A load whose tag the RTL has not yet cleared.
revocation(i, s) == almost_eq(i, s) /\ i.reg_wcap[1] = 1 /\ i.mem_rd

\* Revocations settled by what instruction i reads and writes.  The test for cs2
\* looks for its first operand among the pending ones.
Addr1(i) == IF i.reads = <<>> THEN 0 ELSE i.reads[1].reg
SettledByCs1(i, p) == IF i.reads # <<>> /\ i.reads[1].tag = 0 THEN p \ {Addr1(i)} ELSE p
SettledByCs2(i, p) ==
    IF Len(i.reads) = 2 /\ i.reads[2].tag = 0 /\ Addr1(i) \in p THEN p \ {i.reads[2].reg} ELSE p
SettledByWrite(i, p) == IF i.reg_wr THEN p \ {i.reg_waddr} ELSE p
revoke_errs(i, p) == {j \in DOMAIN i.reads : i.reads[j].reg \in p /\ i.reads[j].tag = 1}

\* A slip: only the first instruction of a handler is skipped.
SkippedAtEntry(i) == skip_isr /\ i.valid /\ (i.trap \/ i.intr \/ i.pc >= DebugPc)

\* What -k leaves out of the ibex trace.
skipped(i) == skip_isr /\ i.valid /\ (i.trap \/ i.intr \/ ibex_in_isr \/ i.pc >= DebugPc)

\* Sail's next object: a fault announced by the last one, or the next in the file.
sail_obj ==
    IF outstanding_trap = 0 THEN sail_find_nxt
    ELSE [trace_obj EXCEPT !.valid = TRUE, !.trap = TRUE, !.pc = outstanding_trap]

\* One turn of the inner loop.
SkipOne(i) ==
    LET in_isr == ibex_in_isr \/ i.trap \/ i.intr
    IN  /\ skipped(i)
        /\ ibex_ptr' = ibex_line_ptr
        /\ ibex_in_isr' = (in_isr /\ i.instr # "mret")
        /\ UNCHANGED <<machine, sail_ptr, pending_revoke_regs, outstanding_trap, neq_cnt, revoke_err_cnt, phase>>

Advance ==
    /\ ibex_ptr' = ibex_line_ptr
    /\ sail_ptr' = IF outstanding_trap = 0 THEN sail_line_ptr ELSE sail_ptr

\* One turn of the outer loop.
CompareOne(i, s) ==
    LET left == SettledByWrite(i, SettledByCs2(i, SettledByCs1(i, pending_revoke_regs)))
        same == eq(i, s)
        delayed == ~same /\ revocation(i, s)
    IN  /\ ~skipped(i) /\ i.valid /\ s.valid
        /\ Advance
        /\ revoke_err_cnt' = revoke_err_cnt + Cardinality(revoke_errs(i, pending_revoke_regs))
        /\ pending_revoke_regs' = IF delayed THEN left \cup {i.reg_waddr} ELSE left
        /\ neq_cnt' = IF same \/ delayed THEN neq_cnt ELSE neq_cnt + 1
        /\ outstanding_trap' = IF s.trap_nxt THEN s.trap_pc ELSE 0
        /\ UNCHANGED <<machine, ibex_in_isr, phase>>

\* The verdict, with p and q the line pointers at the end.
comparison_passed(p, q) ==
    /\ neq_cnt = 0 /\ pending_revoke_regs = {}
    /\ ibex_lines # <<>> \/ sail_lines # <<>>
    /\ Len(ibex_lines) + 1 - p < MaxLinesLeft
    /\ q = Len(sail_lines) + 1

\* A trace is at its end.  Sail's object has been read, and does not count
\* among the lines left, before the RTL's is found to be missing.
Finish(i, s) ==
    /\ ~skipped(i)
    /\ ~i.valid \/ ~s.valid
    /\ Advance
    /\ phase' = IF comparison_passed(ibex_ptr', sail_ptr') THEN "passed" ELSE "failed"
    /\ UNCHANGED <<machine, pending_revoke_regs, ibex_in_isr, outstanding_trap, neq_cnt, revoke_err_cnt>>

Step ==
    /\ phase = "compare"
    /\ \E i \in {ibex_find_nxt}, s \in {sail_obj} : SkipOne(i) \/ CompareOne(i, s) \/ Finish(i, s)

Next ==
    \/ \E k \in Kinds, d \in Defects \cup {"none"} : Execute(k, d)
    \/ \E first \in {IsrPc, DebugPc} : Excursion(first)
    \/ TrapAndReturn
    \/ \E n \in 0 .. MaxTail : RunOn(n)
    \/ Step

Spec == Init /\ [][Next]_vars

-----------------------------------------------------------------------------
(* Properties.                                                              *)

DelayedTag(g, x) == x.mem # <<>> /\ x.write[1].cap[1] = 1 /\ g.write[1].cap[1] = 0

SameInstruction(g, x) ==
    /\ g.pc = x.pc /\ g.trap = x.trap
    /\ ~g.trap =>
        /\ g.instr = x.instr
        /\ Len(g.write) = Len(x.write)
        /\ \A n \in DOMAIN g.write :
              /\ g.write[n].reg = x.write[n].reg /\ g.write[n].data = x.write[n].data
              /\ \A f \in IF DelayedTag(g, x) THEN 2 .. 5 ELSE 1 .. 5 :
                    g.write[n].cap[f] = x.write[n].cap[f]
        /\ \A n \in DOMAIN g.mem :
              g.mem[n].dir = "load" => x.mem[n].addr = g.mem[n].addr /\ x.mem[n].size = g.mem[n].size

Overwrites(e, r) == e.write # <<>> /\ e.write[1].reg = r
ReadsUntagged(e, r) == \E n \in DOMAIN e.reads : e.reads[n] = Read(r, 0)

\* A tag the RTL kept on instruction n of x, a load, and Sail did not, was seen to
\* be cleared: afterwards the register was read without its tag or was overwritten.
Settled(x, n) ==
    x[n].write # <<>> /\ x[n].write[1].cap[1] = 1 /\ golden[n].write[1].cap[1] = 0 =>
        \E m \in n + 1 .. Len(x) :
            Overwrites(x[m], x[n].write[1].reg) \/ ReadsUntagged(x[m], x[n].write[1].reg)

\* What -k leaves of the RTL's instructions: those that did not trap.
Compared == IF skip_isr THEN SelectSeq(rtl, LAMBDA e : ~e.trap) ELSE rtl

\* A passed comparison means that the RTL executed what Sail executed: the
\* same instructions, traps, register writes (save the base of a capability and a
\* tag to be revoked, which must then be seen to be cleared) and loads, from the
\* first instruction on and with at most the last one missing, whatever
\* interrupts and debug requests were skipped in between.  Two exceptions: stores
\* are not compared (the test at 195-196 holds for each of them); and with -k
\* the synchronous traps that the RTL alone takes are skipped like interrupts
\* (541-547), unnoticed where the handler returns or the stream ends.
\* (compare_trace.py, the verdict at 640-642 and pending_revoke_regs.)
PassMeansAgree ==
    phase = "passed" =>
        /\ \A n \in DOMAIN Compared :
              n \in DOMAIN golden /\ SameInstruction(golden[n], Compared[n]) /\ Settled(Compared, n)
        /\ Cardinality({n \in Len(Compared) + 1 .. Len(golden) : golden[n].instr # "none"}) <= 1

\* An RTL without defects passes, in both formats, with and without -k, with
\* interrupts and debug requests anywhere and the RTL running on a little, provided
\* each register with a revoked capability is later overwritten or read as cs1.
\* (compare_trace.py, main loop.)
NoFalseAlarm ==
    phase = "failed" /\ defect = "none" =>
        \/ Len(ibex_lines) + 1 - ibex_ptr >= MaxLinesLeft
        \/ \E n \in DOMAIN rtl :
              /\ rtl[n].instr = "revoked clc"
              /\ \A m \in n + 1 .. Len(rtl) :
                    /\ ~Overwrites(rtl[m], rtl[n].write[1].reg)
                    /\ rtl[m].reads # <<>> => rtl[m].reads[1].reg # rtl[n].write[1].reg
=============================================================================
