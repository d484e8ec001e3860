------------------------- MODULE StkzSystem_proofs -------------------------
(***************************************************************************)
(* Theorems about StkzSystem, for every address space, every set of ZTOPC  *)
(* values and CPU accesses, and every setting of the parameters.           *)
(***************************************************************************)
EXTENDS StkzSystem, TLAPS

\* A slice of an address is a word address.
LEMMA WordType == ASSUME NEW a \in Addrs PROVE Word(a) \in Words
BY AddrMaxAssumption DEF Addrs, Words, Word

\* The engine's run in progress: it stays inside the region of the ZTOPC value
\* that started it, and the load-store unit holds no request of an idle engine.
RunInv ==
    /\ stkz_active => /\ run \in ZtopWrites
                      /\ stkz_basew = Word(run.base)
                      /\ stkz_basew <= stkz_ptrw_nxt
                      /\ stkz_ptrw_nxt < Word(run.addr)
    /\ lsu.st = "busy" /\ lsu.who = "tbre" => stkz_active

IInv == TypeOK /\ RunInv

LEMMA InitIInv == Init => IInv
<1> SUFFICES ASSUME Init PROVE IInv
  OBVIOUS
<1>1. 0 \in Words
  BY AddrMaxAssumption DEF Words, Word
<1>2. StkzTypeOK
  BY <1>1 DEF Init, StkzInit, StkzTypeOK, RegCaps
<1>3. PortTypeOK /\ ~(lsu.st = "busy")
  BY DEF Init, PortInit, PortTypeOK, LsuStates, LsuFree
<1>4. TypeOK
  BY <1>2, <1>3 DEF Init, TypeOK, Instrs
<1> QED
  BY <1>3, <1>4 DEF Init, StkzInit, IInv, RunInv, stkz_active

LEMMA StutterIInv == IInv /\ UNCHANGED vars => IInv'
BY DEF IInv, RunInv, TypeOK, StkzTypeOK, PortTypeOK, vars, stkzVars, stkz_active

\* The port's step, and who is served in it.
LEMMA PortStep ==
  ASSUME PortTypeOK, NEW resp \in BOOLEAN, NEW cpuReq \in BOOLEAN, NEW tbreGood \in BOOLEAN,
         NEW done \in BOOLEAN, PortCycle(resp, cpuReq, tbreGood, done)
  PROVE  /\ PortTypeOK'
         /\ Server(resp, cpuReq, tbreGood) \in Masters \cup {"none"}
         /\ Server(resp, cpuReq, tbreGood) = "tbre" =>
              (lsu.st = "busy" /\ lsu.who = "tbre") \/ tbreGood
         /\ lsu'.st = "busy" /\ lsu'.who = "tbre" =>
              Server(resp, cpuReq, tbreGood) = "tbre" /\ ~done
<1> DEFINE who == Server(resp, cpuReq, tbreGood)
<1>0. lsu \in LsuStates
  BY DEF PortTypeOK
<1>1. who \in Masters \cup {"none"}
  BY <1>0 DEF Server, LsuStates, Masters
<1>2. who = "tbre" => (lsu.st = "busy" /\ lsu.who = "tbre") \/ tbreGood
  BY <1>0 DEF Server, LsuStates, Masters
<1>3. CASE who # "none"
  <2>1. lsu' = [st |-> IF done THEN "resp" ELSE "busy", who |-> who]
    BY <1>3 DEF PortCycle
  <2>2. lsu' \in LsuStates
    BY <2>1, <1>1, <1>3 DEF LsuStates
  <2> QED
    BY <2>1, <2>2, <1>1, <1>2 DEF PortTypeOK
<1>4. CASE who = "none"
  <2>1. lsu' = LsuFree \/ lsu' = lsu
    BY <1>4 DEF PortCycle
  <2>2. ~(lsu.st = "busy")
    BY <1>0, <1>4 DEF Server, LsuStates, Masters
  <2>3. lsu' \in LsuStates /\ ~(lsu'.st = "busy")
    BY <2>1, <2>2, <1>0 DEF LsuStates, LsuFree
  <2> QED
    BY <2>3, <1>1, <1>2 DEF PortTypeOK
<1> QED
  BY <1>3, <1>4
\* What a ZTOPC write can be in a cycle.
LEMMA WriteType ==
  ASSUME TypeOK
  PROVE  ztop_write \in ZtopWrites \cup {NoWrite}
BY CpuAccessesAssumption DEF TypeOK, Instrs, ztop_write, Other

\* A starting value names a region of at least one word.
LEMMA StartRegion ==
  ASSUME NEW w \in ZtopWrites \cup {NoWrite}, stkz_start(w)
  PROVE  /\ w \in ZtopWrites
         /\ w.cap = "tagged"
         /\ Word(w.addr) \in Words /\ Word(w.base) \in Words
         /\ Word(w.base) <= Word(w.addr) - 1
         /\ Word(w.addr) - 1 \in Words
<1>1. w \in ZtopWrites /\ w.cap = "tagged"
  BY DEF stkz_start, ztop_wr, cmd_cap_good, NoWrite
<1>2. w.addr \in Addrs /\ w.base \in Addrs
  BY <1>1, ZtopWritesAssumption DEF ZtopValues
<1>3. Word(w.addr) \in Words /\ Word(w.base) \in Words
  BY <1>2, WordType
<1>4. Word(w.addr) > Word(w.base)
  BY DEF stkz_start
<1>5. Word(AddrMax) \in Nat
  BY AddrMaxAssumption DEF Word
<1> QED
  BY <1>1, <1>3, <1>4, <1>5 DEF Words

\* The engine's own step: types, the region of the run, and when it idles.
LEMMA EngineStep ==
  ASSUME StkzTypeOK, RunInv, NEW w \in ZtopWrites \cup {NoWrite},
         NEW intr \in BOOLEAN, NEW reqDone \in BOOLEAN, NEW respErr \in BOOLEAN,
         StkzCycle(w, intr, reqDone, respErr),
         run' = IF stkz_start(w) THEN w ELSE run
  PROVE  /\ StkzTypeOK'
         /\ stkz_active' => /\ run' \in ZtopWrites
                            /\ stkz_basew' = Word(run'.base)
                            /\ stkz_basew' <= stkz_ptrw_nxt'
                            /\ stkz_ptrw_nxt' < Word(run'.addr)
         /\ stkz_active /\ ~reqDone => stkz_active'
<1>0. Word(AddrMax) \in Nat
  BY AddrMaxAssumption DEF Word
<1>1. stkz_fsm' \in {"STKZ_IDLE", "STKZ_ACTIVE", "STKZ_ABORT"}
  BY DEF StkzTypeOK, StkzCycle, stkz_fsm_d
<1>2. stkz_active /\ ~reqDone => stkz_active'
  BY DEF StkzTypeOK, StkzCycle, stkz_fsm_d, stkz_active
<1>3. stkz_active' => stkz_active \/ stkz_start(w)
  BY DEF StkzCycle, stkz_fsm_d, stkz_active
<1>4. stkz_err' \in BOOLEAN
  BY DEF StkzTypeOK, StkzCycle
<1>5. stkz_ptrw' \in Words /\ ztop_rcap' \in RegCaps
  <2>1. CASE ztop_wr(w)
    <3>1. w \in ZtopValues
      BY <2>1, ZtopWritesAssumption DEF ztop_wr, NoWrite
    <3>2. Word(w.addr) \in Words /\ w.cap \in RegCaps
      BY <3>1, WordType DEF ZtopValues
    <3> QED
      BY <2>1, <3>2 DEF StkzCycle, ZtopUpdate, cmd_wcap, RegCaps
  <2>2. CASE ~ztop_wr(w)
    BY <2>2 DEF StkzCycle, ZtopUpdate, StkzTypeOK, ztop_rcap_nxt, RegCaps
  <2> QED
    BY <2>1, <2>2
<1>6. CASE stkz_start(w)
  <2>1. stkz_ptrw_nxt' = Word(w.addr) - 1 /\ stkz_basew' = Word(w.base) /\ run' = w
    BY <1>6 DEF StkzCycle, ContextUpdate
  <2> QED
    BY <2>1, <1>0, <1>1, <1>2, <1>4, <1>5, <1>6, StartRegion DEF StkzTypeOK, Words
<1>7. CASE ~stkz_start(w)
  <2>1. run' = run /\ stkz_basew' = stkz_basew
    BY <1>7 DEF StkzCycle, ContextUpdate
  <2>2. \/ stkz_ptrw_nxt' = stkz_ptrw_nxt
        \/ stkz_active /\ stkz_ptrw_nxt > stkz_basew /\ stkz_ptrw_nxt' = stkz_ptrw_nxt - 1
    BY <1>7, <1>0 DEF StkzCycle, ContextUpdate, stkz_done, StkzTypeOK, Words
  <2>3. stkz_ptrw_nxt' \in Words /\ stkz_ptrw_nxt' <= stkz_ptrw_nxt
    BY <2>2, <1>0 DEF StkzTypeOK, Words
  <2>4. StkzTypeOK'
    BY <2>1, <2>3, <1>1, <1>4, <1>5 DEF StkzTypeOK
  <2>5. stkz_active' => stkz_active
    BY <1>3, <1>7
  <2>6. ASSUME stkz_active'
        PROVE  /\ run' \in ZtopWrites
               /\ stkz_basew' = Word(run'.base)
               /\ stkz_basew' <= stkz_ptrw_nxt'
               /\ stkz_ptrw_nxt' < Word(run'.addr)
    <3>1. /\ run \in ZtopWrites
          /\ stkz_basew = Word(run.base)
          /\ stkz_basew <= stkz_ptrw_nxt
          /\ stkz_ptrw_nxt < Word(run.addr)
      BY <2>5, <2>6 DEF RunInv
    <3>2. run.addr \in Addrs
      BY <3>1, ZtopWritesAssumption DEF ZtopValues
    <3>3. Word(run.addr) \in Words
      BY <3>2, WordType
    <3> QED
      BY <3>1, <3>3, <2>1, <2>2, <1>0 DEF StkzTypeOK, Words
  <2> QED
    BY <2>4, <2>6, <1>2
<1> QED
  BY <1>6, <1>7

\* The facts about a cycle that the rest needs.
LEMMA CycleFacts ==
  ASSUME IInv, NEW resp \in BOOLEAN, NEW done \in BOOLEAN, NEW err \in BOOLEAN,
         NEW intr \in BOOLEAN, NEW incr \in BOOLEAN, Cycle(resp, done, err, intr, incr)
  PROVE  /\ IInv'
         /\ Server(resp, cpu_req_valid, tbre_req_good) = "tbre" => stkz_active
<1> DEFINE who == Server(resp, cpu_req_valid, tbre_req_good)
           stkzDone == done /\ who = "tbre"
           cpuDone == done /\ who = "cpu"
           respErr == resp /\ lsu.who = "tbre" /\ lsuErr
<1>1. TypeOK /\ RunInv /\ StkzTypeOK /\ PortTypeOK
  BY DEF IInv, TypeOK
<1>2. /\ PortCycle(resp, cpu_req_valid, tbre_req_good, done)
      /\ StkzCycle(ztop_write, intr, stkzDone, respErr)
      /\ MemUpdate(stkzDone, cpuDone, err)
      /\ IdUpdate(cpuDone)
      /\ stkz_stall_q' = cpu_stall_by_stkz(incr)
      /\ lsuErr' = IF done THEN err ELSE lsuErr /\ ~resp
      /\ run' = IF stkz_start(ztop_write) THEN ztop_write ELSE run
      /\ readback' = IF ztop_wr(ztop_write) THEN stkz_start(ztop_write) ELSE readback
  BY DEF Cycle
<1>3. cpu_req_valid \in BOOLEAN /\ tbre_req_good \in BOOLEAN
  BY DEF cpu_req_valid, tbre_req_good
<1>4. /\ PortTypeOK'
      /\ who = "tbre" => (lsu.st = "busy" /\ lsu.who = "tbre") \/ tbre_req_good
      /\ lsu'.st = "busy" /\ lsu'.who = "tbre" => who = "tbre" /\ ~done
  BY <1>1, <1>2, <1>3, PortStep
<1>5. who = "tbre" => stkz_active
  BY <1>1, <1>4 DEF RunInv, tbre_req_good, stkz_lsu_req
<1>6. ztop_write \in ZtopWrites \cup {NoWrite}
  BY <1>1, WriteType
<1>7. /\ StkzTypeOK'
      /\ stkz_active' => /\ run' \in ZtopWrites
                         /\ stkz_basew' = Word(run'.base)
                         /\ stkz_basew' <= stkz_ptrw_nxt'
                         /\ stkz_ptrw_nxt' < Word(run'.addr)
      /\ stkz_active /\ ~stkzDone => stkz_active'
  <2>1. stkzDone \in BOOLEAN /\ respErr \in BOOLEAN
    OBVIOUS
  <2> HIDE DEF stkzDone, respErr
  <2> QED
    BY <1>1, <1>2, <1>6, <2>1, EngineStep
<1>8. RunInv'
  BY <1>4, <1>5, <1>7 DEF RunInv
<1>9. mem' \in [Words -> {"old", "zero", "new"}]
  BY <1>1, <1>2 DEF MemUpdate, TypeOK, StkzTypeOK
<1>10. id' \in Instrs /\ instr_first_cycle' \in BOOLEAN
  BY <1>1, <1>2 DEF IdUpdate, TypeOK
<1>11. stkz_stall_q' \in BOOLEAN /\ lsuErr' \in BOOLEAN
  BY <1>1, <1>2 DEF cpu_stall_by_stkz, TypeOK
<1>12. run' \in ZtopWrites \cup {NoWrite} /\ readback' \in BOOLEAN
  BY <1>1, <1>2, <1>6 DEF TypeOK, stkz_start
<1>13. TypeOK'
  BY <1>4, <1>7, <1>9, <1>10, <1>11, <1>12 DEF TypeOK
<1> QED
  BY <1>5, <1>8, <1>13 DEF IInv

LEMMA NextIInv == IInv /\ [Next]_vars => IInv'
BY StutterIInv, CycleFacts DEF Next

\* Every reachable state has the right types: in particular the word counter
\* never wraps below zero, for a region down to address zero either.
THEOREM TypeCorrect == Spec => []TypeOK
<1>1. IInv => TypeOK
  BY DEF IInv
<1> QED
  BY InitIInv, NextIInv, <1>1, PTL DEF Spec

\* The engine clears only words of the capability that started the run,
\* whatever software writes to ZTOPC and whenever it writes it.
THEOREM RegionSafe == Spec => ClearsOnlyItsRegion
<1> DEFINE P == \A x \in Words : mem[x] # "zero" /\ mem'[x] = "zero" =>
                    Word(run.base) <= x /\ x < Word(run.addr)
<1>1. ASSUME IInv, [Next]_vars PROVE [P]_vars
  <2>1. SUFFICES ASSUME Next, NEW x \in Words, mem[x] # "zero", mem'[x] = "zero"
                 PROVE  Word(run.base) <= x /\ x < Word(run.addr)
    BY <1>1
  <2>2. PICK resp, done, err, intr, incr \in BOOLEAN : Cycle(resp, done, err, intr, incr)
    BY <2>1 DEF Next
  <2>3. MemUpdate(done /\ Server(resp, cpu_req_valid, tbre_req_good) = "tbre",
                  done /\ Server(resp, cpu_req_valid, tbre_req_good) = "cpu", err)
    BY <2>2 DEF Cycle
  <2>4. TypeOK /\ RunInv
    BY <1>1 DEF IInv
  <2>5. Server(resp, cpu_req_valid, tbre_req_good) = "tbre" /\ x = stkz_ptrw_nxt
    BY <2>1, <2>3, <2>4 DEF MemUpdate, TypeOK
  <2>6. stkz_active
    BY <1>1, <2>2, <2>5, CycleFacts
  <2> QED
    BY <2>4, <2>5, <2>6 DEF RunInv
<1> QED
  BY InitIInv, NextIInv, <1>1, PTL DEF Spec, ClearsOnlyItsRegion
-----------------------------------------------------------------------------
(* The readable progress.                                                    *)

\* As long as ZTOPC has not been rewritten, the word read back is the one above
\* the word being cleared; an error to come belongs to the outstanding response;
\* and the unit works for the CPU only while its access is in ID/EX.
ProgressInv ==
    /\ readback => run \in ZtopWrites
    /\ stkz_active /\ readback => stkz_ptrw = stkz_ptrw_nxt + 1
    /\ lsuErr => lsu.st = "resp"
    /\ lsu.st = "busy" /\ lsu.who = "cpu" => cpu_lsu_dec
    /\ ProgressIsCleared

LEMMA InitProgress == Init => ProgressInv
BY DEF Init, PortInit, LsuFree, ProgressInv, ProgressIsCleared

LEMMA StutterProgress == ProgressInv /\ UNCHANGED vars => ProgressInv'
BY DEF ProgressInv, ProgressIsCleared, vars, stkzVars, stkz_active, cpu_lsu_dec

\* The conjuncts of a cycle, with the master it serves.
LEMMA CycleParts ==
  ASSUME IInv, NEW resp \in BOOLEAN, NEW done \in BOOLEAN, NEW err \in BOOLEAN,
         NEW intr \in BOOLEAN, NEW incr \in BOOLEAN, Cycle(resp, done, err, intr, incr),
         NEW who, who = Server(resp, cpu_req_valid, tbre_req_good)
  PROVE  /\ TypeOK /\ TypeOK' /\ RunInv
         /\ ztop_write \in ZtopWrites \cup {NoWrite}
         /\ who = "tbre" => stkz_active
         /\ who \in {"cpu", "tbre", "none"}
         /\ done => who # "none"
         /\ resp => lsu.st = "resp"
         /\ lsu.st = "busy" => who = lsu.who
         /\ lsu.st = "resp" /\ ~resp => who = "none"
         /\ lsu.st # "busy" /\ who = "cpu" => cpu_req_valid
         /\ who # "none" => lsu'.st = (IF done THEN "resp" ELSE "busy") /\ lsu'.who = who
         /\ who = "none" /\ ~resp => lsu' = lsu
         /\ who = "none" /\ resp => lsu'.st = "free"
<1>1. IInv' /\ (who = "tbre" => stkz_active)
  BY CycleFacts
<1>2. TypeOK /\ TypeOK' /\ RunInv /\ lsu \in LsuStates
  BY <1>1 DEF IInv, TypeOK, PortTypeOK
<1>3. ztop_write \in ZtopWrites \cup {NoWrite}
  BY <1>2, WriteType
<1>4. PortCycle(resp, cpu_req_valid, tbre_req_good, done)
  BY DEF Cycle
<1>5. /\ who \in {"cpu", "tbre", "none"}
      /\ lsu.st = "busy" => who = lsu.who
      /\ lsu.st = "resp" /\ ~resp => who = "none"
      /\ lsu.st # "busy" /\ who = "cpu" => cpu_req_valid
  BY <1>2 DEF Server, LsuStates, Masters
<1>6. /\ done => who # "none"
      /\ resp => lsu.st = "resp"
      /\ lsu' = IF who # "none" THEN [st |-> IF done THEN "resp" ELSE "busy", who |-> who]
                ELSE IF resp THEN LsuFree ELSE lsu
  BY <1>4 DEF PortCycle
<1> QED
  BY <1>1, <1>2, <1>3, <1>5, <1>6 DEF LsuFree

\* A cycle without a ZTOPC write, as far as the progress is concerned.
LEMMA QuietStep ==
  ASSUME IInv, NEW intr \in BOOLEAN, NEW reqDone \in BOOLEAN, NEW respErr \in BOOLEAN,
         StkzCycle(ztop_write, intr, reqDone, respErr), ~ztop_wr(ztop_write)
  PROVE  /\ ~stkz_start(ztop_write)
         /\ ~cmd_new_null(ztop_write)
         /\ stkz_err' = (stkz_err \/ respErr)
         /\ stkz_active' => stkz_active
         /\ stkz_basew' = stkz_basew
         /\ stkz_active /\ reqDone => stkz_ptrw' = stkz_ptrw_nxt /\ ztop_rcap' = ztop_rcap_nxt
         /\ ~(stkz_active /\ reqDone) => /\ stkz_ptrw' = stkz_ptrw /\ ztop_rcap' = ztop_rcap
                                         /\ stkz_ptrw_nxt' = stkz_ptrw_nxt
         /\ stkz_active' /\ reqDone => stkz_ptrw_nxt' = stkz_ptrw_nxt - 1
<1>1. ~stkz_start(ztop_write) /\ ~cmd_new_null(ztop_write)
  BY DEF stkz_start, cmd_new_null, NullZtop, ztop_wr
<1>2. stkz_active' => stkz_active
  BY <1>1 DEF StkzCycle, stkz_fsm_d, stkz_active
<1>3. stkz_err' = (stkz_err \/ respErr)
  BY <1>1 DEF StkzCycle
<1>4. stkz_active' /\ reqDone => stkz_ptrw_nxt' = stkz_ptrw_nxt - 1
  BY <1>1, <1>2 DEF IInv, TypeOK, StkzTypeOK, StkzCycle, ContextUpdate, stkz_fsm_d, stkz_active, stkz_stop
<1> QED
  BY <1>1, <1>2, <1>3, <1>4 DEF StkzCycle, ZtopUpdate, ContextUpdate

LEMMA CycleProgress ==
  ASSUME IInv, ProgressInv, NEW resp \in BOOLEAN, NEW done \in BOOLEAN, NEW err \in BOOLEAN,
         NEW intr \in BOOLEAN, NEW incr \in BOOLEAN, Cycle(resp, done, err, intr, incr)
  PROVE  ProgressInv'
<1> DEFINE who == Server(resp, cpu_req_valid, tbre_req_good)
           stkzDone == done /\ who = "tbre"
           cpuDone == done /\ who = "cpu"
           respErr == resp /\ lsu.who = "tbre" /\ lsuErr
           w == ztop_write
<1>1. /\ TypeOK /\ TypeOK' /\ RunInv
      /\ w \in ZtopWrites \cup {NoWrite}
      /\ who = "tbre" => stkz_active
      /\ who \in {"cpu", "tbre", "none"}
      /\ done => who # "none"
      /\ resp => lsu.st = "resp"
      /\ lsu.st = "busy" => who = lsu.who
      /\ lsu.st = "resp" /\ ~resp => who = "none"
      /\ lsu.st # "busy" /\ who = "cpu" => cpu_req_valid
      /\ who # "none" => lsu'.st = (IF done THEN "resp" ELSE "busy") /\ lsu'.who = who
      /\ who = "none" /\ ~resp => lsu' = lsu
      /\ who = "none" /\ resp => lsu'.st = "free"
  BY CycleParts
<1>2. /\ StkzCycle(w, intr, stkzDone, respErr)
      /\ MemUpdate(stkzDone, cpuDone, err)
      /\ IdUpdate(cpuDone)
      /\ lsuErr' = IF done THEN err ELSE lsuErr /\ ~resp
      /\ run' = IF stkz_start(w) THEN w ELSE run
      /\ readback' = IF ztop_wr(w) THEN stkz_start(w) ELSE readback
      /\ err => done
  BY DEF Cycle
<1>b. stkzDone \in BOOLEAN /\ respErr \in BOOLEAN
  OBVIOUS
<1> HIDE DEF who
<1>3. readback' => run' \in ZtopWrites
  BY <1>1, <1>2, StartRegion DEF ProgressInv, stkz_start
<1>4. lsuErr' => lsu'.st = "resp"
  BY <1>1, <1>2 DEF ProgressInv
<1>5. lsu'.st = "busy" /\ lsu'.who = "cpu" => cpu_lsu_dec'
  <2>1. SUFFICES ASSUME lsu'.st = "busy", lsu'.who = "cpu" PROVE cpu_lsu_dec'
    OBVIOUS
  <2>2. who = "cpu" /\ ~done
    BY <1>1, <2>1 DEF TypeOK, PortTypeOK, LsuStates
  <2>3. cpu_lsu_dec
    BY <1>1, <2>2 DEF ProgressInv, cpu_req_valid
  <2>4. id' = id
    BY <1>2, <2>2, <2>3 DEF IdUpdate
  <2> QED
    BY <2>3, <2>4 DEF cpu_lsu_dec
<1>6. CASE ztop_wr(w)
  <2>1. ASSUME readback'
        PROVE  /\ stkz_active' => stkz_ptrw' = stkz_ptrw_nxt' + 1
               /\ stkz_ptrw' .. Word(run'.addr) - 1 = {}
    <3>1. stkz_start(w)
      BY <1>2, <1>6, <2>1
    <3>2. Word(w.addr) \in Int
      BY <1>1, <3>1, StartRegion DEF Words
    <3> QED
      BY <1>2, <1>6, <3>1, <3>2 DEF StkzCycle, ZtopUpdate, ContextUpdate
  <2> QED
    BY <1>3, <1>4, <1>5, <2>1 DEF ProgressInv, ProgressIsCleared
<1>7. CASE ~ztop_wr(w)
  <2>1. /\ ~stkz_start(w)
        /\ stkz_err' = (stkz_err \/ respErr)
        /\ stkz_active' => stkz_active
        /\ stkz_active /\ stkzDone => stkz_ptrw' = stkz_ptrw_nxt
        /\ ~(stkz_active /\ stkzDone) => stkz_ptrw' = stkz_ptrw /\ stkz_ptrw_nxt' = stkz_ptrw_nxt
        /\ stkz_active' /\ stkzDone => stkz_ptrw_nxt' = stkz_ptrw_nxt - 1
    <3> HIDE DEF stkzDone, respErr
    <3> QED
      BY <1>b, <1>2, <1>7, QuietStep
  <2>2. run' = run /\ readback' = readback
    BY <1>2, <1>7, <2>1
  <2>3. stkz_ptrw \in Int /\ stkz_ptrw_nxt \in Int /\ stkz_ptrw_nxt \in Words
    BY <1>1 DEF TypeOK, StkzTypeOK, Words
  <2>4. stkz_active' /\ readback' => stkz_ptrw' = stkz_ptrw_nxt' + 1
    BY <2>1, <2>2, <2>3 DEF ProgressInv
  <2>5. ASSUME readback', NEW x \in stkz_ptrw' .. Word(run'.addr) - 1
        PROVE  mem'[x] # "old" \/ stkz_err' \/ (lsuErr' /\ lsu'.who = "tbre")
    <3>1. Word(run.addr) \in Words /\ Word(AddrMax) \in Int
      BY <1>3, <2>2, <2>5, ZtopWritesAssumption, WordType, AddrMaxAssumption DEF ZtopValues, Word
    <3>2. x \in Words
      BY <1>1, <2>2, <3>1, <2>5 DEF TypeOK, StkzTypeOK, Words
    <3>3. CASE stkzDone /\ x = stkz_ptrw_nxt
      BY <1>1, <1>2, <2>1, <2>3, <3>3 DEF MemUpdate, TypeOK
    <3>4. CASE ~(stkzDone /\ x = stkz_ptrw_nxt)
      <4>1. x \in stkz_ptrw .. Word(run.addr) - 1
        BY <1>1, <2>1, <2>2, <2>3, <2>5, <3>1, <3>4 DEF ProgressInv, Words
      <4>2. mem[x] # "old" \/ stkz_err \/ (lsuErr /\ lsu.who = "tbre")
        BY <2>2, <2>5, <4>1 DEF ProgressInv, ProgressIsCleared
      <4>3. mem[x] # "old" => mem'[x] # "old"
        BY <1>1, <1>2, <2>1, <2>3, <3>2 DEF MemUpdate, TypeOK
      <4>4. lsuErr /\ lsu.who = "tbre" => stkz_err' \/ (lsuErr' /\ lsu'.who = "tbre")
        BY <1>1, <1>2, <2>1 DEF ProgressInv
      <4> QED
        BY <2>1, <4>2, <4>3, <4>4
    <3> QED
      BY <3>3, <3>4
  <2> QED
    BY <1>3, <1>4, <1>5, <2>4, <2>5 DEF ProgressInv, ProgressIsCleared
<1> QED
  BY <1>6, <1>7

LEMMA NextProgress == IInv /\ ProgressInv /\ [Next]_vars => ProgressInv'
BY StutterProgress, CycleProgress DEF Next

\* What is read back of ZTOPC never runs ahead of memory, whatever the delays and the
\* errors of the bus and whoever else accesses memory.
THEOREM ProgressCorrect == Spec => []ProgressIsCleared
<1>1. ProgressInv => ProgressIsCleared
  BY DEF ProgressInv
<1> QED
  BY InitIInv, NextIInv, InitProgress, NextProgress, <1>1, PTL DEF Spec
-----------------------------------------------------------------------------
(* Keeping the CPU away.                                                     *)

\* No access reaches from the last word below a block-aligned base into the
\* region.  The comparison in cheri_ex.sv takes this for granted: it looks at the
\* first word of an access only, and below the base by 16-byte blocks.
NoStraddle ==
    \A i \in CpuAccesses, w \in ZtopWrites :
        Word(i.addr) + 1 = Word(w.base) /\ Word(w.base) % 4 = 0 => Touched(i) = {Word(i.addr)}

\* An access of the CPU in progress is outside the range that is compared, and
\* the words still to be cleared have not been stored to.
ShieldInv ==
    /\ lsu.st = "busy" /\ lsu.who = "cpu" => ~cpu_stall_by_stkz(FALSE)
    /\ stkz_active /\ readback => \A x \in stkz_basew .. stkz_ptrw_nxt : mem[x] # "new"

LEMMA InitShield == Init => ShieldInv
BY DEF Init, PortInit, LsuFree, ShieldInv

LEMMA StutterShield == ShieldInv /\ UNCHANGED vars => ShieldInv'
BY DEF ShieldInv, vars, stkzVars, stkz_active, cpu_stall_by_stkz, lsu_addr_in_stkz_range,
       cpu_lsu_addr, cpu_lsu_dec

\* An access outside the compared range touches no word still to be cleared.
LEMMA OutsideTheRange ==
  ASSUME NoStraddle, IInv, ProgressInv, cpu_lsu_dec, ~cpu_stall_by_stkz(FALSE), stkz_active, readback,
         NEW x \in Touched(id)
  PROVE  ~(stkz_basew <= x /\ x <= stkz_ptrw_nxt)
<1> DEFINE a == id.addr
<1>1. id \in CpuAccesses
  BY ZtopWritesAssumption DEF IInv, TypeOK, Instrs, Other, cpu_lsu_dec
<1>2. a \in Nat
  BY <1>1, CpuAccessesAssumption, AddrMaxAssumption
<1>3. /\ run \in ZtopWrites /\ stkz_basew = Word(run.base)
      /\ stkz_basew \in Nat /\ stkz_ptrw \in Nat /\ stkz_ptrw_nxt \in Nat
      /\ stkz_ptrw = stkz_ptrw_nxt + 1
  BY DEF IInv, RunInv, ProgressInv, TypeOK, StkzTypeOK, Words
<1>4. x = Word(a) \/ (x = Word(a) + 1 /\ Touched(id) # {Word(a)})
  BY <1>2 DEF Touched, Word
<1>5. ~(a \div 16 >= (4 * stkz_basew) \div 16 /\ Word(a) < stkz_ptrw)
  BY DEF cpu_stall_by_stkz, lsu_addr_in_stkz_range, cpu_lsu_addr
<1>6. Word(a) \in Nat /\ a \div 16 = Word(a) \div 4 /\ (4 * stkz_basew) \div 16 = stkz_basew \div 4
  BY <1>2, <1>3 DEF Word
<1>7. Word(a) + 1 = stkz_basew /\ stkz_basew % 4 = 0 => Touched(id) = {Word(a)}
  BY <1>1, <1>3 DEF NoStraddle
<1> HIDE DEF a
<1> QED
  BY <1>3, <1>4, <1>5, <1>6, <1>7

LEMMA CycleShield ==
  ASSUME NoStraddle, IInv, ProgressInv, ShieldInv,
         NEW resp \in BOOLEAN, NEW done \in BOOLEAN, NEW err \in BOOLEAN,
         NEW intr \in BOOLEAN, NEW incr \in BOOLEAN, Cycle(resp, done, err, intr, incr)
  PROVE  /\ ShieldInv'
         /\ Server(resp, cpu_req_valid, tbre_req_good) = "cpu" => cpu_lsu_dec /\ ~cpu_stall_by_stkz(FALSE)
<1> DEFINE who == Server(resp, cpu_req_valid, tbre_req_good)
           stkzDone == done /\ who = "tbre"
           cpuDone == done /\ who = "cpu"
           respErr == resp /\ lsu.who = "tbre" /\ lsuErr
           w == ztop_write
<1>1. /\ TypeOK /\ TypeOK' /\ RunInv
      /\ w \in ZtopWrites \cup {NoWrite}
      /\ who \in {"cpu", "tbre", "none"}
      /\ who = "tbre" => stkz_active
      /\ lsu.st = "busy" => who = lsu.who
      /\ lsu.st # "busy" /\ who = "cpu" => cpu_req_valid
      /\ who # "none" => lsu'.st = (IF done THEN "resp" ELSE "busy") /\ lsu'.who = who
      /\ who = "none" /\ ~resp => lsu' = lsu
      /\ who = "none" /\ resp => lsu'.st = "free"
  BY CycleParts
<1>2. /\ StkzCycle(w, intr, stkzDone, respErr)
      /\ MemUpdate(stkzDone, cpuDone, err)
      /\ IdUpdate(cpuDone)
      /\ readback' = IF ztop_wr(w) THEN stkz_start(w) ELSE readback
  BY DEF Cycle
<1>b. stkzDone \in BOOLEAN /\ respErr \in BOOLEAN
  OBVIOUS
<1> HIDE DEF who
<1>3. who = "cpu" => cpu_lsu_dec /\ ~cpu_stall_by_stkz(FALSE)
  BY <1>1 DEF ProgressInv, ShieldInv, cpu_req_valid
<1>4. cpu_lsu_dec => ~ztop_wr(w)
  BY DEF cpu_lsu_dec, ztop_write, ztop_wr, NoWrite
<1>5. ~ztop_wr(w) => /\ ~stkz_start(w)
                     /\ stkz_active' => stkz_active
                     /\ stkz_basew' = stkz_basew
                     /\ ~(stkz_active /\ stkzDone) => stkz_ptrw' = stkz_ptrw /\ stkz_ptrw_nxt' = stkz_ptrw_nxt
                     /\ stkz_active' /\ stkzDone => stkz_ptrw_nxt' = stkz_ptrw_nxt - 1
  <2> HIDE DEF stkzDone, respErr
  <2> QED
    BY <1>b, <1>2, QuietStep
<1>6. ASSUME lsu'.st = "busy", lsu'.who = "cpu" PROVE ~cpu_stall_by_stkz(FALSE)'
  <2>1. who = "cpu" /\ ~done
    BY <1>1, <1>6 DEF ProgressInv, TypeOK, PortTypeOK, LsuStates
  <2>2. cpu_lsu_dec /\ ~cpu_stall_by_stkz(FALSE)
    BY <1>3, <2>1
  <2>3. id' = id
    BY <1>2, <2>1, <2>2 DEF IdUpdate
  <2>4. stkz_ptrw' = stkz_ptrw /\ stkz_basew' = stkz_basew /\ (stkz_active' => stkz_active)
    BY <1>4, <1>5, <2>1, <2>2
  <2> QED
    BY <2>2, <2>3, <2>4 DEF cpu_stall_by_stkz, lsu_addr_in_stkz_range, cpu_lsu_addr, cpu_lsu_dec
<1>7. ASSUME stkz_active', readback', NEW x \in stkz_basew' .. stkz_ptrw_nxt' PROVE mem'[x] # "new"
  <2>1. Word(AddrMax) \in Int /\ x \in Words
    BY <1>1, <1>7, AddrMaxAssumption DEF TypeOK, StkzTypeOK, Words, Word
  <2>2. CASE stkz_start(w)
    BY <1>2, <2>1, <2>2 DEF MemUpdate
  <2>3. CASE ~stkz_start(w)
    <3>1. ~ztop_wr(w) /\ readback /\ stkz_active
      BY <1>2, <1>5, <1>7, <2>3
    <3>2. x \in stkz_basew .. stkz_ptrw_nxt
      BY <1>1, <1>5, <1>7, <3>1 DEF TypeOK, StkzTypeOK, Words
    <3>3. mem[x] # "new"
      BY <3>1, <3>2 DEF ShieldInv
    <3>4. cpuDone => x \notin Touched(id)
      BY <1>3, <3>1, <3>2, OutsideTheRange
    <3> QED
      BY <1>1, <1>2, <2>1, <2>3, <3>3, <3>4 DEF MemUpdate, TypeOK
  <2> QED
    BY <2>2, <2>3
<1>8. ShieldInv'
  BY <1>6, <1>7 DEF ShieldInv
<1> QED
  BY <1>3, <1>8 DEF who

LEMMA NextShield == NoStraddle /\ IInv /\ ProgressInv /\ ShieldInv /\ [Next]_vars => ShieldInv'
BY StutterShield, CycleShield DEF Next

\* A CPU store made during a run is never wiped out by the engine, unless ZTOPC
\* is rewritten: the only hole in the comparison is the straddling access.
THEOREM StoresKept == ASSUME NoStraddle PROVE Spec => NoLostStore
<1> DEFINE P == readback => \A x \in Words : mem[x] = "new" => mem'[x] # "zero"
<1>1. ASSUME IInv, ProgressInv, ShieldInv, [Next]_vars PROVE [P]_vars
  <2>1. SUFFICES ASSUME Next, readback, NEW x \in Words, mem[x] = "new", mem'[x] = "zero"
                 PROVE  FALSE
    BY <1>1
  <2>2. PICK resp, done, err, intr, incr \in BOOLEAN : Cycle(resp, done, err, intr, incr)
    BY <2>1 DEF Next
  <2>3. MemUpdate(done /\ Server(resp, cpu_req_valid, tbre_req_good) = "tbre",
                  done /\ Server(resp, cpu_req_valid, tbre_req_good) = "cpu", err)
    BY <2>2 DEF Cycle
  <2>4. TypeOK /\ RunInv
    BY <1>1 DEF IInv
  <2>5. Server(resp, cpu_req_valid, tbre_req_good) = "tbre" /\ x = stkz_ptrw_nxt
    BY <2>1, <2>3, <2>4 DEF MemUpdate, TypeOK
  <2>6. stkz_active
    BY <1>1, <2>2, <2>5, CycleFacts
  <2>7. x \in stkz_basew .. stkz_ptrw_nxt
    BY <2>4, <2>5, <2>6 DEF RunInv, TypeOK, StkzTypeOK, Words
  <2> QED
    BY <1>1, <2>1, <2>6, <2>7 DEF ShieldInv
<1>2. ShieldInv /\ IInv /\ ProgressInv /\ [Next]_vars => ShieldInv'
  BY NextShield
<1> QED
  BY InitIInv, NextIInv, InitProgress, NextProgress, InitShield, <1>1, <1>2, PTL DEF Spec, NoLostStore

\* While the engine runs, no CPU access completes on a word of the region that has
\* not been cleared yet, straddling accesses apart.
THEOREM OnlyClearedSeen == ASSUME NoStraddle PROVE Spec => CpuSeesClearedOnly
<1> DEFINE P == stkz_active /\ readback /\ cpu_lsu_dec /\ instr_first_cycle' =>
                   \A x \in Touched(id) \cap (stkz_basew .. Word(run.addr) - 1) :
                      mem[x] # "old" \/ stkz_err \/ (lsuErr /\ lsu.who = "tbre")
<1>1. ASSUME IInv, ProgressInv, ShieldInv, [Next]_vars PROVE [P]_vars
  <2>1. SUFFICES ASSUME Next, stkz_active, readback, cpu_lsu_dec, instr_first_cycle',
                        NEW x \in Touched(id), x \in stkz_basew .. Word(run.addr) - 1
                 PROVE  mem[x] # "old" \/ stkz_err \/ (lsuErr /\ lsu.who = "tbre")
    BY <1>1
  <2>2. PICK resp, done, err, intr, incr \in BOOLEAN : Cycle(resp, done, err, intr, incr)
    BY <2>1 DEF Next
  <2>3. done /\ Server(resp, cpu_req_valid, tbre_req_good) = "cpu"
    BY <2>1, <2>2 DEF Cycle, IdUpdate
  <2>4. ~cpu_stall_by_stkz(FALSE)
    BY <1>1, <2>2, <2>3, CycleShield
  <2>5. ~(stkz_basew <= x /\ x <= stkz_ptrw_nxt)
    BY <1>1, <2>1, <2>4, OutsideTheRange
  <2>6. stkz_ptrw = stkz_ptrw_nxt + 1 /\ stkz_ptrw \in Int /\ stkz_ptrw_nxt \in Int /\ stkz_basew \in Int
    BY <1>1, <2>1 DEF IInv, TypeOK, StkzTypeOK, Words, ProgressInv
  <2>7. x \in stkz_ptrw .. Word(run.addr) - 1
    BY <2>1, <2>5, <2>6
  <2> QED
    BY <1>1, <2>1, <2>7 DEF ProgressInv, ProgressIsCleared
<1>2. ShieldInv /\ IInv /\ ProgressInv /\ [Next]_vars => ShieldInv'
  BY NextShield
<1> QED
  BY InitIInv, NextIInv, InitProgress, NextProgress, InitShield, <1>1, <1>2, PTL DEF Spec, CpuSeesClearedOnly

-----------------------------------------------------------------------------
(* The tag of the readback, for software that waits for the end of a run     *)
(* before it writes ZTOPC again.                                             *)

\* ZTOPC is written only with the engine idle, so that no run is stopped.
PollInv ==
    /\ id.op = "ztop" => stkz_fsm = "STKZ_IDLE"
    /\ ~StkZIntrOK => stkz_fsm # "STKZ_ABORT"
    /\ TaggedMeansRunning

LEMMA CyclePoll ==
  ASSUME ~WriteWhileActive, IInv, PollInv, NEW resp \in BOOLEAN, NEW done \in BOOLEAN, NEW err \in BOOLEAN,
         NEW intr \in BOOLEAN, NEW incr \in BOOLEAN, Cycle(resp, done, err, intr, incr)
  PROVE  PollInv'
<1> DEFINE who == Server(resp, cpu_req_valid, tbre_req_good)
           stkzDone == done /\ who = "tbre"
           cpuDone == done /\ who = "cpu"
           respErr == resp /\ lsu.who = "tbre" /\ lsuErr
           w == ztop_write
<1>1. /\ StkzCycle(w, intr, stkzDone, respErr)
      /\ IdUpdate(cpuDone)
      /\ intr => StkZIntrOK
      /\ readback' = IF ztop_wr(w) THEN stkz_start(w) ELSE readback
  BY DEF Cycle
<1>b. stkzDone \in BOOLEAN /\ respErr \in BOOLEAN
  OBVIOUS
<1> HIDE DEF who, stkzDone, respErr, cpuDone
<1>2. ztop_wr(w) => stkz_fsm = "STKZ_IDLE"
  BY DEF PollInv, ztop_write, ztop_wr, NoWrite
<1>3. id'.op = "ztop" => stkz_fsm' = "STKZ_IDLE"
  BY <1>1 DEF IdUpdate, cpu_lsu_dec
<1>4. CASE ztop_wr(w)
  <2>1. stkz_fsm' = IF stkz_start(w) THEN "STKZ_ACTIVE" ELSE "STKZ_IDLE"
    BY <1>1, <1>2, <1>4 DEF StkzCycle, stkz_fsm_d
  <2> QED
    BY <1>1, <1>3, <1>4, <2>1 DEF PollInv, TaggedMeansRunning, stkz_active
<1>5. CASE ~ztop_wr(w)
  <2>1. /\ ~stkz_start(w)
        /\ ~cmd_new_null(w)
        /\ stkz_active /\ stkzDone => ztop_rcap' = ztop_rcap_nxt
        /\ ~(stkz_active /\ stkzDone) => ztop_rcap' = ztop_rcap
    BY <1>b, <1>1, <1>5, QuietStep
  <2>2. SUFFICES ASSUME ~StkZIntrOK
                 PROVE  stkz_fsm' # "STKZ_ABORT" /\ TaggedMeansRunning'
    BY <1>3 DEF PollInv, TaggedMeansRunning
  <2>3. ~stkz_stop(w, intr)
    BY <1>1, <2>1, <2>2 DEF stkz_stop
  <2>4. stkz_fsm' = IF stkz_fsm = "STKZ_ACTIVE" /\ stkz_done /\ stkzDone THEN "STKZ_IDLE" ELSE stkz_fsm
    BY <1>1, <2>1, <2>2, <2>3 DEF StkzCycle, stkz_fsm_d, PollInv
  <2> QED
    BY <1>1, <1>5, <2>1, <2>2, <2>4 DEF PollInv, TaggedMeansRunning, stkz_active, ztop_rcap_nxt
<1> QED
  BY <1>4, <1>5

\* If software writes ZTOPC only while no run is active, a started value that still
\* reads back tagged is being worked on: polling the tag is sound.
THEOREM PollingSound == ASSUME ~WriteWhileActive PROVE Spec => []TaggedMeansRunning
<1>1. Init => PollInv
  BY DEF Init, StkzInit, Other, PollInv, TaggedMeansRunning
<1>2. IInv /\ PollInv /\ UNCHANGED vars => PollInv'
  BY DEF PollInv, TaggedMeansRunning, vars, stkzVars, stkz_active
<1>3. IInv /\ PollInv /\ [Next]_vars => PollInv'
  BY <1>2, CyclePoll DEF Next
<1>4. PollInv => TaggedMeansRunning
  BY DEF PollInv
<1> QED
  BY InitIInv, NextIInv, <1>1, <1>3, <1>4, PTL DEF Spec
=============================================================================
