---------------------------- MODULE IfStage_proofs ----------------------------
(***************************************************************************)
(* Proofs about the fetch path, for code of any size, any branches and a   *)
(* bus with any delays: types, the agreement of the prefetcher with the    *)
(* bus about what is to come, that the FIFO never overflows, that a        *)
(* request does not change while it waits, and that what is handed to ID   *)
(* is the program: every instruction whole and in order (Stream), refused  *)
(* for errors of its own only, within PCC, and with no alert of the check  *)
(* of the increments.                                                      *)
(***************************************************************************)
EXTENDS IfStage, SequenceTheorems, TLAPS

One(b) == IF b THEN 1 ELSE 0

\* The FIFO has a place for every word that will be pushed: those outstanding
\* and not discarded, and the one of the request that waits.
Live(i) == i <= Len(outstanding) /\ ~outstanding[i]
LiveCount == One(Live(1)) + One(Live(2))
Pending == LiveCount + One(valid_req_q /\ ~discard_req_q)
Space == Len(fifo) + Pending <= DEPTH

\* The request that waits is the one on the bus, is discarded exactly if it was
\* made before the last branch, and will find a place among the outstanding ones.
Waiting ==
    /\ valid_req_q => /\ held.addr = WordOf(stored_addr_q)
                      /\ (held.old <=> discard_req_q)
                      /\ Len(outstanding) < NUM_REQS
    /\ ~valid_req_q => held = NoRequest

IInv == TypeOK /\ OutstandingAgree /\ Space /\ Waiting

-----------------------------------------------------------------------------
(* Sequences and addresses. *)

\* A queue that gains x if g is 1 and loses its head if r is 1.
Queue(s, x, g, r) ==
    LET grown == IF g = 1 THEN Append(s, x) ELSE s
    IN  IF r = 1 THEN Tail(grown) ELSE grown

\* A queue stays a sequence of its elements.
LEMMA QueueType ==
    ASSUME NEW S, NEW s \in Seq(S), NEW x \in S, NEW g \in {0, 1}, NEW r \in {0, 1},
           r <= g + Len(s)
    PROVE  Queue(s, x, g, r) \in Seq(S)
  BY DEF Queue

\* Its length changes by what it gains and loses.
LEMMA QueueLen ==
    ASSUME NEW S, NEW s \in Seq(S), NEW x \in S, NEW g \in {0, 1}, NEW r \in {0, 1},
           r <= g + Len(s)
    PROVE  Len(Queue(s, x, g, r)) = Len(s) + g - r
  BY DEF Queue

\* Losing the head shifts the other elements down by one.
LEMMA QueueItems ==
    ASSUME NEW S, NEW s \in Seq(S), NEW x \in S, NEW g \in {0, 1}, NEW r \in {0, 1},
           r <= g + Len(s), NEW i \in 1 .. Len(s) + g - r
    PROVE  Queue(s, x, g, r)[i] = IF i + r <= Len(s) THEN s[i + r] ELSE x
<1> DEFINE grown == IF g = 1 THEN Append(s, x) ELSE s
<1>1. grown \in Seq(S) /\ Len(grown) = Len(s) + g /\ Len(s) \in Nat
  OBVIOUS
<1>2. \A k \in 1 .. Len(grown) : grown[k] = IF k <= Len(s) THEN s[k] ELSE x
  BY <1>1
<1>3. Queue(s, x, g, r) = IF r = 1 THEN Tail(grown) ELSE grown
  BY DEF Queue
<1> HIDE DEF grown
<1>4. CASE r = 1
  <2>1. grown # <<>>
    BY <1>1, <1>4
  <2>2. Tail(grown)[i] = grown[i + 1]
    BY <1>1, <1>4, <2>1, HeadTailProperties
  <2> QED
    BY <1>1, <1>2, <1>3, <1>4, <2>2
<1>5. CASE r = 0
  BY <1>1, <1>2, <1>3, <1>5
<1> QED
  BY <1>4, <1>5

\* Marking every element leaves a sequence of the same length.
LEMMA MarkedBits ==
    ASSUME NEW s \in Seq(BOOLEAN), NEW b \in BOOLEAN, NEW m, m = [i \in DOMAIN s |-> s[i] \/ b]
    PROVE  /\ m \in Seq(BOOLEAN) /\ Len(m) = Len(s)
           /\ \A i \in 1 .. Len(s) : m[i] = (s[i] \/ b)
<1>1. DOMAIN s = 1 .. Len(s) /\ Len(s) \in Nat
  BY LenProperties
<1>2. m \in [1 .. Len(s) -> BOOLEAN]
  BY <1>1, Zenon
<1>3. m \in Seq(BOOLEAN)
  BY <1>1, <1>2, SeqDef, Zenon
<1>4. Len(m) = Len(s)
  BY <1>1, <1>2, <1>3, LenProperties
<1>5. \A i \in 1 .. Len(s) : m[i] = (s[i] \/ b)
  BY <1>1, Zenon
<1> QED
  BY <1>3, <1>4, <1>5

BusWords == [word : Words, old : BOOLEAN]

\* A branch marks every word on the bus as old, and changes nothing else of them.
LEMMA AgedWords ==
    ASSUME NEW s \in Seq(BusWords), NEW b \in BOOLEAN,
           NEW m, m = [i \in DOMAIN s |-> [s[i] EXCEPT !.old = @ \/ b]]
    PROVE  /\ m \in Seq(BusWords) /\ Len(m) = Len(s)
           /\ \A i \in 1 .. Len(s) : m[i].old = (s[i].old \/ b) /\ m[i].word = s[i].word
<1>1. DOMAIN s = 1 .. Len(s) /\ Len(s) \in Nat /\ \A i \in 1 .. Len(s) : s[i] \in BusWords
  BY LenProperties, ElementOfSeq
<1>2. ASSUME NEW i \in 1 .. Len(s)
      PROVE  m[i] \in BusWords /\ m[i].old = (s[i].old \/ b) /\ m[i].word = s[i].word
  BY <1>1 DEF BusWords
<1>3. m \in [1 .. Len(s) -> BusWords]
  BY <1>1, <1>2, Zenon
<1>4. m \in Seq(BusWords)
  BY <1>1, <1>3, SeqDef, Zenon
<1>5. Len(m) = Len(s)
  BY <1>1, <1>3, <1>4, LenProperties
<1> QED
  BY <1>2, <1>4, <1>5

\* Addresses wrap around the address space.
LEMMA PlusType == ASSUME NEW a \in Nat, NEW n \in Nat PROVE Plus(a, n) \in Halves
  BY PrefetchAssumption DEF Plus, Halves

\* A halfword address lies in a word of the address space.
LEMMA WordType == ASSUME NEW a \in Halves PROVE WordOf(a) \in Words /\ WordOf(a) \in Nat
  BY PrefetchAssumption DEF WordOf, Words, Halves
-----------------------------------------------------------------------------
(* The parts of a cycle. *)

\* A branch is to an address of the address space, with a PCC.
LEMMA BranchType ==
    ASSUME NEW br \in Branches \cup {NoBr}
    PROVE  /\ branch(br.addr) <=> br # NoBr
           /\ br # NoBr => br.addr \in Halves /\ br.pcc \in Pccs
<1>1. CASE br = NoBr
  BY <1>1 DEF NoBr, branch
<1>2. CASE br \in Branches
  <2>1. br.addr \in Halves /\ br.pcc \in Pccs
    BY <1>2, IfAssumption
  <2>2. br.addr # NoBranch
    BY <2>1, PrefetchAssumption DEF Halves, NoBranch
  <2> QED
    BY <2>1, <2>2 DEF branch, NoBr
<1> QED
  BY <1>1, <1>2

\* The data wires carry a word of memory, or nothing.
LEMMA WiresType ==
    ASSUME TypeOK, NEW rvalid \in BOOLEAN, NEW err \in BOOLEAN, rvalid => bus # <<>>
    PROVE  DataWires(rvalid, err) \in Fetched
<1>1. CASE rvalid
  <2>1. bus[1] \in [word : Words, old : BOOLEAN]
    <3>1. bus \in Seq(BusWords)
      BY DEF TypeOK, BusWords
    <3>2. 1 \in 1 .. Len(bus)
      BY <1>1, <3>1, EmptySeq
    <3> QED
      BY <3>1, <3>2, ElementOfSeq DEF BusWords
  <2> QED
    BY <1>1, <2>1 DEF DataWires, Fetched
<1>2. CASE ~rvalid
  <2>1. DataWires(rvalid, err) = [word |-> NoWord, err |-> err, old |-> FALSE]
    BY <1>2 DEF DataWires, NoData
  <2> QED
    BY <2>1 DEF Fetched
<1> QED
  BY <1>1, <1>2

\* The FIFO grows by the word that arrives at most, and is emptied by a branch.
LEMMA FifoStep ==
    ASSUME IInv, NEW br \in Branches \cup {NoBr}, NEW in \in Fetched, NEW inValid \in BOOLEAN,
           NEW ready \in BOOLEAN, NEW force_uc \in BOOLEAN,
           FifoUpdate(br.addr, in, inValid, ready, force_uc)
    PROVE  /\ fifo' \in Seq(Fetched)
           /\ Len(fifo') <= Len(fifo) + One(inValid)
           /\ br # NoBr => Len(fifo') = 0
           /\ instr_addr_q' \in Halves
<1> DEFINE taken == ready /\ out_valid(in, inValid, force_uc)
           pop == taken /\ (~aligned_is_compressed(in) \/ unaligned)
           push == inValid /\ Len(fifo) < DEPTH
           pushed == IF push THEN Append(fifo, in) ELSE fifo
           popped == IF pop THEN Tail(pushed) ELSE pushed
<1>1. fifo \in Seq(Fetched) /\ instr_addr_q \in Halves
  BY DEF IInv, TypeOK, PrefetchTypeOK
<1>2. fifo' = IF branch(br.addr) THEN <<>> ELSE popped
  BY DEF FifoUpdate
<1>3. instr_addr_q' \in Halves
  <2>1. instr_addr_q \in Nat
    BY <1>1, PrefetchAssumption DEF Halves
  <2>2. Plus(instr_addr_q, 1) \in Halves /\ Plus(instr_addr_q, 2) \in Halves
    BY <2>1, PlusType
  <2>3. instr_addr_q' \in {br.addr, instr_addr_q, Plus(instr_addr_q, 1), Plus(instr_addr_q, 2)}
        /\ (instr_addr_q' = br.addr => branch(br.addr) \/ br.addr \in Halves)
    BY <1>1, <2>2 DEF FifoUpdate
  <2> QED
    BY <1>1, <2>2, <2>3, BranchType
<1>4. pop => inValid \/ fifo # <<>>
  <2>1. out_valid(in, inValid, force_uc) => Len(fifo) + One(inValid) >= 1
    BY <1>1 DEF out_valid, One
  <2> QED
    BY <1>1, <2>1 DEF One
<1>5. pop => push \/ fifo # <<>>
  BY <1>1, <1>4 DEF DEPTH, NUM_REQS
<1>6. popped \in Seq(Fetched) /\ Len(popped) = Len(fifo) + One(push) - One(pop)
  <2>1. One(push) \in {0, 1} /\ One(pop) \in {0, 1}
    BY DEF One
  <2>2. popped = Queue(fifo, in, One(push), One(pop))
    BY DEF Queue, One
  <2>3. One(pop) <= One(push) + Len(fifo)
    BY <1>1, <1>5 DEF One
  <2> DEFINE g == One(push)
             r == One(pop)
  <2> HIDE DEF popped, g, r
  <2>4. g \in {0, 1} /\ r \in {0, 1} /\ r <= g + Len(fifo) /\ popped = Queue(fifo, in, g, r)
    BY <2>1, <2>2, <2>3 DEF g, r
  <2>5. popped \in Seq(Fetched)
    BY <1>1, <2>4, QueueType
  <2>6. Len(popped) = Len(fifo) + g - r
    BY <1>1, <2>4, QueueLen
  <2> QED
    BY <2>5, <2>6 DEF g, r
<1>7. Len(popped) <= Len(fifo) + One(inValid)
  BY <1>1, <1>6 DEF One
<1>8. br # NoBr => fifo' = <<>>
  BY <1>2, BranchType
<1>9. br = NoBr => fifo' = popped
  BY <1>2, BranchType
<1> HIDE DEF popped
<1>10. CASE br = NoBr
  BY <1>3, <1>6, <1>7, <1>9, <1>10
<1>11. CASE br # NoBr
  <2>1. Len(fifo') = 0 /\ fifo' \in Seq(Fetched)
    BY <1>8, <1>11, EmptySeq
  <2> QED
    BY <1>1, <1>3, <1>11, <2>1 DEF One
<1> QED
  BY <1>10, <1>11

Granted(req, br, gnt) == One(valid_req(req, br) /\ gnt)

\* The outstanding requests gain the one that is granted and lose the one that
\* is answered; a branch marks them all.
LEMMA OutstandingStep ==
    ASSUME IInv, NEW req \in BOOLEAN, NEW gnt \in BOOLEAN, NEW rvalid \in BOOLEAN,
           NEW br \in Branches \cup {NoBr}, rvalid => bus # <<>>,
           RequestUpdate(req, br.addr, gnt, rvalid)
    PROVE  /\ outstanding' \in Seq(BOOLEAN)
           /\ Len(outstanding') = Len(outstanding) + Granted(req, br.addr, gnt) - One(rvalid)
           /\ \A i \in 1 .. Len(outstanding) + Granted(req, br.addr, gnt) - One(rvalid) :
                outstanding'[i] = IF i + One(rvalid) <= Len(outstanding)
                                  THEN (outstanding[i + One(rvalid)] \/ branch(br.addr))
                                  ELSE discard_req_d(br.addr)
<1> DEFINE a == br.addr
           b == branch(a)
           d == discard_req_d(a)
           g == Granted(req, a, gnt)
           r == One(rvalid)
           marked == [i \in DOMAIN outstanding |-> outstanding[i] \/ b]
<1>1. outstanding \in Seq(BOOLEAN) /\ bus \in Seq(BusWords)
  BY DEF IInv, TypeOK, PrefetchTypeOK, BusWords
<1>2. Len(outstanding) = Len(bus) /\ Len(outstanding) \in Nat
  BY <1>1 DEF IInv, OutstandingAgree
<1>3. valid_req(req, a) => Len(outstanding) < 2
  BY DEF IInv, Waiting, valid_req, valid_new_req, NUM_REQS
<1>4. b \in BOOLEAN /\ d \in BOOLEAN
  BY DEF branch, discard_req_d
<1>5. marked \in Seq(BOOLEAN) /\ Len(marked) = Len(outstanding)
      /\ \A i \in 1 .. Len(outstanding) : marked[i] = (outstanding[i] \/ b)
  <2> HIDE DEF b
  <2> QED
    BY <1>1, <1>4, MarkedBits
<1>6. g \in {0, 1} /\ r \in {0, 1} /\ r <= g + Len(outstanding)
  <2>1. rvalid => Len(outstanding) > 0
    BY <1>1, <1>2
  <2> QED
    BY <1>2, <2>1 DEF One, Granted
<1>7. outstanding' = Queue(marked, d, g, r)
  <2>1. valid_req(req, a) /\ gnt => Len(marked) < NUM_REQS
    BY <1>3, <1>5 DEF NUM_REQS
  <2> HIDE DEF marked, d
  <2> QED
    BY <2>1 DEF RequestUpdate, Queue, One, Granted, marked, d
<1> HIDE DEF marked, d, g, r, b
<1>8. outstanding' \in Seq(BOOLEAN)
  BY <1>4, <1>5, <1>6, <1>7, QueueType
<1>9. Len(outstanding') = Len(outstanding) + g - r
  BY <1>4, <1>5, <1>6, <1>7, QueueLen
<1>10. ASSUME NEW i \in 1 .. Len(outstanding) + g - r
       PROVE  outstanding'[i] = IF i + r <= Len(outstanding) THEN (outstanding[i + r] \/ b) ELSE d
  <2>1. outstanding'[i] = IF i + r <= Len(outstanding) THEN marked[i + r] ELSE d
    BY <1>4, <1>5, <1>6, <1>7, QueueItems
  <2>2. i + r <= Len(outstanding) => i + r \in 1 .. Len(outstanding)
    BY <1>2, <1>6
  <2> QED
    BY <1>5, <2>1, <2>2
<1> QED
  BY <1>8, <1>9, <1>10 DEF d, g, r, b

\* The cycle of the requests: both sides gain what is granted and lose what is
\* answered, and the request that waits stays what it was.
LEMMA RequestStep ==
    ASSUME IInv, NEW req \in BOOLEAN, NEW gnt \in BOOLEAN, NEW rvalid \in BOOLEAN,
           NEW br \in Branches \cup {NoBr}, rvalid => bus # <<>>,
           RequestUpdate(req, br.addr, gnt, rvalid), BusUpdate(req, br, gnt, rvalid)
    PROVE  /\ outstanding' \in Seq(BOOLEAN) /\ bus' \in Seq(BusWords) /\ Len(outstanding') <= NUM_REQS
           /\ {stored_addr_q', fetch_addr_q'} \subseteq Halves
           /\ valid_req_q' \in BOOLEAN /\ discard_req_q' \in BOOLEAN
           /\ held' \in [addr : Words \cup {-1}, old : BOOLEAN]
           /\ OutstandingAgree' /\ Waiting'
           /\ \A i \in 1 .. Len(outstanding) + Granted(req, br.addr, gnt) - One(rvalid) :
                bus'[i].word = IF i + One(rvalid) <= Len(outstanding) THEN bus[i + One(rvalid)].word
                               ELSE WordOf(instr_addr(br.addr))
<1> DEFINE a == br.addr
           b == branch(a)
           d == discard_req_d(a)
           g == Granted(req, a, gnt)
           r == One(rvalid)
           aged == [i \in DOMAIN bus |-> [bus[i] EXCEPT !.old = @ \/ b]]
           old == (b /\ valid_req_q) \/ held.old
           asked == [addr |-> WordOf(instr_addr(a)), old |-> old]
           word == [word |-> asked.addr, old |-> old]
<1>1. /\ outstanding \in Seq(BOOLEAN) /\ bus \in Seq(BusWords)
      /\ stored_addr_q \in Halves /\ fetch_addr_q \in Halves
      /\ valid_req_q \in BOOLEAN /\ discard_req_q \in BOOLEAN
      /\ held \in [addr : Words \cup {-1}, old : BOOLEAN]
  BY DEF IInv, TypeOK, PrefetchTypeOK, BusWords
<1>2. Len(outstanding) = Len(bus) /\ Len(outstanding) \in 0 .. 2
      /\ \A i \in 1 .. Len(bus) : outstanding[i] = bus[i].old
  BY <1>1 DEF IInv, TypeOK, PrefetchTypeOK, OutstandingAgree, NUM_REQS
<1>3. valid_req(req, a) => Len(outstanding) < 2
  BY DEF IInv, Waiting, valid_req, valid_new_req, NUM_REQS
<1>4. b \in BOOLEAN /\ (b => a \in Halves)
  BY BranchType DEF branch
<1>5. instr_addr(a) \in Halves
  BY <1>1, <1>4 DEF instr_addr
<1>6. d \in BOOLEAN /\ old \in BOOLEAN /\ old = d
  <2>1. CASE valid_req_q
    BY <1>1, <1>4, <2>1 DEF IInv, Waiting, discard_req_d
  <2>2. CASE ~valid_req_q
    BY <1>1, <1>4, <2>2 DEF IInv, Waiting, discard_req_d, NoRequest
  <2> QED
    BY <1>1, <2>1, <2>2
<1>8. aged \in Seq(BusWords) /\ Len(aged) = Len(bus)
      /\ \A i \in 1 .. Len(bus) : aged[i].old = (bus[i].old \/ b) /\ aged[i].word = bus[i].word
  <2> HIDE DEF b
  <2> QED
    BY <1>1, <1>4, AgedWords
<1>9. word \in BusWords
  BY <1>5, <1>6, WordType DEF BusWords
<1>10. g \in {0, 1} /\ r \in {0, 1} /\ r <= g + Len(outstanding)
  <2>1. rvalid => Len(outstanding) > 0
    BY <1>1, <1>2
  <2> QED
    BY <1>2, <2>1 DEF One, Granted
<1>12. bus' = Queue(aged, word, g, r)
  BY DEF BusUpdate, Queue, One, Granted
<1>13. outstanding' \in Seq(BOOLEAN) /\ Len(outstanding') = Len(outstanding) + g - r
       /\ \A i \in 1 .. Len(outstanding) + g - r :
             outstanding'[i] = IF i + r <= Len(outstanding) THEN (outstanding[i + r] \/ b) ELSE d
  BY OutstandingStep
<1>14. bus' \in Seq(BusWords) /\ Len(bus') = Len(bus) + g - r
       /\ \A i \in 1 .. Len(bus) + g - r :
             bus'[i] = IF i + r <= Len(bus) THEN aged[i + r] ELSE word
  <2> HIDE DEF aged, word, g, r
  <2>1. bus' \in Seq(BusWords)
    BY <1>2, <1>8, <1>9, <1>10, <1>12, QueueType
  <2>2. Len(bus') = Len(aged) + g - r
    BY <1>2, <1>8, <1>9, <1>10, <1>12, QueueLen
  <2>3. \A i \in 1 .. Len(aged) + g - r :
             bus'[i] = IF i + r <= Len(aged) THEN aged[i + r] ELSE word
    BY <1>2, <1>8, <1>9, <1>10, <1>12, QueueItems
  <2> QED
    BY <1>8, <2>1, <2>2, <2>3
<1>15. OutstandingAgree'
  <2>1. ASSUME NEW i \in 1 .. Len(bus') PROVE outstanding'[i] = bus'[i].old
    <3> HIDE DEF aged, d, g, r, b
    <3>1. i + r \in Nat /\ i + r >= 1
      BY <1>10
    <3>2. CASE i + r <= Len(bus)
      <4>1. outstanding'[i] = (outstanding[i + r] \/ b) /\ bus'[i] = aged[i + r]
        BY <1>2, <1>10, <1>13, <1>14, <3>2
      <4>2. i + r \in 1 .. Len(bus)
        BY <1>2, <3>1, <3>2
      <4>3. aged[i + r].old = (bus[i + r].old \/ b)
        BY <1>2, <1>8, <4>2
      <4>4. outstanding[i + r] = bus[i + r].old
        BY <1>2, <4>2
      <4> QED
        BY <4>1, <4>3, <4>4, Zenon
    <3>3. CASE ~(i + r <= Len(bus))
      <4>1. outstanding'[i] = d /\ bus'[i] = word
        BY <1>2, <1>10, <1>13, <1>14, <3>3
      <4> QED
        BY <1>6, <4>1
    <3> QED
      BY <3>2, <3>3
  <2>2. DOMAIN bus' = 1 .. Len(bus')
    BY <1>14
  <2>3. Len(outstanding') = Len(bus')
    BY <1>2, <1>13, <1>14
  <2> QED
    BY <2>1, <2>2, <2>3, Zenon DEF OutstandingAgree
<1>16. Len(outstanding') <= NUM_REQS
       /\ (valid_req_q' => Len(outstanding') < NUM_REQS)
  <2> DEFINE m == Len(outstanding)
             n == Len(outstanding')
  <2>1. n = m + g - r /\ m \in 0 .. 2 /\ g \in 0 .. 1 /\ r \in 0 .. 1
    BY <1>2, <1>10, <1>13
  <2>2. valid_req(req, a) => m < 2
    BY <1>3
  <2>3. valid_req_q' => valid_req(req, a) /\ g = 0
    BY DEF RequestUpdate, One, Granted
  <2>4. ~valid_req(req, a) => g = 0
    BY DEF One, Granted
  <2> HIDE DEF m, n, g, r
  <2>5. n <= 2 /\ (valid_req_q' => n < 2)
    BY <2>1, <2>2, <2>3, <2>4
  <2> QED
    BY <2>5 DEF n, NUM_REQS
<1>17. /\ valid_req_q' \in BOOLEAN /\ discard_req_q' = d
       /\ valid_req_q' <=> valid_req(req, a) /\ ~gnt
  BY DEF RequestUpdate
<1>18. stored_addr_q' \in Halves /\ (valid_req_q' => stored_addr_q' = instr_addr(a))
  BY <1>1, <1>5 DEF RequestUpdate, valid_req, instr_addr
<1>19. fetch_addr_q' \in Halves
  <2>1. \A h \in Halves : Plus(h, 2) \in Halves
    BY PlusType, PrefetchAssumption DEF Halves
  <2>2. Plus(2 * WordOf(fetch_addr_q), 2) \in Halves
    BY <1>1, WordType, PlusType
  <2> QED
    BY <1>1, <1>4, <2>1, <2>2 DEF RequestUpdate
<1>20. held' = IF valid_req_q' THEN asked ELSE NoRequest
  BY <1>17 DEF BusUpdate
<1>21. held' \in [addr : Words \cup {-1}, old : BOOLEAN]
  BY <1>5, <1>6, <1>17, <1>20, WordType DEF NoRequest
<1>22. Waiting'
  BY <1>6, <1>16, <1>17, <1>18, <1>20 DEF Waiting
<1>23. ASSUME NEW i \in 1 .. Len(outstanding) + g - r
       PROVE  bus'[i].word = IF i + r <= Len(outstanding) THEN bus[i + r].word ELSE WordOf(instr_addr(a))
  <2>1. word.word = WordOf(instr_addr(a))
    OBVIOUS
  <2> HIDE DEF aged, g, r, word
  <2>2. bus'[i] = IF i + r <= Len(bus) THEN aged[i + r] ELSE word
    BY <1>2, <1>14
  <2>3. i + r <= Len(bus) => aged[i + r].word = bus[i + r].word
    BY <1>2, <1>8, <1>10
  <2> QED
    BY <1>2, <2>1, <2>2, <2>3
<1> HIDE DEF g, r
<1>24. \A i \in 1 .. Len(outstanding) + g - r :
          bus'[i].word = IF i + r <= Len(outstanding) THEN bus[i + r].word ELSE WordOf(instr_addr(a))
  BY <1>23
<1> QED
  BY <1>6, <1>13, <1>14, <1>15, <1>16, <1>17, <1>18, <1>19, <1>21, <1>22, <1>24 DEF g, r
Pushed(rvalid) == One(fifo_valid(rvalid))
Gained(req, br, gnt) == One(valid_req(req, br) /\ gnt /\ ~discard_req_d(br))

\* How the number of words wanted changes among the outstanding requests: without
\* a branch it loses the one pushed and gains the one granted, with a branch
\* only a request of the branch itself is wanted.
LEMMA LiveStep ==
    ASSUME IInv, NEW req \in BOOLEAN, NEW gnt \in BOOLEAN, NEW rvalid \in BOOLEAN,
           NEW br \in Branches \cup {NoBr}, rvalid => bus # <<>>,
           RequestUpdate(req, br.addr, gnt, rvalid)
    PROVE  LiveCount' = IF br = NoBr THEN LiveCount - Pushed(rvalid) + Gained(req, br.addr, gnt)
                        ELSE Gained(req, br.addr, gnt)
<1> DEFINE b == branch(br.addr)
           d == discard_req_d(br.addr)
           granted == valid_req(req, br.addr) /\ gnt
           g == Granted(req, br.addr, gnt)
           r == One(rvalid)
           m == Len(outstanding)
           more == Gained(req, br.addr, gnt)
           push == Pushed(rvalid)
           l1 == One(Live(1))
           l2 == One(Live(2))
           n1 == One(Live(1))'
           n2 == One(Live(2))'
<1>1. outstanding \in Seq(BOOLEAN) /\ bus \in Seq(BusWords) /\ m = Len(bus) /\ m \in 0 .. 2
  BY DEF IInv, TypeOK, PrefetchTypeOK, BusWords, OutstandingAgree, NUM_REQS
<1>2. granted => m < 2
  BY DEF IInv, Waiting, valid_req, valid_new_req, NUM_REQS
<1>3. rvalid => m > 0
  BY <1>1
<1>4. b <=> br # NoBr
  BY BranchType
<1>5. Len(outstanding') = m + g - r
      /\ \A i \in 1 .. m + g - r :
            outstanding'[i] = IF i + r <= m THEN (outstanding[i + r] \/ b) ELSE d
  BY OutstandingStep
<1>6. /\ granted => g = 1
      /\ ~granted => g = 0
      /\ rvalid => r = 1
      /\ ~rvalid => r = 0
  BY DEF Granted, One
<1>7. /\ more \in 0 .. 1 /\ push \in 0 .. 1 /\ l1 \in 0 .. 1 /\ l2 \in 0 .. 1
      /\ n1 \in 0 .. 1 /\ n2 \in 0 .. 1
  BY DEF One, Gained, Pushed
<1>8. (~granted => more = 0) /\ (~rvalid => push = 0)
  BY DEF One, fifo_valid, Gained, Pushed
<1>9. m >= 1 /\ rvalid => push = l1
  BY DEF fifo_valid, One, Live, Pushed
<1>20. LiveCount = l1 + l2
  BY DEF LiveCount
<1>21. LiveCount' = n1 + n2
  BY DEF LiveCount, One
<1> HIDE DEF b, d, granted, g, r, m, more, push, l1, l2, n1, n2
<1> SUFFICES n1 + n2 = IF br = NoBr THEN l1 + l2 - push + more ELSE more
  BY <1>20, <1>21, <1>7 DEF more, push
<1>10. CASE m = 0
  <2>1. l1 = 0 /\ l2 = 0 /\ ~rvalid
    BY <1>3, <1>10 DEF One, Live, l1, l2, m
  <2>2. CASE granted
    <3>1. 1 <= Len(outstanding') /\ ~(2 <= Len(outstanding')) /\ outstanding'[1] = d
      BY <1>5, <1>6, <1>10, <2>1, <2>2
    <3>2. (Live(1)' <=> ~d) /\ ~Live(2)'
      BY <3>1, Zenon DEF Live
    <3>3. n1 = more /\ n2 = 0
      BY <2>2, <3>2 DEF One, n1, n2, more, Gained, granted, d
    <3> QED
      BY <1>7, <1>8, <2>1, <3>3
  <2>3. CASE ~granted
    <3>1. ~(1 <= Len(outstanding')) /\ ~(2 <= Len(outstanding'))
      BY <1>5, <1>6, <1>10, <2>1, <2>3
    <3>2. n1 = 0 /\ n2 = 0
      BY <3>1 DEF One, Live, n1, n2
    <3> QED
      BY <1>7, <1>8, <2>1, <2>3, <3>2
  <2> QED
    BY <2>2, <2>3
<1>11. CASE m = 1
  <2>1. l2 = 0
    BY <1>11 DEF Live, One, l2, m
  <2>2. CASE rvalid /\ granted
    <3>1. 1 <= Len(outstanding') /\ ~(2 <= Len(outstanding')) /\ outstanding'[1] = d
      BY <1>5, <1>6, <1>11, <2>2
    <3>2. (Live(1)' <=> ~d) /\ ~Live(2)'
      BY <3>1, Zenon DEF Live
    <3>3. n1 = more /\ n2 = 0 /\ push = l1
      BY <1>9, <1>11, <2>2, <3>2 DEF One, n1, n2, more, Gained, granted, d
    <3> QED
      BY <1>7, <2>1, <3>3
  <2>3. CASE rvalid /\ ~granted
    <3>1. ~(1 <= Len(outstanding')) /\ ~(2 <= Len(outstanding'))
      BY <1>5, <1>6, <1>11, <2>3
    <3>2. n1 = 0 /\ n2 = 0 /\ push = l1 /\ more = 0
      BY <1>8, <1>9, <1>11, <2>3, <3>1 DEF One, Live, n1, n2
    <3> QED
      BY <1>7, <2>1, <3>2
  <2>4. ~rvalid => n1 = IF br = NoBr THEN l1 ELSE 0
    <3> SUFFICES ASSUME ~rvalid PROVE n1 = IF br = NoBr THEN l1 ELSE 0
      OBVIOUS
    <3>1. 1 <= Len(outstanding') /\ 1 <= Len(outstanding) /\ outstanding'[1] = (outstanding[1] \/ b)
      BY <1>5, <1>6, <1>11 DEF m
    <3>2. Live(1)' <=> Live(1) /\ ~b
      BY <3>1, Zenon DEF Live
    <3> QED
      BY <1>4, <3>2 DEF One, n1, l1
  <2>5. CASE ~rvalid /\ granted
    <3>1. 2 <= Len(outstanding') /\ outstanding'[2] = d
      BY <1>5, <1>6, <1>11, <2>5
    <3>2. Live(2)' <=> ~d
      BY <3>1, Zenon DEF Live
    <3>3. n2 = more /\ push = 0
      BY <1>8, <2>5, <3>2 DEF One, n2, more, Gained, granted, d
    <3> QED
      BY <1>7, <2>1, <2>4, <2>5, <3>3
  <2>6. CASE ~rvalid /\ ~granted
    <3>1. ~(2 <= Len(outstanding'))
      BY <1>5, <1>6, <1>11, <2>6
    <3>2. n2 = 0 /\ push = 0 /\ more = 0
      BY <1>8, <2>6, <3>1 DEF One, Live, n2
    <3> QED
      BY <1>7, <2>1, <2>4, <2>6, <3>2
  <2> QED
    BY <2>2, <2>3, <2>5, <2>6
<1>12. CASE m = 2
  <2>1. ~granted /\ more = 0
    BY <1>2, <1>8, <1>12
  <2>2. CASE rvalid
    <3>1. /\ 1 <= Len(outstanding') /\ ~(2 <= Len(outstanding')) /\ 2 <= Len(outstanding)
          /\ outstanding'[1] = (outstanding[2] \/ b)
      BY <1>5, <1>6, <1>12, <2>1, <2>2 DEF m
    <3>2. (Live(1)' <=> Live(2) /\ ~b) /\ ~Live(2)'
      BY <3>1, Zenon DEF Live
    <3>3. (n1 = IF br = NoBr THEN l2 ELSE 0) /\ n2 = 0 /\ push = l1
      BY <1>4, <1>9, <1>12, <2>2, <3>2 DEF One, n1, n2, l2
    <3> QED
      BY <1>7, <2>1, <3>3
  <2>3. CASE ~rvalid
    <3>1. /\ 1 <= Len(outstanding') /\ 2 <= Len(outstanding')
          /\ 1 <= Len(outstanding) /\ 2 <= Len(outstanding)
          /\ outstanding'[1] = (outstanding[1] \/ b) /\ outstanding'[2] = (outstanding[2] \/ b)
      BY <1>5, <1>6, <1>12, <2>1, <2>3 DEF m
    <3>2. (Live(1)' <=> Live(1) /\ ~b) /\ (Live(2)' <=> Live(2) /\ ~b)
      BY <3>1, Zenon DEF Live
    <3>3. (n1 = IF br = NoBr THEN l1 ELSE 0) /\ (n2 = IF br = NoBr THEN l2 ELSE 0) /\ push = 0
      BY <1>4, <1>8, <2>3, <3>2 DEF One, n1, n2, l1, l2
    <3> QED
      BY <1>7, <2>1, <3>3
  <2> QED
    BY <2>2, <2>3
<1> QED
  BY <1>1, <1>10, <1>11, <1>12

\* A request is made only if there is a place for its word beside all that is
\* outstanding, wanted or not.
LEMMA NewRequestFits ==
    ASSUME IInv, NEW req \in BOOLEAN, ~valid_req_q, valid_new_req(req, NoBranch)
    PROVE  Len(fifo) + LiveCount <= 2
<1> DEFINE m == Len(outstanding)
           f == Len(fifo)
<1>1. m \in 0 .. 2 /\ f \in Nat
  <2>1. fifo \in Seq(Fetched) /\ outstanding \in Seq(BOOLEAN) /\ m <= 2
    BY DEF IInv, TypeOK, PrefetchTypeOK, NUM_REQS
  <2>2. m \in Nat /\ f \in Nat
    BY <2>1, LenProperties
  <2> HIDE DEF m, f
  <2> QED
    BY <2>1, <2>2
<1>2. PICK i \in 1 .. 2 : f <= i /\ m <= 2 - i
  BY DEF valid_new_req, fifo_ready, branch, NUM_REQS
<1>3. (m = 0 => ~Live(1) /\ ~Live(2)) /\ (m = 1 => ~Live(2))
  BY DEF Live
<1>4. One(Live(1)) \in 0 .. 1 /\ (~Live(1) => One(Live(1)) = 0) /\ (~Live(2) => One(Live(2)) = 0)
  BY DEF One
<1> HIDE DEF m, f
<1>5. (m = 0 /\ f <= 2) \/ (m = 1 /\ f <= 1)
  BY <1>1, <1>2
<1>6. f + (One(Live(1)) + One(Live(2))) <= 2
  BY <1>1, <1>3, <1>4, <1>5
<1> QED
  BY <1>6 DEF f, LiveCount

\* The FIFO's space is never promised twice.
LEMMA SpaceStep ==
    ASSUME IInv, NEW req \in BOOLEAN, NEW gnt \in BOOLEAN, NEW rvalid \in BOOLEAN,
           NEW br \in Branches \cup {NoBr}, rvalid => bus # <<>>,
           RequestUpdate(req, br.addr, gnt, rvalid),
           fifo' \in Seq(Fetched), Len(fifo') <= Len(fifo) + Pushed(rvalid),
           br # NoBr => Len(fifo') = 0
    PROVE  Space'
<1> DEFINE d == discard_req_d(br.addr)
           v == valid_req(req, br.addr)
           more == Gained(req, br.addr, gnt)
           push == Pushed(rvalid)
           l == LiveCount
           n == LiveCount'
           w == One(valid_req_q /\ ~discard_req_q)
           x == One(valid_req_q /\ ~discard_req_q)'
           f == Len(fifo)
           h == Len(fifo')
<1>1. n = IF br = NoBr THEN l - push + more ELSE more
  BY LiveStep
<1>2. /\ f \in Nat /\ h \in Nat /\ h <= f + push
      /\ f + (l + w) <= 3
  <2>1. fifo \in Seq(Fetched)
    BY DEF IInv, TypeOK, PrefetchTypeOK
  <2>2. f \in Nat /\ h \in Nat
    BY <2>1, LenProperties
  <2>3. f + (l + w) <= 3
    BY DEF IInv, Space, Pending, DEPTH, NUM_REQS
  <2> QED
    BY <2>2, <2>3
<1>3. more \in 0 .. 1 /\ push \in 0 .. 1 /\ l \in 0 .. 2 /\ w \in 0 .. 1 /\ x \in 0 .. 1
  BY DEF One, Gained, Pushed, LiveCount
<1>4. more + x \in 0 .. 1
  <2>1. valid_req_q' => ~gnt
    BY DEF RequestUpdate
  <2> QED
    BY <2>1 DEF One, Gained
<1>5. br = NoBr => (more + x = w \/ f + l <= 2)
  <2> SUFFICES ASSUME br = NoBr PROVE more + x = w \/ f + l <= 2
    OBVIOUS
  <2>1. (valid_req_q' <=> v /\ ~gnt) /\ (discard_req_q' <=> d)
    BY DEF RequestUpdate, discard_req_d
  <2>2. CASE valid_req_q
    <3>1. v /\ (d <=> discard_req_q)
      BY <2>2, BranchType DEF valid_req, discard_req_d
    <3> QED
      BY <2>1, <2>2, <3>1 DEF One, Gained
  <2>3. CASE ~valid_req_q /\ ~v
    BY <2>1, <2>3 DEF One, Gained
  <2>4. CASE ~valid_req_q /\ v
    <3>1. valid_new_req(req, NoBranch)
      BY <2>4 DEF valid_req, NoBr
    <3> QED
      BY <2>4, <3>1, <1>2, <1>3, NewRequestFits
  <2> QED
    BY <2>2, <2>3, <2>4
<1>6. br # NoBr => h = 0
  OBVIOUS
<1> HIDE DEF more, push, l, n, w, x, f, h
<1>7. h + (n + x) <= 3
  <2>1. CASE br = NoBr
    <3>1. n = l - push + more
      BY <1>1, <2>1
    <3>2. CASE more + x = w
      BY <1>2, <1>3, <3>1, <3>2
    <3>3. CASE f + l <= 2
      BY <1>2, <1>3, <1>4, <3>1, <3>3
    <3> QED
      BY <1>5, <2>1, <3>2, <3>3
  <2>2. CASE br # NoBr
    BY <1>1, <1>3, <1>4, <1>6, <2>2
  <2> QED
    BY <2>1, <2>2
<1> QED
  BY <1>7 DEF Space, Pending, DEPTH, NUM_REQS, n, x, h
-----------------------------------------------------------------------------
(* The invariant. *)

\* The invariant holds after reset, with nothing fetched or outstanding.
LEMMA InitInv == Init => IInv
<1> SUFFICES ASSUME Init PROVE IInv
  OBVIOUS
<1>1. Boot.addr \in Halves /\ Boot.pcc \in Pccs /\ 0 \in Halves
  BY IfAssumption, PrefetchAssumption DEF Halves
<1>2. fifo = <<>> /\ outstanding = <<>> /\ bus = <<>> /\ ~valid_req_q
  BY DEF Init, PrefetchInit
<1>3. PrefetchTypeOK
  <2>1. /\ fifo \in Seq(Fetched) /\ outstanding \in Seq(BOOLEAN)
        /\ Len(fifo) <= DEPTH /\ Len(outstanding) <= NUM_REQS
    BY <1>2, EmptySeq DEF DEPTH, NUM_REQS
  <2>2. {instr_addr_q, stored_addr_q, fetch_addr_q} \subseteq Halves
    BY <1>1 DEF Init, PrefetchInit
  <2>3. valid_req_q \in BOOLEAN /\ discard_req_q \in BOOLEAN
    BY DEF Init, PrefetchInit
  <2> QED
    BY <2>1, <2>2, <2>3 DEF PrefetchTypeOK
<1>4. TypeOK
  <2>1. bus \in Seq(BusWords)
    BY <1>2, EmptySeq
  <2>2. held \in [addr : Words \cup {-1}, old : BOOLEAN] /\ id \in [pc : Halves, is_compressed : BOOLEAN]
    BY <1>1 DEF Init, NoRequest
  <2>3. pcc \in Pccs /\ prev_instr_seq_q \in BOOLEAN /\ next_pc \in Halves \cup {Unknown}
    BY <1>1 DEF Init
  <2> QED
    BY <1>3, <2>1, <2>2, <2>3 DEF TypeOK, BusWords
<1>5. OutstandingAgree
  BY <1>2 DEF OutstandingAgree
<1>6. Space
  BY <1>2 DEF Space, Pending, LiveCount, One, Live, DEPTH, NUM_REQS
<1>7. Waiting
  BY <1>2 DEF Init, Waiting
<1> QED
  BY <1>4, <1>5, <1>6, <1>7 DEF IInv

\* The registers towards ID and what is to be executed next.
LEMMA StageStep ==
    ASSUME IInv, NEW in \in Fetched, NEW new \in BOOLEAN, NEW br \in Branches \cup {NoBr},
           IdUpdate(in, new, br), SeqUpdate(in, new, br), NextPcUpdate(in, new, br),
           pcc' = IF br # NoBr THEN br.pcc ELSE pcc
    PROVE  /\ pcc' \in Pccs
           /\ prev_instr_seq_q' \in BOOLEAN
           /\ next_pc' \in Halves \cup {Unknown}
           /\ id' \in [pc : Halves, is_compressed : BOOLEAN]
<1>1. /\ instr_addr_q \in Halves /\ pcc \in Pccs /\ next_pc \in Halves \cup {Unknown}
      /\ id \in [pc : Halves, is_compressed : BOOLEAN]
  BY DEF IInv, TypeOK, PrefetchTypeOK
<1>2. pcc' \in Pccs
  BY <1>1, BranchType
<1>3. prev_instr_seq_q' \in BOOLEAN
  BY DEF SeqUpdate
<1>4. next_pc' \in Halves \cup {Unknown}
  <2>1. \A h \in Halves : Plus(h, 1) \in Halves
    BY PlusType, PrefetchAssumption DEF Halves
  <2>2. \A h \in Halves : Plus(h, 2) \in Halves
    BY PlusType, PrefetchAssumption DEF Halves
  <2> QED
    BY <1>1, <2>1, <2>2, BranchType DEF NextPcUpdate
<1>5. id' \in [pc : Halves, is_compressed : BOOLEAN]
  BY <1>1 DEF IdUpdate, instr_is_compressed
<1> QED
  BY <1>2, <1>3, <1>4, <1>5

\* A clock cycle preserves it, whatever ID, the bus and the branches do.
LEMMA CycleInv ==
    ASSUME IInv, NEW req \in BOOLEAN, NEW gnt \in BOOLEAN, NEW rvalid \in BOOLEAN,
           NEW err \in BOOLEAN, NEW ready \in BOOLEAN, NEW br \in Branches \cup {NoBr},
           Cycle(req, br, gnt, rvalid, err, ready)
    PROVE  IInv'
<1> DEFINE in == DataWires(rvalid, err)
           inValid == fifo_valid(rvalid)
           new == ready /\ out_valid(in, inValid, cheri_force_uc)
<1>1. /\ rvalid => bus # <<>>
      /\ RequestUpdate(req, br.addr, gnt, rvalid) /\ BusUpdate(req, br, gnt, rvalid)
      /\ FifoUpdate(br.addr, in, inValid, ready, cheri_force_uc)
      /\ IdUpdate(in, new, br) /\ SeqUpdate(in, new, br) /\ NextPcUpdate(in, new, br)
      /\ pcc' = IF br # NoBr THEN br.pcc ELSE pcc
  BY DEF Cycle, PrefetchCycle
<1>2. in \in Fetched
  BY <1>1, WiresType DEF IInv
<1>3. inValid \in BOOLEAN /\ cheri_force_uc \in BOOLEAN /\ new \in BOOLEAN
  BY DEF fifo_valid, cheri_force_uc, out_valid
<1>4. /\ fifo' \in Seq(Fetched) /\ Len(fifo') <= Len(fifo) + Pushed(rvalid)
      /\ br # NoBr => Len(fifo') = 0
      /\ instr_addr_q' \in Halves
  <2> HIDE DEF in
  <2> QED
    BY <1>1, <1>2, <1>3, FifoStep DEF Pushed
<1>5. /\ outstanding' \in Seq(BOOLEAN) /\ bus' \in Seq(BusWords) /\ Len(outstanding') <= NUM_REQS
      /\ {stored_addr_q', fetch_addr_q'} \subseteq Halves
      /\ valid_req_q' \in BOOLEAN /\ discard_req_q' \in BOOLEAN
      /\ held' \in [addr : Words \cup {-1}, old : BOOLEAN]
      /\ OutstandingAgree' /\ Waiting'
  BY <1>1, RequestStep
<1>6. Space'
  BY <1>1, <1>4, SpaceStep
<1>7. /\ pcc' \in Pccs
      /\ prev_instr_seq_q' \in BOOLEAN
      /\ next_pc' \in Halves \cup {Unknown}
      /\ id' \in [pc : Halves, is_compressed : BOOLEAN]
  <2> HIDE DEF in, new
  <2> QED
    BY <1>1, <1>2, <1>3, StageStep
<1>8. Len(fifo') <= DEPTH
  <2>1. Len(fifo') \in Nat
    BY <1>4, LenProperties
  <2>2. Pending' \in Nat
    BY DEF Pending, LiveCount, One
  <2>3. Len(fifo') + Pending' <= DEPTH
    BY <1>6 DEF Space
  <2> DEFINE h == Len(fifo')
             p == Pending'
  <2> HIDE DEF h, p
  <2>4. h <= 3
    BY <2>1, <2>2, <2>3 DEF h, p, DEPTH, NUM_REQS
  <2> QED
    BY <2>4 DEF h, DEPTH, NUM_REQS
<1>9. PrefetchTypeOK'
  BY <1>4, <1>5, <1>8 DEF PrefetchTypeOK
<1>10. TypeOK'
  BY <1>5, <1>7, <1>9 DEF TypeOK, BusWords
<1> QED
  BY <1>5, <1>6, <1>10 DEF IInv

\* So does every step.
LEMMA NextInv == IInv /\ [Next]_vars => IInv'
<1> SUFFICES ASSUME IInv, [Next]_vars PROVE IInv'
  OBVIOUS
<1>1. CASE Next
  BY <1>1, CycleInv DEF Next
<1>2. CASE UNCHANGED vars
  BY <1>2 DEF vars, prefetchVars, IInv, TypeOK, PrefetchTypeOK, OutstandingAgree, Space, Pending,
              LiveCount, Live, One, Waiting
<1> QED
  BY <1>1, <1>2

\* The invariant holds in every reachable state.
LEMMA Invariance == Spec => []IInv
<1> QED
  BY InitInv, NextInv, PTL DEF Spec

-----------------------------------------------------------------------------
(* The theorems. *)

\* Every register of the fetch path has its type; in particular the FIFO and
\* the record of outstanding requests stay within their sizes.
THEOREM TypeCorrect == Spec => []TypeOK
<1>1. IInv => TypeOK
  BY DEF IInv
<1> QED
  BY <1>1, Invariance, PTL

\* The prefetcher and the bus agree on the words that are to come and on which
\* of them are to be thrown away.
THEOREM Agreement == Spec => []OutstandingAgree
<1>1. IInv => OutstandingAgree
  BY DEF IInv
<1> QED
  BY <1>1, Invariance, PTL

\* The invariant leaves room for every word that is wanted.
LEMMA RoomForWord == ASSUME IInv PROVE PushNeverFull
<1> SUFFICES ASSUME bus # <<>>, ~outstanding[1] PROVE Len(fifo) < DEPTH
  BY DEF PushNeverFull
<1>1. /\ fifo \in Seq(Fetched) /\ bus \in Seq(BusWords) /\ outstanding \in Seq(BOOLEAN)
      /\ Len(outstanding) = Len(bus)
  BY DEF IInv, TypeOK, PrefetchTypeOK, OutstandingAgree, BusWords
<1>2. Len(outstanding) >= 1
  BY <1>1
<1>3. One(Live(1)) = 1
  BY <1>2 DEF Live, One
<1>4. One(Live(2)) \in Nat /\ One(valid_req_q /\ ~discard_req_q) \in Nat /\ Len(fifo) \in Nat
  BY <1>1, LenProperties DEF One
<1>5. Len(fifo) + ((One(Live(1)) + One(Live(2))) + One(valid_req_q /\ ~discard_req_q)) <= 3
  BY DEF IInv, Space, Pending, LiveCount, DEPTH, NUM_REQS
<1> DEFINE f == Len(fifo)
           l == One(Live(2))
           w == One(valid_req_q /\ ~discard_req_q)
<1> HIDE DEF f, l, w
<1>6. f < 3
  BY <1>3, <1>4, <1>5 DEF f, l, w
<1> QED
  BY <1>6 DEF f, DEPTH, NUM_REQS

\* The assertion IbexFetchFifoPushFull of ibex_fetch_fifo.sv: no word that is
\* wanted arrives at a full FIFO, whatever the order of branches, grants and
\* responses.
THEOREM NoOverflow == Spec => []PushNeverFull
<1>1. IInv => PushNeverFull
  BY RoomForWord
<1> QED
  BY <1>1, Invariance, PTL

\* The request on the instruction bus does not change until it is granted, also
\* when branches come in the meantime.
THEOREM StableRequest == Spec => []RequestStable
<1>1. IInv => RequestStable
  <2> SUFFICES ASSUME IInv PROVE RequestStable
    OBVIOUS
  <2>1. valid_req_q \in BOOLEAN /\ stored_addr_q \in Halves
    BY DEF IInv, TypeOK, PrefetchTypeOK
  <2>2. valid_req_q => held # NoRequest
    BY <2>1, WordType DEF IInv, Waiting, NoRequest
  <2>3. ~valid_req_q => held = NoRequest
    BY DEF IInv, Waiting
  <2>4. valid_req_q => \A b : instr_addr(b) = stored_addr_q
    BY DEF instr_addr
  <2>5. valid_req_q => WordOf(stored_addr_q) = held.addr
    BY DEF IInv, Waiting
  <2>6. valid_req_q = (held # NoRequest)
    BY <2>1, <2>2, <2>3
  <2>7. valid_req_q => WordOf(instr_addr(NoBranch)) = held.addr
    BY <2>4, <2>5
  <2>8. \A b \in Branches : valid_req_q => WordOf(instr_addr(b.addr)) = held.addr
    BY <2>4, <2>5
  <2> QED
    BY <2>6, <2>7, <2>8 DEF RequestStable
<1> QED
  BY <1>1, Invariance, PTL
-----------------------------------------------------------------------------
(* The stream of words.                                                    *)

\* The words of the address space, one after the other.
WordCount == HalfCount \div 2
NextWord(w) == (w + 1) % WordCount
After(w, k) ==
    IF k = 0 THEN w
    ELSE IF k = 1 THEN NextWord(w)
    ELSE IF k = 2 THEN NextWord(NextWord(w)) ELSE NextWord(NextWord(NextWord(w)))

Here == WordOf(instr_addr_q)

\* What is in the FIFO, on its way, asked for and to be asked for next, leaving
\* out what is to be thrown away, are the words from the one at the program
\* counter on, none of them from before the last branch.
Stream ==
    /\ \A i \in 1 .. Len(fifo) : ~fifo[i].old /\ fifo[i].word = After(Here, i - 1)
    /\ Live(1) => bus[1].word = After(Here, Len(fifo))
    /\ Live(2) => bus[2].word = After(Here, Len(fifo) + One(Live(1)))
    /\ valid_req_q /\ ~discard_req_q => WordOf(stored_addr_q) = After(Here, Len(fifo) + LiveCount)
    /\ WordOf(fetch_addr_q) = After(Here, Len(fifo) + Pending)

\* Halfwords and words.
LEMMA HalvesOfWords ==
    ASSUME NEW a \in Halves
    PROVE  /\ WordCount \in Nat \ {0} /\ HalfCount = 2 * WordCount
           /\ WordOf(a) \in 0 .. WordCount - 1
           /\ a = 2 * WordOf(a) + (a % 2) /\ a % 2 \in {0, 1}
<1>1. HalfCount \in Nat \ {0} /\ HalfCount % 2 = 0 /\ a \in 0 .. HalfCount - 1
  BY PrefetchAssumption DEF Halves
<1>2. WordCount \in Nat \ {0} /\ HalfCount = 2 * WordCount
  BY <1>1 DEF WordCount
<1>3. a = 2 * (a \div 2) + (a % 2) /\ a % 2 \in {0, 1} /\ a \div 2 \in Nat
  BY <1>1
<1> DEFINE w == a \div 2
           x == a % 2
           n == WordCount
<1>4. w \in 0 .. WordCount - 1
  <2>1. a = 2 * w + x /\ x \in {0, 1} /\ w \in Nat /\ a \in 0 .. 2 * n - 1 /\ n \in Nat
    BY <1>1, <1>2, <1>3
  <2> HIDE DEF w, x, n
  <2>2. w \in 0 .. n - 1
    BY <2>1
  <2> QED
    BY <2>2 DEF n
<1>5. WordOf(a) = w
  BY DEF WordOf
<1> QED
  BY <1>2, <1>3, <1>4, <1>5

\* The next word, without the modulus.
LEMMA NextWordIs ==
    ASSUME NEW w \in 0 .. WordCount - 1, WordCount \in Nat \ {0}
    PROVE  /\ NextWord(w) = IF w = WordCount - 1 THEN 0 ELSE w + 1
           /\ NextWord(w) \in 0 .. WordCount - 1
<1>1. NextWord(w) = IF w = WordCount - 1 THEN 0 ELSE w + 1
  BY SMT DEF NextWord
<1> QED
  BY <1>1

\* Where the program counter goes.
LEMMA PlusWords ==
    ASSUME NEW a \in Halves
    PROVE  /\ WordOf(Plus(a, 2)) = NextWord(WordOf(a))
           /\ a % 2 = 0 => WordOf(Plus(a, 1)) = WordOf(a) /\ Plus(a, 1) = a + 1
           /\ a % 2 = 1 => WordOf(Plus(a, 1)) = NextWord(WordOf(a)) /\ Plus(a, 1) = 2 * NextWord(WordOf(a))
           /\ WordOf(Plus(2 * WordOf(a), 2)) = NextWord(WordOf(a))
<1> DEFINE w == WordOf(a)
           v == NextWord(w)
<1>1. /\ WordCount \in Nat \ {0} /\ HalfCount = 2 * WordCount
      /\ w \in 0 .. WordCount - 1 /\ a = 2 * w + (a % 2) /\ a % 2 \in {0, 1}
  BY HalvesOfWords
<1>2. v = IF w = WordCount - 1 THEN 0 ELSE w + 1
  BY <1>1, NextWordIs
<1>3. \A x \in Nat, y \in 1 .. 2 : x < HalfCount => Plus(x, y) = IF x + y < HalfCount THEN x + y ELSE x + y - HalfCount
  <2> SUFFICES ASSUME NEW x \in Nat, NEW y \in 1 .. 2, x < HalfCount
               PROVE  Plus(x, y) = IF x + y < HalfCount THEN x + y ELSE x + y - HalfCount
    OBVIOUS
  <2>1. HalfCount \in Nat /\ HalfCount >= 2
    BY <1>1
  <2> QED
    BY <2>1, SMT DEF Plus
<1> DEFINE x == a % 2
<1> HIDE DEF w, v, x
<1>4. \A y \in Nat : (2 * y) \div 2 = y /\ (2 * y + 1) \div 2 = y
  OBVIOUS
<1>5. /\ Plus(a, 2) = 2 * v + x
      /\ x = 0 => Plus(a, 1) = 2 * w + 1
      /\ x = 1 => Plus(a, 1) = 2 * v
      /\ Plus(2 * w, 2) = 2 * v
  <2>1. /\ WordCount \in Nat \ {0} /\ HalfCount = 2 * WordCount
        /\ w \in 0 .. WordCount - 1 /\ a = 2 * w + x /\ x \in {0, 1} /\ a \in Nat /\ a < HalfCount
    BY <1>1 DEF x, Halves
  <2>2. 2 * w \in Nat /\ 2 * w < HalfCount
    BY <2>1
  <2>3. Plus(a, 2) = (IF a + 2 < HalfCount THEN a + 2 ELSE a + 2 - HalfCount)
    BY <1>3, <2>1
  <2>4. Plus(a, 1) = (IF a + 1 < HalfCount THEN a + 1 ELSE a + 1 - HalfCount)
    BY <1>3, <2>1
  <2>5. Plus(2 * w, 2) = (IF 2 * w + 2 < HalfCount THEN 2 * w + 2 ELSE 2 * w + 2 - HalfCount)
    BY <1>3, <2>2
  <2> QED
    BY <1>2, <2>1, <2>3, <2>4, <2>5
<1>6. v \in Nat /\ w \in Nat
  BY <1>1, <1>2
<1>7. WordOf(Plus(a, 2)) = v
  <2>1. x = 0 \/ x = 1
    BY <1>1 DEF x
  <2> QED
    BY <1>4, <1>5, <1>6, <2>1 DEF WordOf
<1>8. x = 0 => WordOf(Plus(a, 1)) = w /\ Plus(a, 1) = a + 1
  <2>1. x = 0 => a = 2 * w
    BY <1>1, <1>6 DEF x
  <2> QED
    BY <1>4, <1>5, <1>6, <2>1 DEF WordOf
<1>9. x = 1 => WordOf(Plus(a, 1)) = v /\ Plus(a, 1) = 2 * v
  BY <1>4, <1>5, <1>6 DEF WordOf
<1>10. WordOf(Plus(2 * w, 2)) = v
  BY <1>4, <1>5, <1>6 DEF WordOf
<1> QED
  BY <1>7, <1>8, <1>9, <1>10 DEF w, v, x

\* Moving on by a word.
LEMMA AfterMoves ==
    ASSUME NEW w, NEW p \in {0, 1}, NEW k \in Nat, k + p <= 3
    PROVE  /\ After(After(w, p), k) = After(w, k + p)
           /\ k < 3 => After(w, k + 1) = NextWord(After(w, k))
  BY DEF After

\* A cycle without a branch takes the word at the head or leaves it, and the
\* program counter moves by as much.
LEMMA FifoMoves ==
    ASSUME IInv, NEW in \in Fetched, NEW inValid \in BOOLEAN, NEW ready \in BOOLEAN, NEW force_uc \in BOOLEAN,
           inValid => Len(fifo) < DEPTH,
           FifoUpdate(NoBranch, in, inValid, ready, force_uc)
    PROVE  \E p \in {0, 1} :
              /\ p <= Len(fifo) + One(inValid)
              /\ Len(fifo') = Len(fifo) + One(inValid) - p
              /\ \A i \in 1 .. Len(fifo) + One(inValid) - p :
                    fifo'[i] = IF i + p <= Len(fifo) THEN fifo[i + p] ELSE in
              /\ Here' = After(Here, p)
<1> DEFINE taken == ready /\ out_valid(in, inValid, force_uc)
           pop == taken /\ (~aligned_is_compressed(in) \/ unaligned)
           pushed == IF inValid THEN Append(fifo, in) ELSE fifo
           g == One(inValid)
           r == One(pop)
<1>1. fifo \in Seq(Fetched) /\ instr_addr_q \in Halves /\ Len(fifo) \in Nat
  BY LenProperties DEF IInv, TypeOK, PrefetchTypeOK
<1>2. ~branch(NoBranch)
  BY DEF branch
<1>3. fifo' = IF pop THEN Tail(pushed) ELSE pushed
  <2>1. pushed = IF inValid /\ Len(fifo) < DEPTH THEN Append(fifo, in) ELSE fifo
    OBVIOUS
  <2> HIDE DEF pushed
  <2> QED
    BY <1>2, <2>1, Zenon DEF FifoUpdate
<1>4. g \in {0, 1} /\ r \in {0, 1} /\ fifo' = Queue(fifo, in, g, r)
  BY <1>3 DEF Queue, One
<1>5. r <= g + Len(fifo)
  <2>1. out_valid(in, inValid, force_uc) => Len(fifo) + One(inValid) >= 1
    BY <1>1 DEF out_valid, One
  <2> QED
    BY <1>1, <2>1 DEF One
<1>6. Here' = After(Here, r)
  <2>1. instr_addr_q' = IF taken THEN Plus(instr_addr_q, IF addr_incr_two(in, force_uc) THEN 1 ELSE 2) ELSE instr_addr_q
    BY <1>2 DEF FifoUpdate
  <2>2. /\ WordOf(Plus(instr_addr_q, 2)) = NextWord(Here)
        /\ instr_addr_q % 2 = 0 => WordOf(Plus(instr_addr_q, 1)) = Here
        /\ instr_addr_q % 2 = 1 => WordOf(Plus(instr_addr_q, 1)) = NextWord(Here)
        /\ instr_addr_q % 2 \in {0, 1}
    BY <1>1, PlusWords, HalvesOfWords DEF Here
  <2>3. CASE ~taken
    BY <2>1, <2>3 DEF Here, After, One
  <2>4. CASE taken /\ unaligned
    BY <2>1, <2>2, <2>4 DEF Here, After, One, unaligned
  <2>5. CASE taken /\ ~unaligned /\ aligned_is_compressed(in)
    BY <2>1, <2>2, <2>5 DEF Here, After, One, unaligned, addr_incr_two
  <2>6. CASE taken /\ ~unaligned /\ ~aligned_is_compressed(in)
    BY <2>1, <2>2, <2>6 DEF Here, After, One, unaligned, addr_incr_two
  <2> QED
    BY <2>3, <2>4, <2>5, <2>6
<1> HIDE DEF g, r
<1>7. Len(fifo') = Len(fifo) + g - r
  BY <1>1, <1>4, <1>5, QueueLen
<1>8. \A i \in 1 .. Len(fifo) + g - r : fifo'[i] = IF i + r <= Len(fifo) THEN fifo[i + r] ELSE in
  <2> DEFINE q == Queue(fifo, in, g, r)
  <2>1. ASSUME NEW i \in 1 .. Len(fifo) + g - r PROVE q[i] = IF i + r <= Len(fifo) THEN fifo[i + r] ELSE in
    BY <1>1, <1>4, <1>5, QueueItems
  <2>2. fifo' = q
    BY <1>4
  <2> HIDE DEF q
  <2> QED
    BY <2>1, <2>2
<1>9. r <= Len(fifo) + g
  BY <1>1, <1>4, <1>5
<1> QED
  BY <1>4, <1>6, <1>7, <1>8, <1>9 DEF g

\* A branch leaves nothing of what was fetched or asked for before it.
LEMMA StreamBranch ==
    ASSUME IInv, NEW req \in BOOLEAN, NEW gnt \in BOOLEAN, NEW rvalid \in BOOLEAN,
           NEW br \in Branches, rvalid => bus # <<>>,
           RequestUpdate(req, br.addr, gnt, rvalid), BusUpdate(req, br, gnt, rvalid),
           fifo' = <<>>, instr_addr_q' = br.addr
    PROVE  Stream'
<1> DEFINE a == br.addr
           g == Granted(req, a, gnt)
           r == One(rvalid)
           m == Len(outstanding)
           d == discard_req_d(a)
<1>1. br # NoBr /\ branch(a) /\ a \in Halves
  <2>1. a \in Halves /\ a # NoBranch
    BY IfAssumption, PrefetchAssumption DEF Halves, NoBranch
  <2> QED
    BY <2>1 DEF NoBr, branch
<1>2. /\ outstanding \in Seq(BOOLEAN) /\ m \in 0 .. 2 /\ m = Len(bus)
      /\ rvalid => m > 0
  <2>1. outstanding \in Seq(BOOLEAN) /\ m <= 2 /\ m = Len(bus) /\ bus \in Seq(BusWords)
    BY DEF IInv, TypeOK, PrefetchTypeOK, BusWords, OutstandingAgree, NUM_REQS
  <2>2. m \in Nat /\ (bus # <<>> => Len(bus) > 0)
    BY <2>1, LenProperties, EmptySeq
  <2> QED
    BY <2>1, <2>2
<1>3. /\ Len(outstanding') = m + g - r
      /\ \A i \in 1 .. m + g - r :
            /\ outstanding'[i] = IF i + r <= m THEN (outstanding[i + r] \/ branch(a)) ELSE d
            /\ bus'[i].word = IF i + r <= m THEN bus[i + r].word ELSE WordOf(instr_addr(a))
  BY OutstandingStep, RequestStep
<1>4. g \in {0, 1} /\ r \in {0, 1} /\ (g = 1 => valid_req(req, a) /\ gnt) /\ (r = 1 => m > 0)
      /\ (g = 1 => m < 2)
  BY <1>2 DEF Granted, One, IInv, Waiting, valid_req, valid_new_req, NUM_REQS
<1>5. d <=> valid_req_q
  BY <1>1 DEF discard_req_d, IInv, TypeOK, PrefetchTypeOK
<1>6. ~valid_req_q => instr_addr(a) = a
  BY <1>1 DEF instr_addr
<1>7. Here' = WordOf(a) /\ Len(fifo') = 0
  BY EmptySeq DEF Here
<1>8. LiveCount' = Gained(req, a, gnt)
  BY <1>1, LiveStep
<1>9. ASSUME NEW i \in {1, 2}
      PROVE  /\ Live(i)' => g = 1 /\ ~d /\ i = m + 1 - r /\ bus'[i].word = WordOf(a)
             /\ Live(i)' => i <= m + g - r
  <2>1. Live(i)' => i \in 1 .. m + g - r /\ ~outstanding'[i]
    BY <1>2, <1>3, <1>4 DEF Live
  <2> HIDE DEF g, r, m, d
  <2>2. ASSUME Live(i)' PROVE ~(i + r <= m)
    BY <1>1, <1>3, <2>1, <2>2
  <2>3. ASSUME Live(i)' PROVE g = 1 /\ i = m + 1 - r
    BY <1>2, <1>4, <2>1, <2>2, <2>3
  <2>4. ASSUME Live(i)' PROVE ~d /\ bus'[i].word = WordOf(instr_addr(a))
    BY <1>3, <2>1, <2>2, <2>4
  <2> QED
    BY <1>5, <1>6, <2>1, <2>3, <2>4
<1>10. ~(Live(1)' /\ Live(2)')
  <2> HIDE DEF g, r, m, d
  <2>1. Live(1)' => 1 = m + 1 - r
    BY <1>9
  <2>2. Live(2)' => 2 = m + 1 - r
    BY <1>9
  <2> QED
    BY <1>2, <1>4, <2>1, <2>2
<1>11. /\ Live(1)' => bus'[1].word = After(Here', 0)
       /\ Live(2)' => bus'[2].word = After(Here', 0)
  BY <1>7, <1>9 DEF After
<1>12. valid_req_q' /\ ~discard_req_q' => WordOf(stored_addr_q') = WordOf(a) /\ ~gnt
  <2>1. /\ valid_req_q' <=> valid_req(req, a) /\ ~gnt
        /\ discard_req_q' <=> d
        /\ valid_new_req(req, a) /\ ~valid_req_q /\ ~gnt => stored_addr_q' = instr_addr(a)
    BY DEF RequestUpdate, discard_req_d
  <2> QED
    BY <1>5, <1>6, <2>1 DEF valid_req
<1>13. WordOf(fetch_addr_q') = After(WordOf(a), Pending')
  <2> DEFINE fresh == valid_new_req(req, a) /\ ~valid_req_q
             n == LiveCount'
             x == One(valid_req_q /\ ~discard_req_q)'
  <2>1. fetch_addr_q' = IF fresh THEN Plus(a, 2) ELSE a
    BY <1>1 DEF RequestUpdate
  <2>2. /\ valid_req_q' <=> valid_req(req, a) /\ ~gnt
        /\ discard_req_q' <=> d
    BY DEF RequestUpdate, discard_req_d
  <2>3. CASE fresh
    <3>1. valid_req(req, a) /\ ~d
      BY <1>5, <2>3 DEF valid_req
    <3>2. n + x = 1
      BY <1>8, <2>2, <3>1 DEF Gained, One
    <3>3. WordOf(Plus(a, 2)) = NextWord(WordOf(a))
      BY <1>1, PlusWords
    <3> QED
      BY <2>1, <2>3, <3>2, <3>3 DEF After, Pending
  <2>4. CASE ~fresh
    <3>1. valid_req(req, a) => d
      BY <1>5, <2>4 DEF valid_req
    <3>2. n + x = 0
      BY <1>8, <2>2, <3>1 DEF Gained, One
    <3> QED
      BY <2>1, <2>4, <3>2 DEF After, Pending
  <2> QED
    BY <2>3, <2>4
<1>14. Live(2)' => One(Live(1))' = 0
  BY <1>10 DEF One
<1>15. valid_req_q' /\ ~discard_req_q' => LiveCount' = 0
  BY <1>8, <1>12 DEF Gained, One
<1> HIDE DEF a
<1>16. valid_req_q' /\ ~discard_req_q' => WordOf(stored_addr_q') = After(Here', LiveCount')
  BY <1>7, <1>12, <1>15 DEF After
<1>17. Live(2)' => bus'[2].word = After(Here', One(Live(1))')
  BY <1>11, <1>14
<1>18. /\ \A i \in 1 .. Len(fifo') : ~fifo'[i].old /\ fifo'[i].word = After(Here', i - 1)
       /\ Len(fifo') + LiveCount' = LiveCount' /\ Len(fifo') + Pending' = Pending'
       /\ Len(fifo') + One(Live(1))' = One(Live(1))'
  BY <1>7 DEF LiveCount, Pending, One
<1> QED
  BY <1>7, <1>11, <1>13, <1>16, <1>17, <1>18 DEF Stream

\* Without a branch, what is asked for next continues the stream.
LEMMA StreamGoesOn ==
    ASSUME IInv, Stream, NEW req \in BOOLEAN, NEW gnt \in BOOLEAN, NEW rvalid \in BOOLEAN, NEW in,
           rvalid => bus # <<>>,
           RequestUpdate(req, NoBranch, gnt, rvalid), BusUpdate(req, NoBr, gnt, rvalid),
           rvalid => in.word = bus[1].word /\ in.old = bus[1].old,
           NEW p \in {0, 1}, p <= Len(fifo) + Pushed(rvalid),
           fifo' \in Seq(Fetched),
           Len(fifo') = Len(fifo) + Pushed(rvalid) - p,
           \A i \in 1 .. Len(fifo) + Pushed(rvalid) - p :
              fifo'[i] = IF i + p <= Len(fifo) THEN fifo[i + p] ELSE in,
           Here' = After(Here, p)
    PROVE  Stream'
<1> DEFINE a == NoBranch
           g == Granted(req, a, gnt)
           r == One(rvalid)
           m == Len(outstanding)
           d == discard_req_d(a)
           push == Pushed(rvalid)
           f == Len(fifo)
           l1 == One(Live(1))
           l2 == One(Live(2))
           w == One(valid_req_q /\ ~discard_req_q)
           x == One(valid_req_q /\ ~discard_req_q)'
           more == Gained(req, a, gnt)
           asked == WordOf(instr_addr(a))
           fresh == valid_new_req(req, a) /\ ~valid_req_q
<1>1. NoBr \in Branches \cup {NoBr} /\ NoBr.addr = a /\ ~branch(a)
  BY DEF NoBr, branch
<1>2. /\ outstanding \in Seq(BOOLEAN) /\ m \in 0 .. 2 /\ f \in Nat
      /\ rvalid => m > 0
      /\ \A i \in 1 .. m : outstanding[i] = bus[i].old
  <2>1. outstanding \in Seq(BOOLEAN) /\ m <= 2 /\ m = Len(bus) /\ bus \in Seq(BusWords) /\ fifo \in Seq(Fetched)
    BY DEF IInv, TypeOK, PrefetchTypeOK, BusWords, OutstandingAgree, NUM_REQS
  <2>2. m \in Nat /\ f \in Nat /\ (bus # <<>> => Len(bus) > 0) /\ DOMAIN bus = 1 .. Len(bus)
    BY <2>1, LenProperties, EmptySeq
  <2>3. \A i \in DOMAIN bus : outstanding[i] = bus[i].old
    BY DEF IInv, OutstandingAgree
  <2> QED
    BY <2>1, <2>2, <2>3
<1>3. /\ Len(outstanding') = m + g - r
      /\ \A i \in 1 .. m + g - r :
            /\ outstanding'[i] <=> IF i + r <= m THEN outstanding[i + r] ELSE d
            /\ bus'[i].word = IF i + r <= m THEN bus[i + r].word ELSE asked
  <2>1. /\ Len(outstanding') = m + g - r
        /\ \A i \in 1 .. m + g - r :
              outstanding'[i] = IF i + r <= m THEN (outstanding[i + r] \/ branch(a)) ELSE d
    BY <1>1, OutstandingStep
  <2>2. \A i \in 1 .. m + g - r : bus'[i].word = IF i + r <= m THEN bus[i + r].word ELSE asked
    BY <1>1, RequestStep
  <2> QED
    BY <1>1, <2>1, <2>2
<1>4. /\ g \in {0, 1} /\ r \in {0, 1} /\ (g = 1 <=> valid_req(req, a) /\ gnt) /\ (r = 1 => m > 0)
      /\ (g = 1 => m < 2) /\ (r = 1 <=> rvalid)
  BY <1>2 DEF Granted, One, IInv, Waiting, valid_req, valid_new_req, NUM_REQS
<1>5. /\ l1 \in {0, 1} /\ l2 \in {0, 1} /\ (l1 = 1 <=> Live(1)) /\ (l2 = 1 <=> Live(2))
      /\ w \in {0, 1} /\ x \in {0, 1} /\ more \in {0, 1}
      /\ (w = 1 <=> valid_req_q /\ ~discard_req_q)
      /\ (x = 1 <=> valid_req_q' /\ ~discard_req_q')
      /\ (more = 1 <=> g = 1 /\ ~d)
      /\ push = (IF r = 1 THEN l1 ELSE 0)
  <2>1. /\ l1 \in {0, 1} /\ l2 \in {0, 1} /\ (l1 = 1 <=> Live(1)) /\ (l2 = 1 <=> Live(2))
        /\ w \in {0, 1} /\ x \in {0, 1} /\ more \in {0, 1}
        /\ (w = 1 <=> valid_req_q /\ ~discard_req_q)
        /\ (x = 1 <=> valid_req_q' /\ ~discard_req_q')
    BY DEF One, Gained
  <2>2. more = 1 <=> g = 1 /\ ~d
    BY DEF One, Gained, Granted
  <2>3. rvalid => (Live(1) <=> ~outstanding[1])
    BY <1>2 DEF Live
  <2>4. push = (IF r = 1 THEN l1 ELSE 0)
    BY <1>4, <2>3 DEF One, Pushed, fifo_valid
  <2> QED
    BY <2>1, <2>2, <2>4
<1>6. LiveCount' = l1 + l2 - push + more
  <2>1. LiveCount' = LiveCount - push + more
    BY <1>1, LiveStep
  <2>2. LiveCount = l1 + l2
    BY DEF LiveCount
  <2>3. l1 \in Int /\ l2 \in Int /\ push \in Int /\ more \in Int
    BY <1>5
  <2> HIDE DEF l1, l2, push, more
  <2> QED
    BY <2>1, <2>2, <2>3
<1>7. /\ Live(1) <=> m >= 1 /\ ~outstanding[1]
      /\ Live(2) <=> m >= 2 /\ ~outstanding[2]
  BY <1>2 DEF Live
<1>8. /\ \A i \in 1 .. f : ~fifo[i].old /\ fifo[i].word = After(Here, i - 1)
      /\ Live(1) => bus[1].word = After(Here, f)
      /\ Live(2) => bus[2].word = After(Here, f + l1)
      /\ w = 1 => WordOf(stored_addr_q) = After(Here, f + (l1 + l2))
      /\ WordOf(fetch_addr_q) = After(Here, f + ((l1 + l2) + w))
  BY <1>5 DEF Stream, LiveCount, Pending
<1>9. f + ((l1 + l2) + w) <= 3
  BY DEF IInv, Space, Pending, LiveCount, DEPTH, NUM_REQS
<1>10. /\ valid_req_q' <=> valid_req(req, a) /\ ~gnt
       /\ discard_req_q' <=> d
       /\ stored_addr_q' = IF fresh /\ ~gnt THEN instr_addr(a) ELSE stored_addr_q
       /\ fetch_addr_q' = IF fresh THEN Plus(2 * WordOf(fetch_addr_q), 2) ELSE fetch_addr_q
       /\ d <=> valid_req_q /\ discard_req_q
  BY <1>1 DEF RequestUpdate, discard_req_d
<1>11. valid_req(req, a) <=> valid_req_q \/ fresh
  BY DEF valid_req
<1>12. fresh => f + (l1 + l2) <= 2 /\ w = 0
  <2>1. fresh => Len(fifo) + LiveCount <= 2
    BY NewRequestFits
  <2> QED
    BY <1>5, <2>1 DEF LiveCount
<1>13. valid_req(req, a) /\ ~d => asked = After(Here, f + (l1 + l2))
  <2>1. asked = IF valid_req_q THEN WordOf(stored_addr_q) ELSE WordOf(fetch_addr_q)
    BY <1>1 DEF instr_addr
  <2>2. ~valid_req_q => w = 0
    BY <1>5
  <2> HIDE DEF asked, w, d, f, l1, l2
  <2>3. ~valid_req_q => f + ((l1 + l2) + w) = f + (l1 + l2)
    BY <1>2, <1>5, <2>2
  <2> QED
    BY <1>5, <1>8, <1>10, <2>1, <2>3
<1>14. Len(fifo') = f + push - p
  OBVIOUS
<1> DEFINE h == Here
           k == Len(fifo')
           n1 == One(Live(1))'
<1>15. Here' = After(h, p) /\ p \in {0, 1}
  OBVIOUS
<1>16. k = f + push - p /\ p <= f + push
  OBVIOUS
<1>17. n1 \in {0, 1} /\ (n1 = 1 <=> Live(1)')
  BY DEF One
<1>18. /\ Live(1)' <=> m + g - r >= 1 /\ ~outstanding'[1]
       /\ Live(2)' <=> m + g - r >= 2 /\ ~outstanding'[2]
  BY <1>3 DEF Live
<1>19. g = 1 => valid_req(req, a)
  BY <1>4
<1>20. \A i \in 1 .. k : fifo'[i] = IF i + p <= f THEN fifo[i + p] ELSE in
  BY <1>16
<1>21. push = 1 => in.word = After(h, f) /\ ~in.old
  <2>1. push = 1 => rvalid /\ Live(1)
    BY <1>4, <1>5
  <2>2. Live(1) => ~bus[1].old
    BY <1>2, <1>7
  <2> QED
    BY <1>8, <2>1, <2>2
<1> HIDE DEF g, r, m, d, push, f, l1, l2, w, x, more, asked, fresh, h, k, n1
<1>22. push \in {0, 1} /\ k \in Nat /\ push <= l1
  BY <1>2, <1>5, <1>16
<1>23. ASSUME NEW i \in 1 .. k PROVE ~fifo'[i].old /\ fifo'[i].word = After(Here', i - 1)
  <2>1. i + p <= f + push /\ i - 1 \in Nat /\ i + p \in Nat /\ i + p >= 1
    BY <1>2, <1>16, <1>22
  <2>2. f + push <= 3
    BY <1>2, <1>5, <1>9
  <2>3. (i - 1) + p <= 3 /\ (i - 1) + p = i + p - 1
    BY <1>2, <1>22, <2>1, <2>2
  <2>4. After(Here', i - 1) = After(h, i + p - 1)
    BY <1>15, <2>1, <2>3, AfterMoves
  <2>5. CASE i + p <= f
    <3>1. i + p \in 1 .. f
      BY <1>2, <2>1, <2>5
    <3>2. ~fifo[i + p].old /\ fifo[i + p].word = After(h, (i + p) - 1)
      BY <1>8, <3>1 DEF h
    <3> QED
      BY <1>20, <2>4, <2>5, <3>2
  <2>6. CASE ~(i + p <= f)
    <3>1. push = 1 /\ i + p - 1 = f
      BY <1>2, <1>22, <2>1, <2>6
    <3> QED
      BY <1>20, <1>21, <2>4, <2>6, <3>1
  <2> QED
    BY <2>5, <2>6
<1>24. \A j \in Nat : k + j + p <= 3 => After(Here', k + j) = After(h, f + push + j)
  <2> SUFFICES ASSUME NEW j \in Nat, k + j + p <= 3 PROVE After(Here', k + j) = After(h, f + push + j)
    OBVIOUS
  <2>1. k + j \in Nat /\ (k + j) + p <= 3 /\ (k + j) + p = f + push + j
    BY <1>2, <1>16, <1>22
  <2> QED
    BY <1>15, <2>1, AfterMoves
<1>25. k + p = f + push /\ f + push <= 3
  BY <1>2, <1>5, <1>9, <1>16, <1>22
<1>26. Live(1)' => bus'[1].word = After(Here', k)
  <2> SUFFICES ASSUME Live(1)' PROVE bus'[1].word = After(Here', k)
    OBVIOUS
  <2>1. 1 \in 1 .. m + g - r /\ ~outstanding'[1]
    BY <1>2, <1>4, <1>18
  <2>2. After(Here', k) = After(h, f + push)
    <3>1. k + 0 + p <= 3 /\ k + 0 = k /\ f + push + 0 = f + push
      BY <1>2, <1>22, <1>25
    <3> QED
      BY <1>24, <3>1
  <2>3. CASE 1 + r <= m
    <3>1. ~outstanding[1 + r] /\ bus'[1].word = bus[1 + r].word
      BY <1>3, <2>1, <2>3
    <3>2. CASE r = 0
      <4>1. Live(1) /\ push = 0 /\ bus'[1].word = bus[1].word /\ f + push = f
        BY <1>2, <1>5, <1>7, <2>3, <3>1, <3>2
      <4> QED
        BY <1>8, <2>2, <4>1 DEF h
    <3>3. CASE r = 1
      <4>1. Live(2) /\ push = l1 /\ bus'[1].word = bus[2].word
        BY <1>2, <1>5, <1>7, <2>3, <3>1, <3>3
      <4> QED
        BY <1>8, <2>2, <4>1 DEF h
    <3> QED
      BY <1>4, <3>2, <3>3
  <2>4. CASE ~(1 + r <= m)
    <3>1. ~d /\ bus'[1].word = asked /\ g = 1
      BY <1>2, <1>3, <1>4, <2>1, <2>4
    <3>2. push = l1 + l2
      BY <1>2, <1>4, <1>5, <1>7, <2>4
    <3> QED
      BY <1>13, <1>19, <2>2, <3>1, <3>2 DEF h
  <2> QED
    BY <2>3, <2>4
<1>27. Live(2)' => bus'[2].word = After(Here', k + n1)
  <2> SUFFICES ASSUME Live(2)' PROVE bus'[2].word = After(Here', k + n1)
    OBVIOUS
  <2>1. 2 \in 1 .. m + g - r /\ ~outstanding'[2] /\ r = 0
    BY <1>2, <1>4, <1>18
  <2>2. push = 0
    BY <1>5, <2>1
  <2>3. 1 \in 1 .. m + g - r /\ 1 + r <= m /\ m >= 1
    BY <1>2, <1>4, <2>1
  <2>4. outstanding'[1] <=> outstanding[1]
    <3>1. outstanding'[1] <=> outstanding[1 + r]
      BY <1>3, <2>3
    <3> QED
      BY <2>1, <3>1
  <2>5. n1 = l1
    <3>1. Live(1)' <=> Live(1)
      BY <1>7, <1>18, <2>3, <2>4
    <3> QED
      BY <1>5, <1>17, <3>1
  <2>6. After(Here', k + n1) = After(h, f + l1)
    <3>1. n1 \in Nat /\ k + n1 + p <= 3 /\ f + push + n1 = f + l1
      <4>1. n1 + f <= 3 \/ m = 1
        BY <1>2, <1>5, <1>9, <2>5
      <4> QED
        BY <1>2, <1>5, <1>9, <1>16, <1>22, <1>25, <2>2, <2>5
    <3> QED
      BY <1>24, <3>1
  <2>7. CASE m = 2
    <3>1. ~outstanding[2] /\ bus'[2].word = bus[2].word
      <4>1. 2 + r <= m /\ 2 + r = 2
        BY <2>1, <2>7
      <4> QED
        BY <1>3, <2>1, <4>1
    <3>2. Live(2)
      BY <1>7, <2>7, <3>1
    <3> QED
      BY <1>8, <2>6, <3>1, <3>2 DEF h
  <2>8. CASE m = 1
    <3>1. ~d /\ bus'[2].word = asked /\ g = 1
      <4>1. ~(2 + r <= m)
        BY <2>1, <2>8
      <4> QED
        BY <1>2, <1>3, <1>4, <2>1, <2>8, <4>1
    <3>2. l2 = 0 /\ f + (l1 + l2) = f + l1
      BY <1>2, <1>5, <1>7, <2>8
    <3> QED
      BY <1>13, <1>19, <2>6, <3>1, <3>2 DEF h
  <2> QED
    BY <1>2, <2>3, <2>7, <2>8
<1>28. x = 1 => WordOf(stored_addr_q') = After(Here', k + (l1 + l2 - push + more))
  <2> SUFFICES ASSUME x = 1 PROVE WordOf(stored_addr_q') = After(Here', k + (l1 + l2 - push + more))
    OBVIOUS
  <2>1. valid_req(req, a) /\ ~gnt /\ ~d
    BY <1>5, <1>10
  <2>2. g = 0 /\ more = 0
    BY <1>4, <1>5, <2>1
  <2>3. WordOf(stored_addr_q') = After(h, f + (l1 + l2))
    <3>1. CASE fresh
      <4>1. stored_addr_q' = instr_addr(a)
        BY <1>10, <2>1, <3>1
      <4> QED
        BY <1>13, <2>1, <4>1 DEF asked, h
    <3>2. CASE ~fresh
      <4>1. stored_addr_q' = stored_addr_q /\ valid_req_q /\ ~discard_req_q
        BY <1>10, <1>11, <2>1, <3>2
      <4>2. w = 1
        BY <1>5, <4>1
      <4> QED
        BY <1>8, <4>1, <4>2 DEF h
    <3> QED
      BY <3>1, <3>2
  <2>4. /\ l1 + l2 - push \in Nat /\ f + push + (l1 + l2 - push) = f + (l1 + l2)
        /\ l1 + l2 - push + more = l1 + l2 - push
        /\ k + (l1 + l2 - push) + p <= 3
    BY <1>2, <1>5, <1>9, <1>16, <1>22, <2>2
  <2> QED
    BY <1>24, <2>3, <2>4
<1>29. WordOf(fetch_addr_q') = After(Here', k + ((l1 + l2 - push + more) + x))
  <2>1. CASE fresh
    <3>1. more + x = 1 /\ w = 0 /\ f + (l1 + l2) <= 2
      BY <1>4, <1>5, <1>10, <1>11, <1>12, <2>1 DEF fresh
    <3>2. WordOf(fetch_addr_q') = NextWord(WordOf(fetch_addr_q))
      <4>1. fetch_addr_q \in Halves
        BY DEF IInv, TypeOK, PrefetchTypeOK
      <4> QED
        BY <1>10, <2>1, <4>1, PlusWords
    <3>3. /\ f + (l1 + l2) \in Nat /\ f + ((l1 + l2) + w) = f + (l1 + l2)
          /\ f + (l1 + l2) < 3 /\ f + (l1 + l2) + 0 <= 3
      BY <1>2, <1>5, <3>1
    <3>4. WordOf(fetch_addr_q') = After(h, f + (l1 + l2) + 1)
      BY <1>8, <3>2, <3>3, AfterMoves DEF h
    <3>5. /\ (l1 + l2 - push + more) + x \in Nat
          /\ f + push + ((l1 + l2 - push + more) + x) = f + (l1 + l2) + 1
          /\ k + ((l1 + l2 - push + more) + x) + p <= 3
      <4>1. l1 \in Nat /\ l2 \in Nat /\ push \in Nat /\ more \in Nat /\ x \in Nat /\ push <= l1 /\ p \in Nat
        BY <1>5, <1>22
      <4>2. more + x = 1 /\ f + (l1 + l2) <= 2 /\ f \in Nat /\ k \in Nat /\ k + p = f + push
        BY <1>2, <1>22, <1>25, <3>1
      <4>3. (l1 + l2 - push + more) + x = l1 + l2 - push + 1 /\ l1 + l2 - push \in Nat
        BY <4>1, <4>2
      <4> QED
        BY <4>1, <4>2, <4>3
    <3> QED
      BY <1>24, <3>4, <3>5
  <2>2. CASE ~fresh
    <3>1. more + x = w /\ fetch_addr_q' = fetch_addr_q
      BY <1>4, <1>5, <1>10, <1>11, <2>2
    <3>2. /\ (l1 + l2 - push + more) + x \in Nat
          /\ f + push + ((l1 + l2 - push + more) + x) = f + ((l1 + l2) + w)
          /\ k + ((l1 + l2 - push + more) + x) + p <= 3
      BY <1>2, <1>5, <1>9, <1>16, <1>22, <3>1
    <3> QED
      BY <1>8, <1>24, <3>1, <3>2 DEF h
  <2> QED
    BY <2>1, <2>2
<1>30. Pending' = (l1 + l2 - push + more) + x
  BY <1>6 DEF Pending, x
<1> QED
  BY <1>5, <1>6, <1>23, <1>26, <1>27, <1>28, <1>29, <1>30 DEF Stream, k, n1

\* The wires show the word at the head of the bus.
LEMMA StreamCycle ==
    ASSUME IInv, Stream, NEW req \in BOOLEAN, NEW gnt \in BOOLEAN, NEW rvalid \in BOOLEAN,
           NEW err \in BOOLEAN, NEW ready \in BOOLEAN, NEW br \in Branches \cup {NoBr},
           Cycle(req, br, gnt, rvalid, err, ready)
    PROVE  Stream'
<1> DEFINE in == DataWires(rvalid, err)
           inValid == fifo_valid(rvalid)
<1>1. /\ rvalid => bus # <<>>
      /\ RequestUpdate(req, br.addr, gnt, rvalid) /\ BusUpdate(req, br, gnt, rvalid)
      /\ FifoUpdate(br.addr, in, inValid, ready, cheri_force_uc)
  BY DEF Cycle, PrefetchCycle
<1>2. in \in Fetched
  BY <1>1, WiresType DEF IInv
<1>3. inValid \in BOOLEAN /\ cheri_force_uc \in BOOLEAN
  BY DEF fifo_valid, cheri_force_uc
<1>4. rvalid => in.word = bus[1].word /\ in.old = bus[1].old
  BY DEF DataWires
<1>5. inValid => Len(fifo) < DEPTH
  <2>1. PushNeverFull
    BY RoomForWord
  <2> QED
    BY <1>1, <2>1 DEF PushNeverFull, fifo_valid
<1>6. Pushed(rvalid) = One(inValid)
  BY DEF Pushed
<1>7. fifo' \in Seq(Fetched)
  <2> HIDE DEF in, inValid
  <2> QED
    BY <1>1, <1>2, <1>3, FifoStep
<1> HIDE DEF in, inValid
<1>8. CASE br = NoBr
  <2>1. br.addr = NoBranch
    BY <1>8 DEF NoBr
  <2>2. PICK p \in {0, 1} :
              /\ p <= Len(fifo) + One(inValid)
              /\ Len(fifo') = Len(fifo) + One(inValid) - p
              /\ \A i \in 1 .. Len(fifo) + One(inValid) - p :
                    fifo'[i] = IF i + p <= Len(fifo) THEN fifo[i + p] ELSE in
              /\ Here' = After(Here, p)
    BY <1>1, <1>2, <1>3, <1>5, <2>1, FifoMoves
  <2>3. /\ p <= Len(fifo) + Pushed(rvalid)
        /\ Len(fifo') = Len(fifo) + Pushed(rvalid) - p
        /\ \A i \in 1 .. Len(fifo) + Pushed(rvalid) - p :
              fifo'[i] = IF i + p <= Len(fifo) THEN fifo[i + p] ELSE in
    BY <1>6, <2>2
  <2>4. RequestUpdate(req, NoBranch, gnt, rvalid) /\ BusUpdate(req, NoBr, gnt, rvalid)
    BY <1>1, <1>8, <2>1
  <2> QED
    BY <1>1, <1>4, <1>7, <2>2, <2>3, <2>4, StreamGoesOn
<1>9. CASE br # NoBr
  <2>1. br \in Branches /\ branch(br.addr)
    BY <1>9, BranchType
  <2>2. fifo' = <<>> /\ instr_addr_q' = br.addr
    BY <1>1, <2>1 DEF FifoUpdate
  <2> QED
    BY <1>1, <2>1, <2>2, StreamBranch
<1> QED
  BY <1>8, <1>9

\* The stream is kept.
LEMMA StreamInvariance == Spec => []Stream
<1>1. Init => Stream
  <2> SUFFICES ASSUME Init PROVE Stream
    OBVIOUS
  <2>1. fifo = <<>> /\ outstanding = <<>> /\ ~valid_req_q /\ instr_addr_q = Boot.addr /\ fetch_addr_q = Boot.addr
    BY DEF Init, PrefetchInit
  <2>2. Len(fifo) = 0 /\ Len(outstanding) = 0
    BY <2>1, EmptySeq
  <2>3. ~Live(1) /\ ~Live(2)
    BY <2>2 DEF Live
  <2>4. Pending = 0
    BY <2>1, <2>3 DEF Pending, LiveCount, One
  <2> QED
    BY <2>1, <2>2, <2>3, <2>4 DEF Stream, Here, After
<1>2. IInv /\ Stream /\ [Next]_vars => Stream'
  <2> SUFFICES ASSUME IInv, Stream, [Next]_vars PROVE Stream'
    OBVIOUS
  <2>1. CASE Next
    BY <2>1, StreamCycle DEF Next
  <2>2. CASE UNCHANGED vars
    BY <2>2 DEF vars, prefetchVars, Stream, Here, Live, LiveCount, Pending
  <2> QED
    BY <2>1, <2>2
<1> QED
  BY <1>1, <1>2, Invariance, PTL DEF Spec

-----------------------------------------------------------------------------
(* Instructions.                                                           *)

\* In debug mode the bounds of PCC cover what is fetched.  They are those of
\* MTCC then and do not count as an error, but still cut instructions short.
DebugInBounds == pcc.debug => ~cheri_force_uc

\* An instruction that is cut short by the bounds is refused because of them.
LEMMA NotCutShort ==
    ASSUME IInv, NEW in, DebugInBounds, ~if_instr_err(in)
    PROVE  cheri_force_uc => instr_is_compressed(in)
<1>1. instr_hdrm \in Int
  <2>1. HalfCount \in Nat /\ instr_addr_q \in 0 .. HalfCount - 1 /\ pcc \in Pccs
    BY PrefetchAssumption DEF IInv, TypeOK, PrefetchTypeOK, Halves
  <2> QED
    BY <2>1 DEF instr_hdrm, Pccs
<1> QED
  BY <1>1 DEF DebugInBounds, if_instr_err, cheri_bound_vio, cheri_force_uc, hdrm_ok

\* The head of the FIFO, or the wires, hold a word or nothing.
LEMMA FirstType ==
    ASSUME IInv, NEW in \in Fetched
    PROVE  first(in) \in Fetched /\ first(in).word \in Int
<1>1. fifo \in Seq(Fetched)
  BY DEF IInv, TypeOK, PrefetchTypeOK
<1>2. first(in) \in Fetched
  BY <1>1 DEF first
<1>3. Words \cup {NoWord} \subseteq Int
  BY PrefetchAssumption DEF Words, Halves, NoWord
<1> QED
  BY <1>2, <1>3 DEF Fetched

\* The program counter is moved by the length of the instruction.
LEMMA MovedByLength ==
    ASSUME IInv, NEW in \in Fetched, DebugInBounds, ~if_instr_err(in)
    PROVE  addr_incr_two(in, cheri_force_uc) <=> instr_is_compressed(in)
<1>1. ~first(in).err
  BY DEF if_instr_err, out_err
<1>2. cheri_force_uc => instr_is_compressed(in)
  BY NotCutShort
<1>3. first(in).word \in Int
  BY FirstType
<1>4. CASE unaligned
  <2>1. out_lo(in).half = 2 * first(in).word + 1
    BY <1>4 DEF out_lo, Half
  <2> QED
    BY <1>1, <1>2, <1>4, <2>1 DEF addr_incr_two, instr_is_compressed, unaligned_is_compressed
<1>5. CASE ~unaligned
  <2>1. out_lo(in).half = 2 * first(in).word + 0
    BY <1>5 DEF out_lo, Half
  <2>2. out_lo(in).half = 2 * first(in).word
    BY <1>3, <2>1
  <2> QED
    BY <1>1, <1>5, <2>2 DEF addr_incr_two, instr_is_compressed, aligned_is_compressed
<1> QED
  BY <1>4, <1>5

\* What a cycle does to the program counter.
LEMMA CounterMoves ==
    ASSUME NEW br \in Branches \cup {NoBr}, NEW in, NEW inValid, NEW ready, NEW force_uc,
           FifoUpdate(br.addr, in, inValid, ready, force_uc)
    PROVE  instr_addr_q' = IF br # NoBr THEN br.addr
                           ELSE IF ready /\ out_valid(in, inValid, force_uc)
                           THEN Plus(instr_addr_q, IF addr_incr_two(in, force_uc) THEN 1 ELSE 2)
                           ELSE instr_addr_q
  BY BranchType DEF FifoUpdate

\* What a cycle hands on, as the lemmas below use it.
Hands(in, inValid, ready, br) ==
    LET new == ready /\ out_valid(in, inValid, cheri_force_uc)
    IN  /\ IdUpdate(in, new, br) /\ SeqUpdate(in, new, br) /\ NextPcUpdate(in, new, br)
        /\ FifoUpdate(br.addr, in, inValid, ready, cheri_force_uc)

\* An erred instruction names its own error.
LEMMA ErrorStep ==
    ASSUME NEW in, NEW inValid, NEW ready, NEW br, Hands(in, inValid, ready, br)
    PROVE  ErrorIsItsOwn'
<1> SUFFICES ASSUME issued'.valid, issued'.err, ~issued'.vio
             PROVE  /\ issued'.lo.err \/ (issued'.hi.err /\ issued'.lo.half \notin Compressed)
                    /\ issued'.err_plus2 = ~issued'.lo.err
  BY DEF ErrorIsItsOwn
<1>1. issued' = Registers(in, br)
  BY DEF Hands, IdUpdate, Flushed, Nothing
<1>2. /\ issued'.lo = out_lo(in) /\ issued'.hi = out_hi(in)
      /\ issued'.err_plus2 = out_err_plus2(in)
      /\ issued'.err = if_instr_err(in)
      /\ issued'.vio = (cheri_acc_vio \/ cheri_bound_vio(instr_is_compressed(in)))
  BY <1>1 DEF Registers
<1>3. out_err(in, cheri_force_uc)
  BY <1>2 DEF if_instr_err
<1>4. out_lo(in).err = first(in).err
  BY DEF out_lo, Half
<1>5. CASE first(in).err
  <2>1. out_err_plus2(in) = FALSE
    BY <1>5 DEF out_err_plus2
  <2> QED
    BY <1>2, <1>4, <1>5, <2>1
<1>6. CASE ~first(in).err
  <2>1. unaligned /\ fifo # <<>> /\ second(in).err /\ ~unaligned_is_compressed(in, cheri_force_uc)
    BY <1>3, <1>6 DEF out_err
  <2>2. out_hi(in).err = second(in).err /\ out_lo(in).half = 2 * first(in).word + 1
    BY <2>1 DEF out_hi, out_lo, Half
  <2>3. out_err_plus2(in) = TRUE
    BY <1>6, <2>1 DEF out_err_plus2
  <2>4. 2 * first(in).word + 1 \notin Compressed
    BY <1>6, <2>1 DEF unaligned_is_compressed
  <2> QED
    BY <1>2, <1>4, <1>6, <2>1, <2>2, <2>3, <2>4
<1> QED
  BY <1>5, <1>6

\* The bytes of an address that passed the check, with the wrap of the address
\* space: without room for it the check fails.
LEMMA InBounds ==
    ASSUME IInv, NEW c \in BOOLEAN, base_ok, hdrm_ok(c), NEW b \in 0 .. (IF c THEN 1 ELSE 3)
    PROVE  LET a == (2 * instr_addr_q + b) % (2 * HalfCount)
           IN  pcc.base <= a /\ a < pcc.top
<1> DEFINE n == 2 * HalfCount
           x == 2 * instr_addr_q + b
           l == pcc.base
           t == pcc.top
<1>1. /\ n \in Nat \ {0} /\ x \in Nat /\ l \in 0 .. n /\ t \in 0 .. n
      /\ 2 * instr_addr_q \in Nat /\ b \in Nat
  <2>1. HalfCount \in Nat \ {0} /\ instr_addr_q \in 0 .. HalfCount - 1 /\ pcc \in Pccs
    BY PrefetchAssumption DEF IInv, TypeOK, PrefetchTypeOK, Halves
  <2>2. pcc.base \in 0 .. 2 * HalfCount /\ pcc.top \in 0 .. 2 * HalfCount
    BY <2>1 DEF Pccs
  <2>3. b \in Nat
    BY <2>1
  <2> QED
    BY <2>1, <2>2, <2>3
<1>2. \A u \in Nat, v \in Nat \ {0} : u % v \in 0 .. v - 1 /\ (u < v => u % v = u)
  BY SMT
<1>3. CASE allow_all
  <2>1. l = 0 /\ t = n
    BY <1>3 DEF allow_all
  <2>2. x % n \in 0 .. n - 1
    BY <1>1, <1>2
  <2> HIDE DEF n, x, l, t
  <2>3. l <= x % n /\ x % n < t
    BY <1>1, <2>1, <2>2
  <2> QED
    BY <2>3 DEF n, x, l, t
<1>4. CASE ~allow_all
  <2>1. l <= 2 * instr_addr_q
    BY <1>1 DEF base_ok
  <2>2. t - 2 * instr_addr_q >= IF c THEN 2 ELSE 4
    BY <1>4 DEF hdrm_ok, instr_hdrm
  <2>3. b <= (IF c THEN 1 ELSE 3)
    OBVIOUS
  <2> DEFINE y == 2 * instr_addr_q
  <2>4. x = y + b /\ y \in Nat
    BY <1>1
  <2> HIDE DEF n, x, l, t, y
  <2>5. l <= x /\ x < t /\ x < n
    <3>1. l <= y /\ t - y >= (IF c THEN 2 ELSE 4)
      BY <2>1, <2>2 DEF y
    <3>2. CASE c
      BY <1>1, <2>3, <2>4, <3>1, <3>2
    <3>3. CASE ~c
      BY <1>1, <2>3, <2>4, <3>1, <3>3
    <3> QED
      BY <3>2, <3>3
  <2>6. x % n = x
    BY <1>1, <1>2, <2>5
  <2> QED
    BY <2>5, <2>6 DEF n, x, l, t
<1> QED
  BY <1>3, <1>4

\* An instruction without an error is within PCC.
LEMMA AuthorisedStep ==
    ASSUME IInv, NEW in, NEW inValid, NEW ready, NEW br, Hands(in, inValid, ready, br)
    PROVE  FetchAuthorised'
<1> SUFFICES ASSUME issued'.valid, ~issued'.err, ~issued'.pcc.debug,
                    NEW b \in 0 .. (IF issued'.lo.half \in Compressed THEN 1 ELSE 3)
             PROVE  LET a == (2 * issued'.pc + b) % (2 * HalfCount)
                    IN  issued'.pcc.base <= a /\ a < issued'.pcc.top
  BY DEF FetchAuthorised
<1>1. issued' = Registers(in, br)
  BY DEF Hands, IdUpdate, Flushed, Nothing
<1>2. issued'.lo = out_lo(in) /\ issued'.pc = instr_addr_q /\ issued'.pcc = pcc
      /\ issued'.err = if_instr_err(in)
  BY <1>1 DEF Registers
<1> DEFINE c == instr_is_compressed(in)
<1>3. c \in BOOLEAN /\ (c <=> issued'.lo.half \in Compressed)
  BY <1>2 DEF instr_is_compressed
<1>4. base_ok /\ hdrm_ok(c)
  BY <1>2 DEF if_instr_err, cheri_bound_vio
<1>5. b \in 0 .. (IF c THEN 1 ELSE 3)
  BY <1>3
<1> HIDE DEF c
<1> QED
  BY <1>2, <1>3, <1>4, <1>5, InBounds

\* Where the instruction at the program counter comes from: the word there, and
\* the next one if it goes on in it; both asked for after the last branch.
LEMMA Handed ==
    ASSUME IInv, Stream, NEW in, NEW rvalid \in BOOLEAN, NEW force_uc, rvalid => bus # <<>>,
           rvalid => in.word = bus[1].word /\ in.old = bus[1].old,
           out_valid(in, fifo_valid(rvalid), force_uc)
    PROVE  /\ first(in).word = Here /\ ~first(in).old
           /\ unaligned /\ ~unaligned_is_compressed(in, force_uc) =>
                fifo # <<>> /\ second(in).word = NextWord(Here) /\ ~second(in).old
<1> DEFINE n == Len(fifo)
           got == fifo_valid(rvalid)
<1>1. /\ fifo \in Seq(Fetched) /\ n \in Nat /\ (fifo = <<>> <=> n = 0)
      /\ outstanding \in Seq(BOOLEAN) /\ bus \in Seq(BusWords) /\ Len(outstanding) = Len(bus)
      /\ \A i \in DOMAIN bus : outstanding[i] = bus[i].old
  <2>1. fifo \in Seq(Fetched)
    BY DEF IInv, TypeOK, PrefetchTypeOK
  <2> QED
    BY <2>1, EmptySeq, LenProperties DEF IInv, TypeOK, PrefetchTypeOK, OutstandingAgree, BusWords
<1>2. \A i \in 1 .. n : ~fifo[i].old /\ fifo[i].word = After(Here, i - 1)
  BY DEF Stream
<1>3. got => in.word = After(Here, n) /\ ~in.old
  <2> SUFFICES ASSUME got PROVE in.word = After(Here, n) /\ ~in.old
    OBVIOUS
  <2>1. rvalid /\ ~outstanding[1] /\ bus # <<>>
    BY DEF fifo_valid
  <2>2. Len(bus) >= 1 /\ 1 \in DOMAIN bus
    BY <1>1, <2>1
  <2>3. Live(1) /\ ~bus[1].old
    BY <1>1, <2>1, <2>2 DEF Live
  <2> QED
    BY <2>1, <2>3 DEF Stream
<1>4. got \in BOOLEAN
  BY DEF fifo_valid
<1>5. /\ n >= 1 \/ got
      /\ unaligned /\ ~unaligned_is_compressed(in, force_uc) => n >= 2 \/ (n = 1 /\ got)
  <2> DEFINE words == n + (IF got THEN 1 ELSE 0)
             long == unaligned /\ ~unaligned_is_compressed(in, force_uc)
  <2>1. IF long THEN words >= 2 ELSE words >= 1
    BY DEF out_valid
  <2> HIDE DEF got, n, long
  <2>2. (n >= 1 \/ got) /\ (long => n >= 2 \/ (n = 1 /\ got))
    <3>1. n \in Nat
      BY <1>1
    <3>2. CASE got
      BY <2>1, <3>1, <3>2
    <3>3. CASE ~got
      BY <2>1, <3>1, <3>3
    <3> QED
      BY <3>2, <3>3
  <2> QED
    BY <2>2 DEF long
<1>6. After(Here, 0) = Here /\ After(Here, 1) = NextWord(Here)
  BY DEF After
<1> HIDE DEF got, n
<1>7. first(in).word = Here /\ ~first(in).old
  <2>1. CASE n = 0
    BY <1>1, <1>3, <1>5, <1>6, <2>1 DEF first
  <2>2. CASE n # 0
    <3>1. 1 \in 1 .. n /\ 1 - 1 = 0
      BY <1>1, <2>2
    <3> QED
      BY <1>1, <1>2, <1>6, <2>2, <3>1 DEF first
  <2> QED
    BY <2>1, <2>2
<1>8. ASSUME unaligned, ~unaligned_is_compressed(in, force_uc)
      PROVE  fifo # <<>> /\ second(in).word = NextWord(Here) /\ ~second(in).old
  <2>1. CASE n >= 2
    <3>1. 2 \in 1 .. n /\ 2 - 1 = 1 /\ n # 0
      BY <1>1, <2>1
    <3>2. second(in) = fifo[2]
      BY <2>1 DEF second, n
    <3> QED
      BY <1>1, <1>2, <1>6, <3>1, <3>2
  <2>2. CASE ~(n >= 2)
    <3>1. n = 1 /\ got
      BY <1>1, <1>5, <1>8, <2>2
    <3>2. second(in) = in
      BY <2>2 DEF second, n
    <3> QED
      BY <1>1, <1>3, <1>6, <3>1, <3>2
  <2> QED
    BY <2>1, <2>2
<1> QED
  BY <1>7, <1>8

\* The program goes on at the program counter.
Follows == next_pc # Unknown => next_pc = instr_addr_q

\* The first halfword handed on is the one at the program counter.
LEMMA LowHalf ==
    ASSUME IInv, NEW in, first(in).word = Here
    PROVE  out_lo(in).half = instr_addr_q
<1>1. instr_addr_q \in Halves
  BY DEF IInv, TypeOK, PrefetchTypeOK
<1> DEFINE w == WordOf(instr_addr_q)
           x == instr_addr_q % 2
<1>2. instr_addr_q = 2 * w + x /\ x \in {0, 1}
  BY <1>1, HalvesOfWords
<1>3. out_lo(in).half = 2 * w + (IF x = 1 THEN 1 ELSE 0)
  BY DEF out_lo, Half, unaligned, Here
<1> HIDE DEF w, x
<1> QED
  BY <1>2, <1>3

\* It stays so: without an error the counter moves by the length of the
\* instruction that was handed on.
LEMMA FollowsStep ==
    ASSUME IInv, Follows, DebugInBounds, NEW in \in Fetched, NEW inValid, NEW ready,
           NEW br \in Branches \cup {NoBr}, Hands(in, inValid, ready, br),
           out_valid(in, inValid, cheri_force_uc) => first(in).word = Here
    PROVE  Follows'
<1> DEFINE new == ready /\ out_valid(in, inValid, cheri_force_uc)
<1>1. instr_addr_q' = IF br # NoBr THEN br.addr
                      ELSE IF new THEN Plus(instr_addr_q, IF addr_incr_two(in, cheri_force_uc) THEN 1 ELSE 2)
                      ELSE instr_addr_q
  BY CounterMoves DEF Hands
<1>2. NextPcUpdate(in, new, br)
  BY DEF Hands
<1>3. CASE br # NoBr \/ ~new
  BY <1>1, <1>2, <1>3 DEF NextPcUpdate, Follows
<1>4. CASE br = NoBr /\ new /\ next_pc # Unknown /\ ~if_instr_err(in)
  <2>1. next_pc = instr_addr_q
    BY <1>4 DEF Follows
  <2>2. out_lo(in).half = instr_addr_q
    BY <1>4, LowHalf
  <2>3. addr_incr_two(in, cheri_force_uc) <=> next_pc \in Compressed
    BY <1>4, <2>1, <2>2, MovedByLength DEF instr_is_compressed
  <2> HIDE DEF new
  <2> QED
    BY <1>1, <1>2, <1>4, <2>1, <2>3 DEF NextPcUpdate, Follows
<1>5. CASE br = NoBr /\ new /\ (next_pc = Unknown \/ if_instr_err(in))
  <2>1. next_pc' = Unknown
    BY <1>2, <1>5 DEF NextPcUpdate
  <2> QED
    BY <2>1 DEF Follows
<1> QED
  BY <1>3, <1>4, <1>5

\* An instruction handed on without an error is in one piece.
LEMMA IntactStep ==
    ASSUME IInv, Follows, DebugInBounds, NEW in \in Fetched, NEW inValid, NEW ready,
           NEW br \in Branches \cup {NoBr}, Hands(in, inValid, ready, br),
           out_valid(in, inValid, cheri_force_uc) =>
              /\ first(in).word = Here /\ ~first(in).old
              /\ unaligned /\ ~unaligned_is_compressed(in, cheri_force_uc) =>
                    fifo # <<>> /\ second(in).word = NextWord(Here) /\ ~second(in).old
    PROVE  InstructionIntact'
<1> SUFFICES ASSUME issued'.valid, ~issued'.err, issued'.want # Unknown
             PROVE  /\ issued'.pc = issued'.want
                    /\ issued'.lo.half = issued'.want
                    /\ ~issued'.lo.err /\ ~issued'.lo.old
                    /\ issued'.want \notin Compressed =>
                         /\ issued'.hi.half = Plus(issued'.want, 1)
                         /\ ~issued'.hi.err /\ ~issued'.hi.old
  BY DEF InstructionIntact
<1>1. /\ br = NoBr /\ out_valid(in, inValid, cheri_force_uc)
      /\ issued' = Registers(in, br)
  BY DEF Hands, IdUpdate, Flushed, Nothing
<1>2. /\ issued'.lo = out_lo(in) /\ issued'.hi = out_hi(in) /\ issued'.pc = instr_addr_q
      /\ issued'.err = if_instr_err(in) /\ issued'.want = next_pc
  BY <1>1 DEF Registers
<1>3. next_pc = instr_addr_q /\ ~if_instr_err(in)
  BY <1>2 DEF Follows
<1>4. first(in).word = Here /\ ~first(in).old
  BY <1>1
<1>5. out_lo(in).half = instr_addr_q
  BY <1>4, LowHalf
<1>6. ~first(in).err
  BY <1>3 DEF if_instr_err, out_err
<1>7. ~out_lo(in).err /\ ~out_lo(in).old
  BY <1>4, <1>6 DEF out_lo, Half
<1>8. ASSUME instr_addr_q \notin Compressed
      PROVE  out_hi(in).half = Plus(instr_addr_q, 1) /\ ~out_hi(in).err /\ ~out_hi(in).old
  <2>1. instr_addr_q \in Halves
    BY DEF IInv, TypeOK, PrefetchTypeOK
  <2>2. ~instr_is_compressed(in)
    BY <1>5, <1>8 DEF instr_is_compressed
  <2>3. ~cheri_force_uc
    BY <1>3, <2>2, NotCutShort
  <2> DEFINE x == instr_addr_q
             v == NextWord(WordOf(x))
  <2>4. CASE unaligned
    <3>1. ~unaligned_is_compressed(in, cheri_force_uc)
      <4>1. out_lo(in).half = 2 * first(in).word + 1
        BY <2>4 DEF out_lo, Half
      <4> QED
        BY <1>5, <1>8, <2>3, <4>1 DEF unaligned_is_compressed
    <3>2. fifo # <<>> /\ second(in).word = NextWord(Here) /\ ~second(in).old
      BY <1>1, <2>4, <3>1
    <3>3. ~second(in).err
      BY <1>3, <2>4, <3>1, <3>2 DEF if_instr_err, out_err
    <3>4. out_hi(in) = Half(second(in), 0)
      BY <2>4 DEF out_hi
    <3>5. Plus(instr_addr_q, 1) = 2 * v /\ v \in Int
      <4>1. WordCount \in Nat \ {0} /\ WordOf(x) \in 0 .. WordCount - 1
        BY <2>1, HalvesOfWords
      <4>2. v \in 0 .. WordCount - 1
        BY <4>1, NextWordIs
      <4> QED
        BY <2>1, <2>4, <4>1, <4>2, PlusWords DEF unaligned
    <3>6. out_hi(in).half = 2 * v + 0 /\ out_hi(in).err = second(in).err /\ out_hi(in).old = second(in).old
      BY <3>2, <3>4 DEF Half, Here
    <3> HIDE DEF v
    <3> QED
      BY <3>2, <3>3, <3>5, <3>6
  <2>5. CASE ~unaligned
    <3>1. out_hi(in) = Half(first(in), 1) /\ out_lo(in) = Half(first(in), 0)
      BY <2>5 DEF out_hi, out_lo
    <3>2. out_hi(in).half = 2 * WordOf(x) + 1 /\ out_hi(in).err = first(in).err /\ out_hi(in).old = first(in).old
      BY <1>4, <3>1 DEF Half, Here
    <3>3. x % 2 = 0 /\ x = 2 * WordOf(x) + (x % 2) /\ WordOf(x) \in Nat
      BY <2>1, <2>5, HalvesOfWords, WordType DEF unaligned
    <3>4. Plus(x, 1) = x + 1
      BY <2>1, <3>3, PlusWords
    <3>5. 2 * WordOf(x) + 1 = x + 1
      BY <3>3
    <3> QED
      BY <1>4, <1>6, <3>2, <3>4, <3>5
  <2> QED
    BY <2>4, <2>5
<1> QED
  BY <1>2, <1>3, <1>5, <1>7, <1>8

\* The check of the increments agrees with the counter.
LEMMA AlertStep ==
    ASSUME IInv, NoFalseAlert, DebugInBounds, NEW in \in Fetched, NEW inValid, NEW ready,
           NEW br \in Branches \cup {NoBr}, Hands(in, inValid, ready, br)
    PROVE  NoFalseAlert'
<1> SUFFICES ASSUME prev_instr_seq_q'
             PROVE  instr_addr_q' = Plus(id'.pc, IF id'.is_compressed THEN 1 ELSE 2)
  BY DEF NoFalseAlert, pc_mismatch_alert
<1> DEFINE new == ready /\ out_valid(in, inValid, cheri_force_uc)
<1>1. br = NoBr /\ ~if_instr_err(in) /\ (prev_instr_seq_q \/ new)
  BY DEF Hands, SeqUpdate
<1>2. instr_addr_q' = IF new THEN Plus(instr_addr_q, IF addr_incr_two(in, cheri_force_uc) THEN 1 ELSE 2)
                      ELSE instr_addr_q
  BY <1>1, CounterMoves DEF Hands
<1>3. id' = IF new THEN [pc |-> instr_addr_q, is_compressed |-> instr_is_compressed(in)] ELSE id
  BY DEF Hands, IdUpdate
<1>4. addr_incr_two(in, cheri_force_uc) <=> instr_is_compressed(in)
  BY <1>1, MovedByLength
<1> HIDE DEF new
<1>5. CASE new
  BY <1>2, <1>3, <1>4, <1>5
<1>6. CASE ~new
  BY <1>1, <1>2, <1>3, <1>6 DEF NoFalseAlert, pc_mismatch_alert
<1> QED
  BY <1>5, <1>6

\* The parts of a cycle that the lemmas above are about.
LEMMA CycleHands ==
    ASSUME IInv, NEW req \in BOOLEAN, NEW gnt \in BOOLEAN, NEW rvalid \in BOOLEAN,
           NEW err \in BOOLEAN, NEW ready \in BOOLEAN, NEW br \in Branches \cup {NoBr},
           Cycle(req, br, gnt, rvalid, err, ready)
    PROVE  \E in \in Fetched :
              /\ Hands(in, fifo_valid(rvalid), ready, br)
              /\ rvalid => bus # <<>> /\ in.word = bus[1].word /\ in.old = bus[1].old
<1> DEFINE in == DataWires(rvalid, err)
<1>1. rvalid => bus # <<>>
  BY DEF Cycle
<1>2. in \in Fetched
  BY <1>1, WiresType DEF IInv
<1>3. rvalid => in.word = bus[1].word /\ in.old = bus[1].old
  BY DEF DataWires
<1>4. Hands(in, fifo_valid(rvalid), ready, br)
  BY DEF Cycle, PrefetchCycle, Hands
<1> HIDE DEF in
<1> QED
  BY <1>1, <1>2, <1>3, <1>4

-----------------------------------------------------------------------------
(* The theorems about instructions. *)

\* An instruction is refused only for an error of its own words or of PCC, and
\* mtval names the first of its words that failed: the error of a word that was
\* fetched ahead never falls on the instruction before it.
THEOREM ErrorsAreOwn == Spec => []ErrorIsItsOwn
<1>1. Init => ErrorIsItsOwn
  BY DEF Init, Nothing, ErrorIsItsOwn
<1>2. IInv /\ ErrorIsItsOwn /\ [Next]_vars => ErrorIsItsOwn'
  <2> SUFFICES ASSUME IInv, ErrorIsItsOwn, [Next]_vars PROVE ErrorIsItsOwn'
    OBVIOUS
  <2>1. CASE Next
    BY <2>1, CycleHands, ErrorStep DEF Next
  <2>2. CASE UNCHANGED vars
    BY <2>2 DEF vars, ErrorIsItsOwn
  <2> QED
    BY <2>1, <2>2
<1> QED
  BY <1>1, <1>2, Invariance, PTL DEF Spec

\* Outside debug mode no instruction handed on without an error has a byte
\* outside PCC, the instruction that wraps around the address space included.
THEOREM FetchesAuthorised == Spec => []FetchAuthorised
<1>1. Init => FetchAuthorised
  BY DEF Init, Nothing, FetchAuthorised
<1>2. IInv /\ FetchAuthorised /\ [Next]_vars => FetchAuthorised'
  <2> SUFFICES ASSUME IInv, FetchAuthorised, [Next]_vars PROVE FetchAuthorised'
    OBVIOUS
  <2>1. CASE Next
    BY <2>1, CycleHands, AuthorisedStep DEF Next
  <2>2. CASE UNCHANGED vars
    BY <2>2 DEF vars, FetchAuthorised
  <2> QED
    BY <2>1, <2>2
<1> QED
  BY <1>1, <1>2, Invariance, PTL DEF Spec

\* The check of a hardened core raises no alert on its own, as long as debug
\* mode runs within the bounds of PCC.
THEOREM NoFalseAlerts == Spec /\ []DebugInBounds => []NoFalseAlert
<1>1. Init => NoFalseAlert
  BY DEF Init, NoFalseAlert, pc_mismatch_alert
<1>2. IInv /\ DebugInBounds /\ NoFalseAlert /\ [Next]_vars => NoFalseAlert'
  <2> SUFFICES ASSUME IInv, DebugInBounds, NoFalseAlert, [Next]_vars PROVE NoFalseAlert'
    OBVIOUS
  <2>1. CASE Next
    BY <2>1, CycleHands, AlertStep DEF Next
  <2>2. CASE UNCHANGED vars
    BY <2>2 DEF vars, prefetchVars, NoFalseAlert, pc_mismatch_alert
  <2> QED
    BY <2>1, <2>2
<1> QED
  BY <1>1, <1>2, Invariance, PTL DEF Spec

\* Every instruction that reaches ID without an error is the next one of the
\* program, in one piece, from words asked for after the last branch, as long
\* as debug mode runs within the bounds of PCC.
THEOREM InstructionsIntact == Spec /\ []DebugInBounds => []InstructionIntact
<1>1. Init => Follows /\ InstructionIntact
  BY DEF Init, PrefetchInit, Nothing, Follows, InstructionIntact
<1>2. IInv /\ Stream /\ DebugInBounds /\ Follows /\ InstructionIntact /\ [Next]_vars
        => Follows' /\ InstructionIntact'
  <2> SUFFICES ASSUME IInv, Stream, DebugInBounds, Follows, InstructionIntact, [Next]_vars
               PROVE  Follows' /\ InstructionIntact'
    OBVIOUS
  <2>1. CASE Next
    <3>1. PICK req \in BOOLEAN, gnt \in BOOLEAN, rvalid \in BOOLEAN, err \in BOOLEAN, ready \in BOOLEAN,
               br \in Branches \cup {NoBr} : Cycle(req, br, gnt, rvalid, err, ready)
      BY <2>1 DEF Next
    <3>2. PICK in \in Fetched :
              /\ Hands(in, fifo_valid(rvalid), ready, br)
              /\ rvalid => bus # <<>> /\ in.word = bus[1].word /\ in.old = bus[1].old
      BY <3>1, CycleHands
    <3>3. out_valid(in, fifo_valid(rvalid), cheri_force_uc) =>
              /\ first(in).word = Here /\ ~first(in).old
              /\ unaligned /\ ~unaligned_is_compressed(in, cheri_force_uc) =>
                    fifo # <<>> /\ second(in).word = NextWord(Here) /\ ~second(in).old
      BY <3>2, Handed
    <3>4. Follows'
      BY <3>2, <3>3, FollowsStep
    <3>5. InstructionIntact'
      BY <3>2, <3>3, IntactStep
    <3> QED
      BY <3>4, <3>5
  <2>2. CASE UNCHANGED vars
    BY <2>2 DEF vars, prefetchVars, Follows, InstructionIntact
  <2> QED
    BY <2>1, <2>2
<1> QED
  BY <1>1, <1>2, Invariance, StreamInvariance, PTL DEF Spec
=============================================================================
