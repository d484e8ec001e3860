------------------------------- MODULE Prefetch -------------------------------
(***************************************************************************)
(* The instruction prefetcher: ibex_prefetch_buffer.sv with the FIFO and   *)
(* instruction aligner of ibex_fetch_fifo.sv, without branch prediction    *)
(* (branch_mispredict_i = 0, as in every CHERIoT configuration).           *)
(*                                                                         *)
(* Addresses count halfwords.  What memory holds in a word is named by the *)
(* word's address; of an instruction only its length is kept: a halfword   *)
(* in Compressed does not end in binary 11, so an instruction that starts  *)
(* there is that halfword alone.  A fetched word also records, for the     *)
(* properties, whether it was asked for before the last branch (old).      *)
(*                                                                         *)
(* The thermometer-coded valid bits of the FIFO and of the outstanding     *)
(* requests are lengths of sequences: fifo holds the entries from index 0  *)
(* up, outstanding one discard bit (branch_discard_q) per request made.    *)
(***************************************************************************)
EXTENDS Integers, Sequences

CONSTANTS
    HalfCount,        \* halfwords in the address space
    Compressed        \* halfword addresses whose contents read as a 16-bit instruction

ASSUME PrefetchAssumption ==
    /\ HalfCount \in Nat \ {0}
    /\ HalfCount % 2 = 0
    /\ Compressed \subseteq 0 .. HalfCount - 1

VARIABLES
    fifo,             \* entries of ibex_fetch_fifo
    instr_addr_q,     \* address of the instruction at its head
    valid_req_q,      \* a request waits for its grant
    discard_req_q,    \* and its word is no longer wanted
    outstanding,      \* rdata_outstanding_q and branch_discard_q
    stored_addr_q,    \* the address of the request that waits
    fetch_addr_q      \* the address to fetch next

prefetchVars == <<fifo, instr_addr_q, valid_req_q, discard_req_q, outstanding,
                  stored_addr_q, fetch_addr_q>>

NUM_REQS == 2
DEPTH == NUM_REQS + 1

Halves == 0 .. HalfCount - 1
NoWord == -1                       \* what the data wires show when nobody drives them
Words == {h \div 2 : h \in Halves}
Fetched == [word : Words \cup {NoWord}, err : BOOLEAN, old : BOOLEAN]

NoBranch == -1                     \* branch_i = 0
branch(br) == br # NoBranch

Plus(a, n) == (a + n) % HalfCount
WordOf(a) == a \div 2

PrefetchTypeOK ==
    /\ fifo \in Seq(Fetched) /\ Len(fifo) <= DEPTH
    /\ outstanding \in Seq(BOOLEAN) /\ Len(outstanding) <= NUM_REQS
    /\ {instr_addr_q, stored_addr_q, fetch_addr_q} \subseteq Halves
    /\ valid_req_q \in BOOLEAN /\ discard_req_q \in BOOLEAN

\* Coming out of reset with the branch to the boot address.
PrefetchInit(boot) ==
    /\ fifo = <<>> /\ outstanding = <<>>
    /\ valid_req_q = FALSE /\ discard_req_q = FALSE
    /\ instr_addr_q = boot /\ stored_addr_q = boot /\ fetch_addr_q = boot

-----------------------------------------------------------------------------
(* Requests. *)

\* A slip: space that outstanding requests will fill is counted as free.
ReadyIfNotFull == Len(fifo) < DEPTH

\* Some upper entry is neither filled nor reserved for an outstanding request.
fifo_ready ==
    \E i \in 1 .. NUM_REQS : Len(fifo) <= i /\ Len(outstanding) <= NUM_REQS - i

valid_new_req(req, br) ==
    req /\ (fifo_ready \/ branch(br)) /\ Len(outstanding) < NUM_REQS

valid_req(req, br) == valid_req_q \/ valid_new_req(req, br)

\* A slip: a branch takes over the request that waits.
AddrFollowsBranch(br) ==
    IF branch(br) THEN br ELSE IF valid_req_q THEN stored_addr_q ELSE fetch_addr_q

instr_addr(br) ==
    IF valid_req_q THEN stored_addr_q ELSE IF branch(br) THEN br ELSE fetch_addr_q

\* A slip: the branch is forgotten when the grant does not come with it.
DiscardOnBranchOnly(br) == valid_req_q /\ branch(br)

\* A slip: a request made by the branch itself is discarded with the others.
DiscardOwnRequest(br) == branch(br) \/ discard_req_q

discard_req_d(br) == valid_req_q /\ (branch(br) \/ discard_req_q)

fifo_valid(rvalid) == rvalid /\ ~outstanding[1]

RequestUpdate(req, br, gnt, rvalid) ==
    LET fresh   == valid_new_req(req, br) /\ ~valid_req_q
        granted == valid_req(req, br) /\ gnt
        marked  == [i \in DOMAIN outstanding |-> outstanding[i] \/ branch(br)]
        grown   == IF granted /\ Len(marked) < NUM_REQS
                   THEN Append(marked, discard_req_d(br)) ELSE marked
        from    == IF branch(br) THEN br ELSE 2 * WordOf(fetch_addr_q)
    IN  /\ valid_req_q' = (valid_req(req, br) /\ ~gnt)
        /\ discard_req_q' = discard_req_d(br)
        /\ stored_addr_q' = IF fresh /\ ~gnt THEN instr_addr(br) ELSE stored_addr_q
        /\ fetch_addr_q' = IF fresh THEN Plus(from, 2)
                           ELSE IF branch(br) THEN from ELSE fetch_addr_q
        /\ outstanding' = IF rvalid THEN Tail(grown) ELSE grown

-----------------------------------------------------------------------------
(* The instruction at the head, from the FIFO and the data wires (in).       *)

unaligned == instr_addr_q % 2 = 1
first(in) == IF fifo # <<>> THEN fifo[1] ELSE in
second(in) == IF Len(fifo) >= 2 THEN fifo[2] ELSE in

unaligned_is_compressed(in, force_uc) ==
    force_uc \/ (2 * first(in).word + 1 \in Compressed /\ ~first(in).err)
aligned_is_compressed(in) == 2 * first(in).word \in Compressed /\ ~first(in).err

\* A slip: an instruction in two words is ready with the first.
ValidOnFirstWord(in, inValid, force_uc) == fifo # <<>> \/ inValid

out_valid(in, inValid, force_uc) ==
    LET words == Len(fifo) + (IF inValid THEN 1 ELSE 0)
    IN  IF unaligned /\ ~unaligned_is_compressed(in, force_uc) THEN words >= 2 ELSE words >= 1

\* A slip: the next word's error is always the instruction's own.
ErrOfBothWords(in, force_uc) ==
    first(in).err \/ (unaligned /\ fifo # <<>> /\ second(in).err)

out_err(in, force_uc) ==
    \/ first(in).err
    \/ unaligned /\ fifo # <<>> /\ second(in).err /\ ~unaligned_is_compressed(in, force_uc)

out_err_plus2(in) == unaligned /\ fifo # <<>> /\ second(in).err /\ ~first(in).err

\* The two halves of out_rdata_o, each with the word it was taken from.
Half(w, i) == [half |-> 2 * w.word + i, err |-> w.err, old |-> w.old]
out_lo(in) == IF unaligned THEN Half(first(in), 1) ELSE Half(first(in), 0)
out_hi(in) == IF unaligned THEN Half(second(in), 0) ELSE Half(first(in), 1)

addr_incr_two(in, force_uc) ==
    IF unaligned THEN unaligned_is_compressed(in, force_uc) ELSE aligned_is_compressed(in)

FifoUpdate(br, in, inValid, ready, force_uc) ==
    LET taken  == ready /\ out_valid(in, inValid, force_uc)
        pop    == taken /\ (~aligned_is_compressed(in) \/ unaligned)
        pushed == IF inValid /\ Len(fifo) < DEPTH THEN Append(fifo, in) ELSE fifo
    IN  /\ fifo' = IF branch(br) THEN <<>> ELSE IF pop THEN Tail(pushed) ELSE pushed
        /\ instr_addr_q' =
              IF branch(br) THEN br
              ELSE IF taken
              THEN Plus(instr_addr_q, IF addr_incr_two(in, force_uc) THEN 1 ELSE 2)
              ELSE instr_addr_q

PrefetchCycle(req, br, gnt, rvalid, in, ready, force_uc) ==
    /\ RequestUpdate(req, br, gnt, rvalid)
    /\ FifoUpdate(br, in, fifo_valid(rvalid), ready, force_uc)
=============================================================================
