------------------------------- MODULE Ingest -------------------------------
(***************************************************************************)
(* indexer: helix-index polls a cluster through RpcLogSource, folds what   *)
(* it reads with Ingestor and commits what is final with Store.            *)
(*                                                                         *)
(* The cluster moves between any two requests: it adds blocks, finalises,  *)
(* takes back what it has not finalised, and forgets what is old.  A       *)
(* request is one step, and so is what the process does in memory between  *)
(* two requests.                                                           *)
(*                                                                         *)
(* A projection is the sequence of transactions folded into it.            *)
(***************************************************************************)
EXTENDS Cluster

CONSTANT MaxBlock       \* bound on the transactions of a block

ASSUME IngestAssumption == MaxBlock \in Nat

VARIABLES
    pruned,         \* how many of the oldest transactions the cluster's index has forgotten
    settled,        \* what the last poll promoted
    ingestor,       \* the memory of the process
    store           \* Postgres

cluster == <<ledger, final, pruned, rollbacks>>
locals == <<next, finalized_slot, merged, settled>>
vars == <<ledger, final, pruned, rollbacks, pc, next, finalized_slot, merged, settled,
          ingestor, store, crashes>>

InSlots(txs, lo, hi) == {tx \in ToSet(txs) : lo <= tx.slot /\ tx.slot <= hi}

-----------------------------------------------------------------------------
(* Projections, the ingestor and the store. *)

NoProjection == [folded |-> <<>>, applied |-> {}]
NoCursor == [slot |-> 0, signature |-> NoSignature]

apply_transaction(projection, tx) ==
    IF tx.signature \in projection.applied THEN projection
    ELSE [folded  |-> Append(projection.folded, tx),
          applied |-> projection.applied \cup {tx.signature}]

\* Applied(projection, txs)[n]: after the first n of them.
Applied(projection, txs) ==
    LET after[n \in 0 .. Len(txs)] ==
            IF n = 0 THEN projection ELSE apply_transaction(after[n-1], txs[n])
    IN  after

ApplyAll(projection, txs) == Applied(projection, txs)[Len(txs)]

restore(cursor, finalized) ==
    [finalized |-> finalized, head |-> finalized, pending |-> <<>>,
     cursor |-> cursor, replay |-> <<>>]

\* Mutant: nothing is loaded as applied.
read_applied_nothing(slot) == {}

\* Only what can be served again is loaded as applied.
read_applied(slot) == {tx.signature : tx \in {e \in store.events : e.slot >= slot}}

\* Mutant: the cursor without the projection it describes (Ingestor::resume_at).
load_cursor_only == restore(store.cursor, NoProjection)

load ==
    restore(store.cursor,
            [folded |-> store.folded, applied |-> read_applied(store.cursor.slot)])

-----------------------------------------------------------------------------
(* fetch. *)

Listed == SubSeq(ledger, pruned + 1, Len(ledger))

signatures_after(address, min_slot) ==
    Select(Listed, {tx \in ToSet(Listed) : address \in Touches[tx.signature] /\ tx.slot >= min_slot})

\* Stable: inside a slot the order of the list.
BySlot == [slot \in 1 .. MaxSlot |-> {tx \in Transaction : tx.slot = slot}]

sort_by_slot(txs) == SortBy(txs, BySlot)

\* Everything up to and including the cursor's signature is dropped, if it is there.
after_cursor(txs) ==
    LET applied == SelectInSeq(txs, LAMBDA tx : tx.signature = ingestor.cursor.signature)
    IN  SubSeq(txs, applied + 1, Len(txs))

truncate(txs) == SubSeq(txs, 1, IF Len(txs) < Limit THEN Len(txs) ELSE Limit)

\* Mutant: cut off before what was applied is dropped.
window_cut_first == after_cursor(truncate(sort_by_slot(merged)))

window == truncate(after_cursor(sort_by_slot(merged)))

\* A transaction listed a moment ago may be gone, or have landed elsewhere.
LogsAvailable == SignaturesOf(window) \subseteq SignaturesOf(Listed)

logs_for(txs) == [i \in DOMAIN txs |-> Entry(txs[i].signature)]

Contradiction == \E tx \in ToSet(logs_for(window)) : tx.slot < ingestor.cursor.slot

-----------------------------------------------------------------------------
(* poll, once the batch is there. *)

names(txs) == [i \in DOMAIN txs |-> txs[i].signature]

\* Mutant: pending keeps what was taken back.
rebuild_keeping_pending(kept) ==
    [ingestor EXCEPT !.head = ApplyAll(ingestor.finalized, kept),
                     !.pending = @ \o names(kept), !.replay = kept]

\* What the source still agrees with is replayed over the finalised projection.
rebuild_head_from_finalized(kept) ==
    [ingestor EXCEPT !.head = ApplyAll(ingestor.finalized, kept),
                     !.pending = names(kept), !.replay = kept]

Absorbed(batch) ==
    LET agreed == Len(LongestCommonPrefix({ingestor.replay, batch}))
        base   == IF agreed < Len(ingestor.replay)
                  THEN rebuild_head_from_finalized(SubSeq(batch, 1, agreed))
                  ELSE ingestor
        fresh  == SubSeq(batch, agreed + 1, Len(batch))
    IN  [base EXCEPT !.head = ApplyAll(@, fresh), !.pending = @ \o names(fresh),
                     !.replay = @ \o fresh]

settling(txs) ==
    LET open == SelectInSeq(txs, LAMBDA tx : tx.slot > finalized_slot)
    IN  SubSeq(txs, 1, IF open = 0 THEN Len(txs) ELSE open - 1)

advance_finality(i, promoted) ==
    [i EXCEPT !.finalized = ApplyAll(@, promoted),
              !.cursor = IF promoted = <<>> THEN @ ELSE Last(promoted),
              !.replay = SubSeq(@, Len(promoted) + 1, Len(@)),
              !.pending = SubSeq(@, Len(promoted) + 1, Len(@))]

-----------------------------------------------------------------------------
(* The loop of helix-index. *)

ClearLocals == ClearRequest /\ settled' = <<>>

Init ==
    /\ ledger = <<>> /\ final = 0 /\ pruned = 0 /\ rollbacks = 0
    /\ pc = "down" /\ next = 1 /\ finalized_slot = 0 /\ merged = <<>> /\ settled = <<>>
    /\ ingestor = restore(NoCursor, NoProjection)
    /\ store = [cursor |-> NoCursor, folded |-> <<>>, events |-> {}]
    /\ crashes = 0

open ==
    /\ pc = "down"
    /\ pc' = "polling"
    /\ ingestor' = load
    /\ UNCHANGED <<cluster, locals, store, crashes>>

read_finality ==
    /\ pc = "polling"
    /\ pc' = "fetching"
    /\ finalized_slot' = final
    /\ UNCHANGED <<cluster, next, merged, settled, ingestor, store, crashes>>

\* Mutant: one address too many.
fetch_address_over ==
    /\ pc = "fetching"
    /\ next <= NumAddresses + 1
    /\ merged' = merged \o unlisted(signatures_after(next, ingestor.cursor.slot))
    /\ next' = next + 1
    /\ UNCHANGED <<cluster, pc, finalized_slot, settled, ingestor, store, crashes>>

fetch_address ==
    /\ pc = "fetching"
    /\ next <= NumAddresses
    /\ merged' = merged \o unlisted(signatures_after(next, ingestor.cursor.slot))
    /\ next' = next + 1
    /\ UNCHANGED <<cluster, pc, finalized_slot, settled, ingestor, store, crashes>>

poll ==
    /\ pc = "fetching"
    /\ next > NumAddresses
    /\ LogsAvailable
    /\ ~Contradiction
    /\ pc' = "committing"
    /\ \E absorbed \in {Absorbed(logs_for(window))} :
          LET promoted == settling(absorbed.replay)
          IN  /\ ingestor' = advance_finality(absorbed, promoted)
              /\ settled' = promoted
    /\ ClearRequest
    /\ UNCHANGED <<cluster, store, crashes>>

commit ==
    /\ pc = "committing"
    /\ pc' = "polling"
    /\ settled' = <<>>
    /\ store' = IF settled = <<>> THEN store
                ELSE [cursor |-> ingestor.cursor,
                      folded |-> ingestor.finalized.folded,
                      events |-> store.events \cup ToSet(settled)]
    /\ UNCHANGED <<cluster, next, finalized_slot, merged, ingestor, crashes>>

\* A source error or a contradiction ends the process.
fail ==
    /\ pc = "fetching"
    /\ next > NumAddresses
    /\ LogsAvailable => Contradiction
    /\ pc' = "down"
    /\ ClearLocals
    /\ ingestor' = restore(NoCursor, NoProjection)
    /\ UNCHANGED <<cluster, store, crashes>>

Crash ==
    /\ pc # "down"
    /\ crashes < MaxCrashes
    /\ crashes' = crashes + 1
    /\ pc' = "down"
    /\ ClearLocals
    /\ ingestor' = restore(NoCursor, NoProjection)
    /\ UNCHANGED <<cluster, store>>

-----------------------------------------------------------------------------
(* The cluster. *)

Land(block, slot) ==
    /\ Confirm(block, slot)
    /\ UNCHANGED <<pruned, pc, locals, ingestor, store, crashes>>

Rollback(kept) ==
    /\ TakeBack(kept)
    /\ UNCHANGED <<pruned, pc, locals, ingestor, store, crashes>>

Finalize(slot) ==
    /\ FinalizeUpTo(slot)
    /\ UNCHANGED <<pruned, pc, locals, ingestor, store, crashes>>

\* What the indexer has not stored yet is not forgotten: it would never see it.
Prune(n) ==
    /\ n > pruned
    /\ ToSet(SubSeq(ledger, 1, n)) \subseteq ToSet(store.folded)
    /\ pruned' = n
    /\ UNCHANGED <<ledger, final, rollbacks, pc, locals, ingestor, store, crashes>>

Blocks == {block \in UNION {[1 .. n -> Signatures] : n \in 1 .. MaxBlock} : IsInjective(block)}

Process == open \/ read_finality \/ fetch_address \/ poll \/ commit \/ fail

Next ==
    \/ Process
    \/ Crash
    \/ \E block \in Blocks, slot \in 1 .. MaxSlot : Land(block, slot)
    \/ \E kept \in 0 .. Len(ledger) - 1 : Rollback(kept)
    \/ \E slot \in 1 .. MaxSlot : Finalize(slot)
    \/ \E n \in DOMAIN ledger : Prune(n)

Spec == Init /\ [][Next]_vars

\* The loop runs, and whoever runs the indexer starts it again when it ends.
\* Exactly one disjunct of Process is enabled in every state and each changes pc
\* or next, as does a Crash, of which there are few: this is WF_vars(Process).
Progress == <<pc, next>>' # <<pc, next>>

FairSpec == Spec /\ []<><<Progress>>_vars

-----------------------------------------------------------------------------
(* Properties. *)

Projection == [folded : Seq(Transaction), applied : SUBSET Signatures]
Cursor == [slot : 0 .. MaxSlot, signature : Signatures \cup {NoSignature}]

TypeOK ==
    /\ ledger \in Seq(Transaction) /\ final \in 0 .. MaxSlot /\ pruned \in 0 .. Len(ledger)
    /\ pc \in {"down", "polling", "fetching", "committing"}
    /\ next \in 1 .. NumAddresses + 1 /\ finalized_slot \in 0 .. MaxSlot
    /\ merged \in Seq(Transaction) /\ settled \in Seq(Transaction)
    /\ ingestor \in [finalized : Projection, head : Projection, pending : Seq(Signatures),
                     cursor : Cursor, replay : Seq(Transaction)]
    /\ store \in [cursor : Cursor, folded : Seq(Transaction), events : SUBSET Transaction]
    /\ rollbacks \in 0 .. MaxRollbacks /\ crashes \in 0 .. MaxCrashes

\* What a cursor claims of the projection next to it: each transaction in it was
\* folded once, in the order of slots, and can no longer be taken back; and
\* nothing at or before the cursor that touched a program was left out.
Settled(folded, cursor) ==
    /\ ToSet(folded) \subseteq InSlots(ledger, 1, final)
    /\ \A i, j \in DOMAIN folded :
         i < j => folded[i].signature # folded[j].signature /\ folded[i].slot <= folded[j].slot
    /\ InSlots(ledger, 1, cursor.slot - 1) \subseteq ToSet(folded)
    /\ folded # <<>> => cursor \in ToSet(folded) /\ cursor.slot = Last(folded).slot

\* source.rs: "Everything at or below this slot has been ingested and finalised".
\* However polls, blocks, rollbacks, crashes and commits interleave, neither the
\* memory nor the database misses, repeats or invents a transaction.
FinalizedExactly ==
    /\ pc # "down" => Settled(ingestor.finalized.folded, ingestor.cursor)
    /\ Settled(store.folded, store.cursor)
    /\ store.events = ToSet(store.folded)

\* ingest.rs: head is finalized plus everything in pending, after any rollback.
\* What is pending may have been folded before, when a slot was served again.
HeadIsFinalizedPlusPending ==
    /\ ingestor.head.folded =
         ingestor.finalized.folded
           \o Select(ingestor.replay,
                     ToSet(ingestor.replay) \ ToSet(ingestor.finalized.folded))
    /\ ingestor.pending = names(ingestor.replay)

\* "no stored row is ever subject to a rollback": the database only ever extends,
\* across crashes and restarts.
StoreOnlyExtends ==
    [][/\ IsPrefix(store.folded, store'.folded)
       /\ store.cursor.slot <= store'.cursor.slot]_vars

\* A transaction that the cluster finalised is in the database some day, however
\* small the batch: a slot cut off by the limit is finished by later polls.
CatchesUp ==
    \A signature \in Signatures :
        (\E tx \in InSlots(ledger, 1, final) : tx.signature = signature)
            ~> (signature \in SignaturesOf(store.folded))
=============================================================================
