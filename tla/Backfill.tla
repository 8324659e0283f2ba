------------------------------ MODULE Backfill ------------------------------
(***************************************************************************)
(* indexer: Backfill walks from the tip toward the first transaction, one  *)
(* page of RpcLogSource::fetch_before at a time, and yields what is final. *)
(*                                                                         *)
(* A page is one request of the finalised slot and one per address; the    *)
(* cluster moves between any two of them.  Nothing persists the descent:   *)
(* a caller that ends, by a crash or by an error, starts at the tip again. *)
(* What it yielded are idempotent rows and stay.                           *)
(***************************************************************************)
EXTENDS Cluster

CONSTANTS
    Failed,         \* the transactions among Signatures that failed: recorded, and did nothing
    SlotContents,   \* what one slot can hold: sequences of signatures
    Page            \* of a request; 1000 unless with_page_size lowers it

ASSUME BackfillAssumption ==
    /\ Failed \subseteq Signatures
    /\ \A block \in SlotContents :
          block \in Seq(Signatures) /\ IsInjective(block) /\ block # <<>>
    /\ Page \in Nat \ {0}

VARIABLES
    descent,
    rows,           \* the transactions yielded so far
    owed            \* history: what was final when this descent began

backfill_vars == <<ledger, final, rollbacks, pc, next, finalized_slot, merged, descent, rows,
                   owed, crashes>>

\* A slot of None is written 0.
new_descent == [slot |-> 0, signature |-> NoSignature, complete |-> FALSE]

-----------------------------------------------------------------------------
(* fetch_before.  Everything here is newest first. *)

Newest(txs, n) == SubSeq(txs, 1, IF Len(txs) < n THEN Len(txs) ELSE n)

\* What is older than a signature; everything, if the cluster does not know it.
Before(signature) ==
    LET at == SelectInSeq(ledger, LAMBDA tx : tx.signature = signature)
    IN  Reverse(SubSeq(ledger, 1, IF at = 0 THEN Len(ledger) ELSE at - 1))

signatures_before(address, before) ==
    Newest(Select(Before(before), {tx \in Transaction : address \in Touches[tx.signature]}),
           IF Limit < Page THEN Limit ELSE Page)

\* Stable: inside a slot, the order of the addresses and then each one's own.
FromTheTip == [i \in 1 .. MaxSlot |-> {tx \in Transaction : tx.slot = MaxSlot + 1 - i}]

newest_first(txs) == SortBy(txs, FromTheTip)

page == Newest(newest_first(merged), Limit)

\* Mutant: the bound is taken before the truncation.
covered_untruncated == newest_first(merged)

\* The whole page, failures and all: what bounds the next one.
covered == page

Succeeded(txs) == {tx \in txs : tx.signature \notin Failed}

\* Mutant: the failures are yielded as well.
succeeded_or_not(txs) == ToSet(txs)

succeeded(txs) == Succeeded(ToSet(txs))

\* A transaction listed a moment ago may be gone, or have landed elsewhere.
PageAvailable == {tx.signature : tx \in succeeded(page)} \subseteq SignaturesOf(ledger)

logs_of(txs) == {Entry(tx.signature) : tx \in txs}

-----------------------------------------------------------------------------
(* step. *)

Finalized == {tx \in ToSet(ledger) : tx.slot <= final}

BackfillInit ==
    /\ ledger = <<>> /\ final = 0 /\ rollbacks = 0
    /\ pc = "down" /\ next = 1 /\ finalized_slot = 0 /\ merged = <<>>
    /\ descent = new_descent /\ rows = {} /\ owed = {}
    /\ crashes = 0

begin ==
    /\ pc = "down"
    /\ pc' = "stepping"
    /\ descent' = new_descent
    /\ owed' = Succeeded(Finalized)
    /\ UNCHANGED <<chain, request, rows, crashes>>

step_finality ==
    /\ pc = "stepping"
    /\ ~descent.complete
    /\ pc' = "fetching"
    /\ finalized_slot' = final
    /\ UNCHANGED <<chain, next, merged, descent, rows, owed, crashes>>

page_address ==
    /\ pc = "fetching"
    /\ next <= NumAddresses
    /\ merged' = merged \o unlisted(signatures_before(next, descent.signature))
    /\ next' = next + 1
    /\ UNCHANGED <<chain, pc, finalized_slot, descent, rows, owed, crashes>>

PageIsHere == pc = "fetching" /\ next > NumAddresses

\* The source ignored the bound, or serves a different ledger.
Refused ==
    /\ covered # <<>>
    /\ descent.slot # 0
    /\ covered[1].slot > descent.slot

reach_genesis ==
    /\ PageIsHere
    /\ covered = <<>>
    /\ pc' = "stepping"
    /\ descent' = [descent EXCEPT !.complete = TRUE]
    /\ ClearRequest
    /\ UNCHANGED <<chain, rows, owed, crashes>>

\* Mutant: the bound is that of what the page yields, if it yields anything.
Descended_by_yield ==
    LET yielded == SelectSeq(page, LAMBDA tx : tx.signature \notin Failed)
    IN  IF yielded = <<>> THEN descent
        ELSE [descent EXCEPT !.slot = Last(yielded).slot, !.signature = Last(yielded).signature]

Descended ==
    [descent EXCEPT !.slot = Last(covered).slot, !.signature = Last(covered).signature]

step ==
    /\ PageIsHere
    /\ covered # <<>>
    /\ PageAvailable
    /\ ~Refused
    /\ pc' = "stepping"
    /\ descent' = Descended
    /\ rows' = rows \cup {tx \in logs_of(succeeded(page)) : tx.slot <= finalized_slot}
    /\ ClearRequest
    /\ UNCHANGED <<chain, owed, crashes>>

Ends ==
    /\ pc' = "down"
    /\ descent' = new_descent
    /\ owed' = {}
    /\ ClearRequest
    /\ UNCHANGED <<chain, rows>>

\* An error of the source, or of step, ends the caller.
step_fails ==
    /\ PageIsHere
    /\ PageAvailable => Refused
    /\ Ends
    /\ UNCHANGED crashes

CallerCrash ==
    /\ pc # "down"
    /\ crashes < MaxCrashes
    /\ crashes' = crashes + 1
    /\ Ends

ClusterMoves ==
    /\ \/ \E block \in SlotContents, slot \in 1 .. MaxSlot : Confirm(block, slot)
       \/ \E kept \in 0 .. Len(ledger) - 1 : TakeBack(kept)
       \/ \E slot \in 1 .. MaxSlot : FinalizeUpTo(slot)
    /\ UNCHANGED <<pc, request, descent, rows, owed, crashes>>

Caller == begin \/ step_finality \/ page_address \/ reach_genesis \/ step \/ step_fails

BackfillNext == Caller \/ CallerCrash \/ ClusterMoves

BackfillSpec == BackfillInit /\ [][BackfillNext]_backfill_vars

\* The caller loops until complete, and whoever runs it starts it again when it ends.
BackfillFairSpec == BackfillSpec /\ WF_backfill_vars(Caller)

-----------------------------------------------------------------------------
(* Properties. *)

\* What a step yields "is exactly what a durable store may write" (ingest.rs:133):
\* it happened, and no fork can revoke it, although a descent starts in the range
\* a fork can rewrite between two of its requests.
RowsAreHistory == rows \subseteq Succeeded(Finalized)

\* source.rs: "everything at or above `slot` has been read".  What was final when
\* the descent began has been yielded, or the descent still has it below its bound,
\* whatever lands, fails, is taken back or finalised between two requests: and a
\* descent that is complete has nothing below its bound.
NothingSteppedOver ==
    \A tx \in owed \ rows :
        /\ ~descent.complete
        /\ tx \in ToSet(Before(descent.signature))

\* "a caller looping until `complete` terminates" (ingest.rs, Backfill::step): a
\* page of nothing but failures is passed, a bound that a fork took away is refused
\* and the descent begun again, and the beginning of history is reached.
Completes == <>descent.complete
=============================================================================
