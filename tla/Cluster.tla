------------------------------- MODULE Cluster -------------------------------
(***************************************************************************)
(* What RpcLogSource reads from (external): a cluster that confirms blocks *)
(* of transactions, takes back what it has not finalised, and finalises;   *)
(* and the locals of a reader that asks it one request at a time.  Ingest  *)
(* and Backfill are two such readers.                                      *)
(***************************************************************************)
EXTENDS Integers, Selections

CONSTANTS
    Signatures,
    NoSignature,    \* None, where an Option<String> would hold one
    NumAddresses,   \* the programs followed, numbered in the order of Program::ALL
    Touches,        \* signature -> the addresses it is recorded under
    Limit,          \* of a batch or a page
    MaxSlot, MaxRollbacks, MaxCrashes       \* bounds

ASSUME ClusterAssumption ==
    /\ NoSignature \notin Signatures
    /\ NumAddresses \in Nat \ {0}
    /\ Touches \in [Signatures -> (SUBSET (1 .. NumAddresses)) \ {{}}]
    /\ Limit \in Nat \ {0}
    /\ MaxSlot \in Nat /\ MaxRollbacks \in Nat /\ MaxCrashes \in Nat

VARIABLES
    ledger,         \* confirmed transactions, in order
    final,          \* the finalised slot
    rollbacks,
    pc,             \* the reader: where in its loop
    next,           \* the address it asks for next
    finalized_slot, merged,     \* what it was answered
    crashes

chain == <<ledger, final, rollbacks>>
request == <<next, finalized_slot, merged>>

Transaction == [signature : Signatures, slot : 1 .. MaxSlot]
SignaturesOf(txs) == {txs[i].signature : i \in DOMAIN txs}

\* What the ledger says of a signature.
Entry(signature) == CHOOSE tx \in ToSet(ledger) : tx.signature = signature

\* An address's answer adds what no earlier address listed.
unlisted(txs) == Select(txs, {tx \in ToSet(txs) : tx.signature \notin SignaturesOf(merged)})

ClearRequest == next' = 1 /\ finalized_slot' = 0 /\ merged' = <<>>

-----------------------------------------------------------------------------
LastSlot == IF ledger = <<>> THEN 0 ELSE Last(ledger).slot

Confirm(block, slot) ==
    /\ slot > LastSlot /\ slot > final
    /\ ToSet(block) \cap SignaturesOf(ledger) = {}
    /\ ledger' = ledger \o [i \in DOMAIN block |-> [signature |-> block[i], slot |-> slot]]
    /\ UNCHANGED <<final, rollbacks>>

\* Whole slots are taken back, and none that is final.
TakeBack(kept) ==
    /\ rollbacks < MaxRollbacks
    /\ final < ledger[kept + 1].slot
    /\ kept > 0 => ledger[kept].slot < ledger[kept + 1].slot
    /\ rollbacks' = rollbacks + 1
    /\ ledger' = SubSeq(ledger, 1, kept)
    /\ UNCHANGED final

FinalizeUpTo(slot) ==
    /\ slot > final
    /\ final' = slot
    /\ UNCHANGED <<ledger, rollbacks>>
=============================================================================
