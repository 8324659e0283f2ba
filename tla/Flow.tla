-------------------------------- MODULE Flow --------------------------------
(***************************************************************************)
(* app/: the path from intent to signature in the stake panel.  A click, a *)
(* promise that settles and a change of cluster or wallet are one action   *)
(* each: between two of them React has rendered what the last one set.     *)
(* The chain is external: a counter of positions per cluster, which is a   *)
(* seed of the account a stake creates.                                    *)
(*                                                                         *)
(* approved and sent are history variables: the preview whose Sign and     *)
(* send was pressed, until the wallet is given something for it, and what  *)
(* the wallet was given last.                                              *)
(***************************************************************************)
EXTENDS Integers

CONSTANTS
    Clusters,
    Wallets, NoWallet,
    Inputs,                 \* amounts and tiers the form may hold
    None,                   \* null: nothing prepared, nothing pending, nothing approved
    MaxCount,               \* bound on positions a cluster has
    MaxSends                \* bound on what the wallet is given

VARIABLES
    cluster, wallet,        \* what the pickers at the top of the page say
    context,                \* usePoolContext: what was read of the pool
    input,
    state,                  \* FlowState, with the outcome a preview shows
    prepared,               \* the ref
    call,                   \* the promise preview or confirm is awaiting
    position_count,         \* cluster -> the pool's counter there
    approved, sent

\* What buildStake may build, and the promises that may be awaited for it.
Transaction == [input : Inputs, feePayer : Wallets, seed : Nat]
Simulation == [step : {"simulate"}, tx : Transaction, cluster : Clusters]
Sending ==
    [step : {"blockhash", "wallet", "land", "landed", "refused"}, tx : Transaction,
     cluster : Clusters, signer : Wallets]
Approval == [tx : Transaction, cluster : Clusters]

ASSUME FlowAssumption ==
    /\ NoWallet \notin Wallets
    /\ None \notin Transaction \cup Simulation \cup Sending \cup Approval

page_vars == <<cluster, wallet, context, input>>
vars == <<page_vars, state, prepared, call, position_count, approved, sent>>

Idle == [kind |-> "idle"]
Failed == [kind |-> "failed"]
Loading == [kind |-> "loading"]

busy == state.kind \in {"simulating", "signing"}

\* The early returns of the panel: without these it shows no control at all.
Rendered == wallet # NoWallet /\ context.kind = "ok"

Init ==
    /\ cluster \in Clusters /\ wallet = NoWallet
    /\ context = Loading /\ input \in Inputs
    /\ state = Idle /\ prepared = None /\ call = None
    /\ position_count = [c \in Clusters |-> 0]
    /\ approved = None /\ sent = [count |-> 0]

-----------------------------------------------------------------------------
(* The page around the flow.  Neither picker looks at busy.                 *)

setCluster(c) ==
    /\ cluster' = c /\ c # cluster
    /\ context' = Loading
    /\ UNCHANGED <<wallet, input, state, prepared, call, position_count, approved, sent>>

setWallet(w) ==
    /\ wallet' = w /\ w # wallet
    /\ context' = Loading
    /\ UNCHANGED <<cluster, input, state, prepared, call, position_count, approved, sent>>

\* Only the latest read is listened to (live).
loaded ==
    /\ context = Loading
    /\ \/ context' = [kind |-> "ok", seed |-> position_count[cluster]]
       \/ context' = [kind |-> "error"]
    /\ UNCHANGED <<cluster, wallet, input, state, prepared, call,
                   position_count, approved, sent>>

edit(i) ==
    /\ Rendered /\ ~busy
    /\ input' = i /\ i # input
    /\ UNCHANGED <<cluster, wallet, context, state, prepared, call,
                   position_count, approved, sent>>

-----------------------------------------------------------------------------
(* Preview. *)

buildStake == [input |-> input, feePayer |-> wallet, seed |-> context.seed]

preview ==
    /\ Rendered /\ ~busy
    /\ state' = [kind |-> "simulating"]
    /\ prepared' = buildStake
    /\ call' = [step |-> "simulate", tx |-> buildStake, cluster |-> cluster]
    /\ UNCHANGED <<page_vars, position_count, approved, sent>>

\* The builder throws.
preview_unbuilt ==
    /\ Rendered /\ ~busy
    /\ state' = Failed
    /\ prepared' = None
    /\ UNCHANGED <<page_vars, call, position_count, approved, sent>>

Waiting(step) == call # None /\ call.step = step

\* The program refuses a stake whose id is not the pool's counter.
Accepts(c, tx) == tx.seed = position_count[c]

simulate ==
    /\ Waiting("simulate")
    /\ state' = [kind |-> "previewed", tx |-> call.tx, cluster |-> call.cluster,
                 ok |-> Accepts(call.cluster, call.tx)]
    /\ call' = None
    /\ UNCHANGED <<page_vars, prepared, position_count, approved, sent>>

simulate_throws ==
    /\ Waiting("simulate")
    /\ state' = Failed
    /\ prepared' = None
    /\ call' = None
    /\ UNCHANGED <<page_vars, position_count, approved, sent>>

\* Mutant: Cancel is there while simulating, too.
reset_anytime ==
    /\ Rendered /\ state.kind # "idle"
    /\ state' = Idle
    /\ prepared' = None
    /\ UNCHANGED <<page_vars, call, position_count, approved, sent>>

\* Cancel, Dismiss and Done.
reset ==
    /\ Rendered /\ state.kind \in {"previewed", "failed", "sent"}
    /\ state' = Idle
    /\ prepared' = None
    /\ UNCHANGED <<page_vars, call, position_count, approved, sent>>

-----------------------------------------------------------------------------
(* Confirm. *)

\* Preview renders Sign and send for nothing else.
Confirmable == state.kind = "previewed" /\ state.ok

\* Mutant: the transaction is built again from what the form holds now.
pending_rebuilt == buildStake

pending == prepared

confirm ==
    /\ Rendered /\ Confirmable
    /\ IF prepared = None
       THEN /\ state' = Failed
            /\ UNCHANGED <<call, approved>>
       ELSE /\ state' = [kind |-> "signing"]
            /\ call' = [step |-> "blockhash", tx |-> pending, cluster |-> cluster,
                        signer |-> wallet]
            /\ approved' = [tx |-> state.tx, cluster |-> state.cluster]
    /\ UNCHANGED <<page_vars, prepared, position_count, sent>>

getLatestBlockhash ==
    /\ Waiting("blockhash")
    /\ call' = [call EXCEPT !.step = "wallet"]
    /\ UNCHANGED <<page_vars, state, prepared, position_count, approved, sent>>

\* The wallet that was connected at the click signs, for nobody but itself.
sendTransaction ==
    /\ Waiting("wallet")
    /\ call.signer = call.tx.feePayer
    /\ sent.count < MaxSends
    /\ sent' = [count |-> sent.count + 1, tx |-> call.tx, cluster |-> call.cluster]
    /\ approved' = None
    /\ call' = [call EXCEPT !.step = "land"]
    /\ UNCHANGED <<page_vars, state, prepared, position_count>>

\* External: the cluster executes it, or refuses it.
Land ==
    /\ Waiting("land")
    /\ IF Accepts(call.cluster, call.tx) /\ position_count[call.cluster] < MaxCount
       THEN /\ position_count' = [position_count EXCEPT ![call.cluster] = @ + 1]
            /\ call' = [call EXCEPT !.step = "landed"]
       ELSE /\ call' = [call EXCEPT !.step = "refused"]
            /\ UNCHANGED position_count
    /\ UNCHANGED <<page_vars, state, prepared, approved, sent>>

\* The finally block; onSettled is the panel's reload.
settle(result) ==
    /\ state' = result
    /\ prepared' = None
    /\ call' = None
    /\ approved' = None
    /\ context' = Loading
    /\ UNCHANGED <<cluster, wallet, input, position_count, sent>>

confirmTransaction ==
    \/ Waiting("landed") /\ settle([kind |-> "sent", tx |-> call.tx])
    \/ Waiting("refused") /\ settle(Failed)

\* No blockhash, the user declines, or no confirmation comes.
send_throws ==
    /\ call # None /\ call.step # "simulate"
    /\ settle(Failed)

\* External: somebody else stakes first.
StakedByOthers(c) ==
    /\ position_count[c] < MaxCount
    /\ position_count' = [position_count EXCEPT ![c] = @ + 1]
    /\ UNCHANGED <<page_vars, state, prepared, call, approved, sent>>

Next ==
    \/ \E c \in Clusters : setCluster(c) \/ StakedByOthers(c)
    \/ \E w \in Wallets \cup {NoWallet} : setWallet(w)
    \/ \E i \in Inputs : edit(i)
    \/ loaded
    \/ preview \/ preview_unbuilt \/ simulate \/ simulate_throws \/ reset
    \/ confirm \/ getLatestBlockhash \/ sendTransaction \/ Land
    \/ confirmTransaction \/ send_throws

Spec == Init /\ [][Next]_vars

-----------------------------------------------------------------------------
(* Properties. *)

\* flow.ts: "it can only send what was previewed".  What the wallet is given is the
\* transaction whose outcome was on screen, and succeeded, when Sign and send was
\* pressed, whatever was typed, connected or read anew since it was built; and one
\* press gives it to the wallet once.
SendsWhatWasShown ==
    [][sent' # sent => approved # None /\ sent'.tx = approved.tx]_vars

\* An answer finds the flow that asked for it, never one that was dismissed or
\* started over, and the controls are disabled only while an answer is due: no
\* failure leaves them so for ever.
AnswersFindTheirFlow == busy <=> call # None

\* page.tsx: "Every transaction is simulated and its result shown before a wallet is
\* asked to sign."  Refuted: a preview survives a change of cluster, and is sent to a
\* cluster it was never simulated on.
SentWhereSimulated ==
    [][sent' # sent => sent'.cluster = approved.cluster]_vars
=============================================================================
