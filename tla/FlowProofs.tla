----------------------------- MODULE FlowProofs -----------------------------
(***************************************************************************)
(* Proofs about Flow: what the wallet is given was shown, for any inputs,  *)
(* wallets and clusters and any order of clicks, answers and changes of    *)
(* page around them.                                                       *)
(***************************************************************************)
EXTENDS Flow, TLAPS

-----------------------------------------------------------------------------
(* The inductive invariant. *)

\* Every value is of the kind its place is for.
Typed ==
    /\ cluster \in Clusters /\ wallet \in Wallets \cup {NoWallet} /\ input \in Inputs
    /\ context.kind = "ok" => context.seed \in Nat
    /\ position_count \in [Clusters -> Nat]
    /\ prepared \in Transaction \cup {None}
    /\ call \in Simulation \cup Sending \cup {None}
    /\ approved \in Approval \cup {None}

\* The one answer that is due is the one the state waits for.
OneAnswerDue ==
    /\ call = None => state.kind \in {"idle", "previewed", "failed", "sent"}
    /\ call \in Simulation => state.kind = "simulating"
    /\ call \in Sending => state.kind = "signing"

\* Until its answer comes and while its preview is shown, the ref holds what was built.
PreparedIsShown ==
    /\ call \in Simulation => prepared = call.tx
    /\ state.kind = "previewed" =>
         /\ prepared = state.tx
         /\ state.tx \in Transaction /\ state.cluster \in Clusters

\* What is on its way to the wallet is what was approved.
ApprovedIsSent ==
    call \in Sending /\ call.step \in {"blockhash", "wallet"}
        => approved \in Approval /\ approved.tx = call.tx

FInv == Typed /\ OneAnswerDue /\ PreparedIsShown /\ ApprovedIsSent

-----------------------------------------------------------------------------
LEMMA FInvInit == ASSUME Init PROVE FInv
<1> USE FlowAssumption DEF Init, Idle, Loading, Transaction, Simulation, Sending, Approval
<1>1. Typed
  BY DEF Typed
<1>2. OneAnswerDue
  BY DEF OneAnswerDue
<1>3. PreparedIsShown
  BY DEF PreparedIsShown
<1>4. ApprovedIsSent
  BY DEF ApprovedIsSent
<1> QED BY <1>1, <1>2, <1>3, <1>4 DEF FInv

\* The page changes around a flow that keeps what it has.
LEMMA PageKeeps ==
    ASSUME FInv, UNCHANGED <<state, prepared, call, approved>>, Typed'
    PROVE  FInv'
BY DEF FInv, OneAnswerDue, PreparedIsShown, ApprovedIsSent

\* A flow that has ended, whatever it ended with, awaits nothing.
LEMMA EndedKeeps ==
    ASSUME FInv, Typed', call' = None, state'.kind \in {"idle", "failed", "sent"}
    PROVE  FInv'
BY FlowAssumption DEF FInv, OneAnswerDue, PreparedIsShown, ApprovedIsSent

LEMMA BuiltIsTransaction ==
    ASSUME Typed, Rendered
    PROVE  buildStake \in Transaction
BY DEF Typed, Rendered, buildStake, Transaction

LEMMA FInvKept == ASSUME FInv, [Next]_vars PROVE FInv'
<1> USE DEF FInv
<1>1. CASE \/ \E c \in Clusters : setCluster(c) \/ StakedByOthers(c)
           \/ \E w \in Wallets \cup {NoWallet} : setWallet(w)
           \/ \E i \in Inputs : edit(i)
           \/ loaded
           \/ UNCHANGED vars
  <2>1. UNCHANGED <<state, prepared, call, approved>>
    BY <1>1 DEF setCluster, StakedByOthers, setWallet, edit, loaded, vars
  <2>2. Typed'
    <3>1. CASE \E c \in Clusters : setCluster(c)
      BY <3>1 DEF setCluster, Typed, Loading
    <3>2. CASE \E c \in Clusters : StakedByOthers(c)
      BY <3>2 DEF StakedByOthers, Typed, page_vars
    <3>3. CASE \E w \in Wallets \cup {NoWallet} : setWallet(w)
      BY <3>3 DEF setWallet, Typed, Loading
    <3>4. CASE \E i \in Inputs : edit(i)
      BY <3>4 DEF edit, Typed
    <3>5. CASE loaded
      BY <3>5 DEF loaded, Typed
    <3>6. CASE UNCHANGED vars
      BY <3>6 DEF vars, page_vars, Typed
    <3> QED BY <1>1, <3>1, <3>2, <3>3, <3>4, <3>5, <3>6
  <2> QED BY <2>1, <2>2, PageKeeps
<1>2. CASE preview
  <2>1. buildStake \in Transaction /\ call' \in Simulation
    BY <1>2, BuiltIsTransaction DEF preview, Simulation, Typed
  <2>2. Typed'
    BY <1>2, <2>1 DEF preview, Typed, page_vars
  <2> QED BY <1>2, <2>1, <2>2, FlowAssumption
          DEF preview, OneAnswerDue, PreparedIsShown, ApprovedIsSent, Simulation, Sending
<1>3. CASE preview_unbuilt \/ reset
  <2>1. Typed'
    BY <1>3 DEF preview_unbuilt, reset, Typed, page_vars
  <2>2. call = None
    BY <1>3 DEF preview_unbuilt, reset, OneAnswerDue, busy, Typed
  <2> QED BY <1>3, <2>1, <2>2, EndedKeeps DEF preview_unbuilt, reset, Failed, Idle
<1>4. CASE simulate
  <2>1. call \in Simulation
    BY <1>4 DEF simulate, Waiting, Typed, Sending
  <2>2. Typed'
    BY <1>4 DEF simulate, Typed, page_vars
  <2> QED BY <1>4, <2>1, <2>2, FlowAssumption
          DEF simulate, OneAnswerDue, PreparedIsShown, ApprovedIsSent, Simulation
<1>5. CASE simulate_throws
  <2>1. Typed'
    BY <1>5 DEF simulate_throws, Typed, page_vars
  <2> QED BY <1>5, <2>1, EndedKeeps DEF simulate_throws, Failed
<1>6. CASE confirm
  <2>1. call = None /\ state.kind = "previewed" /\ prepared \in Transaction
    BY <1>6 DEF confirm, Confirmable, OneAnswerDue, PreparedIsShown, Typed
  <2>2. call' = [step |-> "blockhash", tx |-> prepared, cluster |-> cluster, signer |-> wallet]
        /\ approved' = [tx |-> state.tx, cluster |-> state.cluster]
        /\ state' = [kind |-> "signing"]
    BY <1>6, <2>1, FlowAssumption DEF confirm, pending
  <2>3. call' \in Sending
    BY <1>6, <2>1, <2>2 DEF confirm, Rendered, Sending, Typed
  <2>4. approved' \in Approval /\ approved'.tx = call'.tx
    BY <2>1, <2>2 DEF PreparedIsShown, Approval
  <2>5. Typed'
    BY <1>6, <2>3, <2>4 DEF confirm, Typed, page_vars
  <2> QED BY <2>2, <2>3, <2>4, <2>5, FlowAssumption
          DEF OneAnswerDue, PreparedIsShown, ApprovedIsSent, Sending, Simulation
<1>7. CASE getLatestBlockhash \/ sendTransaction \/ Land
  <2>1. call \in Sending
    BY <1>7 DEF getLatestBlockhash, sendTransaction, Land, Waiting, Typed, Simulation
  <2>2. call' \in Sending
    BY <1>7, <2>1 DEF getLatestBlockhash, sendTransaction, Land, Sending
  <2>3. Typed'
    BY <1>7, <2>2 DEF getLatestBlockhash, sendTransaction, Land, Typed, page_vars
  <2>4. state' = state /\ state.kind = "signing"
    BY <1>7, <2>1 DEF getLatestBlockhash, sendTransaction, Land, OneAnswerDue
  <2>5. ApprovedIsSent'
    BY <1>7, <2>1 DEF getLatestBlockhash, sendTransaction, Land, ApprovedIsSent, Waiting, Sending
  <2> QED BY <2>2, <2>3, <2>4, <2>5, FlowAssumption
          DEF OneAnswerDue, PreparedIsShown, Sending, Simulation
<1>8. CASE confirmTransaction \/ send_throws
  <2>1. call' = None /\ state'.kind \in {"failed", "sent"}
    BY <1>8 DEF confirmTransaction, send_throws, settle, Failed
  <2>2. Typed'
    BY <1>8 DEF confirmTransaction, send_throws, settle, Typed, Loading
  <2> QED BY <2>1, <2>2, EndedKeeps
<1> QED BY <1>1, <1>2, <1>3, <1>4, <1>5, <1>6, <1>7, <1>8 DEF Next

LEMMA FInvAlways == Spec => []FInv
<1> QED BY FInvInit, FInvKept, PTL DEF Spec

\* For any inputs, wallets and clusters: an answer is awaited exactly while the
\* controls are disabled.
THEOREM AnswersAlwaysFindTheirFlow == Spec => []AnswersFindTheirFlow
<1>1. FInv => AnswersFindTheirFlow
  BY FlowAssumption DEF FInv, Typed, OneAnswerDue, AnswersFindTheirFlow, busy
<1> QED BY <1>1, FInvAlways, PTL

\* For any inputs, wallets and clusters: the wallet is only given the transaction
\* whose preview was on screen when Sign and send was pressed.
THEOREM AlwaysSendsWhatWasShown == Spec => SendsWhatWasShown
<1>1. FInv /\ [Next]_vars => [sent' # sent => approved # None /\ sent'.tx = approved.tx]_vars
  <2> SUFFICES ASSUME FInv, Next, sent' # sent
               PROVE  approved # None /\ sent'.tx = approved.tx
    OBVIOUS
  <2>1. sendTransaction
    BY DEF Next, setCluster, StakedByOthers, setWallet, edit, loaded, preview, preview_unbuilt,
       simulate, simulate_throws, reset, confirm, getLatestBlockhash, Land, confirmTransaction,
       send_throws, settle
  <2>2. call \in Sending
    BY <2>1 DEF FInv, Typed, sendTransaction, Waiting, Simulation
  <2> QED BY <2>1, <2>2, FlowAssumption DEF FInv, ApprovedIsSent, sendTransaction, Waiting
<1> QED BY <1>1, FInvAlways, PTL DEF Spec, SendsWhatWasShown
=============================================================================
