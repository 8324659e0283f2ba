--------------------------- MODULE TreasuryProofs ---------------------------
(***************************************************************************)
(* Safety of Treasury for every value of its constants, and that it        *)
(* implements Escrow.                                                      *)
(***************************************************************************)
EXTENDS Treasury, FiniteSumLemmas, TLAPS

\* The schedule of a stream, whatever moment it is evaluated at.
Curve(s, at) ==
    IF at < s.cliff_ts THEN 0
    ELSE IF at >= s.end_ts THEN s.total_amount
    ELSE (s.total_amount * (at - s.start_ts)) \div (s.end_ts - s.start_ts)

\* The schedule is one create_stream accepts, and what was paid had vested.
StreamInv(id) ==
    /\ Exists(id) =>
         /\ streams[id].start_ts <= streams[id].cliff_ts
         /\ streams[id].cliff_ts <= streams[id].end_ts
         /\ streams[id].start_ts < streams[id].end_ts
         /\ streams[id].revoked => streams[id].revoked_at <= now
         /\ streams[id].claimed <= vested_at(streams[id], now)
    /\ ~Exists(id) => streams[id] = NoStream
    /\ id >= treasury.stream_count => ~Exists(id)

Spent(e) == SumTo(SpentInEpoch(e), Horizon + 1)

\* The counter covers what was really spent in its epoch, and no later epoch
\* has seen a spend.
BudgetInv ==
    \A e \in Times :
        /\ Spent(e) <= treasury.epoch_spend_cap
        /\ e = treasury.current_epoch => Spent(e) <= treasury.spent_this_epoch
        /\ Spent(e) > 0 =>
             /\ e <= treasury.current_epoch
             /\ treasury.current_epoch <= epoch_at(treasury.epoch_duration, now)

IInv ==
    /\ TypeOK
    /\ StreamsFunded
    /\ \A id \in StreamIds : StreamInv(id)
    /\ BudgetInv

-----------------------------------------------------------------------------
(* Arithmetic. *)

\* A fraction e/d of a total, with e at most d, is at most the total.
LEMMA ShareBound ==
    ASSUME NEW n \in Nat, NEW e \in Nat, NEW d \in Nat \ {0}, e <= d
    PROVE  (n * e) \div d \in Nat /\ (n * e) \div d <= n
<1>1. n * e \in Nat /\ n * d \in Nat /\ n * e <= n * d
  <2>1. PICK k \in Nat : d = e + k
    <3>1. d - e \in Nat /\ d = e + (d - e)
      OBVIOUS
    <3>. QED BY <3>1
  <2>2. n * (e + k) = n * e + n * k /\ n * k \in Nat /\ n * e \in Nat
    OBVIOUS
  <2>. QED BY <2>1, <2>2
<1>2. (n * d) \div d = n
  <2> DEFINE q == (n * d) \div d
  <2>1. q \in Nat /\ d * q <= n * d /\ n * d < d * (q + 1)
    BY <1>1
  <2>2. d * q = q * d /\ d * (q + 1) = (q + 1) * d
    BY <2>1
  <2> HIDE DEF q
  <2>3. ~ (q > n)
    <3>1. SUFFICES ASSUME q > n PROVE FALSE
      OBVIOUS
    <3>2. PICK k \in Nat : q = n + 1 + k
      <4>1. q - (n + 1) \in Nat /\ q = n + 1 + (q - (n + 1))
        BY <2>1, <3>1
      <4>. QED BY <4>1
    <3>3. (n + 1 + k) * d = n * d + d + k * d /\ k * d \in Nat
      OBVIOUS
    <3>. QED BY <1>1, <2>1, <2>2, <3>2, <3>3
  <2>4. ~ (q < n)
    <3>1. SUFFICES ASSUME q < n PROVE FALSE
      OBVIOUS
    <3>2. PICK k \in Nat : n = q + 1 + k
      <4>1. n - (q + 1) \in Nat /\ n = q + 1 + (n - (q + 1))
        BY <2>1, <3>1
      <4>. QED BY <4>1
    <3>3. (q + 1 + k) * d = (q + 1) * d + k * d /\ k * d \in Nat /\ (q + 1) * d \in Nat
      BY <2>1
    <3>. QED BY <1>1, <2>1, <2>2, <3>2, <3>3
  <2>. QED BY <2>1, <2>3, <2>4 DEF q
<1>3. (n * e) \div d <= (n * d) \div d /\ (n * e) \div d \in Nat
  BY <1>1, DivMono
<1>. QED BY <1>2, <1>3

-----------------------------------------------------------------------------
(* Vesting. *)

\* The schedule stays within its total and never runs backwards.
LEMMA CurveRises ==
    ASSUME NEW s \in VestingStream, NEW x \in Int, NEW y \in Int, x <= y,
           s.start_ts <= s.cliff_ts, s.cliff_ts <= s.end_ts, s.start_ts < s.end_ts
    PROVE  /\ Curve(s, x) \in Nat /\ Curve(s, y) \in Nat
           /\ Curve(s, x) <= s.total_amount
           /\ Curve(s, x) <= Curve(s, y)
<1> DEFINE n == s.total_amount
           d == s.end_ts - s.start_ts
           Part(at) == (n * (at - s.start_ts)) \div d
<1>1. /\ n \in Nat /\ d \in Nat \ {0}
      /\ s.start_ts \in Int /\ s.cliff_ts \in Int /\ s.end_ts \in Int
  BY DEF VestingStream
<1>2. ASSUME NEW at \in Int, at >= s.cliff_ts, at < s.end_ts
      PROVE  Part(at) \in Nat /\ Part(at) <= n
  <2> DEFINE e == at - s.start_ts
  <2>1. e \in Nat /\ e <= d
    BY <1>1, <1>2
  <2> HIDE DEF e, n, d
  <2>2. (n * e) \div d \in Nat /\ (n * e) \div d <= n
    BY <1>1, <2>1, ShareBound
  <2>. QED BY <2>2 DEF e
<1>3. ASSUME NEW a \in Int, NEW b \in Int, a <= b, a >= s.cliff_ts, b < s.end_ts
      PROVE  Part(a) <= Part(b)
  <2> DEFINE e == a - s.start_ts
             f == b - s.start_ts
  <2>1. e \in Nat /\ f \in Nat /\ e <= f
    BY <1>1, <1>3
  <2> HIDE DEF e, f, n, d
  <2>2. n * e \in Nat /\ n * f \in Nat /\ n * e <= n * f
    <3>1. PICK k \in Nat : f = e + k
      <4>1. f - e \in Nat /\ f = e + (f - e)
        BY <2>1
      <4>. QED BY <4>1
    <3>2. n * (e + k) = n * e + n * k /\ n * k \in Nat /\ n * e \in Nat
      BY <1>1, <2>1
    <3>. QED BY <3>1, <3>2
  <2>3. (n * e) \div d <= (n * f) \div d
    BY <1>1, <2>2, DivMono
  <2>. QED BY <2>3 DEF e, f
<1>4. \A at \in Int :
        Curve(s, at) = IF at < s.cliff_ts THEN 0 ELSE IF at >= s.end_ts THEN n ELSE Part(at)
  BY DEF Curve
<1> HIDE DEF n, d, Part
<1>5. \A at \in Int : Curve(s, at) \in Nat /\ Curve(s, at) <= n
  BY <1>1, <1>2, <1>4
<1>6. Curve(s, x) <= Curve(s, y)
  <2>1. CASE x < s.cliff_ts
    BY <1>4, <1>5, <2>1
  <2>2. CASE y >= s.end_ts
    <3>1. Curve(s, y) = n
      BY <1>1, <1>4, <2>2
    <3>. QED BY <1>5, <3>1
  <2>3. CASE x >= s.cliff_ts /\ y < s.end_ts
    <3>1. Curve(s, x) = Part(x) /\ Curve(s, y) = Part(y)
      BY <1>1, <1>4, <2>3
    <3>. QED BY <1>3, <2>3, <3>1
  <2>. QED BY <1>1, <2>1, <2>2, <2>3
<1>. QED BY <1>5, <1>6 DEF n

LEMMA VestedIsCurve ==
    ASSUME NEW s, NEW t
    PROVE  vested_at(s, t) = Curve(s, VestingTime(s, t))
  BY DEF vested_at, Curve

\* What has vested only grows as the clock does, and stays within the total.
LEMMA VestedRises ==
    ASSUME NEW s \in VestingStream, NEW t \in Nat, NEW u \in Nat, t <= u,
           s.start_ts <= s.cliff_ts, s.cliff_ts <= s.end_ts, s.start_ts < s.end_ts
    PROVE  /\ vested_at(s, t) \in Nat /\ vested_at(s, u) \in Nat
           /\ vested_at(s, u) <= s.total_amount
           /\ vested_at(s, t) <= vested_at(s, u)
<1>1. /\ VestingTime(s, t) \in Int /\ VestingTime(s, u) \in Int
      /\ VestingTime(s, t) <= VestingTime(s, u)
  BY DEF VestingTime, VestingStream
<1>2. /\ Curve(s, VestingTime(s, t)) \in Nat /\ Curve(s, VestingTime(s, u)) \in Nat
      /\ Curve(s, VestingTime(s, t)) <= Curve(s, VestingTime(s, u))
  BY <1>1, CurveRises
<1>3. Curve(s, VestingTime(s, u)) <= s.total_amount
  <2>1. VestingTime(s, u) <= VestingTime(s, u)
    BY <1>1
  <2>. QED BY <1>1, <2>1, CurveRises
<1>. QED BY <1>2, <1>3, VestedIsCurve

\* A stream is owed a natural amount, at least what could be claimed.
LEMMA OwedCovers ==
    ASSUME TypeOK, NEW id \in StreamIds, StreamInv(id)
    PROVE  /\ Owed(streams[id]) \in Nat
           /\ Exists(id) => claimable_at(streams[id], now) <= Owed(streams[id])
<1> DEFINE s == streams[id]
<1>1. s \in VestingStream /\ now \in Nat
  BY DEF TypeOK, Times
<1>2. s.total_amount \in Nat /\ s.claimed \in Nat /\ s.revoked \in BOOLEAN /\ s.revoked_at \in Nat
  BY <1>1 DEF VestingStream
<1>3. CASE ~Exists(id)
  <2>1. s = NoStream
    BY <1>3 DEF StreamInv
  <2>. QED BY <1>3, <2>1 DEF Owed, NoStream
<1>4. CASE Exists(id)
  <2>1. /\ s.start_ts <= s.cliff_ts /\ s.cliff_ts <= s.end_ts /\ s.start_ts < s.end_ts
        /\ s.claimed <= vested_at(s, now)
        /\ s.revoked => s.revoked_at <= now
    BY <1>4 DEF StreamInv
  <2>2. CASE s.revoked
    <3>1. vested_at(s, s.revoked_at) = vested_at(s, now)
      <4>1. VestingTime(s, now) = s.revoked_at /\ VestingTime(s, s.revoked_at) = s.revoked_at
        BY <1>1, <1>2, <2>1, <2>2 DEF VestingTime
      <4>. QED BY <4>1, VestedIsCurve
    <3>2. vested_at(s, now) \in Nat
      <4>1. now <= now
        BY <1>1
      <4>. QED BY <1>1, <2>1, <4>1, VestedRises
    <3>3. Owed(s) = vested_at(s, now) - s.claimed
      BY <2>2, <3>1 DEF Owed
    <3> HIDE DEF s
    <3>4. Owed(s) \in Nat
      BY <1>2, <2>1, <3>2, <3>3
    <3>. QED BY <3>3, <3>4 DEF claimable_at, s
  <2>3. CASE ~s.revoked
    <3>1. vested_at(s, now) \in Nat /\ vested_at(s, now) <= s.total_amount
      <4>1. now <= now
        BY <1>1
      <4>. QED BY <1>1, <2>1, <4>1, VestedRises
    <3>2. Owed(s) = s.total_amount - s.claimed
      BY <2>3 DEF Owed
    <3> HIDE DEF s
    <3>3. Owed(s) \in Nat /\ claimable_at(s, now) <= Owed(s)
      BY <1>2, <2>1, <3>1, <3>2 DEF claimable_at
    <3>. QED BY <3>3 DEF s
  <2>. QED BY <2>2, <2>3
<1>. QED BY <1>3, <1>4

-----------------------------------------------------------------------------
(* What a step that leaves a part alone keeps of it. *)

LEMMA TreasuryFields ==
    ASSUME TypeOK
    PROVE  /\ treasury.total_deposited \in Nat /\ treasury.total_spent \in Nat
           /\ treasury.committed_to_streams \in Nat /\ treasury.stream_count \in Nat
           /\ treasury.epoch_duration \in Nat \ {0} /\ treasury.epoch_spend_cap \in Nat
           /\ treasury.spent_this_epoch \in Nat /\ treasury.current_epoch \in Nat
           /\ now \in Nat /\ vault \in Nat
  BY DEF TypeOK, TreasuryAccount, Times

LEMMA StreamKept ==
    ASSUME TypeOK, NEW id \in StreamIds, StreamInv(id),
           streams'[id] = streams[id], now' \in Nat, now' >= now,
           treasury'.stream_count >= treasury.stream_count, treasury'.stream_count \in Nat
    PROVE  StreamInv(id)'
<1>1. /\ streams[id] \in VestingStream /\ now \in Nat /\ treasury.stream_count \in Nat
      /\ streams[id].claimed \in Nat /\ streams[id].revoked_at \in Nat /\ id \in Nat
  BY TreasuryFields DEF TypeOK, VestingStream, StreamIds
<1>2. Exists(id)' <=> Exists(id)
  BY DEF Exists
<1>3. ASSUME Exists(id)
      PROVE  streams[id].claimed <= vested_at(streams[id], now')
  <2>1. /\ streams[id].start_ts <= streams[id].cliff_ts
        /\ streams[id].cliff_ts <= streams[id].end_ts
        /\ streams[id].start_ts < streams[id].end_ts
        /\ streams[id].claimed <= vested_at(streams[id], now)
    BY <1>3 DEF StreamInv
  <2>2. /\ vested_at(streams[id], now) \in Nat /\ vested_at(streams[id], now') \in Nat
        /\ vested_at(streams[id], now) <= vested_at(streams[id], now')
    BY <1>1, <2>1, VestedRises
  <2>. QED BY <1>1, <2>1, <2>2
<1>. QED BY <1>1, <1>2, <1>3 DEF StreamInv

LEMMA BudgetKept ==
    ASSUME TypeOK, BudgetInv, now' \in Nat, now' >= now, spent_at' = spent_at,
           treasury'.epoch_duration = treasury.epoch_duration,
           treasury'.epoch_spend_cap = treasury.epoch_spend_cap,
           treasury'.spent_this_epoch = treasury.spent_this_epoch,
           treasury'.current_epoch = treasury.current_epoch
    PROVE  BudgetInv'
<1>1. \A e \in Times : Spent(e)' = Spent(e)
  BY DEF Spent, SpentInEpoch
<1>2. /\ epoch_at(treasury.epoch_duration, now) \in Nat
      /\ epoch_at(treasury.epoch_duration, now') \in Nat
      /\ epoch_at(treasury.epoch_duration, now) <= epoch_at(treasury.epoch_duration, now')
  BY TreasuryFields, DivMono DEF epoch_at
<1>3. treasury.current_epoch \in Nat
  BY TreasuryFields
<1>. QED BY <1>1, <1>2, <1>3 DEF BudgetInv

\* The sum of what is owed moves with the stream that moved.
LEMMA OwedMoves ==
    ASSUME IInv, NEW id \in StreamIds, NEW s, Owed(s) \in Int,
           streams' = [streams EXCEPT ![id] = s]
    PROVE  /\ SumTo(OwedTo', MaxStreams)
                = SumTo(OwedTo, MaxStreams) + Owed(s) - Owed(streams[id])
           /\ SumTo(OwedTo, MaxStreams) \in Nat
           /\ Owed(streams[id]) \in Nat
           /\ Owed(streams[id]) <= SumTo(OwedTo, MaxStreams)
<1> DEFINE f == OwedTo
           g == OwedTo'
<1>1. MaxStreams \in Nat /\ StreamIds = 0 .. MaxStreams - 1
  BY TreasuryAssumption DEF StreamIds
<1>2. \A i \in StreamIds : Owed(streams[i]) \in Nat
  BY OwedCovers DEF IInv
<1>3. streams'[id] = s /\ \A i \in StreamIds : i # id => streams'[i] = streams[i]
  BY DEF IInv, TypeOK
<1>4. f \in [0 .. MaxStreams - 1 -> Nat]
  BY <1>1, <1>2 DEF OwedTo
<1>5. g \in [0 .. MaxStreams - 1 -> Int]
  BY <1>1, <1>2, <1>3 DEF OwedTo
<1>6. /\ \A i \in 0 .. MaxStreams - 1 : i # id => g[i] = f[i]
      /\ f[id] = Owed(streams[id]) /\ g[id] = Owed(s)
  BY <1>1, <1>3 DEF OwedTo
<1> HIDE DEF f, g
<1>7. SumTo(g, MaxStreams) = SumTo(f, MaxStreams) + g[id] - f[id]
  <2>1. id \in 0 .. MaxStreams - 1 /\ f \in [0 .. MaxStreams - 1 -> Int]
    BY <1>1, <1>4
  <2>2. \A i \in 0 .. MaxStreams - 1 : i # id => g[i] = f[i]
    BY <1>6
  <2>. QED BY <1>1, <1>5, <2>1, <2>2, SumUpdate
<1>8. /\ SumTo(f, MaxStreams) \in Nat
      /\ \A i \in 0 .. MaxStreams - 1 : f[i] <= SumTo(f, MaxStreams)
  BY <1>1, <1>4, SumOfNats
<1>. QED BY <1>1, <1>2, <1>6, <1>7, <1>8 DEF f, g

-----------------------------------------------------------------------------
(* The instructions. *)

\* A step that moves no stream, no budget and no clock, and leaves the vault
\* above the commitments.
LEMMA QuietPreserves ==
    ASSUME IInv, treasury' \in TreasuryAccount, vault' \in Nat,
           streams' = streams, now' = now, spent_at' = spent_at,
           treasury'.committed_to_streams = treasury.committed_to_streams,
           treasury'.stream_count = treasury.stream_count,
           treasury'.epoch_duration = treasury.epoch_duration,
           treasury'.epoch_spend_cap = treasury.epoch_spend_cap,
           treasury'.spent_this_epoch = treasury.spent_this_epoch,
           treasury'.current_epoch = treasury.current_epoch,
           treasury.committed_to_streams <= vault'
    PROVE  IInv'
<1>1. TypeOK'
  BY DEF IInv, TypeOK
<1>2. StreamsFunded'
  BY DEF IInv, StreamsFunded, OwedTo
<1>3. now' \in Nat /\ now' >= now /\ treasury'.stream_count \in Nat
      /\ treasury'.stream_count >= treasury.stream_count
  BY TreasuryFields DEF IInv
<1>4. \A id \in StreamIds : StreamInv(id)'
  BY <1>3, StreamKept DEF IInv
<1>5. BudgetInv'
  BY <1>3, BudgetKept DEF IInv
<1>. QED BY <1>1, <1>2, <1>4, <1>5 DEF IInv

LEMMA FundsPreserve ==
    ASSUME IInv,
           \/ \E amount \in DepositAmounts, fee \in Fees : deposit(amount, fee)
           \/ \E amount \in DepositAmounts : Donate(amount)
           \/ \E signer, executor \in Executors : set_governance_executor(signer, executor)
           \/ UNCHANGED vars
    PROVE  IInv'
<1>1. /\ treasury \in TreasuryAccount /\ vault \in Nat
      /\ treasury.committed_to_streams \in Nat /\ treasury.total_deposited \in Nat
      /\ treasury.committed_to_streams <= vault
  BY TreasuryFields DEF IInv, TypeOK, StreamsFunded
<1>2. CASE \E amount \in DepositAmounts, fee \in Fees : deposit(amount, fee)
  <2>1. PICK amount \in DepositAmounts, fee \in Fees : deposit(amount, fee)
    BY <1>2
  <2> DEFINE c == amount - fee
  <2>2. /\ c \in Nat /\ vault' = vault + c
        /\ treasury' = [treasury EXCEPT !.total_deposited = @ + c]
        /\ streams' = streams /\ now' = now /\ spent_at' = spent_at
    BY <2>1, TreasuryAssumption DEF deposit
  <2> HIDE DEF c
  <2>3. /\ treasury' \in TreasuryAccount
        /\ treasury'.committed_to_streams = treasury.committed_to_streams
        /\ treasury'.stream_count = treasury.stream_count
        /\ treasury'.epoch_duration = treasury.epoch_duration
        /\ treasury'.epoch_spend_cap = treasury.epoch_spend_cap
        /\ treasury'.spent_this_epoch = treasury.spent_this_epoch
        /\ treasury'.current_epoch = treasury.current_epoch
    BY <1>1, <2>2 DEF TreasuryAccount
  <2>4. vault' \in Nat /\ treasury.committed_to_streams <= vault'
    BY <1>1, <2>2
  <2>. QED BY <2>2, <2>3, <2>4, QuietPreserves
<1>3. CASE \E amount \in DepositAmounts : Donate(amount)
  <2>1. PICK amount \in DepositAmounts : Donate(amount)
    BY <1>3
  <2>2. /\ vault' = vault + amount /\ amount \in Nat /\ treasury' = treasury
        /\ streams' = streams /\ now' = now /\ spent_at' = spent_at
    BY <2>1, TreasuryAssumption DEF Donate
  <2>3. vault' \in Nat /\ treasury.committed_to_streams <= vault'
    BY <1>1, <2>2
  <2>. QED BY <1>1, <2>2, <2>3, QuietPreserves
<1>4. CASE \E signer, executor \in Executors : set_governance_executor(signer, executor)
  <2>1. PICK signer \in Executors, executor \in Executors :
          set_governance_executor(signer, executor)
    BY <1>4
  <2>2. /\ treasury' = [treasury EXCEPT !.governance_executor = executor]
        /\ vault' = vault /\ streams' = streams /\ now' = now /\ spent_at' = spent_at
    BY <2>1 DEF set_governance_executor
  <2>3. /\ treasury' \in TreasuryAccount
        /\ treasury'.committed_to_streams = treasury.committed_to_streams
        /\ treasury'.stream_count = treasury.stream_count
        /\ treasury'.epoch_duration = treasury.epoch_duration
        /\ treasury'.epoch_spend_cap = treasury.epoch_spend_cap
        /\ treasury'.spent_this_epoch = treasury.spent_this_epoch
        /\ treasury'.current_epoch = treasury.current_epoch
    BY <1>1, <2>2 DEF TreasuryAccount
  <2>. QED BY <1>1, <2>2, <2>3, QuietPreserves
<1>5. CASE UNCHANGED vars
  BY <1>1, <1>5, QuietPreserves DEF vars
<1>. QED BY <1>2, <1>3, <1>4, <1>5

\* The history of an epoch is a function of naturals, and so is its sum.
LEMMA SpentType ==
    ASSUME TypeOK, NEW e
    PROVE  /\ SpentInEpoch(e) \in [0 .. (Horizon + 1) - 1 -> Nat]
           /\ Horizon + 1 \in Nat
           /\ Spent(e) \in Nat
<1>1. Horizon \in Nat /\ Times = 0 .. (Horizon + 1) - 1
  BY TreasuryAssumption DEF Times
<1>2. SpentInEpoch(e) \in [0 .. (Horizon + 1) - 1 -> Nat]
  BY <1>1 DEF TypeOK, SpentInEpoch
<1>. QED BY <1>1, <1>2, SumOfNats DEF Spent

\* A spend is charged to the epoch it happens in and to no other.
LEMMA SpendCharged ==
    ASSUME TypeOK, TypeOK', NEW amount \in Nat, NEW e,
           treasury'.epoch_duration = treasury.epoch_duration,
           spent_at' = [spent_at EXCEPT ![now] = @ + amount]
    PROVE  Spent(e)' = IF e = epoch_at(treasury.epoch_duration, now)
                       THEN Spent(e) + amount ELSE Spent(e)
<1> DEFINE f == SpentInEpoch(e)
           g == SpentInEpoch(e)'
           N == Horizon + 1
<1>1. f \in [0 .. N - 1 -> Nat] /\ N \in Nat
  BY SpentType
<1>2. now \in 0 .. N - 1 /\ Times = 0 .. N - 1
  BY TreasuryAssumption DEF TypeOK, Times
<1>3. g \in [0 .. N - 1 -> Nat]
  <2>1. spent_at' \in [Times -> Nat]
    BY DEF TypeOK
  <2>. QED BY <1>2, <2>1 DEF SpentInEpoch
<1>4. \A t \in 0 .. N - 1 : t # now => g[t] = f[t]
  BY <1>2 DEF TypeOK, SpentInEpoch
<1>5. IF e = epoch_at(treasury.epoch_duration, now) THEN g[now] = f[now] + amount
      ELSE g[now] = f[now]
  BY <1>2 DEF TypeOK, SpentInEpoch
<1> HIDE DEF f, g, N
<1>6. f \in [0 .. N - 1 -> Int] /\ g \in [0 .. N - 1 -> Int]
  BY <1>1, <1>3
<1>7. SumTo(g, N) = SumTo(f, N) + g[now] - f[now]
  BY <1>1, <1>2, <1>4, <1>6, SumUpdate
<1>8. SumTo(f, N) \in Nat /\ f[now] \in Nat
  BY <1>1, <1>2, SumOfNats
<1>9. SumTo(g, N) = IF e = epoch_at(treasury.epoch_duration, now)
                    THEN SumTo(f, N) + amount ELSE SumTo(f, N)
  BY <1>5, <1>7, <1>8
<1>. QED BY <1>9 DEF f, g, N, Spent

LEMMA SpendPreserves ==
    ASSUME IInv, NEW signer \in Executors, NEW amount \in SpendAmounts,
           NEW to_vault \in BOOLEAN, spend(signer, amount, to_vault)
    PROVE  IInv'
<1> DEFINE ep == epoch_at(treasury.epoch_duration, now)
           base == EpochBase(treasury, now)
<1>1. /\ amount \in Nat /\ amount > 0
      /\ amount <= uncommitted(treasury, vault)
      /\ base + amount <= treasury.epoch_spend_cap
      /\ streams' = streams /\ now' = now
      /\ spent_at' = [spent_at EXCEPT ![now] = @ + amount]
      /\ vault' = IF to_vault THEN vault ELSE vault - amount
      /\ treasury' = [treasury EXCEPT !.spent_this_epoch = base + amount,
                                      !.current_epoch = ep, !.total_spent = @ + amount]
  BY TreasuryAssumption DEF spend, CanCharge, charge_epoch_budget
<1>2. ep \in Nat /\ base \in Nat
  BY TreasuryFields, DivMono DEF IInv, epoch_at, EpochBase
<1>3. base = IF ep = treasury.current_epoch THEN treasury.spent_this_epoch ELSE 0
  BY DEF EpochBase
<1> HIDE DEF ep, base
<1>4. /\ treasury' \in TreasuryAccount
      /\ treasury'.committed_to_streams = treasury.committed_to_streams
      /\ treasury'.stream_count = treasury.stream_count
      /\ treasury'.epoch_duration = treasury.epoch_duration
      /\ treasury'.epoch_spend_cap = treasury.epoch_spend_cap
      /\ treasury'.spent_this_epoch = base + amount
      /\ treasury'.current_epoch = ep
  <2>1. treasury \in TreasuryAccount /\ treasury.total_spent + amount \in Nat /\ base + amount \in Nat
    BY <1>1, <1>2, TreasuryFields DEF IInv, TypeOK
  <2> HIDE DEF IInv
  <2>. QED BY <1>1, <1>2, <2>1 DEF TreasuryAccount
<1>5. vault' \in Nat /\ treasury.committed_to_streams <= vault'
  BY <1>1, TreasuryFields DEF IInv, StreamsFunded, uncommitted
<1>6. TypeOK'
  BY <1>1, <1>4, <1>5 DEF IInv, TypeOK
<1>7. StreamsFunded'
  BY <1>1, <1>4, <1>5 DEF IInv, StreamsFunded, OwedTo
<1>8. \A id \in StreamIds : StreamInv(id)'
  <2>1. now' \in Nat /\ now' >= now /\ treasury'.stream_count \in Nat
        /\ treasury'.stream_count >= treasury.stream_count
    BY <1>1, <1>4, TreasuryFields DEF IInv
  <2>. QED BY <1>1, <2>1, StreamKept DEF IInv
<1>9. BudgetInv'
  <2>1. /\ treasury.current_epoch \in Nat /\ treasury.spent_this_epoch \in Nat
        /\ treasury.epoch_spend_cap \in Nat
    BY TreasuryFields DEF IInv
  <2>2. epoch_at(treasury'.epoch_duration, now') = ep
    BY <1>1, <1>4 DEF ep
  <2>3. ASSUME NEW e \in Times
        PROVE  /\ Spent(e) \in Nat /\ e \in Nat
               /\ Spent(e)' = IF e = ep THEN Spent(e) + amount ELSE Spent(e)
    <3>1. Spent(e) \in Nat /\ e \in Nat
      BY SpentType DEF IInv, Times
    <3>2. TypeOK
      BY DEF IInv
    <3>3. Spent(e)' = IF e = epoch_at(treasury.epoch_duration, now)
                      THEN Spent(e) + amount ELSE Spent(e)
      BY <1>1, <1>4, <1>6, <3>2, SpendCharged
    <3>. QED BY <3>1, <3>3 DEF ep
  <2>4. ASSUME NEW e \in Times
        PROVE  /\ Spent(e) <= treasury.epoch_spend_cap
               /\ e = treasury.current_epoch => Spent(e) <= treasury.spent_this_epoch
               /\ Spent(e) > 0 => e <= treasury.current_epoch /\ treasury.current_epoch <= ep
    BY DEF IInv, BudgetInv, ep
  <2>5. ASSUME NEW e \in Times, e = ep PROVE Spent(e) <= base
    BY <1>2, <1>3, <2>1, <2>3, <2>4, <2>5
  <2>6. ASSUME NEW e \in Times
        PROVE  /\ Spent(e)' <= treasury.epoch_spend_cap
               /\ e = ep => Spent(e)' <= base + amount
               /\ Spent(e)' > 0 => e <= ep
    BY <1>1, <1>2, <2>1, <2>3, <2>4, <2>5
  <2>. QED BY <1>2, <1>4, <2>2, <2>6 DEF BudgetInv
<1>. QED BY <1>6, <1>7, <1>8, <1>9 DEF IInv

LEMMA SetCapPreserves ==
    ASSUME IInv, NEW signer \in Executors, NEW cap \in Caps, NEW duration \in Durations,
           set_spend_cap(signer, cap, duration)
    PROVE  IInv'
<1>1. /\ cap \in Nat /\ duration \in Nat \ {0}
      /\ treasury' = [treasury EXCEPT !.epoch_spend_cap = cap, !.epoch_duration = duration]
      /\ spent_at' = [t \in Times |-> 0]
      /\ vault' = vault /\ streams' = streams /\ now' = now
  BY TreasuryAssumption DEF set_spend_cap
<1>2. /\ treasury' \in TreasuryAccount
      /\ treasury'.committed_to_streams = treasury.committed_to_streams
      /\ treasury'.stream_count = treasury.stream_count
      /\ treasury'.epoch_spend_cap = cap
      /\ treasury'.spent_this_epoch = treasury.spent_this_epoch
  BY <1>1 DEF IInv, TypeOK, TreasuryAccount
<1>3. TypeOK'
  BY <1>1, <1>2 DEF IInv, TypeOK
<1>4. StreamsFunded'
  BY <1>1, <1>2 DEF IInv, StreamsFunded, OwedTo
<1>5. \A id \in StreamIds : StreamInv(id)'
  <2>1. now' \in Nat /\ now' >= now /\ treasury'.stream_count \in Nat
        /\ treasury'.stream_count >= treasury.stream_count
    BY <1>1, <1>2, TreasuryFields DEF IInv
  <2>. QED BY <1>1, <2>1, StreamKept DEF IInv
<1>6. ASSUME NEW e PROVE Spent(e)' = 0
  <2> DEFINE g == SpentInEpoch(e)'
             N == Horizon + 1
  <2>1. N \in Nat /\ Times = 0 .. N - 1
    BY TreasuryAssumption DEF Times
  <2>2. g \in [0 .. N - 1 -> Int] /\ \A t \in 0 .. N - 1 : g[t] = 0
    BY <1>1, <2>1 DEF SpentInEpoch
  <2> HIDE DEF g, N
  <2>3. SumTo(g, N) = 0
    BY <2>1, <2>2, SumOfZeros
  <2>. QED BY <2>3 DEF g, N, Spent
<1>7. BudgetInv'
  BY <1>1, <1>2, <1>6, TreasuryFields DEF IInv, BudgetInv
<1>. QED BY <1>3, <1>4, <1>5, <1>7 DEF IInv

\* One stream changes, and the counter with what it is owed.
LEMMA StreamStepPreserves ==
    ASSUME IInv, NEW id \in StreamIds, NEW s \in VestingStream, Owed(s) \in Int,
           streams' = [streams EXCEPT ![id] = s],
           treasury' \in TreasuryAccount, vault' \in Nat,
           treasury'.committed_to_streams
             = treasury.committed_to_streams + Owed(s) - Owed(streams[id]),
           treasury'.committed_to_streams <= vault',
           treasury'.stream_count >= treasury.stream_count,
           treasury'.epoch_duration = treasury.epoch_duration,
           treasury'.epoch_spend_cap = treasury.epoch_spend_cap,
           treasury'.spent_this_epoch = treasury.spent_this_epoch,
           treasury'.current_epoch = treasury.current_epoch,
           now' = now, spent_at' = spent_at, StreamInv(id)'
    PROVE  IInv'
<1>1. TypeOK'
  BY DEF IInv, TypeOK
<1>2. StreamsFunded'
  <2>1. SumTo(OwedTo', MaxStreams) = SumTo(OwedTo, MaxStreams) + Owed(s) - Owed(streams[id])
    BY OwedMoves
  <2>2. treasury.committed_to_streams = SumTo(OwedTo, MaxStreams)
    BY DEF IInv, StreamsFunded
  <2>3. SumTo(OwedTo', MaxStreams) = treasury'.committed_to_streams
    BY <2>1, <2>2
  <2>. QED BY <2>3 DEF StreamsFunded
<1>3. now' \in Nat /\ now' >= now /\ treasury'.stream_count \in Nat
  BY TreasuryFields DEF IInv, TreasuryAccount
<1>4. ASSUME NEW i \in StreamIds PROVE StreamInv(i)'
  <2>1. CASE i = id
    BY <2>1
  <2>2. CASE i # id
    <3>1. streams'[i] = streams[i]
      BY <2>2 DEF IInv, TypeOK
    <3>. QED BY <1>3, <3>1, StreamKept DEF IInv
  <2>. QED BY <2>1, <2>2
<1>5. BudgetInv'
  BY <1>3, BudgetKept DEF IInv
<1>. QED BY <1>1, <1>2, <1>4, <1>5 DEF IInv

\* What create_stream makes of an empty address.
LEMMA CreateFacts ==
    ASSUME IInv, NEW signer \in Executors, NEW id \in StreamIds,
           NEW beneficiary \in Beneficiaries, NEW amount \in StreamAmounts,
           NEW schedule \in Schedules,
           create_stream(signer, id, beneficiary, amount, schedule)
    PROVE  LET s == new_stream(beneficiary, amount, schedule) IN
           /\ amount \in Nat /\ amount > 0
           /\ amount <= vault - treasury.committed_to_streams
           /\ s \in VestingStream /\ s.beneficiary # NoBeneficiary
           /\ s.start_ts <= s.cliff_ts /\ s.cliff_ts <= s.end_ts /\ s.start_ts < s.end_ts
           /\ ~s.revoked /\ s.claimed = 0
           /\ Owed(s) = amount /\ Owed(streams[id]) = 0
           /\ streams[id] = NoStream
<1> DEFINE s == new_stream(beneficiary, amount, schedule)
<1>1. /\ amount \in Nat /\ amount > 0
      /\ schedule.start_ts \in Int /\ schedule.cliff_ts \in Int /\ schedule.end_ts \in Int
      /\ schedule.start_ts <= schedule.cliff_ts /\ schedule.cliff_ts <= schedule.end_ts
      /\ saturating_sub(schedule.end_ts, schedule.start_ts) >= MIN_STREAM_DURATION
      /\ ~Exists(id) /\ amount <= uncommitted(treasury, vault)
  BY TreasuryAssumption DEF create_stream, Schedule
<1>2. schedule.start_ts < schedule.end_ts
  BY <1>1, TreasuryAssumption DEF saturating_sub
<1>3. amount <= vault - treasury.committed_to_streams
  BY <1>1, TreasuryFields DEF IInv, uncommitted
<1>4. s \in VestingStream /\ s.beneficiary # NoBeneficiary
  BY <1>1, TreasuryAssumption DEF new_stream, VestingStream
<1>5. Owed(s) = amount
  BY <1>1 DEF new_stream, Owed
<1>6. streams[id] = NoStream
  BY <1>1 DEF IInv, StreamInv
<1>7. Owed(streams[id]) = 0
  BY <1>6 DEF Owed, NoStream
<1>. QED BY <1>1, <1>2, <1>3, <1>4, <1>5, <1>6, <1>7 DEF new_stream

LEMMA CreatePreserves ==
    ASSUME IInv, NEW signer \in Executors, NEW id \in StreamIds,
           NEW beneficiary \in Beneficiaries, NEW amount \in StreamAmounts,
           NEW schedule \in Schedules,
           create_stream(signer, id, beneficiary, amount, schedule)
    PROVE  IInv'
<1> DEFINE s == new_stream(beneficiary, amount, schedule)
<1>1. /\ amount \in Nat /\ amount > 0
      /\ amount <= vault - treasury.committed_to_streams
      /\ s \in VestingStream /\ s.beneficiary # NoBeneficiary
      /\ s.start_ts <= s.cliff_ts /\ s.cliff_ts <= s.end_ts /\ s.start_ts < s.end_ts
      /\ ~s.revoked /\ s.claimed = 0
      /\ Owed(s) = amount /\ Owed(streams[id]) = 0
  BY CreateFacts
<1>2. /\ id = treasury.stream_count
      /\ streams' = [streams EXCEPT ![id] = s]
      /\ treasury' = [treasury EXCEPT !.committed_to_streams = @ + amount,
                                      !.stream_count         = @ + 1]
      /\ vault' = vault /\ now' = now /\ spent_at' = spent_at
  BY DEF create_stream
<1> HIDE DEF s
<1>3. /\ treasury.committed_to_streams + amount \in Nat /\ treasury.stream_count + 1 \in Nat
      /\ treasury \in TreasuryAccount /\ vault \in Nat /\ now \in Nat
      /\ treasury.committed_to_streams \in Nat /\ id \in Nat
  BY <1>1, <1>2, TreasuryFields DEF IInv, TypeOK
<1>4. /\ treasury' \in TreasuryAccount
      /\ treasury'.committed_to_streams = treasury.committed_to_streams + amount
      /\ treasury'.stream_count = treasury.stream_count + 1
      /\ treasury'.epoch_duration = treasury.epoch_duration
      /\ treasury'.epoch_spend_cap = treasury.epoch_spend_cap
      /\ treasury'.spent_this_epoch = treasury.spent_this_epoch
      /\ treasury'.current_epoch = treasury.current_epoch
  BY <1>2, <1>3 DEF TreasuryAccount
<1>5. treasury'.committed_to_streams <= vault' /\ vault' \in Nat
  BY <1>1, <1>2, <1>3, <1>4
<1>6. streams'[id] = s
  BY <1>2 DEF IInv, TypeOK
<1>7. StreamInv(id)'
  <2>1. vested_at(s, now) \in Nat
    <3>1. now <= now
      BY <1>3
    <3>. QED BY <1>1, <1>3, <3>1, VestedRises
  <2>2. ~(id >= treasury'.stream_count)
    BY <1>2, <1>3, <1>4
  <2>. QED BY <1>1, <1>2, <1>6, <2>1, <2>2 DEF StreamInv, Exists
<1>8. /\ treasury'.committed_to_streams
           = treasury.committed_to_streams + Owed(s) - Owed(streams[id])
      /\ treasury'.stream_count >= treasury.stream_count
      /\ Owed(s) \in Int
  BY <1>1, <1>2, <1>3, <1>4
<1>. QED BY <1>1, <1>2, <1>4, <1>5, <1>7, <1>8, StreamStepPreserves

\* What claim_stream makes of a stream: the payment moves from owed to claimed.
LEMMA ClaimFacts ==
    ASSUME IInv, NEW signer \in Beneficiaries, NEW id \in StreamIds,
           claim_stream(signer, id)
    PROVE  LET amount == claimable_at(streams[id], now)
               s == [streams[id] EXCEPT !.claimed = @ + amount]
           IN
           /\ amount \in Nat /\ amount > 0 /\ amount <= vault
           /\ amount <= Owed(streams[id]) /\ Owed(streams[id]) \in Nat
           /\ Owed(s) = Owed(streams[id]) - amount
           /\ s \in VestingStream /\ Exists(id)
           /\ vested_at(s, now) = vested_at(streams[id], now)
           /\ s.claimed = vested_at(streams[id], now)
           /\ streams[id].claimed \in Nat /\ streams[id].claimed <= s.claimed
<1> DEFINE old == streams[id]
           amount == claimable_at(old, now)
           s == [old EXCEPT !.claimed = @ + amount]
<1>1. Exists(id) /\ amount > 0 /\ amount <= vault
  BY DEF claim_stream, CanClaim
<1>2. amount <= Owed(old) /\ Owed(old) \in Nat
  BY <1>1, OwedCovers DEF IInv
<1>3. old \in VestingStream /\ old.claimed \in Nat /\ now \in Nat
  BY TreasuryFields DEF IInv, TypeOK, VestingStream
<1>4. vested_at(old, now) \in Nat
  <2>1. now <= now
    BY <1>3
  <2>2. /\ old.start_ts <= old.cliff_ts /\ old.cliff_ts <= old.end_ts
        /\ old.start_ts < old.end_ts
    BY <1>1 DEF IInv, StreamInv
  <2>. QED BY <1>3, <2>1, <2>2, VestedRises
<1>5. amount = vested_at(old, now) - old.claimed
  BY DEF claimable_at
<1>6. amount \in Nat /\ old.claimed + amount = vested_at(old, now)
  BY <1>1, <1>3, <1>4, <1>5
<1>7. s \in VestingStream /\ s.claimed = vested_at(old, now)
  <2> HIDE DEF old, amount
  <2>1. old.claimed + amount \in Nat
    BY <1>4, <1>6
  <2>2. s \in VestingStream /\ s.claimed = old.claimed + amount
    BY <1>3, <2>1 DEF VestingStream
  <2>. QED BY <1>6, <2>2
<1>8. /\ s.total_amount = old.total_amount /\ s.start_ts = old.start_ts
      /\ s.cliff_ts = old.cliff_ts /\ s.end_ts = old.end_ts
      /\ s.revoked = old.revoked /\ s.revoked_at = old.revoked_at
  BY <1>3 DEF VestingStream
<1> HIDE DEF s
<1>9. \A t : vested_at(s, t) = vested_at(old, t)
  BY <1>8 DEF vested_at, VestingTime
<1>10. Owed(s) = Owed(old) - amount
  <2> DEFINE base == IF old.revoked THEN vested_at(old, old.revoked_at) ELSE old.total_amount
  <2>1. Owed(old) = base - old.claimed /\ Owed(s) = base - s.claimed
    BY <1>8, <1>9 DEF Owed
  <2>2. base \in Int
    <3>1. base = IF old.revoked THEN Curve(old, old.revoked_at) ELSE old.total_amount
      BY VestedIsCurve DEF VestingTime
    <3>2. old.revoked_at \in Int /\ old.revoked_at <= old.revoked_at /\ old.total_amount \in Int
      BY <1>3 DEF VestingStream
    <3>3. /\ old.start_ts <= old.cliff_ts /\ old.cliff_ts <= old.end_ts
          /\ old.start_ts < old.end_ts
      BY <1>1 DEF IInv, StreamInv
    <3>4. Curve(old, old.revoked_at) \in Nat
      BY <1>3, <3>2, <3>3, CurveRises
    <3>. QED BY <3>1, <3>2, <3>4
  <2> HIDE DEF base, amount, old
  <2>. QED BY <1>3, <1>6, <1>7, <2>1, <2>2
<1>11. old.claimed <= s.claimed
  BY <1>3, <1>4, <1>6, <1>7
<1>. QED BY <1>1, <1>2, <1>3, <1>6, <1>7, <1>9, <1>10, <1>11 DEF s

LEMMA ClaimPreserves ==
    ASSUME IInv, NEW signer \in Beneficiaries, NEW id \in StreamIds,
           claim_stream(signer, id)
    PROVE  IInv'
<1> DEFINE amount == claimable_at(streams[id], now)
           s == [streams[id] EXCEPT !.claimed = @ + amount]
<1>1. /\ amount \in Nat /\ amount > 0 /\ amount <= vault
      /\ amount <= Owed(streams[id]) /\ Owed(streams[id]) \in Nat
      /\ Owed(s) = Owed(streams[id]) - amount
      /\ s \in VestingStream /\ Exists(id)
      /\ vested_at(s, now) = vested_at(streams[id], now)
      /\ s.claimed = vested_at(streams[id], now)
      /\ streams[id].claimed \in Nat /\ streams[id].claimed <= s.claimed
  BY ClaimFacts
<1>2. /\ vault' = vault - amount
      /\ streams' = [streams EXCEPT ![id] = s]
      /\ treasury' = [treasury EXCEPT !.committed_to_streams = @ - amount]
      /\ now' = now /\ spent_at' = spent_at
  BY DEF IInv, TypeOK, claim_stream, CanClaim
<1>3. /\ treasury \in TreasuryAccount /\ vault \in Nat /\ now \in Nat
      /\ treasury.committed_to_streams \in Nat /\ treasury.stream_count \in Nat
      /\ streams[id] \in VestingStream /\ s.claimed \in Nat
  BY <1>1, TreasuryFields DEF IInv, TypeOK, VestingStream
<1>4. s.beneficiary = streams[id].beneficiary /\ s.start_ts = streams[id].start_ts
      /\ s.cliff_ts = streams[id].cliff_ts /\ s.end_ts = streams[id].end_ts
      /\ s.revoked = streams[id].revoked /\ s.revoked_at = streams[id].revoked_at
  BY <1>3 DEF VestingStream
<1> HIDE DEF amount, s
<1>5. /\ amount <= treasury.committed_to_streams
      /\ treasury.committed_to_streams <= vault
  <2>1. Owed(s) \in Int
    BY <1>1
  <2>2. Owed(streams[id]) <= SumTo(OwedTo, MaxStreams) /\ SumTo(OwedTo, MaxStreams) \in Nat
    BY <1>2, <2>1, OwedMoves
  <2>. QED BY <1>1, <1>3, <2>2 DEF IInv, StreamsFunded
<1>6. /\ treasury' \in TreasuryAccount
      /\ treasury'.committed_to_streams = treasury.committed_to_streams - amount
      /\ treasury'.stream_count = treasury.stream_count
      /\ treasury'.epoch_duration = treasury.epoch_duration
      /\ treasury'.epoch_spend_cap = treasury.epoch_spend_cap
      /\ treasury'.spent_this_epoch = treasury.spent_this_epoch
      /\ treasury'.current_epoch = treasury.current_epoch
  <2>1. treasury.committed_to_streams - amount \in Nat
    BY <1>1, <1>3, <1>5
  <2>. QED BY <1>2, <1>3, <2>1 DEF TreasuryAccount
<1>7. treasury'.committed_to_streams <= vault' /\ vault' \in Nat
  BY <1>1, <1>2, <1>3, <1>5, <1>6
<1>8. streams'[id] = s
  BY <1>2 DEF IInv, TypeOK
<1>9. StreamInv(id)'
  <2>1. Exists(id)' /\ treasury.stream_count > id
    BY <1>1, <1>3, <1>4, <1>8 DEF Exists, IInv, StreamInv, StreamIds
  <2>2. s.claimed <= vested_at(s, now)
    BY <1>1, <1>3
  <2>3. StreamInv(id) /\ id \in Int
    BY DEF IInv, StreamIds
  <2>. QED BY <1>1, <1>2, <1>3, <1>4, <1>6, <1>8, <2>1, <2>2, <2>3 DEF StreamInv
<1>10. /\ treasury'.committed_to_streams
            = treasury.committed_to_streams + Owed(s) - Owed(streams[id])
       /\ treasury'.stream_count >= treasury.stream_count
       /\ Owed(s) \in Int
  BY <1>1, <1>3, <1>6
<1>. QED BY <1>1, <1>2, <1>6, <1>7, <1>9, <1>10, StreamStepPreserves

\* What revoke_stream makes of a stream: what has vested by now is frozen and
\* stays owed, the rest is released.
LEMMA RevokeFacts ==
    ASSUME IInv, NEW signer \in Executors, NEW id \in StreamIds,
           revoke_stream(signer, id)
    PROVE  LET s == [streams[id] EXCEPT !.revoked = TRUE, !.revoked_at = now] IN
           /\ unvested_remainder(s) \in Nat
           /\ unvested_remainder(s) <= Owed(streams[id]) /\ Owed(streams[id]) \in Nat
           /\ Owed(s) = Owed(streams[id]) - unvested_remainder(s)
           /\ s \in VestingStream /\ Exists(id)
           /\ vested_at(s, now) = vested_at(streams[id], now)
           /\ vested_at(s, now) \in Nat
           /\ s.claimed = streams[id].claimed /\ s.claimed \in Nat
           /\ s.claimed <= vested_at(s, now)
<1> DEFINE old == streams[id]
           s == [old EXCEPT !.revoked = TRUE, !.revoked_at = now]
           v == vested_at(old, now)
<1>1. Exists(id) /\ ~old.revoked
  BY DEF revoke_stream
<1>2. /\ old \in VestingStream /\ now \in Nat
      /\ old.claimed \in Nat /\ old.total_amount \in Nat
  BY TreasuryFields DEF IInv, TypeOK, VestingStream
<1>3. v \in Nat /\ v <= old.total_amount /\ old.claimed <= v
  <2>1. now <= now
    BY <1>2
  <2>2. /\ old.start_ts <= old.cliff_ts /\ old.cliff_ts <= old.end_ts
        /\ old.start_ts < old.end_ts /\ old.claimed <= v
    BY <1>1 DEF IInv, StreamInv
  <2>. QED BY <1>2, <2>1, <2>2, VestedRises
<1>4. s \in VestingStream
  BY <1>2 DEF VestingStream
<1>5. /\ s.total_amount = old.total_amount /\ s.start_ts = old.start_ts
      /\ s.cliff_ts = old.cliff_ts /\ s.end_ts = old.end_ts
      /\ s.claimed = old.claimed /\ s.revoked /\ s.revoked_at = now
  BY <1>2 DEF VestingStream
<1> HIDE DEF s
<1>6. vested_at(s, now) = v
  BY <1>1, <1>2, <1>5 DEF vested_at, VestingTime
<1> HIDE DEF v
<1>7. /\ Owed(s) = v - old.claimed
      /\ Owed(old) = old.total_amount - old.claimed
      /\ unvested_remainder(s) = old.total_amount - v
  BY <1>1, <1>5, <1>6 DEF Owed, unvested_remainder
<1>8. /\ unvested_remainder(s) \in Nat
      /\ unvested_remainder(s) <= Owed(old) /\ Owed(old) \in Nat
      /\ Owed(s) = Owed(old) - unvested_remainder(s)
  <2> HIDE DEF old
  <2>. QED BY <1>2, <1>3, <1>7
<1>. QED BY <1>1, <1>2, <1>3, <1>4, <1>5, <1>6, <1>8 DEF s, v

LEMMA RevokePreserves ==
    ASSUME IInv, NEW signer \in Executors, NEW id \in StreamIds,
           revoke_stream(signer, id)
    PROVE  IInv'
<1> DEFINE s == [streams[id] EXCEPT !.revoked = TRUE, !.revoked_at = now]
           rest == unvested_remainder(s)
<1>1. /\ rest \in Nat /\ rest <= Owed(streams[id]) /\ Owed(streams[id]) \in Nat
      /\ Owed(s) = Owed(streams[id]) - rest
      /\ s \in VestingStream /\ Exists(id)
      /\ s.claimed \in Nat /\ s.claimed <= vested_at(s, now)
  BY RevokeFacts
<1>2. /\ streams' = [streams EXCEPT ![id] = s]
      /\ treasury' = [treasury EXCEPT !.committed_to_streams = @ - rest]
      /\ vault' = vault /\ now' = now /\ spent_at' = spent_at
  BY DEF revoke_stream
<1>3. /\ treasury \in TreasuryAccount /\ vault \in Nat /\ now \in Nat
      /\ treasury.committed_to_streams \in Nat /\ treasury.stream_count \in Nat
      /\ streams[id] \in VestingStream
  BY TreasuryFields DEF IInv, TypeOK
<1>4. s.beneficiary = streams[id].beneficiary /\ s.start_ts = streams[id].start_ts
      /\ s.cliff_ts = streams[id].cliff_ts /\ s.end_ts = streams[id].end_ts
      /\ s.revoked_at = now
  BY <1>3 DEF VestingStream
<1> HIDE DEF rest, s
<1>5. /\ rest <= treasury.committed_to_streams
      /\ treasury.committed_to_streams <= vault
  <2>1. Owed(s) \in Int
    BY <1>1
  <2>2. Owed(streams[id]) <= SumTo(OwedTo, MaxStreams) /\ SumTo(OwedTo, MaxStreams) \in Nat
    BY <1>2, <2>1, OwedMoves
  <2>. QED BY <1>1, <1>3, <2>2 DEF IInv, StreamsFunded
<1>6. /\ treasury' \in TreasuryAccount
      /\ treasury'.committed_to_streams = treasury.committed_to_streams - rest
      /\ treasury'.stream_count = treasury.stream_count
      /\ treasury'.epoch_duration = treasury.epoch_duration
      /\ treasury'.epoch_spend_cap = treasury.epoch_spend_cap
      /\ treasury'.spent_this_epoch = treasury.spent_this_epoch
      /\ treasury'.current_epoch = treasury.current_epoch
  <2>1. treasury.committed_to_streams - rest \in Nat
    BY <1>1, <1>3, <1>5
  <2>. QED BY <1>2, <1>3, <2>1 DEF TreasuryAccount
<1>7. treasury'.committed_to_streams <= vault' /\ vault' \in Nat
  BY <1>1, <1>2, <1>3, <1>5, <1>6
<1>8. streams'[id] = s
  BY <1>2 DEF IInv, TypeOK
<1>9. StreamInv(id)'
  <2>1. Exists(id)' /\ treasury.stream_count > id
    BY <1>1, <1>3, <1>4, <1>8 DEF Exists, IInv, StreamInv, StreamIds
  <2>2. StreamInv(id) /\ id \in Int
    BY DEF IInv, StreamIds
  <2>. QED BY <1>1, <1>2, <1>3, <1>4, <1>6, <1>8, <2>1, <2>2 DEF StreamInv
<1>10. /\ treasury'.committed_to_streams
            = treasury.committed_to_streams + Owed(s) - Owed(streams[id])
       /\ treasury'.stream_count >= treasury.stream_count
       /\ Owed(s) \in Int
  BY <1>1, <1>3, <1>6
<1>. QED BY <1>1, <1>2, <1>6, <1>7, <1>9, <1>10, StreamStepPreserves

LEMMA TickPreserves ==
    ASSUME IInv, NEW step \in Steps, Tick(step)
    PROVE  IInv'
<1>1. /\ now' = now + step /\ step \in Nat /\ now' <= Horizon /\ now \in Nat
      /\ treasury' = treasury /\ vault' = vault
      /\ streams' = streams /\ spent_at' = spent_at
  BY TreasuryAssumption, TreasuryFields DEF Tick, IInv
<1>2. now' \in Times /\ now' \in Nat /\ now' >= now
  BY <1>1, TreasuryAssumption DEF Times
<1>3. TypeOK'
  BY <1>1, <1>2 DEF IInv, TypeOK
<1>4. StreamsFunded'
  BY <1>1 DEF IInv, StreamsFunded, OwedTo
<1>5. \A id \in StreamIds : StreamInv(id)'
  <2>1. treasury'.stream_count \in Nat /\ treasury'.stream_count >= treasury.stream_count
    BY <1>1, TreasuryFields DEF IInv
  <2>. QED BY <1>1, <1>2, <2>1, StreamKept DEF IInv
<1>6. BudgetInv'
  BY <1>1, <1>2, BudgetKept DEF IInv
<1>. QED BY <1>3, <1>4, <1>5, <1>6 DEF IInv

LEMMA InitHolds ==
    ASSUME Init
    PROVE  IInv
<1>1. PICK executor \in Executors, cap \in Caps, duration \in Durations :
        /\ duration \in MIN_EPOCH_DURATION .. MAX_EPOCH_DURATION
        /\ treasury = [governance_executor  |-> executor,
                       total_deposited      |-> 0,
                       total_spent          |-> 0,
                       committed_to_streams |-> 0,
                       epoch_duration       |-> duration,
                       epoch_spend_cap      |-> cap,
                       spent_this_epoch     |-> 0,
                       current_epoch        |-> epoch_at(duration, now),
                       stream_count         |-> 0]
  BY DEF Init, initial_treasury
<1>2. /\ now = 0 /\ vault = 0 /\ streams = [id \in StreamIds |-> NoStream]
      /\ spent_at = [t \in Times |-> 0]
  BY DEF Init, initial_treasury
<1>3. duration \in Nat \ {0} /\ cap \in Nat
  BY <1>1, TreasuryAssumption
<1>4. epoch_at(duration, now) \in Nat
  BY <1>2, <1>3, DivMono DEF epoch_at
<1>5. TypeOK
  <2>1. treasury \in TreasuryAccount
    BY <1>1, <1>3, <1>4 DEF TreasuryAccount
  <2>2. NoStream \in VestingStream
    BY DEF NoStream, VestingStream
  <2>3. now \in Times
    BY <1>2, TreasuryAssumption DEF Times
  <2>. QED BY <1>2, <2>1, <2>2, <2>3 DEF TypeOK
<1>6. StreamsFunded
  <2>1. /\ OwedTo \in [0 .. MaxStreams - 1 -> Int]
        /\ \A i \in 0 .. MaxStreams - 1 : OwedTo[i] = 0
    BY <1>2, TreasuryAssumption DEF OwedTo, Owed, NoStream, StreamIds
  <2>2. SumTo(OwedTo, MaxStreams) = 0
    BY <2>1, TreasuryAssumption, SumOfZeros
  <2>. QED BY <1>1, <1>2, <2>2 DEF StreamsFunded
<1>7. \A id \in StreamIds : StreamInv(id)
  BY <1>2 DEF StreamInv, Exists, NoStream
<1>8. BudgetInv
  <2>1. ASSUME NEW e PROVE Spent(e) = 0
    <3>1. Horizon + 1 \in Nat /\ Times = 0 .. (Horizon + 1) - 1
      BY TreasuryAssumption DEF Times
    <3>2. /\ SpentInEpoch(e) \in [0 .. (Horizon + 1) - 1 -> Int]
          /\ \A t \in 0 .. (Horizon + 1) - 1 : SpentInEpoch(e)[t] = 0
      BY <1>2, <3>1 DEF SpentInEpoch
    <3>. QED BY <3>1, <3>2, SumOfZeros DEF Spent
  <2>. QED BY <1>1, <1>3, <2>1 DEF BudgetInv
<1>. QED BY <1>5, <1>6, <1>7, <1>8 DEF IInv

LEMMA NextPreserves ==
    ASSUME IInv, [Next]_vars
    PROVE  IInv'
<1>1. CASE \E amount \in DepositAmounts, fee \in Fees : deposit(amount, fee)
  BY <1>1, FundsPreserve
<1>2. CASE \E signer \in Executors, amount \in SpendAmounts, to_vault \in BOOLEAN :
             spend(signer, amount, to_vault)
  BY <1>2, SpendPreserves
<1>3. CASE \E signer \in Executors, cap \in Caps, duration \in Durations :
             set_spend_cap(signer, cap, duration)
  BY <1>3, SetCapPreserves
<1>4. CASE \E signer, executor \in Executors : set_governance_executor(signer, executor)
  BY <1>4, FundsPreserve
<1>5. CASE \E signer \in Executors, id \in StreamIds, beneficiary \in Beneficiaries,
              amount \in StreamAmounts, schedule \in Schedules :
             create_stream(signer, id, beneficiary, amount, schedule)
  BY <1>5, CreatePreserves
<1>6. CASE \E signer \in Beneficiaries, id \in StreamIds : claim_stream(signer, id)
  BY <1>6, ClaimPreserves
<1>7. CASE \E signer \in Executors, id \in StreamIds : revoke_stream(signer, id)
  BY <1>7, RevokePreserves
<1>8. CASE \E step \in Steps : Tick(step)
  BY <1>8, TickPreserves
<1>9. CASE \E amount \in DepositAmounts : Donate(amount)
  BY <1>9, FundsPreserve
<1>10. CASE UNCHANGED vars
  BY <1>10, FundsPreserve
<1>. QED BY <1>1, <1>2, <1>3, <1>4, <1>5, <1>6, <1>7, <1>8, <1>9, <1>10 DEF Next

\* The inductive invariant holds in every reachable state.
THEOREM Invariance == Spec => []IInv
<1>1. Init => IInv
  BY InitHolds
<1>2. IInv /\ [Next]_vars => IInv'
  BY NextPreserves
<1>. QED BY <1>1, <1>2, PTL DEF Spec

\* Every field of the Treasury and VestingStream accounts keeps its type:
\* committed_to_streams, the vault and claimed are never driven below zero.
THEOREM TypeCorrect == Spec => []TypeOK
<1>1. IInv => TypeOK
  BY DEF IInv
<1>. QED BY <1>1, Invariance, PTL

\* committed_to_streams is what the streams are owed, and the vault holds it,
\* through every interleaving of spend, create_stream, claim_stream and
\* revoke_stream.
THEOREM StreamsAlwaysFunded == Spec => []StreamsFunded
<1>1. IInv => StreamsFunded
  BY DEF IInv
<1>. QED BY <1>1, Invariance, PTL

\* Every schedule in force can be evaluated, at whatever moment: create_stream's
\* saturating_sub lets through some that cannot.
SpansFit ==
    \A id \in StreamIds : Exists(id) => streams[id].end_ts - streams[id].start_ts <= I64_MAX

\* What has vested can be claimed there and then, by its beneficiary, as long as
\* no stream's span overflows an i64: the vault has it and it is still committed,
\* whatever was spent, promised, revoked and paid before.
THEOREM ClaimIsNeverBlocked == Spec => [](SpansFit => ClaimNeverBlocked)
<1>1. IInv => (SpansFit => ClaimNeverBlocked)
  <2> SUFFICES ASSUME IInv, SpansFit, NEW id \in StreamIds, Exists(id),
                      claimable_at(streams[id], now) > 0
               PROVE  CanClaim(streams[id].beneficiary, id)
    BY DEF ClaimNeverBlocked
  <2> DEFINE amount == claimable_at(streams[id], now)
  <2>1. amount <= Owed(streams[id]) /\ Owed(streams[id]) \in Nat
    BY OwedCovers DEF IInv
  <2>2. /\ Owed(streams[id]) <= treasury.committed_to_streams
        /\ treasury.committed_to_streams <= vault
        /\ treasury.committed_to_streams \in Nat /\ vault \in Nat
    <3>1. OwedTo \in [0 .. MaxStreams - 1 -> Nat] /\ OwedTo[id] = Owed(streams[id])
      BY OwedCovers DEF IInv, OwedTo, StreamIds
    <3>2. OwedTo[id] <= SumTo(OwedTo, MaxStreams)
      BY <3>1, SumTerm, TreasuryAssumption DEF StreamIds
    <3>. QED BY <3>1, <3>2, TreasuryFields DEF IInv, StreamsFunded
  <2>3. amount \in Int
    <3>1. /\ streams[id] \in VestingStream /\ now \in Nat /\ now <= now
          /\ streams[id].claimed \in Nat
      BY TreasuryFields DEF IInv, TypeOK, VestingStream
    <3>2. /\ streams[id].start_ts <= streams[id].cliff_ts
          /\ streams[id].cliff_ts <= streams[id].end_ts
          /\ streams[id].start_ts < streams[id].end_ts
      BY DEF IInv, StreamInv
    <3>3. vested_at(streams[id], now) \in Nat
      BY <3>1, <3>2, VestedRises
    <3>. QED BY <3>1, <3>3 DEF claimable_at
  <2>4. amount <= vault /\ amount <= treasury.committed_to_streams
    <3> HIDE DEF amount
    <3>. QED BY <2>1, <2>2, <2>3
  <2>5. VestingComputable(streams[id], now)
    BY DEF VestingComputable, SpansFit
  <2>. QED BY <2>4, <2>5 DEF CanClaim
<1>. QED BY <1>1, Invariance, PTL

\* charge_epoch_budget's lazy rollover lets no epoch spend more than the cap.
THEOREM EpochBudgetAlwaysHolds == Spec => []EpochBudgetHolds
<1>1. IInv => EpochBudgetHolds
  BY DEF IInv, BudgetInv, EpochBudgetHolds, Spent
<1>. QED BY <1>1, Invariance, PTL

-----------------------------------------------------------------------------
(* What a step may do to an existing stream. *)

\* Only its own claim and its own revoke change an existing stream, and the
\* clock never runs backwards.
LEMMA StreamTouchedBy ==
    ASSUME IInv, [Next]_vars, NEW i \in StreamIds, Exists(i)
    PROVE  /\ now' \in Nat /\ now' >= now
           /\ \/ streams'[i] = streams[i]
              \/ \E signer \in Beneficiaries : claim_stream(signer, i)
              \/ \E signer \in Executors : revoke_stream(signer, i)
<1>1. now \in Nat
  BY TreasuryFields DEF IInv
<1>2. CASE \/ \E amount \in DepositAmounts, fee \in Fees : deposit(amount, fee)
           \/ \E signer \in Executors, amount \in SpendAmounts, to_vault \in BOOLEAN :
                spend(signer, amount, to_vault)
           \/ \E signer \in Executors, cap \in Caps, duration \in Durations :
                set_spend_cap(signer, cap, duration)
           \/ \E signer, executor \in Executors : set_governance_executor(signer, executor)
           \/ \E amount \in DepositAmounts : Donate(amount)
           \/ UNCHANGED vars
  <2>1. streams' = streams /\ now' = now
    BY <1>2 DEF deposit, spend, set_spend_cap, set_governance_executor, Donate, vars
  <2>. QED BY <1>1, <2>1
<1>3. CASE \E step \in Steps : Tick(step)
  <2>1. PICK step \in Steps : Tick(step)
    BY <1>3
  <2>2. streams' = streams /\ now' = now + step /\ step \in Nat
    BY <2>1, TreasuryAssumption DEF Tick
  <2>. QED BY <1>1, <2>2
<1>4. CASE \E signer \in Executors, id \in StreamIds, beneficiary \in Beneficiaries,
              amount \in StreamAmounts, schedule \in Schedules :
             create_stream(signer, id, beneficiary, amount, schedule)
  <2>1. PICK id \in StreamIds :
          /\ ~Exists(id) /\ now' = now
          /\ \E s : streams' = [streams EXCEPT ![id] = s]
    BY <1>4 DEF create_stream
  <2>2. i # id
    BY <2>1
  <2>3. streams'[i] = streams[i]
    BY <2>1, <2>2 DEF IInv, TypeOK
  <2>. QED BY <1>1, <2>1, <2>3
<1>5. CASE \E signer \in Beneficiaries, id \in StreamIds : claim_stream(signer, id)
  <2>1. PICK signer \in Beneficiaries, id \in StreamIds : claim_stream(signer, id)
    BY <1>5
  <2>2. now' = now /\ (i # id => streams'[i] = streams[i])
    BY <2>1 DEF claim_stream, CanClaim, IInv, TypeOK
  <2>. QED BY <1>1, <2>1, <2>2
<1>6. CASE \E signer \in Executors, id \in StreamIds : revoke_stream(signer, id)
  <2>1. PICK signer \in Executors, id \in StreamIds : revoke_stream(signer, id)
    BY <1>6
  <2>2. now' = now /\ (i # id => streams'[i] = streams[i])
    BY <2>1 DEF revoke_stream, IInv, TypeOK
  <2>. QED BY <1>1, <2>1, <2>2
<1>. QED BY <1>2, <1>3, <1>4, <1>5, <1>6 DEF Next

LEMMA NoClawback ==
    ASSUME IInv, [Next]_vars, NEW i \in StreamIds, Exists(i)
    PROVE  /\ vested_at(streams'[i], now') >= vested_at(streams[i], now)
           /\ streams'[i].claimed \in streams[i].claimed .. vested_at(streams'[i], now')
<1>1. /\ now' \in Nat /\ now' >= now /\ now \in Nat
      /\ streams[i] \in VestingStream /\ streams[i].claimed \in Nat
      /\ streams[i].start_ts <= streams[i].cliff_ts
      /\ streams[i].cliff_ts <= streams[i].end_ts
      /\ streams[i].start_ts < streams[i].end_ts
      /\ streams[i].claimed <= vested_at(streams[i], now)
  BY StreamTouchedBy, TreasuryFields DEF IInv, TypeOK, StreamInv, VestingStream
<1>2. /\ vested_at(streams[i], now) \in Nat /\ vested_at(streams[i], now') \in Nat
      /\ vested_at(streams[i], now) <= vested_at(streams[i], now')
  BY <1>1, VestedRises
<1>3. CASE streams'[i] = streams[i]
  BY <1>1, <1>2, <1>3
<1>4. CASE \E signer \in Beneficiaries : claim_stream(signer, i)
  <2>1. PICK signer \in Beneficiaries : claim_stream(signer, i)
    BY <1>4
  <2> DEFINE s == [streams[i] EXCEPT !.claimed = @ + claimable_at(streams[i], now)]
  <2>2. streams'[i] = s /\ now' = now
    BY <2>1 DEF claim_stream, CanClaim, IInv, TypeOK
  <2>3. /\ vested_at(s, now) = vested_at(streams[i], now)
        /\ s.claimed = vested_at(streams[i], now)
    BY <2>1, ClaimFacts
  <2> HIDE DEF s
  <2>. QED BY <1>1, <1>2, <2>2, <2>3
<1>5. CASE \E signer \in Executors : revoke_stream(signer, i)
  <2>1. PICK signer \in Executors : revoke_stream(signer, i)
    BY <1>5
  <2> DEFINE s == [streams[i] EXCEPT !.revoked = TRUE, !.revoked_at = now]
  <2>2. streams'[i] = s /\ now' = now
    BY <2>1 DEF revoke_stream, IInv, TypeOK
  <2>3. /\ vested_at(s, now) = vested_at(streams[i], now)
        /\ s.claimed = streams[i].claimed
    BY <2>1, RevokeFacts
  <2> HIDE DEF s
  <2>. QED BY <1>1, <1>2, <2>2, <2>3
<1>. QED BY <1>3, <1>4, <1>5, StreamTouchedBy

\* No instruction, revoke_stream included, takes back what has vested or what
\* was paid, and claim_stream never pays ahead of the schedule.
THEOREM NeverClawedBack == Spec => VestedNeverClawedBack
<1>1. IInv /\ [Next]_vars =>
        [\A id \in StreamIds :
           Exists(id) =>
             /\ vested_at(streams'[id], now') >= vested_at(streams[id], now)
             /\ streams'[id].claimed \in streams[id].claimed .. vested_at(streams'[id], now')]_vars
  BY NoClawback
<1>. QED BY <1>1, Invariance, PTL DEF Spec, VestedNeverClawedBack

-----------------------------------------------------------------------------
(* Every step is one of the escrow, or moves nothing it can see. *)

LEMMA OwedExcept ==
    ASSUME IInv, NEW id \in StreamIds, NEW s, streams' = [streams EXCEPT ![id] = s]
    PROVE  /\ OwedTo' = [OwedTo EXCEPT ![id] = Owed(s)]
           /\ OwedTo[id] = Owed(streams[id])
  BY DEF IInv, TypeOK, OwedTo

\* Tokens arrive.
LEMMA Receives ==
    ASSUME IInv,
           \/ \E amount \in DepositAmounts, fee \in Fees : deposit(amount, fee)
           \/ \E amount \in DepositAmounts : Donate(amount)
    PROVE  Ledger!Receive
<1>1. PICK n \in Int : /\ n > 0 /\ vault' = vault + n /\ streams' = streams
                       /\ treasury'.committed_to_streams = treasury.committed_to_streams
                       /\ treasury'.stream_count = treasury.stream_count
  <2>1. CASE \E amount \in DepositAmounts, fee \in Fees : deposit(amount, fee)
    <3>1. PICK amount \in DepositAmounts, fee \in Fees : deposit(amount, fee)
      BY <2>1
    <3>2. amount - fee \in Int
      BY TreasuryAssumption
    <3>3. /\ treasury'.committed_to_streams = treasury.committed_to_streams
          /\ treasury'.stream_count = treasury.stream_count
      BY <3>1 DEF deposit, IInv, TypeOK, TreasuryAccount
    <3>. QED BY <3>1, <3>2, <3>3 DEF deposit
  <2>2. CASE \E amount \in DepositAmounts : Donate(amount)
    BY <2>2, TreasuryAssumption DEF Donate
  <2>. QED BY <2>1, <2>2
<1>2. OwedTo' = OwedTo
  BY <1>1 DEF OwedTo
<1>3. vault' - treasury'.committed_to_streams > vault - treasury.committed_to_streams
  BY <1>1, TreasuryFields DEF IInv
<1>. QED BY <1>1, <1>2, <1>3 DEF Ledger!Receive

\* A spend disburses free tokens, or sends the vault its own.
LEMMA SpendDisburses ==
    ASSUME IInv, NEW signer \in Executors, NEW amount \in SpendAmounts,
           NEW to_vault \in BOOLEAN, spend(signer, amount, to_vault)
    PROVE  Ledger!Disburse \/ UNCHANGED Ledger!escrow_vars
<1>1. /\ amount \in Nat /\ amount > 0 /\ amount <= uncommitted(treasury, vault)
      /\ streams' = streams
      /\ vault' = IF to_vault THEN vault ELSE vault - amount
      /\ treasury'.committed_to_streams = treasury.committed_to_streams
      /\ treasury'.stream_count = treasury.stream_count
  BY TreasuryAssumption DEF spend, charge_epoch_budget, IInv, TypeOK, TreasuryAccount
<1>2. OwedTo' = OwedTo
  BY <1>1 DEF OwedTo
<1>3. CASE to_vault
  BY <1>1, <1>2, <1>3 DEF Ledger!escrow_vars
<1>4. CASE ~to_vault
  <2>1. vault' - treasury'.committed_to_streams \in 0 .. vault - treasury.committed_to_streams
    BY <1>1, <1>4, TreasuryFields DEF IInv, uncommitted
  <2>. QED BY <1>1, <1>2, <2>1 DEF Ledger!Disburse
<1>. QED BY <1>3, <1>4

LEMMA CreatePromises ==
    ASSUME IInv, NEW signer \in Executors, NEW id \in StreamIds,
           NEW beneficiary \in Beneficiaries, NEW amount \in StreamAmounts,
           NEW schedule \in Schedules,
           create_stream(signer, id, beneficiary, amount, schedule)
    PROVE  Ledger!Promise(id)
<1> DEFINE s == new_stream(beneficiary, amount, schedule)
<1>1. /\ amount \in Nat /\ amount > 0
      /\ amount <= vault - treasury.committed_to_streams
      /\ Owed(s) = amount
  BY CreateFacts
<1>2. /\ id = treasury.stream_count
      /\ streams' = [streams EXCEPT ![id] = s] /\ vault' = vault
      /\ treasury'.committed_to_streams = treasury.committed_to_streams + amount
      /\ treasury'.stream_count = treasury.stream_count + 1
  BY DEF create_stream, IInv, TypeOK, TreasuryAccount
<1> HIDE DEF s
<1>3. OwedTo' = [OwedTo EXCEPT ![id] = amount]
  BY <1>1, <1>2, OwedExcept
<1>4. /\ amount \in 1 .. vault - treasury.committed_to_streams
      /\ vault' - treasury'.committed_to_streams
           = (vault - treasury.committed_to_streams) - amount
  BY <1>1, <1>2, TreasuryFields DEF IInv
<1>. QED BY <1>2, <1>3, <1>4 DEF Ledger!Promise

LEMMA ClaimPays ==
    ASSUME IInv, NEW signer \in Beneficiaries, NEW id \in StreamIds,
           claim_stream(signer, id)
    PROVE  Ledger!Pay(id)
<1> DEFINE amount == claimable_at(streams[id], now)
           s == [streams[id] EXCEPT !.claimed = @ + amount]
<1>1. /\ amount \in Nat /\ amount > 0
      /\ amount <= Owed(streams[id]) /\ Owed(streams[id]) \in Nat
      /\ Owed(s) = Owed(streams[id]) - amount
  BY ClaimFacts
<1>2. /\ vault' = vault - amount
      /\ streams' = [streams EXCEPT ![id] = s]
      /\ treasury'.committed_to_streams = treasury.committed_to_streams - amount
      /\ treasury'.stream_count = treasury.stream_count
  BY DEF IInv, TypeOK, TreasuryAccount, claim_stream, CanClaim
<1> HIDE DEF amount, s
<1>3. OwedTo' = [OwedTo EXCEPT ![id] = @ - amount] /\ OwedTo[id] = Owed(streams[id])
  <2>1. OwedTo' = [OwedTo EXCEPT ![id] = Owed(s)] /\ OwedTo[id] = Owed(streams[id])
    BY <1>2, OwedExcept
  <2>. QED BY <1>1, <2>1
<1>4. amount \in 1 .. OwedTo[id]
  BY <1>1, <1>3
<1>5. vault' - treasury'.committed_to_streams = vault - treasury.committed_to_streams
  BY <1>1, <1>2, TreasuryFields DEF IInv
<1>. QED BY <1>2, <1>3, <1>4, <1>5 DEF Ledger!Pay

LEMMA RevokeReleases ==
    ASSUME IInv, NEW signer \in Executors, NEW id \in StreamIds,
           revoke_stream(signer, id)
    PROVE  Ledger!Release(id)
<1> DEFINE s == [streams[id] EXCEPT !.revoked = TRUE, !.revoked_at = now]
           rest == unvested_remainder(s)
<1>1. /\ rest \in Nat /\ rest <= Owed(streams[id]) /\ Owed(streams[id]) \in Nat
      /\ Owed(s) = Owed(streams[id]) - rest
  BY RevokeFacts
<1>2. /\ vault' = vault
      /\ streams' = [streams EXCEPT ![id] = s]
      /\ treasury'.committed_to_streams = treasury.committed_to_streams - rest
      /\ treasury'.stream_count = treasury.stream_count
  BY DEF IInv, TypeOK, TreasuryAccount, revoke_stream
<1> HIDE DEF rest, s
<1>3. OwedTo' = [OwedTo EXCEPT ![id] = @ - rest] /\ OwedTo[id] = Owed(streams[id])
  <2>1. OwedTo' = [OwedTo EXCEPT ![id] = Owed(s)] /\ OwedTo[id] = Owed(streams[id])
    BY <1>2, OwedExcept
  <2>. QED BY <1>1, <2>1
<1>4. rest \in 0 .. OwedTo[id]
  BY <1>1, <1>3
<1>5. vault' - treasury'.committed_to_streams
        = (vault - treasury.committed_to_streams) + rest
  BY <1>1, <1>2, TreasuryFields DEF IInv
<1>. QED BY <1>2, <1>3, <1>4, <1>5 DEF Ledger!Release

\* What the escrow cannot see.
LEMMA QuietStutters ==
    ASSUME IInv,
           \/ \E signer \in Executors, cap \in Caps, duration \in Durations :
                set_spend_cap(signer, cap, duration)
           \/ \E signer, executor \in Executors : set_governance_executor(signer, executor)
           \/ \E step \in Steps : Tick(step)
           \/ UNCHANGED vars
    PROVE  UNCHANGED Ledger!escrow_vars
<1>1. /\ vault' = vault /\ streams' = streams
      /\ treasury'.committed_to_streams = treasury.committed_to_streams
      /\ treasury'.stream_count = treasury.stream_count
  BY DEF IInv, TypeOK, TreasuryAccount, set_spend_cap, set_governance_executor, Tick, vars
<1>2. OwedTo' = OwedTo
  BY <1>1 DEF OwedTo
<1>. QED BY <1>1, <1>2 DEF Ledger!escrow_vars

LEMMA StepSimulates ==
    ASSUME IInv, [Next]_vars
    PROVE  [Ledger!EscrowNext]_(Ledger!escrow_vars)
<1>1. CASE \/ \E amount \in DepositAmounts, fee \in Fees : deposit(amount, fee)
           \/ \E amount \in DepositAmounts : Donate(amount)
  BY <1>1, Receives DEF Ledger!EscrowNext
<1>2. CASE \E signer \in Executors, amount \in SpendAmounts, to_vault \in BOOLEAN :
             spend(signer, amount, to_vault)
  BY <1>2, SpendDisburses DEF Ledger!EscrowNext
<1>3. CASE \E signer \in Executors, id \in StreamIds, beneficiary \in Beneficiaries,
              amount \in StreamAmounts, schedule \in Schedules :
             create_stream(signer, id, beneficiary, amount, schedule)
  BY <1>3, CreatePromises DEF Ledger!EscrowNext
<1>4. CASE \E signer \in Beneficiaries, id \in StreamIds : claim_stream(signer, id)
  BY <1>4, ClaimPays DEF Ledger!EscrowNext
<1>5. CASE \E signer \in Executors, id \in StreamIds : revoke_stream(signer, id)
  BY <1>5, RevokeReleases DEF Ledger!EscrowNext
<1>6. CASE \/ \E signer \in Executors, cap \in Caps, duration \in Durations :
                set_spend_cap(signer, cap, duration)
           \/ \E signer, executor \in Executors : set_governance_executor(signer, executor)
           \/ \E step \in Steps : Tick(step)
           \/ UNCHANGED vars
  BY <1>6, QuietStutters
<1>. QED BY <1>1, <1>2, <1>3, <1>4, <1>5, <1>6 DEF Next

LEMMA InitSimulates ==
    ASSUME Init
    PROVE  Ledger!EscrowInit
<1>1. /\ treasury.committed_to_streams = 0 /\ treasury.stream_count = 0
      /\ vault = 0 /\ streams = [id \in StreamIds |-> NoStream]
  BY DEF Init, initial_treasury
<1>2. OwedTo = [id \in StreamIds |-> 0]
  BY <1>1 DEF OwedTo, Owed, NoStream
<1>. QED BY <1>1, <1>2 DEF Ledger!EscrowInit

\* The treasury implements the escrow: funds leave the vault only out of what
\* is free or to the stream they are owed to.
THEOREM TreasuryImplementsEscrow == Spec => ImplementsEscrow
<1>1. Init => Ledger!EscrowInit
  BY InitSimulates
<1>2. IInv /\ [Next]_vars => [Ledger!EscrowNext]_(Ledger!escrow_vars)
  BY StepSimulates
<1>. QED BY <1>1, <1>2, Invariance, PTL DEF Spec, ImplementsEscrow, Ledger!EscrowSpec
=============================================================================
