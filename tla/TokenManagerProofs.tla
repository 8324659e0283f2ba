------------------------- MODULE TokenManagerProofs -------------------------
(* Safety of TokenManager for every value of its constants. *)
EXTENDS TokenManager, FiniteSumLemmas, TLAPS

Issued(a, e) == SumTo(IssuedIn(a, e), Horizon + 1)

\* The entry's counter covers what was issued in its epoch, nothing was issued
\* in a later one, and an address without an entry never issued.
MinterInv(a) ==
    /\ Exists(a) =>
         /\ minters[a].current_epoch <= epoch_at(minters[a], now)
         /\ Issued(a, minters[a].current_epoch) <= minters[a].minted_this_epoch
         /\ \A e \in Nat : e > minters[a].current_epoch => Issued(a, e) = 0
    /\ ~Exists(a) => minters[a] = NoMinter /\ issued[a] = [t \in Times |-> 0]

IInv ==
    /\ TypeOK
    /\ SupplyReconciles
    /\ \A a \in Authorities : MinterInv(a)

-----------------------------------------------------------------------------

LEMMA Fields ==
    ASSUME TypeOK
    PROVE  /\ config.total_minted \in Nat /\ config.total_burned \in Nat
           /\ config.minter_count \in 0 .. MAX_MINTERS
           /\ supply \in Nat /\ now \in Nat /\ now \in Times
           /\ Horizon + 1 \in Nat /\ Times = 0 .. (Horizon + 1) - 1
           /\ \A a \in Authorities :
                /\ minters[a] \in Minter
                /\ minters[a].epoch_duration \in Nat /\ minters[a].current_epoch \in Nat
                /\ minters[a].minted_this_epoch \in Nat /\ minters[a].total_minted \in Nat
                /\ minters[a].epoch_cap \in Nat
                /\ issued[a] \in [Times -> Nat]
  BY TokenManagerAssumption DEF TypeOK, TokenConfig, Minter, Times

LEMMA EpochType ==
    ASSUME TypeOK, NEW a \in Authorities, Exists(a), NEW t \in Nat, NEW u \in Nat, t <= u
    PROVE  /\ epoch_at(minters[a], t) \in Nat /\ epoch_at(minters[a], u) \in Nat
           /\ epoch_at(minters[a], t) <= epoch_at(minters[a], u)
<1>1. minters[a].epoch_duration \in Nat \ {0}
  BY Fields DEF Exists
<1>. QED BY <1>1, DivMono DEF epoch_at

LEMMA IssuedType ==
    ASSUME TypeOK, NEW a \in Authorities, NEW e
    PROVE  /\ IssuedIn(a, e) \in [0 .. (Horizon + 1) - 1 -> Nat]
           /\ Issued(a, e) \in Nat
<1>1. IssuedIn(a, e) \in [0 .. (Horizon + 1) - 1 -> Nat] /\ Horizon + 1 \in Nat
  BY Fields DEF IssuedIn
<1>. QED BY <1>1, SumOfNats DEF Issued

\* An address whose entry keeps its epochs and issues nothing keeps its history.
LEMMA MinterKept ==
    ASSUME TypeOK, NEW a \in Authorities, MinterInv(a),
           issued'[a] = issued[a], now' \in Nat, now' >= now,
           minters'[a].epoch_duration = minters[a].epoch_duration,
           minters'[a].current_epoch = minters[a].current_epoch,
           minters'[a].minted_this_epoch = minters[a].minted_this_epoch,
           Exists(a) \/ minters'[a] = minters[a]
    PROVE  MinterInv(a)'
<1>1. \A e : Issued(a, e)' = Issued(a, e)
  BY DEF Issued, IssuedIn, epoch_at
<1>2. Exists(a)' <=> Exists(a)
  BY DEF Exists
<1>3. ASSUME Exists(a)
      PROVE  minters'[a].current_epoch <= epoch_at(minters'[a], now')
  <2>1. /\ epoch_at(minters[a], now) \in Nat /\ epoch_at(minters[a], now') \in Nat
        /\ epoch_at(minters[a], now) <= epoch_at(minters[a], now')
    BY <1>3, Fields, EpochType
  <2>2. epoch_at(minters'[a], now') = epoch_at(minters[a], now')
    BY DEF epoch_at
  <2>3. minters[a].current_epoch <= epoch_at(minters[a], now) /\ minters[a].current_epoch \in Nat
    BY <1>3, Fields DEF MinterInv
  <2>. QED BY <2>1, <2>2, <2>3
<1>4. CASE Exists(a)
  BY <1>1, <1>2, <1>3, <1>4 DEF MinterInv
<1>5. CASE ~Exists(a)
  BY <1>2, <1>5 DEF MinterInv
<1>. QED BY <1>4, <1>5

\* The lifetime totals, when one entry's moves by d.
LEMMA TotalsMove ==
    ASSUME TypeOK, NEW a \in Authorities, NEW m, m.total_minted \in Int,
           minters' = [minters EXCEPT ![a] = m]
    PROVE  /\ SumTo(TotalOf', NumAuthorities)
                = SumTo(TotalOf, NumAuthorities) + m.total_minted - minters[a].total_minted
           /\ SumTo(TotalOf, NumAuthorities) \in Nat
<1> DEFINE f == TotalOf
           g == TotalOf'
<1>1. NumAuthorities \in Nat /\ Authorities = 0 .. NumAuthorities - 1
  BY TokenManagerAssumption DEF Authorities
<1>2. f \in [0 .. NumAuthorities - 1 -> Nat]
  BY <1>1, Fields DEF TotalOf
<1>3. minters'[a] = m /\ \A b \in Authorities : b # a => minters'[b] = minters[b]
  BY DEF TypeOK
<1>4. g \in [0 .. NumAuthorities - 1 -> Int]
  BY <1>1, <1>3, Fields DEF TotalOf
<1>5. /\ \A b \in 0 .. NumAuthorities - 1 : b # a => g[b] = f[b]
      /\ g[a] = m.total_minted /\ f[a] = minters[a].total_minted
  BY <1>1, <1>3 DEF TotalOf
<1> HIDE DEF f, g
<1>6. a \in 0 .. NumAuthorities - 1 /\ f \in [0 .. NumAuthorities - 1 -> Int]
  BY <1>1, <1>2
<1>7. SumTo(g, NumAuthorities) = SumTo(f, NumAuthorities) + g[a] - f[a]
  <2>1. \A b \in 0 .. NumAuthorities - 1 : b # a => g[b] = f[b]
    BY <1>5
  <2>. QED BY <1>1, <1>4, <1>6, <2>1, SumUpdate
<1>8. SumTo(f, NumAuthorities) \in Nat
  BY <1>1, <1>2, SumOfNats
<1>. QED BY <1>5, <1>7, <1>8 DEF f, g

-----------------------------------------------------------------------------
(* Issuance. *)

\* What mint_to makes of the entry, and of its history.
LEMMA MintFacts ==
    ASSUME IInv, NEW a \in Authorities, NEW amount \in Amounts, mint_to(a, amount)
    PROVE  LET m == accrue(minters[a], amount, now)
               e == epoch_at(minters[a], now)
           IN
           /\ Exists(a) /\ amount \in Nat /\ amount > 0 /\ e \in Nat
           /\ ~config.paused /\ minters[a].enabled
           /\ m \in Minter
           /\ m.epoch_duration = minters[a].epoch_duration
           /\ m.total_minted = minters[a].total_minted + amount
           /\ m.current_epoch = e
           /\ m.minted_this_epoch <= minters[a].epoch_cap
           /\ Issued(a, e) + amount <= m.minted_this_epoch
           /\ \A x \in Nat : x > e => Issued(a, x) = 0
<1> DEFINE e == epoch_at(minters[a], now)
           old == minters[a]
           m == accrue(old, amount, now)
           base == rolled(old, now).minted_this_epoch
<1>1. Exists(a) /\ amount \in Nat /\ amount > 0 /\ ~config.paused /\ old.enabled
  BY TokenManagerAssumption DEF mint_to, CanAccrue
<1>2. base + amount <= old.epoch_cap
  BY DEF mint_to, CanAccrue
<1>3. /\ old \in Minter /\ old.current_epoch \in Nat /\ old.minted_this_epoch \in Nat
      /\ old.total_minted \in Nat /\ now \in Nat
  BY Fields DEF IInv
<1>4. e \in Nat
  <2>1. now <= now
    BY <1>3
  <2>. QED BY <1>1, <1>3, <2>1, EpochType DEF IInv
<1>5. old.current_epoch <= e
  BY <1>1 DEF IInv, MinterInv
<1>6. base = IF e = old.current_epoch THEN old.minted_this_epoch ELSE 0
  BY <1>3 DEF rolled, Minter
<1>7. base \in Nat
  BY <1>3, <1>6
<1>8. /\ rolled(old, now) = [old EXCEPT !.current_epoch = e, !.minted_this_epoch = base]
      /\ rolled(old, now) \in Minter
  <2> HIDE DEF e, base, old
  <2>1. rolled(old, now) = IF e = old.current_epoch THEN old
                           ELSE [old EXCEPT !.current_epoch = e, !.minted_this_epoch = 0]
    BY DEF rolled, e, old
  <2>2. CASE e = old.current_epoch
    BY <1>3, <1>4, <1>6, <1>7, <2>1, <2>2 DEF Minter
  <2>3. CASE e # old.current_epoch
    BY <1>3, <1>4, <1>6, <1>7, <2>1, <2>3 DEF Minter
  <2>. QED BY <2>2, <2>3
<1>9. m = [old EXCEPT !.current_epoch = e, !.minted_this_epoch = base + amount,
                      !.total_minted = @ + amount]
  <2> HIDE DEF e, base, old
  <2>1. m = [rolled(old, now) EXCEPT !.minted_this_epoch = @ + amount,
                                     !.total_minted = @ + amount]
    BY DEF accrue
  <2>. QED BY <1>3, <1>8, <2>1 DEF Minter
<1>10. /\ m \in Minter /\ m.epoch_duration = old.epoch_duration
       /\ m.total_minted = old.total_minted + amount
       /\ m.current_epoch = e /\ m.minted_this_epoch = base + amount
  <2> HIDE DEF e, base, old, m
  <2>1. base + amount \in Nat /\ old.total_minted + amount \in Nat
    BY <1>1, <1>3, <1>7
  <2>. QED BY <1>3, <1>4, <1>9, <2>1 DEF Minter
<1>11. /\ Issued(a, old.current_epoch) <= old.minted_this_epoch
       /\ \A x \in Nat : x > old.current_epoch => Issued(a, x) = 0
  BY <1>1 DEF IInv, MinterInv
<1> HIDE DEF e, base, old, m
<1>12. Issued(a, e) <= base /\ Issued(a, e) \in Nat
  <2>1. Issued(a, e) \in Nat
    BY IssuedType DEF IInv
  <2>. QED BY <1>3, <1>4, <1>5, <1>6, <1>11, <2>1
<1>13. \A x \in Nat : x > e => Issued(a, x) = 0
  BY <1>3, <1>4, <1>5, <1>11
<1>14. Issued(a, e) + amount <= m.minted_this_epoch /\ m.minted_this_epoch <= old.epoch_cap
  BY <1>1, <1>2, <1>7, <1>10, <1>12
<1>. QED BY <1>1, <1>4, <1>10, <1>13, <1>14 DEF e, old, m

\* The history of the minter after the step.
LEMMA IssueCharged ==
    ASSUME IInv, NEW a \in Authorities, NEW amount \in Nat, NEW e,
           issued' = [issued EXCEPT ![a][now] = @ + amount],
           minters'[a].epoch_duration = minters[a].epoch_duration
    PROVE  Issued(a, e)' = IF e = epoch_at(minters[a], now)
                           THEN Issued(a, e) + amount ELSE Issued(a, e)
<1> DEFINE f == IssuedIn(a, e)
           g == IssuedIn(a, e)'
           N == Horizon + 1
<1>1. now \in 0 .. N - 1 /\ Times = 0 .. N - 1 /\ N \in Nat
  BY Fields DEF IInv
<1>2. f \in [0 .. N - 1 -> Nat]
  BY IssuedType DEF IInv
<1>3. issued'[a] = [issued[a] EXCEPT ![now] = @ + amount] /\ issued[a] \in [Times -> Nat]
  BY DEF IInv, TypeOK
<1>4. \A t : epoch_at(minters'[a], t) = epoch_at(minters[a], t)
  BY DEF epoch_at
<1>5. g \in [0 .. N - 1 -> Nat]
  <2>1. issued'[a] \in [Times -> Nat]
    BY <1>1, <1>3
  <2>. QED BY <1>1, <2>1 DEF IssuedIn
<1>6. \A t \in 0 .. N - 1 : t # now => g[t] = f[t]
  BY <1>1, <1>3, <1>4 DEF IssuedIn
<1>7. IF e = epoch_at(minters[a], now) THEN g[now] = f[now] + amount ELSE g[now] = f[now]
  BY <1>1, <1>3, <1>4 DEF IssuedIn
<1> HIDE DEF f, g, N
<1>8. f \in [0 .. N - 1 -> Int] /\ g \in [0 .. N - 1 -> Int]
  BY <1>2, <1>5
<1>9. SumTo(g, N) = SumTo(f, N) + g[now] - f[now]
  BY <1>1, <1>6, <1>8, SumUpdate
<1>10. SumTo(f, N) \in Nat /\ f[now] \in Nat
  BY <1>1, <1>2, SumOfNats
<1>11. SumTo(g, N) = IF e = epoch_at(minters[a], now)
                     THEN SumTo(f, N) + amount ELSE SumTo(f, N)
  BY <1>7, <1>9, <1>10
<1>. QED BY <1>11 DEF f, g, N, Issued

LEMMA IssueTotalled ==
    ASSUME IInv, NEW a \in Authorities, NEW amount \in Nat,
           issued' = [issued EXCEPT ![a][now] = @ + amount]
    PROVE  /\ SumTo(issued'[a], Horizon + 1) = SumTo(issued[a], Horizon + 1) + amount
           /\ issued' \in [Authorities -> [Times -> Nat]]
<1> DEFINE f == issued[a]
           g == issued'[a]
           N == Horizon + 1
<1>1. now \in 0 .. N - 1 /\ Times = 0 .. N - 1 /\ N \in Nat
  BY Fields DEF IInv
<1>2. g = [f EXCEPT ![now] = @ + amount] /\ f \in [0 .. N - 1 -> Nat]
  BY <1>1 DEF IInv, TypeOK
<1> HIDE DEF f, g, N
<1>3. /\ g \in [0 .. N - 1 -> Int] /\ f \in [0 .. N - 1 -> Int]
      /\ \A t \in 0 .. N - 1 : t # now => g[t] = f[t]
      /\ g[now] = f[now] + amount /\ f[now] \in Nat
  BY <1>1, <1>2
<1>4. SumTo(g, N) = SumTo(f, N) + g[now] - f[now]
  BY <1>1, <1>3, SumUpdate
<1>5. SumTo(f, N) \in Nat
  BY <1>1, <1>2, SumOfNats
<1>6. SumTo(g, N) = SumTo(f, N) + amount
  BY <1>3, <1>4, <1>5
<1>7. issued' \in [Authorities -> [Times -> Nat]]
  BY <1>1 DEF IInv, TypeOK
<1>. QED BY <1>6, <1>7 DEF f, g, N

LEMMA MintPreserves ==
    ASSUME IInv, NEW a \in Authorities, NEW amount \in Amounts, mint_to(a, amount)
    PROVE  IInv'
<1> DEFINE m == accrue(minters[a], amount, now)
<1>e. PICK e \in Nat : e = epoch_at(minters[a], now)
  BY MintFacts
<1>1. /\ Exists(a) /\ amount \in Nat /\ amount > 0 /\ e \in Nat
      /\ m \in Minter
      /\ m.epoch_duration = minters[a].epoch_duration
      /\ m.total_minted = minters[a].total_minted + amount
      /\ m.current_epoch = e
      /\ Issued(a, e) + amount <= m.minted_this_epoch
      /\ \A x \in Nat : x > e => Issued(a, x) = 0
  BY <1>e, MintFacts
<1>2. /\ minters' = [minters EXCEPT ![a] = m]
      /\ supply' = supply + amount
      /\ config' = [config EXCEPT !.total_minted = @ + amount]
      /\ issued' = [issued EXCEPT ![a][now] = @ + amount]
      /\ now' = now
  BY DEF mint_to
<1> HIDE DEF m
<1>3. /\ minters'[a] = m /\ \A b \in Authorities : b # a => minters'[b] = minters[b]
      /\ \A b \in Authorities : b # a => issued'[b] = issued[b]
  BY <1>2 DEF IInv, TypeOK
<1>4. /\ config.total_minted \in Nat /\ config.total_burned \in Nat /\ supply \in Nat
      /\ now \in Nat /\ minters[a].total_minted \in Nat
  BY Fields DEF IInv
<1>5. /\ config' \in TokenConfig /\ config'.total_minted = config.total_minted + amount
      /\ config'.total_burned = config.total_burned
  <2>1. config \in TokenConfig /\ config.total_minted + amount \in Nat
    BY <1>1, <1>4 DEF IInv, TypeOK
  <2>. QED BY <1>2, <2>1 DEF TokenConfig
<1>6. /\ SumTo(issued'[a], Horizon + 1) = SumTo(issued[a], Horizon + 1) + amount
      /\ issued' \in [Authorities -> [Times -> Nat]]
  BY <1>1, <1>2, IssueTotalled
<1>7. TypeOK'
  BY <1>1, <1>2, <1>4, <1>5, <1>6 DEF IInv, TypeOK
<1>8. SupplyReconciles'
  <2>1. /\ SumTo(TotalOf', NumAuthorities)
             = SumTo(TotalOf, NumAuthorities) + m.total_minted - minters[a].total_minted
        /\ SumTo(TotalOf, NumAuthorities) \in Nat
    <3>1. m.total_minted \in Int
      BY <1>1, <1>4
    <3>. QED BY <1>2, <3>1, TotalsMove DEF IInv
  <2>2. config'.total_minted = SumTo(TotalOf', NumAuthorities)
    BY <1>1, <1>4, <1>5, <2>1 DEF IInv, SupplyReconciles
  <2>3. ASSUME NEW b \in Authorities
        PROVE  minters'[b].total_minted = SumTo(issued'[b], Horizon + 1)
    <3>1. minters[b].total_minted = SumTo(issued[b], Horizon + 1)
      BY DEF IInv, SupplyReconciles
    <3>. QED BY <1>1, <1>3, <1>6, <3>1
  <2>4. supply' + config'.total_burned <= config'.total_minted
    BY <1>1, <1>2, <1>4, <1>5 DEF IInv, SupplyReconciles
  <2>. QED BY <2>2, <2>3, <2>4 DEF SupplyReconciles
<1>9. ASSUME NEW b \in Authorities PROVE MinterInv(b)'
  <2>1. CASE b # a
    <3>1. now' \in Nat /\ now' >= now
      BY <1>2, <1>4
    <3>. QED BY <1>3, <2>1, <3>1, MinterKept DEF IInv
  <2>2. CASE b = a
    <3>1. \A x : Issued(a, x)' = IF x = e THEN Issued(a, x) + amount ELSE Issued(a, x)
      <4>1. minters'[a].epoch_duration = minters[a].epoch_duration
        BY <1>1, <1>3
      <4>. QED BY <1>e, <1>1, <1>2, <4>1, IssueCharged
    <3>2. Exists(a)'
      BY <1>1, <1>3 DEF Exists
    <3>3. epoch_at(minters'[a], now') = e
      BY <1>e, <1>1, <1>2, <1>3 DEF epoch_at
    <3>4. minters'[a].current_epoch = e
      BY <1>1, <1>3
    <3>5. Issued(a, e)' <= minters'[a].minted_this_epoch
      BY <1>1, <1>3, <3>1
    <3>6. \A x \in Nat : x > e => Issued(a, x)' = 0
      BY <1>1, <3>1
    <3>. QED BY <1>1, <2>2, <3>2, <3>3, <3>4, <3>5, <3>6 DEF MinterInv
  <2>. QED BY <2>1, <2>2
<1>. QED BY <1>7, <1>8, <1>9 DEF IInv

-----------------------------------------------------------------------------
(* Everything else. *)

\* A step that issues nothing and leaves every entry its epochs and its totals.
LEMMA QuietPreserves ==
    ASSUME IInv, config' \in TokenConfig, minters' \in [Authorities -> Minter],
           supply' \in Nat, now' \in Times, now' >= now, issued' = issued,
           config'.total_minted = config.total_minted,
           supply' + config'.total_burned <= config.total_minted,
           \A a \in Authorities :
             /\ minters'[a].epoch_duration = minters[a].epoch_duration
             /\ minters'[a].current_epoch = minters[a].current_epoch
             /\ minters'[a].minted_this_epoch = minters[a].minted_this_epoch
             /\ minters'[a].total_minted = minters[a].total_minted
             /\ Exists(a) \/ minters'[a] = minters[a]
    PROVE  IInv'
<1>1. TypeOK'
  BY DEF IInv, TypeOK
<1>2. TotalOf' = TotalOf
  BY DEF TotalOf
<1>3. SupplyReconciles'
  BY <1>2 DEF IInv, SupplyReconciles
<1>4. now' \in Nat
  BY TokenManagerAssumption DEF Times
<1>5. \A a \in Authorities : MinterInv(a)'
  BY <1>4, MinterKept DEF IInv
<1>. QED BY <1>1, <1>3, <1>5 DEF IInv

LEMMA BurnsPreserve ==
    ASSUME IInv, NEW amount \in Amounts, burn(amount) \/ BurnDirectly(amount)
    PROVE  IInv'
<1>1. /\ amount \in Nat /\ supply \in Nat /\ config \in TokenConfig
      /\ config.total_burned \in Nat /\ config.total_minted \in Nat
      /\ now \in Times /\ now \in Nat
      /\ supply + config.total_burned <= config.total_minted
      /\ minters \in [Authorities -> Minter]
  BY Fields, TokenManagerAssumption DEF IInv, TypeOK, SupplyReconciles
<1>2. /\ amount <= supply /\ supply' = supply - amount
      /\ minters' = minters /\ now' = now /\ issued' = issued
      /\ \/ config' = config
         \/ config' = [config EXCEPT !.total_burned = @ + amount]
  BY DEF burn, CanBurn, BurnDirectly
<1>3. /\ config' \in TokenConfig
      /\ config'.total_minted = config.total_minted
      /\ config'.total_burned \in {config.total_burned, config.total_burned + amount}
  <2>1. config.total_burned + amount \in Nat
    BY <1>1
  <2>. QED BY <1>1, <1>2, <2>1 DEF TokenConfig
<1>4. supply' \in Nat /\ supply' + config'.total_burned <= config.total_minted
  BY <1>1, <1>2, <1>3
<1>5. now' \in Times /\ now' >= now
  BY <1>1, <1>2
<1>. QED BY <1>1, <1>2, <1>3, <1>4, <1>5, QuietPreserves

LEMMA ModifyPreserves ==
    ASSUME IInv, NEW signer \in Admins, NEW a \in Authorities,
           \/ revoke_minter(signer, a)
           \/ \E cap \in Caps, enabled \in BOOLEAN : update_minter(signer, a, cap, enabled)
    PROVE  IInv'
<1>1. /\ supply \in Nat /\ config \in TokenConfig
      /\ config.total_burned \in Nat /\ config.total_minted \in Nat
      /\ now \in Times /\ now \in Nat /\ config.minter_count \in 0 .. MAX_MINTERS
      /\ supply + config.total_burned <= config.total_minted
      /\ minters \in [Authorities -> Minter]
  BY Fields DEF IInv, TypeOK, SupplyReconciles
<1>2. /\ Exists(a) /\ supply' = supply /\ now' = now /\ issued' = issued
      /\ \E cap \in Nat, enabled \in BOOLEAN :
           minters' = [minters EXCEPT ![a].epoch_cap = cap, ![a].enabled = enabled]
      /\ \/ config' = config
         \/ config' = [config EXCEPT !.minter_count = saturating_decrement(@)]
  <2>1. CASE revoke_minter(signer, a)
    <3>1. minters' = [minters EXCEPT ![a].epoch_cap = 0, ![a].enabled = FALSE]
      BY <1>1, <2>1 DEF revoke_minter, Minter
    <3>. QED BY <2>1, <3>1 DEF revoke_minter
  <2>2. CASE \E cap \in Caps, enabled \in BOOLEAN : update_minter(signer, a, cap, enabled)
    BY <2>2, TokenManagerAssumption DEF update_minter
  <2>. QED BY <2>1, <2>2
<1>3. PICK cap \in Nat, enabled \in BOOLEAN :
        minters' = [minters EXCEPT ![a].epoch_cap = cap, ![a].enabled = enabled]
  BY <1>2
<1>4. /\ minters' \in [Authorities -> Minter]
      /\ \A b \in Authorities :
           /\ minters'[b].epoch_duration = minters[b].epoch_duration
           /\ minters'[b].current_epoch = minters[b].current_epoch
           /\ minters'[b].minted_this_epoch = minters[b].minted_this_epoch
           /\ minters'[b].total_minted = minters[b].total_minted
           /\ Exists(b) \/ minters'[b] = minters[b]
  <2>1. /\ minters'[a] = [minters[a] EXCEPT !.epoch_cap = cap, !.enabled = enabled]
        /\ \A b \in Authorities : b # a => minters'[b] = minters[b]
        /\ DOMAIN minters' = Authorities
        /\ minters' = [b \in Authorities |-> minters'[b]]
    BY <1>1, <1>3
  <2>2. /\ minters'[a] \in Minter
        /\ minters'[a].epoch_duration = minters[a].epoch_duration
        /\ minters'[a].current_epoch = minters[a].current_epoch
        /\ minters'[a].minted_this_epoch = minters[a].minted_this_epoch
        /\ minters'[a].total_minted = minters[a].total_minted
    BY <1>1, <2>1 DEF Minter
  <2>3. \A b \in Authorities : minters'[b] \in Minter
    BY <1>1, <2>1, <2>2
  <2>4. minters' \in [Authorities -> Minter]
    BY <2>1, <2>3
  <2>. QED BY <1>2, <2>1, <2>2, <2>4
<1>5. /\ config' \in TokenConfig
      /\ config'.total_minted = config.total_minted
      /\ config'.total_burned = config.total_burned
  <2>1. saturating_decrement(config.minter_count) \in 0 .. MAX_MINTERS
    BY <1>1, TokenManagerAssumption DEF saturating_decrement
  <2>. QED BY <1>1, <1>2, <2>1 DEF TokenConfig
<1>6. /\ now' \in Times /\ now' >= now /\ supply' \in Nat
      /\ supply' + config'.total_burned <= config.total_minted
  BY <1>1, <1>2, <1>5
<1>. QED BY <1>2, <1>4, <1>5, <1>6, QuietPreserves

LEMMA AdminPreserves ==
    ASSUME IInv,
           \/ \E signer, new_admin \in Admins : propose_admin(signer, new_admin)
           \/ \E signer \in Admins : cancel_admin_transfer(signer) \/ accept_admin(signer)
           \/ \E signer \in Admins, paused \in BOOLEAN : set_paused(signer, paused)
           \/ UNCHANGED vars
    PROVE  IInv'
<1>1. /\ supply \in Nat /\ config \in TokenConfig
      /\ now \in Times /\ now \in Nat
      /\ supply + config.total_burned <= config.total_minted
      /\ minters \in [Authorities -> Minter]
  BY Fields DEF IInv, TypeOK, SupplyReconciles
<1>2. /\ minters' = minters /\ supply' = supply /\ now' = now /\ issued' = issued
      /\ config' \in TokenConfig
      /\ config'.total_minted = config.total_minted
      /\ config'.total_burned = config.total_burned
  BY <1>1 DEF propose_admin, cancel_admin_transfer, accept_admin, set_paused, vars, TokenConfig
<1>3. now' \in Times /\ now' >= now
  BY <1>1, <1>2
<1>. QED BY <1>1, <1>2, <1>3, QuietPreserves

LEMMA TickPreserves ==
    ASSUME IInv, NEW step \in Steps, Tick(step)
    PROVE  IInv'
<1>1. /\ supply \in Nat /\ config \in TokenConfig /\ now \in Nat
      /\ supply + config.total_burned <= config.total_minted
      /\ minters \in [Authorities -> Minter]
  BY Fields DEF IInv, TypeOK, SupplyReconciles
<1>2. /\ minters' = minters /\ supply' = supply /\ issued' = issued /\ config' = config
      /\ now' = now + step /\ now' <= Horizon /\ step \in Nat
  BY TokenManagerAssumption DEF Tick
<1>3. now' \in Times /\ now' >= now
  BY <1>1, <1>2, TokenManagerAssumption DEF Times
<1>. QED BY <1>1, <1>2, <1>3, QuietPreserves

LEMMA RegisterPreserves ==
    ASSUME IInv, NEW signer \in Admins, NEW a \in Authorities, NEW cap \in Caps,
           NEW duration \in Durations, register_minter(signer, a, cap, duration)
    PROVE  IInv'
<1> DEFINE m0 == [NoMinter EXCEPT !.epoch_cap = cap, !.epoch_duration = duration,
                                  !.enabled = TRUE]
<1>1. /\ ~Exists(a) /\ cap \in Nat /\ duration \in Nat \ {0}
      /\ config.minter_count < MAX_MINTERS
      /\ minters' = [minters EXCEPT ![a] = [m0 EXCEPT !.current_epoch = epoch_at(m0, now)]]
      /\ config' = [config EXCEPT !.minter_count = @ + 1]
      /\ supply' = supply /\ now' = now /\ issued' = issued
  BY TokenManagerAssumption DEF register_minter
<1>2. m0.epoch_duration = duration
  BY DEF NoMinter
<1>e. PICK e \in Nat : e = epoch_at(m0, now)
  <2>1. now \div duration \in Nat
    BY <1>1, Fields, DivMono DEF IInv
  <2>. QED BY <1>2, <2>1 DEF epoch_at
<1> DEFINE m == [m0 EXCEPT !.current_epoch = e]
<1>3. /\ m \in Minter /\ m.epoch_duration = duration /\ m.total_minted = 0
      /\ m.current_epoch = e /\ m.minted_this_epoch = 0
  BY <1>1 DEF NoMinter, Minter
<1>4. minters' = [minters EXCEPT ![a] = m]
  BY <1>e, <1>1
<1> HIDE DEF m, m0
<1>5. minters[a] = NoMinter /\ issued[a] = [t \in Times |-> 0]
  BY <1>1 DEF IInv, MinterInv
<1>6. minters'[a] = m /\ \A b \in Authorities : b # a => minters'[b] = minters[b]
  BY <1>4 DEF IInv, TypeOK
<1>7. /\ config' \in TokenConfig /\ config'.total_minted = config.total_minted
      /\ config'.total_burned = config.total_burned
  <2>1. config \in TokenConfig
    BY DEF IInv, TypeOK
  <2>2. config.minter_count \in 0 .. MAX_MINTERS
    BY <2>1 DEF TokenConfig
  <2>3. config.minter_count + 1 \in 0 .. MAX_MINTERS
    BY <1>1, <2>2, TokenManagerAssumption
  <2>. QED BY <1>1, <2>1, <2>3 DEF TokenConfig
<1>8. TypeOK'
  BY <1>1, <1>3, <1>4, <1>7 DEF IInv, TypeOK
<1>9. SupplyReconciles'
  <2>1. minters[a].total_minted = 0
    BY <1>5 DEF NoMinter
  <2>2. SumTo(TotalOf', NumAuthorities) = SumTo(TotalOf, NumAuthorities)
    <3>1. /\ SumTo(TotalOf', NumAuthorities)
               = SumTo(TotalOf, NumAuthorities) + m.total_minted - minters[a].total_minted
          /\ SumTo(TotalOf, NumAuthorities) \in Nat
      <4>1. TypeOK /\ m.total_minted \in Int
        BY <1>3 DEF IInv
      <4>. QED BY <1>4, <4>1, TotalsMove
    <3>. QED BY <1>3, <2>1, <3>1
  <2>3. \A b \in Authorities : minters'[b].total_minted = minters[b].total_minted
    BY <1>3, <1>6, <2>1
  <2>. QED BY <1>1, <1>7, <2>2, <2>3 DEF IInv, SupplyReconciles
<1>10. ASSUME NEW b \in Authorities PROVE MinterInv(b)'
  <2>1. CASE b # a
    <3>1. now' \in Nat /\ now' >= now
      BY <1>1, Fields DEF IInv
    <3>. QED BY <1>1, <1>6, <2>1, <3>1, MinterKept DEF IInv
  <2>2. CASE b = a
    <3>1. \A x : Issued(a, x)' = 0
      <4> TAKE x
      <4> DEFINE g == IssuedIn(a, x)'
                 N == Horizon + 1
      <4>1. N \in Nat /\ Times = 0 .. N - 1
        BY Fields DEF IInv
      <4>2. g \in [0 .. N - 1 -> Int] /\ \A t \in 0 .. N - 1 : g[t] = 0
        BY <1>1, <1>5, <4>1 DEF IssuedIn
      <4> HIDE DEF g, N
      <4>3. SumTo(g, N) = 0
        BY <4>1, <4>2, SumOfZeros
      <4>. QED BY <4>3 DEF g, N, Issued
    <3>2. Exists(a)'
      <4>1. minters'[a].epoch_duration > 0
        <5>1. duration > 0
          BY <1>1
        <5>. QED BY <1>3, <1>6, <5>1
      <4>. QED BY <4>1 DEF Exists
    <3>3. epoch_at(minters'[a], now') = e
      BY <1>e, <1>1, <1>2, <1>3, <1>6 DEF epoch_at
    <3>. QED BY <1>3, <1>6, <2>2, <3>1, <3>2, <3>3 DEF MinterInv
  <2>. QED BY <2>1, <2>2
<1>. QED BY <1>8, <1>9, <1>10 DEF IInv

LEMMA InitHolds ==
    ASSUME Init
    PROVE  IInv
<1>1. PICK admin \in Admins :
        config = [admin |-> admin, pending_admin |-> NoAdmin, paused |-> FALSE,
                  total_minted |-> 0, total_burned |-> 0, minter_count |-> 0]
  BY DEF Init
<1>2. /\ minters = [a \in Authorities |-> NoMinter]
      /\ supply = 0 /\ now = 0
      /\ issued = [a \in Authorities |-> [t \in Times |-> 0]]
  BY DEF Init
<1>3. TypeOK
  <2>1. config \in TokenConfig
    BY <1>1, TokenManagerAssumption DEF TokenConfig
  <2>2. NoMinter \in Minter
    BY DEF NoMinter, Minter
  <2>3. now \in Times
    BY <1>2, TokenManagerAssumption DEF Times
  <2>. QED BY <1>2, <2>1, <2>2, <2>3 DEF TypeOK
<1>4. SupplyReconciles
  <2>1. /\ TotalOf \in [0 .. NumAuthorities - 1 -> Int] /\ NumAuthorities \in Nat
        /\ \A a \in 0 .. NumAuthorities - 1 : TotalOf[a] = 0
    BY <1>2, TokenManagerAssumption DEF TotalOf, NoMinter, Authorities
  <2>2. SumTo(TotalOf, NumAuthorities) = 0
    BY <2>1, SumOfZeros
  <2>3. ASSUME NEW a \in Authorities PROVE minters[a].total_minted = SumTo(issued[a], Horizon + 1)
    <3>1. /\ Horizon + 1 \in Nat
          /\ issued[a] \in [0 .. (Horizon + 1) - 1 -> Int]
          /\ \A t \in 0 .. (Horizon + 1) - 1 : issued[a][t] = 0
      BY <1>2, TokenManagerAssumption DEF Times
    <3>2. SumTo(issued[a], Horizon + 1) = 0
      BY <3>1, SumOfZeros
    <3>. QED BY <1>2, <3>2 DEF NoMinter
  <2>. QED BY <1>1, <1>2, <2>2, <2>3 DEF SupplyReconciles
<1>5. \A a \in Authorities : MinterInv(a)
  BY <1>2 DEF MinterInv, Exists, NoMinter
<1>. QED BY <1>3, <1>4, <1>5 DEF IInv

LEMMA NextPreserves ==
    ASSUME IInv, [Next]_vars
    PROVE  IInv'
<1>1. CASE \E a \in Authorities, amount \in Amounts : mint_to(a, amount)
  BY <1>1, MintPreserves
<1>2. CASE \E amount \in Amounts : burn(amount)
  BY <1>2, BurnsPreserve
<1>3. CASE \E signer \in Admins, a \in Authorities, cap \in Caps, duration \in Durations :
             register_minter(signer, a, cap, duration)
  BY <1>3, RegisterPreserves
<1>4. CASE \E signer \in Admins, a \in Authorities, cap \in Caps, enabled \in BOOLEAN :
             update_minter(signer, a, cap, enabled)
  BY <1>4, ModifyPreserves
<1>5. CASE \E signer \in Admins, a \in Authorities : revoke_minter(signer, a)
  BY <1>5, ModifyPreserves
<1>6. CASE \/ \E signer, new_admin \in Admins : propose_admin(signer, new_admin)
           \/ \E signer \in Admins : cancel_admin_transfer(signer) \/ accept_admin(signer)
           \/ \E signer \in Admins, paused \in BOOLEAN : set_paused(signer, paused)
           \/ UNCHANGED vars
  BY <1>6, AdminPreserves
<1>7. CASE \E step \in Steps : Tick(step)
  BY <1>7, TickPreserves
<1>8. CASE \E amount \in Amounts : BurnDirectly(amount)
  BY <1>8, BurnsPreserve
<1>. QED BY <1>1, <1>2, <1>3, <1>4, <1>5, <1>6, <1>7, <1>8 DEF Next

\* The inductive invariant holds in every reachable state.
THEOREM Invariance == Spec => []IInv
<1>1. Init => IInv
  BY InitHolds
<1>2. IInv /\ [Next]_vars => IInv'
  BY NextPreserves
<1>. QED BY <1>1, <1>2, PTL DEF Spec

\* TokenConfig, the registry and the supply keep their types: minter_count stays
\* within MAX_MINTERS, and the supply never goes below zero.
THEOREM TypeCorrect == Spec => []TypeOK
<1>1. IInv => TypeOK
  BY DEF IInv
<1>. QED BY <1>1, Invariance, PTL

\* The lifetime totals of config and minters agree with what mint_to and burn
\* really did, for any number of minters registered, updated and revoked.
THEOREM SupplyAlwaysReconciles == Spec => []SupplyReconciles
<1>1. IInv => SupplyReconciles
  BY DEF IInv
<1>. QED BY <1>1, Invariance, PTL

-----------------------------------------------------------------------------

\* Everything ever minted fits a u64: mint_to is refused when it would not.
MintedFits == config.total_minted <= U64_MAX

LEMMA StepKeepsMintedFits == IInv /\ MintedFits /\ [Next]_vars => MintedFits'
<1> SUFFICES ASSUME IInv, MintedFits, [Next]_vars
             PROVE  MintedFits'
  OBVIOUS
<1>1. config \in TokenConfig
  BY DEF IInv, TypeOK
<1>2. CASE \E a \in Authorities, amount \in Amounts : mint_to(a, amount)
  BY <1>1, <1>2 DEF MintedFits, mint_to, TokenConfig
<1>3. CASE \E amount \in Amounts : burn(amount) \/ BurnDirectly(amount)
  BY <1>1, <1>3 DEF MintedFits, burn, BurnDirectly, TokenConfig
<1>4. CASE \/ \E signer \in Admins, a \in Authorities, cap \in Caps, duration \in Durations :
                register_minter(signer, a, cap, duration)
           \/ \E signer \in Admins, a \in Authorities : revoke_minter(signer, a)
  BY <1>1, <1>4 DEF MintedFits, register_minter, revoke_minter, TokenConfig
<1>5. CASE \/ \E signer \in Admins, a \in Authorities, cap \in Caps, enabled \in BOOLEAN :
                update_minter(signer, a, cap, enabled)
           \/ \E step \in Steps : Tick(step)
           \/ UNCHANGED vars
  BY <1>5 DEF MintedFits, update_minter, Tick, vars
<1>6. CASE \/ \E signer, new_admin \in Admins : propose_admin(signer, new_admin)
           \/ \E signer \in Admins : cancel_admin_transfer(signer) \/ accept_admin(signer)
           \/ \E signer \in Admins, paused \in BOOLEAN : set_paused(signer, paused)
  BY <1>1, <1>6 DEF MintedFits, propose_admin, cancel_admin_transfer, accept_admin,
                    set_paused, TokenConfig
<1>. QED BY <1>2, <1>3, <1>4, <1>5, <1>6 DEF Next

\* No pause, registry state or lifetime counter stands between a holder and a
\* burn: what could still be burned never overflows total_burned, because supply
\* and total_burned together stay under total_minted, which fits a u64.
THEOREM BurnIsNeverBlocked == Spec => []BurnNeverBlocked
<1>1. Init => MintedFits
  BY TokenManagerAssumption DEF Init, MintedFits
<1>2. IInv /\ MintedFits => BurnNeverBlocked
  <2> SUFFICES ASSUME IInv, MintedFits, NEW amount \in Amounts, amount > 0, amount <= supply
               PROVE  CanBurn(amount)
    BY DEF BurnNeverBlocked
  <2>1. /\ config.total_minted \in Nat /\ config.total_burned \in Nat
        /\ supply \in Nat /\ amount \in Nat /\ U64_MAX \in Nat
        /\ supply + config.total_burned <= config.total_minted
    BY Fields, TokenManagerAssumption DEF IInv, SupplyReconciles
  <2>. QED BY <2>1 DEF CanBurn, MintedFits
<1>. QED BY <1>1, <1>2, Invariance, StepKeepsMintedFits, PTL DEF Spec

-----------------------------------------------------------------------------

\* A step that leaves a's history and epochs alone issues nothing through it.
LEMMA NothingIssued ==
    ASSUME TypeOK, NEW a \in Authorities, now' = now, issued'[a] = issued[a],
           minters'[a].epoch_duration = minters[a].epoch_duration
    PROVE  ~(IssuedNow(a)' > IssuedNow(a))
<1>1. IssuedNow(a)' = IssuedNow(a)
  BY DEF IssuedNow, IssuedIn, epoch_at
<1>2. IssuedNow(a) \in Nat
  BY IssuedType DEF IssuedNow, Issued
<1>. QED BY <1>1, <1>2

\* Only its own mint_to adds to what an entry issued.
LEMMA IssuedBy ==
    ASSUME IInv, [Next]_vars, NEW a \in Authorities, Exists(a), now' = now,
           IssuedNow(a)' > IssuedNow(a)
    PROVE  \E amount \in Amounts : mint_to(a, amount)
<1>1. CASE \E b \in Authorities, amount \in Amounts : mint_to(b, amount)
  <2>1. PICK b \in Authorities, amount \in Amounts : mint_to(b, amount)
    BY <1>1
  <2>2. CASE b = a
    BY <2>1, <2>2
  <2>3. CASE b # a
    <3>1. minters'[a] = minters[a] /\ issued'[a] = issued[a]
      BY <2>1, <2>3 DEF mint_to, IInv, TypeOK
    <3>. QED BY <3>1, NothingIssued DEF IInv
  <2>. QED BY <2>2, <2>3
<1>2. CASE \E signer \in Admins, b \in Authorities, cap \in Caps, duration \in Durations :
             register_minter(signer, b, cap, duration)
  <2>1. PICK b \in Authorities :
          ~Exists(b) /\ issued' = issued /\ \E m : minters' = [minters EXCEPT ![b] = m]
    BY <1>2 DEF register_minter
  <2>2. minters'[a] = minters[a] /\ issued'[a] = issued[a]
    <3>1. a # b
      BY <2>1
    <3>. QED BY <2>1, <3>1 DEF IInv, TypeOK
  <2>. QED BY <2>2, NothingIssued DEF IInv
<1>3. CASE \/ \E signer \in Admins, b \in Authorities, cap \in Caps, enabled \in BOOLEAN :
                update_minter(signer, b, cap, enabled)
           \/ \E signer \in Admins, b \in Authorities : revoke_minter(signer, b)
  <2>1. PICK b \in Authorities :
          /\ issued' = issued
          /\ \E m : minters' = [minters EXCEPT ![b] = m] /\ m.epoch_duration = minters[b].epoch_duration
    <3>1. \A b \in Authorities : minters[b] \in Minter
      BY DEF IInv, TypeOK
    <3>2. CASE \E signer \in Admins, b \in Authorities, cap \in Caps, enabled \in BOOLEAN :
                 update_minter(signer, b, cap, enabled)
      <4>1. PICK b \in Authorities, cap \in Caps, enabled \in BOOLEAN :
              /\ issued' = issued
              /\ minters' = [minters EXCEPT ![b].epoch_cap = cap, ![b].enabled = enabled]
        BY <3>2 DEF update_minter
      <4> DEFINE m == [minters[b] EXCEPT !.epoch_cap = cap, !.enabled = enabled]
      <4>2. minters' = [minters EXCEPT ![b] = m] /\ m.epoch_duration = minters[b].epoch_duration
        BY <3>1, <4>1 DEF IInv, TypeOK, Minter
      <4>. QED BY <4>1, <4>2
    <3>3. CASE \E signer \in Admins, b \in Authorities : revoke_minter(signer, b)
      <4>1. PICK b \in Authorities :
              /\ issued' = issued
              /\ minters' = [minters EXCEPT ![b].enabled = FALSE, ![b].epoch_cap = 0]
        BY <3>3 DEF revoke_minter
      <4> DEFINE m == [minters[b] EXCEPT !.enabled = FALSE, !.epoch_cap = 0]
      <4>2. minters' = [minters EXCEPT ![b] = m] /\ m.epoch_duration = minters[b].epoch_duration
        BY <3>1, <4>1 DEF IInv, TypeOK, Minter
      <4>. QED BY <4>1, <4>2
    <3>. QED BY <1>3, <3>2, <3>3
  <2>2. minters'[a].epoch_duration = minters[a].epoch_duration /\ issued'[a] = issued[a]
    BY <2>1 DEF IInv, TypeOK
  <2>. QED BY <2>2, NothingIssued DEF IInv
<1>4. CASE \/ \E amount \in Amounts : burn(amount) \/ BurnDirectly(amount)
           \/ \E signer, new_admin \in Admins : propose_admin(signer, new_admin)
           \/ \E signer \in Admins : cancel_admin_transfer(signer) \/ accept_admin(signer)
           \/ \E signer \in Admins, paused \in BOOLEAN : set_paused(signer, paused)
           \/ \E step \in Steps : Tick(step)
           \/ UNCHANGED vars
  <2>1. minters' = minters /\ issued' = issued
    BY <1>4 DEF burn, BurnDirectly, propose_admin, cancel_admin_transfer, accept_admin,
                set_paused, Tick, vars
  <2>. QED BY <2>1, NothingIssued DEF IInv
<1>. QED BY <1>1, <1>2, <1>3, <1>4 DEF Next

LEMMA IssuesWithinCap ==
    ASSUME IInv, NEW a \in Authorities, NEW amount \in Amounts, mint_to(a, amount)
    PROVE  /\ minters[a].enabled /\ ~config.paused
           /\ IssuedNow(a)' <= minters[a].epoch_cap
<1> DEFINE m == accrue(minters[a], amount, now)
<1>e. PICK e \in Nat : e = epoch_at(minters[a], now)
  BY MintFacts
<1>1. /\ amount \in Nat /\ ~config.paused /\ minters[a].enabled
      /\ m \in Minter /\ m.epoch_duration = minters[a].epoch_duration
      /\ m.minted_this_epoch <= minters[a].epoch_cap
      /\ Issued(a, e) + amount <= m.minted_this_epoch
  BY <1>e, MintFacts
<1>2. /\ minters'[a] = m /\ now' = now
      /\ issued' = [issued EXCEPT ![a][now] = @ + amount]
  BY DEF mint_to, IInv, TypeOK
<1> HIDE DEF m
<1>3. epoch_at(minters'[a], now') = e /\ minters'[a].epoch_duration = minters[a].epoch_duration
  BY <1>e, <1>1, <1>2 DEF epoch_at
<1>4. Issued(a, e)' = Issued(a, e) + amount
  BY <1>e, <1>1, <1>2, <1>3, IssueCharged
<1>5. IssuedNow(a)' = Issued(a, e)'
  BY <1>3 DEF IssuedNow, Issued
<1>6. Issued(a, e) \in Nat /\ m.minted_this_epoch \in Nat /\ minters[a].epoch_cap \in Nat
  BY <1>1, IssuedType, Fields DEF IInv, Minter
<1>. QED BY <1>1, <1>4, <1>5, <1>6

\* accrue's lazy rollover, whatever happened to the entry in between, lets no
\* epoch's issuance grow past the cap of the moment.
THEOREM IssuanceAlwaysWithinCap == Spec => IssuanceWithinCap
<1>1. IInv /\ [Next]_vars =>
        [\A a \in Authorities :
           Exists(a) /\ IssuedNow(a)' > IssuedNow(a) /\ now' = now =>
             /\ minters[a].enabled /\ ~config.paused
             /\ IssuedNow(a)' <= minters[a].epoch_cap]_vars
  BY IssuedBy, IssuesWithinCap
<1>. QED BY <1>1, Invariance, PTL DEF Spec, IssuanceWithinCap
=============================================================================
