-------------------------- MODULE CoinSelectionProofs --------------------------
(***************************************************************************)
(* Proofs that WalletData.Select keeps its promises on every wallet, for   *)
(* any amounts, limits and heights.                                        *)
(***************************************************************************)
EXTENDS CoinSelection, WalletDataProofs

------------------------------------------------------------------------------
(* Sums *)

\* P gives the sums of the first values of s: P[i] of the first i of them.
AddsUp(P, s) ==
  /\ P[0] = 0
  /\ \A i \in 1 .. Len(s) : s[i].value \in Nat /\ P[i] = P[i - 1] + s[i].value
  /\ \A i \in 0 .. Len(s) : P[i] \in Nat

\* Any coins have such sums.
LEMMA SumsExist ==
  ASSUME NEW s, Len(s) \in Nat, \A i \in 1 .. Len(s) : s[i].value \in Nat
  PROVE  \E P : AddsUp(P, s)
<1> DEFINE n == Len(s)
           step == [x \in (1 .. n) \X Nat |-> x[2] + s[x[1]].value]
<1>1. step \in [(1 .. n) \X Nat -> Nat]
  OBVIOUS
<1>2. \A i \in 1 .. n, x \in Nat : step[<<i, x>>] = x + s[i].value
  OBVIOUS
<1> HIDE DEF step, n
<1>3. n \in Nat /\ 0 \in Nat
  BY DEF n
<1>4. PICK f \in [0 .. n -> Nat] : f[0] = 0 /\ \A i \in 1 .. n : f[i] = step[<<i, f[i - 1]>>]
  <2> DEFINE V == Nat
             c == 0
  <2>1. c \in V /\ step \in [(1 .. n) \X V -> V]
    BY <1>1
  <2> HIDE DEF V, c
  <2>2. \E f : Iterates(f, n, V, c, step)
    BY <1>3, <2>1, Recursion
  <2> QED BY <2>2 DEF V, c, Iterates
<1>5. ASSUME NEW i \in 1 .. n PROVE f[i] = f[i - 1] + s[i].value
  <2>1. i - 1 \in 0 .. n
    BY <1>3
  <2>2. f[i - 1] \in Nat
    BY <1>4, <2>1
  <2>3. step[<<i, f[i - 1]>>] = f[i - 1] + s[i].value
    BY <1>2, <2>2
  <2> QED BY <1>4, <2>3
<1> QED BY <1>3, <1>4, <1>5 DEF AddsUp, n

\* The sums grow.
LEMMA SumsGrow ==
  ASSUME NEW s, Len(s) \in Nat, NEW P, AddsUp(P, s), NEW i \in 0 .. Len(s)
  PROVE  P[i] <= P[Len(s)]
<1> DEFINE n == Len(s)
           T == {j \in Nat : j <= n /\ ~(P[n - j] <= P[n])}
<1> SUFFICES ASSUME n - i \in T PROVE FALSE
  OBVIOUS
<1>1. PICK j \in T : \A m \in T : j <= m
  <2> T \in SUBSET Nat /\ T # {}
    OBVIOUS
  <2> HIDE DEF T
  <2> QED BY LeastNumber
<1>2. j \in Nat /\ j <= n /\ ~(P[n - j] <= P[n])
  OBVIOUS
<1>3. j # 0
  BY <1>2 DEF AddsUp
<1>4. j - 1 \notin T /\ j - 1 \in Nat
  BY <1>1, <1>2, <1>3
<1>5. P[n - (j - 1)] <= P[n]
  BY <1>2, <1>4
<1>6. n - (j - 1) \in 1 .. n /\ n - (j - 1) - 1 = n - j /\ n - j \in 0 .. n
  BY <1>2, <1>3
<1>7. P[n - (j - 1)] = P[n - j] + s[n - (j - 1)].value
  BY <1>6 DEF AddsUp
<1>8. /\ P[n - j] \in Nat /\ P[n - (j - 1)] \in Nat /\ P[n] \in Nat
      /\ s[n - (j - 1)].value \in Nat
  BY <1>6 DEF AddsUp
<1> HIDE DEF T, n
<1> QED BY <1>2, <1>5, <1>7, <1>8

\* Where the sums do not wrap, they are what Total computes.
LEMMA TotalIs ==
  ASSUME NEW s, Len(s) \in Nat, NEW P, AddsUp(P, s), P[Len(s)] < ULong
  PROVE  Total(s) = P[Len(s)]
<1> DEFINE n == Len(s)
           F(g) == [i \in 0 .. n |-> IF i = 0 THEN 0 ELSE (g[i - 1] + s[i].value) % ULong]
           g == CHOOSE g : g = F(g)
           h == [i \in 0 .. n |-> P[i]]
<1>1. Total(s) = g[n]
  BY DEF Total
<1>2. ASSUME NEW i \in 1 .. n PROVE P[i] = (P[i - 1] + s[i].value) % ULong
  <2>1. P[i] <= P[n]
    BY SumsGrow
  <2>2. P[i] = P[i - 1] + s[i].value /\ P[i] \in Nat /\ P[n] \in Nat
    BY DEF AddsUp
  <2>3. \A a \in Nat : a < ULong => a % ULong = a
    BY WalletDataAssumption
  <2>4. P[i] < ULong
    BY <2>1, <2>2, WalletDataAssumption
  <2> QED BY <2>2, <2>3, <2>4
<1>3. h = F(h)
  <2>1. ASSUME NEW i \in 0 .. n PROVE h[i] = F(h)[i]
    <3>1. CASE i = 0
      BY <3>1 DEF AddsUp
    <3>2. CASE i # 0
      <4>1. i \in 1 .. n /\ i - 1 \in 0 .. n
        BY <3>2
      <4> QED BY <1>2, <3>2, <4>1
    <3> QED BY <3>1, <3>2
  <2> QED BY <2>1
<1>4. g = F(g)
  BY <1>3
<1> HIDE DEF g
<1>5. Lockstep(g, P, n)
  <2>1. g[0] = P[0]
    BY <1>4 DEF AddsUp
  <2>2. ASSUME NEW i \in 1 .. n PROVE g[i] = (g[i - 1] + s[i].value) % ULong
    BY <1>4
  <2> QED BY <1>2, <2>1, <2>2 DEF Lockstep
<1>6. n \in Nat
  OBVIOUS
<1> HIDE DEF n, F
<1>7. \A i \in 0 .. n : g[i] = P[i]
  BY <1>5, <1>6, SameSteps
<1> QED BY <1>1, <1>6, <1>7 DEF n

\* Worth computes the sums, whether they fit an ulong or not.
LEMMA WorthIs ==
  ASSUME NEW s, Len(s) \in Nat, NEW P, AddsUp(P, s)
  PROVE  Worth(s) = P[Len(s)]
<1> DEFINE n == Len(s)
           F(g) == [i \in 0 .. n |-> IF i = 0 THEN 0 ELSE g[i - 1] + s[i].value]
           g == CHOOSE g : g = F(g)
           h == [i \in 0 .. n |-> P[i]]
<1>1. Worth(s) = g[n]
  BY DEF Worth
<1>2. h = F(h)
  <2>1. ASSUME NEW i \in 0 .. n PROVE h[i] = F(h)[i]
    <3>1. CASE i = 0
      BY <3>1 DEF AddsUp
    <3>2. CASE i # 0
      <4>1. i \in 1 .. n /\ i - 1 \in 0 .. n
        BY <3>2
      <4> QED BY <3>2, <4>1 DEF AddsUp
    <3> QED BY <3>1, <3>2
  <2> QED BY <2>1
<1>3. g = F(g)
  BY <1>2
<1> HIDE DEF g
<1>4. Lockstep(g, P, n)
  <2>1. g[0] = P[0]
    BY <1>3 DEF AddsUp
  <2>2. ASSUME NEW i \in 1 .. n PROVE g[i] = g[i - 1] + s[i].value
    BY <1>3
  <2> QED BY <2>1, <2>2 DEF AddsUp, Lockstep
<1>5. n \in Nat
  OBVIOUS
<1> HIDE DEF n, F
<1>6. \A i \in 0 .. n : g[i] = P[i]
  BY <1>4, <1>5, SameSteps
<1> QED BY <1>1, <1>5, <1>6 DEF n

\* The total of the first coins.
LEMMA TotalPrefix ==
  ASSUME NEW S, NEW s \in Seq(S), NEW P, AddsUp(P, s), P[Len(s)] < ULong, NEW m \in 0 .. Len(s)
  PROVE  Total(SubSeq(s, 1, m)) = P[m]
<1> DEFINE t == SubSeq(s, 1, m)
<1>1. Len(t) = m /\ \A i \in 1 .. m : t[i] = s[i]
  OBVIOUS
<1>2. P[m] <= P[Len(s)] /\ P[m] \in Nat /\ P[Len(s)] \in Nat
  <2>1. P[m] <= P[Len(s)]
    BY SumsGrow
  <2> QED BY <2>1 DEF AddsUp
<1>3. P[m] < ULong
  BY <1>2, WalletDataAssumption
<1> HIDE DEF t
<1>4. AddsUp(P, t)
  <2>1. \A i \in 1 .. m : i \in 1 .. Len(s) /\ t[i].value = s[i].value
    BY <1>1
  <2>2. \A i \in 0 .. m : i \in 0 .. Len(s)
    OBVIOUS
  <2> QED BY <1>1, <2>1, <2>2 DEF AddsUp
<1>5. Total(t) = P[Len(t)]
  BY <1>1, <1>3, <1>4, TotalIs
<1> QED BY <1>1, <1>5 DEF t
------------------------------------------------------------------------------
(* The invariant *)

\* What Select returns, or <<>> when it throws.
Answer ==
  IF Select_throws(Candidates, request.max) THEN <<>>
  ELSE Select(Candidates, request.amount, request.max, request.default)

\* The wallet is one of those given, and the coins, if any, are the answer to the
\* request: Select read the wallet as it still is.
SelectionInv ==
  /\ outputs \in Wallets
  /\ \/ request = NoRequest /\ coins = <<>>
     \/ request \in Requests /\ coins = Answer

\* Select is the only step there is and it does not change the wallet.
LEMMA SelectionInvariance == Spec => []SelectionInv
<1>1. Init => SelectionInv
  BY DEF Init, SelectionInv
<1>2. SelectionInv /\ [Next]_vars => SelectionInv'
  <2> SUFFICES ASSUME SelectionInv, [Next]_vars PROVE SelectionInv'
    OBVIOUS
  <2>1. CASE UNCHANGED vars
    BY <2>1 DEF vars, SelectionInv, Answer, Candidates
  <2>2. CASE Returned
    BY <2>2 DEF Returned, vars, SelectionInv, Answer, Candidates
  <2>3. ASSUME NEW r \in Requests, SelectCoins(r) PROVE SelectionInv'
    <3>1. request' = r /\ outputs' = outputs
      BY <2>3 DEF SelectCoins
    <3>2. coins' = Answer'
      BY <2>3, <3>1 DEF SelectCoins, Answer, Candidates
    <3> QED BY <3>1, <3>2 DEF SelectionInv
  <2> QED BY <2>1, <2>2, <2>3 DEF Next
<1> QED BY <1>1, <1>2, PTL DEF Spec

\* The candidates are the eligible coins, each once; their values add up without
\* a wrap.
LEMMA CandidatesAre ==
  ASSUME outputs \in Wallets, request \in Requests
  PROVE  /\ Candidates \in Seq(EligibleCoins(outputs, Root, CurrentHeight, request.min))
         /\ IsInjective(Candidates)
         /\ \E P : AddsUp(P, Candidates) /\ P[Len(Candidates)] < ULong
<1> DEFINE S == EligibleCoins(outputs, Root, CurrentHeight, request.min)
           e == Candidates
<1>1. request.min \in Confirmations
  BY DEF Requests
<1>2. RanksDiffer(outputs, Root) /\ IsFiniteSet(DOMAIN outputs)
  BY SelectionAssumption DEF RanksDiffer
<1>3. e \in Seq(S) /\ IsInjective(e)
  BY <1>2, EligibleIs DEF Candidates
<1>4. \A c \in S : c.value \in Nat
  BY SelectionAssumption DEF EligibleCoins, Coin
<1>5. Worth(e) < ULong
  BY <1>1, SelectionAssumption DEF Candidates
<1> HIDE DEF e, S
<1>6. Len(e) \in Nat /\ \A i \in 1 .. Len(e) : e[i].value \in Nat
  BY <1>3, <1>4
<1>7. PICK P : AddsUp(P, e)
  BY <1>6, SumsExist
<1>8. Worth(e) = P[Len(e)]
  BY <1>6, <1>7, WorthIs
<1> QED BY <1>3, <1>5, <1>7, <1>8 DEF e, S

\* The coins are eligible ones, at most as many as asked for and none twice.
LEMMA CoinsAre ==
  ASSUME SelectionInv
  PROVE  /\ Selection(coins, EligibleCoins(outputs, Root, CurrentHeight, request.min), request.max)
         /\ request.max \in Nat
<1> DEFINE S == EligibleCoins(outputs, Root, CurrentHeight, request.min)
<1>1. request.max \in Nat
  <2>1. Limits \subseteq Nat
    BY SelectionAssumption
  <2>2. CASE request = NoRequest
    BY <2>2 DEF NoRequest
  <2>3. CASE request \in Requests
    BY <2>1, <2>3 DEF Requests
  <2> QED BY <2>2, <2>3 DEF SelectionInv
<1>2. CASE coins = <<>>
  BY <1>1, <1>2 DEF Selection, IsInjective
<1>3. CASE coins # <<>>
  <2>1. request \in Requests /\ outputs \in Wallets /\ coins = Answer
    BY <1>3 DEF SelectionInv
  <2>2. request.max # 0 /\ coins = Select(Candidates, request.amount, request.max, request.default)
    BY <1>3, <2>1 DEF Answer, Select_throws
  <2>3. Candidates \in Seq(S) /\ IsInjective(Candidates)
    BY <2>1, CandidatesAre
  <2> HIDE DEF S
  <2>4. Selection(Select(Candidates, request.amount, request.max, request.default), S, request.max)
    BY <1>1, <2>2, <2>3, SelectIs
  <2> QED BY <1>1, <2>2, <2>4 DEF S
<1> QED BY <1>2, <1>3
------------------------------------------------------------------------------
(* The theorems *)

\* On every wallet, the key that inputs_and_change derives for the change is new.
THEOREM ChangeKeyIsFresh == Spec => []NextChildFresh
<1>1. SelectionInv => NextChildFresh
  <2> SUFFICES ASSUME outputs \in Wallets PROVE NextChildFresh
    BY DEF SelectionInv
  <2>1. IsFiniteSet(DOMAIN outputs) /\ \A k \in DOMAIN outputs : k[2] \in Nat
    BY SelectionAssumption
  <2>2. <<Root, Next_child(outputs, Root)>> \notin DOMAIN outputs
    BY <2>1, NextChildIsFresh
  <2> QED BY <2>2 DEF NextChildFresh, Add_output_throws
<1> QED BY <1>1, SelectionInvariance, PTL

\* On every wallet, Select returns outputs of the wallet's own key that may be
\* spent, none of them twice.
THEOREM SelectedMayBeSpent == Spec => []SelectionSpendable
<1>1. SelectionInv => SelectionSpendable
  <2> SUFFICES ASSUME SelectionInv PROVE SelectionSpendable
    OBVIOUS
  <2> DEFINE S == EligibleCoins(outputs, Root, CurrentHeight, request.min)
  <2>1. coins \in Seq(S) /\ IsInjective(coins)
    BY CoinsAre DEF Selection
  <2>2. ToSet(coins) \subseteq S
    <3> HIDE DEF S
    <3> QED BY <2>1 DEF ToSet
  <2>3. ASSUME NEW coin \in ToSet(coins)
        PROVE  /\ coin \in Coins(outputs)
               /\ coin.key[1] = Root
               /\ eligible_to_spend(outputs[coin.key], CurrentHeight, request.min)
    <3>1. coin \in S
      BY <2>2
    <3>2. PICK k \in DOMAIN outputs :
            /\ coin = Coin(outputs, k)
            /\ k[1] = Root
            /\ eligible_to_spend(outputs[k], CurrentHeight, request.min)
      BY <3>1 DEF EligibleCoins
    <3>3. coin.key = k
      BY <3>2 DEF Coin
    <3> QED BY <3>2, <3>3 DEF Coins
  <2>4. \A coin \in ToSet(coins) :
          LET od == outputs[coin.key]
          IN /\ coin.key[1] = Root
             /\ od.status \in {"Unspent", "Unconfirmed"}
             /\ od.status = "Unconfirmed" => request.min = 0 /\ ~od.is_coinbase
             /\ od.lock_height <= CurrentHeight
    BY <2>3 DEF eligible_to_spend
  <2> QED BY <2>1, <2>3, <2>4 DEF SelectionSpendable
<1> QED BY <1>1, SelectionInvariance, PTL

\* The g-th group of m coins of e.
Part(e, m, g) == SubSeq(e, (g - 1) * m + 1, Min({g * m, Len(e)}))

\* The number of the groups.
Parts(e, m) == (Len(e) + m - 1) \div m

\* No group is empty, and each is a stretch of the coins.
LEMMA PartIs ==
  ASSUME NEW S, NEW e \in Seq(S), e # << >>, NEW m \in Nat \ {0}, NEW g \in 1 .. Parts(e, m)
  PROVE  \E a \in 0 .. Len(e), b \in 1 .. Len(e) : a < b /\ Part(e, m, g) = SubSeq(e, a + 1, b)
<1> DEFINE n == Len(e)
           q == Parts(e, m)
<1>1. n \in Nat /\ n # 0
  OBVIOUS
<1>2. q \in Int /\ m * q <= n + m - 1
  <2>1. n + m - 1 \in Int
    BY <1>1
  <2>2. PICK r \in 0 .. m - 1 : n + m - 1 = m * q + r /\ q \in Int
    BY <2>1, Division DEF Parts
  <2>3. m * q \in Int
    BY <2>2
  <2> HIDE DEF q, n
  <2> QED BY <1>1, <2>2, <2>3
<1> HIDE DEF q
<1>3. g * m <= m * q
  <2>1. g * m <= q * m
    BY <1>2, ProductsGrow DEF q
  <2>2. q * m = m * q
    BY <1>2
  <2> QED BY <2>1, <2>2
<1>4. PICK a \in Nat : a = (g - 1) * m /\ g * m = a + m
  <2>1. (g - 1) * m \in Nat /\ g * m = (g - 1) * m + m
    BY <1>2
  <2> QED BY <2>1
<1>5. m * q \in Int
  BY <1>2
<1>6. a < n
  BY <1>1, <1>2, <1>3, <1>4, <1>5
<1>7. Min({a + m, n}) = IF a + m <= n THEN a + m ELSE n
  BY <1>1, MinOfTwo
<1>8. PICK b \in 1 .. n : b = Min({g * m, n}) /\ a < b
  <2>1. PICK b \in 1 .. n : b = Min({a + m, n}) /\ a < b
    BY <1>1, <1>6, <1>7
  <2>2. Min({g * m, n}) = Min({a + m, n})
    BY <1>4, Zenon
  <2> QED BY <2>1, <2>2
<1>9. Part(e, m, g) = SubSeq(e, a + 1, b)
  BY <1>4, <1>8 DEF Part
<1>10. a \in 0 .. n
  BY <1>1, <1>6
<1> QED BY <1>6, <1>8, <1>9, <1>10

\* Coins that fit in one transaction are one group.
LEMMA OnePart ==
  ASSUME NEW S, NEW e \in Seq(S), e # << >>, NEW m \in Nat \ {0}, Len(e) <= m
  PROVE  Parts(e, m) = 1 /\ Part(e, m, 1) = e
<1> DEFINE n == Len(e)
<1>1. n \in Nat /\ n # 0 /\ n <= m
  OBVIOUS
<1>2. SubSeq(e, 1, n) = e
  OBVIOUS
<1> HIDE DEF n
<1>3. n + m - 1 \in Int /\ m * 1 <= n + m - 1 /\ n + m - 1 < m * 1 + m
  BY <1>1
<1>4. (n + m - 1) \div m = 1
  BY <1>3, Quotient
<1>5. (1 - 1) * m + 1 = 1 /\ Min({1 * m, n}) = n
  <2>1. 1 * m = m /\ (1 - 1) * m = 0
    OBVIOUS
  <2>2. Min({m, n}) = n
    BY <1>1, MinOfTwo
  <2>3. Min({1 * m, n}) = Min({m, n})
    BY <2>1, Zenon
  <2> QED BY <2>1, <2>2, <2>3
<1> QED BY <1>2, <1>4, <1>5 DEF Part, Parts, n

\* What Select_from takes of the g-th group.
Taken(e, amount, m, all, g) == Select_from(amount, all, Part(e, m, g))

\* Select gives what Select_from takes of the first group that it takes some of, and
\* if there is none the last coins.
LEMMA SelectGroups ==
  ASSUME NEW S, NEW e \in Seq(S), e # << >>, NEW m \in Nat \ {0}, NEW amount, NEW all
  PROVE  /\ \A g \in 1 .. Parts(e, m) :
              /\ Taken(e, amount, m, all, g) # << >>
              /\ \A h \in 1 .. g - 1 : Taken(e, amount, m, all, h) = << >>
              => Select(e, amount, m, all) = Taken(e, amount, m, all, g)
         /\ (\A g \in 1 .. Parts(e, m) : Taken(e, amount, m, all, g) = << >>)
            => Select(e, amount, m, all) = SubSeq(Reverse(e), 1, Min({m, Len(e)}))
<1> DEFINE n == Len(e)
           q == Parts(e, m)
           windows == IF n > m THEN Tuples(e, m) ELSE <<e>>
           picked == [i \in DOMAIN windows |-> Select_from(amount, all, windows[i])]
           found == {i \in DOMAIN windows : picked[i] # <<>>}
           T(g) == Taken(e, amount, m, all, g)
<1>1. Select(e, amount, m, all) =
        IF found # {} THEN picked[Min(found)] ELSE SubSeq(Reverse(e), 1, Min({m, n}))
  BY DEF Select
<1>2. n \in Nat /\ q \in Int
  <2>1. n \in Nat /\ n + m - 1 \in Int
    OBVIOUS
  <2> QED BY <2>1, Division DEF Parts
<1>3. DOMAIN windows = 1 .. q /\ \A i \in 1 .. q : windows[i] = Part(e, m, i)
  <2>1. CASE n > m
    <3>1. windows = [i \in 1 .. q |-> Part(e, m, i)]
      BY <2>1 DEF Tuples, Part, Parts
    <3> HIDE DEF windows, q
    <3> QED BY <3>1
  <2>2. CASE ~(n > m)
    <3>1. q = 1 /\ Part(e, m, 1) = e
      BY <1>2, <2>2, OnePart
    <3>2. windows = <<e>>
      BY <2>2
    <3> HIDE DEF windows, q
    <3> QED BY <3>1, <3>2
  <2> QED BY <2>1, <2>2
<1> HIDE DEF windows, q
<1>4. \A i \in 1 .. q : picked[i] = T(i)
  BY <1>3 DEF Taken
<1>5. found = {i \in 1 .. q : T(i) # <<>>}
  <2> HIDE DEF picked, T
  <2> QED BY <1>3, <1>4
<1> HIDE DEF picked, found, T
<1>6. ASSUME NEW g \in 1 .. q, T(g) # <<>>, \A h \in 1 .. g - 1 : T(h) = <<>>
      PROVE  Select(e, amount, m, all) = T(g)
  <2>1. found \in SUBSET Nat /\ g \in found
    BY <1>2, <1>5, <1>6
  <2>2. \A i \in found : g <= i
    <3> SUFFICES ASSUME NEW i \in found, ~(g <= i) PROVE FALSE
      OBVIOUS
    <3>1. i \in 1 .. q /\ T(i) # <<>>
      BY <1>5
    <3>2. i \in 1 .. g - 1
      BY <1>2, <3>1
    <3> QED BY <1>6, <3>1, <3>2
  <2>3. Min(found) \in found /\ Min(found) <= g
    BY <2>1, MinIsLeast
  <2>4. Min(found) = g
    <3>1. g <= Min(found) /\ Min(found) \in Nat /\ g \in Nat
      BY <2>1, <2>2, <2>3
    <3> QED BY <2>3, <3>1
  <2> QED BY <1>1, <1>4, <2>1, <2>4
<1>7. ASSUME \A g \in 1 .. q : T(g) = <<>>
      PROVE  Select(e, amount, m, all) = SubSeq(Reverse(e), 1, Min({m, n}))
  BY <1>1, <1>5, <1>7
<1> QED BY <1>6, <1>7 DEF T, q

\* The first m coins cover the amount and, unless all are wanted, without the last
\* two they do not.
CoversWith(P, amount, all, m) ==
  /\ P[m] >= amount
  /\ ~all /\ m >= 2 => P[m - 2] < amount

\* Select_from finds such an m if the coins it is given cover the amount at all.
LEMMA SelectFromCovers ==
  ASSUME NEW S, NEW e \in Seq(S), e # <<>>, NEW P, AddsUp(P, e), P[Len(e)] < ULong,
         NEW amount \in Nat, NEW all \in BOOLEAN
  PROVE  /\ P[Len(e)] < amount => Select_from(amount, all, e) = <<>>
         /\ P[Len(e)] >= amount =>
              \E m \in 1 .. Len(e) :
                Select_from(amount, all, e) = SubSeq(e, 1, m) /\ CoversWith(P, amount, all, m)
<1> DEFINE n == Len(e)
           covered == {i \in 1 .. n : Total(SubSeq(e, 1, i - 1)) >= amount}
<1>1. n \in Nat /\ n # 0 /\ SubSeq(e, 1, n) = e
  OBVIOUS
<1>2. Total(e) = P[n]
  BY <1>1, TotalIs
<1>3. \A i \in 0 .. n : P[i] \in Nat
  BY DEF AddsUp
<1>4. \A i \in 1 .. n : P[i - 1] <= P[i]
  <2> SUFFICES ASSUME NEW i \in 1 .. n PROVE P[i - 1] <= P[i]
    OBVIOUS
  <2>1. i - 1 \in 0 .. n
    BY <1>1
  <2>2. P[i] = P[i - 1] + e[i].value /\ e[i].value \in Nat
    BY DEF AddsUp
  <2> QED BY <1>3, <2>1, <2>2
<1>5. \A i \in 1 .. n : i \in covered <=> P[i - 1] >= amount
  <2> SUFFICES ASSUME NEW i \in 1 .. n PROVE i \in covered <=> P[i - 1] >= amount
    OBVIOUS
  <2>1. i - 1 \in 0 .. n
    BY <1>1
  <2>2. Total(SubSeq(e, 1, i - 1)) = P[i - 1]
    BY <2>1, TotalPrefix
  <2> QED BY <2>2
<1>6. Select_from(amount, all, e) =
        IF Total(e) < amount THEN <<>>
        ELSE IF all \/ covered = {} THEN e ELSE SubSeq(e, 1, Min(covered))
  BY DEF Select_from
<1>7. covered \in SUBSET (1 .. n)
  OBVIOUS
<1> HIDE DEF covered, n
<1>8. CASE P[n] < amount
  <2>1. n \in 0 .. n
    BY <1>1
  <2>2. ~(P[n] >= amount)
    BY <1>3, <1>8, <2>1
  <2> QED BY <1>2, <1>6, <1>8, <2>2 DEF n
<1>9. CASE P[n] >= amount /\ (all \/ covered = {})
  <2>1. n \in 0 .. n /\ n \in 1 .. n
    BY <1>1
  <2>2. ~(Total(e) < amount)
    BY <1>2, <1>3, <1>9, <2>1
  <2>3. Select_from(amount, all, e) = SubSeq(e, 1, n)
    BY <1>1, <1>6, <1>9, <2>2
  <2>4. ASSUME ~all, n >= 2 PROVE P[n - 2] < amount
    <3>1. n - 1 \in 1 .. n /\ n - 2 \in 0 .. n /\ n - 1 - 1 = n - 2
      BY <1>1, <2>4
    <3>2. P[n - 2] <= P[n - 1]
      BY <1>4, <3>1
    <3>3. ~(P[n - 1] >= amount)
      BY <1>5, <1>9, <2>1, <2>4
    <3>4. n - 1 \in 0 .. n
      BY <3>1
    <3>5. P[n - 1] \in Nat /\ P[n - 2] \in Nat
      BY <1>3, <3>1, <3>4
    <3> QED BY <3>2, <3>3, <3>5
  <2>5. CoversWith(P, amount, all, n)
    BY <1>9, <2>4 DEF CoversWith
  <2> QED BY <1>3, <1>9, <2>1, <2>3, <2>5 DEF n
<1>10. CASE P[n] >= amount /\ ~all /\ covered # {}
  <2>1. n \in 0 .. n
    BY <1>1
  <2>2. ~(Total(e) < amount)
    BY <1>2, <1>3, <1>10, <2>1
  <2>3. Min(covered) \in covered /\ \A j \in covered : Min(covered) <= j
    <3>1. covered \in SUBSET Nat
      BY <1>7
    <3> QED BY <1>10, <3>1, MinIsLeast
  <2>4. PICK m \in covered : m = Min(covered) /\ \A j \in covered : m <= j
    BY <2>3
  <2>5. m \in 1 .. n /\ m \in 0 .. n /\ m - 1 \in 0 .. n
    BY <1>1, <1>7
  <2>6. P[m] >= amount
    <3>1. P[m - 1] >= amount /\ P[m - 1] <= P[m]
      BY <1>4, <1>5, <2>5
    <3> QED BY <1>3, <2>5, <3>1
  <2>7. ASSUME m >= 2 PROVE P[m - 2] < amount
    <3>1. m - 1 \in 1 .. n /\ m - 2 \in 0 .. n /\ m - 1 - 1 = m - 2
      BY <1>1, <2>5, <2>7
    <3>2. m - 1 \notin covered
      BY <2>4, <2>5
    <3>3. ~(P[m - 2] >= amount)
      BY <1>5, <3>1, <3>2
    <3> QED BY <1>3, <3>1, <3>3
  <2>8. CoversWith(P, amount, all, m)
    BY <2>6, <2>7 DEF CoversWith
  <2>9. Select_from(amount, all, e) = SubSeq(e, 1, m)
    BY <1>6, <1>10, <2>2, <2>4
  <2> QED BY <1>3, <1>10, <2>1, <2>5, <2>8, <2>9 DEF n
<1>11. P[n] < amount \/ P[n] >= amount
  <2>1. n \in 0 .. n
    BY <1>1
  <2> QED BY <1>3, <2>1
<1> QED BY <1>8, <1>9, <1>10, <1>11

\* Any stretch of the coins has sums of its own, which do not wrap either.
LEMMA StretchSums ==
  ASSUME NEW S, NEW e \in Seq(S), NEW P, AddsUp(P, e), P[Len(e)] < ULong,
         NEW a \in 0 .. Len(e), NEW b \in 1 .. Len(e), a < b
  PROVE  LET w == SubSeq(e, a + 1, b)
         IN w \in Seq(S) /\ w # << >> /\ \E Q : AddsUp(Q, w) /\ Q[Len(w)] < ULong
<1> DEFINE n == Len(e)
           w == SubSeq(e, a + 1, b)
           Q == [i \in 0 .. b - a |-> P[a + i] - P[a]]
<1>1. n \in Nat /\ a \in Nat /\ b \in Nat /\ b - a \in Nat \ {0} /\ b <= n
  OBVIOUS
<1>2. w \in Seq(S) /\ Len(w) = b - a /\ \A i \in 1 .. b - a : w[i] = e[a + i]
  BY <1>1
<1>3. \A i \in 0 .. b - a : a + i \in 0 .. n
  BY <1>1
<1>4. \A i \in 1 .. b - a : a + i \in 1 .. n /\ i - 1 \in 0 .. b - a /\ a + (i - 1) = a + i - 1
  BY <1>1
<1> HIDE DEF w, n
<1>5. \A i \in 0 .. n : P[i] \in Nat
  BY DEF AddsUp, n
<1>6. ASSUME NEW i \in 1 .. n PROVE P[i] = P[i - 1] + e[i].value /\ e[i].value \in Nat
  BY DEF AddsUp, n
<1>7. P[a] \in Nat
  BY <1>5 DEF n
<1>8. \A i \in 0 .. b - a : Q[i] = P[a + i] - P[a]
  OBVIOUS
<1> HIDE DEF Q
<1>9. Q[0] = 0
  <2>1. 0 \in 0 .. b - a /\ a + 0 = a
    BY <1>1
  <2> QED BY <1>7, <1>8, <2>1
<1>10. ASSUME NEW i \in 1 .. b - a
       PROVE  w[i].value \in Nat /\ Q[i] = Q[i - 1] + w[i].value
  <2>1. PICK j \in 1 .. n : j = a + i
    BY <1>4
  <2>2. i \in 0 .. b - a /\ i - 1 \in 0 .. b - a /\ a + (i - 1) = j - 1 /\ j - 1 \in 0 .. n
    BY <1>1, <2>1
  <2>3. Q[i] = P[j] - P[a] /\ Q[i - 1] = P[j - 1] - P[a]
    BY <1>8, <2>1, <2>2
  <2>4. P[j] = P[j - 1] + e[j].value /\ e[j].value \in Nat
    BY <1>6
  <2>5. w[i].value = e[j].value
    BY <1>2, <2>1
  <2>6. P[j - 1] \in Nat
    BY <1>5, <2>2
  <2> QED BY <1>7, <2>3, <2>4, <2>5, <2>6
<1>11. ASSUME NEW k \in 0 .. b - a PROVE Q[k] \in Int
  <2>1. a + k \in 0 .. n
    BY <1>3
  <2>2. P[a + k] \in Nat
    BY <1>5, <2>1
  <2> QED BY <1>7, <1>8, <2>2
<1>12. ASSUME NEW k \in 0 .. b - a PROVE Q[k] \in Nat
  <2> DEFINE T == {j \in Nat : j <= b - a /\ Q[j] \notin Nat}
  <2> SUFFICES ASSUME Q[k] \notin Nat PROVE FALSE
    OBVIOUS
  <2>1. k \in T
    OBVIOUS
  <2>2. T \in SUBSET Nat /\ T # {}
    BY <2>1
  <2>3. PICK j \in T : \A l \in T : j <= l
    <3> HIDE DEF T
    <3> QED BY <2>2, LeastNumber
  <2>4. j \in Nat /\ j <= b - a /\ Q[j] \notin Nat
    OBVIOUS
  <2>5. j # 0
    BY <1>9, <2>4
  <2>6. j \in 1 .. b - a /\ j - 1 \in Nat /\ j - 1 <= b - a
    BY <1>1, <2>4, <2>5
  <2>7. Q[j - 1] \in Nat
    BY <2>3, <2>6
  <2>8. Q[j] = Q[j - 1] + w[j].value /\ w[j].value \in Nat
    BY <1>10, <2>6
  <2> HIDE DEF T
  <2> QED BY <2>4, <2>7, <2>8
<1>13. AddsUp(Q, w)
  BY <1>2, <1>9, <1>10, <1>12 DEF AddsUp
<1>14. Q[b - a] < ULong
  <2>1. b - a \in 0 .. b - a /\ a + (b - a) = b /\ b \in 0 .. n /\ n \in 0 .. n
    BY <1>1
  <2>2. Q[b - a] = P[b] - P[a]
    BY <1>8, <2>1
  <2>3. P[b] <= P[n]
    BY <1>1, <2>1, SumsGrow DEF n
  <2>4. P[b] \in Nat /\ P[n] \in Nat
    BY <1>5, <2>1
  <2>5. P[n] < ULong
    BY DEF n
  <2> QED BY <1>7, <2>2, <2>3, <2>4, <2>5, WalletDataAssumption
<1>15. w # << >>
  BY <1>1, <1>2
<1> QED BY <1>2, <1>13, <1>14, <1>15 DEF w

\* The coins t of the group w are enough of its first ones, at most one more than
\* that unless all are wanted, and then they are the group.
EnoughOf(t, w, amount, all) ==
  /\ t # <<>> /\ Total(t) >= amount
  /\ IsPrefix(t, w)
  /\ IF all THEN t = w ELSE Len(t) >= 2 => ~(Total(SubSeq(t, 1, Len(t) - 2)) >= amount)

\* Select_from takes such coins of a group that covers the amount, of any other none.
LEMMA TakenIs ==
  ASSUME NEW S, NEW w \in Seq(S), w # << >>, NEW P, AddsUp(P, w), P[Len(w)] < ULong,
         NEW amount \in Nat, NEW all \in BOOLEAN
  PROVE  /\ ~(Total(w) >= amount) => Select_from(amount, all, w) = << >>
         /\ Total(w) >= amount => EnoughOf(Select_from(amount, all, w), w, amount, all)
<1> DEFINE n == Len(w)
           t == Select_from(amount, all, w)
<1>1. n \in Nat /\ n \in 0 .. n
  OBVIOUS
<1>2. Total(w) = P[n] /\ P[n] \in Nat
  <2>1. Total(w) = P[n]
    BY <1>1, TotalIs
  <2> QED BY <1>1, <2>1 DEF AddsUp
<1> HIDE DEF n, t
<1>3. CASE ~(Total(w) >= amount)
  <2>1. P[n] < amount
    BY <1>2, <1>3
  <2>2. t = <<>>
    BY <2>1, SelectFromCovers DEF n, t
  <2> QED BY <1>3, <2>2 DEF t
<1>4. CASE Total(w) >= amount
  <2>1. PICK m \in 1 .. n : t = SubSeq(w, 1, m) /\ CoversWith(P, amount, all, m)
    BY <1>2, <1>4, SelectFromCovers DEF n, t
  <2>2. m \in 0 .. n /\ t # <<>> /\ Len(t) = m
    BY <1>1, <2>1 DEF n
  <2>3. Total(t) = P[m]
    BY <2>1, <2>2, TotalPrefix DEF n
  <2>4. Total(t) >= amount
    BY <2>1, <2>3 DEF CoversWith
  <2>5. IsPrefix(t, w)
    <3>1. SubSeq(t, 1, Len(t)) = SubSeq(w, 1, Len(t)) /\ Len(t) <= Len(w)
      BY <1>1, <2>1, <2>2 DEF n
    <3> QED BY <3>1 DEF IsPrefix
  <2>6. ASSUME all PROVE t = w
    <3>1. ~(Total(w) < amount)
      BY <1>2, <1>4
    <3> QED BY <2>6, <3>1 DEF t, Select_from
  <2>7. ASSUME ~all, m >= 2 PROVE ~(Total(SubSeq(t, 1, m - 2)) >= amount)
    <3>1. m - 2 \in 0 .. n
      BY <1>1, <2>7
    <3>2. SubSeq(t, 1, m - 2) = SubSeq(w, 1, m - 2)
      BY <1>1, <2>1, <2>2, <3>1 DEF n
    <3>3. Total(SubSeq(w, 1, m - 2)) = P[m - 2]
      BY <3>1, TotalPrefix DEF n
    <3>4. P[m - 2] < amount /\ P[m - 2] \in Nat
      BY <2>1, <2>7, <3>1 DEF CoversWith, AddsUp, n
    <3>5. ~(P[m - 2] >= amount)
      BY <3>4
    <3> QED BY <3>2, <3>3, <3>5, Zenon
  <2>8. EnoughOf(t, w, amount, all)
    BY <2>2, <2>4, <2>5, <2>6, <2>7 DEF EnoughOf
  <2> QED BY <1>4, <2>8 DEF t
<1> QED BY <1>3, <1>4

\* On every wallet, and for every amount and limit, Select takes its coins from the
\* first group that covers the amount and only if there is none gives the last ones;
\* it gives no more inputs than asked for and, without the default strategy, at most
\* one more than it needs.
THEOREM FundsAreFound == Spec => []FundsFound
<1>1. SelectionInv => FundsFound
  <2> SUFFICES ASSUME SelectionInv PROVE FundsFound
    OBVIOUS
  <2> DEFINE S == EligibleCoins(outputs, Root, CurrentHeight, request.min)
             e == Candidates
             n == Len(e)
             m == request.max
             amount == request.amount
             all == request.default
  <2>1. AtMostMaxOutputs
    BY CoinsAre DEF Selection, AtMostMaxOutputs
  <2> SUFFICES ASSUME Answered PROVE FirstGroupTaken /\ LastOnesElse
    BY <2>1 DEF FundsFound
  <2>2. request \in Requests /\ coins = Answer /\ outputs \in Wallets
    <3>1. NoRequest.max = 0
      BY DEF NoRequest
    <3>2. request # NoRequest
      BY <3>1 DEF Answered
    <3> QED BY <3>2 DEF SelectionInv
  <2>3. amount \in Nat /\ all \in BOOLEAN /\ m \in Nat /\ m # 0
    <3>1. Amounts \subseteq Nat /\ Limits \subseteq Nat
      BY SelectionAssumption
    <3>2. \A r \in Requests : r.amount \in Amounts /\ r.max \in Limits
      BY DEF Requests
    <3>3. \A r \in Requests : r.default \in BOOLEAN
      BY DEF Requests
    <3>4. request.max > 0
      BY DEF Answered
    <3>5. amount \in Nat /\ m \in Nat
      BY <2>2, <3>1, <3>2
    <3>6. all \in BOOLEAN
      BY <2>2, <3>3, Zenon
    <3> QED BY <3>4, <3>5, <3>6
  <2>4. e \in Seq(S) /\ e # <<>>
    BY <2>2, CandidatesAre DEF Answered
  <2>5. PICK P : AddsUp(P, e) /\ P[n] < ULong
    BY <2>2, CandidatesAre
  <2>6. coins = Select(e, amount, m, all)
    BY <2>2, <2>3, <2>4 DEF Answer, Select_throws
  <2>7. Groups = 1 .. Parts(e, m) /\ \A g \in Groups : Group(g) = Part(e, m, g)
    BY DEF Groups, Group, Part, Parts
  <2>8. \A s : Covers(s) <=> Total(s) >= amount
    BY DEF Covers
  <2>9. n \in Nat
    BY <2>4
  <2> HIDE DEF S, e, n, m, amount, all
  <2> DEFINE T(g) == Taken(e, amount, m, all, g)
  <2>10. ASSUME NEW g \in Groups
         PROVE  /\ ~Covers(Group(g)) => T(g) = <<>>
                /\ Covers(Group(g)) => EnoughOf(T(g), Group(g), amount, all)
    <3>1. PICK a \in 0 .. n, b \in 1 .. n : a < b /\ Part(e, m, g) = SubSeq(e, a + 1, b)
      BY <2>3, <2>4, <2>7, PartIs DEF n
    <3> DEFINE w == SubSeq(e, a + 1, b)
    <3>2. Group(g) = w /\ T(g) = Select_from(amount, all, w)
      BY <2>7, <3>1 DEF Taken
    <3>3. w \in Seq(S) /\ w # <<>> /\ \E Q : AddsUp(Q, w) /\ Q[Len(w)] < ULong
      BY <2>4, <2>5, <3>1, StretchSums DEF n
    <3> HIDE DEF w, T
    <3>4. PICK Q : AddsUp(Q, w) /\ Q[Len(w)] < ULong
      BY <3>3
    <3>5. /\ ~(Total(w) >= amount) => Select_from(amount, all, w) = <<>>
          /\ Total(w) >= amount => EnoughOf(Select_from(amount, all, w), w, amount, all)
      BY <2>3, <3>3, <3>4, TakenIs
    <3> QED BY <2>8, <3>2, <3>5
  <2>11. ASSUME NEW g \in Groups, Covers(Group(g)), \A h \in 1 .. g - 1 : ~Covers(Group(h))
         PROVE  coins = T(g) /\ EnoughOf(T(g), Group(g), amount, all)
    <3>1. EnoughOf(T(g), Group(g), amount, all) /\ T(g) # <<>>
      BY <2>10, <2>11 DEF EnoughOf
    <3>2. \A h \in 1 .. g - 1 : T(h) = <<>>
      <4> SUFFICES ASSUME NEW h \in 1 .. g - 1 PROVE T(h) = <<>>
        OBVIOUS
      <4>1. Parts(e, m) \in Int
        <5>1. n + m - 1 \in Int
          BY <2>3, <2>9
        <5> QED BY <2>3, <5>1, Division DEF Parts, n
      <4>2. h \in Groups
        BY <2>7, <4>1
      <4> HIDE DEF T
      <4> QED BY <2>10, <2>11, <4>2
    <3>3. \A k \in 1 .. Parts(e, m) :
            /\ T(k) # <<>>
            /\ \A h \in 1 .. k - 1 : T(h) = <<>>
            => Select(e, amount, m, all) = T(k)
      <4>1. m \in Nat \ {0}
        BY <2>3
      <4> QED BY <2>4, <4>1, SelectGroups, Zenon
    <3> HIDE DEF T
    <3>4. Select(e, amount, m, all) = T(g)
      BY <2>7, <3>1, <3>2, <3>3
    <3> QED BY <2>6, <3>1, <3>4
  <2>12. FirstGroupTaken
    <3> SUFFICES ASSUME NEW g \in Groups, Covers(Group(g)), \A h \in 1 .. g - 1 : ~Covers(Group(h))
                 PROVE  /\ Covers(coins)
                        /\ IsPrefix(coins, Group(g))
                        /\ IF all THEN coins = Group(g)
                           ELSE Len(coins) >= 2 => ~Covers(SubSeq(coins, 1, Len(coins) - 2))
      BY Zenon DEF FirstGroupTaken, all
    <3>1. EnoughOf(coins, Group(g), amount, all)
      <4> HIDE DEF T
      <4> QED BY <2>11
    <3>2. \A s : Covers(s) <=> Total(s) >= amount
      BY <2>8
    <3> QED BY <3>1, <3>2, Zenon DEF EnoughOf
  <2>13. LastOnesElse
    <3> SUFFICES ASSUME \A g \in Groups : ~Covers(Group(g))
                 PROVE  coins = [i \in 1 .. Min({m, n}) |-> e[n - i + 1]]
      BY DEF LastOnesElse, m, n, e
    <3>1. \A g \in 1 .. Parts(e, m) : T(g) = <<>>
      <4> HIDE DEF T
      <4> QED BY <2>7, <2>10
    <3>2. coins = SubSeq(Reverse(e), 1, Min({m, n}))
      BY <2>3, <2>4, <2>6, <3>1, SelectGroups DEF n
    <3>3. Min({m, n}) = IF m <= n THEN m ELSE n
      BY <2>3, <2>9, MinOfTwo
    <3>4. PICK k \in 0 .. n : k = Min({m, n})
      BY <2>3, <2>9, <3>3
    <3>5. /\ Reverse(e) \in Seq(S) /\ Len(Reverse(e)) = n
          /\ \A i \in 1 .. n : Reverse(e)[i] = e[n - i + 1]
      BY <2>4, <2>9 DEF Reverse, n
    <3> DEFINE r == Reverse(e)
    <3> HIDE DEF r
    <3>6. /\ SubSeq(r, 1, k) = [i \in 1 .. k |-> r[i]]
      BY <2>9, <3>4, <3>5 DEF r
    <3>7. \A i \in 1 .. k : r[i] = e[n - i + 1]
      BY <2>9, <3>4, <3>5 DEF r
    <3> QED BY <3>2, <3>4, <3>6, <3>7 DEF r
  <2> QED BY <2>12, <2>13
<1> QED BY <1>1, SelectionInvariance, PTL
================================================================================
