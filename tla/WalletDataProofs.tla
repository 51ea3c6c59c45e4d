--------------------------- MODULE WalletDataProofs ---------------------------
(***************************************************************************)
(* What the operations of WalletData do to a wallet, for any contents:     *)
(* the facts that the proofs about payments and coin selection rest on.    *)
(***************************************************************************)
EXTENDS WalletData, DataLemmas

\* The fields of an OutputData.
OutputFields == {"value", "status", "height", "lock_height", "is_coinbase"}

\* The Outputs of a wallet with root key w: finitely many records, each under a
\* key derived from w.
IsWallet(o, w) ==
  /\ IsFiniteSet(DOMAIN o)
  /\ \A k \in DOMAIN o :
       /\ k \in {w} \X Nat
       /\ DOMAIN o[k] = OutputFields
       /\ o[k].status \in OutputStatus

\* Max, of a finite set of numbers that is not empty, is its greatest element.
LEMMA MaxIsGreatest ==
  ASSUME NEW S \in SUBSET Nat, IsFiniteSet(S), S # {}
  PROVE  Max(S) \in S /\ \A m \in S : m <= Max(S)
<1>1. \E n \in S : \A m \in S : m <= n
  BY GreatestNumber
<1>2. \E n \in S : \A m \in S : n >= m
  BY <1>1
<1> QED BY <1>2 DEF Max

\* Next_child gives a child index that no output of the wallet has, so the key
\* that next_available_key derives is not in the wallet.
LEMMA NextChildIsFresh ==
  ASSUME NEW o, NEW w, IsFiniteSet(DOMAIN o), \A k \in DOMAIN o : k[2] \in Nat
  PROVE  /\ Next_child(o, w) \in Nat
         /\ <<w, Next_child(o, w)>> \notin DOMAIN o
<1> DEFINE J == {j \in DOMAIN o : j[1] = w}
           S == {0} \cup {k[2] : k \in J}
<1>1. IsFiniteSet(J)
  BY FS_Subset
<1>2. IsFiniteSet({k[2] : k \in J})
  <2>1. [k \in J |-> k[2]] \in Surjection(J, {k[2] : k \in J})
    BY DEF Surjection
  <2> QED BY <1>1, <2>1, FS_Surjection, Zenon
<1>3. IsFiniteSet(S)
  BY <1>2, FS_Union, FS_Singleton
<1>4. S \in SUBSET Nat /\ S # {}
  OBVIOUS
<1>5. Max(S) \in S /\ \A m \in S : m <= Max(S)
  BY <1>3, <1>4, MaxIsGreatest
<1>6. Next_child(o, w) = Max(S) + 1
  BY DEF Next_child
<1>7. \A n : <<w, n>> \in DOMAIN o => n \in S
  <2> SUFFICES ASSUME NEW n, <<w, n>> \in DOMAIN o PROVE n \in S
    OBVIOUS
  <2>1. <<w, n>> \in J /\ <<w, n>>[2] = n
    OBVIOUS
  <2> QED BY <2>1, Zenon
<1>8. Max(S) + 1 \in Nat /\ Max(S) + 1 \notin S
  <2> HIDE DEF S
  <2>1. PICK m \in S : m = Max(S)
    BY <1>5
  <2>2. m \in Nat /\ \A j \in S : j \in Nat /\ j <= m
    BY <1>4, <1>5, <2>1
  <2>3. m + 1 \in Nat /\ m + 1 \notin S
    BY <2>2
  <2> QED BY <2>1, <2>3
<1> QED BY <1>6, <1>7, <1>8, Zenon

\* Add_output under a fresh key leaves the other outputs alone.
LEMMA AddOutput ==
  ASSUME NEW o, NEW w, IsWallet(o, w), NEW n \in Nat, NEW value, NEW isCoinbase,
         NEW p, p = Add_output(o, <<w, n>>, OutputData(value, isCoinbase))
  PROVE  /\ IsWallet(p, w)
         /\ DOMAIN p = DOMAIN o \cup {<<w, n>>}
         /\ p[<<w, n>>].value = value
         /\ p[<<w, n>>].status = "Unconfirmed"
         /\ \A j \in DOMAIN o \ {<<w, n>>} : p[j] = o[j]
<1> DEFINE k == <<w, n>>
<1>1. DOMAIN p = DOMAIN o \cup {k} /\ p[k] = OutputData(value, isCoinbase)
  BY DEF Add_output
<1>2. \A j \in DOMAIN o \ {k} : p[j] = o[j]
  BY DEF Add_output
<1>3. IsFiniteSet(DOMAIN p)
  BY <1>1, FS_AddElement DEF IsWallet
<1>4. /\ DOMAIN OutputData(value, isCoinbase) = OutputFields
      /\ OutputData(value, isCoinbase).status = "Unconfirmed"
      /\ OutputData(value, isCoinbase).value = value
  BY DEF OutputData, OutputFields
<1>5. IsWallet(p, w)
  <2> QED BY <1>1, <1>2, <1>3, <1>4 DEF IsWallet, OutputStatus
<1> QED BY <1>1, <1>2, <1>4, <1>5

\* Delete_output drops one output and leaves the others alone.
LEMMA DeleteOutput ==
  ASSUME NEW o, NEW w, IsWallet(o, w), NEW k
  PROVE  /\ IsWallet(Delete_output(o, k), w)
         /\ DOMAIN Delete_output(o, k) = DOMAIN o \ {k}
         /\ \A j \in DOMAIN o \ {k} : Delete_output(o, k)[j] = o[j]
<1> DEFINE p == Delete_output(o, k)
<1>1. DOMAIN p = DOMAIN o \ {k} /\ \A j \in DOMAIN o \ {k} : p[j] = o[j]
  BY DEF Delete_output, Restrict
<1>2. IsFiniteSet(DOMAIN p)
  BY <1>1, FS_RemoveElement DEF IsWallet
<1>3. IsWallet(p, w)
  <2> HIDE DEF p
  <2> QED BY <1>1, <1>2 DEF IsWallet
<1> QED BY <1>1, <1>3

\* Lock_output locks the outputs that the coins stand for and no others, and
\* changes nothing else.
LEMMA LockOutput ==
  ASSUME NEW o, NEW w, IsWallet(o, w), NEW coins, NEW p, p = Lock_output(o, coins)
  PROVE  /\ IsWallet(p, w)
         /\ DOMAIN p = DOMAIN o
         /\ \A k \in DOMAIN o :
              /\ p[k].value = o[k].value
              /\ p[k].height = o[k].height
              /\ Coin(o, k) \in ToSet(coins) => p[k].status = "Locked"
              /\ Coin(o, k) \notin ToSet(coins) => p[k].status = o[k].status
<1>1. DOMAIN p = DOMAIN o
  BY DEF Lock_output
<1>2. ASSUME NEW k \in DOMAIN o
      PROVE  /\ DOMAIN p[k] = OutputFields
             /\ p[k].value = o[k].value
             /\ p[k].height = o[k].height
             /\ Coin(o, k) \in ToSet(coins) => p[k].status = "Locked"
             /\ Coin(o, k) \notin ToSet(coins) => p[k].status = o[k].status
  <2>1. p[k] = IF Coin(o, k) \in ToSet(coins)
               THEN [o[k] EXCEPT !.status = "Locked"] ELSE o[k]
    BY DEF Lock_output
  <2>2. DOMAIN o[k] = OutputFields
    BY DEF IsWallet
  <2> QED BY <2>1, <2>2 DEF OutputFields
<1>3. IsWallet(p, w)
  <2> QED BY <1>1, <1>2 DEF IsWallet, OutputStatus
<1> QED BY <1>1, <1>2, <1>3

\* A refresh keeps the outputs and their values.  It changes a status only to
\* Unspent, of an unconfirmed output whose commitment the node has, and to Spent,
\* of an unspent or a locked one; the height of an output that it makes unspent,
\* or that stays so, is the node's or is kept.
LEMMA RefreshOutputs ==
  ASSUME NEW o, NEW w, IsWallet(o, w), NEW commits, NEW apiOutputs,
         NEW p, p = ApplyRefresh(o, commits, apiOutputs)
  PROVE  /\ IsWallet(p, w)
         /\ DOMAIN p = DOMAIN o
         /\ \A k \in DOMAIN o :
              /\ p[k].value = o[k].value
              /\ \/ p[k] = o[k]
                 \/ \E c \in commits \cap DOMAIN apiOutputs :
                      /\ c.key = k
                      /\ p[k].height = apiOutputs[c].height
                      /\ p[k].status = IF o[k].status = "Unconfirmed" THEN "Unspent"
                                       ELSE o[k].status
                 \/ p[k].status = IF o[k].status \in {"Unspent", "Locked"} THEN "Spent"
                                  ELSE o[k].status
<1> DEFINE asked(k) == {c \in commits : c.key = k}
           known(k) == asked(k) \cap DOMAIN apiOutputs
<1>1. DOMAIN p = DOMAIN o
  BY DEF ApplyRefresh
<1>2. ASSUME NEW k \in DOMAIN o
      PROVE  /\ DOMAIN p[k] = OutputFields
             /\ p[k].status \in OutputStatus
             /\ p[k].value = o[k].value
             /\ \/ p[k] = o[k]
                \/ \E c \in commits \cap DOMAIN apiOutputs :
                     /\ c.key = k
                     /\ p[k].height = apiOutputs[c].height
                     /\ p[k].status = IF o[k].status = "Unconfirmed" THEN "Unspent"
                                      ELSE o[k].status
                \/ p[k].status = IF o[k].status \in {"Unspent", "Locked"} THEN "Spent"
                                 ELSE o[k].status
  <2>1. p[k] = IF asked(k) = {} THEN o[k]
               ELSE IF known(k) # {}
               THEN refresh_output(o[k], apiOutputs[CHOOSE c \in known(k) : TRUE])
               ELSE mark_spent_output(o[k])
    BY DEF ApplyRefresh
  <2>2. DOMAIN o[k] = OutputFields /\ o[k].status \in OutputStatus
    BY DEF IsWallet
  <2>3. CASE asked(k) = {}
    BY <2>1, <2>2, <2>3
  <2>4. CASE known(k) # {}
    <3> DEFINE c == CHOOSE c \in known(k) : TRUE
    <3>1. c \in commits \cap DOMAIN apiOutputs /\ c.key = k
      BY <2>4
    <3>2. p[k] = refresh_output(o[k], apiOutputs[c])
      BY <2>1, <2>4
    <3> HIDE DEF c
    <3> QED BY <3>1, <3>2, <2>2 DEF refresh_output, OutputFields, OutputStatus
  <2>5. CASE asked(k) # {} /\ known(k) = {}
    <3>1. p[k] = mark_spent_output(o[k])
      BY <2>1, <2>5
    <3> QED BY <3>1, <2>2 DEF mark_spent_output, OutputFields, OutputStatus
  <2> QED BY <2>3, <2>4, <2>5
<1>3. IsWallet(p, w)
  <2> QED BY <1>1, <1>2 DEF IsWallet
<1> QED BY <1>1, <1>2, <1>3
------------------------------------------------------------------------------
(* Coin selection *)

\* The coins that Eligible puts in order.
EligibleCoins(o, root, currentHeight, minimumConfirmations) ==
  {Coin(o, k) : k \in {j \in DOMAIN o :
     j[1] = root /\ eligible_to_spend(o[j], currentHeight, minimumConfirmations)}}

\* The KeyIds of a root key's outputs differ.
RanksDiffer(o, root) ==
  /\ \A k \in DOMAIN o : k[1] = root => KeyRank(k) \in Int
  /\ \A j, k \in DOMAIN o : j[1] = root /\ k[1] = root /\ KeyRank(j) = KeyRank(k) => j = k

\* Eligible lists the eligible coins, all of them and each once.
LEMMA EligibleIs ==
  ASSUME NEW o, NEW root, NEW h, NEW m, IsFiniteSet(DOMAIN o), RanksDiffer(o, root)
  PROVE  /\ Eligible(o, root, h, m) \in Seq(EligibleCoins(o, root, h, m))
         /\ IsInjective(Eligible(o, root, h, m))
<1> DEFINE J == {j \in DOMAIN o : j[1] = root /\ eligible_to_spend(o[j], h, m)}
           found == EligibleCoins(o, root, h, m)
           rank == [c \in found |-> KeyRank(c.key)]
           Before(coin) == {c \in found : KeyRank(c.key) < KeyRank(coin.key)}
           n == Cardinality(found)
           e == Eligible(o, root, h, m)
<1>1. found = {Coin(o, k) : k \in J}
  BY DEF EligibleCoins
<1>2. IsFiniteSet(found)
  <2>1. IsFiniteSet(J)
    BY FS_Subset
  <2>2. [k \in J |-> Coin(o, k)] \in Surjection(J, found)
    BY <1>1 DEF Surjection
  <2> QED BY <2>1, <2>2, FS_Surjection, Zenon
<1>3. ASSUME NEW c \in found PROVE c.key \in J /\ c = Coin(o, c.key)
  BY <1>1 DEF Coin
<1>4. rank \in [found -> Int] /\ \A c, d \in found : rank[c] = rank[d] => c = d
  <2> HIDE DEF found
  <2>1. rank \in [found -> Int]
    BY <1>3 DEF RanksDiffer
  <2>2. ASSUME NEW c \in found, NEW d \in found, rank[c] = rank[d] PROVE c = d
    <3>1. c.key = d.key
      BY <1>3, <2>2 DEF RanksDiffer
    <3> QED BY <1>3, <3>1
  <2> QED BY <2>1, <2>2
<1>5. ASSUME NEW i \in 1 .. n PROVE \E c \in found : Cardinality(Before(c)) = i - 1
  <2>1. \A c \in found : {d \in found : rank[d] < rank[c]} = Before(c)
    <3> HIDE DEF found
    <3> QED OBVIOUS
  <2>2. \E c \in found : Cardinality({d \in found : rank[d] < rank[c]}) = i - 1
    <3> HIDE DEF rank, found
    <3> QED BY <1>2, <1>4, Ranking
  <2> HIDE DEF rank, found, Before
  <2> QED BY <2>1, <2>2
<1>6. e = [i \in 1 .. n |-> CHOOSE coin \in found : Cardinality(Before(coin)) = i - 1]
  BY DEF Eligible, EligibleCoins
<1>7. n \in Nat
  BY <1>2, FS_CardinalityType
<1> HIDE DEF e, n, found, Before
<1>8. \A i \in 1 .. n : e[i] \in found /\ Cardinality(Before(e[i])) = i - 1
  BY <1>5, <1>6
<1>9. e \in Seq(found)
  BY <1>6, <1>7, <1>8
<1>10. IsInjective(e)
  BY <1>6, <1>7, <1>8 DEF IsInjective
<1> QED BY <1>9, <1>10 DEF e, found
\* At most m coins of S, none of them twice.
Selection(t, S, m) == t \in Seq(S) /\ IsInjective(t) /\ Len(t) <= m

\* Min, of a set of numbers that is not empty, is its least element.
LEMMA MinIsLeast ==
  ASSUME NEW S \in SUBSET Nat, S # {}
  PROVE  Min(S) \in S /\ \A m \in S : Min(S) <= m
<1>1. \E n \in S : \A m \in S : n <= m
  BY LeastNumber
<1> QED BY <1>1 DEF Min

\* The lesser of two numbers.
LEMMA MinOfTwo ==
  ASSUME NEW a \in Nat, NEW b \in Nat
  PROVE  Min({a, b}) = IF a <= b THEN a ELSE b
<1>1. Min({a, b}) \in {a, b} /\ \A m \in {a, b} : Min({a, b}) <= m
  BY MinIsLeast
<1>2. PICK m \in {a, b} : m = Min({a, b}) /\ m <= a /\ m <= b
  BY <1>1
<1> QED BY <1>2

\* A stretch of a selection is a selection.
LEMMA SubSelection ==
  ASSUME NEW S, NEW s \in Seq(S), IsInjective(s), NEW a \in Nat, NEW b \in Nat, NEW m \in Nat,
         1 <= a, b <= Len(s), b - a + 1 <= m
  PROVE  Selection(SubSeq(s, a, b), S, m)
<1> DEFINE t == SubSeq(s, a, b)
<1>1. t \in Seq(S)
  OBVIOUS
<1>2. Len(t) = IF a <= b THEN b - a + 1 ELSE 0
  OBVIOUS
<1>3. \A i \in 1 .. Len(t) : t[i] = s[a + i - 1] /\ a + i - 1 \in 1 .. Len(s)
  BY <1>2
<1>4. DOMAIN t = 1 .. Len(t) /\ DOMAIN s = 1 .. Len(s) /\ Len(t) \in Nat
  BY <1>1
<1> HIDE DEF t
<1>5. ASSUME NEW i \in 1 .. Len(t), NEW j \in 1 .. Len(t), t[i] = t[j] PROVE i = j
  <2>1. s[a + i - 1] = s[a + j - 1]
    BY <1>3, <1>5
  <2>2. a + i - 1 = a + j - 1
    BY <1>3, <1>4, <2>1 DEF IsInjective
  <2> QED BY <1>4, <2>2
<1>6. IsInjective(t)
  BY <1>4, <1>5 DEF IsInjective
<1> QED BY <1>1, <1>2, <1>6 DEF Selection, t

\* So is a selection read backwards.
LEMMA ReverseSelection ==
  ASSUME NEW S, NEW s \in Seq(S), IsInjective(s)
  PROVE  Reverse(s) \in Seq(S) /\ IsInjective(Reverse(s)) /\ Len(Reverse(s)) = Len(s)
<1> DEFINE r == Reverse(s)
           n == Len(s)
<1>1. n \in Nat /\ DOMAIN s = 1 .. n
  OBVIOUS
<1>2. r = [i \in 1 .. n |-> s[n - i + 1]]
  BY DEF Reverse
<1>3. \A i \in 1 .. n : n - i + 1 \in 1 .. n /\ s[n - i + 1] \in S
  BY <1>1
<1>4. r \in Seq(S) /\ Len(r) = n
  BY <1>1, <1>2, <1>3
<1>5. IsInjective(r)
  BY <1>1, <1>2, <1>3 DEF IsInjective
<1> QED BY <1>4, <1>5

\* Select_from takes coins from the start of those it is given.
LEMMA SelectFromIs ==
  ASSUME NEW S, NEW s, NEW m \in Nat, Selection(s, S, m), NEW amount, NEW all
  PROVE  Selection(Select_from(amount, all, s), S, m)
<1> DEFINE covered == {i \in 1 .. Len(s) : Total(SubSeq(s, 1, i - 1)) >= amount}
<1>1. s \in Seq(S) /\ IsInjective(s) /\ Len(s) <= m /\ Len(s) \in Nat
  BY DEF Selection
<1>2. \/ Select_from(amount, all, s) = <<>>
      \/ Select_from(amount, all, s) = s
      \/ covered # {} /\ Select_from(amount, all, s) = SubSeq(s, 1, Min(covered))
  BY DEF Select_from
<1>3. CASE Select_from(amount, all, s) = <<>>
  <2>1. Selection(<<>>, S, m)
    BY DEF Selection, IsInjective
  <2> QED BY <1>3, <2>1
<1>4. CASE covered # {} /\ Select_from(amount, all, s) = SubSeq(s, 1, Min(covered))
  <2>1. Min(covered) \in covered
    <3>1. covered \in SUBSET Nat
      OBVIOUS
    <3> HIDE DEF covered
    <3> QED BY <1>4, <3>1, MinIsLeast
  <2>2. PICK i \in 1 .. Len(s) : i = Min(covered)
    BY <2>1
  <2> HIDE DEF covered
  <2>3. Selection(SubSeq(s, 1, i), S, m)
    BY <1>1, <2>2, SubSelection
  <2> QED BY <1>4, <2>2, <2>3
<1> QED BY <1>2, <1>3, <1>4

\* Select returns eligible coins, at most maxOutputs of them and none twice.
LEMMA SelectIs ==
  ASSUME NEW S, NEW e \in Seq(S), IsInjective(e), NEW max \in Nat, max # 0,
         NEW amount, NEW all
  PROVE  Selection(Select(e, amount, max, all), S, max)
<1> DEFINE n == Len(e)
           windows == IF n > max THEN Tuples(e, max) ELSE <<e>>
           picked == [i \in DOMAIN windows |-> Select_from(amount, all, windows[i])]
           found == {i \in DOMAIN windows : picked[i] # <<>>}
           rest == SubSeq(Reverse(e), 1, Min({max, n}))
<1>1. n \in Nat
  OBVIOUS
<1>2. Select(e, amount, max, all) = IF found # {} THEN picked[Min(found)] ELSE rest
  BY DEF Select
<1>3. /\ DOMAIN windows \in SUBSET Nat
      /\ \A i \in DOMAIN windows : Selection(windows[i], S, max)
  <2>1. CASE n > max
    <3> DEFINE count == (n + max - 1) \div max
    <3>1. count \in Nat
      BY <1>1
    <3>2. windows = [i \in 1 .. count |-> SubSeq(e, (i - 1) * max + 1, Min({i * max, n}))]
      BY <2>1 DEF Tuples
    <3>3. ASSUME NEW i \in 1 .. count
          PROVE  Selection(SubSeq(e, (i - 1) * max + 1, Min({i * max, n})), S, max)
      <4>1. PICK a \in Nat, b \in Nat : a = (i - 1) * max /\ b = i * max /\ b = a + max
        <5>1. (i - 1) * max \in Nat /\ i * max \in Nat /\ i * max = (i - 1) * max + max
          BY <3>1
        <5> QED BY <5>1
      <4>2. Min({b, n}) = IF b <= n THEN b ELSE n
        BY <1>1, MinOfTwo
      <4>3. PICK c \in Nat : c = Min({b, n}) /\ c <= n /\ c <= a + max
        BY <1>1, <4>1, <4>2
      <4>4. Selection(SubSeq(e, a + 1, c), S, max)
        BY <4>3, SubSelection
      <4> QED BY <4>1, <4>3, <4>4
    <3> HIDE DEF windows, count
    <3>4. DOMAIN windows = 1 .. count
      BY <3>2
    <3>5. \A i \in 1 .. count : Selection(windows[i], S, max)
      <4> SUFFICES ASSUME NEW i \in 1 .. count PROVE Selection(windows[i], S, max)
        OBVIOUS
      <4>1. windows[i] = SubSeq(e, (i - 1) * max + 1, Min({i * max, n}))
        BY <3>2, Zenon
      <4> QED BY <3>3, <4>1, Zenon
    <3> QED BY <3>1, <3>4, <3>5
  <2>2. CASE ~(n > max)
    <3>1. windows = <<e>>
      BY <2>2
    <3>2. Selection(e, S, max)
      BY <1>1, <2>2 DEF Selection
    <3> HIDE DEF windows
    <3> QED BY <3>1, <3>2
  <2> QED BY <2>1, <2>2
<1>4. \A i \in DOMAIN windows : Selection(picked[i], S, max)
  <2> HIDE DEF windows
  <2> QED BY <1>3, SelectFromIs
<1>5. CASE found # {}
  <2>1. Min(found) \in found
    <3>1. found \in SUBSET Nat
      <4> HIDE DEF windows, picked
      <4> QED BY <1>3
    <3> HIDE DEF found
    <3> QED BY <1>5, <3>1, MinIsLeast
  <2>2. Min(found) \in DOMAIN windows
    <3> HIDE DEF windows, picked
    <3> QED BY <2>1
  <2> HIDE DEF windows, picked, found
  <2> QED BY <1>2, <1>4, <1>5, <2>2
<1>6. CASE found = {}
  <2>1. Reverse(e) \in Seq(S) /\ IsInjective(Reverse(e)) /\ Len(Reverse(e)) = n
    BY ReverseSelection
  <2>2. PICK c \in Nat : c = Min({max, n}) /\ c <= n /\ c <= max
    BY <1>1, MinOfTwo
  <2>3. Selection(SubSeq(Reverse(e), 1, c), S, max)
    BY <2>1, <2>2, SubSelection
  <2> HIDE DEF found
  <2> QED BY <1>2, <1>6, <2>2, <2>3
<1> QED BY <1>5, <1>6
===============================================================================
