------------------------- MODULE VerificationProofs -------------------------
(***************************************************************************)
(* The verification of payments for any chain, prices and addresses, any   *)
(* limits and any number of transfers: types, what an answer may say and   *)
(* leave out, and the cache as an implementation of FreshCache.            *)
(***************************************************************************)
EXTENDS Verification, FiniteSetTheorems, SequenceTheorems, WellFoundedInduction, TLAPS

LEMMA Numbers ==
    /\ Required \in Nat /\ Required > 0 /\ Ttl \in Nat /\ Ttl > 0
    /\ MaxSize \in Nat /\ MaxSize > 0 /\ Budget \in Nat /\ Budget > 0
    /\ Pages \in Nat /\ Pages > 0 /\ PageSize \in Nat /\ PageSize > 0
    /\ MaxTx \in Nat /\ MaxTrouble \in Nat /\ "nobody" \notin Addr
    /\ NoCursor \in Nat /\ NoCursor = MaxTx + 1
BY VerificationAssumption DEF NoCursor

\* Ages go up to the horizon, which is beyond all that they are compared with.
LEMMA Ages ==
    /\ Horizon \in Nat /\ Horizon >= Required + Ttl /\ Horizon >= Ttl + Budget
    /\ Horizon >= Budget + 1
    /\ \A a \in 0..Horizon : Older(a) \in 0..Horizon /\ Older(a) >= a /\ Older(a) <= a + 1
    /\ \A a, b \in 0..Horizon : a >= b => Older(a) >= Older(b)
<1> DEFINE limits == {Required + Ttl, Required + Budget + 1, Ttl + Budget}
<1>1. limits \subseteq Nat
  BY Numbers
<1>2. \E n \in limits : \A m \in limits : n >= m
  BY Numbers
<1>3. Horizon \in limits /\ \A m \in limits : Horizon >= m
  <2>1. Horizon = CHOOSE n \in limits : \A m \in limits : n >= m
    BY DEF Horizon, Maximum
  <2> HIDE DEF limits
  <2>2. QED
    BY <1>2, <2>1
<1>4. Horizon \in Nat /\ Horizon >= Required + Ttl /\ Horizon >= Ttl + Budget /\ Horizon >= Budget + 1
  BY <1>1, <1>3, Numbers
<1>5. QED
  BY <1>4 DEF Older

LEMMA LeastExists ==
    ASSUME NEW S, S \subseteq Nat, S # {}
    PROVE  \E x \in S : \A y \in S : x <= y
<1>1. PICK x \in S : \A y \in S : ~(<<y, x>> \in OpToRel(<, Nat))
  BY NatLessThanWellFounded, WFMin
<1>2. ASSUME NEW y \in S PROVE x <= y
  <2>1. ~(y < x)
    BY <1>1, <1>2 DEF OpToRel
  <2>2. QED
    BY <2>1
<1>3. QED
  BY <1>2

\* The extremes of a set of transfers.
LEMMA Extremes ==
    ASSUME NEW k \in Nat, NEW S, S \subseteq 1..k, S # {}
    PROVE  /\ Minimum(S) \in S /\ \A n \in S : Minimum(S) <= n
           /\ Maximum(S) \in S /\ \A n \in S : Maximum(S) >= n
<1>1. \E n \in S : \A m \in S : n <= m
  <2>1. S \subseteq Nat
    OBVIOUS
  <2>2. QED
    BY <2>1, LeastExists
<1>2. Minimum(S) \in S /\ \A n \in S : Minimum(S) <= n
  BY <1>1 DEF Minimum
<1>3. \E n \in S : \A m \in S : n >= m
  <2> DEFINE T == {k - n : n \in S}
  <2>1. T \subseteq Nat /\ T # {}
    <3>1. \A n \in S : k - n \in Nat
      OBVIOUS
    <3>2. QED
      BY <3>1
  <2> HIDE DEF T
  <2>2. PICK x \in T : \A y \in T : x <= y
    BY <2>1, LeastExists
  <2>3. PICK n \in S : x = k - n
    BY DEF T
  <2>4. ASSUME NEW m \in S PROVE n >= m
    <3>1. k - n <= k - m
      BY <2>2, <2>3 DEF T
    <3>2. QED
      BY <3>1
  <2>5. QED
    BY <2>4
<1>4. Maximum(S) \in S /\ \A n \in S : Maximum(S) >= n
  BY <1>3 DEF Maximum
<1>5. QED
  BY <1>2, <1>4

\* Transfers are counted like numbers up to the last one.
LEMMA Counting ==
    ASSUME NEW k \in Nat, NEW S, S \subseteq 1..k
    PROVE  IsFiniteSet(S) /\ Cardinality(S) \in Nat
<1>1. IsFiniteSet(1..k)
  BY FS_Interval
<1>2. IsFiniteSet(S)
  BY <1>1, FS_Subset
<1>3. QED
  BY <1>2, FS_CardinalityType

LEMMA CountingMore ==
    ASSUME NEW k \in Nat, NEW S, NEW T, S \subseteq T, T \subseteq 1..k
    PROVE  Cardinality(S) <= Cardinality(T)
<1>1. IsFiniteSet(T)
  BY Counting
<1>2. QED
  BY <1>1, FS_Subset

LEMMA CountingBoth ==
    ASSUME NEW k \in Nat, NEW S, NEW T, S \subseteq 1..k, T \subseteq 1..k, S \cap T = {}
    PROVE  Cardinality(S \cup T) = Cardinality(S) + Cardinality(T)
<1>1. IsFiniteSet(S) /\ IsFiniteSet(T) /\ Cardinality(S) \in Nat /\ Cardinality(T) \in Nat
  BY Counting
<1>2. Cardinality(S \cap T) = 0
  BY FS_EmptySet
<1>3. QED
  BY <1>1, <1>2, FS_Union

-----------------------------------------------------------------------------
(***************************************************************************)
(* The order of the cache.                                                 *)
(***************************************************************************)
Linear(R, K) ==
    /\ R \subseteq K \X K
    /\ \A a, b \in K : <<a, b>> \in R <=> a # b /\ <<b, a>> \notin R
    /\ \A a, b, c \in K : <<a, b>> \in R /\ <<b, c>> \in R => <<a, c>> \in R

LEMMA LinearPart ==
    ASSUME NEW R, NEW K, Linear(R, K), NEW L, L \subseteq K
    PROVE  Linear(R \cap (L \X L), L)
BY DEF Linear

LEMMA LinearMoved ==
    ASSUME NEW K, Linear(order, K), NEW L, L \subseteq K, NEW a
    PROVE  Linear(Moved(L \cup {a}, a), L \cup {a})
<1> DEFINE others == (L \cup {a}) \ {a}
           R == order \cap (others \X others)
<1>1. others \subseteq K /\ a \notin others /\ L \cup {a} = others \cup {a}
  OBVIOUS
<1>2. Linear(R, others)
  BY <1>1, LinearPart
<1>3. Moved(L \cup {a}, a) = R \cup (others \X {a})
  BY DEF Moved
<1> HIDE DEF others, R
<1> DEFINE M == R \cup (others \X {a})
<1>4. M \subseteq (others \cup {a}) \X (others \cup {a})
  BY <1>2 DEF Linear
<1>5. ASSUME NEW b \in others \cup {a}, NEW c \in others \cup {a}
      PROVE  <<b, c>> \in M <=> b \in others /\ (c = a \/ <<b, c>> \in R)
  BY <1>1, <1>2 DEF Linear
<1> HIDE DEF M
<1>6. \A b, c \in others \cup {a} : <<b, c>> \in M <=> b # c /\ <<c, b>> \notin M
  BY <1>1, <1>2, <1>5 DEF Linear
<1>7. \A b, c, d \in others \cup {a} : <<b, c>> \in M /\ <<c, d>> \in M => <<b, d>> \in M
  BY <1>1, <1>2, <1>5 DEF Linear
<1>8. Linear(M, others \cup {a})
  BY <1>4, <1>6, <1>7 DEF Linear
<1>9. QED
  BY <1>1, <1>3, <1>8 DEF M

\* A list that is not empty has an oldest key, as one with the fewest before it.
LEMMA OldestListed ==
    ASSUME NEW K, IsFiniteSet(K), Linear(order, K), NEW L, L \subseteq K, L # {}
    PROVE  Oldest(L) \in L
<1> DEFINE Before(a) == {b \in L : <<b, a>> \in order}
           counts == {Cardinality(Before(a)) : a \in L}
<1>1. IsFiniteSet(L)
  BY FS_Subset
<1>2. ASSUME NEW a \in L PROVE IsFiniteSet(Before(a)) /\ Cardinality(Before(a)) \in Nat
  BY <1>1, FS_Subset, FS_CardinalityType
<1>3. counts \subseteq Nat /\ counts # {}
  BY <1>2
<1> HIDE DEF counts
<1>4. PICK x \in counts : \A y \in counts : x <= y
  BY <1>3, LeastExists
<1>5. PICK a \in L : x = Cardinality(Before(a))
  BY DEF counts
<1>6. ASSUME NEW b \in L \ {a} PROVE <<a, b>> \in order
  <2>1. SUFFICES ASSUME <<b, a>> \in order PROVE FALSE
    BY DEF Linear
  <2>2. Before(b) \subseteq Before(a)
    BY <2>1 DEF Linear
  <2>3. b \in Before(a) /\ b \notin Before(b)
    BY <2>1 DEF Linear
  <2>4. /\ Cardinality(Before(b)) <= Cardinality(Before(a))
        /\ Cardinality(Before(a)) = Cardinality(Before(b)) => Before(a) = Before(b)
    <3>1. IsFiniteSet(Before(a))
      BY <1>2
    <3> HIDE DEF Before
    <3>2. QED
      BY <2>2, <3>1, FS_Subset
  <2>5. Cardinality(Before(a)) <= Cardinality(Before(b))
    BY <1>4, <1>5 DEF counts
  <2>6. Cardinality(Before(a)) \in Nat /\ Cardinality(Before(b)) \in Nat
    BY <1>2
  <2> HIDE DEF Before
  <2>7. QED
    BY <2>3, <2>4, <2>5, <2>6
<1>7. QED
  BY <1>6 DEF Oldest

-----------------------------------------------------------------------------
(***************************************************************************)
(* The chain.  What an answer says is stated of the transfers there are,   *)
(* ch, so that it can be compared before and after a step.                 *)
(***************************************************************************)
Kinds == {Endpoints[n] : n \in 1..3}
Txs == [to : Addr, kind : Kinds, sym : Symbols, tier : DOMAIN Chain.tiers, ok : BOOLEAN,
        age : 0..Horizon, amount : Amounts]

\* Every transfer is of an amount the page has asked for.
ChainOK(ch) ==
    /\ ch \in Seq(Txs) /\ Len(ch) <= MaxTx
    /\ \A i \in 1..Len(ch) : \E prices \in Market :
           ch[i].amount = PageQuote(Chain, ch[i].tier, ch[i].sym, prices)

\* Transfers are added and grow older.
Extends(ch, later) ==
    /\ Len(ch) <= Len(later)
    /\ \A i \in 1..Len(ch) :
        /\ later[i].to = ch[i].to /\ later[i].kind = ch[i].kind /\ later[i].ok = ch[i].ok
        /\ later[i].sym = ch[i].sym /\ later[i].tier = ch[i].tier
        /\ later[i].amount = ch[i].amount

\* What was settled, or is new, is as settled as it was when time has not passed.
Settles(ch, before, later, after) ==
    \A i \in 1..Len(later) :
        Settled(later[i]) > after => i \in 1..Len(ch) /\ Settled(ch[i]) > before

NewerThan(ch, i) ==
    {j \in (i + 1)..Len(ch) : ch[j].to = ch[i].to /\ ch[j].kind = ch[i].kind}
InReach(ch, i) == Cardinality(NewerThan(ch, i)) < Pages * PageSize

\* A check of this address that began age ago had to see transfer i.
Ready(ch, i, addr, age) ==
    /\ ch[i].to = addr
    /\ ch[i].kind = "transactions" => ch[i].ok
    /\ InReach(ch, i)
    /\ Settled(ch[i]) > age

LEMMA TxTyped ==
    ASSUME NEW ch, ChainOK(ch), NEW i \in 1..Len(ch)
    PROVE  /\ ch[i] \in Txs /\ DOMAIN ch = 1..Len(ch) /\ Len(ch) \in Nat
           /\ ch[i].age \in 0..Horizon /\ Settled(ch[i]) \in Int /\ Settled(ch[i]) <= ch[i].age
<1>1. ch[i] \in Txs /\ DOMAIN ch = 1..Len(ch) /\ Len(ch) \in Nat
  BY DEF ChainOK
<1>2. ch[i].age \in 0..Horizon
  BY <1>1 DEF Txs
<1>3. Required \in Nat /\ Horizon \in Nat
  BY Numbers, Ages
<1>4. QED
  BY <1>1, <1>2, <1>3 DEF Settled

LEMMA ReachKept ==
    ASSUME NEW ch, NEW later, ChainOK(ch), ChainOK(later), Extends(ch, later),
           NEW i \in 1..Len(ch), InReach(later, i)
    PROVE  InReach(ch, i)
<1>1. Len(ch) \in Nat /\ Len(later) \in Nat /\ Len(ch) <= Len(later)
  BY DEF ChainOK, Extends
<1>2. NewerThan(ch, i) \subseteq NewerThan(later, i)
  BY <1>1 DEF NewerThan, Extends
<1>3. NewerThan(ch, i) \subseteq 1..Len(later) /\ NewerThan(later, i) \subseteq 1..Len(later)
  BY <1>1, <1>2 DEF NewerThan
<1>4. Cardinality(NewerThan(ch, i)) <= Cardinality(NewerThan(later, i))
  BY <1>1, <1>2, <1>3, CountingMore
<1>5. Cardinality(NewerThan(ch, i)) \in Nat /\ Cardinality(NewerThan(later, i)) \in Nat
  BY <1>1, <1>2, <1>3, Counting
<1>6. Pages * PageSize \in Nat
  BY Numbers
<1>7. QED
  BY <1>4, <1>5, <1>6 DEF InReach

LEMMA ReadyKept ==
    ASSUME NEW ch, NEW later, ChainOK(ch), ChainOK(later), Extends(ch, later),
           NEW before, NEW after, Settles(ch, before, later, after),
           NEW i \in 1..Len(later), NEW addr, Ready(later, i, addr, after)
    PROVE  i \in 1..Len(ch) /\ Ready(ch, i, addr, before)
<1>1. i \in 1..Len(ch) /\ Settled(ch[i]) > before
  BY DEF Ready, Settles
<1>2. InReach(ch, i)
  BY <1>1, ReachKept DEF Ready
<1>3. QED
  BY <1>1, <1>2 DEF Ready, Extends

\* The two ways in which the chain changes.
LEMMA PayExtends ==
    ASSUME ChainOK(chain), NEW a \in Addr, NEW i \in DOMAIN Chain.tiers, NEW s \in Symbols,
           NEW kind \in Kinds, NEW ok \in BOOLEAN, NEW prices \in Market,
           Pay(a, i, s, kind, ok, prices)
    PROVE  /\ ChainOK(chain') /\ Extends(chain, chain')
           /\ \A age \in Nat : Settles(chain, age, chain', age)
<1> DEFINE tx == [to |-> a, kind |-> kind, sym |-> s, tier |-> i, ok |-> ok, age |-> 0,
                  amount |-> PageQuote(Chain, i, s, prices)]
<1>1. chain' = Append(chain, tx) /\ Len(chain) < MaxTx
  BY DEF Pay
<1>2. tx \in Txs
  <2>1. 0 \in 0..Horizon
    BY Ages
  <2>2. PageQuote(Chain, i, s, prices) \in Amounts
    BY DEF Amounts
  <2>3. QED
    BY <2>1, <2>2 DEF Txs
<1>3. tx.age = 0 /\ tx.tier = i /\ tx.sym = s /\ tx.amount = PageQuote(Chain, i, s, prices)
  OBVIOUS
<1> HIDE DEF tx
<1>4. /\ chain \in Seq(Txs) /\ Len(chain) \in Nat /\ MaxTx \in Nat
      /\ chain' \in Seq(Txs) /\ Len(chain') = Len(chain) + 1
      /\ \A n \in 1..Len(chain) : chain'[n] = chain[n]
      /\ chain'[Len(chain) + 1] = tx
  BY <1>1, <1>2, Numbers DEF ChainOK
<1>5. ASSUME NEW n \in 1..Len(chain')
      PROVE  \E p \in Market : chain'[n].amount = PageQuote(Chain, chain'[n].tier, chain'[n].sym, p)
  <2>1. CASE n \in 1..Len(chain)
    BY <1>4, <2>1 DEF ChainOK
  <2>2. CASE n = Len(chain) + 1
    BY <1>3, <1>4, <2>2
  <2>3. QED
    BY <1>4, <2>1, <2>2
<1>6. ChainOK(chain')
  BY <1>1, <1>4, <1>5 DEF ChainOK
<1>7. Extends(chain, chain')
  BY <1>4 DEF Extends
<1>8. ASSUME NEW age \in Nat PROVE Settles(chain, age, chain', age)
  <2>1. SUFFICES ASSUME NEW n \in 1..Len(chain'), Settled(chain'[n]) > age
                 PROVE  n \in 1..Len(chain) /\ Settled(chain[n]) > age
    BY DEF Settles
  <2>2. n # Len(chain) + 1
    <3>1. SUFFICES ASSUME n = Len(chain) + 1 PROVE FALSE
      OBVIOUS
    <3>2. Settled(tx) <= 0
      BY <1>3, Numbers DEF Settled
    <3>3. Settled(tx) \in Int
      BY <1>3, Numbers DEF Settled
    <3>4. QED
      BY <1>4, <2>1, <3>1, <3>2, <3>3
  <2>3. QED
    BY <1>4, <2>1, <2>2
<1>9. QED
  BY <1>6, <1>7, <1>8

LEMMA TickExtends ==
    ASSUME ChainOK(chain), Tick
    PROVE  /\ ChainOK(chain') /\ Extends(chain, chain') /\ Len(chain') = Len(chain)
           /\ \A age \in 0..Horizon : Settles(chain, age, chain', Older(age))
           /\ \A age \in 0..Budget : Settles(chain, age, chain', age + 1)
<1>1. chain' = [n \in 1..Len(chain) |-> [chain[n] EXCEPT !.age = Older(@)]]
  BY DEF Tick, ChainOK
<1>2. chain \in Seq(Txs) /\ Len(chain) \in Nat
  BY DEF ChainOK
<1>3. ASSUME NEW n \in 1..Len(chain)
      PROVE  /\ chain'[n] \in Txs
             /\ chain'[n].to = chain[n].to /\ chain'[n].kind = chain[n].kind
             /\ chain'[n].ok = chain[n].ok /\ chain'[n].sym = chain[n].sym
             /\ chain'[n].tier = chain[n].tier /\ chain'[n].amount = chain[n].amount
             /\ chain'[n].age = Older(chain[n].age) /\ chain[n].age \in 0..Horizon
  <2>1. chain[n] \in Txs /\ chain'[n] = [chain[n] EXCEPT !.age = Older(chain[n].age)]
    BY <1>1, <1>2
  <2>2. Older(chain[n].age) \in 0..Horizon
    BY <2>1, Ages DEF Txs
  <2>3. QED
    BY <2>1, <2>2 DEF Txs
<1>4. chain' \in [1..Len(chain) -> Txs]
  BY <1>1, <1>3
<1>5. chain' \in Seq(Txs) /\ Len(chain') = Len(chain)
  BY <1>2, <1>4, SeqDef, LenProperties
<1>6. ChainOK(chain')
  BY <1>3, <1>5 DEF ChainOK
<1>7. Extends(chain, chain')
  BY <1>2, <1>3, <1>5 DEF Extends
<1>8. ASSUME NEW n \in 1..Len(chain)
      PROVE  Settled(chain'[n]) <= Settled(chain[n]) + 1 /\ Settled(chain[n]) <= Horizon
  <2>1. /\ chain[n].age \in 0..Horizon /\ chain'[n].age = Older(chain[n].age)
        /\ chain'[n].kind = chain[n].kind
    BY <1>3
  <2>2. Older(chain[n].age) <= chain[n].age + 1 /\ Older(chain[n].age) \in 0..Horizon
    BY <2>1, Ages
  <2>3. CASE chain[n].kind = "transactions"
    <3>1. /\ Settled(chain'[n]) = chain'[n].age - Required
          /\ Settled(chain[n]) = chain[n].age - Required
      BY <2>1, <2>3 DEF Settled
    <3>2. Required \in Nat /\ Horizon \in Nat /\ chain'[n].age \in 0..Horizon
      BY <2>1, <2>2, Ages, Numbers
    <3>3. chain'[n].age <= chain[n].age + 1
      BY <2>1, <2>2
    <3>4. QED
      BY <2>1, <3>1, <3>2, <3>3
  <2>4. CASE chain[n].kind # "transactions"
    <3>1. Settled(chain'[n]) = chain'[n].age /\ Settled(chain[n]) = chain[n].age
      BY <2>1, <2>4 DEF Settled
    <3>2. QED
      BY <2>1, <2>2, <3>1, Ages
  <2>5. QED
    BY <2>3, <2>4
<1>9. ASSUME NEW n \in 1..Len(chain') PROVE n \in 1..Len(chain) /\ Settled(chain'[n]) \in Int
                                            /\ Settled(chain[n]) \in Int /\ Settled(chain'[n]) <= Horizon
  <2>1. n \in 1..Len(chain)
    BY <1>5
  <2>2. /\ chain[n].age \in 0..Horizon /\ Settled(chain[n]) \in Int
        /\ chain'[n].age \in 0..Horizon /\ Settled(chain'[n]) \in Int
        /\ Settled(chain'[n]) <= chain'[n].age
    BY <1>6, <1>9, <2>1, TxTyped
  <2>3. QED
    BY <2>1, <2>2, Ages
<1>10. ASSUME NEW age \in 0..Horizon PROVE Settles(chain, age, chain', Older(age))
  BY <1>8, <1>9, Ages DEF Settles, Older
<1>11. ASSUME NEW age \in 0..Budget PROVE Settles(chain, age, chain', age + 1)
  BY <1>8, <1>9, Ages, Numbers DEF Settles
<1>12. QED
  BY <1>5, <1>6, <1>7, <1>10, <1>11

-----------------------------------------------------------------------------
(***************************************************************************)
(* The inductive invariant: what each answer that is kept or has been      *)
(* given says of the chain, and what a request has still ahead of it.      *)
(***************************************************************************)
Results == {"verified", "waiting", "unavailable"}

\* An amount that the page asks for is only taken for that of tiers that grant
\* as much, at whatever prices it is looked at later.
SoldApart ==
    \A i \in DOMAIN Chain.tiers, s \in Symbols, asked \in Market, prices \in AllPrices :
        \A n \in Offers(Chain) :
            LET e == Offer(Chain, n, s, prices)
            IN  e > 0 /\ Within(s, PageQuote(Chain, i, s, asked), e) =>
                    Chain.tiers[OfferTier(n)].quota_bytes = Chain.tiers[i].quota_bytes

\* An answer about an address that was worked out by a request which began age ago.
Right(ch, addr, v, age) ==
    /\ v.is \in Results /\ v.tx \in 0..Len(ch)
    /\ v.is = "verified" =>
           /\ v.tx \in 1..Len(ch) /\ ch[v.tx].to = addr
           /\ SoldApart => v.quota = Chain.tiers[ch[v.tx].tier].quota_bytes
    /\ v.is = "waiting" /\ v.whole =>
           \A i \in 1..Len(ch) : Ready(ch, i, addr, age) => QuotaOf(ch[i], v.at) = Refused

Requests == [endpoint : 1..3, addr : Addr, page : 1..Pages, before : 1..NoCursor,
             age : 0..Budget, at : AllPrices, whole : BOOLEAN]

\* Transfer i is still to be read by request r, and these it has read already.
Ahead(ch, i, r) ==
    \E n \in r.endpoint..3 : ch[i].kind = Endpoints[n] /\ (n = r.endpoint => i < r.before)
Seen(ch, r) ==
    {j \in 1..Len(ch) : /\ j >= r.before
                        /\ ch[j].to = r.addr /\ ch[j].kind = Endpoints[r.endpoint]}

\* Whatever could be the answer is still ahead, and the pages read were full.
RequestOK(ch, r) ==
    /\ r \in Requests
    /\ r.whole =>
           \A i \in 1..Len(ch) :
               Ready(ch, i, r.addr, r.age) /\ QuotaOf(ch[i], r.at) # Refused => Ahead(ch, i, r)
    /\ Cardinality(Seen(ch, r)) >= (r.page - 1) * PageSize

CacheOK ==
    /\ DOMAIN cache \subseteq Addr
    /\ IsFiniteSet(DOMAIN cache) /\ Cardinality(DOMAIN cache) <= MaxSize
    /\ Linear(order, DOMAIN cache)
    /\ \A a \in DOMAIN cache :
           /\ cache[a] = [value |-> cache[a].value, age |-> cache[a].age]
           /\ cache[a].age \in 0..Horizon
           /\ Right(chain, a, cache[a].value, cache[a].age)

AnswerOK ==
    answer # NoAnswer =>
        /\ answer.key \in Addr /\ answer.age \in 0..Horizon
        /\ Right(chain, answer.key, answer.value, answer.age)

Inv ==
    /\ ChainOK(chain)
    /\ CacheOK
    /\ request # Idle => RequestOK(chain, request)
    /\ AnswerOK
    /\ trouble \in 0..MaxTrouble

\* An answer stays right while transfers are added and time passes.
LEMMA RightKept ==
    ASSUME NEW ch, NEW later, ChainOK(ch), ChainOK(later), Extends(ch, later),
           NEW before, NEW after, Settles(ch, before, later, after),
           NEW addr, NEW v, Right(ch, addr, v, before)
    PROVE  Right(later, addr, v, after)
<1>1. Len(ch) \in Nat /\ Len(later) \in Nat /\ Len(ch) <= Len(later)
  BY DEF ChainOK, Extends
<1>2. v.is \in Results /\ v.tx \in 0..Len(later)
  BY <1>1 DEF Right
<1>3. ASSUME v.is = "verified"
      PROVE  /\ v.tx \in 1..Len(later) /\ later[v.tx].to = addr
             /\ SoldApart => v.quota = Chain.tiers[later[v.tx].tier].quota_bytes
  <2>1. v.tx \in 1..Len(ch) /\ ch[v.tx].to = addr
    BY <1>3 DEF Right
  <2>2. later[v.tx].to = ch[v.tx].to /\ later[v.tx].tier = ch[v.tx].tier
    BY <2>1 DEF Extends
  <2>3. QED
    BY <1>1, <1>3, <2>1, <2>2 DEF Right
<1>4. ASSUME v.is = "waiting", v.whole, NEW i \in 1..Len(later), Ready(later, i, addr, after)
      PROVE  QuotaOf(later[i], v.at) = Refused
  <2>1. i \in 1..Len(ch) /\ Ready(ch, i, addr, before)
    BY <1>4, ReadyKept
  <2>2. QuotaOf(ch[i], v.at) = Refused
    BY <1>4, <2>1 DEF Right
  <2>3. later[i].sym = ch[i].sym /\ later[i].amount = ch[i].amount
    BY <2>1 DEF Extends
  <2>4. QED
    BY <2>2, <2>3 DEF QuotaOf
<1>5. QED
  BY <1>2, <1>3, <1>4 DEF Right

\* So does what a request has ahead.
LEMMA RequestKept ==
    ASSUME NEW ch, NEW later, ChainOK(ch), ChainOK(later), Extends(ch, later),
           NEW r, RequestOK(ch, r), NEW q \in Requests, Settles(ch, r.age, later, q.age),
           q.endpoint = r.endpoint, q.addr = r.addr, q.page = r.page, q.before = r.before,
           q.at = r.at, q.whole = r.whole
    PROVE  RequestOK(later, q)
<1>1. Len(ch) \in Nat /\ Len(later) \in Nat /\ Len(ch) <= Len(later)
  BY DEF ChainOK, Extends
<1>2. ASSUME q.whole, NEW i \in 1..Len(later), Ready(later, i, q.addr, q.age),
             QuotaOf(later[i], q.at) # Refused
      PROVE  Ahead(later, i, q)
  <2>1. i \in 1..Len(ch) /\ Ready(ch, i, r.addr, r.age)
    BY <1>2, ReadyKept
  <2>2. later[i].sym = ch[i].sym /\ later[i].amount = ch[i].amount /\ later[i].kind = ch[i].kind
    BY <2>1 DEF Extends
  <2>3. QuotaOf(ch[i], r.at) # Refused
    BY <1>2, <2>2 DEF QuotaOf
  <2>4. Ahead(ch, i, r)
    BY <1>2, <2>1, <2>3 DEF RequestOK
  <2>5. QED
    BY <2>2, <2>4 DEF Ahead
<1>3. Seen(ch, r) \subseteq Seen(later, q)
  BY <1>1 DEF Seen, Extends
<1>4. Seen(ch, r) \subseteq 1..Len(later) /\ Seen(later, q) \subseteq 1..Len(later)
  BY <1>1 DEF Seen
<1>5. Cardinality(Seen(ch, r)) <= Cardinality(Seen(later, q))
  BY <1>1, <1>3, <1>4, CountingMore
<1>6. Cardinality(Seen(ch, r)) \in Nat /\ Cardinality(Seen(later, q)) \in Nat
  BY <1>1, <1>4, Counting
<1>7. (r.page - 1) * PageSize \in Nat
  <2>1. r.page - 1 \in Nat /\ PageSize \in Nat
    BY Numbers DEF RequestOK, Requests
  <2>2. QED
    BY <2>1
<1>8. Cardinality(Seen(later, q)) >= (q.page - 1) * PageSize
  BY <1>5, <1>6, <1>7 DEF RequestOK
<1>9. QED
  BY <1>2, <1>8 DEF RequestOK

-----------------------------------------------------------------------------
(***************************************************************************)
(* A page of the explorer.                                                 *)
(***************************************************************************)
Newer(i) == {m \in Listed : m > i}

LEMMA PageFacts ==
    ASSUME Inv, request # Idle
    PROVE  /\ Len(chain) \in Nat /\ Listed \subseteq 1..Len(chain) /\ OnPage \subseteq Listed
           /\ \A i \in Listed \ OnPage : Cardinality(Newer(i)) >= PageSize
           /\ \A i \in Listed \ OnPage, n \in OnPage : i < n
           /\ OnPage # Listed => OnPage # {} /\ Cardinality(OnPage) >= PageSize
<1>1. /\ Len(chain) \in Nat /\ DOMAIN chain = 1..Len(chain)
      /\ PageSize \in Nat /\ PageSize > 0
  BY Numbers DEF Inv, ChainOK
<1>2. Listed \subseteq 1..Len(chain) /\ OnPage \subseteq Listed
  BY <1>1 DEF Listed, OnPage
<1>3. ASSUME NEW i PROVE Newer(i) \subseteq 1..Len(chain) /\ Cardinality(Newer(i)) \in Nat
  <2>1. Newer(i) \subseteq 1..Len(chain)
    BY <1>2 DEF Newer
  <2>2. QED
    BY <1>1, <2>1, Counting
<1>4. OnPage = {n \in Listed : Cardinality(Newer(n)) < PageSize}
  BY DEF OnPage, Newer
<1>5. ASSUME NEW i \in Listed \ OnPage PROVE Cardinality(Newer(i)) >= PageSize
  BY <1>1, <1>3, <1>4
<1>6. ASSUME NEW i \in Listed \ OnPage, NEW n \in OnPage PROVE i < n
  <2>1. SUFFICES ASSUME i >= n PROVE FALSE
    BY <1>2
  <2>2. Newer(i) \subseteq Newer(n)
    <3>1. ASSUME NEW m \in Newer(i) PROVE m \in Newer(n)
      <4>1. m \in Nat /\ i \in Nat /\ n \in Nat /\ m \in Listed /\ m > i
        BY <1>2, <3>1 DEF Newer
      <4>2. QED
        BY <2>1, <4>1 DEF Newer
    <3>2. QED
      BY <3>1
  <2>3. Cardinality(Newer(i)) <= Cardinality(Newer(n))
    BY <1>1, <1>3, <2>2, CountingMore
  <2>4. Cardinality(Newer(n)) < PageSize
    BY <1>4
  <2>5. QED
    BY <1>1, <1>3, <1>5, <2>3, <2>4
<1>7. ASSUME OnPage # Listed PROVE OnPage # {} /\ Cardinality(OnPage) >= PageSize
  <2> DEFINE rest == Listed \ OnPage
             x == Maximum(rest)
  <2>1. rest # {} /\ rest \subseteq 1..Len(chain)
    BY <1>2, <1>7
  <2>2. x \in rest /\ \A n \in rest : x >= n
    <3> HIDE DEF rest
    <3>1. QED
      BY <1>1, <2>1, Extremes
  <2> HIDE DEF x
  <2>3. Newer(x) \subseteq OnPage
    <3>1. ASSUME NEW m \in Newer(x) PROVE m \in OnPage
      <4>1. m \in Nat /\ x \in Nat /\ m \in Listed /\ m > x
        BY <1>2, <2>2, <3>1 DEF Newer
      <4>2. QED
        BY <2>2, <4>1
    <3>2. QED
      BY <3>1
  <2>4. Cardinality(Newer(x)) <= Cardinality(OnPage)
    BY <1>1, <1>2, <2>3, CountingMore
  <2>5. Cardinality(OnPage) \in Nat
    BY <1>1, <1>2, Counting
  <2>6. Cardinality(OnPage) >= PageSize
    BY <1>1, <1>3, <1>5, <2>2, <2>4, <2>5
  <2>7. OnPage # {}
    BY <1>1, <2>6, FS_EmptySet
  <2>8. QED
    BY <2>6, <2>7
<1>8. QED
  BY <1>1, <1>2, <1>5, <1>6, <1>7

\* What is ready and good enough would have matched if it had been on the page.
LEMMA ReadyMatches ==
    ASSUME Inv, request # Idle, NEW i \in OnPage, Ready(chain, i, request.addr, request.age),
           QuotaOf(chain[i], request.at) # Refused
    PROVE  i \in Matching
<1>1. i \in 1..Len(chain) /\ request.age \in Nat
  BY PageFacts DEF Inv, RequestOK, Requests
<1>2. /\ chain[i].age \in 0..Horizon /\ Settled(chain[i]) \in Int
      /\ Required \in Nat /\ Horizon \in Nat /\ Required > 0
  BY <1>1, TxTyped, Numbers, Ages DEF Inv
<1>3. ASSUME chain[i].kind = "transactions"
      PROVE  chain[i].ok /\ Confirmations(chain[i]) >= Required
  <2>1. chain[i].ok /\ chain[i].age - Required > request.age
    BY <1>3 DEF Ready, Settled
  <2>2. QED
    BY <1>1, <1>2, <2>1 DEF Confirmations
<1>4. QED
  BY <1>3 DEF Matching, Matches

\* The next page.
LEMMA NextPage ==
    ASSUME Inv, request # Idle, Matching = {}, OnPage # Listed, request.page < Pages
    PROVE  RequestOK(chain, [request EXCEPT !.page = @ + 1, !.before = Minimum(OnPage)])
<1> DEFINE least == Minimum(OnPage)
           next == [request EXCEPT !.page = @ + 1, !.before = least]
<1>1. /\ Len(chain) \in Nat /\ Listed \subseteq 1..Len(chain) /\ OnPage \subseteq Listed
      /\ \A i \in Listed \ OnPage, n \in OnPage : i < n
      /\ OnPage # {} /\ Cardinality(OnPage) >= PageSize
  BY PageFacts
<1>2. least \in OnPage /\ \A n \in OnPage : least <= n
  BY <1>1, Extremes
<1> HIDE DEF least
<1>3. request \in Requests /\ Pages \in Nat /\ PageSize \in Nat /\ PageSize > 0
      /\ Len(chain) <= MaxTx /\ NoCursor \in Nat /\ NoCursor = MaxTx + 1 /\ MaxTx \in Nat
  BY Numbers DEF Inv, RequestOK, ChainOK
<1>4. least \in 1..NoCursor /\ least < request.before
  BY <1>1, <1>2, <1>3 DEF Listed
<1>5. /\ next \in Requests
      /\ next.endpoint = request.endpoint /\ next.addr = request.addr /\ next.age = request.age
      /\ next.at = request.at /\ next.whole = request.whole
      /\ next.page = request.page + 1 /\ next.before = least
  <2>1. request.page + 1 \in 1..Pages
    BY <1>3 DEF Requests
  <2>2. QED
    BY <1>3, <1>4, <2>1 DEF Requests
<1> HIDE DEF next
<1>6. ASSUME next.whole, NEW i \in 1..Len(chain), Ready(chain, i, next.addr, next.age),
             QuotaOf(chain[i], next.at) # Refused
      PROVE  Ahead(chain, i, next)
  <2>1. PICK n \in request.endpoint..3 :
            chain[i].kind = Endpoints[n] /\ (n = request.endpoint => i < request.before)
    BY <1>5, <1>6 DEF Inv, RequestOK, Ahead
  <2>2. CASE n = request.endpoint
    <3>1. i \in Listed
      BY <1>1, <1>5, <1>6, <2>1, <2>2 DEF Listed, Ready, Inv, ChainOK
    <3>2. i \notin OnPage
      BY <1>5, <1>6, ReadyMatches
    <3>3. i < least
      BY <1>1, <1>2, <3>1, <3>2
    <3>4. QED
      BY <1>5, <2>1, <2>2, <3>3 DEF Ahead
  <2>3. CASE n # request.endpoint
    BY <1>5, <2>1, <2>3 DEF Ahead
  <2>4. QED
    BY <2>2, <2>3
<1>7. Cardinality(Seen(chain, next)) >= (next.page - 1) * PageSize
  <2> DEFINE S == Seen(chain, request)
  <2>1. S \subseteq 1..Len(chain) /\ OnPage \subseteq 1..Len(chain) /\ S \cap OnPage = {}
    BY <1>1, <1>3 DEF Seen, Listed, Requests
  <2>2. S \cup OnPage \subseteq Seen(chain, next) /\ Seen(chain, next) \subseteq 1..Len(chain)
    <3>1. \A j \in OnPage : j \in Seen(chain, next)
      BY <1>1, <1>2, <1>5 DEF Seen, Listed
    <3>2. \A j \in S : j \in Seen(chain, next)
      BY <1>3, <1>4, <1>5 DEF Seen, Requests
    <3>3. QED
      BY <3>1, <3>2 DEF Seen
  <2>3. Cardinality(S) + Cardinality(OnPage) <= Cardinality(Seen(chain, next))
    <3> HIDE DEF S
    <3>1. Cardinality(S \cup OnPage) = Cardinality(S) + Cardinality(OnPage)
      BY <1>1, <2>1, CountingBoth
    <3>2. Cardinality(S \cup OnPage) <= Cardinality(Seen(chain, next))
      BY <1>1, <2>2, CountingMore
    <3>3. QED
      BY <3>1, <3>2
  <2>4. /\ Cardinality(S) \in Nat /\ Cardinality(OnPage) \in Nat
        /\ Cardinality(Seen(chain, next)) \in Nat
    BY <1>1, <2>1, <2>2, Counting
  <2>5. Cardinality(S) >= (request.page - 1) * PageSize
    BY DEF Inv, RequestOK
  <2>6. request.page \in Nat /\ request.page >= 1
    BY <1>3 DEF Requests
  <2>7. (next.page - 1) * PageSize = (request.page - 1) * PageSize + PageSize
    <3>1. \A p, z \in Int : (p + 1 - 1) * z = (p - 1) * z + z
      OBVIOUS
    <3>2. QED
      BY <1>3, <1>5, <2>6, <3>1
  <2>8. (request.page - 1) * PageSize \in Int
    BY <1>3, <2>6
  <2>9. QED
    BY <1>1, <1>3, <2>3, <2>4, <2>5, <2>7, <2>8
<1>8. QED
  BY <1>5, <1>6, <1>7 DEF RequestOK, next, least

\* After the last page of an endpoint nothing at it could be the answer: what the
\* pages have not shown is out of reach.
LEMMA NoMore ==
    ASSUME Inv, request # Idle, request.whole, Matching = {},
           OnPage = Listed \/ request.page >= Pages,
           NEW i \in 1..Len(chain), Ready(chain, i, request.addr, request.age),
           QuotaOf(chain[i], request.at) # Refused
    PROVE  \E n \in request.endpoint..3 : n # request.endpoint /\ chain[i].kind = Endpoints[n]
<1>1. /\ Len(chain) \in Nat /\ Listed \subseteq 1..Len(chain) /\ OnPage \subseteq Listed
      /\ \A n \in Listed \ OnPage : Cardinality(Newer(n)) >= PageSize
  BY PageFacts
<1>2. PICK n \in request.endpoint..3 :
          chain[i].kind = Endpoints[n] /\ (n = request.endpoint => i < request.before)
  BY DEF Inv, RequestOK, Ahead
<1>3. SUFFICES ASSUME n = request.endpoint PROVE FALSE
  BY <1>2
<1>4. i \in Listed
  BY <1>1, <1>2, <1>3 DEF Listed, Ready, Inv, ChainOK
<1>5. i \notin OnPage
  BY ReadyMatches
<1>6. request.page >= Pages /\ Cardinality(Newer(i)) >= PageSize
  BY <1>1, <1>4, <1>5
<1>7. /\ request.page \in 1..Pages /\ request.before \in 1..NoCursor
      /\ Pages \in Nat /\ PageSize \in Nat /\ NoCursor \in Nat
  BY Numbers DEF Inv, RequestOK, Requests
<1> DEFINE S == Seen(chain, request)
           N == NewerThan(chain, i)
<1>8. Cardinality(S) >= (Pages - 1) * PageSize
  <2>1. request.page = Pages
    BY <1>6, <1>7
  <2>2. QED
    BY <2>1 DEF Inv, RequestOK
<1>9. S \subseteq N
  <2>1. ASSUME NEW j \in S PROVE j \in N
    <3>1. /\ j \in 1..Len(chain) /\ j >= request.before
          /\ chain[j].to = request.addr /\ chain[j].kind = Endpoints[request.endpoint]
      BY <2>1 DEF Seen
    <3>2. i < request.before /\ chain[i].to = request.addr
          /\ chain[i].kind = Endpoints[request.endpoint]
      BY <1>2, <1>3 DEF Ready
    <3>3. j \in (i + 1)..Len(chain)
      BY <1>1, <1>7, <3>1, <3>2
    <3>4. QED
      BY <3>1, <3>2, <3>3 DEF NewerThan
  <2>2. QED
    BY <2>1
<1>10. Newer(i) \subseteq N
  <2>1. ASSUME NEW j \in Newer(i) PROVE j \in N
    <3>1. j \in Listed /\ j > i /\ j \in 1..Len(chain)
      BY <1>1, <2>1 DEF Newer
    <3>2. j \in (i + 1)..Len(chain)
      BY <1>1, <3>1
    <3>3. /\ chain[j].to = chain[i].to /\ chain[j].kind = chain[i].kind
      BY <1>4, <3>1 DEF Listed
    <3>4. QED
      BY <3>2, <3>3 DEF NewerThan
  <2>2. QED
    BY <2>1
<1>11. S \cap Newer(i) = {}
  <2>1. \A j \in Newer(i) : j < request.before /\ j \in Nat
    BY <1>1 DEF Newer, Listed
  <2>2. \A j \in S : j >= request.before
    BY DEF Seen
  <2>3. QED
    BY <1>7, <2>1, <2>2
<1>12. N \subseteq 1..Len(chain)
  BY <1>1 DEF NewerThan
<1> HIDE DEF S, N
<1>13. Cardinality(S \cup Newer(i)) = Cardinality(S) + Cardinality(Newer(i))
  BY <1>1, <1>9, <1>10, <1>11, <1>12, CountingBoth
<1>14. Cardinality(S \cup Newer(i)) <= Cardinality(N)
  BY <1>1, <1>9, <1>10, <1>12, CountingMore
<1>15. /\ Cardinality(S) \in Nat /\ Cardinality(Newer(i)) \in Nat /\ Cardinality(N) \in Nat
  BY <1>1, <1>9, <1>10, <1>12, Counting
<1>16. Cardinality(N) < Pages * PageSize
  BY DEF Ready, InReach, N
<1>17. (Pages - 1) * PageSize + PageSize = Pages * PageSize
  <2>1. \A p, z \in Int : (p - 1) * z + z = p * z
    OBVIOUS
  <2>2. QED
    BY <1>7, <2>1
<1>18. (Pages - 1) * PageSize \in Int /\ Pages * PageSize \in Int
  BY <1>7
<1>19. QED
  BY <1>6, <1>7, <1>8, <1>13, <1>14, <1>15, <1>16, <1>17, <1>18

\* What NextEndpoint is called with: whole, if all pages of all endpoints so far
\* have been read.
Exhausted(whole) ==
    /\ whole \in BOOLEAN
    /\ whole => /\ request.whole /\ Matching = {}
                /\ OnPage = Listed \/ request.page >= Pages

LEMMA NextList ==
    ASSUME Inv, request # Idle, NEW whole, Exhausted(whole), request.endpoint < 3
    PROVE  RequestOK(chain, [request EXCEPT !.endpoint = @ + 1, !.page = 1,
                                            !.before = NoCursor, !.whole = whole])
<1> DEFINE next == [request EXCEPT !.endpoint = @ + 1, !.page = 1,
                                   !.before = NoCursor, !.whole = whole]
<1>1. /\ request \in Requests /\ Pages \in Nat /\ Pages > 0 /\ PageSize \in Nat
      /\ NoCursor \in Nat /\ NoCursor = MaxTx + 1 /\ MaxTx \in Nat
      /\ Len(chain) \in Nat /\ Len(chain) <= MaxTx
  BY Numbers DEF Inv, RequestOK, ChainOK
<1>2. /\ next \in Requests
      /\ next.endpoint = request.endpoint + 1 /\ next.addr = request.addr
      /\ next.age = request.age /\ next.at = request.at /\ next.whole = whole
      /\ next.page = 1 /\ next.before = NoCursor
  <2>1. /\ request.endpoint + 1 \in 1..3 /\ 1 \in 1..Pages /\ NoCursor \in 1..NoCursor
        /\ whole \in BOOLEAN
    BY <1>1 DEF Requests, Exhausted
  <2>2. QED
    BY <1>1, <2>1 DEF Requests
<1> HIDE DEF next
<1>3. ASSUME next.whole, NEW i \in 1..Len(chain), Ready(chain, i, next.addr, next.age),
             QuotaOf(chain[i], next.at) # Refused
      PROVE  Ahead(chain, i, next)
  <2>1. PICK n \in request.endpoint..3 :
            n # request.endpoint /\ chain[i].kind = Endpoints[n]
    BY <1>2, <1>3, NoMore DEF Exhausted
  <2>2. n \in next.endpoint..3
    BY <1>1, <1>2, <2>1 DEF Requests
  <2>3. i < next.before
    BY <1>1, <1>2
  <2>4. QED
    BY <2>1, <2>2, <2>3 DEF Ahead
<1>4. Cardinality(Seen(chain, next)) >= (next.page - 1) * PageSize
  <2>1. Seen(chain, next) \subseteq 1..Len(chain)
    BY DEF Seen
  <2>2. Cardinality(Seen(chain, next)) \in Nat
    BY <1>1, <2>1, Counting
  <2>3. (next.page - 1) * PageSize = 0
    BY <1>1, <1>2
  <2>4. QED
    BY <2>2, <2>3
<1>5. QED
  BY <1>2, <1>3, <1>4 DEF RequestOK, next

\* The answers.
LEMMA SaysWaiting ==
    ASSUME Inv, request # Idle, NEW whole, Exhausted(whole), ~(request.endpoint < 3)
    PROVE  Right(chain, request.addr, Waiting(request.at, whole), request.age)
<1> DEFINE v == Waiting(request.at, whole)
<1>1. v.is = "waiting" /\ v.tx = 0 /\ v.at = request.at /\ v.whole = whole
  BY DEF Waiting
<1>2. Len(chain) \in Nat /\ request.endpoint = 3
  BY DEF Inv, ChainOK, RequestOK, Requests
<1>3. ASSUME whole, NEW i \in 1..Len(chain), Ready(chain, i, request.addr, request.age)
      PROVE  QuotaOf(chain[i], request.at) = Refused
  <2>1. SUFFICES ASSUME QuotaOf(chain[i], request.at) # Refused PROVE FALSE
    OBVIOUS
  <2>2. PICK n \in request.endpoint..3 : n # request.endpoint
    BY <1>3, <2>1, NoMore DEF Exhausted
  <2>3. QED
    BY <1>2, <2>2
<1> HIDE DEF v
<1>4. Right(chain, request.addr, v, request.age)
  BY <1>1, <1>2, <1>3 DEF Right, Results
<1>5. QED
  BY <1>4 DEF v

LEMMA SaysUnavailable ==
    ASSUME Inv, NEW addr, NEW age, NEW prices
    PROVE  Right(chain, addr, Unavailable(prices), age)
<1> DEFINE v == Unavailable(prices)
<1>1. v.is = "unavailable" /\ v.tx = 0
  BY DEF Unavailable, Waiting
<1>2. Len(chain) \in Nat
  BY DEF Inv, ChainOK
<1> HIDE DEF v
<1>3. Right(chain, addr, v, age)
  BY <1>1, <1>2 DEF Right, Results
<1>4. QED
  BY <1>3 DEF v

\* Whatever tier takes the amount grants what was paid for.
LEMMA QuotaRight ==
    ASSUME SoldApart, ChainOK(chain), NEW i \in 1..Len(chain), NEW prices \in AllPrices,
           QuotaOf(chain[i], prices) # Refused
    PROVE  QuotaOf(chain[i], prices) = Chain.tiers[chain[i].tier].quota_bytes
<1> DEFINE s == chain[i].sym
           amount == chain[i].amount
           tier == chain[i].tier
           taken == Accepting(Chain, s, amount, prices)
           first == Minimum(taken)
           same == {n \in Offers(Chain) :
                       /\ n % 2 = first % 2
                       /\ Offer(Chain, n, s, prices) = Offer(Chain, first, s, prices)}
           most == 2 * Len(Chain.tiers)
<1>1. s \in Symbols /\ amount \in Amounts /\ tier \in DOMAIN Chain.tiers
  BY TxTyped DEF Txs
<1>2. PICK asked \in Market : amount = PageQuote(Chain, tier, s, asked)
  BY DEF ChainOK
<1>3. /\ QuotaOf(chain[i], prices) =
             IF Accepts(Chain, s, amount, prices) THEN QuotaFor(Chain, s, amount, prices)
             ELSE Refused
  BY <1>1 DEF QuotaOf, Quota
<1>4. taken # {} /\ QuotaOf(chain[i], prices) = QuotaFor(Chain, s, amount, prices)
  BY <1>3 DEF Accepts
<1>5. Offers(Chain) = 1..most /\ most \in Nat
  BY VerificationAssumption DEF Offers
<1>6. taken \subseteq 1..most
  BY <1>5 DEF Accepting
<1> HIDE DEF most
<1>7. first \in taken
  <2> HIDE DEF taken
  <2>1. QED
    BY <1>4, <1>5, <1>6, Extremes
<1> HIDE DEF first
<1>8. /\ first \in Offers(Chain) /\ Offer(Chain, first, s, prices) > 0
      /\ Within(s, amount, Offer(Chain, first, s, prices))
  BY <1>7 DEF Accepting
<1>9. first \in same /\ same \subseteq 1..most
  BY <1>5, <1>8
<1>10. Maximum(same) \in same
  <2> HIDE DEF same
  <2>1. QED
    BY <1>5, <1>9, Extremes
<1>11. ASSUME NEW n \in same
       PROVE  Chain.tiers[OfferTier(n)].quota_bytes = Chain.tiers[tier].quota_bytes
  <2> DEFINE e == Offer(Chain, n, s, prices)
  <2>1. n \in Offers(Chain) /\ e > 0 /\ Within(s, amount, e)
    BY <1>8, <1>11
  <2>2. e > 0 /\ Within(s, PageQuote(Chain, tier, s, asked), e) =>
            Chain.tiers[OfferTier(n)].quota_bytes = Chain.tiers[tier].quota_bytes
    BY <1>1, <2>1 DEF SoldApart
  <2> HIDE DEF e
  <2>3. QED
    BY <1>2, <2>1, <2>2
<1>12. QuotaFor(Chain, s, amount, prices) = Chain.tiers[OfferTier(Maximum(same))].quota_bytes
  BY DEF QuotaFor, first
<1>13. QED
  BY <1>4, <1>10, <1>11, <1>12

LEMMA SaysVerified ==
    ASSUME Inv, request # Idle, NEW i \in Matching
    PROVE  Right(chain, request.addr, Verified(i, request.at), request.age)
<1> DEFINE v == Verified(i, request.at)
<1>1. v.is = "verified" /\ v.tx = i /\ v.quota = QuotaOf(chain[i], request.at)
  BY DEF Verified
<1>2. i \in 1..Len(chain) /\ chain[i].to = request.addr /\ Len(chain) \in Nat
  BY PageFacts DEF Matching, Listed
<1>3. QuotaOf(chain[i], request.at) # Refused /\ request.at \in AllPrices /\ ChainOK(chain)
  BY DEF Matching, Matches, Inv, RequestOK, Requests
<1>4. SoldApart => v.quota = Chain.tiers[chain[i].tier].quota_bytes
  BY <1>1, <1>2, <1>3, QuotaRight
<1> HIDE DEF v
<1>5. Right(chain, request.addr, v, request.age)
  BY <1>1, <1>2, <1>4 DEF Right, Results
<1>6. QED
  BY <1>5 DEF v

-----------------------------------------------------------------------------
(***************************************************************************)
(* The steps.                                                              *)
(***************************************************************************)
LEMMA InitInv == Init => Inv
<1> SUFFICES ASSUME Init PROVE Inv
  OBVIOUS
<1>1. ChainOK(chain)
  <2>1. chain = <<>> /\ <<>> \in Seq(Txs) /\ Len(<<>>) = 0
    BY DEF Init
  <2>2. QED
    BY <2>1, Numbers DEF ChainOK
<1>2. CacheOK
  <2>1. DOMAIN cache = {} /\ order = {}
    BY DEF Init
  <2>2. IsFiniteSet({}) /\ Cardinality({}) = 0
    BY FS_EmptySet
  <2>3. QED
    BY <2>1, <2>2, Numbers DEF CacheOK, Linear
<1>3. request = Idle /\ answer = NoAnswer /\ trouble \in 0..MaxTrouble
  BY Numbers DEF Init
<1>4. QED
  BY <1>1, <1>2, <1>3 DEF Inv, AnswerOK

\* Transfers and time.
LEMMA PayKeeps ==
    ASSUME Inv, NEW a \in Addr, NEW i \in DOMAIN Chain.tiers, NEW s \in Symbols,
           NEW kind \in Kinds, NEW ok \in BOOLEAN, NEW prices \in Market,
           Pay(a, i, s, kind, ok, prices)
    PROVE  Inv'
<1>1. /\ ChainOK(chain) /\ ChainOK(chain') /\ Extends(chain, chain')
      /\ \A age \in Nat : Settles(chain, age, chain', age)
  BY PayExtends DEF Inv
<1>2. cache' = cache /\ order' = order /\ request' = request /\ trouble' = trouble
  BY DEF Pay
<1>3. answer' = NoAnswer
  BY DEF Pay
<1>4. ASSUME NEW b \in DOMAIN cache PROVE Right(chain', b, cache[b].value, cache[b].age)
  <2>1. Right(chain, b, cache[b].value, cache[b].age) /\ cache[b].age \in Nat
    BY DEF Inv, CacheOK
  <2>2. QED
    BY <1>1, <2>1, RightKept
<1>5. CacheOK'
  BY <1>2, <1>4 DEF CacheOK, Inv
<1>6. ASSUME request # Idle PROVE RequestOK(chain', request)
  <2>1. RequestOK(chain, request) /\ request \in Requests /\ request.age \in Nat
    BY <1>6 DEF Inv, RequestOK, Requests
  <2>2. QED
    BY <1>1, <2>1, RequestKept
<1>7. QED
  BY <1>1, <1>2, <1>3, <1>5, <1>6 DEF Inv, AnswerOK

LEMMA TickKeeps ==
    ASSUME Inv, Tick
    PROVE  Inv'
<1>1. /\ ChainOK(chain) /\ ChainOK(chain') /\ Extends(chain, chain')
      /\ \A age \in 0..Horizon : Settles(chain, age, chain', Older(age))
      /\ \A age \in 0..Budget : Settles(chain, age, chain', age + 1)
  BY TickExtends DEF Inv
<1>2. cache' = [a \in DOMAIN cache |-> [cache[a] EXCEPT !.age = Older(@)]] /\ order' = order
  BY DEF Tick
<1>3. answer' = NoAnswer
  BY DEF Tick
<1>4. DOMAIN cache' = DOMAIN cache
  BY <1>2
<1>5. ASSUME NEW b \in DOMAIN cache
      PROVE  /\ cache'[b] = [value |-> cache'[b].value, age |-> cache'[b].age]
             /\ cache'[b].age \in 0..Horizon
             /\ Right(chain', b, cache'[b].value, cache'[b].age)
  <2>1. Right(chain, b, cache[b].value, cache[b].age) /\ cache[b].age \in 0..Horizon
    BY DEF Inv, CacheOK
  <2>2. cache[b] = [value |-> cache[b].value, age |-> cache[b].age]
    BY DEF Inv, CacheOK
  <2>3. cache'[b] = [value |-> cache[b].value, age |-> Older(cache[b].age)]
    <3>1. cache'[b] = [cache[b] EXCEPT !.age = Older(cache[b].age)]
      BY <1>2
    <3>2. QED
      BY <2>2, <3>1
  <2>4. QED
    BY <1>1, <2>1, <2>2, <2>3, RightKept, Ages
<1>6. CacheOK'
  BY <1>2, <1>4, <1>5 DEF CacheOK, Inv
<1>7. request' # Idle => RequestOK(chain', request')
  <2>1. CASE request = Idle
    BY <2>1 DEF Tick
  <2>2. CASE request # Idle
    <3>1. request' = [request EXCEPT !.age = request.age + 1] /\ request.age < Budget
      BY <2>2 DEF Tick
    <3>2. RequestOK(chain, request) /\ request \in Requests /\ request.age \in 0..Budget
      BY <2>2 DEF Inv, RequestOK, Requests
    <3>3. request.age + 1 \in 0..Budget
      BY <3>1, <3>2, Numbers
    <3>4. /\ request' \in Requests /\ request'.age = request.age + 1
          /\ request'.endpoint = request.endpoint /\ request'.addr = request.addr
          /\ request'.page = request.page /\ request'.before = request.before
          /\ request'.at = request.at /\ request'.whole = request.whole
      BY <3>1, <3>2, <3>3 DEF Requests
    <3>5. QED
      BY <1>1, <3>2, <3>4, RequestKept
  <2>3. QED
    BY <2>1, <2>2
<1>8. trouble' \in 0..MaxTrouble
  BY Numbers DEF Tick, Inv
<1>9. QED
  BY <1>1, <1>3, <1>6, <1>7, <1>8 DEF Inv, AnswerOK

\* The cache is asked, and a request begins if it has no answer.
LEMMA BeginKeeps ==
    ASSUME Inv, NEW a \in Addr, NEW prices \in AllPrices, Begin(a, prices), chain' = chain,
           trouble' \in 0..MaxTrouble
    PROVE  Inv'
<1>1. CacheOK
  BY DEF Inv
<1>2. CASE Hit(a)
  <2>1. /\ cache' = cache /\ order' = Moved(DOMAIN cache, a) /\ request' = request
        /\ answer' = [key |-> a, value |-> cache[a].value, age |-> cache[a].age]
    BY <1>2 DEF Begin, Look
  <2>2. a \in DOMAIN cache
    BY <1>2 DEF Hit, Cached
  <2>3. Linear(order', DOMAIN cache)
    <3>1. DOMAIN cache \cup {a} = DOMAIN cache
      BY <2>2
    <3>2. QED
      BY <1>1, <2>1, <3>1, LinearMoved DEF CacheOK
  <2>4. CacheOK'
    BY <1>1, <2>1, <2>3 DEF CacheOK
  <2>5. AnswerOK'
    BY <1>1, <2>1, <2>2 DEF CacheOK, AnswerOK
  <2>6. QED
    BY <2>1, <2>4, <2>5 DEF Inv
<1>3. CASE ~Hit(a)
  <2> DEFINE others == DOMAIN cache \ {a}
             r == [endpoint |-> 1, addr |-> a, page |-> 1, before |-> NoCursor, age |-> 0,
                   at |-> prices, whole |-> TRUE]
  <2>1. /\ cache' = [b \in others |-> cache[b]] /\ order' = order \cap (others \X others)
        /\ request' = r /\ answer' = NoAnswer
    BY <1>3 DEF Begin, Look
  <2>2. others \subseteq DOMAIN cache /\ DOMAIN cache' = others
    BY <2>1
  <2>3. Linear(order', others)
    BY <1>1, <2>1, <2>2, LinearPart DEF CacheOK
  <2>4. IsFiniteSet(others) /\ Cardinality(others) <= MaxSize
    <3>1. IsFiniteSet(DOMAIN cache)
      BY <1>1 DEF CacheOK
    <3>2. /\ IsFiniteSet(others) /\ Cardinality(others) <= Cardinality(DOMAIN cache)
          /\ Cardinality(others) \in Nat /\ Cardinality(DOMAIN cache) \in Nat
      BY <2>2, <3>1, FS_Subset, FS_CardinalityType
    <3>3. QED
      BY <1>1, <3>2, Numbers DEF CacheOK
  <2>5. \A b \in others : cache'[b] = cache[b]
    BY <2>1
  <2> HIDE DEF others
  <2>6. CacheOK'
    BY <1>1, <2>2, <2>3, <2>4, <2>5 DEF CacheOK
  <2>7. RequestOK(chain, r)
    <3>1. /\ Len(chain) \in Nat /\ Len(chain) <= MaxTx /\ NoCursor \in Nat
          /\ NoCursor = MaxTx + 1 /\ MaxTx \in Nat /\ Pages \in Nat /\ Pages > 0
          /\ PageSize \in Nat /\ Budget \in Nat
      BY Numbers DEF Inv, ChainOK
    <3>2. /\ r \in Requests /\ r.endpoint = 1 /\ r.before = NoCursor /\ r.page = 1
          /\ r.addr = a
      BY <3>1 DEF Requests
    <3> HIDE DEF r
    <3>3. ASSUME NEW i \in 1..Len(chain) PROVE Ahead(chain, i, r)
      <4>1. chain[i].kind \in Kinds
        BY <3>3, TxTyped DEF Inv, Txs
      <4>2. PICK n \in 1..3 : chain[i].kind = Endpoints[n]
        BY <4>1 DEF Kinds
      <4>3. i < NoCursor
        BY <3>1
      <4>4. QED
        BY <3>2, <4>2, <4>3 DEF Ahead
    <3>4. Cardinality(Seen(chain, r)) \in Nat
      <4>1. Seen(chain, r) \subseteq 1..Len(chain)
        BY DEF Seen
      <4>2. QED
        BY <3>1, <4>1, Counting
    <3>5. (r.page - 1) * PageSize = 0
      BY <3>1, <3>2
    <3>6. QED
      BY <3>2, <3>3, <3>4, <3>5 DEF RequestOK
  <2>8. QED
    BY <2>1, <2>6, <2>7 DEF Inv, AnswerOK
<1>4. QED
  BY <1>2, <1>3

\* An answer is kept and given.
LEMMA StoreKeeps ==
    ASSUME Inv, request # Idle, NEW value, Store(request.addr, value), chain' = chain,
           Right(chain, request.addr, value, request.age)
    PROVE  CacheOK'
<1> DEFINE a == request.addr
           live == {b \in DOMAIN cache \ {a} : cache[b].age - request.age < Ttl}
           kept == IF Cardinality(live) < MaxSize THEN live ELSE live \ {Oldest(live)}
           new == [value |-> value, age |-> request.age]
<1>1. /\ cache' = [b \in kept \cup {a} |-> IF b = a THEN new ELSE cache[b]]
      /\ order' = Moved(kept \cup {a}, a)
  BY DEF Store
<1>2. CacheOK /\ a \in Addr /\ request.age \in 0..Budget
  BY DEF Inv, RequestOK, Requests
<1>3. IsFiniteSet(DOMAIN cache) /\ Linear(order, DOMAIN cache) /\ Cardinality(DOMAIN cache) <= MaxSize
  BY <1>2 DEF CacheOK
<1>4. live \subseteq DOMAIN cache /\ a \notin live
  OBVIOUS
<1> HIDE DEF live
<1>5. /\ IsFiniteSet(live) /\ Cardinality(live) \in Nat /\ Cardinality(live) <= Cardinality(DOMAIN cache)
      /\ Cardinality(DOMAIN cache) \in Nat
  BY <1>3, <1>4, FS_Subset, FS_CardinalityType
<1>6. /\ kept \subseteq DOMAIN cache /\ a \notin kept /\ IsFiniteSet(kept)
      /\ Cardinality(kept) + 1 <= MaxSize
  <2>1. CASE Cardinality(live) < MaxSize
    BY <1>4, <1>5, <2>1, Numbers
  <2>2. CASE ~(Cardinality(live) < MaxSize)
    <3>1. live # {}
      BY <1>5, <2>2, Numbers, FS_EmptySet
    <3>2. Oldest(live) \in live
      BY <1>3, <1>4, <3>1, OldestListed
    <3>3. /\ IsFiniteSet(live \ {Oldest(live)})
          /\ Cardinality(live \ {Oldest(live)}) = Cardinality(live) - 1
      BY <1>5, <3>2, FS_RemoveElement
    <3>4. kept = live \ {Oldest(live)}
      BY <2>2
    <3> HIDE DEF kept
    <3>5. QED
      BY <1>3, <1>4, <1>5, <3>3, <3>4, Numbers
  <2>3. QED
    BY <2>1, <2>2
<1> HIDE DEF kept
<1>7. IsFiniteSet(kept \cup {a}) /\ Cardinality(kept \cup {a}) <= MaxSize
  BY <1>6, FS_AddElement
<1>8. DOMAIN cache' = kept \cup {a} /\ kept \cup {a} \subseteq Addr
  BY <1>1, <1>2, <1>6 DEF CacheOK
<1>9. Linear(order', kept \cup {a})
  BY <1>1, <1>3, <1>6, LinearMoved
<1>10. ASSUME NEW b \in kept \cup {a}
       PROVE  /\ cache'[b] = [value |-> cache'[b].value, age |-> cache'[b].age]
              /\ cache'[b].age \in 0..Horizon
              /\ Right(chain, b, cache'[b].value, cache'[b].age)
  <2>1. CASE b = a
    <3>1. cache'[b] = new
      BY <1>1, <2>1
    <3>2. request.age \in 0..Horizon
      BY <1>2, Ages, Numbers
    <3>3. QED
      BY <2>1, <3>1, <3>2
  <2>2. CASE b # a
    <3>1. cache'[b] = cache[b] /\ b \in DOMAIN cache
      BY <1>1, <1>6, <2>2
    <3>2. QED
      BY <1>2, <3>1 DEF CacheOK
  <2>3. QED
    BY <2>1, <2>2
<1> HIDE DEF a, new
<1>11. QED
  BY <1>7, <1>8, <1>9, <1>10 DEF CacheOK

LEMMA FinishKeeps ==
    ASSUME Inv, request # Idle, NEW value, Finish(value), chain' = chain,
           Right(chain, request.addr, value, request.age), trouble' \in 0..MaxTrouble
    PROVE  Inv'
<1>1. CacheOK'
  BY StoreKeeps DEF Finish
<1>2. request' = Idle
  BY DEF Finish
<1>3. AnswerOK'
  <2>1. answer' = [key |-> request.addr, value |-> value, age |-> request.age]
    BY DEF Finish
  <2>2. request.addr \in Addr /\ request.age \in 0..Horizon
    BY Ages, Numbers DEF Inv, RequestOK, Requests
  <2>3. QED
    BY <2>1, <2>2 DEF AnswerOK
<1>4. QED
  BY <1>1, <1>2, <1>3 DEF Inv

\* The next endpoint, or the end.
LEMMA NextEndpointKeeps ==
    ASSUME Inv, request # Idle, NEW whole, Exhausted(whole), NextEndpoint(whole),
           chain' = chain, trouble' = trouble
    PROVE  Inv'
<1>1. trouble' \in 0..MaxTrouble
  BY DEF Inv
<1>2. CASE request.endpoint < 3
  <2>1. /\ request' = [request EXCEPT !.endpoint = @ + 1, !.page = 1,
                                      !.before = NoCursor, !.whole = whole]
        /\ answer' = NoAnswer /\ cache' = cache /\ order' = order
    BY <1>2 DEF NextEndpoint
  <2>2. RequestOK(chain, request')
    BY <1>2, <2>1, NextList
  <2>3. CacheOK'
    BY <2>1 DEF Inv, CacheOK
  <2>4. QED
    BY <1>1, <2>1, <2>2, <2>3 DEF Inv, AnswerOK
<1>3. CASE ~(request.endpoint < 3)
  <2>1. Finish(Waiting(request.at, whole))
    BY <1>3 DEF NextEndpoint
  <2>2. QED
    BY <1>1, <1>3, <2>1, SaysWaiting, FinishKeeps
<1>4. QED
  BY <1>2, <1>3

LEMMA ReadPageKeeps ==
    ASSUME Inv, ReadPage
    PROVE  Inv'
<1>1. request # Idle /\ chain' = chain /\ trouble' = trouble /\ trouble' \in 0..MaxTrouble
  BY DEF ReadPage, Inv
<1>2. ASSUME NEW i \in Matching, Finish(Verified(i, request.at)) PROVE Inv'
  BY <1>1, <1>2, SaysVerified, FinishKeeps
<1>3. ASSUME Matching = {}, OnPage # Listed, request.page < Pages,
             request' = [request EXCEPT !.page = @ + 1, !.before = Minimum(OnPage)],
             answer' = NoAnswer, cache' = cache, order' = order
      PROVE  Inv'
  <2>1. RequestOK(chain, request')
    BY <1>1, <1>3, NextPage
  <2>2. CacheOK'
    BY <1>1, <1>3 DEF Inv, CacheOK
  <2>3. QED
    BY <1>1, <1>3, <2>1, <2>2 DEF Inv, AnswerOK
<1>4. ASSUME Matching = {}, OnPage = Listed \/ request.page >= Pages,
             NextEndpoint(request.whole)
      PROVE  Inv'
  <2>1. request.whole \in BOOLEAN
    BY <1>1 DEF Inv, RequestOK, Requests
  <2>2. Exhausted(request.whole)
    BY <1>4, <2>1 DEF Exhausted
  <2>3. QED
    BY <1>1, <1>4, <2>2, NextEndpointKeeps
<1>5. QED
  BY <1>2, <1>3, <1>4 DEF ReadPage

LEMMA StepInv == Inv /\ [Next]_vars => Inv'
<1> SUFFICES ASSUME Inv, [Next]_vars PROVE Inv'
  OBVIOUS
<1>1. ASSUME NEW a \in Addr, Check(a) PROVE Inv'
  <2>1. PICK prices \in AllPrices : Begin(a, prices)
    BY <1>1 DEF Check, AllPrices
  <2>2. chain' = chain /\ trouble' \in 0..MaxTrouble
    BY <1>1, Numbers DEF Check, Inv
  <2>3. QED
    BY <2>1, <2>2, BeginKeeps
<1>2. ASSUME NEW a \in Addr, NEW i \in DOMAIN Chain.tiers, NEW s \in Symbols,
             NEW kind \in {Endpoints[n] : n \in 1..3}, NEW ok \in BOOLEAN, NEW prices \in Market,
             Pay(a, i, s, kind, ok, prices)
      PROVE  Inv'
  BY <1>2, PayKeeps DEF Kinds
<1>3. CASE Tick
  BY <1>3, TickKeeps
<1>4. CASE ReadPage
  BY <1>4, ReadPageKeeps
<1>5. CASE SkipEndpoint
  <2>1. request # Idle /\ NextEndpoint(FALSE) /\ chain' = chain /\ trouble' = trouble
    BY <1>5 DEF SkipEndpoint
  <2>2. Exhausted(FALSE)
    BY DEF Exhausted
  <2>3. QED
    BY <2>1, <2>2, NextEndpointKeeps
<1>6. CASE FailPage
  <2>1. /\ request # Idle /\ Finish(Unavailable(request.at)) /\ chain' = chain
        /\ trouble' \in 0..MaxTrouble
    BY <1>6, Numbers DEF FailPage, Inv
  <2>2. QED
    BY <2>1, SaysUnavailable, FinishKeeps
<1>7. CASE UNCHANGED vars
  <2>1. /\ cache' = cache /\ order' = order /\ request' = request /\ chain' = chain
        /\ answer' = answer /\ trouble' = trouble
    BY <1>7 DEF vars
  <2>2. QED
    BY <2>1 DEF Inv, CacheOK, AnswerOK
<1>8. QED
  BY <1>1, <1>2, <1>3, <1>4, <1>5, <1>6, <1>7 DEF Next

LEMMA Always == Spec => []Inv
BY InitInv, StepInv, PTL DEF Spec

-----------------------------------------------------------------------------
(***************************************************************************)
(* What follows.                                                           *)
(***************************************************************************)
\* The variables keep their types, and the order of the cache, whatever is used,
\* expires or is evicted, stays a total order of exactly its keys
\* (verification.py:25-57).
THEOREM TypeCorrect == Spec => []TypeOK
<1>1. Inv => TypeOK
  <2> SUFFICES ASSUME Inv PROVE TypeOK
    OBVIOUS
  <2>1. DOMAIN cache \subseteq Addr /\ Linear(order, DOMAIN cache)
    BY DEF Inv, CacheOK
  <2>2. ASSUME NEW a \in DOMAIN cache
        PROVE  /\ cache[a].age \in 0..Horizon
               /\ cache[a].value.is \in {"verified", "waiting", "unavailable"}
               /\ cache[a].value.tx \in 0..Len(chain)
    BY DEF Inv, CacheOK, Right, Results
  <2>3. /\ request # Idle => request.addr \in Addr /\ request.endpoint \in 1..3
        /\ request.age \in 0..Budget /\ request.page \in 0..Pages
        /\ request.before \in 0..NoCursor
    <3>1. CASE request = Idle
      BY <3>1, Numbers DEF Idle
    <3>2. CASE request # Idle
      BY <3>2, Numbers DEF Inv, RequestOK, Requests
    <3>3. QED
      BY <3>1, <3>2
  <2>4. Len(chain) <= MaxTx /\ trouble \in 0..MaxTrouble
    BY DEF Inv, ChainOK
  <2>5. QED
    BY <2>1, <2>2, <2>3, <2>4 DEF TypeOK, Linear
<1>2. QED
  BY <1>1, Always, PTL

\* "Waiting" hides no transfer within reach that had settled before the check
\* began and matches at the check's prices, however many transfers arrive between
\* two pages and however old the answer is (verification.py:113-170, 206-261).
THEOREM NotMissedHolds == Spec => []NotMissed
<1>1. Inv => NotMissed
  <2> SUFFICES ASSUME Inv, answer # NoAnswer, NEW i \in DOMAIN chain, Overlooked(i)
               PROVE  QuotaOf(chain[i], answer.value.at) = Refused
    BY DEF NotMissed
  <2>1. i \in 1..Len(chain)
    BY DEF Inv, ChainOK
  <2>2. Right(chain, answer.key, answer.value, answer.age)
    BY DEF Inv, AnswerOK
  <2>3. InReach(chain, i)
    BY DEF Overlooked, WithinReach, InReach, NewerThan
  <2>4. Ready(chain, i, answer.key, answer.age)
    BY <2>3 DEF Overlooked, Ready
  <2>5. QED
    BY <2>1, <2>2, <2>4 DEF Overlooked, Right
<1>2. QED
  BY <1>1, Always, PTL

\* Where the prices of tiers stay further apart than the tolerance while they
\* move, whoever has paid for a tier is granted its quota, by an answer about the
\* address that was paid (verification.py:95-110, 187-197).
THEOREM PaidAsCreditedHolds ==
    ASSUME SoldApart
    PROVE  Spec => []PaidAsCredited
<1>1. Inv => PaidAsCredited
  <2> SUFFICES ASSUME Inv, answer.value.is = "verified"
               PROVE  /\ chain[answer.value.tx].to = answer.key
                      /\ answer.value.quota =
                             Chain.tiers[chain[answer.value.tx].tier].quota_bytes
    BY DEF PaidAsCredited
  <2>1. answer # NoAnswer
    BY DEF NoAnswer, Waiting
  <2>2. Right(chain, answer.key, answer.value, answer.age)
    BY <2>1 DEF Inv, AnswerOK
  <2>3. QED
    BY <2>2 DEF Right
<1>2. QED
  BY <1>1, Always, PTL

-----------------------------------------------------------------------------
(***************************************************************************)
(* The cache of answers is a FreshCache.                                   *)
(***************************************************************************)
\* What an entry is to FreshCache, and what an answer is.
Shown(c, a) ==
    IF a \in DOMAIN c /\ c[a].age < Ttl
    THEN [value |-> c[a].value.is, age |-> c[a].age]
    ELSE [value |-> "nothing", age |-> 0]
Told(r) ==
    IF r = NoAnswer THEN [key |-> "nobody", value |-> "nothing", age |-> 0]
    ELSE [r EXCEPT !.value = r.value.is]

\* The refinement mapping, now and after a step.
LEMMA Mapped ==
    /\ [a \in Addr |-> HeldAs(a)] = [a \in Addr |-> Shown(cache, a)]
    /\ ([a \in Addr |-> HeldAs(a)])' = [a \in Addr |-> Shown(cache', a)]
    /\ (IF answer = NoAnswer THEN [key |-> "nobody", value |-> "nothing", age |-> 0]
        ELSE [answer EXCEPT !.value = answer.value.is]) = Told(answer)
    /\ (IF answer = NoAnswer THEN [key |-> "nobody", value |-> "nothing", age |-> 0]
        ELSE [answer EXCEPT !.value = answer.value.is])' = Told(answer')
  BY DEF HeldAs, Shown, Cached, Told

Typed(c) == \A a \in DOMAIN c : c[a].age \in 0..Horizon /\ c[a].value.is \in Results

LEMMA CacheTyped ==
    /\ Inv => Typed(cache)
    /\ Inv' => Typed(cache')
<1>1. Inv => Typed(cache)
  BY DEF Inv, CacheOK, Right, Typed
<1>2. Inv' => Typed(cache')
  BY DEF Inv, CacheOK, Right, Typed
<1>3. QED
  BY <1>1, <1>2

LEMMA ShownTyped ==
    ASSUME NEW c, Typed(c), NEW a \in Addr
    PROVE  /\ Shown(c, a) \in Fresh!Held
           /\ Shown(c, a) # Fresh!Nothing <=> a \in DOMAIN c /\ c[a].age < Ttl
<1>1. CASE a \in DOMAIN c /\ c[a].age < Ttl
  <2>1. c[a].value.is \in Results /\ c[a].age \in 0..Ttl
    BY <1>1, Ages, Numbers DEF Typed
  <2>2. Shown(c, a) = [value |-> c[a].value.is, age |-> c[a].age]
    BY <1>1 DEF Shown
  <2>3. c[a].value.is # "nothing"
    BY <2>1 DEF Results
  <2>4. Shown(c, a) \in Fresh!Held /\ Shown(c, a) # Fresh!Nothing
    BY <2>1, <2>2, <2>3 DEF Fresh!Held, Fresh!Nothing, Results
  <2>5. QED
    BY <1>1, <2>4
<1>2. CASE ~(a \in DOMAIN c /\ c[a].age < Ttl)
  BY <1>2 DEF Shown, Fresh!Held, Fresh!Nothing
<1>3. QED
  BY <1>1, <1>2

LEMMA ToldTyped ==
    /\ Told(NoAnswer) = Fresh!NoAnswer
    /\ \A a \in Addr : \A v, n :
           Told([key |-> a, value |-> v, age |-> n]) = [key |-> a, value |-> v.is, age |-> n]
<1>1. Told(NoAnswer) = Fresh!NoAnswer
  BY DEF Told, Fresh!NoAnswer, Fresh!Nobody
<1>2. ASSUME NEW a \in Addr, NEW v, NEW n
      PROVE  Told([key |-> a, value |-> v, age |-> n]) = [key |-> a, value |-> v.is, age |-> n]
  <2>1. [key |-> a, value |-> v, age |-> n] # NoAnswer
    BY Numbers DEF NoAnswer
  <2>2. QED
    BY <2>1 DEF Told
<1>3. QED
  BY <1>1, <1>2

\* A step that adds nothing to the cache, and may ask.
LEMMA QuietWork ==
    ASSUME Inv, Inv', answer' = NoAnswer,
           \A a \in DOMAIN cache' : a \in DOMAIN cache /\ cache'[a] = cache[a],
           \/ request'.addr = request.addr
           \/ request.addr = "nobody" /\ request'.addr \in Addr
    PROVE  Fresh!Work
<1> DEFINE h == [a \in Addr |-> Shown(cache, a)]
           g == [a \in Addr |-> Shown(cache', a)]
<1>1. \A a \in Addr : Shown(cache', a) \in Fresh!Held
  BY CacheTyped, ShownTyped
<1>2. g \in [Addr -> Fresh!Held]
  BY <1>1
<1>3. \A a \in Addr : g[a] \in {h[a], Fresh!Nothing}
  BY DEF Shown, Fresh!Nothing
<1>4. /\ [a \in Addr |-> HeldAs(a)] = h /\ ([a \in Addr |-> HeldAs(a)])' = g
      /\ (IF answer = NoAnswer THEN [key |-> "nobody", value |-> "nothing", age |-> 0]
          ELSE [answer EXCEPT !.value = answer.value.is])' = Fresh!NoAnswer
  BY Mapped, ToldTyped
<1> HIDE DEF h, g
<1>5. QED
  BY <1>2, <1>3, <1>4 DEF Fresh!Work, Fresh!Forgets, Fresh!Nobody

LEMMA HitServes ==
    ASSUME Inv, NEW a \in Addr, NEW prices, Hit(a), Begin(a, prices)
    PROVE  Fresh!Serve(a)
<1> DEFINE h == [b \in Addr |-> Shown(cache, b)]
<1>1. CacheOK /\ a \in DOMAIN cache /\ cache[a].age < Ttl
  BY DEF Inv, Hit, Cached
<1>2. h \in [Addr -> Fresh!Held]
  BY CacheTyped, ShownTyped
<1>3. cache' = cache /\ request' = request /\ request = Idle
      /\ answer' = [key |-> a, value |-> cache[a].value, age |-> cache[a].age]
  BY DEF Begin, Look
<1>4. h[a] # Fresh!Nothing /\ h[a] = [value |-> cache[a].value.is, age |-> cache[a].age]
  BY <1>1, CacheTyped, ShownTyped DEF Shown
<1>5. Told(answer') = [key |-> a, value |-> h[a].value, age |-> h[a].age]
  BY <1>3, <1>4, ToldTyped
<1>6. /\ [b \in Addr |-> HeldAs(b)] = h /\ ([b \in Addr |-> HeldAs(b)])' = h
      /\ (IF answer = NoAnswer THEN [key |-> "nobody", value |-> "nothing", age |-> 0]
          ELSE [answer EXCEPT !.value = answer.value.is])'
            = [key |-> a, value |-> h[a].value, age |-> h[a].age]
  BY <1>3, <1>5, Mapped
<1>7. request.addr = "nobody" /\ h[a].age < Ttl
  BY <1>1, <1>3, <1>4 DEF Idle
<1> HIDE DEF h
<1>8. QED
  BY <1>2, <1>3, <1>4, <1>6, <1>7 DEF Fresh!Serve, Fresh!Forgets, Fresh!Nobody

LEMMA FinishObtains ==
    ASSUME Inv, Inv', request # Idle, NEW value, value.is \in Results, Finish(value)
    PROVE  \E a \in Addr : \E v \in Results, n \in 0..Budget : Fresh!Obtain(a, v, n)
<1> DEFINE a == request.addr
           n == request.age
           v == value.is
           h == [b \in Addr |-> Shown(cache, b)]
           g == [b \in Addr |-> Shown(cache', b)]
<1>1. a \in Addr /\ n \in 0..Budget /\ v \in Results
  BY DEF Inv, RequestOK, Requests
<1>2. g \in [Addr -> Fresh!Held]
  BY CacheTyped, ShownTyped
<1>3. ASSUME NEW b \in Addr
      PROVE  g[b] \in {h[b], Fresh!Nothing} \/ (b = a /\ g[b] = [value |-> v, age |-> n])
  <2> DEFINE live == {c \in DOMAIN cache \ {a} : cache[c].age - request.age < Ttl}
             kept == IF Cardinality(live) < MaxSize THEN live ELSE live \ {Oldest(live)}
             new == [value |-> value, age |-> request.age]
  <2>1. cache' = [c \in kept \cup {a} |-> IF c = a THEN new ELSE cache[c]]
    BY DEF Finish, Store
  <2>2. kept \subseteq DOMAIN cache
    OBVIOUS
  <2> HIDE DEF kept
  <2>3. CASE b = a
    <3>1. b \in DOMAIN cache' /\ cache'[b] = new
      BY <2>1, <2>3
    <3>2. g[b] \in {[value |-> v, age |-> n], Fresh!Nothing}
      BY <3>1 DEF Shown, Fresh!Nothing
    <3>3. QED
      BY <2>3, <3>2
  <2>4. CASE b \in kept /\ b # a
    <3>1. b \in DOMAIN cache' /\ cache'[b] = cache[b] /\ b \in DOMAIN cache
      BY <2>1, <2>2, <2>4
    <3>2. QED
      BY <3>1 DEF Shown
  <2>5. CASE b \notin kept \cup {a}
    <3>1. b \notin DOMAIN cache'
      BY <2>1, <2>5
    <3>2. QED
      BY <3>1 DEF Shown, Fresh!Nothing
  <2>6. QED
    BY <2>3, <2>4, <2>5
<1>4. Cardinality({b \in Addr : g[b] # Fresh!Nothing}) <= MaxSize
  <2> DEFINE S == {b \in Addr : g[b] # Fresh!Nothing}
             D == DOMAIN cache'
  <2>1. ASSUME NEW b \in S PROVE b \in D
    BY <2>1 DEF Shown, Fresh!Nothing
  <2>2. IsFiniteSet(D) /\ Cardinality(D) <= MaxSize
    BY DEF Inv, CacheOK
  <2> HIDE DEF S, D
  <2>3. S \subseteq D
    BY <2>1
  <2>4. Cardinality(S) <= Cardinality(D) /\ Cardinality(S) \in Nat /\ Cardinality(D) \in Nat
    BY <2>2, <2>3, FS_Subset, FS_CardinalityType
  <2>5. Cardinality(S) <= MaxSize
    BY <2>2, <2>4, Numbers
  <2>6. QED
    BY <2>5 DEF S
<1>5. answer' = [key |-> a, value |-> value, age |-> n] /\ request' = Idle
  BY DEF Finish
<1>6. /\ [b \in Addr |-> HeldAs(b)] = h /\ ([b \in Addr |-> HeldAs(b)])' = g
      /\ (IF answer = NoAnswer THEN [key |-> "nobody", value |-> "nothing", age |-> 0]
          ELSE [answer EXCEPT !.value = answer.value.is])'
            = [key |-> a, value |-> v, age |-> n]
  BY <1>1, <1>5, Mapped, ToldTyped
<1>7. request.addr = a /\ request'.addr = Fresh!Nobody
  BY <1>5 DEF Idle, Fresh!Nobody
<1> HIDE DEF g, h, v, n, a
<1>8. Fresh!Obtain(a, v, n)
  <2>1. \A S : Fresh!Cardinality(S) = Cardinality(S)
    BY DEF Fresh!Cardinality, Cardinality
  <2>2. QED
    BY <1>2, <1>3, <1>4, <1>6, <1>7, <2>1 DEF Fresh!Obtain
<1>9. QED
  BY <1>1, <1>8

LEMMA TickAges ==
    ASSUME Inv, Inv', Tick
    PROVE  Fresh!Age
<1> DEFINE h == [b \in Addr |-> Shown(cache, b)]
           g == [b \in Addr |-> Shown(cache', b)]
<1>1. g \in [Addr -> Fresh!Held]
  BY CacheTyped, ShownTyped
<1>2. ASSUME NEW b \in Addr, g[b] # Fresh!Nothing
      PROVE  h[b] # Fresh!Nothing /\ g[b] = [h[b] EXCEPT !.age = @ + 1]
  <2>1. b \in DOMAIN cache' /\ cache'[b].age < Ttl
    BY <1>2, CacheTyped, ShownTyped
  <2>2. b \in DOMAIN cache /\ cache'[b] = [cache[b] EXCEPT !.age = Older(cache[b].age)]
    BY <2>1 DEF Tick
  <2>3. cache[b] = [value |-> cache[b].value, age |-> cache[b].age] /\ cache[b].age \in 0..Horizon
    BY <2>2 DEF Inv, CacheOK
  <2>4. cache'[b].value = cache[b].value /\ cache'[b].age = Older(cache[b].age)
    BY <2>2, <2>3
  <2>5. cache[b].age < Ttl /\ cache'[b].age = cache[b].age + 1
    <3>1. Older(cache[b].age) >= cache[b].age /\ Older(cache[b].age) \in Nat
      BY <2>3, Ages
    <3>2. cache[b].age < Ttl
      BY <2>1, <2>3, <2>4, <3>1, Numbers
    <3>3. Ttl <= Horizon
      BY Ages, Numbers
    <3>4. QED
      BY <2>3, <2>4, <3>2, <3>3, Ages, Numbers DEF Older
  <2>6. h[b] = [value |-> cache[b].value.is, age |-> cache[b].age] /\ h[b] # Fresh!Nothing
    BY <2>2, <2>5, CacheTyped, ShownTyped DEF Shown
  <2>7. g[b] = [value |-> cache[b].value.is, age |-> cache[b].age + 1]
    BY <2>1, <2>4, <2>5 DEF Shown
  <2> HIDE DEF g, h
  <2>8. QED
    BY <2>6, <2>7
<1>3. /\ [b \in Addr |-> HeldAs(b)] = h /\ ([b \in Addr |-> HeldAs(b)])' = g
      /\ (IF answer = NoAnswer THEN [key |-> "nobody", value |-> "nothing", age |-> 0]
          ELSE [answer EXCEPT !.value = answer.value.is])' = Fresh!NoAnswer
  BY Mapped, ToldTyped DEF Tick
<1>4. request'.addr = request.addr
  BY DEF Tick, Inv, RequestOK, Requests
<1> HIDE DEF g, h
<1>5. QED
  BY <1>1, <1>2, <1>3, <1>4 DEF Fresh!Age

\* Hits, expiries, evictions, slow requests and errors in any order: what
\* verify_payment_on_chain returns was worked out by a request that began less than
\* VERIFY_CACHE_SECONDS ago, or has just ended, and no more than
\* VERIFY_CACHE_MAX_SIZE answers live (verification.py:25-57, 199-208, 261).
THEOREM ImplementsFreshCache == Spec => FreshSpec
<1>1. Init => Fresh!Init
  <2> SUFFICES ASSUME Init PROVE Fresh!Init
    OBVIOUS
  <2>1. \A a \in Addr : HeldAs(a) = Fresh!Nothing
    BY DEF Init, HeldAs, Cached, Fresh!Nothing
  <2>2. [a \in Addr |-> HeldAs(a)] = [a \in Addr |-> Fresh!Nothing]
    BY <2>1
  <2>3. request.addr = Fresh!Nobody /\ Told(answer) = Fresh!NoAnswer
    BY ToldTyped DEF Init, Idle, Fresh!Nobody
  <2>4. QED
    BY <2>2, <2>3, Mapped DEF Fresh!Init
<1>2. Inv /\ Inv' /\ [Next]_vars => [Fresh!Next]_(Fresh!cacheVars)
  <2> SUFFICES ASSUME Inv, Inv', [Next]_vars
               PROVE  Fresh!Next \/ UNCHANGED Fresh!cacheVars
    BY DEF Fresh!cacheVars
  <2>1. ASSUME NEW a \in Addr, NEW prices, Begin(a, prices) PROVE Fresh!Next
    <3>1. CASE Hit(a)
      BY <2>1, <3>1, HitServes DEF Fresh!Next
    <3>2. CASE ~Hit(a)
      <4>1. /\ request.addr = "nobody" /\ request'.addr = a /\ answer' = NoAnswer
            /\ cache' = [b \in DOMAIN cache \ {a} |-> cache[b]]
        BY <2>1, <3>2 DEF Begin, Look, Idle
      <4>2. QED
        BY <4>1, QuietWork DEF Fresh!Next
    <3>3. QED
      BY <3>1, <3>2
  <2>2. ASSUME request # Idle, NEW value, value.is \in Results, Finish(value) PROVE Fresh!Next
    BY <2>2, FinishObtains DEF Fresh!Next, Results
  <2>3. ASSUME request # Idle, NEW whole, NextEndpoint(whole) PROVE Fresh!Next
    <3>1. CASE request.endpoint < 3
      <4>1. request'.addr = request.addr /\ answer' = NoAnswer /\ cache' = cache
        BY <2>3, <3>1 DEF NextEndpoint, Inv, RequestOK, Requests
      <4>2. QED
        BY <4>1, QuietWork DEF Fresh!Next
    <3>2. CASE ~(request.endpoint < 3)
      <4>1. Waiting(request.at, whole).is \in Results
        BY DEF Waiting, Results
      <4>2. QED
        BY <2>2, <2>3, <3>2, <4>1 DEF NextEndpoint
    <3>3. QED
      BY <3>1, <3>2
  <2>4. ASSUME NEW a, NEW i, NEW s, NEW kind, NEW ok, NEW prices, Pay(a, i, s, kind, ok, prices)
        PROVE  Fresh!Next
    <3>1. request' = request /\ answer' = NoAnswer /\ cache' = cache
      BY <2>4 DEF Pay
    <3>2. QED
      BY <3>1, QuietWork DEF Fresh!Next
  <2>5. CASE Tick
    BY <2>5, TickAges DEF Fresh!Next
  <2>6. CASE ReadPage
    <3>1. request # Idle
      BY <2>6 DEF ReadPage
    <3>2. ASSUME NEW n, Finish(Verified(n, request.at)) PROVE Fresh!Next
      <4>1. Verified(n, request.at).is \in Results
        BY DEF Verified, Results
      <4>2. QED
        BY <2>2, <3>1, <3>2, <4>1
    <3>3. ASSUME request' = [request EXCEPT !.page = @ + 1, !.before = Minimum(OnPage)],
                 answer' = NoAnswer, cache' = cache
          PROVE  Fresh!Next
      <4>1. request'.addr = request.addr
        BY <3>1, <3>3 DEF Inv, RequestOK, Requests
      <4>2. QED
        BY <3>3, <4>1, QuietWork DEF Fresh!Next
    <3>4. QED
      BY <2>3, <2>6, <3>1, <3>2, <3>3 DEF ReadPage
  <2>7. CASE SkipEndpoint
    BY <2>3, <2>7 DEF SkipEndpoint
  <2>8. CASE FailPage
    <3>1. Unavailable(request.at).is \in Results
      BY DEF Unavailable, Waiting, Results
    <3>2. QED
      BY <2>2, <2>8, <3>1 DEF FailPage
  <2>9. CASE UNCHANGED vars
    <3>1. /\ ([a \in Addr |-> HeldAs(a)])' = [a \in Addr |-> HeldAs(a)]
          /\ request' = request /\ answer' = answer
      BY <2>9, Mapped DEF vars
    <3>2. QED
      BY <3>1, Mapped DEF Fresh!cacheVars
  <2>10. QED
    BY <2>1, <2>4, <2>5, <2>6, <2>7, <2>8, <2>9 DEF Next, Check
<1>3. QED
  BY <1>1, <1>2, Always, PTL DEF Spec, FreshSpec, Fresh!Spec
=============================================================================
