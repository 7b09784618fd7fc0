---------------------------- MODULE CatalogProofs ----------------------------
(***************************************************************************)
(* What the catalogue promises for every chains file and every price: a    *)
(* page always has a valid chain and tier to show, and the verifier takes  *)
(* what the page asks for as what it was asked for.                        *)
(***************************************************************************)
EXTENDS Catalog, TLAPS

\* Whatever the chains file holds, and whichever chain and tier a request names,
\* the page shows a tier of a chain that has passed the validation, as long as
\* the built-in chains are valid (chains.py:124-185, app.py:110-119, 169-174).
THEOREM PageHasTier ==
    ASSUME NEW file, NEW defaults, DOMAIN defaults # {},
           \A id \in DOMAIN defaults : ValidChain(defaults[id]),
           NEW id, NEW default, NEW wanted \in Int,
           NEW c, c = ChainConfig(LoadChains(file, defaults), id, default),
           NEW Tiers, c.tiers \in Seq(Tiers)
    PROVE  ValidChain(c) /\ SelectedTier(c, wanted) \in DOMAIN c.tiers
<1> DEFINE chains == LoadChains(file, defaults)
           valid == {x \in DOMAIN file : ValidChain(file[x])}
<1>1. DOMAIN chains # {} /\ \A x \in DOMAIN chains : ValidChain(chains[x])
  <2> DEFINE broken == \E x \in DOMAIN file : Unreadable(file[x])
  <2>1. CASE valid = {} \/ broken
    BY <2>1 DEF LoadChains
  <2>2. CASE valid # {} /\ ~broken
    <3>1. chains = [x \in valid |-> file[x]]
      BY <2>2 DEF LoadChains
    <3>2. DOMAIN chains = valid /\ \A x \in valid : chains[x] = file[x]
      BY <3>1
    <3>3. QED
      BY <2>2, <3>2
  <2>3. QED
    BY <2>1, <2>2
<1> HIDE DEF chains
<1>2. \E x \in DOMAIN chains : c = chains[x]
  <2>1. (CHOOSE other \in DOMAIN chains : TRUE) \in DOMAIN chains
    BY <1>1
  <2>2. c = ChainConfig(chains, id, default)
    BY DEF chains
  <2>3. QED
    BY <2>1, <2>2 DEF ChainConfig
<1>3. ValidChain(c)
  BY <1>1, <1>2
<1>4. c.tiers # <<>>
  BY <1>3 DEF ValidChain, WellFormed
<1>5. Len(c.tiers) \in Nat /\ Len(c.tiers) > 0 /\ DOMAIN c.tiers = 1..Len(c.tiers)
  BY <1>4
<1>6. SelectedTier(c, wanted) \in DOMAIN c.tiers
  BY <1>5 DEF SelectedTier
<1>7. QED
  BY <1>3, <1>6

\* The page and the verifier count a token in the same decimals when it states
\* them, and when it is native and does not, as ETH in the built-in chains.  A token
\* of another type that states none is counted in 18 and in 6 (app.py:200, verification.py:192).
CountedAlike(info) == info.decimals # Absent \/ info.type = "native"

\* The entry of tier_map for the dollar amount of tier i.
LEMMA QuoteOffered ==
    ASSUME NEW c, NEW Tiers, c.tiers \in Seq(Tiers), NEW i \in DOMAIN c.tiers,
           NEW sym \in DOMAIN c.tokens, CountedAlike(c.tokens[sym]),
           NEW prices, NEW amount, amount = PageQuote(c, i, sym, prices)
    PROVE  /\ 2 * i - 1 \in Offers(c) /\ OfferTier(2 * i - 1) = i
           /\ (2 * i - 1) % 2 = 1
           /\ Offer(c, 2 * i - 1, sym, prices) = amount
<1>1. i \in Nat /\ i >= 1 /\ i <= Len(c.tiers) /\ Len(c.tiers) \in Nat
  OBVIOUS
<1>2. /\ 2 * i - 1 \in Offers(c) /\ OfferTier(2 * i - 1) = i /\ (2 * i - 1) % 2 = 1
  BY <1>1 DEF Offers, OfferTier
<1>3. PageDecimals(TokenInfo(c, sym)) = VerifierDecimals(c.tokens[sym])
  BY DEF PageDecimals, TokenInfo, VerifierDecimals, CountedAlike
<1>4. QED
  BY <1>2, <1>3 DEF Offer, PageQuote

LEMMA ExactWithin ==
    ASSUME NEW sym, NEW amount \in Nat, Tolerance[sym] \in Nat
    PROVE  Within(sym, amount, amount)
<1>1. Abs(amount - amount) = 0
  BY DEF Abs
<1>2. Tolerance[sym] * amount >= 0
  <2>1. \A m, n \in Nat : m * n >= 0
    OBVIOUS
  <2>2. QED
    BY <2>1
<1>3. QED
  BY <1>1, <1>2 DEF Within

\* At the same prices the verifier takes the amount that the page asks for, in the
\* native token of a chain and in every token that states its decimals
\* (app.py:195-209, verification.py:95-110, 187-197).
THEOREM QuotedAccepted ==
    ASSUME NEW c, NEW Tiers, c.tiers \in Seq(Tiers), NEW i \in DOMAIN c.tiers,
           NEW sym \in DOMAIN c.tokens, CountedAlike(c.tokens[sym]),
           NEW prices, NEW amount \in Nat \ {0}, amount = PageQuote(c, i, sym, prices),
           Tolerance[sym] \in Nat
    PROVE  Accepts(c, sym, amount, prices)
<1>1. 2 * i - 1 \in Offers(c) /\ Offer(c, 2 * i - 1, sym, prices) = amount
  BY QuoteOffered
<1>2. Within(sym, amount, amount) /\ amount > 0
  BY ExactWithin
<1>3. 2 * i - 1 \in Accepting(c, sym, amount, prices)
  BY <1>1, <1>2 DEF Accepting
<1>4. QED
  BY <1>3 DEF Accepts

\* The price of one tier is not within the tolerance of another one's.
Apart(c, i, sym, amount, prices) ==
    \A n \in Offers(c) :
        LET e == Offer(c, n, sym, prices)
        IN  e > 0 /\ Within(sym, amount, e) => OfferTier(n) = i

\* And it grants the quota of the tier that was asked for, although it only sees
\* the amount, where the prices of tiers are further apart than the tolerance
\* (verification.py:95-110).
THEOREM QuotedCredited ==
    ASSUME NEW c, NEW Tiers, c.tiers \in Seq(Tiers), NEW i \in DOMAIN c.tiers,
           NEW sym \in DOMAIN c.tokens, CountedAlike(c.tokens[sym]),
           NEW prices, NEW amount \in Nat \ {0}, amount = PageQuote(c, i, sym, prices),
           Tolerance[sym] \in Nat, Apart(c, i, sym, amount, prices)
    PROVE  QuotaFor(c, sym, amount, prices) = c.tiers[i].quota_bytes
<1> DEFINE own == 2 * i - 1
           taken == Accepting(c, sym, amount, prices)
           first == Minimum(taken)
           same == {n \in Offers(c) : /\ n % 2 = first % 2
                                      /\ Offer(c, n, sym, prices) = Offer(c, first, sym, prices)}
<1>1. /\ own \in Offers(c) /\ OfferTier(own) = i /\ own % 2 = 1
      /\ Offer(c, own, sym, prices) = amount
  BY QuoteOffered
<1>2. Within(sym, amount, amount) /\ amount > 0
  BY ExactWithin
<1>3. own \in taken
  BY <1>1, <1>2 DEF Accepting
<1>4. i \in Nat /\ Offers(c) \subseteq Nat
  BY DEF Offers
<1>5. ASSUME NEW n \in taken PROVE n \in Offers(c) /\ own <= n
  <2>1. n \in Offers(c) /\ OfferTier(n) = i
    BY <1>5 DEF Accepting, Apart
  <2>2. QED
    BY <1>4, <2>1 DEF OfferTier
<1>6. first = own
  <2>1. taken \subseteq Nat /\ own \in Nat
    BY <1>1, <1>4, <1>5
  <2> HIDE DEF taken, own
  <2>2. \A n \in taken : (\A m \in taken : n <= m) => n = own
    BY <1>3, <1>5, <2>1
  <2>3. own \in taken /\ \A m \in taken : own <= m
    BY <1>3, <1>5
  <2>4. QED
    BY <2>2, <2>3 DEF Minimum
<1> HIDE DEF first
<1>7. ASSUME NEW n \in same PROVE n = own
  <2>1. n \in Offers(c) /\ n % 2 = 1 /\ Offer(c, n, sym, prices) = amount
    BY <1>1, <1>6, <1>7
  <2>2. OfferTier(n) = i
    BY <1>2, <2>1 DEF Apart
  <2>3. \A m, j \in Nat : m % 2 = 1 /\ (m + 1) \div 2 = j => m = 2 * j - 1
    OBVIOUS
  <2>4. n \in Nat /\ (n + 1) \div 2 = i
    BY <1>4, <2>1, <2>2 DEF OfferTier
  <2>5. QED
    BY <1>4, <2>1, <2>3, <2>4
<1>8. own \in same
  BY <1>1, <1>6
<1>9. Maximum(same) = own
  <2>1. same = {own} /\ own \in Nat
    BY <1>1, <1>4, <1>7, <1>8
  <2> HIDE DEF same, own
  <2>2. QED
    BY <2>1 DEF Maximum
<1>10. QuotaFor(c, sym, amount, prices) = c.tiers[OfferTier(Maximum(same))].quota_bytes
  BY DEF QuotaFor, first
<1>11. QED
  BY <1>1, <1>9, <1>10
=============================================================================
