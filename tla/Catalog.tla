------------------------------ MODULE Catalog ------------------------------
(***************************************************************************)
(* What is on sale: the chains file (chains.py), the amount a page asks    *)
(* for (app.py) and the amounts the verifier takes for a tier              *)
(* (verification.py), both converted by convert_usd_to_token.  US dollars  *)
(* and prices are in cents, a token's amount in its smallest unit.         *)
(***************************************************************************)
EXTENDS Integers, Sequences, FiniteSets

CONSTANTS
    DEFAULT_TOKEN,
    NativeDecimals, \* the 18 decimals of a native token
    Erc20Decimals,  \* the 6 decimals the verifier takes for another token
    Tolerance       \* per symbol, the percents an amount may be off

Absent == -1
Minimum(S) == CHOOSE n \in S : \A m \in S : n <= m
Maximum(S) == CHOOSE n \in S : \A m \in S : n >= m
Abs(n) == IF n < 0 THEN -n ELSE n
-----------------------------------------------------------------------------
(***************************************************************************)
(* The chains file.  A chain that is not valid is skipped; without a valid *)
(* chain, or without a readable file, the built-in chains are used, and so *)
(* they are when the validation of a chain raises.                         *)
(***************************************************************************)
ValidTier(t) ==
    /\ t.quota_bytes # Absent
    /\ t.amount_usd # Absent \/ t.amount_wei # Absent
    /\ t.amount_usd # Absent => t.amount_usd > 0
    /\ t.amount_wei # Absent => t.amount_wei > 0

\* named: the required keys are there; explorer: what stands for the address of
\* the explorer: one of its addresses, another text, or no text at all.
WellFormed(c) ==
    /\ c.named
    /\ c.tiers # <<>>
    /\ \A i \in DOMAIN c.tiers : ValidTier(c.tiers[i])

ValidChain(c) == WellFormed(c) /\ c.explorer = "blockscout"

\* The pattern is matched last, and raises on what is no text.
Unreadable(c) == WellFormed(c) /\ c.explorer = "no text"

\* A file is a function from names to chains; one that is missing or not a
\* dictionary holds no chain.  A chain that raises takes the whole file with it.
LoadChains(file, defaults) ==
    LET valid == {id \in DOMAIN file : ValidChain(file[id])}
    IN  IF valid = {} \/ \E id \in DOMAIN file : Unreadable(file[id])
        THEN defaults
        ELSE [id \in valid |-> file[id]]

ChainConfig(chains, id, default) ==
    IF id \in DOMAIN chains THEN chains[id]
    ELSE IF default \in DOMAIN chains THEN chains[default]
    ELSE chains[CHOOSE other \in DOMAIN chains : TRUE]

\* tiers are counted from zero; what the page asks for falls back to the first.
SelectedTier(c, wanted) == IF wanted \in 0..(Len(c.tiers) - 1) THEN wanted + 1 ELSE 1

SelectedToken(c, wanted) == IF wanted \in DOMAIN c.tokens THEN wanted ELSE DEFAULT_TOKEN

NeededSymbols(c) ==
    {s \in DOMAIN c.tokens : \E i \in DOMAIN c.tiers : c.tiers[i].amount_usd # Absent}
-----------------------------------------------------------------------------
(***************************************************************************)
(* Amounts.  Zero stands for "no amount": the verifier skips it as well.   *)
(***************************************************************************)
Rounded(n, d) == (2 * n + d) \div (2 * d)

ConvertUsd(usd, price, decimals) ==
    IF price > 0 THEN Rounded(usd * 10 ^ decimals, price) ELSE 0

Usd(t) == IF t.amount_usd = Absent THEN 0 ELSE t.amount_usd

NativeToken == [type |-> "native", decimals |-> Absent]
TokenInfo(c, sym) == IF sym \in DOMAIN c.tokens THEN c.tokens[sym] ELSE NativeToken

\* The page, its list of tiers and its QR code count every token that does not
\* say otherwise in 18 decimals.
PageDecimals(info) ==
    IF info.decimals # Absent THEN info.decimals ELSE NativeDecimals

\* The verifier, and the invoice, take 6 for one that is not native.
VerifierDecimals(info) ==
    IF info.decimals # Absent THEN info.decimals
    ELSE IF info.type = "native" THEN NativeDecimals ELSE Erc20Decimals

\* What the page asks the client to pay, at these prices.
PageQuote(c, i, sym, prices) ==
    ConvertUsd(Usd(c.tiers[i]), prices[sym], PageDecimals(TokenInfo(c, sym)))

\* The entries of tier_map in their order: for each tier the amount converted
\* from dollars, then the fixed amount of wei.
Offers(c) == 1..(2 * Len(c.tiers))
OfferTier(n) == (n + 1) \div 2

Offer(c, n, sym, prices) ==
    LET t == c.tiers[OfferTier(n)]
    IN  IF n % 2 = 1
        THEN IF sym \in DOMAIN c.tokens
             THEN ConvertUsd(Usd(t), prices[sym], VerifierDecimals(c.tokens[sym]))
             ELSE 0
        ELSE IF sym = "ETH" /\ t.amount_wei # Absent THEN t.amount_wei ELSE 0

\* Mutant: whatever is at least the amount will do.
WithinFrom(sym, received, expected) ==
    100 * (expected - received) <= Tolerance[sym] * expected

Within(sym, received, expected) ==
    100 * Abs(received - expected) <= Tolerance[sym] * expected

Accepting(c, sym, amount, prices) ==
    {n \in Offers(c) : LET e == Offer(c, n, sym, prices) IN e > 0 /\ Within(sym, amount, e)}

Accepts(c, sym, amount, prices) == Accepting(c, sym, amount, prices) # {}

\* The first entry that matches decides; of two tiers with the same amount the
\* later one has replaced the quota of the earlier.
QuotaFor(c, sym, amount, prices) ==
    LET first == Minimum(Accepting(c, sym, amount, prices))
        same == {n \in Offers(c) : /\ n % 2 = first % 2
                                   /\ Offer(c, n, sym, prices) = Offer(c, first, sym, prices)}
    IN  c.tiers[OfferTier(Maximum(same))].quota_bytes
=============================================================================
