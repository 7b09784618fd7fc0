---------------------------- MODULE Verification ----------------------------
(***************************************************************************)
(* The verification of payments in one worker process (verification.py):   *)
(* the cache of answers, the three lists of the block explorer read one    *)
(* after the other and page by page, the budget of time, and the amounts,  *)
(* converted at the prices of the moment.  A worker handles one request at *)
(* a time.  Every client pays what the page has just asked for (Catalog);  *)
(* then prices move.  One step of time is one block.  The time stamps of   *)
(* transfers are compared with the invoice's in Ledger.                    *)
(***************************************************************************)
EXTENDS Catalog

CONSTANTS
    Chain,      \* the configuration of the one chain modelled
    Addr,       \* deposit addresses
    Market,     \* the prices that occur, a set of functions from symbols
    Required,   \* REQUIRED_CONFIRMATIONS
    Ttl,        \* VERIFY_CACHE_SECONDS
    MaxSize,    \* VERIFY_CACHE_MAX_SIZE
    Budget,     \* the seconds all endpoints have together
    Pages,      \* max_pages
    PageSize,   \* external: items on a page of the explorer
    PriceLock,  \* PRICE_LOCK_DURATION
    MaxTx,      \* bound: transfers
    MaxTrouble  \* bound: errors and seconds of waiting

ASSUME VerificationAssumption ==
    /\ {Required, Ttl, MaxSize, Budget, Pages, PageSize} \subseteq Nat \ {0}
    /\ {MaxTx, MaxTrouble, PriceLock} \subseteq Nat
    /\ {"nobody"} \cap Addr = {}
    /\ Len(Chain.tiers) \in Nat

VARIABLES
    cache,   \* _store: per address that has an entry, the answer and its age
    order,   \* the order of _store: <<a, b>> if b was used after a
    request, \* the call of verify_payment_on_chain that is under way
    chain,   \* external: the transfers, the oldest first
    answer,  \* what verify_payment_on_chain has just returned, if it has
    trouble  \* bound: errors and seconds of waiting so far

vars == <<cache, order, request, chain, answer, trouble>>

Symbols == DOMAIN Chain.tokens
NoPrices == [s \in Symbols |-> 0]
AllPrices == Market \cup {NoPrices}

\* What the page can ask for, and what each amount is good for at which prices;
\* a table, so that TLC computes it once.
Amounts == {PageQuote(Chain, i, s, prices) :
                i \in DOMAIN Chain.tiers, s \in Symbols, prices \in Market}
Refused == -1
Quota == [s \in Symbols |-> [amount \in Amounts |-> [prices \in AllPrices |->
             IF Accepts(Chain, s, amount, prices) THEN QuotaFor(Chain, s, amount, prices)
             ELSE Refused]]]
QuotaOf(tx, prices) == Quota[tx.sym][tx.amount][prices]

Endpoints == <<"transactions", "internal-transactions", "token-transfers">>

\* Where the explorer lists a transfer of a token.
KindsOf(s) ==
    IF Chain.tokens[s].type = "native" THEN {Endpoints[1], Endpoints[2]} ELSE {Endpoints[3]}

\* An answer, with the prices it was computed at; whole is a history: no
\* endpoint was left out for lack of time.
Waiting(prices, whole) ==
    [is |-> "waiting", tx |-> 0, quota |-> 0, at |-> prices, whole |-> whole]
Unavailable(prices) == [Waiting(prices, FALSE) EXCEPT !.is = "unavailable"]
Verified(tx, prices) ==
    [is |-> "verified", tx |-> tx, whole |-> TRUE, at |-> prices,
     quota |-> QuotaOf(chain[tx], prices)]

\* The first page is asked for without a cursor: everything is before it.
NoCursor == MaxTx + 1

NoAnswer == [key |-> "nobody", value |-> Waiting(NoPrices, FALSE), age |-> 0]
Idle == [endpoint |-> 0, addr |-> "nobody", page |-> 0, before |-> 0, age |-> 0,
         at |-> NoPrices, whole |-> TRUE]

Init ==
    /\ cache = [a \in {} |-> NoAnswer]
    /\ order = {}
    /\ request = Idle
    /\ chain = <<>>
    /\ answer = NoAnswer
    /\ trouble = 0
-----------------------------------------------------------------------------
(***************************************************************************)
(* Outside: clients pay, time passes.  Prices may have moved whenever they *)
(* are read.                                                               *)
(***************************************************************************)
\* The client sends what the page asks for at this moment.  Its transaction may
\* fail.
Pay(a, i, s, kind, ok, prices) ==
    /\ Len(chain) < MaxTx                                           \* bound
    /\ kind \in KindsOf(s)
    /\ ok \/ kind = "transactions"
    /\ PageQuote(Chain, i, s, prices) > 0
    /\ chain' = Append(chain,
           [to |-> a, kind |-> kind, sym |-> s, tier |-> i, ok |-> ok, age |-> 0,
            amount |-> PageQuote(Chain, i, s, prices)])
    /\ answer' = NoAnswer
    /\ UNCHANGED <<cache, order, request, trouble>>

\* Ages past Horizon are not told apart.
Horizon == Maximum({Required + Ttl, Required + Budget + 1, Ttl + Budget})
Older(a) == IF a < Horizon THEN a + 1 ELSE a

Confirmations(tx) == IF tx.age < Required THEN tx.age ELSE Required

Tick ==
    /\ request # Idle => request.age < Budget /\ trouble < MaxTrouble   \* bound
    /\ trouble' = IF request # Idle THEN trouble + 1 ELSE trouble
    /\ request' = IF request # Idle THEN [request EXCEPT !.age = @ + 1] ELSE request
    /\ cache' = [a \in DOMAIN cache |-> [cache[a] EXCEPT !.age = Older(@)]]
    /\ chain' = [n \in DOMAIN chain |-> [chain[n] EXCEPT !.age = Older(@)]]
    /\ answer' = NoAnswer
    /\ UNCHANGED order
-----------------------------------------------------------------------------
(***************************************************************************)
(* _VerifyCache.                                                           *)
(***************************************************************************)
Cached(a) == a \in DOMAIN cache

\* Mutant: an entry is used once more when it has just expired.
HitLate(a) == Cached(a) /\ cache[a].age <= Ttl

Hit(a) == Cached(a) /\ cache[a].age < Ttl

\* Mutant: the key is not taken out before it is put at the end.
MovedTwice(keys, a) == (order \cap (keys \X keys)) \cup (keys \X {a})

\* move_to_end: the order of these keys, with a as the most recently used.
Moved(keys, a) ==
    LET others == keys \ {a} IN (order \cap (others \X others)) \cup (others \X {a})

\* get: an entry that is used becomes the most recently used, one that has
\* expired is deleted.
Look(a) ==
    IF Hit(a)
    THEN order' = Moved(DOMAIN cache, a) /\ UNCHANGED cache
    ELSE LET others == DOMAIN cache \ {a}
         IN  cache' = [b \in others |-> cache[b]] /\ order' = order \cap (others \X others)

Oldest(keys) == CHOOSE a \in keys : \A b \in keys \ {a} : <<a, b>> \in order

\* Mutant: the entry is stamped when the fetch has ended.
StoreLate(a, value) ==
    LET live == {b \in DOMAIN cache \ {a} : cache[b].age < Ttl}
        kept == IF Cardinality(live) < MaxSize THEN live ELSE live \ {Oldest(live)}
    IN  /\ cache' = [b \in kept \cup {a} |->
                        IF b = a THEN [value |-> value, age |-> 0] ELSE cache[b]]
        /\ order' = Moved(kept \cup {a}, a)

\* set, with the time the request began: what had expired then goes, and then
\* the least recently used.
Store(a, value) ==
    LET live == {b \in DOMAIN cache \ {a} : cache[b].age - request.age < Ttl}
        kept == IF Cardinality(live) < MaxSize THEN live ELSE live \ {Oldest(live)}
    IN  /\ cache' = [b \in kept \cup {a} |->
                        IF b = a THEN [value |-> value, age |-> request.age] ELSE cache[b]]
        /\ order' = Moved(kept \cup {a}, a)
-----------------------------------------------------------------------------
(***************************************************************************)
(* verify_payment_on_chain.                                                *)
(***************************************************************************)
\* The prices are read first, also for an answer from the cache.
Begin(a, prices) ==
    /\ request = Idle
    /\ Look(a)
    /\ IF Hit(a)
       THEN /\ answer' = [key |-> a, value |-> cache[a].value, age |-> cache[a].age]
            /\ UNCHANGED request
       ELSE /\ request' = [endpoint |-> 1, addr |-> a, page |-> 1,
                           before |-> NoCursor, age |-> 0, at |-> prices, whole |-> TRUE]
            /\ answer' = NoAnswer

Check(a) ==
    /\ \/ (\E prices \in Market : Begin(a, prices)) /\ UNCHANGED trouble
       \/ /\ trouble < MaxTrouble                                   \* bound
          /\ Begin(a, NoPrices)
          /\ trouble' = trouble + 1
    /\ UNCHANGED chain

\* The answer is kept, stamped with the beginning of the request.
Finish(value) ==
    /\ Store(request.addr, value)
    /\ answer' = [key |-> request.addr, value |-> value, age |-> request.age]
    /\ request' = Idle

\* An endpoint that gave nothing is followed by the next one.
NextEndpoint(whole) ==
    IF request.endpoint < 3
    THEN /\ request' = [request EXCEPT !.endpoint = @ + 1, !.page = 1,
                                       !.before = NoCursor, !.whole = whole]
         /\ answer' = NoAnswer
         /\ UNCHANGED <<cache, order>>
    ELSE Finish(Waiting(request.at, whole))

\* The items the explorer has left for this request, and those on the page.
Listed ==
    {n \in DOMAIN chain : /\ n < request.before
                          /\ chain[n].to = request.addr
                          /\ chain[n].kind = Endpoints[request.endpoint]}
OnPage == {n \in Listed : Cardinality({m \in Listed : m > n}) < PageSize}

\* _match_tx and _check_token_transfers: status and confirmations are looked
\* at in the list of transactions only.
Matches(tx, prices) ==
    /\ tx.kind = "transactions" => tx.ok /\ Confirmations(tx) >= Required
    /\ QuotaOf(tx, prices) # Refused

\* No time left for this endpoint: remaining < 1.
SkipEndpoint ==
    /\ request # Idle
    /\ request.age >= Budget
    /\ NextEndpoint(FALSE)
    /\ UNCHANGED <<chain, trouble>>

\* A page that cannot be read ends the whole verification: what fetch_pages
\* returns is not empty, so the other endpoints are not asked.
FailPage ==
    /\ request # Idle
    /\ request.age < Budget
    /\ trouble < MaxTrouble                                         \* bound
    /\ trouble' = trouble + 1
    /\ Finish(Unavailable(request.at))
    /\ UNCHANGED chain

Matching == {n \in OnPage : Matches(chain[n], request.at)}

\* Mutant: of the pages of an endpoint only the first is read.
ReadPageFirst ==
    /\ request # Idle
    /\ request.age < Budget
    /\ \/ \E n \in Matching :
            /\ n = Maximum(Matching)
            /\ Finish(Verified(n, request.at))
       \/ /\ Matching = {}
          /\ NextEndpoint(request.whole)
    /\ UNCHANGED <<chain, trouble>>

\* The newest transfer that matches is the answer; else the next page is read,
\* if there is one and it is not beyond the limit, else the next endpoint.
ReadPage ==
    /\ request # Idle
    /\ request.age < Budget
    /\ \/ \E n \in Matching :
            /\ n = Maximum(Matching)
            /\ Finish(Verified(n, request.at))
       \/ /\ Matching = {}
          /\ OnPage # Listed
          /\ request.page < Pages
          /\ request' = [request EXCEPT !.page = @ + 1, !.before = Minimum(OnPage)]
          /\ answer' = NoAnswer
          /\ UNCHANGED <<cache, order>>
       \/ /\ Matching = {}
          /\ OnPage = Listed \/ request.page >= Pages
          /\ NextEndpoint(request.whole)
    /\ UNCHANGED <<chain, trouble>>

Proceed == ReadPage \/ SkipEndpoint \/ FailPage

Next ==
    \/ \E a \in Addr :
        \/ Check(a)
        \/ \E i \in DOMAIN Chain.tiers, s \in Symbols, kind \in {Endpoints[n] : n \in 1..3},
              ok \in BOOLEAN, prices \in Market : Pay(a, i, s, kind, ok, prices)
    \/ Tick
    \/ ReadPage
    \/ SkipEndpoint
    \/ FailPage

Spec == Init /\ [][Next]_vars

\* Time passes, the explorer answers or times out, and the page of every client
\* that waits keeps asking.
FairSpec ==
    /\ Spec
    /\ WF_vars(Tick)
    /\ WF_vars(Proceed)
    /\ \A a \in Addr : SF_vars(Check(a))
-----------------------------------------------------------------------------
(***************************************************************************)
(* Properties.                                                             *)
(***************************************************************************)
\* The variables keep their types, and the order of the cache is one of all its
\* keys.
TypeOK ==
    /\ DOMAIN cache \subseteq Addr
    /\ \A a \in DOMAIN cache :
        /\ cache[a].age \in 0..Horizon
        /\ cache[a].value.is \in {"verified", "waiting", "unavailable"}
        /\ cache[a].value.tx \in 0..Len(chain)
    /\ order \subseteq (DOMAIN cache) \X (DOMAIN cache)
    /\ \A a, b \in DOMAIN cache : <<a, b>> \in order <=> a # b /\ <<b, a>> \notin order
    /\ \A a, b, c \in DOMAIN cache :
           <<a, b>> \in order /\ <<b, c>> \in order => <<a, c>> \in order
    /\ request # Idle => request.addr \in Addr /\ request.endpoint \in 1..3
    /\ request.age \in 0..Budget
    /\ request.page \in 0..Pages
    /\ request.before \in 0..NoCursor
    /\ Len(chain) <= MaxTx
    /\ trouble \in 0..MaxTrouble

HeldAs(a) ==
    IF Cached(a) /\ cache[a].age < Ttl
    THEN [value |-> cache[a].value.is, age |-> cache[a].age]
    ELSE [value |-> "nothing", age |-> 0]

Fresh == INSTANCE FreshCache WITH
    Key <- Addr,
    Value <- {"verified", "waiting", "unavailable"},
    held <- [a \in Addr |-> HeldAs(a)],
    asked <- request.addr,
    answer <- IF answer = NoAnswer
              THEN [key |-> "nobody", value |-> "nothing", age |-> 0]
              ELSE [answer EXCEPT !.value = answer.value.is],
    MaxAge <- Ttl,
    MaxFetch <- Budget

\* In any order of checks, errors and delays, an answer from the cache was
\* computed by a request that began less than VERIFY_CACHE_SECONDS ago, however
\* long that request took (verification.py:25-57, 199-208, 261).
FreshSpec == Fresh!Spec

\* How long a transfer has had what it needs to match.
Settled(tx) == IF tx.kind = "transactions" THEN tx.age - Required ELSE tx.age

\* It is among the newest items that the pages can show.
WithinReach(i) ==
    Cardinality({j \in (i + 1)..Len(chain) : /\ chain[j].to = chain[i].to
                                             /\ chain[j].kind = chain[i].kind})
        < Pages * PageSize

\* The transfer was there, ready to match, before the check began.
Overlooked(i) ==
    /\ answer.value.is = "waiting"
    /\ answer.value.whole
    /\ chain[i].to = answer.key
    /\ chain[i].kind = "transactions" => chain[i].ok
    /\ WithinReach(i)
    /\ Settled(chain[i]) > answer.age
    /\ Settled(chain[i]) < PriceLock

\* "Waiting for a transaction", from the cache or after reading all pages of all
\* endpoints while new transfers push the older ones down, is only said when no
\* transfer within reach had settled before the check began that matches at the
\* check's prices (verification.py:113-170, 206-261).
NotMissed ==
    answer # NoAnswer =>
        \A i \in DOMAIN chain :
            Overlooked(i) => QuotaOf(chain[i], answer.value.at) = Refused

\* Although prices move between the page, the transfer and the check, an answer
\* names a transfer to the address that was asked about and grants the quota of
\* the tier its sender paid for (verification.py:95-110, 187-197).
PaidAsCredited ==
    answer.value.is = "verified" =>
        LET tx == chain[answer.value.tx] IN
        /\ tx.to = answer.key
        /\ answer.value.quota = Chain.tiers[tx.tier].quota_bytes

\* A payment that is good at any of the prices that occur is found in the end,
\* unless newer transfers bury it: neither cached answers nor errors nor slow
\* endpoints hide it for good once they stop (verification.py:206-262).
Good(a) == \E i \in DOMAIN chain :
    /\ chain[i].to = a
    /\ chain[i].kind = "transactions" => chain[i].ok
    /\ \A prices \in Market : QuotaOf(chain[i], prices) # Refused
    /\ WithinReach(i)

Found(a) == answer.key = a /\ answer.value.is = "verified"

Detected == \A a \in Addr : Good(a) ~> (Found(a) \/ ~Good(a))

\* README.md:43 asks for REQUIRED_CONFIRMATIONS block confirmations.
AcceptedConfirmed ==
    answer.value.is = "verified" => Confirmations(chain[answer.value.tx]) >= Required

\* README.md:122 has PRICE_LOCK_MODE "lock": for PRICE_LOCK_DURATION the amount
\* the page has asked for is good, whatever prices do.
LockHonoured ==
    answer # NoAnswer => \A i \in DOMAIN chain : ~Overlooked(i)
=============================================================================
