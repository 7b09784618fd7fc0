---------------------------- MODULE PriceService ----------------------------
(***************************************************************************)
(* The price service of one worker process (price_service.py): get_prices  *)
(* with its cache, the back-off after a failure, the two sources asked one *)
(* after the other, and the eviction.  A worker handles one request at a   *)
(* time, so at most one fetch is under way.  Times are kept as ages, so    *)
(* that the clock needs no bound.  What a price is does not matter here,   *)
(* only whether there is one and how old it is.                            *)
(***************************************************************************)
EXTENDS Integers, FiniteSets, SequencesExt

CONSTANTS
    Key,        \* the sets of symbols asked for
    CacheTtl,   \* cache_ttl
    BackOff,    \* the seconds added to now for _empty_cache_expiry
    MaxFetch,   \* the timeouts of the two sources together
    MaxSize,    \* _max_cache_size
    HasApiKey,  \* COINMARKETCAP_API_KEY is set
    MaxOutages  \* bound: how often a source goes down

ASSUME PriceAssumption ==
    /\ BackOff \in Nat \ {0}
    /\ CacheTtl \in Nat /\ CacheTtl >= BackOff
    /\ MaxFetch \in Nat
    /\ MaxSize \in Nat \ {0}
    /\ HasApiKey \in BOOLEAN
    /\ MaxOutages \in Nat
    /\ "nobody" \notin Key

VARIABLES
    entry,   \* _cache: per key, whether it holds prices, and the entry's age
    order,   \* the keys of _cache in the order they were inserted
    backoff, \* _empty_cache_expiry: the time left, zero if over, Off if absent
    fetch,   \* the call of get_prices that is under way
    answer,  \* what get_prices has just returned, if it has
    up,      \* external: the sources that work
    outages, \* bound: how many outages there have been
    fresh    \* history: time since the prices of a key were last obtained

vars == <<entry, order, backoff, fetch, answer, up, outages, fresh>>

Off == -1
NoEntry == [prices |-> FALSE, age |-> -1, lag |-> 0]
Idle == [at |-> "idle", key |-> "nobody", age |-> 0]
NoAnswer == [key |-> "nobody", value |-> "nothing", age |-> 0]

Cached(k) == entry[k] # NoEntry

\* lag is a history: how long the fetch had taken when the entry was stamped.
Entry == [prices : BOOLEAN, age : 0..CacheTtl, lag : 0..MaxFetch]

Value == {"prices", "empty"}
ValueOf(prices) == IF prices THEN "prices" ELSE "empty"

Init ==
    /\ entry = [k \in Key |-> NoEntry]
    /\ order = <<>>
    /\ backoff = [k \in Key |-> Off]
    /\ fetch = Idle
    /\ answer = NoAnswer
    /\ up = {"coingecko", "coinmarketcap"}
    /\ outages = 0
    /\ fresh = [k \in Key |-> CacheTtl]
-----------------------------------------------------------------------------
(***************************************************************************)
(* Outside: the sources fail and recover, time passes.                     *)
(***************************************************************************)
Fail(s) ==
    /\ s \in up
    /\ outages < MaxOutages                                         \* bound
    /\ up' = up \ {s}
    /\ outages' = outages + 1
    /\ answer' = NoAnswer
    /\ UNCHANGED <<entry, order, backoff, fetch, fresh>>

Recover(s) ==
    /\ s \notin up
    /\ up' = up \cup {s}
    /\ answer' = NoAnswer
    /\ UNCHANGED <<entry, order, backoff, fetch, outages, fresh>>

\* Ages past the time to live are not told apart.
Older(a, limit) == IF a < limit THEN a + 1 ELSE a

Tick ==
    /\ fetch.at # "idle" => fetch.age < MaxFetch
    /\ entry' = [k \in Key |-> IF Cached(k)
                               THEN [entry[k] EXCEPT !.age = Older(@, CacheTtl)]
                               ELSE NoEntry]
    /\ backoff' = [k \in Key |-> IF backoff[k] > 0 THEN backoff[k] - 1 ELSE backoff[k]]
    /\ fetch' = IF fetch.at = "idle" THEN fetch ELSE [fetch EXCEPT !.age = @ + 1]
    /\ fresh' = [k \in Key |-> Older(fresh[k], CacheTtl)]
    /\ answer' = NoAnswer
    /\ UNCHANGED <<order, up, outages>>
-----------------------------------------------------------------------------
(***************************************************************************)
(* get_prices.                                                             *)
(***************************************************************************)
\* Mutant: the time to live is not looked at while no back-off runs.
EffectiveTtlForever(k) == IF backoff[k] > 0 THEN backoff[k] ELSE CacheTtl + 1

\* While the back-off runs, what is left of it is the time to live.
EffectiveTtl(k) == IF backoff[k] > 0 THEN backoff[k] ELSE CacheTtl

Hit(k) == Cached(k) /\ entry[k].age < EffectiveTtl(k)

\* Mutant: a hit renews the entry.
GetCachedRenewing(k) ==
    /\ fetch.at = "idle"
    /\ Hit(k)
    /\ entry' = [entry EXCEPT ![k].age = 0]
    /\ answer' = [key |-> k, value |-> ValueOf(entry[k].prices),
                  age |-> entry[k].age + entry[k].lag]
    /\ UNCHANGED <<order, backoff, fetch, up, outages, fresh>>

GetCached(k) ==
    /\ fetch.at = "idle"
    /\ Hit(k)
    /\ answer' = [key |-> k, value |-> ValueOf(entry[k].prices),
                  age |-> entry[k].age + entry[k].lag]
    /\ UNCHANGED <<entry, order, backoff, fetch, up, outages, fresh>>

\* Mutant: a miss leaves the end of the back-off in place.
StartFetchKeeping(k) ==
    /\ fetch.at = "idle"
    /\ ~Hit(k)
    /\ fetch' = [at |-> "coingecko", key |-> k, age |-> 0]
    /\ answer' = NoAnswer
    /\ UNCHANGED <<entry, order, backoff, up, outages, fresh>>

\* A miss on a key that is cached ends its back-off.
StartFetch(k) ==
    /\ fetch.at = "idle"
    /\ ~Hit(k)
    /\ backoff' = IF Cached(k) THEN [backoff EXCEPT ![k] = Off] ELSE backoff
    /\ fetch' = [at |-> "coingecko", key |-> k, age |-> 0]
    /\ answer' = NoAnswer
    /\ UNCHANGED <<entry, order, up, outages, fresh>>

\* The position of the key to drop: the first in the dictionary that is in no
\* back-off, else the one with the oldest entry.
Victim(ord, ent, off) ==
    LET free == {i \in DOMAIN ord : off[ord[i]] = Off}
        aged == {i \in DOMAIN ord : \A j \in DOMAIN ord : ent[ord[i]].age >= ent[ord[j]].age}
        from == IF free # {} THEN free ELSE aged
    IN  CHOOSE i \in from : \A j \in from : i <= j

\* The dictionaries before the cache is cut to its size.
Ordered(k) == IF Cached(k) THEN order ELSE Append(order, k)
Entered(k, prices) ==
    IF prices \/ ~Cached(k)
    THEN [entry EXCEPT ![k] = [prices |-> prices, age |-> 0, lag |-> fetch.age]]
    ELSE entry
BackedOff(k, prices) == IF prices THEN backoff ELSE [backoff EXCEPT ![k] = BackOff]
Freshened(k, prices) == IF prices THEN [fresh EXCEPT ![k] = 0] ELSE fresh

\* Mutant: the back-off of a key outlives its eviction.
StoreLeavingBackOff(k, prices) ==
    LET ord == Ordered(k)
        ent == Entered(k, prices)
        off == BackedOff(k, prices)
        was == Freshened(k, prices)
        i == Victim(ord, ent, off)
    IN  IF Len(ord) <= MaxSize
        THEN order' = ord /\ entry' = ent /\ backoff' = off /\ fresh' = was
        ELSE /\ order' = RemoveAt(ord, i)
             /\ entry' = [ent EXCEPT ![ord[i]] = NoEntry]
             /\ backoff' = off
             /\ fresh' = [was EXCEPT ![ord[i]] = CacheTtl]

\* The end of get_prices: an empty result does not replace an older entry, it
\* starts the back-off; then the cache is cut to its size.
Store(k, prices) ==
    LET ord == Ordered(k)
        ent == Entered(k, prices)
        off == BackedOff(k, prices)
        was == Freshened(k, prices)
        i == Victim(ord, ent, off)
    IN  IF Len(ord) <= MaxSize
        THEN order' = ord /\ entry' = ent /\ backoff' = off /\ fresh' = was
        ELSE /\ order' = RemoveAt(ord, i)
             /\ entry' = [ent EXCEPT ![ord[i]] = NoEntry]
             /\ backoff' = [off EXCEPT ![ord[i]] = Off]
             /\ fresh' = [was EXCEPT ![ord[i]] = CacheTtl]

\* get_prices returns what the sources gave, never the older entry.
Return(prices) ==
    /\ Store(fetch.key, prices)
    /\ answer' = [key |-> fetch.key, value |-> ValueOf(prices), age |-> fetch.age]
    /\ fetch' = Idle

AskCoinGecko ==
    /\ fetch.at = "coingecko"
    /\ \/ "coingecko" \in up /\ Return(TRUE)
       \/ "coingecko" \notin up /\ ~HasApiKey /\ Return(FALSE)
    /\ UNCHANGED <<up, outages>>

FallBack ==
    /\ fetch.at = "coingecko"
    /\ "coingecko" \notin up
    /\ HasApiKey
    /\ fetch' = [fetch EXCEPT !.at = "coinmarketcap"]
    /\ answer' = NoAnswer
    /\ UNCHANGED <<entry, order, backoff, up, outages, fresh>>

AskCoinMarketCap ==
    /\ fetch.at = "coinmarketcap"
    /\ Return("coinmarketcap" \in up)
    /\ UNCHANGED <<up, outages>>

GetPrices(k) == GetCached(k) \/ StartFetch(k)
Answered == AskCoinGecko \/ FallBack \/ AskCoinMarketCap

Next ==
    \/ \E k \in Key : GetCached(k) \/ StartFetch(k)
    \/ AskCoinGecko
    \/ FallBack
    \/ AskCoinMarketCap
    \/ Tick
    \/ \E s \in {"coingecko", "coinmarketcap"} : Fail(s) \/ Recover(s)

Spec == Init /\ [][Next]_vars

\* Time passes, a source answers or times out, and the pages that are open
\* keep asking for prices (verification does so on every check).
FairSpec ==
    /\ Spec
    /\ WF_vars(Tick)
    /\ WF_vars(Answered)
    /\ \A k \in Key : SF_vars(GetPrices(k))
-----------------------------------------------------------------------------
(***************************************************************************)
(* Properties.                                                             *)
(***************************************************************************)
\* Every variable keeps its type, and the three dictionaries agree on what is
\* cached.
TypeOK ==
    /\ entry \in [Key -> {NoEntry} \cup Entry]
    /\ \A i \in DOMAIN order : Cached(order[i])
    /\ backoff \in [Key -> Off..BackOff]
    /\ \A k \in Key : backoff[k] # Off => Cached(k)
    /\ fetch.at \in {"idle", "coingecko", "coinmarketcap"}
    /\ fetch.key \in Key \cup {"nobody"}
    /\ fetch.at # "idle" => fetch.key \in Key
    /\ fetch.age \in 0..MaxFetch
    /\ fresh \in [Key -> 0..CacheTtl]

\* As a cache: an entry past its time to live is as good as none.
HeldAs(k) ==
    IF entry[k].age \in 0..(CacheTtl - 1)
    THEN [value |-> ValueOf(entry[k].prices), age |-> entry[k].age + entry[k].lag]
    ELSE [value |-> "nothing", age |-> 0]

Fresh == INSTANCE FreshCache WITH
    held <- [k \in Key |-> HeldAs(k)],
    asked <- fetch.key,
    MaxAge <- CacheTtl + MaxFetch

\* Outages, fallbacks, back-offs and evictions in any order: a price that
\* get_prices returns was obtained less than cache_ttl and one fetch ago, and
\* no more than _max_cache_size live answers are kept (price_service.py:64-72,
\* 86-109).
FreshSpec == Fresh!Spec

\* Prices once obtained are used for the whole time to live: whatever back-off
\* preceded them, the sources are not asked again before, unless the key was
\* evicted (price_service.py:65-72, 88-93).
RefreshSpaced ==
    [][\A k \in Key : StartFetch(k) /\ Cached(k) => fresh[k] >= CacheTtl]_vars

\* An outage is not remembered for good: once CoinGecko works for good, a key
\* that is asked for again and again gets prices again and again.
Recovery ==
    <>[]("coingecko" \in up) =>
        \A k \in Key : []<>(answer.key = k /\ answer.value = "prices")
=============================================================================
