------------------------- MODULE PriceServiceProofs -------------------------
(***************************************************************************)
(* The price service for any number of keys, any size of the cache and any *)
(* times: the dictionaries agree, prices are not asked for again before    *)
(* their time, and the service implements FreshCache.                      *)
(***************************************************************************)
EXTENDS PriceService, FiniteSetTheorems, SequenceTheorems, WellFoundedInduction, TLAPS

-----------------------------------------------------------------------------
(***************************************************************************)
(* The order of the dictionary and the key that is dropped.                *)
(***************************************************************************)
LEMMA LeastExists ==
    ASSUME NEW S, S \subseteq Nat, S # {}
    PROVE  \E x \in S : \A y \in S : x <= y
<1>1. PICK x \in S : \A y \in S : ~(<<y, x>> \in OpToRel(<, Nat))
  BY NatLessThanWellFounded, WFMin
<1>2. ASSUME NEW y \in S PROVE x <= y
  <2>1. ~(y < x)
    BY <1>1, <1>2 DEF OpToRel
  <2>2. QED
    BY <2>1
<1>3. QED
  BY <1>2

\* Every key is in the list once.
Once(ord) == \A i, j \in DOMAIN ord : ord[i] = ord[j] => i = j

LEMMA Removed ==
    ASSUME NEW ord \in Seq(Key), Once(ord), NEW i \in DOMAIN ord
    PROVE  /\ RemoveAt(ord, i) \in Seq(Key)
           /\ Len(RemoveAt(ord, i)) = Len(ord) - 1
           /\ Once(RemoveAt(ord, i))
           /\ \A j \in DOMAIN RemoveAt(ord, i) :
                  \E n \in DOMAIN ord : n # i /\ RemoveAt(ord, i)[j] = ord[n]
           /\ \A n \in DOMAIN ord : n # i =>
                  \E j \in DOMAIN RemoveAt(ord, i) : RemoveAt(ord, i)[j] = ord[n]
<1> DEFINE a == SubSeq(ord, 1, i - 1)
           b == SubSeq(ord, i + 1, Len(ord))
           cut == RemoveAt(ord, i)
<1>1. i \in 1..Len(ord) /\ Len(ord) \in Nat /\ DOMAIN ord = 1..Len(ord)
  OBVIOUS
<1>2. /\ a \in Seq(Key) /\ Len(a) = i - 1
      /\ \A j \in 1..(i - 1) : a[j] = ord[j]
  BY <1>1, SubSeqProperties
<1>3. /\ b \in Seq(Key) /\ Len(b) = Len(ord) - i
      /\ \A j \in 1..(Len(ord) - i) : b[j] = ord[i + j]
  BY <1>1, SubSeqProperties
<1>4. cut = a \o b
  BY DEF RemoveAt
<1> HIDE DEF a, b, cut
<1>5. /\ cut \in Seq(Key) /\ Len(cut) = Len(ord) - 1
      /\ \A j \in 1..(Len(ord) - 1) : cut[j] = IF j < i THEN ord[j] ELSE ord[j + 1]
  <2>1. /\ cut \in Seq(Key) /\ Len(cut) = Len(a) + Len(b)
        /\ \A j \in 1..(Len(a) + Len(b)) : cut[j] = IF j <= Len(a) THEN a[j] ELSE b[j - Len(a)]
    BY <1>2, <1>3, <1>4, ConcatProperties
  <2>2. Len(a) + Len(b) = Len(ord) - 1
    BY <1>1, <1>2, <1>3
  <2>3. ASSUME NEW j \in 1..(Len(ord) - 1)
        PROVE  cut[j] = IF j < i THEN ord[j] ELSE ord[j + 1]
    <3>1. CASE j < i
      <4>1. j \in 1..(i - 1) /\ j <= Len(a) /\ j \in 1..(Len(a) + Len(b))
        BY <1>1, <1>2, <2>2, <3>1
      <4>2. QED
        BY <1>2, <2>1, <3>1, <4>1
    <3>2. CASE ~(j < i)
      <4>1. /\ j - (i - 1) \in 1..(Len(ord) - i) /\ ~(j <= Len(a))
            /\ j \in 1..(Len(a) + Len(b)) /\ i + (j - (i - 1)) = j + 1
        BY <1>1, <1>2, <2>2, <3>2
      <4>2. cut[j] = b[j - (i - 1)]
        BY <1>2, <2>1, <4>1
      <4>3. QED
        BY <1>3, <3>2, <4>1, <4>2
    <3>3. QED
      BY <3>1, <3>2
  <2>4. QED
    BY <2>1, <2>2, <2>3
<1>6. DOMAIN cut = 1..(Len(ord) - 1)
  BY <1>1, <1>5
<1>7. ASSUME NEW j \in DOMAIN cut, NEW n \in DOMAIN cut, cut[j] = cut[n] PROVE j = n
  <2> DEFINE At(x) == IF x < i THEN x ELSE x + 1
  <2>1. /\ At(j) \in DOMAIN ord /\ At(n) \in DOMAIN ord
        /\ cut[j] = ord[At(j)] /\ cut[n] = ord[At(n)]
    BY <1>1, <1>5, <1>6
  <2>2. At(j) = At(n)
    BY <1>7, <2>1 DEF Once
  <2>3. QED
    BY <1>1, <1>6, <2>2
<1>8. ASSUME NEW j \in DOMAIN cut PROVE \E n \in DOMAIN ord : n # i /\ cut[j] = ord[n]
  BY <1>1, <1>5, <1>6
<1>9. ASSUME NEW n \in DOMAIN ord, n # i PROVE \E j \in DOMAIN cut : cut[j] = ord[n]
  <2>1. CASE n < i
    BY <1>1, <1>5, <1>6, <2>1
  <2>2. CASE n > i
    <3>1. n - 1 \in DOMAIN cut /\ cut[n - 1] = ord[n]
      BY <1>1, <1>5, <1>6, <2>2
    <3>2. QED
      BY <3>1
  <2>3. QED
    BY <1>1, <1>9, <2>1, <2>2
<1>10. QED
  BY <1>5, <1>7, <1>8, <1>9 DEF Once, cut

\* Something can be dropped from a list that is not empty.
LEMMA VictimListed ==
    ASSUME NEW ord \in Seq(Key), ord # <<>>, NEW off,
           NEW ent, \A i \in DOMAIN ord : ent[ord[i]].age \in 0..CacheTtl
    PROVE  Victim(ord, ent, off) \in DOMAIN ord
<1> DEFINE free == {i \in DOMAIN ord : off[ord[i]] = Off}
           aged == {i \in DOMAIN ord : \A j \in DOMAIN ord : ent[ord[i]].age >= ent[ord[j]].age}
           from == IF free # {} THEN free ELSE aged
           young == {CacheTtl - ent[ord[i]].age : i \in DOMAIN ord}
<1>1. DOMAIN ord # {} /\ DOMAIN ord \subseteq Nat /\ CacheTtl \in Nat
  BY PriceAssumption
<1>2. aged # {}
  <2>1. young \subseteq Nat /\ young # {}
    BY <1>1
  <2>2. PICK x \in young : \A y \in young : x <= y
    BY <2>1, LeastExists
  <2>3. PICK i \in DOMAIN ord : x = CacheTtl - ent[ord[i]].age
    BY <2>2
  <2>4. ASSUME NEW j \in DOMAIN ord PROVE ent[ord[i]].age >= ent[ord[j]].age
    <3>1. CacheTtl - ent[ord[i]].age <= CacheTtl - ent[ord[j]].age
      BY <2>2, <2>3
    <3>2. ent[ord[i]].age \in 0..CacheTtl /\ ent[ord[j]].age \in 0..CacheTtl
      OBVIOUS
    <3>3. QED
      BY <1>1, <3>1, <3>2
  <2>5. QED
    BY <2>4
<1>3. from # {} /\ from \subseteq Nat /\ from \subseteq DOMAIN ord
  BY <1>1, <1>2
<1>4. PICK i \in from : \A j \in from : i <= j
  <2> HIDE DEF from
  <2>1. QED
    BY <1>3, LeastExists
<1>5. Victim(ord, ent, off) = CHOOSE n \in from : \A j \in from : n <= j
  BY DEF Victim
<1>6. Victim(ord, ent, off) \in from
  <2> HIDE DEF from
  <2>1. QED
    BY <1>4, <1>5
<1>7. QED
  BY <1>3, <1>6

-----------------------------------------------------------------------------
(***************************************************************************)
(* The inductive invariant: the three dictionaries and the order agree; a  *)
(* key whose prices were obtained less than CacheTtl ago is cached, in no  *)
(* back-off, and as old as its prices; a key that is being fetched is none *)
(* of these.                                                               *)
(***************************************************************************)
Agree(ord, ent, off, was) ==
    /\ ord \in Seq(Key) /\ Once(ord)
    /\ ent \in [Key -> {NoEntry} \cup Entry]
    /\ off \in [Key -> Off..BackOff]
    /\ was \in [Key -> 0..CacheTtl]
    /\ \A k \in Key : ent[k] # NoEntry <=> \E i \in DOMAIN ord : ord[i] = k
    /\ \A k \in Key : off[k] # Off => ent[k] # NoEntry
    /\ \A k \in Key :
           was[k] < CacheTtl => ent[k] # NoEntry /\ off[k] = Off /\ ent[k].age = was[k]

FetchOK ==
    /\ fetch \in [at : {"idle", "coingecko", "coinmarketcap"},
                  key : Key \cup {"nobody"}, age : 0..MaxFetch]
    /\ fetch.at = "idle" => fetch = Idle
    /\ fetch.at # "idle" => /\ fetch.key \in Key
                            /\ backoff[fetch.key] = Off
                            /\ fresh[fetch.key] = CacheTtl

Inv == Agree(order, entry, backoff, fresh) /\ Len(order) <= MaxSize /\ FetchOK

LEMMA Numbers ==
    /\ CacheTtl \in Nat /\ BackOff \in Nat /\ MaxFetch \in Nat /\ MaxSize \in Nat
    /\ CacheTtl > 0 /\ BackOff > 0 /\ MaxSize > 0 /\ "nobody" \notin Key
  BY PriceAssumption

LEMMA NoEntryApart ==
    ASSUME NEW x \in Entry
    PROVE  x # NoEntry /\ x.age \in 0..CacheTtl /\ x.lag \in 0..MaxFetch /\ x.prices \in BOOLEAN
<1>1. x.age \in 0..CacheTtl /\ x.lag \in 0..MaxFetch /\ x.prices \in BOOLEAN
  BY DEF Entry
<1>2. x.age # -1
  BY <1>1, Numbers
<1>3. NoEntry.age = -1
  BY DEF NoEntry
<1>4. QED
  BY <1>1, <1>2, <1>3

LEMMA InvTyped == Inv => TypeOK
<1> SUFFICES ASSUME Inv PROVE TypeOK
  OBVIOUS
<1>1. \A i \in DOMAIN order : order[i] \in Key
  BY DEF Inv, Agree
<1>2. \A i \in DOMAIN order : Cached(order[i])
  BY <1>1 DEF Inv, Agree, Cached
<1>3. /\ entry \in [Key -> {NoEntry} \cup Entry]
      /\ backoff \in [Key -> Off..BackOff]
      /\ \A k \in Key : backoff[k] # Off => Cached(k)
      /\ fresh \in [Key -> 0..CacheTtl]
  BY DEF Inv, Agree, Cached
<1>4. /\ fetch.at \in {"idle", "coingecko", "coinmarketcap"}
      /\ fetch.key \in Key \cup {"nobody"}
      /\ fetch.at # "idle" => fetch.key \in Key
      /\ fetch.age \in 0..MaxFetch
  BY DEF Inv, FetchOK
<1>5. QED
  BY <1>2, <1>3, <1>4 DEF TypeOK

\* What is dropped is dropped from all of them.
LEMMA Evicts ==
    ASSUME NEW ord, NEW ent, NEW off, NEW was, Agree(ord, ent, off, was), NEW i \in DOMAIN ord
    PROVE  Agree(RemoveAt(ord, i), [ent EXCEPT ![ord[i]] = NoEntry],
                 [off EXCEPT ![ord[i]] = Off], [was EXCEPT ![ord[i]] = CacheTtl])
<1> DEFINE out == ord[i]
           cut == RemoveAt(ord, i)
           ent2 == [ent EXCEPT ![out] = NoEntry]
           off2 == [off EXCEPT ![out] = Off]
           was2 == [was EXCEPT ![out] = CacheTtl]
<1>1. ord \in Seq(Key) /\ Once(ord) /\ out \in Key
  BY DEF Agree
<1>2. /\ cut \in Seq(Key) /\ Once(cut)
      /\ \A j \in DOMAIN cut : \E n \in DOMAIN ord : n # i /\ cut[j] = ord[n]
      /\ \A n \in DOMAIN ord : n # i => \E j \in DOMAIN cut : cut[j] = ord[n]
  BY <1>1, Removed
<1>3. ent2 \in [Key -> {NoEntry} \cup Entry] /\ off2 \in [Key -> Off..BackOff]
      /\ was2 \in [Key -> 0..CacheTtl]
  BY Numbers DEF Agree, Off
<1>4. \A k \in Key : /\ ent2[k] = IF k = out THEN NoEntry ELSE ent[k]
                     /\ off2[k] = IF k = out THEN Off ELSE off[k]
                     /\ was2[k] = IF k = out THEN CacheTtl ELSE was[k]
  BY DEF Agree
<1> HIDE DEF cut, ent2, off2, was2
<1>5. ASSUME NEW k \in Key PROVE ent2[k] # NoEntry <=> \E j \in DOMAIN cut : cut[j] = k
  <2>1. CASE k = out
    <3>1. \A n \in DOMAIN ord : n # i => ord[n] # out
      BY <1>1 DEF Once
    <3>2. QED
      BY <1>2, <1>4, <2>1, <3>1
  <2>2. CASE k # out
    <3>1. ent[k] # NoEntry <=> \E n \in DOMAIN ord : ord[n] = k
      BY DEF Agree
    <3>2. QED
      BY <1>2, <1>4, <2>2, <3>1
  <2>3. QED
    BY <2>1, <2>2
<1>6. ASSUME NEW k \in Key, off2[k] # Off PROVE ent2[k] # NoEntry
  BY <1>4, <1>6 DEF Agree
<1>7. ASSUME NEW k \in Key, was2[k] < CacheTtl
      PROVE  ent2[k] # NoEntry /\ off2[k] = Off /\ ent2[k].age = was2[k]
  BY <1>4, <1>7, Numbers DEF Agree
<1>8. Agree(cut, ent2, off2, was2)
  BY <1>2, <1>3, <1>5, <1>6, <1>7 DEF Agree
<1>9. QED
  BY <1>8 DEF cut, ent2, off2, was2

\* What has been fetched is put into all of them.
LEMMA Inserts ==
    ASSUME Inv, NEW k, k = fetch.key, fetch.at # "idle", NEW prices \in BOOLEAN
    PROVE  /\ Agree(Ordered(k), Entered(k, prices), BackedOff(k, prices), Freshened(k, prices))
           /\ Len(Ordered(k)) <= MaxSize + 1
           /\ \A j \in Key :
                  \/ Entered(k, prices)[j] = entry[j]
                  \/ /\ j = k
                     /\ Entered(k, prices)[j] = [prices |-> prices, age |-> 0, lag |-> fetch.age]
<1> DEFINE ord == Ordered(k)
           ent == Entered(k, prices)
           off == BackedOff(k, prices)
           was == Freshened(k, prices)
           new == [prices |-> prices, age |-> 0, lag |-> fetch.age]
<1>1. /\ k \in Key /\ backoff[k] = Off /\ fresh[k] = CacheTtl /\ fetch.age \in 0..MaxFetch
      /\ Agree(order, entry, backoff, fresh) /\ Len(order) <= MaxSize
  BY DEF Inv, FetchOK
<1>2. new \in Entry /\ new # NoEntry /\ new.age = 0
  <2>1. new \in Entry
    BY <1>1, Numbers DEF Entry
  <2> HIDE DEF new
  <2>2. new # NoEntry
    BY <2>1, NoEntryApart
  <2>3. QED
    BY <2>1, <2>2 DEF new
<1> HIDE DEF new
<1>3. /\ ord \in Seq(Key) /\ Once(ord) /\ Len(ord) <= MaxSize + 1
      /\ \A j \in Key : (\E i \in DOMAIN ord : ord[i] = j)
                           <=> j = k \/ \E i \in DOMAIN order : order[i] = j
  <2>1. order \in Seq(Key) /\ Once(order) /\ Len(order) \in Nat /\ DOMAIN order = 1..Len(order)
    BY <1>1 DEF Agree
  <2>2. CASE Cached(k)
    <3>1. \E i \in DOMAIN order : order[i] = k
      BY <1>1, <2>2 DEF Cached, Agree
    <3>2. ord = order
      BY <2>2 DEF Ordered
    <3>3. QED
      BY <1>1, <2>1, <3>1, <3>2, Numbers
  <2>3. CASE ~Cached(k)
    <3>1. \A i \in DOMAIN order : order[i] # k
      BY <1>1, <2>3 DEF Cached, Agree
    <3>2. ord = Append(order, k)
      BY <2>3 DEF Ordered
    <3>3. /\ ord \in Seq(Key) /\ Len(ord) = Len(order) + 1 /\ DOMAIN ord = 1..(Len(order) + 1)
          /\ \A i \in 1..Len(order) : ord[i] = order[i]
          /\ ord[Len(order) + 1] = k
      BY <1>1, <2>1, <3>2, AppendProperties
    <3> HIDE DEF ord
    <3>4. Once(ord)
      BY <2>1, <3>1, <3>3 DEF Once
    <3>5. QED
      BY <1>1, <2>1, <3>1, <3>3, <3>4, Numbers
  <2>4. QED
    BY <2>2, <2>3
<1>4. /\ ent \in [Key -> {NoEntry} \cup Entry]
      /\ \A j \in Key : ent[j] = IF j = k /\ (prices \/ ~Cached(k)) THEN new ELSE entry[j]
  BY <1>1, <1>2 DEF Entered, Agree, new
<1>5. /\ off \in [Key -> Off..BackOff]
      /\ \A j \in Key : off[j] = IF j = k /\ ~prices THEN BackOff ELSE backoff[j]
  BY <1>1, Numbers DEF BackedOff, Agree, Off
<1>6. /\ was \in [Key -> 0..CacheTtl]
      /\ \A j \in Key : was[j] = IF j = k /\ prices THEN 0 ELSE fresh[j]
  BY <1>1, Numbers DEF Freshened, Agree
<1> HIDE DEF ord, ent, off, was
<1>7. ASSUME NEW j \in Key PROVE ent[j] # NoEntry <=> \E i \in DOMAIN ord : ord[i] = j
  <2>1. ent[k] # NoEntry
    BY <1>1, <1>2, <1>4 DEF Cached
  <2>2. j # k => (ent[j] # NoEntry <=> \E i \in DOMAIN order : order[i] = j)
    BY <1>1, <1>4 DEF Agree
  <2>3. QED
    BY <1>3, <2>1, <2>2
<1>8. ASSUME NEW j \in Key, off[j] # Off PROVE ent[j] # NoEntry
  BY <1>1, <1>2, <1>4, <1>5, <1>8 DEF Agree, Cached
<1>9. ASSUME NEW j \in Key, was[j] < CacheTtl
      PROVE  ent[j] # NoEntry /\ off[j] = Off /\ ent[j].age = was[j]
  <2>1. CASE j = k
    <3>1. prices
      BY <1>1, <1>6, <1>9, <2>1, Numbers
    <3>2. QED
      BY <1>1, <1>2, <1>4, <1>5, <1>6, <2>1, <3>1
  <2>2. CASE j # k
    BY <1>1, <1>4, <1>5, <1>6, <1>9, <2>2 DEF Agree
  <2>3. QED
    BY <2>1, <2>2
<1>10. Agree(ord, ent, off, was)
  BY <1>3, <1>4, <1>5, <1>6, <1>7, <1>8, <1>9 DEF Agree
<1>11. QED
  BY <1>3, <1>4, <1>10 DEF ord, ent, off, was, new

\* The end of a call: what it leaves in the dictionaries.
LEMMA Stores ==
    ASSUME Inv, fetch.at # "idle", NEW prices \in BOOLEAN, Store(fetch.key, prices)
    PROVE  /\ Agree(order', entry', backoff', fresh') /\ Len(order') <= MaxSize
           /\ \A j \in Key :
                  \/ entry'[j] \in {entry[j], NoEntry}
                  \/ /\ j = fetch.key
                     /\ entry'[j] = [prices |-> prices, age |-> 0, lag |-> fetch.age]
<1> DEFINE k == fetch.key
           ord == Ordered(k)
           ent == Entered(k, prices)
           off == BackedOff(k, prices)
           was == Freshened(k, prices)
           i == Victim(ord, ent, off)
           new == [prices |-> prices, age |-> 0, lag |-> fetch.age]
<1>1. /\ Agree(ord, ent, off, was) /\ Len(ord) <= MaxSize + 1
      /\ \A j \in Key : ent[j] = entry[j] \/ (j = k /\ ent[j] = new)
  BY Inserts
<1>2. ord \in Seq(Key) /\ Once(ord) /\ Len(ord) \in Nat
  BY <1>1 DEF Agree
<1>3. CASE Len(ord) <= MaxSize
  <2>1. order' = ord /\ entry' = ent /\ backoff' = off /\ fresh' = was
    BY <1>3 DEF Store
  <2> HIDE DEF ord, ent, off, was, new
  <2>2. QED
    BY <1>1, <1>3, <2>1 DEF new
<1>4. CASE ~(Len(ord) <= MaxSize)
  <2>1. /\ order' = RemoveAt(ord, i)
        /\ entry' = [ent EXCEPT ![ord[i]] = NoEntry]
        /\ backoff' = [off EXCEPT ![ord[i]] = Off]
        /\ fresh' = [was EXCEPT ![ord[i]] = CacheTtl]
    BY <1>4 DEF Store
  <2>2. ord # <<>>
    BY <1>2, <1>4, Numbers
  <2> HIDE DEF k, ord, ent, off, was, new
  <2>3. \A j \in DOMAIN ord : ent[ord[j]].age \in 0..CacheTtl
    <3>1. ASSUME NEW j \in DOMAIN ord PROVE ent[ord[j]] \in Entry
      BY <1>1, <1>2 DEF Agree
    <3>2. QED
      BY <3>1, NoEntryApart
  <2>4. i \in DOMAIN ord
    BY <1>2, <2>2, <2>3, VictimListed
  <2> HIDE DEF i
  <2>5. Agree(order', entry', backoff', fresh')
    BY <1>1, <2>1, <2>4, Evicts
  <2>6. Len(order') <= MaxSize
    BY <1>1, <1>2, <2>1, <2>4, Removed, Numbers
  <2>7. ent \in [Key -> {NoEntry} \cup Entry]
    BY <1>1 DEF Agree
  <2>8. \A j \in Key : entry'[j] = NoEntry \/ entry'[j] = ent[j]
    BY <2>1, <2>7
  <2>9. QED
    BY <1>1, <2>5, <2>6, <2>8 DEF k, new
<1>5. QED
  BY <1>3, <1>4

LEMMA InitInv == Init => Inv
<1> SUFFICES ASSUME Init PROVE Inv
  OBVIOUS
<1>1. /\ order = <<>> /\ Len(order) = 0 /\ DOMAIN order = {}
      /\ \A k \in Key : entry[k] = NoEntry /\ backoff[k] = Off /\ fresh[k] = CacheTtl
  BY DEF Init
<1>2. /\ entry \in [Key -> {NoEntry} \cup Entry]
      /\ backoff \in [Key -> Off..BackOff] /\ fresh \in [Key -> 0..CacheTtl]
  BY Numbers DEF Init, Off
<1>3. Agree(order, entry, backoff, fresh)
  BY <1>1, <1>2, Numbers DEF Agree, Once
<1>4. FetchOK
  BY Numbers DEF Init, FetchOK, Idle
<1>5. QED
  BY <1>1, <1>3, <1>4, Numbers DEF Inv

LEMMA TickInv ==
    ASSUME Inv, Tick
    PROVE  Inv'
<1>1. Agree(order, entry, backoff, fresh) /\ Len(order) <= MaxSize /\ FetchOK
  BY DEF Inv
<1>2. order' = order
  BY DEF Tick
<1>3. \A k \in Key : entry[k] \in Entry <=> entry[k] # NoEntry
  BY <1>1, NoEntryApart DEF Agree
<1>4. ASSUME NEW k \in Key
      PROVE  /\ entry'[k] \in {NoEntry} \cup Entry
             /\ entry'[k] # NoEntry <=> entry[k] # NoEntry
             /\ entry[k] # NoEntry => entry'[k].age = Older(entry[k].age, CacheTtl)
  <2>1. CASE entry[k] = NoEntry
    BY <2>1 DEF Tick, Cached
  <2>2. CASE entry[k] # NoEntry
    <3> DEFINE new == [entry[k] EXCEPT !.age = Older(@, CacheTtl)]
    <3>1. entry[k] \in Entry
      BY <1>3, <2>2
    <3>2. entry[k].age \in 0..CacheTtl
      BY <3>1, NoEntryApart
    <3>3. Older(entry[k].age, CacheTtl) \in 0..CacheTtl
      BY <3>2, Numbers DEF Older
    <3>4. new \in Entry /\ new.age = Older(entry[k].age, CacheTtl)
      BY <3>1, <3>3 DEF Entry
    <3>5. entry'[k] = new
      BY <2>2 DEF Tick, Cached
    <3> HIDE DEF new
    <3>6. QED
      BY <2>2, <3>4, <3>5, NoEntryApart
  <2>3. QED
    BY <2>1, <2>2
<1>5. entry' \in [Key -> {NoEntry} \cup Entry]
  <2>1. entry' = [k \in Key |-> entry'[k]]
    BY DEF Tick
  <2>2. QED
    BY <1>4, <2>1
<1>6. /\ backoff' \in [Key -> Off..BackOff]
      /\ \A k \in Key : backoff'[k] = IF backoff[k] > 0 THEN backoff[k] - 1 ELSE backoff[k]
  BY <1>1, Numbers DEF Tick, Agree, Off
<1>7. /\ fresh' \in [Key -> 0..CacheTtl]
      /\ \A k \in Key : fresh'[k] = Older(fresh[k], CacheTtl)
  BY <1>1, Numbers DEF Tick, Agree, Older
<1>8. \A k \in Key : entry[k] # NoEntry <=> \E i \in DOMAIN order : order[i] = k
  BY <1>1 DEF Agree
<1>9. ASSUME NEW k \in Key, backoff'[k] # Off PROVE entry'[k] # NoEntry
  <2>1. backoff[k] # Off
    BY <1>6, <1>9 DEF Off
  <2>2. QED
    BY <1>1, <1>4, <2>1 DEF Agree
<1>10. ASSUME NEW k \in Key, fresh'[k] < CacheTtl
       PROVE  entry'[k] # NoEntry /\ backoff'[k] = Off /\ entry'[k].age = fresh'[k]
  <2>1. fresh[k] \in 0..CacheTtl
    BY <1>1 DEF Agree
  <2>2. fresh[k] < CacheTtl
    BY <1>7, <1>10, <2>1, Numbers DEF Older
  <2>3. entry[k] # NoEntry /\ backoff[k] = Off /\ entry[k].age = fresh[k]
    BY <1>1, <2>2 DEF Agree
  <2>4. QED
    BY <1>4, <1>6, <1>7, <2>3 DEF Off
<1>11. order \in Seq(Key) /\ Once(order)
  BY <1>1 DEF Agree
<1>12. Agree(order', entry', backoff', fresh')
  BY <1>2, <1>4, <1>5, <1>6, <1>7, <1>8, <1>9, <1>10, <1>11 DEF Agree
<1>13. FetchOK'
  <2>1. CASE fetch.at = "idle"
    BY <1>1, <2>1 DEF Tick, FetchOK, Idle
  <2>2. CASE fetch.at # "idle"
    <3>1. /\ fetch \in [at : {"idle", "coingecko", "coinmarketcap"},
                        key : Key \cup {"nobody"}, age : 0..MaxFetch]
          /\ fetch.age < MaxFetch /\ fetch' = [fetch EXCEPT !.age = @ + 1]
      BY <1>1, <2>2 DEF Tick, FetchOK
    <3>2. /\ fetch' \in [at : {"idle", "coingecko", "coinmarketcap"},
                         key : Key \cup {"nobody"}, age : 0..MaxFetch]
          /\ fetch'.at = fetch.at /\ fetch'.key = fetch.key
      BY <3>1, Numbers
    <3>3. fetch.key \in Key /\ backoff[fetch.key] = Off /\ fresh[fetch.key] = CacheTtl
      BY <1>1, <2>2 DEF FetchOK
    <3>4. backoff'[fetch.key] = Off /\ fresh'[fetch.key] = CacheTtl
      BY <1>6, <1>7, <3>3, Numbers DEF Off, Older
    <3>5. QED
      BY <2>2, <3>2, <3>3, <3>4 DEF FetchOK
  <2>3. QED
    BY <2>1, <2>2
<1>14. QED
  BY <1>1, <1>2, <1>12, <1>13 DEF Inv

\* A miss: the prices of the key are old, and its back-off is over.
LEMMA Misses ==
    ASSUME Inv, NEW k \in Key, StartFetch(k)
    PROVE  fresh[k] = CacheTtl /\ backoff'[k] = Off
<1>1. Agree(order, entry, backoff, fresh)
  BY DEF Inv
<1>2. fresh[k] \in 0..CacheTtl /\ backoff \in [Key -> Off..BackOff]
  BY <1>1 DEF Agree
<1>3. ASSUME fresh[k] < CacheTtl PROVE FALSE
  <2>1. entry[k] # NoEntry /\ backoff[k] = Off /\ entry[k].age = fresh[k]
    BY <1>1, <1>3 DEF Agree
  <2>2. Hit(k)
    BY <1>3, <2>1 DEF Hit, EffectiveTtl, Cached, Off
  <2>3. QED
    BY <2>2 DEF StartFetch
<1>4. fresh[k] = CacheTtl
  BY <1>2, <1>3, Numbers
<1>5. backoff'[k] = Off
  <2>1. CASE Cached(k)
    BY <1>2, <2>1 DEF StartFetch
  <2>2. CASE ~Cached(k)
    <3>1. backoff[k] = Off
      BY <1>1, <2>2 DEF Agree, Cached
    <3>2. QED
      BY <2>2, <3>1 DEF StartFetch
  <2>3. QED
    BY <2>1, <2>2
<1>6. QED
  BY <1>4, <1>5

LEMMA StartInv ==
    ASSUME Inv, NEW k \in Key, StartFetch(k)
    PROVE  Inv'
<1>1. Agree(order, entry, backoff, fresh) /\ Len(order) <= MaxSize
  BY DEF Inv
<1>2. fresh[k] = CacheTtl /\ backoff'[k] = Off
  BY Misses
<1>3. entry' = entry /\ order' = order /\ fresh' = fresh
  BY DEF StartFetch
<1>4. /\ backoff' \in [Key -> Off..BackOff]
      /\ \A j \in Key : backoff'[j] \in {backoff[j], Off}
  BY <1>1, Numbers DEF StartFetch, Agree, Off
<1>5. Agree(order', entry', backoff', fresh')
  BY <1>1, <1>3, <1>4 DEF Agree
<1>6. fetch' = [at |-> "coingecko", key |-> k, age |-> 0]
  BY DEF StartFetch
<1>7. FetchOK'
  BY <1>2, <1>3, <1>6, Numbers DEF FetchOK
<1>8. QED
  BY <1>1, <1>3, <1>5, <1>7 DEF Inv

LEMMA ReturnInv ==
    ASSUME Inv, fetch.at # "idle", NEW prices \in BOOLEAN, Return(prices)
    PROVE  Inv'
<1>1. Agree(order', entry', backoff', fresh') /\ Len(order') <= MaxSize
  BY Stores DEF Return
<1>2. FetchOK'
  BY Numbers DEF Return, FetchOK, Idle
<1>3. QED
  BY <1>1, <1>2 DEF Inv

LEMMA StepInv == Inv /\ [Next]_vars => Inv'
<1> SUFFICES ASSUME Inv, [Next]_vars PROVE Inv'
  OBVIOUS
<1>1. ASSUME NEW k \in Key, StartFetch(k) PROVE Inv'
  BY <1>1, StartInv
<1>2. CASE Tick
  BY <1>2, TickInv
<1>3. CASE AskCoinGecko
  BY <1>3, ReturnInv DEF AskCoinGecko
<1>4. CASE AskCoinMarketCap
  <2>1. ("coinmarketcap" \in up) \in BOOLEAN
    OBVIOUS
  <2>2. QED
    BY <1>4, <2>1, ReturnInv DEF AskCoinMarketCap
<1>5. ASSUME UNCHANGED <<entry, order, backoff, fresh>>, FetchOK' PROVE Inv'
  BY <1>5 DEF Inv
<1>6. CASE FallBack
  <2>1. FetchOK'
    BY <1>6 DEF FallBack, Inv, FetchOK
  <2>2. QED
    BY <1>5, <1>6, <2>1 DEF FallBack
<1>7. CASE UNCHANGED <<entry, order, backoff, fetch, fresh>>
  BY <1>5, <1>7 DEF Inv, FetchOK
<1>8. CASE \/ \E k \in Key : GetCached(k)
           \/ \E s \in {"coingecko", "coinmarketcap"} : Fail(s) \/ Recover(s)
           \/ UNCHANGED vars
  BY <1>7, <1>8 DEF GetCached, Fail, Recover, vars
<1>9. QED
  BY <1>1, <1>2, <1>3, <1>4, <1>6, <1>8 DEF Next

\* The three dictionaries agree on what is cached, and no more is cached than
\* fits, whatever fails and is evicted (price_service.py:86-109).
THEOREM TypeCorrect == Spec => []TypeOK
<1>1. Init => Inv
  BY InitInv
<1>2. Inv /\ [Next]_vars => Inv'
  BY StepInv
<1>3. Inv => TypeOK
  BY InvTyped
<1>4. QED
  BY <1>1, <1>2, <1>3, PTL DEF Spec

\* The sources are not asked again for prices that are younger than the time to
\* live, as long as the key is cached, whatever back-off came before
\* (price_service.py:65-72).
THEOREM RefreshSpacedHolds == Spec => RefreshSpaced
<1>1. Init => Inv
  BY InitInv
<1>2. Inv /\ [Next]_vars => Inv'
  BY StepInv
<1>3. Inv /\ [Next]_vars =>
          [\A k \in Key : StartFetch(k) /\ Cached(k) => fresh[k] >= CacheTtl]_vars
  <2> SUFFICES ASSUME Inv, NEW k \in Key, StartFetch(k) PROVE fresh[k] >= CacheTtl
    OBVIOUS
  <2>1. QED
    BY Misses, Numbers
<1>4. QED
  BY <1>1, <1>2, <1>3, PTL DEF Spec, RefreshSpaced

-----------------------------------------------------------------------------
(***************************************************************************)
(* The price service is a FreshCache.                                      *)
(***************************************************************************)
\* What an entry is to FreshCache, at most MaxAge old.
Shown(e) ==
    IF e.age \in 0..(CacheTtl - 1)
    THEN [value |-> ValueOf(e.prices), age |-> e.age + e.lag]
    ELSE [value |-> "nothing", age |-> 0]

LEMMA ShownTyped ==
    ASSUME NEW e \in {NoEntry} \cup Entry
    PROVE  /\ Shown(e) \in Fresh!Held
           /\ Shown(e) # Fresh!Nothing <=> e.age \in 0..(CacheTtl - 1)
           /\ e.age \in 0..(CacheTtl - 1) =>
                  /\ e \in Entry
                  /\ Shown(e) = [value |-> ValueOf(e.prices), age |-> e.age + e.lag]
<1>1. CASE e.age \in 0..(CacheTtl - 1)
  <2> DEFINE v == ValueOf(e.prices)
             a == e.age + e.lag
  <2>1. e # NoEntry
    BY <1>1, Numbers DEF NoEntry
  <2>2. e \in Entry
    BY <2>1
  <2>3. e.lag \in 0..MaxFetch /\ e.age \in 0..CacheTtl
    BY <2>2, NoEntryApart
  <2>4. v \in Value /\ v # "nothing" /\ a \in 0..(CacheTtl + MaxFetch)
    BY <1>1, <2>3, Numbers DEF Value, ValueOf
  <2>5. Shown(e) = [value |-> v, age |-> a]
    BY <1>1 DEF Shown
  <2> HIDE DEF v, a
  <2>6. Shown(e) \in Fresh!Held /\ Shown(e) # Fresh!Nothing
    BY <2>4, <2>5 DEF Fresh!Held, Fresh!Nothing
  <2>7. QED
    BY <1>1, <2>2, <2>5, <2>6 DEF v, a
<1>2. CASE ~(e.age \in 0..(CacheTtl - 1))
  BY <1>2 DEF Shown, Fresh!Held, Fresh!Nothing
<1>3. QED
  BY <1>1, <1>2

\* The refinement mapping of held, now and after a step.
LEMMA Mapped ==
    /\ [k \in Key |-> HeldAs(k)] = [k \in Key |-> Shown(entry[k])]
    /\ ([k \in Key |-> HeldAs(k)])' = [k \in Key |-> Shown(entry'[k])]
  BY DEF HeldAs, Shown

\* A step that leaves the entries alone leaves what is held alone.
LEMMA QuietWork ==
    ASSUME Inv, UNCHANGED entry, answer' = NoAnswer,
           \/ fetch'.key = fetch.key
           \/ fetch.key = "nobody" /\ fetch'.key \in Key
    PROVE  Fresh!Work
<1> DEFINE h == [k \in Key |-> Shown(entry[k])]
<1>1. \A k \in Key : entry[k] \in {NoEntry} \cup Entry
  BY DEF Inv, Agree
<1>2. \A k \in Key : Shown(entry[k]) \in Fresh!Held
  BY <1>1, ShownTyped
<1>3. h \in [Key -> Fresh!Held]
  BY <1>2
<1>4. ([k \in Key |-> HeldAs(k)])' = h /\ [k \in Key |-> HeldAs(k)] = h
  BY Mapped
<1> HIDE DEF h
<1>5. QED
  BY <1>3, <1>4 DEF Fresh!Work, Fresh!Forgets, Fresh!Nobody, Fresh!NoAnswer, NoAnswer

LEMMA HitServes ==
    ASSUME Inv, NEW k \in Key, GetCached(k)
    PROVE  Fresh!Serve(k)
<1> DEFINE h == [j \in Key |-> Shown(entry[j])]
<1>1. \A j \in Key : entry[j] \in {NoEntry} \cup Entry
  BY DEF Inv, Agree
<1>2. h \in [Key -> Fresh!Held]
  BY <1>1, ShownTyped
<1>3. ([j \in Key |-> HeldAs(j)])' = h /\ [j \in Key |-> HeldAs(j)] = h
  BY Mapped DEF GetCached
<1>4. entry[k] \in Entry /\ entry[k].age \in 0..(CacheTtl - 1)
  <2>1. entry[k] # NoEntry /\ entry[k].age < EffectiveTtl(k)
    BY DEF GetCached, Hit, Cached
  <2>2. entry[k] \in Entry /\ entry[k].age \in 0..CacheTtl
    BY <1>1, <2>1, NoEntryApart
  <2>3. EffectiveTtl(k) <= CacheTtl /\ EffectiveTtl(k) \in Int
    BY Numbers, PriceAssumption DEF EffectiveTtl, Inv, Agree, Off
  <2>4. QED
    BY <2>1, <2>2, <2>3, Numbers
<1>5. /\ h[k] = [value |-> ValueOf(entry[k].prices), age |-> entry[k].age + entry[k].lag]
      /\ h[k] # Fresh!Nothing
  BY <1>1, <1>4, ShownTyped
<1>6. entry[k].lag \in 0..MaxFetch
  BY <1>4, NoEntryApart
<1>7. h[k].age < CacheTtl + MaxFetch
  BY <1>4, <1>5, <1>6, Numbers
<1>8. answer' = [key |-> k, value |-> h[k].value, age |-> h[k].age]
  BY <1>5 DEF GetCached
<1>9. fetch.key = "nobody" /\ fetch' = fetch
  BY DEF GetCached, Inv, FetchOK, Idle
<1> HIDE DEF h
<1>10. QED
  BY <1>2, <1>3, <1>5, <1>7, <1>8, <1>9
     DEF Fresh!Serve, Fresh!Forgets, Fresh!Nobody

\* No more is held than is listed.
LEMMA HeldListed ==
    ASSUME NEW ord \in Seq(Key), Len(ord) <= MaxSize,
           NEW S, \A k \in S : \E i \in DOMAIN ord : ord[i] = k
    PROVE  Cardinality(S) <= MaxSize
<1> DEFINE R == {ord[i] : i \in DOMAIN ord}
<1>1. Len(ord) \in Nat /\ DOMAIN ord = 1..Len(ord)
  OBVIOUS
<1>2. ord \in Surjection(1..Len(ord), R)
  BY <1>1 DEF Surjection
<1>3. IsFiniteSet(1..Len(ord)) /\ Cardinality(1..Len(ord)) = Len(ord)
  BY <1>1, FS_Interval
<1>4. IsFiniteSet(R) /\ Cardinality(R) <= Len(ord)
  BY <1>2, <1>3, FS_Surjection
<1>5. S \subseteq R
  OBVIOUS
<1>6. Cardinality(S) <= Cardinality(R) /\ Cardinality(S) \in Nat /\ Cardinality(R) \in Nat
  BY <1>4, <1>5, FS_Subset, FS_CardinalityType
<1>7. QED
  BY <1>1, <1>4, <1>6, Numbers

LEMMA ReturnObtains ==
    ASSUME Inv, fetch.at # "idle", NEW prices \in BOOLEAN, Return(prices)
    PROVE  \E k \in Key : \E v \in Value, a \in 0..MaxFetch : Fresh!Obtain(k, v, a)
<1> DEFINE k == fetch.key
           v == ValueOf(prices)
           a == fetch.age
           h == [j \in Key |-> Shown(entry[j])]
           g == [j \in Key |-> Shown(entry'[j])]
           new == [prices |-> prices, age |-> 0, lag |-> a]
<1>1. k \in Key /\ a \in 0..MaxFetch /\ v \in Value
  BY DEF Inv, FetchOK, Value, ValueOf
<1>2. /\ Agree(order', entry', backoff', fresh') /\ Len(order') <= MaxSize
      /\ \A j \in Key : entry'[j] \in {entry[j], NoEntry} \/ (j = k /\ entry'[j] = new)
  BY Stores DEF Return
<1>3. \A j \in Key : entry'[j] \in {NoEntry} \cup Entry
  BY <1>2 DEF Agree
<1>4. g \in [Key -> Fresh!Held]
  BY <1>3, ShownTyped
<1>5. Shown(NoEntry) = Fresh!Nothing
  BY Numbers DEF Shown, NoEntry, Fresh!Nothing
<1>6. Shown(new) = [value |-> v, age |-> a]
  <2>1. new.age \in 0..(CacheTtl - 1)
    BY Numbers
  <2>2. 0 + a = a
    BY <1>1, Numbers
  <2>3. QED
    BY <2>1, <2>2 DEF Shown
<1>7. ASSUME NEW j \in Key
      PROVE  g[j] \in {h[j], Fresh!Nothing} \/ (j = k /\ g[j] = [value |-> v, age |-> a])
  BY <1>2, <1>5, <1>6
<1>8. Cardinality({j \in Key : g[j] # Fresh!Nothing}) <= MaxSize
  <2>1. ASSUME NEW j \in Key, g[j] # Fresh!Nothing
        PROVE  \E i \in DOMAIN order' : order'[i] = j
    <3>1. entry'[j] # NoEntry
      BY <1>5, <2>1
    <3>2. QED
      BY <1>2, <3>1 DEF Agree
  <2>2. order' \in Seq(Key) /\ Len(order') <= MaxSize
    BY <1>2 DEF Agree
  <2> HIDE DEF g
  <2>3. QED
    BY <2>1, <2>2, HeldListed
<1>9. ([j \in Key |-> HeldAs(j)])' = g /\ [j \in Key |-> HeldAs(j)] = h
  BY Mapped
<1>10. answer' = [key |-> k, value |-> v, age |-> a] /\ fetch'.key = "nobody"
  BY DEF Return, Idle
<1>11. fetch.key = k
  OBVIOUS
<1> HIDE DEF g, h, v, a, k
<1>12. Fresh!Obtain(k, v, a)
  <2>1. \A j \in Key : \/ g[j] \in {h[j], Fresh!Nothing}
                       \/ j = k /\ g[j] = [value |-> v, age |-> a]
    BY <1>7
  <2>2. fetch.key = k /\ fetch'.key = Fresh!Nobody
    BY <1>10, <1>11 DEF Fresh!Nobody
  <2>3. \A S : Fresh!Cardinality(S) = Cardinality(S)
    BY DEF Fresh!Cardinality, Cardinality
  <2>4. QED
    BY <1>4, <1>8, <1>9, <1>10, <2>1, <2>2, <2>3 DEF Fresh!Obtain
<1>13. QED
  BY <1>1, <1>12

LEMMA TickAges ==
    ASSUME Inv, Inv', Tick
    PROVE  Fresh!Age
<1> DEFINE h == [j \in Key |-> Shown(entry[j])]
           g == [j \in Key |-> Shown(entry'[j])]
<1>1. \A j \in Key : entry[j] \in {NoEntry} \cup Entry /\ entry'[j] \in {NoEntry} \cup Entry
  BY DEF Inv, Agree
<1>2. g \in [Key -> Fresh!Held]
  BY <1>1, ShownTyped
<1>3. ASSUME NEW j \in Key, g[j] # Fresh!Nothing
      PROVE  h[j] # Fresh!Nothing /\ g[j] = [h[j] EXCEPT !.age = @ + 1]
  <2> DEFINE e == entry[j]
             f == entry'[j]
  <2>1. f.age \in 0..(CacheTtl - 1) /\ f \in Entry
    BY <1>1, <1>3, ShownTyped
  <2>2. f # NoEntry
    BY <2>1, NoEntryApart
  <2>3. e # NoEntry /\ f = [e EXCEPT !.age = Older(@, CacheTtl)]
    BY <2>2 DEF Tick, Cached
  <2>4. e \in Entry
    BY <1>1, <2>3
  <2>5. e.age \in 0..CacheTtl /\ e.lag \in 0..MaxFetch
    BY <2>4, NoEntryApart
  <2>6. f.age = Older(e.age, CacheTtl) /\ f.prices = e.prices /\ f.lag = e.lag
    BY <2>3, <2>4 DEF Entry
  <2>7. e.age \in 0..(CacheTtl - 1) /\ f.age = e.age + 1
    BY <2>1, <2>5, <2>6, Numbers DEF Older
  <2>8. /\ h[j] # Fresh!Nothing
        /\ h[j] = [value |-> ValueOf(e.prices), age |-> e.age + e.lag]
        /\ g[j] = [value |-> ValueOf(f.prices), age |-> f.age + f.lag]
    BY <1>1, <2>1, <2>7, ShownTyped
  <2>9. f.age + f.lag = (e.age + e.lag) + 1
    BY <2>5, <2>6, <2>7
  <2>10. g[j] = [value |-> ValueOf(e.prices), age |-> (e.age + e.lag) + 1]
    BY <2>6, <2>8, <2>9
  <2> HIDE DEF g, h
  <2>11. QED
    BY <2>8, <2>10
<1>4. ([j \in Key |-> HeldAs(j)])' = g /\ [j \in Key |-> HeldAs(j)] = h
  BY Mapped
<1>5. answer' = NoAnswer /\ fetch'.key = fetch.key
  BY DEF Tick, Inv, FetchOK
<1> HIDE DEF g, h
<1>6. QED
  BY <1>2, <1>3, <1>4, <1>5 DEF Fresh!Age, Fresh!NoAnswer, Fresh!Nobody, NoAnswer

\* Outages, fallbacks, back-offs and evictions in any order: what get_prices
\* returns was obtained less than cache_ttl and one fetch ago, and no more than
\* _max_cache_size answers live (price_service.py:64-72, 86-109).
THEOREM ImplementsFreshCache == Spec => FreshSpec
<1>1. Init => Inv
  BY InitInv
<1>2. Inv /\ [Next]_vars => Inv'
  BY StepInv
<1>3. Init => Fresh!Init
  <2> SUFFICES ASSUME Init PROVE Fresh!Init
    OBVIOUS
  <2>1. \A k \in Key : HeldAs(k) = Fresh!Nothing
    BY Numbers DEF Init, HeldAs, NoEntry, Fresh!Nothing
  <2>2. [k \in Key |-> HeldAs(k)] = [k \in Key |-> Fresh!Nothing]
    BY <2>1
  <2>3. fetch.key = "nobody" /\ answer = NoAnswer
    BY DEF Init, Idle
  <2>4. QED
    BY <2>2, <2>3 DEF Fresh!Init, Fresh!Nobody, Fresh!NoAnswer, NoAnswer
<1>4. Inv /\ Inv' /\ [Next]_vars => [Fresh!Next]_(Fresh!cacheVars)
  <2> SUFFICES ASSUME Inv, Inv', [Next]_vars
               PROVE  Fresh!Next \/ UNCHANGED Fresh!cacheVars
    BY DEF Fresh!cacheVars
  <2>1. ASSUME NEW k \in Key, GetCached(k) PROVE Fresh!Next
    BY <2>1, HitServes DEF Fresh!Next
  <2>2. ASSUME NEW k \in Key, StartFetch(k) PROVE Fresh!Next
    <3>1. fetch.key = "nobody" /\ fetch'.key = k /\ answer' = NoAnswer /\ entry' = entry
      BY <2>2 DEF StartFetch, Inv, FetchOK, Idle
    <3>2. QED
      BY <3>1, QuietWork DEF Fresh!Next
  <2>3. CASE FallBack \/ \E s \in {"coingecko", "coinmarketcap"} : Fail(s) \/ Recover(s)
    <3>1. fetch'.key = fetch.key /\ answer' = NoAnswer /\ entry' = entry
      BY <2>3 DEF FallBack, Fail, Recover, Inv, FetchOK
    <3>2. QED
      BY <3>1, QuietWork DEF Fresh!Next
  <2>4. ASSUME fetch.at # "idle", NEW prices \in BOOLEAN, Return(prices) PROVE Fresh!Next
    BY <2>4, ReturnObtains DEF Fresh!Next
  <2>5. CASE AskCoinGecko
    BY <2>4, <2>5 DEF AskCoinGecko
  <2>6. CASE AskCoinMarketCap
    <3>1. ("coinmarketcap" \in up) \in BOOLEAN
      OBVIOUS
    <3>2. QED
      BY <2>4, <2>6, <3>1 DEF AskCoinMarketCap
  <2>7. CASE Tick
    BY <2>7, TickAges DEF Fresh!Next
  <2>8. CASE UNCHANGED vars
    <3>1. ([k \in Key |-> HeldAs(k)])' = [k \in Key |-> HeldAs(k)]
      BY <2>8, Mapped DEF vars
    <3>2. fetch' = fetch /\ answer' = answer
      BY <2>8 DEF vars
    <3>3. QED
      BY <3>1, <3>2 DEF Fresh!cacheVars
  <2>9. QED
    BY <2>1, <2>2, <2>3, <2>5, <2>6, <2>7, <2>8 DEF Next
<1>5. QED
  BY <1>1, <1>2, <1>3, <1>4, PTL DEF Spec, FreshSpec, Fresh!Spec
=============================================================================
