-------------------------- MODULE ClientTableProofs --------------------------
(***************************************************************************)
(* Proofs about the clients table, for every set of clients and tiers and  *)
(* every configuration that config.py accepts.                             *)
(***************************************************************************)
EXTENDS ClientTable, SequenceTheorems, TLAPS

\* What the counter and the time of the last grant, the only two things
\* activate_grace remembers, say about all the grants g of a row r.
RowHistory(r, g) ==
    /\ Len(g) = 0 => r.grace_activated_count = 0 /\ r.last_grace_activated_at = 0
    /\ Len(g) > 0 => /\ r.grace_activated_count \in 1..Len(g)
                     /\ r.last_grace_activated_at = g[Len(g)]
    /\ r.grace_activated_count <= GraceLimit
    /\ r.grace_activated_count < Len(g) =>
           g[Len(g) - r.grace_activated_count + 1]
               - g[Len(g) - r.grace_activated_count] >= Day

\* Grants are recorded in the order of the clock.
Ordered(g, t) ==
    /\ \A i \in 1..Len(g) : g[i] <= t
    /\ \A i, j \in 1..Len(g) : i < j => g[i] <= g[j]

\* GraceWindow and CooldownRespected, of one history.
Windowed(g) ==
    \A i \in 1..Len(g) : i + GraceLimit <= Len(g) => g[i + GraceLimit] - g[i] >= Day

Spaced(g) ==
    \A i, j \in 1..Len(g) : i < j => g[j] - g[i] >= GraceCooldown

RowInv(r, g, t) ==
    /\ RowHistory(r, g)
    /\ Ordered(g, t)
    /\ Windowed(g)
    /\ Spaced(g)
    /\ r.paid_until <= t + MaxAccess
    /\ r.quota_bytes <= MaxQuota

\* The inductive invariant.
IInv ==
    /\ TypeOK
    /\ now >= StartTime
    /\ \A c \in Client : RowInv(clients[c], grants[c], now)
-----------------------------------------------------------------------------
\* Even a limit of zero allows one grant a day.
LEMMA LimitPositive == GraceLimit \in Nat /\ GraceLimit >= 1
  BY ConfigAssumption DEF GraceLimit, Maximum

\* The row helpers yield rows.
LEMMA RowTypes ==
    ASSUME NEW r \in Row, NEW t \in Nat
    PROVE  /\ NoRow \in Row
           /\ EnsuredRow(r) \in Row
           /\ Expired(r) \in Row
           /\ SettledRow(r, t) \in Row
           /\ GrantRow(r, t) \in Row
<1> USE ConfigAssumption DEF Row, Status
<1>1. NoRow \in Row /\ EnsuredRow(r) \in Row
  BY DEF NoRow, EnsuredRow
<1>2. Expired(r) \in Row /\ SettledRow(r, t) \in Row
  BY DEF Expired, SettledRow
<1>3. GrantRow(r, t) \in Row
  <2>1. NextGraceCount(r, t) \in Nat /\ t + GraceDuration \in Nat
    BY DEF NextGraceCount
  <2>2. CountedRow(r, t) \in Row
    BY <2>1 DEF CountedRow
  <2>3. QED
    BY <2>1, <2>2 DEF GrantRow
<1>4. QED
  BY <1>1, <1>2, <1>3

LEMMA CreditType ==
    ASSUME NEW r \in Row, NEW t \in Nat, NEW q \in Quota
    PROVE  CreditRow(r, q, t) \in Row
<1> USE ConfigAssumption DEF Row, Status
<1>1. ExtendedUntil(r, t) \in Nat
  BY DEF ExtendedUntil, Minimum, Maximum
<1>2. StackedQuota(r, q) \in Nat
  BY DEF StackedQuota, Minimum
<1>3. QED
  BY <1>1, <1>2 DEF CreditRow

-----------------------------------------------------------------------------
\* A step that leaves the memory of grants alone keeps the row's invariant, as
\* long as it respects the two caps; the clock may advance with it.
LEMMA SameHistory ==
    ASSUME NEW r, NEW x, NEW g \in Seq(Nat), NEW t \in Nat, NEW u \in Nat,
           u >= t, RowInv(r, g, t),
           x.grace_activated_count = r.grace_activated_count,
           x.last_grace_activated_at = r.last_grace_activated_at,
           x.paid_until <= u + MaxAccess,
           x.quota_bytes <= MaxQuota
    PROVE  RowInv(x, g, u)
<1>1. Ordered(g, u)
  <2>1. \A i \in 1..Len(g) : g[i] \in Nat
    OBVIOUS
  <2>2. QED
    BY <2>1 DEF RowInv, Ordered
<1>2. RowHistory(x, g)
  BY DEF RowInv, RowHistory
<1>3. QED
  BY <1>1, <1>2 DEF RowInv

\* The arithmetic of a grant: g are the n earlier grants, h those and the new
\* one at t, c and last what the row remembers, k the new count.
LEMMA CountStep ==
    ASSUME NEW n \in Nat, NEW h \in [1..(n + 1) -> Nat], NEW t \in Nat,
           NEW c \in Nat, NEW last \in Nat, NEW k \in Nat,
           h[n + 1] = t, t >= Day,
           n = 0 => c = 0 /\ last = 0,
           n > 0 => c \in 1..n /\ last = h[n],
           n > 0 /\ c >= GraceMax => t - last >= Day,
           c < n => h[n - c + 1] - h[n - c] >= Day,
           k = IF t - last >= Day THEN 1 ELSE c + 1
    PROVE  /\ k \in 1..(n + 1)
           /\ k = 1 \/ k <= GraceMax
           /\ k < n + 1 => h[n + 1 - k + 1] - h[n + 1 - k] >= Day
<1> USE ConfigAssumption
<1>1. CASE n = 0
  BY <1>1
<1>2. CASE n > 0 /\ t - last >= Day
  BY <1>2
<1>3. CASE n > 0 /\ ~(t - last >= Day)
  <2>1. k = c + 1 /\ c < GraceMax /\ c \in 1..n
    BY <1>3
  <2>2. k \in 1..(n + 1) /\ k <= GraceMax
    BY <2>1
  <2>3. n + 1 - k = n - c
    BY <2>1
  <2>4. k < n + 1 => c < n
    BY <2>1
  <2>5. QED
    BY <2>2, <2>3, <2>4
<1>4. QED
  BY <1>1, <1>2, <1>3

\* A gap of a day between two grants is a gap of a day around them.
LEMMA WiderGap ==
    ASSUME NEW a \in Nat, NEW b \in Nat, NEW d \in Nat, NEW e \in Nat,
           d - b >= Day, a <= b, d <= e
    PROVE  e - a >= Day
  BY ConfigAssumption

\* A new grant keeps every window of GraceLimit grants at least a day long.
LEMMA WindowStep ==
    ASSUME NEW n \in Nat, NEW h \in [1..(n + 1) -> Nat], NEW k \in 1..(n + 1),
           k <= GraceLimit,
           k < n + 1 => h[n + 1 - k + 1] - h[n + 1 - k] >= Day,
           \A i, j \in 1..(n + 1) : i < j => h[i] <= h[j],
           \A i \in 1..n : i + GraceLimit <= n => h[i + GraceLimit] - h[i] >= Day,
           NEW i \in 1..(n + 1), i + GraceLimit <= n + 1
    PROVE  h[i + GraceLimit] - h[i] >= Day
<1>0. GraceLimit \in Nat /\ GraceLimit >= 1
  BY LimitPositive
<1>1. CASE i + GraceLimit <= n
  BY <1>0, <1>1
<1>2. CASE i + GraceLimit = n + 1
  <2> DEFINE m == n + 1 - k
  <2>1. m \in 1..n /\ m + 1 \in 1..(n + 1) /\ i <= m /\ k < n + 1
    BY <1>0, <1>2
  <2>2. h[m + 1] - h[m] >= Day
    BY <2>1
  <2> HIDE DEF m
  <2>3. h[i] <= h[m] /\ h[m + 1] <= h[n + 1]
    BY <2>1
  <2>4. h[i] \in Nat /\ h[m] \in Nat /\ h[m + 1] \in Nat /\ h[n + 1] \in Nat
    BY <2>1
  <2>5. h[n + 1] - h[i] >= Day
    BY <2>2, <2>3, <2>4, WiderGap
  <2>6. QED
    BY <1>2, <2>5
<1>3. QED
  BY <1>0, <1>1, <1>2

\* A grant made by activate_grace extends the history without breaking the
\* window, the cooldown or what the row remembers.
LEMMA GrantHistory ==
    ASSUME NEW r \in Row, NEW g \in Seq(Nat), NEW t \in Nat,
           t >= StartTime, RowInv(r, g, t), MayActivate(r, t)
    PROVE  RowInv(GrantRow(r, t), Append(g, t), t)
<1> DEFINE c == r.grace_activated_count
           last == r.last_grace_activated_at
           n == Len(g)
           h == Append(g, t)
           k == NextGraceCount(r, t)
           x == GrantRow(r, t)
<1> USE ConfigAssumption
<1>1. n \in Nat /\ g \in [1..n -> Nat]
  OBVIOUS
<1>2. /\ Len(h) = n + 1 /\ h \in [1..(n + 1) -> Nat] /\ h[n + 1] = t
      /\ \A i \in 1..n : h[i] = g[i]
  <2>1. h \in Seq(Nat) /\ Len(h) = n + 1
    OBVIOUS
  <2>2. h \in [1..Len(h) -> Nat]
    BY <2>1, LenProperties
  <2>3. h[n + 1] = t /\ \A i \in 1..n : h[i] = g[i]
    OBVIOUS
  <2> HIDE DEF h, n
  <2>4. QED
    BY <2>1, <2>2, <2>3
<1>3. c \in Nat /\ last \in Nat
  BY DEF Row
<1>4. k = IF t - last >= Day THEN 1 ELSE c + 1
  BY DEF NextGraceCount
<1>5. /\ x.grace_activated_count = k
      /\ x.last_grace_activated_at = t
      /\ x.paid_until = r.paid_until
      /\ x.quota_bytes = GraceQuota
  BY DEF GrantRow, CountedRow, Row
<1>6. /\ n = 0 => c = 0 /\ last = 0
      /\ n > 0 => c \in 1..n /\ last = g[n]
      /\ c < n => g[n - c + 1] - g[n - c] >= Day
  BY DEF RowInv, RowHistory
<1>7. /\ \A i \in 1..n : g[i] <= t
      /\ \A i, j \in 1..n : i < j => g[i] <= g[j]
  BY DEF RowInv, Ordered
<1>8. /\ c > 0 => ~(t - last < GraceCooldown)
      /\ c > 0 => ~(c >= GraceMax /\ t - last < Day)
  BY DEF MayActivate, CoolingDown, LimitReached
<1> HIDE DEF c, last, n, h, k, x
<1>9. /\ n > 0 => c \in 1..n /\ last = h[n]
      /\ c < n => h[n - c + 1] - h[n - c] >= Day
  <2>1. c < n => n - c + 1 \in 1..n /\ n - c \in 1..n
    BY <1>1, <1>3, <1>6
  <2>2. n > 0 => n \in 1..n
    BY <1>1
  <2>3. QED
    BY <1>2, <1>6, <2>1, <2>2
<1>10. n > 0 => /\ t - last >= GraceCooldown
                /\ c >= GraceMax => t - last >= Day
  BY <1>3, <1>6, <1>8
<1>11. k \in Nat /\ t >= Day
  BY <1>3, <1>4
<1>12. /\ k \in 1..(n + 1)
       /\ k = 1 \/ k <= GraceMax
       /\ k < n + 1 => h[n + 1 - k + 1] - h[n + 1 - k] >= Day
  BY <1>1, <1>2, <1>3, <1>4, <1>6, <1>9, <1>10, <1>11, CountStep
<1>13. RowHistory(x, h)
  <2>1. /\ n + 1 > 0
        /\ ~(n + 1 = 0)
    BY <1>1
  <2>2. x.grace_activated_count \in 1..Len(h) /\ x.last_grace_activated_at = h[Len(h)]
    BY <1>2, <1>5, <1>12
  <2>3. x.grace_activated_count <= GraceLimit
    BY <1>5, <1>11, <1>12 DEF GraceLimit, Maximum
  <2>4. x.grace_activated_count < Len(h) =>
            h[Len(h) - x.grace_activated_count + 1]
                - h[Len(h) - x.grace_activated_count] >= Day
    <3>1. Len(h) = n + 1 /\ x.grace_activated_count = k
      BY <1>2, <1>5
    <3>2. Len(h) - x.grace_activated_count = n + 1 - k
      BY <1>1, <1>11, <3>1
    <3>3. QED
      BY <1>1, <1>11, <1>12, <3>1, <3>2
  <2>5. QED
    BY <1>2, <2>1, <2>2, <2>3, <2>4 DEF RowHistory
<1>14. /\ \A i \in 1..(n + 1) : h[i] <= t
       /\ \A i, j \in 1..(n + 1) : i < j => h[i] <= h[j]
  <2>1. \A i \in 1..(n + 1) : i \in 1..n \/ i = n + 1
    BY <1>1
  <2>2. \A i \in 1..(n + 1) : h[i] <= t
    BY <1>2, <1>7, <2>1
  <2>3. ASSUME NEW i \in 1..(n + 1), NEW j \in 1..(n + 1), i < j
        PROVE  h[i] <= h[j]
    <3>1. i \in 1..n
      BY <1>1, <2>3
    <3>2. CASE j \in 1..n
      BY <1>2, <1>7, <2>3, <3>1, <3>2
    <3>3. CASE j = n + 1
      BY <1>2, <2>2, <3>3
    <3>4. QED
      BY <2>1, <3>2, <3>3
  <2>4. QED
    BY <2>2, <2>3
<1>15. Spaced(h)
  <2> SUFFICES ASSUME NEW i \in 1..(n + 1), NEW j \in 1..(n + 1), i < j
               PROVE  h[j] - h[i] >= GraceCooldown
    BY <1>2 DEF Spaced
  <2>1. CASE j \in 1..n
    <3>1. i \in 1..n
      BY <1>1, <2>1
    <3>2. \A a, b \in 1..n : a < b => g[b] - g[a] >= GraceCooldown
      BY DEF RowInv, Spaced, n
    <3>3. QED
      BY <1>2, <2>1, <3>1, <3>2
  <2>2. CASE j = n + 1
    <3>1. n > 0 /\ n \in 1..n /\ i \in 1..n /\ (i < n \/ i = n)
      BY <1>1, <2>2
    <3>2. i \in 1..(n + 1) /\ n \in 1..(n + 1)
      BY <1>1, <3>1
    <3>3. h[i] \in Nat /\ h[n] \in Nat /\ h[n] = last
      BY <1>2, <1>9, <3>1, <3>2
    <3>4. h[i] <= h[n]
      BY <1>14, <3>1, <3>2, <3>3
    <3>5. QED
      BY <1>2, <1>3, <1>10, <2>2, <3>1, <3>3, <3>4
  <2>3. QED
    BY <1>1, <2>1, <2>2
<1>16. Windowed(h)
  <2> SUFFICES ASSUME NEW i \in 1..(n + 1), i + GraceLimit <= n + 1
               PROVE  h[i + GraceLimit] - h[i] >= Day
    BY <1>2 DEF Windowed
  <2>1. \A j \in 1..n : j + GraceLimit <= n => h[j + GraceLimit] - h[j] >= Day
    <3>1. \A j \in 1..n : j + GraceLimit <= n => j + GraceLimit \in 1..n
      BY <1>1, LimitPositive
    <3>2. \A j \in 1..n : j + GraceLimit <= n => g[j + GraceLimit] - g[j] >= Day
      BY DEF RowInv, Windowed, n
    <3>3. QED
      BY <1>2, <3>1, <3>2
  <2>2. k <= GraceLimit
    BY <1>11, <1>12 DEF GraceLimit, Maximum
  <2>3. QED
    BY <1>1, <1>2, <1>12, <1>14, <2>1, <2>2, WindowStep
<1>17. Ordered(h, t)
  BY <1>2, <1>14 DEF Ordered
<1>18. x.paid_until <= t + MaxAccess /\ x.quota_bytes <= MaxQuota
  BY <1>5 DEF RowInv
<1>19. QED
  BY <1>13, <1>15, <1>16, <1>17, <1>18 DEF RowInv, h, x

\* The rows that activate_grace looks at, and that a payment leaves behind.
LEMMA RowFacts ==
    ASSUME NEW r \in Row, NEW t \in Nat
    PROVE  /\ \A x \in {EnsuredRow(r), Expired(r), SettledRow(EnsuredRow(r), t)} :
                 /\ x.grace_activated_count = r.grace_activated_count
                 /\ x.last_grace_activated_at = r.last_grace_activated_at
                 /\ x.paid_until = r.paid_until
                 /\ x.quota_bytes = r.quota_bytes
           /\ \A q \in Quota :
                 LET x == CreditRow(EnsuredRow(r), q, t) IN
                 /\ x.grace_activated_count = r.grace_activated_count
                 /\ x.last_grace_activated_at = r.last_grace_activated_at
                 /\ x.paid_until <= t + MaxAccess
                 /\ x.quota_bytes <= MaxQuota
<1> USE ConfigAssumption DEF Row
<1>1. \A y \in Row : /\ Expired(y).grace_activated_count = y.grace_activated_count
                     /\ Expired(y).last_grace_activated_at = y.last_grace_activated_at
                     /\ Expired(y).paid_until = y.paid_until
                     /\ Expired(y).quota_bytes = y.quota_bytes
  BY DEF Expired
<1>2. /\ EnsuredRow(r) \in Row
      /\ EnsuredRow(r).grace_activated_count = r.grace_activated_count
      /\ EnsuredRow(r).last_grace_activated_at = r.last_grace_activated_at
      /\ EnsuredRow(r).paid_until = r.paid_until
      /\ EnsuredRow(r).quota_bytes = r.quota_bytes
  BY DEF EnsuredRow, Status
<1>3. \A y \in Row, q \in Quota :
        LET x == CreditRow(y, q, t) IN
        /\ x.grace_activated_count = y.grace_activated_count
        /\ x.last_grace_activated_at = y.last_grace_activated_at
        /\ x.paid_until <= t + MaxAccess
        /\ x.quota_bytes <= MaxQuota
  <2> SUFFICES ASSUME NEW y \in Row, NEW q \in Quota
               PROVE  LET x == CreditRow(y, q, t) IN
                      /\ x.grace_activated_count = y.grace_activated_count
                      /\ x.last_grace_activated_at = y.last_grace_activated_at
                      /\ x.paid_until <= t + MaxAccess
                      /\ x.quota_bytes <= MaxQuota
    OBVIOUS
  <2>1. ExtendedUntil(y, t) <= t + MaxAccess
    BY DEF ExtendedUntil, Minimum, Maximum
  <2>2. StackedQuota(y, q) <= MaxQuota
    BY DEF StackedQuota, Minimum
  <2>3. QED
    BY <2>1, <2>2 DEF CreditRow
<1>4. QED
  BY <1>1, <1>2, <1>3 DEF SettledRow

LEMMA InitTypeOK == Init => TypeOK
<1> SUFFICES ASSUME Init PROVE TypeOK
  OBVIOUS
<1>1. NoRow \in Row
  BY DEF NoRow, Row, Status
<1>2. QED
  BY <1>1, ConfigAssumption DEF Init, TypeOK

LEMMA StepTypeOK == TypeOK /\ [Next]_vars => TypeOK'
<1> SUFFICES ASSUME TypeOK, [Next]_vars PROVE TypeOK'
  OBVIOUS
<1> USE ConfigAssumption
<1>1. now \in Nat
  BY DEF TypeOK
<1>2. \A c \in Client : clients[c] \in Row /\ grants[c] \in Seq(Nat)
  BY DEF TypeOK
<1>3. ASSUME NEW c \in Client, NEW r \in Row, SetRow(c, r)
      PROVE  clients' \in [Client -> Row]
  BY <1>3 DEF SetRow, TypeOK
<1>4. ASSUME NEW c \in Client, GrantGrace(c) PROVE TypeOK'
  <2> DEFINE r == SettledRow(EnsuredRow(clients[c]), now)
  <2>1. GrantRow(r, now) \in Row
    <3>1. r \in Row
      BY <1>1, <1>2, RowTypes
    <3> HIDE DEF r
    <3>2. QED
      BY <1>1, <3>1, RowTypes
  <2>2. clients' \in [Client -> Row]
    BY <1>3, <1>4, <2>1 DEF GrantGrace
  <2>3. grants' \in [Client -> Seq(Nat)]
    <3>1. Append(grants[c], now) \in Seq(Nat)
      BY <1>1, <1>2
    <3>2. QED
      BY <1>4, <3>1 DEF GrantGrace, TypeOK
  <2>4. QED
    BY <1>4, <2>2, <2>3 DEF GrantGrace, TypeOK
<1>5. ASSUME NEW c \in Client, RefuseGrace(c) PROVE TypeOK'
  <2>1. SettledRow(EnsuredRow(clients[c]), now) \in Row
    BY <1>1, <1>2, RowTypes
  <2>2. QED
    BY <1>3, <1>5, <2>1 DEF RefuseGrace, TypeOK
<1>6. ASSUME NEW c \in Client, NEW q \in Quota, MarkPaid(c, q) PROVE TypeOK'
  <2>1. CreditRow(EnsuredRow(clients[c]), q, now) \in Row
    BY <1>1, <1>2, RowTypes, CreditType
  <2>2. QED
    BY <1>3, <1>6, <2>1 DEF MarkPaid, TypeOK
<1>7. ASSUME NEW c \in Client, Expire(c) PROVE TypeOK'
  <2>1. Expired(clients[c]) \in Row
    BY <1>1, <1>2, RowTypes
  <2>2. QED
    BY <1>3, <1>7, <2>1 DEF Expire, TypeOK
<1>8. ASSUME NEW c \in Client, NEW d \in 1..MaxCharge, Charge(c, d) PROVE TypeOK'
  <2>1. clients[c].used_bytes + d \in Nat
    BY <1>2 DEF Row
  <2>2. [clients[c] EXCEPT !.used_bytes = @ + d] \in Row
    BY <1>2, <2>1 DEF Row
  <2>3. QED
    BY <1>3, <1>8, <2>2 DEF Charge, TypeOK
<1>9. ASSUME NEW c \in Client, AckReset(c) PROVE TypeOK'
  <2>1. [clients[c] EXCEPT !.reset = FALSE] \in Row
    BY <1>2 DEF Row
  <2>2. QED
    BY <1>3, <1>9, <2>1 DEF AckReset, TypeOK
<1>10. ASSUME NEW c \in Client, Revoke(c) PROVE TypeOK'
  <2>1. NoRow \in Row
    BY DEF NoRow, Row, Status
  <2>2. grants' \in [Client -> Seq(Nat)]
    BY <1>10 DEF Revoke, TypeOK
  <2>3. QED
    BY <1>3, <1>10, <2>1, <2>2 DEF Revoke, TypeOK
<1>11. CASE Tick
  BY <1>1, <1>11 DEF Tick, TypeOK
<1>12. CASE UNCHANGED vars
  BY <1>12 DEF vars, TypeOK
<1>13. QED
  BY <1>4, <1>5, <1>6, <1>7, <1>8, <1>9, <1>10, <1>11, <1>12 DEF Next

\* No transaction takes a row out of its type; in particular no counter goes
\* below zero (db.py:484-641).
THEOREM TypeCorrect == Spec => []TypeOK
<1>1. QED
  BY InitTypeOK, StepTypeOK, PTL DEF Spec
-----------------------------------------------------------------------------
LEMMA InitIInv == Init => IInv
<1> SUFFICES ASSUME Init PROVE IInv
  OBVIOUS
<1>1. TypeOK
  BY InitTypeOK
<1>2. ASSUME NEW c \in Client PROVE RowInv(clients[c], grants[c], now)
  <2>1. clients[c] = NoRow /\ grants[c] = <<>> /\ now \in Nat
    BY <1>1 DEF Init, TypeOK
  <2>2. RowInv(NoRow, <<>>, now)
    BY <2>1, ConfigAssumption, LimitPositive
       DEF RowInv, RowHistory, Ordered, Windowed, Spaced, NoRow
  <2>3. QED
    BY <2>1, <2>2
<1>3. QED
  BY <1>1, <1>2, ConfigAssumption DEF Init, IInv

LEMMA StepIInv == IInv /\ [Next]_vars => IInv'
<1> SUFFICES ASSUME IInv, [Next]_vars PROVE IInv'
  OBVIOUS
<1>1. TypeOK /\ TypeOK'
  BY StepTypeOK DEF IInv
<1>2. now \in Nat /\ now' \in Nat /\ now >= StartTime
  BY <1>1 DEF TypeOK, IInv
<1>3. \A e \in Client : /\ clients[e] \in Row
                       /\ grants[e] \in Seq(Nat)
                       /\ RowInv(clients[e], grants[e], now)
  BY <1>1 DEF TypeOK, IInv
\* It is enough to look at the one row the step writes.
<1>4. ASSUME NEW c \in Client, NEW r, SetRow(c, r), now' = now,
             \A e \in Client \ {c} : grants'[e] = grants[e],
             RowInv(r, grants'[c], now)
      PROVE  IInv'
  <2>1. \A e \in Client : clients'[e] = IF e = c THEN r ELSE clients[e]
    BY <1>1, <1>4 DEF SetRow, TypeOK
  <2>2. QED
    BY <1>1, <1>2, <1>3, <1>4, <2>1 DEF IInv
\* And, when the step is not a grant, only at what the row remembers.
<1>5. ASSUME NEW c \in Client, NEW r, SetRow(c, r), UNCHANGED <<now, grants>>,
             r.grace_activated_count = clients[c].grace_activated_count,
             r.last_grace_activated_at = clients[c].last_grace_activated_at,
             r.paid_until <= now + MaxAccess,
             r.quota_bytes <= MaxQuota
      PROVE  IInv'
  <2>1. RowInv(r, grants[c], now)
    BY <1>2, <1>3, <1>5, SameHistory
  <2>2. QED
    BY <1>4, <1>5, <2>1
<1>6. \A e \in Client : /\ clients[e].paid_until <= now + MaxAccess
                       /\ clients[e].quota_bytes <= MaxQuota
  BY <1>3 DEF RowInv
<1>7. ASSUME NEW c \in Client, GrantGrace(c) PROVE IInv'
  <2> DEFINE r == SettledRow(EnsuredRow(clients[c]), now)
  <2>1. r \in Row
    BY <1>2, <1>3, RowTypes
  <2>2. RowInv(r, grants[c], now)
    BY <1>2, <1>3, <1>6, RowFacts, SameHistory
  <2>3. MayActivate(r, now) /\ SetRow(c, GrantRow(r, now))
    BY <1>7 DEF GrantGrace
  <2>4. /\ now' = now
        /\ grants'[c] = Append(grants[c], now)
        /\ \A e \in Client \ {c} : grants'[e] = grants[e]
    BY <1>1, <1>7 DEF GrantGrace, TypeOK
  <2> HIDE DEF r
  <2>5. RowInv(GrantRow(r, now), Append(grants[c], now), now)
    BY <1>2, <1>3, <2>1, <2>2, <2>3, GrantHistory
  <2>6. QED
    BY <1>4, <2>3, <2>4, <2>5
<1>8. ASSUME NEW c \in Client, RefuseGrace(c) PROVE IInv'
  BY <1>2, <1>3, <1>5, <1>6, <1>8, RowFacts DEF RefuseGrace
<1>9. ASSUME NEW c \in Client, NEW q \in Quota, MarkPaid(c, q) PROVE IInv'
  BY <1>2, <1>3, <1>5, <1>9, RowFacts DEF MarkPaid
<1>10. ASSUME NEW c \in Client, Expire(c) PROVE IInv'
  BY <1>2, <1>3, <1>5, <1>6, <1>10, RowFacts DEF Expire
<1>11. ASSUME NEW c \in Client, NEW d \in 1..MaxCharge, Charge(c, d) PROVE IInv'
  <2> DEFINE r == [clients[c] EXCEPT !.used_bytes = @ + d]
  <2>1. /\ r.grace_activated_count = clients[c].grace_activated_count
        /\ r.last_grace_activated_at = clients[c].last_grace_activated_at
        /\ r.paid_until = clients[c].paid_until
        /\ r.quota_bytes = clients[c].quota_bytes
    BY <1>3 DEF Row
  <2>2. QED
    BY <1>5, <1>6, <1>11, <2>1 DEF Charge
<1>12. ASSUME NEW c \in Client, AckReset(c) PROVE IInv'
  <2> DEFINE r == [clients[c] EXCEPT !.reset = FALSE]
  <2>1. /\ r.grace_activated_count = clients[c].grace_activated_count
        /\ r.last_grace_activated_at = clients[c].last_grace_activated_at
        /\ r.paid_until = clients[c].paid_until
        /\ r.quota_bytes = clients[c].quota_bytes
    BY <1>3 DEF Row
  <2>2. QED
    BY <1>5, <1>6, <1>12, <2>1 DEF AckReset
<1>13. ASSUME NEW c \in Client, Revoke(c) PROVE IInv'
  <2>1. /\ SetRow(c, NoRow) /\ now' = now
        /\ grants'[c] = <<>>
        /\ \A e \in Client \ {c} : grants'[e] = grants[e]
    BY <1>1, <1>13 DEF Revoke, TypeOK
  <2>2. RowInv(NoRow, <<>>, now)
    BY <1>2, ConfigAssumption, LimitPositive
       DEF RowInv, RowHistory, Ordered, Windowed, Spaced, NoRow
  <2>3. QED
    BY <1>4, <2>1, <2>2
<1>14. CASE Tick
  <2>1. UNCHANGED <<clients, grants>> /\ now' = now + 1
    BY <1>14 DEF Tick
  <2>2. ASSUME NEW e \in Client PROVE RowInv(clients[e], grants[e], now + 1)
    <3>1. /\ clients[e].paid_until <= now + 1 + MaxAccess
          /\ clients[e].quota_bytes <= MaxQuota
      BY <1>2, <1>3, <1>6, ConfigAssumption DEF Row
    <3>2. QED
      BY <1>2, <1>3, <3>1, SameHistory
  <2>3. QED
    BY <1>1, <1>2, <2>1, <2>2, ConfigAssumption DEF IInv
<1>15. CASE UNCHANGED vars
  BY <1>1, <1>15 DEF vars, IInv
<1>16. QED
  BY <1>7, <1>8, <1>9, <1>10, <1>11, <1>12, <1>13, <1>14, <1>15 DEF Next

LEMMA IInvHolds == Spec => []IInv
<1>1. QED
  BY InitIInv, StepIInv, PTL DEF Spec
-----------------------------------------------------------------------------
\* The limit on grants holds over every window of a day, for every
\* GRACE_MAX_PER_24H; zero limits like one (db.py:526-539).
THEOREM GraceWindowHolds == Spec => []GraceWindow
<1>1. IInv => GraceWindow
  BY DEF IInv, RowInv, Windowed, GraceWindow
<1>2. QED
  BY <1>1, IInvHolds, PTL

\* Any two grants are a cooldown apart (db.py:528).
THEOREM CooldownHolds == Spec => []CooldownRespected
<1>1. IInv => CooldownRespected
  BY DEF IInv, RowInv, Spaced, CooldownRespected
<1>2. QED
  BY <1>1, IInvHolds, PTL

\* No interleaving of payments, grants and expiries passes the caps
\* (db.py:618-622).
THEOREM StackingHolds == Spec => []StackingBounded
<1>1. IInv => StackingBounded
  BY DEF IInv, RowInv, StackingBounded
<1>2. QED
  BY <1>1, IInvHolds, PTL

\* A payment never takes away time, nor bytes of a session that is not a grace
\* (db.py:614-628).
THEOREM PaymentHolds == Spec => PaymentNeverTakesAway
<1>1. ASSUME IInv, NEW c \in Client, NEW q \in Quota, MarkPaid(c, q)
      PROVE  /\ clients'[c].paid_until >= clients[c].paid_until
             /\ clients[c].status # "grace" =>
                    Remaining(clients'[c]) >= Remaining(clients[c])
  <2> DEFINE r == clients[c]
             e == EnsuredRow(r)
  <2> USE ConfigAssumption
  <2>1. /\ r \in Row /\ now \in Nat
        /\ r.paid_until <= now + MaxAccess
        /\ r.quota_bytes <= MaxQuota
    BY <1>1 DEF IInv, RowInv, TypeOK
  <2>2. /\ e \in Row
        /\ e.status = "grace" <=> r.status = "grace"
        /\ e.paid_until = r.paid_until
        /\ e.quota_bytes = r.quota_bytes
        /\ e.used_bytes = r.used_bytes
    BY <2>1 DEF EnsuredRow, Row, Status
  <2>3. clients'[c] = CreditRow(e, q, now)
    BY <1>1 DEF MarkPaid, SetRow, IInv, TypeOK
  <2> HIDE DEF e
  <2>4. /\ clients'[c].paid_until = ExtendedUntil(e, now)
        /\ clients'[c].quota_bytes = StackedQuota(e, q)
        /\ clients'[c].used_bytes = IF e.status = "grace" THEN 0 ELSE e.used_bytes
    BY <2>2, <2>3 DEF CreditRow, Row
  <2>5. /\ r.paid_until \in Nat /\ r.quota_bytes \in Nat /\ r.used_bytes \in Nat
        /\ q \in Nat
    BY <2>1 DEF Row
  <2> HIDE DEF r
  <2>6. clients'[c].paid_until >= r.paid_until
    BY <2>1, <2>2, <2>4, <2>5 DEF ExtendedUntil, Minimum, Maximum
  <2>7. ASSUME r.status # "grace"
        PROVE  Remaining(clients'[c]) >= Remaining(r)
    <3>1. clients'[c].used_bytes = r.used_bytes
      BY <2>2, <2>4, <2>7
    <3>2. clients'[c].quota_bytes \in Nat /\ clients'[c].quota_bytes >= r.quota_bytes
      BY <2>1, <2>2, <2>4, <2>5, <2>7 DEF StackedQuota, Minimum
    <3>3. QED
      BY <2>5, <3>1, <3>2 DEF Remaining, Maximum
  <2>8. QED
    BY <2>6, <2>7 DEF r
<1>2. IInv /\ [Next]_vars =>
        [\A c \in Client : \A q \in Quota : MarkPaid(c, q) =>
            /\ clients'[c].paid_until >= clients[c].paid_until
            /\ clients[c].status # "grace" =>
                   Remaining(clients'[c]) >= Remaining(clients[c])]_vars
  BY <1>1
<1>3. QED
  BY <1>2, IInvHolds, PTL DEF Spec, PaymentNeverTakesAway
=============================================================================
