--------------------------- MODULE SyncAuthProofs ---------------------------
(***************************************************************************)
(* Proofs about the daemon, the portal and the firewall, for any number of *)
(* clients and workers: types, the charging of traffic, and that the whole *)
(* implements the clients table.                                           *)
(***************************************************************************)
EXTENDS SyncAuth, TLAPS

USE DEF db, firewall, history, bounds, outside, vars, Ipset, None, Changed

-----------------------------------------------------------------------------
(***************************************************************************)
(* Types.                                                                  *)
(***************************************************************************)
LEMMA Config ==
    /\ Table!ConfigAssumption
    /\ MaxTraffic \in Nat /\ MaxRestarts \in Nat /\ MaxRevokes \in Nat
    /\ NoClient \notin Client
  BY SyncAssumption

\* What activate_grace and mark_paid make of a row.
LEMMA RowTypes ==
    ASSUME NEW r \in Table!Row, NEW t \in Nat
    PROVE  /\ Table!NoRow \in Table!Row
           /\ Table!EnsuredRow(r) \in Table!Row
           /\ Table!Expired(r) \in Table!Row
           /\ Table!SettledRow(r, t) \in Table!Row
           /\ Table!GrantRow(r, t) \in Table!Row
           /\ \A q \in Quota : Table!CreditRow(r, q, t) \in Table!Row
<1> USE Config DEF Table!Row, Table!Status, Table!ConfigAssumption
<1>1. Table!NoRow \in Table!Row /\ Table!EnsuredRow(r) \in Table!Row
  BY DEF Table!NoRow, Table!EnsuredRow
<1>2. Table!Expired(r) \in Table!Row /\ Table!SettledRow(r, t) \in Table!Row
  BY DEF Table!Expired, Table!SettledRow
<1>3. Table!GrantRow(r, t) \in Table!Row
  <2>1. Table!NextGraceCount(r, t) \in Nat /\ t + GraceDuration \in Nat
    BY DEF Table!NextGraceCount
  <2>2. Table!CountedRow(r, t) \in Table!Row
    BY <2>1 DEF Table!CountedRow
  <2>3. QED
    BY <2>1, <2>2 DEF Table!GrantRow
<1>4. ASSUME NEW q \in Quota PROVE Table!CreditRow(r, q, t) \in Table!Row
  <2>1. Table!ExtendedUntil(r, t) \in Nat
    BY DEF Table!ExtendedUntil, Table!Minimum, Table!Maximum
  <2>2. Table!StackedQuota(r, q) \in Nat
    BY DEF Table!StackedQuota, Table!Minimum
  <2>3. QED
    BY <2>1, <2>2 DEF Table!CreditRow
<1>5. QED
  BY <1>1, <1>2, <1>3, <1>4

\* One row is rewritten, and grants either stay or are changed in step.
LEMMA TableType ==
    ASSUME Table!TypeOK, NEW c \in Client, NEW r \in Table!Row,
           clients' = [clients EXCEPT ![c] = r], now' = now,
           grants' \in [Client -> Seq(Nat)]
    PROVE  Table!TypeOK'
  BY DEF Table!TypeOK

LEMMA DeltaType ==
    ASSUME NEW n \in Nat, NEW l \in Nat
    PROVE  Delta(n, l) \in Nat
  BY DEF Delta

\* TypeOK but for the history of what rows ask for.
CoreOK ==
    /\ Table!TypeOK
    /\ {last, counted, charged} \subseteq Counts
    /\ members \in [Ipset -> SUBSET Client]
    /\ bytes \in [Ipset -> Counts]
    /\ sync \in Daemon
    /\ sync.pc \in {"readd", "ack", "drop"} <=> sync.cur \in Client
    /\ page \in [Worker -> Client \cup {NoClient}]
    /\ restarts \in 0..MaxRestarts /\ revokes \in 0..MaxRevokes

Steadiness == [Client -> Ipset \cup {None, Changed}]

LEMMA Split == TypeOK <=> CoreOK /\ steady \in Steadiness
  BY DEF TypeOK, CoreOK, Steadiness

LEMMA IdleType == Idle \in Daemon /\ Idle.pc = "idle" /\ Idle.cur = NoClient
<1>1. Table!NoRow \in Table!Row
  BY DEF Table!NoRow, Table!Row, Table!Status
<1>2. QED
  BY <1>1 DEF Idle, Daemon, Counts

LEMMA InitTypeOK == Init => TypeOK
<1> SUFFICES ASSUME Init PROVE TypeOK
  OBVIOUS
<1>1. Table!TypeOK
  <2>1. Table!NoRow \in Table!Row
    BY DEF Table!NoRow, Table!Row, Table!Status
  <2>2. QED
    BY <2>1, Config DEF Init, Table!Init, Table!TypeOK, Table!ConfigAssumption
<1>2. QED
  BY <1>1, IdleType, Config DEF Init, TypeOK, Counts

\* Whatever a row asks for is an ipset or none.
LEMMA StepSteady ==
    ASSUME steady \in Steadiness, [Next]_vars
    PROVE  steady' \in Steadiness
<1>1. ASSUME Watch PROVE steady' \in Steadiness
  BY <1>1 DEF Watch, Steadiness
<1>2. ASSUME Forget PROVE steady' \in Steadiness
  BY <1>2 DEF Forget, Steadiness
<1>3. ASSUME SyncBegin PROVE steady' \in Steadiness
  BY <1>3 DEF SyncBegin, Steadiness, Target
<1>4. QED
  BY <1>1, <1>2, <1>3 DEF Next, SyncStep

\* The transactions of db.py.
LEMMA PortalTypes ==
    ASSUME CoreOK, NEW c \in Client,
           \/ GrantGrace(c)
           \/ RefuseGrace(c)
           \/ \E q \in Quota : MarkPaid(c, q)
           \/ Revoke(c)
    PROVE  CoreOK'
<1>1. clients[c] \in Table!Row /\ now \in Nat /\ grants \in [Client -> Seq(Nat)]
  BY DEF CoreOK, Table!TypeOK
<1>2. /\ Table!EnsuredRow(clients[c]) \in Table!Row
      /\ Table!NoRow \in Table!Row
  BY <1>1, RowTypes
<1>3. /\ Table!SettledRow(Table!EnsuredRow(clients[c]), now) \in Table!Row
      /\ \A q \in Quota : Table!CreditRow(Table!EnsuredRow(clients[c]), q, now) \in Table!Row
  BY <1>1, <1>2, RowTypes
<1>4. Table!GrantRow(Table!SettledRow(Table!EnsuredRow(clients[c]), now), now) \in Table!Row
  BY <1>1, <1>3, RowTypes
<1>5. Table!TypeOK
  BY DEF CoreOK
<1>6. CASE GrantGrace(c)
  <2>1. grants' \in [Client -> Seq(Nat)]
    <3>1. Append(grants[c], now) \in Seq(Nat)
      BY <1>1
    <3>2. QED
      BY <1>1, <1>6, <3>1 DEF GrantGrace, Table!GrantGrace
  <2>2. Table!TypeOK'
    BY <1>4, <1>5, <1>6, <2>1, TableType DEF GrantGrace, Table!GrantGrace, Table!SetRow
  <2>3. QED
    BY <1>6, <2>2 DEF GrantGrace, CoreOK
<1>7. CASE RefuseGrace(c)
  <2>1. Table!TypeOK'
    BY <1>1, <1>3, <1>5, <1>7, TableType DEF RefuseGrace, Table!RefuseGrace, Table!SetRow
  <2>2. QED
    BY <1>7, <2>1 DEF RefuseGrace, CoreOK
<1>8. ASSUME NEW q \in Quota, MarkPaid(c, q) PROVE CoreOK'
  <2>1. Table!TypeOK'
    BY <1>1, <1>3, <1>5, <1>8, TableType DEF MarkPaid, Table!MarkPaid, Table!SetRow
  <2>2. QED
    BY <1>8, <2>1 DEF MarkPaid, CoreOK
<1>9. CASE Revoke(c)
  <2>1. grants' \in [Client -> Seq(Nat)]
    BY <1>1, <1>9 DEF Revoke, Table!Revoke
  <2>2. Table!TypeOK'
    BY <1>2, <1>5, <1>9, <2>1, TableType DEF Revoke, Table!Revoke, Table!SetRow
  <2>3. last' \in Counts
    BY <1>9 DEF Revoke, CoreOK, Counts
  <2>4. revokes' \in 0..MaxRevokes
    BY <1>9, Config DEF Revoke, CoreOK
  <2>5. QED
    BY <1>9, <2>2, <2>3, <2>4 DEF Revoke, CoreOK
<1>10. QED
  BY <1>6, <1>7, <1>8, <1>9

\* The page, the firewall and the clock.
LEMMA OutsideTypes ==
    ASSUME CoreOK,
           \/ \E w \in Worker, c \in Client : IndexRead(w, c)
           \/ \E w \in Worker : IndexExpire(w)
           \/ \E c \in Client : Traffic(c)
           \/ Tick
    PROVE  CoreOK'
<1>1. ASSUME NEW w \in Worker, NEW c \in Client, IndexRead(w, c) PROVE CoreOK'
  BY <1>1 DEF IndexRead, CoreOK, Table!TypeOK
<1>2. ASSUME NEW w \in Worker, IndexExpire(w) PROVE CoreOK'
  <2> DEFINE c == page[w]
  <2>1. c \in Client
    BY <1>2 DEF IndexExpire, CoreOK
  <2> HIDE DEF c
  <2>2. clients' = [clients EXCEPT ![c] = Table!Expired(clients[c])] \/ clients' = clients
    BY <1>2, <2>1 DEF IndexExpire, CoreOK, Table!TypeOK, c
  <2>3. Table!Expired(clients[c]) \in Table!Row
    BY <2>1, RowTypes, Config DEF CoreOK, Table!TypeOK
  <2>4. Table!TypeOK'
    BY <1>2, <2>1, <2>2, <2>3 DEF IndexExpire, CoreOK, Table!TypeOK
  <2>5. page' \in [Worker -> Client \cup {NoClient}]
    BY <1>2 DEF IndexExpire, CoreOK
  <2>6. QED
    BY <1>2, <2>4, <2>5 DEF IndexExpire, CoreOK
<1>3. ASSUME NEW c \in Client, Traffic(c) PROVE CoreOK'
  <2>1. bytes' \in [Ipset -> Counts]
    BY <1>3 DEF Traffic, CoreOK, Counts
  <2>2. counted' \in Counts
    BY <1>3 DEF Traffic, CoreOK, Counts
  <2>3. QED
    BY <1>3, <2>1, <2>2 DEF Traffic, CoreOK, Table!TypeOK
<1>4. ASSUME Tick PROVE CoreOK'
  BY <1>4 DEF Tick, Table!Tick, CoreOK, Table!TypeOK
<1>5. QED
  BY <1>1, <1>2, <1>3, <1>4

\* What a CoreOK state says of the daemon's own record.
LEMMA DaemonFields ==
    ASSUME CoreOK
    PROVE  /\ sync.at \in Nat /\ sync.rows \in [Client -> Table!Row]
           /\ sync.todo \subseteq Client /\ sync.read \in Counts
           /\ clients \in [Client -> Table!Row] /\ now \in Nat
           /\ {last, counted, charged} \subseteq Counts
           /\ bytes \in [Ipset -> Counts] /\ members \in [Ipset -> SUBSET Client]
  BY DEF CoreOK, Daemon, Table!TypeOK

LEMMA CounterType ==
    ASSUME CoreOK, NEW c \in Client
    PROVE  Counter(c) \in Nat
  BY DaemonFields DEF Counter, Counts

\* The steps of the daemon that write no row.
LEMMA DaemonTypes ==
    ASSUME CoreOK,
           \/ SyncBegin \/ ResetAdd \/ Collect \/ SyncSelect \/ SyncEnd
           \/ \E c \in Client : ResetOut(c) \/ Admit(c)
           \/ SyncCrash \/ ApRestart
    PROVE  CoreOK'
<1> USE DaemonFields
<1>1. CASE SyncBegin
  BY <1>1 DEF SyncBegin, CoreOK, Daemon, Table!TypeOK
<1>2. ASSUME NEW c \in Client, ResetOut(c) PROVE CoreOK'
  <2>1. bytes' \in [Ipset -> Counts] /\ members' \in [Ipset -> SUBSET Client]
    BY <1>2 DEF ResetOut, Counts
  <2>2. QED
    BY <1>2, <2>1, Config DEF ResetOut, CoreOK, Daemon, Table!TypeOK
<1>3. CASE ResetAdd
  <2>1. sync.cur \in Client
    BY <1>3 DEF ResetAdd, CoreOK
  <2>2. members' \in [Ipset -> SUBSET Client]
    BY <1>3, <2>1 DEF ResetAdd
  <2>3. QED
    BY <1>3, <2>1, <2>2 DEF ResetAdd, CoreOK, Daemon, Table!TypeOK
<1>4. CASE Collect
  <2>1. [c \in Client |-> IF Member(c) THEN Counter(c) ELSE 0] \in Counts
    BY CounterType DEF Counts
  <2>2. Idle.rows \in [Client -> Table!Row]
    BY IdleType DEF Daemon
  <2>3. QED
    BY <1>4, <2>1, <2>2, Config DEF Collect, CoreOK, Daemon, Table!TypeOK
<1>5. CASE SyncSelect
  BY <1>5, Config DEF SyncSelect, CoreOK, Daemon, Table!TypeOK
<1>6. CASE SyncEnd
  BY <1>6, IdleType, Config DEF SyncEnd, CoreOK, Table!TypeOK
<1>7. ASSUME NEW c \in Client, Admit(c) PROVE CoreOK'
  <2>1. bytes' \in [Ipset -> Counts] /\ members' \in [Ipset -> SUBSET Client]
    BY <1>7 DEF Admit, Counts
  <2>2. QED
    BY <1>7, <2>1, Config DEF Admit, CoreOK, Daemon, Table!TypeOK
<1>8. CASE SyncCrash
  BY <1>8, IdleType, Config DEF SyncCrash, CoreOK, Table!TypeOK
<1>9. CASE ApRestart
  BY <1>9, IdleType, Config DEF ApRestart, CoreOK, Table!TypeOK, Counts
<1>10. QED
  BY <1>1, <1>2, <1>3, <1>4, <1>5, <1>6, <1>7, <1>8, <1>9

\* The steps of the daemon that write a row.
LEMMA WritingTypes ==
    ASSUME CoreOK,
           \/ ResetCommit
           \/ \E c \in Client : ChargeOne(c)
           \/ Drop
    PROVE  CoreOK'
<1> USE DaemonFields
<1>1. CASE ResetCommit
  <2> DEFINE c == sync.cur
  <2>1. c \in Client
    BY <1>1 DEF ResetCommit, CoreOK
  <2>2. [clients[c] EXCEPT !.reset = FALSE] \in Table!Row
    BY <2>1 DEF Table!Row
  <2>3. clients' = [clients EXCEPT ![c] = [clients[c] EXCEPT !.reset = FALSE]]
    BY <1>1, <2>1 DEF ResetCommit
  <2>4. sync' \in Daemon /\ last' \in Counts
    BY <1>1, <2>1 DEF ResetCommit, CoreOK, Daemon, Counts
  <2>5. sync'.pc = "reset" /\ sync'.cur = NoClient
    BY <1>1 DEF ResetCommit, CoreOK, Daemon
  <2> HIDE DEF c
  <2>6. Table!TypeOK'
    BY <1>1, <2>1, <2>2, <2>3, TableType DEF ResetCommit, CoreOK, Table!TypeOK
  <2>7. QED
    BY <1>1, <2>4, <2>5, <2>6, Config DEF ResetCommit, CoreOK
<1>2. ASSUME NEW c \in Client, ChargeOne(c) PROVE CoreOK'
  <2> DEFINE delta == Delta(sync.read[c], last[c])
  <2>1. delta \in Nat /\ sync.read[c] \in Nat
    BY DeltaType DEF Counts
  <2>2. sync' \in Daemon
    BY <1>2 DEF ChargeOne, CoreOK, Daemon, Counts
  <2>3. sync'.pc = sync.pc /\ sync'.cur = sync.cur /\ sync.pc = "charge"
    BY <1>2 DEF ChargeOne, CoreOK, Daemon
  <2>4. CASE Present(c)
    <3>1. [clients[c] EXCEPT !.used_bytes = @ + delta] \in Table!Row
      BY <2>1 DEF Table!Row
    <3>2. /\ clients' = [clients EXCEPT ![c] = [clients[c] EXCEPT !.used_bytes = @ + delta]]
          /\ last' = [last EXCEPT ![c] = sync.read[c]]
          /\ charged' = [charged EXCEPT ![c] = @ + delta]
      BY <1>2, <2>4 DEF ChargeOne
    <3>3. last' \in Counts /\ charged' \in Counts
      BY <2>1, <3>2 DEF Counts
    <3> HIDE DEF delta
    <3>4. Table!TypeOK'
      BY <1>2, <3>1, <3>2, TableType DEF ChargeOne, CoreOK, Table!TypeOK
    <3>5. QED
      BY <1>2, <2>2, <2>3, <3>3, <3>4 DEF ChargeOne, CoreOK
  <2>5. CASE ~Present(c)
    BY <1>2, <2>2, <2>3, <2>5 DEF ChargeOne, CoreOK, Table!TypeOK
  <2>6. QED
    BY <2>4, <2>5
<1>3. CASE Drop
  <2> DEFINE c == sync.cur
  <2>1. c \in Client
    BY <1>3 DEF Drop, CoreOK
  <2>2. Table!Expired(clients[c]) \in Table!Row /\ Table!NoRow \in Table!Row
    BY <2>1, RowTypes, Config
  <2>3. sync' \in Daemon /\ sync'.pc = "enforce" /\ sync'.cur = NoClient
    BY <1>3, <2>1, <2>2 DEF Drop, CoreOK, Daemon
  <2>4. bytes' \in [Ipset -> Counts] /\ members' \in [Ipset -> SUBSET Client]
    BY <1>3, <2>1 DEF Drop, Counts
  <2>5. \/ clients' = clients
        \/ clients' = [clients EXCEPT ![c] = Table!Expired(clients[c])]
    BY <1>3, <2>1 DEF Drop, ExpireIfStill
  <2> HIDE DEF c
  <2>6. Table!TypeOK'
    <3>1. Table!TypeOK /\ now' = now /\ grants' = grants /\ grants \in [Client -> Seq(Nat)]
      BY <1>3 DEF Drop, CoreOK, Table!TypeOK
    <3>2. CASE clients' = clients
      BY <3>1, <3>2 DEF Table!TypeOK
    <3>3. CASE clients' = [clients EXCEPT ![c] = Table!Expired(clients[c])]
      BY <2>1, <2>2, <3>1, <3>3, TableType
    <3>4. QED
      BY <2>5, <3>2, <3>3
  <2>7. QED
    BY <1>3, <2>3, <2>4, <2>6, Config DEF Drop, CoreOK
<1>4. QED
  BY <1>1, <1>2, <1>3

LEMMA StepTypeOK ==
    ASSUME TypeOK, [Next]_vars
    PROVE  TypeOK'
<1>1. CoreOK /\ steady \in Steadiness
  BY Split
<1>2. CoreOK'
  <2>1. CASE UNCHANGED vars
    BY <1>1, <2>1 DEF CoreOK, Table!TypeOK
  <2>2. CASE SyncStep
    BY <1>1, <2>2, DaemonTypes, WritingTypes DEF SyncStep
  <2>3. CASE Portal \/ Tick \/ \E c \in Client : Traffic(c)
    BY <1>1, <2>3, PortalTypes, OutsideTypes DEF Portal
  <2>4. CASE Restart
    BY <1>1, <2>4, DaemonTypes DEF Restart
  <2>5. QED
    BY <2>1, <2>2, <2>3, <2>4 DEF Next
<1>3. steady' \in Steadiness
  BY <1>1, StepSteady
<1>4. QED
  BY <1>2, <1>3 DEF TypeOK, CoreOK, Steadiness

\* Every variable keeps its type, for every configuration: in particular no
\* step of the daemon ever acts on a client it has not set itself.
THEOREM TypeCorrect == Spec => []TypeOK
<1>1. Init => TypeOK
  BY InitTypeOK
<1>2. TypeOK /\ [Next]_vars => TypeOK'
  BY StepTypeOK
<1>3. QED
  BY <1>1, <1>2, PTL DEF Spec
-----------------------------------------------------------------------------
(***************************************************************************)
(* No byte is charged twice.  What a client has been charged, together     *)
(* with what its counter has still to be charged for, never exceeds what   *)
(* the rules have counted for it: except while a requested reset waits for *)
(* the daemon, for then the counter will be thrown away before it is read. *)
(* A client in both sets is what needs care: the daemon reads paid_ips     *)
(* only, and a counter left in grace_ips would come back when the client   *)
(* leaves paid_ips.  Where rows may be deleted, the same is true of the    *)
(* row a client has.                                                       *)
(***************************************************************************)
Both(c) == \A s \in Ipset : c \in members[s]

\* A counter that is hidden by the other set.
Dirty(c) == Both(c) /\ bytes["grace_ips"][c] > 0

\* The daemon will reset the counter before it reads it.
Awaiting(c) ==
    /\ clients[c].reset
    /\ \/ sync.pc \in {"idle", "enforce", "drop"}
       \/ sync.pc \in {"reset", "readd", "ack"} /\ c \in sync.todo /\ c # sync.cur

\* The daemon has read the counter, and has still to charge for it.
Unread(c) == sync.pc = "charge" /\ c \in sync.todo

\* The daemon is about to enforce what it has read in the client's row.
Deciding(c) == sync.pc \in {"enforce", "drop"} /\ c \in sync.todo

\* What a client has been charged: in all, or for the row it has now, where rows
\* may be deleted.
Billed(c) == IF MaxRevokes = 0 THEN charged[c] ELSE clients[c].used_bytes

\* Nothing has been charged for this row yet.
Unbilled(c) == MaxRevokes # 0 /\ clients[c].used_bytes = 0 /\ last[c] = 0

Balanced(c) ==
    /\ \A s \in Ipset : c \notin members[s] => bytes[s][c] = 0
    /\ \A s \in Ipset : bytes[s][c] <= counted[c]
    /\ clients[c].used_bytes <= Billed(c)
    /\ Billed(c) <= counted[c]
    /\ counted[c] <= MaxTraffic

Covered(c) ==
    IF Unread(c)
    THEN /\ Member(c)
         /\ sync.read[c] <= Counter(c)
         /\ Billed(c) + Delta(sync.read[c], last[c]) + (Counter(c) - sync.read[c]) <= counted[c]
    ELSE Awaiting(c) \/ Billed(c) + Delta(Counter(c), last[c]) <= counted[c]

Resetting(c) ==
    /\ sync.pc = "readd" /\ c = sync.cur => ~Member(c)
    /\ sync.pc \in {"readd", "ack"} /\ c = sync.cur =>
           ~Both(c) /\ Billed(c) + Counter(c) <= counted[c]

\* A hidden counter is never the one a client is left with.
Marked(c) ==
    /\ Dirty(c) /\ clients[c].status = "grace" => clients[c].reset
    /\ Deciding(c) /\ Dirty(c) /\ sync.rows[c].status = "grace" =>
           clients[c].reset \/ Unbilled(c)
    /\ Deciding(c) /\ sync.rows[c].status = "paid" /\ clients[c].status = "grace" =>
           clients[c].reset

Safe(c) == Balanced(c) /\ Covered(c) /\ Resetting(c) /\ Marked(c)

Charging ==
    /\ TypeOK
    /\ \A c \in Client : Safe(c)
    /\ sync.pc \in {"readd", "ack", "drop"} => sync.cur \in sync.todo

LEMMA DeltaFacts ==
    ASSUME NEW n \in Nat, NEW l \in Nat, NEW m \in Nat
    PROVE  /\ Delta(n, l) \in Nat /\ Delta(n, l) <= n
           /\ Delta(0, l) = 0 /\ Delta(n, 0) = n
           /\ Delta(n + 1, l) <= Delta(n, l) + 1
           /\ m <= n => Delta(n, m) = n - m /\ Delta(n, l) <= Delta(m, l) + (n - m)
  BY DEF Delta

\* The numbers an invariant about one client speaks of.
LEMMA Numbers ==
    ASSUME TypeOK, NEW c \in Client
    PROVE  /\ last[c] \in Nat /\ counted[c] \in Nat /\ charged[c] \in Nat /\ Billed(c) \in Nat
           /\ sync.read[c] \in Nat /\ Counter(c) \in Nat
           /\ \A s \in Ipset : bytes[s][c] \in Nat
           /\ clients[c] \in Table!Row
           /\ clients[c].used_bytes \in Nat /\ clients[c].quota_bytes \in Nat
           /\ MaxTraffic \in Nat
<1>1. CoreOK
  BY Split
<1>2. clients[c] \in Table!Row
  BY <1>1, DaemonFields
<1>3. clients[c].used_bytes \in Nat /\ clients[c].quota_bytes \in Nat
  BY <1>2 DEF Table!Row
<1>4. last[c] \in Nat /\ counted[c] \in Nat /\ charged[c] \in Nat /\ sync.read[c] \in Nat
  BY <1>1, DaemonFields DEF Counts
<1>5. \A s \in Ipset : bytes[s][c] \in Nat
  BY <1>1, DaemonFields DEF Counts
<1>6. Counter(c) \in Nat
  BY <1>1, CounterType
<1>7. Billed(c) \in Nat
  BY <1>3, <1>4 DEF Billed
<1>8. QED
  BY <1>2, <1>3, <1>4, <1>5, <1>6, <1>7, Config

\* The firewall and the history of charging are the same for a client.
Untouched(c) ==
    /\ last'[c] = last[c] /\ charged'[c] = charged[c] /\ counted'[c] = counted[c]
    /\ \A s \in Ipset : (c \in members'[s] <=> c \in members[s]) /\ bytes'[s][c] = bytes[s][c]

LEMMA UntouchedSame ==
    ASSUME NEW c \in Client, Untouched(c)
    PROVE  /\ Member(c)' <=> Member(c)
           /\ Both(c)' <=> Both(c)
           /\ Dirty(c)' <=> Dirty(c)
           /\ Counter(c)' = Counter(c)
  BY DEF Untouched, Member, Both, Dirty, Counter

\* A step that leaves the usage of a row alone.
LEMMA BilledKept ==
    ASSUME NEW c \in Client, charged'[c] = charged[c],
           clients'[c].used_bytes = clients[c].used_bytes
    PROVE  /\ Billed(c)' = Billed(c)
           /\ Unbilled(c) /\ last'[c] = last[c] => Unbilled(c)'
  BY DEF Billed, Unbilled

\* The portal writes rows.  It never takes back a requested reset, and grace
\* is never granted without one.
RowRewritten(c) ==
    /\ clients'[c].used_bytes <= clients[c].used_bytes
    /\ \/ clients'[c].reset
       \/ /\ clients'[c].reset = clients[c].reset
          /\ clients'[c].status = "grace" => clients[c].status = "grace"

LEMMA RewritingSafe ==
    ASSUME TypeOK, TypeOK', NEW c \in Client, Safe(c), Untouched(c), sync' = sync,
           RowRewritten(c)
    PROVE  Safe(c)'
<1> DEFINE b == Billed(c)
           e == Billed(c)'
           used == clients'[c].used_bytes
<1>0. /\ used \in Nat /\ e \in Nat /\ used <= e /\ e <= b
      /\ b \in Nat /\ last[c] \in Nat /\ counted[c] \in Nat /\ Counter(c) \in Nat
      /\ sync.read[c] \in Nat /\ Delta(Counter(c), last[c]) \in Nat
      /\ Delta(sync.read[c], last[c]) \in Nat
  <2>1. /\ clients'[c].used_bytes \in Nat /\ clients[c].used_bytes \in Nat
        /\ charged[c] \in Nat /\ clients[c].used_bytes <= b
    BY Numbers DEF TypeOK, Table!TypeOK, Table!Row, Safe, Balanced
  <2>2. used \in Nat /\ e \in Nat /\ used <= e /\ e <= b /\ b \in Nat
    BY <2>1 DEF Billed, Untouched, RowRewritten
  <2>3. QED
    BY <2>2, Numbers, DeltaFacts
<1>1. Balanced(c)'
  BY <1>0 DEF Safe, Balanced, Untouched
<1>2. Covered(c)'
  <2>1. CASE Unread(c)
    BY <1>0, <2>1, UntouchedSame DEF Safe, Covered, Unread, Untouched
  <2>2. CASE ~Unread(c) /\ Awaiting(c)
    BY <2>2 DEF Covered, Unread, Awaiting, RowRewritten
  <2>3. CASE ~Unread(c) /\ ~Awaiting(c)
    BY <1>0, <2>3, UntouchedSame DEF Safe, Covered, Unread, Untouched
  <2>4. QED
    BY <2>1, <2>2, <2>3
<1>3. Resetting(c)'
  BY <1>0, UntouchedSame DEF Safe, Resetting, Untouched
<1>4. Unbilled(c) => Unbilled(c)'
  BY <1>0 DEF Unbilled, RowRewritten, Untouched
<1>5. Marked(c)'
  BY <1>4, UntouchedSame DEF Safe, Marked, Deciding, RowRewritten
<1>6. QED
  BY <1>1, <1>2, <1>3, <1>5 DEF Safe

\* The daemon goes from one phase to another, for a client it does not act on.
LEMMA PassingSafe ==
    ASSUME TypeOK, NEW c \in Client, Safe(c), Untouched(c), clients'[c] = clients[c],
           Covered(c)', Resetting(c)',
           Deciding(c)' => \/ sync'.rows[c] = clients[c]
                           \/ Deciding(c) /\ sync'.rows[c] = sync.rows[c]
    PROVE  Safe(c)'
<1>1. Balanced(c)'
  BY BilledKept DEF Safe, Balanced, Untouched
<1>2. Unbilled(c) => Unbilled(c)'
  BY BilledKept DEF Untouched
<1>3. Marked(c)'
  BY <1>2, UntouchedSame DEF Safe, Marked
<1>4. QED
  BY <1>1, <1>3 DEF Safe

\* What the transactions do to the fields that matter here.
LEMMA RowEffects ==
    ASSUME NEW r \in Table!Row, NEW t \in Nat
    PROVE  /\ LET g == Table!GrantRow(Table!SettledRow(Table!EnsuredRow(r), t), t) IN
                  g.reset /\ g.used_bytes = 0
           /\ LET g == Table!SettledRow(Table!EnsuredRow(r), t) IN
                  /\ g.used_bytes = r.used_bytes /\ g.reset = r.reset
                  /\ g.status = "grace" => r.status = "grace"
           /\ \A q \in Quota : LET g == Table!CreditRow(Table!EnsuredRow(r), q, t) IN
                  g.reset /\ g.used_bytes <= r.used_bytes
           /\ LET g == Table!Expired(r) IN
                  /\ g.used_bytes = r.used_bytes /\ g.reset = r.reset
                  /\ g.quota_bytes = r.quota_bytes /\ g.status = "expired"
<1>1. LET g == Table!GrantRow(Table!SettledRow(Table!EnsuredRow(r), t), t) IN
          g.reset /\ g.used_bytes = 0
  <2>1. Table!CountedRow(Table!SettledRow(Table!EnsuredRow(r), t), t) \in Table!Row
    <3>1. Table!SettledRow(Table!EnsuredRow(r), t) \in Table!Row
      BY RowTypes
    <3> DEFINE x == Table!SettledRow(Table!EnsuredRow(r), t)
    <3> HIDE DEF x
    <3>2. x \in Table!Row
      BY <3>1 DEF x
    <3>3. Table!NextGraceCount(x, t) \in Nat
      BY <3>2 DEF Table!NextGraceCount, Table!Row
    <3>4. Table!CountedRow(x, t) \in Table!Row
      BY <3>2, <3>3 DEF Table!CountedRow, Table!Row
    <3>5. QED
      BY <3>4 DEF x
  <2> DEFINE y == Table!CountedRow(Table!SettledRow(Table!EnsuredRow(r), t), t)
  <2>2. Table!GrantRow(Table!SettledRow(Table!EnsuredRow(r), t), t)
            = [y EXCEPT !.status = "grace", !.grace_until = t + GraceDuration,
                        !.quota_bytes = GraceQuota, !.used_bytes = 0, !.reset = TRUE]
    BY DEF Table!GrantRow
  <2> HIDE DEF y
  <2>3. y \in Table!Row
    BY <2>1 DEF y
  <2>4. QED
    BY <2>2, <2>3 DEF Table!Row
<1>2. LET g == Table!SettledRow(Table!EnsuredRow(r), t) IN
          /\ g.used_bytes = r.used_bytes /\ g.reset = r.reset
          /\ g.status = "grace" => r.status = "grace"
  BY DEF Table!SettledRow, Table!EnsuredRow, Table!Expired, Table!Row
<1>3. ASSUME NEW q \in Quota
      PROVE  LET g == Table!CreditRow(Table!EnsuredRow(r), q, t) IN
                 g.reset /\ g.used_bytes <= r.used_bytes
  <2> DEFINE e == Table!EnsuredRow(r)
  <2>1. e \in Table!Row /\ e.used_bytes = r.used_bytes
    BY RowTypes DEF Table!EnsuredRow, Table!Row
  <2> HIDE DEF e
  <2>2. Table!CreditRow(e, q, t).reset
    BY <2>1 DEF Table!CreditRow, Table!Row
  <2>3. Table!CreditRow(e, q, t).used_bytes = IF e.status = "grace" THEN 0 ELSE e.used_bytes
    BY <2>1 DEF Table!CreditRow, Table!Row
  <2>4. e.used_bytes \in Nat
    BY <2>1 DEF Table!Row
  <2>5. QED
    BY <2>1, <2>2, <2>3, <2>4 DEF e
<1>4. LET g == Table!Expired(r) IN
          /\ g.used_bytes = r.used_bytes /\ g.reset = r.reset
          /\ g.quota_bytes = r.quota_bytes /\ g.status = "expired"
  BY DEF Table!Expired, Table!Row
<1>5. QED
  BY <1>1, <1>2, <1>3, <1>4

\* A row that is deleted takes what it was charged with it, and its counter
\* stays: all of that is charged again to the row that follows, but no more.
LEMMA RevokeSafe ==
    ASSUME Charging, TypeOK', NEW c \in Client, Revoke(c)
    PROVE  Charging'
<1>1. TypeOK /\ TypeOK' /\ (\A d \in Client : Safe(d)) /\ MaxRevokes # 0
  BY DEF Charging, Revoke, TypeOK
<1>2. /\ sync' = sync /\ members' = members /\ bytes' = bytes
      /\ counted' = counted /\ charged' = charged
      /\ last'[c] = 0 /\ clients'[c] = Table!NoRow
      /\ \A d \in Client : d # c => clients'[d] = clients[d] /\ last'[d] = last[d]
  BY <1>1 DEF Revoke, Table!Revoke, Table!SetRow, TypeOK, Counts, Table!TypeOK
<1>3. ASSUME NEW d \in Client, d # c PROVE Safe(d)'
  <2>1. Untouched(d) /\ RowRewritten(d)
    BY <1>1, <1>2, <1>3, Numbers DEF Untouched, RowRewritten
  <2>2. QED
    BY <1>1, <1>2, <2>1, RewritingSafe
<1>4. Safe(c)'
  <2>1. clients'[c].used_bytes = 0 /\ clients'[c].status = "absent"
    BY <1>2 DEF Table!NoRow
  <2>2. Billed(c)' = 0 /\ Unbilled(c)'
    BY <1>1, <1>2, <2>1 DEF Billed, Unbilled
  <2>3. /\ Counter(c)' = Counter(c) /\ (Member(c)' <=> Member(c))
        /\ (Both(c)' <=> Both(c)) /\ (Unread(c)' <=> Unread(c))
        /\ (Dirty(c)' <=> Dirty(c))
    BY <1>2 DEF Counter, Member, Both, Unread, Dirty
  <2>4. /\ Counter(c) \in Nat /\ sync.read[c] \in Nat /\ counted[c] \in Nat
        /\ Delta(Counter(c), 0) = Counter(c) /\ Delta(sync.read[c], 0) = sync.read[c]
    BY <1>1, Numbers, DeltaFacts
  <2>5. Counter(c) <= counted[c]
    BY <1>1, <2>4 DEF Safe, Balanced, Counter, Ipset
  <2>6. Balanced(c)'
    BY <1>1, <1>2, <2>1, <2>2, <2>4 DEF Safe, Balanced
  <2>7. Covered(c)'
    BY <1>1, <1>2, <2>2, <2>3, <2>4, <2>5 DEF Safe, Covered
  <2>8. Resetting(c)'
    BY <1>1, <1>2, <2>2, <2>3, <2>4, <2>5 DEF Safe, Resetting
  <2>9. Marked(c)'
    BY <2>1, <2>2 DEF Marked
  <2>10. QED
    BY <2>6, <2>7, <2>8, <2>9 DEF Safe
<1>5. QED
  BY <1>1, <1>2, <1>3, <1>4 DEF Charging

LEMMA PortalSafe ==
    ASSUME Charging, TypeOK', Portal \/ Tick
    PROVE  Charging'
<1> SUFFICES ASSUME \A c \in Client : ~Revoke(c)
             PROVE  Charging'
  BY RevokeSafe
<1>1. \A d \in Client : clients[d] \in Table!Row /\ clients[d].used_bytes \in Nat
  BY Numbers DEF Charging
<1>2. /\ sync' = sync /\ \A d \in Client : Untouched(d) /\ RowRewritten(d)
  <2>1. ASSUME NEW c \in Client, RowRewritten(c),
               \A d \in Client : d # c => clients'[d] = clients[d]
        PROVE  \A d \in Client : RowRewritten(d)
    BY <1>1, <2>1 DEF RowRewritten
  <2>2. \A c \in Client :
            /\ Table!EnsuredRow(clients[c]) \in Table!Row
            /\ Table!SettledRow(Table!EnsuredRow(clients[c]), now) \in Table!Row
            /\ Table!GrantRow(Table!SettledRow(Table!EnsuredRow(clients[c]), now), now) \in Table!Row
            /\ \A q \in Quota : Table!CreditRow(Table!EnsuredRow(clients[c]), q, now) \in Table!Row
            /\ Table!Expired(clients[c]) \in Table!Row
    BY <1>1, RowTypes DEF Charging, TypeOK, Table!TypeOK
  <2>3. now \in Nat
    BY DEF Charging, TypeOK, Table!TypeOK
  <2>4. ASSUME NEW c \in Client, GrantGrace(c) PROVE \A d \in Client : RowRewritten(d)
    <3> DEFINE g == Table!GrantRow(Table!SettledRow(Table!EnsuredRow(clients[c]), now), now)
    <3>1. g \in Table!Row /\ g.reset /\ g.used_bytes = 0
      BY <1>1, <2>2, <2>3, RowEffects
    <3>2. clients'[c] = g /\ \A d \in Client : d # c => clients'[d] = clients[d]
      BY <2>4 DEF GrantGrace, Table!GrantGrace, Table!SetRow, Charging, TypeOK, Table!TypeOK
    <3> HIDE DEF g
    <3>3. RowRewritten(c)
      BY <1>1, <3>1, <3>2 DEF RowRewritten
    <3>4. QED
      BY <2>1, <3>2, <3>3
  <2>5. ASSUME NEW c \in Client, RefuseGrace(c) PROVE \A d \in Client : RowRewritten(d)
    <3> DEFINE g == Table!SettledRow(Table!EnsuredRow(clients[c]), now)
    <3>1. /\ g \in Table!Row /\ g.reset = clients[c].reset
          /\ g.used_bytes = clients[c].used_bytes
          /\ g.status = "grace" => clients[c].status = "grace"
      BY <1>1, <2>2, <2>3, RowEffects
    <3>2. clients'[c] = g /\ \A d \in Client : d # c => clients'[d] = clients[d]
      BY <2>5 DEF RefuseGrace, Table!RefuseGrace, Table!SetRow, Charging, TypeOK, Table!TypeOK
    <3> HIDE DEF g
    <3>3. RowRewritten(c)
      BY <1>1, <3>1, <3>2 DEF RowRewritten
    <3>4. QED
      BY <2>1, <3>2, <3>3
  <2>6. ASSUME NEW c \in Client, NEW q \in Quota, MarkPaid(c, q)
        PROVE  \A d \in Client : RowRewritten(d)
    <3> DEFINE g == Table!CreditRow(Table!EnsuredRow(clients[c]), q, now)
    <3>1. g.reset /\ g.used_bytes <= clients[c].used_bytes
      BY <1>1, <2>2, <2>3, RowEffects
    <3>2. clients'[c] = g /\ \A d \in Client : d # c => clients'[d] = clients[d]
      BY <2>6 DEF MarkPaid, Table!MarkPaid, Table!SetRow, Charging, TypeOK, Table!TypeOK
    <3> HIDE DEF g
    <3>3. RowRewritten(c)
      BY <1>1, <3>1, <3>2 DEF RowRewritten
    <3>4. QED
      BY <2>1, <3>2, <3>3
  <2>7. ASSUME NEW w \in Worker, IndexExpire(w) PROVE \A d \in Client : RowRewritten(d)
    <3> DEFINE c == page[w]
    <3>1. c \in Client
      BY <2>7 DEF IndexExpire, Charging, TypeOK
    <3>2. \/ clients' = [clients EXCEPT ![c] = Table!Expired(clients[c])]
          \/ clients' = clients
      BY <2>7, <3>1 DEF IndexExpire
    <3> HIDE DEF c
    <3>3. CASE clients' = clients
      BY <1>1, <3>3 DEF RowRewritten
    <3>4. CASE clients' = [clients EXCEPT ![c] = Table!Expired(clients[c])]
      <4> DEFINE g == Table!Expired(clients[c])
      <4>1. /\ g \in Table!Row /\ g.reset = clients[c].reset /\ g.status = "expired"
            /\ g.used_bytes = clients[c].used_bytes
        BY <1>1, <2>2, <2>3, <3>1, RowEffects
      <4>2. clients'[c] = g /\ \A d \in Client : d # c => clients'[d] = clients[d]
        BY <3>1, <3>4 DEF Charging, TypeOK, Table!TypeOK
      <4> HIDE DEF g
      <4>3. RowRewritten(c)
        BY <1>1, <3>1, <4>1, <4>2 DEF RowRewritten
      <4>4. QED
        BY <2>1, <3>1, <4>2, <4>3
    <3>5. QED
      BY <3>2, <3>3, <3>4
  <2>8. ASSUME clients' = clients PROVE \A d \in Client : RowRewritten(d)
    BY <1>1, <2>8 DEF RowRewritten
  <2>9. \A d \in Client : RowRewritten(d)
    BY <2>4, <2>5, <2>6, <2>7, <2>8 DEF Portal, IndexRead, Tick, Table!Tick
  <2>10. sync' = sync /\ \A d \in Client : Untouched(d)
    BY DEF Portal, GrantGrace, RefuseGrace, MarkPaid, IndexRead, IndexExpire,
           Tick, Untouched
  <2>11. QED
    BY <2>9, <2>10
<1>3. QED
  BY <1>2, RewritingSafe DEF Charging

\* Bytes that pass are counted where the daemon will read them.
LEMMA TrafficSafe ==
    ASSUME Charging, TypeOK', NEW c \in Client, Traffic(c)
    PROVE  Charging'
<1>1. ASSUME NEW d \in Client PROVE Safe(d)'
  <2>1. TypeOK /\ Safe(d)
    BY DEF Charging
  <2>2. CASE d # c
    <3>1. Untouched(d) /\ RowRewritten(d) /\ sync' = sync
      BY <2>1, <2>2, Numbers DEF Traffic, Untouched, RowRewritten, TypeOK, Counts
    <3>2. QED
      BY <2>1, <3>1, RewritingSafe
  <2>3. CASE d = c
    <3> DEFINE set == IF c \in members["paid_ips"] THEN "paid_ips" ELSE "grace_ips"
    <3>a. PICK n \in 1..MaxTraffic :
              /\ counted[c] + n <= MaxTraffic
              /\ bytes' = [bytes EXCEPT ![set][c] = @ + n]
              /\ counted' = [counted EXCEPT ![c] = @ + n]
      BY DEF Traffic
    <3>b. n \in Nat /\ n >= 1 /\ set \in Ipset
      BY <3>a, Numbers DEF Ipset
    <3>1. /\ Counter(c)' = Counter(c) + n /\ counted'[c] = counted[c] + n
          /\ counted[c] + n <= MaxTraffic
          /\ \A s \in Ipset : c \notin members[s] => bytes'[s][c] = bytes[s][c]
      BY <2>1, <3>a, <3>b DEF Traffic, Counter, TypeOK, Counts, Member
    <3>2. /\ clients' = clients /\ members' = members /\ sync' = sync
          /\ last' = last /\ charged' = charged /\ Member(c)
          /\ Both(c) => bytes'["grace_ips"][c] = bytes["grace_ips"][c]
      BY DEF Traffic, Both, TypeOK, Counts
    <3>3. (Member(c)' <=> Member(c)) /\ (Both(c)' <=> Both(c)) /\ (Dirty(c)' <=> Dirty(c))
      BY <3>2 DEF Member, Both, Dirty
    <3>0. Billed(c)' = Billed(c) /\ (Unbilled(c) => Unbilled(c)')
      BY <3>2, BilledKept
    <3>4. Balanced(c)'
      <4>1. \A s \in Ipset : bytes'[s][c] \in {bytes[s][c], bytes[s][c] + n}
        BY <2>1, <3>a, <3>b DEF TypeOK, Counts
      <4>2. QED
        BY <2>1, <2>3, <3>b, <3>0, <3>1, <3>2, <4>1, Numbers DEF Safe, Balanced
    <3>5. Covered(c)'
      <4>1. CASE Unread(c)
        BY <2>1, <2>3, <3>b, <3>0, <3>1, <3>2, <3>3, <4>1, Numbers DEF Safe, Covered, Unread, Delta
      <4>2. CASE ~Unread(c) /\ Awaiting(c)
        BY <3>2, <4>2 DEF Covered, Unread, Awaiting
      <4>3. CASE ~Unread(c) /\ ~Awaiting(c)
        BY <2>1, <2>3, <3>b, <3>0, <3>1, <3>2, <4>3, Numbers DEF Safe, Covered, Unread, Delta
      <4>4. QED
        BY <4>1, <4>2, <4>3
    <3>6. Resetting(c)'
      BY <2>1, <2>3, <3>b, <3>0, <3>1, <3>2, <3>3, Numbers DEF Safe, Resetting
    <3>7. Marked(c)'
      BY <2>1, <2>3, <3>0, <3>2, <3>3 DEF Safe, Marked, Deciding
    <3>8. QED
      BY <2>3, <3>4, <3>5, <3>6, <3>7 DEF Safe
  <2>4. QED
    BY <2>2, <2>3
<1>2. QED
  BY <1>1 DEF Charging, Traffic

\* A counter and the last value read of it, after a cycle has been given up.
LEMMA UnreadSettles ==
    ASSUME TypeOK, NEW c \in Client, Safe(c)
    PROVE  /\ Unread(c) => Billed(c) + Delta(Counter(c), last[c]) <= counted[c]
           /\ Resetting(c) /\ sync.pc \in {"readd", "ack"} /\ c = sync.cur =>
                  Billed(c) + Delta(Counter(c), last[c]) <= counted[c]
<1> DEFINE n == Counter(c)
           m == sync.read[c]
           l == last[c]
<1>1. n \in Nat /\ m \in Nat /\ l \in Nat /\ Billed(c) \in Nat /\ counted[c] \in Nat
  BY Numbers
<1>2. /\ Unread(c) => m <= n /\ Billed(c) + Delta(m, l) + (n - m) <= counted[c]
      /\ Resetting(c) /\ sync.pc \in {"readd", "ack"} /\ c = sync.cur =>
             Billed(c) + n <= counted[c]
  BY DEF Safe, Covered, Resetting
<1> HIDE DEF n, m, l
<1>3. /\ Unread(c) => Billed(c) + Delta(n, l) <= counted[c]
      /\ Resetting(c) /\ sync.pc \in {"readd", "ack"} /\ c = sync.cur =>
             Billed(c) + Delta(n, l) <= counted[c]
  BY <1>1, <1>2 DEF Delta
<1>4. QED
  BY <1>3 DEF n, l

\* The steps by which the daemon goes from one phase to the next.
LEMMA PhaseSafe ==
    ASSUME Charging, TypeOK',
           SyncBegin \/ Collect \/ SyncSelect \/ SyncEnd \/ SyncCrash
    PROVE  Charging'
<1>1. TypeOK /\ CoreOK /\ (\A c \in Client : Safe(c)) /\ NoClient \notin Client
  BY Split, Config DEF Charging
<1>2. /\ clients' = clients /\ last' = last /\ members' = members /\ bytes' = bytes
      /\ charged' = charged /\ counted' = counted
  BY DEF SyncBegin, Collect, SyncSelect, SyncEnd, SyncCrash
<1>3. \A c \in Client : Untouched(c)
  BY <1>2 DEF Untouched
<1>4. sync'.pc \in {"idle", "reset", "charge", "enforce"}
  BY <1>1, IdleType DEF SyncBegin, Collect, SyncSelect, SyncEnd, SyncCrash, CoreOK, Daemon
<1>5. ASSUME NEW c \in Client
      PROVE  Covered(c)' /\ (Deciding(c)' => sync'.rows[c] = clients[c])
  <2>1. TypeOK /\ Safe(c) /\ Untouched(c)
    BY <1>1, <1>3
  <2>2. /\ Counter(c)' = Counter(c) /\ (Member(c)' <=> Member(c))
        /\ Counter(c) \in Nat /\ last[c] \in Nat /\ Billed(c) \in Nat /\ counted[c] \in Nat
        /\ Billed(c)' = Billed(c)
    BY <1>2, <2>1, UntouchedSame, BilledKept, Numbers
  <2>3. CASE SyncBegin
    <3>1. /\ sync.pc = "idle" /\ sync'.pc = "reset" /\ sync'.cur = sync.cur
          /\ clients[c].reset => c \in sync'.todo
          /\ c # sync.cur
      BY <1>1, <2>3 DEF SyncBegin, CoreOK, Daemon
    <3>2. QED
      BY <1>2, <2>1, <2>2, <3>1 DEF Safe, Covered, Unread, Awaiting, Deciding
  <2>4. CASE Collect
    <3>1. /\ sync.pc = "reset" /\ c \notin sync.todo /\ sync'.pc = "charge"
          /\ c \in sync'.todo => Member(c)
          /\ sync'.read[c] = IF Member(c) THEN Counter(c) ELSE 0
      BY <1>1, <2>4 DEF Collect, CoreOK, Daemon
    <3>2. Billed(c) + Delta(Counter(c), last[c]) <= counted[c]
      BY <2>1, <3>1 DEF Safe, Covered, Unread, Awaiting
    <3>3. Delta(Counter(c), last[c]) \in Nat
      BY <2>2, DeltaFacts
    <3>4. ~Deciding(c)'
      BY <3>1 DEF Deciding
    <3>5. CASE c \in sync'.todo
      <4>1. /\ Unread(c)' /\ Member(c)' /\ sync'.read[c] = Counter(c)'
            /\ Billed(c)' + Delta(sync'.read[c], last'[c]) + (Counter(c)' - sync'.read[c]) <= counted'[c]
        BY <1>2, <2>2, <3>1, <3>2, <3>3, <3>5 DEF Unread
      <4>2. QED
        BY <2>2, <3>4, <4>1 DEF Covered
    <3>6. CASE c \notin sync'.todo
      BY <1>2, <2>2, <3>2, <3>4, <3>6 DEF Covered, Unread
    <3>7. QED
      BY <3>5, <3>6
  <2>5. CASE SyncSelect
    <3>1. /\ sync.pc = "charge" /\ c \notin sync.todo /\ sync'.pc = "enforce"
          /\ sync'.rows = clients
      BY <1>1, <2>5 DEF SyncSelect, CoreOK, Daemon
    <3>2. Billed(c) + Delta(Counter(c), last[c]) <= counted[c]
      BY <2>1, <3>1 DEF Safe, Covered, Unread, Awaiting
    <3>3. QED
      BY <1>2, <2>2, <3>1, <3>2 DEF Covered, Unread
  <2>6. CASE SyncEnd
    <3>1. sync.pc = "enforce" /\ sync'.pc = "idle"
      BY <1>1, <2>6, IdleType DEF SyncEnd
    <3>2. QED
      BY <1>2, <2>1, <2>2, <3>1 DEF Safe, Covered, Unread, Awaiting, Deciding
  <2>7. CASE SyncCrash
    <3>1. sync'.pc = "idle" /\ ~Unread(c)' /\ ~Deciding(c)'
      BY <2>7, IdleType DEF SyncCrash, Unread, Deciding
    <3>2. Awaiting(c) => Awaiting(c)'
      BY <1>2, <3>1 DEF Awaiting
    <3>3. ~Awaiting(c) => Billed(c) + Delta(Counter(c), last[c]) <= counted[c]
      BY <2>1, UnreadSettles DEF Safe, Covered
    <3>4. QED
      BY <1>2, <2>2, <3>1, <3>2, <3>3 DEF Covered
  <2>8. QED
    BY <2>3, <2>4, <2>5, <2>6, <2>7
<1>6. ASSUME NEW c \in Client PROVE Safe(c)'
  <2>1. Resetting(c)'
    BY <1>4 DEF Resetting
  <2>2. QED
    BY <1>1, <1>2, <1>3, <1>5, <2>1, PassingSafe
<1>7. QED
  BY <1>4, <1>6 DEF Charging

\* A client the daemon does not act on in this step: what was awaited still is.
LEMMA OthersSafe ==
    ASSUME TypeOK, NEW c \in Client, Safe(c), Untouched(c), clients'[c] = clients[c],
           c # sync.cur, c # sync'.cur,
           c \in sync'.todo <=> c \in sync.todo,
           sync'.rows[c] = sync.rows[c], sync'.read[c] = sync.read[c],
           \/ sync'.pc = sync.pc
           \/ sync.pc \in {"reset", "readd", "ack"} /\ sync'.pc \in {"reset", "readd", "ack"}
           \/ sync.pc \in {"enforce", "drop"} /\ sync'.pc \in {"enforce", "drop"}
    PROVE  Safe(c)'
<1>1. /\ Unread(c)' <=> Unread(c)
      /\ Awaiting(c)' <=> Awaiting(c)
      /\ Deciding(c)' <=> Deciding(c)
  BY DEF Unread, Awaiting, Deciding
<1>2. Covered(c)'
  BY <1>1, UntouchedSame, BilledKept DEF Safe, Covered, Untouched
<1>3. Resetting(c)'
  BY DEF Resetting
<1>4. QED
  BY <1>1, <1>2, <1>3, PassingSafe

\* Step 0: out of both sets, into one, acknowledged.
LEMMA ResetOutSafe ==
    ASSUME Charging, TypeOK', NEW c \in Client, ResetOut(c)
    PROVE  Charging'
<1>1. TypeOK /\ CoreOK /\ (\A d \in Client : Safe(d)) /\ NoClient \notin Client
  BY Split, Config DEF Charging
<1>2. /\ sync.pc = "reset" /\ sync.cur \notin Client /\ c \in sync.todo
      /\ sync'.pc = "readd" /\ sync'.cur = c /\ sync'.todo = sync.todo
      /\ sync'.rows = sync.rows /\ sync'.read = sync.read
      /\ clients' = clients /\ last' = last /\ charged' = charged /\ counted' = counted
  BY <1>1 DEF ResetOut, CoreOK, Daemon
<1>3. ASSUME NEW d \in Client, d # c PROVE Safe(d)'
  <2>1. Untouched(d)
    BY <1>1, <1>2, <1>3 DEF ResetOut, Untouched, CoreOK, Counts
  <2>2. QED
    BY <1>1, <1>2, <1>3, <2>1, OthersSafe
<1>4. Safe(c)'
  <2>1. \A s \in Ipset : c \notin members'[s] /\ bytes'[s][c] = 0
    BY <1>1 DEF ResetOut, CoreOK, Counts
  <2>2. ~Member(c)' /\ ~Both(c)' /\ ~Dirty(c)' /\ Counter(c)' = 0
    BY <2>1 DEF Member, Both, Dirty, Counter
  <2>3. /\ ~Unread(c)' /\ ~Deciding(c)'
        /\ Billed(c) \in Nat /\ last[c] \in Nat /\ counted[c] \in Nat
        /\ Billed(c)' = Billed(c)
    BY <1>1, <1>2, BilledKept, Numbers DEF Unread, Deciding
  <2>4. Billed(c) + Delta(0, last[c]) <= counted[c]
    BY <1>1, <2>3 DEF Safe, Balanced, Delta
  <2>5. Balanced(c)'
    BY <1>1, <1>2, <2>1, <2>3 DEF Safe, Balanced
  <2>6. Covered(c)'
    BY <1>2, <2>2, <2>3, <2>4 DEF Covered
  <2>7. Resetting(c)' /\ Marked(c)'
    BY <1>1, <1>2, <2>2, <2>3 DEF Safe, Balanced, Resetting, Marked
  <2>8. QED
    BY <2>5, <2>6, <2>7 DEF Safe
<1>5. QED
  BY <1>2, <1>3, <1>4 DEF Charging

LEMMA ResetAddSafe ==
    ASSUME Charging, TypeOK', ResetAdd, NEW c \in Client, c = sync.cur
    PROVE  Charging'
<1>1. TypeOK /\ CoreOK /\ (\A d \in Client : Safe(d)) /\ c \in Client /\ c \in sync.todo
  BY Split DEF Charging, ResetAdd, CoreOK
<1>2. /\ sync.pc = "readd" /\ sync'.pc = "ack" /\ sync'.cur = c /\ sync'.todo = sync.todo
      /\ sync'.rows = sync.rows /\ sync'.read = sync.read
      /\ clients' = clients /\ last' = last /\ charged' = charged /\ counted' = counted
      /\ bytes' = bytes
  BY <1>1 DEF ResetAdd, CoreOK, Daemon
<1>3. \A s \in Ipset : members'[s] = IF s = Target(sync.rows[c], sync.at)
                                     THEN members[s] \cup {c} ELSE members[s]
  BY DEF ResetAdd
<1>4. ASSUME NEW d \in Client, d # c PROVE Safe(d)'
  <2>1. Untouched(d)
    BY <1>2, <1>3, <1>4 DEF Untouched
  <2>2. QED
    BY <1>1, <1>2, <1>4, <2>1, OthersSafe
<1>5. Safe(c)'
  <2>1. \A s \in Ipset : c \notin members[s] /\ bytes[s][c] = 0
    BY <1>1, <1>2 DEF Safe, Resetting, Balanced, Member
  <2>2. ~Both(c)' /\ ~Dirty(c)' /\ Counter(c)' = 0
    BY <1>2, <1>3, <2>1 DEF Both, Dirty, Counter
  <2>3. /\ ~Unread(c)' /\ ~Deciding(c)'
        /\ Billed(c) \in Nat /\ last[c] \in Nat /\ counted[c] \in Nat
        /\ Billed(c)' = Billed(c)
    BY <1>1, <1>2, BilledKept, Numbers DEF Unread, Deciding
  <2>4. Billed(c) + Delta(0, last[c]) <= counted[c]
    BY <1>1, <2>3 DEF Safe, Balanced, Delta
  <2>5. Balanced(c)'
    BY <1>1, <1>2, <2>1, <2>3 DEF Safe, Balanced
  <2>6. Covered(c)'
    BY <1>2, <2>2, <2>3, <2>4 DEF Covered
  <2>7. Resetting(c)' /\ Marked(c)'
    BY <1>1, <1>2, <2>2, <2>3 DEF Safe, Balanced, Resetting, Marked
  <2>8. QED
    BY <2>5, <2>6, <2>7 DEF Safe
<1>6. QED
  BY <1>1, <1>2, <1>4, <1>5 DEF Charging

LEMMA ResetCommitSafe ==
    ASSUME Charging, TypeOK', ResetCommit, NEW c \in Client, c = sync.cur
    PROVE  Charging'
<1>1. /\ TypeOK /\ CoreOK /\ (\A d \in Client : Safe(d)) /\ c \in Client
      /\ NoClient \notin Client /\ clients[c] \in Table!Row
  BY Split, Config, Numbers DEF Charging, ResetCommit, CoreOK
<1>2. /\ sync.pc = "ack" /\ sync'.pc = "reset" /\ sync'.cur = NoClient
      /\ sync'.todo = sync.todo \ {c}
      /\ sync'.rows = sync.rows /\ sync'.read = sync.read
      /\ charged' = charged /\ counted' = counted /\ bytes' = bytes /\ members' = members
  BY <1>1 DEF ResetCommit, CoreOK, Daemon
<1>3. /\ last'[c] = 0 /\ clients'[c] = [clients[c] EXCEPT !.reset = FALSE]
      /\ \A d \in Client : d # c => clients'[d] = clients[d] /\ last'[d] = last[d]
  BY <1>1 DEF ResetCommit, CoreOK, Counts, Table!TypeOK
<1>4. clients'[c].used_bytes = clients[c].used_bytes
  BY <1>1, <1>3 DEF Table!Row
<1>5. ASSUME NEW d \in Client, d # c PROVE Safe(d)'
  <2>1. Untouched(d)
    BY <1>2, <1>3, <1>5 DEF Untouched
  <2>2. QED
    BY <1>1, <1>2, <1>3, <1>5, <2>1, OthersSafe
<1>6. Safe(c)'
  <2>1. ~Both(c) /\ Billed(c) + Counter(c) <= counted[c]
    BY <1>1, <1>2 DEF Safe, Resetting
  <2>2. ~Both(c)' /\ ~Dirty(c)' /\ Counter(c)' = Counter(c)
    BY <1>2, <2>1 DEF Both, Dirty, Counter
  <2>3. ~Unread(c)' /\ ~Deciding(c)' /\ Billed(c)' = Billed(c)
    BY <1>2, <1>4, BilledKept DEF Unread, Deciding
  <2>4. Delta(Counter(c), 0) = Counter(c)
    BY <1>1, Numbers, DeltaFacts
  <2>5. Balanced(c)'
    BY <1>1, <1>2, <1>4, <2>3 DEF Safe, Balanced
  <2>6. Covered(c)'
    BY <1>2, <1>3, <2>1, <2>2, <2>3, <2>4 DEF Covered
  <2>7. Resetting(c)' /\ Marked(c)'
    BY <1>2, <2>2, <2>3 DEF Resetting, Marked
  <2>8. QED
    BY <2>5, <2>6, <2>7 DEF Safe
<1>7. QED
  BY <1>2, <1>5, <1>6 DEF Charging

\* Step 1: what was read is charged, if there is still a row to charge.
LEMMA ChargeOneSafe ==
    ASSUME Charging, TypeOK', NEW c \in Client, ChargeOne(c)
    PROVE  Charging'
<1> DEFINE delta == Delta(sync.read[c], last[c])
<1>1. /\ TypeOK /\ CoreOK /\ (\A d \in Client : Safe(d)) /\ NoClient \notin Client
      /\ clients[c] \in Table!Row
  BY Split, Config, Numbers DEF Charging
<1>2. /\ sync.pc = "charge" /\ sync'.pc = "charge" /\ c \in sync.todo
      /\ sync.cur \notin Client /\ sync'.cur = sync.cur
      /\ sync'.todo = sync.todo \ {c} /\ sync'.rows = sync.rows
      /\ \A d \in Client : d # c => sync'.read[d] = sync.read[d]
      /\ counted' = counted /\ bytes' = bytes /\ members' = members
  BY <1>1 DEF ChargeOne, CoreOK, Daemon, Counts
<1>3. \/ /\ clients'[c].used_bytes = clients[c].used_bytes + delta
         /\ clients'[c].status = clients[c].status /\ clients'[c].reset = clients[c].reset
         /\ last'[c] = sync.read[c] /\ charged'[c] = charged[c] + delta
      \/ clients'[c] = clients[c] /\ last'[c] = last[c] /\ charged'[c] = charged[c]
  BY <1>1 DEF ChargeOne, CoreOK, Counts, Table!TypeOK, Table!Row
<1>4. \A d \in Client : d # c =>
          clients'[d] = clients[d] /\ last'[d] = last[d] /\ charged'[d] = charged[d]
  BY <1>1 DEF ChargeOne, CoreOK, Counts, Table!TypeOK
<1>5. ASSUME NEW d \in Client, d # c PROVE Safe(d)'
  <2>1. Untouched(d)
    BY <1>2, <1>4, <1>5 DEF Untouched
  <2>2. QED
    BY <1>1, <1>2, <1>4, <1>5, <2>1, OthersSafe
<1>6. Safe(c)'
  <2> DEFINE n == Counter(c)
             m == sync.read[c]
             l == last[c]
  <2>1. /\ n \in Nat /\ m \in Nat /\ l \in Nat /\ Billed(c) \in Nat /\ counted[c] \in Nat
        /\ clients[c].used_bytes \in Nat /\ delta \in Nat /\ MaxTraffic \in Nat
    BY <1>1, Numbers, DeltaFacts
  <2>2. /\ m <= n /\ Billed(c) + delta + (n - m) <= counted[c] /\ delta = Delta(m, l)
        /\ clients[c].used_bytes <= Billed(c) /\ counted[c] <= MaxTraffic
        /\ \A s \in Ipset : c \notin members[s] => bytes[s][c] = 0
        /\ \A s \in Ipset : bytes[s][c] <= counted[c]
    BY <1>1, <1>2 DEF Safe, Covered, Unread, Balanced
  <2>3. /\ Counter(c)' = n
        /\ (Both(c)' <=> Both(c)) /\ (Dirty(c)' <=> Dirty(c))
    BY <1>2 DEF Counter, Both, Dirty
  <2>4. ~Unread(c)' /\ ~Deciding(c)'
    BY <1>2 DEF Unread, Deciding
  <2>5. \/ last'[c] = m /\ Billed(c)' = Billed(c) + delta
        \/ last'[c] = l /\ Billed(c)' = Billed(c)
    BY <1>3 DEF Billed
  <2>6. Marked(c)'
    BY <1>1, <1>3, <2>3, <2>4 DEF Safe, Marked
  <2>7. clients'[c].used_bytes <= Billed(c)'
    BY <1>1, <1>3, <2>1, <2>2, Numbers DEF Billed
  <2> HIDE DEF n, m, l, delta
  <2>8. Billed(c)' <= counted[c]
    BY <2>1, <2>2, <2>5
  <2>9. Billed(c)' + Delta(n, last'[c]) <= counted[c]
    BY <2>1, <2>2, <2>5 DEF Delta
  <2>10. Balanced(c)'
    BY <1>2, <2>2, <2>7, <2>8 DEF Balanced
  <2>11. Covered(c)'
    BY <1>2, <2>3, <2>4, <2>9 DEF Covered
  <2>12. Resetting(c)'
    BY <1>2 DEF Resetting
  <2>13. QED
    BY <2>6, <2>10, <2>11, <2>12 DEF Safe
<1>7. QED
  BY <1>2, <1>5, <1>6 DEF Charging

\* Step 2: into the set the row asked for...
LEMMA AdmitSafe ==
    ASSUME Charging, TypeOK', NEW c \in Client, Admit(c)
    PROVE  Charging'
<1> DEFINE target == Target(sync.rows[c], sync.at)
<1>1. TypeOK /\ CoreOK /\ (\A d \in Client : Safe(d)) /\ NoClient \notin Client
  BY Split, Config DEF Charging
<1>2. /\ sync.pc = "enforce" /\ sync'.pc = "drop" /\ c \in sync.todo
      /\ sync.cur \notin Client /\ sync'.cur = c
      /\ sync'.todo = sync.todo /\ sync'.rows = sync.rows /\ sync'.read = sync.read
      /\ clients' = clients /\ last' = last /\ charged' = charged /\ counted' = counted
  BY <1>1 DEF Admit, CoreOK, Daemon
<1>3. ASSUME NEW d \in Client, d # c PROVE Safe(d)'
  <2>1. Untouched(d)
    BY <1>1, <1>2, <1>3 DEF Admit, Untouched, CoreOK, Counts
  <2>2. QED
    BY <1>1, <1>2, <1>3, <2>1, OthersSafe
<1>4. Safe(c)'
  <2>1. \A s \in Ipset :
            /\ c \in members'[s] <=> c \in members[s] \/ s = target
            /\ bytes'[s][c] = IF s = target /\ c \notin members[s] THEN 0 ELSE bytes[s][c]
    BY <1>1 DEF Admit, CoreOK, Counts
  <2>2. target = "paid_ips" => sync.rows[c].status = "paid"
    BY DEF Target
  <2> HIDE DEF target
  <2>3. Counter(c)' = Counter(c) \/ Counter(c)' = 0
    BY <1>1, <2>1 DEF Counter, Safe, Balanced
  <2>4. Dirty(c)' => Dirty(c) \/ target = "paid_ips"
    BY <2>1 DEF Dirty, Both
  <2>5. /\ ~Unread(c) /\ ~Unread(c)' /\ Deciding(c) /\ (Awaiting(c)' <=> Awaiting(c))
        /\ Billed(c) \in Nat /\ last[c] \in Nat /\ counted[c] \in Nat
        /\ Billed(c)' = Billed(c) /\ (Unbilled(c) => Unbilled(c)')
    BY <1>1, <1>2, BilledKept, Numbers DEF Unread, Deciding, Awaiting
  <2>6. Balanced(c)'
    BY <1>1, <1>2, <2>1, <2>5 DEF Safe, Balanced
  <2>7. Covered(c)'
    <3>1. Billed(c) + Delta(0, last[c]) <= counted[c]
      BY <1>1, <2>5 DEF Safe, Balanced, Delta
    <3>2. QED
      BY <1>1, <1>2, <2>3, <2>5, <3>1 DEF Safe, Covered
  <2>8. Resetting(c)'
    BY <1>2 DEF Resetting
  <2>9. Marked(c)'
    BY <1>1, <1>2, <2>2, <2>4, <2>5 DEF Safe, Marked
  <2>10. QED
    BY <2>6, <2>7, <2>8, <2>9 DEF Safe
<1>5. QED
  BY <1>2, <1>3, <1>4 DEF Charging

\* ...and out of the others.
LEMMA DropSafe ==
    ASSUME Charging, TypeOK', Drop, NEW c \in Client, c = sync.cur
    PROVE  Charging'
<1> DEFINE target == Target(sync.rows[c], sync.at)
<1>1. /\ TypeOK /\ CoreOK /\ (\A d \in Client : Safe(d)) /\ NoClient \notin Client
      /\ clients[c] \in Table!Row
  BY Split, Config, Numbers DEF Charging
<1>2. /\ sync.pc = "drop" /\ sync'.pc = "enforce" /\ c \in sync.todo
      /\ sync'.cur = NoClient /\ sync'.todo = sync.todo \ {c} /\ sync'.read = sync.read
      /\ \A d \in Client : d # c => sync'.rows[d] = sync.rows[d]
      /\ last' = last /\ charged' = charged /\ counted' = counted
  BY <1>1 DEF Drop, CoreOK, Daemon, Charging
<1>3. /\ \A d \in Client : d # c => clients'[d] = clients[d]
      /\ clients'[c] = clients[c] \/ clients'[c] = Table!Expired(clients[c])
  BY <1>1 DEF Drop, ExpireIfStill, CoreOK, Table!TypeOK
<1>4. /\ clients'[c].reset = clients[c].reset
      /\ clients'[c].used_bytes = clients[c].used_bytes
  BY <1>1, <1>3 DEF Table!Expired, Table!Row
<1>5. ASSUME NEW d \in Client, d # c PROVE Safe(d)'
  <2>1. Untouched(d)
    BY <1>1, <1>2, <1>5 DEF Drop, Untouched, CoreOK, Counts
  <2>2. QED
    BY <1>1, <1>2, <1>3, <1>5, <2>1, OthersSafe
<1>6. Safe(c)'
  <2>1. \A s \in Ipset :
            /\ c \in members'[s] <=> c \in members[s] /\ s = target
            /\ bytes'[s][c] = IF s = target THEN bytes[s][c] ELSE 0
    BY <1>1 DEF Drop, CoreOK, Counts
  <2>2. target = "grace_ips" => sync.rows[c].status = "grace"
    BY DEF Target, Table!IsPaid
  <2> HIDE DEF target
  <2>3. ~Both(c)' /\ ~Dirty(c)'
    BY <2>1 DEF Both, Dirty
  <2>4. /\ ~Unread(c) /\ ~Unread(c)' /\ Deciding(c) /\ ~Deciding(c)'
        /\ (Awaiting(c)' <=> Awaiting(c)) /\ (clients[c].reset => Awaiting(c))
        /\ Billed(c) \in Nat /\ last[c] \in Nat /\ counted[c] \in Nat
        /\ Billed(c)' = Billed(c)
    BY <1>1, <1>2, <1>4, BilledKept, Numbers DEF Unread, Deciding, Awaiting
  <2>5. ~Awaiting(c) => \/ Counter(c)' = Counter(c) \/ Counter(c)' = 0
                        \/ Unbilled(c) /\ Counter(c)' \in Nat /\ Counter(c)' <= counted[c]
    <3>1. ~Awaiting(c) /\ target = "grace_ips" => ~Dirty(c) \/ Unbilled(c)
      BY <1>1, <2>2, <2>4 DEF Safe, Marked
    <3>2. /\ \A s \in Ipset : bytes[s][c] \in Nat
          /\ \A s \in Ipset : bytes[s][c] <= counted[c]
          /\ \A s \in Ipset : c \notin members[s] => bytes[s][c] = 0
      BY <1>1, Numbers DEF Safe, Balanced
    <3>3. Counter(c)' \in {bytes["paid_ips"][c], bytes["grace_ips"][c], 0}
      BY <2>1 DEF Counter, Ipset
    <3>4. Counter(c)' \in Nat /\ Counter(c)' <= counted[c]
      BY <2>4, <3>2, <3>3 DEF Ipset
    <3>5. QED
      BY <2>1, <3>1, <3>2, <3>4 DEF Counter, Dirty, Both
  <2>6. Balanced(c)'
    BY <1>1, <1>2, <1>4, <2>1, <2>4 DEF Safe, Balanced
  <2>7. Covered(c)'
    <3>1. Billed(c) + Delta(0, last[c]) <= counted[c]
      BY <1>1, <2>4 DEF Safe, Balanced, Delta
    <3>3. CASE Unbilled(c) /\ Counter(c)' \in Nat /\ Counter(c)' <= counted[c]
      <4>1. Billed(c) = 0 /\ Delta(Counter(c)', last[c]) = Counter(c)'
        BY <3>3, DeltaFacts DEF Unbilled, Billed
      <4>2. QED
        BY <1>2, <2>4, <3>3, <4>1 DEF Covered
    <3>4. QED
      BY <1>1, <1>2, <2>4, <2>5, <3>1, <3>3 DEF Safe, Covered
  <2>8. Resetting(c)' /\ Marked(c)'
    BY <1>2, <2>3, <2>4 DEF Resetting, Marked
  <2>9. QED
    BY <2>6, <2>7, <2>8 DEF Safe
<1>7. QED
  BY <1>2, <1>5, <1>6 DEF Charging

LEMMA ApRestartSafe ==
    ASSUME Charging, TypeOK', ApRestart
    PROVE  Charging'
<1>1. sync'.pc = "idle"
  BY IdleType DEF ApRestart
<1>2. ASSUME NEW c \in Client PROVE Safe(c)'
  <2>1. TypeOK /\ Safe(c)
    BY DEF Charging
  <2>2. /\ \A s \in Ipset : c \notin members'[s] /\ bytes'[s][c] = 0
        /\ clients' = clients /\ last' = last /\ charged' = charged /\ counted' = counted
    BY DEF ApRestart
  <2>3. ~Member(c)' /\ ~Both(c)' /\ ~Dirty(c)' /\ Counter(c)' = 0
    BY <2>2 DEF Member, Both, Dirty, Counter
  <2>4. ~Unread(c)' /\ ~Deciding(c)' /\ Billed(c)' = Billed(c)
    BY <1>1, <2>2, BilledKept DEF Unread, Deciding
  <2>5. Billed(c) + Delta(0, last[c]) <= counted[c]
    BY <2>1, Numbers DEF Safe, Balanced, Delta
  <2>6. Balanced(c)'
    BY <2>1, <2>2, <2>4, Numbers DEF Safe, Balanced
  <2>7. Covered(c)' /\ Resetting(c)' /\ Marked(c)'
    BY <1>1, <2>2, <2>3, <2>4, <2>5 DEF Covered, Resetting, Marked
  <2>8. QED
    BY <2>6, <2>7 DEF Safe
<1>3. QED
  BY <1>1, <1>2 DEF Charging

LEMMA InitCharging == Init => Charging
<1> SUFFICES ASSUME Init PROVE Charging
  OBVIOUS
<1>1. TypeOK /\ sync.pc = "idle"
  BY InitTypeOK, IdleType DEF Init
<1>2. ASSUME NEW c \in Client PROVE Safe(c)
  <2>1. /\ \A s \in Ipset : c \notin members[s] /\ bytes[s][c] = 0
        /\ last[c] = 0 /\ Billed(c) = 0 /\ counted[c] = 0
        /\ clients[c].used_bytes = 0 /\ clients[c].reset = FALSE
    BY DEF Init, Table!Init, Table!NoRow, Billed
  <2>2. ~Both(c) /\ ~Dirty(c) /\ Counter(c) = 0 /\ ~Unread(c) /\ ~Deciding(c)
    BY <1>1, <2>1 DEF Both, Dirty, Counter, Unread, Deciding
  <2>3. QED
    BY <1>1, <2>1, <2>2, Config DEF Safe, Balanced, Covered, Resetting, Marked, Delta
<1>3. QED
  BY <1>1, <1>2 DEF Charging

LEMMA StepCharging ==
    ASSUME Charging, [Next]_vars
    PROVE  Charging'
<1>1. TypeOK'
  BY StepTypeOK DEF Charging
<1>2. CASE UNCHANGED vars
  <2>1. ASSUME NEW c \in Client PROVE Safe(c)'
    <3>1. Untouched(c) /\ sync' = sync /\ clients' = clients
      BY <1>2 DEF Untouched
    <3>2. RowRewritten(c)
      BY <3>1, Numbers DEF RowRewritten, Charging
    <3>3. QED
      BY <1>1, <3>1, <3>2, RewritingSafe DEF Charging
  <2>2. QED
    BY <1>1, <1>2, <2>1 DEF Charging
<1>3. CASE SyncStep
  <2>1. sync.pc \in {"readd", "ack", "drop"} => sync.cur \in Client
    BY DEF Charging, TypeOK
  <2>2. CASE ResetAdd
    BY <1>1, <2>1, <2>2, ResetAddSafe DEF ResetAdd
  <2>3. CASE ResetCommit
    BY <1>1, <2>1, <2>3, ResetCommitSafe DEF ResetCommit
  <2>4. CASE Drop
    BY <1>1, <2>1, <2>4, DropSafe DEF Drop
  <2>5. QED
    BY <1>1, <1>3, <2>2, <2>3, <2>4, PhaseSafe, ResetOutSafe, ChargeOneSafe, AdmitSafe
       DEF SyncStep
<1>4. CASE Portal \/ Tick \/ \E c \in Client : Traffic(c)
  BY <1>1, <1>4, PortalSafe, TrafficSafe
<1>5. CASE Restart
  BY <1>1, <1>5, PhaseSafe, ApRestartSafe DEF Restart
<1>6. QED
  BY <1>2, <1>3, <1>4, <1>5 DEF Next

\* Across resets, moves between the sets, crashes and restarts no byte is
\* charged twice, for any number of clients, as long as no row is deleted.
THEOREM NeverOverchargedHolds ==
    ASSUME MaxRevokes = 0
    PROVE  Spec => []NeverOvercharged
<1>1. Init => Charging
  BY InitCharging
<1>2. Charging /\ [Next]_vars => Charging'
  BY StepCharging
<1>3. Charging => NeverOvercharged
  BY DEF Charging, Safe, Balanced, Billed, NeverOvercharged
<1>4. QED
  BY <1>1, <1>2, <1>3, PTL DEF Spec

\* Revocation included: what a row shows as used is never more than was counted
\* for its client, whatever an earlier row of the client was charged.
THEOREM UsedWasCountedHolds == Spec => []UsedWasCounted
<1>1. Init => Charging
  BY InitCharging
<1>2. Charging /\ [Next]_vars => Charging'
  BY StepCharging
<1>3. Charging => UsedWasCounted
  <2>1. ASSUME Charging, NEW c \in Client PROVE clients[c].used_bytes <= counted[c]
    BY <2>1, Numbers DEF Charging, Safe, Balanced
  <2>2. QED
    BY <2>1 DEF UsedWasCounted
<1>4. QED
  BY <1>1, <1>2, <1>3, PTL DEF Spec
-----------------------------------------------------------------------------
(***************************************************************************)
(* The whole implements the clients table: whatever the page and the       *)
(* daemon do, with whatever they remember, a row changes only in the ways  *)
(* that ClientTable promises.                                              *)
(***************************************************************************)
\* A charge is within the bounds of the table's model, because no byte is
\* charged twice to one row.
LEMMA ChargeImplements ==
    ASSUME Charging, MaxTraffic <= MaxCharge, MaxTraffic <= MaxOvershoot,
           NEW c \in Client, ChargeOne(c)
    PROVE  (\E d \in 1..MaxCharge : Table!Charge(c, d)) \/ UNCHANGED Table!vars
<1> DEFINE delta == Delta(sync.read[c], last[c])
<1>1. /\ TypeOK /\ CoreOK /\ Safe(c) /\ clients \in [Client -> Table!Row]
      /\ MaxCharge \in Nat /\ MaxOvershoot \in Nat
  BY Split, DaemonFields, Config DEF Charging, Table!ConfigAssumption
<1>2. /\ delta \in Nat /\ delta <= MaxTraffic
      /\ clients[c].used_bytes + delta <= clients[c].quota_bytes + MaxOvershoot
  <2>1. /\ Counter(c) - sync.read[c] >= 0 /\ clients[c].used_bytes <= Billed(c)
        /\ Billed(c) + delta + (Counter(c) - sync.read[c]) <= counted[c] /\ counted[c] <= MaxTraffic
    BY <1>1, Numbers DEF Safe, Covered, Unread, Balanced, ChargeOne
  <2>2. delta \in Nat
    BY <1>1, Numbers, DeltaFacts
  <2> HIDE DEF delta
  <2>3. QED
    BY <1>1, <2>1, <2>2, Numbers
<1>3. now' = now /\ grants' = grants
  BY DEF ChargeOne
<1>4. CASE Present(c) /\ delta > 0
  <2>1. clients' = [clients EXCEPT ![c] = [clients[c] EXCEPT !.used_bytes = @ + delta]]
    BY <1>1, <1>4 DEF ChargeOne
  <2>2. delta \in 1..MaxCharge
    BY <1>1, <1>2, <1>4, Numbers
  <2> HIDE DEF delta
  <2>3. Table!Charge(c, delta)
    BY <1>2, <1>3, <1>4, <2>1 DEF Table!Charge, Table!SetRow, Present
  <2>4. QED
    BY <2>2, <2>3
<1>5. CASE Present(c) /\ delta = 0
  <2>1. clients' = [clients EXCEPT ![c] = [clients[c] EXCEPT !.used_bytes = @ + delta]]
    BY <1>1, <1>5 DEF ChargeOne
  <2>2. [clients[c] EXCEPT !.used_bytes = @ + delta] = clients[c]
    <3>1. clients[c].used_bytes + delta = clients[c].used_bytes
      BY <1>1, <1>5, Numbers
    <3>2. QED
      BY <1>1, <3>1 DEF Table!Row
  <2>3. clients' = clients
    BY <1>1, <2>1, <2>2
  <2>4. QED
    BY <1>3, <2>3 DEF Table!vars
<1>6. CASE ~Present(c)
  BY <1>3, <1>6 DEF ChargeOne, Table!vars
<1>7. QED
  BY <1>2, <1>4, <1>5, <1>6

LEMMA StepImplements ==
    ASSUME Charging, MaxTraffic <= MaxCharge, MaxTraffic <= MaxOvershoot, [Next]_vars
    PROVE  [Table!Next]_Table!vars
<1>1. /\ TypeOK /\ CoreOK /\ clients \in [Client -> Table!Row]
      /\ sync.rows \in [Client -> Table!Row]
  BY Split, DaemonFields DEF Charging
<1>2. CASE UNCHANGED vars
  BY <1>2 DEF Table!vars
<1>3. CASE SyncStep
  <2>1. CASE \/ SyncBegin \/ ResetAdd \/ Collect \/ SyncSelect \/ SyncEnd
             \/ \E c \in Client : ResetOut(c) \/ Admit(c)
    BY <2>1 DEF SyncBegin, ResetOut, ResetAdd, Collect, SyncSelect, Admit, SyncEnd, Table!vars
  <2>2. CASE ResetCommit
    <3>1. sync.cur \in Client
      BY <1>1, <2>2 DEF ResetCommit, CoreOK
    <3>2. Table!AckReset(sync.cur)
      BY <1>1, <2>2, <3>1 DEF ResetCommit, Table!AckReset, Table!SetRow
    <3>3. QED
      BY <3>1, <3>2 DEF Table!Next
  <2>3. ASSUME NEW c \in Client, ChargeOne(c) PROVE [Table!Next]_Table!vars
    BY <2>3, ChargeImplements DEF Table!Next
  <2>4. CASE Drop
    <3>1. sync.cur \in Client
      BY <1>1, <2>4 DEF Drop, CoreOK
    <3>2. CASE clients' = clients
      BY <2>4, <3>2 DEF Drop, Table!vars
    <3>3. CASE clients' # clients
      <4>1. /\ clients[sync.cur].status \in {"paid", "grace"}
            /\ clients' = [clients EXCEPT ![sync.cur] = Table!Expired(clients[sync.cur])]
        BY <1>1, <2>4, <3>1, <3>3 DEF Drop, ExpireIfStill
      <4>2. Table!Expire(sync.cur)
        BY <2>4, <4>1 DEF Drop, Table!Expire, Table!SetRow
      <4>3. QED
        BY <3>1, <4>2 DEF Table!Next
    <3>4. QED
      BY <3>2, <3>3
  <2>5. QED
    BY <1>3, <2>1, <2>2, <2>3, <2>4 DEF SyncStep
<1>4. CASE Portal
  <2>1. CASE \E c \in Client :
                 \/ GrantGrace(c) \/ RefuseGrace(c) \/ Revoke(c)
                 \/ \E q \in Quota : MarkPaid(c, q)
    BY <2>1 DEF GrantGrace, RefuseGrace, Revoke, MarkPaid, Table!Next
  <2>2. CASE \E w \in Worker, c \in Client : IndexRead(w, c)
    BY <2>2 DEF IndexRead, Table!vars
  <2>3. ASSUME NEW w \in Worker, IndexExpire(w) PROVE [Table!Next]_Table!vars
    <3>1. page[w] \in Client
      BY <1>1, <2>3 DEF IndexExpire, CoreOK
    <3>2. CASE Present(page[w])
      <4>1. Table!Expire(page[w])
        BY <1>1, <2>3, <3>1, <3>2 DEF IndexExpire, Table!Expire, Table!SetRow, Present
      <4>2. QED
        BY <3>1, <4>1 DEF Table!Next
    <3>3. CASE ~Present(page[w])
      BY <2>3, <3>3 DEF IndexExpire, Table!vars
    <3>4. QED
      BY <3>2, <3>3
  <2>4. QED
    BY <1>4, <2>1, <2>2, <2>3 DEF Portal
<1>5. CASE Tick
  BY <1>5 DEF Tick, Table!Next
<1>6. CASE Restart \/ \E c \in Client : Traffic(c)
  BY <1>6 DEF Restart, SyncCrash, ApRestart, Traffic, Table!vars
<1>7. QED
  BY <1>2, <1>3, <1>4, <1>5, <1>6 DEF Next

\* The portal, the page, the daemon and the firewall together implement the
\* clients table, so that what is proved of ClientTable is true of them.
THEOREM ImplementsTable ==
    ASSUME MaxTraffic <= MaxCharge, MaxTraffic <= MaxOvershoot
    PROVE  Spec => TableSpec
<1>1. Init => Charging /\ Table!Init
  BY InitCharging DEF Init
<1>2. Charging /\ [Next]_vars => Charging' /\ [Table!Next]_Table!vars
  BY StepCharging, StepImplements
<1>3. QED
  BY <1>1, <1>2, PTL DEF Spec, TableSpec, Table!Spec
-----------------------------------------------------------------------------
(***************************************************************************)
(* A cycle settles the firewall.  The daemon compares a row it read at one *)
(* moment with the clock it read at another; that this is harmless for a   *)
(* row that keeps asking for the same set is what has to be shown.         *)
(***************************************************************************)
\* The daemon has done with the client in this cycle, or with the cycle.
Enforced(c) == sync.pc = "idle" \/ (sync.pc \in {"enforce", "drop"} /\ c \notin sync.todo)

Followed(c) ==
    /\ steady[c] = Target(clients[c], now)
    /\ sync.pc # "idle" => steady[c] = Target(clients[c], sync.at)
    /\ Deciding(c) => steady[c] = Target(sync.rows[c], sync.at)
    /\ Present(c) /\ Enforced(c) => \A s \in Ipset : c \in members[s] <=> s = steady[c]

\* A client without a row has no past.
Blank(c) ==
    ~Present(c) => clients[c].grace_activated_count = 0 /\ clients[c].used_bytes = 0

Admitted ==
    sync.pc = "drop" =>
        /\ sync.cur \in sync.todo
        /\ \A s \in Ipset : s = Target(sync.rows[sync.cur], sync.at) => sync.cur \in members[s]

Settling ==
    /\ TypeOK
    /\ \A c \in Client : Blank(c) /\ (steady[c] # Changed => Followed(c))
    /\ sync.pc # "idle" => sync.at <= now
    /\ Admitted

\* What config.py and chains.py make sure of: nothing that is granted or sold
\* is empty.
Worthwhile == GraceQuota > 0 /\ MaxAccess > 0 /\ MaxQuota > 0 /\ 0 \notin Quota

\* A row that asks for the same set after a write as before it, at time t,
\* also asks for it at an earlier time a; and a new row asks for a set.
RowFollows(r, g, a, t, u) ==
    /\ Target(r, t) = Target(r, a) /\ Target(g, u) = Target(r, t) => Target(g, a) = Target(g, u)
    /\ r.status = "absent" /\ g.status # "absent" => Target(g, u) # Target(r, t)
    /\ g.status = "absent" => g.grace_activated_count = 0 /\ g.used_bytes = 0

Blanked(r) == r.status = "absent" => r.grace_activated_count = 0 /\ r.used_bytes = 0

LEMMA SameRowFollows ==
    ASSUME NEW r \in Table!Row, Blanked(r), NEW a \in Nat, NEW t \in Nat, NEW u \in Nat
    PROVE  RowFollows(r, r, a, t, u)
  BY DEF RowFollows, Blanked

LEMMA WrittenRowFollows ==
    ASSUME NEW r \in Table!Row, Blanked(r), NEW a \in Nat, NEW t \in Nat, a <= t, Worthwhile
    PROVE  /\ RowFollows(r, Table!NoRow, a, t, t)
           /\ r.status # "absent" => RowFollows(r, Table!Expired(r), a, t, t)
           /\ \A q \in Quota : RowFollows(r, Table!CreditRow(Table!EnsuredRow(r), q, t), a, t, t)
           /\ LET e == Table!SettledRow(Table!EnsuredRow(r), t) IN
                  /\ RowFollows(r, Table!GrantRow(e, t), a, t, t)
                  /\ ~Table!MayActivate(e, t) => RowFollows(r, e, a, t, t)
<1> DEFINE e == Table!SettledRow(Table!EnsuredRow(r), t)
<1>0. /\ GraceQuota \in Nat /\ GraceDuration \in Nat \ {0} /\ MaxAccess \in Nat
      /\ MaxQuota \in Nat /\ Quota \subseteq Nat /\ AccessDuration \in Nat \ {0}
  BY Config DEF Table!ConfigAssumption
<1>1. RowFollows(r, Table!NoRow, a, t, t)
  BY DEF RowFollows, Target, Table!IsPaid, Table!NoRow
<1>2. ASSUME r.status # "absent" PROVE RowFollows(r, Table!Expired(r), a, t, t)
  <2>1. Table!Expired(r).status = "expired"
    BY DEF Table!Expired, Table!Row
  <2> DEFINE g == Table!Expired(r)
  <2> HIDE DEF g
  <2>2. g.status = "expired"
    BY <2>1 DEF g
  <2>3. RowFollows(r, g, a, t, t)
    BY <1>2, <2>2 DEF RowFollows, Target, Table!IsPaid
  <2>4. QED
    BY <2>3 DEF g
<1>3. ASSUME NEW q \in Quota
      PROVE  RowFollows(r, Table!CreditRow(Table!EnsuredRow(r), q, t), a, t, t)
  <2> DEFINE n == Table!EnsuredRow(r)
             g == Table!CreditRow(n, q, t)
  <2>1. n \in Table!Row /\ n.used_bytes = r.used_bytes
    BY RowTypes DEF Table!EnsuredRow, Table!Row
  <2> HIDE DEF n
  <2>2. /\ g.status = "paid" /\ g.paid_until = Table!ExtendedUntil(n, t)
        /\ g.quota_bytes = Table!StackedQuota(n, q)
        /\ g.used_bytes = IF n.status = "grace" THEN 0 ELSE n.used_bytes
    BY <2>1 DEF Table!CreditRow, Table!Row
  <2>3. n.paid_until \in Nat /\ n.quota_bytes \in Nat /\ n.used_bytes \in Nat /\ q \in Nat /\ q > 0
    BY <1>0, <2>1 DEF Table!Row, Worthwhile
  <2>4. g.paid_until \in Nat /\ g.paid_until > t /\ g.paid_until > a
    BY <1>0, <2>2, <2>3 DEF Table!ExtendedUntil, Table!Minimum, Table!Maximum, Worthwhile
  <2>5. g.quota_bytes \in Nat /\ g.quota_bytes > 0
    BY <1>0, <2>2, <2>3 DEF Table!StackedQuota, Table!Minimum, Worthwhile
  <2>6. r.status = "absent" => g.used_bytes = 0
    BY <2>1, <2>2 DEF Blanked
  <2> HIDE DEF g
  <2>7. Target(g, a) = Target(g, t)
    BY <2>2, <2>4 DEF Target, Table!IsPaid
  <2>8. r.status = "absent" => Target(g, t) = "paid_ips" /\ Target(r, t) = None
    BY <2>2, <2>4, <2>5, <2>6 DEF Target, Table!IsPaid
  <2>9. RowFollows(r, g, a, t, t)
    BY <2>2, <2>7, <2>8 DEF RowFollows
  <2>10. QED
    BY <2>9 DEF g, n
<1>4. RowFollows(r, Table!GrantRow(e, t), a, t, t)
  <2>1. Table!CountedRow(e, t) \in Table!Row
    <3>1. e \in Table!Row
      BY RowTypes
    <3> HIDE DEF e
    <3>2. Table!NextGraceCount(e, t) \in Nat
      BY <3>1 DEF Table!NextGraceCount, Table!Row
    <3>3. QED
      BY <3>1, <3>2 DEF Table!CountedRow, Table!Row
  <2> DEFINE y == Table!CountedRow(e, t)
             g == Table!GrantRow(e, t)
  <2>2. g = [y EXCEPT !.status = "grace", !.grace_until = t + GraceDuration,
                      !.quota_bytes = GraceQuota, !.used_bytes = 0, !.reset = TRUE]
    BY DEF Table!GrantRow
  <2> HIDE DEF y
  <2>3. y \in Table!Row
    BY <2>1 DEF y
  <2>4. /\ g.status = "grace" /\ g.grace_until = t + GraceDuration
        /\ g.quota_bytes = GraceQuota /\ g.used_bytes = 0
    BY <2>2, <2>3 DEF Table!Row
  <2> HIDE DEF g
  <2>5. Target(g, a) = "grace_ips" /\ Target(g, t) = "grace_ips"
    BY <1>0, <2>4 DEF Target, Table!IsPaid, Worthwhile
  <2>6. r.status = "absent" => Target(r, t) = None
    BY DEF Target, Table!IsPaid
  <2>7. RowFollows(r, g, a, t, t)
    BY <2>4, <2>5, <2>6 DEF RowFollows
  <2>8. QED
    BY <2>7 DEF g
<1>5. ASSUME ~Table!MayActivate(e, t) PROVE RowFollows(r, e, a, t, t)
  <2>1. CASE r.status = "absent"
    <3>1. e.status = "new" /\ e.grace_activated_count = 0
      BY <2>1 DEF Blanked, Table!SettledRow, Table!EnsuredRow, Table!Lapsed, Table!Row
    <3>2. Table!MayActivate(e, t)
      BY <3>1 DEF Table!MayActivate
    <3>3. QED
      BY <1>5, <3>2
  <2>2. CASE r.status # "absent" /\ Table!Lapsed(r, t)
    <3>1. e = Table!Expired(r)
      BY <2>2 DEF Table!SettledRow, Table!EnsuredRow
    <3>2. QED
      BY <1>2, <2>2, <3>1
  <2>3. CASE r.status # "absent" /\ ~Table!Lapsed(r, t)
    <3>1. e = r
      BY <2>3 DEF Table!SettledRow, Table!EnsuredRow
    <3>2. QED
      BY <3>1, SameRowFollows
  <2>4. QED
    BY <2>1, <2>2, <2>3
<1>6. QED
  BY <1>1, <1>2, <1>3, <1>4, <1>5

\* The daemon's own writes.
LEMMA DaemonRowFollows ==
    ASSUME NEW r \in Table!Row, Blanked(r), NEW a \in Nat, NEW t \in Nat, a <= t,
           NEW delta \in Nat
    PROVE  /\ r.status # "absent" =>
                  RowFollows(r, [r EXCEPT !.used_bytes = @ + delta], a, t, t)
           /\ RowFollows(r, [r EXCEPT !.reset = FALSE], a, t, t)
<1>1. ASSUME r.status # "absent"
      PROVE  RowFollows(r, [r EXCEPT !.used_bytes = @ + delta], a, t, t)
  <2> DEFINE g == [r EXCEPT !.used_bytes = @ + delta]
  <2>1. /\ g.status = r.status /\ g.quota_bytes = r.quota_bytes
        /\ g.used_bytes = r.used_bytes + delta
        /\ g.paid_until = r.paid_until /\ g.grace_until = r.grace_until
        /\ r.used_bytes \in Nat /\ r.quota_bytes \in Nat
        /\ r.paid_until \in Nat /\ r.grace_until \in Nat
    BY DEF Table!Row
  <2> HIDE DEF g
  <2>2. Target(r, t) = Target(r, a) /\ Target(g, t) = Target(r, t) => Target(g, a) = Target(g, t)
    BY <2>1 DEF Target, Table!IsPaid
  <2>3. RowFollows(r, g, a, t, t)
    BY <1>1, <2>1, <2>2 DEF RowFollows
  <2>4. QED
    BY <2>3 DEF g
<1>2. RowFollows(r, [r EXCEPT !.reset = FALSE], a, t, t)
  <2> DEFINE g == [r EXCEPT !.reset = FALSE]
  <2>1. /\ g.status = r.status /\ g.quota_bytes = r.quota_bytes
        /\ g.used_bytes = r.used_bytes
        /\ g.paid_until = r.paid_until /\ g.grace_until = r.grace_until
        /\ g.grace_activated_count = r.grace_activated_count
    BY DEF Table!Row
  <2> HIDE DEF g
  <2>2. Target(g, a) = Target(r, a) /\ Target(g, t) = Target(r, t)
    BY <2>1 DEF Target, Table!IsPaid
  <2>3. RowFollows(r, g, a, t, t)
    BY <2>1, <2>2 DEF RowFollows, Blanked
  <2>4. QED
    BY <2>3 DEF g
<1>3. QED
  BY <1>1, <1>2

\* Every step leaves every row so that it can be followed.
LEMMA StepFollows ==
    ASSUME Settling, TypeOK', Worthwhile, Next, NEW a \in Nat, a <= now
    PROVE  /\ now' \in Nat /\ now <= now'
           /\ \A c \in Client : RowFollows(clients[c], clients'[c], a, now, now')
<1>1. /\ TypeOK /\ CoreOK /\ clients \in [Client -> Table!Row] /\ now \in Nat
      /\ \A c \in Client : Blanked(clients[c])
  BY Split, DaemonFields DEF Settling, Blank, Blanked, Present
<1>2. now' \in Nat /\ now <= now'
  <2>1. SyncStep \/ Restart => now' = now
    BY DEF SyncStep, SyncBegin, ResetOut, ResetAdd, ResetCommit, Collect, ChargeOne,
           SyncSelect, Admit, Drop, SyncEnd, Restart, SyncCrash, ApRestart
  <2>2. Portal \/ (\E c \in Client : Traffic(c)) => now' = now
    BY DEF Portal, GrantGrace, Table!GrantGrace, RefuseGrace, Table!RefuseGrace,
           MarkPaid, Table!MarkPaid, Revoke, Table!Revoke, IndexRead, IndexExpire, Traffic
  <2>3. Tick => now' = now + 1
    BY DEF Tick, Table!Tick
  <2>4. now' = now \/ now' = now + 1
    BY <2>1, <2>2, <2>3 DEF Next
  <2>5. QED
    BY <1>1, <2>4
<1>3. ASSUME clients' = clients
      PROVE  \A c \in Client : RowFollows(clients[c], clients'[c], a, now, now')
  BY <1>1, <1>2, <1>3, SameRowFollows
<1>4. ASSUME now' = now, NEW c \in Client,
             \A d \in Client : d # c => clients'[d] = clients[d],
             RowFollows(clients[c], clients'[c], a, now, now)
      PROVE  \A d \in Client : RowFollows(clients[d], clients'[d], a, now, now')
  <2>1. ASSUME NEW d \in Client PROVE RowFollows(clients[d], clients'[d], a, now, now')
    <3>1. CASE d = c
      BY <1>4, <3>1
    <3>2. CASE d # c
      BY <1>1, <1>4, <3>2, SameRowFollows
    <3>3. QED
      BY <3>1, <3>2
  <2>2. QED
    BY <2>1
<1> DEFINE All == \A d \in Client : RowFollows(clients[d], clients'[d], a, now, now')
<1> HIDE DEF All
<1>5. ASSUME NEW c \in Client, GrantGrace(c) PROVE All
  BY <1>1, <1>4, <1>5, WrittenRowFollows DEF GrantGrace, Table!GrantGrace, Table!SetRow, All
<1>6. ASSUME NEW c \in Client, RefuseGrace(c) PROVE All
  BY <1>1, <1>4, <1>6, WrittenRowFollows DEF RefuseGrace, Table!RefuseGrace, Table!SetRow, All
<1>7. ASSUME NEW c \in Client, NEW q \in Quota, MarkPaid(c, q) PROVE All
  BY <1>1, <1>4, <1>7, WrittenRowFollows DEF MarkPaid, Table!MarkPaid, Table!SetRow, All
<1>8. ASSUME NEW c \in Client, Revoke(c) PROVE All
  BY <1>1, <1>4, <1>8, WrittenRowFollows DEF Revoke, Table!Revoke, Table!SetRow, All
<1>9. ASSUME NEW w \in Worker, IndexExpire(w) PROVE All
  <2>1. page[w] \in Client
    BY <1>1, <1>9 DEF IndexExpire, CoreOK
  <2>2. CASE Present(page[w])
    BY <1>1, <1>4, <1>9, <2>1, <2>2, WrittenRowFollows DEF IndexExpire, Present, All
  <2>3. CASE ~Present(page[w])
    BY <1>3, <1>9, <2>3 DEF IndexExpire, All
  <2>4. QED
    BY <2>2, <2>3
<1>10. ASSUME ResetCommit PROVE All
  <2>1. sync.cur \in Client
    BY <1>1, <1>10 DEF ResetCommit, CoreOK
  <2>2. QED
    BY <1>1, <1>4, <1>10, <2>1, DaemonRowFollows DEF ResetCommit, All
<1>11. ASSUME NEW c \in Client, ChargeOne(c) PROVE All
  <2>1. CASE Present(c)
    <3> DEFINE delta == Delta(sync.read[c], last[c])
    <3>1. delta \in Nat
      BY <1>1, Numbers, DeltaType
    <3>2. clients' = [clients EXCEPT ![c] = [clients[c] EXCEPT !.used_bytes = @ + delta]]
      BY <1>11, <2>1 DEF ChargeOne
    <3> HIDE DEF delta
    <3>3. RowFollows(clients[c], clients'[c], a, now, now)
      BY <1>1, <2>1, <3>1, <3>2, DaemonRowFollows DEF Present
    <3>4. \A d \in Client : d # c => clients'[d] = clients[d]
      BY <1>1, <3>2
    <3>5. QED
      BY <1>4, <1>11, <3>3, <3>4 DEF ChargeOne, All
  <2>2. CASE ~Present(c)
    BY <1>3, <1>11, <2>2 DEF ChargeOne, All
  <2>3. QED
    BY <2>1, <2>2
<1>12. ASSUME Drop PROVE All
  <2>1. sync.cur \in Client
    BY <1>1, <1>12 DEF Drop, CoreOK
  <2>2. CASE clients' = clients
    BY <1>3, <2>2 DEF All
  <2>3. CASE clients' # clients
    <3>1. /\ clients[sync.cur].status # "absent"
          /\ clients' = [clients EXCEPT ![sync.cur] = Table!Expired(clients[sync.cur])]
      BY <1>1, <1>12, <2>1, <2>3 DEF Drop, ExpireIfStill
    <3>2. QED
      BY <1>1, <1>4, <1>12, <2>1, <3>1, WrittenRowFollows DEF Drop, All
  <2>4. QED
    BY <2>2, <2>3
<1>13. ASSUME clients' = clients PROVE All
  BY <1>3, <1>13 DEF All
<1>14. All
  BY <1>5, <1>6, <1>7, <1>8, <1>9, <1>10, <1>11, <1>12, <1>13
     DEF Next, SyncStep, SyncBegin, ResetOut, ResetAdd, Collect, SyncSelect, Admit, SyncEnd,
         Portal, IndexRead, Tick, Table!Tick, Traffic, Restart, SyncCrash, ApRestart
<1>15. QED
  BY <1>2, <1>14 DEF All

\* A row that is still watched asks for what it has asked for all along.
LEMMA WatchFacts ==
    ASSUME Watch, NEW c \in Client, steady'[c] # Changed
    PROVE  steady'[c] = steady[c] /\ steady[c] # Changed /\ Target(clients'[c], now') = steady[c]
  BY DEF Watch

\* The part of the invariant that speaks of rows only.
LEMMA FollowedRow ==
    ASSUME Settling, TypeOK', Worthwhile, Next, NEW c \in Client
    PROVE  /\ Blank(c)'
           /\ Watch /\ steady'[c] # Changed =>
                  /\ Followed(c)
                  /\ steady'[c] = Target(clients'[c], now')
                  /\ sync.pc # "idle" => steady'[c] = Target(clients'[c], sync.at)
                  /\ Present(c)' => Present(c)
<1>1. /\ TypeOK /\ CoreOK /\ now \in Nat /\ sync.at \in Nat
      /\ steady[c] # Changed => Followed(c)
  BY Split, DaemonFields DEF Settling
<1>2. RowFollows(clients[c], clients'[c], now, now, now')
  BY <1>1, StepFollows
<1>3. sync.pc # "idle" => RowFollows(clients[c], clients'[c], sync.at, now, now')
  BY <1>1, StepFollows DEF Settling
<1>4. Blank(c)'
  BY <1>2 DEF RowFollows, Blank, Present
<1>5. ASSUME Watch, steady'[c] # Changed
      PROVE  /\ Followed(c)
             /\ steady'[c] = Target(clients'[c], now')
             /\ sync.pc # "idle" => steady'[c] = Target(clients'[c], sync.at)
             /\ Present(c)' => Present(c)
  <2>1. steady'[c] = steady[c] /\ Followed(c) /\ Target(clients'[c], now') = steady[c]
    BY <1>1, <1>5, WatchFacts
  <2>2. Target(clients[c], now) = steady[c]
    BY <2>1 DEF Followed
  <2>3. Present(c)' => Present(c)
    BY <1>2, <2>1, <2>2 DEF RowFollows, Present
  <2>4. sync.pc # "idle" => steady'[c] = Target(clients'[c], sync.at)
    BY <1>3, <2>1, <2>2 DEF RowFollows, Followed
  <2>5. QED
    BY <2>1, <2>3, <2>4
<1>6. QED
  BY <1>4, <1>5

\* Nobody but the daemon is at work.
LEMMA OutsideSettling ==
    ASSUME Settling, TypeOK', Worthwhile, Next, Watch, sync' = sync, members' = members
    PROVE  Settling'
<1>1. now \in Nat /\ now' \in Nat /\ now <= now' /\ sync.at \in Nat
  <2>1. CoreOK /\ 0 <= now
    BY Split, DaemonFields DEF Settling
  <2>2. QED
    BY <2>1, DaemonFields, StepFollows
<1>2. ASSUME NEW c \in Client PROVE Blank(c)' /\ (steady'[c] # Changed => Followed(c)')
  <2>1. ASSUME steady'[c] # Changed PROVE Followed(c)'
    <3>1. /\ Followed(c) /\ steady'[c] = Target(clients'[c], now')
          /\ sync.pc # "idle" => steady'[c] = Target(clients'[c], sync.at)
          /\ Present(c)' => Present(c)
      BY <2>1, FollowedRow
    <3>2. steady'[c] = steady[c]
      BY <2>1, WatchFacts
    <3>3. QED
      BY <3>1, <3>2 DEF Followed, Deciding, Enforced
  <2>2. QED
    BY <2>1, FollowedRow
<1>3. QED
  BY <1>1, <1>2 DEF Settling, Admitted

\* The daemon writes no set and decides nothing.
LEMMA QuietSettling ==
    ASSUME Settling, TypeOK', Worthwhile, Next, Watch,
           ResetAdd \/ ResetCommit \/ Collect \/ \E c \in Client : ResetOut(c) \/ ChargeOne(c)
    PROVE  Settling'
<1>1. /\ sync.pc # "idle" /\ sync'.pc \in {"readd", "ack", "reset", "charge"}
      /\ sync'.at = sync.at /\ now' = now
  <2>1. sync \in Daemon
    BY DEF Settling, TypeOK
  <2>2. CASE ResetAdd \/ ResetCommit
    BY <2>1, <2>2 DEF ResetAdd, ResetCommit, Daemon
  <2>3. CASE Collect
    BY <2>1, <2>3 DEF Collect, Daemon
  <2>4. ASSUME NEW c \in Client, ResetOut(c) \/ ChargeOne(c)
        PROVE  /\ sync.pc # "idle" /\ sync'.pc \in {"readd", "ack", "reset", "charge"}
               /\ sync'.at = sync.at /\ now' = now
    BY <2>1, <2>4 DEF ResetOut, ChargeOne, Daemon
  <2>5. QED
    BY <2>2, <2>3, <2>4
<1>2. ASSUME NEW c \in Client PROVE Blank(c)' /\ (steady'[c] # Changed => Followed(c)')
  <2>1. ASSUME steady'[c] # Changed PROVE Followed(c)'
    <3>1. /\ steady'[c] = Target(clients'[c], now')
          /\ steady'[c] = Target(clients'[c], sync.at)
      BY <1>1, <2>1, FollowedRow
    <3>2. QED
      BY <1>1, <3>1 DEF Followed, Deciding, Enforced
  <2>2. QED
    BY <2>1, FollowedRow
<1>3. QED
  BY <1>1, <1>2 DEF Settling, Admitted

\* Step 2.
LEMMA EnforcingSettling ==
    ASSUME Settling, TypeOK', Worthwhile, Next, Watch,
           SyncSelect \/ (\E c \in Client : Admit(c)) \/ Drop \/ SyncEnd
    PROVE  Settling'
<1>1. TypeOK /\ CoreOK /\ (\A c \in Client : steady[c] # Changed => Followed(c)) /\ Admitted
  BY Split DEF Settling
<1>2. sync.pc # "idle" /\ now' = now /\ (sync'.pc # "idle" => sync'.at = sync.at)
  BY <1>1, IdleType DEF SyncSelect, Admit, Drop, SyncEnd, CoreOK, Daemon
<1>3. ASSUME NEW c \in Client, steady'[c] # Changed
      PROVE  /\ steady'[c] = steady[c] /\ Followed(c)
             /\ steady'[c] = Target(clients'[c], now')
             /\ sync'.pc # "idle" => steady'[c] = Target(clients'[c], sync'.at)
             /\ Present(c)' => Present(c)
  BY <1>2, <1>3, FollowedRow, WatchFacts
<1>4. Admitted' /\ \A c \in Client : steady'[c] # Changed =>
          /\ Deciding(c)' => steady'[c] = Target(sync'.rows[c], sync'.at)
          /\ Present(c)' /\ Enforced(c)' =>
                 \A s \in Ipset : c \in members'[s] <=> s = steady'[c]
  <2>1. CASE SyncSelect
    <3>1. /\ sync'.pc = "enforce" /\ sync'.rows = clients /\ clients' = clients
          /\ sync'.todo = {c \in Client : Present(c)}
      BY <1>1, <2>1 DEF SyncSelect, CoreOK, Daemon
    <3>2. Admitted'
      BY <3>1 DEF Admitted
    <3>3. QED
      BY <1>3, <3>1, <3>2 DEF Deciding, Enforced, Present
  <2>2. ASSUME NEW d \in Client, Admit(d)
        PROVE  Admitted' /\ \A c \in Client : steady'[c] # Changed =>
                   /\ Deciding(c)' => steady'[c] = Target(sync'.rows[c], sync'.at)
                   /\ Present(c)' /\ Enforced(c)' =>
                          \A s \in Ipset : c \in members'[s] <=> s = steady'[c]
    <3>1. /\ sync.pc = "enforce" /\ sync'.pc = "drop" /\ sync'.cur = d /\ d \in sync.todo
          /\ sync'.rows = sync.rows /\ sync'.todo = sync.todo /\ sync'.at = sync.at
      BY <1>1, <2>2 DEF Admit, CoreOK, Daemon
    <3>2. \A s \in Ipset :
              /\ s = Target(sync.rows[d], sync.at) => d \in members'[s]
              /\ \A c \in Client : c # d => (c \in members'[s] <=> c \in members[s])
      BY <1>1, <2>2 DEF Admit, CoreOK
    <3>3. Admitted'
      BY <3>1, <3>2 DEF Admitted
    <3>4. QED
      BY <1>3, <3>1, <3>2, <3>3 DEF Followed, Deciding, Enforced
  <2>3. CASE Drop
    <3>1. PICK d \in Client : d = sync.cur
      BY <1>1, <2>3 DEF Drop, CoreOK
    <3>2. /\ sync.pc = "drop" /\ sync'.pc = "enforce" /\ sync'.at = sync.at
          /\ d \in sync.todo /\ sync'.todo = sync.todo \ {d}
          /\ \A c \in Client : c # d => sync'.rows[c] = sync.rows[c]
      BY <1>1, <2>3, <3>1 DEF Drop, CoreOK, Daemon, Admitted
    <3>3. \A s \in Ipset :
              /\ d \in members'[s] <=> d \in members[s] /\ s = Target(sync.rows[d], sync.at)
              /\ \A c \in Client : c # d => (c \in members'[s] <=> c \in members[s])
      BY <1>1, <2>3, <3>1 DEF Drop, CoreOK
    <3>4. \A s \in Ipset : d \in members'[s] <=> s = Target(sync.rows[d], sync.at)
      BY <1>1, <3>1, <3>2, <3>3 DEF Admitted
    <3>5. Admitted'
      BY <3>2 DEF Admitted
    <3>6. ASSUME NEW c \in Client, steady'[c] # Changed
          PROVE  /\ Deciding(c)' => steady'[c] = Target(sync'.rows[c], sync'.at)
                 /\ Present(c)' /\ Enforced(c)' =>
                        \A s \in Ipset : c \in members'[s] <=> s = steady'[c]
      <4>1. CASE c = d
        BY <1>3, <3>2, <3>4, <3>6, <4>1 DEF Followed, Deciding, Enforced
      <4>2. CASE c # d
        BY <1>3, <3>2, <3>3, <3>6, <4>2 DEF Followed, Deciding, Enforced
      <4>3. QED
        BY <4>1, <4>2
    <3>7. QED
      BY <3>5, <3>6
  <2>4. CASE SyncEnd
    <3>1. sync.pc = "enforce" /\ sync.todo = {} /\ sync'.pc = "idle" /\ members' = members
      BY <2>4, IdleType DEF SyncEnd
    <3>2. QED
      BY <1>3, <3>1 DEF Followed, Deciding, Enforced, Admitted
  <2>5. QED
    BY <2>1, <2>2, <2>3, <2>4
<1>5. ASSUME NEW c \in Client PROVE Blank(c)' /\ (steady'[c] # Changed => Followed(c)')
  BY <1>3, <1>4, FollowedRow DEF Followed
<1>6. QED
  BY <1>2, <1>4, <1>5 DEF Settling

LEMMA InitSettling == Init => Settling
<1> SUFFICES ASSUME Init PROVE Settling
  OBVIOUS
<1>1. TypeOK /\ sync.pc = "idle"
  BY InitTypeOK, IdleType DEF Init
<1>2. ASSUME NEW c \in Client PROVE Blank(c) /\ steady[c] = Changed
  BY DEF Init, Table!Init, Table!NoRow, Blank
<1>3. QED
  BY <1>1, <1>2 DEF Settling, Admitted

LEMMA StepSettling ==
    ASSUME Settling, Worthwhile, [Next]_vars
    PROVE  Settling'
<1>1. TypeOK' /\ TypeOK
  BY StepTypeOK DEF Settling
<1>2. CASE UNCHANGED vars
  BY <1>1, <1>2 DEF Settling, Blank, Present, Followed, Deciding, Enforced, Admitted
<1>3. CASE SyncBegin
  <2>1. Next
    BY <1>3 DEF Next, SyncStep
  <2>2. /\ sync'.pc = "reset" /\ sync'.at = now /\ now' = now /\ clients' = clients
        /\ now \in Nat
    BY <1>1, <1>3 DEF SyncBegin, TypeOK, Daemon, Table!TypeOK
  <2>3. ASSUME NEW c \in Client PROVE steady'[c] = Target(clients'[c], now')
    BY <1>3, <2>2 DEF SyncBegin
  <2>4. ASSUME NEW c \in Client PROVE Blank(c)' /\ Followed(c)'
    BY <1>1, <2>1, <2>2, <2>3, FollowedRow DEF Followed, Deciding, Enforced
  <2>5. QED
    BY <1>1, <2>2, <2>4 DEF Settling, Admitted
<1>4. CASE SyncStep /\ ~SyncBegin
  <2>1. Next /\ Watch
    BY <1>4 DEF Next, SyncStep
  <2>2. QED
    BY <1>1, <1>4, <2>1, QuietSettling, EnforcingSettling DEF SyncStep
<1>5. CASE (Portal \/ Tick \/ \E c \in Client : Traffic(c)) /\ Watch
  <2>1. Next
    BY <1>5 DEF Next
  <2>2. sync' = sync /\ members' = members
    BY <1>5 DEF Portal, GrantGrace, RefuseGrace, MarkPaid, Revoke, IndexRead, IndexExpire,
                Tick, Traffic
  <2>3. QED
    BY <1>1, <1>5, <2>1, <2>2, OutsideSettling
<1>6. CASE Restart /\ Forget
  <2>1. Next
    BY <1>6 DEF Next
  <2>2. sync'.pc = "idle" /\ \A c \in Client : steady'[c] = Changed
    BY <1>6, IdleType DEF Restart, SyncCrash, ApRestart, Forget
  <2>3. \A c \in Client : Blank(c)'
    BY <1>1, <2>1, FollowedRow
  <2>4. QED
    BY <1>1, <2>2, <2>3 DEF Settling, Admitted
<1>7. QED
  BY <1>2, <1>3, <1>4, <1>5, <1>6 DEF Next

\* Whoever writes to the table meanwhile and wherever an earlier cycle crashed:
\* at the end of a cycle a client whose row has asked for the same thing ever
\* since it began is in that ipset and in no other, if nothing that is granted
\* or sold is empty.
THEOREM CycleSettlesHolds ==
    ASSUME Worthwhile
    PROVE  Spec => []CycleSettles
<1>1. Init => Settling
  BY InitSettling
<1>2. Settling /\ [Next]_vars => Settling'
  BY StepSettling
<1>3. Settling => CycleSettles
  BY DEF Settling, Followed, Enforced, CycleSettles
<1>4. QED
  BY <1>1, <1>2, <1>3, PTL DEF Spec
=============================================================================
