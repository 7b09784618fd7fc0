--------------------------- MODULE CheckoutProofs ---------------------------
(***************************************************************************)
(* Two theorems about Checkout, for any number of chains and workers: its  *)
(* types, with the facts that at most one worker has an answer awaited and *)
(* that a hidden payment page has no timer; and that a payment in good     *)
(* time, on a page that watches, is not lost, if grace cannot be had twice *)
(* in the meantime.                                                        *)
(***************************************************************************)
EXTENDS Checkout, FiniteSetTheorems, TLAPS

Flights == [kind : {"auto", "manual"}, got : {"nothing", "paid", "unpaid", "error"},
            age : 0..FetchTimeout]
Leavings == [left : Off..RedirectDelay, chain : Chain]
Requests == [pc : {"isPaid", "list", "verify", "record"}, chain : Chain,
             had : {"unpaid", "paid", "settled"}, awaited : BOOLEAN]
Sessions == [status : {"new", "grace", "paid", "expired"}, left : (-Cycle)..(GraceDuration + 1)]
Transfers == [chain : Chain \cup {"none"}, age : 0..Margin,
              fate : {"unpaid", "open", "credited", "lost"}]

PageOK == page \in [at : {"payment", "success"}, chain : Chain] /\ visible \in BOOLEAN

TimerOK ==
    /\ timer \in Off..PollMax \cup Off..StatusInterval
    /\ delay \in PollInterval..PollMax
    /\ ~visible /\ page.at = "payment" => timer = Off

FlightOK == flight \in {NoFlight} \cup Flights /\ leaving \in Leavings

\* The workers' requests, and the check that one of them belongs to.
WorkOK ==
    /\ work \in [Worker -> {Free} \cup Requests]
    /\ \A v, w \in Worker : work[v].awaited /\ work[w].awaited => v = w
    /\ Asked => flight # NoFlight /\ flight.got = "nothing"

SessionOK ==
    /\ session \in Sessions
    /\ since \in 0..GraceCooldown
    /\ invoice \in [Chain -> Off..PendingDuration]

WatchOK == transfer \in Transfers /\ blind \in 0..Ttl /\ watched \in Off..Margin

Inv == PageOK /\ TimerOK /\ FlightOK /\ WorkOK /\ SessionOK /\ WatchOK

LEMMA Settings ==
    /\ PollInterval \in Nat \ {0} /\ PollMax \in Nat /\ PollMax >= PollInterval
    /\ FetchTimeout \in Nat \ {0} /\ StatusInterval \in Nat \ {0}
    /\ PendingDuration \in Nat \ {0}
    /\ RedirectDelay \in Nat /\ GraceDuration \in Nat /\ GraceCooldown \in Nat
    /\ Confirming \in Nat /\ Ttl \in Nat /\ Cycle \in Nat
    /\ DefaultChain \in Chain
<1>1. /\ PollInterval \in Nat \ {0} /\ FetchTimeout \in Nat \ {0}
      /\ StatusInterval \in Nat \ {0} /\ PendingDuration \in Nat \ {0}
  BY CheckoutAssumption
<1>2. RedirectDelay \in Nat /\ GraceDuration \in Nat /\ GraceCooldown \in Nat
  BY CheckoutAssumption
<1>3. Confirming \in Nat /\ Ttl \in Nat /\ Cycle \in Nat
  BY CheckoutAssumption
<1>4. PollMax \in Nat /\ PollMax >= PollInterval /\ DefaultChain \in Chain
  BY CheckoutAssumption
<1>5. QED
  BY <1>1, <1>2, <1>3, <1>4

\* What the times of a check and of a detour leave room for.
LEMMA Times ==
    /\ CheckTime \in Nat /\ DetourTime \in Nat /\ Margin \in Nat
    /\ CheckTime >= PollMax + FetchTimeout
    /\ CheckTime >= PollInterval + 2 * FetchTimeout
    /\ CheckTime >= StatusInterval + PollInterval + FetchTimeout
    /\ CheckTime >= RedirectDelay + PollInterval + FetchTimeout
    /\ DetourTime = RedirectDelay + GraceDuration + Cycle + StatusInterval
                    + PollInterval + FetchTimeout
    /\ Margin = Confirming + Ttl + CheckTime + DetourTime
BY Settings DEF CheckTime, DetourTime, Margin, Larger

LEMMA InvTyped == Inv => TypeOK
<1> SUFFICES ASSUME Inv PROVE TypeOK
  OBVIOUS
<1> DEFINE awaited == {w \in Worker : work[w].awaited}
<1>1. Cardinality(awaited) <= 1
  <2>1. CASE awaited = {}
    BY <2>1, FS_EmptySet
  <2>2. CASE awaited # {}
    <3>1. PICK w \in awaited : TRUE
      BY <2>2
    <3>2. awaited = {w}
      BY <3>1 DEF Inv, WorkOK
    <3>3. Cardinality(awaited) = 1
      BY <3>2, FS_Singleton
    <3>4. QED
      BY <3>3
  <2>3. QED
    BY <2>1, <2>2
<1>2. /\ session.status \in {"new", "grace", "paid", "expired"}
      /\ session.left \in (-Cycle)..(GraceDuration + 1)
      /\ transfer.fate \in {"unpaid", "open", "credited", "lost"}
  BY DEF Inv, SessionOK, WatchOK, Sessions, Transfers
<1>3. QED
  BY <1>1, <1>2 DEF Inv, TypeOK, PageOK, TimerOK, FlightOK, WorkOK, SessionOK, WatchOK,
                    Flights, Leavings, Requests

LEMMA InitInv == Init => Inv
<1> SUFFICES ASSUME Init PROVE Inv
  OBVIOUS
<1> USE Settings, Times
<1>1. PageOK /\ TimerOK
  BY DEF Init, PageOK, TimerOK, Off
<1>2. FlightOK /\ WorkOK
  BY DEF Init, FlightOK, WorkOK, Asked, Free, Staying, Leavings, Off
<1>3. SessionOK
  BY DEF Init, SessionOK, Sessions, Off
<1>4. WatchOK
  BY DEF Init, WatchOK, Transfers, NoTransfer, Off
<1>5. QED
  BY <1>1, <1>2, <1>3, <1>4 DEF Inv

-----------------------------------------------------------------------------
(***************************************************************************)
(* What the actions have in common.                                        *)
(***************************************************************************)
LEMMA Ages ==
    /\ \A a \in 0..Margin : Older(a) \in 0..Margin /\ Older(a) <= a + 1
    /\ \A a \in Off..Margin : a # Off => Older(a) \in Off..Margin
    /\ {Off, 0} \subseteq Off..Margin
    /\ Off..Margin \subseteq Int
BY Times DEF Older, Off

LEMMA Delays ==
    /\ PollInterval \in PollInterval..PollMax /\ PollInterval \in Off..PollMax
    /\ Off \in Off..PollMax /\ {0, StatusInterval} \subseteq Off..StatusInterval
    /\ {0, RedirectDelay} \subseteq Off..RedirectDelay /\ Off \in Off..RedirectDelay
    /\ \A d \in PollInterval..PollMax :
           Double(d) \in PollInterval..PollMax /\ Double(d) \in Off..PollMax
BY Settings DEF Double, Off

\* A time that passes stays within its bounds.
LEMMA Downs ==
    ASSUME NEW m \in Nat
    PROVE  \A n \in Off..m : Down(n) \in Off..m /\ (Down(n) = Off <=> n = Off)
BY DEF Down, Off

\* Nothing that was in flight is awaited any more.
LEMMA Abandoned ==
    ASSUME WorkOK, work' = Abandon
    PROVE  WorkOK' /\ \A w \in Worker : ~work'[w].awaited
<1>1. ASSUME NEW w \in Worker PROVE work'[w] \in {Free} \cup Requests /\ ~work'[w].awaited
  <2>1. work[w] \in {Free} \cup Requests /\ work'[w] = [work[w] EXCEPT !.awaited = FALSE]
    BY DEF WorkOK, Abandon
  <2>2. CASE work[w] = Free
    <3>1. /\ [Free EXCEPT !.awaited = FALSE]
                \in [pc : {"free"}, chain : {"none"}, had : {"unpaid"}, awaited : BOOLEAN]
          /\ ~[Free EXCEPT !.awaited = FALSE].awaited
      BY DEF Free
    <3>2. \A r \in [pc : {"free"}, chain : {"none"}, had : {"unpaid"}, awaited : BOOLEAN] :
              ~r.awaited => r = Free
      BY DEF Free
    <3>3. QED
      BY <2>1, <2>2, <3>1, <3>2
  <2>3. CASE work[w] \in Requests
    BY <2>1, <2>3 DEF Requests
  <2>4. QED
    BY <2>1, <2>2, <2>3
<1>2. work' = [w \in Worker |-> work'[w]]
  BY DEF Abandon
<1>3. QED
  BY <1>1, <1>2 DEF WorkOK, Asked

\* A page is loaded.
LEMMA Loads ==
    ASSUME Inv, NEW c \in Chain, Load(c)
    PROVE  PageOK' /\ TimerOK' /\ FlightOK' /\ WorkOK' /\ SessionOK'
<1> USE DEF Inv
<1>1. /\ WorkOK' /\ FlightOK' /\ delay' = PollInterval
      /\ UNCHANGED <<visible, since, blind>>
  BY Abandoned, Delays, Settings DEF Load, FlightOK, Leavings, Staying
<1>2. CASE Active
  <2>1. /\ page' = [at |-> "success", chain |-> DefaultChain] /\ timer' = 0
        /\ session' = session /\ invoice' = invoice
    BY <1>2 DEF Load, ShowSuccess
  <2>2. QED
    BY <1>1, <2>1, Delays, Settings DEF PageOK, TimerOK, SessionOK
<1>3. CASE ~Active
  <2>1. ShowPayment(c)
    BY <1>3 DEF Load
  <2>2. page' = [at |-> "payment", chain |-> c] /\ timer' = Armed(PollInterval)
    BY <2>1 DEF ShowPayment
  <2>3. PageOK' /\ TimerOK'
    BY <1>1, <2>2, Delays DEF PageOK, TimerOK, Armed
  <2>4. session' \in Sessions
    BY <2>1, Settings DEF ShowPayment, SessionOK, Sessions
  <2>5. invoice' \in [Chain -> Off..PendingDuration]
    <3>1. \A n \in Off..PendingDuration :
              (IF n > 0 THEN n ELSE PendingDuration) \in Off..PendingDuration
      BY Settings DEF Off
    <3>2. QED
      BY <2>1, <3>1 DEF ShowPayment, SessionOK
  <2>6. QED
    BY <1>1, <2>3, <2>4, <2>5 DEF SessionOK
<1>4. QED
  BY <1>2, <1>3

\* A redirect is set.
LEMMA Leaves ==
    ASSUME FlightOK, NEW c \in Chain, LeaveFor(c)
    PROVE  leaving' \in Leavings
BY Delays, Settings DEF FlightOK, LeaveFor, Leavings

LEMMA Sends ==
    ASSUME NEW c \in Chain, Transferred(c)
    PROVE  transfer' \in Transfers
<1>1. 0 \in 0..Margin
  BY Times
<1>2. QED
  BY <1>1 DEF Transferred, Transfers

LEMMA Resuming ==
    ASSUME WatchOK
    PROVE  /\ watched' = Resumed => watched' \in Off..Margin
           /\ watched' = Interrupted => watched' \in Off..Margin
BY Ages DEF WatchOK, Resumed, Interrupted

\* A worker replies: its own check is answered, and no other is awaited.
LEMMA Replies ==
    ASSUME Inv, NEW w \in Worker, work[w] # Free,
           NEW what \in {"paid", "unpaid", "error"}, Reply(w, what)
    PROVE  WorkOK' /\ flight' \in {NoFlight} \cup Flights
<1>1. work \in [Worker -> {Free} \cup Requests] /\ ~Free.awaited
  BY DEF Inv, WorkOK, Free
<1>2. work' = [work EXCEPT ![w] = Free]
  BY DEF Reply
<1>3. \A v \in Worker : work'[v].awaited => v # w /\ work[v].awaited
  BY <1>1, <1>2
<1>4. CASE work[w].awaited
  <2>1. flight' = [flight EXCEPT !.got = what] /\ flight # NoFlight
    BY <1>4 DEF Reply, Inv, WorkOK, Asked
  <2>2. flight' \in Flights
    BY <2>1 DEF Inv, FlightOK, Flights
  <2>3. ~Asked'
    BY <1>3, <1>4 DEF Asked, Inv, WorkOK
  <2>4. QED
    BY <1>1, <1>2, <1>3, <2>2, <2>3 DEF WorkOK, Inv
<1>5. CASE ~work[w].awaited
  <2>1. flight' = flight
    BY <1>5 DEF Reply
  <2>2. Asked' => Asked
    BY <1>3 DEF Asked
  <2>3. QED
    BY <1>1, <1>2, <1>3, <2>1, <2>2 DEF WorkOK, FlightOK, Inv
<1>6. QED
  BY <1>4, <1>5

\* A worker goes on: it has the same request, and so has the page.
LEMMA GoesOn ==
    ASSUME Inv, NEW w \in Worker, work[w] # Free,
           NEW pc \in {"isPaid", "list", "verify", "record"},
           NEW had \in {"unpaid", "paid", "settled"},
           work' = [work EXCEPT ![w].pc = pc, ![w].had = had], flight' = flight
    PROVE  WorkOK' /\ \A v \in Worker : /\ work'[v].awaited = work[v].awaited
                                        /\ work'[v].chain = work[v].chain
<1>1. work \in [Worker -> {Free} \cup Requests] /\ work[w] \in Requests
  BY DEF Inv, WorkOK
<1>2. /\ work' \in [Worker -> {Free} \cup Requests]
      /\ \A v \in Worker : /\ work'[v].awaited = work[v].awaited
                           /\ work'[v].chain = work[v].chain
  <2> DEFINE r == [work[w] EXCEPT !.pc = pc, !.had = had]
  <2>1. r \in Requests /\ r.awaited = work[w].awaited /\ r.chain = work[w].chain
    BY <1>1 DEF Requests
  <2>2. work' = [work EXCEPT ![w] = r]
    BY <1>1
  <2>3. QED
    BY <1>1, <2>1, <2>2
<1>3. QED
  BY <1>2 DEF Inv, WorkOK, Asked

LEMMA GoesAlong ==
    ASSUME Inv, NEW w \in Worker, work[w] # Free,
           NEW pc \in {"isPaid", "list", "verify", "record"}, Goes(w, pc)
    PROVE  /\ WorkOK' /\ flight' = flight
           /\ \A v \in Worker : /\ work'[v].awaited = work[v].awaited
                              /\ work'[v].chain = work[v].chain
<1>1. work \in [Worker -> {Free} \cup Requests] /\ work[w] \in Requests
  BY DEF Inv, WorkOK
<1>2. work' = [work EXCEPT ![w].pc = pc, ![w].had = work[w].had] /\ flight' = flight
  BY <1>1 DEF Goes, Requests
<1>3. work[w].had \in {"unpaid", "paid", "settled"}
  BY <1>1 DEF Requests
<1>4. QED
  BY <1>2, <1>3, GoesOn

\* No answer is awaited any more once there is one, or there was no check.
LEMMA Unasked ==
    ASSUME Inv, flight.got # "nothing" \/ flight = NoFlight, UNCHANGED work
    PROVE  WorkOK'
BY DEF Inv, WorkOK, Asked

\* What a step of a worker does to the requests, the session and the transfer.
LEMMA Handled ==
    ASSUME Inv, NEW w \in Worker, Handle(w)
    PROVE  /\ work[w] # Free
           /\ UNCHANGED <<page, visible, timer, delay, leaving, since, blind, watched>>
           /\ WorkOK' /\ flight' \in {NoFlight} \cup Flights
           /\ session' \in Sessions /\ invoice' \in [Chain -> Off..PendingDuration]
           /\ transfer' \in Transfers
<1> USE DEF Inv
<1>0. work \in [Worker -> {Free} \cup Requests] /\ Free.pc = "free"
  BY DEF WorkOK, Free
<1>1. work[w] # Free
  BY <1>0 DEF Handle, IsPaid, List, Verified, Record
<1>2. UNCHANGED <<page, visible, timer, delay, leaving, since, blind, watched>>
  BY DEF Handle
<1>4. ASSUME NEW pc \in {"isPaid", "list", "verify", "record"}, Goes(w, pc)
      PROVE  WorkOK' /\ flight' \in {NoFlight} \cup Flights
  BY <1>1, <1>4, GoesAlong DEF FlightOK
<1>5. CASE IsPaid(w)
  BY <1>1, <1>2, <1>4, <1>5, Replies DEF IsPaid, SessionOK, WatchOK
<1>6. CASE List(w)
  <2>1. Received(work[w].chain) \in {"unpaid", "paid", "settled"}
    BY DEF Received
  <2>2. CASE invoice[work[w].chain] > 0
    BY <1>1, <1>2, <1>6, <2>1, <2>2, GoesOn DEF List, FlightOK, SessionOK, WatchOK
  <2>3. CASE ~(invoice[work[w].chain] > 0)
    BY <1>1, <1>2, <1>6, <2>3, Replies DEF List, SessionOK, WatchOK
  <2>4. QED
    BY <2>2, <2>3
<1>7. CASE Verified(w)
  BY <1>1, <1>2, <1>4, <1>7, Replies DEF Verified, SessionOK, WatchOK
<1>8. CASE Record(w)
  <2>1. WorkOK' /\ flight' \in {NoFlight} \cup Flights
    BY <1>1, <1>8, Replies DEF Record
  <2>2. session' \in Sessions
    <3>1. 0 \in (-Cycle)..(GraceDuration + 1) /\ 1 \in (-Cycle)..(GraceDuration + 1)
      BY Settings
    <3>2. session' = session \/ \E left \in {0, 1} : session' = [status |-> "paid", left |-> left]
      BY <1>8 DEF Record
    <3>3. QED
      BY <3>1, <3>2 DEF Sessions, SessionOK
  <2>3. invoice' \in [Chain -> Off..PendingDuration]
    <3>1. invoice' = invoice \/ invoice' = [invoice EXCEPT ![work[w].chain] = 0]
      BY <1>8 DEF Record
    <3>2. 0 \in Off..PendingDuration
      BY Settings DEF Off
    <3>3. QED
      BY <3>1, <3>2 DEF SessionOK
  <2>4. transfer' \in Transfers
    BY <1>8 DEF Record, WatchOK, Transfers
  <2>5. QED
    BY <1>1, <1>2, <2>1, <2>2, <2>3, <2>4
<1>9. QED
  BY <1>1, <1>2, <1>5, <1>6, <1>7, <1>8 DEF Handle

-----------------------------------------------------------------------------
LEMMA StepInv == Inv /\ [Next]_vars => Inv'
<1> SUFFICES ASSUME Inv, [Next]_vars PROVE Inv'
  OBVIOUS
<1> USE DEF Inv
<1>1. ASSUME NEW c \in Chain, Pay(c) PROVE Inv'
  <2>1. UNCHANGED <<browser, portal, watched>> /\ transfer' \in Transfers
    BY <1>1, Sends DEF Pay
  <2>2. QED
    BY <2>1 DEF browser, portal, PageOK, TimerOK, FlightOK, WorkOK, Asked, SessionOK, WatchOK
<1>2. CASE PayWithWallet
  <2>1. /\ UNCHANGED <<page, visible, flight, leaving, portal>>
        /\ timer' = Armed(PollInterval) /\ delay' = PollInterval /\ watched' = Resumed
    BY <1>2 DEF PayWithWallet
  <2>2. transfer' \in Transfers
    BY <1>2, Sends DEF PayWithWallet, PageOK
  <2>3. TimerOK'
    BY <2>1, Delays DEF TimerOK, Armed
  <2>4. WatchOK'
    BY <2>1, <2>2, Resuming DEF portal, WatchOK
  <2>5. QED
    BY <2>1, <2>3, <2>4 DEF portal, PageOK, FlightOK, WorkOK, Asked, SessionOK
<1>3. CASE Grace
  <2>1. /\ UNCHANGED <<page, visible, timer, delay, flight, work, invoice, transfer, blind>>
        /\ session' = [status |-> "grace", left |-> GraceDuration] /\ since' = 0
        /\ \/ LeaveFor(page.chain) /\ watched' = watched
           \/ watched' = Interrupted /\ leaving' = leaving
    BY <1>3 DEF Grace
  <2>2. leaving' \in Leavings
    BY <2>1, Leaves DEF PageOK, FlightOK
  <2>3. WatchOK'
    BY <2>1, Resuming DEF WatchOK
  <2>4. SessionOK'
    <3>1. GraceDuration \in (-Cycle)..(GraceDuration + 1) /\ 0 \in 0..GraceCooldown
      BY Settings
    <3>2. QED
      BY <2>1, <3>1 DEF SessionOK, Sessions
  <2>5. QED
    BY <2>1, <2>2, <2>3, <2>4 DEF PageOK, TimerOK, FlightOK, WorkOK, Asked
<1>4. CASE Hide
  <2>1. /\ UNCHANGED <<page, delay, flight, leaving, portal, transfer>> /\ visible' = FALSE
        /\ timer' = (IF page.at = "payment" THEN Off ELSE timer) /\ watched' = Interrupted
    BY <1>4 DEF Hide
  <2>2. PageOK' /\ TimerOK'
    BY <2>1, Delays DEF PageOK, TimerOK
  <2>3. WatchOK'
    BY <2>1, Resuming DEF portal, WatchOK
  <2>4. QED
    BY <2>1, <2>2, <2>3 DEF portal, FlightOK, WorkOK, Asked, SessionOK
<1>5. CASE Show
  <2>1. UNCHANGED <<page, flight, leaving, portal, transfer>> /\ visible' = TRUE /\ watched' = 0
    BY <1>5 DEF Show
  <2>2. PageOK' /\ TimerOK'
    BY <1>5, <2>1, Delays DEF Show, PageOK, TimerOK
  <2>3. WatchOK'
    BY <2>1, Ages DEF portal, WatchOK
  <2>4. QED
    BY <2>1, <2>2, <2>3 DEF portal, FlightOK, WorkOK, Asked, SessionOK
<1>6. CASE Click
  <2>1. /\ UNCHANGED <<page, visible, timer, delay, leaving, portal, transfer, watched>>
        /\ flight = NoFlight /\ flight' = [kind |-> "manual", got |-> "nothing", age |-> 0]
    BY <1>6 DEF Click
  <2>2. FlightOK' /\ WorkOK'
    BY <2>1, Settings DEF FlightOK, Flights, portal, WorkOK, Asked
  <2>3. QED
    BY <2>1, <2>2 DEF portal, PageOK, TimerOK, SessionOK, WatchOK
<1>7. ASSUME NEW c \in Chain, Visit(c) PROVE Inv'
  <2>1. Load(c) /\ watched' = 0 /\ transfer' = transfer
    BY <1>7 DEF Visit
  <2>2. WatchOK'
    BY <2>1, Ages DEF Load, WatchOK
  <2>3. QED
    BY <2>1, <2>2, Loads
<1>8. CASE Poll
  <2>1. /\ UNCHANGED <<page, visible, delay, leaving, portal, transfer>> /\ timer' = Off
        /\ flight' \in {flight, [kind |-> "auto", got |-> "nothing", age |-> 0]}
        /\ flight # NoFlight => flight' = flight
        /\ watched' \in {watched, Off}
    BY <1>8 DEF Poll
  <2>2. TimerOK' /\ PageOK'
    BY <2>1, Delays DEF PageOK, TimerOK
  <2>3. FlightOK' /\ WorkOK'
    BY <2>1, Settings DEF portal, FlightOK, Flights, WorkOK, Asked
  <2>4. WatchOK'
    BY <2>1, Ages DEF portal, WatchOK
  <2>5. QED
    BY <2>1, <2>2, <2>3, <2>4 DEF portal, SessionOK
<1>9. CASE NotPaid
  <2>1. /\ UNCHANGED <<page, visible, leaving, portal, transfer, watched>>
        /\ flight.got = "unpaid" /\ flight' = NoFlight
    BY <1>9 DEF NotPaid
  <2>2. WorkOK'
    BY <2>1, Unasked DEF portal
  <2>3. TimerOK' /\ FlightOK'
    BY <1>9, <2>1, Delays DEF NotPaid, TimerOK, FlightOK, Armed
  <2>4. QED
    BY <2>1, <2>2, <2>3 DEF portal, PageOK, SessionOK, WatchOK
<1>10. CASE CheckFailed
  <2>1. /\ UNCHANGED <<page, visible, leaving, session, since, invoice, transfer, blind>>
        /\ flight' = NoFlight /\ work' = Abandon /\ watched' = Interrupted
    BY <1>10 DEF CheckFailed
  <2>2. WorkOK'
    BY <2>1, Abandoned
  <2>3. TimerOK' /\ FlightOK'
    BY <1>10, <2>1, Delays DEF CheckFailed, TimerOK, FlightOK, Armed
  <2>4. WatchOK'
    BY <2>1, Resuming DEF WatchOK
  <2>5. QED
    BY <2>1, <2>2, <2>3, <2>4 DEF PageOK, SessionOK
<1>11. CASE Paid
  <2>1. /\ UNCHANGED <<page, visible, portal, transfer, watched>> /\ flight.got = "paid"
        /\ flight' = NoFlight /\ timer' = Off /\ delay' = PollInterval
        /\ LeaveFor(DefaultChain)
    BY <1>11 DEF Paid
  <2>2. WorkOK'
    BY <2>1, Unasked DEF portal
  <2>3. TimerOK' /\ FlightOK'
    BY <2>1, Delays, Leaves, Settings DEF TimerOK, FlightOK
  <2>4. QED
    BY <2>1, <2>2, <2>3 DEF portal, PageOK, SessionOK, WatchOK
<1>12. CASE Leave
  <2>1. Load(leaving.chain) /\ transfer' = transfer /\ watched' = Resumed
    BY <1>12 DEF Leave
  <2>2. leaving.chain \in Chain
    BY DEF FlightOK, Leavings
  <2>3. WatchOK'
    BY <2>1, Resuming DEF Load, WatchOK
  <2>4. QED
    BY <2>1, <2>2, <2>3, Loads
<1>13. CASE PollStatus
  <2>1. CASE session.status \in {"grace", "paid"}
    <3>1. UNCHANGED <<page, visible, delay, flight, leaving, portal, transfer, watched>>
          /\ timer' = StatusInterval /\ page.at = "success"
      BY <1>13, <2>1 DEF PollStatus
    <3>2. QED
      BY <3>1, Delays DEF portal, PageOK, TimerOK, FlightOK, WorkOK, Asked, SessionOK, WatchOK
  <2>2. CASE session.status \notin {"grace", "paid"}
    <3>1. Load(DefaultChain) /\ transfer' = transfer /\ watched' = Resumed
      BY <1>13, <2>2 DEF PollStatus
    <3>2. WatchOK'
      BY <3>1, Resuming DEF Load, WatchOK
    <3>3. QED
      BY <3>1, <3>2, Loads, Settings
  <2>3. QED
    BY <2>1, <2>2
<1>14. CASE StatusFails
  <2>1. /\ UNCHANGED <<page, visible, delay, flight, leaving, portal, transfer>>
        /\ timer' = StatusInterval /\ watched' = Interrupted /\ page.at = "success"
    BY <1>14 DEF StatusFails
  <2>2. WatchOK'
    BY <2>1, Resuming DEF portal, WatchOK
  <2>3. QED
    BY <2>1, <2>2, Delays DEF portal, PageOK, TimerOK, FlightOK, WorkOK, Asked, SessionOK
<1>15. ASSUME NEW w \in Worker, Accept(w) PROVE Inv'
  <2>1. UNCHANGED <<browser, session, since, invoice, transfer, blind, watched>>
    BY <1>15 DEF Accept
  <2> DEFINE r == [pc |-> "isPaid", chain |-> page.chain, had |-> "unpaid", awaited |-> TRUE]
  <2>2. ~Asked /\ flight # NoFlight /\ flight.got = "nothing" /\ work' = [work EXCEPT ![w] = r]
    BY <1>15 DEF Accept
  <2>3. r \in Requests
    BY DEF PageOK, Requests
  <2>4. WorkOK'
    BY <2>1, <2>2, <2>3 DEF browser, WorkOK, Asked
  <2>5. QED
    BY <2>1, <2>4 DEF browser, PageOK, TimerOK, FlightOK, SessionOK, WatchOK
<1>16. ASSUME NEW w \in Worker, Handle(w) PROVE Inv'
  BY <1>16, Handled DEF PageOK, TimerOK, FlightOK, SessionOK, WatchOK
<1>17. ASSUME NEW w \in Worker, Fail(w) PROVE Inv'
  <2>1. /\ UNCHANGED <<page, visible, timer, delay, leaving, session, since, invoice, transfer,
                       blind>>
        /\ watched' = Interrupted
    BY <1>17 DEF Fail
  <2>2. WorkOK' /\ flight' \in {NoFlight} \cup Flights
    BY <1>17, Replies DEF Fail
  <2>3. WatchOK'
    BY <2>1, Resuming DEF WatchOK
  <2>4. QED
    BY <2>1, <2>2, <2>3 DEF PageOK, TimerOK, FlightOK, SessionOK
<1>18. ASSUME NEW w \in Worker, ExplorerFails(w) PROVE Inv'
  <2>1. /\ UNCHANGED <<page, visible, timer, delay, leaving, session, since, invoice, transfer>>
        /\ watched' = Interrupted /\ blind' = Ttl
    BY <1>18 DEF ExplorerFails
  <2>2. WorkOK' /\ flight' \in {NoFlight} \cup Flights
    <3>1. work[w] # Free
      BY <1>18 DEF ExplorerFails, Free
    <3>2. QED
      BY <1>18, <3>1, Replies DEF ExplorerFails
  <2>3. WatchOK'
    BY <2>1, Resuming, Settings DEF WatchOK
  <2>4. QED
    BY <2>1, <2>2, <2>3 DEF PageOK, TimerOK, FlightOK, SessionOK
<1>19. CASE LoseAnswer
  <2>1. /\ UNCHANGED <<page, visible, timer, delay, leaving, portal, transfer>>
        /\ flight.got \in {"paid", "unpaid"} /\ flight' = [flight EXCEPT !.got = "error"]
        /\ watched' = Interrupted
    BY <1>19 DEF LoseAnswer
  <2>2. flight' \in Flights
    BY <2>1 DEF FlightOK, Flights, NoFlight
  <2>3. WorkOK'
    BY <2>1, Unasked DEF portal
  <2>4. WatchOK'
    BY <2>1, Resuming DEF portal, WatchOK
  <2>5. QED
    BY <2>1, <2>2, <2>3, <2>4 DEF portal, PageOK, TimerOK, FlightOK, SessionOK
<1>20. CASE Exhaust \/ Expire
  <2>1. UNCHANGED <<browser, work, since, invoice, transfer, blind, watched>>
    BY <1>20 DEF Exhaust, Expire
  <2>2. session' \in Sessions
    BY <1>20, Settings DEF Exhaust, Expire, SessionOK, Sessions
  <2>3. QED
    BY <2>1, <2>2 DEF browser, PageOK, TimerOK, FlightOK, WorkOK, Asked, SessionOK, WatchOK
<1>21. CASE Tick
  <2>1. UNCHANGED <<page, visible, delay, work>> /\ ~Due
    BY <1>21 DEF Tick
  <2>2. TimerOK'
    <3>1. timer' = Down(timer)
      BY <1>21 DEF Tick
    <3>2. /\ timer' \in Off..PollMax \cup Off..StatusInterval
          /\ timer = Off => timer' = Off
      BY <3>1, Downs, Settings DEF TimerOK
    <3>3. QED
      BY <2>1, <3>2 DEF TimerOK
  <2>3. flight' \in {NoFlight} \cup Flights /\ WorkOK'
    <3>1. CASE flight = NoFlight
      BY <1>21, <2>1, <3>1 DEF Tick, FlightOK, WorkOK, Asked
    <3>2. CASE flight # NoFlight
      <4>1. flight \in Flights /\ flight' = [flight EXCEPT !.age = @ + 1]
        BY <1>21, <3>2 DEF Tick, FlightOK
      <4>2. flight.age # FetchTimeout
        BY <2>1 DEF Due
      <4>3. flight' \in Flights /\ flight'.got = flight.got
        BY <4>1, <4>2, Settings DEF Flights
      <4>4. flight' # NoFlight
        BY <4>3 DEF Flights, NoFlight
      <4>5. QED
        BY <2>1, <4>3, <4>4 DEF WorkOK, Asked
    <3>3. QED
      BY <3>1, <3>2
  <2>4. leaving' \in Leavings
    <3>1. leaving' = [leaving EXCEPT !.left = Down(@)]
      BY <1>21 DEF Tick
    <3>2. leaving.left \in Off..RedirectDelay => Down(leaving.left) \in Off..RedirectDelay
      BY Downs, Settings
    <3>3. QED
      BY <3>1, <3>2 DEF FlightOK, Leavings
  <2>5. SessionOK'
    <3>1. session' \in {session, [session EXCEPT !.left = @ - 1]}
          /\ (session' # session => session.status = "grace" \/ Over)
      BY <1>21 DEF Tick
    <3>2. Over => session.left # -Cycle
      BY <2>1 DEF Due
    <3>3. session.status = "grace" /\ ~Over => session.left > 0
      BY Settings DEF Over, SessionOK, Sessions
    <3>4. session' \in Sessions
      BY <3>1, <3>2, <3>3, Settings DEF SessionOK, Sessions
    <3>5. invoice' \in [Chain -> Off..PendingDuration]
      <4>1. \A n \in Off..PendingDuration : Down(n) \in Off..PendingDuration
        BY Downs, Settings
      <4>2. QED
        BY <1>21, <4>1 DEF Tick, SessionOK
    <3>6. since' \in 0..GraceCooldown
      BY <1>21, Settings DEF Tick, SessionOK
    <3>7. QED
      BY <3>4, <3>5, <3>6 DEF SessionOK
  <2>6. WatchOK'
    <3>1. transfer' \in {transfer, [transfer EXCEPT !.fate = "lost"],
                         [transfer EXCEPT !.age = Older(@)]}
      BY <1>21 DEF Tick
    <3>2. transfer' \in Transfers
      BY <3>1, Ages DEF WatchOK, Transfers
    <3>3. watched' \in Off..Margin
      BY <1>21, Ages DEF Tick, WatchOK, Stalled
    <3>4. blind' \in 0..Ttl
      BY <1>21, Settings DEF Tick, WatchOK, Down
    <3>5. QED
      BY <3>2, <3>3, <3>4 DEF WatchOK
  <2>7. QED
    BY <2>1, <2>2, <2>3, <2>4, <2>5, <2>6 DEF PageOK, FlightOK
<1>22. CASE UNCHANGED vars
  BY <1>22 DEF vars, PageOK, TimerOK, FlightOK, WorkOK, Asked, SessionOK, WatchOK
<1>23. QED
  BY <1>1, <1>2, <1>3, <1>4, <1>5, <1>6, <1>7, <1>8, <1>9, <1>10, <1>11, <1>12, <1>13, <1>14,
     <1>15, <1>16, <1>17, <1>18, <1>19, <1>20, <1>21, <1>22 DEF Next

\* For every setting the page, the workers and the invoices keep their types; at
\* most one request has its answer awaited, whatever the page has abandoned, and
\* a hidden page polls nothing (main.js:250-341, app.py:498-560).
THEOREM TypeCorrect == Spec => []TypeOK
<1>1. Init => Inv
  BY InitInv
<1>2. Inv /\ [Next]_vars => Inv'
  BY StepInv
<1>3. Inv => TypeOK
  BY InvTyped
<1>4. QED
  BY <1>1, <1>2, <1>3, PTL DEF Spec
-----------------------------------------------------------------------------
(***************************************************************************)
(* No payment in good time is lost.  As long as nothing keeps the page     *)
(* from checking, there is at every moment a bound on the time until a     *)
(* check tells of a transfer that has settled, and that time is left:      *)
(* counted from the moment the page began to watch, or from the one at     *)
(* which the transfer was sent, whichever was later.                       *)
(***************************************************************************)
\* A session goes with its cause, and an invoice that is paid is still open.
SessionPlaced ==
    /\ session.status = "paid" => transfer.fate = "credited"
    /\ session.status = "grace" => since + session.left <= GraceDuration
    /\ transfer.fate = "open" => transfer.chain \in Chain /\ invoice[transfer.chain] > 0

\* The success page has only its status poll; an answer that is awaited is about
\* the chain on the page; and a payment page that is seen polls.
PagePlaced ==
    /\ page.at = "success" =>
           flight = NoFlight /\ leaving = Staying /\ timer \in 0..StatusInterval
    /\ leaving.left = Off => leaving = Staying
    /\ \A w \in Worker : work[w].awaited => work[w].chain = page.chain
    /\ page.at = "payment" /\ visible /\ ~Stalled /\ leaving = Staying =>
           timer # Off \/ flight.kind = "auto"

\* A failure of the explorer, and a page that does not watch, start the count anew.
WatchPlaced ==
    /\ blind > 0 => watched + blind <= Ttl
    /\ transfer.fate \in {"unpaid", "open"} /\ ~Watching => watched <= 0

Placed == SessionPlaced /\ PagePlaced /\ WatchPlaced

LEMMA Numbers ==
    ASSUME Inv
    PROVE  /\ watched \in Int /\ watched >= -1 /\ watched <= Margin
           /\ timer \in Int /\ timer >= -1 /\ delay \in Int
           /\ flight.age \in Nat /\ flight.age <= FetchTimeout
           /\ leaving.left \in Int /\ leaving.left >= -1 /\ leaving.left <= RedirectDelay
           /\ transfer.age \in Nat /\ transfer.age <= Margin
           /\ blind \in Nat /\ blind <= Ttl
           /\ session.left \in Int /\ session.left >= -Cycle /\ session.left <= GraceDuration + 1
           /\ since \in Nat /\ since <= GraceCooldown
           /\ transfer.fate \in {"unpaid", "open", "credited", "lost"}
           /\ session.status \in {"new", "grace", "paid", "expired"}
           /\ page.at \in {"payment", "success"} /\ visible \in BOOLEAN
           /\ flight.kind \in {"none", "auto", "manual"}
<1> USE Settings, Times DEF Inv
<1>1. /\ watched \in Int /\ watched >= -1 /\ watched <= Margin
      /\ timer \in Int /\ timer >= -1 /\ delay \in Int
  BY DEF WatchOK, TimerOK, Off
<1>2. /\ flight.age \in Nat /\ flight.age <= FetchTimeout
      /\ flight.kind \in {"none", "auto", "manual"}
  BY DEF FlightOK, Flights, NoFlight
<1>3. leaving.left \in Int /\ leaving.left >= -1 /\ leaving.left <= RedirectDelay
  BY DEF FlightOK, Leavings, Off
<1>4. /\ transfer.age \in Nat /\ transfer.age <= Margin /\ blind \in Nat /\ blind <= Ttl
      /\ transfer.fate \in {"unpaid", "open", "credited", "lost"}
  BY DEF WatchOK, Transfers
<1>5. /\ session.left \in Int /\ session.left >= -Cycle /\ session.left <= GraceDuration + 1
      /\ since \in Nat /\ since <= GraceCooldown
      /\ session.status \in {"new", "grace", "paid", "expired"}
  BY DEF SessionOK, Sessions
<1>6. page.at \in {"payment", "success"} /\ visible \in BOOLEAN
  BY DEF PageOK
<1>7. QED
  BY <1>1, <1>2, <1>3, <1>4, <1>5, <1>6

\* What a load leaves: no check, and a page that polls if it can be seen.
LEMMA LoadLeaves ==
    ASSUME Inv, NEW c \in Chain, Load(c)
    PROVE  /\ flight' = NoFlight /\ leaving' = Staying /\ UNCHANGED <<visible, since, blind>>
           /\ \A w \in Worker : ~work'[w].awaited
           /\ \A d \in Chain : invoice[d] > 0 => invoice'[d] = invoice[d]
           /\ \/ /\ Active /\ page'.at = "success" /\ page'.chain = DefaultChain
                 /\ timer' = 0 /\ session' = session
              \/ /\ ~Active /\ page'.at = "payment" /\ page'.chain = c
                 /\ timer' = Armed(PollInterval)
                 /\ \/ session'.status = "expired"
                    \/ session' = session /\ session.status # "paid"
<1> USE DEF Inv
<1>1. /\ flight' = NoFlight /\ leaving' = Staying /\ UNCHANGED <<visible, since, blind>>
      /\ \A w \in Worker : ~work'[w].awaited
  BY Abandoned DEF Load
<1>2. CASE Active
  BY <1>1, <1>2 DEF Load, ShowSuccess
<1>3. CASE ~Active
  <2>1. ShowPayment(c)
    BY <1>3 DEF Load
  <2>2. \A d \in Chain : invoice[d] > 0 => invoice'[d] = invoice[d]
    BY <2>1 DEF ShowPayment, SessionOK
  <2>3. QED
    BY <1>1, <1>3, <2>1, <2>2 DEF ShowPayment
<1>4. QED
  BY <1>2, <1>3

LEMMA Stops ==
    ASSUME Inv, watched' = Interrupted
    PROVE  watched' <= 0 /\ (watched' = Off <=> watched = Off)
BY Numbers DEF Interrupted, Stalled, Off

LEMMA Sent ==
    ASSUME NEW c \in Chain, Transferred(c)
    PROVE  /\ transfer.fate = "unpaid" /\ transfer'.age = 0 /\ transfer'.chain = c
           /\ \/ transfer'.fate = "open" /\ invoice[c] > 0
              \/ transfer'.fate = "lost"
BY DEF Transferred, NoTransfer

\* Nothing but a step of a worker credits a transfer, and then it is not open.
LEMMA Credits ==
    ASSUME Inv, NEW w \in Worker, Handle(w)
    PROVE  \/ UNCHANGED <<session, invoice, transfer>>
           \/ transfer'.fate = "credited" /\ session'.status = "paid"
<1>1. CASE Record(w)
  BY <1>1 DEF Record, Inv, WatchOK, Transfers
<1>2. CASE ~Record(w)
  BY <1>2 DEF Handle, IsPaid, List, Verified
<1>3. QED
  BY <1>1, <1>2

LEMMA StepSession == Inv /\ SessionPlaced /\ [Next]_vars => SessionPlaced'
<1> SUFFICES ASSUME Inv, SessionPlaced, [Next]_vars PROVE SessionPlaced'
  OBVIOUS
<1> USE DEF SessionPlaced
<1>1. ASSUME UNCHANGED <<session, since, invoice, transfer>> PROVE SessionPlaced'
  BY <1>1
<1>2. ASSUME NEW c \in Chain, Load(c), transfer' = transfer PROVE SessionPlaced'
  BY <1>2, LoadLeaves
<1>3. ASSUME NEW c \in Chain, Transferred(c), UNCHANGED <<session, since, invoice>>
      PROVE  SessionPlaced'
  BY <1>3, Sent
<1>4. CASE Grace
  <2>1. /\ session' = [status |-> "grace", left |-> GraceDuration] /\ since' = 0
        /\ UNCHANGED <<invoice, transfer>>
    BY <1>4 DEF Grace
  <2>2. QED
    BY <2>1, Settings
<1>5. CASE Leave
  BY <1>2, <1>5 DEF Leave, Inv, FlightOK, Leavings
<1>6. CASE PollStatus
  BY <1>1, <1>2, <1>6, Settings DEF PollStatus, portal
<1>7. ASSUME NEW w \in Worker, Handle(w) PROVE SessionPlaced'
  BY <1>7, Credits, Handled
<1>8. CASE Exhaust \/ Expire
  <2>1. /\ UNCHANGED <<since, invoice, transfer>>
        /\ \/ session' = [session EXCEPT !.left = 0] /\ session.left > 0
           \/ session'.status = "expired"
    BY <1>8 DEF Exhaust, Expire, Active
  <2>2. \/ session'.status = session.status /\ session'.left = 0 /\ session.left > 0
        \/ session'.status = "expired"
    BY <2>1 DEF Inv, SessionOK, Sessions
  <2>3. session.status = "grace" /\ session'.status = "grace" =>
            since + session'.left <= GraceDuration
    BY <2>2, Numbers, Settings
  <2>4. QED
    BY <2>1, <2>2, <2>3
<1>9. CASE Tick
  <2>1. /\ session'.status = session.status
        /\ session.status = "grace" => session'.left = session.left - 1
        /\ since' <= since + 1 /\ since' \in Nat
    BY <1>9, Numbers DEF Tick, Inv, SessionOK, Sessions
  <2>2. transfer.fate # "open" => transfer' = transfer
    BY <1>9 DEF Tick
  <2>3. transfer'.fate = "open" =>
            transfer.fate = "open" /\ transfer'.chain = transfer.chain
            /\ invoice'[transfer.chain] # 0
    BY <1>9 DEF Tick, Inv, WatchOK, Transfers
  <2>4. \A c \in Chain : invoice[c] > 0 => invoice'[c] >= 0 /\ invoice'[c] \in Int
    BY <1>9 DEF Tick, Down, Inv, SessionOK, Off
  <2>5. QED
    BY <2>1, <2>2, <2>3, <2>4, Numbers, Settings
<1>10. QED
  BY <1>1, <1>2, <1>3, <1>4, <1>5, <1>6, <1>7, <1>8, <1>9
     DEF Next, Pay, PayWithWallet, Hide, Show, Click, Visit, Poll, NotPaid, CheckFailed, Paid,
         StatusFails, Accept, Fail, ExplorerFails, LoseAnswer, portal, vars, Inv, PageOK

LEMMA StepWatch == Inv /\ WatchPlaced /\ [Next]_vars => WatchPlaced'
<1> SUFFICES ASSUME Inv, WatchPlaced, [Next]_vars PROVE WatchPlaced'
  OBVIOUS
<1> USE Numbers, Settings DEF WatchPlaced
<1>0. watched' \in Int /\ blind' \in Nat /\ blind' <= Ttl
  BY StepInv DEF Inv, WatchOK, Off
<1>1. ASSUME watched' <= 0, blind' = blind PROVE WatchPlaced'
  <2>1. watched' + blind' <= Ttl
    <3>1. \A w \in Int, b \in Nat : w <= 0 /\ b <= Ttl => w + b <= Ttl
      BY Settings
    <3>2. QED
      BY <1>0, <1>1, <3>1
  <2>2. QED
    BY <1>1, <2>1
<1>2. ASSUME watched' = watched, blind' = blind, UNCHANGED <<visible, transfer>>,
             page'.chain = page.chain
      PROVE  WatchPlaced'
  BY <1>2 DEF Watching
<1>3. ASSUME NEW c \in Chain, Transferred(c), watched' = watched \/ watched' = Resumed,
             blind' = blind
      PROVE  WatchPlaced'
  <2>1. transfer.fate = "unpaid"
    BY <1>3, Sent
  <2>2. watched <= 0
    BY <2>1 DEF Watching
  <2>3. QED
    BY <1>1, <1>3, <2>2 DEF Resumed
<1>4. ASSUME NEW c \in Chain, Load(c), watched' = Resumed, transfer' = transfer
      PROVE  WatchPlaced'
  <2>1. UNCHANGED <<visible, blind>>
    BY <1>4, LoadLeaves
  <2>2. QED
    BY <1>1, <1>2, <1>4, <2>1 DEF Resumed
<1>5. ASSUME watched' = Interrupted PROVE watched' <= 0
  BY <1>5, Stops
<1>6. CASE Grace
  BY <1>1, <1>2, <1>5, <1>6 DEF Grace
<1>7. CASE Leave
  BY <1>4, <1>7 DEF Leave, Inv, FlightOK, Leavings
<1>8. CASE PollStatus
  BY <1>2, <1>4, <1>8 DEF PollStatus, portal
<1>9. CASE Poll
  BY <1>1, <1>2, <1>9 DEF Poll, portal, Off
<1>10. ASSUME NEW w \in Worker, Handle(w) PROVE WatchPlaced'
  <2>1. UNCHANGED <<page, visible, blind, watched>>
    BY <1>10 DEF Handle
  <2>2. transfer' = transfer \/ transfer'.fate = "credited"
    BY <1>10, Credits
  <2>3. QED
    BY <2>1, <2>2 DEF Watching
<1>11. ASSUME NEW w \in Worker, ExplorerFails(w) PROVE WatchPlaced'
  <2>1. watched' <= 0 /\ blind' = Ttl
    BY <1>5, <1>11 DEF ExplorerFails
  <2>2. watched' + blind' <= Ttl
    <3>1. \A k \in Int : k <= 0 => k + Ttl <= Ttl
      BY Settings
    <3>2. QED
      BY <1>0, <2>1, <3>1
  <2>3. QED
    BY <2>1, <2>2
<1>12. CASE Tick
  <2>1. /\ UNCHANGED <<page, visible>> /\ blind' = Down(blind)
        /\ watched' = IF Stalled THEN Off ELSE IF Watching THEN Older(watched) ELSE 0
    BY <1>12 DEF Tick
  <2>2. watched' <= watched + 1 \/ watched' = 0
    BY <2>1 DEF Older, Off, Stalled
  <2>3. blind' > 0 => watched' + blind' <= Ttl
    <3>1. blind' = IF blind > 0 THEN blind - 1 ELSE blind
      BY <2>1 DEF Down
    <3>2. watched' \in Int /\ blind' \in Nat /\ blind' <= Ttl
      BY <1>0
    <3>3. QED
      BY <2>2, <3>1, <3>2
  <2>4. ~Watching => watched' <= 0
    BY <2>1 DEF Off
  <2>5. transfer'.fate \in {"unpaid", "open"} =>
            transfer'.fate = transfer.fate /\ transfer'.chain = transfer.chain
    BY <1>12 DEF Tick, Inv, WatchOK, Transfers
  <2>6. QED
    BY <2>1, <2>3, <2>4, <2>5 DEF Watching
<1>13. CASE \E c \in Chain : Pay(c)
  BY <1>3, <1>13 DEF Pay, portal
<1>14. CASE PayWithWallet
  BY <1>3, <1>14 DEF PayWithWallet, portal, Inv, PageOK
<1>15. CASE Hide \/ Show \/ \E c \in Chain : Visit(c)
  BY <1>1, <1>5, <1>15, LoadLeaves DEF Hide, Show, Visit, portal
<1>16. CASE CheckFailed \/ StatusFails \/ LoseAnswer \/ \E w \in Worker : Fail(w)
  BY <1>1, <1>5, <1>16 DEF CheckFailed, StatusFails, LoseAnswer, Fail, portal
<1>17. CASE Click \/ NotPaid \/ Paid \/ Exhaust \/ Expire \/ UNCHANGED vars
            \/ \E w \in Worker : Accept(w)
  BY <1>2, <1>17 DEF Click, NotPaid, Paid, Exhaust, Expire, Accept, portal, browser, vars
<1>18. QED
  BY <1>6, <1>7, <1>8, <1>9, <1>10, <1>11, <1>12, <1>13, <1>14, <1>15, <1>16, <1>17 DEF Next

LEMMA StepPage == Inv /\ PagePlaced /\ [Next]_vars => PagePlaced'
<1> SUFFICES ASSUME Inv, PagePlaced, [Next]_vars PROVE PagePlaced'
  OBVIOUS
<1> USE Numbers, Settings DEF PagePlaced
<1>0. /\ \A w \in Worker : work[w].awaited => flight # NoFlight /\ flight.got = "nothing"
      /\ NoFlight.kind = "none" /\ NoFlight.got = "nothing"
      /\ 0 # Off /\ PollInterval # Off /\ StatusInterval # Off
      /\ 0 \in 0..StatusInterval /\ StatusInterval \in 0..StatusInterval
  BY DEF Inv, WorkOK, Asked, NoFlight, Off
<1>1. ASSUME UNCHANGED <<page, timer, leaving, work>>, flight'.kind = flight.kind,
             flight = NoFlight => flight' = NoFlight,
             \/ visible' = visible /\ watched' = watched
             \/ watched' = Interrupted /\ visible' = visible
      PROVE  PagePlaced'
  BY <1>1, Stops DEF Stalled
<1>2. ASSUME NEW c \in Chain, Load(c) PROVE PagePlaced'
  <2>1. flight' = NoFlight /\ leaving' = Staying /\ \A w \in Worker : ~work'[w].awaited
    BY <1>2, LoadLeaves
  <2>2. \/ page'.at = "success" /\ timer' = 0
        \/ page'.at = "payment" /\ (visible' => timer' = PollInterval)
    BY <1>2, LoadLeaves DEF Armed
  <2>3. QED
    BY <1>0, <2>1, <2>2
<1>3. CASE PayWithWallet
  <2>1. /\ UNCHANGED <<page, visible, flight, leaving, work>> /\ timer' = Armed(PollInterval)
        /\ page.at = "payment"
    BY <1>3 DEF PayWithWallet, portal
  <2>2. visible => timer' # Off
    BY <1>0, <2>1 DEF Armed
  <2>3. QED
    BY <2>1, <2>2
<1>4. CASE Grace
  <2>1. UNCHANGED <<page, visible, timer, flight, work>> /\ page.at = "payment"
    BY <1>4 DEF Grace
  <2>2. CASE LeaveFor(page.chain) /\ watched' = watched
    <3>1. (leaving' = leaving /\ leaving # Staying) \/ leaving'.left = RedirectDelay
      BY <2>2 DEF LeaveFor
    <3>2. RedirectDelay # Off
      BY DEF Off
    <3>3. (leaving' = leaving /\ leaving # Staying) \/ (leaving'.left # Off /\ leaving' # Staying)
      BY <3>1, <3>2 DEF Staying
    <3>4. QED
      BY <2>1, <2>2, <3>3
  <2>3. CASE watched' = Interrupted /\ leaving' = leaving
    BY <1>1, <2>1, <2>3
  <2>4. QED
    BY <1>4, <2>2, <2>3 DEF Grace
<1>5. CASE Hide
  BY <1>5 DEF Hide, portal
<1>6. CASE Show
  BY <1>0, <1>6 DEF Show, portal
<1>7. CASE Click
  BY <1>7 DEF Click, portal, Stalled, NoFlight
<1>8. CASE Poll
  <2>1. UNCHANGED <<page, visible, leaving, work>> /\ page.at = "payment"
    BY <1>8 DEF Poll, portal
  <2>2. CASE flight.kind = "manual"
    <3>1. watched' = Off
      BY <1>8, <2>2 DEF Poll
    <3>2. QED
      BY <2>1, <3>1 DEF Stalled
  <2>3. CASE flight.kind # "manual"
    <3>1. flight'.kind = "auto"
      BY <1>0, <1>8, <2>3 DEF Poll, Inv, FlightOK, Flights
    <3>2. QED
      BY <2>1, <3>1
  <2>4. QED
    BY <2>2, <2>3
<1>9. CASE NotPaid
  <2>1. UNCHANGED <<page, visible, leaving, work, watched>> /\ flight # NoFlight
        /\ flight' = NoFlight
    BY <1>0, <1>9 DEF NotPaid, portal
  <2>2. visible /\ flight.kind = "auto" => timer' # Off
    BY <1>0, <1>9 DEF NotPaid, Armed
  <2>3. flight.kind # "auto" => timer' = timer
    BY <1>9 DEF NotPaid
  <2>4. page.at = "payment"
    BY <2>1
  <2>5. QED
    BY <2>1, <2>2, <2>3, <2>4 DEF Stalled
<1>10. CASE CheckFailed
  <2>1. /\ UNCHANGED <<page, visible, leaving>> /\ flight # NoFlight /\ flight' = NoFlight
        /\ watched' = Interrupted /\ \A w \in Worker : ~work'[w].awaited
    BY <1>10, Abandoned DEF CheckFailed, Inv
  <2>2. visible /\ flight.kind = "auto" => timer' # Off
    <3>1. Double(delay) # Off
      BY Delays DEF Inv, TimerOK, Off
    <3>2. QED
      BY <1>10, <3>1 DEF CheckFailed, Armed
  <2>3. flight.kind # "auto" => timer' = timer
    BY <1>10 DEF CheckFailed
  <2>4. page.at = "payment" /\ (Stalled' <=> Stalled)
    BY <2>1, Stops DEF Stalled
  <2>5. QED
    BY <2>1, <2>2, <2>3, <2>4
<1>11. CASE Paid
  <2>1. /\ UNCHANGED <<page, work>> /\ flight # NoFlight /\ LeaveFor(DefaultChain)
    BY <1>0, <1>11 DEF Paid, portal
  <2>2. (leaving' = leaving /\ leaving # Staying) \/ leaving'.left = RedirectDelay
    BY <2>1 DEF LeaveFor
  <2>3. (leaving' = leaving /\ leaving # Staying) \/ (leaving'.left # Off /\ leaving' # Staying)
    BY <2>2 DEF Staying, Off
  <2>4. page.at = "payment"
    BY <2>1
  <2>5. QED
    BY <2>1, <2>3, <2>4
<1>12. CASE Leave \/ \E c \in Chain : Visit(c)
  BY <1>2, <1>12 DEF Leave, Visit, Inv, FlightOK, Leavings
<1>13. CASE PollStatus
  BY <1>0, <1>2, <1>13 DEF PollStatus, portal
<1>14. CASE StatusFails
  BY <1>0, <1>14 DEF StatusFails, portal
<1>15. ASSUME NEW w \in Worker, Accept(w) PROVE PagePlaced'
  <2>1. UNCHANGED <<page, visible, timer, flight, leaving, watched>>
    BY <1>15 DEF Accept, browser
  <2>2. work' = [work EXCEPT ![w] = [pc |-> "isPaid", chain |-> page.chain,
                                     had |-> "unpaid", awaited |-> TRUE]]
    BY <1>15 DEF Accept
  <2>3. \A v \in Worker : work'[v].awaited => work'[v].chain = page.chain
    BY <2>2 DEF Inv, WorkOK
  <2>4. QED
    BY <2>1, <2>3 DEF Stalled
<1>16. ASSUME NEW w \in Worker, NEW what, Reply(w, what),
              UNCHANGED <<page, visible, timer, leaving>>,
              watched' = watched \/ watched' = Interrupted
       PROVE  PagePlaced'
  <2>1. \A v \in Worker : work'[v].awaited => work[v].awaited /\ work'[v].chain = work[v].chain
    BY <1>16 DEF Reply, Free, Inv, WorkOK
  <2>2. flight'.kind = flight.kind /\ (flight = NoFlight => flight' = NoFlight)
    BY <1>0, <1>16 DEF Reply, Inv, FlightOK, Flights
  <2>3. Stalled' <=> Stalled
    BY <1>16, Stops DEF Stalled
  <2>4. QED
    BY <1>16, <2>1, <2>2, <2>3
<1>17. ASSUME NEW w \in Worker, Handle(w) PROVE PagePlaced'
  <2>1. work[w] # Free /\ UNCHANGED <<page, visible, timer, leaving, watched>>
    BY <1>17, Handled
  <2>2. CASE \E what : Reply(w, what)
    BY <1>16, <2>1, <2>2
  <2>3. ASSUME flight' = flight,
               \A v \in Worker : /\ work'[v].awaited = work[v].awaited
                              /\ work'[v].chain = work[v].chain
        PROVE  PagePlaced'
    BY <2>1, <2>3 DEF Stalled
  <2>4. CASE Goes(w, "list") \/ Goes(w, "record")
    BY <2>1, <2>3, <2>4, GoesAlong
  <2>5. CASE /\ work' = [work EXCEPT ![w].pc = "verify", ![w].had = Received(work[w].chain)]
             /\ flight' = flight
    <3>1. Received(work[w].chain) \in {"unpaid", "paid", "settled"}
      BY DEF Received
    <3>2. QED
      BY <2>1, <2>3, <2>5, <3>1, GoesOn
  <2>6. QED
    BY <1>17, <2>2, <2>4, <2>5 DEF Handle, IsPaid, List, Verified, Record
<1>18. ASSUME NEW w \in Worker, Fail(w) \/ ExplorerFails(w) PROVE PagePlaced'
  BY <1>16, <1>18 DEF Fail, ExplorerFails
<1>19. CASE LoseAnswer
  <2>1. flight'.kind = flight.kind /\ flight # NoFlight
    BY <1>0, <1>19 DEF LoseAnswer, Inv, FlightOK, Flights
  <2>2. QED
    BY <1>1, <1>19, <2>1 DEF LoseAnswer, portal
<1>20. CASE Tick
  <2>1. UNCHANGED <<page, visible, work>> /\ ~Due
    BY <1>20 DEF Tick
  <2>2. /\ timer' = Off <=> timer = Off
        /\ timer \in 0..StatusInterval => timer' \in 0..StatusInterval
    BY <1>20 DEF Tick, Down, Off
  <2>3. flight'.kind = flight.kind /\ (flight = NoFlight => flight' = NoFlight)
    BY <1>20 DEF Tick, Inv, FlightOK, Flights, NoFlight
  <2>4. /\ leaving'.left = Off => leaving' = Staying
        /\ leaving = Staying <=> leaving' = Staying
    <3>1. leaving' = [leaving EXCEPT !.left = Down(@)] /\ leaving \in Leavings
      BY <1>20 DEF Tick, Inv, FlightOK
    <3>2. leaving'.left = Off <=> leaving.left = Off
      BY <3>1 DEF Leavings, Down, Off
    <3>3. leaving.left = Off => leaving' = leaving
      BY <3>1 DEF Leavings, Down, Off
    <3>4. QED
      BY <3>2, <3>3 DEF Staying
  <2>5. Stalled' <=> Stalled
    BY <1>20 DEF Tick, Stalled, Older, Off
  <2>6. QED
    BY <2>1, <2>2, <2>3, <2>4, <2>5
<1>21. CASE Exhaust \/ Expire \/ UNCHANGED vars \/ \E c \in Chain : Pay(c)
  BY <1>1, <1>21 DEF Exhaust, Expire, Pay, browser, portal, vars
<1>22. QED
  BY <1>3, <1>4, <1>5, <1>6, <1>7, <1>8, <1>9, <1>10, <1>11, <1>12, <1>13, <1>14, <1>15,
     <1>17, <1>18, <1>19, <1>20, <1>21 DEF Next

-----------------------------------------------------------------------------
\* The first check of a page that has just been loaded.
Return == PollInterval + FetchTimeout

\* How long the success page stays if a grace has begun.
Lasting ==
    IF session.status = "grace" THEN session.left + Cycle + StatusInterval ELSE 0

\* From a redirect until the first check after the return.
Away(left) == left + Lasting + Return

\* The check that is awaited began too early, and may tell nothing.
Unsure ==
    \E w \in Worker : work[w].awaited /\ work[w].pc = "verify" /\ work[w].had # "settled"

NextCheck ==
    IF flight.kind # "auto" THEN timer + FetchTimeout
    ELSE IF flight.got = "unpaid" THEN Return
    ELSE IF flight.got = "error" THEN PollMax + FetchTimeout
    ELSE FetchTimeout - flight.age + (IF Unsure THEN Return ELSE 0)

\* Within this time a check tells of a transfer that has settled, unless a grace
\* begins.
Wait ==
    IF page.at = "success"
    THEN (IF session.status = "grace" THEN Lasting ELSE timer) + Return
    ELSE IF leaving # Staying THEN Away(leaving.left)
    ELSE IF flight.got = "paid" THEN Away(RedirectDelay)
    ELSE NextCheck + (IF Active THEN Away(RedirectDelay) ELSE 0)

\* A grace that may begin within that time needs time as well.
Need == Wait + (IF since + Wait < GraceCooldown THEN 0 ELSE DetourTime)

Timely ==
    Watching /\ ~Stalled => watched + Need <= Margin \/ transfer.age + Need <= Margin

\* The assumption about the settings: while a transfer is waited for there is one
\* grace at most (by default an hour against about 7 minutes; config.py:30-31 does
\* not enforce it).
CooldownLong == GraceCooldown > Margin

Safe == Inv /\ Placed /\ Timely

\* There is room for what a page that watches needs, if the count starts now.
LEMMA Room ==
    CooldownLong /\ Inv /\ Placed /\ Watching /\ ~Stalled =>
        Wait \in Nat /\ Need \in Nat /\ Need <= CheckTime + DetourTime
<1> SUFFICES ASSUME CooldownLong, Inv, Placed, Watching, ~Stalled
             PROVE  Wait \in Nat /\ Need \in Nat /\ Need <= CheckTime + DetourTime
  OBVIOUS
<1> USE Settings, Times, Numbers
<1>1. /\ visible /\ session.status # "paid"
      /\ Active => session.status = "grace"
      /\ session.status = "grace" => since + session.left <= GraceDuration
  BY DEF Watching, Placed, SessionPlaced, Active
<1>2. /\ Return \in Nat /\ CheckTime >= Return + FetchTimeout
      /\ CheckTime >= StatusInterval + Return /\ CheckTime >= RedirectDelay + Return
      /\ DetourTime = RedirectDelay + GraceDuration + Cycle + StatusInterval + Return
  BY DEF Return
<1>3. /\ Lasting \in Nat
      /\ session.status # "grace" => Lasting = 0
      /\ session.status = "grace" => Lasting <= GraceDuration - since + Cycle + StatusInterval
  BY <1>1 DEF Lasting
<1>4. page.at = "payment" /\ leaving = Staying => NextCheck \in Nat /\ NextCheck <= CheckTime
  <2> SUFFICES ASSUME page.at = "payment", leaving = Staying
               PROVE  NextCheck \in Nat /\ NextCheck <= CheckTime
    OBVIOUS
  <2>1. flight.kind # "auto" => timer >= 0
    BY <1>1 DEF Placed, PagePlaced, Off
  <2>2. timer + FetchTimeout <= CheckTime
    <3>1. timer <= PollMax \/ timer <= StatusInterval
      BY DEF Inv, TimerOK, Off
    <3>2. QED
      BY <1>2, <3>1 DEF Return
  <2>3. QED
    BY <1>2, <2>1, <2>2 DEF NextCheck
<1>5. page.at = "success" => timer \in 0..StatusInterval
  BY DEF Placed, PagePlaced
<1>6. page.at = "payment" /\ leaving # Staying => leaving.left \in Nat
  BY DEF Placed, PagePlaced, Off
<1>7. CASE session.status = "grace"
  <2>1. Wait \in Nat /\ since + Wait <= CheckTime + DetourTime
    <3>1. CASE page.at = "success"
      BY <1>2, <1>3, <1>7, <3>1 DEF Wait
    <3>2. CASE page.at = "payment" /\ leaving # Staying
      BY <1>2, <1>3, <1>6, <1>7, <3>2 DEF Wait, Away
    <3>3. CASE page.at = "payment" /\ leaving = Staying
      <4>1. Away(RedirectDelay) \in Nat /\ since + Away(RedirectDelay) <= DetourTime
        BY <1>2, <1>3, <1>7 DEF Away
      <4>2. since + (NextCheck + Away(RedirectDelay)) <= CheckTime + DetourTime
        BY <1>4, <3>3, <4>1
      <4>3. since + NextCheck <= CheckTime + DetourTime
        BY <1>4, <3>3, <4>1
      <4>4. Wait \in {Away(RedirectDelay), NextCheck + Away(RedirectDelay), NextCheck + 0}
        BY <3>3 DEF Wait
      <4>5. QED
        BY <1>4, <3>3, <4>1, <4>2, <4>3, <4>4
    <3>4. QED
      BY <3>1, <3>2, <3>3
  <2>2. since + Wait < GraceCooldown
    BY <2>1 DEF CooldownLong
  <2>3. QED
    BY <2>1, <2>2 DEF Need
<1>8. CASE session.status # "grace"
  <2>1. Wait \in Nat /\ Wait <= CheckTime
    <3>1. CASE page.at = "success"
      BY <1>2, <1>5, <1>8, <3>1 DEF Wait
    <3>2. CASE page.at = "payment" /\ leaving # Staying
      BY <1>2, <1>3, <1>6, <1>8, <3>2 DEF Wait, Away
    <3>3. CASE page.at = "payment" /\ leaving = Staying
      <4>1. Away(RedirectDelay) \in Nat /\ Away(RedirectDelay) <= CheckTime
        BY <1>2, <1>3, <1>8 DEF Away
      <4>2. Wait \in {Away(RedirectDelay), NextCheck + 0}
        BY <1>1, <1>8, <3>3 DEF Wait
      <4>3. QED
        BY <1>4, <3>3, <4>1, <4>2
    <3>4. QED
      BY <3>1, <3>2, <3>3
  <2>2. QED
    BY <2>1 DEF Need
<1>9. QED
  BY <1>7, <1>8

LEMMA RoomNext ==
    (CooldownLong /\ Inv /\ Placed /\ Watching /\ ~Stalled =>
        Wait \in Nat /\ Need \in Nat /\ Need <= CheckTime + DetourTime)'
BY Room, PTL

-----------------------------------------------------------------------------
(***************************************************************************)
(* No step takes from a page that watches the time it needs.               *)
(***************************************************************************)
\* How the wait depends on the page, the check and the session.
LEMMA SameWait ==
    ASSUME UNCHANGED <<page, timer, leaving, flight, session>>, Unsure' => Unsure,
           Inv, Wait \in Nat
    PROVE  Wait' <= Wait
<1> USE Settings, Numbers
<1>1. Return \in Nat /\ Return' = Return
  BY DEF Return
<1>2. Lasting' = Lasting /\ \A l : Away(l)' = Away(l)
  BY <1>1 DEF Lasting, Away
<1>3. NextCheck \in Int /\ NextCheck' \in Int /\ NextCheck' <= NextCheck
  BY <1>1 DEF NextCheck
<1>4. Active' <=> Active
  BY DEF Active
<1>5. CASE page.at = "payment" /\ leaving = Staying /\ flight.got # "paid"
  <2>1. Away(RedirectDelay) \in Int /\ Away(RedirectDelay)' = Away(RedirectDelay)
    BY <1>1, <1>2 DEF Away, Lasting
  <2>2. Wait = NextCheck + (IF Active THEN Away(RedirectDelay) ELSE 0)
    BY <1>5 DEF Wait
  <2>3. Wait' = NextCheck' + (IF Active THEN Away(RedirectDelay) ELSE 0)
    BY <1>4, <1>5, <2>1 DEF Wait
  <2>4. \A m, n, a \in Int : m <= n => m + a <= n + a /\ m + 0 <= n + 0
    OBVIOUS
  <2>5. NextCheck' + Away(RedirectDelay) <= NextCheck + Away(RedirectDelay)
    BY <1>3, <2>1, <2>4
  <2>6. NextCheck' + 0 <= NextCheck + 0
    BY <1>3, <2>4
  <2>7. QED
    BY <2>2, <2>3, <2>5, <2>6
<1>6. CASE ~(page.at = "payment" /\ leaving = Staying /\ flight.got # "paid")
  <2>1. Wait' = Wait
    BY <1>1, <1>2, <1>6 DEF Wait, Away
  <2>2. QED
    BY <2>1
<1>7. QED
  BY <1>5, <1>6

\* A page that has been loaded has its first check ahead of it, and a grace if one
\* runs.
LEMMA LoadedWait ==
    ASSUME Inv, Placed, NEW c \in Chain, Load(c), visible
    PROVE  Wait' <= Lasting + Return
<1> USE Settings, Numbers
<1>1. Return \in Nat /\ Return' = Return /\ Lasting \in Int /\ Lasting >= 0
  BY DEF Return, Lasting
<1>2. CASE Active
  <2>1. page'.at = "success" /\ timer' = 0 /\ session' = session
    BY <1>2, LoadLeaves
  <2>2. Wait' = (IF session.status = "grace" THEN Lasting ELSE 0) + Return
    BY <1>1, <2>1 DEF Wait, Lasting
  <2>3. QED
    BY <1>1, <2>2
<1>3. CASE ~Active
  <2>1. /\ page'.at = "payment" /\ flight' = NoFlight /\ leaving' = Staying
        /\ visible' = visible /\ timer' = Armed(PollInterval)
        /\ session'.status = "expired" \/ session' = session
    BY <1>3, LoadLeaves
  <2>2. timer' = PollInterval
    BY <2>1 DEF Armed
  <2>3. ~Active'
    BY <1>3, <2>1 DEF Active
  <2>4. NextCheck' = Return
    BY <2>1, <2>2 DEF NextCheck, NoFlight, Return
  <2>5. Wait' = Return
    BY <1>1, <2>1, <2>3, <2>4 DEF Wait, NoFlight
  <2>6. QED
    BY <1>1, <2>5
<1>4. QED
  BY <1>2, <1>3

\* What a grace takes has been set aside.
LEMMA GraceNeed ==
    ASSUME CooldownLong, Inv, Placed, Watching, ~Stalled, Grace, LeaveFor(page.chain)
    PROVE  Need' <= Need
<1> USE Settings, Numbers, Times
<1>1. Need = Wait + DetourTime /\ Wait \in Nat
  BY Room DEF Grace, Need
<1>2. /\ page' = page /\ page.at = "payment" /\ since' = 0
      /\ session' = [status |-> "grace", left |-> GraceDuration]
  BY DEF Grace
<1>3. leaving' # Staying /\ leaving'.left \in 0..RedirectDelay
  <2>1. (leaving' = leaving /\ leaving # Staying) \/ leaving'.left = RedirectDelay
    BY DEF LeaveFor
  <2>2. leaving # Staying => leaving.left >= 0
    BY DEF Placed, PagePlaced, Off
  <2>3. RedirectDelay # Off /\ Staying.left = Off
    BY DEF Off, Staying
  <2>4. QED
    BY <2>1, <2>2, <2>3
<1>4. Wait' = leaving'.left + (GraceDuration + Cycle + StatusInterval)
              + (PollInterval + FetchTimeout)
  BY <1>2, <1>3 DEF Wait, Away, Lasting, Return
<1>5. Wait' \in Nat /\ Wait' <= DetourTime
  BY <1>3, <1>4
<1>6. Need' = Wait'
  <2>1. \A w \in Nat : w <= DetourTime => 0 + w < GraceCooldown /\ w + 0 = w
    BY DEF CooldownLong
  <2>2. Need' = Wait' + (IF 0 + Wait' < GraceCooldown THEN 0 ELSE DetourTime)
    BY <1>2 DEF Need, DetourTime
  <2>3. QED
    BY <1>5, <2>1, <2>2
<1>7. QED
  BY <1>1, <1>5, <1>6

\* Numbers that one page's wait is built from.
LEMMA WaitNumbers ==
    ASSUME Inv, Placed, Watching, ~Stalled
    PROVE  /\ Return \in Nat /\ Lasting \in Nat
           /\ Away(RedirectDelay) \in Nat
           /\ Return' = Return
           /\ session' = session =>
                  Lasting' = Lasting /\ \A l : Away(l)' = Away(l)
           /\ page.at = "payment" /\ leaving = Staying => NextCheck \in Nat
<1> USE Settings, Numbers
<1>1. Return \in Nat /\ Return' = Return
  BY DEF Return
<1>2. Lasting \in Nat
  BY DEF Lasting
<1>3. session' = session => Lasting' = Lasting
  BY DEF Lasting
<1>4. page.at = "payment" /\ leaving = Staying => NextCheck \in Nat
  <2>1. page.at = "payment" /\ leaving = Staying /\ flight.kind # "auto" => timer >= 0
    BY DEF Watching, Placed, PagePlaced, Off
  <2>2. QED
    BY <1>1, <2>1 DEF NextCheck
<1>5. Away(RedirectDelay) \in Nat
  BY <1>1, <1>2 DEF Away
<1>6. QED
  BY <1>1, <1>2, <1>3, <1>4, <1>5 DEF Away

\* The answer to the page's own check, paid or not yet, comes when it was due.
LEMMA AnswerWait ==
    ASSUME Inv, Placed, Watching, ~Stalled, CooldownLong,
           NEW what \in {"paid", "unpaid"}, flight' = [flight EXCEPT !.got = what],
           UNCHANGED <<page, timer, leaving, session>>,
           page.at = "payment", flight # NoFlight, flight.got = "nothing",
           what = "paid" => Active, what = "unpaid" => Unsure
    PROVE  Wait' <= Wait
<1> USE Settings, Numbers
<1>1. /\ flight'.kind = flight.kind /\ flight'.got = what
  BY DEF Inv, FlightOK, Flights, NoFlight
<1>2. Active' <=> Active
  BY DEF Active
<1>3. CASE leaving # Staying
  <2>1. Wait' = Wait
    BY <1>3, WaitNumbers DEF Wait
  <2>2. QED
    BY <2>1, Room
<1>4. CASE leaving = Staying /\ what = "paid"
  <2>1. Wait = NextCheck + Away(RedirectDelay)
    BY <1>4 DEF Wait
  <2>2. Wait' = Away(RedirectDelay)
    BY <1>1, <1>4, WaitNumbers DEF Wait
  <2>3. QED
    BY <1>4, <2>1, <2>2, WaitNumbers
<1>5. CASE leaving = Staying /\ what = "unpaid"
  <2>1. NextCheck' <= NextCheck /\ NextCheck' \in Int
    <3>1. CASE flight.kind = "auto"
      <4>1. NextCheck = FetchTimeout - flight.age + Return
        BY <1>5, <3>1 DEF NextCheck
      <4>2. NextCheck' = Return
        BY <1>1, <1>5, <3>1, WaitNumbers DEF NextCheck
      <4>3. QED
        BY <4>1, <4>2, WaitNumbers
    <3>2. CASE flight.kind # "auto"
      BY <1>1, <3>2 DEF NextCheck
    <3>3. QED
      BY <3>1, <3>2
  <2>2. Wait = NextCheck + (IF Active THEN Away(RedirectDelay) ELSE 0)
    BY <1>5 DEF Wait
  <2>3. Wait' = NextCheck' + (IF Active THEN Away(RedirectDelay) ELSE 0)
    BY <1>1, <1>2, <1>5, WaitNumbers DEF Wait
  <2>4. \A m, n, a \in Int : m <= n => m + a <= n + a /\ m + 0 <= n + 0
    OBVIOUS
  <2>5. QED
    BY <1>5, <2>1, <2>2, <2>3, <2>4, WaitNumbers
<1>6. QED
  BY <1>3, <1>4, <1>5

\* A step of a worker: a check that misses the transfer has begun too early.
LEMMA HandledWait ==
    ASSUME Inv, Placed, Watching, ~Stalled, CooldownLong,
           NEW w \in Worker, Handle(w), transfer'.fate # "credited"
    PROVE  \/ Wait' <= Wait
           \/ watched <= Confirming + Ttl \/ transfer.age <= Confirming + Ttl
<1> USE Settings, Numbers
<1>1. /\ UNCHANGED <<page, timer, leaving, session, invoice, transfer, since, watched>>
      /\ work[w] # Free /\ work[w] \in Requests /\ Wait \in Nat
  BY Handled, Credits, Room DEF Inv, WorkOK
<1>2. ~Record(w)
  BY DEF Record, Inv, WatchOK, Transfers, Watching
<1>3. /\ \A v \in Worker : v # w => work'[v] = work[v]
      /\ \A v \in Worker : work[v].awaited /\ work[w].awaited => v = w
  BY <1>2 DEF Inv, WorkOK, Handle, IsPaid, List, Verified, Reply, Goes
<1>4. \A v \in Worker : work'[v].awaited => work[v].awaited
  BY <1>1, <1>2 DEF Handle, IsPaid, List, Verified, Reply, Goes, Inv, WorkOK, Free, Requests
<1>5. ASSUME flight' = flight, Unsure' => Unsure PROVE Wait' <= Wait
  BY <1>1, <1>5, SameWait
<1>6. CASE ~work[w].awaited
  <2>1. flight' = flight
    BY <1>2, <1>6 DEF Handle, IsPaid, List, Verified, Reply, Goes
  <2>2. Unsure' => Unsure
    BY <1>3, <1>4, <1>6 DEF Unsure
  <2>3. QED
    BY <1>5, <2>1, <2>2
<1>7. CASE work[w].awaited
  <2>1. /\ flight # NoFlight /\ flight.got = "nothing" /\ page.at = "payment"
        /\ work[w].chain = transfer.chain /\ invoice[transfer.chain] > 0
        /\ transfer.fate = "open"
    BY <1>7 DEF Inv, WorkOK, Asked, Placed, PagePlaced, SessionPlaced, Watching
  <2>2. ASSUME NEW pc \in {"list", "record"}, Goes(w, pc) PROVE Wait' <= Wait
    <3>1. work'[w].pc = pc /\ flight' = flight
      BY <1>1, <2>2 DEF Goes, Inv, WorkOK, Requests
    <3>2. ~Unsure'
      BY <1>3, <1>4, <1>7, <3>1 DEF Unsure
    <3>3. QED
      BY <1>5, <3>1, <3>2
  <2>3. CASE IsPaid(w)
    <3>1. CASE Active /\ Reply(w, "paid")
      <4>1. flight' = [flight EXCEPT !.got = "paid"]
        BY <1>7, <3>1 DEF Reply
      <4>2. QED
        BY <1>1, <2>1, <3>1, <4>1, AnswerWait
    <3>2. QED
      BY <2>2, <2>3, <3>1 DEF IsPaid
  <2>4. CASE List(w)
    <3>1. /\ work' = [work EXCEPT ![w].pc = "verify", ![w].had = Received(work[w].chain)]
          /\ flight' = flight
      BY <2>1, <2>4 DEF List
    <3>2. CASE Received(work[w].chain) = "settled"
      <4>1. work'[w].had = "settled"
        BY <1>1, <3>1, <3>2 DEF Inv, WorkOK, Requests
      <4>2. ~Unsure'
        BY <1>3, <1>4, <1>7, <4>1 DEF Unsure
      <4>3. QED
        BY <1>5, <3>1, <4>2
    <3>3. CASE Received(work[w].chain) # "settled"
      <4>1. transfer.age < Confirming + Ttl \/ blind > 0
        BY <2>1, <3>3 DEF Received
      <4>2. blind > 0 => watched <= Ttl
        BY DEF Placed, WatchPlaced
      <4>3. QED
        BY <4>1, <4>2
    <3>4. QED
      BY <3>2, <3>3
  <2>5. CASE Verified(w)
    <3>1. CASE Reply(w, "unpaid") /\ work[w].had # "settled"
      <4>1. flight' = [flight EXCEPT !.got = "unpaid"]
        BY <1>7, <3>1 DEF Reply
      <4>2. Unsure
        BY <1>7, <2>5, <3>1 DEF Unsure, Verified
      <4>3. QED
        BY <1>1, <2>1, <4>1, <4>2, AnswerWait
    <3>2. QED
      BY <2>2, <2>5, <3>1 DEF Verified
  <2>6. QED
    BY <1>2, <2>3, <2>4, <2>5 DEF Handle
<1>8. QED
  BY <1>6, <1>7

\* Time takes from the wait what it takes from the rest.
LEMMA TickWait ==
    ASSUME Inv, Placed, Watching, ~Stalled, CooldownLong, Tick, Watching'
    PROVE  Wait' < Wait
<1> USE Settings, Numbers
<1>1. /\ UNCHANGED <<page, visible, work>> /\ ~Due /\ timer' = Down(timer)
      /\ session'.status = session.status
      /\ session.status = "grace" => session'.left = session.left - 1
      /\ session.status \notin {"grace", "paid"} => session' = session
  BY DEF Tick, Inv, SessionOK, Sessions, Over
<1>2. /\ timer # 0 /\ leaving.left # 0 /\ flight.got = "nothing"
      /\ flight.age # FetchTimeout /\ session.status # "paid"
  BY <1>1 DEF Due, Placed, SessionPlaced, Watching
<1>3. /\ flight'.kind = flight.kind /\ flight'.got = flight.got
      /\ flight.kind = "auto" => flight'.age = flight.age + 1
  BY DEF Tick, Inv, FlightOK, Flights, NoFlight
<1>4. /\ leaving = Staying => leaving' = Staying
      /\ leaving # Staying => leaving' # Staying /\ leaving'.left = leaving.left - 1
  <2>1. leaving' = [leaving EXCEPT !.left = Down(@)] /\ leaving \in Leavings
    BY DEF Tick, Inv, FlightOK
  <2>2. leaving = Staying => leaving' = Staying
    BY <2>1 DEF Staying, Down, Off, Leavings
  <2>3. leaving # Staying => leaving.left > 0
    BY <1>2 DEF Placed, PagePlaced, Off
  <2>4. leaving # Staying => leaving'.left = leaving.left - 1
    BY <2>1, <2>3 DEF Down, Leavings
  <2>5. leaving # Staying => leaving'.left # Off
    BY <2>3, <2>4 DEF Off
  <2>6. QED
    BY <2>2, <2>4, <2>5 DEF Staying
<1>5. /\ Return' = Return /\ Return \in Nat /\ Lasting \in Int /\ Lasting' \in Int
      /\ session.status = "grace" => Lasting' = Lasting - 1
      /\ session.status # "grace" => Lasting' = 0 /\ Lasting = 0
  BY <1>1 DEF Return, Lasting
<1>6. Active' => Active
  BY <1>1, <1>2 DEF Active
<1>7. timer > 0 => timer' = timer - 1
  BY <1>1 DEF Down
<1>8. CASE page.at = "success"
  <2>1. timer > 0
    BY <1>2, <1>8 DEF Placed, PagePlaced
  <2>2. Wait' = (IF session.status = "grace" THEN Lasting' ELSE timer') + Return
    BY <1>1, <1>5, <1>8 DEF Wait
  <2>3. Wait = (IF session.status = "grace" THEN Lasting ELSE timer) + Return
    BY <1>8 DEF Wait
  <2>4. \A l, k \in Int : l = k - 1 => l + Return < k + Return
    BY <1>5
  <2>5. timer' \in Int
    BY <1>7, <2>1
  <2>6. CASE session.status = "grace"
    BY <1>5, <2>2, <2>3, <2>4, <2>6
  <2>7. CASE session.status # "grace"
    BY <1>7, <2>1, <2>2, <2>3, <2>4, <2>5, <2>7
  <2>8. QED
    BY <2>6, <2>7
<1>9. CASE page.at = "payment" /\ leaving # Staying
  <2>1. Wait' = leaving'.left + Lasting' + Return
    BY <1>1, <1>4, <1>5, <1>9 DEF Wait, Away
  <2>2. Wait = leaving.left + Lasting + Return
    BY <1>9 DEF Wait, Away
  <2>3. QED
    BY <1>4, <1>5, <1>9, <2>1, <2>2
<1>10. CASE page.at = "payment" /\ leaving = Staying
  <2>1. NextCheck \in Int /\ NextCheck' \in Int /\ NextCheck' = NextCheck - 1
    <3>1. CASE flight.kind = "auto"
      <4>1. Unsure' <=> Unsure
        BY <1>1 DEF Unsure
      <4>2. NextCheck = FetchTimeout - flight.age + (IF Unsure THEN Return ELSE 0)
        BY <1>2, <3>1 DEF NextCheck
      <4>3. NextCheck' = FetchTimeout - flight'.age + (IF Unsure THEN Return ELSE 0)
        BY <1>2, <1>3, <1>5, <3>1, <4>1 DEF NextCheck
      <4>4. QED
        BY <1>3, <1>5, <3>1, <4>2, <4>3
    <3>2. CASE flight.kind # "auto"
      <4>1. timer > 0
        BY <1>2, <1>10, <3>2 DEF Watching, Placed, PagePlaced, Off
      <4>2. NextCheck = timer + FetchTimeout /\ NextCheck' = timer' + FetchTimeout
        BY <1>3, <3>2 DEF NextCheck
      <4>3. QED
        BY <1>7, <4>1, <4>2
    <3>3. QED
      BY <3>1, <3>2
  <2>2. Wait = NextCheck + (IF Active THEN RedirectDelay + Lasting + Return ELSE 0)
    BY <1>2, <1>10 DEF Wait, Away
  <2>3. Wait' = NextCheck' + (IF Active' THEN RedirectDelay + Lasting' + Return ELSE 0)
    BY <1>1, <1>2, <1>3, <1>4, <1>5, <1>10 DEF Wait, Away
  <2>4. Lasting' <= Lasting /\ Lasting >= 0
    <3>1. Lasting >= 0
      BY DEF Lasting
    <3>2. QED
      BY <1>5, <3>1
  <2>5. \A n, m, l, k \in Int :
            m = n - 1 /\ l <= k /\ k >= 0 =>
                /\ m + (RedirectDelay + l + Return) < n + (RedirectDelay + k + Return)
                /\ m + 0 < n + (RedirectDelay + k + Return)
                /\ m + 0 < n + 0
    BY <1>5
  <2>6. CASE Active'
    <3>1. Wait = NextCheck + (RedirectDelay + Lasting + Return)
      BY <1>6, <2>2, <2>6
    <3>2. Wait' = NextCheck' + (RedirectDelay + Lasting' + Return)
      BY <2>3, <2>6
    <3>3. NextCheck' + (RedirectDelay + Lasting' + Return)
              < NextCheck + (RedirectDelay + Lasting + Return)
      BY <1>5, <2>1, <2>4, <2>5
    <3>4. QED
      BY ONLY <3>1, <3>2, <3>3, Zenon
  <2>7. CASE ~Active' /\ Active
    BY <1>5, <2>1, <2>2, <2>3, <2>4, <2>5, <2>7
  <2>8. CASE ~Active' /\ ~Active
    BY <1>5, <2>1, <2>2, <2>3, <2>4, <2>5, <2>8
  <2>9. QED
    BY <2>6, <2>7, <2>8
<1>11. QED
  BY <1>8, <1>9, <1>10

LEMMA InitSafe == CooldownLong /\ Init => Placed /\ Timely
<1> SUFFICES ASSUME CooldownLong, Init PROVE Placed /\ Timely
  OBVIOUS
<1> USE Settings
<1>1. /\ transfer.fate = "unpaid" /\ session.status = "new" /\ blind = 0 /\ watched = 0
      /\ page.at = "payment" /\ timer = PollInterval /\ leaving = Staying
      /\ \A w \in Worker : ~work[w].awaited
  BY DEF Init, NoTransfer, Free
<1>2. SessionPlaced /\ WatchPlaced /\ Timely
  BY <1>1 DEF SessionPlaced, WatchPlaced, Timely, Watching
<1>3. PagePlaced
  BY <1>1 DEF PagePlaced, Off
<1>4. QED
  BY <1>2, <1>3 DEF Placed

LEMMA StepTimely == CooldownLong /\ Safe /\ [Next]_vars => Timely'
<1> SUFFICES ASSUME CooldownLong, Safe, [Next]_vars, Watching', ~Stalled' PROVE Timely'
  BY DEF Timely
<1> USE Settings, Times, Numbers DEF Safe
<1>1. /\ Inv' /\ Placed'
      /\ Wait' \in Nat /\ Need' \in Nat /\ Need' <= CheckTime + DetourTime
      /\ watched' \in Int /\ transfer'.age \in Nat
  <2>1. Inv' /\ Placed'
    BY StepInv, StepSession, StepPage, StepWatch DEF Placed
  <2>2. watched' \in Int /\ transfer'.age \in Nat
    BY <2>1 DEF Inv, WatchOK, Transfers, Off
  <2>3. CooldownLong'
    BY DEF CooldownLong, Margin, CheckTime, DetourTime, Larger
  <2>4. QED
    BY <2>1, <2>2, <2>3, RoomNext
<1>2. Margin' = Margin
  BY DEF Margin, CheckTime, DetourTime, Larger
\* A count that has just begun leaves room for what is needed.
<1>3. ASSUME watched' <= Confirming + Ttl \/ transfer'.age <= Confirming + Ttl PROVE Timely'
  <2>1. \A a, n \in Int : a <= Confirming + Ttl /\ n <= CheckTime + DetourTime =>
            a + n <= Margin
    OBVIOUS
  <2>2. watched' + Need' <= Margin \/ transfer'.age + Need' <= Margin
    <3>1. Need' \in Int /\ transfer'.age \in Int
      BY <1>1
    <3>2. QED
      BY ONLY <1>1, <1>3, <2>1, <3>1, Zenon
  <2>3. QED
    BY <1>2, <2>2 DEF Timely
<1>4. ASSUME watched' = Interrupted \/ watched' = 0 PROVE Timely'
  <2>1. watched' <= 0
    BY <1>4, Stops
  <2>2. watched' <= Confirming + Ttl
    <3>1. \A a \in Int : a <= 0 => a <= Confirming + Ttl
      OBVIOUS
    <3>2. QED
      BY <1>1, <2>1, <3>1
  <2>3. QED
    BY <1>3, <2>2
<1>5. ASSUME NEW c \in Chain, Transferred(c) PROVE Timely'
  BY <1>3, <1>5, Sent
\* While the count goes on, what is needed does not grow.
<1>6. ASSUME Watching, ~Stalled, watched' = watched, transfer' = transfer, Need' <= Need
      PROVE  Timely'
  <2>1. Need \in Nat /\ (watched + Need <= Margin \/ transfer.age + Need <= Margin)
    BY <1>6, Room DEF Timely
  <2>2. \A a, m, n \in Int : m <= n /\ a + n <= Margin => a + m <= Margin
    OBVIOUS
  <2>3. watched' + Need' <= Margin \/ transfer'.age + Need' <= Margin
    <3>1. Need' \in Int /\ Need \in Int /\ watched \in Int /\ transfer.age \in Int
      BY <1>1, <2>1
    <3>2. watched + Need' <= Margin \/ transfer.age + Need' <= Margin
      BY ONLY <1>6, <2>1, <2>2, <3>1, Zenon
    <3>3. QED
      BY ONLY <1>6, <3>2, Zenon
  <2>4. QED
    BY <1>2, <2>3 DEF Timely
<1>7. ASSUME Watching, ~Stalled, watched' = watched, transfer' = transfer, since' = since,
             Wait' <= Wait
      PROVE  Timely'
  <2>1. Wait \in Nat
    BY <1>7, Room
  <2>2. \A m, n \in Nat :
            m <= n => m + (IF since + m < GraceCooldown THEN 0 ELSE DetourTime)
                      <= n + (IF since + n < GraceCooldown THEN 0 ELSE DetourTime)
    OBVIOUS
  <2>3. Need' = Wait' + (IF since + Wait' < GraceCooldown THEN 0 ELSE DetourTime)
    BY <1>7 DEF Need, DetourTime
  <2>4. Need' <= Need
    BY <1>1, <1>7, <2>1, <2>2, <2>3 DEF Need
  <2>5. QED
    BY <1>6, <1>7, <2>4
<1>8. ASSUME UNCHANGED <<page, visible, transfer, watched>> PROVE Watching /\ ~Stalled
  BY <1>8 DEF Watching, Stalled
\* A page that has been loaded watches on, if it shows the same chain.
<1>9. ASSUME NEW c \in Chain, Load(c), watched' = Resumed, transfer' = transfer,
             Watching /\ ~Stalled => Lasting + Return <= Wait
      PROVE  Timely'
  <2>1. CASE Stalled \/ page'.chain # page.chain
    BY <1>4, <1>9, <2>1 DEF Resumed
  <2>2. CASE ~Stalled /\ page'.chain = page.chain
    <3>1. watched' = watched /\ UNCHANGED <<visible, since>>
      BY <1>9, <2>2, LoadLeaves DEF Resumed
    <3>2. Watching
      BY <1>9, <2>2, <3>1 DEF Watching
    <3>3. Wait' <= Lasting + Return
      BY <1>9, <3>2, LoadedWait DEF Watching
    <3>4. Wait' <= Wait
      <4>1. Wait \in Nat /\ Lasting \in Nat /\ Return \in Nat
        BY <2>2, <3>2, Room, WaitNumbers
      <4>2. \A m, n, k \in Int : m <= n /\ n <= k => m <= k
        OBVIOUS
      <4>3. QED
        BY <1>1, <1>9, <2>2, <3>2, <3>3, <4>1, <4>2
    <3>5. QED
      BY <1>7, <1>9, <2>2, <3>1, <3>2, <3>4
  <2>3. QED
    BY <2>1, <2>2
<1>10. CASE Grace
  <2>1. UNCHANGED <<page, visible, transfer>>
    BY <1>10 DEF Grace
  <2>2. CASE LeaveFor(page.chain) /\ watched' = watched
    BY <1>6, <1>8, <1>10, <2>1, <2>2, GraceNeed
  <2>3. QED
    BY <1>4, <1>10, <2>2 DEF Grace
<1>11. CASE Click
  <2>1. /\ UNCHANGED <<page, visible, timer, leaving, session, work, transfer, watched, since>>
        /\ flight = NoFlight /\ flight' = [kind |-> "manual", got |-> "nothing", age |-> 0]
    BY <1>11 DEF Click, portal
  <2>2. Watching /\ ~Stalled
    BY <1>8, <2>1
  <2>3. NextCheck' = NextCheck
    BY <2>1 DEF NextCheck, NoFlight
  <2>4. (Active' <=> Active) /\ flight.got = "nothing" /\ flight'.got = "nothing"
    BY <2>1 DEF Active, NoFlight
  <2>5. Wait' = Wait
    BY <2>1, <2>2, <2>3, <2>4, WaitNumbers DEF Wait
  <2>6. QED
    BY <1>7, <2>1, <2>2, <2>5, Room
<1>12. CASE Poll
  <2>1. /\ UNCHANGED <<page, visible, leaving, session, work, transfer, since>>
        /\ page.at = "payment" /\ timer = 0
    BY <1>12 DEF Poll, portal
  <2>2. flight.kind # "manual" /\ watched' = watched
    BY <1>12 DEF Poll, Stalled
  <2>3. Watching /\ ~Stalled
    BY <1>8, <2>1, <2>2
  <2>4. (Active' <=> Active) /\ (Unsure' <=> Unsure) /\ flight'.got = flight.got
    BY <1>12, <2>1 DEF Active, Unsure, Poll, NoFlight
  <2>5. NextCheck' = NextCheck
    <3>1. CASE flight = NoFlight
      <4>1. ~Unsure
        BY <3>1 DEF Unsure, Inv, WorkOK, Asked
      <4>2. /\ flight'.kind = "auto" /\ flight'.got = "nothing" /\ flight'.age = 0
            /\ flight.kind = "none"
        BY <1>12, <3>1 DEF Poll, NoFlight
      <4>3. NextCheck' = FetchTimeout - 0 + 0 /\ NextCheck = 0 + FetchTimeout
        BY <2>1, <2>4, <4>1, <4>2 DEF NextCheck
      <4>4. QED
        BY <4>3
    <3>2. CASE flight # NoFlight
      <4>1. flight.kind = "auto" /\ flight' = flight
        BY <1>12, <2>2, <3>2 DEF Poll, Inv, FlightOK, Flights
      <4>2. QED
        BY <2>4, <4>1, <2>3, WaitNumbers DEF NextCheck
    <3>3. QED
      BY <3>1, <3>2
  <2>6. Wait' = Wait
    BY <2>1, <2>3, <2>4, <2>5, WaitNumbers DEF Wait
  <2>7. QED
    BY <1>7, <2>1, <2>2, <2>3, <2>6, Room
<1>13. CASE NotPaid
  <2>1. /\ UNCHANGED <<page, visible, leaving, session, transfer, watched, since>>
        /\ flight.got = "unpaid" /\ flight' = NoFlight
    BY <1>13 DEF NotPaid, portal
  <2>2. Watching /\ ~Stalled /\ page.at = "payment"
    BY <1>8, <2>1 DEF Placed, PagePlaced, NoFlight
  <2>3. NextCheck' = NextCheck
    <3>1. CASE flight.kind = "auto"
      <4>1. timer' = PollInterval
        BY <1>13, <2>2, <3>1 DEF NotPaid, Armed, Watching
      <4>2. QED
        BY <2>1, <3>1, <4>1 DEF NextCheck, NoFlight, Return
    <3>2. CASE flight.kind # "auto"
      <4>1. timer' = timer
        BY <1>13, <3>2 DEF NotPaid
      <4>2. QED
        BY <2>1, <3>2, <4>1 DEF NextCheck, NoFlight
    <3>3. QED
      BY <3>1, <3>2
  <2>4. (Active' <=> Active) /\ flight'.got = "nothing"
    BY <2>1 DEF Active, NoFlight
  <2>5. Wait' = Wait
    BY <2>1, <2>2, <2>3, <2>4, WaitNumbers DEF Wait
  <2>6. QED
    BY <1>7, <2>1, <2>2, <2>5, Room
<1>14. CASE Paid
  <2>1. /\ UNCHANGED <<page, visible, session, transfer, watched, since>>
        /\ flight.got = "paid" /\ LeaveFor(DefaultChain)
    BY <1>14 DEF Paid, portal
  <2>2. Watching /\ ~Stalled /\ page.at = "payment"
    BY <1>8, <2>1 DEF Placed, PagePlaced, NoFlight
  <2>3. /\ leaving' # Staying
        /\ leaving = Staying => leaving'.left = RedirectDelay
        /\ leaving # Staying => leaving' = leaving
    BY <2>1 DEF LeaveFor, Staying, Off
  <2>4. Wait' = Wait
    <3>1. CASE leaving = Staying
      BY <2>1, <2>2, <2>3, <3>1, WaitNumbers DEF Wait
    <3>2. CASE leaving # Staying
      BY <2>1, <2>2, <2>3, <3>2, WaitNumbers DEF Wait
    <3>3. QED
      BY <3>1, <3>2
  <2>5. QED
    BY <1>7, <2>1, <2>2, <2>4, Room
<1>15. CASE Leave
  <2>1. leaving.left = 0 /\ watched' = Resumed /\ transfer' = transfer /\ Load(leaving.chain)
        /\ leaving.chain \in Chain
    BY <1>15 DEF Leave, Inv, FlightOK, Leavings
  <2>2. leaving # Staying /\ page.at = "payment"
    BY <2>1 DEF Staying, Off, Placed, PagePlaced
  <2>3. Watching /\ ~Stalled => Lasting + Return <= Wait
    <3>1. Wait = 0 + Lasting + Return
      BY <2>1, <2>2 DEF Wait, Away
    <3>2. QED
      BY <3>1, WaitNumbers
  <2>4. QED
    BY <1>9, <2>1, <2>3
<1>16. CASE PollStatus
  <2>1. page.at = "success" /\ timer = 0 /\ transfer' = transfer
    BY <1>16 DEF PollStatus
  <2>2. CASE session.status \in {"grace", "paid"}
    <3>1. UNCHANGED <<page, visible, leaving, flight, session, watched, since>>
      BY <1>16, <2>2 DEF PollStatus, portal
    <3>2. Watching /\ ~Stalled
      BY <1>8, <2>1, <3>1
    <3>3. session.status = "grace"
      BY <2>2, <3>2 DEF Placed, SessionPlaced, Watching
    <3>4. Wait' = Wait
      BY <2>1, <3>1, <3>2, <3>3, WaitNumbers DEF Wait
    <3>5. QED
      BY <1>7, <2>1, <3>1, <3>2, <3>4, Room
  <2>3. CASE session.status \notin {"grace", "paid"}
    <3>1. Load(DefaultChain) /\ watched' = Resumed
      BY <1>16, <2>3 DEF PollStatus
    <3>2. Watching /\ ~Stalled => Lasting + Return <= Wait
      <4>1. Lasting = 0 /\ Wait = 0 + Return
        BY <2>1, <2>3 DEF Lasting, Wait
      <4>2. QED
        BY <4>1, WaitNumbers
    <3>3. QED
      BY <1>9, <2>1, <3>1, <3>2
  <2>4. QED
    BY <2>2, <2>3
<1>17. ASSUME NEW w \in Worker, Accept(w) PROVE Timely'
  <2>1. UNCHANGED <<page, visible, timer, leaving, flight, session, transfer, watched, since>>
    BY <1>17 DEF Accept, browser
  <2>2. Watching /\ ~Stalled
    BY <1>8, <2>1
  <2>3. \A v \in Worker : work'[v].awaited => work'[v].pc = "isPaid"
    BY <1>17 DEF Accept, Asked, Inv, WorkOK
  <2>4. ~Unsure'
    BY <2>3 DEF Unsure
  <2>5. QED
    BY <1>7, <2>1, <2>2, <2>4, SameWait, Room
<1>18. ASSUME NEW w \in Worker, Handle(w) PROVE Timely'
  <2>1. UNCHANGED <<page, visible, watched, since>> /\ transfer'.fate # "credited"
    BY <1>18, Handled DEF Watching
  <2>2. transfer' = transfer
    BY <1>18, <2>1, Credits
  <2>3. Watching /\ ~Stalled
    BY <1>8, <2>1, <2>2
  <2>4. \/ Wait' <= Wait
        \/ watched <= Confirming + Ttl \/ transfer.age <= Confirming + Ttl
    BY <1>18, <2>1, <2>3, HandledWait
  <2>5. QED
    BY <1>3, <1>7, <2>1, <2>2, <2>3, <2>4
<1>19. CASE Exhaust \/ Expire
  <2>1. UNCHANGED <<page, visible, timer, leaving, flight, work, transfer, watched, since>>
    BY <1>19 DEF Exhaust, Expire, browser
  <2>2. Watching /\ ~Stalled
    BY <1>8, <2>1
  <2>3. session.status = "grace"
    BY <1>19, <2>2 DEF Exhaust, Expire, Active, Over, Placed, SessionPlaced, Watching
  <2>4. /\ Lasting' \in Int /\ Lasting' <= Lasting /\ Lasting \in Nat
        /\ session'.status = "grace" \/ Lasting >= StatusInterval
        /\ session'.status = "grace" \/ Lasting' = 0
        /\ ~Active'
    <3>1. CASE session.left > 0 /\ session' = [session EXCEPT !.left = 0]
      <4>1. session'.status = "grace" /\ session'.left = 0
        BY <2>3, <3>1 DEF Inv, SessionOK, Sessions
      <4>2. QED
        BY <2>3, <3>1, <4>1 DEF Lasting, Active
    <3>2. CASE session' = [status |-> "expired", left |-> 0]
      BY <2>3, <3>2 DEF Lasting, Active
    <3>3. QED
      BY <1>19, <3>1, <3>2 DEF Exhaust, Expire, Active
  <2>5. Return \in Nat /\ Return' = Return /\ NextCheck' = NextCheck
    BY <2>1, <2>2, WaitNumbers DEF NextCheck, Unsure
  <2>6. \A k, m, n \in Int : m <= n => k + m + Return <= k + n + Return /\ m + Return <= n + Return
    BY <2>5
  <2>7. CASE page.at = "success"
    <3>1. Wait = Lasting + Return
      BY <2>3, <2>7 DEF Wait
    <3>2. Wait' = Lasting' + Return \/ (Wait' = timer + Return /\ Lasting >= StatusInterval)
      BY <2>1, <2>4, <2>5, <2>7 DEF Wait
    <3>3. timer \in Int /\ timer <= StatusInterval
      BY <2>7 DEF Placed, PagePlaced
    <3>4. Lasting' + Return <= Lasting + Return
      BY <2>4, <2>6
    <3>5. Lasting >= StatusInterval => timer + Return <= Lasting + Return
      BY <2>4, <2>5, <3>3
    <3>6. Wait' <= Wait
      BY ONLY <3>1, <3>2, <3>4, <3>5, Zenon
    <3>7. QED
      BY <1>7, <2>1, <2>2, <3>6
  <2>8. CASE page.at = "payment"
    <3>1. CASE leaving # Staying
      <4>1. Wait = leaving.left + Lasting + Return
        BY <2>8, <3>1 DEF Wait, Away
      <4>2. Wait' = leaving.left + Lasting' + Return
        BY <2>1, <2>5, <2>8, <3>1 DEF Wait, Away
      <4>3. QED
        BY <1>7, <2>1, <2>2, <2>4, <2>6, <4>1, <4>2
    <3>2. CASE leaving = Staying /\ flight.got = "paid"
      <4>1. Wait = RedirectDelay + Lasting + Return
        BY <2>8, <3>2 DEF Wait, Away
      <4>2. Wait' = RedirectDelay + Lasting' + Return
        BY <2>1, <2>5, <2>8, <3>2 DEF Wait, Away
      <4>3. QED
        BY <1>7, <2>1, <2>2, <2>4, <2>6, <4>1, <4>2
    <3>3. CASE leaving = Staying /\ flight.got # "paid"
      <4>1. Wait = NextCheck + (IF Active THEN Away(RedirectDelay) ELSE 0)
        BY <2>8, <3>3 DEF Wait
      <4>2. Wait' = NextCheck + 0
        BY <2>1, <2>4, <2>5, <2>8, <3>3 DEF Wait
      <4>3. NextCheck \in Nat /\ Away(RedirectDelay) \in Nat
        BY <2>2, <2>8, <3>3, WaitNumbers
      <4>4. Wait' <= Wait
        BY <4>1, <4>2, <4>3
      <4>5. QED
        BY <1>7, <2>1, <2>2, <4>4
    <3>4. QED
      BY <3>1, <3>2, <3>3
  <2>9. QED
    BY <2>7, <2>8
<1>20. CASE Tick
  <2>1. /\ UNCHANGED <<page, visible>>
        /\ watched' = IF Stalled THEN Off ELSE IF Watching THEN Older(watched) ELSE 0
        /\ since' = IF since < GraceCooldown THEN since + 1 ELSE since
    BY <1>20 DEF Tick
  <2>2. ~Stalled
    BY <2>1 DEF Stalled
  <2>3. /\ transfer.fate = "open" /\ transfer'.chain = transfer.chain
        /\ transfer'.age = Older(transfer.age)
    BY <1>20 DEF Tick, Watching, Inv, WatchOK, Transfers
  <2>4. Watching
    BY <2>1, <2>3 DEF Watching
  <2>5. watched' <= watched + 1 /\ transfer'.age <= transfer.age + 1
    BY <2>1, <2>2, <2>3, <2>4 DEF Older
  <2>6. Wait' < Wait /\ Wait \in Nat /\ Need \in Nat
    BY <1>20, <2>2, <2>4, TickWait, Room
  <2>7. Need' < Need
    <3>1. \A m, n, s \in Nat : m < n /\ s <= since + 1 =>
              m + (IF s + m < GraceCooldown THEN 0 ELSE DetourTime)
              < n + (IF since + n < GraceCooldown THEN 0 ELSE DetourTime)
      OBVIOUS
    <3>2. since' \in Nat /\ since' <= since + 1
      BY <2>1
    <3>3. Need' = Wait' + (IF since' + Wait' < GraceCooldown THEN 0 ELSE DetourTime)
      BY DEF Need, DetourTime
    <3>4. Need = Wait + (IF since + Wait < GraceCooldown THEN 0 ELSE DetourTime)
      BY DEF Need
    <3>5. Wait' + (IF since' + Wait' < GraceCooldown THEN 0 ELSE DetourTime)
              < Wait + (IF since + Wait < GraceCooldown THEN 0 ELSE DetourTime)
      BY ONLY <1>1, <2>6, <3>1, <3>2, Zenon
    <3>6. QED
      BY ONLY <3>3, <3>4, <3>5, Zenon
  <2>8. watched + Need <= Margin \/ transfer.age + Need <= Margin
    BY <2>2, <2>4 DEF Timely
  <2>9. \A a, b, m, n \in Int : b <= a + 1 /\ m < n /\ a + n <= Margin => b + m <= Margin
    OBVIOUS
  <2>10. watched' + Need' <= Margin \/ transfer'.age + Need' <= Margin
    <3>1. /\ Need \in Int /\ Need' \in Int /\ transfer'.age \in Int
          /\ watched \in Int /\ transfer.age \in Int
      BY <1>1, <2>6
    <3>2. QED
      BY ONLY <1>1, <2>5, <2>7, <2>8, <2>9, <3>1, Zenon
  <2>11. QED
    BY <1>2, <2>10 DEF Timely
<1>21. CASE PayWithWallet \/ \E c \in Chain : Pay(c)
  BY <1>5, <1>21 DEF PayWithWallet, Pay, Inv, PageOK
<1>22. CASE \/ Hide \/ Show \/ (\E c \in Chain : Visit(c)) \/ CheckFailed \/ StatusFails
            \/ (\E w \in Worker : Fail(w) \/ ExplorerFails(w)) \/ LoseAnswer
  BY <1>4, <1>22 DEF Hide, Show, Visit, CheckFailed, StatusFails, Fail, ExplorerFails, LoseAnswer
<1>23. CASE UNCHANGED vars
  BY <1>23 DEF vars, Timely, Need, Wait, Away, Lasting, NextCheck, Unsure, Return, Watching,
               Stalled, Active, DetourTime, Margin, CheckTime, Larger
<1>24. QED
  BY <1>10, <1>11, <1>12, <1>13, <1>14, <1>15, <1>16, <1>17, <1>18, <1>19, <1>20, <1>21,
     <1>22, <1>23 DEF Next

\* What is due comes before time passes, so some of the wait is left.
LEMMA NotYet ==
    ASSUME Inv, Placed, Watching, ~Stalled, ~Due
    PROVE  Wait >= 1
<1> USE Settings, Numbers
<1>1. /\ Return \in Nat /\ Return >= 1 /\ Lasting \in Nat /\ Away(RedirectDelay) \in Nat
      /\ Away(RedirectDelay) >= 1
  BY WaitNumbers DEF Return, Away
<1>2. timer # 0 /\ flight.got = "nothing" /\ flight.age # FetchTimeout
  BY DEF Due
<1>3. CASE page.at = "success"
  BY <1>1, <1>3 DEF Wait, Placed, PagePlaced
<1>4. CASE page.at = "payment" /\ leaving # Staying
  <2>1. leaving.left >= 0
    BY <1>4 DEF Placed, PagePlaced, Off
  <2>2. QED
    BY <1>1, <1>4, <2>1 DEF Wait, Away
<1>5. CASE page.at = "payment" /\ leaving = Staying
  <2>1. NextCheck \in Nat /\ NextCheck >= 1
    <3>1. flight.kind # "auto" => timer > 0
      BY <1>2, <1>5 DEF Watching, Placed, PagePlaced, Off
    <3>2. QED
      BY <1>1, <1>2, <3>1 DEF NextCheck
  <2>2. Wait = NextCheck + (IF Active THEN Away(RedirectDelay) ELSE 0)
    BY <1>2, <1>5 DEF Wait
  <2>3. QED
    BY <1>1, <2>1, <2>2
<1>6. QED
  BY <1>3, <1>4, <1>5

\* A transfer that is lost has run out of time, or the page has not watched it.
LEMMA LostLate ==
    ASSUME CooldownLong, Safe, Next, transfer.fate = "open", transfer'.fate = "lost"
    PROVE  transfer.age < Margin \/ watched < Margin
<1> USE Settings, Times, Numbers DEF Safe
<1>1. Tick
  <2>1. \A w \in Worker : ~Handle(w)
    BY Credits
  <2>2. (\A c \in Chain : ~Transferred(c)) /\ page.chain \in Chain
    BY Sent DEF Inv, PageOK
  <2>3. transfer' # transfer
    OBVIOUS
  <2>4. \A w \in Worker : ~Accept(w) /\ ~Fail(w) /\ ~ExplorerFails(w)
    BY <2>3 DEF Accept, Fail, ExplorerFails
  <2>5. ~(Grace \/ Hide \/ Show \/ Click \/ LoseAnswer \/ Exhaust \/ Expire)
    BY <2>3 DEF Grace, Hide, Show, Click, LoseAnswer, Exhaust, Expire
  <2>6. ~(Poll \/ NotPaid \/ CheckFailed \/ Paid \/ Leave \/ PollStatus \/ StatusFails)
    BY <2>3 DEF Poll, NotPaid, CheckFailed, Paid, Leave, PollStatus, StatusFails
  <2>7. QED
    BY <2>1, <2>2, <2>3, <2>4, <2>5, <2>6 DEF Next, Pay, PayWithWallet, Visit
<1>2. CASE Watching /\ ~Stalled
  <2>1. Wait \in Nat /\ Need \in Nat /\ Need >= Wait
    BY <1>2, Room DEF Need
  <2>2. watched + Need <= Margin \/ transfer.age + Need <= Margin
    BY <1>2 DEF Timely
  <2>3. Wait >= 1
    BY <1>1, <1>2, NotYet DEF Tick
  <2>4. QED
    BY <2>1, <2>2, <2>3
<1>3. CASE ~Watching \/ Stalled
  <2>1. watched <= 0
    BY <1>3 DEF Placed, WatchPlaced, Stalled, Off
  <2>2. 0 < Margin
    OBVIOUS
  <2>3. QED
    BY <2>1, <2>2
<1>4. QED
  BY <1>2, <1>3

\* If grace cannot be had twice while a transfer is waited for (CooldownLong: the
\* default cooldown is an hour, Margin some minutes), no transfer sent Margin before
\* its invoice runs out is lost on a page that nothing has kept from checking, for
\* any intervals, delays and numbers of chains and workers (main.js:250-384,
\* app.py:478-552, db.py:484-564).
THEOREM LostOnlyLateHolds ==
    ASSUME CooldownLong
    PROVE  Spec => LostOnlyLate
<1>1. Init => Safe
  BY InitInv, InitSafe DEF Safe
<1>2. Safe /\ [Next]_vars => Safe'
  BY StepInv, StepSession, StepPage, StepWatch, StepTimely DEF Safe, Placed
<1>3. Safe /\ [Next]_vars =>
          [transfer.fate = "open" /\ transfer'.fate = "lost" =>
               transfer.age < Margin \/ watched < Margin]_vars
  BY LostLate
<1>4. QED
  BY <1>1, <1>2, <1>3, PTL DEF Spec, LostOnlyLate

=============================================================================
