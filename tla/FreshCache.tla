----------------------------- MODULE FreshCache -----------------------------
(***************************************************************************)
(* What a cache in front of a slow source promises its caller: an answer   *)
(* is what the source has just said, or what it said less than MaxAge ago, *)
(* and never more than MaxSize answers are kept.  What is forgotten, and   *)
(* when the source is asked, is left open.  The price service and the      *)
(* verification cache are shown to implement this module.                  *)
(***************************************************************************)
EXTENDS Integers, FiniteSets

CONSTANTS
    Key, Value,
    MaxAge,   \* an answer from the cache is younger than this
    MaxFetch, \* an answer from the source is at most this old
    MaxSize   \* how many answers are kept

VARIABLES
    held,   \* per key, the answer that is kept, with its age
    asked,  \* the key the source is being asked for, if it is
    answer  \* what the caller has just been told, if it has

cacheVars == <<held, asked, answer>>

Nobody == "nobody"
Nothing == [value |-> "nothing", age |-> 0]
NoAnswer == [key |-> Nobody, value |-> "nothing", age |-> 0]

Held == {Nothing} \cup [value : Value, age : 0..MaxAge]

Init ==
    /\ held = [k \in Key |-> Nothing]
    /\ asked = Nobody
    /\ answer = NoAnswer

\* Anything may be forgotten at any time.
Forgets == \A k \in Key : held'[k] \in {held[k], Nothing}

\* Nothing happens to the caller; perhaps the source is asked, for one key at
\* a time.
Work ==
    /\ \/ UNCHANGED asked
       \/ asked = Nobody /\ asked' \in Key
    /\ held' \in [Key -> Held]
    /\ Forgets
    /\ answer' = NoAnswer

\* The answer that is kept is given.
Serve(k) ==
    /\ asked = Nobody
    /\ held[k] # Nothing
    /\ held[k].age < MaxAge
    /\ held' \in [Key -> Held]
    /\ Forgets
    /\ answer' = [key |-> k, value |-> held[k].value, age |-> held[k].age]
    /\ UNCHANGED asked

\* The source has answered; its answer may be kept.
Obtain(k, v, a) ==
    /\ asked = k
    /\ asked' = Nobody
    /\ answer' = [key |-> k, value |-> v, age |-> a]
    /\ held' \in [Key -> Held]
    /\ \A j \in Key : \/ held'[j] \in {held[j], Nothing}
                      \/ j = k /\ held'[j] = [value |-> v, age |-> a]
    /\ Cardinality({j \in Key : held'[j] # Nothing}) <= MaxSize

\* Time passes for what is kept.
Age ==
    /\ held' \in [Key -> Held]
    /\ \A k \in Key : \/ held'[k] = Nothing
                      \/ /\ held[k] # Nothing
                         /\ held'[k] = [held[k] EXCEPT !.age = @ + 1]
    /\ answer' = NoAnswer
    /\ UNCHANGED asked

Next ==
    \/ Work
    \/ \E k \in Key :
        \/ Serve(k)
        \/ \E v \in Value, a \in 0..MaxFetch : Obtain(k, v, a)
    \/ Age

Spec == Init /\ [][Next]_cacheVars
=============================================================================
