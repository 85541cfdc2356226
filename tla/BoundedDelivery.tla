-------------------------- MODULE BoundedDelivery --------------------------
(***************************************************************************)
(* What an outbox with leases and retries promises of a set of items,      *)
(* without its workers, leases, clocks and crashes.  An item is tried at   *)
(* most MaxTries times, and a try calls the provider at most once, maybe   *)
(* late.  It is done only if the provider took it, refused only after a    *)
(* call, dead only after the last try, and then it stays so, unless it is  *)
(* withdrawn.  The provider never hears of an item that is not admitted,   *)
(* which may be refused without a call.                                    *)
(***************************************************************************)
EXTENDS Naturals

CONSTANTS Items, Admitted, MaxTries

VARIABLES
    tries,    \* how often an item was begun
    called,   \* the tries that have called the provider
    taken,    \* the items the provider took
    outcome

Outcomes == {"open", "done", "refused", "dead", "withdrawn"}

Init ==
    /\ tries = [i \in Items |-> 0]
    /\ called = [i \in Items |-> {}]
    /\ taken = {}
    /\ outcome = [i \in Items |-> "open"]

\* Some items whose tries are used up are given up, and some are begun again.
Turn(dead, begun) ==
    /\ \A i \in dead : outcome[i] = "open" /\ tries[i] = MaxTries
    /\ \A i \in begun : outcome[i] = "open" /\ tries[i] < MaxTries
    /\ outcome' = [i \in Items |-> IF i \in dead THEN "dead" ELSE outcome[i]]
    /\ tries' = [i \in Items |-> IF i \in begun THEN tries[i] + 1 ELSE tries[i]]
    /\ UNCHANGED <<called, taken>>

Call(i, try) ==
    /\ i \in Admitted
    /\ try \in (1..tries[i]) \ called[i]
    /\ called' = [called EXCEPT ![i] = @ \cup {try}]
    /\ taken' \in {taken, taken \cup {i}}
    /\ UNCHANGED <<tries, outcome>>

Conclude(i, result) ==
    /\ \/ outcome[i] = "open" /\ result = "done" /\ i \in taken
       \/ outcome[i] = "open" /\ result = "refused" /\ (called[i] # {} \/ i \notin Admitted)
       \/ result = "withdrawn"
    /\ outcome' = [outcome EXCEPT ![i] = result]
    /\ UNCHANGED <<tries, called, taken>>

Next ==
    \/ \E dead, begun \in SUBSET Items : Turn(dead, begun)
    \/ \E i \in Items, try \in 1..MaxTries : Call(i, try)
    \/ \E i \in Items, result \in Outcomes : Conclude(i, result)

Spec == Init /\ [][Next]_<<tries, called, taken, outcome>>

=============================================================================
