-------------------------------- MODULE Relay --------------------------------
(***************************************************************************)
(* What the upstream leg promises the log: items arrive in the upstream's  *)
(* order, each at least once, and the resume cursor never claims more than *)
(* was dealt with.  Connections, workers and locks do not exist here.      *)
(***************************************************************************)
EXTENDS Integers

CONSTANT MaxItem

VARIABLES
    logged,   \* items that are in the log
    passed,   \* items that were passed by without an event
    cursor    \* where the next connection resumes

relayVars == <<logged, passed, cursor>>

RelayInit ==
    /\ logged = {}
    /\ passed = {}
    /\ cursor = 0

\* Everything up to the n-th item was dealt with.
DealtWith(n) == 1..n \subseteq logged \cup passed

Deliver(i) ==
    /\ DealtWith(i - 1)
    /\ logged' = logged \cup {i}
    /\ UNCHANGED <<passed, cursor>>

PassBy(i) ==
    /\ DealtWith(i - 1)
    /\ passed' = passed \cup {i}
    /\ UNCHANGED <<logged, cursor>>

Remember(n) ==
    /\ DealtWith(n)
    /\ cursor' = n
    /\ UNCHANGED <<logged, passed>>

RelayNext ==
    \E i \in 1..MaxItem : Deliver(i) \/ PassBy(i) \/ Remember(i)

RelaySpec == RelayInit /\ [][RelayNext]_relayVars
=============================================================================
