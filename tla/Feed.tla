-------------------------------- MODULE Feed --------------------------------
(***************************************************************************)
(* What the control plane promises a tab: the retained events, each once,  *)
(* in id order, with nothing that is still retained left out.  Streams,    *)
(* pages, queues, lag and reconnection do not exist at this level.         *)
(***************************************************************************)
EXTENDS Integers

CONSTANT Clients

VARIABLES
    events,   \* ids the log retains
    nextId,   \* the next id the log gives
    seen,     \* ids each tab was handed
    cursor    \* the highest of them, where the tab resumes

feedVars == <<events, nextId, seen, cursor>>

FeedInit ==
    /\ events = {}
    /\ nextId = 1
    /\ seen = [c \in Clients |-> {}]
    /\ cursor = [c \in Clients |-> 0]

Publish ==
    /\ events' = events \cup {nextId}
    /\ nextId' = nextId + 1
    /\ UNCHANGED <<seen, cursor>>

(* Retention drops a prefix: nobody is owed what is no longer there. *)
Forget ==
    /\ \E n \in 0..nextId : events' = {i \in events : i > n}
    /\ UNCHANGED <<nextId, seen, cursor>>

(* The next event beyond the cursor: no retained one lies in between. *)
Receive(c) ==
    \E i \in 1..(nextId - 1) :
        /\ i > cursor[c]
        /\ \A j \in events : j > cursor[c] => i <= j
        /\ seen' = [seen EXCEPT ![c] = @ \cup {i}]
        /\ cursor' = [cursor EXCEPT ![c] = i]
        /\ UNCHANGED <<events, nextId>>

FeedNext ==
    \/ Publish
    \/ Forget
    \/ \E c \in Clients : Receive(c)

FeedSpec == FeedInit /\ [][FeedNext]_feedVars
=============================================================================
