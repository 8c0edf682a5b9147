--------------------------- MODULE ReadModelProofs ---------------------------
(***************************************************************************)
(* Proofs about ReadModel: what the table has and what it has no longer,   *)
(* for any resyncs, events, trims and faults.                              *)
(***************************************************************************)
EXTENDS ReadModel, TLAPS

Resetting == \E r \in Resyncs : resync[r] = "reset"

RowsOf(q) == UNION {q[n].rows : n \in {m \in DOMAIN q : q[m].kind = "ingest"}}

\* Whoever waits for a message is where its message says ...
Fits(q, syncs, resyncs) ==
    \A n \in DOMAIN q :
        /\ q[n].kind = "reset" => resyncs[q[n].by] = "reset"
        /\ q[n].kind = "ingest" /\ q[n].by # NoSync => syncs[q[n].by] = "ingest"

\* ... and waits for one only.
Same(a, b) == a.kind = b.kind /\ a.kind \in {"ingest", "reset"} /\ a.by = b.by /\ a.by # NoSync

Unique(q) == \A m, n \in DOMAIN q : Same(q[m], q[n]) => m = n

InboxHolds ==
    /\ inbox # <<>> => worker # "none"
    /\ Fits(inbox, sync, resync)
    /\ Unique(inbox)

\* A trim that was not heard, or heard and not yet acted upon, is all that
\* stands between the table and the log.
RowsRetained == worker = "up" /\ notices = 0 /\ ~Resetting => model \subseteq Retained \cup stale

\* Only a first sync can find the table without a worker.
SyncsHold ==
    /\ worker = "none" => model = {}
    /\ worker = "none" => \A s \in Syncs : sync[s] # "ingest"
    /\ \A r \in Resyncs : sync[r] # "none" => current \in Resyncs
    /\ sync[First] # "none" => current # NoSync
    /\ \A r \in Resyncs : resync[r] # "idle" => worker # "none"
    /\ \A r \in Resyncs : resync[r] # "sync" => sync[r] \in {"none", "done", "failed"}
    /\ current \in Resyncs => worker # "none"
    /\ \A s \in Syncs : sync[s] # "answered" => rows[s] = {}

Seen == {i \in Retained : i <= cursor}

\* What a sync has read and not posted counts as well; only before the first
\* resync may a push have been missed.
SeenIsThere ==
    /\ worker \notin {"broken", "dead"}
    /\ ~Resetting
    /\ current # NoSync
    /\ sync[current] \in {"answered", "ingest", "done"}
    => Seen \subseteq model \cup RowsOf(inbox) \cup rows[current] \cup (IF current = First THEN missed ELSE {})

ReadInv ==
    /\ ReadTypeOK
    /\ cursor <= hi
    /\ InboxHolds
    /\ RowsRetained
    /\ SyncsHold
    /\ SeenIsThere

-----------------------------------------------------------------------------
LEMMA ReadInitInv == ReadInit => ReadInv
<1> SUFFICES ASSUME ReadInit PROVE ReadInv
  OBVIOUS
<1> USE ReadAssumption
<1>1. ReadTypeOK
  <2>1. lo \in 1..(MaxId + 1) /\ hi \in 0..MaxId /\ cursor \in 0..MaxId
    BY DEF ReadInit
  <2>2. inbox \in Seq(Messages)
    BY DEF ReadInit
  <2>3. QED
    BY <2>1, <2>2 DEF ReadInit, ReadTypeOK
<1>2. InboxHolds
  BY DEF ReadInit, InboxHolds, Fits, Unique
<1>3. SyncsHold
  BY DEF ReadInit, SyncsHold, Syncs
<1>4. QED
  BY <1>1, <1>2, <1>3 DEF ReadInit, ReadInv, RowsRetained, SeenIsThere

(* The queue of messages. *)

LEMMA AppendIsInbox ==
    ASSUME NEW q \in Seq(Messages), NEW m \in Messages
    PROVE  /\ Append(q, m) \in Seq(Messages)
           /\ Append(q, m) # <<>>
           /\ DOMAIN Append(q, m) = DOMAIN q \cup {Len(q) + 1}
           /\ \A n \in DOMAIN q : Append(q, m)[n] = q[n]
           /\ Append(q, m)[Len(q) + 1] = m
           /\ Len(q) + 1 \notin DOMAIN q
OBVIOUS

LEMMA TailIsInbox ==
    ASSUME NEW q \in Seq(Messages), q # <<>>
    PROVE  /\ Tail(q) \in Seq(Messages)
           /\ Head(q) = q[1] /\ 1 \in DOMAIN q /\ Head(q) \in Messages
           /\ \A n \in DOMAIN Tail(q) : n + 1 \in DOMAIN q /\ Tail(q)[n] = q[n + 1] /\ n + 1 # 1
           /\ \A n \in DOMAIN q : n # 1 => n - 1 \in DOMAIN Tail(q) /\ Tail(q)[n - 1] = q[n]
OBVIOUS

LEMMA AppendHolds ==
    ASSUME NEW q \in Seq(Messages), NEW m \in Messages, NEW syncs, NEW resyncs,
           Fits(q, syncs, resyncs), Unique(q),
           m.kind = "reset" => resyncs[m.by] = "reset",
           m.kind = "ingest" /\ m.by # NoSync => syncs[m.by] = "ingest",
           \A n \in DOMAIN q : ~Same(q[n], m)
    PROVE  Fits(Append(q, m), syncs, resyncs) /\ Unique(Append(q, m))
<1>1. Fits(Append(q, m), syncs, resyncs)
  BY AppendIsInbox DEF Fits
<1>2. \A n \in DOMAIN q : ~Same(m, q[n])
  BY DEF Same
<1>3. Unique(Append(q, m))
  BY <1>2, AppendIsInbox DEF Unique
<1>4. QED
  BY <1>1, <1>3

LEMMA TailHolds ==
    ASSUME NEW q \in Seq(Messages), q # <<>>, NEW syncs, NEW resyncs, Fits(q, syncs, resyncs), Unique(q)
    PROVE  /\ Fits(Tail(q), syncs, resyncs)
           /\ Unique(Tail(q))
           /\ \A n \in DOMAIN Tail(q) : ~Same(Tail(q)[n], Head(q))
<1>1. Fits(Tail(q), syncs, resyncs)
  BY TailIsInbox DEF Fits
<1>2. ASSUME NEW m \in DOMAIN Tail(q), NEW n \in DOMAIN Tail(q), Same(Tail(q)[m], Tail(q)[n]) PROVE m = n
  <2>1. m + 1 \in DOMAIN q /\ n + 1 \in DOMAIN q /\ Same(q[m + 1], q[n + 1])
    BY <1>2, TailIsInbox
  <2>2. m + 1 = n + 1
    BY <2>1 DEF Unique
  <2>3. m \in Nat /\ n \in Nat
    BY TailIsInbox
  <2>4. QED
    BY <2>2, <2>3
<1>3. ASSUME NEW n \in DOMAIN Tail(q), Same(Tail(q)[n], Head(q)) PROVE FALSE
  <2>1. n + 1 \in DOMAIN q /\ 1 \in DOMAIN q /\ Same(q[n + 1], q[1]) /\ n + 1 # 1
    BY <1>3, TailIsInbox
  <2>2. QED
    BY <2>1 DEF Unique
<1>4. QED
  BY <1>1, <1>2, <1>3 DEF Unique

LEMMA InRows ==
    ASSUME NEW q, NEW x
    PROVE  x \in RowsOf(q) <=> \E n \in DOMAIN q : q[n].kind = "ingest" /\ x \in q[n].rows
BY DEF RowsOf

LEMMA AppendRows ==
    ASSUME NEW q \in Seq(Messages), NEW m \in Messages
    PROVE  /\ RowsOf(q) \subseteq RowsOf(Append(q, m))
           /\ m.kind = "ingest" => m.rows \subseteq RowsOf(Append(q, m))
<1>1. ASSUME NEW x \in RowsOf(q) PROVE x \in RowsOf(Append(q, m))
  <2>1. PICK n \in DOMAIN q : q[n].kind = "ingest" /\ x \in q[n].rows
    BY InRows
  <2>2. n \in DOMAIN Append(q, m) /\ Append(q, m)[n] = q[n]
    BY AppendIsInbox
  <2>3. QED
    BY <2>1, <2>2, InRows
<1>2. ASSUME m.kind = "ingest", NEW x \in m.rows PROVE x \in RowsOf(Append(q, m))
  <2>1. Len(q) + 1 \in DOMAIN Append(q, m) /\ Append(q, m)[Len(q) + 1] = m
    BY AppendIsInbox
  <2>2. QED
    BY <1>2, <2>1, InRows
<1>3. QED
  BY <1>1, <1>2

LEMMA TailRows ==
    ASSUME NEW q \in Seq(Messages), q # <<>>
    PROVE  RowsOf(q) \subseteq RowsOf(Tail(q)) \cup (IF Head(q).kind = "ingest" THEN Head(q).rows ELSE {})
<1> SUFFICES ASSUME NEW n \in DOMAIN q, q[n].kind = "ingest", NEW x \in q[n].rows
             PROVE  x \in RowsOf(Tail(q)) \cup (IF Head(q).kind = "ingest" THEN Head(q).rows ELSE {})
  BY InRows
<1>1. CASE n = 1
  BY <1>1, TailIsInbox
<1>2. CASE n # 1
  <2>1. n - 1 \in DOMAIN Tail(q) /\ Tail(q)[n - 1] = q[n]
    BY <1>2, TailIsInbox
  <2>2. QED
    BY <2>1, InRows
<1>3. QED
  BY <1>1, <1>2

LEMMA MessageKinds ==
    /\ \A s \in Syncs \cup {NoSync} : \A R \in SUBSET (1..MaxId) :
         [kind |-> "ingest", rows |-> R, by |-> s] \in Messages
    /\ \A r \in Resyncs : [kind |-> "reset", by |-> r] \in Messages
    /\ [kind |-> "query"] \in Messages
    /\ \A m \in Messages :
         /\ m.kind = "ingest" => m.rows \subseteq 1..MaxId /\ m.by \in Syncs \cup {NoSync}
         /\ m.kind = "reset" => m.by \in Resyncs
         /\ m.kind \in {"ingest", "reset", "query"}
BY DEF Messages

LEMMA RetainedIsIds == ASSUME ReadTypeOK PROVE Retained \subseteq 1..MaxId
BY ReadAssumption DEF ReadTypeOK, Retained

-----------------------------------------------------------------------------
(* Types. *)

LEMMA SpawnTypes ==
    ASSUME ReadTypeOK, Spawned
    PROVE  /\ worker' \in {"up", "broken", "dead"}
           /\ model' \subseteq 1..MaxId
           /\ stale' \subseteq 1..MaxId
           /\ faults' \in 0..MaxFaults
<1>1. faults' \in 0..MaxFaults
  BY ReadAssumption DEF ReadTypeOK, Spawned, Fault
<1>2. worker' \in {"up", "broken", "dead"} /\ model' \subseteq 1..MaxId
  BY ReadAssumption DEF Spawned
<1>3. stale' \subseteq model'
  BY DEF Spawned
<1>4. QED
  BY <1>1, <1>2, <1>3

LEMMA PostTypes ==
    ASSUME ReadTypeOK, NEW m \in Messages, Post(m)
    PROVE  /\ inbox' = Append(inbox, m) /\ inbox' \in Seq(Messages)
           /\ worker' \in {"up", "broken", "dead"}
           /\ model' \subseteq 1..MaxId
           /\ stale' \subseteq 1..MaxId
           /\ faults' \in 0..MaxFaults
<1>1. inbox \in Seq(Messages)
  BY DEF ReadTypeOK
<1>2. inbox' = Append(inbox, m) /\ inbox' \in Seq(Messages)
  BY <1>1, AppendIsInbox DEF Post
<1>3. CASE worker = "none"
  BY <1>2, <1>3, SpawnTypes DEF Post
<1>4. CASE worker # "none"
  BY <1>2, <1>4 DEF Post, ReadTypeOK
<1>5. QED
  BY <1>3, <1>4

LEMMA ReadStepTypes == ASSUME ReadTypeOK, ReadNext PROVE ReadTypeOK'
<1> USE ReadAssumption
<1>0. Retained \subseteq 1..MaxId /\ inbox \in Seq(Messages)
  BY RetainedIsIds DEF ReadTypeOK
<1>1. CASE Append1
  BY <1>1 DEF Append1, ReadTypeOK, tableVars, syncVars, queryVars
<1>2. CASE Trimmed
  BY <1>2 DEF Trimmed, ReadTypeOK, tableVars, syncVars, queryVars
<1>3. CASE Pushes
  <2>1. PICK i \in NextEvent :
          /\ cursor' = i
          /\ IF worker # "none"
             THEN /\ inbox' = Append(inbox, [kind |-> "ingest", rows |-> {i}, by |-> NoSync])
                  /\ UNCHANGED missed
             ELSE /\ missed' \in {missed, missed \cup {i}}
                  /\ UNCHANGED inbox
    BY <1>3 DEF Pushes
  <2>2. i \in 1..MaxId
    BY DEF NextEvent, ReadTypeOK
  <2>3. [kind |-> "ingest", rows |-> {i}, by |-> NoSync] \in Messages
    BY <2>2, MessageKinds
  <2>4. inbox' \in Seq(Messages)
    BY <1>0, <2>1, <2>3, AppendIsInbox
  <2>5. missed' \subseteq 1..MaxId
    BY <2>1, <2>2 DEF ReadTypeOK
  <2>6. QED
    BY <1>3, <2>1, <2>2, <2>4, <2>5 DEF Pushes, ReadTypeOK, syncVars, queryVars
<1>4. CASE Asks
  <2>1. sync' \in [Syncs -> {"none", "read", "answered", "ingest", "done", "failed"}] /\ current' \in Syncs \cup {NoSync}
    BY <1>4 DEF Asks, ReadTypeOK, Syncs
  <2>2. owed' \subseteq 1..MaxId
    BY <1>0, <1>4 DEF Asks
  <2>3. QED
    BY <1>4, <2>1, <2>2 DEF Asks, ReadTypeOK, logVars, tableVars
<1>5. CASE PostsQuery
  <2>1. /\ inbox' \in Seq(Messages) /\ worker' \in {"up", "broken", "dead"}
        /\ model' \subseteq 1..MaxId /\ stale' \subseteq 1..MaxId /\ faults' \in 0..MaxFaults
    BY <1>5, PostTypes, MessageKinds DEF PostsQuery
  <2>2. QED
    BY <1>5, <2>1 DEF PostsQuery, ReadTypeOK, logVars, syncVars
<1>6. CASE Rejects \/ SpawnFails
  BY <1>6 DEF Rejects, SpawnFails, Fault, ReadTypeOK, logVars, tableVars, syncVars
<1>7. CASE Works
  <2>1. inbox # <<>> /\ inbox' = Tail(inbox) /\ inbox' \in Seq(Messages) /\ Head(inbox) \in Messages /\ UNCHANGED worker
    BY <1>0, <1>7, TailIsInbox DEF Works, Ingests, Resets, AnswersQuery, Takes
  <2>2. CASE Ingests
    <3>1. Head(inbox).rows \subseteq 1..MaxId /\ Head(inbox).by \in Syncs \cup {NoSync}
      BY <2>1, <2>2, MessageKinds DEF Ingests, Takes
    <3>2. model' \subseteq 1..MaxId /\ stale' \subseteq 1..MaxId
      BY <2>2, <3>1 DEF Ingests, ReadTypeOK
    <3>3. sync' \in [Syncs -> {"none", "read", "answered", "ingest", "done", "failed"}]
      BY <2>2, <3>1 DEF Ingests, ReadTypeOK
    <3>4. QED
      BY <2>1, <2>2, <3>2, <3>3 DEF Ingests, ReadTypeOK, logVars, queryVars
  <2>3. CASE Resets
    <3>1. Head(inbox).by \in Resyncs
      BY <2>1, <2>3, MessageKinds DEF Resets, Takes
    <3>2. model' \subseteq 1..MaxId /\ stale' \subseteq 1..MaxId
      BY <2>3 DEF Resets, ReadTypeOK
    <3>3. /\ sync' \in [Syncs -> {"none", "read", "answered", "ingest", "done", "failed"}]
          /\ resync' \in [Resyncs -> {"idle", "reset", "sync"}]
          /\ current' \in Syncs \cup {NoSync}
      BY <2>3, <3>1 DEF Resets, ReadTypeOK, Syncs
    <3>4. QED
      BY <2>1, <2>3, <3>2, <3>3 DEF Resets, ReadTypeOK, logVars, queryVars
  <2>4. CASE AnswersQuery
    BY <2>1, <2>4 DEF AnswersQuery, ReadTypeOK, logVars, syncVars
  <2>5. QED
    BY <1>7, <2>2, <2>3, <2>4 DEF Works
<1>8. ASSUME NEW s \in Syncs, Snapshot(s) PROVE ReadTypeOK'
  BY <1>0, <1>8 DEF Snapshot, ReadTypeOK, logVars, tableVars, queryVars
<1>9. ASSUME NEW s \in Syncs, BackfillFails(s) PROVE ReadTypeOK'
  BY <1>9 DEF BackfillFails, Fault, ReadTypeOK, logVars, tableVars, queryVars
<1>10. ASSUME NEW s \in Syncs, Backfilled(s) PROVE ReadTypeOK'
  <2>1. rows[s] \subseteq 1..MaxId /\ [kind |-> "ingest", rows |-> rows[s], by |-> s] \in Messages
    BY MessageKinds DEF ReadTypeOK
  <2>2. /\ inbox' \in Seq(Messages) /\ worker' \in {"none", "up", "broken", "dead"}
        /\ model' \subseteq 1..MaxId /\ stale' \subseteq 1..MaxId /\ faults' \in 0..MaxFaults
    <3>1. CASE rows[s] = {}
      BY <1>10, <3>1 DEF Backfilled, ReadTypeOK, tableVars
    <3>2. CASE rows[s] # {}
      BY <1>10, <2>1, <3>2, PostTypes DEF Backfilled
    <3>3. QED
      BY <3>1, <3>2
  <2>3. sync' \in [Syncs -> {"none", "read", "answered", "ingest", "done", "failed"}] /\ rows' \in [Syncs -> SUBSET (1..MaxId)]
    BY <1>10 DEF Backfilled, ReadTypeOK
  <2>4. QED
    BY <1>10, <2>2, <2>3 DEF Backfilled, ReadTypeOK, logVars, queryVars
<1>11. ASSUME NEW r \in Resyncs, HearsTrimmed(r) PROVE ReadTypeOK'
  <2>1. inbox' \in Seq(Messages)
    <3>1. [kind |-> "reset", by |-> r] \in Messages
      BY MessageKinds
    <3>2. inbox' \in {inbox, Append(inbox, [kind |-> "reset", by |-> r])}
      BY <1>11 DEF HearsTrimmed
    <3>3. QED
      BY <1>0, <3>1, <3>2, AppendIsInbox
  <2>2. resync' \in [Resyncs -> {"idle", "reset", "sync"}]
    BY <1>11 DEF HearsTrimmed, ReadTypeOK
  <2>3. QED
    BY <1>11, <2>1, <2>2 DEF HearsTrimmed, ReadTypeOK, queryVars
<1>12. ASSUME NEW r \in Resyncs, ResyncEnds(r) PROVE ReadTypeOK'
  BY <1>12 DEF ResyncEnds, ReadTypeOK, logVars, tableVars, queryVars
<1>13. QED
  BY <1>1, <1>2, <1>3, <1>4, <1>5, <1>6, <1>7, <1>8, <1>9, <1>10, <1>11, <1>12 DEF ReadNext, Backfills

-----------------------------------------------------------------------------
(* What is posted, and what is taken off the queue. *)

LEMMA PostIsPost ==
    ASSUME ReadTypeOK, NEW m \in Messages, Post(m)
    PROVE  /\ inbox' = Append(inbox, m)
           /\ worker # "none" => UNCHANGED <<worker, model, stale, faults>>
           /\ worker = "none" => Spawned
           /\ worker' # "none"
BY PostTypes DEF Post

LEMMA TakesHead ==
    ASSUME ReadTypeOK, InboxHolds, NEW kind, Takes(kind)
    PROVE  /\ inbox \in Seq(Messages) /\ inbox # <<>> /\ inbox' = Tail(inbox)
           /\ 1 \in DOMAIN inbox /\ Head(inbox) = inbox[1]
           /\ Head(inbox) \in Messages /\ Head(inbox).kind = kind
           /\ worker # "none" /\ worker' = worker
           /\ kind = "reset" => Head(inbox).by \in Resyncs /\ resync[Head(inbox).by] = "reset"
           /\ kind = "ingest" /\ Head(inbox).by # NoSync =>
                Head(inbox).by \in Syncs /\ sync[Head(inbox).by] = "ingest"
<1>1. inbox \in Seq(Messages) /\ inbox # <<>> /\ inbox' = Tail(inbox) /\ Head(inbox).kind = kind /\ worker' = worker
  BY DEF Takes, ReadTypeOK
<1>2. 1 \in DOMAIN inbox /\ Head(inbox) = inbox[1] /\ Head(inbox) \in Messages
  BY <1>1, TailIsInbox
<1>3. worker # "none"
  BY <1>1 DEF InboxHolds
<1>4. kind = "reset" => Head(inbox).by \in Resyncs /\ resync[Head(inbox).by] = "reset"
  BY <1>1, <1>2, MessageKinds DEF InboxHolds, Fits
<1>5. kind = "ingest" /\ Head(inbox).by # NoSync => Head(inbox).by \in Syncs /\ sync[Head(inbox).by] = "ingest"
  BY <1>1, <1>2, MessageKinds DEF InboxHolds, Fits
<1>6. QED
  BY <1>1, <1>2, <1>3, <1>4, <1>5

-----------------------------------------------------------------------------
(* The tab never runs ahead of the log. *)

LEMMA CursorStep == ASSUME ReadTypeOK, cursor <= hi, ReadNext PROVE (cursor <= hi)'
<1>1. CASE Append1
  BY <1>1 DEF Append1, ReadTypeOK
<1>2. CASE Pushes
  BY <1>2 DEF Pushes, NextEvent, ReadTypeOK
<1>3. CASE UNCHANGED <<cursor, hi>>
  BY <1>3
<1>4. QED
  BY <1>1, <1>2, <1>3 DEF ReadNext, Trimmed, Asks, PostsQuery, SpawnFails, Rejects, Works, Ingests, Resets, AnswersQuery, Backfills,
     Snapshot, BackfillFails, Backfilled, HearsTrimmed, ResyncEnds, logVars

-----------------------------------------------------------------------------
(* Where the syncs stand. *)

LEMMA SyncsStep == ASSUME ReadInv, ReadNext PROVE SyncsHold'
<1> USE ReadAssumption
<1>0. ReadTypeOK /\ InboxHolds /\ SyncsHold
  BY DEF ReadInv
<1>1. CASE UNCHANGED <<worker, model, syncVars>>
  BY <1>0, <1>1 DEF SyncsHold, syncVars, Syncs
<1>2. CASE Asks
  <2>1. CASE current = NoSync
    <3>1. sync' = [sync EXCEPT ![First] = "read"] /\ current' = First /\ sync[First] = "none"
      BY <1>0, <1>2, <2>1 DEF Asks, SyncsHold
    <3>2. UNCHANGED <<worker, model, rows, resync>>
      BY <1>2 DEF Asks, tableVars
    <3>3. \A r \in Resyncs : sync'[r] = sync[r] /\ sync[r] = "none"
      BY <1>0, <2>1, <3>1 DEF SyncsHold, ReadTypeOK, Syncs
    <3>4. sync'[First] = "read"
      BY <1>0, <3>1 DEF ReadTypeOK, Syncs
    <3>5. QED
      BY <1>0, <3>1, <3>2, <3>3, <3>4 DEF SyncsHold, Syncs
  <2>2. CASE current # NoSync
    BY <1>0, <1>2, <2>2 DEF Asks, SyncsHold, tableVars, Syncs
  <2>3. QED
    BY <2>1, <2>2
<1>3. CASE PostsQuery
  <2>1. worker' # "none" /\ UNCHANGED syncVars
    BY <1>0, <1>3, PostIsPost, MessageKinds DEF PostsQuery
  <2>2. QED
    BY <1>0, <2>1 DEF SyncsHold, syncVars
<1>4. CASE Ingests
  <2>1. worker' # "none" /\ UNCHANGED <<rows, current, resync>>
    BY <1>0, <1>4, TakesHead DEF Ingests
  <2>2. CASE Head(inbox).by = NoSync
    BY <1>0, <1>4, <2>1, <2>2 DEF Ingests, SyncsHold
  <2>3. CASE Head(inbox).by # NoSync
    <3> DEFINE s == Head(inbox).by
    <3>1. s \in Syncs /\ sync[s] = "ingest" /\ rows[s] = {}
      BY <1>0, <1>4, <2>3, TakesHead DEF Ingests, SyncsHold
    <3>2. PICK e \in {"done", "failed"} : sync' = [sync EXCEPT ![s] = e]
      BY <1>4, <2>3 DEF Ingests
    <3>3. \A t \in Syncs : sync'[t] = IF t = s THEN e ELSE sync[t]
      BY <1>0, <3>2 DEF ReadTypeOK
    <3> HIDE DEF s
    <3>4. QED
      BY <1>0, <2>1, <3>1, <3>3 DEF SyncsHold, Syncs
  <2>4. QED
    BY <2>2, <2>3
<1>5. CASE Resets
  <2> DEFINE r == Head(inbox).by
  <2>1. worker # "none" /\ worker' = worker /\ r \in Resyncs /\ resync[r] = "reset" /\ rows' = rows
    BY <1>0, <1>5, TakesHead DEF Resets
  <2>2. CASE worker = "up"
    <3>1. /\ sync' = [sync EXCEPT ![r] = "read"] /\ resync' = [resync EXCEPT ![r] = "sync"]
          /\ current' = r
      BY <1>5, <2>2 DEF Resets
    <3> HIDE DEF r
    <3>2. /\ \A t \in Syncs : sync'[t] = IF t = r THEN "read" ELSE sync[t]
          /\ \A t \in Resyncs : resync'[t] = IF t = r THEN "sync" ELSE resync[t]
      BY <1>0, <3>1 DEF ReadTypeOK
    <3>3. rows[r] = {}
      BY <1>0, <2>1 DEF SyncsHold, Syncs
    <3>4. QED
      BY <1>0, <2>1, <3>1, <3>2, <3>3 DEF SyncsHold, Syncs
  <2>3. CASE worker # "up"
    <3>1. resync' = [resync EXCEPT ![r] = "idle"] /\ UNCHANGED <<sync, current, model>>
      BY <1>5, <2>3 DEF Resets
    <3> HIDE DEF r
    <3>2. \A t \in Resyncs : resync'[t] = IF t = r THEN "idle" ELSE resync[t]
      BY <1>0, <3>1 DEF ReadTypeOK
    <3>3. QED
      BY <1>0, <2>1, <3>1, <3>2 DEF SyncsHold, Syncs
  <2>4. QED
    BY <2>2, <2>3
<1>6. ASSUME NEW s \in Syncs, Backfills(s) PROVE SyncsHold'
  <2>1. sync[s] \in {"read", "answered"}
    BY <1>6 DEF Backfills, Snapshot, BackfillFails, Backfilled
  <2>2. PICK e \in {"answered", "failed", "done", "ingest"} : sync' = [sync EXCEPT ![s] = e]
    BY <1>6 DEF Backfills, Snapshot, BackfillFails, Backfilled
  <2>3. \A t \in Syncs : sync'[t] = IF t = s THEN e ELSE sync[t]
    BY <1>0, <2>2 DEF ReadTypeOK
  <2>4. UNCHANGED <<current, resync>> /\ (worker # "none" => worker' # "none")
    <3>1. CASE Snapshot(s) \/ BackfillFails(s)
      BY <3>1 DEF Snapshot, BackfillFails, tableVars
    <3>2. CASE Backfilled(s)
      BY <1>0, <3>2 DEF Backfilled, Post, tableVars
    <3>3. QED
      BY <1>6, <3>1, <3>2 DEF Backfills
  <2>5. \A t \in Syncs : sync'[t] # "answered" => rows'[t] = {}
    <3>1. CASE Snapshot(s)
      BY <1>0, <2>3, <3>1 DEF Snapshot, ReadTypeOK, SyncsHold
    <3>2. CASE BackfillFails(s) \/ Backfilled(s)
      <4>1. rows' = [rows EXCEPT ![s] = {}]
        BY <3>2 DEF BackfillFails, Backfilled
      <4>2. QED
        BY <1>0, <2>3, <4>1 DEF ReadTypeOK, SyncsHold
    <3>3. QED
      BY <1>6, <3>1, <3>2 DEF Backfills
  <2>6. worker' = "none" => /\ model' = {}
                           /\ e # "ingest"
    <3>1. CASE Snapshot(s) \/ BackfillFails(s)
      BY <1>0, <2>3, <3>1 DEF Snapshot, BackfillFails, tableVars, SyncsHold, ReadTypeOK
    <3>2. CASE Backfilled(s)
      <4>1. CASE rows[s] = {}
        BY <1>0, <2>3, <3>2, <4>1 DEF Backfilled, tableVars, SyncsHold, ReadTypeOK
      <4>2. CASE rows[s] # {}
        <5>1. [kind |-> "ingest", rows |-> rows[s], by |-> s] \in Messages
          BY <1>0, MessageKinds DEF ReadTypeOK
        <5>2. QED
          BY <1>0, <3>2, <4>2, <5>1, PostIsPost DEF Backfilled
      <4>3. QED
        BY <4>1, <4>2
    <3>3. QED
      BY <1>6, <3>1, <3>2 DEF Backfills
  <2>7. \A r \in Resyncs : r \in Syncs
    BY DEF Syncs
  <2>8. First \in Syncs
    BY DEF Syncs
  <2>9. \A r \in Resyncs : resync'[r] # "sync" => sync'[r] \in {"none", "done", "failed"}
    BY <1>0, <2>1, <2>3, <2>4, <2>7 DEF SyncsHold
  <2>10. /\ \A r \in Resyncs : sync'[r] # "none" => current' \in Resyncs
         /\ sync'[First] # "none" => current' # NoSync
    BY <1>0, <2>1, <2>3, <2>4, <2>7, <2>8 DEF SyncsHold
  <2>11. /\ worker' = "none" => \A t \in Syncs : sync'[t] # "ingest"
         /\ \A r \in Resyncs : resync'[r] # "idle" => worker' # "none"
         /\ current' \in Resyncs => worker' # "none"
    BY <1>0, <2>3, <2>4, <2>6 DEF SyncsHold
  <2>12. QED
    BY <2>5, <2>6, <2>9, <2>10, <2>11 DEF SyncsHold
<1>7. ASSUME NEW r \in Resyncs, HearsTrimmed(r) PROVE SyncsHold'
  <2>1. UNCHANGED <<worker, model, sync, rows, current>>
    BY <1>7 DEF HearsTrimmed
  <2>2. CASE worker = "none"
    BY <1>0, <1>7, <2>1, <2>2 DEF HearsTrimmed, SyncsHold
  <2>3. CASE worker # "none"
    <3>1. resync' = [resync EXCEPT ![r] = "reset"] /\ resync[r] = "idle"
      BY <1>7, <2>3 DEF HearsTrimmed
    <3>2. \A t \in Resyncs : resync'[t] = IF t = r THEN "reset" ELSE resync[t]
      BY <1>0, <3>1 DEF ReadTypeOK
    <3>3. QED
      BY <1>0, <2>1, <2>3, <3>1, <3>2 DEF SyncsHold
  <2>4. QED
    BY <2>2, <2>3
<1>8. ASSUME NEW r \in Resyncs, ResyncEnds(r) PROVE SyncsHold'
  <2>1. /\ UNCHANGED <<worker, model, sync, rows, current>>
        /\ resync' = [resync EXCEPT ![r] = "idle"]
        /\ sync[r] \in {"done", "failed"} /\ resync[r] = "sync"
    BY <1>8 DEF ResyncEnds, tableVars
  <2>2. \A t \in Resyncs : resync'[t] = IF t = r THEN "idle" ELSE resync[t]
    BY <1>0, <2>1 DEF ReadTypeOK
  <2>3. QED
    BY <1>0, <2>1, <2>2 DEF SyncsHold
<1>9. CASE Append1 \/ Trimmed \/ Pushes \/ Rejects \/ SpawnFails
  <2>1. UNCHANGED <<worker, model, syncVars>>
    BY <1>9 DEF Append1, Trimmed, Pushes, Rejects, SpawnFails, tableVars
  <2>2. QED
    BY <1>1, <2>1
<1>10. CASE AnswersQuery
  BY <1>1, <1>10 DEF AnswersQuery, Takes
<1>11. QED
  BY <1>2, <1>3, <1>4, <1>5, <1>6, <1>7, <1>8, <1>9, <1>10 DEF ReadNext, Works

-----------------------------------------------------------------------------
(* The queue and those who wait for its messages. *)

LEMMA InboxStep == ASSUME ReadInv, ReadNext PROVE InboxHolds'
<1> USE ReadAssumption
<1>0. ReadTypeOK /\ InboxHolds /\ SyncsHold /\ inbox \in Seq(Messages)
  BY DEF ReadInv, ReadTypeOK
<1>1. CASE UNCHANGED <<worker, inbox, sync, resync>>
  BY <1>0, <1>1 DEF InboxHolds
<1>2. ASSUME NEW m \in Messages, inbox' = Append(inbox, m), worker' # "none",
             m.kind = "reset" => resync'[m.by] = "reset",
             m.kind = "ingest" /\ m.by # NoSync => sync'[m.by] = "ingest",
             \A n \in DOMAIN inbox : ~Same(inbox[n], m),
             Fits(inbox, sync', resync')
      PROVE  InboxHolds'
  <2>1. Fits(Append(inbox, m), sync', resync') /\ Unique(Append(inbox, m))
    <3> DEFINE ss == sync' rr == resync'
    <3>1. /\ Fits(inbox, ss, rr) /\ Unique(inbox)
          /\ m.kind = "reset" => rr[m.by] = "reset"
          /\ m.kind = "ingest" /\ m.by # NoSync => ss[m.by] = "ingest"
          /\ \A n \in DOMAIN inbox : ~Same(inbox[n], m)
      BY <1>0, <1>2 DEF InboxHolds
    <3> HIDE DEF ss, rr
    <3>2. Fits(Append(inbox, m), ss, rr) /\ Unique(Append(inbox, m))
      BY <1>0, <3>1, AppendHolds
    <3>3. QED
      BY <3>2 DEF ss, rr
  <2>2. QED
    BY <1>2, <2>1 DEF InboxHolds
<1>3. CASE Pushes
  <2>1. PICK i \in NextEvent :
          IF worker # "none"
          THEN inbox' = Append(inbox, [kind |-> "ingest", rows |-> {i}, by |-> NoSync])
          ELSE UNCHANGED inbox
    BY <1>3 DEF Pushes
  <2>2. UNCHANGED <<worker, sync, resync>>
    BY <1>3 DEF Pushes, syncVars
  <2>3. CASE worker = "none"
    BY <1>1, <2>1, <2>2, <2>3
  <2>4. CASE worker # "none"
    <3> DEFINE m == [kind |-> "ingest", rows |-> {i}, by |-> NoSync]
    <3>1. m \in Messages
      <4>1. {i} \in SUBSET (1..MaxId)
        BY <1>0 DEF NextEvent, ReadTypeOK
      <4>2. QED
        BY <4>1, MessageKinds
    <3>2. m.kind = "ingest" /\ m.by = NoSync
      OBVIOUS
    <3>3. inbox' = Append(inbox, m)
      BY <2>1, <2>4
    <3> HIDE DEF m
    <3>4. \A n \in DOMAIN inbox : ~Same(inbox[n], m)
      BY <3>2 DEF Same
    <3>5. Fits(inbox, sync', resync')
      BY <1>0, <2>2 DEF InboxHolds
    <3>6. QED
      BY <1>2, <2>2, <2>4, <3>1, <3>2, <3>3, <3>4, <3>5
  <2>5. QED
    BY <2>3, <2>4
<1>4. CASE Asks
  <2>1. UNCHANGED <<worker, inbox, resync>>
    BY <1>4 DEF Asks, tableVars
  <2>2. CASE current = NoSync
    <3>1. sync' = [sync EXCEPT ![First] = "read"] /\ sync[First] = "none"
      BY <1>0, <1>4, <2>2 DEF Asks, SyncsHold
    <3>2. \A s \in Syncs : sync[s] = "ingest" => sync'[s] = "ingest"
      BY <1>0, <3>1 DEF ReadTypeOK
    <3>3. \A n \in DOMAIN inbox : inbox[n].kind = "ingest" /\ inbox[n].by # NoSync => inbox[n].by \in Syncs
      BY <1>0, MessageKinds
    <3>4. QED
      BY <1>0, <2>1, <3>2, <3>3 DEF InboxHolds, Fits
  <2>3. CASE current # NoSync
    BY <1>1, <1>4, <2>1, <2>3 DEF Asks
  <2>4. QED
    BY <2>2, <2>3
<1>5. CASE PostsQuery
  <2> DEFINE m == [kind |-> "query"]
  <2>1. m \in Messages /\ m.kind = "query" /\ inbox' = Append(inbox, m) /\ worker' # "none" /\ UNCHANGED <<sync, resync>>
    BY <1>0, <1>5, PostIsPost, MessageKinds DEF PostsQuery, syncVars
  <2> HIDE DEF m
  <2>2. (\A n \in DOMAIN inbox : ~Same(inbox[n], m)) /\ Fits(inbox, sync', resync')
    BY <1>0, <2>1 DEF Same, InboxHolds
  <2>3. QED
    BY <1>2, <2>1, <2>2
<1>6. ASSUME Works PROVE /\ inbox' = Tail(inbox) /\ worker' # "none"
                         /\ Fits(Tail(inbox), sync, resync) /\ Unique(Tail(inbox))
                         /\ \A n \in DOMAIN Tail(inbox) : ~Same(Tail(inbox)[n], Head(inbox))
                         /\ \A n \in DOMAIN Tail(inbox) : Tail(inbox)[n] \in Messages
  <2>1. PICK kind \in {"ingest", "reset", "query"} : Takes(kind)
    BY <1>6 DEF Works, Ingests, Resets, AnswersQuery
  <2>2. inbox # <<>> /\ inbox' = Tail(inbox) /\ worker' # "none" /\ Tail(inbox) \in Seq(Messages)
    BY <1>0, <2>1, TakesHead, TailIsInbox
  <2>3. QED
    BY <1>0, <2>2, TailHolds DEF InboxHolds
<1>7. CASE Ingests
  <2>1. UNCHANGED resync
    BY <1>7 DEF Ingests
  <2>2. CASE Head(inbox).by = NoSync
    BY <1>6, <1>7, <2>1, <2>2 DEF Works, Ingests, InboxHolds
  <2>3. CASE Head(inbox).by # NoSync
    <3> DEFINE s == Head(inbox).by
    <3>1. s \in Syncs /\ Head(inbox).kind = "ingest"
      BY <1>0, <1>7, <2>3, TakesHead DEF Ingests
    <3>2. \A t \in Syncs : t # s => sync'[t] = sync[t]
      BY <1>0, <1>7, <2>3 DEF Ingests, ReadTypeOK
    <3>3. \A n \in DOMAIN Tail(inbox) :
            /\ Tail(inbox)[n].kind = "ingest" => Tail(inbox)[n].by # s
            /\ Tail(inbox)[n].kind = "ingest" /\ Tail(inbox)[n].by # NoSync => Tail(inbox)[n].by \in Syncs
      BY <1>6, <1>7, <2>3, <3>1, MessageKinds DEF Works, Same
    <3> HIDE DEF s
    <3>4. Fits(Tail(inbox), sync', resync')
      BY <1>6, <1>7, <2>1, <3>2, <3>3 DEF Works, Fits
    <3>5. QED
      BY <1>6, <1>7, <3>4 DEF Works, InboxHolds
  <2>4. QED
    BY <2>2, <2>3
<1>8. CASE Resets
  <2> DEFINE r == Head(inbox).by
  <2>1. r \in Resyncs /\ resync[r] = "reset" /\ Head(inbox).kind = "reset" /\ sync[r] # "ingest" /\ r # NoSync
    BY <1>0, <1>8, TakesHead DEF Resets, SyncsHold
  <2>2. (\A t \in Resyncs : t # r => resync'[t] = resync[t]) /\ (\A t \in Syncs : t # r => sync'[t] = sync[t])
    BY <1>0, <1>8 DEF Resets, ReadTypeOK
  <2>3. \A n \in DOMAIN Tail(inbox) :
          /\ Tail(inbox)[n].kind = "reset" => Tail(inbox)[n].by # r /\ Tail(inbox)[n].by \in Resyncs
          /\ Tail(inbox)[n].kind = "ingest" /\ Tail(inbox)[n].by # NoSync => Tail(inbox)[n].by \in Syncs
    BY <1>6, <1>8, <2>1, MessageKinds DEF Works, Same
  <2> HIDE DEF r
  <2>4. Fits(Tail(inbox), sync', resync')
    BY <1>6, <1>8, <2>1, <2>2, <2>3 DEF Works, Fits
  <2>5. QED
    BY <1>6, <1>8, <2>4 DEF Works, InboxHolds
<1>9. CASE AnswersQuery
  BY <1>6, <1>9 DEF Works, AnswersQuery, InboxHolds, syncVars
<1>10. ASSUME NEW s \in Syncs, Backfills(s) PROVE InboxHolds'
  <2>1. UNCHANGED resync /\ sync[s] # "ingest" /\ (\A t \in Syncs : t # s => sync'[t] = sync[t])
    BY <1>0, <1>10 DEF Backfills, Snapshot, BackfillFails, Backfilled, ReadTypeOK
  <2>2. \A n \in DOMAIN inbox :
          /\ inbox[n].kind = "ingest" => inbox[n].by # s
          /\ inbox[n].kind = "ingest" /\ inbox[n].by # NoSync => inbox[n].by \in Syncs
    <3>1. s # NoSync
      BY DEF Syncs
    <3>2. QED
      BY <1>0, <2>1, <3>1, MessageKinds DEF InboxHolds, Fits
  <2>3. Fits(inbox, sync', resync')
    BY <1>0, <2>1, <2>2 DEF InboxHolds, Fits
  <2>4. CASE UNCHANGED tableVars
    BY <1>0, <2>3, <2>4 DEF InboxHolds, tableVars
  <2>5. CASE Backfilled(s) /\ rows[s] # {}
    <3> DEFINE m == [kind |-> "ingest", rows |-> rows[s], by |-> s]
    <3>1. m \in Messages
      BY <1>0, MessageKinds DEF ReadTypeOK
    <3>2. inbox' = Append(inbox, m) /\ worker' # "none" /\ sync'[s] = "ingest"
      BY <1>0, <2>5, <3>1, PostIsPost DEF Backfilled, ReadTypeOK
    <3>3. m.kind = "ingest" /\ m.by = s
      OBVIOUS
    <3> HIDE DEF m
    <3>4. \A n \in DOMAIN inbox : ~Same(inbox[n], m)
      BY <2>2, <3>3 DEF Same
    <3>5. QED
      BY <1>2, <2>3, <3>1, <3>2, <3>3, <3>4
  <2>6. QED
    BY <1>10, <2>4, <2>5 DEF Backfills, Snapshot, BackfillFails, Backfilled
<1>11. ASSUME NEW r \in Resyncs, HearsTrimmed(r) PROVE InboxHolds'
  <2>1. UNCHANGED <<worker, sync>>
    BY <1>11 DEF HearsTrimmed
  <2>2. CASE worker = "none"
    BY <1>1, <1>11, <2>1, <2>2 DEF HearsTrimmed
  <2>3. CASE worker # "none"
    <3> DEFINE m == [kind |-> "reset", by |-> r]
    <3>1. m \in Messages
      BY MessageKinds
    <3>2. inbox' = Append(inbox, m) /\ resync[r] = "idle" /\ resync' = [resync EXCEPT ![r] = "reset"]
      BY <1>11, <2>3 DEF HearsTrimmed
    <3>3. m.kind = "reset" /\ m.by = r
      OBVIOUS
    <3> HIDE DEF m
    <3>4. \A t \in Resyncs : resync'[t] = IF t = r THEN "reset" ELSE resync[t]
      BY <1>0, <3>2 DEF ReadTypeOK
    <3>5. \A n \in DOMAIN inbox : inbox[n].kind = "reset" => inbox[n].by # r /\ inbox[n].by \in Resyncs
      BY <1>0, <3>2, MessageKinds DEF InboxHolds, Fits
    <3>6. \A n \in DOMAIN inbox : ~Same(inbox[n], m)
      BY <3>3, <3>5 DEF Same
    <3>7. Fits(inbox, sync', resync')
      BY <1>0, <2>1, <3>4, <3>5 DEF InboxHolds, Fits
    <3>8. QED
      BY <1>2, <2>1, <2>3, <3>1, <3>2, <3>3, <3>4, <3>6, <3>7
  <2>4. QED
    BY <2>2, <2>3
<1>12. ASSUME NEW r \in Resyncs, ResyncEnds(r) PROVE InboxHolds'
  <2>1. UNCHANGED <<worker, inbox, sync>> /\ resync[r] = "sync" /\ (\A t \in Resyncs : t # r => resync'[t] = resync[t])
    BY <1>0, <1>12 DEF ResyncEnds, ReadTypeOK, tableVars
  <2>2. \A n \in DOMAIN inbox : inbox[n].kind = "reset" => inbox[n].by \in Resyncs /\ inbox[n].by # r
    BY <1>0, <2>1, MessageKinds DEF InboxHolds, Fits
  <2>3. QED
    BY <1>0, <2>1, <2>2 DEF InboxHolds, Fits
<1>13. CASE Append1 \/ Trimmed \/ Rejects \/ SpawnFails
  <2>1. UNCHANGED <<worker, inbox, sync, resync>>
    BY <1>13 DEF Append1, Trimmed, Rejects, SpawnFails, tableVars, syncVars
  <2>2. QED
    BY <1>1, <2>1
<1>14. QED
  BY <1>3, <1>4, <1>5, <1>7, <1>8, <1>9, <1>10, <1>11, <1>12, <1>13 DEF ReadNext, Works

-----------------------------------------------------------------------------
(* What the table has no longer. *)

\* A step that asks or ends no reset does not begin to satisfy ~Resetting.
LEMMA ResyncEndsNoReset ==
    ASSUME ReadTypeOK, NEW r \in Resyncs, ResyncEnds(r), ~Resetting'
    PROVE  ~Resetting
<1>1. resync[r] = "sync" /\ \A t \in Resyncs : t # r => resync'[t] = resync[t]
  BY DEF ResyncEnds, ReadTypeOK
<1>2. QED
  BY <1>1 DEF Resetting

\* A notice the worker is told of leaves a reset behind.
LEMMA HeardIsResetting ==
    ASSUME ReadTypeOK, NEW r \in Resyncs, HearsTrimmed(r), worker # "none"
    PROVE  Resetting'
BY DEF HearsTrimmed, ReadTypeOK, Resetting

LEMMA RowsStep == ASSUME ReadInv, ReadNext PROVE RowsRetained'
<1> USE ReadAssumption
<1>0. ReadTypeOK /\ InboxHolds /\ RowsRetained
  BY DEF ReadInv
<1>1. CASE UNCHANGED <<worker, model, stale, lo, hi, notices, resync>>
  BY <1>0, <1>1 DEF RowsRetained, Retained, Resetting
<1>2. CASE Append1
  <2>1. Retained \subseteq Retained'
    BY <1>0, <1>2 DEF Append1, ReadTypeOK, Retained
  <2>2. QED
    BY <1>0, <1>2, <2>1 DEF Append1, RowsRetained, Resetting, tableVars, syncVars
<1>3. CASE Trimmed
  BY <1>0, <1>3 DEF Trimmed, ReadTypeOK, RowsRetained
<1>4. ASSUME NEW m \in Messages, Post(m), UNCHANGED <<lo, hi, notices, resync>> PROVE RowsRetained'
  <2>1. CASE worker = "none"
    BY <1>0, <1>4, <2>1, PostIsPost DEF Spawned, RowsRetained, Retained
  <2>2. CASE worker # "none"
    BY <1>0, <1>1, <1>4, <2>2, PostIsPost
  <2>3. QED
    BY <2>1, <2>2
<1>5. CASE PostsQuery
  BY <1>4, <1>5, MessageKinds DEF PostsQuery, logVars, syncVars
<1>6. CASE Ingests
  BY <1>0, <1>6, TakesHead DEF Ingests, RowsRetained, Retained, Resetting, logVars
<1>7. CASE Resets
  BY <1>0, <1>7, TakesHead DEF Resets, RowsRetained
<1>8. ASSUME NEW s \in Syncs, Backfills(s) PROVE RowsRetained'
  <2>1. CASE Backfilled(s) /\ rows[s] # {}
    <3>1. [kind |-> "ingest", rows |-> rows[s], by |-> s] \in Messages
      BY <1>0, MessageKinds DEF ReadTypeOK
    <3>2. QED
      BY <1>4, <2>1, <3>1 DEF Backfilled, logVars
  <2>2. CASE ~(Backfilled(s) /\ rows[s] # {})
    BY <1>1, <1>8, <2>2 DEF Backfills, Snapshot, BackfillFails, Backfilled, logVars, tableVars
  <2>3. QED
    BY <2>1, <2>2
<1>9. ASSUME NEW r \in Resyncs, HearsTrimmed(r) PROVE RowsRetained'
  <2>1. CASE worker = "none"
    BY <1>9, <2>1 DEF HearsTrimmed, RowsRetained
  <2>2. CASE worker # "none"
    BY <1>0, <1>9, <2>2, HeardIsResetting DEF RowsRetained
  <2>3. QED
    BY <2>1, <2>2
<1>10. ASSUME NEW r \in Resyncs, ResyncEnds(r) PROVE RowsRetained'
  <2>1. UNCHANGED <<worker, model, stale, lo, hi, notices>>
    BY <1>10 DEF ResyncEnds, logVars, tableVars
  <2>2. QED
    BY <1>0, <1>10, <2>1, ResyncEndsNoReset DEF RowsRetained, Retained
<1>11. CASE Pushes \/ Asks \/ SpawnFails \/ Rejects \/ AnswersQuery
  <2>1. UNCHANGED <<worker, model, stale, lo, hi, notices, resync>>
    BY <1>11 DEF Pushes, Asks, SpawnFails, Rejects, AnswersQuery, Takes, logVars, tableVars, syncVars
  <2>2. QED
    BY <1>1, <2>1
<1>12. QED
  BY <1>2, <1>3, <1>5, <1>6, <1>7, <1>8, <1>9, <1>10, <1>11 DEF ReadNext, Works

-----------------------------------------------------------------------------
(* What the table has, or will have. *)

\* The condition under which the current sync is owed to what the tab saw,
\* and all the places an event may be in.
Owing == /\ worker \notin {"broken", "dead"}
         /\ ~Resetting
         /\ current # NoSync
         /\ sync[current] \in {"answered", "ingest", "done"}

Places == model \cup RowsOf(inbox) \cup rows[current] \cup (IF current = First THEN missed ELSE {})

LEMMA SeenStep == ASSUME ReadInv, ReadNext PROVE SeenIsThere'
<1> USE ReadAssumption
<1>0. /\ ReadTypeOK /\ InboxHolds /\ SyncsHold /\ cursor <= hi
      /\ inbox \in Seq(Messages) /\ current \in Syncs \cup {NoSync}
      /\ Owing => Seen \subseteq Places
  BY DEF ReadInv, ReadTypeOK, SeenIsThere, Owing, Places
<1> SUFFICES ASSUME Owing' PROVE Seen' \subseteq Places'
  BY DEF SeenIsThere, Owing, Places
<1>1. ASSUME Owing, Seen' \subseteq Seen, Places \subseteq Places' PROVE Seen' \subseteq Places'
  BY <1>0, <1>1
<1>2. CASE UNCHANGED <<worker, model, inbox, sync, rows, current, resync, missed>> /\ Seen' \subseteq Seen
  <2>1. Owing /\ Places' = Places
    BY <1>2 DEF Owing, Resetting, Places, RowsOf
  <2>2. QED
    BY <1>1, <1>2, <2>1
<1>3. CASE Append1
  <2>1. Seen' \subseteq Seen
    BY <1>0, <1>3 DEF Append1, Seen, Retained, ReadTypeOK
  <2>2. QED
    BY <1>2, <1>3, <2>1 DEF Append1, tableVars, syncVars
<1>4. CASE Trimmed
  <2>1. Seen' \subseteq Seen
    BY <1>0, <1>4 DEF Trimmed, Seen, Retained, ReadTypeOK
  <2>2. QED
    BY <1>2, <1>4, <2>1 DEF Trimmed, tableVars, syncVars
<1>5. CASE Pushes
  <2>1. PICK i \in NextEvent :
          /\ cursor' = i
          /\ IF worker # "none"
             THEN /\ inbox' = Append(inbox, [kind |-> "ingest", rows |-> {i}, by |-> NoSync])
                  /\ UNCHANGED missed
             ELSE /\ missed' = IF \E s \in Syncs : sync[s] \in {"answered", "done"}
                               THEN missed \cup {i} ELSE missed
                  /\ UNCHANGED inbox
    BY <1>5 DEF Pushes
  <2>2. UNCHANGED <<lo, hi, worker, model, sync, rows, current, resync>>
    BY <1>5 DEF Pushes, syncVars
  <2>3. Owing
    BY <2>2 DEF Owing, Resetting
  <2>4. Seen' \subseteq Seen \cup {i}
    BY <1>0, <2>1, <2>2 DEF Seen, Retained, NextEvent, ReadTypeOK
  <2>5. CASE worker # "none"
    <3> DEFINE m == [kind |-> "ingest", rows |-> {i}, by |-> NoSync]
    <3>1. m \in Messages
      <4>1. {i} \in SUBSET (1..MaxId)
        BY <1>0 DEF NextEvent, ReadTypeOK
      <4>2. QED
        BY <4>1, MessageKinds
    <3>2. m.kind = "ingest" /\ m.rows = {i}
      OBVIOUS
    <3>3. inbox' = Append(inbox, m) /\ missed' = missed
      BY <2>1, <2>5
    <3> HIDE DEF m
    <3>4. RowsOf(inbox) \subseteq RowsOf(inbox') /\ i \in RowsOf(inbox')
      BY <1>0, <3>1, <3>2, <3>3, AppendRows
    <3>5. Places' = model \cup RowsOf(inbox') \cup rows[current] \cup (IF current = First THEN missed ELSE {})
      BY <2>2, <3>3 DEF Places, RowsOf
    <3>6. QED
      BY <1>0, <2>3, <2>4, <3>4, <3>5 DEF Places
  <2>6. CASE worker = "none"
    <3>1. current \in Syncs /\ current \notin Resyncs /\ sync[current] # "ingest"
      BY <1>0, <2>3, <2>6 DEF SyncsHold, Owing
    <3>2. current = First /\ sync[current] \in {"answered", "done"}
      BY <2>3, <3>1 DEF Owing, Syncs
    <3>3. missed' = missed \cup {i} /\ inbox' = inbox
      BY <2>1, <2>6, <3>1, <3>2
    <3>4. Places' = Places \cup {i}
      BY <2>2, <3>2, <3>3 DEF Places, RowsOf
    <3>5. QED
      BY <1>0, <2>3, <2>4, <3>4
  <2>7. QED
    BY <2>5, <2>6
<1>6. CASE Asks
  <2>1. UNCHANGED <<worker, model, inbox, rows, resync, missed>> /\ Seen' = Seen
    BY <1>6 DEF Asks, Seen, Retained, logVars, tableVars
  <2>2. CASE current = NoSync
    <3>1. sync'[current'] = "read"
      BY <1>0, <1>6, <2>2 DEF Asks, ReadTypeOK, Syncs
    <3>2. QED
      BY <3>1 DEF Owing
  <2>3. CASE current # NoSync
    BY <1>2, <1>6, <2>1, <2>3 DEF Asks
  <2>4. QED
    BY <2>2, <2>3
<1>7. CASE Rejects \/ SpawnFails
  BY <1>2, <1>7 DEF Rejects, SpawnFails, Seen, Retained, logVars, tableVars, syncVars
<1>8. ASSUME NEW m \in Messages, Post(m)
      PROVE  model \subseteq model' /\ RowsOf(inbox) \subseteq RowsOf(inbox') /\ worker \notin {"broken", "dead"}
             /\ (m.kind = "ingest" => m.rows \subseteq RowsOf(inbox'))
  <2>1. model \subseteq model' /\ worker \notin {"broken", "dead"}
    <3>1. CASE worker = "none"
      BY <1>0, <3>1 DEF SyncsHold
    <3>2. CASE worker # "none"
      BY <1>0, <1>8, <3>2, PostIsPost DEF Owing
    <3>3. QED
      BY <3>1, <3>2
  <2>2. inbox' = Append(inbox, m)
    BY <1>0, <1>8, PostIsPost
  <2>3. QED
    BY <1>0, <2>1, <2>2, AppendRows
<1>9. CASE PostsQuery
  <2>1. model \subseteq model' /\ RowsOf(inbox) \subseteq RowsOf(inbox') /\ worker \notin {"broken", "dead"}
    BY <1>8, <1>9, MessageKinds DEF PostsQuery
  <2>2. UNCHANGED <<sync, rows, current, resync, missed>> /\ Seen' = Seen
    BY <1>9 DEF PostsQuery, Seen, Retained, logVars, syncVars
  <2>3. Owing
    BY <2>1, <2>2 DEF Owing, Resetting
  <2>4. Places \subseteq Places'
    BY <2>1, <2>2 DEF Places, RowsOf
  <2>5. QED
    BY <1>1, <2>2, <2>3, <2>4
<1>10. CASE Ingests
  <2>1. /\ inbox # <<>> /\ inbox' = Tail(inbox) /\ worker # "none" /\ worker' = worker /\ Head(inbox).kind = "ingest"
        /\ Head(inbox).by # NoSync => Head(inbox).by \in Syncs /\ sync[Head(inbox).by] = "ingest"
    BY <1>0, <1>10, TakesHead DEF Ingests
  <2>2. UNCHANGED <<rows, current, resync, missed>> /\ Seen' = Seen
    BY <1>10 DEF Ingests, Seen, Retained, logVars
  <2>3. worker = "up"
    BY <1>0, <2>1 DEF Owing, ReadTypeOK
  <2>4. model' = model \cup Head(inbox).rows
    BY <1>10, <2>3 DEF Ingests
  <2>5. \A t \in Syncs : sync'[t] = sync[t] \/ sync[t] = "ingest"
    BY <1>0, <1>10, <2>1 DEF Ingests, ReadTypeOK
  <2>6. current \in Syncs /\ ~Resetting
    BY <1>0, <2>2 DEF Owing, Resetting
  <2>7. Owing
    BY <2>2, <2>3, <2>5, <2>6 DEF Owing
  <2>8. RowsOf(inbox) \subseteq RowsOf(inbox') \cup Head(inbox).rows
    BY <1>0, <2>1, TailRows
  <2>9. Places \subseteq Places'
    BY <2>2, <2>4, <2>8 DEF Places, RowsOf
  <2>10. QED
    BY <1>1, <2>2, <2>7, <2>9
<1>11. CASE Resets
  <2>1. worker = "up" /\ Head(inbox).by \in Resyncs
    BY <1>0, <1>11, TakesHead DEF Resets, Owing, ReadTypeOK
  <2>2. sync'[current'] = "read"
    BY <1>0, <1>11, <2>1 DEF Resets, ReadTypeOK, Syncs
  <2>3. QED
    BY <2>2 DEF Owing
<1>12. CASE AnswersQuery
  <2>1. inbox # <<>> /\ inbox' = Tail(inbox) /\ Head(inbox).kind = "query"
    BY <1>0, <1>12, TakesHead DEF AnswersQuery
  <2>2. UNCHANGED <<worker, model, sync, rows, current, resync, missed>> /\ Seen' = Seen
    BY <1>12 DEF AnswersQuery, Takes, Seen, Retained, logVars, syncVars
  <2>3. RowsOf(inbox) \subseteq RowsOf(inbox')
    BY <1>0, <2>1, TailRows
  <2>4. Owing
    BY <2>2 DEF Owing, Resetting
  <2>5. Places \subseteq Places'
    BY <2>2, <2>3 DEF Places, RowsOf
  <2>6. QED
    BY <1>1, <2>2, <2>4, <2>5
<1>13. ASSUME NEW s \in Syncs, Snapshot(s) PROVE Seen' \subseteq Places'
  <2>1. /\ UNCHANGED <<worker, model, inbox, current, resync>> /\ Seen' = Seen
        /\ sync[s] = "read" /\ sync' = [sync EXCEPT ![s] = "answered"]
        /\ rows' = [rows EXCEPT ![s] = Retained]
        /\ missed' = missed \ Retained
    BY <1>13 DEF Snapshot, Seen, Retained, logVars, tableVars
  <2>2. current \in Syncs
    BY <1>0, <2>1 DEF Owing
  <2>3. CASE s = current
    <3>1. rows'[current'] = Retained
      BY <1>0, <2>1, <2>3 DEF ReadTypeOK
    <3>2. QED
      BY <2>1, <3>1 DEF Places, Seen
  <2>4. CASE s # current
    <3>1. sync'[current'] = sync[current] /\ rows'[current'] = rows[current]
      BY <1>0, <2>1, <2>2, <2>4 DEF ReadTypeOK
    <3>2. Owing
      BY <2>1, <3>1 DEF Owing, Resetting
    <3>3. current # First
      <4>1. s \in Resyncs => current \in Resyncs
        BY <1>0, <2>1 DEF SyncsHold
      <4>2. QED
        BY <2>4, <4>1 DEF Syncs
    <3>4. Places \subseteq Places'
      BY <2>1, <3>1, <3>3 DEF Places, RowsOf
    <3>5. QED
      BY <1>1, <2>1, <3>2, <3>4
  <2>5. QED
    BY <2>3, <2>4
<1>14. ASSUME NEW s \in Syncs, BackfillFails(s) PROVE Seen' \subseteq Places'
  <2>1. /\ UNCHANGED <<worker, model, inbox, current, resync, missed>> /\ Seen' = Seen
        /\ sync' = [sync EXCEPT ![s] = "failed"] /\ rows' = [rows EXCEPT ![s] = {}]
    BY <1>14 DEF BackfillFails, Seen, Retained, logVars, tableVars
  <2>2. current \in Syncs
    BY <1>0, <2>1 DEF Owing
  <2>3. sync'[s] = "failed"
    BY <1>0, <2>1 DEF ReadTypeOK
  <2>4. s # current
    BY <2>1, <2>3 DEF Owing
  <2>5. sync'[current'] = sync[current] /\ rows'[current'] = rows[current]
    BY <1>0, <2>1, <2>2, <2>4 DEF ReadTypeOK
  <2>6. Owing /\ Places' = Places
    BY <2>1, <2>5 DEF Owing, Resetting, Places, RowsOf
  <2>7. QED
    BY <1>1, <2>1, <2>6
<1>15. ASSUME NEW s \in Syncs, Backfilled(s) PROVE Seen' \subseteq Places'
  <2>1. /\ UNCHANGED <<current, resync, missed>> /\ Seen' = Seen
        /\ sync[s] = "answered" /\ rows' = [rows EXCEPT ![s] = {}]
    BY <1>15 DEF Backfilled, Seen, Retained, logVars
  <2>2. current \in Syncs
    BY <1>0, <2>1 DEF Owing
  <2>3. current # s => sync'[current'] = sync[current] /\ rows'[current'] = rows[current]
    BY <1>0, <1>15, <2>1, <2>2 DEF Backfilled, ReadTypeOK
  <2>4. /\ worker \notin {"broken", "dead"} /\ model \subseteq model' /\ RowsOf(inbox) \subseteq RowsOf(inbox')
        /\ rows[s] \subseteq RowsOf(inbox')
    <3>1. CASE rows[s] = {}
      BY <1>15, <3>1 DEF Backfilled, tableVars, RowsOf, Owing
    <3>2. CASE rows[s] # {}
      <4> DEFINE m == [kind |-> "ingest", rows |-> rows[s], by |-> s]
      <4>1. m \in Messages
        BY <1>0, MessageKinds DEF ReadTypeOK
      <4>2. Post(m)
        BY <1>15, <3>2 DEF Backfilled
      <4>3. m.kind = "ingest" /\ m.rows = rows[s]
        OBVIOUS
      <4> HIDE DEF m
      <4>4. QED
        BY <1>8, <4>1, <4>2, <4>3
    <3>3. QED
      BY <3>1, <3>2
  <2>5. Owing
    BY <2>1, <2>2, <2>3, <2>4 DEF Owing, Resetting
  <2>6. Places \subseteq Places'
    BY <2>1, <2>3, <2>4 DEF Places, RowsOf
  <2>7. QED
    BY <1>1, <2>1, <2>5, <2>6
<1>16. ASSUME NEW r \in Resyncs, HearsTrimmed(r) PROVE Seen' \subseteq Places'
  <2>1. worker = "none"
    BY <1>0, <1>16, HeardIsResetting DEF Owing
  <2>2. QED
    BY <1>2, <1>16, <2>1 DEF HearsTrimmed, Seen, Retained
<1>17. ASSUME NEW r \in Resyncs, ResyncEnds(r) PROVE Seen' \subseteq Places'
  <2>1. UNCHANGED <<worker, model, inbox, sync, rows, current, missed>> /\ Seen' = Seen
    BY <1>17 DEF ResyncEnds, Seen, Retained, logVars, tableVars
  <2>2. ~Resetting
    BY <1>0, <1>17, ResyncEndsNoReset DEF Owing
  <2>3. Owing /\ Places' = Places
    BY <2>1, <2>2 DEF Owing, Places, RowsOf
  <2>4. QED
    BY <1>1, <2>1, <2>3
<1>18. QED
  BY <1>3, <1>4, <1>5, <1>6, <1>7, <1>9, <1>10, <1>11, <1>12, <1>13, <1>14, <1>15, <1>16, <1>17
     DEF ReadNext, Works, Backfills

-----------------------------------------------------------------------------
LEMMA ReadStepInv == ReadInv /\ [ReadNext]_readVars => ReadInv'
<1> SUFFICES ASSUME ReadInv, [ReadNext]_readVars PROVE ReadInv'
  OBVIOUS
<1>1. CASE ReadNext
  <2>1. ReadTypeOK' /\ (cursor <= hi)'
    BY <1>1, ReadStepTypes, CursorStep DEF ReadInv
  <2>2. QED
    BY <1>1, <2>1, SyncsStep, InboxStep, RowsStep, SeenStep DEF ReadInv
<1>2. CASE UNCHANGED readVars
  <2>1. UNCHANGED <<lo, hi, notices, trims, cursor>> /\ UNCHANGED <<worker, inbox, model, stale>>
        /\ UNCHANGED <<sync, rows, current, resync>> /\ UNCHANGED <<query, waits, owed, missed, faults>>
    BY <1>2 DEF readVars, logVars, tableVars, syncVars, queryVars
  <2>2. QED
    BY <2>1 DEF ReadInv, ReadTypeOK, InboxHolds, RowsRetained, SyncsHold, SeenIsThere,
       Fits, Unique, Same, Resetting, Seen, Retained, RowsOf
<1>3. QED
  BY <1>1, <1>2

(* The read model is current: whatever the tab has seen and the log still  *)
(* retains is in the table, on its way there, or was pushed before there   *)
(* was a worker, whichever resyncs overlapped and whichever fetches failed *)
(* (query.js createQueryClient).                                           *)
THEOREM TableIsCurrent == ReadSpec => []TableCurrent
<1>1. ReadInv => TableCurrent
  <2> SUFFICES ASSUME ReadInv, Synced PROVE Seen \subseteq model \cup OnTheirWay \cup missed
    BY DEF TableCurrent, Seen
  <2>1. worker \notin {"broken", "dead"} /\ ~Resetting /\ current # NoSync /\ sync[current] = "done" /\ current \in Syncs
    BY DEF Synced, Settled, Resetting, ReadInv, ReadTypeOK
  <2>2. rows[current] = {}
    BY <2>1 DEF ReadInv, SyncsHold
  <2>3. OnTheirWay = RowsOf(inbox)
    BY DEF OnTheirWay, RowsOf
  <2>4. QED
    BY <2>1, <2>2, <2>3 DEF ReadInv, SeenIsThere
<1>2. QED
  BY <1>1, ReadInitInv, ReadStepInv, PTL DEF ReadSpec

(* A table whose tab heard every trim and finished its resyncs has no row  *)
(* the log dropped, but those that were dropped before the table got them  *)
(* (query.js resync).                                                      *)
THEOREM NoRowsAreStale == ReadSpec => []NoStaleRows
<1>1. ReadInv => NoStaleRows
  BY DEF ReadInv, RowsRetained, NoStaleRows, Settled, Resetting
<1>2. QED
  BY <1>1, ReadInitInv, ReadStepInv, PTL DEF ReadSpec

(* The parts of the model keep their types.                                *)
THEOREM ReadTypeCorrect == ReadSpec => []ReadTypeOK
<1>1. ReadInv => ReadTypeOK
  BY DEF ReadInv
<1>2. QED
  BY <1>1, ReadInitInv, ReadStepInv, PTL DEF ReadSpec

-----------------------------------------------------------------------------
(***************************************************************************)
(* Answers.  TableCurrent is not enough for them: what is still on its way *)
(* when the query is answered came too late.  The rows an answer owes are  *)
(* in the table or in messages ahead of the query.                         *)
(***************************************************************************)
IsQuery(m) == m.kind = "query"

HasQuery(q) == \E n \in DOMAIN q : IsQuery(q[n])

OneQuery(q) == \A m, n \in DOMAIN q : IsQuery(q[m]) /\ IsQuery(q[n]) => m = n

RowsAhead(q) ==
    {x \in 1..MaxId : \E n, m \in DOMAIN q : n < m /\ IsQuery(q[m]) /\ q[n].kind = "ingest" /\ x \in q[n].rows}

\* The backfill of s is in a message ahead of the query.
PostedAhead(q, s) ==
    \E n, m \in DOMAIN q : n < m /\ IsQuery(q[m]) /\ q[n].kind = "ingest" /\ q[n].by = s

QueryIsPosted == (query = "posted" <=> HasQuery(inbox)) /\ OneQuery(inbox)

\* A query was preceded by a sync; before any resync that is the first one.
QueryHasSync ==
    /\ owed \subseteq 1..cursor
    /\ query # "idle" => current # NoSync
    /\ query = "waiting" => waits \in Syncs
    /\ query = "posted" /\ current = First => sync[First] = "done"
    /\ current # NoSync => sync[current] # "none"

\* The current sync has nothing to add behind the query.
NothingBehind ==
    \/ sync[current] = "done"
    \/ sync[current] = "answered" /\ rows[current] = {}
    \/ sync[current] = "ingest" /\ PostedAhead(inbox, current)

Ahead == model \cup RowsAhead(inbox) \cup (IF current = First THEN missed ELSE {})

OwedIsAhead ==
    query = "posted" /\ worker \notin {"broken", "dead"} /\ ~Resetting /\ NothingBehind
    => owed \cap Retained \subseteq Ahead

QueryInv == ReadInv /\ QueryIsPosted /\ QueryHasSync /\ OwedIsAhead

LEMMA AppendQuery ==
    ASSUME NEW q \in Seq(Messages), NEW m \in Messages, OneQuery(q)
    PROVE  /\ ~IsQuery(m) => OneQuery(Append(q, m)) /\ (HasQuery(Append(q, m)) <=> HasQuery(q))
           /\ IsQuery(m) /\ ~HasQuery(q) => OneQuery(Append(q, m)) /\ HasQuery(Append(q, m))
<1>1. ASSUME ~IsQuery(m) PROVE OneQuery(Append(q, m)) /\ (HasQuery(Append(q, m)) <=> HasQuery(q))
  BY <1>1, AppendIsInbox DEF OneQuery, HasQuery
<1>2. ASSUME IsQuery(m), ~HasQuery(q) PROVE OneQuery(Append(q, m)) /\ HasQuery(Append(q, m))
  BY <1>2, AppendIsInbox DEF OneQuery, HasQuery
<1>3. QED
  BY <1>1, <1>2

LEMMA TailQuery ==
    ASSUME NEW q \in Seq(Messages), q # <<>>, OneQuery(q)
    PROVE  /\ OneQuery(Tail(q))
           /\ ~IsQuery(Head(q)) => (HasQuery(Tail(q)) <=> HasQuery(q))
           /\ IsQuery(Head(q)) => ~HasQuery(Tail(q))
<1>1. ASSUME NEW m \in DOMAIN Tail(q), NEW n \in DOMAIN Tail(q), IsQuery(Tail(q)[m]), IsQuery(Tail(q)[n])
      PROVE  m = n
  <2>1. m + 1 \in DOMAIN q /\ n + 1 \in DOMAIN q /\ IsQuery(q[m + 1]) /\ IsQuery(q[n + 1])
    BY <1>1, TailIsInbox
  <2>2. m + 1 = n + 1
    BY <2>1 DEF OneQuery
  <2>3. m \in Nat /\ n \in Nat
    BY TailIsInbox
  <2>4. QED
    BY <2>2, <2>3
<1>2. ASSUME ~IsQuery(Head(q)) PROVE HasQuery(Tail(q)) <=> HasQuery(q)
  BY <1>2, TailIsInbox DEF HasQuery
<1>3. ASSUME IsQuery(Head(q)) PROVE ~HasQuery(Tail(q))
  BY <1>3, TailIsInbox DEF HasQuery, OneQuery
<1>4. QED
  BY <1>1, <1>2, <1>3 DEF OneQuery

LEMMA AppendAhead ==
    ASSUME NEW q \in Seq(Messages), NEW m \in Messages
    PROVE  /\ RowsAhead(q) \subseteq RowsAhead(Append(q, m))
           /\ IsQuery(m) => RowsOf(q) \subseteq RowsAhead(Append(q, m))
           /\ ~IsQuery(m) => \A s : PostedAhead(Append(q, m), s) => PostedAhead(q, s)
<1>1. RowsAhead(q) \subseteq RowsAhead(Append(q, m))
  BY AppendIsInbox DEF RowsAhead
<1>2. ASSUME IsQuery(m), NEW x \in RowsOf(q) PROVE x \in RowsAhead(Append(q, m))
  <2>1. PICK n \in DOMAIN q : q[n].kind = "ingest" /\ x \in q[n].rows
    BY InRows
  <2>2. x \in 1..MaxId
    BY <2>1, MessageKinds
  <2>3. n \in DOMAIN Append(q, m) /\ Append(q, m)[n] = q[n] /\ n < Len(q) + 1
    BY AppendIsInbox
  <2>4. Len(q) + 1 \in DOMAIN Append(q, m) /\ Append(q, m)[Len(q) + 1] = m
    BY AppendIsInbox
  <2>5. QED
    BY <1>2, <2>1, <2>2, <2>3, <2>4 DEF RowsAhead
<1>3. ASSUME ~IsQuery(m), NEW s, PostedAhead(Append(q, m), s) PROVE PostedAhead(q, s)
  <2>1. PICK n \in DOMAIN Append(q, m), k \in DOMAIN Append(q, m) :
          n < k /\ IsQuery(Append(q, m)[k]) /\ Append(q, m)[n].kind = "ingest" /\ Append(q, m)[n].by = s
    BY <1>3 DEF PostedAhead
  <2>2. k \in DOMAIN q /\ n \in DOMAIN q
    BY <1>3, <2>1, AppendIsInbox
  <2>3. QED
    BY <2>1, <2>2, AppendIsInbox DEF PostedAhead
<1>4. QED
  BY <1>1, <1>2, <1>3

LEMMA TailAhead ==
    ASSUME NEW q \in Seq(Messages), q # <<>>
    PROVE  /\ RowsAhead(q) \subseteq RowsAhead(Tail(q)) \cup (IF Head(q).kind = "ingest" THEN Head(q).rows ELSE {})
           /\ \A s : PostedAhead(Tail(q), s) => PostedAhead(q, s)
<1>1. ASSUME NEW x \in RowsAhead(q)
      PROVE  x \in RowsAhead(Tail(q)) \cup (IF Head(q).kind = "ingest" THEN Head(q).rows ELSE {})
  <2>1. PICK n \in DOMAIN q, m \in DOMAIN q :
          n < m /\ IsQuery(q[m]) /\ q[n].kind = "ingest" /\ x \in q[n].rows /\ x \in 1..MaxId
    BY DEF RowsAhead
  <2>2. CASE n = 1
    BY <2>1, <2>2, TailIsInbox
  <2>3. CASE n # 1
    <3>1. m # 1 /\ n - 1 < m - 1
      BY <2>1, <2>3
    <3>2. /\ n - 1 \in DOMAIN Tail(q) /\ Tail(q)[n - 1] = q[n]
          /\ m - 1 \in DOMAIN Tail(q) /\ Tail(q)[m - 1] = q[m]
      BY <2>3, <3>1, TailIsInbox
    <3>3. QED
      BY <2>1, <3>1, <3>2 DEF RowsAhead
  <2>4. QED
    BY <2>2, <2>3
<1>2. ASSUME NEW s, PostedAhead(Tail(q), s) PROVE PostedAhead(q, s)
  <2>1. PICK n \in DOMAIN Tail(q), m \in DOMAIN Tail(q) :
          n < m /\ IsQuery(Tail(q)[m]) /\ Tail(q)[n].kind = "ingest" /\ Tail(q)[n].by = s
    BY <1>2 DEF PostedAhead
  <2>2. n + 1 \in DOMAIN q /\ m + 1 \in DOMAIN q /\ Tail(q)[n] = q[n + 1] /\ Tail(q)[m] = q[m + 1] /\ n + 1 < m + 1
    BY <2>1, TailIsInbox
  <2>3. QED
    BY <2>1, <2>2 DEF PostedAhead
<1>3. QED
  BY <1>1, <1>2

LEMMA NothingIsAhead ==
    ASSUME NEW q \in Seq(Messages), q # <<>>, OneQuery(q), IsQuery(Head(q))
    PROVE  RowsAhead(q) = {}
<1>1. ASSUME NEW x \in RowsAhead(q) PROVE FALSE
  <2>1. PICK n \in DOMAIN q, m \in DOMAIN q : n < m /\ IsQuery(q[m])
    BY DEF RowsAhead
  <2>2. m = 1
    BY <2>1, TailIsInbox DEF OneQuery
  <2>3. QED
    BY <2>1, <2>2
<1>2. QED
  BY <1>1

\* A backfill at the head of the queue is ahead of the query.
LEMMA HeadIsAhead ==
    ASSUME NEW q \in Seq(Messages), q # <<>>, HasQuery(q), Head(q).kind = "ingest"
    PROVE  PostedAhead(q, Head(q).by)
<1>1. PICK m \in DOMAIN q : IsQuery(q[m])
  BY DEF HasQuery
<1>2. 1 \in DOMAIN q /\ Head(q) = q[1] /\ m # 1
  BY <1>1, TailIsInbox DEF IsQuery
<1>3. 1 < m
  BY <1>2
<1>4. QED
  BY <1>1, <1>2, <1>3 DEF PostedAhead

LEMMA QueryPostedStep == ASSUME QueryInv, ReadNext PROVE QueryIsPosted'
<1> USE ReadAssumption
<1>0. ReadTypeOK /\ InboxHolds /\ QueryIsPosted /\ OneQuery(inbox) /\ inbox \in Seq(Messages)
  BY DEF QueryInv, ReadInv, QueryIsPosted, ReadTypeOK
<1>1. ASSUME inbox' = inbox, query' = "posted" <=> query = "posted" PROVE QueryIsPosted'
  BY <1>0, <1>1 DEF QueryIsPosted
<1>2. ASSUME NEW m \in Messages, ~IsQuery(m), inbox' = Append(inbox, m), query' = query PROVE QueryIsPosted'
  BY <1>0, <1>2, AppendQuery DEF QueryIsPosted
<1>3. CASE Pushes
  <2>1. PICK i \in NextEvent :
          IF worker # "none"
          THEN inbox' = Append(inbox, [kind |-> "ingest", rows |-> {i}, by |-> NoSync])
          ELSE UNCHANGED inbox
    BY <1>3 DEF Pushes
  <2>2. query' = query
    BY <1>3 DEF Pushes, queryVars
  <2>3. CASE worker = "none"
    BY <1>1, <2>1, <2>2, <2>3
  <2>4. CASE worker # "none"
    <3>1. {i} \in SUBSET (1..MaxId)
      BY <1>0 DEF NextEvent, ReadTypeOK
    <3>2. [kind |-> "ingest", rows |-> {i}, by |-> NoSync] \in Messages
      BY <3>1, MessageKinds
    <3>3. QED
      BY <1>2, <2>1, <2>2, <2>4, <3>2 DEF IsQuery
  <2>5. QED
    BY <2>3, <2>4
<1>4. CASE PostsQuery
  <2>1. inbox' = Append(inbox, [kind |-> "query"]) /\ [kind |-> "query"] \in Messages
    BY <1>0, <1>4, PostIsPost, MessageKinds DEF PostsQuery
  <2>2. query = "waiting" /\ query' = "posted" /\ ~HasQuery(inbox)
    BY <1>0, <1>4 DEF PostsQuery, QueryIsPosted
  <2>3. IsQuery([kind |-> "query"])
    BY DEF IsQuery
  <2>4. QED
    BY <1>0, <2>1, <2>2, <2>3, AppendQuery DEF QueryIsPosted
<1>5. CASE Ingests \/ Resets
  <2>1. PICK kind \in {"ingest", "reset"} : Takes(kind)
    BY <1>5 DEF Ingests, Resets
  <2>2. inbox # <<>> /\ inbox' = Tail(inbox) /\ ~IsQuery(Head(inbox))
    BY <1>0, <2>1, TakesHead DEF IsQuery
  <2>3. query' = query
    BY <1>5 DEF Ingests, Resets, queryVars
  <2>4. QED
    BY <1>0, <2>2, <2>3, TailQuery DEF QueryIsPosted
<1>6. CASE AnswersQuery
  <2>1. inbox # <<>> /\ inbox' = Tail(inbox) /\ IsQuery(Head(inbox)) /\ query' = "idle"
    BY <1>0, <1>6, TakesHead DEF AnswersQuery, IsQuery
  <2>2. QED
    BY <1>0, <2>1, TailQuery DEF QueryIsPosted
<1>7. ASSUME NEW s \in Syncs, Backfilled(s) PROVE QueryIsPosted'
  <2>1. query' = query
    BY <1>7 DEF Backfilled, queryVars
  <2>2. CASE rows[s] = {}
    BY <1>1, <1>7, <2>1, <2>2 DEF Backfilled, tableVars
  <2>3. CASE rows[s] # {}
    <3>1. [kind |-> "ingest", rows |-> rows[s], by |-> s] \in Messages
      BY <1>0, MessageKinds DEF ReadTypeOK
    <3>2. inbox' = Append(inbox, [kind |-> "ingest", rows |-> rows[s], by |-> s])
      BY <1>0, <1>7, <2>3, <3>1, PostIsPost DEF Backfilled
    <3>3. QED
      BY <1>2, <2>1, <3>1, <3>2 DEF IsQuery
  <2>4. QED
    BY <2>2, <2>3
<1>8. ASSUME NEW r \in Resyncs, HearsTrimmed(r) PROVE QueryIsPosted'
  <2>1. query' = query
    BY <1>8 DEF HearsTrimmed, queryVars
  <2>2. CASE worker = "none"
    BY <1>1, <1>8, <2>1, <2>2 DEF HearsTrimmed
  <2>3. CASE worker # "none"
    <3>1. inbox' = Append(inbox, [kind |-> "reset", by |-> r]) /\ [kind |-> "reset", by |-> r] \in Messages
      BY <1>8, <2>3, MessageKinds DEF HearsTrimmed
    <3>2. QED
      BY <1>2, <2>1, <3>1 DEF IsQuery
  <2>4. QED
    BY <2>2, <2>3
<1>9. CASE Append1 \/ Trimmed \/ Asks \/ SpawnFails \/ Rejects
  <2>1. inbox' = inbox /\ (query' = "posted" <=> query = "posted")
    BY <1>9 DEF Append1, Trimmed, Asks, SpawnFails, Rejects, tableVars, queryVars
  <2>2. QED
    BY <1>1, <2>1
<1>10. ASSUME NEW s \in Syncs, Snapshot(s) \/ BackfillFails(s) PROVE QueryIsPosted'
  BY <1>1, <1>10 DEF Snapshot, BackfillFails, tableVars, queryVars
<1>11. ASSUME NEW r \in Resyncs, ResyncEnds(r) PROVE QueryIsPosted'
  BY <1>1, <1>11 DEF ResyncEnds, tableVars, queryVars
<1>12. QED
  BY <1>3, <1>4, <1>5, <1>6, <1>7, <1>8, <1>9, <1>10, <1>11 DEF ReadNext, Works, Backfills

LEMMA QuerySyncStep == ASSUME QueryInv, ReadNext PROVE QueryHasSync'
<1> USE ReadAssumption
<1>0. ReadTypeOK /\ InboxHolds /\ SyncsHold /\ QueryHasSync /\ cursor \in 0..MaxId /\ current \in Syncs \cup {NoSync}
  BY DEF QueryInv, ReadInv, ReadTypeOK
<1>1. ASSUME query' = query \/ query' = "idle", waits' = waits \/ query' = "idle", owed' = owed \/ owed' = {},
             current' = current, cursor' \in Nat, cursor <= cursor',
             \A s \in Syncs : sync[s] # "none" => sync'[s] # "none",
             sync[First] = "done" => sync'[First] = "done"
      PROVE  QueryHasSync'
  <2>1. owed' \subseteq 1..cursor'
    <3>1. owed' \subseteq 1..cursor
      BY <1>0, <1>1 DEF QueryHasSync
    <3>2. 1..cursor \subseteq 1..cursor'
      BY <1>0, <1>1
    <3>3. QED
      BY <3>1, <3>2
  <2>2. current' # NoSync => sync'[current'] # "none"
    BY <1>0, <1>1 DEF QueryHasSync
  <2>3. QED
    BY <1>0, <1>1, <2>1, <2>2 DEF QueryHasSync
<1>2. CASE Append1 \/ Trimmed
  <2>1. UNCHANGED <<query, waits, owed, current, cursor, sync>>
    BY <1>2 DEF Append1, Trimmed, queryVars, syncVars
  <2>2. QED
    BY <1>0, <1>1, <2>1
<1>3. CASE Pushes
  <2>1. UNCHANGED <<query, waits, owed, current, sync>>
    BY <1>3 DEF Pushes, queryVars, syncVars
  <2>2. cursor' \in Nat /\ cursor <= cursor'
    BY <1>0, <1>3 DEF Pushes, NextEvent, ReadTypeOK
  <2>3. QED
    BY <1>1, <2>1, <2>2
<1>4. CASE Asks
  <2>1. query = "idle" /\ query' = "waiting" /\ waits' = current' /\ cursor' = cursor
    BY <1>4 DEF Asks, logVars
  <2>2. owed' \subseteq 1..cursor'
    BY <1>0, <1>4, <2>1 DEF Asks, Retained, ReadTypeOK
  <2>3. CASE current = NoSync
    <3>1. current' = First /\ sync' = [sync EXCEPT ![First] = "read"]
      BY <1>4, <2>3 DEF Asks
    <3>2. sync'[First] = "read" /\ First \in Syncs
      BY <1>0, <3>1 DEF ReadTypeOK, Syncs
    <3>3. QED
      BY <2>1, <2>2, <3>1, <3>2 DEF QueryHasSync
  <2>4. CASE current # NoSync
    <3>1. current' = current /\ sync' = sync
      BY <1>4, <2>4 DEF Asks
    <3>2. QED
      BY <1>0, <2>1, <2>2, <2>4, <3>1 DEF QueryHasSync
  <2>5. QED
    BY <2>3, <2>4
<1>5. CASE PostsQuery
  <2>1. UNCHANGED <<cursor, sync, current, owed>> /\ query = "waiting" /\ query' = "posted" /\ sync[waits] = "done"
    BY <1>5 DEF PostsQuery, logVars, syncVars
  <2>2. current = First => sync[First] = "done"
    <3>1. waits \in Syncs
      BY <1>0, <2>1 DEF QueryHasSync
    <3>2. waits \in Resyncs => current \in Resyncs
      BY <1>0, <2>1 DEF SyncsHold
    <3>3. QED
      BY <2>1, <3>1, <3>2 DEF Syncs
  <2>3. QED
    BY <1>0, <2>1, <2>2 DEF QueryHasSync
<1>6. CASE SpawnFails \/ Rejects \/ AnswersQuery
  <2>1. query' = "idle" /\ owed' = {} /\ UNCHANGED <<current, cursor, sync>>
    BY <1>6 DEF SpawnFails, Rejects, AnswersQuery, logVars, syncVars
  <2>2. QED
    BY <1>0, <1>1, <2>1
<1>7. CASE Ingests
  <2>1. UNCHANGED <<query, waits, owed, current, cursor>>
    BY <1>7 DEF Ingests, logVars, queryVars
  <2>2. CASE Head(inbox).by = NoSync
    BY <1>0, <1>1, <1>7, <2>1, <2>2 DEF Ingests
  <2>3. CASE Head(inbox).by # NoSync
    <3> DEFINE s == Head(inbox).by
    <3>1. s \in Syncs /\ sync[s] = "ingest"
      BY <1>0, <1>7, <2>3, TakesHead DEF Ingests
    <3>2. PICK e \in {"done", "failed"} : sync' = [sync EXCEPT ![s] = e]
      BY <1>7, <2>3 DEF Ingests
    <3> HIDE DEF s
    <3>3. \A t \in Syncs : sync'[t] = IF t = s THEN e ELSE sync[t]
      BY <1>0, <3>2 DEF ReadTypeOK
    <3>4. First \in Syncs
      BY DEF Syncs
    <3>5. QED
      BY <1>0, <1>1, <2>1, <3>1, <3>3, <3>4
  <2>4. QED
    BY <2>2, <2>3
<1>8. CASE Resets
  <2>1. UNCHANGED <<query, waits, owed, cursor>>
    BY <1>8 DEF Resets, logVars, queryVars
  <2> DEFINE r == Head(inbox).by
  <2>2. r \in Resyncs
    BY <1>0, <1>8, TakesHead DEF Resets
  <2>3. CASE worker = "up"
    <3>1. sync' = [sync EXCEPT ![r] = "read"] /\ current' = r
      BY <1>8, <2>3 DEF Resets
    <3> HIDE DEF r
    <3>2. sync'[r] = "read" /\ r # First /\ r # NoSync
      BY <1>0, <2>2, <3>1 DEF ReadTypeOK, Syncs
    <3>3. QED
      BY <1>0, <2>1, <3>1, <3>2 DEF QueryHasSync
  <2>4. CASE worker # "up"
    BY <1>0, <1>1, <1>8, <2>1, <2>4 DEF Resets
  <2>5. QED
    BY <2>3, <2>4
<1>9. ASSUME NEW s \in Syncs, Backfills(s) PROVE QueryHasSync'
  <2>1. sync[s] \in {"read", "answered"} /\ cursor' = cursor /\ current' = current /\ UNCHANGED <<query, waits, owed>>
    BY <1>9 DEF Backfills, Snapshot, BackfillFails, Backfilled, logVars, queryVars
  <2>2. PICK e \in {"answered", "failed", "done", "ingest"} : sync' = [sync EXCEPT ![s] = e]
    BY <1>9 DEF Backfills, Snapshot, BackfillFails, Backfilled
  <2>3. \A t \in Syncs : sync'[t] = IF t = s THEN e ELSE sync[t]
    BY <1>0, <2>2 DEF ReadTypeOK
  <2>4. First \in Syncs
    BY DEF Syncs
  <2>5. QED
    BY <1>0, <1>1, <2>1, <2>3, <2>4
<1>10. ASSUME NEW r \in Resyncs, HearsTrimmed(r) \/ ResyncEnds(r) PROVE QueryHasSync'
  <2>1. UNCHANGED <<query, waits, owed, current, cursor, sync>>
    BY <1>10 DEF HearsTrimmed, ResyncEnds, logVars, queryVars
  <2>2. QED
    BY <1>0, <1>1, <2>1
<1>11. QED
  BY <1>2, <1>3, <1>4, <1>5, <1>6, <1>7, <1>8, <1>9, <1>10 DEF ReadNext, Works

LEMMA OwedStep == ASSUME QueryInv, ReadNext PROVE OwedIsAhead'
<1> USE ReadAssumption
<1>0. /\ ReadTypeOK /\ InboxHolds /\ SyncsHold /\ QueryIsPosted /\ QueryHasSync /\ OwedIsAhead
      /\ cursor <= hi /\ inbox \in Seq(Messages) /\ current \in Syncs \cup {NoSync}
  BY DEF QueryInv, ReadInv, ReadTypeOK
<1> SUFFICES ASSUME query' = "posted", worker' \notin {"broken", "dead"}, ~Resetting', NothingBehind'
             PROVE  owed' \cap Retained' \subseteq Ahead'
  BY DEF OwedIsAhead
<1>1. ASSUME query = "posted", worker \notin {"broken", "dead"}, ~Resetting, NothingBehind,
             owed' \cap Retained' \subseteq owed \cap Retained, Ahead \subseteq Ahead'
      PROVE  owed' \cap Retained' \subseteq Ahead'
  BY <1>0, <1>1 DEF OwedIsAhead
<1>2. CASE /\ UNCHANGED <<worker, model, inbox, sync, rows, current, resync, missed, query>>
           /\ owed' \cap Retained' \subseteq owed \cap Retained
  <2>1. ~Resetting /\ NothingBehind /\ Ahead' = Ahead
    BY <1>2 DEF Resetting, NothingBehind, Ahead, PostedAhead, RowsAhead
  <2>2. QED
    BY <1>1, <1>2, <2>1
<1>3. query = "posted" => worker # "none" /\ HasQuery(inbox) /\ inbox # <<>> /\ current \in Syncs
  <2>1. ASSUME query = "posted" PROVE HasQuery(inbox) /\ inbox # <<>>
    BY <1>0, <2>1 DEF QueryIsPosted, HasQuery
  <2>2. QED
    BY <1>0, <2>1 DEF InboxHolds, QueryHasSync
<1>4. CASE Append1
  <2>1. UNCHANGED <<worker, model, inbox, sync, rows, current, resync, missed, query, owed, lo>> /\ hi' = hi + 1
    BY <1>4 DEF Append1, tableVars, syncVars, queryVars
  <2>2. owed \subseteq 1..cursor /\ cursor \in Int /\ lo \in Int /\ hi \in Int
    BY <1>0 DEF QueryHasSync, ReadTypeOK
  <2>3. owed' \cap Retained' \subseteq owed \cap Retained
    BY <1>0, <2>1, <2>2 DEF Retained
  <2>4. QED
    BY <1>2, <2>1, <2>3
<1>5. CASE Trimmed
  <2>1. UNCHANGED <<worker, model, inbox, sync, rows, current, resync, missed, query, owed, hi>> /\ lo' = lo + 1
    BY <1>5 DEF Trimmed, tableVars, syncVars, queryVars
  <2>2. Retained' \subseteq Retained
    BY <1>0, <2>1 DEF Retained, ReadTypeOK
  <2>3. QED
    BY <1>2, <2>1, <2>2
<1>6. ASSUME NEW m \in Messages, ~IsQuery(m), inbox' = Append(inbox, m), query = "posted",
             UNCHANGED <<worker, model, missed, current, resync, owed, lo, hi>>,
             sync'[current] = sync[current], rows'[current] = rows[current]
      PROVE  owed' \cap Retained' \subseteq Ahead'
  <2>1. ~Resetting /\ owed' \cap Retained' = owed \cap Retained
    BY <1>6 DEF Resetting, Retained
  <2>2. PostedAhead(inbox', current) => PostedAhead(inbox, current)
    BY <1>0, <1>6, AppendAhead
  <2>3. NothingBehind
    BY <1>6, <2>2 DEF NothingBehind
  <2>4. RowsAhead(inbox) \subseteq RowsAhead(inbox')
    BY <1>0, <1>6, AppendAhead
  <2>5. Ahead \subseteq Ahead'
    BY <1>6, <2>4 DEF Ahead, RowsAhead
  <2>6. QED
    BY <1>1, <1>6, <2>1, <2>3, <2>5
<1>7. CASE Pushes
  <2>1. PICK i \in NextEvent :
          worker # "none" => /\ inbox' = Append(inbox, [kind |-> "ingest", rows |-> {i}, by |-> NoSync])
                             /\ UNCHANGED missed
    BY <1>7 DEF Pushes
  <2>2. UNCHANGED <<worker, model, current, resync, owed, lo, hi, sync, rows, query>>
    BY <1>7 DEF Pushes, syncVars, queryVars
  <2>3. {i} \in SUBSET (1..MaxId)
    BY <1>0 DEF NextEvent, ReadTypeOK
  <2>4. [kind |-> "ingest", rows |-> {i}, by |-> NoSync] \in Messages
    BY <2>3, MessageKinds
  <2>5. QED
    BY <1>3, <1>6, <2>1, <2>2, <2>4 DEF IsQuery
<1>8. CASE Asks \/ SpawnFails \/ Rejects \/ AnswersQuery
  BY <1>8 DEF Asks, SpawnFails, Rejects, AnswersQuery
<1>9. CASE PostsQuery
  <2>1. /\ query = "waiting" /\ Post([kind |-> "query"])
        /\ UNCHANGED <<sync, rows, current, resync, missed, owed, lo, hi, cursor>>
    BY <1>9 DEF PostsQuery, logVars, syncVars
  <2>2. [kind |-> "query"] \in Messages /\ IsQuery([kind |-> "query"])
    BY MessageKinds DEF IsQuery
  <2>3. inbox' = Append(inbox, [kind |-> "query"])
    BY <1>0, <2>1, <2>2, PostIsPost
  <2>4. model \subseteq model' /\ worker \notin {"broken", "dead"}
    <3>1. CASE worker = "none"
      BY <1>0, <3>1 DEF SyncsHold
    <3>2. CASE worker # "none"
      BY <1>0, <2>1, <2>2, <3>2, PostIsPost
    <3>3. QED
      BY <3>1, <3>2
  <2>5. ~Resetting /\ current # NoSync /\ current \in Syncs
    BY <1>0, <2>1 DEF Resetting, QueryHasSync
  <2>6. sync[current] \in {"answered", "ingest", "done"} /\ (sync[current] = "answered" => rows[current] = {})
    BY <2>1 DEF NothingBehind
  <2>7. rows[current] = {}
    BY <1>0, <2>5, <2>6 DEF SyncsHold
  <2>8. Seen \subseteq model \cup RowsOf(inbox) \cup (IF current = First THEN missed ELSE {})
    BY <2>4, <2>5, <2>6, <2>7 DEF QueryInv, ReadInv, SeenIsThere
  <2>9. owed' \cap Retained' \subseteq Seen
    BY <1>0, <2>1 DEF QueryHasSync, Seen, Retained, ReadTypeOK
  <2>10. RowsOf(inbox) \subseteq RowsAhead(inbox')
    BY <1>0, <2>2, <2>3, AppendAhead
  <2>11. Ahead' = model' \cup RowsAhead(inbox') \cup (IF current = First THEN missed ELSE {})
    BY <2>1 DEF Ahead, RowsAhead
  <2>12. QED
    BY <2>4, <2>8, <2>9, <2>10, <2>11
<1>10. CASE Ingests
  <2>1. /\ inbox # <<>> /\ inbox' = Tail(inbox) /\ worker # "none" /\ worker' = worker /\ Head(inbox).kind = "ingest"
        /\ Head(inbox).by # NoSync => Head(inbox).by \in Syncs /\ sync[Head(inbox).by] = "ingest"
    BY <1>0, <1>10, TakesHead DEF Ingests
  <2>2. UNCHANGED <<rows, current, resync, missed, query, owed, lo, hi>>
    BY <1>10 DEF Ingests, logVars, queryVars
  <2>3. worker = "up"
    BY <1>0, <2>1 DEF ReadTypeOK
  <2>4. model' = model \cup Head(inbox).rows
    BY <1>10, <2>3 DEF Ingests
  <2>5. current \in Syncs /\ PostedAhead(inbox, Head(inbox).by)
    BY <1>0, <1>3, <2>1, <2>2, HeadIsAhead
  <2>6. PostedAhead(inbox', current) => PostedAhead(inbox, current)
    BY <1>0, <2>1, TailAhead
  <2>7. NothingBehind
    <3>1. CASE current = Head(inbox).by
      BY <1>0, <2>1, <2>5, <3>1 DEF NothingBehind, Syncs
    <3>2. CASE current # Head(inbox).by
      <4>1. sync'[current] = sync[current]
        BY <1>0, <1>10, <2>5, <3>2 DEF Ingests, ReadTypeOK
      <4>2. QED
        BY <2>2, <2>6, <4>1 DEF NothingBehind
    <3>3. QED
      BY <3>1, <3>2
  <2>8. RowsAhead(inbox) \subseteq RowsAhead(inbox') \cup Head(inbox).rows
    BY <1>0, <2>1, TailAhead
  <2>9. Ahead \subseteq Ahead'
    BY <2>2, <2>4, <2>8 DEF Ahead, RowsAhead
  <2>10. ~Resetting /\ owed' \cap Retained' = owed \cap Retained
    BY <2>2 DEF Resetting, Retained
  <2>11. QED
    BY <1>1, <2>2, <2>3, <2>7, <2>9, <2>10
<1>11. CASE Resets
  <2>1. worker = "up" /\ Head(inbox).by \in Resyncs
    BY <1>0, <1>11, TakesHead DEF Resets, ReadTypeOK
  <2>2. sync'[current'] = "read"
    BY <1>0, <1>11, <2>1 DEF Resets, ReadTypeOK, Syncs
  <2>3. QED
    BY <2>2 DEF NothingBehind
<1>12. ASSUME NEW s \in Syncs, Snapshot(s) PROVE owed' \cap Retained' \subseteq Ahead'
  <2>1. /\ UNCHANGED <<worker, model, inbox, current, resync, query, owed, lo, hi>>
        /\ sync[s] = "read" /\ sync' = [sync EXCEPT ![s] = "answered"]
        /\ rows' = [rows EXCEPT ![s] = Retained]
        /\ missed' = missed \ Retained
    BY <1>12 DEF Snapshot, logVars, tableVars, queryVars
  <2>2. current \in Syncs
    BY <1>3, <2>1
  <2>3. CASE s = current
    <3>1. rows'[current'] = Retained /\ sync'[current'] = "answered"
      BY <1>0, <2>1, <2>3 DEF ReadTypeOK
    <3>2. Retained = {} /\ Retained' = Retained
      BY <2>1, <3>1 DEF NothingBehind, Retained
    <3>3. QED
      BY <3>2
  <2>4. CASE s # current
    <3>1. sync'[current'] = sync[current] /\ rows'[current'] = rows[current]
      BY <1>0, <2>1, <2>2, <2>4 DEF ReadTypeOK
    <3>2. current # First
      <4>1. s \in Resyncs => current \in Resyncs
        BY <1>0, <2>1 DEF SyncsHold
      <4>2. QED
        BY <2>4, <4>1 DEF Syncs
    <3>3. ~Resetting /\ NothingBehind /\ Ahead' = Ahead /\ owed' \cap Retained' = owed \cap Retained
      BY <2>1, <3>1, <3>2 DEF Resetting, NothingBehind, PostedAhead, Ahead, RowsAhead, Retained
    <3>4. QED
      BY <1>1, <2>1, <3>3
  <2>5. QED
    BY <2>3, <2>4
<1>13. ASSUME NEW s \in Syncs, BackfillFails(s) PROVE owed' \cap Retained' \subseteq Ahead'
  <2>1. /\ UNCHANGED <<worker, model, inbox, current, resync, missed, query, owed, lo, hi>>
        /\ sync' = [sync EXCEPT ![s] = "failed"] /\ rows' = [rows EXCEPT ![s] = {}]
    BY <1>13 DEF BackfillFails, logVars, tableVars, queryVars
  <2>2. current \in Syncs
    BY <1>3, <2>1
  <2>3. sync'[s] = "failed"
    BY <1>0, <2>1 DEF ReadTypeOK
  <2>4. s # current
    BY <2>1, <2>3 DEF NothingBehind
  <2>5. sync'[current'] = sync[current] /\ rows'[current'] = rows[current]
    BY <1>0, <2>1, <2>2, <2>4 DEF ReadTypeOK
  <2>6. ~Resetting /\ NothingBehind /\ Ahead' = Ahead /\ owed' \cap Retained' = owed \cap Retained
    BY <2>1, <2>5 DEF Resetting, NothingBehind, PostedAhead, Ahead, RowsAhead, Retained
  <2>7. QED
    BY <1>1, <2>1, <2>6
<1>14. ASSUME NEW s \in Syncs, Backfilled(s) PROVE owed' \cap Retained' \subseteq Ahead'
  <2>1. /\ UNCHANGED <<current, resync, missed, query, owed, lo, hi>>
        /\ sync[s] = "answered" /\ rows' = [rows EXCEPT ![s] = {}]
    BY <1>14 DEF Backfilled, logVars, queryVars
  <2>2. current \in Syncs /\ worker # "none"
    BY <1>3, <2>1
  <2>3. current # s => sync'[current] = sync[current] /\ rows'[current] = rows[current]
    BY <1>0, <1>14, <2>1, <2>2 DEF Backfilled, ReadTypeOK
  <2>4. CASE rows[s] = {}
    <3>1. UNCHANGED <<worker, model, inbox>>
      BY <1>14, <2>4 DEF Backfilled, tableVars
    <3>2. NothingBehind
      <4>1. CASE current = s
        BY <2>1, <2>4, <4>1 DEF NothingBehind
      <4>2. CASE current # s
        BY <2>1, <2>3, <3>1, <4>2 DEF NothingBehind, PostedAhead
      <4>3. QED
        BY <4>1, <4>2
    <3>3. ~Resetting /\ Ahead' = Ahead /\ owed' \cap Retained' = owed \cap Retained
      BY <2>1, <3>1 DEF Resetting, Ahead, RowsAhead, Retained
    <3>4. QED
      BY <1>1, <2>1, <3>1, <3>2, <3>3
  <2>5. CASE rows[s] # {}
    <3> DEFINE m == [kind |-> "ingest", rows |-> rows[s], by |-> s]
    <3>1. m \in Messages
      BY <1>0, MessageKinds DEF ReadTypeOK
    <3>2. Post(m) /\ sync' = [sync EXCEPT ![s] = "ingest"]
      BY <1>14, <2>5 DEF Backfilled
    <3>3. ~IsQuery(m)
      BY DEF IsQuery
    <3> HIDE DEF m
    <3>4. inbox' = Append(inbox, m) /\ UNCHANGED <<worker, model>>
      BY <1>0, <2>2, <3>1, <3>2, PostIsPost
    <3>5. current # s
      <4> SUFFICES ASSUME current = s PROVE FALSE
        OBVIOUS
      <4>1. sync'[current'] = "ingest"
        BY <1>0, <2>1, <3>2 DEF ReadTypeOK
      <4>2. PostedAhead(inbox', s)
        BY <2>1, <4>1 DEF NothingBehind
      <4>3. PostedAhead(inbox, s)
        BY <1>0, <3>1, <3>3, <3>4, <4>2, AppendAhead
      <4>4. PICK n \in DOMAIN inbox : inbox[n].kind = "ingest" /\ inbox[n].by = s
        BY <4>3 DEF PostedAhead
      <4>5. s # NoSync
        BY DEF Syncs
      <4>6. QED
        BY <1>0, <2>1, <4>4, <4>5 DEF InboxHolds, Fits
    <3>6. QED
      BY <1>6, <2>1, <2>3, <3>1, <3>3, <3>4, <3>5
  <2>6. QED
    BY <2>4, <2>5
<1>15. ASSUME NEW r \in Resyncs, HearsTrimmed(r) PROVE FALSE
  <2>1. query = "posted"
    BY <1>15 DEF HearsTrimmed, queryVars
  <2>2. QED
    BY <1>0, <1>3, <1>15, <2>1, HeardIsResetting
<1>16. ASSUME NEW r \in Resyncs, ResyncEnds(r) PROVE owed' \cap Retained' \subseteq Ahead'
  <2>1. UNCHANGED <<worker, model, inbox, sync, rows, current, missed, query, owed, lo, hi>>
    BY <1>16 DEF ResyncEnds, logVars, tableVars, queryVars
  <2>2. ~Resetting
    BY <1>0, <1>16, ResyncEndsNoReset
  <2>3. NothingBehind /\ Ahead' = Ahead /\ owed' \cap Retained' = owed \cap Retained
    BY <2>1 DEF NothingBehind, PostedAhead, Ahead, RowsAhead, Retained
  <2>4. QED
    BY <1>1, <2>1, <2>2, <2>3
<1>17. QED
  BY <1>4, <1>5, <1>7, <1>8, <1>9, <1>10, <1>11, <1>12, <1>13, <1>14, <1>15, <1>16 DEF ReadNext, Works, Backfills

LEMMA QueryStepInv == QueryInv /\ [ReadNext]_readVars => QueryInv'
<1> SUFFICES ASSUME QueryInv, [ReadNext]_readVars PROVE QueryInv'
  OBVIOUS
<1>1. ReadInv'
  BY ReadStepInv DEF QueryInv
<1>2. CASE ReadNext
  BY <1>1, <1>2, QueryPostedStep, QuerySyncStep, OwedStep DEF QueryInv
<1>3. CASE UNCHANGED readVars
  <2>1. UNCHANGED <<lo, hi, cursor, worker, inbox, model, sync, rows, current, resync, query, waits, owed, missed>>
    BY <1>3 DEF readVars, logVars, tableVars, syncVars, queryVars
  <2>2. (QueryIsPosted /\ QueryHasSync)'
    BY <2>1 DEF QueryInv, QueryIsPosted, QueryHasSync, HasQuery, OneQuery
  <2>3. OwedIsAhead'
    BY <2>1 DEF QueryInv, OwedIsAhead, Resetting, NothingBehind, PostedAhead, Ahead, RowsAhead, Retained
  <2>4. QED
    BY <1>1, <2>2, <2>3 DEF QueryInv
<1>4. QED
  BY <1>2, <1>3

LEMMA QueryInitInv == ReadInit => QueryInv
<1> SUFFICES ASSUME ReadInit PROVE QueryInv
  OBVIOUS
<1>1. query = "idle" /\ inbox = <<>> /\ owed = {} /\ current = NoSync
  BY DEF ReadInit
<1>2. QueryIsPosted /\ QueryHasSync /\ OwedIsAhead
  BY <1>1, ReadAssumption DEF QueryIsPosted, HasQuery, OneQuery, QueryHasSync, OwedIsAhead
<1>3. QED
  BY <1>2, ReadInitInv DEF QueryInv

(* An answer given by a worker that is up, with no resync under way and a  *)
(* sync that did not fail, has every row the tab had seen when it asked    *)
(* and the log retains: the query waits for the sync behind whose rows it  *)
(* is queued, and whatever a resync in between took from the table is back *)
(* before it (query.js query, sync).                                       *)
THEOREM AnswersAreCovered == ReadSpec => AnswersCover
<1>1. ASSUME QueryInv, AnswersQuery, Settled, sync[current] # "failed" PROVE owed \cap Retained \subseteq model \cup missed
  <2>1. /\ ReadTypeOK /\ InboxHolds /\ SyncsHold /\ QueryIsPosted /\ QueryHasSync /\ OwedIsAhead
        /\ inbox \in Seq(Messages) /\ current \in Syncs \cup {NoSync}
    BY <1>1 DEF QueryInv, ReadInv, ReadTypeOK
  <2>2. inbox # <<>> /\ IsQuery(Head(inbox)) /\ 1 \in DOMAIN inbox /\ Head(inbox) = inbox[1]
    BY <1>1, <2>1, TakesHead DEF AnswersQuery, IsQuery
  <2>3. query = "posted" /\ OneQuery(inbox)
    BY <2>1, <2>2 DEF QueryIsPosted, HasQuery
  <2>4. worker \notin {"broken", "dead"} /\ ~Resetting
    BY <1>1 DEF Settled, Resetting
  <2>5. sync[current] = "done"
    <3>1. current \in Syncs /\ sync[current] # "none"
      BY <2>1, <2>3 DEF QueryHasSync
    <3>2. CASE current = First
      BY <2>1, <2>3, <3>2 DEF QueryHasSync
    <3>3. CASE current \in Resyncs
      BY <1>1, <2>1, <3>1, <3>3 DEF Settled, SyncsHold
    <3>4. QED
      BY <3>1, <3>2, <3>3 DEF Syncs
  <2>6. owed \cap Retained \subseteq Ahead
    BY <2>1, <2>3, <2>4, <2>5 DEF OwedIsAhead, NothingBehind
  <2>7. RowsAhead(inbox) = {}
    BY <2>1, <2>2, <2>3, NothingIsAhead
  <2>8. QED
    BY <2>6, <2>7 DEF Ahead
<1>2. QueryInv => [AnswersQuery /\ Settled /\ sync[current] # "failed" =>
                     owed \cap Retained \subseteq model \cup missed]_readVars
  BY <1>1
<1>3. QED
  BY <1>2, QueryInitInv, QueryStepInv, PTL DEF ReadSpec, AnswersCover

=============================================================================
