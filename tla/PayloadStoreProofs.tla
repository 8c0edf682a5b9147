------------------------- MODULE PayloadStoreProofs -------------------------
(***************************************************************************)
(* Proofs about PayloadStore: the retention pass spares what it must and   *)
(* evicts in the order it should, for any writers, keys, objects, budget   *)
(* and faults.                                                             *)
(***************************************************************************)
EXTENDS PayloadStore, FiniteSetTheorems, SequenceTheorems, WellFoundedInduction, TLAPS

\* What a put in progress carries; only an announcement may lack an object.
PutHolds ==
    \A w \in Writers :
        \/ put[w] = NoPut
        \/ /\ put[w] \in Writing
           /\ put[w].pc \in {"writing", "closed", "promote"} => put[w].hash \in Hashes

PassIsRecord ==
    pass = [pc |-> pass.pc, live |-> pass.live, kept |-> pass.kept,
            order |-> pass.order, todo |-> pass.todo, total |-> pass.total]

\* The first `kept` events of the log are the last `kept` of those the pass
\* read: appends come behind them, trims take them from the front.
KeptIsSuffix ==
    /\ pass.live \in Seq(Events)
    /\ pass.kept \in 0..Len(log) /\ pass.kept <= Len(pass.live)
    /\ \A i \in 1..pass.kept : log[i] = pass.live[Len(pass.live) - pass.kept + i]
    /\ pass.pc \in {"idle", "trimmed"} => pass.kept = 0

\* What a sweep has still to delete was not named.
TodoIsUnnamed ==
    /\ pass.pc = "objects" => pass.todo \cap Named(pass.live) = {}
    /\ pass.pc = "staging" => pass.todo \cap LiveKeys(pass.live) = {}

StoreInv ==
    /\ log \in Seq(Events)
    /\ objects \subseteq Hashes
    /\ put \in [Writers -> Writing \cup {NoPut}]
    /\ PutHolds
    /\ PassIsRecord
    /\ KeptIsSuffix
    /\ TodoIsUnnamed

-----------------------------------------------------------------------------
LEMMA StoreInitInv == StoreInit => StoreInv
BY DEF StoreInit, StoreInv, PutHolds, PassIsRecord, KeptIsSuffix, TodoIsUnnamed, NoPass

(* A writer's step leaves the pass alone and the log's beginning too.      *)
LEMMA PutsKeepInv == ASSUME StoreInv, NEW w \in Writers, Puts(w) PROVE StoreInv'
<1> USE StoreAssumption DEF StoreInv, PutHolds, Writing, NoPut
<1>1. ASSUME UNCHANGED <<log, pass>> PROVE (PassIsRecord /\ KeptIsSuffix /\ TodoIsUnnamed)'
  BY <1>1 DEF PassIsRecord, KeptIsSuffix, TodoIsUnnamed, Named, LiveKeys
<1>2. CASE Begins(w)
  BY <1>1, <1>2 DEF Begins
<1>3. CASE Lands(w)
  BY <1>1, <1>3 DEF Lands, Steps
<1>4. CASE WriteFails(w)
  BY <1>1, <1>4 DEF WriteFails
<1>5. CASE PrefixLands(w)
  BY <1>1, <1>5 DEF PrefixLands
<1>6. CASE Resolves(w)
  BY <1>1, <1>6 DEF Resolves, Steps
<1>7. CASE Promotes(w)
  BY <1>1, <1>7 DEF Promotes, Steps
<1>8. CASE PromoteFails(w)
  BY <1>1, <1>8 DEF PromoteFails
<1>9. CASE Records(w)
  BY <1>1, <1>9 DEF Records, Steps
<1>10. CASE Announces(w)
  <2>1. [key |-> put[w].key, hash |-> put[w].hash] \in Events
    BY <1>10 DEF Announces, Events
  <2>2. log' \in Seq(Events) /\ Len(log') = Len(log) + 1 /\ \A i \in 1..Len(log) : log'[i] = log[i]
    BY <1>10, <2>1 DEF Announces
  <2>3. pass' = pass
    BY <1>10 DEF Announces
  <2>4. (PassIsRecord /\ TodoIsUnnamed)'
    BY <2>3 DEF PassIsRecord, TodoIsUnnamed, Named, LiveKeys
  <2>5. KeptIsSuffix'
    BY <2>2, <2>3 DEF KeptIsSuffix
  <2>6. QED
    BY <1>10, <2>2, <2>4, <2>5 DEF Announces
<1>11. QED
  BY <1>2, <1>3, <1>4, <1>5, <1>6, <1>7, <1>8, <1>9, <1>10 DEF Puts

(* A trim takes from the front.                                            *)
LEMMA DropsSuffix ==
    ASSUME log \in Seq(Events), NEW n \in 0..Len(log), Drops(n)
    PROVE  /\ log' \in Seq(Events)
           /\ Len(log') = Len(log) - n
           /\ \A i \in 1..(Len(log) - n) : log'[i] = log[i + n]
BY DEF Drops

LEMMA PassesKeepInv == ASSUME StoreInv, Passes PROVE StoreInv'
<1> USE StoreAssumption DEF StoreInv
<1>0. UNCHANGED put
  BY DEF Passes, Sweeps, Trims, ReadsLive, Prunes, Lists, SweepsObject, Deletes, ObjectsSwept, SweepsStaging,
      StagingSwept, Sizes, Evicts, PassEnds
<1>1. PutHolds'
  BY <1>0 DEF PutHolds
<1>2. CASE Trims
  <2>1. PICK n \in 0..Len(log) : Drops(n)
    BY <1>2 DEF Trims
  <2>2. log' \in Seq(Events)
    BY <2>1, DropsSuffix
  <2>3. pass' = [pass EXCEPT !.pc = "trimmed"] /\ pass.pc = "idle" /\ UNCHANGED objects
    BY <1>2 DEF Trims, PassGoes
  <2>4. PassIsRecord' /\ TodoIsUnnamed' /\ pass'.kept = 0 /\ pass'.live = pass.live
    BY <2>3 DEF PassIsRecord, TodoIsUnnamed, KeptIsSuffix
  <2>5. KeptIsSuffix'
    BY <2>2, <2>4 DEF KeptIsSuffix
  <2>6. QED
    BY <1>0, <1>1, <2>2, <2>3, <2>4, <2>5
<1>3. CASE ReadsLive
  <2>1. pass' = [NoPass EXCEPT !.pc = "prune", !.live = log, !.kept = Len(log), !.order = OldestFirst(log)]
        /\ UNCHANGED <<log, objects>>
    BY <1>3 DEF ReadsLive
  <2>2. PassIsRecord' /\ TodoIsUnnamed' /\ pass'.kept = Len(log) /\ pass'.live = log /\ pass'.pc = "prune"
    BY <2>1 DEF PassIsRecord, TodoIsUnnamed, NoPass
  <2>3. KeptIsSuffix'
    BY <2>1, <2>2 DEF KeptIsSuffix
  <2>4. QED
    BY <1>0, <1>1, <2>1, <2>2, <2>3
<1>4. ASSUME UNCHANGED log, PassIsRecord', objects' \subseteq objects,
             pass'.live = pass.live, pass'.kept = pass.kept,
             pass'.pc \notin {"idle", "trimmed"}, TodoIsUnnamed'
      PROVE  StoreInv'
  <2>1. KeptIsSuffix'
    BY <1>4 DEF KeptIsSuffix
  <2>2. QED
    BY <1>0, <1>1, <1>4, <2>1
<1>5. CASE Prunes
  BY <1>4, <1>5 DEF Prunes, PassGoes, PassIsRecord, TodoIsUnnamed
<1>6. CASE Lists
  BY <1>4, <1>6 DEF Lists, PassIsRecord, TodoIsUnnamed
<1>7. CASE SweepsObject
  BY <1>4, <1>7 DEF SweepsObject, Deletes, PassIsRecord, TodoIsUnnamed
<1>8. CASE ObjectsSwept
  BY <1>4, <1>8 DEF ObjectsSwept, PassIsRecord, TodoIsUnnamed
<1>9. CASE SweepsStaging
  BY <1>4, <1>9 DEF SweepsStaging, PassIsRecord, TodoIsUnnamed
<1>10. CASE StagingSwept
  BY <1>4, <1>10 DEF StagingSwept, PassGoes, PassIsRecord, TodoIsUnnamed
<1>11. CASE Sizes
  BY <1>4, <1>11 DEF Sizes, PassIsRecord, TodoIsUnnamed
<1>12. CASE Evicts
  BY <1>4, <1>12 DEF Evicts, Deletes, PassIsRecord, TodoIsUnnamed
<1>13. CASE PassEnds
  BY <1>0, <1>1, <1>13 DEF PassEnds, NoPass, PassIsRecord, KeptIsSuffix, TodoIsUnnamed
<1>14. QED
  BY <1>2, <1>3, <1>5, <1>6, <1>7, <1>8, <1>9, <1>10, <1>11, <1>12, <1>13 DEF Passes, Sweeps

LEMMA StoreStepInv == StoreInv /\ [StoreNext]_storeVars => StoreInv'
<1> SUFFICES ASSUME StoreInv, [StoreNext]_storeVars PROVE StoreInv'
  OBVIOUS
<1>1. CASE \E w \in Writers : Puts(w)
  BY <1>1, PutsKeepInv
<1>2. CASE Passes
  BY <1>2, PassesKeepInv
<1>3. CASE PanicTrims
  <2> USE DEF StoreInv
  <2>1. PICK n \in 1..Len(log) : Drops(n) /\ pass' = [pass EXCEPT !.kept = IF @ > n THEN @ - n ELSE 0]
    BY <1>3 DEF PanicTrims
  <2>2. n \in 0..Len(log)
    OBVIOUS
  <2>3. /\ log' \in Seq(Events)
        /\ Len(log') = Len(log) - n
        /\ \A i \in 1..(Len(log) - n) : log'[i] = log[i + n]
    BY <2>1, <2>2, DropsSuffix
  <2>4. UNCHANGED <<objects, put>>
    BY <1>3 DEF PanicTrims
  <2>5. /\ pass'.kept = IF pass.kept > n THEN pass.kept - n ELSE 0
        /\ pass'.pc = pass.pc /\ pass'.live = pass.live /\ pass'.todo = pass.todo
        /\ PassIsRecord'
    BY <2>1 DEF PassIsRecord
  <2>6. TodoIsUnnamed' /\ PutHolds'
    BY <2>4, <2>5 DEF TodoIsUnnamed, PutHolds, Named, LiveKeys
  <2>7. KeptIsSuffix'
    <3>1. /\ pass'.kept \in 0..Len(log') /\ pass'.kept <= Len(pass'.live)
          /\ pass'.live \in Seq(Events)
          /\ pass'.pc \in {"idle", "trimmed"} => pass'.kept = 0
      BY <2>2, <2>3, <2>5 DEF KeptIsSuffix
    <3>2. ASSUME NEW i \in 1..pass'.kept
          PROVE  log'[i] = pass'.live[Len(pass'.live) - pass'.kept + i]
      <4>1. pass'.kept = pass.kept - n /\ i \in 1..(Len(log) - n) /\ i + n \in 1..pass.kept
        BY <2>2, <2>5, <3>2 DEF KeptIsSuffix
      <4>2. log'[i] = log[i + n]
        BY <2>3, <4>1
      <4>3. log[i + n] = pass.live[Len(pass.live) - pass.kept + (i + n)]
        BY <4>1 DEF KeptIsSuffix
      <4>4. Len(pass.live) - pass.kept + (i + n) = Len(pass'.live) - pass'.kept + i
        BY <2>2, <2>5, <4>1 DEF KeptIsSuffix
      <4>5. QED
        BY <2>5, <4>2, <4>3, <4>4
    <3>3. QED
      BY <3>1, <3>2 DEF KeptIsSuffix
  <2>8. QED
    BY <2>3, <2>4, <2>5, <2>6, <2>7
<1>4. CASE Killed
  BY <1>4 DEF Killed, StoreInv, PutHolds, PassIsRecord, KeptIsSuffix, TodoIsUnnamed, NoPass
<1>5. CASE UNCHANGED storeVars
  BY <1>5 DEF storeVars, StoreInv, PutHolds, PassIsRecord, KeptIsSuffix, TodoIsUnnamed, Named, LiveKeys
<1>6. QED
  BY <1>1, <1>2, <1>3, <1>4, <1>5 DEF StoreNext

-----------------------------------------------------------------------------
(* What the pass spares was named when it read the log.                    *)
LEMMA KeptIsNamed ==
    ASSUME StoreInv, NEW i \in 1..pass.kept
    PROVE  /\ log[i].key \in LiveKeys(pass.live)
           /\ log[i].hash \in objects => log[i].hash \in Named(pass.live)
<1> DEFINE j == Len(pass.live) - pass.kept + i
<1>1. j \in 1..Len(pass.live) /\ log[i] = pass.live[j]
  BY DEF StoreInv, KeptIsSuffix
<1>2. QED
  BY <1>1, StoreAssumption DEF StoreInv, Named, LiveKeys

LEMMA PassStepSpares ==
    ASSUME StoreInv, Passes, NEW i \in 1..pass.kept
    PROVE  /\ log[i].hash \in objects => log[i].hash \in objects' \/ pass.total > Budget
           /\ log[i].key \in staging => log[i].key \in staging'
           /\ log[i].key \in meta => log[i].key \in meta'
<1>1. /\ log[i].key \in LiveKeys(pass.live)
      /\ log[i].hash \in objects => log[i].hash \in Named(pass.live)
  BY KeptIsNamed
<1>2. CASE UNCHANGED <<objects, staging, meta>>
  BY <1>2
<1>3. CASE Prunes
  BY <1>1, <1>3 DEF Prunes
<1>4. CASE SweepsObject
  BY <1>1, <1>4 DEF SweepsObject, Deletes, StoreInv, TodoIsUnnamed
<1>5. CASE SweepsStaging
  BY <1>1, <1>5 DEF SweepsStaging, StoreInv, TodoIsUnnamed
<1>6. CASE Evicts
  BY <1>6 DEF Evicts, Deletes
<1>7. QED
  BY <1>2, <1>3, <1>4, <1>5, <1>6 DEF Passes, Sweeps, Trims, ReadsLive, Lists, ObjectsSwept, StagingSwept,
      Sizes, PassEnds

(* A retention pass, interleaved with any writers, panic trims and kills,  *)
(* deletes no object, staged prefix or record that was named when it read  *)
(* the log (service-worker.js pass), but objects over the budget.          *)
THEOREM PassSparesNamed == StoreSpec => PassSpares
<1>1. StoreInv /\ [StoreNext]_storeVars =>
        [Passes => \A i \in 1..pass.kept :
           /\ log[i].hash \in objects => log[i].hash \in objects' \/ pass.total > Budget
           /\ log[i].key \in staging => log[i].key \in staging'
           /\ log[i].key \in meta => log[i].key \in meta']_storeVars
  BY PassStepSpares
<1>2. QED
  BY <1>1, StoreInitInv, StoreStepInv, PTL DEF StoreSpec, PassSpares

-----------------------------------------------------------------------------
LEMMA LeastNumber == ASSUME NEW S, S \subseteq Nat, S # {} PROVE \E n \in S : \A m \in S : n <= m
<1>1. PICK n \in S : \A m \in S : ~(<<m, n>> \in OpToRel(<, Nat))
  BY WFMin, NatLessThanWellFounded
<1>2. \A m \in S : ~(m < n)
  BY <1>1, Zenon DEF OpToRel
<1>3. QED
  BY <1>2

(* The order of eviction.  Removing an entry from a list that has it once  *)
(* keeps the order of the others.                                          *)
Distinct(s) == \A i, j \in DOMAIN s : s[i] = s[j] => i = j

\* Every pair of t, in its order, is a pair of s in its order, without x.
Keeps(t, s, x) ==
    /\ \A i \in DOMAIN t : t[i] # x
    /\ \A i, j \in DOMAIN t : i < j => \E k, l \in DOMAIN s : k < l /\ t[i] = s[k] /\ t[j] = s[l]

LEMMA RemovedOnce ==
    ASSUME NEW s \in Seq(Hashes), NEW x, Distinct(s)
    PROVE  RemoveFirst(s, x) \in Seq(Hashes) /\ Keeps(RemoveFirst(s, x), s, x)
<1>1. CASE ~\E i \in 1..Len(s) : s[i] = x
  BY <1>1 DEF RemoveFirst, Keeps
<1>2. CASE \E i \in 1..Len(s) : s[i] = x
  <2> DEFINE I == {i \in 1..Len(s) : s[i] = x}
             n == Min(I)
  <2>1. PICK i \in I : \A k \in I : i <= k
    <3>1. I \subseteq Nat /\ I # {}
      BY <1>2
    <3>2. QED
      BY <3>1, LeastNumber
  <2>2. n \in I
    BY <2>1 DEF Min
  <2> DEFINE t == SubSeq(s, 1, n - 1) \o SubSeq(s, n + 1, Len(s))
  <2>3. RemoveFirst(s, x) = t
    BY <1>2, <2>1 DEF RemoveFirst, RemoveAt, SelectInSeq
  <2>4. n \in 1..Len(s) /\ s[n] = x
    BY <2>2
  <2> HIDE DEF n, I
  <2>5. \A k \in 1..Len(s) : k # n => s[k] # x
    BY <2>4 DEF Distinct
  <2>6. t \in Seq(Hashes) /\ Len(t) = Len(s) - 1 /\ \A k \in 1..Len(t) : t[k] = IF k < n THEN s[k] ELSE s[k + 1]
    <3> DEFINE u == SubSeq(s, 1, n - 1)
               v == SubSeq(s, n + 1, Len(s))
    <3>1. u \in Seq(Hashes) /\ Len(u) = n - 1 /\ \A k \in 1..(n - 1) : u[k] = s[k]
      BY <2>4
    <3>2. v \in Seq(Hashes) /\ Len(v) = Len(s) - n /\ \A k \in 1..(Len(s) - n) : v[k] = s[k + n]
      BY <2>4
    <3> HIDE DEF u, v
    <3>3. /\ u \o v \in Seq(Hashes) /\ Len(u \o v) = Len(s) - 1
          /\ \A k \in 1..(Len(s) - 1) : (u \o v)[k] = IF k <= n - 1 THEN u[k] ELSE v[k - (n - 1)]
      <4>1. /\ u \o v \in Seq(Hashes) /\ Len(u \o v) = Len(u) + Len(v)
            /\ \A k \in 1..(Len(u) + Len(v)) : (u \o v)[k] = IF k <= Len(u) THEN u[k] ELSE v[k - Len(u)]
        BY <3>1, <3>2, ConcatProperties
      <4>2. Len(u) = n - 1 /\ Len(u) + Len(v) = Len(s) - 1
        BY <2>4, <3>1, <3>2
      <4>3. QED
        BY <4>1, <4>2
    <3>4. \A k \in 1..(Len(s) - 1) : k >= n => v[k - (n - 1)] = s[k + 1]
      <4>1. \A k \in 1..(Len(s) - 1) : k >= n => k - (n - 1) \in 1..(Len(s) - n) /\ k - (n - 1) + n = k + 1
        BY <2>4
      <4>2. QED
        BY <3>2, <4>1
    <3>5. t = u \o v
      BY DEF u, v
    <3>6. \A k \in 1..(Len(s) - 1) : (u \o v)[k] = IF k < n THEN s[k] ELSE s[k + 1]
      <4>1. \A k \in 1..(Len(s) - 1) : (k <= n - 1 <=> k < n) /\ (k < n => k \in 1..(n - 1)) /\ (~(k < n) => k >= n)
        BY <2>4
      <4>2. QED
        BY <3>1, <3>3, <3>4, <4>1
    <3> HIDE DEF t
    <3>7. QED
      BY <3>3, <3>5, <3>6
  <2> HIDE DEF t
  <2>7. \A k \in DOMAIN t : t[k] # x
    BY <2>4, <2>5, <2>6
  <2>8. ASSUME NEW k \in DOMAIN t, NEW l \in DOMAIN t, k < l
        PROVE  \E a, b \in DOMAIN s : a < b /\ t[k] = s[a] /\ t[l] = s[b]
    <3> DEFINE a == IF k < n THEN k ELSE k + 1
               b == IF l < n THEN l ELSE l + 1
    <3>1. a \in DOMAIN s /\ b \in DOMAIN s /\ a < b /\ t[k] = s[a] /\ t[l] = s[b]
      BY <2>4, <2>6, <2>8
    <3>2. QED
      BY <3>1
  <2>9. QED
    BY <2>3, <2>6, <2>7, <2>8 DEF Keeps
<1>3. QED
  BY <1>1, <1>2

\* f lists the order after each of the first n events.
Orders(events, n, f) ==
    f = [m \in 0..n |->
           IF m = 0 THEN <<>>
           ELSE IF events[m].hash = NoHash THEN f[m - 1]
           ELSE Append(RemoveFirst(f[m - 1], events[m].hash), events[m].hash)]

LEMMA OrdersExist == ASSUME NEW events, NEW n \in Nat PROVE \E f : Orders(events, n, f)
<1> DEFINE Without == {m \in Nat : ~\E f : Orders(events, m, f)}
<1>1. SUFFICES ASSUME Without # {} PROVE FALSE
  OBVIOUS
<1>2. PICK m \in Without : \A k \in Without : m <= k
  BY <1>1, LeastNumber
<1>3. CASE m = 0
  <2>1. Orders(events, 0, [k \in 0..0 |-> <<>>])
    BY DEF Orders
  <2>2. QED
    BY <1>3, <2>1
<1>4. CASE m # 0
  <2>1. PICK f : Orders(events, m - 1, f)
    BY <1>2, <1>4
  <2> DEFINE next(g, k) == IF k = 0 THEN <<>>
                           ELSE IF events[k].hash = NoHash THEN g[k - 1]
                           ELSE Append(RemoveFirst(g[k - 1], events[k].hash), events[k].hash)
             g == [k \in 0..m |-> next(f, k)]
  <2>2. f = [k \in 0..(m - 1) |-> next(f, k)]
    BY <2>1 DEF Orders
  <2>3. \A k \in 0..(m - 1) : g[k] = f[k]
    <3> HIDE DEF next
    <3>1. \A k \in 0..(m - 1) : f[k] = next(f, k)
      BY <2>2
    <3>2. QED
      BY <3>1
  <2>4. \A k \in 0..m : k = 0 \/ g[k - 1] = f[k - 1]
    <3>1. \A k \in 0..m : k = 0 \/ k - 1 \in 0..(m - 1)
      OBVIOUS
    <3> HIDE DEF g
    <3>2. QED
      BY <2>3, <3>1
  <2>5. Orders(events, m, g)
    <3> HIDE DEF g
    <3>1. \A k \in 0..m : next(f, k) = next(g, k)
      BY <2>4
    <3>2. g = [k \in 0..m |-> next(g, k)]
      BY <3>1 DEF g
    <3>3. QED
      BY <3>2 DEF Orders
  <2>6. QED
    BY <2>5
<1>5. QED
  BY <1>3, <1>4

\* Among the first n events one names g after all that name h.
NamedAfter(events, n, h, g) ==
    \E k \in 1..n : events[k].hash = g /\ \A i \in k..n : events[i].hash # h

ByNewest(events, n, s) ==
    /\ s \in Seq(Hashes)
    /\ \A i, j \in DOMAIN s : i < j => NamedAfter(events, n, s[i], s[j])

LEMMA OrderStep ==
    ASSUME NEW events \in Seq(Events), NEW n \in 1..Len(events), NEW s, ByNewest(events, n - 1, s)
    PROVE  ByNewest(events, n, IF events[n].hash = NoHash THEN s
                               ELSE Append(RemoveFirst(s, events[n].hash), events[n].hash))
<1> DEFINE x == events[n].hash
<1>1. x \in Hashes \cup {NoHash} /\ s \in Seq(Hashes)
  <2>1. events[n] \in Events
    BY ElementOfSeq
  <2>2. QED
    BY <2>1 DEF Events, ByNewest
<1>2. ASSUME NEW h \in Hashes, NEW g, NamedAfter(events, n - 1, h, g), h # x
      PROVE  NamedAfter(events, n, h, g)
  <2>1. PICK k \in 1..(n - 1) : events[k].hash = g /\ \A i \in k..(n - 1) : events[i].hash # h
    BY <1>2 DEF NamedAfter
  <2>2. k \in 1..n /\ \A i \in k..n : i \in k..(n - 1) \/ i = n
    OBVIOUS
  <2>3. QED
    BY <1>2, <2>1, <2>2 DEF NamedAfter
<1> HIDE DEF x
<1>3. CASE x = NoHash
  <2>1. \A h \in Hashes : h # x
    BY <1>3, StoreAssumption
  <2>2. QED
    BY <1>1, <1>2, <1>3, <2>1 DEF ByNewest, x
<1>4. CASE x # NoHash
  <2> DEFINE t == RemoveFirst(s, x)
             r == Append(t, x)
  <2>1. Distinct(s)
    <3> SUFFICES ASSUME NEW i \in DOMAIN s, NEW j \in DOMAIN s, i < j, s[i] = s[j] PROVE FALSE
      BY <1>1 DEF Distinct
    <3>1. PICK k \in 1..(n - 1) : events[k].hash = s[j] /\ \A m \in k..(n - 1) : events[m].hash # s[i]
      BY DEF ByNewest, NamedAfter
    <3>2. k \in k..(n - 1)
      OBVIOUS
    <3>3. QED
      BY <3>1, <3>2
  <2>2. t \in Seq(Hashes) /\ Keeps(t, s, x)
    BY <1>1, <2>1, RemovedOnce
  <2> HIDE DEF t
  <2>3. r \in Seq(Hashes) /\ Len(r) = Len(t) + 1 /\ r[Len(r)] = x /\ \A i \in DOMAIN t : r[i] = t[i]
    BY <1>1, <1>4, <2>2
  <2>4. ASSUME NEW i \in DOMAIN r, NEW j \in DOMAIN r, i < j PROVE NamedAfter(events, n, r[i], r[j])
    <3>1. i \in DOMAIN t /\ r[i] = t[i] /\ t[i] # x /\ t[i] \in Hashes
      BY <2>2, <2>3, <2>4 DEF Keeps
    <3>2. CASE j \in DOMAIN t
      <4>1. PICK k \in DOMAIN s, l \in DOMAIN s : k < l /\ t[i] = s[k] /\ t[j] = s[l]
        BY <2>4, <3>1, <3>2, <2>2 DEF Keeps
      <4>2. NamedAfter(events, n - 1, t[i], t[j])
        BY <4>1 DEF ByNewest
      <4>3. QED
        BY <1>2, <2>3, <3>1, <3>2, <4>2
    <3>3. CASE j \notin DOMAIN t
      <4>1. r[j] = x
        BY <2>2, <2>3, <3>3
      <4>2. n \in 1..n /\ events[n].hash = x /\ \A m \in n..n : events[m].hash # r[i]
        BY <3>1 DEF x
      <4>3. QED
        BY <4>1, <4>2 DEF NamedAfter
    <3>4. QED
      BY <3>2, <3>3
  <2>5. QED
    BY <1>4, <2>3, <2>4 DEF ByNewest, x, t
<1>5. QED
  BY <1>3, <1>4

LEMMA OldestFirstIsByNewest ==
    ASSUME NEW events \in Seq(Events)
    PROVE  ByNewest(events, Len(events), OldestFirst(events))
<1> DEFINE f == CHOOSE g : Orders(events, Len(events), g)
           Wrong == {n \in 0..Len(events) : ~ByNewest(events, n, f[n])}
<1>1. Orders(events, Len(events), f)
  BY OrdersExist
<1>2. OldestFirst(events) = f[Len(events)]
  BY DEF OldestFirst, Orders
<1> HIDE DEF f
<1>3. /\ f[0] = <<>>
      /\ \A n \in 1..Len(events) :
           f[n] = IF events[n].hash = NoHash THEN f[n - 1]
                  ELSE Append(RemoveFirst(f[n - 1], events[n].hash), events[n].hash)
  <2> DEFINE next(m) == IF m = 0 THEN <<>>
                        ELSE IF events[m].hash = NoHash THEN f[m - 1]
                        ELSE Append(RemoveFirst(f[m - 1], events[m].hash), events[m].hash)
  <2>1. f = [m \in 0..Len(events) |-> next(m)]
    BY <1>1 DEF Orders
  <2> HIDE DEF next
  <2>2. \A m \in 0..Len(events) : f[m] = next(m)
    BY <2>1
  <2>3. 0 \in 0..Len(events) /\ \A m \in 1..Len(events) : m \in 0..Len(events) /\ m # 0
    OBVIOUS
  <2>4. QED
    BY <2>2, <2>3 DEF next
<1>4. ByNewest(events, 0, f[0])
  BY <1>3 DEF ByNewest
<1>5. SUFFICES ASSUME Wrong # {} PROVE FALSE
  BY <1>2
<1>6. PICK n \in Wrong : \A m \in Wrong : n <= m
  <2>1. Wrong \subseteq Nat
    OBVIOUS
  <2>2. QED
    BY <1>5, <2>1, LeastNumber
<1>7. n \in 1..Len(events) /\ n - 1 \in 0..Len(events) /\ n - 1 \notin Wrong
  BY <1>4, <1>6
<1>8. ByNewest(events, n - 1, f[n - 1])
  BY <1>7
<1>9. ByNewest(events, n, f[n])
  BY <1>3, <1>7, <1>8, OrderStep
<1>10. QED
  BY <1>9

LEMMA OldestDropsOut ==
    ASSUME NEW events, NEW n, NEW s, ByNewest(events, n, s), s # <<>>
    PROVE  ByNewest(events, n, Tail(s)) /\ Head(s) \in Hashes
<1>1. /\ s \in Seq(Hashes) /\ Tail(s) \in Seq(Hashes) /\ Head(s) \in Hashes
      /\ \A i \in DOMAIN Tail(s) : i + 1 \in DOMAIN s /\ Tail(s)[i] = s[i + 1]
  BY DEF ByNewest
<1>2. ASSUME NEW i \in DOMAIN Tail(s), NEW j \in DOMAIN Tail(s), i < j
      PROVE  NamedAfter(events, n, Tail(s)[i], Tail(s)[j])
  <2>1. i + 1 < j + 1
    BY <1>1, <1>2
  <2>2. QED
    BY <1>1, <2>1 DEF ByNewest
<1>3. QED
  BY <1>1, <1>2 DEF ByNewest

(***************************************************************************)
(* EvictsOldest is about one step, but the list that step takes from was   *)
(* made when the pass read the log, of the same events as pass.live.       *)
(***************************************************************************)
EvictInv == StoreInv /\ ByNewest(pass.live, Len(pass.live), pass.order)

LEMMA EvictInitInv == StoreInit => EvictInv
<1> SUFFICES ASSUME StoreInit PROVE EvictInv
  OBVIOUS
<1>1. pass.order = <<>>
  BY DEF StoreInit, NoPass
<1>2. QED
  BY <1>1, StoreInitInv DEF EvictInv, ByNewest

LEMMA EvictStepInv == EvictInv /\ [StoreNext]_storeVars => EvictInv'
<1> SUFFICES ASSUME EvictInv, [StoreNext]_storeVars PROVE EvictInv'
  OBVIOUS
<1>1. StoreInv' /\ PassIsRecord /\ ByNewest(pass.live, Len(pass.live), pass.order)
  BY StoreStepInv DEF EvictInv, StoreInv
<1>2. CASE pass'.live = pass.live /\ pass'.order = pass.order
  BY <1>1, <1>2 DEF EvictInv
<1>3. CASE pass' = NoPass
  <2>1. pass'.order = <<>>
    BY <1>3 DEF NoPass
  <2>2. QED
    BY <1>1, <2>1 DEF EvictInv, ByNewest
<1>4. CASE ReadsLive
  <2>1. pass'.live = log /\ pass'.order = OldestFirst(log)
    BY <1>4 DEF ReadsLive, NoPass
  <2>2. log \in Seq(Events)
    BY DEF EvictInv, StoreInv
  <2>3. QED
    BY <1>1, <2>1, <2>2, OldestFirstIsByNewest DEF EvictInv
<1>5. CASE Evicts
  <2>1. pass.order # <<>> /\ pass'.live = pass.live /\ pass'.order = Tail(pass.order)
    BY <1>1, <1>5 DEF Evicts, PassIsRecord
  <2>2. QED
    BY <1>1, <2>1, OldestDropsOut DEF EvictInv
<1>6. CASE \E w \in Writers : Puts(w)
  <2>1. UNCHANGED pass
    BY <1>6 DEF Puts, Begins, Lands, WriteFails, PrefixLands, Resolves, Promotes, PromoteFails, Records, Announces
  <2>2. QED
    BY <1>2, <2>1
<1>7. CASE Passes
  <2>1. CASE Trims \/ Prunes \/ Lists \/ SweepsObject \/ ObjectsSwept \/ SweepsStaging \/ StagingSwept \/ Sizes
    BY <1>1, <1>2, <2>1 DEF PassIsRecord, PassGoes, Trims, Prunes, Lists, SweepsObject, ObjectsSwept, SweepsStaging, StagingSwept, Sizes
  <2>2. QED
    BY <1>3, <1>4, <1>5, <1>7, <2>1 DEF Passes, Sweeps, PassEnds
<1>8. CASE PanicTrims
  <2>1. pass'.live = pass.live /\ pass'.order = pass.order
    BY <1>1, <1>8 DEF PanicTrims, PassIsRecord
  <2>2. QED
    BY <1>2, <2>1
<1>9. CASE Killed
  BY <1>3, <1>9 DEF Killed
<1>10. CASE UNCHANGED storeVars
  BY <1>2, <1>10 DEF storeVars
<1>11. QED
  BY <1>6, <1>7, <1>8, <1>9, <1>10 DEF StoreNext

LEMMA NewestIsLast ==
    ASSUME StoreInv, NEW h \in Hashes, NEW g \in Hashes, NamedAfter(pass.live, Len(pass.live), h, g)
    PROVE  NewestReference(h) < NewestReference(g)
<1> DEFINE n == Len(pass.live)
           references(x) == {i \in 1..n : pass.live[i].hash = x}
           Newest(x, i) == i \in references(x) /\ \A j \in references(x) : j <= i
<1>1. n \in Nat
  BY DEF StoreInv, KeptIsSuffix
<1>2. ASSUME NEW x, references(x) # {} PROVE \E i : Newest(x, i)
  <2> DEFINE Back == {n - j : j \in references(x)}
  <2>1. \A j \in references(x) : j \in 1..n /\ n - j \in Nat
    BY <1>1
  <2>2. Back \subseteq Nat
    <3> HIDE DEF references
    <3>1. QED
      BY <2>1
  <2>3. Back # {}
    BY <1>2
  <2>4. PICK m \in Back : \A k \in Back : m <= k
    BY <2>2, <2>3, LeastNumber
  <2>5. PICK i \in references(x) : m = n - i
    BY <2>4
  <2>6. \A j \in references(x) : n - i <= n - j
    BY <2>4, <2>5
  <2>7. \A j \in references(x) : j <= i
    <3> HIDE DEF references
    <3>1. QED
      BY <1>1, <2>1, <2>5, <2>6
  <2>8. QED
    BY <2>5, <2>7
<1>3. \A x : NewestReference(x) = IF references(x) = {} THEN 0 ELSE CHOOSE i : Newest(x, i)
  BY DEF NewestReference
<1>4. PICK k \in 1..n : pass.live[k].hash = g /\ \A i \in k..n : pass.live[i].hash # h
  BY DEF NamedAfter
<1>5. Newest(g, NewestReference(g)) /\ k <= NewestReference(g)
  BY <1>2, <1>3, <1>4
<1>6. NewestReference(h) < k
  <2>1. CASE references(h) = {}
    BY <1>3, <1>4, <2>1
  <2>2. CASE references(h) # {}
    <3>1. Newest(h, NewestReference(h))
      BY <1>2, <1>3, <2>2
    <3>2. QED
      BY <1>1, <1>4, <3>1
  <2>3. QED
    BY <2>1, <2>2
<1>7. NewestReference(h) \in Int /\ NewestReference(g) \in Int
  <2>1. \A x : NewestReference(x) \in references(x) \cup {0}
    BY <1>2, <1>3
  <2>2. QED
    BY <1>1, <2>1
<1>8. QED
  BY <1>5, <1>6, <1>7

(* To get under its budget a pass deletes an object only when every other  *)
(* candidate still there was announced after it, whatever was stored,      *)
(* announced or trimmed since it read the log (log.js liveObjects,         *)
(* blobs.js evictTo).                                                      *)
THEOREM EvictionIsOldestFirst == StoreSpec => EvictsOldest
<1>1. ASSUME EvictInv, Evicts, NEW h \in objects \ objects', NEW g \in objects' \cap Range(pass.order)
      PROVE  NewestReference(h) < NewestReference(g)
  <2>1. StoreInv /\ ByNewest(pass.live, Len(pass.live), pass.order) /\ pass.order \in Seq(Hashes) /\ pass.order # <<>>
    BY <1>1 DEF EvictInv, ByNewest, Evicts
  <2>2. h = Head(pass.order) /\ g # h
    BY <1>1 DEF Evicts, Deletes
  <2>3. h = pass.order[1] /\ 1 \in DOMAIN pass.order
    BY <2>1, <2>2
  <2>4. PICK j \in DOMAIN pass.order : g = pass.order[j]
    BY DEF Range
  <2>5. 1 < j
    BY <2>1, <2>2, <2>3, <2>4
  <2>6. NamedAfter(pass.live, Len(pass.live), h, g)
    BY <2>1, <2>3, <2>4, <2>5 DEF ByNewest
  <2>7. h \in Hashes /\ g \in Hashes
    BY <2>1, <2>3, <2>4
  <2>8. QED
    BY <2>1, <2>6, <2>7, NewestIsLast
<1>2. EvictInv => [Evicts => \A h \in objects \ objects', g \in objects' \cap Range(pass.order) :
                     NewestReference(h) < NewestReference(g)]_storeVars
  BY <1>1
<1>3. QED
  BY <1>2, EvictInitInv, EvictStepInv, PTL DEF StoreSpec, EvictsOldest

(***************************************************************************)
(* Types.  The candidates' order is a sequence of hashes by ByNewest, and  *)
(* their number never drops below zero, since a pass deletes only while it *)
(* is over the budget.                                                     *)
(***************************************************************************)
LEMMA StoreTypesKept == EvictInv /\ EvictInv' /\ StoreTypeOK /\ [StoreNext]_storeVars => StoreTypeOK'
<1> SUFFICES ASSUME EvictInv, EvictInv', StoreTypeOK, [StoreNext]_storeVars PROVE StoreTypeOK'
  OBVIOUS
<1>1. /\ log' \in Seq(Events) /\ objects' \subseteq Hashes /\ put' \in [Writers -> Writing \cup {NoPut}]
      /\ pass'.order \in Seq(Hashes) /\ pass'.kept \in 0..Len(log') /\ pass'.live \in Seq(Events)
  BY DEF EvictInv, StoreInv, KeptIsSuffix, ByNewest
<1>2. PassIsRecord /\ meta \subseteq Keys /\ staging \subseteq Keys /\ faults \in 0..MaxFaults
      /\ put \in [Writers -> Writing \cup {NoPut}] /\ objects \subseteq Hashes
      /\ pass.pc \in PassPhases /\ pass.total \in 0..Cardinality(Hashes)
  BY DEF EvictInv, StoreInv, StoreTypeOK
<1>3. MaxFaults \in Nat /\ Budget \in Nat /\ Cardinality(Hashes) \in Nat
  BY StoreAssumption, FS_CardinalityType
<1>4. Fault => faults' \in 0..MaxFaults
  BY <1>2, <1>3 DEF Fault
<1> DEFINE Rest == /\ meta' \subseteq Keys /\ staging' \subseteq Keys /\ faults' \in 0..MaxFaults
                   /\ pass'.pc \in PassPhases /\ pass'.total \in 0..Cardinality(Hashes)
<1>5. SUFFICES Rest
  BY <1>1 DEF StoreTypeOK
<1>6. NoPass.pc \in PassPhases /\ NoPass.total \in 0..Cardinality(Hashes)
  BY <1>3 DEF NoPass, PassPhases
<1>7. ASSUME NEW w \in Writers, Puts(w) PROVE Rest
  <2>1. UNCHANGED pass /\ faults' \in 0..MaxFaults
    BY <1>2, <1>4, <1>7 DEF Puts, Begins, Lands, WriteFails, PrefixLands, Resolves, Promotes, PromoteFails,
        Records, Announces
  <2>2. staging' \subseteq Keys
    BY <1>2, <1>7 DEF Puts, Begins, Lands, WriteFails, PrefixLands, Resolves, Promotes, PromoteFails,
        Records, Announces, Unstages
  <2>3. meta' \subseteq Keys
    <3>1. put[w].pc = "stored" => put[w].key \in Keys
      BY <1>2 DEF Writing, NoPut
    <3>2. QED
      BY <1>2, <1>7, <3>1 DEF Puts, Begins, Lands, WriteFails, PrefixLands, Resolves, Promotes, PromoteFails,
          Records, Announces
  <2>4. QED
    BY <1>2, <2>1, <2>2, <2>3
<1>8. CASE Passes
  <2>1. UNCHANGED faults /\ meta' \subseteq Keys /\ staging' \subseteq Keys
    BY <1>2, <1>8 DEF Passes, Sweeps, Trims, ReadsLive, Prunes, Lists, SweepsObject, Deletes, ObjectsSwept,
        SweepsStaging, StagingSwept, Sizes, Evicts, PassEnds
  <2>2. CASE Trims \/ Prunes \/ Lists \/ SweepsObject \/ ObjectsSwept \/ SweepsStaging \/ StagingSwept
    <3>1. pass'.total = pass.total /\ pass'.pc \in PassPhases
      BY <1>2, <2>2 DEF PassIsRecord, PassGoes, PassPhases, Trims, Prunes, Lists, SweepsObject, ObjectsSwept,
          SweepsStaging, StagingSwept
    <3>2. QED
      BY <1>2, <2>1, <3>1
  <2>3. CASE ReadsLive
    <3>1. pass'.total = 0 /\ pass'.pc = "prune"
      BY <2>3 DEF ReadsLive, NoPass
    <3>2. QED
      BY <1>2, <1>3, <2>1, <3>1 DEF PassPhases
  <2>4. CASE Sizes
    <3>1. pass'.total = Cardinality(objects) /\ pass'.pc = "evict"
      BY <1>2, <2>4 DEF Sizes, PassIsRecord
    <3>2. Cardinality(objects) \in Nat /\ Cardinality(objects) <= Cardinality(Hashes)
      BY <1>2, StoreAssumption, FS_Subset, FS_CardinalityType
    <3>3. QED
      BY <1>2, <1>3, <2>1, <3>1, <3>2 DEF PassPhases
  <2>5. CASE Evicts
    <3>1. pass'.total \in {pass.total, pass.total - 1} /\ pass'.pc = pass.pc /\ pass.total > Budget
      BY <1>2, <2>5 DEF Evicts, PassIsRecord
    <3>2. QED
      BY <1>2, <1>3, <2>1, <3>1
  <2>6. CASE PassEnds
    BY <1>2, <1>6, <2>1, <2>6 DEF PassEnds
  <2>7. QED
    BY <1>8, <2>2, <2>3, <2>4, <2>5, <2>6 DEF Passes, Sweeps
<1>9. CASE PanicTrims
  <2>1. pass'.total = pass.total /\ pass'.pc = pass.pc /\ Fault /\ UNCHANGED <<meta, staging>>
    BY <1>2, <1>9 DEF PanicTrims, PassIsRecord
  <2>2. QED
    BY <1>2, <1>4, <2>1
<1>10. CASE Killed
  BY <1>2, <1>4, <1>6, <1>10 DEF Killed
<1>11. CASE UNCHANGED storeVars
  BY <1>2, <1>11 DEF storeVars
<1>12. QED
  BY <1>7, <1>8, <1>9, <1>10, <1>11 DEF StoreNext

(* The store, the writers and the pass keep their types, for any finite    *)
(* set of hashes: in particular what evictTo counts stays a number of      *)
(* objects (blobs.js:393-410).                                             *)
THEOREM StoreTypeCorrect == StoreSpec => []StoreTypeOK
<1>1. StoreInit => StoreTypeOK
  BY StoreAssumption, FS_CardinalityType DEF StoreInit, StoreTypeOK, NoPass, NoPut, PassPhases
<1>2. QED
  BY <1>1, EvictInitInv, EvictStepInv, StoreTypesKept, PTL DEF StoreSpec
=============================================================================
