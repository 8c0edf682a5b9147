------------------------ MODULE BackgroundFetchProofs ------------------------
(***************************************************************************)
(* Proofs about BackgroundFetch: types, the truth of a pending record and  *)
(* the permanence of an answer, for any rows and any number of             *)
(* announcements, pulls and faults.                                        *)
(***************************************************************************)
EXTENDS BackgroundFetch, TLAPS

\* A row that shows an answer is not the one that waits for the next, and a
\* timer of its own finds no entry to speak for.
AnswersSettled ==
    \A r \in Rows \ overlapped : text[r] \in Answers =>
        /\ entry # r
        /\ r \in timer => entry = NoRow

BackgroundInv ==
    /\ BackgroundTypeOK
    /\ PendingTrue
    /\ AnswersSettled

PayloadStep == Announced \/ Announces \/ Delivers \/ Browser

-----------------------------------------------------------------------------
LEMMA BackgroundInitInv == BackgroundInit => BackgroundInv
<1> SUFFICES ASSUME BackgroundInit PROVE BackgroundInv
  OBVIOUS
<1>1. text \in [Rows -> Answers \cup {"none", "pulling", "silence"}] /\ answers \in [Answers -> Nat]
  BY BackgroundAssumption DEF BackgroundInit
<1>2. BackgroundTypeOK
  <2>1. /\ object \in BOOLEAN /\ active \in BOOLEAN
        /\ arrived \in BOOLEAN /\ stranded \in BOOLEAN
    BY DEF BackgroundInit
  <2>2. /\ finished \in Nat
        /\ announced \in 0..MaxAnnounced /\ faults \in 0..MaxFaults /\ asked \in Nat
    BY BackgroundAssumption DEF BackgroundInit
  <2>3. QED
    BY <1>1, <2>1, <2>2 DEF BackgroundInit, BackgroundTypeOK
<1>3. PendingTrue
  BY DEF BackgroundInit, PendingTrue
<1>4. AnswersSettled
  BY DEF BackgroundInit, AnswersSettled, Answers
<1>5. QED
  BY <1>2, <1>3, <1>4 DEF BackgroundInv

(* What the worker and the browser do keeps the types and the record's     *)
(* truth: whoever settles a record is there before it says pending, or the *)
(* step that ends the last of them is one that strands it.                 *)
LEMMA PayloadStepKeeps ==
    ASSUME BackgroundTypeOK, PendingTrue, PayloadStep, UNCHANGED pullVars
    PROVE  (BackgroundTypeOK /\ PendingTrue)'
<1> USE BackgroundAssumption DEF pullVars
<1>1. CASE Announced
  <2>1. BackgroundTypeOK'
    BY <1>1 DEF BackgroundTypeOK, Announced, Announcer
  <2>2. PendingTrue'
    BY <1>1 DEF BackgroundTypeOK, PendingTrue, UnderWay, Announced, Announcer
  <2>3. QED  BY <2>1, <2>2
<1>2. CASE Adopts
  <2>1. BackgroundTypeOK'
    BY <1>2 DEF BackgroundTypeOK, Adopts, Announcer
  <2>2. PendingTrue'
    BY <1>2 DEF BackgroundTypeOK, PendingTrue, UnderWay, Adopts, Announcer
  <2>3. QED  BY <2>1, <2>2
<1>3. CASE Registers
  <2>1. BackgroundTypeOK'
    BY <1>3 DEF BackgroundTypeOK, Registers, Announcer
  <2>2. PendingTrue'
    BY <1>3 DEF BackgroundTypeOK, PendingTrue, UnderWay, Registers, Announcer
  <2>3. QED  BY <2>1, <2>2
<1>4. CASE PutsPending
  <2>1. BackgroundTypeOK'
    BY <1>4 DEF BackgroundTypeOK, PutsPending, Announcer
  <2>2. PendingTrue'
    BY <1>4 DEF BackgroundTypeOK, PendingTrue, UnderWay, PutsPending, Announcer
  <2>3. QED  BY <2>1, <2>2
<1>5. CASE Tells
  <2>1. BackgroundTypeOK'
    BY <1>5 DEF BackgroundTypeOK, Tells, Announcer
  <2>2. PendingTrue'
    BY <1>5 DEF BackgroundTypeOK, PendingTrue, UnderWay, Tells, Announcer
  <2>3. QED  BY <2>1, <2>2
<1>6. CASE Refused
  <2>1. BackgroundTypeOK'
    BY <1>6 DEF BackgroundTypeOK, Refused, Fault
  <2>2. PendingTrue'
    BY <1>6 DEF BackgroundTypeOK, PendingTrue, UnderWay, Refused, Fault
  <2>3. QED  BY <2>1, <2>2
<1>7. CASE InlineKnown
  <2>1. BackgroundTypeOK'
    BY <1>7 DEF BackgroundTypeOK, InlineKnown, Announcer
  <2>2. PendingTrue'
    BY <1>7 DEF BackgroundTypeOK, PendingTrue, UnderWay, InlineKnown, Announcer
  <2>3. QED  BY <2>1, <2>2
<1>8. CASE InlineStores
  <2>1. BackgroundTypeOK'
    BY <1>8 DEF BackgroundTypeOK, InlineStores, Announcer
  <2>2. PendingTrue'
    BY <1>8 DEF BackgroundTypeOK, PendingTrue, UnderWay, InlineStores, Announcer
  <2>3. QED  BY <2>1, <2>2
<1>9. CASE InlineRecords
  <2>1. BackgroundTypeOK'
    BY <1>9 DEF BackgroundTypeOK, InlineRecords, Announcer
  <2>2. PendingTrue'
    BY <1>9 DEF BackgroundTypeOK, PendingTrue, UnderWay, InlineRecords, Announcer
  <2>3. QED  BY <2>1, <2>2
<1>10. CASE InlineAppends
  <2>1. BackgroundTypeOK'
    BY <1>10 DEF BackgroundTypeOK, InlineAppends, Announcer
  <2>2. PendingTrue'
    BY <1>10 DEF BackgroundTypeOK, PendingTrue, UnderWay, InlineAppends, Announcer
  <2>3. QED  BY <2>1, <2>2
<1>11. CASE InlineFails
  <2>1. BackgroundTypeOK'
    BY <1>11 DEF BackgroundTypeOK, InlineFails, Fault
  <2>2. PendingTrue'
    BY <1>11 DEF BackgroundTypeOK, PendingTrue, UnderWay, InlineFails, Fault
  <2>3. QED  BY <2>1, <2>2
<1>12. CASE Downloaded
  <2>1. BackgroundTypeOK'
    <3>1. active' \in BOOLEAN /\ stranded' \in BOOLEAN
      BY <1>12 DEF BackgroundTypeOK, Downloaded
    <3>2. finished' \in Nat /\ faults' \in 0..MaxFaults
      BY <1>12 DEF BackgroundTypeOK, Downloaded
    <3>3. QED
      BY <1>12, <3>1, <3>2 DEF BackgroundTypeOK, Downloaded
  <2>2. PendingTrue'
    BY <1>12 DEF BackgroundTypeOK, PendingTrue, UnderWay, Downloaded
  <2>3. QED  BY <2>1, <2>2
<1>13. CASE DownloadFails
  <2>1. BackgroundTypeOK'
    <3>1. active' \in BOOLEAN /\ stranded' \in BOOLEAN
      BY <1>13 DEF BackgroundTypeOK, DownloadFails
    <3>2. finished' \in Nat /\ faults' \in 0..MaxFaults
      BY <1>13 DEF BackgroundTypeOK, DownloadFails, Fault
    <3>3. QED
      BY <1>13, <3>1, <3>2 DEF BackgroundTypeOK, DownloadFails
  <2>2. PendingTrue'
    BY <1>13 DEF BackgroundTypeOK, PendingTrue, UnderWay, DownloadFails, Fault
  <2>3. QED  BY <2>1, <2>2
<1>14. CASE Collects
  <2>1. BackgroundTypeOK'
    BY <1>14 DEF BackgroundTypeOK, Collects
  <2>2. PendingTrue'
    BY <1>14 DEF BackgroundTypeOK, PendingTrue, UnderWay, Collects
  <2>3. QED  BY <2>1, <2>2
<1>15. CASE Stores
  <2>1. BackgroundTypeOK'
    BY <1>15 DEF BackgroundTypeOK, Stores
  <2>2. PendingTrue'
    BY <1>15 DEF BackgroundTypeOK, PendingTrue, UnderWay, Stores
  <2>3. QED  BY <2>1, <2>2
<1>16. CASE Settles
  <2>1. BackgroundTypeOK'
    BY <1>16 DEF BackgroundTypeOK, Settles
  <2>2. PendingTrue'
    BY <1>16 DEF BackgroundTypeOK, PendingTrue, UnderWay, Settles
  <2>3. QED  BY <2>1, <2>2
<1>17. CASE Appends
  <2>1. BackgroundTypeOK'
    BY <1>17 DEF BackgroundTypeOK, Appends
  <2>2. PendingTrue'
    BY <1>17 DEF BackgroundTypeOK, PendingTrue, UnderWay, Appends
  <2>3. QED  BY <2>1, <2>2
<1>18. CASE CollectFails
  <2>1. BackgroundTypeOK'
    BY <1>18 DEF BackgroundTypeOK, CollectFails, Fault
  <2>2. PendingTrue'
    BY <1>18 DEF BackgroundTypeOK, PendingTrue, UnderWay, CollectFails, Fault
  <2>3. QED  BY <2>1, <2>2
<1>19. QED
  BY <1>1, <1>2, <1>3, <1>4, <1>5, <1>6, <1>7, <1>8, <1>9, <1>10, <1>11, <1>12, <1>13, <1>14, <1>15, <1>16, <1>17, <1>18
     DEF PayloadStep, Announces, Delivers, Browser

LEMMA BackgroundStepInv == BackgroundInv /\ [BackgroundNext]_backgroundVars => BackgroundInv'
<1> SUFFICES ASSUME BackgroundInv, [BackgroundNext]_backgroundVars PROVE BackgroundInv'
  OBVIOUS
<1> USE BackgroundAssumption DEF BackgroundInv
<1>1. CASE PayloadStep /\ UNCHANGED pullVars
  BY <1>1, PayloadStepKeeps DEF AnswersSettled, pullVars
<1>2. ASSUME UNCHANGED <<payloadVars, faults>>, NEW r \in Rows, Pull(r) PROVE BackgroundInv'
  BY <1>2 DEF Pull, InFlight, BackgroundTypeOK, PendingTrue, UnderWay, AnswersSettled, Answers, payloadVars
<1>3. ASSUME UNCHANGED <<payloadVars, faults>>, Serves PROVE BackgroundInv'
  <2>1. Answer \in Answers
    BY DEF Answer, Answers
  <2>2. BackgroundTypeOK'
    <3>1. asked' \in Nat
      BY <1>3 DEF Serves, BackgroundTypeOK
    <3>2. answers' \in [Answers -> Nat]
      BY <1>3, <2>1 DEF Serves, BackgroundTypeOK
    <3>3. QED
      BY <1>3, <3>1, <3>2 DEF Serves, BackgroundTypeOK, payloadVars
  <2>3. PendingTrue' /\ AnswersSettled'
    BY <1>3 DEF Serves, PendingTrue, UnderWay, AnswersSettled, payloadVars
  <2>4. QED  BY <2>2, <2>3
<1>4. ASSUME UNCHANGED <<payloadVars, faults>>, NEW a \in Answers, Hears(a) PROVE BackgroundInv'
  BY <1>4 DEF Hears, BackgroundTypeOK, PendingTrue, UnderWay, AnswersSettled, Answers, payloadVars
<1>5. ASSUME UNCHANGED <<payloadVars, faults>>, NEW r \in Rows, TimerFires(r) PROVE BackgroundInv'
  BY <1>5 DEF TimerFires, BackgroundTypeOK, PendingTrue, UnderWay, AnswersSettled, Answers, payloadVars
<1>6. CASE Killed
  <2>1. BackgroundTypeOK'
    BY <1>6 DEF Killed, Fault, BackgroundTypeOK
  <2>2. PendingTrue'
    BY <1>6 DEF Killed, BackgroundTypeOK, PendingTrue, UnderWay
  <2>3. AnswersSettled'
    BY <1>6 DEF Killed, AnswersSettled
  <2>4. QED  BY <2>1, <2>2, <2>3
<1>7. CASE UNCHANGED backgroundVars
  BY <1>7 DEF backgroundVars, payloadVars, pullVars, BackgroundTypeOK, PendingTrue, UnderWay, AnswersSettled
<1>8. QED
  BY <1>1, <1>2, <1>3, <1>4, <1>5, <1>6, <1>7 DEF BackgroundNext, PayloadStep, Tab

LEMMA BackgroundInvariant == BackgroundSpec => []BackgroundInv
<1>1. BackgroundInit => BackgroundInv
  BY BackgroundInitInv
<1>2. BackgroundInv /\ [BackgroundNext]_backgroundVars => BackgroundInv'
  BY BackgroundStepInv
<1>3. QED
  BY <1>1, <1>2, PTL DEF BackgroundSpec

(* The state of the download and of the tab's rows keeps its types.        *)
THEOREM BackgroundTypeCorrect == BackgroundSpec => []BackgroundTypeOK
<1>1. BackgroundInv => BackgroundTypeOK
  BY DEF BackgroundInv
<1>2. QED
  BY <1>1, BackgroundInvariant, PTL

(* "Still downloading" (handler.js:243, app.js:220) is true: a pending     *)
(* record has somebody left to settle it, unless the last of them failed.  *)
THEOREM PendingIsTrue == BackgroundSpec => []PendingTrue
<1>1. BackgroundInv => PendingTrue
  BY DEF BackgroundInv
<1>2. QED
  BY <1>1, BackgroundInvariant, PTL

-----------------------------------------------------------------------------
(* No step changes what a row was answered but a new pull of it, unless    *)
(* two rows were pulled within the same 20 s.                              *)
LEMMA AnswerStaysStep ==
    ASSUME BackgroundInv, [BackgroundNext]_backgroundVars,
           NEW r \in Rows \ overlapped, text[r] \in Answers, text'[r] # text[r]
    PROVE  text'[r] = "pulling"
<1> USE DEF BackgroundInv, BackgroundTypeOK, AnswersSettled
<1>1. ASSUME NEW s \in Rows, Pull(s) PROVE text'[r] = "pulling"
  BY <1>1 DEF Pull
<1>2. ASSUME NEW a \in Answers, Hears(a) PROVE FALSE
  BY <1>2 DEF Hears
<1>3. ASSUME NEW s \in Rows, TimerFires(s) PROVE FALSE
  BY <1>3 DEF TimerFires
<1>4. CASE Serves \/ Killed \/ UNCHANGED pullVars
  BY <1>4 DEF Serves, Killed, pullVars
<1>5. QED
  BY <1>1, <1>2, <1>3, <1>4 DEF BackgroundNext, Tab, backgroundVars, pullVars

(* What a row was answered stays, whatever late answers and timers come.   *)
THEOREM AnswersStay == BackgroundSpec => AnswerStays
<1> DEFINE Stays == \A r \in Rows \ overlapped :
                       text[r] \in Answers /\ text'[r] # text[r] => text'[r] = "pulling"
<1>1. BackgroundInv /\ [BackgroundNext]_backgroundVars => [Stays]_backgroundVars
  BY AnswerStaysStep
<1>2. QED
  BY <1>1, BackgroundInvariant, PTL DEF BackgroundSpec, AnswerStays
=============================================================================
