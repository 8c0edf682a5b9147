--------------------------- MODULE BackgroundFetch ---------------------------
(***************************************************************************)
(* One large payload that is announced by reference: the Background Fetch  *)
(* branch of upstream.js receiveBlobExclusive, the worker's success and    *)
(* fail handlers, and tabs that pull the payload by its key meanwhile      *)
(* (service-worker.js transferBlob, app.js pull and its message listener). *)
(*                                                                         *)
(* The announcement runs under the payload lock, so there is one at a      *)
(* time; the handlers take no lock.  The browser downloads, keeps events   *)
(* for a worker that is not running and starts it; an event whose handler  *)
(* was killed is not fired again.                                          *)
(***************************************************************************)
EXTENDS Integers, FiniteSets

CONSTANTS
    Rows,         \* rows of the feed with a button for the key
    NoRow,        \* no entry in the tab's `pending` map
    MaxAnnounced, \* bound: announcements
    MaxAsked,     \* bound: pull messages and answers under way at once
    MaxFaults     \* bound: kills and failing stores

ASSUME BackgroundAssumption ==
    /\ NoRow \notin Rows
    /\ MaxAnnounced \in Nat
    /\ MaxAsked \in Nat
    /\ MaxFaults \in Nat

VARIABLES
    meta,         \* the key's record: "none", "pending" or "settled"
    object,       \* the payload is at rest
    announcer,    \* where receiveBlobExclusive stands
    active,       \* the browser has a registration for the key, downloading
    finished,     \* success events not yet dispatched
    collector,    \* where collectBackgroundFetch stands
    arrived,      \* history: a "blob" event since the last registration
    stranded,     \* history: nobody is left to settle the last registration
    announced,    \* announcements so far
    faults,
    text,         \* what each row shows
    entry,        \* the row in the `pending` map
    timer,        \* rows whose 20 s timer runs
    asked,        \* pull messages on their way to the worker
    answers,      \* answers on their way to the tab, by what they say
    overlapped    \* history: rows pulled within 20 s of another row's pull

payloadVars == <<meta, object, announcer, active, finished, collector, arrived, stranded, announced>>
pullVars == <<text, entry, timer, asked, answers, overlapped>>
backgroundVars == <<payloadVars, pullVars, faults>>

Answers == {"content", "downloading", "missing"}

BackgroundTypeOK ==
    /\ meta \in {"none", "pending", "settled"}
    /\ object \in BOOLEAN
    /\ announcer \in {"idle", "check", "pend", "tell", "inline", "record", "append"}
    /\ active \in BOOLEAN
    /\ finished \in Nat
    /\ collector \in {"idle", "collect", "settle", "append"}
    /\ arrived \in BOOLEAN /\ stranded \in BOOLEAN
    /\ announced \in 0..MaxAnnounced
    /\ faults \in 0..MaxFaults
    /\ text \in [Rows -> Answers \cup {"none", "pulling", "silence"}]
    /\ entry \in Rows \cup {NoRow}
    /\ timer \subseteq Rows /\ overlapped \subseteq Rows
    /\ asked \in Nat
    /\ answers \in [Answers -> Nat]

BackgroundInit ==
    /\ meta = "none" /\ object = FALSE
    /\ announcer = "idle" /\ active = FALSE /\ finished = 0 /\ collector = "idle"
    /\ arrived = FALSE /\ stranded = FALSE /\ announced = 0 /\ faults = 0
    /\ text = [r \in Rows |-> "none"] /\ entry = NoRow /\ timer = {} /\ overlapped = {}
    /\ asked = 0 /\ answers = [a \in Answers |-> 0]

Fault == faults < MaxFaults /\ faults' = faults + 1

\* Someone will still write a settled record.
UnderWay == active \/ finished > 0 \/ collector \in {"collect", "settle"}

-----------------------------------------------------------------------------
(* receiveBlobExclusive, Background Fetch supported and the payload large. *)
Announcer(from, to) == announcer = from /\ announcer' = to

Announced ==
    /\ announced < MaxAnnounced
    /\ announced' = announced + 1
    /\ Announcer("idle", "check")
    /\ UNCHANGED <<meta, object, active, finished, collector, arrived, stranded, faults>>

Adopts ==
    /\ active
    /\ Announcer("check", "idle")
    /\ UNCHANGED <<meta, object, active, finished, collector, arrived, stranded, announced, faults>>

Registers ==
    /\ ~active
    /\ Announcer("check", "pend")
    /\ active' = TRUE
    /\ arrived' = FALSE
    /\ stranded' = FALSE
    /\ UNCHANGED <<meta, object, finished, collector, announced, faults>>

(* The record is written after the download has begun, over whatever the   *)
(* record was: this branch comes before the check for a known payload.     *)
PutsPending ==
    /\ Announcer("pend", "tell")
    /\ meta' = "pending"
    /\ stranded' = (stranded \/ ~UnderWay)
    /\ UNCHANGED <<object, active, finished, collector, arrived, announced, faults>>

Tells ==
    /\ Announcer("tell", "idle")
    /\ UNCHANGED <<meta, object, active, finished, collector, arrived, stranded, announced, faults>>

(* get, fetch, putMeta or append throws: "the inline path still works". *)
Refused ==
    /\ announcer \in {"check", "pend", "tell"}
    /\ Fault
    /\ announcer' = "inline"
    /\ UNCHANGED <<meta, object, active, finished, collector, arrived, stranded, announced>>

InlineKnown ==
    /\ meta = "settled" /\ object
    /\ Announcer("inline", "idle")
    /\ UNCHANGED <<meta, object, active, finished, collector, arrived, stranded, announced, faults>>

InlineStores ==
    /\ ~(meta = "settled" /\ object)
    /\ Announcer("inline", "record")
    /\ object' = TRUE
    /\ UNCHANGED <<meta, active, finished, collector, arrived, stranded, announced, faults>>

InlineRecords ==
    /\ Announcer("record", "append")
    /\ meta' = "settled"
    /\ UNCHANGED <<object, active, finished, collector, arrived, stranded, announced, faults>>

InlineAppends ==
    /\ Announcer("append", "idle")
    /\ arrived' = TRUE
    /\ UNCHANGED <<meta, object, active, finished, collector, stranded, announced, faults>>

InlineFails ==
    /\ announcer \in {"inline", "record", "append"}
    /\ Fault
    /\ announcer' = "idle"
    /\ UNCHANGED <<meta, object, active, finished, collector, arrived, stranded, announced>>

-----------------------------------------------------------------------------
(* The browser's half, and the handlers it starts.                         *)

Downloaded ==
    /\ active
    /\ active' = FALSE
    /\ finished' = finished + 1
    /\ UNCHANGED <<meta, object, announcer, collector, arrived, stranded, announced, faults>>

(* The download fails, which is logged, or the user cancels it, which no   *)
(* handler listens to.  Either way the record stays as it is.              *)
DownloadFails ==
    /\ active
    /\ Fault
    /\ active' = FALSE
    /\ stranded' = TRUE
    /\ UNCHANGED <<meta, object, announcer, finished, collector, arrived, announced>>

Collects ==
    /\ finished > 0
    /\ collector = "idle"
    /\ finished' = finished - 1
    /\ collector' = "collect"
    /\ UNCHANGED <<meta, object, announcer, active, arrived, stranded, announced, faults>>

\* Fault: a download nobody recorded is left alone.
StoresIfPending ==
    /\ collector = "collect"
    /\ collector' = IF meta = "none" THEN "idle" ELSE "settle"
    /\ object' = (object \/ meta # "none")
    /\ UNCHANGED <<meta, announcer, active, finished, arrived, stranded, announced, faults>>

Stores ==
    /\ collector = "collect"
    /\ collector' = "settle"
    /\ object' = TRUE
    /\ UNCHANGED <<meta, announcer, active, finished, arrived, stranded, announced, faults>>

\* Fault: the record is extended, `pending` and all.
SettlesOverPending ==
    /\ collector = "settle"
    /\ collector' = "append"
    /\ meta' = IF meta = "pending" THEN meta ELSE "settled"
    /\ UNCHANGED <<object, announcer, active, finished, arrived, stranded, announced, faults>>

Settles ==
    /\ collector = "settle"
    /\ collector' = "append"
    /\ meta' = "settled"
    /\ UNCHANGED <<object, announcer, active, finished, arrived, stranded, announced, faults>>

Appends ==
    /\ collector = "append"
    /\ collector' = "idle"
    /\ arrived' = TRUE
    /\ UNCHANGED <<meta, object, announcer, active, finished, stranded, announced, faults>>

(* No record, a response that is not ok, a full disk, a failing store. *)
CollectFails ==
    /\ collector # "idle"
    /\ Fault
    /\ collector' = "idle"
    /\ stranded' = TRUE
    /\ UNCHANGED <<meta, object, announcer, active, finished, arrived, announced>>

(* What was asked of the worker and not answered is lost with it. *)
Killed ==
    /\ Fault
    /\ announcer' = "idle"
    /\ collector' = "idle"
    /\ stranded' = (stranded \/ collector # "idle")
    /\ asked' = 0
    /\ UNCHANGED <<meta, object, active, finished, arrived, announced, text, entry, timer, answers, overlapped>>

-----------------------------------------------------------------------------
(* A tab pulls.  Messages carry the key only, never which pull they answer. *)

InFlight == asked + answers["content"] + answers["downloading"] + answers["missing"]

Pull(r) ==
    /\ r \notin timer
    /\ InFlight < MaxAsked
    /\ text' = [text EXCEPT ![r] = "pulling"]
    /\ entry' = r
    /\ timer' = timer \cup {r}
    /\ asked' = asked + 1
    /\ overlapped' = IF timer = {} THEN overlapped \ {r} ELSE overlapped \cup timer \cup {r}
    /\ UNCHANGED answers

(* transferBlob: the record, then the object its address resolves to. *)
Answer ==
    IF meta = "settled" /\ object THEN "content"
    ELSE IF meta = "pending" THEN "downloading" ELSE "missing"

Serves ==
    /\ asked > 0
    /\ asked' = asked - 1
    /\ answers' = [answers EXCEPT ![Answer] = @ + 1]
    /\ UNCHANGED <<text, entry, timer, overlapped>>

\* Fault: the entry is not deleted.
HearsAndKeeps(a) ==
    /\ answers[a] > 0
    /\ answers' = [answers EXCEPT ![a] = @ - 1]
    /\ text' = IF entry = NoRow THEN text ELSE [text EXCEPT ![entry] = a]
    /\ UNCHANGED <<entry, timer, asked, overlapped>>

Hears(a) ==
    /\ answers[a] > 0
    /\ answers' = [answers EXCEPT ![a] = @ - 1]
    /\ text' = IF entry = NoRow THEN text ELSE [text EXCEPT ![entry] = a]
    /\ entry' = NoRow
    /\ UNCHANGED <<timer, asked, overlapped>>

\* Fault: the timer clears the map and leaves the row alone.
TimerIsSilent(r) ==
    /\ r \in timer
    /\ timer' = timer \ {r}
    /\ entry' = NoRow
    /\ UNCHANGED <<text, asked, answers, overlapped>>

(* The timer asks for an entry of the key, not for its own. *)
TimerFires(r) ==
    /\ r \in timer
    /\ timer' = timer \ {r}
    /\ entry' = NoRow
    /\ text' = IF entry = NoRow THEN text ELSE [text EXCEPT ![r] = "silence"]
    /\ UNCHANGED <<asked, answers, overlapped>>

-----------------------------------------------------------------------------
Announces ==
    \/ Adopts \/ Registers \/ PutsPending \/ Tells \/ Refused
    \/ InlineKnown \/ InlineStores \/ InlineRecords \/ InlineAppends \/ InlineFails

Delivers == Collects \/ Stores \/ Settles \/ Appends \/ CollectFails

Browser == Downloaded \/ DownloadFails

Tab == (\E r \in Rows : Pull(r) \/ TimerFires(r)) \/ Serves \/ \E a \in Answers : Hears(a)

BackgroundNext ==
    \/ (Announced \/ Announces \/ Delivers \/ Browser) /\ UNCHANGED pullVars
    \/ Tab /\ UNCHANGED <<payloadVars, faults>>
    \/ Killed

BackgroundSpec == BackgroundInit /\ [][BackgroundNext]_backgroundVars

(* A download ends, the browser starts the worker for it, handlers go on,  *)
(* timers fire.  Nothing is assumed of announcements or of answers.        *)
BackgroundFairness ==
    /\ WF_backgroundVars(Browser /\ UNCHANGED pullVars)
    /\ WF_backgroundVars(Delivers /\ UNCHANGED pullVars)
    /\ \A r \in Rows : WF_backgroundVars(TimerFires(r) /\ UNCHANGED <<payloadVars, faults>>)

BackgroundFairSpec == BackgroundSpec /\ BackgroundFairness

-----------------------------------------------------------------------------
(* "Still downloading" (handler.js:243, app.js:220) is true: a pending     *)
(* record has somebody left who will settle it.  The exceptions are what   *)
(* the code does: no failure, cancellation or broken collection clears the *)
(* record, and a download that is collected before the announcement writes *)
(* its record, or one announced again, is marked pending afterwards.       *)
PendingTrue == meta = "pending" => UnderWay \/ stranded

(* A download the browser took on ends in a "blob" event, however its      *)
(* completion and its announcement interleave, unless it failed or its     *)
(* collection was cut off.                                                 *)
DownloadArrives == active ~> (arrived \/ stranded)

(* "Without this the entry stays in the map and the row reads 'pulling...' *)
(* forever" (app.js:235-236).  A row does stop reading "pulling...", with  *)
(* the exception the code has: the map has one entry for a key and the     *)
(* timer deletes whatever is there, so the pulls of two rows of one key    *)
(* within 20 s can leave one without an answer and without a timer.        *)
PullSettles ==
    \A r \in Rows : text[r] = "pulling" ~> (text[r] # "pulling" \/ r \in overlapped)

(* What a row was answered stays until it is pulled again, whatever late   *)
(* answers and timers come - except, again, in the same 20 s.              *)
AnswerStays ==
    [][\A r \in Rows \ overlapped :
         text[r] \in Answers /\ text'[r] # text[r] => text'[r] = "pulling"]_backgroundVars
=============================================================================
