\* Two announcements (the second adopted, or of a delivered payload), a fault,
\* and two rows of the same key with two pulls under way.
CONSTANTS
    Rows = {r1, r2}
    NoRow = NoRow
    MaxAnnounced = 2
    MaxAsked = 2
    MaxFaults = 1
SPECIFICATION BackgroundFairSpec
INVARIANT PendingTrue
PROPERTIES
    DownloadArrives
    PullSettles
    AnswerStays
\* The upstream may have nothing more to announce.
CHECK_DEADLOCK FALSE
