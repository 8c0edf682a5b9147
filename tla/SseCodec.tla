------------------------------ MODULE SseCodec ------------------------------
(***************************************************************************)
(* The decoder of sse.js over a text that arrives in chunks cut anywhere,  *)
(* and the encoder's frames.  A text is a sequence of CR, LF, "d" and "t": *)
(* a line that starts with "d" is a data field, its value the rest; any    *)
(* other line is a comment, a retry or a field nobody knows.  The fields   *)
(* `id` and `event` follow the same path as data and are left out.         *)
(***************************************************************************)
EXTENDS Integers, Sequences, SequencesExt

CONSTANTS
    MaxText,    \* bound: length of a foreign sender's text
    MaxData,    \* bound: length of the data of an event of our own
    MaxOwn      \* bound: events of our own

ASSUME SseAssumption == {MaxText, MaxData, MaxOwn} \subseteq Nat

VARIABLES
    wire,       \* the text sent
    own,        \* the data framed into it; <<>> for a foreign sender's text
    taken,      \* how much of it transform has got
    buffer,
    decoded     \* the data of the events enqueued

sseVars == <<wire, own, taken, buffer, decoded>>

(* Data split into lines, and the lines joined again with "\n". *)
AddChar(lines, c) ==
    IF c = "LF" THEN Append(lines, <<>>) ELSE [lines EXCEPT ![Len(lines)] = Append(@, c)]

Lines(data) ==
    LET lines[n \in 0..Len(data)] == IF n = 0 THEN << <<>> >> ELSE AddChar(lines[n - 1], data[n])
    IN  lines[Len(data)]

Join(values) == Tail(FlattenSeq([i \in DOMAIN values |-> <<"LF">> \o values[i]]))

(* frame: one `data:` per line, and a blank line. *)
Frame(data) ==
    LET lines == Lines(data)
    IN  Append(FlattenSeq([i \in DOMAIN lines |-> <<"d">> \o lines[i] \o <<"LF">>]), "LF")

(* Anything on the wire, or frames of our own.  Framed data holds no CR:    *)
(* every caller frames JSON, which escapes it.  frame() splits on LF only,  *)
(* so data with a CR would be read back as two lines.                       *)
SseInit ==
    /\ \/ wire \in BoundedSeq({"CR", "LF", "d", "t"}, MaxText) /\ own = <<>>
       \/ /\ own \in BoundedSeq(BoundedSeq({"LF", "t"}, MaxData), MaxOwn)
          /\ wire = FlattenSeq([i \in DOMAIN own |-> Frame(own[i])])
    /\ taken = 0
    /\ buffer = <<>>
    /\ decoded = <<>>

-----------------------------------------------------------------------------
(* parseFrame: the events, none or one, of the text before a blank line. *)
IsData(line) == line # <<>> /\ Head(line) = "d"

DataOf(lines) ==
    FlattenSeq([i \in DOMAIN lines |-> IF IsData(lines[i]) THEN << Tail(lines[i]) >> ELSE <<>>])

Event(data) == IF data = <<>> THEN <<>> ELSE << Join(data) >>

ParseFrame(raw) == Event(DataOf(Lines(raw)))

\* Fault: a trailing CR is taken for the whole line ending.
HoldsNothing(text) == <<>>

(* The trailing CR that may be the first half of a CRLF. *)
Deferred(text) == IF text # <<>> /\ Last(text) = "CR" THEN <<"CR">> ELSE <<>>

(* replace(/\r\n?/g, "\n") *)
Normal(text) ==
    FlattenSeq([i \in DOMAIN text |->
        IF text[i] = "LF" /\ i > 1 /\ text[i - 1] = "CR" THEN <<>>
        ELSE IF text[i] = "CR" THEN <<"LF">> ELSE <<text[i]>>])

(* Each blank line ends a frame; what is left over has none. *)
CutChar(cut, c) ==
    IF c = "LF" /\ cut.rest # <<>> /\ Last(cut.rest) = "LF"
    THEN [decoded |-> cut.decoded \o ParseFrame(Front(cut.rest)), rest |-> <<>>]
    ELSE [cut EXCEPT !.rest = Append(@, c)]

Cut(text) ==
    LET cut[n \in 0..Len(text)] ==
          IF n = 0 THEN [decoded |-> <<>>, rest |-> <<>>] ELSE CutChar(cut[n - 1], text[n])
    IN  cut[Len(text)]

Transform ==
    \E n \in 1..(Len(wire) - taken) :
        LET text == buffer \o SubSeq(wire, taken + 1, taken + n)
            deferred == Deferred(text)
            cut == Cut(Normal(SubSeq(text, 1, Len(text) - Len(deferred))))
        IN  /\ taken' = taken + n
            /\ buffer' = cut.rest \o deferred
            /\ decoded' = decoded \o cut.decoded
            /\ UNCHANGED <<wire, own>>

SseSpec == SseInit /\ [][Transform]_sseVars

-----------------------------------------------------------------------------
(* The event stream format read one character at a time: any of the three  *)
(* endings ends a line, an empty line dispatches what was collected.       *)
ReadChar(state, c) ==
    LET continued == [state EXCEPT !.cr = (c = "CR")]
        data == IF IsData(state.line) THEN Append(state.data, Tail(state.line)) ELSE state.data
    IN  IF c = "LF" /\ state.cr THEN continued
        ELSE IF c \notin {"CR", "LF"} THEN [continued EXCEPT !.line = Append(@, c)]
        ELSE IF state.line # <<>> THEN [continued EXCEPT !.line = <<>>, !.data = data]
        ELSE [continued EXCEPT !.data = <<>>, !.events = @ \o Event(state.data)]

ReadText(text) ==
    LET state[n \in 0..Len(text)] ==
          IF n = 0 THEN [line |-> <<>>, data |-> <<>>, cr |-> FALSE, events |-> <<>>]
          ELSE ReadChar(state[n - 1], text[n])
    IN  state[Len(text)]

Reference(text) == ReadText(text).events

(* However the text is cut into chunks - between CR and LF, between two    *)
(* line endings, inside a field - transform has emitted exactly the events *)
(* the format defines for what it got, but for a CR held back; and frames  *)
(* of our own give back the data that was framed, line breaks included     *)
(* ("The receiver rejoins them with \n", sse.js:18-19).                    *)
DecodesAnyCut ==
    LET got == SubSeq(wire, 1, taken)
    IN  /\ decoded = Reference(SubSeq(got, 1, taken - Len(Deferred(got))))
        /\ taken = Len(wire) /\ own # <<>> => decoded = own
=============================================================================
