------------------------------- MODULE Telemetry -------------------------------
(***************************************************************************)
(* telemetry.c: the writer every line goes to, and the conversion of a     *)
(* position in milli-millimetres to the text of its status line.  A text   *)
(* keeps what a reader of the line sees: a sign, and the digits before and *)
(* after the point.                                                        *)
(***************************************************************************)
EXTENDS FixedWidth, Sequences

CONSTANTS
    Writers,    \* the output functions telemetry_set_writer is called with
    Lines,      \* the texts telemetry_send_line is called with
    Statuses,   \* the snapshots telemetry_send_status is called with
    NULL

\* Positions are of a type of 32 bits at most; no caller formats a status line
\* itself.
ASSUME TelemetryAssumption ==
    /\ INT_MAX \in Nat /\ INT_MAX <= 2147483647
    /\ \A s \in Statuses : s.x \in Int32 /\ s.y \in Int32
    /\ \A text \in Lines : text.kind # "status"

VARIABLES
    writer,     \* telemetry_writer
    status,     \* the caller's snapshot of the last telemetry_send_status
    written     \* the strings the last call passed to a writer, in order

tvars == <<writer, status, written>>

-----------------------------------------------------------------------------
(* Formatting.                                                             *)

\* The sum is one of unsigned numbers: the magnitude of INT_MIN exists.
AbsI32(value) ==
    IF value < 0 THEN (-(value + 1) + 1) % (2 * (INT_MAX + 1)) ELSE value

Ten(k) == <<1, 10, 100, 1000, 10000, 100000, 1000000, 10000000>>[k + 1]

\* The conversion %0<width>lu of an unsigned number below 10^7, as the whole
\* millimetres of 32 bits are: no more digits than it needs, or width of them.
Digits(n, width) ==
    LET length == CHOOSE k \in width..7 :
                      n < Ten(k) /\ \A j \in width..(k - 1) : n >= Ten(j)
    IN  [i \in 1..length |-> (n \div Ten(length - i)) % 10]

\* Mutant: the sign is the whole part's, which zero does not have.
FormatSignOfWhole(milli) ==
    [negative |-> milli <= -1000,
     whole    |-> Digits(AbsI32(milli) \div 1000, 1),
     fraction |-> Digits(AbsI32(milli) % 1000, 3)]

FormatMilliMm(milli) ==
    [negative |-> milli < 0,
     whole    |-> Digits(AbsI32(milli) \div 1000, 1),
     fraction |-> Digits(AbsI32(milli) % 1000, 3)]

-----------------------------------------------------------------------------
(* The calls.                                                              *)

Newline == [kind |-> "newline"]

TInit == writer = NULL /\ status = NULL /\ written = <<>>

TelemetryInit == writer' = NULL /\ written' = <<>> /\ UNCHANGED status

SetWriter(w) == writer' = w /\ written' = <<>> /\ UNCHANGED status

\* Without a writer, or without a text, nothing is written.
Deliver(text) ==
    /\ written' = IF writer = NULL \/ text = NULL THEN <<>>
                  ELSE <<[to |-> writer, text |-> text],
                         [to |-> writer, text |-> Newline]>>
    /\ UNCHANGED writer

SendLine(text) == Deliver(text) /\ UNCHANGED status

SendStartup == SendLine([kind |-> "boot"])

StatusLine(s) ==
    [kind |-> "status", uptime |-> s.uptime,
     state |-> IF s.state = NULL THEN "UNKNOWN" ELSE s.state,
     x |-> FormatMilliMm(s.x), y |-> FormatMilliMm(s.y), fault |-> s.fault]

SendStatus(s) == status' = s /\ Deliver(IF s = NULL THEN NULL ELSE StatusLine(s))

TNext ==
    \/ TelemetryInit
    \/ \E w \in Writers \cup {NULL} : SetWriter(w)
    \/ \E text \in Lines \cup {NULL} : SendLine(text)
    \/ SendStartup
    \/ \E s \in Statuses \cup {NULL} : SendStatus(s)

TSpec == TInit /\ [][TNext]_tvars

-----------------------------------------------------------------------------
(* Properties.                                                             *)

\* What a reader makes of a printed number, in milli-units: the sum of its
\* digits, each times the worth of its place.
Place(digits, k) == IF k < Len(digits) THEN Ten(k) * digits[Len(digits) - k] ELSE 0
ReadDigits(digits) ==
    Place(digits, 0) + Place(digits, 1) + Place(digits, 2) + Place(digits, 3)
        + Place(digits, 4) + Place(digits, 5) + Place(digits, 6)
ReadPosition(text) ==
    LET magnitude == ReadDigits(text.whole) * 1000
                     + ReadDigits(text.fraction) * Ten(3 - Len(text.fraction))
    IN  IF text.negative THEN -magnitude ELSE magnitude

\* The status line says what the snapshot says: a host that parses the printed
\* positions gets the milli-units back, also below one millimetre on either
\* side of zero and at the most negative number, and the rest is the snapshot's.
StatusReadsBack ==
    \A i \in DOMAIN written : written[i].text.kind = "status" =>
        LET text == written[i].text
        IN  /\ ReadPosition(text.x) = status.x
            /\ ReadPosition(text.y) = status.y
            /\ text.uptime = status.uptime /\ text.fault = status.fault
            /\ status.state # NULL => text.state = status.state
===============================================================================
