----------------------------- MODULE CommandParser -----------------------------
(***************************************************************************)
(* command_parser_parse over the tokens strtok cuts a line into.  A call   *)
(* reads one token after the other and returns at the first that is wrong; *)
(* the command it fills belongs to the caller, who may pass it again.      *)
(***************************************************************************)
EXTENDS FixedWidth, Sequences

CONSTANTS
    MM_SCALE,   \* COMMAND_PARSER_MM_SCALE, 1000 in the code
    LONG_MAX,   \* LONG_MAX of the build; LONG_MIN is one further from zero
    Numbers,    \* the integers written behind X=, Y= and F=
    Garbage     \* what the caller's command may hold before the first call

ASSUME ParserAssumption ==
    /\ MM_SCALE \in Nat \ {0}
    /\ INT_MAX \in Nat /\ INT_MAX >= MM_SCALE
    /\ LONG_MAX \in Nat /\ LONG_MAX >= INT_MAX
    /\ Numbers \subseteq Int

LONG_MIN == -LONG_MAX - 1
UINT_MAX == 2 * INT_MAX + 1
ULONG_MAX == 2 * LONG_MAX + 1

Axes == {"X", "Y", "F"}
BareWords == {"PING", "STATUS", "STOP", "ESTOP", "CLEAR_FAULT"}

\* A token: a word, or a field whose text is a number or (~numeric) is not one.
Word(w) == [kind |-> w, numeric |-> FALSE, value |-> 0]
Fields ==
    [kind : Axes, numeric : {TRUE}, value : Numbers]
        \cup [kind : Axes, numeric : {FALSE}, value : {0}]
Tokens == {Word(w) : w \in BareWords \cup {"MOVE", "OTHER"}} \cup Fields

NoCommand == [type |-> "NONE", x |-> 0, y |-> 0, f |-> 0]

VARIABLES
    line,       \* the tokens the present or last call has read
    at,         \* where the call is: "out", at a bare word, or in the MOVE loop
    saw,        \* saw_x, saw_y, saw_f
    command,    \* *command
    result      \* what the last call returned

vars == <<line, at, saw, command, result>>

Init ==
    /\ line = <<>>
    /\ at = "out"
    /\ saw = {}
    /\ command \in Garbage
    /\ result = "NONE"

-----------------------------------------------------------------------------
(* Numbers.                                                                *)

TruncDiv(a, b) == IF a >= 0 THEN a \div b ELSE -((-a) \div b)

\* strtol saturates; the range check then refuses what the scale would overflow.
Strtol(n) == IF n > LONG_MAX THEN LONG_MAX ELSE IF n < LONG_MIN THEN LONG_MIN ELSE n

IsPosition(n) ==
    Strtol(n) \in TruncDiv(INT_MIN, MM_SCALE)..TruncDiv(INT_MAX, MM_SCALE)

\* strtoul reads a minus sign as negation modulo ULONG_MAX + 1, and saturates.
Strtoul(n) == IF n \in (-ULONG_MAX)..ULONG_MAX THEN n % (ULONG_MAX + 1) ELSE ULONG_MAX

\* Mutant: a feed rate of zero is let through.
IsFeedrateOrZero(n) == Strtoul(n) \in 0..(UINT_MAX \div MM_SCALE)

IsFeedrate(n) == Strtoul(n) \in 1..(UINT_MAX \div MM_SCALE)

\* Mutant: the range check forgets the scale.
IsFieldUnscaled(t) ==
    /\ t.numeric
    /\ IF t.kind = "F" THEN Strtoul(t.value) \in 1..UINT_MAX
                       ELSE Strtol(t.value) \in INT_MIN..INT_MAX

\* The text of a field converts.
IsField(t) ==
    /\ t.numeric
    /\ IF t.kind = "F" THEN IsFeedrate(t.value) ELSE IsPosition(t.value)

\* The command with the field stored, an uint32_t or an int32_t.
Stored(c, t) ==
    CASE t.kind = "X" -> [c EXCEPT !.x = Strtol(t.value) * MM_SCALE]
      [] t.kind = "Y" -> [c EXCEPT !.y = Strtol(t.value) * MM_SCALE]
      [] t.kind = "F" -> [c EXCEPT !.f = Strtoul(t.value) * MM_SCALE]

-----------------------------------------------------------------------------
(* One call.                                                               *)

\* A call begins with the command reset, whatever the caller passed in it.
Return(r, c) == at' = "out" /\ saw' = {} /\ result' = r /\ command' = c

\* A line that is NULL, blank or too long for the buffer is not cut into tokens.
ParseUnread ==
    /\ at = "out"
    /\ line' = <<>>
    /\ \E r \in {"ERR_NULL", "ERR_EMPTY", "ERR_INVALID_ARGUMENT"} : Return(r, NoCommand)

FirstToken(t) ==
    /\ at = "out"
    /\ line' = <<t>>
    /\ \/ /\ t.kind \in BareWords
          /\ at' = t.kind /\ command' = NoCommand /\ UNCHANGED <<saw, result>>
       \/ /\ t.kind = "MOVE"
          /\ at' = "MOVE" /\ command' = [NoCommand EXCEPT !.type = "MOVE"]
          /\ UNCHANGED <<saw, result>>
       \/ /\ t.kind \notin BareWords \cup {"MOVE"}
          /\ Return("ERR_UNKNOWN_COMMAND", NoCommand)

\* Nothing may follow a bare word.
TokenAfterWord(t) ==
    /\ at \in BareWords
    /\ line' = Append(line, t)
    /\ Return("ERR_INVALID_ARGUMENT", command)

EndAfterWord ==
    /\ at \in BareWords
    /\ Return("OK", [command EXCEPT !.type = at])
    /\ UNCHANGED line

\* Mutant: a repeated field overwrites the first.
MoveFieldTwice(t) ==
    /\ at = "MOVE"
    /\ t.kind \in Axes /\ IsField(t)
    /\ line' = Append(line, t)
    /\ saw' = saw \cup {t.kind}
    /\ command' = Stored(command, t)
    /\ UNCHANGED <<at, result>>

MoveField(t) ==
    /\ at = "MOVE"
    /\ t.kind \in Axes \ saw /\ IsField(t)
    /\ line' = Append(line, t)
    /\ saw' = saw \cup {t.kind}
    /\ command' = Stored(command, t)
    /\ UNCHANGED <<at, result>>

\* Mutant: the fields read before the wrong one stay in the command.
MoveBadTokenKeepsFields(t) ==
    /\ at = "MOVE"
    /\ ~(t.kind \in Axes \ saw /\ IsField(t))
    /\ line' = Append(line, t)
    /\ Return("ERR_INVALID_ARGUMENT", command)

MoveBadToken(t) ==
    /\ at = "MOVE"
    /\ ~(t.kind \in Axes \ saw /\ IsField(t))
    /\ line' = Append(line, t)
    /\ Return("ERR_INVALID_ARGUMENT", NoCommand)

MoveEnd ==
    /\ at = "MOVE"
    /\ IF saw = Axes THEN Return("OK", command)
                     ELSE Return("ERR_MISSING_ARGUMENT", NoCommand)
    /\ UNCHANGED line

Next ==
    \/ ParseUnread
    \/ \E t \in Tokens :
          FirstToken(t) \/ TokenAfterWord(t) \/ MoveField(t) \/ MoveBadToken(t)
    \/ EndAfterWord
    \/ MoveEnd

Spec == Init /\ [][Next]_vars

-----------------------------------------------------------------------------
(* Properties.                                                             *)

Returned == at = "out" /\ result # "NONE"

\* Type invariant.  While the caller's command is being filled, and in what an
\* accepted line leaves in it, no scaled number leaves its C type.
TypeOK ==
    /\ line \in Seq(Tokens)
    /\ at \in {"out", "MOVE"} \cup BareWords
    /\ saw \subseteq Axes
    /\ at # "out" \/ result # "NONE" =>
          command \in [type : {"NONE", "MOVE"} \cup BareWords,
                       x : INT_MIN..INT_MAX, y : INT_MIN..INT_MAX, f : 0..UINT_MAX]

\* REQ-004: a rejected line leaves nothing of itself, of an earlier line or of
\* what the caller's struct held before, for the motion path to act on.
RejectedLeavesNothing == Returned /\ result # "OK" => command = NoCommand

\* The MOVE grammar, stated without the loop: each field once, in any order.
IsMove(s) ==
    /\ Len(s) = 4 /\ s[1].kind = "MOVE"
    /\ {s[i].kind : i \in 2..4} = Axes
    /\ \A i \in 2..4 : IsField(s[i])

\* The loop accepts exactly the lines of the grammar, and what it stores is each
\* field's own value: no field is mixed up, dropped or taken from another line.
MoveGrammar ==
    /\ Returned /\ result # "OK" => ~IsMove(line)
    /\ Returned /\ result = "OK" /\ line[1].kind = "MOVE" =>
          /\ IsMove(line)
          /\ \A i \in 2..4 : Stored(command, line[i]) = command

\* What the tasks rely on: an accepted MOVE never has the zero feed rate that
\* start_move would refuse, and a command of another type has no operands.
AcceptedIsUsable ==
    Returned /\ result = "OK" =>
        /\ command.type = line[1].kind
        /\ IF command.type = "MOVE" THEN command.f # 0
           ELSE command = [NoCommand EXCEPT !.type = line[1].kind]

-----------------------------------------------------------------------------
\* command_parser.c, above parse_u32: negative speed has no meaning and is not
\* taken.  strtoul wraps it, and one that wraps far enough is taken.
NegativeFeedrateRefused ==
    Returned /\ result = "OK" =>
        \A i \in DOMAIN line : line[i].kind = "F" => line[i].value > 0
===============================================================================
