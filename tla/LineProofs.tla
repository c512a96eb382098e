------------------------------ MODULE LineProofs -------------------------------
(***************************************************************************)
(* The lines the firmware reads and the one it writes, for every scale and *)
(* text, with an int of up to 32 bits (TelemetryAssumption) and a long at  *)
(* least as wide.  The parser accepts exactly its grammar and              *)
(* hands out only what the task layer can rely on: the inductive invariant *)
(* says what the half-filled command of a call may hold at each point of   *)
(* the token loop.  The status line of telemetry.c reads back as the       *)
(* snapshot it was made of.                                                *)
(***************************************************************************)
EXTENDS CommandParser, Telemetry, TLAPS

-----------------------------------------------------------------------------
(* The lines read: command_parser.c.                                       *)

\* The command of a MOVE, complete or not, in the C types of its fields.
MoveType ==
    [type : {"MOVE"}, x : INT_MIN..INT_MAX, y : INT_MIN..INT_MAX, f : 0..UINT_MAX]

\* What holds inside a call and between calls.
ParserInv ==
    /\ line \in Seq(Tokens)
    /\ at \in {"out", "MOVE"} \cup BareWords
    /\ saw \subseteq Axes
    /\ at = "out" => saw = {}
    /\ at # "out" => line # <<>> /\ line[1].kind = at
    /\ at \in BareWords => command = NoCommand
    /\ at = "MOVE" =>
          /\ command \in MoveType
          /\ "F" \in saw => command.f # 0
    /\ Returned /\ result = "OK" =>
          command.type \in BareWords \/ command \in MoveType
    /\ RejectedLeavesNothing
    /\ AcceptedIsUsable

\* A token's kind is a word or an axis, and its value is an integer.
LEMMA TokenFacts ==
    ASSUME NEW t \in Tokens
    PROVE  /\ t.kind \in BareWords \cup {"MOVE", "OTHER"} \cup Axes
           /\ t.value \in Int
<1>1. CASE t \in {Word(w) : w \in BareWords \cup {"MOVE", "OTHER"}}
    <2>1. PICK w \in BareWords \cup {"MOVE", "OTHER"} : t = Word(w)
        BY <1>1
    <2>2. t.kind = w /\ t.value = 0
        BY <2>1 DEF Word
    <2>3. QED BY <2>2
<1>2. CASE t \in Fields
    <2>1. t.kind \in Axes
        BY <1>2 DEF Fields
    <2>2. t.value \in Numbers \cup {0}
        BY <1>2 DEF Fields
    <2>3. Numbers \subseteq Int
        BY ParserAssumption
    <2>4. t.value \in Int
        <3>1. 0 \in Int
            OBVIOUS
        <3>2. QED BY Zenon, <2>2, <2>3, <3>1
    <2>5. QED BY <2>1, <2>4
<1>3. QED BY <1>1, <1>2 DEF Tokens

\* The range checks leave room for the scale: n * s fits wherever n was let in.
LEMMA ScaleFits ==
    ASSUME NEW s \in Nat \ {0}, NEW m \in Nat, NEW n \in Nat, n <= m \div s
    PROVE  n * s <= m
<1>1. m \div s \in Int /\ m = s * (m \div s) + (m % s) /\ m % s \in 0..(s - 1)
    OBVIOUS
<1>2. n * s <= (m \div s) * s
    <2>1. PICK d \in Nat : m \div s = n + d
        <3>1. (m \div s) - n \in Nat /\ m \div s = n + ((m \div s) - n)
            BY <1>1
        <3>2. QED BY <3>1
    <2>2. (m \div s) * s = n * s + d * s /\ d * s >= 0
        BY <2>1
    <2>3. QED BY <2>2
<1>3. QED BY <1>1, <1>2

\* Appending to a line that has a token keeps the first one.
LEMMA FirstStays ==
    ASSUME NEW s \in Seq(Tokens), s # <<>>, NEW t \in Tokens
    PROVE  Append(s, t) \in Seq(Tokens) /\ Append(s, t) # <<>> /\ Append(s, t)[1] = s[1]
OBVIOUS

\* A converted position fits an int32_t, on either side of zero.
LEMMA PositionFits ==
    ASSUME NEW n \in Int, IsPosition(n)
    PROVE  Strtol(n) * MM_SCALE \in INT_MIN..INT_MAX
<1> DEFINE v == Strtol(n)
<1>1. /\ INT_MAX \in Nat /\ LONG_MAX \in Nat /\ MM_SCALE \in Nat \ {0}
      /\ LONG_MIN \in Int /\ INT_MIN = -(INT_MAX + 1)
    BY ParserAssumption DEF LONG_MIN, INT_MIN
<1>2. v \in Int
    BY <1>1 DEF Strtol
<1>3. /\ TruncDiv(INT_MAX, MM_SCALE) = INT_MAX \div MM_SCALE
      /\ TruncDiv(INT_MIN, MM_SCALE) = -((INT_MAX + 1) \div MM_SCALE)
    BY <1>1 DEF TruncDiv
<1>4. INT_MAX \div MM_SCALE \in Int /\ (INT_MAX + 1) \div MM_SCALE \in Int
    BY <1>1
<1>5. v \in (-((INT_MAX + 1) \div MM_SCALE))..(INT_MAX \div MM_SCALE)
    BY <1>3 DEF IsPosition
<1>6. CASE v >= 0
    <2>1. v \in Nat /\ v <= INT_MAX \div MM_SCALE
        BY <1>2, <1>4, <1>5, <1>6
    <2>2. v * MM_SCALE <= INT_MAX
        BY <1>1, <2>1, ScaleFits
    <2>3. v * MM_SCALE \in Nat
        BY <1>1, <2>1
    <2>4. QED BY <1>1, <2>2, <2>3
<1>7. CASE v < 0
    <2>1. -v \in Nat /\ -v <= (INT_MAX + 1) \div MM_SCALE /\ INT_MAX + 1 \in Nat
        BY <1>1, <1>2, <1>4, <1>5, <1>7
    <2>2. (-v) * MM_SCALE <= INT_MAX + 1
        BY <1>1, <2>1, ScaleFits
    <2>3. (-v) * MM_SCALE \in Nat /\ v * MM_SCALE = -((-v) * MM_SCALE)
        BY <1>1, <1>2, <2>1
    <2>4. QED BY <1>1, <2>2, <2>3
<1>8. QED BY <1>2, <1>6, <1>7

\* A converted feed rate fits an uint32_t and is not zero.
LEMMA FeedrateFits ==
    ASSUME NEW n \in Int, IsFeedrate(n)
    PROVE  Strtoul(n) * MM_SCALE \in 1..UINT_MAX
<1> DEFINE v == Strtoul(n)
<1>1. UINT_MAX \in Nat /\ ULONG_MAX \in Nat /\ MM_SCALE \in Nat \ {0}
    BY ParserAssumption DEF UINT_MAX, ULONG_MAX
<1>2. v \in Int
    <2>1. n % (ULONG_MAX + 1) \in Int
        BY <1>1
    <2>2. QED BY <1>1, <2>1 DEF Strtoul
<1>3. v \in Nat /\ v >= 1 /\ v <= UINT_MAX \div MM_SCALE
    <2>1. UINT_MAX \div MM_SCALE \in Int
        BY <1>1
    <2>2. QED BY <1>2, <2>1 DEF IsFeedrate
<1>4. v * MM_SCALE <= UINT_MAX
    BY <1>1, <1>3, ScaleFits
<1>5. v * MM_SCALE \in Nat /\ v * MM_SCALE >= 1
    BY <1>1, <1>3
<1>6. QED BY <1>1, <1>4, <1>5

\* Storing a field keeps the type, and a feed rate that converts is not zero.
LEMMA StoredField ==
    ASSUME NEW c \in MoveType, NEW t \in Tokens, t.kind \in Axes, IsField(t)
    PROVE  /\ Stored(c, t) \in MoveType
           /\ t.kind = "F" => Stored(c, t).f # 0
           /\ t.kind # "F" => Stored(c, t).f = c.f
<1>1. t.value \in Int
    BY TokenFacts
<1>2. CASE t.kind = "X"
    <2>1. Strtol(t.value) * MM_SCALE \in INT_MIN..INT_MAX
        BY <1>1, <1>2, PositionFits DEF IsField
    <2>2. QED BY <1>2, <2>1 DEF Stored, MoveType
<1>3. CASE t.kind = "Y"
    <2>1. Strtol(t.value) * MM_SCALE \in INT_MIN..INT_MAX
        BY <1>1, <1>3, PositionFits DEF IsField
    <2>2. QED BY <1>3, <2>1 DEF Stored, MoveType
<1>4. CASE t.kind = "F"
    <2>1. Strtoul(t.value) * MM_SCALE \in 1..UINT_MAX
        BY <1>1, <1>4, FeedrateFits DEF IsField
    <2>2. Strtoul(t.value) * MM_SCALE \in 0..UINT_MAX /\ Strtoul(t.value) * MM_SCALE # 0
        BY <2>1, ParserAssumption DEF UINT_MAX
    <2>3. QED BY <1>4, <2>2 DEF Stored, MoveType
<1>5. QED BY <1>2, <1>3, <1>4 DEF Axes

\* No call and no token breaks the invariant; one case per action.
LEMMA ParserNext == ParserInv /\ [Next]_vars => ParserInv'
<1> SUFFICES ASSUME ParserInv, [Next]_vars PROVE ParserInv'
    OBVIOUS
<1> USE DEF Returned
<1>1. CASE ParseUnread
    BY <1>1 DEF ParseUnread, Return, ParserInv, BareWords, Axes, Tokens,
        RejectedLeavesNothing, AcceptedIsUsable
<1>2. ASSUME NEW t \in Tokens, FirstToken(t) PROVE ParserInv'
    <2>1. line' = <<t>> /\ line' \in Seq(Tokens) /\ line' # <<>> /\ line'[1] = t
        BY <1>2 DEF FirstToken
    <2>2. CASE t.kind \in BareWords
        BY <1>2, <2>1, <2>2 DEF FirstToken, Return, ParserInv, BareWords,
            RejectedLeavesNothing, AcceptedIsUsable
    <2>3. CASE t.kind = "MOVE"
        <3>1. at' = "MOVE" /\ command' = [NoCommand EXCEPT !.type = "MOVE"] /\ saw' = saw
            BY <1>2, <2>3 DEF FirstToken, BareWords
        <3>2. command' \in MoveType
            BY <3>1, ParserAssumption DEF NoCommand, MoveType, INT_MIN, UINT_MAX
        <3>3. saw = {}
            BY <1>2 DEF FirstToken, ParserInv
        <3>4. QED BY <2>1, <2>3, <3>1, <3>2, <3>3 DEF ParserInv, BareWords,
                RejectedLeavesNothing, AcceptedIsUsable
    <2>4. CASE t.kind \notin BareWords \cup {"MOVE"}
        BY <1>2, <2>1, <2>4 DEF FirstToken, Return, ParserInv, BareWords, Axes,
            RejectedLeavesNothing, AcceptedIsUsable
    <2>5. QED BY <2>2, <2>3, <2>4
<1>3. ASSUME NEW t \in Tokens, TokenAfterWord(t) PROVE ParserInv'
    <2>1. line' \in Seq(Tokens)
        BY <1>3 DEF TokenAfterWord, ParserInv
    <2>2. QED BY <1>3, <2>1 DEF TokenAfterWord, Return, ParserInv, BareWords, Axes,
            RejectedLeavesNothing, AcceptedIsUsable
<1>4. ASSUME NEW t \in Tokens, MoveField(t) PROVE ParserInv'
    <2>1. /\ at = "MOVE" /\ at' = "MOVE" /\ saw' = saw \cup {t.kind}
          /\ line' = Append(line, t) /\ command' = Stored(command, t)
          /\ t.kind \in Axes /\ IsField(t)
        BY <1>4 DEF MoveField
    <2>2. /\ line' \in Seq(Tokens) /\ line' # <<>> /\ line'[1] = line[1]
        BY <2>1, FirstStays DEF ParserInv
    <2>3. /\ command' \in MoveType
          /\ "F" \in saw' => command'.f # 0
        BY <2>1, StoredField DEF ParserInv
    <2>4. QED BY <2>1, <2>2, <2>3 DEF ParserInv, BareWords,
            RejectedLeavesNothing, AcceptedIsUsable
<1>5. ASSUME NEW t \in Tokens, MoveBadToken(t) PROVE ParserInv'
    <2>1. line' \in Seq(Tokens)
        BY <1>5 DEF MoveBadToken, ParserInv
    <2>2. QED BY <1>5, <2>1 DEF MoveBadToken, Return, ParserInv, BareWords, Axes,
            RejectedLeavesNothing, AcceptedIsUsable
<1>6. CASE EndAfterWord
    <2>1. /\ at \in BareWords /\ at' = "out" /\ saw' = {} /\ result' = "OK"
          /\ command' = [NoCommand EXCEPT !.type = at] /\ line' = line
        BY <1>6 DEF EndAfterWord, Return, ParserInv
    <2>2. at # "out" /\ at # "MOVE" /\ line[1].kind = at
        BY <2>1 DEF ParserInv, BareWords
    <2>3. command'.type = at
        BY <2>1 DEF NoCommand
    <2>4. RejectedLeavesNothing' /\ AcceptedIsUsable'
        BY <2>1, <2>2, <2>3 DEF RejectedLeavesNothing, AcceptedIsUsable
    <2>5. QED BY <2>1, <2>4 DEF ParserInv, BareWords, Axes
<1>7. CASE MoveEnd
    <2>1. CASE saw = Axes
        <3>1. at = "MOVE" /\ command' = command /\ line' = line /\ at' = "out" /\ saw' = {}
              /\ result' = "OK"
            BY <1>7, <2>1 DEF MoveEnd, Return
        <3>2. command.type = "MOVE" /\ command.f # 0 /\ line[1].kind = "MOVE"
            BY <3>1, <2>1 DEF ParserInv, MoveType, Axes
        <3>3. RejectedLeavesNothing' /\ AcceptedIsUsable'
            BY <3>1, <3>2 DEF RejectedLeavesNothing, AcceptedIsUsable
        <3>4. QED BY <3>1, <3>3 DEF ParserInv, BareWords, Axes
    <2>2. CASE saw # Axes
        BY <1>7, <2>2 DEF MoveEnd, Return, ParserInv, BareWords, Axes,
            RejectedLeavesNothing, AcceptedIsUsable
    <2>3. QED BY <2>1, <2>2
<1>8. CASE UNCHANGED vars
    BY <1>8 DEF vars, ParserInv, RejectedLeavesNothing, AcceptedIsUsable
<1>9. QED BY <1>1, <1>2, <1>3, <1>4, <1>5, <1>6, <1>7, <1>8 DEF Next

\* The invariant holds before the first call, whatever the caller's struct holds.
LEMMA ParserInit == Init => ParserInv
BY DEF Init, ParserInv, BareWords, Axes, Returned, RejectedLeavesNothing,
    AcceptedIsUsable

\* A scaled number never leaves its C type, for any int of up to 32 bits and any
\* long at least as wide.
THEOREM NumbersFit == Spec => []TypeOK
<1>1. ParserInv => TypeOK
    <2> SUFFICES ASSUME ParserInv PROVE TypeOK
        OBVIOUS
    <2> DEFINE C == [type : {"NONE", "MOVE"} \cup BareWords,
                     x : INT_MIN..INT_MAX, y : INT_MIN..INT_MAX, f : 0..UINT_MAX]
    <2>1. INT_MIN <= 0 /\ 0 <= INT_MAX /\ 0 <= UINT_MAX /\ INT_MIN \in Int
          /\ INT_MAX \in Int /\ UINT_MAX \in Int
        BY ParserAssumption DEF INT_MIN, UINT_MAX
    <2>2. NoCommand \in C /\ \A w \in BareWords : [NoCommand EXCEPT !.type = w] \in C
        BY <2>1 DEF NoCommand
    <2>3. \A c \in MoveType : c \in C
        BY DEF MoveType
    <2>4. CASE at = "MOVE"
        BY <2>3, <2>4 DEF ParserInv, TypeOK
    <2>5. CASE at \in BareWords
        BY <2>2, <2>5 DEF ParserInv, TypeOK
    <2>6. CASE at = "out" /\ result = "NONE"
        BY <2>6 DEF ParserInv, TypeOK
    <2>7. CASE at = "out" /\ result \notin {"NONE", "OK"}
        BY <2>2, <2>7 DEF ParserInv, TypeOK, RejectedLeavesNothing, Returned
    <2>8. CASE at = "out" /\ result = "OK"
        <3>1. CASE command \in MoveType
            BY <2>3, <2>8, <3>1 DEF ParserInv, TypeOK, Returned
        <3>2. CASE command \notin MoveType
            <4>1. command.type \in BareWords /\ command.type # "MOVE"
                BY <2>8, <3>2 DEF ParserInv, Returned, BareWords
            <4>2. command = [NoCommand EXCEPT !.type = command.type]
                BY <2>8, <4>1 DEF ParserInv, AcceptedIsUsable, Returned
            <4>3. command \in C
                BY <2>2, <4>1, <4>2
            <4>4. QED BY <2>8, <4>3 DEF ParserInv, TypeOK
        <3>3. QED BY <3>1, <3>2
    <2>9. QED BY <2>4, <2>5, <2>6, <2>7, <2>8 DEF ParserInv
<1>2. QED BY <1>1, ParserInit, ParserNext, PTL DEF Spec

\* A rejected line leaves the caller's command empty, whatever was in it.
THEOREM RejectedIsEmpty == Spec => []RejectedLeavesNothing
<1>1. ParserInv => RejectedLeavesNothing
    BY DEF ParserInv
<1>2. QED BY <1>1, ParserInit, ParserNext, PTL DEF Spec

\* An accepted MOVE has a feed rate that is not zero, the assumption on Commands
\* that the task layer's proof of MoveGatesAgree rests on.
THEOREM AcceptedCanBeUsed == Spec => []AcceptedIsUsable
<1>1. ParserInv => AcceptedIsUsable
    BY DEF ParserInv
<1>2. QED BY <1>1, ParserInit, ParserNext, PTL DEF Spec

-----------------------------------------------------------------------------
(* The loop and the grammar.                                               *)

\* Inside the loop the tokens behind MOVE are fields of different kinds, exactly
\* those the flags name, and the command holds the value of each.
FieldsRead ==
    at = "MOVE" =>
        /\ \A i \in 2..Len(line) :
              /\ line[i].kind \in saw /\ IsField(line[i])
              /\ Stored(command, line[i]) = command
        /\ \A i, j \in 2..Len(line) : line[i].kind = line[j].kind => i = j
        /\ \A k \in saw : \E i \in 2..Len(line) : line[i].kind = k

\* A field stays stored while those of other kinds are stored beside it.
LEMMA StoredStays ==
    ASSUME NEW c \in MoveType, NEW t, NEW u, t.kind \in Axes, u.kind \in Axes
    PROVE  /\ Stored(Stored(c, t), t) = Stored(c, t)
           /\ t.kind # u.kind /\ Stored(c, u) = c => Stored(Stored(c, t), u) = Stored(c, t)
<1> DEFINE p(v) == Strtol(v.value) * MM_SCALE
           q(v) == Strtoul(v.value) * MM_SCALE
<1>1. c = [type |-> c.type, x |-> c.x, y |-> c.y, f |-> c.f]
    BY DEF MoveType
<1>2. \A v, a, b, d :
          /\ v.kind = "X" => Stored([type |-> c.type, x |-> a, y |-> b, f |-> d], v)
                                 = [type |-> c.type, x |-> p(v), y |-> b, f |-> d]
          /\ v.kind = "Y" => Stored([type |-> c.type, x |-> a, y |-> b, f |-> d], v)
                                 = [type |-> c.type, x |-> a, y |-> p(v), f |-> d]
          /\ v.kind = "F" => Stored([type |-> c.type, x |-> a, y |-> b, f |-> d], v)
                                 = [type |-> c.type, x |-> a, y |-> b, f |-> q(v)]
    BY DEF Stored
<1> DEFINE R(a, b, d) == [type |-> c.type, x |-> a, y |-> b, f |-> d]
<1>3. \A a, b, d, e, g, h : R(a, b, d) = R(e, g, h) => a = e /\ b = g /\ d = h
    OBVIOUS
<1>4. \A v, a, b, d :
          /\ v.kind = "X" => Stored(R(a, b, d), v) = R(p(v), b, d)
          /\ v.kind = "Y" => Stored(R(a, b, d), v) = R(a, p(v), d)
          /\ v.kind = "F" => Stored(R(a, b, d), v) = R(a, b, q(v))
    BY <1>2
<1>5. c = R(c.x, c.y, c.f)
    BY <1>1
<1> HIDE DEF p, q, R
<1>6. CASE t.kind = "X"
    BY <1>3, <1>4, <1>5, <1>6 DEF Axes
<1>7. CASE t.kind = "Y"
    BY <1>3, <1>4, <1>5, <1>7 DEF Axes
<1>8. CASE t.kind = "F"
    BY <1>3, <1>4, <1>5, <1>8 DEF Axes
<1>9. QED BY <1>6, <1>7, <1>8 DEF Axes

\* What a line holds after a token is appended to it.
LEMMA TokenAppended ==
    ASSUME NEW s \in Seq(Tokens), NEW t \in Tokens
    PROVE  /\ Len(Append(s, t)) = Len(s) + 1 /\ Len(s) \in Nat
           /\ \A i \in 1..Len(s) : Append(s, t)[i] = s[i]
           /\ Append(s, t)[Len(s) + 1] = t
OBVIOUS

\* The grammar's lines are those the loop reads to their end, and no others.
LEMMA GrammarNext ==
    ParserInv /\ FieldsRead /\ MoveGrammar /\ [Next]_vars => FieldsRead' /\ MoveGrammar'
<1> SUFFICES ASSUME ParserInv, FieldsRead, MoveGrammar, [Next]_vars
             PROVE  FieldsRead' /\ MoveGrammar'
    OBVIOUS
<1>1. CASE ParseUnread
    <2>1. at' = "out" /\ line' = <<>> /\ Len(line') = 0 /\ result' # "OK"
        BY <1>1 DEF ParseUnread, Return
    <2>2. ~IsMove(line')
        BY <2>1 DEF IsMove
    <2>3. QED BY <2>1, <2>2 DEF FieldsRead, MoveGrammar
<1>2. ASSUME NEW t \in Tokens, FirstToken(t) PROVE FieldsRead' /\ MoveGrammar'
    <2>1. line' = <<t>> /\ Len(line') = 1 /\ 2..Len(line') = {}
        BY <1>2 DEF FirstToken
    <2>2. ~IsMove(line')
        BY <2>1 DEF IsMove
    <2>3. /\ at' = "MOVE" => saw' = {}
          /\ at' = "out" => result' # "OK"
        BY <1>2 DEF FirstToken, Return, ParserInv, BareWords
    <2>4. QED BY <2>1, <2>2, <2>3 DEF FieldsRead, MoveGrammar, Returned
<1>3. ASSUME NEW t \in Tokens, TokenAfterWord(t) PROVE FieldsRead' /\ MoveGrammar'
    <2>1. at' = "out" /\ line'[1] = line[1] /\ line[1].kind = at /\ at # "MOVE" /\ result' # "OK"
        BY <1>3, FirstStays DEF TokenAfterWord, Return, ParserInv, BareWords
    <2>2. ~IsMove(line')
        BY <2>1 DEF IsMove
    <2>3. QED BY <2>1, <2>2 DEF FieldsRead, MoveGrammar
<1>4. ASSUME NEW t \in Tokens, MoveField(t) PROVE FieldsRead' /\ MoveGrammar'
    <2>1. /\ at = "MOVE" /\ at' = "MOVE" /\ saw' = saw \cup {t.kind}
          /\ line' = Append(line, t) /\ command' = Stored(command, t)
          /\ t.kind \in Axes \ saw /\ IsField(t)
        BY <1>4 DEF MoveField
    <2>2. /\ Len(line') = Len(line) + 1 /\ Len(line) \in Nat \ {0}
          /\ \A i \in 1..Len(line) : line'[i] = line[i]
          /\ line'[Len(line) + 1] = t
        BY <2>1, TokenAppended DEF ParserInv
    <2>3. command \in MoveType /\ saw \subseteq Axes
        BY <2>1 DEF ParserInv
    <2>4. ASSUME NEW i \in 2..Len(line')
          PROVE  /\ line'[i].kind \in saw' /\ IsField(line'[i])
                 /\ Stored(command', line'[i]) = command'
        <3>1. CASE i \in 2..Len(line)
            <4>1. line'[i] = line[i]
                BY <2>2, <3>1
            <4>2. /\ line[i].kind \in saw /\ IsField(line[i])
                  /\ Stored(command, line[i]) = command
                BY <2>1, <3>1 DEF FieldsRead
            <4>3. line[i].kind # t.kind /\ line[i].kind \in Axes
                BY <2>1, <2>3, <4>2
            <4>4. QED BY <2>1, <2>3, <4>1, <4>2, <4>3, StoredStays
        <3>2. CASE i = Len(line) + 1
            BY <2>1, <2>2, <2>3, <3>2, StoredStays
        <3>3. QED BY <2>2, <3>1, <3>2
    <2>5. ASSUME NEW i \in 2..Len(line'), NEW j \in 2..Len(line'), line'[i].kind = line'[j].kind
          PROVE  i = j
        <3>1. \A m \in 2..Len(line) : line'[m] = line[m] /\ line[m].kind \in saw
            BY <2>1, <2>2 DEF FieldsRead
        <3>2. CASE i \in 2..Len(line) /\ j \in 2..Len(line)
            BY <2>1, <2>5, <3>1, <3>2 DEF FieldsRead
        <3>3. CASE i = Len(line) + 1 \/ j = Len(line) + 1
            BY <2>1, <2>2, <2>5, <3>1, <3>3
        <3>4. QED BY <2>2, <3>2, <3>3
    <2>6. ASSUME NEW k \in saw' PROVE \E i \in 2..Len(line') : line'[i].kind = k
        <3>1. CASE k \in saw
            <4>1. PICK i \in 2..Len(line) : line[i].kind = k
                BY <2>1, <3>1 DEF FieldsRead
            <4>2. i \in 2..Len(line') /\ line'[i] = line[i]
                BY <2>2
            <4>3. QED BY <4>1, <4>2
        <3>2. CASE k = t.kind
            <4>1. Len(line) + 1 \in 2..Len(line')
                BY <2>2
            <4>2. QED BY <2>2, <3>2, <4>1
        <3>3. QED BY <2>1, <3>1, <3>2
    <2>7. FieldsRead'
        BY <2>4, <2>5, <2>6 DEF FieldsRead, IsField, IsFeedrate, IsPosition, Stored
    <2>8. QED BY <2>1, <2>7 DEF MoveGrammar, Returned
<1>5. ASSUME NEW t \in Tokens, MoveBadToken(t) PROVE FieldsRead' /\ MoveGrammar'
    <2>1. /\ at = "MOVE" /\ at' = "out" /\ line' = Append(line, t) /\ result' # "OK"
          /\ ~(t.kind \in Axes \ saw /\ IsField(t))
        BY <1>5 DEF MoveBadToken, Return
    <2>2. /\ Len(line') = Len(line) + 1 /\ Len(line) \in Nat
          /\ \A i \in 1..Len(line) : line'[i] = line[i]
          /\ line'[Len(line) + 1] = t
        BY <2>1, TokenAppended DEF ParserInv
    <2>3. ASSUME IsMove(line') PROVE FALSE
        <3>1. Len(line) = 3 /\ line'[4] = t /\ line'[2] = line[2] /\ line'[3] = line[3]
            <4>1. Len(line') = 4
                BY <2>3 DEF IsMove
            <4>2. Len(line) = 3
                <5>1. \A n \in Nat : n + 1 = 4 => n = 3
                    OBVIOUS
                <5>2. QED BY <2>2, <4>1, <5>1
            <4>3. line'[2] = line[2] /\ line'[3] = line[3]
                BY <2>2, <4>2
            <4>4. QED BY <2>2, <4>2, <4>3
        <3>2. {line[2].kind, line[3].kind, t.kind} = Axes /\ IsField(t)
            BY <2>3, <3>1 DEF IsMove
        <3>3. t.kind \in saw
            BY <2>1, <3>2
        <3>4. t.kind \in {line[2].kind, line[3].kind}
            BY <2>1, <3>1, <3>3 DEF FieldsRead
        <3>5. {line[2].kind, line[3].kind} = {"X", "Y", "F"}
            BY <3>2, <3>4 DEF Axes
        <3>6. QED BY <3>5
    <2>4. QED BY <2>1, <2>3 DEF FieldsRead, MoveGrammar
<1>6. CASE EndAfterWord
    <2>1. at' = "out" /\ result' = "OK" /\ line' = line /\ line[1].kind = at /\ at # "MOVE"
        BY <1>6 DEF EndAfterWord, Return, ParserInv, BareWords
    <2>2. QED BY <2>1 DEF FieldsRead, MoveGrammar, Returned
<1>7. CASE MoveEnd
    <2>1. at = "MOVE" /\ at' = "out" /\ line' = line /\ line[1].kind = "MOVE"
        BY <1>7 DEF MoveEnd, Return, ParserInv
    <2>2. /\ Len(line) \in Nat
          /\ \A i \in 2..Len(line) : line[i].kind \in saw /\ IsField(line[i])
          /\ \A i, j \in 2..Len(line) : line[i].kind = line[j].kind => i = j
          /\ \A k \in saw : \E i \in 2..Len(line) : line[i].kind = k
        BY <2>1 DEF FieldsRead, ParserInv
    <2>3. CASE saw = Axes
        <3>1. result' = "OK" /\ command' = command
            BY <1>7, <2>3 DEF MoveEnd, Return
        <3>2. PICK a \in 2..Len(line), b \in 2..Len(line), c \in 2..Len(line) :
                  line[a].kind = "X" /\ line[b].kind = "Y" /\ line[c].kind = "F"
            BY <2>2, <2>3 DEF Axes
        <3>3. a # b /\ b # c /\ a # c /\ \A i \in 2..Len(line) : i \in {a, b, c}
            <4>1. a # b /\ b # c /\ a # c
                BY <3>2
            <4>2. ASSUME NEW i \in 2..Len(line) PROVE i \in {a, b, c}
                <5>1. line[i].kind \in {line[a].kind, line[b].kind, line[c].kind}
                    BY <2>2, <2>3, <3>2 DEF Axes
                <5>2. QED BY <2>2, <5>1
            <4>3. QED BY <4>1, <4>2
        <3>4. Len(line) = 4
            <4>1. Len(line) >= 4
                BY <2>2, <3>3
            <4>2. CASE Len(line) > 4
                <5>1. /\ 2 \in 2..Len(line) /\ 3 \in 2..Len(line)
                      /\ 4 \in 2..Len(line) /\ 5 \in 2..Len(line)
                    BY <2>2, <4>2
                <5>2. QED BY <3>3, <5>1
            <4>3. Len(line) \in Nat
                BY <2>2
            <4>4. \A n \in Nat : n >= 4 /\ ~(n > 4) => n = 4
                OBVIOUS
            <4>5. QED BY <4>1, <4>2, <4>3, <4>4
        <3>5. {line[i].kind : i \in 2..4} = Axes
            BY <2>2, <2>3, <3>4
        <3>6. IsMove(line)
            BY <2>1, <2>2, <3>4, <3>5 DEF IsMove
        <3>7. \A i \in 2..4 : Stored(command, line[i]) = command
            BY <2>1, <3>4 DEF FieldsRead
        <3>8. IsMove(line') /\ \A i \in 2..4 : Stored(command', line'[i]) = command'
            BY <2>1, <3>1, <3>6, <3>7
        <3>9. MoveGrammar'
            BY <3>1, <3>8 DEF MoveGrammar, IsMove, IsField, IsFeedrate, IsPosition, Stored
        <3>10. QED BY <2>1, <3>9 DEF FieldsRead
    <2>4. CASE saw # Axes
        <3>1. result' # "OK"
            BY <1>7, <2>4 DEF MoveEnd, Return
        <3>2. ASSUME IsMove(line) PROVE FALSE
            <4>1. Len(line) = 4 /\ {line[i].kind : i \in 2..4} = Axes
                BY <3>2 DEF IsMove
            <4>2. \A i \in 2..4 : line[i].kind \in saw
                BY <2>2, <4>1
            <4>3. Axes \subseteq saw
                BY <4>1, <4>2
            <4>4. QED BY <2>4, <4>3 DEF ParserInv
        <3>3. QED BY <2>1, <3>1, <3>2 DEF FieldsRead, MoveGrammar
    <2>5. QED BY <2>3, <2>4
<1>8. CASE UNCHANGED vars
    BY <1>8 DEF vars, FieldsRead, MoveGrammar, Returned
<1>9. QED BY <1>1, <1>2, <1>3, <1>4, <1>5, <1>6, <1>7, <1>8 DEF Next

\* The loop accepts exactly the lines of the grammar and stores what they say, for
\* every scale, every int of up to 32 bits and every length of line.
THEOREM GrammarAccepted == Spec => []MoveGrammar
<1>1. Init => FieldsRead /\ MoveGrammar
    BY DEF Init, FieldsRead, MoveGrammar, Returned
<1>2. ParserInv /\ FieldsRead /\ MoveGrammar /\ [Next]_vars
          => (ParserInv /\ FieldsRead /\ MoveGrammar)'
    BY ParserNext, GrammarNext
<1>3. QED BY <1>1, <1>2, ParserInit, PTL DEF Spec

-----------------------------------------------------------------------------
(* The line written: telemetry.c.                                          *)

\* The powers of ten, one by one.
LEMMA Tens ==
    /\ Ten(0) = 1 /\ Ten(1) = 10 /\ Ten(2) = 100 /\ Ten(3) = 1000
    /\ Ten(4) = 10000 /\ Ten(5) = 100000 /\ Ten(6) = 1000000
    /\ Ten(7) = 10000000
<1>1. \A i \in 0..7 : i + 1 \in 1..8
    OBVIOUS
<1>2. QED BY <1>1, SMT DEF Ten

\* The magnitude is the distance from zero, for the most negative number too.
LEMMA Magnitude ==
    ASSUME NEW v \in Int32
    PROVE  AbsI32(v) = IF v < 0 THEN -v ELSE v
<1>1. CASE v < 0
    <2>1. PICK k \in Nat : k = -v /\ k = -(v + 1) + 1
        BY <1>1, TelemetryAssumption, SMT DEF Int32, INT_MIN
    <2>2. PICK m \in Nat : m = 2 * (INT_MAX + 1) /\ k < m
        BY <2>1, TelemetryAssumption, SMT DEF Int32, INT_MIN
    <2>3. k % m = k
        BY <2>2
    <2>4. QED BY <1>1, <2>1, <2>2, <2>3 DEF AbsI32
<1>2. CASE ~(v < 0)
    BY <1>2 DEF AbsI32
<1>3. QED BY <1>1, <1>2

\* Each digit is what is left of its quotient besides the next one.
LEMMA Remainders ==
    ASSUME NEW n \in Nat
    PROVE  /\ n \div 1 = ((n \div 1) % 10) + 10 * (n \div 10)
           /\ n \div 10 = ((n \div 10) % 10) + 10 * (n \div 100)
           /\ n \div 100 = ((n \div 100) % 10) + 10 * (n \div 1000)
           /\ n \div 1000 = ((n \div 1000) % 10) + 10 * (n \div 10000)
           /\ n \div 10000 = ((n \div 10000) % 10) + 10 * (n \div 100000)
           /\ n \div 100000 = ((n \div 100000) % 10) + 10 * (n \div 1000000)
           /\ n \div 1000000 = ((n \div 1000000) % 10) + 10 * (n \div 10000000)
<1>1. n \div 1 = ((n \div 1) % 10) + 10 * (n \div 10)
    BY SMT
<1>2. n \div 10 = ((n \div 10) % 10) + 10 * (n \div 100)
    BY SMT
<1>3. n \div 100 = ((n \div 100) % 10) + 10 * (n \div 1000)
    BY SMT
<1>4. n \div 1000 = ((n \div 1000) % 10) + 10 * (n \div 10000)
    BY SMT
<1>5. n \div 10000 = ((n \div 10000) % 10) + 10 * (n \div 100000)
    BY SMT
<1>6. n \div 100000 = ((n \div 100000) % 10) + 10 * (n \div 1000000)
    BY SMT
<1>7. n \div 1000000 = ((n \div 1000000) % 10) + 10 * (n \div 10000000)
    BY SMT
<1>8. QED BY <1>1, <1>2, <1>3, <1>4, <1>5, <1>6, <1>7, SMT

\* Taking a number apart digit by digit loses nothing.
LEMMA Places ==
    ASSUME NEW n \in Nat, n < 10000000
    PROVE  n = 1 * ((n \div 1) % 10) + 10 * ((n \div 10) % 10)
               + 100 * ((n \div 100) % 10) + 1000 * ((n \div 1000) % 10)
               + 10000 * ((n \div 10000) % 10) + 100000 * ((n \div 100000) % 10)
               + 1000000 * ((n \div 1000000) % 10)
<1> DEFINE q0 == n \div 1  r0 == q0 % 10
           q1 == n \div 10  r1 == q1 % 10
           q2 == n \div 100  r2 == q2 % 10
           q3 == n \div 1000  r3 == q3 % 10
           q4 == n \div 10000  r4 == q4 % 10
           q5 == n \div 100000  r5 == q5 % 10
           q6 == n \div 1000000  r6 == q6 % 10
           q7 == n \div 10000000
<1>1. q7 = 0
    BY SMT
<1>2. q0 = n
    BY SMT
<1>3. q0 \in Nat /\ r0 \in Nat /\ q0 = r0 + 10 * q1
    BY Remainders, SMT
<1>4. q1 \in Nat /\ r1 \in Nat /\ q1 = r1 + 10 * q2
    BY Remainders, SMT
<1>5. q2 \in Nat /\ r2 \in Nat /\ q2 = r2 + 10 * q3
    BY Remainders, SMT
<1>6. q3 \in Nat /\ r3 \in Nat /\ q3 = r3 + 10 * q4
    BY Remainders, SMT
<1>7. q4 \in Nat /\ r4 \in Nat /\ q4 = r4 + 10 * q5
    BY Remainders, SMT
<1>8. q5 \in Nat /\ r5 \in Nat /\ q5 = r5 + 10 * q6
    BY Remainders, SMT
<1>9. q6 \in Nat /\ r6 \in Nat /\ q6 = r6 + 10 * q7
    BY Remainders, SMT
<1> HIDE DEF q0, q1, q2, q3, q4, q5, q6, q7, r0, r1, r2, r3, r4, r5, r6
<1>10. n = 1 * r0 + 10 * r1 + 100 * r2 + 1000 * r3 + 10000 * r4 + 100000 * r5 + 1000000 * r6
    <2>1. q6 = r6 /\ r6 \in Nat
        BY <1>1, <1>9, SMT
    <2>2. q4 = r4 + 10 * r5 + 100 * r6
        <3>1. q5 = r5 + 10 * r6
            BY <1>8, <2>1, SMT
        <3>2. QED BY <1>7, <1>8, <2>1, <3>1, SMT
    <2>3. q2 = r2 + 10 * r3 + 100 * q4
        BY <1>5, <1>6, <1>7, SMT
    <2>4. q0 = r0 + 10 * r1 + 100 * q2
        BY <1>3, <1>4, <1>5, SMT
    <2>5. q0 = r0 + 10 * r1 + 100 * r2 + 1000 * r3 + 10000 * r4 + 100000 * r5 + 1000000 * r6
        BY <1>3, <1>4, <1>5, <1>6, <1>7, <1>8, <1>9, <2>2, <2>3, <2>4, SMT
    <2>6. 1 * r0 = r0
        BY <1>3, SMT
    <2>7. QED BY <1>2, <2>5, <2>6, SMT
<1>11. QED BY <1>10, SMT DEF q0, q1, q2, q3, q4, q5, q6, r0, r1, r2, r3, r4, r5, r6

\* The number of digits: no fewer than the width, and enough.
Length(n, width) ==
    CHOOSE k \in width..7 : n < Ten(k) /\ \A j \in width..(k - 1) : n >= Ten(j)

\* Seven digits are enough for any number below 10^7.
LEMMA LengthOfWhole ==
    ASSUME NEW n \in Nat, n < 10000000
    PROVE  Length(n, 1) \in 1..7 /\ n < Ten(Length(n, 1))
<1> DEFINE Least(k) == n < Ten(k) /\ \A j \in 1..(k - 1) : n >= Ten(j)
<1>1. \E k \in 1..7 : Least(k)
    <2> DEFINE B(k) == \A j \in 1..k : n >= Ten(j)
    <2>0. B(0) /\ Ten(7) = 10000000
        BY Tens, SMT
    <2>1. ASSUME NEW k \in 1..7, B(k - 1) PROVE Least(k) \/ B(k)
        <3>1. n \in Int /\ Ten(k) \in Int
            BY Tens, SMT
        <3>2. CASE n < Ten(k)
            BY <2>1, <3>2, SMT
        <3>3. CASE n >= Ten(k)
            BY <2>1, <3>3, SMT
        <3>4. QED BY <3>1, <3>2, <3>3, SMT
    <2>2. /\ 1 - 1 = 0 /\ 2 - 1 = 1 /\ 3 - 1 = 2 /\ 4 - 1 = 3 /\ 5 - 1 = 4 /\ 6 - 1 = 5
          /\ 7 - 1 = 6 /\ \A k \in {1, 2, 3, 4, 5, 6, 7} : k \in 1..7
        BY SMT
    <2>3. ~B(7)
        BY <2>0, SMT
    <2> HIDE DEF Least, B
    <2>4. \A k \in 1..7 : B(k - 1) => Least(k) \/ B(k)
        BY <2>1, SMT
    <2>5. Least(1) \/ B(1)
        BY <2>0, <2>2, <2>4, SMT
    <2>6. QED BY <2>2, <2>3, <2>4, <2>5, SMT
<1>2. QED BY <1>1, SMT DEF Length

\* The digits behind the point are always three, whatever zeros they start with.
LEMMA LengthOfFraction ==
    ASSUME NEW n \in Nat, n < 1000
    PROVE  Length(n, 3) = 3 /\ n < Ten(3)
<1> DEFINE Least(k) == n < Ten(k) /\ \A j \in 3..(k - 1) : n >= Ten(j)
<1>1. 3 \in 3..7 /\ Least(3)
    BY Tens, SMT
<1>2. ASSUME NEW k \in 3..7, Least(k) PROVE k = 3
    <2>1. CASE k # 3
        <3>1. 3 \in 3..(k - 1)
            BY <2>1, SMT
        <3>2. n >= Ten(3)
            BY <1>2, <3>1, SMT
        <3>3. QED BY <3>2, Tens, SMT
    <2>2. QED BY <2>1, SMT
<1>3. QED BY <1>1, <1>2, SMT DEF Length

\* The powers of ten grow.
LEMMA TenGrows ==
    ASSUME NEW j \in 0..7, NEW k \in 0..7, j <= k
    PROVE  Ten(j) \in Nat \ {0} /\ Ten(j) <= Ten(k)
BY Tens, SMT

\* What is printed as digits is read back as the number.
LEMMA ReadsDigits ==
    ASSUME NEW n \in Nat, NEW width \in Nat,
           Length(n, width) \in 1..7, n < Ten(Length(n, width))
    PROVE  /\ ReadDigits(Digits(n, width)) = n
           /\ Len(Digits(n, width)) = Length(n, width)
<1> DEFINE L == Length(n, width)
           d == Digits(n, width)
<1>1. d = [i \in 1..L |-> (n \div Ten(L - i)) % 10]
    BY DEF Digits, Length, SMT
<1>2. L \in 1..7 /\ n < Ten(L)
    BY SMT
<1> HIDE DEF L, d
<1>3. Len(d) = L
    BY <1>1, <1>2, SMT
<1>4. ASSUME NEW k \in 0..6
      PROVE  Place(d, k) = Ten(k) * ((n \div Ten(k)) % 10)
    <2>1. CASE k < L
        <3>1. L - k \in 1..L /\ L - (L - k) = k
            BY <1>2, <2>1, SMT
        <3>2. d[L - k] = (n \div Ten(k)) % 10
            BY <1>1, <3>1, SMT
        <3>3. QED BY <1>3, <2>1, <3>2, SMT DEF Place
    <2>2. CASE ~(k < L)
        <3>1. n < Ten(k) /\ Ten(k) \in Nat \ {0}
            <4>1. L \in 0..7 /\ k \in 0..7 /\ L <= k /\ k <= k
                BY <1>2, <2>2, SMT
            <4>2. Ten(L) \in Nat /\ Ten(L) <= Ten(k) /\ Ten(k) \in Nat \ {0}
                BY <4>1, TenGrows, SMT
            <4>3. QED BY <1>2, <4>2, SMT
        <3>2. PICK t \in Nat \ {0} : t = Ten(k)
            BY <3>1, SMT
        <3>3. n \div t = 0
            BY <3>1, <3>2, SMT
        <3>4. 0 % 10 = 0 /\ t * 0 = 0
            BY SMT
        <3>5. QED BY <1>3, <2>2, <3>2, <3>3, <3>4, SMT DEF Place
    <2>3. QED BY <2>1, <2>2, SMT
<1>5. \A k \in {0, 1, 2, 3, 4, 5, 6} : k \in 0..6
    BY SMT
<1>6. ReadDigits(d) =
          1 * ((n \div 1) % 10) + 10 * ((n \div 10) % 10)
               + 100 * ((n \div 100) % 10) + 1000 * ((n \div 1000) % 10)
               + 10000 * ((n \div 10000) % 10) + 100000 * ((n \div 100000) % 10)
               + 1000000 * ((n \div 1000000) % 10)
    <2>1. /\ Place(d, 0) = 1 * ((n \div 1) % 10)
          /\ Place(d, 1) = 10 * ((n \div 10) % 10)
          /\ Place(d, 2) = 100 * ((n \div 100) % 10)
          /\ Place(d, 3) = 1000 * ((n \div 1000) % 10)
          /\ Place(d, 4) = 10000 * ((n \div 10000) % 10)
          /\ Place(d, 5) = 100000 * ((n \div 100000) % 10)
          /\ Place(d, 6) = 1000000 * ((n \div 1000000) % 10)
        BY <1>4, <1>5, Tens, SMT
    <2>2. QED BY <2>1, SMT DEF ReadDigits
<1>7. n < 10000000
    <2>1. L \in 0..7 /\ 7 \in 0..7 /\ L <= 7
        BY <1>2, SMT
    <2>2. Ten(L) \in Nat /\ Ten(L) <= Ten(7)
        BY <2>1, TenGrows, SMT
    <2>3. QED BY <1>2, <2>2, Tens, SMT
<1>8. QED BY <1>3, <1>6, <1>7, Places, SMT DEF L, d

\* A printed position reads back as the position it was printed from.
LEMMA ReadsPosition ==
    ASSUME NEW v \in Int32
    PROVE  ReadPosition(FormatMilliMm(v)) = v
<1>1. v \in Int /\ AbsI32(v) = IF v < 0 THEN -v ELSE v
    BY Magnitude, TelemetryAssumption, SMT DEF Int32, INT_MIN
<1>2. PICK a \in Nat : a = AbsI32(v) /\ a <= 2147483648
    BY <1>1, TelemetryAssumption, SMT DEF Int32, INT_MIN
<1>3. PICK c \in Nat : c = a \div 1000 /\ c < 10000000
    <2>1. a \div 1000 \in Nat /\ a \div 1000 < 10000000
        BY <1>2, SMT
    <2>2. QED BY <2>1, SMT
<1>4. PICK b \in Nat : b = a % 1000 /\ b < 1000
    <2>1. a % 1000 \in Nat /\ a % 1000 < 1000
        BY <1>2, SMT
    <2>2. QED BY <2>1, SMT
<1>5. a = c * 1000 + b
    BY <1>2, <1>3, <1>4, SMT
<1> DEFINE text == FormatMilliMm(v)
<1>6. text.whole = Digits(c, 1) /\ text.fraction = Digits(b, 3)
    BY <1>2, <1>3, <1>4, SMT DEF FormatMilliMm
<1>7. (v < 0 => text.negative) /\ (~(v < 0) => ~text.negative)
    BY DEF FormatMilliMm
<1> HIDE DEF text
<1>8. ReadDigits(text.whole) = c
    <2>1. Length(c, 1) \in 1..7 /\ c < Ten(Length(c, 1)) /\ 1 \in Nat
        BY <1>3, LengthOfWhole, SMT
    <2>2. QED BY <1>6, <2>1, ReadsDigits, SMT
<1>9. ReadDigits(text.fraction) = b /\ Len(text.fraction) = 3
    <2>1. Length(b, 3) = 3 /\ b < Ten(3) /\ 3 \in 1..7 /\ 3 \in Nat
        BY <1>4, LengthOfFraction, SMT
    <2>2. Length(b, 3) \in 1..7 /\ b < Ten(Length(b, 3))
        BY <2>1, SMT
    <2>3. /\ ReadDigits(Digits(b, 3)) = b
          /\ Len(Digits(b, 3)) = Length(b, 3)
        <3>1. 3 \in Nat
            BY SMT
        <3>2. QED BY <2>2, <3>1, ReadsDigits
    <2>4. QED BY <1>6, <2>1, <2>3, Zenon
<1>10. Ten(3 - 3) = 1
    <2>1. 3 - 3 = 0
        BY SMT
    <2>2. QED BY <2>1, Tens, SMT
<1>11. c * 1000 + b * 1 = a
    BY <1>5, SMT
<1>12. ReadPosition(text) = IF text.negative THEN -a ELSE a
    BY <1>8, <1>9, <1>10, <1>11 DEF ReadPosition
<1>13. (v < 0 => v = -a) /\ (~(v < 0) => v = a)
    BY <1>1, <1>2, SMT
<1>14. ReadPosition(text) = v
    BY <1>12, <1>13, <1>7
<1>15. QED BY <1>14 DEF text

\* telemetry_send_status prints the snapshot it is given: whatever the width of
\* the integers up to 32 bits, the positions on the line read back exactly.
THEOREM StatusIsReadable ==
    TSpec => []StatusReadsBack
<1>1. TInit => StatusReadsBack
    BY SMT DEF TInit, StatusReadsBack
<1>2. ASSUME StatusReadsBack, [TNext]_tvars
      PROVE  StatusReadsBack'
    <2>1. CASE UNCHANGED tvars
        BY <1>2, <2>1, SMT DEF tvars, StatusReadsBack
    <2>2. CASE TelemetryInit
        BY <2>2, SMT DEF TelemetryInit, StatusReadsBack
    <2>3. ASSUME NEW w, SetWriter(w) PROVE StatusReadsBack'
        BY <2>3, SMT DEF SetWriter, StatusReadsBack
    <2>4. ASSUME NEW text, SendLine(text), text = NULL \/ text.kind # "status"
          PROVE StatusReadsBack'
        BY <2>4, SMT DEF SendLine, Deliver, Newline, StatusReadsBack
    <2>5. ASSUME NEW s \in Statuses, SendStatus(s) PROVE StatusReadsBack'
        <3>1. CASE s = NULL
            BY <2>5, <3>1, SMT DEF SendStatus, Deliver, StatusReadsBack
        <3>2. CASE s # NULL
            <4> DEFINE text == StatusLine(s)
            <4>1. s.x \in Int32 /\ s.y \in Int32
                BY TelemetryAssumption, SMT
            <4>2. ReadPosition(text.x) = s.x /\ ReadPosition(text.y) = s.y
                BY <4>1, ReadsPosition, SMT DEF StatusLine
            <4>3. /\ text.uptime = s.uptime /\ text.fault = s.fault
                  /\ s.state # NULL => text.state = s.state
                BY SMT DEF StatusLine
            <4> HIDE DEF text
            <4>4. /\ status' = s
                  /\ \A i \in DOMAIN written' :
                        written'[i].text = text \/ written'[i].text.kind = "newline"
                BY <2>5, <3>2, SMT DEF SendStatus, Deliver, Newline, text
            <4>5. QED BY <4>2, <4>3, <4>4, SMT DEF StatusReadsBack
        <3>3. QED BY <3>1, <3>2
    <2>6. ASSUME SendStatus(NULL) PROVE StatusReadsBack'
        BY <2>6, SMT DEF SendStatus, Deliver, StatusReadsBack
    <2>7. [kind |-> "boot"].kind # "status"
        OBVIOUS
    <2>8. \A text \in Lines : text.kind # "status"
        BY TelemetryAssumption, SMT
    <2>9. QED
        BY <1>2, <2>1, <2>2, <2>3, <2>4, <2>5, <2>6, <2>7, <2>8
        DEF TNext, SendStartup
<1>3. QED BY <1>1, <1>2, PTL DEF TSpec
===============================================================================
