---------------------------- MODULE AgentCommand ----------------------------
(***************************************************************************)
(* The agent channel's commands: ParseCommand in AgentChannel.cpp.  A line *)
(* is a sequence of words and separators.  As a request may end anywhere,  *)
(* the last word may be a piece of the one the client meant, so what a     *)
(* line's prefixes mean matters as much as what the line means.            *)
(***************************************************************************)
EXTENDS Naturals, Sequences

CONSTANTS
    Numbers,       \* words std::from_chars takes for a float
    NotFinite,     \* those of them that are infinite or no number
    Codepoints,    \* words it takes for an unsigned integer
    KeyboardCodes, \* names of InputCode enumerators in the keyboard's range
    PointerCodes   \* and in the pointer's

Separator == " "

Tokenize(line) == SelectSeq(line, LAMBDA word : word # Separator)

\* from_chars takes "inf" and "nan", which no consumer survives.
ParseFloat(word) == word \in Numbers \ NotFinite
ParseUnsigned(word) == word \in Codepoints

\* The verbs, which are PlatformEventType's names, by what they take.  A size
\* the window does not have is no command.
PointerVerbs == {"PointerMoved", "PointerMovedRelative", "PointerScrolled"}
KeyVerbs == {"KeyPressed", "KeyReleased"}
ButtonVerbs == {"PointerButtonPressed", "PointerButtonReleased"}
PlainVerbs == {"FocusGained", "FocusLost", "CloseRequested"}
Verbs == PointerVerbs \cup KeyVerbs \cup ButtonVerbs \cup PlainVerbs \cup {"CharacterTyped"}

\* How many arguments a verb takes.
Counts(verb) ==
    CASE verb \in PointerVerbs -> {2}
      [] verb \in KeyVerbs -> {1, 2}
      [] verb \in ButtonVerbs \cup {"CharacterTyped"} -> {1}
      [] verb \in PlainVerbs -> {0}

\* Whether arguments of the right number are right.
Fit(verb, arguments) ==
    /\ verb \in PointerVerbs => ParseFloat(arguments[1]) /\ ParseFloat(arguments[2])
    /\ verb \in KeyVerbs =>
           /\ arguments[1] \in KeyboardCodes
           /\ Len(arguments) = 2 => verb = "KeyPressed" /\ arguments[2] = "repeat"
    /\ verb \in ButtonVerbs => arguments[1] \in PointerCodes
    /\ verb = "CharacterTyped" => ParseUnsigned(arguments[1])

None == "none"
Failed(error) == [error |-> error, event |-> <<>>]

\* An event is its verb and its arguments.
ParseEvent(verb, arguments) ==
    IF Len(arguments) \notin Counts(verb) THEN Failed("BadArgumentCount")
    ELSE IF ~Fit(verb, arguments) THEN Failed("BadArgument")
    ELSE [error |-> None, event |-> <<verb>> \o arguments]

ParseCommand(line) ==
    LET tokens == Tokenize(line)
    IN  IF tokens = <<>> \/ Head(tokens) \notin Verbs THEN Failed("UnknownCommand")
        ELSE ParseEvent(Head(tokens), Tail(tokens))
=============================================================================
