---------------------------- MODULE MCAgentLines ----------------------------
(***************************************************************************)
(* Lines for the instances of AgentChannel.  A line is given by what has   *)
(* been read of it after each unit; ParseCommand says what that means.     *)
(***************************************************************************)
EXTENDS Sequences, TLC

Command == INSTANCE AgentCommand WITH
               Numbers <- {"1", "-2", "-25", "inf"}, NotFinite <- {"inf"},
               Codepoints <- {"1"}, KeyboardCodes <- {"KeyA"}, PointerCodes <- {"ButtonLeft"}

MCErrors == {"UnknownCommand", "BadArgumentCount", "BadArgument"}

\* An event's name is the command that gives it.
Meaning(line) ==
    LET command == Command!ParseCommand(line)
    IN  IF command.error # Command!None THEN command.error ELSE ToString(command.event)

Meanings(prefixes) == [k \in DOMAIN prefixes |-> Meaning(prefixes[k])]
EventsOf(lines) == UNION {{lines[c][k] : k \in DOMAIN lines[c]} : c \in DOMAIN lines} \ MCErrors

\* A command of one unit.
Key == << <<"KeyPressed", " ", "KeyA">> >>

\* A number that is one with a digit less, and the same in smaller pieces.
Move == << <<"PointerMoved", " ", "1", " ", "-2">>, <<"PointerMoved", " ", "1", " ", "-25">> >>
SlowMove == << <<"PointerMoved", " ", "1">>, <<"PointerMoved", " ", "1", " ", "-">> >> \o Move

Close == << <<"CloseReq">>, <<"CloseRequested">> >>

MCCloseRequested == Meaning(<<"CloseRequested">>)
=============================================================================
