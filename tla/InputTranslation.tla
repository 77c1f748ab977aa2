-------------------------- MODULE InputTranslation --------------------------
(***************************************************************************)
(* The two tables an input code goes through: GLFW's numbers to InputCode  *)
(* (GlfwInputTranslation.cpp) and InputCode to ImGui's numbers             *)
(* (DebugUIInputTranslation.cpp), and the queue ImGui takes its input      *)
(* from.                                                                   *)
(*                                                                         *)
(* The switch statements list one key at a time, but neighbours stay       *)
(* neighbours for long stretches, so a table is a set of runs: the first   *)
(* number, what it becomes, and how many follow.  GLFW's and ImGui's       *)
(* numbers are those of glfw3.h and imgui.h.                               *)
(***************************************************************************)
EXTENDS Integers, Sequences

Unknown == 0    \* InputCode::Unknown, and ImGuiKey_None

In(number, stretch) == number \in stretch[1] .. stretch[1] + stretch[3] - 1

Translate(table, number) ==
    IF \E stretch \in table : In(number, stretch)
    THEN LET stretch == CHOOSE s \in table : In(number, s)
         IN stretch[2] + (number - stretch[1])
    ELSE Unknown

-----------------------------------------------------------------------------
(* From GLFW.                                                              *)

GlfwLetters == {<<65, 1, 26>>}
GlfwDigits == {<<48, 27, 10>>}
GlfwPrintables ==
    {<<32, 37, 1>>, <<39, 38, 1>>, <<44, 39, 4>>, <<59, 43, 1>>, <<61, 44, 1>>, <<91, 45, 3>>,
     <<96, 48, 1>>, <<161, 49, 2>>}
GlfwEditing == {<<256, 51, 14>>, <<280, 65, 5>>, <<348, 70, 1>>}
GlfwFunctionKeys == {<<290, 71, 25>>}
GlfwNumpad == {<<320, 96, 17>>}
GlfwModifierKeys == {<<340, 113, 8>>}

GlfwKeys == GlfwLetters \cup GlfwDigits \cup GlfwPrintables \cup GlfwEditing
                \cup GlfwFunctionKeys \cup GlfwNumpad \cup GlfwModifierKeys

\* GLFW's number of a key it does not know is -1, and it becomes Unknown.
TranslateGlfwKey(key) == Translate(GlfwKeys, key)

TranslateGlfwPointerButton(button) == Translate({<<0, 256, 8>>}, button)

IsKeyboardCode(code) == code \in 1 .. 120
IsPointerCode(code) == code \in 256 .. 263

-----------------------------------------------------------------------------
(* To ImGui.                                                               *)

UiLetters == {<<1, 546, 26>>}
UiDigits == {<<27, 536, 10>>}
UiPrintables == {<<37, 524, 1>>, <<38, 596, 11>>, <<49, 631, 1>>}
UiEditing ==
    {<<51, 526, 1>>, <<52, 525, 1>>, <<53, 512, 1>>, <<54, 523, 1>>, <<55, 521, 2>>,
     <<57, 514, 1>>, <<58, 513, 1>>, <<59, 516, 1>>, <<60, 515, 1>>, <<61, 517, 4>>,
     <<65, 607, 5>>, <<70, 535, 1>>}
UiFunctionKeys == {<<71, 572, 24>>}
UiNumpad == {<<96, 612, 17>>}
UiModifierKeys ==
    {<<113, 528, 1>>, <<114, 527, 1>>, <<115, 529, 2>>, <<117, 532, 1>>, <<118, 531, 1>>,
     <<119, 533, 2>>}

UiKeys == UiLetters \cup UiDigits \cup UiPrintables \cup UiEditing \cup UiFunctionKeys
              \cup UiNumpad \cup UiModifierKeys

TranslateKeyCode(code) == Translate(UiKeys, code)

\* -1 for a button ImGui does not track.
TranslatePointerButton(code) == IF code \in 256 .. 260 THEN code - 256 ELSE -1

Input(kind, number, down) == [kind |-> kind, number |-> number, down |-> down]

\* Mutant: button 0 is taken for no button.
HasButtonIfPositive(code) == TranslatePointerButton(code) > 0

HasKey(code) == TranslateKeyCode(code) # Unknown
HasButton(code) == TranslatePointerButton(code) >= 0

\* Events that ask something of ImGui.  Modifiers, characters and positions are
\* left out.
Submitted(event) ==
    \/ event.type \in {"pressed", "released"}
         /\ (IF IsPointerCode(event.code) THEN HasButton(event.code) ELSE HasKey(event.code))
    \/ event.type = "unfocused"

AsInput(event) ==
    IF event.type = "unfocused" THEN Input("focus", Unknown, FALSE)
    ELSE IF IsPointerCode(event.code)
    THEN Input("button", TranslatePointerButton(event.code), event.type = "pressed")
    ELSE Input("key", TranslateKeyCode(event.code), event.type = "pressed")

SubmitPlatformEvents(events) ==
    LET submitted[n \in 0 .. Len(events)] ==
            IF n = 0 THEN <<>>
            ELSE IF Submitted(events[n]) THEN Append(submitted[n - 1], AsInput(events[n]))
            ELSE submitted[n - 1]
    IN  submitted[Len(events)]

-----------------------------------------------------------------------------
(* ImGui.  What is held is a set of <<kind, number>>.                      *)

Slot(input) == <<input.kind, input.number>>

Taken(held, input) ==
    IF input.kind = "focus" THEN held
    ELSE IF input.down THEN held \cup {Slot(input)} ELSE held \ {Slot(input)}

\* What is held after each of the inputs.
HeldAfter(held, inputs) ==
    LET after[n \in 0 .. Len(inputs)] ==
            IF n = 0 THEN held ELSE Taken(after[n - 1], inputs[n])
    IN  after

\* A frame takes inputs as long as none changes what changed in it already, nor
\* a key after a button: the rest waits for the next frame.
TakenInOneFrame(held, inputs) ==
    LET after == HeldAfter(held, inputs)
        changes == {n \in DOMAIN inputs : after[n] # after[n - 1]}
        late == {n \in changes : \E m \in changes :
                    /\ m < n
                    /\ \/ Slot(inputs[m]) = Slot(inputs[n])
                       \/ inputs[m].kind = "button" /\ inputs[n].kind = "key"}
    IN  IF late = {} THEN Len(inputs) ELSE (CHOOSE n \in late : \A m \in late : n <= m) - 1

\* What NewFrame may leave of a state and its queue.  A loss of focus among the
\* inputs taken lets go of the keys, and as ImGui's version has it of the buttons.
NewFrame(ui) ==
    LET n == TakenInOneFrame(ui.held, ui.inputs)
        held == HeldAfter(ui.held, ui.inputs)[n]
        rest == SubSeq(ui.inputs, n + 1, Len(ui.inputs))
        unfocused == \E i \in 1 .. n : ui.inputs[i].kind = "focus"
    IN  {[held |-> left, inputs |-> rest] :
            left \in IF unfocused THEN {{h \in held : h[1] = "button"}, {}} ELSE {held}}
=============================================================================
