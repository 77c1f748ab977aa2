---------------------------- MODULE EulerAngles ----------------------------
(***************************************************************************)
(* The two conversions between a rotation and its angles that the engine   *)
(* uses (PlaygroundEngine/src/Math/Types.cppm, as DebugPanelDrawer.cpp and *)
(* CameraControlSystem.cpp call them).  Angles are whole numbers, RightAngle*)
(* of them to 90 degrees.  A triple is <<pitch, roll, yaw>>, the order of  *)
(* the panel's boxes: yaw about Z, then pitch, then roll.  A rotation is   *)
(* the one triple ToEulerAngles reports for it.                            *)
(***************************************************************************)
EXTENDS Integers

CONSTANT RightAngle

ASSUME EulerAssumption == RightAngle \in Nat \ {0}

Full == 4 * RightAngle

\* An angle as atan2 reports it.
Wrap(angle) ==
    LET turned == angle % Full IN IF turned > 2 * RightAngle THEN turned - Full ELSE turned

\* Past the vertical the same rotation has the pitch on this side of it and the
\* other two turned half round; at the vertical all of the turn is yaw.
FromEulerAngles(triple) ==
    LET pitch == Wrap(triple[1])
        over == pitch > RightAngle \/ pitch < -RightAngle
        half == IF over THEN 2 * RightAngle ELSE 0
        up == pitch > 0
        p == IF over THEN (IF up THEN half ELSE -half) - pitch ELSE pitch
        r == triple[2] + half
        y == triple[3] + half
    IN IF p = RightAngle THEN <<p, 0, Wrap(y + r)>>
       ELSE IF p = -RightAngle THEN <<p, 0, Wrap(y - r)>>
       ELSE <<p, Wrap(r), Wrap(y)>>

ToEulerAngles(rotation) == rotation
=============================================================================
