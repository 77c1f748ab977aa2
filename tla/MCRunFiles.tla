----------------------------- MODULE MCRunFiles -----------------------------
(***************************************************************************)
(* The instance of RunFiles.  The files share nothing but the runs that    *)
(* write them, so each kind of file has sessions of its own, with as many  *)
(* runs as it takes for its cases: three logs of which two are kept, a     *)
(* crash before two overlapping channels, two runs that are photographed,  *)
(* and a scale that goes through three runs.                               *)
(***************************************************************************)
EXTENDS RunFiles

Quiet == [located |-> TRUE, logs |-> FALSE, channel |-> FALSE, debugUi |-> FALSE,
          runs |-> 3, together |-> 2, clients |-> 0, ticks |-> 1, presses |-> 0,
          faults |-> {"log"}]

MCSessions ==
    {[Quiet EXCEPT !.logs = TRUE, !.ticks = 3, !.faults = {"prune", "log", "boot", "run"}],
     [Quiet EXCEPT !.channel = TRUE, !.together = 3, !.faults = {"log", "channel", "boot", "run"}],
     [Quiet EXCEPT !.channel = TRUE, !.clients = 2, !.runs = 2, !.together = 1,
                   !.ticks = 2, !.faults = {"log", "capture", "write", "run"}],
     [Quiet EXCEPT !.channel = TRUE, !.clients = 1, !.presses = 1, !.runs = 2, !.ticks = 2,
                   !.faults = {"log", "write", "run"}],
     [Quiet EXCEPT !.debugUi = TRUE, !.faults = {"log", "write", "boot", "run"}],
     [Quiet EXCEPT !.located = FALSE, !.runs = 1, !.presses = 1, !.debugUi = TRUE]}
=============================================================================
