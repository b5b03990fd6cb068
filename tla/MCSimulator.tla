---------------------------- MODULE MCSimulator ----------------------------
(* The whole simulator on a small instance.  A second is two clock units,  *)
(* telemetry is updated and sent every four; the ground sends an enable, a *)
(* disable, a ping with a PUS version the handler does not count, and a    *)
(* mode change that reports an event.                                      *)
EXTENDS Simulator

MCCommands ==
    {<<25, 3, 5, 0, 0, 0, 1, 0, 1>>, <<25, 5, 6, 0, 0, 0, 1, 0, 1>>,
     <<41, 17, 1, 0, 0>>, <<25, 2, 7, 0, 0, 0, 1, 7, 0, 0, 3>>}
=============================================================================
