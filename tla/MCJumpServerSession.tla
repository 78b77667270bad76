------------------------- MODULE MCJumpServerSession -------------------------
(* One asset that is asked for by address and one that is asked for by name; *)
(* everything but an interrupt, everything but an early deadline, and a      *)
(* world where only transports fail.                                         *)
EXTENDS JumpServerSession
CONSTANTS ip1, name1
MCAssets == {ip1, name1}
MCAddresses == {ip1}
MCWeather == {AllFaults \ {"interrupt"}, AllFaults \ {"slow"}, {"drop", "dispose"}}
MCInterrupts == {{"interrupt"}}
MCAborts == {{"abort"}}
=============================================================================
