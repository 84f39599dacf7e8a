---------------------------- MODULE MCServerModes ----------------------------
(* The modes of serverDemo3 for TLC: wander restarts itself, the others guard. *)
EXTENDS ServerModes

CONSTANTS idle, stop, ratio, wander, none

MCModes == {idle, stop, ratio, wander}
MCGuarded == {idle, stop, ratio}
MCJoystick == {ratio}
MCDefaults == {stop}
=============================================================================
