---------------------------- MODULE MCSceneActor ----------------------------
(***************************************************************************)
(* Model values for SceneActor.                                            *)
(***************************************************************************)
EXTENDS SceneActor, TLC

CONSTANTS call, talk1, talk2, cmd, d1, d2

MCDrains == {d1, d2}
MCSymmetry == Permutations(MCDrains)
MCFast == {call}

(* A direct call of the bot between two ambient messages. *)
MCEvents == {call, talk1, talk2}
MCExternal == {}

(* A direct call, an ambient message and the command of another plugin. *)
MCBusyEvents == {call, talk1, cmd}
MCBusyExternal == {cmd}
=============================================================================
