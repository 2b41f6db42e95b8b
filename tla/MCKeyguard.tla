---------------------------- MODULE MCKeyguard ----------------------------
(***************************************************************************)
(* Instances of Keyguard for TLC: app 1 is the keyguard, 2 the power menu, *)
(* 3 the launcher and 4, where there is one, the keyboard.                 *)
(***************************************************************************)
EXTENDS Keyguard

MCLaunchModes == {<<3, "Gui">>}
=============================================================================
