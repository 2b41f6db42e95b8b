----------------------------- MODULE MCPersist -----------------------------
(***************************************************************************)
(* Instances of Persist for TLC: app 1 is the keyboard, app 2 the launcher.*)
(***************************************************************************)
EXTENDS Persist

MCLaunchModes == {<<1, "GuiOverlay">>, <<2, "Gui">>}
=============================================================================
