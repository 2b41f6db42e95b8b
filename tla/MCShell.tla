------------------------------ MODULE MCShell ------------------------------
(***************************************************************************)
(* Instances of Shell for TLC. App 1 is the keyboard (a chrome id started  *)
(* as an overlay), app 2 the launcher, app 3 an application that is also   *)
(* started headless and is able to serve as the IME.                       *)
(***************************************************************************)
EXTENDS Shell

MCLaunchModes ==
    {<<1, "GuiOverlay">>, <<2, "Gui">>, <<3, "Gui">>, <<3, "Headless">>}
=============================================================================
