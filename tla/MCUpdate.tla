------------------------------ MODULE MCUpdate ------------------------------
(* Two updates: by two launchers, an older preview and a stable one, or by *)
(* the window that the first update started.                               *)
EXTENDS Update, TLC

CONSTANTS L1, L2
MCLauncherAt == L1 :> 1 @@ L2 :> 2
MCComplete == {2, 3}
MCPreview == {1}
=============================================================================
