----------------------------- MODULE MCAdminPanel -----------------------------
(***************************************************************************)
(* Small instances of AdminPanel for TLC.                                  *)
(***************************************************************************)
EXTENDS AdminPanel

CONSTANTS t1, t2

MCTabs == {t1, t2}
OneTab == {t1}

(* The forms of a page that get in each other's way.                       *)
MCChoices ==
    {{"extend"}, {"purchase", "delete"}, {"toggle"}, {"quota", "delete"},
     {"ForceDeactivate"}, {"ForceDeactivateBranch", "delete"}}
OneRelease == {{"ForceDeactivate"}}
==============================================================================
