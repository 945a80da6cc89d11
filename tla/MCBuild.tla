------------------------------- MODULE MCBuild -------------------------------
(* Small instances of Build. *)
EXTENDS Build, TLC

CONSTANTS lib, mid, app

\* app imports lib directly and through mid.
Triangle == (lib :> {}) @@ (mid :> {lib}) @@ (app :> {lib, mid})
=============================================================================
