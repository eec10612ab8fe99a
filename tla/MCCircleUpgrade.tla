----------------------------- MODULE MCCircleUpgrade -----------------------------
(***************************************************************************)
(* Releases of the trusted circle for TLC: 0.5.5, 0.6.0-beta1, 0.6.0-beta2 *)
(* and this code, numbered in their order.                                 *)
(***************************************************************************)
EXTENDS CircleUpgrade

CONSTANTS a, b, c

MCVoters == {a, b, c}
\* Without 0.6.0-beta1 (release 2): migrate_proposals leaves what that release
\* stored as it is, and this code cannot read it.
MCReleases == {1, 3}
=============================================================================
