--------------------------- MODULE MCGitHubClient ---------------------------
(***************************************************************************)
(* A tick is half a second: spacing 1s, backoff 1s capped at 2s, and the   *)
(* 60s floor of a secondary limit scaled to 3s, above the cap's jitter.    *)
(***************************************************************************)
EXTENDS GitHubClient

MCResets == {-2, 3}
=============================================================================
