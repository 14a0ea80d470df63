----------------------------- MODULE MCCluster -----------------------------
(* Two workers, one crash and one signal make at most 2 + 1 + 2 forks; a    *)
(* linked app has one worker, which is not replaced.                        *)
EXTENDS Cluster
CONSTANTS r1, r2, SIGINT, SIGTERM
=============================================================================
