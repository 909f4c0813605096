---------------------------- MODULE MCFolderSize ----------------------------
(***************************************************************************)
(* Two health checks, and a promise more than that.                        *)
(***************************************************************************)
EXTENDS FolderSize, TLC

CONSTANTS q1, q2,       \* health checks
          p1, p2, p3    \* promises

Alike == Permutations(Requests) \cup Permutations(Promises)

=============================================================================
