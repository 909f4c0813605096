------------------------ MODULE MCMaintainedService -------------------------
(***************************************************************************)
(* MaintainedService with the constant values of MCRenderService.          *)
(***************************************************************************)
EXTENDS MCRenderService, MaintainedService

CONSTANT c1    \* a collector

\* clear-time-range --force may condemn any object and pass over any: its runs
\* include those of every other collector.
AnyTask == {[purpose |-> "time", host |-> Null, force |-> TRUE]}

=============================================================================
