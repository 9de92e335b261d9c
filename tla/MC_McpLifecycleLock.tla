------------------------ MODULE MC_McpLifecycleLock ------------------------
(* Small instances of McpLifecycleLock for TLC. *)
EXTENDS McpLifecycleLock, TLC

\* Processes and windows are only compared.
Symmetry == Permutations(Procs) \cup Permutations(Timers)

\* Nobody waits for ever (NotStuck): no dead owner, reaper or fence, and no circle of
\* live ones, holds the sandbox.  The specification does not tell processes apart,
\* so that one of them stands for all.
NobodyStuck == NotStuck(CHOOSE p \in Procs : TRUE)
============================================================================
