--------------------------- MODULE LifecycleLock ---------------------------
(***************************************************************************)
(* What the sandbox mutation lock promises, without files or reapers: one  *)
(* operation at a time, begun under the shields window in force; when an   *)
(* operation that a window covered dies, or a restore fails for good, the  *)
(* sandbox is condemned, and no command runs on it until an operator has   *)
(* looked.  McpLifecycleLock is shown to implement it.                     *)
(***************************************************************************)
CONSTANTS Procs, Timers, Nobody, NoTimer

VARIABLES holder,      \* who runs an operation
          recovering,  \* the operation is a restore
          bound,       \* the window in force when it began
          window, expired,
          condemned

vars == <<holder, recovering, bound, window, expired, condemned>>

Init ==
  /\ holder = Nobody /\ recovering = FALSE /\ bound = NoTimer
  /\ window = NoTimer /\ expired = FALSE
  /\ condemned = FALSE

\* A command is let in only to a sandbox that is not condemned.
CommandEnters(p) ==
  /\ holder = Nobody /\ ~condemned
  /\ holder' = p /\ recovering' = FALSE /\ bound' = window
  /\ UNCHANGED <<window, expired, condemned>>

\* A restore is let in when its window is over.
RecoveryEnters(p) ==
  /\ holder = Nobody /\ expired
  /\ holder' = p /\ recovering' = TRUE /\ bound' = window
  /\ UNCHANGED <<window, expired, condemned>>

\* Only a command under the lock opens a window, or closes one early.
Open(t) ==
  /\ holder # Nobody /\ ~recovering /\ window = NoTimer
  /\ window' = t
  /\ UNCHANGED <<holder, recovering, bound, expired, condemned>>

Close ==
  /\ holder # Nobody /\ ~recovering /\ window # NoTimer
  /\ window' = NoTimer /\ expired' = FALSE
  /\ UNCHANGED <<holder, recovering, bound, condemned>>

Vacate == holder' = Nobody /\ recovering' = FALSE /\ bound' = NoTimer

\* A restore that ends has closed its window.
Leave ==
  /\ holder # Nobody /\ Vacate
  /\ window' = IF recovering THEN NoTimer ELSE window
  /\ expired' = IF recovering THEN FALSE ELSE expired
  /\ UNCHANGED condemned

\* A restore fails for good; only a command that began outside any window may
\* leave the next attempt to someone else.
Fail ==
  /\ holder # Nobody /\ expired /\ Vacate
  /\ condemned' = TRUE \/ (bound = NoTimer /\ UNCHANGED condemned)
  /\ UNCHANGED <<window, expired>>

Die ==
  /\ holder # Nobody /\ Vacate
  /\ condemned' = (condemned \/ window # NoTimer \/ bound # NoTimer)
  /\ UNCHANGED <<window, expired>>

Expire ==
  /\ window # NoTimer /\ expired' = TRUE
  /\ UNCHANGED <<holder, recovering, bound, window, condemned>>

Operator ==
  /\ holder = Nobody /\ condemned' = FALSE
  /\ UNCHANGED <<holder, recovering, bound, window, expired>>

Next ==
  \/ \E p \in Procs : CommandEnters(p) \/ RecoveryEnters(p)
  \/ \E t \in Timers : Open(t)
  \/ Close \/ Leave \/ Fail \/ Die \/ Expire \/ Operator

Spec == Init /\ [][Next]_vars
=============================================================================
