----------------------------- MODULE DurableLog ------------------------------
(***************************************************************************)
(* What the program promises about test results: a result it has accepted  *)
(* stays pending until it is durable, a durable result stays durable, and  *)
(* only the end of the process can lose a pending one.                     *)
(***************************************************************************)
EXTENDS Integers, FiniteSets

VARIABLES
    count,    \* number of results accepted; result i is the i-th
    pending,  \* accepted, not durable yet
    durable,  \* in the database
    up        \* the process has not begun to stop

logVars == <<count, pending, durable, up>>

LogInit ==
    /\ count = 0
    /\ pending = {}
    /\ durable = {}
    /\ up = TRUE

Accept ==
    /\ up
    /\ count' = count + 1
    /\ pending' = pending \cup {count + 1}
    /\ UNCHANGED <<durable, up>>

Persist(S) ==
    /\ durable' = durable \cup S
    /\ pending' = pending \ S
    /\ UNCHANGED <<count, up>>

BeginStop(S) ==
    /\ up
    /\ up' = FALSE
    /\ pending' = pending \ S
    /\ UNCHANGED <<count, durable>>

\* A stopping process may give up results; a crash loses all of them, and the
\* process comes back.
GiveUp(S) ==
    /\ ~up
    /\ pending' = pending \ S
    /\ UNCHANGED <<count, durable, up>>

CrashRestart ==
    /\ pending' = {}
    /\ up' = TRUE
    /\ UNCHANGED <<count, durable>>

LogNext ==
    \/ Accept
    \/ \E S \in SUBSET pending : Persist(S) \/ BeginStop(S) \/ GiveUp(S)
    \/ CrashRestart

LogSpec == LogInit /\ [][LogNext]_logVars

=============================================================================
