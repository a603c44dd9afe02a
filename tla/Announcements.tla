---------------------------- MODULE Announcements ----------------------------
(***************************************************************************)
(* What the program promises about announcements: each change of a model's  *)
(* status is announced in its turn, unless a later one takes its place       *)
(* while it waits, or it is withheld, which is known; and only the end of    *)
(* the process can let an old announcement come late.                       *)
(***************************************************************************)
EXTENDS Integers, SequencesExt

CONSTANTS
    Models,
    Statuses,
    Unknown     \* the status before the first result, which nobody is told

VARIABLES
    current,    \* the status of each model
    queue,      \* the statuses of each model that are to be announced
    heard,      \* what was announced last
    missed,     \* whether something was withheld since
    strays,     \* announcements that may come late
    open        \* the process has not begun to stop

channelVars == <<current, queue, heard, missed, strays, open>>

ChannelInit ==
    /\ current = [m \in Models |-> Unknown]
    /\ queue = [m \in Models |-> <<>>]
    /\ heard = current
    /\ missed = [m \in Models |-> FALSE]
    /\ strays = {}
    /\ open = TRUE

\* The first status of a model is read, not announced.
FirstStatus(m, s) ==
    /\ current[m] = Unknown
    /\ current' = [current EXCEPT ![m] = s]
    /\ heard' = [heard EXCEPT ![m] = s]
    /\ UNCHANGED <<queue, missed, strays, open>>

\* Another one goes behind what waits, or takes the place of the last of it.
Change(m, s) ==
    /\ current[m] \notin {Unknown, s}
    /\ current' = [current EXCEPT ![m] = s]
    /\ \/ queue' = [queue EXCEPT ![m] = Append(@, s)]
       \/ queue[m] # <<>> /\ queue' = [queue EXCEPT ![m] = Append(Front(@), s)]
    /\ UNCHANGED <<heard, missed, strays, open>>

Speak(m) ==
    /\ queue[m] # <<>>
    /\ heard' = [heard EXCEPT ![m] = Head(queue[m])]
    /\ missed' = [missed EXCEPT ![m] = FALSE]
    /\ queue' = [queue EXCEPT ![m] = Tail(@)]
    /\ UNCHANGED <<current, strays, open>>

Withhold(m) ==
    /\ queue[m] # <<>>
    /\ missed' = [missed EXCEPT ![m] = TRUE]
    /\ queue' = [queue EXCEPT ![m] = Tail(@)]
    /\ UNCHANGED <<current, heard, strays, open>>

\* What may be left of a queue: some of its end.
Ends(q) == {SubSeq(q, n + 1, Len(q)) : n \in 0 .. Len(q)}

\* A stopping process drops some announcements, the latest of a model last; one of
\* them may be on its way already.
Close(kept) ==
    /\ open
    /\ open' = FALSE
    /\ \A m \in Models : kept[m] \in Ends(queue[m])
    /\ queue' = kept
    /\ missed' = [m \in Models |-> missed[m] \/ kept[m] # queue[m]]
    /\ \/ strays' = {}
       \/ \E m \in Models :
             kept[m] # queue[m] /\ strays' = {[model |-> m, status |-> Head(queue[m])]}
    /\ UNCHANGED <<current, heard>>

SpeakLate(a) ==
    /\ heard' = [heard EXCEPT ![a.model] = a.status]
    /\ missed' = [missed EXCEPT ![a.model] = TRUE]
    /\ strays' = strays \ {a}
    /\ UNCHANGED <<current, queue, open>>

ChannelNext ==
    \/ \E m \in Models :
          \/ open /\ \E s \in Statuses \ {Unknown} : FirstStatus(m, s) \/ Change(m, s)
          \/ Speak(m) \/ Withhold(m)
    \/ \E kept \in [Models -> UNION {Ends(queue[m]) : m \in Models}] : Close(kept)
    \/ \E a \in strays : SpeakLate(a)

ChannelSpec == ChannelInit /\ [][ChannelNext]_channelVars

----------------------------------------------------------------------------
(* What follows for subscribers.                                           *)

\* The last announcement that is to come is that of the current status; when none
\* is, this status is known, or it is known that something was withheld.
Faithful ==
    \A m \in Models :
        /\ queue[m] # <<>> => Last(queue[m]) = current[m]
        /\ queue[m] = <<>> => heard[m] = current[m] \/ missed[m]
=============================================================================
