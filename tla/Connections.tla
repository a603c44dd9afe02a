----------------------------- MODULE Connections -----------------------------
(***************************************************************************)
(* WSManager and the handler of each WebSocket: clients connect under a     *)
(* lock while there is room, set their notification preferences, receive    *)
(* broadcasts that are sent to all of them at once, stall, and go away;     *)
(* a reload changes the limit, and the shutdown closes every connection.    *)
(*                                                                         *)
(* ConnInit, ConnNext and ConnSpec are named for the component, because a  *)
(* server has a Dashboard as well (ServerProofs extends both).             *)
(***************************************************************************)
EXTENDS Integers, Sequences, FiniteSets

CONSTANTS
    Clients,        \* the WebSockets that clients open, each one once
    Broadcasts,     \* the messages that are broadcast, each one once
    Filtered,       \* those that clients may mute: the notifications
    Limits,         \* the values of max_connections in the configurations
    MaxReloads      \* bound: reloads of the configuration

ASSUME ConnectionsAssumption ==
    /\ Filtered \subseteq Broadcasts
    /\ Limits \subseteq Nat /\ Limits # {}
    /\ MaxReloads \in Nat

VARIABLES
    limit,      \* c.max_connections
    top,        \* the largest limit so far
    reloads,
    conns,      \* connections, in no order
    prefs,      \* the connections that have set preferences -> do they want notifications?
    lock,       \* WSManager._lock: its holder and those who wait for it
    pc,         \* where the handler of a client is
    socket,     \* a WebSocket is up, stalled by a client that does not read, or closed
    stage,      \* broadcast -> not begun, sending, or done
    pending,    \* broadcast -> the sends that have not finished
    dead,       \* broadcast -> the connections its sends found dead
    got,        \* client -> the broadcasts whose send to it has returned
    missable,   \* broadcast -> the connections it is for
    closing     \* close_all: not begun, or the connections it has still to close

config    == <<limit, top, reloads>>
manager   == <<conns, prefs>>
broadcast == <<stage, pending, dead, got, missable>>
connVars  == <<config, manager, lock, pc, socket, broadcast, closing>>

NotBegun == [begun |-> FALSE, rest |-> {}]

ConnInit ==
    /\ limit \in Limits /\ top = limit /\ reloads = 0
    /\ conns = {} /\ prefs = [c \in {} |-> TRUE]
    /\ lock = <<>>
    /\ pc = [c \in Clients |-> "new"]
    /\ socket = [c \in Clients |-> "up"]
    /\ stage = [b \in Broadcasts |-> "none"]
    /\ pending = [b \in Broadcasts |-> {}] /\ dead = [b \in Broadcasts |-> {}]
    /\ missable = [b \in Broadcasts |-> {}]
    /\ got = [c \in Clients |-> {}]
    /\ closing = NotBegun

----------------------------------------------------------------------------
(* The clients.                                                            *)

\* A client stops reading, or goes away.
Stall(c) ==
    /\ socket[c] = "up" /\ pc[c] = "open"
    /\ socket' = [socket EXCEPT ![c] = "stalled"]
    /\ UNCHANGED <<config, manager, lock, pc, broadcast, closing>>

GoAway(c) ==
    /\ pc[c] # "new" /\ socket[c] # "closed"
    /\ socket' = [socket EXCEPT ![c] = "closed"]
    /\ UNCHANGED <<config, manager, lock, pc, broadcast, closing>>

\* This end closes the WebSocket; leaving the handler does so too.
Close(c) == socket' = [socket EXCEPT ![c] = "closed"]

Reload(new) ==
    /\ reloads < MaxReloads
    /\ reloads' = reloads + 1
    /\ limit' = new
    /\ top' = IF new > top THEN new ELSE top
    /\ UNCHANGED <<manager, lock, pc, socket, broadcast, closing>>

----------------------------------------------------------------------------
(* The handler of one WebSocket, websocket_endpoint.                       *)

Ends(c) == pc' = [pc EXCEPT ![c] = "ended"] /\ Close(c)

\* A client opens a WebSocket; a forbidden origin is told so and closed.
Open(c, allowed) ==
    /\ pc[c] = "new"
    /\ IF allowed
       THEN pc' = [pc EXCEPT ![c] = "connecting"] /\ lock' = Append(lock, c) /\ UNCHANGED socket
       ELSE Ends(c) /\ UNCHANGED lock
    /\ UNCHANGED <<config, manager, broadcast, closing>>

Holds(c) == lock # <<>> /\ c = Head(lock)

\* Mutant of KeepLock: the lock is released before the handshake.
KeepLockForCheck(c) == lock' = Tail(lock)

\* connect keeps the lock while it awaits the handshake,
KeepLock(c) == UNCHANGED lock

\* and releases it when the connection is listed or the handshake has failed.
FreeLock(c) == lock' = IF Holds(c) THEN Tail(lock) ELSE lock

\* Room or not is decided before the handshake,
Admit(c) ==
    /\ pc[c] = "connecting" /\ Holds(c)
    /\ \/ /\ Cardinality(conns) >= limit
          /\ Ends(c) /\ lock' = Tail(lock)
       \/ /\ Cardinality(conns) < limit
          /\ pc' = [pc EXCEPT ![c] = "accepting"]
          /\ KeepLock(c) /\ UNCHANGED socket
    /\ UNCHANGED <<config, manager, broadcast, closing>>

\* and the connection is listed after it, unless it fails.
Accept(c) ==
    /\ pc[c] = "accepting"
    /\ IF socket[c] = "closed"
       THEN Ends(c) /\ UNCHANGED conns
       ELSE pc' = [pc EXCEPT ![c] = "open"] /\ conns' = conns \cup {c} /\ UNCHANGED socket
    /\ FreeLock(c)
    /\ UNCHANGED <<config, prefs, broadcast, closing>>

\* A sync_prefs message, also on a WebSocket that a broadcast has unlisted.
SetPrefs(c, wants) ==
    /\ pc[c] = "open" /\ socket[c] # "closed"
    /\ prefs' = [d \in DOMAIN prefs \cup {c} |-> IF d = c THEN wants ELSE prefs[d]]
    /\ UNCHANGED <<config, conns, lock, pc, socket, broadcast, closing>>

WithoutPrefs(cs) == [d \in DOMAIN prefs \ cs |-> prefs[d]]

\* Mutant of Disconnect: a connection that is no longer listed is left alone.
DisconnectListed(cs) ==
    /\ conns' = conns \ cs
    /\ prefs' = WithoutPrefs(cs \cap conns)

\* disconnect, of every member of cs.
Disconnect(cs) ==
    /\ conns' = conns \ cs
    /\ prefs' = WithoutPrefs(cs)

\* A message beyond the limit closes the connection.
Oversized(c) ==
    /\ pc[c] = "open" /\ socket[c] # "closed"
    /\ pc' = [pc EXCEPT ![c] = "leaving"]
    /\ Close(c)
    /\ UNCHANGED <<config, manager, lock, broadcast, closing>>

\* receive reports that the WebSocket is closed, by either end.
Received(c) ==
    /\ pc[c] = "open" /\ socket[c] = "closed"
    /\ pc' = [pc EXCEPT ![c] = "leaving"]
    /\ UNCHANGED <<config, manager, lock, socket, broadcast, closing>>

\* The finally clause of the handler.
Unlist(c) == Disconnect({c})

Leave(c) ==
    /\ pc[c] = "leaving"
    /\ Ends(c)
    /\ Unlist(c)
    /\ UNCHANGED <<config, lock, broadcast, closing>>

----------------------------------------------------------------------------
(* Broadcasts and the shutdown.                                            *)

\* A connection without preferences is always sent to.
Wanted(b, c) == (b \in Filtered /\ c \in DOMAIN prefs) => prefs[c]

\* broadcast starts one task for each connection of the list as it is now.
Broadcast(b) ==
    /\ stage[b] = "none"
    /\ LET for == {c \in conns : Wanted(b, c)} IN
       /\ stage' = [stage EXCEPT ![b] = IF conns = {} THEN "done" ELSE "sending"]
       /\ pending' = [pending EXCEPT ![b] = for]
       /\ missable' = [missable EXCEPT ![b] = for]
    /\ UNCHANGED <<config, manager, lock, pc, socket, dead, got, closing>>

\* Mutant of MaySend: the clients are sent to one after the other.
MaySendInTurn(b, c) == c \in pending[b] /\ c = CHOOSE d \in pending[b] : TRUE

\* The sends of a broadcast do not wait for each other.
MaySend(b, c) == c \in pending[b]

\* Mutant of FoundDead: a failed send is logged and forgotten.
FoundDeadNot(b, c) == UNCHANGED dead

\* A failed send makes its connection dead.
FoundDead(b, c) == dead' = [dead EXCEPT ![b] = @ \cup {c}]

\* A send finishes; of a stalled client it waits.  To a closed WebSocket it raises, or
\* returns as to any other if the client is gone and nobody has noticed yet.
Send(b, c) ==
    /\ stage[b] = "sending" /\ MaySend(b, c)
    /\ socket[c] # "stalled"
    /\ pending' = [pending EXCEPT ![b] = @ \ {c}]
    /\ \/ got' = [got EXCEPT ![c] = @ \cup {b}] /\ UNCHANGED dead
       \/ socket[c] = "closed" /\ FoundDead(b, c) /\ UNCHANGED got
    /\ UNCHANGED <<config, manager, lock, pc, socket, stage, missable, closing>>

\* All sends have finished: the dead are unlisted.
Finish(b) ==
    /\ stage[b] = "sending" /\ pending[b] = {}
    /\ stage' = [stage EXCEPT ![b] = "done"]
    /\ Disconnect(dead[b])
    /\ UNCHANGED <<config, lock, pc, socket, pending, dead, got, missable, closing>>

\* close_all takes and clears the list, and closes one connection after the other.
CloseAll ==
    /\ ~closing.begun
    /\ closing' = [begun |-> TRUE, rest |-> conns]
    /\ conns' = {} /\ prefs' = WithoutPrefs(Clients)
    /\ UNCHANGED <<config, lock, pc, socket, broadcast>>

CloseOne(c) ==
    /\ c \in closing.rest
    /\ closing' = [closing EXCEPT !.rest = @ \ {c}]
    /\ Close(c)
    /\ UNCHANGED <<config, manager, lock, pc, broadcast>>

ConnNext ==
    \/ \E c \in Clients, allowed \in BOOLEAN : Open(c, allowed)
    \/ \E c \in Clients : Admit(c) \/ Accept(c) \/ Oversized(c) \/ Received(c) \/ Leave(c)
    \/ \E c \in Clients : Stall(c) \/ GoAway(c) \/ CloseOne(c)
    \/ \E c \in Clients, wants \in BOOLEAN : SetPrefs(c, wants)
    \/ \E b \in Broadcasts : Broadcast(b) \/ Finish(b)
    \/ \E b \in Broadcasts, c \in Clients : Send(b, c)
    \/ CloseAll
    \/ \E new \in Limits : Reload(new)

ConnSpec == ConnInit /\ [][ConnNext]_connVars

\* The event loop runs every task that can go on; clients owe nothing.
FairSpec ==
    /\ ConnSpec
    /\ \A b \in Broadcasts, c \in Clients : WF_connVars(Send(b, c))

----------------------------------------------------------------------------
(* Properties.                                                             *)

\* Every variable holds a value of its kind.
ConnTypeOK ==
    /\ limit \in Limits /\ top \in Limits /\ limit <= top /\ reloads \in 0 .. MaxReloads
    /\ conns \subseteq Clients
    /\ DOMAIN prefs \subseteq Clients /\ prefs \in [DOMAIN prefs -> BOOLEAN]
    /\ lock \in Seq(Clients)
    /\ pc \in [Clients -> {"new", "connecting", "accepting", "open", "leaving", "ended"}]
    /\ socket \in [Clients -> {"up", "stalled", "closed"}]
    /\ stage \in [Broadcasts -> {"none", "sending", "done"}]
    /\ pending \in [Broadcasts -> SUBSET Clients] /\ dead \in [Broadcasts -> SUBSET Clients]
    /\ missable \in [Broadcasts -> SUBSET Clients]
    /\ got \in [Clients -> SUBSET Broadcasts]
    /\ closing \in [begun : BOOLEAN, rest : SUBSET Clients]

\* There are never more connections than the largest limit allowed so far, although
\* the handshake between the check and the listing suspends connect.
ConnectionsBounded == Cardinality(conns) <= top

\* A listed connection, and preferences that are kept, belong to a handler that will
\* unlist them: nothing is left of a connection when its handler has ended.
NothingLeftBehind ==
    conns \cup DOMAIN prefs \subseteq {c \in Clients : pc[c] \in {"open", "leaving"}}

\* Who was listed when a broadcast began and wanted it has been sent it, without an
\* exception, by the time it is done, or is not listed any more.
NobodyMissesSilently ==
    \A b \in Broadcasts : stage[b] = "done" =>
        \A c \in missable[b] : b \in got[c] \/ c \notin conns

\* A client that stalls keeps only its own send from finishing.
StallsAlone ==
    \A b \in Broadcasts, c \in Clients :
        c \in pending[b] ~> (c \notin pending[b] \/ socket[c] = "stalled")

\* After the shutdown has closed all connections none is open (close_all).
AllClosed == (closing.begun /\ closing.rest = {}) => conns = {}
=============================================================================
