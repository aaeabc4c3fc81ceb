----------------------------- MODULE PriceState -----------------------------
(***************************************************************************)
(* AppState of services/oracle and the handlers that read it: the engine   *)
(* task stores each point under the write lock and then broadcasts it; a   *)
(* consumer streams the broadcast over /v1/ws and may read a snapshot from *)
(* /v1/prices at any time.  The handler of /v1/ws answers the upgrade; the *)
(* task it leaves behind makes the receiver later, and what is broadcast   *)
(* before that is not in the stream.  The broadcast channel keeps the      *)
(* newest Backlog points; a receiver that falls behind skips to the oldest *)
(* one kept.                                                               *)
(***************************************************************************)
EXTENDS Naturals, Sequences

CONSTANTS
    Listed,      \* symbols of the instruments that are listed
    Consumers,   \* consumers with a websocket of their own
    Backlog,     \* broadcast::channel(1024)
    MaxPoints    \* bound on the points published

ASSUME PriceStateAssumption ==
    /\ Backlog \in Nat \ {0}
    /\ MaxPoints \in Nat

VARIABLES
    prices,   \* prices[s]: number of the point stored for s, 0 for none
    writing,  \* the point update() is busy with, or made last
    stage,    \* update() waits for the lock, or is about to broadcast
    log,      \* all points broadcast, in order
    upgraded, \* upgraded[c]: the websocket of c is open
    next,     \* next[c]: position of the receiver, 0 while there is none
    view,     \* view[c][s]: newest point of s that c got from its stream
    snap,     \* snap[c]: what /v1/prices last answered c, or NoSnap
    joined,   \* history: the position the receiver started at
    lagged    \* history: RecvError::Lagged since c last read /v1/prices

consumerVars == <<upgraded, next, view, snap, joined, lagged>>
stateVars == <<prices, writing, stage, log, consumerVars>>

PointNo == 0 .. MaxPoints
StatePoint == [symbol : Listed, no : PointNo]
Nothing == [s \in Listed |-> 0]

\* Of a snapshot: how much had been broadcast when it was read, and whether
\* the stream had delivered anything by then.
SnapRecord == [at : PointNo, heard : BOOLEAN, prices : [Listed -> PointNo]]

Max2(a, b) == IF a > b THEN a ELSE b

TypeOK ==
    /\ prices \in [Listed -> PointNo]
    /\ writing \in StatePoint
    /\ stage \in {"idle", "write", "send"}
    /\ log \in Seq(StatePoint)
    /\ upgraded \in [Consumers -> BOOLEAN]
    /\ next \in [Consumers -> 0 .. MaxPoints + 1]
    /\ view \in [Consumers -> [Listed -> PointNo]]
    /\ snap \in [Consumers -> SnapRecord]
    /\ joined \in [Consumers -> 0 .. MaxPoints + 1]
    /\ lagged \in [Consumers -> BOOLEAN]

\* To have read nothing is to have read the empty store at the start.
NoSnap == [at |-> 0, heard |-> FALSE, prices |-> Nothing]

StateInit ==
    /\ prices = Nothing
    /\ writing \in [symbol : Listed, no : {0}]
    /\ stage = "idle"
    /\ log = <<>>
    /\ upgraded = [c \in Consumers |-> FALSE]
    /\ next = [c \in Consumers |-> 0]
    /\ view = [c \in Consumers |-> Nothing]
    /\ snap = [c \in Consumers |-> NoSnap]
    /\ joined = [c \in Consumers |-> 0]
    /\ lagged = [c \in Consumers |-> FALSE]

-----------------------------------------------------------------------------
(***************************************************************************)
(* The engine task: state.update(point).await for each point in turn.      *)
(***************************************************************************)
StartUpdate(s) ==
    /\ stage = "idle"
    /\ writing.no < MaxPoints
    /\ writing' = [symbol |-> s, no |-> writing.no + 1]
    /\ stage' = "write"
    /\ UNCHANGED <<prices, log, consumerVars>>

\* prices.write().await.insert(..)
StorePoint ==
    /\ stage = "write"
    /\ prices' = [prices EXCEPT ![writing.symbol] = writing.no]
    /\ stage' = "send"
    /\ UNCHANGED <<writing, log, consumerVars>>

\* Mutant: the send runs in a task of its own and may be overtaken.
BroadcastSpawned ==
    /\ stage = "send"
    /\ \/ log' = Append(log, writing)
       \/ /\ log # <<>>
          /\ log' = [log EXCEPT ![Len(log)] = writing] \o <<log[Len(log)]>>
    /\ stage' = "idle"
    /\ UNCHANGED <<prices, writing, consumerVars>>

\* tx.send(point)
BroadcastPoint ==
    /\ stage = "send"
    /\ log' = Append(log, writing)
    /\ stage' = "idle"
    /\ UNCHANGED <<prices, writing, consumerVars>>

\* Mutant: the point is broadcast before it is stored.
BroadcastFirst ==
    \/ /\ stage = "write"
       /\ log' = Append(log, writing)
       /\ stage' = "send"
       /\ UNCHANGED <<prices, writing, consumerVars>>
    \/ /\ stage = "send"
       /\ prices' = [prices EXCEPT ![writing.symbol] = writing.no]
       /\ stage' = "idle"
       /\ UNCHANGED <<writing, log, consumerVars>>

Update == StorePoint \/ BroadcastPoint

-----------------------------------------------------------------------------
(***************************************************************************)
(* Consumers                                                               *)
(***************************************************************************)
\* ws_handler: the upgrade is answered, the socket is open.
Upgrade(c) ==
    /\ ~upgraded[c]
    /\ upgraded' = [upgraded EXCEPT ![c] = TRUE]
    /\ UNCHANGED <<prices, writing, stage, log, next, view, snap, joined, lagged>>

Subscribed(c) == next[c] > 0

\* stream_prices, in the task that on_upgrade spawned: subscribe() sees only
\* what is broadcast from now on.
Subscribe(c) ==
    /\ upgraded[c]
    /\ ~Subscribed(c)
    /\ next' = [next EXCEPT ![c] = Len(log) + 1]
    /\ joined' = [joined EXCEPT ![c] = Len(log) + 1]
    /\ UNCHANGED <<prices, writing, stage, log, upgraded, view, snap, lagged>>

\* all_prices, read under the lock.  It needs no websocket, and c may ask
\* whenever it likes.
Snapshot(c) ==
    /\ snap' = [snap EXCEPT ![c] = [at |-> Len(log),
                                   heard |-> view[c] # Nothing,
                                   prices |-> prices]]
    /\ lagged' = [lagged EXCEPT ![c] = FALSE]
    /\ UNCHANGED <<prices, writing, stage, log, upgraded, next, view, joined>>

OldestKept == IF Len(log) > Backlog THEN Len(log) - Backlog + 1 ELSE 1

\* Mutant: the warning is logged and the receiver stays where it is.
StayBehind(c) ==
    /\ lagged' = [lagged EXCEPT ![c] = TRUE]
    /\ UNCHANGED <<next, view>>

\* Mutant: the receiver is moved one past the next point to come.
SkipTooFar(c) ==
    /\ lagged' = [lagged EXCEPT ![c] = TRUE]
    /\ next' = [next EXCEPT ![c] = Len(log) + 2]
    /\ UNCHANGED view

\* RecvError::Lagged: the skipped points are gone; the loop goes on.
SkipToOldest(c) ==
    /\ lagged' = [lagged EXCEPT ![c] = TRUE]
    /\ next' = [next EXCEPT ![c] = OldestKept]
    /\ UNCHANGED view

\* Ok(point): send it to the socket.
ForwardPoint(c) ==
    LET p == log[next[c]] IN
    /\ view' = [view EXCEPT ![c][p.symbol] = p.no]
    /\ next' = [next EXCEPT ![c] = @ + 1]
    /\ UNCHANGED lagged

ReadStream(c) ==
    /\ Subscribed(c)
    /\ next[c] <= Len(log)
    /\ IF next[c] < OldestKept THEN SkipToOldest(c) ELSE ForwardPoint(c)
    /\ UNCHANGED <<prices, writing, stage, log, upgraded, snap, joined>>

\* The socket fails or is closed, perhaps before there is a receiver; the
\* consumer forgets what it knew.
Leave(c) ==
    /\ upgraded[c]
    /\ upgraded' = [upgraded EXCEPT ![c] = FALSE]
    /\ next' = [next EXCEPT ![c] = 0]
    /\ joined' = [joined EXCEPT ![c] = 0]
    /\ view' = [view EXCEPT ![c] = Nothing]
    /\ snap' = [snap EXCEPT ![c] = NoSnap]
    /\ lagged' = [lagged EXCEPT ![c] = FALSE]
    /\ UNCHANGED <<prices, writing, stage, log>>

Consumer(c) ==
    Upgrade(c) \/ Subscribe(c) \/ Snapshot(c) \/ ReadStream(c) \/ Leave(c)

StateNext ==
    \/ \E s \in Listed : StartUpdate(s)
    \/ Update
    \/ \E c \in Consumers : Consumer(c)

StateSpec == StateInit /\ [][StateNext]_stateVars

\* The engine task runs on, so does the task behind an upgrade, and a consumer
\* keeps reading its socket.
StateFairSpec ==
    /\ StateSpec
    /\ WF_stateVars(Update)
    /\ \A c \in Consumers :
          WF_stateVars(Subscribe(c)) /\ WF_stateVars(ReadStream(c))

-----------------------------------------------------------------------------
(***************************************************************************)
(* Properties                                                              *)
(***************************************************************************)

\* A consumer never gets from its stream a point newer than what /v1/price
\* would answer it for the same symbol.
StreamNotAheadOfStore ==
    \A i \in 1 .. Len(log) : prices[log[i].symbol] >= log[i].no

\* Positions the receiver of c is past, of whose symbol c holds only an older
\* point.
Missed(c) ==
    {i \in 1 .. Len(log) : LET s == log[i].symbol IN
        i < next[c] /\ log[i].no > Max2(snap[c].prices[s], view[c][s])}

\* What was broadcast after the snapshot and before there was a receiver.
Gap(c) == (snap[c].at + 1) .. (joined[c] - 1)

\* Unless its receiver lagged since it last read the snapshot, a consumer whose
\* stream had delivered a point before it read the snapshot misses nothing:
\* what it holds is at least as new, for every symbol, as every broadcast up to
\* its position, those before it subscribed included.  One that has only seen
\* the handshake cannot know that it has a receiver; what it misses was all
\* broadcast between its snapshot and subscribe().
SnapshotThenStreamIsComplete ==
    \A c \in Consumers : Subscribed(c) /\ ~lagged[c] =>
        /\ snap[c].heard => Missed(c) = {}
        /\ Missed(c) \subseteq Gap(c)

\* The stream of a consumer never takes it back to an older point.
StreamGoesForward ==
    [][\A c \in Consumers, s \in Listed :
          Subscribed(c) /\ next'[c] > 0 => view'[c][s] >= view[c][s]]_stateVars

\* However far it fell behind, a consumer that stays and goes on reading gets
\* its receiver, and the newest point in the end.
NewestPointArrives ==
    \A c \in Consumers :
        []<>(upgraded[c] => next[c] = Len(log) + 1)
=============================================================================
