---------------------------- MODULE OutputStream ----------------------------
(***************************************************************************)
(* The output of a session: the ring buffer with its subscribers           *)
(* (kernel/terminal/buffer.go), fed by the read loop of the session, and   *)
(* the connections of the terminal clients (gateway/ws.go).                *)
(*                                                                         *)
(* The bytes of the terminal are numbered from 1; what a client has been   *)
(* sent is the set of their numbers.                                       *)
(***************************************************************************)
EXTENDS Naturals, Sequences, FiniteSets, SequencesExt, FiniteSetsExt

CONSTANTS
    Clients,
    Capacity,       \* of the ring, in bytes
    ChannelSize,    \* chunks a subscriber's channel holds
    MaxChunk,       \* bound: bytes the read loop reads at once
    MaxBytes        \* bound: bytes of output

OutputStreamAssumption ==
    /\ Capacity \in Nat \ {0} /\ ChannelSize \in Nat \ {0}
    /\ MaxChunk \in Nat \ {0} /\ MaxBytes \in Nat /\ IsFiniteSet(Clients)

VARIABLES
    buf, head, full,    \* the ring
    written,            \* bytes written to it
    chunk,              \* the bytes the write is telling the subscribers of
    untold,             \* the subscribers it has not told yet
    exited,             \* done is closed
    client

vars == <<buf, head, full, written, chunk, untold, exited, client>>
Ring == <<buf, head, full, written>>

Offline == [pc |-> "off", subscribed |-> FALSE, chan |-> <<>>, got |-> {}, twice |-> FALSE,
            dropped |-> FALSE, ended |-> FALSE]
Bytes == 1..MaxBytes
TypeOK ==
    /\ buf \in [0..Capacity - 1 -> 0..MaxBytes] /\ head \in 0..Capacity - 1 /\ full \in BOOLEAN
    /\ written \in 0..MaxBytes /\ chunk \subseteq Bytes /\ untold \subseteq Clients
    /\ exited \in BOOLEAN
    /\ \A c \in Clients : LET s == client[c] IN
         /\ s.pc \in {"off", "snapshot", "loop", "leave"}
         /\ s.subscribed \in BOOLEAN /\ s.got \subseteq Bytes
         /\ Len(s.chan) <= ChannelSize /\ \A k \in DOMAIN s.chan : s.chan[k] \subseteq Bytes
         /\ {s.twice, s.dropped, s.ended} \subseteq BOOLEAN

Init ==
    /\ buf = [k \in 0..Capacity - 1 |-> 0] /\ head = 0 /\ full = FALSE
    /\ written = 0 /\ chunk = {} /\ untold = {} /\ exited = FALSE
    /\ client = [c \in Clients |-> Offline]

\* ------------------------------------------------------------- the ring
\* Byte i of the data goes to head + i; a later one overwrites an earlier one.
Stored(n) ==
    [k \in 0..Capacity - 1 |->
        LET at == {i \in 0..n - 1 : (head + i) % Capacity = k} IN
        IF at = {} THEN buf[k] ELSE written + Max(at) + 1]

Moved(n) == (head + n) % Capacity
Wraps(n) == n >= Capacity \/ Moved(n) <= (Moved(n) + Capacity - n) % Capacity

Write(n) ==
    /\ untold = {} /\ written + n <= MaxBytes
    /\ buf' = Stored(n) /\ head' = Moved(n) /\ full' = (full \/ Wraps(n))
    /\ written' = written + n
    /\ chunk' = written + 1..written + n
    /\ untold' = Clients
    /\ UNCHANGED <<exited, client>>

Snapshot ==
    IF full THEN [k \in 1..Capacity |-> buf[(head + k - 1) % Capacity]]
    ELSE [k \in 1..head |-> buf[k - 1]]

\* The subscribers are told after the lock of the ring is gone, none for the other.
Notify(c) ==
    /\ c \in untold /\ untold' = untold \ {c}
    /\ LET s == client[c] IN
         \/ /\ s.subscribed /\ Len(s.chan) < ChannelSize
            /\ client' = [client EXCEPT ![c].chan = Append(@, chunk)]
         \/ /\ s.subscribed /\ Len(s.chan) = ChannelSize
            /\ client' = [client EXCEPT ![c].dropped = TRUE]
         \/ ~s.subscribed /\ UNCHANGED client
    /\ UNCHANGED <<Ring, chunk, exited>>

\* The wait loop does not wait for the read loop, which may still be writing.
ProcessExit ==
    /\ ~exited /\ exited' = TRUE
    /\ UNCHANGED <<Ring, chunk, untold, client>>

\* ------------------------------------------------------- a terminal client
Received(c, bytes) == [client[c] EXCEPT !.got = @ \union bytes, !.twice = @ \/ client[c].got \cap bytes # {}]
Subscribed(c) == [client[c] EXCEPT !.subscribed = TRUE]
Replayed(c) == Received(c, ToSet(Snapshot))
JoinsLate(c, step) == IF step = 1 THEN Replayed(c) ELSE Subscribed(c)
Joins(c, step) == IF step = 1 THEN Subscribed(c) ELSE Replayed(c)

Connect(c) ==
    /\ client[c].pc = "off" /\ ~exited
    /\ client' = [client EXCEPT ![c] = [Joins(c, 1) EXCEPT !.pc = "snapshot"]]
    /\ UNCHANGED <<Ring, chunk, untold, exited>>
Replay(c) ==
    /\ client[c].pc = "snapshot"
    /\ client' = [client EXCEPT ![c] = [Joins(c, 2) EXCEPT !.pc = "loop"]]
    /\ UNCHANGED <<Ring, chunk, untold, exited>>

\* One of what is ready: a chunk, the exit, the end of the connection.
SendChunk(c) ==
    /\ client[c].pc = "loop" /\ client[c].chan # <<>>
    /\ client' = [client EXCEPT ![c] = [Received(c, Head(client[c].chan)) EXCEPT !.chan = Tail(@)]]
    /\ UNCHANGED <<Ring, chunk, untold, exited>>
SendExit(c) ==
    /\ client[c].pc = "loop" /\ exited
    /\ client' = [client EXCEPT ![c].pc = "leave", ![c].ended = TRUE]
    /\ UNCHANGED <<Ring, chunk, untold, exited>>
Disconnect(c) ==
    /\ client[c].pc = "loop"
    /\ client' = [client EXCEPT ![c].pc = "leave"]
    /\ UNCHANGED <<Ring, chunk, untold, exited>>
Unsubscribe(c) ==
    /\ client[c].pc = "leave" /\ client' = [client EXCEPT ![c] = Offline]
    /\ UNCHANGED <<Ring, chunk, untold, exited>>

Next == \/ \E n \in 1..MaxChunk : Write(n)
        \/ \E c \in Clients : \/ Notify(c) \/ Connect(c) \/ Replay(c) \/ SendChunk(c)
                              \/ SendExit(c) \/ Disconnect(c) \/ Unsubscribe(c)
        \/ ProcessExit

Spec == Init /\ [][Next]_vars

\* A snapshot is the last bytes of the output, as many as the ring holds, in order
\* (buffer.go:36-83), for chunks shorter and longer than the ring.
SnapshotIsTail ==
    LET n == Min({written, Capacity}) IN Snapshot = [k \in 1..n |-> written - n + k]

\* What a client has been sent or is about to be sent has no gap and reaches the last
\* byte, unless its channel was full once (ws.go:70-81, 171-186): the subscription
\* comes before the snapshot so that nothing falls between the two.
NothingSkipped ==
    \A c \in Clients : client[c].pc = "loop" /\ ~client[c].dropped =>
        LET seen == client[c].got \union (UNION ToSet(client[c].chan))
                        \union (IF c \in untold THEN chunk ELSE {})
        IN  seen = {i \in Bytes : i <= written /\ \E j \in seen : j <= i} /\ (written > 0 => seen # {})

\* Refuted: no data is lost (ws.go:70): the chunks left in the channel when the exit
\* is chosen, and those that found the channel full, are.
NoDataLost ==
    \A c \in Clients : /\ ~client[c].dropped
                       /\ client[c].ended => client[c].chan = <<>>

\* Refuted: a client gets every byte once.
NothingTwice == \A c \in Clients : ~client[c].twice
=============================================================================
