--------------------------- MODULE TerminalSession ---------------------------
(***************************************************************************)
(* The idle detector of a terminal session (kernel/terminal/session.go)    *)
(* and the two loops that listen to it: hub.watchIdle, which fires the     *)
(* onIdle hook (kernel/hub/hub.go), and the notifier of a WebSocket        *)
(* connection, which tells the client that the terminal waits for input    *)
(* (gateway/ws.go).                                                        *)
(*                                                                         *)
(* readLoop and idleLoop share lastOutput and state, two atomics, and      *)
(* idleCh, a channel under a mutex; no lock covers the three together, so  *)
(* every access is an action of its own.  Time is counted in ticks of two  *)
(* seconds, the period of idleLoop and of both polls: in every tick each   *)
(* loop that polls does so once, and the reader comes to rest.             *)
(***************************************************************************)
EXTENDS Naturals

CONSTANTS
    Threshold,      \* idleThreshold, in ticks
    MaxOutputs,     \* bound on the chunks of output
    Hook,           \* the loop of hub.watchIdle
    Client,         \* the notifier of a WebSocket connection
    Detector        \* idleLoop

ASSUME SessionAssumption ==
    /\ Threshold \in Nat \ {0}
    /\ MaxOutputs \in Nat
    /\ Hook # Client
    /\ Detector \notin {Hook, Client}

Listeners == {Hook, Client}

VARIABLES
    outputs,        \* chunks read so far
    age,            \* ticks since lastOutput, up to Threshold
    state,          \* Session.state
    idle,           \* Session.idleCh: which channel it is, and whether closed
    reader,         \* where readLoop is
    detector,       \* where idleLoop is
    listener,       \* where each listener is, and the channel it holds
    told,           \* the last channel each listener has reported
    due,            \* the polls still to come in this tick
    exited          \* Session.done is closed

vars == <<outputs, age, state, idle, reader, detector, listener, told, due, exited>>
readVars   == <<outputs, reader>>
detectVars == <<age, detector>>
listenVars == <<listener, told>>

TypeOK ==
    /\ outputs \in 0..MaxOutputs
    /\ age \in 0..Threshold
    /\ state \in {"idle", "active", "waiting"}
    /\ idle \in [ch : 1..MaxOutputs + 1, closed : BOOLEAN]
    /\ reader \in {"read", "stamped", "marked", "ended"}
    /\ detector \in {"sleep", "old", "quiet", "marked", "ended"}
    /\ listener \in [Listeners -> [at : {"away", "listen", "hear", "write", "poll", "ended"},
                                   ch : 0..idle.ch]]
    /\ told \in [Listeners -> 0..idle.ch]
    /\ due \subseteq Listeners \cup {Detector}
    /\ exited \in BOOLEAN

Init ==
    /\ outputs = 0
    /\ age = 0
    /\ state = "idle"
    /\ idle = [ch |-> 1, closed |-> FALSE]
    /\ reader = "read"
    /\ detector = "sleep"
    /\ listener = [w \in Listeners |-> [at |-> IF w = Hook THEN "listen" ELSE "away", ch |-> 0]]
    /\ told = [w \in Listeners |-> 0]
    /\ due = {}
    /\ exited = FALSE

-----------------------------------------------------------------------------

Closed(ch) == ch < idle.ch \/ idle.closed
Polling    == {w \in Listeners : listener[w].at = "poll"} \cup
              (IF detector = "ended" THEN {} ELSE {Detector})

\* Two seconds pass.  The loops have polled; the reader and the hook loop,
\* which never block on a peer, have nothing left to do.
Tick ==
    /\ ~exited
    /\ due = {}
    /\ reader = "read"
    /\ listener[Hook].at # "listen"
    /\ listener[Hook].at = "hear" => ~Closed(listener[Hook].ch)
    /\ age' = IF outputs > 0 /\ age < Threshold THEN age + 1 ELSE age
    /\ due' = Polling
    /\ UNCHANGED <<readVars, state, idle, detector, listenVars, exited>>

-----------------------------------------------------------------------------
(* readLoop.                                                                *)

\* A chunk is read and put in the buffer; lastOutput is now.
Output ==
    /\ ~exited
    /\ reader = "read"
    /\ outputs < MaxOutputs
    /\ outputs' = outputs + 1
    /\ age' = 0
    /\ reader' = "stamped"
    /\ UNCHANGED <<state, idle, detector, listenVars, due, exited>>

SetActive ==
    /\ reader = "stamped"
    /\ state' = "active"
    /\ reader' = "marked"
    /\ UNCHANGED <<outputs, idle, detectVars, listenVars, due, exited>>

\* A new channel if the old one is closed.
Rearm ==
    /\ reader = "marked"
    /\ idle' = IF idle.closed THEN [ch |-> idle.ch + 1, closed |-> FALSE] ELSE idle
    /\ reader' = "read"
    /\ UNCHANGED <<outputs, state, detectVars, listenVars, due, exited>>

ReadFails ==
    /\ exited
    /\ reader = "read"
    /\ reader' = "ended"
    /\ UNCHANGED <<outputs, state, idle, detectVars, listenVars, due, exited>>

-----------------------------------------------------------------------------
(* idleLoop.                                                                *)

\* The ticker fires: lastOutput is loaded and compared with the threshold.
LoadOutput ==
    /\ detector = "sleep"
    /\ Detector \in due
    /\ IF outputs > 0 /\ age = Threshold
         THEN detector' = "old" /\ due' = due
         ELSE detector' = "sleep" /\ due' = due \ {Detector}
    /\ UNCHANGED <<readVars, age, state, idle, listenVars, exited>>

\* Then state is loaded.
LoadState ==
    /\ detector = "old"
    /\ IF state = "active"
         THEN detector' = "quiet" /\ due' = due
         ELSE detector' = "sleep" /\ due' = due \ {Detector}
    /\ UNCHANGED <<readVars, age, state, idle, listenVars, exited>>

SetWaiting ==
    /\ detector = "quiet"
    /\ state' = "waiting"
    /\ detector' = "marked"
    /\ UNCHANGED <<readVars, age, idle, listenVars, due, exited>>

CloseIdle ==
    /\ detector = "marked"
    /\ idle' = [idle EXCEPT !.closed = TRUE]
    /\ detector' = "sleep"
    /\ due' = due \ {Detector}
    /\ UNCHANGED <<readVars, age, state, listenVars, exited>>

DetectorEnds ==
    /\ exited
    /\ detector = "sleep"
    /\ detector' = "ended"
    /\ due' = due \ {Detector}
    /\ UNCHANGED <<readVars, age, state, idle, listenVars, exited>>

-----------------------------------------------------------------------------
(* The listeners.                                                           *)

\* A client connects, or goes away.
Connect ==
    /\ ~exited
    /\ listener[Client].at = "away"
    /\ listener' = [listener EXCEPT ![Client].at = "listen"]
    /\ told' = [told EXCEPT ![Client] = 0]
    /\ UNCHANGED <<readVars, detectVars, state, idle, due, exited>>

Disconnect ==
    /\ listener[Client].at \in {"hear", "write", "poll"}
    /\ listener' = [listener EXCEPT ![Client] = [at |-> "away", ch |-> 0]]
    /\ due' = due \ {Client}
    /\ UNCHANGED <<readVars, detectVars, state, idle, told, exited>>

\* Phase 1: take the present channel.
Listen(w) ==
    /\ listener[w].at = "listen"
    /\ listener' = [listener EXCEPT ![w] = [at |-> "hear", ch |-> idle.ch]]
    /\ UNCHANGED <<readVars, detectVars, state, idle, told, due, exited>>

\* Phase 1: the channel is closed: fire the hook, which the bus delivers in
\* goroutines, or begin to write waiting_for_input to the socket.
Report(w) ==
    /\ listener[w].at = "hear"
    /\ Closed(listener[w].ch)
    /\ listener' = [listener EXCEPT ![w].at = IF w = Hook THEN "poll" ELSE "write"]
    /\ told' = IF w = Hook THEN [told EXCEPT ![w] = listener[w].ch] ELSE told
    /\ UNCHANGED <<readVars, detectVars, state, idle, due, exited>>

\* The write is done.  It has no deadline and waits for the lock of the
\* connection, which every other write holds: with a client that does not read
\* it does not return.
Sent ==
    /\ listener[Client].at = "write"
    /\ listener' = [listener EXCEPT ![Client].at = "poll"]
    /\ told' = [told EXCEPT ![Client] = listener[Client].ch]
    /\ UNCHANGED <<readVars, detectVars, state, idle, due, exited>>

\* Phase 2 of watchIdle: poll until the state is Active.
PollState ==
    /\ Hook \in due
    /\ due' = due \ {Hook}
    /\ listener' = IF state = "active" THEN [listener EXCEPT ![Hook].at = "listen"] ELSE listener
    /\ UNCHANGED <<readVars, detectVars, state, idle, told, exited>>

\* Mutant of PollChannel: it does not look at the channel.
PollBlindly ==
    /\ Client \in due
    /\ due' = due \ {Client}
    /\ listener' = [listener EXCEPT ![Client].at = "listen"]
    /\ UNCHANGED <<readVars, detectVars, state, idle, told, exited>>

\* Mutant of PollChannel: it polls the state, as watchIdle does.
PollStateInstead ==
    /\ Client \in due
    /\ due' = due \ {Client}
    /\ listener' = IF state = "active" THEN [listener EXCEPT ![Client].at = "listen"] ELSE listener
    /\ UNCHANGED <<readVars, detectVars, state, idle, told, exited>>

\* Phase 2 of the notifier: poll until there is another channel.
PollChannel ==
    /\ Client \in due
    /\ due' = due \ {Client}
    /\ listener' = IF idle.ch # listener[Client].ch
                     THEN [listener EXCEPT ![Client].at = "listen"] ELSE listener
    /\ UNCHANGED <<readVars, detectVars, state, idle, told, exited>>

\* Mutant of ListenerEnds: phase 2 does not listen to done.
ListenerEndsInPhase1(w) ==
    /\ exited
    /\ listener[w].at = "hear"
    /\ listener' = [listener EXCEPT ![w].at = "ended"]
    /\ due' = due \ {w}
    /\ UNCHANGED <<readVars, detectVars, state, idle, told, exited>>

\* Both phases end when the process has exited.
ListenerEnds(w) ==
    /\ exited
    /\ listener[w].at \in {"hear", "poll"}
    /\ listener' = [listener EXCEPT ![w].at = "ended"]
    /\ due' = due \ {w}
    /\ UNCHANGED <<readVars, detectVars, state, idle, told, exited>>

\* waitLoop: the process has exited, the PTY is closed, then done.
Exit ==
    /\ ~exited
    /\ exited' = TRUE
    /\ UNCHANGED <<readVars, detectVars, state, idle, listenVars, due>>

-----------------------------------------------------------------------------

Reader     == SetActive \/ Rearm \/ ReadFails
Detect     == LoadOutput \/ LoadState \/ SetWaiting \/ CloseIdle \/ DetectorEnds
Hear(w)    == Listen(w) \/ Report(w) \/ ListenerEnds(w)

Next ==
    \/ Tick \/ Output \/ Reader \/ Detect \/ Exit
    \/ Connect \/ Disconnect \/ Sent
    \/ PollState \/ PollChannel
    \/ \E w \in Listeners : Hear(w)

\* Time passes and every goroutine runs.  Output, connections, disconnections,
\* the exit of the process and the end of a write to a client need not happen.
Fairness ==
    /\ WF_vars(Tick)
    /\ WF_vars(Reader)
    /\ WF_vars(Detect)
    /\ WF_vars(PollState)
    /\ WF_vars(PollChannel)
    /\ \A w \in Listeners : WF_vars(Hear(w))

Spec == Init /\ [][Next]_vars /\ Fairness

-----------------------------------------------------------------------------
(* Properties.                                                              *)

Connected == listener[Client].at \notin {"away", "ended"}

\* The client reads its socket: what is written to it is written in the end.
ClientReads == WF_vars(Sent)

\* A closing of the channel that has been reported is reported again.
Repeats(w) == /\ listener[w].at \in {"hear", "write"}
              /\ listener'[w].at = "poll"
              /\ told[w] = listener[w].ch

\* A connected client that reads its socket is told that the terminal waits, or
\* the terminal goes on (ws.go:134-167).
ClientInformed ==
    ClientReads =>
        \A n \in 1..MaxOutputs :
            Connected /\ idle = [ch |-> n, closed |-> TRUE]
                ~> told[Client] = n \/ idle.ch # n \/ ~Connected

\* Once the process has exited no loop of the session is left running, whatever
\* its client does (session.go:150-158, hub.go:117-144), nor the notifier of a
\* client that reads its socket; that of one that does not may be left in its
\* write (ws.go:134-167).
LoopsEnd ==
    /\ exited ~> reader = "ended" /\ detector = "ended" /\ listener[Hook].at = "ended"
    /\ exited ~> listener[Client].at \in {"away", "ended", "write"}
    /\ ClientReads => (exited ~> listener[Client].at \in {"away", "ended"})

\* "Without this gate ... we'd spam idle events" (hub.go:114-116): the hook is
\* fired once for each closing of the channel.  Refuted: idleLoop sets Waiting,
\* readLoop sets Active and finds the channel open, idleLoop closes it; state is
\* Active, so watchIdle takes the closed channel again at every poll.  So does a
\* poll that falls between SetActive and Rearm of readLoop.
HookNeverRepeats == [][~Repeats(Hook)]_vars

\* "idle detector fires after threshold" (README.md:531): every output is
\* followed by more, by the exit or by an idle event.  Refuted: idleLoop loads an
\* old lastOutput, readLoop sets Active, idleLoop takes that for the state it was
\* about and sets Waiting, readLoop makes a new channel; no one closes it.
SilenceReported ==
    \A n \in 1..MaxOutputs :
        outputs = n ~> outputs > n \/ exited \/ (idle.closed /\ told[Hook] = idle.ch)

=============================================================================
