----------------------------- MODULE TaskRunner -----------------------------
(***************************************************************************)
(* The task runner of gateway/tasks/runner.go: the cap on concurrent runs, *)
(* the life of a run from Start to the reaper, and the output buffer of a  *)
(* run with its two pump goroutines and its subscribers, the WebSocket     *)
(* handlers of gateway/tasks_handlers.go.                                  *)
(*                                                                         *)
(* ringBuffer.write copies the subscriber channels under its lock and      *)
(* sends to the copies after unlocking, so a send can meet a channel that  *)
(* has been closed in between; that panics, and ends the gateway.          *)
(***************************************************************************)
EXTENDS Naturals, FiniteSets

CONSTANTS
    Callers,        \* request goroutines
    Runs,           \* runs that can ever be started (bound)
    Subs,           \* subscriptions that can ever be made (bound)
    Pumps,          \* the goroutines that read stdout and stderr of a run
    Chunks,         \* chunks of output that can ever be read (bound)
    ChanCap,        \* capacity of a subscriber's channel
    MaxConcurrent,  \* cfg.MaxConcurrent
    None

ASSUME RunnerAssumption ==
    /\ IsFiniteSet(Callers) /\ Callers # {}
    /\ IsFiniteSet(Runs)
    /\ MaxConcurrent \in Nat \ {0}
    /\ ChanCap \in Nat \ {0}
    /\ None \notin Runs

VARIABLES
    active,     \* r.active
    starting,   \* callers that have passed the check of Start
    run,        \* every run: how far it is, its status, rs.killed
    data,       \* chunks in the buffer of a run
    pump,       \* every pump: the chunk it is sending, and to whom still
    sub,        \* every subscription, with what it has been given
    panicked    \* a goroutine has panicked: the gateway is gone

vars == <<active, starting, run, data, pump, sub, panicked>>
runVars == <<active, starting, run>>
outVars == <<data, pump, sub>>

\* How far a run is: its process lives; the process has exited; the status is
\* set; the buffer is closed; done is closed; active is decremented; reaped.
Stages   == {"none", "live", "exited", "finished", "closed", "done", "over", "reaped"}
Statuses == {"running", "exited", "killed", "error"}
Run      == [stage : Stages, status : Statuses, killed : BOOLEAN]

Reading  == [chunk |-> None, left |-> {}]

\* run: the run subscribed to; open: the channel is in the buffer's subs;
\* held: the subscriber still uses it; queue: chunks waiting in the channel;
\* snapped: it has its snapshot; given: the chunks of the snapshot, those sent
\* to the channel, and those dropped because the channel was full.
NoSub == [run |-> None, open |-> FALSE, held |-> FALSE, queue |-> 0,
          snapped |-> FALSE, given |-> {}]

TypeOK ==
    /\ active \in Nat
    /\ starting \subseteq Callers
    /\ run \in [Runs -> Run]
    /\ data \in [Runs -> SUBSET Chunks]
    /\ pump \in [Runs \X Pumps -> [chunk : Chunks \cup {None}, left : SUBSET Subs]]
    /\ sub \in [Subs -> [run : Runs \cup {None}, open : BOOLEAN, held : BOOLEAN,
                         queue : 0..ChanCap,
                         snapped : BOOLEAN, given : SUBSET Chunks]]
    /\ panicked \in BOOLEAN

Init ==
    /\ active = 0
    /\ starting = {}
    /\ run = [r \in Runs |-> [stage |-> "none", status |-> "running", killed |-> FALSE]]
    /\ data = [r \in Runs |-> {}]
    /\ pump = [k \in Runs \X Pumps |-> Reading]
    /\ sub = [u \in Subs |-> NoSub]
    /\ panicked = FALSE

-----------------------------------------------------------------------------

At(r, stages) == run[r].stage \in stages
Known(r)      == ~At(r, {"none", "reaped"})
Counted(r)    == At(r, {"live", "exited", "finished", "closed", "done"})
CountedRuns   == {r \in Runs : Counted(r)}
IsClosed(r)   == At(r, {"closed", "done", "over", "reaped"})
OpenSubs(r)   == {u \in Subs : sub[u].run = r /\ sub[u].open}
Unread        == Chunks \ UNION {data[r] : r \in Runs}
Move(r, stage) == run' = [run EXCEPT ![r].stage = stage]

\* Start: the cap is compared with an atomic load.
StartCheck(c) ==
    /\ c \notin starting
    /\ active < MaxConcurrent
    /\ starting' = starting \cup {c}
    /\ UNCHANGED <<active, run, outVars, panicked>>

\* Mutant of StartLaunch: active is incremented before a spawn that may fail.
StartLaunchCountsFailed(c) ==
    /\ c \in starting
    /\ starting' = starting \ {c}
    /\ active' = active + 1
    /\ \/ \E r \in Runs : At(r, {"none"}) /\ Move(r, "live")
       \/ UNCHANGED run
    /\ UNCHANGED <<outVars, panicked>>

\* Start: the process is spawned, active incremented, the run registered, its
\* pumps and its waiter started; or the spawn fails.
StartLaunch(c) ==
    /\ c \in starting
    /\ starting' = starting \ {c}
    /\ \/ \E r \in Runs :
             /\ At(r, {"none"})
             /\ Move(r, "live")
             /\ active' = active + 1
       \/ UNCHANGED <<active, run>>
    /\ UNCHANGED <<outVars, panicked>>

\* Stop: mark the run killed, then signal the process.
Stop(r) ==
    /\ Known(r)
    /\ run' = [run EXCEPT ![r].killed = TRUE]
    /\ UNCHANGED <<active, starting, outVars, panicked>>

\* The process exits, by itself, on a timeout or killed.
ProcessExit(r) ==
    /\ At(r, {"live"})
    /\ Move(r, "exited")
    /\ UNCHANGED <<active, starting, outVars, panicked>>

\* finish, under rs.mu.
SetStatus(r) ==
    /\ At(r, {"exited"})
    /\ \E status \in IF run[r].killed THEN {"killed"} ELSE {"exited", "error"} :
          run' = [run EXCEPT ![r].stage = "finished", ![r].status = status]
    /\ UNCHANGED <<active, starting, outVars, panicked>>

\* finish: buf.close closes the channels of all subscribers.
CloseBuffer(r) ==
    /\ At(r, {"finished"})
    /\ Move(r, "closed")
    /\ sub' = [u \in Subs |-> IF u \in OpenSubs(r) THEN [sub[u] EXCEPT !.open = FALSE]
                                                  ELSE sub[u]]
    /\ UNCHANGED <<active, starting, data, pump, panicked>>

\* Mutant of CloseDone: done waits for the subscribers to leave.
CloseDoneAfterSubs(r) ==
    /\ At(r, {"closed"})
    /\ \A u \in Subs : sub[u].run = r => ~sub[u].held
    /\ Move(r, "done")
    /\ UNCHANGED <<active, starting, outVars, panicked>>

\* finish: close(rs.done).
CloseDone(r) ==
    /\ At(r, {"closed"})
    /\ Move(r, "done")
    /\ UNCHANGED <<active, starting, outVars, panicked>>

\* The waiter decrements active last.
Uncount(r) ==
    /\ At(r, {"done"})
    /\ Move(r, "over")
    /\ active' = active - 1
    /\ UNCHANGED <<starting, outVars, panicked>>

\* reapLoop forgets a run ten minutes after FinishedAt.
Reap(r) ==
    /\ At(r, {"over"})
    /\ Move(r, "reaped")
    /\ UNCHANGED <<active, starting, outVars, panicked>>

-----------------------------------------------------------------------------
(* Output.                                                                  *)

\* A pump reads a chunk; ringBuffer.write stores it and copies the list of
\* subscribers, under the lock.  What the process wrote can still be read after
\* it has exited.
Write(r, k) ==
    /\ ~At(r, {"none", "reaped"})
    /\ pump[<<r, k>>] = Reading
    /\ \E c \in Unread :
          /\ data' = [data EXCEPT ![r] = @ \cup {c}]
          /\ pump' = [pump EXCEPT ![<<r, k>>] = IF OpenSubs(r) = {} THEN Reading
                                            ELSE [chunk |-> c, left |-> OpenSubs(r)]]
    /\ UNCHANGED <<runVars, sub, panicked>>

\* The pump sends to the next channel of its copy, without the lock: a full
\* channel drops the chunk, a closed one panics.
Send(r, k) ==
    LET c == pump[<<r, k>>].chunk
        left == pump[<<r, k>>].left IN
    \E u \in left :
       /\ pump' = [pump EXCEPT ![<<r, k>>] = IF left = {u} THEN Reading
                                             ELSE [chunk |-> c, left |-> left \ {u}]]
       /\ IF ~sub[u].open
            THEN /\ panicked' = TRUE
                 /\ sub' = sub
            ELSE /\ panicked' = panicked
                 /\ sub' = [sub EXCEPT ![u].queue = IF @ < ChanCap THEN @ + 1 ELSE @,
                                        ![u].given = @ \cup {c}]
       /\ UNCHANGED <<runVars, data>>

\* Subscribe, first half: a channel in the buffer's list, or a closed one if
\* the buffer is closed already.
Subscribe(u) ==
    /\ sub[u].run = None
    /\ \E r \in Runs :
          /\ Known(r)
          /\ sub' = [sub EXCEPT ![u] = [NoSub EXCEPT !.run = r, !.open = ~IsClosed(r),
                                                     !.held = TRUE]]
    /\ UNCHANGED <<runVars, data, pump, panicked>>

\* Mutant of Snapshot: it is left out once the channel has delivered something.
SnapshotOnlyFirst(u) ==
    /\ sub[u].held
    /\ ~sub[u].snapped
    /\ sub' = [sub EXCEPT ![u].snapped = TRUE,
                          ![u].given = IF @ = {} THEN data[sub[u].run] ELSE @]
    /\ UNCHANGED <<runVars, data, pump, panicked>>

\* Subscribe, second half: the snapshot.
Snapshot(u) ==
    /\ sub[u].held
    /\ ~sub[u].snapped
    /\ sub' = [sub EXCEPT ![u].snapped = TRUE, ![u].given = @ \cup data[sub[u].run]]
    /\ UNCHANGED <<runVars, data, pump, panicked>>

\* The WebSocket handler takes a chunk out of its channel.
Receive(u) ==
    /\ sub[u].held
    /\ sub[u].snapped
    /\ sub[u].queue > 0
    /\ sub' = [sub EXCEPT ![u].queue = @ - 1]
    /\ UNCHANGED <<runVars, data, pump, panicked>>

\* The handler returns: unsubscribe closes the channel if it is still listed.
Unsubscribe(u) ==
    /\ sub[u].held
    /\ sub[u].snapped
    /\ sub' = [sub EXCEPT ![u] = [NoSub EXCEPT !.run = sub[u].run]]
    /\ UNCHANGED <<runVars, data, pump, panicked>>

-----------------------------------------------------------------------------

Finish(r) == SetStatus(r) \/ CloseBuffer(r) \/ CloseDone(r) \/ Uncount(r)

Next ==
    /\ ~panicked
    /\ \/ \E c \in Callers : StartCheck(c) \/ StartLaunch(c)
       \/ \E r \in Runs : Stop(r) \/ ProcessExit(r) \/ Finish(r) \/ Reap(r)
       \/ \E r \in Runs, k \in Pumps : Write(r, k) \/ Send(r, k)
       \/ \E u \in Subs : Subscribe(u) \/ Snapshot(u) \/ Receive(u) \/ Unsubscribe(u)

\* The waiter of a run runs; a killed process exits, since cancelling the
\* context of the command sends SIGKILL.  No process need exit by itself.
Fairness ==
    \A r \in Runs :
        /\ WF_vars(~panicked /\ Finish(r))
        /\ WF_vars(~panicked /\ run[r].killed /\ ProcessExit(r))

Spec == Init /\ [][Next]_vars /\ Fairness

-----------------------------------------------------------------------------
(* Properties.                                                              *)

\* active counts exactly the runs whose waiter has not come to its end, so the
\* cap never leaks (runner.go:120-135).
ActiveExact == active = Cardinality(CountedRuns)

\* The cap is compared before the spawn and counted after it: Starts that
\* overlap exceed it, by less than their number (runner.go:69, 120).
RunsOvershoot ==
    Cardinality(CountedRuns) + Cardinality(starting) <= MaxConcurrent - 1 + Cardinality(Callers)

\* A subscriber misses no chunk silently: what was written is in its snapshot, in
\* its channel, dropped because the channel was full, or on its way; subscribing
\* before the snapshot leaves no gap (runner.go:191-199, 297-322).
NoGap ==
    \A u \in Subs :
        sub[u].open /\ sub[u].snapped =>
            \A c \in data[sub[u].run] \ sub[u].given :
                \E k \in Pumps : /\ pump[<<sub[u].run, k>>].chunk = c
                                 /\ u \in pump[<<sub[u].run, k>>].left

\* Once a run is done no subscriber of it is left on a channel that nobody will
\* close, also one that subscribes after the end (runner.go:329-366).
DoneLeavesNoneOpen ==
    \A r \in Runs : At(r, {"done", "over", "reaped"}) => OpenSubs(r) = {}

\* What a subscriber can rely on: no silent loss, and an end (runner.go:191-199, 297-366).
SubscriberServed == NoGap /\ DoneLeavesNoneOpen

\* A run that is stopped ends: done is closed and the run is counted no more,
\* whatever pumps and subscribers do, unless the gateway panics.
StopEnds ==
    \A r \in Runs : run[r].killed ~> At(r, {"over", "reaped"}) \/ panicked

\* "It is safe for concurrent use" (runner.go:43).  Refuted: an unsubscribe, or
\* the end of the run, between copying the subscribers and sending to them.
NeverPanics == ~panicked

=============================================================================
