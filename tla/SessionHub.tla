----------------------------- MODULE SessionHub -----------------------------
(***************************************************************************)
(* The session hub of kernel/hub/hub.go: the map of live terminal          *)
(* sessions, the set of sessions the user asked to stop, the sessions      *)
(* table, the per-session config files, the agent processes with their     *)
(* exit callbacks, and the goroutines that call Start, Stop, Delete,       *)
(* SwitchAccount, RecoverOnStartup and StopAll.                            *)
(*                                                                         *)
(* A step of a goroutine is what it does between two points where another  *)
(* goroutine can get in: a critical section of h.mu, a query, a spawn, a   *)
(* wait.  The gateway may be killed at any point and booted again.         *)
(***************************************************************************)
EXTENDS Naturals, FiniteSets

CONSTANTS
    Sessions,       \* session ids
    Callers,        \* goroutines that serve requests
    Main,           \* the goroutine that boots and shuts down the gateway
    Accounts,       \* Claude accounts a session can be bound to
    Pids,           \* processes the gateway can ever spawn (bound)
    Resumable,      \* Claude sessions whose row holds a claude_session_id
    Injected,       \* sessions whose agent is given config files on disk
    MaxConcurrent,  \* maxConcurrent
    MaxRequests,    \* bound on the requests taken up
    MaxCrashes,     \* bound on how often the gateway goes down
    None,
    Contended       \* stands for a slot nothing is promised of any more

ASSUME HubAssumption ==
    /\ IsFiniteSet(Sessions)
    /\ IsFiniteSet(Callers) /\ Callers # {}
    /\ Main \notin Callers
    /\ MaxConcurrent \in Nat \ {0}
    /\ MaxRequests \in Nat
    /\ MaxCrashes \in Nat
    /\ Resumable \subseteq Sessions
    /\ Injected \subseteq Sessions
    /\ None \notin Sessions \cup Accounts \cup Pids
    /\ Contended \notin Pids \cup {None}

VARIABLES
    sessions,       \* h.sessions: the process registered for a session
    stopRequested,  \* h.stopRequested
    row,            \* the sessions table
    rendered,       \* sessions with a config file on disk
    proc,           \* every process, with the progress of its exit callback
    asked,          \* history: processes a user stop was aimed at while they lived
    thread,         \* where each goroutine is
    gateway,        \* phase of the gateway
    todo,           \* sessions the main goroutine has still to go through
    overlapped,     \* history: sessions on which two requests overlapped
    requests,       \* requests taken up so far
    crashes

procVars   == <<proc, asked>>
hubVars    == <<sessions, stopRequested>>
gateVars   == <<gateway, todo, crashes, requests>>
vars == <<sessions, stopRequested, row, rendered, proc, asked, thread,
          gateway, todo, overlapped, requests, crashes>>

Threads == Callers \cup {Main}

Ops  == {"Start", "Stop", "Delete", "Switch", "Recover", "StopAll"}
PCs  == {"check", "load", "launch", "register", "status", "giveup",
         "mark", "signal", "wait", "remove", "switch", "look", "poll", "bind"}
Idle == [op |-> None, pc |-> "idle", id |-> None, ts |-> None,
         account |-> None, target |-> None]

\* ts: the process at hand; account: the binding Start has read; target: the
\* account SwitchAccount was asked for.
Request == [op : Ops, pc : PCs, id : Sessions, ts : Pids \cup {None},
            account : Accounts \cup {None}, target : Accounts \cup {None}]
Asking(op, pc, s, target) ==
    [op |-> op, pc |-> pc, id |-> s, ts |-> None, account |-> None, target |-> target]

\* A row of the sessions table: before Create, after Delete, or a record.
Unborn == [status |-> "unborn", pid |-> None, account |-> None]
Gone   == [status |-> "gone", pid |-> None, account |-> None]
Row    == [status : {"unborn", "gone", "stopped", "running", "error"},
           pid : Pids \cup {None}, account : Accounts \cup {None}]

\* A process: alive and watched by waitLoop; exited, with its callback about to
\* take the lock, to clean up, to write the row, to emit; or done with.  When
\* the gateway dies a process is orphaned or lost.
Stages == {"unspawned", "alive", "exited", "cleanup", "status", "emit",
           "announced", "orphan", "lost"}
Unspawned == [stage |-> "unspawned", id |-> None, account |-> None, final |-> "stopped"]
Lost      == [stage |-> "lost", id |-> None, account |-> None, final |-> "stopped"]
Process == [stage : Stages, id : Sessions \cup {None},
            account : Accounts \cup {None},
            final : {"stopped", "error"}]

TypeOK ==
    /\ sessions \in [Sessions -> Pids \cup {None}]
    /\ stopRequested \subseteq Sessions
    /\ row \in [Sessions -> Row]
    /\ rendered \subseteq Sessions
    /\ proc \in [Pids -> Process]
    /\ asked \subseteq Pids
    /\ thread \in [Threads -> Request \cup {Idle}]
    /\ gateway \in {"recovering", "up", "stopping", "down"}
    /\ todo \subseteq Sessions
    /\ overlapped \subseteq Sessions
    /\ requests \in 0..MaxRequests
    /\ crashes \in 0..MaxCrashes

Init ==
    /\ sessions = [s \in Sessions |-> None]
    /\ stopRequested = {}
    /\ row = [s \in Sessions |-> Unborn]
    /\ rendered = {}
    /\ proc = [p \in Pids |-> Unspawned]
    /\ asked = {}
    /\ thread = [t \in Threads |-> Idle]
    /\ gateway = "up"
    /\ todo = {}
    /\ overlapped = {}
    /\ requests = 0
    /\ crashes = 0

-----------------------------------------------------------------------------
(* The state, as the code asks about it.                                    *)

Registered == {s \in Sessions : sessions[s] # None}
Exists(s)  == row[s].status \notin {"unborn", "gone"}
Alive(p)   == proc[p].stage \in {"alive", "orphan"}
Fresh      == {p \in Pids : proc[p].stage = "unspawned"}
Serving    == gateway \in {"up", "stopping"}

\* Goroutines that have passed the checks of Start and not yet registered.
Starting == {t \in Threads : thread[t].pc \in {"load", "launch", "register"}}

At(t, pc) == gateway # "down" /\ thread[t].pc = pc
Go(t, pc) == thread' = [thread EXCEPT ![t].pc = pc]
Return(t) == thread' = [thread EXCEPT ![t] = Idle]

\* Start returns an error: recovery then marks the row stopped.
StartFails(t) == IF thread[t].op = "Recover" THEN Go(t, "giveup") ELSE Return(t)

\* A goroutine enters a request; remember whether it is alone on the session.
Enter(t, request) ==
    /\ thread' = [thread EXCEPT ![t] = request]
    /\ overlapped' = IF \E u \in Threads \ {t} : thread[u].id = request.id
                       THEN overlapped \cup {request.id} ELSE overlapped

\* UpdateSessionStatus is an UPDATE: no row, no effect.  Its errors are only
\* logged, so a write may also be lost.
WriteStatus(s, status, pid) ==
    \/ row' = IF Exists(s) THEN [row EXCEPT ![s].status = status, ![s].pid = pid]
                           ELSE row
    \/ row' = row

-----------------------------------------------------------------------------
(* Requests.                                                                *)

\* A new row with a fresh id.  An id that was deleted is never used again.
Create(c) ==
    /\ Serving
    /\ thread[c] = Idle
    /\ \E s \in Sessions, a \in Accounts :
          /\ row[s] = Unborn
          /\ row' = [row EXCEPT ![s] = [status |-> "stopped", pid |-> None,
                                        account |-> a]]
    /\ UNCHANGED <<hubVars, rendered, procVars, thread, gateVars, overlapped>>

\* An HTTP or Telegram handler takes up a request on an existing id.
Begin(c) ==
    /\ Serving
    /\ thread[c] = Idle
    /\ requests < MaxRequests
    /\ requests' = requests + 1
    /\ \E s \in {x \in Sessions : row[x] # Unborn} :
          \/ Enter(c, Asking("Start", "check", s, None))
          \/ Enter(c, Asking("Stop", "mark", s, None))
          \/ Enter(c, Asking("Delete", "mark", s, None))
          \/ \E a \in Accounts : Enter(c, Asking("Switch", "switch", s, a))
    /\ UNCHANGED <<hubVars, row, rendered, procVars, gateway, todo, crashes>>

\* Mutant of StartCheck: the cap is not checked.
StartCheckUncapped(t) ==
    /\ At(t, "check")
    /\ IF sessions[thread[t].id] = None THEN Go(t, "load") ELSE StartFails(t)
    /\ UNCHANGED <<hubVars, row, rendered, procVars, gateVars, overlapped>>

\* Mutant of StartCheck: a session that is already running is not refused.
StartCheckAgain(t) ==
    /\ At(t, "check")
    /\ IF Cardinality(Registered) < MaxConcurrent THEN Go(t, "load") ELSE StartFails(t)
    /\ UNCHANGED <<hubVars, row, rendered, procVars, gateVars, overlapped>>

\* Start, first critical section: not running already, and below the cap.
StartCheck(t) ==
    /\ At(t, "check")
    /\ IF sessions[thread[t].id] = None /\ Cardinality(Registered) < MaxConcurrent
         THEN Go(t, "load")
         ELSE StartFails(t)
    /\ UNCHANGED <<hubVars, row, rendered, procVars, gateVars, overlapped>>

\* Start reads the row, resolves the provider and reads the account's token.
\* Any of it may fail.
StartLoad(t) ==
    /\ At(t, "load")
    /\ \/ /\ Exists(thread[t].id)
          /\ thread' = [thread EXCEPT ![t].pc = "launch",
                                      ![t].account = row[thread[t].id].account]
       \/ StartFails(t)
    /\ UNCHANGED <<hubVars, row, rendered, procVars, gateVars, overlapped>>

\* Start renders the config file, then spawns the process; NewSession starts
\* waitLoop with it.  A failed spawn leaves the config file behind.
StartLaunch(t) ==
    /\ At(t, "launch")
    /\ rendered' = rendered \cup ({thread[t].id} \cap Injected)
    /\ \/ /\ Fresh # {}
          /\ LET p == CHOOSE q \in Fresh : TRUE IN
             /\ proc' = [proc EXCEPT ![p] = [stage |-> "alive", id |-> thread[t].id,
                              account |-> thread[t].account, final |-> "stopped"]]
             /\ thread' = [thread EXCEPT ![t].pc = "register", ![t].ts = p,
                                         ![t].account = None]
       \/ /\ StartFails(t)
          /\ proc' = proc
    /\ UNCHANGED <<hubVars, row, asked, gateVars, overlapped>>

\* Start, second critical section: the map entry is written unconditionally.
StartRegister(t) ==
    /\ At(t, "register")
    /\ sessions' = [sessions EXCEPT ![thread[t].id] = thread[t].ts]
    /\ Go(t, "status")
    /\ UNCHANGED <<stopRequested, row, rendered, procVars, gateVars, overlapped>>

\* The errors of this write are logged, and Start succeeds.
StartStatus(t) ==
    /\ At(t, "status")
    /\ WriteStatus(thread[t].id, "running", thread[t].ts)
    /\ Return(t)
    /\ UNCHANGED <<hubVars, rendered, procVars, gateVars, overlapped>>

\* Mutant of MarkStop: Delete does not flag the session it stops.
MarkStopUnflagged(t) ==
    /\ At(t, "mark")
    /\ thread[t].op = "Delete"
    /\ thread[t].id \in Registered
    /\ asked' = asked \cup {p \in {sessions[thread[t].id]} : Alive(p)}
    /\ thread' = [thread EXCEPT ![t].pc = "signal", ![t].ts = sessions[thread[t].id]]
    /\ UNCHANGED <<sessions, stopRequested, row, rendered, proc, gateVars, overlapped>>

\* Stop and Delete, critical section: flag the session if it is registered.
\* Not registered: Stop fails, Delete goes on to the row.
MarkStop(t) ==
    /\ At(t, "mark")
    /\ LET s == thread[t].id IN
       IF s \in Registered
         THEN /\ stopRequested' = stopRequested \cup {s}
              /\ asked' = asked \cup {p \in {sessions[s]} : Alive(p)}
              /\ thread' = [thread EXCEPT ![t].pc = "signal", ![t].ts = sessions[s]]
         ELSE /\ IF thread[t].op = "Delete" THEN Go(t, "remove") ELSE Return(t)
              /\ UNCHANGED <<stopRequested, asked>>
    /\ UNCHANGED <<sessions, row, rendered, proc, gateVars, overlapped>>

\* Engine.Stop returns, the process being dead or not (engine.go:137-157); an
\* error of it ends SwitchAccount and is ignored by Delete.
SignalReturns(t) ==
    /\ At(t, "signal")
    /\ CASE thread[t].op = "Delete" -> Go(t, "wait")
         [] thread[t].op = "Switch" -> Go(t, "poll") \/ Return(t)
         [] OTHER -> Return(t)
    /\ UNCHANGED <<hubVars, row, rendered, procVars, gateVars, overlapped>>

\* Delete waits for Done, or five seconds: either way it goes on.
DeleteWait(t) ==
    /\ At(t, "wait")
    /\ \/ ~Alive(thread[t].ts)  \* Done is closed
       \/ TRUE                  \* five seconds have passed
    /\ Go(t, "remove")
    /\ UNCHANGED <<hubVars, row, rendered, procVars, gateVars, overlapped>>

DeleteRow(t) ==
    /\ At(t, "remove")
    /\ \/ row' = [row EXCEPT ![thread[t].id] = Gone]
       \/ row' = row
    /\ Return(t)
    /\ UNCHANGED <<hubVars, rendered, procVars, gateVars, overlapped>>

\* SwitchAccount reads the row,
SwitchLoad(t) ==
    /\ At(t, "switch")
    /\ \/ Exists(thread[t].id) /\ Go(t, "look")
       \/ Return(t)
    /\ UNCHANGED <<hubVars, row, rendered, procVars, gateVars, overlapped>>

\* and looks the session up: one that runs is stopped first.
SwitchLook(t) ==
    /\ At(t, "look")
    /\ Go(t, IF thread[t].id \in Registered THEN "mark" ELSE "bind")
    /\ UNCHANGED <<hubVars, row, rendered, procVars, gateVars, overlapped>>

\* SwitchAccount polls the map until the entry is gone or five seconds passed.
SwitchPoll(t) ==
    /\ At(t, "poll")
    /\ \/ thread[t].id \notin Registered
       \/ TRUE                  \* five seconds have passed
    /\ Go(t, "bind")
    /\ UNCHANGED <<hubVars, row, rendered, procVars, gateVars, overlapped>>

\* Mutant of SwitchBind: the session is started again though the row could not
\* be rebound.
SwitchBindUnchecked(t) ==
    /\ At(t, "bind")
    /\ row' = row
    /\ IF thread[t].ts # None THEN Go(t, "check") ELSE Return(t)
    /\ UNCHANGED <<hubVars, rendered, procVars, gateVars, overlapped>>

\* SwitchAccount rebinds the row, and starts the session again if it ran.
SwitchBind(t) ==
    /\ At(t, "bind")
    /\ LET s == thread[t].id IN
       \/ /\ row' = IF Exists(s) THEN [row EXCEPT ![s].account = thread[t].target]
                                 ELSE row
          /\ IF thread[t].ts # None THEN Go(t, "check") ELSE Return(t)
       \/ /\ row' = row
          /\ Return(t)
    /\ UNCHANGED <<hubVars, rendered, procVars, gateVars, overlapped>>

-----------------------------------------------------------------------------
(* The process and the exit callback waitLoop runs for it.                  *)

\* What waitLoop and the callback have done about p so far, and the status the
\* callback is going to write.
Advance(p, stage, final) ==
    proc' = [proc EXCEPT ![p] = [stage |-> stage, id |-> proc[p].id,
                                 account |-> proc[p].account, final |-> final]]

\* The process exits: by itself, or because of a signal.
ProcessExit(p) ==
    /\ proc[p].stage = "alive"
    /\ Advance(p, "exited", "stopped")
    /\ UNCHANGED <<hubVars, row, rendered, asked, thread, gateVars, overlapped>>

\* Mutant of ExitUnregister: the stop flag is left in place.
ExitUnregisterKeepsFlag(p) ==
    /\ proc[p].stage = "exited"
    /\ Advance(p, "cleanup", "stopped")
    /\ sessions' = [sessions EXCEPT ![proc[p].id] = None]
    /\ UNCHANGED <<stopRequested, row, rendered, asked, thread, gateVars, overlapped>>

\* OnExit, critical section: take the stop flag, drop the map entry of the id.
\* What Wait returned is only looked at here: "error" for a failed exit nobody
\* asked for.
ExitUnregister(p) ==
    /\ proc[p].stage = "exited"
    /\ LET s == proc[p].id IN
          /\ \E failed \in BOOLEAN :
                Advance(p, "cleanup", IF failed /\ s \notin stopRequested
                                        THEN "error" ELSE "stopped")
          /\ sessions' = [sessions EXCEPT ![s] = None]
          /\ stopRequested' = stopRequested \ {s}
    /\ UNCHANGED <<row, rendered, asked, thread, gateVars, overlapped>>

\* OnExit: remove the config files of the id.
ExitCleanup(p) ==
    /\ proc[p].stage = "cleanup"
    /\ rendered' = rendered \ {proc[p].id}
    /\ Advance(p, "status", proc[p].final)
    /\ UNCHANGED <<hubVars, row, asked, thread, gateVars, overlapped>>

\* Mutant of ExitStatus: the callback gives up when the row is gone.
ExitStatusOfRow(p) ==
    /\ proc[p].stage = "status"
    /\ Exists(proc[p].id)
    /\ WriteStatus(proc[p].id, proc[p].final, None)
    /\ Advance(p, "emit", "stopped")
    /\ UNCHANGED <<hubVars, rendered, asked, thread, gateVars, overlapped>>

\* OnExit: write the final status.
ExitStatus(p) ==
    /\ proc[p].stage = "status"
    /\ WriteStatus(proc[p].id, proc[p].final, None)
    /\ Advance(p, "emit", "stopped")
    /\ UNCHANGED <<hubVars, rendered, asked, thread, gateVars, overlapped>>

\* OnExit: emit onSessionStop.
ExitEmit(p) ==
    /\ proc[p].stage = "emit"
    /\ Advance(p, "announced", "stopped")
    /\ UNCHANGED <<hubVars, row, rendered, asked, thread, gateVars, overlapped>>

\* A process that outlived its gateway exits: nobody watches it.
OrphanExit(p) ==
    /\ proc[p].stage = "orphan"
    /\ proc' = [proc EXCEPT ![p] = Lost]
    /\ UNCHANGED <<hubVars, row, rendered, asked, thread, gateVars, overlapped>>

-----------------------------------------------------------------------------
(* The gateway.                                                             *)

\* The gateway process is gone, and everything it held in memory.  Closing the
\* pty hangs up on the processes: some survive that, some do not.
GatewayGone(survivors) ==
    /\ gateway' = "down"
    /\ sessions' = [s \in Sessions |-> None]
    /\ stopRequested' = {}
    /\ thread' = [t \in Threads |-> Idle]
    /\ todo' = {}
    /\ overlapped' = {}
    /\ proc' = [p \in Pids |->
                  IF p \in survivors THEN [proc[p] EXCEPT !.stage = "orphan"]
                  ELSE IF p \in Fresh THEN Unspawned ELSE Lost]
    /\ asked' = {}
    /\ UNCHANGED <<row, rendered, requests>>

\* The bound MaxCrashes covers crashes and shutdowns alike.
Crash ==
    /\ gateway # "down"
    /\ crashes < MaxCrashes
    /\ crashes' = crashes + 1
    /\ \E survivors \in SUBSET {p \in Pids : Alive(p)} : GatewayGone(survivors)

\* main: the signal handler starts StopAll while requests are still served.
Shutdown ==
    /\ gateway = "up"
    /\ crashes < MaxCrashes
    /\ gateway' = "stopping"
    /\ todo' = Registered
    /\ crashes' = crashes + 1
    /\ UNCHANGED <<hubVars, row, rendered, procVars, thread, overlapped, requests>>

\* StopAll: the next session of the snapshot.
StopAllNext ==
    /\ gateway = "stopping"
    /\ thread[Main] = Idle
    /\ \E s \in todo :
          /\ todo' = todo \ {s}
          /\ Enter(Main, Asking("StopAll", "mark", s, None))
    /\ UNCHANGED <<hubVars, row, rendered, procVars, gateway, requests, crashes>>

\* main returns once StopAll and the HTTP server's grace period are over.
Exit ==
    /\ gateway = "stopping"
    /\ thread[Main] = Idle
    /\ todo = {}
    /\ UNCHANGED crashes
    /\ \E survivors \in SUBSET {p \in Pids : Alive(p)} : GatewayGone(survivors)

\* The gateway boots: RecoverOnStartup lists the rows, before any request.
Boot ==
    /\ gateway = "down"
    /\ gateway' = "recovering"
    /\ todo' = {s \in Sessions : row[s].status = "running"}
    /\ UNCHANGED <<hubVars, row, rendered, procVars, thread, overlapped, requests, crashes>>

\* RecoverOnStartup: the next row.  A process that is still alive is left
\* alone; else the session is resumed, or its row marked stopped.
RecoverNext ==
    /\ gateway = "recovering"
    /\ thread[Main] = Idle
    /\ \E s \in todo :
          /\ todo' = todo \ {s}
          /\ IF row[s].pid # None /\ Alive(row[s].pid)
               THEN UNCHANGED <<thread, overlapped>>
               ELSE Enter(Main, Asking("Recover",
                            IF s \in Resumable THEN "check" ELSE "giveup", s, None))
    /\ UNCHANGED <<hubVars, row, rendered, procVars, gateway, requests, crashes>>

RecoverGiveUp ==
    /\ At(Main, "giveup")
    /\ WriteStatus(thread[Main].id, "stopped", None)
    /\ Return(Main)
    /\ UNCHANGED <<hubVars, rendered, procVars, gateVars, overlapped>>

\* Recovery is over: the gateway serves requests.
Serve ==
    /\ gateway = "recovering"
    /\ thread[Main] = Idle
    /\ todo = {}
    /\ gateway' = "up"
    /\ UNCHANGED <<hubVars, row, rendered, procVars, thread, todo, overlapped, requests, crashes>>

-----------------------------------------------------------------------------

StartSteps(t) == StartCheck(t) \/ StartLoad(t) \/ StartLaunch(t)
                   \/ StartRegister(t) \/ StartStatus(t)
StopSteps(t)  == MarkStop(t) \/ SignalReturns(t)
DeleteSteps(t) == DeleteWait(t) \/ DeleteRow(t)
SwitchSteps(t) == SwitchLoad(t) \/ SwitchLook(t) \/ SwitchPoll(t) \/ SwitchBind(t)
Steps(t) == StartSteps(t) \/ StopSteps(t) \/ DeleteSteps(t) \/ SwitchSteps(t)

ExitCallback(p) == ExitUnregister(p) \/ ExitCleanup(p) \/ ExitStatus(p) \/ ExitEmit(p)
MainSteps == StopAllNext \/ Exit \/ RecoverNext \/ RecoverGiveUp \/ Serve

Next ==
    \/ \E c \in Callers : Create(c) \/ Begin(c)
    \/ \E t \in Threads : Steps(t)
    \/ \E p \in Pids : ProcessExit(p) \/ ExitCallback(p) \/ OrphanExit(p)
    \/ MainSteps \/ Crash \/ Shutdown \/ Boot

\* Goroutines that can run do run.  Nothing obliges a process to exit, a user
\* to ask for anything, or the gateway to crash, shut down or boot.
Fairness ==
    /\ \A t \in Threads : WF_vars(Steps(t))
    /\ \A p \in Pids : WF_vars(ExitCallback(p))
    /\ WF_vars(MainSteps)

Spec == Init /\ [][Next]_vars /\ Fairness

-----------------------------------------------------------------------------
(* Properties.                                                              *)

\* A stop request is only ever on record for a session that is registered, in
\* whatever order Start, Stop, Delete and exit callbacks interleave: Stop and
\* Delete flag inside the critical section that finds the entry, and OnExit
\* takes flag and entry together (hub.go:319-323, 409-414, 423-428).  A flag
\* that outlived its entry would turn the crash of a later run into a stop.
StopRequestedOnlyRegistered == stopRequested \subseteq Registered

\* The cap is checked and the entry written in two critical sections, so
\* concurrent Starts can exceed maxConcurrent; they never do so by more than
\* one less than the number of requests in flight (hub.go:161-170, 350-352).
CapacityOvershoot ==
    Cardinality(Registered) + Cardinality(Starting)
        <= MaxConcurrent - 1 + Cardinality(Callers)

\* As long as requests on a session do not overlap, no process of this gateway
\* escapes it: a live process is in the map, or its starter is about to put it
\* there and nothing else is (hub.go:160-358).
EveryProcessHeld ==
    \A p \in Pids : proc[p].stage = "alive" /\ proc[p].id \notin overlapped =>
        LET s == proc[p].id IN
        \/ sessions[s] = p
        \/ /\ sessions[s] = None
           /\ \E t \in Threads : thread[t].pc = "register" /\ thread[t].ts = p

\* As long as requests on a session do not overlap, a process the user asked
\* to stop is reported "stopped", however it died: the flag cannot be taken by
\* the exit of another process (hub.go:319-337).
RequestedStopReportsStopped ==
    \A p \in asked :
        proc[p].id \notin overlapped /\ proc[p].stage \in {"cleanup", "status"}
            => proc[p].final = "stopped"

\* A SwitchAccount that restarted the session has rebound the row first: the
\* process it reports runs on the account it was asked for, whatever failed or
\* timed out on the way (hub.go:397-404), if no other request overlapped.
SwitchRunsNewAccount ==
    [][\A t \in Threads :
         /\ thread[t].op = "Switch"
         /\ thread[t].pc = "status"
         /\ thread'[t] = Idle
         /\ thread[t].id \notin overlapped
         /\ gateway' # "down"
         => /\ proc[thread[t].ts].account = thread[t].target
            /\ Exists(thread[t].id) => row[thread[t].id].account = thread[t].target]_vars

\* What a request on a session can rely on when no other overlaps it: its process is
\* held, and reported as it was asked to end (hub.go:160-358, 319-337).
UndisturbedRequests == EveryProcessHeld /\ RequestedStopReportsStopped

\* Once a process has exited its stop is announced, unless the gateway dies
\* first: no request can hold up or swallow the callback (hub.go:318-342).
ExitAnnounced ==
    \A p \in Pids : proc[p].stage = "exited" ~> proc[p].stage \in {"announced", "lost"}

\* Every request returns, even if the process ignores all signals: the waits
\* of Delete and SwitchAccount are bounded (hub.go:385-394, 429-435).
RequestsReturn ==
    \A c \in Callers : thread[c] # Idle ~> thread[c] = Idle

\* What has begun comes to its end: an exit is announced, a request returns
\* (hub.go:318-342, 385-435).
EverythingEnds == ExitAnnounced /\ RequestsReturn

\* "the OnExit path is what removes the session" (hub.go:382-384), so a process
\* whose callback is over is not in it.  Refuted: a process that exits before
\* StartRegister leaves an entry that nothing removes.
ExitLeavesMap ==
    \A p \in Pids, s \in Sessions : proc[p].stage = "announced" => sessions[s] # p

\* "Cleanup is invoked when the session exits" (hub.go:33-35), so an agent keeps
\* its config files for as long as it runs.  Refuted without any overlap of
\* requests: SwitchAccount, or the next Start, finds the entry gone and renders
\* the files anew before the callback of the old process removes them by id.
ConfigLasts ==
    \A p \in Pids :
        proc[p].stage = "alive" /\ proc[p].id \in Injected \ overlapped
            => proc[p].id \in rendered

\* With AUTO_RESUME=true a process that survived a crash of the gateway, and
\* whose row exists, is attached again (README.md:535).  Refuted: recovery
\* leaves a running row with a live pid alone.
RecoveryReattaches ==
    [][gateway = "recovering" /\ gateway' = "up" =>
         \A s \in Sessions :
            row[s].status = "running" /\ row[s].pid # None /\ Alive(row[s].pid)
               => sessions[s] = row[s].pid]_vars

-----------------------------------------------------------------------------
(* The hub implements SessionSlots: the slot of a session is its map entry  *)
(* for as long as requests on it have not overlapped.                       *)

Slots == INSTANCE SessionSlots WITH
    Empty <- None,
    slot <- [s \in Sessions |-> IF s \in overlapped THEN Contended ELSE sessions[s]],
    exited <- {p \in Pids : ~Alive(p) /\ p \notin Fresh}

\* Requests on a session that do not overlap find it a one-process slot: Start
\* never replaces an entry and OnExit never drops that of a live process, late
\* callbacks of earlier processes and timed out waits included (hub.go:160-437).
ImplementsSlots == Slots!Spec

=============================================================================
