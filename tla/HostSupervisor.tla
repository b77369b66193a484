--------------------------- MODULE HostSupervisor ---------------------------
(***************************************************************************)
(* The supervisor of the sidecar processes of host plugins                 *)
(* (plugin/host/supervisor.go): Ensure, Kill and Stop, called by request   *)
(* goroutines that then call the sidecar (cmd/opendray/main.go,            *)
(* gateway/plugins_config.go), and the waiter goroutine of every sidecar.  *)
(*                                                                         *)
(* Ensure releases the mutex between looking into the map and inserting    *)
(* what it has spawned.  The process is bound to the context of the        *)
(* request that spawned it: it is killed when that request ends.           *)
(***************************************************************************)
EXTENDS Naturals

CONSTANTS
    Plugins,        \* plugins with a host backend
    Callers,        \* request goroutines
    Cars,           \* names of sidecars, for as many as are remembered at a time
    None

ASSUME SupervisorAssumption == None \notin Cars \cup Plugins \cup Callers

VARIABLES
    sidecars,       \* Supervisor.sidecars
    stopped,        \* Supervisor.stopped
    stopper,        \* where the goroutine that called Stop is
    car,            \* every sidecar process and its waiter
    caller          \* every request

vars == <<sidecars, stopped, stopper, car, caller>>

\* life: the process runs; it is dead; exited is closed; the waiter has ended, or
\* there has been no process.  owner: the request whose context the process is
\* bound to, while that lasts.  asked: shutdown was called.  cut: the context is
\* done.
Car    == [plugin : Plugins \cup {None}, owner : Callers \cup {None},
           life : {"up", "dead", "exited", "gone"},
           asked : BOOLEAN, cut : BOOLEAN]
Caller == [at : {"idle", "spawn", "insert", "drop", "call", "kill"},
           plugin : Plugins \cup {None}, car : Cars \cup {None}, use : Cars \cup {None}]

NoCar == [plugin |-> None, owner |-> None, life |-> "gone", asked |-> FALSE, cut |-> FALSE]
Idle  == [at |-> "idle", plugin |-> None, car |-> None, use |-> None]

TypeOK ==
    /\ sidecars \in [Plugins -> Cars \cup {None}]
    /\ stopped \in BOOLEAN
    /\ stopper \in {"serving", "closing", "stopped"}
    /\ car \in [Cars -> Car]
    /\ caller \in [Callers -> Caller]
    /\ \A c \in Callers :
          caller[c].at \in {"insert", "drop", "call", "kill"} => caller[c].car # None

Init ==
    /\ sidecars = [p \in Plugins |-> None]
    /\ stopped = FALSE
    /\ stopper = "serving"
    /\ car = [s \in Cars |-> NoCar]
    /\ caller = [c \in Callers |-> Idle]

-----------------------------------------------------------------------------

At(c, at) == caller[c].at = at
Move(c, at) == caller' = [caller EXCEPT ![c].at = at]

\* isAlive: exited is still open.
IsAlive(s) == s # None /\ car[s].life \in {"up", "dead"}

\* The request is over: its context is done.
Return(c, cars) ==
    /\ caller' = [caller EXCEPT ![c] = Idle]
    /\ car' = [s \in Cars |-> IF cars[s].owner = c
                                THEN [cars[s] EXCEPT !.owner = None, !.cut = TRUE]
                                ELSE cars[s]]

\* Ensure: the sidecar in the map, if it is alive.
EnsureBegin(c) ==
    /\ At(c, "idle")
    /\ ~stopped
    /\ \E p \in Plugins :
          caller' = [caller EXCEPT ![c] =
                        [Idle EXCEPT !.plugin = p,
                                     !.at = IF IsAlive(sidecars[p]) THEN "call" ELSE "spawn",
                                     !.car = IF IsAlive(sidecars[p]) THEN sidecars[p] ELSE None]]
    /\ UNCHANGED <<sidecars, stopped, stopper, car>>

\* No process has the name s, and nobody remembers one that had.
Fresh(s) ==
    /\ car[s].life = "gone"
    /\ \A p \in Plugins : sidecars[p] # s
    /\ \A c \in Callers : s \notin {caller[c].car, caller[c].use}

\* Ensure: spawn, without the mutex; it may fail.
Spawn(c) ==
    /\ At(c, "spawn")
    /\ \/ \E s \in Cars :
             /\ Fresh(s)
             /\ car' = [car EXCEPT ![s] = [NoCar EXCEPT !.plugin = caller[c].plugin,
                                                        !.owner = c, !.life = "up"]]
             /\ caller' = [caller EXCEPT ![c].at = "insert", ![c].car = s]
       \/ Return(c, car)
    /\ UNCHANGED <<sidecars, stopped, stopper>>

\* Mutant of Insert: no second look at stopped.
InsertAfterStop(c) ==
    /\ At(c, "insert")
    /\ ~IsAlive(sidecars[caller[c].plugin])
    /\ sidecars' = [sidecars EXCEPT ![caller[c].plugin] = caller[c].car]
    /\ Move(c, "call")
    /\ UNCHANGED <<stopped, stopper, car>>

\* Ensure: with the mutex again.  A sidecar that came too late is shut down, and
\* the caller uses the one that is in the map, or fails.
Insert(c) ==
    LET p == caller[c].plugin
        s == caller[c].car
    IN
    /\ At(c, "insert")
    /\ IF stopped \/ IsAlive(sidecars[p])
         THEN /\ car' = [car EXCEPT ![s].asked = TRUE]
              /\ caller' = [caller EXCEPT ![c].at = "drop",
                                          ![c].use = IF stopped THEN None ELSE sidecars[p]]
              /\ sidecars' = sidecars
         ELSE /\ sidecars' = [sidecars EXCEPT ![p] = s]
              /\ Move(c, "call")
              /\ car' = car
    /\ UNCHANGED <<stopped, stopper>>

HasExited(s) == car[s].life \in {"exited", "gone"}

\* Ensure: shutdown returns once the late sidecar has exited.
Drop(c) ==
    /\ At(c, "drop")
    /\ HasExited(caller[c].car)
    /\ IF caller[c].use = None
         THEN Return(c, car)
         ELSE /\ caller' = [caller EXCEPT ![c].at = "call", ![c].car = caller[c].use,
                                          ![c].use = None]
              /\ car' = car
    /\ UNCHANGED <<sidecars, stopped, stopper>>

\* Sidecar.Call is answered, fails because the process is gone, or its client
\* goes away; the request ends.
Call(c) ==
    /\ At(c, "call")
    /\ Return(c, car)
    /\ UNCHANGED <<sidecars, stopped, stopper>>

\* Kill takes the sidecar out of the map and shuts it down.
KillBegin(c) ==
    /\ At(c, "idle")
    /\ \E p \in Plugins :
          /\ sidecars[p] # None
          /\ caller' = [caller EXCEPT ![c] = [Idle EXCEPT !.at = "kill", !.plugin = p,
                                                          !.car = sidecars[p]]]
          /\ car' = [car EXCEPT ![sidecars[p]].asked = TRUE]
          /\ sidecars' = [sidecars EXCEPT ![p] = None]
    /\ UNCHANGED <<stopped, stopper>>

KillEnd(c) ==
    /\ At(c, "kill")
    /\ HasExited(caller[c].car)
    /\ Return(c, car)
    /\ UNCHANGED <<sidecars, stopped, stopper>>

-----------------------------------------------------------------------------

Listed == {sidecars[p] : p \in Plugins} \ {None}

\* Stop: no more Ensure, and every listed sidecar is shut down.
StopBegin ==
    /\ ~stopped
    /\ stopped' = TRUE
    /\ stopper' = "closing"
    /\ car' = [s \in Cars |-> IF s \in Listed THEN [car[s] EXCEPT !.asked = TRUE] ELSE car[s]]
    /\ sidecars' = [p \in Plugins |-> None]
    /\ UNCHANGED caller

\* Stop: wg.Wait, for the waiters of all sidecars.
StopEnd ==
    /\ stopper = "closing"
    /\ \A s \in Cars : car[s].life = "gone"
    /\ stopper' = "stopped"
    /\ UNCHANGED <<sidecars, stopped, car, caller>>

-----------------------------------------------------------------------------
(* The process and its waiter.                                              *)

Age(s, life) == car' = [car EXCEPT ![s].life = life]

\* Mutant of Die: a sidecar that ignores the end of its input is not killed.
DieUnlessAsked(s) ==
    /\ car[s].life = "up"
    /\ ~car[s].asked
    /\ Age(s, "dead")
    /\ UNCHANGED <<sidecars, stopped, stopper, caller>>

\* The process dies: by itself, on the end of its input, or killed.
Die(s) ==
    /\ car[s].life = "up"
    /\ Age(s, "dead")
    /\ UNCHANGED <<sidecars, stopped, stopper, caller>>

\* The waiter closes exited;
Exited(s) ==
    /\ car[s].life = "dead"
    /\ Age(s, "exited")
    /\ UNCHANGED <<sidecars, stopped, stopper, caller>>

\* Mutant of Remove: it takes out whatever sidecar the plugin has.
RemoveAny(s) ==
    /\ car[s].life = "exited"
    /\ car' = [car EXCEPT ![s] = NoCar]
    /\ sidecars' = [sidecars EXCEPT ![car[s].plugin] = None]
    /\ UNCHANGED <<stopped, stopper, caller>>

\* it takes the sidecar out of the map, unless another has its place.
Remove(s) ==
    /\ car[s].life = "exited"
    /\ car' = [car EXCEPT ![s] = NoCar]
    /\ sidecars' = [p \in Plugins |-> IF sidecars[p] = s THEN None ELSE sidecars[p]]
    /\ UNCHANGED <<stopped, stopper, caller>>

-----------------------------------------------------------------------------

Wait(s)   == Exited(s) \/ Remove(s)
Ensure(c) == Spawn(c) \/ Insert(c) \/ Drop(c)

Next ==
    \/ \E c \in Callers : EnsureBegin(c) \/ Ensure(c) \/ Call(c) \/ KillBegin(c) \/ KillEnd(c)
    \/ StopBegin \/ StopEnd
    \/ \E s \in Cars : Die(s) \/ Wait(s)

\* Goroutines run, and a process that was asked to end or has lost its context
\* ends, since SIGKILL follows.  A call need not be answered, and a process need
\* not end by itself.
Fairness ==
    /\ WF_vars(StopEnd)
    /\ \A c \in Callers : WF_vars(Ensure(c)) /\ WF_vars(KillEnd(c))
    /\ \A s \in Cars : /\ WF_vars(Wait(s))
                       /\ WF_vars((car[s].asked \/ car[s].cut) /\ Die(s))

Spec == Init /\ [][Next]_vars /\ Fairness

-----------------------------------------------------------------------------
(* Properties.                                                              *)

Healthy(s) == car[s].life = "up" /\ ~car[s].asked /\ ~car[s].cut

\* No sidecar is lost: one that nobody has asked to end can be found in the map,
\* where Kill and Stop look, or is about to be put there (supervisor.go:174-193,
\* 531-536).
EverySidecarHeld ==
    \A s \in Cars : Healthy(s) => \/ \E p \in Plugins : sidecars[p] = s
                                  \/ \E c \in Callers : At(c, "insert") /\ caller[c].car = s

\* Requests for one plugin never talk to two sidecars that will both live on:
\* the second look of Ensure settles on one (supervisor.go:185-191).
OneSidecarPerPlugin ==
    \A c, d \in Callers :
        /\ At(c, "call") /\ Healthy(caller[c].car)
        /\ At(d, "call") /\ Healthy(caller[d].car)
        /\ caller[c].plugin = caller[d].plugin
        => caller[c].car = caller[d].car

\* Once stopped the supervisor lists nothing, although an Ensure may have looked
\* before Stop and insert after it (supervisor.go:179-184, 226-233).
NothingListedAfterStop ==
    stopped => \A p \in Plugins : sidecars[p] = None

\* Stop returns, with spawns in flight and whether or not calls are answered
\* (supervisor.go:235-255).
StopReturns == stopper = "closing" ~> stopper = "stopped"

\* Ensure and Kill return, whatever the sidecar does (supervisor.go:554-580).
EnsureAndKillReturn ==
    \A c \in Callers : caller[c].at \notin {"idle", "call"} ~> caller[c].at \in {"idle", "call"}

\* Nobody waits for ever: neither the shutdown nor a request (supervisor.go:235-255, 554-580).
EverybodyReturns == StopReturns /\ EnsureAndKillReturn

\* "if it is running, it touches lastUsedAt (resetting the idle-shutdown clock)
\* and returns the existing handle" (supervisor.go:143-145): a sidecar that one
\* request uses is not killed because another ends.  Refuted: the request that
\* spawned it returns, its context is done, and the process is killed.
CallsUndisturbed ==
    \A c \in Callers : At(c, "call") => ~car[caller[c].car].cut

=============================================================================
