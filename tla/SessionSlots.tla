---------------------------- MODULE SessionSlots ----------------------------
(***************************************************************************)
(* What the hub promises of a session, whatever its goroutines do in       *)
(* between: a slot that one process holds at a time.  A process is         *)
(* attached to an empty slot only and detached only once it has exited.    *)
(* The promise ends for a session when two requests on it overlap          *)
(* (Contend) and starts afresh when the gateway is gone (Reset).           *)
(***************************************************************************)
CONSTANTS Sessions, Pids, Empty, Contended

VARIABLES slot, exited

Init ==
    /\ slot = [s \in Sessions |-> Empty]
    /\ exited = {}

Attach(s, p) ==
    /\ slot[s] = Empty
    /\ \A t \in Sessions : slot[t] # p
    /\ slot' = [slot EXCEPT ![s] = p]
    /\ UNCHANGED exited

Detach(s) ==
    /\ slot[s] \in exited
    /\ slot' = [slot EXCEPT ![s] = Empty]
    /\ UNCHANGED exited

\* One process exits by itself; several when the gateway goes.
ExitOf(ps) ==
    /\ exited' = exited \cup ps
    /\ UNCHANGED slot

Contend(s) ==
    /\ slot' = [slot EXCEPT ![s] = Contended]
    /\ UNCHANGED exited

Reset(ps) ==
    /\ slot' = [s \in Sessions |-> Empty]
    /\ exited' = exited \cup ps

Next ==
    \/ \E s \in Sessions : Detach(s) \/ Contend(s) \/ \E p \in Pids : Attach(s, p)
    \/ \E ps \in SUBSET Pids : ExitOf(ps) \/ Reset(ps)

Spec == Init /\ [][Next]_<<slot, exited>>

=============================================================================
