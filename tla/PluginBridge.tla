---------------------------- MODULE PluginBridge ----------------------------
(***************************************************************************)
(* The bridge of one plugin: WebSocket connections of its web views        *)
(* (gateway/plugins_bridge.go, plugin/bridge/manager.go), the streams they *)
(* open (events.subscribe, fs.watch, exec.spawn) and release, and the      *)
(* consent handlers that revoke capabilities under them                    *)
(* (gateway/plugins_consents.go, plugins_consents_patch.go).               *)
(*                                                                         *)
(* Every inbound envelope is a goroutine of its own.  A stream is checked  *)
(* against the consent row, registered with its connection and listed by   *)
(* its namespace in separate steps, and what feeds it (a bus handler, a    *)
(* file watcher, a process) is a goroutine that ends when the done channel *)
(* of the registration is closed.  Clients number their envelopes from 1   *)
(* on every connection, so a call is named by its connection and number.   *)
(* What is written to a connection is left out, but not that a write to a  *)
(* peer that does not read holds writeMu, and so whoever needs it.         *)
(***************************************************************************)
EXTENDS Naturals, FiniteSets

CONSTANTS
    Conns,          \* connections of the plugin
    Calls,          \* bound: the envelopes they send, <<connection, number>>
    Stallers,       \* bound: the connections whose peer may stop reading
    Handlers,       \* goroutines that serve the consent endpoints
    Kinds,          \* the stream kinds used, each under the capability of its name
    Asks,           \* bound: the kinds that each envelope may ask for
    MaxChanges,     \* bound: consent requests served
    MaxSpawns,      \* MaxSpawnsPerPlugin
    None

ASSUME BridgeAssumption ==
    /\ Kinds \subseteq {"events", "fs", "exec"}
    /\ Asks \in [Calls -> SUBSET Kinds]
    /\ Calls \subseteq Conns \X (Nat \ {0}) /\ IsFiniteSet(Calls)
    /\ MaxChanges \in Nat /\ MaxSpawns \in Nat \ {0}
    /\ None \notin Conns \cup Kinds

VARIABLES
    consent,        \* the capabilities in the plugin's consent row; NoRow without one
    conn,           \* every connection, from accepted to closed
    registered,     \* Manager.byPlugin
    stalled,        \* connections on which a write hangs and holds writeMu
    subs,           \* the registries of the connections: open subscriptions
    done,           \* subscriptions whose done channel is closed
    listed,         \* the maps of the namespaces, keyed by envelope number
    call,           \* every envelope and its goroutines
    inflight,       \* ExecAPI.inflight
    handler,        \* where the consent handlers are
    changes,        \* consent requests served so far
    late,           \* history: calls on their way to a stream when their connection was closed
    raced,          \* history: checked before the row lost the capability, registered after
    mingled         \* history: two consent handlers have overlapped

connVars   == <<conn, registered, stalled, late>>
streamVars == <<subs, done, listed, call, inflight, raced>>
rowVars    == <<consent, handler, changes, mingled>>
vars       == <<connVars, streamVars, rowVars>>

Numbers == {c[2] : c \in Calls}
NoRow   == {"no row"}

\* A call opens a stream, releases that of an earlier call, or runs a command.
\* feed: what feeds the stream is off or on; the end of a process has been
\* noticed by its waiter, which then ends the stream.
NoCall  == [op |-> "none", kind |-> None, pc |-> "none", of |-> 0, from |-> None, feed |-> "off"]
Idle    == [pc |-> "idle", touched |-> {}, perms |-> {}, at |-> {}]

TypeOK ==
    /\ consent \in (SUBSET Kinds) \cup {NoRow}
    /\ conn \in [Conns -> {"none", "open", "closing", "closed"}]
    /\ registered \subseteq Conns /\ stalled \subseteq Conns
    /\ subs \subseteq Calls /\ done \subseteq Calls
    /\ listed \in [Kinds -> [Numbers -> Conns \cup {None}]]
    /\ call \in [Calls -> [op : {"none", "open", "release", "run"}, kind : Kinds \cup {None},
                           pc : {"none", "check", "running", "register", "store", "open",
                                 "lookup", "detach", "over"},
                           of : Numbers \cup {0}, from : Conns \cup {None},
                           feed : {"off", "on", "exited", "ended"}]]
    /\ inflight \in 0..MaxSpawns
    /\ handler \in [Handlers -> [pc : {"idle", "write", "invalidate"}, touched : SUBSET Kinds,
                                 perms : (SUBSET Kinds) \cup {NoRow}, at : SUBSET Conns]]
    /\ changes \in 0..MaxChanges
    /\ late \subseteq Calls /\ raced \subseteq Calls /\ mingled \in BOOLEAN

Init ==
    /\ consent = Kinds
    /\ conn = [k \in Conns |-> "none"]
    /\ registered = {} /\ stalled = {}
    /\ subs = {} /\ done = {}
    /\ listed = [x \in Kinds |-> [n \in Numbers |-> None]]
    /\ call = [c \in Calls |-> NoCall]
    /\ inflight = 0
    /\ handler = [h \in Handlers |-> Idle]
    /\ changes = 0
    /\ late = {} /\ raced = {} /\ mingled = FALSE

-----------------------------------------------------------------------------
(* Connections.                                                             *)

\* WriteEnvelope can get writeMu.
Writable(k) == k \notin stalled
Granted(x)  == consent # NoRow /\ x \in consent
At(c, pc)   == call[c].pc = pc
Go(c, pc)   == call' = [call EXCEPT ![c].pc = pc]
Leave(c)    == call' = [call EXCEPT ![c] = [NoCall EXCEPT !.op = call[c].op, !.pc = "over"]]
Kind(c)     == call[c].kind
Of(k)       == {c \in Calls : c[1] = k}

\* The handler accepts a connection and registers it.
Connect(k) ==
    /\ conn[k] = "none"
    /\ conn' = [conn EXCEPT ![k] = "open"]
    /\ registered' = registered \cup {k}
    /\ UNCHANGED <<stalled, late, streamVars, rowVars>>

\* The peer stops reading: the write under way hangs, there is no deadline.
Stall(k) ==
    /\ conn[k] = "open" /\ k \in Stallers
    /\ \E c \in Of(k) : call[c].op # "none"
    /\ stalled' = stalled \cup {k}
    /\ UNCHANGED <<conn, registered, late, streamVars, rowVars>>

Unstall(k) ==
    /\ k \in stalled
    /\ stalled' = stalled \ {k}
    /\ UNCHANGED <<conn, registered, late, streamVars, rowVars>>

\* The reader loop ends: the peer is gone or silent for too long.
ReaderEnds(k) ==
    /\ conn[k] = "open"
    /\ conn' = [conn EXCEPT ![k] = "closing"]
    /\ UNCHANGED <<registered, stalled, late, streamVars, rowVars>>

\* The calls of a connection that may still register a stream with it.
IsOpening(c) == call[c].op = "open" /\ call[c].pc \in {"check", "register"}
Opening(k)   == {c \in Of(k) : IsOpening(c)}

\* Mutant of Close: the registry is emptied, no channel is closed.
CloseSilently(k) ==
    /\ conn[k] = "closing" /\ Writable(k)
    /\ conn' = [conn EXCEPT ![k] = "closed"]
    /\ registered' = registered \ {k}
    /\ subs' = subs \ Of(k)
    /\ late' = late \cup Opening(k)
    /\ UNCHANGED <<stalled, done, listed, call, inflight, raced, rowVars>>

\* Close: mark the connection closed, which needs writeMu, drain its registry
\* and close the socket; the manager forgets the connection.
Close(k) ==
    /\ conn[k] = "closing" /\ Writable(k)
    /\ conn' = [conn EXCEPT ![k] = "closed"]
    /\ registered' = registered \ {k}
    /\ subs' = subs \ Of(k)
    /\ done' = done \cup (subs \cap Of(k))
    /\ late' = late \cup Opening(k)
    /\ UNCHANGED <<stalled, listed, call, inflight, raced, rowVars>>

-----------------------------------------------------------------------------
(* Calls.                                                                   *)

\* The envelopes of a connection are numbered in order.
IsNext(c) == At(c, "none") /\ \A b \in Of(c[1]) : b[2] < c[2] => ~At(b, "none")

\* The reader loop dispatches an envelope: a stream is opened, an answered one
\* is released (for a process: killed), or a command is run.
Begin(c) ==
    /\ conn[c[1]] = "open" /\ IsNext(c)
    /\ \/ \E x \in Asks[c] :
             call' = [call EXCEPT ![c] = [NoCall EXCEPT !.op = "open", !.kind = x, !.pc = "check"]]
       \/ \E b \in Of(c[1]) :
             /\ At(b, "open")
             /\ call' = [call EXCEPT ![c] = [NoCall EXCEPT !.op = "release", !.of = b[2],
                                             !.kind = Kind(b), !.pc = "lookup"]]
       \/ /\ "exec" \in Asks[c]
          /\ call' = [call EXCEPT ![c] = [NoCall EXCEPT !.op = "run", !.kind = "exec", !.pc = "check"]]
    /\ UNCHANGED <<connVars, subs, done, listed, inflight, raced, rowVars>>

\* The capability check reads the consent row; exec takes a slot with it.
Check(c) ==
    /\ At(c, "check")
    /\ IF Granted(Kind(c)) /\ (Kind(c) = "exec" => inflight < MaxSpawns)
         THEN /\ Go(c, IF call[c].op = "run" THEN "running" ELSE "register")
              /\ inflight' = IF Kind(c) = "exec" THEN inflight + 1 ELSE inflight
         ELSE Leave(c) /\ inflight' = inflight
    /\ UNCHANGED <<connVars, subs, done, listed, raced, rowVars>>

\* exec.run holds its slot until the command has ended or timed out.
RunEnds(c) ==
    /\ At(c, "running")
    /\ Leave(c)
    /\ inflight' = inflight - 1
    /\ UNCHANGED <<connVars, subs, done, listed, raced, rowVars>>

\* Mutant of Register: a command that does not start keeps its slot.
RegisterLeaks(c) ==
    /\ At(c, "register")
    /\ \/ /\ call' = [call EXCEPT ![c].pc = "store", ![c].feed = IF Kind(c) = "events" THEN @ ELSE "on"]
          /\ subs' = subs \cup {c}
       \/ /\ Kind(c) # "events"
          /\ Leave(c) /\ UNCHANGED subs
    /\ UNCHANGED <<connVars, done, listed, inflight, raced, rowVars>>

\* fs.watch creates its watcher, exec.spawn starts its process (either may
\* fail); then Conn.Subscribe, which does not look whether the connection is
\* closed.
Register(c) ==
    /\ At(c, "register")
    /\ \/ /\ call' = [call EXCEPT ![c].pc = "store", ![c].feed = IF Kind(c) = "events" THEN @ ELSE "on"]
          /\ subs' = subs \cup {c} /\ UNCHANGED inflight
       \/ /\ Kind(c) # "events"
          /\ Leave(c) /\ UNCHANGED subs
          /\ inflight' = IF Kind(c) = "exec" THEN inflight - 1 ELSE inflight
    /\ UNCHANGED <<connVars, done, listed, raced, rowVars>>

\* events.subscribe joins the bus; every namespace lists the stream by its
\* number, whoever is listed there, and the goroutines that feed it start.
Store(c) ==
    /\ At(c, "store")
    /\ listed' = [listed EXCEPT ![Kind(c)][c[2]] = c[1]]
    /\ call' = [call EXCEPT ![c].pc = "open",
                            ![c].feed = IF Kind(c) = "events" THEN "on" ELSE @]
    /\ UNCHANGED <<connVars, subs, done, inflight, raced, rowVars>>

\* The goroutine that feeds an event or file stream finds done closed: it stops
\* the feed and deletes whatever the namespace lists under its number.  That of
\* a watcher looks between its writes.
PumpEnds(c) ==
    /\ At(c, "open") /\ Kind(c) \in {"events", "fs"} /\ c \in done
    /\ call[c].feed # "ended"
    /\ Kind(c) = "fs" => Writable(c[1])
    /\ call' = [call EXCEPT ![c].feed = "ended"]
    /\ listed' = [listed EXCEPT ![Kind(c)][c[2]] = None]
    /\ UNCHANGED <<connVars, subs, done, inflight, raced, rowVars>>

\* A process exits, at the latest by its timeout; its waiter gives back the slot,
ProcessExits(c) ==
    /\ Kind(c) = "exec" /\ At(c, "open") /\ call[c].feed = "on"
    /\ call' = [call EXCEPT ![c].feed = "exited"]
    /\ inflight' = inflight - 1
    /\ UNCHANGED <<connVars, subs, done, listed, raced, rowVars>>

\* and writes the end of the stream, without waiting for its output, and
\* unsubscribes.
WaiterEnds(c) ==
    /\ call[c].feed = "exited" /\ Writable(c[1])
    /\ call' = [call EXCEPT ![c].feed = "ended"]
    /\ subs' = subs \ {c}
    /\ done' = done \cup {c}
    /\ UNCHANGED <<connVars, listed, inflight, raced, rowVars>>

Target(c) == <<call[c].from, call[c].of>>

\* events.unsubscribe and fs.unwatch take the stream off the map, by number;
\* exec.kill leaves it there.
Lookup(c) ==
    /\ At(c, "lookup")
    /\ LET k == listed[Kind(c)][call[c].of] IN
       /\ call' = [call EXCEPT ![c].from = k, ![c].pc = IF k = None THEN "over" ELSE "detach"]
       /\ listed' = IF Kind(c) = "exec" THEN listed
                    ELSE [listed EXCEPT ![Kind(c)][call[c].of] = None]
    /\ UNCHANGED <<connVars, subs, done, inflight, raced, rowVars>>

\* Mutant of Detach: the registration is closed, the feed is left to its
\* goroutine.
DetachLater(c) ==
    /\ At(c, "detach")
    /\ Go(c, "over")
    /\ subs' = subs \ {Target(c)}
    /\ done' = done \cup ({Target(c)} \cap subs)
    /\ UNCHANGED <<connVars, listed, inflight, raced, rowVars>>

\* They stop the feed and unsubscribe; exec.kill signals the process, which may
\* take its time.
Detach(c) ==
    /\ At(c, "detach")
    /\ IF Kind(c) = "exec"
         THEN Go(c, "over") /\ UNCHANGED <<subs, done>>
         ELSE /\ call' = [call EXCEPT ![c].pc = "over",
                                      ![Target(c)].feed = IF @ = "on" THEN "off" ELSE @]
              /\ subs' = subs \ {Target(c)}
              /\ done' = done \cup ({Target(c)} \cap subs)
    /\ UNCHANGED <<connVars, listed, inflight, raced, rowVars>>

Serve(c) == Check(c) \/ RunEnds(c) \/ Register(c) \/ Store(c) \/ Lookup(c) \/ Detach(c)
Feed(c)  == PumpEnds(c) \/ ProcessExits(c) \/ WaiterEnds(c)

-----------------------------------------------------------------------------
(* Consent.                                                                 *)

\* What a request makes of the row: a capability revoked or granted, or the
\* row gone.  Bound: a patch touches one capability.
Edits ==
    {[touched |-> {x}, perms |-> consent \ {x}] : x \in Kinds}
    \cup {[touched |-> {x}, perms |-> consent \cup {x}] : x \in Kinds}

\* A consent handler reads the row and works out the new one.
Load(h) ==
    /\ handler[h] = Idle /\ changes < MaxChanges
    /\ changes' = changes + 1
    /\ mingled' = (mingled \/ \E g \in Handlers : handler[g] # Idle)
    /\ \/ /\ consent # NoRow
          /\ \E e \in Edits :
                handler' = [handler EXCEPT ![h] = [pc |-> "write", touched |-> e.touched,
                                                      perms |-> e.perms, at |-> {}]]
       \/ handler' = [handler EXCEPT ![h] = [pc |-> "write", touched |-> consent \cap Kinds,
                                             perms |-> NoRow, at |-> {}]]
    /\ UNCHANGED <<consent, connVars, streamVars>>

\* The calls under x that have passed their check and are not registered yet.
Unregistered(x) == {c \in Calls : Kind(c) = x /\ At(c, "register")}

\* It writes the row; without one there is nothing to update.
WriteRow(h) ==
    /\ handler[h].pc = "write"
    /\ IF consent = NoRow /\ handler[h].perms # NoRow
         THEN /\ handler' = [handler EXCEPT ![h] = Idle]
              /\ UNCHANGED <<consent, raced>>
         ELSE /\ handler' = [handler EXCEPT ![h].pc = "invalidate", ![h].at = registered]
              /\ consent' = handler[h].perms
              /\ raced' = raced \cup UNION {Unregistered(x) : x \in consent \ handler[h].perms}
    /\ UNCHANGED <<changes, mingled, connVars, subs, done, listed, call, inflight>>

\* The streams of connection k under a capability that h invalidates.
Hit(h, k) == {c \in subs \cap Of(k) : Kind(c) \in handler[h].touched}

\* Mutant of Invalidate: the EPERM envelopes are written on the spot.
InvalidateInline(h, k) ==
    /\ handler[h].pc = "invalidate" /\ k \in handler[h].at
    /\ Hit(h, k) # {} => Writable(k)
    /\ handler' = [handler EXCEPT ![h].at = @ \ {k}]
    /\ subs' = subs \ Hit(h, k)
    /\ done' = done \cup Hit(h, k)
    /\ UNCHANGED <<consent, changes, mingled, connVars, listed, call, inflight, raced>>

\* InvalidateConsent on one connection of its snapshot: the streams are removed
\* and their channels closed; the EPERM envelopes are left to a goroutine.
Invalidate(h, k) ==
    /\ handler[h].pc = "invalidate" /\ k \in handler[h].at
    /\ handler' = [handler EXCEPT ![h].at = @ \ {k}]
    /\ subs' = subs \ Hit(h, k)
    /\ done' = done \cup Hit(h, k)
    /\ UNCHANGED <<consent, changes, mingled, connVars, listed, call, inflight, raced>>

Answer(h) ==
    /\ handler[h].pc = "invalidate" /\ handler[h].at = {}
    /\ handler' = [handler EXCEPT ![h] = Idle]
    /\ UNCHANGED <<consent, changes, mingled, connVars, streamVars>>

Change(h) == WriteRow(h) \/ Answer(h) \/ \E k \in Conns : Invalidate(h, k)

-----------------------------------------------------------------------------

Next ==
    \/ \E k \in Conns : Connect(k) \/ Stall(k) \/ Unstall(k) \/ ReaderEnds(k) \/ Close(k)
    \/ \E c \in Calls : Begin(c) \/ Serve(c) \/ Feed(c)
    \/ \E h \in Handlers : Load(h) \/ Change(h)

Spec == Init /\ [][Next]_vars

-----------------------------------------------------------------------------
(* Properties.                                                              *)

\* When the consent handlers have answered, no stream of a live connection runs
\* under a capability that the row does not have, unless its check came before
\* the revocation and its registration after, or the handlers overwrote each
\* other's row (manager.go:320-344, plugins_consents.go:325-340).
RevokedStreamsEnd ==
    (\A h \in Handlers : handler[h] = Idle) /\ ~mingled =>
        \A c \in subs \ raced : c[1] \in registered => Granted(Kind(c))

\* "the row is gone -> Gate.Check will fail, and every live sub still gets its
\* EPERM" (gateway/plugins_consents.go:385-387).  Refuted: a call that has passed
\* its check registers after the registry was searched.
EveryLiveSubRevoked ==
    (\A h \in Handlers : handler[h] = Idle) /\ ~mingled =>
        \A c \in subs : c[1] \in registered => Granted(Kind(c))

\* A number that only one connection has used for a stream of its kind.
Unshared(c) == \A b \in Calls : b[2] = c[2] /\ b # c => Kind(b) # Kind(c)

\* Once a release of an answered stream has been answered, and no other release
\* of it is under way, nothing feeds the stream, whatever revocation, close and
\* the stream's own goroutine did in the meantime; as long as no other
\* connection uses its number (api_events.go:292-306, api_fs_watch.go:191-210).
ReleasedStaysReleased ==
    \A c \in Calls :
        LET b == <<c[1], call[c].of>> IN
        /\ call[c].op = "release" /\ At(c, "over") /\ Kind(c) # "exec" /\ Unshared(b)
        /\ ~\E d \in Calls : At(d, "detach") /\ Target(d) = b
        => call[b].feed # "on"

\* A stream that was ended stays ended, by whom ever (manager.go:320-344, api_events.go:292-306).
EndedStreamsStayEnded == RevokedStreamsEnd /\ ReleasedStaysReleased

\* The calls that hold a slot of exec.
Holders ==
    {c \in Calls : /\ Kind(c) = "exec"
                   /\ \/ At(c, "running")
                      \/ call[c].op = "open" /\ call[c].pc \in {"register", "store"}
                      \/ At(c, "open") /\ call[c].feed = "on"}

\* The slots taken are those of the commands that have been let in and whose end
\* has not been noticed, whichever step of them failed (api_exec.go:241-263).
SlotsExact == inflight = Cardinality(Holders)

\* Whatever feeds an event or file stream can be ended from outside: the stream
\* is in the registry of a connection that the manager lists, where Close and
\* revocations look for it, or its done channel is closed already; unless its
\* call was on its way when Close drained the registry (api_events.go:53-56,
\* manager.go:188-224, 320-330).
FeedsCanEnd ==
    \A c \in Calls \ late :
        At(c, "open") /\ Kind(c) # "exec" /\ call[c].feed = "on" =>
            c \in done \/ (c \in subs /\ c[1] \in registered)

\* "the pump goroutines observe that and call busUnsub before exiting - no
\* goroutine leak" (api_events.go:53-55).  Refuted: Subscribe does not look whether
\* the connection is closed; one that comes after the drain is found by neither
\* Close, which runs once, nor a revocation, and feeds a dead socket for ever.
NoFeedLeft ==
    \A c \in Calls :
        At(c, "open") /\ Kind(c) # "exec" /\ call[c].feed = "on" =>
            c \in done \/ c[1] \in registered

\* A consent handler can go on whatever the peers do: no step of it waits for one
\* that does not read (manager.go:21-26).
ChangesNeverWait == \A h \in Handlers : handler[h] # Idle => ENABLED Change(h)

=============================================================================
