----------------------------- MODULE Workbench -----------------------------
(***************************************************************************)
(* The workbench: the registry of what the plugins contribute              *)
(* (plugin/contributions), the bus that tells the connected clients about  *)
(* it (gateway/workbench_stream), the clients that refetch on its word,    *)
(* and the commands the contributions declare (plugin/commands,            *)
(* gateway/plugins_command, plugin/bridge/api_workbench).                  *)
(*                                                                         *)
(* Publish copies the list of subscribers under the lock and sends without *)
(* it; the end of a subscription closes the channel, without it too.  A    *)
(* full channel loses its oldest event, or the new one when another        *)
(* publisher was faster.  A client never asks again but on an event.       *)
(***************************************************************************)
EXTENDS Naturals, Sequences, FiniteSets

CONSTANTS
    Plugins, Clients,
    Writers,        \* goroutines that change the registry or publish
    Scenarios,      \* what a behaviour may do, and with which plugins
    SubBufferSize,  \* events a subscriber may have waiting
    MaxSubs,        \* bound: subscriptions ever made
    MaxJobs,        \* bound: changes and messages ever begun
    MaxAsks,        \* bound: refetches of one client under way
    None

Deeds == {"install", "uninstall", "provider", "message", "sidecar", "revoke", "leave", "fail", "invoke"}
WorkbenchAssumption ==
    /\ Scenarios \subseteq [deeds : SUBSET Deeds, plugins : SUBSET Plugins]
    /\ SubBufferSize \in Nat \ {0} /\ MaxSubs \in Nat /\ MaxJobs \in Nat /\ MaxAsks \in Nat

VARIABLES
    scenario,
    up,         \* the server runs: a panic nobody recovers ends it
    registry,   \* plugins with contributions
    subs,       \* every subscription made: in the bus's map, channel open, channel
    job,        \* what each writer is at
    client,     \* the stream and the cached view of each client
    inv,        \* the invocation of a command under way
    jobs,       \* how many jobs were begun
    unannounced \* history: plugins whose last change no event tells of

vars == <<scenario, up, registry, subs, job, client, inv, jobs, unannounced>>

Can(deed) == deed \in scenario.deeds /\ up
Origins == {"http", "provider", "bridge", "sidecar", "poller"}
Events == {"contributionsChanged", "showMessage", "revocation"}
Kinds == {"notify", "openUrl", "openView", "exec", "runTask", "host"}
Idle == [pc |-> "off", origin |-> "http", change |-> "none", plugin |-> None,
         event |-> "showMessage", todo |-> {}, at |-> 0]
Away == [pc |-> "off", sub |-> 0, view |-> {}, listed |-> {}, asks |-> <<>>, lost |-> TRUE]
NoInvocation == [pc |-> "off", kind |-> "notify", plugin |-> None, shell |-> FALSE,
                 kids |-> "none", late |-> FALSE, absent |-> FALSE, answer |-> "none"]

TypeOK ==
    /\ scenario \in Scenarios /\ up \in BOOLEAN /\ registry \subseteq Plugins
    /\ subs \in Seq([live : BOOLEAN, open : BOOLEAN, queue : Seq(Events)])
    /\ \A s \in DOMAIN subs : Len(subs[s].queue) <= SubBufferSize
    /\ job \in [Writers -> [pc : {"off", "change", "publish", "send", "drop", "retry"},
                            origin : Origins, change : {"install", "uninstall", "none"},
                            plugin : Plugins \union {None}, event : Events,
                            todo : SUBSET DOMAIN subs, at : {0} \union DOMAIN subs]]
    /\ \A c \in Clients :
          /\ client[c].pc \in {"off", "on", "leaving", "closing"}
          /\ client[c].view \subseteq Plugins /\ client[c].listed \subseteq Plugins
          /\ Len(client[c].asks) <= MaxAsks
    /\ inv.pc \in {"off", "check", "run"} /\ inv.kids \in {"none", "group", "own"}
    /\ jobs \in 0..MaxJobs /\ unannounced \subseteq Plugins

Init ==
    /\ scenario \in Scenarios
    /\ up = TRUE /\ registry = {} /\ subs = <<>>
    /\ job = [w \in Writers |-> Idle]
    /\ client = [c \in Clients |-> Away]
    /\ inv = NoInvocation
    /\ jobs = 0 /\ unannounced = {}

\* ------------------------------------------------------------ registry
Begin(w, step) ==
    /\ job[w].pc = "off" /\ jobs < MaxJobs
    /\ job' = [job EXCEPT ![w] = step]
    /\ jobs' = jobs + 1
    /\ UNCHANGED <<scenario, up, registry, subs, client, inv, unannounced>>

Install(w) ==       \* a confirmed install, or a built-in restored
    /\ Can("install")
    /\ \E p \in Plugins : /\ p \in scenario.plugins
                         /\ Begin(w, [Idle EXCEPT !.pc = "change", !.change = "install", !.plugin = p])

Uninstall(w) ==
    /\ Can("uninstall")
    /\ \E p \in registry : Begin(w, [Idle EXCEPT !.pc = "change", !.change = "uninstall", !.plugin = p])

RegisterProvider(w) ==  \* POST /api/providers
    /\ Can("provider")
    /\ \E p \in Plugins : /\ p \in scenario.plugins
                         /\ Begin(w, [Idle EXCEPT !.pc = "change", !.change = "install",
                                                  !.origin = "provider", !.plugin = p])

DeleteProvider(w) ==    \* DELETE /api/providers/{name}
    /\ Can("provider")
    /\ \E p \in registry : Begin(w, [Idle EXCEPT !.pc = "change", !.change = "uninstall",
                                                 !.origin = "provider", !.plugin = p])

Message(w) ==       \* showMessage, openView or updateStatusBar of a plugin
    \/ Can("message") /\ Begin(w, [Idle EXCEPT !.pc = "publish", !.origin = "bridge"])
    \/ Can("sidecar") /\ Begin(w, [Idle EXCEPT !.pc = "publish", !.origin = "sidecar"])

Revoke(w) ==        \* the banner first, then the removal
    /\ Can("revoke")
    /\ \E p \in registry : Begin(w, [Idle EXCEPT !.pc = "publish", !.origin = "poller",
                                                 !.change = "uninstall", !.plugin = p])

ChangedRegistry(w) ==
    IF job[w].change = "install" THEN registry \union {job[w].plugin}
    ELSE registry \ {job[w].plugin}

\* mutant of Change: the callback before the registry
ChangeLate(w) ==
    /\ up
    /\ \/ /\ job[w].pc = "change"
          /\ job' = [job EXCEPT ![w].pc = "publish", ![w].event = "contributionsChanged"]
          /\ UNCHANGED <<registry, unannounced>>
       \/ /\ job[w].pc = "send" /\ job[w].todo = {} /\ job[w].event = "contributionsChanged"
          /\ registry' = ChangedRegistry(w) /\ job' = [job EXCEPT ![w] = Idle]
          /\ UNCHANGED unannounced
    /\ UNCHANGED <<scenario, up, subs, client, inv, jobs>>

\* Registry.Set or Remove, unless the queries before it fail,
Outcomes(w) == {ChangedRegistry(w)} \union IF Can("fail") THEN {registry} ELSE {}

\* and then the callback.  The endpoints of the providers have none, and an
\* Uninstall that fails later, in the database, has removed and says nothing.
Change(w) ==
    /\ up /\ job[w].pc = "change"
    /\ registry' \in Outcomes(w)
    /\ \/ /\ job[w].origin # "provider"
          /\ job' = [job EXCEPT ![w].pc = "publish", ![w].event = "contributionsChanged"]
          /\ unannounced' = unannounced \ {job[w].plugin}
       \/ /\ job[w].origin = "provider" \/ (Can("fail") /\ job[w].change = "uninstall")
          /\ job' = [job EXCEPT ![w] = Idle]
          /\ unannounced' = unannounced \union {job[w].plugin}
    /\ UNCHANGED <<scenario, up, subs, client, inv, jobs>>

\* ----------------------------------------------------------------- bus
Publish(w) ==
    /\ up /\ job[w].pc = "publish"
    /\ job' = [job EXCEPT ![w].pc = "send", ![w].todo = {s \in DOMAIN subs : subs[s].live}]
    /\ UNCHANGED <<scenario, up, registry, subs, client, inv, jobs, unannounced>>

\* A send on a closed channel panics.  net/http and the bridge recover, the
\* handler of a sidecar's request and the poller do not.
Panic(w) ==
    /\ up' = (job[w].origin \in {"http", "provider", "bridge"})
    /\ job' = [job EXCEPT ![w] = Idle]
    /\ unannounced' = unannounced \union
          (IF job[w].event = "contributionsChanged" THEN {job[w].plugin} ELSE {})
    /\ UNCHANGED <<subs, client>>

Done(w, s) == job' = [job EXCEPT ![w].pc = "send", ![w].todo = @ \ {s}, ![w].at = 0]
Enqueued(w, s) == subs' = [subs EXCEPT ![s].queue = Append(@, job[w].event)]
Full(s) == Len(subs[s].queue) = SubBufferSize
\* the clients of s have lost event e
Losing(s, e) ==
    client' = [c \in Clients |-> IF client[c].sub = s /\ e = "contributionsChanged"
                                 THEN [client[c] EXCEPT !.lost = TRUE] ELSE client[c]]

Offer(w) ==
    /\ up /\ job[w].pc = "send"
    /\ \E s \in job[w].todo :
          \/ ~subs[s].open /\ Panic(w)
          \/ /\ subs[s].open /\ ~Full(s)
             /\ Enqueued(w, s) /\ Done(w, s)
             /\ UNCHANGED <<up, client, unannounced>>
          \/ /\ subs[s].open /\ Full(s)
             /\ job' = [job EXCEPT ![w].pc = "drop", ![w].at = s]
             /\ UNCHANGED <<up, subs, client, unannounced>>
    /\ UNCHANGED <<scenario, registry, inv, jobs>>

DropOldest(w) ==
    /\ up /\ job[w].pc = "drop"
    /\ LET s == job[w].at IN
       IF subs[s].queue = <<>> THEN UNCHANGED <<subs, client>>
       ELSE subs' = [subs EXCEPT ![s].queue = Tail(@)] /\ Losing(s, Head(subs[s].queue))
    /\ job' = [job EXCEPT ![w].pc = "retry"]
    /\ UNCHANGED <<scenario, up, registry, inv, jobs, unannounced>>

OfferAgain(w) ==
    /\ up /\ job[w].pc = "retry"
    /\ LET s == job[w].at IN
       \/ ~subs[s].open /\ Panic(w)
       \/ /\ subs[s].open /\ ~Full(s)
          /\ Enqueued(w, s) /\ Done(w, s) /\ UNCHANGED <<up, client, unannounced>>
       \/ /\ subs[s].open /\ Full(s)
          /\ Losing(s, job[w].event) /\ Done(w, s) /\ UNCHANGED <<up, subs, unannounced>>
    /\ UNCHANGED <<scenario, registry, inv, jobs>>

\* The poller publishes twice, then removes; everybody else is done.
Published(w) ==
    /\ up /\ job[w].pc = "send" /\ job[w].todo = {}
    /\ job' = [job EXCEPT ![w] =
          IF @.origin # "poller" \/ @.event = "contributionsChanged" THEN Idle
          ELSE IF @.event = "showMessage" THEN [@ EXCEPT !.pc = "publish", !.event = "revocation"]
          ELSE [@ EXCEPT !.pc = "change"]]
    /\ UNCHANGED <<scenario, up, registry, subs, client, inv, jobs, unannounced>>

\* ------------------------------------------------------- stream, client
Subscribe(c) ==
    /\ up /\ client[c].pc = "off" /\ Len(subs) < MaxSubs
    /\ subs' = Append(subs, [live |-> TRUE, open |-> TRUE, queue |-> <<>>])
    /\ client' = [client EXCEPT ![c].pc = "on", ![c].sub = Len(subs) + 1]
    /\ UNCHANGED <<scenario, up, registry, job, inv, jobs, unannounced>>

\* the app asks when it opens, and when the user pulls
Refresh(c) ==
    /\ up /\ client[c].pc = "on" /\ client[c].lost /\ client[c].asks = <<>>
    /\ client' = [client EXCEPT ![c].asks = <<None>>, ![c].lost = FALSE]
    /\ UNCHANGED <<scenario, up, registry, subs, job, inv, jobs, unannounced>>

OnEvent(state, event) ==
    CASE event = "contributionsChanged" -> [state EXCEPT !.asks = Append(@, None)]
      [] event = "revocation"           -> [state EXCEPT !.listed = registry]
      [] OTHER                          -> state

Receive(c) ==
    /\ up /\ client[c].pc = "on" /\ Len(client[c].asks) < MaxAsks
    /\ LET s == client[c].sub IN
       /\ subs[s].queue # <<>>
       /\ subs' = [subs EXCEPT ![s].queue = Tail(@)]
       /\ client' = [client EXCEPT ![c] = OnEvent(@, Head(subs[s].queue))]
    /\ UNCHANGED <<scenario, up, registry, job, inv, jobs, unannounced>>

Flatten(c) ==       \* GET /api/workbench/contributions
    /\ up
    /\ \E i \in DOMAIN client[c].asks :
          /\ client[c].asks[i] = None
          /\ client' = [client EXCEPT ![c].asks[i] = registry]
    /\ UNCHANGED <<scenario, up, registry, subs, job, inv, jobs, unannounced>>

\* The answer overwrites what the client shows, also when an older one is
\* still on its way; a request that fails leaves it as it is.
Apply(c) ==
    /\ \E i \in DOMAIN client[c].asks :
          /\ client[c].asks[i] # None
          /\ \E ok \in {TRUE} \union IF Can("fail") THEN {FALSE} ELSE {} :
                client' = [client EXCEPT ![c].view = IF ok THEN client[c].asks[i] ELSE @,
                   ![c].asks = SubSeq(@, 1, i - 1) \o SubSeq(@, i + 1, Len(@)),
                   ![c].lost = @ \/ i > 1 \/ ~ok]
    /\ UNCHANGED <<scenario, up, registry, subs, job, inv, jobs, unannounced>>

Leave(c) ==         \* the request's context ends, or a write fails
    /\ Can("leave") /\ client[c].pc = "on"
    /\ client' = [client EXCEPT ![c].pc = "leaving", ![c].lost = TRUE]
    /\ UNCHANGED <<scenario, up, registry, subs, job, inv, jobs, unannounced>>

Unsubscribe(c) ==
    /\ up
    /\ \/ /\ client[c].pc = "leaving"
          /\ subs' = [subs EXCEPT ![client[c].sub].live = FALSE]
          /\ client' = [client EXCEPT ![c].pc = "closing"]
       \/ /\ client[c].pc = "closing"
          /\ subs' = [subs EXCEPT ![client[c].sub].open = FALSE]
          /\ client' = [client EXCEPT ![c].pc = "off", ![c].sub = 0]
    /\ UNCHANGED <<scenario, up, registry, job, inv, jobs, unannounced>>

\* ------------------------------------------------------------ commands
\* The status of an error without one of its own is read off its text.
Status(error) ==
    CASE error = "command not found" -> "ENOTFOUND"
      [] error = "requires M2/M3"    -> "ENOTIMPL"
      [] error = "EPERM"             -> "EPERM"
      [] OTHER                       -> "EINTERNAL"
Answers(answer) == inv' = [inv EXCEPT !.pc = "off", !.answer = answer, !.shell = FALSE]

Invoke ==           \* over HTTP, or runCommand of a plugin
    /\ Can("invoke") /\ inv.pc = "off" /\ inv.answer = "none"
    /\ \E p \in Plugins \intersect scenario.plugins, kind \in Kinds :
          inv' = IF p \in registry
                 THEN [NoInvocation EXCEPT !.pc = "check", !.kind = kind, !.plugin = p]
                 ELSE [NoInvocation EXCEPT !.plugin = p, !.absent = TRUE,
                                           !.answer = Status("command not found")]
    /\ UNCHANGED <<scenario, up, registry, subs, job, client, jobs, unannounced>>

\* No task runner is wired; exec asks the gate; the others need no leave.
Dispatch ==
    /\ up /\ inv.pc = "check"
    /\ \/ inv.kind \in {"notify", "openUrl", "openView"} /\ Answers("ok")
       \/ inv.kind \in {"openUrl", "openView", "exec", "host"} /\ Answers(Status("no run spec"))
       \/ inv.kind = "runTask" /\ Answers(Status("requires M2/M3"))
       \/ inv.kind = "exec" /\ Answers(Status("EPERM"))
       \/ inv.kind = "exec" /\ inv' = [inv EXCEPT !.pc = "run", !.shell = TRUE]
       \/ inv.kind = "host" /\ inv' = [inv EXCEPT !.pc = "run"]
    /\ UNCHANGED <<scenario, up, registry, subs, job, client, jobs, unannounced>>

HostAnswers ==      \* the sidecar's error is passed on with its text
    /\ up /\ inv.pc = "run" /\ inv.kind = "host"
    /\ \E text \in {"command not found", "EPERM", "other"} :
          Answers("ok") \/ Answers(Status(text))
    /\ UNCHANGED <<scenario, up, registry, subs, job, client, jobs, unannounced>>

\* The script starts something in the background, in the shell's process
\* group or in one of its own, and the shell may end before it.
Fork ==
    /\ up /\ inv.shell /\ inv.kids = "none"
    /\ \E kids \in {"group", "own"} : inv' = [inv EXCEPT !.kids = kids]
    /\ UNCHANGED <<scenario, up, registry, subs, job, client, jobs, unannounced>>

Exit ==
    /\ inv.pc = "run"
    /\ \/ inv.shell /\ inv' = [inv EXCEPT !.shell = FALSE]
       \/ inv.kids # "none" /\ inv' = [inv EXCEPT !.kids = "none"]
    /\ UNCHANGED <<scenario, up, registry, subs, job, client, jobs, unannounced>>

\* The context's watch kills the group, as long as the shell itself lives.
ExecTimeout ==
    /\ up /\ inv.pc = "run" /\ inv.kind = "exec" /\ ~inv.late
    /\ inv' = [inv EXCEPT !.late = TRUE, !.shell = FALSE,
                          !.kids = IF inv.shell /\ @ = "group" THEN "none" ELSE @]
    /\ UNCHANGED <<scenario, up, registry, subs, job, client, jobs, unannounced>>

\* Run waits for the shell and for the end of its output, which whatever
\* it started holds open.
ExecReturns ==
    /\ up /\ inv.pc = "run" /\ inv.kind = "exec" /\ ~inv.shell /\ inv.kids = "none"
    /\ Answers(IF inv.late THEN Status("timed out") ELSE "ok")
    /\ UNCHANGED <<scenario, up, registry, subs, job, client, jobs, unannounced>>

Next ==
    \/ \E w \in Writers : \/ Install(w) \/ Uninstall(w) \/ RegisterProvider(w) \/ DeleteProvider(w)
                          \/ Message(w) \/ Revoke(w) \/ Change(w)
                          \/ Publish(w) \/ Offer(w) \/ DropOldest(w) \/ OfferAgain(w) \/ Published(w)
    \/ \E c \in Clients : \/ Subscribe(c) \/ Refresh(c) \/ Receive(c) \/ Flatten(c)
                          \/ Apply(c) \/ Leave(c) \/ Unsubscribe(c)
    \/ Invoke \/ Dispatch \/ HostAnswers \/ Fork \/ Exit \/ ExecTimeout \/ ExecReturns

Spec == Init /\ [][Next]_vars

\* The goroutines run; nothing says that what a script has left behind ends.
FairSpec ==
    /\ Spec /\ WF_vars(Dispatch) /\ WF_vars(ExecTimeout) /\ WF_vars(ExecReturns)
    /\ \A w \in Writers : WF_vars(Change(w) \/ Publish(w) \/ Offer(w) \/ DropOldest(w)
                                  \/ OfferAgain(w) \/ Published(w))

\* ---------------------------------------------------------- properties
\* the word that w has still to give to subscription s
Coming(w, s) ==
    /\ job[w].event = "contributionsChanged"
    /\ \/ job[w].pc = "publish"
       \/ job[w].pc \in {"send", "drop", "retry"} /\ s \in job[w].todo

\* what is known of the plugins whose last change was announced
Announced(view) == view \ unannounced

(* A client that has asked since its stream began, whose channel has lost  *)
(* no change and whose answers came in order, shows of every plugin whose  *)
(* last change was announced what the registry holds, or is going to be    *)
(* told: the change is made before it is announced, and an answer is read  *)
(* after the announcement.  Not announced are the changes of the providers' *)
(* endpoints, those of an Uninstall that failed after its removal, and     *)
(* those whose announcement panicked.                                      *)
ClientsFresh ==
    \A c \in Clients :
        (up /\ client[c].pc = "on" /\ ~client[c].lost) =>
            \/ Announced(client[c].view) = Announced(registry) /\ client[c].asks = <<>>
            \/ \E i \in DOMAIN client[c].asks :
                  client[c].asks[i] = None \/ Announced(client[c].asks[i]) = Announced(registry)
            \/ \E i \in DOMAIN subs[client[c].sub].queue :
                  subs[client[c].sub].queue[i] = "contributionsChanged"
            \/ \E w \in Writers : Coming(w, client[c].sub)

(* Refuted: "a convenience helper for the contribution registry hot-reload" *)
(* (workbench_stream.go:197-198), "SSE-driven push updates"                *)
(* (workbench_service.dart:15).  POST and DELETE /api/providers change     *)
(* what the plugins contribute and call no helper: a client that has lost  *)
(* nothing goes on showing the old.                                        *)
ChangesAnnounced ==
    \A c \in Clients :
        (/\ up /\ client[c].pc = "on" /\ ~client[c].lost /\ client[c].asks = <<>>
         /\ subs[client[c].sub].queue = <<>>
         /\ \A w \in Writers : job[w].pc = "off") => client[c].view = registry

(* Refuted: "Thread-safe for concurrent Publish + Subscribe"               *)
(* (workbench_stream.go:54).  A client that leaves between the copy of the *)
(* list and the send has its channel closed under the publisher.           *)
BusNeverPanics == up

(* Refuted: "Drop-oldest on overflow" (workbench_stream.go:56).  Two       *)
(* publishers that find the channel full may lose the newest event.        *)
NewestKept ==
    [][\A w \in Writers : (job[w].pc = "retry" /\ job'[w].pc = "send" /\ up')
           => \E s \in DOMAIN subs : Len(subs'[s].queue) > Len(subs[s].queue)]_vars

(* Refuted: the revocation event is there so that "uninstalled plugins     *)
(* disappear without waiting" (workbench_service.dart), and it is sent     *)
(* before the plugin is removed.                                           *)
ListFollowsRevocation ==
    \A c \in Clients : (/\ up /\ client[c].pc = "on" /\ \A w \in Writers : job[w].pc = "off"
                        /\ subs[client[c].sub].queue = <<>>)
                       => client[c].listed \subseteq registry

(* Refuted: "the hard timeout applied to every exec run-kind invocation"   *)
(* (dispatcher.go:60): what a script leaves in the background keeps the    *)
(* output open, and the invocation waits for it.                           *)
ExecEnds == (inv.late /\ inv.pc = "run") ~> (inv.pc = "off")

(* Refuted: "404 - command not found" (plugins_command.go:60): the text of *)
(* a sidecar's error decides the status.                                   *)
NotFoundMeansAbsent == inv.answer = "ENOTFOUND" => inv.absent
=============================================================================
