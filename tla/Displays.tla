------------------------------- MODULE Displays -------------------------------
(***************************************************************************)
(* What is shown of a session and of the gateway, in components that share *)
(* nothing with one another: the terminal, the notice that it waits, the   *)
(* log, the panel and the workbench, and the wizard in a terminal that has *)
(* installed it all.  A behaviour is a behaviour of one of them, its lane, *)
(* and leaves the variables of the others without a value.  What lanes     *)
(* call by the same name is one variable here.                             *)
(***************************************************************************)
EXTENDS Naturals, Sequences, FiniteSets

CONSTANTS
    Lanes,          \* the components that have behaviours
    None,
    \* OutputStream
    Terminals, Capacity, ChannelSize, MaxChunk, MaxOutput,
    \* TerminalSession
    Threshold, MaxOutputs, Hook, Client, Detector,
    \* LogTail
    MaxLog, MaxCuts, Backlog, ReadSize, Ahead,
    \* SourceControl
    Procs, Forges, Repos, Deep, Sessions, MaxHead, MaxEdits, PanelScenarios,
    \* Workbench
    Plugins, Clients, Writers, BenchScenarios, SubBufferSize, MaxSubs, MaxJobs, MaxAsks,
    \* Setup
    InstallScenarios, MaxPasswords, MaxAdmins, MaxSecrets, MaxRuns, MaxBoots

VARIABLES
    lane,
    scenario, head, client, exited,      \* of two lanes
    buf, full, written, chunk, untold,
    outputs, age, state, idle, reader, detector, listener, told, due,
    file, bytes, cuts, rotated, missed, grep, pc, start, lastPos, from, within, out, held, message,
    sent,
    kv, fields, drawn, tokens, sessions, base, tree, git, req, ideal, agreed, halfway, contested, raced,
    up, subs, job, inv, jobs, unannounced, registry,
    config, cluster, pg, rows, wiz, srv, un, account, copied, unit, installed, passwords, admins,
    secrets, runs, boots, chosen, applied, dropped, overtaken

Stream == INSTANCE OutputStream WITH Clients <- Terminals, MaxBytes <- MaxOutput
Notice == INSTANCE TerminalSession
Viewer == INSTANCE LogTail WITH MaxBytes <- MaxLog
Panel  == INSTANCE SourceControl WITH Scenarios <- PanelScenarios
Bench  == INSTANCE Workbench WITH Scenarios <- BenchScenarios
Install == INSTANCE Setup WITH Scenarios <- InstallScenarios

ASSUME DisplaysAssumption ==
    /\ Stream!OutputStreamAssumption /\ Notice!SessionAssumption /\ Viewer!LogTailAssumption
    /\ Panel!SourceControlAssumption /\ Bench!WorkbenchAssumption
    /\ Install!SetupAssumption

\* ------------------------------------------- what is without a value in other lanes
streamVars == <<buf, full, written, chunk, untold>>
noticeVars == <<outputs, age, state, idle, reader, detector, listener, told, due>>
viewerVars == <<file, bytes, cuts, rotated, missed, grep, pc, start, lastPos, from, within, out,
                held, message, sent>>
panelVars  == <<kv, fields, drawn, tokens, sessions, base, tree, git, req, ideal, agreed, halfway,
                contested, raced>>
benchVars  == <<up, subs, job, inv, jobs, unannounced, registry>>
installVars == <<config, cluster, pg, rows, wiz, srv, un, account, copied, unit, installed,
                 passwords, admins, secrets, runs, boots, chosen, applied, dropped, overtaken>>
vars == <<lane, scenario, head, client, exited, streamVars, noticeVars, viewerVars, panelVars,
          benchVars, installVars>>

NoStream ==
    /\ buf = None /\ full = None /\ written = None /\ chunk = None /\ untold = None
NoNotice ==
    /\ outputs = None /\ age = None /\ state = None /\ idle = None /\ reader = None
    /\ detector = None /\ listener = None /\ told = None /\ due = None
NoViewer ==
    /\ file = None /\ bytes = None /\ cuts = None /\ rotated = None /\ missed = None /\ grep = None
    /\ pc = None /\ start = None /\ lastPos = None /\ from = None /\ within = None /\ out = None
    /\ held = None /\ message = None /\ sent = None
NoPanel ==
    /\ kv = None /\ drawn = None /\ tokens = None /\ sessions = None /\ base = None /\ tree = None
    /\ git = None /\ req = None /\ ideal = None /\ contested = None /\ raced = None
    /\ fields = None /\ agreed = None /\ halfway = None
NoBench ==
    /\ up = None /\ subs = None /\ job = None /\ inv = None /\ jobs = None /\ unannounced = None
    /\ registry = None
NoInstall ==
    /\ config = None /\ cluster = None /\ pg = None /\ rows = None /\ wiz = None /\ srv = None
    /\ un = None /\ account = None /\ copied = None /\ unit = None /\ installed = None
    /\ passwords = None /\ admins = None /\ secrets = None /\ runs = None /\ boots = None
    /\ chosen = None /\ applied = None /\ dropped = None /\ overtaken = None

\* ---------------------------------------------------------------- the lanes
Init ==
    /\ lane \in Lanes
    /\ \/ /\ lane = "Stream" /\ Stream!Init
          /\ NoNotice /\ NoViewer /\ NoPanel /\ NoBench /\ NoInstall
          /\ scenario = None
       \/ /\ lane = "Notice" /\ Notice!Init
          /\ NoStream /\ NoViewer /\ NoPanel /\ NoBench /\ NoInstall
          /\ scenario = None /\ head = None /\ client = None
       \/ /\ lane = "Viewer" /\ Viewer!Init
          /\ NoStream /\ NoNotice /\ NoPanel /\ NoBench /\ NoInstall
          /\ scenario = None /\ head = None /\ client = None /\ exited = None
       \/ /\ lane = "Panel" /\ Panel!Init
          /\ NoStream /\ NoNotice /\ NoViewer /\ NoBench /\ NoInstall
          /\ client = None /\ exited = None
       \/ /\ lane = "Bench" /\ Bench!Init
          /\ NoStream /\ NoNotice /\ NoViewer /\ NoPanel /\ NoInstall
          /\ head = None /\ exited = None
       \/ /\ lane = "Install" /\ Install!Init
          /\ NoStream /\ NoNotice /\ NoViewer /\ NoPanel /\ NoBench
          /\ head = None /\ client = None /\ exited = None

Next ==
    /\ UNCHANGED lane
    /\ \/ /\ lane = "Stream" /\ Stream!Next
          /\ UNCHANGED <<noticeVars, viewerVars, panelVars, benchVars, installVars,
                         scenario>>
       \/ /\ lane = "Notice" /\ Notice!Next
          /\ UNCHANGED <<streamVars, viewerVars, panelVars, benchVars, installVars,
                         scenario, head, client>>
       \/ /\ lane = "Viewer" /\ Viewer!Next
          /\ UNCHANGED <<streamVars, noticeVars, panelVars, benchVars, installVars,
                         scenario, head, client, exited>>
       \/ /\ lane = "Panel" /\ Panel!Next
          /\ UNCHANGED <<streamVars, noticeVars, viewerVars, benchVars, installVars, client,
                         exited>>
       \/ /\ lane = "Bench" /\ Bench!Next
          /\ UNCHANGED <<streamVars, noticeVars, viewerVars, panelVars, installVars, head, exited>>
       \/ /\ lane = "Install" /\ Install!Next
          /\ UNCHANGED <<streamVars, noticeVars, viewerVars, panelVars, benchVars, head, client,
                         exited>>

Spec == Init /\ [][Next]_vars

\* -------------------------------------------------------------- properties
\* A client is shown the last of the output, and what follows without a gap unless its channel
\* was full (kernel/terminal/buffer.go, gateway/ws.go:70-83, 170-185).
OutputShown ==
    lane = "Stream" => Stream!TypeOK /\ Stream!SnapshotIsTail /\ Stream!NothingSkipped

\* A connection reports each closing of the channel of the idle detector at most once: phase 2
\* of its notifier waits for another channel, whatever state the reader and the detector have
\* left (gateway/ws.go:134-167).
ClientNeverRepeats == [][lane = "Notice" => ~Notice!Repeats(Client)]_vars

\* The log viewer shows a stretch of the log without a gap (gateway/logs/tail.go,
\* gateway/logs.go).
LogShown ==
    lane = "Viewer" => Viewer!TypeOK /\ Viewer!TailExact

\* The lists of the panel are what their requests, one at a time, would have made them, and
\* what belongs to a forge goes with it (gateway/sourcecontrol_*.go).  Excepted are rows that
\* overlapping requests have written, a rollback that fails, and an update that could not write
\* its token, which keeps what it has saved.
PanelExact ==
    lane = "Panel" => Panel!TypeOK /\ Panel!RowsExact /\ Panel!NoStrays

\* A client of the workbench stream shows what the registry of contributions holds of every
\* plugin whose last change was announced, or is going to be told.  Excepted are clients whose
\* queue has overflowed, and changes that no event tells of: those of the providers' endpoints,
\* of an Uninstall that failed halfway and of a publisher that panicked
\* (plugin/contributions, gateway/workbench_stream.go, gateway/api.go).
ClientsFresh ==
    lane = "Bench" => Bench!ClientsFresh

\* The bundled PostgreSQL opens with the password of the user's file, unless it was given up in
\* one of the ways with a name (cmd/opendray/setup_cli.go, main.go, kernel/pg).
ClusterOpens ==
    lane = "Install" => Install!TypeOK /\ Install!ClusterOpens

\* What a wizard has reported done stays true (cmd/opendray/setup_cli.go, main.go,
\* uninstall_cli.go).
AppliedHolds ==
    lane = "Install" => Install!AppliedHolds
===============================================================================
