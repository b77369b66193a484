------------------------------- MODULE Surfaces -------------------------------
(***************************************************************************)
(* Components at the edges of the gateway that share nothing with one      *)
(* another: what it asks of a sidecar, of the marketplace, of an account   *)
(* and of Telegram.  They are composed so that one specification has them  *)
(* all: a behaviour is a behaviour of one of them, its lane, and leaves    *)
(* the variables of the others without a value.                            *)
(***************************************************************************)
EXTENDS Naturals, Sequences, FiniteSets

CONSTANTS
    Lanes,          \* the components that have behaviours
    None,
    \* SidecarMux
    Calls, Requests, MuxScenarios, StdinRoom, StdoutRoom, NotifyRoom, MaxNotes,
    \* Market
    Buyers, Versions, Lexical, MaxBase, MaxUploads, MarketScenarios,
    \* Accounts
    Threads, Flows, Names, MaxTokens, AccountScenarios,
    \* Telegram
    Sessions, Claude, Chats, Notify, Asking, Inputs, BridgeScenarios, MaxLines, MaxUpdates, MaxSent,
    MaxBots

VARIABLES
    lane,
    scenario,       \* of three lanes
    call, nextID, pending, answer, writer, stdin, stdinOpen, sidecar, stdout, reader, done,
    cancelled, handler, notes, sent,
    artifact, uploads, shelf, cache, proc, temp, staged, registry,
    thread, flow, perm, aside, token, row, tokens,
    inbox, confirmed, log, running, lines, terminal, config, hash, bot, bots, born, allowed, offset, batch,
    last, notified, waiting, link, remembered, boxes, handlers, idlers, budget, submits, turn

Mux     == INSTANCE SidecarMux WITH Scenarios <- MuxScenarios
Catalog == INSTANCE Market WITH Procs <- Buyers, Scenarios <- MarketScenarios
Login   == INSTANCE Accounts WITH Scenarios <- AccountScenarios
Bridge  == INSTANCE Telegram WITH Scenarios <- BridgeScenarios

ASSUME SurfacesAssumption ==
    /\ Mux!SidecarMuxAssumption /\ Catalog!MarketAssumption /\ Login!AccountsAssumption
    /\ Bridge!TelegramAssumption

\* ------------------------------------------- what is without a value in other lanes
muxVars     == <<call, nextID, pending, answer, writer, stdin, stdinOpen, sidecar, stdout, reader,
                 done, cancelled, handler, notes, sent>>
catalogVars == <<artifact, uploads, shelf, cache, proc, temp, staged, registry>>
loginVars   == <<thread, flow, perm, aside, token, row, tokens>>
bridgeVars  == <<inbox, confirmed, log, running, lines, terminal, config, hash, bot, bots, born, allowed,
                 offset, batch, last, notified, waiting, link, remembered, boxes, handlers, idlers,
                 budget, submits, turn>>
vars == <<lane, scenario, muxVars, catalogVars, loginVars, bridgeVars>>

NoMux ==
    /\ call = None /\ nextID = None /\ pending = None /\ answer = None /\ writer = None
    /\ stdin = None /\ stdinOpen = None /\ sidecar = None /\ stdout = None /\ reader = None
    /\ done = None /\ cancelled = None /\ handler = None /\ notes = None /\ sent = None
NoCatalog ==
    /\ artifact = None /\ uploads = None /\ shelf = None /\ cache = None /\ proc = None
    /\ temp = None /\ staged = None /\ registry = None
NoLogin ==
    /\ thread = None /\ flow = None /\ perm = None /\ aside = None /\ token = None /\ row = None
    /\ tokens = None
NoBridge ==
    /\ inbox = None /\ confirmed = None /\ log = None /\ running = None /\ lines = None
    /\ terminal = None
    /\ config = None /\ hash = None /\ bot = None /\ bots = None /\ born = None /\ allowed = None
    /\ offset = None /\ batch = None /\ last = None /\ notified = None /\ waiting = None
    /\ link = None /\ remembered = None /\ boxes = None /\ handlers = None /\ idlers = None
    /\ budget = None /\ submits = None /\ turn = None

\* ---------------------------------------------------------------- the lanes
Init ==
    /\ lane \in Lanes
    /\ \/ /\ lane = "Mux" /\ Mux!Init
          /\ NoCatalog /\ NoLogin /\ NoBridge
       \/ /\ lane = "Catalog" /\ Catalog!Init
          /\ NoMux /\ NoLogin /\ NoBridge
       \/ /\ lane = "Login" /\ Login!Init
          /\ NoMux /\ NoCatalog /\ NoBridge
       \/ /\ lane = "Bridge" /\ Bridge!Init
          /\ NoMux /\ NoCatalog /\ NoLogin
          /\ scenario = None

Next ==
    /\ UNCHANGED lane
    /\ \/ /\ lane = "Mux" /\ Mux!Next
          /\ UNCHANGED <<catalogVars, loginVars, bridgeVars>>
       \/ /\ lane = "Catalog" /\ Catalog!Next
          /\ UNCHANGED <<muxVars, loginVars, bridgeVars>>
       \/ /\ lane = "Login" /\ Login!Next
          /\ UNCHANGED <<muxVars, catalogVars, bridgeVars>>
       \/ /\ lane = "Bridge" /\ Bridge!Next
          /\ UNCHANGED <<muxVars, catalogVars, loginVars, scenario>>

Spec == Init /\ [][Next]_vars

\* -------------------------------------------------------------- properties
\* The answer of a sidecar goes whole to the call it is for, and no call waits for one that can
\* no longer come (plugin/host/mux.go:100-230).
SidecarAnswers ==
    lane = "Mux" => Mux!TypeOK /\ Mux!WholeAndOwn /\ Mux!NobodyWaits

\* What is staged is what the catalog answered, whole, and a request that is over leaves
\* nothing in the directory for temporary files (gateway/plugins_install.go,
\* plugin/install/source.go).
InstallsStaged ==
    lane = "Catalog" => Catalog!TypeOK /\ Catalog!StagedAsResolved /\ Catalog!NothingLeft

\* A sign-in that is over leaves no directory of its own, and the account it has registered keeps
\* its credentials until another sign-in or a token takes their place, or another Complete of the
\* same flow moves them aside (gateway/claude_accounts_oauth.go:41-43, 416-459).
SignInsClean ==
    lane = "Login" => Login!TypeOK /\ Login!FlowLeavesNothing /\ Login!CredentialsKept

\* The picks of a prompt are typed into the session once, whatever taps, redeliveries and reloads
\* there are (gateway/telegram/multiselect.go:123-126).
SubmittedOnce ==
    lane = "Bridge" => Bridge!TypeOK /\ Bridge!SubmittedOnce

\* A selection that was taken out to be submitted is submitted or comes back: nothing ticked, a
\* dead session, a reload in between (gateway/telegram/commands.go:686-701).
SelectionKept ==
    lane = "Bridge" => Bridge!SelectionKept

\* A line of a terminal is pushed to a chat once until the baseline it was compared with is
\* reset, or gives way to that of another terminal of the session, however many idle events
\* are handled at a time (gateway/telegram/forwarder.go:131-133).
PushedOnce ==
    lane = "Bridge" => Bridge!PushedOnce

\* The last message of every push of this gateway, and of every notification that a session is
\* idle, can be replied to once its sender has had its id back; notices of exits and earlier
\* parts of a split body are excepted by their kind (gateway/telegram/forwarder.go:160-168).
Answerable ==
    lane = "Bridge" => Bridge!Answerable
===============================================================================
