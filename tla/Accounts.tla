------------------------------ MODULE Accounts ------------------------------
(***************************************************************************)
(* The Claude accounts of the gateway: the sign-in flows that drive the    *)
(* command line of Claude (gateway/claude_accounts_oauth.go), the requests *)
(* on the accounts and their token files (gateway/claude_accounts.go) and  *)
(* the table of them (kernel/store/claude_accounts.go).                    *)
(*                                                                         *)
(* A request is served by a thread, one step between two accesses to what  *)
(* the threads share.  A directory is what it holds of the credentials.    *)
(***************************************************************************)
EXTENDS Naturals, FiniteSets

CONSTANTS
    Threads,
    Flows,          \* bound: sign-ins started
    Names,          \* of accounts, sorted
    MaxTokens,      \* bound: tokens written by the operator
    Scenarios,      \* the requests of a behaviour, the cap on flows, the names asked for
    None

Operations == {"start", "complete", "kill", "create", "import", "update", "toggle", "delete", "token"}
Row == [from : Flows \union {None}, file : BOOLEAN, enabled : BOOLEAN, wanted : BOOLEAN]
AccountsAssumption ==
    /\ Names \subseteq Nat \ {0} /\ MaxTokens \in Nat /\ None \notin Flows /\ None \notin Row
    /\ \A s \in Scenarios : /\ s.does \subseteq Operations \union {"restart", "fault"}
                            /\ s.cap \in Nat \ {0} /\ s.names \subseteq Names

VARIABLES
    scenario,
    thread,     \* each thread: its request and how far it is
    flow,       \* each flow: the handler's record of it and the command line behind it
    perm,       \* ~/.opendray/claude-accounts/<name>
    aside,      \* names of which a directory was moved aside this second
    token,      \* ~/.claude-accounts/tokens/<name>.token, 0 without
    tokens,
    row         \* the table

vars == <<scenario, thread, flow, perm, aside, token, tokens, row>>

Held == {"none", "empty", "touched", "creds"}       \* a directory, from absent to complete
Idle == [op |-> "idle", pc |-> "idle", flow |-> None, name |-> 0, read |-> None, todo |-> {}]
Unborn == [dir |-> "none", cli |-> "none", open |-> FALSE, inMap |-> FALSE, moved |-> FALSE,
           coded |-> FALSE, name |-> 0, fate |-> "none"]

TypeOK ==
    /\ scenario \in Scenarios
    /\ thread \in [Threads -> [op : Operations \union {"idle"},
                               pc : {"idle", "mkdir", "reading", "publish", "kill", "unlink", "rmdir",
                                     "write", "poll", "aside", "move", "copy", "copied",
                                     "insert", "forget", "scan", "read", "store"},
                               flow : Flows \union {None}, name : Names \union {0},
                               read : Row \union {None}, todo : SUBSET Names]]
    /\ flow \in [Flows -> [dir : Held, cli : {"none", "runs", "exited", "dead"}, open : BOOLEAN,
                           inMap : BOOLEAN, moved : BOOLEAN, coded : BOOLEAN,
                           name : Names \union {0},
                           fate : {"none", "displaced", "undone", "cleaned", "killed", "lost"}]]
    /\ perm \in [Names -> [of : Flows \union {None}, held : Held]]
    /\ aside \subseteq Names
    /\ token \in [Names -> 0..MaxTokens] /\ tokens \in 0..MaxTokens
    /\ row \in [Names -> Row \union {None}]

NoDir == [of |-> None, held |-> "none"]
Init ==
    /\ scenario \in Scenarios
    /\ thread = [t \in Threads |-> Idle]
    /\ flow = [f \in Flows |-> Unborn]
    /\ perm = [n \in Names |-> NoDir] /\ aside = {}
    /\ token = [n \in Names |-> 0] /\ tokens = 0
    /\ row = [n \in Names |-> None]

Can(deed) == deed \in scenario.does
Disk == <<scenario, perm, aside, token, tokens, row>>
Accounts == <<scenario, flow, perm, aside>>
At(t, pc) == thread[t].pc = pc
Goto(t, pc) == thread' = [thread EXCEPT ![t].pc = pc]
Done(t) == thread' = [thread EXCEPT ![t] = Idle]
Serve(t, op, pc, f, n) ==
    /\ At(t, "idle") /\ Can(op)
    /\ thread' = [thread EXCEPT ![t] = [Idle EXCEPT !.op = op, !.pc = pc, !.flow = f, !.name = n]]
Of(t) == flow[thread[t].flow]
Name(t) == Of(t).name

\* -------------------------------------------------------------- the flows
Live == {f \in Flows : flow[f].inMap}

Start(t, f) ==
    /\ flow[f] = Unborn /\ \A u \in Threads : thread[u].flow # f
    /\ Cardinality(Live) < scenario.cap
    /\ Serve(t, "start", "mkdir", f, 0)
    /\ UNCHANGED <<flow, Disk>>

\* The name may be left empty: the profile gives one when the flow completes.
Spawn(t) ==
    /\ At(t, "mkdir")
    /\ \/ \E n \in scenario.names :
            flow' = [flow EXCEPT ![thread[t].flow] =
                        [Unborn EXCEPT !.dir = "empty", !.cli = "runs", !.open = TRUE, !.name = n]]
          /\ Goto(t, "reading")
       \/ Can("fault") /\ Done(t) /\ UNCHANGED flow
    /\ UNCHANGED Disk

ReadURL(t) ==
    /\ At(t, "reading")
    /\ \/ Of(t).cli = "runs" /\ Goto(t, "publish")
       \/ Goto(t, "kill")          \* 15 s without a line, or the end of the output
    /\ UNCHANGED <<flow, Disk>>

Publish(t) ==
    /\ At(t, "publish")
    /\ flow' = [flow EXCEPT ![thread[t].flow].inMap = TRUE] /\ Done(t)
    /\ UNCHANGED Disk

\* Why a flow is over, if its directory is not that of an account by then.
Ended(g, why) == IF g.moved \/ g.fate = "killed" THEN g.fate ELSE why

\* A cancel, or the ten minutes of the flow.
KillFlow(t, f) ==
    /\ flow[f].inMap
    /\ Serve(t, "kill", "kill", f, 0)
    /\ flow' = [flow EXCEPT ![f].inMap = FALSE, ![f].fate = Ended(flow[f], "killed")]
    /\ UNCHANGED Disk

CleanupKill(t) ==
    /\ At(t, "kill")
    /\ flow' = [flow EXCEPT ![thread[t].flow].cli = "dead", ![thread[t].flow].open = FALSE,
                            ![thread[t].flow].fate = Ended(Of(t), "cleaned")]
    /\ Goto(t, "unlink") /\ UNCHANGED Disk
\* RemoveAll: the files, then the directory.
CleanupUnlink(t) ==
    /\ At(t, "unlink")
    /\ IF Of(t).moved \/ Of(t).dir = "none" THEN Done(t) /\ UNCHANGED flow
       ELSE flow' = [flow EXCEPT ![thread[t].flow].dir = "empty"] /\ Goto(t, "rmdir")
    /\ UNCHANGED Disk
Rmdir(t) == flow' = [flow EXCEPT ![thread[t].flow].dir = "none"]
CleanupRmdir(t) == At(t, "rmdir") /\ Rmdir(t) /\ Done(t) /\ UNCHANGED Disk

\* ------------------------------------------------------- completing a flow
Complete(t, f) ==
    /\ flow[f].inMap
    /\ Serve(t, "complete", "write", f, 0)
    /\ UNCHANGED <<flow, Disk>>

WriteCode(t) ==
    /\ At(t, "write")
    /\ \/ /\ Of(t).open /\ Goto(t, "poll")
          /\ flow' = [flow EXCEPT ![thread[t].flow].coded = TRUE]
       \/ ~Of(t).open /\ Goto(t, "kill") /\ UNCHANGED flow
    /\ UNCHANGED Disk

\* ProcessState is set by cmd.Wait, which nobody calls: the exit of the command
\* line is not seen here, only the credentials or the deadline.
FileThere(f) == flow[f].dir \in {"touched", "creds"}
Signed(f) == flow[f].dir = "creds"
Poll(t) ==
    /\ At(t, "poll")
    /\ \/ Signed(thread[t].flow) /\ Goto(t, "aside")
       \/ Goto(t, "kill")          \* 60 s, no home directory
    /\ UNCHANGED <<flow, Disk>>

\* What lay in the directory of a name is no longer what its flow put there: another sign-in or
\* a token has displaced it, or another Complete of the same flow has undone it.
Displaced(t, n) ==
    [f \in Flows |-> IF perm[n].of # f \/ flow[f].fate # "none" THEN flow[f]
                     ELSE [flow[f] EXCEPT !.fate = IF thread[t].flow = f THEN "undone" ELSE "displaced"]]

\* Renaming onto a directory moved aside in the same second fails, and is ignored.
MoveAside(t) ==
    /\ At(t, "aside")
    /\ LET n == Name(t) IN
         \/ /\ perm[n].held # "none"
            /\ perm' = [perm EXCEPT ![n] = NoDir] /\ aside' = aside \union {n}
            /\ flow' = Displaced(t, n)
         \/ /\ perm[n].held = "none" \/ n \in aside
            /\ UNCHANGED <<perm, aside, flow>>
    /\ Goto(t, "move")
    /\ UNCHANGED <<scenario, token, tokens, row>>

NextSecond == aside # {} /\ aside' = {} /\ UNCHANGED <<scenario, thread, flow, perm, token, tokens, row>>

Installed(t) == [perm EXCEPT ![Name(t)] = [of |-> thread[t].flow, held |-> Of(t).dir]]
Gone(t) == Of(t).moved \/ Of(t).dir = "none"
\* Renamed; onto another volume or a directory that is not empty, copied.
Move(t) ==
    /\ At(t, "move")
    /\ \/ /\ ~Gone(t) /\ perm[Name(t)].held \in {"none", "empty"}
          /\ perm' = Installed(t) /\ Goto(t, "insert")
          /\ flow' = [flow EXCEPT ![thread[t].flow].dir = "none", ![thread[t].flow].moved = TRUE]
       \/ Gone(t) /\ Goto(t, "kill") /\ UNCHANGED <<perm, flow>>
       \/ ~Gone(t) /\ Goto(t, "copy") /\ UNCHANGED <<perm, flow>>
    /\ UNCHANGED <<scenario, aside, token, tokens, row>>
Copy(t) ==
    /\ At(t, "copy")
    /\ \/ /\ ~Gone(t) /\ Goto(t, "copied")
          /\ perm' = Installed(t) /\ flow' = Displaced(t, Name(t))
       \/ /\ ~Gone(t) /\ Can("fault") /\ Goto(t, "kill")
          /\ perm' = [perm EXCEPT ![Name(t)] = [of |-> thread[t].flow, held |-> "empty"]]
          /\ flow' = Displaced(t, Name(t))
       \/ Gone(t) /\ Goto(t, "kill") /\ UNCHANGED <<perm, flow>>
    /\ UNCHANGED <<scenario, aside, token, tokens, row>>
Copied(t) ==
    /\ At(t, "copied")
    /\ flow' = [flow EXCEPT ![thread[t].flow].dir = "none", ![thread[t].flow].moved = TRUE]
    /\ Goto(t, "insert") /\ UNCHANGED Disk

Insert(t) ==
    /\ At(t, "insert") /\ thread[t].op = "complete"
    /\ \/ /\ row[Name(t)] = None
          /\ row' = [row EXCEPT ![Name(t)] =
                        [from |-> thread[t].flow, file |-> FALSE, enabled |-> TRUE, wanted |-> TRUE]]
       \/ (row[Name(t)] # None \/ Can("fault")) /\ UNCHANGED row     \* "credentials saved, but"
    /\ Goto(t, "forget")
    /\ UNCHANGED <<scenario, flow, perm, aside, token, tokens>>

Forget(t) ==
    /\ At(t, "forget")
    /\ flow' = [flow EXCEPT ![thread[t].flow].inMap = FALSE, ![thread[t].flow].cli = "dead",
                            ![thread[t].flow].open = FALSE]
    /\ Done(t) /\ UNCHANGED Disk

\* ------------------------------------------- the command line and the gateway
\* Given a code it makes the file of credentials and fills it; it may exit any time.
CLIWrites(f) ==
    /\ flow[f].cli = "runs" /\ flow[f].coded /\ flow[f].dir \in {"empty", "touched"}
    /\ flow' = [flow EXCEPT ![f].dir = IF @ = "empty" THEN "touched" ELSE "creds"]
    /\ UNCHANGED <<thread, Disk>>
CLIExits(f) ==
    /\ flow[f].cli = "runs"
    /\ flow' = [flow EXCEPT ![f].cli = "exited"]
    /\ UNCHANGED <<thread, Disk>>

\* The terminal of the command line goes with the gateway.
Restart ==
    /\ Can("restart")
    /\ \E t \in Threads : thread[t] # Idle
    /\ thread' = [t \in Threads |-> Idle]
    /\ flow' = [f \in Flows |-> IF flow[f] = Unborn THEN Unborn
                                ELSE [flow[f] EXCEPT !.inMap = FALSE, !.open = FALSE,
                                                     !.cli = "dead", !.fate = IF flow[f].moved THEN @ ELSE "lost"]]
    /\ UNCHANGED Disk

\* ----------------------------------------------------------- the accounts
TokenRow(enabled) == [from |-> None, file |-> TRUE, enabled |-> enabled, wanted |-> enabled]

\* The token is written before the row is inserted.
Create(t, n) ==
    /\ Serve(t, "create", "insert", None, n)
    /\ \/ tokens < MaxTokens /\ tokens' = tokens + 1 /\ token' = [token EXCEPT ![n] = tokens']
       \/ UNCHANGED <<tokens, token>>
    /\ UNCHANGED <<Accounts, row>>

Import(t) ==
    /\ At(t, "idle") /\ Can("import")
    /\ thread' = [thread EXCEPT ![t] = [Idle EXCEPT !.op = "import", !.pc = "scan",
                                                    !.todo = {n \in Names : token[n] # 0}]]
    /\ UNCHANGED <<Accounts, token, tokens, row>>
ImportNext(t) ==
    /\ At(t, "scan")
    /\ \/ thread[t].todo = {} /\ Done(t)
       \/ \E n \in thread[t].todo :
            /\ \A m \in thread[t].todo : n <= m
            /\ LET s == [thread[t] EXCEPT !.todo = @ \ {n}] IN
                 thread' = [thread EXCEPT ![t] =
                     IF row[n] = None THEN [s EXCEPT !.pc = "insert", !.name = n] ELSE s]
    /\ UNCHANGED <<Accounts, token, tokens, row>>

InsertToken(t) ==
    /\ At(t, "insert") /\ thread[t].op \in {"create", "import"}
    /\ LET n == thread[t].name IN
         \/ /\ row[n] = None
            /\ \E enabled \in IF thread[t].op = "create" THEN BOOLEAN ELSE {TRUE} :
                   row' = [row EXCEPT ![n] = TokenRow(enabled)]
         \/ row[n] # None /\ UNCHANGED row
    /\ IF thread[t].op = "create" THEN Done(t) ELSE Goto(t, "scan")
    /\ UNCHANGED <<Accounts, token, tokens>>

\* The whole row is read, the fields of the request replaced, the whole row written.
Update(t, n) ==
    /\ row[n] # None /\ At(t, "idle") /\ Can("update")
    /\ thread' = [thread EXCEPT ![t] = [Idle EXCEPT !.op = "update", !.pc = "store",
                                                    !.name = n, !.read = row[n]]]
    /\ UNCHANGED <<Accounts, token, tokens, row>>
StoreRow(t) ==
    /\ At(t, "store") /\ thread[t].op = "update" /\ Done(t)
    /\ LET n == thread[t].name IN
         row' = IF thread[t].read = None THEN row
                ELSE [row EXCEPT ![n].enabled = thread[t].read.enabled]
    /\ UNCHANGED <<Accounts, token, tokens>>

Toggle(n, enabled) ==
    /\ Can("toggle") /\ row[n] # None
    /\ row' = [row EXCEPT ![n].enabled = enabled, ![n].wanted = enabled]
    /\ UNCHANGED <<Accounts, thread, token, tokens>>
\* A request that has read the row finds none with its id.
Delete(n) ==
    /\ Can("delete") /\ row[n] # None
    /\ row' = [row EXCEPT ![n] = None]
    /\ thread' = [t \in Threads |-> IF thread[t].op = "update" /\ thread[t].name = n
                                     THEN [thread[t] EXCEPT !.read = None] ELSE thread[t]]
    /\ UNCHANGED <<Accounts, token, tokens>>

\* The token path of an account of a flow is the file of its credentials.
SetToken(t, n) ==
    /\ row[n] # None /\ At(t, "idle") /\ Can("token") /\ tokens < MaxTokens
    /\ thread' = [thread EXCEPT ![t] = [Idle EXCEPT !.op = "token", !.pc = "store",
                                                    !.name = n, !.read = row[n]]]
    /\ UNCHANGED <<Accounts, token, tokens, row>>
WriteToken(t) ==
    /\ At(t, "store") /\ thread[t].op = "token" /\ Done(t)
    /\ LET n == thread[t].name IN
         \/ /\ thread[t].read.file /\ tokens < MaxTokens
            /\ tokens' = tokens + 1 /\ token' = [token EXCEPT ![n] = tokens']
            /\ UNCHANGED <<perm, flow>>
         \/ /\ ~thread[t].read.file
            /\ perm' = [perm EXCEPT ![n] = [of |-> None, held |-> "creds"]]
            /\ flow' = Displaced(t, n) /\ UNCHANGED <<tokens, token>>
    /\ UNCHANGED <<scenario, aside, row>>

Serving(t) ==
    \/ \E f \in Flows : Start(t, f) \/ KillFlow(t, f) \/ Complete(t, f)
    \/ Spawn(t) \/ ReadURL(t) \/ Publish(t)
    \/ CleanupKill(t) \/ CleanupUnlink(t) \/ CleanupRmdir(t)
    \/ WriteCode(t) \/ Poll(t) \/ MoveAside(t) \/ Move(t) \/ Copy(t) \/ Copied(t)
    \/ Insert(t) \/ Forget(t)
    \/ \E n \in Names : Create(t, n) \/ Update(t, n) \/ SetToken(t, n)
    \/ Import(t) \/ ImportNext(t) \/ InsertToken(t) \/ StoreRow(t) \/ WriteToken(t)

Next == \/ \E t \in Threads : Serving(t)
        \/ \E f \in Flows : CLIWrites(f) \/ CLIExits(f)
        \/ \E n \in Names : Delete(n) \/ \E enabled \in BOOLEAN : Toggle(n, enabled)
        \/ NextSecond \/ Restart

Spec == Init /\ [][Next]_vars

\* A flow that nobody can reach any more has left neither a directory of credentials
\* nor a command line (claude_accounts_oauth.go:41-43), whichever handlers ended it and in which
\* order.  A restart of the gateway leaves the directories.
FlowLeavesNothing ==
    \A f \in Flows :
        /\ flow[f] # Unborn /\ ~flow[f].inMap /\ flow[f].fate # "lost"
        /\ \A t \in Threads : thread[t].flow # f
        => flow[f].dir = "none" /\ flow[f].cli = "dead"

\* An account registered by a flow has its credentials, complete, whatever ends the flow or the
\* gateway once they have been moved (claude_accounts_oauth.go:416-459).  The exceptions: the
\* flow was ended before; another sign-in or a token took their place; another Complete of the
\* same flow took their directory for that of a previous account (see RegisteredStays).
CredentialsKept ==
    \A n \in Names :
        row[n] # None /\ row[n].from # None /\ flow[row[n].from].fate = "none" =>
            perm[n] = [of |-> row[n].from, held |-> "creds"]

\* Refuted: what is moved aside is a previous account of the name, and the credentials just
\* registered are safe (claude_accounts_oauth.go:422-438).  A second Complete of a flow finds
\* those of the first, moves them aside, has nothing to put there, and fails.
RegisteredStays ==
    \A n \in Names : row[n] # None /\ row[n].from # None => flow[row[n].from].fate # "undone"

\* Refuted: at most so many flows at once (claude_accounts_oauth.go:61, 193-202).
CapHolds == Cardinality(Live) <= scenario.cap

\* Refuted: the map holds the active flows (claude_accounts_oauth.go:91).
InMapIsLive ==
    \A f \in Live : flow[f].cli # "dead" \/ \E t \in Threads : thread[t].flow = f

\* Refuted: a cancelled flow leaves no residue (claude_accounts_oauth.go:43).
CancelHolds == \A n \in Names :
    /\ row[n] # None /\ row[n].from # None => flow[row[n].from].fate # "killed"
    /\ perm[n].of # None => flow[perm[n].of].fate # "killed"

\* Refuted: two users signing in do not get each other's credentials (claude_accounts_oauth.go:41-43).
OwnCredentials == \A n \in Names :
    (row[n] # None /\ row[n].from # None) => perm[n].of \in {row[n].from, None}

\* Refuted: a request that is refused changes nothing (claude_accounts.go:127-145).
RefusedTokenNotKept ==
    [][\A n \in Names : row[n] # None /\ token'[n] # token[n] =>
           \E t \in Threads : thread[t].op = "token" /\ thread[t].name = n]_vars

\* Refuted: an account is enabled or not as it was last toggled (claude_accounts.go:149-204).
ToggleSticks == \A n \in Names : row[n] # None => row[n].enabled = row[n].wanted
=============================================================================
