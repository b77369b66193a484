--------------------------- MODULE PluginLifecycle ---------------------------
(***************************************************************************)
(* The life of one plugin name: staged and confirmed installs              *)
(* (plugin/install), the runtime's map and contributions (plugin/runtime), *)
(* the rows, the tombstone and the bundle directories that survive a       *)
(* restart, LoadAll, the restore of a built-in, and the revocation poller  *)
(* (plugin/market).                                                        *)
(*                                                                         *)
(* A request works in steps, each a query, a rename or a critical section  *)
(* of the runtime, that interleave with those of other requests; a query   *)
(* or a rename may fail, and the gateway may die between any two steps.    *)
(* A request that is refused before it has changed anything is no step.    *)
(***************************************************************************)
EXTENDS Naturals, FiniteSets

CONSTANTS
    Tokens,         \* staged installs, each of a bundle of this name
    VersionOf,      \* the version of each bundle
    Reqs,           \* request goroutines, the poller's included
    Builtin,        \* whether the binary embeds a manifest of this name
    Required,       \* whether that manifest says required
    Revoked,        \* the sources on the revocation list
    MaxRequests,    \* bound: requests served
    MaxFaults,      \* bound: queries and renames that fail
    MaxCrashes,     \* bound: restarts
    None

\* Where a manifest comes from: a bundle, the binary, or POST /api/providers.
Sources  == Tokens \cup {"builtin", "posted"}
Versions == {VersionOf[t] : t \in Tokens}

ASSUME LifecycleAssumption ==
    /\ Builtin \in BOOLEAN /\ Required \in BOOLEAN /\ Revoked \subseteq Sources
    /\ MaxRequests \in Nat /\ MaxFaults \in Nat /\ MaxCrashes \in Nat
    /\ None \notin Sources \cup [from : Sources, enabled : BOOLEAN]
    /\ Tokens \cap {"builtin", "posted"} = {}

VARIABLES
    row,        \* the row in plugins: its manifest and the enabled flag
    grant,      \* the row in plugin_consents: the bundle it was given to
    tomb,       \* the row in plugin_tombstone
    dir,        \* DataDir/name/version: the bundle that is there
    staged,     \* bundles in a staging directory
    up,         \* the gateway runs
    mem,        \* Runtime.providers
    contrib,    \* the contributions registry
    pending,    \* pendingStore.byToken
    expired,    \* tokens past their time
    tx,         \* the request whose transaction holds the locks of the rows
    req,        \* the requests
    served, faults, crashes,
    said,       \* history: what the last request answered, if that is clear
    blind,      \* history: LoadAll could not read the rows, and no request came since
    lost,       \* history: staged bundles forgotten by an expiry or a restart
    mixed       \* history: tokens whose Confirm overlapped another request

durable == <<row, grant, tomb, dir, staged>>
process == <<mem, contrib, pending, tx>>
vars == <<durable, process, up, expired, req, served, faults, crashes, said, blind, lost, mixed>>

Live(x, e) == [from |-> x, enabled |-> e]
Lives      == [from : Sources, enabled : BOOLEAN] \cup {None}
Idle       == [op |-> "none", pc |-> "idle", tok |-> None, man |-> None,
               on |-> FALSE, alone |-> FALSE]

TypeOK ==
    /\ row \in Lives /\ mem \in Lives
    /\ grant \in Tokens \cup {None} /\ contrib \in Sources \cup {None}
    /\ tomb \in BOOLEAN /\ up \in BOOLEAN
    /\ dir \in [Versions -> Tokens \cup {None}]
    /\ staged \subseteq Tokens /\ pending \subseteq Tokens /\ expired \subseteq Tokens
    /\ tx \in Reqs \cup {None}
    /\ req \in [Reqs -> [op : {"none", "confirm", "uninstall", "remove", "restore", "toggle", "post"},
                         pc : {"idle", "begin", "trash", "move", "commit", "upsert", "load", "delete",
                               "purge", "bury", "clear", "flag"},
                         tok : Tokens \cup {None}, man : Sources \cup {None}, on : BOOLEAN, alone : BOOLEAN]]
    /\ served \in 0..MaxRequests /\ faults \in 0..MaxFaults /\ crashes \in 0..MaxCrashes
    /\ said \in {"unclear", "uninstalled", "enabled", "disabled", "reseeded"} /\ blind \in BOOLEAN
    /\ lost \subseteq Tokens /\ mixed \subseteq Tokens

Init ==
    /\ row = None /\ grant = None /\ tomb = FALSE
    /\ dir = [v \in Versions |-> None] /\ staged = {}
    /\ up = FALSE
    /\ mem = None /\ contrib = None /\ pending = {} /\ tx = None
    /\ expired = {}
    /\ req = [r \in Reqs |-> Idle]
    /\ served = 0 /\ faults = 0 /\ crashes = 0
    /\ said = "unclear" /\ blind = FALSE /\ lost = {} /\ mixed = {}

-----------------------------------------------------------------------------
(* Requests.                                                                *)

Active     == {r \in Reqs : req[r] # Idle}
At(r, pc)  == req[r].pc = pc
Go(r, pc)  == req' = [req EXCEPT ![r].pc = pc]
Counters   == <<served, faults, crashes>>
History    == <<said, blind, lost, mixed>>

\* A request that has passed its first checks.  Those under way overlap it.  One
\* that changes a part only is clear if the state it starts from is.
Begin(r, op, pc, t, on) ==
    /\ up /\ req[r] = Idle /\ served < MaxRequests
    /\ served' = served + 1
    /\ req' = [q \in Reqs |->
                 IF q = r THEN [op |-> op, pc |-> pc, tok |-> t, man |-> None, on |-> on,
                                 alone |-> Active = {} /\ (op \in {"toggle", "remove"} => said # "unclear")]
                 ELSE [req[q] EXCEPT !.alone = FALSE]]
    /\ said' = "unclear" /\ blind' = FALSE
    /\ mixed' = mixed \cup (IF Active = {} THEN {}
                            ELSE ({t} \cup {req[q].tok : q \in Active}) \ {None})
    /\ UNCHANGED <<faults, crashes, lost>>

\* It answers: the plugin is now as the outcome says.
Answer(r, outcome) ==
    /\ req' = [req EXCEPT ![r] = Idle]
    /\ said' = IF req[r].alone THEN outcome ELSE "unclear"
    /\ UNCHANGED <<blind, lost, mixed>>

\* It answers with an error.
Refuse(r) ==
    /\ req' = [req EXCEPT ![r] = Idle]
    /\ UNCHANGED History

\* A query or a rename fails.
Fault == faults < MaxFaults /\ faults' = faults + 1 /\ UNCHANGED <<served, crashes>>
NoFault == UNCHANGED Counters

\* The rows of the plugin are locked by a transaction that has written them.
RowLocked  == tx # None /\ row # None
TombLocked == tx # None /\ tomb

-----------------------------------------------------------------------------
(* Installing.                                                              *)

\* Stage fetches the bundle into a staging directory and keeps a token.
Stage(t) ==
    /\ up /\ t \notin staged \cup pending \cup expired \cup lost
    /\ \A r \in Reqs : req[r].tok # t
    /\ \A v \in Versions : dir[v] # t
    /\ staged' = staged \cup {t} /\ pending' = pending \cup {t}
    /\ UNCHANGED <<row, grant, tomb, dir, up, mem, contrib, tx, expired, req, Counters, History>>

\* Time passes: ten minutes after Stage.
Expire(t) ==
    /\ t \in pending \ expired
    /\ expired' = expired \cup {t}
    /\ UNCHANGED <<durable, process, up, req, Counters, History>>

\* The janitor reaps an expired token and removes its staging directory.
Reap(t) ==
    /\ up /\ t \in pending \cap expired
    /\ pending' = pending \ {t} /\ staged' = staged \ {t}
    /\ UNCHANGED <<row, grant, tomb, dir, up, mem, contrib, tx, expired, req, Counters, History>>

\* Confirm of an expired token: take forgets it, the directory stays.
TakeExpired(t) ==
    /\ up /\ t \in pending \cap expired
    /\ pending' = pending \ {t} /\ lost' = lost \cup {t}
    /\ UNCHANGED <<durable, up, mem, contrib, tx, expired, req, Counters, said, blind, mixed>>

\* Confirm takes its token and reads the staged manifest.
Take(r, t) ==
    /\ t \in pending \ expired /\ t \in staged
    /\ Begin(r, "confirm", "begin", t, TRUE)
    /\ pending' = pending \ {t}
    /\ UNCHANGED <<durable, up, mem, contrib, tx, expired>>

\* Mutant of GiveUp: the token is not put back.
GiveUpForgets(r) ==
    /\ Refuse(r)
    /\ tx' = IF tx = r THEN None ELSE tx
    /\ UNCHANGED pending

\* Confirm fails: the transaction is rolled back and the token put back.
GiveUp(r) ==
    /\ Refuse(r)
    /\ tx' = IF tx = r THEN None ELSE tx
    /\ pending' = pending \cup {req[r].tok}

\* The transaction clears the tombstone and writes both rows, unseen by others
\* until it commits.
WriteRows(r) ==
    /\ At(r, "begin")
    /\ \/ /\ tx = None
          /\ tx' = r /\ Go(r, "trash")
          /\ NoFault /\ UNCHANGED <<pending, History>>
       \/ Fault /\ GiveUp(r)
    /\ UNCHANGED <<durable, up, mem, contrib, expired>>

Home(r) == VersionOf[req[r].tok]

\* A directory that is in the way goes to .trash.
Trash(r) ==
    /\ At(r, "trash")
    /\ \/ /\ dir' = [dir EXCEPT ![Home(r)] = None]
          /\ Go(r, "move")
          /\ NoFault /\ UNCHANGED <<pending, tx, History>>
       \/ Fault /\ GiveUp(r) /\ UNCHANGED dir
    /\ UNCHANGED <<row, grant, tomb, staged, up, mem, contrib, expired>>

\* The staged directory is renamed to its home.
Move(r) ==
    /\ At(r, "move")
    /\ \/ /\ dir' = [dir EXCEPT ![Home(r)] = req[r].tok]
          /\ staged' = staged \ {req[r].tok}
          /\ Go(r, "commit")
          /\ NoFault /\ UNCHANGED <<pending, tx, History>>
       \/ Fault /\ GiveUp(r) /\ UNCHANGED <<dir, staged>>
    /\ UNCHANGED <<row, grant, tomb, up, mem, contrib, expired>>

\* Mutant of Commit: a consent row that is there is kept.
CommitKeepsGrant(r) ==
    /\ At(r, "commit")
    /\ row' = Live(req[r].tok, TRUE) /\ tomb' = FALSE
    /\ grant' = IF grant = None THEN req[r].tok ELSE grant
    /\ tx' = None
    /\ Go(r, "upsert")
    /\ NoFault /\ UNCHANGED <<dir, staged, pending, History>>
    /\ UNCHANGED <<up, mem, contrib, expired>>

\* The transaction commits; when it fails the directory is renamed back, if it
\* is still there.
Commit(r) ==
    /\ At(r, "commit")
    /\ \/ /\ row' = Live(req[r].tok, TRUE) /\ grant' = req[r].tok /\ tomb' = FALSE
          /\ tx' = None
          /\ Go(r, "upsert")
          /\ NoFault /\ UNCHANGED <<dir, staged, pending, History>>
       \/ /\ Fault /\ GiveUp(r)
          /\ IF dir[Home(r)] = req[r].tok
               THEN /\ dir' = [dir EXCEPT ![Home(r)] = None]
                    /\ staged' = staged \cup {req[r].tok}
               ELSE UNCHANGED <<dir, staged>>
          /\ UNCHANGED <<row, grant, tomb>>
    /\ UNCHANGED <<up, mem, contrib, expired>>

\* The manifest that a request registers: Confirm reloads that of its home.
Manifest(r) ==
    CASE req[r].op = "confirm" -> dir[Home(r)]
      [] req[r].op = "restore" -> "builtin"
      [] OTHER                 -> "posted"

Outcome(r) ==
    IF req[r].op \in {"confirm", "restore", "post"} THEN "enabled"
    ELSE IF req[r].op = "toggle" THEN IF req[r].on THEN "enabled" ELSE "disabled"
    ELSE IF req[r].op = "uninstall" \/ ~Builtin THEN "uninstalled" ELSE "unclear"

\* Runtime.Register and seed upsert the row.  A Confirm whose manifest cannot
\* be reloaded, or whose upsert fails, has been committed and answers all the same.
Upsert(r) ==
    /\ At(r, "upsert")
    /\ \/ /\ Manifest(r) # None /\ tx = None
          /\ row' = Live(Manifest(r), TRUE)
          /\ req' = [req EXCEPT ![r].pc = "load", ![r].man = Manifest(r)] /\ NoFault /\ UNCHANGED History
       \/ /\ Manifest(r) = None
          /\ Answer(r, "unclear") /\ NoFault /\ UNCHANGED row
       \/ /\ Fault
          /\ IF req[r].op = "confirm" THEN Answer(r, "unclear") ELSE Refuse(r)
          /\ UNCHANGED row
    /\ UNCHANGED <<grant, tomb, dir, staged, up, process, expired>>

\* loadIntoMemory: the map and the contributions.
Load(r) ==
    /\ At(r, "load")
    /\ mem' = Live(req[r].man, TRUE) /\ contrib' = req[r].man
    /\ Answer(r, Outcome(r)) /\ NoFault
    /\ UNCHANGED <<durable, up, pending, tx, expired>>

-----------------------------------------------------------------------------
(* Removing.                                                                *)

\* Runtime.Remove takes the plugin off the map, unless it is required.
\* Uninstall goes on without it, an unknown plugin included.
RemoveLive(r, op) ==
    LET can == mem # None /\ ~(Required /\ mem.from = "builtin") IN
    /\ op = "remove" => can
    /\ Begin(r, op, IF can THEN "delete" ELSE "purge", None, FALSE)
    /\ mem' = IF can THEN None ELSE mem
    /\ UNCHANGED <<durable, up, contrib, pending, tx, expired>>

\* It deletes the row (the consent row goes with it) and then the contributions;
\* of an Uninstall a failure is ignored.
DeleteRow(r) ==
    /\ At(r, "delete")
    /\ \/ /\ ~RowLocked
          /\ row' = None /\ grant' = None /\ contrib' = None
          /\ IF req[r].op = "remove" THEN Answer(r, Outcome(r)) ELSE Go(r, "purge") /\ UNCHANGED History
          /\ NoFault
       \/ /\ Fault
          /\ IF req[r].op = "remove" THEN Refuse(r) ELSE Go(r, "purge") /\ UNCHANGED History
          /\ UNCHANGED <<row, grant, contrib>>
    /\ UNCHANGED <<tomb, dir, staged, up, mem, pending, tx, expired>>

\* Uninstall deletes the consent and the row,
Purge(r) ==
    /\ At(r, "purge")
    /\ \/ /\ ~RowLocked
          /\ row' = None /\ grant' = None
          /\ Go(r, "bury") /\ NoFault /\ UNCHANGED History
       \/ Fault /\ Refuse(r) /\ UNCHANGED <<row, grant>>
    /\ UNCHANGED <<tomb, dir, staged, up, process, expired>>

\* adds the tombstone, and removes the directories of every version.
Bury(r) ==
    /\ At(r, "bury")
    /\ \/ /\ ~TombLocked
          /\ tomb' = TRUE
          /\ Go(r, "clear") /\ NoFault /\ UNCHANGED History
       \/ Fault /\ Refuse(r) /\ UNCHANGED tomb
    /\ UNCHANGED <<row, grant, dir, staged, up, process, expired>>

ClearDirs(r) ==
    /\ At(r, "clear") /\ req[r].op = "uninstall"
    /\ dir' = [v \in Versions |-> None]
    /\ Answer(r, Outcome(r)) /\ NoFault
    /\ UNCHANGED <<row, grant, tomb, staged, up, process, expired>>

-----------------------------------------------------------------------------
(* Restoring, posting, enabling.                                            *)

\* RestoreBuiltin finds the built-in not loaded, and clears its tombstone.
Restore(r) ==
    /\ Builtin /\ mem = None
    /\ Begin(r, "restore", "clear", None, TRUE)
    /\ UNCHANGED <<durable, up, process, expired>>

ClearTomb(r) ==
    /\ At(r, "clear") /\ req[r].op = "restore"
    /\ \/ /\ ~TombLocked
          /\ tomb' = FALSE
          /\ Go(r, "upsert") /\ NoFault /\ UNCHANGED History
       \/ Fault /\ Refuse(r) /\ UNCHANGED tomb
    /\ UNCHANGED <<row, grant, dir, staged, up, process, expired>>

\* registerProvider.
Post(r) ==
    /\ Begin(r, "post", "upsert", None, TRUE)
    /\ UNCHANGED <<durable, up, process, expired>>

\* SetEnabled sets the flag in memory,
Toggle(r, on) ==
    /\ mem # None
    /\ on \/ ~(Required /\ mem.from = "builtin")
    /\ Begin(r, "toggle", "flag", None, on)
    /\ mem' = [mem EXCEPT !.enabled = on]
    /\ UNCHANGED <<durable, up, contrib, pending, tx, expired>>

\* then in the row, if there is one.
WriteFlag(r) ==
    /\ At(r, "flag")
    /\ \/ /\ ~RowLocked
          /\ row' = IF row = None THEN None ELSE [row EXCEPT !.enabled = req[r].on]
          /\ Answer(r, Outcome(r)) /\ NoFault
       \/ Fault /\ Refuse(r) /\ UNCHANGED row
    /\ UNCHANGED <<grant, tomb, dir, staged, up, process, expired>>

\* The poller finds a loaded plugin on the list and uninstalls or disables it,
\* by name; what it does is a request like any other.
Sweep(r) ==
    /\ mem # None /\ mem.from \in Revoked
    /\ RemoveLive(r, "uninstall") \/ Toggle(r, FALSE)

-----------------------------------------------------------------------------
(* Restarts.                                                                *)

\* The gateway dies: memory, tokens and the open transaction are gone.
Crash ==
    /\ up /\ crashes < MaxCrashes
    /\ up' = FALSE /\ crashes' = crashes + 1
    /\ mem' = None /\ contrib' = None /\ pending' = {} /\ tx' = None
    /\ req' = [r \in Reqs |-> Idle]
    /\ said' = IF Active = {} THEN said ELSE "unclear"
    /\ lost' = lost \cup staged /\ blind' = FALSE
    /\ UNCHANGED <<durable, expired, served, faults, mixed>>

\* Mutant of Boot: the sync of a built-in writes the whole row.
BootEnables ==
    /\ ~up /\ up' = TRUE
    /\ IF row # None
         THEN /\ row' = IF Builtin THEN Live("builtin", TRUE) ELSE row
              /\ mem' = row' /\ contrib' = row.from
         ELSE IF Builtin /\ ~tomb
         THEN row' = Live("builtin", TRUE) /\ mem' = row' /\ contrib' = "builtin"
         ELSE UNCHANGED <<row, mem, contrib>>
    /\ UNCHANGED <<grant, tomb, dir, staged, pending, tx, expired, req, Counters, History>>

\* LoadAll, of which no failure keeps the gateway from serving.  It loads the row
\* and brings the manifest of a built-in up to date, in the row and in the map but
\* not among the contributions.  A built-in without a row is seeded unless it is
\* buried: without the list of tombstones, nothing is.
Boot ==
    /\ ~up /\ up' = TRUE
    /\ \/ /\ Fault                        \* the rows cannot be read
          /\ blind' = TRUE
          /\ UNCHANGED <<row, mem, contrib, said>>
       \/ /\ row # None
          /\ \/ NoFault /\ row' = IF Builtin THEN [row EXCEPT !.from = "builtin"] ELSE row
             \/ Fault /\ row' = row        \* no sync
          /\ mem' = row' /\ contrib' = row.from
          /\ UNCHANGED <<said, blind>>
       \/ /\ row = None /\ Builtin
          /\ IF tomb THEN Fault ELSE NoFault
          /\ row' = Live("builtin", TRUE) /\ mem' = row' /\ contrib' = "builtin"
          /\ said' = IF said = "uninstalled" THEN "reseeded" ELSE said
          /\ UNCHANGED blind
       \/ /\ row = None
          /\ IF Builtin /\ ~tomb THEN Fault ELSE NoFault
          /\ UNCHANGED <<row, mem, contrib, said, blind>>
    /\ UNCHANGED <<grant, tomb, dir, staged, pending, tx, expired, req, lost, mixed>>

-----------------------------------------------------------------------------

Serve(r) ==
    \/ WriteRows(r) \/ Trash(r) \/ Move(r) \/ Commit(r) \/ Upsert(r) \/ Load(r)
    \/ DeleteRow(r) \/ Purge(r) \/ Bury(r) \/ ClearDirs(r) \/ ClearTomb(r) \/ WriteFlag(r)

Next ==
    \/ \E t \in Tokens : Stage(t) \/ Expire(t) \/ Reap(t) \/ TakeExpired(t)
    \/ \E r \in Reqs :
          \/ Serve(r) \/ Restore(r) \/ Post(r) \/ Sweep(r)
          \/ \E t \in Tokens : Take(r, t)
          \/ \E op \in {"uninstall", "remove"} : RemoveLive(r, op)
          \/ \E on \in BOOLEAN : Toggle(r, on)
    \/ Crash \/ Boot

Spec == Init /\ [][Next]_vars

-----------------------------------------------------------------------------
(* Properties.                                                              *)

\* What a request has answered holds, through restarts, until the next request:
\* an uninstalled plugin stays away and is not seeded again, an installed or
\* restored one is back, a disabled one is disabled (install.go:432-447,
\* runtime.go:141-232, queries.go:158-166).  Two failures of LoadAll are excepted:
\* without the list of tombstones an uninstalled built-in is seeded, and then is
\* there, enabled (runtime.go:148-156); without the rows nothing is loaded, but
\* the row stays as it was (runtime.go:142-145, main.go:310-312).
AcknowledgedHolds ==
    up /\ Active = {} /\ said # "unclear" /\ ~Required =>
        IF said = "uninstalled"
          THEN row = None /\ mem = None
          ELSE /\ row # None /\ row.enabled = (said # "disabled")
               /\ ~blind => mem # None /\ contrib # None /\ mem.enabled = row.enabled

\* A token that can be confirmed has its bundle: a failed Confirm can be tried
\* again, unless another request came in between (install.go:236-243).
PendingHasBundle == pending \subseteq staged \cup mixed

\* A staging directory is known to the store or in the hands of a Confirm, but
\* for those that an expired Confirm or a restart left behind (install.go:456-475).
StagedAccounted ==
    \A t \in staged \ lost : t \in pending \/ \E r \in Reqs : req[r].tok = t

\* A bundle and its token go together (consent.go:36-80, install.go:236-243, 456-475).
StagingAccounted == PendingHasBundle /\ StagedAccounted

\* The rows of a Confirm are written together: no plugin has the consent of a
\* bundle without a row, and what is loaded and at rest was granted to the bundle
\* it was loaded from (install.go:286-337).
GrantMatches ==
    /\ grant # None => row # None
    /\ up /\ Active = {} /\ mem # None /\ mem.from \in Tokens /\ said # "unclear" => grant = mem.from

\* "either the DB rows + filesystem move + in-memory registration all happen, or
\* none of them do" (install.go:226-229).  Refuted: when the rename fails, or the
\* gateway dies, the directory that was in the way stays in .trash.
AllOrNothing ==
    \A t \in Tokens : grant = t /\ Active = {} /\ mixed = {} => dir[VersionOf[t]] = t

=============================================================================
