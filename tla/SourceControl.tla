----------------------------- MODULE SourceControl -----------------------------
(***************************************************************************)
(* The source-control panel (gateway/sourcecontrol_*.go,                   *)
(* gateway/sourcecontrol): forges with their tokens and saved              *)
(* repositories, bookmarks, the baseline of a session in a repository, the *)
(* list of repositories and the diff.                                      *)
(*                                                                         *)
(* Every list is one row of plugin_kv which a request reads, changes and   *)
(* writes back.  A forge is its id, an entry of a list is its name.  Of    *)
(* what else a list says there is what an update gives a forge, its name,  *)
(* type and address.  Files of a repository are numbered edits.            *)
(***************************************************************************)
EXTENDS Naturals, FiniteSets

CONSTANTS
    Procs,          \* requests under way
    Forges,         \* ids newForgeID draws
    Repos,          \* repositories, and their paths
    Deep,           \* those a scan of the roots does not get to
    Sessions,
    MaxHead,        \* bound: commits of a repository
    MaxEdits,       \* bound: edits of a work tree
    Scenarios,      \* what a behaviour does, with which forges and repositories
    None

OnForges == {"create", "update", "delete"}
OnSaved == {"add", "remove", "bump"}
OnBookmarks == {"mark", "unmark"}
Operations == OnForges \union OnSaved \union OnBookmarks
              \union {"repos", "snapshot", "forget", "diff"}
SourceControlAssumption ==
    /\ Deep \subseteq Repos /\ MaxHead \in Nat /\ MaxEdits \in Nat
    /\ {"forges", "bookmarks"} \intersect Forges = {}
    /\ \A list \in (SUBSET Forges) \union (SUBSET Repos) : list # None     \* no row is not an empty one
    /\ \A s \in Scenarios : /\ s.does \subseteq Operations \union {"fault", "crash"}
                            /\ s.forges \subseteq Forges /\ s.repos \subseteq Repos

VARIABLES
    scenario,
    kv,             \* the rows of plugin_kv
    fields,         \* forges of the list that have what an update gave them
    drawn,          \* ids drawn
    tokens,         \* forges with a row of plugin_secret
    sessions,       \* the sessions that exist
    base,           \* the baselines, 0 without
    head,           \* HEAD of a repository, 0 before its first commit
    tree,           \* edits of its work tree
    git,            \* repositories that have their .git
    req,
    ideal,          \* the rows, had each change been made in one step
    agreed,         \* forges whose updates were answered with success, or have no token to write
    halfway,        \* forges an update has changed whose token it has not written
    contested,      \* rows written from a copy that another request could outdate
    raced           \* forges whose requests overlapped, failed or were cut off

vars == <<scenario, kv, fields, drawn, tokens, sessions, base, head, tree, git, req, ideal, agreed,
          halfway, contested, raced>>

Rows == {"forges", "bookmarks"} \union Forges
Idle == [pc |-> "idle", op |-> "repos", f |-> None, x |-> None, s |-> None, token |-> FALSE,
         list |-> {}, fields |-> {}, sha |-> 0, patch |-> 0, shown |-> {}, counts |-> 0,
         end |-> "none"]
TypeOK ==
    /\ scenario \in Scenarios
    /\ \A rows \in {kv, ideal} :
          /\ rows["forges"] \in (SUBSET Forges) \union {None} /\ rows["bookmarks"] \in (SUBSET Repos) \union {None}
          /\ \A f \in Forges : rows[f] \in (SUBSET Repos) \union {None}
    /\ {drawn, tokens, raced, fields, agreed, halfway} \subseteq SUBSET Forges /\ sessions \subseteq Sessions
    /\ contested \subseteq Rows /\ git \subseteq Repos
    /\ base \in [Sessions \X Repos -> 0..MaxHead] /\ head \in [Repos -> 0..MaxHead]
    /\ tree \in [Repos -> 0..MaxEdits]
    /\ \A p \in Procs : req[p].op \in Operations /\ req[p].end \in {"none", "ok", "refused"}

Init ==
    /\ scenario \in Scenarios
    /\ kv = [k \in Rows |-> None] /\ fields = {} /\ drawn = {} /\ tokens = {}
    /\ sessions = Sessions /\ base = [b \in Sessions \X Repos |-> 0]
    /\ head = [r \in Repos |-> 0] /\ tree = [r \in Repos |-> 0] /\ git = Repos
    /\ req = [p \in Procs |-> Idle]
    /\ ideal = kv /\ agreed = {} /\ halfway = {} /\ contested = {} /\ raced = {}

May(deed) == deed \in scenario.does
Row(q) == IF q.op \in OnForges THEN "forges" ELSE IF q.op \in OnSaved THEN q.f ELSE "bookmarks"
Decoded(row) == IF row = None THEN {} ELSE row
Set(p, q) == req' = [req EXCEPT ![p] = q]
At(p, pc) == req[p].pc = pc
To(p, pc) == Set(p, [req[p] EXCEPT !.pc = pc])
End(p, answer) == Set(p, [req[p] EXCEPT !.pc = "ended", !.end = answer, !.list = {},
                                         !.fields = {}])
Fails == May("fault")

World == <<scenario, sessions, base, head, tree, git>>
Fields == <<fields, agreed, halfway>>
Stores == <<kv, tokens, ideal, contested, raced, Fields>>

\* -------------------------------------------------------------- requests
Begin(p, op, f, x, s, token) ==
    /\ req[p].pc \in {"idle", "ended"} /\ op \in scenario.does \intersect Operations
    /\ op \in OnForges => (op = "create" <=> f \notin drawn)
    /\ Set(p, [Idle EXCEPT !.op = op, !.f = f, !.x = x, !.s = s, !.token = token,
               !.pc = CASE op \in OnSaved -> "look" [] op = "snapshot" -> "head"
                        [] op = "forget" -> "drop" [] op = "diff" -> "look" [] OTHER -> "load"])
    /\ drawn' = IF op = "create" THEN drawn \union {f} ELSE drawn
    /\ UNCHANGED <<World, Stores>>

\* forgeInstanceByID, and buildForgeConfig before a bump.
LookForge(p) ==
    /\ At(p, "look") /\ req[p].op \in OnSaved
    /\ IF req[p].f \in Decoded(kv["forges"]) THEN To(p, "load") ELSE End(p, "refused")
    /\ UNCHANGED <<World, drawn, Stores>>

\* What the request would make of its row.
Result(q, list) ==
    CASE q.op = "create" -> list \union {q.f}
      [] q.op = "delete" -> list \ {q.f}
      [] q.op \in {"add", "mark"} -> list \union {q.x}
      [] q.op \in {"remove", "unmark"} -> list \ {q.x}
      [] OTHER -> list
Missing(q, list) ==
    \/ q.op \in {"update", "delete"} /\ q.f \notin list
    \/ q.op \in {"remove", "bump", "unmark"} /\ q.x \notin list
\* An add of what is there has nothing to do, or a description to refresh.
Kept(q, list) == q.op \in {"add", "mark"} /\ q.x \in list
Proceed(p, list) ==
    LET q == req[p] IN
    \/ Missing(q, list) /\ End(p, IF q.op \in OnForges THEN "refused" ELSE "ok")
    \/ Kept(q, list) /\ End(p, "ok")
    \/ /\ ~Missing(q, list) /\ (Kept(q, list) => q.op = "add")
       /\ Set(p, [q EXCEPT !.pc = "save", !.list = list,
                           !.fields = IF q.op \in OnForges THEN fields ELSE {}])
Load(p) ==
    /\ At(p, "load") /\ req[p].op # "repos"
    /\ Proceed(p, Decoded(kv[Row(req[p])]))
    /\ UNCHANGED <<World, drawn, Stores>>
\* A row that cannot be read is taken for an empty one, but for the forges.
LoadFails(p) ==
    /\ At(p, "load") /\ req[p].op # "repos" /\ Fails
    /\ IF req[p].op \in OnForges
         THEN End(p, "refused") /\ UNCHANGED contested
         ELSE /\ Proceed(p, {})
              /\ contested' = contested \union (IF req'[p].pc = "save" THEN {Row(req[p])} ELSE {})
    /\ UNCHANGED <<World, drawn, kv, tokens, ideal, raced, Fields>>

\* Another request has a copy of row k to write.
Rival(p, k) == \E o \in Procs \ {p} : req[o].pc \in {"save", "token", "undo"} /\ Row(req[o]) = k
Put(p, k, list) ==
    /\ kv' = [kv EXCEPT ![k] = list]
    /\ contested' = IF Rival(p, k) THEN contested \union {k} ELSE contested
AfterSave(q) == IF q.op = "delete" THEN "droptoken" ELSE IF q.token THEN "token" ELSE "ended"
Continue(p) == LET next == AfterSave(req[p]) IN IF next = "ended" THEN End(p, "ok") ELSE To(p, next)
\* The forges a write of their list loses, and the forge whose list outlives it.
Strays(q, list) ==
    IF Row(q) = "forges" THEN (Decoded(kv["forges"]) \ list) \ {q.f}
    ELSE IF q.op \in OnSaved /\ q.f \notin Decoded(kv["forges"]) THEN {q.f} ELSE {}
\* What a request makes of what the list says of its forge.
Described(q, set) ==
    IF q.op = "update" THEN set \union {q.f} ELSE IF q.op = "delete" THEN set \ {q.f} ELSE set
\* An update saves the forge first and writes its token after that.
Unfinished(q) == q.op = "update" /\ q.token
SaveFields(q) ==
    /\ fields' = IF q.op \in OnForges THEN Described(q, q.fields) ELSE fields
    /\ agreed' = IF Unfinished(q) THEN agreed ELSE Described(q, agreed)
    /\ halfway' = IF Unfinished(q) THEN halfway \union {q.f}
                  ELSE IF q.op \in {"update", "delete"} THEN halfway \ {q.f} ELSE halfway
Save(p) ==
    LET q == req[p]   k == Row(q)   list == Result(q, q.list) IN
    /\ At(p, "save") /\ Put(p, k, list) /\ SaveFields(q) /\ Continue(p)
    /\ ideal' = [ideal EXCEPT ![k] = Result(q, Decoded(@))]
    /\ raced' = raced \union Strays(q, list)
    /\ UNCHANGED <<World, drawn, tokens>>
SaveFails(p) ==
    /\ At(p, "save") /\ Fails /\ End(p, IF req[p].op = "bump" THEN "ok" ELSE "refused")
    /\ UNCHANGED <<World, drawn, Stores>>

WriteToken(p) ==
    /\ At(p, "token") /\ End(p, "ok")
    /\ tokens' = tokens \union {req[p].f}
    /\ raced' = IF req[p].f \in Decoded(kv["forges"]) THEN raced ELSE raced \union {req[p].f}
    /\ IF Unfinished(req[p])
         THEN agreed' = agreed \union {req[p].f} /\ halfway' = halfway \ {req[p].f}
         ELSE UNCHANGED <<agreed, halfway>>
    /\ UNCHANGED <<World, drawn, kv, fields, ideal, contested>>
\* A new forge is taken back; what an update has saved stays, behind its error.
WriteTokenFails(p) ==
    /\ At(p, "token") /\ Fails
    /\ IF req[p].op = "create" THEN To(p, "undo") ELSE End(p, "refused")
    /\ UNCHANGED <<World, drawn, Stores>>
\* The list as it was read, without the new forge.
RolledBackNot(q) == q.list \union {q.f}
RolledBack(q) == q.list
Undo(p) ==
    LET q == req[p] IN
    /\ At(p, "undo") /\ Put(p, "forges", RolledBack(q)) /\ End(p, "refused")
    /\ ideal' = [ideal EXCEPT !["forges"] = Decoded(@) \ {q.f}]
    /\ raced' = raced \union (Decoded(kv["forges"]) \ q.list)
    /\ fields' = q.fields
    /\ UNCHANGED <<World, drawn, tokens, agreed, halfway>>
UndoFails(p) ==
    /\ At(p, "undo") /\ Fails /\ End(p, "refused")
    /\ UNCHANGED <<World, drawn, Stores>>

DropToken(p) ==
    /\ At(p, "droptoken") /\ To(p, "dropsaved")
    /\ \/ tokens' = tokens \ {req[p].f} /\ UNCHANGED raced
       \/ Fails /\ UNCHANGED tokens /\ raced' = raced \union {req[p].f}
    /\ UNCHANGED <<World, drawn, kv, ideal, contested, Fields>>
DropSaved(p) ==
    /\ At(p, "dropsaved") /\ End(p, "ok")
    /\ \/ /\ Put(p, req[p].f, None) /\ ideal' = [ideal EXCEPT ![req[p].f] = None]
          /\ UNCHANGED raced
       \/ Fails /\ UNCHANGED <<kv, ideal, contested>> /\ raced' = raced \union {req[p].f}
    /\ UNCHANGED <<World, drawn, tokens, Fields>>

\* DiscoverRepos: what the scan finds, and the bookmarks that have a .git.
Discover(p) ==
    /\ At(p, "load") /\ req[p].op = "repos"
    /\ \E list \in {Decoded(kv["bookmarks"])} \union {s \in {{}} : Fails} :
         Set(p, [req[p] EXCEPT !.pc = "ended", !.end = "ok", !.list = list,
                 !.shown = (git \ Deep) \union (git \intersect list)])
    /\ UNCHANGED <<World, drawn, Stores>>

\* -------------------------------------------------- baselines and the diff
ReadHead(p) ==
    /\ At(p, "head")
    /\ LET sha == head[req[p].x] IN
         IF req[p].x \in git /\ sha # 0 THEN Set(p, [req[p] EXCEPT !.pc = "upsert", !.sha = sha])
                                        ELSE End(p, "refused")
    /\ UNCHANGED <<World, drawn, Stores>>
\* The session of a baseline is a foreign key.
Upsert(p) ==
    LET q == req[p] IN
    /\ At(p, "upsert")
    /\ IF q.s \in sessions THEN base' = [base EXCEPT ![<<q.s, q.x>>] = q.sha] /\ End(p, "ok")
                           ELSE UNCHANGED base /\ End(p, "refused")
    /\ UNCHANGED <<scenario, sessions, head, tree, git, drawn, Stores>>
Forget(p) ==
    /\ At(p, "drop") /\ base' = [base EXCEPT ![<<req[p].s, req[p].x>>] = 0] /\ End(p, "ok")
    /\ UNCHANGED <<scenario, sessions, head, tree, git, drawn, Stores>>
LookBaseline(p) ==
    LET q == req[p] IN
    /\ At(p, "look") /\ q.op = "diff"
    /\ IF base[<<q.s, q.x>>] = 0 THEN End(p, "refused")
       ELSE Set(p, [q EXCEPT !.pc = "patch", !.sha = base[<<q.s, q.x>>]])
    /\ UNCHANGED <<World, drawn, Stores>>
\* Two runs of git: the patch, then the counts.
Difference(q) == (head[q.x] - q.sha) + tree[q.x]
Patch(p) ==
    /\ At(p, "patch")
    /\ IF req[p].x \in git THEN Set(p, [req[p] EXCEPT !.pc = "numstat", !.patch = Difference(req[p])])
                           ELSE End(p, "refused")
    /\ UNCHANGED <<World, drawn, Stores>>
Numstat(p) ==
    /\ At(p, "numstat")
    /\ IF req[p].x \in git
         THEN Set(p, [req[p] EXCEPT !.pc = "ended", !.end = "ok", !.counts = Difference(req[p])])
         ELSE End(p, "refused")
    /\ UNCHANGED <<World, drawn, Stores>>

\* ------------------------------------------------------------ surroundings
DeleteSession(s) ==
    /\ May("snapshot") /\ s \in sessions
    /\ sessions' = sessions \ {s} /\ base' = [b \in Sessions \X Repos |-> IF b[1] = s THEN 0 ELSE base[b]]
    /\ UNCHANGED <<scenario, head, tree, git, req, drawn, Stores>>
Commit(r) ==
    /\ May("snapshot") /\ r \in git /\ head[r] < MaxHead
    /\ head' = [head EXCEPT ![r] = @ + 1]
    /\ UNCHANGED <<scenario, sessions, base, tree, git, req, drawn, Stores>>
Edit(r) ==
    /\ May("diff") /\ tree[r] < MaxEdits /\ tree' = [tree EXCEPT ![r] = @ + 1]
    /\ UNCHANGED <<scenario, sessions, base, head, git, req, drawn, Stores>>
Vanish(r) ==
    /\ May("repos") /\ r \in git /\ git' = git \ {r}
    /\ UNCHANGED <<scenario, sessions, base, head, tree, req, drawn, Stores>>
Crash ==
    /\ May("crash") /\ req' = [p \in Procs |-> Idle]
    /\ raced' = raced \union {req[p].f : p \in {o \in Procs : req[o].pc \in {"droptoken", "dropsaved"}}}
    /\ UNCHANGED <<World, drawn, kv, tokens, ideal, contested, Fields>>

Request(p) ==
    \/ \E op \in scenario.does \intersect OnForges, f \in scenario.forges, token \in BOOLEAN :
          Begin(p, op, f, None, None, token /\ op # "delete")
    \/ \E op \in scenario.does \intersect OnSaved, f \in drawn, x \in scenario.repos : Begin(p, op, f, x, None, FALSE)
    \/ \E op \in scenario.does \intersect OnBookmarks, x \in scenario.repos : Begin(p, op, None, x, None, FALSE)
    \/ May("repos") /\ Begin(p, "repos", None, None, None, FALSE)
    \/ \E op \in scenario.does \intersect {"snapshot", "forget", "diff"}, x \in scenario.repos, s \in Sessions :
          Begin(p, op, None, x, s, FALSE)
Next ==
    \/ \E p \in Procs :
          \/ Request(p) \/ LookForge(p) \/ Load(p) \/ LoadFails(p) \/ Save(p) \/ SaveFails(p)
          \/ WriteToken(p) \/ WriteTokenFails(p) \/ Undo(p) \/ UndoFails(p) \/ DropToken(p)
          \/ DropSaved(p) \/ Discover(p) \/ ReadHead(p) \/ Upsert(p) \/ Forget(p)
          \/ LookBaseline(p) \/ Patch(p) \/ Numstat(p)
    \/ \E s \in Sessions : DeleteSession(s)
    \/ \E r \in scenario.repos : Commit(r) \/ Edit(r) \/ Vanish(r)
    \/ Crash

Spec == Init /\ [][Next]_vars

\* ---------------------------------------------------------------- properties
\* A row is what the requests, made one at a time, would have left in it, those answered
\* with an error having changed nothing, unless two requests overlapped on it or a read of
\* it failed (sourcecontrol_handlers.go:107-172, sourcecontrol_saved_repos.go:86-240,
\* sourcecontrol_forges.go:217-379).  Two errors are no such promise: a rollback that fails
\* (or a crash before it) leaves a new forge listed, and an update that cannot write its
\* token has saved name, type and address before it answers 500 and takes nothing back
\* (sourcecontrol_forges.go:329-340), until an update of that forge goes through.
RowsExact ==
    /\ \A k \in Rows \ contested : kv[k] = ideal[k]
    /\ "forges" \notin contested => fields \ halfway = agreed \ halfway

\* A token or a saved list without its forge is one its deletion still has to remove, or
\* comes of requests that overlapped, failed or were cut off (sourcecontrol_forges.go:370-378).
NoStrays ==
    \A f \in Forges : f \in tokens \/ kv[f] # None =>
        \/ f \in Decoded(kv["forges"]) \union raced
        \/ \E p \in Procs : req[p].pc \in {"droptoken", "dropsaved"} /\ req[p].f = f

\* Refuted: a list loses nothing that was added and not removed
\* (sourcecontrol_handlers.go:107, sourcecontrol_saved_repos.go:177 "Idempotent add").
NothingLost == \A k \in Rows : Decoded(ideal[k]) \subseteq Decoded(kv[k])

\* Refuted: the deletion of a forge leaves no row behind
\* (sourcecontrol_forges.go:375-376 "so orphan rows don't linger").
NoOrphans == (\A p \in Procs : req[p].pc \in {"idle", "ended"})
             => \A f \in Forges : f \in tokens \/ kv[f] # None => f \in Decoded(kv["forges"])

\* Refuted: a bookmark that has become invalid is still returned (scan.go:53-56).
InvalidListed == \A p \in Procs : req[p].op = "repos" => req[p].list \subseteq req[p].shown

\* Refuted: the counts are those of the patch (multidiff.go:75-76 "zipped together").
CountsOfPatch == \A p \in Procs : req[p].op = "diff" /\ req[p].end = "ok"
                                  => req[p].counts = req[p].patch
=============================================================================
