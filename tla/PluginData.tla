----------------------------- MODULE PluginData -----------------------------
(***************************************************************************)
(* What the gateway stores for a plugin, and the password it depends on:   *)
(* encrypted secrets (plugin/bridge/api_secret, kernel/store/plugin_secret)*)
(* and the key-value rows with their quota (plugin_kv), the Configure form *)
(* that writes both and restarts the sidecar (gateway/plugins_config), and *)
(* the admin credentials, whose bcrypt hash derives the key that wraps     *)
(* every data key (kernel/auth): their rotation, the bootstrap at start    *)
(* and the wizard.                                                         *)
(*                                                                         *)
(* Each step is one statement of the database, which is atomic, or one     *)
(* step of the rotation's transaction, which holds row locks.  A hash and  *)
(* a data key are numbers, never drawn twice; a wrapped key is the pair of *)
(* the data key and the hash that wraps it, and opens under no other hash. *)
(* The key id (kid) is stored with the wrapped key and read with it.       *)
(***************************************************************************)
EXTENDS Naturals, FiniteSets

CONSTANTS
    Plugins,
    Keys,           \* keys of a plugin, in both stores
    Procs,          \* goroutines that serve a plugin's call or a Configure form
    Rotators,       \* goroutines that serve POST /api/auth/credentials
    Scenarios,      \* the calls, plugins, keys and goroutines of a behaviour
    Quota,          \* MaxPerPluginBytes, in values of the largest size
    MaxHashes,      \* bound: password hashes ever made
    MaxDeks,        \* bound: data keys ever made
    MaxForms,       \* bound: fields written by Configure forms
    MaxCrashes,     \* bound: restarts
    MaxRemovals,    \* bound: uninstalls
    None

Calls == {"set", "get", "del", "kvset", "kvdel", "form", "ensure", "rotate", "wizard", "uninstall", "crash"}

Mixes == [calls : SUBSET Calls, plugins : SUBSET Plugins,
          keys : SUBSET Keys, goroutines : SUBSET (Procs \cup Rotators)]

ASSUME DataAssumption ==
    /\ Scenarios \subseteq Mixes
    /\ None \notin Plugins
    /\ IsFiniteSet(Procs) /\ Procs # {} /\ IsFiniteSet(Keys)
    /\ Quota \in Nat \ {0} /\ MaxHashes \in Nat /\ MaxDeks \in Nat
    /\ MaxForms \in Nat /\ MaxCrashes \in Nat /\ MaxRemovals \in Nat

VARIABLES
    scenario,
    installed,  \* rows of plugins
    admin,      \* the hash in admin_auth, 0 without a row
    kek,        \* plugin_secret_kek: the data key and the hash that wraps it
    secret,     \* plugin_secret: the data key that seals each value, 0 without
    kv,         \* plugin_kv: the keys that hold a value
    fields,     \* how many writes Configure forms have made
    sidecar,    \* the sidecar, and how many of those writes it has seen
    proc,       \* the calls
    rot,        \* the rotations
    up,         \* the gateway runs
    hashes, deks, crashes, removals,
    raced,      \* history: plugins two overlapping steps have written keys of
    replaced,   \* history: hashes that a wizard has overwritten
    torn,       \* history: plugins with a form that failed after a write, or
                \*          whose sidecar was starting when a form was done
    blank       \* history: plugins with a stored secret that a read found unset

tables  == <<installed, admin, kek, secret, kv>>
counted == <<hashes, deks, crashes, removals>>
vars == <<scenario, tables, fields, sidecar, proc, rot, up, counted, raced, replaced, torn, blank>>

NoRow == [dek |-> 0, hash |-> 0]
Rows  == [dek : 0..MaxDeks, hash : 0..MaxHashes]
Task(op, pc, p, k, wrote) ==
    [op |-> op, pc |-> pc, p |-> p, k |-> k, row |-> NoRow, dek |-> 0, wrote |-> wrote]
Idle  == Task("none", "idle", None, None, FALSE)
Rest  == [pc |-> "idle", current |-> 0, old |-> 0, new |-> 0, rows |-> {}]
NoSidecar == [pc |-> "none", seen |-> 0]

Works == [op : Calls \cup {"none"},
          pc : {"idle", "find", "row", "unwrap", "derive", "ensure", "store", "quota", "put", "kill"},
          p : Plugins \cup {None}, k : Keys \cup {None},
          row : Rows, dek : 0..MaxDeks, wrote : BOOLEAN]
Turns == [pc : {"idle", "verified", "locked", "rewrapped"}, current : 0..MaxHashes,
          old : 0..MaxHashes, new : 0..MaxHashes, rows : SUBSET Plugins]

TypeOK ==
    /\ scenario \in Mixes
    /\ installed \subseteq Plugins /\ admin \in 0..MaxHashes
    /\ kek \in [Plugins -> Rows]
    /\ secret \in [Plugins -> [Keys -> 0..MaxDeks]]
    /\ kv \in [Plugins -> SUBSET Keys]
    /\ fields \in [Plugins -> 0..MaxForms]
    /\ sidecar \in [Plugins -> [pc : {"none", "starting", "running"}, seen : 0..MaxForms]]
    /\ proc \in [Procs -> Works]
    /\ rot \in [Rotators -> Turns]
    /\ up \in BOOLEAN
    /\ hashes \in 0..MaxHashes /\ deks \in 0..MaxDeks /\ crashes \in 0..MaxCrashes
    /\ removals \in 0..MaxRemovals
    /\ raced \subseteq Plugins /\ replaced \subseteq 1..MaxHashes /\ torn \subseteq Plugins /\ blank \subseteq Plugins

\* A database that has been migrated; the gateway has not started.
Init ==
    /\ scenario \in Scenarios /\ installed = scenario.plugins
    /\ admin = 0
    /\ kek = [p \in Plugins |-> NoRow]
    /\ secret = [p \in Plugins |-> [k \in Keys |-> 0]]
    /\ kv = [p \in Plugins |-> {}]
    /\ fields = [p \in Plugins |-> 0]
    /\ sidecar = [p \in Plugins |-> NoSidecar]
    /\ proc = [x \in Procs |-> Idle]
    /\ rot = [r \in Rotators |-> Rest]
    /\ up = FALSE
    /\ hashes = 0 /\ deks = 0 /\ crashes = 0 /\ removals = 0
    /\ raced = {} /\ replaced = {} /\ torn = {} /\ blank = {}

-----------------------------------------------------------------------------
(* Locks, and what interferes with what.                                    *)

\* The transaction of a rotation past its SELECT ... FOR UPDATE of admin_auth
\* holds the row, if there was one.
AdminLocked == \E r \in Rotators : rot[r].pc \in {"locked", "rewrapped"} /\ rot[r].old # 0
RowLocked(p) == \E r \in Rotators : rot[r].pc = "rewrapped" /\ p \in rot[r].rows

\* A rotation has listed the wrapped keys and p's was not among them.
Missed(p) == \E r \in Rotators : rot[r].pc = "rewrapped" /\ rot[r].old # 0 /\ p \notin rot[r].rows

\* Plugins with a call whose data key is in its hands but not yet stored.
Holding == {proc[x].p : x \in {y \in Procs : proc[y].pc \in {"unwrap", "ensure", "store"}}} \ {None}
Deriving == {proc[x].p : x \in {y \in Procs : proc[y].pc = "ensure"}} \ {None}

Allowed(op) == op \in scenario.calls
At(x, pc) == up /\ proc[x].pc = pc
Becomes(x, c) == proc' = [proc EXCEPT ![x] = c]
Goto(x, pc) == Becomes(x, [proc[x] EXCEPT !.pc = pc])

Ends(x) == Becomes(x, Idle)

\* Whoever reads a form, or the settings of a session or a bot, goes on after an
\* error as if the secret were not set (pluginsConfigGet, effectiveConfig).
Unset(x) == IF proc[x].op = "get" THEN {proc[x].p} ELSE {}

\* A call that fails.  A form leaves the fields it has written and kills nothing.
Fails(x) ==
    /\ Ends(x)
    /\ torn' = IF proc[x].wrote THEN torn \cup {proc[x].p} ELSE torn
    /\ blank' = blank \cup Unset(x)
Passes == UNCHANGED <<torn, blank>>

-----------------------------------------------------------------------------
(* The calls of a plugin, and the Configure form.                           *)

Starts(x, op, pc, p, k) ==
    /\ up /\ Allowed(op) /\ x \in scenario.goroutines /\ proc[x] = Idle
    /\ Becomes(x, Task(op, pc, p, k, FALSE))
    /\ UNCHANGED <<scenario, tables, fields, sidecar, rot, up, counted, raced, replaced, torn, blank>>

\* pluginsConfigPut: the form's secret field goes the way of a set, if it was
\* retyped (PlatformSet), the other field that of KVSet.
Retype(x, p, k) == Starts(x, "form", "row", p, k)
Form(x, p, k) == fields[p] < MaxForms /\ (Retype(x, p, k) \/ Starts(x, "form", "quota", p, k))

\* handleSet, handleGet, KVSet, whose gate finds a consent, and the form.
Call(x) ==
    \E p \in installed, k \in scenario.keys :
        \/ Starts(x, "set", "row", p, k)
        \/ Starts(x, "get", "find", p, k)
        \/ Starts(x, "kvset", "quota", p, k)
        \/ Form(x, p, k)

\* SecretGet: no row answers nil at once.
Find(x) ==
    /\ At(x, "find")
    /\ LET c == proc[x] IN
       IF secret[c.p][c.k] = 0 THEN Ends(x)
       ELSE Becomes(x, [c EXCEPT !.dek = secret[c.p][c.k], !.pc = "row"])
    /\ UNCHANGED <<scenario, tables, fields, sidecar, rot, up, counted, raced, replaced, torn, blank>>

\* GetWrappedDEK: no row is an error to a get and the first write to a set.
LoadRow(x) ==
    /\ At(x, "row")
    /\ LET c == proc[x] IN
       \/ /\ kek[c.p] # NoRow
          /\ Becomes(x, [c EXCEPT !.row = kek[c.p], !.pc = "unwrap"])
          /\ Passes
       \/ kek[c.p] = NoRow /\ c.op # "get" /\ Goto(x, "derive") /\ Passes
       \/ kek[c.p] = NoRow /\ c.op = "get" /\ Fails(x)
    /\ UNCHANGED <<scenario, tables, fields, sidecar, rot, up, counted, raced, replaced>>

\* loadDEK derives the key from the hash it now reads, and opens the row's.
Unwrap(x) ==
    /\ At(x, "unwrap")
    /\ LET c == proc[x] IN
       \/ /\ c.row.hash # admin \/ (c.op = "get" /\ c.row.dek # c.dek)
          /\ Fails(x)
       \/ c.row.hash = admin /\ c.op = "get" /\ c.row.dek = c.dek /\ Ends(x) /\ Passes
       \/ /\ c.row.hash = admin /\ c.op # "get"
          /\ Becomes(x, [c EXCEPT !.dek = c.row.dek, !.pc = "store"])
          /\ Passes
    /\ UNCHANGED <<scenario, tables, fields, sidecar, rot, up, counted, raced, replaced>>

\* The first write draws a data key and wraps it under the hash it reads; it
\* fails while there are no credentials.
Derive(x) ==
    /\ At(x, "derive")
    /\ \/ admin = 0 /\ Fails(x) /\ UNCHANGED deks
       \/ /\ admin # 0 /\ deks < MaxDeks
          /\ deks' = deks + 1
          /\ Becomes(x, [proc[x] EXCEPT !.row = [dek |-> deks + 1, hash |-> admin], !.pc = "ensure"])
          /\ Passes
    /\ UNCHANGED <<scenario, tables, fields, sidecar, rot, up, hashes, crashes, removals, raced, replaced>>

\* EnsureKEKRow: the upsert overwrites a row that has come meanwhile; it waits
\* for a lock on it, and finds no plugin after an uninstall.
Ensure(x) ==
    /\ At(x, "ensure")
    /\ LET c == proc[x] IN
       \/ /\ c.p \in installed /\ ~RowLocked(c.p)
          /\ kek' = [kek EXCEPT ![c.p] = c.row]
          /\ Becomes(x, [c EXCEPT !.dek = c.row.dek, !.pc = "store"])
          /\ raced' = IF kek[c.p] # NoRow \/ Missed(c.p) THEN raced \cup {c.p} ELSE raced
          /\ Passes
       \/ c.p \notin installed /\ Fails(x) /\ UNCHANGED <<kek, raced>>
    /\ UNCHANGED <<scenario, installed, admin, secret, kv, fields, sidecar, rot, up, counted, replaced>>

\* SecretSet; a form goes on with its other field.
Store(x) ==
    /\ At(x, "store")
    /\ LET c == proc[x] IN
       \/ /\ c.p \in installed /\ (c.op = "form" => fields[c.p] < MaxForms)
          /\ secret' = [secret EXCEPT ![c.p][c.k] = c.dek]
          /\ IF c.op = "form"
               THEN /\ Becomes(x, Task("form", "quota", c.p, c.k, TRUE))
                    /\ fields' = [fields EXCEPT ![c.p] = @ + 1]
               ELSE Ends(x) /\ UNCHANGED fields
          /\ Passes
       \/ c.p \notin installed /\ Fails(x) /\ UNCHANGED <<secret, fields>>
    /\ UNCHANGED <<scenario, installed, admin, kek, kv, sidecar, rot, up, counted, raced, replaced>>

\* handleDelete: SecretDelete; KVDelete of storage.delete.
Delete ==
    /\ up
    /\ \E p \in installed, k \in scenario.keys :
        \/ Allowed("del") /\ secret' = [secret EXCEPT ![p][k] = 0] /\ UNCHANGED kv
        \/ Allowed("kvdel") /\ kv' = [kv EXCEPT ![p] = @ \ {k}] /\ UNCHANGED secret
    /\ UNCHANGED <<scenario, installed, admin, kek, fields, sidecar, proc, rot, up, counted, raced, replaced, torn, blank>>

\* Mutant of CheckQuota: a value may fill the quota.
CheckQuotaFull(x) ==
    /\ At(x, "quota")
    /\ LET c == proc[x] IN
       \/ Cardinality(kv[c.p] \ {c.k}) + 1 <= Quota /\ Goto(x, "put") /\ UNCHANGED <<kv, fields>> /\ Passes
       \/ Cardinality(kv[c.p] \ {c.k}) + 1 > Quota /\ Fails(x) /\ UNCHANGED <<kv, fields>>
    /\ UNCHANGED <<scenario, installed, admin, kek, secret, sidecar, rot, up, counted, raced, replaced>>

\* KVSet looks at the total of the other keys, then upserts: the two are not
\* one step.  A form may clear its field instead.
CheckQuota(x) ==
    /\ At(x, "quota")
    /\ LET c == proc[x] IN
       \/ Cardinality(kv[c.p] \ {c.k}) + 1 < Quota /\ Goto(x, "put") /\ UNCHANGED <<kv, fields>> /\ Passes
       \/ Cardinality(kv[c.p] \ {c.k}) + 1 >= Quota /\ Fails(x) /\ UNCHANGED <<kv, fields>>
       \/ /\ c.op = "form" /\ fields[c.p] < MaxForms
          /\ kv' = [kv EXCEPT ![c.p] = @ \ {c.k}]
          /\ fields' = [fields EXCEPT ![c.p] = @ + 1]
          /\ Becomes(x, [c EXCEPT !.pc = "kill", !.wrote = TRUE])
          /\ Passes
    /\ UNCHANGED <<scenario, installed, admin, kek, secret, sidecar, rot, up, counted, raced, replaced>>

Put(x) ==
    /\ At(x, "put")
    /\ LET c == proc[x] IN
       \/ /\ c.p \in installed
          /\ kv' = [kv EXCEPT ![c.p] = @ \cup {c.k}]
          /\ IF c.op = "form"
               THEN /\ fields[c.p] < MaxForms /\ fields' = [fields EXCEPT ![c.p] = @ + 1]
                    /\ Becomes(x, [c EXCEPT !.pc = "kill", !.wrote = TRUE])
               ELSE Ends(x) /\ UNCHANGED fields
          /\ Passes
       \/ c.p \notin installed /\ Fails(x) /\ UNCHANGED <<kv, fields>>
    /\ UNCHANGED <<scenario, installed, admin, kek, secret, sidecar, rot, up, counted, raced, replaced>>

\* Mutant of Killed: a sidecar that has seen an earlier form is let run.
KilledOnce(x) ==
    /\ At(x, "kill")
    /\ LET p == proc[x].p IN
       IF sidecar[p].pc = "starting"
         THEN torn' = torn \cup {p} /\ UNCHANGED sidecar
         ELSE /\ torn' = torn \ {p}
              /\ sidecar' = IF sidecar[p].seen = 0 THEN [sidecar EXCEPT ![p] = NoSidecar] ELSE sidecar
    /\ Ends(x)
    /\ UNCHANGED <<scenario, tables, fields, rot, up, counted, raced, replaced, blank>>

\* The form is written; Supervisor.Kill ends the sidecar that is in its map.
Killed(x) ==
    /\ At(x, "kill")
    /\ LET p == proc[x].p IN
       IF sidecar[p].pc = "starting"
         THEN torn' = torn \cup {p} /\ UNCHANGED sidecar
         ELSE torn' = torn \ {p} /\ sidecar' = [sidecar EXCEPT ![p] = NoSidecar]
    /\ Ends(x)
    /\ UNCHANGED <<scenario, tables, fields, rot, up, counted, raced, replaced, blank>>

\* Supervisor.Ensure spawns outside its lock and then enters the map; the
\* sidecar reads its fields as it starts.
Spawn(p) ==
    /\ up /\ Allowed("ensure") /\ p \in installed /\ sidecar[p].pc = "none"
    /\ sidecar' = [sidecar EXCEPT ![p] = [pc |-> "starting", seen |-> fields[p]]]
    /\ UNCHANGED <<scenario, tables, fields, proc, rot, up, counted, raced, replaced, torn, blank>>

Enter(p) ==
    /\ up /\ sidecar[p].pc = "starting"
    /\ sidecar' = [sidecar EXCEPT ![p].pc = "running"]
    /\ UNCHANGED <<scenario, tables, fields, proc, rot, up, counted, raced, replaced, torn, blank>>

-----------------------------------------------------------------------------
(* Credentials.                                                             *)

\* Every wrapped key that a hash has become useless for.
Stranded(h) == {p \in Plugins : kek[p] # NoRow /\ kek[p].hash # h}

\* changeCredentials checks the current password without a lock: against the
\* row, or against the bootstrap password while there is none.
Verify(r) ==
    /\ up /\ Allowed("rotate") /\ r \in scenario.goroutines /\ rot[r].pc = "idle"
    /\ rot' = [rot EXCEPT ![r] = [@ EXCEPT !.pc = "verified", !.current = admin]]
    /\ UNCHANGED <<scenario, tables, fields, sidecar, proc, up, counted, raced, replaced, torn, blank>>

\* Mutant of Lock: the hash is read without FOR UPDATE.
LockRead(r) ==
    /\ up /\ rot[r].pc = "verified" /\ hashes < MaxHashes
    /\ hashes' = hashes + 1
    /\ rot' = [rot EXCEPT ![r] = [@ EXCEPT !.pc = "locked", !.old = admin, !.new = hashes + 1]]
    /\ UNCHANGED <<scenario, tables, fields, sidecar, proc, up, deks, crashes, removals, raced, replaced, torn, blank>>

\* RotateCredentialsAndKEK hashes the password, then locks admin_auth.
Lock(r) ==
    /\ up /\ rot[r].pc = "verified" /\ ~AdminLocked /\ hashes < MaxHashes
    /\ hashes' = hashes + 1
    /\ rot' = [rot EXCEPT ![r] = [@ EXCEPT !.pc = "locked", !.old = admin, !.new = hashes + 1]]
    /\ UNCHANGED <<scenario, tables, fields, sidecar, proc, up, deks, crashes, removals, raced, replaced, torn, blank>>

\* rewrapAllDEKsTx locks every row and opens it under the old hash; one that
\* does not open ends the rotation.  Without credentials there is no walk.
Rewrap(r) ==
    /\ up /\ rot[r].pc = "locked"
    /\ IF rot[r].old # 0 /\ Stranded(rot[r].old) # {}
         THEN rot' = [rot EXCEPT ![r] = Rest]
         ELSE rot' = [rot EXCEPT ![r] = [@ EXCEPT !.pc = "rewrapped",
                !.rows = IF rot[r].old = 0 THEN {} ELSE {p \in Plugins : kek[p] # NoRow}]]
    /\ UNCHANGED <<scenario, tables, fields, sidecar, proc, up, counted, raced, replaced, torn, blank>>

\* Mutant of Commit: the credentials are saved, the wrapped keys are not.
CommitSave(r) ==
    /\ up /\ rot[r].pc = "rewrapped" /\ (rot[r].old = 0 => ~AdminLocked)
    /\ admin' = rot[r].new
    /\ raced' = raced \cup Deriving \cup (Stranded(admin') \ rot[r].rows)
    /\ rot' = [rot EXCEPT ![r] = Rest]
    /\ UNCHANGED <<scenario, installed, kek, secret, kv, fields, sidecar, proc, up, counted, replaced, torn, blank>>

\* The new hash and the rewrapped rows become visible at once.
Commit(r) ==
    /\ up /\ rot[r].pc = "rewrapped" /\ (rot[r].old = 0 => ~AdminLocked)
    /\ admin' = rot[r].new
    /\ kek' = [p \in Plugins |-> IF p \in rot[r].rows THEN [kek[p] EXCEPT !.hash = rot[r].new] ELSE kek[p]]
    /\ raced' = raced \cup Deriving
                   \cup (IF rot[r].old = 0 THEN Stranded(rot[r].new) ELSE {})
    /\ rot' = [rot EXCEPT ![r] = Rest]
    /\ UNCHANGED <<scenario, installed, secret, kv, fields, sidecar, proc, up, counted, replaced, torn, blank>>

\* The wizard, a process of its own, saves a new password over the row, and
\* rewraps no key that the old one has wrapped.
Wizard ==
    /\ Allowed("wizard") /\ hashes < MaxHashes /\ ~AdminLocked
    /\ hashes' = hashes + 1 /\ admin' = hashes + 1
    /\ replaced' = replaced \cup ({admin} \ {0})
    /\ UNCHANGED <<scenario, installed, kek, secret, kv, fields, sidecar, proc, rot, up,
                   deks, crashes, removals, raced, torn, blank>>

\* The gateway starts; it plants the bootstrap password, if it has one, in an
\* empty table.
Boot ==
    /\ ~up /\ up' = TRUE
    /\ \/ admin = 0 /\ hashes < MaxHashes /\ hashes' = hashes + 1 /\ admin' = hashes + 1
       \/ UNCHANGED <<hashes, admin>>
    /\ UNCHANGED <<scenario, installed, kek, secret, kv, fields, sidecar, proc, rot,
                   deks, crashes, removals, raced, replaced, torn, blank>>

\* Calls end where they are, transactions roll back, sidecars go.
Crash ==
    /\ up /\ Allowed("crash") /\ crashes < MaxCrashes
    /\ up' = FALSE /\ crashes' = crashes + 1
    /\ proc' = [x \in Procs |-> Idle]
    /\ rot' = [r \in Rotators |-> Rest]
    /\ sidecar' = [p \in Plugins |-> NoSidecar]
    /\ UNCHANGED <<scenario, tables, fields, hashes, deks, removals, raced, replaced, torn, blank>>

\* The row in plugins goes, and every row of the plugin with it; a lock on its
\* wrapped key makes it wait.
Uninstall(p) ==
    /\ up /\ Allowed("uninstall") /\ removals < MaxRemovals /\ p \in installed /\ ~RowLocked(p)
    /\ installed' = installed \ {p} /\ removals' = removals + 1
    /\ kek' = [kek EXCEPT ![p] = NoRow]
    /\ secret' = [secret EXCEPT ![p] = [k \in Keys |-> 0]]
    /\ kv' = [kv EXCEPT ![p] = {}]
    /\ raced' = IF p \in Holding THEN raced \cup {p} ELSE raced \ {p}
    /\ UNCHANGED <<scenario, admin, fields, sidecar, proc, rot, up, hashes, deks, crashes, replaced, torn, blank>>

Install(p) ==
    /\ up /\ Allowed("uninstall") /\ p \notin installed
    /\ installed' = installed \cup {p}
    /\ UNCHANGED <<scenario, admin, kek, secret, kv, fields, sidecar, proc, rot, up, counted, raced, replaced, torn, blank>>

-----------------------------------------------------------------------------

Serve(x) ==
    \/ Call(x) \/ Find(x) \/ LoadRow(x) \/ Unwrap(x) \/ Derive(x) \/ Ensure(x) \/ Store(x)
    \/ CheckQuota(x) \/ Put(x) \/ Killed(x)

Rotate(r) == Verify(r) \/ Lock(r) \/ Rewrap(r) \/ Commit(r)

Next ==
    \/ \E x \in Procs : Serve(x)
    \/ \E r \in Rotators : Rotate(r)
    \/ \E p \in Plugins : Spawn(p) \/ Enter(p) \/ Uninstall(p) \/ Install(p)
    \/ Delete \/ Wizard \/ Boot \/ Crash

Spec == Init /\ [][Next]_vars

-----------------------------------------------------------------------------
(* Properties.                                                              *)

\* The key of a plugin is wrapped under the password that holds, or under one
\* that a wizard has replaced: then nothing opens it again (WizardSpares).
Left(p) == kek[p].hash \in replaced
Opens(p) == kek[p] # NoRow /\ admin # 0 /\ kek[p].hash = admin

\* A secret that is stored can be read, whatever rotations, crashes and other
\* plugins do, unless two steps that overlap have written its plugin's key (two
\* first writes, a first write or a first password and a rotation, a write and
\* an uninstall), or a wizard has run since and locked it out.  Even so the
\* key that is stored is the one that seals it (rotate.go, api_secret.go,
\* setup_cli.go).
SecretsReadable ==
    \A p \in Plugins \ raced, k \in Keys :
        secret[p][k] # 0 =>
            /\ kek[p] # NoRow /\ kek[p].dek = secret[p][k]
            /\ Opens(p) \/ Left(p)

\* A rotation that has the lock can open every wrapped key it will find, but
\* those of a plugin of that kind, or left by a wizard: one of these is enough
\* to fail it (rotate.go, rewrapAllDEKsTx).
RotationGoesThrough ==
    \A r \in Rotators :
        rot[r].pc = "locked" /\ rot[r].old # 0 =>
            Stranded(rot[r].old) \subseteq raced \cup {p \in Plugins : Left(p)}

\* A sidecar that runs has seen all that forms have stored, unless a form is
\* not finished, failed halfway or met it while it started
\* (plugins_config.go, pluginsConfigPut).
SidecarCurrent ==
    \A p \in Plugins \ torn :
        (\A x \in Procs : proc[x].p = p => ~proc[x].wrote)
            /\ sidecar[p].pc = "running" => sidecar[p].seen = fields[p]

\* The quota of a plugin is passed by less than one value for each further
\* call that writes at the same time (plugin_kv.go, KVSet: best effort).
QuotaOvershoot ==
    \A p \in Plugins : Cardinality(kv[p]) + 1 <= Quota + (Cardinality(Procs) - 1)

\* Refuted: no secret that was stored becomes unreadable.  Two first writes
\* draw two data keys, and the second row overwrites the first.
SecretsSurvive ==
    \A p \in Plugins, k \in Keys : secret[p][k] # 0 => Opens(p) /\ kek[p].dek = secret[p][k]

\* "Rotating the admin password rotates the KEK; a host-side walk rewraps every
\* plugin_secret_kek row on next login" (secret_kek.go:7-9).  Refuted: the wizard
\* saves the row alone, no login rewraps, and the old hash is gone.
WizardSpares == \A p \in Plugins \ raced : kek[p] # NoRow => Opens(p)

\* Refuted: a secret that is stored is never taken for one that is not set.  A
\* rotation between the read of the row and that of the hash makes it so.
FieldShown == blank = {}

\* Refuted: a rotation can always be made again.
RotateAgain ==
    \A r \in Rotators : rot[r].pc = "locked" /\ rot[r].old # 0 => Stranded(rot[r].old) = {}

\* Refuted: a rotation replaces the password that the request has given.
CurrentReplaced ==
    \A r \in Rotators : rot[r].pc \in {"locked", "rewrapped"} => rot[r].old = rot[r].current

\* Refuted: the gateway, once up with credentials, keeps its password until a
\* request changes it.
WizardKeeps == [][admin' = admin \/ admin = 0 \/ \E r \in Rotators : rot[r].pc = "rewrapped"]_admin

\* Refuted: a form that is done leaves no sidecar with what was there before.
FormRestarts ==
    \A p \in Plugins :
        (\A x \in Procs : proc[x].p # p) /\ sidecar[p].pc = "running" => sidecar[p].seen = fields[p]
=============================================================================
