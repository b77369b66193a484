-------------------------- MODULE PluginDataProofs --------------------------
(***************************************************************************)
(* Proofs about PluginData, for any plugins, keys, goroutines and bounds,  *)
(* and any mix of calls.                                                   *)
(*                                                                         *)
(* Why a stored secret can be read: outside of raced every wrapped key is  *)
(* wrapped under the current hash or one that a wizard has replaced, a     *)
(* goroutine with a data key in its hands holds the one that is stored,    *)
(* and a rotation that is about to commit has locked every wrapped key     *)
(* there is.  Why a sidecar is current: one that starts has seen all but   *)
(* what a form under way has written, and the form knows that it wrote.    *)
(* Why the quota holds: a value that has been checked counts as put.       *)
(***************************************************************************)
EXTENDS PluginData, FiniteSetTheorems, TLAPS

\* A goroutine with a call knows plugin and key, a data key is drawn, and only
\* a form has written some.
CallFine(c) ==
    /\ c \in Works
    /\ c.pc # "idle" => c.p \in Plugins /\ c.k \in Keys
    /\ c.pc = "ensure" => c.row.dek # 0
    /\ c.wrote => c.op = "form" /\ c.pc \in {"quota", "put", "kill"}
CallsFine == \A x \in Procs : CallFine(proc[x])

\* Locks: one rotation past the row lock, the new hash is one, and without
\* credentials nothing is locked but nothing is rewrapped either.
LocksHeld ==
    \A r \in Rotators : rot[r].pc \in {"locked", "rewrapped"} =>
        /\ rot[r].new # 0
        /\ rot[r].old # 0 => admin = rot[r].old
        /\ \A s \in Rotators : rot[r].old # 0 /\ s # r /\ rot[s].old # 0
               => rot[s].pc \notin {"locked", "rewrapped"}

RowsLocked ==
    \A r \in Rotators : rot[r].pc = "rewrapped" =>
        /\ rot[r].old = 0 => rot[r].rows = {}
        /\ \A p \in rot[r].rows : kek[p] # NoRow
        /\ rot[r].old # 0 => \A p \in Plugins \ raced : kek[p] # NoRow => p \in rot[r].rows

\* The wrapped key of a plugin that was not raced opens, or has been left by a
\* wizard; a goroutine with a data key has the one it holds.
Known(h) == h = admin \/ h \in replaced
RowCurrent(p) == kek[p] # NoRow => admin # 0 /\ Known(kek[p].hash)
Hands(c) ==
    /\ c.pc = "unwrap" => kek[c.p] # NoRow /\ c.row.dek = kek[c.p].dek
    /\ c.pc = "store"  => kek[c.p] # NoRow /\ c.dek = kek[c.p].dek
    /\ c.pc = "ensure" => admin # 0 /\ Known(c.row.hash)
HandsAgree(p) == \A x \in Procs : proc[x].p = p => Hands(proc[x])
SealedByRow(p) == \A k \in Keys : secret[p][k] # 0 => kek[p] # NoRow /\ kek[p].dek = secret[p][k]
KeysAgree == \A p \in Plugins \ raced : RowCurrent(p) /\ HandsAgree(p) /\ SealedByRow(p)

KeysInv == TypeOK /\ CallsFine /\ LocksHeld /\ RowsLocked /\ KeysAgree

\* A sidecar on its way in, too, has seen all writes of forms that have ended.
SidecarSeen ==
    \A p \in Plugins \ torn :
        (\A x \in Procs : proc[x].p = p => ~proc[x].wrote)
            /\ sidecar[p].pc # "none" => sidecar[p].seen = fields[p]

\* The keys that hold a value or are about to.
Filling(p) == {x \in Procs : proc[x].pc = "put" /\ proc[x].p = p}
Filled(p)  == kv[p] \cup {proc[x].k : x \in Filling(p)}
QuotaInv   == \A p \in Plugins : Cardinality(Filled(p)) + 1 <= Quota + (Cardinality(Procs) - 1)

USE DataAssumption

-----------------------------------------------------------------------------
(* What a step does to the goroutine that takes it.                         *)

\* A goroutine goes on; the others stay where they are.
LEMMA Moved ==
    ASSUME TypeOK, CallsFine, NEW x \in Procs, NEW c, CallFine(c), Becomes(x, c)
    PROVE  /\ proc' \in [Procs -> Works] /\ CallsFine'
           /\ proc'[x] = c /\ \A y \in Procs \ {x} : proc'[y] = proc[y]
<1>1. proc' \in [Procs -> Works] /\ proc'[x] = c /\ \A y \in Procs \ {x} : proc'[y] = proc[y]
  BY DEF TypeOK, Becomes, CallFine
<1> QED
  BY <1>1 DEF CallsFine, CallFine

\* A goroutine at rest.
LEMMA IdleFine == CallFine(Idle) /\ Idle.pc = "idle" /\ ~Idle.wrote /\ Idle.dek = 0 /\ Idle.p = None
BY DEF CallFine, Idle, Task, Works, Rows, NoRow

\* Call: what the goroutine becomes.
LEMMA Called ==
    ASSUME TypeOK, CallsFine, NEW x \in Procs, Call(x)
    PROVE  \E c : /\ CallFine(c) /\ Becomes(x, c) /\ c.pc \in {"row", "find", "quota"} /\ ~c.wrote
<1>1. PICK op \in Calls, pc \in {"row", "find", "quota"}, p \in installed, k \in scenario.keys :
          Starts(x, op, pc, p, k)
  BY DEF Call, Form, Retype, Calls
<1>2. p \in Plugins /\ k \in Keys
  BY DEF TypeOK, Mixes
<1> DEFINE c == Task(op, pc, p, k, FALSE)
<1>3. NoRow \in Rows
  BY DEF NoRow, Rows
<1>4. CallFine(c) /\ c.pc = pc /\ ~c.wrote
  BY <1>2, <1>3 DEF CallFine, Task, Works
<1> QED
  BY <1>1, <1>4 DEF Starts

\* Find: no row, or on to the wrapped key.
LEMMA Found ==
    ASSUME TypeOK, CallsFine, NEW x \in Procs, Find(x)
    PROVE  \E c : /\ CallFine(c) /\ Becomes(x, c) /\ ~c.wrote
                  /\ c = Idle \/ c.pc = "row"
<1> DEFINE c == proc[x]
           d == [c EXCEPT !.dek = secret[c.p][c.k], !.pc = "row"]
<1>1. CallFine(c) /\ c.pc = "find"
  BY DEF Find, At, CallsFine
<1>2. secret[c.p][c.k] \in 0..MaxDeks
  BY <1>1 DEF TypeOK, CallFine
<1>3. CallFine(d) /\ d.pc = "row" /\ ~d.wrote
  BY <1>1, <1>2 DEF CallFine, Works
<1> QED
  BY <1>3, IdleFine DEF Find, Ends

\* LoadRow: the row that is stored, the first write, or an error.
LEMMA RowLoaded ==
    ASSUME TypeOK, CallsFine, NEW x \in Procs, LoadRow(x)
    PROVE  \E c : /\ CallFine(c) /\ Becomes(x, c) /\ ~c.wrote /\ ~proc[x].wrote
                  /\ \/ c = Idle \/ c.pc = "derive"
                     \/ c.pc = "unwrap" /\ c.row = kek[c.p] /\ kek[c.p] # NoRow
<1> DEFINE c == proc[x]
           d == [c EXCEPT !.row = kek[c.p], !.pc = "unwrap"]
           e == [c EXCEPT !.pc = "derive"]
<1>1. CallFine(c) /\ c.pc = "row" /\ ~c.wrote
  BY DEF LoadRow, At, CallsFine, CallFine
<1>2. kek[c.p] \in Rows
  BY <1>1 DEF TypeOK, CallFine
<1>3. CallFine(d) /\ d.pc = "unwrap" /\ d.row = kek[c.p] /\ d.p = c.p /\ ~d.wrote
  BY <1>1, <1>2 DEF CallFine, Works
<1>4. CallFine(e) /\ e.pc = "derive" /\ ~e.wrote
  BY <1>1 DEF CallFine, Works
<1> QED
  BY <1>1, <1>3, <1>4, IdleFine DEF LoadRow, Goto, Fails, Ends

\* Unwrap: the data key of the row it has read.
LEMMA Unwrapped ==
    ASSUME TypeOK, CallsFine, NEW x \in Procs, Unwrap(x)
    PROVE  \E c : /\ CallFine(c) /\ Becomes(x, c) /\ ~c.wrote /\ ~proc[x].wrote
                  /\ \/ c = Idle
                     \/ c.pc = "store" /\ c.p = proc[x].p /\ c.dek = proc[x].row.dek
<1> DEFINE c == proc[x]
           d == [c EXCEPT !.dek = c.row.dek, !.pc = "store"]
<1>1. CallFine(c) /\ c.pc = "unwrap" /\ ~c.wrote
  BY DEF Unwrap, At, CallsFine, CallFine
<1>2. c.row.dek \in 0..MaxDeks
  BY <1>1 DEF CallFine, Works, Rows
<1>3. CallFine(d) /\ d.pc = "store" /\ d.dek = c.row.dek /\ d.p = c.p /\ ~d.wrote
  BY <1>1, <1>2 DEF CallFine, Works
<1> QED
  BY <1>1, <1>3, IdleFine DEF Unwrap, Fails, Ends

\* Derive: a new data key, wrapped under the current hash.
LEMMA Derived ==
    ASSUME TypeOK, CallsFine, NEW x \in Procs, Derive(x)
    PROVE  \E c : /\ CallFine(c) /\ Becomes(x, c) /\ ~c.wrote /\ ~proc[x].wrote
                  /\ \/ c = Idle
                     \/ /\ c.pc = "ensure" /\ c.p = proc[x].p /\ admin # 0
                        /\ c.row.hash = admin
<1> DEFINE c == proc[x]
           row == [dek |-> deks + 1, hash |-> admin]
           d == [c EXCEPT !.row = row, !.pc = "ensure"]
<1>1. CallFine(c) /\ c.pc = "derive" /\ ~c.wrote
  BY DEF Derive, At, CallsFine, CallFine
<1>2. CASE deks < MaxDeks
  <2>1. row \in Rows /\ row.hash = admin /\ row.dek # 0
    BY <1>2 DEF TypeOK, Rows
  <2>2. CallFine(d) /\ d.pc = "ensure" /\ d.row = row /\ d.p = c.p /\ ~d.wrote
    BY <1>1, <2>1 DEF CallFine, Works
  <2> QED
    BY <1>1, <2>1, <2>2, IdleFine DEF Derive, Fails, Ends
<1>3. CASE ~(deks < MaxDeks)
  BY <1>1, <1>3, IdleFine DEF Derive, Fails, Ends
<1> QED
  BY <1>2, <1>3

\* Ensure: what it holds is what is stored.
LEMMA Ensured ==
    ASSUME TypeOK, CallsFine, NEW x \in Procs, Ensure(x)
    PROVE  \E c : /\ CallFine(c) /\ Becomes(x, c) /\ ~c.wrote /\ ~proc[x].wrote
                  /\ \/ c = Idle /\ UNCHANGED kek /\ UNCHANGED raced
                     \/ /\ c.pc = "store" /\ c.p = proc[x].p /\ c.dek = proc[x].row.dek
                        /\ c.p \in Plugins /\ kek' = [kek EXCEPT ![c.p] = proc[x].row]
<1> DEFINE c == proc[x]
           d == [c EXCEPT !.dek = c.row.dek, !.pc = "store"]
<1>1. CallFine(c) /\ c.pc = "ensure" /\ ~c.wrote
  BY DEF Ensure, At, CallsFine, CallFine
<1>2. c.row.dek \in 0..MaxDeks
  BY <1>1 DEF CallFine, Works, Rows
<1>3. CallFine(d) /\ d.pc = "store" /\ d.dek = c.row.dek /\ d.p = c.p /\ ~d.wrote /\ d.p \in Plugins
  BY <1>1, <1>2 DEF CallFine, Works
<1> QED
  BY <1>1, <1>3, IdleFine DEF Ensure, Fails, Ends

\* Store: the value is sealed; a form goes on to its other field.
LEMMA Stored ==
    ASSUME TypeOK, CallsFine, NEW x \in Procs, Store(x)
    PROVE  /\ proc[x].pc = "store" /\ ~proc[x].wrote
           /\ proc[x].p \in Plugins /\ proc[x].k \in Keys /\ proc[x].dek \in 0..MaxDeks
           /\ torn \subseteq torn'
           /\ \E c : /\ CallFine(c) /\ Becomes(x, c)
                     /\ \/ c = Idle /\ UNCHANGED fields
                        \/ /\ c.pc = "quota" /\ c.p = proc[x].p /\ c.wrote
                           /\ fields' = [fields EXCEPT ![c.p] = @ + 1]
<1> DEFINE c == proc[x]
           d == Task("form", "quota", c.p, c.k, TRUE)
<1>1. CallFine(c) /\ c.pc = "store" /\ ~c.wrote
  BY DEF Store, At, CallsFine, CallFine
<1>2. /\ c.p \in Plugins /\ c.k \in Keys /\ c.dek \in 0..MaxDeks
  BY <1>1 DEF CallFine, Works
<1>3. NoRow \in Rows
  BY DEF NoRow, Rows
<1>4. CallFine(d) /\ d.pc = "quota" /\ d.p = c.p /\ d.wrote
  BY <1>2, <1>3 DEF CallFine, Task, Works, Calls
<1>5. CASE Becomes(x, d) /\ fields' = [fields EXCEPT ![c.p] = @ + 1] /\ Passes
  BY <1>1, <1>2, <1>4, <1>5 DEF Passes
<1>6. CASE Ends(x) /\ UNCHANGED fields /\ (Passes \/ Fails(x))
  <2>1. torn \subseteq torn'
    BY <1>6 DEF Fails, Passes
  <2> QED
    BY <1>1, <1>2, <1>6, <2>1, IdleFine DEF Ends
<1> QED
  BY <1>5, <1>6 DEF Store, Fails

\* CheckQuota: no, yes, or a cleared field.
LEMMA QuotaChecked ==
    ASSUME TypeOK, CallsFine, NEW x \in Procs, CheckQuota(x)
    PROVE  /\ proc[x].pc = "quota" /\ proc[x].p \in Plugins /\ proc[x].k \in Keys
           /\ torn \subseteq torn'
           /\ \E c : /\ CallFine(c) /\ Becomes(x, c)
                     /\ \/ /\ c = Idle /\ UNCHANGED <<kv, fields>>
                           /\ proc[x].wrote => proc[x].p \in torn'
                        \/ /\ c.pc = "put" /\ c.p = proc[x].p /\ c.k = proc[x].k
                           /\ c.wrote = proc[x].wrote /\ UNCHANGED <<kv, fields>>
                           /\ Cardinality(kv[c.p] \ {c.k}) + 1 < Quota
                        \/ /\ c.pc = "kill" /\ c.p = proc[x].p /\ c.wrote
                           /\ kv' = [kv EXCEPT ![c.p] = @ \ {proc[x].k}]
                           /\ fields' = [fields EXCEPT ![c.p] = @ + 1]
<1> DEFINE c == proc[x]
           d == [c EXCEPT !.pc = "put"]
           e == [c EXCEPT !.pc = "kill", !.wrote = TRUE]
<1>1. CallFine(c) /\ c.pc = "quota"
  BY DEF CheckQuota, At, CallsFine
<1>2. c.p \in Plugins /\ c.k \in Keys
  BY <1>1 DEF CallFine
<1>3. CallFine(d) /\ d.pc = "put" /\ d.p = c.p /\ d.k = c.k /\ d.wrote = c.wrote
  BY <1>1 DEF CallFine, Works
<1>4. c.op = "form" => CallFine(e) /\ e.pc = "kill" /\ e.p = c.p /\ e.k = c.k /\ e.wrote
  BY <1>1 DEF CallFine, Works
<1>5. CASE /\ Cardinality(kv[c.p] \ {c.k}) + 1 < Quota /\ Goto(x, "put") /\ UNCHANGED <<kv, fields>>
           /\ Passes
  BY <1>1, <1>2, <1>3, <1>5 DEF Goto, Passes
<1>6. CASE Fails(x) /\ UNCHANGED <<kv, fields>>
  <2>1. torn \subseteq torn' /\ (c.wrote => c.p \in torn')
    BY <1>6 DEF Fails
  <2> QED
    BY <1>1, <1>2, <1>6, <2>1, IdleFine DEF Fails, Ends
<1>7. CASE /\ c.op = "form" /\ Becomes(x, e) /\ Passes
           /\ kv' = [kv EXCEPT ![c.p] = @ \ {c.k}] /\ fields' = [fields EXCEPT ![c.p] = @ + 1]
  BY <1>1, <1>2, <1>4, <1>7 DEF Passes
<1> QED
  BY <1>5, <1>6, <1>7 DEF CheckQuota

\* Put: the value is there, or the plugin is not.
LEMMA PutDone ==
    ASSUME TypeOK, CallsFine, NEW x \in Procs, Put(x)
    PROVE  /\ proc[x].pc = "put" /\ proc[x].p \in Plugins /\ proc[x].k \in Keys
           /\ torn \subseteq torn'
           /\ UNCHANGED kv \/ kv' = [kv EXCEPT ![proc[x].p] = @ \cup {proc[x].k}]
           /\ \E c : /\ CallFine(c) /\ Becomes(x, c)
                     /\ \/ /\ c = Idle /\ UNCHANGED fields
                           /\ proc[x].wrote => proc[x].p \in torn'
                        \/ /\ c.pc = "kill" /\ c.p = proc[x].p /\ c.wrote
                           /\ fields' = [fields EXCEPT ![c.p] = @ + 1]
<1> DEFINE c == proc[x]
           e == [c EXCEPT !.pc = "kill", !.wrote = TRUE]
<1>1. CallFine(c) /\ c.pc = "put"
  BY DEF Put, At, CallsFine
<1>2. c.p \in Plugins /\ c.k \in Keys /\ (c.wrote => c.op = "form")
  BY <1>1 DEF CallFine
<1>3. c.op = "form" => CallFine(e) /\ e.pc = "kill" /\ e.p = c.p /\ e.wrote
  BY <1>1 DEF CallFine, Works
<1>4. CASE /\ c.op = "form" /\ Becomes(x, e) /\ Passes /\ kv' = [kv EXCEPT ![c.p] = @ \cup {c.k}]
           /\ fields' = [fields EXCEPT ![c.p] = @ + 1]
  BY <1>1, <1>2, <1>3, <1>4 DEF Passes
<1>5. CASE /\ c.op # "form" /\ Ends(x) /\ Passes /\ UNCHANGED fields
           /\ kv' = [kv EXCEPT ![c.p] = @ \cup {c.k}]
  BY <1>1, <1>2, <1>5, IdleFine DEF Passes, Ends
<1>6. CASE Fails(x) /\ UNCHANGED <<kv, fields>>
  <2>1. torn \subseteq torn' /\ (c.wrote => c.p \in torn')
    BY <1>6 DEF Fails
  <2> QED
    BY <1>1, <1>2, <1>6, <2>1, IdleFine DEF Fails, Ends
<1> QED
  BY <1>4, <1>5, <1>6 DEF Put

\* Killed: the form ends.
LEMMA KillDone ==
    ASSUME TypeOK, CallsFine, NEW x \in Procs, Killed(x)
    PROVE  /\ proc[x].pc = "kill" /\ proc[x].p \in Plugins
           /\ CallFine(Idle) /\ Becomes(x, Idle)
BY IdleFine DEF Killed, At, Ends, CallsFine, CallFine

-----------------------------------------------------------------------------
(* Types.                                                                   *)

\* The tables, the goroutines and the rotations stay well-formed, and a
\* goroutine that serves a call knows its plugin and key.
LEMMA TypesStep ==
    ASSUME TypeOK, CallsFine, [Next]_vars
    PROVE  TypeOK' /\ CallsFine'
<1> USE DEF tables, counted
<1>1. ASSUME NEW x \in Procs, Call(x) PROVE TypeOK' /\ CallsFine'
  <2>1. proc' \in [Procs -> Works] /\ CallsFine'
    BY <1>1, Called, Moved
  <2>2. UNCHANGED <<scenario, tables, fields, sidecar, rot, up, counted, raced, replaced, torn, blank>>
    BY <1>1 DEF Call, Form, Retype, Starts
  <2> QED
    BY <2>1, <2>2 DEF TypeOK
<1>2. ASSUME NEW x \in Procs, Find(x) PROVE TypeOK' /\ CallsFine'
  <2>1. proc' \in [Procs -> Works] /\ CallsFine'
    BY <1>2, Found, Moved
  <2> QED
    BY <1>2, <2>1 DEF Find, TypeOK
<1>3. ASSUME NEW x \in Procs, LoadRow(x) PROVE TypeOK' /\ CallsFine'
  <2>1. proc' \in [Procs -> Works] /\ CallsFine'
    BY <1>3, RowLoaded, Moved
  <2>2. At(x, "row")
    BY <1>3 DEF LoadRow
  <2> QED
    BY <1>3, <2>1, <2>2 DEF LoadRow, At, Fails, Unset, Passes, TypeOK, CallsFine, CallFine
<1>4. ASSUME NEW x \in Procs, Unwrap(x) PROVE TypeOK' /\ CallsFine'
  <2>1. proc' \in [Procs -> Works] /\ CallsFine'
    BY <1>4, Unwrapped, Moved
  <2> QED
    BY <1>4, <2>1 DEF Unwrap, At, Fails, Unset, Passes, TypeOK, CallsFine, CallFine
<1>5. ASSUME NEW x \in Procs, Derive(x) PROVE TypeOK' /\ CallsFine'
  <2>1. proc' \in [Procs -> Works] /\ CallsFine'
    BY <1>5, Derived, Moved
  <2> QED
    BY <1>5, <2>1 DEF Derive, At, Fails, Unset, Passes, TypeOK, CallsFine, CallFine
<1>6. ASSUME NEW x \in Procs, Ensure(x) PROVE TypeOK' /\ CallsFine'
  <2>1. proc' \in [Procs -> Works] /\ CallsFine'
    BY <1>6, Ensured, Moved
  <2>2. proc[x].row \in Rows /\ proc[x].p \in Plugins
    BY <1>6 DEF Ensure, At, CallsFine, CallFine, Works
  <2>3. kek' \in [Plugins -> Rows] /\ raced' \subseteq Plugins
    BY <1>6, <2>2 DEF Ensure, TypeOK
  <2>4. torn' \subseteq Plugins /\ blank' \subseteq Plugins
    BY <1>6, <2>2 DEF Ensure, Fails, Unset, Passes, TypeOK
  <2> QED
    BY <1>6, <2>1, <2>3, <2>4 DEF Ensure, TypeOK
<1>7. ASSUME NEW x \in Procs, Store(x) PROVE TypeOK' /\ CallsFine'
  <2>1. proc' \in [Procs -> Works] /\ CallsFine'
    BY <1>7, Stored, Moved
  <2>2. proc[x].p \in Plugins /\ proc[x].k \in Keys /\ proc[x].dek \in 0..MaxDeks
    BY <1>7, Stored
  <2>3. secret' \in [Plugins -> [Keys -> 0..MaxDeks]]
    <3>1. [secret[proc[x].p] EXCEPT ![proc[x].k] = proc[x].dek] \in [Keys -> 0..MaxDeks]
      BY <2>2 DEF TypeOK
    <3> DEFINE row == [secret[proc[x].p] EXCEPT ![proc[x].k] = proc[x].dek]
    <3>2. UNCHANGED secret \/ secret' = [secret EXCEPT ![proc[x].p] = row]
      BY <1>7 DEF Store
    <3>3. row \in [Keys -> 0..MaxDeks]
      BY <3>1
    <3> HIDE DEF row
    <3> QED
      BY <2>2, <3>2, <3>3 DEF TypeOK
  <2>4. fields' \in [Plugins -> 0..MaxForms]
    <3>1. fields[proc[x].p] < MaxForms => fields[proc[x].p] + 1 \in 0..MaxForms
      BY <2>2 DEF TypeOK
    <3>2. UNCHANGED fields \/ (fields[proc[x].p] < MaxForms /\ fields' = [fields EXCEPT ![proc[x].p] = @ + 1])
      BY <1>7 DEF Store
    <3> QED
      BY <2>2, <3>1, <3>2 DEF TypeOK
  <2>5. torn' \subseteq Plugins /\ blank' \subseteq Plugins
    BY <1>7, <2>2 DEF Store, Fails, Unset, Passes, TypeOK
  <2> QED
    BY <1>7, <2>1, <2>3, <2>4, <2>5 DEF Store, TypeOK
<1>8. ASSUME NEW x \in Procs, CheckQuota(x) PROVE TypeOK' /\ CallsFine'
  <2>1. proc' \in [Procs -> Works] /\ CallsFine'
    BY <1>8, QuotaChecked, Moved
  <2>2. proc[x].p \in Plugins /\ proc[x].k \in Keys
    BY <1>8, QuotaChecked
  <2>3. kv' \in [Plugins -> SUBSET Keys]
    BY <1>8, <2>2 DEF CheckQuota, TypeOK
  <2>5. fields' \in [Plugins -> 0..MaxForms]
    <3>1. fields[proc[x].p] < MaxForms => fields[proc[x].p] + 1 \in 0..MaxForms
      BY <2>2 DEF TypeOK
    <3>2. UNCHANGED fields \/ (fields[proc[x].p] < MaxForms /\ fields' = [fields EXCEPT ![proc[x].p] = @ + 1])
      BY <1>8 DEF CheckQuota
    <3> QED
      BY <2>2, <3>1, <3>2 DEF TypeOK
  <2>4. torn' \subseteq Plugins /\ blank' \subseteq Plugins
    BY <1>8, <2>2 DEF CheckQuota, Fails, Unset, Passes, TypeOK
  <2> QED
    BY <1>8, <2>1, <2>3, <2>4, <2>5 DEF CheckQuota, TypeOK
<1>9. ASSUME NEW x \in Procs, Put(x) PROVE TypeOK' /\ CallsFine'
  <2>1. proc' \in [Procs -> Works] /\ CallsFine'
    BY <1>9, PutDone, Moved
  <2>2. proc[x].p \in Plugins /\ proc[x].k \in Keys
    BY <1>9, PutDone
  <2>3. kv' \in [Plugins -> SUBSET Keys]
    <3>1. UNCHANGED kv \/ kv' = [kv EXCEPT ![proc[x].p] = @ \cup {proc[x].k}]
      BY <1>9 DEF Put
    <3>2. kv \in [Plugins -> SUBSET Keys] /\ kv[proc[x].p] \cup {proc[x].k} \in SUBSET Keys
      BY <2>2 DEF TypeOK
    <3> QED
      BY <3>1, <3>2
  <2>5. fields' \in [Plugins -> 0..MaxForms]
    <3>1. fields[proc[x].p] < MaxForms => fields[proc[x].p] + 1 \in 0..MaxForms
      BY <2>2 DEF TypeOK
    <3>2. UNCHANGED fields \/ (fields[proc[x].p] < MaxForms /\ fields' = [fields EXCEPT ![proc[x].p] = @ + 1])
      BY <1>9 DEF Put
    <3> QED
      BY <2>2, <3>1, <3>2 DEF TypeOK
  <2>4. torn' \subseteq Plugins /\ blank' \subseteq Plugins
    BY <1>9, <2>2 DEF Put, Fails, Unset, Passes, TypeOK
  <2> QED
    BY <1>9, <2>1, <2>3, <2>4, <2>5 DEF Put, TypeOK
<1>10. ASSUME NEW x \in Procs, Killed(x) PROVE TypeOK' /\ CallsFine'
  <2>1. proc' \in [Procs -> Works] /\ CallsFine' /\ proc[x].p \in Plugins
    BY <1>10, KillDone, Moved
  <2> QED
    <3>1. NoSidecar \in [pc : {"none", "starting", "running"}, seen : 0..MaxForms]
      BY DEF NoSidecar
    <3>2. sidecar' \in [Plugins -> [pc : {"none", "starting", "running"}, seen : 0..MaxForms]]
      BY <1>10, <2>1, <3>1 DEF Killed, TypeOK
    <3> QED
      BY <1>10, <2>1, <3>2 DEF Killed, TypeOK
<1>11. ASSUME NEW r \in Rotators, Rotate(r) PROVE TypeOK' /\ CallsFine'
  <2>0. rot[r] \in Turns
    BY DEF TypeOK
  <2>1. CASE Verify(r)
    <3>1. rot' = [rot EXCEPT ![r] = [rot[r] EXCEPT !.pc = "verified", !.current = admin]]
      BY <2>1 DEF Verify
    <3>2. [rot[r] EXCEPT !.pc = "verified", !.current = admin] \in Turns
      BY <2>0 DEF Turns, TypeOK
    <3>3. rot' \in [Rotators -> Turns]
      BY <3>1, <3>2 DEF TypeOK
    <3> QED
      BY <2>1, <3>3 DEF Verify, TypeOK, CallsFine
  <2>2. CASE Lock(r)
    <3> DEFINE d == [rot[r] EXCEPT !.pc = "locked", !.old = admin, !.new = hashes + 1]
    <3>1. rot' = [rot EXCEPT ![r] = d]
      BY <2>2 DEF Lock
    <3>2. hashes + 1 \in 0..MaxHashes
      BY <2>2 DEF Lock, TypeOK
    <3>3. d \in Turns
      BY <2>0, <3>2 DEF Turns, TypeOK
    <3>4. rot' \in [Rotators -> Turns]
      BY <3>1, <3>3 DEF TypeOK
    <3> QED
      BY <2>2, <3>2, <3>4 DEF Lock, TypeOK, CallsFine
  <2>3. CASE Rewrap(r)
    <3> DEFINE rows == IF rot[r].old = 0 THEN {} ELSE {p \in Plugins : kek[p] # NoRow}
               d == [rot[r] EXCEPT !.pc = "rewrapped", !.rows = rows]
    <3>1. rot' = [rot EXCEPT ![r] = d] \/ rot' = [rot EXCEPT ![r] = Rest]
      BY <2>3 DEF Rewrap
    <3>2. rows \subseteq Plugins
      OBVIOUS
    <3>3. d \in Turns
      BY <2>0, <3>2 DEF Turns
    <3>4. Rest \in Turns
      BY DEF Rest, Turns
    <3>5. rot' \in [Rotators -> Turns]
      BY <3>1, <3>3, <3>4 DEF TypeOK
    <3> QED
      BY <2>3, <3>5 DEF Rewrap, TypeOK, CallsFine
  <2>4. CASE Commit(r)
    <3>1. ASSUME NEW p \in Plugins PROVE [kek[p] EXCEPT !.hash = rot[r].new] \in Rows
      <4>1. kek[p] \in Rows /\ rot[r].new \in 0..MaxHashes
        BY <2>0 DEF TypeOK, Turns
      <4> QED
        BY <4>1 DEF Rows
    <3>2. kek' \in [Plugins -> Rows]
      BY <2>4, <3>1 DEF Commit, TypeOK
    <3>3. raced' \subseteq Plugins
      BY <2>4 DEF Commit, TypeOK, Works, Deriving, Stranded
    <3>4. Rest \in Turns /\ rot[r].new \in 0..MaxHashes
      BY <2>0 DEF Rest, Turns
    <3> QED
      BY <2>4, <3>2, <3>3, <3>4 DEF Commit, TypeOK, CallsFine
  <2> QED
    BY <1>11, <2>1, <2>2, <2>3, <2>4 DEF Rotate
<1>12. ASSUME NEW p \in Plugins, Spawn(p) \/ Enter(p) PROVE TypeOK' /\ CallsFine'
  <2>1. CASE Spawn(p)
    BY <2>1 DEF Spawn, TypeOK, CallsFine
  <2>2. CASE Enter(p)
    <3>1. [sidecar[p] EXCEPT !.pc = "running"] \in [pc : {"none", "starting", "running"}, seen : 0..MaxForms]
      BY DEF TypeOK
    <3>2. sidecar' = [sidecar EXCEPT ![p] = [sidecar[p] EXCEPT !.pc = "running"]]
      BY <2>2 DEF Enter
    <3> QED
      BY <2>2, <3>1, <3>2 DEF Enter, TypeOK, CallsFine
  <2> QED
    BY <1>12, <2>1, <2>2
<1>13. ASSUME NEW p \in Plugins, Uninstall(p) \/ Install(p) PROVE TypeOK' /\ CallsFine'
  <2>1. CASE Uninstall(p)
    <3>1. NoRow \in Rows
      BY DEF NoRow, Rows
    <3> QED
      BY <2>1, <3>1 DEF Uninstall, TypeOK, CallsFine
  <2>2. CASE Install(p)
    BY <2>2 DEF Install, TypeOK, CallsFine
  <2> QED
    BY <1>13, <2>1, <2>2
<1>14. CASE Delete
  <2>1. PICK p \in installed, k \in scenario.keys :
          \/ secret' = [secret EXCEPT ![p][k] = 0] /\ UNCHANGED kv
          \/ kv' = [kv EXCEPT ![p] = @ \ {k}] /\ UNCHANGED secret
    BY <1>14 DEF Delete
  <2>2. p \in Plugins /\ k \in Keys
    BY DEF TypeOK, Mixes
  <2>3. [secret[p] EXCEPT ![k] = 0] \in [Keys -> 0..MaxDeks]
    BY <2>2 DEF TypeOK
  <2>4. secret' \in [Plugins -> [Keys -> 0..MaxDeks]] /\ kv' \in [Plugins -> SUBSET Keys]
    <3>1. CASE secret' = [secret EXCEPT ![p][k] = 0] /\ UNCHANGED kv
      <4>1. secret' = [secret EXCEPT ![p] = [secret[p] EXCEPT ![k] = 0]]
        BY <3>1
      <4> QED
        BY <2>2, <2>3, <3>1, <4>1 DEF TypeOK
    <3>2. CASE kv' = [kv EXCEPT ![p] = @ \ {k}] /\ UNCHANGED secret
      BY <2>2, <3>2 DEF TypeOK
    <3> QED
      BY <2>1, <3>1, <3>2
  <2> QED
    BY <1>14, <2>4 DEF Delete, TypeOK, CallsFine
<1>15. CASE Wizard
  <2>1. replaced' \subseteq 1..MaxHashes
    BY <1>15 DEF Wizard, TypeOK
  <2> QED
    BY <1>15, <2>1 DEF Wizard, TypeOK, CallsFine
<1>16. CASE Boot
  BY <1>16 DEF Boot, TypeOK, CallsFine
<1>17. CASE Crash
  <2>1. proc' \in [Procs -> Works] /\ CallsFine'
    BY <1>17, IdleFine DEF Crash, CallsFine, CallFine
  <2>2. Rest \in Turns /\ NoSidecar \in [pc : {"none", "starting", "running"}, seen : 0..MaxForms]
    BY DEF Rest, Turns, NoSidecar
  <2>3. rot' \in [Rotators -> Turns]
    BY <1>17, <2>2 DEF Crash
  <2>4. sidecar' \in [Plugins -> [pc : {"none", "starting", "running"}, seen : 0..MaxForms]]
    BY <1>17, <2>2 DEF Crash
  <2>5. crashes' \in 0..MaxCrashes
    BY <1>17 DEF Crash, TypeOK
  <2> QED
    BY <1>17, <2>1, <2>3, <2>4, <2>5 DEF Crash, TypeOK
<1>18. CASE UNCHANGED vars
  BY <1>18 DEF vars, TypeOK, CallsFine
<1> QED
  BY <1>1, <1>2, <1>3, <1>4, <1>5, <1>6, <1>7, <1>8, <1>9, <1>10, <1>11, <1>12, <1>13,
     <1>14, <1>15, <1>16, <1>17, <1>18 DEF Next, Serve

-----------------------------------------------------------------------------
(* Locks.                                                                   *)

\* A rotation is alone past the lock of admin_auth, and has the hash in hand.
LEMMA LocksStep ==
    ASSUME TypeOK, LocksHeld, [Next]_vars
    PROVE  LocksHeld'
<1> USE DEF tables, counted
<1>1. ASSUME NEW r \in Rotators, Verify(r) PROVE LocksHeld'
  <2>1. rot' = [rot EXCEPT ![r] = [rot[r] EXCEPT !.pc = "verified", !.current = admin]] /\ UNCHANGED admin
    BY <1>1 DEF Verify
  <2>2. rot'[r].pc = "verified" /\ \A s \in Rotators \ {r} : rot'[s] = rot[s]
    BY <2>1 DEF TypeOK, Turns
  <2> QED
    BY <2>1, <2>2 DEF LocksHeld
<1>2. ASSUME NEW r \in Rotators, Lock(r) PROVE LocksHeld'
  <2>1. rot' = [rot EXCEPT ![r] = [rot[r] EXCEPT !.pc = "locked", !.old = admin, !.new = hashes + 1]]
    BY <1>2 DEF Lock
  <2>2. rot[r] \in Turns
    BY DEF TypeOK
  <2>3. /\ rot'[r].pc = "locked" /\ rot'[r].old = admin /\ rot'[r].new = hashes + 1
        /\ \A s \in Rotators \ {r} : rot'[s] = rot[s]
    BY <2>1, <2>2 DEF TypeOK, Turns
  <2>4. UNCHANGED admin /\ hashes + 1 # 0 /\ ~AdminLocked
    BY <1>2 DEF Lock, TypeOK
  <2> QED
    BY <2>3, <2>4 DEF LocksHeld, AdminLocked
<1>3. ASSUME NEW r \in Rotators, Rewrap(r) PROVE LocksHeld'
  <2> DEFINE rows == IF rot[r].old = 0 THEN {} ELSE {p \in Plugins : kek[p] # NoRow}
             d == [rot[r] EXCEPT !.pc = "rewrapped", !.rows = rows]
  <2>1. (rot' = [rot EXCEPT ![r] = d] \/ rot' = [rot EXCEPT ![r] = Rest]) /\ UNCHANGED admin
    BY <1>3 DEF Rewrap
  <2>2. rot[r] \in Turns /\ rot[r].pc = "locked"
    BY <1>3 DEF TypeOK, Rewrap
  <2>3. d.old = rot[r].old /\ d.new = rot[r].new
    BY <2>2 DEF Turns
  <2>4. rot'[r] \in {d, Rest} /\ \A s \in Rotators \ {r} : rot'[s] = rot[s]
    BY <2>1 DEF TypeOK
  <2>5. Rest.pc = "idle"
    BY DEF Rest
  <2> HIDE DEF d
  <2> QED
    BY <2>1, <2>2, <2>3, <2>4, <2>5 DEF LocksHeld
<1>4. ASSUME NEW r \in Rotators, Commit(r) PROVE LocksHeld'
  <2>1. /\ rot'[r].pc = "idle" /\ \A s \in Rotators \ {r} : rot'[s] = rot[s]
    BY <1>4 DEF Commit, Rest, TypeOK
  <2>2. rot[r].pc = "rewrapped" /\ (rot[r].old = 0 => ~AdminLocked)
    BY <1>4 DEF Commit
  <2>3. \A s \in Rotators \ {r} : rot[s].pc \in {"locked", "rewrapped"} => rot[s].old = 0
    BY <2>2 DEF LocksHeld, AdminLocked
  <2> QED
    BY <2>1, <2>3 DEF LocksHeld
<1>5. CASE Wizard
  BY <1>5 DEF Wizard, LocksHeld, AdminLocked
<1>6. CASE Boot
  BY <1>6 DEF Boot, LocksHeld
<1>7. CASE Crash
  BY <1>7 DEF Crash, LocksHeld, Rest
<1>8. ASSUME NEW x \in Procs, Serve(x) PROVE LocksHeld'
  <2>1. UNCHANGED <<admin, rot>>
    BY <1>8 DEF Serve, Call, Form, Retype, Starts, Find, LoadRow, Unwrap, Derive, Ensure, Store,
                CheckQuota, Put, Killed
  <2> QED
    BY <2>1 DEF LocksHeld
<1>9. ASSUME NEW p \in Plugins, Spawn(p) \/ Enter(p) \/ Uninstall(p) \/ Install(p) PROVE LocksHeld'
  BY <1>9 DEF Spawn, Enter, Uninstall, Install, LocksHeld
<1>10. CASE Delete
  BY <1>10 DEF Delete, LocksHeld
<1>11. CASE UNCHANGED vars
  BY <1>11 DEF vars, LocksHeld
<1> QED
  BY <1>1, <1>2, <1>3, <1>4, <1>5, <1>6, <1>7, <1>8, <1>9, <1>10, <1>11 DEF Next, Rotate

\* A rotation about to commit has locked every wrapped key that counts.
LEMMA RowsStep ==
    ASSUME TypeOK, CallsFine, LocksHeld, RowsLocked, [Next]_vars
    PROVE  RowsLocked'
<1> USE DEF tables, counted
<1>1. ASSUME NEW r \in Rotators, Verify(r) PROVE RowsLocked'
  <2>1. rot' = [rot EXCEPT ![r] = [rot[r] EXCEPT !.pc = "verified", !.current = admin]]
    BY <1>1 DEF Verify
  <2>2. rot'[r].pc = "verified" /\ \A s \in Rotators \ {r} : rot'[s] = rot[s]
    BY <2>1 DEF TypeOK, Turns
  <2>3. UNCHANGED <<kek, raced>>
    BY <1>1 DEF Verify
  <2> QED
    BY <2>2, <2>3 DEF RowsLocked
<1>2. ASSUME NEW r \in Rotators, Lock(r) PROVE RowsLocked'
  <2>1. rot' = [rot EXCEPT ![r] = [rot[r] EXCEPT !.pc = "locked", !.old = admin, !.new = hashes + 1]]
    BY <1>2 DEF Lock
  <2>2. rot'[r].pc = "locked" /\ \A s \in Rotators \ {r} : rot'[s] = rot[s]
    BY <2>1 DEF TypeOK, Turns
  <2>3. UNCHANGED <<kek, raced>>
    BY <1>2 DEF Lock
  <2> QED
    BY <2>2, <2>3 DEF RowsLocked
<1>3. ASSUME NEW r \in Rotators, Rewrap(r) PROVE RowsLocked'
  <2> DEFINE rows == IF rot[r].old = 0 THEN {} ELSE {p \in Plugins : kek[p] # NoRow}
             d == [rot[r] EXCEPT !.pc = "rewrapped", !.rows = rows]
  <2>1. (rot' = [rot EXCEPT ![r] = d] \/ rot' = [rot EXCEPT ![r] = Rest]) /\ UNCHANGED <<kek, raced>>
    BY <1>3 DEF Rewrap
  <2>2. rot[r] \in Turns
    BY DEF TypeOK
  <2>3. d.old = rot[r].old /\ d.rows = rows
    BY <2>2 DEF Turns
  <2>4. rot'[r] \in {d, Rest} /\ \A s \in Rotators \ {r} : rot'[s] = rot[s]
    BY <2>1 DEF TypeOK
  <2>5. Rest.pc = "idle"
    BY DEF Rest
  <2> HIDE DEF d
  <2> QED
    BY <2>1, <2>3, <2>4, <2>5 DEF RowsLocked
<1>4. ASSUME NEW r \in Rotators, Commit(r) PROVE RowsLocked'
  <2>1. /\ rot'[r].pc = "idle" /\ \A s \in Rotators \ {r} : rot'[s] = rot[s]
    BY <1>4 DEF Commit, Rest, TypeOK
  <2>2. rot[r].pc = "rewrapped" /\ rot[r].new # 0
    BY <1>4 DEF Commit, LocksHeld
  <2>3. raced \subseteq raced'
    BY <1>4 DEF Commit
  <2>4. ASSUME NEW p \in Plugins PROVE kek'[p] # NoRow <=> kek[p] # NoRow
    <3>1. kek'[p] = IF p \in rot[r].rows THEN [kek[p] EXCEPT !.hash = rot[r].new] ELSE kek[p]
      BY <1>4 DEF Commit
    <3>2. p \in rot[r].rows => kek[p] # NoRow
      BY <2>2 DEF RowsLocked
    <3>3. kek[p] \in Rows
      BY DEF TypeOK
    <3>4. [kek[p] EXCEPT !.hash = rot[r].new] # NoRow
      BY <2>2, <3>3 DEF NoRow, Rows
    <3> QED
      BY <3>1, <3>2, <3>4
  <2>5. \A s \in Rotators : rot[s].rows \subseteq Plugins
    BY DEF TypeOK, Turns
  <2> QED
    BY <2>1, <2>3, <2>4, <2>5 DEF RowsLocked
<1>5. CASE Wizard
  BY <1>5 DEF Wizard, RowsLocked
<1>6. CASE Boot
  BY <1>6 DEF Boot, RowsLocked
<1>7. CASE Crash
  BY <1>7 DEF Crash, RowsLocked, Rest
<1>8. ASSUME NEW x \in Procs, Serve(x) PROVE RowsLocked'
  <2>1. CASE Ensure(x)
    <3>1. \/ UNCHANGED <<kek, raced>>
          \/ /\ proc[x].p \in Plugins /\ kek' = [kek EXCEPT ![proc[x].p] = proc[x].row]
             /\ proc[x].row # NoRow /\ raced \subseteq raced'
             /\ Missed(proc[x].p) => proc[x].p \in raced'
      <4>1. proc[x].p \in Plugins /\ proc[x].row.dek # 0
        BY <2>1 DEF Ensure, At, CallsFine, CallFine
      <4>2. proc[x].row # NoRow
        BY <4>1 DEF NoRow
      <4> QED
        BY <2>1, <4>1, <4>2 DEF Ensure
    <3>2. UNCHANGED rot
      BY <2>1 DEF Ensure
    <3>3. \A s \in Rotators : rot[s].rows \subseteq Plugins
      BY DEF TypeOK, Turns
    <3> QED
      BY <3>1, <3>2, <3>3 DEF RowsLocked, Missed, TypeOK
  <2>2. CASE ~Ensure(x)
    <3>1. UNCHANGED <<kek, raced, rot>>
      BY <1>8, <2>2 DEF Serve, Call, Form, Retype, Starts, Find, LoadRow, Unwrap, Derive, Store,
                CheckQuota, Put, Killed
    <3> QED
      BY <3>1 DEF RowsLocked
  <2> QED
    BY <2>1, <2>2
<1>9. ASSUME NEW p \in Plugins, Spawn(p) \/ Enter(p) \/ Install(p) PROVE RowsLocked'
  BY <1>9 DEF Spawn, Enter, Install, RowsLocked
<1>10. ASSUME NEW p \in Plugins, Uninstall(p) PROVE RowsLocked'
  <2>1. UNCHANGED rot /\ kek' = [kek EXCEPT ![p] = NoRow] /\ ~RowLocked(p) /\ raced \ {p} \subseteq raced'
    BY <1>10 DEF Uninstall
  <2>2. \A s \in Rotators : rot[s].rows \subseteq Plugins
    BY DEF TypeOK, Turns
  <2> QED
    BY <2>1, <2>2 DEF RowsLocked, RowLocked, TypeOK
<1>11. CASE Delete
  BY <1>11 DEF Delete, RowsLocked
<1>12. CASE UNCHANGED vars
  BY <1>12 DEF vars, RowsLocked
<1> QED
  BY <1>1, <1>2, <1>3, <1>4, <1>5, <1>6, <1>7, <1>8, <1>9, <1>10, <1>11, <1>12 DEF Next, Rotate

-----------------------------------------------------------------------------
(* Keys.                                                                    *)

\* A goroutine that goes on or ends while no wrapped key changes; a secret that
\* is stored is sealed under the stored key.
LEMMA HandsStep ==
    ASSUME TypeOK, KeysAgree, UNCHANGED <<kek, admin, raced, replaced>>,
           \A x \in Procs : proc'[x] # proc[x] => (proc'[x].p \in Plugins \ raced => Hands(proc'[x])),
           \A p \in Plugins \ raced, k \in Keys :
               \/ secret'[p][k] \in {0, secret[p][k]}
               \/ kek[p] # NoRow /\ kek[p].dek = secret'[p][k]
    PROVE  KeysAgree'
<1> SUFFICES ASSUME NEW p \in Plugins \ raced
             PROVE  (RowCurrent(p) /\ HandsAgree(p) /\ SealedByRow(p))'
  BY DEF KeysAgree
<1>1. RowCurrent(p) /\ HandsAgree(p) /\ SealedByRow(p)
  BY DEF KeysAgree
<1>2. RowCurrent(p)' /\ SealedByRow(p)'
  BY <1>1 DEF RowCurrent, SealedByRow, Known
<1>3. ASSUME NEW x \in Procs, proc'[x].p = p PROVE Hands(proc[x])'
  <2>1. Hands(proc'[x])
    BY <1>1, <1>3 DEF HandsAgree
  <2> QED
    BY <2>1 DEF Hands, Known
<1> QED
  BY <1>2, <1>3 DEF HandsAgree

\* Whoever is at no step that holds a key holds none, and so does an idle one.
LEMMA NoHands == \A c : c.pc \notin {"unwrap", "store", "ensure"} => Hands(c)
BY DEF Hands

\* Every step keeps the keys in order.
LEMMA KeysStep ==
    ASSUME KeysInv, [Next]_vars
    PROVE  KeysAgree'
<1> USE DEF tables, counted
<1>0. TypeOK /\ CallsFine /\ LocksHeld /\ RowsLocked /\ KeysAgree
  BY DEF KeysInv
<1>1. ASSUME NEW x \in Procs, Serve(x), ~Ensure(x), ~Store(x) PROVE KeysAgree'
  <2>1. PICK c : /\ CallFine(c) /\ Becomes(x, c)
                 /\ c.p \in Plugins \ raced => Hands(c)
    <3>1. CASE Call(x)
      BY <1>0, <3>1, Called, NoHands
    <3>2. CASE Find(x)
      BY <1>0, <3>2, Found, NoHands, IdleFine
    <3>3. CASE LoadRow(x)
      <4>1. PICK c : /\ CallFine(c) /\ Becomes(x, c)
                     /\ \/ c = Idle \/ c.pc = "derive"
                        \/ c.pc = "unwrap" /\ c.row = kek[c.p] /\ kek[c.p] # NoRow
        BY <1>0, <3>3, RowLoaded
      <4> QED
        BY <4>1, NoHands, IdleFine DEF Hands
    <3>4. CASE Unwrap(x)
      <4>1. PICK c : /\ CallFine(c) /\ Becomes(x, c)
                     /\ \/ c = Idle
                        \/ c.pc = "store" /\ c.p = proc[x].p /\ c.dek = proc[x].row.dek
        BY <1>0, <3>4, Unwrapped
      <4>2. proc[x].pc = "unwrap"
        BY <3>4 DEF Unwrap, At
      <4>3. proc[x].p \in Plugins \ raced => Hands(proc[x])
        BY <1>0 DEF KeysAgree, HandsAgree
      <4> QED
        BY <4>1, <4>2, <4>3, NoHands, IdleFine DEF Hands
    <3>5. CASE Derive(x)
      <4>1. PICK c : /\ CallFine(c) /\ Becomes(x, c)
                     /\ \/ c = Idle
                        \/ c.pc = "ensure" /\ admin # 0 /\ c.row.hash = admin
        BY <1>0, <3>5, Derived
      <4> QED
        BY <4>1, NoHands, IdleFine DEF Hands, Known
    <3>6. CASE CheckQuota(x)
      BY <1>0, <3>6, QuotaChecked, NoHands, IdleFine
    <3>7. CASE Put(x)
      BY <1>0, <3>7, PutDone, NoHands, IdleFine
    <3>8. CASE Killed(x)
      BY <1>0, <3>8, KillDone, NoHands, IdleFine
    <3> QED
      BY <1>1, <3>1, <3>2, <3>3, <3>4, <3>5, <3>6, <3>7, <3>8 DEF Serve
  <2>2. proc'[x] = c /\ \A y \in Procs \ {x} : proc'[y] = proc[y]
    BY <1>0, <2>1, Moved
  <2>3. UNCHANGED <<kek, admin, secret, raced, replaced>>
    BY <1>1 DEF Serve, Call, Form, Retype, Starts, Find, LoadRow, Unwrap, Derive,
                CheckQuota, Put, Killed
  <2> QED
    BY <1>0, <2>1, <2>2, <2>3, HandsStep
<1>2. ASSUME NEW x \in Procs, Ensure(x) PROVE KeysAgree'
  <2> DEFINE q == proc[x].p
             row == proc[x].row
  <2>1. PICK c : /\ CallFine(c) /\ Becomes(x, c)
                 /\ \/ c = Idle /\ UNCHANGED kek /\ UNCHANGED raced
                    \/ /\ c.pc = "store" /\ c.p = q /\ c.dek = row.dek
                       /\ c.p \in Plugins /\ kek' = [kek EXCEPT ![c.p] = row]
    BY <1>0, <1>2, Ensured
  <2>2. proc'[x] = c /\ \A y \in Procs \ {x} : proc'[y] = proc[y]
    BY <1>0, <2>1, Moved
  <2>3. UNCHANGED <<admin, secret, replaced>> /\ proc[x].pc = "ensure" /\ row.dek # 0
    BY <1>0, <1>2 DEF Ensure, At, CallsFine, CallFine
  <2>4. CASE c = Idle /\ UNCHANGED kek /\ UNCHANGED raced
    BY <1>0, <2>2, <2>3, <2>4, HandsStep, NoHands, IdleFine
  <2>5. CASE ~(c = Idle /\ UNCHANGED kek /\ UNCHANGED raced)
    <3>1. /\ c.pc = "store" /\ c.p = q /\ c.dek = row.dek
          /\ q \in Plugins /\ kek' = [kek EXCEPT ![q] = row]
      BY <2>1, <2>5
    <3>2. raced \subseteq raced' /\ (kek[q] = NoRow \/ q \in raced' \/ kek' = kek)
      BY <1>2 DEF Ensure
    <3>3. row # NoRow /\ kek'[q] = row /\ \A p \in Plugins \ {q} : kek'[p] = kek[p]
      BY <1>0, <2>3, <3>1 DEF NoRow, TypeOK
    <3> SUFFICES ASSUME NEW p \in Plugins \ raced'
                 PROVE  (RowCurrent(p) /\ HandsAgree(p) /\ SealedByRow(p))'
      BY DEF KeysAgree
    <3>4. p \notin raced /\ RowCurrent(p) /\ HandsAgree(p) /\ SealedByRow(p)
      BY <1>0, <3>2 DEF KeysAgree
    <3>5. CASE p # q
      <4>1. RowCurrent(p)' /\ SealedByRow(p)'
        BY <2>3, <3>3, <3>4, <3>5 DEF RowCurrent, SealedByRow, Known
      <4>2. ASSUME NEW y \in Procs, proc'[y].p = p PROVE Hands(proc[y])'
        <5>1. y # x /\ proc'[y] = proc[y] /\ Hands(proc[y])
          BY <2>2, <3>1, <3>4, <3>5, <4>2 DEF HandsAgree
        <5> QED
          BY <2>3, <3>3, <3>5, <4>2, <5>1 DEF Hands, Known
      <4> QED
        BY <4>1, <4>2 DEF HandsAgree
    <3>6. CASE p = q
      <4>1. Hands(proc[x])
        BY <3>4, <3>6 DEF HandsAgree
      <4>2. admin # 0 /\ Known(row.hash)
        BY <2>3, <4>1 DEF Hands
      <4>3. RowCurrent(p)'
        BY <2>3, <3>3, <3>6, <4>2 DEF RowCurrent, Known
      <4>4. kek[q] = NoRow \/ kek' = kek
        BY <3>2, <3>6
      <4>5. SealedByRow(p)'
        BY <2>3, <3>3, <3>4, <3>6, <4>4 DEF SealedByRow
      <4>6. ASSUME NEW y \in Procs, proc'[y].p = p PROVE Hands(proc[y])'
        <5>1. CASE y = x
          BY <2>2, <3>1, <3>3, <3>6, <5>1 DEF Hands
        <5>2. CASE y # x
          <6>1. proc'[y] = proc[y] /\ Hands(proc[y])
            BY <2>2, <3>4, <4>6, <5>2 DEF HandsAgree
          <6> QED
            BY <2>3, <3>3, <3>6, <4>4, <4>6, <6>1 DEF Hands, Known
        <5> QED
          BY <5>1, <5>2
      <4> QED
        BY <4>3, <4>5, <4>6 DEF HandsAgree
    <3> QED
      BY <3>5, <3>6
  <2> QED
    BY <2>4, <2>5
<1>3. ASSUME NEW x \in Procs, Store(x) PROVE KeysAgree'
  <2>1. PICK c : CallFine(c) /\ Becomes(x, c) /\ (c = Idle \/ c.pc = "quota")
    BY <1>0, <1>3, Stored
  <2>2. proc'[x] = c /\ \A y \in Procs \ {x} : proc'[y] = proc[y]
    BY <1>0, <2>1, Moved
  <2>3. UNCHANGED <<kek, admin, raced, replaced>>
    BY <1>3 DEF Store
  <2>4. proc[x].pc = "store" /\ proc[x].p \in Plugins /\ proc[x].k \in Keys
    BY <1>0, <1>3, Stored
  <2>5. proc[x].p \notin raced => Hands(proc[x])
    BY <1>0, <2>4 DEF KeysAgree, HandsAgree
  <2>6. ASSUME NEW p \in Plugins \ raced, NEW k \in Keys
        PROVE  \/ secret'[p][k] \in {0, secret[p][k]}
               \/ kek[p] # NoRow /\ kek[p].dek = secret'[p][k]
    <3>1. CASE UNCHANGED secret
      BY <3>1
    <3>2. CASE secret' = [secret EXCEPT ![proc[x].p][proc[x].k] = proc[x].dek]
      <4>1. secret'[p][k] = IF p = proc[x].p /\ k = proc[x].k THEN proc[x].dek ELSE secret[p][k]
        BY <1>0, <3>2 DEF TypeOK
      <4> QED
        BY <2>4, <2>5, <4>1 DEF Hands
    <3> QED
      BY <1>3, <3>1, <3>2 DEF Store
  <2> QED
    BY <1>0, <2>1, <2>2, <2>3, <2>6, HandsStep, NoHands, IdleFine
<1>4. ASSUME NEW r \in Rotators, Commit(r) PROVE KeysAgree'
  <2>1. /\ rot[r].pc = "rewrapped" /\ rot[r].new # 0 /\ admin' = rot[r].new
        /\ UNCHANGED <<secret, proc, replaced>>
    BY <1>0, <1>4 DEF Commit, LocksHeld
  <2>2. raced' = raced \cup Deriving \cup (IF rot[r].old = 0 THEN Stranded(rot[r].new) ELSE {})
    BY <1>4 DEF Commit
  <2> SUFFICES ASSUME NEW p \in Plugins \ raced'
               PROVE  (RowCurrent(p) /\ HandsAgree(p) /\ SealedByRow(p))'
    BY DEF KeysAgree
  <2>3. p \notin raced /\ RowCurrent(p) /\ HandsAgree(p) /\ SealedByRow(p)
    BY <1>0, <2>2 DEF KeysAgree
  <2>4. /\ p \in rot[r].rows => kek[p] # NoRow
        /\ rot[r].old = 0 => rot[r].rows = {}
        /\ rot[r].old # 0 /\ kek[p] # NoRow => p \in rot[r].rows
    BY <1>0, <2>1, <2>3 DEF RowsLocked
  <2>5. /\ kek'[p] # NoRow <=> kek[p] # NoRow
        /\ kek'[p].dek = kek[p].dek
        /\ p \in rot[r].rows => kek'[p].hash = rot[r].new
        /\ p \notin rot[r].rows => kek'[p] = kek[p]
    <3>1. kek'[p] = IF p \in rot[r].rows THEN [kek[p] EXCEPT !.hash = rot[r].new] ELSE kek[p]
      BY <1>4 DEF Commit
    <3>2. kek[p] \in Rows
      BY <1>0 DEF TypeOK
    <3>3. [kek[p] EXCEPT !.hash = rot[r].new] # NoRow
      BY <2>1, <3>2 DEF NoRow, Rows
    <3> QED
      BY <2>4, <3>1, <3>2, <3>3 DEF Rows
  <2>6. RowCurrent(p)'
    <3>1. CASE rot[r].old # 0
      BY <2>1, <2>4, <2>5, <3>1 DEF RowCurrent, Known
    <3>2. CASE rot[r].old = 0
      <4>1. p \notin Stranded(rot[r].new)
        BY <2>2, <3>2
      <4> QED
        BY <2>1, <2>4, <2>5, <3>2, <4>1 DEF RowCurrent, Stranded, Known
    <3> QED
      BY <3>1, <3>2
  <2>7. SealedByRow(p)'
    BY <2>1, <2>3, <2>5 DEF SealedByRow
  <2>8. ASSUME NEW y \in Procs, proc'[y].p = p PROVE Hands(proc[y])'
    <3>1. Hands(proc[y]) /\ proc[y].p = p
      BY <2>1, <2>3, <2>8 DEF HandsAgree
    <3>2. proc[y].pc # "ensure"
      BY <2>2, <3>1 DEF Deriving
    <3> QED
      BY <2>1, <2>5, <3>1, <3>2 DEF Hands
  <2> QED
    BY <2>6, <2>7, <2>8 DEF HandsAgree
<1>5. ASSUME NEW q \in Plugins, Uninstall(q) PROVE KeysAgree'
  <2>1. /\ UNCHANGED <<proc, admin, replaced>>
        /\ kek'[q] = NoRow /\ \A p \in Plugins \ {q} : kek'[p] = kek[p] /\ secret'[p] = secret[p]
        /\ \A k \in Keys : secret'[q][k] = 0
        /\ raced \ {q} \subseteq raced' /\ (q \in Holding => q \in raced')
    BY <1>0, <1>5 DEF Uninstall, TypeOK
  <2> SUFFICES ASSUME NEW p \in Plugins \ raced'
               PROVE  (RowCurrent(p) /\ HandsAgree(p) /\ SealedByRow(p))'
    BY DEF KeysAgree
  <2>2. CASE p = q
    <3>1. p \notin Holding
      BY <2>1, <2>2
    <3>2. ASSUME NEW y \in Procs, proc'[y].p = p PROVE Hands(proc[y])'
      <4>1. proc[y].pc \notin {"unwrap", "ensure", "store"}
        BY <2>1, <3>1, <3>2 DEF Holding
      <4> QED
        BY <2>1, <4>1 DEF Hands
    <3> QED
      BY <2>1, <2>2, <3>2 DEF RowCurrent, SealedByRow, HandsAgree
  <2>3. CASE p # q
    <3>1. RowCurrent(p) /\ HandsAgree(p) /\ SealedByRow(p)
      BY <1>0, <2>1, <2>3 DEF KeysAgree
    <3>2. ASSUME NEW y \in Procs, proc'[y].p = p PROVE Hands(proc[y])'
      BY <2>1, <2>3, <3>1, <3>2 DEF Hands, HandsAgree, Known
    <3> QED
      BY <2>1, <2>3, <3>1, <3>2 DEF RowCurrent, SealedByRow, HandsAgree, Known
  <2> QED
    BY <2>2, <2>3
<1>6. CASE Wizard
  <2>1. /\ UNCHANGED <<kek, secret, proc, raced>> /\ admin' # 0
        /\ replaced' = replaced \cup ({admin} \ {0})
    BY <1>0, <1>6 DEF Wizard, TypeOK
  <2>2. \A h : admin # 0 /\ Known(h) => Known(h)'
    BY <2>1 DEF Known
  <2> SUFFICES ASSUME NEW p \in Plugins \ raced
               PROVE  (RowCurrent(p) /\ HandsAgree(p) /\ SealedByRow(p))'
    BY <2>1 DEF KeysAgree
  <2>3. RowCurrent(p) /\ HandsAgree(p) /\ SealedByRow(p)
    BY <1>0 DEF KeysAgree
  <2>4. ASSUME NEW y \in Procs, proc'[y].p = p PROVE Hands(proc[y])'
    <3>1. Hands(proc[y])
      BY <2>1, <2>3, <2>4 DEF HandsAgree
    <3> QED
      BY <2>1, <2>2, <3>1 DEF Hands
  <2>5. RowCurrent(p)'
    BY <2>1, <2>2, <2>3 DEF RowCurrent
  <2> QED
    BY <2>1, <2>3, <2>4, <2>5 DEF SealedByRow, HandsAgree
<1>7. CASE Delete
  <2>1. UNCHANGED <<kek, admin, raced, replaced, proc>>
    BY <1>7 DEF Delete
  <2>2. PICK q \in installed, j \in scenario.keys : secret' = [secret EXCEPT ![q][j] = 0] \/ UNCHANGED secret
    BY <1>7 DEF Delete
  <2>3. ASSUME NEW p \in Plugins, NEW k \in Keys PROVE secret'[p][k] \in {0, secret[p][k]}
    <3>1. CASE secret' = [secret EXCEPT ![q][j] = 0]
      <4>1. secret'[p][k] = IF p = q /\ k = j THEN 0 ELSE secret[p][k]
        BY <1>0, <3>1 DEF TypeOK
      <4> QED
        BY <4>1
    <3> QED
      BY <2>2, <3>1
  <2> QED
    BY <1>0, <2>1, <2>3, HandsStep
<1>8. CASE Boot
  <2>1. UNCHANGED <<kek, secret, proc, raced, replaced>> /\ (UNCHANGED admin \/ admin = 0)
    BY <1>8 DEF Boot
  <2> SUFFICES ASSUME NEW p \in Plugins \ raced
               PROVE  (RowCurrent(p) /\ HandsAgree(p) /\ SealedByRow(p))'
    BY <2>1 DEF KeysAgree
  <2>2. RowCurrent(p) /\ HandsAgree(p) /\ SealedByRow(p)
    BY <1>0 DEF KeysAgree
  <2>3. ASSUME NEW y \in Procs, proc'[y].p = p PROVE Hands(proc[y])'
    BY <2>1, <2>2, <2>3 DEF HandsAgree, Hands, Known
  <2> QED
    BY <2>1, <2>2, <2>3 DEF RowCurrent, SealedByRow, HandsAgree, Known
<1>9. CASE Crash
  <2>1. \A x \in Procs : proc'[x] = Idle
    BY <1>9 DEF Crash
  <2>2. UNCHANGED <<kek, admin, secret, raced, replaced>>
    BY <1>9 DEF Crash
  <2> QED
    BY <1>0, <2>1, <2>2, HandsStep, IdleFine, NoHands
<1>10. CASE \/ \E r \in Rotators : Verify(r) \/ Lock(r) \/ Rewrap(r)
            \/ \E p \in Plugins : Spawn(p) \/ Enter(p) \/ Install(p)
            \/ UNCHANGED vars
  <2>1. UNCHANGED <<kek, admin, secret, raced, replaced, proc>>
    BY <1>10 DEF Verify, Lock, Rewrap, Spawn, Enter, Install, vars
  <2> QED
    BY <1>0, <2>1, HandsStep
<1> QED
  BY <1>1, <1>2, <1>3, <1>4, <1>5, <1>6, <1>7, <1>8, <1>9, <1>10 DEF Next, Serve, Rotate

\* The start.
LEMMA KeysInit == Init => KeysInv
<1> SUFFICES ASSUME Init PROVE KeysInv
  OBVIOUS
<1>1. NoRow \in Rows /\ Idle \in Works
  BY IdleFine DEF NoRow, Rows, CallFine
<1>2. Rest \in Turns /\ Rest.pc = "idle"
  BY DEF Rest, Turns
<1>3. scenario \in Mixes
  BY DEF Init
<1>4. TypeOK
  <2>1. 0 \in 0..MaxHashes /\ 0 \in 0..MaxDeks /\ 0 \in 0..MaxForms
    OBVIOUS
  <2>2. 0 \in 0..MaxCrashes /\ 0 \in 0..MaxRemovals
    OBVIOUS
  <2>3. scenario.plugins \subseteq Plugins
    BY <1>3 DEF Mixes
  <2>4. sidecar \in [Plugins -> [pc : {"none", "starting", "running"}, seen : 0..MaxForms]]
    BY <2>1 DEF Init, NoSidecar
  <2>5. kek \in [Plugins -> Rows] /\ secret \in [Plugins -> [Keys -> 0..MaxDeks]]
    BY <1>1, <2>1 DEF Init
  <2>6. kv \in [Plugins -> SUBSET Keys] /\ fields \in [Plugins -> 0..MaxForms]
    BY <2>1 DEF Init
  <2>7. proc \in [Procs -> Works] /\ rot \in [Rotators -> Turns]
    BY <1>1, <1>2 DEF Init
  <2>8. /\ installed \subseteq Plugins /\ admin \in 0..MaxHashes /\ up \in BOOLEAN
        /\ raced \subseteq Plugins /\ replaced \subseteq 1..MaxHashes /\ torn \subseteq Plugins /\ blank \subseteq Plugins
    BY <2>1, <2>3 DEF Init
  <2>9. /\ hashes \in 0..MaxHashes /\ deks \in 0..MaxDeks /\ crashes \in 0..MaxCrashes
        /\ removals \in 0..MaxRemovals
    BY <2>1, <2>2 DEF Init
  <2> QED
    BY <1>3, <2>4, <2>5, <2>6, <2>7, <2>8, <2>9 DEF TypeOK
<1>5. CallsFine
  BY IdleFine DEF Init, CallsFine
<1>6. LocksHeld /\ RowsLocked
  BY <1>2 DEF Init, LocksHeld, RowsLocked
<1>7. KeysAgree
  BY IdleFine, NoHands DEF Init, KeysAgree, RowCurrent, HandsAgree, SealedByRow
<1> QED
  BY <1>4, <1>5, <1>6, <1>7 DEF KeysInv

\* The keys stay in order along every run.
THEOREM KeysKept == Spec => []KeysInv
<1>1. KeysInv /\ [Next]_vars => KeysInv'
  BY TypesStep, LocksStep, RowsStep, KeysStep DEF KeysInv
<1> QED
  BY KeysInit, <1>1, PTL DEF Spec

\* Every table, goroutine and rotation is well-formed in every state.
THEOREM TypeCorrect == Spec => []TypeOK
<1>1. KeysInv => TypeOK
  BY DEF KeysInv
<1> QED
  BY KeysKept, <1>1, PTL

\* The key of a plugin that no two overlapping steps have written is the one
\* that seals its secrets, and opens unless a wizard has replaced the password.
THEOREM StoredSecretsReadable == Spec => []SecretsReadable
<1>1. KeysInv => SecretsReadable
  BY DEF KeysInv, SecretsReadable, KeysAgree, RowCurrent, SealedByRow, Opens, Left, Known
<1> QED
  BY KeysKept, <1>1, PTL

\* A rotation that has the lock opens every wrapped key of a plugin that was
\* neither raced nor left by a wizard.
THEOREM RotationsGoThrough == Spec => []RotationGoesThrough
<1>1. KeysInv => RotationGoesThrough
  BY DEF KeysInv, RotationGoesThrough, LocksHeld, KeysAgree, RowCurrent, Stranded, Left, Known
<1> QED
  BY KeysKept, <1>1, PTL


-----------------------------------------------------------------------------
(* Sidecars.                                                                *)

\* What keeps sidecars current: fields change under a goroutine that knows it
\* wrote; a goroutine that forgets so leaves the plugin torn or killed; a
\* sidecar that comes has seen all.
LEMMA SeenKept ==
    ASSUME SidecarSeen,
           \A p \in torn : p \in torn' \/ sidecar'[p].pc = "none",
           \A p \in Plugins : \/ fields'[p] = fields[p]
                              \/ \E x \in Procs : proc'[x].p = p /\ proc'[x].wrote,
           \A p \in Plugins : \/ sidecar'[p].pc = "none"
                              \/ sidecar'[p].seen = fields[p]
                              \/ sidecar[p].pc # "none" /\ sidecar'[p].seen = sidecar[p].seen,
           \A x \in Procs : proc[x].wrote => \/ proc'[x].wrote /\ proc'[x].p = proc[x].p
                                             \/ proc[x].p \in torn'
                                             \/ sidecar'[proc[x].p].pc = "none"
    PROVE  SidecarSeen'
<1> SUFFICES ASSUME NEW p \in Plugins, p \notin torn',
                    \A x \in Procs : proc'[x].p = p => ~proc'[x].wrote,
                    sidecar'[p].pc # "none"
             PROVE  sidecar'[p].seen = fields'[p]
  BY DEF SidecarSeen
<1>1. fields'[p] = fields[p] /\ p \notin torn
  OBVIOUS
<1>2. \A x \in Procs : proc[x].p = p => ~proc[x].wrote
  OBVIOUS
<1> QED
  BY <1>1, <1>2 DEF SidecarSeen

\* A goroutine becomes c, the sidecars stay.
LEMMA SeenCall ==
    ASSUME TypeOK, CallsFine, SidecarSeen, NEW x \in Procs, NEW c, CallFine(c), Becomes(x, c),
           UNCHANGED sidecar, torn \subseteq torn',
           \/ UNCHANGED fields
           \/ c.wrote /\ \A p \in Plugins \ {c.p} : fields'[p] = fields[p],
           proc[x].wrote => (c.wrote /\ c.p = proc[x].p) \/ proc[x].p \in torn'
    PROVE  SidecarSeen'
<1>1. proc'[x] = c /\ \A y \in Procs \ {x} : proc'[y] = proc[y]
  BY Moved
<1>2. \A p \in Plugins : \/ fields'[p] = fields[p]
                         \/ \E y \in Procs : proc'[y].p = p /\ proc'[y].wrote
  BY <1>1
<1>3. \A y \in Procs : proc[y].wrote => \/ proc'[y].wrote /\ proc'[y].p = proc[y].p
                                        \/ proc[y].p \in torn'
  BY <1>1
<1>4. \A p \in Plugins : sidecar'[p].pc # "none" => sidecar[p].pc # "none" /\ sidecar'[p].seen = sidecar[p].seen
  OBVIOUS
<1> QED
  BY <1>2, <1>3, <1>4, SeenKept

\* Every step keeps SidecarSeen.
LEMMA SeenStep ==
    ASSUME TypeOK, CallsFine, SidecarSeen, [Next]_vars
    PROVE  SidecarSeen'
<1> USE DEF tables, counted
<1>1. ASSUME NEW x \in Procs, Call(x) \/ Find(x) PROVE SidecarSeen'
  <2>1. PICK c : CallFine(c) /\ Becomes(x, c)
    BY <1>1, Called, Found
  <2>2. UNCHANGED <<sidecar, fields, torn>> /\ proc[x].pc \in {"idle", "find"}
    BY <1>1, IdleFine DEF Call, Form, Retype, Starts, Find, At
  <2>3. ~proc[x].wrote
    BY <2>2 DEF CallsFine, CallFine
  <2> QED
    BY <2>1, <2>2, <2>3, SeenCall
<1>2. ASSUME NEW x \in Procs, LoadRow(x) \/ Unwrap(x) \/ Derive(x) \/ Ensure(x) PROVE SidecarSeen'
  <2>1. PICK c : CallFine(c) /\ Becomes(x, c)
    BY <1>2, RowLoaded, Unwrapped, Derived, Ensured
  <2>2. UNCHANGED <<sidecar, fields>> /\ torn \subseteq torn'
    BY <1>2 DEF LoadRow, Unwrap, Derive, Ensure, Fails, Passes
  <2>3. ~proc[x].wrote
    BY <1>2, RowLoaded, Unwrapped, Derived, Ensured
  <2> QED
    BY <2>1, <2>2, <2>3, SeenCall
<1>3. ASSUME NEW x \in Procs, Store(x) PROVE SidecarSeen'
  <2>1. PICK c : /\ CallFine(c) /\ Becomes(x, c)
                 /\ \/ UNCHANGED fields
                    \/ c.wrote /\ fields' = [fields EXCEPT ![c.p] = @ + 1]
    BY <1>3, Stored
  <2>2. \/ UNCHANGED fields
        \/ c.wrote /\ \A p \in Plugins \ {c.p} : fields'[p] = fields[p]
    BY <2>1 DEF TypeOK
  <2>3. UNCHANGED sidecar /\ torn \subseteq torn' /\ ~proc[x].wrote
    BY <1>3, Stored DEF Store
  <2> QED
    BY <2>1, <2>2, <2>3, SeenCall
<1>4. ASSUME NEW x \in Procs, CheckQuota(x) \/ Put(x) PROVE SidecarSeen'
  <2>1. PICK c : /\ CallFine(c) /\ Becomes(x, c)
                 /\ \/ UNCHANGED fields
                    \/ c.wrote /\ fields' = [fields EXCEPT ![c.p] = @ + 1]
                 /\ proc[x].wrote => (c.wrote /\ c.p = proc[x].p) \/ proc[x].p \in torn'
    <3>1. CASE CheckQuota(x)
      BY <3>1, QuotaChecked
    <3>2. CASE Put(x)
      BY <3>2, PutDone
    <3> QED
      BY <1>4, <3>1, <3>2
  <2>2. \/ UNCHANGED fields
        \/ c.wrote /\ \A p \in Plugins \ {c.p} : fields'[p] = fields[p]
    BY <2>1 DEF TypeOK
  <2>3. UNCHANGED sidecar /\ torn \subseteq torn'
    BY <1>4, QuotaChecked, PutDone DEF CheckQuota, Put
  <2> QED
    BY <2>1, <2>2, <2>3, SeenCall
<1>5. ASSUME NEW x \in Procs, Killed(x) PROVE SidecarSeen'
  <2> DEFINE q == proc[x].p
  <2>1. q \in Plugins /\ CallFine(Idle) /\ Becomes(x, Idle)
    BY <1>5, KillDone
  <2>2. \A y \in Procs \ {x} : proc'[y] = proc[y]
    BY <2>1, Moved
  <2>3. CASE sidecar[q].pc = "starting"
    <3>1. UNCHANGED <<sidecar, fields>> /\ torn' = torn \cup {q}
      BY <1>5, <2>3 DEF Killed
    <3> QED
      BY <2>1, <3>1, SeenCall
  <2>4. CASE sidecar[q].pc # "starting"
    <3>1. UNCHANGED fields /\ torn' = torn \ {q} /\ sidecar' = [sidecar EXCEPT ![q] = NoSidecar]
      BY <1>5, <2>4 DEF Killed
    <3>2. sidecar'[q].pc = "none" /\ \A p \in Plugins \ {q} : sidecar'[p] = sidecar[p]
      BY <2>1, <3>1 DEF TypeOK, NoSidecar
    <3>3. \A p \in torn : p \in torn' \/ sidecar'[p].pc = "none"
      BY <3>1, <3>2
    <3>4. \A p \in Plugins : \/ sidecar'[p].pc = "none"
                             \/ sidecar[p].pc # "none" /\ sidecar'[p].seen = sidecar[p].seen
      BY <3>2
    <3>5. \A y \in Procs : proc[y].wrote => \/ proc'[y].wrote /\ proc'[y].p = proc[y].p
                                            \/ sidecar'[proc[y].p].pc = "none"
      BY <2>2, <3>2
    <3> QED
      BY <3>1, <3>3, <3>4, <3>5, SeenKept
  <2> QED
    BY <2>3, <2>4
<1>6. ASSUME NEW q \in Plugins, Spawn(q) \/ Enter(q) PROVE SidecarSeen'
  <2>1. UNCHANGED <<fields, proc, torn>>
    BY <1>6 DEF Spawn, Enter
  <2>2. \A p \in Plugins : \/ sidecar'[p].seen = fields[p]
                           \/ sidecar[p].pc # "none" /\ sidecar'[p].seen = sidecar[p].seen
                           \/ sidecar'[p] = sidecar[p]
    BY <1>6 DEF Spawn, Enter, TypeOK
  <2>3. \A p \in Plugins : \/ sidecar'[p].pc = "none"
                           \/ sidecar'[p].seen = fields[p]
                           \/ sidecar[p].pc # "none" /\ sidecar'[p].seen = sidecar[p].seen
    BY <2>2
  <2> QED
    BY <2>1, <2>3, SeenKept
<1>7. CASE Crash
  <2>1. \A p \in Plugins : sidecar'[p].pc = "none"
    BY <1>7 DEF Crash, NoSidecar
  <2> QED
    BY <2>1 DEF SidecarSeen
<1>8. CASE \/ \E r \in Rotators : Rotate(r)
           \/ \E p \in Plugins : Install(p) \/ Uninstall(p)
           \/ Delete \/ Wizard \/ Boot \/ UNCHANGED vars
  <2>1. UNCHANGED <<fields, sidecar, proc, torn>>
    BY <1>8 DEF Rotate, Verify, Lock, Rewrap, Commit, Install, Uninstall, Delete, Wizard, Boot, vars
  <2> QED
    BY <2>1 DEF SidecarSeen
<1> QED
  BY <1>1, <1>2, <1>3, <1>4, <1>5, <1>6, <1>7, <1>8 DEF Next, Serve

\* A running sidecar has seen what forms have stored, unless a form is not
\* finished, failed halfway or met it while it started.
THEOREM SidecarsCurrent == Spec => []SidecarCurrent
<1>1. Init => SidecarSeen
  BY DEF Init, SidecarSeen, NoSidecar
<1>2. KeysInv /\ SidecarSeen /\ [Next]_vars => SidecarSeen'
  BY SeenStep DEF KeysInv
<1>3. SidecarSeen => SidecarCurrent
  BY DEF SidecarSeen, SidecarCurrent
<1> QED
  BY KeysKept, <1>1, <1>2, <1>3, PTL DEF Spec

-----------------------------------------------------------------------------
(* The quota.                                                               *)

\* What is filled is a finite set of keys.
LEMMA FilledFinite ==
    ASSUME TypeOK, CallsFine, NEW p \in Plugins
    PROVE  Filled(p) \subseteq Keys /\ IsFiniteSet(Filled(p)) /\ Cardinality(Filled(p)) \in Nat
<1>1. Filled(p) \subseteq Keys
  BY DEF TypeOK, CallsFine, CallFine, Filled, Filling
<1>2. IsFiniteSet(Filled(p))
  BY <1>1, FS_Subset
<1> QED
  BY <1>1, <1>2, FS_CardinalityType

\* A plugin for which no goroutine starts to put a value fills no more.
LEMMA FillsLess ==
    ASSUME TypeOK, CallsFine, NEW p \in Plugins, kv'[p] \subseteq Filled(p),
           \A x \in Procs : proc'[x] = proc[x] \/ proc'[x].pc # "put" \/ proc'[x].p # p
    PROVE  Cardinality(Filled(p)') <= Cardinality(Filled(p))
<1>1. Filled(p)' \subseteq Filled(p)
  BY DEF Filled, Filling
<1> QED
  BY <1>1, FilledFinite, FS_Subset

\* The other goroutines put at most one value each.
LEMMA OthersFill ==
    ASSUME NEW x \in Procs, NEW F, F \subseteq Procs \ {x}
    PROVE  LET K == {proc[y].k : y \in F}
           IN  /\ IsFiniteSet(K) /\ Cardinality(K) \in Nat
               /\ Cardinality(K) <= Cardinality(Procs) - 1
<1> DEFINE K == {proc[y].k : y \in F}
           f == [y \in F |-> proc[y].k]
<1>1. IsFiniteSet(Procs \ {x}) /\ Cardinality(Procs \ {x}) = Cardinality(Procs) - 1
  BY FS_RemoveElement
<1>2. IsFiniteSet(F) /\ Cardinality(F) <= Cardinality(Procs) - 1
  BY <1>1, FS_Subset
<1>3. f \in Surjection(F, K)
  BY DEF Surjection
<1>4. IsFiniteSet(K) /\ Cardinality(K) <= Cardinality(F)
  BY <1>2, <1>3, FS_Surjection
<1>5. Cardinality(F) \in Nat /\ Cardinality(K) \in Nat /\ Cardinality(Procs) \in Nat
  BY <1>2, <1>4, FS_CardinalityType
<1> QED
  BY <1>2, <1>4, <1>5

\* A goroutine whose check has passed, and the values of the others.
LEMMA QuotaPassed ==
    ASSUME TypeOK, CallsFine, NEW x \in Procs, CheckQuota(x), NEW c, CallFine(c), Becomes(x, c),
           c.pc = "put", c.p \in Plugins, UNCHANGED kv,
           Cardinality(kv[c.p] \ {c.k}) + 1 < Quota
    PROVE  Cardinality(Filled(c.p)') + 1 <= Quota + (Cardinality(Procs) - 1)
<1> DEFINE p == c.p
           F == Filling(p) \ {x}
           K == {proc[y].k : y \in F}
           V == kv[p] \ {c.k}
<1>1. proc'[x] = c /\ \A y \in Procs \ {x} : proc'[y] = proc[y]
  BY Moved
<1>2. Filled(p)' \subseteq (V \cup {c.k}) \cup K
  BY <1>1 DEF Filled, Filling
<1>3. /\ IsFiniteSet(K) /\ Cardinality(K) \in Nat
      /\ Cardinality(K) <= Cardinality(Procs) - 1
  BY OthersFill DEF Filling
<1>4. IsFiniteSet(V) /\ Cardinality(V) \in Nat
  <2>1. V \subseteq Keys
    BY DEF TypeOK
  <2> QED
    BY <2>1, FS_Subset, FS_CardinalityType
<1>5. IsFiniteSet(V \cup {c.k}) /\ Cardinality(V \cup {c.k}) = Cardinality(V) + 1
  BY <1>4, FS_AddElement
<1>6. /\ IsFiniteSet((V \cup {c.k}) \cup K)
      /\ Cardinality((V \cup {c.k}) \cup K) <= Cardinality(V) + 1 + Cardinality(K)
  <2>1. (V \cup {c.k}) \cap K \subseteq K
    OBVIOUS
  <2>2. Cardinality((V \cup {c.k}) \cap K) \in Nat
    BY <1>3, <2>1, FS_Subset, FS_CardinalityType
  <2> HIDE DEF V, K
  <2> DEFINE W == V \cup {c.k}
  <2>3. IsFiniteSet(W) /\ Cardinality(W) = Cardinality(V) + 1 /\ Cardinality(W \cap K) \in Nat
    BY <1>5, <2>2
  <2> HIDE DEF W
  <2>4. /\ IsFiniteSet(W \cup K)
        /\ Cardinality(W \cup K) = Cardinality(W) + Cardinality(K) - Cardinality(W \cap K)
    BY <1>3, <2>3, FS_Union
  <2>5. IsFiniteSet(W \cup K) /\ Cardinality(W \cup K) <= Cardinality(V) + 1 + Cardinality(K)
    BY <1>3, <1>4, <2>3, <2>4
  <2> QED
    BY <2>5 DEF W
<1>7. /\ Cardinality(Filled(p)') <= Cardinality((V \cup {c.k}) \cup K)
      /\ Cardinality(Filled(p)') \in Nat /\ Cardinality((V \cup {c.k}) \cup K) \in Nat
  BY <1>2, <1>6, FS_Subset, FS_CardinalityType
<1>8. Cardinality(Procs) \in Nat /\ Cardinality(V) + 1 < Quota
  BY FS_CardinalityType
<1> HIDE DEF V, K, F, p
<1> QED
  BY <1>3, <1>4, <1>6, <1>7, <1>8 DEF p

\* Every step keeps QuotaInv.
LEMMA QuotaStep ==
    ASSUME TypeOK, CallsFine, QuotaInv, [Next]_vars
    PROVE  QuotaInv'
<1> USE DEF tables, counted
<1> SUFFICES ASSUME NEW p \in Plugins
             PROVE  Cardinality(Filled(p)') + 1 <= Quota + (Cardinality(Procs) - 1)
  BY DEF QuotaInv
<1>0. /\ Cardinality(Filled(p)) \in Nat /\ Cardinality(Filled(p)') \in Nat
      /\ Cardinality(Procs) \in Nat
      /\ Cardinality(Filled(p)) + 1 <= Quota + (Cardinality(Procs) - 1)
      /\ kv[p] \subseteq Filled(p)
  <2>1. TypeOK' /\ CallsFine'
    BY TypesStep
  <2>2. Filled(p)' \subseteq Keys
    BY <2>1 DEF TypeOK, CallsFine, CallFine, Filled, Filling
  <2>3. Cardinality(Filled(p)') \in Nat
    BY <2>2, FS_Subset, FS_CardinalityType
  <2> QED
    BY <2>3, FilledFinite, FS_CardinalityType DEF QuotaInv, Filled
<1>1. ASSUME kv'[p] \subseteq Filled(p),
             \A x \in Procs : proc'[x] = proc[x] \/ proc'[x].pc # "put" \/ proc'[x].p # p
      PROVE  Cardinality(Filled(p)') + 1 <= Quota + (Cardinality(Procs) - 1)
  BY <1>0, <1>1, FillsLess
<1>2. ASSUME NEW x \in Procs, CheckQuota(x)
      PROVE  Cardinality(Filled(p)') + 1 <= Quota + (Cardinality(Procs) - 1)
  <2>1. PICK c : /\ CallFine(c) /\ Becomes(x, c)
                 /\ \/ c = Idle /\ UNCHANGED kv
                    \/ /\ c.pc = "put" /\ c.p = proc[x].p /\ UNCHANGED kv
                       /\ Cardinality(kv[c.p] \ {c.k}) + 1 < Quota
                    \/ c.pc = "kill" /\ kv' = [kv EXCEPT ![c.p] = @ \ {proc[x].k}]
    BY <1>2, QuotaChecked
  <2>2. proc'[x] = c /\ \A y \in Procs \ {x} : proc'[y] = proc[y]
    BY <2>1, Moved
  <2>3. CASE c.pc = "put" /\ c.p = p
    BY <1>2, <2>1, <2>3, QuotaPassed, IdleFine
  <2>4. CASE ~(c.pc = "put" /\ c.p = p)
    <3>1. kv'[p] \subseteq kv[p]
      BY <2>1 DEF TypeOK
    <3> QED
      BY <1>0, <1>1, <2>2, <2>4, <3>1
  <2> QED
    BY <2>3, <2>4
<1>3. ASSUME NEW x \in Procs, Put(x)
      PROVE  Cardinality(Filled(p)') + 1 <= Quota + (Cardinality(Procs) - 1)
  <2>1. PICK c : CallFine(c) /\ Becomes(x, c) /\ (c = Idle \/ c.pc = "kill")
    BY <1>3, PutDone
  <2>2. proc'[x] = c /\ \A y \in Procs \ {x} : proc'[y] = proc[y]
    BY <2>1, Moved
  <2>3. /\ proc[x].pc = "put"
        /\ UNCHANGED kv \/ kv' = [kv EXCEPT ![proc[x].p] = @ \cup {proc[x].k}]
    BY <1>3, PutDone
  <2>4. kv'[p] \subseteq Filled(p)
    BY <2>3 DEF Filled, Filling, TypeOK
  <2> QED
    BY <1>1, <2>1, <2>2, <2>4, IdleFine
<1>4. ASSUME NEW x \in Procs, Serve(x), ~CheckQuota(x), ~Put(x)
      PROVE  Cardinality(Filled(p)') + 1 <= Quota + (Cardinality(Procs) - 1)
  <2>1. PICK c : CallFine(c) /\ Becomes(x, c) /\ c.pc # "put"
    BY <1>4, Called, Found, RowLoaded, Unwrapped, Derived, Ensured, Stored, KillDone, IdleFine DEF Serve
  <2>2. proc'[x] = c /\ \A y \in Procs \ {x} : proc'[y] = proc[y]
    BY <2>1, Moved
  <2>3. UNCHANGED kv
    BY <1>4 DEF Serve, Call, Form, Retype, Starts, Find, LoadRow, Unwrap, Derive, Ensure, Store, Killed
  <2> QED
    BY <1>0, <1>1, <2>1, <2>2, <2>3
<1>5. CASE Crash
  BY <1>0, <1>1, <1>5, IdleFine DEF Crash
<1>6. CASE Delete
  <2>0. kv \in [Plugins -> SUBSET Keys]
    BY DEF TypeOK
  <2>1. UNCHANGED proc /\ kv'[p] \subseteq kv[p]
    BY <1>6, <2>0 DEF Delete
  <2> QED
    BY <1>0, <1>1, <2>1
<1>7. ASSUME NEW q \in Plugins, Uninstall(q)
      PROVE  Cardinality(Filled(p)') + 1 <= Quota + (Cardinality(Procs) - 1)
  <2>1. UNCHANGED proc /\ kv'[p] \subseteq kv[p]
    BY <1>7 DEF Uninstall, TypeOK
  <2> QED
    BY <1>0, <1>1, <2>1
<1>8. CASE \/ \E r \in Rotators : Rotate(r)
           \/ \E q \in Plugins : Install(q) \/ Spawn(q) \/ Enter(q)
           \/ Wizard \/ Boot \/ UNCHANGED vars
  <2>1. UNCHANGED <<kv, proc>>
    BY <1>8 DEF Rotate, Verify, Lock, Rewrap, Commit, Install, Spawn, Enter, Wizard, Boot, vars
  <2> QED
    BY <1>0, <1>1, <2>1
<1> QED
  BY <1>2, <1>3, <1>4, <1>5, <1>6, <1>7, <1>8 DEF Next

\* The quota is passed by less than one value for each further goroutine that
\* writes at the same time.
THEOREM QuotaHolds == Spec => []QuotaOvershoot
<1>1. Init => QuotaInv
  <2> SUFFICES ASSUME Init, NEW p \in Plugins
               PROVE  Cardinality(Filled(p)) + 1 <= Quota + (Cardinality(Procs) - 1)
    BY DEF QuotaInv
  <2>1. Filled(p) = {}
    BY IdleFine DEF Init, Filled, Filling
  <2>2. Cardinality(Procs) \in Nat /\ Cardinality(Procs) # 0
    BY FS_CardinalityType, FS_EmptySet
  <2> QED
    BY <2>1, <2>2, FS_EmptySet
<1>2. KeysInv /\ QuotaInv /\ [Next]_vars => QuotaInv'
  BY QuotaStep DEF KeysInv
<1>3. KeysInv /\ QuotaInv => QuotaOvershoot
  <2> SUFFICES ASSUME KeysInv, QuotaInv, NEW p \in Plugins
               PROVE  Cardinality(kv[p]) + 1 <= Quota + (Cardinality(Procs) - 1)
    BY DEF QuotaOvershoot
  <2>1. /\ IsFiniteSet(Filled(p)) /\ Cardinality(Filled(p)) \in Nat
        /\ Cardinality(Filled(p)) + 1 <= Quota + (Cardinality(Procs) - 1)
    BY FilledFinite DEF KeysInv, QuotaInv
  <2>2. kv[p] \subseteq Filled(p)
    BY DEF Filled
  <2>3. Cardinality(kv[p]) <= Cardinality(Filled(p)) /\ Cardinality(kv[p]) \in Nat
    BY <2>1, <2>2, FS_Subset, FS_CardinalityType
  <2>4. Cardinality(Procs) \in Nat
    BY FS_CardinalityType
  <2> QED
    BY <2>1, <2>3, <2>4
<1> QED
  BY KeysKept, <1>1, <1>2, <1>3, PTL DEF Spec
=============================================================================
