----------------------- MODULE PluginLifecycleProofs -----------------------
(***************************************************************************)
(* Proofs about PluginLifecycle, for any bundles, request goroutines and   *)
(* bounds, a built-in or not, required or not.  What a request answered is *)
(* followed from the step that began it, as long as it is alone: what it   *)
(* has written so far is what the plugin is.                               *)
(***************************************************************************)
EXTENDS PluginLifecycle, TLAPS

USE LifecycleAssumption

-----------------------------------------------------------------------------
(* The invariant.                                                           *)

\* Where a request of each kind can be.
ReqFine(r) ==
    /\ At(r, "idle") => req[r] = Idle
    /\ req[r].op = "none" => At(r, "idle")
    /\ req[r].tok # None => req[r].op = "confirm"
    /\ req[r].op = "confirm" =>
          req[r].tok # None /\ req[r].pc \in {"begin", "trash", "move", "commit", "upsert", "load"}
    /\ req[r].pc \in {"begin", "trash", "move", "commit"} => req[r].op = "confirm"
    /\ req[r].pc \in {"upsert", "load"} => req[r].op \in {"confirm", "restore", "post"}
    /\ At(r, "load") => req[r].man # None
    /\ At(r, "delete") => req[r].op \in {"uninstall", "remove"}
    /\ req[r].pc \in {"purge", "bury"} => req[r].op = "uninstall"
    /\ At(r, "clear") => req[r].op \in {"uninstall", "restore"}
    /\ At(r, "flag") => req[r].op = "toggle"

\* A request that is alone is the only one; an outcome is clear when all have answered;
\* a boot without rows has loaded nothing.
OnlyOne ==
    /\ \A r \in Reqs : req[r].alone => Active = {r}
    /\ said # "unclear" => Active = {}
    /\ ~up => Active = {} /\ mem = None
    /\ blind => up /\ Active = {} /\ mem = None

\* Tokens of overlapping Confirms are known, and one goroutine has a token.
TokensApart ==
    /\ \A r, q \in Active : r # q /\ req[r].tok # None => req[r].tok \in mixed
    /\ \A r \in Reqs : req[r].tok \notin pending
    /\ \A r, q \in Reqs : req[r].tok # None /\ req[q].tok = req[r].tok => r = q

\* Where the bundle of a Confirm is.
BundleOf(r) ==
    /\ req[r].pc \in {"begin", "trash", "move"} => req[r].tok \in staged \cup mixed
    /\ At(r, "commit") => req[r].tok \in mixed \/ dir[Home(r)] = req[r].tok
    /\ req[r].pc \in {"commit", "upsert", "load"} => req[r].tok \notin staged

\* What is loaded or has a row was granted to its bundle.
GrantOf ==
    /\ mem # None /\ mem.from \in Tokens => grant = mem.from
    /\ row # None /\ row.from \in Tokens => grant = row.from

\* What a request that is alone has done so far.
AloneFine(r) ==
    /\ At(r, "commit") => dir[Home(r)] = req[r].tok
    /\ At(r, "upsert") /\ req[r].op = "confirm" => dir[Home(r)] = req[r].tok /\ grant = req[r].tok
    /\ At(r, "load") => /\ row = Live(req[r].man, TRUE)
                        /\ req[r].man \in Tokens => grant = req[r].man
    /\ req[r].op \in {"uninstall", "remove"} => mem = None \/ (Required /\ mem.from = "builtin")
    /\ req[r].op = "uninstall" /\ req[r].pc \in {"bury", "clear"} => row = None
    /\ req[r].op = "uninstall" /\ At(r, "clear") => tomb
    /\ At(r, "flag") => /\ GrantOf
                        /\ mem # None /\ mem.enabled = req[r].on
                        /\ ~Required => row # None /\ contrib # None

\* What the last answer said.
SaidFine ==
    said # "unclear" =>
        /\ GrantOf
        /\ ~Required =>
             IF said = "uninstalled"
               THEN row = None /\ mem = None /\ (Builtin => tomb)
               ELSE /\ row # None /\ row.enabled = (said # "disabled")
                    /\ up /\ ~blind => mem # None /\ contrib # None /\ mem.enabled = row.enabled

GrantRow == grant # None => row # None

ReqsFine == \A r \in Reqs : ReqFine(r) /\ BundleOf(r) /\ (req[r].alone => AloneFine(r))
LifeInv ==
    /\ TypeOK /\ ReqsFine /\ OnlyOne /\ TokensApart /\ SaidFine /\ GrantRow /\ StagingAccounted

-----------------------------------------------------------------------------
(* What a step of a request does to it and to the others.                   *)

Ops    == {"none", "confirm", "uninstall", "remove", "restore", "toggle", "post"}
PCs    == {"idle", "begin", "trash", "move", "commit", "upsert", "load", "delete",
           "purge", "bury", "clear", "flag"}
ReqRec == [op : Ops, pc : PCs, tok : Tokens \cup {None}, man : Sources \cup {None},
           on : BOOLEAN, alone : BOOLEAN]

\* The fields of the record of a goroutine without a request.
LEMMA IdleRecord ==
    /\ Idle \in ReqRec /\ Idle.op = "none" /\ Idle.pc = "idle" /\ Idle.tok = None
    /\ Idle.alone = FALSE
  BY DEF Idle, ReqRec, Ops, PCs, Sources

\* Request r goes on as x, or has answered.
Moves(r, x) ==
    /\ req' = [req EXCEPT ![r] = x] /\ x \in ReqRec
    /\ x # Idle => x.op = req[r].op /\ x.tok = req[r].tok /\ x.alone = req[r].alone
    /\ UNCHANGED <<up, blind, lost, mixed, expired>>

Puts(r, x) == req' = [req EXCEPT ![r] = x]

\* The fields of a row, or of what is loaded.
LEMMA LiveRecord ==
    ASSUME NEW f \in Sources, NEW e \in BOOLEAN
    PROVE  Live(f, e) \in Lives /\ Live(f, e) # None /\ Live(f, e).from = f /\ Live(f, e).enabled = e
<1>1. Live(f, e) \in [from : Sources, enabled : BOOLEAN]
  BY DEF Live
<1>. QED
  BY <1>1 DEF Live, Lives

\* It goes on at p.
Goes(r, p, x) ==
    /\ Moves(r, x) /\ x # Idle /\ req'[r] = x
    /\ x.pc = p /\ x.op = req[r].op /\ x.tok = req[r].tok /\ x.man = req[r].man
    /\ x.on = req[r].on /\ x.alone = req[r].alone

\* A request that goes on at p.
LEMMA GoMoves ==
    ASSUME TypeOK, NEW r \in Reqs, NEW p \in PCs, p # "idle", Go(r, p),
           UNCHANGED <<up, blind, lost, mixed, expired>>
    PROVE  \E x \in ReqRec : Goes(r, p, x)
<1>. DEFINE x == [req[r] EXCEPT !.pc = p]
<1>1. req[r] \in ReqRec
  BY DEF TypeOK, ReqRec, Ops, PCs
<1>2. /\ x.pc = p /\ x.op = req[r].op /\ x.tok = req[r].tok /\ x.man = req[r].man
      /\ x.on = req[r].on /\ x.alone = req[r].alone /\ x \in ReqRec
  BY <1>1 DEF ReqRec
<1>3. Puts(r, x)
  BY DEF Go, Puts
<1>. HIDE DEF x
<1>4. x # Idle
  BY <1>2, IdleRecord
<1>5. req'[r] = x
  BY <1>3 DEF TypeOK, Puts
<1>. QED
  BY <1>2, <1>3, <1>4, <1>5 DEF Moves, Puts, Goes

\* It answers, or answers with an error.
LEMMA EndMoves ==
    ASSUME TypeOK, NEW r \in Reqs, NEW o, Answer(r, o) \/ Refuse(r), UNCHANGED <<up, expired>>
    PROVE  /\ Moves(r, Idle) /\ req'[r] = Idle
           /\ Refuse(r) => said' = said
           /\ Answer(r, o) => said' = IF req[r].alone THEN o ELSE "unclear"
<1>1. req' = [req EXCEPT ![r] = Idle] /\ UNCHANGED <<blind, lost, mixed>>
  BY DEF Answer, Refuse, History
<1>2. req'[r] = Idle
  BY <1>1 DEF TypeOK
<1>. QED
  BY <1>1, <1>2, IdleRecord DEF Moves, Answer, Refuse, History

\* What does not depend on the plugin is kept.
LEMMA MovesKeep ==
    ASSUME LifeInv, TypeOK', NEW r \in Active, NEW x, Moves(r, x),
           staged' \subseteq staged \cup {req[r].tok}, staged \ {req[r].tok} \subseteq staged',
           pending' \subseteq pending \cup {req[r].tok}, pending \subseteq pending',
           req[r].tok \in pending' => x = Idle /\ req[r].tok \in staged' \cup mixed,
           x = Idle /\ req[r].tok \in staged' => req[r].tok \in pending',
           said' = said \/ (x = Idle /\ (said' # "unclear" => req[r].alone)),
           x # Idle => ReqFine(r)' /\ BundleOf(r)' /\ (x.alone => AloneFine(r)')
    PROVE  ReqsFine' /\ OnlyOne' /\ TokensApart' /\ StagingAccounted'
<1>. USE DEF LifeInv
<1>1. /\ r \in Reqs /\ req[r] # Idle /\ req'[r] = x /\ up /\ said = "unclear"
      /\ \A q \in Reqs \ {r} : req'[q] = req[q]
  BY DEF Active, Moves, TypeOK, OnlyOne
<1>2. Active' = IF x = Idle THEN Active \ {r} ELSE Active
  BY <1>1 DEF Active
<1>3. \A q \in Reqs : req'[q] = req[q] \/ q = r
  BY <1>1
<1>4. ReqsFine'
  <2>. SUFFICES ASSUME NEW q \in Reqs
                PROVE  ReqFine(q)' /\ BundleOf(q)' /\ (req'[q].alone => AloneFine(q)')
    BY DEF ReqsFine
  <2>1. CASE req'[q] = Idle
    <3>1. ReqFine(q)' /\ ~req'[q].alone
      BY <2>1, IdleRecord DEF ReqFine, At
    <3>2. BundleOf(q)'
      BY <2>1, IdleRecord DEF BundleOf, At
    <3>. QED
      BY <3>1, <3>2
  <2>2. CASE q = r /\ x # Idle
    BY <1>1, <2>2
  <2>3. CASE q # r /\ req'[q] # Idle
    <3>1. req'[q] = req[q] /\ q \in Active /\ ReqFine(q) /\ BundleOf(q)
      BY <1>1, <2>3 DEF Active, ReqsFine
    <3>2. ~req[q].alone
      BY <2>3, <3>1 DEF OnlyOne
    <3>3. ReqFine(q)'
      BY <3>1 DEF ReqFine, At
    <3>4. req[q].tok # None => req[q].tok \in mixed /\ req[q].tok # req[r].tok
      BY <1>1, <2>3, <3>1 DEF TokensApart
    <3>5. req[q].pc \in {"begin", "trash", "move", "commit"} => req[q].tok # None
      BY <3>1 DEF ReqFine
    <3>6. None \notin staged'
      BY DEF TypeOK, Sources
    <3>7. req[q].pc \in {"commit", "upsert", "load"} => req[q].tok \notin staged'
      BY <3>1, <3>4, <3>6 DEF BundleOf
    <3>8. BundleOf(q)'
      BY <3>1, <3>4, <3>5, <3>7 DEF BundleOf, At, Moves
    <3>. QED
      BY <3>1, <3>2, <3>3, <3>8
  <2>. QED
    BY <1>1, <2>1, <2>2, <2>3
<1>5. OnlyOne'
  <2>1. \A q \in Reqs : req'[q].alone => Active' = {q}
    <3>. SUFFICES ASSUME NEW q \in Reqs, req'[q].alone PROVE Active' = {q}
      OBVIOUS
    <3>1. req'[q] # Idle
      BY IdleRecord
    <3>2. req[q].alone
      BY <1>1, <1>3, <3>1 DEF Moves
    <3>3. Active = {q} /\ q = r
      BY <3>2 DEF OnlyOne
    <3>. QED
      BY <1>1, <1>2, <3>1, <3>3
  <2>2. said' # "unclear" => Active' = {}
    BY <1>1, <1>2 DEF OnlyOne
  <2>. QED
    BY <1>1, <2>1, <2>2 DEF OnlyOne, Moves
<1>6. TokensApart'
  <2>1. \A q \in Reqs : req'[q].tok \in {req[q].tok, None}
    BY <1>1, <1>3, IdleRecord DEF Moves
  <2>2. None \notin pending'
    BY DEF TypeOK, Sources
  <2>3. \A q \in Reqs : req'[q].tok \notin pending'
    <3>. TAKE q \in Reqs
    <3>1. CASE q = r
      BY <1>1, <2>2, <3>1, IdleRecord DEF Moves
    <3>2. CASE q # r /\ req'[q].tok # None
      <4>1. req'[q].tok = req[q].tok /\ req[q].tok # req[r].tok /\ req[q].tok \notin pending
        BY <1>1, <3>2 DEF TokensApart
      <4>. QED
        BY <4>1
    <3>. QED
      BY <2>2, <3>1, <3>2
  <2>4. \A q, s \in Active' : q # s /\ req'[q].tok # None => req'[q].tok \in mixed'
    BY <1>1, <1>2, <2>1 DEF TokensApart, Active, Moves
  <2>5. \A q, s \in Reqs : req'[q].tok # None /\ req'[s].tok = req'[q].tok => q = s
    <3>. SUFFICES ASSUME NEW q \in Reqs, NEW s \in Reqs, req'[q].tok # None, req'[s].tok = req'[q].tok
                  PROVE  q = s
      OBVIOUS
    <3>1. req[q].tok = req'[q].tok /\ req[s].tok = req'[s].tok
      BY <2>1
    <3>. QED
      BY <3>1 DEF TokensApart
  <2>. QED
    BY <2>3, <2>4, <2>5 DEF TokensApart
<1>7. PendingHasBundle'
  <2>. SUFFICES ASSUME NEW t \in pending' PROVE t \in staged' \cup mixed'
    BY DEF PendingHasBundle
  <2>1. mixed' = mixed
    BY DEF Moves
  <2>2. CASE t = req[r].tok
    BY <2>1, <2>2
  <2>3. CASE t # req[r].tok
    <3>1. t \in staged \cup mixed
      BY <2>3 DEF StagingAccounted, PendingHasBundle
    <3>. QED
      BY <2>1, <2>3, <3>1
  <2>. QED
    BY <2>2, <2>3
<1>8. StagedAccounted'
  <2>. SUFFICES ASSUME NEW t \in staged' \ lost'
                PROVE  t \in pending' \/ \E q \in Reqs : req'[q].tok = t
    BY DEF StagedAccounted
  <2>1. CASE t = req[r].tok
    BY <1>1, <2>1 DEF Moves
  <2>2. CASE t # req[r].tok
    <3>1. t \in staged \ lost
      BY <2>2 DEF Moves
    <3>2. t \in pending \/ \E q \in Reqs : req[q].tok = t
      BY <3>1 DEF StagingAccounted, StagedAccounted
    <3>. QED
      BY <1>1, <2>2, <3>2
  <2>. QED
    BY <2>1, <2>2
<1>. QED
  BY <1>4, <1>5, <1>6, <1>7, <1>8 DEF StagingAccounted

\* A request under way that has a place where it is.
LEMMA ActiveAt ==
    ASSUME LifeInv, NEW r \in Reqs, NEW p \in PCs, At(r, p), p # "idle"
    PROVE  /\ r \in Active /\ TypeOK /\ ReqFine(r) /\ BundleOf(r) /\ (req[r].alone => AloneFine(r))
           /\ req[r] \in ReqRec /\ said = "unclear" /\ up /\ req[r].op # "none"
<1>1. TypeOK /\ ReqFine(r) /\ BundleOf(r) /\ (req[r].alone => AloneFine(r))
  BY DEF LifeInv, ReqsFine
<1>2. r \in Active
  BY IdleRecord DEF Active, At
<1>3. req[r] \in ReqRec
  BY <1>1 DEF TypeOK, ReqRec, Ops, PCs
<1>4. said = "unclear" /\ up
  BY <1>2 DEF LifeInv, OnlyOne
<1>5. req[r].op # "none"
  BY <1>1 DEF ReqFine, At
<1>. QED
  BY <1>1, <1>2, <1>3, <1>4, <1>5

\* A step that leaves tokens and staged bundles alone.
LEMMA PlainStep ==
    ASSUME LifeInv, NEW r \in Active, NEW x, Moves(r, x), TypeOK', UNCHANGED <<staged, pending>>,
           req[r].op = "confirm" => req[r].tok \notin staged \/ x # Idle,
           said' = said \/ (x = Idle /\ (said' # "unclear" => req[r].alone)),
           x # Idle => ReqFine(r)' /\ BundleOf(r)' /\ (x.alone => AloneFine(r)'),
           SaidFine', GrantRow'
    PROVE  LifeInv'
<1>1. r \in Reqs /\ ReqFine(r)
  BY DEF Active, LifeInv, ReqsFine
<1>2. req[r].tok \notin pending
  BY <1>1 DEF LifeInv, TokensApart
<1>3. x = Idle => req[r].tok \notin staged
  BY <1>1 DEF ReqFine, LifeInv, TypeOK, Sources
<1>4. ReqsFine' /\ OnlyOne' /\ TokensApart' /\ StagingAccounted'
  BY <1>2, <1>3, MovesKeep
<1>. QED
  BY <1>4 DEF LifeInv

\* A Confirm that fails gives its token back.
LEMMA GiveUpStep ==
    ASSUME LifeInv, NEW r \in Active, req[r].op = "confirm", GiveUp(r), Fault,
           staged' \subseteq staged \cup {req[r].tok}, staged \subseteq staged',
           dir' \in [Versions -> Tokens \cup {None}],
           req[r].tok \in staged' \cup mixed,
           UNCHANGED <<row, grant, tomb, up, mem, contrib, expired>>
    PROVE  LifeInv'
<1>. USE DEF LifeInv
<1>1. /\ r \in Reqs /\ TypeOK /\ req[r].tok \in Tokens /\ said = "unclear" /\ said' = said
      /\ req' = [req EXCEPT ![r] = Idle] /\ pending' = pending \cup {req[r].tok}
      /\ UNCHANGED <<blind, lost, mixed>>
  <2>1. req[r].tok # None /\ r \in Reqs
    BY DEF Active, ReqsFine, ReqFine
  <2>. QED
    BY <2>1 DEF GiveUp, Refuse, History, TypeOK, OnlyOne
<1>2. Moves(r, Idle)
  BY <1>1, IdleRecord DEF Moves
<1>3. TypeOK'
  <2>1. req' \in [Reqs -> ReqRec] /\ tx' \in Reqs \cup {None}
    BY <1>1, IdleRecord DEF TypeOK, GiveUp, ReqRec, Ops, PCs
  <2>2. /\ served' \in 0..MaxRequests /\ faults' \in 0..MaxFaults /\ crashes' \in 0..MaxCrashes
    BY <1>1 DEF TypeOK, Fault
  <2>3. staged' \subseteq Tokens /\ pending' \subseteq Tokens
    BY <1>1 DEF TypeOK
  <2>. QED
    BY <1>1, <2>1, <2>2, <2>3 DEF TypeOK, ReqRec, Ops, PCs
<1>4. ReqsFine' /\ OnlyOne' /\ TokensApart' /\ StagingAccounted'
  BY <1>1, <1>2, <1>3, MovesKeep
<1>5. SaidFine' /\ GrantRow'
  BY <1>1 DEF SaidFine, GrantRow
<1>. QED
  BY <1>3, <1>4, <1>5

\* A request that ends has nothing to account for but what it says.
LEMMA EndStep ==
    ASSUME LifeInv, NEW r \in Active, NEW o, Answer(r, o) \/ Refuse(r), TypeOK', GrantRow',
           UNCHANGED <<staged, pending, up, expired>>, req[r].tok \notin staged,
           Answer(r, o) /\ req[r].alone /\ said' = o /\ o # "unclear" => SaidFine'
    PROVE  LifeInv'
<1>1. r \in Reqs /\ TypeOK /\ said = "unclear"
  BY DEF Active, LifeInv, OnlyOne
<1>2. /\ Moves(r, Idle) /\ req'[r] = Idle
      /\ Refuse(r) => said' = said
      /\ Answer(r, o) => said' = IF req[r].alone THEN o ELSE "unclear"
  BY <1>1, EndMoves
<1>3. SaidFine'
  <2>1. CASE said' = "unclear"
    BY <2>1 DEF SaidFine
  <2>2. CASE said' # "unclear"
    BY <1>1, <1>2, <2>2
  <2>. QED
    BY <2>1, <2>2
<1>. QED
  BY <1>1, <1>2, <1>3, PlainStep

-----------------------------------------------------------------------------
(* The steps of a Confirm.                                                  *)

\* The rows are written in a transaction.
LEMMA WriteRowsStep ==
    ASSUME LifeInv, NEW r \in Reqs, WriteRows(r)
    PROVE  LifeInv'
<1>0. /\ r \in Active /\ TypeOK /\ ReqFine(r) /\ BundleOf(r) /\ (req[r].alone => AloneFine(r))
      /\ req[r] \in ReqRec /\ said = "unclear" /\ req[r].pc = "begin" /\ req[r].op = "confirm"
  BY ActiveAt DEF WriteRows, PCs, At, ReqFine
<1>1. UNCHANGED <<row, grant, tomb, dir, staged, up, mem, contrib, expired>>
  BY DEF WriteRows, durable
<1>2. CASE tx' = r /\ Go(r, "trash") /\ NoFault /\ UNCHANGED <<pending, History>>
  <2>. PICK x \in ReqRec : Goes(r, "trash", x)
    <3>1. "trash" \in PCs /\ "trash" # "idle" /\ Go(r, "trash") /\ UNCHANGED <<up, blind, lost, mixed, expired>>
      BY <1>1, <1>2 DEF PCs, History
    <3>. QED
      BY <1>0, <3>1, GoMoves
  <2>1. UNCHANGED <<served, faults, crashes, pending, said, blind, lost, mixed>>
    BY <1>2 DEF NoFault, Fault, Counters, History
  <2>2. /\ Moves(r, x) /\ x # Idle /\ req'[r] = x /\ x.pc = "trash" /\ x.op = req[r].op
        /\ x.tok = req[r].tok /\ x.alone = req[r].alone /\ x.on = req[r].on
    BY DEF Goes
  <2>3. TypeOK'
    BY <1>0, <1>1, <1>2, <2>1, <2>2 DEF TypeOK, Moves, ReqRec, Ops, PCs
  <2>4. ReqFine(r)' /\ BundleOf(r)' /\ (x.alone => AloneFine(r)')
    BY <1>0, <1>1, <1>2, <2>1, <2>2 DEF ReqFine, BundleOf, AloneFine, At
  <2>5. SaidFine' /\ GrantRow'
    BY <1>0, <1>1, <1>2, <2>1 DEF SaidFine, LifeInv, GrantRow
  <2>. QED
    BY <1>0, <1>1, <2>1, <2>2, <2>3, <2>4, <2>5, PlainStep
<1>3. CASE Fault /\ GiveUp(r)
  BY <1>0, <1>1, <1>3, GiveUpStep DEF BundleOf, TypeOK
<1>. QED
  BY <1>2, <1>3 DEF WriteRows

\* A directory in the way is moved out of it.
LEMMA TrashStep ==
    ASSUME LifeInv, NEW r \in Reqs, Trash(r)
    PROVE  LifeInv'
<1>0. /\ r \in Active /\ TypeOK /\ ReqFine(r) /\ BundleOf(r) /\ (req[r].alone => AloneFine(r))
      /\ req[r] \in ReqRec /\ said = "unclear" /\ req[r].pc = "trash" /\ req[r].op = "confirm"
  BY ActiveAt DEF Trash, PCs, At, ReqFine
<1>1. UNCHANGED <<row, grant, tomb, staged, up, mem, contrib, expired>>
  BY DEF Trash
<1>2. CASE /\ dir' = [dir EXCEPT ![Home(r)] = None]
           /\ Go(r, "move") /\ NoFault /\ UNCHANGED <<pending, tx, History>>
  <2>. PICK x \in ReqRec : Goes(r, "move", x)
    <3>1. "move" \in PCs /\ "move" # "idle" /\ Go(r, "move") /\ UNCHANGED <<up, blind, lost, mixed, expired>>
      BY <1>1, <1>2 DEF PCs, History
    <3>. QED
      BY <1>0, <3>1, GoMoves
  <2>1. UNCHANGED <<served, faults, crashes, pending, tx, said, blind, lost, mixed>>
    BY <1>2 DEF NoFault, Fault, Counters, History
  <2>2. /\ Moves(r, x) /\ x # Idle /\ req'[r] = x /\ x.pc = "move" /\ x.op = req[r].op
        /\ x.tok = req[r].tok /\ x.alone = req[r].alone /\ x.on = req[r].on
    BY DEF Goes
  <2>3. TypeOK'
    <3>1. dir' \in [Versions -> Tokens \cup {None}]
      BY <1>0, <1>2 DEF TypeOK
    <3>. QED
      BY <1>0, <1>1, <2>1, <2>2, <3>1 DEF TypeOK, Moves, ReqRec, Ops, PCs
  <2>4. ReqFine(r)' /\ BundleOf(r)' /\ (x.alone => AloneFine(r)')
    BY <1>0, <1>1, <1>2, <2>1, <2>2 DEF ReqFine, BundleOf, AloneFine, At
  <2>5. SaidFine' /\ GrantRow'
    BY <1>0, <1>1, <1>2, <2>1 DEF SaidFine, LifeInv, GrantRow
  <2>. QED
    BY <1>0, <1>1, <2>1, <2>2, <2>3, <2>4, <2>5, PlainStep
<1>3. CASE Fault /\ GiveUp(r) /\ UNCHANGED dir
  BY <1>0, <1>1, <1>3, GiveUpStep DEF BundleOf, TypeOK
<1>. QED
  BY <1>2, <1>3 DEF Trash

\* The bundle gets its home.
LEMMA MoveStep ==
    ASSUME LifeInv, NEW r \in Reqs, Move(r)
    PROVE  LifeInv'
<1>0. /\ r \in Active /\ TypeOK /\ ReqFine(r) /\ BundleOf(r) /\ (req[r].alone => AloneFine(r))
      /\ req[r] \in ReqRec /\ said = "unclear" /\ req[r].pc = "move" /\ req[r].op = "confirm"
  BY ActiveAt DEF Move, PCs, At, ReqFine
<1>1. UNCHANGED <<row, grant, tomb, up, mem, contrib, expired>>
  BY DEF Move
<1>2. CASE /\ dir' = [dir EXCEPT ![Home(r)] = req[r].tok]
           /\ staged' = staged \ {req[r].tok}
           /\ Go(r, "commit") /\ NoFault /\ UNCHANGED <<pending, tx, History>>
  <2>. PICK x \in ReqRec : Goes(r, "commit", x)
    <3>1. "commit" \in PCs /\ "commit" # "idle" /\ Go(r, "commit") /\ UNCHANGED <<up, blind, lost, mixed, expired>>
      BY <1>1, <1>2 DEF PCs, History
    <3>. QED
      BY <1>0, <3>1, GoMoves
  <2>1. UNCHANGED <<served, faults, crashes, pending, tx, said, blind, lost, mixed>>
    BY <1>2 DEF NoFault, Fault, Counters, History
  <2>2. /\ Moves(r, x) /\ x # Idle /\ req'[r] = x /\ x.pc = "commit" /\ x.op = req[r].op
        /\ x.tok = req[r].tok /\ x.alone = req[r].alone /\ x.on = req[r].on
    BY DEF Goes
  <2>a. req[r].tok \in Tokens /\ Home(r) \in Versions /\ Home(r)' = Home(r)
    BY <1>0, <2>2 DEF ReqFine, ReqRec, Home, Versions
  <2>b. dir' \in [Versions -> Tokens \cup {None}] /\ dir'[Home(r)] = req[r].tok
    BY <1>0, <1>2, <2>a DEF TypeOK
  <2>3. TypeOK'
    <3>1. staged' \subseteq Tokens
      BY <1>0, <1>2 DEF TypeOK
    <3>. QED
      BY <1>0, <1>1, <2>1, <2>2, <2>b, <3>1 DEF TypeOK, Moves, ReqRec, Ops, PCs
  <2>4. ReqFine(r)' /\ BundleOf(r)' /\ (x.alone => AloneFine(r)')
    BY <1>0, <1>1, <1>2, <2>1, <2>2, <2>a, <2>b DEF ReqFine, BundleOf, AloneFine, At
  <2>5. SaidFine' /\ GrantRow'
    BY <1>0, <1>1, <1>2, <2>1 DEF SaidFine, LifeInv, GrantRow
  <2>6. req[r].tok \notin pending
    BY <1>0, <2>a DEF LifeInv, TokensApart
  <2>7. ReqsFine' /\ OnlyOne' /\ TokensApart' /\ StagingAccounted'
    BY <1>0, <1>2, <2>1, <2>2, <2>3, <2>4, <2>6, MovesKeep
  <2>. QED
    BY <2>3, <2>5, <2>7 DEF LifeInv
<1>3. CASE Fault /\ GiveUp(r) /\ UNCHANGED <<dir, staged>>
  BY <1>0, <1>1, <1>3, GiveUpStep DEF BundleOf, TypeOK
<1>. QED
  BY <1>2, <1>3 DEF Move

\* The transaction commits.
LEMMA CommitStep ==
    ASSUME LifeInv, NEW r \in Reqs, Commit(r)
    PROVE  LifeInv'
<1>0. /\ r \in Active /\ TypeOK /\ ReqFine(r) /\ BundleOf(r) /\ (req[r].alone => AloneFine(r))
      /\ req[r] \in ReqRec /\ said = "unclear" /\ req[r].pc = "commit" /\ req[r].op = "confirm"
  BY ActiveAt DEF Commit, PCs, At, ReqFine
<1>1. UNCHANGED <<up, mem, contrib, expired>>
  BY DEF Commit
<1>2. CASE /\ row' = Live(req[r].tok, TRUE) /\ grant' = req[r].tok /\ tomb' = FALSE
           /\ tx' = None
           /\ Go(r, "upsert")
           /\ NoFault /\ UNCHANGED <<dir, staged, pending, History>>
  <2>. PICK x \in ReqRec : Goes(r, "upsert", x)
    <3>1. "upsert" \in PCs /\ "upsert" # "idle" /\ Go(r, "upsert") /\ UNCHANGED <<up, blind, lost, mixed, expired>>
      BY <1>1, <1>2 DEF PCs, History
    <3>. QED
      BY <1>0, <3>1, GoMoves
  <2>1. UNCHANGED <<served, faults, crashes, dir, staged, pending, said, blind, lost, mixed>>
    BY <1>2 DEF NoFault, Fault, Counters, History
  <2>2. /\ Moves(r, x) /\ x # Idle /\ req'[r] = x /\ x.pc = "upsert" /\ x.op = req[r].op
        /\ x.tok = req[r].tok /\ x.alone = req[r].alone /\ x.on = req[r].on
    BY DEF Goes
  <2>a. req[r].tok \in Tokens /\ Home(r)' = Home(r)
    BY <1>0, <2>2 DEF ReqFine, ReqRec, Home
  <2>b. row' \in Lives /\ row' # None
    BY <1>2, <2>a, LiveRecord DEF Sources
  <2>3. TypeOK'
    BY <1>0, <1>1, <1>2, <2>1, <2>2, <2>a, <2>b DEF TypeOK, Moves, ReqRec, Ops, PCs
  <2>4. ReqFine(r)' /\ BundleOf(r)' /\ (x.alone => AloneFine(r)')
    BY <1>0, <1>1, <1>2, <2>1, <2>2, <2>a DEF ReqFine, BundleOf, AloneFine, At
  <2>5. SaidFine' /\ GrantRow'
    BY <1>0, <1>1, <1>2, <2>1, <2>b DEF SaidFine, LifeInv, GrantRow
  <2>. QED
    BY <1>0, <1>1, <2>1, <2>2, <2>3, <2>4, <2>5, PlainStep
<1>3. CASE /\ Fault /\ GiveUp(r)
           /\ IF dir[Home(r)] = req[r].tok
                THEN /\ dir' = [dir EXCEPT ![Home(r)] = None]
                     /\ staged' = staged \cup {req[r].tok}
                ELSE UNCHANGED <<dir, staged>>
           /\ UNCHANGED <<row, grant, tomb>>
  <2>1. dir' \in [Versions -> Tokens \cup {None}] /\ staged \subseteq staged'
        /\ staged' \subseteq staged \cup {req[r].tok} /\ req[r].tok \in staged' \cup mixed
    BY <1>0, <1>3 DEF BundleOf, TypeOK, At
  <2>. QED
    BY <1>0, <1>1, <1>3, <2>1, GiveUpStep
<1>. QED
  BY <1>2, <1>3 DEF Commit

-----------------------------------------------------------------------------
(* The steps of the other requests.                                         *)

\* The row is upserted.
LEMMA UpsertStep ==
    ASSUME LifeInv, NEW r \in Reqs, Upsert(r)
    PROVE  LifeInv'
<1>0. /\ r \in Active /\ TypeOK /\ ReqFine(r) /\ BundleOf(r) /\ (req[r].alone => AloneFine(r))
      /\ req[r] \in ReqRec /\ said = "unclear" /\ req[r].pc = "upsert" /\ req[r].op \in {"confirm", "restore", "post"}
  BY ActiveAt DEF Upsert, PCs, At, ReqFine
<1>1. UNCHANGED <<grant, tomb, dir, staged, up, mem, contrib, pending, tx, expired>>
  BY DEF Upsert, process
<1>2. CASE /\ Manifest(r) # None /\ tx = None
           /\ row' = Live(Manifest(r), TRUE)
           /\ req' = [req EXCEPT ![r].pc = "load", ![r].man = Manifest(r)]
           /\ NoFault /\ UNCHANGED History
  <2>. DEFINE x == [req[r] EXCEPT !.pc = "load", !.man = Manifest(r)]
  <2>a. /\ Manifest(r) \in Sources
        /\ Manifest(r) \in Tokens => req[r].op = "confirm" /\ Manifest(r) = dir[Home(r)]
    <3>1. req[r].op = "confirm" => Home(r) \in Versions
      BY <1>0 DEF ReqFine, ReqRec, Home, Versions
    <3>. QED
      BY <1>0, <1>2, <3>1 DEF Manifest, Sources, TypeOK
  <2>1. UNCHANGED <<served, faults, crashes, said, blind, lost, mixed>>
    BY <1>2 DEF NoFault, Counters, History
  <2>b. /\ x \in ReqRec /\ x.pc = "load" /\ x.op = req[r].op /\ x.man = Manifest(r)
        /\ x.tok = req[r].tok /\ x.alone = req[r].alone /\ x.on = req[r].on
    BY <1>0, <2>a DEF ReqRec, PCs
  <2>c. Puts(r, x)
    BY <1>0, <1>2 DEF Puts, TypeOK
  <2>. HIDE DEF x
  <2>2. Moves(r, x) /\ x # Idle /\ req'[r] = x
    <3>1. req'[r] = x /\ x # Idle
      BY <1>0, <2>b, <2>c, IdleRecord DEF Puts, TypeOK
    <3>. QED
      BY <1>1, <2>1, <2>b, <2>c, <3>1 DEF Moves, Puts
  <2>3. TypeOK'
    <3>1. row' \in Lives
      BY <1>2, <2>a DEF Live, Lives
    <3>. QED
      BY <1>0, <1>1, <2>1, <2>2, <3>1 DEF TypeOK, Moves, ReqRec, Ops, PCs
  <2>4. ReqFine(r)' /\ BundleOf(r)' /\ (x.alone => AloneFine(r)')
    <3>1. ReqFine(r)'
      BY <1>0, <2>a, <2>b, <2>2 DEF ReqFine, At, Sources
    <3>2. BundleOf(r)'
      BY <1>0, <1>1, <2>b, <2>2 DEF BundleOf, At
    <3>3. x.alone => (x.man \in Tokens => grant = x.man)
      BY <1>0, <2>a, <2>b DEF AloneFine, At
    <3>4. x.alone => AloneFine(r)'
      BY <1>0, <1>1, <1>2, <2>b, <2>2, <3>3 DEF AloneFine, At
    <3>. QED
      BY <2>2, <3>1, <3>2, <3>4
  <2>5. SaidFine' /\ GrantRow'
    <3>1. row' # None
      BY <1>2, <2>a, LiveRecord
    <3>. QED
      BY <1>0, <2>1, <3>1 DEF SaidFine, GrantRow
  <2>. QED
    BY <1>0, <1>1, <2>1, <2>2, <2>3, <2>4, <2>5, <2>b, PlainStep
<1>3. CASE Manifest(r) = None /\ Answer(r, "unclear") /\ NoFault /\ UNCHANGED row
  <2>1. req[r].tok \notin staged
    BY <1>0 DEF BundleOf, ReqFine, TypeOK, Sources
  <2>2. Answer(r, "unclear") \/ Refuse(r)
    BY <1>0, <1>3
  <2>3. /\ Moves(r, Idle) /\ said' \in {"unclear", "unclear"} /\ UNCHANGED <<blind, lost, mixed>>
    <3>1. UNCHANGED <<up, expired>>
      BY <1>1
    <3>. QED
      BY <1>0, <2>2, <3>1, EndMoves DEF Moves
  <2>4. TypeOK'
    BY <1>0, <1>1, <1>3, <2>3 DEF TypeOK, Moves, ReqRec, Ops, PCs, NoFault, Fault, Counters
  <2>5. GrantRow'
    BY <1>0, <1>1, <1>3 DEF LifeInv, GrantRow
  <2>. QED
    BY <1>0, <1>1, <1>3, <2>1, <2>2, <2>4, <2>5, EndStep
<1>4. CASE /\ Fault /\ UNCHANGED row
           /\ IF req[r].op = "confirm" THEN Answer(r, "unclear") ELSE Refuse(r)
  <2>1. req[r].tok \notin staged
    BY <1>0 DEF BundleOf, ReqFine, TypeOK, Sources
  <2>2. Answer(r, "unclear") \/ Refuse(r)
    BY <1>0, <1>4
  <2>3. /\ Moves(r, Idle) /\ said' \in {"unclear", "unclear"} /\ UNCHANGED <<blind, lost, mixed>>
    <3>1. UNCHANGED <<up, expired>>
      BY <1>1
    <3>. QED
      BY <1>0, <2>2, <3>1, EndMoves DEF Moves
  <2>4. TypeOK'
    BY <1>0, <1>1, <1>4, <2>3 DEF TypeOK, Moves, ReqRec, Ops, PCs, NoFault, Fault, Counters
  <2>5. GrantRow'
    BY <1>0, <1>1, <1>4 DEF LifeInv, GrantRow
  <2>. QED
    BY <1>0, <1>1, <1>4, <2>1, <2>2, <2>4, <2>5, EndStep
<1>. QED
  BY <1>2, <1>3, <1>4 DEF Upsert

\* The plugin is loaded.
LEMMA LoadStep ==
    ASSUME LifeInv, NEW r \in Reqs, Load(r)
    PROVE  LifeInv'
<1>0. /\ r \in Active /\ TypeOK /\ ReqFine(r) /\ BundleOf(r) /\ (req[r].alone => AloneFine(r))
      /\ req[r] \in ReqRec /\ said = "unclear" /\ req[r].pc = "load" /\ req[r].op \in {"confirm", "restore", "post"}
  BY ActiveAt DEF Load, PCs, At, ReqFine
<1>1. UNCHANGED <<row, grant, tomb, dir, staged, up, pending, tx, expired>>
  BY DEF Load, durable
<1>2. CASE /\ mem' = Live(req[r].man, TRUE) /\ contrib' = req[r].man
           /\ Answer(r, Outcome(r)) /\ NoFault
  <2>1. req[r].tok \notin staged
    BY <1>0 DEF BundleOf, ReqFine, TypeOK, Sources
  <2>2. Answer(r, "enabled")
    BY <1>0, <1>2 DEF Outcome
  <2>3. /\ Moves(r, Idle) /\ said' \in {"unclear", "enabled"} /\ UNCHANGED <<blind, lost, mixed>>
    <3>1. UNCHANGED <<up, expired>>
      BY <1>1
    <3>. QED
      BY <1>0, <2>2, <3>1, EndMoves DEF Moves
  <2>4. TypeOK'
    <3>1. mem' \in Lives /\ contrib' \in Sources
      BY <1>0, <1>2 DEF ReqFine, ReqRec, Live, Lives, At
    <3>. QED
      BY <1>0, <1>1, <1>2, <2>3, <3>1 DEF TypeOK, Moves, ReqRec, Ops, PCs, NoFault, Counters
  <2>5. GrantRow'
    BY <1>0, <1>1, <1>2 DEF LifeInv, GrantRow
  <2>6. ASSUME req[r].alone, said' = "enabled" PROVE SaidFine'
    <3>1. /\ row = Live(req[r].man, TRUE) /\ mem' = row /\ contrib' # None
          /\ req[r].man \in Sources /\ (req[r].man \in Tokens => grant = req[r].man)
      BY <1>0, <1>2, <2>6 DEF AloneFine, At, ReqFine, ReqRec
    <3>2. row # None /\ row.from = req[r].man /\ row.enabled = TRUE
      BY <3>1, LiveRecord
    <3>. QED
      BY <1>1, <2>6, <3>1, <3>2 DEF SaidFine, GrantOf
  <2>. QED
    BY <1>0, <1>1, <1>2, <2>1, <2>2, <2>4, <2>5, <2>6, EndStep
<1>. QED
  BY <1>2 DEF Load

\* The rows of the plugin are deleted.
LEMMA DeleteRowStep ==
    ASSUME LifeInv, NEW r \in Reqs, DeleteRow(r)
    PROVE  LifeInv'
<1>0. /\ r \in Active /\ TypeOK /\ ReqFine(r) /\ BundleOf(r) /\ (req[r].alone => AloneFine(r))
      /\ req[r] \in ReqRec /\ said = "unclear" /\ req[r].pc = "delete" /\ req[r].op \in {"uninstall", "remove"}
  BY ActiveAt DEF DeleteRow, PCs, At, ReqFine
<1>1. UNCHANGED <<tomb, dir, staged, up, mem, pending, tx, expired>>
  BY DEF DeleteRow
<1>2. CASE /\ row' = None /\ grant' = None /\ contrib' = None
           /\ req[r].op = "remove" /\ Answer(r, Outcome(r)) /\ NoFault
  <2>1. req[r].tok \notin staged
    BY <1>0 DEF BundleOf, ReqFine, TypeOK, Sources
  <2>2. Answer(r, Outcome(r)) /\ Outcome(r) \in {"unclear", "uninstalled"}
    BY <1>0, <1>2 DEF Outcome
  <2>3. /\ Moves(r, Idle) /\ said' \in {"unclear", Outcome(r)} /\ UNCHANGED <<blind, lost, mixed>>
    <3>1. UNCHANGED <<up, expired>>
      BY <1>1
    <3>. QED
      BY <1>0, <2>2, <3>1, EndMoves DEF Moves
  <2>4. TypeOK'
    BY <1>0, <1>1, <1>2, <2>2, <2>3 DEF TypeOK, Moves, ReqRec, Ops, PCs, NoFault, Counters, Lives
  <2>5. GrantRow'
    BY <1>0, <1>1, <1>2 DEF LifeInv, GrantRow
  <2>6. ASSUME req[r].alone, said' = Outcome(r), Outcome(r) # "unclear" PROVE SaidFine'
    <3>1. mem = None \/ (Required /\ mem.from = "builtin")
      BY <1>0, <2>6 DEF AloneFine
    <3>2. said' = "uninstalled" /\ ~Builtin
      BY <1>2, <2>2, <2>6 DEF Outcome
    <3>. QED
      BY <1>0, <1>1, <1>2, <3>1, <3>2 DEF SaidFine, GrantOf
  <2>. QED
    BY <1>0, <1>1, <1>2, <2>1, <2>2, <2>4, <2>5, <2>6, EndStep
<1>3. CASE /\ row' = None /\ grant' = None /\ contrib' = None
           /\ req[r].op # "remove" /\ Go(r, "purge") /\ UNCHANGED History /\ NoFault
  <2>. PICK x \in ReqRec : Goes(r, "purge", x)
    <3>1. "purge" \in PCs /\ "purge" # "idle" /\ Go(r, "purge") /\ UNCHANGED <<up, blind, lost, mixed, expired>>
      BY <1>1, <1>3 DEF PCs, History
    <3>. QED
      BY <1>0, <3>1, GoMoves
  <2>1. UNCHANGED <<served, faults, crashes, said, blind, lost, mixed>>
    BY <1>3 DEF NoFault, Fault, Counters, History
  <2>2. /\ Moves(r, x) /\ x # Idle /\ req'[r] = x /\ x.pc = "purge" /\ x.op = req[r].op
        /\ x.tok = req[r].tok /\ x.alone = req[r].alone /\ x.on = req[r].on
    BY DEF Goes
  <2>3. TypeOK'
    BY <1>0, <1>1, <1>3, <2>1, <2>2 DEF TypeOK, Moves, ReqRec, Ops, PCs, Lives
  <2>4. ReqFine(r)' /\ BundleOf(r)' /\ (x.alone => AloneFine(r)')
    BY <1>0, <1>1, <1>3, <2>1, <2>2 DEF ReqFine, BundleOf, AloneFine, At
  <2>5. SaidFine' /\ GrantRow'
    BY <1>0, <1>1, <1>3, <2>1 DEF SaidFine, LifeInv, GrantRow
  <2>. QED
    BY <1>0, <1>1, <2>1, <2>2, <2>3, <2>4, <2>5, PlainStep
<1>4. CASE Fault /\ UNCHANGED <<row, grant, contrib>> /\ req[r].op = "remove" /\ Refuse(r)
  <2>1. req[r].tok \notin staged
    BY <1>0 DEF BundleOf, ReqFine, TypeOK, Sources
  <2>2. Answer(r, "unclear") \/ Refuse(r)
    BY <1>0, <1>4
  <2>3. /\ Moves(r, Idle) /\ said' \in {"unclear", "unclear"} /\ UNCHANGED <<blind, lost, mixed>>
    <3>1. UNCHANGED <<up, expired>>
      BY <1>1
    <3>. QED
      BY <1>0, <2>2, <3>1, EndMoves DEF Moves
  <2>4. TypeOK'
    BY <1>0, <1>1, <1>4, <2>3 DEF TypeOK, Moves, ReqRec, Ops, PCs, NoFault, Fault, Counters
  <2>5. GrantRow'
    BY <1>0, <1>1, <1>4 DEF LifeInv, GrantRow
  <2>. QED
    BY <1>0, <1>1, <1>4, <2>1, <2>2, <2>4, <2>5, EndStep
<1>5. CASE /\ Fault /\ UNCHANGED <<row, grant, contrib>>
           /\ req[r].op # "remove" /\ Go(r, "purge") /\ UNCHANGED History
  <2>. PICK x \in ReqRec : Goes(r, "purge", x)
    <3>1. "purge" \in PCs /\ "purge" # "idle" /\ Go(r, "purge") /\ UNCHANGED <<up, blind, lost, mixed, expired>>
      BY <1>1, <1>5 DEF PCs, History
    <3>. QED
      BY <1>0, <3>1, GoMoves
  <2>1. UNCHANGED <<said, blind, lost, mixed>>
    BY <1>5 DEF NoFault, Fault, Counters, History
  <2>2. /\ Moves(r, x) /\ x # Idle /\ req'[r] = x /\ x.pc = "purge" /\ x.op = req[r].op
        /\ x.tok = req[r].tok /\ x.alone = req[r].alone /\ x.on = req[r].on
    BY DEF Goes
  <2>3. TypeOK'
    BY <1>0, <1>1, <1>5, <2>1, <2>2 DEF TypeOK, Moves, ReqRec, Ops, PCs, Fault
  <2>4. ReqFine(r)' /\ BundleOf(r)' /\ (x.alone => AloneFine(r)')
    BY <1>0, <1>1, <1>5, <2>1, <2>2 DEF ReqFine, BundleOf, AloneFine, At
  <2>5. SaidFine' /\ GrantRow'
    BY <1>0, <1>1, <1>5, <2>1 DEF SaidFine, LifeInv, GrantRow
  <2>. QED
    BY <1>0, <1>1, <2>1, <2>2, <2>3, <2>4, <2>5, PlainStep
<1>. QED
  BY <1>2, <1>3, <1>4, <1>5 DEF DeleteRow

\* They are deleted once more.
LEMMA PurgeStep ==
    ASSUME LifeInv, NEW r \in Reqs, Purge(r)
    PROVE  LifeInv'
<1>0. /\ r \in Active /\ TypeOK /\ ReqFine(r) /\ BundleOf(r) /\ (req[r].alone => AloneFine(r))
      /\ req[r] \in ReqRec /\ said = "unclear" /\ req[r].pc = "purge" /\ req[r].op = "uninstall"
  BY ActiveAt DEF Purge, PCs, At, ReqFine
<1>1. UNCHANGED <<tomb, dir, staged, up, mem, contrib, pending, tx, expired>>
  BY DEF Purge, process
<1>2. CASE /\ row' = None /\ grant' = None
           /\ Go(r, "bury") /\ NoFault /\ UNCHANGED History
  <2>. PICK x \in ReqRec : Goes(r, "bury", x)
    <3>1. "bury" \in PCs /\ "bury" # "idle" /\ Go(r, "bury") /\ UNCHANGED <<up, blind, lost, mixed, expired>>
      BY <1>1, <1>2 DEF PCs, History
    <3>. QED
      BY <1>0, <3>1, GoMoves
  <2>1. UNCHANGED <<served, faults, crashes, said, blind, lost, mixed>>
    BY <1>2 DEF NoFault, Fault, Counters, History
  <2>2. /\ Moves(r, x) /\ x # Idle /\ req'[r] = x /\ x.pc = "bury" /\ x.op = req[r].op
        /\ x.tok = req[r].tok /\ x.alone = req[r].alone /\ x.on = req[r].on
    BY DEF Goes
  <2>3. TypeOK'
    BY <1>0, <1>1, <1>2, <2>1, <2>2 DEF TypeOK, Moves, ReqRec, Ops, PCs, Lives
  <2>4. ReqFine(r)' /\ BundleOf(r)' /\ (x.alone => AloneFine(r)')
    BY <1>0, <1>1, <1>2, <2>1, <2>2 DEF ReqFine, BundleOf, AloneFine, At
  <2>5. SaidFine' /\ GrantRow'
    BY <1>0, <1>1, <1>2, <2>1 DEF SaidFine, LifeInv, GrantRow
  <2>. QED
    BY <1>0, <1>1, <2>1, <2>2, <2>3, <2>4, <2>5, PlainStep
<1>3. CASE Fault /\ Refuse(r) /\ UNCHANGED <<row, grant>>
  <2>1. req[r].tok \notin staged
    BY <1>0 DEF BundleOf, ReqFine, TypeOK, Sources
  <2>2. Answer(r, "unclear") \/ Refuse(r)
    BY <1>0, <1>3
  <2>3. /\ Moves(r, Idle) /\ said' \in {"unclear", "unclear"} /\ UNCHANGED <<blind, lost, mixed>>
    <3>1. UNCHANGED <<up, expired>>
      BY <1>1
    <3>. QED
      BY <1>0, <2>2, <3>1, EndMoves DEF Moves
  <2>4. TypeOK'
    BY <1>0, <1>1, <1>3, <2>3 DEF TypeOK, Moves, ReqRec, Ops, PCs, NoFault, Fault, Counters
  <2>5. GrantRow'
    BY <1>0, <1>1, <1>3 DEF LifeInv, GrantRow
  <2>. QED
    BY <1>0, <1>1, <1>3, <2>1, <2>2, <2>4, <2>5, EndStep
<1>. QED
  BY <1>2, <1>3 DEF Purge

\* The tombstone is added.
LEMMA BuryStep ==
    ASSUME LifeInv, NEW r \in Reqs, Bury(r)
    PROVE  LifeInv'
<1>0. /\ r \in Active /\ TypeOK /\ ReqFine(r) /\ BundleOf(r) /\ (req[r].alone => AloneFine(r))
      /\ req[r] \in ReqRec /\ said = "unclear" /\ req[r].pc = "bury" /\ req[r].op = "uninstall"
  BY ActiveAt DEF Bury, PCs, At, ReqFine
<1>1. UNCHANGED <<row, grant, dir, staged, up, mem, contrib, pending, tx, expired>>
  BY DEF Bury, process
<1>2. CASE tomb' = TRUE /\ Go(r, "clear") /\ NoFault /\ UNCHANGED History
  <2>. PICK x \in ReqRec : Goes(r, "clear", x)
    <3>1. "clear" \in PCs /\ "clear" # "idle" /\ Go(r, "clear") /\ UNCHANGED <<up, blind, lost, mixed, expired>>
      BY <1>1, <1>2 DEF PCs, History
    <3>. QED
      BY <1>0, <3>1, GoMoves
  <2>1. UNCHANGED <<served, faults, crashes, said, blind, lost, mixed>>
    BY <1>2 DEF NoFault, Fault, Counters, History
  <2>2. /\ Moves(r, x) /\ x # Idle /\ req'[r] = x /\ x.pc = "clear" /\ x.op = req[r].op
        /\ x.tok = req[r].tok /\ x.alone = req[r].alone /\ x.on = req[r].on
    BY DEF Goes
  <2>3. TypeOK'
    BY <1>0, <1>1, <1>2, <2>1, <2>2 DEF TypeOK, Moves, ReqRec, Ops, PCs
  <2>4. ReqFine(r)' /\ BundleOf(r)' /\ (x.alone => AloneFine(r)')
    BY <1>0, <1>1, <1>2, <2>1, <2>2 DEF ReqFine, BundleOf, AloneFine, At
  <2>5. SaidFine' /\ GrantRow'
    BY <1>0, <1>1, <1>2, <2>1 DEF SaidFine, LifeInv, GrantRow
  <2>. QED
    BY <1>0, <1>1, <2>1, <2>2, <2>3, <2>4, <2>5, PlainStep
<1>3. CASE Fault /\ Refuse(r) /\ UNCHANGED tomb
  <2>1. req[r].tok \notin staged
    BY <1>0 DEF BundleOf, ReqFine, TypeOK, Sources
  <2>2. Answer(r, "unclear") \/ Refuse(r)
    BY <1>0, <1>3
  <2>3. /\ Moves(r, Idle) /\ said' \in {"unclear", "unclear"} /\ UNCHANGED <<blind, lost, mixed>>
    <3>1. UNCHANGED <<up, expired>>
      BY <1>1
    <3>. QED
      BY <1>0, <2>2, <3>1, EndMoves DEF Moves
  <2>4. TypeOK'
    BY <1>0, <1>1, <1>3, <2>3 DEF TypeOK, Moves, ReqRec, Ops, PCs, NoFault, Fault, Counters
  <2>5. GrantRow'
    BY <1>0, <1>1, <1>3 DEF LifeInv, GrantRow
  <2>. QED
    BY <1>0, <1>1, <1>3, <2>1, <2>2, <2>4, <2>5, EndStep
<1>. QED
  BY <1>2, <1>3 DEF Bury

\* The directories are removed.
LEMMA ClearDirsStep ==
    ASSUME LifeInv, NEW r \in Reqs, ClearDirs(r)
    PROVE  LifeInv'
<1>0. /\ r \in Active /\ TypeOK /\ ReqFine(r) /\ BundleOf(r) /\ (req[r].alone => AloneFine(r))
      /\ req[r] \in ReqRec /\ said = "unclear" /\ req[r].pc = "clear" /\ req[r].op = "uninstall"
  BY ActiveAt DEF ClearDirs, PCs, At, ReqFine
<1>1. UNCHANGED <<row, grant, tomb, staged, up, mem, contrib, pending, tx, expired>>
  BY DEF ClearDirs, process
<1>2. CASE /\ dir' = [v \in Versions |-> None]
           /\ Answer(r, Outcome(r)) /\ NoFault
  <2>1. req[r].tok \notin staged
    BY <1>0 DEF BundleOf, ReqFine, TypeOK, Sources
  <2>2. Answer(r, "uninstalled")
    BY <1>0, <1>2 DEF Outcome
  <2>3. /\ Moves(r, Idle) /\ said' \in {"unclear", "uninstalled"} /\ UNCHANGED <<blind, lost, mixed>>
    <3>1. UNCHANGED <<up, expired>>
      BY <1>1
    <3>. QED
      BY <1>0, <2>2, <3>1, EndMoves DEF Moves
  <2>4. TypeOK'
    BY <1>0, <1>1, <1>2, <2>3 DEF TypeOK, Moves, ReqRec, Ops, PCs, NoFault, Fault, Counters
  <2>5. GrantRow'
    BY <1>0, <1>1, <1>2 DEF LifeInv, GrantRow
  <2>6. ASSUME req[r].alone, said' = "uninstalled" PROVE SaidFine'
    <3>1. /\ mem = None \/ (Required /\ mem.from = "builtin")
          /\ row = None /\ tomb
      BY <1>0, <2>6 DEF AloneFine, At
    <3>. QED
      BY <1>0, <1>1, <2>6, <3>1 DEF SaidFine, GrantOf
  <2>. QED
    BY <1>0, <1>1, <1>2, <2>1, <2>2, <2>4, <2>5, <2>6, EndStep
<1>. QED
  BY <1>2 DEF ClearDirs

\* The tombstone is cleared.
LEMMA ClearTombStep ==
    ASSUME LifeInv, NEW r \in Reqs, ClearTomb(r)
    PROVE  LifeInv'
<1>0. /\ r \in Active /\ TypeOK /\ ReqFine(r) /\ BundleOf(r) /\ (req[r].alone => AloneFine(r))
      /\ req[r] \in ReqRec /\ said = "unclear" /\ req[r].pc = "clear" /\ req[r].op = "restore"
  BY ActiveAt DEF ClearTomb, PCs, At, ReqFine
<1>1. UNCHANGED <<row, grant, dir, staged, up, mem, contrib, pending, tx, expired>>
  BY DEF ClearTomb, process
<1>2. CASE tomb' = FALSE /\ Go(r, "upsert") /\ NoFault /\ UNCHANGED History
  <2>. PICK x \in ReqRec : Goes(r, "upsert", x)
    <3>1. "upsert" \in PCs /\ "upsert" # "idle" /\ Go(r, "upsert") /\ UNCHANGED <<up, blind, lost, mixed, expired>>
      BY <1>1, <1>2 DEF PCs, History
    <3>. QED
      BY <1>0, <3>1, GoMoves
  <2>1. UNCHANGED <<served, faults, crashes, said, blind, lost, mixed>>
    BY <1>2 DEF NoFault, Fault, Counters, History
  <2>2. /\ Moves(r, x) /\ x # Idle /\ req'[r] = x /\ x.pc = "upsert" /\ x.op = req[r].op
        /\ x.tok = req[r].tok /\ x.alone = req[r].alone /\ x.on = req[r].on
    BY DEF Goes
  <2>a. req[r].tok \notin staged
    BY <1>0 DEF ReqFine, TypeOK, Sources
  <2>3. TypeOK'
    BY <1>0, <1>1, <1>2, <2>1, <2>2 DEF TypeOK, Moves, ReqRec, Ops, PCs
  <2>4. ReqFine(r)' /\ BundleOf(r)' /\ (x.alone => AloneFine(r)')
    BY <1>0, <1>1, <1>2, <2>1, <2>2, <2>a DEF ReqFine, BundleOf, AloneFine, At
  <2>5. SaidFine' /\ GrantRow'
    BY <1>0, <1>1, <1>2, <2>1 DEF SaidFine, LifeInv, GrantRow
  <2>. QED
    BY <1>0, <1>1, <2>1, <2>2, <2>3, <2>4, <2>5, PlainStep
<1>3. CASE Fault /\ Refuse(r) /\ UNCHANGED tomb
  <2>1. req[r].tok \notin staged
    BY <1>0 DEF BundleOf, ReqFine, TypeOK, Sources
  <2>2. Answer(r, "unclear") \/ Refuse(r)
    BY <1>0, <1>3
  <2>3. /\ Moves(r, Idle) /\ said' \in {"unclear", "unclear"} /\ UNCHANGED <<blind, lost, mixed>>
    <3>1. UNCHANGED <<up, expired>>
      BY <1>1
    <3>. QED
      BY <1>0, <2>2, <3>1, EndMoves DEF Moves
  <2>4. TypeOK'
    BY <1>0, <1>1, <1>3, <2>3 DEF TypeOK, Moves, ReqRec, Ops, PCs, NoFault, Fault, Counters
  <2>5. GrantRow'
    BY <1>0, <1>1, <1>3 DEF LifeInv, GrantRow
  <2>. QED
    BY <1>0, <1>1, <1>3, <2>1, <2>2, <2>4, <2>5, EndStep
<1>. QED
  BY <1>2, <1>3 DEF ClearTomb

\* The flag is written.
LEMMA WriteFlagStep ==
    ASSUME LifeInv, NEW r \in Reqs, WriteFlag(r)
    PROVE  LifeInv'
<1>0. /\ r \in Active /\ TypeOK /\ ReqFine(r) /\ BundleOf(r) /\ (req[r].alone => AloneFine(r))
      /\ req[r] \in ReqRec /\ said = "unclear" /\ req[r].pc = "flag" /\ req[r].op = "toggle"
  BY ActiveAt DEF WriteFlag, PCs, At, ReqFine
<1>1. UNCHANGED <<grant, tomb, dir, staged, up, mem, contrib, pending, tx, expired>>
  BY DEF WriteFlag, process
<1>2. CASE /\ row' = IF row = None THEN None ELSE [row EXCEPT !.enabled = req[r].on]
           /\ Answer(r, Outcome(r)) /\ NoFault
  <2>1. req[r].tok \notin staged
    BY <1>0 DEF BundleOf, ReqFine, TypeOK, Sources
  <2>2. Answer(r, Outcome(r)) /\ Outcome(r) \in {"enabled", "disabled"}
        /\ (Outcome(r) = "enabled" <=> req[r].on)
    BY <1>0, <1>2 DEF Outcome, ReqRec
  <2>3. /\ Moves(r, Idle) /\ said' \in {"unclear", Outcome(r)} /\ UNCHANGED <<blind, lost, mixed>>
    <3>1. UNCHANGED <<up, expired>>
      BY <1>1
    <3>. QED
      BY <1>0, <2>2, <3>1, EndMoves DEF Moves
  <2>4. TypeOK'
    <3>1. row' \in Lives
      BY <1>0, <1>2 DEF TypeOK, Lives, ReqRec
    <3>. QED
      BY <1>0, <1>1, <1>2, <2>2, <2>3, <3>1 DEF TypeOK, Moves, ReqRec, Ops, PCs, NoFault, Counters
  <2>5. GrantRow'
    <3>1. row # None => row' # None
      BY <1>0, <1>2 DEF TypeOK, Lives, ReqRec
    <3>. QED
      BY <1>1, <3>1 DEF LifeInv, GrantRow
  <2>6. ASSUME req[r].alone, said' = Outcome(r), Outcome(r) # "unclear" PROVE SaidFine'
    <3>1. /\ GrantOf /\ mem # None /\ mem.enabled = req[r].on
          /\ ~Required => row # None /\ contrib # None
      BY <1>0, <2>6 DEF AloneFine, At
    <3>2. row = None => row' = None
      BY <1>2
    <3>3. row # None => row' # None /\ row'.from = row.from /\ row'.enabled = req[r].on
      BY <1>0, <1>2 DEF TypeOK, Lives, ReqRec
    <3>4. GrantOf'
      BY <1>1, <3>1, <3>2, <3>3 DEF GrantOf
    <3>5. req[r].on \in BOOLEAN /\ (said' # "disabled" <=> req[r].on) /\ said' # "uninstalled"
      BY <1>0, <2>2, <2>6 DEF ReqRec
    <3>. QED
      BY <1>1, <3>1, <3>3, <3>4, <3>5 DEF SaidFine
  <2>. QED
    BY <1>0, <1>1, <1>2, <2>1, <2>2, <2>4, <2>5, <2>6, EndStep
<1>3. CASE Fault /\ Refuse(r) /\ UNCHANGED row
  <2>1. req[r].tok \notin staged
    BY <1>0 DEF BundleOf, ReqFine, TypeOK, Sources
  <2>2. Answer(r, "unclear") \/ Refuse(r)
    BY <1>0, <1>3
  <2>3. /\ Moves(r, Idle) /\ said' \in {"unclear", "unclear"} /\ UNCHANGED <<blind, lost, mixed>>
    <3>1. UNCHANGED <<up, expired>>
      BY <1>1
    <3>. QED
      BY <1>0, <2>2, <3>1, EndMoves DEF Moves
  <2>4. TypeOK'
    BY <1>0, <1>1, <1>3, <2>3 DEF TypeOK, Moves, ReqRec, Ops, PCs, NoFault, Fault, Counters
  <2>5. GrantRow'
    BY <1>0, <1>1, <1>3 DEF LifeInv, GrantRow
  <2>. QED
    BY <1>0, <1>1, <1>3, <2>1, <2>2, <2>4, <2>5, EndStep
<1>. QED
  BY <1>2, <1>3 DEF WriteFlag

-----------------------------------------------------------------------------
(* Requests that begin.                                                     *)

\* It takes a token, or none, and leaves the rows and the directories alone.
LEMMA BeginStep ==
    ASSUME LifeInv, NEW r \in Reqs, NEW op \in Ops \ {"none"}, NEW pc \in PCs \ {"idle"},
           NEW t \in Tokens \cup {None}, NEW on \in BOOLEAN, Begin(r, op, pc, t, on),
           UNCHANGED <<row, grant, tomb, dir, staged, up, contrib, tx, expired>>,
           pending' = pending \ {t}, mem' \in Lives, t # None => t \in pending /\ t \in staged,
           req'[r].tok = t /\ req'[r].op = op /\ req'[r].pc = pc =>
              ReqFine(r)' /\ BundleOf(r)',
           req'[r].alone /\ req'[r].op = op /\ req'[r].pc = pc /\ req'[r].on = on
                /\ (op \in {"toggle", "remove"} => said # "unclear") => AloneFine(r)'
    PROVE  LifeInv'
<1>. USE DEF LifeInv
<1>. DEFINE n == [op |-> op, pc |-> pc, tok |-> t, man |-> None, on |-> on,
                  alone |-> Active = {} /\ (op \in {"toggle", "remove"} => said # "unclear")]
            other(q) == [req[q] EXCEPT !.alone = FALSE]
<1>1. /\ up /\ req[r] = Idle /\ served < MaxRequests /\ served' = served + 1
      /\ req' = [q \in Reqs |-> IF q = r THEN n ELSE other(q)]
      /\ said' = "unclear" /\ blind' = FALSE /\ UNCHANGED <<faults, crashes, lost>>
      /\ mixed' = mixed \cup (IF Active = {} THEN {}
                              ELSE ({t} \cup {req[q].tok : q \in Active}) \ {None})
  BY DEF Begin
<1>2. /\ n \in ReqRec /\ n.op = op /\ n.pc = pc /\ n.tok = t /\ n.on = on
      /\ n.alone => Active = {} /\ (op \in {"toggle", "remove"} => said # "unclear")
  BY DEF ReqRec
<1>3. \A q \in Reqs : /\ other(q) \in ReqRec /\ other(q).op = req[q].op /\ other(q).pc = req[q].pc
                      /\ other(q).tok = req[q].tok /\ other(q).man = req[q].man
                      /\ other(q).on = req[q].on /\ other(q).alone = FALSE
                      /\ (req[q] = Idle => other(q) = Idle)
                      /\ (other(q) = Idle => req[q].pc = "idle")
  <2>. TAKE q \in Reqs
  <2>1. req[q] \in ReqRec
    BY DEF TypeOK, ReqRec, Ops, PCs
  <2>2. /\ other(q) \in ReqRec /\ other(q).op = req[q].op /\ other(q).pc = req[q].pc
        /\ other(q).tok = req[q].tok /\ other(q).man = req[q].man
        /\ other(q).on = req[q].on /\ other(q).alone = FALSE
    BY <2>1 DEF ReqRec
  <2>3. req[q] = Idle => other(q) = Idle
    <3>. SUFFICES ASSUME req[q] = Idle PROVE other(q) = Idle
      OBVIOUS
    <3>1. /\ Idle.op = "none" /\ Idle.pc = "idle" /\ Idle.tok = None /\ Idle.man = None
          /\ Idle.on = FALSE /\ Idle.alone = FALSE
      BY DEF Idle
    <3>2. ASSUME NEW a \in ReqRec, NEW b \in ReqRec, a.op = b.op, a.pc = b.pc, a.tok = b.tok,
                 a.man = b.man, a.on = b.on, a.alone = b.alone
          PROVE  a = b
      BY <3>2 DEF ReqRec
    <3>. HIDE DEF other
    <3>. QED
      BY <2>2, <3>1, <3>2, IdleRecord
  <2>. HIDE DEF other
  <2>. QED
    BY <2>2, <2>3, IdleRecord
<1>4. req'[r] = n /\ \A q \in Reqs \ {r} : req'[q] = other(q)
  BY <1>1
<1>5. req' \in [Reqs -> ReqRec]
  BY <1>1, <1>2, <1>3
<1>. HIDE DEF n, other
<1>6. n # Idle
  BY <1>2, IdleRecord
<1>7. \A q \in Reqs \ {r} : req'[q] # Idle <=> req[q] # Idle
  BY <1>3, <1>4, IdleRecord DEF ReqsFine, ReqFine, At
<1>8. Active' = Active \cup {r}
  BY <1>4, <1>6, <1>7 DEF Active
<1>9. TypeOK'
  <2>1. mixed' \subseteq Tokens
    BY <1>1 DEF TypeOK, Active
  <2>2. served' \in 0..MaxRequests
    BY <1>1 DEF TypeOK
  <2>. QED
    BY <1>1, <1>5, <2>1, <2>2 DEF TypeOK, ReqRec, Ops, PCs
<1>10. ReqsFine'
  <2>. SUFFICES ASSUME NEW q \in Reqs
                PROVE  ReqFine(q)' /\ BundleOf(q)' /\ (req'[q].alone => AloneFine(q)')
    BY DEF ReqsFine
  <2>1. CASE q = r
    BY <1>2, <1>4, <2>1
  <2>2. CASE q # r
    <3>1. /\ req'[q].op = req[q].op /\ req'[q].pc = req[q].pc /\ req'[q].tok = req[q].tok
          /\ req'[q].man = req[q].man /\ ~req'[q].alone /\ (req[q] = Idle => req'[q] = Idle)
          /\ ReqFine(q) /\ BundleOf(q)
      BY <1>3, <1>4, <2>2 DEF ReqsFine
    <3>2. ReqFine(q)'
      BY <3>1 DEF ReqFine, At
    <3>3. BundleOf(q)'
      BY <1>1, <3>1 DEF BundleOf, At, Home
    <3>. QED
      BY <3>1, <3>2, <3>3
  <2>. QED
    BY <2>1, <2>2
<1>11. OnlyOne'
  <2>1. \A q \in Reqs : req'[q].alone => q = r /\ Active = {}
    BY <1>2, <1>3, <1>4
  <2>. QED
    BY <1>1, <1>8, <2>1 DEF OnlyOne
<1>12. \A q \in Reqs : q # r => req'[q].tok = req[q].tok
  BY <1>3, <1>4
<1>13. req'[r].tok = t /\ req[r].tok = None
  BY <1>1, <1>2, <1>4, IdleRecord
<1>14. TokensApart'
  <2>1. \A q \in Reqs : req'[q].tok \notin pending'
    BY <1>12, <1>13 DEF TokensApart
  <2>2. \A q, s \in Reqs : req'[q].tok # None /\ req'[s].tok = req'[q].tok => q = s
    BY <1>12, <1>13 DEF TokensApart
  <2>3. \A q, s \in Active' : q # s /\ req'[q].tok # None => req'[q].tok \in mixed'
    <3>. SUFFICES ASSUME NEW q \in Active', NEW s \in Active', q # s, req'[q].tok # None
                  PROVE  req'[q].tok \in mixed'
      OBVIOUS
    <3>1. Active # {}
      BY <1>8
    <3>2. CASE q = r
      BY <1>1, <1>13, <3>1, <3>2
    <3>3. CASE q # r
      <4>1. q \in Active /\ req'[q].tok = req[q].tok
        BY <1>8, <1>12, <3>3 DEF Active
      <4>. QED
        BY <1>1, <3>1, <4>1
    <3>. QED
      BY <3>2, <3>3
  <2>. QED
    BY <2>1, <2>2, <2>3 DEF TokensApart
<1>15. StagingAccounted'
  <2>1. PendingHasBundle'
    BY <1>1 DEF StagingAccounted, PendingHasBundle
  <2>2. StagedAccounted'
    <3>. SUFFICES ASSUME NEW b \in staged \ lost
                  PROVE  b \in pending' \/ \E q \in Reqs : req'[q].tok = b
      BY <1>1 DEF StagedAccounted
    <3>1. CASE b = t
      BY <1>13, <3>1
    <3>2. CASE b # t /\ b \in pending
      BY <3>2
    <3>3. CASE b \notin pending
      <4>1. PICK q \in Reqs : req[q].tok = b
        BY <3>3 DEF StagingAccounted, StagedAccounted
      <4>2. b # None
        BY DEF TypeOK, Sources
      <4>3. q # r
        BY <1>13, <4>1, <4>2
      <4>. QED
        BY <1>12, <4>1, <4>3
    <3>. QED
      BY <3>1, <3>2, <3>3
  <2>. QED
    BY <2>1, <2>2 DEF StagingAccounted
<1>16. SaidFine' /\ GrantRow'
  BY <1>1 DEF SaidFine, GrantRow
<1>. QED
  BY <1>9, <1>10, <1>11, <1>14, <1>15, <1>16

\* Confirm takes its token.
LEMMA TakeStep ==
    ASSUME LifeInv, NEW r \in Reqs, NEW t \in Tokens, Take(r, t)
    PROVE  LifeInv'
<1>1. /\ Begin(r, "confirm", "begin", t, TRUE) /\ t \in pending /\ t \in staged
      /\ pending' = pending \ {t}
      /\ UNCHANGED <<row, grant, tomb, dir, staged, up, contrib, tx, expired, mem>>
  BY DEF Take, durable
<1>2. mem' \in Lives /\ t # None
  BY <1>1 DEF LifeInv, TypeOK, Sources
<1>3. req'[r].tok = t /\ req'[r].op = "confirm" /\ req'[r].pc = "begin" => ReqFine(r)' /\ BundleOf(r)'
  BY <1>1, <1>2, IdleRecord DEF ReqFine, BundleOf, At
<1>4. req'[r].op = "confirm" /\ req'[r].pc = "begin" => AloneFine(r)'
  BY DEF AloneFine, At
<1>5. "confirm" \in Ops \ {"none"} /\ "begin" \in PCs \ {"idle"} /\ t \in Tokens \cup {None}
  BY DEF Ops, PCs
<1>. QED
  BY <1>1, <1>2, <1>3, <1>4, <1>5, BeginStep

\* A request without a token.
LEMMA TokenlessStep ==
    ASSUME LifeInv, NEW r \in Reqs, NEW op \in Ops \ {"none", "confirm"}, NEW pc \in PCs \ {"idle"},
           NEW on \in BOOLEAN, Begin(r, op, pc, None, on), mem' \in Lives,
           UNCHANGED <<row, grant, tomb, dir, staged, up, contrib, pending, tx, expired>>,
           \/ op \in {"uninstall", "remove"} /\ pc = "delete"
           \/ op = "uninstall" /\ pc = "purge"
           \/ op = "restore" /\ pc = "clear"
           \/ op = "post" /\ pc = "upsert"
           \/ op = "toggle" /\ pc = "flag",
           req'[r].alone /\ req'[r].op = op /\ req'[r].pc = pc /\ req'[r].on = on
                /\ (op \in {"toggle", "remove"} => said # "unclear") => AloneFine(r)'
    PROVE  LifeInv'
<1>1. pending' = pending \ {None} /\ None \notin staged
  BY DEF LifeInv, TypeOK, Sources
<1>2. req'[r].tok = None /\ req'[r].op = op /\ req'[r].pc = pc => ReqFine(r)' /\ BundleOf(r)'
  BY <1>1 DEF ReqFine, BundleOf, At
<1>3. op \in Ops \ {"none"} /\ None \in Tokens \cup {None}
  OBVIOUS
<1>. QED
  BY <1>1, <1>2, <1>3, BeginStep

\* The plugin is taken off the map.
LEMMA RemoveLiveStep ==
    ASSUME LifeInv, NEW r \in Reqs, NEW op \in {"uninstall", "remove"}, RemoveLive(r, op)
    PROVE  LifeInv'
<1>. DEFINE can == mem # None /\ ~(Required /\ mem.from = "builtin")
<1>1. /\ Begin(r, op, IF can THEN "delete" ELSE "purge", None, FALSE)
      /\ op = "remove" => can
      /\ mem' = IF can THEN None ELSE mem
      /\ UNCHANGED <<row, grant, tomb, dir, staged, up, contrib, pending, tx, expired>>
  BY DEF RemoveLive, durable
<1>2. mem' \in Lives /\ (mem' = None \/ (Required /\ mem'.from = "builtin"))
  BY <1>1 DEF LifeInv, TypeOK, Lives
<1>. PICK pc \in PCs \ {"idle"} : pc = IF can THEN "delete" ELSE "purge"
  BY DEF PCs
<1>3. op \in Ops \ {"none", "confirm"} /\ FALSE \in BOOLEAN /\ Begin(r, op, pc, None, FALSE)
  BY <1>1 DEF Ops
<1>4. pc = "delete" \/ (op = "uninstall" /\ pc = "purge")
  BY <1>1
<1>5. req'[r].op = op /\ req'[r].pc = pc => AloneFine(r)'
  BY <1>2, <1>4 DEF AloneFine, At
<1>. QED
  BY <1>1, <1>2, <1>3, <1>4, <1>5, TokenlessStep

\* A restore begins.
LEMMA RestoreStep ==
    ASSUME LifeInv, NEW r \in Reqs, Restore(r)
    PROVE  LifeInv'
<1>1. /\ Begin(r, "restore", "clear", None, TRUE)
      /\ UNCHANGED <<row, grant, tomb, dir, staged, up, contrib, pending, tx, expired, mem>>
  BY DEF Restore, durable, process
<1>2. mem' \in Lives /\ "restore" \in Ops \ {"none", "confirm"} /\ "clear" \in PCs \ {"idle"}
  BY <1>1 DEF LifeInv, TypeOK, Ops, PCs
<1>3. req'[r].op = "restore" /\ req'[r].pc = "clear" => AloneFine(r)'
  BY DEF AloneFine, At
<1>. QED
  BY <1>1, <1>2, <1>3, TokenlessStep

\* A posted manifest arrives.
LEMMA PostStep ==
    ASSUME LifeInv, NEW r \in Reqs, Post(r)
    PROVE  LifeInv'
<1>1. /\ Begin(r, "post", "upsert", None, TRUE)
      /\ UNCHANGED <<row, grant, tomb, dir, staged, up, contrib, pending, tx, expired, mem>>
  BY DEF Post, durable, process
<1>2. mem' \in Lives /\ "post" \in Ops \ {"none", "confirm"} /\ "upsert" \in PCs \ {"idle"}
  BY <1>1 DEF LifeInv, TypeOK, Ops, PCs
<1>3. req'[r].op = "post" /\ req'[r].pc = "upsert" => AloneFine(r)'
  BY DEF AloneFine, At
<1>. QED
  BY <1>1, <1>2, <1>3, TokenlessStep

\* The flag is set in memory.
LEMMA ToggleStep ==
    ASSUME LifeInv, NEW r \in Reqs, NEW on \in BOOLEAN, Toggle(r, on)
    PROVE  LifeInv'
<1>1. /\ Begin(r, "toggle", "flag", None, on) /\ mem # None /\ up
      /\ mem' = [mem EXCEPT !.enabled = on]
      /\ UNCHANGED <<row, grant, tomb, dir, staged, up, contrib, pending, tx, expired>>
  BY DEF Toggle, durable, Begin
<1>2. mem' \in Lives /\ mem' # None /\ mem'.from = mem.from /\ mem'.enabled = on
  BY <1>1 DEF LifeInv, TypeOK, Lives
<1>3. "toggle" \in Ops \ {"none", "confirm"} /\ "flag" \in PCs \ {"idle"}
  BY DEF Ops, PCs
<1>4. said # "unclear" => GrantOf /\ (~Required => row # None /\ contrib # None)
  <2>1. ~blind
    BY <1>1 DEF LifeInv, OnlyOne
  <2>. QED
    BY <1>1, <2>1 DEF LifeInv, SaidFine
<1>5. said # "unclear" => GrantOf'
  BY <1>1, <1>2, <1>4 DEF GrantOf
<1>6. req'[r].op = "toggle" /\ req'[r].pc = "flag" /\ req'[r].on = on /\ said # "unclear" => AloneFine(r)'
  BY <1>1, <1>2, <1>4, <1>5 DEF AloneFine, At
<1>. QED
  BY <1>1, <1>2, <1>3, <1>6, TokenlessStep

-----------------------------------------------------------------------------
(* Tokens, restarts.                                                        *)

\* Bundles are staged, tokens expire and are reaped.
LEMMA TokenStep ==
    ASSUME LifeInv, NEW t \in Tokens, Stage(t) \/ Expire(t) \/ Reap(t) \/ TakeExpired(t)
    PROVE  LifeInv'
<1>. USE DEF LifeInv
<1>1. /\ UNCHANGED <<row, grant, tomb, dir, up, mem, contrib, tx, req, served, faults, crashes>>
      /\ UNCHANGED <<said, blind, mixed>>
  BY DEF Stage, Expire, Reap, TakeExpired, durable, process, Counters, History
<1>2. /\ \/ staged' = staged /\ pending' = pending /\ lost' = lost
         \/ /\ staged' = staged \cup {t} /\ pending' = pending \cup {t} /\ lost' = lost
            /\ \A r \in Reqs : req[r].tok # t
         \/ /\ staged' = staged \ {t} /\ pending' = pending \ {t} /\ lost' = lost /\ t \in pending
         \/ staged' = staged /\ pending' = pending \ {t} /\ lost' = lost \cup {t}
      /\ expired' \subseteq Tokens
  <2>1. CASE Stage(t)
    BY <2>1 DEF Stage, TypeOK, History
  <2>2. CASE Expire(t)
    BY <2>2 DEF Expire, TypeOK, History, durable, process
  <2>3. CASE Reap(t)
    BY <2>3 DEF Reap, TypeOK, History
  <2>4. CASE TakeExpired(t)
    BY <2>4 DEF TakeExpired, TypeOK, durable
  <2>. QED
    BY <2>1, <2>2, <2>3, <2>4
<1>3. TypeOK'
  BY <1>1, <1>2 DEF TypeOK
<1>4. ReqsFine'
  <2>. SUFFICES ASSUME NEW q \in Reqs
                PROVE  ReqFine(q)' /\ BundleOf(q)' /\ (req'[q].alone => AloneFine(q)')
    BY DEF ReqsFine
  <2>4. ReqFine(q)'
    BY <1>1 DEF ReqsFine, ReqFine, At
  <2>5. req'[q].alone => AloneFine(q)'
    BY <1>1 DEF ReqsFine, AloneFine, At, Home, GrantOf
  <2>1. BundleOf(q) /\ req[q].tok \notin pending
    BY DEF ReqsFine, TokensApart
  <2>2. req[q].tok \in staged => req[q].tok \in staged'
    BY <1>2, <2>1
  <2>3. req[q].tok \notin staged => req[q].tok \notin staged'
    BY <1>2
  <2>6. BundleOf(q)'
    BY <1>1, <2>1, <2>2, <2>3 DEF BundleOf, At, Home
  <2>. QED
    BY <2>4, <2>5, <2>6
<1>5. OnlyOne' /\ SaidFine' /\ GrantRow'
  BY <1>1 DEF OnlyOne, Active, SaidFine, GrantRow, GrantOf
<1>6. TokensApart'
  <2>1. \A r \in Reqs : req[r].tok \notin pending'
    BY <1>2 DEF TokensApart
  <2>. QED
    BY <1>1, <2>1 DEF TokensApart, Active
<1>7. StagingAccounted'
  <2>1. PendingHasBundle'
    BY <1>1, <1>2 DEF StagingAccounted, PendingHasBundle
  <2>2. StagedAccounted'
    <3>. SUFFICES ASSUME NEW b \in staged' \ lost'
                  PROVE  b \in pending' \/ \E q \in Reqs : req[q].tok = b
      BY <1>1 DEF StagedAccounted
    <3>1. CASE b = t
      BY <1>2, <3>1 DEF StagingAccounted, StagedAccounted
    <3>2. CASE b # t
      BY <1>2, <3>2 DEF StagingAccounted, StagedAccounted
    <3>. QED
      BY <3>1, <3>2
  <2>. QED
    BY <2>1, <2>2 DEF StagingAccounted
<1>. QED
  BY <1>3, <1>4, <1>5, <1>6, <1>7

\* Without requests and tokens.
LEMMA QuietHolds ==
    ASSUME req = [r \in Reqs |-> Idle], pending = {}
    PROVE  ReqsFine /\ TokensApart /\ Active = {}
<1>1. \A r \in Reqs : req[r] = Idle
  OBVIOUS
<1>2. Active = {}
  BY <1>1 DEF Active
<1>3. ReqsFine
  BY <1>1, IdleRecord DEF ReqsFine, ReqFine, BundleOf, At
<1>4. TokensApart
  BY <1>1, <1>2, IdleRecord DEF TokensApart
<1>. QED
  BY <1>2, <1>3, <1>4

\* The gateway dies and everything in memory is gone.
LEMMA CrashStep ==
    ASSUME LifeInv, Crash
    PROVE  LifeInv'
<1>. USE DEF LifeInv
<1>1. /\ up' = FALSE /\ crashes' = crashes + 1 /\ crashes < MaxCrashes
      /\ mem' = None /\ contrib' = None /\ pending' = {} /\ tx' = None
      /\ req' = [r \in Reqs |-> Idle]
      /\ said' = IF Active = {} THEN said ELSE "unclear"
      /\ lost' = lost \cup staged /\ blind' = FALSE
      /\ UNCHANGED <<row, grant, tomb, dir, staged, expired, served, faults, mixed>>
  BY DEF Crash, durable
<1>2. TypeOK'
  <2>1. req' \in [Reqs -> ReqRec]
    BY <1>1, IdleRecord
  <2>2. crashes' \in 0..MaxCrashes
    BY <1>1 DEF TypeOK
  <2>. QED
    BY <1>1, <2>1, <2>2 DEF TypeOK, ReqRec, Ops, PCs, Lives
<1>3. ReqsFine' /\ TokensApart' /\ Active' = {}
  <2>1. \A r \in Reqs : req'[r] = Idle
    BY <1>1
  <2>2. Active' = {}
    BY <2>1 DEF Active
  <2>3. ReqsFine'
    BY <2>1, IdleRecord DEF ReqsFine, ReqFine, BundleOf, At
  <2>4. TokensApart'
    BY <1>1, <2>1, <2>2, IdleRecord DEF TokensApart
  <2>. QED
    BY <2>2, <2>3, <2>4
<1>4. OnlyOne'
  <2>1. \A r \in Reqs : ~req'[r].alone
    BY <1>1, IdleRecord
  <2>. QED
    BY <1>1, <1>3, <2>1 DEF OnlyOne
<1>5. SaidFine'
  BY <1>1 DEF SaidFine, GrantOf
<1>6. GrantRow' /\ StagingAccounted'
  BY <1>1 DEF GrantRow, StagingAccounted, PendingHasBundle, StagedAccounted
<1>. QED
  BY <1>2, <1>3, <1>4, <1>5, <1>6

\* LoadAll starts from the rows and the tombstone.
LEMMA BootStep ==
    ASSUME LifeInv, Boot
    PROVE  LifeInv'
<1>. USE DEF LifeInv
<1>1. /\ ~up /\ up' = TRUE
      /\ UNCHANGED <<grant, tomb, dir, staged, pending, tx, expired, req, lost, mixed>>
  BY DEF Boot
<1>. DEFINE Loaded == /\ SaidFine' /\ GrantRow' /\ row' \in Lives /\ mem' \in Lives
                      /\ contrib' \in Sources \cup {None} /\ (blind' => mem' = None)
<1>2. Active = {} /\ mem = None /\ ~blind
  BY <1>1 DEF OnlyOne
<1>3. served' = served /\ crashes' = crashes /\ faults' \in 0..MaxFaults /\ blind' \in BOOLEAN
  <2>1. Fault \/ NoFault
    BY DEF Boot
  <2>2. served' = served /\ crashes' = crashes /\ faults' \in 0..MaxFaults
    BY <2>1 DEF Fault, NoFault, Counters, TypeOK
  <2>3. blind' = TRUE \/ blind' = blind
    BY DEF Boot
  <2>. QED
    BY <2>2, <2>3 DEF TypeOK
<1>4. /\ row \in Lives /\ mem \in Lives /\ contrib \in Sources \cup {None} /\ said' \in {said, "reseeded"}
      /\ said \in {"unclear", "uninstalled", "enabled", "disabled", "reseeded"}
      /\ Live("builtin", TRUE) \in Lives /\ Live("builtin", TRUE) # None /\ "builtin" \in Sources
      /\ Live("builtin", TRUE).from = "builtin" /\ Live("builtin", TRUE).enabled = TRUE
  <2>1. said' \in {said, "reseeded"}
    BY DEF Boot
  <2>. QED
    BY <2>1, LiveRecord DEF TypeOK, Sources
\* The rows are not read, or there is nothing to load.
<1>5. ASSUME UNCHANGED <<row, mem, contrib, said>>, blind' \/ row = None
      PROVE  Loaded
  <2>1. row' \in Lives /\ mem' \in Lives /\ contrib' \in Sources \cup {None}
    BY <1>4, <1>5
  <2>2. GrantRow'
    BY <1>1, <1>5 DEF GrantRow
  <2>3. SaidFine'
    BY <1>1, <1>2, <1>5 DEF SaidFine, GrantOf
  <2>. QED
    BY <1>2, <1>3, <1>5, <2>1, <2>2, <2>3
\* The row is loaded, in sync with the built-in or as it is.
<1>6. ASSUME row # None, mem' = row', contrib' = row.from, UNCHANGED <<said, blind>>,
             row' \in {row, [row EXCEPT !.from = "builtin"]}
      PROVE  Loaded
  <2>1. row \in [from : Sources, enabled : BOOLEAN]
    BY <1>4, <1>6 DEF Lives
  <2>2. /\ row' \in [from : Sources, enabled : BOOLEAN] /\ row'.enabled = row.enabled
        /\ row'.from \in {row.from, "builtin"} /\ row.from \in Sources
    BY <1>4, <1>6, <2>1
  <2>3. row' \in Lives /\ row' # None /\ mem' \in Lives /\ mem' # None /\ contrib' # None /\ contrib' \in Sources
    BY <1>6, <2>2 DEF Lives
  <2>4. GrantRow'
    BY <2>3 DEF GrantRow
  <2>5. SaidFine'
    <3>. SUFFICES ASSUME said # "unclear" PROVE SaidFine'
      BY <1>6 DEF SaidFine
    <3>1. GrantOf'
      BY <1>1, <1>6, <2>2 DEF SaidFine, GrantOf
    <3>. QED
      BY <1>1, <1>6, <2>2, <2>3, <3>1 DEF SaidFine
  <2>. QED
    BY <1>2, <1>6, <2>2, <2>3, <2>4, <2>5
\* The built-in is seeded: nothing was said to be there.
<1>7. ASSUME row = None, row' = Live("builtin", TRUE), mem' = row', contrib' = "builtin", blind' = blind,
             said' = IF said = "uninstalled" THEN "reseeded" ELSE said
      PROVE  Loaded
  <2>1. GrantRow'
    BY <1>4, <1>7 DEF GrantRow
  <2>2. SaidFine'
    <3>1. GrantOf'
      BY <1>1, <1>4, <1>7 DEF GrantOf
    <3>2. said = "unclear" \/ Required \/ said = "uninstalled"
      BY <1>7 DEF SaidFine
    <3>. QED
      BY <1>1, <1>4, <1>7, <3>1, <3>2 DEF SaidFine
  <2>. QED
    BY <1>2, <1>4, <1>7, <2>1, <2>2
<1>8. Loaded
  BY <1>5, <1>6, <1>7 DEF Boot
<1>9. TypeOK'
  BY <1>1, <1>3, <1>4, <1>8 DEF TypeOK
<1>10. \A r \in Reqs : req[r] = Idle
  BY <1>2 DEF Active
<1>11. ReqsFine' /\ TokensApart'
  BY <1>1, <1>10, IdleRecord DEF ReqsFine, ReqFine, BundleOf, TokensApart, Active, At
<1>12. OnlyOne'
  BY <1>1, <1>2, <1>8, <1>10, IdleRecord DEF OnlyOne, Active
<1>13. StagingAccounted'
  BY <1>1 DEF StagingAccounted, PendingHasBundle, StagedAccounted
<1>. QED
  BY <1>8, <1>9, <1>11, <1>12, <1>13

-----------------------------------------------------------------------------
(* The theorems.                                                            *)

\* Nothing is installed at first.
LEMMA InitLife == Init => LifeInv
<1>. SUFFICES ASSUME Init PROVE LifeInv
  OBVIOUS
<1>1. TypeOK
  <2>1. req \in [Reqs -> ReqRec]
    BY IdleRecord DEF Init
  <2>2. served \in 0..MaxRequests /\ faults \in 0..MaxFaults /\ crashes \in 0..MaxCrashes
    BY DEF Init
  <2>. QED
    BY <2>1, <2>2 DEF Init, TypeOK, ReqRec, Ops, PCs, Lives
<1>2. ReqsFine /\ TokensApart /\ Active = {}
  BY QuietHolds DEF Init
<1>3. OnlyOne
  BY <1>2, IdleRecord DEF Init, OnlyOne
<1>4. SaidFine /\ GrantRow /\ StagingAccounted
  BY DEF Init, SaidFine, GrantRow, StagingAccounted, PendingHasBundle, StagedAccounted
<1>. QED
  BY <1>1, <1>2, <1>3, <1>4 DEF LifeInv

\* Every step keeps the invariant.
LEMMA NextLife == LifeInv /\ [Next]_vars => LifeInv'
<1>. SUFFICES ASSUME LifeInv, [Next]_vars PROVE LifeInv'
  OBVIOUS
<1>1. ASSUME NEW r \in Reqs, Serve(r) PROVE LifeInv'
  BY <1>1, WriteRowsStep, TrashStep, MoveStep, CommitStep, UpsertStep, LoadStep, DeleteRowStep,
     PurgeStep, BuryStep, ClearDirsStep, ClearTombStep, WriteFlagStep DEF Serve
<1>2. ASSUME NEW r \in Reqs, Sweep(r) PROVE LifeInv'
  BY <1>2, RemoveLiveStep, ToggleStep DEF Sweep
<1>3. CASE UNCHANGED vars
  <2>1. /\ UNCHANGED <<row, grant, tomb, dir, staged, mem, contrib, pending, tx, up, expired>>
        /\ UNCHANGED <<req, served, faults, crashes, said, blind, lost, mixed>>
    BY <1>3 DEF vars, durable, process
  <2>2. TypeOK' /\ TokensApart' /\ OnlyOne' /\ SaidFine' /\ GrantRow' /\ StagingAccounted'
    BY <2>1 DEF LifeInv, TypeOK, TokensApart, OnlyOne, SaidFine, GrantRow, GrantOf, Active,
                StagingAccounted, PendingHasBundle, StagedAccounted
  <2>3. ReqsFine'
    <3>. SUFFICES ASSUME NEW q \in Reqs
                  PROVE  (ReqFine(q) /\ BundleOf(q) /\ (req[q].alone => AloneFine(q)))'
      BY DEF ReqsFine
    <3>1. ReqFine(q) /\ BundleOf(q) /\ (req[q].alone => AloneFine(q))
      BY DEF LifeInv, ReqsFine
    <3>2. ReqFine(q)'
      BY <2>1, <3>1 DEF ReqFine, At
    <3>3. BundleOf(q)'
      BY <2>1, <3>1 DEF BundleOf, At, Home
    <3>4. (req[q].alone => AloneFine(q))'
      BY <2>1, <3>1 DEF AloneFine, GrantOf, At, Home
    <3>. QED
      BY <3>2, <3>3, <3>4
  <2>. QED
    BY <2>2, <2>3 DEF LifeInv
<1>. QED
  BY <1>1, <1>2, <1>3, TokenStep, RestoreStep, PostStep, TakeStep, RemoveLiveStep, ToggleStep,
     CrashStep, BootStep DEF Next

\* The invariant holds in every state.
LEMMA LifeHolds == Spec => []LifeInv
  BY InitLife, NextLife, PTL DEF Spec

\* The rows, the tombstone, the directories, the runtime's map and the requests keep their
\* types: a row is deleted or has a manifest, a request is at a place it can be
\* (install.go:230-475, runtime.go:141-419).
THEOREM TypeCorrect == Spec => []TypeOK
<1>1. LifeInv => TypeOK
  BY DEF LifeInv
<1>. QED
  BY <1>1, LifeHolds, PTL

\* What the last request answered holds until the next one, through any number of
\* restarts and failed queries (install.go:432-447, runtime.go:141-232).
THEOREM AcknowledgementsHold == Spec => []AcknowledgedHolds
<1>1. LifeInv => AcknowledgedHolds
  <2>. SUFFICES ASSUME SaidFine, TypeOK, up, said # "unclear", ~Required
                PROVE  IF said = "uninstalled"
                         THEN row = None /\ mem = None
                         ELSE /\ row # None /\ row.enabled = (said # "disabled")
                              /\ ~blind => mem # None /\ contrib # None /\ mem.enabled = row.enabled
    BY DEF AcknowledgedHolds, LifeInv
  <2>. QED
    BY DEF SaidFine
<1>. QED
  BY <1>1, LifeHolds, PTL

\* A token that can be confirmed has its bundle, and a staged bundle its token, whatever
\* Confirm fails at and whatever expires (install.go:236-243, 456-475).
THEOREM TokensAndBundles == Spec => []StagingAccounted
<1>1. LifeInv => StagingAccounted
  BY DEF LifeInv
<1>. QED
  BY <1>1, LifeHolds, PTL

\* No consent without a row, and what is loaded and at rest was granted to its bundle
\* (install.go:286-337).
THEOREM GrantsMatch == Spec => []GrantMatches
<1>1. LifeInv => GrantMatches
  BY DEF LifeInv, GrantRow, SaidFine, GrantOf, GrantMatches
<1>. QED
  BY <1>1, LifeHolds, PTL

=============================================================================
