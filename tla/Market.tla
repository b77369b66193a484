------------------------------- MODULE Market -------------------------------
(***************************************************************************)
(* The marketplace: the remote catalog with its mirrors and its cache      *)
(* (plugin/market/remote), the catalog on disk (plugin/market/local), the  *)
(* signature policy (plugin/market/signing), the sources a bundle comes    *)
(* from (plugin/install/source) and the handler and the command line that  *)
(* drive an install up to the confirmation (gateway/plugins_install,       *)
(* cmd/opendray/plugin_install_cli).                                       *)
(*                                                                         *)
(* One plugin of one publisher; a version is a number, the bytes of an     *)
(* artifact too.  A file of the registry is what its reader parses.  What  *)
(* Confirm does with a staged bundle is PluginLifecycle.                   *)
(***************************************************************************)
EXTENDS Naturals, FiniteSets

CONSTANTS
    Procs,          \* requests, each served once
    Versions,
    Lexical,        \* the place of each version among the strings
    MaxBase,        \* the primary is base 1, its mirrors follow
    MaxUploads,     \* bound: artifacts uploaded
    Scenarios,      \* the backend, the requests and the deeds of a behaviour
    None

Kinds == {"install", "list", "poll", "https", "path"}
Deeds == {"publish", "sync", "mistake", "revoke", "reupload", "fault", "expire",
          "refresh", "allow", "lapse"}
MarketAssumption ==
    /\ Versions \subseteq Nat \ {0} /\ IsFiniteSet(Versions) /\ 1 \in Versions
    /\ Lexical \in [Versions -> Nat]
    /\ MaxBase \in Nat \ {0} /\ MaxUploads \in Nat \ {0}
    /\ \A s \in Scenarios : /\ s.backend \in {"remote", "local"} /\ s.deeds \subseteq Deeds
                            /\ s.requests \subseteq Kinds \X (Versions \union {0})

VARIABLES
    scenario,
    registry,   \* each base: its files
    artifact,   \* the bytes behind the artifact URL of a version, 0 without
    uploads,
    shelf,      \* versions whose bundle the catalog on disk holds
    cache,      \* each file: the body kept and whether it was read before the last refresh
    proc,
    temp,       \* what lies in the directory for temporary files
    staged      \* each request: what it has staged, and what became of that

vars == <<scenario, registry, artifact, uploads, shelf, cache, proc, temp, staged>>

Can(deed) == deed \in scenario.deeds
Remote == scenario.backend = "remote"
Index == <<"index", 0>>   Publisher == <<"publisher", 0>>   Revocations == <<"revocations", 0>>
Version(v) == <<"version", v>>
Files == {Index, Publisher, Revocations} \union {Version(v) : v \in Versions}
Bases == 1..MaxBase
Bytes == 0..MaxUploads

Bodies ==
         [latest : Versions \union {0}, whole : BOOLEAN]
  \union [trust : {"community", "official"}, usable : BOOLEAN]
  \union [says : Versions, sha : Bytes, sig : {"none", "good", "bad"}]
  \union [revoked : {TRUE}]
NoEntry == [body |-> None, early |-> FALSE]
Rest == [pc |-> "idle", kind |-> "list", ask |-> 0, want |-> 0, file |-> Index, base |-> 1,
         body |-> None, early |-> FALSE, had |-> FALSE, entry |-> None, pub |-> None,
         bytes |-> 0, end |-> "none"]
Ends == {"none", "done", "EFORBIDDEN", "ENOENT", "ESIGN", "EMARKET", "ESTAGEFAIL", "EBADMANIFEST",
         "badrow", "mismatch", "timeout", "cancelled", "installed", "aborted", "ETOKEN"}

TypeOK ==
    /\ scenario \in Scenarios
    /\ registry \in [Bases -> [Files -> Bodies \union {None}]]
    /\ artifact \in [Versions -> Bytes] /\ uploads \in Bytes
    /\ shelf \subseteq Versions
    /\ cache \in [Files -> [body : Bodies \union {None}, early : BOOLEAN]]
    /\ proc \in [Procs -> [pc : {"idle", "look", "get", "store", "local", "open", "stream", "hash",
                                 "extract", "copy", "stage", "prompt", "ended"},
                           kind : Kinds, ask : Versions \union {0}, want : Versions \union {0},
                           file : Files, base : Bases, body : Bodies \union {None},
                           early : BOOLEAN, had : BOOLEAN, entry : Bodies \union {None},
                           pub : Bodies \union {None}, bytes : Bytes, end : Ends]]
    /\ temp \subseteq ({"zip", "dir"} \X Procs)
    /\ staged \in [Procs -> {"none", "pending", "lapsed", "moved", "leaked", "gone"}]

Signed(v, c) == [says |-> v, sha |-> c, sig |-> "good"]
FirstBody(f, versions) ==
    CASE f = Index       -> [latest |-> 1, whole |-> TRUE]
      [] f = Publisher   -> [trust |-> "official", usable |-> TRUE]
      [] f = Revocations -> None
      [] f[1] = "version" -> IF f[2] \in versions THEN Signed(f[2], 1) ELSE None
First(versions) == [f \in Files |-> FirstBody(f, versions)]

Init ==
    /\ scenario \in Scenarios
    /\ \E versions \in IF Remote THEN {{1}} ELSE SUBSET Versions :
           registry = [b \in Bases |-> First(versions)]
    /\ artifact = [v \in Versions |-> IF v = 1 THEN 1 ELSE 0] /\ uploads = 1
    /\ shelf \in IF Remote THEN {{}} ELSE SUBSET Versions
    /\ cache = [f \in Files |-> NoEntry]
    /\ proc = [p \in Procs |-> Rest]
    /\ temp = {} /\ staged = [p \in Procs |-> "none"]

\* ------------------------------------------ the registry, its mirrors, the artifacts
Registry == <<scenario, shelf, cache, proc, temp, staged>>
Release(v, body) == /\ uploads < MaxUploads
                    /\ uploads' = uploads + 1
                    /\ artifact' = [artifact EXCEPT ![v] = uploads']
                    /\ registry' = [registry EXCEPT ![1][Version(v)] = body, ![1][Index].latest = v]

Publish(v) ==
    /\ Can("publish") /\ Remote /\ registry[1][Version(v)] = None
    /\ Release(v, Signed(v, uploads + 1))
    /\ UNCHANGED Registry

\* A file of another version copied under this name, an unsigned one, a signature
\* of something else, an index with an incomplete row or without it.
Mistake(v) ==
    /\ Can("mistake") /\ Remote
    /\ \/ /\ registry[1][Version(v)] = None
          /\ \E body \in {Signed(1, uploads + 1), [Signed(v, uploads + 1) EXCEPT !.sig = "none"],
                          [Signed(v, uploads + 1) EXCEPT !.sig = "bad"]} : Release(v, body)
       \/ /\ \/ registry' = [registry EXCEPT ![1][Index].whole = FALSE]
             \/ registry' = [registry EXCEPT ![1][Index].latest = 0]
          /\ UNCHANGED <<artifact, uploads>>
    /\ UNCHANGED Registry

Revoke ==
    /\ Can("revoke")
    /\ \E record \in {None, [trust |-> "official", usable |-> FALSE],
                      [trust |-> "community", usable |-> FALSE]} :
         registry' = [registry EXCEPT ![1][Publisher] = record, ![1][Revocations] = [revoked |-> TRUE]]
    /\ UNCHANGED <<Registry, artifact, uploads>>

Sync(b) ==
    /\ Can("sync") /\ b # 1
    /\ registry' = [registry EXCEPT ![b] = registry[1]]
    /\ UNCHANGED <<Registry, artifact, uploads>>

\* The bytes behind a URL are changed without the registry.
Reupload(v) ==
    /\ Can("reupload") /\ Remote /\ artifact[v] # 0 /\ uploads < MaxUploads
    /\ uploads' = uploads + 1
    /\ artifact' = [artifact EXCEPT ![v] = uploads']
    /\ UNCHANGED <<Registry, registry>>

World == \/ \E v \in Versions : Publish(v) \/ Mistake(v) \/ Reupload(v)
         \/ Revoke
         \/ \E b \in Bases : Sync(b)

\* ----------------------------------------------------------------- a request
Outside == <<scenario, registry, artifact, uploads, shelf>>
Ended(p, s, end) == proc' = [proc EXCEPT ![p] = [s EXCEPT !.pc = "ended", !.end = end]]
Fail(p, end) == Ended(p, proc[p], end)

Begin(p, kind, ask) ==
    /\ proc[p].pc = "idle" /\ <<kind, ask>> \in scenario.requests
    /\ LET s == [Rest EXCEPT !.kind = kind, !.ask = ask, !.want = ask]
           At(pc, file) == proc' = [proc EXCEPT ![p] = [s EXCEPT
                  !.pc = pc, !.file = file,
                  !.had = ask # 0 /\ registry[1][Version(ask)] # None]]
       IN  \/ kind = "path" /\ Can("allow") /\ At("copy", Index)
           \/ kind = "path" /\ ~Can("allow") /\ Ended(p, s, "EFORBIDDEN")
           \* ParseSource leaves the hash empty, which Fetch requires
           \/ kind = "https" /\ Ended(p, s, "ESTAGEFAIL")
           \/ kind = "install" /\ Remote /\ At("look", IF ask = 0 THEN Index ELSE Version(ask))
           \/ kind = "install" /\ ~Remote /\ At("local", Index)
           \/ kind = "list" /\ Remote /\ At("look", Index)
           \/ kind = "poll" /\ Remote /\ At("look", Revocations)
    /\ UNCHANGED <<Outside, cache, temp, staged>>

\* An absent publisher is an empty record: no trust, no keys.
SignatureRequired(pub) == pub = None \/ pub.trust # "community"
VerifySignature(entry, pub) == pub # None /\ pub.usable /\ entry.sig = "good"
EnforcePolicy(entry, pub) ==
    IF entry.sig = "none" THEN ~SignatureRequired(pub) ELSE VerifySignature(entry, pub)

Matches(s, body) == body.says = s.want
Policed(p, s, pub) ==
    IF EnforcePolicy(s.entry, pub)
    THEN proc' = [proc EXCEPT ![p] = [s EXCEPT !.pub = pub, !.pc = "open"]]
    ELSE Ended(p, s, "ESIGN")
Then(s, file) == [s EXCEPT !.pc = "look", !.file = file, !.base = 1, !.body = None, !.early = FALSE]

ListParsed(p, s, body) ==
    \/ ~body.whole /\ Ended(p, s, "badrow")
    \/ body.whole /\ s.kind = "list" /\ Ended(p, s, "done")
    \/ body.whole /\ s.kind = "install" /\ body.latest = 0 /\ Ended(p, s, "ENOENT")
    \/ /\ body.whole /\ s.kind = "install" /\ body.latest # 0
       /\ proc' = [proc EXCEPT ![p] = Then([s EXCEPT !.want = body.latest], Version(body.latest))]
VersionParsed(p, s, body) ==
    IF Matches(s, body)
    THEN proc' = [proc EXCEPT ![p] = Then([s EXCEPT !.entry = body], Publisher)]
    ELSE Ended(p, s, "mismatch")
Parsed(p, s, body) ==
    CASE s.file[1] = "index"       -> ListParsed(p, s, body)
      [] s.file[1] = "version"     -> VersionParsed(p, s, body)
      [] s.file[1] = "publisher"   -> Policed(p, s, body)
      [] s.file[1] = "revocations" -> Ended(p, s, "done")

CacheLookup(p) ==
    /\ proc[p].pc = "look"
    /\ LET kept == cache[proc[p].file].body IN
         IF kept = None THEN proc' = [proc EXCEPT ![p].pc = "get"] ELSE Parsed(p, proc[p], kept)
    /\ UNCHANGED <<Outside, cache, temp, staged>>

\* A 404 is definitive, whichever base it comes from.
NotFound(p) ==
    LET s == proc[p]  kind == s.file[1] IN
    \/ kind = "index" /\ Fail(p, "EMARKET")
    \/ kind = "version" /\ Fail(p, "ENOENT")
    \/ kind = "publisher" /\ Policed(p, s, None)
    \/ kind = "revocations" /\ Fail(p, "done")

FetchOne(p) ==
    /\ proc[p].pc = "get"
    /\ LET s == proc[p]  body == registry[s.base][s.file] IN
         \/ body # None /\ proc' = [proc EXCEPT ![p].pc = "store", ![p].body = body]
         \/ body = None /\ NotFound(p)
         \* 5xx, no connection, a page of HTML, a body too long
         \/ /\ Can("fault")
            /\ IF s.base < MaxBase THEN proc' = [proc EXCEPT ![p].base = @ + 1] ELSE Fail(p, "EMARKET")
         \/ Can("fault") /\ Fail(p, "cancelled")
         \* the client's timeout is a context.DeadlineExceeded
         \/ Can("lapse") /\ Fail(p, "timeout")
    /\ UNCHANGED <<Outside, cache, temp, staged>>

CacheStore(p) ==
    /\ proc[p].pc = "store"
    /\ cache' = [cache EXCEPT ![proc[p].file] = [body |-> proc[p].body, early |-> proc[p].early]]
    /\ Parsed(p, proc[p], proc[p].body)
    /\ UNCHANGED <<Outside, temp, staged>>

Expire(f) ==
    /\ Can("expire") /\ cache[f].body # None
    /\ cache' = [cache EXCEPT ![f] = NoEntry]
    /\ UNCHANGED <<Outside, proc, temp, staged>>

InvalidateCache ==
    /\ Can("refresh") /\ Remote
    /\ cache' = [f \in Files |-> NoEntry]
    /\ proc' = [p \in Procs |-> IF proc[p].pc = "store" THEN [proc[p] EXCEPT !.early = TRUE] ELSE proc[p]]
    /\ UNCHANGED <<Outside, temp, staged>>

\* The catalog on disk was read at the start; of a version it does not know it
\* gives the one whose string sorts last.
Listed == {v \in Versions : registry[1][Version(v)] # None}
LookupKey(ask) ==
    IF ask \in Listed THEN ask
    ELSE CHOOSE v \in Listed : \A w \in Listed : Lexical[w] <= Lexical[v]
ResolveNothing(p) ==
    /\ proc[p].pc = "local" /\ Listed = {} /\ Fail(p, "ENOENT")
    /\ UNCHANGED <<Outside, cache, temp, staged>>
ResolveLocal(p) ==
    /\ proc[p].pc = "local" /\ Listed # {}
    /\ LET v == LookupKey(proc[p].ask)
           s == [proc[p] EXCEPT !.want = v, !.entry = registry[1][Version(v)]]
           pub == registry[1][Publisher]
       IN  IF ~EnforcePolicy(s.entry, pub) THEN Ended(p, s, "ESIGN")
           ELSE IF v \in shelf THEN proc' = [proc EXCEPT ![p] = [s EXCEPT !.pub = pub, !.pc = "copy"]]
           ELSE Ended(p, s, "EMARKET")
    /\ UNCHANGED <<Outside, cache, temp, staged>>

\* -------------------------------------------------------------- the bundle
Zip(p) == <<"zip", p>>
Dir(p) == <<"dir", p>>

Open(p) ==
    /\ proc[p].pc = "open"
    /\ \/ /\ artifact[proc[p].want] # 0
          /\ temp' = temp \union {Zip(p)} /\ proc' = [proc EXCEPT ![p].pc = "stream"]
       \/ Can("fault") /\ Fail(p, "ESTAGEFAIL") /\ UNCHANGED temp
    /\ UNCHANGED <<Outside, cache, staged>>

Stream(p) ==
    /\ proc[p].pc = "stream"
    /\ \/ /\ proc' = [proc EXCEPT ![p].pc = "hash", ![p].bytes = artifact[proc[p].want]]
          /\ UNCHANGED temp
       \/ Can("fault") /\ Fail(p, "ESTAGEFAIL") /\ temp' = temp \ {Zip(p)}
    /\ UNCHANGED <<Outside, cache, staged>>

VerifiedAnyway(p) == TRUE
Verified(p) == proc[p].bytes = proc[p].entry.sha
RmTmp(p) == temp' = temp \ {Zip(p)}
Hash(p) ==
    /\ proc[p].pc = "hash"
    /\ IF Verified(p) THEN /\ temp' = temp \union {Dir(p)}
                           /\ proc' = [proc EXCEPT ![p].pc = "extract"]
       ELSE RmTmp(p) /\ Fail(p, "ESTAGEFAIL")
    /\ UNCHANGED <<Outside, cache, staged>>

Extract(p) ==
    /\ proc[p].pc = "extract"
    /\ \/ temp' = temp \ {Zip(p)} /\ proc' = [proc EXCEPT ![p].pc = "stage"]
       \/ Can("fault") /\ temp' = temp \ {Zip(p), Dir(p)} /\ Fail(p, "ESTAGEFAIL")
    /\ UNCHANGED <<Outside, cache, staged>>

\* a directory of this host: copied, with no hash to compare
CopyTree(p) ==
    /\ proc[p].pc = "copy"
    /\ \/ temp' = temp \union {Dir(p)} /\ proc' = [proc EXCEPT ![p].pc = "stage"]
       \/ Can("fault") /\ Fail(p, "ESTAGEFAIL") /\ UNCHANGED temp
    /\ UNCHANGED <<Outside, cache, staged>>

\* Moved, or copied to another volume and then removed.
Stage(p) ==
    /\ proc[p].pc = "stage"
    /\ temp' = temp \ {Dir(p)}
    /\ \/ proc' = [proc EXCEPT ![p].pc = "prompt"] /\ staged' = [staged EXCEPT ![p] = "pending"]
       \/ Can("mistake") /\ Fail(p, "EBADMANIFEST") /\ UNCHANGED staged
       \/ Can("fault") /\ Fail(p, "ESTAGEFAIL") /\ UNCHANGED staged
    /\ UNCHANGED <<Outside, cache>>

\* The command line prompts, or was told not to; the app asks in a dialog.
Confirm(p) ==
    /\ proc[p].pc = "prompt"
    /\ \/ staged[p] = "pending" /\ staged' = [staged EXCEPT ![p] = "moved"] /\ Fail(p, "installed")
       \/ staged[p] = "lapsed" /\ staged' = [staged EXCEPT ![p] = "leaked"] /\ Fail(p, "ETOKEN")
       \/ staged[p] = "gone" /\ UNCHANGED staged /\ Fail(p, "ETOKEN")
    /\ UNCHANGED <<Outside, cache, temp>>
Abort(p) ==
    /\ proc[p].pc = "prompt"
    /\ Fail(p, "aborted")
    /\ UNCHANGED <<Outside, cache, temp, staged>>

Lapse(p) ==
    /\ Can("lapse") /\ staged[p] = "pending"
    /\ staged' = [staged EXCEPT ![p] = "lapsed"]
    /\ UNCHANGED <<Outside, cache, proc, temp>>
Reap ==
    /\ \E p \in Procs : staged[p] = "lapsed"
    /\ staged' = [p \in Procs |-> IF staged[p] = "lapsed" THEN "gone" ELSE staged[p]]
    /\ UNCHANGED <<Outside, cache, proc, temp>>

Request(p) ==
    \/ \E r \in scenario.requests : Begin(p, r[1], r[2])
    \/ CacheLookup(p) \/ FetchOne(p) \/ CacheStore(p) \/ ResolveLocal(p) \/ ResolveNothing(p)
    \/ Open(p) \/ Stream(p) \/ Hash(p) \/ Extract(p) \/ CopyTree(p) \/ Stage(p)
    \/ Confirm(p) \/ Abort(p) \/ Lapse(p)

Next == \/ World
        \/ \E p \in Procs : Request(p)
        \/ \E f \in Files : Expire(f)
        \/ InvalidateCache \/ Reap

Spec == Init /\ [][Next]_vars

\* A bundle staged from the remote catalog is the one the registry resolved: of the
\* version asked for, with the bytes of its hash, under the policy for the publisher
\* whose record was read (source.go:264-272, catalog.go:438-447, policy.go:45-60).
\* However the registry, its mirrors, the cache and the artifact change meanwhile.
StagedAsResolved ==
    \A p \in Procs : LET s == proc[p] IN
        Remote /\ s.kind = "install" /\ staged[p] # "none" =>
            /\ s.bytes = s.entry.sha
            /\ s.entry.says = s.want /\ s.ask \in {0, s.want}
            /\ EnforcePolicy(s.entry, s.pub)

\* Nothing is left among the temporary files of a request that has ended or waits for
\* a confirmation, whichever step failed (source.go:237-296, install.go:144-150).
NothingLeft ==
    \A t \in temp : proc[t[2]].pc \in
        (IF t[1] = "zip" THEN {"stream", "hash", "extract"} ELSE {"extract", "stage"})

\* Refuted: mirrors are there for timeouts too (catalog.go:77-78, 545-547).
TimeoutTriesMirror == \A p \in Procs : proc[p].end = "timeout" => proc[p].base = MaxBase

\* Refuted: a 404 means that the file is genuinely not there (catalog.go:115-117).
NotFoundIsGenuine ==
    \A p \in Procs : proc[p].end = "ENOENT" /\ proc[p].ask # 0 => ~proc[p].had

\* Refuted: after a refresh the next read goes to the registry (catalog.go:217-219).
RefreshIsFresh == \A f \in Files : ~cache[f].early

\* Refuted: a bad row of the index is dropped and does not fail the list (catalog.go:294-297).
BadRowDropped == \A p \in Procs : proc[p].end # "badrow"

\* Refuted: no version means the latest, a version means that one or ErrNotFound
\* (types.go:157-159), in the catalog on disk.
LatestIsLatest ==
    \A p \in Procs : staged[p] # "none" /\ proc[p].kind = "install" /\ proc[p].ask = 0 =>
        Remote \/ \A v \in Listed : v <= proc[p].want
PinnedResolves ==
    \A p \in Procs : staged[p] # "none" /\ proc[p].ask # 0 => proc[p].want = proc[p].ask

\* Refuted: an https:// URL can be installed (plugin_install_cli.go:190-194).
HttpsInstalls == \A p \in Procs : proc[p].kind = "https" => proc[p].end # "ESTAGEFAIL"
=============================================================================
