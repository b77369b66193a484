---------------------------- MODULE SurfacesProofs ----------------------------
(* Theorems about the components of Surfaces, for every value of the        *)
(* constants: each part proves the invariant of a lane from the actions of  *)
(* its module.                                                              *)
EXTENDS Surfaces, FiniteSetTheorems, TLAPS


-----------------------------------------------------------------------------
(* The marketplace.                                                         *)

LEMMA CatalogStart ==
    ASSUME Init, lane = "Catalog"
    PROVE  Catalog!Init
  BY DEF Init
LEMMA CatalogLane ==
    ASSUME [Next]_vars, lane' = "Catalog"
    PROVE  lane = "Catalog" /\ (Catalog!Next \/ UNCHANGED Catalog!vars)
<1>1. CASE Next
  BY <1>1 DEF Next
<1>2. CASE UNCHANGED vars
  BY <1>2 DEF vars, catalogVars, Catalog!vars
<1> QED
  BY <1>1, <1>2
LEMMA CatalogConstants ==
    /\ Versions \subseteq Nat \ {0} /\ IsFiniteSet(Versions) /\ 1 \in Versions
    /\ Lexical \in [Versions -> Nat] /\ MaxBase \in Nat \ {0} /\ MaxUploads \in Nat \ {0}
    /\ \A s \in MarketScenarios : s.requests \subseteq Catalog!Kinds \X (Versions \union {0})
<1>1. Catalog!MarketAssumption
  BY SurfacesAssumption
<1>2. IsFiniteSet(Versions)
  BY <1>1 DEF Catalog!MarketAssumption, Catalog!IsFiniteSet, IsFiniteSet
<1> QED
  BY <1>1, <1>2 DEF Catalog!MarketAssumption

\* A set of versions has one that sorts last.
LEMMA SortsLast ==
    ASSUME NEW V \in SUBSET Versions, V # {}
    PROVE  \E v \in V : \A w \in V : Lexical[w] <= Lexical[v]
<1> DEFINE Above(v) == {w \in V : Lexical[v] < Lexical[w]}
           T == {Above(v) : v \in V}
<1>1. \A v \in Versions : Lexical[v] \in Nat
  BY CatalogConstants
<1>2. T \subseteq FiniteSubsetsOf(Versions) /\ T # {}
  <2>1. ASSUME NEW v \in V PROVE Above(v) \in FiniteSubsetsOf(Versions)
    <3>1. Above(v) \subseteq Versions
      OBVIOUS
    <3>2. IsFiniteSet(Above(v))
      BY <3>1, CatalogConstants, FS_Subset
    <3> QED
      BY <3>1, <3>2 DEF FiniteSubsetsOf
  <2> QED
    BY <2>1
<1>3. PICK x \in T : \A y \in T : <<y, x>> \notin StrictSubsetOrdering(Versions)
  BY <1>2, FS_StrictSubsetOrderingWellFounded, WFMin
<1>4. PICK v \in V : x = Above(v)
  BY <1>3
<1>5. ASSUME NEW w \in V PROVE Lexical[w] <= Lexical[v]
  <2>1. SUFFICES ASSUME Lexical[v] < Lexical[w] PROVE FALSE
    BY <1>1
  <2>2. Above(w) \in T /\ Above(w) \subseteq Above(v)
    BY <1>1, <2>1
  <2>3. w \in Above(v) /\ w \notin Above(w)
    BY <1>1, <2>1
  <2>4. <<Above(w), Above(v)>> \in StrictSubsetOrdering(Versions)
    <3>1. Above(w) \in SUBSET Versions /\ Above(v) \in SUBSET Versions /\ Above(w) # Above(v)
      BY <2>3
    <3> HIDE DEF Above
    <3> QED
      BY <2>2, <3>1 DEF StrictSubsetOrdering
  <2> QED
    BY <1>3, <1>4, <2>2, <2>4
<1> QED
  BY <1>5

\* The files of the registry.
IndexBody == [latest : Versions \union {0}, whole : BOOLEAN]
PublisherBody == [trust : {"community", "official"}, usable : BOOLEAN]
VersionBody == [says : Versions, sha : Catalog!Bytes, sig : {"none", "good", "bad"}]
RevocationBody == [revoked : {TRUE}]
OfFile(f, body) ==
    /\ f = Catalog!Index => body \in IndexBody \union {None}
    /\ f = Catalog!Publisher => body \in PublisherBody \union {None}
    /\ f = Catalog!Revocations => body \in RevocationBody \union {None}
    /\ \A v \in Versions : f = Catalog!Version(v) => body \in VersionBody \union {None}
LEMMA BodyKinds ==
    Catalog!Bodies = IndexBody \union PublisherBody \union VersionBody \union RevocationBody
  BY DEF Catalog!Bodies, IndexBody, PublisherBody, VersionBody, RevocationBody
LEMMA FileKinds ==
    /\ Catalog!Index \in Catalog!Files /\ Catalog!Publisher \in Catalog!Files
    /\ Catalog!Revocations \in Catalog!Files /\ \A v \in Versions : Catalog!Version(v) \in Catalog!Files
    /\ Catalog!Index # Catalog!Publisher /\ Catalog!Index # Catalog!Revocations
    /\ Catalog!Publisher # Catalog!Revocations
    /\ \A v : Catalog!Version(v) \notin {Catalog!Index, Catalog!Publisher, Catalog!Revocations}
    /\ \A v, w : Catalog!Version(v) = Catalog!Version(w) => v = w
    /\ \A f \in Catalog!Files :
          /\ f[1] = "index" <=> f = Catalog!Index
          /\ f[1] = "publisher" <=> f = Catalog!Publisher
          /\ f[1] = "revocations" <=> f = Catalog!Revocations
          /\ f[1] = "version" <=> \E v \in Versions : f = Catalog!Version(v)
          /\ f[1] \in {"index", "publisher", "revocations", "version"}
          /\ \A v \in Versions : f = Catalog!Version(v) => f[2] = v
  BY DEF Catalog!Files, Catalog!Index, Catalog!Publisher, Catalog!Revocations, Catalog!Version
LEMMA OfFileBody ==
    ASSUME NEW f \in Catalog!Files, NEW body, OfFile(f, body)
    PROVE  body \in Catalog!Bodies \union {None}
  BY FileKinds, BodyKinds DEF OfFile

\* A request, what it has resolved, and what it may stage.
Steps == {"idle", "look", "get", "store", "local", "open", "stream", "hash", "extract", "copy", "stage",
          "prompt", "ended"}
Marks == {"none", "pending", "lapsed", "moved", "leaked", "gone"}
Errand == [pc : Steps, kind : Catalog!Kinds, ask : Versions \union {0}, want : Versions \union {0},
           file : Catalog!Files, base : Catalog!Bases, body : Catalog!Bodies \union {None},
           early : BOOLEAN, had : BOOLEAN, entry : Catalog!Bodies \union {None},
           pub : Catalog!Bodies \union {None}, bytes : Catalog!Bytes, end : Catalog!Ends]
Kept == [body : Catalog!Bodies \union {None}, early : BOOLEAN]
Resolved(s) ==
    /\ s.entry \in VersionBody /\ s.entry.says = s.want /\ s.ask \in {0, s.want}
    /\ Catalog!EnforcePolicy(s.entry, s.pub)
Whole(s) == Catalog!Remote /\ s.kind = "install" => Resolved(s) /\ s.bytes = s.entry.sha
Sound(s) ==
    /\ s.pc \in {"look", "get", "store"} =>
          /\ Catalog!Remote
          /\ s.file \notin {Catalog!Index, Catalog!Revocations} => s.kind = "install" /\ s.ask \in {0, s.want}
          /\ s.file = Catalog!Index /\ s.kind = "install" => s.ask = 0
          /\ s.file = Catalog!Publisher => s.entry \in VersionBody /\ s.entry.says = s.want
    /\ s.pc = "store" => s.body # None /\ OfFile(s.file, s.body)
    /\ s.pc \in {"open", "stream", "hash"} => Resolved(s)
    /\ s.pc \in {"extract", "stage", "prompt"} => Whole(s)
    /\ s.pc = "local" => ~Catalog!Remote
    /\ s.pc = "copy" => ~Catalog!Remote \/ s.kind = "path"
Zipped(s) == s.pc \in {"stream", "hash", "extract"}
Unpacked(s) == s.pc \in {"extract", "stage"}

CatalogWorld ==
    /\ registry \in [Catalog!Bases -> [Catalog!Files -> Catalog!Bodies \union {None}]]
    /\ \A b \in Catalog!Bases, f \in Catalog!Files : OfFile(f, registry[b][f])
    /\ \A b \in Catalog!Bases : registry[b][Catalog!Index] \in IndexBody
    /\ artifact \in [Versions -> Catalog!Bytes] /\ uploads \in Catalog!Bytes
    /\ scenario \in MarketScenarios /\ shelf \subseteq Versions
CatalogCache ==
    /\ cache \in [Catalog!Files -> Kept]
    /\ \A f \in Catalog!Files : OfFile(f, cache[f].body)
CatalogErrands ==
    /\ proc \in [Buyers -> Errand] /\ staged \in [Buyers -> Marks]
    /\ \A p \in Buyers : /\ Sound(proc[p])
                         /\ staged[p] # "none" => proc[p].pc \in {"prompt", "ended"} /\ Whole(proc[p])
CatalogTemp ==
    /\ temp \subseteq ({"zip", "dir"} \X Buyers)
    /\ \A p \in Buyers : /\ Catalog!Zip(p) \in temp => Zipped(proc[p])
                         /\ Catalog!Dir(p) \in temp => Unpacked(proc[p])
CatalogInv == CatalogWorld /\ CatalogCache /\ CatalogErrands /\ CatalogTemp

LEMMA CatalogInvInit ==
    ASSUME Catalog!Init
    PROVE  CatalogInv
<1>1. PICK V \in SUBSET Versions : registry = [b \in Catalog!Bases |-> Catalog!First(V)]
  BY CatalogConstants DEF Catalog!Init
<1>2. /\ artifact = [v \in Versions |-> IF v = 1 THEN 1 ELSE 0] /\ uploads = 1
      /\ scenario \in MarketScenarios /\ shelf \subseteq Versions
      /\ cache = [f \in Catalog!Files |-> Catalog!NoEntry] /\ proc = [p \in Buyers |-> Catalog!Rest]
      /\ temp = {} /\ staged = [p \in Buyers |-> "none"]
  BY DEF Catalog!Init
<1>3. /\ 0 \in Catalog!Bytes /\ 1 \in Catalog!Bytes /\ 1 \in Catalog!Bases /\ 0 \in Versions \union {0}
      /\ Catalog!Bases # {}
  BY CatalogConstants DEF Catalog!Bytes, Catalog!Bases
<1>4. \A f : OfFile(f, None)
  BY DEF OfFile
<1>5. CatalogWorld
  <2>1. ASSUME NEW f \in Catalog!Files
        PROVE  /\ OfFile(f, Catalog!First(V)[f]) /\ (f = Catalog!Index => Catalog!First(V)[f] \in IndexBody)
    <3> Catalog!First(V)[f] = Catalog!FirstBody(f, V)
      BY DEF Catalog!First
    <3>1. CASE f = Catalog!Index
      <4>1. Catalog!FirstBody(f, V) = [latest |-> 1, whole |-> TRUE]
        BY <3>1, FileKinds DEF Catalog!FirstBody
      <4>2. Catalog!First(V)[f] \in IndexBody
        BY <4>1, CatalogConstants DEF IndexBody
      <4> QED
        BY <3>1, <4>2, FileKinds DEF OfFile
    <3>2. CASE f = Catalog!Publisher
      <4>1. Catalog!FirstBody(f, V) = [trust |-> "official", usable |-> TRUE]
        BY <3>2, FileKinds DEF Catalog!FirstBody
      <4>2. Catalog!First(V)[f] \in PublisherBody
        BY <4>1 DEF PublisherBody
      <4> QED
        BY <3>2, <4>2, FileKinds DEF OfFile
    <3>3. CASE f = Catalog!Revocations
      <4>1. Catalog!FirstBody(f, V) = None
        BY <3>3, FileKinds DEF Catalog!FirstBody
      <4> QED
        BY <1>4, <3>3, <4>1, FileKinds
    <3>4. CASE f \notin {Catalog!Index, Catalog!Publisher, Catalog!Revocations}
      <4>1. f[1] = "version"
        BY <3>4, FileKinds
      <4>2. Catalog!FirstBody(f, V) = IF f[2] \in V THEN Catalog!Signed(f[2], 1) ELSE None
        BY <3>4, <4>1 DEF Catalog!FirstBody
      <4>3. Catalog!First(V)[f] \in VersionBody \union {None}
        BY <1>3, <4>2 DEF VersionBody, Catalog!Signed
      <4> QED
        BY <3>4, <4>3 DEF OfFile
    <3> QED
      BY <3>1, <3>2, <3>3, <3>4
  <2>2. Catalog!First(V) \in [Catalog!Files -> Catalog!Bodies \union {None}]
    <3>1. \A f \in Catalog!Files : Catalog!First(V)[f] \in Catalog!Bodies \union {None}
      BY <2>1, OfFileBody
    <3>2. Catalog!First(V) = [f \in Catalog!Files |-> Catalog!First(V)[f]]
      BY DEF Catalog!First
    <3> QED
      BY <3>1, <3>2
  <2>3. artifact \in [Versions -> Catalog!Bytes] /\ uploads \in Catalog!Bytes
    BY <1>2, <1>3
  <2> QED
    BY <1>1, <1>2, <2>1, <2>2, <2>3, FileKinds DEF CatalogWorld
<1>6. CatalogCache
  <2>1. Catalog!NoEntry \in Kept /\ Catalog!NoEntry.body = None
    BY DEF Catalog!NoEntry, Kept
  <2> QED
    BY <1>2, <1>4, <2>1 DEF CatalogCache
<1>7. CatalogErrands
  <2>1. Catalog!Rest \in Errand /\ Catalog!Rest.pc = "idle"
    BY <1>3, FileKinds DEF Catalog!Rest, Errand, Steps, Catalog!Kinds, Catalog!Ends
  <2>2. Sound(Catalog!Rest)
    BY <2>1 DEF Sound
  <2> QED
    BY <1>2, <2>1, <2>2 DEF CatalogErrands, Marks
<1>8. CatalogTemp
  BY <1>2 DEF CatalogTemp
<1> QED
  BY <1>5, <1>6, <1>7, <1>8 DEF CatalogInv

\* ---------------------------------------------------------- steps of one request
ErrandAt(p, t) == proc' = [proc EXCEPT ![p] = t]

LEMMA CatalogOutside ==
    ASSUME CatalogInv, UNCHANGED Catalog!Outside
    PROVE  /\ CatalogWorld' /\ UNCHANGED <<scenario, registry, artifact, uploads, shelf>>
           /\ \A s : Sound(s)' = Sound(s) /\ Whole(s)' = Whole(s)
<1>1. UNCHANGED <<scenario, registry, artifact, uploads, shelf>>
  BY DEF Catalog!Outside
<1>2. CatalogWorld'
  BY <1>1 DEF CatalogInv, CatalogWorld
<1>3. Catalog!Remote' = Catalog!Remote
  BY <1>1 DEF Catalog!Remote
<1>4. \A s : Whole(s)' = Whole(s)
  BY <1>3 DEF Whole
<1>5. \A s : Sound(s)' = Sound(s)
  BY <1>3, <1>4 DEF Sound
<1> QED
  BY <1>1, <1>2, <1>4, <1>5

\* One request goes to t.
LEMMA ErrandStep ==
    ASSUME CatalogInv, NEW p \in Buyers, NEW t \in Errand, ErrandAt(p, t), UNCHANGED Catalog!Outside,
           Sound(t), CatalogCache', staged' \in [Buyers -> Marks],
           \A o \in Buyers \ {p} : staged'[o] = staged[o],
           staged'[p] # "none" => t.pc \in {"prompt", "ended"} /\ Whole(t),
           temp' \subseteq temp \union {Catalog!Zip(p), Catalog!Dir(p)},
           Catalog!Zip(p) \in temp' => Zipped(t), Catalog!Dir(p) \in temp' => Unpacked(t)
    PROVE  CatalogInv'
<1>1. proc' \in [Buyers -> Errand] /\ proc'[p] = t /\ \A o \in Buyers \ {p} : proc'[o] = proc[o]
  BY DEF CatalogInv, CatalogErrands, ErrandAt
<1>2. CatalogWorld' /\ \A s : Sound(s)' = Sound(s) /\ Whole(s)' = Whole(s)
  BY CatalogOutside
<1>3. CatalogErrands'
  <2>1. ASSUME NEW o \in Buyers
        PROVE  /\ Sound(proc'[o])
               /\ staged'[o] # "none" => proc'[o].pc \in {"prompt", "ended"} /\ Whole(proc'[o])
    BY <1>1 DEF CatalogInv, CatalogErrands
  <2>2. \A o \in Buyers : Sound(proc[o])' = Sound(proc'[o]) /\ Whole(proc[o])' = Whole(proc'[o])
    <3>1. ASSUME NEW o \in Buyers PROVE Sound(proc[o])' = Sound(proc'[o]) /\ Whole(proc[o])' = Whole(proc'[o])
      <4>1. PICK s : s = proc'[o]
        OBVIOUS
      <4>2. Sound(s)' = Sound(s) /\ Whole(s)' = Whole(s)
        BY <1>2
      <4> QED
        BY <4>1, <4>2 DEF Sound, Whole
    <3> QED
      BY <3>1
  <2> QED
    BY <1>1, <2>1, <2>2 DEF CatalogErrands
<1>4. CatalogTemp'
  <2>1. \A o \in Buyers \ {p} :
          /\ Catalog!Zip(o) \notin {Catalog!Zip(p), Catalog!Dir(p)}
          /\ Catalog!Dir(o) \notin {Catalog!Zip(p), Catalog!Dir(p)}
    BY DEF Catalog!Zip, Catalog!Dir
  <2>2. Catalog!Zip(p) \in {"zip", "dir"} \X Buyers /\ Catalog!Dir(p) \in {"zip", "dir"} \X Buyers
    BY DEF Catalog!Zip, Catalog!Dir
  <2> QED
    BY <1>1, <2>1, <2>2 DEF CatalogInv, CatalogTemp
<1> QED
  BY <1>2, <1>3, <1>4 DEF CatalogInv

\* A request that has nothing among the temporary files and nothing staged.
Bare(p) == Catalog!Zip(p) \notin temp /\ Catalog!Dir(p) \notin temp /\ staged[p] = "none"
LEMMA BareErrand ==
    ASSUME CatalogInv, NEW p \in Buyers,
           proc[p].pc \in {"idle", "look", "get", "store", "local", "open", "copy"}
    PROVE  Bare(p)
  BY DEF CatalogInv, CatalogErrands, CatalogTemp, Bare, Zipped, Unpacked

LEMMA BareStep ==
    ASSUME CatalogInv, NEW p \in Buyers, Bare(p), NEW t \in Errand, ErrandAt(p, t), Sound(t),
           UNCHANGED Catalog!Outside, CatalogCache', UNCHANGED <<temp, staged>>
    PROVE  CatalogInv'
<1>1. staged' \in [Buyers -> Marks] /\ staged'[p] = "none"
  BY DEF CatalogInv, CatalogErrands, Bare
<1>2. Catalog!Zip(p) \notin temp' /\ Catalog!Dir(p) \notin temp'
  BY DEF Bare
<1> QED
  BY <1>1, <1>2, ErrandStep

LEMMA EndedAt ==
    ASSUME NEW p \in Buyers, NEW s \in Errand, NEW end \in Catalog!Ends, Catalog!Ended(p, s, end)
    PROVE  \E t \in Errand : /\ ErrandAt(p, t) /\ Sound(t) /\ t.pc = "ended" /\ t.kind = s.kind /\ t.ask = s.ask
                             /\ t.want = s.want /\ t.entry = s.entry /\ t.pub = s.pub /\ t.bytes = s.bytes
<1>1. PICK t : t = [s EXCEPT !.pc = "ended", !.end = end]
  OBVIOUS
<1>2. /\ t \in Errand /\ t.pc = "ended" /\ t.kind = s.kind /\ t.ask = s.ask
      /\ t.want = s.want /\ t.entry = s.entry /\ t.pub = s.pub /\ t.bytes = s.bytes
  BY <1>1 DEF Errand, Steps
<1>3. Sound(t)
  BY <1>2 DEF Sound
<1>4. ErrandAt(p, t)
  BY <1>1 DEF Catalog!Ended, ErrandAt
<1> QED
  BY <1>2, <1>3, <1>4

\* A request is refused before it has anything.
LEMMA RefusedStep ==
    ASSUME CatalogInv, NEW p \in Buyers, Bare(p), NEW s \in Errand, NEW end \in Catalog!Ends,
           Catalog!Ended(p, s, end), UNCHANGED Catalog!Outside, CatalogCache', UNCHANGED <<temp, staged>>
    PROVE  CatalogInv'
<1>1. PICK t \in Errand : ErrandAt(p, t) /\ Sound(t)
  BY EndedAt
<1> QED
  BY <1>1, BareStep
LEMMA CacheSame ==
    ASSUME CatalogInv, UNCHANGED cache
    PROVE  CatalogCache'
  BY DEF CatalogInv, CatalogCache
LEMMA EndNames ==
    {"done", "EFORBIDDEN", "ENOENT", "ESIGN", "EMARKET", "ESTAGEFAIL", "EBADMANIFEST", "badrow",
     "mismatch", "timeout", "cancelled", "installed", "aborted", "ETOKEN"} \subseteq Catalog!Ends
  BY DEF Catalog!Ends

\* The record of the publisher is read, or there is none.
LEMMA PolicedStep ==
    ASSUME CatalogInv, NEW p \in Buyers, Bare(p), NEW s \in Errand,
           s.entry \in VersionBody, s.entry.says = s.want, s.ask \in {0, s.want},
           NEW record \in PublisherBody \union {None}, Catalog!Policed(p, s, record),
           UNCHANGED Catalog!Outside, CatalogCache', UNCHANGED <<temp, staged>>
    PROVE  CatalogInv'
<1>1. CASE Catalog!EnforcePolicy(s.entry, record)
  <2>1. PICK t : t = [s EXCEPT !.pub = record, !.pc = "open"]
    OBVIOUS
  <2>2. record \in Catalog!Bodies \union {None}
    BY BodyKinds
  <2>3. /\ t \in Errand /\ t.pc = "open" /\ t.entry = s.entry /\ t.want = s.want /\ t.ask = s.ask
        /\ t.pub = record
    BY <2>1, <2>2 DEF Errand, Steps
  <2>4. Sound(t)
    BY <1>1, <2>3 DEF Sound, Resolved
  <2>5. ErrandAt(p, t)
    BY <1>1, <2>1 DEF Catalog!Policed, ErrandAt
  <2> QED
    BY <2>3, <2>4, <2>5, BareStep
<1>2. CASE Catalog!Ended(p, s, "ESIGN")
  BY <1>2, RefusedStep, EndNames
<1> QED
  BY <1>1, <1>2 DEF Catalog!Policed

\* A request goes on to another file.
LEMMA ThenAt ==
    ASSUME NEW s \in Errand, NEW f \in Catalog!Files
    PROVE  \E t \in Errand : /\ t = Catalog!Then(s, f) /\ t.pc = "look" /\ t.file = f /\ t.kind = s.kind
                             /\ t.ask = s.ask /\ t.want = s.want /\ t.entry = s.entry
<1>1. PICK t : t = Catalog!Then(s, f)
  OBVIOUS
<1>2. 1 \in Catalog!Bases
  BY CatalogConstants DEF Catalog!Bases
<1>3. t = [s EXCEPT !.pc = "look", !.file = f, !.base = 1, !.body = None, !.early = FALSE]
  BY <1>1 DEF Catalog!Then
<1>4. /\ t \in Errand /\ t.pc = "look" /\ t.file = f /\ t.kind = s.kind
      /\ t.ask = s.ask /\ t.want = s.want /\ t.entry = s.entry
  BY <1>2, <1>3 DEF Errand, Steps
<1> QED
  BY <1>1, <1>4

LEMMA ParsedStep ==
    ASSUME CatalogInv, NEW p \in Buyers, Bare(p), proc[p].pc \in {"look", "store"},
           NEW body, body # None, OfFile(proc[p].file, body), Catalog!Parsed(p, proc[p], body),
           UNCHANGED Catalog!Outside, CatalogCache', UNCHANGED <<temp, staged>>
    PROVE  CatalogInv'
<1>1. PICK s \in Errand : s = proc[p] /\ Sound(s) /\ s.file \in Catalog!Files
  BY DEF CatalogInv, CatalogErrands, Errand
<1>2. Catalog!Remote /\ s.pc \in {"look", "store"}
  BY <1>1 DEF Sound
<1>3. ASSUME NEW end \in Catalog!Ends, Catalog!Ended(p, s, end) PROVE CatalogInv'
  BY <1>3, RefusedStep
<1>4. CASE s.file = Catalog!Index
  <2>1. body \in IndexBody /\ Catalog!ListParsed(p, s, body)
    BY <1>1, <1>4, FileKinds DEF OfFile, Catalog!Parsed
  <2>2. CASE \/ Catalog!Ended(p, s, "badrow") \/ Catalog!Ended(p, s, "done") \/ Catalog!Ended(p, s, "ENOENT")
    BY <1>3, <2>2, EndNames
  <2>3. CASE /\ s.kind = "install" /\ body.latest # 0
             /\ proc' = [proc EXCEPT ![p] = Catalog!Then([s EXCEPT !.want = body.latest], Catalog!Version(body.latest))]
    <3>1. PICK v \in Versions : v = body.latest
      BY <2>1, <2>3 DEF IndexBody
    <3>2. PICK r : r = [s EXCEPT !.want = v]
      OBVIOUS
    <3>3. r \in Errand /\ r.want = v /\ r.kind = "install" /\ r.ask = s.ask
      BY <2>3, <3>2 DEF Errand
    <3>4. Catalog!Version(v) \in Catalog!Files
      BY FileKinds
    <3>5. PICK t \in Errand : /\ t = Catalog!Then(r, Catalog!Version(v)) /\ t.pc = "look"
                              /\ t.file = Catalog!Version(v) /\ t.kind = "install"
                              /\ t.ask = s.ask /\ t.want = v
      BY <3>3, <3>4, ThenAt
    <3>6. ErrandAt(p, t)
      BY <2>3, <3>1, <3>2, <3>5 DEF ErrandAt
    <3>7. s.ask = 0
      BY <1>1, <1>2, <1>4, <2>3 DEF Sound
    <3>8. Sound(t)
      BY <1>2, <3>5, <3>7, FileKinds DEF Sound
    <3> QED
      BY <3>6, <3>8, BareStep
  <2> QED
    BY <2>1, <2>2, <2>3 DEF Catalog!ListParsed
<1>5. CASE s.file[1] = "version"
  <2>1. PICK v \in Versions : s.file = Catalog!Version(v)
    BY <1>1, <1>5, FileKinds
  <2>2. body \in VersionBody /\ Catalog!VersionParsed(p, s, body)
    BY <1>1, <1>5, <2>1, FileKinds DEF OfFile, Catalog!Parsed
  <2>3. s.kind = "install" /\ s.ask \in {0, s.want}
    BY <1>1, <1>2, <2>1, FileKinds DEF Sound
  <2>4. CASE Catalog!Ended(p, s, "mismatch")
    BY <1>3, <2>4, EndNames
  <2>5. CASE /\ body.says = s.want
             /\ proc' = [proc EXCEPT ![p] = Catalog!Then([s EXCEPT !.entry = body], Catalog!Publisher)]
    <3>1. PICK r : r = [s EXCEPT !.entry = body]
      OBVIOUS
    <3>2. body \in Catalog!Bodies
      BY <2>2, BodyKinds
    <3>3. r \in Errand /\ r.entry = body /\ r.want = s.want /\ r.kind = s.kind /\ r.ask = s.ask
      BY <3>1, <3>2 DEF Errand
    <3>7. Catalog!Publisher \in Catalog!Files
      BY FileKinds
    <3>4. PICK t \in Errand : /\ t = Catalog!Then(r, Catalog!Publisher) /\ t.pc = "look"
                              /\ t.file = Catalog!Publisher /\ t.kind = s.kind /\ t.ask = s.ask
                              /\ t.want = s.want /\ t.entry = body
      BY <3>3, <3>7, ThenAt
    <3>5. ErrandAt(p, t)
      BY <2>5, <3>1, <3>4 DEF ErrandAt
    <3>6. Sound(t)
      BY <1>2, <2>2, <2>3, <2>5, <3>4, FileKinds DEF Sound
    <3> QED
      BY <3>5, <3>6, BareStep
  <2> QED
    BY <2>2, <2>4, <2>5 DEF Catalog!VersionParsed, Catalog!Matches
<1>6. CASE s.file = Catalog!Publisher
  <2>1. body \in PublisherBody /\ Catalog!Policed(p, s, body)
    BY <1>1, <1>6, FileKinds DEF OfFile, Catalog!Parsed
  <2>2. s.entry \in VersionBody /\ s.entry.says = s.want /\ s.ask \in {0, s.want}
    BY <1>1, <1>2, <1>6, FileKinds DEF Sound
  <2> QED
    BY <2>1, <2>2, PolicedStep
<1>7. CASE s.file = Catalog!Revocations
  <2>1. Catalog!Ended(p, s, "done")
    BY <1>1, <1>7, FileKinds DEF Catalog!Parsed
  <2> QED
    BY <1>3, <2>1, EndNames
<1> QED
  BY <1>1, <1>4, <1>5, <1>6, <1>7, FileKinds

\* ------------------------------------------------------------- reading a file
LEMMA LookupStep ==
    ASSUME CatalogInv, NEW p \in Buyers, Catalog!CacheLookup(p)
    PROVE  CatalogInv'
<1>1. PICK s \in Errand : s = proc[p] /\ Sound(s) /\ s.file \in Catalog!Files
  BY DEF CatalogInv, CatalogErrands, Errand
<1>2. s.pc = "look" /\ UNCHANGED Catalog!Outside /\ UNCHANGED <<cache, temp, staged>>
  BY <1>1 DEF Catalog!CacheLookup
<1>3. Bare(p) /\ CatalogCache'
  BY <1>1, <1>2, BareErrand, CacheSame
<1>4. PICK kept : kept = cache[s.file].body
  OBVIOUS
<1>5. CASE kept = None
  <2>1. PICK t : t = [s EXCEPT !.pc = "get"]
    OBVIOUS
  <2>2. /\ t \in Errand /\ t.pc = "get" /\ t.file = s.file /\ t.kind = s.kind /\ t.ask = s.ask
        /\ t.want = s.want /\ t.entry = s.entry
    BY <2>1 DEF Errand, Steps
  <2>3. Sound(t)
    BY <1>1, <1>2, <2>2 DEF Sound
  <2>4. ErrandAt(p, t)
    BY <1>1, <1>4, <1>5, <2>1 DEF Catalog!CacheLookup, ErrandAt
  <2> QED
    BY <1>2, <1>3, <2>2, <2>3, <2>4, BareStep
<1>6. CASE kept # None
  <2>1. Catalog!Parsed(p, proc[p], kept)
    BY <1>1, <1>4, <1>6 DEF Catalog!CacheLookup
  <2>2. OfFile(s.file, kept)
    BY <1>1, <1>4 DEF CatalogInv, CatalogCache
  <2> QED
    BY <1>1, <1>2, <1>3, <1>6, <2>1, <2>2, ParsedStep
<1> QED
  BY <1>5, <1>6

LEMMA NotFoundStep ==
    ASSUME CatalogInv, NEW p \in Buyers, Bare(p), proc[p].pc = "get", Catalog!NotFound(p),
           UNCHANGED Catalog!Outside, CatalogCache', UNCHANGED <<temp, staged>>
    PROVE  CatalogInv'
<1>1. PICK s \in Errand : s = proc[p] /\ Sound(s) /\ s.file \in Catalog!Files
  BY DEF CatalogInv, CatalogErrands, Errand
<1>2. CASE \E end \in {"EMARKET", "ENOENT", "done"} : Catalog!Ended(p, s, end)
  BY <1>2, RefusedStep, EndNames
<1>3. CASE s.file[1] = "publisher" /\ Catalog!Policed(p, s, None)
  <2>1. s.file = Catalog!Publisher
    BY <1>1, <1>3, FileKinds
  <2>2. s.entry \in VersionBody /\ s.entry.says = s.want /\ s.ask \in {0, s.want}
    BY <1>1, <2>1, FileKinds DEF Sound
  <2> QED
    BY <1>3, <2>2, PolicedStep
<1> QED
  BY <1>1, <1>2, <1>3 DEF Catalog!NotFound, Catalog!Fail

LEMMA FetchStep ==
    ASSUME CatalogInv, NEW p \in Buyers, Catalog!FetchOne(p)
    PROVE  CatalogInv'
<1>1. PICK s \in Errand : s = proc[p] /\ Sound(s) /\ s.file \in Catalog!Files /\ s.base \in Catalog!Bases
  BY DEF CatalogInv, CatalogErrands, Errand
<1>2. s.pc = "get" /\ UNCHANGED Catalog!Outside /\ UNCHANGED <<cache, temp, staged>>
  BY <1>1 DEF Catalog!FetchOne
<1>3. Bare(p) /\ CatalogCache'
  BY <1>1, <1>2, BareErrand, CacheSame
<1>4. PICK body : body = registry[s.base][s.file]
  OBVIOUS
<1>5. OfFile(s.file, body) /\ body \in Catalog!Bodies \union {None}
  BY <1>1, <1>4 DEF CatalogInv, CatalogWorld
<1>6. CASE body # None /\ proc' = [proc EXCEPT ![p].pc = "store", ![p].body = body]
  <2>1. PICK t : t = [s EXCEPT !.pc = "store", !.body = body]
    OBVIOUS
  <2>2. /\ t \in Errand /\ t.pc = "store" /\ t.file = s.file /\ t.kind = s.kind /\ t.ask = s.ask
        /\ t.want = s.want /\ t.entry = s.entry /\ t.body = body
    BY <1>5, <2>1 DEF Errand, Steps
  <2>3. Sound(t)
    BY <1>1, <1>2, <1>5, <1>6, <2>2 DEF Sound
  <2>4. ErrandAt(p, t)
    BY <1>1, <1>6, <2>1 DEF ErrandAt, CatalogInv, CatalogErrands
  <2> QED
    BY <1>2, <1>3, <2>2, <2>3, <2>4, BareStep
<1>7. CASE Catalog!NotFound(p)
  BY <1>1, <1>2, <1>3, <1>7, NotFoundStep
<1>8. CASE s.base < MaxBase /\ proc' = [proc EXCEPT ![p].base = @ + 1]
  <2>1. PICK n \in Catalog!Bases : n = s.base + 1
    BY <1>1, <1>8, CatalogConstants DEF Catalog!Bases
  <2>2. PICK t : t = [s EXCEPT !.base = n]
    OBVIOUS
  <2>3. /\ t \in Errand /\ t.pc = "get" /\ t.file = s.file /\ t.kind = s.kind /\ t.ask = s.ask
        /\ t.want = s.want /\ t.entry = s.entry
    BY <1>2, <2>2 DEF Errand
  <2>4. Sound(t)
    BY <1>1, <1>2, <2>3 DEF Sound
  <2>5. ErrandAt(p, t)
    BY <1>1, <1>8, <2>1, <2>2 DEF ErrandAt, CatalogInv, CatalogErrands
  <2> QED
    BY <1>2, <1>3, <2>3, <2>4, <2>5, BareStep
<1>9. CASE \E end \in {"EMARKET", "cancelled", "timeout"} : Catalog!Ended(p, s, end)
  BY <1>2, <1>3, <1>9, RefusedStep, EndNames
<1>10. \/ body # None /\ proc' = [proc EXCEPT ![p].pc = "store", ![p].body = body]
       \/ Catalog!NotFound(p)
       \/ s.base < MaxBase /\ proc' = [proc EXCEPT ![p].base = @ + 1]
       \/ \E end \in {"EMARKET", "cancelled", "timeout"} : Catalog!Ended(p, s, end)
  BY <1>1, <1>4 DEF Catalog!FetchOne, Catalog!Fail
<1> QED
  BY <1>6, <1>7, <1>8, <1>9, <1>10

LEMMA StoreStep ==
    ASSUME CatalogInv, NEW p \in Buyers, Catalog!CacheStore(p)
    PROVE  CatalogInv'
<1>1. PICK s \in Errand : s = proc[p] /\ Sound(s) /\ s.file \in Catalog!Files
  BY DEF CatalogInv, CatalogErrands, Errand
<1>2. /\ s.pc = "store" /\ UNCHANGED Catalog!Outside /\ UNCHANGED <<temp, staged>>
      /\ Catalog!Parsed(p, proc[p], s.body)
  BY <1>1 DEF Catalog!CacheStore
<1>3. PICK e : e = [body |-> s.body, early |-> s.early]
  OBVIOUS
<1>4. s.body # None /\ OfFile(s.file, s.body)
  BY <1>1, <1>2 DEF Sound
<1>5. e \in Kept /\ e.body = s.body
  BY <1>3 DEF Kept, Errand
<1>6. cache' = [cache EXCEPT ![s.file] = e]
  BY <1>1, <1>3 DEF Catalog!CacheStore
<1>7. CatalogCache'
  BY <1>1, <1>4, <1>5, <1>6 DEF CatalogInv, CatalogCache
<1>8. Bare(p)
  BY <1>1, <1>2, BareErrand
<1> QED
  BY <1>1, <1>2, <1>4, <1>7, <1>8, ParsedStep

\* ------------------------------------------------------- how a request starts
LEMMA ErrandBegins ==
    ASSUME CatalogInv, NEW p \in Buyers, NEW r \in scenario.requests, Catalog!Begin(p, r[1], r[2])
    PROVE  CatalogInv'
<1>1. PICK kind \in Catalog!Kinds, ask \in Versions \union {0} : kind = r[1] /\ ask = r[2]
  <2>1. scenario \in MarketScenarios
    BY DEF CatalogInv, CatalogWorld
  <2>2. r \in Catalog!Kinds \X (Versions \union {0})
    BY <2>1, CatalogConstants
  <2> QED
    BY <2>2
<1>2. /\ proc[p].pc = "idle" /\ UNCHANGED Catalog!Outside /\ UNCHANGED <<cache, temp, staged>>
  BY DEF Catalog!Begin
<1>3. Bare(p) /\ CatalogCache'
  BY <1>2, BareErrand, CacheSame
<1>4. PICK b \in BOOLEAN : b <=> (ask # 0 /\ registry[1][Catalog!Version(ask)] # None)
  OBVIOUS
<1>5. PICK z, s : z = Catalog!Rest /\ s = [z EXCEPT !.kind = kind, !.ask = ask, !.want = ask]
  OBVIOUS
<1>6. z \in Errand
  <2>1. 0 \in Catalog!Bytes /\ 1 \in Catalog!Bases
    BY CatalogConstants DEF Catalog!Bytes, Catalog!Bases
  <2> QED
    BY <1>5, <2>1, FileKinds DEF Catalog!Rest, Errand, Steps, Catalog!Kinds, Catalog!Ends
<1>7. s \in Errand /\ s.kind = kind /\ s.ask = ask /\ s.want = ask
  BY <1>5, <1>6 DEF Errand
<1>8. CASE \E end \in {"EFORBIDDEN", "ESTAGEFAIL"} : Catalog!Ended(p, s, end)
  BY <1>2, <1>3, <1>7, <1>8, RefusedStep, EndNames
<1>9. CASE \E to \in {"copy", "look", "local"}, f \in Catalog!Files :
             /\ proc' = [proc EXCEPT ![p] = [s EXCEPT !.pc = to, !.file = f, !.had = b]]
             /\ to = "copy" => kind = "path"
             /\ to = "local" => ~Catalog!Remote
             /\ to = "look" => /\ Catalog!Remote /\ f # Catalog!Publisher
                               /\ f \notin {Catalog!Index, Catalog!Revocations} => kind = "install"
                               /\ f = Catalog!Index /\ kind = "install" => ask = 0
  <2>1. PICK to \in {"copy", "look", "local"}, f \in Catalog!Files :
             /\ proc' = [proc EXCEPT ![p] = [s EXCEPT !.pc = to, !.file = f, !.had = b]]
             /\ to = "copy" => kind = "path"
             /\ to = "local" => ~Catalog!Remote
             /\ to = "look" => /\ Catalog!Remote /\ f # Catalog!Publisher
                               /\ f \notin {Catalog!Index, Catalog!Revocations} => kind = "install"
                               /\ f = Catalog!Index /\ kind = "install" => ask = 0
    BY <1>9
  <2>2. PICK t : t = [s EXCEPT !.pc = to, !.file = f, !.had = b]
    OBVIOUS
  <2>3. t \in Errand /\ t.pc = to /\ t.file = f /\ t.kind = kind /\ t.ask = ask /\ t.want = ask
    BY <1>7, <2>2 DEF Errand, Steps
  <2>4. Sound(t)
    BY <2>1, <2>3 DEF Sound
  <2>5. ErrandAt(p, t)
    BY <2>1, <2>2 DEF ErrandAt
  <2> QED
    BY <1>2, <1>3, <2>3, <2>4, <2>5, BareStep
<1>10. \/ \E end \in {"EFORBIDDEN", "ESTAGEFAIL"} : Catalog!Ended(p, s, end)
       \/ \E to \in {"copy", "look", "local"}, f \in Catalog!Files :
             /\ proc' = [proc EXCEPT ![p] = [s EXCEPT !.pc = to, !.file = f, !.had = b]]
             /\ to = "copy" => kind = "path"
             /\ to = "local" => ~Catalog!Remote
             /\ to = "look" => /\ Catalog!Remote /\ f # Catalog!Publisher
                               /\ f \notin {Catalog!Index, Catalog!Revocations} => kind = "install"
                               /\ f = Catalog!Index /\ kind = "install" => ask = 0
  <2> DEFINE At(to, f) == proc' = [proc EXCEPT ![p] = [s EXCEPT !.pc = to, !.file = f, !.had = b]]
  <2>1. [s EXCEPT !.had = b].had = b
    BY <1>7 DEF Errand
  <2>2. (ask # 0 /\ registry[1][Catalog!Version(ask)] # None) = b
    BY <1>4
  <2>3. \/ kind = "path" /\ At("copy", Catalog!Index)
        \/ Catalog!Ended(p, s, "EFORBIDDEN")
        \/ Catalog!Ended(p, s, "ESTAGEFAIL")
        \/ kind = "install" /\ Catalog!Remote /\ At("look", IF ask = 0 THEN Catalog!Index ELSE Catalog!Version(ask))
        \/ kind = "install" /\ ~Catalog!Remote /\ At("local", Catalog!Index)
        \/ kind = "list" /\ Catalog!Remote /\ At("look", Catalog!Index)
        \/ kind = "poll" /\ Catalog!Remote /\ At("look", Catalog!Revocations)
    BY <1>1, <1>5, <2>2 DEF Catalog!Begin
  <2>4. ask # 0 => Catalog!Version(ask) \in Catalog!Files
    BY FileKinds
  <2> HIDE DEF At
  <2>5. ASSUME kind = "install", Catalog!Remote, NEW f, At("look", f),
               f = IF ask = 0 THEN Catalog!Index ELSE Catalog!Version(ask)
        PROVE  /\ f \in Catalog!Files /\ f \notin {Catalog!Publisher, Catalog!Revocations}
               /\ f = Catalog!Index => ask = 0
    BY <2>4, <2>5, FileKinds
  <2>6. PICK to, f : /\ At(to, f) \/ \E end \in {"EFORBIDDEN", "ESTAGEFAIL"} : Catalog!Ended(p, s, end)
                     /\ to \in {"copy", "look", "local"} /\ f \in Catalog!Files
                     /\ to = "copy" => kind = "path"
                     /\ to = "local" => ~Catalog!Remote
                     /\ to = "look" => /\ Catalog!Remote /\ f # Catalog!Publisher
                                       /\ f \notin {Catalog!Index, Catalog!Revocations} => kind = "install"
                                       /\ f = Catalog!Index /\ kind = "install" => ask = 0
    BY <1>8, <2>3, <2>5, FileKinds
  <2> QED
    BY <2>6 DEF At
<1> QED
  BY <1>8, <1>9, <1>10

LEMMA ResolveStep ==
    ASSUME CatalogInv, NEW p \in Buyers, Catalog!ResolveLocal(p) \/ Catalog!ResolveNothing(p)
    PROVE  CatalogInv'
<1>1. PICK s \in Errand : s = proc[p] /\ Sound(s)
  BY DEF CatalogInv, CatalogErrands
<1>2. s.pc = "local" /\ UNCHANGED Catalog!Outside /\ UNCHANGED <<cache, temp, staged>>
  BY <1>1 DEF Catalog!ResolveLocal, Catalog!ResolveNothing
<1>3. Bare(p) /\ CatalogCache' /\ ~Catalog!Remote
  BY <1>1, <1>2, BareErrand, CacheSame DEF Sound
<1>4. CASE Catalog!ResolveNothing(p)
  BY <1>1, <1>2, <1>3, <1>4, RefusedStep, EndNames DEF Catalog!ResolveNothing, Catalog!Fail
<1>5. CASE Catalog!ResolveLocal(p)
  <2>1. PICK v, entry, record : /\ v = Catalog!LookupKey(s.ask) /\ entry = registry[1][Catalog!Version(v)]
                                /\ record = registry[1][Catalog!Publisher]
    OBVIOUS
  <2>2. v \in Versions
    <3>1. Catalog!Listed \in SUBSET Versions /\ Catalog!Listed # {}
      BY <1>5 DEF Catalog!ResolveLocal, Catalog!Listed
    <3>2. \E w \in Catalog!Listed : \A x \in Catalog!Listed : Lexical[x] <= Lexical[w]
      BY <3>1, SortsLast
    <3>3. Catalog!LookupKey(s.ask) \in Catalog!Listed
      BY <3>2 DEF Catalog!LookupKey
    <3> QED
      BY <2>1, <3>1, <3>3
  <2>3. entry \in Catalog!Bodies \union {None} /\ record \in Catalog!Bodies \union {None}
    <3>1. 1 \in Catalog!Bases
      BY CatalogConstants DEF Catalog!Bases
    <3> QED
      BY <2>1, <2>2, <3>1, FileKinds DEF CatalogInv, CatalogWorld
  <2>4. PICK r : r = [s EXCEPT !.want = v, !.entry = entry]
    OBVIOUS
  <2>5. r \in Errand /\ r.kind = s.kind
    BY <2>2, <2>3, <2>4 DEF Errand
  <2>6. \/ \E end \in {"ESIGN", "EMARKET"} : Catalog!Ended(p, r, end)
        \/ proc' = [proc EXCEPT ![p] = [r EXCEPT !.pub = record, !.pc = "copy"]]
    BY <1>1, <1>5, <2>1, <2>4 DEF Catalog!ResolveLocal
  <2>7. CASE \E end \in {"ESIGN", "EMARKET"} : Catalog!Ended(p, r, end)
    BY <1>2, <1>3, <2>5, <2>7, RefusedStep, EndNames
  <2>8. CASE proc' = [proc EXCEPT ![p] = [r EXCEPT !.pub = record, !.pc = "copy"]]
    <3>1. PICK t : t = [r EXCEPT !.pub = record, !.pc = "copy"]
      OBVIOUS
    <3>2. t \in Errand /\ t.pc = "copy"
      BY <2>3, <2>5, <3>1 DEF Errand, Steps
    <3>3. Sound(t)
      BY <1>3, <3>2 DEF Sound
    <3>4. ErrandAt(p, t)
      BY <2>8, <3>1 DEF ErrandAt
    <3> QED
      BY <1>2, <1>3, <3>2, <3>3, <3>4, BareStep
  <2> QED
    BY <2>6, <2>7, <2>8
<1> QED
  BY <1>4, <1>5

\* ------------------------------------------------------------------ the bundle
LEMMA Places ==
    ASSUME CatalogInv, NEW p \in Buyers
    PROVE  /\ Catalog!Zip(p) # Catalog!Dir(p)
           /\ Catalog!Zip(p) \in temp => Zipped(proc[p])
           /\ Catalog!Dir(p) \in temp => Unpacked(proc[p])
  BY DEF CatalogInv, CatalogTemp, Catalog!Zip, Catalog!Dir

\* A step of the bundle stages nothing.
LEMMA BundleStep ==
    ASSUME CatalogInv, NEW p \in Buyers, staged[p] = "none", NEW t \in Errand, ErrandAt(p, t), Sound(t),
           UNCHANGED Catalog!Outside, UNCHANGED <<cache, staged>>,
           temp' \subseteq temp \union {Catalog!Zip(p), Catalog!Dir(p)},
           Catalog!Zip(p) \in temp' => Zipped(t), Catalog!Dir(p) \in temp' => Unpacked(t)
    PROVE  CatalogInv'
<1>1. staged' \in [Buyers -> Marks] /\ staged'[p] = "none"
  BY DEF CatalogInv, CatalogErrands
<1> QED
  BY <1>1, CacheSame, ErrandStep

LEMMA DownloadStep ==
    ASSUME CatalogInv, NEW p \in Buyers, Catalog!Open(p) \/ Catalog!Stream(p)
    PROVE  CatalogInv'
<1>1. PICK s \in Errand : s = proc[p] /\ Sound(s)
  BY DEF CatalogInv, CatalogErrands
<1>2. s.pc \in {"open", "stream"} /\ UNCHANGED Catalog!Outside /\ UNCHANGED <<cache, staged>>
  BY <1>1 DEF Catalog!Open, Catalog!Stream
<1>3. staged[p] = "none" /\ Resolved(s)
  BY <1>1, <1>2 DEF CatalogInv, CatalogErrands, Sound
<1>4. Catalog!Dir(p) \notin temp
  BY <1>1, <1>2, Places DEF Unpacked
<1>5. CASE temp' \subseteq temp \ {Catalog!Zip(p)} /\ Catalog!Ended(p, s, "ESTAGEFAIL")
  <2>1. PICK t \in Errand : ErrandAt(p, t) /\ Sound(t)
    BY <1>5, EndedAt, EndNames
  <2> QED
    BY <1>2, <1>3, <1>4, <1>5, <2>1, BundleStep
<1>6. CASE temp' = temp \union {Catalog!Zip(p)} /\ proc' = [proc EXCEPT ![p].pc = "stream"]
  <2>1. PICK t : t = [s EXCEPT !.pc = "stream"]
    OBVIOUS
  <2>2. /\ t \in Errand /\ t.pc = "stream" /\ t.want = s.want /\ t.ask = s.ask
        /\ t.entry = s.entry /\ t.pub = s.pub
    BY <2>1 DEF Errand, Steps
  <2>3. Sound(t) /\ Zipped(t)
    BY <1>3, <2>2 DEF Sound, Resolved, Zipped
  <2>4. ErrandAt(p, t)
    BY <1>1, <1>6, <2>1 DEF ErrandAt, CatalogInv, CatalogErrands
  <2> QED
    BY <1>2, <1>3, <1>4, <1>6, <2>2, <2>3, <2>4, Places, BundleStep
<1>7. CASE temp' = temp /\ proc' = [proc EXCEPT ![p].pc = "hash", ![p].bytes = artifact[s.want]]
  <2>1. PICK n \in Catalog!Bytes : n = artifact[s.want]
    BY <1>3 DEF Resolved, VersionBody, CatalogInv, CatalogWorld
  <2>2. PICK t : t = [s EXCEPT !.pc = "hash", !.bytes = n]
    OBVIOUS
  <2>3. /\ t \in Errand /\ t.pc = "hash" /\ t.want = s.want /\ t.ask = s.ask
        /\ t.entry = s.entry /\ t.pub = s.pub
    BY <2>2 DEF Errand, Steps
  <2>4. Sound(t) /\ Zipped(t)
    BY <1>3, <2>3 DEF Sound, Resolved, Zipped
  <2>5. ErrandAt(p, t)
    BY <1>1, <1>7, <2>1, <2>2 DEF ErrandAt, CatalogInv, CatalogErrands
  <2> QED
    BY <1>2, <1>3, <1>4, <1>7, <2>3, <2>4, <2>5, BundleStep
<1>8. \/ temp' \subseteq temp \ {Catalog!Zip(p)} /\ Catalog!Ended(p, s, "ESTAGEFAIL")
      \/ temp' = temp \union {Catalog!Zip(p)} /\ proc' = [proc EXCEPT ![p].pc = "stream"]
      \/ temp' = temp /\ proc' = [proc EXCEPT ![p].pc = "hash", ![p].bytes = artifact[s.want]]
  <2>1. s.pc = "open" => Catalog!Zip(p) \notin temp
    BY <1>1, Places DEF Zipped
  <2> QED
    BY <1>1, <2>1 DEF Catalog!Open, Catalog!Stream, Catalog!Fail
<1> QED
  BY <1>5, <1>6, <1>7, <1>8

LEMMA HashStep ==
    ASSUME CatalogInv, NEW p \in Buyers, Catalog!Hash(p)
    PROVE  CatalogInv'
<1>1. PICK s \in Errand : s = proc[p] /\ Sound(s)
  BY DEF CatalogInv, CatalogErrands
<1>2. s.pc = "hash" /\ UNCHANGED Catalog!Outside /\ UNCHANGED <<cache, staged>>
  BY <1>1 DEF Catalog!Hash
<1>3. staged[p] = "none" /\ Resolved(s) /\ Catalog!Dir(p) \notin temp
  BY <1>1, <1>2, Places DEF CatalogInv, CatalogErrands, Sound, Unpacked
<1>4. CASE ~Catalog!Verified(p)
  <2>1. temp' = temp \ {Catalog!Zip(p)} /\ Catalog!Ended(p, s, "ESTAGEFAIL")
    BY <1>1, <1>4 DEF Catalog!Hash, Catalog!RmTmp, Catalog!Fail
  <2>2. PICK t \in Errand : ErrandAt(p, t) /\ Sound(t)
    BY <2>1, EndedAt, EndNames
  <2> QED
    BY <1>2, <1>3, <2>1, <2>2, BundleStep
<1>5. CASE Catalog!Verified(p)
  <2>1. s.bytes = s.entry.sha
    BY <1>1, <1>5 DEF Catalog!Verified
  <2>2. PICK t : t = [s EXCEPT !.pc = "extract"]
    OBVIOUS
  <2>3. /\ t \in Errand /\ t.pc = "extract" /\ t.want = s.want /\ t.ask = s.ask
        /\ t.entry = s.entry /\ t.pub = s.pub /\ t.bytes = s.bytes
    BY <2>2 DEF Errand, Steps
  <2>4. Sound(t) /\ Zipped(t) /\ Unpacked(t)
    BY <1>3, <2>1, <2>3 DEF Sound, Whole, Resolved, Zipped, Unpacked
  <2>5. ErrandAt(p, t) /\ temp' = temp \union {Catalog!Dir(p)}
    BY <1>1, <1>5, <2>2 DEF ErrandAt, Catalog!Hash, CatalogInv, CatalogErrands
  <2> QED
    BY <1>2, <1>3, <2>3, <2>4, <2>5, BundleStep
<1> QED
  BY <1>4, <1>5

\* What is unpacked, or copied from a directory, is ready to be staged.
LEMMA UnpackStep ==
    ASSUME CatalogInv, NEW p \in Buyers, Catalog!Extract(p) \/ Catalog!CopyTree(p)
    PROVE  CatalogInv'
<1>1. PICK s \in Errand : s = proc[p] /\ Sound(s)
  BY DEF CatalogInv, CatalogErrands
<1>2. s.pc \in {"extract", "copy"} /\ UNCHANGED Catalog!Outside /\ UNCHANGED <<cache, staged>>
  BY <1>1 DEF Catalog!Extract, Catalog!CopyTree
<1>3. staged[p] = "none" /\ Whole(s)
  BY <1>1, <1>2 DEF CatalogInv, CatalogErrands, Sound, Whole
<1>4. s.pc = "copy" => Catalog!Zip(p) \notin temp /\ Catalog!Dir(p) \notin temp
  BY <1>1, Places DEF Zipped, Unpacked
<1>5. CASE temp' \subseteq temp \ {Catalog!Zip(p), Catalog!Dir(p)} /\ Catalog!Ended(p, s, "ESTAGEFAIL")
  <2>1. PICK t \in Errand : ErrandAt(p, t) /\ Sound(t)
    BY <1>5, EndedAt, EndNames
  <2> QED
    BY <1>2, <1>3, <1>5, <2>1, BundleStep
<1>6. CASE /\ temp' \subseteq (temp \union {Catalog!Dir(p)}) \ {Catalog!Zip(p)}
           /\ proc' = [proc EXCEPT ![p].pc = "stage"]
  <2>1. PICK t : t = [s EXCEPT !.pc = "stage"]
    OBVIOUS
  <2>2. /\ t \in Errand /\ t.pc = "stage" /\ t.want = s.want /\ t.ask = s.ask /\ t.kind = s.kind
        /\ t.entry = s.entry /\ t.pub = s.pub /\ t.bytes = s.bytes
    BY <2>1 DEF Errand, Steps
  <2>3. Sound(t) /\ Unpacked(t)
    BY <1>3, <2>2 DEF Sound, Whole, Resolved, Unpacked
  <2>4. ErrandAt(p, t)
    BY <1>1, <1>6, <2>1 DEF ErrandAt, CatalogInv, CatalogErrands
  <2> QED
    BY <1>2, <1>3, <1>6, <2>2, <2>3, <2>4, BundleStep
<1>7. \/ temp' \subseteq temp \ {Catalog!Zip(p), Catalog!Dir(p)} /\ Catalog!Ended(p, s, "ESTAGEFAIL")
      \/ /\ temp' \subseteq (temp \union {Catalog!Dir(p)}) \ {Catalog!Zip(p)}
         /\ proc' = [proc EXCEPT ![p].pc = "stage"]
  BY <1>1, <1>4, Places DEF Catalog!Extract, Catalog!CopyTree, Catalog!Fail
<1> QED
  BY <1>5, <1>6, <1>7

LEMMA StageStep ==
    ASSUME CatalogInv, NEW p \in Buyers, Catalog!Stage(p)
    PROVE  CatalogInv'
<1>1. PICK s \in Errand : s = proc[p] /\ Sound(s)
  BY DEF CatalogInv, CatalogErrands
<1>2. s.pc = "stage" /\ UNCHANGED Catalog!Outside /\ UNCHANGED cache /\ temp' = temp \ {Catalog!Dir(p)}
  BY <1>1 DEF Catalog!Stage
<1>3. staged[p] = "none" /\ Whole(s) /\ Catalog!Zip(p) \notin temp
  BY <1>1, <1>2, Places DEF CatalogInv, CatalogErrands, Sound, Zipped
<1>4. CASE UNCHANGED staged /\ \E end \in {"EBADMANIFEST", "ESTAGEFAIL"} : Catalog!Ended(p, s, end)
  <2>1. PICK t \in Errand : ErrandAt(p, t) /\ Sound(t)
    BY <1>4, EndedAt, EndNames
  <2> QED
    BY <1>2, <1>3, <1>4, <2>1, BundleStep
<1>5. CASE proc' = [proc EXCEPT ![p].pc = "prompt"] /\ staged' = [staged EXCEPT ![p] = "pending"]
  <2>1. PICK t : t = [s EXCEPT !.pc = "prompt"]
    OBVIOUS
  <2>2. /\ t \in Errand /\ t.pc = "prompt" /\ t.want = s.want /\ t.ask = s.ask /\ t.kind = s.kind
        /\ t.entry = s.entry /\ t.pub = s.pub /\ t.bytes = s.bytes
    BY <2>1 DEF Errand, Steps
  <2>3. Whole(t)
    BY <1>3, <2>2 DEF Whole, Resolved
  <2>4. Sound(t)
    BY <2>2, <2>3 DEF Sound
  <2>5. ErrandAt(p, t)
    BY <1>1, <1>5, <2>1 DEF ErrandAt, CatalogInv, CatalogErrands
  <2>6. staged' \in [Buyers -> Marks] /\ \A o \in Buyers \ {p} : staged'[o] = staged[o]
    BY <1>5 DEF CatalogInv, CatalogErrands, Marks
  <2>7. CatalogCache'
    BY <1>2, CacheSame
  <2> QED
    BY <1>2, <1>3, <2>2, <2>3, <2>4, <2>5, <2>6, <2>7, ErrandStep
<1>6. \/ UNCHANGED staged /\ \E end \in {"EBADMANIFEST", "ESTAGEFAIL"} : Catalog!Ended(p, s, end)
      \/ proc' = [proc EXCEPT ![p].pc = "prompt"] /\ staged' = [staged EXCEPT ![p] = "pending"]
  BY <1>1 DEF Catalog!Stage, Catalog!Fail
<1> QED
  BY <1>4, <1>5, <1>6

\* The answer to the prompt.
LEMMA AnswerStep ==
    ASSUME CatalogInv, NEW p \in Buyers, Catalog!Confirm(p) \/ Catalog!Abort(p)
    PROVE  CatalogInv'
<1>1. PICK s \in Errand : s = proc[p] /\ Sound(s)
  BY DEF CatalogInv, CatalogErrands
<1>2. s.pc = "prompt" /\ UNCHANGED Catalog!Outside /\ UNCHANGED <<cache, temp>>
  BY <1>1 DEF Catalog!Confirm, Catalog!Abort
<1>3. Whole(s) /\ Catalog!Zip(p) \notin temp /\ Catalog!Dir(p) \notin temp
  BY <1>1, <1>2, Places DEF CatalogInv, CatalogErrands, Sound, Zipped, Unpacked
<1>4. PICK end \in Catalog!Ends : Catalog!Ended(p, s, end)
  BY <1>1, EndNames DEF Catalog!Confirm, Catalog!Abort, Catalog!Fail
<1>5. staged' = staged \/ \E mark \in Marks : staged' = [staged EXCEPT ![p] = mark]
  BY DEF Catalog!Confirm, Catalog!Abort, Marks
<1>6. staged' \in [Buyers -> Marks] /\ \A o \in Buyers \ {p} : staged'[o] = staged[o]
  BY <1>5 DEF CatalogInv, CatalogErrands
<1>7. PICK t \in Errand : /\ ErrandAt(p, t) /\ Sound(t) /\ t.pc = "ended" /\ t.kind = s.kind /\ t.ask = s.ask
                          /\ t.want = s.want /\ t.entry = s.entry /\ t.pub = s.pub /\ t.bytes = s.bytes
  BY <1>4, EndedAt
<1>8. Whole(t)
  BY <1>3, <1>7 DEF Whole, Resolved
<1>9. CatalogCache'
  BY <1>2, CacheSame
<1> QED
  BY <1>2, <1>3, <1>6, <1>7, <1>8, <1>9, ErrandStep

\* What is staged lapses and is reaped.
LEMMA LapseStep ==
    ASSUME CatalogInv, (\E p \in Buyers : Catalog!Lapse(p)) \/ Catalog!Reap
    PROVE  CatalogInv'
<1>1. UNCHANGED Catalog!Outside /\ UNCHANGED <<cache, proc, temp>>
  BY DEF Catalog!Lapse, Catalog!Reap
<1>2. /\ staged' \in [Buyers -> Marks]
      /\ \A p \in Buyers : staged'[p] # "none" => staged[p] # "none"
  <2>1. CASE \E p \in Buyers : Catalog!Lapse(p)
    BY <2>1 DEF Catalog!Lapse, CatalogInv, CatalogErrands, Marks
  <2>2. CASE Catalog!Reap
    BY <2>2 DEF Catalog!Reap, CatalogInv, CatalogErrands, Marks
  <2> QED
    BY <2>1, <2>2
<1>3. CatalogWorld' /\ Catalog!Remote' = Catalog!Remote
  BY <1>1, CatalogOutside DEF Catalog!Remote
<1>4. CatalogErrands'
  BY <1>1, <1>2, <1>3 DEF CatalogInv, CatalogErrands, Sound, Whole
<1> QED
  BY <1>1, <1>3, <1>4, CacheSame DEF CatalogInv, CatalogTemp

\* ------------------------------------------------------ the cache and the registry
LEMMA ExpireStep ==
    ASSUME CatalogInv, NEW f \in Catalog!Files, Catalog!Expire(f)
    PROVE  CatalogInv'
<1>1. UNCHANGED Catalog!Outside /\ UNCHANGED <<proc, temp, staged>> /\ cache' = [cache EXCEPT ![f] = Catalog!NoEntry]
  BY DEF Catalog!Expire
<1>2. Catalog!NoEntry \in Kept /\ Catalog!NoEntry.body = None
  BY DEF Catalog!NoEntry, Kept
<1>3. CatalogCache'
  BY <1>1, <1>2 DEF CatalogInv, CatalogCache, OfFile
<1>4. CatalogWorld' /\ Catalog!Remote' = Catalog!Remote
  BY <1>1, CatalogOutside DEF Catalog!Remote
<1> QED
  BY <1>1, <1>3, <1>4 DEF CatalogInv, CatalogErrands, CatalogTemp, Sound, Whole

LEMMA InvalidateStep ==
    ASSUME CatalogInv, Catalog!InvalidateCache
    PROVE  CatalogInv'
<1>1. /\ UNCHANGED Catalog!Outside /\ UNCHANGED <<temp, staged>>
      /\ cache' = [f \in Catalog!Files |-> Catalog!NoEntry]
      /\ proc' = [p \in Buyers |-> IF proc[p].pc = "store" THEN [proc[p] EXCEPT !.early = TRUE] ELSE proc[p]]
  BY DEF Catalog!InvalidateCache
<1>2. Catalog!NoEntry \in Kept /\ Catalog!NoEntry.body = None
  BY DEF Catalog!NoEntry, Kept
<1>3. CatalogCache'
  BY <1>1, <1>2 DEF CatalogCache, OfFile
<1>4. CatalogWorld' /\ Catalog!Remote' = Catalog!Remote
  BY <1>1, CatalogOutside DEF Catalog!Remote
<1>5. ASSUME NEW p \in Buyers
      PROVE  /\ proc'[p] \in Errand /\ Sound(proc'[p]) /\ proc'[p].pc = proc[p].pc
             /\ staged[p] # "none" => proc'[p].pc \in {"prompt", "ended"} /\ Whole(proc'[p])
  <2>1. PICK s \in Errand : s = proc[p] /\ Sound(s)
    BY DEF CatalogInv, CatalogErrands
  <2>2. PICK t : t = [s EXCEPT !.early = TRUE]
    OBVIOUS
  <2>3. /\ t \in Errand /\ t.pc = s.pc /\ t.file = s.file /\ t.kind = s.kind /\ t.ask = s.ask
        /\ t.want = s.want /\ t.entry = s.entry /\ t.body = s.body
    BY <2>2 DEF Errand
  <2>4. s.pc = "store" => Sound(t)
    BY <2>1, <2>3 DEF Sound
  <2>5. proc'[p] = IF s.pc = "store" THEN t ELSE s
    BY <1>1, <2>1, <2>2
  <2> QED
    BY <2>1, <2>3, <2>4, <2>5 DEF CatalogInv, CatalogErrands
<1>6. CatalogErrands'
  <2>1. proc' \in [Buyers -> Errand] /\ staged' \in [Buyers -> Marks]
    BY <1>1, <1>5 DEF CatalogInv, CatalogErrands
  <2>2. \A p \in Buyers : Sound(proc[p])' /\ (staged'[p] # "none" => proc'[p].pc \in {"prompt", "ended"} /\ Whole(proc[p])')
    BY <1>1, <1>4, <1>5 DEF Sound, Whole
  <2> QED
    BY <2>1, <2>2 DEF CatalogErrands
<1>7. CatalogTemp'
  BY <1>1, <1>5 DEF CatalogInv, CatalogTemp, Zipped, Unpacked
<1> QED
  BY <1>3, <1>4, <1>6, <1>7 DEF CatalogInv

\* What a base serves.
Contents(m) ==
    /\ m \in [Catalog!Files -> Catalog!Bodies \union {None}]
    /\ \A f \in Catalog!Files : OfFile(f, m[f])
    /\ m[Catalog!Index] \in IndexBody
LEMMA FileReplaced ==
    ASSUME NEW m, Contents(m), NEW f \in Catalog!Files, NEW body, OfFile(f, body),
           f = Catalog!Index => body \in IndexBody, NEW n, n = [m EXCEPT ![f] = body]
    PROVE  Contents(n) /\ \A g \in Catalog!Files \ {f} : n[g] = m[g]
<1>1. body \in Catalog!Bodies \union {None}
  BY OfFileBody
<1>2. n \in [Catalog!Files -> Catalog!Bodies \union {None}] /\ n[f] = body /\ \A g \in Catalog!Files \ {f} : n[g] = m[g]
  BY <1>1 DEF Contents
<1> QED
  BY <1>2, FileKinds DEF Contents

LEMMA RegistryStep ==
    ASSUME CatalogInv, UNCHANGED Catalog!Registry, NEW b \in Catalog!Bases, NEW n, Contents(n),
           registry' = [registry EXCEPT ![b] = n],
           artifact' \in [Versions -> Catalog!Bytes], uploads' \in Catalog!Bytes
    PROVE  CatalogInv'
<1>1. UNCHANGED <<scenario, shelf, cache, proc, temp, staged>>
  BY DEF Catalog!Registry
<1>2. CatalogWorld'
  BY <1>1 DEF CatalogInv, CatalogWorld, Contents
<1>3. Catalog!Remote' = Catalog!Remote
  BY <1>1 DEF Catalog!Remote
<1> QED
  BY <1>1, <1>2, <1>3 DEF CatalogInv, CatalogCache, CatalogErrands, CatalogTemp, Sound, Whole

LEMMA ServedContents ==
    ASSUME CatalogInv, NEW b \in Catalog!Bases
    PROVE  Contents(registry[b])
  BY DEF CatalogInv, CatalogWorld, Contents
LEMMA Primary == 1 \in Catalog!Bases
  BY CatalogConstants DEF Catalog!Bases

LEMMA ReleaseStep ==
    ASSUME CatalogInv, NEW v \in Versions, NEW body \in VersionBody, Catalog!Release(v, body),
           UNCHANGED Catalog!Registry
    PROVE  CatalogInv'
<1>1. PICK m : m = registry[1] /\ Contents(m)
  BY Primary, ServedContents
<1>2. PICK n : n = [m EXCEPT ![Catalog!Version(v)] = body]
  OBVIOUS
<1>3. Contents(n) /\ n[Catalog!Index] = m[Catalog!Index]
  <2>1. OfFile(Catalog!Version(v), body)
    BY FileKinds DEF OfFile
  <2> QED
    BY <1>1, <1>2, <2>1, FileKinds, FileReplaced
<1>4. PICK i : i = [n[Catalog!Index] EXCEPT !.latest = v]
  OBVIOUS
<1>5. i \in IndexBody
  BY <1>3, <1>4 DEF Contents, IndexBody
<1>6. PICK k : k = [n EXCEPT ![Catalog!Index] = i]
  OBVIOUS
<1>7. Contents(k)
  <2>1. OfFile(Catalog!Index, i)
    BY <1>5, FileKinds DEF OfFile
  <2> QED
    BY <1>3, <1>5, <1>6, <2>1, FileKinds, FileReplaced
<1>8. registry' = [registry EXCEPT ![1] = k]
  <2>1. PICK r : r = [registry EXCEPT ![1] = n]
    OBVIOUS
  <2>2. r = [registry EXCEPT ![1][Catalog!Version(v)] = body]
    BY <1>1, <1>2, <2>1
  <2>3. registry' = [r EXCEPT ![1][Catalog!Index].latest = v]
    BY <2>2 DEF Catalog!Release
  <2>4. r[1] = n
    BY <2>1, Primary DEF CatalogInv, CatalogWorld
  <2>5. registry' = [r EXCEPT ![1] = k]
    BY <1>4, <1>6, <2>3, <2>4
  <2> QED
    BY <2>1, <2>5
<1>9. uploads' \in Catalog!Bytes /\ uploads' = uploads + 1
  BY CatalogConstants DEF Catalog!Release, Catalog!Bytes, CatalogInv, CatalogWorld
<1>10. artifact' \in [Versions -> Catalog!Bytes]
  BY <1>9 DEF Catalog!Release, CatalogInv, CatalogWorld
<1> QED
  BY <1>7, <1>8, <1>9, <1>10, Primary, RegistryStep

LEMMA MarketStep ==
    ASSUME CatalogInv, Catalog!World
    PROVE  CatalogInv'
<1>1. PICK m : m = registry[1] /\ Contents(m)
  BY Primary, ServedContents
<1>2. artifact \in [Versions -> Catalog!Bytes] /\ uploads \in Catalog!Bytes /\ MaxUploads \in Nat
  BY CatalogConstants DEF CatalogInv, CatalogWorld
<1>3. ASSUME NEW v \in Versions, NEW w \in Versions, NEW sig \in {"none", "good", "bad"},
             NEW body, body = [Catalog!Signed(w, uploads + 1) EXCEPT !.sig = sig], Catalog!Release(v, body),
             UNCHANGED Catalog!Registry
      PROVE  CatalogInv'
  <2>1. PICK n \in Catalog!Bytes : n = uploads + 1
    BY <1>2, <1>3 DEF Catalog!Release, Catalog!Bytes
  <2>2. body \in VersionBody
    BY <1>3, <2>1 DEF VersionBody, Catalog!Signed
  <2> QED
    BY <1>3, <2>2, ReleaseStep
<1>4. \A w, n : Catalog!Signed(w, n) = [Catalog!Signed(w, n) EXCEPT !.sig = "good"]
  BY DEF Catalog!Signed
<1>5. ASSUME NEW v \in Versions, Catalog!Publish(v) PROVE CatalogInv'
  BY <1>3, <1>4, <1>5 DEF Catalog!Publish
<1>6. ASSUME NEW v \in Versions, Catalog!Mistake(v) PROVE CatalogInv'
  <2>1. CASE \E body \in {Catalog!Signed(1, uploads + 1), [Catalog!Signed(v, uploads + 1) EXCEPT !.sig = "none"],
                          [Catalog!Signed(v, uploads + 1) EXCEPT !.sig = "bad"]} : Catalog!Release(v, body)
    BY <1>3, <1>4, <1>6, <2>1, CatalogConstants DEF Catalog!Mistake
  <2>2. CASE /\ \/ registry' = [registry EXCEPT ![1][Catalog!Index].whole = FALSE]
                \/ registry' = [registry EXCEPT ![1][Catalog!Index].latest = 0]
             /\ UNCHANGED <<artifact, uploads>>
    <3>1. PICK i, j : i = [m[Catalog!Index] EXCEPT !.whole = FALSE] /\ j = [m[Catalog!Index] EXCEPT !.latest = 0]
      OBVIOUS
    <3>2. i \in IndexBody /\ j \in IndexBody
      BY <1>1, <3>1 DEF Contents, IndexBody
    <3>3. PICK k \in {i, j} : registry' = [registry EXCEPT ![1][Catalog!Index] = k]
      BY <1>1, <2>2, <3>1
    <3>4. PICK n : n = [m EXCEPT ![Catalog!Index] = k]
      OBVIOUS
    <3>5. k \in IndexBody /\ OfFile(Catalog!Index, k)
      BY <3>2, FileKinds DEF OfFile
    <3>6. Contents(n)
      BY <1>1, <3>4, <3>5, FileKinds, FileReplaced
    <3>7. registry' = [registry EXCEPT ![1] = n]
      BY <1>1, <3>3, <3>4
    <3> QED
      BY <1>2, <1>6, <2>2, <3>6, <3>7, Primary, RegistryStep DEF Catalog!Mistake
  <2> QED
    BY <1>6, <2>1, <2>2 DEF Catalog!Mistake
<1>7. ASSUME Catalog!Revoke PROVE CatalogInv'
  <2>1. PICK record \in PublisherBody \union {None} :
          registry' = [registry EXCEPT ![1][Catalog!Publisher] = record, ![1][Catalog!Revocations] = [revoked |-> TRUE]]
    BY <1>7 DEF Catalog!Revoke, PublisherBody
  <2>2. PICK n, k : /\ n = [m EXCEPT ![Catalog!Publisher] = record]
                    /\ k = [n EXCEPT ![Catalog!Revocations] = [revoked |-> TRUE]]
    OBVIOUS
  <2>3. OfFile(Catalog!Publisher, record) /\ OfFile(Catalog!Revocations, [revoked |-> TRUE])
    BY FileKinds DEF OfFile, RevocationBody
  <2>4. Contents(n)
    BY <1>1, <2>2, <2>3, FileKinds, FileReplaced
  <2>5. Contents(k)
    BY <2>2, <2>3, <2>4, FileKinds, FileReplaced
  <2>6. registry' = [registry EXCEPT ![1] = k]
    BY <1>1, <2>1, <2>2
  <2> QED
    BY <1>2, <1>7, <2>5, <2>6, Primary, RegistryStep DEF Catalog!Revoke
<1>8. ASSUME NEW b \in Catalog!Bases, Catalog!Sync(b) PROVE CatalogInv'
  BY <1>1, <1>2, <1>8, RegistryStep DEF Catalog!Sync
<1>9. ASSUME NEW v \in Versions, Catalog!Reupload(v) PROVE CatalogInv'
  <2>1. uploads' \in Catalog!Bytes
    BY <1>2, <1>9 DEF Catalog!Reupload, Catalog!Bytes
  <2>2. artifact' \in [Versions -> Catalog!Bytes]
    BY <1>2, <1>9, <2>1 DEF Catalog!Reupload
  <2>3. registry' = [registry EXCEPT ![1] = m]
    BY <1>1, <1>9 DEF Catalog!Reupload, CatalogInv, CatalogWorld
  <2> QED
    BY <1>1, <1>9, <2>1, <2>2, <2>3, Primary, RegistryStep DEF Catalog!Reupload
<1> QED
  BY <1>5, <1>6, <1>7, <1>8, <1>9 DEF Catalog!World

LEMMA CatalogStep ==
    ASSUME CatalogInv, Catalog!Next \/ UNCHANGED Catalog!vars
    PROVE  CatalogInv'
<1>1. ASSUME NEW p \in Buyers, Catalog!Request(p) PROVE CatalogInv'
  BY <1>1, ErrandBegins, LookupStep, FetchStep, StoreStep, ResolveStep, DownloadStep, HashStep, UnpackStep,
     StageStep, AnswerStep, LapseStep DEF Catalog!Request
<1>2. CASE UNCHANGED Catalog!vars
  BY <1>2 DEF Catalog!vars, CatalogInv, CatalogWorld, CatalogCache, CatalogErrands, CatalogTemp, Sound, Whole,
              Catalog!Remote
<1> QED
  BY <1>1, <1>2, MarketStep, ExpireStep, InvalidateStep, LapseStep DEF Catalog!Next

\* What is staged is what was resolved, and nothing is left behind, for any number of requests,
\* versions and mirrors (plugin/market, plugin/install/source.go:237-296).
LEMMA CatalogShown ==
    ASSUME CatalogInv
    PROVE  Catalog!TypeOK /\ Catalog!StagedAsResolved /\ Catalog!NothingLeft
<1>1. Catalog!TypeOK
  BY DEF CatalogInv, CatalogWorld, CatalogCache, CatalogErrands, CatalogTemp, Catalog!TypeOK, Errand, Kept,
         Steps, Marks
<1>2. Catalog!StagedAsResolved
  BY DEF CatalogInv, CatalogErrands, Whole, Resolved, Catalog!StagedAsResolved
<1>3. Catalog!NothingLeft
  <2> SUFFICES ASSUME NEW t \in temp
               PROVE  proc[t[2]].pc \in (IF t[1] = "zip" THEN {"stream", "hash", "extract"} ELSE {"extract", "stage"})
    BY DEF Catalog!NothingLeft
  <2>1. PICK p \in Buyers : t = Catalog!Zip(p) \/ t = Catalog!Dir(p)
    BY DEF CatalogInv, CatalogTemp, Catalog!Zip, Catalog!Dir
  <2>2. (t[1] = "zip" <=> t = Catalog!Zip(p)) /\ t[2] = p
    BY <2>1 DEF Catalog!Zip, Catalog!Dir
  <2> QED
    BY <2>1, <2>2 DEF CatalogInv, CatalogTemp, Zipped, Unpacked
<1> QED
  BY <1>1, <1>2, <1>3

THEOREM InstallsStagedHolds == Spec => []InstallsStaged
<1> DEFINE Inv == lane = "Catalog" => CatalogInv
<1>1. Init => Inv
  BY CatalogStart, CatalogInvInit
<1>2. Inv /\ [Next]_vars => Inv'
  <2> SUFFICES ASSUME Inv, [Next]_vars, lane' = "Catalog" PROVE CatalogInv'
    OBVIOUS
  <2>1. lane = "Catalog" /\ (Catalog!Next \/ UNCHANGED Catalog!vars)
    BY CatalogLane
  <2> QED
    BY <2>1, CatalogStep
<1>3. Inv => InstallsStaged
  BY CatalogShown DEF InstallsStaged
<1> HIDE DEF Inv
<1> QED
  BY <1>1, <1>2, <1>3, PTL DEF Spec


-----------------------------------------------------------------------------
(* Accounts.                                                                *)

\* A directory and the record of a flow.
Dir == [of : Flows \union {None}, held : Login!Held]
FlowRecord == [dir : Login!Held, cli : {"none", "runs", "exited", "dead"}, open : BOOLEAN,
               inMap : BOOLEAN, moved : BOOLEAN, coded : BOOLEAN, name : Names \union {0},
               fate : {"none", "displaced", "undone", "cleaned", "killed", "lost"}]
Request == [op : Login!Operations \union {"idle"},
            pc : {"idle", "mkdir", "reading", "publish", "kill", "unlink", "rmdir",
                  "write", "poll", "aside", "move", "copy", "copied",
                  "insert", "forget", "scan", "read", "store"},
            flow : Flows \union {None}, name : Names \union {0},
            read : Login!Row \union {None}, todo : SUBSET Names]

\* The steps a request takes.
StepsOf == [start    |-> {"mkdir", "reading", "publish", "kill", "unlink", "rmdir"},
            complete |-> {"write", "poll", "aside", "move", "copy", "copied", "insert", "forget",
                          "kill", "unlink", "rmdir"},
            kill     |-> {"kill", "unlink", "rmdir"},
            create   |-> {"insert"},
            import   |-> {"scan", "insert"},
            update   |-> {"store"},
            token    |-> {"store"},
            idle     |-> {"idle"}]
OnFlow == {"start", "complete", "kill"}
\* A request is at a step of its own, on a flow or on an account.
Serves(s) ==
    /\ s.op \in DOMAIN StepsOf /\ s.pc \in StepsOf[s.op]
    /\ IF s.op \in OnFlow THEN s.flow \in Flows ELSE s.flow = None
    /\ s.op \in {"create", "update", "token"} \/ (s.op = "import" /\ s.pc = "insert") => s.name \in Names
    /\ s.op = "token" => s.read \in Login!Row
    /\ s.op = "update" => s.read = None \/ row[s.name] \in Login!Row

\* A flow has its name once it is born, and its directory until it is moved.
FlowWhole(g) ==
    /\ IF g.cli = "none" THEN g = Login!Unborn ELSE g.name \in Names
    /\ g.moved => g.dir = "none"

\* A flow has been ended before its directory was that of an account, or it is.
Over(g) == g.fate # "none" \/ g.moved
\* What a request knows of its flow: it made it, it has put an end to it, it has seen the
\* credentials, it has moved them to the account.
Brought(f) == perm[flow[f].name] = [of |-> f, held |-> "creds"]
Knows(s) ==
    LET f == s.flow  g == flow[s.flow] IN
    /\ (s.pc = "mkdir") <=> (g.cli = "none")
    /\ s.pc \in {"unlink", "rmdir"} => g.cli = "dead" /\ Over(g)
    /\ s.pc \in {"aside", "move", "copy"} /\ g.fate = "none" => g.moved \/ g.dir \in {"none", "creds"}
    /\ s.pc \in {"copied", "insert"} /\ g.fate = "none" => Brought(f)
    /\ s.pc \in {"insert", "forget"} => g.moved

LoginThreads ==
    \A t \in Threads : /\ Serves(thread[t])
                       /\ thread[t].op \in OnFlow => Knows(thread[t])
LoginAlone ==
    \A t, u \in Threads : thread[t].pc = "mkdir" /\ thread[u].flow = thread[t].flow => t = u
\* What lies in a directory of an account was put there by a flow that was born.
LoginOwners == \A n \in Names : perm[n].of # None => flow[perm[n].of].cli # "none"
LoginFlows == \A f \in Flows : FlowWhole(flow[f])
LoginInv ==
    /\ Login!TypeOK /\ LoginThreads /\ LoginAlone /\ LoginFlows /\ LoginOwners
    /\ Login!FlowLeavesNothing /\ Login!CredentialsKept

\* How the record of a flow that is born may change: it keeps its name, the end of its command
\* line, of its directory and of its claim on an account.
Later(g, h) ==
    /\ g.cli # "none" /\ h.cli # "none" /\ h.name = g.name
    /\ g.cli = "dead" => h.cli = "dead"
    /\ g.fate # "none" => h.fate # "none"
    /\ g.moved => h.moved
    /\ h.moved => h.dir = "none"
    /\ g.dir = "none" => h.dir = "none"
    /\ g.dir = "creds" /\ h.fate = "none" => h.dir \in {"none", "creds"}
\* Nobody has to end the flow any more.
Settled(g) == g = Login!Unborn \/ g.inMap \/ g.fate = "lost" \/ (g.dir = "none" /\ g.cli = "dead")
\* Nothing but the claim on an account changes.
Lost == {"displaced", "undone"}
SameFlow(g, h) ==
    h = g \/ (g.cli # "none" /\ g.fate = "none" /\ \E why \in Lost : h = [g EXCEPT !.fate = why])

\* What steps do to the directories and to the table.
FlowsStep ==
    /\ flow' \in [Flows -> FlowRecord] /\ perm' \in [Names -> Dir]
    /\ \A f \in Flows : flow'[f] = flow[f] \/ Later(flow[f], flow'[f])
    /\ \A n \in Names : perm'[n] = perm[n] \/
          \A f \in Flows : perm[n] = [of |-> f, held |-> "creds"] => flow'[f].fate # "none"
    /\ \A n \in Names : perm'[n] = perm[n] \/ perm'[n].of = None \/ flow'[perm'[n].of].cli # "none"
RowsStep ==
    /\ row' \in [Names -> Login!Row \union {None}]
    /\ \A n \in Names :
          \/ row'[n] = row[n]
          \/ /\ row[n] \in Login!Row /\ row'[n] \in Login!Row
             /\ row'[n].from = row[n].from
          \/ /\ row[n] = None /\ row'[n] \in Login!Row
             /\ LET f == row'[n].from IN
                  f # None /\ flow'[f].fate = "none" => perm'[n] = [of |-> f, held |-> "creds"]
Typed ==
    /\ UNCHANGED scenario /\ aside' \subseteq Names
    /\ token' \in [Names -> 0..MaxTokens] /\ tokens' \in 0..MaxTokens
Retask(t, s) == thread' = [thread EXCEPT ![t] = s]
\* Flows other than these two stay as they are.
OthersStay(e, d) == \A f \in Flows : f # e /\ f # d => SameFlow(flow[f], flow'[f])

LEMMA LoginStart == Init /\ lane = "Login" => Login!Init
  BY DEF Init
LEMMA LoginLane ==
    ASSUME [Next]_vars, lane' = "Login"
    PROVE  lane = "Login" /\ (Login!Next \/ UNCHANGED Login!vars)
<1>1. CASE Next
  BY <1>1 DEF Next
<1>2. CASE UNCHANGED vars
  BY <1>2 DEF vars, loginVars, Login!vars
<1> QED
  BY <1>1, <1>2
LEMMA LoginConstants ==
    /\ Names \subseteq Nat \ {0} /\ MaxTokens \in Nat /\ None \notin Flows /\ None \notin Login!Row
    /\ \A s \in AccountScenarios : s.names \subseteq Names
  BY SurfacesAssumption DEF Login!AccountsAssumption

LEMMA UnbornRecord == Login!Unborn \in FlowRecord /\ Login!Idle \in Request /\ Login!NoDir \in Dir
  BY DEF Login!Unborn, Login!Idle, Login!NoDir, FlowRecord, Request, Dir, Login!Held

\* The parts of the invariant, for one request, one flow and one account.
LEMMA LoginParts ==
    ASSUME LoginInv
    PROVE  /\ scenario \in AccountScenarios
           /\ thread \in [Threads -> Request] /\ flow \in [Flows -> FlowRecord]
           /\ perm \in [Names -> Dir] /\ aside \subseteq Names
           /\ token \in [Names -> 0..MaxTokens] /\ tokens \in 0..MaxTokens
           /\ row \in [Names -> Login!Row \union {None}]
  BY DEF LoginInv, Login!TypeOK, Request, FlowRecord, Dir

LEMMA LoginInitial ==
    ASSUME Login!Init
    PROVE  LoginInv
<1>1. Login!TypeOK
  BY UnbornRecord, LoginConstants DEF Login!Init, Login!TypeOK, Request, FlowRecord, Dir
<1>2. LoginThreads /\ LoginAlone
  BY DEF Login!Init, LoginThreads, LoginAlone, Serves, StepsOf, OnFlow, Login!Idle
<1>3. LoginFlows /\ LoginOwners /\ Login!FlowLeavesNothing /\ Login!CredentialsKept
  BY DEF Login!Init, LoginFlows, LoginOwners, Login!NoDir, FlowWhole, Login!FlowLeavesNothing, Login!CredentialsKept, Login!Unborn
<1> QED
  BY <1>1, <1>2, <1>3 DEF LoginInv

\* What a request knows of its flow stays true.
LEMMA KnownLater ==
    ASSUME LoginInv, FlowsStep, NEW s \in Request, s.op \in OnFlow, Serves(s), Knows(s)
    PROVE  Knows(s)'
<1>1. PICK f \in Flows : f = s.flow
  BY DEF Serves
<1>2. PICK g, h : g = flow[f] /\ h = flow'[f]
  OBVIOUS
<1>3. g \in FlowRecord /\ h \in FlowRecord /\ (h = g \/ Later(g, h)) /\ FlowWhole(g)
  BY <1>2, LoginParts DEF FlowsStep, LoginInv, LoginFlows
<1>4. (s.pc = "mkdir") <=> (h.cli = "none")
  BY <1>1, <1>2, <1>3 DEF Knows, Later
<1>5. s.pc \in {"unlink", "rmdir"} => h.cli = "dead" /\ Over(h)
  BY <1>1, <1>2, <1>3 DEF Knows, Later, Over
<1>6. s.pc \in {"aside", "move", "copy"} /\ h.fate = "none" => h.moved \/ h.dir \in {"none", "creds"}
  BY <1>1, <1>2, <1>3 DEF Knows, Later
<1>7. s.pc \in {"insert", "forget"} => h.moved
  BY <1>1, <1>2, <1>3 DEF Knows, Later
<1>8. ASSUME s.pc \in {"copied", "insert"}, h.fate = "none"
      PROVE  perm'[h.name] = [of |-> f, held |-> "creds"]
  <2>1. g.fate = "none" /\ h.name = g.name
    BY <1>3, <1>8 DEF Later
  <2>2. g.cli # "none" /\ perm[g.name] = [of |-> f, held |-> "creds"]
    BY <1>1, <1>2, <1>8, <2>1 DEF Knows, Brought
  <2>3. g.name \in Names
    BY <1>3, <2>2 DEF FlowWhole
  <2> QED
    BY <1>2, <1>8, <2>1, <2>2, <2>3 DEF FlowsStep
<1> QED
  BY <1>1, <1>2, <1>4, <1>5, <1>6, <1>7, <1>8 DEF Knows, Brought

LEMMA FlowsWholeLater ==
    ASSUME LoginInv, FlowsStep
    PROVE  LoginFlows'
<1> SUFFICES ASSUME NEW f \in Flows PROVE FlowWhole(flow'[f])
  BY DEF LoginFlows
<1>1. flow[f] \in FlowRecord /\ FlowWhole(flow[f])
  BY LoginParts DEF LoginInv, LoginFlows
<1> QED
  BY <1>1 DEF FlowsStep, Later, FlowWhole

LEMMA OwnersLater ==
    ASSUME LoginInv, FlowsStep
    PROVE  LoginOwners'
<1> SUFFICES ASSUME NEW n \in Names, perm'[n] = perm[n], perm[n].of # None
             PROVE  flow'[perm[n].of].cli # "none"
  BY DEF LoginOwners, FlowsStep
<1>1. perm[n].of \in Flows /\ flow[perm[n].of].cli # "none"
  BY LoginParts DEF LoginInv, LoginOwners, Dir
<1> QED
  BY <1>1 DEF FlowsStep, Later

LEMMA KeptLater ==
    ASSUME LoginInv, FlowsStep, RowsStep
    PROVE  Login!CredentialsKept'
<1> SUFFICES ASSUME NEW n \in Names, row'[n] # None, row'[n].from # None, flow'[row'[n].from].fate = "none"
             PROVE  perm'[n] = [of |-> row'[n].from, held |-> "creds"]
  BY DEF Login!CredentialsKept
<1>1. PICK f : f = row'[n].from
  OBVIOUS
<1>2. f \in Flows
  BY <1>1 DEF RowsStep, Login!Row
<1>3. CASE row[n] # None /\ row[n].from = f
  <2>1. flow[f].fate = "none"
    BY <1>1, <1>2 DEF FlowsStep, Later
  <2>2. perm[n] = [of |-> f, held |-> "creds"]
    BY <1>1, <1>3, <2>1 DEF LoginInv, Login!CredentialsKept
  <2> QED
    BY <1>1, <1>2, <2>2 DEF FlowsStep
<1>4. CASE row[n] = None
  BY <1>1, <1>4, LoginConstants DEF RowsStep
<1> QED
  BY <1>1, <1>3, <1>4 DEF RowsStep

LEMMA SettledLater ==
    ASSUME NEW g \in FlowRecord, NEW h \in FlowRecord, SameFlow(g, h), Settled(g)
    PROVE  Settled(h)
<1>1. CASE h = g
  BY <1>1
<1>2. ASSUME g.cli # "none", g.fate = "none", NEW why \in Lost, h = [g EXCEPT !.fate = why]
      PROVE  Settled(h)
  <2>1. g # Login!Unborn
    BY <1>2 DEF Login!Unborn
  <2>2. h.inMap = g.inMap /\ h.dir = g.dir /\ h.cli = g.cli /\ g.fate # "lost"
    BY <1>2 DEF FlowRecord, Lost
  <2> QED
    BY <2>1, <2>2 DEF Settled
<1> QED
  BY <1>1, <1>2 DEF SameFlow
LEMMA LeftSettled ==
    ASSUME NEW th, NEW fl,
           \A f \in Flows : Settled(fl[f]) \/ \E t \in Threads : th[t].flow = f,
           thread = th, flow = fl
    PROVE  Login!FlowLeavesNothing
  BY DEF Login!FlowLeavesNothing, Settled
LEMMA SettledLeft ==
    ASSUME Login!FlowLeavesNothing, NEW f \in Flows, \A t \in Threads : thread[t].flow # f
    PROVE  Settled(flow[f])
  BY DEF Login!FlowLeavesNothing, Settled

\* A request takes a step.
LEMMA LoginMoves ==
    ASSUME LoginInv, NEW t \in Threads, NEW s \in Request, Retask(t, s),
           FlowsStep, RowsStep, Typed, Serves(s)', s.op \in OnFlow => Knows(s)',
           s.pc = "mkdir" => \A u \in Threads : thread[u].flow # s.flow,
           thread[t].flow \in Flows => s.flow = thread[t].flow \/ Settled(flow'[thread[t].flow]),
           OthersStay(s.flow, thread[t].flow)
    PROVE  LoginInv'
<1>1. /\ thread \in [Threads -> Request] /\ thread'[t] = s
      /\ \A u \in Threads : u # t => thread'[u] = thread[u]
  BY LoginParts DEF Retask
<1>2. Login!TypeOK'
  <2>1. thread' \in [Threads -> Request]
    BY <1>1 DEF Retask
  <2> QED
    BY <2>1, LoginParts DEF FlowsStep, RowsStep, Typed, Login!TypeOK, Request, FlowRecord, Dir
<1>3. LoginThreads'
  <2> SUFFICES ASSUME NEW u \in Threads, u # t
               PROVE  Serves(thread[u])' /\ (thread[u].op \in OnFlow => Knows(thread[u]))'
    BY <1>1 DEF LoginThreads
  <2>1. PICK r \in Request : r = thread[u]
    BY <1>1
  <2>2. thread'[u] = r
    BY <1>1, <2>1
  <2>3. Serves(r) /\ (r.op \in OnFlow => Knows(r))
    BY <2>1 DEF LoginInv, LoginThreads
  <2>4. Serves(r)'
    BY <2>3, LoginConstants DEF Serves, RowsStep
  <2>5. r.op \in OnFlow => Knows(r)'
    BY <2>3, KnownLater
  <2> QED
    BY <2>2, <2>4, <2>5
<1>4. LoginAlone'
  <2> SUFFICES ASSUME NEW u \in Threads, NEW v \in Threads, thread'[u].pc = "mkdir",
                      thread'[v].flow = thread'[u].flow, u # v
               PROVE  FALSE
    BY DEF LoginAlone
  <2>1. u # t => v = t
    BY <1>1 DEF LoginInv, LoginAlone
  <2>2. CASE u = t
    BY <1>1, <2>2
  <2>3. CASE v = t
    <3>1. PICK r \in Request : r = thread[u] /\ r = thread'[u]
      BY <1>1, <2>3
    <3>2. Serves(r) /\ r.pc = "mkdir"
      BY <3>1 DEF LoginInv, LoginThreads
    <3>3. r.op \in OnFlow /\ r.flow \in Flows
      BY <3>2 DEF Serves, StepsOf, OnFlow
    <3>4. Knows(r)'
      BY <3>1, <3>2, <3>3, KnownLater DEF LoginInv, LoginThreads
    <3>5. s.flow = r.flow /\ s.op \in OnFlow
      BY <1>1, <2>3, <3>1, <3>3, LoginConstants DEF Serves
    <3>6. s.pc = "mkdir"
      BY <3>2, <3>4, <3>5 DEF Knows
    <3> QED
      BY <3>1, <3>5, <3>6
  <2> QED
    BY <2>1, <2>2, <2>3
<1>5. LoginFlows' /\ LoginOwners' /\ Login!CredentialsKept'
  BY FlowsWholeLater, OwnersLater, KeptLater
<1>6. Login!FlowLeavesNothing'
  <2> SUFFICES ASSUME NEW f \in Flows, \A u \in Threads : thread'[u].flow # f PROVE Settled(flow'[f])
    BY DEF Login!FlowLeavesNothing, Settled
  <2>1. s.flow # f
    BY <1>1
  <2>2. CASE thread[t].flow = f
    BY <2>1, <2>2
  <2>3. CASE thread[t].flow # f
    <3>1. Settled(flow[f])
      BY <1>1, <2>3, SettledLeft DEF LoginInv
    <3>2. SameFlow(flow[f], flow'[f])
      BY <2>1, <2>3 DEF OthersStay
    <3> QED
      BY <3>1, <3>2, SettledLater, LoginParts DEF FlowsStep
  <2> QED
    BY <2>2, <2>3
<1> QED
  BY <1>2, <1>3, <1>4, <1>5, <1>6 DEF LoginInv

LEMMA NothingLater ==
    ASSUME LoginInv, UNCHANGED <<flow, perm>>, NEW e, NEW d
    PROVE  FlowsStep /\ OthersStay(e, d)
  BY LoginParts DEF FlowsStep, OthersStay, SameFlow
LEMMA RowsSame == LoginInv /\ UNCHANGED row => RowsStep
  BY LoginParts DEF RowsStep

\* A step on the flow of a request, which stays on it or leaves it settled.
Reflow(f, h) == flow' = [flow EXCEPT ![f] = h]
LEMMA FlowMoves ==
    ASSUME LoginInv, NEW t \in Threads, NEW f \in Flows, thread[t].flow = f,
           NEW h \in FlowRecord, h = flow[f] \/ Later(flow[f], h), Reflow(f, h),
           UNCHANGED Login!Disk, NEW s \in Request, Retask(t, s),
           \/ s = Login!Idle /\ Settled(h)
           \/ s.op \in OnFlow /\ s.flow = f /\ s.pc \in StepsOf[s.op] /\ s.pc # "mkdir" /\ Knows(s)'
    PROVE  LoginInv'
<1>1. flow' \in [Flows -> FlowRecord] /\ flow'[f] = h /\ \A e \in Flows : e # f => flow'[e] = flow[e]
  BY LoginParts DEF Reflow
<1>2. FlowsStep
  BY <1>1, LoginParts DEF FlowsStep, Login!Disk
<1>3. RowsStep /\ Typed
  BY LoginParts, RowsSame DEF Typed, Login!Disk
<1>4. Serves(s)' /\ (s.op \in OnFlow => Knows(s)') /\ s.pc # "mkdir"
  BY DEF Serves, StepsOf, OnFlow, Login!Idle
<1>5. OthersStay(s.flow, thread[t].flow)
  BY <1>1 DEF OthersStay, SameFlow
<1> QED
  BY <1>1, <1>2, <1>3, <1>4, <1>5, LoginMoves

\* Where a request goes.
LEMMA GoesTo ==
    ASSUME LoginInv, NEW t \in Threads, NEW s \in Request, s = thread[t], NEW to, to \in StepsOf[s.op],
           s.op \in OnFlow, Login!Goto(t, to)
    PROVE  \E r \in Request : Retask(t, r) /\ r.op = s.op /\ r.flow = s.flow /\ r.pc = to
<1>1. PICK r : r = [s EXCEPT !.pc = to]
  OBVIOUS
<1>2. r \in Request /\ r.op = s.op /\ r.flow = s.flow /\ r.pc = to
  BY <1>1 DEF Request, StepsOf, OnFlow
<1>3. Retask(t, r)
  BY <1>1 DEF Login!Goto, Retask
<1> QED
  BY <1>2, <1>3

\* A request on a flow.
LEMMA AtFlow ==
    ASSUME LoginInv, NEW t \in Threads,
           thread[t].pc \in UNION {StepsOf.start, StepsOf.complete, StepsOf.kill} \/ thread[t].op \in OnFlow,
           thread[t].pc = "insert" => thread[t].op = "complete"
    PROVE  \E s \in Request, f \in Flows, g \in FlowRecord :
              /\ s = thread[t] /\ f = s.flow /\ g = flow[f] /\ s.op \in OnFlow /\ s.pc \in StepsOf[s.op]
              /\ Knows(s) /\ FlowWhole(g)
<1>1. PICK s \in Request : s = thread[t] /\ Serves(s) /\ (s.op \in OnFlow => Knows(s))
  BY LoginParts DEF LoginInv, LoginThreads
<1>2. s.op \in OnFlow
  BY <1>1 DEF Serves, StepsOf, OnFlow
<1> QED
  BY <1>1, <1>2, LoginParts DEF Serves, LoginInv, LoginFlows

\* The steps of a request on a flow that leave the accounts as they are: it goes on, or ends
\* with the flow settled.
OnIt(t, s, f, g) ==
    /\ s = thread[t] /\ f = s.flow /\ g = flow[f] /\ s.op \in OnFlow /\ s.pc \in StepsOf[s.op]
    /\ Knows(s) /\ FlowWhole(g)
GoingTo(f, h, to) ==
    /\ to # "mkdir" /\ h.cli # "none"
    /\ to \in {"unlink", "rmdir"} => h.cli = "dead" /\ Over(h)
    /\ to \in {"aside", "move", "copy"} /\ h.fate = "none" => h.moved \/ h.dir \in {"none", "creds"}
    /\ to \in {"copied", "insert"} /\ h.fate = "none" => perm[h.name] = [of |-> f, held |-> "creds"]
    /\ to \in {"insert", "forget"} => h.moved
LEMMA FlowGoes ==
    ASSUME LoginInv, NEW t \in Threads, NEW s \in Request, NEW f \in Flows, NEW g \in FlowRecord,
           OnIt(t, s, f, g), NEW h \in FlowRecord, h = g \/ Later(g, h), Reflow(f, h), UNCHANGED Login!Disk,
           NEW to, to \in StepsOf[s.op], Login!Goto(t, to), GoingTo(f, h, to)
    PROVE  LoginInv'
<1>1. PICK r \in Request : Retask(t, r) /\ r.op = s.op /\ r.flow = s.flow /\ r.pc = to
  BY GoesTo DEF OnIt
<1>2. flow'[f] = h /\ perm' = perm
  BY LoginParts DEF Reflow, Login!Disk
<1>3. Knows(r)'
  BY <1>1, <1>2 DEF Knows, Brought, GoingTo, OnIt
<1> QED
  BY <1>1, <1>3, FlowMoves DEF OnIt, GoingTo
LEMMA FlowEnds ==
    ASSUME LoginInv, NEW t \in Threads, NEW s \in Request, NEW f \in Flows, NEW g \in FlowRecord,
           OnIt(t, s, f, g), NEW h \in FlowRecord, h = g \/ Later(g, h), Reflow(f, h), UNCHANGED Login!Disk,
           Login!Done(t), Settled(h)
    PROVE  LoginInv'
<1>1. Retask(t, Login!Idle) /\ Login!Idle \in Request
  BY UnbornRecord DEF Login!Done, Retask
<1> QED
  BY <1>1, FlowMoves DEF OnIt
LEMMA SameReflow ==
    ASSUME LoginInv, NEW f \in Flows, NEW g, g = flow[f], UNCHANGED flow
    PROVE  Reflow(f, g)
  BY LoginParts DEF Reflow

LEMMA ReadURLStep ==
    ASSUME LoginInv, NEW t \in Threads, Login!ReadURL(t)
    PROVE  LoginInv'
<1>1. PICK s \in Request, f \in Flows, g \in FlowRecord : OnIt(t, s, f, g) /\ s.pc = "reading"
  BY AtFlow DEF Login!ReadURL, Login!At, StepsOf, OnIt
<1>2. PICK to \in {"publish", "kill"} : Login!Goto(t, to)
  BY DEF Login!ReadURL
<1>3. to \in StepsOf[s.op] /\ GoingTo(f, g, to)
  BY <1>1, <1>2 DEF OnIt, StepsOf, OnFlow, Knows, GoingTo
<1> QED
  BY <1>1, <1>2, <1>3, SameReflow, FlowGoes DEF Login!ReadURL, OnIt

LEMMA PublishFlowStep ==
    ASSUME LoginInv, NEW t \in Threads, Login!Publish(t)
    PROVE  LoginInv'
<1> thread[t].pc = "publish"
  BY DEF Login!Publish, Login!At
<1>1. PICK s \in Request, f \in Flows, g \in FlowRecord : OnIt(t, s, f, g) /\ s.pc = "publish"
  BY AtFlow DEF StepsOf, OnIt
<1>2. PICK h : h = [g EXCEPT !.inMap = TRUE]
  OBVIOUS
<1>3. h \in FlowRecord /\ Later(g, h) /\ Settled(h)
  BY <1>1, <1>2 DEF FlowRecord, Later, Settled, OnIt, Knows, FlowWhole
<1>4. Reflow(f, h)
  BY <1>1, <1>2 DEF Login!Publish, Reflow, OnIt
<1> QED
  BY <1>1, <1>3, <1>4, FlowEnds DEF Login!Publish

LEMMA CleanupStep ==
    ASSUME LoginInv, NEW t \in Threads, Login!CleanupKill(t) \/ Login!CleanupUnlink(t) \/ Login!CleanupRmdir(t)
    PROVE  LoginInv'
<1>1. PICK s \in Request, f \in Flows, g \in FlowRecord : OnIt(t, s, f, g) /\ s.pc \in {"kill", "unlink", "rmdir"}
  BY AtFlow DEF Login!CleanupKill, Login!CleanupUnlink, Login!CleanupRmdir, Login!At, StepsOf, OnIt
<1>2. \A to \in {"unlink", "rmdir"} : to \in StepsOf[s.op]
  BY <1>1 DEF OnIt, StepsOf, OnFlow
<1>3. ASSUME Login!CleanupKill(t) PROVE LoginInv'
  <2>1. s.pc = "kill"
    BY <1>1, <1>3 DEF Login!CleanupKill, Login!At, OnIt
  <2>2. PICK h : h = [g EXCEPT !.cli = "dead", !.open = FALSE, !.fate = Login!Ended(g, "cleaned")]
    OBVIOUS
  <2>3. h \in FlowRecord /\ Later(g, h) /\ GoingTo(f, h, "unlink")
    <3>1. /\ h \in FlowRecord /\ h.cli = "dead" /\ Over(h) /\ h.name = g.name /\ h.dir = g.dir
          /\ h.moved = g.moved /\ (g.fate # "none" => h.fate # "none")
      BY <2>2 DEF FlowRecord, Login!Ended, Over
    <3>2. g.cli # "none"
      BY <1>1, <2>1 DEF OnIt, Knows
    <3> QED
      BY <1>1, <3>1, <3>2 DEF Later, GoingTo, OnIt, FlowWhole
  <2>4. Reflow(f, h)
    BY <1>1, <1>3, <2>2 DEF Login!CleanupKill, Login!Of, Reflow, OnIt
  <2> QED
    BY <1>1, <1>2, <1>3, <2>3, <2>4, FlowGoes DEF Login!CleanupKill
<1>4. ASSUME Login!CleanupUnlink(t) PROVE LoginInv'
  <2>1. s.pc = "unlink" /\ g.cli = "dead" /\ Over(g)
    BY <1>1, <1>4 DEF Login!CleanupUnlink, Login!At, OnIt, Knows
  <2>2. CASE g.moved \/ g.dir = "none"
    <3>1. Login!Done(t) /\ UNCHANGED <<flow, Login!Disk>>
      BY <1>1, <1>4, <2>2 DEF Login!CleanupUnlink, Login!Of, OnIt
    <3>2. Settled(g)
      BY <1>1, <2>1, <2>2 DEF OnIt, FlowWhole, Settled
    <3> QED
      BY <1>1, <3>1, <3>2, SameReflow, FlowEnds DEF OnIt
  <2>3. CASE ~(g.moved \/ g.dir = "none")
    <3>1. PICK h : h = [g EXCEPT !.dir = "empty"]
      OBVIOUS
    <3>2. h \in FlowRecord /\ Later(g, h) /\ GoingTo(f, h, "rmdir")
      BY <1>1, <2>1, <2>3, <3>1 DEF FlowRecord, Later, GoingTo, OnIt, Knows, FlowWhole, Login!Held, Over
    <3>3. Reflow(f, h) /\ Login!Goto(t, "rmdir")
      BY <1>1, <1>4, <2>3, <3>1 DEF Login!CleanupUnlink, Login!Of, Reflow, OnIt
    <3> QED
      BY <1>1, <1>2, <1>4, <3>2, <3>3, FlowGoes DEF Login!CleanupUnlink
  <2> QED
    BY <2>2, <2>3
<1>5. ASSUME Login!CleanupRmdir(t) PROVE LoginInv'
  <2>1. s.pc = "rmdir" /\ g.cli = "dead" /\ Over(g)
    BY <1>1, <1>5 DEF Login!CleanupRmdir, Login!At, OnIt, Knows
  <2>2. PICK h : h = [g EXCEPT !.dir = "none"]
    OBVIOUS
  <2>3. h \in FlowRecord /\ Later(g, h) /\ Settled(h)
    BY <1>1, <2>1, <2>2 DEF FlowRecord, Later, Settled, OnIt, Knows, FlowWhole, Login!Held
  <2>4. Reflow(f, h)
    BY <1>1, <1>5, <2>2 DEF Login!CleanupRmdir, Login!Rmdir, Reflow, OnIt
  <2> QED
    BY <1>1, <1>5, <2>3, <2>4, FlowEnds DEF Login!CleanupRmdir
<1> QED
  BY <1>3, <1>4, <1>5

LEMMA WriteCodeStep ==
    ASSUME LoginInv, NEW t \in Threads, Login!WriteCode(t) \/ Login!Poll(t)
    PROVE  LoginInv'
<1>1. PICK s \in Request, f \in Flows, g \in FlowRecord :
        OnIt(t, s, f, g) /\ s.pc \in {"write", "poll"} /\ s.op = "complete"
  <2>1. thread[t].pc \in {"write", "poll"}
    BY DEF Login!WriteCode, Login!Poll, Login!At
  <2>2. PICK s \in Request, f \in Flows, g \in FlowRecord : OnIt(t, s, f, g) /\ s.pc \in {"write", "poll"}
    BY <2>1, AtFlow DEF StepsOf, OnIt
  <2> QED
    BY <2>2 DEF OnIt, OnFlow, StepsOf
<1>2. ASSUME NEW to \in {"poll", "kill", "aside"}, Login!Goto(t, to), UNCHANGED <<flow, Login!Disk>>,
             to = "aside" => g.dir = "creds"
      PROVE  LoginInv'
  <2>1. to \in StepsOf[s.op] /\ GoingTo(f, g, to)
    BY <1>1, <1>2 DEF OnIt, StepsOf, OnFlow, Knows, GoingTo
  <2> QED
    BY <1>1, <1>2, <2>1, SameReflow, FlowGoes DEF OnIt
<1>3. ASSUME Login!WriteCode(t), g.open PROVE LoginInv'
  <2>1. PICK h : h = [g EXCEPT !.coded = TRUE]
    OBVIOUS
  <2>2. h \in FlowRecord /\ Later(g, h) /\ GoingTo(f, h, "poll") /\ "poll" \in StepsOf[s.op]
    <3>1. /\ h \in FlowRecord /\ h.cli = g.cli /\ h.fate = g.fate /\ h.name = g.name /\ h.dir = g.dir
          /\ h.moved = g.moved
      BY <2>1 DEF FlowRecord
    <3>2. g.cli # "none"
      BY <1>1 DEF OnIt, Knows
    <3> QED
      BY <1>1, <3>1, <3>2 DEF Later, GoingTo, OnIt, FlowWhole, StepsOf
  <2>3. Reflow(f, h) /\ Login!Goto(t, "poll") /\ UNCHANGED Login!Disk
    BY <1>1, <1>3, <2>1 DEF Login!WriteCode, Login!Of, Reflow, OnIt
  <2> QED
    BY <1>1, <2>2, <2>3, FlowGoes
<1>4. ASSUME Login!WriteCode(t), ~g.open PROVE LoginInv'
  BY <1>1, <1>2, <1>4 DEF Login!WriteCode, Login!Of, OnIt
<1>5. ASSUME Login!Poll(t) PROVE LoginInv'
  BY <1>1, <1>2, <1>5 DEF Login!Poll, Login!Signed, OnIt
<1> QED
  BY <1>3, <1>4, <1>5

\* A request that is served.
LEMMA ServesAs ==
    ASSUME LoginInv, NEW t \in Threads, NEW op \in OnFlow, NEW to \in StepsOf[op], NEW f \in Flows,
           Login!Serve(t, op, to, f, 0)
    PROVE  /\ thread[t].flow = None
           /\ \E s \in Request : Retask(t, s) /\ s.op = op /\ s.pc = to /\ s.flow = f /\ Serves(s)'
<1>1. PICK s : s = [Login!Idle EXCEPT !.op = op, !.pc = to, !.flow = f, !.name = 0]
  OBVIOUS
<1>2. s \in Request /\ s.op = op /\ s.pc = to /\ s.flow = f
  <2>1. op \in Login!Operations /\ to \in {"mkdir", "reading", "publish", "kill", "unlink", "rmdir", "write",
                                         "poll", "aside", "move", "copy", "copied", "insert", "forget"}
    BY DEF OnFlow, StepsOf, Login!Operations
  <2>2. /\ s = [op |-> op, pc |-> to, flow |-> f, name |-> 0, read |-> None, todo |-> {}]
    BY <1>1 DEF Login!Idle
  <2> QED
    BY <2>1, <2>2 DEF Request
<1>3. Retask(t, s)
  BY <1>1 DEF Retask, Login!Serve
<1>4. Serves(s)'
  BY <1>2 DEF Serves, OnFlow, StepsOf
<1>5. thread[t].flow = None
  BY DEF Login!Serve, Login!At, LoginInv, LoginThreads, Serves, OnFlow, StepsOf
<1> QED
  BY <1>2, <1>3, <1>4, <1>5

LEMMA StartStep ==
    ASSUME LoginInv, NEW t \in Threads, NEW f \in Flows, Login!Start(t, f)
    PROVE  LoginInv'
<1>1. /\ thread[t].flow = None
      /\ \E s \in Request : Retask(t, s) /\ s.op = "start" /\ s.pc = "mkdir" /\ s.flow = f /\ Serves(s)'
  BY ServesAs DEF Login!Start, OnFlow, StepsOf
<1>2. PICK s \in Request : Retask(t, s) /\ s.op = "start" /\ s.pc = "mkdir" /\ s.flow = f /\ Serves(s)'
  BY <1>1
<1>3. UNCHANGED <<flow, perm, row>> /\ Typed
  BY LoginParts DEF Login!Start, Login!Disk, Typed
<1>4. Knows(s)'
  BY <1>2, <1>3 DEF Knows, Login!Start, Login!Unborn
<1>5. \A u \in Threads : thread[u].flow # s.flow
  BY <1>2 DEF Login!Start
<1> QED
  BY <1>1, <1>2, <1>3, <1>4, <1>5, NothingLater, RowsSame, LoginMoves, LoginConstants

\* Ended by a cancel or by its deadline, or completed.
LEMMA ClaimStep ==
    ASSUME LoginInv, NEW t \in Threads, NEW f \in Flows, Login!KillFlow(t, f) \/ Login!Complete(t, f)
    PROVE  LoginInv'
<1>1. PICK op \in OnFlow, to \in {"kill", "write"}, h \in FlowRecord :
        /\ to \in StepsOf[op] /\ Login!Serve(t, op, to, f, 0)
        /\ \/ h = flow[f]
           \/ h = [flow[f] EXCEPT !.inMap = FALSE, !.fate = Login!Ended(flow[f], "killed")]
        /\ flow' = [flow EXCEPT ![f] = h]
  <2>1. CASE Login!KillFlow(t, f)
    <3>1. PICK h : h = [flow[f] EXCEPT !.inMap = FALSE, !.fate = Login!Ended(flow[f], "killed")]
      OBVIOUS
    <3>2. h \in FlowRecord
      BY <3>1, LoginParts DEF FlowRecord, Login!Ended
    <3>3. flow' = [flow EXCEPT ![f] = h]
      BY <2>1, <3>1, LoginParts DEF Login!KillFlow
    <3>4. "kill" \in OnFlow /\ "kill" \in StepsOf.kill /\ Login!Serve(t, "kill", "kill", f, 0)
      BY <2>1 DEF Login!KillFlow, OnFlow, StepsOf
    <3> QED
      BY <3>1, <3>2, <3>3, <3>4
  <2>2. CASE Login!Complete(t, f)
    BY <2>2, LoginParts DEF Login!Complete, OnFlow, StepsOf
  <2> QED
    BY <2>1, <2>2
<1>2. /\ thread[t].flow = None
      /\ \E s \in Request : Retask(t, s) /\ s.op = op /\ s.pc = to /\ s.flow = f /\ Serves(s)'
  BY <1>1, ServesAs
<1>3. PICK s \in Request : Retask(t, s) /\ s.op = op /\ s.pc = to /\ s.flow = f /\ Serves(s)'
  BY <1>2
<1>4. UNCHANGED <<perm, row>> /\ Typed
  BY LoginParts DEF Login!KillFlow, Login!Complete, Login!Disk, Typed
<1>5. PICK g \in FlowRecord : g = flow[f] /\ g.inMap /\ g.cli # "none" /\ FlowWhole(g)
  <2>1. flow[f] \in FlowRecord /\ flow[f].inMap /\ FlowWhole(flow[f])
    BY LoginParts DEF Login!KillFlow, Login!Complete, LoginInv, LoginFlows
  <2> QED
    BY <2>1 DEF FlowWhole, Login!Unborn
<1>6. h \in FlowRecord /\ (h = g \/ Later(g, h)) /\ h.cli # "none"
  BY <1>1, <1>5 DEF FlowRecord, Later, FlowWhole, Login!Ended
<1>7. flow' \in [Flows -> FlowRecord] /\ flow'[f] = h /\ \A e \in Flows : e # f => flow'[e] = flow[e]
  BY <1>1, <1>6, LoginParts
<1>8. FlowsStep /\ OthersStay(f, None)
  BY <1>4, <1>5, <1>6, <1>7, LoginParts DEF FlowsStep, OthersStay, SameFlow
<1>9. Knows(s)'
  BY <1>1, <1>3, <1>6, <1>7 DEF Knows
<1> QED
  BY <1>1, <1>2, <1>3, <1>4, <1>8, <1>9, RowsSame, LoginMoves, LoginConstants

LEMMA SpawnStep ==
    ASSUME LoginInv, NEW t \in Threads, Login!Spawn(t)
    PROVE  LoginInv'
<1>1. PICK s \in Request, f \in Flows, g \in FlowRecord : OnIt(t, s, f, g) /\ s.pc = "mkdir"
  <2>1. thread[t].pc = "mkdir"
    BY DEF Login!Spawn, Login!At
  <2> QED
    BY <2>1, AtFlow DEF StepsOf, OnIt
<1>2. g = Login!Unborn /\ s.op = "start"
  BY <1>1 DEF OnIt, Knows, FlowWhole, OnFlow, StepsOf
<1>3. ASSUME Login!Done(t), UNCHANGED flow PROVE LoginInv'
  <2>1. Settled(g)
    BY <1>2 DEF Settled
  <2> QED
    BY <1>1, <1>3, <2>1, SameReflow, FlowEnds DEF OnIt, Login!Spawn
<1>4. ASSUME NEW n \in scenario.names, Login!Goto(t, "reading"),
             flow' = [flow EXCEPT ![thread[t].flow] =
                        [Login!Unborn EXCEPT !.dir = "empty", !.cli = "runs", !.open = TRUE, !.name = n]]
      PROVE  LoginInv'
  <2>1. n \in Names
    BY LoginParts, LoginConstants
  <2>2. PICK h : h = [Login!Unborn EXCEPT !.dir = "empty", !.cli = "runs", !.open = TRUE, !.name = n]
    OBVIOUS
  <2>3. /\ h \in FlowRecord /\ h.cli = "runs" /\ h.name = n /\ ~h.moved /\ h.fate = "none" /\ FlowWhole(h)
    BY <2>1, <2>2, UnbornRecord DEF FlowRecord, Login!Unborn, Login!Held, FlowWhole
  <2>4. flow' \in [Flows -> FlowRecord] /\ flow'[f] = h /\ \A e \in Flows : e # f => flow'[e] = flow[e]
    BY <1>1, <1>4, <2>2, <2>3, LoginParts DEF OnIt
  <2>5. PICK r \in Request : Retask(t, r) /\ r.op = s.op /\ r.flow = s.flow /\ r.pc = "reading"
    BY <1>1, <1>2, <1>4, GoesTo DEF OnIt, StepsOf
  <2>6. /\ thread' \in [Threads -> Request] /\ thread'[t] = r
        /\ \A u \in Threads : u # t => thread'[u] = thread[u]
    BY <2>5, LoginParts DEF Retask
  <2>7. UNCHANGED <<scenario, perm, aside, token, tokens, row>>
    BY DEF Login!Spawn, Login!Disk
  <2>8. \A u \in Threads : u # t => thread[u].flow # f
    BY <1>1 DEF LoginInv, LoginAlone, OnIt
  <2>9. Login!TypeOK'
    BY <2>4, <2>6, <2>7 DEF LoginInv, Login!TypeOK, Request, FlowRecord
  <2>10. LoginThreads'
    <3> SUFFICES ASSUME NEW u \in Threads
                 PROVE  Serves(thread[u])' /\ (thread[u].op \in OnFlow => Knows(thread[u]))'
      BY DEF LoginThreads
    <3>1. CASE u = t
      <4>1. Serves(r)' /\ Knows(r)'
        BY <1>1, <1>2, <2>3, <2>4, <2>5 DEF OnIt, Serves, Knows, StepsOf, OnFlow
      <4> QED
        BY <2>6, <3>1, <4>1
    <3>2. CASE u # t
      <4>1. PICK o \in Request : o = thread[u] /\ thread'[u] = o
        BY <2>6, <3>2, LoginParts
      <4>2. Serves(o) /\ (o.op \in OnFlow => Knows(o) /\ o.flow \in Flows /\ o.flow # f)
        BY <2>8, <3>2, <4>1 DEF LoginInv, LoginThreads, Serves
      <4>3. Serves(o)'
        BY <2>7, <4>2 DEF Serves
      <4>4. o.op \in OnFlow => Knows(o)'
        BY <2>4, <2>7, <4>2 DEF Knows, Brought
      <4> QED
        BY <4>1, <4>3, <4>4
    <3> QED
      BY <3>1, <3>2
  <2>11. LoginAlone'
    BY <2>5, <2>6, <2>8, <1>1 DEF LoginInv, LoginAlone, OnIt
  <2>12. LoginFlows'
    BY <2>3, <2>4 DEF LoginInv, LoginFlows
  <2>13. LoginOwners'
    BY <2>3, <2>4, <2>7, LoginParts DEF LoginInv, LoginOwners, Dir
  <2>14. Login!FlowLeavesNothing'
    <3> SUFFICES ASSUME NEW e \in Flows, \A u \in Threads : thread'[u].flow # e PROVE Settled(flow'[e])
      BY DEF Login!FlowLeavesNothing, Settled
    <3>1. e # f
      BY <1>1, <2>5, <2>6 DEF OnIt
    <3>2. \A u \in Threads : thread[u].flow # e
      BY <1>1, <2>6, <3>1 DEF OnIt
    <3> QED
      BY <2>4, <3>1, <3>2, SettledLeft DEF LoginInv
  <2>15. Login!CredentialsKept'
    <3> SUFFICES ASSUME NEW m \in Names, row[m] # None, row[m].from # None, flow'[row[m].from].fate = "none"
                 PROVE  perm[m] = [of |-> row[m].from, held |-> "creds"]
      BY <2>7 DEF Login!CredentialsKept
    <3>1. row[m].from \in Flows
      BY LoginParts DEF Login!Row
    <3>2. flow[row[m].from].fate = "none"
      <4>1. flow[f].fate = "none"
        BY <1>1, <1>2 DEF OnIt, Login!Unborn
      <4> QED
        BY <2>4, <3>1, <4>1
    <3> QED
      BY <3>2 DEF LoginInv, Login!CredentialsKept
  <2> QED
    BY <2>9, <2>10, <2>11, <2>12, <2>13, <2>14, <2>15 DEF LoginInv
<1> QED
  BY <1>3, <1>4 DEF Login!Spawn

\* What lay in a directory of an account is displaced.
LEMMA Displaces ==
    ASSUME LoginInv, NEW t \in Threads, NEW n \in Names, flow' = Login!Displaced(t, n)
    PROVE  /\ flow' \in [Flows -> FlowRecord]
           /\ \A f \in Flows : SameFlow(flow[f], flow'[f]) /\ (flow'[f] = flow[f] \/ Later(flow[f], flow'[f]))
           /\ \A f \in Flows : perm[n].of = f => flow'[f].fate # "none"
<1> SUFFICES ASSUME NEW f \in Flows
             PROVE  /\ flow'[f] \in FlowRecord
                    /\ SameFlow(flow[f], flow'[f]) /\ (flow'[f] = flow[f] \/ Later(flow[f], flow'[f]))
                    /\ perm[n].of = f => flow'[f].fate # "none"
  BY DEF Login!Displaced
<1>1. PICK g \in FlowRecord : g = flow[f] /\ FlowWhole(g)
  BY LoginParts DEF LoginInv, LoginFlows
<1>2. PICK h : h = flow'[f]
  OBVIOUS
<1>3. CASE perm[n].of # f \/ g.fate # "none"
  <2>1. h = g
    BY <1>1, <1>2, <1>3 DEF Login!Displaced, FlowRecord
  <2> QED
    BY <1>1, <1>2, <1>3, <2>1 DEF SameFlow
<1>4. CASE perm[n].of = f /\ g.fate = "none"
  <2>1. PICK why \in Lost : h = [g EXCEPT !.fate = why]
    BY <1>1, <1>2, <1>4 DEF Login!Displaced, Lost
  <2>2. g.cli # "none"
    BY <1>1, <1>4, LoginConstants DEF LoginInv, LoginOwners
  <2>3. h \in FlowRecord /\ h.fate # "none" /\ h.name = g.name /\ h.cli = g.cli /\ h.dir = g.dir /\ h.moved = g.moved
    BY <2>1 DEF FlowRecord, Lost
  <2> QED
    BY <1>1, <1>2, <1>4, <2>1, <2>2, <2>3 DEF SameFlow, Later, FlowWhole
<1> QED
  BY <1>3, <1>4

\* A step of a request on a flow that writes to the directories of the accounts.
LEMMA FlowWrites ==
    ASSUME LoginInv, NEW t \in Threads, NEW s \in Request, NEW f \in Flows, NEW g \in FlowRecord,
           OnIt(t, s, f, g), FlowsStep, UNCHANGED <<scenario, token, tokens, row>>, aside' \subseteq Names,
           \A e \in Flows : e # f => SameFlow(flow[e], flow'[e]),
           NEW h \in FlowRecord, h = flow'[f], NEW to, to \in StepsOf[s.op], Login!Goto(t, to), to # "mkdir",
           h.cli # "none", to \in {"unlink", "rmdir"} => h.cli = "dead" /\ Over(h),
           to \in {"aside", "move", "copy"} /\ h.fate = "none" => h.moved \/ h.dir \in {"none", "creds"},
           to \in {"copied", "insert"} /\ h.fate = "none" => perm'[h.name] = [of |-> f, held |-> "creds"],
           to \in {"insert", "forget"} => h.moved
    PROVE  LoginInv'
<1>1. PICK r \in Request : Retask(t, r) /\ r.op = s.op /\ r.flow = s.flow /\ r.pc = to
  BY GoesTo DEF OnIt
<1>2. Knows(r)'
  BY <1>1 DEF OnIt, Knows, Brought
<1>3. Serves(r)'
  <2>1. s.op \in DOMAIN StepsOf /\ s.op \notin {"create", "update", "token", "import"}
    BY DEF OnIt, OnFlow, StepsOf
  <2> QED
    BY <1>1, <2>1 DEF OnIt, Serves
<1>4. RowsStep /\ Typed
  BY LoginParts, RowsSame DEF Typed
<1>5. OthersStay(r.flow, thread[t].flow)
  BY <1>1 DEF OnIt, OthersStay
<1> QED
  BY <1>1, <1>2, <1>3, <1>4, <1>5, LoginMoves DEF OnIt

LEMMA Moving ==
    ASSUME LoginInv, NEW t \in Threads, thread[t].pc \in {"aside", "move", "copy", "copied", "forget"}
    PROVE  \E s \in Request, f \in Flows, g \in FlowRecord :
             /\ OnIt(t, s, f, g) /\ s.op = "complete" /\ g.name \in Names /\ g.cli # "none"
             /\ s.pc = thread[t].pc
<1>1. PICK s \in Request, f \in Flows, g \in FlowRecord : OnIt(t, s, f, g)
  BY AtFlow DEF StepsOf, OnIt
<1> QED
  BY <1>1 DEF OnIt, Knows, FlowWhole, OnFlow, StepsOf

LEMMA MoveAsideStep ==
    ASSUME LoginInv, NEW t \in Threads, Login!MoveAside(t)
    PROVE  LoginInv'
<1>1. PICK s \in Request, f \in Flows, g \in FlowRecord :
             /\ OnIt(t, s, f, g) /\ s.op = "complete" /\ g.name \in Names /\ g.cli # "none" /\ s.pc = "aside"
  BY Moving DEF Login!MoveAside, Login!At
<1>2. PICK n \in Names : n = g.name /\ n = Login!Name(t)
  BY <1>1 DEF OnIt, Login!Name, Login!Of
<1>3. /\ FlowsStep /\ \A e \in Flows : SameFlow(flow[e], flow'[e])
      /\ aside' \subseteq Names
  <2>1. CASE UNCHANGED <<perm, aside, flow>>
    BY <2>1, NothingLater, LoginParts DEF SameFlow
  <2>2. CASE /\ perm' = [perm EXCEPT ![n] = Login!NoDir] /\ aside' = aside \union {n}
             /\ flow' = Login!Displaced(t, n)
    <3>1. perm' \in [Names -> Dir] /\ perm'[n].of = None /\ \A m \in Names : m # n => perm'[m] = perm[m]
      BY <2>2, UnbornRecord, LoginParts DEF Login!NoDir
    <3> QED
      BY <2>2, <3>1, Displaces, LoginParts DEF FlowsStep
  <2> QED
    BY <1>2, <2>1, <2>2 DEF Login!MoveAside
<1>4. PICK h \in FlowRecord : h = flow'[f] /\ (h = g \/ Later(g, h))
  BY <1>1, <1>3 DEF FlowsStep, OnIt
<1>5. h.cli # "none" /\ (h.fate = "none" => h.moved \/ h.dir \in {"none", "creds"})
  <2>1. g.fate = "none" => g.moved \/ g.dir \in {"none", "creds"}
    BY <1>1 DEF OnIt, Knows
  <2> QED
    BY <1>1, <1>4, <2>1 DEF Later
<1>6. /\ "move" \in StepsOf[s.op] /\ Login!Goto(t, "move")
      /\ UNCHANGED <<scenario, token, tokens, row>> /\ \A e \in Flows : e # f => SameFlow(flow[e], flow'[e])
  BY <1>1, <1>3 DEF Login!MoveAside, StepsOf
<1> QED
  BY <1>1, <1>3, <1>4, <1>5, <1>6, FlowWrites

\* The directory of a flow becomes the directory of its account.
LEMMA Installs ==
    ASSUME LoginInv, NEW t \in Threads, NEW s \in Request, NEW f \in Flows, NEW g \in FlowRecord,
           OnIt(t, s, f, g), s.op = "complete", s.pc \in {"move", "copy"}, g.name \in Names, g.cli # "none",
           NEW what \in Login!Held, perm' = [perm EXCEPT ![g.name] = [of |-> f, held |-> what]]
    PROVE  /\ perm' \in [Names -> Dir] /\ perm'[g.name] = [of |-> f, held |-> what]
           /\ \A m \in Names : m # g.name => perm'[m] = perm[m]
  BY LoginParts DEF Dir

LEMMA MoveStep ==
    ASSUME LoginInv, NEW t \in Threads, Login!Move(t)
    PROVE  LoginInv'
<1>1. PICK s \in Request, f \in Flows, g \in FlowRecord :
             /\ OnIt(t, s, f, g) /\ s.op = "complete" /\ g.name \in Names /\ g.cli # "none" /\ s.pc = "move"
  BY Moving DEF Login!Move, Login!At
<1>2. g.fate = "none" => g.moved \/ g.dir \in {"none", "creds"}
  BY <1>1 DEF OnIt, Knows
<1>3. ASSUME NEW to \in {"kill", "copy"}, Login!Goto(t, to), UNCHANGED <<perm, flow>> PROVE LoginInv'
  <2>1. to \in StepsOf[s.op] /\ GoingTo(f, g, to)
    BY <1>1, <1>2, <1>3 DEF StepsOf, GoingTo
  <2> QED
    BY <1>1, <1>3, <2>1, SameReflow, FlowGoes DEF OnIt, Login!Move, Login!Disk
<1>4. ASSUME ~Login!Gone(t), perm[Login!Name(t)].held \in {"none", "empty"}, perm' = Login!Installed(t),
             Login!Goto(t, "insert"),
             flow' = [flow EXCEPT ![thread[t].flow].dir = "none", ![thread[t].flow].moved = TRUE]
      PROVE  LoginInv'
  <2>1. /\ ~g.moved /\ g.dir # "none" /\ perm[g.name].held \in {"none", "empty"}
        /\ perm' = [perm EXCEPT ![g.name] = [of |-> f, held |-> g.dir]]
    BY <1>1, <1>4 DEF Login!Gone, Login!Of, Login!Name, Login!Installed, OnIt
  <2>2. PICK h : h = [g EXCEPT !.dir = "none", !.moved = TRUE]
    OBVIOUS
  <2>3. /\ h \in FlowRecord /\ h.dir = "none" /\ h.moved /\ h.cli = g.cli /\ h.name = g.name /\ h.fate = g.fate
    BY <2>2 DEF FlowRecord, Login!Held
  <2>4. Later(g, h)
    BY <1>1, <2>3 DEF Later
  <2>5. flow' = [flow EXCEPT ![f] = h]
    BY <1>1, <1>4, <2>2 DEF OnIt
  <2>6. flow' \in [Flows -> FlowRecord] /\ flow'[f] = h /\ \A e \in Flows : e # f => flow'[e] = flow[e]
    BY <2>3, <2>5, LoginParts
  <2>7. g.dir \in Login!Held
    BY DEF FlowRecord
  <2>8. /\ perm' \in [Names -> Dir] /\ perm'[g.name] = [of |-> f, held |-> g.dir]
        /\ \A m \in Names : m # g.name => perm'[m] = perm[m]
    BY <1>1, <2>1, <2>7, Installs
  <2>9. FlowsStep
    BY <1>1, <2>1, <2>3, <2>4, <2>6, <2>8 DEF FlowsStep, OnIt
  <2>10. h.fate = "none" => perm'[h.name] = [of |-> f, held |-> "creds"]
    BY <1>2, <2>1, <2>3, <2>8
  <2>11. /\ "insert" \in StepsOf[s.op] /\ \A e \in Flows : e # f => SameFlow(flow[e], flow'[e])
         /\ UNCHANGED <<scenario, token, tokens, row>> /\ aside' \subseteq Names
    BY <1>1, <2>6, LoginParts DEF Login!Move, StepsOf, SameFlow
  <2>12. Login!Goto(t, "insert") /\ OnIt(t, s, f, g) /\ h.cli # "none" /\ h.moved /\ h = flow'[f] /\ h \in FlowRecord
    BY <1>1, <1>4, <2>3, <2>6
  <2> QED
    BY <2>9, <2>10, <2>11, <2>12, FlowWrites
<1> QED
  BY <1>3, <1>4 DEF Login!Move

LEMMA CopyStep ==
    ASSUME LoginInv, NEW t \in Threads, Login!Copy(t)
    PROVE  LoginInv'
<1>1. PICK s \in Request, f \in Flows, g \in FlowRecord :
             /\ OnIt(t, s, f, g) /\ s.op = "complete" /\ g.name \in Names /\ g.cli # "none" /\ s.pc = "copy"
  BY Moving DEF Login!Copy, Login!At
<1>2. g.fate = "none" => g.moved \/ g.dir \in {"none", "creds"}
  BY <1>1 DEF OnIt, Knows
<1>3. ASSUME Login!Goto(t, "kill"), UNCHANGED <<perm, flow>> PROVE LoginInv'
  <2>1. "kill" \in StepsOf[s.op] /\ GoingTo(f, g, "kill")
    BY <1>1 DEF StepsOf, GoingTo
  <2> QED
    BY <1>1, <1>3, <2>1, SameReflow, FlowGoes DEF OnIt, Login!Copy, Login!Disk
<1>4. ASSUME ~Login!Gone(t), flow' = Login!Displaced(t, Login!Name(t)),
             NEW to, Login!Goto(t, to), NEW what \in Login!Held,
             (to = "copied" /\ what = g.dir) \/ to = "kill",
             perm' = [perm EXCEPT ![Login!Name(t)] = [of |-> thread[t].flow, held |-> what]]
      PROVE  LoginInv'
  <2>1. /\ ~g.moved /\ g.dir # "none" /\ flow' = Login!Displaced(t, g.name)
        /\ perm' = [perm EXCEPT ![g.name] = [of |-> f, held |-> what]]
    BY <1>1, <1>4 DEF Login!Gone, Login!Of, Login!Name, OnIt
  <2>2. /\ flow' \in [Flows -> FlowRecord]
        /\ \A e \in Flows : SameFlow(flow[e], flow'[e]) /\ (flow'[e] = flow[e] \/ Later(flow[e], flow'[e]))
        /\ \A e \in Flows : perm[g.name].of = e => flow'[e].fate # "none"
    BY <1>1, <2>1, Displaces
  <2>3. /\ perm' \in [Names -> Dir] /\ perm'[g.name] = [of |-> f, held |-> what]
        /\ \A m \in Names : m # g.name => perm'[m] = perm[m]
    BY <1>1, <2>1, Installs
  <2>4. PICK h \in FlowRecord : h = flow'[f] /\ (h = g \/ Later(g, h))
    BY <1>1, <2>2 DEF OnIt
  <2>5. h.cli # "none" /\ h.name = g.name /\ (h.fate = "none" => g.fate = "none")
    BY <1>1, <2>4 DEF Later
  <2>6. FlowsStep
    BY <1>1, <2>2, <2>3, <2>4, <2>5 DEF FlowsStep
  <2>7. to = "copied" /\ h.fate = "none" => perm'[h.name] = [of |-> f, held |-> "creds"]
    BY <1>2, <1>4, <2>1, <2>3, <2>5
  <2>8. to \in StepsOf[s.op] /\ to \in {"copied", "kill"}
    BY <1>1, <1>4 DEF StepsOf
  <2> QED
    BY <1>1, <1>4, <2>2, <2>4, <2>5, <2>6, <2>7, <2>8, FlowWrites, LoginParts DEF Login!Copy
<1>5. CASE Login!Gone(t)
  BY <1>3, <1>5 DEF Login!Copy
<1>6. CASE ~Login!Gone(t)
  <2>1. Login!Of(t).dir = g.dir /\ {g.dir, "empty"} \subseteq Login!Held
    BY <1>1 DEF OnIt, Login!Of, FlowRecord, Login!Held
  <2> QED
    BY <1>4, <1>6, <2>1 DEF Login!Copy, Login!Installed
<1> QED
  BY <1>5, <1>6

LEMMA CopiedStep ==
    ASSUME LoginInv, NEW t \in Threads, Login!Copied(t)
    PROVE  LoginInv'
<1>1. PICK s \in Request, f \in Flows, g \in FlowRecord :
             /\ OnIt(t, s, f, g) /\ s.op = "complete" /\ g.name \in Names /\ g.cli # "none" /\ s.pc = "copied"
  BY Moving DEF Login!Copied, Login!At
<1>2. PICK h : h = [g EXCEPT !.dir = "none", !.moved = TRUE]
  OBVIOUS
<1>3. /\ h \in FlowRecord /\ h.dir = "none" /\ h.moved /\ h.cli = g.cli /\ h.name = g.name /\ h.fate = g.fate
  BY <1>2 DEF FlowRecord, Login!Held
<1>4. Later(g, h)
  BY <1>1, <1>3 DEF Later
<1>5. Reflow(f, h)
  BY <1>1, <1>2 DEF OnIt, Reflow, Login!Copied
<1>6. GoingTo(f, h, "insert") /\ "insert" \in StepsOf[s.op]
  BY <1>1, <1>3 DEF OnIt, Knows, Brought, GoingTo, StepsOf
<1> QED
  BY <1>1, <1>3, <1>4, <1>5, <1>6, FlowGoes DEF Login!Copied

LEMMA ForgetStep ==
    ASSUME LoginInv, NEW t \in Threads, Login!Forget(t)
    PROVE  LoginInv'
<1>1. PICK s \in Request, f \in Flows, g \in FlowRecord :
             /\ OnIt(t, s, f, g) /\ s.op = "complete" /\ g.name \in Names /\ g.cli # "none" /\ s.pc = "forget"
  BY Moving DEF Login!Forget, Login!At
<1>2. PICK h : h = [g EXCEPT !.inMap = FALSE, !.cli = "dead", !.open = FALSE]
  OBVIOUS
<1>3. /\ h \in FlowRecord /\ h.dir = g.dir /\ h.moved = g.moved /\ h.cli = "dead" /\ h.name = g.name /\ h.fate = g.fate
  BY <1>2 DEF FlowRecord
<1>4. g.moved /\ g.dir = "none"
  BY <1>1 DEF OnIt, Knows, FlowWhole
<1>5. Later(g, h) /\ Settled(h)
  BY <1>1, <1>3, <1>4 DEF Later, Settled
<1>6. Reflow(f, h)
  BY <1>1, <1>2 DEF OnIt, Reflow, Login!Forget
<1> QED
  BY <1>1, <1>3, <1>5, <1>6, FlowEnds DEF Login!Forget

\* A flow is registered: the account is given its credentials.
LEMMA InsertStep ==
    ASSUME LoginInv, NEW t \in Threads, Login!Insert(t)
    PROVE  LoginInv'
<1>1. PICK s \in Request, f \in Flows, g \in FlowRecord : OnIt(t, s, f, g) /\ s.pc = "insert" /\ s.op = "complete"
  <2>1. thread[t].pc = "insert" /\ thread[t].op = "complete"
    BY DEF Login!Insert, Login!At
  <2> QED
    BY <2>1, AtFlow DEF OnIt, OnFlow
<1>2. g.cli # "none" /\ g.name \in Names /\ g.moved
  BY <1>1 DEF OnIt, Knows, FlowWhole
<1>3. g.fate = "none" => perm[g.name] = [of |-> f, held |-> "creds"]
  BY <1>1 DEF OnIt, Knows, Brought
<1>4. PICK r \in Request : Retask(t, r) /\ r.op = s.op /\ r.flow = s.flow /\ r.pc = "forget"
  BY <1>1, GoesTo DEF OnIt, StepsOf, Login!Insert
<1>5. UNCHANGED <<flow, perm>> /\ Typed
  BY LoginParts DEF Login!Insert, Typed
<1>6. RowsStep
  <2>1. CASE UNCHANGED row
    BY <2>1, RowsSame
  <2>2. CASE row[g.name] = None /\ row' = [row EXCEPT ![g.name] =
                        [from |-> f, file |-> FALSE, enabled |-> TRUE, wanted |-> TRUE]]
    <3>0. PICK w : w = [from |-> f, file |-> FALSE, enabled |-> TRUE, wanted |-> TRUE]
      OBVIOUS
    <3>1. w \in Login!Row /\ w.from = f
      BY <3>0 DEF Login!Row
    <3>2. /\ row' \in [Names -> Login!Row \union {None}] /\ row'[g.name] = w
          /\ \A n \in Names : n # g.name => row'[n] = row[n]
      BY <1>2, <2>2, <3>0, <3>1, LoginParts
    <3>3. flow'[f] = g /\ perm'[g.name] = perm[g.name]
      BY <1>1, <1>5 DEF OnIt
    <3>4. flow'[w.from].fate = "none" => perm'[g.name] = [of |-> w.from, held |-> "creds"]
      BY <1>3, <3>1, <3>3
    <3> QED
      BY <2>2, <3>1, <3>2, <3>4 DEF RowsStep
  <2> QED
    BY <1>1, <2>1, <2>2 DEF Login!Insert, Login!Name, Login!Of, OnIt
<1>7. Knows(r)' /\ Serves(r)'
  BY <1>1, <1>2, <1>4, <1>5 DEF OnIt, Knows, Serves, OnFlow, StepsOf
<1> QED
  BY <1>1, <1>4, <1>5, <1>6, <1>7, NothingLater, LoginMoves DEF OnIt

\* A request on an account.
LEMMA AccountGoes ==
    ASSUME LoginInv, NEW t \in Threads, thread[t].op \notin OnFlow, UNCHANGED <<flow, perm>>, Typed, RowsStep,
           NEW r \in Request, r.op \notin OnFlow, Serves(r)', Retask(t, r)
    PROVE  LoginInv'
<1>1. r.flow = None /\ r.pc # "mkdir"
  BY DEF Serves, OnFlow, StepsOf
<1>2. thread[t].flow \notin Flows
  BY LoginConstants DEF LoginInv, LoginThreads, Serves
<1> QED
  BY <1>1, <1>2, NothingLater, LoginMoves
LEMMA AtIdle ==
    ASSUME LoginInv, NEW t \in Threads, Login!At(t, "idle")
    PROVE  thread[t].op \notin OnFlow
  BY DEF Login!At, LoginInv, LoginThreads, Serves, OnFlow, StepsOf
LEMMA IdleServes == Login!Idle \in Request /\ Login!Idle.op \notin OnFlow /\ Serves(Login!Idle)'
  BY UnbornRecord DEF Login!Idle, OnFlow, Serves, StepsOf
LEMMA SameAccounts ==
    ASSUME LoginInv, UNCHANGED <<Login!Accounts, token, tokens>>
    PROVE  UNCHANGED <<flow, perm>> /\ Typed
  BY LoginParts DEF Typed, Login!Accounts

\* The steps of the requests on the accounts.
LEMMA CreateStep ==
    ASSUME LoginInv, NEW t \in Threads, NEW n \in Names, Login!Create(t, n)
    PROVE  LoginInv'
<1>1. PICK r : r = [Login!Idle EXCEPT !.op = "create", !.pc = "insert", !.flow = None, !.name = n]
  OBVIOUS
<1>2. r = [op |-> "create", pc |-> "insert", flow |-> None, name |-> n, read |-> None, todo |-> {}]
  BY <1>1 DEF Login!Idle
<1>3. r \in Request /\ r.op \notin OnFlow /\ Serves(r)'
  BY <1>2 DEF Request, Login!Operations, OnFlow, Serves, StepsOf
<1>4. Retask(t, r)
  BY <1>1 DEF Login!Create, Login!Serve, Retask
<1>5. UNCHANGED <<flow, perm, row>> /\ Typed
  <2>1. tokens' \in 0..MaxTokens /\ token' \in [Names -> 0..MaxTokens]
    <3>1. CASE UNCHANGED <<tokens, token>>
      BY <3>1, LoginParts
    <3>2. CASE tokens < MaxTokens /\ tokens' = tokens + 1 /\ token' = [token EXCEPT ![n] = tokens']
      <4>1. tokens' \in 0..MaxTokens
        BY <3>2, LoginParts, LoginConstants
      <4> QED
        BY <3>2, <4>1, LoginParts
    <3> QED
      BY <3>1, <3>2 DEF Login!Create
  <2> QED
    BY <2>1, LoginParts DEF Login!Create, Login!Accounts, Typed
<1> QED
  BY <1>3, <1>4, <1>5, AtIdle, RowsSame, AccountGoes DEF Login!Create, Login!Serve

LEMMA ImportBegins ==
    ASSUME LoginInv, NEW t \in Threads, Login!Import(t)
    PROVE  LoginInv'
<1>1. PICK r : r = [Login!Idle EXCEPT !.op = "import", !.pc = "scan", !.todo = {n \in Names : token[n] # 0}]
  OBVIOUS
<1>2. r = [op |-> "import", pc |-> "scan", flow |-> None, name |-> 0, read |-> None,
           todo |-> {n \in Names : token[n] # 0}]
  BY <1>1 DEF Login!Idle
<1>3. r \in Request /\ r.op \notin OnFlow /\ Serves(r)'
  BY <1>2 DEF Request, Login!Operations, OnFlow, Serves, StepsOf
<1>4. Retask(t, r)
  BY <1>1 DEF Login!Import, Retask
<1> QED
  BY <1>3, <1>4, AtIdle, SameAccounts, RowsSame, AccountGoes DEF Login!Import

LEMMA ImportGoesOn ==
    ASSUME LoginInv, NEW t \in Threads, Login!ImportNext(t)
    PROVE  LoginInv'
<1>1. PICK s \in Request : s = thread[t] /\ Serves(s) /\ s.pc = "scan" /\ s.op = "import"
  <2>1. PICK s \in Request : s = thread[t] /\ Serves(s)
    BY LoginParts DEF LoginInv, LoginThreads
  <2>2. s.pc = "scan"
    BY <2>1 DEF Login!ImportNext, Login!At
  <2> QED
    BY <2>1, <2>2 DEF Serves, StepsOf
<1>2. "import" \notin OnFlow /\ UNCHANGED <<flow, perm, row>> /\ Typed
  BY SameAccounts DEF OnFlow, Login!ImportNext
<1>3. CASE Login!Done(t)
  <2>1. Retask(t, Login!Idle)
    BY <1>3 DEF Login!Done, Retask
  <2> QED
    BY <1>1, <1>2, <2>1, IdleServes, RowsSame, AccountGoes
<1>4. ASSUME NEW n \in s.todo, NEW u, u = [s EXCEPT !.todo = @ \ {n}],
             NEW r, r = u \/ r = [u EXCEPT !.pc = "insert", !.name = n],
             Retask(t, r)
      PROVE  LoginInv'
  <2>1. n \in Names
    BY DEF Request
  <2>2. r \in Request /\ r.op = "import" /\ r.flow = s.flow
        /\ (r.pc = "scan" \/ (r.pc = "insert" /\ r.name \in Names))
    <3>1. u \in Request /\ u.op = "import" /\ u.flow = s.flow /\ u.pc = "scan"
      BY <1>1, <1>4 DEF Request
    <3> QED
      BY <1>4, <2>1, <3>1 DEF Request
  <2>3. Serves(r)'
    BY <1>1, <2>2 DEF Serves, OnFlow, StepsOf
  <2> QED
    BY <1>1, <1>2, <1>4, <2>2, <2>3, RowsSame, AccountGoes
<1>5. ASSUME NEW n \in s.todo, thread' = [thread EXCEPT ![t] =
                 IF row[n] = None THEN [[s EXCEPT !.todo = @ \ {n}] EXCEPT !.pc = "insert", !.name = n]
                 ELSE [s EXCEPT !.todo = @ \ {n}]]
      PROVE  LoginInv'
  <2>1. PICK u : u = [s EXCEPT !.todo = @ \ {n}]
    OBVIOUS
  <2>2. PICK r : r = IF row[n] = None THEN [u EXCEPT !.pc = "insert", !.name = n] ELSE u
    OBVIOUS
  <2>3. Retask(t, r)
    BY <1>5, <2>1, <2>2 DEF Retask
  <2> QED
    BY <1>4, <2>1, <2>2, <2>3
<1> QED
  BY <1>1, <1>3, <1>5 DEF Login!ImportNext

LEMMA InsertTokenStep ==
    ASSUME LoginInv, NEW t \in Threads, Login!InsertToken(t)
    PROVE  LoginInv'
<1>1. PICK s \in Request : s = thread[t] /\ Serves(s) /\ s.pc = "insert" /\ s.op \in {"create", "import"}
  BY LoginParts DEF LoginInv, LoginThreads, Login!InsertToken, Login!At
<1>2. PICK n \in Names : n = s.name /\ s.op \notin OnFlow
  BY <1>1 DEF Serves, OnFlow
<1>3. UNCHANGED <<flow, perm>> /\ Typed
  BY SameAccounts DEF Login!InsertToken
<1>4. RowsStep
  <2>1. CASE UNCHANGED row
    BY <2>1, RowsSame
  <2>2. ASSUME NEW enabled \in BOOLEAN, row[n] = None, row' = [row EXCEPT ![n] = Login!TokenRow(enabled)]
        PROVE  RowsStep
    <3>1. Login!TokenRow(enabled) \in Login!Row /\ Login!TokenRow(enabled).from = None
      BY DEF Login!TokenRow, Login!Row
    <3>2. /\ row' \in [Names -> Login!Row \union {None}] /\ row'[n] = Login!TokenRow(enabled)
          /\ \A m \in Names : m # n => row'[m] = row[m]
      BY <2>2, <3>1, LoginParts
    <3> QED
      BY <2>2, <3>1, <3>2 DEF RowsStep
  <2> QED
    BY <1>1, <1>2, <2>1, <2>2 DEF Login!InsertToken
<1>5. CASE Login!Done(t)
  <2>1. Retask(t, Login!Idle)
    BY <1>5 DEF Login!Done, Retask
  <2> QED
    BY <1>1, <1>2, <1>3, <1>4, <2>1, IdleServes, AccountGoes
<1>6. CASE s.op = "import" /\ Login!Goto(t, "scan")
  <2>1. PICK r : r = [s EXCEPT !.pc = "scan"]
    OBVIOUS
  <2>2. r \in Request /\ r.op = "import" /\ r.flow = s.flow /\ r.pc = "scan"
    BY <1>6, <2>1 DEF Request
  <2>3. Serves(r)' /\ r.op \notin OnFlow
    BY <1>1, <2>2 DEF Serves, OnFlow, StepsOf
  <2>4. Retask(t, r)
    BY <1>1, <1>6, <2>1 DEF Login!Goto, Retask
  <2> QED
    BY <1>1, <1>2, <1>3, <1>4, <2>2, <2>3, <2>4, AccountGoes
<1> QED
  BY <1>1, <1>5, <1>6 DEF Login!InsertToken

\* A request that first reads the row.
LEMMA ReadingStep ==
    ASSUME LoginInv, NEW t \in Threads, NEW n \in Names, Login!Update(t, n) \/ Login!SetToken(t, n)
    PROVE  LoginInv'
<1>1. PICK w \in Login!Row : w = row[n]
  BY LoginParts DEF Login!Update, Login!SetToken
<1>6. PICK op \in {"update", "token"} : thread' = [thread EXCEPT ![t] =
          [Login!Idle EXCEPT !.op = op, !.pc = "store", !.name = n, !.read = row[n]]]
  BY DEF Login!Update, Login!SetToken
<1>7. PICK r : r = [Login!Idle EXCEPT !.op = op, !.pc = "store", !.name = n, !.read = row[n]]
  OBVIOUS
<1>2. r = [op |-> op, pc |-> "store", flow |-> None, name |-> n, read |-> w, todo |-> {}] /\ Retask(t, r)
  BY <1>1, <1>6, <1>7 DEF Login!Idle, Retask
<1>3. r \in Request /\ r.op \notin OnFlow
  BY <1>2 DEF Request, Login!Operations, OnFlow
<1>4. Login!At(t, "idle") /\ UNCHANGED <<flow, perm, row>> /\ Typed
  BY SameAccounts DEF Login!Update, Login!SetToken
<1>5. Serves(r)'
  BY <1>1, <1>2, <1>4 DEF Serves, OnFlow, StepsOf
<1> QED
  BY <1>2, <1>3, <1>4, <1>5, AtIdle, RowsSame, AccountGoes

\* The fields of a row are replaced.
LEMMA RowReplaced ==
    ASSUME LoginInv, NEW n \in Names, row[n] \in Login!Row, NEW w \in Login!Row, w.from = row[n].from,
           NEW rows, rows = [row EXCEPT ![n] = w], row' = rows
    PROVE  RowsStep
<1>1. /\ row' \in [Names -> Login!Row \union {None}] /\ row'[n] = w
      /\ \A m \in Names : m # n => row'[m] = row[m]
  BY LoginParts
<1> QED
  BY <1>1 DEF RowsStep

LEMMA StoreRowStep ==
    ASSUME LoginInv, NEW t \in Threads, Login!StoreRow(t)
    PROVE  LoginInv'
<1>1. PICK s \in Request : s = thread[t] /\ Serves(s) /\ s.op = "update"
  BY LoginParts DEF LoginInv, LoginThreads, Login!StoreRow
<1>2. PICK n \in Names : n = s.name
  BY <1>1 DEF Serves
<1>3. RowsStep
  <2>1. CASE s.read = None
    BY <1>1, <2>1, RowsSame DEF Login!StoreRow
  <2>2. CASE s.read # None
    <3>1. row[n] \in Login!Row /\ s.read \in Login!Row
      BY <1>1, <1>2, <2>2 DEF Serves, Request
    <3>2. PICK w : w = [row[n] EXCEPT !.enabled = s.read.enabled]
      OBVIOUS
    <3>3. w \in Login!Row /\ w.from = row[n].from
      BY <3>1, <3>2 DEF Login!Row
    <3>4. row' = [row EXCEPT ![n] = w]
      BY <1>1, <1>2, <2>2, <3>2 DEF Login!StoreRow
    <3> QED
      BY <3>1, <3>3, <3>4, RowReplaced
  <2> QED
    BY <2>1, <2>2
<1>4. Retask(t, Login!Idle) /\ UNCHANGED <<flow, perm>> /\ Typed
  BY SameAccounts DEF Login!StoreRow, Login!Done, Retask
<1>5. thread[t].op \notin OnFlow
  BY <1>1 DEF OnFlow
<1> QED
  BY <1>3, <1>4, <1>5, IdleServes, AccountGoes

\* A token is written to its file, or over the credentials of an account of a flow.
LEMMA TokenWrittenStep ==
    ASSUME LoginInv, NEW t \in Threads, Login!WriteToken(t)
    PROVE  LoginInv'
<1>1. PICK s \in Request : s = thread[t] /\ Serves(s) /\ s.op = "token"
  <2>1. thread[t].op = "token"
    BY DEF Login!WriteToken
  <2> QED
    BY <2>1, LoginParts DEF LoginInv, LoginThreads
<1>2. PICK n \in Names : n = s.name /\ s.op \notin OnFlow /\ s.flow = None
  BY <1>1 DEF Serves, OnFlow
<1>3. Retask(t, Login!Idle) /\ RowsStep
  BY RowsSame DEF Login!WriteToken, Login!Done, Retask
<1>4. CASE tokens < MaxTokens /\ tokens' = tokens + 1 /\ token' = [token EXCEPT ![n] = tokens']
           /\ UNCHANGED <<perm, flow>>
  <2>1. tokens' \in 0..MaxTokens
    BY <1>4, LoginParts, LoginConstants
  <2>2. token' \in [Names -> 0..MaxTokens]
    BY <1>4, <2>1, LoginParts
  <2>3. Typed
    BY <2>1, <2>2, LoginParts DEF Typed, Login!WriteToken
  <2> QED
    BY <1>1, <1>2, <1>3, <1>4, <2>3, IdleServes, AccountGoes
<1>5. CASE /\ perm' = [perm EXCEPT ![n] = [of |-> None, held |-> "creds"]]
           /\ flow' = Login!Displaced(t, n) /\ UNCHANGED <<tokens, token>>
  <2>1. [of |-> None, held |-> "creds"] \in Dir
    BY DEF Dir, Login!Held
  <2>2. /\ perm' \in [Names -> Dir] /\ perm'[n].of = None
        /\ \A m \in Names : m # n => perm'[m] = perm[m]
    BY <1>5, <2>1, LoginParts
  <2>3. /\ flow' \in [Flows -> FlowRecord]
        /\ \A e \in Flows : SameFlow(flow[e], flow'[e]) /\ (flow'[e] = flow[e] \/ Later(flow[e], flow'[e]))
        /\ \A e \in Flows : perm[n].of = e => flow'[e].fate # "none"
    BY <1>5, Displaces
  <2>4. FlowsStep
    BY <2>2, <2>3 DEF FlowsStep
  <2>5. OthersStay(Login!Idle.flow, thread[t].flow)
    BY <2>3 DEF OthersStay
  <2>6. Typed
    BY <1>5, LoginParts DEF Typed, Login!WriteToken
  <2>7. thread[t].flow \notin Flows /\ Login!Idle.pc # "mkdir"
    BY <1>1, <1>2, LoginConstants DEF Login!Idle
  <2> QED
    BY <1>3, <2>4, <2>5, <2>6, <2>7, IdleServes, LoginMoves
<1> QED
  BY <1>1, <1>2, <1>4, <1>5 DEF Login!WriteToken

\* A step of which no request is the author.
LEMMA StandsStill ==
    ASSUME LoginInv, UNCHANGED thread, FlowsStep, RowsStep, Typed,
           \A f \in Flows : Settled(flow[f]) => Settled(flow'[f])
    PROVE  LoginInv'
<1>1. Login!TypeOK'
  BY LoginParts DEF FlowsStep, RowsStep, Typed, Login!TypeOK, Request, FlowRecord, Dir
<1>2. LoginThreads'
  <2> SUFFICES ASSUME NEW u \in Threads
               PROVE  Serves(thread[u])' /\ (thread[u].op \in OnFlow => Knows(thread[u]))'
    BY DEF LoginThreads
  <2>1. PICK r \in Request : r = thread[u] /\ r = thread'[u]
    BY LoginParts
  <2>2. Serves(r) /\ (r.op \in OnFlow => Knows(r))
    BY <2>1 DEF LoginInv, LoginThreads
  <2>3. Serves(r)'
    BY <2>2, LoginConstants DEF Serves, RowsStep
  <2>4. r.op \in OnFlow => Knows(r)'
    BY <2>2, KnownLater
  <2> QED
    BY <2>1, <2>3, <2>4
<1>3. LoginAlone'
  BY DEF LoginInv, LoginAlone
<1>4. LoginFlows' /\ LoginOwners' /\ Login!CredentialsKept'
  BY FlowsWholeLater, OwnersLater, KeptLater
<1>5. Login!FlowLeavesNothing'
  <2> SUFFICES ASSUME NEW f \in Flows, \A u \in Threads : thread[u].flow # f PROVE Settled(flow'[f])
    BY DEF Login!FlowLeavesNothing, Settled
  <2> QED
    BY SettledLeft DEF LoginInv
<1> QED
  BY <1>1, <1>2, <1>3, <1>4, <1>5 DEF LoginInv

LEMMA CLIStep ==
    ASSUME LoginInv, NEW f \in Flows, Login!CLIWrites(f) \/ Login!CLIExits(f)
    PROVE  LoginInv'
<1>1. PICK g \in FlowRecord : g = flow[f] /\ FlowWhole(g) /\ g.cli = "runs"
  BY LoginParts DEF LoginInv, LoginFlows, Login!CLIWrites, Login!CLIExits
<1>2. PICK h : /\ flow' = [flow EXCEPT ![f] = h] /\ h \in FlowRecord
               /\ Later(g, h) /\ (Settled(g) => Settled(h))
  <2>1. CASE Login!CLIWrites(f)
    <3>1. g.dir \in {"empty", "touched"}
      BY <1>1, <2>1 DEF Login!CLIWrites
    <3>2. PICK to \in {"touched", "creds"} : to = IF g.dir = "empty" THEN "touched" ELSE "creds"
      OBVIOUS
    <3>3. PICK h : h = [g EXCEPT !.dir = to]
      OBVIOUS
    <3>4. /\ h \in FlowRecord /\ h.dir = to /\ h.cli = g.cli /\ h.name = g.name /\ h.fate = g.fate /\ h.moved = g.moved
          /\ h.inMap = g.inMap
      BY <3>3 DEF FlowRecord, Login!Held
    <3>5. Later(g, h) /\ (Settled(g) => Settled(h))
      BY <1>1, <3>1, <3>2, <3>4 DEF Later, Settled, FlowWhole, Login!Unborn
    <3>6. flow' = [flow EXCEPT ![f] = h]
      BY <1>1, <2>1, <3>2, <3>3 DEF Login!CLIWrites
    <3> QED
      BY <3>4, <3>5, <3>6
  <2>2. CASE Login!CLIExits(f)
    <3>1. PICK h : h = [g EXCEPT !.cli = "exited"]
      OBVIOUS
    <3>2. /\ h \in FlowRecord /\ h.cli = "exited" /\ h.dir = g.dir /\ h.name = g.name /\ h.fate = g.fate
          /\ h.moved = g.moved /\ h.inMap = g.inMap
      BY <3>1 DEF FlowRecord
    <3>3. Later(g, h) /\ (Settled(g) => Settled(h))
      BY <1>1, <3>2 DEF Later, Settled, FlowWhole, Login!Unborn
    <3>4. flow' = [flow EXCEPT ![f] = h]
      BY <1>1, <2>2, <3>1 DEF Login!CLIExits
    <3> QED
      BY <3>2, <3>3, <3>4
  <2> QED
    BY <2>1, <2>2
<1>3. flow' \in [Flows -> FlowRecord] /\ flow'[f] = h /\ \A e \in Flows : e # f => flow'[e] = flow[e]
  BY <1>2, LoginParts
<1>4. UNCHANGED <<thread, perm, row>> /\ Typed
  BY LoginParts DEF Login!CLIWrites, Login!CLIExits, Login!Disk, Typed
<1>5. FlowsStep
  BY <1>1, <1>2, <1>3, <1>4, LoginParts DEF FlowsStep
<1>6. \A e \in Flows : Settled(flow[e]) => Settled(flow'[e])
  BY <1>1, <1>2, <1>3
<1> QED
  BY <1>4, <1>5, <1>6, RowsSame, StandsStill

LEMMA ToggleStep ==
    ASSUME LoginInv, NEW n \in Names, NEW enabled \in BOOLEAN, Login!Toggle(n, enabled)
    PROVE  LoginInv'
<1>1. row[n] \in Login!Row
  BY LoginParts DEF Login!Toggle
<1>2. PICK w : w = [row[n] EXCEPT !.enabled = enabled, !.wanted = enabled]
  OBVIOUS
<1>3. w \in Login!Row /\ w.from = row[n].from
  BY <1>1, <1>2 DEF Login!Row
<1>4. row' = [row EXCEPT ![n] = w]
  BY <1>2 DEF Login!Toggle
<1>5. RowsStep
  BY <1>1, <1>3, <1>4, RowReplaced
<1>6. UNCHANGED <<thread, flow, perm>> /\ Typed
  BY SameAccounts DEF Login!Toggle
<1> QED
  BY <1>5, <1>6, NothingLater, StandsStill

LEMMA NextSecondStep ==
    ASSUME LoginInv, Login!NextSecond
    PROVE  LoginInv'
<1>1. UNCHANGED <<thread, flow, perm, row>> /\ Typed
  BY LoginParts DEF Login!NextSecond, Typed
<1> QED
  BY <1>1, NothingLater, RowsSame, StandsStill

LEMMA DeleteStep ==
    ASSUME LoginInv, NEW n \in Names, Login!Delete(n)
    PROVE  LoginInv'
<1>1. UNCHANGED <<flow, perm>> /\ Typed
  BY SameAccounts DEF Login!Delete
<1>2. row' \in [Names -> Login!Row \union {None}] /\ row'[n] = None /\ \A m \in Names : m # n => row'[m] = row[m]
  BY LoginParts DEF Login!Delete
<1>3. ASSUME NEW u \in Threads
      PROVE  /\ thread'[u] \in Request /\ (Serves(thread[u]) /\ (thread[u].op \in OnFlow => Knows(thread[u])))'
             /\ thread'[u].flow = thread[u].flow /\ thread'[u].pc = thread[u].pc
  <2>1. PICK s \in Request : s = thread[u] /\ Serves(s) /\ (s.op \in OnFlow => Knows(s))
    BY LoginParts DEF LoginInv, LoginThreads
  <2>2. CASE s.op = "update" /\ s.name = n
    <3>1. PICK r : r = [s EXCEPT !.read = None]
      OBVIOUS
    <3>2. thread'[u] = r
      BY <2>1, <2>2, <3>1 DEF Login!Delete
    <3>3. r \in Request /\ r.op = "update" /\ r.pc = s.pc /\ r.flow = s.flow /\ r.name = s.name /\ r.read = None
      BY <2>2, <3>1 DEF Request
    <3>4. Serves(r)' /\ r.op \notin OnFlow
      BY <2>1, <2>2, <3>3 DEF Serves, OnFlow
    <3> QED
      BY <2>1, <3>2, <3>3, <3>4
  <2>3. CASE ~(s.op = "update" /\ s.name = n)
    <3>1. thread'[u] = s
      BY <2>1, <2>3 DEF Login!Delete
    <3>2. Serves(s)'
      BY <1>2, <2>1, <2>3 DEF Serves
    <3>3. s.op \in OnFlow => Knows(s)'
      BY <1>1, <2>1 DEF Knows, Brought
    <3> QED
      BY <2>1, <3>1, <3>2, <3>3
  <2> QED
    BY <2>2, <2>3
<1>4. Login!TypeOK'
  <2>1. thread' \in [Threads -> Request]
    BY <1>3 DEF Login!Delete
  <2> QED
    BY <1>1, <1>2, <2>1, LoginParts DEF Login!TypeOK, Typed, Request, FlowRecord, Dir
<1>5. LoginThreads'
  BY <1>3 DEF LoginThreads
<1>6. LoginAlone' /\ Login!FlowLeavesNothing'
  BY <1>1, <1>3 DEF LoginInv, LoginAlone, Login!FlowLeavesNothing
<1>7. LoginFlows' /\ LoginOwners'
  BY <1>1 DEF LoginInv, LoginFlows, LoginOwners
<1>8. Login!CredentialsKept'
  BY <1>1, <1>2 DEF LoginInv, Login!CredentialsKept
<1> QED
  BY <1>4, <1>5, <1>6, <1>7, <1>8 DEF LoginInv

\* The requests and the command lines go with the gateway, the directories and the table stay.
LEMMA LoginRestart ==
    ASSUME LoginInv, Login!Restart
    PROVE  LoginInv'
<1>1. UNCHANGED <<perm, row>> /\ Typed
  BY LoginParts DEF Login!Restart, Login!Disk, Typed
<1>2. \A u \in Threads : thread'[u] = Login!Idle
  BY DEF Login!Restart
<1>3. ASSUME NEW f \in Flows
      PROVE  /\ flow'[f] \in FlowRecord /\ FlowWhole(flow'[f]) /\ Settled(flow'[f])
             /\ (flow'[f].cli = "none") <=> (flow[f].cli = "none")
             /\ flow'[f].fate = "none" => flow[f].fate = "none"
  <2>1. PICK g \in FlowRecord : g = flow[f] /\ FlowWhole(g)
    BY LoginParts DEF LoginInv, LoginFlows
  <2>2. CASE g = Login!Unborn
    <3>1. flow'[f] = g
      BY <2>1, <2>2 DEF Login!Restart
    <3> QED
      BY <2>1, <2>2, <3>1 DEF Settled
  <2>3. CASE g # Login!Unborn
    <3>1. PICK h : h = [g EXCEPT !.inMap = FALSE, !.open = FALSE, !.cli = "dead",
                             !.fate = IF g.moved THEN g.fate ELSE "lost"]
      OBVIOUS
    <3>2. flow'[f] = h
      BY <2>1, <2>3, <3>1 DEF Login!Restart
    <3>3. /\ h \in FlowRecord /\ h.cli = "dead" /\ h.name = g.name /\ h.moved = g.moved /\ h.dir = g.dir
          /\ IF g.moved THEN h.fate = g.fate ELSE h.fate = "lost"
      BY <3>1 DEF FlowRecord
    <3> QED
      BY <2>1, <2>3, <3>2, <3>3 DEF FlowWhole, Settled
  <2> QED
    BY <2>2, <2>3
<1>4. Login!TypeOK'
  <2>1. thread' \in [Threads -> Request] /\ flow' \in [Flows -> FlowRecord]
    BY <1>3, UnbornRecord DEF Login!Restart
  <2> QED
    BY <1>1, <2>1, LoginParts DEF Login!TypeOK, Typed, Request, FlowRecord, Dir
<1>5. LoginThreads' /\ LoginAlone'
  BY <1>2, IdleServes DEF LoginThreads, LoginAlone, Login!Idle
<1>6. LoginFlows' /\ Login!FlowLeavesNothing'
  BY <1>3 DEF LoginFlows, Login!FlowLeavesNothing, Settled
<1>7. LoginOwners'
  BY <1>1, <1>3, LoginParts DEF LoginInv, LoginOwners, Dir
<1>8. Login!CredentialsKept'
  <2> SUFFICES ASSUME NEW m \in Names, row[m] # None, row[m].from # None, flow'[row[m].from].fate = "none"
               PROVE  perm[m] = [of |-> row[m].from, held |-> "creds"]
    BY <1>1 DEF Login!CredentialsKept
  <2>1. row[m].from \in Flows
    BY LoginParts DEF Login!Row
  <2> QED
    BY <1>3, <2>1 DEF LoginInv, Login!CredentialsKept
<1> QED
  BY <1>4, <1>5, <1>6, <1>7, <1>8 DEF LoginInv

LEMMA LoginStep ==
    ASSUME LoginInv, Login!Next \/ UNCHANGED Login!vars
    PROVE  LoginInv'
<1>1. ASSUME NEW t \in Threads, Login!Serving(t) PROVE LoginInv'
  BY <1>1, StartStep, ClaimStep, SpawnStep, ReadURLStep, PublishFlowStep, CleanupStep, WriteCodeStep,
     MoveAsideStep, MoveStep, CopyStep, CopiedStep, InsertStep, ForgetStep, CreateStep, ReadingStep,
     ImportBegins, ImportGoesOn, InsertTokenStep, StoreRowStep, TokenWrittenStep DEF Login!Serving
<1>2. CASE UNCHANGED Login!vars
  <2>1. UNCHANGED <<thread, flow, perm, row>> /\ Typed
    BY <1>2, LoginParts DEF Login!vars, Typed
  <2> QED
    BY <2>1, NothingLater, RowsSame, StandsStill
<1> QED
  BY <1>1, <1>2, CLIStep, DeleteStep, ToggleStep, NextSecondStep, LoginRestart DEF Login!Next

\* A sign-in that is over has left nothing, and the credentials it brought are where its account
\* looks for them until another sign-in, a token or another Complete of the same flow moves them
\* aside, for any number of flows, accounts and requests (claude_accounts_oauth.go:41-43, 342-459).
THEOREM SignInsCleanHolds == Spec => []SignInsClean
<1> DEFINE Inv == lane = "Login" => LoginInv
<1>1. Init => Inv
  BY LoginStart, LoginInitial
<1>2. Inv /\ [Next]_vars => Inv'
  <2> SUFFICES ASSUME Inv, [Next]_vars, lane' = "Login" PROVE LoginInv'
    OBVIOUS
  <2>1. lane = "Login" /\ (Login!Next \/ UNCHANGED Login!vars)
    BY LoginLane
  <2> QED
    BY <2>1, LoginStep
<1>3. Inv => SignInsClean
  BY DEF SignInsClean, LoginInv
<1> HIDE DEF Inv
<1> QED
  BY <1>1, <1>2, <1>3, PTL DEF Spec

-----------------------------------------------------------------------------
(* The mux of a sidecar.                                                    *)

LEMMA MuxStart == Init /\ lane = "Mux" => Mux!Init
  BY DEF Init
LEMMA MuxLane ==
    ASSUME [Next]_vars, lane' = "Mux"
    PROVE  lane = "Mux" /\ (Mux!Next \/ UNCHANGED Mux!vars)
<1>1. CASE Next
  BY <1>1 DEF Next
<1>2. CASE UNCHANGED vars
  BY <1>2 DEF vars, muxVars, Mux!vars
<1> QED
  BY <1>1, <1>2
LEMMA MuxConstants ==
    /\ Calls \intersect Requests = {} /\ None \notin Calls \union Requests
    /\ Calls \intersect {"off", "run", "lock", "header", "body", "ended"} = {}
    /\ StdinRoom \in Nat \ {0, 1} /\ StdoutRoom \in Nat \ {0} /\ NotifyRoom \in Nat /\ MaxNotes \in Nat
  BY SurfacesAssumption DEF Mux!SidecarMuxAssumption

\* Who writes, the halves of frames in the pipe, and what an answer is.
Parties == Calls \union Requests
Halves == Parties \X {"header", "body"}
CallRecord == [pc : {"off", "lock", "header", "body", "sent", "wait", "ended"},
               id : Nat, late : BOOLEAN, end : Mux!Ends, from : Calls \union {None}]
Outcome == [end : {"ok", "closed"}, from : Calls \union {None}]
HandlerPlaces == Calls \union {"off", "run", "lock", "header", "body", "ended"}
Process == [pc : {"idle", "serve", "ask", "stalled", "dead"}, at : Calls \union {None}, todo : Seq(Calls)]
HostTyped ==
    /\ call \in [Calls -> CallRecord] /\ nextID \in Nat /\ pending \in [1..nextID -> Calls \union {None}]
    /\ answer \in [Calls -> {<<>>} \union {<<a>> : a \in Outcome}]
    /\ writer \in Parties \union {None} /\ handler \in [Requests -> HandlerPlaces]
PipesTyped ==
    /\ stdin \in Seq(Halves) /\ Len(stdin) <= StdinRoom /\ sidecar \in Process
    /\ stdout \in Seq(Mux!Frames) /\ Len(stdout) <= StdoutRoom
RestTyped ==
    /\ scenario \in MuxScenarios /\ stdinOpen \in BOOLEAN /\ done \in BOOLEAN /\ cancelled \in BOOLEAN
    /\ reader \in {"read", "close", "ended"} /\ notes \in 0..NotifyRoom /\ sent \in 0..MaxNotes

Begun(k) == call[k].pc # "off"
\* A number is given to one call, which finds its entry as long as the mux is open.
MuxIds ==
    /\ \A k \in Calls : Begun(k) => call[k].id \in 1..nextID
    /\ \A j, k \in Calls : Begun(j) /\ Begun(k) /\ call[j].id = call[k].id => j = k
    /\ \A id \in 1..nextID : pending[id] # None => Begun(pending[id]) /\ call[pending[id]].id = id
    /\ \A k \in Calls : Begun(k) /\ call[k].pc # "ended" /\ ~done => pending[call[k].id] = k
\* What is on its way has been asked for, and an answer bears the number of its call.
Answers(f) ==
    /\ f.kind = "response" => f.from \in Calls /\ Begun(f.from) /\ f.id = call[f.from].id
    /\ f.kind = "request" => f.from \in Requests
StdinBegun == \A i \in DOMAIN stdin : stdin[i][1] \in Calls => Begun(stdin[i][1])
SidecarBegun ==
    /\ sidecar.pc \in {"serve", "ask"} => sidecar.at \in Calls /\ Begun(sidecar.at)
    /\ sidecar.pc \notin {"serve", "ask"} => sidecar.at = None /\ sidecar.todo = <<>>
    /\ \A i \in DOMAIN sidecar.todo : Begun(sidecar.todo[i])
StdoutAnswers == \A i \in DOMAIN stdout : Answers(stdout[i])
OwnAnswers ==
    /\ \A k \in Calls : answer[k] # <<>> /\ answer[k][1].end = "ok" => answer[k][1].from = k
    /\ \A k \in Calls : call[k].end = "ok" => call[k].from = k
MuxOwn == StdinBegun /\ SidecarBegun /\ StdoutAnswers /\ OwnAnswers
\* Whoever holds the lock writes; its header is the last half frame in the pipe until its body is.
Paired == \A i \in DOMAIN stdin : IF i % 2 = 1 THEN stdin[i][2] = "header"
                                  ELSE stdin[i] = <<stdin[i - 1][1], "body">>
Open == Mux!Alive /\ stdinOpen
MuxPipe ==
    /\ Paired
    /\ \A x \in Parties : Mux!At(x) \in {"header", "body"} <=> x = writer
    /\ Open /\ Len(stdin) % 2 = 1 => writer # None /\ stdin[Len(stdin)] = <<writer, "header">> /\ Mux!At(writer) = "body"
    /\ Open /\ Len(stdin) % 2 = 0 /\ writer # None => Mux!At(writer) = "header"
\* What the sidecar asks it asks once, and the goroutine comes after.
Asked ==
    /\ \A i \in DOMAIN stdout : stdout[i].kind = "request" => handler[stdout[i].from] = "off"
    /\ \A i, j \in DOMAIN stdout : stdout[i].kind = "request" /\ stdout[j].kind = "request"
                                  /\ stdout[i].from = stdout[j].from => i = j
\* Where the request of a call is, and what a sidecar waits for.
Lies(s, e) == \E i \in DOMAIN s : s[i] = e
Response(k) == \E i \in DOMAIN stdout : stdout[i].kind = "response" /\ stdout[i].from = k
Asks(r) == \E i \in DOMAIN stdout : stdout[i].kind = "request" /\ stdout[i].from = r
Underway(k) == Lies(stdin, <<k, "body">>) \/ sidecar.at = k \/ Lies(sidecar.todo, k) \/ Response(k)
Serving(r) == Asks(r) \/ handler[r] \in Calls \union {"run", "lock", "header", "body"} \/ Lies(stdin, <<r, "body">>)
MuxServes ==
    /\ (reader = "read" => ~done) /\ (reader = "ended" => done)
    /\ reader = "read" /\ sidecar.pc \notin {"stalled", "dead"} =>
          \A k \in Calls : call[k].pc \in {"sent", "wait"} /\ answer[k] = <<>> => Underway(k)
    /\ reader = "read" /\ sidecar.pc = "ask" /\ stdinOpen => \E r \in Requests : Serving(r)
MuxInv == HostTyped /\ PipesTyped /\ RestTyped /\ MuxIds /\ MuxOwn /\ MuxPipe /\ Asked /\ MuxServes

LEMMA MuxInvInit ==
    ASSUME Mux!Init
    PROVE  MuxInv
<1>1. HostTyped
  <2>1. [pc |-> "off", id |-> 0, late |-> FALSE, end |-> "none", from |-> None] \in CallRecord
    BY DEF CallRecord, Mux!Ends
  <2>2. call \in [Calls -> CallRecord] /\ answer \in [Calls -> {<<>>} \union {<<a>> : a \in Outcome}]
    BY <2>1 DEF Mux!Init
  <2>3. handler \in [Requests -> HandlerPlaces]
    BY DEF Mux!Init, HandlerPlaces
  <2>4. nextID = 0 /\ pending = <<>> /\ writer = None
    BY DEF Mux!Init
  <2>5. pending \in [1..nextID -> Calls \union {None}]
    BY <2>4
  <2> QED
    BY <2>2, <2>3, <2>4, <2>5 DEF HostTyped
<1>2. PipesTyped
  BY MuxConstants DEF Mux!Init, PipesTyped, Process
<1>3. RestTyped
  <2>1. 0 \in 0..NotifyRoom /\ 0 \in 0..MaxNotes
    BY MuxConstants
  <2>2. notes \in 0..NotifyRoom /\ sent \in 0..MaxNotes
    BY <2>1 DEF Mux!Init
  <2>3. scenario \in MuxScenarios /\ stdinOpen = TRUE /\ done = FALSE /\ cancelled = FALSE /\ reader = "read"
    BY DEF Mux!Init
  <2> QED
    BY <2>2, <2>3 DEF RestTyped
<1>4. MuxIds
  BY DEF Mux!Init, MuxIds, Begun
<1>5. MuxOwn
  BY DEF Mux!Init, MuxOwn, StdinBegun, SidecarBegun, StdoutAnswers, OwnAnswers
<1>6. MuxPipe
  BY MuxConstants DEF Mux!Init, MuxPipe, Paired, Mux!At, Parties
<1>7. Asked
  BY DEF Mux!Init, Asked
<1>8. MuxServes
  BY DEF Mux!Init, MuxServes
<1> QED
  BY <1>1, <1>2, <1>3, <1>4, <1>5, <1>6, <1>7, <1>8 DEF MuxInv

\* Sequences that grow and shrink.
LEMMA Appended ==
    ASSUME NEW S, NEW s \in Seq(S), NEW e \in S
    PROVE  /\ Append(s, e) \in Seq(S) /\ Len(Append(s, e)) = Len(s) + 1
           /\ \A i \in 1..Len(s) : Append(s, e)[i] = s[i]
           /\ Append(s, e)[Len(s) + 1] = e
  OBVIOUS
LEMMA Shifted ==
    ASSUME NEW S, NEW s \in Seq(S), s # <<>>
    PROVE  /\ Tail(s) \in Seq(S) /\ Len(Tail(s)) = Len(s) - 1 /\ Head(s) = s[1] /\ Len(s) > 0
           /\ \A i \in 1..Len(s) - 1 : Tail(s)[i] = s[i + 1]
  OBVIOUS
LEMMA ShiftedTwice ==
    ASSUME NEW S, NEW s \in Seq(S), Len(s) > 1
    PROVE  /\ SubSeq(s, 3, Len(s)) \in Seq(S) /\ Len(SubSeq(s, 3, Len(s))) = Len(s) - 2
           /\ Head(s) = s[1]
           /\ \A i \in 1..Len(s) - 2 : SubSeq(s, 3, Len(s))[i] = s[i + 2]
<1>1. PICK t : t = SubSeq(s, 3, Len(s))
  OBVIOUS
<1>2. Len(s) \in Nat /\ Len(s) - 2 \in Nat /\ Head(s) = s[1]
  OBVIOUS
<1>3. t = [i \in 1..Len(s) - 2 |-> s[i + 2]]
  BY <1>1
<1>4. \A i \in 1..Len(s) - 2 : t[i] = s[i + 2] /\ s[i + 2] \in S
  BY <1>2, <1>3
<1>5. t \in Seq(S) /\ Len(t) = Len(s) - 2
  BY <1>2, <1>3, <1>4
<1> QED
  BY <1>1, <1>2, <1>4, <1>5

\* A call begins, returns, or goes on; so does a handler.
Place(k, p) == call' = [call EXCEPT ![k].pc = p]
Rest(k) == \A j \in Calls \ {k} : call'[j] = call[j]
LEMMA Placed ==
    ASSUME HostTyped, NEW k \in Calls, NEW p \in {"header", "body", "sent", "wait", "ended"}, Place(k, p)
    PROVE  /\ call' \in [Calls -> CallRecord] /\ Rest(k)
           /\ call'[k].pc = p /\ call'[k].id = call[k].id /\ call'[k].late = call[k].late
           /\ call'[k].end = call[k].end /\ call'[k].from = call[k].from
<1>1. call \in [Calls -> CallRecord] /\ call[k] \in CallRecord
  BY DEF HostTyped
<1>2. PICK d : d = [call[k] EXCEPT !.pc = p]
  OBVIOUS
<1>3. /\ d \in CallRecord /\ d.pc = p /\ d.id = call[k].id /\ d.late = call[k].late
      /\ d.end = call[k].end /\ d.from = call[k].from
  BY <1>1, <1>2 DEF CallRecord
<1>4. call' = [call EXCEPT ![k] = d]
  BY <1>1, <1>2 DEF Place
<1> QED
  BY <1>1, <1>3, <1>4 DEF Rest
LEMMA BeginMoves ==
    ASSUME HostTyped, NEW k \in Calls, Mux!Begin(k)
    PROVE  /\ call' \in [Calls -> CallRecord] /\ Rest(k) /\ call[k].pc = "off"
           /\ call'[k].pc = "lock" /\ call'[k].id = nextID' /\ call'[k].end = call[k].end
           /\ call'[k].from = call[k].from /\ nextID' = nextID + 1 /\ nextID \in Nat
           /\ pending' \in [1..nextID' -> Calls \union {None}] /\ pending'[nextID'] = k
           /\ \A id \in 1..nextID : pending'[id] = pending[id]
<1>1. call \in [Calls -> CallRecord] /\ call[k] \in CallRecord /\ nextID' = nextID + 1 /\ nextID \in Nat
      /\ pending \in [1..nextID -> Calls \union {None}] /\ call[k].pc = "off"
  BY DEF HostTyped, Mux!Begin
<1>2. PICK n \in Nat : n = nextID + 1
  BY <1>1
<1>3. PICK d : d = [call[k] EXCEPT !.pc = "lock", !.id = n]
  OBVIOUS
<1>4. /\ d \in CallRecord /\ d.pc = "lock" /\ d.id = n /\ d.end = call[k].end /\ d.from = call[k].from
  BY <1>1, <1>2, <1>3 DEF CallRecord
<1>5. call' = [call EXCEPT ![k] = d]
  BY <1>1, <1>2, <1>3 DEF Mux!Begin
<1>6. call' \in [Calls -> CallRecord] /\ Rest(k) /\ call'[k] = d
  BY <1>1, <1>4, <1>5 DEF Rest
<1>7. pending' = [id \in 1..n |-> IF id = n THEN k ELSE IF id \in DOMAIN pending THEN pending[id] ELSE None]
  BY <1>1, <1>2 DEF Mux!Begin
<1>8. \A id \in 1..nextID : id \in DOMAIN pending /\ id # n /\ id \in 1..n
  BY <1>1, <1>2
<1>9. /\ pending' \in [1..n -> Calls \union {None}] /\ pending'[n] = k
      /\ \A id \in 1..nextID : pending'[id] = pending[id]
  BY <1>1, <1>2, <1>7, <1>8
<1> QED
  BY <1>1, <1>2, <1>4, <1>6, <1>9
LEMMA ReturnMoves ==
    ASSUME HostTyped, NEW k \in Calls, NEW e \in Mux!Ends, NEW f \in Calls \union {None}, Mux!Return(k, e, f)
    PROVE  /\ call' \in [Calls -> CallRecord] /\ Rest(k)
           /\ call'[k].pc = "ended" /\ call'[k].id = call[k].id /\ call'[k].end = e /\ call'[k].from = f
           /\ pending' \in [1..nextID -> Calls \union {None}]
           /\ \A id \in 1..nextID : pending'[id] = IF id = call[k].id THEN None ELSE pending[id]
<1>1. call \in [Calls -> CallRecord] /\ call[k] \in CallRecord /\ pending \in [1..nextID -> Calls \union {None}]
  BY DEF HostTyped
<1>2. PICK d : d = [call[k] EXCEPT !.pc = "ended", !.end = e, !.from = f]
  OBVIOUS
<1>3. d \in CallRecord /\ d.pc = "ended" /\ d.id = call[k].id /\ d.end = e /\ d.from = f
  BY <1>1, <1>2 DEF CallRecord
<1>4. call' = [call EXCEPT ![k] = d]
  BY <1>1, <1>2 DEF Mux!Return
<1>5. call' \in [Calls -> CallRecord] /\ Rest(k) /\ call'[k] = d
  BY <1>1, <1>3, <1>4 DEF Rest
<1>6. pending' = [id \in 1..nextID |-> IF id = call[k].id THEN None ELSE pending[id]]
  BY <1>1 DEF Mux!Return, Mux!Forgotten
<1> QED
  BY <1>1, <1>3, <1>5, <1>6
LEMMA GoesMoves ==
    ASSUME HostTyped, NEW x \in Parties, NEW p \in {"header", "body", "sent", "ended"}, Mux!Goes(x, p)
    PROVE  /\ call' \in [Calls -> CallRecord]
           /\ x \in Calls => Place(x, p) /\ handler' = handler
           /\ x \notin Calls => /\ call' = call /\ handler'[x] = p /\ x \in Requests
                               /\ \A r \in Requests \ {x} : handler'[r] = handler[r]
<1>1. CASE x \in Calls
  <2>1. Place(x, p) /\ handler' = handler
    BY <1>1 DEF Mux!Goes, Place
  <2> QED
    BY <1>1, <2>1, Placed DEF HostTyped
<1>2. CASE x \notin Calls
  <2>1. x \in Requests /\ call' = call /\ handler' = [handler EXCEPT ![x] = p]
    BY <1>2 DEF Mux!Goes, Parties
  <2> QED
    BY <1>2, <2>1 DEF HostTyped, HandlerPlaces
<1> QED
  BY <1>1, <1>2
LEMMA CancelMoves ==
    ASSUME HostTyped, NEW k \in Calls, Mux!Cancel(k)
    PROVE  /\ call' \in [Calls -> CallRecord] /\ Rest(k)
           /\ call'[k].pc = call[k].pc /\ call'[k].id = call[k].id
           /\ call'[k].end = call[k].end /\ call'[k].from = call[k].from
<1>1. call \in [Calls -> CallRecord] /\ call[k] \in CallRecord
  BY DEF HostTyped
<1>2. PICK d : d = [call[k] EXCEPT !.late = TRUE]
  OBVIOUS
<1>3. /\ d \in CallRecord /\ d.pc = call[k].pc /\ d.id = call[k].id
      /\ d.end = call[k].end /\ d.from = call[k].from
  BY <1>1, <1>2 DEF CallRecord
<1>4. call' = [call EXCEPT ![k] = d]
  BY <1>1, <1>2 DEF Mux!Cancel
<1> QED
  BY <1>1, <1>3, <1>4 DEF Rest
LEMMA OneAnswer ==
    ASSUME HostTyped, NEW k \in Calls, answer[k] # <<>>
    PROVE  answer[k][1] \in Outcome /\ answer[k] = <<answer[k][1]>>
<1>1. PICK a \in Outcome : answer[k] = <<a>>
  BY DEF HostTyped
<1> QED
  BY <1>1

LEMMA HostStep ==
    ASSUME MuxInv, Mux!Next
    PROVE  HostTyped'
<1> USE DEF MuxInv
<1>1. HostTyped
  OBVIOUS
<1>2. ASSUME NEW k \in Calls, Mux!Call(k) PROVE HostTyped'
  BY <1>1, <1>2, BeginMoves DEF Mux!Call, HostTyped
<1>3. ASSUME NEW k \in Calls, Mux!Cancel(k) \/ Mux!Wait(k) PROVE HostTyped'
  <2>1. CASE Mux!Cancel(k)
    BY <1>1, <2>1, CancelMoves DEF Mux!Cancel, HostTyped
  <2>2. CASE Mux!Wait(k)
    <3>1. Place(k, "wait")
      BY <2>2 DEF Mux!Wait, Place
    <3> QED
      BY <1>1, <2>2, <3>1, Placed DEF Mux!Wait, HostTyped
  <2> QED
    BY <1>3, <2>1, <2>2
<1>4. ASSUME NEW k \in Calls, Mux!Select(k) PROVE HostTyped'
  <2>1. PICK e \in Mux!Ends, f \in Calls \union {None} : Mux!Return(k, e, f)
    BY <1>1, <1>4, OneAnswer DEF Mux!Select, Mux!Ends, Outcome
  <2> QED
    BY <1>1, <1>4, <2>1, ReturnMoves DEF Mux!Select, HostTyped
<1>5. ASSUME NEW x \in Parties, Mux!Acquire(x) PROVE HostTyped'
  <2>1. Mux!Goes(x, "header") /\ writer' = x /\ UNCHANGED <<nextID, pending, answer>>
    BY <1>5 DEF Mux!Acquire
  <2>2. handler' \in [Requests -> HandlerPlaces]
    <3>1. CASE x \in Calls
      BY <1>1, <2>1, <3>1, GoesMoves DEF HostTyped
    <3>2. CASE x \notin Calls
      BY <1>1, <2>1, <3>2 DEF HostTyped, Mux!Goes, HandlerPlaces
    <3> QED
      BY <3>1, <3>2
  <2>3. call' \in [Calls -> CallRecord]
    BY <1>1, <2>1, GoesMoves
  <2> QED
    BY <1>1, <2>1, <2>2, <2>3 DEF HostTyped
<1>6. ASSUME NEW x \in Parties, Mux!Write(x) PROVE HostTyped'
  <2>1. PICK p \in {"header", "body", "sent", "ended"} : Mux!Goes(x, p) /\ (x \notin Calls => p # "sent")
    BY <1>6 DEF Mux!Write
  <2>2. writer' \in Parties \union {None} /\ UNCHANGED <<nextID, pending, answer>>
    BY <1>1, <1>6 DEF Mux!Write, HostTyped
  <2>3. handler' \in [Requests -> HandlerPlaces]
    <3>1. CASE x \in Calls
      BY <1>1, <2>1, <3>1, GoesMoves DEF HostTyped
    <3>2. CASE x \notin Calls
      BY <1>1, <2>1, <3>2 DEF HostTyped, Mux!Goes, HandlerPlaces
    <3> QED
      BY <3>1, <3>2
  <2>4. call' \in [Calls -> CallRecord]
    BY <1>1, <2>1, GoesMoves
  <2> QED
    BY <1>1, <2>2, <2>3, <2>4 DEF HostTyped
<1>7. ASSUME NEW x \in Parties, Mux!WriteFails(x) PROVE HostTyped'
  <2>1. CASE x \in Calls
    BY <1>1, <1>7, <2>1, ReturnMoves DEF Mux!WriteFails, HostTyped, Mux!Ends
  <2>2. CASE x \notin Calls
    BY <1>1, <1>7, <2>2 DEF Mux!WriteFails, HostTyped, HandlerPlaces, Parties
  <2> QED
    BY <2>1, <2>2
<1>8. CASE Mux!ReadFrame
  <2> DEFINE f == Head(stdout)
  <2>1. f \in Mux!Frames /\ (f.kind = "request" => f.from \in Requests) /\ (f.kind = "response" => f.from \in Calls)
    BY <1>8, Shifted DEF Mux!ReadFrame, PipesTyped, MuxOwn, StdoutAnswers, Answers
  <2>2. UNCHANGED <<call, nextID, pending, writer>>
    BY <1>8 DEF Mux!ReadFrame
  <2>3. handler' \in [Requests -> HandlerPlaces]
    BY <1>1, <1>8, <2>1 DEF Mux!ReadFrame, HostTyped, HandlerPlaces
  <2>4. CASE f.kind = "response"
    <3>1. Mux!Deliver(f.id, f.from) /\ f.from \in Calls
      BY <1>8, <2>1, <2>4 DEF Mux!ReadFrame
    <3>2. [end |-> "ok", from |-> f.from] \in Outcome
      BY <3>1 DEF Outcome
    <3>3. answer' \in [Calls -> {<<>>} \union {<<a>> : a \in Outcome}]
      BY <1>1, <3>1, <3>2 DEF Mux!Deliver, HostTyped
    <3> QED
      BY <1>1, <2>2, <2>3, <3>3 DEF HostTyped
  <2>5. CASE f.kind # "response"
    <3>1. answer' = answer
      BY <1>8, <2>5 DEF Mux!ReadFrame
    <3> QED
      BY <1>1, <2>2, <2>3, <3>1 DEF HostTyped
  <2> QED
    BY <2>4, <2>5
<1>9. CASE Mux!CloseAll
  <2>1. [end |-> "closed", from |-> None] \in Outcome
    BY DEF Outcome
  <2>2. answer' \in [Calls -> {<<>>} \union {<<a>> : a \in Outcome}]
    BY <1>1, <1>9, <2>1 DEF Mux!CloseAll, HostTyped
  <2>3. pending' \in [1..nextID -> Calls \union {None}]
    BY <1>1, <1>9 DEF Mux!CloseAll, HostTyped
  <2> QED
    BY <1>1, <1>9, <2>2, <2>3 DEF Mux!CloseAll, HostTyped
<1>10. ASSUME NEW r \in Requests, Mux!Handle(r) PROVE HostTyped'
  <2>1. CASE UNCHANGED call
    BY <1>1, <1>10, <2>1, BeginMoves DEF Mux!Handle, HostTyped, HandlerPlaces
  <2>2. CASE ~UNCHANGED call
    <3>1. PICK k \in Calls : Mux!Begin(k) /\ handler' = [handler EXCEPT ![r] = k]
      BY <1>10, <2>2 DEF Mux!Handle
    <3> QED
      BY <1>1, <1>10, <3>1, BeginMoves DEF Mux!Handle, HostTyped, HandlerPlaces
  <2> QED
    BY <2>1, <2>2
<1>11. ASSUME NEW r \in Requests, Mux!HandledNested(r) PROVE HostTyped'
  BY <1>1, <1>11 DEF Mux!HandledNested, HostTyped, HandlerPlaces
<1>12. ASSUME UNCHANGED <<call, nextID, pending, answer, writer, handler>> PROVE HostTyped'
  BY <1>1, <1>12 DEF HostTyped
<1>13. ASSUME \/ Mux!ReadEnds \/ Mux!SidecarReads \/ Mux!SidecarAnswers \/ Mux!SidecarSays \/ Mux!SidecarStalls
              \/ Mux!Exit \/ Mux!WaitCloses \/ Mux!Shutdown \/ Mux!Listen \/ \E r \in Requests : Mux!SidecarAsks(r)
       PROVE  HostTyped'
  BY <1>12, <1>13 DEF Mux!ReadEnds, Mux!SidecarReads, Mux!SidecarAnswers, Mux!SidecarSays, Mux!SidecarStalls,
       Mux!Exit, Mux!WaitCloses, Mux!Shutdown, Mux!Listen, Mux!SidecarAsks, Mux!HostUnchanged
<1> QED
  BY <1>2, <1>3, <1>4, <1>5, <1>6, <1>7, <1>8, <1>9, <1>10, <1>11, <1>13 DEF Mux!Next, Parties

\* What the sidecar reads and what it says.
LEMMA ReadsHead ==
    ASSUME PipesTyped, StdinBegun, Len(stdin) > 1
    PROVE  /\ SubSeq(stdin, 3, Len(stdin)) \in Seq(Halves)
           /\ Len(SubSeq(stdin, 3, Len(stdin))) = Len(stdin) - 2
           /\ Head(stdin) = stdin[1] /\ stdin[1][1] \in Parties
           /\ stdin[1][1] \in Calls => Begun(stdin[1][1])
           /\ \A i \in 1..Len(stdin) - 2 : SubSeq(stdin, 3, Len(stdin))[i] = stdin[i + 2]
<1>1. stdin \in Seq(Halves)
  BY DEF PipesTyped
<1>2. 1 \in DOMAIN stdin /\ stdin[1] \in Halves
  BY <1>1
<1>3. stdin[1][1] \in Parties
  BY <1>2 DEF Halves
<1> QED
  BY <1>1, <1>2, <1>3, ShiftedTwice DEF StdinBegun
LEMMA ProcessBecomes ==
    ASSUME NEW p \in {"idle", "serve", "ask", "stalled", "dead"}, NEW k \in Calls \union {None},
           NEW s \in Seq(Calls), Mux!Sidecar(p, k, s)
    PROVE  sidecar' \in Process /\ sidecar'.pc = p /\ sidecar'.at = k /\ sidecar'.todo = s
  BY DEF Mux!Sidecar, Process

LEMMA PipesStep ==
    ASSUME MuxInv, Mux!Next
    PROVE  PipesTyped'
<1> USE DEF MuxInv
<1>1. /\ PipesTyped /\ HostTyped
      /\ stdin \in Seq(Halves) /\ Len(stdin) <= StdinRoom /\ stdout \in Seq(Mux!Frames) /\ Len(stdout) <= StdoutRoom
      /\ sidecar \in Process /\ sidecar.at \in Calls \union {None} /\ sidecar.todo \in Seq(Calls)
      /\ sidecar.pc \in {"idle", "serve", "ask", "stalled", "dead"}
  BY DEF PipesTyped, Process
<1>2. StdinRoom \in Nat /\ StdoutRoom \in Nat /\ Len(stdin) \in Nat /\ Len(stdout) \in Nat
  BY <1>1, MuxConstants
<1>3. ASSUME NEW x \in Parties, Mux!Write(x) PROVE PipesTyped'
  <2>1. <<x, Mux!At(x)>> \in Halves
    BY <1>3 DEF Mux!Write, Halves
  <2>2. stdin' = Append(stdin, <<x, Mux!At(x)>>) /\ Len(stdin) < StdinRoom /\ UNCHANGED <<sidecar, stdout>>
    BY <1>3 DEF Mux!Write
  <2>3. stdin' \in Seq(Halves) /\ Len(stdin') = Len(stdin) + 1
    BY <1>1, <2>1, <2>2, Appended
  <2> QED
    BY <1>1, <1>2, <2>2, <2>3 DEF PipesTyped
<1>4. ASSUME Mux!ReadFrame PROVE PipesTyped'
  <2>1. stdout' = Tail(stdout) /\ stdout # <<>> /\ UNCHANGED <<stdin, sidecar>>
    BY <1>4 DEF Mux!ReadFrame
  <2>2. stdout' \in Seq(Mux!Frames) /\ Len(stdout') = Len(stdout) - 1
    BY <1>1, <2>1, Shifted
  <2> QED
    BY <1>1, <1>2, <2>1, <2>2 DEF PipesTyped
<1>5. ASSUME Mux!SidecarReads PROVE PipesTyped'
  <2>1. Len(stdin) > 1 /\ stdin' = SubSeq(stdin, 3, Len(stdin)) /\ stdout' = stdout
    BY <1>5 DEF Mux!SidecarReads
  <2>2. stdin' \in Seq(Halves) /\ Len(stdin') = Len(stdin) - 2 /\ Head(stdin)[1] \in Parties
    BY <1>1, <2>1, ReadsHead DEF MuxOwn
  <2>3. PICK x \in Parties : x = Head(stdin)[1]
    BY <2>2
  <2>4. \/ x \in Calls /\ sidecar.pc = "idle" /\ Mux!Sidecar("serve", x, <<>>)
        \/ x \in Calls /\ sidecar.pc = "ask" /\ Mux!Sidecar("ask", sidecar.at, Append(sidecar.todo, x))
        \/ x \in Requests /\ Mux!Sidecar("serve", sidecar.at, sidecar.todo)
        \/ x \in Requests /\ Mux!Sidecar("idle", sidecar.at, sidecar.todo)
    BY <1>5, <2>3 DEF Mux!SidecarReads
  <2>5. <<>> \in Seq(Calls) /\ (x \in Calls => Append(sidecar.todo, x) \in Seq(Calls))
    BY <1>1
  <2>6. sidecar' \in Process
    BY <1>1, <2>4, <2>5, ProcessBecomes
  <2> QED
    BY <1>1, <1>2, <2>1, <2>2, <2>6 DEF PipesTyped
<1>6. ASSUME Mux!SidecarAnswers PROVE PipesTyped'
  <2>1. /\ stdout' = Append(stdout, Mux!Frame("response", call[sidecar.at].id, sidecar.at))
        /\ Len(stdout) < StdoutRoom /\ stdin' = stdin /\ sidecar.pc = "serve"
    BY <1>6 DEF Mux!SidecarAnswers
  <2>2. sidecar.at \in Calls
    BY <2>1 DEF MuxOwn, SidecarBegun
  <2>3. Mux!Frame("response", call[sidecar.at].id, sidecar.at) \in Mux!Frames
    BY <1>1, <2>2 DEF Mux!Frame, Mux!Frames, HostTyped, CallRecord
  <2>4. stdout' \in Seq(Mux!Frames) /\ Len(stdout') = Len(stdout) + 1
    BY <1>1, <2>1, <2>3, Appended
  <2>5. <<>> \in Seq(Calls) /\ (sidecar.todo # <<>> => Head(sidecar.todo) \in Calls /\ Tail(sidecar.todo) \in Seq(Calls))
    BY <1>1
  <2>6. sidecar' \in Process
    BY <1>6, <2>5, ProcessBecomes DEF Mux!SidecarAnswers
  <2> QED
    BY <1>1, <1>2, <2>1, <2>4, <2>6 DEF PipesTyped
<1>7. ASSUME NEW r \in Requests, Mux!SidecarAsks(r) PROVE PipesTyped'
  <2>1. /\ stdout' = Append(stdout, Mux!Frame("request", 0, r)) /\ Len(stdout) < StdoutRoom /\ stdin' = stdin
        /\ Mux!Sidecar("ask", sidecar.at, sidecar.todo)
    BY <1>7 DEF Mux!SidecarAsks
  <2>2. Mux!Frame("request", 0, r) \in Mux!Frames
    BY DEF Mux!Frame, Mux!Frames
  <2>3. stdout' \in Seq(Mux!Frames) /\ Len(stdout') = Len(stdout) + 1
    BY <1>1, <2>1, <2>2, Appended
  <2>4. sidecar' \in Process
    BY <1>1, <2>1, ProcessBecomes
  <2> QED
    BY <1>1, <1>2, <2>1, <2>3, <2>4 DEF PipesTyped
<1>8. ASSUME Mux!SidecarSays PROVE PipesTyped'
  <2>1. PICK m \in {"note", "garbage", "oversize"} : stdout' = Append(stdout, Mux!Frame(m, 0, None))
    BY <1>8 DEF Mux!SidecarSays
  <2>2. Mux!Frame(m, 0, None) \in Mux!Frames
    BY DEF Mux!Frame, Mux!Frames
  <2>3. stdout' \in Seq(Mux!Frames) /\ Len(stdout') = Len(stdout) + 1
    BY <1>1, <2>1, <2>2, Appended
  <2> QED
    BY <1>1, <1>2, <1>8, <2>3 DEF PipesTyped, Mux!SidecarSays
<1>9. ASSUME Mux!SidecarStalls \/ Mux!Exit \/ Mux!WaitCloses PROVE PipesTyped'
  <2>1. stdin' = stdin /\ (stdout' = stdout \/ stdout' = <<>>) /\ <<>> \in Seq(Mux!Frames) /\ Len(<<>>) = 0
    BY <1>9 DEF Mux!SidecarStalls, Mux!Exit, Mux!WaitCloses
  <2>2. None \in Calls \union {None} /\ <<>> \in Seq(Calls)
    OBVIOUS
  <2>3. sidecar' \in Process
    BY <1>1, <1>9, <2>2, ProcessBecomes DEF Mux!SidecarStalls, Mux!Exit, Mux!WaitCloses
  <2>4. stdout' \in Seq(Mux!Frames) /\ Len(stdout') <= StdoutRoom
    <3>1. CASE stdout' = stdout
      BY <1>1, <3>1
    <3>2. CASE stdout' = <<>>
      BY <1>2, <2>1, <3>2
    <3> QED
      BY <2>1, <3>1, <3>2
  <2>5. stdin' \in Seq(Halves) /\ Len(stdin') <= StdinRoom
    BY <1>1, <2>1
  <2> QED
    BY <2>3, <2>4, <2>5 DEF PipesTyped
<1>10. ASSUME UNCHANGED <<stdin, sidecar, stdout>> PROVE PipesTyped'
  BY <1>1, <1>10 DEF PipesTyped
<1>11. ASSUME \/ \E k \in Calls : Mux!Call(k) \/ Mux!Cancel(k) \/ Mux!Wait(k) \/ Mux!Select(k)
              \/ \E x \in Parties : Mux!Acquire(x) \/ Mux!WriteFails(x)
              \/ Mux!ReadEnds \/ Mux!CloseAll \/ Mux!Shutdown \/ Mux!Listen
              \/ \E r \in Requests : Mux!Handle(r) \/ Mux!HandledNested(r)
       PROVE  PipesTyped'
  BY <1>10, <1>11 DEF Mux!Call, Mux!Cancel, Mux!Wait, Mux!Select, Mux!Acquire, Mux!WriteFails, Mux!ReadEnds,
       Mux!CloseAll, Mux!Shutdown, Mux!Listen, Mux!Handle, Mux!HandledNested
<1> QED
  BY <1>3, <1>4, <1>5, <1>6, <1>7, <1>8, <1>9, <1>11 DEF Mux!Next, Parties

LEMMA RestStep ==
    ASSUME MuxInv, Mux!Next
    PROVE  RestTyped'
<1>1. RestTyped
  BY DEF MuxInv
<1>2. scenario' = scenario
  BY DEF Mux!Next, Mux!Call, Mux!Cancel, Mux!Wait, Mux!Select, Mux!Acquire, Mux!Write, Mux!WriteFails, Mux!ReadFrame,
       Mux!ReadEnds, Mux!CloseAll, Mux!Handle, Mux!HandledNested, Mux!SidecarAsks, Mux!SidecarReads, Mux!SidecarAnswers,
       Mux!SidecarSays, Mux!SidecarStalls, Mux!Exit, Mux!WaitCloses, Mux!Shutdown, Mux!Listen, Mux!HostUnchanged
<1>3. ASSUME Mux!ReadFrame PROVE RestTyped'
  <2>1. reader' \in {"read", "close"} /\ notes' \in {notes, notes + 1} /\ (notes' # notes => notes < NotifyRoom)
        /\ UNCHANGED <<stdinOpen, done, cancelled, sent>>
    BY <1>3 DEF Mux!ReadFrame
  <2> QED
    BY <1>1, <1>2, <2>1, MuxConstants DEF RestTyped
<1>4. ASSUME Mux!Listen \/ Mux!SidecarSays PROVE RestTyped'
  <2>1. UNCHANGED <<reader, stdinOpen, done, cancelled>>
    BY <1>4 DEF Mux!Listen, Mux!SidecarSays, Mux!HostUnchanged
  <2>2. notes' \in 0..NotifyRoom /\ sent' \in 0..MaxNotes
    BY <1>1, <1>4, MuxConstants DEF Mux!Listen, Mux!SidecarSays, Mux!HostUnchanged, RestTyped
  <2> QED
    BY <1>1, <1>2, <2>1, <2>2 DEF RestTyped
<1>5. ASSUME Mux!ReadEnds \/ Mux!CloseAll \/ Mux!Shutdown PROVE RestTyped'
  <2>1. UNCHANGED <<notes, sent>>
    BY <1>5 DEF Mux!ReadEnds, Mux!CloseAll, Mux!Shutdown
  <2>2. reader' \in {"read", "close", "ended"}
    BY <1>1, <1>5 DEF Mux!ReadEnds, Mux!CloseAll, Mux!Shutdown, RestTyped
  <2>3. (done' = done \/ done' = TRUE) /\ (cancelled' = cancelled \/ cancelled' = TRUE)
        /\ (stdinOpen' = stdinOpen \/ stdinOpen' = FALSE)
    BY <1>5, Zenon DEF Mux!ReadEnds, Mux!CloseAll, Mux!Shutdown
  <2> QED
    BY <1>1, <1>2, <2>1, <2>2, <2>3 DEF RestTyped
<1>6. ASSUME UNCHANGED <<stdinOpen, done, cancelled, reader, notes, sent>> PROVE RestTyped'
  BY <1>1, <1>2, <1>6 DEF RestTyped
<1>7. ASSUME \/ \E k \in Calls : Mux!Call(k) \/ Mux!Cancel(k) \/ Mux!Wait(k) \/ Mux!Select(k)
             \/ \E x \in Parties : Mux!Acquire(x) \/ Mux!Write(x) \/ Mux!WriteFails(x)
             \/ \E r \in Requests : Mux!Handle(r) \/ Mux!HandledNested(r) \/ Mux!SidecarAsks(r)
             \/ Mux!SidecarReads \/ Mux!SidecarAnswers \/ Mux!SidecarStalls \/ Mux!Exit \/ Mux!WaitCloses
      PROVE  RestTyped'
  BY <1>6, <1>7 DEF Mux!Call, Mux!Cancel, Mux!Wait, Mux!Select, Mux!Acquire, Mux!Write, Mux!WriteFails, Mux!Handle,
       Mux!HandledNested, Mux!SidecarAsks, Mux!SidecarReads, Mux!SidecarAnswers, Mux!SidecarStalls, Mux!Exit,
       Mux!WaitCloses, Mux!HostUnchanged
<1> QED
  BY <1>3, <1>4, <1>5, <1>7 DEF Mux!Next, Parties

\* Calls keep their numbers, and what has ended stays so.
Same(k) ==
    /\ call'[k].id = call[k].id /\ (call'[k].pc = "off" <=> call[k].pc = "off")
    /\ call[k].pc = "ended" => call'[k].pc = "ended"
LEMMA IdsKept ==
    ASSUME MuxInv, UNCHANGED nextID, \A k \in Calls : Same(k), done => done',
           \A id \in 1..nextID :
              \/ pending'[id] = pending[id]
              \/ pending'[id] = None /\ (done' \/ \A j \in Calls : Begun(j) /\ call[j].id = id => call'[j].pc = "ended")
    PROVE  MuxIds'
<1>1. /\ \A k \in Calls : Begun(k) => call[k].id \in 1..nextID
      /\ \A j, k \in Calls : Begun(j) /\ Begun(k) /\ call[j].id = call[k].id => j = k
      /\ \A id \in 1..nextID : pending[id] # None => Begun(pending[id]) /\ call[pending[id]].id = id
      /\ \A k \in Calls : Begun(k) /\ call[k].pc # "ended" /\ ~done => pending[call[k].id] = k
      /\ \A id \in 1..nextID : pending[id] \in Calls \union {None}
  BY DEF MuxInv, MuxIds, HostTyped
<1>2. \A k \in Calls : Begun(k)' <=> Begun(k)
  BY DEF Begun, Same
<1>3. \A k \in Calls : call'[k].id = call[k].id
  BY DEF Same
<1>4. (\A k \in Calls : Begun(k) => call[k].id \in 1..nextID)'
  BY <1>1, <1>2, <1>3
<1>5. (\A j, k \in Calls : Begun(j) /\ Begun(k) /\ call[j].id = call[k].id => j = k)'
  BY <1>1, <1>2, <1>3
<1>6. ASSUME NEW id \in 1..nextID, pending'[id] # None
      PROVE  call'[pending'[id]].pc # "off" /\ call'[pending'[id]].id = id
  <2>1. pending'[id] = pending[id] /\ pending[id] \in Calls
    BY <1>1, <1>6
  <2>2. Begun(pending[id]) /\ call[pending[id]].id = id
    BY <1>1, <1>6, <2>1
  <2>3. Begun(pending[id])' /\ call'[pending[id]].id = id
    BY <1>2, <1>3, <2>1, <2>2
  <2> QED
    BY <2>1, <2>3 DEF Begun
<1>7. ASSUME NEW k \in Calls, Begun(k)', call'[k].pc # "ended", ~done'
      PROVE  pending'[call'[k].id] = k
  <2>1. Begun(k) /\ call[k].pc # "ended" /\ ~done /\ call'[k].id = call[k].id
    BY <1>2, <1>3, <1>7 DEF Same
  <2>2. pending[call[k].id] = k /\ call[k].id \in 1..nextID
    BY <1>1, <2>1
  <2> QED
    BY <1>7, <2>1, <2>2
<1>8. (\A id \in 1..nextID : pending[id] # None => Begun(pending[id]) /\ call[pending[id]].id = id)'
  BY <1>6 DEF Begun
<1>9. (\A k \in Calls : Begun(k) /\ call[k].pc # "ended" /\ ~done => pending[call[k].id] = k)'
  BY <1>7 DEF Begun
<1> QED
  BY <1>4, <1>5, <1>8, <1>9, Zenon DEF MuxIds
LEMMA BeginIds ==
    ASSUME MuxInv, NEW k \in Calls, Mux!Begin(k), UNCHANGED done
    PROVE  MuxIds'
<1>1. /\ \A j \in Calls : Begun(j) => call[j].id \in 1..nextID
      /\ \A i, j \in Calls : Begun(i) /\ Begun(j) /\ call[i].id = call[j].id => i = j
      /\ \A id \in 1..nextID : pending[id] # None => Begun(pending[id]) /\ call[pending[id]].id = id
      /\ \A j \in Calls : Begun(j) /\ call[j].pc # "ended" /\ ~done => pending[call[j].id] = j
      /\ \A id \in 1..nextID : pending[id] \in Calls \union {None}
  BY DEF MuxInv, MuxIds, HostTyped
<1>2. /\ \A j \in Calls \ {k} : call'[j] = call[j]
      /\ call[k].pc = "off" /\ call'[k].pc = "lock" /\ call'[k].id = nextID + 1 /\ nextID' = nextID + 1 /\ nextID \in Nat
      /\ pending'[nextID + 1] = k
      /\ \A id \in 1..nextID : pending'[id] = pending[id]
  BY BeginMoves DEF MuxInv, Rest
<1>3. Begun(k)' /\ ~Begun(k) /\ \A j \in Calls \ {k} : Begun(j)' <=> Begun(j)
  BY <1>2 DEF Begun
<1>4. (\A j \in Calls : Begun(j) => call[j].id \in 1..nextID)'
  BY <1>1, <1>2, <1>3
<1>5. (\A i, j \in Calls : Begun(i) /\ Begun(j) /\ call[i].id = call[j].id => i = j)'
  <2> SUFFICES ASSUME NEW i \in Calls, NEW j \in Calls, Begun(i)', Begun(j)', call'[i].id = call'[j].id PROVE i = j
    OBVIOUS
  <2>1. \A h \in Calls \ {k} : Begun(h)' => call'[h].id \in 1..nextID
    BY <1>1, <1>2, <1>3
  <2> QED
    BY <1>1, <1>2, <1>3, <2>1
<1>6. ASSUME NEW id \in 1..nextID', pending'[id] # None
      PROVE  call'[pending'[id]].pc # "off" /\ call'[pending'[id]].id = id
  <2>1. CASE id = nextID + 1
    BY <1>2, <1>3, <2>1 DEF Begun
  <2>2. CASE id # nextID + 1
    <3>1. id \in 1..nextID
      BY <1>2, <2>2
    <3>2. pending'[id] = pending[id] /\ pending[id] \in Calls /\ Begun(pending[id]) /\ call[pending[id]].id = id
      BY <1>1, <1>2, <1>6, <3>1
    <3>3. pending[id] # k
      BY <1>3, <3>2
    <3> QED
      BY <1>2, <3>2, <3>3 DEF Begun
  <2> QED
    BY <2>1, <2>2
<1>7. ASSUME NEW j \in Calls, Begun(j)', call'[j].pc # "ended", ~done'
      PROVE  pending'[call'[j].id] = j
  <2>1. CASE j = k
    BY <1>2, <2>1
  <2>2. CASE j # k
    <3>1. call'[j] = call[j] /\ Begun(j) /\ call[j].id \in 1..nextID /\ pending[call[j].id] = j
      BY <1>1, <1>2, <1>3, <1>7, <2>2
    <3> QED
      BY <1>2, <3>1
  <2> QED
    BY <2>1, <2>2
<1>8. (\A id \in 1..nextID : pending[id] # None => Begun(pending[id]) /\ call[pending[id]].id = id)'
  BY <1>6 DEF Begun
<1>9. (\A j \in Calls : Begun(j) /\ call[j].pc # "ended" /\ ~done => pending[call[j].id] = j)'
  BY <1>7 DEF Begun
<1> QED
  BY <1>4, <1>5, <1>8, <1>9, Zenon DEF MuxIds

\* What each action makes of the calls.
LEMMA PlacedSame ==
    ASSUME HostTyped, NEW k \in Calls, NEW p \in {"header", "body", "sent", "wait", "ended"}, Place(k, p),
           call[k].pc \notin {"off", "ended"}
    PROVE  \A j \in Calls : Same(j)
<1>1. \A j \in Calls \ {k} : call'[j] = call[j]
  BY Placed DEF Rest
<1>2. call'[k].pc = p /\ call'[k].id = call[k].id
  BY Placed
<1> QED
  BY <1>1, <1>2 DEF Same
LEMMA ReturnSame ==
    ASSUME MuxInv, NEW k \in Calls, NEW e \in Mux!Ends, NEW f \in Calls \union {None}, Mux!Return(k, e, f),
           call[k].pc \notin {"off", "ended"}
    PROVE  /\ \A j \in Calls : Same(j)
           /\ \A id \in 1..nextID :
              \/ pending'[id] = pending[id]
              \/ pending'[id] = None /\ \A j \in Calls : Begun(j) /\ call[j].id = id => call'[j].pc = "ended"
<1>1. /\ \A j \in Calls \ {k} : call'[j] = call[j]
      /\ call'[k].pc = "ended" /\ call'[k].id = call[k].id
      /\ \A id \in 1..nextID : pending'[id] = IF id = call[k].id THEN None ELSE pending[id]
  BY ReturnMoves DEF Rest, MuxInv
<1>2. \A j \in Calls : Begun(j) /\ call[j].id = call[k].id => j = k
  BY DEF MuxInv, MuxIds, Begun
<1> QED
  BY <1>1, <1>2 DEF Same
LEMMA GoesSame ==
    ASSUME HostTyped, NEW x \in Parties, NEW p \in {"header", "body", "sent", "ended"}, Mux!Goes(x, p),
           Mux!At(x) \in {"lock", "header", "body"}
    PROVE  \A j \in Calls : Same(j)
<1>1. CASE x \in Calls
  BY <1>1, GoesMoves, PlacedSame DEF Mux!At
<1>2. CASE x \notin Calls
  BY <1>2, GoesMoves DEF Same
<1> QED
  BY <1>1, <1>2

LEMMA IdsStep ==
    ASSUME MuxInv, Mux!Next
    PROVE  MuxIds'
<1>1. HostTyped
  BY DEF MuxInv
<1>2. ASSUME UNCHANGED <<call, nextID, pending>>, done => done' PROVE MuxIds'
  BY <1>2, IdsKept DEF Same
<1>3. ASSUME NEW k \in Calls, Mux!Call(k) PROVE MuxIds'
  BY <1>3, BeginIds DEF Mux!Call
<1>4. ASSUME NEW k \in Calls, Mux!Cancel(k) PROVE MuxIds'
  <2>1. \A j \in Calls : Same(j)
    BY <1>1, <1>4, CancelMoves DEF Same, Rest
  <2> QED
    BY <1>4, <2>1, IdsKept DEF Mux!Cancel
<1>5. ASSUME NEW k \in Calls, Mux!Wait(k) PROVE MuxIds'
  <2>1. \A j \in Calls : Same(j)
    BY <1>1, <1>5, PlacedSame DEF Mux!Wait, Place
  <2> QED
    BY <1>5, <2>1, IdsKept DEF Mux!Wait
<1>6. ASSUME NEW k \in Calls, Mux!Select(k) PROVE MuxIds'
  <2>1. PICK e \in Mux!Ends, f \in Calls \union {None} : Mux!Return(k, e, f)
    BY <1>1, <1>6, OneAnswer DEF Mux!Select, Mux!Ends, Outcome
  <2>2. call[k].pc = "wait" /\ UNCHANGED <<nextID, done>>
    BY <1>6 DEF Mux!Select
  <2> QED
    BY <2>1, <2>2, ReturnSame, IdsKept
<1>7. ASSUME NEW x \in Parties, Mux!Acquire(x) \/ Mux!Write(x) PROVE MuxIds'
  <2>1. PICK p \in {"header", "body", "sent", "ended"} : Mux!Goes(x, p)
    BY <1>7 DEF Mux!Acquire, Mux!Write
  <2>2. Mux!At(x) \in {"lock", "header", "body"} /\ UNCHANGED <<nextID, done, pending>>
    BY <1>7 DEF Mux!Acquire, Mux!Write
  <2> QED
    BY <1>1, <2>1, <2>2, GoesSame, IdsKept
<1>8. ASSUME NEW x \in Parties, Mux!WriteFails(x) PROVE MuxIds'
  <2>1. CASE x \in Calls
    <3>1. Mux!Return(x, "write", None) /\ call[x].pc \in {"header", "body"} /\ UNCHANGED <<nextID, done>>
      BY <1>8, <2>1 DEF Mux!WriteFails, Mux!At
    <3>2. "write" \in Mux!Ends /\ None \in Calls \union {None}
      BY DEF Mux!Ends
    <3> QED
      BY <2>1, <3>1, <3>2, ReturnSame, IdsKept
  <2>2. CASE x \notin Calls
    BY <1>2, <1>8, <2>2 DEF Mux!WriteFails
  <2> QED
    BY <2>1, <2>2
<1>9. ASSUME Mux!CloseAll PROVE MuxIds'
  <2>1. \A j \in Calls : Same(j)
    BY <1>9 DEF Mux!CloseAll, Same
  <2>2. done => done'
    BY <1>9, Zenon DEF Mux!CloseAll
  <2>3. \A id \in 1..nextID : pending'[id] = pending[id] \/ (pending'[id] = None /\ done')
    <3>1. CASE ~done
      BY <1>9, <3>1 DEF Mux!CloseAll
    <3>2. CASE done
      BY <1>1, <1>9, <2>2, <3>2 DEF Mux!CloseAll, HostTyped
    <3> QED
      BY <3>1, <3>2
  <2> QED
    BY <1>9, <2>1, <2>2, <2>3, IdsKept DEF Mux!CloseAll
<1>10. ASSUME NEW r \in Requests, Mux!Handle(r) PROVE MuxIds'
  <2>1. CASE \E k \in Calls : Mux!Begin(k)
    BY <1>10, <2>1, BeginIds DEF Mux!Handle
  <2>2. CASE UNCHANGED <<call, nextID, pending>>
    BY <1>2, <1>10, <2>2 DEF Mux!Handle
  <2> QED
    BY <1>10, <2>1, <2>2 DEF Mux!Handle
<1>11. ASSUME \/ \E r \in Requests : Mux!HandledNested(r) \/ Mux!SidecarAsks(r)
              \/ Mux!ReadFrame \/ Mux!ReadEnds \/ Mux!SidecarReads \/ Mux!SidecarAnswers \/ Mux!SidecarSays
              \/ Mux!SidecarStalls \/ Mux!Exit \/ Mux!WaitCloses \/ Mux!Shutdown \/ Mux!Listen
       PROVE  UNCHANGED <<call, nextID, pending, done>>
  BY <1>11 DEF Mux!HandledNested, Mux!SidecarAsks, Mux!ReadFrame, Mux!ReadEnds, Mux!SidecarReads, Mux!SidecarAnswers,
       Mux!SidecarSays, Mux!SidecarStalls, Mux!Exit, Mux!WaitCloses, Mux!Shutdown, Mux!Listen, Mux!HostUnchanged
<1>12. done' = done => (done => done')
  OBVIOUS
<1> QED
  BY <1>2, <1>3, <1>4, <1>5, <1>6, <1>7, <1>8, <1>9, <1>10, <1>11, <1>12 DEF Mux!Next, Parties

\* What a step makes of a call.
KeepsNumber(k) == Begun(k) => call'[k].pc # "off" /\ call'[k].id = call[k].id
TakesAnswer(k) ==
    call'[k].end = "ok" =>
       \/ call[k].end = "ok" /\ call'[k].from = call[k].from
       \/ answer[k] # <<>> /\ answer[k][1].end = "ok" /\ call'[k].from = answer[k][1].from
Sends(k) == call'[k].pc \in {"sent", "wait"} => call[k].pc \in {"sent", "wait"} \/ (Mux!Write(k) /\ call[k].pc = "body")
CallStep(k) == KeepsNumber(k) /\ TakesAnswer(k) /\ Sends(k)
LEMMA StaysCall ==
    ASSUME NEW k \in Calls, call'[k] = call[k]
    PROVE  CallStep(k)
  BY DEF CallStep, KeepsNumber, TakesAnswer, Sends, Begun
LEMMA BeginCall ==
    ASSUME HostTyped, NEW k \in Calls, Mux!Begin(k)
    PROVE  \A j \in Calls : CallStep(j)
<1>1. call[k].pc = "off" /\ call'[k].pc = "lock" /\ call'[k].end = call[k].end /\ call'[k].from = call[k].from
      /\ \A j \in Calls \ {k} : call'[j] = call[j]
  BY BeginMoves DEF Rest
<1>2. CallStep(k)
  BY <1>1 DEF CallStep, KeepsNumber, TakesAnswer, Sends, Begun
<1> QED
  BY <1>1, <1>2, StaysCall
LEMMA PlaceCall ==
    ASSUME HostTyped, NEW k \in Calls, NEW p \in {"header", "body", "sent", "wait", "ended"}, Place(k, p),
           p \in {"sent", "wait"} => call[k].pc \in {"sent", "wait"} \/ (Mux!Write(k) /\ call[k].pc = "body")
    PROVE  \A j \in Calls : CallStep(j)
<1>1. call'[k].pc = p /\ call'[k].id = call[k].id /\ call'[k].end = call[k].end /\ call'[k].from = call[k].from
      /\ \A j \in Calls \ {k} : call'[j] = call[j]
  BY Placed DEF Rest
<1>2. CallStep(k)
  BY <1>1 DEF CallStep, KeepsNumber, TakesAnswer, Sends
<1> QED
  BY <1>1, <1>2, StaysCall
LEMMA ReturnCall ==
    ASSUME HostTyped, NEW k \in Calls, NEW e \in Mux!Ends, NEW f \in Calls \union {None}, Mux!Return(k, e, f),
           e = "ok" => answer[k] # <<>> /\ answer[k][1].end = "ok" /\ f = answer[k][1].from
    PROVE  \A j \in Calls : CallStep(j)
<1>1. call'[k].pc = "ended" /\ call'[k].id = call[k].id /\ call'[k].end = e /\ call'[k].from = f
      /\ \A j \in Calls \ {k} : call'[j] = call[j]
  BY ReturnMoves DEF Rest
<1>2. CallStep(k)
  BY <1>1 DEF CallStep, KeepsNumber, TakesAnswer, Sends
<1> QED
  BY <1>1, <1>2, StaysCall
LEMMA CallSteps ==
    ASSUME MuxInv, Mux!Next
    PROVE  \A k \in Calls : CallStep(k)
<1>1. HostTyped
  BY DEF MuxInv
<1>2. ASSUME UNCHANGED call PROVE \A k \in Calls : CallStep(k)
  BY <1>2, StaysCall
<1>3. ASSUME NEW k \in Calls, Mux!Call(k) PROVE \A j \in Calls : CallStep(j)
  BY <1>1, <1>3, BeginCall DEF Mux!Call
<1>4. ASSUME NEW k \in Calls, Mux!Cancel(k) PROVE \A j \in Calls : CallStep(j)
  <2>1. call'[k].pc = call[k].pc /\ call'[k].id = call[k].id /\ call'[k].end = call[k].end
        /\ call'[k].from = call[k].from /\ \A j \in Calls \ {k} : call'[j] = call[j]
    BY <1>1, <1>4, CancelMoves DEF Rest
  <2>2. CallStep(k)
    BY <2>1 DEF CallStep, KeepsNumber, TakesAnswer, Sends, Begun
  <2> QED
    BY <2>1, <2>2, StaysCall
<1>5. ASSUME NEW k \in Calls, Mux!Wait(k) PROVE \A j \in Calls : CallStep(j)
  BY <1>1, <1>5, PlaceCall DEF Mux!Wait, Place
<1>6. ASSUME NEW k \in Calls, Mux!Select(k) PROVE \A j \in Calls : CallStep(j)
  <2>1. PICK e \in Mux!Ends, f \in Calls \union {None} :
           Mux!Return(k, e, f) /\ (e = "ok" => answer[k] # <<>> /\ answer[k][1].end = "ok" /\ f = answer[k][1].from)
    BY <1>1, <1>6, OneAnswer DEF Mux!Select, Mux!Ends, Outcome
  <2> QED
    BY <1>1, <2>1, ReturnCall
<1>7. ASSUME NEW x \in Parties, Mux!Acquire(x) \/ Mux!Write(x) PROVE \A j \in Calls : CallStep(j)
  <2>1. CASE x \in Calls
    <3>1. PICK p \in {"header", "body", "sent", "ended"} :
             Mux!Goes(x, p) /\ (p \in {"sent", "wait"} => Mux!Write(x) /\ call[x].pc = "body")
      BY <1>7, <2>1 DEF Mux!Acquire, Mux!Write, Mux!At
    <3>2. Place(x, p)
      BY <2>1, <3>1 DEF Mux!Goes, Place
    <3> QED
      BY <1>1, <2>1, <3>1, <3>2, PlaceCall
  <2>2. CASE x \notin Calls
    BY <1>2, <1>7, <2>2 DEF Mux!Acquire, Mux!Write, Mux!Goes
  <2> QED
    BY <2>1, <2>2
<1>8. ASSUME NEW x \in Parties, Mux!WriteFails(x) PROVE \A j \in Calls : CallStep(j)
  <2>1. CASE x \in Calls
    <3>1. Mux!Return(x, "write", None) /\ "write" \in Mux!Ends /\ "write" # "ok" /\ None \in Calls \union {None}
      BY <1>8, <2>1 DEF Mux!WriteFails, Mux!Ends
    <3> QED
      BY <1>1, <2>1, <3>1, ReturnCall
  <2>2. CASE x \notin Calls
    BY <1>2, <1>8, <2>2 DEF Mux!WriteFails
  <2> QED
    BY <2>1, <2>2
<1>9. ASSUME NEW r \in Requests, Mux!Handle(r) PROVE \A j \in Calls : CallStep(j)
  BY <1>1, <1>2, <1>9, BeginCall DEF Mux!Handle
<1>10. ASSUME \/ \E r \in Requests : Mux!HandledNested(r) \/ Mux!SidecarAsks(r)
              \/ Mux!ReadFrame \/ Mux!ReadEnds \/ Mux!CloseAll \/ Mux!SidecarReads \/ Mux!SidecarAnswers
              \/ Mux!SidecarSays \/ Mux!SidecarStalls \/ Mux!Exit \/ Mux!WaitCloses \/ Mux!Shutdown \/ Mux!Listen
       PROVE  UNCHANGED call
  BY <1>10 DEF Mux!HandledNested, Mux!SidecarAsks, Mux!ReadFrame, Mux!ReadEnds, Mux!CloseAll, Mux!SidecarReads,
       Mux!SidecarAnswers, Mux!SidecarSays, Mux!SidecarStalls, Mux!Exit, Mux!WaitCloses, Mux!Shutdown, Mux!Listen,
       Mux!HostUnchanged
<1> QED
  BY <1>2, <1>3, <1>4, <1>5, <1>6, <1>7, <1>8, <1>9, <1>10 DEF Mux!Next, Parties

\* What a step makes of an answer: the reader gives a call the answer to it.
AnswerBecomes(k) ==
    \/ answer'[k] = answer[k]
    \/ answer[k] = <<>> /\ answer'[k] = <<[end |-> "ok", from |-> k]>>
    \/ answer[k] = <<>> /\ answer'[k] = <<[end |-> "closed", from |-> None]>>
LEMMA Delivered ==
    ASSUME MuxInv, NEW k \in Calls, Begun(k), Mux!Deliver(call[k].id, k)
    PROVE  /\ \A j \in Calls : AnswerBecomes(j)
           /\ call[k].pc # "ended" /\ ~done => answer'[k] # <<>>
<1>1. /\ answer \in [Calls -> {<<>>} \union {<<a>> : a \in Outcome}]
      /\ pending \in [1..nextID -> Calls \union {None}] /\ call[k].id \in 1..nextID
      /\ pending[call[k].id] # None => pending[call[k].id] = k
      /\ call[k].pc # "ended" /\ ~done => pending[call[k].id] = k
  BY DEF MuxInv, HostTyped, MuxIds
<1>2. PICK j \in Calls \union {None} : j = pending[call[k].id]
  BY <1>1
<1>3. IF j # None /\ answer[j] = <<>>
      THEN answer' = [answer EXCEPT ![j] = <<[end |-> "ok", from |-> k]>>] ELSE UNCHANGED answer
  BY <1>1, <1>2 DEF Mux!Deliver, Mux!Takes
<1>4. k # None
  BY MuxConstants
<1>5. CASE j # None /\ answer[j] = <<>>
  BY <1>1, <1>2, <1>3, <1>5 DEF AnswerBecomes
<1>6. CASE ~(j # None /\ answer[j] = <<>>)
  BY <1>1, <1>2, <1>3, <1>4, <1>6 DEF AnswerBecomes
<1> QED
  BY <1>5, <1>6
LEMMA AnswersBecome ==
    ASSUME MuxInv, Mux!Next
    PROVE  \A k \in Calls : AnswerBecomes(k)
<1>1. ASSUME UNCHANGED answer PROVE \A k \in Calls : AnswerBecomes(k)
  BY <1>1 DEF AnswerBecomes
<1>2. CASE Mux!ReadFrame
  <2>1. PICK f : f = stdout[1] /\ f = Head(stdout) /\ 1 \in DOMAIN stdout
    BY <1>2, Shifted DEF Mux!ReadFrame, MuxInv, PipesTyped
  <2>2. CASE f.kind = "response"
    <3>1. f.from \in Calls /\ Begun(f.from) /\ f.id = call[f.from].id
      BY <2>1, <2>2 DEF MuxInv, MuxOwn, StdoutAnswers, Answers
    <3>2. Mux!Deliver(call[f.from].id, f.from)
      BY <1>2, <2>1, <2>2, <3>1 DEF Mux!ReadFrame
    <3> QED
      BY <3>1, <3>2, Delivered
  <2>3. CASE f.kind # "response"
    BY <1>1, <1>2, <2>1, <2>3 DEF Mux!ReadFrame
  <2> QED
    BY <2>2, <2>3
<1>3. CASE Mux!CloseAll
  BY <1>1, <1>3 DEF Mux!CloseAll, AnswerBecomes, MuxInv, HostTyped
<1>4. CASE ~(Mux!ReadFrame \/ Mux!CloseAll)
  <2>1. UNCHANGED answer
    BY <1>4 DEF Mux!Next, Mux!Call, Mux!Cancel, Mux!Wait, Mux!Select, Mux!Acquire, Mux!Write, Mux!WriteFails,
       Mux!ReadEnds, Mux!Handle, Mux!HandledNested, Mux!SidecarAsks, Mux!SidecarReads, Mux!SidecarAnswers,
       Mux!SidecarSays, Mux!SidecarStalls, Mux!Exit, Mux!WaitCloses, Mux!Shutdown, Mux!Listen, Mux!HostUnchanged
  <2> QED
    BY <1>1, <2>1
<1> QED
  BY <1>2, <1>3, <1>4

Still(k) == call'[k].pc # "off" /\ call'[k].id = call[k].id
LEMMA OwnStep ==
    ASSUME MuxInv, Mux!Next
    PROVE  MuxOwn'
<1>1. /\ stdin \in Seq(Halves) /\ sidecar \in Process /\ stdout \in Seq(Mux!Frames)
      /\ StdinBegun /\ SidecarBegun /\ StdoutAnswers /\ OwnAnswers /\ HostTyped /\ PipesTyped
      /\ sidecar.todo \in Seq(Calls) /\ sidecar.at \in Calls \union {None}
  BY DEF MuxInv, MuxOwn, PipesTyped, Process
<1>2. \A k \in Calls : Begun(k) => Still(k)
  BY CallSteps DEF CallStep, KeepsNumber, Still
<1>3. \A k \in Calls : TakesAnswer(k) /\ AnswerBecomes(k)
  BY CallSteps, AnswersBecome DEF CallStep
<1>4. /\ \A i \in DOMAIN stdin : stdin[i][1] \in Calls => Still(stdin[i][1])
      /\ sidecar.pc \in {"serve", "ask"} => sidecar.at \in Calls /\ Still(sidecar.at)
      /\ sidecar.pc \notin {"serve", "ask"} => sidecar.at = None /\ sidecar.todo = <<>>
      /\ \A i \in DOMAIN sidecar.todo : sidecar.todo[i] \in Calls /\ Still(sidecar.todo[i])
  <2>1. \A i \in DOMAIN sidecar.todo : sidecar.todo[i] \in Calls /\ Begun(sidecar.todo[i])
    BY <1>1 DEF SidecarBegun
  <2> QED
    BY <1>1, <1>2, <2>1 DEF StdinBegun, SidecarBegun
<1>5. \A i \in DOMAIN stdout :
         /\ stdout[i].kind = "response" =>
               stdout[i].from \in Calls /\ call'[stdout[i].from].pc # "off" /\ stdout[i].id = call'[stdout[i].from].id
         /\ stdout[i].kind = "request" => stdout[i].from \in Requests
  BY <1>1, <1>2 DEF StdoutAnswers, Answers, Still
<1>6. OwnAnswers'
  <2>1. \A k \in Calls : (answer'[k] # <<>> /\ answer'[k][1].end = "ok") => answer'[k][1].from = k
    <3> SUFFICES ASSUME NEW k \in Calls, answer'[k] # <<>>, answer'[k][1].end = "ok" PROVE answer'[k][1].from = k
      OBVIOUS
    <3>0. answer'[k][1].end = "ok"
      OBVIOUS
    <3>1. CASE answer'[k] = answer[k]
      BY <1>1, <3>1 DEF OwnAnswers
    <3>2. CASE answer'[k] # answer[k]
      <4>1. PICK a : a \in {[end |-> "ok", from |-> k], [end |-> "closed", from |-> None]} /\ answer'[k] = <<a>>
        BY <1>3, <3>2 DEF AnswerBecomes
      <4>2. answer'[k][1] = a
        BY <4>1
      <4>3. a.end = "ok"
        BY <3>0, <4>2
      <4> QED
        BY <4>1, <4>2, <4>3
    <3> QED
      BY <3>1, <3>2
  <2>2. \A k \in Calls : call'[k].end = "ok" => call'[k].from = k
    BY <1>1, <1>3 DEF TakesAnswer, OwnAnswers
  <2> QED
    BY <2>1, <2>2 DEF OwnAnswers
<1>7. ASSUME UNCHANGED stdin PROVE StdinBegun'
  BY <1>4, <1>7 DEF StdinBegun, Begun, Still
<1>8. ASSUME UNCHANGED sidecar PROVE SidecarBegun'
  BY <1>4, <1>8 DEF SidecarBegun, Begun, Still
<1>9. ASSUME UNCHANGED stdout PROVE StdoutAnswers'
  BY <1>5, <1>9 DEF StdoutAnswers, Answers, Begun
<1>10. ASSUME NEW x \in Parties, Mux!Write(x) PROVE MuxOwn'
  <2>1. /\ <<x, Mux!At(x)>> \in Halves /\ stdin' = Append(stdin, <<x, Mux!At(x)>>) /\ UNCHANGED <<sidecar, stdout>>
        /\ x \in Calls => Begun(x)
    BY <1>10 DEF Mux!Write, Halves, Mux!At, Begun
  <2>2. /\ Len(stdin') = Len(stdin) + 1 /\ stdin'[Len(stdin) + 1] = <<x, Mux!At(x)>>
        /\ \A i \in 1..Len(stdin) : stdin'[i] = stdin[i]
        /\ DOMAIN stdin' = 1..Len(stdin) + 1 /\ DOMAIN stdin = 1..Len(stdin) /\ Len(stdin) \in Nat
    BY <1>1, <2>1, Appended
  <2>3. ASSUME NEW i \in DOMAIN stdin', stdin'[i][1] \in Calls PROVE call'[stdin'[i][1]].pc # "off"
    <3>1. CASE i = Len(stdin) + 1
      BY <1>2, <2>1, <2>2, <2>3, <3>1 DEF Still
    <3>2. CASE i # Len(stdin) + 1
      <4>1. i \in DOMAIN stdin /\ stdin'[i] = stdin[i]
        BY <2>2, <3>2
      <4> QED
        BY <1>4, <2>3, <4>1 DEF Still
    <3> QED
      BY <3>1, <3>2
  <2>4. StdinBegun'
    BY <2>3 DEF StdinBegun, Begun
  <2> QED
    BY <1>6, <1>8, <1>9, <2>1, <2>4 DEF MuxOwn
<1>11. CASE Mux!ReadFrame
  <2>1. stdout # <<>> /\ stdout' = Tail(stdout) /\ UNCHANGED <<stdin, sidecar>>
    BY <1>11 DEF Mux!ReadFrame
  <2>2. /\ stdout' \in Seq(Mux!Frames) /\ Len(stdout') = Len(stdout) - 1 /\ Len(stdout) > 0 /\ Len(stdout) \in Nat
        /\ \A i \in 1..Len(stdout) - 1 : stdout'[i] = stdout[i + 1]
    BY <1>1, <2>1, Shifted
  <2>3. \A i \in DOMAIN stdout' : i + 1 \in DOMAIN stdout /\ stdout'[i] = stdout[i + 1]
    BY <1>1, <2>2
  <2>4. StdoutAnswers'
    BY <1>5, <2>3 DEF StdoutAnswers, Answers, Begun
  <2> QED
    BY <1>6, <1>7, <1>8, <2>1, <2>4 DEF MuxOwn
<1>12. CASE Mux!SidecarReads
  <2>1. /\ Len(stdin) > 1 /\ stdin' = SubSeq(stdin, 3, Len(stdin)) /\ stdout' = stdout /\ sidecar.pc \in {"idle", "ask"}
        /\ Len(stdin) \in Nat
    BY <1>1, <1>12 DEF Mux!SidecarReads
  <2>2. PICK x \in Parties : x = Head(stdin)[1] /\ x = stdin[1][1]
    BY <1>1, <2>1, ReadsHead
  <2>3. /\ x \in Calls => Begun(x)
        /\ Len(stdin') = Len(stdin) - 2 /\ stdin' \in Seq(Halves)
        /\ \A i \in 1..Len(stdin) - 2 : stdin'[i] = stdin[i + 2]
    BY <1>1, <2>1, <2>2, ReadsHead
  <2>4. \A i \in DOMAIN stdin' : i + 2 \in DOMAIN stdin /\ stdin'[i] = stdin[i + 2]
    BY <1>1, <2>1, <2>3
  <2>5. StdinBegun'
    BY <1>4, <2>4 DEF StdinBegun, Begun, Still
  <2>6. x \in Calls => Still(x)
    BY <1>2, <2>3
  <2>7. \/ x \in Calls /\ sidecar.pc = "idle" /\ Mux!Sidecar("serve", x, <<>>)
        \/ x \in Calls /\ sidecar.pc = "ask" /\ Mux!Sidecar("ask", sidecar.at, Append(sidecar.todo, x))
        \/ x \in Requests /\ sidecar.pc = "ask" /\ Mux!Sidecar("serve", sidecar.at, sidecar.todo)
        \/ x \in Requests /\ sidecar.pc = "idle" /\ Mux!Sidecar("idle", sidecar.at, sidecar.todo)
    BY <1>12, <2>1, <2>2 DEF Mux!SidecarReads
  <2>8. ASSUME x \in Calls, sidecar.pc = "ask", Mux!Sidecar("ask", sidecar.at, Append(sidecar.todo, x)) PROVE SidecarBegun'
    <3>1. PICK t : t = Append(sidecar.todo, x)
      OBVIOUS
    <3>2. \A i \in DOMAIN t : (i \in DOMAIN sidecar.todo /\ t[i] = sidecar.todo[i]) \/ t[i] = x
      BY <1>1, <2>8, <3>1, Appended
    <3>3. sidecar'.pc = "ask" /\ sidecar'.at = sidecar.at /\ sidecar'.todo = t
      BY <2>8, <3>1 DEF Mux!Sidecar
    <3>4. \A i \in DOMAIN t : Still(t[i])
      BY <1>4, <2>6, <2>8, <3>2
    <3> QED
      BY <1>4, <2>8, <3>3, <3>4 DEF SidecarBegun, Begun, Still
  <2>9. ASSUME ~(x \in Calls /\ sidecar.pc = "ask") PROVE SidecarBegun'
    <3>1. /\ sidecar'.pc = "serve" => sidecar'.at \in Calls /\ Still(sidecar'.at)
          /\ sidecar'.pc # "serve" => sidecar'.pc = "idle" /\ sidecar'.at = None /\ sidecar'.todo = <<>>
          /\ sidecar'.pc # "ask"
      BY <1>4, <2>6, <2>7, <2>9, MuxConstants DEF Mux!Sidecar
    <3>2. sidecar'.todo = <<>> \/ sidecar'.todo = sidecar.todo
      BY <2>7, <2>9 DEF Mux!Sidecar
    <3>3. \A i \in DOMAIN sidecar'.todo : Still(sidecar'.todo[i])
      BY <1>4, <3>2
    <3> QED
      BY <3>1, <3>3 DEF SidecarBegun, Begun, Still
  <2>10. SidecarBegun'
    <3>1. CASE x \in Calls /\ sidecar.pc = "ask"
      <4>1. Mux!Sidecar("ask", sidecar.at, Append(sidecar.todo, x))
        BY <2>7, <3>1, MuxConstants
      <4> QED
        BY <2>8, <3>1, <4>1
    <3> QED
      BY <2>9, <3>1
  <2>11. StdoutAnswers'
    BY <1>9, <2>1
  <2> QED
    BY <1>6, <2>5, <2>10, <2>11 DEF MuxOwn
<1>13. ASSUME NEW m \in {"response", "request", "note", "garbage", "oversize"}, NEW id \in Nat,
              NEW p \in Calls \union Requests \union {None}, stdout' = Append(stdout, Mux!Frame(m, id, p)),
              m = "response" => p \in Calls /\ Still(p) /\ id = call[p].id,
              m = "request" => p \in Requests
       PROVE  StdoutAnswers'
  <2>1. PICK f : f = Mux!Frame(m, id, p)
    OBVIOUS
  <2>2. f \in Mux!Frames /\ f.kind = m /\ f.id = id /\ f.from = p
    BY <2>1 DEF Mux!Frame, Mux!Frames
  <2>3. \A i \in DOMAIN stdout' : (i \in DOMAIN stdout /\ stdout'[i] = stdout[i]) \/ stdout'[i] = f
    BY <1>1, <1>13, <2>1, <2>2, Appended
  <2> QED
    BY <1>5, <1>13, <2>2, <2>3 DEF StdoutAnswers, Answers, Begun, Still
<1>14. CASE Mux!SidecarAnswers
  <2>1. /\ stdout' = Append(stdout, Mux!Frame("response", call[sidecar.at].id, sidecar.at)) /\ UNCHANGED <<stdin, call>>
        /\ sidecar.pc = "serve"
        /\ IF sidecar.todo = <<>> THEN Mux!Sidecar("idle", None, <<>>)
           ELSE Mux!Sidecar("serve", Head(sidecar.todo), Tail(sidecar.todo))
    BY <1>14 DEF Mux!SidecarAnswers, Mux!HostUnchanged
  <2>2. sidecar.at \in Calls /\ Still(sidecar.at) /\ call[sidecar.at].id \in Nat
    BY <1>1, <1>4, <2>1 DEF HostTyped, CallRecord
  <2>3. StdoutAnswers'
    BY <1>13, <2>1, <2>2
  <2>4. CASE sidecar.todo = <<>>
    <3>1. sidecar'.pc = "idle" /\ sidecar'.at = None /\ sidecar'.todo = <<>>
      BY <2>1, <2>4 DEF Mux!Sidecar
    <3> QED
      BY <1>6, <1>7, <2>1, <2>3, <3>1 DEF MuxOwn, SidecarBegun
  <2>5. CASE sidecar.todo # <<>>
    <3>1. /\ sidecar'.pc = "serve" /\ sidecar'.at = sidecar.todo[1] /\ 1 \in DOMAIN sidecar.todo
          /\ \A i \in DOMAIN sidecar'.todo : i + 1 \in DOMAIN sidecar.todo /\ sidecar'.todo[i] = sidecar.todo[i + 1]
      <4>1. sidecar'.pc = "serve" /\ sidecar'.at = Head(sidecar.todo) /\ sidecar'.todo = Tail(sidecar.todo)
        BY <2>1, <2>5 DEF Mux!Sidecar
      <4>2. PICK s \in Seq(Calls) : s = sidecar.todo
        BY <1>1
      <4>3. /\ Tail(s) \in Seq(Calls) /\ Len(Tail(s)) = Len(s) - 1 /\ Head(s) = s[1] /\ Len(s) > 0 /\ Len(s) \in Nat
            /\ \A i \in 1..Len(s) - 1 : Tail(s)[i] = s[i + 1]
        BY <2>5, <4>2, Shifted
      <4>4. 1 \in DOMAIN s /\ \A i \in DOMAIN Tail(s) : i + 1 \in DOMAIN s /\ Tail(s)[i] = s[i + 1]
        BY <4>2, <4>3
      <4> QED
        BY <4>1, <4>2, <4>3, <4>4
    <3>2. SidecarBegun'
      BY <1>4, <3>1 DEF SidecarBegun, Begun, Still
    <3> QED
      BY <1>6, <1>7, <2>1, <2>3, <3>2 DEF MuxOwn
  <2> QED
    BY <2>4, <2>5
<1>15. ASSUME NEW r \in Requests, Mux!SidecarAsks(r) PROVE MuxOwn'
  <2>1. stdout' = Append(stdout, Mux!Frame("request", 0, r)) /\ sidecar.pc = "serve"
        /\ Mux!Sidecar("ask", sidecar.at, sidecar.todo) /\ UNCHANGED <<stdin, call>>
    BY <1>15 DEF Mux!SidecarAsks, Mux!HostUnchanged
  <2>2. StdoutAnswers'
    BY <1>13, <2>1
  <2>3. SidecarBegun'
    BY <1>4, <2>1 DEF SidecarBegun, Begun, Still, Mux!Sidecar
  <2> QED
    BY <1>6, <1>7, <2>1, <2>2, <2>3 DEF MuxOwn
<1>16. CASE Mux!SidecarSays
  <2>1. PICK m \in {"note", "garbage", "oversize"} : stdout' = Append(stdout, Mux!Frame(m, 0, None))
    BY <1>16 DEF Mux!SidecarSays
  <2>2. StdoutAnswers'
    BY <1>13, <2>1
  <2> QED
    BY <1>6, <1>7, <1>8, <1>16, <2>2 DEF MuxOwn, Mux!SidecarSays
<1>17. CASE Mux!SidecarStalls \/ Mux!Exit
  <2>1. sidecar'.pc \notin {"serve", "ask"} /\ sidecar'.at = None /\ sidecar'.todo = <<>> /\ UNCHANGED <<stdin, stdout>>
    BY <1>17 DEF Mux!SidecarStalls, Mux!Exit, Mux!Sidecar
  <2>2. SidecarBegun'
    BY <2>1 DEF SidecarBegun
  <2> QED
    BY <1>6, <1>7, <1>9, <2>1, <2>2 DEF MuxOwn
<1>18. CASE Mux!WaitCloses
  <2>1. stdout' = <<>> /\ UNCHANGED <<stdin, sidecar>>
    BY <1>18 DEF Mux!WaitCloses
  <2>2. StdoutAnswers'
    BY <2>1 DEF StdoutAnswers
  <2> QED
    BY <1>6, <1>7, <1>8, <2>1, <2>2 DEF MuxOwn
<1>19. ASSUME \/ \E k \in Calls : Mux!Call(k) \/ Mux!Cancel(k) \/ Mux!Wait(k) \/ Mux!Select(k)
              \/ \E x \in Parties : Mux!Acquire(x) \/ Mux!WriteFails(x)
              \/ Mux!ReadEnds \/ Mux!CloseAll \/ Mux!Shutdown \/ Mux!Listen
              \/ \E r \in Requests : Mux!Handle(r) \/ Mux!HandledNested(r)
       PROVE  MuxOwn'
  <2>1. UNCHANGED <<stdin, sidecar, stdout>>
    BY <1>19 DEF Mux!Call, Mux!Cancel, Mux!Wait, Mux!Select, Mux!Acquire, Mux!WriteFails, Mux!ReadEnds,
         Mux!CloseAll, Mux!Shutdown, Mux!Listen, Mux!Handle, Mux!HandledNested
  <2> QED
    BY <1>6, <1>7, <1>8, <1>9, <2>1 DEF MuxOwn
<1> QED
  BY <1>10, <1>11, <1>12, <1>14, <1>15, <1>16, <1>17, <1>18, <1>19 DEF Mux!Next, Parties

\* What a step makes of the places of callers and handlers.
Now(x) == IF x \in Calls THEN call'[x].pc ELSE handler'[x]
KeepsPlace(x) ==
    /\ Mux!At(x) \in {"header", "body"} \/ Now(x) \in {"header", "body"} => Now(x) = Mux!At(x)
    /\ x \in Requests /\ Mux!At(x) = "off" => Now(x) = "off"
LEMMA CallsAndRequests ==
    /\ \A k \in Calls : k \notin Requests /\ k # None /\ k \notin {"off", "run", "lock", "header", "body", "ended"}
    /\ \A r \in Requests : r \notin Calls /\ r # None
    /\ \A x \in Parties : x # None /\ (x \in Calls \/ x \in Requests)
  BY MuxConstants DEF Parties
LEMMA SamePlaces ==
    ASSUME NEW x \in Parties, x \in Calls => call'[x].pc = call[x].pc, x \notin Calls => handler'[x] = handler[x]
    PROVE  KeepsPlace(x)
  BY DEF KeepsPlace, Now, Mux!At
LEMMA CallPlaces ==
    ASSUME NEW k \in Calls, Rest(k), UNCHANGED handler, {call[k].pc, call'[k].pc} \intersect {"header", "body"} = {}
    PROVE  \A x \in Parties : KeepsPlace(x)
<1>1. KeepsPlace(k)
  BY CallsAndRequests DEF KeepsPlace, Now, Mux!At
<1>2. \A x \in Parties \ {k} : KeepsPlace(x)
  BY SamePlaces DEF Rest
<1> QED
  BY <1>1, <1>2
LEMMA HandlerPlacesKept ==
    ASSUME HostTyped, NEW r \in Requests, NEW p, handler' = [handler EXCEPT ![r] = p], handler[r] \in {"run"} \union Calls,
           p \in {"lock"} \union Calls, \A k \in Calls : {call[k].pc, call'[k].pc} \intersect {"header", "body"} = {}
                                                        \/ call'[k].pc = call[k].pc
    PROVE  \A x \in Parties : KeepsPlace(x)
<1>1. handler'[r] = p /\ \A q \in Requests \ {r} : handler'[q] = handler[q]
  BY DEF HostTyped
<1>2. KeepsPlace(r)
  BY <1>1, CallsAndRequests DEF KeepsPlace, Now, Mux!At
<1>3. \A k \in Calls : KeepsPlace(k)
  BY CallsAndRequests DEF KeepsPlace, Now, Mux!At
<1>4. \A q \in Requests \ {r} : KeepsPlace(q)
  BY <1>1, SamePlaces, CallsAndRequests DEF Parties
<1> QED
  BY <1>2, <1>3, <1>4, CallsAndRequests
Others ==
    \/ \E k \in Calls : Mux!Call(k) \/ Mux!Cancel(k) \/ Mux!Wait(k) \/ Mux!Select(k)
    \/ \E r \in Requests : Mux!Handle(r) \/ Mux!HandledNested(r) \/ Mux!SidecarAsks(r)
    \/ Mux!ReadEnds \/ Mux!CloseAll \/ Mux!SidecarReads \/ Mux!SidecarAnswers \/ Mux!SidecarSays
    \/ Mux!SidecarStalls \/ Mux!Exit \/ Mux!WaitCloses \/ Mux!Shutdown \/ Mux!Listen
LEMMA PlacesKept ==
    ASSUME HostTyped, Others
    PROVE  \A x \in Parties : KeepsPlace(x)
<1>1. ASSUME UNCHANGED <<call, handler>> PROVE \A x \in Parties : KeepsPlace(x)
  BY <1>1, SamePlaces
<1>2. ASSUME NEW k \in Calls, Mux!Call(k) PROVE \A x \in Parties : KeepsPlace(x)
  BY <1>2, BeginMoves, CallPlaces DEF Mux!Call
<1>3. ASSUME NEW k \in Calls, Mux!Cancel(k) PROVE \A x \in Parties : KeepsPlace(x)
  <2>1. Rest(k) /\ call'[k].pc = call[k].pc /\ handler' = handler
    BY <1>3, CancelMoves DEF Mux!Cancel
  <2> QED
    BY <2>1, SamePlaces DEF Rest
<1>4. ASSUME NEW k \in Calls, Mux!Wait(k) PROVE \A x \in Parties : KeepsPlace(x)
  <2>1. Place(k, "wait") /\ call[k].pc = "sent" /\ handler' = handler
    BY <1>4 DEF Mux!Wait, Place
  <2>2. Rest(k) /\ call'[k].pc = "wait"
    BY <2>1, Placed
  <2> QED
    BY <2>1, <2>2, CallPlaces
<1>5. ASSUME NEW k \in Calls, Mux!Select(k) PROVE \A x \in Parties : KeepsPlace(x)
  <2>1. PICK e \in Mux!Ends, f \in Calls \union {None} : Mux!Return(k, e, f)
    BY <1>5, OneAnswer DEF Mux!Select, Mux!Ends, Outcome
  <2>2. Rest(k) /\ call'[k].pc = "ended"
    BY <2>1, ReturnMoves
  <2>3. call[k].pc = "wait" /\ handler' = handler
    BY <1>5 DEF Mux!Select
  <2> QED
    BY <2>2, <2>3, CallPlaces
<1>6. ASSUME NEW r \in Requests, Mux!Handle(r) PROVE \A x \in Parties : KeepsPlace(x)
  <2>1. CASE UNCHANGED call /\ handler' = [handler EXCEPT ![r] = "lock"]
    BY <1>6, <2>1, HandlerPlacesKept DEF Mux!Handle
  <2>2. ASSUME NEW k \in Calls, Mux!Begin(k), handler' = [handler EXCEPT ![r] = k]
        PROVE  \A x \in Parties : KeepsPlace(x)
    <3>1. Rest(k) /\ call[k].pc = "off" /\ call'[k].pc = "lock" /\ handler[r] = "run"
      BY <1>6, <2>2, BeginMoves DEF Mux!Handle
    <3>2. \A j \in Calls : {call[j].pc, call'[j].pc} \intersect {"header", "body"} = {} \/ call'[j].pc = call[j].pc
      BY <3>1 DEF Rest
    <3> QED
      BY <2>2, <3>1, <3>2, HandlerPlacesKept
  <2> QED
    BY <1>6, <2>1, <2>2 DEF Mux!Handle
<1>7. ASSUME NEW r \in Requests, Mux!HandledNested(r) PROVE \A x \in Parties : KeepsPlace(x)
  BY <1>7, HandlerPlacesKept DEF Mux!HandledNested
<1>8. ASSUME \/ Mux!ReadEnds \/ Mux!CloseAll \/ Mux!SidecarReads \/ Mux!SidecarAnswers \/ Mux!SidecarSays
             \/ Mux!SidecarStalls \/ Mux!Exit \/ Mux!WaitCloses \/ Mux!Shutdown \/ Mux!Listen
             \/ \E r \in Requests : Mux!SidecarAsks(r)
      PROVE  UNCHANGED <<call, handler>>
  BY <1>8 DEF Mux!ReadEnds, Mux!CloseAll, Mux!SidecarReads, Mux!SidecarAnswers, Mux!SidecarSays, Mux!SidecarStalls,
       Mux!Exit, Mux!WaitCloses, Mux!Shutdown, Mux!Listen, Mux!SidecarAsks, Mux!HostUnchanged
<1> QED
  BY <1>1, <1>2, <1>3, <1>4, <1>5, <1>6, <1>7, <1>8 DEF Others
LEMMA ReadPlaces ==
    ASSUME MuxInv, Mux!ReadFrame
    PROVE  /\ \A x \in Parties : Now(x) \in {"header", "body"} \/ Mux!At(x) \in {"header", "body"} => Now(x) = Mux!At(x)
           /\ \A i \in DOMAIN stdout \ {1} : stdout[i].kind = "request" => handler'[stdout[i].from] = "off"
           /\ \A r \in Requests : handler'[r] = handler[r] \/ handler'[r] = "run"
           /\ stdout[1].kind = "request" => stdout[1].from \in Requests /\ handler'[stdout[1].from] = "run"
<1>1. PICK f : f = stdout[1] /\ f = Head(stdout) /\ 1 \in DOMAIN stdout
  BY Shifted DEF Mux!ReadFrame, MuxInv, PipesTyped
<1>2. /\ call' = call /\ handler \in [Requests -> HandlerPlaces]
      /\ \A i \in DOMAIN stdout : stdout[i].kind = "request" => stdout[i].from \in Requests /\ handler[stdout[i].from] = "off"
      /\ \A i, j \in DOMAIN stdout : stdout[i].kind = "request" /\ stdout[j].kind = "request"
                                  /\ stdout[i].from = stdout[j].from => i = j
  BY DEF Mux!ReadFrame, MuxInv, HostTyped, Asked, MuxOwn, StdoutAnswers, Answers
<1>3. CASE f.kind = "request"
  <2>1. handler' = [handler EXCEPT ![f.from] = "run"] /\ handler[f.from] = "off" /\ f.from \in Requests
    BY <1>1, <1>2, <1>3 DEF Mux!ReadFrame
  <2>2. handler'[f.from] = "run" /\ \A r \in Requests \ {f.from} : handler'[r] = handler[r]
    BY <1>2, <2>1
  <2>3. \A x \in Parties : Now(x) \in {"header", "body"} \/ Mux!At(x) \in {"header", "body"} => Now(x) = Mux!At(x)
    BY <1>2, <2>1, <2>2, CallsAndRequests DEF Now, Mux!At
  <2>4. \A i \in DOMAIN stdout \ {1} : stdout[i].kind = "request" => stdout[i].from \in Requests \ {f.from}
    BY <1>1, <1>2, <1>3
  <2> QED
    BY <1>1, <1>2, <2>1, <2>2, <2>3, <2>4
<1>4. CASE f.kind # "request"
  <2>1. handler' = handler
    BY <1>1, <1>4 DEF Mux!ReadFrame
  <2> QED
    BY <1>1, <1>2, <1>4, <2>1 DEF Now, Mux!At
<1> QED
  BY <1>3, <1>4
LEMMA WriterPlaces ==
    ASSUME HostTyped, NEW x \in Parties, NEW p \in {"header", "body", "sent", "ended"}, Mux!Goes(x, p)
    PROVE  Now(x) = p /\ \A y \in Parties \ {x} : Now(y) = Mux!At(y)
<1>1. CASE x \in Calls
  <2>1. Rest(x) /\ call'[x].pc = p /\ handler' = handler
    BY <1>1, GoesMoves, Placed
  <2> QED
    BY <1>1, <2>1, CallsAndRequests DEF Now, Mux!At, Rest
<1>2. CASE x \notin Calls
  <2>1. call' = call /\ handler'[x] = p /\ x \in Requests /\ \A r \in Requests \ {x} : handler'[r] = handler[r]
    BY <1>2, GoesMoves
  <2> QED
    BY <1>2, <2>1, CallsAndRequests DEF Now, Mux!At
<1> QED
  BY <1>1, <1>2
LEMMA FailedPlaces ==
    ASSUME HostTyped, NEW x \in Parties, Mux!WriteFails(x)
    PROVE  Now(x) = "ended" /\ \A y \in Parties \ {x} : Now(y) = Mux!At(y)
<1>1. CASE x \in Calls
  <2>1. Mux!Return(x, "write", None) /\ handler' = handler /\ "write" \in Mux!Ends
    BY <1>1 DEF Mux!WriteFails, Mux!Ends
  <2>2. Rest(x) /\ call'[x].pc = "ended"
    BY <1>1, <2>1, ReturnMoves
  <2> QED
    BY <1>1, <2>1, <2>2, CallsAndRequests DEF Now, Mux!At, Rest
<1>2. CASE x \notin Calls
  <2>1. x \in Requests /\ call' = call /\ handler' = [handler EXCEPT ![x] = "ended"]
    BY <1>2 DEF Mux!WriteFails, Parties
  <2>2. handler'[x] = "ended" /\ \A r \in Requests \ {x} : handler'[r] = handler[r]
    BY <2>1 DEF HostTyped
  <2> QED
    BY <1>2, <2>1, <2>2, CallsAndRequests DEF Now, Mux!At
<1> QED
  BY <1>1, <1>2

\* A step that leaves the writers where they are, and the pipe.
LEMMA PipeKept ==
    ASSUME MuxPipe, UNCHANGED <<stdin, writer>>, Open' => Open, writer \in Parties \union {None},
           \A x \in Parties : Now(x) \in {"header", "body"} \/ Mux!At(x) \in {"header", "body"} => Now(x) = Mux!At(x)
    PROVE  MuxPipe'
<1>1. \A x \in Parties : Now(x) \in {"header", "body"} <=> x = writer
  BY DEF MuxPipe
<1>2. writer # None => Now(writer) = Mux!At(writer)
  BY <1>1
<1>3. Open' /\ Len(stdin) % 2 = 1 => writer # None /\ stdin[Len(stdin)] = <<writer, "header">> /\ Now(writer) = "body"
  BY <1>2 DEF MuxPipe
<1>4. Open' /\ Len(stdin) % 2 = 0 /\ writer # None => Now(writer) = "header"
  BY <1>2 DEF MuxPipe
<1>5. Paired'
  BY DEF MuxPipe, Paired
<1>6. (\A x \in Parties : Mux!At(x) \in {"header", "body"} <=> x = writer)'
  BY <1>1 DEF Now, Mux!At
<1>7. (Open /\ Len(stdin) % 2 = 1 => writer # None /\ stdin[Len(stdin)] = <<writer, "header">> /\ Mux!At(writer) = "body")'
  BY <1>3 DEF Now, Mux!At
<1>8. (Open /\ Len(stdin) % 2 = 0 /\ writer # None => Mux!At(writer) = "header")'
  BY <1>4 DEF Now, Mux!At
<1> QED
  BY <1>5, <1>6, <1>7, <1>8, Zenon DEF MuxPipe
LEMMA NeverShuts ==
    ASSUME Mux!Next
    PROVE  stdinOpen' => stdinOpen
  BY Zenon DEF Mux!Next, Mux!Call, Mux!Cancel, Mux!Wait, Mux!Select, Mux!Acquire, Mux!Write, Mux!WriteFails, Mux!ReadFrame,
       Mux!ReadEnds, Mux!CloseAll, Mux!Handle, Mux!HandledNested, Mux!SidecarAsks, Mux!SidecarReads, Mux!SidecarAnswers,
       Mux!SidecarSays, Mux!SidecarStalls, Mux!Exit, Mux!WaitCloses, Mux!Shutdown, Mux!Listen, Mux!HostUnchanged
LEMMA NeverReopens ==
    ASSUME Mux!Next
    PROVE  Open' => Open
<1>1. sidecar.pc = "dead" => sidecar'.pc = "dead"
  BY DEF Mux!Next, Mux!Call, Mux!Cancel, Mux!Wait, Mux!Select, Mux!Acquire, Mux!Write, Mux!WriteFails, Mux!ReadFrame,
       Mux!ReadEnds, Mux!CloseAll, Mux!Handle, Mux!HandledNested, Mux!SidecarAsks, Mux!SidecarReads, Mux!SidecarAnswers,
       Mux!SidecarSays, Mux!SidecarStalls, Mux!Exit, Mux!WaitCloses, Mux!Shutdown, Mux!Listen, Mux!HostUnchanged, Mux!Alive
<1>2. stdinOpen' => stdinOpen
  BY NeverShuts
<1> QED
  BY <1>1, <1>2 DEF Open, Mux!Alive
LEMMA Parity ==
    ASSUME NEW n \in Nat
    PROVE  /\ n % 2 # 0 => n % 2 = 1 /\ (n + 1) % 2 = 0 /\ n \in 1..n
           /\ n > 1 => (n - 2) % 2 = n % 2
  OBVIOUS
\* A half frame written is what the writer is at; two of them are read together.
LEMMA WritePipe ==
    ASSUME MuxInv, NEW x \in Parties, Mux!Write(x), Open' => Open
    PROVE  MuxPipe'
<1>1. /\ HostTyped /\ MuxPipe /\ stdin \in Seq(Halves) /\ Len(stdin) \in Nat /\ x # None
      /\ Mux!At(x) \in {"header", "body"} /\ Open /\ x = writer
      /\ stdin' = Append(stdin, <<x, Mux!At(x)>>)
  BY CallsAndRequests DEF MuxInv, PipesTyped, Mux!Write, Open, MuxPipe
<1>2. <<x, Mux!At(x)>> \in Halves
  BY <1>1 DEF Halves
<1>3. /\ stdin' \in Seq(Halves) /\ Len(stdin') = Len(stdin) + 1 /\ stdin'[Len(stdin) + 1] = <<x, Mux!At(x)>>
      /\ \A i \in 1..Len(stdin) : stdin'[i] = stdin[i]
  BY <1>1, <1>2, Appended
<1>4. DOMAIN stdin = 1..Len(stdin) /\ DOMAIN stdin' = 1..Len(stdin) + 1
  BY <1>1, <1>3
<1>5. ASSUME IF (Len(stdin) + 1) % 2 = 1 THEN stdin'[Len(stdin) + 1][2] = "header"
             ELSE stdin'[Len(stdin) + 1] = <<stdin'[Len(stdin)][1], "body">>
      PROVE  Paired'
  <2> SUFFICES ASSUME NEW i \in 1..Len(stdin) + 1
               PROVE  IF i % 2 = 1 THEN stdin'[i][2] = "header" ELSE stdin'[i] = <<stdin'[i - 1][1], "body">>
    BY <1>4 DEF Paired
  <2>1. CASE i = Len(stdin) + 1
    BY <1>1, <1>5, <2>1
  <2>2. CASE i # Len(stdin) + 1
    <3>1. i \in 1..Len(stdin) /\ stdin'[i] = stdin[i]
      BY <1>1, <1>3, <2>2
    <3>2. i % 2 = 0 => i - 1 \in 1..Len(stdin)
      BY <1>1, <3>1
    <3>3. IF i % 2 = 1 THEN stdin[i][2] = "header" ELSE stdin[i] = <<stdin[i - 1][1], "body">>
      BY <1>1, <1>4, <3>1 DEF MuxPipe, Paired
    <3>4. i % 2 \in {0, 1}
      BY <1>1
    <3> QED
      BY <1>3, <3>1, <3>2, <3>3, <3>4
  <2> QED
    BY <2>1, <2>2
<1>6. CASE Mux!At(x) = "header"
  <2>1. Mux!Goes(x, "body") /\ writer' = x
    BY <1>1, <1>6 DEF Mux!Write
  <2>2. Now(x) = "body" /\ \A y \in Parties \ {x} : Now(y) = Mux!At(y)
    BY <1>1, <2>1, WriterPlaces
  <2>3. Len(stdin) % 2 = 0 /\ (Len(stdin) + 1) % 2 = 1
    BY <1>1, <1>6 DEF MuxPipe
  <2>4. Paired'
    BY <1>3, <1>5, <1>6, <2>3
  <2>5. (\A y \in Parties : Mux!At(y) \in {"header", "body"} <=> y = writer)'
    BY <1>1, <2>1, <2>2 DEF Now, Mux!At, MuxPipe
  <2>6. Len(stdin') % 2 = 1 /\ stdin'[Len(stdin')] = <<x, "header">>
    BY <1>3, <1>6, <2>3
  <2>7. Mux!At(writer)' = "body"
    BY <2>1, <2>2 DEF Now, Mux!At
  <2> QED
    BY <1>1, <2>1, <2>4, <2>5, <2>6, <2>7 DEF MuxPipe
<1>7. CASE Mux!At(x) = "body"
  <2>1. PICK p \in {"sent", "ended"} : Mux!Goes(x, p) /\ writer' = None
    BY <1>7 DEF Mux!Write
  <2>2. Now(x) = p /\ \A y \in Parties \ {x} : Now(y) = Mux!At(y)
    BY <1>1, <2>1, WriterPlaces
  <2>3. Len(stdin) % 2 = 1 /\ (Len(stdin) + 1) % 2 = 0 /\ Len(stdin) \in 1..Len(stdin)
    <3>1. Len(stdin) % 2 # 0
      BY <1>1, <1>7 DEF MuxPipe
    <3> QED
      BY <1>1, <3>1, Parity
  <2>4. stdin[Len(stdin)] = <<x, "header">> /\ stdin'[Len(stdin)] = stdin[Len(stdin)]
    BY <1>1, <1>3, <2>3 DEF MuxPipe
  <2>5. Paired'
    BY <1>3, <1>5, <1>7, <2>3, <2>4
  <2>6. (\A y \in Parties : Mux!At(y) \in {"header", "body"} <=> y = writer)'
    BY <1>1, <2>1, <2>2, CallsAndRequests DEF Now, Mux!At, MuxPipe
  <2>7. Len(stdin') % 2 = 0
    BY <1>3, <2>3
  <2> QED
    BY <2>1, <2>5, <2>6, <2>7 DEF MuxPipe
<1> QED
  BY <1>1, <1>6, <1>7
LEMMA ReadsPipe ==
    ASSUME MuxInv, Mux!SidecarReads, Open' => Open
    PROVE  MuxPipe'
<1>1. /\ HostTyped /\ PipesTyped /\ MuxPipe /\ stdin \in Seq(Halves) /\ Len(stdin) \in Nat /\ Len(stdin) > 1
      /\ stdin' = SubSeq(stdin, 3, Len(stdin)) /\ UNCHANGED <<call, handler, writer>> /\ StdinBegun
      /\ writer \in Parties \union {None}
  BY DEF MuxInv, PipesTyped, HostTyped, Mux!SidecarReads, Mux!HostUnchanged, MuxOwn
<1>2. /\ stdin' \in Seq(Halves) /\ Len(stdin') = Len(stdin) - 2
      /\ \A i \in 1..Len(stdin) - 2 : stdin'[i] = stdin[i + 2]
  BY <1>1, ReadsHead
<1>3. DOMAIN stdin = 1..Len(stdin) /\ DOMAIN stdin' = 1..Len(stdin) - 2
  BY <1>1, <1>2
<1>4. Paired'
  <2> SUFFICES ASSUME NEW i \in 1..Len(stdin) - 2
               PROVE  IF i % 2 = 1 THEN stdin'[i][2] = "header" ELSE stdin'[i] = <<stdin'[i - 1][1], "body">>
    BY <1>3 DEF Paired
  <2>1. i + 2 \in DOMAIN stdin /\ i \in Nat /\ stdin'[i] = stdin[i + 2]
    BY <1>1, <1>2, <1>3
  <2>2. IF (i + 2) % 2 = 1 THEN stdin[i + 2][2] = "header" ELSE stdin[i + 2] = <<stdin[(i + 2) - 1][1], "body">>
    BY <1>1, <2>1 DEF MuxPipe, Paired
  <2>3. (i + 2) % 2 = i % 2 /\ (i % 2 = 1 \/ (i - 1 \in 1..Len(stdin) - 2 /\ (i - 1) + 2 = (i + 2) - 1))
    BY <1>1, <2>1
  <2>4. i % 2 = 1 \/ stdin'[i - 1] = stdin[(i + 2) - 1]
    BY <1>2, <2>3
  <2> QED
    BY <2>1, <2>2, <2>3, <2>4
<1>5. (\A x \in Parties : Mux!At(x) \in {"header", "body"} <=> x = writer)'
  BY <1>1 DEF MuxPipe, Mux!At
<1>6. writer # None => Mux!At(writer)' = Mux!At(writer)
  BY <1>1 DEF Mux!At
<1>7. Len(stdin') % 2 = Len(stdin) % 2
  BY <1>1, <1>2, Parity
<1>8. Len(stdin) % 2 = 1 => stdin'[Len(stdin')] = stdin[Len(stdin)]
  <2>1. ASSUME Len(stdin) % 2 = 1 PROVE Len(stdin) - 2 \in 1..Len(stdin) - 2 /\ (Len(stdin) - 2) + 2 = Len(stdin)
    BY <1>1, <2>1
  <2> QED
    BY <1>2, <2>1
<1>9. (Open /\ Len(stdin) % 2 = 1 => writer # None /\ stdin[Len(stdin)] = <<writer, "header">> /\ Mux!At(writer) = "body")'
  BY <1>1, <1>6, <1>7, <1>8 DEF MuxPipe
<1>10. (Open /\ Len(stdin) % 2 = 0 /\ writer # None => Mux!At(writer) = "header")'
  BY <1>1, <1>6, <1>7 DEF MuxPipe
<1> QED
  BY <1>4, <1>5, <1>9, <1>10, Zenon DEF MuxPipe

LEMMA PipeStep ==
    ASSUME MuxInv, Mux!Next
    PROVE  MuxPipe'
<1>1. Open' => Open
  BY NeverReopens
<1>2. HostTyped /\ MuxPipe /\ writer \in Parties \union {None}
  BY DEF MuxInv, HostTyped
<1>3. CASE Others
  <2>1. CASE Mux!SidecarReads
    BY <1>1, <2>1, ReadsPipe
  <2>2. CASE ~Mux!SidecarReads
    <3>1. UNCHANGED <<stdin, writer>>
      BY <1>3, <2>2 DEF Others, Mux!Call, Mux!Cancel, Mux!Wait, Mux!Select, Mux!ReadEnds, Mux!CloseAll, Mux!Handle,
           Mux!HandledNested, Mux!SidecarAsks, Mux!SidecarAnswers, Mux!SidecarSays, Mux!SidecarStalls, Mux!Exit,
           Mux!WaitCloses, Mux!Shutdown, Mux!Listen, Mux!HostUnchanged
    <3>2. \A x \in Parties : Now(x) \in {"header", "body"} \/ Mux!At(x) \in {"header", "body"} => Now(x) = Mux!At(x)
      BY <1>2, <1>3, PlacesKept DEF KeepsPlace
    <3> QED
      BY <1>1, <1>2, <3>1, <3>2, PipeKept
  <2> QED
    BY <2>1, <2>2
<1>4. CASE Mux!ReadFrame
  <2>1. UNCHANGED <<stdin, writer>>
    BY <1>4 DEF Mux!ReadFrame
  <2> QED
    BY <1>1, <1>2, <1>4, <2>1, ReadPlaces, PipeKept
<1>5. ASSUME NEW x \in Parties, Mux!Acquire(x) PROVE MuxPipe'
  <2>1. writer = None /\ writer' = x /\ Mux!At(x) = "lock" /\ Mux!Goes(x, "header") /\ stdin' = stdin /\ x # None
    BY <1>5, CallsAndRequests DEF Mux!Acquire, Mux!Free
  <2>2. Now(x) = "header" /\ \A y \in Parties \ {x} : Now(y) = Mux!At(y)
    BY <1>2, <2>1, WriterPlaces
  <2>3. (\A y \in Parties : Mux!At(y) \in {"header", "body"} <=> y = writer)'
    BY <1>2, <2>1, <2>2, CallsAndRequests DEF Now, Mux!At, MuxPipe
  <2>4. Mux!At(writer)' = "header"
    BY <2>1, <2>2 DEF Now, Mux!At
  <2>5. Open' => Len(stdin') % 2 # 1
    BY <1>1, <1>2, <2>1 DEF MuxPipe
  <2>6. Paired'
    BY <1>2, <2>1 DEF MuxPipe, Paired
  <2> QED
    BY <2>3, <2>4, <2>5, <2>6 DEF MuxPipe
<1>6. ASSUME NEW x \in Parties, Mux!Write(x) PROVE MuxPipe'
  BY <1>1, <1>6, WritePipe
<1>7. ASSUME NEW x \in Parties, Mux!WriteFails(x) PROVE MuxPipe'
  <2>1. writer' = None /\ Mux!At(x) \in {"header", "body"} /\ ~Open /\ UNCHANGED stdin
    BY <1>7 DEF Mux!WriteFails, Open
  <2>2. Now(x) = "ended" /\ \A y \in Parties \ {x} : Now(y) = Mux!At(y)
    BY <1>2, <1>7, FailedPlaces
  <2>3. (\A y \in Parties : Mux!At(y) \in {"header", "body"} <=> y = writer)'
    BY <1>2, <2>1, <2>2, CallsAndRequests DEF Now, Mux!At, MuxPipe
  <2>4. Paired'
    BY <1>2, <2>1 DEF MuxPipe, Paired
  <2> QED
    BY <1>1, <2>1, <2>3, <2>4 DEF MuxPipe
<1> QED
  BY <1>3, <1>4, <1>5, <1>6, <1>7 DEF Mux!Next, Others, Parties

LEMMA AskedStep ==
    ASSUME MuxInv, Mux!Next
    PROVE  Asked'
<1>1. /\ HostTyped /\ Asked /\ stdout \in Seq(Mux!Frames) /\ Len(stdout) \in Nat /\ DOMAIN stdout = 1..Len(stdout)
      /\ \A i \in DOMAIN stdout : stdout[i].kind = "request" => stdout[i].from \in Requests
  BY DEF MuxInv, PipesTyped, MuxOwn, StdoutAnswers, Answers
<1>2. ASSUME UNCHANGED stdout, \A r \in Requests : handler[r] = "off" => handler'[r] = "off"
      PROVE  Asked'
  BY <1>1, <1>2 DEF Asked
<1>3. CASE Mux!ReadFrame
  <2>1. stdout # <<>> /\ stdout' = Tail(stdout)
    BY <1>3 DEF Mux!ReadFrame
  <2>2. /\ stdout' \in Seq(Mux!Frames) /\ Len(stdout') = Len(stdout) - 1 /\ Len(stdout) > 0
        /\ \A i \in 1..Len(stdout) - 1 : stdout'[i] = stdout[i + 1]
    BY <1>1, <2>1, Shifted
  <2>3. \A i \in DOMAIN stdout' : i + 1 \in DOMAIN stdout \ {1} /\ stdout'[i] = stdout[i + 1] /\ i \in Nat
    BY <1>1, <2>2
  <2>4. \A i \in DOMAIN stdout' : stdout'[i].kind = "request" => handler'[stdout'[i].from] = "off"
    BY <1>3, <2>3, ReadPlaces
  <2>5. \A i, j \in DOMAIN stdout' : stdout'[i].kind = "request" /\ stdout'[j].kind = "request"
                                  /\ stdout'[i].from = stdout'[j].from => i = j
    <3> SUFFICES ASSUME NEW i \in DOMAIN stdout', NEW j \in DOMAIN stdout', stdout'[i].kind = "request",
                        stdout'[j].kind = "request", stdout'[i].from = stdout'[j].from
                 PROVE  i = j
      OBVIOUS
    <3>1. i + 1 = j + 1
      BY <1>1, <2>3 DEF Asked
    <3> QED
      BY <2>3, <3>1
  <2> QED
    BY <2>4, <2>5 DEF Asked
<1>4. ASSUME UNCHANGED handler, NEW f \in Mux!Frames, stdout' = Append(stdout, f),
             f.kind = "request" => f.from \in Requests /\ handler[f.from] = "off"
                                   /\ \A i \in DOMAIN stdout : stdout[i].from # f.from
      PROVE  Asked'
  <2>1. /\ stdout' \in Seq(Mux!Frames) /\ Len(stdout') = Len(stdout) + 1 /\ stdout'[Len(stdout) + 1] = f
        /\ \A i \in 1..Len(stdout) : stdout'[i] = stdout[i]
    BY <1>1, <1>4, Appended
  <2>2. \A i \in DOMAIN stdout' : (i \in DOMAIN stdout /\ stdout'[i] = stdout[i]) \/ (i = Len(stdout) + 1 /\ stdout'[i] = f)
    BY <1>1, <2>1
  <2>3. \A i \in DOMAIN stdout' : stdout'[i].kind = "request" => handler'[stdout'[i].from] = "off"
    BY <1>1, <1>4, <2>2 DEF Asked
  <2>4. \A i, j \in DOMAIN stdout' : stdout'[i].kind = "request" /\ stdout'[j].kind = "request"
                                  /\ stdout'[i].from = stdout'[j].from => i = j
    BY <1>1, <1>4, <2>2 DEF Asked
  <2> QED
    BY <2>3, <2>4 DEF Asked
<1>5. CASE Mux!SidecarAnswers
  <2>1. UNCHANGED handler /\ stdout' = Append(stdout, Mux!Frame("response", call[sidecar.at].id, sidecar.at))
        /\ sidecar.pc = "serve"
    BY <1>5 DEF Mux!SidecarAnswers, Mux!HostUnchanged
  <2>2. sidecar.at \in Calls /\ call[sidecar.at].id \in Nat
    BY <1>1, <2>1 DEF MuxInv, MuxOwn, SidecarBegun, HostTyped, CallRecord
  <2>3. PICK f : f = Mux!Frame("response", call[sidecar.at].id, sidecar.at)
    OBVIOUS
  <2>4. f \in Mux!Frames /\ f.kind = "response"
    BY <2>2, <2>3 DEF Mux!Frame, Mux!Frames
  <2> QED
    BY <1>4, <2>1, <2>3, <2>4
<1>6. ASSUME NEW r \in Requests, Mux!SidecarAsks(r) PROVE Asked'
  <2>1. UNCHANGED handler /\ stdout' = Append(stdout, Mux!Frame("request", 0, r)) /\ handler[r] = "off"
        /\ \A i \in DOMAIN stdout : stdout[i].from # r
    BY <1>6 DEF Mux!SidecarAsks, Mux!HostUnchanged
  <2>2. PICK f : f = Mux!Frame("request", 0, r)
    OBVIOUS
  <2>3. f \in Mux!Frames /\ f.from = r
    BY <2>2 DEF Mux!Frame, Mux!Frames
  <2> QED
    BY <1>4, <2>1, <2>2, <2>3
<1>7. CASE Mux!SidecarSays
  <2>1. UNCHANGED handler /\ \E m \in {"note", "garbage", "oversize"} : stdout' = Append(stdout, Mux!Frame(m, 0, None))
    BY <1>7 DEF Mux!SidecarSays, Mux!HostUnchanged
  <2>2. PICK m \in {"note", "garbage", "oversize"} : stdout' = Append(stdout, Mux!Frame(m, 0, None))
    BY <2>1
  <2>3. PICK f : f = Mux!Frame(m, 0, None)
    OBVIOUS
  <2>4. f \in Mux!Frames /\ f.kind # "request"
    BY <2>3 DEF Mux!Frame, Mux!Frames
  <2> QED
    BY <1>4, <2>1, <2>2, <2>3, <2>4
<1>8. CASE Mux!WaitCloses
  BY <1>8 DEF Mux!WaitCloses, Asked
<1>9. ASSUME Others, ~Mux!SidecarAnswers, ~Mux!SidecarSays, ~Mux!WaitCloses, ~\E r \in Requests : Mux!SidecarAsks(r)
      PROVE  Asked'
  <2>1. UNCHANGED stdout
    BY <1>9 DEF Others, Mux!Call, Mux!Cancel, Mux!Wait, Mux!Select, Mux!ReadEnds, Mux!CloseAll, Mux!Handle,
         Mux!HandledNested, Mux!SidecarReads, Mux!SidecarStalls, Mux!Exit, Mux!Shutdown, Mux!Listen, Mux!HostUnchanged
  <2>2. \A r \in Requests : handler[r] = "off" => handler'[r] = "off"
    BY <1>1, <1>9, PlacesKept, CallsAndRequests DEF KeepsPlace, Now, Mux!At, Parties
  <2> QED
    BY <1>2, <2>1, <2>2
<1>10. ASSUME NEW x \in Parties, Mux!Acquire(x) \/ Mux!Write(x) PROVE Asked'
  <2>1. PICK p \in {"header", "body", "sent", "ended"} : Mux!Goes(x, p)
    BY <1>10 DEF Mux!Acquire, Mux!Write
  <2>2. UNCHANGED stdout /\ Mux!At(x) \in {"lock", "header", "body"}
    BY <1>10 DEF Mux!Acquire, Mux!Write
  <2>3. \A y \in Parties \ {x} : Now(y) = Mux!At(y)
    BY <1>1, <2>1, WriterPlaces
  <2>4. \A r \in Requests : handler[r] = "off" => handler'[r] = "off"
    BY <2>2, <2>3, CallsAndRequests DEF Now, Mux!At, Parties
  <2> QED
    BY <1>2, <2>2, <2>4
<1>11. ASSUME NEW x \in Parties, Mux!WriteFails(x) PROVE Asked'
  <2>1. UNCHANGED stdout /\ Mux!At(x) \in {"lock", "header", "body"}
    BY <1>11 DEF Mux!WriteFails
  <2>2. \A y \in Parties \ {x} : Now(y) = Mux!At(y)
    BY <1>1, <1>11, FailedPlaces
  <2>3. \A r \in Requests : handler[r] = "off" => handler'[r] = "off"
    BY <2>1, <2>2, CallsAndRequests DEF Now, Mux!At, Parties
  <2> QED
    BY <1>2, <2>1, <2>3
<1> QED
  BY <1>3, <1>5, <1>6, <1>7, <1>8, <1>9, <1>10, <1>11 DEF Mux!Next, Others, Parties

\* The request of a call goes on as long as it is read, and comes back as its answer.
LEMMA StillLies ==
    ASSUME NEW S, NEW s \in Seq(S), NEW e \in S, NEW d
    PROVE  Lies(Append(s, e), e) /\ (Lies(s, d) => Lies(Append(s, e), d))
<1>1. PICK t : t = Append(s, e)
  OBVIOUS
<1>2. Len(s) + 1 \in DOMAIN t /\ t[Len(s) + 1] = e /\ \A i \in DOMAIN s : i \in DOMAIN t /\ t[i] = s[i]
  BY <1>1, Appended
<1> QED
  BY <1>1, <1>2 DEF Lies
LEMMA ReadsOne ==
    ASSUME MuxInv, Mux!SidecarReads
    PROVE  /\ stdin[1][1] \in Parties /\ Head(stdin)[1] = stdin[1][1]
           /\ \A x \in Parties : Lies(stdin, <<x, "body">>) => x = stdin[1][1] \/ Lies(stdin', <<x, "body">>)
<1>1. /\ PipesTyped /\ StdinBegun /\ Paired /\ stdin \in Seq(Halves) /\ Len(stdin) \in Nat /\ Len(stdin) > 1
      /\ stdin' = SubSeq(stdin, 3, Len(stdin))
  BY DEF MuxInv, MuxPipe, MuxOwn, PipesTyped, Mux!SidecarReads
<1>2. /\ stdin' \in Seq(Halves) /\ Len(stdin') = Len(stdin) - 2 /\ Head(stdin) = stdin[1] /\ stdin[1][1] \in Parties
      /\ \A i \in 1..Len(stdin) - 2 : stdin'[i] = stdin[i + 2]
  BY <1>1, ReadsHead
<1>3. stdin[1][2] = "header" /\ stdin[2] = <<stdin[1][1], "body">>
  <2>1. 1 \in DOMAIN stdin /\ 2 \in DOMAIN stdin /\ 1 % 2 = 1 /\ 2 % 2 # 1 /\ 2 - 1 = 1
    BY <1>1
  <2> QED
    BY <1>1, <2>1 DEF Paired
<1>4. ASSUME NEW x \in Parties, NEW i \in DOMAIN stdin, stdin[i] = <<x, "body">>
      PROVE  x = stdin[1][1] \/ Lies(stdin', <<x, "body">>)
  <2>1. CASE i = 1
    BY <1>3, <1>4, <2>1
  <2>2. CASE i = 2
    BY <1>3, <1>4, <2>2
  <2>3. CASE i > 2
    <3>1. i - 2 \in 1..Len(stdin) - 2 /\ (i - 2) + 2 = i /\ i - 2 \in DOMAIN stdin'
      BY <1>1, <1>2, <2>3
    <3>2. stdin'[i - 2] = <<x, "body">>
      BY <1>2, <1>4, <3>1
    <3> QED
      BY <3>1, <3>2 DEF Lies
  <2>4. i \in Nat /\ i > 0
    BY <1>1
  <2> QED
    BY <2>1, <2>2, <2>3, <2>4
<1> QED
  BY <1>2, <1>4 DEF Lies
LEMMA StillResponds ==
    ASSUME NEW f \in Mux!Frames, stdout \in Seq(Mux!Frames), stdout' = Append(stdout, f)
    PROVE  /\ \A k \in Calls : Response(k) => Response(k)'
           /\ \A r \in Requests : Asks(r) => Asks(r)'
           /\ f.kind = "response" => Response(f.from)'
           /\ f.kind = "request" => Asks(f.from)'
<1>1. /\ \A i \in DOMAIN stdout : i \in DOMAIN stdout' /\ stdout'[i] = stdout[i]
      /\ Len(stdout) + 1 \in DOMAIN stdout' /\ stdout'[Len(stdout) + 1] = f
  BY Appended
<1> QED
  BY <1>1 DEF Response, Asks
LEMMA SaidFrames ==
    ASSUME MuxInv, Mux!SidecarAnswers \/ Mux!SidecarSays \/ \E r \in Requests : Mux!SidecarAsks(r)
    PROVE  \E f \in Mux!Frames : stdout' = Append(stdout, f)
<1>1. CASE Mux!SidecarAnswers
  <2>1. stdout' = Append(stdout, Mux!Frame("response", call[sidecar.at].id, sidecar.at)) /\ sidecar.pc = "serve"
    BY <1>1 DEF Mux!SidecarAnswers
  <2>2. sidecar.at \in Calls /\ call[sidecar.at].id \in Nat
    BY <2>1 DEF MuxInv, MuxOwn, SidecarBegun, HostTyped, CallRecord
  <2>3. Mux!Frame("response", call[sidecar.at].id, sidecar.at) \in Mux!Frames
    BY <2>2 DEF Mux!Frame, Mux!Frames
  <2> QED
    BY <2>1, <2>3
<1>2. CASE Mux!SidecarSays
  <2>1. PICK m \in {"note", "garbage", "oversize"} : stdout' = Append(stdout, Mux!Frame(m, 0, None))
    BY <1>2 DEF Mux!SidecarSays
  <2>2. Mux!Frame(m, 0, None) \in Mux!Frames
    BY DEF Mux!Frame, Mux!Frames
  <2> QED
    BY <2>1, <2>2
<1>3. ASSUME NEW r \in Requests, Mux!SidecarAsks(r) PROVE \E f \in Mux!Frames : stdout' = Append(stdout, f)
  <2>1. Mux!Frame("request", 0, r) \in Mux!Frames
    BY DEF Mux!Frame, Mux!Frames
  <2> QED
    BY <1>3, <2>1 DEF Mux!SidecarAsks
<1> QED
  BY <1>1, <1>2, <1>3

LEMMA UnderwayStep ==
    ASSUME MuxInv, Mux!Next, NEW k \in Calls, Underway(k), call[k].pc \in {"sent", "wait"}, reader = "read",
           sidecar'.pc \notin {"stalled", "dead"}
    PROVE  Underway(k)' \/ answer'[k] # <<>>
<1>1. /\ stdin \in Seq(Halves) /\ sidecar \in Process /\ sidecar.todo \in Seq(Calls) /\ stdout \in Seq(Mux!Frames)
      /\ ~done /\ SidecarBegun /\ StdoutAnswers /\ k # None /\ Begun(k)
  BY CallsAndRequests DEF MuxInv, PipesTyped, Process, MuxServes, MuxOwn, Begun
<1>2. ASSUME UNCHANGED <<stdin, sidecar, stdout>> PROVE Underway(k)'
  BY <1>2 DEF Underway, Response
<1>3. ASSUME NEW x \in Parties, Mux!Write(x) PROVE Underway(k)'
  <2>1. stdin' = Append(stdin, <<x, Mux!At(x)>>) /\ <<x, Mux!At(x)>> \in Halves /\ UNCHANGED <<sidecar, stdout>>
    BY <1>3 DEF Mux!Write, Halves
  <2>2. Lies(stdin, <<k, "body">>) => Lies(stdin', <<k, "body">>)
    BY <1>1, <2>1, StillLies
  <2> QED
    BY <2>1, <2>2 DEF Underway, Response
<1>4. CASE Mux!SidecarReads
  <2>1. PICK x \in Parties : x = Head(stdin)[1] /\ x = stdin[1][1]
    BY <1>4, ReadsOne
  <2>2. /\ sidecar.pc \in {"idle", "ask"} /\ stdout' = stdout
        /\ \/ x \in Calls /\ sidecar.pc = "idle" /\ Mux!Sidecar("serve", x, <<>>)
           \/ x \in Calls /\ sidecar.pc = "ask" /\ Mux!Sidecar("ask", sidecar.at, Append(sidecar.todo, x))
           \/ x \in Requests /\ \E pc \in {"serve", "idle"} : Mux!Sidecar(pc, sidecar.at, sidecar.todo)
    BY <1>4, <2>1 DEF Mux!SidecarReads
  <2>3. sidecar.pc = "idle" => sidecar.at = None /\ sidecar.todo = <<>>
    BY <1>1 DEF SidecarBegun
  <2>4. CASE Lies(stdin, <<k, "body">>)
    <3>1. CASE Lies(stdin', <<k, "body">>)
      BY <3>1 DEF Underway
    <3>2. CASE x = k
      <4>1. \/ sidecar' = [pc |-> "serve", at |-> k, todo |-> <<>>]
            \/ sidecar' = [pc |-> "ask", at |-> sidecar.at, todo |-> Append(sidecar.todo, k)]
        BY <2>2, <3>2, CallsAndRequests DEF Mux!Sidecar
      <4>2. PICK t : t = Append(sidecar.todo, k)
        OBVIOUS
      <4>3. Lies(t, k)
        BY <1>1, <4>2, StillLies
      <4>4. sidecar'.at = k \/ sidecar'.todo = t
        BY <4>1, <4>2
      <4>5. sidecar'.at = k \/ Lies(sidecar'.todo, k)
        BY <4>3, <4>4 DEF Lies
      <4> QED
        BY <4>5 DEF Underway
    <3> QED
      BY <1>4, <2>1, <2>4, <3>1, <3>2, ReadsOne DEF Parties
  <2>5. CASE sidecar.at = k
    <3>1. sidecar.pc = "ask"
      BY <1>1, <2>2, <2>3, <2>5
    <3>2. sidecar'.at = k
      BY <2>2, <2>5, <3>1 DEF Mux!Sidecar
    <3> QED
      BY <3>2 DEF Underway
  <2>6. CASE Lies(sidecar.todo, k)
    <3>1. sidecar.pc = "ask"
      BY <2>2, <2>3, <2>6 DEF Lies
    <3>2. \/ sidecar'.todo = sidecar.todo
          \/ x \in Calls /\ sidecar'.todo = Append(sidecar.todo, x)
      BY <2>2, <3>1 DEF Mux!Sidecar
    <3>3. Lies(sidecar'.todo, k)
      <4>1. PICK t : t = Append(sidecar.todo, x)
        OBVIOUS
      <4>2. x \in Calls => Lies(t, k)
        BY <1>1, <2>6, <4>1, StillLies
      <4>3. sidecar'.todo = sidecar.todo \/ (x \in Calls /\ sidecar'.todo = t)
        BY <3>2, <4>1
      <4> QED
        BY <2>6, <4>2, <4>3 DEF Lies
    <3> QED
      BY <3>3 DEF Underway
  <2>7. CASE Response(k)
    BY <2>2, <2>7 DEF Underway, Response
  <2> QED
    BY <2>4, <2>5, <2>6, <2>7 DEF Underway
<1>5. CASE Mux!SidecarAnswers
  <2>1. /\ stdout' = Append(stdout, Mux!Frame("response", call[sidecar.at].id, sidecar.at)) /\ stdin' = stdin
        /\ sidecar.pc = "serve"
        /\ IF sidecar.todo = <<>> THEN Mux!Sidecar("idle", None, <<>>)
           ELSE Mux!Sidecar("serve", Head(sidecar.todo), Tail(sidecar.todo))
    BY <1>5 DEF Mux!SidecarAnswers
  <2>2. PICK f \in Mux!Frames : stdout' = Append(stdout, f)
    BY <1>5, SaidFrames
  <2>3. CASE Lies(stdin, <<k, "body">>)
    BY <2>1, <2>3 DEF Underway
  <2>4. CASE sidecar.at = k
    <3>1. PICK g : g = Mux!Frame("response", call[sidecar.at].id, sidecar.at)
      OBVIOUS
    <3>2. call[k].id \in Nat
      BY DEF MuxInv, HostTyped, CallRecord
    <3>3. g \in Mux!Frames /\ g.kind = "response" /\ g.from = k
      BY <2>4, <3>1, <3>2 DEF Mux!Frame, Mux!Frames
    <3>4. Response(k)'
      BY <1>1, <2>1, <3>1, <3>3, StillResponds
    <3> QED
      BY <3>4 DEF Underway
  <2>5. CASE Lies(sidecar.todo, k)
    <3>1. PICK s \in Seq(Calls) : s = sidecar.todo
      BY <1>1
    <3>2. PICK i \in DOMAIN s : s[i] = k
      BY <2>5, <3>1 DEF Lies
    <3>3. s # <<>> /\ i \in Nat /\ i \in 1..Len(s) /\ Len(s) \in Nat
      BY <3>2
    <3>4. sidecar'.at = Head(s) /\ sidecar'.todo = Tail(s)
      BY <2>1, <3>1, <3>3 DEF Mux!Sidecar
    <3>5. Tail(s) \in Seq(Calls) /\ Len(Tail(s)) = Len(s) - 1 /\ Head(s) = s[1] /\ \A j \in 1..Len(s) - 1 : Tail(s)[j] = s[j + 1]
      BY <3>3, Shifted
    <3>6. i = 1 \/ (i - 1 \in 1..Len(s) - 1 /\ (i - 1) + 1 = i /\ i - 1 \in DOMAIN Tail(s))
      BY <3>3, <3>5
    <3>7. i = 1 \/ Tail(s)[i - 1] = k
      BY <3>2, <3>5, <3>6
    <3>8. sidecar'.at = k \/ Lies(sidecar'.todo, k)
      BY <3>2, <3>4, <3>5, <3>6, <3>7 DEF Lies
    <3> QED
      BY <3>8 DEF Underway
  <2>6. CASE Response(k)
    <3>1. Response(k)'
      BY <1>1, <2>2, <2>6, StillResponds
    <3> QED
      BY <3>1 DEF Underway
  <2> QED
    BY <2>3, <2>4, <2>5, <2>6 DEF Underway
<1>6. ASSUME Mux!SidecarSays \/ \E r \in Requests : Mux!SidecarAsks(r) PROVE Underway(k)'
  <2>1. PICK f \in Mux!Frames : stdout' = Append(stdout, f)
    BY <1>6, SaidFrames
  <2>2. stdin' = stdin /\ sidecar'.at = sidecar.at /\ sidecar'.todo = sidecar.todo
    BY <1>6 DEF Mux!SidecarSays, Mux!SidecarAsks, Mux!Sidecar
  <2>3. Response(k) => Response(k)'
    BY <1>1, <2>1, StillResponds
  <2> QED
    BY <2>2, <2>3 DEF Underway
<1>7. CASE Mux!ReadFrame
  <2>1. stdout # <<>> /\ stdout' = Tail(stdout) /\ UNCHANGED <<stdin, sidecar>>
    BY <1>7 DEF Mux!ReadFrame
  <2>2. /\ stdout' \in Seq(Mux!Frames) /\ Len(stdout') = Len(stdout) - 1 /\ Head(stdout) = stdout[1] /\ Len(stdout) \in Nat
        /\ \A i \in 1..Len(stdout) - 1 : stdout'[i] = stdout[i + 1]
    BY <1>1, <2>1, Shifted
  <2>3. CASE Response(k)
    <3>1. PICK i \in DOMAIN stdout : stdout[i].kind = "response" /\ stdout[i].from = k
      BY <2>3 DEF Response
    <3>2. CASE i = 1
      <4>1. Mux!Deliver(call[k].id, k)
        BY <1>1, <1>7, <2>2, <3>1, <3>2 DEF Mux!ReadFrame, StdoutAnswers, Answers
      <4> QED
        BY <1>1, <4>1, Delivered
    <3>3. CASE i # 1
      <4>1. i - 1 \in 1..Len(stdout) - 1 /\ (i - 1) + 1 = i /\ i - 1 \in DOMAIN stdout'
        BY <1>1, <2>2, <3>3
      <4>2. stdout'[i - 1] = stdout[i]
        BY <2>2, <4>1
      <4>3. Response(k)'
        BY <3>1, <4>1, <4>2 DEF Response
      <4> QED
        BY <4>3 DEF Underway
    <3> QED
      BY <3>2, <3>3
  <2>4. CASE ~Response(k)
    BY <2>1, <2>4 DEF Underway
  <2> QED
    BY <2>3, <2>4
<1>8. ~(Mux!SidecarStalls \/ Mux!Exit)
  BY DEF Mux!SidecarStalls, Mux!Exit, Mux!Sidecar
<1>9. ASSUME Mux!WaitCloses PROVE FALSE
  BY <1>9 DEF Mux!WaitCloses, Mux!Alive
<1>10. ASSUME \/ \E j \in Calls : Mux!Call(j) \/ Mux!Cancel(j) \/ Mux!Wait(j) \/ Mux!Select(j)
              \/ \E x \in Parties : Mux!Acquire(x) \/ Mux!WriteFails(x)
              \/ Mux!ReadEnds \/ Mux!CloseAll \/ Mux!Shutdown \/ Mux!Listen
              \/ \E r \in Requests : Mux!Handle(r) \/ Mux!HandledNested(r)
       PROVE  UNCHANGED <<stdin, sidecar, stdout>>
  BY <1>10 DEF Mux!Call, Mux!Cancel, Mux!Wait, Mux!Select, Mux!Acquire, Mux!WriteFails, Mux!ReadEnds,
       Mux!CloseAll, Mux!Shutdown, Mux!Listen, Mux!Handle, Mux!HandledNested
<1> QED
  BY <1>2, <1>3, <1>4, <1>5, <1>6, <1>7, <1>8, <1>9, <1>10 DEF Mux!Next, Parties

\* A request of the sidecar goes on until the host's answer lies in the pipe.
LEMMA ServingStep ==
    ASSUME MuxInv, Mux!Next, NEW r \in Requests, Serving(r), sidecar.pc = "ask", sidecar'.pc = "ask", stdinOpen
    PROVE  Serving(r)'
<1>1. /\ HostTyped /\ stdin \in Seq(Halves) /\ stdout \in Seq(Mux!Frames) /\ r \in Parties /\ Open
      /\ stdout \in Seq(Mux!Frames)
  BY DEF MuxInv, PipesTyped, Parties, Open, Mux!Alive
<1>2. ASSUME UNCHANGED <<stdin, stdout>>, handler'[r] = handler[r] \/ handler'[r] \in Calls \union {"run", "lock", "header", "body"}
      PROVE  Serving(r)'
  BY <1>2 DEF Serving, Asks
<1>3. ASSUME NEW x \in Parties, Mux!Acquire(x) PROVE Serving(r)'
  <2>1. Mux!Goes(x, "header") /\ UNCHANGED <<stdin, stdout>>
    BY <1>3 DEF Mux!Acquire
  <2>2. Now(x) = "header" /\ \A y \in Parties \ {x} : Now(y) = Mux!At(y)
    BY <1>1, <2>1, WriterPlaces
  <2>3. handler'[r] = handler[r] \/ handler'[r] = "header"
    BY <1>1, <2>2, CallsAndRequests DEF Now, Mux!At
  <2> QED
    BY <1>2, <2>1, <2>3
<1>4. ASSUME NEW x \in Parties, Mux!Write(x) PROVE Serving(r)'
  <2>1. stdin' = Append(stdin, <<x, Mux!At(x)>>) /\ <<x, Mux!At(x)>> \in Halves /\ stdout' = stdout
        /\ Mux!At(x) \in {"header", "body"}
    BY <1>4 DEF Mux!Write, Halves
  <2>2. PICK p \in {"body", "sent", "ended"} : Mux!Goes(x, p) /\ (Mux!At(x) = "header" => p = "body")
    BY <1>4 DEF Mux!Write
  <2>3. Now(x) = p /\ \A y \in Parties \ {x} : Now(y) = Mux!At(y)
    BY <1>1, <2>2, WriterPlaces
  <2>4. /\ Lies(stdin, <<r, "body">>) => Lies(stdin', <<r, "body">>)
        /\ Lies(stdin', <<x, Mux!At(x)>>)
    BY <1>1, <2>1, StillLies
  <2>5. CASE x = r
    <3>1. CASE Mux!At(x) = "header"
      <4>1. handler'[r] = "body"
        BY <2>2, <2>3, <2>5, <3>1, CallsAndRequests DEF Now
      <4> QED
        BY <4>1 DEF Serving
    <3>2. CASE Mux!At(x) = "body"
      <4>1. Lies(stdin', <<r, "body">>)
        BY <2>4, <2>5, <3>2
      <4> QED
        BY <4>1 DEF Serving
    <3> QED
      BY <2>1, <3>1, <3>2
  <2>6. CASE x # r
    <3>1. handler'[r] = handler[r]
      BY <1>1, <2>3, <2>6, CallsAndRequests DEF Now, Mux!At
    <3> QED
      BY <2>1, <2>4, <3>1 DEF Serving, Asks
  <2> QED
    BY <2>5, <2>6
<1>5. ASSUME NEW x \in Parties, Mux!WriteFails(x) PROVE FALSE
  BY <1>1, <1>5 DEF Mux!WriteFails, Open
<1>6. CASE Mux!SidecarReads
  <2>1. PICK x \in Parties : x = Head(stdin)[1] /\ x = stdin[1][1]
    BY <1>6, ReadsOne
  <2>2. UNCHANGED <<stdout, handler>> /\ (x \in Requests => sidecar'.pc = "serve")
    BY <1>6, <2>1, CallsAndRequests DEF Mux!SidecarReads, Mux!Sidecar, Mux!HostUnchanged
  <2>3. x # r
    BY <2>2
  <2>4. Lies(stdin, <<r, "body">>) => Lies(stdin', <<r, "body">>)
    BY <1>1, <1>6, <2>1, <2>3, ReadsOne
  <2> QED
    BY <2>2, <2>4 DEF Serving, Asks
<1>7. ASSUME Mux!SidecarSays PROVE Serving(r)'
  <2>1. PICK f \in Mux!Frames : stdout' = Append(stdout, f)
    BY <1>7, SaidFrames
  <2>2. Asks(r) => Asks(r)'
    BY <1>1, <2>1, StillResponds
  <2>3. UNCHANGED <<stdin, handler>>
    BY <1>7 DEF Mux!SidecarSays, Mux!HostUnchanged
  <2> QED
    BY <2>2, <2>3 DEF Serving
<1>8. CASE Mux!ReadFrame
  <2>1. stdout # <<>> /\ stdout' = Tail(stdout) /\ stdin' = stdin
    BY <1>8 DEF Mux!ReadFrame
  <2>2. /\ stdout' \in Seq(Mux!Frames) /\ Len(stdout') = Len(stdout) - 1 /\ Len(stdout) \in Nat
        /\ \A i \in 1..Len(stdout) - 1 : stdout'[i] = stdout[i + 1]
    BY <1>1, <2>1, Shifted
  <2>3. CASE Asks(r)
    <3>1. PICK i \in DOMAIN stdout : stdout[i].kind = "request" /\ stdout[i].from = r
      BY <2>3 DEF Asks
    <3>2. CASE i = 1
      <4>1. handler'[r] = "run"
        BY <1>8, <3>1, <3>2, ReadPlaces
      <4> QED
        BY <4>1 DEF Serving
    <3>3. CASE i # 1
      <4>1. i - 1 \in 1..Len(stdout) - 1 /\ (i - 1) + 1 = i /\ i - 1 \in DOMAIN stdout'
        BY <1>1, <2>2, <3>3
      <4>2. stdout'[i - 1] = stdout[i]
        BY <2>2, <4>1
      <4>3. Asks(r)'
        BY <3>1, <4>1, <4>2 DEF Asks
      <4> QED
        BY <4>3 DEF Serving
    <3> QED
      BY <3>2, <3>3
  <2>4. CASE ~Asks(r)
    <3>1. handler'[r] = handler[r] \/ handler'[r] = "run"
      BY <1>8, ReadPlaces
    <3> QED
      BY <2>1, <2>4, <3>1 DEF Serving
  <2> QED
    BY <2>3, <2>4
<1>9. ASSUME NEW q \in Requests, Mux!Handle(q) \/ Mux!HandledNested(q) PROVE Serving(r)'
  <2>1. UNCHANGED <<stdin, stdout>> /\ \E p \in Calls \union {"lock"} : handler' = [handler EXCEPT ![q] = p]
    BY <1>9 DEF Mux!Handle, Mux!HandledNested
  <2>2. handler'[r] = handler[r] \/ handler'[r] \in Calls \union {"run", "lock", "header", "body"}
    BY <1>1, <2>1 DEF HostTyped
  <2> QED
    BY <1>2, <2>1, <2>2
<1>10. ~(Mux!SidecarAnswers \/ Mux!SidecarStalls \/ Mux!Exit \/ Mux!WaitCloses \/ \E q \in Requests : Mux!SidecarAsks(q))
  <2>1. ASSUME Mux!SidecarAnswers \/ \E q \in Requests : Mux!SidecarAsks(q) PROVE FALSE
    <3>1. sidecar.pc = "serve"
      BY <2>1 DEF Mux!SidecarAnswers, Mux!SidecarAsks
    <3> QED
      BY <3>1
  <2>2. ASSUME Mux!SidecarStalls \/ Mux!Exit \/ Mux!WaitCloses PROVE FALSE
    <3>1. CASE Mux!SidecarStalls
      BY <3>1 DEF Mux!SidecarStalls, Mux!Sidecar
    <3>2. CASE Mux!Exit
      BY <3>2 DEF Mux!Exit, Mux!Sidecar
    <3>3. CASE Mux!WaitCloses
      BY <3>3 DEF Mux!WaitCloses, Mux!Alive
    <3> QED
      BY <2>2, <3>1, <3>2, <3>3
  <2> QED
    BY <2>1, <2>2
<1>11. ASSUME \/ \E j \in Calls : Mux!Call(j) \/ Mux!Cancel(j) \/ Mux!Wait(j) \/ Mux!Select(j)
              \/ Mux!ReadEnds \/ Mux!CloseAll \/ Mux!Shutdown \/ Mux!Listen
       PROVE  UNCHANGED <<stdin, stdout, handler>>
  BY <1>11 DEF Mux!Call, Mux!Cancel, Mux!Wait, Mux!Select, Mux!ReadEnds, Mux!CloseAll, Mux!Shutdown, Mux!Listen
<1> QED
  BY <1>2, <1>3, <1>4, <1>5, <1>6, <1>7, <1>8, <1>9, <1>10, <1>11 DEF Mux!Next, Parties

LEMMA OnlyAsks ==
    ASSUME Mux!Next, sidecar.pc # "ask", sidecar'.pc = "ask"
    PROVE  \E r \in Requests : Mux!SidecarAsks(r)
<1>1. ~Mux!SidecarReads
  BY DEF Mux!SidecarReads, Mux!Sidecar
<1>2. ~(Mux!SidecarAnswers \/ Mux!SidecarStalls \/ Mux!Exit)
  BY DEF Mux!SidecarAnswers, Mux!SidecarStalls, Mux!Exit, Mux!Sidecar
<1>3. ~UNCHANGED sidecar
  OBVIOUS
<1>4. ASSUME \/ \E k \in Calls : Mux!Call(k) \/ Mux!Cancel(k) \/ Mux!Wait(k) \/ Mux!Select(k)
             \/ \E x \in Parties : Mux!Acquire(x) \/ Mux!Write(x) \/ Mux!WriteFails(x)
             \/ \E r \in Requests : Mux!Handle(r) \/ Mux!HandledNested(r)
             \/ Mux!ReadFrame \/ Mux!ReadEnds \/ Mux!CloseAll \/ Mux!SidecarSays \/ Mux!WaitCloses
             \/ Mux!Shutdown \/ Mux!Listen
      PROVE  UNCHANGED sidecar
  BY <1>4 DEF Mux!Call, Mux!Cancel, Mux!Wait, Mux!Select, Mux!Acquire, Mux!Write, Mux!WriteFails, Mux!Handle,
       Mux!HandledNested, Mux!ReadFrame, Mux!ReadEnds, Mux!CloseAll, Mux!SidecarSays, Mux!WaitCloses, Mux!Shutdown,
       Mux!Listen
<1> QED
  BY <1>1, <1>2, <1>3, <1>4 DEF Mux!Next, Parties
LEMMA ServesStep ==
    ASSUME MuxInv, Mux!Next
    PROVE  MuxServes'
<1>1. /\ MuxServes /\ RestTyped /\ stdin \in Seq(Halves) /\ stdout \in Seq(Mux!Frames)
      /\ answer \in [Calls -> {<<>>} \union {<<a>> : a \in Outcome}]
  BY DEF MuxInv, PipesTyped, HostTyped
<1>2. /\ reader' = "read" => reader = "read" /\ ~done'
      /\ reader' = "ended" => done'
  <2>1. CASE Mux!CloseAll
    <3>1. reader = "close" /\ (~done => done' /\ reader' = reader) /\ (done => reader' = "ended" /\ done' = done)
      BY <2>1, Zenon DEF Mux!CloseAll
    <3> QED
      BY <3>1
  <2>2. CASE Mux!ReadFrame \/ Mux!ReadEnds
    <3>1. reader = "read" /\ reader' \in {"read", "close"} /\ done' = done
      BY <2>2 DEF Mux!ReadFrame, Mux!ReadEnds
    <3> QED
      BY <1>1, <3>1 DEF MuxServes
  <2>3. CASE ~(Mux!CloseAll \/ Mux!ReadFrame \/ Mux!ReadEnds)
    <3>1. UNCHANGED <<reader, done>>
      BY <2>3 DEF Mux!Next, Mux!Call, Mux!Cancel, Mux!Wait, Mux!Select, Mux!Acquire, Mux!Write, Mux!WriteFails, Mux!Handle,
       Mux!HandledNested, Mux!SidecarAsks, Mux!SidecarReads, Mux!SidecarAnswers,
       Mux!SidecarSays, Mux!SidecarStalls, Mux!Exit, Mux!WaitCloses, Mux!Shutdown, Mux!Listen, Mux!HostUnchanged
    <3> QED
      BY <1>1, <3>1 DEF MuxServes
  <2> QED
    BY <2>1, <2>2, <2>3
<1>3. sidecar'.pc \notin {"stalled", "dead"} => sidecar.pc \notin {"stalled", "dead"}
  BY DEF Mux!Next, Mux!Call, Mux!Cancel, Mux!Wait, Mux!Select, Mux!Acquire, Mux!Write, Mux!WriteFails, Mux!ReadFrame,
       Mux!ReadEnds, Mux!CloseAll, Mux!Handle, Mux!HandledNested, Mux!SidecarAsks, Mux!SidecarReads, Mux!SidecarAnswers,
       Mux!SidecarSays, Mux!SidecarStalls, Mux!Exit, Mux!WaitCloses, Mux!Shutdown, Mux!Listen, Mux!HostUnchanged, Mux!Sidecar
<1>4. ASSUME reader' = "read", sidecar'.pc \notin {"stalled", "dead"}, NEW k \in Calls,
             call'[k].pc \in {"sent", "wait"}, answer'[k] = <<>>
      PROVE  Underway(k)'
  <2>1. answer[k] = <<>>
    BY <1>4, AnswersBecome DEF AnswerBecomes
  <2>2. call[k].pc \in {"sent", "wait"} \/ (Mux!Write(k) /\ call[k].pc = "body")
    BY <1>4, CallSteps DEF CallStep, Sends
  <2>3. CASE call[k].pc \in {"sent", "wait"}
    <3>1. Underway(k) /\ reader = "read"
      BY <1>1, <1>2, <1>3, <1>4, <2>1, <2>3 DEF MuxServes
    <3> QED
      BY <1>4, <2>3, <3>1, UnderwayStep
  <2>4. CASE Mux!Write(k) /\ call[k].pc = "body"
    <3>1. stdin' = Append(stdin, <<k, "body">>) /\ <<k, "body">> \in Halves
      BY <2>4 DEF Mux!Write, Mux!At, Halves, Parties
    <3>2. Lies(stdin', <<k, "body">>)
      BY <1>1, <3>1, StillLies
    <3> QED
      BY <3>2 DEF Underway
  <2> QED
    BY <2>2, <2>3, <2>4
<1>5. ASSUME reader' = "read", sidecar'.pc = "ask", stdinOpen'
      PROVE  \E r \in Requests : Serving(r)'
  <2>1. reader = "read" /\ stdinOpen
    BY <1>2, <1>5, NeverShuts
  <2>2. CASE sidecar.pc = "ask"
    <3>1. PICK r \in Requests : Serving(r)
      BY <1>1, <2>1, <2>2 DEF MuxServes
    <3> QED
      BY <1>5, <2>1, <2>2, <3>1, ServingStep
  <2>3. CASE sidecar.pc # "ask"
    <3>1. PICK r \in Requests : Mux!SidecarAsks(r)
      BY <1>5, <2>3, OnlyAsks
    <3>2. stdout' = Append(stdout, Mux!Frame("request", 0, r))
      BY <3>1 DEF Mux!SidecarAsks
    <3>3. PICK f : f = Mux!Frame("request", 0, r)
      OBVIOUS
    <3>4. f \in Mux!Frames /\ f.kind = "request" /\ f.from = r
      BY <3>3 DEF Mux!Frame, Mux!Frames
    <3>5. Asks(r)'
      BY <1>1, <3>2, <3>3, <3>4, StillResponds
    <3> QED
      BY <3>5 DEF Serving
  <2> QED
    BY <2>2, <2>3
<1>6. ((reader = "read" => ~done) /\ (reader = "ended" => done))'
  BY <1>2
<1>7. (reader = "read" /\ sidecar.pc \notin {"stalled", "dead"} =>
          \A k \in Calls : call[k].pc \in {"sent", "wait"} /\ answer[k] = <<>> => Underway(k))'
  BY <1>4
<1>8. (reader = "read" /\ sidecar.pc = "ask" /\ stdinOpen => \E r \in Requests : Serving(r))'
  BY <1>5
<1> QED
  BY <1>6, <1>7, <1>8, Zenon DEF MuxServes

LEMMA MuxStep ==
    ASSUME MuxInv, Mux!Next \/ UNCHANGED Mux!vars
    PROVE  MuxInv'
<1>1. CASE Mux!Next
  BY <1>1, HostStep, PipesStep, RestStep, IdsStep, OwnStep, PipeStep, AskedStep, ServesStep DEF MuxInv
<1>2. CASE UNCHANGED Mux!vars
  <2> USE <1>2 DEF Mux!vars, MuxInv
  <2>1. HostTyped' /\ PipesTyped' /\ RestTyped'
    BY DEF HostTyped, PipesTyped, RestTyped
  <2>2. MuxIds'
    BY DEF MuxIds, Begun
  <2>3. MuxOwn'
    BY DEF MuxOwn, StdinBegun, SidecarBegun, StdoutAnswers, Answers, OwnAnswers, Begun
  <2>4. MuxPipe'
    BY DEF MuxPipe, Paired, Open, Mux!At, Mux!Alive
  <2>5. Asked'
    BY DEF Asked
  <2>6. MuxServes'
    BY DEF MuxServes, Underway, Serving, Response, Asks
  <2> QED
    BY <2>1, <2>2, <2>3, <2>4, <2>5, <2>6
<1> QED
  BY <1>1, <1>2

\* Where nothing moves, nobody waits.
LEMMA MuxTyped ==
    ASSUME MuxInv
    PROVE  Mux!TypeOK
<1>1. HostTyped /\ PipesTyped /\ RestTyped
  BY DEF MuxInv
<1>2. answer \in [Calls -> {<<>>} \union [1..1 -> Outcome]]
  <2>1. \A a \in Outcome : <<a>> \in [1..1 -> Outcome]
    OBVIOUS
  <2> QED
    BY <1>1, <2>1 DEF HostTyped
<1>3. DOMAIN pending \subseteq 1..nextID /\ \A id \in DOMAIN pending : pending[id] \in Calls \union {None}
  BY <1>1 DEF HostTyped
<1>4. sidecar.pc \in {"idle", "serve", "ask", "stalled", "dead"}
  BY <1>1 DEF PipesTyped, Process
<1> QED
  BY <1>1, <1>2, <1>3, <1>4 DEF Mux!TypeOK, HostTyped, PipesTyped, RestTyped, CallRecord, Outcome, Parties, HandlerPlaces
LEMMA WriterMoves ==
    ASSUME MuxInv, writer # None, ~Mux!Moves
    PROVE  Mux!Alive /\ stdinOpen /\ Len(stdin) > 1 /\ sidecar.pc \notin {"idle", "ask"}
<1>1. writer \in Calls \union Requests /\ Mux!At(writer) \in {"header", "body"}
  BY DEF MuxInv, HostTyped, MuxPipe, Parties
<1>2. Mux!Alive /\ stdinOpen /\ ~(Len(stdin) < StdinRoom)
  BY <1>1 DEF Mux!Moves
<1>3. Len(stdin) > 1
  <2>1. Len(stdin) \in Nat /\ StdinRoom \in Nat \ {0, 1}
    BY MuxConstants DEF MuxInv, PipesTyped
  <2> QED
    BY <1>2, <2>1
<1>4. ~(sidecar.pc \in {"idle", "ask"} /\ Len(stdin) > 1)
  BY DEF Mux!Moves
<1> QED
  BY <1>2, <1>3, <1>4
LEMMA FullPipe ==
    ASSUME MuxInv, writer # None, ~Mux!Moves, sidecar.pc # "stalled"
    PROVE  Mux!Alive /\ reader = "ended"
<1>1. Mux!Alive /\ sidecar.pc = "serve"
  BY WriterMoves DEF Mux!Alive, MuxInv, PipesTyped, Process
<1>2. stdout # <<>>
  <2>1. ~(Len(stdout) < StdoutRoom) /\ StdoutRoom \in Nat \ {0}
    BY <1>1, MuxConstants DEF Mux!Moves
  <2> QED
    BY <2>1
<1>3. reader \in {"read", "close", "ended"}
  BY DEF MuxInv, RestTyped
<1>4. ~(reader = "read" /\ (cancelled \/ stdout # <<>> \/ ~Mux!Alive)) /\ reader # "close"
  BY DEF Mux!Moves
<1> QED
  BY <1>1, <1>2, <1>3, <1>4
LEMMA WaiterMoves ==
    ASSUME MuxInv, ~Mux!Moves, NEW k \in Calls, call[k].pc \in {"sent", "wait"},
           Mux!Alive => sidecar.pc # "stalled" /\ \A r \in Requests : handler[r] \notin Calls
    PROVE  FALSE
<1>1. call[k].pc = "wait" /\ ~done /\ answer[k] = <<>>
  BY DEF Mux!Moves
<1>2. reader = "read" /\ stdout = <<>> /\ Mux!Alive /\ stdinOpen
  <2>1. reader \in {"read", "close", "ended"} /\ (reader = "ended" => done)
    BY DEF MuxInv, RestTyped, MuxServes
  <2>2. /\ ~(reader = "read" /\ (cancelled \/ stdout # <<>> \/ ~Mux!Alive)) /\ reader # "close"
        /\ ~(~stdinOpen /\ Mux!Alive)
    BY DEF Mux!Moves
  <2> QED
    BY <1>1, <2>1, <2>2
<1>3. sidecar.pc \in {"idle", "ask"}
  <2>1. sidecar.pc \in {"idle", "serve", "ask"}
    BY <1>2 DEF Mux!Alive, MuxInv, PipesTyped, Process
  <2>2. ~(sidecar.pc = "serve" /\ Len(stdout) < StdoutRoom)
    BY DEF Mux!Moves
  <2>3. Len(stdout) < StdoutRoom
    BY <1>2, MuxConstants
  <2> QED
    BY <2>1, <2>2, <2>3
<1>4. ~(Len(stdin) > 1)
  BY <1>3 DEF Mux!Moves
<1>5. ~\E x \in Parties : Lies(stdin, <<x, "body">>)
  <2> SUFFICES ASSUME NEW x \in Parties, NEW i \in DOMAIN stdin, stdin[i] = <<x, "body">> PROVE FALSE
    BY DEF Lies
  <2>1. i = 1
    BY <1>4 DEF MuxInv, PipesTyped
  <2>2. stdin[i][2] = "header"
    BY <2>1 DEF MuxInv, MuxPipe, Paired
  <2> QED
    BY <2>2
<1>6. writer = None
  BY <1>3, WriterMoves
<1>7. Underway(k) /\ ~Response(k)
  BY <1>1, <1>2, <1>3 DEF MuxInv, MuxServes, Response
<1>8. sidecar.pc = "ask"
  <2>1. sidecar.at = k \/ Lies(sidecar.todo, k)
    BY <1>5, <1>7 DEF Underway, Parties
  <2>2. k # None /\ (sidecar.pc = "idle" => sidecar.at = None /\ sidecar.todo = <<>>)
    BY CallsAndRequests DEF MuxInv, MuxOwn, SidecarBegun
  <2> QED
    BY <1>3, <2>1, <2>2 DEF Lies
<1>9. PICK r \in Requests : Serving(r)
  BY <1>2, <1>8 DEF MuxInv, MuxServes
<1>10. handler[r] \in {"run", "lock", "header", "body"}
  <2>1. ~Asks(r) /\ ~Lies(stdin, <<r, "body">>) /\ handler[r] \notin Calls
    BY <1>2, <1>5 DEF Asks, Parties
  <2> QED
    BY <1>9, <2>1 DEF Serving
<1>11. Mux!At(r) = handler[r] /\ r \in Parties
  BY CallsAndRequests DEF Mux!At, Parties
<1>12. Mux!At(r) \notin {"header", "body"}
  BY <1>6, <1>11, CallsAndRequests DEF MuxInv, MuxPipe
<1>13. handler[r] # "run" /\ Mux!At(r) # "lock"
  BY <1>6, <1>11 DEF Mux!Moves
<1> QED
  BY <1>10, <1>11, <1>12, <1>13
LEMMA MuxShown ==
    ASSUME MuxInv
    PROVE  Mux!TypeOK /\ Mux!WholeAndOwn /\ Mux!NobodyWaits
<1>1. Mux!WholeAndOwn
  BY DEF Mux!WholeAndOwn, MuxInv, MuxPipe, Paired, MuxOwn, OwnAnswers
<1>2. ASSUME Mux!Alive => sidecar.pc # "stalled" /\ \A r \in Requests : handler[r] \notin Calls,
             NEW k \in Calls, call[k].pc \notin {"off", "ended"}, ~Mux!Moves
      PROVE  call[k].pc \in {"lock", "header", "body"} /\ Mux!Alive /\ reader = "ended"
  <2>1. call[k].pc \in {"lock", "header", "body"}
    BY <1>2, WaiterMoves DEF MuxInv, HostTyped, CallRecord
  <2>2. Mux!At(k) = call[k].pc /\ k \in Parties
    BY DEF Mux!At, Parties
  <2>3. writer # None
    <3>1. CASE call[k].pc = "lock"
      BY <1>2, <2>2, <3>1 DEF Mux!Moves
    <3>2. CASE call[k].pc # "lock"
      BY <2>1, <2>2, <3>2, CallsAndRequests DEF MuxInv, MuxPipe
    <3> QED
      BY <3>1, <3>2
  <2>4. sidecar.pc # "stalled"
    BY <1>2, <2>3, WriterMoves
  <2> QED
    BY <1>2, <2>1, <2>3, <2>4, FullPipe
<1>3. Mux!NobodyWaits
  BY <1>2 DEF Mux!NobodyWaits
<1> QED
  BY <1>1, <1>3, MuxTyped

\* Frames are whole on the wire, an answer is that of its call, and a call that has not ended has
\* something to wait for that goes on by itself (but for a sidecar that has stalled, waits for
\* itself, or goes on after a frame too large), for any number of callers and of requests of the
\* sidecar and any room in the pipes (plugin/host/mux.go:115-330, plugin/host/jsonrpc.go).
THEOREM SidecarAnswersHolds == Spec => []SidecarAnswers
<1> DEFINE Inv == lane = "Mux" => MuxInv
<1>1. Init => Inv
  BY MuxStart, MuxInvInit
<1>2. Inv /\ [Next]_vars => Inv'
  <2> SUFFICES ASSUME Inv, [Next]_vars, lane' = "Mux" PROVE MuxInv'
    OBVIOUS
  <2>1. lane = "Mux" /\ (Mux!Next \/ UNCHANGED Mux!vars)
    BY MuxLane
  <2> QED
    BY <2>1, MuxStep
<1>3. Inv => SidecarAnswers
  BY MuxShown DEF SidecarAnswers
<1> HIDE DEF Inv
<1> QED
  BY <1>1, <1>2, <1>3, PTL DEF Spec

-----------------------------------------------------------------------------
(* The Telegram bridge.                                                     *)

LEMMA BridgeStart == Init /\ lane = "Bridge" => Bridge!Init
  BY DEF Init
LEMMA BridgeLane ==
    ASSUME [Next]_vars, lane' = "Bridge"
    PROVE  lane = "Bridge" /\ (Bridge!Next \/ UNCHANGED Bridge!vars)
<1>1. CASE Next
  BY <1>1 DEF Next
<1>2. CASE UNCHANGED vars
  BY <1>2 DEF vars, bridgeVars, Bridge!vars, Bridge!telegram, Bridge!hub, Bridge!manager,
              Bridge!flags, Bridge!routes
<1> QED
  BY <1>1, <1>2
LEMMA BridgeConstants ==
    /\ Claude \subseteq Sessions /\ Notify \in Chats /\ None \notin Sessions
    /\ MaxLines \in Nat /\ MaxUpdates \in Nat /\ MaxSent \in Nat /\ MaxBots \in Nat
    /\ Inputs \subseteq Chats \X Bridge!Ops \X (Sessions \cup {None})
    /\ BridgeScenarios \subseteq [chats : SUBSET Chats, link : [Chats -> Sessions \cup {None}],
                                  running : SUBSET Sessions, budget : [Bridge!Events -> Nat]]
  BY SurfacesAssumption DEF Bridge!TelegramAssumption

\* Fetched updates and those with a goroutine have been sent, and a submit is for a message.
BridgeMail ==
    /\ \A b \in Bridge!Bots : batch[b] \subseteq DOMAIN inbox
    /\ \A h \in handlers : h.u \in DOMAIN inbox
    /\ \A u \in DOMAIN inbox : inbox[u].op = "submit" => inbox[u].msg \in Bridge!Ids

\* A message is registered by the goroutine that has sent it.
BridgeNotes ==
    /\ born <= bots /\ \A m \in DOMAIN log : log[m].by <= bots
    /\ \A i \in idlers : i.by <= bots
    /\ \A i \in idlers : IF i.pc = "register" THEN i.msg \in DOMAIN log /\ log[i.msg].ses = i.ses
                                              ELSE i.msg = 0
    /\ \A i, j \in idlers : i.msg = j.msg /\ i.msg # 0 => i = j
    /\ Bridge!Answerable

\* A prompt has no boxes before it is registered, boxes while nothing was submitted, and none
\* while one goroutine, the only one, submits them.
Unsent(m) == m \notin DOMAIN log \/ \E i \in idlers : i.msg = m
Submits(h, m) == Bridge!Op(h) = "submit" /\ Bridge!Target(h) = m /\ h.pc # "begin"
EnterDone == {"reset", "rebase"}
Picked(m) ==
    /\ submits[m] \in {0, 1}
    /\ Unsent(m) => boxes[m] = "none" /\ submits[m] = 0
    /\ boxes[m] \in {"empty", "ticked"} => submits[m] = 0
    /\ boxes[m] = "taken" => submits[m] = 1 \/ \E h \in handlers : Submits(h, m)
    /\ \A h \in handlers : Submits(h, m) =>
          /\ boxes[m] = "taken" /\ submits[m] = (IF h.pc \in EnterDone THEN 1 ELSE 0)
          /\ h.pc \in {"type", "enter", "failed", "put back", "reset", "rebase"}
    /\ \A g, h \in handlers : Submits(g, m) /\ Submits(h, m) => g = h
BridgePicks ==
    /\ \A h \in handlers : h.pc = "put back" => Bridge!Op(h) = "submit"
    /\ \A m \in Bridge!Ids : Picked(m)

\* The text of a terminal is what that terminal has written so far, and what a goroutine has to
\* push, or has pushed, since a baseline was set is in the baseline of today.
SoFar(text) == \E t, k \in Nat : text = {t} \X (1..k)
Piece(i) == i.text \ i.base
Pushes(i) == i.pc \in {"send", "register"} /\ i.left # {} /\ i.ses \notin Claude
Alike(x, y) == x.ses = y.ses /\ x.by = y.by /\ x.turn = y.turn
Pushed(m) == log[m].kind = "push" /\ log[m].ses \notin Claude
Based(x, text) ==
    /\ x.turn <= turn[x.by][x.ses]
    /\ x.turn = turn[x.by][x.ses] => text \subseteq last[x.by][x.ses]
BridgeTexts ==
    /\ \A b \in Bridge!Bots, s \in Sessions \ Claude : SoFar(last[b][s])
    /\ \A i \in idlers : i.ses \notin Claude => SoFar(i.text) /\ SoFar(i.base)
    /\ \A i \in idlers : i.pc \in {"stop", "bye", "guard", "read", "after", "note"} => i.left = {}
BridgePushes ==
    /\ \A i \in idlers : Pushes(i) => Based(i, Piece(i))
    /\ \A m \in DOMAIN log : Pushed(m) => Based(log[m], log[m].text)
    /\ \A i, j \in idlers : Pushes(i) /\ Pushes(j) /\ Alike(i, j) /\ i # j => Piece(i) \cap Piece(j) = {}
    /\ \A i \in idlers, m \in DOMAIN log :
          Pushes(i) /\ Pushed(m) /\ Alike(i, log[m]) /\ log[m].chat \in i.left => Piece(i) \cap log[m].text = {}
    /\ Bridge!PushedOnce

BridgeInv == Bridge!TypeOK /\ BridgeMail /\ BridgeNotes /\ BridgePicks /\ BridgeTexts /\ BridgePushes

\* The type invariant in parts.
MailTyped ==
    /\ inbox \in Seq(Bridge!Updates) /\ Len(inbox) <= MaxUpdates /\ confirmed \in 0..MaxUpdates
    /\ offset \in [Bridge!Bots -> 0..MaxUpdates] /\ batch \in [Bridge!Bots -> SUBSET (1..MaxUpdates)]
LogTyped == log \in Seq(Bridge!Sent) /\ Len(log) <= MaxSent
ChatsTyped ==
    /\ running \subseteq Sessions /\ lines \in [Sessions -> 0..MaxLines] /\ terminal \in [Sessions -> Nat]
    /\ link \in [Chats -> Sessions \cup {None}] /\ budget \in [Bridge!Events -> Nat]
BotsTyped ==
    /\ config \in [on : BOOLEAN, chats : SUBSET Chats] /\ allowed \in [Bridge!Bots -> SUBSET Chats]
    /\ bot \in 0..bots /\ bots \in 0..MaxBots /\ born \in 0..bots
FlagsTyped ==
    /\ notified \in [Bridge!Bots -> [Sessions -> {"never", "recent", "old"}]]
    /\ waiting \in [Bridge!Bots -> [Sessions -> {"no", "yes", "late"}]]
BasesTyped ==
    /\ last \in [Bridge!Bots -> [Sessions -> SUBSET Bridge!Lines]]
    /\ turn \in [Bridge!Bots -> [Sessions -> Nat]]
PromptsTyped ==
    /\ remembered \in [Bridge!Ids -> Sessions \cup {None}]
    /\ boxes \in [Bridge!Ids -> {"none", "taken", "empty", "ticked"}]
    /\ submits \in [Bridge!Ids -> Nat]
WorkTyped == handlers \subseteq Bridge!Handlers /\ idlers \subseteq Bridge!Idlers
LEMMA BridgeTyped ==
    Bridge!TypeOK <=> /\ MailTyped /\ LogTyped /\ ChatsTyped /\ BotsTyped /\ FlagsTyped /\ BasesTyped
                      /\ PromptsTyped /\ WorkTyped
  BY DEF Bridge!TypeOK, MailTyped, LogTyped, ChatsTyped, BotsTyped, FlagsTyped, BasesTyped,
         PromptsTyped, WorkTyped
LEMMA BridgeParts ==
    ASSUME BridgeInv
    PROVE  /\ MailTyped /\ LogTyped /\ ChatsTyped /\ BotsTyped /\ FlagsTyped /\ BasesTyped
           /\ PromptsTyped /\ WorkTyped
           /\ BridgeMail /\ BridgeNotes /\ BridgePicks /\ BridgeTexts /\ BridgePushes
  BY BridgeTyped DEF BridgeInv
\* What the parts of the invariant read.
TypesKept ==
    /\ MailTyped' /\ LogTyped' /\ ChatsTyped' /\ BotsTyped' /\ FlagsTyped' /\ BasesTyped'
    /\ PromptsTyped' /\ WorkTyped'
LEMMA BridgeNext ==
    ASSUME TypesKept, BridgeMail', BridgeNotes', BridgePicks', BridgeTexts', BridgePushes'
    PROVE  BridgeInv'
<1>1. Bridge!TypeOK'
  BY DEF TypesKept, Bridge!TypeOK, MailTyped, LogTyped, ChatsTyped, BotsTyped, FlagsTyped, BasesTyped,
         PromptsTyped, WorkTyped
<1> QED
  BY <1>1 DEF BridgeInv

\* Messages, updates and goroutines of a state, and a table with an entry changed.
LEMMA NothingSoFar == SoFar({})
<1>1. {} = {0} \X (1..0)
  OBVIOUS
<1> QED
  BY <1>1 DEF SoFar
LEMMA MessageTyped ==
    ASSUME LogTyped, NEW m \in DOMAIN log
    PROVE  /\ m \in 1..Len(log) /\ m \in Bridge!Ids
           /\ log[m] \in Bridge!Sent /\ log[m].chat \in Chats /\ log[m].ses \in Sessions
           /\ log[m].by \in Bridge!Bots /\ log[m].turn \in Nat /\ log[m].text \in SUBSET Bridge!Lines
           /\ log[m].kind \in Bridge!Kinds
<1>1. m \in 1..Len(log) /\ Len(log) <= MaxSent /\ Len(log) \in Nat
  BY DEF LogTyped
<1>2. log[m] \in Bridge!Sent
  BY <1>1 DEF LogTyped
<1>3. m \in Bridge!Ids
  BY <1>1, BridgeConstants DEF Bridge!Ids
<1> QED
  BY <1>1, <1>2, <1>3 DEF Bridge!Sent
LEMMA UpdateTyped ==
    ASSUME MailTyped, NEW u \in DOMAIN inbox
    PROVE  /\ u \in 1..Len(inbox) /\ inbox[u] \in Bridge!Updates
           /\ inbox[u].chat \in Chats /\ inbox[u].op \in Bridge!Ops
           /\ inbox[u].ses \in Sessions \cup {None} /\ inbox[u].msg \in 0..MaxSent
<1>1. u \in 1..Len(inbox)
  BY DEF MailTyped
<1>2. inbox[u] \in Bridge!Updates
  BY <1>1 DEF MailTyped
<1> QED
  BY <1>1, <1>2 DEF Bridge!Updates
Table(S) == [Bridge!Bots -> [Sessions -> S]]
Entry(f, b, s, v) == [f EXCEPT ![b][s] = v]
LEMMA TableSet ==
    ASSUME NEW S, NEW f \in Table(S), NEW a, NEW b, NEW v, a \in Bridge!Bots /\ b \in Sessions => v \in S
    PROVE  /\ Entry(f, a, b, v) \in Table(S)
           /\ \A c \in Bridge!Bots, d \in Sessions :
                 Entry(f, a, b, v)[c][d] = IF c = a /\ d = b THEN v ELSE f[c][d]
<1> DEFINE g == Entry(f, a, b, v)
<1>1. ASSUME NEW c \in Bridge!Bots
      PROVE  f[c] \in [Sessions -> S] /\ g[c] = IF c = a THEN [f[a] EXCEPT ![b] = v] ELSE f[c]
  BY DEF Table, Entry
<1>2. DOMAIN g = Bridge!Bots /\ g = [c \in Bridge!Bots |-> g[c]]
  BY DEF Table, Entry
<1> HIDE DEF g
<1>3. ASSUME NEW c \in Bridge!Bots
      PROVE  /\ g[c] \in [Sessions -> S]
             /\ \A d \in Sessions : g[c][d] = IF c = a /\ d = b THEN v ELSE f[c][d]
  <2>1. CASE c = a
    <3>1. g[c] = [f[c] EXCEPT ![b] = v] /\ f[c] \in [Sessions -> S] /\ (b \in Sessions => v \in S)
      BY <1>1, <2>1
    <3> QED
      BY <2>1, <3>1
  <2>2. CASE c # a
    BY <1>1, <2>2
  <2> QED
    BY <2>1, <2>2
<1>4. g \in Table(S) /\ \A c \in Bridge!Bots, d \in Sessions : g[c][d] = IF c = a /\ d = b THEN v ELSE f[c][d]
  BY <1>2, <1>3 DEF Table
<1> QED
  BY <1>4 DEF g

LEMMA BridgeInvInit ==
    ASSUME Bridge!Init
    PROVE  BridgeInv
<1>1. PICK x \in BridgeScenarios : /\ config = [on |-> TRUE, chats |-> x.chats] /\ link = x.link
                                   /\ running = x.running /\ budget = x.budget
  BY DEF Bridge!Init
<1>2. /\ x.chats \subseteq Chats /\ x.link \in [Chats -> Sessions \cup {None}]
      /\ x.running \subseteq Sessions /\ x.budget \in [Bridge!Events -> Nat]
  BY BridgeConstants
<1>3. Bridge!TypeOK
  BY <1>1, <1>2, BridgeConstants, BridgeTyped
     DEF Bridge!Init, MailTyped, LogTyped, ChatsTyped, BotsTyped, FlagsTyped, BasesTyped, PromptsTyped,
         WorkTyped
<1>4. inbox = <<>> /\ log = <<>> /\ handlers = {} /\ idlers = {}
  BY DEF Bridge!Init
<1>5. DOMAIN inbox = {} /\ DOMAIN log = {}
  BY <1>4
<1>6. BridgeMail /\ BridgeNotes
  BY <1>4, <1>5 DEF Bridge!Init, BridgeMail, BridgeNotes, Bridge!Answerable
<1>7. BridgePicks
  BY <1>4, <1>5 DEF Bridge!Init, BridgePicks, Picked, Unsent
<1>8. SoFar({})
  BY NothingSoFar
<1>9. BridgeTexts /\ BridgePushes
  BY <1>4, <1>5, <1>8 DEF Bridge!Init, BridgeTexts, BridgePushes, Bridge!PushedOnce
<1> QED
  BY <1>3, <1>6, <1>7, <1>9 DEF BridgeInv

\* ---------------------------------------- what leaves a part of the invariant alone
LEMMA MailSame ==
    ASSUME BridgeMail, UNCHANGED <<batch, inbox>>, \A g \in handlers' : \E h \in handlers : g.u = h.u
    PROVE  BridgeMail'
  BY DEF BridgeMail

\* Goroutines of idle events come, go and go on, none of them about a message.
IdlersCalm ==
    /\ \A i \in idlers' : i \in idlers \/ (i.msg = 0 /\ i.pc # "register" /\ i.by <= bots')
    /\ \A i \in idlers : i.msg # 0 => i \in idlers'
LEMMA NotesSame ==
    ASSUME BridgeInv, UNCHANGED <<log, remembered, born>>, bots <= bots', BotsTyped', IdlersCalm
    PROVE  BridgeNotes'
<1> USE BridgeParts
<1>1. born' <= bots' /\ \A m \in DOMAIN log : log[m].by <= bots'
  <2> SUFFICES ASSUME NEW m \in DOMAIN log PROVE log[m].by <= bots'
    BY DEF BotsTyped
  <2>1. log[m].by \in Nat
    BY MessageTyped DEF Bridge!Bots
  <2> QED
    BY <2>1 DEF BridgeNotes, BotsTyped
<1>5. \A i \in idlers' : i.by <= bots'
  <2>1. ASSUME NEW i \in idlers PROVE i.by <= bots'
    <3>1. i.by \in Nat /\ i.by <= bots
      BY DEF BridgeNotes, WorkTyped, Bridge!Idlers, Bridge!Bots
    <3> QED
      BY <3>1 DEF BotsTyped
  <2> QED
    BY <2>1 DEF IdlersCalm
<1>2. \A i, j \in idlers' : i.msg = j.msg /\ i.msg # 0 => i = j
  BY DEF IdlersCalm, BridgeNotes
<1>3. \A i \in idlers' : IF i.pc = "register" THEN i.msg \in DOMAIN log /\ log[i.msg].ses = i.ses
                                              ELSE i.msg = 0
  BY DEF IdlersCalm, BridgeNotes
<1>4. ASSUME NEW m \in DOMAIN log, log[m].by > born, log[m].kind \in {"push", "idle"}
      PROVE  remembered[m] = log[m].ses \/ \E i \in idlers' : i.msg = m
  <2>1. remembered[m] = log[m].ses \/ \E i \in idlers : i.msg = m
    BY <1>4 DEF BridgeNotes, Bridge!Answerable
  <2>2. m # 0
    BY DEF LogTyped
  <2> QED
    BY <2>1, <2>2 DEF IdlersCalm
<1> QED
  BY <1>1, <1>2, <1>3, <1>4, <1>5 DEF BridgeNotes, Bridge!Answerable

LEMMA UnsentSame ==
    ASSUME BridgeInv, UNCHANGED log, IdlersCalm, NEW m \in Bridge!Ids
    PROVE  Unsent(m)' <=> Unsent(m)
<1>1. m # 0
  BY DEF Bridge!Ids
<1> QED
  BY <1>1 DEF Unsent, IdlersCalm
LEMMA PicksSame ==
    ASSUME BridgeInv, UNCHANGED <<inbox, handlers, boxes, submits>>,
           \A m \in Bridge!Ids : Unsent(m)' => Unsent(m)
    PROVE  BridgePicks'
<1>1. \A h \in handlers : h.pc = "put back" => Bridge!Op(h) = "submit"
  BY BridgeParts DEF BridgePicks
<1>2. ASSUME NEW m \in Bridge!Ids PROVE Picked(m)'
  <2>1. Picked(m) /\ (Unsent(m)' => Unsent(m))
    BY BridgeParts DEF BridgePicks
  <2> QED
    BY <2>1 DEF Picked, Submits, Bridge!Op, Bridge!Target
<1> QED
  BY <1>1, <1>2 DEF BridgePicks, Bridge!Op

\* The baselines stay, grow, or are set anew.
BasesStep ==
    /\ BasesTyped'
    /\ \A b \in Bridge!Bots, s \in Sessions :
          /\ s \notin Claude => SoFar(last'[b][s])
          /\ turn[b][s] <= turn'[b][s]
          /\ s \notin Claude /\ turn[b][s] = turn'[b][s] => last[b][s] \subseteq last'[b][s]
LEMMA BasesSame ==
    ASSUME BridgeInv, UNCHANGED <<last, turn>>
    PROVE  BasesStep
  BY BridgeParts DEF BasesStep, BasesTyped, BridgeTexts
LEMMA BasesForgotten ==
    ASSUME BridgeInv, NEW b, NEW s, NEW text \in SUBSET Bridge!Lines, s \notin Claude => SoFar(text),
           last' = [last EXCEPT ![b][s] = text], turn' = [turn EXCEPT ![b][s] = @ + 1]
    PROVE  BasesStep
<1>1. /\ last \in Table(SUBSET Bridge!Lines) /\ turn \in Table(Nat)
      /\ \A c \in Bridge!Bots, r \in Sessions : turn[c][r] \in Nat
      /\ \A c \in Bridge!Bots, r \in Sessions \ Claude : SoFar(last[c][r])
  BY BridgeParts DEF BasesTyped, BridgeTexts, Table
<1>2. b \in Bridge!Bots /\ s \in Sessions => turn[b][s] + 1 \in Nat
  BY <1>1
<1>3. /\ last' = Entry(last, b, s, text)
      /\ turn' = Entry(turn, b, s, turn[b][s] + 1)
  BY DEF Entry
<1>4. /\ last' \in Table(SUBSET Bridge!Lines)
      /\ \A c \in Bridge!Bots, r \in Sessions : last'[c][r] = IF c = b /\ r = s THEN text ELSE last[c][r]
  <2>1. Entry(last, b, s, text) \in Table(SUBSET Bridge!Lines)
    BY <1>1, TableSet
  <2>2. \A c \in Bridge!Bots, r \in Sessions :
           Entry(last, b, s, text)[c][r] = IF c = b /\ r = s THEN text ELSE last[c][r]
    BY <1>1, TableSet
  <2> QED
    BY <1>3, <2>1, <2>2
<1>5. /\ turn' \in Table(Nat)
      /\ \A c \in Bridge!Bots, r \in Sessions : turn'[c][r] = IF c = b /\ r = s THEN turn[b][s] + 1 ELSE turn[c][r]
  <2>1. Entry(turn, b, s, turn[b][s] + 1) \in Table(Nat)
    BY <1>1, <1>2, TableSet
  <2>2. \A c \in Bridge!Bots, r \in Sessions :
           Entry(turn, b, s, turn[b][s] + 1)[c][r] = IF c = b /\ r = s THEN turn[b][s] + 1 ELSE turn[c][r]
    BY <1>1, <1>2, TableSet
  <2> QED
    BY <1>3, <2>1, <2>2
<1>6. BasesTyped'
  BY <1>4, <1>5 DEF BasesTyped, Table
<1>7. ASSUME NEW c \in Bridge!Bots, NEW r \in Sessions
      PROVE  /\ r \notin Claude => SoFar(last'[c][r])
             /\ turn[c][r] <= turn'[c][r]
             /\ turn[c][r] = turn'[c][r] => last[c][r] \subseteq last'[c][r]
  <2>1. turn[c][r] \in Nat
    BY <1>1
  <2>2. CASE c = b /\ r = s
    BY <1>4, <1>5, <2>1, <2>2
  <2>3. CASE ~ (c = b /\ r = s)
    BY <1>1, <1>4, <1>5, <2>1, <2>3
  <2> QED
    BY <2>2, <2>3
<1> QED
  BY <1>6, <1>7 DEF BasesStep
LEMMA BasesTorn ==
    ASSUME BridgeInv, Bridge!TornDown
    PROVE  BasesStep
<1>1. CASE bot = 0
  BY <1>1, BasesSame DEF Bridge!TornDown
<1>2. CASE bot # 0
  <2>1. /\ last' = [last EXCEPT ![bot] = [s \in Sessions |-> {}]]
        /\ turn' = [turn EXCEPT ![bot] = [s \in Sessions |-> turn[bot][s] + 1]]
        /\ bot \in Bridge!Bots
    BY <1>2, BridgeParts, BridgeConstants DEF Bridge!TornDown, BotsTyped, Bridge!Bots
  <2>2. BasesTyped'
    BY <2>1, BridgeParts DEF BasesTyped
  <2>3. ASSUME NEW c \in Bridge!Bots, NEW r \in Sessions
        PROVE  \/ last'[c][r] = last[c][r] /\ turn'[c][r] = turn[c][r]
               \/ last'[c][r] = {} /\ turn'[c][r] = turn[c][r] + 1
    BY <2>1, BridgeParts DEF BasesTyped
  <2>4. \A c \in Bridge!Bots, r \in Sessions : turn[c][r] \in Nat
    BY BridgeParts DEF BasesTyped
  <2>5. ASSUME NEW c \in Bridge!Bots, NEW r \in Sessions
        PROVE  /\ r \notin Claude => SoFar(last'[c][r])
               /\ turn[c][r] <= turn'[c][r]
               /\ turn[c][r] = turn'[c][r] => last[c][r] \subseteq last'[c][r]
    <3>1. turn[c][r] \in Nat /\ (r \notin Claude => SoFar(last[c][r]))
      BY <2>4, BridgeParts DEF BridgeTexts
    <3>2. CASE last'[c][r] = last[c][r] /\ turn'[c][r] = turn[c][r]
      BY <3>1, <3>2
    <3>3. CASE last'[c][r] = {} /\ turn'[c][r] = turn[c][r] + 1
      BY <3>1, <3>3, NothingSoFar
    <3> QED
      BY <2>3, <3>2, <3>3
  <2> QED
    BY <2>2, <2>5 DEF BasesStep
<1> QED
  BY <1>1, <1>2

\* What a goroutine that does not push has in its hands.
IdlersQuiet ==
    \A i \in idlers' : i \in idlers \/ /\ i.pc \notin {"send", "register"}
                                       /\ i.ses \notin Claude => SoFar(i.text) /\ SoFar(i.base)
                                       /\ i.pc # "diff" => i.left = {}
LEMMA TextsStep ==
    ASSUME BridgeInv, BasesStep, IdlersQuiet
    PROVE  BridgeTexts'
  BY BridgeParts DEF BasesStep, BridgeTexts, IdlersQuiet
LEMMA BasedStep ==
    ASSUME BridgeInv, BasesStep, NEW x, x.by \in Bridge!Bots, x.ses \in Sessions \ Claude, x.turn \in Nat,
           NEW text, Based(x, text)
    PROVE  Based(x, text)'
<1>1. /\ turn[x.by][x.ses] \in Nat /\ turn'[x.by][x.ses] \in Nat
      /\ turn[x.by][x.ses] <= turn'[x.by][x.ses]
      /\ turn[x.by][x.ses] = turn'[x.by][x.ses] => last[x.by][x.ses] \subseteq last'[x.by][x.ses]
  BY BridgeParts DEF BasesStep, BasesTyped
<1>2. x.turn <= turn[x.by][x.ses] /\ (x.turn = turn[x.by][x.ses] => text \subseteq last[x.by][x.ses])
  BY DEF Based
<1>3. x.turn <= turn'[x.by][x.ses] /\ (x.turn = turn'[x.by][x.ses] => text \subseteq last'[x.by][x.ses])
  BY <1>1, <1>2
<1> QED
  BY <1>3 DEF Based
LEMMA PushesStep ==
    ASSUME BridgeInv, BasesStep, IdlersQuiet, UNCHANGED log
    PROVE  BridgePushes'
<1> USE BridgeParts
<1>1. \A i \in idlers' : Pushes(i) => i \in idlers
  BY DEF IdlersQuiet, Pushes
<1>2. \A i \in idlers : i.by \in Bridge!Bots /\ i.ses \in Sessions /\ i.turn \in Nat
  BY DEF WorkTyped, Bridge!Idlers
<1>3. \A m \in DOMAIN log : log[m].by \in Bridge!Bots /\ log[m].ses \in Sessions /\ log[m].turn \in Nat
  BY MessageTyped
<1>4. \A i \in idlers' : Pushes(i) => Based(i, Piece(i))'
  BY <1>1, <1>2, BasedStep DEF BridgePushes, Piece, Pushes
<1>5. \A m \in DOMAIN log : Pushed(m) => Based(log[m], log[m].text)'
  <2> TAKE m \in DOMAIN log
  <2> HAVE Pushed(m)
  <2>1. PICK x : x = log[m]
    OBVIOUS
  <2>2. Based(x, x.text)
    BY <2>1 DEF BridgePushes
  <2>3. Based(x, x.text)'
    BY <1>3, <2>1, <2>2, BasedStep DEF Pushed
  <2> QED
    BY <2>1, <2>3
<1>6. Bridge!PushedOnce'
  BY DEF BridgePushes, Bridge!PushedOnce
<1>7. \A i, j \in idlers' : Pushes(i) /\ Pushes(j) /\ Alike(i, j) /\ i # j => Piece(i) \cap Piece(j) = {}
  BY <1>1 DEF BridgePushes
<1>8. \A i \in idlers', m \in DOMAIN log :
          Pushes(i) /\ Pushed(m) /\ Alike(i, log[m]) /\ log[m].chat \in i.left => Piece(i) \cap log[m].text = {}
  BY <1>1 DEF BridgePushes
<1> QED
  BY <1>4, <1>5, <1>6, <1>7, <1>8 DEF BridgePushes, Pushed, Pushes, Piece, Alike

\* ---------------------------------------- handlers of updates
Goes(h) ==
    \/ handlers' = handlers \ {h}
    \/ \E g \in Bridge!Handlers : g.u = h.u /\ handlers' = (handlers \ {h}) \cup {g}
LEMMA HandlerTyped ==
    ASSUME BridgeInv, NEW h \in handlers
    PROVE  /\ h \in Bridge!Handlers /\ h.by \in Bridge!Bots /\ h.ses \in Sessions \cup {None}
           /\ h.u \in DOMAIN inbox /\ Bridge!Op(h) \in Bridge!Ops /\ Bridge!Chat(h) \in Chats
           /\ Bridge!Target(h) \in 0..MaxSent
           /\ inbox[h.u].ses \in Sessions \cup {None}
<1>1. h \in Bridge!Handlers /\ h.u \in DOMAIN inbox
  BY BridgeParts DEF WorkTyped, BridgeMail
<1> QED
  BY <1>1, BridgeParts, UpdateTyped DEF Bridge!Handlers, Bridge!Op, Bridge!Chat, Bridge!Target
Pcs == {"begin", "type", "enter", "failed", "reset", "rebase", "bind", "tidy", "put back"}
Put(h, p) == [h EXCEPT !.pc = p]
PutFor(h, p, s) == [h EXCEPT !.pc = p, !.ses = s]
LEMMA HandlerTo ==
    ASSUME BridgeInv, NEW h \in handlers, NEW p \in Pcs
    PROVE  /\ Put(h, p) \in Bridge!Handlers /\ Put(h, p).u = h.u /\ Put(h, p).pc = p
           /\ \A s \in Sessions \cup {None} :
                 /\ PutFor(h, p, s) \in Bridge!Handlers /\ PutFor(h, p, s).u = h.u
                 /\ PutFor(h, p, s).pc = p
  BY HandlerTyped DEF Bridge!Handlers, Pcs, Put, PutFor
LEMMA GoesOn ==
    ASSUME BridgeInv, NEW h \in handlers,
           \/ Bridge!Done(h) \/ \E p \in Pcs : Bridge!Step(h, Put(h, p))
           \/ \E p \in Pcs, s \in Sessions \cup {None} : Bridge!Step(h, PutFor(h, p, s))
    PROVE  Goes(h)
<1>1. CASE Bridge!Done(h)
  BY <1>1 DEF Bridge!Done, Goes
<1>2. CASE \E p \in Pcs : Bridge!Step(h, Put(h, p))
  BY <1>2, HandlerTo DEF Bridge!Step, Goes
<1>3. CASE \E p \in Pcs, s \in Sessions \cup {None} : Bridge!Step(h, PutFor(h, p, s))
  BY <1>3, HandlerTo DEF Bridge!Step, Goes
<1> QED
  BY <1>1, <1>2, <1>3

LEMMA IdlersStay ==
    ASSUME UNCHANGED idlers
    PROVE  IdlersCalm /\ IdlersQuiet
  BY DEF IdlersCalm, IdlersQuiet
LEMMA HandledKeeps ==
    ASSUME BridgeInv, NEW h \in handlers, Goes(h), Bridge!Quiet, UNCHANGED remembered,
           BasesStep, FlagsTyped', link' \in [Chats -> Sessions \cup {None}], PromptsTyped', BridgePicks'
    PROVE  BridgeInv'
<1> USE BridgeParts DEF Bridge!Quiet, Bridge!telegram, Bridge!hub, Bridge!manager
<1>1. IdlersCalm /\ IdlersQuiet
  BY IdlersStay
<1>2. WorkTyped' /\ \A g \in handlers' : \E k \in handlers : g.u = k.u
  BY DEF Goes, WorkTyped
<1>3. TypesKept
  <2>1. MailTyped' /\ LogTyped' /\ ChatsTyped' /\ BotsTyped'
    BY DEF MailTyped, LogTyped, ChatsTyped, BotsTyped
  <2> QED
    BY <1>2, <2>1 DEF TypesKept, BasesStep
<1>4. BridgeMail'
  BY <1>2, MailSame
<1>5. BridgeNotes'
  <2>1. bots <= bots' /\ BotsTyped'
    BY DEF BotsTyped
  <2> QED
    BY <1>1, <2>1, NotesSame
<1>6. BridgeTexts' /\ BridgePushes'
  BY <1>1, TextsStep, PushesStep
<1> QED
  BY <1>3, <1>4, <1>5, <1>6, BridgeNext

\* The picks of a prompt are those of before, but for what the goroutine that submits them does.
LEMMA SubmitterOf ==
    ASSUME BridgeInv, NEW h \in handlers, Bridge!Op(h) = "submit"
    PROVE  /\ Bridge!Target(h) \in Bridge!Ids /\ Picked(Bridge!Target(h))
           /\ h.pc # "begin" => Submits(h, Bridge!Target(h))
  BY HandlerTyped, BridgeParts DEF BridgeMail, BridgePicks, Bridge!Op, Bridge!Target, Submits
LEMMA NotSubmitted ==
    ASSUME BridgeInv, NEW h \in handlers, h.pc \in {"bind", "tidy"}
    PROVE  Bridge!Op(h) # "submit"
  BY SubmitterOf DEF Picked
LEMMA PicksOfOthers ==
    ASSUME BridgeInv, NEW h \in handlers, Goes(h), UNCHANGED <<inbox, log, idlers, boxes, submits>>,
           Bridge!Op(h) # "submit", \A g \in handlers' : g \in handlers \/ g.pc # "put back"
    PROVE  BridgePicks'
<1>1. \A g \in handlers' : g.pc = "put back" => Bridge!Op(g) = "submit"
  BY BridgeParts DEF BridgePicks
<1>2. ASSUME NEW m \in Bridge!Ids PROVE Picked(m)'
  <2>1. Picked(m) /\ (Unsent(m)' <=> Unsent(m))
    BY BridgeParts DEF BridgePicks, Unsent
  <2>2. \A g : Submits(g, m) /\ g \in handlers' => g \in handlers
    BY DEF Goes, Submits, Bridge!Op
  <2>3. \A g \in handlers : Submits(g, m) => g \in handlers'
    BY DEF Goes, Submits, Bridge!Op
  <2> QED
    BY <2>1, <2>2, <2>3 DEF Picked, Submits, Bridge!Op, Bridge!Target
<1> QED
  BY <1>1, <1>2 DEF BridgePicks, Bridge!Op
\* A submit that has typed its text counts.
Counted(h, done1) ==
    \A m \in Bridge!Ids :
        submits'[m] = IF m = Bridge!Target(h) /\ done1 THEN submits[m] + 1 ELSE submits[m]
LEMMA CountedOnce ==
    ASSUME NEW m, submits[m] = 0, submits'[m] = submits[m] + 1
    PROVE  submits'[m] = 1
  OBVIOUS
\* The submitter goes on, on this or that side of the Enter.
LEMMA PicksGoOn ==
    ASSUME BridgeInv, NEW h \in handlers, NEW p \in {"enter", "failed", "put back", "reset", "rebase"},
           Bridge!Op(h) = "submit", h.pc # "begin", Bridge!Step(h, Put(h, p)),
           UNCHANGED <<inbox, log, idlers, boxes>>,
           Counted(h, h.pc \notin EnterDone /\ p \in EnterDone),
           h.pc \in EnterDone => p \in EnterDone
    PROVE  BridgePicks'
<1> DEFINE g == Put(h, p)
           t == Bridge!Target(h)
<1>1. /\ g.u = h.u /\ g.pc = p /\ handlers' = (handlers \ {h}) \cup {g}
      /\ t \in Bridge!Ids /\ Picked(t) /\ Submits(h, t)
  <2>1. p \in Pcs
    BY DEF Pcs
  <2>2. g.u = h.u /\ g.pc = p
    BY <2>1, HandlerTo
  <2>3. handlers' = (handlers \ {h}) \cup {g}
    BY DEF Bridge!Step
  <2>4. t \in Bridge!Ids /\ Picked(t) /\ Submits(h, t)
    BY SubmitterOf
  <2> QED
    BY <2>2, <2>3, <2>4
<1>2. Bridge!Op(g)' = "submit" /\ Bridge!Target(g)' = t
  BY <1>1 DEF Bridge!Op, Bridge!Target
<1> HIDE DEF g, t
<1>3. \A k \in handlers' : k.pc = "put back" => Bridge!Op(k)' = "submit"
  BY <1>1, <1>2, BridgeParts DEF BridgePicks, Bridge!Op
<1>4. ASSUME NEW m \in Bridge!Ids PROVE Picked(m)'
  <2>1. Picked(m) /\ (Unsent(m)' <=> Unsent(m))
    BY BridgeParts DEF BridgePicks, Unsent
  <2>2. \A k \in handlers \ {h} : Submits(k, m)' <=> Submits(k, m)
    BY DEF Submits, Bridge!Op, Bridge!Target
  <2>3. CASE m # t
    <3>1. ~ Submits(h, m) /\ ~ Submits(g, m)' /\ submits'[m] = submits[m]
      BY <1>1, <1>2, <2>3 DEF Submits, t, Counted
    <3> QED
      BY <1>1, <2>1, <2>2, <3>1 DEF Picked
  <2>4. CASE m = t
    <3>1. /\ boxes[m] = "taken" /\ submits[m] = (IF h.pc \in EnterDone THEN 1 ELSE 0)
          /\ \A k \in handlers \ {h} : ~ Submits(k, m)
      BY <1>1, <2>4 DEF Picked
    <3>2. submits'[m] = (IF p \in EnterDone THEN 1 ELSE 0)
      <4>1. CASE h.pc \notin EnterDone /\ p \in EnterDone
        <5>1. submits[m] = 0 /\ submits'[m] = submits[m] + 1
          BY <2>4, <3>1, <4>1 DEF t, Counted
        <5>2. p \in EnterDone
          BY <4>1
        <5>3. submits'[m] = 1
          BY <5>1, CountedOnce
        <5> QED
          BY <5>2, <5>3
      <4>2. CASE ~ (h.pc \notin EnterDone /\ p \in EnterDone)
        BY <3>1, <4>2 DEF Counted
      <4> QED
        BY <4>1, <4>2
    <3>3. Submits(g, m)' /\ \A k \in handlers' : Submits(k, m)' <=> k = g
      BY <1>1, <1>2, <2>2, <2>4, <3>1 DEF Submits
    <3>4. ~ Unsent(m)
      BY <2>1, <3>1 DEF Picked
    <3>5. /\ submits'[m] \in {0, 1} /\ boxes'[m] = "taken" /\ ~ Unsent(m)' /\ g \in handlers'
          /\ g.pc \in {"enter", "failed", "put back", "reset", "rebase"}
          /\ submits'[m] = (IF g.pc \in EnterDone THEN 1 ELSE 0)
      BY <1>1, <2>1, <3>1, <3>2, <3>4
    <3> QED
      BY <3>3, <3>5 DEF Picked, EnterDone
  <2> QED
    BY <2>3, <2>4
<1> QED
  BY <1>3, <1>4 DEF BridgePicks

\* Each step of a handler.
LEMMA HandledRoute == ASSUME BridgeInv, NEW h \in handlers, Bridge!Route(h) PROVE BridgeInv'
<1> USE BridgeParts
<1>1. Bridge!Destination(h) \in Sessions \cup {None}
  BY HandlerTyped, BridgeConstants DEF Bridge!Destination, PromptsTyped, ChatsTyped, Bridge!Ids
<1>2. \/ Bridge!Done(h)
      \/ Bridge!Step(h, PutFor(h, "type", Bridge!Destination(h)))
  BY DEF Bridge!Route, PutFor
<1>3. Goes(h) /\ \A g \in handlers' : g \in handlers \/ g.pc # "put back"
  <2>1. "type" \in Pcs
    BY DEF Pcs
  <2>2. PutFor(h, "type", Bridge!Destination(h)).pc = "type"
    BY <1>1, <2>1, HandlerTo
  <2> QED
    BY <1>1, <1>2, <2>1, <2>2, GoesOn DEF Bridge!Done, Bridge!Step
<1>4. /\ Bridge!Quiet /\ Bridge!Op(h) # "submit"
      /\ UNCHANGED <<inbox, log, idlers, last, turn, notified, waiting, link, remembered, boxes, submits>>
  BY DEF Bridge!Route, Bridge!Quiet, Bridge!telegram, Bridge!flags, Bridge!routes
<1>5. BridgePicks'
  BY <1>3, <1>4, PicksOfOthers
<1>6. BasesStep /\ FlagsTyped' /\ PromptsTyped' /\ link' \in [Chats -> Sessions \cup {None}]
  BY <1>4, BasesSame DEF FlagsTyped, PromptsTyped, ChatsTyped
<1> QED
  BY <1>3, <1>4, <1>5, <1>6, HandledKeeps

LEMMA HandledType == ASSUME BridgeInv, NEW h \in handlers, Bridge!Type(h) PROVE BridgeInv'
<1> USE BridgeParts
<1>1. PICK p \in {"enter", "failed", "reset"} :
         Bridge!Step(h, Put(h, p)) /\ (p = "reset" => Bridge!Op(h) \in {"button", "key"})
  BY DEF Bridge!Type, Bridge!To, Put
<1>2. Goes(h) /\ \A g \in handlers' : g \in handlers \/ g.pc # "put back"
  <2>1. p \in Pcs
    BY DEF Pcs
  <2> QED
    BY <1>1, <2>1, GoesOn, HandlerTo DEF Bridge!Step
<1>3. /\ Bridge!Quiet
      /\ UNCHANGED <<inbox, log, idlers, last, turn, notified, waiting, link, remembered, boxes, submits>>
  BY DEF Bridge!Type, Bridge!Quiet, Bridge!telegram, Bridge!flags, Bridge!routes
<1>4. BridgePicks'
  <2>1. CASE Bridge!Op(h) # "submit"
    BY <1>2, <1>3, <2>1, PicksOfOthers
  <2>2. CASE Bridge!Op(h) = "submit"
    <3>1. p \in {"enter", "failed", "put back", "reset", "rebase"} /\ p \notin EnterDone
          /\ h.pc = "type" /\ h.pc \notin EnterDone
      BY <1>1, <2>2 DEF Bridge!Type, Bridge!At, EnterDone
    <3> QED
      BY <1>1, <1>3, <2>2, <3>1, PicksGoOn DEF Counted
  <2> QED
    BY <2>1, <2>2
<1>5. BasesStep /\ FlagsTyped' /\ PromptsTyped' /\ link' \in [Chats -> Sessions \cup {None}]
  BY <1>3, BasesSame DEF FlagsTyped, PromptsTyped, ChatsTyped
<1> QED
  BY <1>2, <1>3, <1>4, <1>5, HandledKeeps

LEMMA HandledEnter == ASSUME BridgeInv, NEW h \in handlers, Bridge!Enter(h) PROVE BridgeInv'
<1> USE BridgeParts
<1>1. /\ Bridge!Step(h, Put(h, "reset")) /\ h.pc = "enter" /\ "reset" \in Pcs
      /\ submits' = IF Bridge!Op(h) = "submit" THEN [submits EXCEPT ![Bridge!Target(h)] = @ + 1] ELSE submits
  BY DEF Bridge!Enter, Bridge!To, Put, Bridge!At, Pcs
<1>5. PromptsTyped' /\ Counted(h, Bridge!Op(h) = "submit")
  <2>1. CASE Bridge!Op(h) = "submit"
    <3>1. /\ submits' = [submits EXCEPT ![Bridge!Target(h)] = @ + 1] /\ submits \in [Bridge!Ids -> Nat]
          /\ Bridge!Target(h) \in Bridge!Ids
      BY <1>1, <2>1, SubmitterOf DEF PromptsTyped
    <3>2. submits' \in [Bridge!Ids -> Nat]
      BY <3>1
    <3>3. Counted(h, TRUE)
      BY <3>1 DEF Counted
    <3> QED
      BY <2>1, <3>2, <3>3 DEF PromptsTyped, Bridge!Enter, Bridge!routes, Counted
  <2>2. CASE Bridge!Op(h) # "submit"
    BY <1>1, <2>2 DEF PromptsTyped, Bridge!Enter, Bridge!routes, Counted
  <2> QED
    BY <2>1, <2>2
<1>2. Goes(h) /\ \A g \in handlers' : g \in handlers \/ g.pc # "put back"
  BY <1>1, GoesOn, HandlerTo DEF Bridge!Step
<1>3. /\ Bridge!Quiet
      /\ UNCHANGED <<inbox, log, idlers, last, turn, notified, waiting, link, remembered, boxes>>
  BY DEF Bridge!Enter, Bridge!Quiet, Bridge!telegram, Bridge!flags, Bridge!routes
<1>4. BridgePicks'
  <2>1. CASE Bridge!Op(h) # "submit"
    <3>1. submits' = submits
      BY <1>1, <2>1
    <3> QED
      BY <1>2, <1>3, <2>1, <3>1, PicksOfOthers
  <2>2. CASE Bridge!Op(h) = "submit"
    BY <1>1, <1>3, <1>5, <2>2, PicksGoOn DEF EnterDone, Counted
  <2> QED
    BY <2>1, <2>2
<1>6. BasesStep /\ FlagsTyped' /\ link' \in [Chats -> Sessions \cup {None}]
  BY <1>3, BasesSame DEF FlagsTyped, ChatsTyped
<1> QED
  BY <1>2, <1>3, <1>4, <1>5, <1>6, HandledKeeps

LEMMA HandledFailed == ASSUME BridgeInv, NEW h \in handlers, Bridge!Failed(h) PROVE BridgeInv'
<1> USE BridgeParts
<1>1. /\ h.pc = "failed" /\ "put back" \in Pcs
      /\ \/ Bridge!Op(h) = "submit" /\ Bridge!Step(h, Put(h, "put back"))
         \/ Bridge!Op(h) # "submit" /\ Bridge!Done(h)
  BY DEF Bridge!Failed, Bridge!To, Put, Bridge!At, Pcs
<1>2. Goes(h)
  BY <1>1, GoesOn
<1>3. /\ Bridge!Quiet
      /\ UNCHANGED <<inbox, log, idlers, last, turn, notified, waiting, link, remembered, boxes, submits>>
  BY DEF Bridge!Failed, Bridge!Quiet, Bridge!telegram, Bridge!flags, Bridge!routes
<1>4. BridgePicks'
  <2>1. CASE Bridge!Op(h) # "submit"
    BY <1>1, <1>2, <1>3, <2>1, PicksOfOthers DEF Bridge!Done
  <2>2. CASE Bridge!Op(h) = "submit"
    BY <1>1, <1>3, <2>2, PicksGoOn DEF EnterDone, Counted
  <2> QED
    BY <2>1, <2>2
<1>5. BasesStep /\ FlagsTyped' /\ PromptsTyped' /\ link' \in [Chats -> Sessions \cup {None}]
  BY <1>3, BasesSame DEF FlagsTyped, PromptsTyped, ChatsTyped
<1> QED
  BY <1>2, <1>3, <1>4, <1>5, HandledKeeps

LEMMA HandledReset == ASSUME BridgeInv, NEW h \in handlers, Bridge!Reset(h) PROVE BridgeInv'
<1> USE BridgeParts
<1>1. /\ Bridge!Step(h, Put(h, "rebase")) /\ h.pc = "reset" /\ "rebase" \in Pcs
      /\ notified' = Entry(notified, h.by, h.ses, "never") /\ waiting' = Entry(waiting, h.by, h.ses, "yes")
  BY DEF Bridge!Reset, Bridge!To, Put, Bridge!At, Pcs, Entry
<1>2. Goes(h) /\ \A g \in handlers' : g \in handlers \/ g.pc # "put back"
  BY <1>1, GoesOn, HandlerTo DEF Bridge!Step
<1>3. /\ Bridge!Quiet
      /\ UNCHANGED <<inbox, log, idlers, last, turn, link, remembered, boxes, submits>>
  BY DEF Bridge!Reset, Bridge!Quiet, Bridge!telegram, Bridge!routes
<1>4. BridgePicks'
  <2>1. CASE Bridge!Op(h) # "submit"
    BY <1>1, <1>2, <1>3, <2>1, PicksOfOthers
  <2>2. CASE Bridge!Op(h) = "submit"
    BY <1>1, <1>3, <2>2, PicksGoOn DEF EnterDone, Counted
  <2> QED
    BY <2>1, <2>2
<1>5. FlagsTyped'
  BY <1>1, TableSet DEF FlagsTyped, Table
<1>6. BasesStep /\ PromptsTyped' /\ link' \in [Chats -> Sessions \cup {None}]
  BY <1>3, BasesSame DEF PromptsTyped, ChatsTyped
<1> QED
  BY <1>2, <1>3, <1>4, <1>5, <1>6, HandledKeeps

LEMMA SubmitEnds ==
    ASSUME BridgeInv, NEW h \in handlers, h.pc = "rebase", Bridge!Done(h),
           UNCHANGED <<inbox, log, idlers, boxes, submits>>
    PROVE  BridgePicks'
<1>1. \A g \in handlers' : g \in handlers /\ (g.pc = "put back" => Bridge!Op(g)' = "submit")
  BY BridgeParts DEF Bridge!Done, BridgePicks, Bridge!Op
<1>2. ASSUME NEW m \in Bridge!Ids PROVE Picked(m)'
  <2>1. Picked(m) /\ (Unsent(m)' <=> Unsent(m))
    BY BridgeParts DEF BridgePicks, Unsent
  <2>2. \A g : Submits(g, m)' <=> Submits(g, m)
    BY DEF Submits, Bridge!Op, Bridge!Target
  <2>3. Submits(h, m) => submits[m] = 1
    BY <2>1 DEF Picked, EnterDone
  <2>4. boxes'[m] = "taken" => submits'[m] = 1 \/ \E g \in handlers' : Submits(g, m)'
    BY <2>1, <2>2, <2>3 DEF Picked, Bridge!Done
  <2> QED
    BY <1>1, <2>1, <2>2, <2>4 DEF Picked
<1> QED
  BY <1>1, <1>2 DEF BridgePicks

LEMMA HandledRebase == ASSUME BridgeInv, NEW h \in handlers, Bridge!Rebase(h) PROVE BridgeInv'
<1> USE BridgeParts
<1>1. /\ h.pc = "rebase" /\ "bind" \in Pcs
      /\ \/ Bridge!Op(h) = "text" /\ Bridge!Step(h, Put(h, "bind"))
         \/ Bridge!Op(h) # "text" /\ Bridge!Done(h)
  BY DEF Bridge!Rebase, Bridge!To, Put, Bridge!At, Pcs
<1>2. Goes(h) /\ \A g \in handlers' : g \in handlers \/ g.pc # "put back"
  BY <1>1, GoesOn, HandlerTo DEF Bridge!Step, Bridge!Done
<1>3. /\ Bridge!Quiet
      /\ UNCHANGED <<inbox, log, idlers, notified, waiting, link, remembered, boxes, submits>>
  BY DEF Bridge!Rebase, Bridge!Quiet, Bridge!telegram, Bridge!flags, Bridge!routes
<1>4. BridgePicks'
  <2>1. CASE Bridge!Op(h) # "submit"
    BY <1>2, <1>3, <2>1, PicksOfOthers
  <2>2. CASE Bridge!Op(h) = "submit"
    BY <1>1, <1>3, <2>2, SubmitEnds
  <2> QED
    BY <2>1, <2>2
<1>5. BasesStep
  BY NothingSoFar, BasesForgotten DEF Bridge!Rebase, Bridge!Forget
<1>6. FlagsTyped' /\ PromptsTyped' /\ link' \in [Chats -> Sessions \cup {None}]
  BY <1>3 DEF FlagsTyped, PromptsTyped, ChatsTyped
<1> QED
  BY <1>2, <1>3, <1>4, <1>5, <1>6, HandledKeeps

LEMMA HandledCheckLink == ASSUME BridgeInv, NEW h \in handlers, Bridge!CheckLink(h) PROVE BridgeInv'
<1> USE BridgeParts
<1>1. "bind" \in Pcs /\ (Bridge!Step(h, Put(h, "bind")) \/ Bridge!Done(h))
  BY DEF Bridge!CheckLink, Bridge!To, Put, Pcs
<1>2. Goes(h) /\ \A g \in handlers' : g \in handlers \/ g.pc # "put back"
  BY <1>1, GoesOn, HandlerTo DEF Bridge!Step, Bridge!Done
<1>3. /\ Bridge!Quiet /\ Bridge!Op(h) # "submit"
      /\ UNCHANGED <<inbox, log, idlers, last, turn, notified, waiting, link, remembered, boxes, submits>>
  BY DEF Bridge!CheckLink, Bridge!Quiet, Bridge!telegram, Bridge!flags, Bridge!routes
<1>4. BridgePicks'
  BY <1>2, <1>3, PicksOfOthers
<1>5. BasesStep /\ FlagsTyped' /\ PromptsTyped' /\ link' \in [Chats -> Sessions \cup {None}]
  BY <1>3, BasesSame DEF FlagsTyped, PromptsTyped, ChatsTyped
<1> QED
  BY <1>2, <1>3, <1>4, <1>5, HandledKeeps

LEMMA HandledBind == ASSUME BridgeInv, NEW h \in handlers, Bridge!Bind(h) PROVE BridgeInv'
<1> USE BridgeParts
<1> DEFINE prior == link[Bridge!Chat(h)]
<1>1. prior \in Sessions \cup {None} /\ h.ses \in Sessions \cup {None}
  BY HandlerTyped DEF ChatsTyped
<1>2. "tidy" \in Pcs /\ (Bridge!Step(h, PutFor(h, "tidy", prior)) \/ Bridge!Done(h))
  BY DEF Bridge!Bind, PutFor, Pcs
<1>3. Goes(h) /\ \A g \in handlers' : g \in handlers \/ g.pc # "put back"
  <2>1. PutFor(h, "tidy", prior).pc = "tidy"
    BY <1>1, <1>2, HandlerTo
  <2> HIDE DEF prior
  <2> QED
    BY <1>1, <1>2, <2>1, GoesOn DEF Bridge!Step, Bridge!Done
<1>4. /\ Bridge!Quiet
      /\ UNCHANGED <<inbox, log, idlers, last, turn, notified, waiting, remembered, boxes, submits>>
  BY DEF Bridge!Bind, Bridge!Quiet, Bridge!telegram, Bridge!flags
<1>5. Bridge!Op(h) # "submit"
  BY NotSubmitted DEF Bridge!Bind, Bridge!At
<1>6. BridgePicks'
  BY <1>3, <1>4, <1>5, PicksOfOthers
<1>7. link' \in [Chats -> Sessions \cup {None}]
  BY <1>1, HandlerTyped DEF Bridge!Bind, ChatsTyped
<1>8. BasesStep /\ FlagsTyped' /\ PromptsTyped'
  BY <1>4, BasesSame DEF FlagsTyped, PromptsTyped
<1> QED
  BY <1>3, <1>4, <1>6, <1>7, <1>8, HandledKeeps

LEMMA HandledTidy == ASSUME BridgeInv, NEW h \in handlers, Bridge!Tidy(h) PROVE BridgeInv'
<1> USE BridgeParts
<1>1. Goes(h) /\ \A g \in handlers' : g \in handlers
  BY GoesOn DEF Bridge!Tidy, Bridge!Done
<1>2. /\ Bridge!Quiet
      /\ UNCHANGED <<inbox, log, idlers, notified, waiting, link, remembered, boxes, submits>>
  BY DEF Bridge!Tidy, Bridge!Quiet, Bridge!telegram, Bridge!flags, Bridge!routes
<1>3. Bridge!Op(h) # "submit"
  BY NotSubmitted DEF Bridge!Tidy, Bridge!At
<1>4. BridgePicks'
  BY <1>1, <1>2, <1>3, PicksOfOthers
<1>5. BasesStep
  <2>1. CASE Bridge!Forget(h.by, h.ses)
    BY <2>1, NothingSoFar, BasesForgotten DEF Bridge!Forget
  <2>2. CASE UNCHANGED <<last, turn>>
    BY <2>2, BasesSame
  <2> QED
    BY <2>1, <2>2 DEF Bridge!Tidy
<1>6. FlagsTyped' /\ PromptsTyped' /\ link' \in [Chats -> Sessions \cup {None}]
  BY <1>2 DEF FlagsTyped, PromptsTyped, ChatsTyped
<1> QED
  BY <1>1, <1>2, <1>4, <1>5, <1>6, HandledKeeps

LEMMA PicksNext ==
    ASSUME \A h \in handlers' : h.pc = "put back" => Bridge!Op(h)' = "submit",
           \A m \in Bridge!Ids : Picked(m)'
    PROVE  BridgePicks'
  BY DEF BridgePicks
\* A box of a prompt that is there turns into another.
Turned(t, v) == [boxes EXCEPT ![t] = v]
LEMMA TurnedTyped ==
    ASSUME BridgeInv, NEW t, NEW v \in {"none", "taken", "empty", "ticked"}
    PROVE  /\ Turned(t, v) \in [Bridge!Ids -> {"none", "taken", "empty", "ticked"}]
           /\ \A m \in Bridge!Ids : Turned(t, v)[m] = IF m = t THEN v ELSE boxes[m]
  BY BridgeParts DEF Turned, PromptsTyped
LEMMA HandledToggle == ASSUME BridgeInv, NEW h \in handlers, Bridge!Toggle(h) PROVE BridgeInv'
<1> USE BridgeParts
<1> DEFINE t == Bridge!Target(h)
<1>1. Goes(h) /\ \A g \in handlers' : g \in handlers
  BY GoesOn DEF Bridge!Toggle, Bridge!Done
<1>2. /\ Bridge!Quiet /\ Bridge!Op(h) = "toggle"
      /\ UNCHANGED <<inbox, log, idlers, last, turn, notified, waiting, link, remembered, submits>>
  BY DEF Bridge!Toggle, Bridge!Quiet, Bridge!telegram, Bridge!flags, Bridge!routes
<1>3. \/ boxes' = boxes
      \/ /\ t \in Bridge!Ids => boxes[t] \in {"empty", "ticked"}
         /\ boxes' = Turned(t, "empty") \/ boxes' = Turned(t, "ticked")
  BY DEF Bridge!Toggle, Bridge!Box, Turned
<1> HIDE DEF t
<1>4. /\ boxes' \in [Bridge!Ids -> {"none", "taken", "empty", "ticked"}]
      /\ \A m \in Bridge!Ids : \/ boxes'[m] = boxes[m]
                               \/ boxes[m] \in {"empty", "ticked"} /\ boxes'[m] \in {"empty", "ticked"}
  <2>1. CASE boxes' = boxes
    BY <2>1 DEF PromptsTyped
  <2>2. CASE boxes' = Turned(t, "empty") /\ (t \in Bridge!Ids => boxes[t] \in {"empty", "ticked"})
    BY <2>2, TurnedTyped
  <2>3. CASE boxes' = Turned(t, "ticked") /\ (t \in Bridge!Ids => boxes[t] \in {"empty", "ticked"})
    BY <2>3, TurnedTyped
  <2> QED
    BY <1>3, <2>1, <2>2, <2>3
<1>5. BridgePicks'
  <2>1. \A g \in handlers' : g.pc = "put back" => Bridge!Op(g)' = "submit"
    BY <1>1, <1>2 DEF BridgePicks, Bridge!Op
  <2>2. ASSUME NEW m \in Bridge!Ids PROVE Picked(m)'
    <3>1. Picked(m) /\ (Unsent(m)' <=> Unsent(m))
      BY <1>2 DEF BridgePicks, Unsent
    <3>2. \A g : Submits(g, m)' <=> Submits(g, m)
      BY <1>2 DEF Submits, Bridge!Op, Bridge!Target
    <3>3. ~ Submits(h, m)
      BY <1>2 DEF Submits
    <3>4. \A g \in handlers : Submits(g, m) => g \in handlers'
      BY <3>3 DEF Bridge!Toggle, Bridge!Done
    <3>5. CASE boxes'[m] = boxes[m]
      BY <1>1, <1>2, <3>1, <3>2, <3>4, <3>5 DEF Picked
    <3>6. CASE boxes[m] \in {"empty", "ticked"} /\ boxes'[m] \in {"empty", "ticked"}
      <4>1. /\ \A g \in handlers : ~ Submits(g, m)
            /\ submits[m] = 0 /\ ~ Unsent(m)
        BY <3>1, <3>6 DEF Picked
      <4> QED
        BY <1>1, <1>2, <3>1, <3>2, <3>6, <4>1 DEF Picked
    <3> QED
      BY <1>4, <3>5, <3>6
  <2> QED
    BY <2>1, <2>2 DEF BridgePicks
<1>6. BasesStep /\ FlagsTyped' /\ PromptsTyped' /\ link' \in [Chats -> Sessions \cup {None}]
  BY <1>2, <1>4, BasesSame DEF FlagsTyped, PromptsTyped, ChatsTyped
<1> QED
  BY <1>1, <1>2, <1>5, <1>6, HandledKeeps

LEMMA HandledTake == ASSUME BridgeInv, NEW h \in handlers, Bridge!Take(h) PROVE BridgeInv'
<1> USE BridgeParts
<1> DEFINE t == Bridge!Target(h)
<1>1. /\ Bridge!Quiet /\ Bridge!Op(h) = "submit" /\ h.pc = "begin"
      /\ UNCHANGED <<inbox, log, idlers, last, turn, notified, waiting, link, remembered, submits>>
  BY DEF Bridge!Take, Bridge!Quiet, Bridge!telegram, Bridge!flags, Bridge!routes, Bridge!At
<1>2. t \in Bridge!Ids /\ Picked(t)
  BY <1>1, SubmitterOf
<1>3. \/ Bridge!Done(h) /\ boxes' = boxes
      \/ /\ boxes[t] \in {"empty", "ticked"} /\ boxes' = Turned(t, "taken")
         /\ Bridge!Step(h, Put(h, "put back")) \/ Bridge!Step(h, Put(h, "type"))
  BY DEF Bridge!Take, Bridge!Box, Turned, Put, Bridge!To
<1>4. "put back" \in Pcs /\ "type" \in Pcs
  BY DEF Pcs
<1>5. Goes(h)
  BY <1>3, <1>4, GoesOn
<1> HIDE DEF t
<1>6. boxes' \in [Bridge!Ids -> {"none", "taken", "empty", "ticked"}]
  <2>1. CASE boxes' = boxes
    BY <2>1 DEF PromptsTyped
  <2>2. CASE boxes' = Turned(t, "taken")
    BY <2>2, TurnedTyped
  <2> QED
    BY <1>3, <2>1, <2>2
<1>11. ASSUME boxes' = Turned(t, "taken")
       PROVE  \A m \in Bridge!Ids : boxes'[m] = IF m = t THEN "taken" ELSE boxes[m]
  BY <1>11, TurnedTyped
<1>7. ASSUME Bridge!Done(h), boxes' = boxes
      PROVE  BridgePicks'
  <2>1. \A g \in handlers' : g \in handlers
    BY <1>7 DEF Bridge!Done
  <2>3. \A g \in handlers' : g.pc = "put back" => Bridge!Op(g)' = "submit"
    BY <1>1, <2>1 DEF BridgePicks, Bridge!Op
  <2>2. ASSUME NEW m \in Bridge!Ids PROVE Picked(m)'
    <3>1. Picked(m) /\ (Unsent(m)' <=> Unsent(m)) /\ ~ Submits(h, m)
      BY <1>1 DEF BridgePicks, Unsent, Submits
    <3>2. \A g : Submits(g, m)' <=> Submits(g, m)
      BY <1>1 DEF Submits, Bridge!Op, Bridge!Target
    <3>3. \A g \in handlers : Submits(g, m) => g \in handlers'
      BY <1>7, <3>1 DEF Bridge!Done
    <3> QED
      BY <1>1, <1>7, <2>1, <3>1, <3>2, <3>3 DEF Picked
  <2> QED
    BY <2>2, <2>3, PicksNext
<1>8. ASSUME NEW p \in {"put back", "type"}, Bridge!Step(h, Put(h, p)), boxes[t] \in {"empty", "ticked"},
             boxes' = Turned(t, "taken")
      PROVE  BridgePicks'
  <2> DEFINE g == Put(h, p)
  <2>1. g.u = h.u /\ g.pc = p /\ handlers' = (handlers \ {h}) \cup {g}
    BY <1>4, <1>8, HandlerTo DEF Bridge!Step
  <2>2. Bridge!Op(g)' = "submit" /\ Bridge!Target(g)' = t
    BY <1>1, <2>1 DEF Bridge!Op, Bridge!Target, t
  <2> HIDE DEF g
  <2>3. \A k \in handlers' : k.pc = "put back" => Bridge!Op(k)' = "submit"
    BY <1>1, <2>1, <2>2 DEF BridgePicks, Bridge!Op
  <2>5. \A m \in Bridge!Ids : boxes'[m] = IF m = t THEN "taken" ELSE boxes[m]
    BY <1>8, <1>11
  <2>4. ASSUME NEW m \in Bridge!Ids PROVE Picked(m)'
    <3>1. Picked(m) /\ (Unsent(m)' <=> Unsent(m)) /\ ~ Submits(h, m)
      BY <1>1 DEF BridgePicks, Unsent, Submits
    <3>2. \A k : Submits(k, m)' <=> Submits(k, m)
      BY <1>1 DEF Submits, Bridge!Op, Bridge!Target
    <3>3. Submits(g, m)' <=> m = t
      BY <1>8, <2>1, <2>2 DEF Submits
    <3>4. CASE m # t
      <4>1. boxes'[m] = boxes[m]
        BY <2>5, <3>4
      <4>2. \A k : Submits(k, m)' /\ k \in handlers' => Submits(k, m) /\ k \in handlers
        BY <2>1, <3>2, <3>3, <3>4
      <4>3. \A k \in handlers : Submits(k, m) => Submits(k, m)' /\ k \in handlers'
        BY <2>1, <3>1, <3>2, <3>3, <3>4, <4>2
      <4> QED
        BY <1>1, <3>1, <4>1, <4>2, <4>3 DEF Picked
    <3>5. CASE m = t
      <4>1. boxes'[m] = "taken" /\ submits[m] = 0 /\ ~ Unsent(m) /\ \A k \in handlers : ~ Submits(k, m)
        BY <1>8, <2>5, <3>1, <3>5 DEF Picked
      <4>2. \A k \in handlers' : Submits(k, m)' <=> k = g
        BY <2>1, <3>2, <3>3, <3>5, <4>1
      <4>3. g \in handlers' /\ g.pc \in {"type", "put back"} /\ submits'[m] = 0 /\ ~ Unsent(m)'
        BY <1>1, <1>8, <2>1, <3>1, <4>1
      <4> QED
        BY <4>1, <4>2, <4>3 DEF Picked, EnterDone
    <3> QED
      BY <3>4, <3>5
  <2> QED
    BY <2>3, <2>4 DEF BridgePicks
<1>9. BridgePicks'
  BY <1>3, <1>7, <1>8
<1>10. BasesStep /\ FlagsTyped' /\ PromptsTyped' /\ link' \in [Chats -> Sessions \cup {None}]
  BY <1>1, <1>6, BasesSame DEF FlagsTyped, PromptsTyped, ChatsTyped
<1> QED
  BY <1>1, <1>5, <1>9, <1>10, HandledKeeps

LEMMA HandledPutBack == ASSUME BridgeInv, NEW h \in handlers, Bridge!PutBack(h) PROVE BridgeInv'
<1> USE BridgeParts
<1> DEFINE t == Bridge!Target(h)
<1>1. /\ Bridge!Quiet /\ h.pc = "put back" /\ Bridge!Done(h) /\ boxes' = Turned(t, "empty")
      /\ UNCHANGED <<inbox, log, idlers, last, turn, notified, waiting, link, remembered, submits>>
  BY DEF Bridge!PutBack, Bridge!Quiet, Bridge!telegram, Bridge!flags, Bridge!routes, Bridge!At, Turned
<1>2. Bridge!Op(h) = "submit" /\ t \in Bridge!Ids /\ Picked(t) /\ Submits(h, t)
  BY <1>1, SubmitterOf DEF BridgePicks
<1>3. Goes(h)
  BY <1>1, GoesOn
<1>4. \A m \in Bridge!Ids : m # t => ~ Submits(h, m)
  BY DEF Submits
<1> HIDE DEF t
<1>5. /\ boxes' \in [Bridge!Ids -> {"none", "taken", "empty", "ticked"}]
      /\ \A m \in Bridge!Ids : boxes'[m] = IF m = t THEN "empty" ELSE boxes[m]
  <2>1. boxes' = Turned(t, "empty")
    BY <1>1
  <2> QED
    BY <2>1, TurnedTyped
<1>6. \A g \in handlers' : g \in handlers /\ (g.pc = "put back" => Bridge!Op(g)' = "submit")
  BY <1>1 DEF Bridge!Done, BridgePicks, Bridge!Op
<1>7. ASSUME NEW m \in Bridge!Ids PROVE Picked(m)'
  <2>1. Picked(m) /\ (Unsent(m)' <=> Unsent(m))
    BY <1>1 DEF BridgePicks, Unsent
  <2>2. \A g : Submits(g, m)' <=> Submits(g, m)
    BY <1>1 DEF Submits, Bridge!Op, Bridge!Target
  <2>3. CASE m # t
    <3>1. \A g \in handlers : Submits(g, m) => g \in handlers'
      BY <1>1, <1>4, <2>3 DEF Bridge!Done
    <3> QED
      BY <1>1, <1>5, <1>6, <2>1, <2>2, <2>3, <3>1 DEF Picked
  <2>4. CASE m = t
    <3>1. submits[m] = 0 /\ ~ Unsent(m) /\ \A g \in handlers : Submits(g, m) => g = h
      BY <1>1, <1>2, <2>1, <2>4 DEF Picked, EnterDone
    <3>2. \A g \in handlers' : ~ Submits(g, m)'
      BY <1>1, <2>2, <3>1 DEF Bridge!Done
    <3> QED
      BY <1>1, <1>5, <2>1, <2>4, <3>1, <3>2 DEF Picked
  <2> QED
    BY <2>3, <2>4
<1>8. BridgePicks'
  BY <1>6, <1>7 DEF BridgePicks
<1>9. BasesStep /\ FlagsTyped' /\ PromptsTyped' /\ link' \in [Chats -> Sessions \cup {None}]
  BY <1>1, <1>5, BasesSame DEF FlagsTyped, PromptsTyped, ChatsTyped
<1> QED
  BY <1>1, <1>3, <1>8, <1>9, HandledKeeps

LEMMA HandledAll == ASSUME BridgeInv, NEW h \in handlers, Bridge!Handle(h) PROVE BridgeInv'
  BY HandledRoute, HandledType, HandledEnter, HandledFailed, HandledReset, HandledRebase,
     HandledCheckLink, HandledBind, HandledTidy, HandledToggle, HandledTake, HandledPutBack
     DEF Bridge!Handle

\* ---------------------------------------- goroutines of idle events
LEMMA IdlerTyped ==
    ASSUME BridgeInv, NEW i \in idlers
    PROVE  /\ i \in Bridge!Idlers /\ i.n \in Nat /\ i.ses \in Sessions /\ i.by \in Bridge!Bots
           /\ i.asked \in BOOLEAN /\ i.prior \in BOOLEAN /\ i.sent \in BOOLEAN /\ i.turn \in Nat
           /\ i.text \in SUBSET Bridge!Lines /\ i.base \in SUBSET Bridge!Lines
           /\ i.left \in SUBSET Chats /\ i.msg \in 0..MaxSent
  BY BridgeParts DEF WorkTyped, Bridge!Idlers
LEMMA TextTyped ==
    ASSUME BridgeInv, NEW s \in Sessions
    PROVE  Bridge!Text(s) \in SUBSET Bridge!Lines /\ (s \notin Claude => SoFar(Bridge!Text(s)))
<1>1. lines[s] \in 0..MaxLines /\ MaxLines \in Nat /\ terminal[s] \in Nat
  BY BridgeParts, BridgeConstants DEF ChatsTyped
<1>2. {terminal[s]} \X ({lines[s]} \ {0}) \in SUBSET Bridge!Lines
  BY <1>1 DEF Bridge!Lines
<1>3. {terminal[s]} \X (1..lines[s]) \in SUBSET Bridge!Lines
  BY <1>1 DEF Bridge!Lines
<1>4. SoFar({terminal[s]} \X (1..lines[s]))
  <2>1. lines[s] \in Nat
    BY <1>1
  <2>2. ASSUME NEW t \in Nat, NEW k \in Nat PROVE SoFar({t} \X (1..k))
    BY DEF SoFar
  <2> QED
    BY <1>1, <2>1, <2>2
<1> QED
  BY <1>2, <1>3, <1>4, NothingSoFar DEF Bridge!Text
LEMMA SpendTyped ==
    ASSUME BridgeInv, NEW x, Bridge!Spend(x)
    PROVE  budget' \in [Bridge!Events -> Nat]
<1>1. /\ budget \in [Bridge!Events -> Nat] /\ budget[x] > 0
      /\ budget' = [budget EXCEPT ![x] = budget[x] - 1]
  BY BridgeParts DEF Bridge!Spend, ChatsTyped
<1>2. x \in Bridge!Events => budget[x] - 1 \in Nat
  BY <1>1
<1> QED
  BY <1>1, <1>2
LEMMA ToldKeeps ==
    ASSUME BridgeInv, Bridge!Still, budget' \in [Bridge!Events -> Nat], WorkTyped', LogTyped', FlagsTyped',
           BasesTyped', PromptsTyped', BridgeNotes', BridgePicks', BridgeTexts', BridgePushes'
    PROVE  BridgeInv'
<1> USE BridgeParts DEF Bridge!Still, Bridge!telegram, Bridge!hub, Bridge!manager
<1>1. MailTyped' /\ ChatsTyped' /\ BotsTyped'
  BY DEF MailTyped, ChatsTyped, BotsTyped
<1>2. BridgeMail'
  BY DEF BridgeMail
<1> QED
  BY <1>1, <1>2, BridgeNext DEF TypesKept
Calm(i, j) ==
    /\ j.by = i.by /\ j.msg = 0 /\ j.pc \notin {"send", "register"}
    /\ j.pc # "diff" => j.left = {}
    /\ j.ses \notin Claude => SoFar(j.text) /\ SoFar(j.base)
TellsOn(i) ==
    \/ Bridge!Leave(i)
    \/ \E j \in Bridge!Idlers : Calm(i, j) /\ idlers' = (idlers \ {i}) \cup {j}
LEMMA CalmKeeps ==
    ASSUME BridgeInv, NEW i \in idlers, i.pc # "register", Bridge!Still, TellsOn(i),
           UNCHANGED <<log, remembered, boxes>>, budget' \in [Bridge!Events -> Nat], FlagsTyped', BasesStep
    PROVE  BridgeInv'
<1> USE BridgeParts DEF Bridge!Still, Bridge!telegram, Bridge!hub, Bridge!manager
<1>1. i.msg = 0
  BY DEF BridgeNotes
<1>2. IdlersCalm /\ IdlersQuiet
  <2>1. i.by <= bots' /\ \A k \in idlers' : k \in idlers \/ Calm(i, k)
    BY DEF TellsOn, Bridge!Leave, BridgeNotes
  <2>2. \A k \in idlers : k.msg # 0 => k \in idlers'
    BY <1>1 DEF TellsOn, Bridge!Leave
  <2> QED
    BY <2>1, <2>2 DEF Calm, IdlersCalm, IdlersQuiet
<1>3. WorkTyped' /\ LogTyped' /\ PromptsTyped' /\ BasesTyped'
  BY DEF TellsOn, Bridge!Leave, WorkTyped, LogTyped, PromptsTyped, BasesStep
<1>4. BotsTyped' /\ bots <= bots'
  BY DEF BotsTyped
<1>5. BridgeNotes'
  BY <1>2, <1>4, NotesSame
<1>6. BridgePicks'
  BY <1>2, UnsentSame, PicksSame
<1>7. BridgeTexts' /\ BridgePushes'
  BY <1>2, TextsStep, PushesStep
<1> QED
  BY <1>3, <1>5, <1>6, <1>7, ToldKeeps

LEMMA ToldStopped == ASSUME BridgeInv, NEW i \in idlers, Bridge!Stopped(i) PROVE BridgeInv'
<1> DEFINE j == [i EXCEPT !.pc = "bye"]
<1>1. /\ i.pc = "stop" /\ Bridge!Still /\ UNCHANGED <<log, last, turn, remembered, boxes, budget>>
      /\ notified' = Entry(notified, i.by, i.ses, "never") /\ waiting' = Entry(waiting, i.by, i.ses, "no")
      /\ idlers' = (idlers \ {i}) \cup {j}
  BY DEF Bridge!Stopped, Bridge!Is, Bridge!Goto, Entry
<1>4. TellsOn(i)
  <2>1. /\ j \in Bridge!Idlers /\ j.pc = "bye" /\ j.msg = i.msg /\ j.left = i.left /\ j.ses = i.ses
        /\ j.text = i.text /\ j.base = i.base /\ j.by = i.by
    BY IdlerTyped DEF Bridge!Idlers
  <2>2. i.msg = 0 /\ i.left = {} /\ (i.ses \notin Claude => SoFar(i.text) /\ SoFar(i.base))
    BY <1>1, BridgeParts DEF BridgeNotes, BridgeTexts
  <2> QED
    BY <1>1, <2>1, <2>2 DEF TellsOn, Calm
<1> HIDE DEF j
<1>2. FlagsTyped'
  BY <1>1, TableSet, BridgeParts DEF FlagsTyped, Table
<1>3. BasesStep /\ budget' \in [Bridge!Events -> Nat]
  BY <1>1, BasesSame, BridgeParts DEF ChatsTyped
<1> QED
  BY <1>1, <1>2, <1>3, <1>4, CalmKeeps

LEMMA ToldGuard == ASSUME BridgeInv, NEW i \in idlers, Bridge!Guard(i) PROVE BridgeInv'
<1>1. /\ i.pc = "guard" /\ Bridge!Still /\ UNCHANGED <<log, last, turn, remembered, boxes, budget, notified>>
      /\ waiting' = waiting \/ waiting' = Entry(waiting, i.by, i.ses, "no")
      /\ \/ Bridge!Leave(i)
         \/ \E a \in BOOLEAN, p \in BOOLEAN :
               idlers' = (idlers \ {i}) \cup {[i EXCEPT !.pc = "read", !.asked = a, !.prior = p]}
  BY DEF Bridge!Guard, Bridge!Is, Bridge!Goto, Bridge!flags, Entry
<1>2. TellsOn(i)
  <2>1. CASE Bridge!Leave(i)
    BY <2>1 DEF TellsOn
  <2>2. ASSUME NEW a \in BOOLEAN, NEW p \in BOOLEAN, NEW j, j = [i EXCEPT !.pc = "read", !.asked = a, !.prior = p],
               idlers' = (idlers \ {i}) \cup {j}
        PROVE  TellsOn(i)
    <3>1. j \in Bridge!Idlers /\ j.pc = "read" /\ j.msg = i.msg /\ j.left = i.left /\ j.ses = i.ses
          /\ j.text = i.text /\ j.base = i.base /\ j.by = i.by
      BY <2>2, IdlerTyped DEF Bridge!Idlers
    <3>2. i.msg = 0 /\ i.left = {} /\ (i.ses \notin Claude => SoFar(i.text) /\ SoFar(i.base))
      BY <1>1, BridgeParts DEF BridgeNotes, BridgeTexts
    <3> QED
      BY <2>2, <3>1, <3>2 DEF TellsOn, Calm
  <2> QED
    BY <1>1, <2>1, <2>2
<1>3. FlagsTyped'
  <2>1. waiting \in Table({"no", "yes", "late"})
    BY BridgeParts DEF FlagsTyped, Table
  <2>3. waiting' = waiting \/ waiting' = Entry(waiting, i.by, i.ses, "no")
    BY <1>1
  <2>2. waiting' \in Table({"no", "yes", "late"})
    BY <2>1, <2>3, TableSet
  <2> QED
    BY <1>1, <2>2, BridgeParts DEF FlagsTyped, Table
<1>4. BasesStep /\ budget' \in [Bridge!Events -> Nat]
  BY <1>1, BasesSame, BridgeParts DEF ChatsTyped
<1> QED
  BY <1>1, <1>2, <1>3, <1>4, CalmKeeps

LEMMA ToldRead == ASSUME BridgeInv, NEW i \in idlers, Bridge!Read(i) PROVE BridgeInv'
<1> DEFINE text == Bridge!Text(i.ses)
           chats == Bridge!ChatsFor(i.ses)
<1>1. /\ i.pc = "read" /\ Bridge!Still
      /\ UNCHANGED <<log, last, turn, remembered, boxes, budget, notified, waiting>>
      /\ \/ idlers' = (idlers \ {i}) \cup {[i EXCEPT !.pc = "after"]}
         \/ idlers' = (idlers \ {i}) \cup {[i EXCEPT !.pc = "diff", !.text = text, !.left = chats]}
  BY DEF Bridge!Read, Bridge!Is, Bridge!Goto, Bridge!flags
<1>2. i.msg = 0 /\ i.left = {} /\ (i.ses \notin Claude => SoFar(i.text) /\ SoFar(i.base))
  BY <1>1, BridgeParts DEF BridgeNotes, BridgeTexts
<1>3. text \in SUBSET Bridge!Lines /\ (i.ses \notin Claude => SoFar(text)) /\ chats \in SUBSET Chats
  BY IdlerTyped, TextTyped DEF Bridge!ChatsFor
<1>4. TellsOn(i)
  <2> HIDE DEF text, chats
  <2>1. ASSUME NEW j, j = [i EXCEPT !.pc = "after"], idlers' = (idlers \ {i}) \cup {j} PROVE TellsOn(i)
    <3>1. j \in Bridge!Idlers /\ j.pc = "after" /\ j.msg = i.msg /\ j.left = i.left /\ j.ses = i.ses
          /\ j.text = i.text /\ j.base = i.base /\ j.by = i.by
      BY <2>1, IdlerTyped DEF Bridge!Idlers
    <3> QED
      BY <1>2, <2>1, <3>1 DEF TellsOn, Calm
  <2>2. ASSUME NEW j, j = [i EXCEPT !.pc = "diff", !.text = text, !.left = chats],
               idlers' = (idlers \ {i}) \cup {j}
        PROVE  TellsOn(i)
    <3>1. j \in Bridge!Idlers /\ j.pc = "diff" /\ j.msg = i.msg /\ j.ses = i.ses
          /\ j.text = text /\ j.base = i.base /\ j.by = i.by
      BY <1>3, <2>2, IdlerTyped DEF Bridge!Idlers
    <3> QED
      BY <1>2, <1>3, <2>2, <3>1 DEF TellsOn, Calm
  <2> QED
    BY <1>1, <2>1, <2>2
<1>5. FlagsTyped' /\ BasesStep /\ budget' \in [Bridge!Events -> Nat]
  BY <1>1, BasesSame, BridgeParts DEF ChatsTyped, FlagsTyped
<1> QED
  BY <1>1, <1>4, <1>5, CalmKeeps

LEMMA ToldPushEnds == ASSUME BridgeInv, NEW i \in idlers, Bridge!PushEnds(i) PROVE BridgeInv'
<1>1. /\ i.pc = "send" /\ i.left = {} /\ Bridge!Still
      /\ UNCHANGED <<log, remembered, boxes, budget, notified, waiting>>
      /\ idlers' = (idlers \ {i}) \cup {[i EXCEPT !.pc = "after"]}
      /\ \/ UNCHANGED <<last, turn>>
         \/ /\ last' = [last EXCEPT ![i.by][i.ses] = i.base]
            /\ turn' = [turn EXCEPT ![i.by][i.ses] = @ + 1]
  BY DEF Bridge!PushEnds, Bridge!Is, Bridge!Goto, Bridge!flags
<1>2. i.msg = 0 /\ (i.ses \notin Claude => SoFar(i.text) /\ SoFar(i.base))
  BY <1>1, BridgeParts DEF BridgeNotes, BridgeTexts
<1>3. TellsOn(i)
  <2>1. ASSUME NEW j, j = [i EXCEPT !.pc = "after"], idlers' = (idlers \ {i}) \cup {j} PROVE TellsOn(i)
    <3>1. j \in Bridge!Idlers /\ j.pc = "after" /\ j.msg = i.msg /\ j.left = i.left /\ j.ses = i.ses
          /\ j.text = i.text /\ j.base = i.base /\ j.by = i.by
      BY <2>1, IdlerTyped DEF Bridge!Idlers
    <3> QED
      BY <1>1, <1>2, <2>1, <3>1 DEF TellsOn, Calm
  <2> QED
    BY <1>1, <2>1
<1>4. BasesStep
  <2>1. CASE UNCHANGED <<last, turn>>
    BY <2>1, BasesSame
  <2>2. ASSUME last' = [last EXCEPT ![i.by][i.ses] = i.base], turn' = [turn EXCEPT ![i.by][i.ses] = @ + 1]
        PROVE  BasesStep
    <3>1. i.base \in SUBSET Bridge!Lines
      BY IdlerTyped
    <3> QED
      BY <1>2, <2>2, <3>1, BasesForgotten
  <2> QED
    BY <1>1, <2>1, <2>2
<1>5. FlagsTyped' /\ budget' \in [Bridge!Events -> Nat]
  BY <1>1, BridgeParts DEF ChatsTyped, FlagsTyped
<1> QED
  BY <1>1, <1>3, <1>4, <1>5, CalmKeeps

LEMMA ToldAfter == ASSUME BridgeInv, NEW i \in idlers, Bridge!After(i) PROVE BridgeInv'
<1>1. /\ i.pc = "after" /\ Bridge!Still /\ UNCHANGED <<log, last, turn, remembered, boxes, budget>>
      /\ notified' = notified \/ notified' = Entry(notified, i.by, i.ses, "recent")
      /\ waiting' = waiting \/ waiting' = Entry(waiting, i.by, i.ses, "no")
      /\ Bridge!Leave(i) \/ idlers' = (idlers \ {i}) \cup {[i EXCEPT !.pc = "note"]}
  BY DEF Bridge!After, Bridge!Is, Bridge!Goto, Bridge!flags, Entry
<1>2. i.msg = 0 /\ i.left = {} /\ (i.ses \notin Claude => SoFar(i.text) /\ SoFar(i.base))
  BY <1>1, BridgeParts DEF BridgeNotes, BridgeTexts
<1>3. TellsOn(i)
  <2>1. CASE Bridge!Leave(i)
    BY <2>1 DEF TellsOn
  <2>2. ASSUME NEW j, j = [i EXCEPT !.pc = "note"], idlers' = (idlers \ {i}) \cup {j} PROVE TellsOn(i)
    <3>1. j \in Bridge!Idlers /\ j.pc = "note" /\ j.msg = i.msg /\ j.left = i.left /\ j.ses = i.ses
          /\ j.text = i.text /\ j.base = i.base /\ j.by = i.by
      BY <2>2, IdlerTyped DEF Bridge!Idlers
    <3> QED
      BY <1>2, <2>2, <3>1 DEF TellsOn, Calm
  <2> QED
    BY <1>1, <2>1, <2>2
<1>4. FlagsTyped'
  <2>1. notified \in Table({"never", "recent", "old"}) /\ waiting \in Table({"no", "yes", "late"})
    BY BridgeParts DEF FlagsTyped, Table
  <2>2. notified' \in Table({"never", "recent", "old"}) /\ waiting' \in Table({"no", "yes", "late"})
    BY <1>1, <2>1, TableSet
  <2> QED
    BY <2>2 DEF FlagsTyped, Table
<1>5. BasesStep /\ budget' \in [Bridge!Events -> Nat]
  BY <1>1, BasesSame, BridgeParts DEF ChatsTyped
<1> QED
  BY <1>1, <1>3, <1>4, <1>5, CalmKeeps

\* A goroutine that has a message in hand, or takes one, is another one of the same event.
Sibling(i, j) ==
    /\ j \in Bridge!Idlers /\ j.ses = i.ses /\ j.by = i.by /\ j.text = i.text /\ j.base = i.base
    /\ j.turn = i.turn /\ j.left \subseteq i.left
    /\ j.pc \in {"send", "register"}
LEMMA TextsGoOn ==
    ASSUME BridgeInv, NEW i \in idlers, NEW j, Sibling(i, j), idlers' \subseteq (idlers \ {i}) \cup {j},
           UNCHANGED last
    PROVE  BridgeTexts'
  BY BridgeParts DEF BridgeTexts, Sibling
LEMMA PushesGoOn ==
    ASSUME BridgeInv, NEW i \in idlers, NEW j, Sibling(i, j), Pushes(j) => Pushes(i),
           idlers' \subseteq (idlers \ {i}) \cup {j}, UNCHANGED <<log, last, turn>>
    PROVE  BridgePushes'
<1> USE BridgeParts
<1>1. Pushes(j) => Based(j, Piece(j))
  BY DEF BridgePushes, Sibling, Piece, Based
<1>2. \A k \in idlers \ {i} : Pushes(j) /\ Pushes(k) /\ Alike(j, k) => Piece(j) \cap Piece(k) = {}
  BY DEF BridgePushes, Sibling, Piece, Alike
<1>3. \A m \in DOMAIN log : Pushes(j) /\ Pushed(m) /\ Alike(j, log[m]) /\ log[m].chat \in j.left
                            => Piece(j) \cap log[m].text = {}
  BY DEF BridgePushes, Sibling, Piece, Alike
<1>4. \A k \in idlers' : k = j \/ k \in idlers \ {i}
  OBVIOUS
<1>5. \A k \in idlers' : Pushes(k) => Based(k, Piece(k))'
  BY <1>1, <1>4 DEF BridgePushes, Based, Piece
<1>6. \A k, l \in idlers' : Pushes(k) /\ Pushes(l) /\ Alike(k, l) /\ k # l => Piece(k) \cap Piece(l) = {}
  <2> TAKE k, l \in idlers'
  <2> HAVE Pushes(k) /\ Pushes(l) /\ Alike(k, l) /\ k # l
  <2>1. Alike(l, k)
    BY DEF Alike
  <2>2. CASE k = j
    BY <1>2, <1>4, <2>2
  <2>3. CASE l = j
    <3>1. Piece(j) \cap Piece(k) = {}
      BY <1>2, <1>4, <2>1, <2>3
    <3> QED
      BY <2>3, <3>1
  <2>4. CASE k \in idlers /\ l \in idlers
    BY <2>4 DEF BridgePushes
  <2> QED
    BY <1>4, <2>2, <2>3, <2>4
<1>7. \A k \in idlers', m \in DOMAIN log :
         Pushes(k) /\ Pushed(m) /\ Alike(k, log[m]) /\ log[m].chat \in k.left => Piece(k) \cap log[m].text = {}
  BY <1>3, <1>4 DEF BridgePushes
<1>8. Bridge!PushedOnce' /\ \A m \in DOMAIN log : Pushed(m) => Based(log[m], log[m].text)'
  BY DEF BridgePushes, Bridge!PushedOnce, Based
<1> QED
  BY <1>5, <1>6, <1>7, <1>8 DEF BridgePushes, Pushed, Pushes, Piece, Alike

\* Two texts of a terminal are ordered, those of two terminals have no line in common.
LEMMA SoFarOrder ==
    ASSUME NEW x, NEW y, SoFar(x), SoFar(y), x \cap y # {}
    PROVE  x \subseteq y \/ y \subseteq x
<1>1. PICK t \in Nat, k \in Nat : x = {t} \X (1..k)
  BY DEF SoFar
<1>2. PICK u \in Nat, m \in Nat : y = {u} \X (1..m)
  BY DEF SoFar
<1>3. t = u
  BY <1>1, <1>2
<1>4. CASE k <= m
  <2>1. 1..k \subseteq 1..m
    BY <1>4
  <2> QED
    BY <1>1, <1>2, <1>3, <2>1
<1>5. CASE m <= k
  <2>1. 1..m \subseteq 1..k
    BY <1>5
  <2> QED
    BY <1>1, <1>2, <1>3, <2>1
<1> QED
  BY <1>4, <1>5

\* What is new since the baseline goes out, and the baseline is what has been read.
LEMMA ToldDiff == ASSUME BridgeInv, NEW i \in idlers, Bridge!Diff(i) PROVE BridgeInv'
<1> USE BridgeParts
<1>1. /\ i.pc = "diff" /\ Bridge!Still
      /\ UNCHANGED <<log, remembered, boxes, budget, notified, waiting>>
  BY DEF Bridge!Diff, Bridge!Is, Bridge!flags
<1>2. i.msg = 0 /\ (i.ses \notin Claude => SoFar(i.text) /\ SoFar(i.base))
  BY <1>1 DEF BridgeNotes, BridgeTexts
<1>3. FlagsTyped' /\ budget' \in [Bridge!Events -> Nat] /\ LogTyped' /\ PromptsTyped'
  <2>1. UNCHANGED <<log, remembered, boxes, budget, notified, waiting, submits>>
    BY <1>1 DEF Bridge!Still
  <2>2. FlagsTyped' /\ budget' \in [Bridge!Events -> Nat]
    BY <2>1 DEF ChatsTyped, FlagsTyped
  <2>3. LogTyped' /\ PromptsTyped'
    BY <2>1 DEF LogTyped, PromptsTyped
  <2> QED
    BY <2>2, <2>3
<1>4. CASE i.text \subseteq last[i.by][i.ses]
  <2>1. idlers' = (idlers \ {i}) \cup {[i EXCEPT !.pc = "after", !.left = {}]} /\ UNCHANGED <<last, turn>>
    BY <1>4 DEF Bridge!Diff, Bridge!Goto
  <2>2. TellsOn(i)
    <3>1. ASSUME NEW j, j = [i EXCEPT !.pc = "after", !.left = {}], idlers' = (idlers \ {i}) \cup {j}
          PROVE TellsOn(i)
      <4>1. j \in Bridge!Idlers /\ j.pc = "after" /\ j.msg = i.msg /\ j.left = {} /\ j.ses = i.ses
            /\ j.text = i.text /\ j.base = i.base /\ j.by = i.by
        BY <3>1, IdlerTyped DEF Bridge!Idlers
      <4> QED
        BY <1>2, <3>1, <4>1 DEF TellsOn, Calm
    <3> QED
      BY <2>1, <3>1
  <2>3. BasesStep
    BY <1>1, <2>1, BasesSame
  <2> QED
    BY <1>1, <1>3, <2>2, <2>3, CalmKeeps
<1>5. ASSUME ~ (i.text \subseteq last[i.by][i.ses]), NEW j,
             j = [i EXCEPT !.pc = "send", !.base = last[i.by][i.ses], !.turn = turn[i.by][i.ses]],
             idlers' = (idlers \ {i}) \cup {j}, last' = Entry(last, i.by, i.ses, i.text),
             turn' = IF last[i.by][i.ses] = {} \/ last[i.by][i.ses] \cap i.text # {} THEN turn
                     ELSE Entry(turn, i.by, i.ses, turn[i.by][i.ses] + 1)
      PROVE  BridgeInv'
  <2> DEFINE old == last[i.by][i.ses]
             now == turn[i.by][i.ses]
  <2>1. /\ i.by \in Bridge!Bots /\ i.ses \in Sessions /\ i.text \in SUBSET Bridge!Lines
        /\ old \in SUBSET Bridge!Lines /\ now \in Nat
    BY IdlerTyped DEF BasesTyped
  <2>2. /\ j \in Bridge!Idlers /\ j.pc = "send" /\ j.msg = 0 /\ j.left = i.left /\ j.ses = i.ses /\ j.by = i.by
        /\ j.text = i.text /\ j.base = old /\ j.turn = now
    BY <1>2, <1>5, <2>1, IdlerTyped DEF Bridge!Idlers
  <2>3. i.ses \notin Claude => SoFar(old) /\ (old = {} \/ old \cap i.text # {} => old \subseteq i.text)
    <3>1. i.ses \notin Claude => SoFar(old) /\ SoFar(i.text)
      BY <1>2, <2>1 DEF BridgeTexts
    <3>2. ~ (i.text \subseteq old)
      BY <1>5
    <3> HIDE DEF old
    <3> QED
      BY <3>1, <3>2, SoFarOrder
  <2>4. /\ last' \in Table(SUBSET Bridge!Lines)
        /\ \A c \in Bridge!Bots, d \in Sessions : last'[c][d] = IF c = i.by /\ d = i.ses THEN i.text ELSE last[c][d]
    <3>1. last \in Table(SUBSET Bridge!Lines)
      BY DEF BasesTyped, Table
    <3>2. last' = Entry(last, i.by, i.ses, i.text)
      BY <1>5
    <3> QED
      BY <2>1, <3>1, <3>2, TableSet
  <2> DEFINE later == turn'[i.by][i.ses]
  <2>5a. /\ turn' \in Table(Nat)
         /\ \A c \in Bridge!Bots, d \in Sessions : ~ (c = i.by /\ d = i.ses) => turn'[c][d] = turn[c][d]
         /\ (later = now /\ (old = {} \/ old \cap i.text # {})) \/ later = now + 1
    <3>1. turn \in Table(Nat) /\ now + 1 \in Nat
      BY <2>1 DEF BasesTyped, Table
    <3>2. CASE old = {} \/ old \cap i.text # {}
      BY <1>5, <3>1, <3>2
    <3>3. CASE ~ (old = {} \/ old \cap i.text # {})
      <4>1. turn' = Entry(turn, i.by, i.ses, now + 1)
        BY <1>5, <3>3
      <4>2. /\ Entry(turn, i.by, i.ses, now + 1) \in Table(Nat)
            /\ \A c \in Bridge!Bots, d \in Sessions :
                  Entry(turn, i.by, i.ses, now + 1)[c][d] = IF c = i.by /\ d = i.ses THEN now + 1 ELSE turn[c][d]
        BY <3>1, TableSet
      <4> HIDE DEF now
      <4> QED
        BY <2>1, <4>1, <4>2
    <3> QED
      BY <3>2, <3>3
  <2> HIDE DEF old, now, later
  <2>5. BasesStep
    <3>1. BasesTyped'
      BY <2>4, <2>5a DEF BasesTyped, Table
    <3>2. ASSUME NEW c \in Bridge!Bots, NEW d \in Sessions
          PROVE  /\ d \notin Claude => SoFar(last'[c][d])
                 /\ turn[c][d] <= turn'[c][d]
                 /\ d \notin Claude /\ turn[c][d] = turn'[c][d] => last[c][d] \subseteq last'[c][d]
      <4>1. turn[c][d] \in Nat /\ (d \notin Claude => SoFar(last[c][d]))
        BY DEF BasesTyped, BridgeTexts
      <4>2. CASE c = i.by /\ d = i.ses
        <5>1. last[c][d] = old /\ turn[c][d] = now /\ turn'[c][d] = later /\ last'[c][d] = i.text
          BY <2>4, <4>2 DEF old, now, later
        <5> QED
          BY <1>2, <2>1, <2>3, <2>5a, <4>2, <5>1
      <4>3. CASE ~ (c = i.by /\ d = i.ses)
        BY <2>4, <2>5a, <4>1, <4>3
      <4> QED
        BY <4>2, <4>3
    <3> QED
      BY <3>1, <3>2 DEF BasesStep
  <2>6. BridgeTexts'
    BY <1>2, <1>5, <2>2, <2>3, <2>5 DEF BridgeTexts, BasesStep
  <2>7. \A k \in idlers : Pushes(k) /\ Alike(j, k) /\ j.ses \notin Claude => Piece(k) \subseteq old
    BY <2>2 DEF BridgePushes, Based, Alike, old, now
  <2>8. \A m \in DOMAIN log : Pushed(m) /\ Alike(j, log[m]) /\ j.ses \notin Claude => log[m].text \subseteq old
    BY <2>2 DEF BridgePushes, Based, Alike, old, now
  <2>9. BridgePushes'
    <3>1. \A k \in idlers' : k = j \/ k \in idlers
      BY <1>5
    <3>2. Pushes(j) => Based(j, Piece(j))'
      <4>1. now <= turn'[i.by][i.ses] /\ last'[i.by][i.ses] = i.text /\ now \in Nat
        BY <2>1, <2>4, <2>5a DEF later
      <4> QED
        BY <2>2, <4>1 DEF Based, Piece
    <3>3. \A k \in idlers : Pushes(k) => Based(k, Piece(k))'
      BY <2>5, IdlerTyped, BasedStep DEF BridgePushes, Piece, Pushes
    <3>4. \A m \in DOMAIN log : Pushed(m) => Based(log[m], log[m].text)'
      <4> TAKE m \in DOMAIN log
      <4> HAVE Pushed(m)
      <4>1. PICK x : x = log[m]
        OBVIOUS
      <4>2. Based(x, x.text)
        BY <4>1 DEF BridgePushes
      <4>3. x.by \in Bridge!Bots /\ x.ses \in Sessions \ Claude /\ x.turn \in Nat
        BY <4>1, MessageTyped DEF Pushed
      <4>4. Based(x, x.text)'
        BY <2>5, <4>2, <4>3, BasedStep
      <4> QED
        BY <1>1, <4>1, <4>4
    <3>5. \A k, l \in idlers' : Pushes(k) /\ Pushes(l) /\ Alike(k, l) /\ k # l => Piece(k) \cap Piece(l) = {}
      <4>1. \A k \in idlers : Pushes(k) /\ Pushes(j) /\ Alike(j, k) => Piece(j) \cap Piece(k) = {}
        BY <2>2, <2>7 DEF Pushes, Piece
      <4> TAKE k, l \in idlers'
      <4> HAVE Pushes(k) /\ Pushes(l) /\ Alike(k, l) /\ k # l
      <4>2. Alike(l, k)
        BY DEF Alike
      <4>3. CASE k = j
        BY <3>1, <4>1, <4>3
      <4>4. CASE l = j
        <5>1. Piece(j) \cap Piece(k) = {}
          BY <3>1, <4>1, <4>2, <4>4
        <5> QED
          BY <4>4, <5>1
      <4>5. CASE k \in idlers /\ l \in idlers
        BY <4>5 DEF BridgePushes
      <4> QED
        BY <3>1, <4>3, <4>4, <4>5
    <3>6. \A k \in idlers', m \in DOMAIN log :
             Pushes(k) /\ Pushed(m) /\ Alike(k, log[m]) /\ log[m].chat \in k.left => Piece(k) \cap log[m].text = {}
      <4>1. \A m \in DOMAIN log : Pushes(j) /\ Pushed(m) /\ Alike(j, log[m]) => Piece(j) \cap log[m].text = {}
        BY <2>2, <2>8 DEF Pushes, Piece
      <4> QED
        BY <3>1, <4>1 DEF BridgePushes
    <3>7. Bridge!PushedOnce'
      BY <1>1 DEF BridgePushes, Bridge!PushedOnce
    <3> QED
      BY <1>1, <3>1, <3>2, <3>3, <3>4, <3>5, <3>6, <3>7 DEF BridgePushes, Pushed, Pushes, Piece, Alike
  <2>10. WorkTyped' /\ BasesTyped'
    BY <1>1, <1>5, <2>2, <2>5 DEF WorkTyped, Bridge!Still, BasesStep
  <2>11. IdlersCalm
    <3>1. j.by <= bots'
      BY <1>1, <2>2 DEF BridgeNotes, Bridge!Still, Bridge!manager
    <3> QED
      BY <1>2, <1>5, <2>2, <3>1 DEF IdlersCalm
  <2>12. BridgeNotes' /\ BridgePicks'
    <3>1. BotsTyped' /\ bots <= bots' /\ UNCHANGED <<inbox, handlers, boxes, submits, born>>
      BY <1>1 DEF BotsTyped, Bridge!Still, Bridge!manager, Bridge!telegram
    <3> QED
      BY <1>1, <2>11, <3>1, NotesSame, UnsentSame, PicksSame
  <2> QED
    BY <1>1, <1>3, <2>6, <2>9, <2>10, <2>12, ToldKeeps
<1>6. CASE ~ (i.text \subseteq last[i.by][i.ses])
  <2>1. /\ idlers' = (idlers \ {i}) \cup {[i EXCEPT !.pc = "send", !.base = last[i.by][i.ses], !.turn = turn[i.by][i.ses]]}
        /\ last' = Entry(last, i.by, i.ses, i.text)
        /\ turn' = IF last[i.by][i.ses] = {} \/ last[i.by][i.ses] \cap i.text # {} THEN turn
                   ELSE Entry(turn, i.by, i.ses, turn[i.by][i.ses] + 1)
    BY <1>6 DEF Bridge!Diff, Bridge!Goto, Entry
  <2> QED
    BY <1>5, <1>6, <2>1
<1> QED
  BY <1>4, <1>6

\* A message is appended to the log.
Sending(i, c, text, kind) ==
    [chat |-> c, ses |-> i.ses, text |-> text, kind |-> kind, by |-> i.by, turn |-> i.turn]
LEMMA LogGrows ==
    ASSUME BridgeInv, NEW x \in Bridge!Sent, Len(log) < MaxSent, log' = Append(log, x)
    PROVE  /\ LogTyped' /\ Len(log) \in Nat /\ Len(log) + 1 \in Bridge!Ids
           /\ DOMAIN log = 1..Len(log) /\ DOMAIN log' = 1..(Len(log) + 1) /\ Len(log) + 1 \notin DOMAIN log
           /\ \A m \in DOMAIN log : m \in DOMAIN log' /\ log'[m] = log[m]
           /\ log'[Len(log) + 1] = x
           /\ \A m \in DOMAIN log' : m \in DOMAIN log \/ m = Len(log) + 1
<1>1. log \in Seq(Bridge!Sent) /\ Len(log) \in Nat /\ MaxSent \in Nat
  BY BridgeParts, BridgeConstants DEF LogTyped
<1>2. /\ log' \in Seq(Bridge!Sent) /\ Len(log') = Len(log) + 1
      /\ \A m \in 1..Len(log) : log'[m] = log[m]
      /\ log'[Len(log) + 1] = x
  BY <1>1
<1>3. DOMAIN log = 1..Len(log) /\ DOMAIN log' = 1..(Len(log) + 1)
  BY <1>1, <1>2
<1>4. LogTyped' /\ Len(log) + 1 \in Bridge!Ids
  BY <1>1, <1>2 DEF LogTyped, Bridge!Ids
<1> QED
  BY <1>1, <1>2, <1>3, <1>4

\* A goroutine has sent a message: a push of what it has to push, or a notification.
LEMMA SendsOne ==
    ASSUME BridgeInv, NEW i \in idlers, NEW c \in Chats, NEW text \in SUBSET Bridge!Lines,
           NEW kind \in {"push", "idle"}, NEW j,
           i.pc # "register", Len(log) < MaxSent, log' = Append(log, Sending(i, c, text, kind)),
           Sibling(i, j), j.pc = "register", j.msg = Len(log) + 1, c \notin j.left, Pushes(j) => Pushes(i),
           kind = "push" => i.pc = "send" /\ c \in i.left /\ text = Piece(i),
           idlers' = (idlers \ {i}) \cup {j}, Bridge!Still,
           UNCHANGED <<last, turn, notified, waiting, remembered, boxes>>, budget' \in [Bridge!Events -> Nat]
    PROVE  BridgeInv'
<1> USE BridgeParts
<1> DEFINE x == Sending(i, c, text, kind)
           n == Len(log) + 1
<1>1. /\ x \in Bridge!Sent /\ x.ses = i.ses /\ x.by = i.by /\ x.turn = i.turn /\ x.chat = c
      /\ x.text = text /\ x.kind = kind
  BY IdlerTyped DEF Sending, Bridge!Sent, Bridge!Kinds
<1> HIDE DEF x
<1>2. /\ LogTyped' /\ n \in Bridge!Ids /\ n \notin DOMAIN log /\ n # 0
      /\ \A m \in DOMAIN log : m \in DOMAIN log' /\ log'[m] = log[m]
      /\ log'[n] = x /\ n \in DOMAIN log'
      /\ \A m \in DOMAIN log' : m \in DOMAIN log \/ m = n
      /\ \A m \in DOMAIN log : m < n
  <2>1. log' = Append(log, x)
    BY DEF x
  <2>2. /\ LogTyped' /\ Len(log) \in Nat /\ n \in Bridge!Ids
        /\ DOMAIN log = 1..Len(log) /\ DOMAIN log' = 1..n /\ n \notin DOMAIN log
        /\ \A m \in DOMAIN log : m \in DOMAIN log' /\ log'[m] = log[m]
        /\ log'[n] = x
        /\ \A m \in DOMAIN log' : m \in DOMAIN log \/ m = n
    BY <1>1, <2>1, LogGrows
  <2> QED
    BY <2>2
<1>3. j.msg = n /\ i.msg = 0 /\ \A k \in idlers' : k = j \/ k \in idlers \ {i}
  BY DEF BridgeNotes
<1> HIDE DEF n
<1>4. \A k \in idlers : k.msg # n
  BY <1>2 DEF BridgeNotes
<1>5. BridgeNotes'
  <2>1. UNCHANGED <<bots, born, remembered>>
    BY DEF Bridge!Still, Bridge!manager
  <2>2. born' <= bots' /\ \A m \in DOMAIN log' : log'[m].by <= bots'
    BY <1>1, <1>2, <2>1 DEF BridgeNotes
  <2>3. \A k \in idlers' : k.by <= bots'
    BY <1>3, <2>1 DEF BridgeNotes, Sibling
  <2>4. \A k \in idlers' : IF k.pc = "register" THEN k.msg \in DOMAIN log' /\ log'[k.msg].ses = k.ses
                                                ELSE k.msg = 0
    <3>1. j.msg \in DOMAIN log' /\ log'[j.msg].ses = j.ses
      BY <1>1, <1>2, <1>3 DEF Sibling
    <3>2. \A k \in idlers : IF k.pc = "register" THEN k.msg \in DOMAIN log' /\ log'[k.msg].ses = k.ses
                                                ELSE k.msg = 0
      BY <1>2 DEF BridgeNotes
    <3> QED
      BY <1>3, <3>1, <3>2
  <2>5. \A k, l \in idlers' : k.msg = l.msg /\ k.msg # 0 => k = l
    BY <1>3, <1>4 DEF BridgeNotes
  <2>6. ASSUME NEW m \in DOMAIN log', log'[m].by > born, log'[m].kind \in {"push", "idle"}
        PROVE  remembered[m] = log'[m].ses \/ \E k \in idlers' : k.msg = m
    <3>1. CASE m = n
      BY <1>3, <3>1
    <3>2. CASE m \in DOMAIN log
      <4>1. remembered[m] = log[m].ses \/ \E k \in idlers : k.msg = m
        BY <1>2, <2>6, <3>2 DEF BridgeNotes, Bridge!Answerable
      <4>2. m # 0
        BY <1>2, <3>2, MessageTyped DEF Bridge!Ids
      <4> QED
        BY <1>2, <1>3, <3>2, <4>1, <4>2
    <3> QED
      BY <1>2, <3>1, <3>2
  <2> QED
    BY <2>1, <2>2, <2>3, <2>4, <2>5, <2>6 DEF BridgeNotes, Bridge!Answerable
<1>6. BridgePicks'
  <2>1. UNCHANGED <<inbox, handlers, boxes, submits>>
    BY DEF Bridge!Still, Bridge!telegram
  <2>2. ASSUME NEW m \in Bridge!Ids, Unsent(m)' PROVE Unsent(m)
    <3>1. CASE m \notin DOMAIN log
      BY <3>1 DEF Unsent
    <3>2. CASE m \in DOMAIN log
      <4>1. m \in DOMAIN log' /\ m # n
        BY <1>2, <3>2
      <4>2. PICK k \in idlers' : k.msg = m
        BY <2>2, <4>1 DEF Unsent
      <4> QED
        BY <1>3, <4>1, <4>2 DEF Unsent
    <3> QED
      BY <3>1, <3>2
  <2> QED
    BY <2>1, <2>2, PicksSame
<1>7. BridgeTexts'
  BY TextsGoOn
<1>8. BridgePushes'
  <2>1. Pushes(j) => Based(j, Piece(j))
    BY DEF BridgePushes, Sibling, Piece, Based
  <2>2. \A k \in idlers' : Pushes(k) => Based(k, Piece(k))'
    BY <1>3, <2>1 DEF BridgePushes, Based, Piece
  <2>3. \A k \in idlers \ {i} : Pushes(j) /\ Pushes(k) /\ Alike(j, k) => Piece(j) \cap Piece(k) = {}
    BY DEF BridgePushes, Sibling, Piece, Alike
  <2>4. \A k, l \in idlers' : Pushes(k) /\ Pushes(l) /\ Alike(k, l) /\ k # l => Piece(k) \cap Piece(l) = {}
    <3> TAKE k, l \in idlers'
    <3> HAVE Pushes(k) /\ Pushes(l) /\ Alike(k, l) /\ k # l
    <3>1. Alike(l, k)
      BY DEF Alike
    <3>2. CASE k = j
      BY <1>3, <2>3, <3>2
    <3>3. CASE l = j
      <4>1. Piece(j) \cap Piece(k) = {}
        BY <1>3, <2>3, <3>1, <3>3
      <4> QED
        BY <3>3, <4>1
    <3>4. CASE k \in idlers /\ l \in idlers
      BY <3>4 DEF BridgePushes
    <3> QED
      BY <1>3, <3>2, <3>3, <3>4
  \* The new message and those of before, and what is about to be pushed.
  <2>5. kind = "push" /\ i.ses \notin Claude => Pushes(i) /\ text = Piece(i) /\ c \in i.left
    BY DEF Pushes
  <2>6. \A m \in DOMAIN log' : log'[m].kind = "push" /\ log'[m].ses \notin Claude => Based(log'[m], log'[m].text)
    <3>1. kind = "push" /\ i.ses \notin Claude => Based(x, text)
      BY <1>1, <2>5 DEF BridgePushes, Based
    <3>2. \A m \in DOMAIN log : Pushed(m) => Based(log[m], log[m].text)
      BY DEF BridgePushes
    <3> TAKE m \in DOMAIN log'
    <3> HAVE log'[m].kind = "push" /\ log'[m].ses \notin Claude
    <3>3. CASE m = n
      BY <1>1, <1>2, <3>1, <3>3 DEF Based
    <3>4. CASE m \in DOMAIN log
      <4>1. Pushed(m) /\ log'[m] = log[m]
        BY <1>2, <3>4 DEF Pushed
      <4> QED
        BY <3>2, <3>4, <4>1
    <3> QED
      BY <1>2, <3>3, <3>4
  <2>7. \A k \in idlers', m \in DOMAIN log' :
           Pushes(k) /\ log'[m].kind = "push" /\ log'[m].ses \notin Claude /\ Alike(k, log'[m]) /\ log'[m].chat \in k.left
           => Piece(k) \cap log'[m].text = {}
    <3> TAKE k \in idlers', m \in DOMAIN log'
    <3> HAVE Pushes(k) /\ log'[m].kind = "push" /\ log'[m].ses \notin Claude /\ Alike(k, log'[m]) /\ log'[m].chat \in k.left
    <3>1. CASE m \in DOMAIN log
      <4>1. Pushed(m) /\ log'[m] = log[m]
        BY <1>2, <3>1 DEF Pushed
      <4>2. CASE k = j
        <5>1. Pushes(i) /\ Alike(i, log[m]) /\ log[m].chat \in i.left /\ Piece(i) = Piece(j)
          BY <4>1, <4>2 DEF Sibling, Alike, Piece
        <5> QED
          BY <3>1, <4>1, <4>2, <5>1 DEF BridgePushes
      <4>3. CASE k \in idlers
        BY <3>1, <4>1, <4>3 DEF BridgePushes
      <4> QED
        BY <1>3, <4>2, <4>3
    <3>2. CASE m = n
      <4>1. k # j /\ kind = "push" /\ i.ses \notin Claude /\ Alike(k, i) /\ log'[m].text = text
        BY <1>1, <1>2, <3>2 DEF Alike
      <4>2. k \in idlers /\ k # i
        BY <1>3, <4>1
      <4> QED
        BY <2>5, <4>1, <4>2 DEF BridgePushes
    <3> QED
      BY <1>2, <3>1, <3>2
  <2>8. Bridge!PushedOnce'
    <3>1. ASSUME NEW m \in DOMAIN log', NEW l \in DOMAIN log', m < l, log'[m].kind = "push", log'[l].kind = "push",
                 log'[m].ses = log'[l].ses, log'[m].ses \notin Claude, log'[m].chat = log'[l].chat,
                 log'[m].by = log'[l].by, log'[m].turn = log'[l].turn
          PROVE  log'[m].text \cap log'[l].text = {}
      <4>1. CASE m \in DOMAIN log /\ l \in DOMAIN log
        BY <1>2, <3>1, <4>1 DEF BridgePushes, Bridge!PushedOnce
      <4>2. CASE m \in DOMAIN log /\ l = n
        <5>1. Pushed(m) /\ kind = "push" /\ i.ses \notin Claude /\ Alike(i, log[m]) /\ log[m].chat = c
              /\ log'[m] = log[m] /\ log'[l].text = text
          BY <1>1, <1>2, <3>1, <4>2 DEF Pushed, Alike
        <5> QED
          BY <2>5, <4>2, <5>1 DEF BridgePushes
      <4>3. CASE m = n
        <5>1. n \in Nat /\ l \in Nat
          BY <1>2, <3>1, MessageTyped DEF Bridge!Ids
        <5> QED
          BY <1>2, <3>1, <4>3, <5>1
      <4> QED
        BY <1>2, <3>1, <4>1, <4>2, <4>3
    <3> QED
      BY <3>1 DEF Bridge!PushedOnce
  <2>9. \A m \in DOMAIN log' : (log[m].kind = "push" /\ log[m].ses \notin Claude)' => Based(log[m], log[m].text)'
    BY <2>6 DEF Based
  <2> QED
    BY <2>2, <2>4, <2>7, <2>8, <2>9 DEF BridgePushes, Pushed, Pushes, Piece, Alike
<1>9. WorkTyped' /\ FlagsTyped' /\ BasesTyped' /\ PromptsTyped'
  BY <1>3 DEF Sibling, Bridge!Still, WorkTyped, FlagsTyped, BasesTyped, PromptsTyped
<1> QED
  BY <1>2, <1>5, <1>6, <1>7, <1>8, <1>9, ToldKeeps

LEMMA ToldPush == ASSUME BridgeInv, NEW i \in idlers, NEW c \in Chats, Bridge!Push(i, c) PROVE BridgeInv'
<1> USE BridgeParts
<1>1. /\ i.pc = "send" /\ c \in i.left /\ Bridge!Still
      /\ UNCHANGED <<last, turn, notified, waiting, remembered, boxes>>
  BY DEF Bridge!Push, Bridge!Is, Bridge!flags
<1>2. i.msg = 0
  BY <1>1 DEF BridgeNotes
<1>3. Len(log) \in Nat
  BY DEF LogTyped
<1>4. ASSUME Len(log) < MaxSent, log' = Append(log, Sending(i, c, i.text \ i.base, "push")), UNCHANGED budget,
             NEW j, j = [i EXCEPT !.pc = "register", !.left = i.left \ {c}, !.sent = TRUE, !.msg = Len(log) + 1],
             idlers' = (idlers \ {i}) \cup {j}
      PROVE  BridgeInv'
  <2>1. Len(log) + 1 \in 0..MaxSent
    BY <1>3, <1>4, BridgeConstants
  <2>2. /\ Sibling(i, j) /\ j.pc = "register" /\ j.msg = Len(log) + 1 /\ j.left = i.left \ {c}
    BY <1>4, <2>1, IdlerTyped DEF Bridge!Idlers, Sibling
  <2>3. (Pushes(j) => Pushes(i)) /\ c \notin j.left /\ i.pc # "register"
    BY <1>1, <2>2 DEF Pushes, Sibling
  <2>4. /\ i.text \ i.base \in SUBSET Bridge!Lines /\ i.text \ i.base = Piece(i)
        /\ budget' \in [Bridge!Events -> Nat] /\ "push" \in {"push", "idle"}
    BY <1>4, IdlerTyped DEF Piece, ChatsTyped
  <2> QED
    BY <1>1, <1>4, <2>2, <2>3, <2>4, SendsOne
<1>5. ASSUME Bridge!Spend("fault"), UNCHANGED log,
             NEW j, j = [i EXCEPT !.left = i.left \ {c}], idlers' = (idlers \ {i}) \cup {j}
      PROVE  BridgeInv'
  <2>1. /\ Sibling(i, j) /\ j.pc = "send" /\ j.msg = 0
    BY <1>1, <1>2, <1>5, IdlerTyped DEF Bridge!Idlers, Sibling
  <2>2. Pushes(j) => Pushes(i)
    BY <1>1, <2>1 DEF Pushes, Sibling
  <2>3. j.by <= bots /\ bots' = bots
    BY <1>1, <2>1 DEF BridgeNotes, Sibling, Bridge!Still, Bridge!manager
  <2>4. IdlersCalm
    BY <1>2, <1>5, <2>1, <2>3 DEF IdlersCalm
  <2>5. BridgeNotes' /\ BridgePicks'
    <3>1. BotsTyped' /\ bots <= bots' /\ UNCHANGED <<inbox, handlers, boxes, submits, born>>
      BY <1>1 DEF BotsTyped, Bridge!Still, Bridge!manager, Bridge!telegram
    <3> QED
      BY <1>1, <1>5, <2>4, <3>1, NotesSame, UnsentSame, PicksSame
  <2>6. BridgeTexts' /\ BridgePushes'
    <3>1. idlers' \subseteq (idlers \ {i}) \cup {j}
      BY <1>5
    <3> QED
      BY <1>1, <1>5, <2>1, <2>2, <3>1, TextsGoOn, PushesGoOn
  <2>7. WorkTyped' /\ LogTyped'
    BY <1>1, <1>5, <2>1 DEF WorkTyped, LogTyped, Sibling, Bridge!Still
  <2>8. FlagsTyped' /\ BasesTyped' /\ PromptsTyped'
    BY <1>1 DEF FlagsTyped, BasesTyped, PromptsTyped, Bridge!Still
  <2>9. budget' \in [Bridge!Events -> Nat]
    BY <1>5, SpendTyped
  <2> QED
    BY <1>1, <2>5, <2>6, <2>7, <2>8, <2>9, ToldKeeps
<1>6. ASSUME Bridge!Deliver(i, c, i.text \ i.base, "push"), UNCHANGED budget,
             idlers' = (idlers \ {i}) \cup
                {[i EXCEPT !.pc = "register", !.left = @ \ {c}, !.sent = TRUE, !.msg = Len(log) + 1]}
      PROVE  BridgeInv'
  BY <1>4, <1>6 DEF Bridge!Deliver, Sending
<1>7. ASSUME Bridge!Spend("fault"), idlers' = (idlers \ {i}) \cup {[i EXCEPT !.left = @ \ {c}]}, UNCHANGED log
      PROVE  BridgeInv'
  BY <1>5, <1>7
<1> QED
  BY <1>6, <1>7 DEF Bridge!Push, Bridge!Goto

LEMMA ToldNote == ASSUME BridgeInv, NEW i \in idlers, Bridge!Note(i) PROVE BridgeInv'
<1> USE BridgeParts
<1>1. /\ i.pc = "note" /\ Bridge!Still
      /\ UNCHANGED <<last, turn, notified, waiting, remembered, boxes>>
  BY DEF Bridge!Note, Bridge!Is, Bridge!flags
<1>2. i.msg = 0 /\ i.left = {}
  BY <1>1 DEF BridgeNotes, BridgeTexts
<1>3. Len(log) \in Nat
  BY DEF LogTyped
<1>4. ASSUME Len(log) < MaxSent, log' = Append(log, Sending(i, Notify, Bridge!Text(i.ses), "idle")),
             UNCHANGED budget, NEW j, j = [i EXCEPT !.pc = "register", !.msg = Len(log) + 1],
             idlers' = (idlers \ {i}) \cup {j}
      PROVE  BridgeInv'
  <2>1. Len(log) + 1 \in 0..MaxSent
    BY <1>3, <1>4, BridgeConstants
  <2>2. /\ Sibling(i, j) /\ j.pc = "register" /\ j.msg = Len(log) + 1 /\ j.left = {}
    BY <1>2, <1>4, <2>1, IdlerTyped DEF Bridge!Idlers, Sibling
  <2>3. ~ Pushes(j) /\ Notify \notin j.left /\ i.pc # "register"
    BY <1>1, <2>2 DEF Pushes
  <2>4. /\ Bridge!Text(i.ses) \in SUBSET Bridge!Lines /\ Notify \in Chats
        /\ budget' \in [Bridge!Events -> Nat] /\ "idle" \in {"push", "idle"}
    BY <1>4, TextTyped, BridgeConstants, IdlerTyped DEF ChatsTyped
  <2> QED
    BY <1>1, <1>4, <2>2, <2>3, <2>4, SendsOne
<1>5. ASSUME Bridge!Leave(i), Bridge!Spend("fault"), UNCHANGED log PROVE BridgeInv'
  <2>1. FlagsTyped' /\ BasesStep /\ budget' \in [Bridge!Events -> Nat]
    BY <1>1, <1>5, BasesSame, SpendTyped DEF FlagsTyped
  <2> QED
    BY <1>1, <1>5, <2>1, CalmKeeps DEF TellsOn
<1>6. ASSUME Bridge!Deliver(i, Notify, Bridge!Text(i.ses), "idle"), UNCHANGED budget,
             idlers' = (idlers \ {i}) \cup {[i EXCEPT !.pc = "register", !.msg = Len(log) + 1]}
      PROVE  BridgeInv'
  BY <1>4, <1>6 DEF Bridge!Deliver, Sending
<1> QED
  BY <1>5, <1>6 DEF Bridge!Note, Bridge!Goto

Told(i) == [i EXCEPT !.pc = "send", !.msg = 0]
LEMMA PushGoesOn ==
    ASSUME BridgeInv, NEW i \in idlers
    PROVE  Sibling(i, Told(i)) /\ Told(i).msg = 0 /\ Told(i).pc = "send" /\ Told(i).left = i.left
<1>1. i \in Bridge!Idlers /\ 0 \in 0..MaxSent
  BY IdlerTyped, BridgeConstants
<1>2. /\ Told(i) \in Bridge!Idlers /\ Told(i).msg = 0 /\ Told(i).pc = "send" /\ Told(i).left = i.left
      /\ Told(i).ses = i.ses /\ Told(i).by = i.by /\ Told(i).text = i.text /\ Told(i).base = i.base
      /\ Told(i).turn = i.turn
  BY <1>1 DEF Bridge!Idlers, Told
<1> QED
  BY <1>2 DEF Sibling

LEMMA ToldRegister == ASSUME BridgeInv, NEW i \in idlers, Bridge!Register(i) PROVE BridgeInv'
<1> USE BridgeParts
<1> DEFINE n == i.msg
<1>1. /\ i.pc = "register" /\ Bridge!Still /\ UNCHANGED <<log, last, turn, notified, waiting, budget>>
      /\ remembered' = [remembered EXCEPT ![n] = i.ses]
      /\ boxes' = boxes \/ boxes' = Turned(n, "empty")
      /\ Bridge!Leave(i) \/ idlers' = (idlers \ {i}) \cup {Told(i)}
  BY DEF Bridge!Register, Bridge!Is, Bridge!flags, Bridge!Goto, Turned, Told
<1>2. n \in DOMAIN log /\ log[n].ses = i.ses /\ n \in Bridge!Ids /\ n # 0 /\ i.by <= bots
  BY <1>1, MessageTyped DEF BridgeNotes, Bridge!Ids
<1>3. PICK j : Sibling(i, j) /\ j.msg = 0 /\ j.pc = "send" /\ j.left = i.left /\ idlers' \subseteq (idlers \ {i}) \cup {j}
               /\ idlers \ {i} \subseteq idlers'
  BY <1>1, PushGoesOn DEF Bridge!Leave
<1> HIDE DEF n
<1>4. /\ remembered' \in [Bridge!Ids -> Sessions \cup {None}]
      /\ \A m \in Bridge!Ids : remembered'[m] = IF m = n THEN i.ses ELSE remembered[m]
  <2>1. remembered' = [remembered EXCEPT ![n] = i.ses] /\ i.ses \in Sessions
    BY <1>1, IdlerTyped
  <2>2. remembered \in [Bridge!Ids -> Sessions \cup {None}]
    BY DEF PromptsTyped
  <2> QED
    BY <2>1, <2>2
<1>5. /\ boxes' \in [Bridge!Ids -> {"none", "taken", "empty", "ticked"}]
      /\ \A m \in Bridge!Ids : boxes'[m] = boxes[m] \/ (m = n /\ boxes'[m] = "empty")
  <2>1. CASE boxes' = boxes
    BY <2>1 DEF PromptsTyped
  <2>2. CASE boxes' = Turned(n, "empty")
    BY <2>2, TurnedTyped
  <2> QED
    BY <1>1, <2>1, <2>2
<1>6. \A k \in idlers' : k.msg # n /\ (k = j \/ k \in idlers \ {i})
  BY <1>2, <1>3 DEF BridgeNotes, n
<1>7. BridgeNotes'
  <2>1. UNCHANGED <<bots, born, log>>
    BY <1>1 DEF Bridge!Still, Bridge!manager
  <2>2. \A k \in idlers' : k.by <= bots
    BY <1>2, <1>3, <1>6 DEF BridgeNotes, Sibling
  <2>3. \A k \in idlers' : IF k.pc = "register" THEN k.msg \in DOMAIN log /\ log[k.msg].ses = k.ses ELSE k.msg = 0
    BY <1>3, <1>6 DEF BridgeNotes
  <2>4. \A k, l \in idlers' : k.msg = l.msg /\ k.msg # 0 => k = l
    BY <1>3, <1>6 DEF BridgeNotes
  <2>5. ASSUME NEW m \in DOMAIN log, log[m].by > born, log[m].kind \in {"push", "idle"}
        PROVE  remembered'[m] = log[m].ses \/ \E k \in idlers' : k.msg = m
    <3>1. m \in Bridge!Ids
      BY MessageTyped
    <3>2. CASE m = n
      BY <1>2, <1>4, <3>1, <3>2
    <3>3. CASE m # n
      <4>1. remembered[m] = log[m].ses \/ \E k \in idlers : k.msg = m
        BY <2>5 DEF BridgeNotes, Bridge!Answerable
      <4>2. \A k \in idlers : k.msg = m => k \in idlers'
        BY <1>3, <3>3 DEF n
      <4> QED
        BY <1>4, <3>1, <3>3, <4>1, <4>2
    <3> QED
      BY <3>2, <3>3
  <2>6. born <= bots /\ \A m \in DOMAIN log : log[m].by <= bots
    BY DEF BridgeNotes
  <2> QED
    BY <2>1, <2>2, <2>3, <2>4, <2>5, <2>6 DEF BridgeNotes, Bridge!Answerable
<1>8. BridgePicks'
  <2>1. UNCHANGED <<inbox, handlers, submits, log>>
    BY <1>1 DEF Bridge!Still, Bridge!telegram
  <2>2. \A h \in handlers' : h.pc = "put back" => Bridge!Op(h)' = "submit"
    BY <2>1 DEF BridgePicks, Bridge!Op
  <2>3. ASSUME NEW m \in Bridge!Ids PROVE Picked(m)'
    <3>1. Picked(m)
      BY DEF BridgePicks
    <3>2. \A k : Submits(k, m)' <=> Submits(k, m)
      BY <2>1 DEF Submits, Bridge!Op, Bridge!Target
    <3>3. Unsent(m)' => Unsent(m) /\ m # n
      <4>1. CASE m \notin DOMAIN log
        BY <1>2, <4>1 DEF Unsent
      <4>2. CASE m \in DOMAIN log
        <5>1. m # 0
          BY DEF Bridge!Ids
        <5> QED
          BY <1>3, <1>6, <2>1, <4>2, <5>1 DEF Unsent
      <4> QED
        BY <4>1, <4>2
    <3>4. CASE boxes'[m] = boxes[m]
      BY <2>1, <3>1, <3>2, <3>3, <3>4 DEF Picked
    <3>5. CASE m = n /\ boxes'[m] = "empty"
      <4>1. Unsent(m)
        BY <3>5 DEF Unsent, n
      <4>2. submits[m] = 0 /\ \A k \in handlers : ~ Submits(k, m)
        BY <3>1, <4>1 DEF Picked
      <4> QED
        BY <2>1, <3>2, <3>3, <3>5, <4>2 DEF Picked
    <3> QED
      BY <1>5, <3>4, <3>5
  <2> QED
    BY <2>2, <2>3, PicksNext
<1>9. BridgeTexts' /\ BridgePushes'
  <2>1. Pushes(j) => Pushes(i)
    BY <1>1, <1>3 DEF Pushes, Sibling
  <2> QED
    BY <1>1, <1>3, <2>1, TextsGoOn, PushesGoOn
<1>10. WorkTyped' /\ LogTyped' /\ FlagsTyped' /\ BasesTyped'
  <2>1. WorkTyped'
    BY <1>1, <1>3 DEF WorkTyped, Sibling, Bridge!Still
  <2> QED
    BY <1>1, <2>1 DEF LogTyped, FlagsTyped, BasesTyped
<1>11. PromptsTyped' /\ budget' \in [Bridge!Events -> Nat]
  BY <1>1, <1>4, <1>5 DEF PromptsTyped, ChatsTyped, Bridge!Still
<1> QED
  BY <1>1, <1>7, <1>8, <1>9, <1>10, <1>11, ToldKeeps

\* A message that cannot be answered has been sent: a notice of an exit, an earlier part.
LEMMA SendsAside ==
    ASSUME BridgeInv, NEW x \in Bridge!Sent, x.kind \in {"part", "exit"}, x.by <= bots,
           Len(log) < MaxSent, log' = Append(log, x), idlers' \subseteq idlers,
           \A k \in idlers : k.msg # 0 => k \in idlers', Bridge!Still,
           UNCHANGED <<last, turn, notified, waiting, remembered, boxes>>, budget' \in [Bridge!Events -> Nat]
    PROVE  BridgeInv'
<1> USE BridgeParts
<1> DEFINE n == Len(log) + 1
<1>1. /\ LogTyped' /\ n \in Bridge!Ids /\ n \notin DOMAIN log /\ n # 0
      /\ \A m \in DOMAIN log : m \in DOMAIN log' /\ log'[m] = log[m]
      /\ \A m \in DOMAIN log' : m \in DOMAIN log \/ (m = n /\ log'[m] = x)
  <2>1. /\ LogTyped' /\ Len(log) \in Nat /\ n \in Bridge!Ids /\ n \notin DOMAIN log
        /\ \A m \in DOMAIN log : m \in DOMAIN log' /\ log'[m] = log[m]
        /\ log'[n] = x
        /\ \A m \in DOMAIN log' : m \in DOMAIN log \/ m = n
    BY LogGrows
  <2> QED
    BY <2>1
<1> HIDE DEF n
<1>2. BridgeNotes'
  <2>1. UNCHANGED <<bots, born, remembered>>
    BY DEF Bridge!Still, Bridge!manager
  <2>2. born' <= bots' /\ \A m \in DOMAIN log' : log'[m].by <= bots'
    BY <1>1, <2>1 DEF BridgeNotes
  <2>3. \A k \in idlers' : k.by <= bots'
    BY <2>1 DEF BridgeNotes
  <2>4. \A k \in idlers' : IF k.pc = "register" THEN k.msg \in DOMAIN log' /\ log'[k.msg].ses = k.ses
                                                ELSE k.msg = 0
    BY <1>1 DEF BridgeNotes
  <2>5. \A k, l \in idlers' : k.msg = l.msg /\ k.msg # 0 => k = l
    BY DEF BridgeNotes
  <2>6. ASSUME NEW m \in DOMAIN log', log'[m].by > born, log'[m].kind \in {"push", "idle"}
        PROVE  remembered[m] = log'[m].ses \/ \E k \in idlers' : k.msg = m
    <3>1. m \in DOMAIN log /\ log'[m] = log[m]
      BY <1>1, <2>6
    <3>2. remembered[m] = log[m].ses \/ \E k \in idlers : k.msg = m
      BY <2>6, <3>1 DEF BridgeNotes, Bridge!Answerable
    <3>3. m # 0
      BY <3>1, MessageTyped DEF Bridge!Ids
    <3> QED
      BY <3>1, <3>2, <3>3
  <2> QED
    BY <2>1, <2>2, <2>3, <2>4, <2>5, <2>6 DEF BridgeNotes, Bridge!Answerable
<1>3. BridgePicks'
  <2>1. UNCHANGED <<inbox, handlers, boxes, submits>>
    BY DEF Bridge!Still, Bridge!telegram
  <2>2. ASSUME NEW m \in Bridge!Ids, Unsent(m)' PROVE Unsent(m)
    <3>1. CASE m \notin DOMAIN log
      BY <3>1 DEF Unsent
    <3>2. CASE m \in DOMAIN log
      BY <1>1, <2>2, <3>2 DEF Unsent
    <3> QED
      BY <3>1, <3>2
  <2> QED
    BY <2>1, <2>2, PicksSame
<1>4. BridgeTexts'
  BY DEF BridgeTexts, Bridge!Still
<1>5. BridgePushes'
  <2>1. \A m \in DOMAIN log' : log'[m].kind = "push" => m \in DOMAIN log /\ log'[m] = log[m]
    BY <1>1
  <2>2. \A k \in idlers' : Pushes(k) => Based(k, Piece(k))'
    BY DEF BridgePushes, Based, Piece
  <2>3. \A m \in DOMAIN log' : (log[m].kind = "push" /\ log[m].ses \notin Claude)' => Based(log[m], log[m].text)'
    BY <2>1 DEF BridgePushes, Based, Pushed
  <2>4. \A k, l \in idlers' : Pushes(k) /\ Pushes(l) /\ Alike(k, l) /\ k # l => Piece(k) \cap Piece(l) = {}
    BY DEF BridgePushes
  <2>5. \A k \in idlers', m \in DOMAIN log' :
           Pushes(k) /\ log'[m].kind = "push" /\ log'[m].ses \notin Claude /\ Alike(k, log'[m])
           /\ log'[m].chat \in k.left => Piece(k) \cap log'[m].text = {}
    BY <2>1 DEF BridgePushes, Pushed
  <2>6. Bridge!PushedOnce'
    BY <2>1 DEF BridgePushes, Bridge!PushedOnce
  <2> QED
    BY <2>2, <2>3, <2>4, <2>5, <2>6 DEF BridgePushes, Pushed, Pushes, Piece, Alike
<1>6. WorkTyped' /\ FlagsTyped' /\ BasesTyped' /\ PromptsTyped'
  BY DEF Bridge!Still, WorkTyped, FlagsTyped, BasesTyped, PromptsTyped
<1> QED
  BY <1>1, <1>2, <1>3, <1>4, <1>5, <1>6, ToldKeeps
LEMMA AsideTyped ==
    ASSUME BridgeInv, NEW i \in idlers, NEW c \in Chats, NEW kind \in {"part", "exit"},
           Bridge!Deliver(i, c, {}, kind)
    PROVE  \E x \in Bridge!Sent : /\ x.kind \in {"part", "exit"} /\ x.by <= bots
                                 /\ Len(log) < MaxSent /\ log' = Append(log, x)
<1> DEFINE x == Sending(i, c, {}, kind)
<1>1. x \in Bridge!Sent /\ x.kind = kind /\ x.by = i.by
  BY IdlerTyped, BridgeParts DEF Sending, Bridge!Sent, Bridge!Kinds
<1>2. i.by <= bots
  BY BridgeParts DEF BridgeNotes
<1> QED
  BY <1>1, <1>2 DEF Bridge!Deliver, Sending

LEMMA ToldBye == ASSUME BridgeInv, NEW i \in idlers, Bridge!Bye(i) PROVE BridgeInv'
<1>1. /\ i.pc = "bye" /\ Bridge!Still /\ Bridge!Leave(i)
      /\ UNCHANGED <<last, turn, notified, waiting, remembered, boxes>>
  BY DEF Bridge!Bye, Bridge!Is, Bridge!flags
<1>2. CASE Bridge!Deliver(i, Notify, {}, "exit") /\ UNCHANGED budget
  <2>1. PICK x \in Bridge!Sent : /\ x.kind \in {"part", "exit"} /\ x.by <= bots
                                 /\ Len(log) < MaxSent /\ log' = Append(log, x)
    BY <1>2, AsideTyped, BridgeConstants
  <2>2. i.msg = 0 /\ budget' \in [Bridge!Events -> Nat]
    BY <1>1, <1>2, BridgeParts DEF BridgeNotes, ChatsTyped
  <2>3. idlers' \subseteq idlers /\ \A k \in idlers : k.msg # 0 => k \in idlers'
    BY <1>1, <2>2 DEF Bridge!Leave
  <2> QED
    BY <1>1, <2>1, <2>2, <2>3, SendsAside
<1>3. CASE Bridge!Spend("fault") /\ UNCHANGED log
  <2>1. FlagsTyped' /\ BasesStep /\ budget' \in [Bridge!Events -> Nat]
    BY <1>1, <1>3, BasesSame, SpendTyped, BridgeParts DEF FlagsTyped
  <2> QED
    BY <1>1, <1>3, <2>1, CalmKeeps DEF TellsOn
<1> QED
  BY <1>2, <1>3 DEF Bridge!Bye

LEMMA ToldPart == ASSUME BridgeInv, NEW i \in idlers, NEW c \in Chats, Bridge!Part(i, c) PROVE BridgeInv'
<1>1. /\ Bridge!Still /\ Bridge!Deliver(i, c, {}, "part") /\ Bridge!Spend("long")
      /\ UNCHANGED <<idlers, last, turn, notified, waiting, remembered, boxes>>
  BY DEF Bridge!Part, Bridge!flags
<1>2. PICK x \in Bridge!Sent : /\ x.kind \in {"part", "exit"} /\ x.by <= bots
                               /\ Len(log) < MaxSent /\ log' = Append(log, x)
  BY <1>1, AsideTyped
<1> QED
  BY <1>1, <1>2, SpendTyped, SendsAside

LEMMA ToldAll == ASSUME BridgeInv, NEW i \in idlers, Bridge!Tell(i) PROVE BridgeInv'
  BY ToldStopped, ToldBye, ToldPart, ToldGuard, ToldRead, ToldDiff, ToldRegister, ToldPushEnds, ToldAfter,
     ToldNote, ToldPush
     DEF Bridge!Tell

\* ---------------------------------------- sessions, users, the manager and the poll loop
\* A step that leaves messages, prompts and handlers alone.
LEMMA WorldKeeps ==
    ASSUME BridgeInv, UNCHANGED <<log, remembered, boxes, submits, born, inbox, batch, handlers>>,
           IdlersCalm, IdlersQuiet, idlers' \subseteq Bridge!Idlers, bots <= bots', MailTyped', ChatsTyped',
           BotsTyped', FlagsTyped', BasesStep
    PROVE  BridgeInv'
<1> USE BridgeParts
<1>1. WorkTyped' /\ LogTyped' /\ PromptsTyped' /\ BasesTyped'
  BY DEF WorkTyped, LogTyped, PromptsTyped, BasesStep
<1>2. BridgeMail'
  BY DEF BridgeMail
<1>3. BridgeNotes' /\ BridgePicks'
  BY NotesSame, UnsentSame, PicksSame
<1>4. BridgeTexts' /\ BridgePushes'
  BY TextsStep, PushesStep
<1> QED
  BY <1>1, <1>2, <1>3, <1>4, BridgeNext DEF TypesKept
\* A goroutine of an event that has just begun.
LEMMA Beginning ==
    ASSUME BridgeInv, bot # 0, NEW n \in Nat, NEW s \in Sessions, NEW pc \in {"stop", "guard"}
    PROVE  /\ Bridge!Idler(n, s, pc) \in Bridge!Idlers /\ Bridge!Idler(n, s, pc).msg = 0
           /\ Bridge!Idler(n, s, pc).pc \in {"stop", "guard"} /\ Bridge!Idler(n, s, pc).left = {}
           /\ SoFar(Bridge!Idler(n, s, pc).text) /\ SoFar(Bridge!Idler(n, s, pc).base)
           /\ Bridge!Idler(n, s, pc).by <= bots
<1>1. bot \in Bridge!Bots /\ bot <= bots
  BY BridgeParts, BridgeConstants DEF BotsTyped, Bridge!Bots
<1> QED
  BY <1>1, NothingSoFar, BridgeConstants DEF Bridge!Idler, Bridge!Idlers
LEMMA IdlersBegin ==
    ASSUME BridgeInv, bot # 0, NEW n \in Nat, NEW s \in Sessions, NEW pc \in {"stop", "guard"},
           idlers' = idlers \cup {Bridge!Idler(n, s, pc)}, bots' = bots
    PROVE  IdlersCalm /\ IdlersQuiet /\ idlers' \subseteq Bridge!Idlers
<1>1. PICK j : j = Bridge!Idler(n, s, pc)
  OBVIOUS
<1>2. /\ j \in Bridge!Idlers /\ j.msg = 0 /\ j.pc \in {"stop", "guard"} /\ j.left = {}
      /\ SoFar(j.text) /\ SoFar(j.base) /\ j.by <= bots
  BY <1>1, Beginning
<1>3. idlers' = idlers \cup {j}
  BY <1>1
<1> QED
  BY <1>2, <1>3, BridgeParts DEF IdlersCalm, IdlersQuiet, WorkTyped

LEMMA LivedWrite == ASSUME BridgeInv, NEW s \in Sessions, Bridge!Write(s) PROVE BridgeInv'
<1> USE BridgeParts
<1>1. UNCHANGED <<inbox, confirmed, log, running, terminal, config, hash, bot, bots, born, allowed, offset,
                  batch, last, notified, waiting, link, remembered, boxes, handlers, idlers, submits, turn>>
  BY DEF Bridge!Write, Bridge!telegram, Bridge!manager, Bridge!flags, Bridge!routes
<1>2. ChatsTyped'
  <2>1. lines[s] < MaxLines /\ lines[s] \in 0..MaxLines /\ MaxLines \in Nat /\ lines' = [lines EXCEPT ![s] = lines[s] + 1]
    BY BridgeConstants DEF Bridge!Write, ChatsTyped
  <2>2. lines[s] + 1 \in 0..MaxLines
    BY <2>1
  <2>3. lines' \in [Sessions -> 0..MaxLines]
    BY <2>1, <2>2 DEF ChatsTyped
  <2>4. budget' \in [Bridge!Events -> Nat]
    BY SpendTyped DEF Bridge!Write
  <2> QED
    BY <1>1, <2>3, <2>4 DEF ChatsTyped
<1>3. MailTyped' /\ BotsTyped' /\ FlagsTyped' /\ bots <= bots'
  BY <1>1 DEF MailTyped, BotsTyped, FlagsTyped
<1>4. IdlersCalm /\ IdlersQuiet /\ idlers' \subseteq Bridge!Idlers /\ BasesStep
  BY <1>1, IdlersStay, BasesSame DEF WorkTyped
<1> QED
  BY <1>1, <1>2, <1>3, <1>4, WorldKeeps

LEMMA LivedStart == ASSUME BridgeInv, NEW s \in Sessions, Bridge!Start(s) PROVE BridgeInv'
<1> USE BridgeParts
<1>1. UNCHANGED <<inbox, confirmed, log, config, hash, bot, bots, born, allowed, offset, batch, last,
                  notified, waiting, link, remembered, boxes, handlers, idlers, submits, turn>>
  BY DEF Bridge!Start, Bridge!telegram, Bridge!manager, Bridge!flags, Bridge!routes
<1>2. ChatsTyped'
  <2>1. /\ \/ UNCHANGED <<lines, terminal>>
           \/ lines' = [lines EXCEPT ![s] = 0] /\ terminal' = [terminal EXCEPT ![s] = terminal[s] + 1]
        /\ running' = running \cup {s}
    BY DEF Bridge!Start
  <2>2. 0 \in 0..MaxLines /\ terminal[s] + 1 \in Nat
    BY BridgeConstants DEF ChatsTyped
  <2>3. lines' \in [Sessions -> 0..MaxLines] /\ terminal' \in [Sessions -> Nat] /\ running' \subseteq Sessions
    BY <2>1, <2>2 DEF ChatsTyped
  <2>4. budget' \in [Bridge!Events -> Nat]
    BY SpendTyped DEF Bridge!Start
  <2> QED
    BY <1>1, <2>3, <2>4 DEF ChatsTyped
<1>3. MailTyped' /\ BotsTyped' /\ FlagsTyped' /\ bots <= bots'
  BY <1>1 DEF MailTyped, BotsTyped, FlagsTyped
<1>4. IdlersCalm /\ IdlersQuiet /\ idlers' \subseteq Bridge!Idlers /\ BasesStep
  BY <1>1, IdlersStay, BasesSame DEF WorkTyped
<1> QED
  BY <1>1, <1>2, <1>3, <1>4, WorldKeeps

LEMMA LivedIdle == ASSUME BridgeInv, NEW s \in Sessions, Bridge!Idle(s) PROVE BridgeInv'
<1> USE BridgeParts
<1>1. UNCHANGED <<inbox, confirmed, log, running, lines, terminal, config, hash, bot, bots, born, allowed, offset, batch,
                  last, notified, waiting, link, remembered, boxes, handlers, submits, turn>>
  BY DEF Bridge!Idle, Bridge!telegram, Bridge!hub, Bridge!manager, Bridge!flags, Bridge!routes
<1>2. MailTyped' /\ BotsTyped' /\ FlagsTyped' /\ bots <= bots'
  BY <1>1 DEF MailTyped, BotsTyped, FlagsTyped
<1>3. budget' \in [Bridge!Events -> Nat]
  BY SpendTyped DEF Bridge!Idle
<1>4. ChatsTyped'
  BY <1>1, <1>3 DEF ChatsTyped
<1>5. IdlersCalm /\ IdlersQuiet /\ idlers' \subseteq Bridge!Idlers
  <2>1. budget["idle"] \in Nat
    BY DEF ChatsTyped, Bridge!Events
  <2>2. bot # 0 /\ bots' = bots /\ idlers' = idlers \cup {Bridge!Idler(budget["idle"], s, "guard")}
    BY <1>1 DEF Bridge!Idle
  <2> QED
    BY <2>1, <2>2, IdlersBegin
<1>6. BasesStep
  BY <1>1, BasesSame
<1> QED
  BY <1>1, <1>2, <1>4, <1>5, <1>6, WorldKeeps

LEMMA LivedCool == ASSUME BridgeInv, NEW s \in Sessions, Bridge!Cool(s) \/ Bridge!Tire(s) PROVE BridgeInv'
<1> USE BridgeParts
<1>1. UNCHANGED <<inbox, confirmed, log, running, lines, terminal, config, hash, bot, bots, born, allowed, offset, batch,
                  last, link, remembered, boxes, handlers, idlers, submits, turn>>
  BY DEF Bridge!Cool, Bridge!Tire, Bridge!telegram, Bridge!hub, Bridge!manager, Bridge!routes
<1>2. MailTyped' /\ BotsTyped' /\ bots <= bots'
  BY <1>1 DEF MailTyped, BotsTyped
<1>3. budget' \in [Bridge!Events -> Nat]
  BY SpendTyped DEF Bridge!Cool, Bridge!Tire
<1>4. ChatsTyped'
  BY <1>1, <1>3 DEF ChatsTyped
<1>5. FlagsTyped'
  <2>1. notified \in Table({"never", "recent", "old"}) /\ waiting \in Table({"no", "yes", "late"})
    BY DEF FlagsTyped, Table
  <2>2. /\ notified' = notified \/ notified' = Entry(notified, bot, s, "old")
        /\ waiting' = waiting \/ waiting' = Entry(waiting, bot, s, "late")
    BY DEF Bridge!Cool, Bridge!Tire, Entry
  <2>3. notified' \in Table({"never", "recent", "old"}) /\ waiting' \in Table({"no", "yes", "late"})
    BY <2>1, <2>2, TableSet
  <2> QED
    BY <2>3 DEF FlagsTyped, Table
<1>6. IdlersCalm /\ IdlersQuiet /\ idlers' \subseteq Bridge!Idlers /\ BasesStep
  BY <1>1, IdlersStay, BasesSame DEF WorkTyped
<1> QED
  BY <1>1, <1>2, <1>4, <1>5, <1>6, WorldKeeps

LEMMA LivedConfigure ==
    ASSUME BridgeInv, NEW on \in BOOLEAN, NEW chats \in SUBSET Chats, Bridge!Configure(on, chats)
    PROVE  BridgeInv'
<1> USE BridgeParts
<1>1. /\ UNCHANGED <<inbox, confirmed, log, running, lines, terminal, hash, bot, bots, born, allowed, offset, batch,
                  last, notified, waiting, link, remembered, boxes, handlers, idlers, submits, turn>>
      /\ config' = [on |-> on, chats |-> chats]
  BY DEF Bridge!Configure, Bridge!telegram, Bridge!hub, Bridge!flags, Bridge!routes
<1>2. MailTyped' /\ BotsTyped' /\ FlagsTyped' /\ bots <= bots'
  BY <1>1 DEF MailTyped, BotsTyped, FlagsTyped
<1>3. budget' \in [Bridge!Events -> Nat]
  BY SpendTyped DEF Bridge!Configure
<1>4. ChatsTyped'
  BY <1>1, <1>3 DEF ChatsTyped
<1>5. IdlersCalm /\ IdlersQuiet /\ idlers' \subseteq Bridge!Idlers /\ BasesStep
  BY <1>1, IdlersStay, BasesSame DEF WorkTyped
<1> QED
  BY <1>1, <1>2, <1>4, <1>5, WorldKeeps

LEMMA LivedPanelUnlink == ASSUME BridgeInv, NEW c \in Chats, Bridge!PanelUnlink(c) PROVE BridgeInv'
<1> USE BridgeParts
<1>1. UNCHANGED <<inbox, confirmed, log, running, lines, terminal, config, hash, bot, bots, born, allowed, offset, batch,
                  last, notified, waiting, remembered, boxes, handlers, idlers, budget, submits, turn>>
  BY DEF Bridge!PanelUnlink, Bridge!telegram, Bridge!hub, Bridge!manager, Bridge!flags
<1>2. MailTyped' /\ BotsTyped' /\ FlagsTyped' /\ bots <= bots'
  BY <1>1 DEF MailTyped, BotsTyped, FlagsTyped
<1>3. ChatsTyped'
  BY <1>1 DEF ChatsTyped, Bridge!PanelUnlink
<1>4. IdlersCalm /\ IdlersQuiet /\ idlers' \subseteq Bridge!Idlers /\ BasesStep
  BY <1>1, IdlersStay, BasesSame DEF WorkTyped
<1> QED
  BY <1>1, <1>2, <1>3, <1>4, WorldKeeps

LEMMA LivedReconcile == ASSUME BridgeInv, Bridge!Reconcile PROVE BridgeInv'
<1> USE BridgeParts
<1>1. /\ UNCHANGED <<inbox, confirmed, log, running, lines, terminal, config, born, offset, batch, notified, waiting, link,
                     remembered, boxes, handlers, idlers, submits>>
      /\ Bridge!TornDown
  BY DEF Bridge!Reconcile, Bridge!telegram, Bridge!hub, Bridge!flags, Bridge!routes
<1>2. BotsTyped' /\ bots <= bots'
  <2>1. CASE Bridge!Launched
    <3>1. bots \in 0..MaxBots /\ bots < MaxBots /\ MaxBots \in Nat /\ born \in 0..bots
      BY <2>1, BridgeConstants DEF Bridge!Launched, BotsTyped
    <3>2. bots' \in 0..MaxBots /\ bot' \in 0..bots' /\ born' \in 0..bots' /\ bots <= bots'
      BY <1>1, <2>1, <3>1 DEF Bridge!Launched
    <3>3. config.chats \in SUBSET Chats
      BY DEF BotsTyped
    <3>4. allowed' \in [Bridge!Bots -> SUBSET Chats]
      BY <2>1, <3>3 DEF Bridge!Launched, BotsTyped
    <3> QED
      BY <1>1, <3>2, <3>4 DEF BotsTyped
  <2>2. CASE bot' = 0 /\ UNCHANGED <<bots, allowed>>
    BY <1>1, <2>2 DEF BotsTyped
  <2> QED
    BY <2>1, <2>2 DEF Bridge!Reconcile
<1>3. budget' \in [Bridge!Events -> Nat]
  <2>1. CASE Bridge!Spend("fault")
    BY <2>1, SpendTyped
  <2>2. CASE UNCHANGED budget
    BY <2>2 DEF ChatsTyped
  <2> QED
    BY <2>1, <2>2 DEF Bridge!Reconcile, Bridge!Launched
<1>4. MailTyped' /\ FlagsTyped' /\ ChatsTyped'
  BY <1>1, <1>3 DEF MailTyped, FlagsTyped, ChatsTyped
<1>5. IdlersCalm /\ IdlersQuiet /\ idlers' \subseteq Bridge!Idlers /\ BasesStep
  BY <1>1, IdlersStay, BasesTorn DEF WorkTyped
<1> QED
  BY <1>1, <1>2, <1>4, <1>5, WorldKeeps

\* A session ends, and handlers that have typed a text into it fail.
Fail(h, s) == IF h.pc = "enter" /\ h.ses = s THEN Put(h, "failed") ELSE h
LEMMA LivedExit == ASSUME BridgeInv, NEW s \in Sessions, Bridge!Exit(s) PROVE BridgeInv'
<1> USE BridgeParts
<1>1. /\ UNCHANGED <<inbox, confirmed, log, lines, terminal, config, hash, bot, bots, born, allowed, offset, batch, last,
                     notified, waiting, link, remembered, boxes, submits, turn>>
      /\ running' = running \ {s}
      /\ handlers' = {Fail(h, s) : h \in handlers}
      /\ idlers' = idlers \cup (IF bot = 0 THEN {} ELSE {Bridge!Idler(0, s, "stop")})
  BY DEF Bridge!Exit, Bridge!telegram, Bridge!manager, Bridge!flags, Bridge!routes, Fail, Put
<1>2. MailTyped' /\ BotsTyped' /\ FlagsTyped' /\ LogTyped' /\ PromptsTyped' /\ bots <= bots'
  BY <1>1 DEF MailTyped, BotsTyped, FlagsTyped, LogTyped, PromptsTyped
<1>3. budget' \in [Bridge!Events -> Nat]
  BY SpendTyped DEF Bridge!Exit
<1>4. ChatsTyped'
  BY <1>1, <1>3 DEF ChatsTyped
<1>5. IdlersCalm /\ IdlersQuiet /\ idlers' \subseteq Bridge!Idlers
  <2>1. CASE bot = 0
    <3>1. idlers' = idlers
      BY <1>1, <2>1
    <3> QED
      BY <3>1, IdlersStay DEF WorkTyped
  <2>2. CASE bot # 0
    <3>1. idlers' = idlers \cup {Bridge!Idler(0, s, "stop")} /\ bots' = bots
      BY <1>1, <2>2
    <3> QED
      BY <2>2, <3>1, IdlersBegin
  <2> QED
    BY <2>1, <2>2
<1>6. \A h \in handlers :
         /\ Fail(h, s) \in Bridge!Handlers /\ Fail(h, s).u = h.u
         /\ Fail(h, s) = h \/ (h.pc = "enter" /\ Fail(h, s).pc = "failed")
  <2> TAKE h \in handlers
  <2>1. "failed" \in Pcs
    BY DEF Pcs
  <2>2. Put(h, "failed") \in Bridge!Handlers /\ Put(h, "failed").u = h.u /\ Put(h, "failed").pc = "failed"
    BY <2>1, HandlerTo
  <2> QED
    BY <2>2, HandlerTyped DEF Fail
<1>7. WorkTyped' /\ BridgeMail'
  <2>1. WorkTyped'
    BY <1>1, <1>5, <1>6 DEF WorkTyped
  <2>2. \A g \in handlers' : \E h \in handlers : g.u = h.u
    BY <1>1, <1>6
  <2> QED
    BY <1>1, <2>1, <2>2, MailSame
<1>8. BridgeNotes'
  BY <1>1, <1>2, <1>5, NotesSame
<1>9. BasesStep
  BY <1>1, BasesSame
<1>10. BridgeTexts' /\ BridgePushes'
  BY <1>1, <1>5, <1>9, TextsStep, PushesStep
<1>11. BridgePicks'
  <2>1. \A h : Bridge!Op(h)' = Bridge!Op(h) /\ Bridge!Target(h)' = Bridge!Target(h)
    BY <1>1 DEF Bridge!Op, Bridge!Target
  <2>2. \A h \in handlers : /\ Bridge!Op(Fail(h, s)) = Bridge!Op(h) /\ Bridge!Target(Fail(h, s)) = Bridge!Target(h)
                            /\ Fail(h, s) \in handlers'
    BY <1>1, <1>6 DEF Bridge!Op, Bridge!Target
  <2>3. \A g \in handlers' : \E h \in handlers : g = Fail(h, s)
    BY <1>1
  <2>4. \A g \in handlers' : g.pc = "put back" => Bridge!Op(g)' = "submit"
    BY <1>6, <2>1, <2>2, <2>3 DEF BridgePicks
  <2>5. ASSUME NEW m \in Bridge!Ids PROVE Picked(m)'
    <3>1. Picked(m) /\ (Unsent(m)' <=> Unsent(m))
      BY <1>1, <1>5, UnsentSame DEF BridgePicks
    <3>2. \A h \in handlers : Submits(Fail(h, s), m)' <=> Submits(h, m)
      BY <1>6, <2>1, <2>2 DEF Submits
    <3>3. boxes[m] = "taken" => submits[m] = 1 \/ \E g \in handlers' : Submits(g, m)'
      BY <2>2, <3>1, <3>2 DEF Picked
    <3>4. ASSUME NEW g \in handlers', Submits(g, m)'
          PROVE  /\ boxes[m] = "taken" /\ submits[m] = (IF g.pc \in EnterDone THEN 1 ELSE 0)
                 /\ g.pc \in {"type", "enter", "failed", "put back", "reset", "rebase"}
      <4>1. PICK h \in handlers : g = Fail(h, s)
        BY <2>3
      <4>2. Submits(h, m)
        BY <3>2, <3>4, <4>1
      <4>3. /\ boxes[m] = "taken" /\ submits[m] = (IF h.pc \in EnterDone THEN 1 ELSE 0)
            /\ h.pc \in {"type", "enter", "failed", "put back", "reset", "rebase"}
        BY <3>1, <4>2 DEF Picked
      <4>4. CASE g = h
        BY <4>3, <4>4
      <4>5. CASE h.pc = "enter" /\ g.pc = "failed"
        BY <4>3, <4>5 DEF EnterDone
      <4> QED
        BY <1>6, <4>1, <4>4, <4>5
    <3>5. ASSUME NEW g \in handlers', NEW k \in handlers', Submits(g, m)', Submits(k, m)' PROVE g = k
      <4>1. PICK h \in handlers, l \in handlers : g = Fail(h, s) /\ k = Fail(l, s)
        BY <2>3
      <4>2. Submits(h, m) /\ Submits(l, m)
        BY <3>2, <3>5, <4>1
      <4>3. h = l
        BY <3>1, <4>2 DEF Picked
      <4> QED
        BY <4>1, <4>3
    <3> QED
      BY <1>1, <3>1, <3>3, <3>4, <3>5 DEF Picked
  <2> QED
    BY <2>4, <2>5, PicksNext
<1> QED
  BY <1>2, <1>4, <1>7, <1>8, <1>9, <1>10, <1>11, BridgeNext DEF TypesKept, BasesStep

\* A handler that begins, or an update that comes, does not touch the picks of a prompt.
LEMMA PicksBefore ==
    ASSUME BridgeInv, UNCHANGED <<log, idlers, boxes, submits>>, handlers \subseteq handlers',
           \A h \in handlers' : h \in handlers \/ h.pc = "begin",
           \A h \in handlers : Bridge!Op(h)' = Bridge!Op(h) /\ Bridge!Target(h)' = Bridge!Target(h)
    PROVE  BridgePicks'
<1>1. \A h \in handlers' : h.pc = "put back" => Bridge!Op(h)' = "submit"
  BY BridgeParts DEF BridgePicks
<1>2. ASSUME NEW m \in Bridge!Ids PROVE Picked(m)'
  <2>1. Picked(m) /\ (Unsent(m)' <=> Unsent(m))
    BY BridgeParts DEF BridgePicks, Unsent
  <2>2. \A h \in handlers : Submits(h, m)' <=> Submits(h, m)
    BY DEF Submits
  <2>3. \A h \in handlers' : Submits(h, m)' => h \in handlers
    BY DEF Submits
  <2> QED
    BY <2>1, <2>2, <2>3 DEF Picked
<1> QED
  BY <1>1, <1>2, PicksNext
LEMMA LivedSend ==
    ASSUME BridgeInv, NEW c \in Chats, NEW op \in Bridge!Ops, NEW s \in Sessions \cup {None}, NEW m \in 0..MaxSent,
           Bridge!Send(c, op, s, m)
    PROVE  BridgeInv'
<1> USE BridgeParts
<1>1. UNCHANGED <<confirmed, log, running, lines, terminal, config, hash, bot, bots, born, allowed, offset, batch, last,
                  notified, waiting, link, remembered, boxes, handlers, idlers, submits, turn>>
  BY DEF Bridge!Send, Bridge!hub, Bridge!manager, Bridge!flags, Bridge!routes
<1>2. PICK x : /\ x = [chat |-> c, op |-> op, ses |-> s, msg |-> m] /\ inbox' = Append(inbox, x)
               /\ Len(inbox) < MaxUpdates
  BY DEF Bridge!Send
<1>3. x \in Bridge!Updates /\ x.op = op /\ x.msg = m
  BY <1>2 DEF Bridge!Updates
<1>4. op = "submit" => m \in Bridge!Ids
  BY BridgeConstants DEF Bridge!Send, Bridge!Ids
<1>5. /\ inbox' \in Seq(Bridge!Updates) /\ Len(inbox') <= MaxUpdates
      /\ DOMAIN inbox = 1..Len(inbox) /\ Len(inbox) \in Nat /\ DOMAIN inbox' = 1..(Len(inbox) + 1)
      /\ \A u \in DOMAIN inbox : u \in DOMAIN inbox' /\ inbox'[u] = inbox[u]
      /\ inbox'[Len(inbox) + 1] = x
      /\ \A u \in DOMAIN inbox' : u \in DOMAIN inbox \/ u = Len(inbox) + 1
  <2>1. inbox \in Seq(Bridge!Updates) /\ Len(inbox) \in Nat /\ MaxUpdates \in Nat
    BY BridgeConstants DEF MailTyped
  <2>2. /\ inbox' \in Seq(Bridge!Updates) /\ Len(inbox') = Len(inbox) + 1
        /\ \A u \in 1..Len(inbox) : inbox'[u] = inbox[u]
        /\ inbox'[Len(inbox) + 1] = x
    BY <1>2, <1>3, <2>1
  <2>3. DOMAIN inbox = 1..Len(inbox) /\ DOMAIN inbox' = 1..(Len(inbox) + 1)
    BY <2>1, <2>2
  <2> QED
    BY <1>2, <2>1, <2>2, <2>3
<1>6. MailTyped'
  BY <1>1, <1>5 DEF MailTyped
<1>7. BridgeMail'
  <2>1. \A b \in Bridge!Bots : batch'[b] \subseteq DOMAIN inbox'
    BY <1>1, <1>5 DEF BridgeMail
  <2>2. \A h \in handlers' : h.u \in DOMAIN inbox'
    BY <1>1, <1>5 DEF BridgeMail
  <2>3. \A u \in DOMAIN inbox' : inbox'[u].op = "submit" => inbox'[u].msg \in Bridge!Ids
    BY <1>3, <1>4, <1>5 DEF BridgeMail
  <2> QED
    BY <2>1, <2>2, <2>3 DEF BridgeMail
<1>8. budget' \in [Bridge!Events -> Nat]
  BY SpendTyped DEF Bridge!Send
<1>9. ChatsTyped' /\ BotsTyped' /\ FlagsTyped' /\ LogTyped' /\ PromptsTyped' /\ WorkTyped' /\ bots <= bots'
  BY <1>1, <1>8 DEF ChatsTyped, BotsTyped, FlagsTyped, LogTyped, PromptsTyped, WorkTyped
<1>10. IdlersCalm /\ IdlersQuiet /\ BasesStep
  BY <1>1, IdlersStay, BasesSame
<1>11. BridgeNotes' /\ BridgeTexts' /\ BridgePushes'
  BY <1>1, <1>9, <1>10, NotesSame, TextsStep, PushesStep
<1>12. BridgePicks'
  <2>1. \A h \in handlers : Bridge!Op(h)' = Bridge!Op(h) /\ Bridge!Target(h)' = Bridge!Target(h)
    BY <1>5, HandlerTyped DEF Bridge!Op, Bridge!Target
  <2>2. UNCHANGED <<log, idlers, boxes, submits>> /\ handlers' = handlers
    BY <1>1
  <2> QED
    BY <2>1, <2>2, PicksBefore
<1> QED
  BY <1>6, <1>7, <1>9, <1>10, <1>11, <1>12, BridgeNext DEF TypesKept, BasesStep

LEMMA LivedFetch == ASSUME BridgeInv, NEW b \in Bridge!Bots, Bridge!Fetch(b) PROVE BridgeInv'
<1> USE BridgeParts
<1>1. UNCHANGED <<inbox, log, running, lines, terminal, config, hash, bot, bots, born, allowed, offset, last,
                  notified, waiting, link, remembered, boxes, handlers, idlers, budget, submits, turn>>
  BY DEF Bridge!Fetch, Bridge!hub, Bridge!manager, Bridge!flags, Bridge!routes
<1>2. PICK known \in 0..MaxUpdates : /\ Len(inbox) > known /\ confirmed' = known
                                     /\ batch' = [batch EXCEPT ![b] = (known + 1)..Len(inbox)]
  BY DEF Bridge!Fetch, MailTyped
<1>3. Len(inbox) \in Nat /\ Len(inbox) <= MaxUpdates /\ DOMAIN inbox = 1..Len(inbox) /\ MaxUpdates \in Nat
  BY BridgeConstants DEF MailTyped
<1>4. (known + 1)..Len(inbox) \subseteq 1..MaxUpdates /\ (known + 1)..Len(inbox) \subseteq DOMAIN inbox
  BY <1>2, <1>3
<1>5. MailTyped'
  <2>1. batch' \in [Bridge!Bots -> SUBSET (1..MaxUpdates)]
    BY <1>2, <1>4 DEF MailTyped
  <2> QED
    BY <1>1, <1>2, <2>1 DEF MailTyped
<1>6. BridgeMail'
  <2>1. \A a \in Bridge!Bots : batch'[a] \subseteq DOMAIN inbox
    BY <1>2, <1>4 DEF MailTyped, BridgeMail
  <2> QED
    BY <1>1, <2>1 DEF BridgeMail
<1>7. ChatsTyped' /\ BotsTyped' /\ FlagsTyped' /\ LogTyped' /\ PromptsTyped' /\ WorkTyped' /\ bots <= bots'
  BY <1>1 DEF ChatsTyped, BotsTyped, FlagsTyped, LogTyped, PromptsTyped, WorkTyped
<1>8. IdlersCalm /\ IdlersQuiet /\ BasesStep
  BY <1>1, IdlersStay, BasesSame
<1>9. BridgeNotes' /\ BridgeTexts' /\ BridgePushes' /\ BridgePicks'
  BY <1>1, <1>7, <1>8, NotesSame, TextsStep, PushesStep, UnsentSame, PicksSame
<1> QED
  BY <1>5, <1>6, <1>7, <1>8, <1>9, BridgeNext DEF TypesKept, BasesStep

LEMMA LivedDispatch == ASSUME BridgeInv, NEW b \in Bridge!Bots, Bridge!Dispatch(b) PROVE BridgeInv'
<1> USE BridgeParts
<1>1. UNCHANGED <<inbox, confirmed, log, running, lines, terminal, config, hash, bot, bots, born, allowed, last,
                  notified, waiting, link, remembered, boxes, idlers, budget, submits, turn>>
  BY DEF Bridge!Dispatch, Bridge!telegram, Bridge!hub, Bridge!manager, Bridge!flags, Bridge!routes
<1>2. PICK u \in batch[b] :
         /\ batch' = [batch EXCEPT ![b] = batch[b] \ {u}] /\ offset' = [offset EXCEPT ![b] = u]
         /\ handlers' = handlers \cup
              (IF inbox[u].chat \in allowed[b]
                 THEN {[u |-> u, by |-> b, pc |-> "begin", ses |-> inbox[u].ses]} ELSE {})
  BY DEF Bridge!Dispatch
<1>3. u \in 1..MaxUpdates /\ u \in DOMAIN inbox /\ inbox[u].ses \in Sessions \cup {None}
  BY UpdateTyped DEF BridgeMail, MailTyped
<1>4. MailTyped'
  <2>1. batch' \in [Bridge!Bots -> SUBSET (1..MaxUpdates)]
    BY <1>2 DEF MailTyped
  <2>2. offset' \in [Bridge!Bots -> 0..MaxUpdates]
    BY <1>2, <1>3, BridgeConstants DEF MailTyped
  <2> QED
    BY <1>1, <2>1, <2>2 DEF MailTyped
<1>5. PICK g : g \in Bridge!Handlers /\ g.pc = "begin" /\ g.u = u /\ handlers' \subseteq handlers \cup {g}
               /\ handlers \subseteq handlers'
  <2>1. ASSUME NEW g, g = [u |-> u, by |-> b, pc |-> "begin", ses |-> inbox[u].ses]
        PROVE  g \in Bridge!Handlers /\ g.pc = "begin" /\ g.u = u
    BY <1>3, <2>1 DEF Bridge!Handlers
  <2> QED
    BY <1>2, <2>1
<1>6. BridgeMail'
  <2>1. \A a \in Bridge!Bots : batch'[a] \subseteq DOMAIN inbox
    BY <1>2 DEF MailTyped, BridgeMail
  <2>2. \A h \in handlers' : h.u \in DOMAIN inbox
    BY <1>3, <1>5 DEF BridgeMail
  <2> QED
    BY <1>1, <2>1, <2>2 DEF BridgeMail
<1>7. ChatsTyped' /\ BotsTyped' /\ FlagsTyped' /\ LogTyped' /\ PromptsTyped' /\ bots <= bots'
  BY <1>1 DEF ChatsTyped, BotsTyped, FlagsTyped, LogTyped, PromptsTyped
<1>8. WorkTyped' /\ IdlersCalm /\ IdlersQuiet /\ BasesStep
  BY <1>1, <1>5, IdlersStay, BasesSame DEF WorkTyped
<1>9. BridgeNotes' /\ BridgeTexts' /\ BridgePushes'
  BY <1>1, <1>7, <1>8, NotesSame, TextsStep, PushesStep
<1>10. BridgePicks'
  <2>1. \A h \in handlers : Bridge!Op(h)' = Bridge!Op(h) /\ Bridge!Target(h)' = Bridge!Target(h)
    BY <1>1 DEF Bridge!Op, Bridge!Target
  <2>2. \A h \in handlers' : h \in handlers \/ h.pc = "begin"
    BY <1>5
  <2> QED
    BY <1>1, <1>5, <2>1, <2>2, PicksBefore
<1> QED
  BY <1>4, <1>6, <1>7, <1>8, <1>9, <1>10, BridgeNext DEF TypesKept, BasesStep

LEMMA LivedRestart == ASSUME BridgeInv, Bridge!Restart PROVE BridgeInv'
<1> USE BridgeParts
<1>1. /\ UNCHANGED <<inbox, confirmed, log, lines, terminal, config, bots, allowed, offset, notified, waiting, link, submits>>
      /\ bot' = 0 /\ born' = bots /\ Bridge!TornDown /\ running' = {}
      /\ batch' = [a \in Bridge!Bots |-> {}]
      /\ remembered' = [m \in Bridge!Ids |-> None] /\ boxes' = [m \in Bridge!Ids |-> "none"]
      /\ handlers' = {} /\ idlers' = {}
  BY DEF Bridge!Restart, Bridge!telegram, Bridge!flags
<1>2. budget' \in [Bridge!Events -> Nat]
  BY SpendTyped DEF Bridge!Restart
<1>3. MailTyped' /\ ChatsTyped' /\ FlagsTyped' /\ LogTyped'
  BY <1>1, <1>2 DEF MailTyped, ChatsTyped, FlagsTyped, LogTyped
<1>4. BotsTyped'
  BY <1>1, BridgeConstants DEF BotsTyped
<1>5. PromptsTyped' /\ WorkTyped'
  BY <1>1 DEF PromptsTyped, WorkTyped
<1>6. BasesStep
  BY <1>1, BasesTorn
<1>7. BridgeMail'
  BY <1>1 DEF BridgeMail
<1>8. BridgeNotes'
  <2>1. \A m \in DOMAIN log : log[m].by \in Nat /\ log[m].by <= bots /\ ~ (log[m].by > bots)
    <3> TAKE m \in DOMAIN log
    <3>1. log[m].by \in Nat /\ log[m].by <= bots /\ bots \in Nat
      BY MessageTyped DEF BridgeNotes, Bridge!Bots, BotsTyped
    <3> QED
      BY <3>1
  <2>2. born' <= bots'
    BY <1>1 DEF BotsTyped
  <2> QED
    BY <1>1, <2>1, <2>2 DEF BridgeNotes, Bridge!Answerable
<1>9. BridgePicks'
  <2>1. \A h \in handlers' : h.pc = "put back" => Bridge!Op(h)' = "submit"
    BY <1>1
  <2>2. ASSUME NEW m \in Bridge!Ids PROVE Picked(m)'
    <3>1. Picked(m) /\ (Unsent(m)' => Unsent(m)) /\ boxes'[m] = "none"
      BY <1>1 DEF BridgePicks, Unsent
    <3> QED
      BY <1>1, <3>1 DEF Picked
  <2> QED
    BY <2>1, <2>2, PicksNext
<1>10. BridgeTexts' /\ BridgePushes'
  <2>1. IdlersQuiet
    BY <1>1 DEF IdlersQuiet
  <2> QED
    BY <1>1, <1>6, <2>1, TextsStep, PushesStep
<1> QED
  BY <1>3, <1>4, <1>5, <1>6, <1>7, <1>8, <1>9, <1>10, BridgeNext DEF TypesKept, BasesStep

LEMMA BridgeStep ==
    ASSUME BridgeInv, Bridge!Next \/ UNCHANGED Bridge!vars
    PROVE  BridgeInv'
<1>1. CASE UNCHANGED Bridge!vars
  <2> USE BridgeParts
  <2>1. UNCHANGED <<inbox, confirmed, log, running, lines, terminal, config, hash, bot, bots, born, allowed, offset, batch,
                    last, notified, waiting, link, remembered, boxes, handlers, idlers, budget, submits, turn>>
    BY <1>1 DEF Bridge!vars, Bridge!telegram, Bridge!hub, Bridge!manager, Bridge!flags, Bridge!routes
  <2>2. MailTyped' /\ ChatsTyped' /\ BotsTyped' /\ FlagsTyped' /\ bots <= bots'
    BY <2>1 DEF MailTyped, ChatsTyped, BotsTyped, FlagsTyped
  <2>3. IdlersCalm /\ IdlersQuiet /\ idlers' \subseteq Bridge!Idlers /\ BasesStep
    BY <2>1, IdlersStay, BasesSame DEF WorkTyped
  <2> QED
    BY <2>1, <2>2, <2>3, WorldKeeps
<1>2. ASSUME NEW s \in Sessions, Bridge!Write(s) \/ Bridge!Exit(s) \/ Bridge!Start(s) \/ Bridge!Idle(s)
                                 \/ Bridge!Cool(s) \/ Bridge!Tire(s)
      PROVE  BridgeInv'
  BY <1>2, LivedWrite, LivedExit, LivedStart, LivedIdle, LivedCool
<1>3. ASSUME NEW x \in Inputs, NEW m \in 0..MaxSent, Bridge!Send(x[1], x[2], x[3], m)
      PROVE  BridgeInv'
  <2>1. x[1] \in Chats /\ x[2] \in Bridge!Ops /\ x[3] \in Sessions \cup {None}
    BY BridgeConstants
  <2> QED
    BY <1>3, <2>1, LivedSend
<1>4. ASSUME NEW on \in BOOLEAN, NEW chats \in SUBSET Chats, Bridge!Configure(on, chats)
      PROVE  BridgeInv'
  BY <1>4, LivedConfigure
<1>5. CASE Bridge!Reconcile \/ Bridge!Restart
  BY <1>5, LivedReconcile, LivedRestart
<1>6. ASSUME NEW b \in Bridge!Bots, Bridge!Fetch(b) \/ Bridge!Dispatch(b) PROVE BridgeInv'
  BY <1>6, LivedFetch, LivedDispatch
<1>7. ASSUME NEW h \in handlers, Bridge!Handle(h) PROVE BridgeInv'
  BY <1>7, HandledAll
<1>8. ASSUME NEW i \in idlers, Bridge!Tell(i) PROVE BridgeInv'
  BY <1>8, ToldAll
<1>9. ASSUME NEW c \in Chats, Bridge!PanelUnlink(c) PROVE BridgeInv'
  BY <1>9, LivedPanelUnlink
<1> QED
  BY <1>1, <1>2, <1>3, <1>4, <1>5, <1>6, <1>7, <1>8, <1>9 DEF Bridge!Next
BridgeInvHere == lane = "Bridge" => BridgeInv
LEMMA BridgeInvAlways == Spec => []BridgeInvHere
<1>1. Init => BridgeInvHere
  BY BridgeStart, BridgeInvInit DEF BridgeInvHere
<1>2. BridgeInvHere /\ [Next]_vars => BridgeInvHere'
  BY BridgeLane, BridgeStep DEF BridgeInvHere
<1> QED
  BY <1>1, <1>2, PTL DEF Spec

\* The picks of a prompt are typed into the session once, whatever taps, redeliveries, reloads and
\* restarts there are: only the goroutine that has taken them out of the store types them in
\* (gateway/telegram/multiselect.go:123-126).
THEOREM SubmittedOnceHolds == Spec => []SubmittedOnce
<1>1. BridgeInvHere => SubmittedOnce
  <2> SUFFICES ASSUME BridgeInvHere, lane = "Bridge" PROVE Bridge!TypeOK /\ Bridge!SubmittedOnce
    BY DEF SubmittedOnce
  <2>1. Bridge!TypeOK /\ \A m \in Bridge!Ids : submits[m] \in {0, 1}
    BY DEF BridgeInvHere, BridgeInv, BridgePicks, Picked
  <2>2. \A m \in Bridge!Ids : submits[m] <= 1
    BY <2>1
  <2> QED
    BY <2>1, <2>2 DEF Bridge!SubmittedOnce
<1> QED
  BY <1>1, BridgeInvAlways, PTL

\* A selection that was taken out of the store has been typed in, or a goroutine has it that types
\* it in or puts it back (gateway/telegram/commands.go:686-701).
THEOREM SelectionKeptHolds == Spec => []SelectionKept
<1>1. BridgeInvHere => SelectionKept
  BY DEF BridgeInvHere, SelectionKept, BridgeInv, BridgePicks, Picked, Submits, Bridge!SelectionKept
<1> QED
  BY <1>1, BridgeInvAlways, PTL

\* Two pushes of a terminal to a chat that were compared with the same baseline have no line in
\* common: what was pushed, or is being pushed, is in the baseline of the next comparison
\* (gateway/telegram/forwarder.go:131-133).
THEOREM PushedOnceHolds == Spec => []PushedOnce
<1>1. BridgeInvHere => PushedOnce
  BY DEF BridgeInvHere, PushedOnce, BridgeInv, BridgePushes
<1> QED
  BY <1>1, BridgeInvAlways, PTL

\* The last message of a push or of an idle notification that a bot of this gateway has sent can be
\* replied to once the goroutine that has sent it has registered it, and no other goroutine registers
\* it.  Notices of exits and earlier parts, whose ids are dropped, are not among them
\* (gateway/telegram/forwarder.go:160-168, notifications.go:248-252).
THEOREM AnswerableHolds == Spec => []Answerable
<1>1. BridgeInvHere => Answerable
  BY DEF BridgeInvHere, Answerable, BridgeInv, BridgeNotes
<1> QED
  BY <1>1, BridgeInvAlways, PTL
=============================================================================
