------------------------- MODULE PluginBridgeProofs -------------------------
(***************************************************************************)
(* Proofs about PluginBridge, for any connections, envelopes, consent      *)
(* handlers and numbers of slots.  A call that has opened a stream stays   *)
(* its call for ever, so what the maps, the registries and the releases    *)
(* say of it can be compared at any later time.                            *)
(***************************************************************************)
EXTENDS PluginBridge, FiniteSetTheorems, TLAPS

USE BridgeAssumption

-----------------------------------------------------------------------------
(* The invariant.                                                           *)

\* What is known of a call from where it is.
CallFine(c) ==
    /\ At(c, "none") <=> call[c].op = "none"
    /\ At(c, "check") => call[c].op \in {"open", "run"} /\ Kind(c) \in Kinds
    /\ At(c, "running") => call[c].op = "run"
    /\ call[c].op = "run" /\ ~At(c, "over") => Kind(c) = "exec"
    /\ call[c].pc \in {"register", "store", "open"} => call[c].op = "open" /\ Kind(c) \in Kinds
    /\ call[c].pc \in {"store", "open"} => c \in subs \cup done
    /\ At(c, "store") /\ Kind(c) = "exec" => call[c].feed = "on"
    /\ At(c, "over") /\ call[c].op \in {"open", "run"} => Kind(c) = None
    /\ call[c].feed = "exited" => Kind(c) = "exec" /\ At(c, "open")
    /\ call[c].pc \in {"lookup", "detach"} => call[c].op = "release"
    /\ c \in subs => call[c].pc \in {"store", "open"}
    /\ call[c].op # "none" => conn[c[1]] # "none"

\* A stream that is open and of kind x.
Stream(b, x) == b \in Calls /\ At(b, "open") /\ Kind(b) = x

\* What a release is aimed at, and what it has found, are open streams of its kind.
ReleaseFine(c) ==
    /\ call[c].op = "release" => Kind(c) \in Kinds /\ Stream(<<c[1], call[c].of>>, Kind(c))
    /\ At(c, "detach") => Stream(Target(c), Kind(c))
CallsFine == \A c \in Calls : CallFine(c) /\ ReleaseFine(c)

\* So is what the namespaces list.
ListedFine ==
    \A x \in Kinds, n \in Numbers : listed[x][n] # None => Stream(<<listed[x][n], n>>, x)

\* The only open stream of its kind and number.
Sole(b) == \A a \in Calls : a[2] = b[2] /\ Stream(a, Kind(b)) => a = b

\* A stream that is fed is listed, if no other can have taken its place, or is about
\* to be detached.
FeedsListed ==
    \A b \in Calls :
        At(b, "open") /\ Kind(b) # "exec" /\ Sole(b) /\ call[b].feed = "on" =>
            \/ listed[Kind(b)][b[2]] = b[1]
            \/ \E d \in Calls : At(d, "detach") /\ Target(d) = b

\* A stream that a release has looked up is not listed again.
ReleasedUnlisted ==
    \A c \in Calls : call[c].op = "release" /\ Kind(c) # "exec" /\ call[c].pc \in {"detach", "over"} =>
        listed[Kind(c)][call[c].of] # c[1]

\* A call that has passed its check may still register under the present row.
ChecksStand == \A c \in Calls \ raced : At(c, "register") => Granted(Kind(c))

\* Handlers that do not overlap write what follows from the row as it is.
HandlersFine ==
    ~mingled =>
        /\ \A g, h \in Handlers : handler[g] # Idle /\ handler[h] # Idle => g = h
        /\ \A h \in Handlers : handler[h].pc = "write" =>
              \A x \in Kinds : Granted(x) /\ x \notin handler[h].perms => x \in handler[h].touched

\* A stream that is not granted any more is about to be invalidated.
Doomed(c) ==
    \E h \in Handlers : /\ handler[h].pc = "invalidate"
                        /\ c[1] \in handler[h].at
                        /\ Kind(c) \in handler[h].touched
RevokedDoomed ==
    ~mingled => \A c \in subs \ raced : c[1] \in registered => Granted(Kind(c)) \/ Doomed(c)

BridgeInv ==
    /\ TypeOK /\ CallsFine /\ ListedFine /\ SlotsExact /\ FeedsListed /\ ReleasedUnlisted
    /\ ChecksStand /\ HandlersFine /\ RevokedDoomed

-----------------------------------------------------------------------------
(* What a step of one call leaves alone.                                    *)

\* Another call does not move; at most the feed of a stream is stopped.
Same(b) ==
    /\ call'[b].op = call[b].op /\ call'[b].kind = call[b].kind /\ call'[b].pc = call[b].pc
    /\ call'[b].of = call[b].of /\ call'[b].from = call[b].from
    /\ \/ call'[b].feed = call[b].feed
       \/ call'[b].feed = "off" /\ call[b].pc = "open" /\ call[b].kind # "exec"
Own(c) ==
    /\ \A b \in Calls \ {c} : Same(b)
    /\ call[c].pc = "open" => call'[c].pc = "open" /\ call'[c].kind = call[c].kind
    /\ c \in subs' => call'[c].kind = call[c].kind /\ (c \in subs \/ call[c].pc = "register")
    /\ call'[c].pc = "register" => Granted(call'[c].kind)
    /\ subs \cup done \subseteq subs' \cup done' /\ subs' \subseteq subs \cup {c}
    /\ UNCHANGED <<consent, conn, registered, handler, mingled, raced>>

StreamsStay == \A b \in Calls, x \in Kinds : Stream(b, x) => Stream(b, x)'

\* Open streams stay open.
LEMMA OwnStays ==
    ASSUME NEW c \in Calls, Own(c)
    PROVE  StreamsStay
  BY DEF Own, Same, StreamsStay, Stream, At, Kind

\* What is known of the other calls still holds, and of the streams.
LEMMA OwnKeeps ==
    ASSUME BridgeInv, NEW c \in Calls, Own(c), CallFine(c)', ReleaseFine(c)'
    PROVE  CallsFine' /\ ChecksStand' /\ HandlersFine' /\ RevokedDoomed'
<1>. USE DEF BridgeInv
<1>1. StreamsStay
  BY OwnStays
<1>2. ASSUME NEW b \in Calls, b # c PROVE CallFine(b)'
  <2>1. CallFine(b) /\ Same(b)
    BY <1>2 DEF CallsFine, Own
  <2>. QED
    BY <1>2, <2>1 DEF CallFine, Same, At, Kind, Own
<1>3. ASSUME NEW b \in Calls, b # c PROVE ReleaseFine(b)'
  <2>1. ReleaseFine(b) /\ Same(b) /\ CallFine(b)
    BY <1>3 DEF CallsFine, Own
  <2>2. call'[b].op = "release" => Stream(<<b[1], call[b].of>>, Kind(b))'
    BY <1>1, <2>1 DEF ReleaseFine, Same, StreamsStay, Stream, Kind
  <2>3. call'[b].pc = "detach" => Stream(Target(b), Kind(b)) /\ Kind(b) \in Kinds
    BY <2>1 DEF ReleaseFine, CallFine, Same, At
  <2>4. call'[b].pc = "detach" => Stream(Target(b), Kind(b))'
    <3>1. Target(b)' = Target(b) /\ Kind(b)' = Kind(b)
      BY <2>1 DEF Target, Kind, Same
    <3>. QED
      BY <1>1, <2>3, <3>1 DEF StreamsStay, Stream, At, Kind
  <2>. QED
    BY <2>1, <2>2, <2>4 DEF ReleaseFine, Same, Kind, At
<1>4. CallsFine'
  BY <1>2, <1>3 DEF CallsFine
<1>5. ChecksStand'
  BY DEF ChecksStand, Own, Same, At, Kind, Granted
<1>6. HandlersFine'
  BY DEF HandlersFine, Own, Granted
<1>7. RevokedDoomed'
  <2>. SUFFICES ASSUME ~mingled, NEW b \in subs' \ raced, b[1] \in registered
                PROVE  Granted(Kind(b))' \/ Doomed(b)'
    BY DEF RevokedDoomed, Own
  <2>1. b \in subs \/ (b = c /\ call[c].pc = "register")
    BY DEF Own
  <2>2. Granted(Kind(b)) \/ Doomed(b)
    BY <2>1 DEF RevokedDoomed, ChecksStand, At
  <2>3. b \in Calls /\ call'[b].kind = call[b].kind
    BY <2>1 DEF Own, Same, TypeOK
  <2>. QED
    BY <2>2, <2>3 DEF Granted, Doomed, Kind, Own
<1>. QED
  BY <1>4, <1>5, <1>6, <1>7

\* So does what the namespaces list, unless the call lists or looks up.
LEMMA ListsKeep ==
    ASSUME BridgeInv, NEW c \in Calls, Own(c), listed' = listed, call[c].pc # "detach",
           call'[c].pc = "open" => call[c].pc = "open" /\ (call'[c].feed = "on" => call[c].feed = "on"),
           call'[c].op # "release" \/ call'[c].pc \notin {"detach", "over"} \/ Same(c)
    PROVE  ListedFine' /\ FeedsListed' /\ ReleasedUnlisted'
<1>. USE DEF BridgeInv
<1>1. StreamsStay
  BY OwnStays
<1>2. ListedFine'
  BY <1>1 DEF ListedFine, StreamsStay, Stream
<1>3. FeedsListed'
  <2>. SUFFICES ASSUME NEW b \in Calls, At(b, "open")', Kind(b)' # "exec", Sole(b)',
                       call'[b].feed = "on"
                PROVE  \/ listed[Kind(b)'][b[2]] = b[1]
                       \/ \E d \in Calls : At(d, "detach")' /\ Target(d)' = b
    BY DEF FeedsListed
  <2>1. At(b, "open") /\ Kind(b)' = Kind(b) /\ call[b].feed = "on"
    BY DEF Own, Same, At, Kind
  <2>2. Sole(b)
    <3>1. Kind(b) \in Kinds
      BY <2>1 DEF CallsFine, CallFine, At
    <3>2. \A a \in Calls : Stream(a, Kind(b)) => At(a, "open")' /\ Kind(a)' = Kind(b)'
      BY <1>1, <2>1, <3>1 DEF StreamsStay, Stream
    <3>. QED
      BY <3>2 DEF Sole, Stream
  <2>3. \/ listed[Kind(b)][b[2]] = b[1]
        \/ \E d \in Calls : At(d, "detach") /\ Target(d) = b
    BY <2>1, <2>2 DEF FeedsListed
  <2>4. \A d \in Calls : At(d, "detach") => At(d, "detach")' /\ Target(d)' = Target(d)
    BY DEF Own, Same, At, Target
  <2>. QED
    BY <2>1, <2>3, <2>4
<1>4. ReleasedUnlisted'
  BY DEF ReleasedUnlisted, Own, Same, Kind
<1>. QED
  BY <1>2, <1>3, <1>4

-----------------------------------------------------------------------------
(* Slots.                                                                   *)

Holds(c) ==
    /\ Kind(c) = "exec"
    /\ \/ At(c, "running")
       \/ call[c].op = "open" /\ call[c].pc \in {"register", "store"}
       \/ At(c, "open") /\ call[c].feed = "on"

\* A step of one call takes or gives back one slot, or none.
LEMMA SlotsStep ==
    ASSUME BridgeInv, NEW c \in Calls, Own(c)
    PROVE  /\ (Holds(c)' <=> Holds(c)) /\ inflight' = inflight => SlotsExact'
           /\ ~Holds(c) /\ Holds(c)' /\ inflight' = inflight + 1 => SlotsExact'
           /\ Holds(c) /\ ~Holds(c)' /\ inflight' = inflight - 1 => SlotsExact'
           /\ Holds(c) => inflight - 1 \in 0..MaxSpawns
<1>. USE DEF BridgeInv
<1>1. Holders = {b \in Calls : Holds(b)} /\ Holders' = {b \in Calls : Holds(b)'}
  BY DEF Holders, Holds
<1>2. \A b \in Calls \ {c} : Holds(b)' <=> Holds(b)
  BY DEF Own, Same, Holds, Kind, At
<1>3. IsFiniteSet(Holders) /\ Cardinality(Holders) \in Nat
  BY <1>1, FS_Subset, FS_CardinalityType
<1>4. (Holds(c)' <=> Holds(c)) => Holders' = Holders
  BY <1>1, <1>2
<1>5. ~Holds(c) /\ Holds(c)' => Cardinality(Holders') = Cardinality(Holders) + 1
  <2>1. ~Holds(c) /\ Holds(c)' => c \notin Holders /\ Holders' = Holders \cup {c}
    BY <1>1, <1>2
  <2>. QED
    BY <1>3, <2>1, FS_AddElement
<1>6. Holds(c) => Cardinality(Holders \ {c}) = Cardinality(Holders) - 1 /\ Cardinality(Holders) >= 1
  <2>1. Holds(c) => c \in Holders
    BY <1>1
  <2>2. c \in Holders => Cardinality(Holders \ {c}) = Cardinality(Holders) - 1
    BY <1>3, FS_RemoveElement
  <2>3. Cardinality(Holders) = 0 => Holders = {}
    BY <1>3, FS_EmptySet
  <2>. QED
    BY <1>3, <2>1, <2>2, <2>3
<1>7. Holds(c) /\ ~Holds(c)' => Holders' = Holders \ {c}
  BY <1>1, <1>2
<1>8. inflight \in 0..MaxSpawns /\ inflight = Cardinality(Holders)
  BY DEF TypeOK, SlotsExact
<1>9. (Holds(c)' <=> Holds(c)) /\ inflight' = inflight => SlotsExact'
  BY <1>4, <1>8 DEF SlotsExact
<1>10. ~Holds(c) /\ Holds(c)' /\ inflight' = inflight + 1 => SlotsExact'
  BY <1>5, <1>8 DEF SlotsExact
<1>11. Holds(c) /\ ~Holds(c)' /\ inflight' = inflight - 1 => SlotsExact'
  BY <1>6, <1>7, <1>8 DEF SlotsExact
<1>12. Holds(c) => inflight - 1 \in 0..MaxSpawns
  BY <1>6, <1>8
<1>. QED
  BY <1>9, <1>10, <1>11, <1>12

-----------------------------------------------------------------------------
(* The steps of a call.                                                     *)

CallRec == [op : {"none", "open", "release", "run"}, kind : Kinds \cup {None},
            pc : {"none", "check", "running", "register", "store", "open",
                  "lookup", "detach", "over"},
            of : Numbers \cup {0}, from : Conns \cup {None},
            feed : {"off", "on", "exited", "ended"}]

\* A call has its number and its connection.
LEMMA CallNames ==
    ASSUME NEW c \in Calls
    PROVE  c = <<c[1], c[2]>> /\ c[1] \in Conns /\ c[2] \in Numbers
  BY DEF Numbers

\* A step of a call that lists nothing keeps the invariant if it keeps what concerns it.
LEMMA QuietCall ==
    ASSUME BridgeInv, TypeOK', NEW c \in Calls, Own(c), CallFine(c)', ReleaseFine(c)', SlotsExact',
           listed' = listed, call[c].pc # "detach",
           call'[c].pc = "open" => call[c].pc = "open" /\ (call'[c].feed = "on" => call[c].feed = "on"),
           call'[c].op # "release" \/ call'[c].pc \notin {"detach", "over"} \/ Same(c)
    PROVE  BridgeInv'
<1>1. CallsFine' /\ ChecksStand' /\ HandlersFine' /\ RevokedDoomed'
  BY OwnKeeps
<1>2. ListedFine' /\ FeedsListed' /\ ReleasedUnlisted'
  BY ListsKeep
<1>. QED
  BY <1>1, <1>2 DEF BridgeInv

\* A step that only moves c.
LEMMA MovesOwn ==
    ASSUME BridgeInv, NEW c \in Calls, NEW r, call' = [call EXCEPT ![c] = r]
    PROVE  /\ call'[c] = r
           /\ \A b \in Calls \ {c} : Same(b)
  BY DEF BridgeInv, TypeOK, Same

\* An envelope arrives.
LEMMA BeginStep ==
    ASSUME BridgeInv, NEW c \in Calls, Begin(c)
    PROVE  BridgeInv'
<1>. USE DEF BridgeInv
<1>0. /\ TypeOK /\ CallFine(c) /\ call[c].pc = "none" /\ call[c].op = "none" /\ c \notin subs
      /\ conn[c[1]] = "open"
  BY DEF Begin, IsNext, At, CallsFine, CallFine
<1>1. PICK r \in CallRec :
         /\ call' = [call EXCEPT ![c] = r] /\ r.feed = "off" /\ r.from = None
         /\ \/ r.op = "open" /\ r.kind \in Kinds /\ r.pc = "check"
            \/ r.op = "run" /\ r.kind = "exec" /\ r.kind \in Kinds /\ r.pc = "check"
            \/ /\ r.op = "release" /\ r.pc = "lookup"
               /\ \E b \in Of(c[1]) : At(b, "open") /\ r.of = b[2] /\ r.kind = Kind(b)
  <2>1. CASE \E x \in Asks[c] :
                call' = [call EXCEPT ![c] = [NoCall EXCEPT !.op = "open", !.kind = x, !.pc = "check"]]
    <3>1. PICK x \in Kinds :
             call' = [call EXCEPT ![c] = [NoCall EXCEPT !.op = "open", !.kind = x, !.pc = "check"]]
      BY <2>1
    <3>. DEFINE r == [NoCall EXCEPT !.op = "open", !.kind = x, !.pc = "check"]
    <3>2. /\ r \in CallRec /\ r.op = "open" /\ r.kind = x /\ r.pc = "check"
          /\ r.feed = "off" /\ r.from = None
      BY DEF NoCall, CallRec
    <3>3. call' = [call EXCEPT ![c] = r]
      BY <3>1
    <3>. HIDE DEF r
    <3>. QED
      BY <3>2, <3>3
  <2>2. CASE \E b \in Of(c[1]) :
                /\ At(b, "open")
                /\ call' = [call EXCEPT ![c] = [NoCall EXCEPT !.op = "release", !.of = b[2],
                                                !.kind = Kind(b), !.pc = "lookup"]]
    <3>1. PICK b \in Of(c[1]) :
             /\ At(b, "open")
             /\ call' = [call EXCEPT ![c] = [NoCall EXCEPT !.op = "release", !.of = b[2],
                                             !.kind = Kind(b), !.pc = "lookup"]]
      BY <2>2
    <3>2. b \in Calls /\ b[2] \in Numbers /\ Kind(b) \in Kinds \cup {None}
      BY <1>0, CallNames DEF Of, TypeOK, Kind
    <3>. DEFINE r == [NoCall EXCEPT !.op = "release", !.of = b[2], !.kind = Kind(b), !.pc = "lookup"]
    <3>3. /\ r \in CallRec /\ r.op = "release" /\ r.kind = Kind(b) /\ r.pc = "lookup"
          /\ r.of = b[2] /\ r.feed = "off" /\ r.from = None
      BY <3>2 DEF NoCall, CallRec
    <3>4. call' = [call EXCEPT ![c] = r]
      BY <3>1
    <3>. HIDE DEF r
    <3>. QED
      BY <3>1, <3>3, <3>4
  <2>3. CASE /\ "exec" \in Asks[c]
             /\ call' = [call EXCEPT ![c] = [NoCall EXCEPT !.op = "run", !.kind = "exec",
                                                           !.pc = "check"]]
    <3>. DEFINE r == [NoCall EXCEPT !.op = "run", !.kind = "exec", !.pc = "check"]
    <3>1. "exec" \in Kinds
      BY <2>3
    <3>2. /\ r \in CallRec /\ r.op = "run" /\ r.kind = "exec" /\ r.pc = "check"
          /\ r.feed = "off" /\ r.from = None
      BY <3>1 DEF NoCall, CallRec
    <3>3. call' = [call EXCEPT ![c] = r]
      BY <2>3
    <3>. HIDE DEF r
    <3>. QED
      BY <3>1, <3>2, <3>3
  <2>. QED
    BY <2>1, <2>2, <2>3 DEF Begin
<1>2. /\ UNCHANGED <<consent, conn, registered, stalled, late, handler, changes, mingled, raced>>
      /\ UNCHANGED <<subs, done, listed, inflight>>
  BY DEF Begin, connVars, rowVars
<1>3. TypeOK'
  BY <1>0, <1>1, <1>2 DEF TypeOK, CallRec
<1>4. call'[c] = r /\ \A b \in Calls \ {c} : Same(b)
  BY <1>1, MovesOwn
<1>5. Own(c)
  BY <1>0, <1>1, <1>2, <1>4 DEF Own
<1>6. CallFine(c)'
  BY <1>0, <1>1, <1>2, <1>4 DEF CallFine, At, Kind
<1>7. ReleaseFine(c)'
  <2>1. CASE r.op # "release"
    BY <1>1, <1>4, <2>1 DEF ReleaseFine, At
  <2>2. CASE r.op = "release"
    <3>1. PICK b \in Of(c[1]) : At(b, "open") /\ r.of = b[2] /\ r.kind = Kind(b)
      BY <1>1, <2>2
    <3>2. b \in Calls /\ b = <<c[1], r.of>> /\ b # c
      BY <1>0, <3>1, CallNames DEF Of, At
    <3>3. Stream(b, Kind(b)) /\ Kind(b) \in Kinds /\ Same(b)
      BY <1>4, <3>1, <3>2 DEF Stream, CallsFine, CallFine, At
    <3>4. Stream(b, r.kind)'
      BY <3>1, <3>3 DEF Stream, Same, At, Kind
    <3>. QED
      BY <1>1, <1>4, <2>2, <3>1, <3>2, <3>3, <3>4 DEF ReleaseFine, At, Kind
  <2>. QED
    BY <2>1, <2>2
<1>8. SlotsExact'
  BY <1>0, <1>1, <1>2, <1>4, <1>5, SlotsStep DEF Holds, At
<1>. QED
  BY <1>0, <1>1, <1>2, <1>3, <1>4, <1>5, <1>6, <1>7, <1>8, QuietCall

\* Its capability is checked.
LEMMA CheckStep ==
    ASSUME BridgeInv, NEW c \in Calls, Check(c)
    PROVE  BridgeInv'
<1>. USE DEF BridgeInv
<1>0. /\ TypeOK /\ CallFine(c) /\ call[c].pc = "check" /\ c \notin subs
      /\ call[c].op \in {"open", "run"} /\ call[c].kind \in Kinds
      /\ call[c].op = "run" => call[c].kind = "exec"
  BY DEF Check, At, CallsFine, CallFine, Kind
<1>2. /\ UNCHANGED <<consent, conn, registered, stalled, late, handler, changes, mingled, raced>>
      /\ UNCHANGED <<subs, done, listed>>
  BY DEF Check, connVars, rowVars
<1>3. call[c] \in CallRec /\ ~Holds(c)
  BY <1>0 DEF TypeOK, CallRec, Holds, At
<1>4. PICK r \in CallRec :
         /\ call' = [call EXCEPT ![c] = r]
         /\ r.op = call[c].op
         /\ \/ /\ Granted(call[c].kind) /\ r.pc = IF r.op = "run" THEN "running" ELSE "register"
               /\ r.kind = call[c].kind /\ r.feed = call[c].feed
               /\ inflight' = IF call[c].kind = "exec" THEN inflight + 1 ELSE inflight
               /\ call[c].kind = "exec" => inflight < MaxSpawns
            \/ r.pc = "over" /\ r.kind = None /\ r.feed = "off" /\ inflight' = inflight
  <2>1. CASE Granted(Kind(c)) /\ (Kind(c) = "exec" => inflight < MaxSpawns)
    <3>. DEFINE r == [call[c] EXCEPT !.pc = IF call[c].op = "run" THEN "running" ELSE "register"]
    <3>1. call' = [call EXCEPT ![c] = r]
          /\ inflight' = IF call[c].kind = "exec" THEN inflight + 1 ELSE inflight
      BY <1>0, <2>1 DEF Check, Go, Kind, TypeOK
    <3>2. /\ r \in CallRec /\ r.op = call[c].op /\ r.kind = call[c].kind /\ r.feed = call[c].feed
          /\ r.pc = IF r.op = "run" THEN "running" ELSE "register"
      BY <1>3 DEF CallRec
    <3>. QED
      BY <2>1, <3>1, <3>2 DEF Kind
  <2>2. CASE ~(Granted(Kind(c)) /\ (Kind(c) = "exec" => inflight < MaxSpawns))
    <3>. DEFINE r == [NoCall EXCEPT !.op = call[c].op, !.pc = "over"]
    <3>1. call' = [call EXCEPT ![c] = r] /\ inflight' = inflight
      BY <2>2 DEF Check, Leave
    <3>2. r \in CallRec /\ r.op = call[c].op /\ r.pc = "over" /\ r.kind = None /\ r.feed = "off"
      BY <1>3 DEF CallRec, NoCall
    <3>. QED
      BY <3>1, <3>2
  <2>. QED
    BY <2>1, <2>2
<1>5. call'[c] = r /\ \A b \in Calls \ {c} : Same(b)
  BY <1>4, MovesOwn
<1>6. inflight' \in 0..MaxSpawns
  BY <1>0, <1>4 DEF TypeOK
<1>7. TypeOK'
  BY <1>0, <1>2, <1>4, <1>6 DEF TypeOK, CallRec
<1>8. Own(c)
  BY <1>0, <1>2, <1>4, <1>5 DEF Own
<1>9. CallFine(c)'
  BY <1>0, <1>2, <1>4, <1>5 DEF CallFine, At, Kind
<1>10. ReleaseFine(c)'
  BY <1>0, <1>4, <1>5 DEF ReleaseFine, At
<1>11. SlotsExact'
  BY <1>0, <1>3, <1>4, <1>5, <1>8, SlotsStep DEF Holds, At, Kind
<1>. QED
  BY <1>0, <1>2, <1>4, <1>5, <1>7, <1>8, <1>9, <1>10, <1>11, QuietCall

\* A command ends.
LEMMA RunEndsStep ==
    ASSUME BridgeInv, NEW c \in Calls, RunEnds(c)
    PROVE  BridgeInv'
<1>. USE DEF BridgeInv
<1>0. TypeOK /\ CallFine(c) /\ call[c].pc = "running" /\ c \notin subs /\ call[c].op = "run"
  BY DEF RunEnds, At, CallsFine, CallFine
<1>2. /\ UNCHANGED <<consent, conn, registered, stalled, late, handler, changes, mingled, raced>>
      /\ UNCHANGED <<subs, done, listed>> /\ inflight' = inflight - 1
  BY DEF RunEnds, connVars, rowVars
<1>. DEFINE r == [NoCall EXCEPT !.op = call[c].op, !.pc = "over"]
<1>3. /\ r \in CallRec /\ r.op = "run" /\ r.pc = "over" /\ r.kind = None /\ r.feed = "off"
      /\ call' = [call EXCEPT ![c] = r]
  BY <1>0 DEF RunEnds, Leave, CallRec, NoCall
<1>. HIDE DEF r
<1>4. call'[c] = r /\ \A b \in Calls \ {c} : Same(b)
  BY <1>3, MovesOwn
<1>5. Own(c)
  BY <1>0, <1>2, <1>3, <1>4 DEF Own
<1>6. Holds(c) /\ ~Holds(c)'
  BY <1>0, <1>3, <1>4 DEF Holds, At, Kind, CallFine
<1>7. SlotsExact' /\ inflight' \in 0..MaxSpawns
  BY <1>2, <1>5, <1>6, SlotsStep
<1>8. TypeOK'
  BY <1>0, <1>2, <1>3, <1>7 DEF TypeOK, CallRec
<1>9. CallFine(c)' /\ ReleaseFine(c)'
  BY <1>0, <1>2, <1>3, <1>4 DEF CallFine, ReleaseFine, At, Kind
<1>. QED
  BY <1>0, <1>2, <1>3, <1>4, <1>5, <1>7, <1>8, <1>9, QuietCall

\* A stream is registered, or its watcher or process does not start.
LEMMA RegisterStep ==
    ASSUME BridgeInv, NEW c \in Calls, Register(c)
    PROVE  BridgeInv'
<1>. USE DEF BridgeInv
<1>0. /\ TypeOK /\ CallFine(c) /\ call[c].pc = "register" /\ c \notin subs
      /\ call[c].op = "open" /\ call[c].kind \in Kinds /\ call[c] \in CallRec
  BY DEF Register, At, CallsFine, CallFine, Kind, TypeOK, CallRec
<1>2. UNCHANGED <<consent, conn, registered, stalled, late, handler, changes, mingled, raced, done, listed>>
  BY DEF Register, connVars, rowVars
<1>3. CASE /\ call' = [call EXCEPT ![c].pc = "store",
                                   ![c].feed = IF Kind(c) = "events" THEN @ ELSE "on"]
           /\ subs' = subs \cup {c} /\ UNCHANGED inflight
  <2>. DEFINE r == [call[c] EXCEPT !.pc = "store", !.feed = IF Kind(c) = "events" THEN @ ELSE "on"]
  <2>1. /\ r \in CallRec /\ r.op = "open" /\ r.pc = "store" /\ r.kind = call[c].kind
        /\ r.feed = IF r.kind = "events" THEN call[c].feed ELSE "on"
    BY <1>0 DEF CallRec, Kind
  <2>2. call' = [call EXCEPT ![c] = r]
    BY <1>0, <1>3 DEF TypeOK
  <2>. HIDE DEF r
  <2>3. call'[c] = r /\ \A b \in Calls \ {c} : Same(b)
    BY <2>2, MovesOwn
  <2>4. TypeOK'
    <3>1. call' \in [Calls -> CallRec]
      BY <1>0, <2>1, <2>2 DEF TypeOK, CallRec
    <3>2. subs' \subseteq Calls /\ inflight' \in 0..MaxSpawns
      BY <1>0, <1>3 DEF TypeOK
    <3>. QED
      BY <1>0, <1>2, <3>1, <3>2 DEF TypeOK, CallRec
  <2>5. Own(c)
    BY <1>0, <1>2, <1>3, <2>1, <2>3 DEF Own
  <2>6. CallFine(c)' /\ ReleaseFine(c)'
    BY <1>0, <1>2, <1>3, <2>1, <2>3 DEF CallFine, ReleaseFine, At, Kind
  <2>7. SlotsExact'
    BY <1>0, <1>3, <2>1, <2>3, <2>5, SlotsStep DEF Holds, At, Kind
  <2>. QED
    BY <1>0, <1>2, <2>1, <2>3, <2>4, <2>5, <2>6, <2>7, QuietCall
<1>4. CASE /\ Kind(c) # "events"
           /\ Leave(c) /\ UNCHANGED subs
           /\ inflight' = IF Kind(c) = "exec" THEN inflight - 1 ELSE inflight
  <2>. DEFINE r == [NoCall EXCEPT !.op = call[c].op, !.pc = "over"]
  <2>1. r \in CallRec /\ r.op = "open" /\ r.pc = "over" /\ r.kind = None /\ r.feed = "off"
    BY <1>0 DEF CallRec, NoCall
  <2>2. call' = [call EXCEPT ![c] = r]
    BY <1>4 DEF Leave
  <2>. HIDE DEF r
  <2>3. call'[c] = r /\ \A b \in Calls \ {c} : Same(b)
    BY <2>2, MovesOwn
  <2>5. Own(c)
    BY <1>0, <1>2, <1>4, <2>1, <2>3 DEF Own
  <2>6. CallFine(c)' /\ ReleaseFine(c)'
    BY <1>0, <1>2, <1>4, <2>1, <2>3 DEF CallFine, ReleaseFine, At, Kind
  <2>7. (Holds(c) <=> Kind(c) = "exec") /\ ~Holds(c)'
    BY <1>0, <2>1, <2>3 DEF Holds, At, Kind
  <2>8. SlotsExact' /\ inflight' \in 0..MaxSpawns
    <3>1. CASE Kind(c) = "exec"
      BY <1>4, <2>5, <2>7, <3>1, SlotsStep
    <3>2. CASE Kind(c) # "exec"
      BY <1>0, <1>4, <2>5, <2>7, <3>2, SlotsStep DEF TypeOK
    <3>. QED
      BY <3>1, <3>2
  <2>4. TypeOK'
    BY <1>0, <1>2, <1>4, <2>1, <2>2, <2>8 DEF TypeOK, CallRec
  <2>. QED
    BY <1>0, <1>2, <2>1, <2>3, <2>4, <2>5, <2>6, <2>8, QuietCall
<1>. QED
  BY <1>3, <1>4 DEF Register

\* A process exits,
LEMMA ProcessExitsStep ==
    ASSUME BridgeInv, NEW c \in Calls, ProcessExits(c)
    PROVE  BridgeInv'
<1>. USE DEF BridgeInv
<1>0. /\ TypeOK /\ CallFine(c) /\ call[c].pc = "open" /\ call[c].feed = "on" /\ call[c].kind = "exec"
      /\ call[c].op = "open" /\ call[c] \in CallRec
  BY DEF ProcessExits, At, CallsFine, CallFine, Kind, TypeOK, CallRec
<1>2. /\ UNCHANGED <<consent, conn, registered, stalled, late, handler, changes, mingled, raced>>
      /\ UNCHANGED <<subs, done, listed>> /\ inflight' = inflight - 1
  BY DEF ProcessExits, connVars, rowVars
<1>. DEFINE r == [call[c] EXCEPT !.feed = "exited"]
<1>3. /\ r \in CallRec /\ r.op = "open" /\ r.pc = "open" /\ r.kind = "exec" /\ r.feed = "exited"
      /\ call' = [call EXCEPT ![c] = r]
  BY <1>0 DEF ProcessExits, CallRec, TypeOK
<1>. HIDE DEF r
<1>4. call'[c] = r /\ \A b \in Calls \ {c} : Same(b)
  BY <1>3, MovesOwn
<1>5. Own(c)
  BY <1>0, <1>2, <1>3, <1>4 DEF Own
<1>6. Holds(c) /\ ~Holds(c)'
  BY <1>0, <1>3, <1>4 DEF Holds, At, Kind
<1>7. SlotsExact' /\ inflight' \in 0..MaxSpawns
  BY <1>2, <1>5, <1>6, SlotsStep
<1>8. TypeOK'
  BY <1>0, <1>2, <1>3, <1>7 DEF TypeOK, CallRec
<1>9. CallFine(c)' /\ ReleaseFine(c)'
  BY <1>0, <1>2, <1>3, <1>4 DEF CallFine, ReleaseFine, At, Kind
<1>. QED
  BY <1>0, <1>2, <1>3, <1>4, <1>5, <1>7, <1>8, <1>9, QuietCall

\* and its waiter ends the stream.
LEMMA WaiterEndsStep ==
    ASSUME BridgeInv, NEW c \in Calls, WaiterEnds(c)
    PROVE  BridgeInv'
<1>. USE DEF BridgeInv
<1>0. /\ TypeOK /\ CallFine(c) /\ call[c].feed = "exited" /\ call[c].pc = "open"
      /\ call[c].kind = "exec" /\ call[c].op = "open" /\ call[c] \in CallRec
  BY DEF WaiterEnds, At, CallsFine, CallFine, Kind, TypeOK, CallRec
<1>2. /\ UNCHANGED <<consent, conn, registered, stalled, late, handler, changes, mingled, raced>>
      /\ UNCHANGED <<inflight, listed>> /\ subs' = subs \ {c} /\ done' = done \cup {c}
  BY DEF WaiterEnds, connVars, rowVars
<1>. DEFINE r == [call[c] EXCEPT !.feed = "ended"]
<1>3. /\ r \in CallRec /\ r.op = "open" /\ r.pc = "open" /\ r.kind = "exec" /\ r.feed = "ended"
      /\ call' = [call EXCEPT ![c] = r]
  BY <1>0 DEF WaiterEnds, CallRec, TypeOK
<1>. HIDE DEF r
<1>4. call'[c] = r /\ \A b \in Calls \ {c} : Same(b)
  BY <1>3, MovesOwn
<1>5. Own(c)
  BY <1>0, <1>2, <1>3, <1>4 DEF Own
<1>6. SlotsExact'
  BY <1>0, <1>2, <1>3, <1>4, <1>5, SlotsStep DEF Holds, At, Kind
<1>7. TypeOK'
  BY <1>0, <1>2, <1>3 DEF TypeOK, CallRec
<1>8. CallFine(c)' /\ ReleaseFine(c)'
  BY <1>0, <1>2, <1>3, <1>4 DEF CallFine, ReleaseFine, At, Kind
<1>. QED
  BY <1>0, <1>2, <1>3, <1>4, <1>5, <1>6, <1>7, <1>8, QuietCall

\* One entry of a map of a namespace is written.
Lists(x, n, k) == listed' = [listed EXCEPT ![x][n] = k]
LEMMA ListsOne ==
    ASSUME TypeOK, NEW x \in Kinds, NEW n \in Numbers, NEW k \in Conns \cup {None}, Lists(x, n, k)
    PROVE  /\ listed'[x][n] = k
           /\ \A y \in Kinds, m \in Numbers : y # x \/ m # n => listed'[y][m] = listed[y][m]
           /\ listed' \in [Kinds -> [Numbers -> Conns \cup {None}]]
<1>1. listed \in [Kinds -> [Numbers -> Conns \cup {None}]]
  BY DEF TypeOK
<1>2. listed'[x] = [listed[x] EXCEPT ![n] = k] /\ \A y \in Kinds \ {x} : listed'[y] = listed[y]
  BY <1>1 DEF Lists
<1>3. listed[x] \in [Numbers -> Conns \cup {None}] /\ DOMAIN listed' = Kinds
  BY <1>1 DEF Lists
<1>4. listed' \in [Kinds -> [Numbers -> Conns \cup {None}]]
  BY <1>1 DEF Lists
<1>. QED
  BY <1>2, <1>3, <1>4

\* A fed stream of another call was fed before, and listed or about to be detached.
LEMMA OtherFeeds ==
    ASSUME BridgeInv, NEW c \in Calls, Own(c), call[c].pc # "detach", NEW b \in Calls, b # c,
           At(b, "open")', Kind(b)' # "exec", Sole(b)', call'[b].feed = "on"
    PROVE  /\ At(b, "open") /\ Kind(b)' = Kind(b) /\ Kind(b) \in Kinds /\ b[2] \in Numbers
           /\ \/ listed[Kind(b)][b[2]] = b[1]
              \/ \E d \in Calls : At(d, "detach")' /\ Target(d)' = b
<1>. USE DEF BridgeInv
<1>1. /\ At(b, "open") /\ Kind(b)' = Kind(b) /\ call[b].feed = "on" /\ Kind(b) \in Kinds
      /\ b[2] \in Numbers
  BY CallNames DEF Own, Same, At, Kind, CallsFine, CallFine
<1>2. Sole(b)
  <2>1. \A a \in Calls : Stream(a, Kind(b)) => At(a, "open")' /\ Kind(a)' = Kind(b)'
    BY <1>1, OwnStays DEF StreamsStay, Stream
  <2>. QED
    BY <2>1 DEF Sole, Stream
<1>3. \/ listed[Kind(b)][b[2]] = b[1]
      \/ \E d \in Calls : At(d, "detach") /\ Target(d) = b
  BY <1>1, <1>2 DEF FeedsListed
<1>4. \A d \in Calls : At(d, "detach") => At(d, "detach")' /\ Target(d)' = Target(d)
  BY DEF Own, Same, At, Target
<1>. QED
  BY <1>1, <1>3, <1>4

\* A stream is listed under its number.
LEMMA StoreStep ==
    ASSUME BridgeInv, NEW c \in Calls, Store(c)
    PROVE  BridgeInv'
<1>. USE DEF BridgeInv
<1>0. /\ TypeOK /\ CallFine(c) /\ call[c].pc = "store" /\ call[c].op = "open"
      /\ call[c].kind \in Kinds /\ call[c] \in CallRec /\ Kind(c) = call[c].kind
      /\ c \in subs \cup done
  BY DEF Store, At, CallsFine, CallFine, Kind, TypeOK, CallRec
<1>1. c = <<c[1], c[2]>> /\ c[1] \in Conns /\ c[2] \in Numbers
  BY CallNames
<1>2. /\ UNCHANGED <<consent, conn, registered, stalled, late, handler, changes, mingled, raced>>
      /\ UNCHANGED <<subs, done, inflight>>
      /\ listed' = [listed EXCEPT ![Kind(c)][c[2]] = c[1]]
  BY DEF Store, connVars, rowVars
<1>. DEFINE r == [call[c] EXCEPT !.pc = "open", !.feed = IF Kind(c) = "events" THEN "on" ELSE @]
<1>3. /\ r \in CallRec /\ r.op = "open" /\ r.pc = "open" /\ r.kind = call[c].kind
      /\ r.feed = IF call[c].kind = "events" THEN "on" ELSE call[c].feed
      /\ call' = [call EXCEPT ![c] = r]
  BY <1>0 DEF Store, CallRec, TypeOK
<1>. HIDE DEF r
<1>4. call'[c] = r /\ \A b \in Calls \ {c} : Same(b)
  BY <1>3, MovesOwn
<1>5. Own(c) /\ StreamsStay
  <2>1. Own(c)
    BY <1>0, <1>2, <1>3, <1>4 DEF Own
  <2>. QED
    BY <2>1, OwnStays
<1>6. SlotsExact'
  <2>1. Holds(c)' <=> Holds(c)
    BY <1>0, <1>3, <1>4 DEF Holds, At, Kind, CallFine
  <2>. QED
    BY <1>2, <1>5, <2>1, SlotsStep
<1>7. /\ listed'[Kind(c)][c[2]] = c[1]
      /\ \A x \in Kinds, n \in Numbers : x # Kind(c) \/ n # c[2] => listed'[x][n] = listed[x][n]
      /\ listed' \in [Kinds -> [Numbers -> Conns \cup {None}]]
  <2>. PICK x \in Kinds, n \in Numbers, k \in Conns \cup {None} : x = Kind(c) /\ n = c[2] /\ k = c[1]
    BY <1>0, <1>1
  <2>1. Lists(x, n, k)
    BY <1>2 DEF Lists
  <2>2. /\ listed'[x][n] = k
        /\ \A y \in Kinds, m \in Numbers : y # x \/ m # n => listed'[y][m] = listed[y][m]
        /\ listed' \in [Kinds -> [Numbers -> Conns \cup {None}]]
    BY <1>0, <2>1, ListsOne
  <2>. QED
    BY <2>2
<1>8. TypeOK'
  BY <1>0, <1>2, <1>3, <1>7 DEF TypeOK, CallRec
<1>9. CallFine(c)' /\ ReleaseFine(c)'
  BY <1>0, <1>2, <1>3, <1>4 DEF CallFine, ReleaseFine, At, Kind
<1>10. Stream(c, Kind(c))' /\ Kind(c)' = Kind(c)
  BY <1>0, <1>3, <1>4 DEF Stream, At, Kind
<1>11. ListedFine'
  <2>. SUFFICES ASSUME NEW x \in Kinds, NEW n \in Numbers, listed'[x][n] # None
                PROVE  Stream(<<listed[x][n], n>>, x)'
    BY DEF ListedFine
  <2>1. CASE x = Kind(c) /\ n = c[2]
    BY <1>1, <1>7, <1>10, <2>1 DEF Stream
  <2>2. CASE x # Kind(c) \/ n # c[2]
    <3>1. listed'[x][n] = listed[x][n] /\ Stream(<<listed[x][n], n>>, x)
      BY <1>7, <2>2 DEF ListedFine
    <3>. QED
      BY <1>5, <3>1 DEF StreamsStay, Stream, At, Kind
  <2>. QED
    BY <2>1, <2>2
<1>12. FeedsListed'
  <2>. SUFFICES ASSUME NEW b \in Calls, At(b, "open")', Kind(b)' # "exec", Sole(b)',
                       call'[b].feed = "on"
                PROVE  \/ listed'[Kind(b)'][b[2]] = b[1]
                       \/ \E d \in Calls : At(d, "detach")' /\ Target(d)' = b
    BY DEF FeedsListed
  <2>1. CASE b = c
    BY <1>7, <1>10, <2>1
  <2>2. CASE b # c
    <3>1. /\ Kind(b)' = Kind(b) /\ Kind(b) \in Kinds /\ b[2] \in Numbers
          /\ \/ listed[Kind(b)][b[2]] = b[1]
             \/ \E d \in Calls : At(d, "detach")' /\ Target(d)' = b
      BY <1>0, <1>5, <2>2, OtherFeeds
    <3>2. Kind(b) # Kind(c) \/ b[2] # c[2]
      BY <1>10, <2>2, <3>1 DEF Sole, Stream
    <3>3. listed'[Kind(b)][b[2]] = listed[Kind(b)][b[2]]
      BY <1>7, <3>1, <3>2
    <3>. QED
      BY <3>1, <3>3
  <2>. QED
    BY <2>1, <2>2
<1>13. ReleasedUnlisted'
  <2>. SUFFICES ASSUME NEW d \in Calls, call'[d].op = "release", Kind(d)' # "exec",
                       call'[d].pc \in {"detach", "over"}
                PROVE  listed'[Kind(d)'][call'[d].of] # d[1]
    BY DEF ReleasedUnlisted
  <2>1. /\ d # c /\ Same(d) /\ Kind(d)' = Kind(d) /\ Kind(d) \in Kinds
        /\ Stream(<<d[1], call[d].of>>, Kind(d))
    BY <1>3, <1>4 DEF CallsFine, ReleaseFine, Same, Kind
  <2>2. listed[Kind(d)][call[d].of] # d[1] /\ call'[d].of = call[d].of
    BY <2>1 DEF ReleasedUnlisted, Same, Kind
  <2>3. call[d].of \in Numbers
    BY <2>1, CallNames DEF Stream
  <2>4. CASE Kind(d) = Kind(c) /\ call[d].of = c[2] /\ d[1] = c[1]
    BY <1>0, <1>1, <2>1, <2>4 DEF Stream, At
  <2>5. CASE ~(Kind(d) = Kind(c) /\ call[d].of = c[2])
    <3>1. listed'[Kind(d)][call[d].of] = listed[Kind(d)][call[d].of]
      BY <1>7, <2>1, <2>3, <2>5
    <3>. QED
      BY <2>1, <2>2, <3>1
  <2>6. CASE Kind(d) = Kind(c) /\ call[d].of = c[2] /\ d[1] # c[1]
    BY <1>7, <2>1, <2>2, <2>6
  <2>. QED
    BY <2>4, <2>5, <2>6
<1>. QED
  BY <1>5, <1>6, <1>8, <1>9, <1>11, <1>12, <1>13, OwnKeeps

\* Taking an entry off a map leaves what the others list, and what is unlisted.
LEMMA UnlistKeeps ==
    ASSUME BridgeInv, NEW c \in Calls, Own(c),
           \A x \in Kinds, n \in Numbers : listed'[x][n] \in {listed[x][n], None}
    PROVE  /\ ListedFine'
           /\ \A d \in Calls \ {c} :
                 call'[d].op = "release" /\ Kind(d)' # "exec" /\ call'[d].pc \in {"detach", "over"} =>
                    listed'[Kind(d)'][call'[d].of] # d[1]
<1>. USE DEF BridgeInv
<1>1. ListedFine'
  <2>. SUFFICES ASSUME NEW x \in Kinds, NEW n \in Numbers, listed'[x][n] # None
                PROVE  Stream(<<listed[x][n], n>>, x)'
    BY DEF ListedFine
  <2>1. listed'[x][n] = listed[x][n] /\ Stream(<<listed[x][n], n>>, x)
    BY DEF ListedFine
  <2>. QED
    BY <2>1, OwnStays DEF StreamsStay, Stream, At, Kind
<1>2. ASSUME NEW d \in Calls \ {c}, call'[d].op = "release", Kind(d)' # "exec",
             call'[d].pc \in {"detach", "over"}
      PROVE  listed'[Kind(d)'][call'[d].of] # d[1]
  <2>1. /\ Same(d) /\ Kind(d)' = Kind(d) /\ Kind(d) \in Kinds /\ call'[d].of = call[d].of
        /\ Stream(<<d[1], call[d].of>>, Kind(d))
    BY <1>2 DEF Own, CallsFine, ReleaseFine, Same, Kind
  <2>2. listed[Kind(d)][call[d].of] # d[1]
    BY <1>2, <2>1 DEF ReleasedUnlisted, Same, Kind
  <2>3. call[d].of \in Numbers /\ d[1] # None
    BY <2>1, CallNames DEF Stream
  <2>4. listed'[Kind(d)][call[d].of] \in {listed[Kind(d)][call[d].of], None}
    BY <2>1, <2>3
  <2>5. listed'[Kind(d)][call[d].of] # d[1]
    BY <2>2, <2>3, <2>4
  <2>. QED
    BY <2>1, <2>5
<1>. QED
  BY <1>1, <1>2

\* The goroutine that feeds a stream stops and takes it off the map.
LEMMA PumpEndsStep ==
    ASSUME BridgeInv, NEW c \in Calls, PumpEnds(c)
    PROVE  BridgeInv'
<1>. USE DEF BridgeInv
<1>0. /\ TypeOK /\ CallFine(c) /\ ReleaseFine(c) /\ call[c].pc = "open" /\ call[c].op = "open"
      /\ call[c].kind \in Kinds /\ call[c].kind # "exec" /\ call[c] \in CallRec
      /\ Kind(c) = call[c].kind /\ c \in subs \cup done
  BY DEF PumpEnds, At, CallsFine, CallFine, Kind, TypeOK, CallRec
<1>1. c[2] \in Numbers
  BY CallNames
<1>2. /\ UNCHANGED <<consent, conn, registered, stalled, late, handler, changes, mingled, raced>>
      /\ UNCHANGED <<subs, done, inflight>> /\ Lists(Kind(c), c[2], None)
  BY DEF PumpEnds, connVars, rowVars, Lists
<1>. DEFINE r == [call[c] EXCEPT !.feed = "ended"]
<1>3. /\ r \in CallRec /\ r.op = "open" /\ r.pc = "open" /\ r.kind = call[c].kind /\ r.feed = "ended"
      /\ call' = [call EXCEPT ![c] = r]
  BY <1>0 DEF PumpEnds, CallRec, TypeOK
<1>. HIDE DEF r
<1>4. call'[c] = r /\ \A b \in Calls \ {c} : Same(b)
  BY <1>3, MovesOwn
<1>5. Own(c)
  BY <1>0, <1>2, <1>3, <1>4 DEF Own
<1>6. SlotsExact'
  <2>1. Holds(c)' <=> Holds(c)
    BY <1>0, <1>3, <1>4 DEF Holds, Kind
  <2>. QED
    BY <1>2, <1>5, <2>1, SlotsStep
<1>7. /\ listed'[Kind(c)][c[2]] = None
      /\ \A x \in Kinds, n \in Numbers : x # Kind(c) \/ n # c[2] => listed'[x][n] = listed[x][n]
      /\ listed' \in [Kinds -> [Numbers -> Conns \cup {None}]]
  <2>. PICK x \in Kinds, n \in Numbers, k \in Conns \cup {None} : x = Kind(c) /\ n = c[2] /\ k = None
    BY <1>0, <1>1
  <2>1. Lists(x, n, k)
    BY <1>2 DEF Lists
  <2>. QED
    BY <1>0, <2>1, ListsOne
<1>8. TypeOK'
  BY <1>0, <1>2, <1>3, <1>7 DEF TypeOK, CallRec
<1>9. CallFine(c)' /\ ReleaseFine(c)'
  BY <1>0, <1>2, <1>3, <1>4 DEF CallFine, ReleaseFine, At, Kind
<1>10. Stream(c, Kind(c))' /\ Kind(c)' = Kind(c)
  BY <1>0, <1>3, <1>4 DEF Stream, At, Kind
<1>11. \A x \in Kinds, n \in Numbers : listed'[x][n] \in {listed[x][n], None}
  <2>. TAKE x \in Kinds, n \in Numbers
  <2>. QED
    BY <1>7
<1>12. FeedsListed'
  <2>. SUFFICES ASSUME NEW b \in Calls, At(b, "open")', Kind(b)' # "exec", Sole(b)',
                       call'[b].feed = "on"
                PROVE  \/ listed'[Kind(b)'][b[2]] = b[1]
                       \/ \E d \in Calls : At(d, "detach")' /\ Target(d)' = b
    BY DEF FeedsListed
  <2>1. b # c
    BY <1>3, <1>4
  <2>2. /\ Kind(b)' = Kind(b) /\ Kind(b) \in Kinds /\ b[2] \in Numbers
        /\ \/ listed[Kind(b)][b[2]] = b[1]
           \/ \E d \in Calls : At(d, "detach")' /\ Target(d)' = b
    BY <1>0, <1>5, <2>1, OtherFeeds
  <2>3. Kind(b) # Kind(c) \/ b[2] # c[2]
    BY <1>10, <2>1, <2>2 DEF Sole, Stream
  <2>4. listed'[Kind(b)][b[2]] = listed[Kind(b)][b[2]]
    BY <1>7, <2>2, <2>3
  <2>. QED
    BY <2>2, <2>4
<1>13. ListedFine' /\ ReleasedUnlisted'
  BY <1>3, <1>4, <1>5, <1>11, UnlistKeeps DEF ReleasedUnlisted
<1>. QED
  BY <1>5, <1>6, <1>8, <1>9, <1>12, <1>13, OwnKeeps

\* A release looks its stream up.
LEMMA LookupStep ==
    ASSUME BridgeInv, NEW c \in Calls, Lookup(c)
    PROVE  BridgeInv'
<1>. USE DEF BridgeInv
<1>. DEFINE n == call[c].of
            k == listed[Kind(c)][n]
<1>0. /\ TypeOK /\ CallFine(c) /\ call[c].pc = "lookup" /\ call[c].op = "release" /\ c \notin subs
      /\ call[c].kind \in Kinds /\ call[c] \in CallRec /\ Kind(c) = call[c].kind
      /\ Stream(<<c[1], n>>, Kind(c))
  BY DEF Lookup, At, CallsFine, CallFine, ReleaseFine, Kind, TypeOK, CallRec
<1>1. n \in Numbers /\ c[1] \in Conns /\ k \in Conns \cup {None}
  <2>1. <<c[1], n>> \in Calls /\ c[1] \in Conns
    BY <1>0, CallNames DEF Stream
  <2>2. n \in Numbers
    <3>. PICK b \in Calls : b = <<c[1], n>>
      BY <2>1
    <3>1. b[2] = n
      OBVIOUS
    <3>. QED
      BY <3>1, CallNames
  <2>3. listed[Kind(c)] \in [Numbers -> Conns \cup {None}]
    BY <1>0 DEF TypeOK
  <2>. QED
    BY <2>1, <2>2, <2>3
<1>2. /\ UNCHANGED <<consent, conn, registered, stalled, late, handler, changes, mingled, raced>>
      /\ UNCHANGED <<subs, done, inflight>>
      /\ IF Kind(c) = "exec" THEN listed' = listed ELSE Lists(Kind(c), n, None)
  BY DEF Lookup, connVars, rowVars, Lists
<1>. DEFINE r == [call[c] EXCEPT !.from = k, !.pc = IF k = None THEN "over" ELSE "detach"]
<1>3. /\ r \in CallRec /\ r.op = "release" /\ r.pc = IF k = None THEN "over" ELSE "detach"
      /\ r.kind = call[c].kind /\ r.feed = call[c].feed /\ r.of = n /\ r.from = k
      /\ call' = [call EXCEPT ![c] = r]
  BY <1>0, <1>1 DEF Lookup, CallRec, TypeOK
<1>. HIDE DEF r
<1>4. call'[c] = r /\ \A b \in Calls \ {c} : Same(b)
  BY <1>3, MovesOwn
<1>5. Own(c) /\ StreamsStay
  <2>1. Own(c)
    BY <1>0, <1>2, <1>3, <1>4 DEF Own
  <2>. QED
    BY <2>1, OwnStays
<1>6. SlotsExact'
  <2>1. Holds(c)' <=> Holds(c)
    BY <1>0, <1>3, <1>4 DEF Holds, At, Kind
  <2>. QED
    BY <1>2, <1>5, <2>1, SlotsStep
<1>7. /\ Kind(c) # "exec" => listed'[Kind(c)][n] = None
      /\ \A x \in Kinds, m \in Numbers : x # Kind(c) \/ m # n => listed'[x][m] = listed[x][m]
      /\ listed' \in [Kinds -> [Numbers -> Conns \cup {None}]]
      /\ Kind(c) = "exec" => listed' = listed
  <2>1. CASE Kind(c) = "exec"
    BY <1>0, <1>2, <2>1 DEF TypeOK
  <2>2. CASE Kind(c) # "exec"
    <3>. PICK x \in Kinds, m \in Numbers, v \in Conns \cup {None} :
            x = Kind(c) /\ m = n /\ v = None
      BY <1>0, <1>1
    <3>1. Lists(x, m, v)
      BY <1>2, <2>2 DEF Lists
    <3>. QED
      BY <1>0, <2>2, <3>1, ListsOne
  <2>. QED
    BY <2>1, <2>2
<1>8. TypeOK'
  BY <1>0, <1>2, <1>3, <1>7 DEF TypeOK, CallRec
<1>9. CallFine(c)'
  BY <1>0, <1>2, <1>3, <1>4 DEF CallFine, At, Kind
<1>10. ReleaseFine(c)'
  <2>1. Kind(c)' = Kind(c) /\ call'[c].of = n /\ Stream(<<c[1], n>>, Kind(c))'
    BY <1>0, <1>3, <1>4, <1>5 DEF StreamsStay, Stream, At, Kind
  <2>2. CASE k = None
    BY <1>0, <1>3, <1>4, <2>1, <2>2 DEF ReleaseFine, At
  <2>3. CASE k # None
    <3>. PICK x \in Kinds, m \in Numbers, v \in Conns : x = Kind(c) /\ m = n /\ v = k
      BY <1>0, <1>1, <2>3
    <3>1. Stream(<<v, m>>, x)
      <4>1. listed[x][m] = v /\ v # None
        BY <2>3
      <4>. QED
        BY <4>1 DEF ListedFine
    <3>2. Stream(<<v, m>>, x)'
      BY <1>5, <3>1 DEF StreamsStay, Stream
    <3>3. Target(c)' = <<v, m>> /\ Kind(c)' = x
      BY <1>3, <1>4, <2>1 DEF Target
    <3>4. Stream(Target(c), Kind(c))'
      BY <3>2, <3>3 DEF Stream, At, Kind, Target
    <3>. QED
      BY <1>0, <2>1, <3>3, <3>4 DEF ReleaseFine
  <2>. QED
    BY <2>2, <2>3
<1>11. \A x \in Kinds, m \in Numbers : listed'[x][m] \in {listed[x][m], None}
  <2>. TAKE x \in Kinds, m \in Numbers
  <2>. QED
    BY <1>7
<1>12. FeedsListed'
  <2>. SUFFICES ASSUME NEW b \in Calls, At(b, "open")', Kind(b)' # "exec", Sole(b)',
                       call'[b].feed = "on"
                PROVE  \/ listed'[Kind(b)'][b[2]] = b[1]
                       \/ \E d \in Calls : At(d, "detach")' /\ Target(d)' = b
    BY DEF FeedsListed
  <2>1. b # c
    BY <1>3, <1>4 DEF At
  <2>2. /\ Kind(b)' = Kind(b) /\ Kind(b) \in Kinds /\ b[2] \in Numbers
        /\ \/ listed[Kind(b)][b[2]] = b[1]
           \/ \E d \in Calls : At(d, "detach")' /\ Target(d)' = b
    BY <1>0, <1>5, <2>1, OtherFeeds
  <2>3. CASE Kind(b) # Kind(c) \/ b[2] # n
    <3>1. listed'[Kind(b)][b[2]] = listed[Kind(b)][b[2]]
      BY <1>7, <2>2, <2>3
    <3>. QED
      BY <2>2, <3>1
  <2>4. CASE Kind(b) = Kind(c) /\ b[2] = n /\ listed[Kind(b)][b[2]] = b[1]
    <3>1. k = b[1] /\ b[1] # None /\ b = <<b[1], b[2]>>
      BY <2>4, CallNames
    <3>2. At(c, "detach")' /\ Target(c)' = b
      BY <1>3, <1>4, <2>4, <3>1 DEF At, Target
    <3>. QED
      BY <3>2
  <2>. QED
    BY <2>2, <2>3, <2>4
<1>13. ListedFine' /\ ReleasedUnlisted'
  <2>1. Kind(c)' # "exec" => listed'[Kind(c)'][call'[c].of] # c[1]
    BY <1>0, <1>1, <1>3, <1>4, <1>7 DEF Kind
  <2>. QED
    BY <1>5, <1>11, <2>1, UnlistKeeps DEF ReleasedUnlisted
<1>. QED
  BY <1>5, <1>6, <1>8, <1>9, <1>10, <1>12, <1>13, OwnKeeps

\* A release stops the feed of its stream.
LEMMA DetachStep ==
    ASSUME BridgeInv, NEW c \in Calls, Detach(c)
    PROVE  BridgeInv'
<1>. USE DEF BridgeInv
<1>0. /\ TypeOK /\ CallFine(c) /\ ReleaseFine(c) /\ call[c].pc = "detach" /\ call[c].op = "release"
      /\ c \notin subs /\ call[c].kind \in Kinds /\ call[c] \in CallRec /\ Kind(c) = call[c].kind
      /\ call[c].feed # "exited" /\ Stream(Target(c), Kind(c)) /\ Stream(<<c[1], call[c].of>>, Kind(c))
  BY DEF Detach, At, CallsFine, CallFine, ReleaseFine, Kind, TypeOK, CallRec
<1>2. UNCHANGED <<consent, conn, registered, stalled, late, handler, changes, mingled, raced, listed, inflight>>
  BY DEF Detach, connVars, rowVars
<1>. PICK t \in Calls : t = Target(c)
  BY <1>0 DEF Stream
<1>3. t # c /\ call[t].pc = "open" /\ call[t].kind = Kind(c) /\ call[t] \in CallRec
  BY <1>0 DEF Stream, At, Kind, TypeOK, CallRec
<1>. DEFINE r == [call[c] EXCEPT !.pc = "over"]
            s == [call[t] EXCEPT !.feed = IF @ = "on" THEN "off" ELSE @]
<1>4. /\ r \in CallRec /\ r.pc = "over" /\ r.op = "release" /\ r.kind = call[c].kind
      /\ r.of = call[c].of /\ r.feed = call[c].feed
      /\ s \in CallRec /\ s.pc = "open" /\ s.op = call[t].op /\ s.kind = call[t].kind
      /\ s.of = call[t].of /\ s.from = call[t].from
      /\ s.feed = IF call[t].feed = "on" THEN "off" ELSE call[t].feed
  BY <1>0, <1>3 DEF CallRec
<1>5. /\ call' \in [Calls -> CallRec] /\ call'[c] = r
      /\ \A b \in Calls \ {c, t} : call'[b] = call[b]
      /\ Kind(c) = "exec" => call'[t] = call[t] /\ subs' = subs /\ done' = done
      /\ Kind(c) # "exec" => /\ call'[t] = s
                             /\ subs' = subs \ {t} /\ done' = done \cup ({t} \cap subs)
  <2>1. CASE Kind(c) = "exec"
    <3>1. call' = [call EXCEPT ![c] = r] /\ subs' = subs /\ done' = done
      BY <1>0, <2>1 DEF Detach, Go, TypeOK
    <3>. HIDE DEF r, s
    <3>. QED
      BY <1>0, <1>3, <1>4, <2>1, <3>1 DEF TypeOK, CallRec
  <2>2. CASE Kind(c) # "exec"
    <3>1. /\ call' = [call EXCEPT ![c].pc = "over", ![t].feed = IF @ = "on" THEN "off" ELSE @]
          /\ subs' = subs \ {t} /\ done' = done \cup ({t} \cap subs)
      BY <2>2 DEF Detach
    <3>2. call' = [call EXCEPT ![c] = r, ![t] = s]
      BY <1>0, <1>3, <3>1 DEF TypeOK
    <3>. HIDE DEF r, s
    <3>3. call \in [Calls -> CallRec]
      BY <1>0 DEF TypeOK, CallRec
    <3>4. call' \in [Calls -> CallRec]
      BY <1>4, <3>2, <3>3
    <3>5. /\ call'[c] = r /\ call'[t] = s
          /\ \A b \in Calls \ {c, t} : call'[b] = call[b]
      BY <1>3, <3>2, <3>3
    <3>. QED
      BY <2>2, <3>1, <3>4, <3>5
  <2>. QED
    BY <2>1, <2>2
<1>. HIDE DEF r, s
<1>6. \A b \in Calls \ {c} : Same(b)
  <2>. TAKE b \in Calls \ {c}
  <2>1. CASE b = t
    BY <1>3, <1>4, <1>5, <2>1 DEF Same
  <2>2. CASE b # t
    BY <1>5, <2>2 DEF Same
  <2>. QED
    BY <2>1, <2>2
<1>7. Own(c) /\ StreamsStay
  <2>1. subs \cup done \subseteq subs' \cup done' /\ subs' \subseteq subs
    BY <1>5
  <2>2. Own(c)
    BY <1>0, <1>2, <1>4, <1>5, <1>6, <2>1 DEF Own
  <2>. QED
    BY <2>2, OwnStays
<1>8. SlotsExact'
  <2>1. ~Holds(c) /\ ~Holds(c)'
    BY <1>0, <1>4, <1>5 DEF Holds, At
  <2>. QED
    BY <1>2, <1>7, <2>1, SlotsStep
<1>9. TypeOK'
  <2>1. subs' \subseteq Calls /\ done' \subseteq Calls
    BY <1>0, <1>5 DEF TypeOK
  <2>. QED
    BY <1>0, <1>2, <1>5, <2>1 DEF TypeOK, CallRec
<1>10. CallFine(c)'
  BY <1>0, <1>2, <1>4, <1>5, <1>7 DEF CallFine, At, Kind, Own
<1>11. ReleaseFine(c)'
  BY <1>0, <1>4, <1>5, <1>7 DEF ReleaseFine, StreamsStay, Stream, At, Kind
<1>12. ListedFine'
  BY <1>2, <1>7 DEF ListedFine, StreamsStay, Stream
<1>13. FeedsListed'
  <2>. SUFFICES ASSUME NEW b \in Calls, At(b, "open")', Kind(b)' # "exec", Sole(b)',
                       call'[b].feed = "on"
                PROVE  \/ listed[Kind(b)'][b[2]] = b[1]
                       \/ \E d \in Calls : At(d, "detach")' /\ Target(d)' = b
    BY <1>2 DEF FeedsListed
  <2>1. b # c /\ b # t
    <3>1. b # c
      BY <1>4, <1>5 DEF At
    <3>2. b # t
      BY <1>3, <1>4, <1>5, <3>1 DEF Kind
    <3>. QED
      BY <3>1, <3>2
  <2>2. At(b, "open") /\ Kind(b)' = Kind(b) /\ call[b].feed = "on" /\ Kind(b) \in Kinds
    BY <1>5, <2>1 DEF At, Kind, CallsFine, CallFine
  <2>3. Sole(b)
    <3>1. \A a \in Calls : Stream(a, Kind(b)) => At(a, "open")' /\ Kind(a)' = Kind(b)'
      BY <1>7, <2>2 DEF StreamsStay, Stream
    <3>. QED
      BY <3>1 DEF Sole, Stream
  <2>4. \/ listed[Kind(b)][b[2]] = b[1]
        \/ \E d \in Calls : At(d, "detach") /\ Target(d) = b
    BY <2>2, <2>3 DEF FeedsListed
  <2>5. \A d \in Calls \ {c} : At(d, "detach") => At(d, "detach")' /\ Target(d)' = Target(d)
    BY <1>6 DEF Same, At, Target
  <2>. QED
    BY <2>1, <2>2, <2>4, <2>5
<1>14. ReleasedUnlisted'
  BY <1>0, <1>2, <1>4, <1>5, <1>6 DEF ReleasedUnlisted, Same, Kind
<1>. QED
  BY <1>7, <1>8, <1>9, <1>10, <1>11, <1>12, <1>13, <1>14, OwnKeeps

-----------------------------------------------------------------------------
(* The steps of connections and handlers.                                   *)

\* What leaves the calls alone leaves what is known of them alone.
LEMMA CallsRest ==
    ASSUME BridgeInv, UNCHANGED <<listed, call, inflight>>,
           \A k \in Conns : conn[k] # "none" => conn'[k] # "none",
           subs' \subseteq subs, subs \cup done \subseteq subs' \cup done'
    PROVE  CallsFine' /\ ListedFine' /\ SlotsExact' /\ FeedsListed' /\ ReleasedUnlisted'
<1>. USE DEF BridgeInv
<1>1. CallsFine'
  <2>. SUFFICES ASSUME NEW c \in Calls PROVE CallFine(c)' /\ ReleaseFine(c)'
    BY DEF CallsFine
  <2>1. CallFine(c)'
    BY CallNames DEF CallsFine, CallFine, At, Kind
  <2>2. ReleaseFine(c)'
    BY DEF CallsFine, ReleaseFine, Stream, At, Kind, Target
  <2>. QED
    BY <2>1, <2>2
<1>2. ListedFine'
  BY DEF ListedFine, Stream, At, Kind
<1>3. SlotsExact'
  BY DEF SlotsExact, Holders, At, Kind
<1>4. FeedsListed'
  BY DEF FeedsListed, Sole, Stream, At, Kind, Target
<1>5. ReleasedUnlisted'
  BY DEF ReleasedUnlisted, Kind
<1>. QED
  BY <1>1, <1>2, <1>3, <1>4, <1>5

\* A connection is accepted, stalls, goes on, loses its reader or is closed.
LEMMA ConnectionStep ==
    ASSUME BridgeInv, NEW k \in Conns,
           Connect(k) \/ Stall(k) \/ Unstall(k) \/ ReaderEnds(k) \/ Close(k)
    PROVE  BridgeInv'
<1>. USE DEF BridgeInv
<1>1. UNCHANGED <<consent, handler, changes, mingled, raced, listed, call, inflight>>
  BY DEF Connect, Stall, Unstall, ReaderEnds, Close, rowVars, streamVars
<1>2. /\ TypeOK' /\ subs' \subseteq subs /\ subs \cup done \subseteq subs' \cup done'
      /\ \A i \in Conns : conn[i] # "none" => conn'[i] # "none"
      /\ \A i \in registered' : i \in registered \/ conn[i] = "none"
  <2>1. CASE Connect(k)
    BY <2>1 DEF Connect, TypeOK, rowVars, streamVars
  <2>2. CASE Stall(k) \/ Unstall(k)
    <3>1. UNCHANGED <<conn, registered, late, streamVars, rowVars>> /\ stalled' \subseteq Conns
      BY <2>2 DEF Stall, Unstall, TypeOK
    <3> QED
      BY <3>1 DEF TypeOK, rowVars, streamVars
  <2>3. CASE ReaderEnds(k)
    BY <2>3 DEF ReaderEnds, TypeOK, rowVars, streamVars
  <2>4. CASE Close(k)
    <3>1. late' \subseteq Calls
      BY <2>4 DEF Close, Opening, Of, TypeOK
    <3>. QED
      BY <2>4, <3>1 DEF Close, TypeOK, rowVars
  <2>. QED
    BY <2>1, <2>2, <2>3, <2>4
<1>3. CallsFine' /\ ListedFine' /\ SlotsExact' /\ FeedsListed' /\ ReleasedUnlisted'
  BY <1>1, <1>2, CallsRest
<1>4. ChecksStand' /\ HandlersFine'
  BY <1>1 DEF ChecksStand, HandlersFine, At, Granted, Kind
<1>5. RevokedDoomed'
  <2>. SUFFICES ASSUME ~mingled, NEW c \in subs \ raced, c[1] \in registered'
                PROVE  Granted(Kind(c)) \/ Doomed(c)
    BY <1>1, <1>2 DEF RevokedDoomed, Granted, Kind, Doomed
  <2>1. c \in Calls /\ CallFine(c)
    BY DEF TypeOK, CallsFine
  <2>2. c[1] \in registered
    BY <1>2, <2>1 DEF CallFine, At
  <2>. QED
    BY <2>2 DEF RevokedDoomed
<1>. QED
  BY <1>2, <1>3, <1>4, <1>5

HandlerRec == [pc : {"idle", "write", "invalidate"}, touched : SUBSET Kinds,
               perms : (SUBSET Kinds) \cup {NoRow}, at : SUBSET Conns]

\* A consent handler works out the row.
LEMMA LoadStep ==
    ASSUME BridgeInv, NEW h \in Handlers, Load(h)
    PROVE  BridgeInv'
<1>. USE DEF BridgeInv
<1>1. /\ UNCHANGED <<consent, conn, registered, stalled, late, subs, done, listed, call, inflight, raced>>
      /\ handler[h] = Idle /\ changes' = changes + 1 /\ changes < MaxChanges
      /\ mingled' = (mingled \/ \E g \in Handlers : handler[g] # Idle)
  BY DEF Load, connVars, streamVars
<1>2. PICK r \in HandlerRec :
         /\ handler' = [handler EXCEPT ![h] = r] /\ r.pc = "write"
         /\ \A x \in Kinds : Granted(x) /\ x \notin r.perms => x \in r.touched
  <2>0. consent \in (SUBSET Kinds) \cup {NoRow}
    BY DEF TypeOK
  <2>1. CASE /\ consent # NoRow
             /\ \E e \in Edits : handler' = [handler EXCEPT ![h] =
                   [pc |-> "write", touched |-> e.touched, perms |-> e.perms, at |-> {}]]
    <3>1. PICK e \in Edits : handler' = [handler EXCEPT ![h] =
                   [pc |-> "write", touched |-> e.touched, perms |-> e.perms, at |-> {}]]
      BY <2>1
    <3>2. PICK x \in Kinds : e.touched = {x} /\ (e.perms = consent \ {x} \/ e.perms = consent \cup {x})
      BY DEF Edits
    <3>. DEFINE r == [pc |-> "write", touched |-> e.touched, perms |-> e.perms, at |-> {}]
    <3>3. r \in HandlerRec /\ r.pc = "write" /\ r.touched = e.touched /\ r.perms = e.perms
      BY <2>0, <2>1, <3>2 DEF HandlerRec
    <3>4. handler' = [handler EXCEPT ![h] = r]
      BY <3>1
    <3>. HIDE DEF r
    <3>. QED
      BY <3>2, <3>3, <3>4 DEF Granted
  <2>2. CASE handler' = [handler EXCEPT ![h] = [pc |-> "write", touched |-> consent \cap Kinds,
                                                perms |-> NoRow, at |-> {}]]
    <3>. DEFINE r == [pc |-> "write", touched |-> consent \cap Kinds, perms |-> NoRow, at |-> {}]
    <3>1. r \in HandlerRec /\ r.pc = "write" /\ r.touched = consent \cap Kinds
      BY DEF HandlerRec
    <3>2. handler' = [handler EXCEPT ![h] = r]
      BY <2>2
    <3>. HIDE DEF r
    <3>. QED
      BY <3>1, <3>2 DEF Granted
  <2>. QED
    BY <2>1, <2>2 DEF Load
<1>3. handler'[h] = r /\ \A g \in Handlers \ {h} : handler'[g] = handler[g]
  BY <1>2 DEF TypeOK
<1>4. TypeOK'
  BY <1>1, <1>2 DEF TypeOK, HandlerRec
<1>5. CallsFine' /\ ListedFine' /\ SlotsExact' /\ FeedsListed' /\ ReleasedUnlisted'
  BY <1>1, CallsRest
<1>6. ChecksStand'
  BY <1>1 DEF ChecksStand, At, Granted, Kind
<1>7. HandlersFine'
  <2>. SUFFICES ASSUME ~mingled' PROVE
          /\ \A g, i \in Handlers : handler'[g] # Idle /\ handler'[i] # Idle => g = i
          /\ \A i \in Handlers : handler'[i].pc = "write" =>
                \A x \in Kinds : Granted(x) /\ x \notin handler'[i].perms => x \in handler'[i].touched
    BY <1>1 DEF HandlersFine, Granted
  <2>1. \A g \in Handlers \ {h} : handler'[g] = Idle
    BY <1>1, <1>3
  <2>2. Idle.pc # "write"
    BY DEF Idle
  <2>. QED
    BY <1>2, <1>3, <2>1, <2>2
<1>8. RevokedDoomed'
  <2>. SUFFICES ASSUME ~mingled', NEW c \in subs \ raced, c[1] \in registered
                PROVE  Granted(Kind(c))
    BY <1>1 DEF RevokedDoomed, Granted, Kind
  <2>1. \A g \in Handlers : handler[g].pc = "idle"
    <3>1. mingled' <=> mingled \/ \E g \in Handlers : handler[g] # Idle
      BY <1>1
    <3>2. \A g \in Handlers : handler[g] = Idle
      BY <3>1
    <3>. QED
      BY <3>2 DEF Idle
  <2>2. ~Doomed(c)
    BY <2>1 DEF Doomed
  <2>. QED
    BY <1>1, <2>2 DEF RevokedDoomed
<1>. QED
  BY <1>4, <1>5, <1>6, <1>7, <1>8

\* It writes the row.
LEMMA WriteRowStep ==
    ASSUME BridgeInv, NEW h \in Handlers, WriteRow(h)
    PROVE  BridgeInv'
<1>. USE DEF BridgeInv
<1>1. /\ UNCHANGED <<conn, registered, stalled, late, subs, done, listed, call, inflight, changes, mingled>>
      /\ handler[h].pc = "write" /\ handler[h] # Idle /\ handler[h] \in HandlerRec
  BY DEF WriteRow, connVars, Idle, TypeOK, HandlerRec
<1>2. CallsFine' /\ ListedFine' /\ SlotsExact' /\ FeedsListed' /\ ReleasedUnlisted'
  BY <1>1, CallsRest
<1>3. CASE consent = NoRow /\ handler[h].perms # NoRow
  <2>1. handler' = [handler EXCEPT ![h] = Idle] /\ UNCHANGED <<consent, raced>>
    BY <1>3 DEF WriteRow
  <2>2. /\ Idle \in HandlerRec /\ Idle.pc = "idle" /\ handler'[h] = Idle
        /\ \A g \in Handlers \ {h} : handler'[g] = handler[g]
    BY <2>1 DEF HandlerRec, Idle, TypeOK
  <2>3. TypeOK'
    BY <1>1, <2>1, <2>2 DEF TypeOK, HandlerRec
  <2>4. ChecksStand'
    BY <1>1, <2>1 DEF ChecksStand, At, Granted, Kind
  <2>5. HandlersFine'
    BY <1>1, <2>1, <2>2 DEF HandlersFine, Granted
  <2>6. RevokedDoomed'
    BY <1>1, <2>1, <2>2 DEF RevokedDoomed, Doomed, Granted, Kind
  <2>. QED
    BY <1>2, <2>3, <2>4, <2>5, <2>6
<1>4. CASE ~(consent = NoRow /\ handler[h].perms # NoRow)
  <2>. DEFINE r == [handler[h] EXCEPT !.pc = "invalidate", !.at = registered]
  <2>1. /\ consent' = handler[h].perms
        /\ raced' = raced \cup UNION {Unregistered(x) : x \in consent \ handler[h].perms}
        /\ handler' = [handler EXCEPT ![h] = r]
    BY <1>1, <1>4 DEF WriteRow, TypeOK
  <2>2. /\ r \in HandlerRec /\ r.pc = "invalidate" /\ r.at = registered
        /\ r.touched = handler[h].touched
    BY <1>1 DEF HandlerRec, TypeOK
  <2>. HIDE DEF r
  <2>3. handler'[h] = r /\ \A g \in Handlers \ {h} : handler'[g] = handler[g]
    BY <2>1 DEF TypeOK
  <2>4. TypeOK'
    <3>1. raced' \subseteq Calls
      BY <2>1 DEF TypeOK, Unregistered
    <3>. QED
      BY <1>1, <2>1, <2>2, <3>1 DEF TypeOK, HandlerRec
  <2>5. \A x \in Kinds : x \notin NoRow
    BY DEF NoRow
  <2>6. ChecksStand'
    <3>. SUFFICES ASSUME NEW c \in Calls \ raced', At(c, "register")
                  PROVE  Granted(Kind(c))'
      BY <1>1 DEF ChecksStand, At
    <3>1. c \notin raced /\ Granted(Kind(c)) /\ Kind(c) \in Kinds
      BY <2>1 DEF ChecksStand, CallsFine, CallFine, At
    <3>2. Kind(c) \in handler[h].perms
      <4>1. c \in Unregistered(Kind(c))
        BY DEF Unregistered
      <4>. QED
        BY <2>1, <3>1, <4>1 DEF Granted
    <3>. QED
      BY <1>1, <2>1, <2>5, <3>1, <3>2 DEF Granted, Kind
  <2>7. HandlersFine'
    BY <1>1, <2>2, <2>3 DEF HandlersFine, Idle
  <2>8. RevokedDoomed'
    <3>. SUFFICES ASSUME ~mingled, NEW c \in subs \ raced, c[1] \in registered
                  PROVE  Granted(Kind(c))' \/ Doomed(c)'
      BY <1>1, <2>1 DEF RevokedDoomed
    <3>1. c \in Calls /\ Kind(c) \in Kinds
      BY DEF TypeOK, CallsFine, CallFine, At
    <3>2. \A g \in Handlers \ {h} : handler[g].pc # "invalidate"
      BY <1>1 DEF HandlersFine, Idle
    <3>3. Granted(Kind(c))
      BY <1>1, <3>2 DEF RevokedDoomed, Doomed
    <3>4. CASE Kind(c) \in handler[h].perms
      BY <1>1, <2>1, <2>5, <3>1, <3>4 DEF Granted, Kind
    <3>5. CASE Kind(c) \notin handler[h].perms
      <4>1. Kind(c) \in handler[h].touched
        BY <1>1, <3>1, <3>3, <3>5 DEF HandlersFine
      <4>. QED
        BY <1>1, <2>2, <2>3, <4>1 DEF Doomed, Kind
    <3>. QED
      BY <3>4, <3>5
  <2>. QED
    BY <1>2, <2>4, <2>6, <2>7, <2>8
<1>. QED
  BY <1>3, <1>4

\* It invalidates the streams of one connection.
LEMMA InvalidateStep ==
    ASSUME BridgeInv, NEW h \in Handlers, NEW k \in Conns, Invalidate(h, k)
    PROVE  BridgeInv'
<1>. USE DEF BridgeInv
<1>. DEFINE r == [handler[h] EXCEPT !.at = @ \ {k}]
<1>1. /\ UNCHANGED <<consent, conn, registered, stalled, late, listed, call, inflight, changes, mingled, raced>>
      /\ handler[h].pc = "invalidate" /\ handler[h] # Idle /\ handler[h] \in HandlerRec
      /\ subs' = subs \ Hit(h, k) /\ done' = done \cup Hit(h, k)
      /\ handler' = [handler EXCEPT ![h] = r]
  BY DEF Invalidate, connVars, Idle, TypeOK, HandlerRec
<1>2. /\ r \in HandlerRec /\ r.pc = "invalidate" /\ r.at = handler[h].at \ {k}
      /\ r.touched = handler[h].touched
  BY <1>1 DEF HandlerRec
<1>. HIDE DEF r
<1>3. handler'[h] = r /\ \A g \in Handlers \ {h} : handler'[g] = handler[g]
  BY <1>1 DEF TypeOK
<1>4. Hit(h, k) \subseteq subs
  BY DEF Hit
<1>5. TypeOK'
  BY <1>1, <1>2, <1>4 DEF TypeOK, HandlerRec
<1>6. CallsFine' /\ ListedFine' /\ SlotsExact' /\ FeedsListed' /\ ReleasedUnlisted'
  BY <1>1, CallsRest
<1>7. ChecksStand'
  BY <1>1 DEF ChecksStand, At, Granted, Kind
<1>8. HandlersFine'
  BY <1>1, <1>2, <1>3 DEF HandlersFine, Granted, Idle
<1>9. RevokedDoomed'
  <2>. SUFFICES ASSUME ~mingled, NEW c \in subs \ raced, c \notin Hit(h, k), c[1] \in registered,
                       Doomed(c)
                PROVE  Doomed(c)'
    BY <1>1 DEF RevokedDoomed, Granted, Kind
  <2>1. PICK g \in Handlers : /\ handler[g].pc = "invalidate" /\ c[1] \in handler[g].at
                              /\ Kind(c) \in handler[g].touched
    BY DEF Doomed
  <2>2. CASE g # h
    BY <1>1, <1>3, <2>1, <2>2 DEF Doomed, Kind
  <2>3. CASE g = h
    <3>1. c[1] # k
      BY <2>1, <2>3 DEF Hit, Of, TypeOK
    <3>. QED
      BY <1>1, <1>2, <1>3, <2>1, <2>3, <3>1 DEF Doomed, Kind
  <2>. QED
    BY <2>2, <2>3
<1>. QED
  BY <1>5, <1>6, <1>7, <1>8, <1>9

\* It answers.
LEMMA AnswerStep ==
    ASSUME BridgeInv, NEW h \in Handlers, Answer(h)
    PROVE  BridgeInv'
<1>. USE DEF BridgeInv
<1>1. /\ UNCHANGED <<consent, conn, registered, stalled, late, subs, done, listed, call, inflight, changes>>
      /\ UNCHANGED <<mingled, raced>>
      /\ handler[h].at = {} /\ handler' = [handler EXCEPT ![h] = Idle]
  BY DEF Answer, connVars, streamVars
<1>2. /\ Idle \in HandlerRec /\ Idle.pc = "idle" /\ handler'[h] = Idle
      /\ \A g \in Handlers \ {h} : handler'[g] = handler[g]
  BY <1>1 DEF HandlerRec, Idle, TypeOK
<1>3. TypeOK'
  BY <1>1, <1>2 DEF TypeOK, HandlerRec
<1>4. CallsFine' /\ ListedFine' /\ SlotsExact' /\ FeedsListed' /\ ReleasedUnlisted'
  BY <1>1, CallsRest
<1>5. ChecksStand'
  BY <1>1 DEF ChecksStand, At, Granted, Kind
<1>6. HandlersFine'
  BY <1>1, <1>2 DEF HandlersFine, Granted
<1>7. RevokedDoomed'
  BY <1>1, <1>2 DEF RevokedDoomed, Doomed, Granted, Kind
<1>. QED
  BY <1>3, <1>4, <1>5, <1>6, <1>7

-----------------------------------------------------------------------------
(* The theorems.                                                            *)

LEMMA InitBridge == Init => BridgeInv
<1>. SUFFICES ASSUME Init PROVE BridgeInv
  OBVIOUS
<1>1. TypeOK
  <2>1. NoCall \in CallRec /\ Idle \in HandlerRec
    BY DEF NoCall, CallRec, Idle, HandlerRec
  <2>2. call \in [Calls -> CallRec] /\ handler \in [Handlers -> HandlerRec]
    BY <2>1 DEF Init
  <2>3. listed \in [Kinds -> [Numbers -> Conns \cup {None}]]
    BY DEF Init
  <2>4. inflight \in 0..MaxSpawns /\ changes \in 0..MaxChanges
    BY DEF Init
  <2>. QED
    BY <2>2, <2>3, <2>4 DEF Init, TypeOK, CallRec, HandlerRec
<1>2. CallsFine
  BY DEF Init, CallsFine, CallFine, ReleaseFine, NoCall, At, Kind
<1>3. ListedFine /\ FeedsListed /\ ReleasedUnlisted /\ ChecksStand
  BY DEF Init, ListedFine, FeedsListed, ReleasedUnlisted, ChecksStand, NoCall, At
<1>4. SlotsExact
  <2>1. Holders = {}
    BY DEF Init, Holders, NoCall, At, Kind
  <2>. QED
    BY <2>1, FS_EmptySet DEF Init, SlotsExact
<1>5. HandlersFine /\ RevokedDoomed
  BY DEF Init, HandlersFine, RevokedDoomed, Idle
<1>. QED
  BY <1>1, <1>2, <1>3, <1>4, <1>5 DEF BridgeInv

LEMMA NextBridge == BridgeInv /\ [Next]_vars => BridgeInv'
<1>. SUFFICES ASSUME BridgeInv, [Next]_vars PROVE BridgeInv'
  OBVIOUS
<1>1. ASSUME NEW c \in Calls, Serve(c) \/ Feed(c) PROVE BridgeInv'
  BY <1>1, CheckStep, RunEndsStep, RegisterStep, StoreStep, LookupStep, DetachStep,
     PumpEndsStep, ProcessExitsStep, WaiterEndsStep DEF Serve, Feed
<1>2. ASSUME NEW h \in Handlers, Change(h) PROVE BridgeInv'
  BY <1>2, WriteRowStep, AnswerStep, InvalidateStep DEF Change
<1>3. CASE UNCHANGED vars
  <2>1. /\ UNCHANGED <<listed, call, inflight, conn, subs, done, registered, consent, handler>>
        /\ UNCHANGED <<mingled, raced, changes, stalled, late>>
    BY <1>3 DEF vars, connVars, streamVars, rowVars
  <2>2. CallsFine' /\ ListedFine' /\ SlotsExact' /\ FeedsListed' /\ ReleasedUnlisted'
    BY <2>1, CallsRest
  <2>3. TypeOK'
    BY <2>1 DEF BridgeInv, TypeOK
  <2>4. ChecksStand' /\ HandlersFine' /\ RevokedDoomed'
    BY <2>1 DEF BridgeInv, ChecksStand, HandlersFine, RevokedDoomed, Doomed, Granted, At, Kind
  <2>. QED
    BY <2>2, <2>3, <2>4 DEF BridgeInv
<1>. QED
  BY <1>1, <1>2, <1>3, ConnectionStep, BeginStep, LoadStep DEF Next

LEMMA BridgeHolds == Spec => []BridgeInv
  BY InitBridge, NextBridge, PTL DEF Spec

\* The variables keep their types.
THEOREM TypeCorrect == Spec => []TypeOK
<1>1. BridgeInv => TypeOK
  BY DEF BridgeInv
<1>. QED
  BY <1>1, BridgeHolds, PTL

\* The slots of exec that are taken are those of the commands let in whose end has not
\* been noticed: no path through spawn, run and their failures loses or doubles one
\* (api_exec.go:241-263).
THEOREM SlotsHold == Spec => []SlotsExact
<1>1. BridgeInv => SlotsExact
  BY DEF BridgeInv
<1>. QED
  BY <1>1, BridgeHolds, PTL

\* A connection that is not closed is listed by the manager, and so is that of
\* every stream, present or to come, but for those that were late.
Reachable ==
    /\ \A k \in Conns : conn[k] \in {"open", "closing"} => k \in registered
    /\ \A c \in Calls \ late : IsOpening(c) \/ c \in subs => c[1] \in registered

\* A step of a call opens no connection, and only a call on its way to a stream
\* enters a registry.
LEMMA ReachableCall ==
    ASSUME Reachable, UNCHANGED <<conn, registered, late>>, NEW c \in Calls,
           \A b \in Calls \ {c} : call'[b].op = call[b].op /\ call'[b].pc = call[b].pc,
           IsOpening(c)' => c \in late \/ c[1] \in registered,
           c \in subs' => c \in subs \/ IsOpening(c),
           subs' \subseteq subs \cup {c}
    PROVE  Reachable'
  BY DEF Reachable, IsOpening

LEMMA ReachableStep == BridgeInv /\ Reachable /\ [Next]_vars => Reachable'
<1>. SUFFICES ASSUME BridgeInv, Reachable, [Next]_vars PROVE Reachable'
  OBVIOUS
<1>. USE DEF connVars, streamVars, rowVars
<1>0. TypeOK /\ subs \subseteq Calls
  BY DEF BridgeInv, TypeOK
<1>1. ASSUME NEW k \in Conns, Connect(k) \/ Stall(k) \/ Unstall(k) \/ ReaderEnds(k)
      PROVE  Reachable'
  <2>1. /\ UNCHANGED <<call, subs, late>> /\ registered \subseteq registered'
        /\ \A i \in Conns : conn'[i] \in {"open", "closing"} =>
              conn[i] \in {"open", "closing"} \/ i \in registered'
    BY <1>0, <1>1 DEF Connect, Stall, Unstall, ReaderEnds, TypeOK
  <2>. QED
    BY <2>1 DEF Reachable, IsOpening
<1>2. ASSUME NEW k \in Conns, Close(k) PROVE Reachable'
  <2>1. /\ UNCHANGED call /\ registered' = registered \ {k} /\ conn'[k] = "closed"
        /\ \A i \in Conns \ {k} : conn'[i] = conn[i]
        /\ subs' = subs \ Of(k) /\ late' = late \cup Opening(k)
    BY <1>0, <1>2 DEF Close, TypeOK
  <2>2. ASSUME NEW c \in Calls \ late', IsOpening(c)' \/ c \in subs' PROVE c[1] \in registered'
    <3>1. c \notin late /\ c \notin Opening(k) /\ (IsOpening(c) \/ c \in subs \ Of(k))
      BY <2>1, <2>2 DEF IsOpening
    <3>2. c[1] # k /\ c[1] \in registered
      BY <3>1 DEF Reachable, Opening, Of
    <3>. QED
      BY <2>1, <3>2
  <2>. QED
    BY <2>1, <2>2 DEF Reachable
<1>3. ASSUME NEW c \in Calls, Begin(c) PROVE Reachable'
  <2>1. /\ UNCHANGED <<conn, registered, late, subs>> /\ conn[c[1]] = "open"
        /\ \A b \in Calls \ {c} : call'[b] = call[b]
    BY <1>0, <1>3 DEF Begin, TypeOK
  <2>2. c[1] \in registered
    BY <2>1, BridgeAssumption DEF Reachable
  <2>. QED
    BY <2>1, <2>2, ReachableCall
<1>4. ASSUME NEW c \in Calls, Serve(c) \/ Feed(c) PROVE Reachable'
  <2>0. call \in [Calls -> CallRec] /\ call[c] \in CallRec
    BY <1>0 DEF TypeOK, CallRec
  <2>. DEFINE over == [NoCall EXCEPT !.op = call[c].op, !.pc = "over"]
  <2>a. over.op = call[c].op /\ over.pc = "over"
    BY DEF NoCall
  <2>1. CASE Register(c)
    <3>. DEFINE r == [call[c] EXCEPT !.pc = "store", !.feed = IF Kind(c) = "events" THEN @ ELSE "on"]
    <3>0. r.pc = "store"
      BY <2>0 DEF CallRec
    <3>1. /\ UNCHANGED <<conn, registered, late>> /\ subs' \subseteq subs \cup {c} /\ At(c, "register")
          /\ call' = [call EXCEPT ![c] = r] \/ call' = [call EXCEPT ![c] = over]
      BY <2>0, <2>1 DEF Register, Leave
    <3>. HIDE DEF r, over
    <3>2. call'[c].pc \in {"store", "over"} /\ \A b \in Calls \ {c} : call'[b] = call[b]
      BY <2>0, <2>a, <3>0, <3>1
    <3>3. IsOpening(c)
      BY <3>1 DEF BridgeInv, CallsFine, CallFine, IsOpening, At
    <3>. QED
      BY <3>1, <3>2, <3>3, ReachableCall DEF IsOpening
  <2>2. CASE Check(c)
    <3>. DEFINE r(pc) == [call[c] EXCEPT !.pc = pc]
    <3>0. r("running").op = call[c].op /\ r("register").op = call[c].op
      BY <2>0 DEF CallRec
    <3>1. /\ UNCHANGED <<conn, registered, late, subs>> /\ At(c, "check")
          /\ \/ call' = [call EXCEPT ![c] = r("running")]
             \/ call' = [call EXCEPT ![c] = r("register")]
             \/ call' = [call EXCEPT ![c] = over]
      BY <2>0, <2>2 DEF Check, Go, Leave
    <3>. HIDE DEF r, over
    <3>2. call'[c].op = call[c].op /\ \A b \in Calls \ {c} : call'[b] = call[b]
      BY <2>0, <2>a, <3>0, <3>1
    <3>3. IsOpening(c)' => c \in late \/ c[1] \in registered
      BY <3>1, <3>2 DEF IsOpening, At, Reachable
    <3>. QED
      BY <3>1, <3>2, <3>3, ReachableCall
  <2>3. CASE RunEnds(c)
    <3>1. UNCHANGED <<conn, registered, late, subs>> /\ call' = [call EXCEPT ![c] = over]
      BY <2>3 DEF RunEnds, Leave
    <3>. HIDE DEF over
    <3>2. call'[c].pc = "over" /\ \A b \in Calls \ {c} : call'[b] = call[b]
      BY <2>0, <2>a, <3>1
    <3>. QED
      BY <3>1, <3>2, ReachableCall DEF IsOpening
  <2>4. CASE Store(c)
    <3>. DEFINE r == [call[c] EXCEPT !.pc = "open", !.feed = IF Kind(c) = "events" THEN "on" ELSE @]
    <3>0. r.pc = "open"
      BY <2>0 DEF CallRec
    <3>1. UNCHANGED <<conn, registered, late, subs>> /\ call' = [call EXCEPT ![c] = r]
      BY <2>0, <2>4 DEF Store
    <3>. HIDE DEF r
    <3>2. call'[c].pc = "open" /\ \A b \in Calls \ {c} : call'[b] = call[b]
      BY <2>0, <3>0, <3>1
    <3>. QED
      BY <3>1, <3>2, ReachableCall DEF IsOpening
  <2>5. CASE Lookup(c)
    <3>. DEFINE k == listed[Kind(c)][call[c].of]
                r == [call[c] EXCEPT !.from = k, !.pc = IF k = None THEN "over" ELSE "detach"]
    <3>0. r.pc \in {"over", "detach"}
      BY <2>0 DEF CallRec
    <3>1. UNCHANGED <<conn, registered, late, subs>> /\ call' = [call EXCEPT ![c] = r]
      BY <2>0, <2>5 DEF Lookup
    <3>. HIDE DEF r
    <3>2. call'[c].pc \in {"over", "detach"} /\ \A b \in Calls \ {c} : call'[b] = call[b]
      BY <2>0, <3>0, <3>1
    <3>. QED
      BY <3>1, <3>2, ReachableCall DEF IsOpening
  <2>6. CASE Detach(c)
    <3>0. UNCHANGED <<conn, registered, late>> /\ subs' \subseteq subs
      BY <2>6 DEF Detach
    <3>1. call[c].pc = "detach" /\ call[c].op = "release"
      BY <2>6 DEF Detach, At, BridgeInv, CallsFine, CallFine
    <3>2. \A b \in Calls : call'[b].op = call[b].op /\ (b # c => call'[b].pc = call[b].pc)
      <4>1. CASE Kind(c) = "exec"
        BY <2>0, <2>6, <4>1 DEF Detach, Go, CallRec
      <4>2. CASE Kind(c) # "exec"
        <5>. PICK t : t = Target(c)
          OBVIOUS
        <5>1. call' = [call EXCEPT ![c].pc = "over", ![t].feed = IF @ = "on" THEN "off" ELSE @]
          BY <2>6, <4>2 DEF Detach
        <5>. QED
          BY <2>0, <5>1 DEF CallRec
      <4>. QED
        BY <4>1, <4>2
    <3>3. ~IsOpening(c)'
      BY <3>1, <3>2 DEF IsOpening
    <3>. QED
      BY <3>0, <3>2, <3>3, ReachableCall
  <2>7. CASE Feed(c)
    <3>1. UNCHANGED <<conn, registered, late>> /\ subs' \subseteq subs
      BY <2>7 DEF Feed, PumpEnds, ProcessExits, WaiterEnds
    <3>2. \A b \in Calls : call'[b].op = call[b].op /\ call'[b].pc = call[b].pc
      BY <2>0, <2>7 DEF Feed, PumpEnds, ProcessExits, WaiterEnds, CallRec
    <3>. QED
      BY <3>1, <3>2 DEF Reachable, IsOpening
  <2>. QED
    BY <1>4, <2>1, <2>2, <2>3, <2>4, <2>5, <2>6, <2>7 DEF Serve
<1>5. ASSUME NEW h \in Handlers, Load(h) \/ Change(h) PROVE Reachable'
  <2>1. UNCHANGED <<conn, registered, late, call>> /\ subs' \subseteq subs
    BY <1>5 DEF Load, Change, WriteRow, Answer, Invalidate
  <2>. QED
    BY <2>1 DEF Reachable, IsOpening
<1>6. CASE UNCHANGED vars
  BY <1>6 DEF vars, Reachable, IsOpening
<1>. QED
  BY <1>1, <1>2, <1>3, <1>4, <1>5, <1>6 DEF Next

\* What feeds an event or file stream is ended by Close and by revocations: its
\* stream is in the registry of a listed connection, or done, unless its call was
\* late (api_events.go:53-56, manager.go:188-224).
THEOREM FeedsEndable == Spec => []FeedsCanEnd
<1>1. Init => Reachable
  BY DEF Init, Reachable, IsOpening, NoCall
<1>2. BridgeInv /\ Reachable => FeedsCanEnd
  BY DEF BridgeInv, CallsFine, CallFine, FeedsCanEnd, Reachable, At
<1>. QED
  BY <1>1, <1>2, ReachableStep, BridgeHolds, PTL DEF Spec

\* A stream that was revoked or released stays ended (manager.go:320-344,
\* api_events.go:292-306).
THEOREM StreamsStayEnded == Spec => []EndedStreamsStayEnded
<1>1. ASSUME BridgeInv PROVE RevokedStreamsEnd
  <2>. SUFFICES ASSUME \A h \in Handlers : handler[h] = Idle, ~mingled,
                       NEW c \in subs \ raced, c[1] \in registered
                PROVE  Granted(Kind(c))
    BY DEF RevokedStreamsEnd
  <2>1. ~Doomed(c)
    BY DEF Doomed, Idle
  <2>. QED
    BY <1>1, <2>1 DEF BridgeInv, RevokedDoomed
<1>2. ASSUME BridgeInv PROVE ReleasedStaysReleased
  <2>. USE <1>2 DEF BridgeInv
  <2>. SUFFICES ASSUME NEW c \in Calls, NEW b, b = <<c[1], call[c].of>>,
                       call[c].op = "release", At(c, "over"), Kind(c) # "exec", Unshared(b),
                       ~\E d \in Calls : At(d, "detach") /\ Target(d) = b,
                       call[b].feed = "on"
                PROVE  FALSE
    BY DEF ReleasedStaysReleased
  <2>1. Stream(b, Kind(c)) /\ b[1] = c[1] /\ b[2] = call[c].of
    BY DEF CallsFine, ReleaseFine
  <2>2. Sole(b)
    BY DEF Sole, Stream, Unshared
  <2>3. listed[Kind(c)][call[c].of] = c[1]
    BY <2>1, <2>2 DEF FeedsListed, Stream
  <2>. QED
    BY <2>3 DEF ReleasedUnlisted, At
<1>3. BridgeInv => EndedStreamsStayEnded
  BY <1>1, <1>2 DEF EndedStreamsStayEnded
<1>. QED
  BY <1>3, BridgeHolds, PTL

=============================================================================
