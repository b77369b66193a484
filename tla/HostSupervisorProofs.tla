----------------------- MODULE HostSupervisorProofs -----------------------
(***************************************************************************)
(* Proofs about HostSupervisor, for any set of plugins, requests and       *)
(* sidecars.  The inductive invariant has one part that no run needs: a    *)
(* request uses, or is about to use, a healthy sidecar only while the map  *)
(* lists that sidecar for its plugin.                                      *)
(***************************************************************************)
EXTENDS HostSupervisor, TLAPS

UsedIsListed ==
    \A c \in Callers :
        /\ At(c, "call") /\ Healthy(caller[c].car)
              => sidecars[caller[c].plugin] = caller[c].car
        /\ At(c, "drop") /\ caller[c].use # None /\ Healthy(caller[c].use)
              => sidecars[caller[c].plugin] = caller[c].use

\* A request that is busy with a sidecar knows its plugin.
KnowsPlugin == \A c \in Callers : ~At(c, "idle") => caller[c].plugin # None

SupervisorInv ==
    /\ TypeOK
    /\ KnowsPlugin
    /\ EverySidecarHeld
    /\ UsedIsListed
    /\ NothingListedAfterStop

USE SupervisorAssumption

-----------------------------------------------------------------------------
\* Everything in the map is a sidecar, and everybody is where TypeOK says.
LEMMA InitInv == Init => SupervisorInv
<1> SUFFICES ASSUME Init PROVE SupervisorInv
  OBVIOUS
<1>1. TypeOK
  BY DEF Init, TypeOK, Car, Caller, NoCar, Idle
<1>2. KnowsPlugin /\ EverySidecarHeld /\ UsedIsListed /\ NothingListedAfterStop
  BY DEF Init, KnowsPlugin, EverySidecarHeld, UsedIsListed, NothingListedAfterStop,
         Healthy, At, NoCar, Idle
<1> QED
  BY <1>1, <1>2 DEF SupervisorInv

\* The end of a request keeps the types and makes no sidecar healthy.
LEMMA ReturnKeeps ==
    ASSUME TypeOK, NEW c \in Callers, Return(c, car)
    PROVE  /\ caller' \in [Callers -> Caller]
           /\ car' \in [Cars -> Car]
           /\ caller'[c] = Idle
           /\ \A d \in Callers : d # c => caller'[d] = caller[d]
           /\ \A s \in Cars : car'[s].life = car[s].life /\ car'[s].asked = car[s].asked
           /\ \A s \in Cars : ~car'[s].cut => ~car[s].cut
<1>1. /\ caller' \in [Callers -> Caller]
      /\ caller'[c] = Idle
      /\ \A d \in Callers : d # c => caller'[d] = caller[d]
  BY DEF TypeOK, Return, Caller, Idle
<1>2. ASSUME NEW s \in Cars
      PROVE  /\ car'[s] \in Car
             /\ car'[s].life = car[s].life /\ car'[s].asked = car[s].asked
             /\ ~car'[s].cut => ~car[s].cut
  <2>1. car[s] \in Car
    BY DEF TypeOK
  <2>2. CASE car[s].owner = c
    <3>1. car'[s] = [car[s] EXCEPT !.owner = None, !.cut = TRUE]
      BY <2>2 DEF Return
    <3> QED
      BY <2>1, <3>1 DEF Car
  <2>3. CASE car[s].owner # c
    <3>1. car'[s] = car[s]
      BY <2>3 DEF Return
    <3> QED
      BY <2>1, <3>1
  <2> QED
    BY <2>2, <2>3
<1>3. car' \in [Cars -> Car]
  BY <1>2 DEF Return
<1> QED
  BY <1>1, <1>2, <1>3

\* What Return does to the conjuncts of the invariant, the map being unchanged
\* and the request not holding a sidecar it is about to insert.
LEMMA ReturnStep ==
    ASSUME SupervisorInv, NEW c \in Callers, Return(c, car), ~At(c, "insert"),
           UNCHANGED <<sidecars, stopped, stopper>>
    PROVE  SupervisorInv'
<1> USE DEF SupervisorInv
<1>1. /\ caller' \in [Callers -> Caller]
      /\ car' \in [Cars -> Car]
      /\ caller'[c] = Idle
      /\ \A d \in Callers : d # c => caller'[d] = caller[d]
      /\ \A s \in Cars : car'[s].life = car[s].life /\ car'[s].asked = car[s].asked
      /\ \A s \in Cars : ~car'[s].cut => ~car[s].cut
  BY ReturnKeeps
<1>2. TypeOK'
  BY <1>1 DEF TypeOK, Idle
<1>3. \A s \in Cars : Healthy(s)' => Healthy(s)
  BY <1>1 DEF Healthy
<1>4. KnowsPlugin'
  BY <1>1 DEF KnowsPlugin, At, Idle
<1>5. EverySidecarHeld'
  BY <1>1, <1>3 DEF EverySidecarHeld, At
<1>6. UsedIsListed'
  <2> SUFFICES ASSUME NEW d \in Callers
               PROVE  /\ (At(d, "call") /\ Healthy(caller[d].car))'
                            => (sidecars[caller[d].plugin] = caller[d].car)'
                      /\ (At(d, "drop") /\ caller[d].use # None /\ Healthy(caller[d].use))'
                            => (sidecars[caller[d].plugin] = caller[d].use)'
    BY DEF UsedIsListed
  <2>1. CASE d = c
    BY <1>1, <2>1 DEF At, Idle
  <2>2. CASE d # c
    <3>1. caller'[d] = caller[d] /\ caller[d] \in Caller
      BY <1>1, <2>2 DEF TypeOK
    <3>2. At(d, "call") => caller[d].car \in Cars
      BY <3>1 DEF TypeOK, At, Caller
    <3>3. caller[d].use # None => caller[d].use \in Cars
      BY <3>1 DEF Caller
    <3> QED
      BY <3>1, <3>2, <3>3, <1>3 DEF UsedIsListed, At
  <2> QED
    BY <2>1, <2>2
<1>7. NothingListedAfterStop'
  BY DEF NothingListedAfterStop
<1> QED
  BY <1>2, <1>4, <1>5, <1>6, <1>7

-----------------------------------------------------------------------------
\* Steps that leave the requests and the map alone, and at most end a process.
LEMMA AgeStep ==
    ASSUME SupervisorInv, NEW s \in Cars, car[s].life = "up" \/ car[s].life = "dead",
           NEW life \in {"dead", "exited"}, Age(s, life),
           UNCHANGED <<sidecars, stopped, stopper, caller>>
    PROVE  SupervisorInv'
<1> USE DEF SupervisorInv
<1>1. /\ car' \in [Cars -> Car]
      /\ \A t \in Cars : Healthy(t)' => Healthy(t)
  <2>1. car[s] \in Car
    BY DEF TypeOK
  <2>2. car' = [car EXCEPT ![s] = [car[s] EXCEPT !.life = life]]
    BY DEF Age
  <2>3. [car[s] EXCEPT !.life = life] \in Car
    BY <2>1 DEF Car
  <2>4. car' \in [Cars -> Car]
    BY <2>2, <2>3 DEF TypeOK
  <2>5. car'[s].life # "up" /\ \A t \in Cars : t # s => car'[t] = car[t]
    BY <2>1, <2>2 DEF TypeOK, Car
  <2> QED
    BY <2>4, <2>5 DEF Healthy
<1>2. TypeOK'
  BY <1>1 DEF TypeOK
<1>3. KnowsPlugin' /\ NothingListedAfterStop'
  BY DEF KnowsPlugin, NothingListedAfterStop, At
<1>4. EverySidecarHeld'
  BY <1>1 DEF EverySidecarHeld, At
<1>5. UsedIsListed'
  <2> SUFFICES ASSUME NEW d \in Callers
               PROVE  /\ (At(d, "call") /\ Healthy(caller[d].car))'
                            => (sidecars[caller[d].plugin] = caller[d].car)'
                      /\ (At(d, "drop") /\ caller[d].use # None /\ Healthy(caller[d].use))'
                            => (sidecars[caller[d].plugin] = caller[d].use)'
    BY DEF UsedIsListed
  <2>1. caller[d] \in Caller
    BY DEF TypeOK
  <2>2. At(d, "call") => caller[d].car \in Cars
    BY <2>1 DEF TypeOK, At, Caller
  <2>3. caller[d].use # None => caller[d].use \in Cars
    BY <2>1 DEF Caller
  <2> QED
    BY <2>2, <2>3, <1>1 DEF UsedIsListed, At
<1> QED
  BY <1>2, <1>3, <1>4, <1>5

\* Ensure finds a living sidecar, or goes on to spawn one.
LEMMA EnsureBeginStep ==
    ASSUME SupervisorInv, NEW c \in Callers, EnsureBegin(c)
    PROVE  SupervisorInv'
<1> USE DEF SupervisorInv
<1>1. PICK p \in Plugins :
         caller' = [caller EXCEPT ![c] =
                       [Idle EXCEPT !.plugin = p,
                                    !.at = IF IsAlive(sidecars[p]) THEN "call" ELSE "spawn",
                                    !.car = IF IsAlive(sidecars[p]) THEN sidecars[p] ELSE None]]
  BY DEF EnsureBegin
<1>2. UNCHANGED <<sidecars, stopped, stopper, car>> /\ ~stopped /\ At(c, "idle")
  BY DEF EnsureBegin
<1>3. sidecars[p] \in Cars \cup {None}
  BY DEF TypeOK
<1>4. /\ caller'[c].plugin = p
      /\ caller'[c].use = None
      /\ caller'[c].at \in {"call", "spawn"}
      /\ caller'[c].at = "call" => caller'[c].car = sidecars[p] /\ sidecars[p] # None
      /\ caller'[c] \in Caller
  BY <1>1, <1>3 DEF TypeOK, Idle, IsAlive, Caller
<1>5. caller' \in [Callers -> Caller] /\ \A d \in Callers : d # c => caller'[d] = caller[d]
  BY <1>1, <1>4 DEF TypeOK
<1>6. TypeOK'
  BY <1>2, <1>4, <1>5 DEF TypeOK
<1>7. KnowsPlugin'
  BY <1>4, <1>5 DEF KnowsPlugin, At
<1>8. EverySidecarHeld'
  BY <1>2, <1>5 DEF EverySidecarHeld, Healthy, At
<1>9. UsedIsListed'
  BY <1>2, <1>4, <1>5 DEF UsedIsListed, Healthy, At
<1>10. NothingListedAfterStop'
  BY <1>2 DEF NothingListedAfterStop
<1> QED
  BY <1>6, <1>7, <1>8, <1>9, <1>10

\* A new sidecar is held by the request that spawned it, and by nobody else.
LEMMA SpawnStep ==
    ASSUME SupervisorInv, NEW c \in Callers, Spawn(c)
    PROVE  SupervisorInv'
<1> USE DEF SupervisorInv
<1>1. UNCHANGED <<sidecars, stopped, stopper>> /\ At(c, "spawn")
  BY DEF Spawn
<1>2. CASE Return(c, car)
  BY <1>1, <1>2, ReturnStep DEF At
<1>3. ASSUME NEW s \in Cars, Fresh(s),
             car' = [car EXCEPT ![s] = [NoCar EXCEPT !.plugin = caller[c].plugin,
                                                     !.owner = c, !.life = "up"]],
             caller' = [caller EXCEPT ![c].at = "insert", ![c].car = s]
      PROVE  SupervisorInv'
  <2>1. caller[c] \in Caller /\ caller[c].plugin # None /\ caller[c].at = "spawn"
    BY <1>1 DEF TypeOK, KnowsPlugin, At
  <2>2. caller' = [caller EXCEPT ![c] = [caller[c] EXCEPT !.at = "insert", !.car = s]]
    BY <1>3 DEF TypeOK
  <2>3. [caller[c] EXCEPT !.at = "insert", !.car = s] \in Caller
    BY <2>1 DEF Caller
  <2>4. /\ caller' \in [Callers -> Caller]
        /\ \A d \in Callers : d # c => caller'[d] = caller[d]
        /\ caller'[c].at = "insert" /\ caller'[c].car = s
        /\ caller'[c].plugin = caller[c].plugin
    BY <2>1, <2>2, <2>3 DEF TypeOK, Caller
  <2>5. /\ car' \in [Cars -> Car]
        /\ \A t \in Cars : t # s => car'[t] = car[t]
    BY <1>3, <2>1 DEF TypeOK, Car, NoCar, Caller
  <2>6. \A t \in Cars : t # s /\ Healthy(t)' => Healthy(t)
    BY <2>5 DEF Healthy
  <2>7. TypeOK'
    BY <1>1, <2>4, <2>5 DEF TypeOK
  <2>8. KnowsPlugin'
    BY <2>1, <2>4 DEF KnowsPlugin, At
  <2>9. EverySidecarHeld'
    <3> SUFFICES ASSUME NEW t \in Cars, Healthy(t)'
                 PROVE  \/ \E p \in Plugins : sidecars'[p] = t
                        \/ \E d \in Callers : At(d, "insert")' /\ caller'[d].car = t
      BY DEF EverySidecarHeld
    <3>1. CASE t = s
      BY <2>4, <3>1 DEF At
    <3>2. CASE t # s
      <4>1. \/ \E p \in Plugins : sidecars[p] = t
            \/ \E d \in Callers : At(d, "insert") /\ caller[d].car = t
        BY <3>2, <2>6 DEF EverySidecarHeld
      <4> QED
        BY <4>1, <1>1, <2>1, <2>4 DEF At
    <3> QED
      BY <3>1, <3>2
  <2>10. UsedIsListed'
    <3> SUFFICES ASSUME NEW d \in Callers
                 PROVE  /\ (At(d, "call") /\ Healthy(caller[d].car))'
                              => (sidecars[caller[d].plugin] = caller[d].car)'
                        /\ (At(d, "drop") /\ caller[d].use # None /\ Healthy(caller[d].use))'
                              => (sidecars[caller[d].plugin] = caller[d].use)'
      BY DEF UsedIsListed
    <3>1. CASE d = c
      BY <2>4, <3>1 DEF At
    <3>2. CASE d # c
      <4>1. caller'[d] = caller[d] /\ caller[d] \in Caller
        BY <2>4, <3>2 DEF TypeOK
      <4>2. caller[d].car # s /\ caller[d].use # s
        BY <1>3 DEF Fresh
      <4>3. At(d, "call") => caller[d].car \in Cars
        BY <4>1 DEF TypeOK, At, Caller
      <4>4. caller[d].use # None => caller[d].use \in Cars
        BY <4>1 DEF Caller
      <4> QED
        BY <1>1, <4>1, <4>2, <4>3, <4>4, <2>6 DEF UsedIsListed, At
    <3> QED
      BY <3>1, <3>2
  <2>11. NothingListedAfterStop'
    BY <1>1 DEF NothingListedAfterStop
  <2> QED
    BY <2>7, <2>8, <2>9, <2>10, <2>11
<1> QED
  BY <1>2, <1>3 DEF Spawn

\* The second look: the sidecar is listed, or it is asked to end.
LEMMA InsertStep ==
    ASSUME SupervisorInv, NEW c \in Callers, Insert(c)
    PROVE  SupervisorInv'
<1> USE DEF SupervisorInv
<1> DEFINE p == caller[c].plugin
           s == caller[c].car
<1>1. /\ caller[c] \in Caller /\ caller[c].at = "insert"
      /\ p \in Plugins /\ s \in Cars
      /\ UNCHANGED <<stopped, stopper>>
  BY DEF TypeOK, KnowsPlugin, At, Caller, Insert
<1>2. CASE stopped \/ IsAlive(sidecars[p])
  <2> DEFINE use == IF stopped THEN None ELSE sidecars[p]
  <2>1. /\ car' = [car EXCEPT ![s].asked = TRUE]
        /\ caller' = [caller EXCEPT ![c].at = "drop", ![c].use = use]
        /\ sidecars' = sidecars
    BY <1>2 DEF Insert
  <2>2. use \in Cars \cup {None}
    BY <1>1 DEF TypeOK
  <2> HIDE DEF use
  <2>3. caller' = [caller EXCEPT ![c] = [caller[c] EXCEPT !.at = "drop", !.use = use]]
    BY <2>1 DEF TypeOK
  <2>4. [caller[c] EXCEPT !.at = "drop", !.use = use] \in Caller
    BY <1>1, <2>2 DEF Caller
  <2>5. /\ caller' \in [Callers -> Caller]
        /\ \A d \in Callers : d # c => caller'[d] = caller[d]
        /\ caller'[c].at = "drop" /\ caller'[c].use = use
        /\ caller'[c].car = s /\ caller'[c].plugin = p
    BY <1>1, <2>3, <2>4 DEF TypeOK, Caller
  <2>6. car[s] \in Car /\ car' = [car EXCEPT ![s] = [car[s] EXCEPT !.asked = TRUE]]
    BY <1>1, <2>1 DEF TypeOK
  <2>7. [car[s] EXCEPT !.asked = TRUE] \in Car /\ [car[s] EXCEPT !.asked = TRUE].asked
    BY <2>6 DEF Car
  <2>8. /\ car' \in [Cars -> Car]
        /\ car'[s].asked
        /\ \A t \in Cars : t # s => car'[t] = car[t]
    BY <1>1, <2>6, <2>7 DEF TypeOK
  <2>9. \A t \in Cars : Healthy(t)' => t # s /\ Healthy(t)
    BY <2>8 DEF Healthy
  <2>10. TypeOK'
    BY <1>1, <2>1, <2>5, <2>8 DEF TypeOK
  <2>11. KnowsPlugin'
    BY <1>1, <2>5 DEF KnowsPlugin, At
  <2>12. EverySidecarHeld'
    <3> SUFFICES ASSUME NEW t \in Cars, Healthy(t)'
                 PROVE  \/ \E q \in Plugins : sidecars'[q] = t
                        \/ \E d \in Callers : At(d, "insert")' /\ caller'[d].car = t
      BY DEF EverySidecarHeld
    <3>1. \/ \E q \in Plugins : sidecars[q] = t
          \/ \E d \in Callers : At(d, "insert") /\ caller[d].car = t
      BY <2>9 DEF EverySidecarHeld
    <3> QED
      BY <3>1, <2>1, <2>5, <2>9 DEF At
  <2>13. UsedIsListed'
    <3> SUFFICES ASSUME NEW d \in Callers
                 PROVE  /\ (At(d, "call") /\ Healthy(caller[d].car))'
                              => (sidecars[caller[d].plugin] = caller[d].car)'
                        /\ (At(d, "drop") /\ caller[d].use # None /\ Healthy(caller[d].use))'
                              => (sidecars[caller[d].plugin] = caller[d].use)'
      BY DEF UsedIsListed
    <3>1. CASE d = c
      <4>1. use # None => use = sidecars[p]
        BY DEF use
      <4> QED
        BY <2>1, <2>5, <3>1, <4>1 DEF At
    <3>2. CASE d # c
      <4>1. caller'[d] = caller[d] /\ caller[d] \in Caller
        BY <2>5, <3>2 DEF TypeOK
      <4>2. At(d, "call") => caller[d].car \in Cars
        BY <4>1 DEF TypeOK, At, Caller
      <4>3. caller[d].use # None => caller[d].use \in Cars
        BY <4>1 DEF Caller
      <4> QED
        BY <2>1, <2>9, <4>1, <4>2, <4>3 DEF UsedIsListed, At
    <3> QED
      BY <3>1, <3>2
  <2>14. NothingListedAfterStop'
    BY <1>1, <2>1 DEF NothingListedAfterStop
  <2> QED
    BY <2>10, <2>11, <2>12, <2>13, <2>14
<1>3. CASE ~(stopped \/ IsAlive(sidecars[p]))
  <2>1. /\ sidecars' = [sidecars EXCEPT ![p] = s]
        /\ caller' = [caller EXCEPT ![c].at = "call"]
        /\ car' = car
    BY <1>3 DEF Insert, Move
  <2>2. caller' = [caller EXCEPT ![c] = [caller[c] EXCEPT !.at = "call"]]
    BY <2>1 DEF TypeOK
  <2>3. [caller[c] EXCEPT !.at = "call"] \in Caller
    BY <1>1 DEF Caller
  <2>4. /\ caller' \in [Callers -> Caller]
        /\ \A d \in Callers : d # c => caller'[d] = caller[d]
        /\ caller'[c].at = "call" /\ caller'[c].car = s /\ caller'[c].plugin = p
    BY <1>1, <2>2, <2>3 DEF TypeOK, Caller
  <2>5. /\ sidecars' \in [Plugins -> Cars \cup {None}]
        /\ sidecars'[p] = s
        /\ \A q \in Plugins : q # p => sidecars'[q] = sidecars[q]
    BY <1>1, <2>1 DEF TypeOK
  <2>6. \A t \in Cars : Healthy(t)' <=> Healthy(t)
    BY <2>1 DEF Healthy
  <2>7. \A t \in Cars : Healthy(t) => t # sidecars[p]
    BY <1>3, SupervisorAssumption DEF IsAlive, Healthy
  <2>8. TypeOK'
    BY <1>1, <2>1, <2>4, <2>5 DEF TypeOK
  <2>9. KnowsPlugin'
    BY <1>1, <2>4 DEF KnowsPlugin, At
  <2>10. EverySidecarHeld'
    <3> SUFFICES ASSUME NEW t \in Cars, Healthy(t)
                 PROVE  \/ \E q \in Plugins : sidecars'[q] = t
                        \/ \E d \in Callers : At(d, "insert")' /\ caller'[d].car = t
      BY <2>6 DEF EverySidecarHeld
    <3>1. \/ \E q \in Plugins : sidecars[q] = t
          \/ \E d \in Callers : At(d, "insert") /\ caller[d].car = t
      BY DEF EverySidecarHeld
    <3> QED
      BY <3>1, <1>1, <2>4, <2>5, <2>7 DEF At
  <2>11. UsedIsListed'
    <3> SUFFICES ASSUME NEW d \in Callers
                 PROVE  /\ (At(d, "call") /\ Healthy(caller[d].car))'
                              => (sidecars[caller[d].plugin] = caller[d].car)'
                        /\ (At(d, "drop") /\ caller[d].use # None /\ Healthy(caller[d].use))'
                              => (sidecars[caller[d].plugin] = caller[d].use)'
      BY DEF UsedIsListed
    <3>1. CASE d = c
      BY <2>4, <2>5, <3>1 DEF At
    <3>2. CASE d # c
      <4>1. caller'[d] = caller[d] /\ caller[d] \in Caller
        BY <2>4, <3>2 DEF TypeOK
      <4>2. At(d, "call") => caller[d].car \in Cars
        BY <4>1 DEF TypeOK, At, Caller
      <4>3. caller[d].use # None => caller[d].use \in Cars
        BY <4>1 DEF Caller
      <4>4. ~At(d, "idle") => caller[d].plugin \in Plugins
        BY <4>1 DEF KnowsPlugin, Caller
      <4> QED
        BY <2>5, <2>6, <2>7, <4>1, <4>2, <4>3, <4>4 DEF UsedIsListed, At
    <3> QED
      BY <3>1, <3>2
  <2>12. NothingListedAfterStop'
    BY <1>1, <1>3 DEF NothingListedAfterStop
  <2> QED
    BY <2>8, <2>9, <2>10, <2>11, <2>12
<1> QED
  BY <1>2, <1>3

\* A request whose own sidecar came too late goes on with the listed one.
LEMMA DropStep ==
    ASSUME SupervisorInv, NEW c \in Callers, Drop(c)
    PROVE  SupervisorInv'
<1> USE DEF SupervisorInv
<1>1. UNCHANGED <<sidecars, stopped, stopper>> /\ At(c, "drop")
  BY DEF Drop
<1>2. CASE caller[c].use = None
  BY <1>1, <1>2, ReturnStep DEF Drop, At
<1>3. CASE caller[c].use # None
  <2> DEFINE s == caller[c].use
             r == [caller[c] EXCEPT !.at = "call", !.car = s, !.use = None]
  <2>1. caller[c] \in Caller /\ caller[c].plugin # None /\ s \in Cars
    BY <1>1, <1>3 DEF TypeOK, KnowsPlugin, At, Caller
  <2>2. caller' = [caller EXCEPT ![c] = r] /\ car' = car
    BY <1>3 DEF Drop, TypeOK
  <2>3. /\ r \in Caller
        /\ r.at = "call" /\ r.car = s /\ r.use = None /\ r.plugin = caller[c].plugin
    BY <2>1 DEF Caller
  <2> HIDE DEF r
  <2>4. /\ caller' \in [Callers -> Caller]
        /\ \A d \in Callers : d # c => caller'[d] = caller[d]
        /\ caller'[c] = r
    BY <2>2, <2>3 DEF TypeOK
  <2>5. TypeOK'
    BY <1>1, <2>1, <2>2, <2>3, <2>4 DEF TypeOK
  <2>6. KnowsPlugin'
    BY <2>1, <2>3, <2>4 DEF KnowsPlugin, At
  <2>7. EverySidecarHeld'
    BY <1>1, <2>2, <2>4 DEF EverySidecarHeld, Healthy, At
  <2>8. Healthy(s) => sidecars[caller[c].plugin] = s
    BY <1>1, <1>3 DEF UsedIsListed
  <2>9. UsedIsListed'
    BY <1>1, <2>2, <2>3, <2>4, <2>8 DEF UsedIsListed, Healthy, At
  <2>10. NothingListedAfterStop'
    BY <1>1 DEF NothingListedAfterStop
  <2> QED
    BY <2>5, <2>6, <2>7, <2>9, <2>10
<1> QED
  BY <1>2, <1>3

\* What is taken out of the map is asked to end in the same step: Kill and Stop.
LEMMA UnlistStep ==
    ASSUME SupervisorInv, stopped' \in BOOLEAN, stopper' \in {"serving", "closing", "stopped"},
           car' \in [Cars -> Car], sidecars' \in [Plugins -> Cars \cup {None}],
           caller' \in [Callers -> Caller],
           \A c \in Callers :
               \/ caller'[c] = caller[c]
               \/ /\ At(c, "idle") /\ caller'[c].at = "kill"
                  /\ caller'[c].car # None /\ caller'[c].plugin # None,
           \A t \in Cars : Healthy(t)' => Healthy(t),
           \A p \in Plugins : \/ sidecars'[p] = sidecars[p]
                              \/ sidecars'[p] = None /\ (\A t \in Cars : t = sidecars[p] => ~Healthy(t)'),
           stopped' => \A p \in Plugins : sidecars'[p] = None
    PROVE  SupervisorInv'
<1> USE DEF SupervisorInv
<1>1. TypeOK'
  BY DEF TypeOK
<1>2. KnowsPlugin'
  BY DEF KnowsPlugin, At
<1>3. EverySidecarHeld'
  <2> SUFFICES ASSUME NEW t \in Cars, Healthy(t)'
               PROVE  \/ \E p \in Plugins : sidecars'[p] = t
                      \/ \E c \in Callers : At(c, "insert")' /\ caller'[c].car = t
    BY DEF EverySidecarHeld
  <2>1. \/ \E p \in Plugins : sidecars[p] = t
        \/ \E c \in Callers : At(c, "insert") /\ caller[c].car = t
    BY DEF EverySidecarHeld
  <2>2. ASSUME NEW p \in Plugins, sidecars[p] = t
        PROVE  sidecars'[p] = t
    BY <2>2
  <2>3. ASSUME NEW c \in Callers, At(c, "insert"), caller[c].car = t
        PROVE  At(c, "insert")' /\ caller'[c].car = t
    BY <2>3 DEF At
  <2> QED
    BY <2>1, <2>2, <2>3
<1>4. UsedIsListed'
  <2> SUFFICES ASSUME NEW d \in Callers
               PROVE  /\ (At(d, "call") /\ Healthy(caller[d].car))'
                            => (sidecars[caller[d].plugin] = caller[d].car)'
                      /\ (At(d, "drop") /\ caller[d].use # None /\ Healthy(caller[d].use))'
                            => (sidecars[caller[d].plugin] = caller[d].use)'
    BY DEF UsedIsListed
  <2>1. CASE caller'[d] # caller[d]
    BY <2>1 DEF At
  <2>2. CASE caller'[d] = caller[d]
    <3>1. caller[d] \in Caller
      BY DEF TypeOK
    <3>2. At(d, "call") => caller[d].car \in Cars
      BY <3>1 DEF TypeOK, At, Caller
    <3>3. caller[d].use # None => caller[d].use \in Cars
      BY <3>1 DEF Caller
    <3>4. ~At(d, "idle") => caller[d].plugin \in Plugins
      BY <3>1 DEF KnowsPlugin, Caller
    <3> QED
      BY <2>2, <3>2, <3>3, <3>4 DEF UsedIsListed, At
  <2> QED
    BY <2>1, <2>2
<1>5. NothingListedAfterStop'
  BY DEF NothingListedAfterStop
<1> QED
  BY <1>1, <1>2, <1>3, <1>4, <1>5

\* Taking an entry for Kill keeps the invariant.
LEMMA KillBeginStep ==
    ASSUME SupervisorInv, NEW c \in Callers, KillBegin(c)
    PROVE  SupervisorInv'
<1>1. PICK p \in Plugins :
         /\ sidecars[p] # None
         /\ caller' = [caller EXCEPT ![c] = [Idle EXCEPT !.at = "kill", !.plugin = p,
                                                         !.car = sidecars[p]]]
         /\ car' = [car EXCEPT ![sidecars[p]].asked = TRUE]
         /\ sidecars' = [sidecars EXCEPT ![p] = None]
  BY DEF KillBegin
<1> DEFINE s == sidecars[p]
<1>2. /\ TypeOK /\ s \in Cars /\ car[s] \in Car
      /\ At(c, "idle") /\ UNCHANGED <<stopped, stopper>>
  BY <1>1 DEF SupervisorInv, TypeOK, KillBegin
<1>3. car' = [car EXCEPT ![s] = [car[s] EXCEPT !.asked = TRUE]]
  BY <1>1, <1>2 DEF TypeOK
<1>4. [car[s] EXCEPT !.asked = TRUE] \in Car /\ [car[s] EXCEPT !.asked = TRUE].asked
  BY <1>2 DEF Car
<1>5. /\ car' \in [Cars -> Car]
      /\ car'[s].asked
      /\ \A t \in Cars : t # s => car'[t] = car[t]
  BY <1>2, <1>3, <1>4 DEF TypeOK
<1>6. \A t \in Cars : Healthy(t)' => t # s /\ Healthy(t)
  BY <1>5 DEF Healthy
<1>7. /\ sidecars' \in [Plugins -> Cars \cup {None}]
      /\ sidecars'[p] = None
      /\ \A q \in Plugins : q # p => sidecars'[q] = sidecars[q]
  BY <1>1, <1>2 DEF TypeOK
<1>8. /\ caller' \in [Callers -> Caller]
      /\ caller'[c].at = "kill" /\ caller'[c].car # None /\ caller'[c].plugin # None
      /\ \A d \in Callers : d # c => caller'[d] = caller[d]
  BY <1>1, <1>2 DEF TypeOK, Caller, Idle
<1>9. stopped' => \A q \in Plugins : sidecars'[q] = None
  BY <1>2, <1>7 DEF SupervisorInv, NothingListedAfterStop
<1> QED
  BY <1>2, <1>5, <1>6, <1>7, <1>8, <1>9, UnlistStep DEF TypeOK

\* So does the critical section of Stop that empties the map.
LEMMA StopBeginStep ==
    ASSUME SupervisorInv, StopBegin
    PROVE  SupervisorInv'
<1>1. TypeOK
  BY DEF SupervisorInv
<1>2. ASSUME NEW t \in Cars
      PROVE  /\ car'[t] \in Car
             /\ Healthy(t)' => t \notin Listed /\ Healthy(t)
  <2>1. car[t] \in Car /\ car'[t] = IF t \in Listed THEN [car[t] EXCEPT !.asked = TRUE] ELSE car[t]
    BY <1>1 DEF TypeOK, StopBegin
  <2>2. CASE t \in Listed
    BY <2>1, <2>2 DEF Car, Healthy
  <2>3. CASE t \notin Listed
    BY <2>1, <2>3 DEF Healthy
  <2> QED
    BY <2>2, <2>3
<1>3. car' \in [Cars -> Car]
  BY <1>2 DEF StopBegin
<1>4. /\ sidecars' \in [Plugins -> Cars \cup {None}]
      /\ \A p \in Plugins : sidecars'[p] = None
      /\ stopped' \in BOOLEAN /\ stopper' = "closing" /\ caller' = caller
  BY DEF StopBegin
<1>5. \A p \in Plugins : \A t \in Cars : t = sidecars[p] => ~Healthy(t)'
  BY <1>2, SupervisorAssumption DEF Listed
<1> QED
  BY <1>1, <1>2, <1>3, <1>4, <1>5, UnlistStep DEF TypeOK

\* The waiter takes out a sidecar that is dead.
LEMMA RemoveStep ==
    ASSUME SupervisorInv, NEW s \in Cars, Remove(s)
    PROVE  SupervisorInv'
<1>1. TypeOK /\ car' = [car EXCEPT ![s] = NoCar] /\ NoCar \in Car
      /\ sidecars' = [p \in Plugins |-> IF sidecars[p] = s THEN None ELSE sidecars[p]]
      /\ UNCHANGED <<stopped, stopper, caller>>
  BY DEF SupervisorInv, Remove, Car, NoCar
<1>2. /\ car' \in [Cars -> Car]
      /\ \A t \in Cars : Healthy(t)' => t # s /\ Healthy(t)
  BY <1>1 DEF TypeOK, Healthy, NoCar
<1>3. /\ sidecars' \in [Plugins -> Cars \cup {None}]
      /\ \A p \in Plugins : \/ sidecars'[p] = sidecars[p]
                            \/ sidecars'[p] = None /\ sidecars[p] = s
  BY <1>1 DEF TypeOK
<1>4. stopped' => \A p \in Plugins : sidecars'[p] = None
  BY <1>1, <1>3 DEF SupervisorInv, NothingListedAfterStop
<1> QED
  BY <1>1, <1>2, <1>3, <1>4, UnlistStep DEF TypeOK

\* The invariant is inductive.
LEMMA NextInv == SupervisorInv /\ [Next]_vars => SupervisorInv'
<1> SUFFICES ASSUME SupervisorInv, [Next]_vars PROVE SupervisorInv'
  OBVIOUS
<1>1. ASSUME NEW c \in Callers, Call(c) PROVE SupervisorInv'
  BY <1>1, ReturnStep DEF Call, At
<1>2. ASSUME NEW c \in Callers, KillEnd(c) PROVE SupervisorInv'
  BY <1>2, ReturnStep DEF KillEnd, At
<1>3. CASE StopEnd
  BY <1>3 DEF StopEnd, SupervisorInv, TypeOK, KnowsPlugin, EverySidecarHeld, UsedIsListed,
              NothingListedAfterStop, Healthy, At
<1>4. ASSUME NEW s \in Cars, Die(s) PROVE SupervisorInv'
  BY <1>4, AgeStep DEF Die
<1>5. ASSUME NEW s \in Cars, Exited(s) PROVE SupervisorInv'
  BY <1>5, AgeStep DEF Exited
<1>6. CASE UNCHANGED vars
  BY <1>6 DEF vars, SupervisorInv, TypeOK, KnowsPlugin, EverySidecarHeld, UsedIsListed,
              NothingListedAfterStop, Healthy, At
<1> QED
  BY <1>1, <1>2, <1>3, <1>4, <1>5, <1>6, EnsureBeginStep, SpawnStep, InsertStep, DropStep,
     KillBeginStep, StopBeginStep, RemoveStep DEF Next, Ensure, Wait

-----------------------------------------------------------------------------
\* The invariant holds in every state of every behaviour.
THEOREM Supervised == Spec => []SupervisorInv
<1> QED
  BY InitInv, NextInv, PTL DEF Spec

\* Map, requests, sidecars and the stopped flag stay well-formed through every Ensure,
\* Kill, Stop and waiter.
THEOREM TypeCorrect == Spec => []TypeOK
<1>1. SupervisorInv => TypeOK
  BY DEF SupervisorInv
<1> QED
  BY <1>1, Supervised, PTL

\* No sidecar escapes: whoever is not asked to end is in the map or about to be
\* put there, for any number of requests and plugins.
THEOREM NoSidecarLost == Spec => []EverySidecarHeld
<1>1. SupervisorInv => EverySidecarHeld
  BY DEF SupervisorInv
<1> QED
  BY <1>1, Supervised, PTL

\* Once stopped the supervisor lists nothing.
THEOREM StopIsFinal == Spec => []NothingListedAfterStop
<1>1. SupervisorInv => NothingListedAfterStop
  BY DEF SupervisorInv
<1> QED
  BY <1>1, Supervised, PTL

\* Two requests of one plugin do not use two healthy sidecars.
THEOREM OneSidecar == Spec => []OneSidecarPerPlugin
<1>1. SupervisorInv => OneSidecarPerPlugin
  BY DEF SupervisorInv, UsedIsListed, OneSidecarPerPlugin
<1> QED
  BY <1>1, Supervised, PTL

=============================================================================
