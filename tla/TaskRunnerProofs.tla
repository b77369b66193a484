-------------------------- MODULE TaskRunnerProofs --------------------------
(***************************************************************************)
(* Proofs about TaskRunner, for any number of requests, runs, pumps,       *)
(* subscriptions and chunks, and any cap.                                  *)
(*                                                                         *)
(* active is shown to be the number of counted runs together with its      *)
(* type: it is decremented only by the waiter of a run that is counted, so *)
(* it does not fall below zero.                                            *)
(***************************************************************************)
EXTENDS TaskRunner, FiniteSetTheorems, TLAPS

\* A closed buffer has no subscriber: a later one gets a closed channel.
ClosedIsEmpty == \A r \in Runs : IsClosed(r) => OpenSubs(r) = {}

\* A pump that has channels left is sending a chunk, and a subscriber has a run.
Sending ==
    /\ \A k \in Runs \X Pumps : pump[k].left # {} => pump[k].chunk \in Chunks
    /\ \A u \in Subs : sub[u].held \/ sub[u].open => sub[u].run \in Runs

Counts    == ActiveExact /\ RunsOvershoot
RunnerInv == TypeOK /\ Sending /\ Counts /\ NoGap /\ ClosedIsEmpty

\* The records of TypeOK.
Pumping    == [chunk : Chunks \cup {None}, left : SUBSET Subs]
Subscribed == [run : Runs \cup {None}, open : BOOLEAN, held : BOOLEAN, queue : 0..ChanCap,
               snapped : BOOLEAN, given : SUBSET Chunks]

USE RunnerAssumption

-----------------------------------------------------------------------------
(* Counting.                                                                *)

\* The counted runs and the callers on their way are finitely many.
LEMMA Finite ==
    ASSUME TypeOK
    PROVE  /\ IsFiniteSet(CountedRuns) /\ Cardinality(CountedRuns) \in Nat
           /\ IsFiniteSet(starting) /\ Cardinality(starting) \in Nat
           /\ Cardinality(Callers) \in Nat
<1>1. CountedRuns \subseteq Runs /\ starting \subseteq Callers
  BY DEF CountedRuns, TypeOK
<1> QED
  BY <1>1, FS_Subset, FS_CardinalityType

\* A run that goes from one stage to another counts before and after, or it is
\* the one run by which the counted ones change.
LEMMA Moves ==
    ASSUME TypeOK, NEW r \in Runs, NEW stage \in Stages, Move(r, stage)
    PROVE  /\ run' \in [Runs -> Run] /\ run'[r].stage = stage
           /\ \A s \in Runs \ {r} : run'[s] = run[s]
           /\ stage \in {"live", "exited", "finished", "closed", "done"}
                  => CountedRuns' = CountedRuns \cup {r}
           /\ stage \notin {"live", "exited", "finished", "closed", "done"}
                  => CountedRuns' = CountedRuns \ {r}
<1> DEFINE x == [run[r] EXCEPT !.stage = stage]
<1>1. run[r] \in Run
  BY DEF TypeOK
<1>2. x \in Run /\ x.stage = stage
  BY <1>1 DEF Run
<1>3. run' = [run EXCEPT ![r] = x]
  BY DEF Move
<1> HIDE DEF x
<1>4. /\ run' \in [Runs -> Run] /\ run'[r] = x
      /\ \A s \in Runs \ {r} : run'[s] = run[s]
  BY <1>2, <1>3 DEF TypeOK
<1> QED
  BY <1>2, <1>4 DEF CountedRuns, Counted, At

\* A step that neither starts nor ends a run keeps the counts.
LEMMA SameCounts ==
    ASSUME Counts, UNCHANGED <<active, starting>>, CountedRuns' = CountedRuns
    PROVE  Counts'
BY DEF Counts, ActiveExact, RunsOvershoot

\* Every step keeps the types and the counts.
LEMMA CountsStep ==
    ASSUME TypeOK, Sending, Counts, [Next]_vars
    PROVE  TypeOK' /\ Counts'
<1> USE DEF runVars, outVars
<1>0. /\ active = Cardinality(CountedRuns)
      /\ Cardinality(CountedRuns) + Cardinality(starting) <= MaxConcurrent - 1 + Cardinality(Callers)
  BY DEF Counts, ActiveExact, RunsOvershoot
<1>1. ASSUME NEW c \in Callers, StartCheck(c) PROVE TypeOK' /\ Counts'
  <2>1. starting' \subseteq Callers /\ UNCHANGED <<active, run, outVars, panicked>>
    BY <1>1 DEF StartCheck, TypeOK
  <2>2. TypeOK' /\ CountedRuns' = CountedRuns
    BY <2>1 DEF TypeOK, CountedRuns, Counted, At
  <2>3. Cardinality(starting') \in Nat /\ Cardinality(starting') <= Cardinality(Callers)
    BY <2>1, FS_Subset, FS_CardinalityType
  <2>4. active < MaxConcurrent
    BY <1>1 DEF StartCheck
  <2> QED
    BY <1>0, <2>1, <2>2, <2>3, <2>4, Finite DEF Counts, ActiveExact, RunsOvershoot
<1>2. ASSUME NEW c \in Callers, StartLaunch(c) PROVE TypeOK' /\ Counts'
  <2>1. starting' = starting \ {c} /\ c \in starting /\ UNCHANGED <<outVars, panicked>>
    BY <1>2 DEF StartLaunch
  <2>2. Cardinality(starting') = Cardinality(starting) - 1 /\ starting' \subseteq Callers
    BY <2>1, Finite, FS_RemoveElement DEF TypeOK
  <2>3. ASSUME NEW r \in Runs, At(r, {"none"}), Move(r, "live"), active' = active + 1
        PROVE  TypeOK' /\ Counts'
    <3>1. r \notin CountedRuns /\ CountedRuns' = CountedRuns \cup {r} /\ run' \in [Runs -> Run]
      BY <2>3, Moves DEF CountedRuns, Counted, At, Stages
    <3>2. Cardinality(CountedRuns') = Cardinality(CountedRuns) + 1
      BY <3>1, Finite, FS_AddElement
    <3>3. TypeOK'
      BY <2>1, <2>2, <2>3, <3>1 DEF TypeOK
    <3> QED
      BY <1>0, <2>2, <2>3, <3>2, <3>3, Finite DEF Counts, ActiveExact, RunsOvershoot
  <2>4. CASE UNCHANGED <<active, run>>
    <3>1. TypeOK' /\ CountedRuns' = CountedRuns
      BY <2>1, <2>2, <2>4 DEF TypeOK, CountedRuns, Counted, At
    <3> QED
      BY <1>0, <2>2, <2>4, <3>1, Finite DEF Counts, ActiveExact, RunsOvershoot
  <2> QED
    BY <1>2, <2>3, <2>4 DEF StartLaunch
<1>3. ASSUME NEW r \in Runs, Stop(r) \/ SetStatus(r) PROVE TypeOK' /\ Counts'
  <2>1. PICK x \in Run :
             /\ run' = [run EXCEPT ![r] = x]
             /\ Counted(r) <=> x.stage \in {"live", "exited", "finished", "closed", "done"}
    <3>1. run[r] \in Run
      BY DEF TypeOK
    <3>2. CASE Stop(r)
      <4>1. [run[r] EXCEPT !.killed = TRUE] \in Run
        BY <3>1 DEF Run
      <4> QED
        BY <3>1, <3>2, <4>1 DEF Stop, Counted, At, Run
    <3>3. CASE SetStatus(r)
      <4>1. PICK status \in {"killed", "exited", "error"} :
                run' = [run EXCEPT ![r].stage = "finished", ![r].status = status]
        BY <3>3 DEF SetStatus
      <4> DEFINE x == [run[r] EXCEPT !.stage = "finished", !.status = status]
      <4>2. x \in Run /\ x.stage = "finished"
        BY <3>1 DEF Run, Stages, Statuses
      <4>3. run' = [run EXCEPT ![r] = x]
        BY <4>1 DEF TypeOK
      <4> QED
        BY <3>3, <4>2, <4>3 DEF SetStatus, Counted, At
    <3> QED
      BY <1>3, <3>2, <3>3
  <2>2. UNCHANGED <<active, starting, outVars, panicked>>
    BY <1>3 DEF Stop, SetStatus
  <2>3. TypeOK' /\ CountedRuns' = CountedRuns
    BY <2>1, <2>2 DEF TypeOK, CountedRuns, Counted, At
  <2> QED
    BY <2>2, <2>3, SameCounts
<1>4. ASSUME NEW r \in Runs, ProcessExit(r) \/ CloseDone(r) \/ Reap(r) PROVE TypeOK' /\ Counts'
  <2>1. /\ UNCHANGED <<active, starting, outVars, panicked>>
        /\ \/ Move(r, "exited") /\ Counted(r)
           \/ Move(r, "done") /\ Counted(r)
           \/ Move(r, "reaped") /\ ~Counted(r)
    BY <1>4 DEF ProcessExit, CloseDone, Reap, Counted, At
  <2>2. run' \in [Runs -> Run] /\ CountedRuns' = CountedRuns
    BY <2>1, Moves DEF CountedRuns, Stages
  <2> QED
    BY <2>1, <2>2, SameCounts DEF TypeOK
<1>5. ASSUME NEW r \in Runs, CloseBuffer(r) PROVE TypeOK' /\ Counts'
  <2>1. UNCHANGED <<active, starting, data, pump, panicked>> /\ Move(r, "closed") /\ Counted(r)
    BY <1>5 DEF CloseBuffer, Counted, At
  <2>2. run' \in [Runs -> Run] /\ CountedRuns' = CountedRuns
    BY <2>1, Moves DEF CountedRuns, Stages
  <2>3. \A u \in Subs : [sub[u] EXCEPT !.open = FALSE] \in Subscribed
    BY DEF TypeOK, Subscribed
  <2>4. sub' \in [Subs -> Subscribed]
    BY <1>5, <2>3 DEF CloseBuffer, TypeOK, Subscribed
  <2>5. TypeOK'
    BY <2>1, <2>2, <2>4 DEF TypeOK, Subscribed
  <2> QED
    BY <2>1, <2>2, <2>5, SameCounts
<1>6. ASSUME NEW r \in Runs, Uncount(r) PROVE TypeOK' /\ Counts'
  <2>1. /\ UNCHANGED <<starting, outVars, panicked>> /\ Move(r, "over") /\ r \in CountedRuns
        /\ active' = active - 1
    BY <1>6 DEF Uncount, Counted, CountedRuns, At
  <2>2. run' \in [Runs -> Run] /\ CountedRuns' = CountedRuns \ {r}
    BY <2>1, Moves DEF Stages
  <2>3. Cardinality(CountedRuns') = Cardinality(CountedRuns) - 1 /\ Cardinality(CountedRuns') \in Nat
    <3>1. IsFiniteSet(CountedRuns \ {r}) /\ Cardinality(CountedRuns \ {r}) = Cardinality(CountedRuns) - 1
      BY <2>1, Finite, FS_RemoveElement
    <3> QED
      BY <2>2, <3>1, FS_CardinalityType
  <2> QED
    BY <1>0, <2>1, <2>2, <2>3, Finite DEF Counts, ActiveExact, RunsOvershoot, TypeOK
<1>7. ASSUME NEW r \in Runs, NEW k \in Pumps, Write(r, k) PROVE TypeOK' /\ Counts'
  <2>1. PICK c \in Chunks :
             /\ data' = [data EXCEPT ![r] = @ \cup {c}]
             /\ pump' = [pump EXCEPT ![<<r, k>>] = IF OpenSubs(r) = {} THEN Reading
                                               ELSE [chunk |-> c, left |-> OpenSubs(r)]]
    BY <1>7 DEF Write, Unread
  <2>2. Reading \in Pumping /\ [chunk |-> c, left |-> OpenSubs(r)] \in Pumping
    BY DEF Reading, OpenSubs, Pumping
  <2>3. pump \in [Runs \X Pumps -> Pumping]
    BY DEF TypeOK, Pumping
  <2>4. pump' \in [Runs \X Pumps -> Pumping] /\ data' \in [Runs -> SUBSET Chunks]
    BY <2>1, <2>2, <2>3 DEF TypeOK
  <2>5. UNCHANGED <<runVars, sub, panicked>>
    BY <1>7 DEF Write
  <2>6. TypeOK' /\ CountedRuns' = CountedRuns
    BY <2>4, <2>5 DEF TypeOK, CountedRuns, Counted, At, Pumping
  <2> QED
    BY <2>5, <2>6, SameCounts
<1>8. ASSUME NEW r \in Runs, NEW k \in Pumps, Send(r, k) PROVE TypeOK' /\ Counts'
  <2> DEFINE c == pump[<<r, k>>].chunk
             left == pump[<<r, k>>].left
             next(u) == IF left = {u} THEN Reading ELSE [chunk |-> c, left |-> left \ {u}]
  <2>1. PICK u \in pump[<<r, k>>].left :
             /\ pump' = [pump EXCEPT ![<<r, k>>] = next(u)]
             /\ \/ sub' = sub /\ panicked' = TRUE
                \/ /\ sub' = [sub EXCEPT ![u].queue = IF @ < ChanCap THEN @ + 1 ELSE @,
                                         ![u].given = @ \cup {c}]
                   /\ panicked' = panicked
             /\ UNCHANGED <<runVars, data>>
    BY <1>8 DEF Send
  <2>2. pump \in [Runs \X Pumps -> Pumping] /\ sub \in [Subs -> Subscribed]
    BY DEF TypeOK, Pumping, Subscribed
  <2>3. pump[<<r, k>>] \in Pumping /\ <<r, k>> \in Runs \X Pumps
    BY <2>2
  <2>4. u \in Subs /\ c \in Chunks /\ sub[u] \in Subscribed
    BY <2>2, <2>3 DEF Pumping, Sending
  <2>5. next(u) \in Pumping
    BY <2>3, <2>4 DEF Reading, Pumping
  <2>6. pump' \in [Runs \X Pumps -> Pumping]
    <3> HIDE DEF next
    <3> QED
      BY <2>1, <2>2, <2>5
  <2> DEFINE q == IF sub[u].queue < ChanCap THEN sub[u].queue + 1 ELSE sub[u].queue
             s == [sub[u] EXCEPT !.queue = q, !.given = @ \cup {c}]
  <2>7. q \in 0..ChanCap
    BY <2>4 DEF Subscribed
  <2> HIDE DEF q
  <2>8. s \in Subscribed
    BY <2>4, <2>7 DEF Subscribed
  <2>9. sub' = sub \/ sub' = [sub EXCEPT ![u] = s]
    BY <2>1, <2>2, <2>4 DEF q
  <2> HIDE DEF s
  <2>10. sub' \in [Subs -> Subscribed]
    BY <2>2, <2>4, <2>8, <2>9
  <2>11. TypeOK' /\ CountedRuns' = CountedRuns
    BY <2>1, <2>6, <2>10 DEF TypeOK, CountedRuns, Counted, At, Pumping, Subscribed
  <2> QED
    BY <2>1, <2>11, SameCounts
<1>9. ASSUME NEW u \in Subs, Subscribe(u) \/ Snapshot(u) \/ Receive(u) \/ Unsubscribe(u)
      PROVE  TypeOK' /\ Counts'
  <2>1. UNCHANGED <<runVars, data, pump, panicked>>
    BY <1>9 DEF Subscribe, Snapshot, Receive, Unsubscribe
  <2>2. sub \in [Subs -> Subscribed] /\ sub[u] \in Subscribed
    BY DEF TypeOK, Subscribed
  <2>0. 0 \in 0..ChanCap
    OBVIOUS
  <2>3. PICK s \in Subscribed : sub' = [sub EXCEPT ![u] = s]
    <3>1. CASE Subscribe(u)
      <4>1. PICK r \in Runs : sub' = [sub EXCEPT ![u] = [NoSub EXCEPT !.run = r, !.open = ~IsClosed(r),
                                                         !.held = TRUE]]
        BY <3>1 DEF Subscribe
      <4>2. IsClosed(r) \in BOOLEAN
        BY DEF IsClosed, At
      <4> DEFINE s == [NoSub EXCEPT !.run = r, !.open = ~IsClosed(r), !.held = TRUE]
      <4>3. s \in Subscribed
        BY <2>0, <4>2 DEF NoSub, Subscribed
      <4> QED
        BY <4>1, <4>3
    <3>2. CASE Snapshot(u)
      <4> DEFINE s == [sub[u] EXCEPT !.snapped = TRUE, !.given = @ \cup data[sub[u].run]]
      <4>1. sub' = [sub EXCEPT ![u] = s]
        BY <2>2, <3>2 DEF Snapshot
      <4>2. data[sub[u].run] \subseteq Chunks
        BY <3>2 DEF Snapshot, Sending, TypeOK
      <4>3. s \in Subscribed
        BY <2>2, <4>2 DEF Subscribed
      <4> QED
        BY <4>1, <4>3
    <3>3. CASE Receive(u)
      <4> DEFINE q == sub[u].queue - 1
                 s == [sub[u] EXCEPT !.queue = q]
      <4>1. q \in 0..ChanCap
        BY <2>2, <3>3 DEF Receive, Subscribed
      <4> HIDE DEF q
      <4>2. s \in Subscribed
        BY <2>2, <4>1 DEF Subscribed
      <4>3. sub' = [sub EXCEPT ![u] = s]
        BY <2>2, <3>3 DEF Receive, q
      <4> QED
        BY <4>2, <4>3
    <3>4. CASE Unsubscribe(u)
      <4> DEFINE s == [NoSub EXCEPT !.run = sub[u].run]
      <4>1. s \in Subscribed
        BY <2>2, <2>0 DEF NoSub, Subscribed
      <4>2. sub' = [sub EXCEPT ![u] = s]
        BY <3>4 DEF Unsubscribe
      <4> QED
        BY <4>1, <4>2
    <3> QED
      BY <1>9, <3>1, <3>2, <3>3, <3>4
  <2>4. sub' \in [Subs -> Subscribed]
    BY <2>2, <2>3
  <2>5. TypeOK' /\ CountedRuns' = CountedRuns
    BY <2>1, <2>4 DEF TypeOK, CountedRuns, Counted, At, Subscribed
  <2> QED
    BY <2>1, <2>5, SameCounts
<1>10. CASE UNCHANGED vars
  <2>1. TypeOK' /\ CountedRuns' = CountedRuns
    BY <1>10 DEF vars, TypeOK, CountedRuns, Counted, At
  <2> QED
    BY <1>10, <2>1, SameCounts DEF vars
<1> QED
  BY <1>1, <1>2, <1>3, <1>4, <1>5, <1>6, <1>7, <1>8, <1>9, <1>10 DEF Next, Finish

-----------------------------------------------------------------------------
(* Output.                                                                  *)

\* Send: one channel of the copy less; the chunk goes to its subscriber, unless
\* the gateway panics.
LEMMA Sent ==
    ASSUME TypeOK, Sending, NEW r \in Runs, NEW k \in Pumps, Send(r, k)
    PROVE  /\ UNCHANGED <<run, data>>
           /\ \A j \in (Runs \X Pumps) \ {<<r, k>>} : pump'[j] = pump[j]
           /\ \E u \in pump[<<r, k>>].left :
                 /\ \/ pump[<<r, k>>].left = {u} /\ pump'[<<r, k>>] = Reading
                    \/ /\ pump'[<<r, k>>].chunk = pump[<<r, k>>].chunk
                       /\ pump'[<<r, k>>].left = pump[<<r, k>>].left \ {u}
                 /\ \A v \in Subs \ {u} : sub'[v] = sub[v]
                 /\ sub'[u].run = sub[u].run /\ sub'[u].open = sub[u].open
                 /\ sub'[u].held = sub[u].held /\ sub'[u].snapped = sub[u].snapped
                 /\ sub[u].open => sub'[u].given = sub[u].given \cup {pump[<<r, k>>].chunk}
<1> DEFINE c == pump[<<r, k>>].chunk
           left == pump[<<r, k>>].left
           next(u) == IF left = {u} THEN Reading ELSE [chunk |-> c, left |-> left \ {u}]
<1>1. sub \in [Subs -> Subscribed] /\ pump \in [Runs \X Pumps -> Pumping]
  BY DEF TypeOK, Subscribed, Pumping
<1>2. PICK u \in left :
           /\ pump' = [pump EXCEPT ![<<r, k>>] = next(u)]
           /\ \/ sub' = sub /\ ~sub[u].open
              \/ sub' = [sub EXCEPT ![u].queue = IF @ < ChanCap THEN @ + 1 ELSE @,
                                    ![u].given = @ \cup {c}]
  BY DEF Send
<1>3. u \in Subs /\ sub[u] \in Subscribed /\ <<r, k>> \in Runs \X Pumps
  BY <1>1 DEF Pumping
<1> DEFINE q == IF sub[u].queue < ChanCap THEN sub[u].queue + 1 ELSE sub[u].queue
           s == [sub[u] EXCEPT !.queue = q, !.given = @ \cup {c}]
<1>4. (sub' = sub /\ ~sub[u].open) \/ sub' = [sub EXCEPT ![u] = s]
  <2>1. CASE sub' = [sub EXCEPT ![u].queue = IF @ < ChanCap THEN @ + 1 ELSE @,
                                ![u].given = @ \cup {c}]
    <3>1. sub' = [sub EXCEPT ![u] = s]
      BY <1>1, <1>3, <2>1
    <3> QED
      BY <3>1
  <2> QED
    BY <1>2, <2>1
<1> HIDE DEF q
<1>5. /\ s.run = sub[u].run /\ s.open = sub[u].open /\ s.held = sub[u].held
      /\ s.snapped = sub[u].snapped /\ s.given = sub[u].given \cup {c}
  <2> DEFINE w == sub[u]
             n == c
  <2>1. w \in Subscribed
    BY <1>3
  <2> HIDE DEF w, n
  <2>2. LET t == [w EXCEPT !.queue = q, !.given = @ \cup {n}]
        IN  /\ t.run = w.run /\ t.open = w.open /\ t.held = w.held
            /\ t.snapped = w.snapped /\ t.given = w.given \cup {n}
    BY <2>1 DEF Subscribed
  <2> QED
    BY <2>2 DEF w, n
<1> HIDE DEF s
<1>6. /\ \A v \in Subs \ {u} : sub'[v] = sub[v]
      /\ sub'[u] = s \/ (sub'[u] = sub[u] /\ ~sub[u].open)
  <2>1. CASE sub' = sub /\ ~sub[u].open
    BY <2>1
  <2>2. CASE sub' = [sub EXCEPT ![u] = s]
    BY <1>1, <1>3, <2>2
  <2> QED
    BY <1>4, <2>1, <2>2
<1>7. \/ left = {u} /\ next(u) = Reading
      \/ next(u).chunk = c /\ next(u).left = left \ {u}
  OBVIOUS
<1> HIDE DEF next
<1>8. /\ pump'[<<r, k>>] = next(u)
      /\ \A j \in (Runs \X Pumps) \ {<<r, k>>} : pump'[j] = pump[j]
  BY <1>1, <1>2, <1>3
<1>9. UNCHANGED <<run, data>>
  BY DEF Send, runVars
<1> QED
  BY <1>5, <1>6, <1>7, <1>8, <1>9

\* Write: the chunk is in the buffer, and on its way to all who listen.
LEMMA Written ==
    ASSUME TypeOK, NEW r \in Runs, NEW k \in Pumps, Write(r, k)
    PROVE  /\ UNCHANGED <<run, sub>> /\ pump[<<r, k>>] = Reading
           /\ \A j \in (Runs \X Pumps) \ {<<r, k>>} : pump'[j] = pump[j]
           /\ \A s \in Runs \ {r} : data'[s] = data[s]
           /\ \E c \in Chunks :
                 /\ data'[r] = data[r] \cup {c}
                 /\ \/ OpenSubs(r) = {} /\ pump'[<<r, k>>] = Reading
                    \/ pump'[<<r, k>>].chunk = c /\ pump'[<<r, k>>].left = OpenSubs(r)
<1> DEFINE next(c) == IF OpenSubs(r) = {} THEN Reading ELSE [chunk |-> c, left |-> OpenSubs(r)]
<1>1. PICK c \in Chunks : /\ data' = [data EXCEPT ![r] = @ \cup {c}]
                          /\ pump' = [pump EXCEPT ![<<r, k>>] = next(c)]
  BY DEF Write, Unread
<1>2. \/ OpenSubs(r) = {} /\ next(c) = Reading
      \/ next(c).chunk = c /\ next(c).left = OpenSubs(r)
  OBVIOUS
<1> HIDE DEF next
<1>3. /\ pump'[<<r, k>>] = next(c)
      /\ \A j \in (Runs \X Pumps) \ {<<r, k>>} : pump'[j] = pump[j]
  BY <1>1 DEF TypeOK
<1>4. data'[r] = data[r] \cup {c} /\ \A s \in Runs \ {r} : data'[s] = data[s]
  BY <1>1 DEF TypeOK
<1>5. UNCHANGED <<run, sub>> /\ pump[<<r, k>>] = Reading
  BY DEF Write, runVars
<1> QED
  BY <1>2, <1>3, <1>4, <1>5

\* What else happens to the subscriptions while the output stays.
LEMMA Listening ==
    ASSUME TypeOK, Sending, NEW u \in Subs,
           Subscribe(u) \/ Snapshot(u) \/ Receive(u) \/ Unsubscribe(u)
    PROVE  /\ UNCHANGED <<run, data, pump>> /\ \A v \in Subs \ {u} : sub'[v] = sub[v]
           /\ \/ /\ sub'[u].run \in Runs /\ sub'[u].open = ~IsClosed(sub'[u].run)
                 /\ ~sub'[u].snapped
              \/ /\ sub'[u].run = sub[u].run /\ sub'[u].open = sub[u].open
                 /\ sub'[u].held = sub[u].held
                 /\ \/ sub'[u].given = sub[u].given \cup data[sub[u].run]
                    \/ sub'[u].given = sub[u].given /\ sub'[u].snapped = sub[u].snapped
              \/ ~sub'[u].open /\ ~sub'[u].held
<1>1. sub \in [Subs -> Subscribed] /\ sub[u] \in Subscribed
  BY DEF TypeOK, Subscribed
<1>2. UNCHANGED <<run, data, pump>>
  BY DEF Subscribe, Snapshot, Receive, Unsubscribe, runVars
<1>3. CASE Subscribe(u)
  <2>1. PICK r \in Runs : sub' = [sub EXCEPT ![u] = [NoSub EXCEPT !.run = r, !.open = ~IsClosed(r),
                                                     !.held = TRUE]]
    BY <1>3 DEF Subscribe
  <2> DEFINE s == [NoSub EXCEPT !.run = r, !.open = ~IsClosed(r), !.held = TRUE]
  <2>2. s.run = r /\ s.open = ~IsClosed(r) /\ ~s.snapped
    BY DEF NoSub
  <2>3. sub' = [sub EXCEPT ![u] = s]
    BY <2>1
  <2> HIDE DEF s
  <2>4. sub'[u] = s /\ \A v \in Subs \ {u} : sub'[v] = sub[v]
    BY <1>1, <2>3
  <2> QED
    BY <1>2, <2>2, <2>4
<1>4. CASE Snapshot(u)
  <2> DEFINE s == [sub[u] EXCEPT !.snapped = TRUE, !.given = @ \cup data[sub[u].run]]
  <2>1. sub' = [sub EXCEPT ![u] = s]
    BY <1>1, <1>4 DEF Snapshot
  <2>2. /\ s.run = sub[u].run /\ s.open = sub[u].open /\ s.held = sub[u].held
        /\ s.given = sub[u].given \cup data[sub[u].run]
    BY <1>1 DEF Subscribed
  <2> HIDE DEF s
  <2>3. sub'[u] = s /\ \A v \in Subs \ {u} : sub'[v] = sub[v]
    BY <1>1, <2>1
  <2> QED
    BY <1>2, <2>2, <2>3
<1>5. CASE Receive(u)
  <2> DEFINE s == [sub[u] EXCEPT !.queue = sub[u].queue - 1]
  <2>1. sub' = [sub EXCEPT ![u] = s]
    BY <1>1, <1>5 DEF Receive
  <2>2. /\ s.run = sub[u].run /\ s.open = sub[u].open /\ s.held = sub[u].held
        /\ s.given = sub[u].given /\ s.snapped = sub[u].snapped
    BY <1>1 DEF Subscribed
  <2> HIDE DEF s
  <2>3. sub'[u] = s /\ \A v \in Subs \ {u} : sub'[v] = sub[v]
    BY <1>1, <2>1
  <2> QED
    BY <1>2, <2>2, <2>3
<1>6. CASE Unsubscribe(u)
  <2> DEFINE s == [NoSub EXCEPT !.run = sub[u].run]
  <2>1. sub' = [sub EXCEPT ![u] = s] /\ ~s.open /\ ~s.held
    BY <1>6 DEF Unsubscribe, NoSub
  <2> HIDE DEF s
  <2>2. sub'[u] = s /\ \A v \in Subs \ {u} : sub'[v] = sub[v]
    BY <1>1, <2>1
  <2> QED
    BY <1>2, <2>1, <2>2
<1> QED
  BY <1>3, <1>4, <1>5, <1>6

\* Every step keeps what pumps and subscribers know.
LEMMA SendingStep ==
    ASSUME TypeOK, Sending, [Next]_vars
    PROVE  Sending'
<1> USE DEF runVars, outVars
<1>1. ASSUME NEW r \in Runs, NEW k \in Pumps, Write(r, k) PROVE Sending'
  <2>1. UNCHANGED sub
    BY <1>1, Written
  <2>2. PICK c \in Chunks : pump'[<<r, k>>] = Reading \/ pump'[<<r, k>>].chunk = c
    BY <1>1, Written
  <2>3. \A j \in (Runs \X Pumps) \ {<<r, k>>} : pump'[j] = pump[j]
    BY <1>1, Written
  <2>4. pump'[<<r, k>>].left # {} => pump'[<<r, k>>].chunk \in Chunks
    BY <2>2 DEF Reading
  <2>5. \A j \in Runs \X Pumps : pump'[j].left # {} => pump'[j].chunk \in Chunks
    BY <2>3, <2>4 DEF Sending
  <2> QED
    BY <2>1, <2>5 DEF Sending
<1>2. ASSUME NEW r \in Runs, NEW k \in Pumps, Send(r, k) PROVE Sending'
  <2>1. <<r, k>> \in Runs \X Pumps
    OBVIOUS
  <2>2. pump[<<r, k>>].left # {} => pump[<<r, k>>].chunk \in Chunks
    BY <2>1 DEF Sending
  <2>3. \A j \in Runs \X Pumps : pump'[j].left # {} => pump'[j].chunk \in Chunks
    <3>1. \A j \in (Runs \X Pumps) \ {<<r, k>>} : pump'[j] = pump[j]
      BY <1>2, Sent
    <3>2. \/ pump'[<<r, k>>] = Reading
          \/ /\ pump'[<<r, k>>].chunk = pump[<<r, k>>].chunk
             /\ pump[<<r, k>>].left # {}
      BY <1>2, Sent
    <3>3. pump'[<<r, k>>].left # {} => pump'[<<r, k>>].chunk \in Chunks
      BY <2>2, <3>2 DEF Reading
    <3> QED
      BY <3>1, <3>3 DEF Sending
  <2>4. \A u \in Subs : sub'[u].held \/ sub'[u].open => sub'[u].run \in Runs
    BY <1>2, Sent DEF Sending
  <2> QED
    BY <2>3, <2>4 DEF Sending
<1>3. ASSUME NEW u \in Subs, Subscribe(u) \/ Snapshot(u) \/ Receive(u) \/ Unsubscribe(u) PROVE Sending'
  BY <1>3, Listening DEF Sending
<1>4. ASSUME NEW r \in Runs, CloseBuffer(r) PROVE Sending'
  <2>1. \A u \in Subs : sub'[u] = sub[u] \/ sub'[u] = [sub[u] EXCEPT !.open = FALSE]
    BY <1>4 DEF CloseBuffer
  <2>2. \A u \in Subs : sub'[u].run = sub[u].run /\ sub'[u].held = sub[u].held /\ (sub'[u].open => sub[u].open)
    <3> SUFFICES ASSUME NEW u \in Subs, NEW s \in Subscribed, s = sub[u]
                 PROVE  sub'[u].run = s.run /\ sub'[u].held = s.held /\ (sub'[u].open => s.open)
      BY DEF TypeOK, Subscribed
    <3> QED
      BY <2>1 DEF Subscribed
  <2>3. UNCHANGED pump
    BY <1>4 DEF CloseBuffer
  <2> QED
    BY <2>2, <2>3 DEF Sending
<1>5. CASE \/ \E c \in Callers : StartCheck(c) \/ StartLaunch(c)
           \/ \E r \in Runs : Stop(r) \/ ProcessExit(r) \/ SetStatus(r) \/ CloseDone(r) \/ Uncount(r) \/ Reap(r)
           \/ UNCHANGED vars
  BY <1>5 DEF StartCheck, StartLaunch, Stop, ProcessExit, SetStatus, CloseDone, Uncount, Reap, vars, Sending
<1> QED
  BY <1>1, <1>2, <1>3, <1>4, <1>5 DEF Next, Finish

\* Every step keeps the chunks of a listener in its snapshot, its channel, its
\* list of dropped ones, or on their way.
LEMMA NoGapStep ==
    ASSUME TypeOK, Sending, NoGap, [Next]_vars
    PROVE  NoGap'
<1> USE DEF runVars, outVars
<1>1. ASSUME NEW r \in Runs, NEW k \in Pumps, Write(r, k) PROVE NoGap'
  <2>1. PICK d \in Chunks : /\ data'[r] = data[r] \cup {d}
                            /\ \/ OpenSubs(r) = {} /\ pump'[<<r, k>>] = Reading
                               \/ pump'[<<r, k>>].chunk = d /\ pump'[<<r, k>>].left = OpenSubs(r)
    BY <1>1, Written
  <2>2. /\ UNCHANGED sub /\ pump[<<r, k>>] = Reading
        /\ \A j \in (Runs \X Pumps) \ {<<r, k>>} : pump'[j] = pump[j]
        /\ \A z \in Runs \ {r} : data'[z] = data[z]
    BY <1>1, Written
  <2> SUFFICES ASSUME NEW u \in Subs, sub'[u].open, sub'[u].snapped,
                      NEW c \in data'[sub'[u].run] \ sub'[u].given
               PROVE  \E j \in Pumps : /\ pump'[<<sub'[u].run, j>>].chunk = c
                                       /\ u \in pump'[<<sub'[u].run, j>>].left
    BY DEF NoGap
  <2> DEFINE s == sub[u].run
  <2>3. s \in Runs /\ <<r, k>> \in Runs \X Pumps
    BY <2>2 DEF Sending
  <2>4. CASE s = r /\ c = d
    BY <2>1, <2>2, <2>3, <2>4 DEF OpenSubs
  <2>5. CASE ~(s = r /\ c = d)
    <3>1. c \in data[s] \ sub[u].given
      BY <2>1, <2>2, <2>3, <2>5
    <3>2. PICK j \in Pumps : pump[<<s, j>>].chunk = c /\ u \in pump[<<s, j>>].left
      BY <2>2, <3>1 DEF NoGap
    <3>3. <<s, j>> # <<r, k>> /\ <<s, j>> \in Runs \X Pumps
      BY <2>2, <2>3, <3>2 DEF Reading
    <3> QED
      BY <2>2, <3>2, <3>3
  <2> QED
    BY <2>4, <2>5
<1>2. ASSUME NEW r \in Runs, NEW k \in Pumps, Send(r, k) PROVE NoGap'
  <2> SUFFICES ASSUME NEW u \in Subs, sub'[u].open, sub'[u].snapped,
                      NEW c \in data'[sub'[u].run] \ sub'[u].given
               PROVE  \E j \in Pumps : /\ pump'[<<sub'[u].run, j>>].chunk = c
                                       /\ u \in pump'[<<sub'[u].run, j>>].left
    BY DEF NoGap
  <2> DEFINE s == sub[u].run
  <2>1. PICK v \in pump[<<r, k>>].left :
             /\ \/ pump[<<r, k>>].left = {v} /\ pump'[<<r, k>>] = Reading
                \/ /\ pump'[<<r, k>>].chunk = pump[<<r, k>>].chunk
                   /\ pump'[<<r, k>>].left = pump[<<r, k>>].left \ {v}
             /\ \A w \in Subs \ {v} : sub'[w] = sub[w]
             /\ sub'[v].run = sub[v].run /\ sub'[v].open = sub[v].open
             /\ sub'[v].held = sub[v].held /\ sub'[v].snapped = sub[v].snapped
             /\ sub[v].open => sub'[v].given = sub[v].given \cup {pump[<<r, k>>].chunk}
    BY <1>2, Sent
  <2>2. /\ UNCHANGED data /\ sub'[u].run = s /\ sub[u].open /\ sub[u].snapped
        /\ s \in Runs /\ <<r, k>> \in Runs \X Pumps /\ sub[u].given \subseteq sub'[u].given
    BY <1>2, <2>1, Sent DEF Sending
  <2>3. PICK j \in Pumps : pump[<<s, j>>].chunk = c /\ u \in pump[<<s, j>>].left
    BY <2>2 DEF NoGap
  <2>4. CASE <<s, j>> = <<r, k>>
    <3>1. pump[<<r, k>>].chunk = c /\ u \in pump[<<r, k>>].left
      BY <2>3, <2>4
    <3>2. u # v
      BY <2>1, <2>2, <3>1
    <3>3. pump'[<<r, k>>].chunk = c /\ u \in pump'[<<r, k>>].left
      BY <2>1, <3>1, <3>2
    <3>4. pump'[<<sub'[u].run, j>>].chunk = c /\ u \in pump'[<<sub'[u].run, j>>].left
      BY <2>2, <2>4, <3>3
    <3> QED
      BY <3>4
  <2>5. CASE <<s, j>> # <<r, k>>
    <3>1. <<s, j>> \in Runs \X Pumps
      BY <2>2
    <3>2. pump'[<<s, j>>] = pump[<<s, j>>]
      BY <1>2, <2>5, <3>1, Sent
    <3>3. pump'[<<sub'[u].run, j>>].chunk = c /\ u \in pump'[<<sub'[u].run, j>>].left
      BY <2>2, <2>3, <3>2
    <3> QED
      BY <3>3
  <2> QED
    BY <2>4, <2>5
<1>3. ASSUME NEW u \in Subs, Subscribe(u) \/ Snapshot(u) \/ Receive(u) \/ Unsubscribe(u) PROVE NoGap'
  <2>1. UNCHANGED <<data, pump>> /\ \A v \in Subs \ {u} : sub'[v] = sub[v]
    BY <1>3, Listening
  <2> SUFFICES ASSUME NEW v \in Subs, sub'[v].open, sub'[v].snapped,
                      NEW c \in data[sub'[v].run] \ sub'[v].given
               PROVE  \E j \in Pumps : /\ pump[<<sub'[v].run, j>>].chunk = c
                                       /\ v \in pump[<<sub'[v].run, j>>].left
    BY <2>1 DEF NoGap
  <2>2. CASE v # u
    BY <2>1, <2>2 DEF NoGap
  <2>3. CASE v = u
    <3>1. /\ sub'[u].run = sub[u].run /\ sub[u].open
          /\ \/ sub'[u].given = sub[u].given \cup data[sub[u].run]
             \/ sub'[u].given = sub[u].given /\ sub[u].snapped
      BY <1>3, <2>3, Listening
    <3> QED
      BY <2>3, <3>1 DEF NoGap
  <2> QED
    BY <2>2, <2>3
<1>4. ASSUME NEW r \in Runs, CloseBuffer(r) PROVE NoGap'
  <2>1. \A u \in Subs : sub'[u] = sub[u] \/ sub'[u] = [sub[u] EXCEPT !.open = FALSE]
    BY <1>4 DEF CloseBuffer
  <2>2. \A u \in Subs : sub'[u] = sub[u] \/ ~sub'[u].open
    <3> SUFFICES ASSUME NEW u \in Subs, NEW s \in Subscribed, s = sub[u]
                 PROVE  sub'[u] = s \/ ~sub'[u].open
      BY DEF TypeOK, Subscribed
    <3> QED
      BY <2>1 DEF Subscribed
  <2>3. UNCHANGED <<pump, data>>
    BY <1>4 DEF CloseBuffer
  <2> QED
    BY <2>2, <2>3 DEF NoGap
<1>5. CASE \/ \E c \in Callers : StartCheck(c) \/ StartLaunch(c)
           \/ \E r \in Runs : Stop(r) \/ ProcessExit(r) \/ SetStatus(r) \/ CloseDone(r) \/ Uncount(r) \/ Reap(r)
           \/ UNCHANGED vars
  <2>1. UNCHANGED <<sub, data, pump>>
    BY <1>5 DEF StartCheck, StartLaunch, Stop, ProcessExit, SetStatus, CloseDone, Uncount, Reap, vars
  <2> QED
    BY <2>1 DEF NoGap
<1> QED
  BY <1>1, <1>2, <1>3, <1>4, <1>5 DEF Next, Finish

\* Every step keeps closed buffers empty: the one that closes a buffer empties it.
LEMMA ClosedStep ==
    ASSUME TypeOK, Sending, ClosedIsEmpty, [Next]_vars
    PROVE  ClosedIsEmpty'
<1> USE DEF runVars, outVars
<1>1. ASSUME NEW r \in Runs, NEW k \in Pumps, Write(r, k) PROVE ClosedIsEmpty'
  <2>1. UNCHANGED <<run, sub>>
    BY <1>1, Written
  <2> QED
    BY <2>1 DEF ClosedIsEmpty, OpenSubs, IsClosed, At
<1>2. ASSUME NEW r \in Runs, NEW k \in Pumps, Send(r, k) PROVE ClosedIsEmpty'
  <2>1. UNCHANGED run /\ \A u \in Subs : sub'[u].run = sub[u].run /\ sub'[u].open = sub[u].open
    BY <1>2, Sent
  <2> QED
    BY <2>1 DEF ClosedIsEmpty, OpenSubs, IsClosed, At
<1>3. ASSUME NEW u \in Subs, Subscribe(u) \/ Snapshot(u) \/ Receive(u) \/ Unsubscribe(u)
      PROVE  ClosedIsEmpty'
  <2>1. /\ UNCHANGED run /\ \A v \in Subs \ {u} : sub'[v] = sub[v]
        /\ \/ sub'[u].open = ~IsClosed(sub'[u].run)
           \/ sub'[u].run = sub[u].run /\ sub'[u].open = sub[u].open
           \/ ~sub'[u].open
    BY <1>3, Listening
  <2>2. \A s \in Runs : IsClosed(s)' <=> IsClosed(s)
    BY <2>1 DEF IsClosed, At
  <2> SUFFICES ASSUME NEW s \in Runs, IsClosed(s), NEW v \in Subs, sub'[v].run = s, sub'[v].open
               PROVE  FALSE
    BY <2>2 DEF ClosedIsEmpty, OpenSubs
  <2>3. v \notin OpenSubs(s)
    BY DEF ClosedIsEmpty
  <2>4. CASE v # u
    BY <2>1, <2>3, <2>4 DEF OpenSubs
  <2>5. CASE v = u
    BY <2>1, <2>3, <2>5 DEF OpenSubs
  <2> QED
    BY <2>4, <2>5
<1>4. ASSUME NEW r \in Runs, CloseBuffer(r) PROVE ClosedIsEmpty'
  <2>1. \A u \in Subs : \/ sub'[u] = sub[u] /\ u \notin OpenSubs(r)
                        \/ sub'[u] = [sub[u] EXCEPT !.open = FALSE]
    BY <1>4 DEF CloseBuffer
  <2>2. \A u \in Subs : (sub'[u] = sub[u] /\ u \notin OpenSubs(r)) \/ ~sub'[u].open
    BY <2>1 DEF TypeOK
  <2>3. \A s \in Runs \ {r} : run'[s] = run[s]
    BY <1>4, Moves DEF CloseBuffer, Stages
  <2>4. \A u \in Subs, s \in Runs : sub'[u].run = s /\ sub'[u].open => s # r /\ u \in OpenSubs(s)
    BY <2>2 DEF OpenSubs
  <2> QED
    BY <2>3, <2>4 DEF ClosedIsEmpty, OpenSubs, IsClosed, At
<1>5. ASSUME NEW r \in Runs, Stop(r) \/ ProcessExit(r) \/ SetStatus(r) \/ CloseDone(r) \/ Uncount(r) \/ Reap(r)
      PROVE  ClosedIsEmpty'
  <2>1. UNCHANGED sub
    BY <1>5 DEF Stop, ProcessExit, SetStatus, CloseDone, Uncount, Reap
  <2>2. \A s \in Runs : IsClosed(s)' => IsClosed(s)
    <3>1. CASE Stop(r)
      BY <3>1 DEF Stop, IsClosed, At, TypeOK, Run
    <3>2. CASE SetStatus(r)
      <4>1. PICK status \in Statuses : run' = [run EXCEPT ![r].stage = "finished", ![r].status = status]
        BY <3>2 DEF SetStatus, Statuses
      <4> DEFINE x == [run[r] EXCEPT !.stage = "finished", !.status = status]
      <4>2. x.stage = "finished"
        BY DEF TypeOK, Run
      <4>3. run' = [run EXCEPT ![r] = x]
        BY <4>1 DEF TypeOK
      <4> HIDE DEF x
      <4> QED
        BY <4>2, <4>3 DEF IsClosed, At, TypeOK
    <3>3. CASE ProcessExit(r)
      BY <3>3, Moves DEF ProcessExit, IsClosed, At, Stages
    <3>4. CASE CloseDone(r) \/ Uncount(r) \/ Reap(r)
      <4>1. IsClosed(r) /\ \A s \in Runs \ {r} : run'[s] = run[s]
        BY <3>4, Moves DEF CloseDone, Uncount, Reap, IsClosed, At, Stages
      <4> QED
        BY <4>1 DEF IsClosed, At
    <3> QED
      BY <1>5, <3>1, <3>2, <3>3, <3>4
  <2> QED
    BY <2>1, <2>2 DEF ClosedIsEmpty, OpenSubs
<1>6. ASSUME NEW c \in Callers, StartLaunch(c) PROVE ClosedIsEmpty'
  <2>1. UNCHANGED sub
    BY <1>6 DEF StartLaunch
  <2>2. CASE UNCHANGED run
    BY <2>1, <2>2 DEF ClosedIsEmpty, OpenSubs, IsClosed, At
  <2>3. ASSUME NEW r \in Runs, Move(r, "live") PROVE ClosedIsEmpty'
    <3>1. run'[r].stage = "live" /\ \A s \in Runs \ {r} : run'[s] = run[s]
      BY <2>3, Moves DEF Stages
    <3> QED
      BY <2>1, <3>1 DEF ClosedIsEmpty, OpenSubs, IsClosed, At
  <2> QED
    BY <1>6, <2>2, <2>3 DEF StartLaunch
<1>7. CASE (\E c \in Callers : StartCheck(c)) \/ UNCHANGED vars
  BY <1>7 DEF StartCheck, vars, ClosedIsEmpty, OpenSubs, IsClosed, At
<1> QED
  BY <1>1, <1>2, <1>3, <1>4, <1>5, <1>6, <1>7 DEF Next, Finish

-----------------------------------------------------------------------------

\* The invariant holds along every run of the task runner.
THEOREM RunnerInvariant == Spec => []RunnerInv
<1>1. Init => RunnerInv
  <2> SUFFICES ASSUME Init PROVE RunnerInv
    OBVIOUS
  <2>1. 0 \in 0..ChanCap
    OBVIOUS
  <2>2. TypeOK
    BY <2>1 DEF Init, TypeOK, Run, Stages, Statuses, Reading, NoSub
  <2>3. CountedRuns = {}
    BY DEF Init, CountedRuns, Counted, At
  <2>4. Cardinality({}) = 0 /\ Cardinality(Callers) \in Nat /\ Cardinality(Callers) # 0
    BY FS_EmptySet, FS_CardinalityType
  <2>5. Counts
    BY <2>3, <2>4 DEF Init, Counts, ActiveExact, RunsOvershoot
  <2>6. Sending /\ NoGap /\ ClosedIsEmpty
    BY DEF Init, Sending, NoGap, ClosedIsEmpty, OpenSubs, IsClosed, At, Reading, NoSub
  <2> QED
    BY <2>2, <2>5, <2>6 DEF RunnerInv
<1>2. RunnerInv /\ [Next]_vars => RunnerInv'
  BY CountsStep, SendingStep, NoGapStep, ClosedStep DEF RunnerInv
<1> QED
  BY <1>1, <1>2, PTL DEF Spec

\* Runs, buffers, pumps and subscriptions are well-formed, and active is never
\* negative.
THEOREM TypeCorrect == Spec => []TypeOK
<1>1. RunnerInv => TypeOK
  BY DEF RunnerInv
<1> QED
  BY RunnerInvariant, <1>1, PTL

\* active is exact: the cap never leaks.
THEOREM CapNeverLeaks == Spec => []ActiveExact
<1>1. RunnerInv => ActiveExact
  BY DEF RunnerInv, Counts
<1> QED
  BY RunnerInvariant, <1>1, PTL

\* Overlapping Starts exceed the cap by less than their number.
THEOREM OvershootBounded == Spec => []RunsOvershoot
<1>1. RunnerInv => RunsOvershoot
  BY DEF RunnerInv, Counts
<1> QED
  BY RunnerInvariant, <1>1, PTL

\* A subscriber misses no chunk silently, and once a run is done its channel is
\* closed.
THEOREM SubscribersServed == Spec => []SubscriberServed
<1>1. RunnerInv => SubscriberServed
  BY DEF RunnerInv, SubscriberServed, DoneLeavesNoneOpen, ClosedIsEmpty, IsClosed, At
<1> QED
  BY RunnerInvariant, <1>1, PTL
=============================================================================
