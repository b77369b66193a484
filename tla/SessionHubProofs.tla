-------------------------- MODULE SessionHubProofs --------------------------
(* Theorems about SessionHub, for every value of its constants.            *)
EXTENDS SessionHub, FiniteSetTheorems, TLAPS

USE HubAssumption

-----------------------------------------------------------------------------
(* Types.                                                                   *)

\* A goroutine that is somewhere in a request has a well-formed request.
LEMMA BusyThread ==
    ASSUME TypeOK, NEW t \in Threads, NEW pc, pc # "idle", At(t, pc)
    PROVE  thread[t] \in Request
  BY DEF TypeOK, At, Idle

\* Moving a goroutine to another program counter, or back to idle, keeps the
\* type of thread.
LEMMA MoveTyped ==
    ASSUME TypeOK, NEW t \in Threads, thread[t] \in Request, NEW pc \in PCs,
           Go(t, pc) \/ Return(t) \/ StartFails(t)
    PROVE  thread' \in [Threads -> Request \cup {Idle}]
  BY DEF TypeOK, Go, Return, StartFails, Request, PCs

\* Writing a status keeps the rows well-formed.
LEMMA WriteTyped ==
    ASSUME TypeOK, NEW s \in Sessions, NEW status \in {"stopped", "running", "error"},
           NEW pid \in Pids \cup {None}, WriteStatus(s, status, pid)
    PROVE  row' \in [Sessions -> Row]
  BY DEF TypeOK, WriteStatus, Row

\* So does moving a process on keep the processes well-formed.
LEMMA AdvanceTyped ==
    ASSUME TypeOK, NEW p \in Pids, NEW stage \in Stages,
           NEW final \in {"stopped", "error"}, Advance(p, stage, final)
    PROVE  proc' \in [Pids -> Process]
  BY DEF TypeOK, Advance, Process

\* Taking up a request keeps the type of thread and of overlapped.
LEMMA EnterTyped ==
    ASSUME TypeOK, NEW t \in Threads, NEW r \in Request, Enter(t, r)
    PROVE  /\ thread' \in [Threads -> Request \cup {Idle}]
           /\ overlapped' \subseteq Sessions
  BY DEF TypeOK, Enter, Request

\* The initial state has the declared types.
LEMMA TypeInit == Init => TypeOK
  BY FS_EmptySet DEF Init, TypeOK, Idle, Row, Unborn, Process, Unspawned, Stages

\* Creating a session and taking up a request keep them.
LEMMA TypeRequests ==
    ASSUME TypeOK, NEW c \in Callers, Create(c) \/ Begin(c)
    PROVE  TypeOK'
<1>1. c \in Threads
  BY DEF Threads
<1>2. CASE Create(c)
  BY <1>2 DEF Create, TypeOK, Row, hubVars, procVars, gateVars
<1>3. CASE Begin(c)
  <2>1. PICK s \in Sessions, r \in Request : Enter(c, r)
    <3>1. \A s \in Sessions :
             /\ Asking("Start", "check", s, None) \in Request
             /\ Asking("Stop", "mark", s, None) \in Request
             /\ Asking("Delete", "mark", s, None) \in Request
             /\ \A a \in Accounts : Asking("Switch", "switch", s, a) \in Request
      BY DEF Asking, Request, Ops, PCs
    <3>2. PICK s \in Sessions :
             \/ Enter(c, Asking("Start", "check", s, None))
             \/ Enter(c, Asking("Stop", "mark", s, None))
             \/ Enter(c, Asking("Delete", "mark", s, None))
             \/ \E a \in Accounts : Enter(c, Asking("Switch", "switch", s, a))
      BY <1>3, Zenon DEF Begin
    <3>. QED
      BY <3>1, <3>2, Zenon
  <2>2. /\ thread' \in [Threads -> Request \cup {Idle}]
        /\ overlapped' \subseteq Sessions
    BY <1>1, <2>1, EnterTyped
  <2>3. requests' \in 0..MaxRequests
    BY <1>3 DEF Begin, TypeOK
  <2>. QED
    BY <1>3, <2>2, <2>3 DEF Begin, TypeOK, hubVars, procVars
<1>. QED
  BY <1>2, <1>3

\* Every step of a goroutine keeps them.
LEMMA TypeSteps ==
    ASSUME TypeOK, NEW t \in Threads, Steps(t)
    PROVE  TypeOK'
<1>. USE DEF hubVars, procVars, gateVars
<1>1. thread[t] \in Request
  BY BusyThread DEF Steps, StartSteps, StopSteps, DeleteSteps, SwitchSteps,
     StartCheck, StartLoad, StartLaunch, StartRegister, StartStatus, MarkStop,
     SignalReturns, DeleteWait, DeleteRow, SwitchLoad, SwitchLook, SwitchPoll, SwitchBind
<1>2. CASE StartCheck(t)
  <2>1. thread' \in [Threads -> Request \cup {Idle}]
    BY <1>1, <1>2, MoveTyped DEF StartCheck, PCs
  <2>. QED
    BY <1>2, <2>1 DEF StartCheck, TypeOK
<1>3. CASE StartLoad(t)
  <2>1. thread' \in [Threads -> Request \cup {Idle}]
    <3>1. CASE StartFails(t)
      BY <1>1, <3>1, MoveTyped DEF PCs
    <3>2. CASE thread' = [thread EXCEPT ![t].pc = "launch",
                                       ![t].account = row[thread[t].id].account]
      BY <1>1, <3>2 DEF TypeOK, Request, Row, PCs
    <3>. QED
      BY <1>3, <3>1, <3>2 DEF StartLoad
  <2>. QED
    BY <1>3, <2>1 DEF StartLoad, TypeOK
<1>4. CASE StartLaunch(t)
  <2>1. rendered' \subseteq Sessions
    BY <1>4 DEF StartLaunch, TypeOK
  <2>2. CASE StartFails(t) /\ proc' = proc
    <3>1. thread' \in [Threads -> Request \cup {Idle}]
      BY <1>1, <2>2, MoveTyped DEF PCs
    <3>. QED
      BY <1>4, <2>1, <2>2, <3>1 DEF StartLaunch, TypeOK
  <2>3. CASE ~(StartFails(t) /\ proc' = proc)
    <3>1. PICK p \in Fresh :
            /\ proc' = [proc EXCEPT ![p] = [stage |-> "alive", id |-> thread[t].id,
                              account |-> thread[t].account, final |-> "stopped"]]
            /\ thread' = [thread EXCEPT ![t].pc = "register", ![t].ts = p,
                                        ![t].account = None]
      BY <1>4, <2>3 DEF StartLaunch
    <3>2. p \in Pids
      BY DEF Fresh
    <3>3. thread' \in [Threads -> Request \cup {Idle}]
      BY <1>1, <3>1, <3>2 DEF TypeOK, Request, PCs
    <3>4. proc' \in [Pids -> Process]
      BY <1>1, <3>1, <3>2 DEF TypeOK, Request, Process, Stages
    <3>. QED
      BY <1>4, <2>1, <3>3, <3>4 DEF StartLaunch, TypeOK
  <2>. QED
    BY <2>2, <2>3
<1>5. CASE StartRegister(t)
  <2>1. thread' \in [Threads -> Request \cup {Idle}]
    BY <1>1, <1>5, MoveTyped DEF StartRegister, PCs
  <2>2. sessions' \in [Sessions -> Pids \cup {None}]
    BY <1>1, <1>5 DEF StartRegister, TypeOK, Request
  <2>. QED
    BY <1>5, <2>1, <2>2 DEF StartRegister, TypeOK
<1>6. CASE StartStatus(t)
  <2>1. thread' \in [Threads -> Request \cup {Idle}]
    BY <1>1, <1>6, MoveTyped DEF StartStatus, PCs
  <2>2. row' \in [Sessions -> Row]
    BY <1>1, <1>6, WriteTyped DEF StartStatus, Request
  <2>. QED
    BY <1>6, <2>1, <2>2 DEF StartStatus, TypeOK
<1>7. CASE MarkStop(t)
  <2>1. CASE thread[t].id \in Registered
    <3>1. sessions[thread[t].id] \in Pids
      BY <2>1 DEF TypeOK, Registered
    <3>2. thread' \in [Threads -> Request \cup {Idle}]
      BY <1>1, <1>7, <2>1, <3>1 DEF MarkStop, TypeOK, Request, PCs
    <3>. QED
      BY <1>1, <1>7, <2>1, <3>1, <3>2 DEF MarkStop, TypeOK, Request
  <2>2. CASE thread[t].id \notin Registered
    <3>1. thread' \in [Threads -> Request \cup {Idle}]
      BY <1>1, <1>7, <2>2, MoveTyped DEF MarkStop, PCs
    <3>. QED
      BY <1>7, <2>2, <3>1 DEF MarkStop, TypeOK
  <2>. QED
    BY <2>1, <2>2
<1>8. CASE SignalReturns(t)
  <2>1. thread' \in [Threads -> Request \cup {Idle}]
    BY <1>1, <1>8, MoveTyped DEF SignalReturns, PCs
  <2>. QED
    BY <1>8, <2>1 DEF SignalReturns, TypeOK
<1>9. CASE DeleteWait(t)
  <2>1. thread' \in [Threads -> Request \cup {Idle}]
    BY <1>1, <1>9, MoveTyped DEF DeleteWait, PCs
  <2>. QED
    BY <1>9, <2>1 DEF DeleteWait, TypeOK
<1>10. CASE DeleteRow(t)
  <2>1. thread' \in [Threads -> Request \cup {Idle}]
    BY <1>1, <1>10, MoveTyped DEF DeleteRow, PCs
  <2>2. row' \in [Sessions -> Row]
    BY <1>10 DEF DeleteRow, TypeOK, Row, Gone
  <2>. QED
    BY <1>10, <2>1, <2>2 DEF DeleteRow, TypeOK
<1>11. CASE SwitchLoad(t)
  <2>1. thread' \in [Threads -> Request \cup {Idle}]
    BY <1>1, <1>11, MoveTyped DEF SwitchLoad, PCs
  <2>. QED
    BY <1>11, <2>1 DEF SwitchLoad, TypeOK
<1>12. CASE SwitchLook(t)
  <2>1. thread' \in [Threads -> Request \cup {Idle}]
    BY <1>1, <1>12, MoveTyped DEF SwitchLook, PCs
  <2>. QED
    BY <1>12, <2>1 DEF SwitchLook, TypeOK
<1>13. CASE SwitchPoll(t)
  <2>1. thread' \in [Threads -> Request \cup {Idle}]
    BY <1>1, <1>13, MoveTyped DEF SwitchPoll, PCs
  <2>. QED
    BY <1>13, <2>1 DEF SwitchPoll, TypeOK
<1>14. CASE SwitchBind(t)
  <2>1. thread' \in [Threads -> Request \cup {Idle}]
    BY <1>1, <1>14, MoveTyped DEF SwitchBind, PCs
  <2>2. row' \in [Sessions -> Row]
    BY <1>1, <1>14 DEF SwitchBind, TypeOK, Row, Request
  <2>. QED
    BY <1>14, <2>1, <2>2 DEF SwitchBind, TypeOK
<1>. QED
  BY <1>2, <1>3, <1>4, <1>5, <1>6, <1>7, <1>8, <1>9, <1>10, <1>11, <1>12, <1>13, <1>14
     DEF Steps, StartSteps, StopSteps, DeleteSteps, SwitchSteps

\* Every step of a process and its exit callback keeps them.
LEMMA TypeProcess ==
    ASSUME TypeOK, NEW p \in Pids, ProcessExit(p) \/ ExitCallback(p) \/ OrphanExit(p)
    PROVE  TypeOK'
<1>. USE DEF hubVars, procVars, gateVars
<1>0. proc[p].final \in {"stopped", "error"} /\ proc[p].id \in Sessions \cup {None}
  BY DEF TypeOK, Process
<1>1. CASE ProcessExit(p)
  <2>1. proc' \in [Pids -> Process]
    BY <1>1, AdvanceTyped DEF ProcessExit, Stages
  <2>. QED
    BY <1>1, <2>1 DEF ProcessExit, TypeOK
<1>2. CASE ExitUnregister(p)
  <2>1. PICK final \in {"stopped", "error"} : Advance(p, "cleanup", final)
    BY <1>2 DEF ExitUnregister
  <2>2. proc' \in [Pids -> Process]
    BY <2>1, AdvanceTyped DEF Stages
  <2>3. sessions' \in [Sessions -> Pids \cup {None}]
    BY <1>2 DEF ExitUnregister, TypeOK
  <2>. QED
    BY <1>2, <2>2, <2>3 DEF ExitUnregister, TypeOK
<1>3. CASE ExitCleanup(p)
  <2>1. proc' \in [Pids -> Process]
    BY <1>0, <1>3, AdvanceTyped DEF ExitCleanup, Stages
  <2>. QED
    BY <1>3, <2>1 DEF ExitCleanup, TypeOK
<1>4. CASE ExitStatus(p)
  <2>1. proc' \in [Pids -> Process]
    BY <1>4, AdvanceTyped DEF ExitStatus, Stages
  <2>2. WriteStatus(proc[p].id, proc[p].final, None)
    BY <1>4 DEF ExitStatus
  <2>3. row' \in [Sessions -> Row]
    <3>1. CASE proc[p].id \in Sessions
      BY <1>0, <2>2, <3>1, WriteTyped
    <3>2. CASE proc[p].id \notin Sessions
      <4>1. DOMAIN row = Sessions
        BY DEF TypeOK
      <4>2. row' = row
        BY <2>2, <3>2, <4>1 DEF WriteStatus, TypeOK
      <4>. QED
        BY <4>2 DEF TypeOK
    <3>. QED
      BY <3>1, <3>2
  <2>. QED
    BY <1>4, <2>1, <2>3 DEF ExitStatus, TypeOK
<1>5. CASE ExitEmit(p)
  <2>1. proc' \in [Pids -> Process]
    BY <1>5, AdvanceTyped DEF ExitEmit, Stages
  <2>. QED
    BY <1>5, <2>1 DEF ExitEmit, TypeOK
<1>6. CASE OrphanExit(p)
  BY <1>6 DEF OrphanExit, TypeOK, Process, Stages, Lost
<1>. QED
  BY <1>1, <1>2, <1>3, <1>4, <1>5, <1>6 DEF ExitCallback

\* The death of the gateway keeps them.
LEMMA TypeGone ==
    ASSUME TypeOK, NEW survivors, GatewayGone(survivors), crashes' \in 0..MaxCrashes
    PROVE  TypeOK'
<1>1. proc' \in [Pids -> Process]
  BY DEF GatewayGone, TypeOK, Process, Stages, Unspawned, Lost
<1>2. thread' \in [Threads -> Request \cup {Idle}]
  BY DEF GatewayGone
<1>. QED
  BY <1>1, <1>2 DEF GatewayGone, TypeOK

\* Every step of the gateway itself keeps them.
LEMMA TypeGateway ==
    ASSUME TypeOK, MainSteps \/ Crash \/ Shutdown \/ Boot
    PROVE  TypeOK'
<1>. USE DEF hubVars, procVars, gateVars
<1>1. Main \in Threads
  BY DEF Threads
<1>2. \A s \in Sessions, pc \in PCs, op \in Ops : Asking(op, pc, s, None) \in Request
  BY DEF Asking, Request
<1>3. CASE Crash
  <2>1. crashes' \in 0..MaxCrashes
    BY <1>3 DEF Crash, TypeOK
  <2>. QED
    BY <1>3, <2>1, TypeGone DEF Crash
<1>4. CASE Exit
  BY <1>4, TypeGone DEF Exit, TypeOK
<1>5. CASE Shutdown
  <2>1. crashes' \in 0..MaxCrashes
    BY <1>5 DEF Shutdown, TypeOK
  <2>. QED
    BY <1>5, <2>1 DEF Shutdown, TypeOK, Registered
<1>6. CASE StopAllNext
  <2>1. /\ thread' \in [Threads -> Request \cup {Idle}]
        /\ overlapped' \subseteq Sessions
    BY <1>1, <1>2, <1>6, EnterTyped DEF StopAllNext, TypeOK, PCs, Ops
  <2>. QED
    BY <1>6, <2>1 DEF StopAllNext, TypeOK
<1>7. CASE Boot
  BY <1>7 DEF Boot, TypeOK
<1>8. CASE RecoverNext
  <2>1. /\ thread' \in [Threads -> Request \cup {Idle}]
        /\ overlapped' \subseteq Sessions
    BY <1>1, <1>2, <1>8, EnterTyped DEF RecoverNext, TypeOK, PCs, Ops
  <2>. QED
    BY <1>8, <2>1 DEF RecoverNext, TypeOK
<1>9. CASE RecoverGiveUp
  <2>1. thread[Main] \in Request
    BY <1>1, <1>9, BusyThread DEF RecoverGiveUp
  <2>2. thread' \in [Threads -> Request \cup {Idle}]
    BY <1>1, <1>9, <2>1, MoveTyped DEF RecoverGiveUp, PCs
  <2>3. row' \in [Sessions -> Row]
    BY <1>9, <2>1, WriteTyped DEF RecoverGiveUp, Request
  <2>. QED
    BY <1>9, <2>2, <2>3 DEF RecoverGiveUp, TypeOK
<1>10. CASE Serve
  BY <1>10 DEF Serve, TypeOK
<1>. QED
  BY <1>3, <1>4, <1>5, <1>6, <1>7, <1>8, <1>9, <1>10 DEF MainSteps

\* Hence every step does.
LEMMA TypeNext == TypeOK /\ [Next]_vars => TypeOK'
<1>. SUFFICES ASSUME TypeOK, [Next]_vars PROVE TypeOK'
  OBVIOUS
<1>1. CASE UNCHANGED vars
  BY <1>1 DEF vars, TypeOK
<1>2. CASE Next
  BY <1>2, TypeRequests, TypeSteps, TypeProcess, TypeGateway DEF Next
<1>. QED
  BY <1>1, <1>2

\* The state of the hub has the declared types: no operation, exit callback,
\* crash or recovery leaves a map entry, a row or a request half written.
THEOREM TypeCorrect == Spec => []TypeOK
  BY TypeInit, TypeNext, PTL DEF Spec
-----------------------------------------------------------------------------
(* Stop flags and the overshoot of the cap.                                 *)

\* StartRegister has a process to register.
RegisterHolds ==
    \A t \in Threads : thread[t].pc = "register" => thread[t].ts \in Pids

\* Requests are only served once recovery is over, and the main goroutine only
\* starts sessions during recovery.
PhasesApart ==
    /\ gateway \in {"recovering", "down"} => \A c \in Callers : thread[c] = Idle
    /\ gateway # "recovering" =>
          \/ thread[Main] = Idle
          \/ thread[Main].op = "StopAll" /\ thread[Main].pc \in {"mark", "signal"}

HubInv ==
    /\ TypeOK
    /\ RegisterHolds
    /\ PhasesApart
    /\ StopRequestedOnlyRegistered
    /\ CapacityOvershoot

\* The invariant holds before the first request.
LEMMA HubInit == Init => HubInv
<1>. SUFFICES ASSUME Init PROVE HubInv
  OBVIOUS
<1>1. TypeOK
  BY TypeInit
<1>2. RegisterHolds /\ PhasesApart
  BY DEF Init, RegisterHolds, PhasesApart, Idle, Threads
<1>3. Registered = {} /\ Starting = {}
  BY DEF Init, Registered, Starting, Idle
<1>4. Cardinality(Callers) \in Nat \ {0}
  BY FS_CardinalityType, FS_EmptySet
<1>5. CapacityOvershoot
  BY <1>3, <1>4, FS_EmptySet DEF CapacityOvershoot
<1>. QED
  BY <1>1, <1>2, <1>5 DEF HubInv, StopRequestedOnlyRegistered, Init

\* The sets the cap is about are finite, so they can be counted.
LEMMA Sizes ==
    /\ IsFiniteSet(Registered) /\ Cardinality(Registered) \in Nat
    /\ IsFiniteSet(Starting) /\ Cardinality(Starting) \in Nat
    /\ Cardinality(Callers) \in Nat \ {0}
<1>1. IsFiniteSet(Threads)
  BY FS_AddElement DEF Threads
<1>2. IsFiniteSet(Registered) /\ IsFiniteSet(Starting)
  BY <1>1, FS_Subset DEF Registered, Starting
<1>. QED
  BY <1>2, FS_CardinalityType, FS_EmptySet

\* A step that adds to neither set keeps the bound.
LEMMA Shrinks ==
    ASSUME TypeOK, TypeOK', CapacityOvershoot,
           Registered' \subseteq Registered, Starting' \subseteq Starting
    PROVE  CapacityOvershoot'
<1>1. /\ Cardinality(Registered') <= Cardinality(Registered)
      /\ Cardinality(Starting') <= Cardinality(Starting)
  BY Sizes, FS_Subset
<1>2. /\ Cardinality(Registered') \in Nat /\ Cardinality(Starting') \in Nat
      /\ Cardinality(Registered) \in Nat /\ Cardinality(Starting) \in Nat
      /\ Cardinality(Callers) \in Nat
  BY <1>1, Sizes, FS_CardinalityType, FS_Subset
<1>. QED
  BY <1>1, <1>2 DEF CapacityOvershoot

\* The goroutines that are starting a session are callers, or the main one alone.
AtMostCallers ==
    Cardinality(Starting) \in Nat /\ Cardinality(Starting) <= Cardinality(Callers)

\* While phases are apart, no more goroutines are in Start than there are callers.
LEMMA FewStarting == TypeOK /\ PhasesApart => AtMostCallers
<1>. SUFFICES ASSUME TypeOK, PhasesApart
              PROVE  Cardinality(Starting) <= Cardinality(Callers)
  BY Sizes DEF AtMostCallers
<1>1. CASE gateway = "recovering"
  <2>1. Starting \subseteq {Main}
    BY <1>1 DEF PhasesApart, Starting, Threads, Idle
  <2>2. IsFiniteSet({Main}) /\ Cardinality({Main}) = 1
    BY FS_Singleton
  <2>3. Cardinality(Starting) <= 1
    BY <2>1, <2>2, FS_Subset
  <2>. QED
    BY <2>3, Sizes
<1>2. CASE gateway # "recovering"
  <2>1. Starting \subseteq Callers
    BY <1>2 DEF PhasesApart, Starting, Threads, Idle
  <2>. QED
    BY <2>1, FS_Subset
<1>. QED
  BY <1>1, <1>2

\* A step of a goroutine moves that goroutine only.
LEMMA OwnStep ==
    ASSUME TypeOK, NEW t \in Threads, Steps(t)
    PROVE  /\ thread[t] \in Request
           /\ gateway # "down" /\ gateway' = gateway
           /\ \A u \in Threads \ {t} : thread'[u] = thread[u]
<1>. USE DEF gateVars
<1>0. thread[t] \in Request
  BY BusyThread DEF Steps, StartSteps, StopSteps, DeleteSteps, SwitchSteps,
     StartCheck, StartLoad, StartLaunch, StartRegister, StartStatus, MarkStop,
     SignalReturns, DeleteWait, DeleteRow, SwitchLoad, SwitchLook, SwitchPoll, SwitchBind
<1>1. CASE StartCheck(t)
  BY <1>0, <1>1 DEF StartCheck, At, Go, Return, StartFails, TypeOK
<1>2. CASE StartLoad(t)
  BY <1>0, <1>2 DEF StartLoad, At, Go, Return, StartFails, TypeOK
<1>3. CASE StartLaunch(t)
  BY <1>0, <1>3 DEF StartLaunch, At, Go, Return, StartFails, TypeOK
<1>4. CASE StartRegister(t)
  BY <1>0, <1>4 DEF StartRegister, At, Go, Return, StartFails, TypeOK
<1>5. CASE StartStatus(t)
  BY <1>0, <1>5 DEF StartStatus, At, Go, Return, StartFails, TypeOK
<1>6. CASE MarkStop(t)
  BY <1>0, <1>6 DEF MarkStop, At, Go, Return, StartFails, TypeOK
<1>7. CASE SignalReturns(t)
  BY <1>0, <1>7 DEF SignalReturns, At, Go, Return, StartFails, TypeOK
<1>8. CASE DeleteWait(t)
  BY <1>0, <1>8 DEF DeleteWait, At, Go, Return, StartFails, TypeOK
<1>9. CASE DeleteRow(t)
  BY <1>0, <1>9 DEF DeleteRow, At, Go, Return, StartFails, TypeOK
<1>10. CASE SwitchLoad(t)
  BY <1>0, <1>10 DEF SwitchLoad, At, Go, Return, StartFails, TypeOK
<1>11. CASE SwitchLook(t)
  BY <1>0, <1>11 DEF SwitchLook, At, Go, Return, StartFails, TypeOK
<1>12. CASE SwitchPoll(t)
  BY <1>0, <1>12 DEF SwitchPoll, At, Go, Return, StartFails, TypeOK
<1>13. CASE SwitchBind(t)
  BY <1>0, <1>13 DEF SwitchBind, At, Go, Return, StartFails, TypeOK
<1>. QED
  BY <1>0, <1>1, <1>2, <1>3, <1>4, <1>5, <1>6, <1>7, <1>8, <1>9, <1>10, <1>11, <1>12, <1>13
     DEF Steps, StartSteps, StopSteps, DeleteSteps, SwitchSteps

\* A step of a goroutine keeps the phases apart.
LEMMA StepsApart ==
    ASSUME TypeOK, PhasesApart, NEW t \in Threads, Steps(t)
    PROVE  PhasesApart'
<1>1. CASE gateway = "recovering"
  <2>1. t = Main
    BY <1>1, OwnStep DEF PhasesApart, Threads, Request, Idle, PCs
  <2>2. \A c \in Callers : thread'[c] = thread[c]
    BY <2>1, OwnStep DEF Threads
  <2>. QED
    BY <1>1, <2>2, OwnStep DEF PhasesApart
<1>2. CASE gateway # "recovering" /\ t # Main
  BY <1>2, OwnStep DEF PhasesApart, Threads
<1>3. CASE gateway # "recovering" /\ t = Main
  <2>1. thread[t].op = "StopAll" /\ thread[t].pc \in {"mark", "signal"}
    BY <1>3, OwnStep DEF PhasesApart, Request, Idle, PCs
  <2>2. MarkStop(t) \/ SignalReturns(t)
    BY <2>1 DEF Steps, StartSteps, StopSteps, DeleteSteps, SwitchSteps, At,
       StartCheck, StartLoad, StartLaunch, StartRegister, StartStatus,
       DeleteWait, DeleteRow, SwitchLoad, SwitchLook, SwitchPoll, SwitchBind
  <2>3. \/ thread'[Main] = Idle
        \/ thread'[Main].op = "StopAll" /\ thread'[Main].pc \in {"mark", "signal"}
    BY <1>3, <2>1, <2>2, OwnStep DEF MarkStop, SignalReturns, Go, Return, TypeOK, Request
  <2>. QED
    BY <1>3, <2>3, OwnStep DEF PhasesApart
<1>. QED
  BY <1>1, <1>2, <1>3

\* Where a step can lead: into Start only by its check, on to the registration
\* only by a launch.
LEMMA NextPC ==
    ASSUME TypeOK, NEW t \in Threads, Steps(t)
    PROVE  /\ thread'[t].pc = "register" =>
                 thread'[t].ts \in Pids /\ thread[t].pc = "launch"
           /\ thread'[t].pc \in {"load", "launch", "register"} =>
                 \/ StartCheck(t) /\ Cardinality(Registered) < MaxConcurrent
                 \/ thread[t].pc \in {"load", "launch"}
<1>1. thread[t] \in Request
  BY OwnStep
<1>2. CASE StartCheck(t)
  BY <1>1, <1>2 DEF StartCheck, Go, Return, StartFails, TypeOK, Idle, Request
<1>3. CASE StartLoad(t)
  BY <1>1, <1>3 DEF StartLoad, At, Go, Return, StartFails, TypeOK, Idle, Request
<1>4. CASE StartLaunch(t)
  <2>1. CASE StartFails(t)
    BY <1>1, <2>1 DEF Go, Return, StartFails, TypeOK, Idle, Request
  <2>2. CASE ~StartFails(t)
    <3>1. PICK p \in Fresh :
             thread' = [thread EXCEPT ![t].pc = "register", ![t].ts = p,
                                      ![t].account = None]
      BY <1>4, <2>2 DEF StartLaunch
    <3>. QED
      BY <1>1, <1>4, <3>1 DEF StartLaunch, At, TypeOK, Fresh, Request
  <2>. QED
    BY <2>1, <2>2
<1>5. CASE StartRegister(t)
  BY <1>1, <1>5 DEF StartRegister, Go, TypeOK
<1>6. CASE StartStatus(t)
  BY <1>1, <1>6 DEF StartStatus, Go, Return, TypeOK, Idle, Request
<1>7. CASE MarkStop(t)
  BY <1>1, <1>7 DEF MarkStop, Go, Return, TypeOK, Idle, Request
<1>8. CASE SignalReturns(t)
  BY <1>1, <1>8 DEF SignalReturns, Go, Return, TypeOK, Idle, Request
<1>9. CASE DeleteWait(t)
  BY <1>1, <1>9 DEF DeleteWait, Go, Return, TypeOK, Idle, Request
<1>10. CASE DeleteRow(t)
  BY <1>1, <1>10 DEF DeleteRow, Go, Return, TypeOK, Idle, Request
<1>11. CASE SwitchLoad(t)
  BY <1>1, <1>11 DEF SwitchLoad, Go, Return, TypeOK, Idle, Request
<1>12. CASE SwitchLook(t)
  BY <1>1, <1>12 DEF SwitchLook, Go, Return, TypeOK, Idle, Request
<1>13. CASE SwitchPoll(t)
  BY <1>1, <1>13 DEF SwitchPoll, Go, Return, TypeOK, Idle, Request
<1>14. CASE SwitchBind(t)
  BY <1>1, <1>14 DEF SwitchBind, Go, Return, TypeOK, Idle, Request
<1>. QED
  BY <1>2, <1>3, <1>4, <1>5, <1>6, <1>7, <1>8, <1>9, <1>10, <1>11, <1>12, <1>13, <1>14
     DEF Steps, StartSteps, StopSteps, DeleteSteps, SwitchSteps

\* Only a launch leads to the registration, and it brings a process.
LEMMA StepsRegisterHolds ==
    ASSUME TypeOK, RegisterHolds, NEW t \in Threads, Steps(t)
    PROVE  RegisterHolds'
  BY NextPC, OwnStep DEF RegisterHolds

\* What a step does to the map and the stop flags.
LEMMA MapStep ==
    ASSUME TypeOK, NEW t \in Threads, Steps(t)
    PROVE  \/ UNCHANGED hubVars
           \/ StartRegister(t)
           \/ /\ MarkStop(t) /\ sessions' = sessions
              /\ stopRequested' \subseteq stopRequested \cup ({thread[t].id} \cap Registered)
<1>1. CASE MarkStop(t)
  BY <1>1 DEF MarkStop, hubVars, Registered
<1>. QED
  BY <1>1 DEF Steps, StartSteps, StopSteps, DeleteSteps, SwitchSteps, StartCheck,
     StartLoad, StartLaunch, StartStatus, SignalReturns, DeleteWait, DeleteRow,
     SwitchLoad, SwitchLook, SwitchPoll, SwitchBind

\* Registering a session takes its goroutine out of Start.
LEMMA RegisterStep ==
    ASSUME TypeOK, RegisterHolds, NEW t \in Threads, StartRegister(t)
    PROVE  /\ stopRequested' = stopRequested
           /\ Registered' = Registered \cup {thread[t].id}
           /\ t \in Starting /\ Starting' = Starting \ {t}
<1>1. thread[t] \in Request /\ thread[t].ts \in Pids /\ None \notin Pids
  BY BusyThread DEF StartRegister, At, RegisterHolds
<1>2. Registered' = Registered \cup {thread[t].id}
  BY <1>1 DEF StartRegister, TypeOK, Registered, Request
<1>3. t \in Starting /\ Starting' = Starting \ {t}
  BY <1>1 DEF StartRegister, At, Go, TypeOK, Starting, Request
<1>. QED
  BY <1>2, <1>3 DEF StartRegister

\* No step of a goroutine flags a session that is not registered.
LEMMA StepsFlags ==
    ASSUME TypeOK, RegisterHolds, StopRequestedOnlyRegistered, NEW t \in Threads, Steps(t)
    PROVE  StopRequestedOnlyRegistered'
<1>1. CASE UNCHANGED hubVars
  BY <1>1 DEF hubVars, StopRequestedOnlyRegistered, Registered
<1>2. CASE StartRegister(t)
  BY <1>2, RegisterStep DEF StopRequestedOnlyRegistered
<1>3. CASE /\ MarkStop(t) /\ sessions' = sessions
           /\ stopRequested' \subseteq stopRequested \cup ({thread[t].id} \cap Registered)
  BY <1>3 DEF StopRequestedOnlyRegistered, Registered
<1>. QED
  BY <1>1, <1>2, <1>3, MapStep

\* A step of a goroutine keeps the bound: the check sees fewer than the cap
\* registered, and a registration takes one goroutine out of Start.
LEMMA StepsBound ==
    ASSUME TypeOK, TypeOK', RegisterHolds, PhasesApart, PhasesApart', CapacityOvershoot,
           NEW t \in Threads, Steps(t)
    PROVE  CapacityOvershoot'
<1>1. CASE StartRegister(t)
  <2>1. /\ Registered' = Registered \cup {thread[t].id}
        /\ t \in Starting /\ Starting' = Starting \ {t}
    BY <1>1, RegisterStep
  <2>2. Cardinality(Registered') <= Cardinality(Registered) + 1
    <3>1. Cardinality(Registered \cup {thread[t].id})
            = IF thread[t].id \in Registered THEN Cardinality(Registered)
                                            ELSE Cardinality(Registered) + 1
      BY Sizes, FS_AddElement
    <3>. QED
      BY <2>1, <3>1, Sizes
  <2>3. Cardinality(Starting') = Cardinality(Starting) - 1
    BY <2>1, Sizes, FS_RemoveElement
  <2>4. Cardinality(Registered') \in Nat
    BY <2>1, Sizes, FS_AddElement, FS_CardinalityType
  <2>. QED
    BY <2>2, <2>3, <2>4, Sizes DEF CapacityOvershoot
<1>2. CASE ~StartRegister(t)
  <2>1. Registered' = Registered
    BY <1>2, MapStep DEF hubVars, Registered
  <2>2. CASE StartCheck(t) /\ Cardinality(Registered) < MaxConcurrent
    <3>1. AtMostCallers'
      BY FewStarting, PTL
    <3>2. /\ Cardinality(Registered) \in Nat /\ Cardinality(Callers) \in Nat
          /\ MaxConcurrent \in Nat
      BY Sizes
    <3>. QED
      BY <2>1, <2>2, <3>1, <3>2 DEF CapacityOvershoot, AtMostCallers
  <2>3. CASE ~(StartCheck(t) /\ Cardinality(Registered) < MaxConcurrent)
    <3>1. Starting' \subseteq Starting
      <4>1. ASSUME NEW u \in Starting' PROVE u \in Starting
        <5>1. CASE u = t
          BY <2>3, <5>1, NextPC DEF Starting
        <5>2. CASE u # t
          BY <5>2, OwnStep DEF Starting
        <5>. QED
          BY <5>1, <5>2
      <4>. QED
        BY <4>1
    <3>. QED
      BY <2>1, <3>1, Shrinks
  <2>. QED
    BY <2>2, <2>3
<1>. QED
  BY <1>1, <1>2

\* Every step of a goroutine keeps the invariant.
LEMMA StepsInv ==
    ASSUME HubInv, NEW t \in Threads, Steps(t)
    PROVE  HubInv'
<1>1. TypeOK'
  BY TypeSteps DEF HubInv
<1>. QED
  BY <1>1, StepsRegisterHolds, StepsApart, StepsFlags, StepsBound DEF HubInv

\* Steps that leave the map, the flags and the phase alone, and take no
\* goroutine into Start.
LEMMA QuietStep ==
    ASSUME HubInv, TypeOK', UNCHANGED hubVars, Starting' \subseteq Starting,
           RegisterHolds', PhasesApart'
    PROVE  HubInv'
<1>1. Registered' = Registered
  BY DEF hubVars, Registered
<1>2. CapacityOvershoot'
  BY <1>1, Shrinks DEF HubInv
<1>. QED
  BY <1>1, <1>2 DEF HubInv, hubVars, StopRequestedOnlyRegistered

\* So does taking up a request,
LEMMA RequestsInv ==
    ASSUME HubInv, NEW c \in Callers, Create(c) \/ Begin(c)
    PROVE  HubInv'
<1>. USE DEF HubInv
<1>0. TypeOK'
  BY TypeRequests
<1>1. CASE Create(c)
  BY <1>0, <1>1, QuietStep
     DEF Create, hubVars, gateVars, Starting, RegisterHolds, PhasesApart
<1>2. CASE Begin(c)
  <2>1. PICK r : /\ thread' = [thread EXCEPT ![c] = r]
                 /\ r.pc \in {"check", "mark", "switch"}
    <3>1. PICK s \in Sessions :
             \/ Enter(c, Asking("Start", "check", s, None))
             \/ Enter(c, Asking("Stop", "mark", s, None))
             \/ Enter(c, Asking("Delete", "mark", s, None))
             \/ \E a \in Accounts : Enter(c, Asking("Switch", "switch", s, a))
      BY <1>2, Zenon DEF Begin
    <3>2. \A op, pc, q, target : Asking(op, pc, q, target).pc = pc
      BY DEF Asking
    <3>3. \A r : Enter(c, r) => thread' = [thread EXCEPT ![c] = r]
      BY DEF Enter
    <3>4. CASE Enter(c, Asking("Start", "check", s, None))
      BY <3>2, <3>3, <3>4
    <3>5. CASE Enter(c, Asking("Stop", "mark", s, None))
      BY <3>2, <3>3, <3>5
    <3>6. CASE Enter(c, Asking("Delete", "mark", s, None))
      BY <3>2, <3>3, <3>6
    <3>7. CASE \E a \in Accounts : Enter(c, Asking("Switch", "switch", s, a))
      BY <3>2, <3>3, <3>7
    <3>. QED
      BY <3>1, <3>4, <3>5, <3>6, <3>7
  <2>2. thread'[c].pc \in {"check", "mark", "switch"} /\ c \in Threads /\ c # Main
    BY <2>1 DEF TypeOK, Threads
  <2>3. \A u \in Threads \ {c} : thread'[u] = thread[u]
    BY <2>1 DEF TypeOK
  <2>4. Starting' \subseteq Starting /\ RegisterHolds'
    BY <2>2, <2>3 DEF Starting, RegisterHolds
  <2>5. PhasesApart'
    BY <1>2, <2>2, <2>3 DEF Begin, Serving, PhasesApart, Threads
  <2>. QED
    BY <1>0, <1>2, <2>4, <2>5, QuietStep DEF Begin
<1>. QED
  BY <1>1, <1>2

\* so does every step of a process and its exit callback,
LEMMA ProcessInv ==
    ASSUME HubInv, NEW p \in Pids, ProcessExit(p) \/ ExitCallback(p) \/ OrphanExit(p)
    PROVE  HubInv'
<1>. USE DEF HubInv
<1>0. TypeOK'
  BY TypeProcess
<1>1. UNCHANGED <<thread, gateway>>
  BY DEF ProcessExit, ExitCallback, OrphanExit, ExitUnregister, ExitCleanup,
     ExitStatus, ExitEmit, gateVars
<1>2. Starting' = Starting /\ RegisterHolds' /\ PhasesApart'
  BY <1>1 DEF Starting, RegisterHolds, PhasesApart
<1>3. CASE ExitUnregister(p)
  <2>1. Registered' = Registered \ {proc[p].id}
    BY <1>3 DEF ExitUnregister, Registered, TypeOK
  <2>2. StopRequestedOnlyRegistered'
    BY <1>3, <2>1 DEF ExitUnregister, StopRequestedOnlyRegistered
  <2>3. CapacityOvershoot'
    BY <1>0, <1>2, <2>1, Shrinks
  <2>. QED
    BY <1>0, <1>2, <2>2, <2>3
<1>4. CASE ~ExitUnregister(p)
  BY <1>0, <1>2, <1>4, QuietStep
     DEF ProcessExit, ExitCallback, OrphanExit, ExitCleanup, ExitStatus, ExitEmit
<1>. QED
  BY <1>3, <1>4

\* and every step of the gateway.
LEMMA GatewayInv ==
    ASSUME HubInv, MainSteps \/ Crash \/ Shutdown \/ Boot
    PROVE  HubInv'
<1>. USE DEF HubInv
<1>0. TypeOK' /\ Main \in Threads
  BY TypeGateway DEF Threads
<1>1. ASSUME NEW survivors, GatewayGone(survivors) PROVE HubInv'
  <2>1. Registered' = {} /\ Starting' = {} /\ stopRequested' = {}
    BY <1>1 DEF GatewayGone, Registered, Starting, Idle
  <2>2. RegisterHolds' /\ PhasesApart'
    BY <1>1 DEF GatewayGone, RegisterHolds, PhasesApart, Idle, Threads
  <2>3. CapacityOvershoot'
    BY <1>0, <2>1, Shrinks
  <2>. QED
    BY <1>0, <2>1, <2>2, <2>3 DEF StopRequestedOnlyRegistered
<1>2. CASE Crash
  BY <1>1, <1>2 DEF Crash
<1>3. CASE Exit
  BY <1>1, <1>3 DEF Exit
<1>4. CASE Shutdown
  BY <1>0, <1>4, QuietStep DEF Shutdown, Starting, RegisterHolds, PhasesApart
<1>5. CASE Boot
  <2>1. thread[Main] = Idle \/ thread[Main].pc \in {"mark", "signal"}
    BY <1>5 DEF Boot, PhasesApart
  <2>. QED
    BY <1>0, <1>5, QuietStep DEF Boot, Starting, RegisterHolds, PhasesApart
<1>6. CASE Serve
  BY <1>0, <1>6, QuietStep DEF Serve, Starting, RegisterHolds, PhasesApart
<1>7. CASE RecoverGiveUp
  <2>1. thread' = [thread EXCEPT ![Main] = Idle] /\ gateway' = gateway
    BY <1>7 DEF RecoverGiveUp, Return, gateVars
  <2>2. Starting' \subseteq Starting /\ RegisterHolds' /\ PhasesApart'
    BY <1>0, <2>1 DEF Starting, RegisterHolds, PhasesApart, TypeOK, Idle, Threads
  <2>. QED
    BY <1>0, <1>7, <2>2, QuietStep DEF RecoverGiveUp
<1>8. CASE StopAllNext
  <2>1. PICK s \in Sessions : Enter(Main, Asking("StopAll", "mark", s, None))
    BY <1>8 DEF StopAllNext, TypeOK
  <2>2. /\ thread' = [thread EXCEPT ![Main] = Asking("StopAll", "mark", s, None)]
        /\ gateway = "stopping" /\ gateway' = gateway
    BY <1>8, <2>1 DEF StopAllNext, Enter
  <2>3. Starting' \subseteq Starting /\ RegisterHolds' /\ PhasesApart'
    BY <1>0, <2>2 DEF Starting, RegisterHolds, PhasesApart, TypeOK, Asking, Threads
  <2>. QED
    BY <1>0, <1>8, <2>3, QuietStep DEF StopAllNext
<1>9. CASE RecoverNext
  <2>1. PICK r : /\ thread' = [thread EXCEPT ![Main] = r]
                 /\ r = thread[Main] \/ r.pc \in {"check", "giveup"}
    BY <1>9, <1>0 DEF RecoverNext, Enter, Asking, TypeOK
  <2>2. gateway = "recovering" /\ gateway' = gateway /\ thread[Main] = Idle
    BY <1>9 DEF RecoverNext
  <2>3. Starting' \subseteq Starting /\ RegisterHolds' /\ PhasesApart'
    BY <1>0, <2>1, <2>2 DEF Starting, RegisterHolds, PhasesApart, TypeOK, Threads, Idle
  <2>. QED
    BY <1>0, <1>9, <2>3, QuietStep DEF RecoverNext
<1>. QED
  BY <1>2, <1>3, <1>4, <1>5, <1>6, <1>7, <1>8, <1>9 DEF MainSteps

\* The invariant is inductive.
LEMMA HubNext == HubInv /\ [Next]_vars => HubInv'
<1>. SUFFICES ASSUME HubInv, [Next]_vars PROVE HubInv'
  OBVIOUS
<1>1. CASE UNCHANGED vars
  <2>1. TypeOK' /\ Starting' = Starting
    BY <1>1 DEF vars, HubInv, TypeOK, Starting
  <2>2. RegisterHolds' /\ PhasesApart'
    BY <1>1 DEF vars, HubInv, RegisterHolds, PhasesApart
  <2>. QED
    BY <1>1, <2>1, <2>2, QuietStep DEF vars, hubVars
<1>2. CASE Next
  BY <1>2, RequestsInv, StepsInv, ProcessInv, GatewayInv DEF Next
<1>. QED
  BY <1>1, <1>2

\* In every reachable state of the hub the invariant holds.
THEOREM HubInvariant == Spec => []HubInv
  BY HubInit, HubNext, PTL DEF Spec

\* No interleaving of Start, Stop, Delete, SwitchAccount, shutdown, crash and
\* exit callbacks leaves a stop flag on a session that is not registered: no
\* flag can be inherited by a later run of the session.
THEOREM StopFlagsNeverLinger == Spec => []StopRequestedOnlyRegistered
<1>1. HubInv => StopRequestedOnlyRegistered
  BY DEF HubInv
<1>. QED
  BY <1>1, HubInvariant, PTL

\* The cap, checked in one critical section and used in another, is exceeded by
\* at most one less than the number of request goroutines, for any number of
\* sessions, processes, goroutines and any cap.
THEOREM OvershootBounded == Spec => []CapacityOvershoot
<1>1. HubInv => CapacityOvershoot
  BY DEF HubInv
<1>. QED
  BY <1>1, HubInvariant, PTL

-----------------------------------------------------------------------------
(* What a session can rely on as long as requests on it do not overlap, and *)
(* that the hub implements SessionSlots.                                    *)

(* The invariant.                                                           *)

Watched == {"alive", "exited", "cleanup", "status", "emit", "announced"}

\* A session on which requests have not overlapped has one goroutine at most.
OneRequest ==
    \A t, u \in Threads :
        thread[t].id = thread[u].id /\ thread[t].id \in Sessions \ overlapped => t = u

\* A process that this gateway has spawned is of a session.
ProcessesNamed == \A p \in Pids : proc[p].stage \in Watched => proc[p].id \in Sessions

\* What is in the map, or about to be put there, is a process of the session.
EntriesOwn ==
    \A s \in Sessions : sessions[s] # None =>
        proc[sessions[s]].stage \in Watched /\ proc[sessions[s]].id = s
RegistersOwn ==
    \A t \in Threads : thread[t].pc = "register" =>
        proc[thread[t].ts].stage \in Watched /\ proc[thread[t].ts].id = thread[t].id

\* Start finds an empty entry as long as it is alone.
StartsEmpty ==
    \A t \in Starting : thread[t].id \notin overlapped => sessions[thread[t].id] = None

\* A process that has not been unregistered is in the map or about to be put there.
Held(p) ==
    \/ sessions[proc[p].id] = p
    \/ /\ sessions[proc[p].id] = None
       /\ \E t \in Threads : thread[t].pc = "register" /\ thread[t].ts = p
ProcessesHeld ==
    \A p \in Pids :
        proc[p].stage \in {"alive", "exited"} /\ proc[p].id \notin overlapped => Held(p)

\* The flag of a process that was asked to stop is there until it is unregistered.
AskedFlagged ==
    \A p \in asked :
        /\ proc[p].stage # "unspawned"
        /\ proc[p].stage \in {"alive", "exited"} /\ proc[p].id \notin overlapped
              => proc[p].id \in stopRequested

SlotInv ==
    /\ HubInv /\ OneRequest /\ ProcessesNamed /\ EntriesOwn /\ RegistersOwn /\ StartsEmpty
    /\ ProcessesHeld /\ AskedFlagged /\ RequestedStopReportsStopped

\* A SwitchAccount that starts the session again has rebound its row, and hands the
\* account on to the process.
Rebound(s, t) ==
    /\ row[s] # Unborn
    /\ s \notin overlapped /\ t.pc \in {"check", "load", "launch", "register", "status"} =>
          (Exists(s) => row[s].account = t.target)
    /\ s \notin overlapped /\ t.pc = "launch" => t.account = t.target
    /\ s \notin overlapped /\ t.pc \in {"register", "status"} =>
          /\ t.ts \in Pids
          /\ proc[t.ts].stage \in Watched
          /\ proc[t.ts].account = t.target
SwitchRebinds ==
    \A t \in Threads : thread[t].op = "Switch" /\ thread[t].pc # "idle" =>
        Rebound(thread[t].id, thread[t])

-----------------------------------------------------------------------------
(* It is inductive.                                                         *)

\* It holds before the first request.
LEMMA SlotInit == Init => SlotInv /\ SwitchRebinds
<1>. SUFFICES ASSUME Init PROVE SlotInv /\ SwitchRebinds
  OBVIOUS
<1>1. HubInv
  BY HubInit
<1>2. \A t \in Threads : thread[t] = Idle
  BY DEF Init
<1>3. OneRequest /\ RegistersOwn /\ StartsEmpty
  BY <1>2 DEF OneRequest, RegistersOwn, StartsEmpty, Starting, Idle
<1>4. ProcessesNamed /\ EntriesOwn /\ ProcessesHeld /\ AskedFlagged /\ RequestedStopReportsStopped
  BY DEF Init, ProcessesNamed, EntriesOwn, ProcessesHeld, AskedFlagged, RequestedStopReportsStopped,
         Unspawned, Watched
<1>5. SwitchRebinds
  BY <1>2 DEF SwitchRebinds, Idle, Ops
<1>. QED
  BY <1>1, <1>3, <1>4, <1>5 DEF SlotInv

\* Two processes of one session are not both waiting to be unregistered.
LEMMA OneHeld ==
    ASSUME SlotInv, NEW p \in Pids, NEW q \in Pids,
           proc[p].stage \in {"alive", "exited"}, proc[q].stage \in {"alive", "exited"},
           proc[p].id = proc[q].id, proc[p].id \notin overlapped
    PROVE  p = q
<1>1. Held(p) /\ Held(q) /\ proc[p].id \in Sessions
  BY DEF SlotInv, ProcessesHeld, ProcessesNamed, Watched
<1>2. CASE sessions[proc[p].id] # None
  BY <1>1, <1>2 DEF Held
<1>3. CASE sessions[proc[p].id] = None
  <2>1. PICK t \in Threads : thread[t].pc = "register" /\ thread[t].ts = p
    BY <1>1, <1>3 DEF Held
  <2>2. PICK u \in Threads : thread[u].pc = "register" /\ thread[u].ts = q
    BY <1>1, <1>3 DEF Held
  <2>3. thread[t].id = proc[p].id /\ thread[u].id = proc[q].id
    BY <2>1, <2>2 DEF SlotInv, RegistersOwn
  <2>. QED
    BY <1>1, <2>1, <2>2, <2>3 DEF SlotInv, OneRequest
<1>. QED
  BY <1>2, <1>3

\* A step of a goroutine that neither launches nor registers: it goes on within its
\* request or ends it, and may flag the process of its session.
LEMMA MoveStep ==
    ASSUME SlotInv, HubInv', NEW t \in Threads,
           UNCHANGED <<sessions, proc, overlapped>>,
           \A u \in Threads \ {t} : thread'[u] = thread[u],
           thread'[t].id = thread[t].id \/ thread'[t].id \notin Sessions,
           thread[t].pc # "register", thread'[t].pc # "register",
           thread'[t].pc \in {"load", "launch"} =>
              /\ thread'[t].id = thread[t].id
              /\ thread[t].pc \in {"load", "launch"} \/ sessions[thread[t].id] = None,
           stopRequested \subseteq stopRequested',
           \A p \in asked' : \/ p \in asked
                             \/ proc[p].stage = "alive" /\ proc[p].id \in stopRequested'
    PROVE  SlotInv'
<1>. USE DEF SlotInv
<1>1. OneRequest'
  BY DEF OneRequest
<1>2. ProcessesNamed' /\ EntriesOwn'
  BY DEF ProcessesNamed, EntriesOwn
<1>3. RegistersOwn'
  BY DEF RegistersOwn
<1>4. StartsEmpty'
  BY DEF StartsEmpty, Starting
<1>5. ProcessesHeld'
  BY DEF ProcessesHeld, Held
<1>6. AskedFlagged'
  BY DEF AskedFlagged
<1>7. RequestedStopReportsStopped'
  BY DEF RequestedStopReportsStopped
<1>. QED
  BY <1>1, <1>2, <1>3, <1>4, <1>5, <1>6, <1>7

\* A goroutine takes up a request.
LEMMA EnterStep ==
    ASSUME SlotInv, HubInv', NEW t \in Threads, NEW r, thread[t] = Idle, Enter(t, r),
           r.id \in Sessions, r.pc \notin {"load", "launch", "register"},
           UNCHANGED <<sessions, stopRequested, proc, asked>>
    PROVE  SlotInv'
<1>. USE DEF SlotInv
<1>0. TypeOK /\ thread'[t] = r /\ \A u \in Threads \ {t} : thread'[u] = thread[u]
  BY DEF HubInv, TypeOK, Enter
<1>1. overlapped \subseteq overlapped'
      /\ ((\E u \in Threads \ {t} : thread[u].id = r.id) => r.id \in overlapped')
  BY DEF Enter
<1>2. OneRequest'
  <2>. SUFFICES ASSUME NEW u \in Threads, NEW v \in Threads, thread'[u].id = thread'[v].id,
                       thread'[u].id \in Sessions \ overlapped'
                PROVE  u = v
    BY DEF OneRequest
  <2>1. CASE u # t /\ v # t
    BY <1>0, <1>1, <2>1 DEF OneRequest
  <2>2. CASE u = t \/ v = t
    BY <1>0, <1>1, <2>2
  <2>. QED
    BY <2>1, <2>2
<1>3. ProcessesNamed' /\ EntriesOwn'
  BY DEF ProcessesNamed, EntriesOwn
<1>4. RegistersOwn'
  BY <1>0 DEF RegistersOwn
<1>5. StartsEmpty'
  BY <1>0, <1>1 DEF StartsEmpty, Starting
<1>6. ProcessesHeld'
  <2>1. thread[t].pc # "register"
    BY DEF Idle
  <2>. QED
    BY <1>0, <1>1, <2>1 DEF ProcessesHeld, Held
<1>7. AskedFlagged' /\ RequestedStopReportsStopped'
  BY <1>1 DEF AskedFlagged, RequestedStopReportsStopped
<1>. QED
  BY <1>2, <1>3, <1>4, <1>5, <1>6, <1>7

\* A step that touches nothing of this.
LEMMA StayStep ==
    ASSUME SlotInv, HubInv', UNCHANGED <<sessions, stopRequested, proc, asked, thread, overlapped>>
    PROVE  SlotInv'
<1>. USE DEF SlotInv
<1>1. OneRequest' /\ ProcessesNamed' /\ EntriesOwn' /\ RegistersOwn'
  BY DEF OneRequest, ProcessesNamed, EntriesOwn, RegistersOwn
<1>2. StartsEmpty' /\ ProcessesHeld'
  BY DEF StartsEmpty, Starting, ProcessesHeld, Held
<1>3. AskedFlagged' /\ RequestedStopReportsStopped'
  BY DEF AskedFlagged, RequestedStopReportsStopped
<1>. QED
  BY <1>1, <1>2, <1>3

\* A launch brings a process of its session and goes on to register it.
LEMMA LaunchStep ==
    ASSUME SlotInv, HubInv', NEW t \in Threads, thread[t].pc = "launch", thread[t].id \in Sessions,
           NEW p \in Fresh, NEW account,
           proc' = [proc EXCEPT ![p] = [stage |-> "alive", id |-> thread[t].id,
                                        account |-> account, final |-> "stopped"]],
           thread' = [thread EXCEPT ![t].pc = "register", ![t].ts = p, ![t].account = None],
           UNCHANGED <<sessions, stopRequested, asked, overlapped>>
    PROVE  SlotInv'
<1>. USE DEF SlotInv
<1>0. TypeOK /\ p \in Pids /\ proc[p].stage = "unspawned" /\ None \notin Pids
  BY DEF HubInv, Fresh
<1>1. /\ proc'[p].stage = "alive" /\ proc'[p].id = thread[t].id
      /\ \A q \in Pids \ {p} : proc'[q] = proc[q]
  BY <1>0 DEF TypeOK
<1>2. thread[t] \in Request
  BY <1>0 DEF TypeOK, Idle
<1>3. /\ thread'[t].id = thread[t].id /\ thread'[t].pc = "register" /\ thread'[t].ts = p
      /\ \A u \in Threads \ {t} : thread'[u] = thread[u]
  BY <1>0, <1>2 DEF TypeOK, Request
<1>4. OneRequest'
  <2>1. \A u \in Threads : thread'[u].id = thread[u].id
    BY <1>3
  <2>. QED
    BY <2>1 DEF OneRequest
<1>5. ProcessesNamed'
  BY <1>1 DEF ProcessesNamed
<1>6. EntriesOwn'
  <2>. SUFFICES ASSUME NEW s \in Sessions, sessions[s] # None
                PROVE  proc'[sessions[s]].stage \in Watched /\ proc'[sessions[s]].id = s
    BY DEF EntriesOwn
  <2>1. sessions[s] \in Pids /\ sessions[s] # p
    BY <1>0 DEF TypeOK, EntriesOwn, Watched
  <2>. QED
    BY <1>1, <2>1 DEF EntriesOwn
<1>7. RegistersOwn'
  <2>. SUFFICES ASSUME NEW u \in Threads, thread'[u].pc = "register"
                PROVE  proc'[thread'[u].ts].stage \in Watched
                       /\ proc'[thread'[u].ts].id = thread'[u].id
    BY DEF RegistersOwn
  <2>1. CASE u = t
    BY <1>1, <1>3, <2>1 DEF Watched
  <2>2. CASE u # t
    <3>1. thread[u].ts \in Pids /\ thread[u].ts # p
      BY <1>0, <1>3, <2>2 DEF HubInv, RegisterHolds, RegistersOwn, Watched
    <3>. QED
      <4>1. thread'[u] = thread[u] /\ proc'[thread[u].ts] = proc[thread[u].ts]
        BY <1>1, <1>3, <2>2, <3>1
      <4>. QED
        BY <4>1 DEF RegistersOwn
  <2>. QED
    BY <2>1, <2>2
<1>8. StartsEmpty'
  <2>1. \A u \in Starting' : u \in Starting /\ thread'[u].id = thread[u].id
    BY <1>3 DEF Starting
  <2>2. sessions' = sessions /\ overlapped' = overlapped
    OBVIOUS
  <2>3. \A u \in Starting' : thread'[u].id \notin overlapped => sessions[thread'[u].id] = None
    BY <2>1 DEF StartsEmpty
  <2>. QED
    BY <2>2, <2>3 DEF StartsEmpty
<1>9. ProcessesHeld'
  <2>. SUFFICES ASSUME NEW q \in Pids, proc'[q].stage \in {"alive", "exited"},
                       proc'[q].id \notin overlapped
                PROVE  Held(q)'
    BY DEF ProcessesHeld
  <2>1. CASE q = p
    <3>1. sessions[thread[t].id] = None
      BY <1>1, <2>1 DEF StartsEmpty, Starting
    <3>. QED
      BY <1>1, <1>3, <2>1, <3>1 DEF Held
  <2>2. CASE q # p
    <3>1. Held(q) /\ proc'[q] = proc[q]
      BY <1>1, <2>2 DEF ProcessesHeld
    <3>. QED
      BY <1>3, <3>1 DEF Held
  <2>. QED
    BY <2>1, <2>2
<1>10. AskedFlagged' /\ RequestedStopReportsStopped'
  <2>1. p \notin asked /\ asked \subseteq Pids
    BY <1>0 DEF AskedFlagged, TypeOK
  <2>. QED
    BY <1>1, <2>1 DEF AskedFlagged, RequestedStopReportsStopped
<1>. QED
  BY <1>4, <1>5, <1>6, <1>7, <1>8, <1>9, <1>10

\* A registration puts its process into an entry that is empty if it is alone.
LEMMA RegisterSlot ==
    ASSUME SlotInv, HubInv', NEW t \in Threads, StartRegister(t)
    PROVE  SlotInv'
<1>. USE DEF SlotInv
<1>0. /\ TypeOK /\ thread[t].pc = "register" /\ thread[t].ts \in Pids
      /\ UNCHANGED <<stopRequested, proc, asked, overlapped>>
  BY DEF HubInv, StartRegister, At, RegisterHolds, procVars
<1>1. thread[t] \in Request /\ thread[t].id \in Sessions
  BY <1>0 DEF TypeOK, Idle, Request
<1>2. /\ thread'[t].id = thread[t].id /\ thread'[t].pc = "status"
      /\ \A u \in Threads \ {t} : thread'[u] = thread[u]
  BY <1>0, <1>1 DEF StartRegister, Go, TypeOK, Request
<1>3. /\ sessions'[thread[t].id] = thread[t].ts
      /\ \A s \in Sessions \ {thread[t].id} : sessions'[s] = sessions[s]
  BY <1>0, <1>1 DEF StartRegister, TypeOK
<1>4. OneRequest'
  BY <1>0, <1>2 DEF OneRequest
<1>5. ProcessesNamed'
  BY <1>0 DEF ProcessesNamed
<1>6. EntriesOwn'
  BY <1>0, <1>3 DEF EntriesOwn, RegistersOwn
<1>7. RegistersOwn'
  BY <1>0, <1>2 DEF RegistersOwn
<1>8. StartsEmpty'
  <2>. SUFFICES ASSUME NEW u \in Starting', thread'[u].id \notin overlapped
                PROVE  sessions'[thread'[u].id] = None
    BY <1>0 DEF StartsEmpty
  <2>1. u \in Threads /\ u # t /\ u \in Starting /\ thread'[u] = thread[u]
    BY <1>2 DEF Starting
  <2>2. thread[u].id \in Sessions
    BY <1>0, <2>1 DEF TypeOK, Starting, Idle, Request
  <2>3. thread[u].id # thread[t].id
    BY <2>1, <2>2 DEF OneRequest
  <2>. QED
    BY <1>3, <2>1, <2>2, <2>3 DEF StartsEmpty
<1>9. ProcessesHeld'
  <2>. SUFFICES ASSUME NEW q \in Pids, proc[q].stage \in {"alive", "exited"},
                       proc[q].id \notin overlapped
                PROVE  Held(q)'
    BY <1>0 DEF ProcessesHeld
  <2>1. Held(q) /\ proc[q].id \in Sessions
    BY DEF ProcessesHeld, ProcessesNamed, Watched
  <2>2. CASE proc[q].id = thread[t].id
    <3>1. sessions[thread[t].id] = None
      BY <1>0, <2>2 DEF StartsEmpty, Starting
    <3>2. PICK u \in Threads : thread[u].pc = "register" /\ thread[u].ts = q
      BY <2>1, <2>2, <3>1 DEF Held
    <3>3. thread[u].id = thread[t].id
      BY <2>2, <3>2 DEF RegistersOwn
    <3>4. u = t
      BY <1>1, <2>2, <3>3 DEF OneRequest
    <3>. QED
      BY <1>0, <1>3, <2>2, <3>2, <3>4 DEF Held
  <2>3. CASE proc[q].id # thread[t].id
    <3>1. sessions'[proc[q].id] = sessions[proc[q].id]
      BY <1>3, <2>1, <2>3
    <3>2. \A u \in Threads : thread[u].pc = "register" /\ thread[u].ts = q =>
             thread'[u] = thread[u]
      BY <1>2, <2>3 DEF RegistersOwn
    <3>. QED
      BY <1>0, <2>1, <3>1, <3>2 DEF Held
  <2>. QED
    BY <2>2, <2>3
<1>10. AskedFlagged' /\ RequestedStopReportsStopped'
  BY <1>0 DEF AskedFlagged, RequestedStopReportsStopped
<1>. QED
  BY <1>4, <1>5, <1>6, <1>7, <1>8, <1>9, <1>10

\* A process and its callback go on, past the unregistration or before it.
LEMMA AdvanceStep ==
    ASSUME SlotInv, HubInv', NEW p \in Pids, NEW new,
           UNCHANGED <<sessions, stopRequested, asked, thread, overlapped>>,
           proc' = [proc EXCEPT ![p] = new],
           proc[p].stage \in Watched => new.stage \in Watched /\ new.id = proc[p].id,
           new.stage \in Watched => proc[p].stage \in Watched,
           proc[p].stage # "unspawned", new.stage # "unspawned",
           new.stage \in {"alive", "exited"} => proc[p].stage \in {"alive", "exited"},
           new.stage \in {"cleanup", "status"} =>
              proc[p].stage \in {"cleanup", "status"} /\ new.final = proc[p].final
    PROVE  SlotInv'
<1>. USE DEF SlotInv
<1>0. TypeOK /\ proc'[p] = new /\ \A q \in Pids \ {p} : proc'[q] = proc[q]
  BY DEF HubInv, TypeOK
<1>1. OneRequest' /\ StartsEmpty'
  BY DEF OneRequest, StartsEmpty, Starting
<1>2. ProcessesNamed'
  BY <1>0 DEF ProcessesNamed
<1>3. \A q \in Pids : \A s : proc[q].stage \in Watched /\ proc[q].id = s =>
         proc'[q].stage \in Watched /\ proc'[q].id = s
  BY <1>0
<1>4. EntriesOwn'
  BY <1>0, <1>3 DEF EntriesOwn, TypeOK
<1>5. RegistersOwn'
  BY <1>3 DEF RegistersOwn, HubInv, RegisterHolds
<1>6. ProcessesHeld'
  <2>1. \A q \in Pids : proc'[q].stage \in {"alive", "exited"} =>
           proc[q].stage \in {"alive", "exited"} /\ proc'[q].id = proc[q].id
    BY <1>0 DEF Watched
  <2>. QED
    BY <2>1 DEF ProcessesHeld, Held
<1>7. AskedFlagged'
  BY <1>0 DEF AskedFlagged, Watched, TypeOK
<1>8. RequestedStopReportsStopped'
  BY <1>0 DEF RequestedStopReportsStopped, Watched, TypeOK
<1>. QED
  BY <1>1, <1>2, <1>4, <1>5, <1>6, <1>7, <1>8

\* So it does by the callback's own steps.
LEMMA AdvanceKeeps ==
    ASSUME SlotInv, HubInv', NEW p \in Pids, NEW stage \in Watched, NEW final, Advance(p, stage, final),
           UNCHANGED <<sessions, stopRequested, asked, thread, overlapped>>,
           proc[p].stage \in Watched,
           stage \in {"alive", "exited"} => proc[p].stage \in {"alive", "exited"},
           stage \in {"cleanup", "status"} =>
              proc[p].stage \in {"cleanup", "status"} /\ final = proc[p].final
    PROVE  SlotInv'
<1>. DEFINE new == [stage |-> stage, id |-> proc[p].id, account |-> proc[p].account, final |-> final]
<1>1. /\ proc' = [proc EXCEPT ![p] = new]
      /\ new.stage = stage /\ new.id = proc[p].id /\ new.final = final
  BY DEF Advance
<1>2. proc[p].stage # "unspawned" /\ stage # "unspawned"
  BY DEF Watched
<1>. HIDE DEF new
<1>. QED
  BY <1>1, <1>2, AdvanceStep

\* The exit callback takes the entry of its session: that of its own process, if
\* requests have not overlapped, or none.
LEMMA UnregisterStep ==
    ASSUME SlotInv, HubInv', NEW p \in Pids, ExitUnregister(p)
    PROVE  SlotInv'
<1>. USE DEF SlotInv
<1>. DEFINE s == proc[p].id
<1>0. /\ TypeOK /\ proc[p].stage = "exited" /\ s \in Sessions
      /\ UNCHANGED <<asked, thread, overlapped>>
      /\ sessions' = [sessions EXCEPT ![s] = None] /\ stopRequested' = stopRequested \ {s}
  BY DEF HubInv, ExitUnregister, ProcessesNamed, Watched
<1>1. /\ proc'[p].stage = "cleanup" /\ proc'[p].id = s
      /\ s \in stopRequested => proc'[p].final = "stopped"
      /\ \A q \in Pids \ {p} : proc'[q] = proc[q]
  BY <1>0 DEF ExitUnregister, Advance, TypeOK
<1>2. sessions'[s] = None /\ \A u \in Sessions \ {s} : sessions'[u] = sessions[u]
  BY <1>0 DEF TypeOK
<1>3. \A q \in Pids \ {p} : proc[q].stage \in {"alive", "exited"} /\ proc[q].id \notin overlapped
                              => proc[q].id # s
  BY <1>0, OneHeld
<1>4. OneRequest'
  BY <1>0 DEF OneRequest
<1>5. ProcessesNamed'
  BY <1>0, <1>1 DEF ProcessesNamed
<1>6. \A q \in Pids : \A u : proc[q].stage \in Watched /\ proc[q].id = u =>
         proc'[q].stage \in Watched /\ proc'[q].id = u
  BY <1>1 DEF Watched
<1>7. EntriesOwn'
  <2>. SUFFICES ASSUME NEW u \in Sessions, sessions'[u] # None
                PROVE  proc'[sessions'[u]].stage \in Watched /\ proc'[sessions'[u]].id = u
    BY DEF EntriesOwn
  <2>1. sessions'[u] = sessions[u] /\ sessions[u] \in Pids
    BY <1>0, <1>2 DEF TypeOK
  <2>. QED
    BY <1>6, <2>1 DEF EntriesOwn
<1>8. RegistersOwn'
  BY <1>0, <1>6 DEF RegistersOwn, HubInv, RegisterHolds
<1>9. StartsEmpty'
  <2>1. \A t \in Starting : thread[t].id \in Sessions
    BY <1>0 DEF TypeOK, Starting, Idle, Request
  <2>. QED
    BY <1>0, <1>2, <2>1 DEF StartsEmpty, Starting
<1>10. ProcessesHeld'
  <2>. SUFFICES ASSUME NEW q \in Pids, proc'[q].stage \in {"alive", "exited"},
                       proc'[q].id \notin overlapped
                PROVE  Held(q)'
    BY <1>0 DEF ProcessesHeld
  <2>1. q # p /\ proc'[q] = proc[q] /\ proc[q].id # s /\ proc[q].id \in Sessions
    BY <1>1, <1>3 DEF ProcessesNamed, Watched
  <2>2. Held(q) /\ sessions'[proc[q].id] = sessions[proc[q].id]
    BY <1>2, <2>1 DEF ProcessesHeld
  <2>. QED
    BY <1>0, <2>1, <2>2 DEF Held
<1>11. AskedFlagged'
  <2>1. asked \subseteq Pids
    BY <1>0 DEF TypeOK
  <2>. QED
    BY <1>0, <1>1, <1>3, <2>1 DEF AskedFlagged
<1>12. RequestedStopReportsStopped'
  <2>1. asked \subseteq Pids
    BY <1>0 DEF TypeOK
  <2>2. p \in asked /\ s \notin overlapped => s \in stopRequested
    BY <1>0 DEF AskedFlagged
  <2>. QED
    BY <1>0, <1>1, <2>1, <2>2 DEF RequestedStopReportsStopped
<1>. QED
  BY <1>4, <1>5, <1>7, <1>8, <1>9, <1>10, <1>11, <1>12

\* With the gateway everything it held in memory is gone.
LEMMA GoneStep ==
    ASSUME SlotInv, HubInv', NEW survivors, GatewayGone(survivors)
    PROVE  SlotInv'
<1>. USE DEF SlotInv
<1>1. \A t \in Threads : thread'[t] = Idle
  BY DEF GatewayGone
<1>2. OneRequest' /\ RegistersOwn' /\ StartsEmpty'
  BY <1>1 DEF OneRequest, RegistersOwn, StartsEmpty, Starting, Idle
<1>3. \A p \in Pids : proc'[p].stage \in {"orphan", "unspawned", "lost"}
  BY DEF GatewayGone, Lost, Unspawned, HubInv, TypeOK, Process
<1>4. ProcessesNamed' /\ ProcessesHeld'
  BY <1>3 DEF ProcessesNamed, ProcessesHeld, Watched
<1>5. EntriesOwn' /\ AskedFlagged' /\ RequestedStopReportsStopped'
  BY DEF GatewayGone, EntriesOwn, AskedFlagged, RequestedStopReportsStopped
<1>. QED
  BY <1>2, <1>4, <1>5

\* How far a step of a goroutine that is not in Start's critical sections takes it.
LEMMA StepsMove ==
    ASSUME TypeOK, NEW t \in Threads, Steps(t)
    PROVE  \/ StartRegister(t)
           \/ StartLaunch(t)
           \/ MarkStop(t)
           \/ /\ UNCHANGED <<sessions, stopRequested, proc, asked, overlapped>>
              /\ thread[t].pc # "register" /\ thread'[t].pc # "register"
              /\ thread'[t].id = thread[t].id \/ thread'[t] = Idle
              /\ thread'[t].pc \in {"load", "launch"} =>
                    \/ thread[t].pc \in {"load", "launch"}
                    \/ sessions[thread[t].id] = None
<1>. USE DEF hubVars, procVars
<1>1. thread[t] \in Request
  BY OwnStep
<1>2. CASE StartCheck(t)
  BY <1>1, <1>2 DEF StartCheck, At, Go, Return, StartFails, TypeOK, Idle, Request
<1>3. CASE StartLoad(t)
  BY <1>1, <1>3 DEF StartLoad, At, Go, Return, StartFails, TypeOK, Idle, Request
<1>4. CASE StartStatus(t)
  BY <1>1, <1>4 DEF StartStatus, At, Go, Return, TypeOK, Idle, Request
<1>5. CASE SignalReturns(t)
  BY <1>1, <1>5 DEF SignalReturns, At, Go, Return, TypeOK, Idle, Request
<1>6. CASE DeleteWait(t)
  BY <1>1, <1>6 DEF DeleteWait, At, Go, Return, TypeOK, Idle, Request
<1>7. CASE DeleteRow(t)
  BY <1>1, <1>7 DEF DeleteRow, At, Go, Return, TypeOK, Idle, Request
<1>8. CASE SwitchLoad(t)
  BY <1>1, <1>8 DEF SwitchLoad, At, Go, Return, TypeOK, Idle, Request
<1>9. CASE SwitchLook(t)
  BY <1>1, <1>9 DEF SwitchLook, At, Go, Return, TypeOK, Idle, Request
<1>10. CASE SwitchPoll(t)
  BY <1>1, <1>10 DEF SwitchPoll, At, Go, Return, TypeOK, Idle, Request
<1>11. CASE SwitchBind(t)
  BY <1>1, <1>11 DEF SwitchBind, At, Go, Return, TypeOK, Idle, Request
<1>. QED
  BY <1>2, <1>3, <1>4, <1>5, <1>6, <1>7, <1>8, <1>9, <1>10, <1>11
     DEF Steps, StartSteps, StopSteps, DeleteSteps, SwitchSteps

\* A goroutine that does not go on from a launch leaves the request, or gives it up.
LEMMA FailsMove ==
    ASSUME TypeOK, NEW t \in Threads, thread[t] \in Request, StartFails(t)
    PROVE  /\ thread'[t].pc \in {"giveup", "idle"}
           /\ thread'[t].id = thread[t].id \/ thread'[t] = Idle
  BY DEF StartFails, Go, Return, TypeOK, Idle, Request

\* Every step of a goroutine keeps the invariant.
LEMMA StepsSlot ==
    ASSUME SlotInv, NEW t \in Threads, Steps(t)
    PROVE  SlotInv'
<1>. USE DEF SlotInv
<1>1. HubInv' /\ TypeOK /\ thread[t] \in Request /\ Idle.id \notin Sessions
      /\ \A u \in Threads \ {t} : thread'[u] = thread[u]
  BY StepsInv, OwnStep DEF HubInv, Idle
<1>2. CASE StartRegister(t)
  BY <1>1, <1>2, RegisterSlot
<1>3. CASE StartLaunch(t)
  <2>1. /\ UNCHANGED <<sessions, stopRequested, asked, overlapped>>
        /\ thread[t].pc = "launch" /\ thread[t].id \in Sessions
    BY <1>1, <1>3 DEF StartLaunch, At, hubVars, Request
  <2>2. CASE StartFails(t) /\ proc' = proc
    <3>1. /\ thread'[t].pc \in {"giveup", "idle"}
          /\ thread'[t].id = thread[t].id \/ thread'[t] = Idle
      BY <1>1, <2>2, FailsMove
    <3>. QED
      BY <1>1, <2>1, <2>2, <3>1, MoveStep
  <2>3. CASE ~(StartFails(t) /\ proc' = proc)
    <3>. DEFINE p == CHOOSE q \in Fresh : TRUE
    <3>1. /\ p \in Fresh
          /\ proc' = [proc EXCEPT ![p] = [stage |-> "alive", id |-> thread[t].id,
                                    account |-> thread[t].account, final |-> "stopped"]]
          /\ thread' = [thread EXCEPT ![t].pc = "register", ![t].ts = p, ![t].account = None]
      BY <1>3, <2>3 DEF StartLaunch
    <3>. HIDE DEF p
    <3>. QED
      BY <1>1, <2>1, <3>1, LaunchStep
  <2>. QED
    BY <2>2, <2>3
<1>4. CASE MarkStop(t)
  <2>. DEFINE s == thread[t].id
  <2>1. /\ UNCHANGED <<sessions, proc, overlapped>> /\ thread[t].pc = "mark" /\ s \in Sessions
    BY <1>1, <1>4 DEF MarkStop, At, Request
  <2>2. /\ thread'[t].pc \in {"signal", "remove", "idle"}
        /\ thread'[t].id = s \/ thread'[t] = Idle
    BY <1>1, <1>4 DEF MarkStop, Go, Return, TypeOK, Request, Idle
  <2>3. stopRequested \subseteq stopRequested'
    BY <1>4 DEF MarkStop
  <2>4. \A p \in asked' : \/ p \in asked
                          \/ proc[p].stage = "alive" /\ proc[p].id \in stopRequested'
    <3>1. CASE s \in Registered
      <4>1. /\ stopRequested' = stopRequested \cup {s}
            /\ asked' = asked \cup {p \in {sessions[s]} : Alive(p)}
        BY <1>4, <3>1 DEF MarkStop
      <4>2. proc[sessions[s]].stage \in Watched /\ proc[sessions[s]].id = s
        BY <3>1 DEF Registered, EntriesOwn
      <4>. QED
        BY <4>1, <4>2 DEF Alive, Watched
    <3>2. CASE s \notin Registered
      BY <1>4, <3>2 DEF MarkStop
    <3>. QED
      BY <3>1, <3>2
  <2>. HIDE DEF s
  <2>. QED
    BY <1>1, <2>1, <2>2, <2>3, <2>4, MoveStep DEF s
<1>5. CASE /\ UNCHANGED <<sessions, stopRequested, proc, asked, overlapped>>
           /\ thread[t].pc # "register" /\ thread'[t].pc # "register"
           /\ thread'[t].id = thread[t].id \/ thread'[t] = Idle
           /\ thread'[t].pc \in {"load", "launch"} =>
                 \/ thread[t].pc \in {"load", "launch"}
                 \/ sessions[thread[t].id] = None
  <2>1. thread'[t].pc \in {"load", "launch"} => thread'[t].id = thread[t].id
    BY <1>5 DEF Idle
  <2>. QED
    BY <1>1, <1>5, <2>1, MoveStep
<1>. QED
  BY <1>1, <1>2, <1>3, <1>4, <1>5, StepsMove

\* So does taking up a request,
LEMMA RequestsSlot ==
    ASSUME SlotInv, NEW c \in Callers, Create(c) \/ Begin(c)
    PROVE  SlotInv'
<1>1. HubInv' /\ c \in Threads
  BY RequestsInv DEF SlotInv, Threads
<1>2. CASE Create(c)
  BY <1>1, <1>2, StayStep DEF Create, hubVars, procVars
<1>3. CASE Begin(c)
  <2>1. \A op, pc, s, a : Asking(op, pc, s, a).pc = pc /\ Asking(op, pc, s, a).id = s
    BY DEF Asking
  <2>2. PICK s \in Sessions :
           \/ Enter(c, Asking("Start", "check", s, None))
           \/ Enter(c, Asking("Stop", "mark", s, None))
           \/ Enter(c, Asking("Delete", "mark", s, None))
           \/ \E a \in Accounts : Enter(c, Asking("Switch", "switch", s, a))
    BY <1>3, Zenon DEF Begin
  <2>3. PICK r : Enter(c, r) /\ r.id = s /\ r.pc \in {"check", "mark", "switch"}
    <3>1. CASE Enter(c, Asking("Start", "check", s, None))
      BY <2>1, <3>1
    <3>2. CASE Enter(c, Asking("Stop", "mark", s, None))
      BY <2>1, <3>2
    <3>3. CASE Enter(c, Asking("Delete", "mark", s, None))
      BY <2>1, <3>3
    <3>4. CASE \E a \in Accounts : Enter(c, Asking("Switch", "switch", s, a))
      BY <2>1, <3>4
    <3>. QED
      BY <2>2, <3>1, <3>2, <3>3, <3>4
  <2>4. thread[c] = Idle /\ UNCHANGED <<sessions, stopRequested, proc, asked>>
    BY <1>3 DEF Begin, hubVars, procVars
  <2>. QED
    BY <1>1, <2>3, <2>4, EnterStep
<1>. QED
  BY <1>2, <1>3

\* every step of a process and its exit callback,
LEMMA ProcessSlot ==
    ASSUME SlotInv, NEW p \in Pids, ProcessExit(p) \/ ExitCallback(p) \/ OrphanExit(p)
    PROVE  SlotInv'
<1>. USE DEF hubVars
<1>0. HubInv'
  BY ProcessInv DEF SlotInv
<1>1. CASE ProcessExit(p)
  <2>1. /\ UNCHANGED <<sessions, stopRequested, asked, thread, overlapped>>
        /\ proc[p].stage = "alive" /\ Advance(p, "exited", "stopped")
    BY <1>1 DEF ProcessExit
  <2>. QED
    BY <1>0, <2>1, AdvanceKeeps DEF Watched
<1>2. CASE ExitUnregister(p)
  BY <1>0, <1>2, UnregisterStep
<1>3. CASE ExitCleanup(p)
  <2>1. /\ UNCHANGED <<sessions, stopRequested, asked, thread, overlapped>>
        /\ proc[p].stage = "cleanup" /\ Advance(p, "status", proc[p].final)
    BY <1>3 DEF ExitCleanup
  <2>. QED
    BY <1>0, <2>1, AdvanceKeeps DEF Watched
<1>4. CASE ExitStatus(p)
  <2>1. /\ UNCHANGED <<sessions, stopRequested, asked, thread, overlapped>>
        /\ proc[p].stage = "status" /\ Advance(p, "emit", "stopped")
    BY <1>4 DEF ExitStatus
  <2>. QED
    BY <1>0, <2>1, AdvanceKeeps DEF Watched
<1>5. CASE ExitEmit(p)
  <2>1. /\ UNCHANGED <<sessions, stopRequested, asked, thread, overlapped>>
        /\ proc[p].stage = "emit" /\ Advance(p, "announced", "stopped")
    BY <1>5 DEF ExitEmit
  <2>. QED
    BY <1>0, <2>1, AdvanceKeeps DEF Watched
<1>6. CASE OrphanExit(p)
  <2>1. Lost.stage = "lost" /\ "lost" \notin Watched
    BY DEF Lost, Watched
  <2>2. /\ UNCHANGED <<sessions, stopRequested, asked, thread, overlapped>>
        /\ proc[p].stage = "orphan" /\ proc' = [proc EXCEPT ![p] = Lost]
    BY <1>6 DEF OrphanExit
  <2>3. "orphan" \notin Watched
    BY DEF Watched
  <2>. QED
    BY <1>0, <2>1, <2>2, <2>3, AdvanceStep
<1>. QED
  BY <1>1, <1>2, <1>3, <1>4, <1>5, <1>6 DEF ExitCallback

\* and every step of the gateway.
LEMMA GatewaySlot ==
    ASSUME SlotInv, MainSteps \/ Crash \/ Shutdown \/ Boot
    PROVE  SlotInv'
<1>. USE DEF hubVars, procVars
<1>0. HubInv' /\ TypeOK /\ Main \in Threads
  BY GatewayInv DEF SlotInv, HubInv, Threads
<1>1. CASE Crash \/ Exit
  BY <1>0, <1>1, GoneStep DEF Crash, Exit
<1>2. CASE Shutdown \/ Boot \/ Serve
  BY <1>0, <1>2, StayStep DEF Shutdown, Boot, Serve
<1>3. CASE StopAllNext
  <2>1. PICK s \in todo : Enter(Main, Asking("StopAll", "mark", s, None))
    BY <1>3 DEF StopAllNext
  <2>2. s \in Sessions /\ Asking("StopAll", "mark", s, None).id = s
        /\ Asking("StopAll", "mark", s, None).pc = "mark"
    BY <1>0 DEF TypeOK, Asking
  <2>. QED
    BY <1>0, <1>3, <2>1, <2>2, EnterStep DEF StopAllNext
<1>4. CASE RecoverNext
  <2>1. PICK s \in todo : \/ UNCHANGED <<thread, overlapped>>
                          \/ Enter(Main, Asking("Recover", IF s \in Resumable THEN "check"
                                                                         ELSE "giveup", s, None))
    BY <1>4 DEF RecoverNext
  <2>2. thread[Main] = Idle /\ UNCHANGED <<sessions, stopRequested, proc, asked>>
    BY <1>4 DEF RecoverNext
  <2>3. CASE UNCHANGED <<thread, overlapped>>
    BY <1>0, <2>2, <2>3, StayStep
  <2>4. CASE Enter(Main, Asking("Recover", IF s \in Resumable THEN "check" ELSE "giveup", s, None))
    <3>. DEFINE r == Asking("Recover", IF s \in Resumable THEN "check" ELSE "giveup", s, None)
    <3>1. r.id \in Sessions /\ r.pc \in {"check", "giveup"}
      BY <1>0 DEF TypeOK, Asking
    <3>. HIDE DEF r
    <3>. QED
      BY <1>0, <2>2, <2>4, <3>1, EnterStep DEF r
  <2>. QED
    BY <2>1, <2>3, <2>4
<1>5. CASE RecoverGiveUp
  <2>1. /\ thread' = [thread EXCEPT ![Main] = Idle] /\ thread[Main].pc = "giveup"
        /\ UNCHANGED <<sessions, stopRequested, proc, asked, overlapped>>
    BY <1>5 DEF RecoverGiveUp, Return, At
  <2>2. thread'[Main] = Idle /\ \A u \in Threads \ {Main} : thread'[u] = thread[u]
    BY <1>0, <2>1 DEF TypeOK
  <2>. QED
    BY <1>0, <2>1, <2>2, MoveStep DEF Idle
<1>. QED
  BY <1>1, <1>2, <1>3, <1>4, <1>5 DEF MainSteps

\* The invariant is inductive.
LEMMA SlotNext == SlotInv /\ [Next]_vars => SlotInv'
<1>. SUFFICES ASSUME SlotInv, [Next]_vars PROVE SlotInv'
  OBVIOUS
<1>1. CASE UNCHANGED vars
  <2>1. HubInv'
    BY HubNext DEF SlotInv
  <2>. QED
    BY <1>1, <2>1, StayStep DEF vars
<1>2. CASE Next
  BY <1>2, RequestsSlot, StepsSlot, ProcessSlot, GatewaySlot DEF Next
<1>. QED
  BY <1>1, <1>2

\* In every reachable state of the hub the invariant holds.
THEOREM SlotInvariant == Spec => []SlotInv
<1>1. Init => SlotInv
  BY SlotInit
<1>. QED
  BY <1>1, SlotNext, PTL DEF Spec

\* A request that is alone on its session can rely on it: no process escapes the hub,
\* whatever its callers' waits and the callbacks of earlier processes do, and one it has
\* asked to stop is reported as stopped.
THEOREM RequestsUndisturbed == Spec => []UndisturbedRequests
<1>1. SlotInv => UndisturbedRequests
  <2>. SUFFICES ASSUME SlotInv PROVE EveryProcessHeld
    BY DEF UndisturbedRequests, SlotInv
  <2>. QED
    BY DEF SlotInv, ProcessesHeld, Held, EveryProcessHeld
<1>. QED
  BY <1>1, SlotInvariant, PTL

-----------------------------------------------------------------------------
(* The hub implements SessionSlots.                                         *)

Slot  == [s \in Sessions |-> IF s \in overlapped THEN Contended ELSE sessions[s]]
Ended == {p \in Pids : ~Alive(p) /\ p \notin Fresh}

\* A step of the slots, or none.
SlotStep == Slots!Next \/ UNCHANGED <<Slot, Ended>>

\* Steps that leave the map and the overlaps alone, and end no process, do nothing.
LEMMA QuietSlots ==
    ASSUME UNCHANGED <<sessions, overlapped>>, Ended' = Ended
    PROVE  SlotStep
  BY DEF SlotStep, Slot

\* What has been spawned, or has ended, depends on the stage only.
LEMMA SameEnded ==
    ASSUME NEW p \in Pids, \A q \in Pids \ {p} : proc'[q] = proc[q],
           Alive(p)' <=> Alive(p), (p \in Fresh)' <=> p \in Fresh
    PROVE  Ended' = Ended
  BY DEF Ended, Alive, Fresh

\* Taking up a request contends for the slot, or leaves it alone.
LEMMA EnterSlots ==
    ASSUME TypeOK, NEW t \in Threads, NEW r, r.id \in Sessions, Enter(t, r),
           UNCHANGED <<sessions, proc>>
    PROVE  SlotStep
<1>1. Ended' = Ended
  BY DEF Ended, Alive, Fresh
<1>2. CASE overlapped' = overlapped
  BY <1>1, <1>2, QuietSlots
<1>3. CASE overlapped' = overlapped \cup {r.id}
  <2>1. Slot' = [Slot EXCEPT ![r.id] = Contended]
    BY <1>3 DEF Slot
  <2>2. Slots!Contend(r.id)
    BY <1>1, <2>1 DEF Slots!Contend, Slot, Ended
  <2>. QED
    BY <2>2 DEF SlotStep, Slots!Next
<1>. QED
  BY <1>2, <1>3 DEF Enter

\* A registration attaches its process, if it is alone on the session.
LEMMA RegisterSlots ==
    ASSUME SlotInv, NEW t \in Threads, StartRegister(t)
    PROVE  SlotStep
<1>0. /\ TypeOK /\ thread[t].pc = "register" /\ thread[t].ts \in Pids
      /\ sessions' = [sessions EXCEPT ![thread[t].id] = thread[t].ts]
      /\ UNCHANGED <<proc, overlapped>>
  BY DEF SlotInv, HubInv, StartRegister, At, RegisterHolds, procVars
<1>1. thread[t].id \in Sessions /\ Ended' = Ended
  BY <1>0 DEF TypeOK, Idle, Request, Ended, Alive, Fresh
<1>. PICK s \in Sessions, p \in Pids : s = thread[t].id /\ p = thread[t].ts
  BY <1>0, <1>1
<1>2. CASE s \in overlapped
  <2>1. Slot' = Slot
    BY <1>0, <1>1, <1>2 DEF Slot, TypeOK
  <2>. QED
    BY <1>1, <2>1 DEF SlotStep
<1>3. CASE s \notin overlapped
  <2>1. sessions[s] = None /\ proc[p].id = s
    BY <1>0, <1>3 DEF SlotInv, StartsEmpty, Starting, RegistersOwn
  <2>2. \A u \in Sessions : sessions[u] # p
    BY <1>0, <2>1 DEF SlotInv, EntriesOwn
  <2>3. Slot[s] = None /\ \A u \in Sessions : Slot[u] # p
    BY <1>0, <1>1, <1>3, <2>1, <2>2 DEF Slot
  <2>4. Slot' = [Slot EXCEPT ![s] = p]
    BY <1>0, <1>1, <1>3 DEF Slot, TypeOK
  <2>5. Slots!Attach(s, p)
    BY <1>1, <2>3, <2>4 DEF Slots!Attach, Slot, Ended
  <2>. QED
    BY <2>5, Zenon DEF SlotStep, Slots!Next
<1>. QED
  BY <1>2, <1>3

\* An unregistration detaches a process that has exited, if requests on the session
\* have not overlapped.
LEMMA UnregisterSlots ==
    ASSUME SlotInv, NEW p \in Pids, ExitUnregister(p)
    PROVE  SlotStep
<1>. PICK s \in Sessions : s = proc[p].id
  BY DEF SlotInv, ProcessesNamed, ExitUnregister, Watched
<1>0. /\ TypeOK /\ proc[p].stage = "exited"
      /\ sessions' = [sessions EXCEPT ![s] = None] /\ UNCHANGED overlapped
  BY DEF SlotInv, HubInv, ExitUnregister
<1>1. proc'[p].stage = "cleanup" /\ \A q \in Pids \ {p} : proc'[q] = proc[q]
  BY <1>0 DEF ExitUnregister, Advance, TypeOK
<1>2. Ended' = Ended
  <2>1. (Alive(p)' <=> Alive(p)) /\ ((p \in Fresh)' <=> p \in Fresh)
    BY <1>0, <1>1 DEF Alive, Fresh
  <2>. QED
    BY <1>1, <2>1, SameEnded
<1>3. CASE s \in overlapped \/ sessions[s] = None
  <2>1. Slot' = Slot
    BY <1>0, <1>3 DEF Slot, TypeOK
  <2>. QED
    BY <1>2, <2>1 DEF SlotStep
<1>4. CASE s \notin overlapped /\ sessions[s] # None
  <2>. DEFINE q == sessions[s]
  <2>1. q \in Pids /\ proc[q].stage \in Watched /\ proc[q].id = s
    BY <1>0, <1>4 DEF TypeOK, SlotInv, EntriesOwn
  <2>2. proc[q].stage # "alive"
    BY <1>0, <1>4, <2>1, OneHeld
  <2>3. q \in Ended
    BY <2>1, <2>2 DEF Ended, Alive, Fresh, Watched
  <2>4. Slot[s] = q /\ Slot' = [Slot EXCEPT ![s] = None]
    BY <1>0, <1>4 DEF Slot, TypeOK
  <2>5. Slots!Detach(s)
    BY <1>2, <2>3, <2>4 DEF Slots!Detach, Slot, Ended
  <2>. QED
    BY <2>5, Zenon DEF SlotStep, Slots!Next
<1>. QED
  BY <1>3, <1>4

\* An exit adds one process to those that have ended.
LEMMA ExitSlots ==
    ASSUME TypeOK, NEW p \in Pids, NEW new, proc' = [proc EXCEPT ![p] = new],
           new.stage \notin {"alive", "orphan", "unspawned"}, Alive(p),
           UNCHANGED <<sessions, overlapped>>
    PROVE  SlotStep
<1>1. proc'[p] = new /\ \A q \in Pids \ {p} : proc'[q] = proc[q]
  BY DEF TypeOK
<1>2. Ended' = Ended \cup {p}
  BY <1>1 DEF Ended, Alive, Fresh
<1>3. Slot' = Slot
  BY DEF Slot
<1>4. Slots!ExitOf({p})
  BY <1>2, <1>3 DEF Slots!ExitOf, Slot, Ended
<1>. QED
  BY <1>4 DEF SlotStep, Slots!Next

\* With the gateway every slot is reset; its processes have ended but for survivors.
LEMMA GoneSlots ==
    ASSUME TypeOK, NEW survivors, survivors \subseteq {p \in Pids : Alive(p)},
           GatewayGone(survivors)
    PROVE  SlotStep
<1>1. Slot' = [s \in Sessions |-> None]
  BY DEF GatewayGone, Slot
<1>2. \A p \in survivors : proc'[p].stage = "orphan"
  BY DEF GatewayGone, TypeOK, Process
<1>3. \A p \in Pids \ survivors : proc'[p] = IF p \in Fresh THEN Unspawned ELSE Lost
  BY DEF GatewayGone
<1>4. Ended' = Ended \cup Ended'
  <2>1. \A p \in Ended : p \in Pids \ survivors /\ p \notin Fresh
    BY DEF Ended
  <2>. QED
    BY <1>3, <2>1 DEF Ended, Alive, Fresh, Lost
<1>5. Ended' \subseteq Pids
  BY DEF Ended
<1>6. PICK ps \in SUBSET Pids : ps = Ended'
  BY <1>5
<1>7. Slots!Reset(ps)
  BY <1>1, <1>4, <1>6 DEF Slots!Reset, Slot, Ended
<1>. QED
  BY <1>7, Zenon DEF SlotStep, Slots!Next

\* The steps of a goroutine.
LEMMA StepsSlots ==
    ASSUME SlotInv, NEW t \in Threads, Steps(t)
    PROVE  SlotStep
<1>0. TypeOK
  BY DEF SlotInv, HubInv
<1>1. CASE StartRegister(t)
  BY <1>1, RegisterSlots
<1>2. CASE StartLaunch(t)
  <2>1. UNCHANGED <<sessions, overlapped>>
    BY <1>2 DEF StartLaunch, hubVars
  <2>2. CASE proc' = proc
    BY <2>1, <2>2, QuietSlots DEF Ended, Alive, Fresh
  <2>3. CASE proc' # proc
    <3>. DEFINE p == CHOOSE q \in Fresh : TRUE
                new == [stage |-> "alive", id |-> thread[t].id,
                        account |-> thread[t].account, final |-> "stopped"]
    <3>1. p \in Fresh /\ proc' = [proc EXCEPT ![p] = new] /\ new.stage = "alive"
      BY <1>2, <2>3 DEF StartLaunch
    <3>. HIDE DEF p, new
    <3>2. proc'[p].stage = "alive" /\ \A q \in Pids \ {p} : proc'[q] = proc[q]
      BY <1>0, <3>1 DEF TypeOK, Fresh
    <3>3. Ended' = Ended
      BY <3>1, <3>2 DEF Ended, Alive, Fresh
    <3>. QED
      BY <2>1, <3>3, QuietSlots
  <2>. QED
    BY <2>2, <2>3
<1>3. CASE MarkStop(t)
  BY <1>3, QuietSlots DEF MarkStop, Ended, Alive, Fresh
<1>4. CASE UNCHANGED <<sessions, stopRequested, proc, asked, overlapped>>
  BY <1>4, QuietSlots DEF Ended, Alive, Fresh
<1>. QED
  BY <1>0, <1>1, <1>2, <1>3, <1>4, StepsMove

\* The steps of a process and its callback.
LEMMA ProcessSlots ==
    ASSUME SlotInv, NEW p \in Pids, ProcessExit(p) \/ ExitCallback(p) \/ OrphanExit(p)
    PROVE  SlotStep
<1>. USE DEF hubVars
<1>0. TypeOK
  BY DEF SlotInv, HubInv
<1>1. CASE ProcessExit(p)
  BY <1>0, <1>1, ExitSlots DEF ProcessExit, Advance, Alive
<1>2. CASE OrphanExit(p)
  BY <1>0, <1>2, ExitSlots DEF OrphanExit, Alive, Lost
<1>3. CASE ExitUnregister(p)
  BY <1>3, UnregisterSlots
<1>4. CASE ExitCleanup(p) \/ ExitStatus(p) \/ ExitEmit(p)
  <2>1. /\ UNCHANGED <<sessions, overlapped>> /\ proc[p].stage \in {"cleanup", "status", "emit"}
        /\ \E stage \in {"status", "emit", "announced"} : \E final : Advance(p, stage, final)
    BY <1>4 DEF ExitCleanup, ExitStatus, ExitEmit
  <2>2. /\ proc'[p].stage \in {"status", "emit", "announced"}
        /\ \A q \in Pids \ {p} : proc'[q] = proc[q]
    BY <1>0, <2>1 DEF Advance, TypeOK
  <2>3. (Alive(p)' <=> Alive(p)) /\ ((p \in Fresh)' <=> p \in Fresh)
    BY <2>1, <2>2 DEF Alive, Fresh
  <2>. QED
    BY <2>1, <2>2, <2>3, SameEnded, QuietSlots
<1>. QED
  BY <1>1, <1>2, <1>3, <1>4 DEF ExitCallback

\* The steps of the gateway.
LEMMA GatewaySlots ==
    ASSUME TypeOK, MainSteps \/ Crash \/ Shutdown \/ Boot
    PROVE  SlotStep
<1>. USE DEF hubVars, procVars
<1>0. Main \in Threads
  BY DEF Threads
<1>1. CASE Crash \/ Exit
  BY <1>1, GoneSlots DEF Crash, Exit
<1>2. CASE Shutdown \/ Boot \/ Serve \/ RecoverGiveUp
  BY <1>2, QuietSlots DEF Shutdown, Boot, Serve, RecoverGiveUp, Ended, Alive, Fresh
<1>3. CASE StopAllNext
  <2>1. PICK s \in todo : Enter(Main, Asking("StopAll", "mark", s, None))
    BY <1>3 DEF StopAllNext
  <2>2. s \in Sessions /\ Asking("StopAll", "mark", s, None).id = s
    BY DEF TypeOK, Asking
  <2>. QED
    BY <1>0, <1>3, <2>1, <2>2, EnterSlots DEF StopAllNext
<1>4. CASE RecoverNext
  <2>0. UNCHANGED <<sessions, proc>>
    BY <1>4 DEF RecoverNext
  <2>1. PICK s \in todo : \/ UNCHANGED <<thread, overlapped>>
                          \/ Enter(Main, Asking("Recover", IF s \in Resumable THEN "check"
                                                                         ELSE "giveup", s, None))
    BY <1>4 DEF RecoverNext
  <2>2. CASE UNCHANGED <<thread, overlapped>>
    BY <2>0, <2>2, QuietSlots DEF Ended, Alive, Fresh
  <2>3. CASE Enter(Main, Asking("Recover", IF s \in Resumable THEN "check" ELSE "giveup", s, None))
    <3>. DEFINE r == Asking("Recover", IF s \in Resumable THEN "check" ELSE "giveup", s, None)
    <3>1. r.id \in Sessions
      BY DEF TypeOK, Asking
    <3>. HIDE DEF r
    <3>. QED
      BY <1>0, <2>0, <2>3, <3>1, EnterSlots DEF r
  <2>. QED
    BY <2>1, <2>2, <2>3
<1>. QED
  BY <1>1, <1>2, <1>3, <1>4 DEF MainSteps

\* The requests.
LEMMA RequestsSlots ==
    ASSUME TypeOK, NEW c \in Callers, Create(c) \/ Begin(c)
    PROVE  SlotStep
<1>1. CASE Create(c)
  BY <1>1, QuietSlots DEF Create, hubVars, procVars, Ended, Alive, Fresh
<1>2. CASE Begin(c)
  <2>1. \A op, pc, s, a : Asking(op, pc, s, a).id = s
    BY DEF Asking
  <2>2. PICK s \in Sessions :
           \/ Enter(c, Asking("Start", "check", s, None))
           \/ Enter(c, Asking("Stop", "mark", s, None))
           \/ Enter(c, Asking("Delete", "mark", s, None))
           \/ \E a \in Accounts : Enter(c, Asking("Switch", "switch", s, a))
    BY <1>2, Zenon DEF Begin
  <2>3. PICK r : Enter(c, r) /\ r.id = s
    <3>1. CASE Enter(c, Asking("Start", "check", s, None))
      BY <2>1, <3>1
    <3>2. CASE Enter(c, Asking("Stop", "mark", s, None))
      BY <2>1, <3>2
    <3>3. CASE Enter(c, Asking("Delete", "mark", s, None))
      BY <2>1, <3>3
    <3>4. CASE \E a \in Accounts : Enter(c, Asking("Switch", "switch", s, a))
      BY <2>1, <3>4
    <3>. QED
      BY <2>2, <3>1, <3>2, <3>3, <3>4
  <2>4. c \in Threads /\ UNCHANGED <<sessions, proc>>
    BY <1>2 DEF Begin, hubVars, procVars, Threads
  <2>. QED
    BY <2>3, <2>4, EnterSlots
<1>. QED
  BY <1>1, <1>2

\* Whatever the hub does is a step of the slots, or none: Start never replaces an
\* entry and the exit callback never drops that of a live process, late callbacks of
\* earlier processes and timed out waits included, while requests do not overlap.
THEOREM HubImplementsSlots == Spec => ImplementsSlots
<1>1. Init => Slots!Init
  BY DEF Init, Slots!Init, Alive, Fresh, Unspawned
<1>2. SlotInv /\ [Next]_vars => SlotStep
  <2>. SUFFICES ASSUME SlotInv, [Next]_vars PROVE SlotStep
    OBVIOUS
  <2>0. TypeOK
    BY DEF SlotInv, HubInv
  <2>1. CASE UNCHANGED vars
    BY <2>1, QuietSlots DEF vars, Ended, Alive, Fresh
  <2>2. CASE Next
    BY <2>0, <2>2, RequestsSlots, StepsSlots, ProcessSlots, GatewaySlots DEF Next
  <2>. QED
    BY <2>1, <2>2
<1>. QED
  BY <1>1, <1>2, SlotInvariant, PTL DEF Spec, ImplementsSlots, Slots!Spec, SlotStep, Slot, Ended

-----------------------------------------------------------------------------
(* SwitchAccount.                                                           *)

\* What a step may do to a row and to the processes while a switch is under way.
RowKept(s) ==
    /\ row[s] # Unborn => row'[s] # Unborn
    /\ row[s] # Unborn /\ Exists(s)' => Exists(s) /\ row'[s].account = row[s].account
ProcsKept ==
    \A p \in Pids : proc[p].stage \in Watched =>
        proc'[p].stage \in Watched /\ proc'[p].account = proc[p].account

\* A goroutine that does not move keeps what it has rebound.
LEMMA ReboundKeeps ==
    ASSUME NEW s \in Sessions, NEW r, Rebound(s, r), overlapped \subseteq overlapped',
           row[s] # Unborn => row'[s] # Unborn, s \notin overlapped' => RowKept(s), ProcsKept
    PROVE  /\ row'[s] # Unborn
           /\ s \notin overlapped' /\ r.pc \in {"check", "load", "launch", "register", "status"} =>
                 (Exists(s)' => row'[s].account = r.target)
           /\ s \notin overlapped' /\ r.pc = "launch" => r.account = r.target
           /\ s \notin overlapped' /\ r.pc \in {"register", "status"} =>
                 /\ r.ts \in Pids
                 /\ proc'[r.ts].stage \in Watched
                 /\ proc'[r.ts].account = r.target
  BY DEF Rebound, RowKept, ProcsKept

\* A step that adds no goroutine to a switch and touches no account.
LEMMA SwitchKeeps ==
    ASSUME TypeOK, SwitchRebinds, overlapped \subseteq overlapped',
           \A t \in Threads : \/ thread'[t] = thread[t]
                              \/ thread'[t].op # "Switch" \/ thread'[t].pc = "idle",
           \A s \in Sessions : RowKept(s), ProcsKept
    PROVE  SwitchRebinds'
<1>. SUFFICES ASSUME NEW t \in Threads, thread'[t].op = "Switch", thread'[t].pc # "idle"
              PROVE  Rebound(thread[t].id, thread[t])'
  BY DEF SwitchRebinds
<1>1. thread'[t] = thread[t]
  OBVIOUS
<1>2. thread[t].id \in Sessions /\ Rebound(thread[t].id, thread[t])
  BY <1>1 DEF TypeOK, Idle, Request, SwitchRebinds
<1>. PICK s \in Sessions : s = thread[t].id
  BY <1>2
<1>. PICK r : r = thread[t]
  OBVIOUS
<1>3. Rebound(s, r) /\ RowKept(s)
  BY <1>2
<1>4. row[s] # Unborn => row'[s] # Unborn
  BY <1>3 DEF RowKept
<1>. QED
  BY <1>1, <1>3, <1>4, ReboundKeeps DEF Rebound

\* Writing a status keeps the accounts.
LEMMA WriteKeeps ==
    ASSUME TypeOK, NEW s \in Sessions, NEW status \in {"running", "stopped", "error"}, NEW pid,
           WriteStatus(s, status, pid), NEW u \in Sessions
    PROVE  RowKept(u)
  BY DEF TypeOK, WriteStatus, RowKept, Exists, Unborn, Row

\* A goroutine touches the account of its own row only, and in its bind step only,
LEMMA StepsRow ==
    ASSUME TypeOK, NEW t \in Threads, Steps(t), NEW s \in Sessions
    PROVE  /\ row[s] # Unborn => row'[s] # Unborn
           /\ s # thread[t].id \/ thread[t].pc # "bind" => RowKept(s)
<1>0. thread[t] \in Request /\ thread[t].id \in Sessions
  BY OwnStep DEF Request
<1>1. CASE row' = row
  BY <1>1 DEF RowKept, Exists
<1>2. CASE StartStatus(t)
  <2>1. RowKept(s)
    BY <1>0, <1>2, WriteKeeps DEF StartStatus
  <2>. QED
    BY <2>1 DEF RowKept
<1>3. CASE DeleteRow(t)
  BY <1>0, <1>3 DEF DeleteRow, TypeOK, RowKept, Exists, Gone, Unborn
<1>4. CASE SwitchBind(t)
  <2>1. thread[t].pc = "bind"
    BY <1>4 DEF SwitchBind, At
  <2>2. \/ row' = row
        \/ Exists(thread[t].id)
           /\ row' = [row EXCEPT ![thread[t].id].account = thread[t].target]
    BY <1>4 DEF SwitchBind
  <2>. QED
    BY <1>0, <1>1, <2>1, <2>2 DEF TypeOK, RowKept, Exists, Unborn, Row
<1>. QED
  BY <1>1, <1>2, <1>3, <1>4
     DEF Steps, StartSteps, StopSteps, DeleteSteps, SwitchSteps, StartCheck, StartLoad, StartLaunch,
         StartRegister, MarkStop, SignalReturns, DeleteWait, SwitchLoad, SwitchLook, SwitchPoll

\* and it launches processes, but changes none.
LEMMA StepsProcs ==
    ASSUME TypeOK, NEW t \in Threads, Steps(t)
    PROVE  ProcsKept /\ overlapped' = overlapped
<1>1. CASE proc' = proc /\ overlapped' = overlapped
  BY <1>1 DEF ProcsKept
<1>2. CASE StartLaunch(t)
  <2>1. CASE proc' = proc
    BY <1>2, <2>1 DEF ProcsKept, StartLaunch
  <2>2. CASE proc' # proc
    <3>. DEFINE p == CHOOSE q \in Fresh : TRUE
                new == [stage |-> "alive", id |-> thread[t].id,
                        account |-> thread[t].account, final |-> "stopped"]
    <3>1. p \in Fresh /\ proc' = [proc EXCEPT ![p] = new]
      BY <1>2, <2>2 DEF StartLaunch
    <3>. HIDE DEF p, new
    <3>. QED
      BY <1>2, <3>1 DEF ProcsKept, Fresh, Watched, TypeOK, StartLaunch
  <2>. QED
    BY <2>1, <2>2
<1>3. CASE StartRegister(t)
  BY <1>1, <1>3 DEF StartRegister, procVars
<1>4. CASE MarkStop(t)
  BY <1>1, <1>4 DEF MarkStop
<1>. QED
  BY <1>1, <1>2, <1>3, <1>4, StepsMove

\* The goroutine of a switch goes on.
LEMMA SwitchOwn ==
    ASSUME TypeOK, SwitchRebinds, NEW t \in Threads, Steps(t),
           thread'[t].op = "Switch", thread'[t].pc # "idle"
    PROVE  Rebound(thread[t].id, thread[t])'
<1>. USE DEF Go, Return, StartFails
<1>0. thread[t] \in Request /\ thread[t].pc # "idle"
  BY OwnStep DEF Request, PCs
<1>. PICK s \in Sessions : s = thread[t].id
  BY <1>0 DEF Request
<1>1. /\ row[s] # Unborn => row'[s] # Unborn
      /\ thread[t].pc # "bind" => RowKept(s)
      /\ ProcsKept /\ overlapped' = overlapped
  BY StepsRow, StepsProcs
<1>2. CASE /\ thread[t].op = "Switch" /\ thread'[t].id = s
           /\ thread'[t].pc \notin {"check", "load", "launch", "register", "status"}
  <2>1. row'[s] # Unborn
    BY <1>0, <1>1, <1>2 DEF SwitchRebinds, Rebound
  <2>. QED
    BY <1>2, <2>1 DEF Rebound
<1>3. CASE StartCheck(t)
  <2>1. /\ thread' = [thread EXCEPT ![t].pc = "load"] /\ thread[t].op = "Switch"
        /\ thread[t].pc = "check" /\ UNCHANGED row
    BY <1>0, <1>3 DEF StartCheck, At, TypeOK, Request, Idle
  <2>2. Rebound(s, thread[t])
    BY <1>0, <2>1 DEF SwitchRebinds
  <2>3. thread'[t].id = s /\ thread'[t].pc = "load" /\ thread'[t].target = thread[t].target
    BY <1>0, <2>1 DEF TypeOK, Request
  <2>. QED
    BY <1>1, <2>1, <2>2, <2>3 DEF Rebound, Exists
<1>4. CASE StartLoad(t)
  <2>1. /\ thread' = [thread EXCEPT ![t].pc = "launch", ![t].account = row[s].account]
        /\ thread[t].op = "Switch" /\ thread[t].pc = "load" /\ UNCHANGED row /\ Exists(s)
    BY <1>0, <1>4 DEF StartLoad, At, TypeOK, Request, Idle
  <2>2. Rebound(s, thread[t])
    BY <1>0, <2>1 DEF SwitchRebinds
  <2>3. /\ thread'[t].id = s /\ thread'[t].pc = "launch" /\ thread'[t].target = thread[t].target
        /\ thread'[t].account = row[s].account
    BY <1>0, <2>1 DEF TypeOK, Request
  <2>. QED
    BY <1>1, <2>1, <2>2, <2>3 DEF Rebound, Exists
<1>5. CASE StartLaunch(t)
  <2>. DEFINE p == CHOOSE q \in Fresh : TRUE
              new == [stage |-> "alive", id |-> thread[t].id,
                      account |-> thread[t].account, final |-> "stopped"]
  <2>0. ~StartFails(t)
    BY <1>0 DEF TypeOK, Request, Idle
  <2>1. /\ thread' = [thread EXCEPT ![t].pc = "register", ![t].ts = p, ![t].account = None]
        /\ p \in Fresh /\ proc' = [proc EXCEPT ![p] = new]
        /\ thread[t].pc = "launch" /\ UNCHANGED row
        /\ new.stage = "alive" /\ new.account = thread[t].account
    BY <1>5, <2>0 DEF StartLaunch, At
  <2>. HIDE DEF p, new
  <2>2. /\ thread'[t].id = s /\ thread'[t].pc = "register" /\ thread'[t].target = thread[t].target
        /\ thread'[t].ts = p /\ thread'[t].op = thread[t].op
    BY <1>0, <2>1 DEF TypeOK, Request
  <2>3. p \in Pids /\ proc'[p] = new
    BY <2>1 DEF TypeOK, Fresh
  <2>4. Rebound(s, thread[t])
    BY <1>0, <2>1, <2>2 DEF SwitchRebinds
  <2>. QED
    BY <1>1, <2>1, <2>2, <2>3, <2>4 DEF Rebound, Exists, Watched
<1>6. CASE StartRegister(t)
  <2>1. /\ thread' = [thread EXCEPT ![t].pc = "status"] /\ thread[t].pc = "register"
        /\ UNCHANGED <<row, proc>>
    BY <1>6 DEF StartRegister, At, procVars
  <2>2. /\ thread'[t].id = s /\ thread'[t].pc = "status" /\ thread'[t].target = thread[t].target
        /\ thread'[t].ts = thread[t].ts /\ thread'[t].op = thread[t].op
    BY <1>0, <2>1 DEF TypeOK, Request
  <2>3. Rebound(s, thread[t])
    BY <1>0, <2>1, <2>2 DEF SwitchRebinds
  <2>. QED
    BY <1>1, <2>1, <2>2, <2>3 DEF Rebound, Exists
<1>7. CASE SwitchBind(t)
  <2>1. /\ thread' = [thread EXCEPT ![t].pc = "check"] /\ thread[t].pc = "bind"
        /\ row' = IF Exists(s) THEN [row EXCEPT ![s].account = thread[t].target] ELSE row
    BY <1>0, <1>7 DEF SwitchBind, At, TypeOK, Request, Idle
  <2>2. /\ thread'[t].id = s /\ thread'[t].pc = "check" /\ thread'[t].target = thread[t].target
        /\ thread'[t].op = thread[t].op
    BY <1>0, <2>1 DEF TypeOK, Request
  <2>3. row'[s] # Unborn
    BY <1>0, <1>1, <2>1, <2>2 DEF SwitchRebinds, Rebound
  <2>4. Exists(s)' => row'[s].account = thread[t].target
    BY <2>1 DEF TypeOK, Exists, Row
  <2>. QED
    BY <2>2, <2>3, <2>4 DEF Rebound, Exists
<1>8. CASE MarkStop(t)
  BY <1>0, <1>2, <1>8 DEF MarkStop, TypeOK, Request, Idle
<1>9. CASE SignalReturns(t)
  BY <1>0, <1>2, <1>9 DEF SignalReturns, TypeOK, Request, Idle
<1>10. CASE StartStatus(t) \/ DeleteRow(t)
  BY <1>0, <1>10 DEF StartStatus, DeleteRow, TypeOK, Idle
<1>11. CASE DeleteWait(t) \/ SwitchLoad(t) \/ SwitchLook(t) \/ SwitchPoll(t)
  BY <1>0, <1>2, <1>11 DEF DeleteWait, SwitchLoad, SwitchLook, SwitchPoll, TypeOK, Request, Idle
<1>. QED
  BY <1>3, <1>4, <1>5, <1>6, <1>7, <1>8, <1>9, <1>10, <1>11
     DEF Steps, StartSteps, StopSteps, DeleteSteps, SwitchSteps

\* Every step of a goroutine keeps what switches have rebound.
LEMMA StepsSwitch ==
    ASSUME SlotInv, SwitchRebinds, NEW t \in Threads, Steps(t)
    PROVE  SwitchRebinds'
<1>0. TypeOK /\ ProcsKept /\ overlapped' = overlapped
      /\ \A u \in Threads \ {t} : thread'[u] = thread[u]
  BY StepsProcs, OwnStep DEF SlotInv, HubInv
<1>. SUFFICES ASSUME NEW u \in Threads, thread'[u].op = "Switch", thread'[u].pc # "idle"
              PROVE  Rebound(thread[u].id, thread[u])'
  BY DEF SwitchRebinds
<1>1. CASE u = t
  BY <1>0, <1>1, SwitchOwn
<1>2. CASE u # t
  <2>1. thread'[u] = thread[u] /\ thread[u].id \in Sessions /\ Rebound(thread[u].id, thread[u])
    BY <1>0, <1>2 DEF TypeOK, Idle, Request, SwitchRebinds
  <2>. PICK s \in Sessions : s = thread[u].id
    BY <2>1
  <2>. PICK r : r = thread[u]
    OBVIOUS
  <2>2. s \notin overlapped => s # thread[t].id
    BY <1>2 DEF SlotInv, OneRequest
  <2>3. /\ row[s] # Unborn => row'[s] # Unborn
        /\ s \notin overlapped => RowKept(s)
    BY <1>0, <2>2, StepsRow
  <2>. QED
    BY <1>0, <2>1, <2>3, ReboundKeeps DEF Rebound
<1>. QED
  BY <1>1, <1>2

\* Rows and processes that do not change are kept.
LEMMA SameKept ==
    ASSUME UNCHANGED <<row, proc>>
    PROVE  (\A s \in Sessions : RowKept(s)) /\ ProcsKept
  BY DEF RowKept, ProcsKept, Exists

\* So does every step of a process,
LEMMA ProcessSwitch ==
    ASSUME SlotInv, SwitchRebinds, NEW p \in Pids,
           ProcessExit(p) \/ ExitCallback(p) \/ OrphanExit(p)
    PROVE  SwitchRebinds'
<1>0. TypeOK
  BY DEF SlotInv, HubInv
<1>1. UNCHANGED <<thread, overlapped>>
  BY DEF ProcessExit, ExitCallback, OrphanExit, ExitUnregister, ExitCleanup, ExitStatus, ExitEmit
<1>2. \A s \in Sessions : RowKept(s)
  <2>1. CASE row' = row
    BY <2>1 DEF RowKept, Exists
  <2>2. CASE ExitStatus(p)
    <3>1. /\ WriteStatus(proc[p].id, proc[p].final, None) /\ proc[p].id \in Sessions
          /\ proc[p].final \in {"stopped", "error"}
      BY <1>0, <2>2 DEF ExitStatus, SlotInv, ProcessesNamed, Watched, TypeOK, Process
    <3>. QED
      BY <1>0, <3>1, WriteKeeps
  <2>. QED
    BY <2>1, <2>2 DEF ProcessExit, ExitCallback, OrphanExit, ExitUnregister, ExitCleanup, ExitEmit
<1>3. ProcsKept
  <2>1. CASE \E stage \in Watched, final \in {"stopped", "error"} : Advance(p, stage, final)
    BY <1>0, <2>1 DEF Advance, ProcsKept, TypeOK
  <2>2. CASE OrphanExit(p)
    BY <1>0, <2>2 DEF OrphanExit, ProcsKept, TypeOK, Watched
  <2>3. proc[p].final \in {"stopped", "error"}
    BY <1>0 DEF TypeOK, Process
  <2>. QED
    BY <2>1, <2>2, <2>3
       DEF ProcessExit, ExitCallback, ExitUnregister, ExitCleanup, ExitStatus, ExitEmit, Watched
<1>. QED
  BY <1>0, <1>1, <1>2, <1>3, SwitchKeeps

\* taking up a request,
LEMMA RequestsSwitch ==
    ASSUME TypeOK, SwitchRebinds, NEW c \in Callers, Create(c) \/ Begin(c)
    PROVE  SwitchRebinds'
<1>0. c \in Threads
  BY DEF Threads
<1>1. CASE Create(c)
  <2>1. PICK s \in Sessions, a \in Accounts :
           /\ row[s] = Unborn
           /\ row' = [row EXCEPT ![s] = [status |-> "stopped", pid |-> None, account |-> a]]
    BY <1>1 DEF Create
  <2>2. \A u \in Sessions : RowKept(u)
    BY <2>1 DEF RowKept, Exists, Unborn, TypeOK
  <2>3. ProcsKept /\ UNCHANGED <<thread, overlapped>>
    BY <1>1 DEF ProcsKept, Create, procVars
  <2>. QED
    BY <2>2, <2>3, SwitchKeeps
<1>2. CASE Begin(c)
  <2>. USE DEF Asking
  <2>1. UNCHANGED <<row, proc>>
    BY <1>2 DEF Begin, procVars
  <2>2. (\A u \in Sessions : RowKept(u)) /\ ProcsKept
    BY <2>1, SameKept
  <2>3. PICK s \in Sessions :
           /\ row[s] # Unborn
           /\ \/ Enter(c, Asking("Start", "check", s, None))
              \/ Enter(c, Asking("Stop", "mark", s, None))
              \/ Enter(c, Asking("Delete", "mark", s, None))
              \/ \E a \in Accounts : Enter(c, Asking("Switch", "switch", s, a))
    BY <1>2 DEF Begin
  <2>4. overlapped \subseteq overlapped' /\ \A u \in Threads \ {c} : thread'[u] = thread[u]
    BY <2>3 DEF Enter, TypeOK
  <2>5. CASE ~\E a \in Accounts : Enter(c, Asking("Switch", "switch", s, a))
    <3>1. thread'[c].op # "Switch"
      BY <1>0, <2>3, <2>5 DEF Enter, TypeOK
    <3>. QED
      BY <2>2, <2>4, <3>1, SwitchKeeps
  <2>6. CASE \E a \in Accounts : Enter(c, Asking("Switch", "switch", s, a))
    <3>1. thread'[c].id = s /\ thread'[c].pc = "switch"
      BY <1>0, <2>6 DEF Enter, TypeOK
    <3>. SUFFICES ASSUME NEW u \in Threads, thread'[u].op = "Switch", thread'[u].pc # "idle"
                  PROVE  Rebound(thread[u].id, thread[u])'
      BY DEF SwitchRebinds
    <3>2. CASE u = c
      BY <2>1, <2>3, <3>1, <3>2 DEF Rebound
    <3>3. CASE u # c
      <4>1. /\ thread'[u] = thread[u] /\ thread[u].id \in Sessions
            /\ Rebound(thread[u].id, thread[u])
        BY <2>4, <3>3 DEF TypeOK, Idle, Request, SwitchRebinds
      <4>. PICK v \in Sessions : v = thread[u].id
        BY <4>1
      <4>. PICK r : r = thread[u]
        OBVIOUS
      <4>2. RowKept(v) /\ (row[v] # Unborn => row'[v] # Unborn)
        BY <2>1, <2>2
      <4>. QED
        BY <2>2, <2>4, <4>1, <4>2, ReboundKeeps DEF Rebound
    <3>. QED
      BY <3>2, <3>3
  <2>. QED
    BY <2>5, <2>6
<1>. QED
  BY <1>1, <1>2

\* and every step of the gateway.
LEMMA GatewaySwitch ==
    ASSUME TypeOK, SwitchRebinds, MainSteps \/ Crash \/ Shutdown \/ Boot
    PROVE  SwitchRebinds'
<1>. USE DEF procVars
<1>0. Main \in Threads
  BY DEF Threads
<1>1. CASE Crash \/ Exit
  <2>1. \A t \in Threads : thread'[t] = Idle
    BY <1>1 DEF Crash, Exit, GatewayGone
  <2>. QED
    BY <2>1 DEF SwitchRebinds, Idle
<1>2. CASE Shutdown \/ Boot \/ Serve
  <2>1. UNCHANGED <<row, proc, thread, overlapped>>
    BY <1>2 DEF Shutdown, Boot, Serve
  <2>. QED
    BY <2>1, SameKept, SwitchKeeps
<1>3. CASE StopAllNext \/ RecoverNext
  <2>1. UNCHANGED <<row, proc>>
    BY <1>3 DEF StopAllNext, RecoverNext
  <2>2. /\ overlapped \subseteq overlapped' /\ \A u \in Threads \ {Main} : thread'[u] = thread[u]
        /\ thread'[Main] = thread[Main] \/ thread'[Main].op \in {"StopAll", "Recover"}
    BY <1>0, <1>3 DEF StopAllNext, RecoverNext, Enter, TypeOK, Asking
  <2>. QED
    BY <2>1, <2>2, SameKept, SwitchKeeps
<1>4. CASE RecoverGiveUp
  <2>1. /\ thread' = [thread EXCEPT ![Main] = Idle] /\ UNCHANGED <<proc, overlapped>>
        /\ WriteStatus(thread[Main].id, "stopped", None) /\ thread[Main].pc = "giveup"
    BY <1>4 DEF RecoverGiveUp, Return, At
  <2>2. thread'[Main].pc = "idle" /\ \A u \in Threads \ {Main} : thread'[u] = thread[u]
    BY <1>0, <2>1 DEF TypeOK, Idle
  <2>3. thread[Main].id \in Sessions
    BY <1>0, <2>1 DEF TypeOK, Idle, Request
  <2>4. \A s \in Sessions : RowKept(s)
    BY <2>1, <2>3, WriteKeeps
  <2>5. ProcsKept
    BY <2>1 DEF ProcsKept
  <2>. QED
    BY <2>1, <2>2, <2>4, <2>5, SwitchKeeps
<1>. QED
  BY <1>1, <1>2, <1>3, <1>4 DEF MainSteps

\* A SwitchAccount that has restarted the session reports a process that runs on the
\* account it was asked for, and a row that is bound to it, whatever failed or timed out
\* on the way, as long as no other request overlaps it.
THEOREM SwitchStartsOnTarget == Spec => SwitchRunsNewAccount
<1>1. Init => SlotInv /\ SwitchRebinds
  BY SlotInit
<1>2. SlotInv /\ SwitchRebinds /\ [Next]_vars => SwitchRebinds'
  <2>. SUFFICES ASSUME SlotInv, SwitchRebinds, [Next]_vars PROVE SwitchRebinds'
    OBVIOUS
  <2>0. TypeOK
    BY DEF SlotInv, HubInv
  <2>1. CASE UNCHANGED vars
    <3>1. UNCHANGED <<row, proc, thread, overlapped>>
      BY <2>1 DEF vars
    <3>. QED
      BY <2>0, <3>1, SameKept, SwitchKeeps
  <2>2. CASE Next
    BY <2>0, <2>2, RequestsSwitch, StepsSwitch, ProcessSwitch, GatewaySwitch DEF Next
  <2>. QED
    BY <2>1, <2>2
<1>3. SwitchRebinds => \A t \in Threads :
         /\ thread[t].op = "Switch"
         /\ thread[t].pc = "status"
         /\ thread'[t] = Idle
         /\ thread[t].id \notin overlapped
         /\ gateway' # "down"
         => /\ proc[thread[t].ts].account = thread[t].target
            /\ Exists(thread[t].id) => row[thread[t].id].account = thread[t].target
  BY DEF SwitchRebinds, Rebound
<1>. QED
  BY <1>1, <1>2, <1>3, SlotInvariant, PTL DEF Spec, SwitchRunsNewAccount

=============================================================================
