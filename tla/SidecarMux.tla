----------------------------- MODULE SidecarMux -----------------------------
(***************************************************************************)
(* The JSON-RPC traffic with one sidecar: the multiplexer (plugin/host/    *)
(* mux), its framed reader and writer (plugin/host/jsonrpc), the handler   *)
(* of the sidecar's own requests (plugin/host/host_rpc_handler) and the    *)
(* calls of the command dispatcher (plugin/commands).                      *)
(*                                                                         *)
(* A frame is two writes under the writer's lock, into a pipe that holds   *)
(* only so much.  Callers wait each on a channel of their own; one reader  *)
(* hands the answers out; a request of the sidecar gets a goroutine.       *)
(***************************************************************************)
EXTENDS Naturals, Sequences

CONSTANTS
    Calls,          \* callers of Call
    Requests,       \* bound: requests the sidecar makes of the host
    Scenarios,      \* what a behaviour may do: a set of deeds each
    StdinRoom,      \* half frames the sidecar's stdin holds
    StdoutRoom,     \* frames its stdout holds
    NotifyRoom,     \* notifications kept for a listener
    MaxNotes,       \* bound: notifications
    None

Deeds == {"cancel", "request", "nested", "note", "garbage", "oversize", "stall", "exit", "shutdown"}
SidecarMuxAssumption ==
    /\ Calls \intersect Requests = {} /\ None \notin Calls \union Requests
    /\ Calls \intersect {"off", "run", "lock", "header", "body", "ended"} = {}   \* see handler
    /\ \A s \in Scenarios : s \subseteq Deeds
    /\ StdinRoom \in Nat \ {0, 1} /\ StdoutRoom \in Nat \ {0} /\ NotifyRoom \in Nat /\ MaxNotes \in Nat

VARIABLES
    scenario,
    call,       \* each caller: where it is, its id, whether its context ended, what came
    nextID, pending,    \* the callers by id
    answer,     \* the channel of each caller: what was put into it
    writer,     \* who holds the writer's lock
    stdin, stdinOpen,   \* half frames on their way to the sidecar
    sidecar,    \* the process: what it does, what it has still to serve
    stdout,     \* frames on their way to the host
    reader,     \* the read loop
    done,       \* the mux's channel is closed
    cancelled,  \* the mux's context has ended
    handler,    \* the goroutine of each request of the sidecar
    notes, sent \* notifications kept, and ever sent

vars == <<scenario, call, nextID, pending, answer, writer, stdin, stdinOpen, sidecar,
          stdout, reader, done, cancelled, handler, notes, sent>>

Can(deed) == deed \in scenario
Frame(kind, id, from) == [kind |-> kind, id |-> id, from |-> from]
Frames == [kind : {"response", "request", "note", "garbage", "oversize"},
           id : Nat, from : Calls \union Requests \union {None}]
Ends == {"none", "ok", "write", "context", "eof", "closed"}

TypeOK ==
    /\ scenario \in Scenarios
    /\ call \in [Calls -> [pc : {"off", "lock", "header", "body", "sent", "wait", "ended"},
                           id : Nat, late : BOOLEAN, end : Ends, from : Calls \union {None}]]
    /\ nextID \in Nat /\ DOMAIN pending \subseteq 1..nextID
    /\ \A id \in DOMAIN pending : pending[id] \in Calls \union {None}
    /\ answer \in [Calls -> {<<>>} \union [1..1 -> [end : {"ok", "closed"}, from : Calls \union {None}]]]
    /\ writer \in Calls \union Requests \union {None}
    /\ Len(stdin) <= StdinRoom /\ stdinOpen \in BOOLEAN
    /\ sidecar.pc \in {"idle", "serve", "ask", "stalled", "dead"}
    /\ stdout \in Seq(Frames) /\ Len(stdout) <= StdoutRoom
    /\ reader \in {"read", "close", "ended"} /\ done \in BOOLEAN /\ cancelled \in BOOLEAN
    /\ handler \in [Requests -> Calls \union {"off", "run", "lock", "header", "body", "ended"}]
    /\ notes \in 0..NotifyRoom /\ sent \in 0..MaxNotes

Init ==
    /\ scenario \in Scenarios
    /\ call = [k \in Calls |-> [pc |-> "off", id |-> 0, late |-> FALSE, end |-> "none", from |-> None]]
    /\ nextID = 0 /\ pending = <<>>
    /\ answer = [k \in Calls |-> <<>>]
    /\ writer = None /\ stdin = <<>> /\ stdinOpen = TRUE
    /\ sidecar = [pc |-> "idle", at |-> None, todo |-> <<>>]
    /\ stdout = <<>> /\ reader = "read" /\ done = FALSE /\ cancelled = FALSE
    /\ handler = [r \in Requests |-> "off"]
    /\ notes = 0 /\ sent = 0

Alive == sidecar.pc # "dead"

\* ------------------------------------------------------------- callers
Begin(k) ==
    /\ call[k].pc = "off"
    /\ nextID' = nextID + 1
    /\ pending' = [id \in 1..nextID' |-> IF id = nextID' THEN k
                                         ELSE IF id \in DOMAIN pending THEN pending[id] ELSE None]
    /\ call' = [call EXCEPT ![k].pc = "lock", ![k].id = nextID']

Call(k) ==
    /\ Begin(k)
    /\ UNCHANGED <<scenario, answer, writer, stdin, stdinOpen, sidecar, stdout, reader,
                   done, cancelled, handler, notes, sent>>

\* the deferred delete
Forgotten(k) == [id \in DOMAIN pending |-> IF id = call[k].id THEN None ELSE pending[id]]
Return(k, end, from) ==
    /\ call' = [call EXCEPT ![k].pc = "ended", ![k].end = end, ![k].from = from]
    /\ pending' = Forgotten(k)

\* The context is not looked at while a frame is written.
Cancel(k) ==
    /\ Can("cancel") /\ call[k].pc \notin {"off", "ended"} /\ ~call[k].late
    /\ call' = [call EXCEPT ![k].late = TRUE]
    /\ UNCHANGED <<scenario, nextID, pending, answer, writer, stdin, stdinOpen, sidecar, stdout,
                   reader, done, cancelled, handler, notes, sent>>

Wait(k) ==
    /\ call[k].pc = "sent"
    /\ call' = [call EXCEPT ![k].pc = "wait"]
    /\ UNCHANGED <<scenario, nextID, pending, answer, writer, stdin, stdinOpen, sidecar, stdout,
                   reader, done, cancelled, handler, notes, sent>>

\* of what is ready the select takes any
Select(k) ==
    /\ call[k].pc = "wait"
    /\ \/ call[k].late /\ Return(k, "context", None)
       \/ done /\ Return(k, "eof", None)
       \/ answer[k] # <<>> /\ Return(k, answer[k][1].end, answer[k][1].from)
    /\ UNCHANGED <<scenario, nextID, answer, writer, stdin, stdinOpen, sidecar, stdout,
                   reader, done, cancelled, handler, notes, sent>>

\* -------------------------------------------------------------- writer
At(x) == IF x \in Calls THEN call[x].pc ELSE handler[x]
Goes(x, pc) ==
    IF x \in Calls
    THEN call' = [call EXCEPT ![x].pc = pc] /\ UNCHANGED handler
    ELSE handler' = [handler EXCEPT ![x] = pc] /\ UNCHANGED call
Free(x) == writer = None

Acquire(x) ==
    /\ At(x) = "lock" /\ Free(x)
    /\ writer' = x /\ Goes(x, "header")
    /\ UNCHANGED <<scenario, nextID, pending, answer, stdin, stdinOpen, sidecar, stdout, reader,
                   done, cancelled, notes, sent>>

Write(x) ==
    /\ At(x) \in {"header", "body"}
    /\ Alive /\ stdinOpen /\ Len(stdin) < StdinRoom
    /\ stdin' = Append(stdin, <<x, At(x)>>)
    /\ IF At(x) = "header" THEN Goes(x, "body") /\ UNCHANGED writer
       ELSE Goes(x, IF x \in Calls THEN "sent" ELSE "ended") /\ writer' = None
    /\ UNCHANGED <<scenario, nextID, pending, answer, stdinOpen, sidecar, stdout, reader,
                   done, cancelled, notes, sent>>

WriteFails(x) ==
    /\ At(x) \in {"header", "body"} /\ ~(Alive /\ stdinOpen)
    /\ writer' = None
    /\ IF x \in Calls THEN Return(x, "write", None) /\ UNCHANGED handler
       ELSE handler' = [handler EXCEPT ![x] = "ended"] /\ UNCHANGED <<call, pending>>
    /\ UNCHANGED <<scenario, nextID, answer, stdin, stdinOpen, sidecar, stdout, reader,
                   done, cancelled, notes, sent>>

\* -------------------------------------------------------------- reader
\* mutant: a channel without a buffer
TakesUnbuffered(k) == call[k].pc = "wait"
\* the channel holds one answer, also for a caller that does not wait yet
Takes(k) == answer[k] = <<>>

Deliver(id, from) ==
    LET k == IF id \in DOMAIN pending THEN pending[id] ELSE None IN
    IF k # None /\ Takes(k)
    THEN answer' = [answer EXCEPT ![k] = <<[end |-> "ok", from |-> from]>>]
    ELSE UNCHANGED answer

ReadFrame ==
    /\ reader = "read" /\ ~cancelled /\ stdout # <<>>
    /\ stdout' = Tail(stdout)
    /\ LET f == Head(stdout) IN
       \/ /\ f.kind = "response" /\ Deliver(f.id, f.from)
          /\ UNCHANGED <<reader, handler, notes>>
       \/ /\ f.kind = "request" /\ handler' = [handler EXCEPT ![f.from] = "run"]
          /\ UNCHANGED <<answer, reader, notes>>
       \/ /\ f.kind = "note" /\ notes' = IF notes < NotifyRoom THEN notes + 1 ELSE notes
          /\ UNCHANGED <<answer, reader, handler>>
       \/ f.kind = "garbage" /\ UNCHANGED <<answer, reader, handler, notes>>
       \/ f.kind = "oversize" /\ reader' = "close" /\ UNCHANGED <<answer, handler, notes>>
    /\ UNCHANGED <<scenario, call, nextID, pending, writer, stdin, stdinOpen, sidecar, done,
                   cancelled, sent>>

\* the end of the stream, or of the context, the latter between reads only
ReadEnds ==
    /\ reader = "read"
    /\ cancelled \/ (~Alive /\ stdout = <<>>)
    /\ reader' = "close"
    /\ UNCHANGED <<scenario, call, nextID, pending, answer, writer, stdin, stdinOpen, sidecar,
                   stdout, done, cancelled, handler, notes, sent>>

\* done first, then an error to each caller that was registered by then
CloseAll ==
    /\ reader = "close"
    /\ IF ~done THEN done' = TRUE /\ UNCHANGED <<reader, pending, answer>>
       ELSE /\ reader' = "ended"
            /\ answer' = [k \in Calls |->
                  IF answer[k] = <<>> /\ \E id \in DOMAIN pending : pending[id] = k
                  THEN <<[end |-> "closed", from |-> None]>> ELSE answer[k]]
            /\ pending' = [id \in DOMAIN pending |-> None]
            /\ UNCHANGED done
    /\ UNCHANGED <<scenario, call, nextID, writer, stdin, stdinOpen, sidecar, stdout, cancelled,
                   handler, notes, sent>>

\* ------------------------------------------------ the sidecar's requests
\* Handle splits the method and asks the namespace; any outcome is a frame.
\* workbench.runCommand of a command of kind host calls the same sidecar.
Handle(r) ==
    /\ handler[r] = "run"
    /\ \/ /\ handler' = [handler EXCEPT ![r] = "lock"]
          /\ UNCHANGED <<call, nextID, pending>>
       \/ /\ Can("nested")
          /\ \E k \in Calls : Begin(k) /\ handler' = [handler EXCEPT ![r] = k]
    /\ UNCHANGED <<scenario, answer, writer, stdin, stdinOpen, sidecar, stdout, reader, done,
                   cancelled, notes, sent>>

HandledNested(r) ==
    /\ handler[r] \in Calls /\ call[handler[r]].pc = "ended"
    /\ handler' = [handler EXCEPT ![r] = "lock"]
    /\ UNCHANGED <<scenario, call, nextID, pending, answer, writer, stdin, stdinOpen, sidecar,
                   stdout, reader, done, cancelled, notes, sent>>

\* ------------------------------------------------------------- sidecar
Sidecar(pc, at, todo) == sidecar' = [pc |-> pc, at |-> at, todo |-> todo]
HostUnchanged == UNCHANGED <<scenario, call, nextID, pending, answer, writer, reader, done,
                             cancelled, handler, notes>>

\* One thing at a time: while it waits for the host it only keeps what comes.
SidecarReads ==
    /\ sidecar.pc \in {"idle", "ask"} /\ Len(stdin) > 1
    /\ stdin' = SubSeq(stdin, 3, Len(stdin))
    /\ LET x == Head(stdin)[1] IN
       \/ x \in Calls /\ sidecar.pc = "idle" /\ Sidecar("serve", x, <<>>)
       \/ x \in Calls /\ sidecar.pc = "ask" /\ Sidecar("ask", sidecar.at, Append(sidecar.todo, x))
       \/ x \in Requests /\ Sidecar(IF sidecar.pc = "ask" THEN "serve" ELSE "idle", sidecar.at, sidecar.todo)
    /\ HostUnchanged /\ UNCHANGED <<stdinOpen, stdout, sent>>

SidecarAnswers ==
    /\ sidecar.pc = "serve" /\ Len(stdout) < StdoutRoom
    /\ stdout' = Append(stdout, Frame("response", call[sidecar.at].id, sidecar.at))
    /\ IF sidecar.todo = <<>> THEN Sidecar("idle", None, <<>>)
       ELSE Sidecar("serve", Head(sidecar.todo), Tail(sidecar.todo))
    /\ HostUnchanged /\ UNCHANGED <<stdin, stdinOpen, sent>>

SidecarAsks(r) ==
    /\ Can("request") /\ sidecar.pc = "serve" /\ handler[r] = "off" /\ Len(stdout) < StdoutRoom
    /\ \A f \in {stdout[i] : i \in DOMAIN stdout} : f.from # r
    /\ stdout' = Append(stdout, Frame("request", 0, r))
    /\ Sidecar("ask", sidecar.at, sidecar.todo)
    /\ HostUnchanged /\ UNCHANGED <<stdin, stdinOpen, sent>>

SidecarSays ==      \* a notification, a frame that is no JSON, one beyond the limit
    /\ sidecar.pc = "serve" /\ Len(stdout) < StdoutRoom /\ sent < MaxNotes
    /\ \E kind \in {"note", "garbage", "oversize"} :
          Can(kind) /\ stdout' = Append(stdout, Frame(kind, 0, None))
    /\ sent' = sent + 1
    /\ HostUnchanged /\ UNCHANGED <<stdin, stdinOpen, sidecar>>

SidecarStalls ==
    /\ Can("stall") /\ Alive /\ Sidecar("stalled", None, <<>>)
    /\ HostUnchanged /\ UNCHANGED <<stdin, stdinOpen, stdout, sent>>

\* It ends, on the end of its input or by itself; Wait closes its output,
\* also before everything is read.
Exit ==
    /\ Alive /\ (Can("exit") \/ ~stdinOpen)
    /\ Sidecar("dead", None, <<>>)
    /\ HostUnchanged /\ UNCHANGED <<stdin, stdinOpen, stdout, sent>>

WaitCloses ==
    /\ ~Alive /\ stdout # <<>> /\ stdout' = <<>>
    /\ HostUnchanged /\ UNCHANGED <<stdin, stdinOpen, sidecar, sent>>

Shutdown ==         \* the supervisor's: the context, then stdin, then the group
    /\ Can("shutdown") /\ stdinOpen
    /\ cancelled' = TRUE /\ stdinOpen' = FALSE
    /\ UNCHANGED <<scenario, call, nextID, pending, answer, writer, stdin, sidecar, stdout,
                   reader, done, handler, notes, sent>>

Listen ==           \* whoever drains Notifications
    /\ notes > 0 /\ notes' = notes - 1
    /\ UNCHANGED <<scenario, call, nextID, pending, answer, writer, stdin, stdinOpen, sidecar,
                   stdout, reader, done, cancelled, handler, sent>>

Next ==
    \/ \E k \in Calls : Call(k) \/ Cancel(k) \/ Wait(k) \/ Select(k)
    \/ \E x \in Calls \union Requests : Acquire(x) \/ Write(x) \/ WriteFails(x)
    \/ ReadFrame \/ ReadEnds \/ CloseAll
    \/ \E r \in Requests : Handle(r) \/ HandledNested(r) \/ SidecarAsks(r)
    \/ SidecarReads \/ SidecarAnswers \/ SidecarSays \/ SidecarStalls \/ Exit \/ WaitCloses
    \/ Shutdown \/ Listen

Spec == Init /\ [][Next]_vars

\* Goroutines run, Go's mutex starves nobody, and a sidecar that has not
\* stalled goes on; what it says beside its answers it may leave unsaid.
FairSpec ==
    /\ Spec
    /\ \A k \in Calls : WF_vars(Wait(k)) /\ WF_vars(Select(k))
    /\ \A x \in Calls \union Requests :
          SF_vars(Acquire(x)) /\ WF_vars(Write(x)) /\ WF_vars(WriteFails(x))
    /\ WF_vars(ReadFrame) /\ WF_vars(ReadEnds) /\ WF_vars(CloseAll)
    /\ \A r \in Requests : WF_vars(Handle(r)) /\ WF_vars(HandledNested(r))
    /\ WF_vars(SidecarReads) /\ WF_vars(SidecarAnswers)
    /\ WF_vars(~stdinOpen /\ Exit)

\* ---------------------------------------------------------- properties
(* The frames on the wire are whole: a header is followed by its own body, *)
(* whoever else writes, and an answer reaches the caller it is for.        *)
WholeAndOwn ==
    /\ \A i \in DOMAIN stdin :
          IF i % 2 = 1 THEN stdin[i][2] = "header" ELSE stdin[i] = <<stdin[i - 1][1], "body">>
    /\ \A k \in Calls : call[k].end = "ok" => call[k].from = k

\* what the host and a sidecar that has not stalled can do by themselves
Moves ==
    \/ \E k \in Calls : \/ call[k].pc = "sent"
                        \/ call[k].pc = "wait" /\ (call[k].late \/ done \/ answer[k] # <<>>)
    \/ \E x \in Calls \union Requests :
          \/ At(x) = "lock" /\ writer = None
          \/ At(x) \in {"header", "body"} /\ (~Alive \/ ~stdinOpen \/ Len(stdin) < StdinRoom)
    \/ reader = "read" /\ (cancelled \/ stdout # <<>> \/ ~Alive)
    \/ reader = "close"
    \/ \E r \in Requests : \/ handler[r] = "run"
                           \/ handler[r] \in Calls /\ call[handler[r]].pc = "ended"
    \/ sidecar.pc \in {"idle", "ask"} /\ Len(stdin) > 1
    \/ sidecar.pc = "serve" /\ Len(stdout) < StdoutRoom
    \/ ~stdinOpen /\ Alive

(* No caller is forgotten: when nothing moves by itself any more every     *)
(* call has ended, whatever the sidecar asked or said meanwhile, also when *)
(* it is gone; unless it has stalled, or was asked to wait for itself, or  *)
(* the mux has closed on a frame too large: what a sidecar says after that *)
(* nobody reads, and a write may wait for ever for a sidecar that waits.   *)
NobodyWaits ==
    (Alive => sidecar.pc # "stalled" /\ \A r \in Requests : handler[r] \notin Calls) =>
        \A k \in Calls :
            \/ call[k].pc \in {"off", "ended"}
            \/ call[k].pc \in {"lock", "header", "body"} /\ Alive /\ reader = "ended"
            \/ Moves

(* Refuted: Call "blocks until the response arrives or ctx is done"        *)
(* (mux.go:121).  A write into a full pipe knows nothing of the context,   *)
(* and everybody else waits for its lock.                                  *)
CancelEnds == \A k \in Calls : call[k].late ~> call[k].pc = "ended"

(* Refuted: "the caller can then retry Read" (jsonrpc.go:152).  The only   *)
(* caller closes the mux on a frame too large, and the sidecar lives on.   *)
MuxLivesWithSidecar == (reader = "ended") ~> ~Alive

(* Refuted: a call whose answer is there returns it (mux.go:121).  With    *)
(* done closed as well the select may take that.                           *)
AnsweredReturns ==
    \A k \in Calls : (call[k].end = "eof") => (answer[k] = <<>> \/ answer[k][1].end = "closed")

(* Refuted: "a slow handler doesn't block the stream" (mux.go:73) when the *)
(* handler runs a command of the sidecar that waits for it.                *)
NestedEnds == \A r \in Requests : (handler[r] \in Calls) ~> (handler[r] = "ended")
=============================================================================
