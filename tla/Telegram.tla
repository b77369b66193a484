------------------------------ MODULE Telegram ------------------------------
(***************************************************************************)
(* The Telegram bridge (gateway/telegram): the Manager that starts, reloads *)
(* and stops a Bot with its Notifier, Forwarder and Dispatcher; the long    *)
(* poll of updates and the goroutine of each; the goroutine of each idle    *)
(* event, that pushes what is new to the linked chats; the links, the reply *)
(* routing and the checkboxes of multi-select prompts.                      *)
(*                                                                         *)
(* Every bot has its own Notifier, Forwarder and MultiSelectStore; those of *)
(* a bot that was stopped live on in the goroutines that still use them.    *)
(* The LinkStore is shared, and saved under its lock: links survive a       *)
(* crash, the routing of replies does not.  The text of a session is a set  *)
(* of lines: the number of the terminal, that of the line.  Commands that   *)
(* only read, and the acknowledgements of the others, are left out.         *)
(***************************************************************************)
EXTENDS Naturals, Sequences, FiniteSets, Functions

CONSTANTS
    Sessions,
    Claude,         \* the sessions whose output is read from JSONL
    Chats,
    Notify,         \* the configured notification chat
    Asking,         \* the numbers of lines that are a multi-select prompt
    Inputs,         \* what users do: <<chat, operation, session>>
    MaxLines,       \* bound: lines of a terminal
    MaxUpdates,     \* bound: updates of users
    MaxSent,        \* bound: pushes and notifications
    MaxBots,        \* bound: bots started
    Scenarios,      \* bound: what is allowed, linked and runs at first, and how often what may happen
    None

\* A text or a reply, /send, /link, /unlink, a control key or /yes, a button, a
\* checkbox, its Submit.
Ops == {"text", "send", "link", "unlink", "key", "button", "toggle", "submit"}

\* What may happen a bounded number of times: lines, exits and starts of sessions, each kind
\* of update, idle events, bodies above 4000 characters, times that pass, changes of the
\* configuration, restarts of the gateway, calls to Telegram that fail.
Events == Ops \cup {"line", "exit", "idle", "long", "time", "config", "restart", "fault"}

TelegramAssumption ==
    /\ Claude \subseteq Sessions /\ Notify \in Chats /\ IsFiniteSet(Chats)
    /\ {MaxLines, MaxUpdates, MaxSent, MaxBots} \subseteq Nat
    /\ Asking \subseteq Nat /\ None \notin Sessions
    /\ Inputs \subseteq Chats \X Ops \X (Sessions \cup {None})
    /\ Scenarios \subseteq [chats : SUBSET Chats, link : [Chats -> Sessions \cup {None}],
                              running : SUBSET Sessions, budget : [Events -> Nat]]

Bots == 1..MaxBots
Ids  == 1..MaxSent

VARIABLES
    \* Telegram
    inbox,      \* the updates users have sent; the id of one is its index
    confirmed,  \* those up to this id have been confirmed and are forgotten
    log,        \* the pushes and notifications in the chats; the id is the index
    \* the hub
    running,    \* the sessions with a process
    lines,      \* how many lines a session has written in its terminal
    terminal,   \* how many terminals it had before
    \* the manager
    config,     \* the plugin is enabled, with these allowed chats
    hash,       \* Manager.cfgHash
    bot,        \* the running bot, 0 for none
    bots,       \* bots started so far
    born,       \* history: bots started before the gateway did
    \* of each bot
    allowed,    \* Config.AllowedChatIDs
    offset,     \* Bot.lastUpdate
    batch,      \* fetched updates not yet dispatched
    last,       \* Forwarder.last: the lines of the last snapshot sent
    notified,   \* Notifier.lastNotify
    waiting,    \* Notifier.pendingInput
    \* shared, or keyed by message
    link,       \* LinkStore.links
    remembered, \* LinkStore.pendingMsgs
    boxes,      \* MultiSelectStore.items of the bot that sent the message
    \* goroutines
    handlers,   \* HandleUpdate
    idlers,     \* Notifier.handle of an idle event
    budget,     \* what may still happen
    submits,    \* history: submits of a message that were typed in
    turn        \* history: how often a baseline in last was set back or gave way to other lines

telegram == <<inbox, confirmed>>
hub      == <<running, lines, terminal>>
manager  == <<config, hash, bot, bots, born, allowed>>
flags    == <<notified, waiting>>
routes   == <<link, remembered>>
vars == <<telegram, log, hub, manager, offset, batch, last, flags, routes, boxes,
          handlers, idlers, budget, submits, turn>>

Lines    == Nat \X (1..MaxLines)
Updates  == [chat : Chats, op : Ops, ses : Sessions \cup {None}, msg : 0..MaxSent]
\* What is new, pushed to a linked chat; a notification that a session is idle; an earlier
\* message of one of these that was split; a notification that a session has exited.
Kinds    == {"push", "idle", "part", "exit"}
Sent     == [chat : Chats, ses : Sessions, text : SUBSET Lines, kind : Kinds, by : Bots,
             turn : Nat]
Handlers == [u : 1..MaxUpdates, by : Bots, ses : Sessions \cup {None},
             pc : {"begin", "type", "enter", "failed", "reset", "rebase", "bind", "tidy", "put back"}]
Idlers   == [n : Nat, ses : Sessions, by : Bots, asked : BOOLEAN, prior : BOOLEAN, sent : BOOLEAN,
             text : SUBSET Lines, base : SUBSET Lines, turn : Nat,
             left : SUBSET Chats, msg : 0..MaxSent,
             pc : {"stop", "bye", "guard", "read", "diff", "send", "register", "after", "note"}]

TypeOK ==
    /\ inbox \in Seq(Updates) /\ Len(inbox) <= MaxUpdates /\ confirmed \in 0..MaxUpdates
    /\ log \in Seq(Sent) /\ Len(log) <= MaxSent
    /\ running \subseteq Sessions /\ lines \in [Sessions -> 0..MaxLines]
    /\ terminal \in [Sessions -> Nat]
    /\ config \in [on : BOOLEAN, chats : SUBSET Chats]
    /\ bot \in 0..bots /\ bots \in 0..MaxBots /\ born \in 0..bots
    /\ allowed \in [Bots -> SUBSET Chats]
    /\ offset \in [Bots -> 0..MaxUpdates] /\ batch \in [Bots -> SUBSET (1..MaxUpdates)]
    /\ last \in [Bots -> [Sessions -> SUBSET Lines]]
    /\ notified \in [Bots -> [Sessions -> {"never", "recent", "old"}]]
    /\ waiting \in [Bots -> [Sessions -> {"no", "yes", "late"}]]
    /\ link \in [Chats -> Sessions \cup {None}]
    /\ remembered \in [Ids -> Sessions \cup {None}]
    /\ boxes \in [Ids -> {"none", "taken", "empty", "ticked"}]
    /\ handlers \subseteq Handlers /\ idlers \subseteq Idlers
    /\ budget \in [Events -> Nat] /\ submits \in [Ids -> Nat] /\ turn \in [Bots -> [Sessions -> Nat]]

Init ==
    /\ inbox = <<>> /\ confirmed = 0 /\ log = <<>>
    /\ \E x \in Scenarios :
          /\ config = [on |-> TRUE, chats |-> x.chats] /\ link = x.link
          /\ running = x.running /\ budget = x.budget
    /\ lines = [s \in Sessions |-> 0] /\ terminal = [s \in Sessions |-> 0]
    /\ hash = <<>> /\ bot = 0 /\ bots = 0 /\ born = 0
    /\ allowed = [b \in Bots |-> {}]
    /\ offset = [b \in Bots |-> 0] /\ batch = [b \in Bots |-> {}]
    /\ last = [b \in Bots |-> [s \in Sessions |-> {}]]
    /\ notified = [b \in Bots |-> [s \in Sessions |-> "never"]]
    /\ waiting = [b \in Bots |-> [s \in Sessions |-> "no"]]
    /\ remembered = [m \in Ids |-> None] /\ boxes = [m \in Ids |-> "none"]
    /\ handlers = {} /\ idlers = {}
    /\ submits = [m \in Ids |-> 0]
    /\ turn = [b \in Bots |-> [s \in Sessions |-> 0]]

-----------------------------------------------------------------------------
(* Sessions and users.                                                      *)

\* What SendIfChanged reads: of a Claude session the last response, of another
\* the tail of its buffer (all of it, here), if it runs.
Text(s) == IF s \in Claude THEN {terminal[s]} \X ({lines[s]} \ {0})
           ELSE IF s \in running THEN {terminal[s]} \X (1..lines[s]) ELSE {}

ChatsFor(s) == {c \in Chats : link[c] = s}
Spend(x)    == budget[x] > 0 /\ budget' = [budget EXCEPT ![x] = @ - 1]

Write(s) ==
    /\ s \in running /\ lines[s] < MaxLines /\ Spend("line")
    /\ lines' = [lines EXCEPT ![s] = @ + 1]
    /\ UNCHANGED <<telegram, log, running, terminal, manager, offset, batch, last, flags, routes,
                   boxes, handlers, idlers, submits, turn>>

Idler(n, s, pc) == [n |-> n, ses |-> s, by |-> bot, pc |-> pc, asked |-> FALSE, prior |-> FALSE,
                    text |-> {}, base |-> {}, turn |-> 0, left |-> {}, sent |-> FALSE, msg |-> 0]

\* The process of a session ends, on its own or by a stop; a handler that has
\* typed a text holds the old terminal.  The stop hook reaches the notifier.
Exit(s) ==
    /\ s \in running /\ running' = running \ {s} /\ Spend("exit")
    /\ handlers' = {IF h.pc = "enter" /\ h.ses = s THEN [h EXCEPT !.pc = "failed"] ELSE h : h \in handlers}
    /\ idlers' = idlers \cup (IF bot = 0 THEN {} ELSE {Idler(0, s, "stop")})
    /\ UNCHANGED <<telegram, log, lines, terminal, manager, offset, batch, last, flags, routes,
                   boxes, submits, turn>>

Messages(c) == {m \in DOMAIN log : log[m].chat = c}
IsPrompt(m) == log[m].ses \in Claude /\ \E l \in log[m].text : l[2] \in Asking

\* A user sends a text, a reply or a command, or taps a button of a message.
Send(c, op, s, m) ==
    /\ Len(inbox) < MaxUpdates /\ Spend(op)
    /\ m # 0 => m \in Messages(c) /\ (op = "text" \/ log[m].ses = s)
    /\ op \in {"button", "toggle", "submit"} => m # 0
    /\ op \in {"toggle", "submit"} => IsPrompt(m)
    /\ op \in {"send", "link", "unlink", "key"} => m = 0
    /\ inbox' = Append(inbox, [chat |-> c, op |-> op, ses |-> s, msg |-> m])
    /\ UNCHANGED <<confirmed, log, hub, manager, offset, batch, last, flags, routes, boxes,
                   handlers, idlers, submits, turn>>

-----------------------------------------------------------------------------
(* The manager.                                                             *)

Configure(on, chats) ==
    /\ Spend("config")
    /\ [on |-> on, chats |-> chats] # config
    /\ config' = [on |-> on, chats |-> chats]
    /\ UNCHANGED <<telegram, log, hub, hash, bot, bots, born, allowed, offset, batch, last, flags, routes, boxes,
                   handlers, idlers, submits, turn>>

\* configHash writes the allowed chats in the order of a map, a random one.
Hashes == IF config.on THEN Bijection(1..Cardinality(config.chats), config.chats) ELSE {<<None>>}

\* tearDownLocked forgets the snapshots of the running bot.
TornDown == IF bot = 0 THEN UNCHANGED <<last, turn>>
            ELSE /\ last' = [last EXCEPT ![bot] = [s \in Sessions |-> {}]]
                 /\ turn' = [turn EXCEPT ![bot] = [s \in Sessions |-> turn[bot][s] + 1]]

\* A new bot, with an empty Forwarder and Notifier.
Launched ==
    /\ bots < MaxBots /\ bots' = bots + 1 /\ bot' = bots + 1
    /\ allowed' = [allowed EXCEPT ![bots + 1] = config.chats]
    /\ UNCHANGED budget

\* reconcile: a tick of the watch loop finds another hash, stops the bot and
\* starts a new one, unless getMe fails.  The hash is kept in any case.
Reconcile ==
    /\ \E h \in Hashes : h # hash /\ hash' = h
    /\ TornDown
    /\ IF config.on /\ config.chats # {}
         THEN Launched \/ (bot' = 0 /\ Spend("fault") /\ UNCHANGED <<bots, allowed>>)
         ELSE bot' = 0 /\ UNCHANGED <<bots, allowed, budget>>
    /\ UNCHANGED <<telegram, log, hub, config, born, offset, batch, flags, routes, boxes,
                   handlers, idlers, submits>>

\* The gateway dies and is started again: links and updates are left.
Restart ==
    /\ Spend("restart")
    /\ hash' = <<>> /\ bot' = 0 /\ born' = bots /\ TornDown
    /\ batch' = [b \in Bots |-> {}]
    /\ remembered' = [m \in Ids |-> None] /\ boxes' = [m \in Ids |-> "none"]
    /\ handlers' = {} /\ idlers' = {} /\ running' = {}
    /\ UNCHANGED <<telegram, log, lines, terminal, config, bots, allowed, offset, flags, link, submits>>

\* RecoverOnStartup or a user starts a session again: the buffer of its new terminal is empty,
\* the transcript of a Claude session goes on.
Start(s) ==
    /\ s \notin running /\ running' = running \cup {s} /\ Spend("exit")
    /\ IF s \in Claude THEN UNCHANGED <<lines, terminal>>
       ELSE lines' = [lines EXCEPT ![s] = 0] /\ terminal' = [terminal EXCEPT ![s] = @ + 1]
    /\ UNCHANGED <<telegram, log, manager, offset, batch, last, flags, routes, boxes,
                   handlers, idlers, submits, turn>>

-----------------------------------------------------------------------------
(* The poll loop.                                                           *)

\* getUpdates confirms what is below the offset and fetches the rest.
Fetch(b) ==
    /\ b = bot /\ batch[b] = {}
    /\ LET known == IF offset[b] > confirmed THEN offset[b] ELSE confirmed IN
       /\ Len(inbox) > known
       /\ confirmed' = known
       /\ batch' = [batch EXCEPT ![b] = (known + 1)..Len(inbox)]
    /\ UNCHANGED <<inbox, log, hub, manager, offset, last, flags, routes, boxes,
                   handlers, idlers, budget, submits, turn>>

\* The next update gets a goroutine, if its chat is allowed.  A bot that was
\* stopped dispatches its batch all the same.
Dispatch(b) ==
    /\ \E u \in batch[b] :
       /\ \A k \in batch[b] : u <= k
       /\ batch' = [batch EXCEPT ![b] = @ \ {u}]
       /\ offset' = [offset EXCEPT ![b] = u]
       /\ handlers' = handlers \cup
            (IF inbox[u].chat \in allowed[b]
               THEN {[u |-> u, by |-> b, pc |-> "begin", ses |-> inbox[u].ses]} ELSE {})
    /\ UNCHANGED <<telegram, log, hub, manager, last, flags, routes, boxes, idlers, budget, submits, turn>>

-----------------------------------------------------------------------------
(* HandleUpdate.                                                            *)

Op(h)      == inbox[h.u].op
Chat(h)    == inbox[h.u].chat
Target(h)  == inbox[h.u].msg
At(h, pc)  == h \in handlers /\ h.pc = pc
Step(h, g) == handlers' = (handlers \ {h}) \cup {g}
To(h, pc)  == Step(h, [h EXCEPT !.pc = pc])
Done(h)    == handlers' = handlers \ {h}
Quiet      == UNCHANGED <<telegram, log, hub, manager, offset, batch, idlers, budget>>

\* Where a text or a key goes: to the session of the message it replies to, else to
\* the session the chat is linked to.
Destination(h) ==
    IF Target(h) # 0 /\ remembered[Target(h)] # None THEN remembered[Target(h)] ELSE link[Chat(h)]

Route(h) ==
    /\ At(h, "begin") /\ Op(h) \in {"text", "key"}
    /\ IF Destination(h) = None THEN Done(h)
       ELSE Step(h, [h EXCEPT !.pc = "type", !.ses = Destination(h)])
    /\ Quiet /\ UNCHANGED <<last, flags, routes, boxes, submits, turn>>

\* writeTextThenEnter, writeToSession: the text, ...
Type(h) ==
    /\ At(h, IF Op(h) \in {"send", "button"} THEN "begin" ELSE "type")
    /\ To(h, IF h.ses \notin running THEN "failed"
             ELSE IF Op(h) \in {"button", "key"} THEN "reset" ELSE "enter")
    /\ Quiet /\ UNCHANGED <<last, flags, routes, boxes, submits, turn>>

\* ... after 100 ms the Enter, ...
Enter(h) ==
    /\ At(h, "enter")
    /\ To(h, "reset")
    /\ submits' = IF Op(h) = "submit" THEN [submits EXCEPT ![Target(h)] = @ + 1] ELSE submits
    /\ Quiet /\ UNCHANGED <<last, flags, routes, boxes, turn>>

\* The session does not run: the picks of a prompt are put back.
Failed(h) ==
    /\ At(h, "failed")
    /\ IF Op(h) = "submit" THEN To(h, "put back") ELSE Done(h)
    /\ Quiet /\ UNCHANGED <<last, flags, routes, boxes, submits, turn>>

\* ... and ResetIdleFlag: the flags of the notifier, then the baseline.
Reset(h) ==
    /\ At(h, "reset")
    /\ notified' = [notified EXCEPT ![h.by][h.ses] = "never"]
    /\ waiting' = [waiting EXCEPT ![h.by][h.ses] = "yes"]
    /\ To(h, "rebase")
    /\ Quiet /\ UNCHANGED <<last, routes, boxes, submits, turn>>

Forget(b, s) ==
    /\ last' = [last EXCEPT ![b][s] = {}]
    /\ turn' = [turn EXCEPT ![b][s] = @ + 1]

Rebase(h) ==
    /\ At(h, "rebase")
    /\ Forget(h.by, h.ses)
    /\ IF Op(h) = "text" THEN To(h, "bind") ELSE Done(h)
    /\ Quiet /\ UNCHANGED <<flags, routes, boxes, submits>>

\* cmdLink refuses a session that does not run.
CheckLink(h) ==
    /\ At(h, "begin") /\ Op(h) = "link"
    /\ IF h.ses \in running THEN To(h, "bind") ELSE Done(h)
    /\ Quiet /\ UNCHANGED <<last, flags, routes, boxes, submits, turn>>

\* LinkStore.Set and Remove; the baseline of the prior session is tidied up next.
Bind(h) ==
    /\ At(h, IF Op(h) = "unlink" THEN "begin" ELSE "bind")
    /\ LET prior == link[Chat(h)] IN
       /\ link' = [link EXCEPT ![Chat(h)] = h.ses]
       /\ IF prior \notin {None, h.ses} THEN Step(h, [h EXCEPT !.pc = "tidy", !.ses = prior]) ELSE Done(h)
    /\ Quiet /\ UNCHANGED <<last, flags, remembered, boxes, submits, turn>>

Tidy(h) ==
    /\ At(h, "tidy")
    /\ IF ChatsFor(h.ses) = {} THEN Forget(h.by, h.ses) ELSE UNCHANGED <<last, turn>>
    /\ Done(h)
    /\ Quiet /\ UNCHANGED <<flags, routes, boxes, submits>>

\* The state of a prompt that the store of this bot holds.
Box(h) == IF log[Target(h)].by = h.by THEN boxes[Target(h)] ELSE "none"

Toggle(h) ==
    /\ At(h, "begin") /\ Op(h) = "toggle"
    /\ boxes' = CASE Box(h) = "empty"  -> [boxes EXCEPT ![Target(h)] = "ticked"]
                  [] Box(h) = "ticked" -> [boxes EXCEPT ![Target(h)] = "empty"]
                  [] OTHER             -> boxes
    /\ Done(h)
    /\ Quiet /\ UNCHANGED <<last, flags, routes, submits, turn>>

\* Mutant of Take: the selection is read and left in the store.
TakeNot(h) ==
    /\ At(h, "begin") /\ Op(h) = "submit"
    /\ CASE Box(h) = "empty"  -> To(h, "put back")
         [] Box(h) = "ticked" -> To(h, "type")
         [] OTHER             -> Done(h)
    /\ Quiet /\ UNCHANGED <<last, flags, routes, boxes, submits, turn>>

\* MultiSelectStore.Submit takes the selection out of the store.
Take(h) ==
    /\ At(h, "begin") /\ Op(h) = "submit"
    /\ CASE Box(h) = "empty"  -> To(h, "put back")
         [] Box(h) = "ticked" -> To(h, "type")
         [] OTHER             -> Done(h)
    /\ boxes' = IF Box(h) \in {"empty", "ticked"} THEN [boxes EXCEPT ![Target(h)] = "taken"] ELSE boxes
    /\ Quiet /\ UNCHANGED <<last, flags, routes, submits, turn>>

\* Mutant of PutBack: nothing is put back.
PutBackNot(h) ==
    /\ At(h, "put back")
    /\ Done(h)
    /\ Quiet /\ UNCHANGED <<last, flags, routes, boxes, submits, turn>>

\* Nothing was ticked, or it could not be typed in: it is put back, unticked.
PutBack(h) ==
    /\ At(h, "put back")
    /\ boxes' = [boxes EXCEPT ![Target(h)] = "empty"]
    /\ Done(h)
    /\ Quiet /\ UNCHANGED <<last, flags, routes, submits, turn>>

\* The panel removes a link and leaves the baseline.
PanelUnlink(c) ==
    /\ link[c] # None /\ link' = [link EXCEPT ![c] = None]
    /\ UNCHANGED <<telegram, log, hub, manager, offset, batch, last, flags, remembered, boxes,
                   handlers, idlers, budget, submits, turn>>

-----------------------------------------------------------------------------
(* Notifier.handle of an idle event, with SendIfChanged in it.              *)

Idle(s) ==
    /\ s \in running /\ bot # 0 /\ Spend("idle")
    /\ idlers' = idlers \cup {Idler(budget["idle"], s, "guard")}
    /\ UNCHANGED <<telegram, log, hub, manager, offset, batch, last, flags, routes, boxes,
                   handlers, submits, turn>>

Is(i, pc)   == i \in idlers /\ i.pc = pc
Goto(i, j) == idlers' = (idlers \ {i}) \cup {j}
Leave(i)    == idlers' = idlers \ {i}
Still       == UNCHANGED <<telegram, hub, manager, offset, batch, link, handlers, submits>>

\* The stop hook clears the flags of the session, ...
Stopped(i) ==
    /\ Is(i, "stop") /\ Goto(i, [i EXCEPT !.pc = "bye"])
    /\ notified' = [notified EXCEPT ![i.by][i.ses] = "never"]
    /\ waiting' = [waiting EXCEPT ![i.by][i.ses] = "no"]
    /\ Still /\ UNCHANGED <<log, last, remembered, boxes, budget, turn>>

\* The cooldown, and whether input waits for an answer.
Guard(i) ==
    /\ Is(i, "guard")
    /\ IF notified[i.by][i.ses] = "recent"
         THEN Leave(i) /\ UNCHANGED flags
         ELSE /\ Goto(i, [i EXCEPT !.pc = "read",
                                    !.asked = waiting[i.by][i.ses] = "yes",
                                    !.prior = notified[i.by][i.ses] # "never"])
              /\ waiting' = IF waiting[i.by][i.ses] = "late" THEN [waiting EXCEPT ![i.by][i.ses] = "no"] ELSE waiting
              /\ UNCHANGED notified
    /\ Still /\ UNCHANGED <<log, last, remembered, boxes, budget, turn>>

\* The linked chats and the text, read without a lock.
Read(i) ==
    /\ Is(i, "read")
    /\ LET chats == ChatsFor(i.ses) IN
       Goto(i, IF chats = {} \/ Text(i.ses) = {} THEN [i EXCEPT !.pc = "after"]
                ELSE [i EXCEPT !.pc = "diff", !.text = Text(i.ses), !.left = chats])
    /\ Still /\ UNCHANGED <<log, last, flags, remembered, boxes, budget, turn>>

\* Mutant of Diff: the new baseline is not recorded.
DiffUnrecorded(i) ==
    /\ Is(i, "diff")
    /\ IF i.text \subseteq last[i.by][i.ses]
         THEN Goto(i, [i EXCEPT !.pc = "after", !.left = {}]) /\ UNCHANGED last
         ELSE /\ Goto(i, [i EXCEPT !.pc = "send", !.base = last[i.by][i.ses],
                                                !.turn = turn[i.by][i.ses]])
              /\ UNCHANGED last
    /\ Still /\ UNCHANGED <<log, flags, remembered, boxes, budget, turn>>

\* Under the lock: what is new, and the new baseline, which may be that of another terminal.
Diff(i) ==
    /\ Is(i, "diff")
    /\ IF i.text \subseteq last[i.by][i.ses]
         THEN Goto(i, [i EXCEPT !.pc = "after", !.left = {}]) /\ UNCHANGED <<last, turn>>
         ELSE /\ Goto(i, [i EXCEPT !.pc = "send", !.base = last[i.by][i.ses],
                                                !.turn = turn[i.by][i.ses]])
              /\ last' = [last EXCEPT ![i.by][i.ses] = i.text]
              /\ turn' = IF last[i.by][i.ses] = {} \/ last[i.by][i.ses] \cap i.text # {} THEN turn
                         ELSE [turn EXCEPT ![i.by][i.ses] = @ + 1]
    /\ Still /\ UNCHANGED <<log, flags, remembered, boxes, budget>>

Deliver(i, c, text, kind) ==
    /\ Len(log) < MaxSent
    /\ log' = Append(log, [chat |-> c, ses |-> i.ses, text |-> text, kind |-> kind,
                           by |-> i.by, turn |-> i.turn])

\* ... and notifyStop tells the notification chat that the session has exited.  The id of
\* this message is dropped.
Bye(i) ==
    /\ Is(i, "bye") /\ Leave(i)
    /\ \/ Deliver(i, Notify, {}, "exit") /\ UNCHANGED budget
       \/ Spend("fault") /\ UNCHANGED log
    /\ Still /\ UNCHANGED <<last, flags, remembered, boxes, turn>>

\* Bot.Send splits a body above 4000 characters.  It returns the id of the last message only,
\* which has the buttons, and stands for the text of all.
Part(i, c) ==
    /\ \/ Is(i, "send") /\ c \in i.left
       \/ Is(i, "note") /\ c = Notify
    /\ Spend("long")
    /\ Deliver(i, c, {}, "part")
    /\ Still /\ UNCHANGED <<idlers, last, flags, remembered, boxes, turn>>

\* The next chat is sent what is new, or the call fails.
Push(i, c) ==
    /\ Is(i, "send") /\ c \in i.left
    /\ \/ /\ Deliver(i, c, i.text \ i.base, "push")
          /\ Goto(i, [i EXCEPT !.pc = "register", !.left = @ \ {c}, !.sent = TRUE, !.msg = Len(log) + 1])
          /\ UNCHANGED budget
       \/ /\ Spend("fault") /\ Goto(i, [i EXCEPT !.left = @ \ {c}]) /\ UNCHANGED log
    /\ Still /\ UNCHANGED <<last, flags, remembered, boxes, turn>>

\* Mutant of Register: pushes are not remembered, notifications are.
RegisterNotes(i) ==
    /\ Is(i, "register")
    /\ remembered' = IF log[i.msg].kind = "push" THEN remembered ELSE [remembered EXCEPT ![i.msg] = i.ses]
    /\ boxes' = IF IsPrompt(i.msg) THEN [boxes EXCEPT ![i.msg] = "empty"] ELSE boxes
    /\ IF log[i.msg].kind = "push" THEN Goto(i, [i EXCEPT !.pc = "send", !.msg = 0]) ELSE Leave(i)
    /\ Still /\ UNCHANGED <<log, last, flags, budget, turn>>

\* Once it is sent, its id is remembered for replies and a prompt gets its boxes.
Register(i) ==
    /\ Is(i, "register")
    /\ remembered' = [remembered EXCEPT ![i.msg] = i.ses]
    /\ boxes' = IF IsPrompt(i.msg) THEN [boxes EXCEPT ![i.msg] = "empty"] ELSE boxes
    /\ IF log[i.msg].kind = "push" THEN Goto(i, [i EXCEPT !.pc = "send", !.msg = 0]) ELSE Leave(i)
    /\ Still /\ UNCHANGED <<log, last, flags, budget, turn>>

\* No chat got it: the baseline is set back to what it was.
PushEnds(i) ==
    /\ Is(i, "send") /\ i.left = {}
    /\ Goto(i, [i EXCEPT !.pc = "after"])
    /\ IF i.sent THEN UNCHANGED <<last, turn>>
       ELSE /\ last' = [last EXCEPT ![i.by][i.ses] = i.base]
            /\ turn' = [turn EXCEPT ![i.by][i.ses] = @ + 1]
    /\ Still /\ UNCHANGED <<log, flags, remembered, boxes, budget>>

\* A gap in the thinking, a repetition, or something to tell: the cooldown is
\* set and the input answered.
After(i) ==
    /\ Is(i, "after")
    /\ IF i.asked /\ ~i.sent
         THEN Leave(i) /\ UNCHANGED flags
         ELSE /\ notified' = [notified EXCEPT ![i.by][i.ses] = "recent"]
              /\ waiting' = IF i.asked THEN [waiting EXCEPT ![i.by][i.ses] = "no"] ELSE waiting
              /\ IF (i.prior /\ ~i.sent) \/ (i.sent /\ link[Notify] = i.ses)
                   THEN Leave(i) ELSE Goto(i, [i EXCEPT !.pc = "note"])
    /\ Still /\ UNCHANGED <<log, last, remembered, boxes, budget, turn>>

\* notifyIdle tells the notification chat.
Note(i) ==
    /\ Is(i, "note")
    /\ \/ /\ Deliver(i, Notify, Text(i.ses), "idle")
          /\ Goto(i, [i EXCEPT !.pc = "register", !.msg = Len(log) + 1])
          /\ UNCHANGED budget
       \/ /\ Spend("fault") /\ Leave(i) /\ UNCHANGED log
    /\ Still /\ UNCHANGED <<last, flags, remembered, boxes, turn>>

\* Ten seconds pass since the last notification; two minutes since the input.
Cool(s) ==
    /\ bot # 0 /\ notified[bot][s] = "recent" /\ Spend("time")
    /\ notified' = [notified EXCEPT ![bot][s] = "old"]
    /\ UNCHANGED <<telegram, log, hub, manager, offset, batch, last, waiting, routes, boxes,
                   handlers, idlers, submits, turn>>

Tire(s) ==
    /\ bot # 0 /\ waiting[bot][s] = "yes" /\ Spend("time")
    /\ waiting' = [waiting EXCEPT ![bot][s] = "late"]
    /\ UNCHANGED <<telegram, log, hub, manager, offset, batch, last, notified, routes, boxes,
                   handlers, idlers, submits, turn>>

-----------------------------------------------------------------------------

Handle(h) ==
    \/ Route(h) \/ Type(h) \/ Enter(h) \/ Failed(h) \/ Reset(h) \/ Rebase(h) \/ CheckLink(h) \/ Bind(h) \/ Tidy(h)
    \/ Toggle(h) \/ Take(h) \/ PutBack(h)

Tell(i) ==
    \/ Stopped(i) \/ Bye(i) \/ Guard(i) \/ Read(i) \/ Diff(i) \/ Register(i) \/ PushEnds(i) \/ After(i) \/ Note(i)
    \/ \E c \in Chats : Push(i, c) \/ Part(i, c)

Next ==
    \/ \E s \in Sessions : Write(s) \/ Exit(s) \/ Start(s) \/ Idle(s) \/ Cool(s) \/ Tire(s)
    \/ \E x \in Inputs, m \in 0..MaxSent : Send(x[1], x[2], x[3], m)
    \/ \E on \in BOOLEAN, chats \in SUBSET Chats : Configure(on, chats)
    \/ Reconcile \/ Restart
    \/ \E b \in Bots : Fetch(b) \/ Dispatch(b)
    \/ \E h \in handlers : Handle(h)
    \/ \E i \in idlers : Tell(i)
    \/ \E c \in Chats : PanelUnlink(c)

Spec == Init /\ [][Next]_vars

-----------------------------------------------------------------------------
(* Properties.                                                              *)

\* The picks of a prompt are typed into the session once, whatever taps,
\* redeliveries and reloads there are (multiselect.go:123-126).
SubmittedOnce == \A m \in Ids : submits[m] <= 1

\* A selection that was taken out to be submitted is submitted or comes back:
\* nothing ticked, a dead session, a reload in between (commands.go:686-701).
SelectionKept ==
    \A m \in Ids : boxes[m] = "taken" =>
        submits[m] = 1 \/ \E h \in handlers : Op(h) = "submit" /\ Target(h) = m /\ h.pc # "begin"

\* A line of a terminal is pushed to a chat once until the baseline it was compared
\* with is reset, or gives way to that of another terminal of the session, however many
\* idle events are handled at a time (forwarder.go:131-133).
PushedOnce ==
    \A m, n \in DOMAIN log :
        /\ m < n /\ log[m].kind = "push" /\ log[n].kind = "push"
        /\ log[m].ses = log[n].ses /\ log[m].ses \notin Claude
        /\ log[m].chat = log[n].chat /\ log[m].by = log[n].by /\ log[m].turn = log[n].turn
        => log[m].text \cap log[n].text = {}

\* The last message of every push of this gateway, and of every notification that a session
\* is idle, can be replied to for the day its id is kept, once its sender has had it back
\* (forwarder.go:160-168, notifications.go:248-252).  Notices of exits and the earlier messages
\* of a split body cannot: their ids are dropped.
Answerable ==
    \A m \in DOMAIN log : log[m].by > born /\ log[m].kind \in {"push", "idle"} =>
        remembered[m] = log[m].ses \/ \E i \in idlers : i.msg = m

\* Refuted: a reply to any idle or exit notification is routed to its session (README.md:501).
\* Neither the id of a notice of an exit nor that of an earlier part is ever remembered.
NoticesAnswerable ==
    \A m \in DOMAIN log : log[m].by > born =>
        remembered[m] = log[m].ses \/ \E i \in idlers : i.ses = log[m].ses

\* Refuted: a reply goes to the session of the message it answers
\* (forwarder.go:169-175).  A reply that comes before the id is remembered, or
\* after a restart, goes to the session the chat is linked to.
RepliesArrive ==
    \A h \in handlers : Op(h) = "text" /\ Target(h) # 0 /\ h.pc \in {"type", "enter"} =>
        h.ses = log[Target(h)].ses

\* Refuted: a tick that finds nothing changed is a no-op (manager.go:277-278).
\* With two allowed chats the hash changes by itself and the bot is restarted.
TickIsNoOp == [][(hash \in Hashes /\ hash' # << >>) => (bot' = bot)]_vars

\* Refuted: while input waits for its answer, the next idle event is not held
\* back (notifications.go:71-73).  An event that was being handled when the input
\* came sets the cooldown after ResetIdleFlag has cleared it.
NextIdleHeard == \A b \in Bots, s \in Sessions : waiting[b][s] = "yes" => notified[b][s] # "recent"

\* Refuted: a bot that is configured runs once its configuration was looked at.
\* One whose getMe failed is not started again.
BotRuns == hash \in Hashes /\ config.on /\ config.chats # {} => bot # 0

=============================================================================
