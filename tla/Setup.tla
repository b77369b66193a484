------------------------------- MODULE Setup -------------------------------
(***************************************************************************)
(* How an installation comes to be, starts and goes: the terminal wizard   *)
(* (cmd/opendray/setup_cli) with its scripted form and its hand-over from  *)
(* root to a user of its own, the boot of the server (cmd/opendray/main),  *)
(* the service unit (service_cli) and the uninstaller (uninstall_cli).     *)
(* They share four things: the configuration file of each home             *)
(* (kernel/config), the cluster of the bundled PostgreSQL and its process  *)
(* (kernel/pg), and the admin row of each database.                        *)
(*                                                                         *)
(* The cluster takes the password it is made with for good.  That password *)
(* is random, is in memory only until the configuration is saved a second  *)
(* time, and is nowhere but there.  Passwords, signing secrets and admin   *)
(* accounts are numbers, never drawn twice; 0 is the empty string.         *)
(***************************************************************************)
EXTENDS Naturals

CONSTANTS
    Scenarios,      \* what a behaviour may do, and where the user's file lies
    MaxPasswords,   \* bound: cluster passwords ever drawn
    MaxAdmins,      \* bound: admin accounts ever typed
    MaxSecrets,     \* bound: signing secrets ever drawn
    MaxRuns,        \* bound: runs of the wizard
    MaxBoots,       \* bound: starts of the server
    None

Deeds == {"interactive", "scripted", "root", "boot", "ui", "fail", "crash", "uninstall", "service", "env"}
Modes == {"embedded", "external"}
Homes == {"root", "user"}
Addrs == {"loopback", "all"}

SetupAssumption ==
    /\ \A s \in Scenarios : s.deeds \subseteq Deeds /\ s.file \in {"inside", "outside"}
    /\ MaxPasswords \in Nat /\ MaxAdmins \in Nat /\ MaxSecrets \in Nat
    /\ MaxRuns \in Nat /\ MaxBoots \in Nat

VARIABLES
    scenario,
    config,     \* the file of each home, read over the defaults
    cluster,    \* the password the data directory was made with, 0 without one
    pg,         \* who started the postmaster that runs
    rows,       \* the admin row of each database, 0 without
    wiz,        \* opendray setup
    srv,        \* the server
    un,         \* opendray uninstall
    account, copied, unit, installed,   \* the system user, its copy of the
                \* binary, the service unit, the binary
    passwords, admins, secrets, runs, boots,
    chosen,     \* history: the admin account last chosen for each database
    applied,    \* history: what the last wizard of each home reported done
    dropped,    \* history: the cluster's password was given up, and by what
    overtaken   \* history: databases whose row came between a boot's look and write

host    == <<account, copied, unit, installed>>
counted == <<passwords, admins, secrets, runs, boots>>
history == <<chosen, applied, dropped, overtaken>>
vars == <<scenario, config, cluster, pg, rows, wiz, srv, un, host, counted, history>>

Defaults == [mode |-> "embedded", listen |-> "loopback", pw |-> 0, jwt |-> 0, admin |-> 0]
Configs  == [mode : Modes, listen : Addrs, pw : 0..MaxPasswords,
             jwt : 0..MaxSecrets, admin : 0..MaxAdmins]
Causes   == {"none", "scripted", "external", "unsaved", "stale", "uninstalled"}

NoWizard == [pc |-> "off", as |-> "user", child |-> FALSE, cfg |-> Defaults, said |-> Defaults,
             hand |-> 0, cause |-> "none", kept |-> TRUE]
NoServer == [pc |-> "off", as |-> "user", cfg |-> Defaults, hand |-> 0, crossed |-> FALSE]
NoRemoval == [pc |-> "off", keep |-> FALSE, mode |-> "embedded"]

TypeOK ==
    /\ config \in [Homes -> Configs]
    /\ cluster \in 0..MaxPasswords /\ pg \in {"none", "wizard", "server", "orphan"}
    /\ rows \in [Modes -> 0..MaxAdmins]
    /\ wiz \in [pc : {"off", "db", "account", "copy", "listen", "admin", "jwt", "confirm",
                      "save", "start", "keep", "migrate", "plant", "service"},
                as : Homes, child : BOOLEAN, cfg : Configs, said : Configs,
                hand : 0..MaxPasswords, cause : Causes, kept : BOOLEAN]
    /\ srv \in [pc : {"off", "start", "keep", "migrate", "look", "plant", "up"}, as : Homes,
                cfg : Configs, hand : 0..MaxPasswords, crossed : BOOLEAN]
    /\ un \in [pc : {"off", "pg", "server", "delete", "binary"}, keep : BOOLEAN, mode : Modes]
    /\ host \in [1..4 -> BOOLEAN]
    /\ passwords \in 0..MaxPasswords /\ admins \in 0..MaxAdmins /\ secrets \in 0..MaxSecrets
    /\ runs \in 0..MaxRuns /\ boots \in 0..MaxBoots
    /\ chosen \in [Modes -> 0..MaxAdmins] /\ applied \in [Homes -> Configs \cup {None}]
    /\ dropped \in Causes /\ overtaken \subseteq Modes

Init ==
    /\ scenario \in Scenarios
    /\ config = [h \in Homes |-> Defaults]
    /\ cluster = 0 /\ pg = "none" /\ rows = [m \in Modes |-> 0]
    /\ wiz = NoWizard /\ srv = NoServer /\ un = NoRemoval
    /\ account = FALSE /\ copied = FALSE /\ unit = FALSE /\ installed = TRUE
    /\ passwords = 0 /\ admins = 0 /\ secrets = 0 /\ runs = 0 /\ boots = 0
    /\ chosen = [m \in Modes |-> 0] /\ applied = [h \in Homes |-> None]
    /\ dropped = "none" /\ overtaken = {}

May(d) == d \in scenario.deeds

(* config.Load: the file over the defaults, and the environment over both; *)
(* DB_HOST makes the mode external whatever the file says.                 *)
Overlay(c) == IF May("env") THEN [c EXCEPT !.mode = "external"] ELSE c
Load(h)    == Overlay(config[h])

(* Enough to boot without asking: a signing secret; the mode always comes  *)
(* with its data directory or its connection.                              *)
IsComplete(c) == c.jwt # 0

(* pg.Start: an empty password is drawn.  A postmaster that runs holds the *)
(* port and the directory, and the cluster opens under its own password    *)
(* only, so a start with another fails.                                    *)
Used(c)    == IF c.pw = 0 THEN passwords + 1 ELSE c.pw
Drawn(c)   == IF c.pw = 0 THEN passwords + 1 ELSE passwords
CanDraw(c) == c.pw = 0 => passwords < MaxPasswords
Opens(c)   == pg = "none" /\ cluster \in {0, Used(c)}

(* The start goes through; or its first run makes the cluster and the last *)
(* ping times out.                                                         *)
Started(c, who) == CanDraw(c) /\ Opens(c) /\ cluster' = Used(c) /\ pg' = who /\ passwords' = Drawn(c)
HalfStarted(c) == CanDraw(c) /\ Opens(c) /\ cluster' = Used(c) /\ passwords' = Drawn(c) /\ pg' = pg
Refused(c) == (~ Opens(c) \/ May("fail")) /\ UNCHANGED <<cluster, passwords, pg, dropped>>

------------------------------------------------------------------------------
(* The wizard.  Nobody runs it while the uninstaller runs.                 *)

wizardOnly == <<scenario, config, cluster, pg, rows, srv, un, host, history>>

At(pc)   == wiz.pc = pc
Goto(pc) == wiz' = [wiz EXCEPT !.pc = pc]

(* The command returns.  A child that returns 0 brings its parent, still   *)
(* root, to the question about the service.                                *)
Over(code) == IF wiz.child /\ code = 0 THEN [NoWizard EXCEPT !.pc = "service", !.as = "root"]
                                       ELSE NoWizard

(* Mutant: the wizard starts from the defaults over a complete file too. *)
PromptingAfresh(h, child) == [NoWizard EXCEPT !.pc = "db", !.as = h, !.child = child]

Prompting(h, child) ==
    [NoWizard EXCEPT !.pc = "db", !.as = h, !.child = child,
        !.cfg = IF IsComplete(Load(h)) THEN Load(h) ELSE Defaults,
        !.said = IF IsComplete(Load(h)) THEN Load(h) ELSE Defaults]

(* opendray setup: a complete configuration is offered as defaults. *)
RunSetup(h) ==
    /\ May("interactive") /\ installed /\ At("off") /\ un.pc = "off" /\ runs < MaxRuns
    /\ h = "root" => May("root")
    /\ wiz' = Prompting(h, FALSE)
    /\ runs' = runs + 1
    /\ UNCHANGED <<wizardOnly, passwords, admins, secrets, boots>>

(* opendray setup --yes starts from the defaults, whatever is configured. *)
RunScripted(m, a) ==
    /\ May("scripted") /\ installed /\ At("off") /\ un.pc = "off" /\ runs < MaxRuns
    /\ admins < MaxAdmins /\ secrets < MaxSecrets
    /\ LET c == [mode |-> m, listen |-> a, pw |-> 0, jwt |-> secrets + 1, admin |-> admins + 1]
       IN  wiz' = [NoWizard EXCEPT !.pc = "save", !.cfg = c, !.said = c, !.cause = "scripted"]
    /\ runs' = runs + 1 /\ admins' = admins + 1 /\ secrets' = secrets + 1
    /\ UNCHANGED <<wizardOnly, passwords, boots>>

(* Step 1: bundled, or the prompts after it left with `back`. *)
ChooseBundled ==
    /\ At("db") /\ wiz.as = "user"
    /\ \E pc \in {"db", "listen"} :
          wiz' = [wiz EXCEPT !.pc = pc, !.cfg.mode = "embedded", !.said.mode = "embedded"]
    /\ UNCHANGED <<wizardOnly, counted>>

(* Step 1: external.  The cluster's password is wiped on the way in; the   *)
(* connection is tried before the next step.                               *)
ChooseExternal ==
    /\ At("db")
    /\ \E pc \in {"db", "listen"} :
          wiz' = [wiz EXCEPT !.pc = pc, !.cfg.mode = "external", !.said.mode = "external",
                             !.cfg.pw = 0, !.cause = "external"]
    /\ UNCHANGED <<wizardOnly, counted>>

Listen(a) ==
    /\ At("listen")
    /\ wiz' = [wiz EXCEPT !.pc = "admin", !.cfg.listen = a, !.said.listen = a]
    /\ UNCHANGED <<wizardOnly, counted>>

Admin ==
    /\ At("admin") /\ admins < MaxAdmins
    /\ wiz' = [wiz EXCEPT !.pc = "jwt", !.cfg.admin = admins + 1, !.said.admin = admins + 1]
    /\ admins' = admins + 1
    /\ UNCHANGED <<wizardOnly, passwords, secrets, runs, boots>>

(* A new secret, or the one of the working configuration. *)
Jwt ==
    /\ At("jwt")
    /\ \/ /\ secrets < MaxSecrets /\ secrets' = secrets + 1
          /\ wiz' = [wiz EXCEPT !.pc = "confirm", !.cfg.jwt = secrets + 1, !.said.jwt = secrets + 1]
       \/ /\ wiz.cfg.jwt # 0 /\ secrets' = secrets
          /\ wiz' = [wiz EXCEPT !.pc = "confirm", !.said.jwt = wiz.cfg.jwt]
    /\ UNCHANGED <<wizardOnly, passwords, admins, runs, boots>>

Previous == [listen |-> "db", admin |-> "listen", jwt |-> "admin"]

Back ==
    /\ wiz.pc \in DOMAIN Previous /\ Goto(Previous[wiz.pc])
    /\ UNCHANGED <<wizardOnly, counted>>

(* quit at a prompt, or no to the summary: exit code 0. *)
Quit ==
    /\ wiz.pc \in {"db", "listen", "admin", "jwt", "confirm"}
    /\ wiz' = Over(0)
    /\ UNCHANGED <<wizardOnly, counted>>

Confirm ==
    /\ At("confirm") /\ Goto("save")
    /\ UNCHANGED <<wizardOnly, counted>>

(* Root chose bundled: a user, a copy of the binary for it, and the wizard *)
(* again as that user.  A failure goes back to the menu.                   *)
ChooseBundledAsRoot ==
    /\ At("db") /\ wiz.as = "root"
    /\ \E pc \in {"db", "account"} : Goto(pc)
    /\ UNCHANGED <<wizardOnly, counted>>

CreateAccount ==
    /\ At("account")
    /\ \/ account' = TRUE /\ Goto("copy")
       \/ ~ account /\ May("fail") /\ account' = account /\ Goto("db")
    /\ UNCHANGED <<scenario, config, cluster, pg, rows, srv, un, copied, unit, installed, counted, history>>

HandOver ==
    /\ At("copy")
    /\ \/ copied' = TRUE /\ wiz' = Prompting("user", TRUE)
       \/ May("fail") /\ Goto("db") /\ copied' \in {copied, TRUE}
    /\ UNCHANGED <<scenario, config, cluster, pg, rows, srv, un, account, unit, installed, counted, history>>

(* The child came back with 0: install the unit, unless one is there. *)
OfferService ==
    /\ At("service") /\ wiz' = NoWizard
    /\ unit' \in {unit, copied}
    /\ UNCHANGED <<scenario, config, cluster, pg, rows, srv, un, account, copied, installed, counted, history>>

(* apply, step 1: the file, before anything is known to work.  A boot that *)
(* has read the old one goes on with it.                                   *)
SaveConfig ==
    /\ At("save")
    /\ \/ /\ config' = [config EXCEPT ![wiz.as] = wiz.cfg]
          /\ wiz' = [wiz EXCEPT !.pc = IF wiz.cfg.mode = "embedded" THEN "start" ELSE "migrate"]
          /\ srv' = IF srv.as = wiz.as THEN [srv EXCEPT !.crossed = srv.pc # "off"] ELSE srv
          /\ applied' = [applied EXCEPT ![wiz.as] = None]
          /\ dropped' = IF cluster # 0 /\ wiz.as = "user" /\ wiz.cause # "none" THEN wiz.cause ELSE dropped
       \/ /\ May("fail") /\ wiz' = Over(1) /\ UNCHANGED <<config, srv, applied, dropped>>
    /\ UNCHANGED <<scenario, cluster, pg, rows, un, host, counted, chosen, overtaken>>

StartBundled ==
    /\ At("start")
    /\ \/ /\ Started(wiz.cfg, "wizard") /\ UNCHANGED dropped
          /\ wiz' = [wiz EXCEPT !.pc = IF wiz.cfg.pw = 0 THEN "keep" ELSE "migrate", !.hand = cluster']
       \/ /\ May("fail") /\ HalfStarted(wiz.cfg) /\ wiz' = Over(1)
          /\ dropped' = IF wiz.cfg.pw = 0 THEN "unsaved" ELSE dropped
       \/ Refused(wiz.cfg) /\ wiz' = Over(1)
    /\ UNCHANGED <<scenario, config, rows, srv, un, host, admins, secrets, runs, boots, chosen, applied, overtaken>>

(* The password drawn goes into the file; an error is not looked at. *)
KeepPassword ==
    /\ At("keep")
    /\ \/ /\ wiz' = [wiz EXCEPT !.pc = "migrate", !.cfg.pw = wiz.hand]
          /\ config' = [config EXCEPT !["user"] = wiz'.cfg]
          /\ UNCHANGED dropped
       \/ /\ May("fail") /\ wiz' = [wiz EXCEPT !.pc = "migrate", !.cfg.pw = wiz.hand, !.kept = FALSE]
          /\ dropped' = "unsaved" /\ UNCHANGED config
    /\ UNCHANGED <<scenario, cluster, pg, rows, srv, un, host, counted, chosen, applied, overtaken>>

(* A return stops the cluster the wizard has started. *)
Stopped(who) == IF pg = who THEN "none" ELSE pg

Migrate ==
    /\ At("migrate")
    /\ \/ Goto("plant") /\ pg' = pg
       \/ May("fail") /\ wiz' = Over(1) /\ pg' = Stopped("wizard")
    /\ UNCHANGED <<scenario, config, cluster, rows, srv, un, host, counted, history>>

(* The row is written over whatever it held; then the wizard has succeeded. *)
PlantAdmin ==
    /\ At("plant") /\ pg' = Stopped("wizard")
    /\ \/ /\ rows' = [rows EXCEPT ![wiz.cfg.mode] = wiz.cfg.admin]
          /\ chosen' = [chosen EXCEPT ![wiz.cfg.mode] = wiz.cfg.admin]
          /\ applied' = [applied EXCEPT ![wiz.as] = IF wiz.kept THEN wiz.said ELSE None]
          /\ overtaken' = IF srv.pc = "plant" THEN overtaken \cup {wiz.cfg.mode} ELSE overtaken
          /\ wiz' = Over(0)
       \/ May("fail") /\ wiz' = Over(1) /\ UNCHANGED <<rows, chosen, applied, overtaken>>
    /\ UNCHANGED <<scenario, config, cluster, srv, un, host, counted, dropped>>

(* Ctrl-C or a kill: no deferred call runs. *)
Orphaned(who) == IF pg = who THEN "orphan" ELSE pg

Interrupt ==
    /\ May("crash") /\ ~ At("off")
    /\ wiz' = NoWizard /\ pg' = Orphaned("wizard")
    /\ dropped' = IF At("keep") THEN "unsaved" ELSE dropped
    /\ UNCHANGED <<scenario, config, cluster, rows, srv, un, host, counted, chosen, applied, overtaken>>

------------------------------------------------------------------------------
(* The server.                                                             *)

serverOnly == <<scenario, rows, wiz, un, host, chosen>>

In(pc) == srv.pc = pc

(* The database of the server answers. *)
Reached == srv.cfg.mode = "external" \/ pg = "server"

(* main: an incomplete configuration, and root with the bundled database,  *)
(* are refused.                                                            *)
Boot(h) ==
    /\ May("boot") /\ installed /\ In("off") /\ boots < MaxBoots
    /\ h = "root" => May("root") /\ Load(h).mode = "external"
    /\ IsComplete(Load(h))
    /\ srv' = [NoServer EXCEPT !.as = h, !.cfg = Load(h),
                  !.pc = IF Load(h).mode = "embedded" THEN "start" ELSE "migrate"]
    /\ boots' = boots + 1
    /\ UNCHANGED <<serverOnly, config, cluster, pg, passwords, admins, secrets, runs, applied, dropped, overtaken>>

(* A cluster made anew under the password of a file that has been replaced *)
(* or removed since it was read.                                           *)
MadeStale == cluster = 0 /\ srv.cfg.pw # 0 /\ srv.crossed

BootPostgres ==
    /\ In("start")
    /\ \/ /\ Started(srv.cfg, "server")
          /\ dropped' = IF MadeStale THEN "stale" ELSE dropped
          /\ srv' = [srv EXCEPT !.pc = IF srv.cfg.pw = 0 THEN "keep" ELSE "migrate", !.hand = cluster']
       \/ /\ May("fail") /\ HalfStarted(srv.cfg) /\ srv' = NoServer
          /\ dropped' = IF srv.cfg.pw = 0 THEN "unsaved" ELSE IF MadeStale THEN "stale" ELSE dropped
       \/ Refused(srv.cfg) /\ srv' = NoServer
    /\ UNCHANGED <<serverOnly, config, admins, secrets, runs, boots, applied, overtaken>>

(* The whole configuration read at the start is written back, with the     *)
(* password; a failure is logged.  A wizard that has read the file before  *)
(* does not see the password.                                              *)
BootKeep ==
    /\ In("keep")
    /\ \/ /\ srv' = [srv EXCEPT !.pc = "migrate", !.cfg.pw = srv.hand]
          /\ config' = [config EXCEPT !["user"] = srv'.cfg]
          /\ applied' = IF srv.crossed THEN [applied EXCEPT !["user"] = None] ELSE applied
          /\ wiz' = IF At("off") \/ wiz.as = "root" THEN wiz
                    ELSE [wiz EXCEPT !.cause = "stale", !.kept = @ /\ ~ srv.crossed]
          /\ dropped' = IF srv.crossed /\ cluster \notin {0, srv.hand} THEN "stale" ELSE dropped
       \/ /\ May("fail") /\ srv' = [srv EXCEPT !.pc = "migrate", !.cfg.pw = srv.hand]
          /\ dropped' = IF cluster = srv.hand THEN "unsaved" ELSE dropped
          /\ UNCHANGED <<config, applied, wiz>>
    /\ UNCHANGED <<scenario, cluster, pg, rows, un, host, counted, chosen, overtaken>>

(* os.Exit skips the deferred Stop. *)
BootMigrate ==
    /\ In("migrate")
    /\ \/ Reached /\ srv' = [srv EXCEPT !.pc = "look"] /\ pg' = pg
       \/ (May("fail") \/ ~ Reached) /\ srv' = NoServer /\ pg' = Orphaned("server")
    /\ UNCHANGED <<serverOnly, config, cluster, counted, applied, dropped, overtaken>>

(* Mutant: the bootstrap account is planted whether there is a row or not. *)
BootLookNot ==
    /\ In("look")
    /\ srv' = [srv EXCEPT !.pc = IF Reached /\ srv.cfg.admin # 0 THEN "plant" ELSE "up"]
    /\ UNCHANGED <<serverOnly, config, cluster, pg, counted, applied, dropped, overtaken>>

(* The bootstrap account is for a database without a row. *)
BootLook ==
    /\ In("look")
    /\ srv' = [srv EXCEPT !.pc = IF Reached /\ rows[srv.cfg.mode] = 0 /\ srv.cfg.admin # 0
                                    THEN "plant" ELSE "up"]
    /\ UNCHANGED <<serverOnly, config, cluster, pg, counted, applied, dropped, overtaken>>

BootPlant ==
    /\ In("plant")
    /\ IF Reached THEN /\ rows' = [rows EXCEPT ![srv.cfg.mode] = srv.cfg.admin]
                       /\ chosen' = [chosen EXCEPT ![srv.cfg.mode] = IF @ = 0 THEN srv.cfg.admin ELSE @]
                  ELSE UNCHANGED <<rows, chosen>>
    /\ srv' = [srv EXCEPT !.pc = "up"]
    /\ UNCHANGED <<scenario, config, cluster, pg, wiz, un, host, counted, applied, dropped, overtaken>>

(* The account is changed in the UI: the row, not the file. *)
ChangeAdmin ==
    /\ May("ui") /\ In("up") /\ Reached /\ admins < MaxAdmins
    /\ admins' = admins + 1
    /\ rows' = [rows EXCEPT ![srv.cfg.mode] = admins + 1]
    /\ chosen' = [chosen EXCEPT ![srv.cfg.mode] = admins + 1]
    /\ UNCHANGED <<scenario, config, cluster, pg, wiz, srv, un, host, passwords, secrets, runs, boots,
                   applied, dropped, overtaken>>

(* A signal ends main, whose deferred Stop runs; or the port of the server *)
(* was taken, and os.Exit skips it.                                        *)
StopServer ==
    /\ In("up") /\ srv' = NoServer
    /\ \/ pg' = Stopped("server")
       \/ May("fail") /\ pg' = Orphaned("server")
    /\ UNCHANGED <<serverOnly, config, cluster, counted, applied, dropped, overtaken>>

KillServer ==
    /\ May("crash") /\ ~ In("off")
    /\ srv' = NoServer /\ pg' = Orphaned("server")
    /\ dropped' = IF In("keep") /\ cluster = srv.hand THEN "unsaved" ELSE dropped
    /\ UNCHANGED <<serverOnly, config, cluster, counted, applied, overtaken>>

------------------------------------------------------------------------------
(* The service unit and the uninstaller.                                   *)

hostOnly == <<scenario, rows, wiz, account, copied, counted, chosen, overtaken>>

(* An existing unit needs --force; the unit is not looked at otherwise. *)
InstallService ==
    /\ May("service") /\ installed /\ ~ unit /\ unit' = TRUE
    /\ UNCHANGED <<hostOnly, config, cluster, pg, srv, un, installed, applied, dropped>>

(* systemctl stop, with all the processes of the unit if it runs the       *)
(* server; then the unit goes.                                             *)
UninstallService ==
    /\ May("service") /\ unit /\ unit' = FALSE
    /\ \/ /\ ~ In("off") /\ srv' = NoServer /\ pg' = Stopped("server")
          /\ dropped' = IF In("keep") /\ cluster = srv.hand THEN "unsaved" ELSE dropped
       \/ UNCHANGED <<srv, pg, dropped>>
    /\ UNCHANGED <<hostOnly, config, cluster, un, installed, applied>>

(* The plan is made from the configuration as it is now, by the user. *)
PlanRemoval(keep) ==
    /\ May("uninstall") /\ installed /\ un.pc = "off" /\ At("off")
    /\ un' = [pc |-> IF Load("user").mode = "embedded" THEN "pg" ELSE "server",
              keep |-> keep, mode |-> Load("user").mode]
    /\ UNCHANGED <<hostOnly, config, cluster, pg, srv, unit, installed, applied, dropped>>

(* Whatever listens on the cluster's port is terminated, the server or not. *)
RemovalStopsPg ==
    /\ un.pc = "pg" /\ un' = [un EXCEPT !.pc = "server"] /\ pg' = "none"
    /\ UNCHANGED <<hostOnly, config, cluster, srv, unit, installed, applied, dropped>>

(* A server that answers is terminated, and killed after three seconds. *)
RemovalStopsServer ==
    /\ un.pc = "server" /\ un' = [un EXCEPT !.pc = "delete"]
    /\ IF In("up") THEN srv' = NoServer /\ pg' \in {Stopped("server"), Orphaned("server")}
                   ELSE UNCHANGED <<srv, pg>>
    /\ UNCHANGED <<hostOnly, config, cluster, unit, installed, applied, dropped>>

(* The data directory goes with what is in it, the file too if it lies     *)
(* there; with --keep-data only files outside of it go.                    *)
RemovalDeletes ==
    /\ un.pc = "delete" /\ un' = [un EXCEPT !.pc = "binary"]
    /\ config' = IF un.keep /\ scenario.file = "inside" THEN config
                 ELSE [config EXCEPT !["user"] = Defaults]
    /\ cluster' = IF un.keep THEN cluster ELSE 0
    /\ dropped' = IF cluster' = 0 THEN "none" ELSE IF scenario.file = "inside" THEN dropped ELSE "uninstalled"
    /\ applied' = [applied EXCEPT !["user"] = None]
    /\ srv' = IF srv.as = "user" THEN [srv EXCEPT !.crossed = srv.pc # "off"] ELSE srv
    /\ UNCHANGED <<scenario, wiz, account, copied, counted, pg, unit, installed, overtaken>>
    /\ rows' = [rows EXCEPT !["embedded"] = IF un.keep THEN @ ELSE 0]
    /\ chosen' = [chosen EXCEPT !["embedded"] = IF un.keep THEN @ ELSE 0]

RemovalEnds ==
    /\ un.pc = "binary" /\ un' = NoRemoval /\ installed' = FALSE
    /\ UNCHANGED <<hostOnly, config, cluster, pg, srv, unit, applied, dropped>>

(* External: the install script puts the binary back. *)
Reinstall ==
    /\ ~ installed /\ installed' = TRUE
    /\ UNCHANGED <<hostOnly, config, cluster, pg, srv, un, unit, applied, dropped>>

Next ==
    \/ \E h \in Homes : RunSetup(h) \/ Boot(h)
    \/ \E m \in Modes, a \in Addrs : RunScripted(m, a)
    \/ ChooseBundled \/ ChooseExternal \/ ChooseBundledAsRoot
    \/ \E a \in Addrs : Listen(a)
    \/ Admin \/ Jwt \/ Back \/ Quit \/ Confirm
    \/ CreateAccount \/ HandOver \/ OfferService
    \/ SaveConfig \/ StartBundled \/ KeepPassword \/ Migrate \/ PlantAdmin \/ Interrupt
    \/ BootPostgres \/ BootKeep \/ BootMigrate \/ BootLook \/ BootPlant
    \/ ChangeAdmin \/ StopServer \/ KillServer
    \/ InstallService \/ UninstallService
    \/ \E keep \in BOOLEAN : PlanRemoval(keep)
    \/ RemovalStopsPg \/ RemovalStopsServer \/ RemovalDeletes \/ RemovalEnds \/ Reinstall

Spec == Init /\ [][Next]_vars

------------------------------------------------------------------------------
(* A cluster can be opened: unless its password was given up by one of the *)
(* named ways, it is in the user's file, or in the hands of the process    *)
(* that has just made the cluster and is about to write it down.           *)
ClusterOpens ==
    cluster # 0 /\ dropped = "none" =>
        \/ config["user"].pw = cluster
        \/ At("keep") /\ wiz.hand = cluster
        \/ In("keep") /\ srv.hand = cluster

(* What a wizard reported done stays true through every later boot, change *)
(* of the account and failed command: the file holds the last answers, the *)
(* bundled cluster opens with it, and the database lets in the account     *)
(* that was chosen last and no other.                                      *)
AppliedHolds ==
    /\ \A h \in Homes : applied[h] # None =>
          /\ [config[h] EXCEPT !.pw = 0] = [applied[h] EXCEPT !.pw = 0]
          /\ config[h].mode = "embedded" => config[h].pw = cluster
    /\ \A m \in Modes \ overtaken : rows[m] = chosen[m]

(* Refuted: the password of the cluster is never given up (embedded.go:    *)
(* "the caller is responsible for only doing so once, before the DB holds  *)
(* real data").                                                            *)
ClusterAlwaysOpens == cluster # 0 /\ At("off") /\ In("off") => config["user"].pw = cluster

(* Refuted: with neither wizard nor server there is no PostgreSQL left     *)
(* (embedded.go: "Callers must Stop it during shutdown so the child        *)
(* doesn't orphan").                                                       *)
NoOrphan == ~ May("crash") /\ At("off") /\ In("off") => pg = "none"

(* Refuted: the hand-over installs the service only after a wizard that    *)
(* has configured something (setup_cli.go: "Child was aborted / failed.    *)
(* Forward the exit code").                                                *)
ServiceConfigured == At("service") => IsComplete(config["user"])

(* Refuted: an uninstall leaves nothing running (uninstall_cli.go: "Stop   *)
(* any running OpenDray server + bundled PostgreSQL").                     *)
UninstallStops == [][un.pc = "binary" /\ un'.pc = "off" => In("off") /\ pg = "none"]_vars
==============================================================================
