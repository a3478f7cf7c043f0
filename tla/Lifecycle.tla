------------------------------ MODULE Lifecycle ------------------------------
(***************************************************************************)
(* The life of professord processes that share one configuration, hence    *)
(* one PID file path and one listen address: main() from the configuration *)
(* to the last cleanup step, and daemon.c's PID file protocol, one system  *)
(* call per step.  A process may crash anywhere and another be started.    *)
(***************************************************************************)
EXTENDS Sequences, FiniteSets

CONSTANTS
    Inst,       \* processes
    None        \* no process, no content

ASSUME NoneAssumption == None \notin Inst

VARIABLES
    overlap,    \* is an instance started while another is alive?
    daemonize,  \* cfg.daemonize of each instance
    pc,         \* where main() is
    todo,       \* cleanup steps left, in order
    held,       \* what main() has initialised and not destroyed
    handlers,   \* daemon_install_signals has run
    parent,     \* the processes it forked from: "none" left, some "leaving",
                \* or one "signalled" between fork() and _exit()
    shutdown,   \* g_shutdown_requested of the process that goes on
    seen,       \* PID read from an existing file
    ioerr,      \* history: the PID file could not be handled as usual
    sinks,      \* where the logger writes: use_stderr, use_syslog
    console,    \* instances whose stderr is not /dev/null
    unheard,    \* history: instances a message of which reached nobody
    file,       \* what cfg.pid_file names: its creator and its content
    port        \* the instance bound to listen_addr

fixed == <<overlap, daemonize>>
log   == <<sinks, console, unheard>>
vars  == <<fixed, pc, todo, held, handlers, parent, shutdown, seen, ioerr, log, file, port>>

NoFile     == [owner |-> None, pid |-> None]
Exists     == file # NoFile
Dead       == {"exited", "crashed"}
Alive(p)   == pc[p] \notin Dead \union {"off"}

(* Cleanup lists: the statements main() runs before each return.           *)
AfterModel  == <<"engine", "logger">>
AfterWorker == <<"engine", "pidfile", "logger">>
AfterServer == <<"worker", "engine", "pidfile", "logger">>

(* Mutant: the server is not destroyed.                                    *)
MutantKeepServer == <<"cancel", "worker", "engine", "pidfile", "farewell", "logger">>

(* Mutant: the engine is destroyed while the worker thread still runs.     *)
MutantAfterRun ==
    <<"server", "cancel", "engine", "worker", "pidfile", "farewell", "logger">>

AfterRun ==
    <<"server", "cancel", "worker", "engine", "pidfile", "farewell", "logger">>

Init ==
    /\ overlap \in BOOLEAN /\ daemonize \in [Inst -> BOOLEAN]
    /\ pc = [p \in Inst |-> "off"] /\ todo = [p \in Inst |-> <<>>]
    /\ held = [p \in Inst |-> {}]
    /\ handlers = [p \in Inst |-> FALSE] /\ parent = [p \in Inst |-> "none"]
    /\ shutdown = [p \in Inst |-> FALSE]
    /\ seen = [p \in Inst |-> None] /\ ioerr = [p \in Inst |-> FALSE]
    /\ sinks = [p \in Inst |-> {}] /\ console = Inst /\ unheard = {}
    /\ file = NoFile /\ port = None

Goto(p, l) == pc' = [pc EXCEPT ![p] = l] /\ UNCHANGED todo

CleanUp(p, steps) ==
    /\ pc' = [pc EXCEPT ![p] = "cleanup"]
    /\ todo' = [todo EXCEPT ![p] = steps]

Hold(p, r) == held' = [held EXCEPT ![p] = @ \union {r}]

(* logger_log and logger_announce, to an instance that has no log file.    *)
Heard(p) == "syslog" \in sinks[p] \/ ("stderr" \in sinks[p] /\ p \in console)

Say(p) ==
    /\ unheard' = IF Heard(p) THEN unheard ELSE unheard \union {p}
    /\ UNCHANGED <<sinks, console>>

Quiet == UNCHANGED log

(***************************************************************************)
(* main(): startup                                                         *)
(***************************************************************************)

(* Steps 1-5: an early-exit flag, a bad configuration, or a good one       *)
(* (Startup).                                                              *)
Configure(p) ==
    /\ pc[p] = "off"
    /\ overlap \/ \A q \in Inst : ~Alive(q)
    /\ Goto(p, "logger") \/ Goto(p, "exited")
    /\ UNCHANGED <<fixed, held, handlers, parent, shutdown, seen, ioerr, log, file, port>>

(* Step 6: logger_init, which writes to stderr and may fail to open a log  *)
(* file.                                                                   *)
InitLogger(p) ==
    /\ pc[p] = "logger"
    /\ \/ Goto(p, "signals") /\ Hold(p, "logger") /\ sinks' = [sinks EXCEPT ![p] = {"stderr"}]
       \/ Goto(p, "exited") /\ UNCHANGED <<held, sinks>>
    /\ UNCHANGED <<fixed, handlers, parent, shutdown, seen, ioerr, console, unheard, file, port>>

(* Step 7.                                                                 *)
InstallSignals(p) ==
    /\ pc[p] = "signals"
    /\ handlers' = [handlers EXCEPT ![p] = TRUE]
    /\ Goto(p, "model")
    /\ UNCHANGED <<fixed, held, parent, shutdown, seen, ioerr, log, file, port>>

(* Step 8: the model is loaded in the foreground, where errors are seen.   *)
LoadModel(p) ==
    /\ pc[p] = "model"
    /\ \/ Goto(p, "daemonize") /\ Hold(p, "engine")
       \/ CleanUp(p, <<"logger">>) /\ UNCHANGED held
    /\ Say(p)
    /\ UNCHANGED <<fixed, handlers, parent, shutdown, seen, ioerr, file, port>>

(* fork(): the child goes on at l, with a copy of the flag; the caller has *)
(* still to reach _exit().                                                 *)
Fork(p, l) ==
    /\ Goto(p, l) /\ Quiet
    /\ parent' = [parent EXCEPT ![p] = IF @ = "none" THEN "leaving" ELSE @]

(* daemon_daemonize returns -1, its stderr not redirected yet.             *)
DaemonizeFails(p) == CleanUp(p, AfterModel) /\ Say(p) /\ UNCHANGED parent

(* Step 9: in the foreground no PID file is written; otherwise the first   *)
(* fork.                                                                   *)
Daemonize(p) ==
    /\ pc[p] = "daemonize"
    /\ \/ ~daemonize[p] /\ Goto(p, "worker") /\ Quiet /\ UNCHANGED parent
       \/ daemonize[p] /\ (Fork(p, "setsid") \/ DaemonizeFails(p))
    /\ UNCHANGED <<fixed, held, handlers, shutdown, seen, ioerr, file, port>>

NewSession(p) ==
    /\ pc[p] = "setsid"
    /\ (Goto(p, "refork") /\ Quiet /\ UNCHANGED parent) \/ DaemonizeFails(p)
    /\ UNCHANGED <<fixed, held, handlers, shutdown, seen, ioerr, file, port>>

ForkAgain(p) ==
    /\ pc[p] = "refork"
    /\ Fork(p, "redirect") \/ DaemonizeFails(p)
    /\ UNCHANGED <<fixed, held, handlers, shutdown, seen, ioerr, file, port>>

(* Mutant: the logger is left as it is.                                    *)
MutantRedirect(p) ==
    /\ pc[p] = "redirect"
    /\ \/ Goto(p, "create") /\ console' = console \ {p} /\ UNCHANGED <<sinks, unheard, parent>>
       \/ DaemonizeFails(p)
    /\ UNCHANGED <<fixed, held, handlers, shutdown, seen, ioerr, file, port>>

(* /dev/null takes the place of the standard streams, if it can be opened. *)
Redirect(p) ==
    /\ pc[p] = "redirect"
    /\ \/ Goto(p, "syslog") /\ console' = console \ {p} /\ UNCHANGED <<sinks, unheard, parent>>
       \/ DaemonizeFails(p)
    /\ UNCHANGED <<fixed, held, handlers, shutdown, seen, ioerr, file, port>>

(* logger_enable_syslog.                                                   *)
EnableSyslog(p) ==
    /\ pc[p] = "syslog"
    /\ sinks' = [sinks EXCEPT ![p] = {"syslog"}]
    /\ Goto(p, "create")
    /\ UNCHANGED <<fixed, held, handlers, parent, shutdown, seen, ioerr, console, unheard, file,
                   port>>

(***************************************************************************)
(* daemon_write_pidfile.  main() logs a failure and goes on.               *)
(***************************************************************************)
GiveUp(p, error) ==
    /\ Goto(p, "worker") /\ Say(p)
    /\ ioerr' = [ioerr EXCEPT ![p] = error]

(* The first open, with O_CREAT and O_EXCL.                                *)
CreatePidfile(p) ==
    /\ pc[p] = "create"
    /\ \/ /\ ~Exists
          /\ file' = [owner |-> p, pid |-> None]
          /\ Goto(p, "write")
       \/ Exists /\ Goto(p, "readold") /\ UNCHANGED file
    /\ UNCHANGED <<fixed, held, handlers, parent, shutdown, seen, ioerr, log, port>>

(* The directory cannot be written: the second open fails as well.         *)
CannotCreate(p) ==
    /\ pc[p] = "create" /\ ~Exists
    /\ GiveUp(p, TRUE)
    /\ UNCHANGED <<fixed, held, handlers, parent, shutdown, seen, file, port>>

(* open and read of the existing file, which may have gone meanwhile or    *)
(* may not be opened: O_NOFOLLOW, or no permission.                        *)
ReadOldPid(p) ==
    /\ pc[p] = "readold"
    /\ \/ /\ Exists
          /\ seen' = [seen EXCEPT ![p] = file.pid]
          /\ Goto(p, "check") /\ Quiet /\ UNCHANGED ioerr
       \/ ~Exists /\ GiveUp(p, FALSE) /\ UNCHANGED seen
       \/ Exists /\ GiveUp(p, TRUE) /\ UNCHANGED seen
    /\ UNCHANGED <<fixed, held, handlers, parent, shutdown, file, port>>

(* Mutant: a file without a PID is taken for a live instance's.            *)
MutantStalePid(p) == seen[p] # None /\ ~Alive(seen[p])

(* No PID could be read, or kill(pid, 0) finds no such process.            *)
StalePid(p) == seen[p] # None => ~Alive(seen[p])

(* The file is stale, or its owner lives, or its PID was given to another  *)
(* process since.                                                          *)
CheckOldPid(p) ==
    /\ pc[p] = "check"
    /\ \/ StalePid(p) /\ Goto(p, "unlink") /\ Quiet /\ UNCHANGED ioerr
       \/ ~StalePid(p) /\ GiveUp(p, FALSE)
       \/ StalePid(p) /\ seen[p] # None /\ GiveUp(p, TRUE)
    /\ UNCHANGED <<fixed, held, handlers, parent, shutdown, seen, file, port>>

UnlinkStale(p) ==
    /\ pc[p] = "unlink"
    /\ file' = NoFile
    /\ Goto(p, "recreate")
    /\ UNCHANGED <<fixed, held, handlers, parent, shutdown, seen, ioerr, log, port>>

(* The second open, again with O_EXCL.                                     *)
RecreatePidfile(p) ==
    /\ pc[p] = "recreate"
    /\ \/ /\ ~Exists
          /\ file' = [owner |-> p, pid |-> None]
          /\ Goto(p, "write") /\ Quiet /\ UNCHANGED ioerr
       \/ Exists /\ GiveUp(p, FALSE) /\ UNCHANGED file
    /\ UNCHANGED <<fixed, held, handlers, parent, shutdown, seen, port>>

(* The PID goes to the file p created, whatever the path names by now; a   *)
(* failed write unlinks the path.                                          *)
WritePid(p) ==
    /\ pc[p] = "write"
    /\ \/ /\ file' = IF file.owner = p THEN [file EXCEPT !.pid = p] ELSE file
          /\ Goto(p, "worker") /\ Quiet /\ UNCHANGED ioerr
       \/ file' = NoFile /\ GiveUp(p, TRUE)
    /\ UNCHANGED <<fixed, held, handlers, parent, shutdown, seen, port>>

(***************************************************************************)
(* main(): worker, server, event loop, cleanup                             *)
(***************************************************************************)

(* Mutant: the PID file is forgotten on this error path.                   *)
MutantInitWorker(p) ==
    /\ pc[p] = "worker"
    /\ \/ Goto(p, "server") /\ Hold(p, "worker") /\ Quiet
       \/ CleanUp(p, AfterModel) /\ Say(p) /\ UNCHANGED held
    /\ UNCHANGED <<fixed, handlers, parent, shutdown, seen, ioerr, file, port>>

(* Step 10.                                                                *)
InitWorker(p) ==
    /\ pc[p] = "worker"
    /\ \/ Goto(p, "server") /\ Hold(p, "worker") /\ Quiet
       \/ CleanUp(p, AfterWorker) /\ Say(p) /\ UNCHANGED held
    /\ UNCHANGED <<fixed, handlers, parent, shutdown, seen, ioerr, file, port>>

(* Mutant: the worker thread is left running when the port is taken.       *)
MutantBindFails(p) ==
    /\ Hold(p, "mgr") /\ Say(p) /\ UNCHANGED port
    /\ CleanUp(p, AfterWorker)

(* server_init fails after mg_mgr_init, and mg_mgr_free is not called.     *)
BindFails(p) ==
    /\ Hold(p, "mgr") /\ Say(p) /\ UNCHANGED port
    /\ CleanUp(p, AfterServer)

(* Mutant: the flag is cleared when the server starts.                     *)
MutantInitServer(p) ==
    /\ pc[p] = "server"
    /\ \/ port = None /\ port' = p /\ Hold(p, "mgr") /\ Goto(p, "run") /\ Say(p)
       \/ BindFails(p)
    /\ shutdown' = [shutdown EXCEPT ![p] = FALSE]
    /\ UNCHANGED <<fixed, handlers, parent, seen, ioerr, file>>

(* Steps 11-12: the address may be taken or unusable.                      *)
InitServer(p) ==
    /\ pc[p] = "server"
    /\ \/ port = None /\ port' = p /\ Hold(p, "mgr") /\ Goto(p, "run") /\ Say(p)
       \/ BindFails(p)
    /\ UNCHANGED <<fixed, handlers, parent, shutdown, seen, ioerr, file>>

(* Step 13: server_run returns once g_shutdown_requested is set.           *)
LeaveLoop(p) ==
    /\ pc[p] = "run" /\ shutdown[p]
    /\ CleanUp(p, AfterRun) /\ Say(p)
    /\ UNCHANGED <<fixed, held, handlers, parent, shutdown, seen, ioerr, file, port>>

(* The next cleanup statement; "farewell" is main()'s last message.        *)
CleanupStep(p) ==
    LET step == Head(todo[p])
    IN  /\ pc[p] = "cleanup" /\ todo[p] # <<>>
        /\ todo' = [todo EXCEPT ![p] = Tail(@)]
        /\ held' = [held EXCEPT ![p] =
                      @ \ {IF step = "server" THEN "mgr" ELSE step}]
        /\ port' = IF step = "server" THEN None ELSE port
        /\ file' = IF step = "pidfile" /\ daemonize[p] THEN NoFile ELSE file
        /\ IF step = "farewell" THEN Say(p)
           ELSE /\ sinks' = IF step = "logger" THEN [sinks EXCEPT ![p] = {}] ELSE sinks
                /\ UNCHANGED <<console, unheard>>
        /\ UNCHANGED <<fixed, pc, handlers, parent, shutdown, seen, ioerr>>

Exit(p) ==
    /\ pc[p] = "cleanup" /\ todo[p] = <<>>
    /\ Goto(p, "exited")
    /\ UNCHANGED <<fixed, held, handlers, parent, shutdown, seen, ioerr, log, file, port>>

(***************************************************************************)
(* Environment                                                             *)
(***************************************************************************)

(* The process ends without cleanup; the kernel reclaims all but the file. *)
Dies(p) ==
    /\ pc' = [pc EXCEPT ![p] = "crashed"]
    /\ todo' = [todo EXCEPT ![p] = <<>>]
    /\ held' = [held EXCEPT ![p] = {}]
    /\ port' = IF port = p THEN None ELSE port
    /\ UNCHANGED <<fixed, handlers, parent, shutdown, seen, ioerr, log, file>>

Crash(p) == Alive(p) /\ Dies(p)

(* SIGTERM or SIGINT, to the process that goes on.                         *)
Signal(p) ==
    /\ Alive(p) /\ ~shutdown[p]
    /\ IF handlers[p]
       THEN /\ shutdown' = [shutdown EXCEPT ![p] = TRUE]
            /\ UNCHANGED <<fixed, pc, todo, held, handlers, parent, seen, ioerr, log, file,
                           port>>
       ELSE Dies(p)

(* The processes p forked from reach their _exit().                        *)
ParentExits(p) ==
    /\ parent[p] = "leaving" /\ parent' = [parent EXCEPT ![p] = "none"]
    /\ UNCHANGED <<fixed, pc, todo, held, handlers, shutdown, seen, ioerr, log, file, port>>

(* A signal to one of them first: its handler sets a flag of its own, that *)
(* nobody will read.                                                       *)
StraySignal(p) ==
    /\ parent[p] = "leaving" /\ parent' = [parent EXCEPT ![p] = "signalled"]
    /\ UNCHANGED <<fixed, pc, todo, held, handlers, shutdown, seen, ioerr, log, file, port>>

Terminated == (\A p \in Inst : pc[p] \in Dead) /\ UNCHANGED vars

Step(p) ==
    \/ InitLogger(p) \/ InstallSignals(p) \/ LoadModel(p) \/ Daemonize(p)
    \/ NewSession(p) \/ ForkAgain(p) \/ Redirect(p) \/ EnableSyslog(p)
    \/ CreatePidfile(p) \/ CannotCreate(p) \/ ReadOldPid(p) \/ CheckOldPid(p)
    \/ UnlinkStale(p) \/ RecreatePidfile(p) \/ WritePid(p) \/ InitWorker(p)
    \/ InitServer(p) \/ LeaveLoop(p) \/ CleanupStep(p) \/ Exit(p)

Next ==
    \/ \E p \in Inst : Configure(p) \/ Step(p) \/ Crash(p) \/ Signal(p)
    \/ \E p \in Inst : ParentExits(p) \/ StraySignal(p)
    \/ Terminated

Spec == Init /\ [][Next]_vars

(* A process that was started keeps running.                               *)
FairSpec == Spec /\ \A p \in Inst : WF_vars(Step(p))

-----------------------------------------------------------------------------
(* Properties                                                              *)

Resources == {"logger", "engine", "worker", "mgr"}

(* The fields keep their types, and only a live process holds the port.    *)
TypeOK ==
    /\ overlap \in BOOLEAN /\ daemonize \in [Inst -> BOOLEAN]
    /\ pc \in [Inst -> Dead \union
         {"off", "logger", "signals", "model", "daemonize", "setsid", "refork",
          "redirect", "syslog", "create", "readold", "check", "unlink",
          "recreate", "write", "worker", "server", "run", "cleanup"}]
    /\ todo \in [Inst -> Seq({"server", "cancel", "worker", "engine",
                              "pidfile", "farewell", "logger"})]
    /\ held \in [Inst -> SUBSET Resources]
    /\ handlers \in [Inst -> BOOLEAN] /\ shutdown \in [Inst -> BOOLEAN]
    /\ parent \in [Inst -> {"none", "leaving", "signalled"}]
    /\ seen \in [Inst -> Inst \union {None}] /\ ioerr \in [Inst -> BOOLEAN]
    /\ sinks \in [Inst -> SUBSET {"stderr", "syslog"}] /\ console \subseteq Inst
    /\ unheard \subseteq Inst
    /\ file \in [owner : Inst \union {None}, pid : Inst \union {None}]
    /\ port \in {p \in Inst : Alive(p)} \union {None}

(* Every return of main() has destroyed what startup had initialised, but  *)
(* for the mg_mgr of a failed server_init (main.c:173, server.c:703).  On  *)
(* the way the worker thread never runs without the engine it infers with, *)
(* nor anything without the logger it logs to (main.c:195-208).            *)
CleanupSound ==
    \A p \in Inst :
       /\ pc[p] = "exited" => held[p] \subseteq {"mgr"}
       /\ "worker" \in held[p] => "engine" \in held[p]
       /\ held[p] \subseteq {"mgr"} \/ "logger" \in held[p]

(* An instance that exited, with success or not, has left no PID file of   *)
(* its own behind, whatever the other instances did (main.c:156,177,202).  *)
NoFileLeftBehind ==
    \A p \in Inst : pc[p] = "exited" => file.owner # p

(* When instances are run one after the other, a daemon that serves is the *)
(* one the PID file names, even if the previous one crashed between two    *)
(* steps of writing it (daemon.c:92-111).                                  *)
FileNamesServer ==
    ~overlap => \A p \in Inst :
       pc[p] = "run" /\ daemonize[p] /\ ~ioerr[p]
          => file = [owner |-> p, pid |-> p]

(* Nothing main() reports is lost: no message, of a refused PID file or a  *)
(* failed bind above all, is written only to a stderr that daemon_         *)
(* daemonize has redirected or to a logger that is gone (main.c:146).      *)
ReportsHeard == unheard = {}

(* A signal ends an instance, however far its startup was (server.c:723),  *)
(* and also if it came before a fork, whose child has the flag.  The only  *)
(* exception is a daemon whose every signal reached a process that had     *)
(* forked and was about to _exit (daemon.c:44-64): those are lost.         *)
SignalEnds ==
    \A p \in Inst :
       shutdown[p] \/ parent[p] = "signalled" ~>
          \/ pc[p] \in Dead
          \/ parent[p] = "signalled" /\ ~shutdown[p]

(* ARCHITECTURE.md:586 "Stale PID files are validated (checks if old PID   *)
(* is still running) before overwriting"; daemon.c:103 "Process is still   *)
(* running -- refuse to take over": the PID file of a running instance is  *)
(* removed by no other instance.                                           *)
LiveFileKept ==
    [][\A p \in Inst :
          file = [owner |-> p, pid |-> p] /\ Alive(p) /\ file' # file
             => todo'[p] # todo[p]]_vars
=============================================================================
