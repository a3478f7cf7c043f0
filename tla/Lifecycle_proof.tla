-------------------------- MODULE Lifecycle_proof --------------------------
(***************************************************************************)
(* Theorems about Lifecycle for any number of instances, started one after *)
(* the other or at the same time, crashing anywhere.                       *)
(***************************************************************************)
EXTENDS Lifecycle, SequenceTheorems, TLAPS

(* What is held when the cleanup steps t are left: h, the mg_mgr of a      *)
(* failed server_init apart.                                               *)
Stage(t, h) ==
    LET left == h \ {"mgr"}
    IN  \/ t = <<>> /\ left = {}
        \/ t = <<"logger">> /\ left = {"logger"}
        \/ t = <<"farewell", "logger">> /\ left = {"logger"}
        \/ t = <<"pidfile", "logger">> /\ left = {"logger"}
        \/ t = <<"pidfile", "farewell", "logger">> /\ left = {"logger"}
        \/ t = AfterModel /\ left = {"engine", "logger"}
        \/ t = AfterWorker /\ left = {"engine", "logger"}
        \/ t = <<"engine", "pidfile", "farewell", "logger">> /\ left = {"engine", "logger"}
        \/ t = AfterServer /\ left = {"worker", "engine", "logger"}
        \/ t = <<"worker", "engine", "pidfile", "farewell", "logger">>
             /\ left = {"worker", "engine", "logger"}
        \/ t = <<"cancel", "worker", "engine", "pidfile", "farewell", "logger">>
             /\ left = {"worker", "engine", "logger"}
        \/ t = AfterRun /\ left = {"worker", "engine", "logger"}

(* The PID file is still to be removed.                                    *)
PidPending(t) ==
    t \in {<<"pidfile", "logger">>, <<"pidfile", "farewell", "logger">>,
           AfterWorker, <<"engine", "pidfile", "farewell", "logger">>,
           AfterServer, <<"worker", "engine", "pidfile", "farewell", "logger">>,
           <<"cancel", "worker", "engine", "pidfile", "farewell", "logger">>, AfterRun}

Pidfile == {"create", "readold", "check", "unlink", "recreate", "write"}

(* What startup has initialised at each place of main().                   *)
HeldAt(p) ==
    /\ pc[p] \in {"off", "logger"} => held[p] = {}
    /\ pc[p] \in {"signals", "model"} => held[p] = {"logger"}
    /\ pc[p] \in {"daemonize", "setsid", "refork", "redirect", "syslog", "worker"} \union Pidfile
          => held[p] = {"engine", "logger"}
    /\ pc[p] = "server" => held[p] = {"worker", "engine", "logger"}
    /\ pc[p] = "run" => held[p] = {"mgr", "worker", "engine", "logger"}
    /\ pc[p] = "cleanup" => Stage(todo[p], held[p])
    /\ pc[p] = "exited" => held[p] \subseteq {"mgr"}
    /\ pc[p] = "crashed" => held[p] = {}

(* Who is bound to the address has still to run the server's cleanup.      *)
PortAt(p) ==
    port = p => pc[p] = "run" \/ (pc[p] = "cleanup" /\ todo[p] = AfterRun)

(* Only a daemon writes a PID file, and one that did not crash has still   *)
(* to remove the one it owns.                                              *)
FileAt(p) ==
    /\ pc[p] \in {"setsid", "refork", "redirect", "syslog"} \union Pidfile => daemonize[p]
    /\ file.owner = p =>
         /\ daemonize[p]
         /\ \/ pc[p] \in {"write", "worker", "server", "run", "crashed"}
            \/ pc[p] = "cleanup" /\ PidPending(todo[p])

(* Some sink of the logger is read wherever main() logs.                   *)
HeardAt(p) ==
    /\ pc[p] \in {"off", "logger"} => p \in console
    /\ pc[p] \in {"signals", "model", "daemonize", "setsid", "refork", "redirect"} =>
         p \in console /\ "stderr" \in sinks[p]
    /\ pc[p] \in {"worker", "server", "run"} \union Pidfile => Heard(p)
    /\ pc[p] = "cleanup" /\ todo[p] # <<>> => Heard(p)

(* At most one instance is alive.                                          *)
Single == \A p, q \in Inst : Alive(p) /\ Alive(q) => p = q

(* The PID file while the only instance alive writes it.                   *)
AloneAt(p) ==
    /\ pc[p] = "readold" => Exists
    /\ pc[p] = "check" => seen[p] # p
    /\ pc[p] = "recreate" => ~Exists
    /\ pc[p] = "write" => file.owner = p
    /\ pc[p] \in {"worker", "server", "run"} /\ daemonize[p] /\ ~ioerr[p]
         => file = [owner |-> p, pid |-> p]

(* A file's content is its creator's PID.                                  *)
FileContent == file.pid \in {None, file.owner}

(* Who is about to write its PID has not written it yet.                   *)
Unwritten == \A p \in Inst : pc[p] = "write" /\ file.owner = p => file.pid = None

(* The PID file of a running daemon changes only when that daemon removes  *)
(* it at its end, or else, while two instances overlap, when the other one *)
(* unlinks the path: as stale, after a failed write or at its own end      *)
(* (daemon.c:108, 119, 130).                                               *)
FileKept ==
    \A p \in Inst :
       file = [owner |-> p, pid |-> p] /\ Alive(p) /\ file' # file =>
         \/ todo'[p] # todo[p]
         \/ overlap /\ \E q \in Inst \ {p} : UnlinkStale(q) \/ WritePid(q) \/ CleanupStep(q)

(* How many steps are left when main() is at l with n cleanup steps.       *)
Left(l, n) ==
    CASE l = "off"       -> 26
      [] l = "logger"    -> 25
      [] l = "signals"   -> 24
      [] l = "model"     -> 23
      [] l = "daemonize" -> 22
      [] l = "setsid"    -> 21
      [] l = "refork"    -> 20
      [] l = "redirect"  -> 19
      [] l = "syslog"    -> 18
      [] l = "create"    -> 17
      [] l = "readold"   -> 16
      [] l = "check"     -> 15
      [] l = "unlink"    -> 14
      [] l = "recreate"  -> 13
      [] l = "write"     -> 12
      [] l = "worker"    -> 11
      [] l = "server"    -> 10
      [] l = "run"       -> 9
      [] l = "cleanup"   -> 1 + n
      [] l \in Dead      -> 0

StepsLeft(p) == Left(pc[p], Len(todo[p]))

(* Each step of an instance brings it nearer to its end, and no step of    *)
(* another one, no crash and no signal puts that off.                      *)
Onward ==
    \A p \in Inst : /\ Step(p) => StepsLeft(p)' < StepsLeft(p)
                    /\ StepsLeft(p)' <= StepsLeft(p)

IInv ==
    /\ TypeOK /\ FileContent /\ unheard = {}
    /\ \A p \in Inst : HeldAt(p) /\ PortAt(p)
    /\ \A p \in Inst : FileAt(p)
    /\ \A p \in Inst : HeardAt(p)
    /\ ~overlap => Single /\ \A p \in Inst : AloneAt(p)

-----------------------------------------------------------------------------
(* The type invariant in parts                                             *)

Steps == {"server", "cancel", "worker", "engine", "pidfile", "farewell", "logger"}

Places == Dead \union
         {"off", "logger", "signals", "model", "daemonize", "setsid", "refork",
          "redirect", "syslog", "create", "readold", "check", "unlink",
          "recreate", "write", "worker", "server", "run", "cleanup"}

FixedOK == overlap \in BOOLEAN /\ daemonize \in [Inst -> BOOLEAN]

PcOK == pc \in [Inst -> Places]

TodoOK == todo \in [Inst -> Seq(Steps)]

HeldOK == held \in [Inst -> SUBSET Resources]

FlagsOK ==
    /\ handlers \in [Inst -> BOOLEAN] /\ shutdown \in [Inst -> BOOLEAN]
    /\ parent \in [Inst -> {"none", "leaving", "signalled"}]
    /\ seen \in [Inst -> Inst \union {None}] /\ ioerr \in [Inst -> BOOLEAN]

LogOK == sinks \in [Inst -> SUBSET {"stderr", "syslog"}] /\ console \subseteq Inst

FileOK == file \in [owner : Inst \union {None}, pid : Inst \union {None}]

PortOK == port \in Inst \union {None}

(* Only a live process is bound: a consequence of PortAt.                  *)
LEMMA TypeParts ==
  ASSUME unheard = {}, \A p \in Inst : PortAt(p)
  PROVE  TypeOK <=> /\ FixedOK /\ PcOK /\ TodoOK /\ HeldOK /\ FlagsOK /\ LogOK /\ FileOK /\ PortOK
  BY DEF TypeOK, FixedOK, PcOK, TodoOK, HeldOK, FlagsOK, LogOK, FileOK, PortOK, PortAt,
         Alive, Dead, Places, Steps

(* The type invariant of the next state, by parts, when nothing was said   *)
(* unheard.                                                                *)
LEMMA TypePartsNext ==
  ASSUME unheard' = {}, \A p \in Inst : PortAt(p)'
  PROVE  TypeOK' <=> /\ FixedOK' /\ PcOK' /\ TodoOK' /\ HeldOK'
                     /\ FlagsOK' /\ LogOK' /\ FileOK' /\ PortOK'
  BY DEF TypeOK, FixedOK, PcOK, TodoOK, HeldOK, FlagsOK, LogOK, FileOK, PortOK, PortAt,
         Alive, Dead, Places, Steps

(* One cleanup step of main().                                             *)
LEMMA Consume ==
  ASSUME NEW t, NEW h, Stage(t, h), t # <<>>
  PROVE  /\ Stage(Tail(t), h \ {IF Head(t) = "server" THEN "mgr" ELSE Head(t)})
         /\ Head(t) = "logger" <=> Tail(t) = <<>>
         /\ t = AfterRun => Head(t) = "server"
         /\ PidPending(t) => Head(t) = "pidfile" \/ PidPending(Tail(t))
         /\ Tail(t) \in Seq(Steps)
         /\ Head(t) \in {"pidfile", "cancel", "farewell", "server", "logger", "engine", "worker"}
  <1> USE DEF AfterModel, AfterWorker, AfterServer, AfterRun, Steps
  <1>1. CASE t = <<"logger">>
    BY <1>1 DEF Stage, PidPending
  <1>2. CASE t = <<"farewell", "logger">>
    BY <1>2 DEF Stage, PidPending
  <1>3. CASE t = <<"pidfile", "logger">>
    BY <1>3 DEF Stage, PidPending
  <1>4. CASE t = <<"pidfile", "farewell", "logger">>
    BY <1>4 DEF Stage, PidPending
  <1>5. CASE t = AfterModel
    BY <1>5 DEF Stage, PidPending
  <1>6. CASE t = AfterWorker
    BY <1>6 DEF Stage, PidPending
  <1>7. CASE t = <<"engine", "pidfile", "farewell", "logger">>
    BY <1>7 DEF Stage, PidPending
  <1>8. CASE t = AfterServer
    BY <1>8 DEF Stage, PidPending
  <1>9. CASE t = <<"worker", "engine", "pidfile", "farewell", "logger">>
    BY <1>9 DEF Stage, PidPending
  <1>10. CASE t = <<"cancel", "worker", "engine", "pidfile", "farewell", "logger">>
    BY <1>10 DEF Stage, PidPending
  <1>11. CASE t = AfterRun
    BY <1>11 DEF Stage, PidPending
  <1>12. QED
    BY <1>1, <1>2, <1>3, <1>4, <1>5, <1>6, <1>7, <1>8, <1>9, <1>10, <1>11 DEF Stage

(* A signal to an instance that has installed its handlers.                *)
Handled(p) ==
    /\ Alive(p) /\ shutdown' = [shutdown EXCEPT ![p] = TRUE]
    /\ UNCHANGED <<fixed, pc, todo, held, handlers, parent, seen, ioerr, log, file, port>>

(* A step of the processes an instance forked from.                        *)
Ancestor(p) == ParentExits(p) \/ StraySignal(p)

(* The cleanup lists of main() are lists of its steps.                     *)
LEMMA Lists ==
  /\ {<<"logger">>, AfterModel, AfterWorker, AfterServer, AfterRun} \subseteq Seq(Steps)
  /\ <<>> # AfterRun /\ ~PidPending(<<>>)
  BY DEF Steps, AfterModel, AfterWorker, AfterServer, AfterRun, PidPending

(* The invariant holds before any instance starts.                         *)
LEMMA InitIInv == Init => IInv
  <1> SUFFICES ASSUME Init PROVE IInv
    OBVIOUS
  <1>1. None \notin Inst
    BY NoneAssumption
  <1>2. unheard = {} /\ \A p \in Inst : PortAt(p)
    BY <1>1 DEF Init, PortAt
  <1>3. TypeOK
    <2>1. FixedOK /\ PcOK /\ HeldOK /\ FlagsOK /\ LogOK /\ PortOK
      BY DEF Init, FixedOK, PcOK, Places, HeldOK, FlagsOK, LogOK, PortOK
    <2>2. TodoOK
      BY DEF Init, TodoOK
    <2>3. FileOK
      BY DEF Init, FileOK, NoFile
    <2>4. QED
      BY <1>2, <2>1, <2>2, <2>3, TypeParts
  <1>4. \A p \in Inst : pc[p] = "off" /\ held[p] = {} /\ p \in console /\ file.owner # p
    BY <1>1 DEF Init, NoFile
  <1>5. FileContent
    BY DEF Init, NoFile, FileContent
  <1>6. \A p \in Inst : HeldAt(p) /\ FileAt(p) /\ HeardAt(p) /\ AloneAt(p)
    BY <1>4 DEF HeldAt, FileAt, HeardAt, AloneAt, Pidfile
  <1>7. Single
    BY <1>4 DEF Single, Alive
  <1>8. QED
    BY <1>2, <1>3, <1>5, <1>6, <1>7 DEF IInv

(* A step of p leaves every other instance where it was: its console and   *)
(* its sinks too.                                                          *)
Frame(p) ==
    \A q \in Inst \ {p} :
       /\ pc'[q] = pc[q] /\ todo'[q] = todo[q] /\ held'[q] = held[q] /\ sinks'[q] = sinks[q]
       /\ seen'[q] = seen[q] /\ ioerr'[q] = ioerr[q] /\ daemonize'[q] = daemonize[q]
       /\ q \in console => q \in console'

(* What one process does to the port and the file leaves the other         *)
(* instances' part of the invariant alone.                                 *)
LEMMA Others ==
  ASSUME IInv, NEW p \in Inst, Frame(p), NEW q \in Inst \ {p},
         port' \in {port, p, None}, file'.owner \in {file.owner, p, None}
  PROVE  HeldAt(q)' /\ PortAt(q)' /\ FileAt(q)' /\ HeardAt(q)'
  <1>1. None \notin Inst
    BY NoneAssumption
  <1>2. HeldAt(q) /\ PortAt(q) /\ FileAt(q) /\ HeardAt(q)
    BY DEF IInv
  <1>3. HeldAt(q)'
    BY <1>2 DEF Frame, HeldAt
  <1>4. PortAt(q)'
    BY <1>1, <1>2 DEF Frame, PortAt
  <1>5. FileAt(q)'
    BY <1>1, <1>2 DEF Frame, FileAt
  <1>6. HeardAt(q)'
    BY <1>2 DEF Frame, HeardAt, Heard
  <1>7. QED
    BY <1>3, <1>4, <1>5, <1>6

(* Nor does it disturb the part that only holds without overlap, if no     *)
(* other instance is alive.                                                *)
LEMMA OthersAlone ==
  ASSUME IInv, NEW p \in Inst, Frame(p), \A q \in Inst \ {p} : ~Alive(q), AloneAt(p)'
  PROVE  Single' /\ \A q \in Inst : AloneAt(q)'
  <1>1. \A q \in Inst \ {p} : ~Alive(q)'
    BY DEF Frame, Alive
  <1>2. Single'
    BY <1>1 DEF Single
  <1>3. ASSUME NEW q \in Inst \ {p} PROVE AloneAt(q)'
    BY <1>1 DEF AloneAt, Alive, Dead
  <1>4. QED
    BY <1>2, <1>3

(* Every step of a process preserves the invariant.                        *)
LEMMA StepIInv ==
  ASSUME IInv, NEW p \in Inst,
         Configure(p) \/ Step(p) \/ (Alive(p) /\ Dies(p)) \/ Handled(p)
  PROVE  IInv'
  <1>n. None \notin Inst
    BY NoneAssumption
  <1>0. /\ unheard = {} /\ FileContent /\ HeldAt(p) /\ PortAt(p) /\ FileAt(p) /\ HeardAt(p)
        /\ \A q \in Inst : PortAt(q)
        /\ ~overlap => Single /\ AloneAt(p)
    BY DEF IInv
  <1>t. FixedOK /\ PcOK /\ TodoOK /\ HeldOK /\ FlagsOK /\ LogOK /\ FileOK /\ PortOK
    BY <1>0, TypeParts DEF IInv
  <1>a. ASSUME FixedOK', PcOK', TodoOK', HeldOK', FlagsOK', LogOK', FileOK', PortOK',
               FileContent', unheard' = {}, Frame(p), overlap' = overlap,
               port' \in {port, p, None}, file'.owner \in {file.owner, p, None},
               HeldAt(p)', PortAt(p)', FileAt(p)', HeardAt(p)',
               ~overlap => (\A q \in Inst \ {p} : ~Alive(q)) /\ AloneAt(p)'
        PROVE  IInv'
    <2>1. \A q \in Inst : HeldAt(q)' /\ PortAt(q)' /\ FileAt(q)' /\ HeardAt(q)'
      BY <1>a, Others
    <2>2. TypeOK'
      BY <1>a, <2>1, TypePartsNext
    <2>3. ~overlap => Single' /\ \A q \in Inst : AloneAt(q)'
      BY <1>a, OthersAlone
    <2>4. QED
      BY <1>a, <2>1, <2>2, <2>3 DEF IInv
  <1>s. ~overlap /\ Alive(p) => \A q \in Inst \ {p} : ~Alive(q)
    BY <1>0 DEF Single
  <1> USE DEF fixed, log
  <1>1. CASE Configure(p)
    <2>1. FixedOK' /\ PcOK' /\ overlap' = overlap
      BY <1>t, <1>1 DEF Configure, Goto, FixedOK, PcOK, Places, Dead
    <2>2. TodoOK'
      BY <1>t, <1>1 DEF Configure, Goto, TodoOK, Steps, AfterModel, AfterWorker, AfterServer,
         AfterRun
    <2>3. HeldOK' /\ LogOK'
      BY <1>t, <1>1 DEF Configure, Goto, HeldOK, LogOK, Resources
    <2>4. FlagsOK'
      BY <1>t, <1>1 DEF Configure, Goto, FlagsOK, FileOK
    <2>5. FileOK' /\ PortOK'
      BY <1>t, <1>1 DEF Configure, Goto, FileOK, PortOK, NoFile
    <2>6. FileContent'
      BY <1>0, <1>t, <1>1 DEF Configure, Goto, FileContent, FileOK, NoFile
    <2>7. unheard' = {}
      BY <1>0, <1>1 DEF Configure, Goto, HeardAt, Pidfile
    <2>8. Frame(p)
      BY <1>t, <1>1 DEF Configure, Goto, Frame, FixedOK, PcOK, TodoOK, HeldOK, FlagsOK, LogOK
    <2>9. port' \in {port, p, None} /\ file'.owner \in {file.owner, p, None}
      BY <1>t, <1>1 DEF Configure, Goto, FileOK, NoFile
    <2>10. HeldAt(p)'
      BY <1>0, <1>t, <1>1 DEF Configure, Goto, HeldAt, Stage, PcOK, TodoOK, HeldOK, Pidfile,
         Dead, AfterModel, AfterWorker, AfterServer, AfterRun
    <2>11. PortAt(p)'
      BY <1>0, <1>n, <1>t, <1>1 DEF Configure, Goto, PortAt, PcOK, TodoOK
    <2>12. FileAt(p)'
      BY <1>0, <1>n, <1>t, <1>1 DEF Configure, Goto, FileAt, PidPending, PcOK, TodoOK, FileOK,
         NoFile, Pidfile
    <2>13. HeardAt(p)'
      BY <1>0, <1>t, <1>1 DEF Configure, Goto, HeardAt, Heard, PcOK, TodoOK, LogOK, Pidfile
    <2>14. ~overlap => (\A q \in Inst \ {p} : ~Alive(q)) /\ AloneAt(p)'
      BY <1>0, <1>n, <1>s, <1>t, <1>1 DEF Configure, Goto, AloneAt, Alive, Dead, PcOK, FlagsOK,
         FileOK, FileContent, NoFile, Exists
    <2>15. QED
      BY <1>a, <2>1, <2>2, <2>3, <2>4, <2>5, <2>6, <2>7, <2>8, <2>9, <2>10, <2>11, <2>12, <2>13,
         <2>14
  <1>2. CASE InitLogger(p)
    <2>1. FixedOK' /\ PcOK' /\ overlap' = overlap
      BY <1>t, <1>2 DEF InitLogger, Goto, Hold, FixedOK, PcOK, Places, Dead
    <2>2. TodoOK'
      BY <1>t, <1>2 DEF InitLogger, Goto, Hold, TodoOK, Steps, AfterModel, AfterWorker,
         AfterServer, AfterRun
    <2>3. HeldOK' /\ LogOK'
      BY <1>t, <1>2 DEF InitLogger, Goto, Hold, HeldOK, LogOK, Resources
    <2>4. FlagsOK'
      BY <1>t, <1>2 DEF InitLogger, Goto, Hold, FlagsOK, FileOK
    <2>5. FileOK' /\ PortOK'
      BY <1>t, <1>2 DEF InitLogger, Goto, Hold, FileOK, PortOK, NoFile
    <2>6. FileContent'
      BY <1>0, <1>t, <1>2 DEF InitLogger, Goto, Hold, FileContent, FileOK, NoFile
    <2>7. unheard' = {}
      BY <1>0, <1>2 DEF InitLogger, Goto, Hold, HeardAt, Pidfile
    <2>8. Frame(p)
      BY <1>t, <1>2 DEF InitLogger, Goto, Hold, Frame, FixedOK, PcOK, TodoOK, HeldOK, FlagsOK, LogOK
    <2>9. port' \in {port, p, None} /\ file'.owner \in {file.owner, p, None}
      BY <1>t, <1>2 DEF InitLogger, Goto, Hold, FileOK, NoFile
    <2>10. HeldAt(p)'
      BY <1>0, <1>t, <1>2 DEF InitLogger, Goto, Hold, HeldAt, Stage, PcOK, TodoOK, HeldOK,
         Pidfile, Dead, AfterModel, AfterWorker, AfterServer, AfterRun
    <2>11. PortAt(p)'
      BY <1>0, <1>n, <1>t, <1>2 DEF InitLogger, Goto, Hold, PortAt, PcOK, TodoOK
    <2>12. FileAt(p)'
      BY <1>0, <1>n, <1>t, <1>2 DEF InitLogger, Goto, Hold, FileAt, PidPending, PcOK, TodoOK,
         FileOK, NoFile, Pidfile
    <2>13. HeardAt(p)'
      BY <1>0, <1>t, <1>2 DEF InitLogger, Goto, Hold, HeardAt, Heard, PcOK, TodoOK, LogOK, Pidfile
    <2>14. ~overlap => (\A q \in Inst \ {p} : ~Alive(q)) /\ AloneAt(p)'
      BY <1>0, <1>n, <1>s, <1>t, <1>2 DEF InitLogger, Goto, Hold, AloneAt, Alive, Dead, PcOK,
         FlagsOK, FileOK, FileContent, NoFile, Exists
    <2>15. QED
      BY <1>a, <2>1, <2>2, <2>3, <2>4, <2>5, <2>6, <2>7, <2>8, <2>9, <2>10, <2>11, <2>12, <2>13,
         <2>14
  <1>3. CASE InstallSignals(p)
    <2>1. FixedOK' /\ PcOK' /\ overlap' = overlap
      BY <1>t, <1>3 DEF InstallSignals, Goto, FixedOK, PcOK, Places, Dead
    <2>2. TodoOK'
      BY <1>t, <1>3 DEF InstallSignals, Goto, TodoOK, Steps, AfterModel, AfterWorker,
         AfterServer, AfterRun
    <2>3. HeldOK' /\ LogOK'
      BY <1>t, <1>3 DEF InstallSignals, Goto, HeldOK, LogOK, Resources
    <2>4. FlagsOK'
      BY <1>t, <1>3 DEF InstallSignals, Goto, FlagsOK, FileOK
    <2>5. FileOK' /\ PortOK'
      BY <1>t, <1>3 DEF InstallSignals, Goto, FileOK, PortOK, NoFile
    <2>6. FileContent'
      BY <1>0, <1>t, <1>3 DEF InstallSignals, Goto, FileContent, FileOK, NoFile
    <2>7. unheard' = {}
      BY <1>0, <1>3 DEF InstallSignals, Goto, HeardAt, Pidfile
    <2>8. Frame(p)
      BY <1>t, <1>3 DEF InstallSignals, Goto, Frame, FixedOK, PcOK, TodoOK, HeldOK, FlagsOK, LogOK
    <2>9. port' \in {port, p, None} /\ file'.owner \in {file.owner, p, None}
      BY <1>t, <1>3 DEF InstallSignals, Goto, FileOK, NoFile
    <2>10. HeldAt(p)'
      BY <1>0, <1>t, <1>3 DEF InstallSignals, Goto, HeldAt, Stage, PcOK, TodoOK, HeldOK, Pidfile,
         Dead, AfterModel, AfterWorker, AfterServer, AfterRun
    <2>11. PortAt(p)'
      BY <1>0, <1>n, <1>t, <1>3 DEF InstallSignals, Goto, PortAt, PcOK, TodoOK
    <2>12. FileAt(p)'
      BY <1>0, <1>n, <1>t, <1>3 DEF InstallSignals, Goto, FileAt, PidPending, PcOK, TodoOK,
         FileOK, NoFile, Pidfile
    <2>13. HeardAt(p)'
      BY <1>0, <1>t, <1>3 DEF InstallSignals, Goto, HeardAt, Heard, PcOK, TodoOK, LogOK, Pidfile
    <2>14. ~overlap => (\A q \in Inst \ {p} : ~Alive(q)) /\ AloneAt(p)'
      BY <1>0, <1>n, <1>s, <1>t, <1>3 DEF InstallSignals, Goto, AloneAt, Alive, Dead, PcOK,
         FlagsOK, FileOK, FileContent, NoFile, Exists
    <2>15. QED
      BY <1>a, <2>1, <2>2, <2>3, <2>4, <2>5, <2>6, <2>7, <2>8, <2>9, <2>10, <2>11, <2>12, <2>13,
         <2>14
  <1>4. CASE LoadModel(p)
    <2>1. FixedOK' /\ PcOK' /\ overlap' = overlap
      BY <1>t, <1>4 DEF LoadModel, Goto, Hold, CleanUp, Say, FixedOK, PcOK, Places, Dead
    <2>2. TodoOK'
      BY <1>t, <1>4, Lists DEF LoadModel, Goto, CleanUp, TodoOK
    <2>3. HeldOK' /\ LogOK'
      BY <1>t, <1>4 DEF LoadModel, Goto, Hold, CleanUp, Say, HeldOK, LogOK, Resources
    <2>4. FlagsOK'
      BY <1>t, <1>4 DEF LoadModel, Goto, Hold, CleanUp, Say, FlagsOK, FileOK
    <2>5. FileOK' /\ PortOK'
      BY <1>t, <1>4 DEF LoadModel, Goto, Hold, CleanUp, Say, FileOK, PortOK, NoFile
    <2>6. FileContent'
      BY <1>0, <1>t, <1>4 DEF LoadModel, Goto, Hold, CleanUp, Say, FileContent, FileOK, NoFile
    <2>7. unheard' = {}
      BY <1>0, <1>4 DEF LoadModel, Goto, CleanUp, Say, HeardAt, Heard
    <2>8. Frame(p)
      BY <1>t, <1>4 DEF LoadModel, Goto, Hold, CleanUp, Say, Frame, FixedOK, PcOK, TodoOK,
         HeldOK, FlagsOK, LogOK
    <2>9. port' \in {port, p, None} /\ file'.owner \in {file.owner, p, None}
      BY <1>t, <1>4 DEF LoadModel, Goto, Hold, CleanUp, Say, FileOK, NoFile
    <2>10. HeldAt(p)'
      BY <1>0, <1>t, <1>4 DEF LoadModel, Goto, Hold, CleanUp, Say, HeldAt, Stage, PcOK, TodoOK,
         HeldOK, Pidfile, Dead, AfterModel, AfterWorker, AfterServer, AfterRun
    <2>11. PortAt(p)'
      BY <1>0, <1>n, <1>t, <1>4 DEF LoadModel, Goto, Hold, CleanUp, Say, PortAt, PcOK, TodoOK
    <2>12. FileAt(p)'
      BY <1>0, <1>n, <1>t, <1>4 DEF LoadModel, Goto, Hold, CleanUp, Say, FileAt, PidPending,
         PcOK, TodoOK, FileOK, NoFile, Pidfile
    <2>13. HeardAt(p)'
      BY <1>0, <1>t, <1>4 DEF LoadModel, Goto, Hold, CleanUp, Say, HeardAt, Heard, PcOK, TodoOK,
         LogOK, Pidfile
    <2>14. ~overlap => (\A q \in Inst \ {p} : ~Alive(q)) /\ AloneAt(p)'
      BY <1>0, <1>n, <1>s, <1>t, <1>4 DEF LoadModel, Goto, Hold, CleanUp, Say, AloneAt, Alive,
         Dead, PcOK, FlagsOK, FileOK, FileContent, NoFile, Exists
    <2>15. QED
      BY <1>a, <2>1, <2>2, <2>3, <2>4, <2>5, <2>6, <2>7, <2>8, <2>9, <2>10, <2>11, <2>12, <2>13,
         <2>14
  <1>5. CASE Daemonize(p)
    <2>1. FixedOK' /\ PcOK' /\ overlap' = overlap
      BY <1>t, <1>5 DEF Daemonize, Fork, DaemonizeFails, Goto, CleanUp, Say, Quiet, FixedOK, PcOK,
         Places, Dead
    <2>2. TodoOK'
      BY <1>t, <1>5, Lists DEF Daemonize, Fork, DaemonizeFails, Goto, CleanUp, TodoOK
    <2>3. HeldOK' /\ LogOK'
      BY <1>t, <1>5 DEF Daemonize, Fork, DaemonizeFails, Goto, CleanUp, Say, Quiet, HeldOK, LogOK,
         Resources
    <2>4. FlagsOK'
      BY <1>t, <1>5 DEF Daemonize, Fork, DaemonizeFails, Goto, CleanUp, Say, Quiet, FlagsOK, FileOK
    <2>5. FileOK' /\ PortOK'
      BY <1>t, <1>5 DEF Daemonize, Fork, DaemonizeFails, Goto, CleanUp, Say, Quiet, FileOK, PortOK,
         NoFile
    <2>6. FileContent'
      BY <1>0, <1>t, <1>5 DEF Daemonize, Fork, DaemonizeFails, Goto, CleanUp, Say, Quiet,
         FileContent, FileOK, NoFile
    <2>7. unheard' = {}
      BY <1>0, <1>5 DEF Daemonize, Fork, DaemonizeFails, Goto, CleanUp, Say, Quiet, HeardAt, Heard
    <2>8. Frame(p)
      BY <1>t, <1>5 DEF Daemonize, Fork, DaemonizeFails, Goto, CleanUp, Say, Quiet, Frame, FixedOK,
         PcOK, TodoOK,
         HeldOK, FlagsOK, LogOK
    <2>9. port' \in {port, p, None} /\ file'.owner \in {file.owner, p, None}
      BY <1>t, <1>5 DEF Daemonize, Fork, DaemonizeFails, Goto, CleanUp, Say, Quiet, FileOK, NoFile
    <2>10. HeldAt(p)'
      BY <1>0, <1>t, <1>5 DEF Daemonize, Fork, DaemonizeFails, Goto, CleanUp, Say, Quiet, HeldAt,
         Stage, PcOK, TodoOK,
         HeldOK, Pidfile, Dead, AfterModel, AfterWorker, AfterServer, AfterRun
    <2>11. PortAt(p)'
      BY <1>0, <1>n, <1>t, <1>5 DEF Daemonize, Fork, DaemonizeFails, Goto, CleanUp, Say, Quiet,
         PortAt, PcOK, TodoOK
    <2>12. FileAt(p)'
      BY <1>0, <1>n, <1>t, <1>5 DEF Daemonize, Fork, DaemonizeFails, Goto, CleanUp, Say, Quiet,
         FileAt, PidPending,
         PcOK, TodoOK, FileOK, NoFile, Pidfile
    <2>13. HeardAt(p)'
      BY <1>0, <1>t, <1>5 DEF Daemonize, Fork, DaemonizeFails, Goto, CleanUp, Say, Quiet, HeardAt,
         Heard, PcOK, TodoOK,
         LogOK, Pidfile
    <2>14. ~overlap => (\A q \in Inst \ {p} : ~Alive(q)) /\ AloneAt(p)'
      BY <1>0, <1>n, <1>s, <1>t, <1>5 DEF Daemonize, Fork, DaemonizeFails, Goto, CleanUp, Say,
         Quiet, AloneAt, Alive,
         Dead, PcOK, FlagsOK, FileOK, FileContent, NoFile, Exists
    <2>15. QED
      BY <1>a, <2>1, <2>2, <2>3, <2>4, <2>5, <2>6, <2>7, <2>8, <2>9, <2>10, <2>11, <2>12, <2>13,
         <2>14
  <1>6. CASE EnableSyslog(p)
    <2>1. FixedOK' /\ PcOK' /\ overlap' = overlap
      BY <1>t, <1>6 DEF EnableSyslog, Goto, FixedOK, PcOK, Places, Dead
    <2>2. TodoOK'
      BY <1>t, <1>6 DEF EnableSyslog, Goto, TodoOK, Steps, AfterModel, AfterWorker, AfterServer,
         AfterRun
    <2>3. HeldOK' /\ LogOK'
      BY <1>t, <1>6 DEF EnableSyslog, Goto, HeldOK, LogOK, Resources
    <2>4. FlagsOK'
      BY <1>t, <1>6 DEF EnableSyslog, Goto, FlagsOK, FileOK
    <2>5. FileOK' /\ PortOK'
      BY <1>t, <1>6 DEF EnableSyslog, Goto, FileOK, PortOK, NoFile
    <2>6. FileContent'
      BY <1>0, <1>t, <1>6 DEF EnableSyslog, Goto, FileContent, FileOK, NoFile
    <2>7. unheard' = {}
      BY <1>0, <1>6 DEF EnableSyslog, Goto, HeardAt, Pidfile
    <2>8. Frame(p)
      BY <1>t, <1>6 DEF EnableSyslog, Goto, Frame, FixedOK, PcOK, TodoOK, HeldOK, FlagsOK, LogOK
    <2>9. port' \in {port, p, None} /\ file'.owner \in {file.owner, p, None}
      BY <1>t, <1>6 DEF EnableSyslog, Goto, FileOK, NoFile
    <2>10. HeldAt(p)'
      BY <1>0, <1>t, <1>6 DEF EnableSyslog, Goto, HeldAt, Stage, PcOK, TodoOK, HeldOK, Pidfile,
         Dead, AfterModel, AfterWorker, AfterServer, AfterRun
    <2>11. PortAt(p)'
      BY <1>0, <1>n, <1>t, <1>6 DEF EnableSyslog, Goto, PortAt, PcOK, TodoOK
    <2>12. FileAt(p)'
      BY <1>0, <1>n, <1>t, <1>6 DEF EnableSyslog, Goto, FileAt, PidPending, PcOK, TodoOK, FileOK,
         NoFile, Pidfile
    <2>13. HeardAt(p)'
      BY <1>0, <1>t, <1>6 DEF EnableSyslog, Goto, HeardAt, Heard, PcOK, TodoOK, LogOK, Pidfile
    <2>14. ~overlap => (\A q \in Inst \ {p} : ~Alive(q)) /\ AloneAt(p)'
      BY <1>0, <1>n, <1>s, <1>t, <1>6 DEF EnableSyslog, Goto, AloneAt, Alive, Dead, PcOK,
         FlagsOK, FileOK, FileContent, NoFile, Exists
    <2>15. QED
      BY <1>a, <2>1, <2>2, <2>3, <2>4, <2>5, <2>6, <2>7, <2>8, <2>9, <2>10, <2>11, <2>12, <2>13,
         <2>14
  <1>7. CASE CreatePidfile(p)
    <2>1. FixedOK' /\ PcOK' /\ overlap' = overlap
      BY <1>t, <1>7 DEF CreatePidfile, Goto, FixedOK, PcOK, Places, Dead
    <2>2. TodoOK'
      BY <1>t, <1>7 DEF CreatePidfile, Goto, TodoOK, Steps, AfterModel, AfterWorker, AfterServer,
         AfterRun
    <2>3. HeldOK' /\ LogOK'
      BY <1>t, <1>7 DEF CreatePidfile, Goto, HeldOK, LogOK, Resources
    <2>4. FlagsOK'
      BY <1>t, <1>7 DEF CreatePidfile, Goto, FlagsOK, FileOK
    <2>5. FileOK' /\ PortOK'
      BY <1>t, <1>7 DEF CreatePidfile, Goto, FileOK, PortOK, NoFile
    <2>6. FileContent'
      BY <1>0, <1>t, <1>7 DEF CreatePidfile, Goto, FileContent, FileOK, NoFile
    <2>7. unheard' = {}
      BY <1>0, <1>7 DEF CreatePidfile, Goto, HeardAt, Pidfile
    <2>8. Frame(p)
      BY <1>t, <1>7 DEF CreatePidfile, Goto, Frame, FixedOK, PcOK, TodoOK, HeldOK, FlagsOK, LogOK
    <2>9. port' \in {port, p, None} /\ file'.owner \in {file.owner, p, None}
      BY <1>t, <1>7 DEF CreatePidfile, Goto, FileOK, NoFile
    <2>10. HeldAt(p)'
      BY <1>0, <1>t, <1>7 DEF CreatePidfile, Goto, HeldAt, Stage, PcOK, TodoOK, HeldOK, Pidfile,
         Dead, AfterModel, AfterWorker, AfterServer, AfterRun
    <2>11. PortAt(p)'
      BY <1>0, <1>n, <1>t, <1>7 DEF CreatePidfile, Goto, PortAt, PcOK, TodoOK
    <2>12. FileAt(p)'
      BY <1>0, <1>n, <1>t, <1>7 DEF CreatePidfile, Goto, FileAt, PidPending, PcOK, TodoOK,
         FileOK, NoFile, Pidfile
    <2>13. HeardAt(p)'
      BY <1>0, <1>t, <1>7 DEF CreatePidfile, Goto, HeardAt, Heard, PcOK, TodoOK, LogOK, Pidfile
    <2>14. ~overlap => (\A q \in Inst \ {p} : ~Alive(q)) /\ AloneAt(p)'
      BY <1>0, <1>n, <1>s, <1>t, <1>7 DEF CreatePidfile, Goto, AloneAt, Alive, Dead, PcOK,
         FlagsOK, FileOK, FileContent, NoFile, Exists
    <2>15. QED
      BY <1>a, <2>1, <2>2, <2>3, <2>4, <2>5, <2>6, <2>7, <2>8, <2>9, <2>10, <2>11, <2>12, <2>13,
         <2>14
  <1>8. CASE CannotCreate(p)
    <2>1. FixedOK' /\ PcOK' /\ overlap' = overlap
      BY <1>t, <1>8 DEF CannotCreate, GiveUp, Goto, Say, FixedOK, PcOK, Places, Dead
    <2>2. TodoOK'
      BY <1>t, <1>8 DEF CannotCreate, GiveUp, Goto, Say, TodoOK, Steps, AfterModel, AfterWorker,
         AfterServer, AfterRun
    <2>3. HeldOK' /\ LogOK'
      BY <1>t, <1>8 DEF CannotCreate, GiveUp, Goto, Say, HeldOK, LogOK, Resources
    <2>4. FlagsOK'
      BY <1>t, <1>8 DEF CannotCreate, GiveUp, Goto, Say, FlagsOK, FileOK
    <2>5. FileOK' /\ PortOK'
      BY <1>t, <1>8 DEF CannotCreate, GiveUp, Goto, Say, FileOK, PortOK, NoFile
    <2>6. FileContent'
      BY <1>0, <1>t, <1>8 DEF CannotCreate, GiveUp, Goto, Say, FileContent, FileOK, NoFile
    <2>7. unheard' = {}
      BY <1>0, <1>8 DEF CannotCreate, GiveUp, Goto, Say, HeardAt, Pidfile
    <2>8. Frame(p)
      BY <1>t, <1>8 DEF CannotCreate, GiveUp, Goto, Say, Frame, FixedOK, PcOK, TodoOK, HeldOK,
         FlagsOK, LogOK
    <2>9. port' \in {port, p, None} /\ file'.owner \in {file.owner, p, None}
      BY <1>t, <1>8 DEF CannotCreate, GiveUp, Goto, Say, FileOK, NoFile
    <2>10. HeldAt(p)'
      BY <1>0, <1>t, <1>8 DEF CannotCreate, GiveUp, Goto, Say, HeldAt, Stage, PcOK, TodoOK,
         HeldOK, Pidfile, Dead, AfterModel, AfterWorker, AfterServer, AfterRun
    <2>11. PortAt(p)'
      BY <1>0, <1>n, <1>t, <1>8 DEF CannotCreate, GiveUp, Goto, Say, PortAt, PcOK, TodoOK
    <2>12. FileAt(p)'
      BY <1>0, <1>n, <1>t, <1>8 DEF CannotCreate, GiveUp, Goto, Say, FileAt, PidPending, PcOK,
         TodoOK, FileOK, NoFile, Pidfile
    <2>13. HeardAt(p)'
      BY <1>0, <1>t, <1>8 DEF CannotCreate, GiveUp, Goto, Say, HeardAt, Heard, PcOK, TodoOK,
         LogOK, Pidfile
    <2>14. ~overlap => (\A q \in Inst \ {p} : ~Alive(q)) /\ AloneAt(p)'
      BY <1>0, <1>n, <1>s, <1>t, <1>8 DEF CannotCreate, GiveUp, Goto, Say, AloneAt, Alive, Dead,
         PcOK, FlagsOK, FileOK, FileContent, NoFile, Exists
    <2>15. QED
      BY <1>a, <2>1, <2>2, <2>3, <2>4, <2>5, <2>6, <2>7, <2>8, <2>9, <2>10, <2>11, <2>12, <2>13,
         <2>14
  <1>9. CASE ReadOldPid(p)
    <2>1. FixedOK' /\ PcOK' /\ overlap' = overlap
      BY <1>t, <1>9 DEF ReadOldPid, GiveUp, Goto, Say, Quiet, FixedOK, PcOK, Places, Dead
    <2>2. TodoOK'
      BY <1>t, <1>9 DEF ReadOldPid, GiveUp, Goto, Say, Quiet, TodoOK, Steps, AfterModel,
         AfterWorker, AfterServer, AfterRun
    <2>3. HeldOK' /\ LogOK'
      BY <1>t, <1>9 DEF ReadOldPid, GiveUp, Goto, Say, Quiet, HeldOK, LogOK, Resources
    <2>4. FlagsOK'
      BY <1>t, <1>9 DEF ReadOldPid, GiveUp, Goto, Say, Quiet, FlagsOK, FileOK
    <2>5. FileOK' /\ PortOK'
      BY <1>t, <1>9 DEF ReadOldPid, GiveUp, Goto, Say, Quiet, FileOK, PortOK, NoFile
    <2>6. FileContent'
      BY <1>0, <1>t, <1>9 DEF ReadOldPid, GiveUp, Goto, Say, Quiet, FileContent, FileOK, NoFile
    <2>7. unheard' = {}
      BY <1>0, <1>9 DEF ReadOldPid, GiveUp, Goto, Say, Quiet, HeardAt, Pidfile
    <2>8. Frame(p)
      BY <1>t, <1>9 DEF ReadOldPid, GiveUp, Goto, Say, Quiet, Frame, FixedOK, PcOK, TodoOK,
         HeldOK, FlagsOK, LogOK
    <2>9. port' \in {port, p, None} /\ file'.owner \in {file.owner, p, None}
      BY <1>t, <1>9 DEF ReadOldPid, GiveUp, Goto, Say, Quiet, FileOK, NoFile
    <2>10. HeldAt(p)'
      BY <1>0, <1>t, <1>9 DEF ReadOldPid, GiveUp, Goto, Say, Quiet, HeldAt, Stage, PcOK, TodoOK,
         HeldOK, Pidfile, Dead, AfterModel, AfterWorker, AfterServer, AfterRun
    <2>11. PortAt(p)'
      BY <1>0, <1>n, <1>t, <1>9 DEF ReadOldPid, GiveUp, Goto, Say, Quiet, PortAt, PcOK, TodoOK
    <2>12. FileAt(p)'
      BY <1>0, <1>n, <1>t, <1>9 DEF ReadOldPid, GiveUp, Goto, Say, Quiet, FileAt, PidPending,
         PcOK, TodoOK, FileOK, NoFile, Pidfile
    <2>13. HeardAt(p)'
      BY <1>0, <1>t, <1>9 DEF ReadOldPid, GiveUp, Goto, Say, Quiet, HeardAt, Heard, PcOK, TodoOK,
         LogOK, Pidfile
    <2>14. ~overlap => (\A q \in Inst \ {p} : ~Alive(q)) /\ AloneAt(p)'
      <3>1. pc[p] = "readold" /\ file.owner # p
        BY <1>0, <1>9 DEF ReadOldPid, FileAt, Pidfile
      <3>2. ~overlap => \A q \in Inst \ {p} : ~Alive(q)
        BY <1>s, <3>1 DEF Alive, Dead
      <3>3. ~overlap => Exists
        BY <1>0, <3>1 DEF AloneAt
      <3>4. file.pid # p
        BY <1>0, <1>n, <3>1 DEF FileContent
      <3>5. ~overlap =>
               \/ pc' = [pc EXCEPT ![p] = "check"] /\ seen' = [seen EXCEPT ![p] = file.pid]
               \/ pc' = [pc EXCEPT ![p] = "worker"] /\ ioerr' = [ioerr EXCEPT ![p] = TRUE]
        BY <1>9, <3>3 DEF ReadOldPid, GiveUp, Goto
      <3>6. ~overlap => (pc'[p] = "check" /\ seen'[p] # p) \/ (pc'[p] = "worker" /\ ioerr'[p])
        BY <1>t, <3>4, <3>5 DEF PcOK, FlagsOK
      <3>7. QED
        BY <3>2, <3>6 DEF AloneAt
    <2>15. QED
      BY <1>a, <2>1, <2>2, <2>3, <2>4, <2>5, <2>6, <2>7, <2>8, <2>9, <2>10, <2>11, <2>12, <2>13,
         <2>14
  <1>10. CASE CheckOldPid(p)
    <2>1. FixedOK' /\ PcOK' /\ overlap' = overlap
      BY <1>t, <1>10 DEF CheckOldPid, GiveUp, Goto, Say, Quiet, StalePid, FixedOK, PcOK, Places,
         Dead
    <2>2. TodoOK'
      BY <1>t, <1>10 DEF CheckOldPid, GiveUp, Goto, Say, Quiet, StalePid, TodoOK, Steps,
         AfterModel, AfterWorker, AfterServer, AfterRun
    <2>3. HeldOK' /\ LogOK'
      BY <1>t, <1>10 DEF CheckOldPid, GiveUp, Goto, Say, Quiet, StalePid, HeldOK, LogOK, Resources
    <2>4. FlagsOK'
      BY <1>t, <1>10 DEF CheckOldPid, GiveUp, Goto, Say, Quiet, StalePid, FlagsOK, FileOK
    <2>5. FileOK' /\ PortOK'
      BY <1>t, <1>10 DEF CheckOldPid, GiveUp, Goto, Say, Quiet, StalePid, FileOK, PortOK, NoFile
    <2>6. FileContent'
      BY <1>0, <1>t, <1>10 DEF CheckOldPid, GiveUp, Goto, Say, Quiet, StalePid, FileContent,
         FileOK, NoFile
    <2>7. unheard' = {}
      BY <1>0, <1>10 DEF CheckOldPid, GiveUp, Goto, Say, Quiet, StalePid, HeardAt, Pidfile
    <2>8. Frame(p)
      BY <1>t, <1>10 DEF CheckOldPid, GiveUp, Goto, Say, Quiet, StalePid, Frame, FixedOK, PcOK,
         TodoOK, HeldOK, FlagsOK, LogOK
    <2>9. port' \in {port, p, None} /\ file'.owner \in {file.owner, p, None}
      BY <1>t, <1>10 DEF CheckOldPid, GiveUp, Goto, Say, Quiet, StalePid, FileOK, NoFile
    <2>10. HeldAt(p)'
      BY <1>0, <1>t, <1>10 DEF CheckOldPid, GiveUp, Goto, Say, Quiet, StalePid, HeldAt, Stage,
         PcOK, TodoOK, HeldOK, Pidfile, Dead, AfterModel, AfterWorker, AfterServer, AfterRun
    <2>11. PortAt(p)'
      BY <1>0, <1>n, <1>t, <1>10 DEF CheckOldPid, GiveUp, Goto, Say, Quiet, StalePid, PortAt,
         PcOK, TodoOK
    <2>12. FileAt(p)'
      BY <1>0, <1>n, <1>t, <1>10 DEF CheckOldPid, GiveUp, Goto, Say, Quiet, StalePid, FileAt,
         PidPending, PcOK, TodoOK, FileOK, NoFile, Pidfile
    <2>13. HeardAt(p)'
      BY <1>0, <1>t, <1>10 DEF CheckOldPid, GiveUp, Goto, Say, Quiet, StalePid, HeardAt, Heard,
         PcOK, TodoOK, LogOK, Pidfile
    <2>14. ~overlap => (\A q \in Inst \ {p} : ~Alive(q)) /\ AloneAt(p)'
      BY <1>0, <1>n, <1>s, <1>t, <1>10 DEF CheckOldPid, GiveUp, Goto, Say, Quiet, StalePid,
         AloneAt, Alive, Dead, PcOK, FlagsOK, FileOK, FileContent, NoFile, Exists
    <2>15. QED
      BY <1>a, <2>1, <2>2, <2>3, <2>4, <2>5, <2>6, <2>7, <2>8, <2>9, <2>10, <2>11, <2>12, <2>13,
         <2>14
  <1>11. CASE UnlinkStale(p)
    <2>1. FixedOK' /\ PcOK' /\ overlap' = overlap
      BY <1>t, <1>11 DEF UnlinkStale, Goto, FixedOK, PcOK, Places, Dead
    <2>2. TodoOK'
      BY <1>t, <1>11 DEF UnlinkStale, Goto, TodoOK, Steps, AfterModel, AfterWorker, AfterServer,
         AfterRun
    <2>3. HeldOK' /\ LogOK'
      BY <1>t, <1>11 DEF UnlinkStale, Goto, HeldOK, LogOK, Resources
    <2>4. FlagsOK'
      BY <1>t, <1>11 DEF UnlinkStale, Goto, FlagsOK, FileOK
    <2>5. FileOK' /\ PortOK'
      BY <1>t, <1>11 DEF UnlinkStale, Goto, FileOK, PortOK, NoFile
    <2>6. FileContent'
      BY <1>0, <1>t, <1>11 DEF UnlinkStale, Goto, FileContent, FileOK, NoFile
    <2>7. unheard' = {}
      BY <1>0, <1>11 DEF UnlinkStale, Goto, HeardAt, Pidfile
    <2>8. Frame(p)
      BY <1>t, <1>11 DEF UnlinkStale, Goto, Frame, FixedOK, PcOK, TodoOK, HeldOK, FlagsOK, LogOK
    <2>9. port' \in {port, p, None} /\ file'.owner \in {file.owner, p, None}
      BY <1>t, <1>11 DEF UnlinkStale, Goto, FileOK, NoFile
    <2>10. HeldAt(p)'
      BY <1>0, <1>t, <1>11 DEF UnlinkStale, Goto, HeldAt, Stage, PcOK, TodoOK, HeldOK, Pidfile,
         Dead, AfterModel, AfterWorker, AfterServer, AfterRun
    <2>11. PortAt(p)'
      BY <1>0, <1>n, <1>t, <1>11 DEF UnlinkStale, Goto, PortAt, PcOK, TodoOK
    <2>12. FileAt(p)'
      BY <1>0, <1>n, <1>t, <1>11 DEF UnlinkStale, Goto, FileAt, PidPending, PcOK, TodoOK, FileOK,
         NoFile, Pidfile
    <2>13. HeardAt(p)'
      BY <1>0, <1>t, <1>11 DEF UnlinkStale, Goto, HeardAt, Heard, PcOK, TodoOK, LogOK, Pidfile
    <2>14. ~overlap => (\A q \in Inst \ {p} : ~Alive(q)) /\ AloneAt(p)'
      BY <1>0, <1>n, <1>s, <1>t, <1>11 DEF UnlinkStale, Goto, AloneAt, Alive, Dead, PcOK,
         FlagsOK, FileOK, FileContent, NoFile, Exists
    <2>15. QED
      BY <1>a, <2>1, <2>2, <2>3, <2>4, <2>5, <2>6, <2>7, <2>8, <2>9, <2>10, <2>11, <2>12, <2>13,
         <2>14
  <1>12. CASE RecreatePidfile(p)
    <2>1. FixedOK' /\ PcOK' /\ overlap' = overlap
      BY <1>t, <1>12 DEF RecreatePidfile, GiveUp, Goto, Say, Quiet, FixedOK, PcOK, Places, Dead
    <2>2. TodoOK'
      BY <1>t, <1>12 DEF RecreatePidfile, GiveUp, Goto, Say, Quiet, TodoOK, Steps, AfterModel,
         AfterWorker, AfterServer, AfterRun
    <2>3. HeldOK' /\ LogOK'
      BY <1>t, <1>12 DEF RecreatePidfile, GiveUp, Goto, Say, Quiet, HeldOK, LogOK, Resources
    <2>4. FlagsOK'
      BY <1>t, <1>12 DEF RecreatePidfile, GiveUp, Goto, Say, Quiet, FlagsOK, FileOK
    <2>5. FileOK' /\ PortOK'
      BY <1>t, <1>12 DEF RecreatePidfile, GiveUp, Goto, Say, Quiet, FileOK, PortOK, NoFile
    <2>6. FileContent'
      BY <1>0, <1>t, <1>12 DEF RecreatePidfile, GiveUp, Goto, Say, Quiet, FileContent, FileOK,
         NoFile
    <2>7. unheard' = {}
      BY <1>0, <1>12 DEF RecreatePidfile, GiveUp, Goto, Say, Quiet, HeardAt, Pidfile
    <2>8. Frame(p)
      BY <1>t, <1>12 DEF RecreatePidfile, GiveUp, Goto, Say, Quiet, Frame, FixedOK, PcOK, TodoOK,
         HeldOK, FlagsOK, LogOK
    <2>9. port' \in {port, p, None} /\ file'.owner \in {file.owner, p, None}
      BY <1>t, <1>12 DEF RecreatePidfile, GiveUp, Goto, Say, Quiet, FileOK, NoFile
    <2>10. HeldAt(p)'
      BY <1>0, <1>t, <1>12 DEF RecreatePidfile, GiveUp, Goto, Say, Quiet, HeldAt, Stage, PcOK,
         TodoOK, HeldOK, Pidfile, Dead, AfterModel, AfterWorker, AfterServer, AfterRun
    <2>11. PortAt(p)'
      BY <1>0, <1>n, <1>t, <1>12 DEF RecreatePidfile, GiveUp, Goto, Say, Quiet, PortAt, PcOK, TodoOK
    <2>12. FileAt(p)'
      BY <1>0, <1>n, <1>t, <1>12 DEF RecreatePidfile, GiveUp, Goto, Say, Quiet, FileAt,
         PidPending, PcOK, TodoOK, FileOK, NoFile, Pidfile
    <2>13. HeardAt(p)'
      BY <1>0, <1>t, <1>12 DEF RecreatePidfile, GiveUp, Goto, Say, Quiet, HeardAt, Heard, PcOK,
         TodoOK, LogOK, Pidfile
    <2>14. ~overlap => (\A q \in Inst \ {p} : ~Alive(q)) /\ AloneAt(p)'
      BY <1>0, <1>n, <1>s, <1>t, <1>12 DEF RecreatePidfile, GiveUp, Goto, Say, Quiet, AloneAt,
         Alive, Dead, PcOK, FlagsOK, FileOK, FileContent, NoFile, Exists
    <2>15. QED
      BY <1>a, <2>1, <2>2, <2>3, <2>4, <2>5, <2>6, <2>7, <2>8, <2>9, <2>10, <2>11, <2>12, <2>13,
         <2>14
  <1>13. CASE WritePid(p)
    <2>1. FixedOK' /\ PcOK' /\ overlap' = overlap
      BY <1>t, <1>13 DEF WritePid, GiveUp, Goto, Say, Quiet, FixedOK, PcOK, Places, Dead
    <2>2. TodoOK'
      BY <1>t, <1>13 DEF WritePid, GiveUp, Goto, Say, Quiet, TodoOK, Steps, AfterModel,
         AfterWorker, AfterServer, AfterRun
    <2>3. HeldOK' /\ LogOK'
      BY <1>t, <1>13 DEF WritePid, GiveUp, Goto, Say, Quiet, HeldOK, LogOK, Resources
    <2>4. FlagsOK'
      BY <1>t, <1>13 DEF WritePid, GiveUp, Goto, Say, Quiet, FlagsOK, FileOK
    <2>5. FileOK' /\ PortOK'
      BY <1>t, <1>13 DEF WritePid, GiveUp, Goto, Say, Quiet, FileOK, PortOK, NoFile
    <2>6. FileContent'
      BY <1>0, <1>t, <1>13 DEF WritePid, GiveUp, Goto, Say, Quiet, FileContent, FileOK, NoFile
    <2>7. unheard' = {}
      BY <1>0, <1>13 DEF WritePid, GiveUp, Goto, Say, Quiet, HeardAt, Pidfile
    <2>8. Frame(p)
      BY <1>t, <1>13 DEF WritePid, GiveUp, Goto, Say, Quiet, Frame, FixedOK, PcOK, TodoOK,
         HeldOK, FlagsOK, LogOK
    <2>9. port' \in {port, p, None} /\ file'.owner \in {file.owner, p, None}
      BY <1>t, <1>13 DEF WritePid, GiveUp, Goto, Say, Quiet, FileOK, NoFile
    <2>10. HeldAt(p)'
      BY <1>0, <1>t, <1>13 DEF WritePid, GiveUp, Goto, Say, Quiet, HeldAt, Stage, PcOK, TodoOK,
         HeldOK, Pidfile, Dead, AfterModel, AfterWorker, AfterServer, AfterRun
    <2>11. PortAt(p)'
      BY <1>0, <1>n, <1>t, <1>13 DEF WritePid, GiveUp, Goto, Say, Quiet, PortAt, PcOK, TodoOK
    <2>12. FileAt(p)'
      BY <1>0, <1>n, <1>t, <1>13 DEF WritePid, GiveUp, Goto, Say, Quiet, FileAt, PidPending,
         PcOK, TodoOK, FileOK, NoFile, Pidfile
    <2>13. HeardAt(p)'
      BY <1>0, <1>t, <1>13 DEF WritePid, GiveUp, Goto, Say, Quiet, HeardAt, Heard, PcOK, TodoOK,
         LogOK, Pidfile
    <2>14. ~overlap => (\A q \in Inst \ {p} : ~Alive(q)) /\ AloneAt(p)'
      BY <1>0, <1>n, <1>s, <1>t, <1>13 DEF WritePid, GiveUp, Goto, Say, Quiet, AloneAt, Alive,
         Dead, PcOK, FlagsOK, FileOK, FileContent, NoFile, Exists
    <2>15. QED
      BY <1>a, <2>1, <2>2, <2>3, <2>4, <2>5, <2>6, <2>7, <2>8, <2>9, <2>10, <2>11, <2>12, <2>13,
         <2>14
  <1>14. CASE InitWorker(p)
    <2>1. FixedOK' /\ PcOK' /\ overlap' = overlap
      BY <1>t, <1>14 DEF InitWorker, Goto, Hold, CleanUp, Say, Quiet, FixedOK, PcOK, Places, Dead
    <2>2. TodoOK'
      BY <1>t, <1>14, Lists DEF InitWorker, Goto, CleanUp, TodoOK
    <2>3. HeldOK' /\ LogOK'
      BY <1>t, <1>14 DEF InitWorker, Goto, Hold, CleanUp, Say, Quiet, HeldOK, LogOK, Resources
    <2>4. FlagsOK'
      BY <1>t, <1>14 DEF InitWorker, Goto, Hold, CleanUp, Say, Quiet, FlagsOK, FileOK
    <2>5. FileOK' /\ PortOK'
      BY <1>t, <1>14 DEF InitWorker, Goto, Hold, CleanUp, Say, Quiet, FileOK, PortOK, NoFile
    <2>6. FileContent'
      BY <1>0, <1>t, <1>14 DEF InitWorker, Goto, Hold, CleanUp, Say, Quiet, FileContent, FileOK,
         NoFile
    <2>7. unheard' = {}
      BY <1>0, <1>14 DEF InitWorker, Goto, Hold, CleanUp, Say, Quiet, HeardAt, Pidfile
    <2>8. Frame(p)
      BY <1>t, <1>14 DEF InitWorker, Goto, Hold, CleanUp, Say, Quiet, Frame, FixedOK, PcOK,
         TodoOK, HeldOK, FlagsOK, LogOK
    <2>9. port' \in {port, p, None} /\ file'.owner \in {file.owner, p, None}
      BY <1>t, <1>14 DEF InitWorker, Goto, Hold, CleanUp, Say, Quiet, FileOK, NoFile
    <2>10. HeldAt(p)'
      BY <1>0, <1>t, <1>14 DEF InitWorker, Goto, Hold, CleanUp, Say, Quiet, HeldAt, Stage, PcOK,
         TodoOK, HeldOK, Pidfile, Dead, AfterModel, AfterWorker, AfterServer, AfterRun
    <2>11. PortAt(p)'
      BY <1>0, <1>n, <1>t, <1>14 DEF InitWorker, Goto, Hold, CleanUp, Say, Quiet, PortAt, PcOK,
         TodoOK
    <2>12. FileAt(p)'
      BY <1>0, <1>n, <1>t, <1>14 DEF InitWorker, Goto, Hold, CleanUp, Say, Quiet, FileAt,
         PidPending, PcOK, TodoOK, FileOK, NoFile, Pidfile
    <2>13. HeardAt(p)'
      BY <1>0, <1>t, <1>14 DEF InitWorker, Goto, Hold, CleanUp, Say, Quiet, HeardAt, Heard, PcOK,
         TodoOK, LogOK, Pidfile
    <2>14. ~overlap => (\A q \in Inst \ {p} : ~Alive(q)) /\ AloneAt(p)'
      BY <1>0, <1>n, <1>s, <1>t, <1>14 DEF InitWorker, Goto, Hold, CleanUp, Say, Quiet, AloneAt,
         Alive, Dead, PcOK, FlagsOK, FileOK, FileContent, NoFile, Exists
    <2>15. QED
      BY <1>a, <2>1, <2>2, <2>3, <2>4, <2>5, <2>6, <2>7, <2>8, <2>9, <2>10, <2>11, <2>12, <2>13,
         <2>14
  <1>15. CASE InitServer(p)
    <2>1. FixedOK' /\ PcOK' /\ overlap' = overlap
      BY <1>t, <1>15 DEF InitServer, BindFails, Goto, Hold, CleanUp, Say, FixedOK, PcOK, Places,
         Dead
    <2>2. TodoOK'
      BY <1>t, <1>15, Lists DEF InitServer, BindFails, Goto, CleanUp, TodoOK
    <2>3. HeldOK' /\ LogOK'
      BY <1>t, <1>15 DEF InitServer, BindFails, Goto, Hold, CleanUp, Say, HeldOK, LogOK, Resources
    <2>4. FlagsOK'
      BY <1>t, <1>15 DEF InitServer, BindFails, Goto, Hold, CleanUp, Say, FlagsOK, FileOK
    <2>5. FileOK' /\ PortOK'
      BY <1>t, <1>15 DEF InitServer, BindFails, Goto, Hold, CleanUp, Say, FileOK, PortOK, NoFile
    <2>6. FileContent'
      BY <1>0, <1>t, <1>15 DEF InitServer, BindFails, Goto, Hold, CleanUp, Say, FileContent,
         FileOK, NoFile
    <2>7. unheard' = {}
      BY <1>0, <1>15 DEF InitServer, BindFails, Goto, Hold, CleanUp, Say, HeardAt, Pidfile
    <2>8. Frame(p)
      BY <1>t, <1>15 DEF InitServer, BindFails, Goto, Hold, CleanUp, Say, Frame, FixedOK, PcOK,
         TodoOK, HeldOK, FlagsOK, LogOK
    <2>9. port' \in {port, p, None} /\ file'.owner \in {file.owner, p, None}
      BY <1>t, <1>15 DEF InitServer, BindFails, Goto, Hold, CleanUp, Say, FileOK, NoFile
    <2>10. HeldAt(p)'
      BY <1>0, <1>t, <1>15 DEF InitServer, BindFails, Goto, Hold, CleanUp, Say, HeldAt, Stage,
         PcOK, TodoOK, HeldOK, Pidfile, Dead, AfterModel, AfterWorker, AfterServer, AfterRun
    <2>11. PortAt(p)'
      BY <1>0, <1>n, <1>t, <1>15 DEF InitServer, BindFails, Goto, Hold, CleanUp, Say, PortAt,
         PcOK, TodoOK
    <2>12. FileAt(p)'
      BY <1>0, <1>n, <1>t, <1>15 DEF InitServer, BindFails, Goto, Hold, CleanUp, Say, FileAt,
         PidPending, PcOK, TodoOK, FileOK, NoFile, Pidfile
    <2>13. HeardAt(p)'
      BY <1>0, <1>t, <1>15 DEF InitServer, BindFails, Goto, Hold, CleanUp, Say, HeardAt, Heard,
         PcOK, TodoOK, LogOK, Pidfile
    <2>14. ~overlap => (\A q \in Inst \ {p} : ~Alive(q)) /\ AloneAt(p)'
      BY <1>0, <1>n, <1>s, <1>t, <1>15 DEF InitServer, BindFails, Goto, Hold, CleanUp, Say,
         AloneAt, Alive, Dead, PcOK, FlagsOK, FileOK, FileContent, NoFile, Exists
    <2>15. QED
      BY <1>a, <2>1, <2>2, <2>3, <2>4, <2>5, <2>6, <2>7, <2>8, <2>9, <2>10, <2>11, <2>12, <2>13,
         <2>14
  <1>16. CASE LeaveLoop(p)
    <2>1. FixedOK' /\ PcOK' /\ overlap' = overlap
      BY <1>t, <1>16 DEF LeaveLoop, CleanUp, Say, FixedOK, PcOK, Places, Dead
    <2>2. TodoOK'
      BY <1>t, <1>16 DEF LeaveLoop, CleanUp, Say, TodoOK, Steps, AfterModel, AfterWorker,
         AfterServer, AfterRun
    <2>3. HeldOK' /\ LogOK'
      BY <1>t, <1>16 DEF LeaveLoop, CleanUp, Say, HeldOK, LogOK, Resources
    <2>4. FlagsOK'
      BY <1>t, <1>16 DEF LeaveLoop, CleanUp, Say, FlagsOK, FileOK
    <2>5. FileOK' /\ PortOK'
      BY <1>t, <1>16 DEF LeaveLoop, CleanUp, Say, FileOK, PortOK, NoFile
    <2>6. FileContent'
      BY <1>0, <1>t, <1>16 DEF LeaveLoop, CleanUp, Say, FileContent, FileOK, NoFile
    <2>7. unheard' = {}
      BY <1>0, <1>16 DEF LeaveLoop, CleanUp, Say, HeardAt, Pidfile
    <2>8. Frame(p)
      BY <1>t, <1>16 DEF LeaveLoop, CleanUp, Say, Frame, FixedOK, PcOK, TodoOK, HeldOK, FlagsOK,
         LogOK
    <2>9. port' \in {port, p, None} /\ file'.owner \in {file.owner, p, None}
      BY <1>t, <1>16 DEF LeaveLoop, CleanUp, Say, FileOK, NoFile
    <2>10. HeldAt(p)'
      BY <1>0, <1>t, <1>16 DEF LeaveLoop, CleanUp, Say, HeldAt, Stage, PcOK, TodoOK, HeldOK,
         Pidfile, Dead, AfterModel, AfterWorker, AfterServer, AfterRun
    <2>11. PortAt(p)'
      BY <1>0, <1>n, <1>t, <1>16 DEF LeaveLoop, CleanUp, Say, PortAt, PcOK, TodoOK
    <2>12. FileAt(p)'
      BY <1>0, <1>n, <1>t, <1>16 DEF LeaveLoop, CleanUp, Say, FileAt, PidPending, PcOK, TodoOK,
         FileOK, NoFile, Pidfile
    <2>13. HeardAt(p)'
      BY <1>0, <1>t, <1>16 DEF LeaveLoop, CleanUp, Say, HeardAt, Heard, PcOK, TodoOK, LogOK, Pidfile
    <2>14. ~overlap => (\A q \in Inst \ {p} : ~Alive(q)) /\ AloneAt(p)'
      BY <1>0, <1>n, <1>s, <1>t, <1>16 DEF LeaveLoop, CleanUp, Say, AloneAt, Alive, Dead, PcOK,
         FlagsOK, FileOK, FileContent, NoFile, Exists
    <2>15. QED
      BY <1>a, <2>1, <2>2, <2>3, <2>4, <2>5, <2>6, <2>7, <2>8, <2>9, <2>10, <2>11, <2>12, <2>13,
         <2>14
  <1>17. CASE CleanupStep(p)
    <2> DEFINE step == Head(todo[p])
    <2>a. pc[p] = "cleanup" /\ todo[p] # <<>> /\ Stage(todo[p], held[p]) /\ Heard(p)
      BY <1>0, <1>17 DEF CleanupStep, HeldAt, HeardAt
    <2>b. /\ pc' = pc /\ todo' = [todo EXCEPT ![p] = Tail(todo[p])] /\ todo'[p] = Tail(todo[p])
          /\ held'[p] = held[p] \ {IF step = "server" THEN "mgr" ELSE step}
          /\ port' = IF step = "server" THEN None ELSE port
          /\ file' = IF step = "pidfile" /\ daemonize[p] THEN NoFile ELSE file
          /\ step # "logger" => UNCHANGED sinks
          /\ UNCHANGED <<console, daemonize>>
      BY <1>t, <1>17 DEF CleanupStep, TodoOK, HeldOK, Say
    <2>c. /\ Stage(Tail(todo[p]), held'[p])
          /\ step = "logger" <=> Tail(todo[p]) = <<>>
          /\ todo[p] = AfterRun => step = "server"
          /\ PidPending(todo[p]) => step = "pidfile" \/ PidPending(Tail(todo[p]))
          /\ Tail(todo[p]) \in Seq(Steps)
      BY <2>a, <2>b, Consume
    <2> HIDE DEF step
    <2>1. FixedOK' /\ PcOK' /\ overlap' = overlap
      BY <1>t, <1>17 DEF CleanupStep, Say, FixedOK, PcOK, Places, Dead
    <2>2. TodoOK'
      BY <1>t, <2>b, <2>c DEF TodoOK
    <2>3. HeldOK' /\ LogOK'
      BY <1>t, <1>17 DEF CleanupStep, Say, HeldOK, LogOK, Resources
    <2>4. FlagsOK'
      BY <1>t, <1>17 DEF CleanupStep, Say, FlagsOK, FileOK
    <2>5. FileOK' /\ PortOK'
      BY <1>t, <1>17 DEF CleanupStep, Say, FileOK, PortOK, NoFile
    <2>6. FileContent'
      BY <1>0, <1>t, <1>17 DEF CleanupStep, Say, FileContent, FileOK, NoFile
    <2>7. unheard' = {}
      BY <1>0, <1>17 DEF CleanupStep, Say, HeardAt, Pidfile
    <2>8. Frame(p)
      BY <1>t, <1>17 DEF CleanupStep, Say, Frame, FixedOK, PcOK, TodoOK, HeldOK, FlagsOK, LogOK
    <2>9. port' \in {port, p, None} /\ file'.owner \in {file.owner, p, None}
      BY <1>t, <1>17 DEF CleanupStep, Say, FileOK, NoFile
    <2>10. HeldAt(p)'
      BY <2>a, <2>b, <2>c DEF HeldAt, Pidfile
    <2>11. PortAt(p)'
      BY <1>0, <1>n, <2>a, <2>b, <2>c DEF PortAt
    <2>12. FileAt(p)'
      BY <1>0, <1>n, <2>a, <2>b, <2>c DEF FileAt, NoFile, Pidfile
    <2>13. HeardAt(p)'
      <3>1. todo'[p] # <<>> => UNCHANGED <<console, sinks>>
        BY <2>b, <2>c
      <3>2. todo'[p] # <<>> => Heard(p)'
        BY <2>a, <3>1 DEF Heard
      <3>3. pc'[p] = "cleanup"
        BY <2>a, <2>b
      <3>4. QED
        BY <3>2, <3>3 DEF HeardAt, Pidfile
    <2>14. ~overlap => (\A q \in Inst \ {p} : ~Alive(q)) /\ AloneAt(p)'
      BY <1>0, <1>n, <1>s, <1>t, <1>17 DEF CleanupStep, Say, AloneAt, Alive, Dead, PcOK, FlagsOK,
         FileOK, FileContent, NoFile, Exists
    <2>15. QED
      BY <1>a, <2>1, <2>2, <2>3, <2>4, <2>5, <2>6, <2>7, <2>8, <2>9, <2>10, <2>11, <2>12, <2>13,
         <2>14
  <1>18. CASE Exit(p)
    <2>1. FixedOK' /\ PcOK' /\ overlap' = overlap
      BY <1>t, <1>18 DEF Exit, Goto, FixedOK, PcOK, Places, Dead
    <2>2. TodoOK'
      BY <1>t, <1>18 DEF Exit, Goto, TodoOK, Steps, AfterModel, AfterWorker, AfterServer, AfterRun
    <2>3. HeldOK' /\ LogOK'
      BY <1>t, <1>18 DEF Exit, Goto, HeldOK, LogOK, Resources
    <2>4. FlagsOK'
      BY <1>t, <1>18 DEF Exit, Goto, FlagsOK, FileOK
    <2>5. FileOK' /\ PortOK'
      BY <1>t, <1>18 DEF Exit, Goto, FileOK, PortOK, NoFile
    <2>6. FileContent'
      BY <1>0, <1>t, <1>18 DEF Exit, Goto, FileContent, FileOK, NoFile
    <2>7. unheard' = {}
      BY <1>0, <1>18 DEF Exit, Goto, HeardAt, Pidfile
    <2>8. Frame(p)
      BY <1>t, <1>18 DEF Exit, Goto, Frame, FixedOK, PcOK, TodoOK, HeldOK, FlagsOK, LogOK
    <2>9. port' \in {port, p, None} /\ file'.owner \in {file.owner, p, None}
      BY <1>t, <1>18 DEF Exit, Goto, FileOK, NoFile
    <2>10. HeldAt(p)'
      BY <1>0, <1>t, <1>18 DEF Exit, Goto, HeldAt, Stage, PcOK, TodoOK, HeldOK, Pidfile, Dead,
         AfterModel, AfterWorker, AfterServer, AfterRun
    <2>11. PortAt(p)'
      BY <1>0, <1>t, <1>18, Lists DEF Exit, Goto, PortAt, PcOK
    <2>12. FileAt(p)'
      BY <1>0, <1>t, <1>18, Lists DEF Exit, Goto, FileAt, PcOK, Pidfile
    <2>13. HeardAt(p)'
      BY <1>0, <1>t, <1>18 DEF Exit, Goto, HeardAt, Heard, PcOK, TodoOK, LogOK, Pidfile
    <2>14. ~overlap => (\A q \in Inst \ {p} : ~Alive(q)) /\ AloneAt(p)'
      BY <1>0, <1>n, <1>s, <1>t, <1>18 DEF Exit, Goto, AloneAt, Alive, Dead, PcOK, FlagsOK,
         FileOK, FileContent, NoFile, Exists
    <2>15. QED
      BY <1>a, <2>1, <2>2, <2>3, <2>4, <2>5, <2>6, <2>7, <2>8, <2>9, <2>10, <2>11, <2>12, <2>13,
         <2>14
  <1>19. CASE Alive(p) /\ Dies(p)
    <2>1. FixedOK' /\ PcOK' /\ overlap' = overlap
      BY <1>t, <1>19 DEF Dies, FixedOK, PcOK, Places, Dead
    <2>2. TodoOK'
      BY <1>t, <1>19 DEF Dies, TodoOK, Steps, AfterModel, AfterWorker, AfterServer, AfterRun
    <2>3. HeldOK' /\ LogOK'
      BY <1>t, <1>19 DEF Dies, HeldOK, LogOK, Resources
    <2>4. FlagsOK'
      BY <1>t, <1>19 DEF Dies, FlagsOK, FileOK
    <2>5. FileOK' /\ PortOK'
      BY <1>t, <1>19 DEF Dies, FileOK, PortOK, NoFile
    <2>6. FileContent'
      BY <1>0, <1>t, <1>19 DEF Dies, FileContent, FileOK, NoFile
    <2>7. unheard' = {}
      BY <1>0, <1>19 DEF Dies, HeardAt, Pidfile
    <2>8. Frame(p)
      BY <1>t, <1>19 DEF Dies, Frame, FixedOK, PcOK, TodoOK, HeldOK, FlagsOK, LogOK
    <2>9. port' \in {port, p, None} /\ file'.owner \in {file.owner, p, None}
      BY <1>t, <1>19 DEF Dies, FileOK, NoFile
    <2>10. HeldAt(p)'
      BY <1>0, <1>t, <1>19 DEF Dies, HeldAt, Stage, PcOK, TodoOK, HeldOK, Pidfile, Dead,
         AfterModel, AfterWorker, AfterServer, AfterRun
    <2>11. PortAt(p)'
      BY <1>0, <1>n, <1>t, <1>19 DEF Dies, PortAt, PcOK, TodoOK
    <2>12. FileAt(p)'
      BY <1>0, <1>n, <1>t, <1>19 DEF Dies, FileAt, PidPending, PcOK, TodoOK, FileOK, NoFile, Pidfile
    <2>13. HeardAt(p)'
      BY <1>0, <1>t, <1>19 DEF Dies, HeardAt, Heard, PcOK, TodoOK, LogOK, Pidfile
    <2>14. ~overlap => (\A q \in Inst \ {p} : ~Alive(q)) /\ AloneAt(p)'
      BY <1>0, <1>n, <1>s, <1>t, <1>19 DEF Dies, AloneAt, Alive, Dead, PcOK, FlagsOK, FileOK,
         FileContent, NoFile, Exists
    <2>15. QED
      BY <1>a, <2>1, <2>2, <2>3, <2>4, <2>5, <2>6, <2>7, <2>8, <2>9, <2>10, <2>11, <2>12, <2>13,
         <2>14
  <1>20. CASE Handled(p)
    <2>1. FixedOK' /\ PcOK' /\ overlap' = overlap
      BY <1>t, <1>20 DEF Handled, FixedOK, PcOK, Places, Dead
    <2>2. TodoOK'
      BY <1>t, <1>20 DEF Handled, TodoOK, Steps, AfterModel, AfterWorker, AfterServer, AfterRun
    <2>3. HeldOK' /\ LogOK'
      BY <1>t, <1>20 DEF Handled, HeldOK, LogOK, Resources
    <2>4. FlagsOK'
      BY <1>t, <1>20 DEF Handled, FlagsOK, FileOK
    <2>5. FileOK' /\ PortOK'
      BY <1>t, <1>20 DEF Handled, FileOK, PortOK, NoFile
    <2>6. FileContent'
      BY <1>0, <1>t, <1>20 DEF Handled, FileContent, FileOK, NoFile
    <2>7. unheard' = {}
      BY <1>0, <1>20 DEF Handled, HeardAt, Pidfile
    <2>8. Frame(p)
      BY <1>t, <1>20 DEF Handled, Frame, FixedOK, PcOK, TodoOK, HeldOK, FlagsOK, LogOK
    <2>9. port' \in {port, p, None} /\ file'.owner \in {file.owner, p, None}
      BY <1>t, <1>20 DEF Handled, FileOK, NoFile
    <2>10. HeldAt(p)'
      BY <1>0, <1>t, <1>20 DEF Handled, HeldAt, Stage, PcOK, TodoOK, HeldOK, Pidfile, Dead,
         AfterModel, AfterWorker, AfterServer, AfterRun
    <2>11. PortAt(p)'
      BY <1>0, <1>n, <1>t, <1>20 DEF Handled, PortAt, PcOK, TodoOK
    <2>12. FileAt(p)'
      BY <1>0, <1>n, <1>t, <1>20 DEF Handled, FileAt, PidPending, PcOK, TodoOK, FileOK, NoFile,
         Pidfile
    <2>13. HeardAt(p)'
      BY <1>0, <1>t, <1>20 DEF Handled, HeardAt, Heard, PcOK, TodoOK, LogOK, Pidfile
    <2>14. ~overlap => (\A q \in Inst \ {p} : ~Alive(q)) /\ AloneAt(p)'
      BY <1>0, <1>n, <1>s, <1>t, <1>20 DEF Handled, AloneAt, Alive, Dead, PcOK, FlagsOK, FileOK,
         FileContent, NoFile, Exists
    <2>15. QED
      BY <1>a, <2>1, <2>2, <2>3, <2>4, <2>5, <2>6, <2>7, <2>8, <2>9, <2>10, <2>11, <2>12, <2>13,
         <2>14
  <1>21. CASE NewSession(p)
    <2>1. FixedOK' /\ PcOK' /\ overlap' = overlap
      BY <1>t, <1>21 DEF NewSession, Fork, DaemonizeFails, Goto, CleanUp, Say, Quiet, FixedOK,
         PcOK, Places, Dead
    <2>2. TodoOK'
      BY <1>t, <1>21, Lists DEF NewSession, Fork, DaemonizeFails, Goto, CleanUp, TodoOK
    <2>3. HeldOK' /\ LogOK'
      BY <1>t, <1>21 DEF NewSession, Fork, DaemonizeFails, Goto, CleanUp, Say, Quiet, HeldOK,
         LogOK, Resources
    <2>4. FlagsOK'
      BY <1>t, <1>21 DEF NewSession, Fork, DaemonizeFails, Goto, CleanUp, Say, Quiet, FlagsOK,
         FileOK
    <2>5. FileOK' /\ PortOK'
      BY <1>t, <1>21 DEF NewSession, Fork, DaemonizeFails, Goto, CleanUp, Say, Quiet, FileOK,
         PortOK, NoFile
    <2>6. FileContent'
      BY <1>0, <1>t, <1>21 DEF NewSession, Fork, DaemonizeFails, Goto, CleanUp, Say, Quiet,
         FileContent, FileOK, NoFile
    <2>7. unheard' = {}
      BY <1>0, <1>21 DEF NewSession, Fork, DaemonizeFails, Goto, CleanUp, Say, Quiet, HeardAt, Heard
    <2>8. Frame(p)
      BY <1>t, <1>21 DEF NewSession, Fork, DaemonizeFails, Goto, CleanUp, Say, Quiet, Frame,
         FixedOK, PcOK, TodoOK,
         HeldOK, FlagsOK, LogOK
    <2>9. port' \in {port, p, None} /\ file'.owner \in {file.owner, p, None}
      BY <1>t, <1>21 DEF NewSession, Fork, DaemonizeFails, Goto, CleanUp, Say, Quiet, FileOK, NoFile
    <2>10. HeldAt(p)'
      BY <1>0, <1>t, <1>21 DEF NewSession, Fork, DaemonizeFails, Goto, CleanUp, Say, Quiet, HeldAt,
         Stage, PcOK, TodoOK,
         HeldOK, Pidfile, Dead, AfterModel, AfterWorker, AfterServer, AfterRun
    <2>11. PortAt(p)'
      BY <1>0, <1>n, <1>t, <1>21 DEF NewSession, Fork, DaemonizeFails, Goto, CleanUp, Say, Quiet,
         PortAt, PcOK, TodoOK
    <2>12. FileAt(p)'
      BY <1>0, <1>n, <1>t, <1>21 DEF NewSession, Fork, DaemonizeFails, Goto, CleanUp, Say, Quiet,
         FileAt, PidPending,
         PcOK, TodoOK, FileOK, NoFile, Pidfile
    <2>13. HeardAt(p)'
      BY <1>0, <1>t, <1>21 DEF NewSession, Fork, DaemonizeFails, Goto, CleanUp, Say, Quiet,
         HeardAt, Heard, PcOK, TodoOK,
         LogOK, Pidfile
    <2>14. ~overlap => (\A q \in Inst \ {p} : ~Alive(q)) /\ AloneAt(p)'
      BY <1>0, <1>n, <1>s, <1>t, <1>21 DEF NewSession, Fork, DaemonizeFails, Goto, CleanUp, Say,
         Quiet, AloneAt, Alive,
         Dead, PcOK, FlagsOK, FileOK, FileContent, NoFile, Exists
    <2>15. QED
      BY <1>a, <2>1, <2>2, <2>3, <2>4, <2>5, <2>6, <2>7, <2>8, <2>9, <2>10, <2>11, <2>12, <2>13,
         <2>14
  <1>22. CASE ForkAgain(p)
    <2>1. FixedOK' /\ PcOK' /\ overlap' = overlap
      BY <1>t, <1>22 DEF ForkAgain, Fork, DaemonizeFails, Goto, CleanUp, Say, Quiet, FixedOK, PcOK,
         Places, Dead
    <2>2. TodoOK'
      BY <1>t, <1>22, Lists DEF ForkAgain, Fork, DaemonizeFails, Goto, CleanUp, TodoOK
    <2>3. HeldOK' /\ LogOK'
      BY <1>t, <1>22 DEF ForkAgain, Fork, DaemonizeFails, Goto, CleanUp, Say, Quiet, HeldOK, LogOK,
         Resources
    <2>4. FlagsOK'
      BY <1>t, <1>22 DEF ForkAgain, Fork, DaemonizeFails, Goto, CleanUp, Say, Quiet, FlagsOK, FileOK
    <2>5. FileOK' /\ PortOK'
      BY <1>t, <1>22 DEF ForkAgain, Fork, DaemonizeFails, Goto, CleanUp, Say, Quiet, FileOK,
         PortOK, NoFile
    <2>6. FileContent'
      BY <1>0, <1>t, <1>22 DEF ForkAgain, Fork, DaemonizeFails, Goto, CleanUp, Say, Quiet,
         FileContent, FileOK, NoFile
    <2>7. unheard' = {}
      BY <1>0, <1>22 DEF ForkAgain, Fork, DaemonizeFails, Goto, CleanUp, Say, Quiet, HeardAt, Heard
    <2>8. Frame(p)
      BY <1>t, <1>22 DEF ForkAgain, Fork, DaemonizeFails, Goto, CleanUp, Say, Quiet, Frame,
         FixedOK, PcOK, TodoOK,
         HeldOK, FlagsOK, LogOK
    <2>9. port' \in {port, p, None} /\ file'.owner \in {file.owner, p, None}
      BY <1>t, <1>22 DEF ForkAgain, Fork, DaemonizeFails, Goto, CleanUp, Say, Quiet, FileOK, NoFile
    <2>10. HeldAt(p)'
      BY <1>0, <1>t, <1>22 DEF ForkAgain, Fork, DaemonizeFails, Goto, CleanUp, Say, Quiet, HeldAt,
         Stage, PcOK, TodoOK,
         HeldOK, Pidfile, Dead, AfterModel, AfterWorker, AfterServer, AfterRun
    <2>11. PortAt(p)'
      BY <1>0, <1>n, <1>t, <1>22 DEF ForkAgain, Fork, DaemonizeFails, Goto, CleanUp, Say, Quiet,
         PortAt, PcOK, TodoOK
    <2>12. FileAt(p)'
      BY <1>0, <1>n, <1>t, <1>22 DEF ForkAgain, Fork, DaemonizeFails, Goto, CleanUp, Say, Quiet,
         FileAt, PidPending,
         PcOK, TodoOK, FileOK, NoFile, Pidfile
    <2>13. HeardAt(p)'
      BY <1>0, <1>t, <1>22 DEF ForkAgain, Fork, DaemonizeFails, Goto, CleanUp, Say, Quiet, HeardAt,
         Heard, PcOK, TodoOK,
         LogOK, Pidfile
    <2>14. ~overlap => (\A q \in Inst \ {p} : ~Alive(q)) /\ AloneAt(p)'
      BY <1>0, <1>n, <1>s, <1>t, <1>22 DEF ForkAgain, Fork, DaemonizeFails, Goto, CleanUp, Say,
         Quiet, AloneAt, Alive,
         Dead, PcOK, FlagsOK, FileOK, FileContent, NoFile, Exists
    <2>15. QED
      BY <1>a, <2>1, <2>2, <2>3, <2>4, <2>5, <2>6, <2>7, <2>8, <2>9, <2>10, <2>11, <2>12, <2>13,
         <2>14
  <1>23. CASE Redirect(p)
    <2>1. FixedOK' /\ PcOK' /\ overlap' = overlap
      BY <1>t, <1>23 DEF Redirect, Fork, DaemonizeFails, Goto, CleanUp, Say, Quiet, FixedOK, PcOK,
         Places, Dead
    <2>2. TodoOK'
      BY <1>t, <1>23, Lists DEF Redirect, Fork, DaemonizeFails, Goto, CleanUp, TodoOK
    <2>3. HeldOK' /\ LogOK'
      BY <1>t, <1>23 DEF Redirect, Fork, DaemonizeFails, Goto, CleanUp, Say, Quiet, HeldOK, LogOK,
         Resources
    <2>4. FlagsOK'
      BY <1>t, <1>23 DEF Redirect, Fork, DaemonizeFails, Goto, CleanUp, Say, Quiet, FlagsOK, FileOK
    <2>5. FileOK' /\ PortOK'
      BY <1>t, <1>23 DEF Redirect, Fork, DaemonizeFails, Goto, CleanUp, Say, Quiet, FileOK, PortOK,
         NoFile
    <2>6. FileContent'
      BY <1>0, <1>t, <1>23 DEF Redirect, Fork, DaemonizeFails, Goto, CleanUp, Say, Quiet,
         FileContent, FileOK, NoFile
    <2>7. unheard' = {}
      BY <1>0, <1>23 DEF Redirect, Fork, DaemonizeFails, Goto, CleanUp, Say, Quiet, HeardAt, Heard
    <2>8. Frame(p)
      BY <1>t, <1>23 DEF Redirect, Fork, DaemonizeFails, Goto, CleanUp, Say, Quiet, Frame, FixedOK,
         PcOK, TodoOK,
         HeldOK, FlagsOK, LogOK
    <2>9. port' \in {port, p, None} /\ file'.owner \in {file.owner, p, None}
      BY <1>t, <1>23 DEF Redirect, Fork, DaemonizeFails, Goto, CleanUp, Say, Quiet, FileOK, NoFile
    <2>10. HeldAt(p)'
      BY <1>0, <1>t, <1>23 DEF Redirect, Fork, DaemonizeFails, Goto, CleanUp, Say, Quiet, HeldAt,
         Stage, PcOK, TodoOK,
         HeldOK, Pidfile, Dead, AfterModel, AfterWorker, AfterServer, AfterRun
    <2>11. PortAt(p)'
      BY <1>0, <1>n, <1>t, <1>23 DEF Redirect, Fork, DaemonizeFails, Goto, CleanUp, Say, Quiet,
         PortAt, PcOK, TodoOK
    <2>12. FileAt(p)'
      BY <1>0, <1>n, <1>t, <1>23 DEF Redirect, Fork, DaemonizeFails, Goto, CleanUp, Say, Quiet,
         FileAt, PidPending,
         PcOK, TodoOK, FileOK, NoFile, Pidfile
    <2>13. HeardAt(p)'
      BY <1>0, <1>t, <1>23 DEF Redirect, Fork, DaemonizeFails, Goto, CleanUp, Say, Quiet, HeardAt,
         Heard, PcOK, TodoOK,
         LogOK, Pidfile
    <2>14. ~overlap => (\A q \in Inst \ {p} : ~Alive(q)) /\ AloneAt(p)'
      BY <1>0, <1>n, <1>s, <1>t, <1>23 DEF Redirect, Fork, DaemonizeFails, Goto, CleanUp, Say,
         Quiet, AloneAt, Alive,
         Dead, PcOK, FlagsOK, FileOK, FileContent, NoFile, Exists
    <2>15. QED
      BY <1>a, <2>1, <2>2, <2>3, <2>4, <2>5, <2>6, <2>7, <2>8, <2>9, <2>10, <2>11, <2>12, <2>13,
         <2>14
  <1>24. QED
    BY <1>1, <1>2, <1>3, <1>4, <1>5, <1>6, <1>7, <1>8, <1>9, <1>10, <1>11, <1>12, <1>13, <1>14,
       <1>15, <1>16, <1>17, <1>18, <1>19, <1>20, <1>21, <1>22, <1>23 DEF Step

(* So does every step of the system, starts and signals included.          *)
LEMMA NextIInv == IInv /\ [Next]_vars => IInv'
  <1> SUFFICES ASSUME IInv, [Next]_vars PROVE IInv'
    OBVIOUS
  <1>1. CASE UNCHANGED vars \/ \E q \in Inst : Ancestor(q)
    <2>0. UNCHANGED <<fixed, pc, todo, held, handlers, shutdown, seen, ioerr, log, file, port>>
      BY <1>1 DEF vars, Ancestor, ParentExits, StraySignal
    <2>1. /\ FixedOK' <=> FixedOK
          /\ PcOK' <=> PcOK
          /\ TodoOK' <=> TodoOK
          /\ HeldOK' <=> HeldOK
          /\ LogOK' <=> LogOK
          /\ FileOK' <=> FileOK
          /\ PortOK' <=> PortOK
      BY <2>0 DEF fixed, log, FixedOK, PcOK, TodoOK, HeldOK, LogOK, FileOK, PortOK
    <2>p. FlagsOK => FlagsOK'
      BY <1>1, <2>0 DEF vars, Ancestor, ParentExits, StraySignal, FlagsOK
    <2>2. unheard' = {} /\ unheard = {} /\ FileContent' /\ overlap' = overlap
      BY <2>0 DEF fixed, log, IInv, FileContent
    <2>3. ASSUME NEW p \in Inst
          PROVE  /\ HeldAt(p)' <=> HeldAt(p)
                 /\ PortAt(p)' <=> PortAt(p)
                 /\ FileAt(p)' <=> FileAt(p)
                 /\ HeardAt(p)' <=> HeardAt(p)
                 /\ AloneAt(p)' <=> AloneAt(p)
                 /\ Alive(p)' <=> Alive(p)
      BY <2>0 DEF fixed, log, HeldAt, PortAt, FileAt, HeardAt, Heard, AloneAt, Exists, Alive
    <2>4. TypeOK'
      <3>1. \A p \in Inst : PortAt(p) /\ PortAt(p)'
        BY <2>3 DEF IInv
      <3>2. QED
        BY <2>1, <2>p, <2>2, <3>1, TypeParts, TypePartsNext DEF IInv
    <2>5. Single' <=> Single
      BY <2>3 DEF Single
    <2>6. QED
      BY <2>2, <2>3, <2>4, <2>5 DEF IInv
  <1>2. ASSUME NEW p \in Inst, Configure(p) \/ Step(p) \/ Crash(p) \/ Signal(p)
        PROVE  IInv'
    <2>1. CASE Signal(p)
      <3>1. (Alive(p) /\ Dies(p)) \/ Handled(p)
        BY <2>1 DEF Signal, Handled
      <3>2. QED
        BY <3>1, StepIInv
    <2>2. QED
      BY <1>2, <2>1, StepIInv DEF Crash
  <1>3. QED
    BY <1>1, <1>2 DEF Next, Terminated, Ancestor

-----------------------------------------------------------------------------
(* The invariant holds in every reachable state.                           *)
LEMMA Invariance == Spec => []IInv
  BY InitIInv, NextIInv, PTL DEF Spec

(* main() and daemon.c keep their types for any number of processes, and   *)
(* no dead process holds the listen address.                               *)
THEOREM TypeCorrect == Spec => []TypeOK
  <1>1. IInv => TypeOK
    BY DEF IInv
  <1>2. QED
    BY <1>1, Invariance, PTL

(* Every return of main() has destroyed what startup had initialised, in   *)
(* an order that keeps the engine under the worker and the logger last.    *)
THEOREM CleanupComplete == Spec => []CleanupSound
  <1>1. IInv => CleanupSound
    <2> SUFFICES ASSUME IInv, NEW p \in Inst
                 PROVE  /\ pc[p] = "exited" => held[p] \subseteq {"mgr"}
                        /\ "worker" \in held[p] => "engine" \in held[p]
                        /\ held[p] \subseteq {"mgr"} \/ "logger" \in held[p]
      BY DEF CleanupSound
    <2>1. HeldAt(p) /\ pc[p] \in Places
      <3>1. PcOK
        BY DEF IInv, TypeOK, PcOK, Places
      <3>2. QED
        BY <3>1 DEF IInv, PcOK
    <2>2. CASE pc[p] = "cleanup"
      BY <2>1, <2>2 DEF HeldAt, Stage
    <2>3. CASE pc[p] # "cleanup"
      BY <2>1, <2>3 DEF HeldAt, Places, Dead, Pidfile
    <2>4. QED
      BY <2>2, <2>3
  <1>2. QED
    BY <1>1, Invariance, PTL

(* An instance that exits leaves no PID file of its own, whichever others  *)
(* run, remove its file or crash meanwhile.                                *)
THEOREM FileRemoved == Spec => []NoFileLeftBehind
  <1>1. IInv => NoFileLeftBehind
    BY DEF IInv, FileAt, NoFileLeftBehind
  <1>2. QED
    BY <1>1, Invariance, PTL

(* Instances run one after the other: the one that serves is named by the  *)
(* PID file, wherever its predecessors crashed in daemon_write_pidfile.    *)
THEOREM FileNames == Spec => []FileNamesServer
  <1>1. IInv => FileNamesServer
    BY DEF IInv, AloneAt, FileNamesServer
  <1>2. QED
    BY <1>1, Invariance, PTL

(* main() never reports to a stderr that was redirected or to a logger     *)
(* that was destroyed.                                                     *)
THEOREM NothingUnheard == Spec => []ReportsHeard
  <1>1. IInv => ReportsHeard
    BY DEF IInv, ReportsHeard
  <1>2. QED
    BY <1>1, Invariance, PTL
-----------------------------------------------------------------------------
(* The PID file of a running daemon                                        *)

(* The actions that change what the path names.                            *)
LEMMA FileChangers ==
  ASSUME NEW q \in Inst, file' # file, Configure(q) \/ Step(q) \/ Crash(q) \/ Signal(q)
  PROVE  \/ CreatePidfile(q) \/ UnlinkStale(q) \/ RecreatePidfile(q) \/ WritePid(q)
         \/ CleanupStep(q)
  <1>1. ~Configure(q) /\ ~Crash(q) /\ ~Signal(q)
    BY DEF Configure, Crash, Signal, Dies
  <1>2. /\ ~InitLogger(q) /\ ~InstallSignals(q) /\ ~LoadModel(q) /\ ~Daemonize(q)
        /\ ~NewSession(q) /\ ~ForkAgain(q) /\ ~Redirect(q)
        /\ ~EnableSyslog(q) /\ ~CannotCreate(q) /\ ~ReadOldPid(q) /\ ~CheckOldPid(q)
        /\ ~InitWorker(q) /\ ~InitServer(q) /\ ~LeaveLoop(q) /\ ~Exit(q)
    BY DEF InitLogger, InstallSignals, LoadModel, Daemonize, NewSession, ForkAgain, Redirect,
           EnableSyslog, CannotCreate, ReadOldPid, CheckOldPid, InitWorker, InitServer, LeaveLoop,
           Exit
  <1>3. QED
    BY <1>1, <1>2 DEF Step

(* A file that is being written stays empty until its creator writes.      *)
LEMMA UnwrittenHolds == Spec => []Unwritten
  <1>1. Init => Unwritten
    BY DEF Init, Unwritten, NoFile
  <1>2. IInv /\ Unwritten /\ [Next]_vars => Unwritten'
    <2> SUFFICES ASSUME IInv, Unwritten, [Next]_vars, NEW p \in Inst,
                        pc'[p] = "write", file'.owner = p
                 PROVE  file'.pid = None
      BY DEF Unwritten
    <2>n. None \notin Inst
      BY NoneAssumption
    <2>t. pc \in [Inst -> Places] /\ FileOK
      BY DEF IInv, TypeOK, Places, FileOK
    <2>1. CASE UNCHANGED vars \/ \E q \in Inst : Ancestor(q)
      BY <2>1 DEF vars, Ancestor, ParentExits, StraySignal, Unwritten
    <2>2. ASSUME NEW q \in Inst, Configure(q) \/ Step(q) \/ Crash(q) \/ Signal(q)
          PROVE  file'.pid = None
      <3>1. CASE CreatePidfile(q) \/ RecreatePidfile(q)
        BY <2>t, <3>1 DEF CreatePidfile, RecreatePidfile, GiveUp, Goto, Unwritten
      <3>2. CASE UnlinkStale(q)
        BY <3>2 DEF UnlinkStale, NoFile
      <3>3. CASE WritePid(q)
        BY <2>n, <2>t, <3>3 DEF WritePid, GiveUp, Goto, NoFile, Unwritten, FileOK
      <3>4. CASE CleanupStep(q)
        BY <2>t, <3>4 DEF CleanupStep, NoFile, Unwritten
      <3>5. CASE file' = file /\ pc[p] # "write"
        <4>1. ~Configure(q) /\ ~Crash(q) /\ ~Signal(q)
          BY <2>t, <3>5 DEF Configure, Crash, Signal, Dies, Goto
        <4>2. /\ ~InitLogger(q) /\ ~InstallSignals(q) /\ ~LoadModel(q) /\ ~Daemonize(q)
              /\ ~NewSession(q) /\ ~ForkAgain(q) /\ ~Redirect(q)
              /\ ~EnableSyslog(q) /\ ~CannotCreate(q) /\ ~ReadOldPid(q) /\ ~CheckOldPid(q)
              /\ ~InitWorker(q) /\ ~InitServer(q) /\ ~LeaveLoop(q) /\ ~Exit(q)
          BY <2>t, <3>5 DEF InitLogger, InstallSignals, LoadModel, Daemonize, NewSession,
             ForkAgain, Redirect, Fork, DaemonizeFails, EnableSyslog, CannotCreate, ReadOldPid,
             CheckOldPid, InitWorker, InitServer, BindFails, LeaveLoop,
             Exit, Goto, CleanUp, GiveUp
        <4>3. QED
          BY <2>2, <3>1, <3>2, <3>3, <3>4, <4>1, <4>2 DEF Step
      <3>6. CASE file' = file /\ pc[p] = "write"
        BY <3>6 DEF Unwritten
      <3>7. QED
        BY <2>2, <3>1, <3>2, <3>3, <3>4, <3>5, <3>6, FileChangers
    <2>3. QED
      BY <2>1, <2>2 DEF Next, Terminated, Ancestor
  <1>3. QED
    BY <1>1, <1>2, Invariance, PTL DEF Spec

(* LiveFileKept for instances that are run one after the other, and the    *)
(* three places that break it for instances that overlap.                  *)
THEOREM FileKeptAlone == Spec => [][FileKept]_vars
  <1>1. IInv /\ Unwritten /\ [Next]_vars => [FileKept]_vars
    <2> SUFFICES ASSUME IInv, Unwritten, Next, NEW p \in Inst,
                        file = [owner |-> p, pid |-> p], Alive(p), file' # file,
                        todo'[p] = todo[p]
                 PROVE  overlap /\ \E q \in Inst \ {p} :
                                     UnlinkStale(q) \/ WritePid(q) \/ CleanupStep(q)
      BY DEF FileKept
    <2>n. None \notin Inst /\ FileAt(p) /\ todo \in [Inst -> Seq(Steps)]
      BY NoneAssumption DEF IInv, TypeOK, Steps
    <2>1. PICK q \in Inst : \/ CreatePidfile(q) \/ UnlinkStale(q) \/ RecreatePidfile(q)
                            \/ WritePid(q) \/ CleanupStep(q)
      BY FileChangers DEF Next, Terminated, ParentExits, StraySignal, vars
    <2>2. UnlinkStale(q) \/ WritePid(q) \/ CleanupStep(q)
      BY <2>1, <2>n DEF CreatePidfile, RecreatePidfile, Exists, NoFile
    <2>3. q # p
      <3>1. ~UnlinkStale(p)
        BY <2>n DEF UnlinkStale, FileAt
      <3>2. ~WritePid(p)
        BY <2>n DEF WritePid, Unwritten
      <3>3. ~CleanupStep(p)
        <4> SUFFICES ASSUME CleanupStep(p) PROVE FALSE
          OBVIOUS
        <4>1. PICK t \in Seq(Steps) : t = todo[p]
          BY <2>n
        <4>2. t # <<>> /\ Tail(t) = t
          BY <2>n, <4>1 DEF CleanupStep
        <4>3. PICK n \in Nat : n = Len(t)
          BY LenProperties
        <4>4. Len(Tail(t)) = n - 1
          BY <4>2, <4>3, HeadTailProperties
        <4>5. Len(Tail(t)) = n
          BY <4>2, <4>3
        <4>6. QED
          BY <4>4, <4>5
      <3>4. QED
        BY <2>2, <3>1, <3>2, <3>3
    <2>4. Alive(q)
      BY <2>2 DEF UnlinkStale, WritePid, CleanupStep, Alive, Dead
    <2>5. overlap
      BY <2>3, <2>4 DEF IInv, Single
    <2>6. QED
      BY <2>2, <2>3, <2>5
  <1>2. QED
    BY <1>1, Invariance, UnwrittenHolds, PTL DEF Spec
-----------------------------------------------------------------------------
(* The end of an instance                                                  *)

(* The order of the places of main().                                      *)
LEMMA PlacesInOrder ==
  ASSUME NEW n \in Nat
  PROVE  /\ Left("off", n) = 26
         /\ Left("logger", n) = 25
         /\ Left("signals", n) = 24
         /\ Left("model", n) = 23
         /\ Left("daemonize", n) = 22
         /\ Left("setsid", n) = 21
         /\ Left("refork", n) = 20
         /\ Left("redirect", n) = 19
         /\ Left("syslog", n) = 18
         /\ Left("create", n) = 17
         /\ Left("readold", n) = 16
         /\ Left("check", n) = 15
         /\ Left("unlink", n) = 14
         /\ Left("recreate", n) = 13
         /\ Left("write", n) = 12
         /\ Left("worker", n) = 11
         /\ Left("server", n) = 10
         /\ Left("run", n) = 9
         /\ Left("cleanup", n) = 1 + n
         /\ Left("exited", n) = 0 /\ Left("crashed", n) = 0
  BY DEF Left, Dead

(* No cleanup list has more than seven steps.                              *)
LEMMA ListsAreShort ==
  /\ Len(<<"logger">>) <= 7 /\ Len(AfterModel) <= 7 /\ Len(AfterWorker) <= 7
  /\ Len(AfterServer) <= 7 /\ Len(AfterRun) <= 7
  BY DEF AfterModel, AfterWorker, AfterServer, AfterRun

(* Where main() goes from each place, a cleanup step apart.                *)
Moves(l, k) ==
    \/ l = "logger" /\ k \in {"signals", "exited"}
    \/ l = "signals" /\ k = "model"
    \/ l = "model" /\ k \in {"daemonize", "cleanup"}
    \/ l = "daemonize" /\ k \in {"worker", "setsid", "cleanup"}
    \/ l = "setsid" /\ k \in {"refork", "cleanup"}
    \/ l = "refork" /\ k \in {"redirect", "cleanup"}
    \/ l = "redirect" /\ k \in {"syslog", "cleanup"}
    \/ l = "syslog" /\ k = "create"
    \/ l = "create" /\ k \in {"write", "readold", "worker"}
    \/ l = "readold" /\ k \in {"check", "worker"}
    \/ l = "check" /\ k \in {"unlink", "worker"}
    \/ l = "unlink" /\ k = "recreate"
    \/ l = "recreate" /\ k \in {"write", "worker"}
    \/ l = "write" /\ k = "worker"
    \/ l = "worker" /\ k \in {"server", "cleanup"}
    \/ l = "server" /\ k \in {"run", "cleanup"}
    \/ l = "run" /\ k = "cleanup"
    \/ l = "cleanup" /\ k = "exited"

(* Each of these moves leaves fewer steps.                                 *)
LEMMA MovesGoOn ==
  ASSUME NEW l, NEW k, Moves(l, k), NEW m \in Nat, NEW n \in Nat, k = "cleanup" => n <= 7
  PROVE  Left(k, n) < Left(l, m)
  BY PlacesInOrder DEF Moves

(* Every step of main() is a step towards its end.                         *)
LEMMA StepsGoOn ==
  ASSUME IInv, NEW p \in Inst, Step(p)
  PROVE  StepsLeft(p)' < StepsLeft(p)
  <1>t. /\ pc \in [Inst -> Places]
        /\ todo \in [Inst -> Seq(Steps)]
        /\ todo' \in [Inst -> Seq(Steps)]
    <2>1. TypeOK /\ TypeOK'
      BY NextIInv DEF IInv, Next
    <2>2. QED
      BY <2>1 DEF TypeOK, Places, Steps
  <1>l. PICK t \in Seq(Steps), u \in Seq(Steps) : t = todo[p] /\ u = todo'[p]
    BY <1>t
  <1>g. \A l : Goto(p, l) => pc'[p] = l
    BY <1>t DEF Goto
  <1>c. \A v : CleanUp(p, v) /\ Len(v) <= 7 => pc'[p] = "cleanup" /\ Len(u) <= 7
    BY <1>t, <1>l DEF CleanUp
  <1>m. Moves(pc[p], pc'[p]) /\ (pc'[p] = "cleanup" => Len(u) <= 7) => StepsLeft(p)' < StepsLeft(p)
    BY <1>l, MovesGoOn, LenProperties DEF StepsLeft
  <1> USE DEF Moves
  <1>1. CASE InitLogger(p)
    BY <1>g, <1>c, <1>m, <1>1, ListsAreShort DEF InitLogger
  <1>2. CASE InstallSignals(p)
    BY <1>g, <1>c, <1>m, <1>2, ListsAreShort DEF InstallSignals
  <1>3. CASE LoadModel(p)
    BY <1>g, <1>c, <1>m, <1>3, ListsAreShort DEF LoadModel
  <1>4. CASE Daemonize(p)
    BY <1>g, <1>c, <1>m, <1>4, ListsAreShort DEF Daemonize, Fork, DaemonizeFails
  <1>5. CASE EnableSyslog(p)
    BY <1>g, <1>c, <1>m, <1>5, ListsAreShort DEF EnableSyslog
  <1>6. CASE CreatePidfile(p)
    BY <1>g, <1>c, <1>m, <1>6, ListsAreShort DEF CreatePidfile
  <1>7. CASE CannotCreate(p)
    BY <1>g, <1>c, <1>m, <1>7, ListsAreShort DEF CannotCreate, GiveUp
  <1>8. CASE ReadOldPid(p)
    BY <1>g, <1>c, <1>m, <1>8, ListsAreShort DEF ReadOldPid, GiveUp
  <1>9. CASE CheckOldPid(p)
    BY <1>g, <1>c, <1>m, <1>9, ListsAreShort DEF CheckOldPid, GiveUp
  <1>10. CASE UnlinkStale(p)
    BY <1>g, <1>c, <1>m, <1>10, ListsAreShort DEF UnlinkStale
  <1>11. CASE RecreatePidfile(p)
    BY <1>g, <1>c, <1>m, <1>11, ListsAreShort DEF RecreatePidfile, GiveUp
  <1>12. CASE WritePid(p)
    BY <1>g, <1>c, <1>m, <1>12, ListsAreShort DEF WritePid, GiveUp
  <1>13. CASE InitWorker(p)
    BY <1>g, <1>c, <1>m, <1>13, ListsAreShort DEF InitWorker
  <1>14. CASE InitServer(p)
    BY <1>g, <1>c, <1>m, <1>14, ListsAreShort DEF InitServer, BindFails
  <1>15. CASE LeaveLoop(p)
    BY <1>g, <1>c, <1>m, <1>15, ListsAreShort DEF LeaveLoop
  <1>16. CASE CleanupStep(p)
    <2>1. t # <<>> /\ u = Tail(t) /\ pc[p] = "cleanup" /\ pc'[p] = "cleanup"
      BY <1>t, <1>l, <1>16 DEF CleanupStep
    <2>2. PICK m \in Nat, n \in Nat : m = Len(t) /\ n = Len(u)
      BY LenProperties
    <2>3. n = m - 1
      BY <2>1, <2>2, HeadTailProperties
    <2>4. Left("cleanup", n) < Left("cleanup", m)
      BY <2>3, PlacesInOrder
    <2>5. QED
      BY <1>l, <2>1, <2>2, <2>4 DEF StepsLeft
  <1>17. CASE Exit(p)
    BY <1>g, <1>m, <1>17 DEF Exit
  <1>18. CASE NewSession(p) \/ ForkAgain(p) \/ Redirect(p)
    BY <1>g, <1>c, <1>m, <1>18, ListsAreShort DEF NewSession, ForkAgain, Redirect, Fork,
       DaemonizeFails
  <1>19. QED
    BY <1>1, <1>2, <1>3, <1>4, <1>5, <1>6, <1>7, <1>8, <1>9, <1>10, <1>11, <1>12, <1>13, <1>14,
       <1>15, <1>16, <1>17, <1>18 DEF Step

(* An instance's place is its own.                                         *)
LEMMA OthersStay ==
  ASSUME IInv, NEW p \in Inst, NEW q \in Inst \ {p},
         Configure(q) \/ Step(q) \/ Crash(q) \/ Signal(q)
  PROVE  pc'[p] = pc[p] /\ todo'[p] = todo[p]
  <1>t. pc \in [Inst -> Places] /\ todo \in [Inst -> Seq(Steps)]
    BY DEF IInv, TypeOK, Places, Steps
  <1>g. \A l : Goto(q, l) => pc'[p] = pc[p] /\ todo'[p] = todo[p]
    BY <1>t DEF Goto
  <1>c. \A v : CleanUp(q, v) => pc'[p] = pc[p] /\ todo'[p] = todo[p]
    BY <1>t DEF CleanUp
  <1>d. Dies(q) => pc'[p] = pc[p] /\ todo'[p] = todo[p]
    BY <1>t DEF Dies
  <1>1. CASE Configure(q) \/ Crash(q) \/ Signal(q)
    BY <1>g, <1>d, <1>1 DEF Configure, Crash, Signal
  <1>2. CASE CleanupStep(q)
    BY <1>t, <1>2 DEF CleanupStep
  <1>3. CASE Step(q) /\ ~CleanupStep(q)
    BY <1>g, <1>c, <1>3 DEF Step, InitLogger, InstallSignals, LoadModel, Daemonize, NewSession,
       ForkAgain, Redirect, Fork, DaemonizeFails, EnableSyslog, CreatePidfile, CannotCreate,
       ReadOldPid, CheckOldPid, UnlinkStale, RecreatePidfile, WritePid,
       GiveUp, InitWorker, InitServer, BindFails, LeaveLoop, Exit
  <1>4. QED
    BY <1>1, <1>2, <1>3

(* main() has no loop but the server's: an instance takes at most 25 steps *)
(* after it is started, however it fails; with SignalEnds' fairness one    *)
(* whose flag a signal set ends.                                           *)
THEOREM StepsAreBounded == Spec => [][Onward]_vars
  <1>1. IInv /\ [Next]_vars => [Onward]_vars
    <2> SUFFICES ASSUME IInv, Next, NEW p \in Inst
                 PROVE  /\ Step(p) => StepsLeft(p)' < StepsLeft(p)
                        /\ StepsLeft(p)' <= StepsLeft(p)
      BY DEF Onward
    <2>t. /\ pc[p] \in Places /\ todo[p] \in Seq(Steps)
          /\ pc'[p] \in Places /\ todo'[p] \in Seq(Steps)
      <3>1. TypeOK /\ TypeOK'
        BY NextIInv DEF IInv
      <3>2. QED
        BY <3>1 DEF TypeOK, Places, Steps
    <2>n. StepsLeft(p) \in Nat
      <3>1. PICK n \in Nat : n = Len(todo[p])
        BY <2>t, LenProperties
      <3>2. \A l \in Places : Left(l, n) \in Nat
        BY PlacesInOrder DEF Places, Dead
      <3>3. QED
        BY <2>t, <3>1, <3>2 DEF StepsLeft
    <2>m. StepsLeft(p)' \in Nat
      <3>1. PICK n \in Nat : n = Len(todo'[p])
        BY <2>t, LenProperties
      <3>2. \A l \in Places : Left(l, n) \in Nat
        BY PlacesInOrder DEF Places, Dead
      <3>3. QED
        BY <2>t, <3>1, <3>2 DEF StepsLeft
    <2>1. Step(p) => StepsLeft(p)' < StepsLeft(p)
      BY StepsGoOn
    <2>2. CASE pc'[p] = pc[p] /\ todo'[p] = todo[p]
      <3>1. StepsLeft(p)' = StepsLeft(p)
        BY <2>2 DEF StepsLeft
      <3>2. QED
        BY <2>n, <2>1, <3>1
    <2>3. CASE Configure(p)
      <3>1. pc \in [Inst -> Places]
        BY DEF IInv, TypeOK, Places
      <3>2. pc[p] = "off" /\ pc'[p] \in {"logger", "exited"}
        BY <2>3, <3>1 DEF Configure, Goto
      <3>3. PICK m \in Nat, n \in Nat : m = Len(todo[p]) /\ n = Len(todo'[p])
        BY <2>t, LenProperties
      <3>4. Left(pc'[p], n) <= Left(pc[p], m)
        BY <3>2, PlacesInOrder
      <3>5. QED
        BY <2>1, <3>3, <3>4 DEF StepsLeft
    <2>4. CASE Dies(p)
      <3>1. pc'[p] = "crashed"
        BY <2>4 DEF Dies, IInv, TypeOK
      <3>2. StepsLeft(p)' = 0
        BY <2>t, <3>1, PlacesInOrder, LenProperties DEF StepsLeft
      <3>3. QED
        BY <2>n, <2>1, <3>2
    <2>5. CASE Step(p)
      <3>1. StepsLeft(p)' \in Nat
        BY <2>m
      <3>2. QED
        BY <2>1, <2>5, <2>n, <3>1
    <2>6. QED
      <3>1. CASE UNCHANGED vars \/ \E q \in Inst : Ancestor(q)
        BY <2>2, <3>1 DEF vars, Ancestor, ParentExits, StraySignal
      <3>2. CASE Configure(p) \/ Step(p) \/ Crash(p) \/ Signal(p)
        BY <2>2, <2>3, <2>4, <2>5, <3>2 DEF Crash, Signal
      <3>3. ASSUME NEW q \in Inst \ {p}, Configure(q) \/ Step(q) \/ Crash(q) \/ Signal(q)
            PROVE  pc'[p] = pc[p] /\ todo'[p] = todo[p]
        BY <3>3, OthersStay
      <3>4. QED
        BY <2>2, <3>1, <3>2, <3>3 DEF Next, Terminated, Ancestor
  <1>2. QED
    BY <1>1, Invariance, PTL DEF Spec
=============================================================================
