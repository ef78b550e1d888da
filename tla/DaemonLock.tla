------------------------------ MODULE DaemonLock ------------------------------
(***************************************************************************)
(* The life cycle of braid daemons on one .braid directory, and the        *)
(* commands that look for one: the lock file daemon.lock with the pid of   *)
(* its creator, the socket daemon.sock, start-up, shutdown and crashes;    *)
(* auto-start, the request of a command over the socket and its fallback   *)
(* to direct execution.                                                    *)
(***************************************************************************)
EXTENDS Naturals, FiniteSets

CONSTANTS
    Daemon,    \* daemon processes; a process starts once and keeps its pid
    Client,    \* commands that can be routed to a daemon
    Faults     \* "crash": a daemon may die at any moment; "start_error": opening
               \* the store or binding the socket may fail; "lock_race": others
               \* use the lock file between a daemon's finding it stale and
               \* its removing it, or while daemon stop cleans up

ASSUME DaemonLockAssumption ==
    Faults \subseteq {"crash", "start_error", "lock_race"}

VARIABLES
    lock,      \* daemon.lock: no record or one, by whom and with a pid or empty
    sock,      \* daemon.sock: the daemon it was bound by
    pc,        \* what each daemon process is doing
    stop,      \* how far a braid daemon stop that found a stale lock is
    cpc,       \* what each command is doing
    server,    \* the daemon it is connected to
    job,       \* how far the daemon is with it
    runs       \* how often the command has been executed

fileVars   == <<lock, sock>>
clientVars == <<cpc, server, job, runs>>
vars       == <<fileVars, pc, stop, clientVars>>

Starting == {"create", "pid", "check", "remove", "open", "unlink", "bind"}
Holding  == {"serve", "flush", "unsock", "unlock"}

Alive(d) == pc[d] \notin {"new", "gone"}

Init ==
    /\ lock = {}
    /\ sock = {}
    /\ pc = [d \in Daemon |-> "new"]
    /\ stop = "idle"
    /\ cpc = [c \in Client |-> "new"]
    /\ server = [c \in Client |-> {}]
    /\ job = [c \in Client |-> "none"]
    /\ runs = [c \in Client |-> 0]

Goes(d, from, to) == pc[d] = from /\ pc' = [pc EXCEPT ![d] = to]

-----------------------------------------------------------------------------
(* acquire_lock. *)

\* Nobody is about to remove a lock it has found stale, or that keeps no one away.
LockInReach ==
    \/ stop = "idle" /\ \A d \in Daemon : pc[d] # "remove"
    \/ "lock_race" \in Faults

\* Mutant of LockStatus: a file without a pid is taken for a stale one.
LockStatusEmptyStale ==
    IF lock = {} THEN "absent"
    ELSE IF \E l \in lock : l.written /\ Alive(l.by) THEN "live" ELSE "stale"

\* check_lock reads the pid and probes it; an empty file is as good as none.
LockStatus ==
    IF \A l \in lock : ~l.written THEN "absent"
    ELSE IF \E l \in lock : Alive(l.by) THEN "live" ELSE "stale"

\* braid daemon start, by a user.
Start(d) ==
    /\ Goes(d, "new", "create")
    /\ UNCHANGED <<fileVars, stop, clientVars>>

\* create_new succeeds: the file is ours, and empty.
CreateLock(d) ==
    /\ Goes(d, "create", "pid")
    /\ LockInReach
    /\ lock = {}
    /\ lock' = {[by |-> d, written |-> FALSE]}
    /\ UNCHANGED <<sock, stop, clientVars>>

LockExists(d) ==
    /\ Goes(d, "create", "check")
    /\ lock # {}
    /\ UNCHANGED <<fileVars, stop, clientVars>>

\* The pid goes into the file that was created, which may have been removed.
WritePid(d) ==
    /\ Goes(d, "pid", "open")
    /\ lock' = {[l EXCEPT !.written = @ \/ l.by = d] : l \in lock}
    /\ UNCHANGED <<sock, stop, clientVars>>

\* Mutant of LockHeld: the start that fails cleans up like a daemon that ends.
LockHeldCleanup(d) ==
    /\ Goes(d, "check", "unsock")
    /\ LockInReach
    /\ LockStatus = "live"
    /\ UNCHANGED <<fileVars, stop, clientVars>>

\* The error LockHeld ends the process; there is no guard yet.
LockHeld(d) ==
    /\ Goes(d, "check", "gone")
    /\ LockInReach
    /\ LockStatus = "live"
    /\ UNCHANGED <<fileVars, stop, clientVars>>

\* Another file, or none, by now: acquire_lock calls itself.
LockAbsent(d) ==
    /\ Goes(d, "check", "create")
    /\ LockInReach
    /\ LockStatus = "absent"
    /\ UNCHANGED <<fileVars, stop, clientVars>>

LockStale(d) ==
    /\ Goes(d, "check", "remove")
    /\ LockInReach
    /\ LockStatus = "stale"
    /\ UNCHANGED <<fileVars, stop, clientVars>>

\* Mutant of RemoveStale: remove_file fails unnoticed.
RemoveNothing(d) ==
    /\ Goes(d, "remove", "create")
    /\ UNCHANGED <<fileVars, stop, clientVars>>

\* Whatever the file is now, it is removed, and acquire_lock calls itself.
RemoveStale(d) ==
    /\ Goes(d, "remove", "create")
    /\ lock' = {}
    /\ UNCHANGED <<sock, stop, clientVars>>

-----------------------------------------------------------------------------
(* serve_daemon, from the lock to the accept loop and out of it again. *)

\* The store is open and the threads run.
OpenStore(d) ==
    /\ Goes(d, "open", "unlink")
    /\ UNCHANGED <<fileVars, stop, clientVars>>

UnlinkSocket(d) ==
    /\ Goes(d, "unlink", "bind")
    /\ sock' = {}
    /\ UNCHANGED <<lock, stop, clientVars>>

Bind(d) ==
    /\ Goes(d, "bind", "serve")
    /\ sock = {}
    /\ sock' = {d}
    /\ UNCHANGED <<lock, stop, clientVars>>

CannotStart(d) ==
    \/ pc[d] \in {"open", "bind"} /\ "start_error" \in Faults
    \/ pc[d] = "bind" /\ sock # {}

\* An error after acquire_lock returns through CleanupGuard.
StartFails(d) ==
    /\ CannotStart(d)
    /\ pc' = [pc EXCEPT ![d] = "unsock"]
    /\ UNCHANGED <<fileVars, stop, clientVars>>

\* Signal, daemon/shutdown or idle timeout: the accept loop ends.
Shutdown(d) ==
    /\ Goes(d, "serve", "flush")
    /\ UNCHANGED <<fileVars, stop, clientVars>>

\* The store is flushed and the listener closed.
Close(d) ==
    /\ Goes(d, "flush", "unsock")
    /\ UNCHANGED <<fileVars, stop, clientVars>>

\* CleanupGuard removes the socket and then the lock file, by their names.
CleanSocket(d) ==
    /\ Goes(d, "unsock", "unlock")
    /\ sock' = {}
    /\ UNCHANGED <<lock, stop, clientVars>>

CleanLock(d) ==
    /\ Goes(d, "unlock", "exit")
    /\ lock' = {}
    /\ UNCHANGED <<sock, stop, clientVars>>

\* The process ends, and its connection threads with it.
Exit(d) ==
    /\ Goes(d, "exit", "gone")
    /\ UNCHANGED <<fileVars, stop, clientVars>>

Crash(d) ==
    /\ "crash" \in Faults
    /\ Alive(d)
    /\ pc' = [pc EXCEPT ![d] = "gone"]
    /\ UNCHANGED <<fileVars, stop, clientVars>>

\* braid daemon stop, where no daemon is alive to be asked: the lock is removed
\* and then the socket, by their names.
StopFinds ==
    /\ stop = "idle"
    /\ LockInReach
    /\ LockStatus = "stale"
    /\ stop' = "unlock"
    /\ UNCHANGED <<fileVars, pc, clientVars>>

StopUnlocks ==
    /\ stop = "unlock"
    /\ lock' = {}
    /\ stop' = "unsock"
    /\ UNCHANGED <<sock, pc, clientVars>>

StopUnlinks ==
    /\ stop = "unsock"
    /\ sock' = {}
    /\ stop' = "idle"
    /\ UNCHANGED <<lock, pc, clientVars>>

\* A connection is accepted, its request executed and answered, by a thread that
\* lives as long as the process.
Accept(d, c) ==
    /\ pc[d] = "serve"
    /\ server[c] = {d}
    /\ job[c] = "sent"
    /\ job' = [job EXCEPT ![c] = "accepted"]
    /\ UNCHANGED <<fileVars, pc, stop, cpc, server, runs>>

Execute(d, c) ==
    /\ Alive(d)
    /\ server[c] = {d}
    /\ job[c] = "accepted"
    /\ job' = [job EXCEPT ![c] = "executed"]
    /\ runs' = [runs EXCEPT ![c] = @ + 1]
    /\ UNCHANGED <<fileVars, pc, stop, cpc, server>>

Answer(d, c) ==
    /\ Alive(d)
    /\ server[c] = {d}
    /\ job[c] = "executed"
    /\ job' = [job EXCEPT ![c] = "answered"]
    /\ UNCHANGED <<fileVars, pc, stop, cpc, server, runs>>

-----------------------------------------------------------------------------
(* try_route_through_daemon, and the direct mode behind it. *)

Moves(c, from, to) == cpc[c] = from /\ cpc' = [cpc EXCEPT ![c] = to]

SocketFound(c) ==
    /\ Moves(c, "new", "connect")
    /\ sock # {}
    /\ UNCHANGED <<fileVars, pc, stop, server, job, runs>>

\* No socket: a daemon is started, and its socket waited for.
AutoStart(c) ==
    /\ Moves(c, "new", "poll")
    /\ sock = {}
    /\ \E d \in Daemon : Goes(d, "new", "create")
    /\ UNCHANGED <<fileVars, stop, server, job, runs>>

SpawnFails(c) ==
    /\ Moves(c, "new", "direct")
    /\ sock = {}
    /\ UNCHANGED <<fileVars, pc, stop, server, job, runs>>

SocketAppears(c) ==
    /\ Moves(c, "poll", "connect")
    /\ sock # {}
    /\ UNCHANGED <<fileVars, pc, stop, server, job, runs>>

\* Mutant of PollEnds: there is no limit to the polling.
PollGoesOn(c) ==
    /\ Moves(c, "poll", "poll")
    /\ sock = {}
    /\ UNCHANGED <<fileVars, pc, stop, server, job, runs>>

\* 60 polls in 3 seconds without a socket.
PollEnds(c) ==
    /\ Moves(c, "poll", "direct")
    /\ sock = {}
    /\ UNCHANGED <<fileVars, pc, stop, server, job, runs>>

Listening(d) == pc[d] \in {"serve", "flush"}

\* The kernel queues the connection as long as the listener is open.
Connect(c) ==
    /\ Moves(c, "connect", "wait")
    /\ \E d \in sock : Listening(d)
    /\ server' = [server EXCEPT ![c] = sock]
    /\ job' = [job EXCEPT ![c] = "sent"]
    /\ UNCHANGED <<fileVars, pc, stop, runs>>

ConnectFails(c) ==
    /\ Moves(c, "connect", "direct")
    /\ \A d \in sock : ~Listening(d)
    /\ UNCHANGED <<fileVars, pc, stop, server, job, runs>>

ReadAnswer(c) ==
    /\ Moves(c, "wait", "done")
    /\ job[c] = "answered"
    /\ UNCHANGED <<fileVars, pc, stop, server, job, runs>>

\* Mutant of GiveUp: the command ends without having been executed.
GiveUpQuietly(c) ==
    /\ Moves(c, "wait", "done")
    /\ job[c] # "answered"
    /\ UNCHANGED <<fileVars, pc, stop, server, job, runs>>

\* The read timeout (2 or 10 seconds), the end of the daemon, or an answer that
\* is an error or has no text.
GiveUp(c) ==
    /\ Moves(c, "wait", "direct")
    /\ UNCHANGED <<fileVars, pc, stop, server, job, runs>>

\* Mutant of Direct: the command is tried again.
DirectAgain(c) ==
    /\ Moves(c, "direct", "new")
    /\ runs' = [runs EXCEPT ![c] = @ + 1]
    /\ UNCHANGED <<fileVars, pc, stop, server, job>>

\* The command opens the store itself.
Direct(c) ==
    /\ Moves(c, "direct", "done")
    /\ runs' = [runs EXCEPT ![c] = @ + 1]
    /\ UNCHANGED <<fileVars, pc, stop, server, job>>

-----------------------------------------------------------------------------

\* What a daemon does by itself.
DaemonStep(d) ==
    \/ CreateLock(d) \/ LockExists(d) \/ WritePid(d)
    \/ LockHeld(d) \/ LockAbsent(d) \/ LockStale(d) \/ RemoveStale(d)
    \/ OpenStore(d) \/ UnlinkSocket(d) \/ Bind(d) \/ StartFails(d)
    \/ Close(d) \/ CleanSocket(d) \/ CleanLock(d) \/ Exit(d)

StopStep == StopUnlocks \/ StopUnlinks

Work(d, c) == Accept(d, c) \/ Execute(d, c) \/ Answer(d, c)

\* What a command does once it is entered.
ClientStep(c) ==
    \/ SocketFound(c) \/ AutoStart(c) \/ SpawnFails(c)
    \/ SocketAppears(c) \/ PollEnds(c) \/ Connect(c) \/ ConnectFails(c)
    \/ ReadAnswer(c) \/ GiveUp(c) \/ Direct(c)

Next ==
    \/ \E d \in Daemon : DaemonStep(d) \/ Start(d) \/ Shutdown(d) \/ Crash(d)
    \/ \E d \in Daemon, c \in Client : Work(d, c)
    \/ \E c \in Client : ClientStep(c)
    \/ StopFinds \/ StopStep

Spec == Init /\ [][Next]_vars

FairSpec ==
    /\ Spec
    /\ \A d \in Daemon : WF_vars(DaemonStep(d))
    /\ \A c \in Client : WF_vars(ClientStep(c))
    /\ WF_vars(StopStep)

-----------------------------------------------------------------------------

\* The variables have their types; a command runs at most twice.
TypeOK ==
    /\ lock \subseteq [by : Daemon, written : BOOLEAN]
    /\ Cardinality(lock) <= 1
    /\ sock \subseteq Daemon
    /\ Cardinality(sock) <= 1
    /\ pc \in [Daemon -> Starting \cup Holding \cup {"new", "exit", "gone"}]
    /\ stop \in {"idle", "unlock", "unsock"}
    /\ cpc \in [Client -> {"new", "poll", "connect", "wait", "direct", "done"}]
    /\ server \in [Client -> SUBSET Daemon]
    /\ job \in [Client -> {"none", "sent", "accepted", "executed", "answered"}]
    /\ runs \in [Client -> 0 .. 2]

\* INV-DAEMON-001: at most one daemon serves the directory, or is on its way out
\* with the lock still held, whatever daemons start, stop and crash.
OneDaemon == Cardinality({d \in Daemon : pc[d] \in Holding}) <= 1

\* The lock file names the daemon that serves and the socket leads to it: no
\* other start, failed start, stop or clean-up takes them away from it.
ServingIsReachable ==
    \A d \in Daemon : pc[d] = "serve" =>
        sock = {d} /\ lock = {[by |-> d, written |-> TRUE]}

\* A command that has ended has been executed: every way in which routing can
\* fail leads to direct execution.
CommandRuns == \A c \in Client : cpc[c] = "done" => runs[c] > 0

\* A lock file whose creator died before it wrote its pid.
AbandonedEmpty == \E l \in lock : ~l.written /\ ~Alive(l.by)

\* A starting daemon serves or gives up, unless an empty lock file was left
\* behind, which nothing ever removes and acquire_lock retries for ever.
EveryStartEnds ==
    \A d \in Daemon :
        pc[d] \in Starting ~> pc[d] \notin Starting \/ AbandonedEmpty

\* A command ends, whatever becomes of the daemon it has started or asked.
EveryCommandEnds == \A c \in Client : cpc[c] = "poll" ~> cpc[c] = "done"

===============================================================================
