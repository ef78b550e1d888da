--------------------------- MODULE DaemonLockProofs ---------------------------
(***************************************************************************)
(* Theorems about DaemonLock, for any number of daemons and commands.      *)
(***************************************************************************)
EXTENDS DaemonLock, FiniteSetTheorems, TLAPS

\* The hypothesis that a lock found stale is removed before others use it.
Calm == "lock_race" \notin Faults

-----------------------------------------------------------------------------
\* The types, with the sets of at most one element spelled out.
AtMostOne(S, T) == S = {} \/ \E x \in T : S = {x}

Types ==
  /\ AtMostOne(lock, [by : Daemon, written : BOOLEAN])
  /\ AtMostOne(sock, Daemon)
  /\ pc \in [Daemon -> Starting \cup Holding \cup {"new", "exit", "gone"}]
  /\ stop \in {"idle", "unlock", "unsock"}
  /\ cpc \in [Client -> {"new", "poll", "connect", "wait", "direct", "done"}]
  /\ server \in [Client -> SUBSET Daemon]
  /\ job \in [Client -> {"none", "sent", "accepted", "executed", "answered"}]
  /\ runs \in [Client -> Nat]

\* A daemon executes a command at most once, the command itself too; a command
\* is at most connected once.
Executed == {"executed", "answered"}

Counted(c) ==
  /\ cpc[c] \in {"new", "poll", "connect"} => job[c] = "none"
  /\ job[c] \in Executed => runs[c] >= 1
  /\ cpc[c] = "done" => runs[c] >= 1
  /\ cpc[c] # "done" /\ job[c] \notin Executed => runs[c] = 0
  /\ cpc[c] # "done" \/ job[c] \notin Executed => runs[c] <= 1
  /\ runs[c] <= 2

CInv == Types /\ \A c \in Client : Counted(c)

\* The daemons between acquire_lock and the removal of their lock.
Owner == {"pid", "open", "unlink", "bind"} \cup Holding

OwnerHasLock ==
  \A d \in Daemon : pc[d] \in Owner =>
    lock = {[by |-> d, written |-> pc[d] # "pid"]}

\* Who removes a lock it has found stale removes nobody's.
StaleIsFree ==
  stop # "idle" \/ (\E d \in Daemon : pc[d] = "remove") =>
    \A d \in Daemon : pc[d] \notin Owner

ServerHasSocket == \A d \in Daemon : pc[d] = "serve" => sock = {d}

DInv == Types /\ OwnerHasLock /\ StaleIsFree /\ ServerHasSocket

-----------------------------------------------------------------------------
LEMMA AtMostOneCardinality ==
  ASSUME NEW S, NEW T, AtMostOne(S, T)
  PROVE  S \subseteq T /\ Cardinality(S) <= 1
<1>1. CASE S = {}
  BY <1>1, FS_EmptySet
<1>2. CASE \E x \in T : S = {x}
  <2>1. PICK x \in T : S = {x}
    BY <1>2
  <2>2. Cardinality({x}) = 1
    BY FS_Singleton
  <2> QED
    BY <2>1, <2>2
<1> QED
  BY <1>1, <1>2 DEF AtMostOne

LEMMA CInvGivesTypes == CInv => TypeOK
<1> SUFFICES ASSUME CInv PROVE TypeOK
  OBVIOUS
<1>1. /\ lock \subseteq [by : Daemon, written : BOOLEAN] /\ Cardinality(lock) <= 1
      /\ sock \subseteq Daemon /\ Cardinality(sock) <= 1
  BY AtMostOneCardinality DEF CInv, Types
<1>2. runs \in [Client -> 0 .. 2]
  BY DEF CInv, Types, Counted
<1> QED
  BY <1>1, <1>2 DEF CInv, Types, TypeOK

\* A daemon that moves keeps the type of pc.
LEMMA GoesTypes ==
  ASSUME Types, NEW d \in Daemon, NEW from, NEW to, Goes(d, from, to),
         to \in Starting \cup Holding \cup {"new", "exit", "gone"}
  PROVE  /\ pc' \in [Daemon -> Starting \cup Holding \cup {"new", "exit", "gone"}]
         /\ pc[d] = from /\ pc'[d] = to
         /\ \A e \in Daemon : e # d => pc'[e] = pc[e]
BY DEF Types, Goes

LEMMA DaemonStepTypes ==
  ASSUME Types, NEW d \in Daemon, DaemonStep(d) \/ Start(d) \/ Shutdown(d) \/ Crash(d)
  PROVE  Types' /\ UNCHANGED clientVars
<1> USE DEF Types, Goes, Starting, Holding, clientVars, fileVars
<1>1. CASE CreateLock(d)
  BY <1>1 DEF CreateLock, AtMostOne
<1>2. CASE LockExists(d) \/ LockHeld(d) \/ LockAbsent(d) \/ LockStale(d) \/ Start(d)
           \/ OpenStore(d) \/ Close(d) \/ Exit(d) \/ Shutdown(d)
  BY <1>2 DEF LockExists, LockHeld, LockAbsent, LockStale, Start, OpenStore, Close, Exit,
              Shutdown, AtMostOne
<1>3. CASE WritePid(d)
  <2>1. AtMostOne(lock', [by : Daemon, written : BOOLEAN])
    <3>1. CASE lock = {}
      BY <3>1, <1>3 DEF WritePid, AtMostOne
    <3>2. CASE \E x \in [by : Daemon, written : BOOLEAN] : lock = {x}
      <4>1. PICK x \in [by : Daemon, written : BOOLEAN] : lock = {x}
        BY <3>2
      <4>2. lock' = {[x EXCEPT !.written = x.written \/ x.by = d]}
        BY <4>1, <1>3 DEF WritePid
      <4>3. [x EXCEPT !.written = x.written \/ x.by = d] \in [by : Daemon, written : BOOLEAN]
        OBVIOUS
      <4> QED
        BY <4>2, <4>3 DEF AtMostOne
    <3> QED
      BY <3>1, <3>2 DEF AtMostOne
  <2> QED
    BY <2>1, <1>3 DEF WritePid, AtMostOne
<1>4. CASE RemoveStale(d) \/ CleanLock(d)
  BY <1>4 DEF RemoveStale, CleanLock, AtMostOne
<1>5. CASE UnlinkSocket(d) \/ CleanSocket(d)
  BY <1>5 DEF UnlinkSocket, CleanSocket, AtMostOne
<1>6. CASE Bind(d)
  BY <1>6 DEF Bind, AtMostOne
<1>7. CASE StartFails(d) \/ Crash(d)
  BY <1>7 DEF StartFails, Crash, AtMostOne
<1> QED
  BY <1>1, <1>2, <1>3, <1>4, <1>5, <1>6, <1>7 DEF DaemonStep

LEMMA StopTypes ==
  ASSUME Types, StopFinds \/ StopStep
  PROVE  Types' /\ UNCHANGED <<pc, clientVars>>
BY DEF Types, StopFinds, StopStep, StopUnlocks, StopUnlinks, AtMostOne, clientVars, fileVars

\* What commands do to daemons: they start them.
LEMMA ClientStepTypes ==
  ASSUME CInv, NEW c \in Client, ClientStep(c)
  PROVE  /\ CInv'
         /\ UNCHANGED <<fileVars, stop>>
         /\ pc' = pc \/ \E d \in Daemon : Goes(d, "new", "create")
<1> USE DEF CInv, Types, Moves, Counted, Executed, AtMostOne, fileVars
<1>1. CASE SocketFound(c) \/ SpawnFails(c) \/ SocketAppears(c) \/ PollEnds(c) \/ ConnectFails(c)
  BY <1>1 DEF SocketFound, SpawnFails, SocketAppears, PollEnds, ConnectFails
<1>2. CASE AutoStart(c)
  <2>1. PICK d \in Daemon : Goes(d, "new", "create")
    BY <1>2 DEF AutoStart
  <2>2. pc' \in [Daemon -> Starting \cup Holding \cup {"new", "exit", "gone"}]
    BY <2>1, GoesTypes DEF Starting
  <2>3. cpc' = [cpc EXCEPT ![c] = "poll"] /\ cpc[c] = "new"
        /\ UNCHANGED <<lock, sock, stop, server, job, runs>>
    BY <1>2 DEF AutoStart
  <2>4. Types'
    BY <2>2, <2>3
  <2>5. \A x \in Client : Counted(x)'
    BY <2>3
  <2> QED
    BY <2>1, <2>3, <2>4, <2>5
<1>3. CASE Connect(c)
  <2>1. sock \in SUBSET Daemon
    OBVIOUS
  <2> QED
    BY <1>3, <2>1 DEF Connect
<1>4. CASE ReadAnswer(c) \/ GiveUp(c)
  BY <1>4 DEF ReadAnswer, GiveUp
<1>5. CASE Direct(c)
  BY <1>5 DEF Direct
<1> QED
  BY <1>1, <1>2, <1>3, <1>4, <1>5 DEF ClientStep

LEMMA WorkTypes ==
  ASSUME CInv, NEW d \in Daemon, NEW c \in Client, Work(d, c)
  PROVE  CInv' /\ UNCHANGED <<fileVars, pc, stop>>
BY DEF CInv, Types, Counted, Executed, AtMostOne, fileVars, Work, Accept, Execute, Answer

LEMMA InitInv == Init => CInv /\ DInv
BY DEF Init, CInv, DInv, Types, AtMostOne, Counted, Executed, OwnerHasLock, StaleIsFree,
       ServerHasSocket, Owner, Starting, Holding

LEMMA StepCInv == CInv /\ [Next]_vars => CInv'
<1> SUFFICES ASSUME CInv, [Next]_vars PROVE CInv'
  OBVIOUS
<1>1. ASSUME NEW d \in Daemon, DaemonStep(d) \/ Start(d) \/ Shutdown(d) \/ Crash(d)
      PROVE  CInv'
  BY <1>1, DaemonStepTypes DEF CInv, Counted, clientVars
<1>2. ASSUME NEW d \in Daemon, NEW c \in Client, Work(d, c)
      PROVE  CInv'
  BY <1>2, WorkTypes
<1>3. ASSUME NEW c \in Client, ClientStep(c)
      PROVE  CInv'
  BY <1>3, ClientStepTypes
<1>4. CASE StopFinds \/ StopStep
  BY <1>4, StopTypes DEF CInv, Counted, clientVars
<1>5. CASE UNCHANGED vars
  BY <1>5 DEF vars, fileVars, clientVars, CInv, Types, AtMostOne, Counted
<1> QED
  BY <1>1, <1>2, <1>3, <1>4, <1>5 DEF Next

LEMMA CInvAlways == Spec => []CInv
BY InitInv, StepCInv, PTL DEF Spec

-----------------------------------------------------------------------------
\* The update of an empty lock file.
LEMMA PidWritten ==
  ASSUME NEW d, NEW a, NEW b
  PROVE  [[by |-> d, written |-> a] EXCEPT !.written = b] = [by |-> d, written |-> b]
OBVIOUS

\* Two daemons do not own the lock at once.
LEMMA OneOwner ==
  ASSUME OwnerHasLock, NEW d \in Daemon, NEW e \in Daemon,
         pc[d] \in Owner, pc[e] \in Owner
  PROVE  d = e
<1>1. [by |-> d, written |-> pc[d] # "pid"] \in {[by |-> e, written |-> pc[e] # "pid"]}
  BY DEF OwnerHasLock
<1>2. \A b, c : [by |-> d, written |-> b] = [by |-> e, written |-> c] => d = e
  OBVIOUS
<1> QED
  BY <1>1, <1>2

\* Without the race, one step of a daemon keeps lock and socket with their owner.
LEMMA DaemonStepDInv ==
  ASSUME Calm, DInv, NEW d \in Daemon,
         DaemonStep(d) \/ Start(d) \/ Shutdown(d) \/ Crash(d)
  PROVE  DInv'
<1>0. Types'
  BY DaemonStepTypes DEF DInv
<1>t. Types /\ OwnerHasLock /\ StaleIsFree /\ ServerHasSocket
  BY DEF DInv
<1> USE DEF Starting, Holding, Owner
\* Steps that change nothing but pc[d], from and to states without the lock.
<1>1. ASSUME NEW from, NEW to, Goes(d, from, to), UNCHANGED <<lock, sock, stop>>,
             to \in {"create", "check", "gone"}
      PROVE  DInv'
  <2>1. /\ pc[d] = from /\ pc'[d] = to
        /\ \A e \in Daemon : e # d => pc'[e] = pc[e]
    BY <1>1, <1>t, GoesTypes
  <2>2. OwnerHasLock'
    BY <2>1, <1>1, <1>t DEF OwnerHasLock
  <2>3. StaleIsFree'
    BY <2>1, <1>1, <1>t DEF StaleIsFree
  <2>4. ServerHasSocket'
    BY <2>1, <1>1, <1>t DEF ServerHasSocket
  <2> QED
    BY <1>0, <2>2, <2>3, <2>4 DEF DInv
\* Steps of an owner that stays one and does not serve next.
<1>2. ASSUME pc[d] \in Owner \ {"pid"}, NEW to \in Owner \ {"pid", "serve"},
             pc' = [pc EXCEPT ![d] = to],
             UNCHANGED <<lock, stop>>
      PROVE  DInv'
  <2>1. pc'[d] = to /\ \A e \in Daemon : e # d => pc'[e] = pc[e]
    BY <1>2, <1>t DEF Types
  <2>2. OwnerHasLock'
    BY <2>1, <1>2, <1>t DEF OwnerHasLock
  <2>3. StaleIsFree'
    BY <2>1, <1>2, <1>t DEF StaleIsFree
  <2>4. ServerHasSocket'
    <3>1. \A e \in Daemon : e # d => pc[e] \notin Owner
      BY <1>2, <1>t, OneOwner
    <3> QED
      BY <3>1, <2>1, <1>2 DEF ServerHasSocket
  <2> QED
    BY <1>0, <2>2, <2>3, <2>4 DEF DInv
<1>3. CASE LockExists(d) \/ LockHeld(d) \/ LockAbsent(d) \/ Start(d) \/ Exit(d)
  BY <1>3, <1>1 DEF LockExists, LockHeld, LockAbsent, Start, Exit, fileVars
<1>4. CASE OpenStore(d) \/ UnlinkSocket(d) \/ StartFails(d) \/ Shutdown(d) \/ Close(d)
           \/ CleanSocket(d)
  BY <1>4, <1>2 DEF OpenStore, UnlinkSocket, StartFails, CannotStart, Shutdown, Close,
                    CleanSocket, Goes, fileVars
<1>5. CASE Crash(d)
  <2>1. pc'[d] = "gone" /\ (\A e \in Daemon : e # d => pc'[e] = pc[e])
        /\ UNCHANGED <<lock, sock, stop>>
    BY <1>5, <1>t DEF Crash, Types, fileVars
  <2>2. OwnerHasLock' /\ ServerHasSocket'
    BY <2>1, <1>t DEF OwnerHasLock, ServerHasSocket
  <2>3. StaleIsFree'
    BY <2>1, <1>t DEF StaleIsFree
  <2> QED
    BY <1>0, <2>2, <2>3 DEF DInv
<1>6. CASE CreateLock(d)
  <2>1. /\ pc[d] = "create" /\ pc'[d] = "pid"
        /\ \A e \in Daemon : e # d => pc'[e] = pc[e]
        /\ lock = {} /\ lock' = {[by |-> d, written |-> FALSE]}
        /\ UNCHANGED <<sock, stop>>
        /\ stop = "idle" /\ \A e \in Daemon : pc[e] # "remove"
    BY <1>6, <1>t, GoesTypes DEF CreateLock, LockInReach, Calm
  <2>2. \A e \in Daemon : pc[e] \notin Owner
    BY <2>1, <1>t DEF OwnerHasLock
  <2>3. OwnerHasLock'
    BY <2>1, <2>2 DEF OwnerHasLock
  <2>4. StaleIsFree'
    BY <2>1 DEF StaleIsFree
  <2>5. ServerHasSocket'
    BY <2>1, <2>2 DEF ServerHasSocket
  <2> QED
    BY <1>0, <2>3, <2>4, <2>5 DEF DInv
<1>7. CASE WritePid(d)
  <2>1. /\ pc[d] = "pid" /\ pc'[d] = "open"
        /\ \A e \in Daemon : e # d => pc'[e] = pc[e]
        /\ UNCHANGED <<sock, stop>>
    BY <1>7, <1>t, GoesTypes DEF WritePid
  <2>2. lock = {[by |-> d, written |-> FALSE]}
    BY <2>1, <1>t DEF OwnerHasLock
  <2>3. lock' = {[by |-> d, written |-> TRUE]}
    <3> DEFINE x == [by |-> d, written |-> FALSE]
    <3>1. lock' = {[x EXCEPT !.written = x.written \/ x.by = d]}
      BY <1>7, <2>2 DEF WritePid
    <3>2. (x.written \/ x.by = d) = TRUE
      OBVIOUS
    <3>3. [x EXCEPT !.written = TRUE] = [by |-> d, written |-> TRUE]
      BY PidWritten, Zenon
    <3> HIDE DEF x
    <3>4. lock' = {[x EXCEPT !.written = TRUE]}
      BY <3>1, <3>2, Zenon
    <3> QED
      BY <3>3, <3>4
  <2>4. \A e \in Daemon : e # d => pc[e] \notin Owner
    BY <2>1, <1>t, OneOwner
  <2>5. OwnerHasLock'
    BY <2>1, <2>3, <2>4 DEF OwnerHasLock
  <2>6. StaleIsFree'
    BY <2>1, <1>t DEF StaleIsFree
  <2>7. ServerHasSocket'
    BY <2>1, <2>4 DEF ServerHasSocket
  <2> QED
    BY <1>0, <2>5, <2>6, <2>7 DEF DInv
<1>8. CASE LockStale(d)
  <2>1. /\ pc[d] = "check" /\ pc'[d] = "remove"
        /\ \A e \in Daemon : e # d => pc'[e] = pc[e]
        /\ UNCHANGED <<lock, sock, stop>>
    BY <1>8, <1>t, GoesTypes DEF LockStale, fileVars
  <2>2. \A e \in Daemon : pc[e] \notin Owner
    BY <1>8, <1>t DEF LockStale, LockStatus, OwnerHasLock, Alive
  <2>3. OwnerHasLock' /\ StaleIsFree' /\ ServerHasSocket'
    BY <2>1, <2>2 DEF OwnerHasLock, StaleIsFree, ServerHasSocket
  <2> QED
    BY <1>0, <2>3 DEF DInv
<1>9. CASE RemoveStale(d)
  <2>1. /\ pc[d] = "remove" /\ pc'[d] = "create"
        /\ \A e \in Daemon : e # d => pc'[e] = pc[e]
        /\ UNCHANGED <<sock, stop>>
    BY <1>9, <1>t, GoesTypes DEF RemoveStale
  <2>2. \A e \in Daemon : pc[e] \notin Owner
    BY <2>1, <1>t DEF StaleIsFree
  <2>3. OwnerHasLock' /\ StaleIsFree' /\ ServerHasSocket'
    BY <2>1, <2>2 DEF OwnerHasLock, StaleIsFree, ServerHasSocket
  <2> QED
    BY <1>0, <2>3 DEF DInv
<1>10. CASE Bind(d)
  <2>1. /\ pc[d] = "bind" /\ pc'[d] = "serve"
        /\ \A e \in Daemon : e # d => pc'[e] = pc[e]
        /\ sock' = {d} /\ UNCHANGED <<lock, stop>>
    BY <1>10, <1>t, GoesTypes DEF Bind
  <2>2. \A e \in Daemon : e # d => pc[e] \notin Owner
    BY <2>1, <1>t, OneOwner
  <2>3. OwnerHasLock'
    BY <2>1, <1>t DEF OwnerHasLock
  <2>4. StaleIsFree'
    BY <2>1, <1>t DEF StaleIsFree
  <2>5. ServerHasSocket'
    BY <2>1, <2>2 DEF ServerHasSocket
  <2> QED
    BY <1>0, <2>3, <2>4, <2>5 DEF DInv
<1>11. CASE CleanLock(d)
  <2>1. /\ pc[d] = "unlock" /\ pc'[d] = "exit"
        /\ \A e \in Daemon : e # d => pc'[e] = pc[e]
        /\ UNCHANGED <<sock, stop>>
    BY <1>11, <1>t, GoesTypes DEF CleanLock
  <2>2. \A e \in Daemon : e # d => pc[e] \notin Owner
    BY <2>1, <1>t, OneOwner
  <2>3. OwnerHasLock' /\ StaleIsFree' /\ ServerHasSocket'
    BY <2>1, <2>2 DEF OwnerHasLock, StaleIsFree, ServerHasSocket
  <2> QED
    BY <1>0, <2>3 DEF DInv
<1> QED
  BY <1>3, <1>4, <1>5, <1>6, <1>7, <1>8, <1>9, <1>10, <1>11 DEF DaemonStep

\* A stop that found the lock stale takes nobody's lock or socket.
LEMMA StopDInv ==
  ASSUME Calm, DInv, StopFinds \/ StopStep
  PROVE  DInv'
<1>t. Types /\ OwnerHasLock /\ StaleIsFree /\ ServerHasSocket
  BY DEF DInv
<1>1. Types' /\ pc' = pc
  BY <1>t, StopTypes
<1>2. CASE StopFinds
  <2>1. \A e \in Daemon : pc[e] \notin Owner
    BY <1>2, <1>t DEF StopFinds, LockStatus, OwnerHasLock, Alive, Owner, Holding
  <2> QED
    BY <1>1, <1>2, <2>1 DEF DInv, OwnerHasLock, StaleIsFree, ServerHasSocket, Owner, Holding
<1>3. CASE StopStep
  <2>1. stop # "idle"
    BY <1>3 DEF StopStep, StopUnlocks, StopUnlinks
  <2>2. \A e \in Daemon : pc[e] \notin Owner
    BY <2>1, <1>t DEF StaleIsFree
  <2> QED
    BY <1>1, <2>2 DEF DInv, OwnerHasLock, StaleIsFree, ServerHasSocket, Owner, Holding
<1> QED
  BY <1>2, <1>3

LEMMA StepDInv ==
  ASSUME Calm
  PROVE  CInv /\ DInv /\ [Next]_vars => DInv'
<1> SUFFICES ASSUME CInv, DInv, [Next]_vars PROVE DInv'
  OBVIOUS
<1>t. Types /\ OwnerHasLock /\ StaleIsFree /\ ServerHasSocket
  BY DEF DInv
<1>1. ASSUME NEW d \in Daemon, DaemonStep(d) \/ Start(d) \/ Shutdown(d) \/ Crash(d)
      PROVE  DInv'
  BY <1>1, DaemonStepDInv
<1>2. ASSUME NEW d \in Daemon, NEW c \in Client, Work(d, c)
      PROVE  DInv'
  <2>1. CInv' /\ UNCHANGED <<fileVars, pc, stop>>
    BY <1>2, WorkTypes
  <2> QED
    BY <2>1, <1>t DEF CInv, DInv, OwnerHasLock, StaleIsFree, ServerHasSocket, fileVars
<1>3. ASSUME NEW c \in Client, ClientStep(c)
      PROVE  DInv'
  <2>1. CInv' /\ UNCHANGED <<fileVars, stop>>
    BY <1>3, ClientStepTypes
  <2>2. CASE pc' = pc
    BY <2>1, <2>2, <1>t DEF CInv, DInv, OwnerHasLock, StaleIsFree, ServerHasSocket, fileVars
  <2>3. CASE \E d \in Daemon : Goes(d, "new", "create")
    <3>1. PICK d \in Daemon : Goes(d, "new", "create")
      BY <2>3
    <3>2. pc[d] = "new" /\ pc'[d] = "create" /\ \A e \in Daemon : e # d => pc'[e] = pc[e]
      BY <3>1, <1>t, GoesTypes DEF Starting
    <3>3. OwnerHasLock' /\ StaleIsFree' /\ ServerHasSocket'
      BY <2>1, <3>2, <1>t DEF OwnerHasLock, StaleIsFree, ServerHasSocket, fileVars, Owner, Holding
    <3> QED
      BY <2>1, <3>3 DEF CInv, DInv
  <2> QED
    BY <1>3, <2>2, <2>3, ClientStepTypes
<1>4. CASE StopFinds \/ StopStep
  BY <1>4, StopDInv
<1>5. CASE UNCHANGED vars
  BY <1>5, <1>t DEF vars, fileVars, clientVars, DInv, Types, AtMostOne, OwnerHasLock,
                    StaleIsFree, ServerHasSocket
<1> QED
  BY <1>1, <1>2, <1>3, <1>4, <1>5 DEF Next

LEMMA DInvAlways ==
  ASSUME Calm
  PROVE  Spec => []DInv
BY Calm, InitInv, CInvAlways, StepDInv, PTL DEF Spec

-----------------------------------------------------------------------------
(***************************************************************************)
(* The files have at most one content, and a command is executed at most   *)
(* twice, by a daemon and by itself, even with the lock race.              *)
(***************************************************************************)
THEOREM TypeCorrect == Spec => []TypeOK
BY CInvAlways, CInvGivesTypes, PTL

(***************************************************************************)
(* A command that has ended has been executed, whatever becomes of the     *)
(* daemons, even with the lock race.                                       *)
(***************************************************************************)
THEOREM CommandAlwaysRuns == Spec => []CommandRuns
<1>1. CInv => CommandRuns
  BY DEF CInv, Types, Counted, CommandRuns
<1> QED
  BY <1>1, CInvAlways, PTL

(***************************************************************************)
(* INV-DAEMON-001 for any number of daemons that start, fail, crash, shut  *)
(* down and are stopped, when a stale lock is removed undisturbed.         *)
(***************************************************************************)
THEOREM AtMostOneDaemon ==
  ASSUME Calm
  PROVE  Spec => []OneDaemon
<1>1. DInv => OneDaemon
  <2> SUFFICES ASSUME DInv PROVE OneDaemon
    OBVIOUS
  <2> DEFINE S == {d \in Daemon : pc[d] \in Holding}
  <2>1. \A d, e \in S : d = e
    BY OneOwner DEF DInv, Owner
  <2>2. AtMostOne(S, Daemon)
    BY <2>1 DEF AtMostOne
  <2> QED
    BY <2>2, AtMostOneCardinality DEF OneDaemon
<1> QED
  BY <1>1, DInvAlways, PTL

(***************************************************************************)
(* Lock and socket lead to the daemon that serves, under the same          *)
(* hypothesis: nobody's start, failure, stop or clean-up cuts it off.      *)
(***************************************************************************)
THEOREM ServingStaysReachable ==
  ASSUME Calm
  PROVE  Spec => []ServingIsReachable
<1>1. DInv => ServingIsReachable
  BY DEF DInv, OwnerHasLock, ServerHasSocket, ServingIsReachable, Owner, Holding
<1> QED
  BY <1>1, DInvAlways, PTL
===============================================================================
