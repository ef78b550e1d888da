-------------------------------- MODULE Tasks --------------------------------
(***************************************************************************)
(* Tasks of braid (braid-kernel/src/task.rs, braid/src/commands/task.rs):  *)
(* several processes create tasks, move their status and add dependencies, *)
(* each on the store it has loaded, and `braid merge` copies transactions  *)
(* from one directory to another.                                          *)
(*                                                                         *)
(* A transaction is what a command writes into one file: the tasks it      *)
(* creates, the statuses and the dependencies it asserts.  A status is     *)
(* resolved by the join of the lattice Open < InProgress < Closed, so the  *)
(* ids of the transactions do not matter here.  Type and stage of a task   *)
(* are fixed; its other attributes are left out.                           *)
(***************************************************************************)
EXTENDS Naturals

CONSTANTS Task,      \* tasks, by content
          Epic,      \* those of type epic
          Staged,    \* those at or below the project's current stage
          Imports,   \* the lists of tasks, with their statuses, that can be imported
          Process,   \* commands and daemons
          Dir,       \* braid directories
          Nowhere,   \* the directory of a process that has opened none
          MaxWrites  \* bounds on the transactions of each kind written

Open == 0
InProgress == 1
Closed == 2
Status == {Open, InProgress, Closed}

ASSUME TasksAssumption ==
  /\ Epic \subseteq Task
  /\ Staged \subseteq Task
  /\ Imports \subseteq UNION {[T -> Status] : T \in SUBSET Task}
  /\ Nowhere \notin Dir
  /\ MaxWrites \in [{"create", "status", "depend"} -> Nat]

VARIABLES files,   \* files[d]: the transactions in the directory d
          at,      \* at[p]: the directory p has opened
          loaded,  \* loaded[p]: the transactions of its store
          blind,   \* dependencies added on a store that lacked another one
          writes   \* number of transactions written

vars == <<files, at, loaded, blind, writes>>

-----------------------------------------------------------------------------
Tx == [created : SUBSET Task, status : SUBSET (Task \X Status), depends : SUBSET (Task \X Task)]

\* All tasks that have an id in the transactions V.
AllTasks(V) == UNION {x.created : x \in V}

Asserted(V, t) == {s \in Status : \E x \in V : <<t, s>> \in x.status}

\* The join of all statuses asserted for t; a created task has one.
ResolveStatus(V, t) == CHOOSE s \in Asserted(V, t) : \A r \in Asserted(V, t) : r <= s

Unfinished(V) == {t \in AllTasks(V) : ResolveStatus(V, t) # Closed}

DependsOn(V) == UNION {x.depends : x \in V}

\* Mutant of Blocks: a closed dependency still counts.
BlocksClosed(V, u) == u \in AllTasks(V) \ Epic

\* A dependency holds its task back unless it is closed, unknown or an epic.
Blocks(V, u) == u \in Unfinished(V) \ Epic

ReadySet(V) ==
  {t \in AllTasks(V) \cap Staged :
     /\ ResolveStatus(V, t) = Open
     /\ \A u \in Task : <<t, u>> \in DependsOn(V) => ~Blocks(V, u)}

ClosedUnder(E, S) == \A e \in E : e[1] \in S => e[2] \in S

\* What the breadth-first search from x visits along the edges E.
Visited(E, x) ==
  {y \in Task : \A S \in SUBSET Task : x \in S /\ ClosedUnder(E, S) => y \in S}

\* Mutant of DependencyAllowed: the search runs in the wrong direction.
DependencyAllowedAcross(V, from, to) ==
  /\ from # to
  /\ to \notin Visited(DependsOn(V), from)

\* check_dependency_acyclicity: the search runs over the proposed edge, too.
DependencyAllowed(V, from, to) ==
  /\ from # to
  /\ from \notin Visited(DependsOn(V) \cup {<<from, to>>}, to)

-----------------------------------------------------------------------------
Init ==
  /\ files = [d \in Dir |-> {}]
  /\ at = [p \in Process |-> Nowhere]
  /\ loaded = [p \in Process |-> {}]
  /\ blind = {}
  /\ writes = [kind \in DOMAIN MaxWrites |-> 0]

\* A process opens its directory.
OpenStore(p, d) ==
  /\ at[p] = Nowhere
  /\ at' = [at EXCEPT ![p] = d]
  /\ loaded' = [loaded EXCEPT ![p] = files[d]]
  /\ UNCHANGED <<files, blind, writes>>

\* One file of a daemon's refresh, which may overlook others.
Refresh(p) ==
  /\ at[p] # Nowhere
  /\ \E x \in files[at[p]] \ loaded[p] : loaded' = [loaded EXCEPT ![p] = @ \cup {x}]
  /\ UNCHANGED <<files, at, blind, writes>>

\* Mutant of WriteTx: the writer saves the whole store it has.
WriteTxSaves(p, kind, x) ==
  /\ at[p] # Nowhere
  /\ writes[kind] < MaxWrites[kind]
  /\ writes' = [writes EXCEPT ![kind] = @ + 1]
  /\ loaded' = [loaded EXCEPT ![p] = @ \cup {x}]
  /\ files' = [files EXCEPT ![at[p]] = loaded[p] \cup {x}]
  /\ UNCHANGED at

\* write_tx: the transaction becomes a file and enters the writer's store.
WriteTx(p, kind, x) ==
  /\ at[p] # Nowhere
  /\ writes[kind] < MaxWrites[kind]
  /\ writes' = [writes EXCEPT ![kind] = @ + 1]
  /\ files' = [files EXCEPT ![at[p]] = @ \cup {x}]
  /\ loaded' = [loaded EXCEPT ![p] = @ \cup {x}]
  /\ UNCHANGED at

\* The tasks in status are created open, and some then get a later status.
CreateAll(p, status) ==
  /\ WriteTx(p, "create",
       [created |-> DOMAIN status,
        status |-> (DOMAIN status) \X {Open} \cup {<<t, status[t]>> : t \in DOMAIN status},
        depends |-> {}])
  /\ UNCHANGED blind

\* `task create`.
Create(p, t) ==
  /\ t \notin AllTasks(loaded[p])
  /\ CreateAll(p, [u \in {t} |-> Open])

\* `task import`: the tasks of the list that the store does not have.
Import(p, list) ==
  LET new == DOMAIN list \ AllTasks(loaded[p]) IN
  /\ new # {}
  /\ CreateAll(p, [t \in new |-> list[t]])

\* Mutant of Update: the next status.
UpdateNext(p, t, s) ==
  /\ t \in AllTasks(loaded[p])
  /\ WriteTx(p, "status", [created |-> {}, status |-> {<<t, s + 1>>}, depends |-> {}])
  /\ UNCHANGED blind

\* `task update` and `task set status`: any status, also a lower one.
Update(p, t, s) ==
  /\ t \in AllTasks(loaded[p])
  /\ WriteTx(p, "status", [created |-> {}, status |-> {<<t, s>>}, depends |-> {}])
  /\ UNCHANGED blind

\* `task close`: the tasks of the batch whose verification passed.
Close(p, T) ==
  /\ T \subseteq AllTasks(loaded[p])
  /\ WriteTx(p, "status", [created |-> {}, status |-> T \X {Closed}, depends |-> {}])
  /\ UNCHANGED blind

\* Every dependency there is, in whatever directory.
AllDepends == UNION {DependsOn(files[d]) : d \in Dir}

\* `task dep add`.
DepAdd(p, from, to) ==
  /\ {from, to} \subseteq AllTasks(loaded[p])
  /\ DependencyAllowed(loaded[p], from, to)
  /\ WriteTx(p, "depend", [created |-> {}, status |-> {}, depends |-> {<<from, to>>}])
  /\ blind' = IF AllDepends \subseteq DependsOn(loaded[p]) THEN blind
              ELSE blind \cup {<<from, to>>}

\* One file of `braid merge`; the listing has no particular order.
CopyFile(d, e) ==
  \E x \in files[d] \ files[e] :
    /\ files' = [files EXCEPT ![e] = @ \cup {x}]
    /\ UNCHANGED <<at, loaded, blind, writes>>

Next ==
  \/ \E p \in Process :
       \/ \E d \in Dir : OpenStore(p, d)
       \/ Refresh(p)
       \/ \E t \in Task : Create(p, t)
       \/ \E list \in Imports : Import(p, list)
       \/ \E t \in Task, s \in Status : Update(p, t, s)
       \/ \E T \in (SUBSET Task) \ {{}} : Close(p, T)
       \/ \E t, u \in Task : DepAdd(p, t, u)
  \/ \E d, e \in Dir : CopyFile(d, e)

Spec == Init /\ [][Next]_vars

-----------------------------------------------------------------------------
\* Types: every transaction is one of Tx, blind dependencies are between tasks.
TypeOK ==
  /\ files \in [Dir -> SUBSET Tx]
  /\ at \in [Process -> Dir \cup {Nowhere}]
  /\ loaded \in [Process -> SUBSET Tx]
  /\ blind \subseteq Task \X Task
  /\ writes \in [DOMAIN MaxWrites -> Nat]

\* Every set of tasks has one that depends on no other of them.
Acyclic(E) == \A S \in (SUBSET Task) \ {{}} : \E t \in S : \A u \in S : <<t, u>> \notin E

(***************************************************************************)
(* INV-TASK-002 as far as it holds: check_dependency_acyclicity looks at   *)
(* one store, so a cycle through several commands, processes or merged     *)
(* directories needs a dependency that was added without knowledge of      *)
(* another one.                                                            *)
(***************************************************************************)
CyclesAreBlind == Acyclic(AllDepends \ blind)

(***************************************************************************)
(* compute_ready_set never starves the agents: as long as no dependency    *)
(* was added blindly, a store with unfinished tasks, none of a later       *)
(* stage, has a ready task or one in progress.                             *)
(***************************************************************************)
SomethingToDo ==
  \A p \in Process :
    LET V == loaded[p] IN
    (blind = {} /\ Unfinished(V) # {} /\ Unfinished(V) \subseteq Staged)
      => \/ ReadySet(V) # {}
         \/ \E t \in AllTasks(V) : ResolveStatus(V, t) = InProgress

(***************************************************************************)
(* INV-TASK-001: whatever is written to a directory or merged into it, the *)
(* status a task has there never goes back; a closed task stays closed.    *)
(***************************************************************************)
StatusNeverDecreases ==
  [][\A d \in Dir : \A t \in AllTasks(files[d]) :
       /\ t \in AllTasks(files[d]')
       /\ ResolveStatus(files[d], t) <= ResolveStatus(files[d]', t)]_vars
==============================================================================
