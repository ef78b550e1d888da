----------------------------- MODULE TasksProofs -----------------------------
(***************************************************************************)
(* Theorems about Tasks, for any number of tasks, processes, directories   *)
(* and writes.                                                             *)
(***************************************************************************)
EXTENDS Tasks, TLAPS

-----------------------------------------------------------------------------
(* The search of check_dependency_acyclicity and acyclic relations.        *)

\* The search visits where it starts.
LEMMA VisitedStart ==
  ASSUME NEW E, NEW x \in Task
  PROVE  x \in Visited(E, x)
BY DEF Visited

\* The search follows every edge.
LEMMA VisitedClosed ==
  ASSUME NEW E \in SUBSET (Task \X Task), NEW x \in Task
  PROVE  ClosedUnder(E, Visited(E, x))
<1> SUFFICES ASSUME NEW e \in E, e[1] \in Visited(E, x)
             PROVE  e[2] \in Visited(E, x)
  BY DEF ClosedUnder
<1>1. e[2] \in Task
  OBVIOUS
<1>2. ASSUME NEW S \in SUBSET Task, x \in S, ClosedUnder(E, S)
      PROVE  e[2] \in S
  <2>1. e[1] \in S
    BY <1>2 DEF Visited
  <2> QED
    BY <2>1, <1>2 DEF ClosedUnder
<1> QED
  BY <1>1, <1>2 DEF Visited

\* A part of an acyclic relation is acyclic.
LEMMA AcyclicPart ==
  ASSUME NEW E, NEW F, E \subseteq F, Acyclic(F)
  PROVE  Acyclic(E)
BY DEF Acyclic

\* An edge whose start the search from its end did not meet closes no cycle,
\* even if the search ran over more edges than there are.
LEMMA AcyclicExtended ==
  ASSUME NEW E, Acyclic(E),
         NEW G \in SUBSET (Task \X Task),
         NEW from \in Task, NEW to \in Task,
         E \cup {<<from, to>>} \subseteq G,
         from \notin Visited(G, to)
  PROVE  Acyclic(E \cup {<<from, to>>})
<1> DEFINE C == Visited(G, to)
<1>1. to \in C /\ ClosedUnder(G, C) /\ from \notin C
  BY VisitedStart, VisitedClosed
<1> SUFFICES ASSUME NEW S \in SUBSET Task, S # {}
             PROVE  \E t \in S : \A u \in S : <<t, u>> \notin E \cup {<<from, to>>}
  BY DEF Acyclic
<1> HIDE DEF C
<1>2. CASE S \cap C = {}
  <2>1. PICK t \in S : \A u \in S : <<t, u>> \notin E
    BY DEF Acyclic
  <2>2. \A u \in S : <<t, u>> # <<from, to>>
    BY <1>1, <1>2
  <2> QED
    BY <2>1, <2>2
<1>3. CASE S \cap C # {}
  <2>1. PICK t \in S \cap C : \A u \in S \cap C : <<t, u>> \notin E
    BY <1>3 DEF Acyclic
  <2>2. ASSUME NEW u \in S, <<t, u>> \in E \cup {<<from, to>>}
        PROVE  FALSE
    <3>1. <<t, u>> \in G
      BY <2>2
    <3>2. u \in C
      BY <3>1, <1>1 DEF ClosedUnder
    <3>3. <<t, u>> # <<from, to>>
      BY <2>1, <1>1
    <3> QED
      BY <3>2, <3>3, <2>1, <2>2
  <2> QED
    BY <2>1, <2>2
<1> QED
  BY <1>2, <1>3

-----------------------------------------------------------------------------
(* The join of the statuses.                                               *)

\* A task with a status has a greatest one, and that is its resolution.
LEMMA ResolveStatusIsJoin ==
  ASSUME NEW V, NEW t, Asserted(V, t) # {}
  PROVE  /\ ResolveStatus(V, t) \in Asserted(V, t)
         /\ \A r \in Asserted(V, t) : r <= ResolveStatus(V, t)
<1>1. Asserted(V, t) \subseteq {0, 1, 2}
  BY DEF Asserted, Status, Open, InProgress, Closed
<1>2. \E s \in Asserted(V, t) : \A r \in Asserted(V, t) : r <= s
  <2>1. CASE 2 \in Asserted(V, t)
    BY <1>1, <2>1
  <2>2. CASE 2 \notin Asserted(V, t) /\ 1 \in Asserted(V, t)
    BY <1>1, <2>2
  <2>3. CASE 2 \notin Asserted(V, t) /\ 1 \notin Asserted(V, t)
    BY <1>1, <2>3
  <2> QED
    BY <2>1, <2>2, <2>3
<1> QED
  BY <1>2 DEF ResolveStatus

\* More transactions, a later status.
LEMMA ResolveStatusGrows ==
  ASSUME NEW V, NEW W, V \subseteq W, NEW t, Asserted(V, t) # {}
  PROVE  ResolveStatus(V, t) <= ResolveStatus(W, t)
<1>1. Asserted(V, t) \subseteq Asserted(W, t)
  BY DEF Asserted
<1> QED
  BY <1>1, ResolveStatusIsJoin

-----------------------------------------------------------------------------
(* The invariant.                                                          *)

\* A store holds nothing that its directory does not hold.
LoadedIsStored ==
  \A p \in Process : /\ at[p] = Nowhere => loaded[p] = {}
                     /\ at[p] # Nowhere => loaded[p] \subseteq files[at[p]]

\* Whoever creates a task gives it a status.
CreatedHasStatus ==
  \A d \in Dir : \A x \in files[d] : \A t \in x.created :
     \E s \in Status : <<t, s>> \in x.status

IInv == TypeOK /\ LoadedIsStored /\ CreatedHasStatus

\* What a write does, whatever it writes.
LEMMA WriteKeepsIInv ==
  ASSUME IInv, NEW p \in Process, NEW kind \in DOMAIN MaxWrites, NEW x \in Tx,
         WriteTx(p, kind, x),
         \A t \in x.created : \E s \in Status : <<t, s>> \in x.status
  PROVE  /\ files' \in [Dir -> SUBSET Tx]
         /\ at' \in [Process -> Dir \cup {Nowhere}]
         /\ loaded' \in [Process -> SUBSET Tx]
         /\ writes' \in [DOMAIN MaxWrites -> Nat]
         /\ LoadedIsStored'
         /\ CreatedHasStatus'
         /\ at[p] \in Dir
<1> USE DEF IInv, TypeOK
<1>1. at[p] \in Dir
  BY DEF WriteTx
<1>2. /\ files' \in [Dir -> SUBSET Tx]
      /\ at' \in [Process -> Dir \cup {Nowhere}]
      /\ loaded' \in [Process -> SUBSET Tx]
  BY <1>1 DEF WriteTx
<1>3. writes' \in [DOMAIN MaxWrites -> Nat]
  BY DEF WriteTx
<1>4. LoadedIsStored'
  BY <1>1 DEF WriteTx, LoadedIsStored
<1>5. CreatedHasStatus'
  BY <1>1 DEF WriteTx, CreatedHasStatus
<1> QED
  BY <1>1, <1>2, <1>3, <1>4, <1>5

LEMMA IInvInit == Init => IInv
BY TasksAssumption DEF Init, IInv, TypeOK, LoadedIsStored, CreatedHasStatus

\* What a creation writes is a transaction.
LEMMA CreatedTyped ==
  ASSUME NEW T \in SUBSET Task, NEW status \in [T -> Status]
  PROVE  [created |-> DOMAIN status,
          status |-> (DOMAIN status) \X {Open} \cup {<<t, status[t]>> : t \in DOMAIN status},
          depends |-> {}] \in Tx
<1>1. (DOMAIN status) \X {Open} \subseteq Task \X Status
  BY DEF Status
<1>2. {<<t, status[t]>> : t \in DOMAIN status} \subseteq Task \X Status
  OBVIOUS
<1> QED
  BY <1>1, <1>2 DEF Tx

\* The creation of the tasks of a list, for task create and task import.
LEMMA CreateKeepsIInv ==
  ASSUME IInv, NEW p \in Process, NEW T \in SUBSET Task, NEW status \in [T -> Status],
         CreateAll(p, status)
  PROVE  IInv'
<1> DEFINE x == [created |-> DOMAIN status,
                 status |-> (DOMAIN status) \X {Open} \cup {<<t, status[t]>> : t \in DOMAIN status},
                 depends |-> {}]
<1>1. WriteTx(p, "create", x) /\ blind' = blind
  BY DEF CreateAll
<1>2. x \in Tx
  BY CreatedTyped
<1>3. \A t \in x.created : \E s \in Status : <<t, s>> \in x.status
  BY DEF Status
<1>4. "create" \in DOMAIN MaxWrites
  BY TasksAssumption
<1> HIDE DEF x
<1> QED
  BY <1>1, <1>2, <1>3, <1>4, WriteKeepsIInv DEF IInv, TypeOK

LEMMA IInvNext == IInv /\ [Next]_vars => IInv'
<1> SUFFICES ASSUME IInv, [Next]_vars
             PROVE  IInv'
  OBVIOUS
<1>1. ASSUME NEW p \in Process, NEW d \in Dir, OpenStore(p, d)
      PROVE  IInv'
  BY <1>1, TasksAssumption DEF OpenStore, IInv, TypeOK, LoadedIsStored, CreatedHasStatus
<1>9. ASSUME NEW p \in Process, Refresh(p)
      PROVE  IInv'
  BY <1>9 DEF Refresh, IInv, TypeOK, LoadedIsStored, CreatedHasStatus
<1>2. ASSUME NEW p \in Process, NEW t \in Task, Create(p, t)
      PROVE  IInv'
  <2>1. [u \in {t} |-> Open] \in [{t} -> Status]
    BY DEF Status
  <2> QED
    BY <2>1, <1>2, CreateKeepsIInv DEF Create
<1>3. ASSUME NEW p \in Process, NEW list \in Imports, Import(p, list)
      PROVE  IInv'
  <2> DEFINE new == DOMAIN list \ AllTasks(loaded[p])
  <2>1. PICK T \in SUBSET Task : list \in [T -> Status]
    BY TasksAssumption
  <2>2. [t \in new |-> list[t]] \in [new -> Status] /\ new \in SUBSET Task
    BY <2>1
  <2>3. CreateAll(p, [t \in new |-> list[t]])
    BY <1>3 DEF Import
  <2> HIDE DEF new
  <2> QED
    BY <2>2, <2>3, CreateKeepsIInv
<1>4. ASSUME NEW p \in Process, NEW t \in Task, NEW s \in Status, Update(p, t, s)
      PROVE  IInv'
  <2>1. [created |-> {}, status |-> {<<t, s>>}, depends |-> {}] \in Tx
    BY DEF Tx
  <2>2. "status" \in DOMAIN MaxWrites
    BY TasksAssumption
  <2> QED
    BY <2>1, <2>2, <1>4, WriteKeepsIInv DEF Update, IInv, TypeOK
<1>5. ASSUME NEW p \in Process, NEW T \in SUBSET Task, Close(p, T)
      PROVE  IInv'
  <2>1. [created |-> {}, status |-> T \X {Closed}, depends |-> {}] \in Tx
    BY DEF Tx, Status
  <2>2. "status" \in DOMAIN MaxWrites
    BY TasksAssumption
  <2> QED
    BY <2>1, <2>2, <1>5, WriteKeepsIInv DEF Close, IInv, TypeOK
<1>6. ASSUME NEW p \in Process, NEW t \in Task, NEW u \in Task, DepAdd(p, t, u)
      PROVE  IInv'
  <2>1. [created |-> {}, status |-> {}, depends |-> {<<t, u>>}] \in Tx
    BY DEF Tx
  <2>2. "depend" \in DOMAIN MaxWrites
    BY TasksAssumption
  <2>3. blind' \subseteq Task \X Task
    BY <1>6 DEF DepAdd, IInv, TypeOK
  <2> QED
    BY <2>1, <2>2, <2>3, <1>6, WriteKeepsIInv DEF DepAdd, IInv, TypeOK
<1>7. ASSUME NEW d \in Dir, NEW e \in Dir, CopyFile(d, e)
      PROVE  IInv'
  BY <1>7 DEF CopyFile, IInv, TypeOK, LoadedIsStored, CreatedHasStatus
<1>8. CASE UNCHANGED vars
  BY <1>8 DEF vars, IInv, TypeOK, LoadedIsStored, CreatedHasStatus
<1> QED
  BY <1>1, <1>2, <1>3, <1>4, <1>5, <1>6, <1>7, <1>8, <1>9 DEF Next

\* Types, and what a store holds, at every moment.
LEMMA IInvAlways == Spec => []IInv
BY IInvInit, IInvNext, PTL DEF Spec

(***************************************************************************)
(* Type correctness of Tasks.                                              *)
(***************************************************************************)
THEOREM TypeCorrect == Spec => []TypeOK
<1>1. IInv => TypeOK
  BY DEF IInv
<1> QED
  BY <1>1, IInvAlways, PTL

-----------------------------------------------------------------------------
(* Acyclicity.                                                             *)

DepInv == IInv /\ CyclesAreBlind

\* A dependency of a store is one of its directory.
LEMMA DependsLoadedStored ==
  ASSUME IInv, NEW p \in Process
  PROVE  DependsOn(loaded[p]) \subseteq AllDepends
<1>1. at[p] = Nowhere => DependsOn(loaded[p]) = {}
  BY DEF IInv, LoadedIsStored, DependsOn
<1>2. at[p] # Nowhere => at[p] \in Dir /\ loaded[p] \subseteq files[at[p]]
  BY DEF IInv, LoadedIsStored, TypeOK
<1>3. at[p] # Nowhere => DependsOn(loaded[p]) \subseteq DependsOn(files[at[p]])
  BY <1>2 DEF DependsOn
<1> QED
  BY <1>1, <1>2, <1>3 DEF AllDepends

\* A write adds its own dependencies and no others.
LEMMA WriteAddsDepends ==
  ASSUME IInv, NEW p \in Process, NEW kind, NEW x \in Tx, WriteTx(p, kind, x)
  PROVE  AllDepends' = AllDepends \cup x.depends
<1>1. at[p] \in Dir
  BY DEF WriteTx, IInv, TypeOK
<1>2. \A d \in Dir : files'[d] = IF d = at[p] THEN files[d] \cup {x} ELSE files[d]
  BY <1>1 DEF WriteTx, IInv, TypeOK
<1>3. DependsOn(files[at[p]] \cup {x}) = DependsOn(files[at[p]]) \cup x.depends
  BY DEF DependsOn
<1>4. \A d \in Dir : DependsOn(files'[d]) = IF d = at[p] THEN DependsOn(files[d]) \cup x.depends
                                                       ELSE DependsOn(files[d])
  BY <1>2, <1>3
<1>5. AllDepends' = UNION {DependsOn(files'[d]) : d \in Dir}
  BY DEF AllDepends, DependsOn
<1>6. ASSUME NEW e
      PROVE  e \in AllDepends' <=> e \in AllDepends \cup x.depends
  <2>1. e \in AllDepends' <=> \E d \in Dir : e \in DependsOn(files'[d])
    BY <1>5
  <2>2. e \in AllDepends <=> \E d \in Dir : e \in DependsOn(files[d])
    BY DEF AllDepends
  <2> QED
    BY <2>1, <2>2, <1>1, <1>4
<1> QED
  BY <1>6

LEMMA DependsTyped ==
  ASSUME IInv
  PROVE  /\ AllDepends \subseteq Task \X Task
         /\ \A p \in Process : DependsOn(loaded[p]) \subseteq Task \X Task
BY DEF IInv, TypeOK, AllDepends, DependsOn, Tx

\* A step that adds no dependency.
LEMMA SameDependsKeepsAcyclic ==
  ASSUME CyclesAreBlind, AllDepends' \subseteq AllDepends, blind' = blind
  PROVE  CyclesAreBlind'
<1>1. AllDepends' \ blind' \subseteq AllDepends \ blind
  OBVIOUS
<1>2. Acyclic(AllDepends' \ blind')
  BY <1>1, AcyclicPart DEF CyclesAreBlind
<1> QED
  BY <1>2 DEF CyclesAreBlind, Acyclic

LEMMA DepInvNext == DepInv /\ [Next]_vars => DepInv'
<1> SUFFICES ASSUME DepInv, [Next]_vars
             PROVE  CyclesAreBlind'
  BY IInvNext DEF DepInv
<1> USE DEF DepInv
<1>1. ASSUME NEW p \in Process, NEW d \in Dir, OpenStore(p, d)
      PROVE  CyclesAreBlind'
  BY <1>1, SameDependsKeepsAcyclic DEF OpenStore, AllDepends
<1>11. ASSUME NEW p \in Process, Refresh(p)
      PROVE  CyclesAreBlind'
  BY <1>11, SameDependsKeepsAcyclic DEF Refresh, AllDepends
<1>2. ASSUME NEW p \in Process, NEW kind, NEW x \in Tx, WriteTx(p, kind, x),
             x.depends = {}, blind' = blind
      PROVE  CyclesAreBlind'
  BY <1>2, WriteAddsDepends, SameDependsKeepsAcyclic
<1>3. ASSUME NEW p \in Process, NEW T \in SUBSET Task, NEW status \in [T -> Status],
             CreateAll(p, status)
      PROVE  CyclesAreBlind'
  <2> DEFINE x == [created |-> DOMAIN status,
                   status |-> (DOMAIN status) \X {Open} \cup {<<t, status[t]>> : t \in DOMAIN status},
                   depends |-> {}]
  <2>1. WriteTx(p, "create", x) /\ blind' = blind /\ x.depends = {}
    BY <1>3 DEF CreateAll
  <2>2. x \in Tx
    BY CreatedTyped
  <2> HIDE DEF x
  <2> QED
    BY <2>1, <2>2, <1>2
<1>4. ASSUME NEW p \in Process, NEW t \in Task, Create(p, t)
      PROVE  CyclesAreBlind'
  <2>1. [u \in {t} |-> Open] \in [{t} -> Status]
    BY DEF Status
  <2> QED
    BY <2>1, <1>3, <1>4 DEF Create
<1>5. ASSUME NEW p \in Process, NEW list \in Imports, Import(p, list)
      PROVE  CyclesAreBlind'
  <2> DEFINE new == DOMAIN list \ AllTasks(loaded[p])
  <2>1. PICK T \in SUBSET Task : list \in [T -> Status]
    BY TasksAssumption
  <2>2. [t \in new |-> list[t]] \in [new -> Status] /\ new \in SUBSET Task
    BY <2>1
  <2>3. CreateAll(p, [t \in new |-> list[t]])
    BY <1>5 DEF Import
  <2> HIDE DEF new
  <2> QED
    BY <2>2, <2>3, <1>3
<1>6. ASSUME NEW p \in Process, NEW t \in Task, NEW s \in Status, Update(p, t, s)
      PROVE  CyclesAreBlind'
  <2>1. [created |-> {}, status |-> {<<t, s>>}, depends |-> {}] \in Tx
    BY DEF Tx
  <2> QED
    BY <2>1, <1>2, <1>6 DEF Update
<1>7. ASSUME NEW p \in Process, NEW T \in SUBSET Task, Close(p, T)
      PROVE  CyclesAreBlind'
  <2>1. [created |-> {}, status |-> T \X {Closed}, depends |-> {}] \in Tx
    BY DEF Tx, Status
  <2> QED
    BY <2>1, <1>2, <1>7 DEF Close
<1>8. ASSUME NEW p \in Process, NEW t \in Task, NEW u \in Task, DepAdd(p, t, u)
      PROVE  CyclesAreBlind'
  <2> DEFINE known == DependsOn(loaded[p])
             E == AllDepends \ blind
             e == <<t, u>>
  <2>1. [created |-> {}, status |-> {}, depends |-> {e}] \in Tx
    BY DEF Tx
  <2>2. AllDepends' = AllDepends \cup {e}
    BY <2>1, <1>8, WriteAddsDepends DEF DepAdd
  <2>3. t \notin Visited(known \cup {e}, u)
    BY <1>8 DEF DepAdd, DependencyAllowed
  <2>4. CASE AllDepends \subseteq known
    <3>1. E \cup {e} \subseteq known \cup {e}
      BY <2>4
    <3>2. known \cup {e} \in SUBSET (Task \X Task)
      BY DependsTyped
    <3>3. Acyclic(E)
      BY DEF CyclesAreBlind
    <3> HIDE DEF E, known
    <3>4. Acyclic(E \cup {e})
      BY <2>3, <3>1, <3>2, <3>3, AcyclicExtended
    <3>5. AllDepends' \ blind' \subseteq E \cup {e}
      BY <2>2, <2>4, <1>8 DEF DepAdd, E, known
    <3>6. Acyclic(AllDepends' \ blind')
      BY <3>4, <3>5, AcyclicPart
    <3> QED
      BY <3>6 DEF CyclesAreBlind, Acyclic
  <2>5. CASE ~(AllDepends \subseteq known)
    <3>1. blind' = blind \cup {e}
      BY <2>5, <1>8 DEF DepAdd
    <3>2. AllDepends' \ blind' \subseteq E
      BY <3>1, <2>2
    <3>3. Acyclic(AllDepends' \ blind')
      BY <3>2, AcyclicPart DEF CyclesAreBlind
    <3> QED
      BY <3>3 DEF CyclesAreBlind, Acyclic
  <2> QED
    BY <2>4, <2>5
<1>9. ASSUME NEW d \in Dir, NEW e \in Dir, CopyFile(d, e)
      PROVE  CyclesAreBlind'
  <2>1. PICK x \in files[d] : files' = [files EXCEPT ![e] = @ \cup {x}]
    BY <1>9 DEF CopyFile
  <2>2. files'[e] = files[e] \cup {x} /\ \A f \in Dir \ {e} : files'[f] = files[f]
    BY <2>1 DEF IInv, TypeOK
  <2>3. AllDepends' \subseteq AllDepends
    BY <2>2 DEF AllDepends, DependsOn
  <2> QED
    BY <2>3, <1>9, SameDependsKeepsAcyclic DEF CopyFile
<1>10. CASE UNCHANGED vars
  BY <1>10, SameDependsKeepsAcyclic DEF vars, AllDepends
<1> QED
  BY <1>1, <1>4, <1>5, <1>6, <1>7, <1>8, <1>9, <1>10, <1>11 DEF Next

\* Without a file there is no dependency.
LEMMA DepInvInit == Init => DepInv
<1> SUFFICES ASSUME Init PROVE CyclesAreBlind
  BY IInvInit DEF DepInv
<1>1. AllDepends = {}
  BY DEF Init, AllDepends, DependsOn
<1> QED
  BY <1>1 DEF CyclesAreBlind, Acyclic

LEMMA DepInvAlways == Spec => []DepInv
BY DepInvInit, DepInvNext, PTL DEF Spec

(***************************************************************************)
(* INV-TASK-002 as far as it holds, for any number of tasks, processes and *)
(* merges: every cycle of dependencies goes through one that was added on  *)
(* a store lacking another one.                                            *)
(***************************************************************************)
THEOREM CyclesAreAlwaysBlind == Spec => []CyclesAreBlind
<1>1. DepInv => CyclesAreBlind
  BY DEF DepInv
<1> QED
  BY <1>1, DepInvAlways, PTL

-----------------------------------------------------------------------------
(* The ready set.                                                          *)

\* A created task of a store has a status.
LEMMA LoadedHasStatus ==
  ASSUME IInv, NEW p \in Process, NEW t \in AllTasks(loaded[p])
  PROVE  t \in Task /\ Asserted(loaded[p], t) # {}
<1>1. PICK x \in loaded[p] : t \in x.created
  BY DEF AllTasks
<1>2. at[p] \in Dir /\ x \in files[at[p]]
  BY <1>1 DEF IInv, LoadedIsStored, TypeOK
<1>3. \E s \in Status : <<t, s>> \in x.status
  BY <1>1, <1>2 DEF IInv, CreatedHasStatus
<1>4. x \in Tx
  BY <1>1 DEF IInv, TypeOK
<1> QED
  BY <1>1, <1>3, <1>4 DEF Asserted, Tx

\* A first task of an acyclic set of unfinished ones is ready or in progress.
LEMMA FirstIsReady == DepInv => SomethingToDo
<1> SUFFICES ASSUME DepInv, NEW p \in Process, blind = {},
                    Unfinished(loaded[p]) # {}, Unfinished(loaded[p]) \subseteq Staged
             PROVE  \/ ReadySet(loaded[p]) # {}
                    \/ \E t \in AllTasks(loaded[p]) :
                         ResolveStatus(loaded[p], t) = InProgress
  BY DEF SomethingToDo
<1> DEFINE V == loaded[p]
           U == Unfinished(V)
<1>1. Acyclic(DependsOn(V))
  <2>1. DependsOn(V) \subseteq AllDepends \ blind
    BY DependsLoadedStored DEF DepInv
  <2> QED
    BY <2>1, AcyclicPart DEF DepInv, CyclesAreBlind
<1>2. U \in SUBSET Task
  BY LoadedHasStatus DEF Unfinished, DepInv
<1>3. PICK t \in U : \A u \in U : <<t, u>> \notin DependsOn(V)
  BY <1>1, <1>2 DEF Acyclic
<1>4. t \in AllTasks(V) /\ ResolveStatus(V, t) # Closed
  BY <1>3 DEF Unfinished
<1>5. ResolveStatus(V, t) \in Status
  <2>1. Asserted(V, t) # {}
    BY <1>4, LoadedHasStatus DEF DepInv
  <2> QED
    BY <2>1, ResolveStatusIsJoin DEF Asserted
<1>6. CASE ResolveStatus(V, t) = InProgress
  BY <1>4, <1>6
<1>7. CASE ResolveStatus(V, t) = Open
  <2>1. \A u \in Task : <<t, u>> \in DependsOn(V) => ~Blocks(V, u)
    BY <1>3 DEF Blocks
  <2>2. t \in ReadySet(V)
    BY <2>1, <1>3, <1>4, <1>7 DEF ReadySet
  <2> QED
    BY <2>2
<1> QED
  BY <1>4, <1>5, <1>6, <1>7 DEF Status

(***************************************************************************)
(* compute_ready_set leaves somebody something to do, in every store.      *)
(***************************************************************************)
THEOREM SomethingToDoAlways == Spec => []SomethingToDo
BY FirstIsReady, DepInvAlways, PTL

-----------------------------------------------------------------------------
(* The status of a task.                                                   *)

\* No step takes a file out of a directory.
LEMMA FilesGrow ==
  ASSUME IInv, [Next]_vars, NEW d \in Dir
  PROVE  files[d] \subseteq files'[d]
<1>1. ASSUME NEW p \in Process, NEW kind, NEW x, WriteTx(p, kind, x)
      PROVE  files[d] \subseteq files'[d]
  BY <1>1 DEF WriteTx, IInv, TypeOK
<1>2. ASSUME NEW p \in Process, NEW e \in Dir, OpenStore(p, e)
      PROVE  files[d] \subseteq files'[d]
  BY <1>2 DEF OpenStore
<1>10. ASSUME NEW p \in Process, Refresh(p)
      PROVE  files[d] \subseteq files'[d]
  BY <1>10 DEF Refresh
<1>3. ASSUME NEW p \in Process, NEW t \in Task, Create(p, t)
      PROVE  files[d] \subseteq files'[d]
  BY <1>1, <1>3 DEF Create, CreateAll
<1>4. ASSUME NEW p \in Process, NEW list \in Imports, Import(p, list)
      PROVE  files[d] \subseteq files'[d]
  BY <1>1, <1>4 DEF Import, CreateAll
<1>5. ASSUME NEW p \in Process, NEW t \in Task, NEW s \in Status, Update(p, t, s)
      PROVE  files[d] \subseteq files'[d]
  BY <1>1, <1>5 DEF Update
<1>6. ASSUME NEW p \in Process, NEW T \in SUBSET Task, Close(p, T)
      PROVE  files[d] \subseteq files'[d]
  BY <1>1, <1>6 DEF Close
<1>7. ASSUME NEW p \in Process, NEW t \in Task, NEW u \in Task, DepAdd(p, t, u)
      PROVE  files[d] \subseteq files'[d]
  BY <1>1, <1>7 DEF DepAdd
<1>8. ASSUME NEW e \in Dir, NEW f \in Dir, CopyFile(e, f)
      PROVE  files[d] \subseteq files'[d]
  BY <1>8 DEF CopyFile, IInv, TypeOK
<1>9. CASE UNCHANGED vars
  BY <1>9 DEF vars
<1> QED
  BY <1>2, <1>3, <1>4, <1>5, <1>6, <1>7, <1>8, <1>9, <1>10 DEF Next

\* More files: more tasks, later statuses.
LEMMA StatusGrows ==
  IInv /\ [Next]_vars =>
    \A d \in Dir : \A t \in AllTasks(files[d]) :
      /\ t \in AllTasks(files[d]')
      /\ ResolveStatus(files[d], t) <= ResolveStatus(files[d]', t)
<1> SUFFICES ASSUME IInv, [Next]_vars, NEW d \in Dir, NEW t \in AllTasks(files[d])
             PROVE  /\ t \in AllTasks(files'[d])
                    /\ ResolveStatus(files[d], t) <= ResolveStatus(files'[d], t)
  OBVIOUS
<1>1. files[d] \subseteq files'[d]
  BY FilesGrow
<1>2. t \in AllTasks(files'[d])
  BY <1>1 DEF AllTasks
<1>3. Asserted(files[d], t) # {}
  BY DEF IInv, CreatedHasStatus, AllTasks, Asserted
<1> QED
  BY <1>1, <1>2, <1>3, ResolveStatusGrows

(***************************************************************************)
(* INV-TASK-001: no write and no merge takes a status back.                *)
(***************************************************************************)
THEOREM StatusOnlyGrows == Spec => StatusNeverDecreases
BY StatusGrows, IInvAlways, PTL DEF Spec, StatusNeverDecreases
==============================================================================
