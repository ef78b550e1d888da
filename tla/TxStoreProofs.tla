---------------------------- MODULE TxStoreProofs ----------------------------
(***************************************************************************)
(* Theorems about TxStore, for any number of agents, cells, values,        *)
(* processes, directories and writes, and any clock.                       *)
(***************************************************************************)
EXTENDS TxStore, TLAPS

\* What a directory holds was written, and what a process holds or is about
\* to apply is in some directory.
AllTxs == UNION {files[d] : d \in Dir}

HeldIsWritten ==
  /\ \A d \in Dir : cache[d].txs \subseteq files[d]
  /\ \A p \in Process : loaded[p] \subseteq AllTxs
  /\ \A p \in Process : pending[p] \subseteq AllTxs

\* A saved store has its frontier, like one in memory.
CacheFrontierIsMax == \A d \in Dir : IsFrontier(cache[d].frontier, cache[d].txs)

IInv == TypeOK /\ HeldIsWritten /\ CacheFrontierIsMax /\ FrontierIsMax /\ CausalOrder

-----------------------------------------------------------------------------
\* A store of transactions V with a frontier f.
LEMMA EmptyFrontier == NoFrontier \in [Agent -> Nat] /\ IsFrontier(NoFrontier, {})
BY DEF NoFrontier, IsFrontier

LEMMA FactIntro ==
  ASSUME NEW c \in Cell, NEW v \in ValueOf(c)
  PROVE  <<c, v>> \in Fact
BY DEF Fact

\* AdvanceFrontier keeps the frontier that of the transactions.
LEMMA FrontierAdvanced ==
  ASSUME frontier \in [Process -> [Agent -> Nat]],
         NEW p \in Process, NEW V \in SUBSET Tx, NEW t \in Tx,
         IsFrontier(frontier[p], V),
         AdvanceFrontier(p, t.id)
  PROVE  /\ frontier' \in [Process -> [Agent -> Nat]]
         /\ IsFrontier(frontier'[p], V \cup {t})
         /\ \A q \in Process : q # p => frontier'[q] = frontier[q]
<1> DEFINE b == t.id.agent
<1> DEFINE m == IF t.id.wall > frontier[p][b] THEN t.id.wall ELSE frontier[p][b]
<1>1. b \in Agent /\ t.id.wall \in Nat
  BY DEF Tx, Id
<1>2. frontier[p] \in [Agent -> Nat]
  OBVIOUS
<1>3. m \in Nat /\ m >= frontier[p][b] /\ m >= t.id.wall
      /\ (m = t.id.wall \/ m = frontier[p][b])
  BY <1>1, <1>2
<1>4. frontier' = [frontier EXCEPT ![p] = [frontier[p] EXCEPT ![b] = m]]
  BY <1>1, <1>2 DEF AdvanceFrontier
<1>5. frontier'[p] = [frontier[p] EXCEPT ![b] = m]
  BY <1>4
<1>6. \A s \in V : s.id.wall \in Nat /\ s.id.agent \in Agent
  BY DEF Tx, Id
<1> HIDE DEF m
<1>7. frontier'[p][b] = m /\ \A a \in Agent : a # b => frontier'[p][a] = frontier[p][a]
  BY <1>1, <1>2, <1>5
<1>8. ASSUME NEW a \in Agent
      PROVE  /\ \A s \in V \cup {t} : s.id.agent = a => s.id.wall <= frontier'[p][a]
             /\ \/ frontier'[p][a] = 0
                \/ \E s \in V \cup {t} : s.id.agent = a /\ s.id.wall = frontier'[p][a]
  <2>1. /\ \A s \in V : s.id.agent = a => s.id.wall <= frontier[p][a]
        /\ frontier[p][a] = 0 \/ \E s \in V : s.id.agent = a /\ s.id.wall = frontier[p][a]
    BY DEF IsFrontier
  <2>2. CASE a = b
    BY <2>1, <2>2, <1>1, <1>2, <1>3, <1>6, <1>7
  <2>3. CASE a # b
    BY <2>1, <2>3, <1>7
  <2> QED
    BY <2>2, <2>3
<1>9. IsFrontier(frontier'[p], V \cup {t})
  BY <1>8 DEF IsFrontier
<1>10. frontier' \in [Process -> [Agent -> Nat]]
  BY <1>1, <1>2, <1>3, <1>4
<1> QED
  BY <1>4, <1>9, <1>10

\* A wall time after the frontier is after all transactions.
LEMMA NextIsLater ==
  ASSUME frontier \in [Process -> [Agent -> Nat]],
         NEW p \in Process, NEW V \in SUBSET Tx, IsFrontier(frontier[p], V),
         NEW agent \in Agent, NEW w \in NextWalls(p, agent)
  PROVE  /\ w \in Nat
         /\ \A s \in V : s.id.wall < w
<1>1. \A a \in Agent : frontier[p][a] \in Nat
  OBVIOUS
<1>2. w \in Nat /\ \A a \in Agent : frontier[p][a] < w
  BY <1>1, TxStoreAssumption DEF NextWalls
<1>3. ASSUME NEW s \in V
      PROVE  s.id.wall < w
  <2>1. s.id.agent \in Agent /\ s.id.wall \in Nat
    BY DEF Tx, Id
  <2>2. s.id.wall <= frontier[p][s.id.agent]
    BY <2>1 DEF IsFrontier
  <2> QED
    BY <2>1, <2>2, <1>1, <1>2
<1> QED
  BY <1>2, <1>3

-----------------------------------------------------------------------------
\* A command's transaction: the invariant stays, the log gets an entry.
LEMMA WriteStep ==
  ASSUME IInv, NEW p \in Process, NEW agent \in Agent,
         NEW asserts \in SUBSET Fact, NEW retracts \in SUBSET Fact,
         Write(p, agent, asserts, retracts)
  PROVE  IInv' /\ Log!Next
<1> USE DEF IInv
<1>0. TypeOK /\ HeldIsWritten /\ CacheFrontierIsMax /\ FrontierIsMax /\ CausalOrder
  OBVIOUS
<1>a. at[p] \in Dir /\ writes < MaxWrites /\ writes' = writes + 1
      /\ UNCHANGED <<cache, at, pending>>
  BY <1>0 DEF Write, TypeOK
<1>b. PICK w \in NextWalls(p, agent) :
        LET t == [id |-> [wall |-> w, agent |-> agent],
                  asserts |-> asserts, retracts |-> retracts]
        IN  /\ files' = [files EXCEPT ![at[p]] = @ \cup {t}]
            /\ loaded' = [loaded EXCEPT ![p] = @ \cup {t}]
            /\ AdvanceFrontier(p, t.id)
            /\ saw' = saw \cup (loaded[p] \X {t})
  BY DEF Write
<1> DEFINE t == [id |-> [wall |-> w, agent |-> agent],
                 asserts |-> asserts, retracts |-> retracts]
<1>1. loaded[p] \in SUBSET Tx /\ frontier \in [Process -> [Agent -> Nat]]
      /\ IsFrontier(frontier[p], loaded[p])
  BY <1>0 DEF TypeOK, FrontierIsMax
<1>2. w \in Nat /\ \A s \in loaded[p] : s.id.wall < w
  BY <1>1, NextIsLater
<1>3. t \in Tx /\ \A s \in loaded[p] : Precedes(s, t)
  BY <1>2 DEF Tx, Id, Precedes, Before
<1>4. /\ files' = [files EXCEPT ![at[p]] = files[at[p]] \cup {t}]
      /\ loaded' = [loaded EXCEPT ![p] = loaded[p] \cup {t}]
      /\ AdvanceFrontier(p, t.id)
      /\ saw' = saw \cup (loaded[p] \X {t})
  BY <1>b
<1>5. t \notin loaded[p]
  BY <1>2
<1> HIDE DEF t
<1>6. /\ frontier' \in [Process -> [Agent -> Nat]]
      /\ IsFrontier(frontier'[p], loaded[p] \cup {t})
      /\ \A q \in Process : q # p => frontier'[q] = frontier[q]
  BY <1>1, <1>3, <1>4, FrontierAdvanced
<1>7. /\ loaded'[p] = loaded[p] \cup {t}
      /\ \A q \in Process : q # p => loaded'[q] = loaded[q]
      /\ files'[at[p]] = files[at[p]] \cup {t}
      /\ \A d \in Dir : d # at[p] => files'[d] = files[d]
  BY <1>0, <1>a, <1>4 DEF TypeOK
<1>8. TypeOK'
  <2>1. files' \in [Dir -> SUBSET Tx] /\ loaded' \in [Process -> SUBSET Tx]
    BY <1>0, <1>a, <1>1, <1>3, <1>4 DEF TypeOK
  <2>2. saw' \subseteq Tx \X Tx
    BY <1>0, <1>1, <1>3, <1>4 DEF TypeOK
  <2>3. writes' \in 0..MaxWrites
    BY <1>0, <1>a, TxStoreAssumption DEF TypeOK
  <2> QED
    BY <2>1, <2>2, <2>3, <1>0, <1>a, <1>6 DEF TypeOK
<1>9. UNION {files'[d] : d \in Dir} = AllTxs \cup {t}
  <2>1. ASSUME NEW d \in Dir
        PROVE  files[d] \subseteq files'[d] /\ files'[d] \subseteq files[d] \cup {t}
    BY <1>7
  <2>2. t \in files'[at[p]] /\ at[p] \in Dir
    BY <1>7, <1>a
  <2>3. ASSUME NEW u \in UNION {files'[d] : d \in Dir}
        PROVE  u \in AllTxs \cup {t}
    BY <2>1 DEF AllTxs
  <2>4. ASSUME NEW u \in AllTxs \cup {t}
        PROVE  u \in UNION {files'[d] : d \in Dir}
    BY <2>1, <2>2 DEF AllTxs
  <2> QED
    BY <2>3, <2>4
<1>10. HeldIsWritten'
  <2>1. \A d \in Dir : cache'[d].txs \subseteq files'[d]
    BY <1>0, <1>7, <1>a DEF HeldIsWritten
  <2>2. \A q \in Process : loaded'[q] \subseteq AllTxs \cup {t} /\ pending'[q] \subseteq AllTxs \cup {t}
    BY <1>0, <1>7, <1>a DEF HeldIsWritten
  <2> QED
    BY <2>1, <2>2, <1>9 DEF HeldIsWritten, AllTxs
<1>11. FrontierIsMax'
  BY <1>0, <1>6, <1>7 DEF FrontierIsMax
<1>12. CacheFrontierIsMax'
  BY <1>0, <1>a DEF CacheFrontierIsMax, IsFrontier
<1>13. CausalOrder'
  BY <1>0, <1>3, <1>4 DEF CausalOrder
<1>14. Log!Add(p, t)
  BY <1>3, <1>4, <1>5, <1>9 DEF Log!Add, Log!Precedes, Log!Before, Precedes, Before, AllTxs
<1>15. t \in loaded'[p]
  BY <1>7
<1> QED
  BY <1>8, <1>10, <1>11, <1>12, <1>13, <1>14, <1>15 DEF Log!Next

\* Any command is such a transaction.
LEMMA CommandStep ==
  ASSUME IInv, NEW p \in Process, Command(p)
  PROVE  IInv' /\ Log!Next
<1>1. PICK agent \in Agent, c \in Cell :
        \/ \E v \in ValueOf(c) : AssertValue(p, agent, c, v) \/ ResetValue(p, agent, c, v)
        \/ \E V \in SUBSET ValueOf(c) : RetractValues(p, agent, c, V)
        \/ Propose(p, agent, c)
        \/ Review(p, agent, c)
        \/ Accept(p, agent, c)
        \/ Reject(p, agent, c)
  BY DEF Command
<1>2. \A V \in SUBSET ValueOf(c) : {c} \X V \in SUBSET Fact
  BY FactIntro
<1>3. \A v \in ValueOf(c) : {<<c, v>>} \in SUBSET Fact
  BY FactIntro
<1>4. {} \in SUBSET Fact
  OBVIOUS
<1>5. c \in Proposal => /\ Accepted \in ValueOf(c)
                        /\ Proposed \in ValueOf(c)
                        /\ Rejected \in ValueOf(c)
                        /\ Reviewed \in ValueOf(c)
  BY DEF ValueOf
<1>6. CASE \E v \in ValueOf(c) : AssertValue(p, agent, c, v)
  BY <1>6, <1>3, <1>4, WriteStep DEF AssertValue
<1>7. CASE \E v \in ValueOf(c) : ResetValue(p, agent, c, v)
  BY <1>7, <1>3, <1>4, WriteStep DEF ResetValue
<1>8. CASE \E V \in SUBSET ValueOf(c) : RetractValues(p, agent, c, V)
  <2>1. PICK V \in SUBSET ValueOf(c) : RetractValues(p, agent, c, V)
    BY <1>8
  <2>2. Write(p, agent, {}, {c} \X V)
    BY <2>1 DEF RetractValues
  <2> QED
    BY <2>2, <1>2, <1>4, WriteStep
<1>9. CASE Propose(p, agent, c)
  BY <1>9, <1>3, <1>4, <1>5, WriteStep DEF Propose
<1>10. CASE Review(p, agent, c)
  BY <1>10, <1>3, <1>4, <1>5, WriteStep DEF Review
<1>11. CASE Accept(p, agent, c)
  BY <1>11, <1>3, <1>5, WriteStep DEF Accept
<1>12. CASE Reject(p, agent, c)
  BY <1>12, <1>3, <1>5, WriteStep DEF Reject
<1> QED
  BY <1>1, <1>6, <1>7, <1>8, <1>9, <1>10, <1>11, <1>12

-----------------------------------------------------------------------------
\* What the steps that write nothing leave alone; the log does not change.
LEMMA ReaderStep ==
  ASSUME IInv, UNCHANGED <<files, saw, writes>>
  PROVE  /\ (UNION {files[d] : d \in Dir})' = AllTxs
         /\ CausalOrder'
         /\ saw' \subseteq Tx \X Tx /\ writes' \in 0..MaxWrites
BY DEF IInv, CausalOrder, AllTxs, TypeOK, Precedes, Before

\* A process gets a store of transactions V, which it has in some directory,
\* with their frontier f, and finds more of them.
LEMMA OpenStep ==
  ASSUME IInv, NEW p \in Process, NEW d \in Dir \cup {Nowhere},
         NEW V \in SUBSET Tx, NEW f \in [Agent -> Nat], NEW W \in SUBSET Tx,
         V \subseteq AllTxs, W \subseteq AllTxs, IsFrontier(f, V),
         at' = [at EXCEPT ![p] = d],
         loaded' = [loaded EXCEPT ![p] = V],
         frontier' = [frontier EXCEPT ![p] = f],
         pending' = [pending EXCEPT ![p] = W],
         UNCHANGED <<files, cache, saw, writes>>
  PROVE  IInv' /\ Log!Next
<1>0. TypeOK /\ HeldIsWritten /\ CacheFrontierIsMax /\ FrontierIsMax
  BY DEF IInv
<1>1. /\ loaded'[p] = V /\ frontier'[p] = f /\ pending'[p] = W
      /\ \A q \in Process : q # p => /\ loaded'[q] = loaded[q]
                                     /\ frontier'[q] = frontier[q]
                                     /\ pending'[q] = pending[q]
  BY <1>0 DEF TypeOK
<1>2. TypeOK'
  BY <1>0 DEF TypeOK
<1>3. HeldIsWritten'
  BY <1>0, <1>1 DEF HeldIsWritten, AllTxs
<1>4. CacheFrontierIsMax'
  BY <1>0 DEF CacheFrontierIsMax, IsFrontier
<1>5. FrontierIsMax'
  BY <1>0, <1>1 DEF FrontierIsMax
<1>6. CausalOrder'
  BY ReaderStep
<1>7. Log!Reset(p, V)
  BY DEF Log!Reset, AllTxs
<1>8. V \in SUBSET AllTxs
  OBVIOUS
<1> QED
  BY <1>2, <1>3, <1>4, <1>5, <1>6, <1>7, <1>8 DEF IInv, Log!Next, AllTxs

LEMMA OpenCachedStep ==
  ASSUME IInv, NEW p \in Process, NEW d \in Dir, OpenCached(p, d)
  PROVE  IInv' /\ Log!Next
<1> DEFINE V == cache[d].txs
<1> DEFINE W == files[d] \ cache[d].txs
<1>1. /\ V \in SUBSET Tx /\ W \in SUBSET Tx /\ cache[d].frontier \in [Agent -> Nat]
      /\ V \subseteq AllTxs /\ W \subseteq AllTxs
  BY DEF IInv, TypeOK, HeldIsWritten, AllTxs
<1>2. IsFrontier(cache[d].frontier, V)
  BY DEF IInv, CacheFrontierIsMax
<1> QED
  BY <1>1, <1>2, OpenStep DEF OpenCached

LEMMA OpenRebuildStep ==
  ASSUME IInv, NEW p \in Process, NEW d \in Dir, OpenRebuild(p, d)
  PROVE  IInv' /\ Log!Next
<1>1. PICK f \in [Agent -> {0} \cup {t.id.wall : t \in files[d]}] :
        /\ IsFrontier(f, files[d])
        /\ frontier' = [frontier EXCEPT ![p] = f]
  BY DEF OpenRebuild
<1>2. files[d] \in SUBSET Tx /\ files[d] \subseteq AllTxs
      /\ pending[p] \in SUBSET Tx /\ pending[p] \subseteq AllTxs
  BY DEF IInv, TypeOK, HeldIsWritten, AllTxs
<1>3. \A t \in files[d] : t.id.wall \in Nat
  BY <1>2 DEF Tx, Id
<1>4. f \in [Agent -> Nat]
  BY <1>3
<1>5. pending' = [pending EXCEPT ![p] = pending[p]]
  BY DEF OpenRebuild, IInv, TypeOK
<1> QED
  BY <1>1, <1>2, <1>4, <1>5, OpenStep DEF OpenRebuild

LEMMA ExitStep ==
  ASSUME IInv, NEW p \in Process, Exit(p)
  PROVE  IInv' /\ Log!Next
BY EmptyFrontier, OpenStep DEF Exit

LEMMA RefreshStep ==
  ASSUME IInv, NEW p \in Process, Refresh(p)
  PROVE  IInv' /\ UNCHANGED Log!vars
<1>1. PICK found \in (SUBSET (files[at[p]] \ loaded[p])) \ {{}} :
        pending' = [pending EXCEPT ![p] = found]
  BY DEF Refresh
<1>2. at[p] \in Dir /\ found \in SUBSET Tx /\ found \subseteq AllTxs
  BY DEF Refresh, IInv, TypeOK, AllTxs
<1>3. UNCHANGED <<files, cache, at, loaded, frontier, saw, writes>>
  BY DEF Refresh
<1>4. TypeOK'
  BY <1>1, <1>2, <1>3 DEF IInv, TypeOK
<1>5. HeldIsWritten'
  BY <1>1, <1>2, <1>3 DEF IInv, TypeOK, HeldIsWritten, AllTxs
<1>6. CacheFrontierIsMax' /\ FrontierIsMax'
  BY <1>3 DEF IInv, CacheFrontierIsMax, FrontierIsMax, IsFrontier
<1> QED
  BY <1>3, <1>4, <1>5, <1>6, ReaderStep DEF IInv, Log!vars, AllTxs

LEMMA ApplyStep ==
  ASSUME IInv, NEW p \in Process, NEW t \in pending[p], Apply(p, t)
  PROVE  IInv' /\ Log!Next
<1>0. TypeOK /\ HeldIsWritten /\ CacheFrontierIsMax /\ FrontierIsMax
  BY DEF IInv
<1>1. t \in Tx /\ t \in AllTxs /\ loaded[p] \in SUBSET Tx
  BY <1>0 DEF TypeOK, HeldIsWritten
<1>2. /\ pending' = [pending EXCEPT ![p] = pending[p] \ {t}]
      /\ loaded' = [loaded EXCEPT ![p] = loaded[p] \cup {t}]
      /\ AdvanceFrontier(p, t.id)
      /\ UNCHANGED <<files, cache, at, saw, writes>>
  BY DEF Apply
<1>3. /\ frontier' \in [Process -> [Agent -> Nat]]
      /\ IsFrontier(frontier'[p], loaded[p] \cup {t})
      /\ \A q \in Process : q # p => frontier'[q] = frontier[q]
  BY <1>0, <1>1, <1>2, FrontierAdvanced DEF TypeOK, FrontierIsMax
<1>4. /\ loaded'[p] = loaded[p] \cup {t}
      /\ \A q \in Process : q # p => loaded'[q] = loaded[q]
      /\ \A q \in Process : pending'[q] \subseteq pending[q]
  BY <1>0, <1>2 DEF TypeOK
<1>5. TypeOK'
  BY <1>0, <1>1, <1>2, <1>3 DEF TypeOK
<1>6. HeldIsWritten'
  BY <1>0, <1>1, <1>2, <1>4 DEF HeldIsWritten, AllTxs
<1>7. CacheFrontierIsMax'
  BY <1>0, <1>2 DEF CacheFrontierIsMax, IsFrontier
<1>8. FrontierIsMax'
  BY <1>0, <1>3, <1>4 DEF FrontierIsMax
<1>9. CausalOrder'
  BY <1>2, ReaderStep
<1>10. Log!Learn(p, t)
  BY <1>2 DEF Log!Learn
<1> QED
  BY <1>1, <1>5, <1>6, <1>7, <1>8, <1>9, <1>10 DEF IInv, Log!Next, AllTxs

LEMMA SaveCacheStep ==
  ASSUME IInv, NEW p \in Process, SaveCache(p)
  PROVE  IInv' /\ UNCHANGED Log!vars
<1>0. TypeOK /\ HeldIsWritten /\ CacheFrontierIsMax /\ FrontierIsMax
  BY DEF IInv
<1>1. /\ at[p] \in Dir /\ files[at[p]] = loaded[p]
      /\ cache' = [cache EXCEPT ![at[p]] = [txs |-> loaded[p], frontier |-> frontier[p]]]
      /\ UNCHANGED <<files, at, loaded, frontier, pending, saw, writes>>
  BY <1>0 DEF SaveCache, TypeOK
<1>2. /\ cache'[at[p]].txs = loaded[p] /\ cache'[at[p]].frontier = frontier[p]
      /\ \A d \in Dir : d # at[p] => cache'[d] = cache[d]
  BY <1>0, <1>1 DEF TypeOK
<1>3. TypeOK'
  BY <1>0, <1>1 DEF TypeOK
<1>4. HeldIsWritten'
  BY <1>0, <1>1, <1>2 DEF HeldIsWritten, AllTxs
<1>5. FrontierIsMax'
  BY <1>0, <1>1 DEF FrontierIsMax, IsFrontier
<1>6. CacheFrontierIsMax'
  BY <1>0, <1>2 DEF CacheFrontierIsMax, FrontierIsMax
<1> QED
  BY <1>1, <1>3, <1>4, <1>5, <1>6, ReaderStep DEF IInv, Log!vars, AllTxs

LEMMA CopyFileStep ==
  ASSUME IInv, NEW d \in Dir, NEW e \in Dir, CopyFile(d, e)
  PROVE  IInv' /\ UNCHANGED Log!vars
<1>0. TypeOK /\ HeldIsWritten /\ CacheFrontierIsMax /\ FrontierIsMax /\ CausalOrder
  BY DEF IInv
<1>1. PICK t \in files[d] \ files[e] :
        /\ files' = [files EXCEPT ![e] = files[e] \cup {t}]
        /\ cache' = [cache EXCEPT ![e] = NoCache]
        /\ UNCHANGED <<at, loaded, frontier, pending, saw, writes>>
  BY DEF CopyFile
<1>2. /\ files'[e] = files[e] \cup {t}
      /\ cache'[e] = NoCache
      /\ \A x \in Dir : x # e => files'[x] = files[x] /\ cache'[x] = cache[x]
  BY <1>0, <1>1 DEF TypeOK
<1>3. TypeOK'
  <2>1. NoCache \in [txs : SUBSET Tx, frontier : [Agent -> Nat]]
    BY EmptyFrontier DEF NoCache
  <2> QED
    BY <2>1, <1>0, <1>1 DEF TypeOK
<1>4. UNION {files'[x] : x \in Dir} = AllTxs
  <2>1. \A x \in Dir : files[x] \subseteq files'[x]
    BY <1>2
  <2>2. \A x \in Dir : files'[x] \subseteq AllTxs
    BY <1>1, <1>2 DEF AllTxs
  <2>3. ASSUME NEW u \in AllTxs
        PROVE  u \in UNION {files'[x] : x \in Dir}
    BY <2>1 DEF AllTxs
  <2>4. ASSUME NEW u \in UNION {files'[x] : x \in Dir}
        PROVE  u \in AllTxs
    BY <2>2
  <2> QED
    BY <2>3, <2>4
<1>5. HeldIsWritten'
  <2>1. \A x \in Dir : cache'[x].txs \subseteq files'[x]
    BY <1>0, <1>2 DEF HeldIsWritten, NoCache
  <2> QED
    BY <2>1, <1>0, <1>1, <1>4 DEF HeldIsWritten, AllTxs
<1>6. CacheFrontierIsMax'
  <2>1. NoCache.frontier = NoFrontier /\ NoCache.txs = {}
    BY DEF NoCache
  <2>2. ASSUME NEW x \in Dir
        PROVE  IsFrontier(cache'[x].frontier, cache'[x].txs)
    BY <2>1, <1>0, <1>2, EmptyFrontier DEF CacheFrontierIsMax
  <2> QED
    BY <2>2 DEF CacheFrontierIsMax, IsFrontier
<1>7. FrontierIsMax' /\ CausalOrder'
  BY <1>0, <1>1 DEF FrontierIsMax, IsFrontier, CausalOrder, Precedes, Before
<1> QED
  BY <1>1, <1>3, <1>4, <1>5, <1>6, <1>7 DEF IInv, Log!vars, AllTxs

-----------------------------------------------------------------------------
LEMMA InitIInv ==
  Init => IInv /\ Log!Init
<1> SUFFICES ASSUME Init PROVE IInv /\ Log!Init
  OBVIOUS
<1>1. TypeOK
  BY EmptyFrontier, TxStoreAssumption DEF Init, TypeOK, NoCache
<1>2. HeldIsWritten
  BY DEF Init, HeldIsWritten, NoCache
<1>3. CacheFrontierIsMax /\ FrontierIsMax
  BY EmptyFrontier DEF Init, CacheFrontierIsMax, FrontierIsMax, NoCache
<1>4. CausalOrder
  BY DEF Init, CausalOrder
<1>5. Log!Init
  BY DEF Init, Log!Init
<1> QED
  BY <1>1, <1>2, <1>3, <1>4, <1>5 DEF IInv

LEMMA StepIInv ==
  IInv /\ [Next]_vars => IInv' /\ [Log!Next]_(Log!vars)
<1> SUFFICES ASSUME IInv, [Next]_vars PROVE IInv' /\ [Log!Next]_(Log!vars)
  OBVIOUS
<1>1. ASSUME NEW p \in Process, NEW d \in Dir, OpenCached(p, d)
      PROVE  IInv' /\ Log!Next
  BY <1>1, OpenCachedStep
<1>2. ASSUME NEW p \in Process, NEW d \in Dir, OpenRebuild(p, d)
      PROVE  IInv' /\ Log!Next
  BY <1>2, OpenRebuildStep
<1>3. ASSUME NEW p \in Process, Refresh(p)
      PROVE  IInv' /\ UNCHANGED Log!vars
  BY <1>3, RefreshStep
<1>4. ASSUME NEW p \in Process, NEW t \in pending[p], Apply(p, t)
      PROVE  IInv' /\ Log!Next
  BY <1>4, ApplyStep
<1>5. ASSUME NEW p \in Process, SaveCache(p)
      PROVE  IInv' /\ UNCHANGED Log!vars
  BY <1>5, SaveCacheStep
<1>6. ASSUME NEW p \in Process, Exit(p)
      PROVE  IInv' /\ Log!Next
  BY <1>6, ExitStep
<1>7. ASSUME NEW p \in Process, Command(p)
      PROVE  IInv' /\ Log!Next
  BY <1>7, CommandStep
<1>8. ASSUME NEW d \in Dir, NEW e \in Dir, CopyFile(d, e)
      PROVE  IInv' /\ UNCHANGED Log!vars
  BY <1>8, CopyFileStep
<1>9. CASE UNCHANGED vars
  <2>1. IInv'
    BY <1>9 DEF vars, IInv, TypeOK, HeldIsWritten, AllTxs, CacheFrontierIsMax,
                FrontierIsMax, IsFrontier, CausalOrder, Precedes, Before
  <2>2. UNCHANGED Log!vars
    BY <1>9 DEF vars, Log!vars
  <2> QED
    BY <2>1, <2>2
<1> QED
  BY <1>1, <1>2, <1>3, <1>4, <1>5, <1>6, <1>7, <1>8, <1>9 DEF Next

LEMMA IInvAlways == Spec => []IInv
BY InitIInv, StepIInv, PTL DEF Spec

\* A decision whose writer knew the proposal comes after it, so that the
\* proposal would not be the latest.
LEMMA PendingFollows == TypeOK /\ CausalOrder => PendingIsUndecided
<1> SUFFICES ASSUME TypeOK, CausalOrder,
                    NEW p \in Process, NEW c \in Proposal, IsPending(loaded[p], c)
             PROVE  \E t \in loaded[p] :
                      /\ <<c, Proposed>> \in t.asserts
                      /\ \A u \in loaded[p] :
                           {<<c, Accepted>>, <<c, Rejected>>} \cap u.asserts # {}
                             => <<t, u>> \notin saw
  BY DEF PendingIsUndecided
<1>1. PICK t \in loaded[p] :
        /\ <<c, Proposed>> \in t.asserts
        /\ \A u \in loaded[p] : \A w \in ValueOf(c) :
             <<c, w>> \in u.asserts => ~Precedes(t, u)
  BY DEF IsPending, Latest
<1>2. Accepted \in ValueOf(c) /\ Rejected \in ValueOf(c)
  BY DEF ValueOf
<1>3. ASSUME NEW u \in loaded[p],
             {<<c, Accepted>>, <<c, Rejected>>} \cap u.asserts # {}
      PROVE  ~Precedes(t, u)
  <2>1. <<c, Accepted>> \in u.asserts \/ <<c, Rejected>> \in u.asserts
    BY <1>3
  <2> QED
    BY <2>1, <1>1, <1>2
<1>4. \A u : <<t, u>> \in saw => Precedes(t, u)
  BY DEF CausalOrder
<1> QED
  BY <1>1, <1>3, <1>4

-----------------------------------------------------------------------------
(***************************************************************************)
(* Stores, frontiers, caches and transactions keep their types.            *)
(***************************************************************************)
THEOREM TypeCorrect == Spec => []TypeOK
BY IInvAlways, PTL DEF IInv

(***************************************************************************)
(* INV-STORE-016: the frontier that next_tx_id reads is what the           *)
(* transactions of the store say, in whatever order they arrived.          *)
(***************************************************************************)
THEOREM FrontierCorrect == Spec => []FrontierIsMax
BY IInvAlways, PTL DEF IInv

(***************************************************************************)
(* INV-STORE-011: the id of a transaction is greater than those of all its *)
(* writer had, for any clocks and any number of machines.                  *)
(***************************************************************************)
THEOREM CausallyOrdered == Spec => []CausalOrder
BY IInvAlways, PTL DEF IInv

(***************************************************************************)
(* pending_proposals never shows a proposal again that somebody who knew   *)
(* it accepted or rejected.                                                *)
(***************************************************************************)
THEOREM DecisionsStay == Spec => []PendingIsUndecided
<1>1. IInv => PendingIsUndecided
  BY PendingFollows DEF IInv
<1> QED
  BY <1>1, IInvAlways, PTL

(***************************************************************************)
(* The stores in files, caches and memory implement one causal log.        *)
(***************************************************************************)
THEOREM StoreRefinesLog == Spec => ImplementsCausalLog
BY InitIInv, StepIInv, IInvAlways, PTL DEF Spec, ImplementsCausalLog, Log!Spec
==============================================================================
