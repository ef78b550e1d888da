------------------------------- MODULE TxStore -------------------------------
(***************************************************************************)
(* The transactions of braid: how processes number them, apply them to     *)
(* their stores and decide on what they find there (commands/write.rs,     *)
(* config.rs and spec.rs, live_store.rs, braid-kernel/src/store.rs and     *)
(* proposal.rs).                                                           *)
(*                                                                         *)
(* A cell is an attribute, of cardinality one, of an entity; a transaction *)
(* asserts and retracts values of cells.  The cell of a proposal holds its *)
(* status.  Files are written and read in one step: LiveStore has the ways *)
(* in which this can fail.                                                 *)
(***************************************************************************)
EXTENDS TxIds

CONSTANTS Agent,     \* the ids of agents, which are ordered
          Time,      \* what the clock may read, in any order
          Cell,
          Proposal,  \* the cells that are the status of a proposal
          Value,     \* the values of other cells, which are ordered
          Process,   \* commands and daemons
          Dir,       \* braid directories
          Nowhere,   \* the directory of a process that has opened none
          MaxWrites  \* bound on the transactions written

ASSUME TxStoreAssumption ==
  /\ Agent \subseteq Nat
  /\ Time \subseteq Nat
  /\ Proposal \subseteq Cell
  /\ Value \subseteq Nat
  /\ Nowhere \notin Dir
  /\ MaxWrites \in Nat

VARIABLES files,     \* files[d]: the transactions in the directory d
          cache,     \* cache[d]: the store saved in d
          at,        \* at[p]: the directory p has opened
          loaded,    \* loaded[p]: the transactions in its store
          frontier,  \* frontier[p][a]: the greatest wall time it has of a
          pending,   \* pending[p]: files found and not applied yet
          saw,       \* pairs <<s, t>>: the writer of t had s in its store
          writes     \* number of transactions written

vars == <<files, cache, at, loaded, frontier, pending, saw, writes>>

-----------------------------------------------------------------------------
Id == [wall : Nat, agent : Agent]

\* The statuses of a proposal, in the order of their keywords.
Accepted == 1
Proposed == 2
Rejected == 3
Reviewed == 4

ValueOf(c) == IF c \in Proposal THEN {Accepted, Proposed, Rejected, Reviewed} ELSE Value

Fact == UNION {{c} \X ValueOf(c) : c \in Cell}

Tx == [id : Id, asserts : SUBSET Fact, retracts : SUBSET Fact]

Asserted(V, c) == {v \in ValueOf(c) : \E t \in V : <<c, v>> \in t.asserts}
Retracted(V, c) == {v \in ValueOf(c) : \E t \in V : <<c, v>> \in t.retracts}

\* find_active_assertions: the ids of assertion and retraction do not matter.
Active(V, c) == Asserted(V, c) \ Retracted(V, c)

\* The values of the assertions with the greatest id: one, unless two
\* transactions have the same id.
Latest(V, c) ==
  {v \in ValueOf(c) :
     \E t \in V : /\ <<c, v>> \in t.asserts
                  /\ \A u \in V : \A w \in ValueOf(c) :
                       <<c, w>> \in u.asserts => ~Precedes(t, u)}

\* pending_proposals.
IsPending(V, c) == Proposed \in Latest(V, c)

NoFrontier == [a \in Agent |-> 0]

\* from_datoms: f has the greatest wall time of each agent in V.
IsFrontier(f, V) ==
  \A a \in Agent :
    /\ \A t \in V : t.id.agent = a => t.id.wall <= f[a]
    /\ f[a] = 0 \/ \E t \in V : t.id.agent = a /\ t.id.wall = f[a]

NoCache == [txs |-> {}, frontier |-> NoFrontier]

-----------------------------------------------------------------------------
Init ==
  /\ files = [d \in Dir |-> {}]
  /\ cache = [d \in Dir |-> NoCache]
  /\ at = [p \in Process |-> Nowhere]
  /\ loaded = [p \in Process |-> {}]
  /\ frontier = [p \in Process |-> NoFrontier]
  /\ pending = [p \in Process |-> {}]
  /\ saw = {}
  /\ writes = 0

\* A process opens a directory: the saved store first, if there is one; the
\* files it lacks are then applied like those of a refresh.
OpenCached(p, d) ==
  /\ at[p] = Nowhere
  /\ cache[d] # NoCache
  /\ at' = [at EXCEPT ![p] = d]
  /\ loaded' = [loaded EXCEPT ![p] = cache[d].txs]
  /\ frontier' = [frontier EXCEPT ![p] = cache[d].frontier]
  /\ pending' = [pending EXCEPT ![p] = files[d] \ cache[d].txs]
  /\ UNCHANGED <<files, cache, saw, writes>>

\* Without a cache, or with one that lacks too much, all files are read.
OpenRebuild(p, d) ==
  /\ at[p] = Nowhere
  /\ at' = [at EXCEPT ![p] = d]
  /\ loaded' = [loaded EXCEPT ![p] = files[d]]
  /\ \E f \in [Agent -> {0} \cup {t.id.wall : t \in files[d]}] :
       /\ IsFrontier(f, files[d])
       /\ frontier' = [frontier EXCEPT ![p] = f]
  /\ UNCHANGED <<files, cache, pending, saw, writes>>

\* A daemon looks for new files; it may overlook some.
Refresh(p) ==
  /\ at[p] # Nowhere /\ pending[p] = {}
  /\ \E found \in (SUBSET (files[at[p]] \ loaded[p])) \ {{}} :
       pending' = [pending EXCEPT ![p] = found]
  /\ UNCHANGED <<files, cache, at, loaded, frontier, saw, writes>>

\* Mutant of AdvanceFrontier: the last one that arrives counts.
AdvanceFrontierLast(p, id) == frontier' = [frontier EXCEPT ![p][id.agent] = id.wall]

\* Mutant of AdvanceFrontier: the other agents are forgotten.
AdvanceFrontierAlone(p, id) == frontier' = [frontier EXCEPT ![p] = [a \in {id.agent} |-> id.wall]]

AdvanceFrontier(p, id) ==
  frontier' = [frontier EXCEPT ![p][id.agent] = IF id.wall > @ THEN id.wall ELSE @]

\* apply_datoms on one of the files found; files have no particular order.
Apply(p, t) ==
  /\ t \in pending[p]
  /\ pending' = [pending EXCEPT ![p] = @ \ {t}]
  /\ loaded' = [loaded EXCEPT ![p] = @ \cup {t}]
  /\ AdvanceFrontier(p, t.id)
  /\ UNCHANGED <<files, cache, at, saw, writes>>

\* flush, and the end of a load: a complete store is saved.
SaveCache(p) ==
  /\ at[p] # Nowhere /\ pending[p] = {}
  /\ files[at[p]] = loaded[p]
  /\ cache' = [cache EXCEPT ![at[p]] = [txs |-> loaded[p], frontier |-> frontier[p]]]
  /\ UNCHANGED <<files, at, loaded, frontier, pending, saw, writes>>

\* A process ends; the next command is a new one.
Exit(p) ==
  /\ at[p] # Nowhere
  /\ at' = [at EXCEPT ![p] = Nowhere]
  /\ loaded' = [loaded EXCEPT ![p] = {}]
  /\ frontier' = [frontier EXCEPT ![p] = NoFrontier]
  /\ pending' = [pending EXCEPT ![p] = {}]
  /\ UNCHANGED <<files, cache, saw, writes>>

-----------------------------------------------------------------------------
\* Mutant of NextWalls: an agent counts its own transactions only.
NextWallsOwn(p, agent) ==
  UNION {{w \in {now + 1, frontier[p][agent] + 1} : now < w /\ frontier[p][agent] < w} :
           now \in Time}

\* next_tx_id: one more than the greatest of the clock and the frontier.
NextWalls(p, agent) ==
  UNION {{w \in {now + 1} \cup {frontier[p][a] + 1 : a \in Agent} :
            now < w /\ \A a \in Agent : frontier[p][a] < w} : now \in Time}

\* A command's transaction becomes a file and enters its store (write_tx).
Write(p, agent, asserts, retracts) ==
  /\ at[p] # Nowhere /\ pending[p] = {}
  /\ writes < MaxWrites
  /\ writes' = writes + 1
  /\ \E w \in NextWalls(p, agent) :
       LET t == [id |-> [wall |-> w, agent |-> agent],
                 asserts |-> asserts, retracts |-> retracts]
       IN  /\ files' = [files EXCEPT ![at[p]] = @ \cup {t}]
           /\ loaded' = [loaded EXCEPT ![p] = @ \cup {t}]
           /\ AdvanceFrontier(p, t.id)
           /\ saw' = saw \cup (loaded[p] \X {t})
  /\ UNCHANGED <<cache, at, pending>>

\* `braid write assert`, `braid config <key> <value>`.
AssertValue(p, agent, c, v) ==
  /\ c \notin Proposal /\ v \in Value
  /\ Write(p, agent, {<<c, v>>}, {})

\* `braid write retract`: one active value, or all of them.
RetractValues(p, agent, c, V) ==
  /\ V # {} /\ V \subseteq Active(loaded[p], c)
  /\ V = Active(loaded[p], c) \/ \E v \in V : V = {v}
  /\ Write(p, agent, {}, {c} \X V)

\* `braid config --reset`: an asserted value, whichever the index has last.
ResetValue(p, agent, c, v) ==
  /\ c \notin Proposal /\ v \in Asserted(loaded[p], c)
  /\ Write(p, agent, {}, {<<c, v>>})

\* proposal_to_datoms, which only users of the library call so far, or a
\* status given to `braid write assert`; a proposal can be made again.
Propose(p, agent, c) ==
  /\ c \in Proposal
  /\ Write(p, agent, {<<c, Proposed>>}, {})

\* The status that the schema has for a proposal somebody has read; only
\* `braid write assert` sets it.
Review(p, agent, c) ==
  /\ c \in Proposal
  /\ Write(p, agent, {<<c, Reviewed>>}, {})

\* `braid spec accept`: a proposal that was last proposed or reviewed.
Accept(p, agent, c) ==
  /\ c \in Proposal /\ {Proposed, Reviewed} \cap Latest(loaded[p], c) # {}
  /\ Write(p, agent, {<<c, Accepted>>}, {<<c, Proposed>>})

\* `braid spec reject`: any proposal there is.
Reject(p, agent, c) ==
  /\ c \in Proposal /\ Asserted(loaded[p], c) # {}
  /\ Write(p, agent, {<<c, Rejected>>}, {<<c, Proposed>>})

\* One file of `braid merge`, which deletes the cache.
CopyFile(d, e) ==
  \E t \in files[d] \ files[e] :
    /\ files' = [files EXCEPT ![e] = @ \cup {t}]
    /\ cache' = [cache EXCEPT ![e] = NoCache]
    /\ UNCHANGED <<at, loaded, frontier, pending, saw, writes>>

Command(p) ==
  \E agent \in Agent, c \in Cell :
    \/ \E v \in ValueOf(c) : AssertValue(p, agent, c, v) \/ ResetValue(p, agent, c, v)
    \/ \E V \in SUBSET ValueOf(c) : RetractValues(p, agent, c, V)
    \/ Propose(p, agent, c)
    \/ Review(p, agent, c)
    \/ Accept(p, agent, c)
    \/ Reject(p, agent, c)

Next ==
  \/ \E p \in Process :
       \/ \E d \in Dir : OpenCached(p, d) \/ OpenRebuild(p, d)
       \/ Refresh(p)
       \/ \E t \in pending[p] : Apply(p, t)
       \/ SaveCache(p)
       \/ Exit(p)
       \/ Command(p)
  \/ \E d, e \in Dir : CopyFile(d, e)

Spec == Init /\ [][Next]_vars

-----------------------------------------------------------------------------
\* Types: every transaction is one of Tx, every frontier counts wall times.
TypeOK ==
  /\ files \in [Dir -> SUBSET Tx]
  /\ cache \in [Dir -> [txs : SUBSET Tx, frontier : [Agent -> Nat]]]
  /\ at \in [Process -> Dir \cup {Nowhere}]
  /\ loaded \in [Process -> SUBSET Tx]
  /\ frontier \in [Process -> [Agent -> Nat]]
  /\ pending \in [Process -> SUBSET Tx]
  /\ saw \subseteq Tx \X Tx
  /\ writes \in 0..MaxWrites

(***************************************************************************)
(* INV-STORE-016: the frontier is what the transactions of the store say,  *)
(* whether they were read from files, from the cache or both, and in       *)
(* whatever order they arrived.                                            *)
(***************************************************************************)
FrontierIsMax == \A p \in Process : IsFrontier(frontier[p], loaded[p])

(***************************************************************************)
(* INV-STORE-011 as far as it holds (spec/01-store.md:1247): a transaction *)
(* has a greater id than all its writer had, whoever wrote them, whatever  *)
(* the clocks of the machines say.                                         *)
(***************************************************************************)
CausalOrder == \A e \in saw : Precedes(e[1], e[2])

(***************************************************************************)
(* A decision stays: wherever a proposal is pending, it was made or made   *)
(* again by somebody, and none of the decisions in that store was taken by *)
(* somebody who knew of that.                                              *)
(***************************************************************************)
PendingIsUndecided ==
  \A p \in Process : \A c \in Proposal :
    IsPending(loaded[p], c) =>
      \E t \in loaded[p] :
        /\ <<c, Proposed>> \in t.asserts
        /\ \A u \in loaded[p] :
             {<<c, Accepted>>, <<c, Rejected>>} \cap u.asserts # {} => <<t, u>> \notin saw

\* The transactions in any directory.
Log == INSTANCE CausalLog WITH
         Participant <- Process,
         log <- UNION {files[d] : d \in Dir},
         held <- loaded

(***************************************************************************)
(* The store implements the log of transactions it is thought to be.       *)
(***************************************************************************)
ImplementsCausalLog == Log!Spec
==============================================================================
