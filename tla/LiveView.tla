------------------------------- MODULE LiveView -------------------------------
(***************************************************************************)
(* The live view of a store of TxStore (braid-kernel/src/store.rs): for    *)
(* each cell the value that readers get.  It is kept up to date in the     *)
(* order in which transactions arrive, and built in the order of the       *)
(* datoms when a store is loaded.                                          *)
(***************************************************************************)
EXTENDS TxStore, FiniteSets, Folds

VARIABLE live  \* live[p]: the datoms shown, at most one for each cell

liveVars == <<vars, live>>

-----------------------------------------------------------------------------
Datoms(op, facts, id) == {[op |-> op, cell |-> f[1], value |-> f[2], id |-> id] : f \in facts}

Asserts(t) == Datoms("assert", t.asserts, t.id)
Retracts(t) == Datoms("retract", t.retracts, t.id)

\* The order of the datoms of one cell: by value, by id, assertions first.
EAVT(d, e) ==
  \/ d.value < e.value
  \/ d.value = e.value /\ Before(d.id, e.id)
  \/ d.value = e.value /\ d.id = e.id /\ d.op = "assert" /\ e.op = "retract"

\* Mutant of IndexDatom: what arrives last counts.
IndexDatomLast(view, d) ==
  IF d.op = "assert" THEN {e \in view : e.cell # d.cell} \cup {d}
  ELSE {e \in view : e.cell # d.cell \/ e.value # d.value}

\* index_datom: a later assertion replaces what is shown, the retraction of
\* that value takes it away, and what was shown before is not looked for.
IndexDatom(view, d) ==
  LET shown == {e \in view : e.cell = d.cell} IN
  IF d.op = "assert"
  THEN IF \E e \in shown : ~Before(e.id, d.id) THEN view ELSE (view \ shown) \cup {d}
  ELSE view \ {e \in shown : e.value = d.value /\ ~Before(d.id, e.id)}

\* The last of some datoms in that order.
LastOf(D) == CHOOSE d \in D : \A e \in D : ~EAVT(d, e)

\* The datoms D, one after the other.
IndexAll(view, D) ==
  MapThenFoldSet(LAMBDA d, before : IndexDatom(before, d), view, LAMBDA d : d, LastOf, D)

\* from_datoms and from_primary.
Rebuilt(V) == IndexAll({}, UNION {Asserts(t) \cup Retracts(t) : t \in V})

\* apply_datoms; a file lists a retraction before the assertion that follows.
Applied(view, t) == IndexAll(IndexAll(view, Retracts(t)), Asserts(t))

-----------------------------------------------------------------------------
LiveInit == Init /\ live = [p \in Process |-> {}]

LiveOpen(p, d) ==
  /\ OpenCached(p, d) \/ OpenRebuild(p, d)
  /\ live' = [live EXCEPT ![p] = Rebuilt(loaded'[p])]

LiveApply(p, t) ==
  /\ Apply(p, t)
  /\ live' = [live EXCEPT ![p] = Applied(@, t)]

LiveCommand(p) ==
  /\ Command(p)
  /\ \E t \in loaded'[p] \ loaded[p] : live' = [live EXCEPT ![p] = Applied(@, t)]

LiveExit(p) ==
  /\ Exit(p)
  /\ live' = [live EXCEPT ![p] = {}]

LiveNext ==
  \/ \E p \in Process :
       \/ \E d \in Dir : LiveOpen(p, d)
       \/ \E t \in pending[p] : LiveApply(p, t)
       \/ LiveCommand(p)
       \/ LiveExit(p)
       \/ Refresh(p) /\ UNCHANGED live
       \/ SaveCache(p) /\ UNCHANGED live
  \/ \E d, e \in Dir : CopyFile(d, e) /\ UNCHANGED live

LiveSpec == LiveInit /\ [][LiveNext]_liveVars

-----------------------------------------------------------------------------
\* live_value.
Shown(p, c) == {e.value : e \in {d \in live[p] : d.cell = c}}

\* No transaction only retracts the cell, and its latest value is one.
OnlyReplaced(V, c) ==
  /\ \A t \in V : (\E v \in ValueOf(c) : <<c, v>> \in t.retracts)
                    => \E v \in ValueOf(c) : <<c, v>> \in t.asserts
  /\ Cardinality(Latest(V, c)) <= 1

(***************************************************************************)
(* INV-STORE-012 as far as it holds: whatever part of a store was built    *)
(* and whatever was applied in which order, its live view shows the latest *)
(* value of a cell that is only retracted to be replaced, as the status of *)
(* a proposal is by accept and reject.                                     *)
(***************************************************************************)
LiveIsLatest ==
  \A p \in Process : \A c \in Cell :
    OnlyReplaced(loaded[p], c) => Shown(p, c) = Latest(loaded[p], c)

\* The values of c that no later transaction of V retracts.
Unretracted(V, c) ==
  {v \in ValueOf(c) :
     \E t \in V : /\ <<c, v>> \in t.asserts
                  /\ ~\E r \in V : <<c, v>> \in r.retracts /\ Precedes(t, r)}

(***************************************************************************)
(* INV-STORE-012 (spec/01-store.md:891): the live view has a value for a   *)
(* cell one of whose assertions was not retracted since.                   *)
(***************************************************************************)
LiveHasValue ==
  \A p \in Process : \A c \in Cell :
    Unretracted(loaded[p], c) # {} => Shown(p, c) # {}
==============================================================================
