------------------------------ MODULE Checkpoint ------------------------------
(***************************************************************************)
(* The checkpoint thread: it reads the write-ahead log behind the commit   *)
(* thread's back and turns its entries into .edn transaction files, on     *)
(* every tick (passive) and when a harvest asks for it (full).  A full     *)
(* checkpoint then truncates the log.                                      *)
(*                                                                         *)
(* The log is shared with the commit thread: the module names its          *)
(* variables, and a module that composes the two declares them.            *)
(***************************************************************************)
EXTENDS WalFile

CONSTANTS
    Harvests,    \* the transactions whose request is a harvest with commit
    Faults       \* "io_error": the log cannot be read or cut, or a transaction
                 \* file not be created;
                 \* "write_error": a created transaction file cannot be written

VARIABLES
    wal,         \* the log file
    synced,      \* number of its frames known to be on stable storage
    edn,         \* state of the .edn file of each transaction
    pass,        \* the checkpoint under way
    step,        \* where that checkpoint stands
    offset,      \* CheckpointState.checkpoint_offset
    from,        \* the offset the current pass seeked to
    mailbox,     \* Full signals whose reply is still to be sent
    harvest      \* per harvest, what its connection thread waits for

logVars == <<wal, synced>>

Passes        == {"none", "passive", "full"}
PassSteps     == {"read", "write", "truncate"}
FileStates    == {"absent", "partial", "whole"}
HarvestStates == {"none", "waiting", "done", "error", "timeout", "lost"}

WholeFiles   == {t \in Tx : edn[t] = "whole"}
PartialFiles == {t \in Tx : edn[t] = "partial"}

MayFail == "io_error" \in Faults

Init ==
    /\ edn = [t \in Tx |-> "absent"]
    /\ pass = "none"
    /\ step = "read"
    /\ offset = 0
    /\ from = 0
    /\ mailbox = <<>>
    /\ harvest = [h \in Harvests |-> "none"]

-----------------------------------------------------------------------------
(* Connection threads. *)

\* After its dispatch and commit, a harvest sends Full and waits.
AskFull(h) ==
    /\ harvest[h] = "none"
    /\ harvest' = [harvest EXCEPT ![h] = "waiting"]
    /\ mailbox' = Append(mailbox, h)
    /\ UNCHANGED <<logVars, edn, pass, step, offset, from>>

\* recv_timeout gives up after 30 seconds; the signal stays in the channel.
GiveUp(h) ==
    /\ harvest[h] = "waiting"
    /\ harvest' = [harvest EXCEPT ![h] = "timeout"]
    /\ UNCHANGED <<logVars, edn, pass, step, offset, from, mailbox>>

-----------------------------------------------------------------------------
(* The checkpoint thread. *)

\* Mutant of Pending: the last entry of the log is never converted.
PendingButOne == Len(wal) > offset + 1

\* passive_checkpoint: nothing to do unless the log is longer than the offset.
Pending == Len(wal) > offset

\* recv_timeout returns empty-handed.
StartPassive ==
    /\ pass = "none"
    /\ mailbox = <<>>
    /\ Pending
    /\ pass' = "passive"
    /\ step' = "read"
    /\ from' = offset
    /\ UNCHANGED <<logVars, edn, offset, mailbox, harvest>>

\* Mutant of StartFull: the log is truncated without a pass over it.
StartFullUnread ==
    /\ pass = "none"
    /\ mailbox # <<>>
    /\ pass' = "full"
    /\ step' = "truncate"
    /\ from' = offset
    /\ UNCHANGED <<logVars, edn, offset, mailbox, harvest>>

StartFull ==
    /\ pass = "none"
    /\ mailbox # <<>>
    /\ pass' = "full"
    /\ step' = IF Pending THEN "read" ELSE "truncate"
    /\ from' = offset
    /\ UNCHANGED <<logVars, edn, offset, mailbox, harvest>>

\* The entry the iterator stands at, if it passes the iterator's checks.
AtEntry == pass # "none" /\ step = "read" /\ Yields(wal, from, offset + 1)
Entry   == wal[offset + 1].tx

\* write_tx_no_invalidate, first half: create_new makes the file appear.
CreateFile ==
    /\ AtEntry
    /\ edn[Entry] = "absent"
    /\ edn' = [edn EXCEPT ![Entry] = "partial"]
    /\ step' = "write"
    /\ UNCHANGED <<logVars, pass, offset, from, mailbox, harvest>>

\* create_new fails with AlreadyExists: taken for the same content.
SkipFile ==
    /\ AtEntry
    /\ edn[Entry] # "absent"
    /\ offset' = offset + 1
    /\ UNCHANGED <<logVars, edn, pass, step, from, mailbox, harvest>>

\* Mutant of FinishFile: the offset jumps to the end of the log.
FinishFileToEnd ==
    /\ step = "write"
    /\ edn' = [edn EXCEPT ![Entry] = IF @ = "partial" THEN "whole" ELSE @]
    /\ offset' = Len(wal)
    /\ step' = "read"
    /\ UNCHANGED <<logVars, pass, from, mailbox, harvest>>

\* write_tx_no_invalidate, second half: written and fsynced, under whatever
\* name the file has by now.
FinishFile ==
    /\ step = "write"
    /\ edn' = [edn EXCEPT ![Entry] = IF @ = "partial" THEN "whole" ELSE @]
    /\ offset' = offset + 1
    /\ step' = "read"
    /\ UNCHANGED <<logVars, pass, from, mailbox, harvest>>

\* The loop ends; a full checkpoint goes on to truncate, however it ended.
EndPass ==
    /\ IF pass = "full"
       THEN pass' = pass /\ step' = "truncate"
       ELSE pass' = "none" /\ step' = "read"
    /\ UNCHANGED <<logVars, offset, from, mailbox, harvest>>

\* The end of the log, an entry that fails a check, or a file that cannot be
\* created: there the next tick goes on.
StopReading ==
    /\ pass # "none"
    /\ step = "read"
    /\ MayFail \/ ~Yields(wal, from, offset + 1)
    /\ EndPass
    /\ UNCHANGED edn

\* write_all or sync_all fails. The file that create_new made stays, and the next
\* tick will take it for the entry's.
FileFails ==
    /\ "write_error" \in Faults
    /\ step = "write"
    /\ EndPass
    /\ UNCHANGED edn

\* Mutant of ReplyFull: an early return drops the reply channel unanswered.
ReplyNothing(outcome) ==
    /\ outcome \in HarvestStates
    /\ mailbox' = Tail(mailbox)
    /\ pass' = "none"
    /\ step' = "read"
    /\ UNCHANGED <<edn, from, harvest>>

\* The reply to the harvest, unless it has stopped waiting.
ReplyFull(outcome) ==
    /\ harvest' = [harvest EXCEPT ![Head(mailbox)] =
                     IF @ = "waiting" THEN outcome ELSE @]
    /\ mailbox' = Tail(mailbox)
    /\ pass' = "none"
    /\ step' = "read"
    /\ UNCHANGED <<edn, from>>

\* full_checkpoint empties the log through a writer of its own.
Truncate ==
    /\ step = "truncate"
    /\ wal' = <<>>
    /\ synced' = 0
    /\ offset' = 0
    /\ ReplyFull("done")

\* An error before the file is cut, or after it (the fsync): the offset stays.
TruncateFails ==
    /\ step = "truncate"
    /\ MayFail
    /\ \/ UNCHANGED logVars
       \/ wal' = <<>> /\ synced' = 0
    /\ UNCHANGED offset
    /\ ReplyFull("error")

CheckpointThread ==
    \/ StartPassive \/ StartFull
    \/ CreateFile \/ SkipFile \/ FinishFile \/ FileFails \/ StopReading
    \/ Truncate \/ TruncateFails

-----------------------------------------------------------------------------
(* The death of the process, and the start of the next one. *)

\* What the thread has in memory; the file it was writing stays as it is.
Vanish ==
    /\ pass' = "none"
    /\ step' = "read"
    /\ mailbox' = <<>>
    /\ harvest' = [h \in Harvests |-> IF harvest[h] = "waiting" THEN "lost"
                                      ELSE harvest[h]]
    /\ offset' = 0
    /\ from' = 0

\* DiskLayout::read_tx on a file that is not whole: the content does not hash
\* to the name, so the file is moved out of the way.
Quarantine(S) ==
    /\ edn' = [t \in Tx |-> IF t \in S THEN "absent" ELSE edn[t]]
    /\ UNCHANGED <<logVars, pass, step, offset, from, mailbox, harvest>>

=============================================================================
