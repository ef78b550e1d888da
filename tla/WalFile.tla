------------------------------- MODULE WalFile -------------------------------
(***************************************************************************)
(* The write-ahead log file (.braid/.cache/wal.bin) as its readers see it: *)
(* a sequence of frames, each holding one transaction and the chain hash   *)
(* H(hash of the frame before, content).  A frame whose bytes are not all  *)
(* there has whole = FALSE: its length or CRC check fails, and nothing     *)
(* behind it can be parsed.                                                *)
(*                                                                         *)
(* BLAKE3 is taken to be free of collisions, so a chain hash is            *)
(* represented by what it hashes: the transactions from genesis up to and  *)
(* including the frame.  Byte offsets are counted in frames.               *)
(***************************************************************************)
EXTENDS Naturals, Sequences

CONSTANT Tx      \* the transactions (TxFile contents) that are ever logged

GenesisHash == <<>>

ChainHash(prev, t) == Append(prev, t)

Frames == [tx : Tx, hash : Seq(Tx), whole : BOOLEAN]

\* WalWriter::append: the frame a writer whose chain hash is prev writes for t.
Frame(prev, t) == [tx |-> t, hash |-> ChainHash(prev, t), whole |-> TRUE]

\* The same frame, of which only some of the bytes reached the file.
Torn(f) == [f EXCEPT !.whole = FALSE]

HashBefore(file, i) == IF i = 1 THEN GenesisHash ELSE file[i - 1].hash

\* The checks one frame passes: length, CRC32, and chain hash.
Linked(file, i) ==
    /\ file[i].whole
    /\ file[i].hash = ChainHash(HashBefore(file, i), file[i].tx)

\* WalReader::iter and WalWriter::recover_state: frames are accepted from the
\* start of the file up to the first one that fails a check.
Readable(file) == {i \in DOMAIN file : \A j \in 1 .. i : Linked(file, j)}

ReadTxs(file) == {file[i].tx : i \in Readable(file)}

\* recover_state returns after n frames with the chain hash RecoveredHash.
RecoversAt(file, n) == n \in 0 .. Len(file) /\ Readable(file) = 1 .. n

RecoveredHash(file, n) == HashBefore(file, n + 1)

\* WalReader::iter_from(from) standing at frame i: the chain check is skipped
\* for the first frame it reads, unless that is the first frame of the file.
Yields(file, from, i) ==
    /\ i \in DOMAIN file
    /\ file[i].whole
    /\ \/ Linked(file, i)
       \/ i = from + 1 /\ from > 0

=============================================================================
