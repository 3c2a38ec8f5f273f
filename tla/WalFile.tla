------------------------------- MODULE WalFile -------------------------------
(***************************************************************************)
(* The operating system's file, as the write-ahead logs of the Python SDK  *)
(* use it (approval.Ledger, channels.WorkflowGate, delivery.Tracker): a    *)
(* sequence of length-framed records.  A file has two contents, what read  *)
(* and write see (the page cache) and what an fsync has made durable (the  *)
(* disk).  Records are whole: one flush hands one short record to the      *)
(* kernel.  Bytes that do not frame a record are a "torn" cell.            *)
(***************************************************************************)
EXTENDS Integers, Sequences

\* A write of record r at record position p (0-based): it extends the file, or,
\* when the position was taken before another writer's record landed there,
\* overwrites that record.
WriteAt(f, p, r) == IF p = Len(f) THEN Append(f, r) ELSE [f EXCEPT ![p + 1] = r]

\* Every content a power loss can leave: at least the durable length; each cell
\* above it is either its cached content or unreadable; a durable cell that was
\* overwritten in the cache since is its old or its new content.
AfterPowerLoss(disk, cache, torn) ==
  UNION { { [k \in 1..n |-> IF kept[k] THEN cache[k]
                            ELSE IF k <= Len(disk) THEN disk[k] ELSE torn]
            : kept \in [1..n -> BOOLEAN] }
          : n \in Len(disk)..Len(cache) }
==============================================================================
