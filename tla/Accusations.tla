----------------------------- MODULE Accusations -----------------------------
(***************************************************************************)
(* Who signed two things for one position, in the logs of an authority     *)
(* (OrderedLogs), in chains of names and in directories (Descriptions).    *)
(***************************************************************************)
EXTENDS OrderedLogs, Descriptions

(* In every kind of signed log, receipts, names and directories, who signed  *)
(* two things for one position can be proven to have, to anybody, and nobody *)
(* else can (audit.ForkProof, naming.NameForkProof,                          *)
(* description.DirectoryForkProof).                                          *)
AccusedIffForked ==
  /\ HonestNeverAccused
  /\ EquivocationProven
  /\ ForkProofIffForked
  /\ DirForkIffForked
==============================================================================
