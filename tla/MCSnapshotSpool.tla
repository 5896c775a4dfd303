--------------------------- MODULE MCSnapshotSpool ---------------------------
(* Small instances of the snapshot spool for TLC.                          *)
EXTENDS SnapshotSpool
====
