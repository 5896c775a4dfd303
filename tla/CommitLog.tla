------------------------------ MODULE CommitLog ------------------------------
(***************************************************************************)
(* What the relay host's state store promises its users (hostState.ts):    *)
(* commits take effect atomically, one after the other, and the log of an  *)
(* epoch only grows; when the files are lost or damaged a wholly new and   *)
(* empty epoch begins, never one that was in force before.  HostState is   *)
(* the pair of files that is meant to implement it.                        *)
(***************************************************************************)
EXTENDS Naturals

VARIABLES
    epoch,      \* the epoch in force, 0 for none
    log,        \* the commits of that epoch
    past        \* epochs that were in force before

vars == <<epoch, log, past>>

Append(c) ==
    /\ epoch # 0 /\ c \notin log
    /\ log' = log \cup {c}
    /\ UNCHANGED <<epoch, past>>

Break ==
    /\ epoch # 0
    /\ epoch' = 0 /\ log' = {} /\ past' = past \cup {epoch}

Begin(e) ==
    /\ epoch = 0 /\ e \notin past \cup {0}
    /\ epoch' = e /\ log' = {}
    /\ UNCHANGED past

Init == epoch = 0 /\ log = {} /\ past = {}

Next ==
    \/ Break
    \/ \E c \in log' : Append(c)
    \/ Begin(epoch')

Spec == Init /\ [][Next]_vars
=============================================================================
