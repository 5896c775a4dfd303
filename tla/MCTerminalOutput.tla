-------------------------- MODULE MCTerminalOutput --------------------------
(* A small instance of TerminalOutput for TLC, with the fairness of its    *)
(* parts: the host takes what arrives, the client reconnects, reattaches a *)
(* view that was told to reset, and its renderer and parser go on.         *)
EXTENDS TerminalOutput

FairSpec ==
    /\ Spec
    /\ \A r \in Routes :
        /\ WF_vars(ReceiveOpen(r)) /\ WF_vars(ReceiveAck(r))
        /\ WF_vars(CloseRoute(r)) /\ WF_vars(ReceiveUnbind(r))
    /\ WF_vars(Connect) /\ WF_vars(Attach) /\ WF_vars(Detach)
    /\ WF_vars(applyPostHandshakeFrame) /\ WF_vars(Render)
    /\ WF_vars(ParserCallback) /\ WF_vars(parserEffectsActivated)

(* A stream that was lost is replaced by a fresh generation: once faults   *)
(* end, the client shows all that a running terminal wrote                 *)
(* (backendResetRequired: "a later terminal.open reconciles it as a        *)
(* reset").                                                                *)
LostIsReplaced == <>[]Shown
=============================================================================
