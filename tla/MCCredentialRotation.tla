------------------------ MODULE MCCredentialRotation ------------------------
(* Instances of CredentialRotation for TLC.                                 *)
EXTENDS CredentialRotation
=============================================================================
