--------------------------- MODULE ManagedRegistry ---------------------------
(***************************************************************************)
(* What the managed-session registry promises its callers: every completed *)
(* record or remove takes effect on the registry as it is at that moment,  *)
(* as if the file were updated atomically.  ManagedStateLock is the        *)
(* directory lock and the load-modify-save that are meant to implement it. *)
(***************************************************************************)
CONSTANT Name           \* session names

VARIABLE sessions       \* the names in the registry file

(* recordManagedSession upserts one record, removeManagedSession filters   *)
(* one name out.                                                           *)
Record(n) == sessions' = sessions \cup {n}

Remove(n) == sessions' = sessions \ {n}

Init == sessions = {}

Next == \E n \in Name : Record(n) \/ Remove(n)

Spec == Init /\ [][Next]_sessions
=============================================================================
