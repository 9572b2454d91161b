--------------------------- MODULE UploadLifecycle ---------------------------
(***************************************************************************)
(* What a closable upload store promises, without tasks, locks, threads or *)
(* cancellation: while it is open it admits uploads; closing it stops      *)
(* admission at once; the connection pool goes away only when no admitted  *)
(* upload is in flight; an admitted upload ends.                           *)
(*                                                                         *)
(* RustfsStore implements this specification.                              *)
(***************************************************************************)

CONSTANT Uploads

VARIABLES
    phase,     \* "open", "draining" (closing, pool still there), "closed"
    status     \* of each upload: "new", "refused", "inflight" or "ended"

vars == <<phase, status>>

TypeOK ==
    /\ phase \in {"open", "draining", "closed"}
    /\ status \in [Uploads -> {"new", "refused", "inflight", "ended"}]

Init ==
    /\ phase = "open"
    /\ status = [u \in Uploads |-> "new"]

Admit(u) ==
    /\ phase = "open"
    /\ status[u] = "new"
    /\ status' = [status EXCEPT ![u] = "inflight"]
    /\ UNCHANGED phase

Refuse(u) ==
    /\ phase # "open"
    /\ status[u] = "new"
    /\ status' = [status EXCEPT ![u] = "refused"]
    /\ UNCHANGED phase

End(u) ==
    /\ status[u] = "inflight"
    /\ status' = [status EXCEPT ![u] = "ended"]
    /\ UNCHANGED phase

BeginClose ==
    /\ phase = "open"
    /\ phase' = "draining"
    /\ UNCHANGED status

ClosePool ==
    /\ phase = "draining"
    /\ \A u \in Uploads : status[u] # "inflight"
    /\ phase' = "closed"
    /\ UNCHANGED status

Next ==
    \/ \E u \in Uploads : Admit(u) \/ Refuse(u) \/ End(u)
    \/ BeginClose
    \/ ClosePool

\* Safety alone: what RustfsStoreProofs shows every step of the store keeps.
SafetySpec == Init /\ [][Next]_vars

\* An admitted upload ends. Nothing is promised about when, or whether, the
\* store is closed: that is up to its users.
Spec == SafetySpec /\ \A u \in Uploads : WF_vars(End(u))
=============================================================================
