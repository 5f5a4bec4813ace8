-------------------------- MODULE MCSessionManager --------------------------
(* Small instances of SessionManager for TLC. *)
EXTENDS SessionManager, TLC

(* A behaviour has calls about the authentication lock or about the session lock, not of both. *)
OneKindOfLock ==
  \/ \A h \in Lock \cup Unlock : at[h] = "idle"
  \/ \A h \in Block \cup Unblock : at[h] = "idle"
=============================================================================
