---------------------------- MODULE MCEventBox -----------------------------
(* EventBox with the events the coordinator waits for and two setters more. *)
EXTENDS EventBox
CONSTANTS ReadNew, ReadFin, SearchNew
MCEventType == {ReadNew, ReadFin, SearchNew}
MCIgnored == {ReadNew}
=============================================================================
