---------------------------- MODULE MCTimeAnomaly ----------------------------
(* Finite instances of TimeAnomaly: the values of its constants.             *)
EXTENDS TimeAnomaly

CONSTANTS a1, a2, p1, p2

\* Two runs for one slot: concurrent detections of the same pay period.
SameSlot == [r \in Runs |-> p1]

\* The event vocabulary of migration 046, of the events the alert handlers write.
Migration046Events ==
    {"detected", "sms_sent", "sms_skipped_no_consent", "closed", "hitl_assigned"}
Migration046Actors == {"agent", "user", "system"}

\* The vocabulary the handlers write and their tests expect.
WrittenEvents == EventTypes
WrittenActors == {"agent", "user", "system", "human"}

\* Resolutions a reviewer may send: one the CHECK accepts, one it does not.
SentResolutions == {"hitl_resolved", "called_employee"}
=============================================================================
