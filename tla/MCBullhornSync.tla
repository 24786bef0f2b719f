---------------------------- MODULE MCBullhornSync ----------------------------
(* Finite instances of BullhornSync.                                         *)
EXTENDS BullhornSync

TwoRecords == 1..2

\* Every fault of the event path.
EventFaults == {"poller", "consumer", "fetch", "expiry", "retention"}
=============================================================================
