------------------------ MODULE MCTelemetryJournal ------------------------
EXTENDS TelemetryJournal, TLC

Identities == Permutations(Opens) \cup Permutations(Requests)
============================================================================
