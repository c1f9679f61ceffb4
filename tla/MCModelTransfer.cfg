SPECIFICATION TransferSpec
CONSTANTS
  Transfers = {"skip", "replace"}
  Replacing = {"replace"}
  MaxReceivers = 1
  MaxEdits = 2
  MaxFaults = 2
\* Transfers end and nobody has to start another.
CHECK_DEADLOCK FALSE
INVARIANTS CredentialFits
PROPERTIES MatchingIsKept CancelledStaysOut
