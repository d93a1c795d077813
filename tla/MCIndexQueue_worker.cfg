SPECIFICATION MCSpec
CONSTANTS
  Memos = {m1, m2}
  Models = {off, a}
  Off = off
  MaxAttempts = 2
  MaxLimits = 2
  MaxEvents = 4
  MaxShared = 2
INVARIANTS TypeOK WorkerInv SettledMeansSearchable DoneMeansEmbedded NothingForgotten
PROPERTIES FailedOnlyAfterRetries Settles KeepsIndex
