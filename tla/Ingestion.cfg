\* Two messages, one interruption, one failing call and one change of the
\* connections; any organizations are connected at the start, under fairness.
CONSTANTS
  orgA = orgA
  orgB = orgB
  i1 = i1
  i2 = i2
  r1 = r1
  NoOrg = NoOrg
  Orgs <- MCOrgs
  Installations <- MCInstallations
  Repos <- MCRepos
  InstallationOf <- MCInstallationOf
  Public <- MCPublic
  Jobs <- MCJobs
  MaxMessages = 2
  MaxInterruptions = 1
  MaxFaults = 1
  MaxChanges = 1
SPECIFICATION FairSpec
INVARIANTS
  IngestionTypeOK
  NoEventSlips
  RunsBounded
  OwnerWasConnected
  RejectedForCause
PROPERTIES
  Settles
CHECK_DEADLOCK FALSE
