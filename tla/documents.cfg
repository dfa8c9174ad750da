CONSTANTS
  FirstDocId = 1000
  MaxFiles = 3
  MaxPackets = 2
  MaxTurns = 2
SPECIFICATION DocumentsSpec
INVARIANT IdsNameDocuments
INVARIANT NoDocumentTwice
INVARIANT ListComplete
INVARIANT ServerSurvives
INVARIANT IndInv
INVARIANT StateFollowsSocket
PROPERTY PollingStops
PROPERTY ListAskedOnce
PROPERTY ListArrives
