SPECIFICATION FairSpec
CONSTANTS
  Keys = {k1, k2}
  Routes = {r1}
  MaxTries = 1
  BatchLimit = 1
  MaxRestarts = 1
INVARIANTS SentIsAccepted StopFollowsSubmission
PROPERTIES RevokedIsFinal DeliveryIsLearnt
