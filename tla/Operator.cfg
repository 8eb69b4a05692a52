CONSTANTS
  healthz = healthz
  restart = restart
  Nobody = Nobody
  NoTopic = NoTopic
  Topics = {healthz, restart}
  RestartTopics = {restart}
  MaxLosses = 1
  MaxRequests = 1
SPECIFICATION FairSpec
CHECK_DEADLOCK FALSE
INVARIANTS OperatorTypeOK StartedMeansAll NoStopInKickOff
PROPERTIES ReconnectRestores EndsWhenAsked RequestsComeBack EventuallyConnected PartialFailureEnds
