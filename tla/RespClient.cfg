SPECIFICATION ClientSpec
CONSTANTS
  Commands = {"a", "b", "c"}
  Multis = {"c"}
  Configs <- MCConfigs
  MaxGen = 4
  MaxNoise = 1
INVARIANT OwnReply
PROPERTIES CommandsSettle
CHECK_DEADLOCK FALSE
