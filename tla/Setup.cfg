SPECIFICATION MCSpec
INVARIANTS ListedInOrder 
PROPERTY StatementsFit
CONSTANTS
  Nil = Nil
  MaxStartup = 15
  Setups <- MCSetups
  UserFields <- MCUserFields
  Null = Null
  Structs <- MCStructs
  Keys = {1, 2}
  Values = {0, 1}
  EtcdConfs <- MCEtcdConfs
  RedisConfs <- MCRedisConfs
  CassandraConfs <- MCCassandraConfs
\* NewAgent returns, and a client is made once.
CHECK_DEADLOCK FALSE
