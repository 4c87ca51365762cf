SPECIFICATION FairSpec
CONSTANT Envs <- AllEnvs
CONSTANT Kinds = {"sd", "mmc", "mute"}
INVARIANT PoolBalanced
INVARIANT InsertionKnown
 
PROPERTY RemovalNoticed
PROPERTY CardServed
CHECK_DEADLOCK FALSE
