SPECIFICATION FairSpec
CONSTANTS
    Workers = {w1, w2, w3}
    k1 = k1
    k2 = k2
    k3 = k3
    s1 = s1
    s2 = s2
    Keys <- MCKeys
    Shards <- MCShards
    ShardOf <- MCShardOf
    NoOne = NoOne
    MaxBreakers = 2
INVARIANTS TypeOK CounterIsExact WithinLimit RefusedOnlyWhenFull OneBreakerPerKey
PROPERTY EveryCallReturns
