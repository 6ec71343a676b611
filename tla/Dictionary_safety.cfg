CONSTANTS
    a = a
    b = b
    c = c
    left = left
    right = right
    String = {a, b, c}
    Empty = Empty
    Cap = 2
    Codes = 3
    Shard = {left, right}
    ShardOf <- TwoShards
    Thread = {t1, t2}
    Free = Free
    Row = {1, 2}
    Chunks <- TwoChunks
SPECIFICATION FairSpec
INVARIANTS TypeOK TableIsConsistent BoundRowsDecode
PROPERTIES RowsKeepTheirStrings ImplementsTable ShardsAreUnlocked
