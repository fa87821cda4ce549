SPECIFICATION MCSpec
CONSTANTS
    None = None
    k1 = k1
    k2 = k2
    Parts = {"streams", "webhooks", "keyspace", "lists", "sets", "zsets", "hashes"}
INVARIANTS
    WebhooksKept
    
    ListsKept
    
    
    
PROPERTIES
    
    StreamsImplement
CHECK_DEADLOCK FALSE
