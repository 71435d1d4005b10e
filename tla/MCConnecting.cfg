SPECIFICATION FairSpec
CONSTANT Parts = {"regist", "senkusha", "discovery", "request", "channel", "messages", "holepunch", "candidates", "stun", "provision", "pings"}
INVARIANTS FindingSafe   
PROPERTY ConnectingEnds
CHECK_DEADLOCK FALSE
