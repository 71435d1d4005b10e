SPECIFICATION FairSpec
CONSTANT Parts = {"audio", "keys", "position", "rudp", "sending", "send_buffer", "feedback"}
CONSTANTS AudioCircle = 8 Source = 2 Fec = 1 AudioPackets = 6 MaxFaults = 2 MaxReports = 1
CONSTANTS AudioStarts = {0, 3} Wide = 4096 MaxLossPercent = 5
CONSTANTS Hold = 3 Pulse = 1 MaxWait = 2 HistorySize = 2
CONSTANTS ChunkCells = 2 Chunks = 3 Cells = 10 MaxAsk = 2
CONSTANTS Circle = 8 MaxPos = 14 GmacRefresh = 3 Jitter = 3
CONSTANTS RudpCircle = 16 RudpThreads = {"ctrl", "session"} FirstCounter = 14
CONSTANTS Messages = 2 Tries = 2 RudpSize = 1 RudpTries = 1
CONSTANTS DataThreads = {"stream", "takion"} AckThread = "takion" CongestionThread = "congestion"
CONSTANTS Sizes = {3} AckSize = 3 CongestionSize = 5 FeedbackSizes = {5} MicSize = 6
CONSTANTS Block = 4 SizeMax = 24 MaxSends = 3 MaxFrames = 4 MaxFailures = 1
CONSTANTS BufferCircle = 8 BufferThreads = {"t1", "t2"} FirstNumber = 7
CONSTANTS BufferSends = 3 BufferSize = 2 BufferTries = 1 DueAge = 1
INVARIANTS MediaSafe SendersSafe InputSafe
PROPERTIES ChordFiresOnce TransportEnds
CHECK_DEADLOCK FALSE
