SPECIFICATION MCSpec
CONSTANTS
    Rooms = {r1}
    Callers = {c1}
    Interval = 1
    Jitter = 1
    Gaps = {0, 2}
    Generations = 2
    Changes = 1
    Platforms = {"bilibili","douyu","huya","douyin","kuaishou","acfun","huajiao","cc","qq","openrec","zhanqi","yizhibo","hongdoufm","weibolive","missevan","lang","xiaohongshu","twitch","yy"}
    SoopRooms = {"r1", "r2"}
    MaxLogins = 2
    Losses = 0
    Tokens = {"t1"}
    Players = {"p1", "p2"}
    MaxSessions = 1
    SessionTTL = 1
    CacheTTL = 1
    MaxStreams = 2
CHECK_DEADLOCK FALSE
INVARIANTS ReportsWhatItHeard  RetryIsNew
 
