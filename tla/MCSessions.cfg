SPECIFICATION SrvSpec
CONSTANTS
    Thread = {t1, t2, t3, t4}
    Session = {s1, s2}
    srv = srv  Srv = srv  lle = lle  hle = hle
    Port = {srv, lle, hle}
    HlePort = {srv, hle}
    MaxSessions <- MCMaxSessions
    NULL = NULL
SYMMETRY Symmetry
CHECK_DEADLOCK FALSE
INVARIANTS ConnectionsCounted RequestsAccounted NoTimeoutInReceive NoConnectionMissed DelayedMapSound
PROPERTIES WakeupMissedOnlyByReply RepliesReachRequesters
