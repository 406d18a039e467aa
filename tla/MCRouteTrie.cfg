CONSTANTS
    Bytes       = {"a", "b"}
    Domains     <- ShortWords
    HostNames   <- LongerWords
    MatchTypes  = {"deny", "direct", "proxy"}
    DefaultRule = "proxy"
    NoMatch     = NoMatch
    MaxLines    = 3
SPECIFICATION TrieSpec
INVARIANTS LongestRuleWins PanicsOnlyOnPath
CHECK_DEADLOCK FALSE
