SPECIFICATION LeanSpec
CONSTANTS
    Calls = {v1, v2}
    Nil = nil
    MaxGen = 1
INVARIANT
    OwnReply
\* each call is made once
CHECK_DEADLOCK FALSE
