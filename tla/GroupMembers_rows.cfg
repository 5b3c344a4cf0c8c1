\* Three calls, any of twelve, on a group of two with a limit of four.
SPECIFICATION FairGroupSpec
CONSTANTS
    o = o
    a = a
    b = b
    c = c
    r1 = r1
    r2 = r2
    r3 = r3
    NoReq = NoReq
    Users = {o, a, b, c}
    Reqs = {r1, r2, r3}
    Calls <- MCCalls
    Owner = o
    Founders = {o, a}
    MaxNum = 4
INVARIANTS
    TypeOK
    OneRowPerInvited
    InvitedStayBelow

    
CHECK_DEADLOCK FALSE
