\* Two accounts of one person, two requests, one message handled at a time.
SPECIFICATION ConversationSpec
SYMMETRY ConversationSymmetry
CONSTANTS
    Customers = {c1, c2}
    Operator = op
    Requests = {r1, r2}
    Deliveries = {d1}
    Masked = {c1}
    Writers = {c1}
    MaxStaff = 1
    NoAccount = NoAccount
    NoRequest = NoRequest
    NoSession = NoSession
    NoMessage = NoMessage
INVARIANTS
    CustomerIsAskedInTurn
    
    
    
CHECK_DEADLOCK FALSE
