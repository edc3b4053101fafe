\* One customer, the owner and a member of one team; two handlers beside the team's changes.
SPECIFICATION AccountsSpec
SYMMETRY HandlerSymmetry
CONSTANTS
    Users = {1, 2}
    Owner = 2
    Operators = {o1}
    Staff = staff
    Objects = {"CUSTOMER"}
    Procs = {p1, p2}
    NoUser = NoUser
    NoOperator = NoOperator
    NoProc = NoProc
CHECK_DEADLOCK FALSE
INVARIANTS
    
    NothingOwedIsDeleted
    MembersAreAlive
    ErasedMediaIsQueued
PROPERTIES
    TeamGoesWithItsOperator
