CONSTANTS
    Login = {l1}
    Callback = {s1}
    Change = {p1}
    Visit = {v1}
    Exchange = {x1, x2}
    User = {u1}
    Key = {k1, k2, k3}
    Ticket = {t1, t2}
    Life = 2
    Renewal = 2
    Grace = 1
    TicketLife = 1
    MaxTime = 3
    MaxHash = 1
    None = None
SPECIFICATION Spec
SYMMETRY Symmetry
INVARIANTS TypeOK SessionsCurrent
PROPERTIES TicketOnce NoRevival
CHECK_DEADLOCK FALSE
