SPECIFICATION MCSpec
CONSTANTS
    w1 = w1
    w2 = w2
    p = p
    q = q
    a = a
    b = b
    c = c
    d = d
    Casts = {"any"}
    None = None
    Writers = {w1, w2}
    Managers = {w1}
    Tasks = {t1}
    Projects = {p, q}
    Statuses = {a, b, c, d}
    HomeOf <- FlowHome
    Default <- FlowDefault
    Steps <- FlowSteps
    Gated <- FlowGated
    Ops <- StatusOps
PROPERTIES FlowFollowed
