\* Two writers, two projects with a flow each, up to four tasks.
SPECIFICATION MCSpec
CONSTANTS
    w1 = w1
    w2 = w2
    p = p
    q = q
    a = a
    b = b
    c = c
    d = d
    Casts = {"all", "tree"}
    None = None
    Writers = {w1, w2}
    Managers = {w1}
    Tasks = {t1, t2, t3, t4}
    Projects = {p, q}
    Statuses = {a, b, c, d}
    HomeOf <- FlowHome
    Default <- FlowDefault
    Steps <- FlowSteps
    Gated <- FlowGated
    Ops <- AnyOps
SYMMETRY Symmetric
INVARIANTS TypeOK StatusOfProject LinksWithinProject
PROPERTIES LinkMadeWithin
