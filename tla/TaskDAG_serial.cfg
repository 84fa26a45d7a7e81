SPECIFICATION Spec
CONSTANTS
    t1 = t1  t2 = t2  t3 = t3  t4 = t4  c1 = c1  c2 = c2  p1 = p1  p2 = p2
    Tasks = {t1, t2, t3}
    Clients = {c1}
    EdgeWriters = {c1}
    Deadlines = {c1}
    Statuses = {"open", "ready", "closed"}
    ProjectOf <- OneProject
    Containers = {}
SYMMETRY TaskSymmetry
INVARIANT Acyclic
PROPERTY ImplementsAtomicDAG
