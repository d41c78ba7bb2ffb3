CONSTANTS
    Creator = {n1}
    Updater = {u1, u2}
    Deleter = {d1}
    Importer = {i1}
    Adder = {a1}
    Course = {c1, c2}
    Class = {o1, o2}
    User = {s1}
    MaxRequests = 3
    MaxEvents = 1
    None = None
SPECIFICATION Spec
SYMMETRY Symmetry
VIEW View
INVARIANTS TypeOK Agreement NoOrphan Deletable
PROPERTIES ClosedRosterKept
CHECK_DEADLOCK FALSE
