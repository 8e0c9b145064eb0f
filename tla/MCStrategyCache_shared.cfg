SPECIFICATION Spec
CONSTANTS
    Conns = {c1, c2}
    c1 = c1
    c2 = c2
    Params = 3
    Layouts = {{1, 2}, {1}}
    Cures = {{0}, {1}, {2}}
PROPERTIES
    GetsThrough
