\* Four lines of three cells; small objects in one line or over two, medium ones over two and three lines.
SPECIFICATION Spec
CONSTANTS
    LINE = 3
    LINES = 4
    Sizes = {2, 4, 7}
INVARIANTS
    ObjectsFound
    DeadStayDead
    LinesCover
PROPERTIES
    SweptHolesExact
    ImplementsStore
CHECK_DEADLOCK FALSE
