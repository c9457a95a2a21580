\* Four tool calls over two extension routes, one mock route and one script.
SPECIFICATION Spec
CONSTANTS
    Calls = {c1, c2, c3, c4}
    Routes = {r1, r2, m1}
    Mocks = {m1}
    Scripts = {s1}
SYMMETRY Symmetry
INVARIANTS
    TypeOK
    RouteTablesAgree
    UnroutedIsFinal
    ScriptsStayRemovable
CHECK_DEADLOCK FALSE
