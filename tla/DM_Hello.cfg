CONSTANTS
    c1 = c1
    c2 = c2
    c3 = c3
    k1 = k1
    Conn = {c1, c2, c3}
    SwitchOf <- MC_SwitchOf
    Ports = {1, 2}
    Versions = {0, 1, 4}
    Callers = {k1}
    NoConn = NoConn
INIT DMInit
NEXT DMNext
\* The model has finitely many connections: it stops once every Run has
\* returned, or the process has panicked.
CHECK_DEADLOCK FALSE
INVARIANT OnlyOF10Registered
