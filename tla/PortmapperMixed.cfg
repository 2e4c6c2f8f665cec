CONSTANTS
    m1 = m1
    m2 = m2
    Managers = {m1, m2}
    None = None
    Gone = Gone
    MaxRunning = 2
SPECIFICATION Spec
INVARIANTS
    TcpCheckIsSufficient
