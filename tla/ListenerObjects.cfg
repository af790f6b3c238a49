SPECIFICATION Spec
CONSTANTS
    l1 = l1  l2 = l2  x1 = x1  x2 = x2  x3 = x3  q1 = q1  r1 = r1
    c1 = c1  c2 = c2  s1 = s1  s2 = s2
    LBs = {l1, l2}
    Listeners = {x1, x2, x3}
    Policies = {q1}
    Rules = {r1}
    Certs = {c1, c2}
    LbOf <- MCLbOf
    ListenerOf <- MCListenerOf
    PolicyOf <- MCPolicyOf
    TlsOf <- MCTlsOf
    Slots = {s1, s2}
    Scenes <- MCScenes
    None = None
SYMMETRY Symmetry
CONSTRAINT NoneOverlapped
INVARIANTS
    TypeOK
    ActiveListenerServed
    ActivePolicyEnforced
    NoOrphanConfig
    NoOrphanCert
CHECK_DEADLOCK FALSE
