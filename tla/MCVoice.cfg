CONSTANTS
    s1 = s1  s2 = s2  t1 = t1  t2 = t2  a1 = a1  c1 = c1  c2 = c2
    Sockets = {s1, s2}
    Turns = {t1, t2}
    Agents = {a1}
    Conns = {c1, c2}
    AgentOf <- OneAgent
    MaxDeltas = 1
    MaxGen = 2
    MaxEvents = 3
    Selected = a1
    NoSocket = NoSocket  NoTurn = NoTurn  NoConn = NoConn  NoAgent = NoAgent
    Direct = Direct
SPECIFICATION Spec
INVARIANTS OneLiveTurn FinishedLetsGo StaleIsRetained SpokenInOrder NeverStuck
PROPERTIES DeviceIsTold SupersededIsSilent
SYMMETRY Symmetry
CHECK_DEADLOCK FALSE
