SPECIFICATION Spec
CONSTANTS
    w1 = w1
    w2 = w2
    s1 = s1
    p1 = p1
    p2 = p2
    a1 = a1
    a2 = a2
    Worker = {w1, w2}
    Sender = {s1}
    Ip = {a1, a2}
    Port = {p1, p2}
    Wild = Wild
    Nil = Nil
    MaxNodes = 3
INVARIANTS
    TypeOK
    AnswersRight
SYMMETRY MCSymmetry
CHECK_DEADLOCK FALSE
