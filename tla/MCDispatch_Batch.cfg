SPECIFICATION Spec
CONSTANTS
    r1 = r1 r2 = r2 p = p q = q
    i1 = i1 i2 = i2 t1 = t1 t2 = t2 s1 = s1 s2 = s2 d1 = d1 n1 = n1 k1 = k1
    Requests = {r1, r2}
    Projects = {p, q}
    Rows = {i1, i2, t1, t2, s1, s2, d1, n1, k1}
    KindOf <- MCKindOf
    Present <- MCPresent
    TokensOf <- MCTokensOf
    Switches <- MCSwitches
    BatchSize <- MCBatchSize
    None = None
INVARIANT NeverA500
