----------------------------- MODULE MCRespClient -----------------------------
EXTENDS RespClient

Option(password, breaker) ==
    [password |-> password, breaker |-> breaker, noise |-> FALSE, quits |-> FALSE]

MCConfigs ==
    {Option(p, b) : p, b \in BOOLEAN}
        \cup {[Option(p, FALSE) EXCEPT !.noise = TRUE] : p \in BOOLEAN}
        \cup {[Option(p, FALSE) EXCEPT !.quits = TRUE] : p \in BOOLEAN}

MCPlain == {Option(FALSE, FALSE)}
===============================================================================
