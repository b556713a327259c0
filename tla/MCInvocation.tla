---------------------------- MODULE MCInvocation ----------------------------
EXTENDS Invocation

Exchange(kind) == [kind |-> kind, prefix |-> FALSE, capture |-> FALSE, limited |-> FALSE,
                   discard |-> FALSE, renders |-> TRUE]

MCExchanges ==
    LET all == {Exchange(k) : k \in {"local", "edge", "proxy", "external"}}
               \cup {[Exchange("local") EXCEPT !.prefix = TRUE],
                     [Exchange("local") EXCEPT !.capture = TRUE],
                     [Exchange("local") EXCEPT !.discard = TRUE],
                     [Exchange("local") EXCEPT !.renders = FALSE]}
    IN  all \cup {[e EXCEPT !.limited = TRUE] : e \in {a \in all : a.kind # "external"}}

MCEdge == {[Exchange("edge") EXCEPT !.limited = TRUE]}
=============================================================================
