----------------------- MODULE MCApplicationLifecycle -----------------------
(* Two callers, two interfaces: i1 depends on i2 with a constraint i2's     *)
(* version meets, i2 depends on i1 with one i1's version fails.            *)
EXTENDS ApplicationLifecycle

CONSTANTS c1, c2, i1, i2

MCCallers == {c1, c2}
MCIfaces == {i1, i2}
MCDeps == [i \in MCIfaces |-> IF i = i1 THEN {i2} ELSE {i1}]
MCAccepts == {<<i1, i2>>}

WriterOps == {"register", "unregister"}

\* c1 makes every call; c2 every call but the registry writes and
\* ServiceKeys, so no ServiceKeys call races a writer.
OneWriter ==
    [c \in MCCallers |-> IF c = c1 THEN OpNames ELSE OpNames \ (WriterOps \cup {"keys"})]

\* Both callers make every call.
AllOps == [c \in MCCallers |-> OpNames]
====
