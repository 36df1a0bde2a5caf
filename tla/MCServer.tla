------------------------------ MODULE MCServer ------------------------------
EXTENDS Server
CONSTANTS p1, p2
Newest == Len(Migrations)
Builds(v) == [p \in {p1, p2} |-> IF p = p1 THEN Newest ELSE v]
MCSetups == {[build |-> Builds(Newest), imager |-> {p2}],
             [build |-> Builds(29), imager |-> {}],
             [build |-> Builds(40), imager |-> {}]}
=============================================================================
