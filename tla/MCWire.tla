------------------------------- MODULE MCWire -------------------------------
EXTENDS Wire

\* Frames with and without each of the parts.
MCSizes == << [vars |-> 2, data |-> 3], [vars |-> 1, data |-> 0], [vars |-> 0, data |-> 1],
              [vars |-> 0, data |-> 0], [vars |-> 3, data |-> 2] >>
=============================================================================
