------------------------------- MODULE MCCart -------------------------------
EXTENDS Cart

CONSTANTS s1, s2

MCSessions == {s1, s2}
MCProducts == {"milk", "bread"}
=============================================================================
