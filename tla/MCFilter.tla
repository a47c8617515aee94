------------------------------ MODULE MCFilter -------------------------------
EXTENDS Filter
CONSTANTS A, B, a, b
Parts == {<<0, 1>>, <<1, 2>>}
Sectors == {<<A, 1>>}
=============================================================================
