--------------------------- MODULE MC_ExternalSignal ---------------------------
EXTENDS ExternalSignal

\* A one-digit and a three-digit id, two keys so that a payload can hold
\* two pairs in either order, and the indents of the compact layout, of
\* two spaces, and of the four spaces of the documented example.
MCIds == {<<"7">>, <<"1", "2", "3">>}
MCKeys == {<<"a">>, <<"b">>}
MCVals == {<<"x">>}
MCIndents == {0, 2, 4}
=============================================================================
