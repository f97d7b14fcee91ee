---------------------------- MODULE MCZoxideImport ----------------------------
EXTENDS ZoxideImport

MCFileRows  == <<"/code/old", "/code/new">>
\* Below one visit, on either side of a half, and beyond the largest number of
\* visits of a row.
MCRanks == {-3, 14, 15, 40}
=============================================================================
