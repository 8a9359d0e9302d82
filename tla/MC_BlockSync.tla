---------------------------- MODULE MC_BlockSync ----------------------------
EXTENDS BlockSync
MCStarts == {1, 3, 6}
MCForks == {0, 1}
MCStales == {0, 1}
=============================================================================
