------------------------------- MODULE MCNetns -------------------------------
EXTENDS Netns, TLC

CONSTANTS c1, c2, h1, h2

MCCallers == {c1, c2}
TwoHolders == {h1, h2}
AllFaults == {"exit", "crash", "start"}
=============================================================================
