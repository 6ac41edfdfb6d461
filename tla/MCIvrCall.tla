------------------------------ MODULE MCIvrCall ------------------------------
EXTENDS IvrCall

CONSTANTS ours, theirs, none

Id        == <<7>>
Three     == <<3>>
BothCalls == {ours, theirs}
TwoPlaces == {3, 6}
=============================================================================
