---------------------------- MODULE MCConference ----------------------------
\* Three callers who all speak at two thirds of the scale: the mix of two clips.
EXTENDS Conference

MCSample == {2}
=============================================================================
