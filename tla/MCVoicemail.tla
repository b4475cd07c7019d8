----------------------------- MODULE MCVoicemail -----------------------------
\* A frame that fills its segments, one that does not, and a silent one.
EXTENDS Voicemail

MCFrame == {[len |-> 4, silent |-> FALSE], [len |-> 3, silent |-> FALSE], [len |-> 1, silent |-> TRUE]}
=============================================================================
