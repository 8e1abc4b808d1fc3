---------------------------- MODULE MCIdeDriver ----------------------------
\* Small instances of IdeDriver: see the ide_*.cfg files.
EXTENDS IdeDriver

\* An image whose words all differ, so that a read of the wrong word shows.
DistinctImages == {[off \in Offsets |-> off]}

ZeroImages == {[off \in Offsets |-> 0]}
=============================================================================
