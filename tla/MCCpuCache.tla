---------------------------- MODULE MCCpuCache ----------------------------
\* Small instances of CpuCache: see cpu_cache.cfg.
EXTENDS CpuCache

\* A program whose bytes are all zero, so that what is written shows.
ZeroImages == {[a \in Addr |-> 0]}
=============================================================================
