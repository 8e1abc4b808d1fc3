------------------------------- MODULE MCEcho -------------------------------
\* Small instances of Echo: see echo.cfg and echo_lost_key.cfg.
EXTENDS Echo
=============================================================================
