-------------------------- MODULE UpdateHandshakeMC --------------------------
\* Two applications, of which one waits for the gate without a limit, and two
\* helpers, so that a restart and a recovery, or two restarts, overlap.
EXTENDS UpdateHandshake

CONSTANTS a1, a2, h1, h2

=============================================================================
