--------------------------- MODULE MCHostBoundary ---------------------------
\* The application with two nested boundaries: see MCHostBoundary.cfg.
EXTENDS HostBoundary
=============================================================================
