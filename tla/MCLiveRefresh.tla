--------------------------- MODULE MCLiveRefresh ---------------------------
EXTENDS LiveRefresh
=============================================================================
