--------------------------- MODULE MCSessionManager ---------------------------
EXTENDS SessionManager
CONSTANTS j1, j2
MCJobs == {j1, j2}
MCWeather == {{"abort", "dispose", "drop"}, {"interrupt"}, {"late"}, {"slow"}}
MCCalm == {{}}
MCLate == {{"late"}}
=============================================================================
