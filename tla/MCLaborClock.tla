---------------------------- MODULE MCLaborClock ----------------------------
EXTENDS LaborClock, TLC

PunchingOut == {"start", "hold", "punchOut"}
=============================================================================
