--------------------------- MODULE MCAccessControl ---------------------------
EXTENDS AccessControl, TLC
CONSTANTS u1, r1, anna, pavel, t1, p1
MCOneUTimer == {u1}
MCRTimers == {r1}
MCOneWarden == {anna}
MCPatrols == {pavel}
MCNobody == {}
MCTimers == {t1}
MCPosts == {p1}
=============================================================================
