------------------------------ MODULE MCSession ------------------------------
EXTENDS Session, TLC
CONSTANTS anna, boris, pavel, irina, t1, t2, p1
MCWardens == {anna, boris}
MCPatrols == {pavel}
MCInspectors == {irina}
MCNobody == {}
MCTimers == {t1, t2}
MCOnePost == {p1}
MCOneTimer == {t1}
=============================================================================
