----------------------------- MODULE MCMediaEngine -----------------------------
EXTENDS MediaEngine, TLC

CONSTANTS r1, p1, p2, p3, t1, t2, s1, s2, s3, e1, e2

OneRoom == {r1}
TwoPeople == {p1, p2}
ThreePeople == {p1, p2, p3}
OneTrack == {t1}
TwoTracks == {t1, t2}
TwoSsrcs == {s1, s2}
OneEndpoint == {e1}
TwoEndpoints == {e1, e2}
================================================================================
