-------------------------------- MODULE MCEdge --------------------------------
(* Small instances of Edge: which tenant and user each connection has.     *)
EXTENDS Edge, TLC

CONSTANTS a, b, c, tA, tB, u1, u2, r1, r2, p1

NoPublishers == {}
OneRoom == {r1}
TwoRooms == {r1, r2}
OnePublisher == {p1}

Two == {a, b}
Three == {a, b, c}
TwoTenants == {tA, tB}
OneTenant == {tA}
TwoUsers == {u1, u2}
OneUser == {u1}

(* a and b in different tenants, the same user id in both.                 *)
ApartTenantOf == [d \in Two |-> IF d = a THEN tA ELSE tB]
ApartUserOf == [d \in Two |-> u1]

(* a and b in one tenant.                                                  *)
TogetherTenantOf == [d \in Two |-> tA]
TogetherUserOf == [d \in Two |-> IF d = a THEN u1 ELSE u2]

(* a and b in one tenant, two tabs of one user; c in another.              *)
ThreeTenantOf == [d \in Three |-> IF d = c THEN tB ELSE tA]
ThreeUserOf == [d \in Three |-> u1]

TabRoomSymmetry == Permutations(Two) \cup Permutations(TwoRooms)
=============================================================================
