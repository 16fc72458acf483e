----------------------------- MODULE MCGateway -----------------------------
(* A profile with two channels, and a chat of the unified session.  Two runs  *)
(* share an agent here when a /new has dropped the entry of the first one.    *)
EXTENDS Gateway

CONSTANTS p1, p2, u, profile, key, profileAgent, mainAgent

ThreeChats == {p1, p2, u}
TwoKeys    == {profile, key}
OneProfile == {profile}
TwoAgents  == {profileAgent, mainAgent}
ChatKey    == [c \in ThreeChats |-> IF c = u THEN key ELSE profile]
KeyAgent   == [k \in TwoKeys |-> IF k = profile THEN profileAgent ELSE mainAgent]
AskingChat == {p1}
=============================================================================
