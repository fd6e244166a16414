----------------------------- MODULE MCUserSync -----------------------------
(* Instances of UserSync: policies and requests for the runs.              *)
EXTENDS UserSync

CONSTANTS a1, a2, b1,   \* callers: a1 and a2 serve one identity source, b1 another
          alice, team,  \* a user name and a group name
          srcA, srcB,   \* sources
          pw            \* a password

\* The default policy of DefaultPolicy, with a source.
Sourced(s) == [source |-> s, realm |-> Blank, external |-> Blank, claim |-> FALSE,
               mark |-> TRUE, anyDelete |-> FALSE, anyDrop |-> FALSE]

TwoSources == [c \in Caller |-> [Sourced(IF c = b1 THEN srcB ELSE srcA) EXCEPT !.anyDrop = (c = b1)]]
Claiming   == [c \in Caller |-> [Sourced(srcA) EXCEPT !.realm = srcB, !.external = srcA, !.claim = TRUE]]

Ask(op, n) == [op |-> op, name |-> n, member |-> alice, type |-> Absent,
               password |-> Blank, create |-> FALSE]

CreateAlice  == [Ask("EnsureUser", alice) EXCEPT !.type = "rodsuser"]
CreateWithPw == [CreateAlice EXCEPT !.password = pw]
CreateBoss   == [CreateAlice EXCEPT !.type = "groupadmin"]
DeleteAlice  == Ask("EnsureUserAbsent", alice)
PutPassword  == [Ask("UpdateUser", alice) EXCEPT !.password = pw]
PutType      == [Ask("UpdateUser", alice) EXCEPT !.type = "rodsuser", !.create = TRUE]
PutBoth      == [PutType EXCEPT !.password = pw]
PutBoss      == [PutType EXCEPT !.type = "groupadmin"]
CreateTeam   == Ask("EnsureGroup", team)
DeleteTeam   == Ask("EnsureGroupAbsent", team)
Join         == Ask("EnsureGroupMember", team)
Leave        == Ask("EnsureGroupMemberAbsent", team)

UserRequests  == {CreateAlice, CreateWithPw, DeleteAlice, PutPassword, PutType, PutBoth}
GroupRequests == {CreateTeam, DeleteTeam, Join, Leave}

AllRequests   == [c \in Caller |-> UserRequests \cup GroupRequests \cup {CreateBoss, PutBoss}]
SplitRequests == [c \in Caller |-> IF c = a1 THEN {CreateWithPw, DeleteAlice, PutBoth, CreateTeam, Join, Leave}
                                   ELSE {CreateAlice, DeleteAlice, PutBoss, CreateTeam, DeleteTeam, Leave}]
LifeRequests  == [c \in Caller |-> {CreateAlice, DeleteAlice}]
=============================================================================
