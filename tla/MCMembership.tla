---------------------------- MODULE MCMembership ----------------------------
(* An admin and a plain member with two clients; one team channel and one  *)
(* conversation beside the default channel.                                *)
EXTENDS Membership, TLC

CONSTANTS u1, u2, s1, s2

MCUserOf == [s \in Socket |-> u2]

Keep == [type |-> None, archived |-> None, name |-> None]

MCPatches == {[Keep EXCEPT !.type = "private"],
              [Keep EXCEPT !.archived = TRUE], [Keep EXCEPT !.name = CHOOSE n \in Name : TRUE]}

Symmetry == Permutations(Handler) \cup Permutations(Invitation) \cup Permutations(Socket)
             \cup Permutations(Channel \ {home})
=============================================================================
