--------------------------- MODULE MCMessageCache ---------------------------
(* A message, a reply to it and a message of the device. *)
EXTENDS MessageCache, TLC

CONSTANTS first, reply, mine

MCParent == [m \in Message |-> IF m = reply THEN first ELSE None]

Symmetry == Permutations(Handler)
=============================================================================
