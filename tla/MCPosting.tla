----------------------------- MODULE MCPosting -----------------------------
(* Instances of Posting for TLC.  Calls, keys and files are interchangeable; *)
(* users are not, since only some of them manage the channel.                *)
EXTENDS Posting, TLC

Symmetry == Permutations(Call) \cup Permutations(Key) \cup Permutations(Attachment)
===========================================================================
