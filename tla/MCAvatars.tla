----------------------------- MODULE MCAvatars -----------------------------
(* Instances of Avatars for TLC: one user, whose uploads share their objects. *)
EXTENDS Avatars, TLC

CONSTANTS u1

MCUserOf == [m \in Messages |-> u1]
MCDeleteUser == [d \in Deletes |-> u1]

\* All requests are for the same user and no upload is corrupt where this is used.
MCSymmetry == Permutations(Messages) \union Permutations(Deletes)
=============================================================================
