---------------------------- MODULE MCModeration ----------------------------
(* Model values for checking Moderation with TLC. *)
EXTENDS Moderation, TLC

CONSTANTS profile, resume, w1, w2, m1, m2

(* An image of the profile, or one of each root. *)
ProfileImage == m1 :> profile
EachImage == (m1 :> profile) @@ (m2 :> resume)
=============================================================================
