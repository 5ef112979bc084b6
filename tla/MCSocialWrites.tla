--------------------------- MODULE MCSocialWrites ---------------------------
(* Two accounts that race, repeat and mix up their requests about one post. *)
EXTENDS SocialWrites, TLC

CONSTANTS u1, u2, p1, k1

Ask(actor, key, kind, target, text) ==
    [actor |-> actor, key |-> key, kind |-> kind, target |-> target, text |-> text]

\* A doubled like, a like without a key, a repeated comment, and a request that
\* nobody may make under the key of the like.
MCRequest ==
    1 :> Ask(u1, k1, "like", p1, "") @@ 2 :> Ask(u1, k1, "like", p1, "") @@
    3 :> Ask(u2, NoKey, "like", p1, "") @@
    4 :> Ask(u2, k1, "comment", p1, "hello") @@ 5 :> Ask(u2, k1, "comment", p1, "hello") @@
    6 :> Ask(u1, k1, "follow", u1, "")

MCTargets == {u1, u2, p1}
=============================================================================
