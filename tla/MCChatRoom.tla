----------------------------- MODULE MCChatRoom -----------------------------
(***************************************************************************)
(* ChatRoom with two clients, of one name or of two.                       *)
(***************************************************************************)
EXTENDS ChatRoom

CONSTANTS c1, c2, ann, bob

\* All clients have one name; one has another.
OneOrTwoNames == {[c \in Clients |-> ann],
                  [c \in Clients |-> IF c = c1 THEN ann ELSE bob]}
=============================================================================
