---------------------------- MODULE RequestReply ----------------------------
(***************************************************************************)
(* What the chain, the proxy and the TEE promise to whoever sends an       *)
(* instruction: requests are numbered as they are accepted, a reply        *)
(* belongs to a request that was made, and it never changes.               *)
(***************************************************************************)
EXTENDS Naturals, Sequences

CONSTANTS
  Replies,
  NoReply         \* not one of them

VARIABLE replies  \* the reply to each request, or NoReply

Init == replies = <<>>

Request == replies' = Append(replies, NoReply)

Reply(id) ==
  /\ replies[id] = NoReply
  /\ \E r \in Replies : replies' = [replies EXCEPT ![id] = r]

Next == Request \/ \E id \in DOMAIN replies : Reply(id)

Spec == Init /\ [][Next]_replies
=============================================================================
