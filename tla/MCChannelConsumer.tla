------------------------- MODULE MCChannelConsumer -------------------------
(***************************************************************************)
(* A small instance of ChannelConsumer for TLC, in two parts, `part`: two  *)
(* rows whose answers have words, and one row whose first answers have     *)
(* none (it is answered again and again, which multiplies the states of    *)
(* whatever comes after it).                                               *)
(***************************************************************************)
EXTENDS ChannelConsumer

VARIABLE part

\* Every turn gives the same answer: the worst case for evidence by text.
OneWord == {"ok"}

(* What the part leaves out. *)
Kept ==
    /\ part' = part
    /\ part = "rows" => (pc' = "begin" => draft'.text # "empty")
    /\ part = "bare" => n' <= 1

MCInit == Init /\ part \in {"rows", "bare"}
MCNext == Next /\ Kept

(* The fairness of FairSpec. *)
MCSpec ==
    /\ MCInit /\ [][MCNext]_<<vars, part>>
    /\ WF_vars(Start /\ Kept) /\ WF_vars(Consumer /\ Kept)
    /\ WF_vars(Gateway /\ Kept) /\ WF_vars(Background /\ Kept)

=============================================================================
