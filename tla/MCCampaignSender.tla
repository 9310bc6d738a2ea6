-------------------------- MODULE MCCampaignSender --------------------------
(* Values of the constants of CampaignSender for TLC. *)
EXTENDS CampaignSender, TLC

\* Recipients are alike, and so are ticks.
RowsAlike == Permutations(Recipients) \cup Permutations(Ticks)
=============================================================================
