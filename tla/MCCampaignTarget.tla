--------------------------- MODULE MCCampaignTarget ---------------------------
(* Campaigns of one or two bindings for CampaignTarget.                    *)
EXTENDS CampaignTarget

OneOrTwo == {<<1>>, <<2>>, <<1, 2>>, <<2, 1>>}
=============================================================================
