--------------------------- MODULE MCSigningProxy ---------------------------
(* A deploy that registers its domain, with the labels of a plan that foresaw  *)
(* an update.                                                                  *)
EXTENDS SigningProxy

UpdateLabels == <<"Link">>
RegisterDeploy == <<"allowance", "dotns", "dotns", "dotns", "publish">>
=============================================================================
