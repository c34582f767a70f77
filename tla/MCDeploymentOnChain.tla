------------------------ MODULE MCDeploymentOnChain ------------------------
(***************************************************************************)
(* DeploymentOnChain with the values MCDeployment gives to Deployment.     *)
(***************************************************************************)
EXTENDS DeploymentOnChain, MCDeployment
=============================================================================
