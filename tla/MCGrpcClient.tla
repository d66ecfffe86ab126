---------------------------- MODULE MCGrpcClient ----------------------------
(* Model checking of GrpcClient.                                           *)
EXTENDS GrpcClient
=============================================================================
