---------------------------- MODULE MCApprovalLease ----------------------------
(* Instances of ApprovalLease for TLC.                                        *)
EXTENDS ApprovalLease
===============================================================================
