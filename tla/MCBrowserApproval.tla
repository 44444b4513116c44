--------------------------- MODULE MCBrowserApproval ---------------------------
(* Instances of BrowserApproval for TLC.                                      *)
EXTENDS BrowserApproval, TLC

Interchangeable == Permutations(Resumes) \cup Permutations(Browsers)
===============================================================================
