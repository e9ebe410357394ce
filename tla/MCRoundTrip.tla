---------------------------- MODULE MCRoundTrip ----------------------------
(***************************************************************************)
(* Bounds: those of MCSignFlow for what is signed, and those of            *)
(* MCSignatureFormat for what comes from elsewhere.                        *)
(***************************************************************************)
EXTENDS RoundTrip, MCSignFlow, MCSignatureFormat
=============================================================================
