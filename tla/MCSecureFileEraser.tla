------------------------ MODULE MCSecureFileEraser ------------------------
(***************************************************************************)
(* Model values for SecureFileEraser.                                      *)
(***************************************************************************)
EXTENDS SecureFileEraser

AllMethods == {"NIST_800_88_CLEAR", "DOD_5220_22_M", "PSEUDORANDOM_1_PASS"}
=============================================================================
