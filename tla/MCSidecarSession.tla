------------------------- MODULE MCSidecarSession -------------------------
(***************************************************************************)
(* Model values for the checked instances of SidecarSession: two source    *)
(* texts, and metadata of which one may hold protected rows and another is *)
(* what its sanitation leaves.                                             *)
(***************************************************************************)
EXTENDS SidecarSession

CONSTANTS t0, t1, m0, p, r
=============================================================================
