----------------------------- MODULE MCLidarSetup -----------------------------
(***************************************************************************)
(* One lidar the file defines with two settings, as MID360_config.json     *)
(* does, and two it does not define, in an index of two.                   *)
(***************************************************************************)
EXTENDS LidarSetup

CONSTANTS mid360, stranger, other

MCWanted == [l \in {mid360} |-> {"data_type", "scan_pattern"}]
==============================================================================
