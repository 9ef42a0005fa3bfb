---------------------------- MODULE MCMysqlUser ----------------------------
(***************************************************************************)
(* Instances of MysqlUser for TLC: the MCUser*.cfg files give the hosts    *)
(* and the bounds.                                                         *)
(***************************************************************************)
EXTENDS MysqlUser
=============================================================================
