------------------------------ MODULE MCPosePath ------------------------------
(***************************************************************************)
(* Instance of PosePath for TLC.                                           *)
(***************************************************************************)
EXTENDS PosePath

\* Two tracks of one camera and one, less urgent, of another.
MCCamera == <<1, 1, 2>>
MCRank == <<1, 1, 2>>
MCSize == [t \in Threads |-> 1]
=============================================================================
