------------------------------ MODULE MCSession ------------------------------
(* Instances of Session for TLC.                                           *)
EXTENDS Session

AllEvents       == EventNames
ReadingClient   == EventNames \ {"ClientStalls"}
OnlyStop        == {"Stop"}
NoEvents        == {}
=============================================================================
