------------------------ MODULE MCTransactionBuilding ------------------------
(***************************************************************************)
(* Compute units in tens of thousands.  The costs lie below and above what *)
(* one instruction and eight have by default, and where a tenth on top     *)
(* exceeds the maximum.                                                    *)
(***************************************************************************)
EXTENDS TransactionBuilding

AllMethods == DOMAIN Transactions

\* closeMerkleRootConfig throws whatever happens.
WorkingMethods == AllMethods \ {"closeMerkleRootConfig"}
=============================================================================
