------------------------ MODULE MCTransactionService ------------------------
(* Calls over two keys: one transaction, two in either order or with the   *)
(* same id, and a status.                                                  *)
EXTENDS TransactionService

CONSTANTS k1, k2

MCKeys == {k1, k2}

MCPayloads ==
  [streamed : {TRUE}, keys : {<<k1>>, <<k1, k2>>, <<k2, k1>>, <<k2, k2>>}]
    \cup [streamed : {FALSE}, keys : {<<k1>>}]

=============================================================================
