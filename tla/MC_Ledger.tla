---------------------------- MODULE MC_Ledger ----------------------------
\* Four heights, the last two by proof of stake. p1 and q1 conflict, m mints with
\* the output of p1, u spends a coinstake, z1 and z2 spend one zerocoin serial.
EXTENDS Ledger, TLC

MCKind == [cb1 |-> "coinbase", cb2 |-> "coinbase", cb3 |-> "coinbase", cb4 |-> "coinbase",
           s |-> "stake", r |-> "stake", p1 |-> "plain", q1 |-> "plain",
           m |-> "plain", u |-> "plain", z1 |-> "zspend", z2 |-> "zspend"]
MCTx == DOMAIN MCKind
MCIns == [t \in MCTx |->
  CASE t = "s" -> {<<"cb1", 1>>} [] t = "r" -> {<<"cb2", 0>>}
    [] t \in {"p1", "q1"} -> {<<"cb1", 0>>} [] t = "m" -> {<<"p1", 0>>}
    [] t = "u" -> {<<"s", 1>>} [] OTHER -> {}]
MCOuts == [t \in MCTx |-> IF t \in {"cb1", "s", "r"} THEN {0, 1} ELSE {0}]
MCSerial == [t \in {"z1", "z2"} |-> "serial"]
MCPubcoins == [t \in MCTx |-> IF t = "m" THEN {"coin"} ELSE {}]
MCCbHeight == [cb1 |-> 1, cb2 |-> 2, cb3 |-> 3, cb4 |-> 4]
MCLowFee == {"p1"}
=============================================================================
