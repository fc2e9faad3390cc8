----------------------------- MODULE MCLedger -----------------------------
(* Ledger for TLC: two users, the bounties, names and contracts of one, a   *)
(* rival buyer for the name and a stranger's gift to escrow.                *)
EXTENDS Ledger

MCTx(h, from, nonce, type, value, to, data) ==
    [hash |-> h, from |-> from, nonce |-> nonce, type |-> type, value |-> value,
     to |-> to, data |-> data]

MCEndowment == [x \in Accounts |-> CASE x = "a" -> 200100 [] x = "b" -> 100020 [] OTHER -> 0]

\* A name costs 100000, and 110000 once a page mentions it.
MCTxs == {
    MCTx("bounty", "a", 0, "search", 100, "", "u"),
    MCTx("name", "a", 1, "transfer", 110000, "registry", "n"),
    MCTx("deploy", "a", 1, "deploy", 40, "", "note"),
    MCTx("setNote", "a", 2, "transfer", 0, "deploy", "x"),
    MCTx("gift", "b", 0, "transfer", 31, "escrow", ""),
    MCTx("rival", "b", 0, "transfer", 100000, "registry", "n"),
    MCTx("again", "b", 1, "search", 30, "", "v")}

\* Pages with and without the word n that link to each other.
MCPage(k, links) == [counts |-> [w \in {"n"} |-> k], bytes |-> 4000 * k, links |-> links]
MCPages == {MCPage(0, {}), MCPage(1, {"u", "v", "y"}), MCPage(0, {"v", "w", "x"})}

\* v and w are on one host.
MCHostOf == [url \in {"u", "v", "w", "x", "y"} |-> IF url \in {"v", "w"} THEN "h" ELSE url]
=============================================================================
