--------------------------- MODULE PuzzleManager ---------------------------
(***************************************************************************)
(* The state of a client_puzzle_manager (torque_sockets/client_puzzle.h)   *)
(* and its operations as operators on it: the two server nonces whose      *)
(* puzzles are answered for now, and for each of them the nonce_table of   *)
(* the client nonces that have already used it up.  A nonce_table is a     *)
(* chained hash table without deletion and is modelled as the set it       *)
(* holds.  Difficulty management is "not yet implemented" in tick, so the  *)
(* difficulty is a constant of the program.                                *)
(***************************************************************************)
EXTENDS Integers

\* The constructor: two random nonces, two empty tables.
NewManager(current, last) ==
    [current_nonce |-> current, last_nonce |-> last,
     current_nonce_table |-> {}, last_nonce_table |-> {}]

\* Mutant: the nonces move and the tables stay where they are.
RefreshWithoutSwap(pm, fresh) ==
    [current_nonce |-> fresh, last_nonce |-> pm.current_nonce,
     current_nonce_table |-> {}, last_nonce_table |-> pm.last_nonce_table]

\* The refresh in tick, with `fresh` the nonce it draws: the current nonce and its
\* table become the last ones; the old last table is cleared and used again.
Refresh(pm, fresh) ==
    [current_nonce |-> fresh, last_nonce |-> pm.current_nonce,
     current_nonce_table |-> {}, last_nonce_table |-> pm.current_nonce_table]

\* nonce_table::check_add returns TRUE for a nonce that was not in the table.
check_add(table, client_nonce) == client_nonce \notin table

\* The table check_solution selects for the server nonce, if it knows it.
KnownNonce(pm, server_nonce) == server_nonce \in {pm.current_nonce, pm.last_nonce}

TableOf(pm, server_nonce) ==
    IF server_nonce = pm.current_nonce THEN pm.current_nonce_table
    ELSE pm.last_nonce_table

\* The result code of check_solution.  `solved` is what check_one_solution says of
\* the solution, `difficulty_matches` the comparison with the current difficulty.
check_solution(pm, client_nonce, server_nonce, difficulty_matches, solved) ==
    CASE ~difficulty_matches -> "invalid_puzzle_difficulty"
      [] difficulty_matches /\ ~KnownNonce(pm, server_nonce) -> "invalid_server_nonce"
      [] difficulty_matches /\ KnownNonce(pm, server_nonce) /\ ~solved -> "invalid_solution"
      [] difficulty_matches /\ KnownNonce(pm, server_nonce) /\ solved
            /\ ~check_add(TableOf(pm, server_nonce), client_nonce) -> "invalid_client_nonce"
      [] OTHER -> "success"

\* What check_solution leaves behind when it succeeds: check_add's new entry.
AddNonce(pm, client_nonce, server_nonce) ==
    IF server_nonce = pm.current_nonce
    THEN [pm EXCEPT !.current_nonce_table = @ \cup {client_nonce}]
    ELSE [pm EXCEPT !.last_nonce_table = @ \cup {client_nonce}]
=============================================================================
