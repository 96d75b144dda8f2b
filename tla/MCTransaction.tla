--------------------------- MODULE MCTransaction ---------------------------
(***************************************************************************)
(* Small transactions for TLC.  Each makes a few groups of calls, which    *)
(* have little to do with those of the others.                             *)
(***************************************************************************)
EXTENDS Transaction

CONSTANTS none, d1

MCData == {none, d1}
MCKeys == 1..3

Wasm  == [engine |-> "wasmer", runtime |-> 2]
Other == [engine |-> "other", runtime |-> 4]
Native == [engine |-> "native", runtime |-> 1]

Plain ==
  [version |-> 2040000, query |-> FALSE, sqlEnabled |-> FALSE, sqlCached |-> FALSE,
   member |-> "CERT_HASH", addrType |-> "CHAINMAKER", uses |-> {}, contracts |-> {Wasm},
   methods |-> {"invoke"}, gas |-> 15, costs |-> {0}, opens |-> 1, keys |-> {1},
   nesting |-> 0]

Sql == [Plain EXCEPT !.sqlEnabled = TRUE, !.sqlCached = TRUE]

(* A transaction whose engine charges: with gas 5 the costs 3 and 7 spend  *)
(* it, 7 at once.                                                          *)
Paying(t) == [t EXCEPT !.contracts = {Other}, !.gas = 5, !.costs = {0, 1, 3, 7}]

Members == {"CERT", "CERT_HASH", "ALIAS", "PUBLIC_KEY", "DID"}

States ==
  {[Plain EXCEPT !.uses = {"kv", "result"}], [Plain EXCEPT !.uses = {"crypto", "kv"}],
   Paying([Plain EXCEPT !.uses = {"kv", "crypto", "event", "result"}])}
  \cup {[Plain EXCEPT !.uses = {"sender", "kv"}, !.version = v, !.member = m, !.addrType = t] :
          v \in {2200, 2201, 2040000}, m \in Members, t \in {"CHAINMAKER", "ZXL"}}

Iterations ==
  {[Plain EXCEPT !.uses = {"iter"}, !.keys = 1..3],
   Paying([Plain EXCEPT !.uses = {"iter"}, !.keys = 1..2]),
   [Plain EXCEPT !.uses = {"iter", "call"}, !.contracts = {Other}, !.opens = 2, !.nesting = 1],
   [Plain EXCEPT !.uses = {"iter", "call"}, !.contracts = {Wasm, Other}, !.nesting = 1, !.keys = {}],
   [Sql EXCEPT !.uses = {"rows"}, !.keys = 1..2],
   [Plain EXCEPT !.uses = {"rows", "sql"}],
   Paying([Sql EXCEPT !.uses = {"rows"}, !.keys = 1..2])}

Calls ==
  {[Plain EXCEPT !.uses = {"call"}, !.contracts = {Wasm, Native}, !.nesting = 3],
   [Plain EXCEPT !.uses = {"call", "kv"}, !.contracts = {Native}, !.nesting = 1],
   [Plain EXCEPT !.uses = {"call", "burn"}, !.nesting = 2],
   [Plain EXCEPT !.uses = {"call", "burn"}, !.contracts = {Wasm, Native}, !.nesting = 1],
   [Plain EXCEPT !.uses = {"call", "event", "result"}, !.contracts = {Wasm, Other}, !.nesting = 1]}
  \cup {Paying([Plain EXCEPT !.uses = {"call", "kv"}, !.nesting = 1, !.version = v]) :
          v \in {2200, 2300, 2040000}}

Statements ==
  {[Sql EXCEPT !.uses = {"sql"}, !.contracts = {Wasm, Other}, !.query = q,
               !.methods = {"invoke", "upgrade", "init_contract"}] : q \in BOOLEAN}
  \cup {[Sql EXCEPT !.uses = {"sql", "call"}, !.contracts = {Other}, !.nesting = 2],
        [Sql EXCEPT !.uses = {"sql", "call"}, !.contracts = {Wasm, Other}, !.nesting = 1],
        [Sql EXCEPT !.uses = {"sql", "call"}, !.contracts = {Native, Other}, !.nesting = 1]}

MCTransactions == States \cup Iterations \cup Calls \cup Statements

MCLater ==
  {[Plain EXCEPT !.uses = {"call"}],
   [Sql EXCEPT !.uses = {"sql"}, !.contracts = {Other}]}

MCBurnTo == {0, 1, 4, 5, 6}
=============================================================================
