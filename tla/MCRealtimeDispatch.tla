------------------------- MODULE MCRealtimeDispatch -------------------------
(* An instance of RealtimeDispatch for TLC: a filter on one row of a       *)
(* table, one on a schema, and changes of that row, of another row, of     *)
(* another table, and one with an old record that cannot be read.          *)
EXTENDS RealtimeDispatch

CONSTANTS i1, i2, d1, d2, s1, t1, t2, r1, r2

OwnKeys == (d1 :> i1) @@ (d2 :> i2)

OneRow    == [schema |-> s1, table |-> t1, row |-> r1]
AllTables == [schema |-> s1, table |-> None, row |-> None]
Listeners == {[event |-> "INSERT", filter |-> OneRow], [event |-> "*", filter |-> AllTables]}

Of(type, table, row, keyed) ==
  [type |-> type, schema |-> s1, table |-> table, row |-> row, keyed |-> keyed]
Changes == {Of("INSERT", t1, r1, TRUE), Of("INSERT", t1, r2, TRUE),
            Of("UPDATE", t2, r2, TRUE),
            Of("DELETE", t1, r1, FALSE)}

=============================================================================
