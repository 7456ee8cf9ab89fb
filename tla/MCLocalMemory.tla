---------------------------- MODULE MCLocalMemory ---------------------------
(***************************************************************************)
(* Small instances of LocalMemory.                                         *)
(***************************************************************************)
EXTENDS LocalMemory

Says(slot, obj)       == [slot |-> slot, object |-> obj, valid_at |-> None]
Dated(slot, obj, at)  == [slot |-> slot, object |-> obj, valid_at |-> at]

\* Two undated statements about one functional slot, one that also speaks of
\* another slot, and one dated long ago.
Statements ==
    [paris |-> <<Says("lives_in", "paris")>>,
     both  |-> <<Says("lives_in", "rome"), Says("works_at", "acme")>>,
     old   |-> <<Dated("lives_in", "oslo", 0)>>]
Undated == [paris |-> <<Says("lives_in", "paris")>>, rome |-> <<Says("lives_in", "rome")>>]

MessageLists == {<<"paris">>, <<"old">>, <<"both", "paris">>}
OneMessage   == {<<"paris">>, <<"rome">>}

FunctionalSlots == {"lives_in", "works_at"}

Servers  == [kv |-> "redis", vector |-> "qdrant", graph |-> "falkordb", relational |-> "sqlite"]
Embedded == [kv |-> "memory", vector |-> "faiss", graph |-> "falkordb", relational |-> "sqlite"]
Unbuilt  == [kv |-> "redis", vector |-> "qdrant", graph |-> "kuzu", relational |-> "sqlite"]
AnyStorage == {Servers, Embedded, Unbuilt}
ServersOnly == {Servers}

=============================================================================
