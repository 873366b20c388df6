---- MODULE MCEntityModel ----
(* A table with one public column, for TLC. *)
EXTENDS EntityModel

MCColumns == {"name", "secret", "alias"}
MCInitialColumns == <<"secret", "name">>
MCPolicy == [configured_columns |-> {"name"}, configured_key |-> NoColumn]
MCBindings == {MCPolicy}
MCLookups == {[select |-> {}, names |-> {}]}
====
