------------------------------- MODULE EntitySave -------------------------------
(* What TypeORM's save of an entity does to a row: the row is read, and the     *)
(* columns in which the entity differs from what was read are written, whatever *)
(* has become of the row by then.                                               *)

Merged(row, loaded, entity) ==
  [f \in DOMAIN row |-> IF entity[f] # loaded[f] THEN entity[f] ELSE row[f]]
=================================================================================
