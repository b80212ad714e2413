---------------------------- MODULE MCConfigStore ----------------------------
(* ConfigStore for TLC: the files a user may start from. *)
EXTENDS ConfigStore, TLC

Record(name, address, psk) == [name |-> name, address |-> address, psk |-> psk]

\* A device without an address that goes by a name; two records with the same
\* address; a key whose notice was not printed; keys not to be saved.
EditedFiles ==
  {[devices |-> (2 :> Record(1, 0, NoKey)), save_keys |-> TRUE, warned |-> FALSE],
   [devices |-> (2 :> Record(0, 1, OldKey)) @@ (3 :> Record(2, 1, NoKey)),
    save_keys |-> TRUE, warned |-> FALSE],
   [devices |-> (3 :> Record(1, 3, NoKey)), save_keys |-> FALSE, warned |-> FALSE]}
=============================================================================
