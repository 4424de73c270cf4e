------------------------------- MODULE MCSnapshot -------------------------------
(* Small instances of Snapshot. *)
EXTENDS Snapshot

CONSTANTS A, Z, S, v1, v2

OneBundle == {<<A>>}

Using(components, values, facilities) ==
  [components |-> components, values |-> values, uses |-> facilities]

SomePrograms == {
  Using({A, Z}, {v1},     {"toggles"}),
  Using({A},    {v1},     {"toggles", "sparse"}),
  Using({A},    {v1},     {"toggles", "snapshots"}),
  Using({A},    {v1},     {"sparse", "snapshots"}),
  Using({A},    {v1},     {"bundles", "snapshots"}),
  Using({A},    {v1, v2}, {"snapshots"}),
  Using({Z},    {v1},     {"snapshots"})}
=============================================================================
