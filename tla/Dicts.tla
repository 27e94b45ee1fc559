------------------------------- MODULE Dicts --------------------------------
(***************************************************************************)
(* Python dictionaries as functions whose domain is the set of their keys. *)
(***************************************************************************)

\* d is a dictionary with keys in Keys and values in Values.
IsDict(d, Keys, Values) == \E Held \in SUBSET Keys : d \in [Held -> Values]

EmptyDict == [k \in {} |-> {}]

\* d.pop(key, None), for every key of Gone.
Without(d, Gone) == [k \in DOMAIN d \ Gone |-> d[k]]

\* d[key] = value.
With(d, key, value) ==
  [k \in DOMAIN d \cup {key} |-> IF k = key THEN value ELSE d[k]]
=============================================================================
