------------------------------ MODULE Masking ------------------------------
(***************************************************************************)
(* mask_mapping (logging.py).  A nested value is the set of its leaves, and *)
(* a leaf is the path that leads to it: a key for each mapping it is in, and *)
(* Item for each list.  A key stands for all its spellings: both sides of   *)
(* the comparison are lower-cased.                                          *)
(***************************************************************************)
EXTENDS Naturals, Sequences

CONSTANT SensitiveKeys      \* SENSITIVE_KEYS and the keys supplied with the call

Item == "[]"

\* What stands under a sensitive key, at any depth.
Secrets(leaves) == {path \in leaves : \E i \in 1 .. Len(path) : path[i] \in SensitiveKeys}

\* mask_mapping descends from mapping to mapping and replaces the value of a
\* sensitive key; any other value, a list too, is copied as it is.
Masked(path) ==
    \E i \in 1 .. Len(path) : /\ path[i] \in SensitiveKeys
                              /\ \A j \in 1 .. i : path[j] # Item

\* The leaves that are in clear in the copy.
MaskMapping(leaves) == {path \in leaves : ~Masked(path)}
=============================================================================
