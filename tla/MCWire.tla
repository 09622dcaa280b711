------------------------------- MODULE MCWire -------------------------------
(* Field values for model checking Wire: two of each kind, with bytes that *)
(* differ from the ones the formats themselves contain.                    *)
EXTENDS Wire

Digits(w) == {Num(9, w), [i \in 1..w |-> 10 + i]}

MCSample(f) ==
    CASE f = "proto"                  -> {<<1>>, <<3>>}
      [] f \in {"u16", "u32", "u64"}  -> Digits(Width[f])
      [] f = "ip"                     -> {Num(1, 4), Num(9, 4), Num(1, 4) \o Num(9, 12)}
      [] f = "sig"                    -> {[i \in 1..32 |-> 10 + i]}
      [] f = "addr"                   -> {[i \in 1..n |-> 10 + i] : n \in {6, 18}}
      [] f = "opt32"                  -> {<< >>} \cup Digits(4)
      [] f = "opt64"                  -> {<< >>} \cup Digits(8)
      [] f \in {"optSession", "found"} -> {<< >>} \cup Digits(24)
      [] f = "token"                  -> {<< >>, <<31>>, <<31, 32, 33>>}

=============================================================================
