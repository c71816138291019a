----------------------------- MODULE MCDependencyMap -----------------------------
EXTENDS DependencyMap

A == <<"A">>  As == <<"A", "s">>  Ask == <<"A", "s", "k">>
B == <<"B">>  Bn == <<"B", "n">>  Bt == <<"B", "t">>
C == <<"C">>  Ct == <<"C", "t">>  Ctd == <<"C", "t", "d">>
Keys == <<A, As, Ask, B, Bn, Bt, C, Ct, Ctd>>

MCPath == {Keys[i] : i \in DOMAIN Keys}
MCBound == {Bt, Ct, Ctd}
(* Widget B's property t may hold a value that is no string, or a string    *)
(* without a binding.  C is a JS object with a function t and its result.   *)
(* All of them come and go, A, B and C also alone or with a part.           *)
Values == {<<{Ask}, {}, {}>>, <<{Ask, Ct}, {}, {}>>, <<{}, {Bt}, {}>>, <<{}, {}, {Bt}>>}
TreesOf(ps) ==
    {[paths |-> ps, code |-> (Bt :> v[1]) @@ (Ct :> IF C \in ps THEN {Bt} ELSE {}) @@ (Ctd :> {}),
      literal |-> v[2], plain |-> v[3]] :
        v \in IF B \in ps THEN Values ELSE {<<{}, {}, {}>>}}
MCTree == UNION {TreesOf(a \cup b \cup c) : a \in {{}, {A}, {A, As}, {A, As, Ask}},
                    b \in {{}, {B, Bt}, {B, Bn, Bt}}, c \in {{}, {C, Ct, Ctd}}}
MCRank == [p \in MCPath |-> CHOOSE i \in DOMAIN Keys : Keys[i] = p]
=============================================================================
