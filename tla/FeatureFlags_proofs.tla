-------------------------- MODULE FeatureFlags_proofs --------------------------
(***************************************************************************)
(* The safety properties of FeatureFlags for any processes and flags.      *)
(***************************************************************************)
EXTENDS FeatureFlags, TLAPS

\* What is returned to a process is an entry.
LEMMA ReturnTypes ==
    ASSUME TypeOK, NEW p \in Processes, NEW e \in Entry, Return(p, e)
    PROVE  /\ step' \in [Processes -> {"idle", "get", "call", "put", "evict"}]
           /\ phase' \in [Processes -> {"existing", "latest", "previous"}]
           /\ held' \in [Processes -> Entry \cup {None}]
           /\ \A q \in Processes : step'[q] = "put" => step[q] = "put" /\ q # p
           /\ \A q \in Processes : phase'[q] # "existing" => held'[q] \in Entry
<1>1. CASE Existing(p, e)
  BY <1>1 DEF Existing, TypeOK, Goto
<1>2. CASE Latest(p, e)
  BY <1>2 DEF Latest, TypeOK, Goto
<1>3. CASE Fallback(p)
  BY <1>3 DEF Fallback, TypeOK, Goto
<1> QED BY <1>1, <1>2, <1>3 DEF Return

\* Every action keeps the types of the variables.
LEMMA TypeInductive == TypeOK /\ [Next]_vars => TypeOK'
<1> SUFFICES ASSUME TypeOK, [Next]_vars PROVE TypeOK'
  OBVIOUS
<1>1. ASSUME NEW p \in Processes, Ask(p) PROVE TypeOK'
  BY <1>1 DEF Ask, TypeOK, Goto
<1>2. ASSUME NEW p \in Processes, Hit(p) PROVE TypeOK'
  <2>1. cache \in Entry
    BY <1>2 DEF Hit, TypeOK
  <2> QED BY <1>2, <2>1, ReturnTypes DEF Hit, TypeOK
<1>3. ASSUME NEW p \in Processes, Miss(p) PROVE TypeOK'
  BY <1>3 DEF Miss, TypeOK, Goto
<1>4. ASSUME NEW p \in Processes, Call(p) PROVE TypeOK'
  <2> DEFINE e == CASE phase[p] = "previous" -> held[p]
                    [] OTHER -> [flags |-> IF down THEN Empty ELSE remote, old |-> down]
  <2>1. e \in Entry
    BY DEF TypeOK, Entry
  <2>2. got' = [got EXCEPT ![p] = e]
    BY <1>4 DEF Call
  <2> HIDE DEF e
  <2>3. got' \in [Processes -> Entry \cup {None}]
    BY <2>1, <2>2 DEF TypeOK
  <2>4. \A q \in Processes : step'[q] = "put" => got'[q] \in Entry
    BY <1>4, <2>1, <2>2 DEF Call, Goto, TypeOK
  <2>5. failed' \in BOOLEAN
    BY <1>4 DEF Call, TypeOK
  <2> QED BY <1>4, <2>3, <2>4, <2>5 DEF Call, Goto, TypeOK
<1>5. ASSUME NEW p \in Processes, Put(p) PROVE TypeOK'
  <2>1. got[p] \in Entry
    BY <1>5 DEF Put, TypeOK
  <2>2. quiet' \in [Processes -> BOOLEAN]
    BY <1>5 DEF Put, Disturb, TypeOK
  <2> QED BY <1>5, <2>1, <2>2, ReturnTypes DEF Put, TypeOK
<1>6. ASSUME NEW p \in Processes, Evict(p) PROVE TypeOK'
  <2>1. quiet' \in [Processes -> BOOLEAN]
    BY <1>6 DEF Evict, Disturb, TypeOK
  <2> QED BY <1>6, <2>1 DEF Evict, TypeOK, Goto
<1>7. CASE Age
  BY <1>7 DEF Age, TypeOK, Entry
<1>8. CASE CloudServices
  BY <1>8 DEF CloudServices, TypeOK
<1>9. CASE UNCHANGED vars
  BY <1>9 DEF vars, TypeOK
<1> QED BY <1>1, <1>2, <1>3, <1>4, <1>5, <1>6, <1>7, <1>8, <1>9 DEF Next, Step

\* The type invariant of FeatureFlags holds in every reachable state.
THEOREM TypeCorrect == Spec => []TypeOK
<1>1. Init => TypeOK
  BY DEF Init, TypeOK
<1> QED BY <1>1, TypeInductive, PTL DEF Spec

-----------------------------------------------------------------------------
\* While Cloud Services answer: there are flags in the cache, and in what is about
\* to be put there; the second part makes the first inductive.
FlagsEverywhere ==
    ~failed => /\ cache # None => cache.flags # Empty
               /\ \A p \in Processes :
                     /\ phase[p] # "previous"
                     /\ step[p] = "put" => got[p].flags # Empty

\* An entry with flags does not make a process fall back.
LEMMA ReturnKeepsFlags ==
    ASSUME TypeOK, NEW p \in Processes, NEW e \in Entry, Return(p, e),
           e.flags # Empty, phase[p] # "previous"
    PROVE  \A q \in Processes : phase'[q] = "previous" => phase[q] = "previous"
BY DEF Return, Existing, Latest, Fallback, Goto, TypeOK

LEMMA FlagsInductive == TypeOK /\ FlagsEverywhere /\ [Next]_vars => FlagsEverywhere'
<1> SUFFICES ASSUME TypeOK, FlagsEverywhere, [Next]_vars, ~failed' PROVE FlagsEverywhere'
  BY DEF FlagsEverywhere
<1>0. /\ ~failed
      /\ cache # None => cache.flags # Empty
      /\ \A p \in Processes : /\ phase[p] # "previous"
                              /\ step[p] = "put" => got[p].flags # Empty
  BY DEF FlagsEverywhere, Next, Step, Ask, Hit, Miss, Call, Put, Evict, Age,
         CloudServices, vars, TypeOK
<1>1. ASSUME NEW p \in Processes, Ask(p) PROVE FlagsEverywhere'
  BY <1>0, <1>1 DEF Ask, FlagsEverywhere, TypeOK, Goto
<1>2. ASSUME NEW p \in Processes, Hit(p) PROVE FlagsEverywhere'
  <2>1. cache \in Entry /\ cache.flags # Empty
    BY <1>0, <1>2 DEF Hit, TypeOK
  <2>2. \A q \in Processes : step'[q] = "put" => step[q] = "put" /\ q # p
    BY <1>2, <2>1, ReturnTypes DEF Hit
  <2>3. \A q \in Processes : phase'[q] # "previous"
    BY <1>0, <1>2, <2>1, ReturnKeepsFlags DEF Hit
  <2> QED BY <1>0, <1>2, <2>1, <2>2, <2>3 DEF Hit, FlagsEverywhere, TypeOK
<1>3. ASSUME NEW p \in Processes, Miss(p) PROVE FlagsEverywhere'
  BY <1>0, <1>3 DEF Miss, FlagsEverywhere, TypeOK, Goto
<1>4. ASSUME NEW p \in Processes, Call(p) PROVE FlagsEverywhere'
  <2>1. ~down /\ remote # Empty
    BY <1>0, <1>4, FlagsAssumption DEF Call, TypeOK
  <2>2. got' = [got EXCEPT ![p] = [flags |-> remote, old |-> down]]
    BY <1>0, <1>4, <2>1 DEF Call
  <2> QED BY <1>0, <1>4, <2>1, <2>2 DEF Call, FlagsEverywhere, TypeOK, Goto
<1>5. ASSUME NEW p \in Processes, Put(p) PROVE FlagsEverywhere'
  <2>1. got[p] \in Entry /\ got[p].flags # Empty
    BY <1>0, <1>5 DEF Put, TypeOK
  <2>2. \A q \in Processes : step'[q] = "put" => step[q] = "put" /\ q # p
    BY <1>5, <2>1, ReturnTypes DEF Put
  <2>3. \A q \in Processes : phase'[q] # "previous"
    BY <1>0, <1>5, <2>1, ReturnKeepsFlags DEF Put
  <2> QED BY <1>0, <1>5, <2>1, <2>2, <2>3 DEF Put, FlagsEverywhere, TypeOK
<1>6. ASSUME NEW p \in Processes, Evict(p) PROVE FlagsEverywhere'
  BY <1>0, <1>6 DEF Evict, FlagsEverywhere, TypeOK, Goto
<1>7. CASE Age
  BY <1>0, <1>7 DEF Age, FlagsEverywhere, TypeOK, Entry
<1>8. CASE CloudServices
  BY <1>0, <1>8 DEF CloudServices, FlagsEverywhere
<1>9. CASE UNCHANGED vars
  BY <1>0, <1>9 DEF vars, FlagsEverywhere
<1> QED BY <1>1, <1>2, <1>3, <1>4, <1>5, <1>6, <1>7, <1>8, <1>9 DEF Next, Step

\* As long as Cloud Services answer, the cache never holds an entry without flags and
\* nobody falls back on old ones.
THEOREM NoNeedlessFallback == Spec => []FallbackOnlyOnFailure
<1>1. Init => FlagsEverywhere
  BY DEF Init, FlagsEverywhere
<1>2. FlagsEverywhere => FallbackOnlyOnFailure
  BY DEF FlagsEverywhere, FallbackOnlyOnFailure
<1> QED BY <1>1, <1>2, FlagsInductive, TypeCorrect, PTL DEF Spec

-----------------------------------------------------------------------------
\* How an undisturbed refresh of the tenant's flags gets to its end.
Undisturbed(p) ==
    key = "tenantNewFeatures" /\ quiet[p] /\ held[p] # None /\ held[p].flags # Empty
        => /\ phase[p] # "existing"
           /\ phase[p] = "previous" /\ step[p] = "get" => cache = None
           /\ phase[p] = "previous" /\ step[p] = "put" => got[p].flags # Empty
           /\ step[p] = "idle" => /\ got[p].flags # Empty
                                  /\ cache # None /\ cache.flags = got[p].flags

RefreshInv == \A p \in Processes : Undisturbed(p)

LEMMA RefreshInductive == TypeOK /\ RefreshInv /\ [Next]_vars => RefreshInv'
<1> SUFFICES ASSUME TypeOK, RefreshInv, [Next]_vars, NEW r \in Processes
             PROVE  Undisturbed(r)'
  BY DEF RefreshInv
<1>0. Undisturbed(r)
  BY DEF RefreshInv
<1>1. ASSUME NEW p \in Processes, Ask(p) PROVE Undisturbed(r)'
  BY <1>0, <1>1 DEF Ask, Undisturbed, TypeOK, Goto
<1>2. ASSUME NEW p \in Processes, Hit(p) PROVE Undisturbed(r)'
  <2>1. CASE r # p
    BY <1>0, <1>2, <2>1 DEF Hit, Return, Existing, Latest, Fallback, Undisturbed, TypeOK, Goto
  <2>2. CASE r = p
    BY <1>0, <1>2, <2>2 DEF Hit, Return, Existing, Latest, Fallback, Undisturbed, TypeOK, Goto
  <2> QED BY <2>1, <2>2
<1>3. ASSUME NEW p \in Processes, Miss(p) PROVE Undisturbed(r)'
  BY <1>0, <1>3 DEF Miss, Undisturbed, TypeOK, Goto
<1>4. ASSUME NEW p \in Processes, Call(p) PROVE Undisturbed(r)'
  <2>1. CASE r # p
    BY <1>0, <1>4, <2>1 DEF Call, Undisturbed, TypeOK, Goto
  <2>2. CASE r = p
    BY <1>0, <1>4, <2>2 DEF Call, Undisturbed, TypeOK, Goto
  <2> QED BY <2>1, <2>2
<1>5. ASSUME NEW p \in Processes, Put(p) PROVE Undisturbed(r)'
  <2>1. CASE r # p
    <3>1. ~quiet'[r]
      BY <1>5, <2>1 DEF Put, Disturb
    <3> QED BY <3>1 DEF Undisturbed
  <2>2. CASE r = p
    <3>1. got[p] \in Entry
      BY <1>5 DEF Put, TypeOK
    <3>2. quiet'[r] => quiet[r]
      BY <1>5 DEF Put, Disturb
    <3>3. CASE phase[p] = "existing"
      BY <1>5, <2>2, <3>1, <3>2, <3>3, <1>0 DEF Put, Return, Existing, Latest, Fallback,
         Undisturbed, TypeOK, Goto
    <3>4. CASE phase[p] # "existing"
      BY <1>5, <2>2, <3>1, <3>2, <3>4, <1>0, NoEntryAssumption DEF Put, Return, Existing, Latest, Fallback,
         Undisturbed, TypeOK, Goto, Entry
    <3> QED BY <3>3, <3>4
  <2> QED BY <2>1, <2>2
<1>6. ASSUME NEW p \in Processes, Evict(p) PROVE Undisturbed(r)'
  <2>1. CASE r # p
    <3>1. ~quiet'[r]
      BY <1>6, <2>1 DEF Evict, Disturb
    <3> QED BY <3>1 DEF Undisturbed
  <2>2. CASE r = p
    <3>2. quiet'[r] => quiet[r]
      BY <1>6 DEF Evict, Disturb
    <3> QED BY <1>0, <1>6, <2>2, <3>2 DEF Evict, Undisturbed, TypeOK, Goto
  <2> QED BY <2>1, <2>2
<1>7. CASE Age
  <2>1. cache \in Entry /\ cache' \in Entry /\ cache'.flags = cache.flags
    BY <1>7 DEF Age, TypeOK, Entry
  <2> QED BY <1>0, <1>7, <2>1, NoEntryAssumption DEF Age, Undisturbed
<1>8. CASE CloudServices
  BY <1>0, <1>8 DEF CloudServices, Undisturbed
<1>9. CASE UNCHANGED vars
  BY <1>0, <1>9 DEF vars, Undisturbed
<1> QED BY <1>1, <1>2, <1>3, <1>4, <1>5, <1>6, <1>7, <1>8, <1>9 DEF Next, Step

\* A refresh of the tenant's flags that nobody disturbs ends with flags, whether or
\* not Cloud Services answer.
THEOREM TenantKeepsFlags == Spec => []TenantFallback
<1>1. Init => RefreshInv
  BY DEF Init, RefreshInv, Undisturbed
<1>2. RefreshInv => TenantFallback
  BY DEF RefreshInv, Undisturbed, TenantFallback, Refreshed
<1> QED BY <1>1, <1>2, RefreshInductive, TypeCorrect, PTL DEF Spec
===============================================================================
