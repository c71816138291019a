------------------------- MODULE ActionExecution_proofs -------------------------
(***************************************************************************)
(* For any actions, pages, page loads and number of runs: the state keeps  *)
(* its type; an action that shows itself as loading is being run, or its   *)
(* run is one of the two kinds that end without resetting it; the worker   *)
(* has the responses that the editor shows once it has handled its         *)
(* messages; and a request is sent with the responses that were shown when *)
(* its parameters were asked for.                                          *)
(***************************************************************************)
EXTENDS ActionExecution, FiniteSetTheorems, TLAPS

-----------------------------------------------------------------------------
(* Numbers and sequences                                                    *)

\* Among one more numbers than a finite set has there is one it does not have.
LEMMA LeastIsNat ==
    ASSUME NEW S, IsFiniteSet(S)
    PROVE  Least(S) \in Nat
  <1> DEFINE c == Cardinality(S)
  <1>1. c \in Nat
    BY FS_CardinalityType
  <1>2. \E n \in 1..c + 1 : n \notin S
    <2> SUFFICES ASSUME 1..c + 1 \subseteq S PROVE FALSE
      OBVIOUS
    <2>1. Cardinality(1..c + 1) <= c
      BY FS_Subset
    <2>2. Cardinality(1..c + 1) = c + 1
      BY <1>1, FS_Interval
    <2> QED
      BY <1>1, <2>1, <2>2
  <1>3. Least(S) \in 1..c + 1
    BY <1>2 DEF Least
  <1> QED
    BY <1>1, <1>3

LEMMA SetToSeqIsSeq ==
    ASSUME NEW S, IsFiniteSet(S)
    PROVE  SetToSeq(S) \in Seq(S)
  <1>1. Cardinality(S) \in Nat /\ ExistsBijection(1..Cardinality(S), S)
    BY FS_CardinalityType
  <1>2. \E f \in [1..Cardinality(S) -> S] : IsInjective(f)
    BY <1>1 DEF ExistsBijection, Bijection, Injection
  <1>3. SetToSeq(S) \in [1..Cardinality(S) -> S]
    BY <1>2 DEF SetToSeq
  <1> QED
    BY <1>1, <1>3

\* The sequence of a set has every element.
LEMMA SetToSeqHasAll ==
    ASSUME NEW S, IsFiniteSet(S), NEW x \in S
    PROVE  \E k \in 1..Len(SetToSeq(S)) : SetToSeq(S)[k] = x
  <1> DEFINE c == Cardinality(S)
             f == SetToSeq(S)
  <1>1. c \in Nat /\ ExistsBijection(1..c, S)
    BY FS_CardinalityType
  <1>2. \E g \in [1..c -> S] : IsInjective(g)
    BY <1>1 DEF ExistsBijection, Bijection, Injection
  <1>3. f \in [1..c -> S] /\ IsInjective(f)
    BY <1>2 DEF SetToSeq
  <1>4. IsFiniteSet(1..c) /\ Cardinality(1..c) = c
    BY <1>1, FS_Interval
  <1> HIDE DEF f, c
  <1>5. f \in Injection(1..c, S)
    BY <1>3 DEF Injection, IsInjective
  <1>6. f \in Surjection(1..c, S)
    BY <1>4, <1>5, FS_Injection DEF c
  <1>7. \E k \in 1..c : f[k] = x
    BY <1>6 DEF Surjection
  <1>8. Len(f) = c
    BY <1>1, <1>3
  <1> QED
    BY <1>7, <1>8 DEF f

LEMMA SeqOfMore ==
    ASSUME NEW S, NEW T, S \subseteq T, NEW q \in Seq(S)
    PROVE  q \in Seq(T)
  OBVIOUS

LEMMA ConcatThrice ==
    ASSUME NEW S, NEW q \in Seq(S), NEW r \in Seq(S), NEW t \in Seq(S)
    PROVE  (q \o r) \o t = q \o (r \o t)
  OBVIOUS

LEMMA ValuesFinite ==
    ASSUME NEW S, NEW q \in Seq(S)
    PROVE  IsFiniteSet(Values(q)) /\ Values(q) \subseteq S
  <1>1. q \in Surjection(1..Len(q), Values(q))
    BY DEF Surjection, Values
  <1>2. IsFiniteSet(1..Len(q))
    BY FS_Interval
  <1>3. IsFiniteSet(Values(q))
    BY <1>1, <1>2, FS_Surjection
  <1> QED
    BY <1>3 DEF Values

-----------------------------------------------------------------------------
(* The invariant                                                            *)

\* A message to the worker, with finitely many responses to check.
Asked == {m \in Requests : m.kind = "params" => IsFiniteSet(m.shown)}

\* The type of the state of the client, with finitely many runs: so there is
\* always a number for the next.
Sound(s) ==
    /\ s \in Client
    /\ IsFiniteSet(s.runs)
    /\ s.toWorker \in Seq(Asked)

\* A run whose end will reset isLoading of its action.
Busy(s, a) == \E r \in s.runs : r.action = a /\ r.at # "tree"

\* LoadingExplained is not inductive: a run on page load that waits for a tree
\* is a run of its action but explains nothing, as its answer was received.
Accounted(s) == \A a \in s.loading : Busy(s, a) \/ a \in s.dropped

Good(s) == Sound(s) /\ Accounted(s)

\* The messages that set the data of a name, and what they set it to.
Touches(m, n) == m.kind = "clear" \/ (m.kind = "update" /\ m.name = n)
Left(m) == IF m.kind = "clear" THEN 0 ELSE m.data

\* ResponseIsShown says nothing while messages wait, and SentWithResponses only
\* of the first: both follow from what is to come.
\* With the data d the worker has v for a name when it has handled the first l
\* of the messages q.
Leaves(q, l, d, n, v) ==
    /\ (\A k \in 1..l : ~Touches(q[k], n)) => d[n] = v
    /\ \A i \in 1..l :
          Touches(q[i], n) /\ (\A k \in i + 1..l : ~Touches(q[k], n)) => Left(q[i]) = v

\* When all messages are handled the worker has what the state has, or nothing
\* while its cache is about to be cleared or was.
Agrees(s) ==
    \A a \in Actions :
        a \notin s.apart /\ (fetch # {} \/ PageOf[a] = page) =>
            Leaves(s.toWorker, Len(s.toWorker), worker.data, Name[a],
                   IF fetch = {} THEN s.data[a] ELSE 0)

\* When a request for parameters is handled the worker has what was shown.
Shows(s) ==
    \A p \in 1..Len(s.toWorker) : s.toWorker[p].kind = "params" =>
        \A e \in s.toWorker[p].shown : Leaves(s.toWorker, p - 1, worker.data, e[1], e[2])

Right(s) == Agrees(s) /\ Shows(s)

\* The sets that are left of the page load are not empty.
Staged(s) == s.rest \in Seq((SUBSET Actions) \ {{}})

\* What the worker is told of a state, and what it has left to do of the load.
Fine(s) == Staged(s) /\ Right(s)

\* When a set of the page load is over, no other is left.
Idle(s) == OfLoad(s) = {} => s.rest = <<>>

\* A worker without an evaluator has no data either.
FreshWorker == ~worker.exists => worker.data = Nothing

IInv == TypeOK /\ Good(client) /\ Fine(client) /\ Idle(client) /\ FreshWorker

-----------------------------------------------------------------------------
(* What messages leave in the worker                                        *)

\* Messages that do not touch the name do not matter.
LEMMA LeavesOfAlike ==
    ASSUME NEW q, NEW t, NEW l \in Nat, NEW d, NEW n, NEW v, Leaves(q, l, d, n, v),
           \A i \in 1..l : t[i] = q[i] \/ (~Touches(t[i], n) /\ ~Touches(q[i], n))
    PROVE  Leaves(t, l, d, n, v)
  BY DEF Leaves

\* Nor do messages after these.
LEMMA LeavesOfPrefix ==
    ASSUME NEW q, NEW t, NEW l \in Nat, \A i \in 1..l : t[i] = q[i],
           NEW d, NEW n, NEW v, Leaves(q, l, d, n, v)
    PROVE  Leaves(t, l, d, n, v)
  BY LeavesOfAlike

\* Further messages leave the value, or say it again.
LEMMA LeavesAfter ==
    ASSUME NEW q, NEW l \in Nat, NEW m \in Nat, l <= m, NEW d, NEW n, NEW v,
           \A k \in l + 1..m : Touches(q[k], n) => Left(q[k]) = v,
           Leaves(q, l, d, n, v) \/ \E k \in l + 1..m : Touches(q[k], n)
    PROVE  Leaves(q, m, d, n, v)
  <1>1. ASSUME \A k \in 1..m : ~Touches(q[k], n) PROVE d[n] = v
    <2>1. (1..l) \subseteq 1..m /\ (l + 1..m) \subseteq 1..m
      OBVIOUS
    <2> QED
      BY <1>1, <2>1 DEF Leaves
  <1>2. ASSUME NEW i \in 1..m, Touches(q[i], n), \A k \in i + 1..m : ~Touches(q[k], n)
        PROVE  Left(q[i]) = v
    <2>1. CASE i \in l + 1..m
      BY <1>2, <2>1
    <2>2. CASE i \in 1..l
      <3>1. (l + 1..m) \subseteq i + 1..m /\ (i + 1..l) \subseteq i + 1..m
        BY <2>2
      <3> QED
        BY <1>2, <2>2, <3>1 DEF Leaves
    <2> QED
      BY <2>1, <2>2
  <1> QED
    BY <1>1, <1>2 DEF Leaves

\* The first message is handled: it leaves its value, or a later one does.
LEMMA LeavesOfTail ==
    ASSUME NEW S, NEW q \in Seq(S), q # <<>>, NEW l \in 1..Len(q),
           NEW d, NEW c, NEW n, NEW v, Leaves(q, l, d, n, v),
           ~Touches(Head(q), n) => c[n] = d[n],
           Touches(Head(q), n) /\ Left(Head(q)) = v => c[n] = v
    PROVE  Leaves(Tail(q), l - 1, c, n, v)
  <1> DEFINE t == Tail(q)
  <1>1. \A k \in 1..l - 1 : t[k] = q[k + 1]
    OBVIOUS
  <1>2. Head(q) = q[1]
    OBVIOUS
  <1> HIDE DEF t
  <1>3. ASSUME \A k \in 1..l - 1 : ~Touches(t[k], n) PROVE c[n] = v
    <2>1. \A k \in 2..l : k - 1 \in 1..l - 1 /\ q[k] = t[k - 1]
      BY <1>1
    <2>2. \A k \in 2..l : ~Touches(q[k], n)
      BY <1>3, <2>1
    <2>3. CASE Touches(q[1], n)
      <3>1. Left(q[1]) = v
        BY <2>2, <2>3 DEF Leaves
      <3> QED
        BY <1>2, <2>3, <3>1
    <2>4. CASE ~Touches(q[1], n)
      <3>1. \A k \in 1..l : ~Touches(q[k], n)
        <4>1. \A k \in 1..l : k = 1 \/ k \in 2..l
          OBVIOUS
        <4> QED
          BY <2>2, <2>4, <4>1
      <3> QED
        BY <1>2, <2>4, <3>1 DEF Leaves
    <2> QED
      BY <2>3, <2>4
  <1>4. ASSUME NEW i \in 1..l - 1, Touches(t[i], n), \A k \in i + 1..l - 1 : ~Touches(t[k], n)
        PROVE  Left(t[i]) = v
    <2>1. i + 1 \in 1..l /\ t[i] = q[i + 1]
      BY <1>1
    <2>2. \A k \in (i + 1) + 1..l : k - 1 \in i + 1..l - 1 /\ q[k] = t[k - 1]
      BY <1>1
    <2>3. \A k \in (i + 1) + 1..l : ~Touches(q[k], n)
      BY <1>4, <2>2
    <2> QED
      BY <1>4, <2>1, <2>3 DEF Leaves
  <1> QED
    BY <1>3, <1>4 DEF Leaves, t

LEMMA LeavesOfConcat ==
    ASSUME NEW S, NEW q \in Seq(S), NEW ms \in Seq(S), NEW d, NEW n, NEW v,
           \A k \in 1..Len(ms) : Touches(ms[k], n) => Left(ms[k]) = v,
           Leaves(q, Len(q), d, n, v) \/ \E k \in 1..Len(ms) : Touches(ms[k], n)
    PROVE  Leaves(q \o ms, Len(q \o ms), d, n, v)
  <1> DEFINE l == Len(q)
             m == Len(ms)
             u == q \o ms
  <1>1. l \in Nat /\ m \in Nat /\ Len(u) = l + m
    OBVIOUS
  <1>2. (\A i \in 1..l : u[i] = q[i]) /\ (\A k \in 1..m : u[l + k] = ms[k])
    OBVIOUS
  <1> HIDE DEF l, m, u
  <1>3. \A k \in l + 1..l + m : k - l \in 1..m /\ u[k] = ms[k - l]
    <2> TAKE k \in l + 1..l + m
    <2>1. k - l \in 1..m /\ k = l + (k - l)
      BY <1>1
    <2> QED
      BY <1>2, <2>1
  <1>4. \A k \in l + 1..l + m : Touches(u[k], n) => Left(u[k]) = v
    BY <1>3 DEF m
  <1>5. Leaves(u, l, d, n, v) \/ \E k \in l + 1..l + m : Touches(u[k], n)
    <2>1. CASE Leaves(q, l, d, n, v)
      BY <1>1, <1>2, <2>1, LeavesOfPrefix
    <2>2. CASE \E k \in 1..m : Touches(ms[k], n)
      <3>1. PICK k \in 1..m : Touches(ms[k], n)
        BY <2>2
      <3>2. l + k \in l + 1..l + m /\ Touches(u[l + k], n)
        BY <1>1, <1>2, <3>1
      <3> QED
        BY <3>2
    <2> QED
      BY <2>1, <2>2 DEF l, m
  <1>6. Leaves(u, l + m, d, n, v)
    <2>1. l + m \in Nat /\ l <= l + m
      BY <1>1
    <2> QED
      BY <1>1, <1>4, <1>5, <2>1, LeavesAfter
  <1> QED
    BY <1>1, <1>6 DEF u

-----------------------------------------------------------------------------
(* What the sagas do to the state                                           *)

LEMMA ConstantFacts ==
    /\ IsFiniteSet(Actions)
    /\ Name \in [Actions -> Names] /\ PageOf \in [Actions -> Pages]
    /\ \A a, b \in Actions : Name[a] = Name[b] /\ PageOf[a] = PageOf[b] => a = b
    /\ OnLoad \in [Pages -> Seq((SUBSET Actions) \ {{}})]
    /\ Reads \in [Actions -> SUBSET Names] /\ Confirms \subseteq Actions
    /\ MaxAsked \in Nat
BY ActionAssumption

\* Finitely many runs and messages leave a number for the next run.
LEMMA SerialIsNat ==
    ASSUME NEW s, Sound(s), toMain \in Seq(Replies)
    PROVE  Serial(s) \in Nat
  <1> DEFINE ms == Messages(s, {"params", "values"})
             A == {r.n : r \in s.runs}
             B == {m.run.n : m \in ms}
  <1>1. IsFiniteSet(ms)
    <2>1. IsFiniteSet(Values(s.toWorker)) /\ IsFiniteSet(Values(toMain))
      BY ValuesFinite DEF Sound
    <2>2. IsFiniteSet(Values(s.toWorker) \cup Values(toMain))
      BY <2>1, FS_Union
    <2> QED
      BY <2>2, FS_Subset DEF Messages
  <1>2. IsFiniteSet(A)
    <2>1. [r \in s.runs |-> r.n] \in Surjection(s.runs, A)
      BY DEF Surjection
    <2> QED
      BY <2>1, FS_Surjection DEF Sound
  <1>3. IsFiniteSet(B)
    <2> HIDE DEF ms
    <2>1. [m \in ms |-> m.run.n] \in Surjection(ms, B)
      BY DEF Surjection
    <2> QED
      BY <1>1, <2>1, FS_Surjection
  <1>4. IsFiniteSet(A \cup B)
    BY <1>2, <1>3, FS_Union
  <1> QED
    BY <1>4, LeastIsNat DEF Serial

\* So they do for the next response of a name.
LEMMA ResponseIsNat ==
    ASSUME NEW s, Sound(s), toMain \in Seq(Replies), NEW n
    PROVE  Response(s, n) \in Nat
  <1> DEFINE named == {b \in Actions : Name[b] = n}
             us == {u \in Messages(s, {"update"}) : u.name = n}
             ps == Messages(s, {"params"})
             A == {s.data[a] : a \in named}
             B == {m.data : m \in us}
             shown == {{e[2] : e \in m.shown} : m \in ps}
  <1>1. IsFiniteSet(Messages(s, {"update"})) /\ IsFiniteSet(ps)
    <2>1. IsFiniteSet(Values(s.toWorker)) /\ IsFiniteSet(Values(toMain))
      BY ValuesFinite DEF Sound
    <2>2. IsFiniteSet(Values(s.toWorker) \cup Values(toMain))
      BY <2>1, FS_Union
    <2> QED
      BY <2>2, FS_Subset DEF Messages
  <1>2. IsFiniteSet(A)
    <2>1. IsFiniteSet(named)
      BY ConstantFacts, FS_Subset
    <2> HIDE DEF named
    <2>2. [a \in named |-> s.data[a]] \in Surjection(named, A)
      BY DEF Surjection
    <2> QED
      BY <2>1, <2>2, FS_Surjection
  <1>3. IsFiniteSet(B)
    <2>1. IsFiniteSet(us)
      BY <1>1, FS_Subset
    <2> HIDE DEF us
    <2>2. [m \in us |-> m.data] \in Surjection(us, B)
      BY DEF Surjection
    <2> QED
      BY <2>1, <2>2, FS_Surjection
  <1>4. IsFiniteSet(UNION shown)
    <2>1. \A m \in ps : IsFiniteSet(m.shown)
      <3> SUFFICES ASSUME NEW m \in ps PROVE IsFiniteSet(m.shown)
        OBVIOUS
      <3>1. m.kind = "params" /\ (m \in Asked \/ m \in Replies)
        BY ValuesFinite DEF Messages, Sound
      <3> QED
        BY <3>1 DEF Asked, Replies
    <2> HIDE DEF ps
    <2>2. \A T \in shown : IsFiniteSet(T)
      <3> SUFFICES ASSUME NEW m \in ps PROVE IsFiniteSet({e[2] : e \in m.shown})
        OBVIOUS
      <3>1. [e \in m.shown |-> e[2]] \in Surjection(m.shown, {e[2] : e \in m.shown})
        BY DEF Surjection
      <3> QED
        BY <2>1, <3>1, FS_Surjection
    <2>3. [m \in ps |-> {e[2] : e \in m.shown}] \in Surjection(ps, shown)
      BY DEF Surjection
    <2>4. IsFiniteSet(shown)
      BY <1>1, <2>3, FS_Surjection
    <2> QED
      BY <2>2, <2>4, FS_UNION
  <1> HIDE DEF A, B, shown
  <1>5. IsFiniteSet(A \cup {worker.data[n]})
    BY <1>2, FS_AddElement
  <1>6. IsFiniteSet(A \cup {worker.data[n]} \cup B)
    BY <1>3, <1>5, FS_Union
  <1>7. IsFiniteSet(A \cup {worker.data[n]} \cup B \cup UNION shown)
    BY <1>4, <1>6, FS_Union
  <1>8. Response(s, n) = Least(A \cup {worker.data[n]} \cup B \cup UNION shown)
    BY DEF Response, A, B, shown
  <1> QED
    BY <1>7, <1>8, LeastIsNat

\* Sending to the worker leaves the runs alone.
LEMMA PostKeeps ==
    ASSUME NEW s, Good(s), NEW ms \in Seq(Asked)
    PROVE  Good(Post(s, ms))
  <1>1. /\ Post(s, ms).toWorker = s.toWorker \o ms
        /\ Post(s, ms).runs = s.runs /\ Post(s, ms).loading = s.loading
        /\ Post(s, ms).dropped = s.dropped
    BY DEF Post, Good, Sound, Client
  <1>2. s.toWorker \o ms \in Seq(Asked)
    BY DEF Good, Sound
  <1>3. Post(s, ms) \in Client
    <2>1. s.toWorker \o ms \in Seq(Requests)
      BY <1>2, SeqOfMore DEF Asked
    <2> QED
      BY <2>1 DEF Post, Good, Sound, Client
  <1> QED
    BY <1>1, <1>2, <1>3 DEF Good, Sound, Accounted, Busy

\* Requests for parameters made in a state.
Sure(s) ==
    {m \in Asked : m.kind = "params" /\
        \A e \in m.shown : fetch = {} /\ \E b \in Actions : Told(s, b) /\ e = <<Name[b], s.data[b]>>}

LEMMA MentionedOfState ==
    ASSUME NEW s, Sound(s), NEW a
    PROVE  IsFiniteSet(Mentioned(s, a)) /\ Mentioned(s, a) \subseteq Names \X Nat
  <1> DEFINE bs == {b \in Actions : fetch = {} /\ Name[b] \in Reads[a] /\ Told(s, b)}
  <1>1. IsFiniteSet(bs)
    BY ConstantFacts, FS_Subset
  <1>2. \A b \in bs : Name[b] \in Names /\ s.data[b] \in Nat
    BY ConstantFacts DEF Sound, Client, Responses
  <1>3. Mentioned(s, a) = {<<Name[b], s.data[b]>> : b \in bs}
    BY DEF Mentioned
  <1> HIDE DEF bs
  <1>4. [b \in bs |-> <<Name[b], s.data[b]>>] \in Surjection(bs, {<<Name[b], s.data[b]>> : b \in bs})
    BY DEF Surjection
  <1> QED
    BY <1>1, <1>2, <1>3, <1>4, FS_Surjection

\* A run that executes.
On(r) == [r EXCEPT !.at = IF Reads[r.action] = {} THEN "http" ELSE "params"]
Begun(rs) == {On(r) : r \in rs}
Asking(s, rs) ==
    {[kind |-> "params", run |-> r, shown |-> Mentioned(s, r.action)] :
        r \in {q \in Begun(rs) : q.at = "params"}}

LEMMA BegunRuns ==
    ASSUME NEW s, Sound(s), NEW rs \in SUBSET s.runs
    PROVE  /\ IsFiniteSet(Begun(rs)) /\ Begun(rs) \subseteq Run
           /\ \A r \in rs : /\ On(r) \in Begun(rs) /\ On(r).at # "tree"
                            /\ On(r).action = r.action /\ On(r).kind = r.kind
  <1>1. \A r \in rs : /\ On(r) \in Run /\ On(r).action = r.action /\ On(r).at # "tree"
                      /\ On(r).kind = r.kind
    BY DEF Sound, Client, Run, On
  <1>2. IsFiniteSet(rs)
    BY FS_Subset DEF Sound
  <1>3. [r \in rs |-> On(r)] \in Surjection(rs, Begun(rs))
    BY DEF Surjection, Begun
  <1> QED
    BY <1>1, <1>2, <1>3, FS_Surjection DEF Begun

LEMMA AskingIsSure ==
    ASSUME NEW s, Sound(s), NEW rs \in SUBSET s.runs
    PROVE  SetToSeq(Asking(s, rs)) \in Seq(Sure(s))
  <1> DEFINE waiting == {q \in Begun(rs) : q.at = "params"}
             Ask(r) == [kind |-> "params", run |-> r, shown |-> Mentioned(s, r.action)]
             ask == {Ask(r) : r \in waiting}
  <1>1. IsFiniteSet(waiting)
    BY BegunRuns, FS_Subset
  <1>2. \A r \in waiting : Ask(r) \in Sure(s)
    <2> SUFFICES ASSUME NEW r \in waiting PROVE Ask(r) \in Sure(s)
      OBVIOUS
    <2>1. r \in Run
      BY BegunRuns
    <2>2. Ask(r) \in Requests
      BY <2>1, MentionedOfState DEF Requests
    <2>3. Ask(r) \in Asked
      BY <2>2, MentionedOfState DEF Asked
    <2> QED
      BY <2>3 DEF Sure, Mentioned
  <1>3. ask = Asking(s, rs)
    BY DEF Asking
  <1> HIDE DEF waiting, Ask
  <1>4. [r \in waiting |-> Ask(r)] \in Surjection(waiting, ask)
    BY DEF Surjection
  <1>5. IsFiniteSet(ask)
    BY <1>1, <1>4, FS_Surjection
  <1>6. ask \subseteq Sure(s)
    BY <1>2
  <1> HIDE DEF ask
  <1> QED
    BY <1>3, <1>5, <1>6, SetToSeqIsSeq, SeqOfMore

\* The runs that execute are busy, and their actions are all that becomes
\* loading.
LEMMA ExecuteKeeps ==
    ASSUME NEW s, Good(s), NEW rs \in SUBSET s.runs
    PROVE  Good(Execute(s, rs))
  <1> DEFINE begun == Begun(rs)
             t == [s EXCEPT !.runs = (@ \ rs) \cup begun,
                            !.loading = @ \cup {r.action : r \in rs}]
  <1>1. /\ IsFiniteSet(begun) /\ begun \subseteq Run
        /\ \A r \in rs : On(r) \in begun /\ On(r).action = r.action /\ On(r).at # "tree"
    BY BegunRuns DEF Good
  <1>2. SetToSeq(Asking(s, rs)) \in Seq(Asked)
    BY AskingIsSure, SeqOfMore DEF Good, Sure
  <1>3. Execute(s, rs) = Post(t, SetToSeq(Asking(s, rs)))
    BY DEF Execute, Asking, Begun, On
  <1> HIDE DEF begun
  <1>4. /\ t.runs = (s.runs \ rs) \cup begun /\ t.toWorker = s.toWorker
        /\ t.loading = s.loading \cup {r.action : r \in rs}
        /\ t.dropped = s.dropped
    BY DEF Good, Sound, Client
  <1>5. IsFiniteSet(t.runs)
    <2>1. IsFiniteSet(s.runs \ rs)
      BY FS_Subset DEF Good, Sound
    <2>2. IsFiniteSet((s.runs \ rs) \cup begun)
      BY ONLY <1>1, <2>1, FS_Union
    <2> QED
      BY ONLY <1>4, <2>2
  <1>6. t \in Client
    <2>1. (s.runs \ rs) \cup begun \subseteq Run
      BY <1>1 DEF Good, Sound, Client
    <2>2. \A r \in rs : r.action \in Actions
      BY DEF Good, Sound, Client, Run
    <2>3. s.loading \cup {r.action : r \in rs} \subseteq Actions
      BY <2>2 DEF Good, Sound, Client
    <2> QED
      BY <2>1, <2>3 DEF Good, Sound, Client
  <1>7. Accounted(t)
    <2> SUFFICES ASSUME NEW a \in s.loading \cup {r.action : r \in rs}
                 PROVE  (\E r \in (s.runs \ rs) \cup begun : r.action = a /\ r.at # "tree")
                            \/ a \in s.dropped
      BY <1>4 DEF Accounted, Busy
    <2>1. CASE \E r \in rs : r.action = a
      BY <1>1, <2>1
    <2>2. CASE ~\E r \in rs : r.action = a
      BY <2>2 DEF Good, Accounted, Busy
    <2> QED
      BY <2>1, <2>2
  <1> HIDE DEF t
  <1>8. Good(t)
    BY <1>4, <1>5, <1>6, <1>7 DEF Good, Sound
  <1> QED
    BY <1>2, <1>3, <1>8, PostKeeps

\* New runs to be confirmed.
NewRuns(s, as, kind) ==
    {[n |-> Serial(s), action |-> a, kind |-> kind, at |-> "confirm"] : a \in as}

LEMMA NewRunsSound ==
    ASSUME NEW s, NEW as \in SUBSET Actions, NEW kind \in {"pane", "trigger", "load"},
           Sound(s), toMain \in Seq(Replies)
    PROVE  Sound([s EXCEPT !.runs = @ \cup NewRuns(s, as, kind)])
  <1> DEFINE New(a) == [n |-> Serial(s), action |-> a, kind |-> kind, at |-> "confirm"]
             rs == NewRuns(s, as, kind)
             t == [s EXCEPT !.runs = @ \cup rs]
  <1>1. \A a \in as : New(a) \in Run
    BY SerialIsNat DEF Run
  <1>2. rs = {New(a) : a \in as}
    BY DEF NewRuns
  <1>3. IsFiniteSet(rs) /\ rs \subseteq Run
    <2>1. IsFiniteSet(as)
      BY ConstantFacts, FS_Subset
    <2> HIDE DEF New, rs
    <2>2. [a \in as |-> New(a)] \in Surjection(as, rs)
      BY <1>2 DEF Surjection
    <2> QED
      BY <1>1, <1>2, <2>1, <2>2, FS_Surjection
  <1> HIDE DEF New, rs
  <1>4. t.runs = s.runs \cup rs /\ t.toWorker = s.toWorker
    BY DEF Sound, Client
  <1>5. IsFiniteSet(t.runs)
    BY <1>3, <1>4, FS_Union DEF Sound
  <1>6. t \in Client
    BY <1>3 DEF Sound, Client
  <1> HIDE DEF t
  <1>7. Sound(t)
    BY <1>4, <1>5, <1>6 DEF Sound
  <1> QED
    BY <1>7 DEF t, rs

\* New runs account for their actions, whether they are confirmed first or not.
LEMMA StartKeeps ==
    ASSUME NEW s, NEW as \in SUBSET Actions, NEW kind \in {"pane", "trigger", "load"},
           Sound(s), toMain \in Seq(Replies),
           \A a \in s.loading : Busy(s, a) \/ a \in s.dropped \/ a \in as
    PROVE  Good(Start(s, as, kind))
  <1> DEFINE rs == NewRuns(s, as, kind)
             t == [s EXCEPT !.runs = @ \cup rs]
             now == {r \in rs : r.action \notin Confirms}
  <1>1. Sound(t)
    BY NewRunsSound
  <1>2. \A a \in as : \E r \in rs : r.action = a /\ r.at # "tree"
    <2> TAKE a \in as
    <2>1. [n |-> Serial(s), action |-> a, kind |-> kind, at |-> "confirm"] \in rs
      BY DEF NewRuns
    <2> HIDE DEF rs
    <2> QED
      BY <2>1
  <1>3. Start(s, as, kind) = Execute(t, now)
    BY DEF Start, NewRuns
  <1> HIDE DEF rs
  <1>4. t.runs = s.runs \cup rs /\ t.loading = s.loading /\ t.dropped = s.dropped
    BY DEF Sound, Client
  <1>5. now \in SUBSET t.runs
    BY <1>4
  <1> HIDE DEF t, now
  <1>6. Accounted(t)
    BY <1>2, <1>4 DEF Accounted, Busy
  <1> QED
    BY <1>1, <1>3, <1>5, <1>6, ExecuteKeeps DEF Good

\* What takeLatest cancels is noted.
LEMMA CancelKeeps ==
    ASSUME NEW s, Good(s), NEW rs \in SUBSET s.runs
    PROVE  Good(Cancel(s, rs))
  <1>1. /\ Cancel(s, rs).runs = s.runs \ rs /\ Cancel(s, rs).toWorker = s.toWorker
        /\ Cancel(s, rs).loading = s.loading
        /\ Cancel(s, rs).dropped = s.dropped \cup {r.action : r \in rs}
    BY DEF Cancel, Good, Sound, Client
  <1>2. IsFiniteSet(s.runs \ rs)
    BY FS_Subset DEF Good, Sound
  <1>3. Cancel(s, rs) \in Client
    <2>1. \A r \in rs : r.action \in Actions
      BY DEF Good, Sound, Client, Run
    <2>2. s.dropped \cup {r.action : r \in rs} \subseteq Actions
      BY <2>1 DEF Good, Sound, Client
    <2> QED
      BY <2>2 DEF Cancel, Good, Sound, Client
  <1> QED
    BY <1>1, <1>2, <1>3 DEF Good, Sound, Accounted, Busy

LEMMA AdvanceKeeps ==
    ASSUME NEW s, Good(s), toMain \in Seq(Replies)
    PROVE  Good(Advance(s))
  <1>1. CASE OfLoad(s) = {} /\ s.rest # <<>>
    <2> DEFINE t == [s EXCEPT !.rest = Tail(@)]
    <2>1. s.rest \in Seq(SUBSET Actions)
      BY DEF Good, Sound, Client
    <2>2. Head(s.rest) \in SUBSET Actions /\ Tail(s.rest) \in Seq(SUBSET Actions)
      BY <1>1, <2>1
    <2>3. Good(t)
      BY <2>2 DEF Good, Sound, Client, Accounted, Busy
    <2>4. Advance(s) = Start(t, Head(s.rest), "load")
      BY <1>1 DEF Advance
    <2> HIDE DEF t
    <2> QED
      BY <2>2, <2>3, <2>4, StartKeeps DEF Good, Accounted
  <1>2. CASE ~(OfLoad(s) = {} /\ s.rest # <<>>)
    BY <1>2 DEF Advance
  <1> QED
    BY <1>1, <1>2

LEMMA StartLoadKeeps ==
    ASSUME NEW s, Good(s), NEW sets \in Seq(SUBSET Actions)
    PROVE  Good(StartLoad(s, sets))
  <1>1. Good(Cancel(s, OfLoad(s)))
    BY CancelKeeps DEF OfLoad
  <1>2. StartLoad(s, sets) = [Cancel(s, OfLoad(s)) EXCEPT !.rest = sets]
    BY DEF StartLoad
  <1> QED
    BY <1>1, <1>2 DEF Good, Sound, Client, Accounted, Busy

\* A run that ends takes isLoading of its action with it.
LEMMA OverKeeps ==
    ASSUME NEW s, Sound(s), NEW r \in s.runs,
           \A a \in s.loading : a # r.action => Busy(s, a) \/ a \in s.dropped,
           r.action \in s.loading => r.action \in s.dropped
    PROVE  Good(Over(s, r))
  <1>1. /\ Over(s, r).runs = s.runs \ {r} /\ Over(s, r).toWorker = s.toWorker
        /\ Over(s, r).loading = s.loading /\ Over(s, r).dropped = s.dropped
    BY DEF Over, Sound, Client
  <1>2. IsFiniteSet(s.runs \ {r})
    BY FS_Subset DEF Sound
  <1>3. Over(s, r) \in Client
    BY DEF Over, Sound, Client
  <1>4. Accounted(Over(s, r))
    BY <1>1 DEF Accounted, Busy
  <1> QED
    BY <1>1, <1>2, <1>3, <1>4 DEF Good, Sound

LEMMA ResetLoadingKeeps ==
    ASSUME NEW s, Good(s), NEW a
    PROVE  /\ Good(ResetLoading(s, a)) /\ a \notin ResetLoading(s, a).loading
           /\ ResetLoading(s, a).runs = s.runs /\ ResetLoading(s, a).dropped = s.dropped
           /\ ResetLoading(s, a).loading = s.loading \ {a}
  BY DEF ResetLoading, Good, Sound, Client, Accounted, Busy

\* A run on page load or from the editor is given up with isLoading, one of an
\* event handler must have had it reset or be noted before.
LEMMA GiveUpKeeps ==
    ASSUME NEW s, Good(s), NEW r \in s.runs,
           r.kind = "trigger" /\ r.action \in s.loading => r.action \in s.dropped
    PROVE  Good(GiveUp(s, r))
  <1> DEFINE t == ResetLoading(s, r.action)
             u == [t EXCEPT !.data[r.action] = 0, !.apart = @ \cup {r.action}]
  <1>1. r \in Run /\ r.action \in Actions
    BY DEF Good, Sound, Client, Run
  <1>2. Good(t) /\ r.action \notin t.loading /\ t.runs = s.runs
    BY ResetLoadingKeeps
  <1>3. CASE r.kind = "pane"
    <2>1. GiveUp(s, r) = Over(t, r)
      BY <1>3 DEF GiveUp
    <2> HIDE DEF t
    <2> QED
      BY <1>2, <2>1, OverKeeps DEF Good, Accounted
  <1>4. CASE r.kind = "load"
    <2> HIDE DEF t
    <2>1. /\ Good(u) /\ r.action \notin u.loading /\ u.runs = s.runs
      BY <1>1, <1>2 DEF Good, Sound, Client, Responses, Accounted, Busy
    <2>2. GiveUp(s, r) = Over(u, r)
      BY <1>4 DEF GiveUp, t
    <2> HIDE DEF u
    <2> QED
      BY <2>1, <2>2, OverKeeps DEF Good, Accounted
  <1>5. CASE r.kind = "trigger"
    <2>1. GiveUp(s, r) = Over(s, r)
      BY <1>5 DEF GiveUp
    <2> QED
      BY <1>5, <2>1, OverKeeps DEF Good, Accounted
  <1> QED
    BY <1>1, <1>3, <1>4, <1>5 DEF Run

\* The new response; what is loading does not depend on it.
LEMMA AnsweredKeeps ==
    ASSUME NEW s, Good(s), NEW a \in Actions, NEW n \in Nat
    PROVE  /\ Good(Answered(s, a, n))
           /\ Answered(s, a, n).loading = s.loading /\ Answered(s, a, n).runs = s.runs
  <1> DEFINE named == {b \in Actions : Name[b] = Name[a]}
             x == IF fetch = {} /\ PageOf[a] = page THEN s.apart \ {a} ELSE s.apart \cup named
  <1>1. x \subseteq Actions
    BY DEF Good, Sound, Client
  <1>2. Answered(s, a, n) = [s EXCEPT !.data = [@ EXCEPT ![a] = n], !.apart = x]
    BY DEF Answered, Good, Sound, Client
  <1> HIDE DEF x
  <1>3. [s.data EXCEPT ![a] = n] \in Responses
    BY DEF Good, Sound, Client, Responses
  <1> QED
    BY <1>1, <1>2, <1>3 DEF Good, Sound, Client, Accounted, Busy

LEMMA UpdateIsAsked ==
    ASSUME NEW a \in Actions, NEW n \in Nat
    PROVE  Update(a, n) \in Seq(Asked)
  <1>1. [kind |-> "update", name |-> Name[a], data |-> n] \in Asked
    BY ConstantFacts DEF Asked, Requests
  <1> QED
    BY <1>1 DEF Update

\* The updates of several actions that are cleared.
Clearing(as) == {[kind |-> "update", name |-> Name[a], data |-> 0] : a \in as}

LEMMA ClearingIsAsked ==
    ASSUME NEW as \in SUBSET Actions
    PROVE  IsFiniteSet(Clearing(as)) /\ Clearing(as) \subseteq Asked
  <1> DEFINE Msg(a) == [kind |-> "update", name |-> Name[a], data |-> 0]
  <1>1. IsFiniteSet(as)
    BY ConstantFacts, FS_Subset
  <1>2. \A a \in as : Msg(a) \in Asked
    BY ConstantFacts DEF Asked, Requests
  <1>3. Clearing(as) = {Msg(a) : a \in as}
    BY DEF Clearing
  <1> HIDE DEF Msg
  <1>4. [a \in as |-> Msg(a)] \in Surjection(as, Clearing(as))
    BY <1>3 DEF Surjection
  <1> QED
    BY <1>1, <1>2, <1>3, <1>4, FS_Surjection

LEMMA CleanedKeeps ==
    ASSUME NEW s, Good(s), NEW as \in SUBSET Actions
    PROVE  Good(Cleaned(s, as))
  <1> DEFINE t == [s EXCEPT !.data = [a \in Actions |-> IF a \in as THEN 0 ELSE @[a]],
                            !.apart = @ \ as]
  <1>1. Good(t)
    <2> DEFINE d == [a \in Actions |-> IF a \in as THEN 0 ELSE s.data[a]]
    <2>1. d \in Responses
      BY DEF Good, Sound, Client, Responses
    <2>2. t = [s EXCEPT !.data = d, !.apart = @ \ as]
      BY DEF Good, Sound, Client
    <2> HIDE DEF d, t
    <2> QED
      BY <2>1, <2>2 DEF Good, Sound, Client, Accounted, Busy
  <1>2. Cleaned(s, as) = Post(t, SetToSeq(Clearing(as)))
    BY DEF Cleaned, Clearing
  <1> HIDE DEF t
  <1> QED
    BY <1>1, <1>2, ClearingIsAsked, SetToSeqIsSeq, SeqOfMore, PostKeeps

-----------------------------------------------------------------------------
(* What the sagas tell the worker                                           *)

\* A saga changes no response and does no more than ask for parameters.
More(s, t) ==
    /\ t.data = s.data /\ t.apart = s.apart
    /\ \E ms \in Seq(Sure(s)) : t.toWorker = s.toWorker \o ms

LEMMA MoreKeeps ==
    ASSUME NEW s, NEW t, Sound(s), Right(s), More(s, t)
    PROVE  Right(t)
  <1> DEFINE q == s.toWorker
             l == Len(q)
  <1>1. PICK ms \in Seq(Sure(s)) : t.toWorker = q \o ms
    BY DEF More
  <1> DEFINE u == t.toWorker
  <1>2. q \in Seq(Asked) /\ ms \in Seq(Asked) /\ l \in Nat
    BY SeqOfMore DEF Sure, Sound
  <1>3. /\ Len(u) = l + Len(ms) /\ Len(u) \in Nat /\ l <= Len(u)
        /\ \A i \in 1..l : u[i] = q[i]
        /\ \A i \in l + 1..Len(u) : u[i] \in Sure(s)
    <2>1. \A i \in 1..Len(ms) : ms[i] \in Sure(s)
      OBVIOUS
    <2>2. Len(u) = l + Len(ms)
      BY <1>1, <1>2
    <2>3. \A i \in l + 1..l + Len(ms) : u[i] = ms[i - l] /\ i - l \in 1..Len(ms)
      BY <1>1, <1>2
    <2> QED
      BY <1>1, <1>2, <2>1, <2>2, <2>3
  <1>4. \A k \in l + 1..Len(u) : \A n : ~Touches(u[k], n)
    BY <1>3 DEF Sure, Touches
  <1>5. t.data = s.data /\ t.apart = s.apart
    BY DEF More
  <1> HIDE DEF q, u
  <1>6. ASSUME NEW m \in l..Len(u), NEW n, NEW v, Leaves(q, l, worker.data, n, v)
        PROVE  Leaves(u, m, worker.data, n, v)
    <2>1. Leaves(u, l, worker.data, n, v)
      BY <1>2, <1>3, <1>6, LeavesOfPrefix
    <2>2. m \in Nat /\ l <= m /\ \A k \in l + 1..m : ~Touches(u[k], n)
      BY <1>2, <1>3, <1>4
    <2> QED
      BY <1>2, <2>1, <2>2, LeavesAfter
  <1>7. Agrees(t)
    <2> SUFFICES ASSUME NEW a \in Actions, a \notin s.apart, fetch # {} \/ PageOf[a] = page
                 PROVE  Leaves(u, Len(u), worker.data, Name[a], IF fetch = {} THEN s.data[a] ELSE 0)
      BY <1>5 DEF Agrees, u
    <2>1. Leaves(q, l, worker.data, Name[a], IF fetch = {} THEN s.data[a] ELSE 0)
      BY DEF Right, Agrees, q
    <2> QED
      BY <1>2, <1>3, <1>6, <2>1
  <1>8. Shows(t)
    <2> SUFFICES ASSUME NEW p \in 1..Len(u), u[p].kind = "params", NEW e \in u[p].shown
                 PROVE  Leaves(u, p - 1, worker.data, e[1], e[2])
      BY DEF Shows, u
    <2>1. CASE p \in 1..l
      <3>1. Leaves(q, p - 1, worker.data, e[1], e[2])
        BY <1>3, <2>1 DEF Right, Shows, q
      <3>2. p - 1 \in Nat /\ \A i \in 1..p - 1 : i \in 1..l
        BY <1>2, <2>1
      <3> QED
        BY <1>3, <3>1, <3>2, LeavesOfPrefix
    <2>2. CASE p \in l + 1..Len(u)
      <3>1. u[p] \in Sure(s)
        BY <1>3, <2>2
      <3>2. PICK b \in Actions : fetch = {} /\ Told(s, b) /\ e = <<Name[b], s.data[b]>>
        BY <3>1 DEF Sure
      <3>3. Leaves(q, l, worker.data, e[1], e[2])
        BY <3>2 DEF Right, Agrees, Told, q
      <3>4. p - 1 \in l..Len(u)
        BY <1>2, <1>3, <2>2
      <3> QED
        BY <1>6, <3>3, <3>4
    <2> QED
      BY <1>2, <1>3, <2>1, <2>2
  <1> QED
    BY <1>7, <1>8 DEF Right

LEMMA MoreOfSame ==
    ASSUME NEW s, NEW t, Sound(s), t.data = s.data, t.apart = s.apart, t.toWorker = s.toWorker
    PROVE  More(s, t)
  <1>1. s.toWorker = s.toWorker \o <<>> /\ <<>> \in Seq(Sure(s))
    BY DEF Sound
  <1> QED
    BY <1>1 DEF More

LEMMA MoreTwice ==
    ASSUME NEW s, NEW t, NEW u, Sound(s), More(s, t), More(t, u)
    PROVE  More(s, u)
  <1>1. Sure(t) = Sure(s)
    BY DEF Sure, Told, More
  <1>2. PICK ms \in Seq(Sure(s)) : t.toWorker = s.toWorker \o ms
    BY DEF More
  <1>3. PICK ns \in Seq(Sure(s)) : u.toWorker = t.toWorker \o ns
    BY <1>1 DEF More
  <1>4. s.toWorker \in Seq(Asked) /\ ms \in Seq(Asked) /\ ns \in Seq(Asked)
    BY SeqOfMore DEF Sure, Sound
  <1>5. u.toWorker = s.toWorker \o (ms \o ns)
    <2> DEFINE q == s.toWorker
    <2> HIDE DEF q, Asked, Sure
    <2>1. (q \o ms) \o ns = q \o (ms \o ns)
      <3>1. q \in Seq(Asked)
        BY <1>4 DEF q
      <3> QED
        BY <1>4, <3>1, ConcatThrice
    <2> QED
      BY <1>2, <1>3, <2>1 DEF q
  <1>6. ms \o ns \in Seq(Sure(s))
    <2> HIDE DEF Sure
    <2> QED
      OBVIOUS
  <1> QED
    BY <1>5, <1>6 DEF More

\* What a saga did to the parts of the state that the worker has to do with;
\* of the page load it may have started the next set.
Onward(s, t) == More(s, t) /\ (Staged(s) => Staged(t))

LEMMA OnwardTwice ==
    ASSUME NEW s, NEW t, NEW u, Sound(s), Onward(s, t), Onward(t, u)
    PROVE  Onward(s, u)
  BY MoreTwice DEF Onward

LEMMA OnwardOfSame ==
    ASSUME NEW s, NEW t, Sound(s), t.data = s.data, t.apart = s.apart,
           t.toWorker = s.toWorker, t.rest = s.rest
    PROVE  Onward(s, t)
  BY MoreOfSame DEF Onward, Staged

LEMMA ExecuteOnward ==
    ASSUME NEW s, Sound(s), NEW rs \in SUBSET s.runs
    PROVE  /\ Onward(s, Execute(s, rs))
           /\ OfLoad(s) # {} => OfLoad(Execute(s, rs)) # {}
  <1> DEFINE t == [s EXCEPT !.runs = (@ \ rs) \cup Begun(rs),
                            !.loading = @ \cup {r.action : r \in rs}]
             ms == SetToSeq(Asking(s, rs))
  <1>1. Execute(s, rs) = Post(t, ms)
    BY DEF Execute, Asking, Begun, On
  <1> HIDE DEF ms
  <1>2. ms \in Seq(Sure(s))
    BY AskingIsSure DEF ms
  <1>3. /\ Post(t, ms).data = s.data /\ Post(t, ms).apart = s.apart
        /\ Post(t, ms).toWorker = s.toWorker \o ms
        /\ Post(t, ms).runs = (s.runs \ rs) \cup Begun(rs)
        /\ Post(t, ms).rest = s.rest
    BY DEF Post, Sound, Client
  <1> HIDE DEF t
  <1>4. OfLoad(s) # {} => OfLoad(Post(t, ms)) # {}
    <2> SUFFICES ASSUME NEW r \in s.runs, r.kind = "load"
                 PROVE  \E q \in (s.runs \ rs) \cup Begun(rs) : q.kind = "load"
      BY <1>3 DEF OfLoad
    <2> QED
      BY BegunRuns
  <1> QED
    BY <1>1, <1>2, <1>3, <1>4 DEF Onward, More, Staged

LEMMA StartOnward ==
    ASSUME NEW s, NEW as \in SUBSET Actions, NEW kind \in {"pane", "trigger", "load"},
           Sound(s), toMain \in Seq(Replies)
    PROVE  /\ Onward(s, Start(s, as, kind))
           /\ kind = "load" /\ as # {} => OfLoad(Start(s, as, kind)) # {}
  <1> DEFINE rs == NewRuns(s, as, kind)
             t == [s EXCEPT !.runs = @ \cup rs]
             now == {r \in rs : r.action \notin Confirms}
  <1>1. Start(s, as, kind) = Execute(t, now)
    BY DEF Start, NewRuns
  <1>2. Sound(t)
    BY NewRunsSound
  <1>3. kind = "load" /\ as # {} => \E r \in rs : r.kind = "load"
    <2> SUFFICES ASSUME kind = "load", NEW a \in as PROVE \E r \in rs : r.kind = "load"
      OBVIOUS
    <2>1. [n |-> Serial(s), action |-> a, kind |-> kind, at |-> "confirm"] \in rs
      BY DEF NewRuns
    <2> HIDE DEF rs
    <2> QED
      BY <2>1
  <1> HIDE DEF rs
  <1>4. /\ t.runs = s.runs \cup rs /\ t.data = s.data /\ t.apart = s.apart
        /\ t.toWorker = s.toWorker /\ t.rest = s.rest
    BY DEF Sound, Client
  <1> HIDE DEF t
  <1>5. now \in SUBSET t.runs
    BY <1>4
  <1> HIDE DEF now
  <1>6. Onward(s, t)
    BY <1>4, OnwardOfSame
  <1>7. /\ Onward(t, Execute(t, now))
        /\ OfLoad(t) # {} => OfLoad(Execute(t, now)) # {}
    BY <1>2, <1>5, ExecuteOnward
  <1>8. kind = "load" /\ as # {} => OfLoad(t) # {}
    BY <1>3, <1>4 DEF OfLoad
  <1> QED
    BY <1>1, <1>6, <1>7, <1>8, OnwardTwice

LEMMA CancelOnward ==
    ASSUME NEW s, Sound(s), NEW rs
    PROVE  Onward(s, Cancel(s, rs))
  <1>1. LET t == Cancel(s, rs)
        IN  /\ t.data = s.data /\ t.apart = s.apart /\ t.toWorker = s.toWorker
            /\ t.rest = s.rest
    BY DEF Cancel, Sound, Client
  <1> QED
    BY <1>1, OnwardOfSame

\* After that the set that runs is not over, or nothing is left of the load.
LEMMA AdvanceOnward ==
    ASSUME NEW s, Sound(s), Staged(s), toMain \in Seq(Replies)
    PROVE  Onward(s, Advance(s)) /\ (OfLoad(Advance(s)) = {} => Advance(s).rest = <<>>)
  <1>1. CASE OfLoad(s) = {} /\ s.rest # <<>>
    <2> DEFINE t == [s EXCEPT !.rest = Tail(@)]
               as == Head(s.rest)
    <2>1. as \in (SUBSET Actions) \ {{}} /\ Tail(s.rest) \in Seq((SUBSET Actions) \ {{}})
      BY <1>1 DEF Staged
    <2>2. Tail(s.rest) \in Seq(SUBSET Actions)
      BY <2>1, SeqOfMore
    <2>3. /\ t.data = s.data /\ t.apart = s.apart /\ t.toWorker = s.toWorker
          /\ t.rest = Tail(s.rest) /\ t.runs = s.runs
      BY DEF Sound, Client
    <2>4. t \in Client
      BY <2>2 DEF Sound, Client
    <2>5. Advance(s) = Start(t, as, "load")
      BY <1>1 DEF Advance
    <2> HIDE DEF t, as
    <2>6. Sound(t)
      BY <2>3, <2>4 DEF Sound
    <2>7. Onward(s, t)
      BY <2>1, <2>3, MoreOfSame DEF Onward, Staged
    <2>8. Onward(t, Start(t, as, "load")) /\ OfLoad(Start(t, as, "load")) # {}
      BY <2>1, <2>6, StartOnward
    <2> QED
      BY <2>5, <2>7, <2>8, OnwardTwice
  <1>2. CASE ~(OfLoad(s) = {} /\ s.rest # <<>>)
    BY <1>2, OnwardOfSame DEF Advance
  <1> QED
    BY <1>1, <1>2

LEMMA StartLoadOnward ==
    ASSUME NEW s, Sound(s), NEW p \in Pages
    PROVE  Onward(s, StartLoad(s, OnLoad[p]))
  <1>1. OnLoad[p] \in Seq((SUBSET Actions) \ {{}})
    BY ConstantFacts
  <1>2. LET t == StartLoad(s, OnLoad[p])
        IN  /\ t.data = s.data /\ t.apart = s.apart /\ t.toWorker = s.toWorker
            /\ t.rest = OnLoad[p]
    BY DEF StartLoad, Cancel, Sound, Client
  <1> QED
    BY <1>1, <1>2, MoreOfSame DEF Onward, Staged

LEMMA FineOnward ==
    ASSUME NEW s, NEW t, Sound(s), Fine(s), Onward(s, t)
    PROVE  Fine(t)
  BY MoreKeeps DEF Fine, Onward

\* What is sent after the requests for parameters does not matter to them.
LEMMA ShowsAfter ==
    ASSUME NEW s, NEW t, Sound(s), Shows(s), NEW ms \in Seq(Asked),
           t.toWorker = s.toWorker \o ms,
           \A k \in 1..Len(ms) : ms[k].kind # "params"
    PROVE  Shows(t)
  <1> DEFINE q == s.toWorker
             u == t.toWorker
  <1>1. q \in Seq(Asked)
    BY DEF Sound
  <1> HIDE DEF q
  <1>2. u = q \o ms
    BY DEF q
  <1>3. /\ Len(q) \in Nat /\ \A i \in 1..Len(q) : u[i] = q[i]
        /\ \A k \in 1..Len(u) : k \in 1..Len(q) \/ \E j \in 1..Len(ms) : u[k] = ms[j]
    <2>1. Len(u) = Len(q) + Len(ms) /\ Len(q) \in Nat /\ Len(ms) \in Nat
      BY <1>1, <1>2
    <2>2. \A i \in 1..Len(q) : u[i] = q[i]
      BY <1>1, <1>2
    <2>3. ASSUME NEW k \in 1..Len(u), k \notin 1..Len(q)
          PROVE  \E j \in 1..Len(ms) : u[k] = ms[j]
      <3>1. k - Len(q) \in 1..Len(ms) /\ u[k] = ms[k - Len(q)]
        BY <1>1, <1>2, <2>1, <2>3
      <3> QED
        BY <3>1
    <2> QED
      BY <2>1, <2>2, <2>3
  <1> HIDE DEF u
  <1> SUFFICES ASSUME NEW p \in 1..Len(u), u[p].kind = "params", NEW e \in u[p].shown
               PROVE  Leaves(u, p - 1, worker.data, e[1], e[2])
    BY DEF Shows, u
  <1>4. p \in 1..Len(q) /\ u[p] = q[p]
    BY <1>3
  <1>5. Leaves(q, p - 1, worker.data, e[1], e[2])
    BY <1>4 DEF Shows, q
  <1>6. p - 1 \in Nat /\ \A i \in 1..p - 1 : u[i] = q[i]
    BY <1>3, <1>4
  <1> QED
    BY <1>5, <1>6, LeavesOfPrefix

\* The worker is told of new responses.
LEMMA FineAfter ==
    ASSUME NEW s, NEW t, Sound(s), Fine(s), NEW ms \in Seq(Asked),
           t.toWorker = s.toWorker \o ms, t.rest = s.rest,
           \A k \in 1..Len(ms) : ms[k].kind # "params",
           \A a \in Actions :
              a \notin t.apart /\ (fetch # {} \/ PageOf[a] = page) =>
                 LET v == IF fetch = {} THEN t.data[a] ELSE 0
                 IN  /\ \A k \in 1..Len(ms) : Touches(ms[k], Name[a]) => Left(ms[k]) = v
                     /\ \/ a \notin s.apart /\ (fetch = {} => t.data[a] = s.data[a])
                        \/ \E k \in 1..Len(ms) : Touches(ms[k], Name[a])
    PROVE  Fine(t)
  <1>1. Shows(t)
    BY ShowsAfter DEF Fine, Right
  <1>2. Agrees(t)
    <2> SUFFICES ASSUME NEW a \in Actions, a \notin t.apart, fetch # {} \/ PageOf[a] = page
                 PROVE  Leaves(t.toWorker, Len(t.toWorker), worker.data, Name[a],
                               IF fetch = {} THEN t.data[a] ELSE 0)
      BY DEF Agrees
    <2> DEFINE v == IF fetch = {} THEN t.data[a] ELSE 0
    <2>1. /\ \A k \in 1..Len(ms) : Touches(ms[k], Name[a]) => Left(ms[k]) = v
          /\ \/ a \notin s.apart /\ (fetch = {} => t.data[a] = s.data[a])
             \/ \E k \in 1..Len(ms) : Touches(ms[k], Name[a])
      OBVIOUS
    <2>2. a \notin s.apart /\ (fetch = {} => t.data[a] = s.data[a]) =>
              Leaves(s.toWorker, Len(s.toWorker), worker.data, Name[a], v)
      BY DEF Fine, Right, Agrees
    <2>3. s.toWorker \in Seq(Asked)
      BY DEF Sound
    <2> HIDE DEF v
    <2>4. Leaves(s.toWorker \o ms, Len(s.toWorker \o ms), worker.data, Name[a], v)
      BY ONLY <2>1, <2>2, <2>3, ms \in Seq(Asked), LeavesOfConcat
    <2> QED
      BY <2>4 DEF v
  <1> QED
    BY <1>1, <1>2 DEF Fine, Right, Staged

\* The update for an answer is the last word on its name, and an action of the
\* same name on another page is noted.
LEMMA AnsweredFine ==
    ASSUME NEW s, Sound(s), Fine(s), page \in Pages, NEW a \in Actions, NEW n \in Nat
    PROVE  Fine(Post(Answered(s, a, n), Update(a, n)))
  <1> DEFINE named == {b \in Actions : Name[b] = Name[a]}
             x == IF fetch = {} /\ PageOf[a] = page THEN s.apart \ {a} ELSE s.apart \cup named
             t == Post(Answered(s, a, n), Update(a, n))
             ms == Update(a, n)
  <1>1. /\ t.toWorker = s.toWorker \o ms /\ t.rest = s.rest /\ t.apart = x
        /\ t.data = [s.data EXCEPT ![a] = n]
    BY DEF Post, Answered, Sound, Client
  <1>2. \A b \in Actions : t.data[b] = IF b = a THEN n ELSE s.data[b]
    BY <1>1 DEF Sound, Client, Responses
  <1>3. /\ ms \in Seq(Asked) /\ Len(ms) = 1 /\ ms[1].kind = "update"
        /\ ms[1].name = Name[a] /\ ms[1].data = n
    BY UpdateIsAsked DEF Update
  <1> HIDE DEF t, ms, x
  <1>4. ASSUME NEW b \in Actions, b \notin t.apart, fetch # {} \/ PageOf[b] = page
        PROVE  LET v == IF fetch = {} THEN t.data[b] ELSE 0
               IN  /\ \A k \in 1..Len(ms) : Touches(ms[k], Name[b]) => Left(ms[k]) = v
                   /\ \/ b \notin s.apart /\ (fetch = {} => t.data[b] = s.data[b])
                      \/ \E k \in 1..Len(ms) : Touches(ms[k], Name[b])
    <2>1. \A k \in 1..Len(ms) : k = 1
      BY <1>3
    <2>2. Touches(ms[1], Name[b]) <=> Name[b] = Name[a]
      BY <1>3 DEF Touches
    <2>3. CASE b = a
      <3>1. fetch = {} /\ t.data[b] = n
        BY <1>1, <1>2, <1>4, <2>3 DEF x
      <3>2. Left(ms[1]) = n
        BY <1>3 DEF Left
      <3>3. 1 \in 1..Len(ms) /\ Touches(ms[1], Name[b])
        BY <1>3, <2>2, <2>3
      <3> QED
        BY <2>1, <3>1, <3>2, <3>3
    <2>4. CASE b # a
      <3>1. Name[b] # Name[a]
        BY <1>1, <1>4, <2>4, ConstantFacts DEF x
      <3>2. b \notin s.apart
        BY <1>1, <1>4, <2>4 DEF x
      <3> QED
        BY <1>2, <2>1, <2>2, <2>4, <3>1, <3>2
    <2> QED
      BY <2>3, <2>4
  <1>5. \A k \in 1..Len(ms) : ms[k].kind # "params"
    BY <1>3
  <1>6. Fine(t)
    BY <1>1, <1>3, <1>4, <1>5, FineAfter
  <1> QED
    BY <1>6 DEF t, ms

\* An action that the worker is not told of is noted.
LEMMA GiveUpFine ==
    ASSUME NEW s, Sound(s), Fine(s), NEW r \in s.runs
    PROVE  Fine(GiveUp(s, r))
  <1> DEFINE a == r.action
             t == GiveUp(s, r)
  <1>1. r \in Run /\ a \in Actions
    BY DEF Sound, Client, Run
  <1>2. /\ t.toWorker = s.toWorker /\ t.rest = s.rest
        /\ \/ t.apart = s.apart /\ t.data = s.data
           \/ t.apart = s.apart \cup {a} /\ t.data = [s.data EXCEPT ![a] = 0]
    BY <1>1 DEF GiveUp, Over, ResetLoading, Sound, Client, Run
  <1>3. \A b \in Actions : b \notin t.apart => b \notin s.apart /\ t.data[b] = s.data[b]
    BY <1>2 DEF Sound, Client, Responses
  <1> HIDE DEF t
  <1>4. s.toWorker = s.toWorker \o <<>> /\ <<>> \in Seq(Asked) /\ Len(<<>>) = 0
    BY DEF Sound
  <1> DEFINE ms == <<>>
  <1>5. /\ ms \in Seq(Asked) /\ t.toWorker = s.toWorker \o ms
        /\ \A k \in 1..Len(ms) : FALSE
    BY <1>2, <1>4
  <1> HIDE DEF ms
  <1>6. \A b \in Actions :
            b \notin t.apart /\ (fetch # {} \/ PageOf[b] = page) =>
                LET v == IF fetch = {} THEN t.data[b] ELSE 0
                IN  /\ \A k \in 1..Len(ms) : Touches(ms[k], Name[b]) => Left(ms[k]) = v
                    /\ \/ b \notin s.apart /\ (fetch = {} => t.data[b] = s.data[b])
                       \/ \E k \in 1..Len(ms) : Touches(ms[k], Name[b])
    BY <1>3, <1>5
  <1>7. \A k \in 1..Len(ms) : ms[k].kind # "params"
    BY <1>5
  <1>8. Fine(t)
    BY <1>2, <1>5, <1>6, <1>7, FineAfter
  <1> QED
    BY <1>8 DEF t

\* Every action that is cleared has its update.
LEMMA CleanedFine ==
    ASSUME NEW s, Sound(s), Fine(s), NEW as \in SUBSET Actions, \A a \in as : PageOf[a] = page
    PROVE  Fine(Cleaned(s, as))
  <1> DEFINE Msg(a) == [kind |-> "update", name |-> Name[a], data |-> 0]
             all == {Msg(a) : a \in as}
             ms == SetToSeq(all)
             t == Cleaned(s, as)
  <1>1. IsFiniteSet(all) /\ all \subseteq Asked
    BY ClearingIsAsked DEF Clearing
  <1>2. /\ t.toWorker = s.toWorker \o ms /\ t.rest = s.rest /\ t.apart = s.apart \ as
        /\ t.data = [a \in Actions |-> IF a \in as THEN 0 ELSE s.data[a]]
    BY DEF Cleaned, Post, Sound, Client
  <1> HIDE DEF t
  <1>3. ms \in Seq(all) /\ ms \in Seq(Asked) /\ \A k \in 1..Len(ms) : ms[k] \in all
    <2> HIDE DEF all
    <2>1. ms \in Seq(all)
      BY <1>1, SetToSeqIsSeq
    <2> HIDE DEF ms
    <2> QED
      BY <1>1, <2>1, SeqOfMore
  <1>4. \A a \in as : \E k \in 1..Len(ms) : ms[k] = Msg(a)
    <2> TAKE a \in as
    <2>1. Msg(a) \in all
      OBVIOUS
    <2> HIDE DEF all, Msg
    <2> QED
      BY <1>1, <2>1, SetToSeqHasAll
  <1> HIDE DEF ms
  <1>5. \A k \in 1..Len(ms) :
            /\ ms[k].kind = "update" /\ Left(ms[k]) = 0
            /\ \A n : Touches(ms[k], n) => \E a \in as : Name[a] = n
    <2> TAKE k \in 1..Len(ms)
    <2>1. PICK a \in as : ms[k] = Msg(a)
      BY <1>3
    <2>2. /\ ms[k].kind = "update" /\ ms[k].data = 0 /\ ms[k].name = Name[a]
      BY <2>1
    <2> HIDE DEF Msg
    <2> QED
      BY <2>2 DEF Left, Touches
  <1>6. \A a \in as : \E k \in 1..Len(ms) : Touches(ms[k], Name[a])
    <2> TAKE a \in as
    <2>1. PICK k \in 1..Len(ms) : ms[k] = Msg(a)
      BY <1>4
    <2>2. Touches(ms[k], Name[a])
      BY <2>1 DEF Touches
    <2> QED
      BY <2>2
  <1> HIDE DEF all, Msg
  <1>7. ASSUME NEW b \in Actions, b \notin t.apart, fetch # {} \/ PageOf[b] = page
        PROVE  LET v == IF fetch = {} THEN t.data[b] ELSE 0
               IN  /\ \A k \in 1..Len(ms) : Touches(ms[k], Name[b]) => Left(ms[k]) = v
                   /\ \/ b \notin s.apart /\ (fetch = {} => t.data[b] = s.data[b])
                      \/ \E k \in 1..Len(ms) : Touches(ms[k], Name[b])
    <2>1. CASE b \in as
      <3>1. t.data[b] = 0
        BY <1>2, <2>1
      <3> QED
        BY <1>5, <1>6, <2>1, <3>1
    <2>2. CASE b \notin as
      <3>1. t.data[b] = s.data[b] /\ b \notin s.apart
        BY <1>2, <1>7, <2>2
      <3>2. fetch = {} => \A k \in 1..Len(ms) : ~Touches(ms[k], Name[b])
        <4> SUFFICES ASSUME fetch = {}, NEW k \in 1..Len(ms), Touches(ms[k], Name[b])
                     PROVE  FALSE
          OBVIOUS
        <4>1. PICK a \in as : Name[a] = Name[b]
          BY <1>5
        <4>2. a = b
          BY <1>7, <4>1, ConstantFacts
        <4> QED
          BY <2>2, <4>2
      <3> QED
        BY <1>5, <3>1, <3>2
    <2> QED
      BY <2>1, <2>2
  <1>8. \A k \in 1..Len(ms) : ms[k].kind # "params"
    BY <1>5
  <1>9. Fine(t)
    BY <1>2, <1>3, <1>7, <1>8, FineAfter
  <1> QED
    BY <1>9 DEF t

\* The sagas go on: dropped loses only what is not loading any more, and a set
\* of the page load that is over is followed by the next.
LEMMA SettlesKeeps ==
    ASSUME NEW s, Good(s), Fine(s), toMain \in Seq(Replies), Settles(s)
    PROVE  Good(client') /\ Fine(client') /\ Idle(client') /\ client'.data = s.data
  <1> DEFINE u == Advance(s)
  <1>1. Good(u)
    BY AdvanceKeeps
  <1>2. Onward(s, u) /\ Idle(u)
    BY AdvanceOnward DEF Good, Fine, Idle
  <1>3. client' = [u EXCEPT !.dropped = @ \cap u.loading]
    BY DEF Settles
  <1> HIDE DEF u
  <1>4. /\ client'.runs = u.runs /\ client'.data = u.data /\ client'.apart = u.apart
        /\ client'.toWorker = u.toWorker /\ client'.rest = u.rest
    BY <1>1, <1>3 DEF Good, Sound, Client
  <1>5. Good(client')
    BY <1>1, <1>3 DEF Good, Sound, Client, Accounted, Busy
  <1>6. Onward(u, client')
    BY <1>1, <1>4, OnwardOfSame DEF Good
  <1>7. Fine(u) /\ Fine(client')
    BY <1>1, <1>2, <1>6, FineOnward DEF Good
  <1>8. client'.data = s.data
    BY <1>2, <1>4 DEF Onward, More
  <1> QED
    BY <1>2, <1>4, <1>5, <1>7, <1>8 DEF Idle, OfLoad

-----------------------------------------------------------------------------
(* Every action keeps the invariant                                         *)

\* The page, its fetch and the worker do not change.
LEMMA FineStays ==
    ASSUME Fine(client'), UNCHANGED <<page, fetch, worker>>
    PROVE  Fine(client)'
  BY DEF Fine, Staged, Right, Agrees, Shows

\* Actions of the sagas: only client changes beside asked.
LEMMA BecomesKeeps ==
    ASSUME NEW s, IInv, Good(s), Fine(s), Becomes(s), asked' \in 0..MaxAsked
    PROVE  IInv'
  <1>1. Good(client') /\ Fine(client') /\ Idle(client')
    BY SettlesKeeps DEF IInv, TypeOK, Becomes
  <1>2. Fine(client)'
    BY <1>1, FineStays DEF Becomes
  <1> QED
    BY <1>1, <1>2 DEF IInv, TypeOK, Becomes, Good, Sound, Accounted, Busy, Idle, OfLoad, FreshWorker

LEMMA AsksIsBounded ==
    ASSUME IInv, Asks
    PROVE  asked' \in 0..MaxAsked
  BY ConstantFacts DEF IInv, TypeOK, Asks

LEMMA InitInv == Init => IInv
  <1> SUFFICES ASSUME Init PROVE IInv
    OBVIOUS
  <1>1. TypeOK
    BY ConstantFacts DEF Init, TypeOK, Client, Responses, Nothing, Data
  <1>2. IsFiniteSet(client.runs) /\ client.toWorker \in Seq(Asked)
    BY FS_EmptySet DEF Init
  <1>3. Right(client)
    BY ConstantFacts DEF Right, Agrees, Shows, Leaves, Nothing, Init
  <1>4. Staged(client) /\ Idle(client) /\ FreshWorker
    BY DEF Staged, Idle, FreshWorker, Init
  <1> QED
    BY <1>1, <1>2, <1>3, <1>4 DEF IInv, Good, Sound, Accounted, TypeOK, Fine, Init

LEMMA RunFromPaneKeeps ==
    ASSUME IInv, NEW a \in Actions, NEW unsaved \in BOOLEAN, RunFromPane(a, unsaved)
    PROVE  IInv'
  <1> DEFINE pane == {r \in client.runs : r.kind = "pane"}
             c == Cancel(client, pane)
             s == [c EXCEPT !.loading = @ \cup {a}]
             r0 == [n |-> Serial(s), action |-> a, kind |-> "pane", at |-> "saving"]
             u == [s EXCEPT !.runs = @ \cup {r0}]
  <1>1. Good(c) /\ Fine(c)
    BY CancelKeeps, CancelOnward, FineOnward DEF IInv, Good
  <1>2. /\ Sound(s) /\ s.runs = c.runs /\ s.dropped = c.dropped
        /\ s.loading = c.loading \cup {a}
        /\ Fine(s)
    <2> HIDE DEF c
    <2>1. Sound(s) /\ s.runs = c.runs /\ s.dropped = c.dropped /\ s.loading = c.loading \cup {a}
      BY <1>1 DEF Good, Sound, Client
    <2>2. /\ s.data = c.data /\ s.apart = c.apart /\ s.toWorker = c.toWorker
          /\ s.rest = c.rest
      BY <1>1 DEF Good, Sound, Client
    <2> HIDE DEF s
    <2> QED
      BY <1>1, <2>1, <2>2, OnwardOfSame, FineOnward DEF Good
  <1>3. \A b \in s.loading : Busy(s, b) \/ b \in s.dropped \/ b \in {a}
    <2> HIDE DEF c, s
    <2> QED
      BY <1>1, <1>2 DEF Good, Accounted, Busy
  <1>4. asked' \in 0..MaxAsked
    BY AsksIsBounded DEF RunFromPane
  <1>5. CASE unsaved
    <2> HIDE DEF s
    <2>1. r0 \in Run
      BY <1>2, SerialIsNat DEF Run, IInv, TypeOK
    <2>2. Good(u) /\ Fine(u)
      <3>1. IsFiniteSet(s.runs \cup {r0})
        BY <1>2, FS_AddElement DEF Sound
      <3>2. /\ u.runs = s.runs \cup {r0} /\ u.toWorker = s.toWorker
            /\ u.loading = s.loading /\ u.dropped = s.dropped
        BY <1>2 DEF Sound, Client
      <3>3. r0.action = a /\ r0.at # "tree"
        OBVIOUS
      <3> HIDE DEF r0
      <3>4. u \in Client
        BY <1>2, <2>1 DEF Sound, Client
      <3>5. u.data = s.data /\ u.apart = s.apart /\ u.rest = s.rest
        BY <1>2 DEF Sound, Client
      <3> HIDE DEF u
      <3>6. Accounted(u)
        BY <1>3, <3>2, <3>3 DEF Accounted, Busy
      <3>7. Fine(u)
        BY <1>2, <3>2, <3>5, OnwardOfSame, FineOnward
      <3> QED
        BY <1>2, <3>1, <3>2, <3>4, <3>6, <3>7 DEF Good, Sound
    <2>3. Becomes(u)
      BY <1>5 DEF RunFromPane, s
    <2> HIDE DEF u
    <2> QED
      BY <1>4, <2>2, <2>3, BecomesKeeps
  <1>6. CASE ~unsaved
    <2>1. Becomes(Start(s, {a}, "pane"))
      BY <1>6 DEF RunFromPane
    <2> HIDE DEF s
    <2>2. Good(Start(s, {a}, "pane")) /\ Fine(Start(s, {a}, "pane"))
      BY <1>2, <1>3, StartKeeps, StartOnward, FineOnward DEF IInv, TypeOK
    <2> QED
      BY <1>4, <2>1, <2>2, BecomesKeeps
  <1> QED
    BY <1>5, <1>6

LEMMA RunFromTriggerKeeps ==
    ASSUME IInv, NEW a \in Actions, RunFromTrigger(a)
    PROVE  IInv'
  <1>1. Good(Start(client, {a}, "trigger"))
    BY StartKeeps DEF IInv, TypeOK, Good, Accounted
  <1>2. Fine(Start(client, {a}, "trigger"))
    BY StartOnward, FineOnward DEF IInv, TypeOK, Good
  <1> QED
    BY <1>1, <1>2, AsksIsBounded, BecomesKeeps DEF RunFromTrigger

LEMMA ClearResponseKeeps ==
    ASSUME IInv, NEW a \in Actions, ClearResponse(a)
    PROVE  IInv'
  <1>1. Good(Cleaned(client, {a}))
    BY CleanedKeeps DEF IInv
  <1>2. Fine(Cleaned(client, {a}))
    BY CleanedFine DEF IInv, Good, ClearResponse
  <1> QED
    BY <1>1, <1>2, AsksIsBounded, BecomesKeeps DEF ClearResponse

LEMMA SavedKeeps == ASSUME IInv, Saved PROVE IInv'
  <1> DEFINE rs == {r \in client.runs : r.at = "saving"}
             Begin(r) == [r EXCEPT !.at = "confirm"]
             on == {Begin(r) : r \in rs}
             s == [client EXCEPT !.runs = (@ \ rs) \cup on]
             now == {r \in on : r.action \notin Confirms}
  <1>1. \A r \in rs : Begin(r) \in Run /\ Begin(r).action = r.action /\ Begin(r).at # "tree"
    BY DEF IInv, Good, Sound, Client, Run
  <1>2. IsFiniteSet((client.runs \ rs) \cup on) /\ on \subseteq Run
    <2>1. IsFiniteSet(rs) /\ IsFiniteSet(client.runs \ rs)
      BY FS_Subset DEF IInv, Good, Sound
    <2>2. on \subseteq Run
      BY <1>1
    <2> HIDE DEF Begin
    <2>3. [r \in rs |-> Begin(r)] \in Surjection(rs, on)
      BY DEF Surjection
    <2>4. IsFiniteSet(on)
      BY <2>1, <2>3, FS_Surjection
    <2> QED
      BY <2>1, <2>2, <2>4, FS_Union
  <1> HIDE DEF Begin
  <1>3. /\ s.runs = (client.runs \ rs) \cup on /\ s.toWorker = client.toWorker
        /\ s.loading = client.loading /\ s.dropped = client.dropped
        /\ s.data = client.data /\ s.apart = client.apart /\ s.rest = client.rest
    BY DEF IInv, Good, Sound, Client
  <1>4. s \in Client
    <2> HIDE DEF on, rs
    <2> QED
      BY <1>2 DEF IInv, Good, Sound, Client
  <1>5. Accounted(s)
    <2> SUFFICES ASSUME NEW a \in client.loading
                 PROVE  \/ \E r \in (client.runs \ rs) \cup on : r.action = a /\ r.at # "tree"
                        \/ a \in client.dropped
      BY <1>3 DEF Accounted, Busy
    <2>1. CASE \E r \in rs : r.action = a
      <3>1. PICK r \in rs : r.action = a
        BY <2>1
      <3>2. Begin(r) \in on /\ Begin(r).action = a /\ Begin(r).at # "tree"
        BY <3>1, <1>1
      <3> QED
        BY <3>2
    <2>2. CASE ~\E r \in rs : r.action = a
      BY <2>2 DEF IInv, Good, Accounted, Busy
    <2> QED
      BY <2>1, <2>2
  <1>6. now \in SUBSET s.runs
    BY <1>3
  <1>7. Becomes(Execute(s, now)) /\ asked' = asked
    BY DEF Saved, Begin
  <1> HIDE DEF s, now
  <1>8. Good(s)
    BY <1>2, <1>3, <1>4, <1>5 DEF Good, Sound, IInv
  <1>9. Good(Execute(s, now))
    BY <1>6, <1>8, ExecuteKeeps
  <1>10. Fine(s)
    BY <1>3, OnwardOfSame, FineOnward DEF IInv, Good
  <1>11. Fine(Execute(s, now))
    BY <1>6, <1>8, <1>10, ExecuteOnward, FineOnward DEF Good
  <1> QED
    BY <1>7, <1>9, <1>11, BecomesKeeps DEF IInv, TypeOK

LEMMA ConfirmKeeps ==
    ASSUME IInv, NEW r \in client.runs, Confirm(r)
    PROVE  IInv'
  <1>1. Good(Execute(client, {r}))
    BY ExecuteKeeps DEF IInv
  <1>2. Fine(Execute(client, {r}))
    BY ExecuteOnward, FineOnward DEF IInv, Good
  <1> QED
    BY <1>1, <1>2, BecomesKeeps DEF Confirm, IInv, TypeOK

LEMMA DeclineKeeps ==
    ASSUME IInv, NEW r \in client.runs, Decline(r)
    PROVE  IInv'
  <1> DEFINE s == ResetLoading(client, r.action)
  <1>1. Good(s) /\ r \in s.runs /\ r.action \notin s.loading
    BY ResetLoadingKeeps DEF IInv
  <1>2. Becomes(GiveUp(s, r)) /\ asked' = asked
    BY DEF Decline
  <1>3. /\ s.data = client.data /\ s.apart = client.apart
        /\ s.toWorker = client.toWorker /\ s.rest = client.rest
    BY DEF ResetLoading, IInv, Good, Sound, Client
  <1> HIDE DEF s
  <1>4. Good(GiveUp(s, r))
    BY <1>1, GiveUpKeeps
  <1>5. Fine(s)
    BY <1>3, OnwardOfSame, FineOnward DEF IInv, Good
  <1>6. Fine(GiveUp(s, r))
    BY <1>1, <1>5, GiveUpFine DEF Good
  <1> QED
    BY <1>2, <1>4, <1>6, BecomesKeeps DEF IInv, TypeOK

LEMMA RefusedKeeps ==
    ASSUME IInv, NEW r \in client.runs, Refused(r)
    PROVE  IInv'
  <1> DEFINE s == IF r.kind = "trigger"
                  THEN [client EXCEPT !.dropped = @ \cup {r.action}] ELSE client
  <1>1. r.action \in Actions
    BY DEF IInv, Good, Sound, Client, Run
  <1>2. Good(s) /\ r \in s.runs /\ (r.kind = "trigger" => r.action \in s.dropped)
    BY <1>1 DEF IInv, Good, Sound, Client, Accounted, Busy
  <1>3. Becomes(GiveUp(s, r)) /\ asked' = asked
    BY DEF Refused
  <1>4. /\ s.data = client.data /\ s.apart = client.apart
        /\ s.toWorker = client.toWorker /\ s.rest = client.rest
    BY DEF IInv, Good, Sound, Client
  <1> HIDE DEF s
  <1>5. Good(GiveUp(s, r))
    BY <1>2, GiveUpKeeps
  <1>6. Fine(s)
    BY <1>4, OnwardOfSame, FineOnward DEF IInv, Good
  <1>7. Fine(GiveUp(s, r))
    BY <1>2, <1>6, GiveUpFine DEF Good
  <1> QED
    BY <1>3, <1>5, <1>7, BecomesKeeps DEF IInv, TypeOK

\* The run is taken out and put back, or over, once isLoading is reset.
LEMMA AnswerKeeps ==
    ASSUME IInv, NEW r \in client.runs, NEW good \in BOOLEAN, Answer(r, good)
    PROVE  IInv'
  <1> DEFINE a == r.action
             n == Response(client, Name[a])
             c == [client EXCEPT !.runs = @ \ {r}]
             l == ResetLoading(c, a)
             s == Answered(l, a, n)
             t == Post(s, Update(a, n))
             w == [t EXCEPT !.runs = @ \cup {[r EXCEPT !.at = "tree"]}]
  <1>1. r \in Run /\ a \in Actions /\ r.at = "http"
    BY DEF IInv, Good, Sound, Client, Run, Answer
  <1>2. n \in Nat
    BY ResponseIsNat DEF IInv, TypeOK, Good
  <1>3. Good(l) /\ Fine(l) /\ a \notin l.loading
    <2>1. /\ l.runs = client.runs \ {r} /\ l.toWorker = client.toWorker
          /\ l.loading = client.loading \ {a} /\ l.dropped = client.dropped
          /\ l.data = client.data /\ l.apart = client.apart /\ l.rest = client.rest
      BY DEF ResetLoading, IInv, Good, Sound, Client
    <2>2. l \in Client
      BY DEF ResetLoading, IInv, Good, Sound, Client
    <2>3. IsFiniteSet(client.runs \ {r})
      BY FS_Subset DEF IInv, Good, Sound
    <2> HIDE DEF l
    <2>4. Fine(l)
      BY <2>1, OnwardOfSame, FineOnward DEF IInv, Good
    <2> QED
      BY <2>1, <2>2, <2>3, <2>4 DEF IInv, Good, Sound, Accounted, Busy
  <1> HIDE DEF l, n
  <1>4. Good(s) /\ s.loading = l.loading
    BY <1>1, <1>2, <1>3, AnsweredKeeps
  <1>5. Fine(t)
    BY <1>1, <1>2, <1>3, AnsweredFine DEF IInv, TypeOK, Good
  <1> HIDE DEF s
  <1>6. Good(t) /\ a \notin t.loading
    <2>1. Good(t)
      BY <1>1, <1>2, <1>4, UpdateIsAsked, PostKeeps
    <2>2. t.loading = s.loading
      BY <1>4 DEF Post, Good, Sound, Client
    <2> QED
      BY <1>3, <1>4, <2>1, <2>2
  <1>7. Becomes(IF r.kind = "load" /\ good THEN w ELSE Over(t, r)) /\ asked' = asked
    BY DEF Answer, s, l, n
  <1> HIDE DEF t
  <1>8. CASE r.kind = "load" /\ good
    <2> DEFINE r0 == [r EXCEPT !.at = "tree"]
    <2>1. r0 \in Run
      BY <1>1, <1>8 DEF Run
    <2> HIDE DEF r0
    <2>2. /\ w.runs = t.runs \cup {r0} /\ w.toWorker = t.toWorker
          /\ w.loading = t.loading /\ w.dropped = t.dropped
          /\ w.data = t.data /\ w.apart = t.apart /\ w.rest = t.rest
      BY <1>6 DEF Good, Sound, Client, r0
    <2>3. w \in Client
      <3>1. w = [t EXCEPT !.runs = @ \cup {r0}]
        BY DEF r0
      <3> HIDE DEF w
      <3> QED
        BY <1>6, <2>1, <3>1 DEF Good, Sound, Client
    <2>4. IsFiniteSet(t.runs \cup {r0})
      BY <1>6, FS_AddElement DEF Good, Sound
    <2> HIDE DEF w
    <2>5. Good(w)
      BY <1>6, <2>2, <2>3, <2>4 DEF Good, Sound, Accounted, Busy
    <2>6. Fine(w)
      BY <1>5, <1>6, <2>2, OnwardOfSame, FineOnward DEF Good
    <2> QED
      BY <1>7, <1>8, <2>5, <2>6, BecomesKeeps DEF IInv, TypeOK, w
  <1>9. CASE ~(r.kind = "load" /\ good)
    <2>1. Good(Over(t, r)) /\ Fine(Over(t, r))
      <3>1. /\ Over(t, r).runs = t.runs \ {r} /\ Over(t, r).toWorker = t.toWorker
            /\ Over(t, r).loading = t.loading /\ Over(t, r).dropped = t.dropped
            /\ Over(t, r).data = t.data /\ Over(t, r).apart = t.apart
            /\ Over(t, r).rest = t.rest
        BY <1>6 DEF Over, Good, Sound, Client
      <3>2. Over(t, r) \in Client
        BY <1>6 DEF Over, Good, Sound, Client
      <3>3. IsFiniteSet(t.runs \ {r})
        BY <1>6, FS_Subset DEF Good, Sound
      <3>4. Fine(Over(t, r))
        BY <1>5, <1>6, <3>1, OnwardOfSame, FineOnward DEF Good
      <3> QED
        BY <1>6, <3>1, <3>2, <3>3, <3>4 DEF Good, Sound, Accounted, Busy
    <2> QED
      BY <1>7, <1>9, <2>1, BecomesKeeps DEF IInv, TypeOK
  <1> QED
    BY <1>8, <1>9

\* Nothing is left of the load when no run of it is in progress, so that no
\* request for parameters follows.  Once the cache is cleared there are no data.
LEMMA FetchPageKeeps ==
    ASSUME IInv, NEW p \in Pages, NEW refresh \in BOOLEAN, FetchPage(p, refresh)
    PROVE  IInv'
  <1> DEFINE ms == <<[kind |-> "clear"]>>
             s == Post(client, ms)
             q == client.toWorker
  <1>1. ms \in Seq(Asked) /\ Len(ms) = 1 /\ ms[1].kind = "clear"
    BY DEF Asked, Requests
  <1>2. Settles(s)
    BY DEF FetchPage
  <1> HIDE DEF ms
  <1>3. /\ s.toWorker = q \o ms /\ s.runs = client.runs /\ s.rest = client.rest
        /\ s.data = client.data /\ s.apart = client.apart
    BY DEF Post, IInv, Good, Sound, Client
  <1>4. Good(s)
    BY <1>1, PostKeeps DEF IInv
  <1> HIDE DEF s
  <1>5. Advance(s) = s
    BY <1>3 DEF Advance, OfLoad, IInv, Idle
  <1>6. client' = [s EXCEPT !.dropped = @ \cap s.loading]
    BY <1>2, <1>5 DEF Settles
  <1>7. /\ client'.toWorker = q \o ms /\ client'.runs = client.runs
        /\ client'.rest = client.rest
    BY <1>3, <1>4, <1>6 DEF Good, Sound, Client
  <1>8. Good(client')
    BY <1>4, <1>6 DEF Good, Sound, Client, Accounted, Busy
  <1>9. Staged(client)' /\ Idle(client')
    BY <1>7 DEF IInv, Fine, Staged, Idle, OfLoad
  <1>10. Shows(client)'
    <2>1. \A k \in 1..Len(ms) : ms[k].kind # "params"
      BY <1>1
    <2>2. Shows(client')
      BY <1>1, <1>7, <2>1, ShowsAfter DEF IInv, Good, Fine, Right, q
    <2> QED
      BY <2>2 DEF Shows, FetchPage
  <1>11. Agrees(client)'
    <2>1. fetch' # {} /\ worker' = worker
      BY DEF FetchPage
    <2>2. \A n : Leaves(q \o ms, Len(q \o ms), worker.data, n, 0)
      <3> TAKE n
      <3>1. 1 \in 1..Len(ms) /\ Touches(ms[1], n) /\ \A k \in 1..Len(ms) : Left(ms[k]) = 0
        BY <1>1 DEF Touches, Left
      <3>2. q \in Seq(Asked)
        BY DEF IInv, Good, Sound
      <3> HIDE DEF q
      <3> QED
        BY <1>1, <3>1, <3>2, LeavesOfConcat
    <2> QED
      BY <1>7, <2>1, <2>2 DEF Agrees
  <1>12. asked' \in 0..MaxAsked
    BY AsksIsBounded DEF FetchPage
  <1> QED
    BY <1>8, <1>9, <1>10, <1>11, <1>12
    DEF IInv, TypeOK, FetchPage, Good, Sound, Accounted, Busy, Fine, Right, Idle, OfLoad, FreshWorker

LEMMA RefreshFailsKeeps == ASSUME IInv, RefreshFails PROVE IInv'
  <1> DEFINE as == {a \in Actions \ OnPageLoad(page) : PageOf[a] = page /\ client.data[a] # 0}
             s == StartLoad(Cleaned(client, as), OnLoad[page])
  <1>1. Good(Cleaned(client, as))
    BY CleanedKeeps DEF IInv
  <1>2. OnLoad[page] \in Seq(SUBSET Actions)
    BY ConstantFacts, SeqOfMore DEF IInv, TypeOK
  <1>3. Settles(s)
    BY DEF RefreshFails
  <1>4. Fine(Cleaned(client, as))
    BY CleanedFine DEF IInv, Good
  <1> HIDE DEF as
  <1>5. Good(s) /\ Fine(s)
    BY <1>1, <1>2, <1>4, StartLoadKeeps, StartLoadOnward, FineOnward DEF IInv, TypeOK, Good
  <1> HIDE DEF s
  <1>6. Good(client') /\ Fine(client') /\ Idle(client')
    BY <1>3, <1>5, SettlesKeeps DEF IInv, TypeOK
  <1>7. Fine(client)'
    BY <1>6, FineStays DEF RefreshFails
  <1>8. asked' \in 0..MaxAsked
    BY AsksIsBounded DEF RefreshFails
  <1> QED
    BY <1>6, <1>7, <1>8
    DEF IInv, TypeOK, RefreshFails, Good, Sound, Accounted, Busy, Idle, OfLoad, FreshWorker

LEMMA EvaluateKeeps == ASSUME IInv, Evaluate PROVE IInv'
  <1> DEFINE ms == <<[kind |-> "eval", load |-> due]>>
  <1>1. ms \in Seq(Asked) /\ Len(ms) = 1 /\ ms[1].kind = "eval"
    BY DEF Asked, Requests, IInv, TypeOK
  <1>2. client' = Post(client, ms)
    BY DEF Evaluate
  <1> HIDE DEF ms
  <1>3. Good(client')
    BY <1>1, <1>2, PostKeeps DEF IInv
  <1>4. /\ client'.toWorker = client.toWorker \o ms /\ client'.runs = client.runs
        /\ client'.rest = client.rest /\ client'.data = client.data
        /\ client'.apart = client.apart
    BY <1>2 DEF Post, IInv, Good, Sound, Client
  <1>5. \A k \in 1..Len(ms) : ms[k].kind # "params" /\ \A n : ~Touches(ms[k], n)
    BY <1>1 DEF Touches
  <1>6. Fine(client')
    <2>1. \A a \in Actions : a \notin client'.apart /\ (fetch # {} \/ PageOf[a] = page) =>
              LET v == IF fetch = {} THEN client'.data[a] ELSE 0
              IN  /\ \A k \in 1..Len(ms) : Touches(ms[k], Name[a]) => Left(ms[k]) = v
                  /\ \/ a \notin client.apart /\ (fetch = {} => client'.data[a] = client.data[a])
                     \/ \E k \in 1..Len(ms) : Touches(ms[k], Name[a])
      BY <1>4, <1>5
    <2> QED
      BY <1>1, <1>4, <1>5, <2>1, FineAfter DEF IInv, Good
  <1>7. Fine(client)'
    BY <1>6, FineStays DEF Evaluate
  <1>8. Idle(client')
    BY <1>4 DEF IInv, Idle, OfLoad
  <1>9. asked' \in 0..MaxAsked
    BY AsksIsBounded DEF Evaluate, IInv, TypeOK
  <1> QED
    BY <1>3, <1>7, <1>8, <1>9
    DEF IInv, TypeOK, Evaluate, Good, Sound, Accounted, Busy, Idle, OfLoad, FreshWorker

LEMMA TakenKeeps ==
    ASSUME IInv, client.toWorker # <<>>
    PROVE  Good(Taken) /\ Request \in Asked
  <1>1. client.toWorker \in Seq(Asked) /\ client.toWorker \in Seq(Requests)
    BY SeqOfMore DEF IInv, Good, Sound, Client
  <1>2. Tail(client.toWorker) \in Seq(Asked) /\ Request \in Asked
    BY <1>1 DEF Request
  <1>3. Tail(client.toWorker) \in Seq(Requests)
    BY <1>1
  <1> QED
    BY <1>2, <1>3 DEF Taken, IInv, Good, Sound, Client, Accounted, Busy

\* What is noted of a lost response is a history.
LEMMA LostKeeps ==
    ASSUME NEW s, Good(s), NEW name, NEW data
    PROVE  Good(Lost(s, name, data))
  <1> DEFINE x == {a \in Actions : Name[a] = name /\ s.data[a] = data}
             e == <<name, data>>
             q == [i \in DOMAIN s.toWorker |-> Without(s.toWorker[i], e)]
  <1>1. \A m \in Asked : Without(m, e) \in Asked
    <2> SUFFICES ASSUME NEW m \in Asked, m.kind = "params"
                 PROVE  [m EXCEPT !.shown = @ \ {e}] \in Asked
      BY DEF Without
    <2>1. m \in [kind : {"params"}, run : Run, shown : SUBSET (Names \X Nat)]
      BY DEF Asked, Requests
    <2>2. IsFiniteSet(m.shown \ {e})
      BY FS_Subset DEF Asked
    <2>3. [m EXCEPT !.shown = @ \ {e}] \in
              [kind : {"params"}, run : Run, shown : SUBSET (Names \X Nat)]
      BY <2>1
    <2> QED
      BY <2>1, <2>2, <2>3 DEF Asked, Requests
  <1>2. q \in Seq(Asked)
    <2>1. s.toWorker \in Seq(Asked)
      BY DEF Good, Sound
    <2>2. DOMAIN q = 1..Len(s.toWorker) /\ Len(s.toWorker) \in Nat
      BY <2>1
    <2>3. \A i \in 1..Len(s.toWorker) : Without(s.toWorker[i], e) \in Asked
      BY <1>1, <2>1
    <2>4. q \in [1..Len(s.toWorker) -> Asked]
      <3>1. DOMAIN s.toWorker = 1..Len(s.toWorker)
        BY <2>1
      <3> QED
        BY <2>3, <3>1, Zenon
    <2> QED
      BY <2>2, <2>4
  <1>3. q \in Seq(Requests)
    <2> HIDE DEF q
    <2> QED
      BY <1>2, SeqOfMore DEF Asked
  <1>4. Lost(s, name, data) = [s EXCEPT !.apart = @ \cup x, !.toWorker = q]
    BY DEF Lost
  <1> HIDE DEF q
  <1> QED
    BY <1>2, <1>3, <1>4 DEF Good, Sound, Client, Accounted, Busy

\* The worker has handled the next message.
LEMMA TakenFine ==
    ASSUME IInv, client.toWorker # <<>>, client' = Taken, UNCHANGED <<page, fetch>>,
           \A n \in Names : worker'.data[n] =
               IF Touches(Request, n) THEN Left(Request) ELSE worker.data[n]
    PROVE  Fine(client)'
  <1> DEFINE q == client.toWorker
             t == Tail(q)
  <1>1. q \in Seq(Asked)
    BY DEF IInv, Good, Sound
  <1>2. /\ client'.toWorker = t /\ client'.data = client.data
        /\ client'.apart = client.apart /\ client'.rest = client.rest
    BY DEF Taken, IInv, Good, Sound, Client
  <1> HIDE DEF q
  <1>3. /\ Len(q) \in Nat /\ Len(t) = Len(q) - 1 /\ Len(q) \in 1..Len(q)
        /\ \A p \in 1..Len(t) : p \in 1..Len(q) /\ p + 1 \in 1..Len(q) /\ t[p] = q[p + 1]
    BY <1>1 DEF q
  <1>4. ASSUME NEW l \in 1..Len(q), NEW n \in Names, NEW v, Leaves(q, l, worker.data, n, v)
        PROVE  Leaves(t, l - 1, worker'.data, n, v)
    BY <1>1, <1>4, LeavesOfTail DEF q, Request
  <1> HIDE DEF t
  <1>5. Agrees(client)'
    <2> SUFFICES ASSUME NEW a \in Actions, a \notin client.apart, fetch # {} \/ PageOf[a] = page
                 PROVE  Leaves(t, Len(t), worker'.data, Name[a],
                               IF fetch = {} THEN client.data[a] ELSE 0)
      BY <1>2 DEF Agrees
    <2>1. Leaves(q, Len(q), worker.data, Name[a], IF fetch = {} THEN client.data[a] ELSE 0)
      BY DEF IInv, Fine, Right, Agrees, q
    <2>2. Name[a] \in Names
      BY ConstantFacts
    <2> QED
      BY <1>3, <1>4, <2>1, <2>2
  <1>6. Shows(client)'
    <2> SUFFICES ASSUME NEW p \in 1..Len(t), t[p].kind = "params", NEW e \in t[p].shown
                 PROVE  Leaves(t, p - 1, worker'.data, e[1], e[2])
      BY <1>2 DEF Shows
    <2>1. p + 1 \in 1..Len(q) /\ q[p + 1] = t[p] /\ p \in 1..Len(q)
      BY <1>3
    <2>2. e[1] \in Names
      <3>1. t[p] \in Requests
        BY <1>1, <2>1 DEF Asked
      <3> QED
        BY <3>1 DEF Requests
    <2>3. Leaves(q, (p + 1) - 1, worker.data, e[1], e[2])
      BY <2>1 DEF IInv, Fine, Right, Shows, q
    <2>4. (p + 1) - 1 = p
      OBVIOUS
    <2> QED
      BY <1>4, <2>1, <2>2, <2>3, <2>4
  <1> QED
    BY <1>2, <1>5, <1>6 DEF IInv, Fine, Right, Staged

\* A response that meets no evaluator is struck from what has to be there.
LEMMA LostFine ==
    ASSUME IInv, client.toWorker # <<>>, Request.kind = "update", ~worker.exists,
           client' = Lost(Taken, Request.name, Request.data),
           UNCHANGED <<page, fetch, worker>>
    PROVE  Fine(client)'
  <1> DEFINE q == client.toWorker
             t == Tail(q)
             name == Request.name
             data == Request.data
             u == client'.toWorker
  <1>1. q \in Seq(Asked)
    BY DEF IInv, Good, Sound
  <1>2. /\ u = [i \in DOMAIN t |-> Without(t[i], <<name, data>>)]
        /\ client'.data = client.data /\ client'.rest = client.rest
        /\ client'.apart = client.apart \cup {a \in Actions : Name[a] = name /\ client.data[a] = data}
    BY DEF Lost, Taken, IInv, Good, Sound, Client
  <1> HIDE DEF q
  <1>3. /\ Len(q) \in Nat /\ Len(t) = Len(q) - 1 /\ Len(q) \in 1..Len(q)
        /\ DOMAIN t = 1..Len(t)
        /\ \A p \in 1..Len(t) : p \in 1..Len(q) /\ p + 1 \in 1..Len(q) /\ t[p] = q[p + 1]
    BY <1>1 DEF q
  <1>4. \A n \in Names : worker.data[n] = 0
    BY DEF IInv, FreshWorker, Nothing
  <1>5. \A n, v : Touches(Request, n) /\ Left(Request) = v <=> n = name /\ v = data
    BY DEF Touches, Left
  <1>6. ASSUME NEW l \in 1..Len(q), NEW n \in Names, NEW v, Leaves(q, l, worker.data, n, v),
               v = 0 \/ ~(n = name /\ v = data)
        PROVE  Leaves(t, l - 1, worker.data, n, v)
    <2>1. Touches(Head(q), n) /\ Left(Head(q)) = v => worker.data[n] = v
      BY <1>4, <1>5, <1>6 DEF Request, q
    <2> QED
      BY <1>1, <1>6, <2>1, LeavesOfTail DEF q
  <1> HIDE DEF t, name, data
  <1>7. Len(u) = Len(t) /\ \A i \in 1..Len(t) : u[i] = Without(t[i], <<name, data>>)
    BY <1>2, <1>3
  <1>8. \A i \in 1..Len(t) : \A n : u[i] = t[i] \/ (~Touches(u[i], n) /\ ~Touches(t[i], n))
    <2> TAKE i \in 1..Len(t)
    <2> TAKE n
    <2>1. t[i] \in Requests
      BY <1>1, <1>3 DEF Asked
    <2>2. t[i].kind = "params" => u[i].kind = "params"
      BY <1>7, <2>1 DEF Without, Requests
    <2>3. t[i].kind # "params" => u[i] = t[i]
      BY <1>7 DEF Without
    <2> QED
      BY <2>2, <2>3 DEF Touches
  <1>9. ASSUME NEW l \in 0..Len(t), NEW n, NEW v, Leaves(t, l, worker.data, n, v)
        PROVE  Leaves(u, l, worker.data, n, v)
    <2>1. l \in Nat /\ \A i \in 1..l : i \in 1..Len(t)
      BY <1>3
    <2> QED
      BY <1>8, <1>9, <2>1, LeavesOfAlike
  <1>10. Agrees(client)'
    <2> SUFFICES ASSUME NEW a \in Actions, a \notin client'.apart, fetch # {} \/ PageOf[a] = page
                 PROVE  Leaves(u, Len(u), worker.data, Name[a],
                               IF fetch = {} THEN client.data[a] ELSE 0)
      BY <1>2 DEF Agrees
    <2>1. Leaves(q, Len(q), worker.data, Name[a], IF fetch = {} THEN client.data[a] ELSE 0)
      BY <1>2 DEF IInv, Fine, Right, Agrees, q
    <2>2. ~(Name[a] = name /\ client.data[a] = data)
      BY <1>2
    <2>3. Leaves(t, Len(q) - 1, worker.data, Name[a], IF fetch = {} THEN client.data[a] ELSE 0)
      BY <1>3, <1>6, <2>1, <2>2, ConstantFacts
    <2>4. Len(u) = Len(q) - 1 /\ Len(u) \in 0..Len(t)
      BY <1>3, <1>7
    <2> QED
      BY <1>9, <2>3, <2>4
  <1>11. Shows(client)'
    <2> SUFFICES ASSUME NEW p \in 1..Len(u), u[p].kind = "params", NEW e \in u[p].shown
                 PROVE  Leaves(u, p - 1, worker.data, e[1], e[2])
      BY DEF Shows
    <2>1. p + 1 \in 1..Len(q) /\ q[p + 1] = t[p] /\ p \in 1..Len(q) /\ p \in 1..Len(t)
      BY <1>3, <1>7
    <2>2. t[p] \in Requests
      BY <1>1, <2>1 DEF Asked
    <2>3. t[p].kind = "params"
      BY <1>7, <2>1 DEF Without
    <2>4. e \in t[p].shown /\ e # <<name, data>>
      <3>1. t[p] \in [kind : {"params"}, run : Run, shown : SUBSET (Names \X Nat)]
        BY <2>2, <2>3 DEF Requests
      <3>2. u[p] = [t[p] EXCEPT !.shown = @ \ {<<name, data>>}]
        BY <1>7, <2>1, <2>3 DEF Without
      <3>3. u[p].shown = t[p].shown \ {<<name, data>>}
        BY <3>1, <3>2
      <3> QED
        BY <3>3
    <2>5. e \in Names \X Nat
      BY <2>2, <2>3, <2>4 DEF Requests
    <2>6. e[1] \in Names /\ ~(e[1] = name /\ e[2] = data)
      BY <2>4, <2>5
    <2>7. Leaves(q, (p + 1) - 1, worker.data, e[1], e[2])
      BY <2>1, <2>3, <2>4 DEF IInv, Fine, Right, Shows, q
    <2>8. (p + 1) - 1 = p
      OBVIOUS
    <2>9. Leaves(t, p - 1, worker.data, e[1], e[2])
      BY <1>6, <2>1, <2>6, <2>7, <2>8
    <2>10. p - 1 \in 0..Len(t)
      BY <1>3, <2>1
    <2> QED
      BY <1>9, <2>9, <2>10
  <1> QED
    BY <1>2, <1>10, <1>11 DEF IInv, Fine, Right, Staged

LEMMA AppendReply ==
    ASSUME toMain \in Seq(Replies), NEW m \in Replies
    PROVE  Append(toMain, m) \in Seq(Replies)
  <1> HIDE DEF Replies
  <1> QED
    OBVIOUS

LEMMA WorkerKeeps == ASSUME IInv, Worker PROVE IInv'
  <1>1. client.toWorker # <<>>
    BY DEF Worker, UpdateActionData, EvalActionBindings, EvalTree, ClearCache, Take
  <1>2. Good(Taken) /\ Request \in Asked
    BY <1>1, TakenKeeps
  <1>3. UNCHANGED <<page, fetch, asked, due>>
    BY DEF Worker, UpdateActionData, EvalActionBindings, EvalTree, ClearCache, Take
  <1>4. Idle(Taken)
    <2>1. Taken.runs = client.runs /\ Taken.rest = client.rest
      BY DEF Taken, IInv, Good, Sound, Client
    <2> QED
      BY <2>1 DEF IInv, Idle, OfLoad
  <1>5. /\ Good(client') /\ worker' \in [exists : BOOLEAN, data : Data]
        /\ toMain' \in Seq(Replies) /\ Fine(client)' /\ Idle(client') /\ FreshWorker'
    <2>1. CASE UpdateActionData
      <3>1. Request \in [kind : {"update"}, name : Names, data : Nat]
        BY <1>2, <2>1 DEF UpdateActionData, Take, Asked, Requests
      <3>2. Good(client')
        BY <1>2, <2>1, LostKeeps DEF UpdateActionData
      <3>3. worker' \in [exists : BOOLEAN, data : Data]
        BY <2>1, <3>1 DEF UpdateActionData, IInv, TypeOK, Data
      <3>4. [kind |-> "push"] \in Replies
        BY DEF Replies
      <3>5. toMain' \in Seq(Replies)
        BY <2>1, <3>4, AppendReply DEF UpdateActionData, IInv, TypeOK
      <3>6. Fine(client)'
        <4>1. CASE worker.exists
          <5>1. client' = Taken /\ worker'.data = [worker.data EXCEPT ![Request.name] = Request.data]
            BY <2>1, <4>1 DEF UpdateActionData, IInv, TypeOK
          <5>2. \A n \in Names : worker'.data[n] =
                    IF Touches(Request, n) THEN Left(Request) ELSE worker.data[n]
            BY <3>1, <5>1 DEF Touches, Left, IInv, TypeOK, Data
          <5> QED
            BY <1>1, <1>3, <5>1, <5>2, TakenFine
        <4>2. CASE ~worker.exists
          BY <1>1, <1>3, <2>1, <4>2, LostFine DEF UpdateActionData, Take
        <4> QED
          BY <4>1, <4>2
      <3>7. Idle(client')
        <4>1. \A s, n, d : Good(s) /\ Idle(s) => Idle(Lost(s, n, d))
          BY DEF Lost, Good, Sound, Client, Idle, OfLoad
        <4> QED
          BY <1>2, <1>4, <2>1, <4>1 DEF UpdateActionData
      <3>8. FreshWorker'
        BY <2>1 DEF UpdateActionData, IInv, TypeOK, FreshWorker
      <3> QED
        BY <3>2, <3>3, <3>5, <3>6, <3>7, <3>8
    <2>2. CASE EvalActionBindings
      <3>1. Request.run \in Run
        BY <1>2, <2>2 DEF EvalActionBindings, Take, Asked, Requests
      <3>2. [kind |-> "values", run |-> Request.run] \in Replies
        BY <3>1 DEF Replies
      <3>3. Fine(client)'
        BY <1>1, <1>3, <2>2, TakenFine DEF EvalActionBindings, Take, Touches
      <3> QED
        BY <1>2, <1>4, <2>2, <3>2, <3>3 DEF EvalActionBindings, IInv, TypeOK, FreshWorker
    <2>3. CASE EvalTree
      <3>1. Request.load \in BOOLEAN
        BY <1>2, <2>3 DEF EvalTree, Take, Asked, Requests
      <3>2. [kind |-> "tree", load |-> Request.load] \in Replies
        BY <3>1 DEF Replies
      <3>3. worker' \in [exists : BOOLEAN, data : Data]
        BY <2>3 DEF EvalTree, IInv, TypeOK
      <3>4. worker'.data = worker.data /\ worker'.exists
        BY <2>3 DEF EvalTree, IInv, TypeOK
      <3>5. Fine(client)'
        BY <1>1, <1>3, <2>3, <3>4, TakenFine DEF EvalTree, Take, Touches
      <3> QED
        BY <1>2, <1>4, <2>3, <3>2, <3>3, <3>4, <3>5, AppendReply
        DEF EvalTree, IInv, TypeOK, FreshWorker
    <2>4. CASE ClearCache
      <3>1. [kind |-> "cleared"] \in Replies
        BY DEF Replies
      <3>2. \A n \in Names : worker'.data[n] = 0
        BY <2>4 DEF ClearCache, Nothing
      <3>3. Fine(client)'
        BY <1>1, <1>3, <2>4, <3>2, TakenFine DEF ClearCache, Take, Touches, Left
      <3> QED
        BY <1>2, <1>4, <2>4, <3>1, <3>3 DEF ClearCache, IInv, TypeOK, Nothing, Data, FreshWorker
    <2> QED
      BY <2>1, <2>2, <2>3, <2>4 DEF Worker
  <1> QED
    BY <1>3, <1>5 DEF IInv, TypeOK, Good, Sound, Accounted, Busy, Idle, OfLoad

\* The runs that a tree ends explain nothing any more.
LEMMA ReceiveTreeKeeps ==
    ASSUME IInv, ReceiveTree
    PROVE  Good(client') /\ Fine(client)' /\ Idle(client')
  <1> DEFINE waiting == {r \in client.runs : r.at = "tree"}
             c == [client EXCEPT !.runs = @ \ waiting]
             s == Advance(c)
             t == IF Head(toMain).kind = "tree" /\ Head(toMain).load
                  THEN StartLoad(s, OnLoad[page]) ELSE s
  <1>1. Good(c) /\ Fine(c)
    <2>1. /\ c.runs = client.runs \ waiting /\ c.toWorker = client.toWorker
          /\ c.loading = client.loading /\ c.dropped = client.dropped
          /\ c.data = client.data /\ c.apart = client.apart /\ c.rest = client.rest
      BY DEF IInv, Good, Sound, Client
    <2>2. c \in Client
      BY DEF IInv, Good, Sound, Client
    <2>3. IsFiniteSet(client.runs \ waiting)
      BY FS_Subset DEF IInv, Good, Sound
    <2> HIDE DEF c
    <2>4. Fine(c)
      BY <2>1, OnwardOfSame, FineOnward DEF IInv, Good
    <2> QED
      BY <2>1, <2>2, <2>3, <2>4 DEF IInv, Good, Sound, Accounted, Busy
  <1> HIDE DEF c
  <1>2. Good(s) /\ Fine(s)
    <2>1. Good(s)
      BY <1>1, AdvanceKeeps DEF IInv, TypeOK
    <2>2. Onward(c, s)
      BY <1>1, AdvanceOnward DEF IInv, TypeOK, Good, Fine
    <2> QED
      BY <1>1, <2>1, <2>2, FineOnward DEF Good
  <1>3. OnLoad[page] \in Seq(SUBSET Actions)
    BY ConstantFacts, SeqOfMore DEF IInv, TypeOK
  <1>4. Settles(t)
    BY DEF ReceiveTree, c
  <1> HIDE DEF s
  <1>5. Good(t) /\ Fine(t)
    BY <1>2, <1>3, StartLoadKeeps, StartLoadOnward, FineOnward DEF IInv, TypeOK, Good
  <1> HIDE DEF t
  <1>6. Good(client') /\ Fine(client') /\ Idle(client')
    BY <1>4, <1>5, SettlesKeeps DEF IInv, TypeOK
  <1> QED
    BY <1>6, FineStays DEF ReceiveTree, Receive

LEMMA ReceiveValuesKeeps ==
    ASSUME IInv, ReceiveValues
    PROVE  Good(client') /\ Fine(client)' /\ Idle(client')
  <1> DEFINE r == Head(toMain).run
             r0 == [r EXCEPT !.at = "http"]
             s == [client EXCEPT !.runs = (@ \ {r}) \cup {r0}]
  <1>1. ASSUME r \in client.runs
        PROVE  Good(client') /\ Fine(client') /\ Idle(client')
    <2>1. r \in Run
      BY <1>1 DEF IInv, Good, Sound, Client
    <2>2. r0 \in Run /\ r0.action = r.action /\ r0.at = "http" /\ r0.kind = r.kind
      BY <2>1 DEF Run
    <2>3. client' = s
      BY <1>1 DEF ReceiveValues
    <2> HIDE DEF r, r0
    <2>4. /\ s.runs = (client.runs \ {r}) \cup {r0} /\ s.toWorker = client.toWorker
          /\ s.loading = client.loading /\ s.dropped = client.dropped
          /\ s.data = client.data /\ s.apart = client.apart /\ s.rest = client.rest
      BY DEF IInv, Good, Sound, Client
    <2>5. s \in Client
      BY <2>2 DEF IInv, Good, Sound, Client
    <2>6. IsFiniteSet((client.runs \ {r}) \cup {r0})
      <3>1. IsFiniteSet(client.runs \ {r})
        BY FS_Subset DEF IInv, Good, Sound
      <3> QED
        BY <3>1, FS_AddElement
    <2> HIDE DEF s
    <2>7. Accounted(s)
      BY <2>2, <2>4 DEF IInv, Good, Accounted, Busy
    <2>8. Fine(s)
      BY <2>4, OnwardOfSame, FineOnward DEF IInv, Good
    <2>9. Idle(s)
      BY <1>1, <2>2, <2>4 DEF IInv, Idle, OfLoad
    <2> QED
      BY <2>3, <2>4, <2>5, <2>6, <2>7, <2>8, <2>9 DEF IInv, Good, Sound
  <1>2. ASSUME r \notin client.runs
        PROVE  Good(client') /\ Fine(client') /\ Idle(client')
    BY <1>2 DEF ReceiveValues, IInv
  <1>3. Good(client') /\ Fine(client') /\ Idle(client')
    BY <1>1, <1>2
  <1> QED
    BY <1>3, FineStays DEF ReceiveValues, Receive

\* While a page is fetched the worker is not held to the state's responses, and
\* afterwards the state has none.
LEMMA ReceiveClearedKeeps ==
    ASSUME IInv, ReceiveCleared
    PROVE  Good(client') /\ Fine(client)' /\ Idle(client')
  <1> DEFINE s == [client EXCEPT !.data = [a \in Actions |-> 0]]
  <1>1. Good(s)
    BY DEF IInv, Good, Sound, Client, Responses, Accounted, Busy
  <1>2. PICK f \in fetch : Settles(IF f.refresh THEN StartLoad(s, OnLoad[f.page]) ELSE s)
    BY DEF ReceiveCleared
  <1>3. /\ s.toWorker = client.toWorker /\ s.apart = client.apart /\ s.rest = client.rest
        /\ s.data = [a \in Actions |-> 0]
    BY DEF IInv, Good, Sound, Client
  <1> HIDE DEF s
  <1>4. Fine(s)
    BY <1>2, <1>3 DEF IInv, Fine, Staged, Right, Agrees, Shows
  <1>5. f.page \in Pages
    BY DEF IInv, TypeOK
  <1>6. OnLoad[f.page] \in Seq(SUBSET Actions)
    BY <1>5, ConstantFacts, SeqOfMore
  <1> DEFINE t == IF f.refresh THEN StartLoad(s, OnLoad[f.page]) ELSE s
  <1>7. Good(t)
    BY <1>1, <1>6, StartLoadKeeps
  <1>8. Fine(t) /\ t.data = s.data
    <2>1. Onward(s, StartLoad(s, OnLoad[f.page]))
      BY <1>1, <1>5, StartLoadOnward DEF Good
    <2> QED
      BY <1>1, <1>4, <2>1, FineOnward DEF Good, Onward, More
  <1> HIDE DEF t
  <1>9. Good(client') /\ Fine(client') /\ Idle(client') /\ client'.data = s.data
    BY <1>2, <1>7, <1>8, SettlesKeeps DEF IInv, TypeOK, t
  <1>10. Fine(client)'
    <2>1. fetch' = {} /\ worker' = worker /\ \A a \in Actions : client'.data[a] = 0
      BY <1>3, <1>9 DEF ReceiveCleared, Receive
    <2> QED
      BY <1>2, <1>9, <2>1 DEF Fine, Staged, Right, Agrees, Shows
  <1> QED
    BY <1>9, <1>10

LEMMA MainKeeps == ASSUME IInv, Main PROVE IInv'
  <1>1. Good(client') /\ Fine(client)' /\ Idle(client')
    BY ReceiveTreeKeeps, ReceiveValuesKeeps, ReceiveClearedKeeps DEF Main
  <1>2. /\ page' \in Pages /\ fetch' \subseteq [page : Pages, refresh : BOOLEAN]
        /\ due' \in BOOLEAN /\ asked' = asked /\ worker' = worker
    BY DEF Main, ReceiveTree, ReceiveValues, ReceiveCleared, Receive, IInv, TypeOK
  <1>3. toMain' \in Seq(Replies)
    <2>1. toMain \in Seq(Replies) /\ toMain # <<>> /\ toMain' = Tail(toMain)
      BY DEF Main, ReceiveTree, ReceiveValues, ReceiveCleared, Receive, IInv, TypeOK
    <2> QED
      BY <2>1
  <1> QED
    BY <1>1, <1>2, <1>3
    DEF IInv, TypeOK, Good, Sound, Accounted, Busy, Idle, OfLoad, FreshWorker

LEMMA NextKeeps == IInv /\ [Next]_vars => IInv'
  <1> SUFFICES ASSUME IInv, [Next]_vars PROVE IInv'
    OBVIOUS
  <1>1. ASSUME NEW a \in Actions,
               (\E unsaved \in BOOLEAN : RunFromPane(a, unsaved)) \/ RunFromTrigger(a)
                   \/ ClearResponse(a)
        PROVE  IInv'
    BY <1>1, RunFromPaneKeeps, RunFromTriggerKeeps, ClearResponseKeeps
  <1>2. ASSUME NEW r \in client.runs,
               Confirm(r) \/ Decline(r) \/ Refused(r) \/ \E good \in BOOLEAN : Answer(r, good)
        PROVE  IInv'
    BY <1>2, ConfirmKeeps, DeclineKeeps, RefusedKeeps, AnswerKeeps
  <1>3. ASSUME NEW p \in Pages, NEW refresh \in BOOLEAN, FetchPage(p, refresh)
        PROVE  IInv'
    BY <1>3, FetchPageKeeps
  <1>4. CASE RefreshFails \/ Evaluate \/ Saved \/ Worker \/ Main
    BY <1>4, RefreshFailsKeeps, EvaluateKeeps, SavedKeeps, WorkerKeeps, MainKeeps
  <1>5. CASE UNCHANGED vars
    <2>1. Fine(client)'
      BY <1>5, FineStays DEF vars, IInv
    <2> QED
      BY <1>5, <2>1
      DEF vars, IInv, TypeOK, Good, Sound, Accounted, Busy, Idle, OfLoad, FreshWorker
  <1> QED
    BY <1>1, <1>2, <1>3, <1>4, <1>5 DEF Next

-----------------------------------------------------------------------------
(* The theorems                                                             *)

\* The state of the client, the worker's data and the messages keep their
\* types; in particular the numbers of runs and responses never run out.
THEOREM TypeCorrect == Spec => []TypeOK
  <1>1. IInv => TypeOK
    BY DEF IInv
  <1> QED
    BY <1>1, InitInv, NextKeeps, PTL DEF Spec

\* An action is loading only while it is run, or after takeLatest cancelled its
\* run or the client refused the request of an event handler: every other way
\* through the sagas resets isLoading.
THEOREM LoadingIsExplained == Spec => []LoadingExplained
  <1>1. IInv => LoadingExplained
    BY DEF IInv, Good, Accounted, Busy, LoadingExplained
  <1> QED
    BY <1>1, InitInv, NextKeeps, PTL DEF Spec

\* When the worker has handled every message, its tree has for an action of the
\* page what the editor shows as its response, unless the response is one of
\* those that the worker is not told of as the state has it: through runs,
\* clears, refreshes and page switches with runs in flight.
THEOREM ShownIsInTree == Spec => []ResponseIsShown
  <1>1. IInv => ResponseIsShown
    <2> SUFFICES ASSUME IInv, client.toWorker = <<>>, fetch = {}, NEW a \in Actions, Told(client, a)
                 PROVE  worker.data[Name[a]] = client.data[a]
      BY DEF ResponseIsShown
    <2>1. Leaves(client.toWorker, Len(client.toWorker), worker.data, Name[a], client.data[a])
      BY DEF IInv, Fine, Right, Agrees, Told
    <2> QED
      BY <2>1 DEF Leaves
  <1> QED
    BY <1>1, InitInv, NextKeeps, PTL DEF Spec

\* The parameters of a request are evaluated with the responses that the editor
\* showed when they were asked for, whatever was answered, cleared or fetched
\* while the request waited.
THEOREM RequestsAreCurrent == Spec => SentWithResponses
  <1> DEFINE A == EvalActionBindings /\ worker.exists /\ Request.run \in client.runs =>
                      \A e \in Request.shown : worker.data[e[1]] = e[2]
  <1>1. IInv /\ [Next]_vars => [A]_vars
    <2> SUFFICES ASSUME IInv, EvalActionBindings, NEW e \in Request.shown
                 PROVE  worker.data[e[1]] = e[2]
      OBVIOUS
    <2>1. client.toWorker # <<>> /\ Request.kind = "params" /\ client.toWorker \in Seq(Asked)
      BY DEF EvalActionBindings, Take, IInv, Good, Sound
    <2>2. 1 \in 1..Len(client.toWorker) /\ client.toWorker[1] = Request
      BY <2>1 DEF Request
    <2>3. Leaves(client.toWorker, 1 - 1, worker.data, e[1], e[2])
      BY <2>1, <2>2 DEF IInv, Fine, Right, Shows
    <2> QED
      BY <2>3 DEF Leaves
  <1>2. Spec => [][A]_vars
    BY <1>1, InitInv, NextKeeps, PTL DEF Spec
  <1> QED
    BY <1>2 DEF SentWithResponses
=============================================================================
