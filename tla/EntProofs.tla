------------------------------ MODULE EntProofs ------------------------------
(***************************************************************************)
(* Theorems of the generated clients: types, transactions, the refinement  *)
(* of RowStore, versions and answers.  A save is brought to one form,      *)
(* SaveDoes, which every invariant is then shown to survive.               *)
(***************************************************************************)
EXTENDS Ent, FoldLemmas, TLAPS, FiniteSetTheorems

-----------------------------------------------------------------------------
(* The folds of the calls.                                                 *)

\* A chain of calls passes through as many mutations as there are calls: the fold,
\* unrolled.
LEMMA ChainStates ==
  ASSUME NEW m, NEW calls, NEW n \in Nat, DOMAIN calls = 1 .. n
  PROVE  \E g : /\ g[0] = m
                /\ \A i \in 1 .. n : g[i] = Called(g[i - 1], calls[i])
                /\ Chain(m, calls) = g[n]
<1> DEFINE Body(f, s) == IF s = {} THEN m ELSE Called(f[s \ {Max(s)}], calls[Max(s)])
<1> DEFINE Good(k) == \E f : f = [s \in SUBSET (1 .. k) |-> Body(f, s)]
<1> DEFINE G == {k \in Nat : Good(k)}
<1>1. 0 \in G
  <2> DEFINE f == [s \in SUBSET (1 .. 0) |-> m]
  <2>1. SUBSET (1 .. 0) = {{}}
    OBVIOUS
  <2>2. f = [s \in SUBSET (1 .. 0) |-> Body(f, s)]
    BY <2>1
  <2> QED
    BY <2>2
<1>2. ASSUME NEW k \in Nat, k \in G PROVE k + 1 \in G
  <2>1. PICK f : f = [s \in SUBSET (1 .. k) |-> Body(f, s)]
    BY <1>2
  <2> DEFINE h == [s \in SUBSET (1 .. k + 1) |-> IF k + 1 \in s THEN Body(f, s) ELSE f[s]]
  <2>2. ASSUME NEW s \in SUBSET (1 .. k + 1) PROVE h[s] = Body(h, s)
    <3>1. CASE k + 1 \in s
      <4>1. Max(s) = k + 1
        BY <3>1, MaxUpTo
      <4>2. s \ {Max(s)} \in SUBSET (1 .. k)
        BY <4>1
      <4>3. h[s \ {Max(s)}] = f[s \ {Max(s)}]
        BY <4>1, <4>2
      <4> QED
        BY <3>1, <4>3
    <3>2. CASE k + 1 \notin s
      <4>1. s \in SUBSET (1 .. k)
        BY <3>2
      <4>2. f[s] = Body(f, s) /\ h[s] = f[s]
        BY <2>1, <3>2, <4>1
      <4>3. h[s \ {Max(s)}] = f[s \ {Max(s)}]
        BY <3>2, <4>1
      <4> QED
        BY <4>2, <4>3
    <3> QED
      BY <3>1, <3>2
  <2>3. h = [s \in SUBSET (1 .. k + 1) |-> Body(h, s)]
    <3>1. h = [s \in SUBSET (1 .. k + 1) |-> h[s]]
      OBVIOUS
    <3> HIDE DEF h, Body
    <3> QED
      BY <2>2, <3>1
  <2>4. Good(k + 1)
    <3> HIDE DEF h, Body
    <3> QED
      BY <2>3
  <2> HIDE DEF Good
  <2> QED
    BY <2>4
<1>3. Good(n)
  <2> HIDE DEF Good
  <2> QED
    BY <1>1, <1>2, NatSetInduction
<1> DEFINE iter == CHOOSE f : f = [s \in SUBSET (1 .. n) |-> Body(f, s)]
<1>4. iter = [s \in SUBSET (1 .. n) |-> Body(iter, s)]
  BY <1>3
<1>5. Chain(m, calls) = iter[1 .. n]
  BY DEF Chain, FoldLeft, MapThenFoldSet
<1> DEFINE g == [i \in 0 .. n |-> iter[1 .. i]]
<1> HIDE DEF iter
<1>6. g[0] = m
  BY <1>4
<1>7. ASSUME NEW i \in 1 .. n PROVE g[i] = Called(g[i - 1], calls[i])
  <2>1. 1 .. i \in SUBSET (1 .. n) /\ 1 .. i # {} /\ i \in 1 .. i
    OBVIOUS
  <2>2. Max(1 .. i) = i
    <3>1. i - 1 \in Nat /\ (i - 1) + 1 = i
      OBVIOUS
    <3> QED
      BY <2>1, <3>1, MaxUpTo
  <2>3. (1 .. i) \ {i} = 1 .. (i - 1)
    OBVIOUS
  <2>4. iter[1 .. i] = Called(iter[1 .. (i - 1)], calls[i])
    BY <1>4, <2>1, <2>2, <2>3
  <2> QED
    BY <2>4
<1>8. Chain(m, calls) = g[n]
  BY <1>5
<1> HIDE DEF g
<1> QED
  BY <1>6, <1>7, <1>8

\* So do the hooks of a type.
LEMMA HookedStates ==
  ASSUME NEW m, NEW hooks, NEW n \in Nat, DOMAIN hooks = 1 .. n
  PROVE  \E g : /\ g[0] = [m |-> m, rejected |-> FALSE]
                /\ \A i \in 1 .. n : g[i] = Run(g[i - 1], hooks[i])
                /\ Hooked(hooks, m) = g[n]
<1> DEFINE Body(f, s) == IF s = {} THEN [m |-> m, rejected |-> FALSE]
                         ELSE Run(f[s \ {Max(s)}], hooks[Max(s)])
<1> DEFINE Good(k) == \E f : f = [s \in SUBSET (1 .. k) |-> Body(f, s)]
<1> DEFINE G == {k \in Nat : Good(k)}
<1>1. 0 \in G
  <2> DEFINE f == [s \in SUBSET (1 .. 0) |-> [m |-> m, rejected |-> FALSE]]
  <2>1. SUBSET (1 .. 0) = {{}}
    OBVIOUS
  <2>2. f = [s \in SUBSET (1 .. 0) |-> Body(f, s)]
    BY <2>1
  <2> QED
    BY <2>2
<1>2. ASSUME NEW k \in Nat, k \in G PROVE k + 1 \in G
  <2>1. PICK f : f = [s \in SUBSET (1 .. k) |-> Body(f, s)]
    BY <1>2
  <2> DEFINE h == [s \in SUBSET (1 .. k + 1) |-> IF k + 1 \in s THEN Body(f, s) ELSE f[s]]
  <2>2. ASSUME NEW s \in SUBSET (1 .. k + 1) PROVE h[s] = Body(h, s)
    <3>1. CASE k + 1 \in s
      <4>1. Max(s) = k + 1
        BY <3>1, MaxUpTo
      <4>2. s \ {Max(s)} \in SUBSET (1 .. k)
        BY <4>1
      <4>3. h[s \ {Max(s)}] = f[s \ {Max(s)}]
        BY <4>1, <4>2
      <4> QED
        BY <3>1, <4>3
    <3>2. CASE k + 1 \notin s
      <4>1. s \in SUBSET (1 .. k)
        BY <3>2
      <4>2. f[s] = Body(f, s) /\ h[s] = f[s]
        BY <2>1, <3>2, <4>1
      <4>3. h[s \ {Max(s)}] = f[s \ {Max(s)}]
        BY <3>2, <4>1
      <4> QED
        BY <4>2, <4>3
    <3> QED
      BY <3>1, <3>2
  <2>3. h = [s \in SUBSET (1 .. k + 1) |-> Body(h, s)]
    <3>1. h = [s \in SUBSET (1 .. k + 1) |-> h[s]]
      OBVIOUS
    <3> HIDE DEF h, Body
    <3> QED
      BY <2>2, <3>1
  <2>4. Good(k + 1)
    <3> HIDE DEF h, Body
    <3> QED
      BY <2>3
  <2> HIDE DEF Good
  <2> QED
    BY <2>4
<1>3. Good(n)
  <2> HIDE DEF Good
  <2> QED
    BY <1>1, <1>2, NatSetInduction
<1> DEFINE iter == CHOOSE f : f = [s \in SUBSET (1 .. n) |-> Body(f, s)]
<1>4. iter = [s \in SUBSET (1 .. n) |-> Body(iter, s)]
  BY <1>3
<1>5. Hooked(hooks, m) = iter[1 .. n]
  BY DEF Hooked, FoldLeft, MapThenFoldSet
<1> DEFINE g == [i \in 0 .. n |-> iter[1 .. i]]
<1> HIDE DEF iter
<1>6. g[0] = [m |-> m, rejected |-> FALSE]
  BY <1>4
<1>7. ASSUME NEW i \in 1 .. n PROVE g[i] = Run(g[i - 1], hooks[i])
  <2>1. 1 .. i \in SUBSET (1 .. n) /\ 1 .. i # {} /\ i \in 1 .. i
    OBVIOUS
  <2>2. Max(1 .. i) = i
    <3>1. i - 1 \in Nat /\ (i - 1) + 1 = i
      OBVIOUS
    <3> QED
      BY <2>1, <3>1, MaxUpTo
  <2>3. (1 .. i) \ {i} = 1 .. (i - 1)
    OBVIOUS
  <2>4. iter[1 .. i] = Run(iter[1 .. (i - 1)], hooks[i])
    BY <1>4, <2>1, <2>2, <2>3
  <2> QED
    BY <2>4
<1>8. Hooked(hooks, m) = g[n]
  BY <1>5
<1> HIDE DEF g
<1> QED
  BY <1>6, <1>7, <1>8

\* What a mutation is, whatever calls it was given: an id or none, and fields the
\* schema has.
IsMutation(m) ==
  /\ DOMAIN m = {"type", "op", "id", "set", "add", "cleared", "where", "old", "done"}
  /\ m.type \in Types /\ m.op \in Ops
  /\ m.id # <<>> => m.id = <<m.id[1]>>
  /\ DOMAIN m.set \subseteq DOMAIN Kinds[m.type]
  /\ DOMAIN m.add \subseteq Numeric[m.type]
  /\ m.cleared \subseteq Nullable[m.type]

\* What no call of a field's function changes.
SameMutation(k, m) ==
  /\ k.type = m.type /\ k.op = m.op /\ k.id = m.id
  /\ k.where = m.where /\ k.old = m.old /\ k.done = m.done

\* Two mutations say the same of field f.
SameField(k, m, f) ==
  /\ f \in DOMAIN k.set <=> f \in DOMAIN m.set
  /\ f \in DOMAIN m.set => k.set[f] = m.set[f]
  /\ f \in DOMAIN k.add <=> f \in DOMAIN m.add
  /\ f \in DOMAIN m.add => k.add[f] = m.add[f]

\* The calls there are.
Doings == {"Set", "Add", "Clear", "Reset"}

\* A call leaves a mutation, of the same type and row, and changes one field.
LEMMA CalledKeeps ==
  ASSUME NEW m, IsMutation(m), NEW c, c.do \in Doings
  PROVE  /\ IsMutation(Called(m, c)) /\ SameMutation(Called(m, c), m)
         /\ \A f : c.field # f => SameField(Called(m, c), m, f)
<1> DEFINE k == Called(m, c)
<1> SUFFICES /\ IsMutation(k) /\ SameMutation(k, m)
             /\ \A f : c.field # f => SameField(k, m, f)
  OBVIOUS
<1>1. CASE ~ Accepts(m, c)
  BY <1>1 DEF Called, SameMutation, SameField
<1>2. CASE Accepts(m, c) /\ c.do = "Set"
  <2>1. k = Set(m, c.field, c.value) /\ c.field \in DOMAIN Kinds[m.type]
    BY <1>2 DEF Called, Accepts, IsField
  <2>2. /\ SameMutation(k, m) /\ DOMAIN k = DOMAIN m /\ k.cleared = m.cleared
        /\ k.set = One(c.field, c.value) ++ m.set /\ k.add = Without(m.add, {c.field})
    BY <2>1 DEF Set, IsMutation, SameMutation
  <2>3. DOMAIN k.set = {c.field} \cup DOMAIN m.set
        /\ \A f \in DOMAIN m.set : f # c.field => k.set[f] = m.set[f]
    BY <2>2 DEF ++, One
  <2>4. DOMAIN k.add = DOMAIN m.add \ {c.field}
        /\ \A f \in DOMAIN m.add : f # c.field => k.add[f] = m.add[f]
    BY <2>2 DEF Without, Restrict
  <2> HIDE DEF k
  <2> QED
    BY <2>1, <2>2, <2>3, <2>4 DEF IsMutation, SameMutation, SameField
<1>3. CASE Accepts(m, c) /\ c.do = "Add"
  <2> DEFINE v == IF c.field \in DOMAIN m.add THEN m.add[c.field] + c.value ELSE c.value
  <2>1. k = Add(m, c.field, c.value) /\ c.field \in Numeric[m.type]
    BY <1>3 DEF Called, Accepts, IsField
  <2>2. /\ SameMutation(k, m) /\ DOMAIN k = DOMAIN m /\ k.cleared = m.cleared
        /\ k.set = m.set /\ k.add = One(c.field, v) ++ m.add
    BY <2>1 DEF Add, IsMutation, SameMutation
  <2>3. DOMAIN k.add = {c.field} \cup DOMAIN m.add
        /\ \A f \in DOMAIN m.add : f # c.field => k.add[f] = m.add[f]
    BY <2>2 DEF ++, One
  <2> HIDE DEF k
  <2> QED
    BY <2>1, <2>2, <2>3 DEF IsMutation, SameMutation, SameField
<1>4. CASE Accepts(m, c) /\ c.do = "Clear"
  <2>1. k = Clear(m, c.field) /\ c.field \in Nullable[m.type]
    BY <1>4 DEF Called, Accepts, IsField
  <2>2. /\ SameMutation(k, m) /\ DOMAIN k = DOMAIN m /\ k.cleared = m.cleared \cup {c.field}
        /\ k.set = Without(m.set, {c.field}) /\ k.add = m.add
    BY <2>1 DEF Clear, IsMutation, SameMutation
  <2>3. DOMAIN k.set = DOMAIN m.set \ {c.field}
        /\ \A f \in DOMAIN m.set : f # c.field => k.set[f] = m.set[f]
    BY <2>2 DEF Without, Restrict
  <2> HIDE DEF k
  <2> QED
    BY <2>1, <2>2, <2>3 DEF IsMutation, SameMutation, SameField
<1>5. CASE Accepts(m, c) /\ c.do = "Reset"
  <2>1. k = Reset(m, c.field)
    BY <1>5 DEF Called, Accepts, IsField
  <2>2. /\ SameMutation(k, m) /\ DOMAIN k = DOMAIN m /\ k.cleared = m.cleared \ {c.field}
        /\ k.set = Without(m.set, {c.field}) /\ k.add = Without(m.add, {c.field})
    BY <2>1 DEF Reset, IsMutation, SameMutation
  <2>3. DOMAIN k.set = DOMAIN m.set \ {c.field}
        /\ \A f \in DOMAIN m.set : f # c.field => k.set[f] = m.set[f]
    BY <2>2 DEF Without, Restrict
  <2>4. DOMAIN k.add = DOMAIN m.add \ {c.field}
        /\ \A f \in DOMAIN m.add : f # c.field => k.add[f] = m.add[f]
    BY <2>2 DEF Without, Restrict
  <2> HIDE DEF k
  <2> QED
    BY <2>1, <2>2, <2>3, <2>4 DEF IsMutation, SameMutation, SameField
<1> QED
  BY <1>1, <1>2, <1>3, <1>4, <1>5 DEF Doings

\* A value a field has after a call was there, or is the call's.
LEMMA CalledSource ==
  ASSUME NEW m, IsMutation(m), NEW c, c.do \in Doings, NEW f
  PROVE  LET k == Called(m, c)
         IN  /\ f \in DOMAIN k.set =>
                  \/ f \in DOMAIN m.set /\ k.set[f] = m.set[f]
                  \/ c.do = "Set" /\ c.field = f /\ k.set[f] = c.value
             /\ f \in DOMAIN k.add => f \in DOMAIN m.add \/ (c.do = "Add" /\ c.field = f)
<1>1. CASE ~ Accepts(m, c)
  BY <1>1 DEF Called
<1>2. CASE Accepts(m, c) /\ c.do = "Set"
  BY <1>2 DEF Called, Set, ++, One, Without, Restrict, IsMutation
<1>3. CASE Accepts(m, c) /\ c.do = "Add"
  <2> DEFINE v == IF c.field \in DOMAIN m.add THEN m.add[c.field] + c.value ELSE c.value
  <2> DEFINE k == Called(m, c)
  <2>1. k.set = m.set /\ k.add = One(c.field, v) ++ m.add
    BY <1>3 DEF Called, Add, IsMutation
  <2>2. DOMAIN k.add = {c.field} \cup DOMAIN m.add
    BY <2>1 DEF ++, One
  <2> QED
    BY <1>3, <2>1, <2>2
<1>4. CASE Accepts(m, c) /\ c.do = "Clear"
  BY <1>4 DEF Called, Clear, Without, Restrict, IsMutation
<1>5. CASE Accepts(m, c) /\ c.do = "Reset"
  BY <1>5 DEF Called, Reset, Without, Restrict, IsMutation
<1> QED
  BY <1>1, <1>2, <1>3, <1>4, <1>5 DEF Doings

\* Where what a chain leaves of field f comes from.
From(k, m, calls, f) ==
  /\ f \in DOMAIN k.set =>
       \/ f \in DOMAIN m.set /\ k.set[f] = m.set[f]
       \/ \E i \in DOMAIN calls :
            calls[i].do = "Set" /\ calls[i].field = f /\ k.set[f] = calls[i].value
  /\ f \in DOMAIN k.add =>
       \/ f \in DOMAIN m.add
       \/ \E i \in DOMAIN calls : calls[i].do = "Add" /\ calls[i].field = f

\* So does a chain of calls, however long: by induction on its length.
LEMMA ChainKeeps ==
  ASSUME NEW m, IsMutation(m), NEW calls, Listed(calls),
         \A i \in DOMAIN calls : calls[i].do \in Doings
  PROVE  /\ IsMutation(Chain(m, calls)) /\ SameMutation(Chain(m, calls), m)
         /\ \A f : (\A i \in DOMAIN calls : calls[i].field # f)
                     => SameField(Chain(m, calls), m, f)
         /\ \A f : From(Chain(m, calls), m, calls, f)
<1> DEFINE n == Len(calls)
<1> DEFINE Kept(k) == /\ IsMutation(k) /\ SameMutation(k, m)
                      /\ \A f : From(k, m, calls, f)
                      /\ \A f : (\A i \in DOMAIN calls : calls[i].field # f) => SameField(k, m, f)
<1>1. n \in Nat /\ DOMAIN calls = 1 .. n
  BY DEF Listed
<1> HIDE DEF n
<1>2. PICK g : /\ g[0] = m
               /\ \A i \in 1 .. n : g[i] = Called(g[i - 1], calls[i])
               /\ Chain(m, calls) = g[n]
  <2>1. ASSUME NEW k \in Nat, DOMAIN calls = 1 .. k
        PROVE  \E g : /\ g[0] = m
                      /\ \A i \in 1 .. k : g[i] = Called(g[i - 1], calls[i])
                      /\ Chain(m, calls) = g[k]
    BY <2>1, ChainStates
  <2> QED
    BY <1>1, <2>1
<1> DEFINE S == {i \in Nat : i <= n => Kept(g[i])}
<1>3. 0 \in S
  BY <1>2 DEF SameMutation, SameField, From
<1>4. ASSUME NEW i \in Nat, i \in S PROVE i + 1 \in S
  <2>1. SUFFICES ASSUME i + 1 <= n PROVE Kept(g[i + 1])
    OBVIOUS
  <2>2. i + 1 \in 1 .. n /\ Kept(g[i]) /\ (i + 1) - 1 = i
    BY <1>1, <1>4, <2>1
  <2>3. g[i + 1] = Called(g[i], calls[i + 1])
    BY <1>2, <2>2
  <2>4. calls[i + 1].do \in Doings
    BY <1>1, <2>2
  <2>5. /\ IsMutation(g[i + 1]) /\ SameMutation(g[i + 1], g[i])
        /\ \A f : calls[i + 1].field # f => SameField(g[i + 1], g[i], f)
    BY <2>2, <2>3, <2>4, CalledKeeps
  <2>6. ASSUME NEW f PROVE From(g[i + 1], m, calls, f)
    <3> DEFINE r == g[i]
    <3> DEFINE k == g[i + 1]
    <3> DEFINE c == calls[i + 1]
    <3>1. k = Called(r, c) /\ i + 1 \in DOMAIN calls /\ c.do \in Doings /\ IsMutation(r)
          /\ From(r, m, calls, f)
      BY <1>1, <2>2, <2>3, <2>4
    <3> HIDE DEF k, r
    <3>2. /\ f \in DOMAIN k.set =>
               \/ f \in DOMAIN r.set /\ k.set[f] = r.set[f]
               \/ c.do = "Set" /\ c.field = f /\ k.set[f] = c.value
          /\ f \in DOMAIN k.add => f \in DOMAIN r.add \/ (c.do = "Add" /\ c.field = f)
      BY <3>1, CalledSource
    <3>3. From(k, m, calls, f)
      BY <3>1, <3>2 DEF From
    <3> QED
      BY <3>3 DEF k
  <2>7. IsMutation(g[i + 1]) /\ SameMutation(g[i + 1], m)
        /\ \A f : (\A j \in DOMAIN calls : calls[j].field # f) => SameField(g[i + 1], m, f)
    BY <1>1, <2>2, <2>5 DEF SameMutation, SameField
  <2> QED
    BY <2>6, <2>7
<1>5. Nat \subseteq S
  <2> HIDE DEF S
  <2> QED
    BY <1>3, <1>4, NatSetInduction
<1>6. Kept(g[n])
  <2> HIDE DEF Kept
  <2> QED
    BY <1>1, <1>5
<1> QED
  BY <1>2, <1>6

\* What a hook may be.
IsHooks(hooks) ==
  /\ Listed(hooks)
  /\ \A h \in DOMAIN hooks :
       Listed(hooks[h].calls) /\ \A i \in DOMAIN hooks[h].calls : hooks[h].calls[i].do \in Doings

\* No hook names field f.
Untouched(hooks, f) ==
  \A h \in DOMAIN hooks : \A i \in DOMAIN hooks[h].calls : hooks[h].calls[i].field # f

\* Hooks leave a mutation of the same type and row, and a field none of them names.
LEMMA HookedKeeps ==
  ASSUME NEW m, IsMutation(m), NEW hooks, IsHooks(hooks)
  PROVE  /\ IsMutation(Hooked(hooks, m).m) /\ SameMutation(Hooked(hooks, m).m, m)
         /\ Hooked(hooks, m).rejected \in BOOLEAN
         /\ \A f : Untouched(hooks, f) => SameField(Hooked(hooks, m).m, m, f)
<1> DEFINE n == Len(hooks)
<1> DEFINE Kept(r) == /\ r = [m |-> r.m, rejected |-> r.rejected] /\ r.rejected \in BOOLEAN
                      /\ IsMutation(r.m) /\ SameMutation(r.m, m)
                      /\ \A f : Untouched(hooks, f) => SameField(r.m, m, f)
<1>1. n \in Nat /\ DOMAIN hooks = 1 .. n
  BY DEF IsHooks, Listed
<1> HIDE DEF n
<1>2. PICK g : /\ g[0] = [m |-> m, rejected |-> FALSE]
               /\ \A i \in 1 .. n : g[i] = Run(g[i - 1], hooks[i])
               /\ Hooked(hooks, m) = g[n]
  BY <1>1, HookedStates
<1> DEFINE S == {i \in Nat : i <= n => Kept(g[i])}
<1>3. 0 \in S
  <2>1. g[0].m = m /\ g[0].rejected = FALSE
        /\ g[0] = [m |-> g[0].m, rejected |-> g[0].rejected]
    BY <1>2
  <2>2. Kept(g[0])
    BY <2>1 DEF SameMutation, SameField
  <2> QED
    BY <2>2
<1>4. ASSUME NEW i \in Nat, i \in S PROVE i + 1 \in S
  <2>1. SUFFICES ASSUME i + 1 <= n PROVE Kept(g[i + 1])
    OBVIOUS
  <2>2. i + 1 \in 1 .. n /\ Kept(g[i]) /\ (i + 1) - 1 = i
    BY <1>1, <1>4, <2>1
  <2> DEFINE r == g[i]
  <2> DEFINE h == hooks[i + 1]
  <2>3. g[i + 1] = Run(r, h)
    BY <1>2, <2>2
  <2>4. Listed(h.calls) /\ \A j \in DOMAIN h.calls : h.calls[j].do \in Doings
    BY <1>1, <2>2 DEF IsHooks
  <2>5. \/ g[i + 1] = r
        \/ g[i + 1] = [m |-> r.m, rejected |-> TRUE]
        \/ g[i + 1] = [m |-> Chain(r.m, h.calls), rejected |-> r.rejected]
    BY <2>2, <2>3 DEF Run
  <2>6. /\ IsMutation(Chain(r.m, h.calls)) /\ SameMutation(Chain(r.m, h.calls), r.m)
        /\ \A f : (\A j \in DOMAIN h.calls : h.calls[j].field # f)
                    => SameField(Chain(r.m, h.calls), r.m, f)
    BY <2>2, <2>4, ChainKeeps
  <2>7. \A f : Untouched(hooks, f) => \A j \in DOMAIN h.calls : h.calls[j].field # f
    BY <1>1, <2>2 DEF Untouched
  <2>8. IsMutation(g[i + 1].m) /\ SameMutation(g[i + 1].m, r.m)
    BY <2>2, <2>5, <2>6 DEF SameMutation
  <2>9. SameMutation(g[i + 1].m, m)
    BY <2>2, <2>8 DEF SameMutation
  <2>10. g[i + 1].rejected \in BOOLEAN
         /\ g[i + 1] = [m |-> g[i + 1].m, rejected |-> g[i + 1].rejected]
    <3>1. CASE g[i + 1] = r
      BY <2>2, <3>1
    <3>2. ASSUME NEW k, NEW b \in BOOLEAN, g[i + 1] = [m |-> k, rejected |-> b]
          PROVE  g[i + 1].rejected \in BOOLEAN
                 /\ g[i + 1] = [m |-> g[i + 1].m, rejected |-> g[i + 1].rejected]
      BY <3>2
    <3> QED
      BY <2>2, <2>5, <3>1, <3>2
  <2>11. \A f : Untouched(hooks, f) => SameField(g[i + 1].m, m, f)
    BY <2>2, <2>5, <2>6, <2>7 DEF SameField
  <2> QED
    BY <2>8, <2>9, <2>10, <2>11
<1>5. Nat \subseteq S
  <2> HIDE DEF S
  <2> QED
    BY <1>3, <1>4, NatSetInduction
<1>6. Kept(g[n])
  <2> HIDE DEF Kept
  <2> QED
    BY <1>1, <1>5
<1> QED
  BY <1>2, <1>6

-----------------------------------------------------------------------------
(* A save prepares its mutations.                                          *)

\* What Client.Use added are hooks.
LEMMA HooksAreHooks ==
  ASSUME NEW t \in Types
  PROVE  IsHooks(Hooks[t])
BY HookAssumption DEF IsHooks, Compiles, Doings

\* Defaults are fields of the schema, and the version is none of them.
LEMMA DefaultsKeep ==
  ASSUME NEW m, IsMutation(m)
  PROVE  /\ IsMutation(WithDefaults(m)) /\ SameMutation(WithDefaults(m), m)
         /\ SameField(WithDefaults(m), m, "version")
<1> DEFINE k == WithDefaults(m)
<1> SUFFICES IsMutation(k) /\ SameMutation(k, m) /\ SameField(k, m, "version")
  OBVIOUS
<1>1. /\ SameMutation(k, m) /\ DOMAIN k = DOMAIN m /\ k.cleared = m.cleared
      /\ k.set = m.set ++ Defaults(m.type) /\ k.add = m.add
  BY DEF WithDefaults, IsMutation, SameMutation
<1>2. /\ DOMAIN k.set = DOMAIN m.set \cup DOMAIN Defaults(m.type)
      /\ \A f \in DOMAIN m.set : k.set[f] = m.set[f]
  BY <1>1 DEF ++
<1>3. DOMAIN Defaults(m.type) \subseteq DOMAIN Kinds[m.type] \ {"version"}
  <2>1. CASE m.type = "Payment"
    BY <2>1 DEF Defaults, PaymentDefaults, Kinds, PaymentKinds
  <2>2. CASE m.type # "Payment"
    BY <2>2 DEF Defaults
  <2> QED
    BY <2>1, <2>2
<1> HIDE DEF k
<1> QED
  BY <1>1, <1>2, <1>3 DEF IsMutation, SameMutation, SameField

\* A mutation a save prepared: what it may not change, and that it passed its checks.
LEMMA PrepareKeeps ==
  ASSUME NEW m, IsMutation(m), NEW fields
  PROVE  LET p == Prepare(m, fields)
         IN  /\ IsMutation(p.m) /\ SameMutation(p.m, m)
             /\ p.stop \in {"no", "rejected", "validation"}
             /\ p.stop = "no" => Checks(p.m, fields)
             /\ Untouched(Hooks[m.type], "version") => SameField(p.m, m, "version")
<1> DEFINE d == IF m.op = "Create" THEN WithDefaults(m) ELSE m
<1> DEFINE r == Hooked(Hooks[m.type], d)
<1> DEFINE p == Prepare(m, fields)
<1>1. IsMutation(d) /\ SameMutation(d, m) /\ SameField(d, m, "version")
  BY DefaultsKeep DEF SameMutation, SameField
<1>2. IsHooks(Hooks[m.type])
  BY HooksAreHooks DEF IsMutation
<1>3. p.m = r.m /\ p.stop = Stop(r, fields)
  BY DEF Prepare
<1> HIDE DEF d
<1>4. /\ IsMutation(r.m) /\ SameMutation(r.m, d) /\ r.rejected \in BOOLEAN
      /\ Untouched(Hooks[m.type], "version") => SameField(r.m, d, "version")
  BY <1>1, <1>2, HookedKeeps
<1>5. /\ Stop(r, fields) \in {"no", "rejected", "validation"}
      /\ Stop(r, fields) = "no" => Checks(r.m, fields)
  BY <1>4 DEF Stop
<1> HIDE DEF r, p
<1>6. SameMutation(p.m, m)
  BY <1>1, <1>3, <1>4 DEF SameMutation
<1>7. Untouched(Hooks[m.type], "version") => SameField(p.m, m, "version")
  BY <1>1, <1>3, <1>4 DEF SameField
<1>8. IsMutation(p.m) /\ p.stop \in {"no", "rejected", "validation"}
      /\ (p.stop = "no" => Checks(p.m, fields))
  BY <1>3, <1>4, <1>5
<1> QED
  BY <1>6, <1>7, <1>8 DEF p

\* A builder: its mutations are of one type and one kind.
IsBuilder(b) ==
  /\ DOMAIN b = {"muts", "tx", "saves", "fields"}
  /\ \E n \in Nat : DOMAIN b.muts = 1 .. n
  /\ b.muts # <<>> => 1 \in DOMAIN b.muts
  /\ \A j \in DOMAIN b.muts :
       /\ IsMutation(b.muts[j])
       /\ b.muts[j].type = b.muts[1].type /\ b.muts[j].op = b.muts[1].op
  /\ b.tx \in Nat /\ b.saves \in 0 .. MaxSaves

\* A bulk a save prepared: no mutation is lost or moved, and if none was refused all
\* passed their checks.
LEMMA PreparedKeeps ==
  ASSUME NEW b, IsBuilder(b)
  PROVE  LET p == Prepared(b)
         IN  /\ DOMAIN p.muts = DOMAIN b.muts
             /\ p.muts = [j \in DOMAIN b.muts |-> p.muts[j]]
             /\ \A j \in DOMAIN b.muts :
                  /\ IsMutation(p.muts[j]) /\ SameMutation(p.muts[j], b.muts[j])
                  /\ Untouched(Hooks[b.muts[j].type], "version")
                       => SameField(p.muts[j], b.muts[j], "version")
             /\ p.stop \in {"no", "rejected", "validation", "closed", "nothing"}
             /\ p.stop = "nothing" => Silent(p.muts[1])
             /\ p.stop = "no" => /\ ~ Refusing(b.tx)
                                 /\ b.muts # <<>> => ~ Silent(p.muts[1])
                                 /\ \A j \in DOMAIN b.muts : Checks(p.muts[j], b.fields)
<1> DEFINE p == Prepared(b)
<1> DEFINE each == [j \in DOMAIN b.muts |-> Prepare(b.muts[j], b.fields)]
<1> DEFINE refused == {j \in DOMAIN b.muts : each[j].stop # "no"}
<1>1. /\ p.muts = [j \in DOMAIN b.muts |->
                     IF \E k \in refused : k < j THEN b.muts[j] ELSE each[j].m]
      /\ p.stop = CASE refused # {} -> each[Min(refused)].stop
                    [] refused = {} /\ b.muts # <<>> /\ Silent(each[1].m) -> "nothing"
                    [] OTHER -> IF Refusing(b.tx) THEN "closed" ELSE "no"
  BY DEF Prepared
<1>2. \A j \in DOMAIN b.muts :
        /\ IsMutation(each[j].m) /\ SameMutation(each[j].m, b.muts[j])
        /\ each[j].stop \in {"no", "rejected", "validation"}
        /\ each[j].stop = "no" => Checks(each[j].m, b.fields)
        /\ Untouched(Hooks[b.muts[j].type], "version")
             => SameField(each[j].m, b.muts[j], "version")
  <2> TAKE j \in DOMAIN b.muts
  <2>1. IsMutation(b.muts[j]) /\ each[j] = Prepare(b.muts[j], b.fields)
    BY DEF IsBuilder
  <2> HIDE DEF each
  <2> QED
    BY <2>1, PrepareKeeps
<1>3. refused # {} => Min(refused) \in refused
  <2>1. refused \in SUBSET Nat
    BY DEF IsBuilder
  <2> HIDE DEF refused
  <2> QED
    BY <2>1, LeastNatural
<1> HIDE DEF p, each
<1>4. DOMAIN p.muts = DOMAIN b.muts /\ p.muts = [j \in DOMAIN b.muts |-> p.muts[j]]
  BY <1>1
<1>5. \A j \in DOMAIN b.muts :
        /\ IsMutation(p.muts[j]) /\ SameMutation(p.muts[j], b.muts[j])
        /\ Untouched(Hooks[b.muts[j].type], "version")
             => SameField(p.muts[j], b.muts[j], "version")
  <2> TAKE j \in DOMAIN b.muts
  <2>1. IsMutation(b.muts[j]) /\ SameMutation(b.muts[j], b.muts[j])
        /\ SameField(b.muts[j], b.muts[j], "version")
    BY DEF IsBuilder, SameMutation, SameField
  <2>2. p.muts[j] \in {b.muts[j], each[j].m}
    BY <1>1
  <2> QED
    BY <1>2, <2>1, <2>2
<1>6. p.stop \in {"no", "rejected", "validation", "closed", "nothing"}
  BY <1>1, <1>2, <1>3
<1>7. /\ p.stop = "no" => /\ refused = {} /\ ~ Refusing(b.tx)
                          /\ b.muts # <<>> => ~ Silent(each[1].m)
      /\ p.stop = "nothing" => refused = {} /\ b.muts # <<>> /\ Silent(each[1].m)
  BY <1>1, <1>2, <1>3
<1>8. p.stop = "no" => \A j \in DOMAIN b.muts : Checks(p.muts[j], b.fields)
  BY <1>1, <1>2, <1>7
<1>9. refused = {} /\ b.muts # <<>> => p.muts[1] = each[1].m
  <2>1. b.muts # <<>> => 1 \in DOMAIN b.muts
    BY DEF IsBuilder
  <2> QED
    BY <1>1, <2>1
<1> HIDE DEF refused
<1> QED
  BY <1>4, <1>5, <1>6, <1>7, <1>8, <1>9 DEF p

LEMMA BuiltIsBuilder ==
  ASSUME NEW i \in DOMAIN Programs, NEW n \in Nat
  PROVE  IsBuilder([muts |-> Built[i], tx |-> n, saves |-> 0,
                    fields |-> Programs[i].fields])
<1> DEFINE p == Programs[i]
<1> DEFINE new(j) == NewMutation(p.type, p.op, p.ids[j], p.where)
<1> DEFINE first(j) == IF p.entity = <<>> THEN new(j) ELSE WithEntity(new(j), p.entity[1])
<1>1. /\ p.type \in Types /\ p.op \in Ops /\ Listed(p.chains)
      /\ \A j \in DOMAIN p.chains :
           /\ p.ids[j] # <<>> => p.ids[j] = <<p.ids[j][1]>>
           /\ Listed(p.chains[j])
           /\ \A k \in DOMAIN p.chains[j] : p.chains[j][k].do \in Doings
  BY ProgramAssumption DEF Compiles, Doings
<1>2. /\ Built[i] = [j \in DOMAIN p.chains |-> Chain(first(j), p.chains[j])]
  BY DEF Built, Mutations
<1>3. ASSUME NEW j \in DOMAIN p.chains
      PROVE  IsMutation(first(j)) /\ first(j).type = p.type /\ first(j).op = p.op
  <2>1. /\ IsMutation(new(j)) /\ new(j).type = p.type /\ new(j).op = p.op
    BY <1>1 DEF NewMutation, IsMutation
  <2>2. \A e : /\ IsMutation(WithEntity(new(j), e))
               /\ WithEntity(new(j), e).type = p.type /\ WithEntity(new(j), e).op = p.op
    BY <2>1 DEF WithEntity, IsMutation
  <2> QED
    BY <2>1, <2>2
<1>4. ASSUME NEW j \in DOMAIN p.chains
      PROVE  /\ IsMutation(Built[i][j])
             /\ Built[i][j].type = p.type /\ Built[i][j].op = p.op
  <2>1. IsMutation(Chain(first(j), p.chains[j]))
        /\ SameMutation(Chain(first(j), p.chains[j]), first(j))
    <3> HIDE DEF first, p
    <3> QED
      BY <1>1, <1>3, ChainKeeps
  <2> QED
    BY <1>2, <1>3, <2>1 DEF SameMutation
<1>5. PICK k \in Nat : DOMAIN p.chains = 1 .. k
  BY <1>1 DEF Listed
<1>6. DOMAIN Built[i] = 1 .. k /\ (Built[i] # <<>> => 1 \in DOMAIN Built[i])
  <2>1. DOMAIN Built[i] = 1 .. k
    BY <1>2, <1>5
  <2>2. k = 0 => Built[i] = <<>>
    BY <1>2, <1>5
  <2> QED
    BY <2>1, <2>2
<1>7. 0 \in 0 .. MaxSaves
  BY BoundsAssumption
<1> HIDE DEF p
<1> QED
  BY <1>4, <1>5, <1>6, <1>7 DEF IsBuilder

-----------------------------------------------------------------------------
(* Tables: what a statement leaves, and what a transaction reads.          *)

\* The rows a transaction reads.
LEMMA OwnAt ==
  ASSUME NEW t
  PROVE  /\ DOMAIN Own(t) = DOMAIN tx.rows[t] \cup (DOMAIN tables[t] \ tx.touched[t])
         /\ \A i \in DOMAIN tx.rows[t] : Own(t)[i] = tx.rows[t][i]
         /\ \A i \in DOMAIN tables[t] \ tx.touched[t] :
              i \notin DOMAIN tx.rows[t] => Own(t)[i] = tables[t][i]
BY DEF Own, ++, Without, Restrict

\* The shape of the tables: finite, with the columns of the schema.
TablesShape ==
  /\ DOMAIN tables = Types
  /\ \A t \in Types :
       /\ IsFiniteSet(DOMAIN tables[t])
       /\ \A i \in DOMAIN tables[t] : DOMAIN tables[t][i] \subseteq Columns[t]

\* The shape of the transaction: a row it wrote is touched, and one it touched is
\* written or deleted.
TxFields == {"by", "client", "aborted", "rows", "touched", "deleted", "won"}
TxShape ==
  /\ DOMAIN tx = TxFields
  /\ tx.by \in Workers \cup {"nobody"} /\ tx.aborted \in BOOLEAN
  /\ DOMAIN tx.rows = Types /\ DOMAIN tx.touched = Types /\ DOMAIN tx.deleted = Types
  /\ \A t \in Types :
       /\ IsFiniteSet(DOMAIN tx.rows[t])
       /\ \A i \in DOMAIN tx.rows[t] : DOMAIN tx.rows[t][i] \subseteq Columns[t]
       /\ DOMAIN tx.rows[t] \subseteq tx.touched[t]
       /\ tx.touched[t] \subseteq DOMAIN tx.rows[t] \cup tx.deleted[t]
       /\ tx.deleted[t] \subseteq tx.touched[t]

\* The shape of the builders, of the answer and of the counters.
BuildersShape == DOMAIN builder = Workers /\ \A w \in Workers : IsBuilder(builder[w])

AnswerShape == answer.err \in Errors /\ answer.n \in Nat

CountersShape ==
  made \in 0 .. MaxBuilders /\ asked \in 0 .. MaxAsks /\ begun \in 0 .. MaxTx

\* The type invariant that is inductive.
TypeInv == TablesShape /\ TxShape /\ BuildersShape /\ AnswerShape /\ CountersShape

\* What the tables and the transaction are after a statement.
LEMMA WrittenTx ==
  ASSUME TxShape, NEW t \in Types, NEW n, NEW rows, NEW gone, NEW wins,
         InTx(n), Written(n, t, rows, gone, wins)
  PROVE  /\ DOMAIN tx' = TxFields /\ UNCHANGED <<tables, won>>
         /\ tx'.by = tx.by /\ tx'.client = tx.client /\ tx'.aborted = tx.aborted
         /\ DOMAIN tx'.rows = Types /\ DOMAIN tx'.touched = Types
         /\ DOMAIN tx'.deleted = Types
         /\ tx'.rows[t] = Put(tx.rows[t], rows, gone)
         /\ tx'.touched[t] = tx.touched[t] \cup DOMAIN rows \cup gone
         /\ tx'.deleted[t] = tx.deleted[t] \cup gone
         /\ tx'.won = Bags(Forget(tx.won, Only(t, gone)), wins)
         /\ \A u \in Types : u # t => /\ tx'.rows[u] = tx.rows[u]
                                      /\ tx'.touched[u] = tx.touched[u]
                                      /\ tx'.deleted[u] = tx.deleted[u]
<1>1. /\ tx' = [tx EXCEPT !.rows[t] = Put(@, rows, gone),
                          !.touched[t] = @ \cup DOMAIN rows \cup gone,
                          !.deleted[t] = @ \cup gone,
                          !.won = Bags(Forget(@, Only(t, gone)), wins)]
      /\ UNCHANGED <<tables, won>>
  BY DEF Written
<1> DEFINE put == Put(tx.rows[t], rows, gone)
<1> DEFINE bag == Bags(Forget(tx.won, Only(t, gone)), wins)
<1>2. tx' = [tx EXCEPT !.rows = [tx.rows EXCEPT ![t] = put],
                       !.touched = [tx.touched EXCEPT ![t] =
                                      tx.touched[t] \cup DOMAIN rows \cup gone],
                       !.deleted = [tx.deleted EXCEPT ![t] = tx.deleted[t] \cup gone],
                       !.won = bag]
  BY <1>1
<1> HIDE DEF put, bag
<1>3. /\ tx'.rows = [tx.rows EXCEPT ![t] = put]
      /\ tx'.touched = [tx.touched EXCEPT ![t] = tx.touched[t] \cup DOMAIN rows \cup gone]
      /\ tx'.deleted = [tx.deleted EXCEPT ![t] = tx.deleted[t] \cup gone]
      /\ tx'.won = bag /\ DOMAIN tx' = DOMAIN tx
      /\ tx'.by = tx.by /\ tx'.client = tx.client /\ tx'.aborted = tx.aborted
  BY <1>2 DEF TxShape, TxFields
<1> QED
  BY <1>1, <1>3 DEF TxShape, put, bag

\* A statement outside of a transaction writes the tables.
LEMMA WrittenPlain ==
  ASSUME TablesShape, NEW t \in Types, NEW n, NEW rows, NEW gone, NEW wins,
         ~ InTx(n), Written(n, t, rows, gone, wins)
  PROVE  /\ DOMAIN tables' = Types /\ UNCHANGED tx
         /\ tables'[t] = Put(tables[t], rows, gone)
         /\ \A u \in Types : u # t => tables'[u] = tables[u]
         /\ won' = Bags(Forget(won, Only(t, gone)), wins)
BY DEF Written, TablesShape

\* What the worker of the statement sees is what it saw with the rows written.
LEMMA WrittenView ==
  ASSUME TablesShape, TxShape, NEW t \in Types, NEW n, NEW rows, NEW gone, NEW wins,
         Written(n, t, rows, gone, wins), UNCHANGED begun
  PROVE  /\ InTx(n)' <=> InTx(n)
         /\ View(n, t)' = Put(View(n, t), rows, gone)
         /\ \A u \in Types : u # t => View(n, u)' = View(n, u)
<1>1. CASE ~ InTx(n)
  BY <1>1, WrittenPlain DEF View, InTx
<1>2. CASE InTx(n)
  <2>1. /\ UNCHANGED tables /\ tx'.by = tx.by
        /\ tx'.rows[t] = Put(tx.rows[t], rows, gone)
        /\ tx'.touched[t] = tx.touched[t] \cup DOMAIN rows \cup gone
        /\ \A u \in Types : u # t => tx'.rows[u] = tx.rows[u] /\ tx'.touched[u] = tx.touched[u]
    BY <1>2, WrittenTx
  <2>2. InTx(n)'
    BY <1>2, <2>1 DEF InTx
  <2>3. Own(t)' = Put(Own(t), rows, gone)
    <3> DEFINE rs == tx.rows[t]
    <3> DEFINE tc == tx.touched[t]
    <3> DEFINE tb == tables[t]
    <3>1. Own(t)' = Put(rs, rows, gone) ++ Without(tb, tc \cup DOMAIN rows \cup gone)
      BY <2>1 DEF Own
    <3>2. Own(t) = rs ++ Without(tb, tc)
      BY DEF Own
    <3>3. DOMAIN rs \subseteq tc
      BY DEF TxShape
    <3> HIDE DEF rs, tc, tb
    <3>4. Put(rs, rows, gone) ++ Without(tb, tc \cup DOMAIN rows \cup gone)
            = Put(rs ++ Without(tb, tc), rows, gone)
      <4> DEFINE l == Put(rs, rows, gone) ++ Without(tb, tc \cup DOMAIN rows \cup gone)
      <4> DEFINE r == Put(rs ++ Without(tb, tc), rows, gone)
      <4>1. l = [x \in DOMAIN l |-> l[x]] /\ r = [x \in DOMAIN r |-> r[x]]
        BY DEF Put, ++
      <4>2. DOMAIN l = DOMAIN r
        BY <3>3 DEF Put, ++, Without, Restrict
      <4>3. ASSUME NEW x \in DOMAIN l PROVE l[x] = r[x]
        BY <3>3, <4>2 DEF Put, ++, Without, Restrict
      <4> HIDE DEF l, r
      <4>4. l = r
        BY <4>1, <4>2, <4>3
      <4> QED
        BY <4>4 DEF l, r
    <3> QED
      BY <3>1, <3>2, <3>4
  <2>4. \A u \in Types : u # t => Own(u)' = Own(u)
    BY <2>1 DEF Own
  <2> QED
    BY <1>2, <2>2, <2>3, <2>4 DEF View
<1> QED
  BY <1>1, <1>2

\* A statement of another that does not wait changes what the transaction reads
\* as it changes the tables.
LEMMA WrittenBeside ==
  ASSUME TablesShape, TxShape, NEW t \in Types, NEW n, NEW rows, NEW gone, NEW wins,
         ~ InTx(n), ~ Waits(n, t, rows, gone), Written(n, t, rows, gone, wins)
  PROVE  /\ Own(t)' = Put(Own(t), rows, gone)
         /\ \A u \in Types : u # t => Own(u)' = Own(u)
<1>1. /\ UNCHANGED tx /\ tables'[t] = Put(tables[t], rows, gone)
      /\ \A u \in Types : u # t => tables'[u] = tables[u]
  BY WrittenPlain
<1>2. (DOMAIN rows \cup gone) \cap tx.touched[t] = {}
  BY DEF Waits
<1> DEFINE rs == tx.rows[t]
<1> DEFINE tc == tx.touched[t]
<1> DEFINE tb == tables[t]
<1>3. Own(t)' = rs ++ Without(Put(tb, rows, gone), tc)
  BY <1>1 DEF Own
<1>4. Own(t) = rs ++ Without(tb, tc) /\ DOMAIN rs \subseteq tc
  BY DEF Own, TxShape
<1> DEFINE l == rs ++ Without(Put(tb, rows, gone), tc)
<1> DEFINE r == Put(rs ++ Without(tb, tc), rows, gone)
<1>5. l = r
  <2>1. l = [x \in DOMAIN l |-> l[x]] /\ r = [x \in DOMAIN r |-> r[x]]
    BY DEF Put, ++
  <2>2. DOMAIN l = DOMAIN r
    BY <1>2, <1>4 DEF Put, ++, Without, Restrict
  <2>3. ASSUME NEW x \in DOMAIN l PROVE l[x] = r[x]
    BY <1>2, <1>4, <2>2 DEF Put, ++, Without, Restrict
  <2> HIDE DEF l, r
  <2> QED
    BY <2>1, <2>2, <2>3
<1>6. \A u \in Types : u # t => Own(u)' = Own(u)
  BY <1>1 DEF Own
<1> QED
  BY <1>3, <1>4, <1>5, <1>6

-----------------------------------------------------------------------------
(* Statements, and the saves that run them.                                *)

\* What the schema's sets of columns have to do with each other: a create writes every
\* required column, an update none that is immutable, and a blank is checked for
\* wherever it could be written.
LEMMA ColumnFacts ==
  ASSUME NEW t \in Types
  PROVE  /\ Required[t] \subseteq Created[t] /\ "id" \notin Created[t]
         /\ Created[t] \cup {"id"} = Columns[t] /\ Required[t] \cup {"id"} \subseteq Columns[t]
         /\ NotEmpty[t] \ {"id"} \subseteq Required[t]
         /\ Updated[t] \subseteq Columns[t] \ {"id"} /\ UpdatedOne[t] = Updated[t]
         /\ (Immutable[t] \ Nullable[t]) \cap Updated[t] = {}
         /\ Nullable[t] \cap (Required[t] \cup {"id"}) = {}
         /\ NotEmpty[t] \cap Updated[t] \subseteq CheckedOnUpdate[t]
         /\ NotEmpty[t] \cap Numeric[t] = {}
         /\ "version" \in Updated[t] \cap Required[t] /\ "version" \in Columns[t]
         /\ "version" \notin Nullable[t]
<1>1. CASE t = "Order"
  BY <1>1 DEF Required, Created, Columns, NotEmpty, PaymentsNotEmpty, UsersNotEmpty, Updated,
              UpdatedOne, Immutable, Nullable, CheckedOnUpdate, Numeric, OrderRequired,
              OrderCreated, OrderColumns, OrderUpdated, OrderUpdatedOne, OrderImmutable,
              OrderNullable, OrderNumeric, ++
<1>2. CASE t = "Payment"
  BY <1>2 DEF Required, Created, Columns, NotEmpty, PaymentsNotEmpty, UsersNotEmpty, Updated,
              UpdatedOne, Immutable, Nullable, CheckedOnUpdate, Numeric, PaymentRequired,
              PaymentCreated, PaymentColumns, PaymentUpdated, PaymentUpdatedOne,
              PaymentImmutable, PaymentNullable, PaymentNumeric, ++
<1>3. CASE t = "User"
  BY <1>3 DEF Required, Created, Columns, NotEmpty, PaymentsNotEmpty, UsersNotEmpty, Updated,
              UpdatedOne, Immutable, Nullable, CheckedOnUpdate, Numeric, UserRequired,
              UserCreated, UserColumns, UserUpdated, UserUpdatedOne, UserImmutable,
              UserNullable, UserNumeric, ++
<1> QED
  BY <1>1, <1>2, <1>3 DEF Types

\* The image of a finite set is finite and no larger.
LEMMA ImageFinite ==
  ASSUME NEW S, IsFiniteSet(S), NEW f, DOMAIN f = S
  PROVE  /\ IsFiniteSet({f[x] : x \in S}) /\ Cardinality({f[x] : x \in S}) \in Nat
         /\ Cardinality({f[x] : x \in S}) <= Cardinality(S)
<1> DEFINE T == {f[x] : x \in S}
<1> DEFINE g == [x \in S |-> f[x]]
<1>1. g \in Surjection(S, T)
  <2>1. g \in [S -> T] /\ \A y \in T : \E x \in S : g[x] = y
    OBVIOUS
  <2> HIDE DEF g, T
  <2> QED
    BY <2>1 DEF Surjection
<1>2. IsFiniteSet(T) /\ Cardinality(T) <= Cardinality(S)
  <2> HIDE DEF g, T
  <2> QED
    BY <1>1, FS_Surjection
<1>3. Cardinality(T) \in Nat
  BY <1>2, FS_CardinalityType
<1> QED
  BY <1>2, <1>3

\* The columns no update may change.
Fixed(t) == Immutable[t] \ Nullable[t]

\* An update leaves a row valid and its fixed columns what they were.
Revised(t, i, old, new) ==
  /\ Store!ValidRow(t, i, old) => Store!ValidRow(t, i, new)
  /\ \A c \in Fixed(t) : Store!Same(old, new, c)

\* A statement that may be run: it does not wait, keeps the unique columns unique, and
\* each row it writes is a valid new one or a revision.
Stated(n, t, rows, gone) ==
  /\ t \in Types /\ ~ Closed(n) /\ (InTx(n) => ~ tx.aborted)
  /\ ~ Waits(n, t, rows, gone)
  /\ IsFiniteSet(DOMAIN rows)
  /\ \A i \in DOMAIN rows : DOMAIN rows[i] \subseteq Columns[t]
  /\ gone \subseteq DOMAIN View(n, t)
  /\ ~ BreaksUnique(t, View(n, t), rows)
  /\ \A i \in DOMAIN rows :
       \/ i \notin DOMAIN View(n, t) /\ Store!ValidRow(t, i, rows[i])
       \/ i \in DOMAIN View(n, t) /\ Revised(t, i, View(n, t)[i], rows[i])

\* What a statement reads is finite and has the columns of the schema.
LEMMA ViewShape ==
  ASSUME TablesShape, TxShape, NEW n, NEW t \in Types
  PROVE  /\ IsFiniteSet(DOMAIN View(n, t))
         /\ \A i \in DOMAIN View(n, t) : DOMAIN View(n, t)[i] \subseteq Columns[t]
         /\ IsFiniteSet(DOMAIN Own(t))
         /\ \A i \in DOMAIN Own(t) : DOMAIN Own(t)[i] \subseteq Columns[t]
<1>1. IsFiniteSet(DOMAIN tables[t]) /\ IsFiniteSet(DOMAIN tx.rows[t])
  BY DEF TablesShape, TxShape
<1>2. IsFiniteSet(DOMAIN tables[t] \ tx.touched[t])
  BY <1>1, FS_Difference
<1>3. /\ DOMAIN Own(t) = DOMAIN tx.rows[t] \cup (DOMAIN tables[t] \ tx.touched[t])
      /\ \A i \in DOMAIN tx.rows[t] : Own(t)[i] = tx.rows[t][i]
      /\ \A i \in DOMAIN tables[t] \ tx.touched[t] :
           i \notin DOMAIN tx.rows[t] => Own(t)[i] = tables[t][i]
  BY OwnAt
<1>4. IsFiniteSet(DOMAIN Own(t)) /\ \A i \in DOMAIN Own(t) : DOMAIN Own(t)[i] \subseteq Columns[t]
  <2>1. IsFiniteSet(DOMAIN tx.rows[t] \cup (DOMAIN tables[t] \ tx.touched[t]))
    BY <1>1, <1>2, FS_Union
  <2> QED
    BY <1>3, <2>1 DEF TablesShape, TxShape
<1> QED
  BY <1>1, <1>4 DEF View, TablesShape

\* The row a checked create writes is valid.
LEMMA CreateRowAt ==
  ASSUME NEW m, IsMutation(m), m.op = "Create", CheckCreate(m), NEW i, m.id = <<i>>
  PROVE  LET r == CreateRow(m)
         IN  /\ DOMAIN r \subseteq Columns[m.type] /\ Store!ValidRow(m.type, i, r)
             /\ r["version"] = m.set["version"] /\ "version" \in DOMAIN m.set
<1> DEFINE r == CreateRow(m)
<1> DEFINE t == m.type
<1>1. /\ DOMAIN r = {"id"} \cup (Created[t] \cap DOMAIN m.set) /\ r["id"] = i
      /\ \A f \in Created[t] \cap DOMAIN m.set : f # "id" => r[f] = m.set[f]
  BY DEF CreateRow, One, ++, Restrict
<1>2. t \in Types
  BY DEF IsMutation
<1> HIDE DEF r
<1>3. /\ Required[t] \subseteq Created[t] /\ "id" \notin Created[t] /\ "version" \in Required[t]
      /\ NotEmpty[t] \ {"id"} \subseteq Required[t] /\ Created[t] \cup {"id"} = Columns[t]
  BY <1>2, ColumnFacts
<1>4. Required[t] \subseteq DOMAIN m.set
  BY DEF CheckCreate
<1>5. DOMAIN r \subseteq Columns[t] /\ r["version"] = m.set["version"] /\ "version" \in DOMAIN m.set
  BY <1>1, <1>3, <1>4
<1>6. Required[t] \cup {"id"} \subseteq DOMAIN r
  BY <1>1, <1>2, ColumnFacts DEF CheckCreate
<1>7. \A c \in NotEmpty[t] : r[c] # ""
  <2>1. i # ""
    BY DEF CheckCreate
  <2> TAKE c \in NotEmpty[t]
  <2>2. CASE c = "id"
    BY <1>1, <2>1, <2>2
  <2>3. CASE c # "id"
    <3>1. c \in NotEmpty[t] \ {"id"} /\ m.set[c] # ""
      BY <2>3 DEF CheckCreate
    <3>2. c \in Created[t] \cap DOMAIN m.set
      BY <1>3, <1>4, <3>1
    <3> QED
      BY <1>1, <2>3, <3>1, <3>2
  <2> QED
    BY <2>2, <2>3
<1>8. Store!ValidRow(t, i, r)
  BY <1>1, <1>2, <1>6, <1>7 DEF Store!ValidRow
<1> QED
  BY <1>5, <1>8 DEF r

\* The row a checked update writes revises the row it read.
LEMMA UpdateRowAt ==
  ASSUME NEW m, IsMutation(m), m.op \in {"Update", "UpdateOne"}, CheckUpdate(m),
         NEW i, NEW row, DOMAIN row \subseteq Columns[m.type]
  PROVE  LET r == UpdateRow(m, row)
         IN  /\ DOMAIN r \subseteq Columns[m.type] /\ Revised(m.type, i, row, r)
             /\ "version" \notin DOMAIN m.add =>
                  /\ "version" \in DOMAIN m.set => r["version"] = m.set["version"]
                  /\ "version" \in DOMAIN row /\ "version" \notin DOMAIN m.set
                       => r["version"] = row["version"]
<1> DEFINE r == UpdateRow(m, row)
<1> DEFINE t == m.type
<1> DEFINE set == Updated[t] \cap DOMAIN m.set
<1> DEFINE add == Updated[t] \cap DOMAIN m.add
<1>1. t \in Types
  BY DEF IsMutation
<1>2. /\ DOMAIN r = add \cup set \cup (DOMAIN row \ m.cleared)
      /\ \A f \in DOMAIN r : /\ f \notin add /\ f \in set => r[f] = m.set[f]
                             /\ f \notin add /\ f \notin set => r[f] = row[f]
  <2>1. r = AddFields(m, row, Updated[t])
    BY <1>1, ColumnFacts DEF UpdateRow, Writes
  <2> QED
    BY <2>1 DEF AddFields, WriteFields, ++, Without, Restrict
<1> HIDE DEF r
<1>3. m.cleared \subseteq Nullable[t] /\ DOMAIN m.add \subseteq Numeric[t]
  BY DEF IsMutation
<1>4. DOMAIN r \subseteq Columns[t]
  BY <1>1, <1>2, ColumnFacts
<1>5. \A c \in Fixed(t) : Store!Same(row, r, c)
  BY <1>1, <1>2, <1>3, ColumnFacts DEF Fixed, Store!Same
<1>6. ASSUME Store!ValidRow(t, i, row) PROVE Store!ValidRow(t, i, r)
  <2>1. row["id"] = i /\ Required[t] \cup {"id"} \subseteq DOMAIN row
        /\ \A c \in NotEmpty[t] : row[c] # ""
    BY <1>1, <1>6 DEF Store!ValidRow
  <2>2. r["id"] = i /\ Required[t] \cup {"id"} \subseteq DOMAIN r
    BY <1>1, <1>2, <1>3, <2>1, ColumnFacts
  <2>3. \A c \in NotEmpty[t] : r[c] # ""
    <3> TAKE c \in NotEmpty[t]
    <3>1. c \in DOMAIN r
      BY <1>1, <2>2, ColumnFacts
    <3>2. c \notin add
      BY <1>1, <1>3, ColumnFacts
    <3>3. c \in set => m.set[c] # ""
      BY <1>1, ColumnFacts DEF CheckUpdate
    <3> QED
      BY <1>2, <2>1, <3>1, <3>2, <3>3
  <2> QED
    BY <1>1, <2>2, <2>3 DEF Store!ValidRow
<1>7. "version" \notin DOMAIN m.add =>
        /\ "version" \in DOMAIN m.set => r["version"] = m.set["version"]
        /\ "version" \in DOMAIN row /\ "version" \notin DOMAIN m.set
             => r["version"] = row["version"]
  BY <1>1, <1>2, <1>3, ColumnFacts
<1> QED
  BY <1>4, <1>5, <1>6, <1>7 DEF r, Revised

-----------------------------------------------------------------------------
(* What a save does to the versions.                                      *)

\* A mutation that follows the discipline of VersionAssumption.
VersionHeld(m) ==
  /\ m.type \in Guarded =>
       /\ m.op = "Create" /\ "version" \in DOMAIN m.set => m.set["version"] \in Int
       /\ m.op = "Update" =>
            /\ "version" \notin DOMAIN m.add
            /\ "version" \in DOMAIN m.set =>
                 /\ m.set["version"] \in Int
                 /\ \E i \in DOMAIN m.where :
                      /\ ~ m.where[i].not
                      /\ m.where[i].any = <<[col |-> "version", op |-> "EQ",
                                             args |-> <<m.set["version"] - 1>>]>>
       /\ m.op = "UpdateOne" => "version" \notin DOMAIN m.set \cup DOMAIN m.add
  /\ m.op = "Update" /\ m.where # <<>> => m.type \in Guarded

\* Every row of a table has a version.
Numbered(table) ==
  \A i \in DOMAIN table : "version" \in DOMAIN table[i] /\ table[i]["version"] \in Int

\* A statement moves no version back, and what it wins is the version one up.
Climbs(view, t, rows, wins) ==
  /\ t \in Guarded /\ Numbered(view) =>
       /\ Numbered(rows)
       /\ \A i \in DOMAIN rows \cap DOMAIN view : view[i]["version"] <= rows[i]["version"]
       /\ \A x \in DOMAIN wins :
            /\ x = <<t, x[2], x[3]>> /\ x[2] \in DOMAIN rows \cap DOMAIN view
            /\ x[3] = rows[x[2]]["version"] /\ x[3] = view[x[2]]["version"] + 1
  /\ \A x \in DOMAIN wins : wins[x] = 1
  /\ t \notin Guarded => DOMAIN wins = {}

\* What a save leaves of a mutation.
Heir(k, m) ==
  /\ IsMutation(k)
  /\ k.type = m.type /\ k.op = m.op /\ k.id = m.id /\ k.where = m.where /\ k.old = m.old
  /\ Untouched(Hooks[m.type], "version") => SameField(k, m, "version")

\* What every save does, refused, failed or done: it answers, and runs no statement,
\* a failing one, or one that may be run.
SaveDoes(w) ==
  LET b == builder[w] IN
  /\ b.saves < MaxSaves /\ 1 \in DOMAIN b.muts
  /\ \E muts, ans :
       /\ Answered(w, muts, ans) /\ ans.err \in Errors /\ ans.n \in Nat
       /\ DOMAIN muts = DOMAIN b.muts
       /\ \A j \in DOMAIN b.muts : Heir(muts[j], b.muts[j])
  /\ \/ UNCHANGED <<tables, tx, won>>
     \/ Failed(b.tx)
     \/ \E t, rows, gone, wins :
          /\ Stated(b.tx, t, rows, gone) /\ Written(b.tx, t, rows, gone, wins)
          /\ (\A j \in DOMAIN b.muts : VersionHeld(b.muts[j]))
               => Climbs(View(b.tx, t), t, rows, wins)

\* The discipline of versions outlives the hooks.
LEMMA HeirsHold ==
  ASSUME NEW k, NEW m, Heir(k, m), VersionHeld(m), m.type \in Types
  PROVE  VersionHeld(k)
<1>1. CASE m.type \in Guarded
  <2>1. Untouched(Hooks[m.type], "version")
    BY <1>1, VersionAssumption DEF Untouched
  <2>2. SameField(k, m, "version") /\ k.type = m.type /\ k.op = m.op /\ k.where = m.where
    BY <2>1 DEF Heir
  <2>3. k.type \in Guarded
    BY <1>1, <2>2
  <2>4. k.op = "Create" /\ "version" \in DOMAIN k.set => k.set["version"] \in Int
    BY <1>1, <2>2 DEF VersionHeld, SameField
  <2>5. k.op = "UpdateOne" => "version" \notin DOMAIN k.set \cup DOMAIN k.add
    BY <1>1, <2>2 DEF VersionHeld, SameField
  <2>6. k.op = "Update" => "version" \notin DOMAIN k.add
    BY <1>1, <2>2 DEF VersionHeld, SameField
  <2>7. k.op = "Update" /\ "version" \in DOMAIN k.set =>
          m.op = "Update" /\ "version" \in DOMAIN m.set /\ k.set["version"] = m.set["version"]
    BY <2>2 DEF SameField
  <2> QED
    BY <1>1, <2>2, <2>3, <2>4, <2>5, <2>6, <2>7 DEF VersionHeld
<1>2. CASE m.type \notin Guarded
  BY <1>2 DEF Heir, VersionHeld
<1> QED
  BY <1>1, <1>2

\* The mutations of a prepared builder, done or not, are heirs of those it had.
LEMMA PreparedHeirs ==
  ASSUME NEW b, IsBuilder(b)
  PROVE  LET p == Prepared(b)
         IN  /\ DOMAIN p.muts = DOMAIN b.muts /\ DOMAIN Done(p.muts) = DOMAIN b.muts
             /\ \A j \in DOMAIN b.muts :
                  Heir(p.muts[j], b.muts[j]) /\ Heir(Done(p.muts)[j], b.muts[j])
             /\ p.stop \in {"no", "rejected", "validation", "closed", "nothing"}
             /\ p.stop = "nothing" => Silent(p.muts[1])
             /\ p.stop = "no" => /\ ~ Refusing(b.tx)
                                 /\ b.muts # <<>> => ~ Silent(p.muts[1])
                                 /\ \A j \in DOMAIN b.muts : Checks(p.muts[j], b.fields)
<1> DEFINE p == Prepared(b)
<1>1. /\ DOMAIN p.muts = DOMAIN b.muts
      /\ \A j \in DOMAIN b.muts :
           /\ IsMutation(p.muts[j]) /\ SameMutation(p.muts[j], b.muts[j])
           /\ Untouched(Hooks[b.muts[j].type], "version")
                => SameField(p.muts[j], b.muts[j], "version")
      /\ p.stop \in {"no", "rejected", "validation", "closed", "nothing"}
      /\ p.stop = "nothing" => Silent(p.muts[1])
      /\ p.stop = "no" => /\ ~ Refusing(b.tx)
                          /\ b.muts # <<>> => ~ Silent(p.muts[1])
                          /\ \A j \in DOMAIN b.muts : Checks(p.muts[j], b.fields)
  BY PreparedKeeps
<1> HIDE DEF p
<1>2. DOMAIN Done(p.muts) = DOMAIN b.muts
  BY <1>1 DEF Done
<1>3. ASSUME NEW j \in DOMAIN b.muts PROVE Heir(p.muts[j], b.muts[j])
  BY <1>1, <1>3 DEF Heir, SameMutation
<1>4. ASSUME NEW j \in DOMAIN b.muts PROVE Heir(Done(p.muts)[j], b.muts[j])
  <2> DEFINE k == Done(p.muts)[j]
  <2>1. k = [p.muts[j] EXCEPT !.done = TRUE] /\ Heir(p.muts[j], b.muts[j])
    BY <1>1, <1>3 DEF Done
  <2>2. /\ DOMAIN k = DOMAIN p.muts[j] /\ k.type = p.muts[j].type /\ k.op = p.muts[j].op
        /\ k.id = p.muts[j].id /\ k.where = p.muts[j].where /\ k.set = p.muts[j].set
        /\ k.add = p.muts[j].add /\ k.cleared = p.muts[j].cleared /\ k.old = p.muts[j].old
    BY <2>1 DEF Heir, IsMutation
  <2> HIDE DEF k
  <2>3. IsMutation(k)
    BY <2>1, <2>2 DEF Heir, IsMutation
  <2>4. Heir(k, b.muts[j])
    BY <2>1, <2>2, <2>3 DEF Heir, SameField
  <2> QED
    BY <2>4 DEF k
<1> QED
  BY <1>1, <1>2, <1>3, <1>4 DEF p

\* A refused save.
LEMMA SaveRefusedDoes ==
  ASSUME TypeInv, NEW w \in Workers, NEW op \in Ops, SaveRefused(w, op, Prepared(builder[w]))
  PROVE  SaveDoes(w)
<1> DEFINE b == builder[w]
<1> DEFINE p == Prepared(b)
<1>1. IsBuilder(b)
  BY DEF TypeInv, BuildersShape
<1>2. /\ DOMAIN p.muts = DOMAIN b.muts /\ DOMAIN Done(p.muts) = DOMAIN b.muts
      /\ \A j \in DOMAIN b.muts : Heir(p.muts[j], b.muts[j]) /\ Heir(Done(p.muts)[j], b.muts[j])
      /\ p.stop \in {"no", "rejected", "validation", "closed", "nothing"}
  BY <1>1, PreparedHeirs
<1> DEFINE muts == IF p.stop = "closed" /\ op \in {"Delete", "DeleteOne"}
                   THEN Done(p.muts) ELSE p.muts
<1>3. /\ b.saves < MaxSaves /\ b.muts # <<>> /\ p.stop \notin {"no", "nothing"}
      /\ Answered(w, muts, Nothing(p.stop)) /\ UNCHANGED <<tables, tx, won>>
  BY DEF SaveRefused, Saving
<1> HIDE DEF p
<1>4. Nothing(p.stop).err \in Errors /\ Nothing(p.stop).n \in Nat
  BY <1>2, <1>3 DEF Nothing, Errors
<1>5. DOMAIN muts = DOMAIN b.muts /\ \A j \in DOMAIN b.muts : Heir(muts[j], b.muts[j])
  BY <1>2
<1> HIDE DEF muts
<1>6. 1 \in DOMAIN b.muts
  BY <1>1, <1>3 DEF IsBuilder
<1> QED
  BY <1>3, <1>4, <1>5, <1>6 DEF SaveDoes

\* The two ways a statement ends.
LEMMA Ends ==
  ASSUME TypeInv, NEW w \in Workers, NEW muts, NEW ans,
         builder[w].saves < MaxSaves, 1 \in DOMAIN builder[w].muts,
         muts \in {Prepared(builder[w]).muts, Done(Prepared(builder[w]).muts)},
         Answered(w, muts, ans), ans.err \in Errors, ans.n \in Nat,
         \/ UNCHANGED <<tables, tx, won>>
         \/ Failed(builder[w].tx)
         \/ \E t, rows, gone, wins :
              /\ Stated(builder[w].tx, t, rows, gone)
              /\ Written(builder[w].tx, t, rows, gone, wins)
              /\ (\A j \in DOMAIN builder[w].muts : VersionHeld(builder[w].muts[j]))
                   => Climbs(View(builder[w].tx, t), t, rows, wins)
  PROVE  SaveDoes(w)
<1> DEFINE b == builder[w]
<1> DEFINE p == Prepared(b)
<1>1. IsBuilder(b)
  BY DEF TypeInv, BuildersShape
<1>2. /\ DOMAIN p.muts = DOMAIN b.muts /\ DOMAIN Done(p.muts) = DOMAIN b.muts
      /\ \A j \in DOMAIN b.muts : Heir(p.muts[j], b.muts[j]) /\ Heir(Done(p.muts)[j], b.muts[j])
  BY <1>1, PreparedHeirs
<1>3. DOMAIN muts = DOMAIN b.muts /\ \A j \in DOMAIN b.muts : Heir(muts[j], b.muts[j])
  BY <1>2
<1>4. \E ms, a :
        /\ Answered(w, ms, a) /\ a.err \in Errors /\ a.n \in Nat
        /\ DOMAIN ms = DOMAIN b.muts
        /\ \A j \in DOMAIN b.muts : Heir(ms[j], b.muts[j])
  <2> HIDE DEF p, b
  <2> QED
    BY <1>3
<1> QED
  BY <1>4 DEF SaveDoes

\* A builder that is saved: the first of its mutations stands for the kind of all.
LEMMA SavingFacts ==
  ASSUME TypeInv, NEW w \in Workers, NEW op \in Ops, Saving(w, op),
         Prepared(builder[w]).stop = "no"
  PROVE  LET b == builder[w]
             p == Prepared(b)
         IN  /\ IsBuilder(b) /\ 1 \in DOMAIN b.muts /\ b.saves < MaxSaves
             /\ DOMAIN p.muts = DOMAIN b.muts
             /\ ~ Refusing(b.tx) /\ ~ Closed(b.tx) /\ (InTx(b.tx) => ~ tx.aborted)
             /\ p.muts[1].type \in Types
             /\ \A j \in DOMAIN b.muts :
                  /\ Heir(p.muts[j], b.muts[j]) /\ IsMutation(p.muts[j])
                  /\ p.muts[j].op = op /\ p.muts[j].type = p.muts[1].type
                  /\ Checks(p.muts[j], b.fields)
<1> DEFINE b == builder[w]
<1> DEFINE p == Prepared(b)
<1>1. IsBuilder(b) /\ b.muts # <<>> /\ b.muts[1].op = op /\ b.saves < MaxSaves
  BY DEF TypeInv, BuildersShape, Saving
<1>2. /\ DOMAIN p.muts = DOMAIN b.muts
      /\ \A j \in DOMAIN b.muts : Heir(p.muts[j], b.muts[j]) /\ Checks(p.muts[j], b.fields)
      /\ ~ Refusing(b.tx)
  BY <1>1, PreparedHeirs
<1> HIDE DEF p, b
<1>3. /\ 1 \in DOMAIN b.muts
      /\ \A j \in DOMAIN b.muts : b.muts[j].op = op /\ b.muts[j].type = b.muts[1].type
  BY <1>1 DEF IsBuilder
<1>4. \A j \in DOMAIN b.muts : /\ IsMutation(p.muts[j]) /\ p.muts[j].op = op
                               /\ p.muts[j].type = b.muts[1].type /\ p.muts[j].type \in Types
  BY <1>2, <1>3 DEF Heir, IsMutation
<1>5. ~ Closed(b.tx) /\ (InTx(b.tx) => ~ tx.aborted)
  BY <1>2 DEF Refusing
<1> QED
  BY <1>1, <1>2, <1>3, <1>4, <1>5 DEF p, b

\* A save of a create, alone or in bulk.
LEMMA SaveCreateDoes ==
  ASSUME TypeInv, NEW w \in Workers, SaveCreate(w, Prepared(builder[w]))
  PROVE  SaveDoes(w)
<1> DEFINE b == builder[w]
<1> DEFINE p == Prepared(b)
<1> DEFINE n == b.tx
<1> DEFINE t == p.muts[1].type
<1> DEFINE ids == {p.muts[j].id[1] : j \in DOMAIN p.muts}
<1> DEFINE rows == [i \in ids |-> CreateRow(CHOOSE m \in ToSet(p.muts) : m.id = <<i>>)]
<1> DEFINE clash == \/ Cardinality(ids) < Len(p.muts) \/ ids \cap DOMAIN View(n, t) # {}
                    \/ BreaksUnique(t, View(n, t), rows)
<1>1. Saving(w, "Create") /\ p.stop = "no" /\ "Create" \in Ops
  BY DEF SaveCreate, Ops
<1>2. /\ IsBuilder(b) /\ 1 \in DOMAIN b.muts /\ b.saves < MaxSaves
      /\ DOMAIN p.muts = DOMAIN b.muts
      /\ ~ Closed(b.tx) /\ (InTx(b.tx) => ~ tx.aborted)
      /\ t \in Types
      /\ \A j \in DOMAIN b.muts :
           /\ Heir(p.muts[j], b.muts[j]) /\ IsMutation(p.muts[j])
           /\ p.muts[j].op = "Create" /\ p.muts[j].type = t
           /\ Checks(p.muts[j], b.fields)
  <2> HIDE DEF b
  <2> QED
    BY <1>1, SavingFacts DEF b
<1>3. \/ Failed(n) /\ \E e \in {"database", "constraint"} : Answered(w, p.muts, Nothing(e))
      \/ /\ \A j \in DOMAIN p.muts : p.muts[j].id # <<>>
         /\ ~ Waits(n, t, rows, {}) /\ ~ clash
         /\ Written(n, t, rows, {}, << >>)
         /\ Answered(w, Done(p.muts), Nodes({rows[i] ++ Zero[t] : i \in ids}))
  BY DEF SaveCreate
<1> HIDE DEF p
<1>4. CASE Failed(n) /\ \E e \in {"database", "constraint"} : Answered(w, p.muts, Nothing(e))
  <2>1. PICK e \in {"database", "constraint"} : Answered(w, p.muts, Nothing(e))
    BY <1>4
  <2>2. Nothing(e).err \in Errors /\ Nothing(e).n \in Nat
    BY DEF Nothing, Errors
  <2> HIDE DEF b
  <2> QED
    BY <1>2, <1>4, <2>1, <2>2, Ends DEF b, p
<1>5. CASE /\ \A j \in DOMAIN p.muts : p.muts[j].id # <<>>
           /\ ~ Waits(n, t, rows, {}) /\ ~ clash
           /\ Written(n, t, rows, {}, << >>)
           /\ Answered(w, Done(p.muts), Nodes({rows[i] ++ Zero[t] : i \in ids}))
  <2>1. IsFiniteSet(ids)
    <3>1. IsFiniteSet(DOMAIN p.muts)
      BY <1>2, FS_Interval DEF IsBuilder
    <3> DEFINE f == [j \in DOMAIN p.muts |-> p.muts[j].id[1]]
    <3>2. ids = {f[j] : j \in DOMAIN p.muts} /\ DOMAIN f = DOMAIN p.muts
      OBVIOUS
    <3> HIDE DEF f, ids
    <3> QED
      BY <3>1, <3>2, ImageFinite
  <2>2. ASSUME NEW i \in ids
        PROVE  \E k \in DOMAIN b.muts :
                 p.muts[k].id = <<i>> /\ rows[i] = CreateRow(p.muts[k])
    <3>1. PICK j \in DOMAIN p.muts : p.muts[j].id[1] = i
      OBVIOUS
    <3>2. p.muts[j].id = <<i>>
      BY <1>2, <1>5, <3>1 DEF IsMutation
    <3>3. \E m \in ToSet(p.muts) : m.id = <<i>>
      BY <3>2 DEF ToSet
    <3> DEFINE m == CHOOSE m \in ToSet(p.muts) : m.id = <<i>>
    <3>4. m \in ToSet(p.muts) /\ m.id = <<i>>
      BY <3>3
    <3>5. rows[i] = CreateRow(m)
      OBVIOUS
    <3> HIDE DEF m
    <3> QED
      BY <1>2, <3>4, <3>5 DEF ToSet
  <2>3. ASSUME NEW i \in ids
        PROVE  /\ DOMAIN rows[i] \subseteq Columns[t] /\ Store!ValidRow(t, i, rows[i])
               /\ \E k \in DOMAIN b.muts : /\ "version" \in DOMAIN p.muts[k].set
                                           /\ "version" \in DOMAIN rows[i]
                                           /\ rows[i]["version"] = p.muts[k].set["version"]
    <3>1. PICK k \in DOMAIN b.muts : p.muts[k].id = <<i>> /\ rows[i] = CreateRow(p.muts[k])
      BY <2>2
    <3>2. /\ IsMutation(p.muts[k]) /\ p.muts[k].op = "Create" /\ p.muts[k].type = t
          /\ CheckCreate(p.muts[k])
      BY <1>2 DEF Checks
    <3>3. /\ DOMAIN rows[i] \subseteq Columns[t] /\ Store!ValidRow(t, i, rows[i])
          /\ rows[i]["version"] = p.muts[k].set["version"] /\ "version" \in DOMAIN p.muts[k].set
      <4> HIDE DEF rows, t
      <4> QED
        BY <3>1, <3>2, CreateRowAt
    <3>4. "version" \in DOMAIN rows[i]
      BY <1>2, <3>3, ColumnFacts DEF Store!ValidRow
    <3> QED
      BY <3>3, <3>4
  <2>4. DOMAIN rows = ids
    OBVIOUS
  <2> DEFINE nodes == {rows[i] ++ Zero[t] : i \in ids}
  <2>5. Cardinality(nodes) \in Nat
    <3> DEFINE f == [i \in ids |-> rows[i] ++ Zero[t]]
    <3>1. nodes = {f[i] : i \in ids} /\ DOMAIN f = ids
      OBVIOUS
    <3> HIDE DEF f, nodes, ids
    <3> QED
      BY <2>1, <3>1, ImageFinite
  <2>6. Nodes(nodes).err \in Errors /\ Nodes(nodes).n \in Nat
    <3> HIDE DEF nodes
    <3> QED
      BY <2>5 DEF Nodes, Errors
  <2> HIDE DEF rows, nodes, ids
  <2>7. ids \cap DOMAIN View(n, t) = {} /\ ~ BreaksUnique(t, View(n, t), rows)
    BY <1>5
  <2>8. Stated(n, t, rows, {})
    BY <1>2, <1>5, <2>1, <2>3, <2>4, <2>7 DEF Stated
  <2>9. ASSUME \A j \in DOMAIN b.muts : VersionHeld(b.muts[j])
        PROVE  Climbs(View(n, t), t, rows, << >>)
    <3>1. \A j \in DOMAIN b.muts : VersionHeld(p.muts[j])
      <4> TAKE j \in DOMAIN b.muts
      <4>1. Heir(p.muts[j], b.muts[j]) /\ VersionHeld(b.muts[j]) /\ b.muts[j].type \in Types
        BY <1>2, <2>9 DEF IsBuilder, IsMutation
      <4> QED
        BY <4>1, HeirsHold
    <3>2. t \in Guarded => Numbered(rows)
      BY <1>2, <2>3, <2>4, <3>1 DEF VersionHeld, Numbered
    <3> QED
      BY <2>4, <2>7, <3>2 DEF Climbs
  <2>10. \E u, rs, gone, wins :
           /\ Stated(n, u, rs, gone) /\ Written(n, u, rs, gone, wins)
           /\ (\A j \in DOMAIN b.muts : VersionHeld(b.muts[j])) => Climbs(View(n, u), u, rs, wins)
    <3> HIDE DEF n, t
    <3> QED
      BY <1>5, <2>8, <2>9
  <2>11. Done(p.muts) \in {Prepared(builder[w]).muts, Done(Prepared(builder[w]).muts)}
    BY DEF p
  <2>12. Answered(w, Done(p.muts), Nodes(nodes))
    BY <1>5 DEF nodes, ids, rows
  <2> QED
    BY <1>2, <2>6, <2>10, <2>11, <2>12, Ends
<1> QED
  BY <1>3, <1>4, <1>5

\* An update that fails.
LEMMA UpdateFails ==
  ASSUME TypeInv, NEW w \in Workers, builder[w].saves < MaxSaves,
         1 \in DOMAIN builder[w].muts, NEW e \in {"constraint", "notfound"}, NEW muts,
         muts = Prepared(builder[w]).muts, Answered(w, muts, Nothing(e)),
         Failed(builder[w].tx) \/ UNCHANGED <<tables, tx, won>>
  PROVE  SaveDoes(w)
<1>1. Nothing(e).err \in Errors /\ Nothing(e).n \in Nat
  BY DEF Nothing, Errors
<1> QED
  BY <1>1, Ends

\* A predicate of the version selects the rows of that version.
LEMMA MatchingVersion ==
  ASSUME NEW rows, NEW where, NEW v, NEW k \in DOMAIN where, ~ where[k].not,
         where[k].any = <<[col |-> "version", op |-> "EQ", args |-> <<v>>]>>,
         NEW i \in Matching(rows, where)
  PROVE  i \in DOMAIN rows /\ "version" \in DOMAIN rows[i] /\ rows[i]["version"] = v
<1> DEFINE a == [col |-> "version", op |-> "EQ", args |-> <<v>>]
<1>1. i \in DOMAIN rows /\ PredicateTrue(where[k], rows[i])
  BY DEF Matching
<1>2. where[k].any = <<a>> /\ DOMAIN where[k].any = {1} /\ where[k].any[1] = a
  OBVIOUS
<1>3. AtomTrue(a, rows[i])
  BY <1>1, <1>2 DEF PredicateTrue
<1>4. a.col = "version" /\ a.op = "EQ" /\ a.args = <<v>>
  OBVIOUS
<1> HIDE DEF a
<1>5. "version" \in DOMAIN rows[i] /\ Compare("EQ", rows[i]["version"], <<v>>)
  BY <1>3, <1>4 DEF AtomTrue
<1>6. rows[i]["version"] = v
  BY <1>5 DEF Compare
<1> QED
  BY <1>1, <1>5, <1>6

\* A save of an update that writes no column.
LEMMA SaveNothingDoes ==
  ASSUME TypeInv, NEW w \in Workers, SaveNothing(w, Prepared(builder[w]))
  PROVE  SaveDoes(w)
<1> DEFINE p == Prepared(builder[w])
<1>1. /\ builder[w].saves < MaxSaves /\ builder[w].muts # <<>>
      /\ Answered(w, Done(p.muts), Affected(0)) /\ UNCHANGED <<tables, tx, won>>
  BY DEF SaveNothing, Saving
<1>2. 1 \in DOMAIN builder[w].muts
  BY <1>1 DEF TypeInv, BuildersShape, IsBuilder
<1>3. Affected(0).err \in Errors /\ Affected(0).n \in Nat
  BY DEF Affected, Errors
<1> QED
  BY <1>1, <1>2, <1>3, Ends

\* A save of an update on a condition.
LEMMA SaveUpdateDoes ==
  ASSUME TypeInv, NEW w \in Workers, SaveUpdate(w, Prepared(builder[w]))
  PROVE  SaveDoes(w)
<1> DEFINE b == builder[w]
<1> DEFINE p == Prepared(b)
<1> DEFINE n == b.tx
<1> DEFINE m == p.muts[1]
<1> DEFINE t == m.type
<1> DEFINE view == View(n, t)
<1> DEFINE rows == [i \in Matching(view, m.where) |-> UpdateRow(m, view[i])]
<1>1. Saving(w, "Update") /\ p.stop = "no" /\ "Update" \in Ops
  BY DEF SaveUpdate, Ops
<1>2. /\ IsBuilder(b) /\ 1 \in DOMAIN b.muts /\ b.saves < MaxSaves
      /\ ~ Closed(b.tx) /\ (InTx(b.tx) => ~ tx.aborted)
      /\ t \in Types
      /\ Heir(m, b.muts[1]) /\ IsMutation(m) /\ m.op = "Update" /\ Checks(m, b.fields)
  <2> HIDE DEF b
  <2> QED
    BY <1>1, SavingFacts DEF b
<1>3. /\ ~ Waits(n, t, rows, {})
      /\ \/ Failed(n) /\ Answered(w, p.muts, Nothing("constraint"))
         \/ /\ ~ BreaksUnique(t, view, rows)
            /\ Written(n, t, rows, {}, Wins(m, rows))
            /\ Answered(w, Done(p.muts), Affected(Cardinality(DOMAIN rows)))
  BY DEF SaveUpdate
<1> HIDE DEF m, p
<1>4. CASE Failed(n) /\ Answered(w, p.muts, Nothing("constraint"))
  <2> HIDE DEF b
  <2> QED
    BY <1>2, <1>4, UpdateFails DEF b, p
<1>5. CASE /\ ~ BreaksUnique(t, view, rows)
           /\ Written(n, t, rows, {}, Wins(m, rows))
           /\ Answered(w, Done(p.muts), Affected(Cardinality(DOMAIN rows)))
  <2>1. DOMAIN rows = Matching(view, m.where) /\ DOMAIN rows \subseteq DOMAIN view
    BY DEF Matching
  <2>2. IsFiniteSet(DOMAIN view) /\ \A i \in DOMAIN view : DOMAIN view[i] \subseteq Columns[t]
    BY <1>2, ViewShape DEF TypeInv
  <2>3. IsFiniteSet(DOMAIN rows) /\ Cardinality(DOMAIN rows) \in Nat
    <3>1. IsFiniteSet(DOMAIN rows)
      BY <2>1, <2>2, FS_Subset
    <3> QED
      BY <3>1, FS_CardinalityType
  <2>4. CheckUpdate(m)
    BY <1>2 DEF Checks
  <2>5. \A i \in DOMAIN rows : rows[i] = UpdateRow(m, view[i])
    OBVIOUS
  <2> HIDE DEF rows, view
  <2>6. ASSUME NEW i \in DOMAIN rows
        PROVE  /\ DOMAIN rows[i] \subseteq Columns[t] /\ Revised(t, i, view[i], rows[i])
               /\ "version" \notin DOMAIN m.add =>
                    /\ "version" \in DOMAIN m.set => rows[i]["version"] = m.set["version"]
                    /\ "version" \in DOMAIN view[i] /\ "version" \notin DOMAIN m.set
                         => rows[i]["version"] = view[i]["version"]
    <3>1. DOMAIN view[i] \subseteq Columns[m.type] /\ rows[i] = UpdateRow(m, view[i])
      BY <2>1, <2>2, <2>5
    <3> DEFINE old == view[i]
    <3> HIDE DEF old
    <3>2. LET r == UpdateRow(m, old)
          IN  /\ DOMAIN r \subseteq Columns[m.type] /\ Revised(m.type, i, old, r)
              /\ "version" \notin DOMAIN m.add =>
                   /\ "version" \in DOMAIN m.set => r["version"] = m.set["version"]
                   /\ "version" \in DOMAIN old /\ "version" \notin DOMAIN m.set
                        => r["version"] = old["version"]
      BY <1>2, <2>4, <3>1, UpdateRowAt DEF old
    <3> QED
      BY <3>1, <3>2 DEF old
  <2>7. Stated(n, t, rows, {})
    BY <1>2, <1>3, <1>5, <2>1, <2>3, <2>6 DEF Stated, view
  <2>8. /\ \A x \in DOMAIN Wins(m, rows) :
             /\ Wins(m, rows)[x] = 1 /\ m.where # <<>> /\ "version" \in DOMAIN m.set
             /\ \E i \in DOMAIN rows : x = <<t, i, m.set["version"]>>
    BY DEF Wins
  <2>9. ASSUME \A j \in DOMAIN b.muts : VersionHeld(b.muts[j])
        PROVE  Climbs(View(n, t), t, rows, Wins(m, rows))
    <3>1. VersionHeld(m)
      <4>1. VersionHeld(b.muts[1]) /\ b.muts[1].type \in Types
        BY <1>2, <2>9 DEF IsBuilder, IsMutation
      <4> QED
        BY <1>2, <4>1, HeirsHold
    <3>2. t \notin Guarded => DOMAIN Wins(m, rows) = {}
      BY <1>2, <2>8, <3>1 DEF VersionHeld
    <3>3. ASSUME t \in Guarded, Numbered(view)
          PROVE  /\ Numbered(rows)
                 /\ \A i \in DOMAIN rows \cap DOMAIN view : view[i]["version"] <= rows[i]["version"]
                 /\ \A x \in DOMAIN Wins(m, rows) :
                      /\ x = <<t, x[2], x[3]>> /\ x[2] \in DOMAIN rows \cap DOMAIN view
                      /\ x[3] = rows[x[2]]["version"] /\ x[3] = view[x[2]]["version"] + 1
      <4>1. "version" \notin DOMAIN m.add
        BY <1>2, <3>1, <3>3 DEF VersionHeld
      <4>2. ASSUME "version" \in DOMAIN m.set, NEW i \in DOMAIN rows
            PROVE  /\ m.set["version"] \in Int /\ rows[i]["version"] = m.set["version"]
                   /\ view[i]["version"] = m.set["version"] - 1
        <5>1. /\ m.set["version"] \in Int
              /\ \E k \in DOMAIN m.where :
                   /\ ~ m.where[k].not
                   /\ m.where[k].any = <<[col |-> "version", op |-> "EQ",
                                          args |-> <<m.set["version"] - 1>>]>>
          BY <1>2, <3>1, <3>3, <4>2 DEF VersionHeld
        <5>2. view[i]["version"] = m.set["version"] - 1
          BY <2>1, <5>1, MatchingVersion
        <5> QED
          BY <2>6, <4>1, <4>2, <5>1, <5>2
      <4>3. \A i \in DOMAIN rows : /\ i \in DOMAIN view /\ "version" \in DOMAIN rows[i]
                                   /\ rows[i]["version"] \in Int
                                   /\ view[i]["version"] <= rows[i]["version"]
        <5> TAKE i \in DOMAIN rows
        <5>1. i \in DOMAIN view /\ "version" \in DOMAIN view[i] /\ view[i]["version"] \in Int
          BY <2>1, <3>3 DEF Numbered
        <5>2. "version" \in DOMAIN rows[i]
          <6>1. rows[i] = UpdateRow(m, view[i]) /\ m.cleared \subseteq Nullable[t]
            BY <1>2, <2>5 DEF IsMutation
          <6>2. "version" \notin Nullable[t]
            BY <1>2, ColumnFacts
          <6> QED
            BY <5>1, <6>1, <6>2 DEF UpdateRow, AddFields, WriteFields, ++, Without, Restrict
        <5>3. CASE "version" \in DOMAIN m.set
          BY <4>2, <5>1, <5>2, <5>3
        <5>4. CASE "version" \notin DOMAIN m.set
          BY <2>6, <4>1, <5>1, <5>2, <5>4
        <5> QED
          BY <5>3, <5>4
      <4>4. ASSUME NEW x \in DOMAIN Wins(m, rows)
            PROVE  /\ x = <<t, x[2], x[3]>> /\ x[2] \in DOMAIN rows \cap DOMAIN view
                   /\ x[3] = rows[x[2]]["version"] /\ x[3] = view[x[2]]["version"] + 1
        <5>1. PICK i \in DOMAIN rows : x = <<t, i, m.set["version"]>>
          BY <2>8
        <5>2. "version" \in DOMAIN m.set
          BY <2>8
        <5>3. x[2] = i /\ x[3] = m.set["version"] /\ x = <<t, x[2], x[3]>>
          BY <5>1
        <5> QED
          BY <4>2, <4>3, <5>2, <5>3
      <4> QED
        BY <4>3, <4>4 DEF Numbered
    <3> QED
      BY <2>8, <3>2, <3>3 DEF Climbs, view
  <2>10. \E u, rs, gone, wins :
           /\ Stated(n, u, rs, gone) /\ Written(n, u, rs, gone, wins)
           /\ (\A j \in DOMAIN b.muts : VersionHeld(b.muts[j])) => Climbs(View(n, u), u, rs, wins)
    <3> HIDE DEF n, t
    <3> QED
      BY <1>5, <2>7, <2>9
  <2>11. /\ Affected(Cardinality(DOMAIN rows)).err \in Errors
         /\ Affected(Cardinality(DOMAIN rows)).n \in Nat
    BY <2>3 DEF Affected, Errors
  <2>12. Done(p.muts) \in {Prepared(builder[w]).muts, Done(Prepared(builder[w]).muts)}
    BY DEF p
  <2> QED
    BY <1>2, <1>5, <2>10, <2>11, <2>12, Ends
<1> QED
  BY <1>3, <1>4, <1>5

\* A save of an update of one row.
LEMMA SaveUpdateOneDoes ==
  ASSUME TypeInv, NEW w \in Workers, SaveUpdateOne(w, Prepared(builder[w]))
  PROVE  SaveDoes(w)
<1> DEFINE b == builder[w]
<1> DEFINE p == Prepared(b)
<1> DEFINE n == b.tx
<1> DEFINE m == p.muts[1]
<1> DEFINE t == m.type
<1> DEFINE view == View(n, t)
<1> DEFINE id == m.id[1]
<1> DEFINE row == UpdateRow(m, view[id])
<1> DEFINE rows == IF Blank(m) THEN << >> ELSE One(id, row)
<1> DEFINE cols == IF b.fields = <<>> THEN Columns[t] ELSE ToSet(b.fields)
<1> DEFINE nodes == {AssignValues(t, row, cols)}
<1>1. Saving(w, "UpdateOne") /\ p.stop = "no" /\ "UpdateOne" \in Ops
  BY DEF SaveUpdateOne, Ops
<1>2. /\ IsBuilder(b) /\ 1 \in DOMAIN b.muts /\ b.saves < MaxSaves
      /\ ~ Closed(b.tx) /\ (InTx(b.tx) => ~ tx.aborted)
      /\ t \in Types
      /\ Heir(m, b.muts[1]) /\ IsMutation(m) /\ m.op = "UpdateOne" /\ Checks(m, b.fields)
  <2> HIDE DEF b
  <2> QED
    BY <1>1, SavingFacts DEF b
<1>3. \/ UNCHANGED <<tables, tx, won>> /\ Answered(w, p.muts, Nothing("notfound"))
      \/ Failed(n) /\ Answered(w, p.muts, Nothing("constraint"))
      \/ /\ id \in DOMAIN view
         /\ ~ Waits(n, t, rows, {})
         /\ ~ BreaksUnique(t, view, rows)
         /\ Written(n, t, rows, {}, << >>)
         /\ Answered(w, Done(p.muts), Nodes(nodes))
  BY DEF SaveUpdateOne
<1> HIDE DEF m, p
<1>4. CASE \/ UNCHANGED <<tables, tx, won>> /\ Answered(w, p.muts, Nothing("notfound"))
           \/ Failed(n) /\ Answered(w, p.muts, Nothing("constraint"))
  <2> HIDE DEF b
  <2> QED
    BY <1>2, <1>4, UpdateFails DEF b, p
<1>5. CASE /\ id \in DOMAIN view
           /\ ~ Waits(n, t, rows, {})
           /\ ~ BreaksUnique(t, view, rows)
           /\ Written(n, t, rows, {}, << >>)
           /\ Answered(w, Done(p.muts), Nodes(nodes))
  <2>1. DOMAIN rows \subseteq {id} /\ \A i \in DOMAIN rows : i = id /\ rows[i] = row
    BY DEF One
  <2>2. IsFiniteSet(DOMAIN rows)
    <3>1. DOMAIN rows = {} \/ DOMAIN rows = {id}
      BY DEF One
    <3> HIDE DEF rows, id
    <3> QED
      BY <3>1, FS_EmptySet, FS_Singleton
  <2>3. \A i \in DOMAIN view : DOMAIN view[i] \subseteq Columns[t]
    BY <1>2, ViewShape DEF TypeInv
  <2>4. CheckUpdate(m)
    BY <1>2 DEF Checks
  <2>5. /\ DOMAIN row \subseteq Columns[t] /\ Revised(t, id, view[id], row)
        /\ "version" \notin DOMAIN m.add =>
             /\ "version" \in DOMAIN m.set => row["version"] = m.set["version"]
             /\ "version" \in DOMAIN view[id] /\ "version" \notin DOMAIN m.set
                  => row["version"] = view[id]["version"]
    <3>1. DOMAIN view[id] \subseteq Columns[m.type]
      BY <1>5, <2>3
    <3> DEFINE old == view[id]
    <3> HIDE DEF old, id
    <3>2. LET r == UpdateRow(m, old)
          IN  /\ DOMAIN r \subseteq Columns[m.type] /\ Revised(m.type, id, old, r)
              /\ "version" \notin DOMAIN m.add =>
                   /\ "version" \in DOMAIN m.set => r["version"] = m.set["version"]
                   /\ "version" \in DOMAIN old /\ "version" \notin DOMAIN m.set
                        => r["version"] = old["version"]
      BY <1>2, <2>4, <3>1, UpdateRowAt DEF old
    <3> QED
      BY <3>2 DEF old
  <2>6. Stated(n, t, rows, {})
    <3> HIDE DEF rows, row, view, id
    <3> QED
      BY <1>2, <1>5, <2>1, <2>2, <2>5 DEF Stated, view
  <2>7. ASSUME \A j \in DOMAIN b.muts : VersionHeld(b.muts[j])
        PROVE  Climbs(View(n, t), t, rows, << >>)
    <3>1. VersionHeld(m)
      <4>1. VersionHeld(b.muts[1]) /\ b.muts[1].type \in Types
        BY <1>2, <2>7 DEF IsBuilder, IsMutation
      <4> QED
        BY <1>2, <4>1, HeirsHold
    <3>2. ASSUME t \in Guarded, Numbered(view)
          PROVE  /\ "version" \in DOMAIN row /\ row["version"] \in Int
                 /\ view[id]["version"] <= row["version"]
      <4>1. "version" \notin DOMAIN m.set \cup DOMAIN m.add
        BY <1>2, <3>1, <3>2 DEF VersionHeld
      <4>2. "version" \in DOMAIN view[id] /\ view[id]["version"] \in Int
        BY <1>5, <3>2 DEF Numbered
      <4>3. "version" \in DOMAIN row
        <5>1. m.cleared \subseteq Nullable[t]
          BY <1>2 DEF IsMutation
        <5>2. "version" \notin Nullable[t]
          BY <1>2, ColumnFacts
        <5> QED
          BY <4>2, <5>1, <5>2 DEF UpdateRow, AddFields, WriteFields, ++, Without, Restrict
      <4> HIDE DEF row, view, id
      <4> QED
        BY <2>5, <4>1, <4>2, <4>3
    <3> HIDE DEF row, rows, id
    <3> QED
      BY <2>1, <3>2 DEF Climbs, Numbered
  <2>8. \E u, rs, gone, wins :
           /\ Stated(n, u, rs, gone) /\ Written(n, u, rs, gone, wins)
           /\ (\A j \in DOMAIN b.muts : VersionHeld(b.muts[j])) => Climbs(View(n, u), u, rs, wins)
    <3> HIDE DEF n, t, rows
    <3> QED
      BY <1>5, <2>6, <2>7
  <2>9. Nodes(nodes).err \in Errors /\ Nodes(nodes).n \in Nat
    <3>1. Cardinality(nodes) = 1
      BY FS_Singleton
    <3> HIDE DEF nodes
    <3> QED
      BY <3>1 DEF Nodes, Errors
  <2>10. Done(p.muts) \in {Prepared(builder[w]).muts, Done(Prepared(builder[w]).muts)}
    BY DEF p
  <2> HIDE DEF nodes, rows
  <2> QED
    BY <1>2, <1>5, <2>8, <2>9, <2>10, Ends
<1> QED
  BY <1>3, <1>4, <1>5

\* A delete.
LEMMA ExecDeleteDoes ==
  ASSUME TypeInv, NEW w \in Workers, NEW op \in {"Delete", "DeleteOne"},
         ExecDelete(w, op, Prepared(builder[w]))
  PROVE  SaveDoes(w)
<1> DEFINE b == builder[w]
<1> DEFINE p == Prepared(b)
<1> DEFINE n == b.tx
<1> DEFINE m == p.muts[1]
<1> DEFINE t == m.type
<1> DEFINE view == View(n, t)
<1> DEFINE gone == {i \in Matching(view, m.where) : m.id \in {<<>>, <<i>>}}
<1> DEFINE ans == IF op = "DeleteOne" /\ gone = {} THEN Nothing("notfound")
                  ELSE Affected(Cardinality(gone))
<1>1. Saving(w, op) /\ p.stop = "no" /\ op \in Ops
  BY DEF ExecDelete, Ops
<1>2. /\ IsBuilder(b) /\ 1 \in DOMAIN b.muts /\ b.saves < MaxSaves
      /\ ~ Closed(b.tx) /\ (InTx(b.tx) => ~ tx.aborted)
      /\ t \in Types
  <2> HIDE DEF b
  <2> QED
    BY <1>1, SavingFacts DEF b
<1>3. /\ ~ Waits(n, t, << >>, gone)
      /\ Written(n, t, << >>, gone, << >>)
      /\ Answered(w, Done(p.muts), ans)
  BY DEF ExecDelete
<1> HIDE DEF m, p
<1>4. gone \subseteq DOMAIN view
  BY DEF Matching
<1>5. IsFiniteSet(DOMAIN view)
  BY <1>2, ViewShape DEF TypeInv
<1>6. Cardinality(gone) \in Nat
  <2> HIDE DEF gone
  <2>1. IsFiniteSet(gone)
    BY <1>4, <1>5, FS_Subset
  <2> QED
    BY <2>1, FS_CardinalityType
<1>7. ans.err \in Errors /\ ans.n \in Nat
  BY <1>6 DEF Nothing, Affected, Errors
<1> HIDE DEF gone, ans
<1>8. Stated(n, t, << >>, gone)
  <2>1. IsFiniteSet({}) /\ DOMAIN << >> = {}
    BY FS_EmptySet
  <2>2. ~ BreaksUnique(t, view, << >>)
    BY <2>1 DEF BreaksUnique
  <2> QED
    BY <1>2, <1>3, <1>4, <2>1, <2>2 DEF Stated
<1>9. Climbs(view, t, << >>, << >>)
  BY DEF Climbs, Numbered
<1>10. \E u, rs, gs, wins :
         /\ Stated(n, u, rs, gs) /\ Written(n, u, rs, gs, wins)
         /\ (\A j \in DOMAIN b.muts : VersionHeld(b.muts[j])) => Climbs(View(n, u), u, rs, wins)
  <2> HIDE DEF n, t
  <2> QED
    BY <1>3, <1>8, <1>9 DEF view
<1>11. Done(p.muts) \in {Prepared(builder[w]).muts, Done(Prepared(builder[w]).muts)}
  BY DEF p
<1> QED
  BY <1>2, <1>3, <1>7, <1>10, <1>11, Ends

\* Every save.
LEMMA SavesDo ==
  ASSUME TypeInv, NEW w \in Workers, Save(w)
  PROVE  SaveDoes(w)
<1> DEFINE p == Prepared(builder[w])
<1>1. \/ \E op \in Ops : SaveRefused(w, op, p)
      \/ SaveCreate(w, p)
      \/ SaveNothing(w, p)
      \/ SaveUpdate(w, p)
      \/ SaveUpdateOne(w, p)
      \/ \E op \in {"Delete", "DeleteOne"} : ExecDelete(w, op, p)
  BY DEF Save
<1>2. CASE \E op \in Ops : SaveRefused(w, op, p)
  BY <1>2, SaveRefusedDoes
<1>3. CASE SaveCreate(w, p)
  BY <1>3, SaveCreateDoes
<1>4. CASE SaveUpdate(w, p)
  BY <1>4, SaveUpdateDoes
<1>5. CASE SaveUpdateOne(w, p)
  BY <1>5, SaveUpdateOneDoes
<1>6. CASE \E op \in {"Delete", "DeleteOne"} : ExecDelete(w, op, p)
  BY <1>6, ExecDeleteDoes
<1>7. CASE SaveNothing(w, p)
  BY <1>7, SaveNothingDoes
<1> QED
  BY <1>1, <1>2, <1>3, <1>4, <1>5, <1>6, <1>7

-----------------------------------------------------------------------------
(* Types.                                                                  *)

\* A statement keeps the shape of the tables and of the transaction.
LEMMA StatementShape ==
  ASSUME TablesShape, TxShape, NEW n, NEW t, NEW rows, NEW gone, NEW wins,
         Stated(n, t, rows, gone), Written(n, t, rows, gone, wins)
  PROVE  TablesShape' /\ TxShape'
<1>1. /\ t \in Types /\ IsFiniteSet(DOMAIN rows)
      /\ \A i \in DOMAIN rows : DOMAIN rows[i] \subseteq Columns[t]
  BY DEF Stated
<1>2. ASSUME NEW table, IsFiniteSet(DOMAIN table),
             \A i \in DOMAIN table : DOMAIN table[i] \subseteq Columns[t]
      PROVE  /\ IsFiniteSet(DOMAIN Put(table, rows, gone))
             /\ \A i \in DOMAIN Put(table, rows, gone) :
                  DOMAIN Put(table, rows, gone)[i] \subseteq Columns[t]
  <2> DEFINE new == Put(table, rows, gone)
  <2>1. /\ DOMAIN new = DOMAIN rows \cup (DOMAIN table \ gone)
        /\ \A i \in DOMAIN rows : new[i] = rows[i]
        /\ \A i \in DOMAIN table \ gone : i \notin DOMAIN rows => new[i] = table[i]
    BY DEF Put, ++, Without, Restrict
  <2> HIDE DEF new
  <2>2. IsFiniteSet(DOMAIN table \ gone)
    BY <1>2, FS_Difference
  <2>3. IsFiniteSet(DOMAIN new)
    BY <1>1, <2>1, <2>2, FS_Union
  <2> QED
    BY <1>1, <1>2, <2>1, <2>3 DEF new
<1>3. CASE InTx(n)
  <2>1. /\ DOMAIN tx' = TxFields /\ UNCHANGED tables
        /\ tx'.by = tx.by /\ tx'.aborted = tx.aborted
        /\ DOMAIN tx'.rows = Types /\ DOMAIN tx'.touched = Types /\ DOMAIN tx'.deleted = Types
        /\ tx'.rows[t] = Put(tx.rows[t], rows, gone)
        /\ tx'.touched[t] = tx.touched[t] \cup DOMAIN rows \cup gone
        /\ tx'.deleted[t] = tx.deleted[t] \cup gone
        /\ \A u \in Types : u # t => /\ tx'.rows[u] = tx.rows[u]
                                     /\ tx'.touched[u] = tx.touched[u]
                                     /\ tx'.deleted[u] = tx.deleted[u]
    BY <1>1, <1>3, WrittenTx
  <2>2. /\ IsFiniteSet(DOMAIN tx'.rows[t])
        /\ \A i \in DOMAIN tx'.rows[t] : DOMAIN tx'.rows[t][i] \subseteq Columns[t]
    BY <1>1, <1>2, <2>1 DEF TxShape
  <2>3. /\ DOMAIN tx'.rows[t] \subseteq tx'.touched[t]
        /\ tx'.touched[t] \subseteq DOMAIN tx'.rows[t] \cup tx'.deleted[t]
        /\ tx'.deleted[t] \subseteq tx'.touched[t]
    <3>1. DOMAIN tx'.rows[t] = DOMAIN rows \cup (DOMAIN tx.rows[t] \ gone)
      BY <2>1 DEF Put, ++, Without, Restrict
    <3> QED
      BY <1>1, <2>1, <3>1 DEF TxShape
  <2>4. TxShape'
    <3>1. ASSUME NEW u \in Types
          PROVE  /\ IsFiniteSet(DOMAIN tx'.rows[u])
                 /\ \A i \in DOMAIN tx'.rows[u] : DOMAIN tx'.rows[u][i] \subseteq Columns[u]
                 /\ DOMAIN tx'.rows[u] \subseteq tx'.touched[u]
                 /\ tx'.touched[u] \subseteq DOMAIN tx'.rows[u] \cup tx'.deleted[u]
                 /\ tx'.deleted[u] \subseteq tx'.touched[u]
      <4>1. CASE u = t
        BY <2>2, <2>3, <4>1
      <4>2. CASE u # t
        BY <2>1, <4>2 DEF TxShape
      <4> QED
        BY <4>1, <4>2
    <3>2. tx.by \in Workers \cup {"nobody"} /\ tx.aborted \in BOOLEAN
      BY DEF TxShape
    <3> QED
      BY <2>1, <3>1, <3>2 DEF TxShape
  <2>5. TablesShape'
    BY <2>1 DEF TablesShape
  <2> QED
    BY <2>4, <2>5
<1>4. CASE ~ InTx(n)
  <2>1. /\ DOMAIN tables' = Types /\ UNCHANGED tx
        /\ tables'[t] = Put(tables[t], rows, gone)
        /\ \A u \in Types : u # t => tables'[u] = tables[u]
    BY <1>1, <1>4, WrittenPlain
  <2>2. /\ IsFiniteSet(DOMAIN tables'[t])
        /\ \A i \in DOMAIN tables'[t] : DOMAIN tables'[t][i] \subseteq Columns[t]
    BY <1>1, <1>2, <2>1 DEF TablesShape
  <2>3. TablesShape'
    <3> SUFFICES ASSUME NEW u \in Types
                 PROVE  /\ IsFiniteSet(DOMAIN tables'[u])
                        /\ \A i \in DOMAIN tables'[u] : DOMAIN tables'[u][i] \subseteq Columns[u]
      BY <2>1 DEF TablesShape
    <3>1. CASE u = t
      BY <2>2, <3>1
    <3>2. CASE u # t
      BY <2>1, <3>2 DEF TablesShape
    <3> QED
      BY <3>1, <3>2
  <2>4. TxShape'
    BY <2>1 DEF TxShape
  <2> QED
    BY <2>3, <2>4
<1> QED
  BY <1>3, <1>4

\* A failed statement changes one flag.
LEMMA FailedShape ==
  ASSUME TablesShape, TxShape, NEW n, Failed(n)
  PROVE  /\ TablesShape' /\ TxShape' /\ UNCHANGED <<tables, won>>
         /\ tx'.by = tx.by /\ tx'.client = tx.client /\ tx'.rows = tx.rows
         /\ tx'.touched = tx.touched /\ tx'.deleted = tx.deleted /\ tx'.won = tx.won
         /\ tx'.aborted = (tx.aborted \/ InTx(n))
<1>1. /\ tx' = [tx EXCEPT !.aborted = tx.aborted \/ InTx(n)] /\ UNCHANGED <<tables, won>>
  BY DEF Failed
<1>2. (tx.aborted \/ InTx(n)) \in BOOLEAN
  OBVIOUS
<1>3. /\ DOMAIN tx' = DOMAIN tx /\ tx'.by = tx.by /\ tx'.client = tx.client
      /\ tx'.rows = tx.rows /\ tx'.touched = tx.touched /\ tx'.deleted = tx.deleted
      /\ tx'.won = tx.won /\ tx'.aborted = (tx.aborted \/ InTx(n))
  BY <1>1 DEF TxShape, TxFields
<1>4. TxShape'
  BY <1>2, <1>3 DEF TxShape
<1>5. TablesShape'
  BY <1>1 DEF TablesShape
<1> QED
  BY <1>1, <1>3, <1>4, <1>5

\* What a save leaves of the builders.
LEMMA AnsweredAt ==
  ASSUME BuildersShape, NEW w \in Workers, NEW muts, NEW ans, Answered(w, muts, ans)
  PROVE  /\ DOMAIN builder' = Workers /\ DOMAIN builder'[w] = DOMAIN builder[w]
         /\ builder'[w].muts = muts /\ builder'[w].saves = builder[w].saves + 1
         /\ builder'[w].tx = builder[w].tx /\ builder'[w].fields = builder[w].fields
         /\ \A v \in Workers : v # w => builder'[v] = builder[v]
<1> DEFINE b == [builder[w] EXCEPT !.muts = muts, !.saves = builder[w].saves + 1]
<1>1. builder' = [builder EXCEPT ![w] = b]
  BY DEF Answered, BuildersShape
<1>2. /\ DOMAIN b = DOMAIN builder[w] /\ b.muts = muts /\ b.saves = builder[w].saves + 1
      /\ b.tx = builder[w].tx /\ b.fields = builder[w].fields
  BY DEF BuildersShape, IsBuilder
<1> HIDE DEF b
<1> QED
  BY <1>1, <1>2 DEF BuildersShape

\* A save keeps the type invariant.
LEMMA SaveShape ==
  ASSUME TypeInv, NEW w \in Workers, SaveDoes(w)
  PROVE  TypeInv'
<1> DEFINE b == builder[w]
<1>1. PICK muts, ans :
        /\ Answered(w, muts, ans) /\ ans.err \in Errors /\ ans.n \in Nat
        /\ DOMAIN muts = DOMAIN b.muts
        /\ \A j \in DOMAIN b.muts : Heir(muts[j], b.muts[j])
  BY DEF SaveDoes
<1>2. b.saves < MaxSaves /\ 1 \in DOMAIN b.muts
  BY DEF SaveDoes
<1>3. IsBuilder(b)
  BY DEF TypeInv, BuildersShape
<1>4. /\ DOMAIN builder' = Workers /\ DOMAIN builder'[w] = DOMAIN b
      /\ builder'[w].muts = muts /\ builder'[w].saves = b.saves + 1
      /\ builder'[w].tx = b.tx
      /\ \A v \in Workers : v # w => builder'[v] = builder[v]
  BY <1>1, AnsweredAt DEF TypeInv
<1>5. IsBuilder(builder'[w])
  <2>1. b.saves + 1 \in 0 .. MaxSaves
    BY <1>2, <1>3, BoundsAssumption DEF IsBuilder
  <2>2. \A j \in DOMAIN muts : /\ IsMutation(muts[j])
                               /\ muts[j].type = muts[1].type /\ muts[j].op = muts[1].op
    BY <1>1, <1>2, <1>3 DEF IsBuilder, Heir
  <2> HIDE DEF b
  <2> QED
    BY <1>1, <1>2, <1>3, <1>4, <2>1, <2>2 DEF IsBuilder
<1>6. BuildersShape'
  BY <1>4, <1>5 DEF TypeInv, BuildersShape
<1>7. AnswerShape' /\ CountersShape'
  BY <1>1 DEF Answered, AnswerShape, CountersShape, TypeInv
<1>8. TablesShape' /\ TxShape'
  <2>1. CASE UNCHANGED <<tables, tx, won>>
    BY <2>1 DEF TypeInv, TablesShape, TxShape
  <2>2. CASE Failed(b.tx)
    BY <2>2, FailedShape DEF TypeInv
  <2>3. CASE \E t, rows, gone, wins :
               Stated(b.tx, t, rows, gone) /\ Written(b.tx, t, rows, gone, wins)
    BY <2>3, StatementShape DEF TypeInv
  <2> QED
    BY <2>1, <2>2, <2>3 DEF SaveDoes
<1> QED
  BY <1>6, <1>7, <1>8 DEF TypeInv

\* A query's answer is one there is, whichever rows LIMIT and OFFSET pick.
LEMMA AskShape ==
  ASSUME TypeInv, NEW w \in Workers, NEW i \in DOMAIN Questions, NEW n \in {0, begun},
         Ask(w, Questions[i], n)
  PROVE  AnswerShape'
<1> DEFINE q == Questions[i]
<1> DEFINE view == View(n, q.type)
<1> DEFINE cols == IF q.fields = <<>> THEN Columns[q.type] ELSE ToSet(q.fields)
<1>1. q.type \in Types
  BY QuestionAssumption
<1>2. PICK S \in Picked(Matching(view, q.where), Limit(q), q.offset) :
        answer' = IF ~ cols \subseteq Columns[q.type] \/ (q.ask = "String" /\ Len(q.fields) > 1)
                  THEN Nothing("validation")
                  ELSE IF Refusing(n) THEN Nothing("closed")
                  ELSE Outcome(q, {AssignValues(q.type, view[j], cols) : j \in S})
  BY DEF Ask
<1> DEFINE nodes == {AssignValues(q.type, view[j], cols) : j \in S}
<1>3. IsFiniteSet(S)
  <2>1. S \subseteq DOMAIN view
    BY DEF Picked, Matching
  <2>2. IsFiniteSet(DOMAIN view)
    BY <1>1, ViewShape DEF TypeInv
  <2> HIDE DEF view
  <2> QED
    BY <2>1, <2>2, FS_Subset
<1>4. Cardinality(nodes) \in Nat
  <2> DEFINE f == [j \in S |-> AssignValues(q.type, view[j], cols)]
  <2>1. nodes = {f[j] : j \in S} /\ DOMAIN f = S
    OBVIOUS
  <2> HIDE DEF f, nodes
  <2> QED
    BY <1>3, <2>1, ImageFinite
<1> HIDE DEF nodes
<1>5. /\ \A e \in Errors : Nothing(e).err \in Errors /\ Nothing(e).n \in Nat
      /\ Nodes(nodes).err \in Errors /\ Nodes(nodes).n \in Nat
      /\ Affected(Cardinality(nodes)).err \in Errors /\ Affected(Cardinality(nodes)).n \in Nat
  BY <1>4 DEF Nothing, Nodes, Affected, Errors
<1>6. Outcome(q, nodes) \in {Nothing("notfound"), Nothing("notsingular"), Nothing("several"),
                             Nodes(nodes), Affected(Cardinality(nodes))}
  BY DEF Outcome, Single
<1>7. {"notfound", "notsingular", "several", "validation", "closed"} \subseteq Errors
  BY DEF Errors
<1>8. answer' \in {Nothing("validation"), Nothing("closed"), Outcome(q, nodes)}
  BY <1>2 DEF nodes
<1> QED
  BY <1>5, <1>6, <1>7, <1>8 DEF AnswerShape

\* With no transaction nothing is written, touched, deleted or won.
LEMMA NoTxShape ==
  /\ DOMAIN NoTx = TxFields /\ NoTx.by = "nobody" /\ NoTx.aborted = FALSE
         /\ DOMAIN NoTx.rows = Types /\ DOMAIN NoTx.touched = Types
         /\ DOMAIN NoTx.deleted = Types /\ DOMAIN NoTx.won = {}
         /\ \A t \in Types : DOMAIN NoTx.rows[t] = {} /\ NoTx.touched[t] = {}
                             /\ NoTx.deleted[t] = {} /\ IsFiniteSet(DOMAIN NoTx.rows[t])
<1>1. \A t \in Types : NoTx.rows[t] = << >> /\ NoTx.touched[t] = {} /\ NoTx.deleted[t] = {}
  BY DEF NoTx
<1>2. IsFiniteSet({}) /\ DOMAIN << >> = {}
  BY FS_EmptySet
<1> QED
  BY <1>1, <1>2 DEF NoTx, TxFields

\* The type invariant holds at the start.
LEMMA InitShape ==
  ASSUME Init
  PROVE  TypeInv
<1>1. TablesShape
  BY SeedAssumption DEF Init, TablesShape
<1>2. TxShape
  BY NoTxShape DEF Init, TxShape
<1>3. IsBuilder(Idle)
  <2>1. DOMAIN Idle.muts = 1 .. 0 /\ Idle.muts = <<>> /\ Idle.tx = 0 /\ Idle.saves = 0
        /\ DOMAIN Idle = {"muts", "tx", "saves", "fields"}
    BY DEF Idle
  <2>2. 0 \in 0 .. MaxSaves
    BY BoundsAssumption
  <2> QED
    BY <2>1, <2>2 DEF IsBuilder
<1>4. BuildersShape
  BY <1>3 DEF Init, BuildersShape
<1>5. AnswerShape
  BY DEF Init, AnswerShape, Nothing, Errors
<1>6. CountersShape
  BY BoundsAssumption DEF Init, CountersShape
<1> QED
  BY <1>1, <1>2, <1>4, <1>5, <1>6 DEF TypeInv

\* OldX changes the old value of one mutation.
LEMMA AskOldAt ==
  ASSUME BuildersShape, NEW w \in Workers, AskOld(w)
  PROVE  \E old :
         LET b == builder[w]
             c == builder'[w]
         IN  /\ 1 \in DOMAIN b.muts
             /\ DOMAIN builder' = Workers /\ \A v \in Workers : v # w => builder'[v] = builder[v]
             /\ DOMAIN c = DOMAIN b /\ c.tx = b.tx /\ c.saves = b.saves
             /\ c.fields = b.fields
             /\ DOMAIN c.muts = DOMAIN b.muts
             /\ \A j \in DOMAIN b.muts : j # 1 => c.muts[j] = b.muts[j]
             /\ c.muts[1] = [b.muts[1] EXCEPT !.old = old]
<1> DEFINE b == builder[w]
<1> DEFINE m == b.muts[1]
<1> DEFINE found == m.id # <<>> /\ m.id[1] \in DOMAIN View(b.tx, m.type)
<1> DEFINE old == IF m.done \/ Closed(b.tx) \/ (InTx(b.tx) /\ tx.aborted) \/ ~ found
                  THEN [at |-> "failed"]
                  ELSE [at |-> "read", row |-> View(b.tx, m.type)[m.id[1]]]
<1>1. b.muts # <<>> /\ builder' = [builder EXCEPT ![w].muts[1].old = old]
  BY DEF AskOld
<1> HIDE DEF old
<1> DEFINE k == [m EXCEPT !.old = old]
<1> DEFINE muts == [b.muts EXCEPT ![1] = k]
<1> DEFINE c == [b EXCEPT !.muts = muts]
<1>2. builder' = [builder EXCEPT ![w] = c]
  BY <1>1
<1>3. builder'[w] = c /\ DOMAIN builder' = Workers
      /\ \A v \in Workers : v # w => builder'[v] = builder[v]
  <2> HIDE DEF c
  <2> QED
    BY <1>2 DEF BuildersShape
<1>4. 1 \in DOMAIN b.muts /\ DOMAIN b = {"muts", "tx", "saves", "fields"}
  BY <1>1 DEF BuildersShape, IsBuilder
<1>5. /\ DOMAIN c = DOMAIN b /\ c.tx = b.tx /\ c.saves = b.saves
      /\ c.fields = b.fields /\ c.muts = muts
  <2> HIDE DEF muts, b
  <2> QED
    BY <1>4
<1>6. DOMAIN muts = DOMAIN b.muts /\ muts[1] = k
      /\ \A j \in DOMAIN b.muts : j # 1 => muts[j] = b.muts[j]
  <2> HIDE DEF k, b
  <2> QED
    BY <1>4
<1> HIDE DEF c, muts
<1> QED
  BY <1>3, <1>4, <1>5, <1>6

\* With another old value a mutation is one.
LEMMA OldOfMutation ==
  ASSUME NEW m, IsMutation(m), NEW old
  PROVE  LET k == [m EXCEPT !.old = old]
         IN  /\ IsMutation(k) /\ k.type = m.type /\ k.op = m.op /\ k.id = m.id
             /\ k.where = m.where /\ k.set = m.set /\ k.add = m.add
<1> DEFINE k == [m EXCEPT !.old = old]
<1>1. /\ DOMAIN k = DOMAIN m /\ k.type = m.type /\ k.op = m.op /\ k.id = m.id
      /\ k.where = m.where /\ k.set = m.set /\ k.add = m.add /\ k.cleared = m.cleared
  BY DEF IsMutation
<1> HIDE DEF k
<1>2. IsMutation(k)
  BY <1>1 DEF IsMutation
<1> QED
  BY <1>1, <1>2 DEF k

\* OldX keeps the shape of the builders.
LEMMA AskOldShape ==
  ASSUME BuildersShape, NEW w \in Workers, AskOld(w)
  PROVE  BuildersShape'
<1> DEFINE b == builder[w]
<1> DEFINE c == builder'[w]
<1>1. PICK old : 
        /\ 1 \in DOMAIN b.muts
        /\ DOMAIN builder' = Workers /\ \A v \in Workers : v # w => builder'[v] = builder[v]
        /\ DOMAIN c = DOMAIN b /\ c.tx = b.tx /\ c.saves = b.saves
        /\ DOMAIN c.muts = DOMAIN b.muts
        /\ \A j \in DOMAIN b.muts : j # 1 => c.muts[j] = b.muts[j]
        /\ c.muts[1] = [b.muts[1] EXCEPT !.old = old]
  BY AskOldAt
<1>2. IsBuilder(b)
  BY DEF BuildersShape
<1>3. IsMutation(b.muts[1])
  BY <1>1, <1>2 DEF IsBuilder
<1>4. IsMutation(c.muts[1]) /\ c.muts[1].type = b.muts[1].type /\ c.muts[1].op = b.muts[1].op
  BY <1>1, <1>3, OldOfMutation
<1> HIDE DEF c, b
<1>5. \A j \in DOMAIN c.muts : /\ IsMutation(c.muts[j]) /\ c.muts[j].type = c.muts[1].type
                               /\ c.muts[j].op = c.muts[1].op
  BY <1>1, <1>2, <1>4 DEF IsBuilder
<1>6. IsBuilder(c)
  BY <1>1, <1>2, <1>5 DEF IsBuilder
<1> QED
  BY <1>1, <1>6 DEF BuildersShape, c

\* Every step keeps the type invariant.
LEMMA StepShape ==
  ASSUME TypeInv, [Next]_vars
  PROVE  TypeInv'
<1> USE DEF TypeInv
<1>1. ASSUME NEW w \in Workers, NEW c \in Clients, Begin(w, c) PROVE TypeInv'
  <2>1. /\ tx'.by = w /\ tx'.aborted = FALSE /\ DOMAIN tx' = TxFields
        /\ tx'.rows = NoTx.rows /\ tx'.touched = NoTx.touched /\ tx'.deleted = NoTx.deleted
    BY <1>1 DEF Begin, NoTx, TxFields
  <2>2. TxShape'
    BY <2>1, NoTxShape DEF TxShape
  <2>3. CountersShape'
    BY <1>1, BoundsAssumption DEF Begin, CountersShape
  <2>4. AnswerShape'
    BY <1>1 DEF Begin, AnswerShape, Nothing, Errors
  <2>5. TablesShape' /\ BuildersShape'
    BY <1>1 DEF Begin, TablesShape, BuildersShape
  <2> QED
    BY <2>2, <2>3, <2>4, <2>5
<1>2. ASSUME NEW w \in Workers, BeginAgain(w) PROVE TypeInv'
  BY <1>2 DEF BeginAgain, AnswerShape, Nothing, Errors, TablesShape, TxShape, BuildersShape,
              CountersShape
<1>3. ASSUME NEW w \in Workers, Commit(w) PROVE TypeInv'
  <2>1. TxShape'
    BY <1>3, NoTxShape DEF Commit, TxShape
  <2>2. TablesShape'
    <3>1. CASE tx.aborted
      BY <1>3, <3>1 DEF Commit, TablesShape
    <3>2. CASE ~ tx.aborted
      <4>1. tables' = [t \in Types |-> Own(t)]
        BY <1>3, <3>2 DEF Commit
      <4>2. \A t \in Types : /\ IsFiniteSet(DOMAIN Own(t))
                             /\ \A i \in DOMAIN Own(t) : DOMAIN Own(t)[i] \subseteq Columns[t]
        BY ViewShape
      <4>3. DOMAIN tables' = Types /\ \A t \in Types : tables'[t] = Own(t)
        BY <4>1
      <4> QED
        BY <4>2, <4>3 DEF TablesShape
    <3> QED
      BY <3>1, <3>2
  <2>3. AnswerShape'
    BY <1>3 DEF Commit, AnswerShape, Nothing, Errors
  <2>4. BuildersShape' /\ CountersShape'
    BY <1>3 DEF Commit, BuildersShape, CountersShape
  <2> QED
    BY <2>1, <2>2, <2>3, <2>4
<1>4. ASSUME NEW w \in Workers, Rollback(w) PROVE TypeInv'
  <2>1. TxShape'
    BY <1>4, NoTxShape DEF Rollback, TxShape
  <2>2. AnswerShape'
    BY <1>4 DEF Rollback, AnswerShape, Nothing, Errors
  <2>3. TablesShape' /\ BuildersShape' /\ CountersShape'
    BY <1>4 DEF Rollback, TablesShape, BuildersShape, CountersShape
  <2> QED
    BY <2>1, <2>2, <2>3
<1>5. ASSUME NEW w \in Workers, NEW i \in DOMAIN Programs, NEW n \in {0, begun}, Build(w, i, n)
      PROVE  TypeInv'
  <2>1. n \in Nat
    BY BoundsAssumption DEF CountersShape
  <2> DEFINE new == [muts |-> Built[i], tx |-> n, saves |-> 0,
                     fields |-> Programs[i].fields]
  <2>2. builder' = [builder EXCEPT ![w] = new]
    BY <1>5 DEF Build
  <2>3. IsBuilder(new)
    BY <2>1, BuiltIsBuilder
  <2> HIDE DEF new
  <2>4. BuildersShape'
    BY <2>2, <2>3 DEF BuildersShape
  <2>5. AnswerShape'
    BY <1>5 DEF Build, AnswerShape, Nothing, Errors
  <2>6. TablesShape' /\ TxShape'
    BY <1>5 DEF Build, TablesShape, TxShape
  <2>7. CountersShape'
    BY <1>5, BoundsAssumption DEF Build, CountersShape
  <2> QED
    BY <2>4, <2>5, <2>6, <2>7
<1>6. ASSUME NEW w \in Workers, AskOld(w) PROVE TypeInv'
  <2>1. UNCHANGED <<tables, tx, answer, won, made, asked, begun>>
    BY <1>6 DEF AskOld
  <2>2. BuildersShape'
    BY <1>6, AskOldShape
  <2> QED
    BY <2>1, <2>2 DEF TablesShape, TxShape, AnswerShape, CountersShape
<1>7. ASSUME NEW w \in Workers, Save(w) PROVE TypeInv'
  BY <1>7, SavesDo, SaveShape
<1>8. ASSUME NEW w \in Workers, NEW i \in DOMAIN Questions, NEW n \in {0, begun},
             Ask(w, Questions[i], n)
      PROVE  TypeInv'
  <2>1. AnswerShape'
    BY <1>8, AskShape
  <2>2. UNCHANGED <<tables, tx, builder, won, made, begun>> /\ asked < MaxAsks /\ asked' = asked + 1
    BY <1>8 DEF Ask
  <2>3. CountersShape'
    BY <2>2, BoundsAssumption DEF CountersShape
  <2> QED
    BY <2>1, <2>2, <2>3 DEF TablesShape, TxShape, BuildersShape
<1>9. ASSUME UNCHANGED vars PROVE TypeInv'
  BY <1>9 DEF vars, TablesShape, TxShape, BuildersShape, AnswerShape, CountersShape
<1> QED
  BY <1>1, <1>2, <1>3, <1>4, <1>5, <1>6, <1>7, <1>8, <1>9 DEF Next

\* The inductive type invariant implies the one that is checked.
LEMMA ShapeImpliesType ==
  ASSUME TypeInv
  PROVE  TypeOK
<1>1. \A t \in Types :
        /\ \A i \in DOMAIN tables[t] : DOMAIN tables[t][i] \subseteq Columns[t]
        /\ DOMAIN tx.rows[t] \subseteq tx.touched[t]
  BY DEF TypeInv, TablesShape, TxShape
<1>2. tx.by \in Workers \cup {"nobody"} /\ answer.err \in Errors /\ answer.n \in Nat
      /\ made \in 0 .. MaxBuilders /\ asked \in 0 .. MaxAsks /\ begun \in 0 .. MaxTx
  BY DEF TypeInv, TxShape, AnswerShape, CountersShape
<1>3. \A w \in Workers :
        /\ \A j \in DOMAIN builder[w].muts : LET m == builder[w].muts[j] IN
             /\ m.type \in Types /\ m.op \in Ops
             /\ DOMAIN m.set \subseteq DOMAIN Kinds[m.type]
             /\ DOMAIN m.add \subseteq Numeric[m.type]
             /\ m.cleared \subseteq Nullable[m.type]
        /\ builder[w].saves \in 0 .. MaxSaves
  BY DEF TypeInv, BuildersShape, IsBuilder, IsMutation
<1> QED
  BY <1>1, <1>2, <1>3 DEF TypeOK

\* In every reachable state the tables, the transaction and the builders have their
\* shape (TypeInv), whatever programs, hooks and questions the clients are given.
THEOREM ShapesHold == Spec => []TypeInv
<1>1. Init => TypeInv
  BY InitShape
<1>2. TypeInv /\ [Next]_vars => TypeInv'
  BY StepShape
<1> QED
  BY <1>1, <1>2, PTL DEF Spec

\* Rows stay within the columns of their schema, builders within its fields, whatever
\* chain of calls or hooks they are given, and every answer is one the builders and
\* queries give (ValidColumn, SetField, AddField, ClearField of the mutations).
THEOREM TypeCorrect == Spec => []TypeOK
<1>1. TypeInv => TypeOK
  BY ShapeImpliesType
<1> QED
  BY <1>1, ShapesHold, PTL

-----------------------------------------------------------------------------
(* Transactions are atomic.                                                *)

\* A step that leaves the tables alone is atomic.
LEMMA SameTablesAtomic ==
  ASSUME tables' = tables
  PROVE  AtomicStep
BY DEF AtomicStep, Changed

\* A save is: beside a transaction it waits for what the transaction touched.
LEMMA SaveAtomic ==
  ASSUME TypeInv, NEW w \in Workers, SaveDoes(w)
  PROVE  AtomicStep
<1> DEFINE n == builder[w].tx
<1>1. CASE UNCHANGED <<tables, tx, won>>
  BY <1>1, SameTablesAtomic
<1>2. CASE Failed(n)
  BY <1>2, SameTablesAtomic DEF Failed
<1>3. ASSUME NEW t, NEW rows, NEW gone, NEW wins,
             Stated(n, t, rows, gone), Written(n, t, rows, gone, wins)
      PROVE  AtomicStep
  <2>1. CASE InTx(n)
    BY <1>3, <2>1, SameTablesAtomic DEF Written
  <2>2. CASE ~ InTx(n)
    <3>1. /\ UNCHANGED tx /\ tables'[t] = Put(tables[t], rows, gone)
          /\ \A u \in Types : u # t => tables'[u] = tables[u]
      BY <1>3, <2>2, WrittenPlain DEF TypeInv, Stated
    <3>2. (DOMAIN rows \cup gone) \cap tx.touched[t] = {}
      BY <1>3, <2>2 DEF Stated, Waits
    <3>3. ASSUME NEW u \in Types, NEW i \in tx.touched[u]
          PROVE  i \notin Changed(tables[u], tables'[u])
      <4>1. CASE u # t
        BY <3>1, <4>1 DEF Changed
      <4>2. CASE u = t
        <5>1. i \notin DOMAIN rows /\ i \notin gone
          BY <3>2, <3>3, <4>2
        <5> QED
          BY <3>1, <4>2, <5>1 DEF Changed, Put, ++, Without, Restrict
      <4> QED
        BY <4>1, <4>2
    <3> QED
      BY <3>1, <3>3 DEF AtomicStep
  <2> QED
    BY <2>1, <2>2
<1> QED
  BY <1>1, <1>2, <1>3 DEF SaveDoes

\* Every step is.
LEMMA StepAtomic ==
  ASSUME TypeInv, [Next]_vars
  PROVE  AtomicStep
<1>1. ASSUME NEW w \in Workers, Commit(w) PROVE AtomicStep
  <2>1. tx'.by = "nobody"
    BY <1>1 DEF Commit, NoTx
  <2>2. CASE tx.aborted
    BY <1>1, <2>2, SameTablesAtomic DEF Commit
  <2>3. CASE ~ tx.aborted
    <3>1. \A t \in Types : tables'[t] = Own(t)
      BY <1>1, <2>3 DEF Commit
    <3>2. answer'.err = "none"
      BY <1>1, <2>3 DEF Commit, Nothing
    <3> QED
      BY <2>1, <2>3, <3>1, <3>2 DEF AtomicStep
  <2> QED
    BY <2>2, <2>3
<1>2. ASSUME NEW w \in Workers, Save(w) PROVE AtomicStep
  BY <1>2, SavesDo, SaveAtomic
<1>3. ASSUME NEW w \in Workers,
             \/ \E c \in Clients : Begin(w, c)
             \/ BeginAgain(w)
             \/ Rollback(w)
             \/ \E i \in DOMAIN Programs, n \in {0, begun} : Build(w, i, n)
             \/ AskOld(w)
             \/ \E i \in DOMAIN Questions, n \in {0, begun} : Ask(w, Questions[i], n)
      PROVE  AtomicStep
  <2>1. tables' = tables
    BY <1>3 DEF Begin, BeginAgain, Rollback, Build, AskOld, Ask
  <2> QED
    BY <2>1, SameTablesAtomic
<1>4. ASSUME UNCHANGED vars PROVE AtomicStep
  BY <1>4, SameTablesAtomic DEF vars
<1> QED
  BY <1>1, <1>2, <1>3, <1>4 DEF Next

\* A transaction shows in the tables at its commit, all of it, or never, for every
\* program and every interleaving of saves beside it (Tx.Commit and Tx.Rollback).
THEOREM TransactionsAtomic == Spec => TxAtomic
<1>1. TypeInv /\ [Next]_vars => [AtomicStep]_vars
  BY StepAtomic
<1> QED
  BY <1>1, ShapesHold, PTL DEF Spec, TxAtomic

-----------------------------------------------------------------------------
(* Rows: the clients implement RowStore.                                   *)

\* The invariant of the store: the tables are valid, and so is what the open
\* transaction reads, which is the tables of its commit; a row in both has the same
\* fixed columns unless the transaction deleted it and gave its id away.  Without the
\* part on what the transaction reads, nothing says that a commit keeps a unique
\* column unique.
StoreInv ==
  \A t \in Types :
    /\ Store!ValidTable(t, tables[t]) /\ Store!ValidTable(t, Own(t))
    /\ \A i \in DOMAIN tables[t] \cap DOMAIN Own(t) :
         \/ i \in tx.deleted[t]
         \/ \A c \in Fixed(t) : Store!Same(tables[t][i], Own(t)[i], c)
    /\ tx.by = "nobody" => tx.touched[t] = {}

\* Rows that may be written into a table.
Fitting(t, table, rows) ==
  /\ ~ BreaksUnique(t, table, rows)
  /\ \A i \in DOMAIN rows :
       \/ i \notin DOMAIN table /\ Store!ValidRow(t, i, rows[i])
       \/ i \in DOMAIN table /\ Revised(t, i, table[i], rows[i])

\* Validity of a table, with uniqueness in the terms of a statement.
LEMMA ValidIs ==
  ASSUME NEW t \in Types, NEW table
  PROVE  Store!ValidTable(t, table) <=>
           /\ \A i \in DOMAIN table : Store!ValidRow(t, i, table[i])
           /\ \A i, j \in DOMAIN table : i # j => ~ ShareUnique(t, table[i], table[j])
BY DEF Store!ValidTable, ShareUnique

\* A statement whose rows fit keeps a table valid.
LEMMA PutValid ==
  ASSUME NEW t \in Types, NEW table, NEW rows, NEW gone,
         Store!ValidTable(t, table), Fitting(t, table, rows)
  PROVE  Store!ValidTable(t, Put(table, rows, gone))
<1> DEFINE new == Put(table, rows, gone)
<1>1. /\ DOMAIN new = DOMAIN rows \cup (DOMAIN table \ gone)
      /\ \A i \in DOMAIN rows : new[i] = rows[i]
      /\ \A i \in DOMAIN table \ gone : i \notin DOMAIN rows => new[i] = table[i]
  BY DEF Put, ++, Without, Restrict
<1>2. \A i \in DOMAIN table \cup DOMAIN rows :
        (rows ++ table)[i] = IF i \in DOMAIN rows THEN rows[i] ELSE table[i]
  BY DEF ++
<1> HIDE DEF new
<1>3. \A i \in DOMAIN new : Store!ValidRow(t, i, new[i])
  BY <1>1, ValidIs DEF Fitting, Revised
<1>4. ASSUME NEW i \in DOMAIN new, NEW j \in DOMAIN new, i # j
      PROVE  ~ ShareUnique(t, new[i], new[j])
  <2>1. \A x \in DOMAIN rows, y \in DOMAIN table \cup DOMAIN rows :
          x # y => ~ ShareUnique(t, rows[x], (rows ++ table)[y])
    BY DEF Fitting, BreaksUnique
  <2>2. \A x \in DOMAIN new : x \in DOMAIN table \cup DOMAIN rows /\ new[x] = (rows ++ table)[x]
    BY <1>1, <1>2
  <2>3. \A x \in DOMAIN rows, y \in DOMAIN new : x # y => ~ ShareUnique(t, new[x], new[y])
    BY <1>1, <2>1, <2>2
  <2>4. CASE i \in DOMAIN rows
    BY <1>4, <2>3, <2>4
  <2>5. CASE j \in DOMAIN rows
    BY <1>4, <2>3, <2>5 DEF ShareUnique
  <2>6. CASE i \notin DOMAIN rows /\ j \notin DOMAIN rows
    BY <1>1, <1>4, <2>6, ValidIs
  <2> QED
    BY <2>4, <2>5, <2>6
<1> QED
  BY <1>3, <1>4, ValidIs DEF new

\* With nothing touched a transaction reads the tables.
LEMMA OwnUntouched ==
  ASSUME NEW rs, NEW tb, DOMAIN rs = {}
  PROVE  /\ DOMAIN (rs ++ Without(tb, {})) = DOMAIN tb
         /\ \A i \in DOMAIN tb : (rs ++ Without(tb, {}))[i] = tb[i]
BY DEF ++, Without, Restrict

\* A table with the same rows is as valid.
LEMMA ValidCopy ==
  ASSUME NEW t \in Types, NEW f, NEW g, Store!ValidTable(t, f),
         DOMAIN g = DOMAIN f, \A i \in DOMAIN f : g[i] = f[i]
  PROVE  Store!ValidTable(t, g)
<1>1. \A i \in DOMAIN g : Store!ValidRow(t, i, g[i])
  BY ValidIs
<1>2. \A i, j \in DOMAIN g : i # j => ~ ShareUnique(t, g[i], g[j])
  BY ValidIs
<1> QED
  BY <1>1, <1>2, ValidIs

\* With no transaction, or one that wrote nothing, the invariant is that of the tables.
LEMMA StoreUntouched ==
  ASSUME \A t \in Types : /\ Store!ValidTable(t, tables'[t]) /\ DOMAIN tx'.rows[t] = {}
                          /\ tx'.touched[t] = {}
  PROVE  StoreInv'
<1> SUFFICES ASSUME NEW t \in Types
             PROVE  /\ Store!ValidTable(t, tables'[t]) /\ Store!ValidTable(t, Own(t)')
                    /\ \A i \in DOMAIN tables'[t] \cap DOMAIN Own(t)' :
                         \A c \in Fixed(t) : Store!Same(tables'[t][i], Own(t)'[i], c)
                    /\ tx'.touched[t] = {}
  BY DEF StoreInv
<1>1. /\ DOMAIN Own(t)' = DOMAIN tables'[t]
      /\ \A i \in DOMAIN tables'[t] : Own(t)'[i] = tables'[t][i]
  <2> DEFINE rs == tx'.rows[t]
  <2> DEFINE tb == tables'[t]
  <2>1. Own(t)' = rs ++ Without(tb, {}) /\ DOMAIN rs = {}
    BY DEF Own
  <2> HIDE DEF rs, tb
  <2>2. /\ DOMAIN (rs ++ Without(tb, {})) = DOMAIN tb
        /\ \A i \in DOMAIN tb : (rs ++ Without(tb, {}))[i] = tb[i]
    BY <2>1, OwnUntouched
  <2> QED
    BY <2>1, <2>2 DEF rs, tb
<1>2. Store!ValidTable(t, Own(t)')
  BY <1>1, ValidCopy
<1> QED
  BY <1>1, <1>2 DEF Store!Same

\* A step of the abstract store.
StoreStep ==
  /\ Store!Valid'
  /\ \A t \in Types : \A i \in DOMAIN tables[t] \cap DOMAIN tables'[t] :
       \/ \A c \in Fixed(t) : Store!Same(tables[t][i], tables'[t][i], c)
       \/ i \in tx.deleted[t] /\ \A u \in Types : tx'.deleted[u] = {}

\* A step that leaves the tables alone is one, or a stutter.
LEMMA SameTablesStore ==
  ASSUME StoreInv, tables' = tables
  PROVE  StoreStep
BY DEF StoreStep, StoreInv, Store!Valid, Store!Same

\* A statement keeps the invariant and is a step of the store: in the transaction, a
\* stutter; beside it, one that waited if it met what the transaction wrote, which is
\* why what the transaction reads stays valid.
LEMMA StatementStore ==
  ASSUME TypeInv, StoreInv, NEW n, NEW t, NEW rows, NEW gone, NEW wins,
         Stated(n, t, rows, gone), Written(n, t, rows, gone, wins), UNCHANGED begun
  PROVE  StoreInv' /\ StoreStep
<1>1. t \in Types /\ TablesShape /\ TxShape
  BY DEF Stated, TypeInv
<1>2. Fitting(t, View(n, t), rows)
  BY DEF Stated, Fitting
<1>3. /\ Store!ValidTable(t, tables[t]) /\ Store!ValidTable(t, Own(t))
      /\ \A i \in DOMAIN tables[t] \cap DOMAIN Own(t) :
           \/ i \in tx.deleted[t]
           \/ \A c \in Fixed(t) : Store!Same(tables[t][i], Own(t)[i], c)
  BY <1>1 DEF StoreInv
<1>4. /\ DOMAIN Own(t) = DOMAIN tx.rows[t] \cup (DOMAIN tables[t] \ tx.touched[t])
      /\ \A i \in DOMAIN tx.rows[t] : Own(t)[i] = tx.rows[t][i]
      /\ \A i \in DOMAIN tables[t] \ tx.touched[t] :
           i \notin DOMAIN tx.rows[t] => Own(t)[i] = tables[t][i]
      /\ DOMAIN tx.rows[t] \subseteq tx.touched[t]
      /\ tx.touched[t] \subseteq DOMAIN tx.rows[t] \cup tx.deleted[t]
  BY <1>1, OwnAt DEF TxShape
<1>5. \A table : LET new == Put(table, rows, gone) IN
        /\ DOMAIN new = DOMAIN rows \cup (DOMAIN table \ gone)
        /\ \A i \in DOMAIN rows : new[i] = rows[i]
        /\ \A i \in DOMAIN table \ gone : i \notin DOMAIN rows => new[i] = table[i]
  BY DEF Put, ++, Without, Restrict
<1>6. CASE InTx(n)
  <2>1. /\ UNCHANGED tables /\ tx'.by = tx.by
        /\ tx'.deleted[t] = tx.deleted[t] \cup gone
        /\ \A u \in Types : u # t => /\ tx'.rows[u] = tx.rows[u]
                                     /\ tx'.touched[u] = tx.touched[u]
                                     /\ tx'.deleted[u] = tx.deleted[u]
    BY <1>1, <1>6, WrittenTx
  <2>2. /\ View(n, t) = Own(t) /\ Own(t)' = Put(Own(t), rows, gone)
        /\ \A u \in Types : u # t => Own(u)' = Own(u)
    <3>1. InTx(n)'
      BY <1>6, <2>1 DEF InTx
    <3>2. /\ View(n, t)' = Put(View(n, t), rows, gone)
          /\ \A u \in Types : u # t => View(n, u)' = View(n, u)
      BY <1>1, WrittenView
    <3> QED
      BY <1>6, <3>1, <3>2 DEF View
  <2>3. Store!ValidTable(t, Own(t)')
    BY <1>1, <1>2, <1>3, <2>2, PutValid
  <2>4. ASSUME NEW i \in DOMAIN tables[t] \cap DOMAIN Own(t)', i \notin tx'.deleted[t],
               NEW c \in Fixed(t)
        PROVE  Store!Same(tables[t][i], Own(t)'[i], c)
    <3>1. i \notin tx.deleted[t]
      BY <2>1, <2>4
    <3>2. CASE i \in DOMAIN rows
      <4>1. Own(t)'[i] = rows[i]
        BY <1>5, <2>2, <3>2
      <4>2. i \in DOMAIN Own(t)
        BY <1>4, <2>4, <3>1
      <4>3. Store!Same(Own(t)[i], rows[i], c) /\ Store!Same(tables[t][i], Own(t)[i], c)
        BY <1>2, <1>3, <2>2, <2>4, <3>1, <3>2, <4>2 DEF Fitting, Revised
      <4> QED
        BY <4>1, <4>3 DEF Store!Same
    <3>3. CASE i \notin DOMAIN rows
      <4>1. i \in DOMAIN Own(t) /\ Own(t)'[i] = Own(t)[i]
        BY <1>5, <2>2, <2>4, <3>3
      <4> QED
        BY <1>3, <2>4, <3>1, <4>1
    <3> QED
      BY <3>2, <3>3
  <2>5. tx.by # "nobody"
    BY <1>6 DEF InTx
  <2>6. StoreInv'
    <3> SUFFICES ASSUME NEW u \in Types
                 PROVE  /\ Store!ValidTable(u, tables'[u]) /\ Store!ValidTable(u, Own(u)')
                        /\ \A i \in DOMAIN tables'[u] \cap DOMAIN Own(u)' :
                             \/ i \in tx'.deleted[u]
                             \/ \A c \in Fixed(u) : Store!Same(tables'[u][i], Own(u)'[i], c)
      BY <2>1, <2>5 DEF StoreInv
    <3>1. CASE u = t
      BY <1>3, <2>1, <2>3, <2>4, <3>1
    <3>2. CASE u # t
      BY <2>1, <2>2, <3>2 DEF StoreInv
    <3> QED
      BY <3>1, <3>2
  <2> QED
    BY <2>1, <2>6, SameTablesStore
<1>7. CASE ~ InTx(n)
  <2>1. /\ UNCHANGED tx /\ tables'[t] = Put(tables[t], rows, gone)
        /\ \A u \in Types : u # t => tables'[u] = tables[u]
    BY <1>1, <1>7, WrittenPlain
  <2>2. View(n, t) = tables[t] /\ ~ Waits(n, t, rows, gone)
    BY <1>7 DEF View, Stated
  <2>3. /\ Own(t)' = Put(Own(t), rows, gone) /\ \A u \in Types : u # t => Own(u)' = Own(u)
    BY <1>1, <1>7, <2>2, WrittenBeside
  <2>4. (DOMAIN rows \cup gone) \cap tx.touched[t] = {}
    BY <1>7, <2>2 DEF Waits
  <2>5. /\ DOMAIN tables'[t] = DOMAIN rows \cup (DOMAIN tables[t] \ gone)
        /\ \A i \in DOMAIN tables[t] \ gone : i \notin DOMAIN rows => tables'[t][i] = tables[t][i]
    BY <2>1 DEF Put, ++, Without, Restrict
  <2>6. /\ DOMAIN Own(t)' = DOMAIN rows \cup (DOMAIN Own(t) \ gone)
        /\ \A i \in DOMAIN Own(t) \ gone : i \notin DOMAIN rows => Own(t)'[i] = Own(t)[i]
    BY <2>3 DEF Put, ++, Without, Restrict
  <2>7. Store!ValidTable(t, tables'[t])
    BY <1>1, <1>2, <1>3, <2>1, <2>2, PutValid
  <2>8. Fitting(t, Own(t), rows)
    <3>1. \A i \in DOMAIN rows :
            /\ i \in DOMAIN Own(t) <=> i \in DOMAIN tables[t]
            /\ i \in DOMAIN tables[t] => Own(t)[i] = tables[t][i]
      BY <1>4, <2>4
    <3>2. ASSUME NEW i \in DOMAIN rows, NEW j \in DOMAIN Own(t) \cup DOMAIN rows, i # j
          PROVE  ~ ShareUnique(t, rows[i], (rows ++ Own(t))[j])
      <4>1. CASE j \in DOMAIN rows
        <5>1. (rows ++ Own(t))[j] = rows[j] /\ (rows ++ tables[t])[j] = rows[j]
          BY <4>1 DEF ++
        <5> QED
          BY <1>2, <2>2, <3>2, <4>1, <5>1 DEF Fitting, BreaksUnique
      <4>2. CASE j \notin DOMAIN rows
        <5>1. j \in DOMAIN Own(t) /\ (rows ++ Own(t))[j] = Own(t)[j]
          BY <3>2, <4>2 DEF ++
        <5>2. CASE j \in DOMAIN tx.rows[t]
          <6>1. Own(t)[j] = tx.rows[t][j] /\ j \in tx.touched[t]
            BY <1>4, <5>2
          <6> QED
            BY <1>7, <2>2, <3>2, <5>1, <5>2, <6>1 DEF Waits
        <5>3. CASE j \notin DOMAIN tx.rows[t]
          <6>1. j \in DOMAIN tables[t] /\ Own(t)[j] = tables[t][j]
            BY <1>4, <5>1, <5>3
          <6>2. (rows ++ tables[t])[j] = tables[t][j]
            BY <4>2, <6>1 DEF ++
          <6> QED
            BY <1>2, <2>2, <3>2, <5>1, <6>1, <6>2 DEF Fitting, BreaksUnique
        <5> QED
          BY <5>2, <5>3
      <4> QED
        BY <4>1, <4>2
    <3>3. ~ BreaksUnique(t, Own(t), rows)
      BY <3>2 DEF BreaksUnique
    <3> QED
      BY <1>2, <2>2, <3>1, <3>3 DEF Fitting
  <2>9. Store!ValidTable(t, Own(t)')
    BY <1>1, <1>3, <2>3, <2>8, PutValid
  <2>10. ASSUME NEW i \in DOMAIN tables'[t] \cap DOMAIN Own(t)', i \notin tx.deleted[t],
                NEW c \in Fixed(t)
         PROVE  Store!Same(tables'[t][i], Own(t)'[i], c)
    <3>1. CASE i \in DOMAIN rows
      BY <1>5, <2>1, <2>3, <3>1 DEF Store!Same
    <3>2. CASE i \notin DOMAIN rows
      <4>1. /\ i \in DOMAIN tables[t] /\ i \in DOMAIN Own(t)
            /\ tables'[t][i] = tables[t][i] /\ Own(t)'[i] = Own(t)[i]
        BY <2>10, <2>5, <2>6, <3>2
      <4> QED
        BY <1>3, <2>10, <4>1
    <3> QED
      BY <3>1, <3>2
  <2>11. StoreInv'
    <3> SUFFICES ASSUME NEW u \in Types
                 PROVE  /\ Store!ValidTable(u, tables'[u]) /\ Store!ValidTable(u, Own(u)')
                        /\ \A i \in DOMAIN tables'[u] \cap DOMAIN Own(u)' :
                             \/ i \in tx'.deleted[u]
                             \/ \A c \in Fixed(u) : Store!Same(tables'[u][i], Own(u)'[i], c)
                        /\ tx'.by = "nobody" => tx'.touched[u] = {}
      BY DEF StoreInv
    <3>1. CASE u = t
      BY <2>1, <2>7, <2>9, <2>10, <3>1 DEF StoreInv
    <3>2. CASE u # t
      BY <2>1, <2>3, <3>2 DEF StoreInv
    <3> QED
      BY <3>1, <3>2
  <2>12. StoreStep
    <3>1. Store!Valid'
      BY <2>11 DEF StoreInv, Store!Valid
    <3>2. ASSUME NEW u \in Types, NEW c \in Fixed(u),
                 NEW i \in DOMAIN tables[u] \cap DOMAIN tables'[u]
          PROVE  Store!Same(tables[u][i], tables'[u][i], c)
      <4>1. CASE u = t /\ i \in DOMAIN rows
        BY <1>2, <1>5, <2>1, <2>2, <3>2, <4>1 DEF Fitting, Revised
      <4>2. CASE u = t /\ i \notin DOMAIN rows
        <5>1. tables'[t][i] = tables[t][i]
          BY <2>5, <3>2, <4>2
        <5> QED
          BY <4>2, <5>1 DEF Store!Same
      <4>3. CASE u # t
        BY <2>1, <4>3 DEF Store!Same
      <4> QED
        BY <4>1, <4>2, <4>3
    <3> QED
      BY <3>1, <3>2 DEF StoreStep
  <2> QED
    BY <2>11, <2>12
<1> QED
  BY <1>6, <1>7

\* The invariant looks at the tables and at three fields of the transaction.
LEMMA StoreSame ==
  ASSUME StoreInv, tables' = tables, tx'.by = tx.by, tx'.rows = tx.rows,
         tx'.touched = tx.touched, tx'.deleted = tx.deleted
  PROVE  StoreInv' /\ StoreStep
<1>1. \A t \in Types : Own(t)' = Own(t)
  BY DEF Own
<1>2. StoreInv'
  BY <1>1 DEF StoreInv
<1> QED
  BY <1>2, SameTablesStore

\* Every step keeps the invariant and is a step of the store.
LEMMA StepStore ==
  ASSUME TypeInv, StoreInv, [Next]_vars
  PROVE  StoreInv' /\ StoreStep
<1>1. ASSUME NEW w \in Workers, NEW c \in Clients, Begin(w, c) PROVE StoreInv' /\ StoreStep
  <2>1. tx'.rows = NoTx.rows /\ tx'.touched = NoTx.touched /\ tables' = tables
    BY <1>1 DEF Begin, NoTx
  <2>2. \A t \in Types : /\ Store!ValidTable(t, tables'[t]) /\ DOMAIN tx'.rows[t] = {}
                         /\ tx'.touched[t] = {}
    BY <2>1, NoTxShape DEF StoreInv
  <2> QED
    BY <2>1, <2>2, StoreUntouched, SameTablesStore
<1>2. ASSUME NEW w \in Workers, Commit(w) PROVE StoreInv' /\ StoreStep
  <2>1. tx' = NoTx
    BY <1>2 DEF Commit
  <2>2. CASE tx.aborted
    <3>1. tables' = tables
      BY <1>2, <2>2 DEF Commit
    <3>2. \A t \in Types : /\ Store!ValidTable(t, tables'[t]) /\ DOMAIN tx'.rows[t] = {}
                           /\ tx'.touched[t] = {}
      BY <2>1, <3>1, NoTxShape DEF StoreInv
    <3> QED
      BY <3>1, <3>2, StoreUntouched, SameTablesStore
  <2>3. CASE ~ tx.aborted
    <3>1. \A t \in Types : tables'[t] = Own(t)
      BY <1>2, <2>3 DEF Commit
    <3>2. \A t \in Types : /\ Store!ValidTable(t, tables'[t]) /\ DOMAIN tx'.rows[t] = {}
                           /\ tx'.touched[t] = {} /\ tx'.deleted[t] = {}
      BY <2>1, <3>1, NoTxShape DEF StoreInv
    <3>3. StoreStep
      BY <3>1, <3>2 DEF StoreStep, StoreInv, Store!Valid
    <3> QED
      BY <3>2, <3>3, StoreUntouched
  <2> QED
    BY <2>2, <2>3
<1>3. ASSUME NEW w \in Workers, Rollback(w) PROVE StoreInv' /\ StoreStep
  <2>1. tx' = NoTx /\ tables' = tables
    BY <1>3 DEF Rollback
  <2>2. \A t \in Types : /\ Store!ValidTable(t, tables'[t]) /\ DOMAIN tx'.rows[t] = {}
                         /\ tx'.touched[t] = {}
    BY <2>1, NoTxShape DEF StoreInv
  <2> QED
    BY <2>1, <2>2, StoreUntouched, SameTablesStore
<1>4. ASSUME NEW w \in Workers, Save(w) PROVE StoreInv' /\ StoreStep
  <2>1. SaveDoes(w)
    BY <1>4, SavesDo
  <2>2. UNCHANGED begun
    BY <2>1 DEF SaveDoes, Answered
  <2>3. CASE UNCHANGED <<tables, tx, won>>
    BY <2>3, StoreSame
  <2>4. CASE Failed(builder[w].tx)
    BY <2>4, StoreSame, FailedShape DEF TypeInv
  <2>5. CASE \E t, rows, gone, wins : /\ Stated(builder[w].tx, t, rows, gone)
                                      /\ Written(builder[w].tx, t, rows, gone, wins)
    BY <2>2, <2>5, StatementStore
  <2> QED
    BY <2>1, <2>3, <2>4, <2>5 DEF SaveDoes
<1>5. ASSUME NEW w \in Workers,
             \/ BeginAgain(w)
             \/ \E i \in DOMAIN Programs, n \in {0, begun} : Build(w, i, n)
             \/ AskOld(w)
             \/ \E i \in DOMAIN Questions, n \in {0, begun} : Ask(w, Questions[i], n)
      PROVE  StoreInv' /\ StoreStep
  <2>1. tables' = tables /\ tx' = tx
    BY <1>5 DEF BeginAgain, Build, AskOld, Ask
  <2> QED
    BY <2>1, StoreSame
<1>6. ASSUME UNCHANGED vars PROVE StoreInv' /\ StoreStep
  BY <1>6, StoreSame DEF vars
<1> QED
  BY <1>1, <1>2, <1>3, <1>4, <1>5, <1>6 DEF Next

\* The invariant holds at the start, in a state the store may start in.
LEMMA InitStore ==
  ASSUME Init
  PROVE  StoreInv /\ Store!Init
<1>1. /\ \A t \in Types : Store!ValidTable(t, tables[t])
      /\ tables = Seed /\ tx = NoTx
  BY SeedAssumption DEF Init
<1>2. ASSUME NEW t \in Types
      PROVE  /\ tx.touched[t] = {}
             /\ DOMAIN Own(t) = DOMAIN tables[t]
             /\ \A i \in DOMAIN tables[t] : Own(t)[i] = tables[t][i]
  <2> DEFINE rs == tx.rows[t]
  <2> DEFINE tb == tables[t]
  <2>1. Own(t) = rs ++ Without(tb, {}) /\ DOMAIN rs = {} /\ tx.touched[t] = {}
    BY <1>1, NoTxShape DEF Own
  <2> HIDE DEF rs, tb
  <2>2. /\ DOMAIN (rs ++ Without(tb, {})) = DOMAIN tb
        /\ \A i \in DOMAIN tb : (rs ++ Without(tb, {}))[i] = tb[i]
    BY <2>1, OwnUntouched
  <2> QED
    BY <2>1, <2>2 DEF rs, tb
<1>3. \A t \in Types : Store!ValidTable(t, Own(t))
  BY <1>1, <1>2, ValidCopy
<1>4. StoreInv
  BY <1>1, <1>2, <1>3 DEF StoreInv, Store!Same
<1>5. Store!Init
  BY <1>1, NoTxShape DEF Store!Init, Store!Valid, Store!Pending
<1> QED
  BY <1>4, <1>5

\* Whatever is saved, by whom and in which order, every committed row is one its schema
\* allows, unique columns stay unique, and immutable columns stay while the row lives:
\* the generated clients implement RowStore (check, the immutable fields' missing
\* setters, and the constraints of the migrations).
THEOREM RowsKept == Spec => ImplementsRowStore
<1>1. Init => StoreInv /\ Store!Init
  BY InitStore
<1>2. TypeInv /\ StoreInv /\ [Next]_vars => StoreInv'
  BY StepStore
<1>3. TypeInv /\ StoreInv /\ [Next]_vars => [Store!Next]_<<tables, tx.deleted>>
  <2>1. StoreStep => Store!Next
    BY DEF StoreStep, Store!Next, Store!Pending, Fixed
  <2> QED
    BY <2>1, StepStore
<1> QED
  BY <1>1, <1>2, <1>3, ShapesHold, PTL DEF Spec, ImplementsRowStore, Store!Spec

-----------------------------------------------------------------------------
(* Versions are won once.                                                  *)

\* The builders of the programs follow the discipline of versions.
LEMMA BuiltHolds ==
  ASSUME NEW i \in DOMAIN Programs, NEW j \in DOMAIN Built[i]
  PROVE  VersionHeld(Built[i][j])
<1> DEFINE p == Programs[i]
<1> DEFINE new == NewMutation(p.type, p.op, p.ids[j], p.where)
<1> DEFINE first == IF p.entity = <<>> THEN new ELSE WithEntity(new, p.entity[1])
<1> DEFINE k == Chain(first, p.chains[j])
<1>1. j \in DOMAIN p.chains /\ Built[i][j] = k
  BY DEF Built, Mutations
<1>2. /\ p.type \in Types /\ p.op \in Ops
      /\ p.ids[j] # <<>> => p.ids[j] = <<p.ids[j][1]>>
      /\ Listed(p.chains[j])
      /\ \A l \in DOMAIN p.chains[j] : p.chains[j][l].do \in Doings
  BY <1>1, ProgramAssumption DEF Compiles, Doings
<1>3. /\ IsMutation(first) /\ first.type = p.type /\ first.op = p.op /\ first.where = p.where
      /\ DOMAIN first.set = {} /\ DOMAIN first.add = {}
  <2>1. /\ IsMutation(new) /\ new.type = p.type /\ new.op = p.op /\ new.where = p.where
        /\ DOMAIN new.set = {} /\ DOMAIN new.add = {}
    BY <1>2 DEF NewMutation, IsMutation
  <2> HIDE DEF new
  <2>2. \A e : LET f == WithEntity(new, e) IN
               /\ IsMutation(f) /\ f.type = p.type /\ f.op = p.op /\ f.where = p.where
               /\ f.set = new.set /\ f.add = new.add
    BY <2>1 DEF WithEntity, IsMutation
  <2> QED
    BY <2>1, <2>2
<1> HIDE DEF first
<1>4. k.type = p.type /\ k.op = p.op /\ k.where = p.where
  BY <1>2, <1>3, ChainKeeps DEF SameMutation
<1>5. /\ "version" \in DOMAIN k.set =>
           \E l \in DOMAIN p.chains[j] :
             /\ p.chains[j][l].do = "Set" /\ p.chains[j][l].field = "version"
             /\ k.set["version"] = p.chains[j][l].value
      /\ "version" \in DOMAIN k.add =>
           \E l \in DOMAIN p.chains[j] :
             p.chains[j][l].do = "Add" /\ p.chains[j][l].field = "version"
  BY <1>2, <1>3, ChainKeeps DEF From
<1> HIDE DEF k
<1>6. \A l \in DOMAIN p.chains[j] :
        p.chains[j][l].field = "version" => p.chains[j][l] \in VersionCalls(p)
  BY <1>1 DEF VersionCalls
<1>7. p.op = "Update" /\ p.where # <<>> => p.type \in Guarded
  BY DEF Guarded
<1>8. ASSUME p.type \in Guarded
      PROVE  /\ k.op = "Create" /\ "version" \in DOMAIN k.set => k.set["version"] \in Int
             /\ k.op = "Update" =>
                  /\ "version" \notin DOMAIN k.add
                  /\ "version" \in DOMAIN k.set =>
                       /\ k.set["version"] \in Int
                       /\ \E l \in DOMAIN k.where :
                            /\ ~ k.where[l].not
                            /\ k.where[l].any = <<[col |-> "version", op |-> "EQ",
                                                   args |-> <<k.set["version"] - 1>>]>>
             /\ k.op = "UpdateOne" => "version" \notin DOMAIN k.set \cup DOMAIN k.add
  <2>1. \A c \in VersionCalls(p) :
          /\ p.op = "Create" => (c.do = "Set" => c.value \in Int)
          /\ p.op = "Update" => Follows(p, c)
          /\ p.op # "UpdateOne"
    BY <1>8, VersionAssumption
  <2>2. CASE p.op = "Create"
    BY <1>4, <1>5, <1>6, <2>1, <2>2
  <2>3. CASE p.op = "Update"
    BY <1>4, <1>5, <1>6, <2>1, <2>3 DEF Follows
  <2>4. CASE p.op = "UpdateOne"
    BY <1>4, <1>5, <1>6, <2>1, <2>4
  <2> QED
    BY <1>4, <2>2, <2>3, <2>4
<1>9. VersionHeld(k)
  <2> HIDE DEF p
  <2> QED
    BY <1>4, <1>7, <1>8 DEF VersionHeld
<1> QED
  BY <1>1, <1>9 DEF k

\* Every builder follows it,
BuildersHeld ==
  \A w \in Workers : \A j \in DOMAIN builder[w].muts : VersionHeld(builder[w].muts[j])

\* and still does after any step, its hooks run or not.
LEMMA StepHeld ==
  ASSUME TypeInv, BuildersHeld, [Next]_vars
  PROVE  BuildersHeld'
<1>1. ASSUME NEW w \in Workers, NEW i \in DOMAIN Programs, NEW n \in {0, begun}, Build(w, i, n)
      PROVE  BuildersHeld'
  <2> DEFINE new == [muts |-> Built[i], tx |-> n, saves |-> 0,
                     fields |-> Programs[i].fields]
  <2>1. builder' = [builder EXCEPT ![w] = new] /\ new.muts = Built[i]
    BY <1>1 DEF Build
  <2> HIDE DEF new
  <2> QED
    BY <2>1, BuiltHolds DEF BuildersHeld, TypeInv, BuildersShape
<1>2. ASSUME NEW w \in Workers, AskOld(w) PROVE BuildersHeld'
  <2> DEFINE b == builder[w]
  <2> DEFINE c == builder'[w]
  <2>1. PICK old :
          /\ 1 \in DOMAIN b.muts /\ \A v \in Workers : v # w => builder'[v] = builder[v]
          /\ DOMAIN c.muts = DOMAIN b.muts
          /\ \A j \in DOMAIN b.muts : j # 1 => c.muts[j] = b.muts[j]
          /\ c.muts[1] = [b.muts[1] EXCEPT !.old = old]
    BY <1>2, AskOldAt DEF TypeInv
  <2>2. IsMutation(b.muts[1]) /\ VersionHeld(b.muts[1])
    BY <2>1 DEF BuildersHeld, TypeInv, BuildersShape, IsBuilder
  <2> DEFINE m == b.muts[1]
  <2> DEFINE k == c.muts[1]
  <2>3. /\ k.type = m.type /\ k.op = m.op /\ k.where = m.where /\ k.set = m.set /\ k.add = m.add
    BY <2>1, <2>2, OldOfMutation
  <2> HIDE DEF k, m
  <2>4. VersionHeld(k)
    BY <2>2, <2>3 DEF VersionHeld, m
  <2>5. \A j \in DOMAIN c.muts : VersionHeld(c.muts[j])
    BY <2>1, <2>4 DEF BuildersHeld, k
  <2> QED
    BY <2>1, <2>5 DEF BuildersHeld
<1>3. ASSUME NEW w \in Workers, Save(w) PROVE BuildersHeld'
  <2> DEFINE b == builder[w]
  <2>1. PICK muts, ans :
          /\ Answered(w, muts, ans) /\ DOMAIN muts = DOMAIN b.muts
          /\ \A j \in DOMAIN b.muts : Heir(muts[j], b.muts[j])
    BY <1>3, SavesDo DEF SaveDoes
  <2>2. builder'[w].muts = muts /\ \A v \in Workers : v # w => builder'[v] = builder[v]
    BY <2>1, AnsweredAt DEF TypeInv
  <2>3. \A j \in DOMAIN muts : VersionHeld(muts[j])
    <3> TAKE j \in DOMAIN muts
    <3>1. Heir(muts[j], b.muts[j]) /\ VersionHeld(b.muts[j]) /\ b.muts[j].type \in Types
      BY <2>1 DEF BuildersHeld, TypeInv, BuildersShape, IsBuilder, IsMutation
    <3> QED
      BY <3>1, HeirsHold
  <2> QED
    BY <2>2, <2>3 DEF BuildersHeld
<1>4. ASSUME UNCHANGED builder PROVE BuildersHeld'
  BY <1>4 DEF BuildersHeld
<1>5. \/ UNCHANGED builder
      \/ \E w \in Workers : \/ AskOld(w) \/ Save(w)
                            \/ \E i \in DOMAIN Programs, n \in {0, begun} : Build(w, i, n)
  BY DEF Next, vars, Begin, BeginAgain, Commit, Rollback, Ask
<1> QED
  BY <1>1, <1>2, <1>3, <1>4, <1>5

\* The row has reached the version that was won of it.
Ahead(table, x) ==
  x[2] \in DOMAIN table /\ x[3] \in Int /\ x[3] <= table[x[2]]["version"]

\* The invariant of the versions won: each was won once and the row has reached it, in
\* the tables and, unless the transaction deleted the row, in what the transaction
\* reads; what the transaction won it touched, and nobody else has won it.  A second
\* win would be of a version the row has reached, and an update on condition of the
\* version before finds no such row.
WonInv ==
  /\ \A t \in Guarded : Numbered(tables[t]) /\ Numbered(Own(t))
  /\ \A x \in DOMAIN won :
       /\ x[1] \in Guarded /\ won[x] = 1 /\ Ahead(tables[x[1]], x)
       /\ x[2] \notin tx.deleted[x[1]] => Ahead(Own(x[1]), x)
  /\ \A x \in DOMAIN tx.won :
       /\ x[1] \in Guarded /\ tx.won[x] = 1 /\ Ahead(Own(x[1]), x)
       /\ x[2] \in tx.touched[x[1]]
       /\ x \in DOMAIN won => x[2] \in tx.deleted[x[1]]

\* The guarded types are types.
LEMMA GuardedTypes == Guarded \subseteq Types
BY ProgramAssumption DEF Guarded

\* Bag h is f without what is gone, and g.
Summed(f, gone, g, h) ==
  /\ DOMAIN h = {x \in DOMAIN f : x[2] \notin gone[x[1]]} \cup DOMAIN g
  /\ \A x \in DOMAIN h :
       h[x] = (IF x \in DOMAIN f /\ x[2] \notin gone[x[1]] THEN f[x] ELSE 0)
              + (IF x \in DOMAIN g THEN g[x] ELSE 0)

\* Bags adds up.
LEMMA BagsAt ==
  ASSUME NEW f, NEW gone, NEW g
  PROVE  Summed(f, gone, g, Bags(Forget(f, gone), g))
<1> DEFINE l == Forget(f, gone)
<1> DEFINE h == Bags(l, g)
<1>1. /\ DOMAIN l = {x \in DOMAIN f : x[2] \notin gone[x[1]]}
      /\ \A x \in DOMAIN l : l[x] = f[x]
  BY DEF Forget, Without, Restrict
<1> HIDE DEF l
<1>2. DOMAIN h = DOMAIN l \cup DOMAIN g
      /\ \A x \in DOMAIN h :
           h[x] = (IF x \in DOMAIN l THEN l[x] ELSE 0) + (IF x \in DOMAIN g THEN g[x] ELSE 0)
  BY DEF Bags
<1> HIDE DEF h
<1>3. Summed(f, gone, g, h)
  BY <1>1, <1>2 DEF Summed
<1> QED
  BY <1>3 DEF h, l

\* A table that a statement wrote.
LEMMA NumberedPut ==
  ASSUME NEW table, NEW rows, NEW gone, Numbered(table), Numbered(rows)
  PROVE  Numbered(Put(table, rows, gone))
BY DEF Numbered, Put, ++, Without, Restrict

\* A row that a statement does not delete, and moves up at most, has still reached a
\* version it had.
LEMMA AheadPut ==
  ASSUME NEW table, NEW rows, NEW gone, NEW x, Numbered(table), Numbered(rows),
         Ahead(table, x), x[2] \notin gone,
         \A i \in DOMAIN rows \cap DOMAIN table : table[i]["version"] <= rows[i]["version"]
  PROVE  Ahead(Put(table, rows, gone), x)
<1> DEFINE new == Put(table, rows, gone)
<1>1. /\ DOMAIN new = DOMAIN rows \cup (DOMAIN table \ gone)
      /\ \A i \in DOMAIN rows : new[i] = rows[i]
      /\ \A i \in DOMAIN table \ gone : i \notin DOMAIN rows => new[i] = table[i]
  BY DEF Put, ++, Without, Restrict
<1> HIDE DEF new
<1>2. CASE x[2] \in DOMAIN rows
  <2>1. /\ rows[x[2]]["version"] \in Int /\ table[x[2]]["version"] \in Int /\ x[3] \in Int
        /\ x[3] <= table[x[2]]["version"] /\ table[x[2]]["version"] <= rows[x[2]]["version"]
    BY <1>2 DEF Numbered, Ahead
  <2> QED
    BY <1>1, <1>2, <2>1 DEF Ahead, new
<1>3. CASE x[2] \notin DOMAIN rows
  BY <1>1, <1>3 DEF Ahead, new
<1> QED
  BY <1>2, <1>3

\* The invariant looks at the tables and at four fields of the transaction.
LEMMA WonSame ==
  ASSUME WonInv, UNCHANGED <<tables, won>>, tx'.rows = tx.rows, tx'.touched = tx.touched,
         tx'.deleted = tx.deleted, tx'.won = tx.won
  PROVE  WonInv'
<1>1. \A t : Own(t)' = Own(t)
  BY DEF Own
<1> QED
  BY <1>1 DEF WonInv

\* Nothing is written by a transaction that was only begun, or is over.
LEMMA WonUntouched ==
  ASSUME \A t \in Guarded : Numbered(tables'[t]),
         \A x \in DOMAIN won' : x[1] \in Guarded /\ won'[x] = 1 /\ Ahead(tables'[x[1]], x),
         \A t \in Types : DOMAIN tx'.rows[t] = {} /\ tx'.touched[t] = {},
         DOMAIN tx'.won = {}
  PROVE  WonInv'
<1>1. ASSUME NEW t \in Types
      PROVE  /\ DOMAIN Own(t)' = DOMAIN tables'[t]
             /\ \A i \in DOMAIN tables'[t] : Own(t)'[i] = tables'[t][i]
  <2> DEFINE rs == tx'.rows[t]
  <2> DEFINE tb == tables'[t]
  <2>1. Own(t)' = rs ++ Without(tb, {}) /\ DOMAIN rs = {}
    BY DEF Own
  <2> HIDE DEF rs, tb
  <2>2. /\ DOMAIN (rs ++ Without(tb, {})) = DOMAIN tb
        /\ \A i \in DOMAIN tb : (rs ++ Without(tb, {}))[i] = tb[i]
    BY <2>1, OwnUntouched
  <2> QED
    BY <2>1, <2>2 DEF rs, tb
<1>2. \A t \in Guarded : Numbered(Own(t)')
  BY <1>1, GuardedTypes DEF Numbered
<1>3. \A x \in DOMAIN won' : Ahead(Own(x[1])', x)
  BY <1>1, GuardedTypes DEF Ahead
<1> QED
  BY <1>2, <1>3 DEF WonInv

\* A statement keeps the invariant.
LEMMA StatementWon ==
  ASSUME TypeInv, WonInv, NEW n, NEW t, NEW rows, NEW gone, NEW wins,
         Stated(n, t, rows, gone), Written(n, t, rows, gone, wins),
         Climbs(View(n, t), t, rows, wins), UNCHANGED begun
  PROVE  WonInv'
<1>1. t \in Types /\ TablesShape /\ TxShape
  BY DEF Stated, TypeInv
<1>2. /\ \A x \in DOMAIN wins : wins[x] = 1
      /\ t \notin Guarded => DOMAIN wins = {}
  BY DEF Climbs
<1>3. \A u \in Types : Only(t, gone)[u] = IF u = t THEN gone ELSE {}
  BY DEF Only
<1>4. CASE InTx(n)
  <2>1. /\ UNCHANGED <<tables, won>> /\ tx'.by = tx.by
        /\ tx'.touched[t] = tx.touched[t] \cup DOMAIN rows \cup gone
        /\ tx'.deleted[t] = tx.deleted[t] \cup gone
        /\ tx'.won = Bags(Forget(tx.won, Only(t, gone)), wins)
        /\ \A u \in Types : u # t => /\ tx'.touched[u] = tx.touched[u]
                                     /\ tx'.deleted[u] = tx.deleted[u]
    BY <1>1, <1>4, WrittenTx
  <2>2. /\ View(n, t) = Own(t) /\ Own(t)' = Put(Own(t), rows, gone)
        /\ \A u \in Types : u # t => Own(u)' = Own(u)
    <3>1. InTx(n)'
      BY <1>4, <2>1 DEF InTx
    <3>2. /\ View(n, t)' = Put(View(n, t), rows, gone)
          /\ \A u \in Types : u # t => View(n, u)' = View(n, u)
      BY <1>1, WrittenView
    <3> QED
      BY <1>4, <3>1, <3>2 DEF View
  <2>3. t \in Guarded =>
          /\ Numbered(Own(t)) /\ Numbered(rows)
          /\ \A i \in DOMAIN rows \cap DOMAIN Own(t) : Own(t)[i]["version"] <= rows[i]["version"]
          /\ \A x \in DOMAIN wins :
               /\ x = <<t, x[2], x[3]>> /\ x[2] \in DOMAIN rows \cap DOMAIN Own(t)
               /\ x[3] = rows[x[2]]["version"] /\ x[3] = Own(t)[x[2]]["version"] + 1
    BY <2>2 DEF WonInv, Climbs
  <2>4. \A u \in Guarded : Numbered(Own(u)')
    BY <2>2, <2>3, NumberedPut, GuardedTypes DEF WonInv
  <2>5. ASSUME NEW x, x[1] \in Guarded, Ahead(Own(x[1]), x), x[1] = t => x[2] \notin gone
        PROVE  Ahead(Own(x[1])', x)
    BY <2>2, <2>3, <2>5, AheadPut, GuardedTypes
  <2>6. ASSUME NEW x \in DOMAIN won
        PROVE  /\ x[1] \in Guarded /\ won'[x] = 1 /\ Ahead(tables'[x[1]], x)
               /\ x[2] \notin tx'.deleted[x[1]] => Ahead(Own(x[1])', x)
    <3>1. x[1] \in Guarded /\ won'[x] = 1 /\ Ahead(tables'[x[1]], x)
      BY <2>1 DEF WonInv
    <3>2. ASSUME x[2] \notin tx'.deleted[x[1]] PROVE Ahead(Own(x[1])', x)
      <4>1. x[2] \notin tx.deleted[x[1]] /\ (x[1] = t => x[2] \notin gone)
        BY <2>1, <3>1, <3>2, GuardedTypes
      <4>2. Ahead(Own(x[1]), x)
        BY <4>1 DEF WonInv
      <4> QED
        BY <2>5, <3>1, <4>1, <4>2
    <3> QED
      BY <3>1, <3>2
  <2>7. /\ DOMAIN tx'.won = {x \in DOMAIN tx.won : x[2] \notin Only(t, gone)[x[1]]} \cup DOMAIN wins
        /\ \A x \in DOMAIN tx'.won :
             tx'.won[x] = (IF x \in DOMAIN tx.won /\ x[2] \notin Only(t, gone)[x[1]]
                           THEN tx.won[x] ELSE 0)
                          + (IF x \in DOMAIN wins THEN wins[x] ELSE 0)
    <3>1. Summed(tx.won, Only(t, gone), wins, tx'.won)
      BY <2>1, BagsAt
    <3> QED
      BY <3>1 DEF Summed
  <2>8. ASSUME NEW x \in DOMAIN wins
        PROVE  /\ x[1] = t /\ t \in Guarded /\ x[2] \in DOMAIN rows /\ x \notin DOMAIN tx.won
               /\ Ahead(Own(t)', x) /\ ~ Ahead(Own(t), x)
    <3>1. /\ t \in Guarded /\ x = <<t, x[2], x[3]>> /\ x[2] \in DOMAIN rows \cap DOMAIN Own(t)
          /\ x[3] = rows[x[2]]["version"] /\ x[3] = Own(t)[x[2]]["version"] + 1
          /\ rows[x[2]]["version"] \in Int /\ Own(t)[x[2]]["version"] \in Int
      BY <1>2, <2>3 DEF Numbered
    <3>2. x[1] = t
      BY <3>1
    <3>3. ~ Ahead(Own(t), x)
      BY <3>1 DEF Ahead
    <3>4. x \notin DOMAIN tx.won
      BY <3>2, <3>3 DEF WonInv
    <3>5. x[2] \in DOMAIN Own(t)' /\ Own(t)'[x[2]] = rows[x[2]]
      BY <2>2, <3>1 DEF Put, ++
    <3>6. x[3] \in Int /\ x[3] <= Own(t)'[x[2]]["version"]
      <4>1. Own(t)'[x[2]]["version"] = x[3]
        BY <3>1, <3>5
      <4>2. x[3] \in Int
        BY <3>1
      <4> QED
        BY <4>1, <4>2
    <3>7. Ahead(Own(t)', x)
      BY <3>5, <3>6 DEF Ahead
    <3> QED
      BY <3>1, <3>2, <3>3, <3>4, <3>7
  <2>9. ASSUME NEW x \in DOMAIN tx'.won
        PROVE  /\ x[1] \in Guarded /\ tx'.won[x] = 1 /\ Ahead(Own(x[1])', x)
               /\ x[2] \in tx'.touched[x[1]]
               /\ x \in DOMAIN won => x[2] \in tx'.deleted[x[1]]
    <3>1. CASE x \in DOMAIN wins
      <4>1. tx'.won[x] = 1
        BY <1>2, <2>7, <2>8, <3>1
      <4>2. x[2] \in tx'.touched[x[1]]
        BY <2>1, <2>8, <3>1
      <4>3. x \in DOMAIN won => x[2] \in tx'.deleted[x[1]]
        BY <2>1, <2>8, <3>1 DEF WonInv
      <4> QED
        BY <2>8, <3>1, <4>1, <4>2, <4>3
    <3>2. CASE x \notin DOMAIN wins
      <4>1. x \in DOMAIN tx.won /\ x[2] \notin Only(t, gone)[x[1]]
        BY <2>7, <3>2
      <4>2. /\ x[1] \in Guarded /\ tx.won[x] = 1 /\ Ahead(Own(x[1]), x)
            /\ x[2] \in tx.touched[x[1]] /\ (x \in DOMAIN won => x[2] \in tx.deleted[x[1]])
        BY <4>1 DEF WonInv
      <4>3. tx'.won[x] = 1
        BY <2>7, <3>2, <4>1, <4>2
      <4>4. x[1] = t => x[2] \notin gone
        BY <1>1, <1>3, <4>1
      <4>5. Ahead(Own(x[1])', x)
        BY <2>5, <4>2, <4>4
      <4>6. x[2] \in tx'.touched[x[1]] /\ (x \in DOMAIN won => x[2] \in tx'.deleted[x[1]])
        BY <2>1, <4>2, GuardedTypes
      <4> QED
        BY <4>2, <4>3, <4>5, <4>6
    <3> QED
      BY <3>1, <3>2
  <2> QED
    BY <2>1, <2>4, <2>6, <2>9 DEF WonInv
<1>5. CASE ~ InTx(n)
  <2>1. /\ UNCHANGED tx /\ tables'[t] = Put(tables[t], rows, gone)
        /\ \A u \in Types : u # t => tables'[u] = tables[u]
        /\ won' = Bags(Forget(won, Only(t, gone)), wins)
    BY <1>1, <1>5, WrittenPlain
  <2>2. View(n, t) = tables[t] /\ ~ Waits(n, t, rows, gone)
    BY <1>5 DEF View, Stated
  <2>3. /\ Own(t)' = Put(Own(t), rows, gone) /\ \A u \in Types : u # t => Own(u)' = Own(u)
    BY <1>1, <1>5, <2>2, WrittenBeside
  <2>4. (DOMAIN rows \cup gone) \cap tx.touched[t] = {}
    BY <1>5, <2>2 DEF Waits
  <2>5. \A i \in DOMAIN rows \cap DOMAIN Own(t) : i \in DOMAIN tables[t] /\ Own(t)[i] = tables[t][i]
    <3>1. /\ DOMAIN Own(t) = DOMAIN tx.rows[t] \cup (DOMAIN tables[t] \ tx.touched[t])
          /\ \A i \in DOMAIN tables[t] \ tx.touched[t] :
               i \notin DOMAIN tx.rows[t] => Own(t)[i] = tables[t][i]
      BY OwnAt
    <3>2. DOMAIN tx.rows[t] \subseteq tx.touched[t]
      BY <1>1 DEF TxShape
    <3> QED
      BY <2>4, <3>1, <3>2
  <2>6. t \in Guarded =>
          /\ Numbered(tables[t]) /\ Numbered(Own(t)) /\ Numbered(rows)
          /\ \A i \in DOMAIN rows \cap DOMAIN tables[t] :
                tables[t][i]["version"] <= rows[i]["version"]
          /\ \A i \in DOMAIN rows \cap DOMAIN Own(t) : Own(t)[i]["version"] <= rows[i]["version"]
          /\ \A x \in DOMAIN wins :
               /\ x = <<t, x[2], x[3]>> /\ x[2] \in DOMAIN rows \cap DOMAIN tables[t]
               /\ x[3] = rows[x[2]]["version"] /\ x[3] = tables[t][x[2]]["version"] + 1
    BY <2>2, <2>5 DEF WonInv, Climbs
  <2>7. \A u \in Guarded : Numbered(tables'[u]) /\ Numbered(Own(u)')
    BY <2>1, <2>3, <2>6, NumberedPut, GuardedTypes DEF WonInv
  <2>8. ASSUME NEW x, x[1] \in Guarded, Ahead(tables[x[1]], x), x[1] = t => x[2] \notin gone
        PROVE  Ahead(tables'[x[1]], x)
    BY <2>1, <2>6, <2>8, AheadPut, GuardedTypes
  <2>9. ASSUME NEW x, x[1] \in Guarded, Ahead(Own(x[1]), x), x[1] = t => x[2] \notin gone
        PROVE  Ahead(Own(x[1])', x)
    BY <2>3, <2>6, <2>9, AheadPut, GuardedTypes
  <2>10. /\ DOMAIN won' = {x \in DOMAIN won : x[2] \notin Only(t, gone)[x[1]]} \cup DOMAIN wins
         /\ \A x \in DOMAIN won' :
              won'[x] = (IF x \in DOMAIN won /\ x[2] \notin Only(t, gone)[x[1]]
                         THEN won[x] ELSE 0)
                        + (IF x \in DOMAIN wins THEN wins[x] ELSE 0)
    <3>1. Summed(won, Only(t, gone), wins, won')
      BY <2>1, BagsAt
    <3> QED
      BY <3>1 DEF Summed
  <2>11. ASSUME NEW x \in DOMAIN wins
         PROVE  /\ x[1] = t /\ t \in Guarded /\ x[2] \in DOMAIN rows /\ x \notin DOMAIN won
                /\ Ahead(tables'[t], x) /\ Ahead(Own(t)', x)
    <3>1. /\ t \in Guarded /\ x = <<t, x[2], x[3]>> /\ x[2] \in DOMAIN rows \cap DOMAIN tables[t]
          /\ x[3] = rows[x[2]]["version"] /\ x[3] = tables[t][x[2]]["version"] + 1
          /\ rows[x[2]]["version"] \in Int /\ tables[t][x[2]]["version"] \in Int
      BY <1>2, <2>6 DEF Numbered
    <3>2. x[1] = t
      BY <3>1
    <3>3. ~ Ahead(tables[t], x)
      BY <3>1 DEF Ahead
    <3>4. x \notin DOMAIN won
      BY <3>2, <3>3 DEF WonInv
    <3>5. /\ x[2] \in DOMAIN Own(t)' /\ Own(t)'[x[2]] = rows[x[2]]
          /\ x[2] \in DOMAIN tables'[t] /\ tables'[t][x[2]] = rows[x[2]]
      BY <2>1, <2>3, <3>1 DEF Put, ++
    <3>6. /\ x[3] \in Int /\ x[3] <= Own(t)'[x[2]]["version"]
          /\ x[3] <= tables'[t][x[2]]["version"]
      <4>1. Own(t)'[x[2]]["version"] = x[3] /\ tables'[t][x[2]]["version"] = x[3]
        BY <3>1, <3>5
      <4>2. x[3] \in Int
        BY <3>1
      <4> QED
        BY <4>1, <4>2
    <3>7. Ahead(tables'[t], x) /\ Ahead(Own(t)', x)
      BY <3>5, <3>6 DEF Ahead
    <3> QED
      BY <3>1, <3>2, <3>4, <3>7
  <2>12. ASSUME NEW x \in DOMAIN won'
         PROVE  /\ x[1] \in Guarded /\ won'[x] = 1 /\ Ahead(tables'[x[1]], x)
                /\ x[2] \notin tx.deleted[x[1]] => Ahead(Own(x[1])', x)
    <3>1. CASE x \in DOMAIN wins
      <4>1. won'[x] = 1
        BY <1>2, <2>10, <2>11, <3>1
      <4> QED
        BY <2>11, <3>1, <4>1
    <3>2. CASE x \notin DOMAIN wins
      <4>1. x \in DOMAIN won /\ x[2] \notin Only(t, gone)[x[1]]
        BY <2>10, <3>2
      <4>2. /\ x[1] \in Guarded /\ won[x] = 1 /\ Ahead(tables[x[1]], x)
            /\ x[2] \notin tx.deleted[x[1]] => Ahead(Own(x[1]), x)
        BY <4>1 DEF WonInv
      <4>3. won'[x] = 1
        BY <2>10, <3>2, <4>1, <4>2
      <4>4. x[1] = t => x[2] \notin gone
        BY <1>1, <1>3, <4>1
      <4> QED
        BY <2>8, <2>9, <4>2, <4>3, <4>4
    <3> QED
      BY <3>1, <3>2
  <2>13. ASSUME NEW x \in DOMAIN tx.won
         PROVE  /\ x[1] \in Guarded /\ tx.won[x] = 1 /\ Ahead(Own(x[1])', x)
                /\ x[2] \in tx.touched[x[1]]
                /\ x \in DOMAIN won' => x[2] \in tx.deleted[x[1]]
    <3>1. /\ x[1] \in Guarded /\ tx.won[x] = 1 /\ Ahead(Own(x[1]), x)
          /\ x[2] \in tx.touched[x[1]] /\ (x \in DOMAIN won => x[2] \in tx.deleted[x[1]])
      BY DEF WonInv
    <3>2. x[1] = t => x[2] \notin gone /\ x[2] \notin DOMAIN rows
      BY <2>4, <3>1
    <3>3. Ahead(Own(x[1])', x)
      BY <2>9, <3>1, <3>2
    <3>4. x \notin DOMAIN wins
      BY <2>11, <3>2
    <3>5. x \in DOMAIN won' => x \in DOMAIN won
      BY <2>10, <3>4
    <3> QED
      BY <3>1, <3>3, <3>5
  <2> QED
    BY <2>1, <2>7, <2>12, <2>13 DEF WonInv
<1> QED
  BY <1>4, <1>5

\* Every step does.
LEMMA StepWon ==
  ASSUME TypeInv, BuildersHeld, WonInv, [Next]_vars
  PROVE  WonInv'
<1>1. ASSUME NEW w \in Workers, NEW c \in Clients, Begin(w, c) PROVE WonInv'
  <2>1. /\ tx'.rows = NoTx.rows /\ tx'.touched = NoTx.touched /\ tx'.won = NoTx.won
        /\ UNCHANGED <<tables, won>>
    BY <1>1 DEF Begin, NoTx
  <2>2. DOMAIN tx'.won = {} /\ \A t \in Types : DOMAIN tx'.rows[t] = {} /\ tx'.touched[t] = {}
    BY <2>1, NoTxShape
  <2>3. /\ \A t \in Guarded : Numbered(tables'[t])
        /\ \A x \in DOMAIN won' : x[1] \in Guarded /\ won'[x] = 1 /\ Ahead(tables'[x[1]], x)
    BY <2>1 DEF WonInv
  <2> QED
    BY <2>2, <2>3, WonUntouched
<1>2. ASSUME NEW w \in Workers, tx' = NoTx, UNCHANGED <<tables, won>> PROVE WonInv'
  <2>1. DOMAIN tx'.won = {} /\ \A t \in Types : DOMAIN tx'.rows[t] = {} /\ tx'.touched[t] = {}
    BY <1>2, NoTxShape
  <2>2. /\ \A t \in Guarded : Numbered(tables'[t])
        /\ \A x \in DOMAIN won' : x[1] \in Guarded /\ won'[x] = 1 /\ Ahead(tables'[x[1]], x)
    BY <1>2 DEF WonInv
  <2> QED
    BY <2>1, <2>2, WonUntouched
<1>3. ASSUME NEW w \in Workers, Commit(w), ~ tx.aborted PROVE WonInv'
  <2>1. /\ tx' = NoTx /\ \A t \in Types : tables'[t] = Own(t)
        /\ won' = Bags(Forget(won, tx.deleted), tx.won)
    BY <1>3 DEF Commit
  <2>2. DOMAIN tx'.won = {} /\ \A t \in Types : DOMAIN tx'.rows[t] = {} /\ tx'.touched[t] = {}
    BY <2>1, NoTxShape
  <2>3. \A t \in Guarded : Numbered(tables'[t])
    BY <2>1, GuardedTypes DEF WonInv
  <2>4. /\ DOMAIN won' = {x \in DOMAIN won : x[2] \notin tx.deleted[x[1]]} \cup DOMAIN tx.won
        /\ \A x \in DOMAIN won' :
             won'[x] = (IF x \in DOMAIN won /\ x[2] \notin tx.deleted[x[1]] THEN won[x] ELSE 0)
                       + (IF x \in DOMAIN tx.won THEN tx.won[x] ELSE 0)
    <3>1. Summed(won, tx.deleted, tx.won, won')
      BY <2>1, BagsAt
    <3> QED
      BY <3>1 DEF Summed
  <2>5. ASSUME NEW x \in DOMAIN won'
        PROVE  x[1] \in Guarded /\ won'[x] = 1 /\ Ahead(tables'[x[1]], x)
    <3>1. CASE x \in DOMAIN tx.won
      <4>1. /\ x[1] \in Guarded /\ tx.won[x] = 1 /\ Ahead(Own(x[1]), x)
            /\ x \in DOMAIN won => x[2] \in tx.deleted[x[1]]
        BY <3>1 DEF WonInv
      <4> QED
        BY <2>1, <2>4, <3>1, <4>1, GuardedTypes
    <3>2. CASE x \notin DOMAIN tx.won
      <4>1. x \in DOMAIN won /\ x[2] \notin tx.deleted[x[1]]
        BY <2>4, <3>2
      <4>2. x[1] \in Guarded /\ won[x] = 1 /\ Ahead(Own(x[1]), x)
        BY <4>1 DEF WonInv
      <4> QED
        BY <2>1, <2>4, <3>2, <4>1, <4>2, GuardedTypes
    <3> QED
      BY <3>1, <3>2
  <2> QED
    BY <2>2, <2>3, <2>5, WonUntouched
<1>4. ASSUME NEW w \in Workers, Save(w) PROVE WonInv'
  <2>1. SaveDoes(w)
    BY <1>4, SavesDo
  <2>2. UNCHANGED begun
    BY <2>1 DEF SaveDoes, Answered
  <2>3. CASE UNCHANGED <<tables, tx, won>>
    BY <2>3, WonSame
  <2>4. CASE Failed(builder[w].tx)
    BY <2>4, WonSame, FailedShape DEF TypeInv
  <2>5. CASE \E t, rows, gone, wins :
               /\ Stated(builder[w].tx, t, rows, gone)
               /\ Written(builder[w].tx, t, rows, gone, wins)
               /\ (\A j \in DOMAIN builder[w].muts : VersionHeld(builder[w].muts[j]))
                    => Climbs(View(builder[w].tx, t), t, rows, wins)
    <3>1. \A j \in DOMAIN builder[w].muts : VersionHeld(builder[w].muts[j])
      BY DEF BuildersHeld
    <3> QED
      BY <2>2, <2>5, <3>1, StatementWon
  <2> QED
    BY <2>1, <2>3, <2>4, <2>5 DEF SaveDoes
<1>5. ASSUME UNCHANGED <<tables, tx, won>> PROVE WonInv'
  BY <1>5, WonSame
<1>6. ASSUME NEW w \in Workers,
             \/ BeginAgain(w)
             \/ \E i \in DOMAIN Programs, n \in {0, begun} : Build(w, i, n)
             \/ AskOld(w)
             \/ \E i \in DOMAIN Questions, n \in {0, begun} : Ask(w, Questions[i], n)
      PROVE  UNCHANGED <<tables, tx, won>>
  BY <1>6 DEF BeginAgain, Build, AskOld, Ask
<1>7. ASSUME NEW w \in Workers, Commit(w) \/ Rollback(w) PROVE WonInv'
  <2>1. \/ tx' = NoTx /\ UNCHANGED <<tables, won>>
        \/ Commit(w) /\ ~ tx.aborted
    BY <1>7 DEF Commit, Rollback
  <2> QED
    BY <1>2, <1>3, <2>1
<1>8. CASE UNCHANGED vars
  BY <1>5, <1>8 DEF vars
<1> QED
  BY <1>1, <1>4, <1>5, <1>6, <1>7, <1>8 DEF Next

\* It holds at the start.
LEMMA InitWon ==
  ASSUME Init
  PROVE  WonInv /\ BuildersHeld
<1>1. tables = Seed /\ tx = NoTx /\ DOMAIN won = {} /\ \A w \in Workers : builder[w] = Idle
  BY DEF Init
<1>2. BuildersHeld
  BY <1>1 DEF BuildersHeld, Idle
<1>3. ASSUME NEW t \in Guarded PROVE Numbered(tables[t])
  <2>1. t \in Types
    BY GuardedTypes
  <2>2. \A i \in DOMAIN Seed[t] : "version" \in DOMAIN Seed[t][i]
    BY <2>1, SeedAssumption, ColumnFacts DEF Store!ValidTable, Store!ValidRow
  <2> QED
    BY <1>1, <2>2, VersionAssumption DEF Numbered
<1>4. ASSUME NEW t \in Guarded PROVE Numbered(Own(t))
  <2> DEFINE rs == tx.rows[t]
  <2> DEFINE tb == tables[t]
  <2>1. Own(t) = rs ++ Without(tb, {}) /\ DOMAIN rs = {}
    BY <1>1, NoTxShape, GuardedTypes DEF Own
  <2> HIDE DEF rs, tb
  <2>2. /\ DOMAIN (rs ++ Without(tb, {})) = DOMAIN tb
        /\ \A i \in DOMAIN tb : (rs ++ Without(tb, {}))[i] = tb[i]
    BY <2>1, OwnUntouched
  <2> QED
    BY <1>3, <2>1, <2>2 DEF Numbered, tb
<1>5. DOMAIN tx.won = {}
  BY <1>1, NoTxShape
<1> QED
  BY <1>1, <1>2, <1>3, <1>4, <1>5 DEF WonInv

\* Of the updates that are made on condition of a row's version, as the payment
\* repository makes them (payment_repository.go), at most one moves a row to each next
\* version, for any number of workers, retries, bulk updates and transactions.
THEOREM VersionsWonOnce == Spec => []VersionWonOnce
<1>1. Init => WonInv /\ BuildersHeld
  BY InitWon
<1>2. TypeInv /\ BuildersHeld /\ [Next]_vars => BuildersHeld'
  BY StepHeld
<1>3. TypeInv /\ BuildersHeld /\ WonInv /\ [Next]_vars => WonInv'
  BY StepWon
<1>4. WonInv => VersionWonOnce
  BY DEF WonInv, VersionWonOnce
<1> QED
  BY <1>1, <1>2, <1>3, <1>4, ShapesHold, PTL DEF Spec

-----------------------------------------------------------------------------
(* Answers are exact.                                                      *)

\* What the builder's worker sees is what it saw, when no statement wrote.
LEMMA ViewSame ==
  ASSUME TypeInv, NEW n, NEW t, UNCHANGED begun, UNCHANGED <<tables, tx>> \/ Failed(n)
  PROVE  View(n, t)' = View(n, t)
<1>1. tables' = tables /\ tx'.by = tx.by /\ tx'.rows = tx.rows /\ tx'.touched = tx.touched
  BY DEF Failed, TypeInv, TxShape, TxFields
<1>2. InTx(n)' <=> InTx(n)
  BY <1>1 DEF InTx
<1>3. Own(t)' = Own(t)
  BY <1>1 DEF Own
<1> QED
  BY <1>1, <1>2, <1>3 DEF View

\* An answer that is an error.
LEMMA ErrorExact ==
  ASSUME TypeInv, NEW w \in Workers, NEW n, n = builder[w].tx, NEW m, NEW muts, NEW blank, NEW ms,
         NEW err, err # "none", Answered(w, ms, Nothing(err)),
         UNCHANGED <<tables, tx>> \/ Failed(n)
  PROVE  SavedAs(m, muts, blank, answer', View(n, m.type), View(n, m.type)')
<1>1. answer' = Nothing(err) /\ UNCHANGED begun
  BY DEF Answered
<1>2. View(n, m.type)' = View(n, m.type)
  BY <1>1, ViewSame
<1>3. answer'.err # "none"
  BY <1>1 DEF Nothing
<1> QED
  BY <1>2, <1>3 DEF SavedAs, Changed

\* A refused save answers why and did nothing.
LEMMA RefusedExact ==
  ASSUME TypeInv, NEW w \in Workers, NEW op \in Ops, SaveRefused(w, op, Prepared(builder[w])),
         NEW n, n = builder[w].tx, NEW m, NEW muts, NEW blank
  PROVE  SavedAs(m, muts, blank, answer', View(n, m.type), View(n, m.type)')
<1> DEFINE err == Prepared(builder[w]).stop
<1>1. /\ err # "none" /\ UNCHANGED <<tables, tx>>
      /\ \E ms : Answered(w, ms, Nothing(err))
  <2>1. IsBuilder(builder[w])
    BY DEF TypeInv, BuildersShape
  <2>2. err \in {"no", "rejected", "validation", "closed", "nothing"}
    BY <2>1, PreparedHeirs
  <2> QED
    BY <2>2 DEF SaveRefused
<1> HIDE DEF err
<1> QED
  BY <1>1, ErrorExact

\* The first mutation of a builder, prepared, is of the type it was of, and so on.
LEMMA FirstPrepared ==
  ASSUME TypeInv, NEW w \in Workers, NEW op \in Ops, Saving(w, op),
         Prepared(builder[w]).stop = "no"
  PROVE  /\ 1 \in DOMAIN builder[w].muts
         /\ Heir(Prepared(builder[w]).muts[1], builder[w].muts[1])
         /\ builder[w].muts[1].op = op /\ builder[w].muts[1].type \in Types
         /\ DOMAIN Prepared(builder[w]).muts = DOMAIN builder[w].muts
         /\ \A j \in DOMAIN builder[w].muts :
              Prepared(builder[w]).muts[j].id = builder[w].muts[j].id
         /\ ~ Silent(Prepared(builder[w]).muts[1])
<1> DEFINE b == builder[w]
<1> DEFINE p == Prepared(b)
<1>1. /\ 1 \in DOMAIN b.muts /\ DOMAIN p.muts = DOMAIN b.muts /\ p.muts[1].type \in Types
      /\ \A j \in DOMAIN b.muts : Heir(p.muts[j], b.muts[j])
  <2> HIDE DEF b
  <2> QED
    BY SavingFacts DEF b
<1>2. b.muts[1].op = op
  BY DEF Saving
<1>4. ~ Silent(p.muts[1])
  <2>1. IsBuilder(b) /\ b.muts # <<>>
    BY DEF TypeInv, BuildersShape, Saving
  <2> QED
    BY <2>1, PreparedHeirs
<1> HIDE DEF p, b
<1>3. p.muts[1].type = b.muts[1].type /\ \A j \in DOMAIN b.muts : p.muts[j].id = b.muts[j].id
  BY <1>1 DEF Heir
<1> QED
  BY <1>1, <1>2, <1>3, <1>4 DEF p, b

\* A mutation that is done sets what it set.
LEMMA SavedBlank ==
  ASSUME TypeInv, NEW w \in Workers, NEW k, NEW muts, NEW ans,
         IsMutation(k), 1 \in DOMAIN muts, k = muts[1], Answered(w, Done(muts), ans)
  PROVE  Blank(builder'[w].muts[1]) <=> Blank(k)
<1> DEFINE d == [k EXCEPT !.done = TRUE]
<1>1. builder'[w].muts[1] = d
  <2>1. builder'[w].muts = Done(muts)
    BY AnsweredAt DEF TypeInv
  <2>2. Done(muts)[1] = d
    BY DEF Done
  <2> QED
    BY <2>1, <2>2
<1>2. /\ d.type = k.type /\ d.op = k.op /\ d.set = k.set /\ d.add = k.add
      /\ d.cleared = k.cleared
  BY DEF IsMutation
<1> HIDE DEF d
<1> QED
  BY <1>1, <1>2 DEF Blank, Writes

\* An update that writes no column answers 0 and did nothing.
LEMMA NothingExact ==
  ASSUME TypeInv, NEW w \in Workers, SaveNothing(w, Prepared(builder[w])),
         NEW n, n = builder[w].tx, NEW muts, muts = builder[w].muts, NEW m, m = muts[1],
         NEW blank, blank = Blank(builder'[w].muts[1])
  PROVE  SavedAs(m, muts, blank, answer', View(n, m.type), View(n, m.type)')
<1> DEFINE p == Prepared(builder[w])
<1> DEFINE old == View(n, m.type)
<1>1. /\ Saving(w, "Update") /\ p.stop = "nothing"
      /\ Answered(w, Done(p.muts), Affected(0)) /\ UNCHANGED <<tables, tx, won>>
  BY DEF SaveNothing
<1>2. IsBuilder(builder[w]) /\ builder[w].muts # <<>> /\ m.op = "Update"
  BY <1>1 DEF TypeInv, BuildersShape, Saving
<1>3. 1 \in DOMAIN builder[w].muts
  BY <1>2 DEF IsBuilder
<1>4. /\ 1 \in DOMAIN p.muts /\ IsMutation(p.muts[1]) /\ Silent(p.muts[1])
  BY <1>1, <1>2, <1>3, PreparedHeirs DEF Heir
<1> HIDE DEF p
<1>5. blank
  BY <1>1, <1>4, SavedBlank DEF Silent
<1>6. answer'.n = 0 /\ answer'.err = "none" /\ UNCHANGED begun
  BY <1>1 DEF Answered, Affected
<1>7. View(n, m.type)' = old
  BY <1>1, <1>6, ViewSame
<1> HIDE DEF old
<1>8. Changed(old, old) = {}
  BY DEF Changed
<1>9. SavedAs(m, muts, blank, answer', old, old)
  BY <1>2, <1>5, <1>6, <1>8 DEF SavedAs
<1> QED
  BY <1>7, <1>9 DEF old

\* A create inserted the rows of its bulk, or none.
LEMMA CreateExact ==
  ASSUME TypeInv, NEW w \in Workers, SaveCreate(w, Prepared(builder[w])),
         NEW n, n = builder[w].tx, NEW muts, muts = builder[w].muts, NEW m, m = muts[1],
         NEW blank
  PROVE  SavedAs(m, muts, blank, answer', View(n, m.type), View(n, m.type)')
<1> DEFINE p == Prepared(builder[w])
<1> DEFINE t == p.muts[1].type
<1> DEFINE ids == {p.muts[j].id[1] : j \in DOMAIN p.muts}
<1> DEFINE rows == [i \in ids |-> CreateRow(CHOOSE k \in ToSet(p.muts) : k.id = <<i>>)]
<1>1. Saving(w, "Create") /\ p.stop = "no" /\ "Create" \in Ops
  BY DEF SaveCreate, Ops
<1>2. /\ m.op = "Create" /\ m.type \in Types /\ t = m.type
      /\ ids = {muts[j].id[1] : j \in DOMAIN muts}
  <2> HIDE DEF ids
  <2>1. /\ Heir(p.muts[1], m) /\ m.op = "Create" /\ m.type \in Types
        /\ DOMAIN p.muts = DOMAIN muts
        /\ \A j \in DOMAIN muts : p.muts[j].id = muts[j].id
    BY <1>1, FirstPrepared
  <2> HIDE DEF p
  <2>2. t = m.type
    BY <2>1 DEF Heir
  <2> QED
    BY <2>1, <2>2 DEF ids
<1>3. \/ Failed(n) /\ \E e \in {"database", "constraint"} : Answered(w, p.muts, Nothing(e))
      \/ /\ ids \cap DOMAIN View(n, t) = {}
         /\ Written(n, t, rows, {}, << >>)
         /\ Answered(w, Done(p.muts), Nodes({rows[i] ++ Zero[t] : i \in ids}))
  BY DEF SaveCreate
<1> HIDE DEF p
<1>4. CASE Failed(n) /\ \E e \in {"database", "constraint"} : Answered(w, p.muts, Nothing(e))
  BY <1>4, ErrorExact
<1>5. CASE /\ ids \cap DOMAIN View(n, t) = {}
           /\ Written(n, t, rows, {}, << >>)
           /\ Answered(w, Done(p.muts), Nodes({rows[i] ++ Zero[t] : i \in ids}))
  <2>1. DOMAIN rows = ids
    OBVIOUS
  <2> HIDE DEF rows, ids, t
  <2>2. UNCHANGED begun /\ answer'.err = "none"
    BY <1>5 DEF Answered, Nodes
  <2>3. View(n, m.type)' = Put(View(n, m.type), rows, {})
    BY <1>2, <1>5, <2>2, WrittenView DEF TypeInv
  <2> DEFINE old == View(n, m.type)
  <2> DEFINE new == View(n, m.type)'
  <2>4. new = Put(old, rows, {})
    BY <1>2, <2>3
  <2>5. ids \cap DOMAIN old = {}
    BY <1>2, <1>5
  <2> HIDE DEF old, new
  <2>6. /\ DOMAIN new = ids \cup DOMAIN old
        /\ \A i \in DOMAIN old : new[i] = old[i]
    BY <2>1, <2>4, <2>5 DEF Put, ++, Without, Restrict
  <2>7. Changed(old, new) = ids
    BY <2>5, <2>6 DEF Changed
  <2>8. SavedAs(m, muts, blank, answer', old, new)
    BY <1>2, <2>2, <2>5, <2>6, <2>7 DEF SavedAs
  <2> QED
    BY <2>8 DEF old, new
<1> QED
  BY <1>3, <1>4, <1>5

\* An update answers how many rows its predicates selected, and wrote no other.
LEMMA UpdateExact ==
  ASSUME TypeInv, NEW w \in Workers, SaveUpdate(w, Prepared(builder[w])),
         NEW n, n = builder[w].tx, NEW muts, muts = builder[w].muts, NEW m, m = muts[1],
         NEW blank, blank = Blank(builder'[w].muts[1])
  PROVE  SavedAs(m, muts, blank, answer', View(n, m.type), View(n, m.type)')
<1> DEFINE p == Prepared(builder[w])
<1> DEFINE k == p.muts[1]
<1> DEFINE view == View(n, k.type)
<1> DEFINE rows == [i \in Matching(view, k.where) |-> UpdateRow(k, view[i])]
<1>1. Saving(w, "Update") /\ p.stop = "no" /\ "Update" \in Ops
  BY DEF SaveUpdate, Ops
<1>2. /\ m.op = "Update" /\ m.type \in Types /\ k.type = m.type /\ k.where = m.where
      /\ IsMutation(k) /\ ~ Blank(k) /\ 1 \in DOMAIN p.muts
  <2>1. /\ Heir(k, m) /\ m.op = "Update" /\ m.type \in Types /\ ~ Silent(k)
        /\ 1 \in DOMAIN p.muts
    BY <1>1, FirstPrepared
  <2> HIDE DEF k
  <2> QED
    BY <2>1 DEF Heir, Silent
<1>3. \/ Failed(n) /\ Answered(w, p.muts, Nothing("constraint"))
      \/ /\ Written(n, k.type, rows, {}, Wins(k, rows))
         /\ Answered(w, Done(p.muts), Affected(Cardinality(DOMAIN rows)))
  BY DEF SaveUpdate
<1>6. ASSUME NEW ans, Answered(w, Done(p.muts), ans) PROVE ~ blank
  <2> HIDE DEF p
  <2> QED
    BY <1>2, <1>6, SavedBlank
<1> HIDE DEF p, k
<1>4. CASE Failed(n) /\ Answered(w, p.muts, Nothing("constraint"))
  BY <1>4, ErrorExact
<1>5. CASE /\ Written(n, k.type, rows, {}, Wins(k, rows))
           /\ Answered(w, Done(p.muts), Affected(Cardinality(DOMAIN rows)))
  <2>1. DOMAIN rows = Matching(view, k.where)
    OBVIOUS
  <2> HIDE DEF rows
  <2>2. UNCHANGED begun /\ answer'.err = "none" /\ answer'.n = Cardinality(DOMAIN rows)
    BY <1>5 DEF Answered, Affected
  <2>3. View(n, m.type)' = Put(View(n, m.type), rows, {})
    <3>1. \E wins : Written(n, m.type, rows, {}, wins)
      BY <1>2, <1>5
    <3> QED
      BY <1>2, <2>2, <3>1, WrittenView DEF TypeInv
  <2> DEFINE old == View(n, m.type)
  <2> DEFINE new == View(n, m.type)'
  <2>4. new = Put(old, rows, {}) /\ DOMAIN rows = Matching(old, m.where)
    BY <1>2, <2>1, <2>3
  <2> HIDE DEF old, new, view
  <2>5. DOMAIN rows \subseteq DOMAIN old
    BY <2>4 DEF Matching
  <2>6. /\ DOMAIN new = DOMAIN old
        /\ \A i \in DOMAIN old : i \notin DOMAIN rows => new[i] = old[i]
    BY <2>4, <2>5 DEF Put, ++, Without, Restrict
  <2>7. Changed(old, new) \subseteq Matching(old, m.where)
    BY <2>4, <2>6 DEF Changed
  <2>8. ~ blank
    BY <1>5, <1>6
  <2>9. SavedAs(m, muts, blank, answer', old, new)
    BY <1>2, <2>2, <2>4, <2>6, <2>7, <2>8 DEF SavedAs
  <2> QED
    BY <2>9 DEF old, new
<1> QED
  BY <1>3, <1>4, <1>5

\* An update of one row wrote no other.
LEMMA UpdateOneExact ==
  ASSUME TypeInv, NEW w \in Workers, SaveUpdateOne(w, Prepared(builder[w])),
         NEW n, n = builder[w].tx, NEW muts, muts = builder[w].muts, NEW m, m = muts[1],
         NEW blank
  PROVE  SavedAs(m, muts, blank, answer', View(n, m.type), View(n, m.type)')
<1> DEFINE p == Prepared(builder[w])
<1> DEFINE k == p.muts[1]
<1> DEFINE view == View(n, k.type)
<1> DEFINE id == k.id[1]
<1> DEFINE rows == IF Blank(k) THEN << >> ELSE One(id, UpdateRow(k, view[id]))
<1>1. Saving(w, "UpdateOne") /\ p.stop = "no" /\ "UpdateOne" \in Ops
  BY DEF SaveUpdateOne, Ops
<1>2. m.op = "UpdateOne" /\ m.type \in Types /\ k.type = m.type /\ k.id = m.id
  <2>1. Heir(k, m) /\ m.op = "UpdateOne" /\ m.type \in Types
    BY <1>1, FirstPrepared
  <2> HIDE DEF k
  <2> QED
    BY <2>1 DEF Heir
<1>3. \/ /\ UNCHANGED <<tables, tx>> \/ Failed(n)
         /\ \E e \in {"notfound", "constraint"} : Answered(w, p.muts, Nothing(e))
      \/ /\ id \in DOMAIN view
         /\ Written(n, k.type, rows, {}, << >>)
         /\ \E nodes : Answered(w, Done(p.muts), Nodes(nodes))
  BY DEF SaveUpdateOne
<1> HIDE DEF p, k
<1>4. CASE /\ UNCHANGED <<tables, tx>> \/ Failed(n)
           /\ \E e \in {"notfound", "constraint"} : Answered(w, p.muts, Nothing(e))
  BY <1>4, ErrorExact
<1>5. CASE /\ id \in DOMAIN view
           /\ Written(n, k.type, rows, {}, << >>)
           /\ \E nodes : Answered(w, Done(p.muts), Nodes(nodes))
  <2>1. DOMAIN rows \subseteq {id}
    BY DEF One
  <2> HIDE DEF rows
  <2>2. UNCHANGED begun /\ answer'.err = "none"
    BY <1>5 DEF Answered, Nodes
  <2>3. View(n, m.type)' = Put(View(n, m.type), rows, {})
    BY <1>2, <1>5, <2>2, WrittenView DEF TypeInv
  <2> DEFINE old == View(n, m.type)
  <2> DEFINE new == View(n, m.type)'
  <2>4. new = Put(old, rows, {}) /\ id \in DOMAIN old /\ id = m.id[1]
    BY <1>2, <1>5, <2>3
  <2> HIDE DEF old, new, view, id
  <2>5. /\ DOMAIN new = DOMAIN old
        /\ \A i \in DOMAIN old : i # id => new[i] = old[i]
    BY <2>1, <2>4 DEF Put, ++, Without, Restrict
  <2>6. Changed(old, new) \subseteq {m.id[1]}
    BY <2>4, <2>5 DEF Changed
  <2>7. SavedAs(m, muts, blank, answer', old, new)
    BY <1>2, <2>2, <2>5, <2>6 DEF SavedAs
  <2> QED
    BY <2>7 DEF old, new
<1> QED
  BY <1>3, <1>4, <1>5

\* A delete answers by how many rows it left fewer, and left the others alone.
LEMMA DeleteExact ==
  ASSUME TypeInv, NEW w \in Workers, NEW op \in {"Delete", "DeleteOne"},
         ExecDelete(w, op, Prepared(builder[w])),
         NEW n, n = builder[w].tx, NEW muts, muts = builder[w].muts, NEW m, m = muts[1],
         NEW blank
  PROVE  SavedAs(m, muts, blank, answer', View(n, m.type), View(n, m.type)')
<1> DEFINE p == Prepared(builder[w])
<1> DEFINE k == p.muts[1]
<1> DEFINE view == View(n, k.type)
<1> DEFINE gone == {i \in Matching(view, k.where) : k.id \in {<<>>, <<i>>}}
<1> DEFINE ans == IF op = "DeleteOne" /\ gone = {} THEN Nothing("notfound")
                  ELSE Affected(Cardinality(gone))
<1>1. Saving(w, op) /\ p.stop = "no" /\ op \in Ops
  BY DEF ExecDelete, Ops
<1>2. m.op = op /\ m.type \in Types /\ k.type = m.type
  <2>1. Heir(k, m) /\ m.op = op /\ m.type \in Types
    BY <1>1, FirstPrepared
  <2> HIDE DEF k
  <2> QED
    BY <2>1 DEF Heir
<1>3. Written(n, k.type, << >>, gone, << >>) /\ Answered(w, Done(p.muts), ans)
  BY DEF ExecDelete
<1> HIDE DEF p, k
<1>4. gone \subseteq DOMAIN view
  BY DEF Matching
<1>5. /\ ans.err # "none" => gone = {}
      /\ ans.err = "none" => ans.n = Cardinality(gone)
  <2> HIDE DEF gone
  <2> QED
    BY DEF Nothing, Affected
<1> HIDE DEF gone, ans
<1>6. UNCHANGED begun /\ answer' = ans
  BY <1>3 DEF Answered
<1>7. View(n, m.type)' = Put(View(n, m.type), << >>, gone)
  BY <1>2, <1>3, <1>6, WrittenView DEF TypeInv
<1>8. IsFiniteSet(DOMAIN view)
  BY <1>2, ViewShape DEF TypeInv
<1> DEFINE old == View(n, m.type)
<1> DEFINE new == View(n, m.type)'
<1>9. new = Put(old, << >>, gone) /\ IsFiniteSet(DOMAIN old) /\ gone \subseteq DOMAIN old
  BY <1>2, <1>4, <1>7, <1>8
<1> HIDE DEF old, new, view
<1>10. DOMAIN new = DOMAIN old \ gone /\ \A i \in DOMAIN new : new[i] = old[i]
  BY <1>9 DEF Put, ++, Without, Restrict
<1>11. gone = {} => Changed(old, new) = {}
  BY <1>9, <1>10 DEF Changed
<1>12. Cardinality(gone) = Cardinality(DOMAIN old) - Cardinality(DOMAIN new)
  <2>1. DOMAIN old \cap gone = gone
    BY <1>9
  <2>2. Cardinality(DOMAIN new) = Cardinality(DOMAIN old) - Cardinality(gone)
    BY <1>9, <1>10, <2>1, FS_Difference
  <2>3. Cardinality(DOMAIN old) \in Nat /\ Cardinality(gone) \in Nat
    BY <1>9, FS_CardinalityType, FS_Subset
  <2> QED
    BY <2>2, <2>3
<1>13. SavedAs(m, muts, blank, ans, old, new)
  BY <1>2, <1>5, <1>9, <1>10, <1>11, <1>12 DEF SavedAs
<1> QED
  BY <1>6, <1>13 DEF old, new

\* Every save.
LEMMA SaveExact ==
  ASSUME TypeInv, NEW w \in Workers, Save(w),
         NEW n, n = builder[w].tx, NEW muts, muts = builder[w].muts, NEW m, m = muts[1],
         NEW blank, blank = Blank(builder'[w].muts[1])
  PROVE  SavedAs(m, muts, blank, answer', View(n, m.type), View(n, m.type)')
<1> DEFINE p == Prepared(builder[w])
<1>1. CASE \E op \in Ops : SaveRefused(w, op, p)
  BY <1>1, RefusedExact
<1>2. CASE SaveCreate(w, p)
  BY <1>2, CreateExact
<1>3. CASE SaveUpdate(w, p)
  BY <1>3, UpdateExact
<1>6. CASE SaveNothing(w, p)
  BY <1>6, NothingExact
<1>4. CASE SaveUpdateOne(w, p)
  BY <1>4, UpdateOneExact
<1>5. CASE \E op \in {"Delete", "DeleteOne"} : ExecDelete(w, op, p)
  BY <1>5, DeleteExact
<1> QED
  BY <1>1, <1>2, <1>3, <1>4, <1>5, <1>6 DEF Save

\* Only a save counts as one, and it leaves the builder what it was of.
LEMMA OnlySaves ==
  ASSUME TypeInv, [Next]_vars, NEW w \in Workers, builder'[w].saves = builder[w].saves + 1
  PROVE  /\ Save(w) /\ builder'[w].tx = builder[w].tx
         /\ builder'[w].muts[1].type = builder[w].muts[1].type
<1>1. builder[w].saves \in Nat /\ w \in DOMAIN builder
  BY DEF TypeInv, BuildersShape, IsBuilder
<1>2. ASSUME NEW v \in Workers, Save(v)
      PROVE  /\ v = w /\ builder'[v].tx = builder[v].tx
             /\ builder'[v].muts[1].type = builder[v].muts[1].type
  <2>1. SaveDoes(v)
    BY <1>2, SavesDo
  <2>2. PICK muts, ans : /\ Answered(v, muts, ans) /\ 1 \in DOMAIN builder[v].muts
                         /\ \A j \in DOMAIN builder[v].muts : Heir(muts[j], builder[v].muts[j])
    BY <2>1 DEF SaveDoes
  <2>3. builder' = [builder EXCEPT ![v].muts = muts, ![v].saves = @ + 1]
    BY <2>2 DEF Answered
  <2>4. v = w
    BY <1>1, <2>3
  <2>5. IsBuilder(builder[v])
    BY DEF TypeInv, BuildersShape
  <2>6. builder'[v].tx = builder[v].tx /\ builder'[v].muts = muts
    BY <1>1, <2>3, <2>4, <2>5 DEF IsBuilder
  <2>7. muts[1].type = builder[v].muts[1].type
    BY <2>2 DEF Heir
  <2> QED
    BY <2>4, <2>6, <2>7
<1>3. ASSUME NEW v \in Workers, NEW i \in DOMAIN Programs, NEW n \in {0, begun}, Build(v, i, n)
      PROVE  FALSE
  <2>1. builder'[v].saves = 0 /\ \A u \in Workers \ {v} : builder'[u] = builder[u]
    BY <1>3 DEF Build, TypeInv, BuildersShape
  <2> QED
    BY <1>1, <2>1
<1>4. ASSUME NEW v \in Workers, AskOld(v)
      PROVE  FALSE
  <2>1. \E muts : builder' = [builder EXCEPT ![v].muts = muts]
    BY <1>4 DEF AskOld
  <2>2. IsBuilder(builder[v])
    BY DEF TypeInv, BuildersShape
  <2>3. builder'[w].saves = builder[w].saves
    BY <1>1, <2>1, <2>2 DEF IsBuilder
  <2> QED
    BY <1>1, <2>3
<1>5. ASSUME UNCHANGED builder PROVE FALSE
  BY <1>1, <1>5
<1>6. ASSUME NEW v \in Workers,
             \/ \E c \in Clients : Begin(v, c)
             \/ BeginAgain(v)
             \/ Commit(v)
             \/ Rollback(v)
             \/ \E i \in DOMAIN Questions, n \in {0, begun} : Ask(v, Questions[i], n)
      PROVE  FALSE
  BY <1>5, <1>6 DEF Begin, BeginAgain, Commit, Rollback, Ask
<1>7. ~ UNCHANGED vars
  BY <1>5 DEF vars
<1> QED
  BY <1>2, <1>3, <1>4, <1>6, <1>7 DEF Next

\* Every step that counts as a save.
LEMMA StepExact ==
  ASSUME TypeInv, [Next]_vars
  PROVE  ExactStep
<1>1. ASSUME NEW w \in Workers, builder'[w].saves = builder[w].saves + 1,
             NEW n, n = builder[w].tx, NEW muts, muts = builder[w].muts, NEW m, m = muts[1],
             NEW blank, blank = Blank(builder'[w].muts[1])
      PROVE  /\ SavedAs(m, muts, blank, answer', View(n, m.type), View(n, m.type)')
             /\ n = builder'[w].tx /\ m.type = builder'[w].muts[1].type
  <2>1. /\ Save(w) /\ builder'[w].tx = builder[w].tx
        /\ builder'[w].muts[1].type = builder[w].muts[1].type
    BY <1>1, OnlySaves
  <2> QED
    BY <1>1, <2>1, SaveExact
<1>2. ASSUME NEW w \in Workers, builder'[w].saves = builder[w].saves + 1
      PROVE  SavedAs(builder[w].muts[1], builder[w].muts, Blank(builder'[w].muts[1]), answer',
                     View(builder[w].tx, builder[w].muts[1].type),
                     View(builder[w].tx, builder[w].muts[1].type)')
  BY <1>1, <1>2
<1> QED
  BY <1>2 DEF ExactStep

\* What a save answers is what it did, as its worker then sees it: an error left every
\* row as it was, a bulk inserted all its rows or none, a count is of the rows
\* selected, and no other row was written (sqlSave and sqlExec of the builders).
THEOREM AnswersAreExact == Spec => AnswersExact
<1>1. TypeInv /\ [Next]_vars => [ExactStep]_vars
  BY StepExact
<1> QED
  BY <1>1, ShapesHold, PTL DEF Spec, AnswersExact

=============================================================================
