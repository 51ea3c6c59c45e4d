--------------------------- MODULE SecpCallsProofs ---------------------------
(***************************************************************************)
(* Proofs about the calls of secp256k1.c: the contexts own their tables,   *)
(* for any heap; what was signed verifies and recovers the signer's key,   *)
(* and a key pair stays one under every sequence of tweaks, for any curve  *)
(* that satisfies GroupAssumption and any keys, messages and nonces.       *)
(***************************************************************************)
EXTENDS SecpContext, KeyCalls, SigCalls, DataLemmas

\* A context that is made: it has a block of its own, and its tables' if any.
IsContext(c) ==
    /\ DOMAIN c = {"pre_g", "pre_g_128", "prec", "prec_switch", "self", "illegal", "blind"}
    /\ c.self \in Blocks
    /\ {c.pre_g, c.pre_g_128, c.prec, c.prec_switch} \subseteq Blocks \cup {NULL}
    /\ (c.pre_g = NULL) <=> (c.pre_g_128 = NULL)
    /\ (c.prec = NULL) <=> (c.prec_switch = NULL)

\* The blocks of the heap h are those that the contexts of c point to: each holds
\* what its pointer expects, has no other pointer, and there are no others.
Owned(h, c) ==
    /\ \A s \in Slots, i \in 1 .. 5 :
         c[s] # NoCtx /\ Fields(c[s])[i] # NULL => h[Fields(c[s])[i]] = Kinds[i]
    /\ \A s, t \in Slots, i, j \in 1 .. 5 :
         /\ c[s] # NoCtx /\ c[t] # NoCtx
         /\ Fields(c[s])[i] # NULL /\ Fields(c[s])[i] = Fields(c[t])[j]
         => s = t /\ i = j
    /\ \A b \in Blocks : h[b] # Free =>
         \E s \in Slots, i \in 1 .. 5 : c[s] # NoCtx /\ Fields(c[s])[i] = b

\* The inductive invariant: a context owns what it points to.
CtxInv ==
    /\ DOMAIN heap = Blocks /\ DOMAIN ctx = Slots /\ ~broken
    /\ \A s \in Slots : ctx[s] = NoCtx \/ IsContext(ctx[s])
    /\ Owned(heap, ctx)

-----------------------------------------------------------------------------
\* The pointers of a context, one by one.
LEMMA FieldsAre ==
    ASSUME NEW c
    PROVE  /\ Fields(c)[1] = c.pre_g /\ Fields(c)[2] = c.pre_g_128 /\ Fields(c)[3] = c.prec
           /\ Fields(c)[4] = c.prec_switch /\ Fields(c)[5] = c.self
           /\ DOMAIN Fields(c) = 1 .. 5
  BY DEF Fields

\* They are blocks or NULL, and a context is not the absence of one.
LEMMA PointersAre ==
    ASSUME NEW c, IsContext(c)
    PROVE  /\ c # NoCtx
           /\ \A i \in 1 .. 5 : Fields(c)[i] \in Blocks \cup {NULL}
<1>1. c # NoCtx
  BY BlocksAssumption DEF IsContext, NoCtx, NULL
<1>2. \A i \in 1 .. 5 : i = 1 \/ i = 2 \/ i = 3 \/ i = 4 \/ i = 5
  OBVIOUS
<1> QED BY <1>1, <1>2, FieldsAre DEF IsContext

\* A new context takes blocks that are free and fills them.
LEMMA NewContextOwns ==
    ASSUME CtxInv, NEW s \in Slots, ctx[s] = NoCtx, NEW kinds, NEW illegal, NEW blind,
           \A i \in 1 .. 5 : kinds[i] \in {"none", Kinds[i]},
           kinds[5] = "context", (kinds[1] = "none") <=> (kinds[2] = "none"),
           (kinds[3] = "none") <=> (kinds[4] = "none"),
           NewContext(s, kinds, illegal, blind)
    PROVE  CtxInv'
<1>1. CASE Exit
  BY <1>1 DEF Exit, CtxInv, Owned
<1>2. CASE ~Exit
  <2>1. PICK at \in checked_malloc(kinds) :
          /\ heap' = [b \in Blocks |-> IF \E i \in 1 .. 5 : at[i] = b
                                       THEN kinds[CHOOSE i \in 1 .. 5 : at[i] = b]
                                       ELSE heap[b]]
          /\ ctx' = [ctx EXCEPT ![s] =
                [pre_g |-> at[1], pre_g_128 |-> at[2], prec |-> at[3], prec_switch |-> at[4],
                 self |-> at[5], illegal |-> illegal, blind |-> blind]]
          /\ UNCHANGED <<broken, exited>>
    BY <1>2 DEF NewContext
  <2> DEFINE c == [pre_g |-> at[1], pre_g_128 |-> at[2], prec |-> at[3], prec_switch |-> at[4],
                   self |-> at[5], illegal |-> illegal, blind |-> blind]
  <2>2. /\ \A i \in 1 .. 5 : at[i] = NULL \/ (at[i] \in Blocks /\ heap[at[i]] = Free)
        /\ \A i \in 1 .. 5 : (at[i] = NULL) <=> (kinds[i] = "none")
        /\ \A i, j \in 1 .. 5 : at[i] = at[j] /\ at[i] # NULL => i = j
    BY DEF checked_malloc
  <2>3. \A i \in 1 .. 5 : Fields(c)[i] = at[i]
    <3>1. \A i \in 1 .. 5 : i = 1 \/ i = 2 \/ i = 3 \/ i = 4 \/ i = 5
      OBVIOUS
    <3>2. /\ c.pre_g = at[1] /\ c.pre_g_128 = at[2] /\ c.prec = at[3]
          /\ c.prec_switch = at[4] /\ c.self = at[5]
      OBVIOUS
    <3> HIDE DEF c
    <3> QED BY <3>1, <3>2, FieldsAre
  <2>4. IsContext(c)
    <3>1. /\ at[5] \in Blocks /\ {at[1], at[2], at[3], at[4]} \subseteq Blocks \cup {NULL}
          /\ (at[1] = NULL) <=> (at[2] = NULL)
          /\ (at[3] = NULL) <=> (at[4] = NULL)
      BY <2>2
    <3> QED BY <3>1 DEF IsContext
  <2>5. ctx'[s] = c /\ DOMAIN ctx' = Slots /\ \A t \in Slots \ {s} : ctx'[t] = ctx[t]
    BY <2>1 DEF CtxInv
  <2>6. DOMAIN heap' = Blocks /\ ~broken'
    BY <2>1 DEF CtxInv
  <2>7. \A i \in 1 .. 5 : at[i] # NULL => heap'[at[i]] = Kinds[i]
    <3> SUFFICES ASSUME NEW i \in 1 .. 5, at[i] # NULL PROVE heap'[at[i]] = Kinds[i]
      OBVIOUS
    <3>1. (CHOOSE j \in 1 .. 5 : at[j] = at[i]) = i
      BY <2>2
    <3>2. at[i] \in Blocks /\ \E j \in 1 .. 5 : at[j] = at[i]
      BY <2>2
    <3>3. heap'[at[i]] = kinds[CHOOSE j \in 1 .. 5 : at[j] = at[i]]
      BY <2>1, <3>2
    <3>4. kinds[i] = Kinds[i]
      BY <2>2
    <3> QED BY <3>1, <3>3, <3>4
  <2>8. \A b \in Blocks : (\A i \in 1 .. 5 : at[i] # b) => heap'[b] = heap[b]
    BY <2>1
  <2>9. \A i \in 1 .. 5 : Kinds[i] # Free
    <3>1. \A i \in 1 .. 5 : i = 1 \/ i = 2 \/ i = 3 \/ i = 4 \/ i = 5
      OBVIOUS
    <3> QED BY <3>1 DEF Kinds, Free
  <2> HIDE DEF c
  <2>10. c # NoCtx
    BY <2>4, PointersAre
  <2>11. \A t \in Slots \ {s}, i \in 1 .. 5 :
           ctx[t] # NoCtx /\ Fields(ctx[t])[i] # NULL =>
             /\ Fields(ctx[t])[i] \in Blocks
             /\ \A j \in 1 .. 5 : at[j] # Fields(ctx[t])[i]
    <3> SUFFICES ASSUME NEW t \in Slots \ {s}, NEW i \in 1 .. 5,
                        ctx[t] # NoCtx, Fields(ctx[t])[i] # NULL
                 PROVE  /\ Fields(ctx[t])[i] \in Blocks
                        /\ \A j \in 1 .. 5 : at[j] # Fields(ctx[t])[i]
      OBVIOUS
    <3>1. Fields(ctx[t])[i] \in Blocks
      BY PointersAre DEF CtxInv
    <3>2. heap[Fields(ctx[t])[i]] = Kinds[i]
      BY DEF CtxInv, Owned
    <3> QED BY <2>2, <2>9, <3>1, <3>2
  <2>12. Owned(heap', ctx')
    <3>1. ASSUME NEW t \in Slots, NEW i \in 1 .. 5, ctx'[t] # NoCtx, Fields(ctx'[t])[i] # NULL
          PROVE  heap'[Fields(ctx'[t])[i]] = Kinds[i]
      <4>1. CASE t = s
        BY <2>3, <2>5, <2>7, <3>1, <4>1
      <4>2. CASE t # s
        BY <2>5, <2>8, <2>11, <3>1, <4>2 DEF CtxInv, Owned
      <4> QED BY <4>1, <4>2
    <3>2. ASSUME NEW t \in Slots, NEW u \in Slots, NEW i \in 1 .. 5, NEW j \in 1 .. 5,
                 ctx'[t] # NoCtx, ctx'[u] # NoCtx,
                 Fields(ctx'[t])[i] # NULL, Fields(ctx'[t])[i] = Fields(ctx'[u])[j]
          PROVE  t = u /\ i = j
      <4>1. CASE t = s /\ u = s
        BY <2>2, <2>3, <2>5, <3>2, <4>1
      <4>2. CASE t = s /\ u # s
        BY <2>3, <2>5, <2>11, <3>2, <4>2
      <4>3. CASE t # s /\ u = s
        BY <2>3, <2>5, <2>11, <3>2, <4>3
      <4>4. CASE t # s /\ u # s
        BY <2>5, <3>2, <4>4 DEF CtxInv, Owned
      <4> QED BY <4>1, <4>2, <4>3, <4>4
    <3>3. ASSUME NEW b \in Blocks, heap'[b] # Free
          PROVE  \E t \in Slots, i \in 1 .. 5 : ctx'[t] # NoCtx /\ Fields(ctx'[t])[i] = b
      <4>1. CASE \E i \in 1 .. 5 : at[i] = b
        BY <2>3, <2>5, <2>10, <4>1
      <4>2. CASE \A i \in 1 .. 5 : at[i] # b
        BY <2>5, <2>8, <3>3, <4>2 DEF CtxInv, Owned
      <4> QED BY <4>1, <4>2
    <3> QED BY <3>1, <3>2, <3>3 DEF Owned
  <2> QED BY <2>4, <2>5, <2>6, <2>12 DEF CtxInv
<1> QED BY <1>1, <1>2

\* Destroying a context frees its blocks, each once, and no other's.
LEMMA DestroyOwns ==
    ASSUME CtxInv, NEW s \in Slots, context_destroy(s)
    PROVE  CtxInv'
<1> DEFINE F == Fields(ctx[s])
<1>1. IsContext(ctx[s]) /\ ctx[s] # NoCtx
  BY DEF context_destroy, CtxInv
<1>2. DOMAIN F = 1 .. 5 /\ \A i \in 1 .. 5 : F[i] \in Blocks \cup {NULL}
  BY <1>1, PointersAre, FieldsAre
<1>3. /\ heap' = [b \in Blocks |-> IF \E i \in DOMAIN F : F[i] = b THEN Free ELSE heap[b]]
      /\ broken' = (broken \/ \E i \in DOMAIN F : F[i] # NULL /\
                      (heap[F[i]] = Free \/ \E j \in 1 .. i - 1 : F[j] = F[i]))
      /\ ctx' = [ctx EXCEPT ![s] = NoCtx]
  BY DEF context_destroy, release
<1>4. \A i \in 1 .. 5 : Kinds[i] # Free
  <2>1. \A i \in 1 .. 5 : i = 1 \/ i = 2 \/ i = 3 \/ i = 4 \/ i = 5
    OBVIOUS
  <2> QED BY <2>1 DEF Kinds, Free
<1> HIDE DEF F
<1>5. \A i \in 1 .. 5 : F[i] # NULL => heap[F[i]] = Kinds[i]
  BY <1>1 DEF CtxInv, Owned, F
<1>6. \A i, j \in 1 .. 5 : F[i] # NULL /\ F[j] = F[i] => i = j
  BY <1>1 DEF CtxInv, Owned, F
<1>7. ~broken'
  <2> SUFFICES ASSUME NEW i \in 1 .. 5, F[i] # NULL,
                      heap[F[i]] = Free \/ \E j \in 1 .. i - 1 : F[j] = F[i]
               PROVE  FALSE
    BY <1>2, <1>3 DEF CtxInv
  <2>1. PICK j \in 1 .. i - 1 : F[j] = F[i]
    BY <1>4, <1>5
  <2>2. j \in 1 .. 5 /\ j # i
    OBVIOUS
  <2> QED BY <1>6, <2>1, <2>2
<1>8. DOMAIN ctx' = Slots /\ ctx'[s] = NoCtx /\ \A t \in Slots \ {s} : ctx'[t] = ctx[t]
  BY <1>3 DEF CtxInv
<1>9. /\ DOMAIN heap' = Blocks
      /\ \A b \in Blocks : (\E i \in 1 .. 5 : F[i] = b) => heap'[b] = Free
      /\ \A b \in Blocks : (\A i \in 1 .. 5 : F[i] # b) => heap'[b] = heap[b]
  BY <1>2, <1>3
<1>10. Owned(heap', ctx')
  <2>1. ASSUME NEW t \in Slots, NEW i \in 1 .. 5, ctx'[t] # NoCtx, Fields(ctx'[t])[i] # NULL
        PROVE  heap'[Fields(ctx'[t])[i]] = Kinds[i]
    <3>1. t # s /\ ctx'[t] = ctx[t]
      BY <1>8, <2>1
    <3>2. Fields(ctx[t])[i] \in Blocks
      BY <2>1, <3>1, PointersAre DEF CtxInv
    <3>3. \A j \in 1 .. 5 : F[j] # Fields(ctx[t])[i]
      BY <1>1, <2>1, <3>1 DEF CtxInv, Owned, F
    <3> QED BY <1>9, <2>1, <3>1, <3>2, <3>3 DEF CtxInv, Owned
  <2>2. ASSUME NEW t \in Slots, NEW u \in Slots, NEW i \in 1 .. 5, NEW j \in 1 .. 5,
               ctx'[t] # NoCtx, ctx'[u] # NoCtx,
               Fields(ctx'[t])[i] # NULL, Fields(ctx'[t])[i] = Fields(ctx'[u])[j]
        PROVE  t = u /\ i = j
    BY <1>8, <2>2 DEF CtxInv, Owned
  <2>3. ASSUME NEW b \in Blocks, heap'[b] # Free
        PROVE  \E t \in Slots, i \in 1 .. 5 : ctx'[t] # NoCtx /\ Fields(ctx'[t])[i] = b
    <3>1. \A i \in 1 .. 5 : F[i] # b
      BY <1>9, <2>3
    <3>2. PICK t \in Slots, i \in 1 .. 5 : ctx[t] # NoCtx /\ Fields(ctx[t])[i] = b
      BY <1>9, <2>3, <3>1 DEF CtxInv, Owned
    <3>3. t # s
      BY <3>1, <3>2 DEF F
    <3> QED BY <1>8, <3>2, <3>3
  <2> QED BY <2>1, <2>2, <2>3 DEF Owned
<1> QED BY <1>7, <1>8, <1>9, <1>10 DEF CtxInv

\* A call that only changes a callback or the blinding keeps the pointers.
LEMMA SamePointers ==
    ASSUME CtxInv, NEW s \in Slots, ctx[s] # NoCtx, NEW c, ctx' = [ctx EXCEPT ![s] = c],
           IsContext(c), Fields(c) = Fields(ctx[s]), UNCHANGED <<heap, broken>>
    PROVE  CtxInv'
<1>1. DOMAIN ctx' = Slots /\ ctx'[s] = c /\ \A t \in Slots \ {s} : ctx'[t] = ctx[t]
  BY DEF CtxInv
<1>2. c # NoCtx
  BY PointersAre
<1>3. \A t \in Slots : Fields(ctx'[t]) = Fields(ctx[t]) /\ (ctx'[t] # NoCtx <=> ctx[t] # NoCtx)
  BY <1>1, <1>2
<1>4. Owned(heap', ctx')
  BY <1>3 DEF CtxInv, Owned
<1> QED BY <1>1, <1>4 DEF CtxInv

\* Every call keeps the invariant.
LEMMA CtxStep == CtxInv /\ [CtxNext]_ctxVars => CtxInv'
<1> SUFFICES ASSUME CtxInv, [CtxNext]_ctxVars PROVE CtxInv'
  OBVIOUS
<1>0. \A i \in 1 .. 5 : i = 1 \/ i = 2 \/ i = 3 \/ i = 4 \/ i = 5
  OBVIOUS
<1>1. ASSUME UNCHANGED <<heap, ctx, broken>> PROVE CtxInv'
  BY <1>1 DEF CtxInv, Owned
<1>2. ASSUME NEW s \in Slots, NEW valid \in BOOLEAN, NEW f \in SUBSET Flags, context_create(s, valid, f)
      PROVE  CtxInv'
  <2> DEFINE kinds == <<IF "verify" \in f THEN "pre_g" ELSE "none",
                        IF "verify" \in f THEN "pre_g_128" ELSE "none",
                        IF "sign" \in f THEN "prec" ELSE "none",
                        IF "sign" \in f THEN "prec" ELSE "none", "context">>
  <2>1. CASE Exit
    BY <1>1, <2>1 DEF Exit
  <2>2. CASE NewContext(s, kinds, "abort", <<>>)
    <3>1. /\ \A i \in 1 .. 5 : kinds[i] \in {"none", Kinds[i]}
          /\ kinds[5] = "context" /\ ((kinds[1] = "none") <=> (kinds[2] = "none"))
          /\ (kinds[3] = "none") <=> (kinds[4] = "none")
      BY <1>0 DEF Kinds
    <3>2. ctx[s] = NoCtx
      BY <1>2 DEF context_create
    <3> HIDE DEF kinds
    <3> QED BY <2>2, <3>1, <3>2, NewContextOwns
  <2> QED BY <1>2, <2>1, <2>2 DEF context_create
<1>3. ASSUME NEW s \in Slots, NEW t \in Slots, context_clone(s, t) PROVE CtxInv'
  <2> DEFINE kinds == <<CopyOf(ctx[s].pre_g), CopyOf(ctx[s].pre_g_128), CopyOf(ctx[s].prec),
                        CopyOf(ctx[s].prec_switch), "context">>
  <2>1. ctx[s] # NoCtx /\ IsContext(ctx[s]) /\ ctx[t] = NoCtx
        /\ NewContext(t, kinds, ctx[s].illegal, ctx[s].blind)
    BY <1>3 DEF context_clone, CtxInv
  <2>2. \A i \in 1 .. 4 : kinds[i] = CopyOf(Fields(ctx[s])[i])
    <3>1. \A i \in 1 .. 4 : i = 1 \/ i = 2 \/ i = 3 \/ i = 4
      OBVIOUS
    <3> QED BY <3>1, FieldsAre
  <2>3. kinds[5] = "context" /\ kinds[5] = Kinds[5]
    BY DEF Kinds
  <2> HIDE DEF kinds
  <2>4. ASSUME NEW i \in 1 .. 4
        PROVE  /\ kinds[i] \in {"none", Kinds[i]}
               /\ (kinds[i] = "none") <=> (Fields(ctx[s])[i] = NULL)
    <3>1. i \in 1 .. 5
      OBVIOUS
    <3>2. Fields(ctx[s])[i] # NULL => heap[Fields(ctx[s])[i]] = Kinds[i]
      BY <2>1, <3>1 DEF CtxInv, Owned
    <3>3. Kinds[i] # "none"
      BY <1>0, <3>1 DEF Kinds
    <3> QED BY <2>2, <3>2, <3>3 DEF CopyOf
  <2>5. /\ (kinds[1] = "none") <=> (kinds[2] = "none")
        /\ (kinds[3] = "none") <=> (kinds[4] = "none")
    <3>1. 1 \in 1 .. 4 /\ 2 \in 1 .. 4 /\ 3 \in 1 .. 4 /\ 4 \in 1 .. 4
      OBVIOUS
    <3> QED BY <2>1, <2>4, <3>1, FieldsAre DEF IsContext
  <2>6. \A i \in 1 .. 5 : kinds[i] \in {"none", Kinds[i]}
    BY <1>0, <2>3, <2>4
  <2> QED BY <2>1, <2>3, <2>5, <2>6, NewContextOwns
<1>4. ASSUME NEW s \in Slots, context_destroy(s) PROVE CtxInv'
  BY <1>4, DestroyOwns
<1>5. ASSUME NEW s \in Slots, NEW fun \in {NULL, 1}, context_set_illegal_callback(s, fun)
      PROVE  CtxInv'
  <2>1. ctx[s] # NoCtx /\ IsContext(ctx[s]) /\ UNCHANGED <<heap, broken>>
    BY <1>5 DEF context_set_illegal_callback, CtxInv
  <2>2. PICK x : ctx' = [ctx EXCEPT ![s].illegal = x]
    BY <1>5 DEF context_set_illegal_callback
  <2> DEFINE c == [ctx[s] EXCEPT !.illegal = x]
  <2>3. ctx' = [ctx EXCEPT ![s] = c]
    BY <2>2
  <2>4. IsContext(c) /\ Fields(c) = Fields(ctx[s])
    BY <2>1 DEF IsContext, Fields
  <2> HIDE DEF c
  <2> QED BY <2>1, <2>3, <2>4, SamePointers
<1>6. ASSUME NEW s \in Slots, NEW seed \in Seeds \cup {NULL}, context_randomize(s, seed)
      PROVE  CtxInv'
  <2>1. ctx[s] # NoCtx /\ IsContext(ctx[s]) /\ UNCHANGED <<heap, broken>>
    BY <1>6 DEF context_randomize, CtxInv
  <2>2. CASE UNCHANGED ctx
    BY <1>1, <2>1, <2>2
  <2>3. CASE \E x : ctx' = [ctx EXCEPT ![s].blind = x]
    <3>1. PICK x : ctx' = [ctx EXCEPT ![s].blind = x]
      BY <2>3
    <3> DEFINE c == [ctx[s] EXCEPT !.blind = x]
    <3>2. ctx' = [ctx EXCEPT ![s] = c]
      BY <3>1
    <3>3. IsContext(c) /\ Fields(c) = Fields(ctx[s])
      BY <2>1 DEF IsContext, Fields
    <3> HIDE DEF c
    <3> QED BY <2>1, <3>2, <3>3, SamePointers
  <2> QED BY <1>6, <2>2, <2>3 DEF context_randomize
<1>7. CASE UNCHANGED ctxVars
  BY <1>1, <1>7 DEF ctxVars
<1> QED BY <1>2, <1>3, <1>4, <1>5, <1>6, <1>7 DEF CtxNext

\* Whatever contexts are created, cloned, randomized and destroyed, and whatever
\* blocks malloc gives, no block is leaked, shared or freed twice.
THEOREM TablesAreOwned == CtxSpec => []ContextsOwnTables
<1>1. CtxInit => CtxInv
  <2> SUFFICES ASSUME CtxInit PROVE CtxInv
    OBVIOUS
  <2> QED BY DEF CtxInit, CtxInv, Owned
<1>2. CtxInv => ContextsOwnTables
  <2> SUFFICES ASSUME CtxInv PROVE ContextsOwnTables
    OBVIOUS
  <2>1. ASSUME NEW u \in uses
        PROVE  /\ u[1] \in Slots /\ u[2] \in 1 .. 5 /\ u = <<u[1], u[2]>>
               /\ ctx[u[1]] # NoCtx /\ Fields(ctx[u[1]])[u[2]] # NULL
    BY DEF uses, live
  <2>2. \A u \in uses : heap[At(u)] = Kinds[u[2]]
    BY <2>1 DEF CtxInv, Owned, At
  <2>3. ASSUME NEW u \in uses, NEW v \in uses, At(u) = At(v) PROVE u = v
    <3>1. u[1] = v[1] /\ u[2] = v[2]
      BY <2>1, <2>3 DEF CtxInv, Owned, At
    <3> QED BY <2>1, <3>1
  <2>4. ASSUME NEW b \in Blocks, heap[b] # Free PROVE \E u \in uses : At(u) = b
    <3>1. PICK s \in Slots, i \in 1 .. 5 : ctx[s] # NoCtx /\ Fields(ctx[s])[i] = b
      BY <2>4 DEF CtxInv, Owned
    <3>2. b # NULL
      BY BlocksAssumption DEF NULL
    <3>3. <<s, i>> \in uses /\ At(<<s, i>>) = b
      BY <3>1, <3>2 DEF uses, live, At
    <3> QED BY <3>3
  <2>5. \A s \in live : /\ (ctx[s].pre_g = NULL) <=> (ctx[s].pre_g_128 = NULL)
                        /\ (ctx[s].prec = NULL) <=> (ctx[s].prec_switch = NULL)
    BY DEF CtxInv, IsContext, live
  <2> QED BY <2>2, <2>3, <2>4, <2>5 DEF ContextsOwnTables, CtxInv
<1> QED BY <1>1, <1>2, CtxStep, PTL DEF CtxSpec

-----------------------------------------------------------------------------
(* Scalars and the group.                                                  *)

\* The scalars, those of them that have an inverse, and the elements of the field.
Scalars == 0 .. Order - 1
Units   == 1 .. Order - 1
Field   == 0 .. Q - 1

\* What is assumed of the group and of the bytes, by its parts.
LEMMA GroupFacts ==
    /\ Order \in Nat \ {0} /\ Order > 2 /\ Order % 2 = 1
    /\ Q \in Nat \ {0} /\ Q > 3 /\ Q % 2 = 1 /\ Order < Q /\ Q < 2 * Order
    /\ Top \in Nat /\ Q <= Top /\ Top <= 2 * Order /\ CURVE_B \in Nat
    /\ \A s \in Units : \E t \in Units : (s * t) % Order = 1
    /\ Multiple[0] = NoPoint
    /\ \A j, k \in Scalars : Multiple[j] = Multiple[k] => j = k
    /\ \A k \in Units : Multiple[k][1] # 0
<1>1. /\ Order \in Nat \ {0} /\ Order > 2 /\ Order % 2 = 1
      /\ Q \in Nat \ {0} /\ Q > 3 /\ Q % 2 = 1 /\ Top \in Nat /\ CURVE_B \in Nat
  <2>1. /\ Order \in Nat /\ Order > 2 /\ Order % 2 = 1 /\ Q % 2 = 1
        /\ Top \in Nat /\ CURVE_B \in Nat
    BY GroupAssumption, Zenon
  <2> QED BY <2>1, FieldAssumption
<1>2. Order < Q /\ Q < 2 * Order /\ Q <= Top /\ Top <= 2 * Order
  BY BytesAssumption
<1>3. /\ \A s \in Units : \E t \in Units : (s * t) % Order = 1
      /\ Multiple[0] = NoPoint
      /\ \A j, k \in Scalars : Multiple[j] = Multiple[k] => j = k
  BY GroupAssumption, Zenon DEF NoPoint, Units, Scalars
<1>4. \A k \in Units : Multiple[k][1] # 0
  BY BytesAssumption, Zenon DEF Units
<1> QED BY <1>1, <1>2, <1>3, <1>4

\* A multiple of the generator but zero is a point of the curve, and so is the
\* opposite one.
LEMMA Points ==
    ASSUME NEW k \in Units
    PROVE  \E x, y \in Field :
             /\ Multiple[k] = <<x, y>> /\ OnCurve(x, y) /\ x # 0
             /\ Multiple[Order - k] = <<x, (-y) % Q>> /\ Order - k \in Units
             /\ Multiple[k][1] = x /\ Multiple[k][2] = y /\ Multiple[Order - k][1] = x
             /\ Multiple[Order - k][2] = (-y) % Q
             /\ Multiple[k] # NoPoint
<1>1. PICK x, y \in Field : /\ Multiple[k] = <<x, y>> /\ OnCurve(x, y)
                            /\ Multiple[Order - k] = <<x, (-y) % Q>>
  BY GroupAssumption DEF Units, Field
<1>2. x # 0
  BY <1>1, GroupFacts
<1>3. Order - k \in Units
  BY GroupFacts DEF Units
<1>4. Multiple[k] # NoPoint
  BY <1>1 DEF NoPoint
<1> QED BY <1>1, <1>2, <1>3, <1>4

\* Arithmetic modulo the order: remainders are scalars, and scalars their own.
LEMMA ScalarsReduce ==
    /\ \A x \in Int : x % Order \in Scalars /\ Same(x % Order, x, Order)
    /\ \A x \in Scalars : x % Order = x
    /\ \A x, y \in Scalars : Same(x, y, Order) => x = y
    /\ Scalars \subseteq Int /\ Units \subseteq Scalars
<1>1. ASSUME NEW x \in Int PROVE x % Order \in Scalars /\ Same(x % Order, x, Order)
  BY GroupFacts, SameMod DEF Scalars
<1>2. ASSUME NEW x \in Scalars PROVE x % Order = x
  BY GroupFacts, SmallMod DEF Scalars
<1>3. ASSUME NEW x \in Scalars, NEW y \in Scalars, Same(x, y, Order) PROVE x = y
  BY <1>2, <1>3 DEF Same
<1>4. Scalars \subseteq Int /\ Units \subseteq Scalars
  BY GroupFacts DEF Scalars, Units
<1> QED BY <1>1, <1>2, <1>3, <1>4

\* The inverse of a scalar.
LEMMA InverseScalar ==
    ASSUME NEW s \in Units
    PROVE  /\ ScalarInverse[s] \in Units /\ ScalarInverse[s] \in Int
           /\ Same(ScalarInverse[s] * s, 1, Order)
<1>1. \E t \in 1 .. Order - 1 : (s * t) % Order = 1
  BY GroupFacts DEF Units
<1>2. ScalarInverse[s] = CHOOSE t \in 1 .. Order - 1 : (s * t) % Order = 1
  BY DEF ScalarInverse, Units
<1>3. ScalarInverse[s] \in 1 .. Order - 1 /\ (s * ScalarInverse[s]) % Order = 1
  BY <1>1, <1>2, Zenon
<1>4. PICK t : t = ScalarInverse[s]
  OBVIOUS
<1>5. t \in Int /\ s \in Int /\ s * t = t * s
  BY <1>3, <1>4, GroupFacts DEF Units
<1>6. 1 % Order = 1
  <2>1. PICK x \in Scalars : x = 1
    BY GroupFacts DEF Scalars
  <2> QED BY <2>1, ScalarsReduce
<1>7. (t * s) % Order = 1
  BY <1>3, <1>4, <1>5
<1> QED BY <1>3, <1>4, <1>5, <1>6, <1>7 DEF Units, Same

\* The logarithm of a multiple.
LEMMA Logarithm ==
    ASSUME NEW k \in Scalars
    PROVE  Multiple[k] \in DOMAIN LogOf /\ LogOf[Multiple[k]] = k
<1>1. Multiple[k] \in {Multiple[j] : j \in 0 .. Order - 1}
  BY DEF Scalars
<1>2. LogOf[Multiple[k]] = CHOOSE j \in 0 .. Order - 1 : Multiple[j] = Multiple[k]
  BY <1>1 DEF LogOf
<1>3. LogOf[Multiple[k]] \in Scalars /\ Multiple[LogOf[Multiple[k]]] = Multiple[k]
  BY <1>2, Zenon DEF Scalars
<1> QED BY <1>1, <1>3, GroupFacts DEF LogOf

\* What the multiplication gives.
LEMMA Multiplication ==
    ASSUME NEW k \in Scalars, NEW na \in Int, NEW ng \in Int
    PROVE  ecmult(Multiple[k], na, ng) = Multiple[(na * k + ng) % Order]
  BY Logarithm, Zenon DEF ecmult

\* Sums, products and opposites modulo the order.
LEMMA SameScalars ==
    /\ \A a, b, c, d \in Int : Same(a, b, Order) /\ Same(c, d, Order) =>
         /\ Same(a + c, b + d, Order) /\ Same(a * c, b * d, Order)
         /\ Same(a - c, b - d, Order)
    /\ \A a, b \in Int : Same(a, b, Order) => Same(-a, -b, Order)
    /\ \A a : Same(a, a, Order)
    /\ \A a, b : Same(a, b, Order) => Same(b, a, Order)
    /\ \A a, b, c : Same(a, b, Order) /\ Same(b, c, Order) => Same(a, c, Order)
<1>1. Order \in Nat \ {0}
  BY GroupFacts
<1>2. ASSUME NEW a \in Int, NEW b \in Int, NEW c \in Int, NEW d \in Int,
             Same(a, b, Order), Same(c, d, Order)
      PROVE  /\ Same(a + c, b + d, Order) /\ Same(a * c, b * d, Order)
             /\ Same(a - c, b - d, Order) /\ Same(-a, -b, Order)
  BY <1>1, <1>2, SameOperations, Zenon
<1>3. /\ \A a : Same(a, a, Order)
      /\ \A a, b : Same(a, b, Order) => Same(b, a, Order)
      /\ \A a, b, c : Same(a, b, Order) /\ Same(b, c, Order) => Same(a, c, Order)
  BY Zenon DEF Same
<1> QED BY <1>2, <1>3

\* A linear combination of reduced products.
LEMMA CombinedScalars ==
    ASSUME NEW i \in Int, NEW a \in Int, NEW b \in Int, NEW c \in Int
    PROVE  /\ Same((((i * a) % Order) * c + ((i * b) % Order)) % Order, i * (a * c + b), Order)
           /\ (((i * a) % Order) * c + ((i * b) % Order)) % Order \in Scalars
<1> DEFINE u == i * a
           v == i * b
           p == u % Order
           q == v % Order
           w == p * c + q
<1>1. u \in Int /\ v \in Int /\ u * c + v = i * (a * c + b)
  OBVIOUS
<1> HIDE DEF u, v
<1>2. p \in Int /\ q \in Int /\ Same(p, u, Order) /\ Same(q, v, Order)
  BY <1>1, ScalarsReduce
<1> HIDE DEF p, q
<1>3. Same(p * c, u * c, Order)
  BY <1>1, <1>2, SameScalars
<1>4. p * c \in Int /\ u * c \in Int /\ w \in Int
  BY <1>1, <1>2
<1>5. Same(w, u * c + v, Order)
  BY <1>1, <1>2, <1>3, <1>4, SameScalars
<1> HIDE DEF w
<1>6. Same(w % Order, w, Order) /\ w % Order \in Scalars
  BY <1>4, ScalarsReduce
<1>7. Same(w % Order, i * (a * c + b), Order)
  BY <1>1, <1>5, <1>6, SameScalars
<1> QED BY <1>6, <1>7 DEF w, p, q, u, v

\* The inverse of a factor takes it to the other side.
LEMMA Cancelled ==
    ASSUME NEW s \in Units, NEW k \in Int, NEW t \in Int, Same(s * k, t, Order)
    PROVE  Same(ScalarInverse[s] * t, k, Order)
<1>1. PICK i \in Int : i = ScalarInverse[s] /\ Same(i * s, 1, Order)
  BY InverseScalar
<1>2. s \in Int /\ s * k \in Int /\ i * s \in Int /\ i * t \in Int /\ 1 \in Int
  BY <1>1, ScalarsReduce
<1>3. Same(i * (s * k), i * t, Order)
  BY <1>2, SameScalars
<1>4. Same((i * s) * k, 1 * k, Order)
  BY <1>1, <1>2, SameScalars
<1>5. i * (s * k) = (i * s) * k /\ 1 * k = k
  BY <1>2
<1> QED BY <1>1, <1>3, <1>4, <1>5, SameScalars

\* Products of units are units.
LEMMA UnitProducts ==
    ASSUME NEW s \in Units, NEW t \in Units
    PROVE  (s * t) % Order \in Units
<1>1. s \in Int /\ t \in Int /\ s * t \in Int /\ 0 \in Int /\ 0 \in Scalars
  BY ScalarsReduce, GroupFacts DEF Scalars
<1>2. (s * t) % Order \in Scalars
  BY <1>1, ScalarsReduce
<1>3. ASSUME (s * t) % Order = 0 PROVE FALSE
  <2>1. 0 % Order = 0
    BY <1>1, ScalarsReduce
  <2>2. Same(s * t, 0, Order)
    BY <1>3, <2>1 DEF Same
  <2>3. Same(ScalarInverse[s] * 0, t, Order)
    BY <1>1, <2>2, Cancelled
  <2>4. ScalarInverse[s] * 0 = 0
    BY InverseScalar
  <2>5. t \in Scalars /\ t # 0
    BY ScalarsReduce DEF Units
  <2> QED BY <1>1, <2>3, <2>4, <2>5, ScalarsReduce
<1> QED BY <1>2, <1>3 DEF Scalars, Units

\* Opposite scalars.
LEMMA Opposite ==
    /\ \A s \in Units : scalar_negate(s) = Order - s /\ scalar_negate(s) \in Units
    /\ scalar_negate(0) = 0
<1>1. ASSUME NEW s \in Units PROVE scalar_negate(s) = Order - s /\ Order - s \in Units
  <2>1. PICK q \in Int : q = -1
    OBVIOUS
  <2>2. PICK x \in Int : x = -s /\ Order * q <= x /\ x < Order * q + Order /\ x - Order * q = Order - s
    BY <2>1, GroupFacts DEF Units
  <2>3. x % Order = x - Order * q
    BY <2>2, GroupFacts, Quotient
  <2> QED BY <2>2, <2>3, GroupFacts DEF scalar_negate, Units
<1>2. scalar_negate(0) = 0
  <2>1. ASSUME NEW x \in Scalars, x = 0 PROVE scalar_negate(x) = 0
    <3>1. x \in Int /\ 0 <= x /\ x <= 0
      BY <2>1, ScalarsReduce
    <3>2. -x = x
      BY <3>1
    <3> QED BY <2>1, <3>2, ScalarsReduce DEF scalar_negate
  <2>2. 0 \in Scalars
    BY GroupFacts DEF Scalars
  <2> QED BY <2>1, <2>2, Zenon
<1> QED BY <1>1, <1>2

-----------------------------------------------------------------------------
\* The nonces whose r is not zero.
RUnits == {k \in Units : Multiple[k][1] # Order}

\* g is a signature of m by the secret d: for some nonce k, its r is the x coordinate
\* of k times the generator and its s solves s k = r d + m.
SigFor(g, m, d) ==
    \E k \in RUnits : /\ g[1] = Multiple[k][1] % Order /\ g[2] \in Units
                      /\ Same(g[2] * k, g[1] * d + m, Order)

\* The x coordinate of a nonce's point is r or r + n.
LEMMA NonceX ==
    ASSUME NEW k \in RUnits
    PROVE  /\ k \in Units /\ Multiple[k][1] % Order \in Units
           /\ Multiple[k][1] >= Order =>
                /\ Multiple[k][1] = (Multiple[k][1] % Order) + Order
                /\ Multiple[k][1] % Order < Q - Order
           /\ Multiple[k][1] < Order => Multiple[k][1] = Multiple[k][1] % Order
<1>0. k \in Units /\ Multiple[k][1] # Order
  BY DEF RUnits
<1>1. PICK x \in Field : Multiple[k][1] = x /\ x \notin {0, Order}
  BY <1>0, Points
<1>2. x \in Int /\ 0 <= x /\ x < Q
  BY <1>1, GroupFacts DEF Field
<1>3. CASE x < Order
  <2>1. x \in Scalars
    BY <1>2, <1>3, GroupFacts DEF Scalars
  <2> QED BY <1>0, <1>1, <1>2, <1>3, <2>1, GroupFacts, ScalarsReduce DEF Units, Scalars
<1>4. CASE x >= Order
  <2>1. PICK q \in Int : q = 1
    OBVIOUS
  <2>2. Order * q <= x /\ x < Order * q + Order /\ x - Order * q = x - Order
    BY <1>2, <1>4, <2>1, GroupFacts
  <2>3. x % Order = x - Order
    BY <1>2, <2>2, GroupFacts, Quotient
  <2> QED BY <1>0, <1>1, <1>2, <1>4, <2>3, GroupFacts DEF Units
<1> QED BY <1>0, <1>2, <1>3, <1>4, GroupFacts

\* A signature verifies under the public key of its secret.
LEMMA MadeVerifies ==
    ASSUME NEW g, NEW m \in Int, NEW d \in Scalars, SigFor(g, m, d)
    PROVE  g[1] \in Units /\ g[2] \in Units /\ ecdsa_sig_verify(g[1], g[2], Multiple[d], m)
<1>1. PICK k \in RUnits : /\ g[1] = Multiple[k][1] % Order /\ g[2] \in Units
                          /\ Same(g[2] * k, g[1] * d + m, Order)
  BY DEF SigFor
<1>0. k \in Units
  BY DEF RUnits
<1> DEFINE r == g[1]
           s == g[2]
           i == ScalarInverse[s]
           na == (i * r) % Order
           ng == (i * m) % Order
           e == (na * d + ng) % Order
<1>2. r \in Units /\ s \in Units /\ r = Multiple[k][1] % Order /\ Same(s * k, r * d + m, Order)
  BY <1>1, NonceX
<1> HIDE DEF r, s
<1>3. i \in Int /\ r \in Int /\ d \in Int /\ k \in Int /\ s \in Int
  BY <1>0, <1>2, InverseScalar, ScalarsReduce
<1>4. Same(i * (r * d + m), k, Order)
  <2>1. PICK t \in Int : t = r * d + m
    BY <1>3
  <2> QED BY <1>2, <1>3, <2>1, Cancelled
<1> HIDE DEF i
<1>5. e \in Scalars /\ Same(e, i * (r * d + m), Order)
  BY <1>3, CombinedScalars, Zenon DEF na, ng, e
<1>6. e = k
  <2> HIDE DEF e
  <2>1. Same(e, k, Order)
    BY <1>4, <1>5, SameScalars
  <2> QED BY <1>0, <1>5, <2>1, ScalarsReduce
<1>7. na \in Int /\ ng \in Int
  <2>1. i * r \in Int /\ i * m \in Int
    BY <1>3
  <2> QED BY <2>1, ScalarsReduce
<1> HIDE DEF na, ng
<1>8. ecmult(Multiple[d], na, ng) = Multiple[k]
  BY <1>6, <1>7, Multiplication
<1>9. Multiple[k] # NoPoint /\ (Multiple[k][1] = r \/ (r < Q - Order /\ Multiple[k][1] = r + Order))
  <2>1. PICK x \in Field : Multiple[k][1] = x /\ Multiple[k] # NoPoint
    BY <1>0, Points
  <2>2. x < Order \/ x >= Order
    BY <2>1, GroupFacts DEF Field
  <2> QED BY <1>2, <2>1, <2>2, NonceX
<1>10. r # 0 /\ s # 0
  BY <1>2 DEF Units
<1>11. ecdsa_sig_verify(r, s, Multiple[d], m)
  <2>1. \A pr : pr = Multiple[k] =>
          With(pr, LAMBDA v : v # NoPoint /\ (v[1] = r \/ (r < Q - Order /\ v[1] = r + Order)))
    BY <1>9 DEF With
  <2> QED BY <1>8, <1>10, <2>1, Zenon DEF ecdsa_sig_verify, na, ng, i
<1> QED BY <1>2, <1>11 DEF r, s

\* Negating s gives the signature of the opposite nonce.
LEMMA NegatedSignature ==
    ASSUME NEW g, NEW h, NEW m \in Int, NEW d \in Scalars, SigFor(g, m, d),
           h[1] = g[1], h[2] = scalar_negate(g[2])
    PROVE  SigFor(h, m, d)
<1>1. PICK k \in RUnits : /\ g[1] = Multiple[k][1] % Order /\ g[2] \in Units
                          /\ Same(g[2] * k, g[1] * d + m, Order)
  BY DEF SigFor
<1>0. k \in Units /\ Multiple[k][1] # Order
  BY DEF RUnits
<1>2. PICK s \in Units : s = g[2]
  BY <1>1
<1>3. PICK j \in Units, u \in Units : j = Order - k /\ u = Order - s /\ h[2] = u
  BY <1>0, <1>2, Opposite, Points
<1>4. s \in Int /\ k \in Int /\ j \in Int /\ u \in Int /\ Order \in Nat \ {0}
  BY <1>0, GroupFacts DEF Units
<1>5. Same(u * j, s * k, Order)
  <2>1. u * j = s * k + (Order - s - k) * Order
    BY <1>3, <1>4
  <2>2. PICK x \in Int, y \in Int, z \in Int : x = u * j /\ y = s * k /\ z = Order - s - k
    BY <1>4
  <2>3. x = y + z * Order
    BY <2>1, <2>2
  <2>4. x % Order = y % Order
    BY <1>4, <2>3, SameRemainder
  <2> QED BY <2>2, <2>4 DEF Same
<1>6. Same(u * j, g[1] * d + m, Order)
  BY <1>1, <1>2, <1>5, SameScalars
<1>7. Multiple[j][1] = Multiple[k][1] /\ j \in RUnits
  BY <1>0, <1>3, Points DEF RUnits
<1> QED BY <1>1, <1>3, <1>6, <1>7 DEF SigFor

\* The normalized form of a signature is low, and a signature of the same.
LEMMA NormalizedSignature ==
    ASSUME NEW g, NEW m \in Int, NEW d \in Scalars, SigFor(g, m, d)
    PROVE  SigFor(Normalized(g), m, d) /\ ~scalar_is_high(Normalized(g)[2])
<1>1. g[2] \in Units
  BY MadeVerifies
<1>2. CASE scalar_is_high(g[2])
  <2>1. Normalized(g) = <<g[1], scalar_negate(g[2])>>
    BY <1>2 DEF Normalized
  <2>2. PICK s \in Units : s = g[2] /\ scalar_negate(s) = Order - s
    BY <1>1, Opposite
  <2>3. ~(Order - s > Order \div 2)
    BY <1>2, <2>2, GroupFacts DEF scalar_is_high, Units
  <2> QED BY <2>1, <2>2, <2>3, NegatedSignature DEF scalar_is_high
<1>3. CASE ~scalar_is_high(g[2])
  BY <1>3 DEF Normalized
<1> QED BY <1>2, <1>3

\* The key of a secret that is not zero loads.
LEMMA KeysLoad ==
    ASSUME NEW d \in Units
    PROVE  pubkey_load(Multiple[d]) = Multiple[d] /\ Multiple[d] # NoPoint
  BY Points DEF pubkey_load

\* What secp256k1_ecdsa_verify says of a signature that was made.
LEMMA VerifiesIfLow ==
    ASSUME NEW g, NEW msg \in Bytes32, NEW d \in Units, SigFor(g, msg % Order, d)
    PROVE  /\ Verifies(g, msg, Multiple[d]) = ~scalar_is_high(g[2])
           /\ Verifies(Normalized(g), msg, Multiple[d])
<1>1. PICK m \in Int : m = msg % Order /\ m = scalar_set_b32(msg).v
  BY ScalarsReduce, GroupFacts DEF Bytes32, scalar_set_b32
<1>2. d \in Scalars
  BY ScalarsReduce
<1>3. SigFor(g, m, d) /\ SigFor(Normalized(g), m, d) /\ ~scalar_is_high(Normalized(g)[2])
  BY <1>1, <1>2, NormalizedSignature
<1>4. ASSUME NEW h, SigFor(h, m, d) PROVE Verifies(h, msg, Multiple[d]) = ~scalar_is_high(h[2])
  BY <1>1, <1>2, <1>4, MadeVerifies, KeysLoad DEF Verifies
<1> QED BY <1>3, <1>4


\* What signing computes.
LEMMA SignComputes ==
    ASSUME NEW sec, NEW m, NEW nonce
    PROVE  ecdsa_sig_sign(sec, m, nonce) =
             LET R == Multiple[nonce]
                 r == scalar_set_b32(R[1])
             IN  Lowered(r.v, (ScalarInverse[nonce] * ((r.v * sec + m) % Order)) % Order,
                         r.overflow, R[2] % 2 = 1)
<1> DEFINE Last(R, r) == Lowered(r.v, (ScalarInverse[nonce] * ((r.v * sec + m) % Order)) % Order,
                                 r.overflow, R[2] % 2 = 1)
<1>1. ASSUME NEW R PROVE With(scalar_set_b32(R[1]), LAMBDA r : Last(R, r)) = Last(R, scalar_set_b32(R[1]))
  <2> HIDE DEF Last
  <2> QED BY Zenon DEF With
<1>2. ecdsa_sig_sign(sec, m, nonce) =
        With(Multiple[nonce], LAMBDA R : With(scalar_set_b32(R[1]), LAMBDA r : Last(R, r)))
  BY Zenon DEF ecdsa_sig_sign
<1> DEFINE First(R) == With(scalar_set_b32(R[1]), LAMBDA r : Last(R, r))
<1>3. With(Multiple[nonce], LAMBDA R : First(R)) = First(Multiple[nonce])
  <2> HIDE DEF First
  <2> QED BY Zenon DEF With
<1>4. First(Multiple[nonce]) = Last(Multiple[nonce], scalar_set_b32(Multiple[nonce][1]))
  BY <1>1, Zenon
<1> QED BY <1>2, <1>3, <1>4, Zenon

\* Signatures with the id that leads back to the nonce's point: 2 for an x above
\* the order, 1 for an odd y.
RSigFor(g, m, d) ==
    \E k \in RUnits : /\ g[1] = Multiple[k][1] % Order /\ g[2] \in Units
                      /\ Same(g[2] * k, g[1] * d + m, Order)
                      /\ g[3] = (IF Multiple[k][1] >= Order THEN 2 ELSE 0) + (Multiple[k][2] % 2)

\* The y coordinates of opposite points have opposite parities.
LEMMA OppositeParity ==
    ASSUME NEW k \in Units
    PROVE  /\ Multiple[k][2] \in Field \ {0}
           /\ Multiple[Order - k][2] = Q - Multiple[k][2]
           /\ Multiple[k][2] % 2 \in {0, 1} /\ Multiple[Order - k][2] % 2 = 1 - (Multiple[k][2] % 2)
<1>1. PICK x \in Field, y \in Field :
         /\ Multiple[k] = <<x, y>> /\ Multiple[Order - k] = <<x, (-y) % Q>> /\ Order - k \in Units
  BY Points
<1>2. k \in Int /\ y \in Int /\ 0 <= y /\ y < Q
  BY GroupFacts DEF Units, Field
<1>3. y > 0
  <2> SUFFICES ASSUME ~(y > 0) PROVE FALSE
    OBVIOUS
  <2>1. -y = y
    BY <1>2
  <2>2. y % Q = y
    <3>1. y \in 0 .. Q - 1
      BY <1>2, GroupFacts
    <3> QED BY <3>1, GroupFacts, SmallMod
  <2>3. Multiple[Order - k] = Multiple[k]
    BY <1>1, <2>1, <2>2
  <2>4. Order - k = k
    BY <1>1, <2>3, GroupFacts, ScalarsReduce
  <2> QED BY <1>2, <2>4, GroupFacts
<1>4. (-y) % Q = Q - y
  <2>1. PICK q \in Int, z \in Int : q = -1 /\ z = -y
    BY <1>2
  <2>2. Q * q <= z /\ z < Q * q + Q /\ z - Q * q = Q - y
    BY <1>2, <1>3, <2>1, GroupFacts
  <2> QED BY <2>1, <2>2, GroupFacts, Quotient
<1>5. y % 2 \in {0, 1} /\ (Q - y) % 2 = 1 - (y % 2)
  BY <1>2, GroupFacts
<1> QED BY <1>1, <1>2, <1>3, <1>4, <1>5 DEF Field

\* A nonce that signs gives a signature with its id.
LEMMA SignMakes ==
    ASSUME NEW sec \in Units, NEW m \in Scalars, NEW nonce \in RUnits, NEW t,
           t = ecdsa_sig_sign(sec, m, nonce), t.ok
    PROVE  RSigFor(<<t.r, t.s, t.recid>>, m, sec) /\ t.ok = TRUE
<1>0. nonce \in Units /\ Multiple[nonce][1] # Order
  BY DEF RUnits
<1>1. PICK x \in Field, y \in Field : Multiple[nonce][1] = x /\ Multiple[nonce][2] = y
  BY <1>0, Points
<1> DEFINE r == x % Order
           u == (r * sec + m) % Order
           s == (ScalarInverse[nonce] * u) % Order
           high == scalar_is_high(s)
<1>2. t = Lowered(r, s, x >= Order, y % 2 = 1)
  BY <1>1, SignComputes DEF scalar_set_b32
<1>3. r \in Units /\ r \in Int /\ sec \in Int /\ m \in Int /\ nonce \in Int
  BY <1>0, <1>1, NonceX, ScalarsReduce
<1> HIDE DEF r
<1>4. u \in Scalars /\ u \in Int /\ Same(u, r * sec + m, Order)
  <2>1. r * sec + m \in Int
    BY <1>3
  <2> QED BY <2>1, ScalarsReduce
<1> HIDE DEF u
<1>5. PICK i \in Int : i = ScalarInverse[nonce] /\ Same(i * nonce, 1, Order)
  BY <1>0, InverseScalar
<1>6. s \in Scalars /\ s \in Int /\ Same(s, i * u, Order)
  <2>1. i * u \in Int
    BY <1>4, <1>5
  <2> QED BY <1>5, <2>1, ScalarsReduce
<1> HIDE DEF s
<1>7. s # 0
  <2>1. ASSUME NEW a, NEW b, NEW c, NEW e PROVE Lowered(a, b, c, e).ok <=> b # 0
    BY DEF Lowered
  <2>2. Lowered(r, s, x >= Order, y % 2 = 1).ok
    BY <1>2
  <2> QED BY <2>1, <2>2, Zenon
<1>8. s \in Units
  BY <1>6, <1>7 DEF Scalars, Units
<1>9. Same(s * nonce, r * sec + m, Order)
  <2>1. i * u \in Int /\ i * nonce \in Int /\ 1 \in Int
    BY <1>3, <1>4, <1>5
  <2>2. Same(s * nonce, (i * u) * nonce, Order)
    BY <1>3, <1>6, <2>1, SameScalars
  <2>3. Same((i * nonce) * u, 1 * u, Order)
    BY <1>4, <1>5, <2>1, SameScalars
  <2>4. (i * u) * nonce = (i * nonce) * u /\ 1 * u = u
    BY <1>3, <1>4, <1>5
  <2>5. Same(s * nonce, u, Order)
    BY <2>2, <2>3, <2>4, SameScalars
  <2> QED BY <1>4, <2>5, SameScalars
<1>10. t.r = r /\ t.s = (IF high THEN scalar_negate(s) ELSE s) /\ t.ok = TRUE
       /\ t.recid = (IF x >= Order THEN 2 ELSE 0) + (IF (y % 2 = 1) # high THEN 1 ELSE 0)
  BY <1>2, <1>7 DEF Lowered
<1>11. y % 2 \in {0, 1}
  BY <1>0, <1>1, OppositeParity
<1>12. CASE ~high
  <2>1. t.s = s /\ t.recid = (IF x >= Order THEN 2 ELSE 0) + (y % 2)
    BY <1>10, <1>11, <1>12 DEF scalar_is_high
  <2> QED BY <1>1, <1>8, <1>9, <1>10, <2>1 DEF RSigFor, r
<1>13. CASE high
  <2>1. PICK j \in RUnits : /\ j = Order - nonce /\ Multiple[j][1] = x
                            /\ Multiple[j][2] % 2 = 1 - (y % 2)
    BY <1>0, <1>1, OppositeParity, Points DEF RUnits
  <2>2. t.s = scalar_negate(s) /\ t.recid = (IF Multiple[j][1] >= Order THEN 2 ELSE 0) + (Multiple[j][2] % 2)
    BY <1>10, <1>11, <1>13, <2>1 DEF scalar_is_high
  <2>3. PICK v \in Units : v = scalar_negate(s) /\ v = Order - s
    BY <1>8, Opposite
  <2>4. Same(v * j, s * nonce, Order)
    <3>1. v \in Int /\ j \in Int /\ Order \in Nat \ {0}
      BY GroupFacts, ScalarsReduce DEF RUnits
    <3>2. v * j = s * nonce + (Order - s - nonce) * Order
      BY <1>3, <1>6, <2>1, <2>3, <3>1
    <3>3. PICK a \in Int, b \in Int, z \in Int : a = v * j /\ b = s * nonce /\ z = Order - s - nonce
      BY <1>3, <1>6, <3>1
    <3>4. a = b + z * Order
      BY <3>2, <3>3
    <3>5. a % Order = b % Order
      BY <3>1, <3>4, SameRemainder
    <3> QED BY <3>3, <3>5 DEF Same
  <2>5. Same(v * j, r * sec + m, Order)
    BY <1>9, <2>4, SameScalars
  <2> QED BY <1>1, <1>10, <2>1, <2>2, <2>3, <2>5 DEF RSigFor, r
<1> QED BY <1>10, <1>12, <1>13

-----------------------------------------------------------------------------
\* Arithmetic modulo the prime of the field.
LEMMA FieldReduces ==
    /\ \A x \in Int : x % Q \in Field /\ Same(x % Q, x, Q)
    /\ \A x \in Field : x % Q = x
    /\ Field \subseteq Int
    /\ \A a, b, c, d \in Int : Same(a, b, Q) /\ Same(c, d, Q) =>
         /\ Same(a + c, b + d, Q) /\ Same(a * c, b * d, Q) /\ Same(a - c, b - d, Q)
    /\ \A a, b \in Int : Same(a, b, Q) => Same(-a, -b, Q)
    /\ \A a : Same(a, a, Q)
    /\ \A a, b : Same(a, b, Q) => Same(b, a, Q)
    /\ \A a, b, c : Same(a, b, Q) /\ Same(b, c, Q) => Same(a, c, Q)
<1>1. Q \in Nat \ {0}
  BY GroupFacts
<1>2. ASSUME NEW a \in Int, NEW b \in Int, NEW c \in Int, NEW d \in Int,
             Same(a, b, Q), Same(c, d, Q)
      PROVE  /\ Same(a + c, b + d, Q) /\ Same(a * c, b * d, Q)
             /\ Same(a - c, b - d, Q) /\ Same(-a, -b, Q)
  BY <1>1, <1>2, SameOperations, Zenon
<1>3. /\ \A a : Same(a, a, Q)
      /\ \A a, b : Same(a, b, Q) => Same(b, a, Q)
      /\ \A a, b, c : Same(a, b, Q) /\ Same(b, c, Q) => Same(a, c, Q)
  BY Zenon DEF Same
<1>4. ASSUME NEW x \in Int PROVE x % Q \in Field /\ Same(x % Q, x, Q)
  BY <1>1, SameMod DEF Field
<1>5. ASSUME NEW x \in Field PROVE x % Q = x
  BY <1>1, SmallMod DEF Field
<1>6. Field \subseteq Int
  BY <1>1 DEF Field
<1> QED BY <1>2, <1>3, <1>4, <1>5, <1>6

\* The residues of sums, products and opposites of field elements.
LEMMA Residues ==
    /\ \A k : fe_set_int(k).v = k % Q
    /\ \A a : fe_normalize(a).v = a.v % Q /\ fe_sqr(a).v = (a.v * a.v) % Q
    /\ \A a, b : fe_mul(a, b).v = (a.v * b.v) % Q /\ fe_add(a, b).v = (a.v + b.v) % Q
    /\ \A a, m : fe_negate(a, m).v = (-a.v) % Q
<1>1. ASSUME NEW v, NEW m, NEW ok PROVE FE(v, m, ok).v = v % Q
  BY DEF FE
<1> QED BY <1>1, Zenon DEF fe_set_int, fe_normalize, fe_sqr, fe_mul, fe_add, fe_negate

\* Field elements are compared by their residues.
LEMMA FieldEqual ==
    ASSUME NEW a, NEW b, a.v \in Field, b.v \in Field
    PROVE  fe_equal(a, b) <=> a.v = b.v
<1>1. PICK x \in Field, y \in Field : x = a.v /\ y = b.v
  OBVIOUS
<1>2. PICK n \in Int : n = -x /\ x \in Int /\ y \in Int
  <2>1. x \in Int /\ y \in Int
    BY FieldReduces
  <2> QED BY <2>1
<1> DEFINE z == n % Q
           w == (z + y) % Q
<1>3. fe_equal(a, b) <=> w = 0
  <2>1. fe_negate(a, 1).v = z
    BY <1>1, <1>2, Residues
  <2>2. fe_add(fe_negate(a, 1), b).v = w
    BY <1>1, <2>1, Residues
  <2> QED BY <2>2 DEF fe_equal, IsZero
<1>4. z \in Int /\ Same(z, n, Q)
  BY <1>2, FieldReduces
<1> HIDE DEF z
<1>5. w = (n + y) % Q
  <2>1. Same(z + y, n + y, Q)
    BY <1>2, <1>4, FieldReduces
  <2> QED BY <2>1 DEF Same
<1> HIDE DEF w
<1>6. CASE x = y
  <2>1. n + y = 0 /\ 0 \in Field
    BY <1>2, <1>6, GroupFacts DEF Field
  <2>2. w = 0
    BY <1>5, <2>1, FieldReduces
  <2> QED BY <1>1, <1>3, <1>6, <2>2
<1>7. CASE x # y
  <2>1. PICK d \in Int : d = n + y
    BY <1>2
  <2>2. ASSUME d % Q = 0 PROVE FALSE
    <3>1. PICK e \in Int : d = Q * e + (d % Q)
      BY <2>1, GroupFacts, Division
    <3>2. d # 0 /\ d > -Q /\ d < Q /\ d = Q * e
      BY <1>2, <1>7, <2>1, <2>2, <3>1, GroupFacts DEF Field
    <3>3. e >= 1 => Q * e >= Q
      BY GroupFacts
    <3>4. e <= -1 => Q * e <= -Q
      BY GroupFacts
    <3>5. e # 0
      BY <3>2, GroupFacts
    <3> QED BY <3>2, <3>3, <3>4, <3>5, GroupFacts
  <2>3. w # 0
    BY <1>5, <2>1, <2>2
  <2> QED BY <1>1, <1>3, <1>7, <2>3
<1> QED BY <1>6, <1>7

\* The right side of the equation of the curve.
Cubic(x) == (x * x * x + CURVE_B) % Q

\* The root that the code computes for an x coordinate.
LEMMA SquareRootOf ==
    ASSUME NEW x \in Field
    PROVE  LET q == ge_set_xquad(fe_set_int(x))
           IN  /\ q.ok <=> OnCurve(x, Roots[Cubic(x)])
               /\ q.ge.x = fe_set_int(x) /\ q.ge.y.v = Roots[Cubic(x)]
               /\ q.ok \in BOOLEAN /\ Roots[Cubic(x)] \in Field
<1> DEFINE X == fe_set_int(x)
           A == fe_add(fe_set_int(CURVE_B), fe_mul(X, fe_sqr(X)))
           R == FE(Roots[A.v], 1, A.m <= MulMag)
           y == Roots[Cubic(x)]
<1>1. X.v = x
  BY Residues, FieldReduces
<1> HIDE DEF X
<1>2. A.v = Cubic(x) /\ A.v \in Field
  <2>1. x \in Int /\ CURVE_B \in Int
    BY FieldReduces, GroupFacts
  <2> DEFINE a == x * x
             b == a % Q
             c == x * b
             d == c % Q
             e == CURVE_B % Q
             f == e + d
  <2>2. fe_sqr(X).v = b
    BY <1>1, Residues
  <2>3. A.v = f % Q
    BY <1>1, <2>2, Residues
  <2> HIDE DEF A
  <2>4. a \in Int /\ b \in Int /\ Same(b, a, Q)
    <3>1. a \in Int
      BY <2>1
    <3> HIDE DEF a
    <3> QED BY <3>1, FieldReduces
  <2> HIDE DEF b
  <2>5. c \in Int /\ Same(c, x * a, Q)
    BY <2>1, <2>4, FieldReduces
  <2> HIDE DEF c
  <2>6. d \in Int /\ Same(d, c, Q) /\ e \in Int /\ Same(e, CURVE_B, Q)
    BY <2>1, <2>5, FieldReduces
  <2> HIDE DEF d, e
  <2>7. x * a \in Int /\ Same(d, x * a, Q)
    BY <2>1, <2>4, <2>5, <2>6, FieldReduces
  <2>8. f \in Int /\ Same(f, CURVE_B + x * a, Q)
    BY <2>1, <2>6, <2>7, FieldReduces
  <2>9. CURVE_B + x * a = x * x * x + CURVE_B
    BY <2>1
  <2> HIDE DEF f
  <2> QED BY <2>3, <2>8, <2>9, FieldReduces DEF Same, Cubic
<1>3. y \in Field /\ y % Q = y
  BY <1>2, GroupAssumption, FieldReduces DEF Field
<1>4. R.v = y
  BY <1>2, <1>3 DEF FE
<1>5. fe_sqr(R).v = (y * y) % Q /\ (y * y) % Q \in Field
  <2> HIDE DEF R, y
  <2>1. y * y \in Int
    BY <1>3, FieldReduces
  <2> QED BY <1>4, <2>1, Residues, FieldReduces
<1> HIDE DEF A
<1>6. fe_sqrt(A) = [r |-> R, ok |-> fe_equal(fe_sqr(R), A)]
  <2>1. fe_sqrt(A) = With(R, LAMBDA r : [r |-> r, ok |-> fe_equal(fe_sqr(r), A)])
    BY Zenon DEF fe_sqrt
  <2> HIDE DEF R
  <2> QED BY <2>1 DEF With
<1> HIDE DEF R
<1>7. fe_equal(fe_sqr(R), A) <=> OnCurve(x, y)
  <2>1. fe_equal(fe_sqr(R), A) <=> fe_sqr(R).v = A.v
    BY <1>2, <1>5, FieldEqual
  <2> QED BY <1>2, <1>5, <2>1 DEF OnCurve, Cubic
<1>8. fe_equal(fe_sqr(R), A) \in BOOLEAN
  BY DEF fe_equal, IsZero
<1>9. ge_set_xquad(X) = [ok |-> fe_sqrt(A).ok, ge |-> ge_set_xy(X, fe_sqrt(A).r)]
  <2>1. ge_set_xquad(X) = With(fe_sqrt(A), LAMBDA r : [ok |-> r.ok, ge |-> ge_set_xy(X, r.r)])
    BY Zenon DEF ge_set_xquad, A
  <2> QED BY <2>1 DEF With
<1>10. ge_set_xquad(X).ok = fe_equal(fe_sqr(R), A) /\ ge_set_xquad(X).ge = ge_set_xy(X, R)
  BY <1>6, <1>9
<1>11. ge_set_xy(X, R).x = X /\ ge_set_xy(X, R).y = R
  BY DEF ge_set_xy
<1> QED BY <1>3, <1>4, <1>7, <1>8, <1>10, <1>11 DEF X


\* What the code computes for an x coordinate and a parity.
LEMMA XOddComputes ==
    ASSUME NEW x \in Field, NEW odd \in BOOLEAN
    PROVE  LET g == ge_set_xo_var(fe_set_int(x), odd)
               y == Roots[Cubic(x)]
           IN  /\ g.ok <=> OnCurve(x, y)
               /\ g.ok => ge_to_storage(g.ge) = <<x, IF (y % 2 = 1) # odd THEN (-y) % Q ELSE y>>
<1> DEFINE X == fe_set_int(x)
           q == ge_set_xquad(X)
           y == Roots[Cubic(x)]
           Y == fe_normalize(q.ge.y)
           Z == IF (Y.v % 2 = 1) # odd THEN fe_negate(Y, 1) ELSE Y
           g == ge_set_xo_var(X, odd)
<1>1. X.v = x
  BY Residues, FieldReduces
<1>2. (q.ok <=> OnCurve(x, y)) /\ q.ge.y.v = y /\ y \in Field
  BY SquareRootOf
<1>3. g = [ok |-> q.ok, ge |-> IF q.ok THEN ge_set_xy(X, Z) ELSE q.ge]
  <2> DEFINE F(p) == LET u == fe_normalize(p.ge.y)
                     IN  [ok |-> p.ok,
                          ge |-> IF p.ok THEN ge_set_xy(X, IF (u.v % 2 = 1) # odd THEN fe_negate(u, 1) ELSE u)
                                 ELSE p.ge]
  <2>1. g = With(q, LAMBDA p : F(p))
    BY Zenon DEF ge_set_xo_var
  <2>2. F(q) = [ok |-> q.ok, ge |-> IF q.ok THEN ge_set_xy(X, Z) ELSE q.ge]
    BY Zenon
  <2>3. With(q, LAMBDA p : F(p)) = F(q)
    <3> HIDE DEF F, q
    <3> QED BY Zenon DEF With
  <2> QED BY <2>1, <2>2, <2>3, Zenon
<1>4. Y.v = y
  <2>1. Y.v = y % Q
    BY <1>2, Residues
  <2> QED BY <1>2, <2>1, FieldReduces
<1> HIDE DEF X, q, y, Y
<1>5. Z.v = (IF (y % 2 = 1) # odd THEN (-y) % Q ELSE y)
  BY <1>4, Residues
<1>6. Z.v \in Field
  <2>1. -y \in Int
    <3>1. y \in Int
      BY <1>2, FieldReduces
    <3> QED BY <3>1
  <2>2. (-y) % Q \in Field
    BY <2>1, FieldReduces
  <2> QED BY <1>2, <1>5, <2>2
<1> HIDE DEF Z
<1>7. ge_to_storage(ge_set_xy(X, Z)) = <<x, Z.v>>
  <2>1. ge_set_xy(X, Z).x = X /\ ge_set_xy(X, Z).y = Z
    BY DEF ge_set_xy
  <2>2. fe_normalize(X).v = x /\ fe_normalize(Z).v = Z.v
    BY <1>1, <1>6, Residues, FieldReduces
  <2> QED BY <2>1, <2>2 DEF ge_to_storage
<1>8. g.ok = q.ok /\ (q.ok => g.ge = ge_set_xy(X, Z))
  BY <1>3
<1> HIDE DEF g
<1>9. (g.ok <=> OnCurve(x, y)) /\ (g.ok => ge_to_storage(g.ge) = <<x, Z.v>>)
  BY <1>2, <1>7, <1>8
<1> QED BY <1>5, <1>9 DEF g, y, X

\* An x coordinate and a parity that are accepted give a multiple of the generator.
LEMMA XOddIsPoint ==
    ASSUME NEW x \in Field, NEW odd \in BOOLEAN, NEW g,
           g = ge_set_xo_var(fe_set_int(x), odd), g.ok
    PROVE  \E k \in Units : ge_to_storage(g.ge) = Multiple[k] /\ Multiple[k][1] = x
<1>1. PICK y \in Field : /\ OnCurve(x, y)
                         /\ ge_to_storage(g.ge) = <<x, IF (y % 2 = 1) # odd THEN (-y) % Q ELSE y>>
  BY XOddComputes, SquareRootOf
<1>2. PICK k \in Units : Multiple[k] = <<x, y>>
  BY <1>1, GroupAssumption DEF Field, Units
<1>3. Order - k \in Units /\ Multiple[Order - k] = <<x, (-y) % Q>>
  BY <1>2, Points
<1>4. ge_to_storage(g.ge) \in {Multiple[k], Multiple[Order - k]}
  BY <1>1, <1>2, <1>3
<1> QED BY <1>2, <1>3, <1>4

\* The opposite of a point.
LEMMA OppositePoint ==
    ASSUME NEW k \in Units, NEW x \in Field, NEW y \in Field, Multiple[k] = <<x, y>>
    PROVE  /\ OnCurve(x, y) /\ Order - k \in Units /\ Multiple[Order - k] = <<x, Q - y>>
           /\ y > 0 /\ Q - y \in Field /\ (-y) % Q = Q - y
           /\ y % 2 \in {0, 1} /\ (Q - y) % 2 = 1 - (y % 2)
<1>1. PICK a \in Field, b \in Field :
        /\ Multiple[k] = <<a, b>> /\ OnCurve(a, b) /\ Order - k \in Units
        /\ Multiple[Order - k] = <<a, (-b) % Q>>
  BY Points
<1>2. a = x /\ b = y
  BY <1>1
<1>3. Multiple[k][2] = y /\ Multiple[Order - k][2] = (-y) % Q
  BY <1>1, <1>2
<1>4. y \in Field \ {0} /\ (-y) % Q = Q - y /\ y % 2 \in {0, 1} /\ (Q - y) % 2 = 1 - (y % 2)
  <2> HIDE <1>1
  <2> QED BY <1>3, OppositeParity
<1>5. y > 0 /\ Q - y \in Field
  BY <1>4, GroupFacts DEF Field
<1> QED BY <1>1, <1>2, <1>4, <1>5

\* A point is found again from its x coordinate and the parity of its y coordinate.
LEMMA XOddFinds ==
    ASSUME NEW k \in Units, NEW x \in Field, NEW y \in Field, Multiple[k] = <<x, y>>
    PROVE  LET g == ge_set_xo_var(fe_set_int(x), y % 2 = 1)
           IN  g.ok /\ ge_to_storage(g.ge) = Multiple[k]
<1>1. PICK j \in Units, z \in Field :
        /\ z = Q - y /\ Multiple[j] = <<x, z>> /\ OnCurve(x, y) /\ (-y) % Q = z
        /\ y % 2 \in {0, 1} /\ z % 2 = 1 - (y % 2)
  <2>1. /\ OnCurve(x, y) /\ Order - k \in Units /\ Multiple[Order - k] = <<x, Q - y>>
        /\ Q - y \in Field /\ (-y) % Q = Q - y
        /\ y % 2 \in {0, 1} /\ (Q - y) % 2 = 1 - (y % 2)
    BY OppositePoint
  <2> QED BY <2>1, Zenon
<1>a. PICK odd \in BOOLEAN : odd = (y % 2 = 1)
  OBVIOUS
<1>b. PICK g : g = ge_set_xo_var(fe_set_int(x), odd)
  OBVIOUS
<1>2. odd = (y % 2 = 1) /\ g = ge_set_xo_var(fe_set_int(x), odd)
  BY <1>a, <1>b
<1> SUFFICES g.ok /\ ge_to_storage(g.ge) = Multiple[k]
  BY <1>2, Zenon
<1>3. OnCurve(x, z) /\ (-z) % Q = Q - z
  BY <1>1, OppositePoint
<1>4. Q - z = y
  BY <1>1, GroupFacts DEF Field
<1> DEFINE w == Roots[Cubic(x)]
<1>5. w \in {y, z}
  <2>1. Cubic(x) = (y * y) % Q
    BY <1>1 DEF OnCurve, Cubic
  <2>2. Roots[(y * y) % Q] \in {y, (-y) % Q}
    BY GroupAssumption, Zenon DEF Field
  <2> QED BY <1>1, <2>1, <2>2
<1>6. (g.ok <=> OnCurve(x, w)) /\ (g.ok => ge_to_storage(g.ge) = <<x, IF (w % 2 = 1) # odd THEN (-w) % Q ELSE w>>)
  BY <1>2, XOddComputes
<1> HIDE DEF w
<1>7. g.ok
  BY <1>1, <1>3, <1>5, <1>6
<1>8. CASE w = y
  <2>1. ((w % 2 = 1) # odd) = FALSE
    BY <1>2, <1>8
  <2> QED BY <1>6, <1>7, <1>8, <2>1
<1>9. CASE w = z
  <2>1. ((w % 2 = 1) # odd) = TRUE
    BY <1>2, <1>1, <1>9
  <2> QED BY <1>3, <1>4, <1>6, <1>7, <1>9, <2>1
<1> QED BY <1>5, <1>8, <1>9


\* What recovery computes once the nonce's point is found.
LEMMA RecoveredScalar ==
    ASSUME NEW r \in Units, NEW s \in Units, NEW m \in Int, NEW k \in Units
    PROVE  \E e \in Scalars :
             /\ ecmult(Multiple[k], (ScalarInverse[r] * s) % Order,
                       scalar_negate((ScalarInverse[r] * m) % Order)) = Multiple[e]
             /\ Same(e, ScalarInverse[r] * (s * k + (-m)), Order)
             /\ Same(r * e + m, s * k, Order)
<1>1. PICK i \in Int : i = ScalarInverse[r] /\ Same(i * r, 1, Order)
  BY InverseScalar
<1>2. r \in Int /\ s \in Int /\ k \in Int /\ k \in Scalars
  BY ScalarsReduce
<1>3. PICK n \in Int : n = -m
  OBVIOUS
<1> DEFINE a == i * m
           b == a % Order
           ng == scalar_negate(b)
           na == (i * s) % Order
           t == s * k + n
           e == (na * k + ng) % Order
<1>4. ng = (i * n) % Order
  <2>1. a \in Int /\ -a = i * n
    BY <1>3
  <2> HIDE DEF a
  <2>2. b \in Int /\ Same(b, a, Order)
    BY <2>1, ScalarsReduce
  <2> HIDE DEF b
  <2>3. Same(-b, -a, Order)
    BY <2>1, <2>2, SameScalars
  <2> QED BY <2>1, <2>3 DEF Same, scalar_negate
<1>5. na \in Int /\ ng \in Int
  <2>1. i * s \in Int /\ i * n \in Int
    BY <1>2
  <2> HIDE DEF ng
  <2> QED BY <1>4, <2>1, ScalarsReduce
<1>6. e \in Scalars /\ Same(e, i * t, Order)
  <2> HIDE DEF ng
  <2> QED BY <1>2, <1>4, CombinedScalars
<1>7. ecmult(Multiple[k], na, ng) = Multiple[e]
  <2> HIDE DEF na, ng
  <2> QED BY <1>2, <1>5, Multiplication
<1> HIDE DEF e
<1>8. t \in Int /\ e \in Int /\ i * t \in Int /\ i * r \in Int /\ 1 \in Int
  BY <1>2, <1>6, ScalarsReduce
<1>9. Same(r * e, r * (i * t), Order)
  BY <1>2, <1>6, <1>8, SameScalars
<1>10. Same((i * r) * t, 1 * t, Order)
  BY <1>1, <1>8, SameScalars
<1>11. r * (i * t) = (i * r) * t /\ 1 * t = t /\ t + m = s * k /\ r * e \in Int
  BY <1>2, <1>3, <1>8
<1>12. Same(r * e, t, Order)
  BY <1>9, <1>10, <1>11, SameScalars
<1>13. Same(r * e + m, t + m, Order)
  BY <1>8, <1>11, <1>12, SameScalars
<1> QED BY <1>1, <1>3, <1>6, <1>7, <1>11, <1>13

\* What recovery computes.
LEMMA RecoverComputes ==
    ASSUME NEW r, NEW s, NEW m, NEW recid, r # 0, s # 0, ~(recid \div 2 = 1 /\ r >= Q - Order)
    PROVE  ecdsa_sig_recover(r, s, m, recid) =
             LET g == ge_set_xo_var(fe_set_int(r + Order * (recid \div 2)), recid % 2 = 1)
                 i == ScalarInverse[r]
             IN  IF ~g.ok THEN NoPoint
                 ELSE ecmult(ge_to_storage(g.ge), (i * s) % Order, scalar_negate((i * m) % Order))
<1> DEFINE g == ge_set_xo_var(fe_set_int(r + Order * (recid \div 2)), recid % 2 = 1)
           i == ScalarInverse[r]
           Last(R, rn) == IF ~R.ok THEN NoPoint
                          ELSE ecmult(ge_to_storage(R.ge), (rn * s) % Order, scalar_negate((rn * m) % Order))
           First(R) == With(i, LAMBDA rn : Last(R, rn))
<1>1. ecdsa_sig_recover(r, s, m, recid) = With(g, LAMBDA R : First(R))
  BY Zenon DEF ecdsa_sig_recover
<1>2. With(g, LAMBDA R : First(R)) = First(g)
  <2> HIDE DEF First, g
  <2> QED BY Zenon DEF With
<1>3. First(g) = Last(g, i)
  <2> HIDE DEF Last, g, i
  <2> QED BY Zenon DEF With
<1> QED BY <1>1, <1>2, <1>3, Zenon

\* Recovery from a signature with its id finds the signer's key.
LEMMA RecoverFinds ==
    ASSUME NEW g, NEW m \in Int, NEW d \in Units, RSigFor(g, m, d)
    PROVE  ecdsa_sig_recover(g[1], g[2], m, g[3]) = Multiple[d]
<1>1. PICK k \in RUnits :
        /\ g[1] = Multiple[k][1] % Order /\ g[2] \in Units
        /\ Same(g[2] * k, g[1] * d + m, Order)
        /\ g[3] = (IF Multiple[k][1] >= Order THEN 2 ELSE 0) + (Multiple[k][2] % 2)
  BY DEF RSigFor
<1>0. k \in Units
  BY DEF RUnits
<1>2. PICK x \in Field, y \in Field : Multiple[k] = <<x, y>> /\ Multiple[k][1] = x /\ Multiple[k][2] = y
  BY <1>0, Points
<1>3. PICK r \in Units, s \in Units : r = g[1] /\ s = g[2]
  BY <1>1, NonceX
<1>4. x \in Int /\ y \in Int /\ r \in Int /\ s \in Int /\ k \in Int /\ d \in Int /\ d \in Scalars
  BY <1>0, FieldReduces, ScalarsReduce
<1>5. PICK o \in {0, 1}, recid \in 0 .. 3 :
        /\ recid = g[3] /\ recid \div 2 = o /\ recid % 2 = y % 2 /\ x = r + Order * o
        /\ ~(recid \div 2 = 1 /\ r >= Q - Order)
  <2>1. y % 2 \in {0, 1}
    BY <1>4
  <2>2. CASE x >= Order
    <3>1. g[3] = 2 + (y % 2) /\ x = r + Order /\ r < Q - Order
      BY <1>1, <1>2, <1>3, <2>2, NonceX
    <3>2. g[3] \in 2 .. 3 /\ g[3] \div 2 = 1 /\ g[3] % 2 = y % 2
      BY <2>1, <3>1
    <3> QED BY <1>4, <3>1, <3>2, GroupFacts
  <2>3. CASE x < Order
    <3>1. g[3] = (y % 2) /\ x = r
      BY <1>1, <1>2, <1>3, <1>4, <2>1, <2>3, NonceX, GroupFacts
    <3>2. g[3] \in 0 .. 1 /\ g[3] \div 2 = 0 /\ g[3] % 2 = y % 2
      BY <2>1, <3>1
    <3> QED BY <1>4, <3>1, <3>2, GroupFacts
  <2> QED BY <1>4, <2>2, <2>3, GroupFacts
<1>6. r # 0 /\ s # 0
  BY DEF Units
<1>7. ge_set_xo_var(fe_set_int(r + Order * (recid \div 2)), recid % 2 = 1) =
        ge_set_xo_var(fe_set_int(x), y % 2 = 1)
  BY <1>5, Zenon
<1>8. PICK R : R = ge_set_xo_var(fe_set_int(x), y % 2 = 1)
  OBVIOUS
<1>9. R.ok /\ ge_to_storage(R.ge) = Multiple[k]
  BY <1>0, <1>2, <1>8, XOddFinds, Zenon
<1>10. ecdsa_sig_recover(r, s, m, recid) =
         ecmult(Multiple[k], (ScalarInverse[r] * s) % Order, scalar_negate((ScalarInverse[r] * m) % Order))
  <2>1. ge_set_xo_var(fe_set_int(r + Order * (recid \div 2)), recid % 2 = 1) = R
    BY <1>7, <1>8, Zenon
  <2> QED BY <1>5, <1>6, <1>9, <2>1, RecoverComputes
<1>11. PICK e \in Scalars :
         /\ ecdsa_sig_recover(r, s, m, recid) = Multiple[e]
         /\ Same(e, ScalarInverse[r] * (s * k + (-m)), Order)
  BY <1>0, <1>10, RecoveredScalar
<1>12. Same(ScalarInverse[r] * (s * k + (-m)), d, Order)
  <2> DEFINE p == s * k
             t == p + (-m)
             u == r * d + m
  <2>1. p \in Int /\ t \in Int /\ u \in Int /\ -m \in Int /\ u + (-m) = r * d
    BY <1>4
  <2>2. Same(p, u, Order)
    BY <1>1, <1>3
  <2>3. Same(t, u + (-m), Order)
    BY <2>1, <2>2, SameScalars
  <2> HIDE DEF t
  <2>4. Same(r * d, t, Order)
    BY <2>1, <2>3, SameScalars
  <2>5. Same(ScalarInverse[r] * t, d, Order)
    BY <1>4, <2>1, <2>4, Cancelled
  <2> QED BY <2>5 DEF t
<1>13. Same(e, d, Order)
  BY <1>11, <1>12, SameScalars
<1>14. e = d
  BY <1>4, <1>13, ScalarsReduce
<1> QED BY <1>3, <1>5, <1>11, <1>14

\* Whatever key is recovered, the signature is one of its secret.
LEMMA RecoverValid ==
    ASSUME NEW g, NEW m \in Int, g[1] \in Scalars, g[2] \in Scalars, g[3] \in 0 .. 3,
           ecdsa_sig_recover(g[1], g[2], m, g[3]) # NoPoint
    PROVE  \E d \in Units : /\ ecdsa_sig_recover(g[1], g[2], m, g[3]) = Multiple[d]
                            /\ SigFor(g, m, d)
<1>1. PICK r \in Scalars, s \in Scalars, recid \in 0 .. 3 : r = g[1] /\ s = g[2] /\ recid = g[3]
  OBVIOUS
<1>2. ~(r = 0 \/ s = 0 \/ (recid \div 2 = 1 /\ r >= Q - Order))
  BY <1>1, Zenon DEF ecdsa_sig_recover
<1>3. r \in Units /\ s \in Units /\ r \in Int /\ s \in Int
  BY <1>2, GroupFacts DEF Scalars, Units
<1>4. PICK x \in Field, odd \in BOOLEAN :
        /\ x = r + Order * (recid \div 2) /\ odd = (recid % 2 = 1) /\ x % Order = r
  <2>1. recid \div 2 \in {0, 1} /\ (recid % 2 = 1) \in BOOLEAN
    OBVIOUS
  <2>2. CASE recid \div 2 = 0
    <3>1. r + Order * (recid \div 2) = r
      BY <1>3, <2>2, GroupFacts
    <3>2. r \in Field /\ r % Order = r
      <4>1. r % Order = r
        BY ScalarsReduce
      <4>2. r \in Field
        BY GroupFacts DEF Field, Scalars
      <4> QED BY <4>1, <4>2
    <3> QED BY <2>1, <3>1, <3>2, Zenon
  <2>3. CASE recid \div 2 = 1
    <3>1. PICK x \in Field, q \in Int : x = r + Order * (recid \div 2) /\ q = 1 /\ x = r + Order
      BY <1>2, <1>3, <2>3, GroupFacts DEF Field, Units
    <3>2. x \in Int /\ Order * q <= x /\ x < Order * q + Order /\ x - Order * q = r
      BY <1>3, <3>1, GroupFacts DEF Units
    <3>3. x % Order = r
      BY <3>2, GroupFacts, Quotient
    <3> QED BY <2>1, <3>1, <3>3, Zenon
  <2> QED BY <2>1, <2>2, <2>3
<1>5. PICK R : R = ge_set_xo_var(fe_set_int(x), odd)
  OBVIOUS
<1>6. ecdsa_sig_recover(r, s, m, recid) =
        IF ~R.ok THEN NoPoint
        ELSE ecmult(ge_to_storage(R.ge), (ScalarInverse[r] * s) % Order,
                    scalar_negate((ScalarInverse[r] * m) % Order))
  <2>1. ge_set_xo_var(fe_set_int(r + Order * (recid \div 2)), recid % 2 = 1) = R
    BY <1>4, <1>5, Zenon
  <2> QED BY <1>2, <2>1, RecoverComputes
<1>7. R.ok
  BY <1>1, <1>6
<1>8. PICK k \in Units : ge_to_storage(R.ge) = Multiple[k] /\ Multiple[k][1] = x
  BY <1>5, <1>7, XOddIsPoint
<1>9. PICK e \in Scalars :
        /\ ecdsa_sig_recover(r, s, m, recid) = Multiple[e] /\ Same(r * e + m, s * k, Order)
  <2>1. ecdsa_sig_recover(r, s, m, recid) =
          ecmult(Multiple[k], (ScalarInverse[r] * s) % Order,
                 scalar_negate((ScalarInverse[r] * m) % Order))
    BY <1>6, <1>7, <1>8, Zenon
  <2> QED BY <1>3, <2>1, RecoveredScalar
<1>10. e \in Units
  BY <1>1, <1>9, GroupFacts DEF Scalars, Units
<1>11. k \in RUnits
  <2>1. Order % Order = 0
    BY GroupFacts
  <2>2. x # Order
    BY <1>3, <1>4, <2>1 DEF Units
  <2> QED BY <1>8, <2>2 DEF RUnits
<1>12. SigFor(g, m, e)
  BY <1>1, <1>3, <1>4, <1>8, <1>9, <1>11, SameScalars DEF SigFor
<1> QED BY <1>1, <1>9, <1>10, <1>12

-----------------------------------------------------------------------------
\* A valid secret is a unit.
LEMMA ValidIsUnit ==
    ASSUME NEW b \in Bytes32
    PROVE  /\ ValidSecret(b) <=> b \in Units
           /\ b % Order \in Scalars /\ scalar_set_b32(b).v = b % Order
           /\ scalar_set_b32(b).overflow <=> b >= Order
           /\ b < Order => b % Order = b
           /\ scalar_set_b32(b).overflow \in BOOLEAN
<1>1. b \in Int /\ 0 <= b
  BY GroupFacts DEF Bytes32
<1>2. b % Order \in Scalars
  BY <1>1, ScalarsReduce
<1>3. b < Order => b % Order = b
  <2> SUFFICES ASSUME b < Order PROVE b % Order = b
    OBVIOUS
  <2>1. b \in Scalars
    BY <1>1, GroupFacts DEF Scalars
  <2> QED BY <2>1, ScalarsReduce
<1>4. /\ scalar_set_b32(b).v = b % Order
      /\ (scalar_set_b32(b).overflow <=> b >= Order) /\ scalar_set_b32(b).overflow \in BOOLEAN
  <2>1. scalar_set_b32(b).v = b % Order /\ scalar_set_b32(b).overflow = (b >= Order)
    BY DEF scalar_set_b32
  <2>2. (b >= Order) \in BOOLEAN
    BY <1>1, GroupFacts
  <2> QED BY <2>1, <2>2, Zenon
<1>5. ValidSecret(b) <=> (b < Order /\ b % Order # 0)
  BY <1>1, <1>4, GroupFacts DEF ValidSecret
<1>6. ValidSecret(b) <=> b \in Units
  BY <1>1, <1>3, <1>5, GroupFacts DEF Units
<1> QED BY <1>2, <1>3, <1>4, <1>6

\* What a signing call can end with is a signature of the signer, with its id.
LEMMA SignedIsMade ==
    ASSUME signer \in Signers, NEW msg \in Msgs, NEW t \in Signed(msg), t.ok
    PROVE  /\ signer \in Units /\ ValidSecret(signer)
           /\ RSigFor(<<t.r, t.s, t.recid>>, msg % Order, signer)
<1>1. signer \in Bytes32 /\ msg \in Bytes32 /\ MaxNonces \in Nat
  BY SignersAssumption
<1>2. ValidSecret(signer)
  BY DEF Signed, NoSignature
<1>3. signer \in Units /\ scalar_set_b32(msg).v = msg % Order /\ msg % Order \in Scalars
  BY <1>1, <1>2, ValidIsUnit
<1>4. PICK nonces \in Nonces(msg) :
        /\ Stops(signer, msg, nonces) # {}
        /\ t = SignLoop(signer, msg, nonces, Stops(signer, msg, nonces))
  <2>1. t \in {SignLoop(signer, msg, a[1], a[2]) :
                 a \in {b \in {<<nonces, Stops(signer, msg, nonces)>> : nonces \in Nonces(msg)} :
                          b[2] # {}}}
    BY <1>2, Zenon DEF Signed
  <2>2. PICK a : /\ t = SignLoop(signer, msg, a[1], a[2]) /\ a[2] # {}
                 /\ \E nonces \in Nonces(msg) : a = <<nonces, Stops(signer, msg, nonces)>>
    BY <2>1, Zenon
  <2>3. PICK nonces \in Nonces(msg) : a = <<nonces, Stops(signer, msg, nonces)>>
    BY <2>2
  <2>4. a[1] = nonces /\ a[2] = Stops(signer, msg, nonces)
    BY <2>3
  <2> QED BY <2>2, <2>4, Zenon
<1> DEFINE stops == Stops(signer, msg, nonces)
           c == CHOOSE count \in stops : \A other \in stops : count <= other
<1>5. stops \subseteq 1 .. MaxNonces
  BY DEF Stops
<1>6. c \in stops
  <2>1. stops \in SUBSET Nat /\ stops # {}
    BY <1>1, <1>4, <1>5
  <2>2. \E n \in stops : \A k \in stops : n <= k
    BY <2>1, LeastNumber
  <2> QED BY <2>2, Zenon
<1>7. PICK nonce : nonce = nonces[c]
  OBVIOUS
<1>8. nonce = Fail \/ Usable(signer, msg, nonce)
  BY <1>6, <1>7 DEF Stops
<1>9. nonce \in Bytes32 \cup {Fail} /\ GivesR(nonce)
  <2>1. c \in 1 .. MaxNonces
    BY <1>5, <1>6
  <2> HIDE DEF c
  <2>2. CASE nonces \in NonceFns
    BY <1>7, <2>1, <2>2, SignersAssumption
  <2>3. CASE nonces \notin NonceFns
    <3>1. PICK data \in NonceData :
            nonces = [count \in 1 .. MaxNonces |-> nonce_function_rfc6979(msg, signer, data, count - 1)]
      BY <2>3 DEF Nonces
    <3>2. nonce = Draw(nonce_keydata(signer, msg, data, NotGiven), (c - 1) + 1)
      BY <1>7, <2>1, <3>1 DEF nonce_function_rfc6979
    <3>3. (c - 1) + 1 = c
      BY <1>1, <2>1
    <3>4. /\ Draw(nonce_keydata(signer, msg, data, NotGiven), c) \in Bytes32
          /\ GivesR(Draw(nonce_keydata(signer, msg, data, NotGiven), c))
      BY <2>1, SignersAssumption, Zenon
    <3> QED BY <3>2, <3>3, <3>4
  <2> QED BY <2>2, <2>3
<1>10. t = IF nonce = Fail THEN NoSignature ELSE ecdsa_sig_sign(signer, msg % Order, nonce)
  <2> DEFINE F(n) == IF n = Fail THEN NoSignature
                     ELSE ecdsa_sig_sign(signer, scalar_set_b32(msg).v, n)
  <2>1. t = With(nonces[c], LAMBDA n : F(n))
    BY <1>4, Zenon DEF SignLoop
  <2>2. With(nonces[c], LAMBDA n : F(n)) = F(nonces[c])
    <3> HIDE DEF F, c
    <3> QED BY Zenon DEF With
  <2>3. t = F(nonce)
    <3> HIDE DEF F, c
    <3> QED BY <1>7, <2>1, <2>2, Zenon
  <2> QED BY <1>3, <2>3, Zenon
<1>11. nonce # Fail
  BY <1>10 DEF NoSignature
<1>12. nonce \in RUnits
  <2>1. nonce \in Bytes32 /\ ~scalar_set_b32(nonce).overflow /\ nonce # 0
    BY <1>8, <1>9, <1>11 DEF Usable
  <2>2. ~(nonce >= Order)
    BY <2>1, ValidIsUnit
  <2>3. nonce \in Units
    BY <2>1, <2>2, GroupFacts DEF Bytes32, Units
  <2> QED BY <1>9, <2>3 DEF GivesR, RUnits, Units
<1>13. PICK m \in Scalars, sec \in Units : m = msg % Order /\ sec = signer
  BY <1>3
<1>14. t = ecdsa_sig_sign(sec, m, nonce)
  BY <1>10, <1>11, <1>13
<1>15. RSigFor(<<t.r, t.s, t.recid>>, m, sec)
  BY <1>12, <1>14, SignMakes
<1> QED BY <1>2, <1>3, <1>13, <1>15

\* A signature with its id is a signature.
LEMMA RecoverableIsSignature ==
    ASSUME NEW g, NEW h, NEW m, NEW d, RSigFor(g, m, d), h[1] = g[1], h[2] = g[2]
    PROVE  SigFor(h, m, d) /\ h[1] \in Units /\ h[2] \in Units /\ g[3] \in 0 .. 3
<1>1. PICK k \in RUnits : /\ g[1] = Multiple[k][1] % Order /\ g[2] \in Units
                          /\ Same(g[2] * k, g[1] * d + m, Order)
                          /\ g[3] = (IF Multiple[k][1] >= Order THEN 2 ELSE 0) + (Multiple[k][2] % 2)
  BY DEF RSigFor
<1>2. Multiple[k][2] % 2 \in {0, 1} /\ g[1] \in Units
  BY <1>1, OppositeParity, NonceX
<1> QED BY <1>1, <1>2 DEF SigFor

-----------------------------------------------------------------------------
\* What the seed of the nonces shows of its parts.
SeedShows(seed, key, msg, data, algo) ==
    /\ seed[1] = key /\ seed[3] = msg
    /\ Len(seed) = (IF data # NotGiven THEN 6 ELSE 4) + (IF algo # NotGiven THEN 1 ELSE 0)
    /\ data # NotGiven => seed[5] = data
    /\ algo # NotGiven => seed[Len(seed)] = algo

\* The seed is made so.
LEMMA SeedParts ==
    ASSUME NEW key \in Nat, NEW msg \in Nat,
           NEW data \in Nat \cup {NotGiven}, NEW algo \in Nat \cup {NotGiven},
           NEW seed, seed = nonce_keydata(key, msg, data, algo)
    PROVE  SeedShows(seed, key, msg, data, algo)
<1> DEFINE a == <<key, key, msg, msg>>
           b == IF data # NotGiven THEN <<data, data>> ELSE <<>>
           c == IF algo # NotGiven THEN <<algo>> ELSE <<>>
           d == a \o b
           s == d \o c
<1>1. a \in Seq(Nat) /\ Len(a) = 4 /\ a[1] = key /\ a[3] = msg
  OBVIOUS
<1>2. b \in Seq(Nat) /\ Len(b) = (IF data # NotGiven THEN 2 ELSE 0) /\ (data # NotGiven => b[1] = data)
  OBVIOUS
<1>3. c \in Seq(Nat) /\ Len(c) = (IF algo # NotGiven THEN 1 ELSE 0) /\ (algo # NotGiven => c[1] = algo)
  OBVIOUS
<1>4. nonce_keydata(key, msg, data, algo) = s
  BY Zenon DEF nonce_keydata
<1> HIDE DEF a, b, c
<1>5. /\ d \in Seq(Nat) /\ Len(d) = Len(a) + Len(b)
      /\ \A i \in 1 .. Len(a) : d[i] = a[i]
      /\ \A i \in 1 .. Len(b) : d[Len(a) + i] = b[i]
  BY <1>1, <1>2, Concatenation, Zenon
<1> HIDE DEF d
<1>6. /\ s \in Seq(Nat) /\ Len(s) = Len(d) + Len(c)
      /\ \A i \in 1 .. Len(d) : s[i] = d[i]
      /\ \A i \in 1 .. Len(c) : s[Len(d) + i] = c[i]
  BY <1>3, <1>5, Concatenation, Zenon
<1> HIDE DEF s
<1>7. Len(d) = (IF data # NotGiven THEN 6 ELSE 4) /\ d[1] = key /\ d[3] = msg
      /\ (data # NotGiven => d[5] = data)
  BY <1>1, <1>2, <1>5
<1>8. s[1] = key /\ s[3] = msg /\ (data # NotGiven => s[5] = data)
  BY <1>6, <1>7
<1>9. algo # NotGiven => s[Len(s)] = algo
  BY <1>3, <1>6, <1>7
<1> QED BY <1>3, <1>4, <1>6, <1>7, <1>8, <1>9 DEF SeedShows

\* Different arguments give different seeds.
LEMMA SeedsDiffer == NonceSeedsDiffer
<1> DEFINE given == {NotGiven} \cup {1, 2}
           Args == (1 .. 2) \X (1 .. 2) \X given \X given
           Seed(a) == nonce_keydata(a[1], a[2], a[3], a[4])
<1> SUFFICES ASSUME NEW a \in Args, NEW b \in Args, Seed(a) = Seed(b) PROVE a = b
  BY DEF NonceSeedsDiffer
<1>1. PICK k \in Nat, m \in Nat, x \in Nat \cup {NotGiven}, y \in Nat \cup {NotGiven} :
        k = a[1] /\ m = a[2] /\ x = a[3] /\ y = a[4] /\ a = <<a[1], a[2], a[3], a[4]>>
  <2>1. /\ a[1] \in 1 .. 2 /\ a[2] \in 1 .. 2 /\ a[3] \in given /\ a[4] \in given
        /\ a = <<a[1], a[2], a[3], a[4]>>
    OBVIOUS
  <2>2. /\ a[1] \in Nat /\ a[2] \in Nat
        /\ a[3] \in Nat \cup {NotGiven} /\ a[4] \in Nat \cup {NotGiven}
    BY <2>1
  <2> QED BY <2>1, <2>2, Zenon
<1>2. PICK j \in Nat, n \in Nat, u \in Nat \cup {NotGiven}, v \in Nat \cup {NotGiven} :
        j = b[1] /\ n = b[2] /\ u = b[3] /\ v = b[4] /\ b = <<b[1], b[2], b[3], b[4]>>
  <2>1. /\ b[1] \in 1 .. 2 /\ b[2] \in 1 .. 2 /\ b[3] \in given /\ b[4] \in given
        /\ b = <<b[1], b[2], b[3], b[4]>>
    OBVIOUS
  <2>2. /\ b[1] \in Nat /\ b[2] \in Nat
        /\ b[3] \in Nat \cup {NotGiven} /\ b[4] \in Nat \cup {NotGiven}
    BY <2>1
  <2> QED BY <2>1, <2>2, Zenon
<1>3. PICK s : s = nonce_keydata(k, m, x, y) /\ s = nonce_keydata(j, n, u, v)
  BY <1>1, <1>2
<1>4. SeedShows(s, k, m, x, y)
  BY <1>3, SeedParts, Zenon
<1>5. SeedShows(s, j, n, u, v)
  BY <1>3, SeedParts, Zenon
<1>6. (x = NotGiven <=> u = NotGiven) /\ (y = NotGiven <=> v = NotGiven)
  BY <1>4, <1>5 DEF SeedShows
<1>7. k = j /\ m = n /\ x = u /\ y = v
  BY <1>4, <1>5, <1>6 DEF SeedShows
<1> QED BY <1>1, <1>2, <1>7, Zenon

\* An object holds scalars, and a signature of the message that it is said to be one
\* of, if any.
SigObject(g, m, d) ==
    /\ g[1] \in Scalars /\ g[2] \in Scalars /\ m \in Msgs \cup {NoMsg}
    /\ m # NoMsg => d \in Units /\ SigFor(g, m % Order, d)

\* The same of a recoverable signature.
RSigObject(g, m, d) ==
    /\ g[1] \in Scalars /\ g[2] \in Scalars /\ g[3] \in 0 .. 3 /\ m \in Msgs \cup {NoMsg}
    /\ m # NoMsg => d \in Units /\ RSigFor(g, m % Order, d)

\* The inductive invariant.
SigInv ==
    /\ signer \in Signers
    /\ SigObject(sig, made, signer) /\ RSigObject(rsig, rmade, signer)
    /\ compact[1] \in Scalars /\ compact[2] \in Scalars /\ compact[3] \in 0 .. 3

\* Zeros are signatures of nothing.
LEMMA ZeroObjects ==
    ASSUME NEW d
    PROVE  /\ SigObject(ZeroSig, NoMsg, d) /\ RSigObject(ZeroRSig, NoMsg, d)
           /\ 0 \in Scalars
<1>1. 0 \in Scalars
  BY GroupFacts DEF Scalars
<1> QED BY <1>1 DEF SigObject, RSigObject, ZeroSig, ZeroRSig

\* It holds at first.
LEMMA SigInitial == SigInit => SigInv
<1> SUFFICES ASSUME SigInit PROVE SigInv
  OBVIOUS
<1> QED BY ZeroObjects DEF SigInit, SigInv, ZeroRSig

\* Invariant and messages: what they say of the bytes of the messages.
LEMMA Messages ==
    ASSUME NEW msg \in Msgs
    PROVE  msg \in Bytes32 /\ msg % Order \in Scalars /\ msg % Order \in Int /\ msg # NoMsg
<1>1. msg \in Bytes32
  BY SignersAssumption
<1>2. msg % Order \in Scalars
  BY <1>1, ValidIsUnit
<1>3. msg # NoMsg
  BY <1>1, GroupFacts DEF NoMsg, Bytes32
<1> QED BY <1>1, <1>2, <1>3, ScalarsReduce

\* The invariant gives the properties.
LEMMA SigInvSuffices == SigInv => SignaturesVerify /\ RecoveryRight
<1> SUFFICES ASSUME SigInv PROVE SignaturesVerify /\ RecoveryRight
  OBVIOUS
<1>1. ASSUME signer \in Units PROVE Signer = Multiple[signer]
  BY <1>1, ScalarsReduce DEF Signer
<1>2. ASSUME made # NoMsg
      PROVE  /\ Verifies(sig, made, Signer) = ~scalar_is_high(sig[2])
             /\ Verifies(Normalized(sig), made, Signer)
  <2>1. PICK d \in Units, msg \in Msgs : d = signer /\ msg = made /\ SigFor(sig, msg % Order, d)
    BY <1>2 DEF SigInv, SigObject
  <2>2. msg \in Bytes32
    BY Messages
  <2>3. Signer = Multiple[d]
    BY <1>1, <2>1
  <2> QED BY <2>1, <2>2, <2>3, VerifiesIfLow
<1>3. ASSUME NEW msg PROVE ~Verifies(ZeroSig, msg, Signer)
  BY DEF Verifies, ecdsa_sig_verify, ZeroSig
<1>4. ASSUME rmade # NoMsg PROVE Recovered(rsig, rmade) = Signer
  <2>1. PICK d \in Units, msg \in Msgs : d = signer /\ msg = rmade /\ RSigFor(rsig, msg % Order, d)
    BY <1>4 DEF SigInv, RSigObject
  <2>2. PICK m \in Int : m = msg % Order /\ m = scalar_set_b32(msg).v
    BY Messages, ValidIsUnit
  <2>3. ecdsa_sig_recover(rsig[1], rsig[2], m, rsig[3]) = Multiple[d]
    BY <2>1, <2>2, RecoverFinds
  <2> QED BY <1>1, <2>1, <2>2, <2>3 DEF Recovered
<1>5. ASSUME NEW msg \in Msgs, NEW P, P = Recovered(rsig, msg), P # NoPoint
      PROVE  Verifies(Normalized(<<rsig[1], rsig[2]>>), msg, P)
  <2>1. PICK m \in Int : m = msg % Order /\ m = scalar_set_b32(msg).v
    BY Messages, ValidIsUnit
  <2>2. PICK d \in Units : P = Multiple[d] /\ SigFor(rsig, m, d)
    BY <1>5, <2>1, RecoverValid DEF Recovered, SigInv, RSigObject
  <2>3. PICK h : h = <<rsig[1], rsig[2]>>
    OBVIOUS
  <2>4. SigFor(h, msg % Order, d)
    BY <2>1, <2>2, <2>3 DEF SigFor
  <2>5. Verifies(Normalized(h), msg, Multiple[d])
    BY <2>4, Messages, VerifiesIfLow
  <2> QED BY <2>2, <2>3, <2>5
<1>6. SignaturesVerify
  BY <1>2, <1>3 DEF SignaturesVerify
<1>7. RecoveryFindsSigner
  BY <1>4, <1>5 DEF RecoveryFindsSigner
<1> QED BY <1>6, <1>7, SeedsDiffer DEF RecoveryRight


\* What signing leaves in either object.
LEMMA SignedObjects ==
    ASSUME signer \in Signers, NEW msg \in Msgs, NEW t \in Signed(msg)
    PROVE  /\ SigObject(IF t.ok THEN <<t.r, t.s>> ELSE ZeroSig, IF t.ok THEN msg ELSE NoMsg, signer)
           /\ RSigObject(IF t.ok THEN <<t.r, t.s, t.recid>> ELSE ZeroRSig,
                         IF t.ok THEN msg ELSE NoMsg, signer)
<1>1. CASE ~t.ok
  BY <1>1, ZeroObjects
<1>2. CASE t.ok
  <2> DEFINE g == <<t.r, t.s, t.recid>>
             h == <<t.r, t.s>>
  <2>1. signer \in Units /\ RSigFor(g, msg % Order, signer)
    BY <1>2, SignedIsMade
  <2>2. h[1] = g[1] /\ h[2] = g[2]
    OBVIOUS
  <2>3. SigFor(h, msg % Order, signer) /\ h[1] \in Units /\ h[2] \in Units /\ g[3] \in 0 .. 3
    <3> HIDE DEF g, h
    <3> QED BY <2>1, <2>2, RecoverableIsSignature
  <2> HIDE DEF g, h
  <2>4. SigObject(h, msg, signer) /\ RSigObject(g, msg, signer)
    BY <2>1, <2>2, <2>3, ScalarsReduce DEF SigObject, RSigObject
  <2> QED BY <1>2, <2>4 DEF g, h
<1> QED BY <1>1, <1>2

\* Opposites of scalars are scalars.
LEMMA NegatedScalar ==
    ASSUME NEW s \in Scalars
    PROVE  scalar_negate(s) \in Scalars
<1>1. s = 0 \/ s \in Units
  BY GroupFacts DEF Scalars, Units
<1>2. 0 \in Scalars
  BY GroupFacts DEF Scalars
<1> QED BY <1>1, <1>2, Opposite, ScalarsReduce

\* An encoding that is accepted holds scalars.
LEMMA Arrived ==
    ASSUME compact[1] \in Scalars, compact[2] \in Scalars, compact[3] \in 0 .. 3,
           NEW in \in Arrivals, CompactOk(in)
    PROVE  in[1] \in Scalars /\ in[2] \in Scalars
<1>1. in[1] \in Int /\ in[2] \in Int /\ in[1] >= 0 /\ in[2] >= 0
  <2>1. PICK n \in Scalars : n = scalar_negate(compact[2])
    BY NegatedScalar
  <2>2. \/ in = compact \/ in = <<compact[1], n, compact[3]>>
        \/ in = <<compact[1] + Order, compact[2], compact[3]>>
        \/ in = <<compact[1], compact[2] + Order, compact[3]>>
    BY <2>1 DEF Arrivals
  <2>3. PICK a \in Int, b \in Int : /\ a = compact[1] /\ b = compact[2] /\ a >= 0 /\ b >= 0
                                    /\ n \in Int /\ n >= 0
    BY GroupFacts DEF Scalars
  <2>4. a + Order \in Int /\ b + Order \in Int /\ a + Order >= 0 /\ b + Order >= 0
    BY <2>3, GroupFacts
  <2>5. /\ in[1] = a \/ in[1] = a + Order
        /\ in[2] = b \/ in[2] = b + Order \/ in[2] = n
    BY <2>2, <2>3
  <2> QED BY <2>3, <2>4, <2>5
<1>2. ~(in[1] >= Order) /\ ~(in[2] >= Order)
  BY DEF CompactOk, scalar_set_b32
<1> QED BY <1>1, <1>2, GroupFacts DEF Scalars

\* Every step keeps the invariant.
LEMMA SigStep == SigInv /\ [SigNext]_sigVars => SigInv'
<1> SUFFICES ASSUME SigInv, [SigNext]_sigVars PROVE SigInv'
  OBVIOUS
<1> USE DEF SigInv
<1>1. ASSUME NEW c \in Contexts, Refused(c) PROVE SigInv'
  BY <1>1 DEF Refused
<1>2. ASSUME NEW c \in Contexts, NEW msg \in Msgs, ecdsa_sign(c, msg) PROVE SigInv'
  <2>1. CASE ~c.sign /\ Refused(c)
    BY <1>1, <2>1
  <2>2. CASE /\ c.sign /\ SigCall
             /\ \E t \in Signed(msg) : /\ sig' = IF t.ok THEN <<t.r, t.s>> ELSE ZeroSig
                                       /\ made' = IF t.ok THEN msg ELSE NoMsg
                                       /\ verdict' = t.ok
             /\ UNCHANGED <<rsig, rmade, compact>>
    <3>1. SigObject(sig', made', signer)
      BY <2>2, SignedObjects
    <3> QED BY <2>2, <3>1 DEF SigCall
  <2> QED BY <1>2, <2>1, <2>2 DEF ecdsa_sign
<1>3. ASSUME NEW c \in Contexts, NEW msg \in Msgs, ecdsa_sign_recoverable(c, msg) PROVE SigInv'
  <2>1. CASE ~c.sign /\ Refused(c)
    BY <1>1, <2>1
  <2>2. CASE /\ c.sign /\ SigCall
             /\ \E t \in Signed(msg) : /\ rsig' = IF t.ok THEN <<t.r, t.s, t.recid>> ELSE ZeroRSig
                                       /\ rmade' = IF t.ok THEN msg ELSE NoMsg
                                       /\ verdict' = t.ok
             /\ UNCHANGED <<sig, made, compact>>
    <3>1. RSigObject(rsig', rmade', signer)
      BY <2>2, SignedObjects
    <3> QED BY <2>2, <3>1 DEF SigCall
  <2> QED BY <1>3, <2>1, <2>2 DEF ecdsa_sign_recoverable
<1>4. ASSUME NEW c \in Contexts, NEW msg \in Msgs, ecdsa_verify(c, msg) \/ ecdsa_recover(c, msg)
      PROVE  SigInv'
  BY <1>1, <1>4 DEF ecdsa_verify, ecdsa_recover, SigCall
<1>5. CASE ecdsa_signature_serialize_compact
  <2>1. compact' = <<sig[1], sig[2], 0>> /\ 0 \in 0 .. 3
    BY <1>5 DEF ecdsa_signature_serialize_compact
  <2> QED BY <1>5, <2>1 DEF ecdsa_signature_serialize_compact, SigCall, SigObject
<1>6. CASE ecdsa_recoverable_signature_serialize_compact
  BY <1>6 DEF ecdsa_recoverable_signature_serialize_compact, SigCall, RSigObject
<1>7. ASSUME NEW in \in Arrivals, ecdsa_signature_parse_compact(in) PROVE SigInv'
  <2>1. SigObject(sig', made', signer)
    <3>1. CASE ~CompactOk(in)
      BY <1>7, <3>1, ZeroObjects DEF ecdsa_signature_parse_compact
    <3>2. CASE CompactOk(in)
      <4>1. PICK h : h = <<in[1], in[2]>> /\ sig' = h
        BY <1>7, <3>2 DEF ecdsa_signature_parse_compact
      <4>2. h[1] = in[1] /\ h[2] = in[2] /\ h[1] \in Scalars /\ h[2] \in Scalars
        BY <3>2, <4>1, Arrived
      <4>3. CASE made # NoMsg /\ SameSig(sig, in)
        <5>1. made' = made /\ made \in Msgs
          BY <1>7, <3>2, <4>3 DEF ecdsa_signature_parse_compact, SigObject
        <5>2. signer \in Units /\ SigFor(sig, made % Order, signer)
          BY <4>3 DEF SigObject
        <5>3. h[1] = sig[1] /\ (h[2] = sig[2] \/ h[2] = scalar_negate(sig[2]))
          BY <4>2, <4>3 DEF SameSig
        <5>4. PICK m \in Int, d \in Scalars : m = made % Order /\ d = signer
          BY <5>1, <5>2, Messages, ScalarsReduce
        <5>5. SigFor(h, m, d)
          <6>1. CASE h[2] = sig[2]
            BY <5>2, <5>3, <5>4, <6>1 DEF SigFor
          <6>2. CASE h[2] = scalar_negate(sig[2])
            BY <5>2, <5>3, <5>4, <6>2, NegatedSignature
          <6> QED BY <5>3, <6>1, <6>2
        <5> QED BY <4>1, <4>2, <5>1, <5>2, <5>4, <5>5 DEF SigObject
      <4>4. CASE ~(made # NoMsg /\ SameSig(sig, in))
        <5>1. made' = NoMsg
          BY <1>7, <4>4 DEF ecdsa_signature_parse_compact
        <5> QED BY <4>1, <4>2, <5>1 DEF SigObject
      <4> QED BY <4>3, <4>4
    <3> QED BY <3>1, <3>2
  <2> QED BY <1>7, <2>1 DEF ecdsa_signature_parse_compact, SigCall
<1>8. ASSUME NEW in \in Arrivals, NEW recid \in 0 .. 3,
             ecdsa_recoverable_signature_parse_compact(in, recid)
      PROVE  SigInv'
  <2>1. RSigObject(rsig', rmade', signer)
    <3>1. CASE ~CompactOk(in)
      BY <1>8, <3>1, ZeroObjects DEF ecdsa_recoverable_signature_parse_compact
    <3>2. CASE CompactOk(in)
      <4>1. PICK h : h = <<in[1], in[2], recid>> /\ rsig' = h
        BY <1>8, <3>2 DEF ecdsa_recoverable_signature_parse_compact
      <4>2. h[1] \in Scalars /\ h[2] \in Scalars /\ h[3] \in 0 .. 3
        BY <3>2, <4>1, Arrived
      <4>3. \/ rsig' = rsig /\ rmade' = rmade
            \/ rmade' = NoMsg
        BY <1>8 DEF ecdsa_recoverable_signature_parse_compact
      <4> QED BY <4>1, <4>2, <4>3 DEF RSigObject
    <3> QED BY <3>1, <3>2
  <2> QED BY <1>8, <2>1 DEF ecdsa_recoverable_signature_parse_compact, SigCall
<1>9. CASE ecdsa_recoverable_signature_convert
  <2>1. PICK h : h = <<rsig[1], rsig[2]>> /\ sig' = h /\ made' = rmade
    BY <1>9 DEF ecdsa_recoverable_signature_convert
  <2>2. h[1] = rsig[1] /\ h[2] = rsig[2]
    BY <2>1
  <2>3. ASSUME rmade # NoMsg PROVE signer \in Units /\ SigFor(h, rmade % Order, signer)
    BY <2>2, <2>3, RecoverableIsSignature DEF RSigObject
  <2>4. SigObject(sig', made', signer)
    BY <2>1, <2>2, <2>3 DEF SigObject, RSigObject
  <2> QED BY <1>9, <2>4 DEF ecdsa_recoverable_signature_convert, SigCall
<1>10. CASE ecdsa_signature_normalize
  <2>1. PICK h : h = Normalized(sig) /\ sig' = h /\ made' = made
    BY <1>10 DEF ecdsa_signature_normalize
  <2>2. h[1] \in Scalars /\ h[2] \in Scalars
    BY <2>1, NegatedScalar DEF Normalized, SigObject
  <2>3. ASSUME made # NoMsg PROVE signer \in Units /\ SigFor(h, made % Order, signer)
    <3>1. signer \in Units /\ SigFor(sig, made % Order, signer) /\ made \in Msgs
      BY <2>3 DEF SigObject
    <3>2. PICK m \in Int, d \in Scalars : m = made % Order /\ d = signer
      BY <3>1, Messages, ScalarsReduce
    <3> QED BY <2>1, <3>1, <3>2, NormalizedSignature
  <2>4. SigObject(sig', made', signer)
    BY <2>1, <2>2, <2>3 DEF SigObject
  <2> QED BY <1>10, <2>4 DEF ecdsa_signature_normalize, SigCall
<1>11. CASE UNCHANGED sigVars
  BY <1>11 DEF sigVars
<1> QED BY <1>2, <1>3, <1>4, <1>5, <1>6, <1>7, <1>8, <1>9, <1>10, <1>11 DEF SigNext

\* A signature of secp256k1_ecdsa_sign or _sign_recoverable, whatever encodings,
\* conversions and normalizations it goes through, verifies for its message under the
\* signer's key exactly if its s is low; for every curve that is a group of odd prime
\* order, all messages, keys and nonces that give an r, and any sequence of calls.
THEOREM MadeSignaturesVerify == SigSpec => []SignaturesVerify
<1>1. SigSpec => []SigInv
  BY SigInitial, SigStep, PTL DEF SigSpec
<1> QED BY <1>1, SigInvSuffices, PTL

\* secp256k1_ecdsa_recover finds the signer's key from a signature with its id, and
\* never a key for which the signature is not valid; no two arguments seed the nonces
\* alike.
THEOREM RecoveryIsRight == SigSpec => []RecoveryRight
<1>1. SigSpec => []SigInv
  BY SigInitial, SigStep, PTL DEF SigSpec
<1> QED BY <1>1, SigInvSuffices, PTL

-----------------------------------------------------------------------------
\* The calls that change a key.
KeyOps == {<<"negate">>} \cup {<<"tweak_add", t>> : t \in Tweaks}
                         \cup {<<"tweak_mul", t>> : t \in Tweaks}

\* What a call makes of the scalar v behind a key; zero stands for a key on which a
\* call failed.
StepOf(v, op) ==
    IF v = 0 THEN 0
    ELSE IF op[1] = "negate" THEN scalar_negate(v)
    ELSE IF op[2] >= Order THEN 0
    ELSE IF op[1] = "tweak_add" THEN (v + op[2]) % Order
    ELSE (v * op[2]) % Order

\* What is recorded of the calls on a key.
KeyHistory == [paired : BOOLEAN, failed : BOOLEAN, done : Seq(KeyOps)]

\* f lists the scalars from k to v that the calls of h lead through.
LeadsTo(f, h, k, v) ==
    /\ f \in [Nat -> Scalars] /\ f[0] = k /\ f[Len(h.done)] = v
    /\ \A i \in 1 .. Len(h.done) : f[i] = StepOf(f[i - 1], h.done[i])

\* The history h of a key leads from k to v, where zero is a failure.
History(h, k, v) ==
    (h.failed <=> v = 0) /\ \E f : LeadsTo(f, h, k, v)

\* The inductive invariant: either key is what the calls of its history make of the
\* secret key that the public one was made from.
KeyInv ==
    /\ seckey \in Bytes32
    /\ hseckey \in KeyHistory /\ hpubkey \in KeyHistory
    /\ hseckey.paired <=> hpubkey.paired
    /\ hseckey.paired =>
         \E k \in Units, v, w \in Scalars :
           /\ History(hseckey, k, v) /\ (v # 0 => seckey = v)
           /\ History(hpubkey, k, w) /\ (w # 0 => pubkey = Multiple[w])

\* What a call makes of a scalar is a scalar.
LEMMA StepOfScalar ==
    ASSUME NEW v \in Scalars, NEW op \in KeyOps
    PROVE  StepOf(v, op) \in Scalars
<1>1. 0 \in Scalars /\ v \in Int
  BY ScalarsReduce, GroupFacts DEF Scalars
<1>2. CASE v = 0
  BY <1>1, <1>2 DEF StepOf
<1>3. CASE v # 0
  <2>1. CASE op = <<"negate">>
    BY <1>3, <2>1, NegatedScalar DEF StepOf
  <2>2. ASSUME NEW t \in Tweaks, op[2] = t, op[1] # "negate"
        PROVE  StepOf(v, op) \in Scalars
    <3>1. t \in Int
      BY KeysAssumption, GroupFacts DEF Bytes32
    <3>2. v + t \in Int /\ v * t \in Int
      BY <1>1, <3>1
    <3>3. (v + t) % Order \in Scalars /\ (v * t) % Order \in Scalars
      BY <3>2, ScalarsReduce
    <3> QED BY <1>1, <2>2, <3>3, Zenon DEF StepOf
  <2>3. op = <<"negate">> \/ \E t \in Tweaks : op = <<"tweak_add", t>> \/ op = <<"tweak_mul", t>>
    BY DEF KeyOps
  <2>4. ASSUME NEW t \in Tweaks, op = <<"tweak_add", t>> \/ op = <<"tweak_mul", t>>
        PROVE  op[2] = t /\ op[1] # "negate"
    BY <2>4
  <2> QED BY <2>1, <2>2, <2>3, <2>4
<1> QED BY <1>2, <1>3

\* Histories grow by a call at a time.
LEMMA HistoryGrows ==
    ASSUME NEW h \in KeyHistory, h.paired, NEW k \in Units, NEW v \in Scalars, History(h, k, v),
           NEW what \in KeyOps, NEW ok \in BOOLEAN, v # 0 => (ok <=> StepOf(v, what) # 0)
    PROVE  History(After(h, what, ok), k, StepOf(v, what))
<1>1. PICK f : LeadsTo(f, h, k, v)
  BY DEF History
<1> DEFINE n == Len(h.done)
           w == StepOf(v, what)
           g == [f EXCEPT ![n + 1] = w]
           j == After(h, what, ok)
<1>2. n \in Nat /\ w \in Scalars /\ h.done \in Seq(KeyOps) /\ h.failed \in BOOLEAN
  BY StepOfScalar DEF KeyHistory
<1>3. j.done = Append(h.done, what) /\ (j.failed <=> (h.failed \/ ~ok))
  <2>1. j = [h EXCEPT !.failed = @ \/ ~ok, !.done = Append(@, what)]
    BY Zenon DEF After
  <2> HIDE DEF j
  <2>2. j.done = Append(h.done, what)
    BY <2>1 DEF KeyHistory
  <2>3. j.failed = (h.failed \/ ~ok)
    BY <2>1 DEF KeyHistory
  <2> QED BY <2>2, <2>3
<1>4. j.failed <=> w = 0
  <2>1. h.failed <=> v = 0
    BY DEF History
  <2>2. v = 0 => w = 0
    BY DEF StepOf
  <2> HIDE DEF w, j
  <2> QED BY <1>3, <2>1, <2>2 DEF w
<1> HIDE DEF w, j
<1>5. Len(j.done) = n + 1 /\ j.done[n + 1] = what /\ \A i \in 1 .. n : j.done[i] = h.done[i]
  BY <1>2, <1>3
<1>6. g \in [Nat -> Scalars] /\ g[0] = k /\ g[n + 1] = w /\ \A i \in 0 .. n : g[i] = f[i]
  BY <1>1, <1>2 DEF LeadsTo
<1> HIDE DEF g
<1>7. ASSUME NEW i \in 1 .. n + 1 PROVE g[i] = StepOf(g[i - 1], j.done[i])
  <2>1. CASE i = n + 1
    <3>1. g[i - 1] = v
      BY <1>1, <1>2, <1>6, <2>1 DEF LeadsTo
    <3> QED BY <1>5, <1>6, <2>1, <3>1 DEF w
  <2>2. CASE i # n + 1
    <3>1. i \in 1 .. n /\ i \in 0 .. n /\ i - 1 \in 0 .. n
      BY <1>2, <2>2
    <3>2. f[i] = StepOf(f[i - 1], h.done[i])
      BY <1>1, <3>1 DEF LeadsTo
    <3>3. g[i] = f[i] /\ g[i - 1] = f[i - 1] /\ j.done[i] = h.done[i]
      BY <1>5, <1>6, <3>1
    <3> QED BY <3>2, <3>3
  <2> QED BY <2>1, <2>2
<1>8. LeadsTo(g, j, k, w)
  BY <1>5, <1>6, <1>7 DEF LeadsTo
<1> QED BY <1>4, <1>8 DEF History, j, w

\* Equal histories from the same key lead to the same.
LEMMA HistoriesAgree ==
    ASSUME NEW h \in KeyHistory, NEW j \in KeyHistory, NEW k, NEW v, NEW w,
           History(h, k, v), History(j, k, w), h.done = j.done
    PROVE  v = w
<1>1. PICK f : LeadsTo(f, h, k, v)
  BY DEF History
<1>2. PICK g : LeadsTo(g, j, k, w)
  BY DEF History
<1>3. PICK n \in Nat : n = Len(h.done)
  BY DEF KeyHistory
<1>4. Lockstep(f, g, n)
  BY <1>1, <1>2, <1>3 DEF LeadsTo, Lockstep
<1>5. f[n] = g[n]
  BY <1>4, SameSteps
<1> QED BY <1>1, <1>2, <1>3, <1>5 DEF LeadsTo

\* A history that begins.
LEMMA HistoryBegins ==
    ASSUME NEW k \in Units
    PROVE  History(Paired, k, k) /\ Paired \in KeyHistory /\ Unpaired \in KeyHistory
           /\ Paired.paired /\ ~Unpaired.paired
<1> DEFINE f == [i \in Nat |-> k]
<1>1. Paired.done = <<>> /\ ~Paired.failed /\ Len(<<>>) = 0
  BY DEF Paired
<1>2. f \in [Nat -> Scalars] /\ f[0] = k
  BY ScalarsReduce
<1>3. LeadsTo(f, Paired, k, k)
  BY <1>1, <1>2 DEF LeadsTo
<1>4. k # 0
  BY DEF Units
<1>5. History(Paired, k, k)
  BY <1>1, <1>3, <1>4 DEF History
<1>6. Paired \in KeyHistory /\ Unpaired \in KeyHistory /\ Paired.paired /\ ~Unpaired.paired
  BY DEF Paired, Unpaired, KeyHistory
<1> QED BY <1>5, <1>6


\* A history stays one.
LEMMA AfterType ==
    ASSUME NEW h \in KeyHistory, NEW what \in KeyOps, NEW ok \in BOOLEAN
    PROVE  After(h, what, ok) \in KeyHistory /\ (After(h, what, ok).paired <=> h.paired)
<1>1. CASE ~h.paired
  BY <1>1 DEF After
<1>2. CASE h.paired
  <2>1. PICK f \in BOOLEAN : f = (h.failed \/ ~ok)
    BY DEF KeyHistory
  <2>2. PICK d \in Seq(KeyOps) : d = Append(h.done, what)
    <3>1. h.done \in Seq(KeyOps)
      BY DEF KeyHistory
    <3>2. Append(h.done, what) \in Seq(KeyOps)
      BY <3>1
    <3> QED BY <3>2, Zenon
  <2>3. After(h, what, ok) = [[h EXCEPT !.failed = f] EXCEPT !.done = d]
    BY <1>2, <2>1, <2>2 DEF After, KeyHistory
  <2>4. PICK j \in KeyHistory : j = [h EXCEPT !.failed = f] /\ j.paired = h.paired
    <3>1. [h EXCEPT !.failed = f] \in KeyHistory /\ [h EXCEPT !.failed = f].paired = h.paired
      BY DEF KeyHistory
    <3> QED BY <3>1, Zenon
  <2>5. [j EXCEPT !.done = d] \in KeyHistory /\ [j EXCEPT !.done = d].paired = j.paired
    BY DEF KeyHistory
  <2> QED BY <2>3, <2>4, <2>5
<1> QED BY <1>1, <1>2 DEF KeyHistory

\* A call that gives the secret key the value that its scalar has after it.
LEMMA NewSecretKeeps ==
    ASSUME KeyInv, NEW what \in KeyOps, NEW ok \in BOOLEAN, NEW key \in Bytes32,
           NewSecret(what, ok, key),
           seckey \in Units => (ok <=> StepOf(seckey, what) # 0) /\ (ok => key = StepOf(seckey, what))
    PROVE  KeyInv'
<1>1. /\ seckey' = (IF ok THEN key ELSE Zero32) /\ hseckey' = After(hseckey, what, ok)
      /\ pubkey' = pubkey /\ hpubkey' = hpubkey
  BY DEF NewSecret
<1>2. seckey' \in Bytes32
  <2>1. 0 \in Bytes32
    BY GroupFacts DEF Bytes32
  <2> QED BY <1>1, <2>1 DEF Zero32
<1>3. hseckey' \in KeyHistory /\ hpubkey' \in KeyHistory /\ (hseckey'.paired <=> hpubkey'.paired)
      /\ (hseckey'.paired <=> hseckey.paired)
  BY <1>1, AfterType DEF KeyInv
<1>4. ASSUME hseckey.paired
      PROVE  \E k \in Units, v, w \in Scalars :
               /\ History(hseckey', k, v) /\ (v # 0 => seckey' = v)
               /\ History(hpubkey', k, w) /\ (w # 0 => pubkey' = Multiple[w])
  <2>1. PICK k \in Units, v \in Scalars, w \in Scalars :
           /\ History(hseckey, k, v) /\ (v # 0 => seckey = v)
           /\ History(hpubkey, k, w) /\ (w # 0 => pubkey = Multiple[w])
    BY <1>4 DEF KeyInv
  <2>2. v # 0 => v \in Units
    BY GroupFacts DEF Scalars, Units
  <2>3. PICK u \in Scalars : u = StepOf(v, what)
    BY StepOfScalar
  <2>4. v # 0 => (ok <=> u # 0) /\ (ok => key = u)
    BY <2>1, <2>2, <2>3
  <2>5. History(hseckey', k, u)
    <3>1. hseckey \in KeyHistory
      BY DEF KeyInv
    <3> QED BY <1>1, <1>4, <2>1, <2>3, <2>4, <3>1, HistoryGrows
  <2>6. v = 0 => u = 0
    BY <2>3 DEF StepOf
  <2>7. u # 0 => seckey' = u
    BY <1>1, <2>4, <2>6
  <2> QED BY <1>1, <2>1, <2>5, <2>7
<1> QED BY <1>2, <1>3, <1>4 DEF KeyInv

\* A call that gives the public key the point that its scalar has after it.
LEMMA NewPublicKeeps ==
    ASSUME KeyInv, NEW what \in KeyOps, NEW c \in Contexts, NEW loads, NEW ok \in BOOLEAN, NEW P,
           NewPublic(what, c, loads, ok, P),
           \A w \in Units : pubkey = Multiple[w] =>
             (ok <=> StepOf(w, what) # 0) /\ (ok => P = Multiple[StepOf(w, what)])
    PROVE  KeyInv'
<1>1. PICK good \in BOOLEAN :
        /\ seckey' = seckey /\ hseckey' = hseckey /\ hpubkey' = After(hpubkey, what, good)
        /\ good => ok /\ pubkey' = P
        /\ ~good => ~ok \/ pubkey_load(pubkey) = NoPoint
  <2>1. CASE loads /\ pubkey_load(pubkey) = NoPoint
    BY <2>1 DEF NewPublic
  <2>2. CASE ~(loads /\ pubkey_load(pubkey) = NoPoint)
    BY <2>2 DEF NewPublic, pubkey_save
  <2> QED BY <2>1, <2>2
<1>2. hseckey' \in KeyHistory /\ hpubkey' \in KeyHistory /\ (hseckey'.paired <=> hpubkey'.paired)
  BY <1>1, AfterType DEF KeyInv
<1>3. ASSUME hseckey.paired
      PROVE  \E k \in Units, v, w \in Scalars :
               /\ History(hseckey', k, v) /\ (v # 0 => seckey' = v)
               /\ History(hpubkey', k, w) /\ (w # 0 => pubkey' = Multiple[w])
  <2>1. PICK k \in Units, v \in Scalars, w \in Scalars :
           /\ History(hseckey, k, v) /\ (v # 0 => seckey = v)
           /\ History(hpubkey, k, w) /\ (w # 0 => pubkey = Multiple[w])
    BY <1>3 DEF KeyInv
  <2>2. w # 0 => w \in Units
    BY GroupFacts DEF Scalars, Units
  <2>3. PICK u \in Scalars : u = StepOf(w, what)
    BY StepOfScalar
  <2>4. w # 0 => (ok <=> u # 0) /\ (ok => P = Multiple[u])
    BY <2>1, <2>2, <2>3
  <2>5. w # 0 => pubkey_load(pubkey) # NoPoint
    BY <2>1, <2>2, KeysLoad
  <2>6. w # 0 => (good <=> u # 0) /\ (good => pubkey' = Multiple[u])
    BY <1>1, <2>4, <2>5
  <2>7. History(hpubkey', k, u)
    <3>1. hpubkey \in KeyHistory /\ hpubkey.paired
      BY <1>3 DEF KeyInv
    <3> QED BY <1>1, <2>1, <2>3, <2>6, <3>1, HistoryGrows
  <2>8. w = 0 => u = 0
    BY <2>3 DEF StepOf
  <2>9. u # 0 => pubkey' = Multiple[u]
    BY <2>6, <2>8
  <2> QED BY <1>1, <2>1, <2>7, <2>9
<1> QED BY <1>1, <1>2, <1>3 DEF KeyInv

\* What tweaks make of a scalar.
LEMMA TweaksOf ==
    ASSUME NEW v \in Units, NEW t \in Tweaks
    PROVE  /\ t \in Bytes32 /\ <<"negate">> \in KeyOps
           /\ <<"tweak_add", t>> \in KeyOps /\ <<"tweak_mul", t>> \in KeyOps
           /\ t >= Order => StepOf(v, <<"tweak_add", t>>) = 0 /\ StepOf(v, <<"tweak_mul", t>>) = 0
           /\ t < Order => /\ t % Order = t
                           /\ StepOf(v, <<"tweak_add", t>>) = (v + t) % Order
                           /\ StepOf(v, <<"tweak_mul", t>>) = (v * t) % Order
                           /\ (v * t) % Order # 0 <=> t # 0
<1>1. t \in Bytes32 /\ t \in Int /\ 0 <= t /\ v # 0 /\ v \in Int
  BY KeysAssumption, ScalarsReduce, GroupFacts DEF Bytes32, Units
<1>2. PICK a : a = <<"tweak_add", t>> /\ a[1] = "tweak_add" /\ a[2] = t
  <2>1. <<"tweak_add", t>>[1] = "tweak_add" /\ <<"tweak_add", t>>[2] = t
    OBVIOUS
  <2> QED BY <2>1, Zenon
<1>3. PICK m : m = <<"tweak_mul", t>> /\ m[1] = "tweak_mul" /\ m[2] = t
  <2>1. <<"tweak_mul", t>>[1] = "tweak_mul" /\ <<"tweak_mul", t>>[2] = t
    OBVIOUS
  <2> QED BY <2>1, Zenon
<1>4. <<"negate">> \in KeyOps /\ a \in KeyOps /\ m \in KeyOps
  BY <1>2, <1>3 DEF KeyOps
<1>5. t >= Order => StepOf(v, a) = 0 /\ StepOf(v, m) = 0
  BY <1>1, <1>2, <1>3 DEF StepOf
<1>6. ASSUME t < Order PROVE StepOf(v, a) = (v + t) % Order /\ StepOf(v, m) = (v * t) % Order
  <2>1. ~(t >= Order)
    BY <1>1, <1>6, GroupFacts
  <2> QED BY <1>1, <1>2, <1>3, <2>1 DEF StepOf
<1>7. ASSUME t < Order PROVE t % Order = t /\ ((v * t) % Order # 0 <=> t # 0)
  <2>1. t \in Scalars
    BY <1>1, <1>7, GroupFacts DEF Scalars
  <2>2. CASE t = 0
    <3>1. v * t = t
      BY <1>1, <2>2
    <3> QED BY <2>1, <2>2, <3>1, ScalarsReduce
  <2>3. CASE t # 0
    <3>1. t \in Units
      BY <2>1, <2>3, GroupFacts DEF Scalars, Units
    <3>2. (v * t) % Order # 0
      BY <3>1, UnitProducts DEF Units
    <3> QED BY <2>1, <2>3, <3>2, ScalarsReduce
  <2> QED BY <2>2, <2>3
<1> QED BY <1>1, <1>2, <1>3, <1>4, <1>5, <1>6, <1>7


\* A point of the curve is found valid.
LEMMA PointIsValid ==
    ASSUME NEW x \in Field, NEW y \in Field, OnCurve(x, y)
    PROVE  LET a == ge_set_xy(fe_set_int(x), fe_set_int(y))
           IN  ge_is_valid_var(a) /\ ge_to_storage(a) = <<x, y>>
<1>1. PICK X, Y : /\ X = fe_set_int(x) /\ Y = fe_set_int(y) /\ X.v = x /\ Y.v = y
  <2>1. fe_set_int(x).v = x /\ fe_set_int(y).v = y
    BY Residues, FieldReduces
  <2> QED BY <2>1, Zenon
<1>2. PICK a : a = ge_set_xy(X, Y) /\ a.x = X /\ a.y = Y /\ ~a.infinity
  <2>1. ge_set_xy(X, Y).x = X /\ ge_set_xy(X, Y).y = Y /\ ~ge_set_xy(X, Y).infinity
    BY DEF ge_set_xy
  <2> QED BY <2>1, Zenon
<1>3. x \in Int /\ y \in Int /\ CURVE_B \in Int
  BY FieldReduces, GroupFacts
<1>4. PICK S, Z : /\ S = fe_sqr(Y) /\ Z = fe_normalize(fe_add(fe_mul(fe_sqr(X), X), fe_set_int(CURVE_B)))
                  /\ S.v = (y * y) % Q /\ Z.v = Cubic(x)
  <2> DEFINE b == (x * x) % Q
             c == b * x
             d == c % Q
             e == CURVE_B % Q
             f == d + e
  <2>1. fe_sqr(Y).v = (y * y) % Q /\ fe_sqr(X).v = b
    BY <1>1, Residues
  <2>2. fe_mul(fe_sqr(X), X).v = d /\ fe_set_int(CURVE_B).v = e
    BY <1>1, <2>1, Residues
  <2>3. fe_add(fe_mul(fe_sqr(X), X), fe_set_int(CURVE_B)).v = f % Q
    BY <2>2, Residues
  <2>4. fe_normalize(fe_add(fe_mul(fe_sqr(X), X), fe_set_int(CURVE_B))).v = (f % Q) % Q
    BY <2>3, Residues
  <2>5. b \in Int /\ Same(b, x * x, Q) /\ x * x \in Int
    <3>1. PICK a2 \in Int : a2 = x * x
      BY <1>3
    <3> QED BY <3>1, FieldReduces
  <2> HIDE DEF b
  <2>6. c \in Int /\ Same(c, (x * x) * x, Q)
    BY <1>3, <2>5, FieldReduces
  <2> HIDE DEF c
  <2>7. d \in Int /\ Same(d, c, Q) /\ e \in Int /\ Same(e, CURVE_B, Q)
    BY <1>3, <2>6, FieldReduces
  <2> HIDE DEF d, e
  <2>8. (x * x) * x \in Int /\ Same(d, (x * x) * x, Q)
    BY <1>3, <2>5, <2>6, <2>7, FieldReduces
  <2>9. f \in Int /\ Same(f, (x * x) * x + CURVE_B, Q)
    BY <1>3, <2>7, <2>8, FieldReduces
  <2> HIDE DEF f
  <2>10. (f % Q) % Q = f % Q
    BY <2>9, FieldReduces
  <2>11. f % Q = Cubic(x)
    BY <2>9 DEF Same, Cubic
  <2> QED BY <2>1, <2>4, <2>10, <2>11, Zenon
<1>5. S.v = Z.v /\ S.v \in Field
  <2>1. y * y \in Int
    BY <1>3
  <2> QED BY <1>4, <2>1, FieldReduces DEF OnCurve, Cubic
<1>6. fe_equal(S, Z)
  BY <1>5, FieldEqual
<1>7. ge_is_valid_var(a)
  BY <1>2, <1>4, <1>6, Zenon DEF ge_is_valid_var
<1>8. ge_to_storage(a) = <<x, y>>
  <2>1. fe_normalize(X).v = x /\ fe_normalize(Y).v = y
    BY <1>1, Residues, FieldReduces
  <2> QED BY <1>2, <2>1 DEF ge_to_storage
<1> QED BY <1>1, <1>2, <1>7, <1>8, Zenon

\* Parsing what was serialized gives the key back.
LEMMA RoundTrip ==
    ASSUME NEW w \in Units, NEW compressed \in BOOLEAN
    PROVE  eckey_pubkey_parse(eckey_pubkey_serialize(Multiple[w], compressed)) = Multiple[w]
<1>1. PICK x \in Field, y \in Field :
         /\ Multiple[w] = <<x, y>> /\ Multiple[w][1] = x /\ Multiple[w][2] = y /\ OnCurve(x, y)
         /\ Multiple[w] # NoPoint
  BY Points
<1>2. x \in Int /\ y \in Int /\ x < Q /\ y < Q /\ y % 2 \in {0, 1}
  BY GroupFacts DEF Field
<1>3. PICK e : e = eckey_pubkey_serialize(Multiple[w], compressed)
  OBVIOUS
<1>4. CASE compressed
  <2>1. e.tag = 2 + (y % 2) /\ e.size = 33 /\ e.x = x
    BY <1>1, <1>3, <1>4 DEF eckey_pubkey_serialize, Encoded
  <2>2. Compressed(e)
    BY <1>2, <2>1 DEF Compressed
  <2>3. (e.tag = 3) = (y % 2 = 1)
    BY <1>2, <2>1
  <2>4. PICK g : g = ge_set_xo_var(fe_set_int(x), y % 2 = 1)
    OBVIOUS
  <2>5. g.ok /\ ge_to_storage(g.ge) = Multiple[w]
    BY <1>1, <2>4, XOddFinds, Zenon
  <2> DEFINE F(xo) == IF xo.ok THEN ge_to_storage(xo.ge) ELSE NoPoint
  <2>6. ge_set_xo_var(fe_set_int(e.x), e.tag = 3) = g
    BY <2>1, <2>3, <2>4, Zenon
  <2>7. eckey_pubkey_parse(e) = With(ge_set_xo_var(fe_set_int(e.x), e.tag = 3), LAMBDA xo : F(xo))
    BY <2>2, Zenon DEF eckey_pubkey_parse
  <2>8. eckey_pubkey_parse(e) = With(g, LAMBDA xo : F(xo))
    BY <2>6, <2>7, Zenon
  <2>9. With(g, LAMBDA xo : F(xo)) = F(g)
    <3> HIDE DEF F
    <3> QED BY Zenon DEF With
  <2> QED BY <1>3, <2>5, <2>8, <2>9
<1>5. CASE ~compressed
  <2>1. e.tag = 4 /\ e.size = 65 /\ e.x = x /\ e.y = y
    BY <1>1, <1>3, <1>5 DEF eckey_pubkey_serialize, Encoded
  <2>2. ~Compressed(e) /\ Full(e)
    BY <1>2, <2>1 DEF Compressed, Full
  <2>3. PICK a : a = ge_set_xy(fe_set_int(x), fe_set_int(y))
    OBVIOUS
  <2>4. ge_is_valid_var(a) /\ ge_to_storage(a) = <<x, y>>
    BY <1>1, <2>3, PointIsValid, Zenon
  <2> DEFINE F(xy) == IF ge_is_valid_var(xy) THEN ge_to_storage(xy) ELSE NoPoint
  <2>5. eckey_pubkey_parse(e) = With(ge_set_xy(fe_set_int(e.x), fe_set_int(e.y)), LAMBDA xy : F(xy))
    BY <2>2, Zenon DEF eckey_pubkey_parse
  <2>6. eckey_pubkey_parse(e) = With(a, LAMBDA xy : F(xy))
    BY <2>1, <2>3, <2>5, Zenon
  <2>7. With(a, LAMBDA xy : F(xy)) = F(a)
    <3> HIDE DEF F
    <3> QED BY Zenon DEF With
  <2> QED BY <1>1, <1>3, <2>4, <2>6, <2>7
<1> QED BY <1>4, <1>5


\* The tweaks of a public key, where it is the key of the scalar w.
LEMMA TweakedPoints ==
    ASSUME NEW w \in Units, pubkey = Multiple[w], NEW s \in Scalars
    PROVE  /\ LET t == Tweaked(eckey_pubkey_tweak_add, s)
              IN  (t.ok <=> (w + s) % Order # 0) /\ t.key = Multiple[(w + s) % Order]
           /\ LET t == Tweaked(eckey_pubkey_tweak_mul, s)
              IN  (t.ok <=> s # 0) /\ t.key = Multiple[(w * s) % Order]
<1>1. pubkey_load(pubkey) = Multiple[w] /\ Multiple[w] # NoPoint
  BY KeysLoad
<1>2. w \in Int /\ w \in Scalars /\ s \in Int /\ 1 \in Int /\ 0 \in Int
  BY ScalarsReduce
<1>3. 1 * w + s = w + s /\ s * w + 0 = w * s /\ w + s \in Int
  BY <1>2
<1>4. ecmult(Multiple[w], 1, s) = Multiple[(w + s) % Order]
  <2>1. PICK one \in Int : one = 1
    BY <1>2
  <2>2. ecmult(Multiple[w], one, s) = Multiple[(one * w + s) % Order]
    BY <1>2, Multiplication
  <2> QED BY <1>3, <2>1, <2>2, Zenon
<1>5. ecmult(Multiple[w], s, 0) = Multiple[(w * s) % Order]
  <2>1. PICK none \in Int : none = 0
    BY <1>2
  <2>2. ecmult(Multiple[w], s, none) = Multiple[(s * w + none) % Order]
    BY <1>2, Multiplication
  <2> QED BY <1>3, <2>1, <2>2, Zenon
<1>6. Multiple[(w + s) % Order] # NoPoint <=> (w + s) % Order # 0
  <2>1. (w + s) % Order \in Scalars /\ 0 \in Scalars
    BY <1>3, ScalarsReduce, GroupFacts DEF Scalars
  <2> QED BY <2>1, GroupFacts
<1>7. PICK R : R = Multiple[(w + s) % Order]
  OBVIOUS
<1>8. Tweaked(eckey_pubkey_tweak_add, s) = [ok |-> R # NoPoint, key |-> R]
  <2>1. Tweaked(eckey_pubkey_tweak_add, s) = eckey_pubkey_tweak_add(Multiple[w], s)
    BY <1>1 DEF Tweaked
  <2>2. eckey_pubkey_tweak_add(Multiple[w], s) = With(R, LAMBDA r : [ok |-> r # NoPoint, key |-> r])
    BY <1>4, <1>7, Zenon DEF eckey_pubkey_tweak_add
  <2>3. With(R, LAMBDA r : [ok |-> r # NoPoint, key |-> r]) = [ok |-> R # NoPoint, key |-> R]
    BY Zenon DEF With
  <2> QED BY <2>1, <2>2, <2>3
<1>9. Tweaked(eckey_pubkey_tweak_mul, s) = [ok |-> s # 0, key |-> Multiple[(w * s) % Order]]
  BY <1>1, <1>5 DEF Tweaked, eckey_pubkey_tweak_mul
<1>10. PICK t : t = Tweaked(eckey_pubkey_tweak_add, s)
  OBVIOUS
<1>11. (t.ok <=> R # NoPoint) /\ t.key = R
  <2>1. ASSUME NEW b \in BOOLEAN, NEW r PROVE [ok |-> b, key |-> r].ok = b /\ [ok |-> b, key |-> r].key = r
    OBVIOUS
  <2>2. PICK b \in BOOLEAN : b = (R # NoPoint)
    OBVIOUS
  <2>3. t = [ok |-> b, key |-> R]
    BY <1>8, <1>10, <2>2, Zenon
  <2> QED BY <2>1, <2>2, <2>3, Zenon
<1>12. PICK u : u = Tweaked(eckey_pubkey_tweak_mul, s)
  OBVIOUS
<1>13. (u.ok <=> s # 0) /\ u.key = Multiple[(w * s) % Order]
  <2>1. ASSUME NEW b \in BOOLEAN, NEW r PROVE [ok |-> b, key |-> r].ok = b /\ [ok |-> b, key |-> r].key = r
    OBVIOUS
  <2>2. PICK b \in BOOLEAN : b = (s # 0)
    OBVIOUS
  <2>3. u = [ok |-> b, key |-> Multiple[(w * s) % Order]]
    BY <1>9, <1>12, <2>2, Zenon
  <2> QED BY <2>1, <2>2, <2>3, Zenon
<1> QED BY <1>6, <1>7, <1>10, <1>11, <1>12, <1>13, Zenon

\* It holds at first.
LEMMA KeyInitial == KeyInit => KeyInv
<1> SUFFICES ASSUME KeyInit PROVE KeyInv
  OBVIOUS
<1>1. Unpaired \in KeyHistory /\ ~Unpaired.paired
  BY DEF Unpaired, KeyHistory
<1>2. seckey \in Bytes32
  BY KeysAssumption DEF KeyInit
<1> QED BY <1>1, <1>2 DEF KeyInit, KeyInv

\* The calls that leave the keys and their histories alone, or end the histories.
LEMMA OtherKeyCalls ==
    ASSUME KeyInv, seckey' = seckey,
           \/ UNCHANGED <<pubkey, hseckey, hpubkey>>
           \/ hseckey' = Unpaired /\ hpubkey' = Unpaired
           \/ hseckey' = Unpaired /\ \E b \in BOOLEAN : hpubkey' = [Unpaired EXCEPT !.failed = b]
    PROVE  KeyInv'
<1>1. CASE UNCHANGED <<pubkey, hseckey, hpubkey>>
  BY <1>1 DEF KeyInv
<1>2. ASSUME NEW b \in BOOLEAN
      PROVE  /\ [Unpaired EXCEPT !.failed = b] \in KeyHistory /\ Unpaired \in KeyHistory
             /\ ~Unpaired.paired /\ ~[Unpaired EXCEPT !.failed = b].paired
  <2>1. PICK h \in KeyHistory : h = Unpaired /\ ~h.paired
    <3>1. Unpaired \in KeyHistory /\ ~Unpaired.paired
      BY DEF Unpaired, KeyHistory
    <3> QED BY <3>1, Zenon
  <2>2. [h EXCEPT !.failed = b] \in KeyHistory /\ [h EXCEPT !.failed = b].paired = h.paired
    BY DEF KeyHistory
  <2> QED BY <2>1, <2>2
<1>3. CASE hseckey' = Unpaired /\ hpubkey' = Unpaired
  <2>1. Unpaired \in KeyHistory /\ ~Unpaired.paired
    BY DEF Unpaired, KeyHistory
  <2> QED BY <1>3, <2>1 DEF KeyInv
<1>4. CASE hseckey' = Unpaired /\ \E b \in BOOLEAN : hpubkey' = [Unpaired EXCEPT !.failed = b]
  <2>1. PICK b \in BOOLEAN : hpubkey' = [Unpaired EXCEPT !.failed = b]
    BY <1>4
  <2>2. hseckey' \in KeyHistory /\ hpubkey' \in KeyHistory /\ ~hseckey'.paired /\ ~hpubkey'.paired
    BY <1>2, <1>4, <2>1
  <2> QED BY <2>2 DEF KeyInv
<1> QED BY <1>1, <1>3, <1>4

\* Scalars are 32 bytes, and the secret key stands for its scalar.
LEMMA SecretScalar ==
    ASSUME seckey \in Bytes32
    PROVE  /\ Scalars \subseteq Bytes32 /\ scalar_set_b32(seckey).v \in Scalars
           /\ scalar_set_b32(seckey).v \in Int
           /\ seckey \in Units => scalar_set_b32(seckey).v = seckey
<1>1. PICK b \in Bytes32 : b = seckey
  OBVIOUS
<1>2. Scalars \subseteq Bytes32
  BY GroupFacts DEF Scalars, Bytes32
<1>3. scalar_set_b32(b).v = b % Order /\ b % Order \in Scalars
  BY ValidIsUnit
<1>4. b \in Units => b % Order = b
  BY ScalarsReduce
<1> QED BY <1>1, <1>2, <1>3, <1>4, ScalarsReduce

\* secp256k1_ec_privkey_negate, _tweak_add and _tweak_mul.
LEMMA SecretCalls ==
    ASSUME KeyInv, \/ ec_privkey_negate
                   \/ \E t \in Tweaks : ec_privkey_tweak_add(t) \/ ec_privkey_tweak_mul(t)
    PROVE  KeyInv'
<1>1. PICK s \in Scalars : /\ s = scalar_set_b32(seckey).v /\ s \in Int
                           /\ seckey \in Units => s = seckey
  BY SecretScalar DEF KeyInv
<1>2. Scalars \subseteq Bytes32
  BY SecretScalar DEF KeyInv
<1>3. CASE ec_privkey_negate
  <2>1. PICK what : what = <<"negate">>
    OBVIOUS
  <2>a. PICK ok \in BOOLEAN : ok = TRUE
    OBVIOUS
  <2>b. PICK key \in Bytes32 : key = scalar_negate(s)
    BY <1>2, NegatedScalar
  <2>2. NewSecret(what, ok, key)
    BY <1>1, <1>3, <2>1, <2>a, <2>b, Zenon DEF ec_privkey_negate
  <2>3. what \in KeyOps /\ what[1] = "negate"
    BY <2>1 DEF KeyOps
  <2>4. seckey \in Units => (ok <=> StepOf(seckey, what) # 0) /\ (ok => key = StepOf(seckey, what))
    <3> SUFFICES ASSUME seckey \in Units
                 PROVE  (ok <=> StepOf(seckey, what) # 0) /\ (ok => key = StepOf(seckey, what))
      OBVIOUS
    <3>1. seckey # 0
      BY DEF Units
    <3>2. StepOf(seckey, what) = scalar_negate(seckey)
      BY <2>3, <3>1, Zenon DEF StepOf
    <3>3. scalar_negate(seckey) # 0
      BY Opposite DEF Units
    <3> QED BY <1>1, <2>a, <2>b, <3>2, <3>3
  <2> QED BY <2>2, <2>3, <2>4, NewSecretKeeps
<1>4. ASSUME NEW t \in Tweaks, ec_privkey_tweak_add(t) PROVE KeyInv'
  <2>1. PICK what : what = <<"tweak_add", t>>
    OBVIOUS
  <2>2. PICK r \in Scalars : /\ r = scalar_set_b32(t).v /\ r = t % Order /\ r \in Int
                             /\ (scalar_set_b32(t).overflow <=> t >= Order)
    BY KeysAssumption, ValidIsUnit, ScalarsReduce
  <2>3. PICK key \in Bytes32 : key = (s + r) % Order
    <3>1. s + r \in Int
      BY <1>1, <2>2
    <3> QED BY <1>2, <3>1, ScalarsReduce
  <2>4. PICK ok \in BOOLEAN : ok = (~scalar_set_b32(t).overflow /\ key # 0)
    OBVIOUS
  <2>5. NewSecret(what, ok, key)
    <3>1. eckey_privkey_tweak_add(s, r).ok = (key # 0) /\ eckey_privkey_tweak_add(s, r).key = key
      BY <2>3 DEF eckey_privkey_tweak_add
    <3>2. NewSecret(<<"tweak_add", t>>,
                    ~scalar_set_b32(t).overflow /\ eckey_privkey_tweak_add(s, r).ok,
                    eckey_privkey_tweak_add(s, r).key)
      BY <1>1, <1>4, <2>2, Zenon DEF ec_privkey_tweak_add
    <3> QED BY <2>1, <2>4, <3>1, <3>2, Zenon
  <2>6. what \in KeyOps
    BY <2>1 DEF KeyOps
  <2>7. seckey \in Units => (ok <=> StepOf(seckey, what) # 0) /\ (ok => key = StepOf(seckey, what))
    <3> SUFFICES ASSUME seckey \in Units
                 PROVE  (ok <=> StepOf(seckey, what) # 0) /\ (ok => key = StepOf(seckey, what))
      OBVIOUS
    <3>3. t \in Int
      BY KeysAssumption, GroupFacts DEF Bytes32
    <3>1. CASE t >= Order
      BY <2>1, <2>2, <2>4, <3>1, TweaksOf
    <3>2. CASE t < Order
      <4>1. r = t /\ StepOf(seckey, what) = key
        <5>1. PICK v \in Units : v = seckey
          OBVIOUS
        <5>2. t % Order = t /\ StepOf(v, <<"tweak_add", t>>) = (v + t) % Order
          BY <3>2, TweaksOf
        <5>3. s = v /\ r = t /\ key = (v + t) % Order
          BY <1>1, <2>2, <2>3, <5>1, <5>2, Zenon
        <5> QED BY <2>1, <5>1, <5>2, <5>3, Zenon
      <4>2. ~scalar_set_b32(t).overflow
        <5>1. ~(t >= Order)
          BY <3>2, <3>3, GroupFacts
        <5> QED BY <2>2, <5>1
      <4>3. ok <=> key # 0
        BY <2>4, <4>2
      <4> QED BY <4>1, <4>3
    <3> QED BY <3>1, <3>2, <3>3, GroupFacts
  <2> QED BY <2>5, <2>6, <2>7, NewSecretKeeps
<1>5. ASSUME NEW t \in Tweaks, ec_privkey_tweak_mul(t) PROVE KeyInv'
  <2>1. PICK what : what = <<"tweak_mul", t>>
    OBVIOUS
  <2>2. PICK r \in Scalars : /\ r = scalar_set_b32(t).v /\ r = t % Order /\ r \in Int
                             /\ (scalar_set_b32(t).overflow <=> t >= Order)
    BY KeysAssumption, ValidIsUnit, ScalarsReduce
  <2>3. PICK key \in Bytes32 : key = (s * r) % Order
    <3>1. s * r \in Int
      BY <1>1, <2>2
    <3> QED BY <1>2, <3>1, ScalarsReduce
  <2>4. PICK ok \in BOOLEAN : ok = (~scalar_set_b32(t).overflow /\ r # 0)
    OBVIOUS
  <2>5. NewSecret(what, ok, key)
    <3>1. eckey_privkey_tweak_mul(s, r).ok = (r # 0) /\ eckey_privkey_tweak_mul(s, r).key = key
      BY <2>3 DEF eckey_privkey_tweak_mul
    <3>2. NewSecret(<<"tweak_mul", t>>,
                    ~scalar_set_b32(t).overflow /\ eckey_privkey_tweak_mul(s, r).ok,
                    eckey_privkey_tweak_mul(s, r).key)
      BY <1>1, <1>5, <2>2, Zenon DEF ec_privkey_tweak_mul
    <3> QED BY <2>1, <2>4, <3>1, <3>2, Zenon
  <2>6. what \in KeyOps
    BY <2>1 DEF KeyOps
  <2>7. seckey \in Units => (ok <=> StepOf(seckey, what) # 0) /\ (ok => key = StepOf(seckey, what))
    <3> SUFFICES ASSUME seckey \in Units
                 PROVE  (ok <=> StepOf(seckey, what) # 0) /\ (ok => key = StepOf(seckey, what))
      OBVIOUS
    <3>3. t \in Int
      BY KeysAssumption, GroupFacts DEF Bytes32
    <3>1. CASE t >= Order
      BY <2>1, <2>2, <2>4, <3>1, TweaksOf
    <3>2. CASE t < Order
      <4>1. r = t /\ StepOf(seckey, what) = key /\ (key # 0 <=> r # 0)
        <5>1. PICK v \in Units : v = seckey
          OBVIOUS
        <5>2. t % Order = t /\ StepOf(v, <<"tweak_mul", t>>) = (v * t) % Order /\ ((v * t) % Order # 0 <=> t # 0)
          BY <3>2, TweaksOf
        <5>3. s = v /\ r = t /\ key = (v * t) % Order
          BY <1>1, <2>2, <2>3, <5>1, <5>2, Zenon
        <5> QED BY <2>1, <5>1, <5>2, <5>3, Zenon
      <4>2. ~scalar_set_b32(t).overflow
        <5>1. ~(t >= Order)
          BY <3>2, <3>3, GroupFacts
        <5> QED BY <2>2, <5>1
      <4>3. ok <=> r # 0
        BY <2>4, <4>2
      <4> QED BY <4>1, <4>3
    <3> QED BY <3>1, <3>2, <3>3, GroupFacts
  <2> QED BY <2>5, <2>6, <2>7, NewSecretKeeps
<1> QED BY <1>3, <1>4, <1>5

\* secp256k1_ec_pubkey_tweak_add with a context that verifies.
LEMMA PublicTweakAdd ==
    ASSUME KeyInv, NEW c \in Contexts, NEW t \in Tweaks, ec_pubkey_tweak_add(c, t)
    PROVE  KeyInv'
<1>1. CASE NoCapability(c)
  BY <1>1, OtherKeyCalls DEF NoCapability
<1>2. CASE ~NoCapability(c)
  <2>1. t \in Int /\ t \in Bytes32
    BY KeysAssumption, GroupFacts DEF Bytes32
  <2>2. PICK term : term = scalar_set_b32(t)
    OBVIOUS
  <2>3. PICK r \in Scalars : r = term.v /\ r = t % Order /\ (term.overflow <=> t >= Order)
    BY <2>1, <2>2, ValidIsUnit
  <2>4. PICK u : u = Tweaked(eckey_pubkey_tweak_add, r)
    OBVIOUS
  <2>5. PICK loads \in BOOLEAN : loads = ~term.overflow
    OBVIOUS
  <2>6. PICK ok \in BOOLEAN : ok = (~term.overflow /\ u.ok)
    OBVIOUS
  <2>7. PICK what : what = <<"tweak_add", t>>
    OBVIOUS
  <2>8. NewPublic(what, c, loads, ok, u.key)
    <3>1. \E te \in {scalar_set_b32(t)} : \E tt \in {Tweaked(eckey_pubkey_tweak_add, te.v)} :
             NewPublic(<<"tweak_add", t>>, c, ~te.overflow, ~te.overflow /\ tt.ok, tt.key)
      BY <1>2, Zenon DEF ec_pubkey_tweak_add
    <3>2. NewPublic(<<"tweak_add", t>>, c, ~term.overflow, ~term.overflow /\ u.ok, u.key)
      BY <2>2, <2>3, <2>4, <3>1, Zenon
    <3> QED BY <2>5, <2>6, <2>7, <3>2, Zenon
  <2>9. ASSUME NEW w \in Units, pubkey = Multiple[w]
        PROVE  (ok <=> StepOf(w, what) # 0) /\ (ok => u.key = Multiple[StepOf(w, what)])
    <3>1. CASE t >= Order
      <4>1. ~ok
        BY <2>3, <2>6, <3>1
      <4>2. StepOf(w, <<"tweak_add", t>>) = 0
        BY <3>1, TweaksOf
      <4> QED BY <2>7, <4>1, <4>2, Zenon
    <3>2. CASE t < Order
      <4>1. ~term.overflow
        <5>1. ~(t >= Order)
          BY <2>1, <3>2, GroupFacts
        <5> QED BY <2>3, <5>1
      <4>2. t % Order = t /\ StepOf(w, <<"tweak_add", t>>) = (w + t) % Order
        BY <3>2, TweaksOf
      <4>3. (u.ok <=> (w + r) % Order # 0) /\ u.key = Multiple[(w + r) % Order]
        BY <2>4, <2>9, TweakedPoints, Zenon
      <4>4. r = t
        BY <2>3, <4>2, Zenon
      <4>5. ok <=> u.ok
        BY <2>6, <4>1
      <4> QED BY <2>7, <4>2, <4>3, <4>4, <4>5, Zenon
    <3> QED BY <2>1, <3>1, <3>2, GroupFacts
  <2>10. what \in KeyOps
    BY <2>7 DEF KeyOps
  <2> QED BY <2>8, <2>9, <2>10, NewPublicKeeps
<1> QED BY <1>1, <1>2

\* secp256k1_ec_pubkey_tweak_mul with a context that verifies.
LEMMA PublicTweakMul ==
    ASSUME KeyInv, NEW c \in Contexts, NEW t \in Tweaks, ec_pubkey_tweak_mul(c, t)
    PROVE  KeyInv'
<1>1. CASE NoCapability(c)
  BY <1>1, OtherKeyCalls DEF NoCapability
<1>2. CASE ~NoCapability(c)
  <2>1. t \in Int /\ t \in Bytes32
    BY KeysAssumption, GroupFacts DEF Bytes32
  <2>2. PICK term : term = scalar_set_b32(t)
    OBVIOUS
  <2>3. PICK r \in Scalars : r = term.v /\ r = t % Order /\ (term.overflow <=> t >= Order)
    BY <2>1, <2>2, ValidIsUnit
  <2>4. PICK u : u = Tweaked(eckey_pubkey_tweak_mul, r)
    OBVIOUS
  <2>5. PICK loads \in BOOLEAN : loads = ~term.overflow
    OBVIOUS
  <2>6. PICK ok \in BOOLEAN : ok = (~term.overflow /\ u.ok)
    OBVIOUS
  <2>7. PICK what : what = <<"tweak_mul", t>>
    OBVIOUS
  <2>8. NewPublic(what, c, loads, ok, u.key)
    <3>1. \E te \in {scalar_set_b32(t)} : \E tt \in {Tweaked(eckey_pubkey_tweak_mul, te.v)} :
             NewPublic(<<"tweak_mul", t>>, c, ~te.overflow, ~te.overflow /\ tt.ok, tt.key)
      BY <1>2, Zenon DEF ec_pubkey_tweak_mul
    <3>2. NewPublic(<<"tweak_mul", t>>, c, ~term.overflow, ~term.overflow /\ u.ok, u.key)
      BY <2>2, <2>3, <2>4, <3>1, Zenon
    <3> QED BY <2>5, <2>6, <2>7, <3>2, Zenon
  <2>9. ASSUME NEW w \in Units, pubkey = Multiple[w]
        PROVE  (ok <=> StepOf(w, what) # 0) /\ (ok => u.key = Multiple[StepOf(w, what)])
    <3>1. CASE t >= Order
      <4>1. ~ok
        BY <2>3, <2>6, <3>1
      <4>2. StepOf(w, <<"tweak_mul", t>>) = 0
        BY <3>1, TweaksOf
      <4> QED BY <2>7, <4>1, <4>2, Zenon
    <3>2. CASE t < Order
      <4>1. ~term.overflow
        <5>1. ~(t >= Order)
          BY <2>1, <3>2, GroupFacts
        <5> QED BY <2>3, <5>1
      <4>2. t % Order = t /\ StepOf(w, <<"tweak_mul", t>>) = (w * t) % Order /\ ((w * t) % Order # 0 <=> t # 0)
        BY <3>2, TweaksOf
      <4>3. (u.ok <=> r # 0) /\ u.key = Multiple[(w * r) % Order]
        BY <2>4, <2>9, TweakedPoints, Zenon
      <4>4. r = t
        BY <2>3, <4>2, Zenon
      <4>5. ok <=> u.ok
        BY <2>6, <4>1
      <4> QED BY <2>7, <4>2, <4>3, <4>4, <4>5, Zenon
    <3> QED BY <2>1, <3>1, <3>2, GroupFacts
  <2>10. what \in KeyOps
    BY <2>7 DEF KeyOps
  <2> QED BY <2>8, <2>9, <2>10, NewPublicKeeps
<1> QED BY <1>1, <1>2

\* secp256k1_ec_pubkey_negate.
LEMMA PublicNegate ==
    ASSUME KeyInv, NEW c \in Contexts, ec_pubkey_negate(c)
    PROVE  KeyInv'
<1>1. PICK P : P = <<pubkey[1], (-pubkey[2]) % Q>>
  OBVIOUS
<1>2. PICK ok \in BOOLEAN : ok = TRUE
  OBVIOUS
<1>3. PICK what : what = <<"negate">>
  OBVIOUS
<1>4. NewPublic(what, c, ok, ok, P)
  BY <1>1, <1>2, <1>3, Zenon DEF ec_pubkey_negate
<1>5. what \in KeyOps /\ what[1] = "negate"
  BY <1>3 DEF KeyOps
<1>6. ASSUME NEW w \in Units, pubkey = Multiple[w]
      PROVE  (ok <=> StepOf(w, what) # 0) /\ (ok => P = Multiple[StepOf(w, what)])
  <2>1. PICK x, y \in Field : /\ Multiple[w][1] = x /\ Multiple[w][2] = y
                              /\ Multiple[Order - w] = <<x, (-y) % Q>> /\ Order - w \in Units
    BY Points
  <2>2. P = Multiple[Order - w]
    BY <1>1, <1>6, <2>1, Zenon
  <2>3. w # 0 /\ scalar_negate(w) = Order - w /\ Order - w # 0
    BY <2>1, Opposite DEF Units
  <2>4. StepOf(w, what) = Order - w
    BY <1>5, <2>3, Zenon DEF StepOf
  <2> QED BY <1>2, <2>2, <2>3, <2>4
<1> QED BY <1>4, <1>5, <1>6, NewPublicKeeps

\* secp256k1_ec_pubkey_create.
LEMMA PublicCreate ==
    ASSUME KeyInv, NEW c \in Contexts, ec_pubkey_create(c)
    PROVE  KeyInv'
<1>1. CASE ~(c.sign /\ ValidSecret(seckey))
  BY <1>1, OtherKeyCalls DEF ec_pubkey_create
<1>2. CASE c.sign /\ ValidSecret(seckey)
  <2>1. PICK k \in Units : k = seckey
    BY <1>2, ValidIsUnit DEF KeyInv
  <2>2. /\ seckey' = seckey /\ pubkey' = Multiple[seckey] /\ hseckey' = Paired /\ hpubkey' = Paired
    BY <1>2 DEF ec_pubkey_create, pubkey_save
  <2>3. /\ History(Paired, k, k) /\ Paired \in KeyHistory /\ Paired.paired
    BY HistoryBegins
  <2>4. k \in Scalars
    BY ScalarsReduce
  <2> QED BY <2>1, <2>2, <2>3, <2>4 DEF KeyInv
<1> QED BY <1>1, <1>2

\* secp256k1_ec_pubkey_serialize, and the bytes parsed again.
LEMMA PublicSerialize ==
    ASSUME KeyInv, NEW c \in Contexts, NEW compressed \in BOOLEAN, ec_pubkey_serialize(c, compressed)
    PROVE  KeyInv'
<1>1. seckey' = seckey /\ hseckey' = hseckey /\ hpubkey' = hpubkey
  BY DEF ec_pubkey_serialize
<1>2. ASSUME NEW w \in Units, pubkey = Multiple[w] PROVE pubkey' = Multiple[w]
  <2>1. pubkey_load(pubkey) = Multiple[w] /\ Multiple[w] # NoPoint
    BY <1>2, KeysLoad
  <2>2. pubkey' = eckey_pubkey_parse(eckey_pubkey_serialize(Multiple[w], compressed))
    BY <2>1 DEF ec_pubkey_serialize
  <2> QED BY <2>2, RoundTrip
<1>3. \A w \in Scalars : w # 0 => w \in Units
  BY GroupFacts DEF Scalars, Units
<1>4. ASSUME hseckey.paired
      PROVE  \E k \in Units, v, w \in Scalars :
               /\ History(hseckey', k, v) /\ (v # 0 => seckey' = v)
               /\ History(hpubkey', k, w) /\ (w # 0 => pubkey' = Multiple[w])
  <2>1. PICK k \in Units, v \in Scalars, w \in Scalars :
           /\ History(hseckey, k, v) /\ (v # 0 => seckey = v)
           /\ History(hpubkey, k, w) /\ (w # 0 => pubkey = Multiple[w])
    BY <1>4 DEF KeyInv
  <2> QED BY <1>1, <1>2, <1>3, <2>1
<1> QED BY <1>1, <1>4 DEF KeyInv

\* The invariant is inductive.
LEMMA KeyStep == KeyInv /\ [KeyNext]_keyVars => KeyInv'
<1> SUFFICES ASSUME KeyInv, [KeyNext]_keyVars PROVE KeyInv'
  OBVIOUS
<1>1. CASE ec_seckey_verify
  BY <1>1, OtherKeyCalls DEF ec_seckey_verify
<1>2. CASE ec_privkey_negate \/ \E t \in Tweaks : ec_privkey_tweak_add(t) \/ ec_privkey_tweak_mul(t)
  BY <1>2, SecretCalls
<1>3. ASSUME NEW e \in Encodings, ec_pubkey_parse(e) PROVE KeyInv'
  BY <1>3, OtherKeyCalls DEF ec_pubkey_parse
<1>4. ASSUME NEW c \in Contexts, NEW others, ec_pubkey_combine(c, others) PROVE KeyInv'
  <2>1. PICK illegal \in BOOLEAN : illegal = (pubkey_load(pubkey) = NoPoint)
    OBVIOUS
  <2>2. hpubkey' = [Unpaired EXCEPT !.failed = illegal] /\ hseckey' = Unpaired /\ seckey' = seckey
    BY <1>4, <2>1, Zenon DEF ec_pubkey_combine
  <2> QED BY <2>2, OtherKeyCalls
<1>5. ASSUME NEW c \in Contexts, ecdh(c) PROVE KeyInv'
  BY <1>5, OtherKeyCalls DEF ecdh
<1>6. ASSUME NEW c \in Contexts, NEW t \in Tweaks,
             ec_pubkey_tweak_add(c, t) \/ ec_pubkey_tweak_mul(c, t)
      PROVE  KeyInv'
  BY <1>6, PublicTweakAdd, PublicTweakMul
<1>7. ASSUME NEW c \in Contexts, ec_pubkey_create(c) \/ ec_pubkey_negate(c) PROVE KeyInv'
  BY <1>7, PublicCreate, PublicNegate
<1>8. ASSUME NEW c \in Contexts, NEW z \in BOOLEAN, ec_pubkey_serialize(c, z) PROVE KeyInv'
  BY <1>8, PublicSerialize
<1>9. CASE UNCHANGED keyVars
  BY <1>9, OtherKeyCalls DEF keyVars
<1> QED BY <1>1, <1>2, <1>3, <1>4, <1>5, <1>6, <1>7, <1>8, <1>9, Zenon DEF KeyNext

\* Equal histories lead to the same scalar, which is behind both keys.
LEMMA KeyInvSuffices == KeyInv => KeyPairKept
<1> SUFFICES ASSUME KeyInv, hseckey.paired, hpubkey.paired, hseckey.done = hpubkey.done
             PROVE  /\ hseckey.failed = hpubkey.failed
                    /\ ~hseckey.failed => ValidSecret(seckey) /\ pubkey = Multiple[seckey]
  BY DEF KeyPairKept
<1>1. PICK k \in Units, v \in Scalars, w \in Scalars :
         /\ History(hseckey, k, v) /\ (v # 0 => seckey = v)
         /\ History(hpubkey, k, w) /\ (w # 0 => pubkey = Multiple[w])
  BY DEF KeyInv
<1>2. hseckey \in KeyHistory /\ hpubkey \in KeyHistory /\ seckey \in Bytes32
  BY DEF KeyInv
<1>3. v = w
  BY <1>1, <1>2, HistoriesAgree
<1>4. (hseckey.failed <=> v = 0) /\ (hpubkey.failed <=> w = 0)
  BY <1>1 DEF History
<1>5. hseckey.failed = hpubkey.failed
  BY <1>2, <1>3, <1>4 DEF KeyHistory
<1>6. ASSUME ~hseckey.failed PROVE ValidSecret(seckey) /\ pubkey = Multiple[seckey]
  <2>1. v # 0 /\ seckey = v /\ pubkey = Multiple[v]
    BY <1>1, <1>3, <1>4, <1>6
  <2>2. v \in Units
    BY <2>1, GroupFacts DEF Scalars, Units
  <2>3. ValidSecret(seckey)
    BY <1>2, <2>1, <2>2, ValidIsUnit
  <2> QED BY <2>1, <2>3
<1> QED BY <1>5, <1>6

\* A secret key and the public key made from it that went through the same calls of
\* secp256k1.c, in whatever order, still belong together: both had a failure or
\* neither, and without one the public key is that of the secret key.
THEOREM KeysStayPaired == KeySpec => []KeyPairKept
<1>1. KeySpec => []KeyInv
  BY KeyInitial, KeyStep, PTL DEF KeySpec
<1> QED BY <1>1, KeyInvSuffices, PTL
=============================================================================
