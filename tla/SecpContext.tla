----------------------------- MODULE SecpContext -----------------------------
(***************************************************************************)
(* The context objects of secp256k1.c on a heap: contexts are created with *)
(* tables for signing, verifying, both or neither, cloned, randomized and  *)
(* destroyed in any order, with the default callback for illegal arguments *)
(* or with one of the caller.  A table is a heap block of its own that one *)
(* context points to; there are two for each purpose, as the endomorphism  *)
(* is compiled in.                                                         *)
(***************************************************************************)
EXTENDS Naturals, Sequences

CONSTANTS Slots,       \* bound: where the caller keeps its contexts
          Blocks,      \* bound: the blocks of the heap, none of which is 0
          Seeds,       \* bound: seeds of the blinding
          MaxBlindings \* bound: seeds chained into one blinding value

ASSUME BlocksAssumption == 0 \notin Blocks

VARIABLES heap,   \* what each block holds
          ctx,    \* the contexts
          broken, \* a block that is not allocated was freed
          exited  \* a callback ended the process

ctxVars == <<heap, ctx, broken, exited>>

NULL   == 0
Free   == "free"
NoCtx  == [self |-> NULL]

Flags     == {"sign", "verify"}
\* the blocks a context points to, in the order in which they are cleared, and
\* what each of them holds
Fields(c) == <<c.pre_g, c.pre_g_128, c.prec, c.prec_switch, c.self>>
Kinds     == <<"pre_g", "pre_g_128", "prec", "prec", "context">>

CtxInit ==
    /\ heap = [b \in Blocks |-> Free]
    /\ ctx = [s \in Slots |-> NoCtx]
    /\ broken = FALSE /\ exited = FALSE

-----------------------------------------------------------------------------
(* checked_malloc and free *)

\* The blocks that malloc may give for a sequence of kinds, "none" for a block that is
\* not needed: any that are free.
checked_malloc(kinds) ==
    {at \in [1 .. 5 -> {b \in Blocks : heap[b] = Free} \cup {NULL}] :
        /\ \A i \in 1 .. 5 : (at[i] = NULL) <=> (kinds[i] = "none")
        /\ \A i, j \in 1 .. 5 : at[i] = at[j] /\ at[i] # NULL => i = j}

release(blocks) ==
    /\ heap' = [b \in Blocks |-> IF \E i \in DOMAIN blocks : blocks[i] = b THEN Free ELSE heap[b]]
    /\ broken' = (broken \/ \E i \in DOMAIN blocks : blocks[i] # NULL /\
                     (heap[blocks[i]] = Free \/ \E j \in 1 .. i - 1 : blocks[j] = blocks[i]))

Exit == exited' = TRUE /\ UNCHANGED <<heap, ctx, broken>>

\* a new context in slot s, made of newly allocated blocks; a heap without enough
\* free blocks ends in the error callback
NewContext(s, kinds, illegal, blind) ==
    IF checked_malloc(kinds) = {} THEN Exit
    ELSE \E at \in checked_malloc(kinds) :
           /\ heap' = [b \in Blocks |-> IF \E i \in 1 .. 5 : at[i] = b
                                        THEN kinds[CHOOSE i \in 1 .. 5 : at[i] = b]
                                        ELSE heap[b]]
           /\ ctx' = [ctx EXCEPT ![s] =
                 [pre_g |-> at[1], pre_g_128 |-> at[2], prec |-> at[3], prec_switch |-> at[4],
                  self |-> at[5], illegal |-> illegal, blind |-> blind]]
           /\ UNCHANGED <<broken, exited>>

-----------------------------------------------------------------------------
\* Flags of another type than a context's end in the default illegal callback.
context_create(s, valid, flags) ==
    /\ ~exited /\ ctx[s] = NoCtx
    /\ IF valid
       THEN NewContext(s, <<IF "verify" \in flags THEN "pre_g" ELSE "none",
                            IF "verify" \in flags THEN "pre_g_128" ELSE "none",
                            IF "sign" \in flags THEN "prec" ELSE "none",
                            IF "sign" \in flags THEN "prec" ELSE "none",
                            "context">>, "abort", <<>>)
       ELSE Exit

\* what a table that is copied holds
CopyOf(b) == IF b = NULL THEN "none" ELSE heap[b]

context_clone(s, t) ==
    /\ ~exited /\ ctx[s] # NoCtx /\ ctx[t] = NoCtx
    /\ NewContext(t, <<CopyOf(ctx[s].pre_g), CopyOf(ctx[s].pre_g_128), CopyOf(ctx[s].prec),
                       CopyOf(ctx[s].prec_switch), "context">>, ctx[s].illegal, ctx[s].blind)

\* Mutant: the second table for verifying is forgotten.
context_destroyLeaks(s) ==
    /\ ~exited /\ ctx[s] # NoCtx
    /\ release(<<ctx[s].pre_g, ctx[s].prec, ctx[s].prec_switch, ctx[s].self>>)
    /\ ctx' = [ctx EXCEPT ![s] = NoCtx]
    /\ UNCHANGED exited

context_destroy(s) ==
    /\ ~exited /\ ctx[s] # NoCtx
    /\ release(Fields(ctx[s]))
    /\ ctx' = [ctx EXCEPT ![s] = NoCtx]
    /\ UNCHANGED exited

\* a null function restores the default
context_set_illegal_callback(s, fun) ==
    /\ ~exited /\ ctx[s] # NoCtx
    /\ ctx' = [ctx EXCEPT ![s].illegal = IF fun = NULL THEN "abort" ELSE "return"]
    /\ UNCHANGED <<heap, broken, exited>>

\* The new blinding value is drawn from the old one and the seed; without a seed
\* the old one is reset first.  The tables of switch commitments keep theirs.
context_randomize(s, seed) ==
    /\ ~exited /\ ctx[s] # NoCtx
    /\ IF ctx[s].prec = NULL
       THEN exited' = (ctx[s].illegal = "abort") /\ UNCHANGED <<heap, ctx, broken>>
       ELSE /\ Len(ctx[s].blind) < MaxBlindings
            /\ ctx' = [ctx EXCEPT ![s].blind = IF seed = NULL THEN <<>> ELSE Append(@, seed)]
            /\ UNCHANGED <<heap, broken, exited>>

CtxNext ==
    \/ \E s \in Slots, valid \in BOOLEAN, f \in SUBSET Flags : context_create(s, valid, f)
    \/ \E s, t \in Slots : context_clone(s, t)
    \/ \E s \in Slots : context_destroy(s)
    \/ \E s \in Slots, fun \in {NULL, 1} : context_set_illegal_callback(s, fun)
    \/ \E s \in Slots, seed \in Seeds \cup {NULL} : context_randomize(s, seed)
    \/ exited /\ UNCHANGED ctxVars

CtxSpec == CtxInit /\ [][CtxNext]_ctxVars

-----------------------------------------------------------------------------
live == {s \in Slots : ctx[s] # NoCtx}

\* the pointers of all contexts that point to a block
uses == {u \in live \X (1 .. 5) : Fields(ctx[u[1]])[u[2]] # NULL}

At(u) == Fields(ctx[u[1]])[u[2]]

(* Whatever contexts are created, cloned and destroyed, and whatever blocks *)
(* malloc gives: every block of the heap that is not free belongs to one    *)
(* pointer of one context, so none is leaked, shared by a clone or freed    *)
(* twice, and it still holds what that pointer expects; a context has both  *)
(* tables of a purpose or neither, as the calls look for the first of them  *)
(* only (secp256k1_context_create, _clone, _randomize, _destroy).           *)
ContextsOwnTables ==
    /\ ~broken
    /\ \A u \in uses : heap[At(u)] = Kinds[u[2]]
    /\ \A u, v \in uses : At(u) = At(v) => u = v
    /\ \A b \in Blocks : heap[b] # Free => \E u \in uses : At(u) = b
    /\ \A s \in live : /\ (ctx[s].pre_g = NULL) <=> (ctx[s].pre_g_128 = NULL)
                       /\ (ctx[s].prec = NULL) <=> (ctx[s].prec_switch = NULL)
=============================================================================
