----------------------------- MODULE EagerFold ------------------------------
(* Loops over sequences.  Each evaluates the value the loop has built before
   it takes the next element, so that TLC's work is linear in the sequence. *)
LOCAL INSTANCE Naturals
LOCAL INSTANCE Sequences

\* The value of op(x) with x evaluated once.
With(op(_), x) == CHOOSE r \in {op(y) : y \in {x}} : TRUE

Fold(op(_, _), base, seq) ==
  With(LAMBDA s :
         LET f[i \in 0..Len(s)] ==
               IF i = 0 THEN base ELSE With(LAMBDA a : op(a, s[i]), f[i - 1])
         IN  f[Len(s)],
       seq)

FlatMap(op(_), seq) == Fold(LAMBDA out, x : out \o op(x), <<>>, seq)
Map(op(_), seq) == Fold(LAMBDA out, x : Append(out, op(x)), <<>>, seq)
Filtered(test(_), seq) == Fold(LAMBDA out, x : IF test(x) THEN Append(out, x) ELSE out, <<>>, seq)
=============================================================================
