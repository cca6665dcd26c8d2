----------------------------- MODULE MCMoveSteps ------------------------------
(***************************************************************************)
(* Small moves for TLC.                                                    *)
(***************************************************************************)
EXTENDS MoveSteps

CONSTANTS a, b, c   \* names

Names == {a, b, c}
Bytes == {0, 1}

Contents == {<<>>, <<1>>, <<0, 1>>, <<1, 1, 0>>}

\* What can be at p: a file, or a directory that is empty or not.
Things(p) ==
  {p :> x : x \in Contents} \cup {p :> Dir} \cup {(p :> Dir) @@ (Append(p, a) :> <<0>>)}

\* A thing at <<a>>, something or nothing at <<b>> or at <<c, b>>, or nothing at <<b, c>>, and
\* a file nearby.
MovesApart ==
  UNION {{[tree |-> (<<>> :> Dir) @@ (<<c>> :> Dir) @@ (<<c, a>> :> <<0>>) @@ x @@ y,
           from |-> <<a>>, to |-> to, cross |-> cross] :
            x \in Things(<<a>>),
            y \in {<<>>} \cup IF to = <<b, c>> THEN {} ELSE Things(to),
            cross \in BOOLEAN} :
         to \in {<<b>>, <<c, b>>, <<b, c>>}}

\* To itself, into itself and out of itself, and what is not there.
MovesWithin ==
  {m \in [tree : {(<<>> :> Dir) @@ (<<c>> :> <<0>>) @@ x : x \in Things(<<a>>)},
          from : {<<a>>, <<a, a>>, <<b>>},
          to : {<<a>>, <<a, a>>, <<a, b>>, <<b>>},
          cross : BOOLEAN] : m.cross => m.from # m.to}

SmallMoves == MovesApart \cup MovesWithin

=============================================================================
