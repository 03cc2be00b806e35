--------------------------- MODULE MCModelStream ----------------------------
(* The instance of ModelStream that TLC checks. *)
EXTENDS ModelStream

CONSTANTS p1, p2, c1, c2, MaxLength

Frag(index, id, args) == [index |-> index, id |-> id, args |-> args]
Says(piece, frags, u) == [text |-> piece, frags |-> frags, usage |-> u]
Bare(u, choices) == [usage |-> u, choices |-> choices]

(* A usage chunk, an empty one, text, text with a usage beside it, a call   *)
(* that begins, its arguments, a later index before an earlier one, a       *)
(* fragment next to text, and a second choice that is not ours.             *)
Chunks ==
  {Bare(1, <<>>), Bare(Nothing, <<>>),
   Bare(Nothing, <<Says(p1, <<>>, Nothing)>>),
   Bare(1, <<Says(p2, <<>>, 2)>>),
   Bare(Nothing, <<Says(Nothing, <<Frag(0, c1, Nothing)>>, Nothing)>>),
   Bare(Nothing, <<Says(Nothing, <<Frag(0, Nothing, p1)>>, Nothing)>>),
   Bare(Nothing, <<Says(Nothing, <<Frag(2, c2, p2), Frag(0, Nothing, p2)>>, Nothing)>>),
   Bare(Nothing, <<Says(p1, <<Frag(2, Nothing, p1)>>, 3)>>),
   Bare(Nothing, <<Says(p1, <<>>, Nothing), Says(p2, <<Frag(1, c1, p1)>>, 4)>>)}

ShortScripts == UNION {[1..n -> Chunks] : n \in 0..MaxLength}
=============================================================================
