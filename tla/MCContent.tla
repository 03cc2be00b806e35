------------------------------ MODULE MCContent ------------------------------
(* The instances of Content that TLC checks: a root whose own name begins  *)
(* with a dot, and a directory with a file outside of it.                  *)
EXTENDS Content

CONSTANTS Kinds          \* what the first entry of the root may be

Outside == 1
Dot == 9
SiteRoot == <<Dot>>

Node(kind, size, has, to) == [kind |-> kind, size |-> size, has |-> has, to |-> to]
Dir == Node("dir", 0, FALSE, <<>>)
File(size, has) == Node("file", size, has, <<>>)
Link(to) == Node("link", 0, FALSE, to)
Fifo == Node("fifo", 0, FALSE, <<>>)

(* What an entry of the root may be, with what is in it; a directory holds *)
(* a plain file and a hidden one.                                          *)
Alone(p, node) == [q \in {p} |-> node]
Folder(p) ==
  [q \in {p, p \o <<1>>, p \o <<Dot>>} |->
     IF q = p THEN Dir ELSE File(2, TRUE)]
Links(p) ==                         \* to a file, a directory, itself, outside, nothing
  {Alone(p, Link(to)) : to \in {<<Dot, 2>>, <<Dot>>, p, <<Outside>>, <<Outside, 1>>, <<Outside, 2>>}}
Plain(p) == {Alone(p, File(0, FALSE)), Alone(p, File(2, TRUE)), Alone(p, File(3, TRUE)), Alone(p, File(4, TRUE))}
Entries(p, kind) ==
  CASE kind = "plain" -> Plain(p)
    [] kind = "folder" -> {Folder(p)}
    [] kind = "link" -> Links(p)
    [] kind = "fifo" -> {Alone(p, Fifo)}

World ==
  [q \in {<<>>, <<Outside>>, <<Outside, 1>>, SiteRoot} |->
     IF q = <<Outside, 1>> THEN File(2, TRUE) ELSE Dir]

SomeTrees ==
  {World @@ a @@ b @@ c :
     a \in UNION {Entries(<<Dot, 1>>, k) : k \in Kinds},
     b \in UNION {Entries(<<Dot, 2>>, k) : k \in {"plain", "folder"}} \cup {Alone(<<Dot, 2>>, Link(<<Dot, 1>>))},
     c \in {Alone(<<Dot, 3>>, File(1, TRUE)), Folder(<<Dot, Dot>>), Alone(<<Dot, Dot>>, File(1, TRUE))}}

Edited == {Dir, Link(<<Outside, 1>>), Fifo}

Rel(segs) == [bad |-> FALSE, segs |-> segs]
SomeRequests ==
  {Rel(<<>>), Rel(<<1>>), Rel(<<2>>), Rel(<<3>>), Rel(<<1, 1>>), Rel(<<1, 2>>), Rel(<<1, 1, 1>>),
   Rel(<<2, 1>>), Rel(<<4, 1>>), Rel(<<Up, 1>>), [bad |-> TRUE, segs |-> <<1>>]}
=============================================================================
