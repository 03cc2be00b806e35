------------------------------- MODULE Content -------------------------------
(***************************************************************************)
(* The model's read-only tools (internal/content) over a file tree that    *)
(* somebody may edit while read_file is at work.  A tree is a function     *)
(* from the absolute paths that exist, sequences of names, to what is      *)
(* there; names are numbers, in their lexical order.  A link's target is   *)
(* given from the filesystem's root.  Of a file's text a size and whether  *)
(* it has the searched words are kept.  Entries the worker may not read    *)
(* behave as absent ones and are left out.                                 *)
(***************************************************************************)
EXTENDS Integers, FiniteSets, Sequences, SequencesExt

CONSTANTS
  Trees,             \* trees a behaviour may start with
  Requests,          \* arguments: [bad |-> absolute or with a NUL, segs |-> its segments]
  Root,              \* the content root
  Hidden,            \* names that begin with a dot
  Up,                \* the segment ".."
  MaxLinks,          \* links that are followed in one path
  MaxFileBytes, MaxSearchMatches, maxSearchFileBytes,
  Written,           \* what an editor may put where something else was
  MaxEdits           \* bound on the edits of an instance

Paths == Seq(Nat \cup {Up})
Inode == [kind: {"dir", "file", "link", "fifo"}, size: Nat, has: BOOLEAN, to: Seq(Nat)]

ASSUME ContentAssumption ==
  /\ Root \in Seq(Nat) /\ Up \notin Nat
  /\ {MaxLinks, MaxFileBytes, MaxSearchMatches, maxSearchFileBytes} \subseteq Nat
  /\ \A rel \in Requests : rel.segs \in Paths
  /\ Written \subseteq Inode
  /\ \A t \in Trees :
       /\ DOMAIN t \subseteq Seq(Nat) /\ IsFiniteSet(DOMAIN t)
       /\ \A p \in DOMAIN t : t[p] \in Inode
       /\ \A n \in 0..Len(Root) :        \* config.go:111 and NewResolver
            SubSeq(Root, 1, n) \in DOMAIN t /\ t[SubSeq(Root, 1, n)].kind = "dir"

VARIABLES
  tree,
  pc,                \* where the tool call is
  abs,               \* the path Resolve returned
  info,              \* the size os.Stat returned
  file,              \* the file that is open
  reply,             \* what the tool answers
  edits,
  stale              \* history: somebody edited since read_file's Stat

vars == <<tree, pc, abs, info, file, reply, edits, stale>>

Kind(p) == IF p \in DOMAIN tree THEN tree[p].kind ELSE "none"

Under(p) == IsPrefix(Root, p)

Visible(p) == Last(p) \notin Hidden

Segs(seq, n) == SubSeq(seq, 1, n)

Less(p, q) ==                        \* the order in which WalkDir meets p and q
  \/ IsPrefix(p, q) /\ p # q
  \/ \E n \in 1..Len(p) : n <= Len(q) /\ Segs(p, n - 1) = Segs(q, n - 1) /\ p[n] < q[n]

-----------------------------------------------------------------------------
(* paths.go *)

(* filepath.EvalSymlinks, and what the system does with a path: the first  *)
(* component that is not a directory decides; a link there is replaced by  *)
(* its target, at most MaxLinks times.                                     *)
AllDirs(path, n) ==                    \* the first n components are directories
  \A k \in 1..n : Kind(Segs(path, k)) = "dir"

First(path) ==                       \* the component that decides
  CHOOSE n \in 1..Len(path) : AllDirs(path, n - 1) /\ Kind(Segs(path, n)) # "dir"
Target(path) ==                      \* where a link there leads
  tree[Segs(path, First(path))].to \o SubSeq(path, First(path) + 1, Len(path))

Follow[links \in 0..MaxLinks] ==
  [path \in Paths |->
     IF AllDirs(path, Len(path)) THEN [err |-> "no", path |-> path]
     ELSE IF Kind(Segs(path, First(path))) = "none" THEN [err |-> "missing", path |-> path]
     ELSE IF Kind(Segs(path, First(path))) # "link"
       THEN [err |-> IF First(path) = Len(path) THEN "no" ELSE "notdir", path |-> path]
     ELSE IF links = 0 THEN [err |-> "loop", path |-> path]
     ELSE Follow[links - 1][Target(path)]]
EvalSymlinks(path) == Follow[MaxLinks][path]

(* The longest prefix that is not merely missing; the rest is put back.    *)
resolveIfPresent(path) ==            \* a missing leaf is taken as it is written
  IF EvalSymlinks(path).err = "missing" THEN [err |-> "no", path |-> path]
                                        ELSE EvalSymlinks(path)
resolveExistingAncestor(path) ==
  LET n == CHOOSE n \in 0..Len(path) :
             /\ EvalSymlinks(Segs(path, n)).err # "missing"
             /\ \A k \in n+1..Len(path) : EvalSymlinks(Segs(path, k)).err = "missing"
      real == EvalSymlinks(Segs(path, n))
  IN [real EXCEPT !.path = @ \o SubSeq(path, n + 1, Len(path))]

Resolve(rel) ==
  LET real == resolveExistingAncestor(Root \o rel.segs) IN
  IF rel.bad \/ Up \in ToSet(rel.segs) THEN [err |-> "invalid", path |-> <<>>]
  ELSE IF real.err = "no" /\ ~Under(real.path) THEN [real EXCEPT !.err = "escapes"]
  ELSE real

-----------------------------------------------------------------------------
(* tools.go: ListDir and SearchContent *)

Children(p) == {q \in DOMAIN tree : Len(q) = Len(p) + 1 /\ IsPrefix(p, q)}

ListDir(rel) ==
  LET real == Resolve(rel)
      dir == EvalSymlinks(real.path)
  IN IF real.err # "no" \/ dir.err # "no" \/ Kind(dir.path) # "dir"
     THEN [kind |-> "error"]
     ELSE [kind |-> "list",
           names |-> {[name |-> Last(q), dir |-> Kind(q) = "dir"] :
                        q \in {q \in Children(dir.path) : Visible(q)}}]

(* One call of WalkDir's callback for a path that is not a directory:      *)
(* d.Info is of the entry itself, os.ReadFile follows links.               *)
Look(acc, p) ==
  LET real == EvalSymlinks(p) IN
  IF \/ acc.blocked \/ Cardinality(acc.hits) >= MaxSearchMatches
     \/ ~Visible(p) \/ tree[p].size > maxSearchFileBytes
     \/ real.err # "no"
  THEN acc
  ELSE CASE Kind(real.path) = "fifo" -> [acc EXCEPT !.blocked = TRUE]
         [] Kind(real.path) = "file" /\ tree[real.path].has -> [acc EXCEPT !.hits = @ \cup {p}]
         [] OTHER -> acc

(* What WalkDir comes to below p, a directory's entries in their order. *)
Nth(S, k) == CHOOSE q \in S : Cardinality({r \in S : Less(r, q)}) = k - 1

Walk[p \in Paths] ==
  IF Kind(p) # "dir" THEN <<p>>
  ELSE IF ~Visible(p) /\ p # Root THEN <<>>
  ELSE FlattenSeq([k \in 1..Cardinality(Children(p)) |-> Walk[Nth(Children(p), k)]])

NoHits == [hits |-> {}, blocked |-> FALSE]
SearchHiddenRoot ==                  \* a hidden directory is skipped, the root as well
  IF Visible(Root) THEN FoldLeft(Look, NoHits, Walk[Root]) ELSE NoHits
Search == FoldLeft(Look, NoHits, Walk[Root])

-----------------------------------------------------------------------------
(* tools.go: Call *)

Answer(r) == pc' = "answer" /\ reply' = r
Error == [kind |-> "error"]

(* Arguments that are not JSON, an unknown tool, an empty query. *)
CallNothing ==
  /\ pc = "idle"
  /\ Answer(Error)
  /\ UNCHANGED <<tree, abs, info, file, edits, stale>>

CallListDir(rel) ==
  /\ pc = "idle"
  /\ Answer(ListDir(rel))
  /\ UNCHANGED <<tree, abs, info, file, edits, stale>>

CallSearchContent ==
  /\ pc = "idle"
  /\ IF Search.blocked THEN pc' = "blocked" /\ UNCHANGED reply
                       ELSE Answer([kind |-> "hits", hits |-> Search.hits])
  /\ UNCHANGED <<tree, abs, info, file, edits, stale>>

CallReadFile(rel) ==
  /\ pc = "idle"
  /\ IF Resolve(rel).err = "no" THEN /\ pc' = "stat" /\ abs' = Resolve(rel).path
                                     /\ UNCHANGED reply
                                ELSE Answer(Error) /\ UNCHANGED abs
  /\ UNCHANGED <<tree, info, file, edits, stale>>

StatNoMode ==                        \* a directory is refused, and nothing else
  LET real == EvalSymlinks(abs) IN
  /\ pc = "stat"
  /\ IF real.err = "no" /\ Kind(real.path) # "dir"
     THEN pc' = "open" /\ info' = tree[real.path].size /\ UNCHANGED reply
     ELSE Answer(Error) /\ UNCHANGED info
  /\ stale' = FALSE
  /\ UNCHANGED <<tree, abs, file, edits>>
Stat ==
  LET real == EvalSymlinks(abs) IN
  /\ pc = "stat"
  /\ IF real.err = "no" /\ Kind(real.path) = "file"
     THEN pc' = "open" /\ info' = tree[real.path].size /\ UNCHANGED reply
     ELSE Answer(Error) /\ UNCHANGED info
  /\ stale' = FALSE
  /\ UNCHANGED <<tree, abs, file, edits>>

(* os.Open waits for the writer of a FIFO; it opens a directory. *)
Open ==
  LET real == EvalSymlinks(abs) IN
  /\ pc = "open"
  /\ IF real.err # "no" THEN Answer(Error) /\ UNCHANGED file
     ELSE IF Kind(real.path) = "fifo" THEN pc' = "blocked" /\ UNCHANGED <<file, reply>>
     ELSE pc' = "read" /\ file' = real.path /\ UNCHANGED reply
  /\ UNCHANGED <<tree, abs, info, edits, stale>>

Least(m, n) == IF m < n THEN m ELSE n

ReadByStat ==                        \* truncation told from the size that Stat saw
  /\ pc = "read"
  /\ Answer([kind |-> IF info > MaxFileBytes THEN "cut" ELSE "whole",
             size |-> Least(tree[file].size, MaxFileBytes)])
  /\ UNCHANGED <<tree, abs, info, file, edits, stale>>
(* One byte more than the cap is asked for; a directory cannot be read. *)
Read ==
  /\ pc = "read"
  /\ LET buf == Least(tree[file].size, MaxFileBytes + 1) IN
     Answer(IF Kind(file) = "dir" THEN Error
            ELSE IF buf > MaxFileBytes THEN [kind |-> "cut", size |-> MaxFileBytes]
            ELSE [kind |-> "whole", size |-> buf])
  /\ UNCHANGED <<tree, abs, info, file, edits, stale>>

Return ==
  /\ pc = "answer"
  /\ pc' = "idle" /\ reply' = Error
  /\ abs' = <<>> /\ info' = 0 /\ file' = <<>> /\ stale' = FALSE
  /\ UNCHANGED <<tree, edits>>

-----------------------------------------------------------------------------
(* The author's editor, which leaves directories where they are.  What is  *)
(* open when it is unlinked or replaced stays as it is until it is read.   *)

Grow(p) == Kind(p) = "file" /\ tree' = [tree EXCEPT ![p].size = @ + 1]

Movable(p) == Kind(p) # "dir" /\ (pc = "read" => p # file)

Unlink(p) == Movable(p) /\ tree' = [q \in DOMAIN tree \ {p} |-> tree[q]]

Replace(p, node) == Movable(p) /\ tree' = [tree EXCEPT ![p] = node]

Edit ==
  /\ pc \in {"stat", "open", "read"}
  /\ edits < MaxEdits /\ edits' = edits + 1
  /\ \E p \in DOMAIN tree : Grow(p) \/ Unlink(p) \/ \E node \in Written : Replace(p, node)
  /\ stale' = TRUE
  /\ UNCHANGED <<pc, abs, info, file, reply>>

Init ==
  /\ tree \in Trees
  /\ pc = "idle" /\ reply = Error
  /\ abs = <<>> /\ info = 0 /\ file = <<>>
  /\ edits = 0 /\ stale = FALSE

Next ==
  \/ CallNothing \/ CallSearchContent
  \/ \E rel \in Requests : CallListDir(rel) \/ CallReadFile(rel)
  \/ Stat \/ Open \/ Read \/ Return
  \/ Edit

Spec == Init /\ [][Next]_vars

-----------------------------------------------------------------------------
(* Properties *)

Proper == {rel \in Requests : ~rel.bad /\ Up \notin ToSet(rel.segs)}

(* paths.go:18-20 and 75-79: a path that Resolve returns is the argument's,*)
(* and whatever exists of it lies under the root, links followed; nothing  *)
(* under the root is refused.                                              *)
ResolvedInside ==
  pc = "idle" => \A rel \in Proper :
    LET meant == EvalSymlinks(Root \o rel.segs)
        got == Resolve(rel)
        real == EvalSymlinks(got.path)
    IN /\ meant.err = "no" /\ Under(meant.path) => got.err = "no" /\ real = meant
       /\ got.err = "no" =>
            \A n \in Len(Root)..Len(got.path) :
              LET part == EvalSymlinks(Segs(got.path, n)) IN
              part.err = "no" => Under(part.path)

(* tools.go:102-105: a text passed off as the whole file is the whole file,  *)
(* though it grew after it was looked at; one marked as cut was too long.  *)
WholeMeansWhole ==
  pc = "answer" /\ reply.kind \in {"whole", "cut"} =>
    IF reply.kind = "whole" THEN reply.size = tree[file].size
                            ELSE tree[file].size > MaxFileBytes

(* Going from the root through the names list_dir marks as directories. *)
Listed(p, dir) ==
  LET r == ListDir([bad |-> FALSE, segs |-> SubSeq(p, Len(Root) + 1, Len(p) - 1)]) IN
  r.kind = "list" /\ [name |-> Last(p), dir |-> dir] \in r.names
Navigable(p) ==
  /\ Under(p) /\ p # Root
  /\ Listed(p, FALSE)
  /\ \A n \in Len(Root)+1..Len(p)-1 : Listed(Segs(p, n), TRUE)

(* read_file opens it, and what it opens has the words. *)
Readable(p) ==
  LET got == Resolve([bad |-> FALSE, segs |-> SubSeq(p, Len(Root) + 1, Len(p))])
      real == EvalSymlinks(got.path)
  IN got.err = "no" /\ real.err = "no" /\ Kind(real.path) = "file" /\ tree[real.path].has

(* It is, or leads by links to, a file with the words outside of the root. *)
FoundOutside(p) ==
  LET real == EvalSymlinks(p)
  IN real.err = "no" /\ ~Under(real.path) /\ Kind(real.path) = "file" /\ tree[real.path].has

(* tools.go:135-158: search_content sees what list_dir shows and read_file *)
(* opens, and besides only what read_file refuses because a link leads out *)
(* of the root, which it follows.  Its hits are such files, of a searchable*)
(* size, that one can navigate to: all of them, or the first ones if there *)
(* are too many.                                                           *)
SearchAgreesWithListing ==
  pc = "answer" /\ reply.kind = "hits" =>
    LET Wanted == {p \in DOMAIN tree : /\ Navigable(p)
                                       /\ tree[p].size <= maxSearchFileBytes
                                       /\ Readable(p) \/ FoundOutside(p)}
    IN /\ reply.hits \subseteq Wanted
       /\ Cardinality(reply.hits) = Least(Cardinality(Wanted), MaxSearchMatches)
       /\ \A p \in reply.hits, q \in Wanted \ reply.hits : Less(p, q)

(* README.md:175-177, of the tools: "symlinks leaving the root are all     *)
(* rejected before touching disk".  No hit of a search comes from a file   *)
(* outside of the root.                                                    *)
HitsAreInside ==
  pc = "answer" /\ reply.kind = "hits" => \A p \in reply.hits : Under(EvalSymlinks(p).path)

(* tools.go:83-94: read_file does not open a FIFO, except one that somebody*)
(* put in place after it looked.                                           *)
OpenAsSeen == pc = "open" /\ pc' = "blocked" => stale
FifosAreRefused == [][OpenAsSeen]_vars

(* tools.go:187-189: a tool call answers, with text, whatever the tree:    *)
(* "opening a FIFO with no writer blocks forever" (tools.go:84) and is to  *)
(* be avoided.                                                             *)
NeverBlocks == pc # "blocked"
=============================================================================
