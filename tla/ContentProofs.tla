--------------------------- MODULE ContentProofs ----------------------------
(***************************************************************************)
(* Proofs about Content, for any finite tree, any root and any request:    *)
(* where a path that Resolve returns leads, what read_file says of a text  *)
(* and opens, and what search_content finds, while somebody edits.  First  *)
(* come the recursive functions, Follow and Walk, each as the equation it  *)
(* is read as; then what links lead to, what one can navigate to, the walk *)
(* as a list of that in order, and the search as a fold over the list.     *)
(***************************************************************************)
EXTENDS Content, DataInduction, SequenceTheorems

TreeOK ==
  /\ DOMAIN tree \subseteq Seq(Nat) /\ \A p \in DOMAIN tree : tree[p] \in Inode
  /\ <<>> \in DOMAIN tree /\ tree[<<>>].kind = "dir"

-----------------------------------------------------------------------------
(* Following links, as an equation *)

Hop(f, links, path) ==
  IF AllDirs(path, Len(path)) THEN [err |-> "no", path |-> path]
  ELSE IF Kind(Segs(path, First(path))) = "none" THEN [err |-> "missing", path |-> path]
  ELSE IF Kind(Segs(path, First(path))) # "link"
    THEN [err |-> IF First(path) = Len(path) THEN "no" ELSE "notdir", path |-> path]
  ELSE IF links = 0 THEN [err |-> "loop", path |-> path]
  ELSE f[links - 1][Target(path)]

IsFollow(f, n) == f = [links \in 0..n |-> [path \in Paths |-> Hop(f, links, path)]]

LEMMA FollowIsChosen == Follow = CHOOSE f : IsFollow(f, MaxLinks)
BY DEF Follow, IsFollow, Hop

LEMMA FollowExists ==
  ASSUME NEW n \in Nat
  PROVE  \E f : IsFollow(f, n)
<1> DEFINE N == {k \in Nat : \E f : IsFollow(f, k)}
<1>1. 0 \in N
  <2> DEFINE f == [links \in 0..0 |-> [path \in Paths |-> Hop(<<>>, links, path)]]
  <2>1. \A links \in 0..0 : \A path \in Paths : Hop(<<>>, links, path) = Hop(f, links, path)
    BY DEF Hop
  <2>2. f = [links \in 0..0 |-> [path \in Paths |-> Hop(<<>>, links, path)]]
    OBVIOUS
  <2> HIDE DEF f
  <2>3. f = [links \in 0..0 |-> [path \in Paths |-> Hop(f, links, path)]]
    BY <2>1, <2>2
  <2> QED BY <2>3 DEF IsFollow
<1>2. ASSUME NEW k \in N PROVE k + 1 \in N
  <2>1. PICK f : IsFollow(f, k)
    BY <1>2
  <2> DEFINE g == [links \in 0..k + 1 |-> [path \in Paths |-> Hop(f, links, path)]]
  <2>2. \A links \in 0..k : f[links] = [path \in Paths |-> Hop(f, links, path)]
    BY <2>1 DEF IsFollow
  <2>3. \A links \in 0..k : g[links] = f[links]
    BY <1>2, <2>2
  <2>4. \A links \in 0..k + 1 : links # 0 => links - 1 \in 0..k
    BY <1>2
  <2>5. g = [links \in 0..k + 1 |-> [path \in Paths |-> Hop(f, links, path)]]
    OBVIOUS
  <2> HIDE DEF g
  <2>6. \A links \in 0..k + 1 : \A path \in Paths : Hop(f, links, path) = Hop(g, links, path)
    <3> SUFFICES ASSUME NEW links \in 0..k + 1, NEW path \in Paths
                 PROVE  Hop(f, links, path) = Hop(g, links, path)
      OBVIOUS
    <3>1. links # 0 => g[links - 1] = f[links - 1]
      BY <2>3, <2>4
    <3> QED BY <3>1 DEF Hop
  <2>7. g = [links \in 0..k + 1 |-> [path \in Paths |-> Hop(g, links, path)]]
    BY <2>5, <2>6
  <2> QED BY <1>2, <2>7 DEF IsFollow
<1>3. Nat \subseteq N
  <2> HIDE DEF N
  <2> QED BY <1>1, <1>2, Counting
<1> QED BY <1>3

LEMMA FollowIs ==
  ASSUME NEW links \in 0..MaxLinks, NEW path \in Paths
  PROVE  Follow[links][path] = Hop(Follow, links, path)
<1>1. IsFollow(Follow, MaxLinks)
  BY FollowIsChosen, FollowExists, ContentAssumption
<1>2. Follow[links] = [p \in Paths |-> Hop(Follow, links, p)]
  BY <1>1 DEF IsFollow
<1> HIDE DEF Follow
<1> QED BY <1>2

-----------------------------------------------------------------------------
(* Paths and their parts *)

Rest(path, n) == SubSeq(path, n + 1, Len(path))

LEMMA PathFacts ==
  ASSUME NEW p \in Paths, NEW t \in Paths
  PROVE  /\ Len(p) \in Nat /\ p \o t \in Paths /\ Len(p \o t) = Len(p) + Len(t)
         /\ \A n \in 0..Len(p) : /\ Segs(p, n) \in Paths /\ Len(Segs(p, n)) = n
                                 /\ Rest(p, n) \in Paths
                                 /\ Segs(p \o t, n) = Segs(p, n)
                                 /\ Rest(p \o t, n) = Rest(p, n) \o t
         /\ \A n \in 0..Len(p) : \A m \in 0..n : Segs(Segs(p, n), m) = Segs(p, m)
         /\ \A n \in 0..Len(t) : Segs(p \o t, Len(p) + n) = p \o Segs(t, n)
         /\ Segs(p, Len(p)) = p
<1> USE DEF Paths, Segs, Rest
<1>1. Len(p) \in Nat /\ p \o t \in Paths /\ Len(p \o t) = Len(p) + Len(t)
  OBVIOUS
<1>2. ASSUME NEW n \in 0..Len(p)
      PROVE  Segs(p, n) \in Paths /\ Len(Segs(p, n)) = n /\ Rest(p, n) \in Paths
  OBVIOUS
<1>3. ASSUME NEW n \in 0..Len(p) PROVE Segs(p \o t, n) = Segs(p, n)
  OBVIOUS
<1>4. ASSUME NEW n \in 0..Len(p) PROVE Rest(p \o t, n) = Rest(p, n) \o t
  <2>1. Len(p \o t) = Len(p) + Len(t) /\ Len(p) \in Nat /\ Len(t) \in Nat
    OBVIOUS
  <2> DEFINE a == Rest(p \o t, n)
             b == Rest(p, n) \o t
  <2>2. a \in Paths /\ Len(a) = Len(p) + Len(t) - n
    BY <2>1
  <2>3. b \in Paths /\ Len(b) = Len(p) + Len(t) - n
    BY <2>1
  <2>4. \A k \in 1..Len(p) + Len(t) - n : a[k] = b[k]
    OBVIOUS
  <2> HIDE DEF a, b
  <2>5. a = b
    BY <2>2, <2>3, <2>4, SeqEqual
  <2> QED BY <2>5 DEF a, b
<1>5. ASSUME NEW n \in 0..Len(p), NEW m \in 0..n PROVE Segs(Segs(p, n), m) = Segs(p, m)
  OBVIOUS
<1>6. ASSUME NEW n \in 0..Len(t) PROVE Segs(p \o t, Len(p) + n) = p \o Segs(t, n)
  OBVIOUS
<1>7. Segs(p, Len(p)) = p
  OBVIOUS
<1> QED BY <1>1, <1>2, <1>3, <1>4, <1>5, <1>6, <1>7

LEMMA FirstIs ==
  ASSUME NEW path \in Paths, NEW n \in 1..Len(path),
         AllDirs(path, n - 1), Kind(Segs(path, n)) # "dir"
  PROVE  First(path) = n /\ ~AllDirs(path, Len(path))
<1>1. Len(path) \in Nat
  BY PathFacts
<1>2. ASSUME NEW m \in 1..Len(path), AllDirs(path, m - 1), Kind(Segs(path, m)) # "dir"
      PROVE  m = n
  <2>1. CASE m < n
    <3>1. m \in 1..n - 1
      BY <1>1, <2>1
    <3> QED BY <1>2, <3>1 DEF AllDirs
  <2>2. CASE n < m
    <3>1. n \in 1..m - 1
      BY <1>1, <2>2
    <3> QED BY <1>2, <3>1 DEF AllDirs
  <2> QED BY <1>1, <2>1, <2>2
<1> QED BY <1>2 DEF First, AllDirs

LEMMA FirstFacts ==
  ASSUME NEW path \in Paths, ~AllDirs(path, Len(path))
  PROVE  /\ First(path) \in 1..Len(path)
         /\ AllDirs(path, First(path) - 1)
         /\ Kind(Segs(path, First(path))) # "dir"
<1> DEFINE T == {n \in 1..Len(path) : Kind(Segs(path, n)) # "dir"}
<1>1. Len(path) \in Nat
  BY PathFacts
<1>2. T \subseteq Nat /\ T # {}
  BY <1>1 DEF AllDirs
<1>3. PICK n \in T : \A k \in T : n <= k
  <2> HIDE DEF T
  <2> QED BY <1>2, LeastNatural
<1>4. AllDirs(path, n - 1)
  <2> SUFFICES ASSUME NEW k \in 1..n - 1 PROVE Kind(Segs(path, k)) = "dir"
    BY DEF AllDirs
  <2>1. k \in 1..Len(path) /\ ~(n <= k)
    BY <1>1
  <2> QED BY <1>3, <2>1
<1>5. First(path) = n
  BY <1>4, FirstIs
<1> QED BY <1>4, <1>5

LEMMA FollowCases ==
  ASSUME TreeOK, NEW links \in 0..MaxLinks, NEW path \in Paths
  PROVE  LET r == Follow[links][path]
             kind == Kind(Segs(path, First(path)))
         IN \/ AllDirs(path, Len(path)) /\ r = [err |-> "no", path |-> path]
            \/ /\ ~AllDirs(path, Len(path)) /\ kind = "none"
               /\ r = [err |-> "missing", path |-> path]
            \/ /\ ~AllDirs(path, Len(path)) /\ kind = "link" /\ links = 0
               /\ r = [err |-> "loop", path |-> path]
            \/ /\ ~AllDirs(path, Len(path)) /\ kind = "link" /\ links # 0
               /\ Target(path) \in Paths /\ links - 1 \in 0..MaxLinks
               /\ r = Follow[links - 1][Target(path)]
            \/ /\ ~AllDirs(path, Len(path)) /\ kind \in {"file", "fifo"}
               /\ r = [err |-> IF First(path) = Len(path) THEN "no" ELSE "notdir", path |-> path]
<1> DEFINE at == Segs(path, First(path))
<1>1. Follow[links][path] = Hop(Follow, links, path)
  BY FollowIs
<1>2. CASE AllDirs(path, Len(path))
  BY <1>1, <1>2 DEF Hop
<1>3. CASE ~AllDirs(path, Len(path))
  <2>1. Len(path) \in Nat /\ First(path) \in 1..Len(path) /\ Kind(at) # "dir"
    BY <1>3, FirstFacts, PathFacts
  <2>2. Kind(at) \in {"none", "link", "file", "fifo"}
        /\ (Kind(at) # "none" => tree[at].to \in Seq(Nat))
    BY <2>1 DEF Kind, TreeOK, Inode
  <2>3. Rest(path, First(path)) \in Paths
    BY <2>1, PathFacts
  <2>4. Kind(at) # "none" => Target(path) \in Paths
    <3>1. Target(path) = tree[at].to \o Rest(path, First(path))
      BY DEF Target, Rest
    <3>2. Seq(Nat) \subseteq Paths
      BY DEF Paths
    <3>3. \A a, b \in Paths : a \o b \in Paths
      BY DEF Paths
    <3> HIDE DEF at
    <3> QED BY <2>2, <2>3, <3>1, <3>2, <3>3
  <2>5. links # 0 => links - 1 \in 0..MaxLinks
    BY ContentAssumption
  <2>6. Follow[links][path] =
          IF Kind(at) = "none" THEN [err |-> "missing", path |-> path]
          ELSE IF Kind(at) # "link"
            THEN [err |-> IF First(path) = Len(path) THEN "no" ELSE "notdir", path |-> path]
          ELSE IF links = 0 THEN [err |-> "loop", path |-> path]
          ELSE Follow[links - 1][Target(path)]
    BY <1>1, <1>3 DEF Hop
  <2> HIDE DEF at
  <2> QED BY <1>3, <2>2, <2>4, <2>5, <2>6 DEF at
<1> QED BY <1>2, <1>3

-----------------------------------------------------------------------------
(* What following leads to, and what changes with more links to follow *)

(* A path that leads through directories to something that is no link.     *)
Canonical(q) ==
  /\ AllDirs(q, Len(q) - 1)
  /\ Len(q) > 0 => Kind(q) \notin {"none", "link"}

Result == [err: {"no", "missing", "loop", "notdir"}, path: Paths]

Found(r) == r \in Result /\ (r.err = "no" => Canonical(r.path))

LEMMA DirsAreCanonical ==
  ASSUME NEW q \in Paths, AllDirs(q, Len(q))
  PROVE  Canonical(q)
<1>1. Len(q) \in Nat /\ Segs(q, Len(q)) = q
  BY PathFacts
<1>2. AllDirs(q, Len(q) - 1)
  BY <1>1 DEF AllDirs
<1>3. ASSUME Len(q) > 0 PROVE Kind(q) = "dir"
  <2>1. Len(q) \in 1..Len(q)
    BY <1>1, <1>3
  <2> QED BY <1>1, <2>1 DEF AllDirs
<1> QED BY <1>2, <1>3 DEF Canonical

LEMMA FollowFinds ==
  ASSUME TreeOK
  PROVE  \A links \in 0..MaxLinks : \A path \in Paths : Found(Follow[links][path])
<1> DEFINE N == {l \in Nat : l \in 0..MaxLinks => \A path \in Paths : Found(Follow[l][path])}
<1>1. ASSUME NEW l \in 0..MaxLinks, NEW path \in Paths,
             l # 0 => \A p \in Paths : Found(Follow[l - 1][p])
      PROVE  Found(Follow[l][path])
  <2> DEFINE r == Follow[l][path]
  <2>1. CASE AllDirs(path, Len(path)) /\ r = [err |-> "no", path |-> path]
    BY <2>1, DirsAreCanonical DEF Found, Result
  <2>2. CASE r = [err |-> "missing", path |-> path] \/ r = [err |-> "loop", path |-> path]
    BY <2>2 DEF Found, Result
  <2>3. CASE /\ ~AllDirs(path, Len(path)) /\ Kind(Segs(path, First(path))) \in {"file", "fifo"}
             /\ r = [err |-> IF First(path) = Len(path) THEN "no" ELSE "notdir", path |-> path]
    <3>1. r \in Result
      BY <2>3 DEF Result
    <3>2. ASSUME First(path) = Len(path) PROVE Canonical(path)
      <4>1. AllDirs(path, Len(path) - 1) /\ Kind(path) \in {"file", "fifo"}
        BY <2>3, <3>2, FirstFacts, PathFacts
      <4> QED BY <4>1 DEF Canonical
    <3>3. r.err = "no" => First(path) = Len(path) /\ r.path = path
      BY <2>3
    <3> QED BY <3>1, <3>2, <3>3 DEF Found
  <2>4. CASE l # 0 /\ Target(path) \in Paths /\ r = Follow[l - 1][Target(path)]
    BY <1>1, <2>4
  <2> HIDE DEF r
  <2> QED BY <2>1, <2>2, <2>3, <2>4, FollowCases DEF r
<1>2. 0 \in N
  BY <1>1
<1>3. ASSUME NEW l \in N PROVE l + 1 \in N
  <2>1. l + 1 \in 0..MaxLinks => l \in 0..MaxLinks /\ (l + 1) - 1 = l /\ l + 1 \in Nat
    BY ContentAssumption
  <2>2. l + 1 \in 0..MaxLinks => \A p \in Paths : Found(Follow[(l + 1) - 1][p])
    BY <1>3, <2>1
  <2> HIDE DEF N
  <2>3. l + 1 \in 0..MaxLinks => \A path \in Paths : Found(Follow[l + 1][path])
    BY <1>1, <2>2
  <2>4. l + 1 \in Nat
    BY <1>3 DEF N
  <2> QED BY <2>3, <2>4 DEF N
<1>4. Nat \subseteq N
  <2> HIDE DEF N
  <2> QED BY <1>2, <1>3, Counting
<1>5. \A links \in 0..MaxLinks : links \in Nat
  BY ContentAssumption
<1> QED BY <1>4, <1>5

(* Nothing happens to a canonical path, nor to what it starts with. *)
LEMMA CanonicalStays ==
  ASSUME TreeOK, NEW links \in 0..MaxLinks, NEW q \in Paths, Canonical(q)
  PROVE  Follow[links][q] = [err |-> "no", path |-> q]
<1>1. Len(q) \in Nat /\ Segs(q, Len(q)) = q
  BY PathFacts
<1>2. CASE AllDirs(q, Len(q))
  BY <1>2, FollowCases
<1>3. CASE ~AllDirs(q, Len(q))
  <2>1. Len(q) > 0
    BY <1>1, <1>3 DEF AllDirs
  <2>2. Kind(q) # "dir"
    <3>1. SUFFICES ASSUME Kind(q) = "dir", NEW k \in 1..Len(q) PROVE Kind(Segs(q, k)) = "dir"
      BY <1>3 DEF AllDirs
    <3>2. k \in 1..Len(q) - 1 \/ k = Len(q)
      BY <1>1
    <3> QED BY <1>1, <3>1, <3>2 DEF Canonical, AllDirs
  <2>3. Len(q) \in 1..Len(q)
    BY <1>1, <2>1
  <2>4. First(q) = Len(q)
    BY <1>1, <2>2, <2>3, FirstIs DEF Canonical
  <2>5. Kind(Segs(q, First(q))) \notin {"none", "link"}
    BY <1>1, <2>1, <2>4 DEF Canonical
  <2> QED BY <1>3, <2>4, <2>5, FollowCases
<1> QED BY <1>2, <1>3

LEMMA PartIsCanonical ==
  ASSUME NEW q \in Paths, Canonical(q), NEW n \in 0..Len(q)
  PROVE  Canonical(Segs(q, n))
<1>1. /\ Len(q) \in Nat /\ Len(Segs(q, n)) = n
      /\ \A m \in 0..n : Segs(Segs(q, n), m) = Segs(q, m)
      /\ Segs(q, Len(q)) = q
  BY PathFacts
<1>2. CASE n = Len(q)
  BY <1>1, <1>2
<1>3. CASE n < Len(q)
  <2>1. \A m \in 1..n : m \in 1..Len(q) - 1 /\ m \in 0..n
    BY <1>1, <1>3
  <2>2. \A m \in 1..n : Kind(Segs(q, m)) = "dir"
    BY <2>1 DEF Canonical, AllDirs
  <2>3. AllDirs(Segs(q, n), n)
    BY <1>1, <2>1, <2>2 DEF AllDirs
  <2>4. Segs(q, n) \in Paths
    BY PathFacts
  <2> QED BY <1>1, <2>3, <2>4, DirsAreCanonical
<1> QED BY <1>1, <1>2, <1>3

(* Only a path with too many links does better when more may be followed. *)
LEMMA OneMoreLink ==
  ASSUME TreeOK
  PROVE  \A l \in Nat : l + 1 <= MaxLinks =>
           \A path \in Paths : Follow[l][path].err # "loop" => Follow[l + 1][path] = Follow[l][path]
<1> DEFINE Same(l, path) == Follow[l][path].err # "loop" => Follow[l + 1][path] = Follow[l][path]
           N == {l \in Nat : l + 1 <= MaxLinks => \A path \in Paths : Same(l, path)}
<1>1. ASSUME NEW l \in Nat, l + 1 <= MaxLinks, NEW path \in Paths,
             l # 0 => \A p \in Paths : Same(l - 1, p)
      PROVE  Same(l, path)
  <2>1. l \in 0..MaxLinks /\ l + 1 \in 0..MaxLinks /\ l + 1 # 0 /\ (l + 1) - 1 = l
        /\ (l # 0 => (l - 1) + 1 = l)
    BY <1>1, ContentAssumption
  <2> DEFINE kind == Kind(Segs(path, First(path)))
             r == Follow[l][path]
             s == Follow[l + 1][path]
  <2>2. CASE AllDirs(path, Len(path)) \/ kind # "link"
    BY <2>1, <2>2, FollowCases
  <2>3. CASE ~AllDirs(path, Len(path)) /\ kind = "link" /\ l = 0
    <3>1. r = [err |-> "loop", path |-> path]
      BY <2>1, <2>3, FollowCases
    <3> QED BY <3>1
  <2>4. CASE ~AllDirs(path, Len(path)) /\ kind = "link" /\ l # 0
    <3>1. r = Follow[l - 1][Target(path)] /\ Target(path) \in Paths
      BY <2>1, <2>4, FollowCases
    <3>2. s = Follow[l][Target(path)]
      BY <2>1, <2>4, FollowCases
    <3>3. Follow[l - 1][Target(path)].err # "loop" =>
            Follow[l][Target(path)] = Follow[l - 1][Target(path)]
      BY <1>1, <2>1, <2>4, <3>1
    <3> QED BY <3>1, <3>2, <3>3
  <2> QED BY <2>2, <2>3, <2>4
<1>2. 0 \in N
  BY <1>1
<1>3. ASSUME NEW l \in N PROVE l + 1 \in N
  <2>1. l \in Nat /\ l + 1 \in Nat /\ (l + 1) - 1 = l
        /\ ((l + 1) + 1 <= MaxLinks => l + 1 <= MaxLinks)
    BY ContentAssumption
  <2>2. (l + 1) + 1 <= MaxLinks => \A p \in Paths : Same((l + 1) - 1, p)
    BY <1>3, <2>1
  <2> HIDE DEF Same
  <2>3. (l + 1) + 1 <= MaxLinks => \A path \in Paths : Same(l + 1, path)
    BY <1>1, <2>1, <2>2
  <2> QED BY <2>1, <2>3
<1>4. Nat \subseteq N
  <2> HIDE DEF N
  <2> QED BY <1>2, <1>3, Counting
<1> QED BY <1>4

LEMMA MissingStays ==
  ASSUME TreeOK, NEW links \in 0..MaxLinks, NEW path \in Paths,
         Follow[links][path].err = "missing"
  PROVE  EvalSymlinks(path).err = "missing"
<1> DEFINE N == {k \in Nat : links + k <= MaxLinks => Follow[links + k][path].err = "missing"}
<1>1. 0 \in N
  <2>1. links + 0 = links
    BY ContentAssumption
  <2> QED BY <2>1
<1>2. ASSUME NEW k \in N PROVE k + 1 \in N
  <2>1. k \in Nat /\ links + k \in Nat /\ (links + k) + 1 = links + (k + 1)
        /\ (links + (k + 1) <= MaxLinks => links + k <= MaxLinks)
    BY ContentAssumption
  <2>2. links + (k + 1) <= MaxLinks => Follow[links + k][path].err = "missing"
    BY <2>1
  <2>3. links + (k + 1) <= MaxLinks => Follow[links + (k + 1)][path] = Follow[links + k][path]
    BY <2>1, <2>2, OneMoreLink
  <2> QED BY <2>1, <2>2, <2>3
<1>3. Nat \subseteq N
  <2> HIDE DEF N
  <2> QED BY <1>1, <1>2, Counting
<1>4. MaxLinks - links \in Nat /\ links + (MaxLinks - links) = MaxLinks
  BY ContentAssumption
<1>5. Follow[links + (MaxLinks - links)][path].err = "missing"
  BY <1>3, <1>4
<1> QED BY <1>4, <1>5 DEF EvalSymlinks

(* What is missing behind a path is missing behind the path it leads to. *)
LEMMA MissingBehind ==
  ASSUME TreeOK, NEW t \in Paths
  PROVE  \A links \in 0..MaxLinks : \A path \in Paths :
           /\ Follow[links][path].err = "no" /\ Follow[links][path \o t].err = "missing"
           => EvalSymlinks(Follow[links][path].path \o t).err = "missing"
<1> DEFINE Behind(l, path) ==
             /\ Follow[l][path].err = "no" /\ Follow[l][path \o t].err = "missing"
             => EvalSymlinks(Follow[l][path].path \o t).err = "missing"
           N == {l \in Nat : l \in 0..MaxLinks => \A path \in Paths : Behind(l, path)}
<1>1. ASSUME NEW l \in 0..MaxLinks, NEW path \in Paths,
             l # 0 => \A p \in Paths : Behind(l - 1, p)
      PROVE  Behind(l, path)
  <2> SUFFICES ASSUME Follow[l][path].err = "no", Follow[l][path \o t].err = "missing"
               PROVE  EvalSymlinks(Follow[l][path].path \o t).err = "missing"
    OBVIOUS
  <2>1. path \o t \in Paths /\ Len(path \o t) = Len(path) + Len(t)
        /\ Len(path) \in Nat /\ Len(t) \in Nat
    BY PathFacts
  <2>2. CASE Follow[l][path].path = path
    BY <2>1, <2>2, MissingStays
  <2>3. CASE Follow[l][path].path # path
    <3> DEFINE n == First(path)
    <3>1. /\ ~AllDirs(path, Len(path)) /\ Kind(Segs(path, n)) = "link" /\ l # 0
          /\ Target(path) \in Paths /\ Follow[l][path] = Follow[l - 1][Target(path)]
      <4>1. \A e : Follow[l][path] # [err |-> e, path |-> path]
        BY <2>3
      <4> QED BY <4>1, FollowCases
    <3>2. n \in 1..Len(path) /\ AllDirs(path, n - 1)
      BY <3>1, FirstFacts
    <3>3. \A k \in 0..Len(path) : Segs(path \o t, k) = Segs(path, k)
      BY PathFacts
    <3>4. n \in 1..Len(path \o t) /\ AllDirs(path \o t, n - 1)
          /\ Kind(Segs(path \o t, n)) = "link"
      <4>1. n \in 0..Len(path) /\ \A k \in 1..n - 1 : k \in 0..Len(path)
        BY <2>1, <3>2
      <4> HIDE DEF n
      <4> QED BY <2>1, <3>1, <3>2, <3>3, <4>1 DEF AllDirs
    <3>5. First(path \o t) = n /\ ~AllDirs(path \o t, Len(path \o t))
      BY <2>1, <3>4, FirstIs
    <3>6. Follow[l][path \o t] = Follow[l - 1][Target(path \o t)]
      BY <2>1, <3>1, <3>4, <3>5, FollowCases
    <3>7. Target(path \o t) = Target(path) \o t
      <4>1. n \in 0..Len(path)
        BY <3>2
      <4>2. Rest(path \o t, n) = Rest(path, n) \o t /\ Rest(path, n) \in Paths
        BY <4>1, PathFacts
      <4> DEFINE to == tree[Segs(path, n)].to
                 rest == Rest(path, n)
      <4>3. to \in Seq(Nat)
        BY <3>1 DEF Kind, TreeOK, Inode
      <4>4. Target(path) = to \o rest
        BY DEF Target, Rest
      <4>5. Target(path \o t) = to \o Rest(path \o t, n)
        BY <3>3, <3>5, <4>1 DEF Target, Rest
      <4>6. rest \in Paths
        BY <4>2
      <4> HIDE DEF to, rest
      <4>7. to \in Paths
        BY <4>3 DEF Paths
      <4>8. to \o (rest \o t) = (to \o rest) \o t
        BY <4>6, <4>7 DEF Paths
      <4>9. Target(path \o t) = to \o (rest \o t)
        BY <4>2, <4>5 DEF rest
      <4> QED BY <4>4, <4>8, <4>9
    <3>8. Behind(l - 1, Target(path))
      BY <1>1, <3>1
    <3> QED BY <3>1, <3>6, <3>7, <3>8
  <2> QED BY <2>2, <2>3
<1>2. 0 \in N
  BY <1>1
<1>3. ASSUME NEW l \in N PROVE l + 1 \in N
  <2>1. l \in Nat /\ l + 1 \in Nat /\ (l + 1) - 1 = l
        /\ (l + 1 \in 0..MaxLinks => l \in 0..MaxLinks)
    BY ContentAssumption
  <2>2. l + 1 \in 0..MaxLinks => \A p \in Paths : Behind((l + 1) - 1, p)
    BY <1>3, <2>1
  <2> HIDE DEF Behind
  <2>3. l + 1 \in 0..MaxLinks => \A path \in Paths : Behind(l + 1, path)
    BY <1>1, <2>2
  <2> QED BY <2>1, <2>3
<1>4. Nat \subseteq N
  <2> HIDE DEF N
  <2> QED BY <1>2, <1>3, Counting
<1>5. \A links \in 0..MaxLinks : links \in Nat
  BY ContentAssumption
<1> QED BY <1>4, <1>5

-----------------------------------------------------------------------------
(* Resolve *)

Deepest(path, n) ==
  /\ n \in 0..Len(path)
  /\ EvalSymlinks(Segs(path, n)).err # "missing"
  /\ \A k \in n+1..Len(path) : EvalSymlinks(Segs(path, k)).err = "missing"

LEMMA EvalFinds ==
  ASSUME TreeOK, NEW path \in Paths
  PROVE  /\ Found(EvalSymlinks(path))
         /\ Canonical(path) => EvalSymlinks(path) = [err |-> "no", path |-> path]
<1>1. MaxLinks \in 0..MaxLinks
  BY ContentAssumption
<1> QED BY <1>1, FollowFinds, CanonicalStays DEF EvalSymlinks

LEMMA DeepestExists ==
  ASSUME TreeOK, NEW path \in Paths
  PROVE  \E n : Deepest(path, n)
<1> DEFINE T == {k \in 0..Len(path) : EvalSymlinks(Segs(path, Len(path) - k)).err # "missing"}
<1>1. Len(path) \in Nat
  BY PathFacts
<1>2. Len(path) \in T
  <2>1. Len(path) - Len(path) = 0 /\ Len(path) \in 0..Len(path)
    BY <1>1
  <2>2. Segs(path, 0) \in Paths /\ Len(Segs(path, 0)) = 0
    BY <1>1, PathFacts
  <2>3. Canonical(Segs(path, 0))
    BY <2>2 DEF Canonical, AllDirs
  <2>4. EvalSymlinks(Segs(path, 0)).err = "no"
    BY <2>2, <2>3, EvalFinds
  <2> QED BY <2>1, <2>4
<1>3. T \subseteq Nat /\ T # {}
  BY <1>1, <1>2
<1>4. PICK m \in T : \A k \in T : m <= k
  <2> HIDE DEF T
  <2> QED BY <1>3, LeastNatural
<1> DEFINE n == Len(path) - m
<1>5. n \in 0..Len(path) /\ m \in 0..Len(path)
  BY <1>1
<1>6. \A k \in n + 1..Len(path) : EvalSymlinks(Segs(path, k)).err = "missing"
  <2> SUFFICES ASSUME NEW k \in n + 1..Len(path)
               PROVE  EvalSymlinks(Segs(path, k)).err = "missing"
    OBVIOUS
  <2>1. Len(path) - k \in 0..Len(path) /\ ~(m <= Len(path) - k) /\ Len(path) - (Len(path) - k) = k
    BY <1>1, <1>5
  <2> QED BY <1>4, <2>1
<1>7. Deepest(path, n)
  BY <1>4, <1>5, <1>6 DEF Deepest
<1> QED BY <1>7

LEMMA OtherPath ==
  ASSUME NEW e, NEW p, NEW q
  PROVE  [[err |-> e, path |-> p] EXCEPT !.path = q] = [err |-> e, path |-> q]
OBVIOUS

LEMMA Extended ==
  ASSUME NEW r \in Result, NEW t
  PROVE  [r EXCEPT !.path = @ \o t] = [err |-> r.err, path |-> r.path \o t]
<1>1. PICK e \in {"no", "missing", "loop", "notdir"}, p \in Paths : r = [err |-> e, path |-> p]
  BY DEF Result
<1>2. r.err = e /\ r.path = p
  BY <1>1
<1> DEFINE q == p \o t
<1>3. [r EXCEPT !.path = @ \o t] = [r EXCEPT !.path = q]
  BY <1>2
<1> HIDE DEF q
<1>4. [r EXCEPT !.path = q] = [err |-> e, path |-> q]
  BY <1>1, OtherPath
<1> QED BY <1>2, <1>3, <1>4 DEF q

LEMMA AncestorIs ==
  ASSUME TreeOK, NEW path \in Paths, NEW n, Deepest(path, n)
  PROVE  LET real == EvalSymlinks(Segs(path, n))
         IN  resolveExistingAncestor(path) = [err |-> real.err, path |-> real.path \o Rest(path, n)]
<1>1. Len(path) \in Nat
  BY PathFacts
<1>2. ASSUME NEW m, Deepest(path, m) PROVE m = n
  <2>1. m \in 0..Len(path) /\ n \in 0..Len(path)
    BY <1>2 DEF Deepest
  <2>2. ~(m < n)
    <3> SUFFICES ASSUME m < n PROVE FALSE
      OBVIOUS
    <3>1. n \in m + 1..Len(path)
      BY <1>1, <2>1
    <3> QED BY <1>2, <3>1 DEF Deepest
  <2>3. ~(n < m)
    <3> SUFFICES ASSUME n < m PROVE FALSE
      OBVIOUS
    <3>1. m \in n + 1..Len(path)
      BY <1>1, <2>1
    <3> QED BY <1>2, <3>1 DEF Deepest
  <2> QED BY <1>1, <2>1, <2>2, <2>3
<1> DEFINE c == CHOOSE m \in 0..Len(path) :
                  /\ EvalSymlinks(Segs(path, m)).err # "missing"
                  /\ \A k \in m+1..Len(path) : EvalSymlinks(Segs(path, k)).err = "missing"
<1>3. Deepest(path, c)
  BY DEF Deepest
<1>4. c = n
  <2> HIDE DEF c
  <2> QED BY <1>2, <1>3
<1>5. resolveExistingAncestor(path) =
        [EvalSymlinks(Segs(path, c)) EXCEPT !.path = @ \o SubSeq(path, c + 1, Len(path))]
  BY DEF resolveExistingAncestor
<1> HIDE DEF c
<1>6. EvalSymlinks(Segs(path, n)) \in Result
  <2>1. Segs(path, n) \in Paths
    BY PathFacts DEF Deepest
  <2> QED BY <2>1, EvalFinds DEF Found
<1> DEFINE real == EvalSymlinks(Segs(path, n))
           rest == SubSeq(path, n + 1, Len(path))
<1>7. resolveExistingAncestor(path) = [real EXCEPT !.path = @ \o rest]
  BY <1>4, <1>5
<1>8. real \in Result
  BY <1>6
<1>9. rest = Rest(path, n)
  BY DEF Rest
<1> HIDE DEF real, rest
<1>10. [real EXCEPT !.path = @ \o rest] = [err |-> real.err, path |-> real.path \o rest]
  BY <1>8, Extended
<1> QED BY <1>7, <1>9, <1>10 DEF real

LEMMA InTwo ==
  ASSUME NEW p \in Paths, NEW n \in 0..Len(p)
  PROVE  Len(Rest(p, n)) = Len(p) - n /\ p = Segs(p, n) \o Rest(p, n)
<1>1. Len(p) \in Nat /\ Segs(p, n) \in Paths /\ Len(Segs(p, n)) = n /\ Rest(p, n) \in Paths
  BY PathFacts
<1>2. /\ Len(Rest(p, n)) = Len(p) - n
      /\ \A k \in 1..Len(p) - n : Rest(p, n)[k] = p[k + n]
      /\ \A k \in 1..n : Segs(p, n)[k] = p[k]
  BY <1>1 DEF Rest, Segs, Paths
<1> DEFINE a == Segs(p, n)
           b == Rest(p, n)
<1> HIDE DEF a, b
<1>3. /\ a \in Paths /\ b \in Paths /\ Len(a) = n /\ Len(b) = Len(p) - n
      /\ \A k \in 1..n : a[k] = p[k]
      /\ \A k \in 1..Len(p) - n : b[k] = p[k + n]
  BY <1>1, <1>2 DEF a, b
<1>4. a \o b \in Paths /\ Len(a \o b) = Len(p)
  <2>1. a \o b \in Paths /\ Len(a \o b) = Len(a) + Len(b)
    BY <1>3, PathFacts
  <2> QED BY <1>1, <1>3, <2>1
<1>5. ASSUME NEW k \in 1..Len(p) PROVE (a \o b)[k] = p[k]
  <2>1. CASE k <= n
    BY <1>1, <1>3, <2>1 DEF Paths
  <2>2. CASE n < k
    <3>1. k - n \in 1..Len(p) - n /\ (k - n) + n = k /\ k \in 1..Len(a) + Len(b) /\ ~(k <= Len(a))
      BY <1>1, <1>3, <2>2
    <3>2. a \in Seq(Nat \cup {Up}) /\ b \in Seq(Nat \cup {Up})
      BY <1>3 DEF Paths
    <3>3. (a \o b)[k] = b[k - n]
      BY <1>3, <3>1, <3>2, ConcatProperties
    <3>4. b[k - n] = p[(k - n) + n]
      BY <1>3, <3>1
    <3> QED BY <3>1, <3>3, <3>4
  <2>3. k <= n \/ n < k
    <3>1. n \in Nat /\ k \in Nat
      BY <1>1
    <3> QED BY <3>1
  <2> QED BY <2>1, <2>2, <2>3
<1>6. a \o b = p
  BY <1>4, <1>5, SeqEqual DEF Paths
<1> QED BY <1>2, <1>6 DEF a, b

LEMMA PartOfTwo ==
  ASSUME NEW p \in Paths, NEW t \in Paths, NEW j \in 0..Len(t)
  PROVE  Segs(p \o t, Len(p) + j) = p \o Segs(t, j)
BY DEF Paths, Segs

LEMMA UnderRoot ==
  ASSUME NEW p \in Paths, Under(p), NEW n \in Len(Root)..Len(p)
  PROVE  Under(Segs(p, n))
<1>1. Root \in Seq(Nat) /\ p \in Seq(Nat \cup {Up})
  BY ContentAssumption DEF Paths
<1>2. Root = SubSeq(p, 1, Len(Root)) /\ Len(Root) <= Len(p)
  BY <1>1 DEF Under, IsPrefix
<1>3. SubSeq(SubSeq(p, 1, n), 1, Len(Root)) = SubSeq(p, 1, Len(Root)) /\ Len(SubSeq(p, 1, n)) = n
  <2>1. Len(Root) \in 0..n /\ n \in 0..Len(p)
    BY <1>1
  <2> QED BY <2>1, PathFacts DEF Segs
<1>4. Len(Root) <= n
  BY <1>1
<1> QED BY <1>2, <1>3, <1>4 DEF Under, IsPrefix, Segs

(* Of a path that Resolve gives, what exists lies under the root.          *)
LEMMA PartsInside ==
  ASSUME TreeOK, NEW path \in Paths, NEW n, Deepest(path, n),
         EvalSymlinks(Segs(path, n)).err = "no",
         NEW got, got = EvalSymlinks(Segs(path, n)).path \o Rest(path, n), Under(got),
         NEW k \in Len(Root)..Len(got), EvalSymlinks(Segs(got, k)).err = "no"
  PROVE  Under(EvalSymlinks(Segs(got, k)).path)
<1> DEFINE p == Segs(path, n)
           r == EvalSymlinks(p).path
           t == Rest(path, n)
<1>1. /\ Len(path) \in Nat /\ n \in 0..Len(path) /\ p \in Paths /\ t \in Paths /\ Len(p) = n
      /\ Len(t) = Len(path) - n /\ path = p \o t
  <2>1. Len(path) \in Nat /\ n \in 0..Len(path)
    BY PathFacts DEF Deepest
  <2>2. p \in Paths /\ t \in Paths /\ Len(p) = n
    BY <2>1, PathFacts
  <2>3. Len(t) = Len(path) - n /\ path = p \o t
    BY <2>1, InTwo
  <2> QED BY <2>1, <2>2, <2>3
<1>2. r \in Paths /\ Canonical(r)
  BY <1>1, EvalFinds DEF Found, Result
<1>3. got = r \o t /\ EvalSymlinks(p).err = "no"
  OBVIOUS
<1>4. k \in Nat /\ Len(Root) \in Nat /\ Len(Root) <= k /\ k <= Len(got)
  <2>1. Len(Root) \in Nat
    BY ContentAssumption
  <2>2. Len(got) \in Nat
    BY <1>1, <1>2, <1>3, PathFacts
  <2> QED BY <2>1, <2>2
<1>5. \A j \in n + 1..Len(path) : EvalSymlinks(Segs(path, j)).err = "missing"
  BY DEF Deepest
<1> HIDE DEF p, r, t
<1>6. Len(got) = Len(r) + Len(t) /\ Len(r) \in Nat /\ Len(t) \in Nat /\ got \in Paths
  <2>1. r \o t \in Paths /\ Len(r \o t) = Len(r) + Len(t) /\ Len(r) \in Nat /\ Len(t) \in Nat
    BY <1>1, <1>2, PathFacts
  <2> QED BY <1>3, <2>1
<1>7. CASE k <= Len(r)
  <2>1. k \in 0..Len(r)
    BY <1>4, <1>6, <1>7
  <2>2. Segs(got, k) = Segs(r, k) /\ Segs(r, k) \in Paths
    <3>1. Segs(r \o t, k) = Segs(r, k) /\ Segs(r, k) \in Paths
      BY <1>1, <1>2, <2>1, PathFacts
    <3> QED BY <1>3, <3>1
  <2>3. Canonical(Segs(r, k))
    BY <1>2, <2>1, PartIsCanonical
  <2>4. EvalSymlinks(Segs(got, k)).path = Segs(got, k)
    BY <2>2, <2>3, EvalFinds
  <2> QED BY <1>6, <2>4, UnderRoot
<1>8. CASE Len(r) < k
  <2> DEFINE j == k - Len(r)
             u == Segs(t, j)
  <2>1. j \in 1..Len(t) /\ k = Len(r) + j /\ j \in 0..Len(t)
    BY <1>4, <1>6, <1>8
  <2> HIDE DEF j
  <2>2. u \in Paths
    BY <1>1, <2>1, PathFacts
  <2>3. Segs(got, k) = r \o u
    <3>1. Segs(r \o t, Len(r) + j) = r \o Segs(t, j)
      BY <1>1, <1>2, <2>1, PartOfTwo
    <3> QED BY <1>3, <2>1, <3>1
  <2>4. Segs(path, n + j) = p \o u
    BY <1>1, <2>1, PartOfTwo
  <2>5. n + j \in n + 1..Len(path)
    BY <1>1, <2>1
  <2> HIDE DEF u
  <2>6. EvalSymlinks(p \o u).err = "missing"
    BY <1>5, <2>4, <2>5
  <2>7. MaxLinks \in 0..MaxLinks
    BY ContentAssumption
  <2>8. EvalSymlinks(EvalSymlinks(p).path \o u).err = "missing"
    BY <1>1, <1>3, <2>2, <2>6, <2>7, MissingBehind DEF EvalSymlinks
  <2> QED BY <2>3, <2>8 DEF r
<1> QED BY <1>4, <1>6, <1>7, <1>8

LEMMA ResolveIsInside ==
  ASSUME TreeOK
  PROVE  ResolvedInside
<1> SUFFICES ASSUME NEW rel \in Proper
             PROVE  LET meant == EvalSymlinks(Root \o rel.segs)
                        got == Resolve(rel)
                        real == EvalSymlinks(got.path)
                    IN /\ meant.err = "no" /\ Under(meant.path) => got.err = "no" /\ real = meant
                       /\ got.err = "no" =>
                            \A n \in Len(Root)..Len(got.path) :
                              LET part == EvalSymlinks(Segs(got.path, n)) IN
                              part.err = "no" => Under(part.path)
  BY DEF ResolvedInside
<1> DEFINE path == Root \o rel.segs
           found == resolveExistingAncestor(path)
           got == Resolve(rel)
<1>1. path \in Paths
  <2>1. Root \in Paths
    BY ContentAssumption DEF Paths
  <2>2. rel.segs \in Paths
    BY ContentAssumption DEF Proper
  <2> QED BY <2>1, <2>2, PathFacts
<1>2. got = IF found.err = "no" /\ ~Under(found.path) THEN [found EXCEPT !.err = "escapes"]
            ELSE found
  BY DEF Resolve, Proper
<1> HIDE DEF path, got
<1>3. PICK n : Deepest(path, n)
  BY <1>1, DeepestExists
<1> DEFINE real == EvalSymlinks(Segs(path, n))
<1>4. found = [err |-> real.err, path |-> real.path \o Rest(path, n)]
  BY <1>1, <1>3, AncestorIs
<1>5. Len(path) \in Nat /\ Segs(path, Len(path)) = path
  BY <1>1, PathFacts
<1>6. got.err = "no" => got = found /\ real.err = "no" /\ Under(got.path)
  <2> HIDE DEF found, real
  <2> QED BY <1>2, <1>4
<1>7. ASSUME EvalSymlinks(path).err = "no", Under(EvalSymlinks(path).path)
      PROVE  got.err = "no" /\ EvalSymlinks(got.path) = EvalSymlinks(path)
  <2>1. n = Len(path)
    <3>1. n \in 0..Len(path)
      BY <1>3 DEF Deepest
    <3>2. ~(Len(path) \in n + 1..Len(path))
      BY <1>3, <1>5, <1>7 DEF Deepest
    <3> QED BY <1>5, <3>1, <3>2
  <2>2. real = EvalSymlinks(path)
    BY <1>5, <2>1
  <2>3. real.path \in Paths /\ Canonical(real.path) /\ real \in Result
    BY <1>1, <1>7, <2>2, EvalFinds DEF Found, Result
  <2>4. real.path \o Rest(path, n) = real.path
    <3>1. Rest(path, n) = <<>>
      BY <1>1, <1>5, <2>1 DEF Rest, Paths
    <3> HIDE DEF real
    <3> QED BY <2>3, <3>1 DEF Paths
  <2>5. real = [err |-> "no", path |-> real.path]
    BY <1>7, <2>2, <2>3 DEF Result
  <2> HIDE DEF real, found
  <2>6. found.err = "no" /\ found.path = real.path
    BY <1>4, <2>4, <2>5
  <2>7. got = found
    BY <1>2, <1>7, <2>2, <2>6
  <2>8. EvalSymlinks(real.path) = real
    BY <2>3, <2>5, EvalFinds
  <2> QED BY <2>2, <2>6, <2>7, <2>8
<1>8. ASSUME got.err = "no", NEW k \in Len(Root)..Len(got.path),
             EvalSymlinks(Segs(got.path, k)).err = "no"
      PROVE  Under(EvalSymlinks(Segs(got.path, k)).path)
  <2>1. got.path = real.path \o Rest(path, n) /\ real.err = "no" /\ Under(got.path)
    BY <1>4, <1>6, <1>8
  <2> QED BY <1>1, <1>3, <1>8, <2>1, PartsInside
<1> QED BY <1>7, <1>8 DEF path, got

-----------------------------------------------------------------------------
(* Resolve and the path it is asked for *)

(* A path that exists is its own deepest ancestor, and resolves to where   *)
(* its links lead.                                                         *)
LEMMA ExistingResolves ==
  ASSUME TreeOK, NEW path \in Paths, EvalSymlinks(path).err = "no"
  PROVE  /\ resolveExistingAncestor(path) = EvalSymlinks(path)
         /\ EvalSymlinks(EvalSymlinks(path).path) = EvalSymlinks(path)
<1> DEFINE real == EvalSymlinks(path)
<1>1. Len(path) \in Nat /\ Segs(path, Len(path)) = path
  BY PathFacts
<1>2. Deepest(path, Len(path))
  <2>1. Len(path) \in 0..Len(path) /\ \A k \in Len(path)+1..Len(path) : FALSE
    BY <1>1
  <2> QED BY <1>1, <2>1 DEF Deepest
<1>3. resolveExistingAncestor(path) = [err |-> real.err, path |-> real.path \o Rest(path, Len(path))]
  BY <1>1, <1>2, AncestorIs
<1>4. Rest(path, Len(path)) = <<>>
  BY <1>1 DEF Rest, Paths
<1>5. real \in Result /\ Canonical(real.path) /\ real.path \in Paths
  BY EvalFinds DEF Found, Result
<1>6. real = [err |-> "no", path |-> real.path]
  BY <1>5 DEF Result
<1>7. EvalSymlinks(real.path) = [err |-> "no", path |-> real.path]
  BY <1>5, EvalFinds
<1> HIDE DEF real
<1>8. real.path \o <<>> = real.path
  BY <1>5 DEF Paths
<1>9. resolveExistingAncestor(path) = [err |-> real.err, path |-> real.path]
  BY <1>3, <1>4, <1>8
<1>10. real.err = "no"
  BY <1>6
<1> QED BY <1>6, <1>7, <1>9, <1>10 DEF real

(* What is put back behind the deepest ancestor is missing.                *)
LEMMA ResolvedExists ==
  ASSUME TreeOK, NEW path \in Paths,
         resolveExistingAncestor(path).err = "no",
         EvalSymlinks(resolveExistingAncestor(path).path).err = "no"
  PROVE  EvalSymlinks(path).err = "no"
<1>1. PICK n : Deepest(path, n)
  BY DeepestExists
<1> DEFINE p == Segs(path, n)
           t == Rest(path, n)
           real == EvalSymlinks(p)
<1>2. resolveExistingAncestor(path) = [err |-> real.err, path |-> real.path \o t]
  BY <1>1, AncestorIs
<1>3. Len(path) \in Nat /\ Segs(path, Len(path)) = path /\ n \in 0..Len(path)
  BY <1>1, PathFacts DEF Deepest
<1>4. p \in Paths /\ t \in Paths /\ path = p \o t
  BY <1>3, PathFacts, InTwo
<1>5. \A k \in n+1..Len(path) : EvalSymlinks(Segs(path, k)).err = "missing"
  BY <1>1 DEF Deepest
<1> HIDE DEF p, t
<1>6. real.err = "no" /\ EvalSymlinks(real.path \o t).err = "no"
  BY <1>2
<1>7. CASE n = Len(path)
  BY <1>3, <1>6, <1>7 DEF p
<1>8. CASE n < Len(path)
  <2>1. Len(path) \in n + 1..Len(path)
    BY <1>3, <1>8
  <2>2. EvalSymlinks(p \o t).err = "missing"
    BY <1>3, <1>4, <1>5, <2>1
  <2>3. MaxLinks \in 0..MaxLinks
    BY ContentAssumption
  <2>4. EvalSymlinks(real.path \o t).err = "missing"
    BY <1>4, <1>6, <2>2, <2>3, MissingBehind DEF EvalSymlinks
  <2> QED BY <1>6, <2>4
<1> QED BY <1>3, <1>7, <1>8

(* The segments a path under the root has below it. *)
Below(p) == SubSeq(p, Len(Root) + 1, Len(p))

LEMMA BelowRoot ==
  ASSUME NEW p \in Seq(Nat), Under(p)
  PROVE  /\ Root \o Below(p) = p /\ Below(p) \in Paths
         /\ Up \notin ToSet(Below(p))
         /\ Len(Root) \in Nat /\ Len(p) \in Nat /\ Len(Root) <= Len(p)
<1>1. Root \in Seq(Nat) /\ Len(Root) \in Nat /\ Len(p) \in Nat /\ p \in Paths
  BY ContentAssumption DEF Paths
<1>2. Len(Root) <= Len(p) /\ Root = SubSeq(p, 1, Len(Root))
  BY <1>1 DEF Under, IsPrefix
<1>3. Len(Root) \in 0..Len(p)
  BY <1>1, <1>2
<1>4. p = Segs(p, Len(Root)) \o Rest(p, Len(Root))
  BY <1>1, <1>3, InTwo
<1>5. Below(p) \in Seq(Nat)
  BY <1>1, <1>3 DEF Below
<1>6. Up \notin ToSet(Below(p))
  BY <1>5, ContentAssumption DEF ToSet
<1>7. Below(p) \in Paths
  BY <1>5 DEF Paths
<1> QED BY <1>1, <1>2, <1>4, <1>6, <1>7 DEF Segs, Rest, Below

LEMMA ResolveBelow ==
  ASSUME TreeOK, NEW p \in Seq(Nat), Under(p)
  PROVE  LET found == resolveExistingAncestor(p)
             got == Resolve([bad |-> FALSE, segs |-> Below(p)])
         IN  /\ found.err = "no" /\ Under(found.path) => got = found
             /\ got.err = "no" => got = found
<1> DEFINE rel == [bad |-> FALSE, segs |-> Below(p)]
           found == resolveExistingAncestor(p)
<1>1. rel.segs = Below(p) /\ ~rel.bad
  OBVIOUS
<1>2. Root \o rel.segs = p /\ Up \notin ToSet(rel.segs)
  BY <1>1, BelowRoot
<1> HIDE DEF rel
<1>3. Resolve(rel) = IF found.err = "no" /\ ~Under(found.path) THEN [found EXCEPT !.err = "escapes"]
                     ELSE found
  BY <1>1, <1>2 DEF Resolve
<1>4. p \in Paths
  BY DEF Paths
<1>5. PICK n : Deepest(p, n)
  BY <1>4, DeepestExists
<1> DEFINE real == EvalSymlinks(Segs(p, n))
<1>6. found = [err |-> real.err, path |-> real.path \o Rest(p, n)]
  BY <1>4, <1>5, AncestorIs
<1> HIDE DEF found, real
<1>7. [found EXCEPT !.err = "escapes"].err # "no"
  BY <1>6
<1>8. found.err = "no" /\ Under(found.path) => Resolve(rel) = found
  BY <1>3
<1>9. Resolve(rel).err = "no" => Resolve(rel) = found
  BY <1>3, <1>7
<1> QED BY <1>8, <1>9 DEF rel, found

-----------------------------------------------------------------------------
(* Links that stay inside *)

(* What a path leads to is shown by read_file, unless it is outside.       *)
Text(p) ==
  LET real == EvalSymlinks(p) IN
  real.err = "no" /\ Kind(real.path) = "file" /\ tree[real.path].has

LEMMA ReadableIs ==
  ASSUME TreeOK, NEW p \in Seq(Nat), Under(p)
  PROVE  Readable(p) \/ FoundOutside(p) <=> Text(p)
<1> DEFINE found == resolveExistingAncestor(p)
           got == Resolve([bad |-> FALSE, segs |-> Below(p)])
           meant == EvalSymlinks(p)
           real == EvalSymlinks(got.path)
<1>1. p \in Paths
  BY DEF Paths
<1>2. /\ found.err = "no" /\ Under(found.path) => got = found
      /\ got.err = "no" => got = found
  BY ResolveBelow
<1>3. Readable(p) <=> got.err = "no" /\ real.err = "no" /\ Kind(real.path) = "file"
                      /\ tree[real.path].has
  BY DEF Readable, Below
<1>4. meant.err = "no" => found = meant /\ EvalSymlinks(found.path) = meant
  BY <1>1, ExistingResolves
<1>5. found.err = "no" /\ EvalSymlinks(found.path).err = "no" => meant.err = "no"
  BY <1>1, ResolvedExists
<1>6. Text(p) <=> meant.err = "no" /\ Kind(meant.path) = "file" /\ tree[meant.path].has
  BY DEF Text
<1>7. FoundOutside(p) <=> Text(p) /\ ~Under(meant.path)
  BY DEF FoundOutside, Text
<1> HIDE DEF found, got, meant
<1>8. ASSUME got.err = "no", real.err = "no" PROVE meant.err = "no" /\ real = meant
  BY <1>2, <1>4, <1>5, <1>8
<1>9. ASSUME meant.err = "no", Under(meant.path) PROVE got.err = "no" /\ real = meant
  BY <1>2, <1>4, <1>9
<1>10. Readable(p) => Text(p)
  BY <1>3, <1>6, <1>8
<1>11. Text(p) /\ Under(meant.path) => Readable(p)
  BY <1>3, <1>6, <1>9
<1> QED BY <1>7, <1>10, <1>11

-----------------------------------------------------------------------------
(* What one can navigate to *)

(* The root is a directory behind directories, and the tree is finite.     *)
SiteOK ==
  /\ IsFiniteSet(DOMAIN tree)
  /\ AllDirs(Root, Len(Root))

(* What is no directory and is come to from d through visible ones.        *)
Reached(d) ==
  {q \in DOMAIN tree :
     /\ IsPrefix(d, q) /\ Len(d) < Len(q) /\ Kind(q) # "dir"
     /\ \A n \in Len(d)+1..Len(q)-1 : Kind(Segs(q, n)) = "dir" /\ Visible(Segs(q, n))}

LEMMA PrefixIs ==
  ASSUME NEW d \in Paths, NEW q \in Paths
  PROVE  IsPrefix(d, q) <=> Len(d) <= Len(q) /\ Segs(q, Len(d)) = d
BY DEF IsPrefix, Segs, Paths

LEMMA NamesOnly ==
  ASSUME NEW p \in Seq(Nat)
  PROVE  /\ p \in Paths /\ Len(p) \in Nat /\ Len(p) \in 0..Len(p)
         /\ \A n \in 0..Len(p) : Segs(p, n) \in Seq(Nat) /\ Len(Segs(p, n)) = n
<1>1. p \in Paths
  BY DEF Paths
<1>2. Len(p) \in Nat /\ Len(p) \in 0..Len(p)
  OBVIOUS
<1>3. \A n \in 0..Len(p) : Segs(p, n) \in Seq(Nat) /\ Len(Segs(p, n)) = n
  BY DEF Segs
<1> QED BY <1>1, <1>2, <1>3

LEMMA DirsBelow ==
  ASSUME NEW p \in Paths, NEW n \in 0..Len(p), NEW m \in 0..n
  PROVE  AllDirs(Segs(p, n), m) <=> AllDirs(p, m)
<1>1. \A k \in 1..m : k \in 0..n
  OBVIOUS
<1>2. \A k \in 0..n : Segs(Segs(p, n), k) = Segs(p, k)
  BY PathFacts
<1> QED BY <1>1, <1>2 DEF AllDirs

LEMMA DirIsListed ==
  ASSUME TreeOK, NEW d \in Seq(Nat), Under(d), AllDirs(d, Len(d))
  PROVE  ListDir([bad |-> FALSE, segs |-> Below(d)]) =
           [kind |-> "list",
            names |-> {[name |-> Last(q), dir |-> Kind(q) = "dir"] :
                         q \in {q \in Children(d) : Visible(q)}}]
<1> DEFINE rel == [bad |-> FALSE, segs |-> Below(d)]
           r == [err |-> "no", path |-> d]
<1>1. d \in Paths
  BY DEF Paths
<1>2. EvalSymlinks(d) = r
  BY <1>1, DirsAreCanonical, EvalFinds
<1>3. r.err = "no" /\ r.path = d
  OBVIOUS
<1> HIDE DEF r
<1>4. resolveExistingAncestor(d) = r
  BY <1>1, <1>2, <1>3, ExistingResolves
<1>5. Resolve(rel) = r
  BY <1>3, <1>4, ResolveBelow
<1>6. Kind(d) = "dir"
  <2>1. Len(d) \in Nat /\ Segs(d, Len(d)) = d
    BY <1>1, PathFacts
  <2>2. CASE Len(d) = 0
    <3>1. d = <<>>
      BY <2>2
    <3> QED BY <3>1 DEF TreeOK, Kind
  <2>3. CASE Len(d) # 0
    <3>1. Len(d) \in 1..Len(d)
      BY <2>1, <2>3
    <3> QED BY <2>1, <3>1 DEF AllDirs
  <2> QED BY <2>2, <2>3
<1> HIDE DEF rel
<1> QED BY <1>2, <1>3, <1>5, <1>6 DEF ListDir, rel

LEMMA SameEntry ==
  ASSUME NEW p \in Seq(Nat), NEW q \in Seq(Nat), Len(p) > 0, Len(q) = Len(p),
         Segs(q, Len(p) - 1) = Segs(p, Len(p) - 1), Last(q) = Last(p)
  PROVE  q = p
<1>1. Len(p) \in Nat /\ Len(p) - 1 \in 0..Len(p)
  OBVIOUS
<1>2. \A k \in 1..Len(p) - 1 : Segs(q, Len(p) - 1)[k] = q[k] /\ Segs(p, Len(p) - 1)[k] = p[k]
  BY DEF Segs
<1>3. ASSUME NEW k \in 1..Len(p) PROVE q[k] = p[k]
  <2>1. k \in 1..Len(p) - 1 \/ k = Len(p)
    BY <1>1
  <2> QED BY <1>2, <2>1 DEF Last
<1> QED BY <1>3, SeqEqual

LEMMA ListedIs ==
  ASSUME TreeOK, NEW p \in Seq(Nat), Under(p), Len(Root) < Len(p), AllDirs(p, Len(p) - 1),
         NEW dir \in BOOLEAN
  PROVE  Listed(p, dir) <=> p \in DOMAIN tree /\ Visible(p) /\ (Kind(p) = "dir" <=> dir)
<1> DEFINE n == Len(p) - 1
           d == Segs(p, n)
           seen == {q \in Children(d) : Visible(q)}
           names == {[name |-> Last(q), dir |-> Kind(q) = "dir"] : q \in seen}
<1>1. /\ p \in Paths /\ Len(p) \in Nat /\ Len(Root) \in Nat /\ n \in Nat
      /\ n \in 0..Len(p) /\ n \in Len(Root)..Len(p) /\ n \in 0..n
  <2>1. p \in Paths /\ Len(p) \in Nat /\ Len(Root) \in Nat
    BY BelowRoot, NamesOnly
  <2> QED BY <2>1
<1>2. d \in Seq(Nat) /\ d \in Paths /\ Len(d) = n
  <2>1. d \in Seq(Nat) /\ Len(d) = n
    BY <1>1, NamesOnly
  <2> QED BY <2>1, NamesOnly
<1>3. Under(d) /\ AllDirs(d, Len(d))
  <2>1. Under(d)
    BY <1>1, UnderRoot
  <2>2. AllDirs(p, n)
    OBVIOUS
  <2>3. AllDirs(d, n)
    <3> HIDE DEF n
    <3> QED BY <1>1, <2>2, DirsBelow
  <2> QED BY <1>2, <2>1, <2>3
<1>4. ListDir([bad |-> FALSE, segs |-> Below(d)]) = [kind |-> "list", names |-> names]
  <2> HIDE DEF n
  <2>1. d \in Seq(Nat) /\ Under(d) /\ AllDirs(d, Len(d))
    BY <1>2, <1>3
  <2> HIDE DEF d
  <2> QED BY <2>1, DirIsListed
<1>5. Below(d) = SubSeq(p, Len(Root) + 1, Len(p) - 1)
  <2>1. SubSeq(SubSeq(p, 1, n), Len(Root) + 1, n) = SubSeq(p, Len(Root) + 1, n)
    BY <1>1
  <2> QED BY <1>2, <2>1 DEF Below, Segs
<1>6. \A q \in Children(d) : Last(q) = Last(p) => q = p
  <2> SUFFICES ASSUME NEW q \in Children(d), Last(q) = Last(p) PROVE q = p
    OBVIOUS
  <2>1. q \in Seq(Nat) /\ Len(q) = Len(d) + 1 /\ IsPrefix(d, q) /\ q \in Paths
    BY NamesOnly DEF Children, TreeOK
  <2>2. Len(q) = Len(p) /\ Segs(q, Len(d)) = d
    BY <1>1, <1>2, <2>1, PrefixIs
  <2>3. Len(p) > 0
    BY <1>1
  <2> QED BY <1>2, <2>1, <2>2, <2>3, SameEntry
<1>7. p \in Children(d) <=> p \in DOMAIN tree
  <2>1. Len(p) = Len(d) + 1 /\ Len(d) <= Len(p)
    BY <1>1, <1>2
  <2>2. IsPrefix(d, p)
    BY <1>1, <1>2, <2>1, PrefixIs
  <2> QED BY <2>1, <2>2 DEF Children
<1>8. Listed(p, dir) <=> [name |-> Last(p), dir |-> dir] \in names
  <2> DEFINE r == ListDir([bad |-> FALSE, segs |-> Below(d)])
  <2>1. Listed(p, dir) <=> r.kind = "list" /\ [name |-> Last(p), dir |-> dir] \in r.names
    BY <1>5 DEF Listed
  <2>2. r = [kind |-> "list", names |-> names]
    BY <1>4
  <2> HIDE DEF names, r
  <2>3. r.kind = "list" /\ r.names = names
    BY <2>2
  <2> QED BY <2>1, <2>3
<1>9. [name |-> Last(p), dir |-> dir] \in names <=>
        \E q \in seen : Last(q) = Last(p) /\ (Kind(q) = "dir" <=> dir)
  <2> HIDE DEF seen
  <2>1. ASSUME NEW q \in seen
        PROVE  [name |-> Last(p), dir |-> dir] = [name |-> Last(q), dir |-> Kind(q) = "dir"]
                 <=> Last(q) = Last(p) /\ (Kind(q) = "dir" <=> dir)
    OBVIOUS
  <2> QED BY <2>1
<1> HIDE DEF n, d
<1>10. p \in seen <=> p \in DOMAIN tree /\ Visible(p)
  BY <1>7
<1>11. \A q \in seen : Last(q) = Last(p) => q = p
  BY <1>6
<1> HIDE DEF seen, names
<1> QED BY <1>8, <1>9, <1>10, <1>11

LEMMA RootAbove ==
  ASSUME TreeOK, SiteOK, NEW p \in Seq(Nat), Under(p)
  PROVE  AllDirs(p, Len(Root))
<1>1. p \in Paths /\ Root \in Paths /\ Len(Root) \in 0..Len(p)
  <2>1. Root \in Seq(Nat) /\ Len(Root) \in Nat /\ Len(p) \in Nat /\ Len(Root) <= Len(p)
    BY BelowRoot, ContentAssumption
  <2> QED BY <2>1, NamesOnly
<1>2. Segs(p, Len(Root)) = Root
  BY <1>1, PrefixIs DEF Under
<1>3. Len(Root) \in 0..Len(Root)
  BY <1>1
<1> QED BY <1>1, <1>2, <1>3, DirsBelow DEF SiteOK

LEMMA NavigableIs ==
  ASSUME TreeOK, SiteOK, NEW p \in DOMAIN tree
  PROVE  Navigable(p) <=> p \in Reached(Root) /\ Visible(p)
<1> DEFINE Through(n) == Kind(Segs(p, n)) = "dir" /\ Visible(Segs(p, n))
<1>1. p \in Seq(Nat) /\ p \in Paths /\ Root \in Paths /\ Root \in Seq(Nat)
      /\ Len(Root) \in Nat /\ Len(p) \in Nat
  <2>1. p \in Seq(Nat) /\ Root \in Seq(Nat)
    BY ContentAssumption DEF TreeOK
  <2> QED BY <2>1, NamesOnly
<1>2. Under(p) /\ p # Root <=> IsPrefix(Root, p) /\ Len(Root) < Len(p)
  <2>1. ASSUME Under(p), Len(p) = Len(Root) PROVE p = Root
    <3>1. Segs(p, Len(p)) = Root /\ Segs(p, Len(p)) = p
      BY <1>1, <2>1, PrefixIs, PathFacts DEF Under
    <3> QED BY <3>1
  <2>2. Under(p) => Len(Root) <= Len(p)
    BY <1>1, PrefixIs DEF Under
  <2> QED BY <1>1, <2>1, <2>2 DEF Under
<1>3. ASSUME Under(p), Len(Root) < Len(p)
      PROVE  Navigable(p) <=> p \in Reached(Root) /\ Visible(p)
  <2>1. ASSUME NEW n \in Len(Root)+1..Len(p), AllDirs(p, n - 1), NEW dir \in BOOLEAN
        PROVE  Listed(Segs(p, n), dir) <=>
                 /\ Segs(p, n) \in DOMAIN tree /\ Visible(Segs(p, n))
                 /\ (Kind(Segs(p, n)) = "dir" <=> dir)
    <3> DEFINE q == Segs(p, n)
    <3>1. n \in 0..Len(p) /\ n - 1 \in 0..n /\ n \in Len(Root)..Len(p)
      BY <1>1
    <3>2. q \in Seq(Nat) /\ Len(q) = n
      BY <1>1, <3>1, NamesOnly
    <3>3. Under(q) /\ AllDirs(q, n - 1)
      BY <1>1, <1>3, <2>1, <3>1, UnderRoot, DirsBelow
    <3>4. Len(Root) < Len(q)
      BY <1>1, <3>2
    <3> HIDE DEF q
    <3>5. AllDirs(q, Len(q) - 1)
      BY <3>2, <3>3
    <3>6. Listed(q, dir) <=> q \in DOMAIN tree /\ Visible(q) /\ (Kind(q) = "dir" <=> dir)
      BY <3>2, <3>3, <3>4, <3>5, ListedIs
    <3> QED BY <3>6 DEF q
  <2>2. AllDirs(p, Len(Root))
    BY <1>1, <1>3, RootAbove
  <2>3. Segs(p, Len(p)) = p /\ Len(p) \in Len(Root)+1..Len(p)
    BY <1>1, <1>3, PathFacts
  <2>4. ASSUME Navigable(p) PROVE p \in Reached(Root) /\ Visible(p)
    <3> DEFINE N == {k \in Nat : Len(Root) + k <= Len(p) - 1 =>
                       /\ AllDirs(p, Len(Root) + k)
                       /\ \A n \in Len(Root)+1..Len(Root)+k : Through(n)}
    <3>1. 0 \in N
      <4>1. Len(Root) + 0 = Len(Root) /\ \A n \in Len(Root)+1..Len(Root)+0 : FALSE
        BY <1>1
      <4> QED BY <2>2, <4>1
    <3>2. ASSUME NEW k \in N PROVE k + 1 \in N
      <4> DEFINE n == Len(Root) + k
      <4> SUFFICES ASSUME Len(Root) + (k + 1) <= Len(p) - 1
                   PROVE  /\ AllDirs(p, Len(Root) + (k + 1))
                          /\ \A m \in Len(Root)+1..Len(Root)+(k + 1) : Through(m)
        OBVIOUS
      <4>1. k \in Nat /\ n \in Nat /\ n <= Len(p) - 1 /\ Len(Root) + (k + 1) = n + 1
            /\ (n + 1) - 1 = n
            /\ n + 1 \in Len(Root)+1..Len(p) /\ n + 1 \in Len(Root)+1..Len(p)-1
        BY <1>1
      <4>2. AllDirs(p, n) /\ \A m \in Len(Root)+1..n : Through(m)
        BY <4>1
      <4>3. Listed(Segs(p, n + 1), TRUE)
        BY <2>4, <4>1 DEF Navigable
      <4>4. Through(n + 1)
        BY <2>1, <4>1, <4>2, <4>3
      <4>5. \A m \in 1..n + 1 : m \in 1..n \/ m = n + 1
        BY <4>1
      <4>6. \A m \in Len(Root)+1..n + 1 : m \in Len(Root)+1..n \/ m = n + 1
        <5> HIDE DEF n
        <5> QED BY <1>1, <4>1
      <4> HIDE DEF n
      <4>7. AllDirs(p, n + 1)
        BY <4>2, <4>4, <4>5 DEF AllDirs
      <4>8. \A m \in Len(Root)+1..n + 1 : Through(m)
        BY <4>2, <4>4, <4>6
      <4> QED BY <4>1, <4>7, <4>8
    <3>3. Nat \subseteq N
      <4> HIDE DEF N
      <4> QED BY <3>1, <3>2, Counting
    <3> DEFINE k == Len(p) - 1 - Len(Root)
    <3>4. k \in Nat /\ Len(Root) + k = Len(p) - 1
      BY <1>1, <1>3
    <3>5. AllDirs(p, Len(p) - 1) /\ \A n \in Len(Root)+1..Len(p)-1 : Through(n)
      <4>1. k \in N
        BY <3>3, <3>4
      <4> HIDE DEF k
      <4> QED BY <1>1, <3>4, <4>1
    <3>6. Listed(p, FALSE)
      BY <2>4 DEF Navigable
    <3>7. Visible(p) /\ Kind(p) # "dir"
      BY <2>1, <2>3, <3>5, <3>6
    <3> QED BY <1>2, <1>3, <2>4, <3>5, <3>7 DEF Reached, Navigable
  <2>5. ASSUME p \in Reached(Root), Visible(p) PROVE Navigable(p)
    <3>1. Kind(p) # "dir" /\ \A n \in Len(Root)+1..Len(p)-1 : Through(n)
      BY <2>5 DEF Reached
    <3>2. ASSUME NEW n \in Len(Root)..Len(p)-1 PROVE AllDirs(p, n)
      <4> SUFFICES ASSUME NEW k \in 1..n PROVE Kind(Segs(p, k)) = "dir"
        BY DEF AllDirs
      <4>1. k \in 1..Len(Root) \/ k \in Len(Root)+1..Len(p)-1
        BY <1>1
      <4> QED BY <2>2, <3>1, <4>1 DEF AllDirs
    <3>3. Listed(p, FALSE)
      <4>1. Len(p) - 1 \in Len(Root)..Len(p)-1
        BY <1>1, <1>3
      <4> QED BY <2>1, <2>3, <2>5, <3>1, <3>2, <4>1
    <3>4. ASSUME NEW n \in Len(Root)+1..Len(p)-1 PROVE Listed(Segs(p, n), TRUE)
      <4>1. n - 1 \in Len(Root)..Len(p)-1 /\ n \in Len(Root)+1..Len(p)
        BY <1>1
      <4>2. AllDirs(p, n - 1) /\ Through(n)
        BY <3>1, <3>2, <4>1
      <4>3. Segs(p, n) \in DOMAIN tree
        BY <4>2 DEF Kind
      <4> QED BY <2>1, <4>1, <4>2, <4>3
    <3> QED BY <1>2, <1>3, <3>3, <3>4 DEF Navigable, Under
  <2> QED BY <2>4, <2>5
<1>4. Navigable(p) => Under(p) /\ p # Root
  BY DEF Navigable
<1>5. p \in Reached(Root) => IsPrefix(Root, p) /\ Len(Root) < Len(p)
  BY DEF Reached
<1> QED BY <1>2, <1>3, <1>4, <1>5 DEF Under

-----------------------------------------------------------------------------
(* A directory's entries in their order *)

LEMMA LessAt ==
  ASSUME NEW q \in Seq(Nat), NEW r \in Seq(Nat), NEW n \in Nat, n + 1 <= Len(q), n + 1 <= Len(r),
         Segs(q, n) = Segs(r, n), q[n + 1] < r[n + 1]
  PROVE  Less(q, r)
<1>1. n + 1 \in 1..Len(q) /\ (n + 1) - 1 = n
  OBVIOUS
<1> QED BY <1>1 DEF Less

LEMMA SiblingOrder ==
  ASSUME TreeOK, NEW d \in Paths, NEW q \in Children(d), NEW r \in Children(d)
  PROVE  /\ Less(q, r) <=> q[Len(d) + 1] < r[Len(d) + 1]
         /\ q[Len(d) + 1] \in Nat
         /\ q[Len(d) + 1] = r[Len(d) + 1] => q = r
<1> DEFINE n == Len(d)
<1>1. /\ q \in Seq(Nat) /\ r \in Seq(Nat) /\ q \in Paths /\ r \in Paths
      /\ IsPrefix(d, q) /\ IsPrefix(d, r) /\ Len(q) = n + 1 /\ Len(r) = n + 1
  BY NamesOnly DEF Children, TreeOK
<1>2. n \in Nat
  BY PathFacts
<1>3. Segs(q, n) = d /\ Segs(r, n) = d
  BY <1>1, PrefixIs
<1>4. \A k \in 1..n : q[k] = d[k] /\ r[k] = d[k]
  <2>1. \A k \in 1..n : Segs(q, n)[k] = q[k] /\ Segs(r, n)[k] = r[k]
    BY <1>1, <1>2 DEF Segs
  <2> QED BY <1>3, <2>1
<1> HIDE DEF n
<1>5. q[n + 1] \in Nat /\ r[n + 1] \in Nat
  BY <1>1, <1>2
<1>6. q[n + 1] = r[n + 1] => q = r
  <2>1. Len(q) > 0 /\ Len(q) = Len(r) /\ Len(r) > 0 /\ Len(r) - 1 = n
    BY <1>1, <1>2
  <2>2. ASSUME q[n + 1] = r[n + 1] PROVE Last(q) = Last(r)
    BY <1>1, <2>2 DEF Last
  <2> QED BY <1>1, <1>3, <2>1, <2>2, SameEntry
<1>7. q[n + 1] < r[n + 1] => Less(q, r)
  BY <1>1, <1>2, <1>3, LessAt
<1>8. ASSUME Less(q, r) PROVE q[n + 1] < r[n + 1]
  <2>1. CASE IsPrefix(q, r) /\ q # r
    <3>1. Segs(r, Len(q)) = q /\ Segs(r, Len(r)) = r
      BY <1>1, <2>1, PrefixIs, PathFacts
    <3> QED BY <1>1, <2>1, <3>1
  <2>2. CASE \E k \in 1..Len(q) : k <= Len(r) /\ Segs(q, k - 1) = Segs(r, k - 1) /\ q[k] < r[k]
    <3>1. PICK k \in 1..Len(q) : q[k] < r[k]
      BY <2>2
    <3>2. k \in 1..n \/ k = n + 1
      BY <1>1, <1>2
    <3>3. k \notin 1..n
      <4> SUFFICES ASSUME k \in 1..n PROVE FALSE
        OBVIOUS
      <4>1. q[k] = r[k] /\ q[k] \in Nat
        BY <1>1, <1>4
      <4> QED BY <3>1, <4>1
    <3> QED BY <3>1, <3>2, <3>3
  <2> QED BY <1>8, <2>1, <2>2 DEF Less
<1> QED BY <1>5, <1>6, <1>7, <1>8 DEF n

LEMMA NthFacts ==
  ASSUME NEW S, IsFiniteSet(S), NEW key \in [S -> Nat],
         \A q, r \in S : (Less(q, r) <=> key[q] < key[r]) /\ (key[q] = key[r] => q = r)
  PROVE  /\ Cardinality(S) \in Nat
         /\ \A k \in 1..Cardinality(S) : Nth(S, k) \in S
         /\ \A k, l \in 1..Cardinality(S) : k < l => Less(Nth(S, k), Nth(S, l))
         /\ \A q \in S : \E k \in 1..Cardinality(S) : q = Nth(S, k)
<1> DEFINE c == Cardinality(S)
           Before(q) == {r \in S : Less(r, q)}
           rank == [q \in S |-> Cardinality(Before(q))]
           T == 0..c - 1
<1>1. c \in Nat /\ IsFiniteSet(T) /\ Cardinality(T) = c
  <2>1. c \in Nat
    BY FS_CardinalityType
  <2>2. 0 \in Int /\ c - 1 \in Int
    BY <2>1
  <2>3. IsFiniteSet(0..c - 1) /\ Cardinality(0..c - 1) = IF 0 > c - 1 THEN 0 ELSE (c - 1) - 0 + 1
    BY <2>2, FS_Interval
  <2> QED BY <2>1, <2>3
<1>2. ASSUME NEW q \in S
      PROVE  rank[q] \in T /\ IsFiniteSet(Before(q))
  <2>1. Before(q) \subseteq S \ {q}
    <3>1. ~Less(q, q)
      BY Z3
    <3> QED BY <3>1
  <2>2. IsFiniteSet(S \ {q}) /\ Cardinality(S \ {q}) = c - 1
    BY FS_RemoveElement
  <2>3. IsFiniteSet(Before(q)) /\ Cardinality(Before(q)) <= c - 1
    BY <2>1, <2>2, FS_Subset
  <2>4. Cardinality(Before(q)) \in Nat
    BY <2>3, FS_CardinalityType
  <2> QED BY <1>1, <2>3, <2>4
<1>3. ASSUME NEW q \in S, NEW r \in S, key[q] < key[r]
      PROVE  rank[q] < rank[r]
  <2>1. q \notin Before(q)
    OBVIOUS
  <2>2. Before(q) \cup {q} \subseteq Before(r)
    <3>1. \A s \in S : key[s] < key[q] => key[s] < key[r]
      BY <1>3
    <3> QED BY <1>3, <3>1
  <2>3. Cardinality(Before(q) \cup {q}) = Cardinality(Before(q)) + 1
    <3> HIDE DEF Before
    <3> QED BY <1>2, <2>1, FS_AddElement
  <2>4. Cardinality(Before(q) \cup {q}) <= Cardinality(Before(r))
    <3>1. IsFiniteSet(Before(r))
      BY <1>2
    <3> HIDE DEF Before
    <3> QED BY <2>2, <3>1, FS_Subset
  <2>5. rank[q] = Cardinality(Before(q)) /\ rank[r] = Cardinality(Before(r))
        /\ rank[q] \in Nat /\ rank[r] \in Nat
    BY <1>2
  <2> HIDE DEF Before, rank
  <2> QED BY <2>3, <2>4, <2>5
<1>4. \A q, r \in S : rank[q] = rank[r] => q = r
  <2> SUFFICES ASSUME NEW q \in S, NEW r \in S, rank[q] = rank[r] PROVE q = r
    OBVIOUS
  <2>1. rank[q] \in T /\ rank[r] \in T /\ key[q] \in Nat /\ key[r] \in Nat
    BY <1>2
  <2> HIDE DEF rank
  <2>2. ~(key[q] < key[r]) /\ ~(key[r] < key[q])
    BY <1>1, <1>3, <2>1
  <2>3. key[q] = key[r]
    BY <2>1, <2>2
  <2> QED BY <2>3
<1>5. \A i \in T : \E q \in S : rank[q] = i
  <2>1. rank \in [S -> T]
    BY <1>2
  <2> HIDE DEF rank, T, c
  <2>2. rank \in Injection(S, T)
    BY <1>4, <2>1 DEF Injection, IsInjective
  <2>3. rank \in Surjection(S, T)
    BY <1>1, <2>2, FS_Injection DEF c
  <2> QED BY <2>3 DEF Surjection
<1>6. ASSUME NEW k \in 1..c PROVE Nth(S, k) \in S /\ rank[Nth(S, k)] = k - 1
  <2>1. k - 1 \in T
    BY <1>1
  <2>2. PICK q \in S : rank[q] = k - 1
    BY <1>5, <2>1
  <2> DEFINE P(x) == Cardinality({r \in S : Less(r, x)}) = k - 1
  <2>3. q \in S /\ P(q)
    BY <2>2
  <2>4. Nth(S, k) = CHOOSE x \in S : P(x)
    BY DEF Nth
  <2>5. \A x \in S : P(x) => rank[x] = k - 1
    OBVIOUS
  <2> HIDE DEF P
  <2>6. Nth(S, k) \in S /\ P(Nth(S, k))
    BY <2>3, <2>4
  <2> QED BY <2>5, <2>6
<1> HIDE DEF rank
<1>7. ASSUME NEW k \in 1..c, NEW l \in 1..c, k < l PROVE Less(Nth(S, k), Nth(S, l))
  <2> DEFINE q == Nth(S, k)
             r == Nth(S, l)
  <2>1. q \in S /\ r \in S /\ rank[q] = k - 1 /\ rank[r] = l - 1
    BY <1>6
  <2> HIDE DEF q, r
  <2>2. ~(key[r] < key[q])
    BY <1>1, <1>3, <1>7, <2>1
  <2>3. key[r] # key[q]
    BY <1>1, <1>7, <2>1
  <2>4. key[q] < key[r]
    BY <2>1, <2>2, <2>3
  <2> QED BY <2>1, <2>4 DEF q, r
<1>8. ASSUME NEW q \in S PROVE \E k \in 1..c : q = Nth(S, k)
  <2>1. rank[q] \in T
    BY <1>2
  <2>2. rank[q] + 1 \in 1..c /\ (rank[q] + 1) - 1 = rank[q]
    BY <1>1, <2>1
  <2>3. q = Nth(S, rank[q] + 1)
    BY <1>4, <1>6, <2>2
  <2> QED BY <2>2, <2>3
<1> QED BY <1>1, <1>6, <1>7, <1>8

(* The entries of a directory are counted in their order, each once.       *)
LEMMA ChildFacts ==
  ASSUME TreeOK, SiteOK, NEW d \in Paths
  PROVE  LET C == Children(d) IN
         /\ Cardinality(C) \in Nat
         /\ \A k \in 1..Cardinality(C) : Nth(C, k) \in C
         /\ \A k, l \in 1..Cardinality(C) : k < l => Less(Nth(C, k), Nth(C, l))
         /\ \A q \in C : \E k \in 1..Cardinality(C) : q = Nth(C, k)
<1> DEFINE C == Children(d)
           key == [q \in C |-> q[Len(d) + 1]]
<1>1. IsFiniteSet(C)
  <2>1. C \subseteq DOMAIN tree
    BY DEF Children
  <2> QED BY <2>1, FS_Subset DEF SiteOK
<1>2. key \in [C -> Nat]
  <2>1. \A q \in C : q[Len(d) + 1] \in Nat
    BY SiblingOrder
  <2> QED BY <2>1
<1>3. \A q, r \in C : (Less(q, r) <=> key[q] < key[r]) /\ (key[q] = key[r] => q = r)
  <2> SUFFICES ASSUME NEW q \in C, NEW r \in C
               PROVE  (Less(q, r) <=> key[q] < key[r]) /\ (key[q] = key[r] => q = r)
    OBVIOUS
  <2>1. key[q] = q[Len(d) + 1] /\ key[r] = r[Len(d) + 1]
    OBVIOUS
  <2> HIDE DEF key
  <2> QED BY <2>1, SiblingOrder
<1> HIDE DEF key, C
<1>4. /\ Cardinality(C) \in Nat
      /\ \A k \in 1..Cardinality(C) : Nth(C, k) \in C
      /\ \A k, l \in 1..Cardinality(C) : k < l => Less(Nth(C, k), Nth(C, l))
      /\ \A q \in C : \E k \in 1..Cardinality(C) : q = Nth(C, k)
  BY <1>1, <1>2, <1>3, NthFacts
<1> QED BY <1>4 DEF C

-----------------------------------------------------------------------------
(* Walk, as an equation *)

Came(f, p) ==
  IF Kind(p) # "dir" THEN <<p>>
  ELSE IF ~Visible(p) /\ p # Root THEN <<>>
  ELSE FlattenSeq([k \in 1..Cardinality(Children(p)) |-> f[Nth(Children(p), k)]])

IsWalk(f) == f = [p \in Paths |-> Came(f, p)]

LEMMA WalkIsChosen == Walk = CHOOSE f : IsWalk(f)
BY DEF Walk, IsWalk, Came

LEMMA RootIsDir ==
  ASSUME TreeOK, SiteOK
  PROVE  Root \in DOMAIN tree /\ Kind(Root) = "dir"
<1>1. Root \in Seq(Nat)
  BY ContentAssumption
<1>2. CASE Len(Root) = 0
  <2>1. Root = <<>>
    BY <1>1, <1>2
  <2> QED BY <2>1 DEF TreeOK, Kind
<1>3. CASE Len(Root) # 0
  <2>1. Len(Root) \in 1..Len(Root) /\ Segs(Root, Len(Root)) = Root
    <3>1. Len(Root) \in Nat /\ Root \in Paths
      BY <1>1, NamesOnly
    <3> QED BY <1>3, <3>1, PathFacts
  <2>2. Kind(Root) = "dir"
    BY <2>1 DEF SiteOK, AllDirs
  <2> QED BY <2>2 DEF Kind
<1> QED BY <1>2, <1>3

(* The entries are no deeper than some of them. *)
LEMMA Depth ==
  ASSUME TreeOK, SiteOK
  PROVE  \E m \in Nat : \A p \in DOMAIN tree : Len(p) <= m
<1> DEFINE S == DOMAIN tree
           T == {Len(p) : p \in S}
           f == [p \in S |-> Len(p)]
<1>1. \A p \in S : Len(p) \in Nat
  BY DEF TreeOK
<1>2. T \subseteq Nat
  BY <1>1
<1>3. Root \in S
  BY RootIsDir
<1>4. T # {}
  BY <1>3
<1>5. IsFiniteSet(T)
  <2>1. f \in Surjection(S, T)
    BY DEF Surjection
  <2>2. IsFiniteSet(S)
    BY DEF SiteOK
  <2> HIDE DEF f, S, T
  <2> QED BY <2>1, <2>2, FS_Surjection
<1>6. Max(T) \in T /\ \A i \in T : i <= Max(T)
  <2> HIDE DEF T
  <2> QED BY <1>2, <1>4, <1>5, Greatest
<1>7. \A p \in S : Len(p) \in T
  OBVIOUS
<1> HIDE DEF T
<1> QED BY <1>2, <1>6, <1>7

(* Came depends on what f says of the entries of a directory only. *)
LEMMA CameSame ==
  ASSUME TreeOK, SiteOK, NEW p \in Paths, NEW f, NEW g,
         \A q \in Children(p) : f[q] = g[q]
  PROVE  Came(f, p) = Came(g, p)
<1> DEFINE C == Children(p)
           ff == [k \in 1..Cardinality(C) |-> f[Nth(C, k)]]
           gg == [k \in 1..Cardinality(C) |-> g[Nth(C, k)]]
<1>1. \A k \in 1..Cardinality(C) : Nth(C, k) \in C
  BY ChildFacts
<1>2. ff = gg
  <2> HIDE DEF C
  <2>1. \A k \in 1..Cardinality(C) : f[Nth(C, k)] = g[Nth(C, k)]
    BY <1>1 DEF C
  <2> QED BY <2>1
<1>3. /\ Came(f, p) = IF Kind(p) # "dir" THEN <<p>>
                      ELSE IF ~Visible(p) /\ p # Root THEN <<>> ELSE FlattenSeq(ff)
      /\ Came(g, p) = IF Kind(p) # "dir" THEN <<p>>
                      ELSE IF ~Visible(p) /\ p # Root THEN <<>> ELSE FlattenSeq(gg)
  BY DEF Came
<1> HIDE DEF ff, gg
<1> QED BY <1>2, <1>3

(* A walk is built from the deepest entries up. *)
LEMMA WalkExists ==
  ASSUME TreeOK, SiteOK
  PROVE  \E f : IsWalk(f)
<1>1. PICK m \in Nat : \A p \in DOMAIN tree : Len(p) <= m
  BY Depth
<1> DEFINE Deep(f, k) == \A p \in DOMAIN tree : m + 1 <= Len(p) + k => f[p] = Came(f, p)
           N == {k \in Nat : \E f : Deep(f, k)}
<1>2. \A p \in DOMAIN tree : p \in Paths /\ Len(p) \in Nat
  BY NamesOnly DEF TreeOK
<1>3. 0 \in N
  <2>1. Deep(<<>>, 0)
    BY <1>1, <1>2
  <2> QED BY <2>1
<1>4. \A p \in Paths : \A q \in Children(p) : q \in DOMAIN tree /\ Len(q) = Len(p) + 1 /\ Len(p) \in Nat
  BY PathFacts DEF Children
<1>5. ASSUME NEW k \in N PROVE k + 1 \in N
  <2>1. PICK f : Deep(f, k)
    BY <1>5
  <2> DEFINE g == [p \in Paths |-> Came(f, p)]
  <2>2. ASSUME NEW p \in DOMAIN tree, m + 1 <= Len(p) + (k + 1) PROVE g[p] = Came(g, p)
    <3>1. p \in Paths
      BY <1>2
    <3>2. ASSUME NEW q \in Children(p) PROVE f[q] = g[q]
      <4>1. q \in DOMAIN tree /\ q \in Paths /\ m + 1 <= Len(q) + k
        BY <1>2, <1>4, <1>5, <2>2, <3>1
      <4> QED BY <2>1, <4>1
    <3>3. Came(f, p) = Came(g, p)
      <4> HIDE DEF g
      <4> QED BY <3>1, <3>2, CameSame
    <3> QED BY <3>1, <3>3
  <2> HIDE DEF g
  <2>3. Deep(g, k + 1)
    BY <2>2
  <2> QED BY <1>5, <2>3
<1>6. Nat \subseteq N
  <2> HIDE DEF N
  <2> QED BY <1>3, <1>5, Counting
<1>7. PICK f : Deep(f, m + 1)
  <2>1. m + 1 \in N
    <3> HIDE DEF N
    <3> QED BY <1>6
  <2> QED BY <2>1
<1>8. \A p \in DOMAIN tree : f[p] = Came(f, p)
  BY <1>2, <1>7
<1> DEFINE g == [p \in Paths |-> Came(f, p)]
<1>9. ASSUME NEW p \in Paths PROVE Came(f, p) = Came(g, p)
  <2>1. \A q \in Children(p) : q \in DOMAIN tree /\ q \in Paths
    BY <1>2, <1>4
  <2>2. \A q \in Children(p) : f[q] = g[q]
    BY <1>8, <2>1
  <2> HIDE DEF g
  <2> QED BY <2>2, CameSame
<1>10. g = [p \in Paths |-> Came(f, p)]
  OBVIOUS
<1> HIDE DEF g
<1>11. g = [p \in Paths |-> Came(g, p)]
  BY <1>9, <1>10
<1> QED BY <1>11 DEF IsWalk

LEMMA WalkIs ==
  ASSUME TreeOK, SiteOK, NEW p \in Paths
  PROVE  Walk[p] = Came(Walk, p)
<1>1. IsWalk(Walk)
  BY WalkIsChosen, WalkExists
<1> HIDE DEF Walk
<1> QED BY <1>1 DEF IsWalk

-----------------------------------------------------------------------------
(* The entries that a sequence lists, each before those that are greater *)

Lists(w, A) ==
  /\ w \in Seq(Paths)
  /\ \A x : x \in A <=> \E i \in 1..Len(w) : w[i] = x
  /\ \A i, j \in 1..Len(w) : i < j => Less(w[i], w[j])

LEMMA ListsTwo ==
  ASSUME NEW w, NEW A, Lists(w, A), NEW v, NEW B, Lists(v, B),
         \A a \in A, b \in B : Less(a, b)
  PROVE  Lists(w \o v, A \cup B)
<1> DEFINE u == w \o v
<1>1. /\ w \in Seq(Paths) /\ v \in Seq(Paths) /\ u \in Seq(Paths)
      /\ Len(w) \in Nat /\ Len(v) \in Nat /\ Len(u) = Len(w) + Len(v)
  BY DEF Lists
<1>2. \A i \in 1..Len(w) : i \in 1..Len(u) /\ u[i] = w[i]
  BY <1>1
<1>3. \A j \in 1..Len(v) : Len(w) + j \in 1..Len(u) /\ u[Len(w) + j] = v[j]
  BY <1>1
<1>4. \A i \in 1..Len(u) : i \in 1..Len(w) \/ \E j \in 1..Len(v) : i = Len(w) + j
  <2> SUFFICES ASSUME NEW i \in 1..Len(u), i \notin 1..Len(w)
               PROVE  \E j \in 1..Len(v) : i = Len(w) + j
    OBVIOUS
  <2>1. i - Len(w) \in 1..Len(v) /\ i = Len(w) + (i - Len(w))
    BY <1>1
  <2> QED BY <2>1
<1> HIDE DEF u
<1>5. ASSUME NEW x PROVE x \in A \cup B <=> \E i \in 1..Len(u) : u[i] = x
  <2>1. (x \in A <=> \E i \in 1..Len(w) : w[i] = x) /\ (x \in B <=> \E i \in 1..Len(v) : v[i] = x)
    BY DEF Lists
  <2> QED BY <1>2, <1>3, <1>4, <2>1
<1>6. ASSUME NEW i \in 1..Len(u), NEW j \in 1..Len(u), i < j PROVE Less(u[i], u[j])
  <2>1. CASE i \in 1..Len(w) /\ j \in 1..Len(w)
    BY <1>2, <1>6, <2>1 DEF Lists
  <2>2. CASE i \in 1..Len(w) /\ \E k \in 1..Len(v) : j = Len(w) + k
    <3>1. PICK k \in 1..Len(v) : j = Len(w) + k
      BY <2>2
    <3>2. u[i] \in A /\ u[j] \in B
      BY <1>2, <1>3, <2>2, <3>1 DEF Lists
    <3> QED BY <3>2
  <2>3. CASE \E k \in 1..Len(v) : i = Len(w) + k
    <3>1. PICK k \in 1..Len(v) : i = Len(w) + k
      BY <2>3
    <3>2. PICK l \in 1..Len(v) : j = Len(w) + l
      BY <1>1, <1>4, <1>6, <3>1
    <3>3. k < l
      BY <1>1, <1>6, <3>1, <3>2
    <3>4. Less(v[k], v[l])
      BY <3>3 DEF Lists
    <3> QED BY <1>3, <3>1, <3>2, <3>4
  <2> QED BY <1>4, <2>1, <2>2, <2>3
<1> QED BY <1>1, <1>5, <1>6 DEF Lists, u

Joined(B, n) == UNION {B[i] : i \in 1..n}

LEMMA ListsMany ==
  ASSUME NEW n \in Nat, NEW ss, Len(ss) = n, n = 0 => ss = <<>>, NEW B,
         \A i \in 1..n : Lists(ss[i], B[i]),
         \A i, j \in 1..n : i < j => \A a \in B[i], b \in B[j] : Less(a, b)
  PROVE  Lists(FlattenSeq(ss), Joined(B, n))
<1> DEFINE g == CHOOSE g : IsFlat(g, ss, n)
           U(k) == Joined(B, k)
           N == {k \in Nat : k \in 1..n => Lists(g[k], U(k))}
<1> USE DEF Joined
<1>1. IsFlat(g, ss, n)
  BY FlatExists
<1>2. n # 0 => FlattenSeq(ss) = g[n]
  BY FlattenIsChosen
<1> HIDE DEF g
<1>3. \A k \in 1..n : g[k] = IF k = 1 THEN ss[k] ELSE g[k - 1] \o ss[k]
  BY <1>1 DEF IsFlat
<1>4. 0 \in N
  OBVIOUS
<1>5. ASSUME NEW k \in N PROVE k + 1 \in N
  <2> SUFFICES ASSUME k + 1 \in 1..n PROVE Lists(g[k + 1], U(k + 1))
    OBVIOUS
  <2>1. k \in Nat /\ (k + 1) - 1 = k
    OBVIOUS
  <2>2. CASE k = 0
    <3>1. g[1] = ss[1] /\ Lists(ss[1], B[1])
      BY <1>3, <2>2
    <3>2. U(1) = B[1]
      <4>1. 1..1 = {1}
        OBVIOUS
      <4> QED BY <4>1
    <3> HIDE DEF U
    <3>3. k + 1 = 1
      BY <2>2
    <3> QED BY <3>1, <3>2, <3>3
  <2>3. CASE k # 0
    <3>1. k \in 1..n /\ k + 1 # 1
      BY <2>1, <2>3
    <3>2. Lists(g[k], U(k)) /\ Lists(ss[k + 1], B[k + 1])
      BY <3>1
    <3>3. g[k + 1] = g[k] \o ss[k + 1]
      BY <1>3, <2>1, <3>1
    <3>4. U(k + 1) = U(k) \cup B[k + 1]
      <4>1. 1..k + 1 = (1..k) \cup {k + 1}
        BY <2>1
      <4> QED BY <4>1
    <3>5. \A a \in U(k), b \in B[k + 1] : Less(a, b)
      <4>1. \A i \in 1..k : i \in 1..n /\ i < k + 1
        BY <2>1
      <4> QED BY <4>1
    <3> HIDE DEF U
    <3>6. Lists(g[k] \o ss[k + 1], U(k) \cup B[k + 1])
      BY <3>2, <3>5, ListsTwo
    <3> QED BY <3>3, <3>4, <3>6
  <2> QED BY <2>2, <2>3
<1>6. Nat \subseteq N
  <2> HIDE DEF N
  <2> QED BY <1>4, <1>5, Counting
<1>7. CASE n = 0
  <2>1. FlattenSeq(ss) = <<>>
    BY <1>7 DEF FlattenSeq
  <2>2. U(n) = {}
    BY <1>7
  <2>3. Lists(<<>>, {})
    BY DEF Lists
  <2> HIDE DEF U
  <2>4. Lists(FlattenSeq(ss), U(n))
    BY <2>1, <2>2, <2>3
  <2> QED BY <2>4 DEF U
<1>8. CASE n # 0
  <2>1. n \in 1..n
    BY <1>8
  <2>2. Lists(g[n], U(n))
    BY <1>6, <2>1
  <2> QED BY <1>2, <1>8, <2>2
<1> QED BY <1>7, <1>8

-----------------------------------------------------------------------------
(* tools.go:131-143: the walk from a directory comes to what can be        *)
(* reached from it, in order.                                              *)

(* What is come to at an entry. *)
ReachedAt(q) ==
  IF Kind(q) # "dir" THEN {q} ELSE IF ~Visible(q) THEN {} ELSE Reached(q)

LEMMA ReachedThrough ==
  ASSUME TreeOK, NEW d \in Paths, NEW q \in Children(d), NEW x \in ReachedAt(q)
  PROVE  /\ x \in DOMAIN tree /\ x \in Seq(Nat) /\ x \in Paths
         /\ Len(d) < Len(x) /\ Segs(x, Len(d) + 1) = q /\ Segs(x, Len(d)) = d
<1>1. /\ q \in DOMAIN tree /\ q \in Seq(Nat) /\ q \in Paths /\ IsPrefix(d, q)
      /\ Len(q) = Len(d) + 1 /\ Len(d) \in Nat
  BY NamesOnly, PathFacts DEF Children, TreeOK
<1>2. x = q \/ (x \in DOMAIN tree /\ IsPrefix(q, x) /\ Len(q) < Len(x))
  BY DEF ReachedAt, Reached
<1>3. x \in DOMAIN tree /\ x \in Seq(Nat) /\ x \in Paths /\ Len(x) \in Nat
  BY <1>1, <1>2, NamesOnly DEF TreeOK
<1>4. Len(q) <= Len(x) /\ Segs(x, Len(q)) = q
  <2>1. CASE x = q
    BY <1>1, <2>1, PathFacts
  <2>2. CASE x # q
    BY <1>1, <1>2, <1>3, <2>2, PrefixIs
  <2> QED BY <2>1, <2>2
<1>5. Segs(q, Len(d)) = d
  BY <1>1, PrefixIs
<1>6. Segs(x, Len(d)) = Segs(Segs(x, Len(q)), Len(d))
  <2>1. Len(q) \in 0..Len(x) /\ Len(d) \in 0..Len(q)
    BY <1>1, <1>3, <1>4
  <2> QED BY <1>3, <2>1, PathFacts
<1> QED BY <1>1, <1>3, <1>4, <1>5, <1>6

LEMMA ReachedIs ==
  ASSUME TreeOK, NEW d \in Paths
  PROVE  \A x : x \in Reached(d) <=> \E q \in Children(d) : x \in ReachedAt(q)
<1> DEFINE n == Len(d)
           Through(x, m) == Kind(Segs(x, m)) = "dir" /\ Visible(Segs(x, m))
<1>1. n \in Nat
  BY PathFacts
<1>2. ASSUME NEW q \in Children(d), NEW x \in ReachedAt(q) PROVE x \in Reached(d)
  <2>1. /\ x \in DOMAIN tree /\ x \in Paths /\ n < Len(x)
        /\ Segs(x, n + 1) = q /\ Segs(x, n) = d /\ Len(x) \in Nat
        /\ Len(q) = n + 1
    BY ReachedThrough, PathFacts DEF Children
  <2>2. IsPrefix(d, x)
    BY <1>1, <2>1, PrefixIs
  <2>3. Kind(x) # "dir" /\ \A m \in n + 1..Len(x) - 1 : Through(x, m)
    <3>1. CASE Kind(q) # "dir"
      <4>1. x = q
        BY <3>1 DEF ReachedAt
      <4>2. \A m \in n + 1..Len(x) - 1 : FALSE
        BY <1>1, <2>1, <4>1
      <4> QED BY <3>1, <4>1, <4>2
    <3>2. CASE Kind(q) = "dir"
      <4>1. Visible(q) /\ x \in Reached(q)
        BY <3>2 DEF ReachedAt
      <4>2. Kind(x) # "dir" /\ \A m \in n + 2..Len(x) - 1 : Through(x, m)
        <5>1. Len(q) + 1 = n + 2
          BY <1>1, <2>1
        <5> QED BY <4>1, <5>1 DEF Reached
      <4>3. \A m \in n + 1..Len(x) - 1 : m = n + 1 \/ m \in n + 2..Len(x) - 1
        BY <1>1, <2>1
      <4>4. Through(x, n + 1)
        BY <2>1, <3>2, <4>1
      <4> HIDE DEF n
      <4> QED BY <4>2, <4>3, <4>4
    <3> QED BY <3>1, <3>2
  <2> QED BY <2>1, <2>2, <2>3 DEF Reached
<1>3. ASSUME NEW x \in Reached(d) PROVE \E q \in Children(d) : x \in ReachedAt(q)
  <2> DEFINE q == Segs(x, n + 1)
  <2>1. /\ x \in DOMAIN tree /\ IsPrefix(d, x) /\ n < Len(x) /\ Kind(x) # "dir"
        /\ \A m \in n + 1..Len(x) - 1 : Through(x, m)
    BY DEF Reached
  <2>2. x \in Seq(Nat) /\ x \in Paths /\ Len(x) \in Nat /\ Segs(x, Len(x)) = x
        /\ Segs(x, n) = d
    <3>1. x \in Seq(Nat) /\ x \in Paths
      BY <2>1, NamesOnly DEF TreeOK
    <3> QED BY <2>1, <3>1, PathFacts, PrefixIs
  <2>3. n + 1 \in 0..Len(x) /\ n \in 0..n + 1
    BY <1>1, <2>1, <2>2
  <2>4. q \in Seq(Nat) /\ q \in Paths /\ Len(q) = n + 1
    <3>1. q \in Seq(Nat) /\ Len(q) = n + 1
      BY <2>2, <2>3, NamesOnly
    <3> QED BY <3>1, NamesOnly
  <2>5. IsPrefix(d, q)
    <3>1. Segs(q, n) = d
      BY <2>2, <2>3, PathFacts
    <3>2. Len(d) <= Len(q)
      BY <1>1, <2>4
    <3> HIDE DEF q
    <3> QED BY <2>4, <3>1, <3>2, PrefixIs
  <2>6. CASE Len(x) = n + 1
    <3>1. q = x
      BY <2>2, <2>6
    <3>2. x \in Children(d)
      BY <2>1, <2>6 DEF Children
    <3> QED BY <2>1, <3>2 DEF ReachedAt
  <2>7. CASE n + 1 < Len(x)
    <3>1. n + 1 \in n + 1..Len(x) - 1
      BY <1>1, <2>2, <2>7
    <3>2. Kind(q) = "dir" /\ Visible(q)
      BY <2>1, <3>1
    <3>3. q \in Children(d)
      <4>1. q \in DOMAIN tree
        BY <3>2 DEF Kind
      <4> QED BY <2>4, <2>5, <4>1 DEF Children
    <3>4. IsPrefix(q, x)
      <4>1. Segs(x, Len(q)) = q /\ Len(q) <= Len(x)
        BY <2>2, <2>4, <2>7
      <4> HIDE DEF q
      <4> QED BY <2>2, <2>4, <4>1, PrefixIs
    <3>5. \A m \in Len(q) + 1..Len(x) - 1 : Through(x, m)
      <4>1. \A m \in Len(q) + 1..Len(x) - 1 : m \in n + 1..Len(x) - 1
        BY <1>1, <2>2, <2>4
      <4> HIDE DEF q
      <4> QED BY <2>1, <4>1
    <3>6. x \in Reached(q)
      <4>1. Len(q) < Len(x)
        BY <2>4, <2>7
      <4> HIDE DEF q
      <4> QED BY <2>1, <3>4, <3>5, <4>1 DEF Reached
    <3>7. x \in ReachedAt(q)
      BY <3>2, <3>6 DEF ReachedAt
    <3> HIDE DEF q
    <3> QED BY <3>3, <3>7
  <2>8. Len(x) = n + 1 \/ n + 1 < Len(x)
    BY <1>1, <2>1, <2>2
  <2> QED BY <2>6, <2>7, <2>8
<1> QED BY <1>2, <1>3

(* What lies behind a lesser entry comes first. *)
LEMMA ReachedInOrder ==
  ASSUME TreeOK, NEW d \in Paths, NEW q \in Children(d), NEW r \in Children(d), Less(q, r),
         NEW x \in ReachedAt(q), NEW y \in ReachedAt(r)
  PROVE  Less(x, y)
<1> DEFINE n == Len(d)
<1>1. n \in Nat
  BY PathFacts
<1>2. /\ x \in Seq(Nat) /\ n < Len(x) /\ Segs(x, n + 1) = q /\ Segs(x, n) = d
      /\ y \in Seq(Nat) /\ n < Len(y) /\ Segs(y, n + 1) = r /\ Segs(y, n) = d
      /\ Len(x) \in Nat /\ Len(y) \in Nat
  BY ReachedThrough, NamesOnly
<1>3. q[n + 1] < r[n + 1]
  BY SiblingOrder
<1> HIDE DEF n
<1>4. Segs(x, n + 1)[n + 1] = x[n + 1] /\ Segs(y, n + 1)[n + 1] = y[n + 1]
  <2>1. n + 1 \in 0..Len(x) /\ n + 1 \in 0..Len(y) /\ n + 1 \in 1..n + 1
    BY <1>1, <1>2
  <2> QED BY <1>2, <2>1 DEF Segs
<1>5. n + 1 <= Len(x) /\ n + 1 <= Len(y)
  BY <1>1, <1>2
<1>6. x[n + 1] < y[n + 1]
  BY <1>2, <1>3, <1>4
<1> QED BY <1>1, <1>2, <1>5, <1>6, LessAt

(* A walk starts in the root or in a visible directory under it. *)
LEMMA WalkLists ==
  ASSUME TreeOK, SiteOK
  PROVE  \A d \in DOMAIN tree :
           Kind(d) = "dir" /\ Len(Root) <= Len(d) /\ (Visible(d) \/ d = Root)
           => Lists(Walk[d], Reached(d))
<1>1. PICK m \in Nat : \A p \in DOMAIN tree : Len(p) <= m
  BY Depth
<1> DEFINE Start(d) == Kind(d) = "dir" /\ Len(Root) <= Len(d) /\ (Visible(d) \/ d = Root)
           Listing(d, k) == m + 1 <= Len(d) + k /\ Start(d) => Lists(Walk[d], Reached(d))
           N == {k \in Nat : \A d \in DOMAIN tree : Listing(d, k)}
<1>2. \A p \in DOMAIN tree : p \in Seq(Nat) /\ p \in Paths /\ Len(p) \in Nat
  BY NamesOnly DEF TreeOK
<1>3. Len(Root) \in Nat
  BY ContentAssumption
<1>4. 0 \in N
  <2>1. \A d \in DOMAIN tree : ~(m + 1 <= Len(d) + 0)
    BY <1>1, <1>2
  <2> QED BY <2>1
<1>5. ASSUME NEW k \in N PROVE k + 1 \in N
  <2>1. k \in Nat /\ k + 1 \in Nat /\ \A d \in DOMAIN tree : Listing(d, k)
    OBVIOUS
  <2>2. ASSUME NEW d \in DOMAIN tree, m + 1 <= Len(d) + (k + 1), Start(d)
        PROVE  Lists(Walk[d], Reached(d))
    <3> DEFINE C == Children(d)
               c == Cardinality(C)
               ss == [i \in 1..c |-> Walk[Nth(C, i)]]
               B == [i \in 1..c |-> ReachedAt(Nth(C, i))]
    <3>1. d \in Paths /\ Len(d) \in Nat
      BY <1>2
    <3>2. /\ c \in Nat /\ \A i \in 1..c : Nth(C, i) \in C
          /\ \A i, j \in 1..c : i < j => Less(Nth(C, i), Nth(C, j))
          /\ \A q \in C : \E i \in 1..c : q = Nth(C, i)
      BY <3>1, ChildFacts
    <3>3. ASSUME NEW q \in C PROVE Lists(Walk[q], ReachedAt(q))
      <4>1. q \in DOMAIN tree /\ q \in Paths /\ Len(q) = Len(d) + 1
        BY <1>2 DEF Children
      <4>2. Walk[q] = Came(Walk, q)
        BY <4>1, WalkIs
      <4>3. q # Root /\ Len(Root) <= Len(q) /\ m + 1 <= Len(q) + k
        BY <1>3, <2>1, <2>2, <3>1, <4>1
      <4>4. CASE Kind(q) # "dir"
        <5>1. Walk[q] = <<q>> /\ ReachedAt(q) = {q}
          BY <4>2, <4>4 DEF Came, ReachedAt
        <5>2. Lists(<<q>>, {q})
          BY <4>1 DEF Lists
        <5> QED BY <5>1, <5>2
      <4>5. CASE Kind(q) = "dir" /\ ~Visible(q)
        <5>1. Walk[q] = <<>> /\ ReachedAt(q) = {}
          BY <4>2, <4>3, <4>5 DEF Came, ReachedAt
        <5>2. Lists(<<>>, {})
          BY DEF Lists
        <5> QED BY <5>1, <5>2
      <4>6. CASE Kind(q) = "dir" /\ Visible(q)
        <5>1. ReachedAt(q) = Reached(q)
          BY <4>6 DEF ReachedAt
        <5>2. Lists(Walk[q], Reached(q))
          BY <2>1, <4>1, <4>3, <4>6
        <5> QED BY <5>1, <5>2
      <4> QED BY <4>4, <4>5, <4>6
    <3>4. Walk[d] = FlattenSeq(ss)
      <4>1. Walk[d] = Came(Walk, d)
        BY <3>1, WalkIs
      <4>2. Kind(d) = "dir" /\ ~(~Visible(d) /\ d # Root)
        BY <2>2
      <4> QED BY <4>1, <4>2 DEF Came
    <3>5. Len(ss) = c /\ (c = 0 => ss = <<>>)
      <4> HIDE DEF C, c
      <4> QED BY <3>2
    <3>6. \A i \in 1..c : Lists(ss[i], B[i])
      <4> HIDE DEF C
      <4> QED BY <3>2, <3>3
    <3>7. \A i, j \in 1..c : i < j => \A a \in B[i], b \in B[j] : Less(a, b)
      <4> SUFFICES ASSUME NEW i \in 1..c, NEW j \in 1..c, i < j, NEW a \in B[i], NEW b \in B[j]
                   PROVE  Less(a, b)
        OBVIOUS
      <4> DEFINE q == Nth(C, i)
                 r == Nth(C, j)
      <4>1. q \in C /\ r \in C /\ Less(q, r)
        BY <3>2
      <4>2. a \in ReachedAt(q) /\ b \in ReachedAt(r)
        OBVIOUS
      <4> HIDE DEF q, r
      <4> QED BY <3>1, <4>1, <4>2, ReachedInOrder
    <3>8. Joined(B, c) = Reached(d)
      <4>1. \A x : x \in Reached(d) <=> \E q \in C : x \in ReachedAt(q)
        BY <3>1, ReachedIs
      <4>2. \A i \in 1..c : B[i] = ReachedAt(Nth(C, i))
        OBVIOUS
      <4> HIDE DEF B, C, c
      <4>3. \A x : x \in Joined(B, c) <=> \E i \in 1..c : x \in B[i]
        BY DEF Joined
      <4>4. ASSUME NEW x PROVE (\E i \in 1..c : x \in B[i]) <=> \E q \in C : x \in ReachedAt(q)
        BY <3>2, <4>2
      <4> QED BY <4>1, <4>3, <4>4
    <3> HIDE DEF ss, B, c, C
    <3>9. Lists(FlattenSeq(ss), Joined(B, c))
      <4>1. c \in Nat
        BY <3>2
      <4> QED BY <3>5, <3>6, <3>7, <4>1, ListsMany
    <3> QED BY <3>4, <3>8, <3>9
  <2> QED BY <2>1, <2>2
<1>6. Nat \subseteq N
  <2> HIDE DEF N
  <2> QED BY <1>4, <1>5, Counting
<1>7. \A d \in DOMAIN tree : Listing(d, m + 1)
  <2>1. m + 1 \in N
    <3> HIDE DEF N
    <3> QED BY <1>6
  <2> HIDE DEF Listing
  <2> QED BY <2>1
<1>8. \A d \in DOMAIN tree : m + 1 <= Len(d) + (m + 1)
  BY <1>2
<1> HIDE DEF Start
<1> QED BY <1>7, <1>8 DEF Start

-----------------------------------------------------------------------------
(* FoldLeft takes what the walk comes to one after the other *)

FoldBody(g, base, seq, s) ==
  IF s = {} THEN base ELSE Look(g[s \ {Max(s)}], seq[Max(s)])

IsFold(g, base, seq) == g = [s \in SUBSET DOMAIN seq |-> FoldBody(g, base, seq, s)]

LEMMA FoldIsChosen ==
  ASSUME NEW base, NEW seq
  PROVE  FoldLeft(Look, base, seq) = (CHOOSE g : IsFold(g, base, seq))[DOMAIN seq]
BY DEF FoldLeft, MapThenFoldSet, IsFold, FoldBody

LEMMA FoldExists ==
  ASSUME NEW base, NEW seq \in Seq(Paths)
  PROVE  \E g : IsFold(g, base, seq)
<1> DEFINE S == DOMAIN seq
           Upto(n) == {s \in SUBSET S : Cardinality(s) <= n}
           Layer(g, n) == g = [s \in Upto(n) |-> FoldBody(g, base, seq, s)]
           N == {n \in Nat : \E g : Layer(g, n)}
<1>1. IsFiniteSet(S) /\ S \subseteq Nat /\ Cardinality(S) \in Nat
  <2>1. DOMAIN seq = 1..Len(seq) /\ Len(seq) \in Nat
    OBVIOUS
  <2>2. IsFiniteSet(1..Len(seq))
    BY <2>1, FS_Interval
  <2> QED BY <2>1, <2>2, FS_CardinalityType
<1>2. \A s \in SUBSET S : /\ IsFiniteSet(s) /\ Cardinality(s) \in Nat
                          /\ Cardinality(s) <= Cardinality(S)
  BY <1>1, FS_Subset, FS_CardinalityType
<1>3. \A s \in SUBSET S : s # {} => Max(s) \in s
  BY <1>1, <1>2, Greatest
<1> HIDE DEF S
<1>4. 0 \in N
  <2> DEFINE g == [s \in Upto(0) |-> base]
  <2>1. \A s \in Upto(0) : s = {}
    BY <1>2, FS_EmptySet
  <2>2. Layer(g, 0)
    BY <2>1 DEF FoldBody
  <2> HIDE DEF g
  <2> QED BY <2>2
<1>5. ASSUME NEW n \in N PROVE n + 1 \in N
  <2>1. PICK g : Layer(g, n)
    BY <1>5
  <2> DEFINE h == [s \in Upto(n + 1) |-> FoldBody(g, base, seq, s)]
  <2>2. ASSUME NEW s \in Upto(n + 1)
        PROVE  FoldBody(h, base, seq, s) = FoldBody(g, base, seq, s)
    <3>1. CASE s = {}
      BY <3>1 DEF FoldBody
    <3>2. CASE s # {}
      <4> DEFINE t == s \ {Max(s)}
      <4>1. Max(s) \in s
        BY <1>3, <3>2
      <4>2. t \in SUBSET S /\ Cardinality(t) = Cardinality(s) - 1
        BY <1>2, <4>1, FS_RemoveElement
      <4>3. t \in Upto(n) /\ t \in Upto(n + 1)
        BY <1>2, <4>2
      <4> HIDE DEF t
      <4>4. g[t] = FoldBody(g, base, seq, t)
        <5> HIDE DEF Upto
        <5> QED BY <2>1, <4>3
      <4>5. h[t] = FoldBody(g, base, seq, t)
        <5> HIDE DEF Upto
        <5> QED BY <4>3
      <4> HIDE DEF h
      <4> QED BY <3>2, <4>4, <4>5 DEF FoldBody, t
    <3> QED BY <3>1, <3>2
  <2>3. Layer(h, n + 1)
    <3>1. h = [s \in Upto(n + 1) |-> FoldBody(g, base, seq, s)]
      OBVIOUS
    <3> HIDE DEF h, Upto
    <3> QED BY <2>2, <3>1
  <2> HIDE DEF Layer
  <2> QED BY <1>5, <2>3
<1>6. Nat \subseteq N
  <2> HIDE DEF N
  <2> QED BY <1>4, <1>5, Counting
<1>7. PICK g : Layer(g, Cardinality(S))
  BY <1>1, <1>6
<1>8. Upto(Cardinality(S)) = SUBSET S
  BY <1>2
<1> HIDE DEF Upto
<1> QED BY <1>7, <1>8 DEF IsFold, S

(* What has been gathered after each of them. *)
Gathers(a, base, seq) ==
  /\ a[0] = base /\ a[Len(seq)] = FoldLeft(Look, base, seq)
  /\ \A k \in 0..Len(seq) - 1 : a[k + 1] = Look(a[k], seq[k + 1])

LEMMA FoldSteps ==
  ASSUME NEW base, NEW seq \in Seq(Paths)
  PROVE  \E a : Gathers(a, base, seq)
<1> DEFINE g == CHOOSE g : IsFold(g, base, seq)
           a == [k \in 0..Len(seq) |-> g[1..k]]
<1>1. FoldLeft(Look, base, seq) = g[DOMAIN seq] /\ IsFold(g, base, seq)
  BY FoldIsChosen, FoldExists
<1>2. DOMAIN seq = 1..Len(seq) /\ Len(seq) \in Nat
  OBVIOUS
<1> HIDE DEF g
<1>3. \A s \in SUBSET DOMAIN seq : g[s] = FoldBody(g, base, seq, s)
  BY <1>1 DEF IsFold
<1>4. a[0] = base
  <2>1. 1..0 = {} /\ {} \in SUBSET DOMAIN seq /\ 0 \in 0..Len(seq)
    BY <1>2
  <2>2. g[1..0] = base
    BY <1>3, <2>1 DEF FoldBody
  <2> QED BY <2>1, <2>2
<1>5. ASSUME NEW k \in 0..Len(seq) - 1 PROVE a[k + 1] = Look(a[k], seq[k + 1])
  <2>1. k \in Nat /\ k \in 0..Len(seq) /\ k + 1 \in 0..Len(seq) /\ k + 1 \in 1..Len(seq)
    BY <1>2
  <2>2. Max(1..k + 1) = k + 1
    <3>1. 1..k \subseteq Nat /\ k + 1 \in Nat /\ \A i \in 1..k : i < k + 1
      BY <2>1
    <3>2. 1..k + 1 = (1..k) \cup {k + 1}
      BY <2>1
    <3>3. Max((1..k) \cup {k + 1}) = k + 1
      BY <3>1, IsGreatest
    <3> QED BY <3>2, <3>3
  <2>3. (1..k + 1) \ {k + 1} = 1..k /\ 1..k + 1 # {} /\ 1..k + 1 \in SUBSET DOMAIN seq
    <3>1. (1..k + 1) \ {k + 1} = 1..k
      BY <2>1
    <3>2. k + 1 \in 1..k + 1
      BY <2>1
    <3>3. \A i \in 1..k + 1 : i \in 1..Len(seq)
      BY <1>2, <2>1
    <3> QED BY <1>2, <3>1, <3>2, <3>3
  <2>4. g[1..k + 1] = Look(g[1..k], seq[k + 1])
    BY <1>3, <2>2, <2>3 DEF FoldBody
  <2> QED BY <2>1, <2>4
<1>6. a[Len(seq)] = FoldLeft(Look, base, seq)
  <2>1. Len(seq) \in 0..Len(seq)
    BY <1>2
  <2> QED BY <1>1, <1>2, <2>1
<1> HIDE DEF a
<1> QED BY <1>4, <1>5, <1>6 DEF Gathers

-----------------------------------------------------------------------------
(* tools.go:135-173: what a search holds *)

Gathered == [hits: SUBSET Paths, blocked: BOOLEAN]

(* A file that one call of the callback counts, if there is room for it.   *)
Fits(p) == Visible(p) /\ tree[p].size <= maxSearchFileBytes /\ Text(p)

LEMMA LookIs ==
  ASSUME TreeOK, NEW acc \in Gathered, NEW p \in DOMAIN tree, ~Look(acc, p).blocked
  PROVE  /\ ~acc.blocked
         /\ IsFiniteSet(acc.hits) =>
              Look(acc, p).hits = IF Cardinality(acc.hits) < MaxSearchMatches /\ Fits(p)
                                  THEN acc.hits \cup {p} ELSE acc.hits
<1> DEFINE real == EvalSymlinks(p)
           skip == \/ acc.blocked \/ Cardinality(acc.hits) >= MaxSearchMatches
                   \/ ~Visible(p) \/ tree[p].size > maxSearchFileBytes
                   \/ real.err # "no"
<1>1. tree[p].size \in Nat /\ maxSearchFileBytes \in Nat /\ MaxSearchMatches \in Nat
  BY ContentAssumption DEF TreeOK, Inode
<1>2. CASE skip
  <2>1. Look(acc, p) = acc
    BY <1>2 DEF Look
  <2>2. ~acc.blocked
    BY <2>1
  <2>3. IsFiniteSet(acc.hits) => ~(Cardinality(acc.hits) < MaxSearchMatches /\ Fits(p))
    <3>1. IsFiniteSet(acc.hits) => Cardinality(acc.hits) \in Nat
      BY FS_CardinalityType
    <3>2. CASE Cardinality(acc.hits) >= MaxSearchMatches
      BY <1>1, <3>1, <3>2
    <3>3. CASE ~Visible(p) \/ tree[p].size > maxSearchFileBytes \/ real.err # "no"
      BY <1>1, <3>3 DEF Fits, Text
    <3> QED BY <1>2, <2>2, <3>2, <3>3
  <2> QED BY <2>1, <2>2, <2>3
<1>3. CASE ~skip
  <2>1. ~acc.blocked /\ Visible(p) /\ tree[p].size <= maxSearchFileBytes /\ real.err = "no"
    BY <1>1, <1>3
  <2>2. IsFiniteSet(acc.hits) => Cardinality(acc.hits) < MaxSearchMatches
    <3>1. IsFiniteSet(acc.hits) => Cardinality(acc.hits) \in Nat
      BY FS_CardinalityType
    <3> QED BY <1>1, <1>3, <3>1
  <2>3. CASE Kind(real.path) = "fifo"
    <3>1. Look(acc, p) = [acc EXCEPT !.blocked = TRUE]
      BY <1>3, <2>3 DEF Look
    <3>2. [acc EXCEPT !.blocked = TRUE].blocked
      BY DEF Gathered
    <3> QED BY <3>1, <3>2
  <2>4. CASE Kind(real.path) = "file" /\ tree[real.path].has
    <3>1. Look(acc, p) = [acc EXCEPT !.hits = @ \cup {p}]
      BY <1>3, <2>4 DEF Look
    <3>2. [acc EXCEPT !.hits = @ \cup {p}].hits = acc.hits \cup {p}
      BY DEF Gathered
    <3>3. Fits(p)
      BY <2>1, <2>4 DEF Fits, Text
    <3> QED BY <2>1, <2>2, <3>1, <3>2, <3>3
  <2>5. CASE Kind(real.path) # "fifo" /\ ~(Kind(real.path) = "file" /\ tree[real.path].has)
    <3>1. Look(acc, p) = acc
      BY <1>3, <2>5 DEF Look
    <3>2. ~Fits(p)
      BY <2>5 DEF Fits, Text
    <3> QED BY <2>1, <3>1, <3>2
  <2> QED BY <2>3, <2>4, <2>5
<1> QED BY <1>2, <1>3

LEMMA LookGathers ==
  ASSUME TreeOK, NEW acc \in Gathered, NEW p \in DOMAIN tree
  PROVE  Look(acc, p) \in Gathered
<1>1. p \in Paths
  BY NamesOnly DEF TreeOK
<1>2. \/ Look(acc, p) = acc
      \/ Look(acc, p) = [acc EXCEPT !.blocked = TRUE]
      \/ Look(acc, p) = [acc EXCEPT !.hits = @ \cup {p}]
  BY DEF Look
<1>3. [acc EXCEPT !.blocked = TRUE] \in Gathered
  BY DEF Gathered
<1>4. [acc EXCEPT !.hits = @ \cup {p}] \in Gathered
  BY <1>1 DEF Gathered
<1> QED BY <1>2, <1>3, <1>4

(* The hits h are the first of the files M, all of them if there is room.  *)
Held(h, M) ==
  /\ h \subseteq M /\ IsFiniteSet(h)
  /\ Cardinality(h) <= MaxSearchMatches
  /\ Cardinality(h) < MaxSearchMatches => h = M
  /\ \A x \in h, y \in M \ h : Less(x, y)

LEMMA HeldStep ==
  ASSUME NEW h, NEW M, Held(h, M), NEW p, \A x \in M : Less(x, p)
  PROVE  Held(IF Cardinality(h) < MaxSearchMatches THEN h \cup {p} ELSE h, M \cup {p})
<1>1. MaxSearchMatches \in Nat /\ Cardinality(h) \in Nat
  BY ContentAssumption, FS_CardinalityType DEF Held
<1>2. CASE Cardinality(h) < MaxSearchMatches
  <2> DEFINE k == h \cup {p}
  <2>1. IsFiniteSet(k) /\ Cardinality(k) <= Cardinality(h) + 1
    BY <1>1, FS_AddElement DEF Held
  <2>2. k = M \cup {p}
    BY <1>2 DEF Held
  <2>3. Cardinality(k) <= MaxSearchMatches
    <3>1. Cardinality(k) \in Nat
      BY <2>1, FS_CardinalityType
    <3> QED BY <1>1, <1>2, <2>1, <3>1
  <2>4. Held(k, M \cup {p})
    BY <2>1, <2>2, <2>3 DEF Held
  <2> QED BY <1>2, <2>4
<1>3. CASE ~(Cardinality(h) < MaxSearchMatches)
  <2>1. Held(h, M \cup {p})
    <3>1. \A x \in h : Less(x, p)
      BY DEF Held
    <3> QED BY <1>3, <3>1 DEF Held
  <2> QED BY <1>3, <2>1
<1> QED BY <1>2, <1>3

Wanted ==
  {p \in DOMAIN tree : /\ Navigable(p)
                       /\ tree[p].size <= maxSearchFileBytes
                       /\ Readable(p) \/ FoundOutside(p)}

LEMMA WantedIs ==
  ASSUME TreeOK, SiteOK
  PROVE  Wanted = {p \in Reached(Root) : Fits(p)}
<1>1. ASSUME NEW p \in DOMAIN tree, IsPrefix(Root, p)
      PROVE  Readable(p) \/ FoundOutside(p) <=> Text(p)
  BY <1>1, ReadableIs DEF TreeOK, Under
<1>2. ASSUME NEW p \in DOMAIN tree
      PROVE  p \in Wanted <=> p \in Reached(Root) /\ Fits(p)
  <2>1. Navigable(p) <=> p \in Reached(Root) /\ Visible(p)
    BY NavigableIs
  <2>2. p \in Reached(Root) => IsPrefix(Root, p)
    BY DEF Reached
  <2>3. p \in Wanted <=> /\ Navigable(p) /\ tree[p].size <= maxSearchFileBytes
                         /\ Readable(p) \/ FoundOutside(p)
    BY DEF Wanted
  <2> QED BY <1>1, <2>1, <2>2, <2>3 DEF Fits
<1>3. Wanted \subseteq DOMAIN tree /\ Reached(Root) \subseteq DOMAIN tree
  BY DEF Wanted, Reached
<1> QED BY <1>2, <1>3

LEMMA SearchHolds ==
  ASSUME TreeOK, SiteOK, ~Search.blocked
  PROVE  Held(Search.hits, {p \in Reached(Root) : Fits(p)})
<1> DEFINE w == Walk[Root]
           Met(i) == {x \in Reached(Root) : Fits(x) /\ \E j \in 1..i : w[j] = x}
<1>1. Root \in DOMAIN tree /\ Kind(Root) = "dir" /\ Len(Root) <= Len(Root)
  <2>1. Len(Root) \in Nat
    BY ContentAssumption
  <2> QED BY <2>1, RootIsDir
<1>2. Lists(w, Reached(Root))
  BY <1>1, WalkLists
<1>3. w \in Seq(Paths) /\ Len(w) \in Nat
  BY <1>2 DEF Lists
<1> HIDE DEF w
<1>4. PICK a : Gathers(a, NoHits, w)
  BY <1>3, FoldSteps
<1>5. /\ a[0] = NoHits /\ a[Len(w)] = Search
      /\ \A k \in 0..Len(w) - 1 : a[k + 1] = Look(a[k], w[k + 1])
  BY <1>4 DEF Gathers, Search, w
<1> DEFINE N == {i \in Nat : i <= Len(w) =>
                   a[i] \in Gathered /\ (~a[i].blocked => Held(a[i].hits, Met(i)))}
<1>6. 0 \in N
  <2>1. a[0] \in Gathered /\ a[0].hits = {}
    BY <1>5 DEF NoHits, Gathered
  <2>2. Met(0) = {}
    OBVIOUS
  <2>3. Held({}, {})
    BY FS_EmptySet, ContentAssumption DEF Held
  <2> HIDE DEF Met
  <2> QED BY <2>1, <2>2, <2>3
<1>7. ASSUME NEW i \in N PROVE i + 1 \in N
  <2> SUFFICES ASSUME i + 1 <= Len(w)
               PROVE  a[i + 1] \in Gathered /\ (~a[i + 1].blocked => Held(a[i + 1].hits, Met(i + 1)))
    OBVIOUS
  <2> DEFINE p == w[i + 1]
             h == a[i].hits
  <2>1. i \in Nat /\ i \in 0..Len(w) - 1 /\ i + 1 \in 1..Len(w) /\ i <= Len(w)
    BY <1>3
  <2>2. a[i] \in Gathered /\ (~a[i].blocked => Held(h, Met(i)))
    BY <2>1
  <2>3. p \in Reached(Root) /\ p \in DOMAIN tree
    BY <1>2, <2>1 DEF Lists, Reached
  <2>4. a[i + 1] = Look(a[i], p)
    BY <1>5, <2>1
  <2>5. Met(i + 1) = IF Fits(p) THEN Met(i) \cup {p} ELSE Met(i)
    <3>1. \A x : (\E j \in 1..i + 1 : w[j] = x) <=> x = p \/ \E j \in 1..i : w[j] = x
      <4>1. \A j \in 1..i + 1 : j = i + 1 \/ j \in 1..i
        BY <2>1
      <4>2. i + 1 \in 1..i + 1 /\ \A j \in 1..i : j \in 1..i + 1
        BY <2>1
      <4> QED BY <4>1, <4>2
    <3> HIDE DEF p
    <3> QED BY <2>3, <3>1
  <2>6. \A x \in Met(i) : Less(x, p)
    <3> SUFFICES ASSUME NEW j \in 1..i PROVE Less(w[j], p)
      OBVIOUS
    <3>1. j \in 1..Len(w) /\ j < i + 1
      BY <1>3, <2>1
    <3> QED BY <1>2, <2>1, <3>1 DEF Lists
  <2> HIDE DEF p, Met
  <2>7. a[i + 1] \in Gathered
    BY <2>2, <2>3, <2>4, LookGathers
  <2>8. ASSUME ~a[i + 1].blocked PROVE Held(a[i + 1].hits, Met(i + 1))
    <3>1. ~Look(a[i], p).blocked
      BY <2>4, <2>8
    <3>2. ~a[i].blocked
      BY <2>2, <2>3, <3>1, LookIs
    <3>3. Held(h, Met(i)) /\ IsFiniteSet(h)
      BY <2>2, <3>2 DEF Held
    <3>4. Look(a[i], p).hits = IF Cardinality(h) < MaxSearchMatches /\ Fits(p)
                               THEN h \cup {p} ELSE h
      BY <2>2, <2>3, <3>1, <3>3, LookIs
    <3> HIDE DEF h
    <3>5. CASE Fits(p)
      <4>1. Held(IF Cardinality(h) < MaxSearchMatches THEN h \cup {p} ELSE h, Met(i) \cup {p})
        BY <2>6, <3>3, HeldStep
      <4>2. a[i + 1].hits = IF Cardinality(h) < MaxSearchMatches THEN h \cup {p} ELSE h
        BY <2>4, <3>4, <3>5
      <4> QED BY <2>5, <3>5, <4>1, <4>2
    <3>6. CASE ~Fits(p)
      BY <2>4, <2>5, <3>3, <3>4, <3>6
    <3> QED BY <3>5, <3>6
  <2> QED BY <2>7, <2>8
<1>8. Nat \subseteq N
  <2> HIDE DEF N
  <2> QED BY <1>6, <1>7, Counting
<1>9. Held(Search.hits, Met(Len(w)))
  <2>1. Len(w) \in N
    <3> HIDE DEF N
    <3> QED BY <1>3, <1>8
  <2> HIDE DEF Met
  <2> QED BY <1>3, <1>5, <2>1
<1>10. Met(Len(w)) = {p \in Reached(Root) : Fits(p)}
  BY <1>2 DEF Lists
<1> HIDE DEF Met
<1> QED BY <1>9, <1>10

LEMMA SearchAgrees ==
  ASSUME TreeOK, SiteOK, ~Search.blocked
  PROVE  /\ Search.hits \subseteq Wanted
         /\ Cardinality(Search.hits) = Least(Cardinality(Wanted), MaxSearchMatches)
         /\ \A p \in Search.hits, q \in Wanted \ Search.hits : Less(p, q)
<1> DEFINE h == Search.hits
<1>1. Held(h, Wanted)
  BY SearchHolds, WantedIs
<1>2. IsFiniteSet(Wanted)
  <2>1. Wanted \subseteq DOMAIN tree
    BY DEF Wanted
  <2> QED BY <2>1, FS_Subset DEF SiteOK
<1> HIDE DEF h
<1>3. /\ Cardinality(h) \in Nat /\ Cardinality(Wanted) \in Nat
      /\ Cardinality(h) <= Cardinality(Wanted) /\ MaxSearchMatches \in Nat
  <2>1. h \subseteq Wanted /\ IsFiniteSet(h)
    BY <1>1 DEF Held
  <2> QED BY <1>2, <2>1, FS_Subset, FS_CardinalityType, ContentAssumption
<1>4. Cardinality(h) = Least(Cardinality(Wanted), MaxSearchMatches)
  <2>1. CASE Cardinality(h) < MaxSearchMatches
    <3>1. h = Wanted
      BY <1>1, <2>1 DEF Held
    <3> QED BY <2>1, <3>1 DEF Least
  <2>2. CASE ~(Cardinality(h) < MaxSearchMatches)
    <3>1. Cardinality(h) = MaxSearchMatches
      BY <1>1, <1>3, <2>2 DEF Held
    <3> QED BY <1>3, <3>1 DEF Least
  <2> QED BY <2>1, <2>2
<1> QED BY <1>1, <1>4 DEF Held, h

-----------------------------------------------------------------------------
(* The invariant, and the theorems *)

(* TreeOK, SiteOK: an editor never harms the tree itself, nor the way to   *)
(* the root.  An open file stays in the tree, and what Stat and Open follow*)
(* is a path.  SeenFile: what Stat saw is there as long as nobody edits.   *)
ReadInv ==
  /\ TreeOK
  /\ abs \in Paths
  /\ pc = "read" => file \in DOMAIN tree
  /\ WholeMeansWhole

SeenFile ==
  pc = "open" /\ ~stale =>
    EvalSymlinks(abs).err = "no" /\ Kind(EvalSymlinks(abs).path) = "file"

ContentInv == ReadInv /\ SiteOK /\ SearchAgreesWithListing /\ SeenFile

LEMMA ResolvesToPath ==
  ASSUME TreeOK, NEW rel \in Requests, Resolve(rel).err = "no"
  PROVE  Resolve(rel).path \in Paths
<1> DEFINE path == Root \o rel.segs
           found == resolveExistingAncestor(path)
<1>1. path \in Paths
  <2>1. Root \in Paths /\ rel.segs \in Paths
    BY ContentAssumption DEF Paths
  <2> QED BY <2>1, PathFacts
<1>2. PICK n : Deepest(path, n)
  BY <1>1, DeepestExists
<1> DEFINE real == EvalSymlinks(Segs(path, n))
<1> HIDE DEF path
<1>3. found = [err |-> real.err, path |-> real.path \o Rest(path, n)]
  BY <1>1, <1>2, AncestorIs
<1>4. n \in 0..Len(path) /\ Segs(path, n) \in Paths /\ Rest(path, n) \in Paths
  BY <1>1, <1>2, PathFacts DEF Deepest
<1>5. real.path \in Paths
  BY <1>4, EvalFinds DEF Found, Result
<1>6. found.path \in Paths
  <2> HIDE DEF found, real
  <2>1. real.path \o Rest(path, n) \in Paths
    BY <1>4, <1>5, PathFacts
  <2> QED BY <1>3, <2>1
<1>7. <<>> \in Paths
  BY DEF Paths
<1>8. Resolve(rel).path \in {found.path, <<>>}
  <2>1. \/ Resolve(rel) = [err |-> "invalid", path |-> <<>>]
        \/ Resolve(rel) = [found EXCEPT !.err = "escapes"]
        \/ Resolve(rel) = found
    BY DEF Resolve, path
  <2> HIDE DEF found, real
  <2>2. [found EXCEPT !.err = "escapes"].path = found.path
    BY <1>3
  <2>3. [err |-> "invalid", path |-> <<>>].path = <<>>
    OBVIOUS
  <2> QED BY <2>1, <2>2, <2>3
<1> QED BY <1>6, <1>7, <1>8

LEMMA CanonicalExists ==
  ASSUME TreeOK, NEW q \in Paths, Canonical(q)
  PROVE  q \in DOMAIN tree
<1>1. CASE Len(q) > 0
  BY <1>1 DEF Canonical, Kind
<1>2. CASE Len(q) = 0
  <2>1. q = <<>>
    BY <1>2 DEF Paths
  <2> QED BY <2>1 DEF TreeOK
<1>3. Len(q) \in Nat
  BY PathFacts
<1> QED BY <1>1, <1>2, <1>3

LEMMA GrownInode ==
  ASSUME NEW r \in Inode
  PROVE  [r EXCEPT !.size = @ + 1] \in Inode /\ [r EXCEPT !.size = @ + 1].kind = r.kind
BY DEF Inode

(* As long as the tree stays, so does what a search is compared with.      *)
LEMMA WantedStays ==
  ASSUME tree' = tree
  PROVE  Wanted' = Wanted
<1>1. ASSUME NEW p PROVE Kind(p)' = Kind(p) /\ Children(p)' = Children(p)
  BY DEF Kind, Children
<1>2. ASSUME NEW p PROVE EvalSymlinks(p)' = EvalSymlinks(p)
  BY DEF EvalSymlinks, Follow, Target, First, AllDirs, Kind
<1>3. ASSUME NEW rel PROVE Resolve(rel)' = Resolve(rel)
  BY DEF Resolve, resolveExistingAncestor, EvalSymlinks, Follow, Target, First, AllDirs, Kind
<1>4. ASSUME NEW rel PROVE ListDir(rel)' = ListDir(rel)
  BY <1>1, <1>2, <1>3 DEF ListDir
<1>5. ASSUME NEW p PROVE Readable(p)' <=> Readable(p)
  BY <1>1, <1>2, <1>3 DEF Readable
<1>6. ASSUME NEW p, NEW dir PROVE Listed(p, dir)' <=> Listed(p, dir)
  BY <1>4 DEF Listed
<1>7. ASSUME NEW p PROVE Navigable(p)' <=> Navigable(p)
  BY <1>6 DEF Navigable
<1>8. ASSUME NEW p PROVE FoundOutside(p)' <=> FoundOutside(p)
  BY <1>1, <1>2 DEF FoundOutside
<1> QED BY <1>5, <1>7, <1>8 DEF Wanted

LEMMA AgreesMeans ==
  SearchAgreesWithListing <=>
    (pc = "answer" /\ reply.kind = "hits" =>
       /\ reply.hits \subseteq Wanted
       /\ Cardinality(reply.hits) = Least(Cardinality(Wanted), MaxSearchMatches)
       /\ \A p \in reply.hits, q \in Wanted \ reply.hits : Less(p, q))
BY DEF SearchAgreesWithListing, Wanted

LEMMA SearchStep ==
  ASSUME TreeOK, SiteOK, CallSearchContent
  PROVE  SearchAgreesWithListing'
<1>1. tree' = tree
  BY DEF CallSearchContent
<1>2. CASE Search.blocked
  <2>1. pc' = "blocked"
    BY <1>2 DEF CallSearchContent
  <2> QED BY <2>1 DEF SearchAgreesWithListing
<1>3. CASE ~Search.blocked
  <2>1. reply' = [kind |-> "hits", hits |-> Search.hits]
    BY <1>3 DEF CallSearchContent, Answer
  <2>2. reply'.hits = Search.hits
    BY <2>1
  <2> SUFFICES /\ reply'.hits \subseteq Wanted'
               /\ Cardinality(reply'.hits) = Least(Cardinality(Wanted'), MaxSearchMatches)
               /\ \A p \in reply'.hits, q \in Wanted' \ reply'.hits : Less(p, q)
    BY DEF SearchAgreesWithListing, Wanted
  <2>3. Wanted' = Wanted
    BY <1>1, WantedStays
  <2>4. /\ Search.hits \subseteq Wanted
        /\ Cardinality(Search.hits) = Least(Cardinality(Wanted), MaxSearchMatches)
        /\ \A p \in Search.hits, q \in Wanted \ Search.hits : Less(p, q)
    BY <1>3, <2>3, SearchAgrees
  <2> QED BY <2>2, <2>3, <2>4
<1> QED BY <1>2, <1>3

(* Any other step answers with something else, or leaves all as it is.     *)
LEMMA NoSearchStep ==
  ASSUME [Next]_vars, ~CallSearchContent, SearchAgreesWithListing
  PROVE  SearchAgreesWithListing'
<1>1. CASE UNCHANGED vars
  <2>1. Wanted' = Wanted /\ pc' = pc /\ reply' = reply
    BY <1>1, WantedStays DEF vars
  <2>2. pc = "answer" /\ reply.kind = "hits" =>
          /\ reply.hits \subseteq Wanted
          /\ Cardinality(reply.hits) = Least(Cardinality(Wanted), MaxSearchMatches)
          /\ \A p \in reply.hits, q \in Wanted \ reply.hits : Less(p, q)
    BY AgreesMeans
  <2>3. (pc' = "answer" /\ reply'.kind = "hits" =>
          /\ reply'.hits \subseteq Wanted'
          /\ Cardinality(reply'.hits) = Least(Cardinality(Wanted'), MaxSearchMatches)
          /\ \A p \in reply'.hits, q \in Wanted' \ reply'.hits : Less(p, q))
    BY <2>1, <2>2
  <2> QED BY <2>3 DEF SearchAgreesWithListing, Wanted
<1>2. CASE Next
  <2>1. pc' = "answer" => reply'.kind # "hits"
    <3>1. CASE CallNothing
      BY <3>1 DEF CallNothing, Answer, Error
    <3>2. ASSUME NEW rel \in Requests, CallListDir(rel) PROVE reply'.kind # "hits"
      BY <3>2 DEF CallListDir, Answer, ListDir
    <3>3. ASSUME NEW rel \in Requests, CallReadFile(rel) PROVE pc' = "answer" => reply'.kind # "hits"
      BY <3>3 DEF CallReadFile, Answer, Error
    <3>4. CASE Stat
      BY <3>4 DEF Stat, Answer, Error
    <3>5. CASE Open
      BY <3>5 DEF Open, Answer, Error
    <3>6. CASE Read
      BY <3>6 DEF Read, Answer, Error
    <3>7. CASE Return
      BY <3>7 DEF Return
    <3>8. CASE Edit
      BY <3>8 DEF Edit
    <3> QED BY <1>2, <3>1, <3>2, <3>3, <3>4, <3>5, <3>6, <3>7, <3>8 DEF Next
  <2> QED BY <2>1 DEF SearchAgreesWithListing
<1> QED BY <1>1, <1>2

(* What an edit does to the tree: one entry that is no directory changes,  *)
(* and the file that is being read is not taken from it.                   *)
LEMMA EditIs ==
  ASSUME TreeOK, Edit
  PROVE  \E p \in DOMAIN tree :
           /\ Kind(p) # "dir" /\ p # <<>>
           /\ \/ \E node \in Inode : tree' = [tree EXCEPT ![p] = node]
              \/ /\ tree' = [q \in DOMAIN tree \ {p} |-> tree[q]]
                 /\ pc = "read" => p # file
<1>1. PICK p \in DOMAIN tree :
        Grow(p) \/ Unlink(p) \/ \E node \in Written : Replace(p, node)
  BY DEF Edit
<1>2. Kind(p) # "dir" /\ p # <<>>
  BY <1>1 DEF Grow, Unlink, Replace, Movable, Kind, TreeOK
<1>3. CASE Grow(p)
  <2>1. tree' = [tree EXCEPT ![p] = [tree[p] EXCEPT !.size = @ + 1]]
    BY <1>3 DEF Grow
  <2>2. [tree[p] EXCEPT !.size = @ + 1] \in Inode
    BY GrownInode DEF TreeOK
  <2> QED BY <1>2, <2>1, <2>2
<1>4. CASE Unlink(p)
  BY <1>2, <1>4 DEF Unlink, Movable
<1>5. ASSUME NEW node \in Written, Replace(p, node)
      PROVE  node \in Inode /\ tree' = [tree EXCEPT ![p] = node]
  BY <1>5, ContentAssumption DEF Replace
<1> QED BY <1>1, <1>2, <1>3, <1>4, <1>5

(* A directory stays, and so does the way to the root.                     *)
LEMMA SiteStays ==
  ASSUME TreeOK, SiteOK, [Next]_vars
  PROVE  SiteOK'
<1>1. CASE tree' = tree
  BY <1>1 DEF SiteOK, AllDirs, Kind
<1>2. CASE Edit
  <2>1. PICK p \in DOMAIN tree :
          /\ Kind(p) # "dir"
          /\ \/ \E node \in Inode : tree' = [tree EXCEPT ![p] = node]
             \/ tree' = [q \in DOMAIN tree \ {p} |-> tree[q]]
    BY <1>2, EditIs
  <2>2. DOMAIN tree' \subseteq DOMAIN tree
    BY <2>1
  <2>3. ASSUME NEW q \in DOMAIN tree, Kind(q) = "dir"
        PROVE  Kind(q)' = "dir"
    <3>1. q # p
      BY <2>1, <2>3
    <3>2. q \in DOMAIN tree' /\ tree'[q] = tree[q]
      BY <2>1, <3>1
    <3> QED BY <2>3, <3>2 DEF Kind
  <2>4. IsFiniteSet(DOMAIN tree')
    BY <2>2, FS_Subset DEF SiteOK
  <2>5. AllDirs(Root, Len(Root))'
    <3> SUFFICES ASSUME NEW k \in 1..Len(Root) PROVE Kind(Segs(Root, k))' = "dir"
      BY DEF AllDirs
    <3>1. Kind(Segs(Root, k)) = "dir"
      BY DEF SiteOK, AllDirs
    <3>2. Segs(Root, k) \in DOMAIN tree
      BY <3>1 DEF Kind
    <3> QED BY <2>3, <3>1, <3>2
  <2> QED BY <2>4, <2>5 DEF SiteOK
<1>3. tree' = tree \/ Edit
  BY DEF Next, vars, CallNothing, CallSearchContent, CallListDir, CallReadFile, Stat, Open, Read, Return
<1> QED BY <1>1, <1>2, <1>3

LEMMA ContentInit == Init => ContentInv
<1> SUFFICES ASSUME Init PROVE ContentInv
  OBVIOUS
<1>1. \A n \in 0..Len(Root) : Segs(Root, n) \in DOMAIN tree /\ Kind(Segs(Root, n)) = "dir"
  BY ContentAssumption DEF Init, Segs, Kind
<1>2. Root \in Seq(Nat) /\ Len(Root) \in Nat
  BY ContentAssumption
<1>3. TreeOK
  <2>1. DOMAIN tree \subseteq Seq(Nat) /\ \A p \in DOMAIN tree : tree[p] \in Inode
    BY ContentAssumption DEF Init
  <2>2. Segs(Root, 0) = <<>> /\ 0 \in 0..Len(Root)
    BY <1>2 DEF Segs
  <2>3. <<>> \in DOMAIN tree /\ Kind(<<>>) = "dir"
    BY <1>1, <2>2
  <2> QED BY <2>1, <2>3 DEF TreeOK, Kind
<1>4. SiteOK
  <2>1. IsFiniteSet(DOMAIN tree)
    BY ContentAssumption DEF Init
  <2>2. AllDirs(Root, Len(Root))
    BY <1>1, <1>2 DEF AllDirs
  <2> QED BY <2>1, <2>2 DEF SiteOK
<1>5. abs \in Paths
  BY DEF Init, Paths
<1>6. WholeMeansWhole /\ pc # "read" /\ SearchAgreesWithListing /\ SeenFile
  BY DEF Init, WholeMeansWhole, SearchAgreesWithListing, SeenFile
<1> QED BY <1>3, <1>4, <1>5, <1>6 DEF ContentInv, ReadInv

LEMMA ReadStep == ReadInv /\ [Next]_vars => ReadInv'
<1> SUFFICES ASSUME ReadInv, [Next]_vars PROVE ReadInv'
  OBVIOUS
<1> USE DEF ReadInv
<1>1. CASE CallNothing
  BY <1>1 DEF CallNothing, Answer, Error, TreeOK, WholeMeansWhole
<1>2. CASE CallSearchContent
  <2>1. TreeOK' /\ abs' \in Paths
    BY <1>2 DEF CallSearchContent, TreeOK
  <2>2. \/ pc' = "blocked"
        \/ pc' = "answer" /\ reply' = [kind |-> "hits", hits |-> Search.hits]
    BY <1>2 DEF CallSearchContent, Answer
  <2> QED BY <2>1, <2>2 DEF WholeMeansWhole
<1>3. ASSUME NEW rel \in Requests, CallListDir(rel) PROVE ReadInv'
  <2>1. TreeOK' /\ abs' \in Paths
    BY <1>3 DEF CallListDir, TreeOK
  <2>2. pc' = "answer" /\ reply' = ListDir(rel)
    BY <1>3 DEF CallListDir, Answer
  <2>3. ListDir(rel).kind \in {"error", "list"}
    BY DEF ListDir
  <2> QED BY <2>1, <2>2, <2>3 DEF WholeMeansWhole
<1>4. ASSUME NEW rel \in Requests, CallReadFile(rel) PROVE ReadInv'
  <2>1. TreeOK'
    BY <1>4 DEF CallReadFile, TreeOK
  <2>2. CASE Resolve(rel).err = "no"
    <3>1. pc' = "stat" /\ abs' = Resolve(rel).path
      BY <1>4, <2>2 DEF CallReadFile
    <3> QED BY <2>1, <2>2, <3>1, ResolvesToPath DEF WholeMeansWhole
  <2>3. CASE Resolve(rel).err # "no"
    <3>1. pc' = "answer" /\ reply' = [kind |-> "error"] /\ abs' = abs
      BY <1>4, <2>3 DEF CallReadFile, Answer, Error
    <3> QED BY <2>1, <3>1 DEF WholeMeansWhole
  <2> QED BY <2>2, <2>3
<1>5. CASE Stat
  <2>1. TreeOK' /\ abs' \in Paths
    BY <1>5 DEF Stat, TreeOK
  <2>2. \/ pc' = "open"
        \/ pc' = "answer" /\ reply' = [kind |-> "error"]
    BY <1>5 DEF Stat, Answer, Error
  <2> QED BY <2>1, <2>2 DEF WholeMeansWhole
<1>6. CASE Open
  <2>1. TreeOK' /\ abs' \in Paths /\ tree' = tree
    BY <1>6 DEF Open, TreeOK
  <2>2. CASE EvalSymlinks(abs).err = "no" /\ Kind(EvalSymlinks(abs).path) # "fifo"
    <3>1. pc' = "read" /\ file' = EvalSymlinks(abs).path
      BY <1>6, <2>2 DEF Open
    <3>2. EvalSymlinks(abs).path \in Paths /\ Canonical(EvalSymlinks(abs).path)
      BY <2>2, EvalFinds DEF Found, Result
    <3>3. EvalSymlinks(abs).path \in DOMAIN tree
      BY <3>2, CanonicalExists
    <3> QED BY <2>1, <3>1, <3>3 DEF WholeMeansWhole
  <2>3. CASE EvalSymlinks(abs).err # "no"
    <3>1. pc' = "answer" /\ reply' = [kind |-> "error"]
      BY <1>6, <2>3 DEF Open, Answer, Error
    <3> QED BY <2>1, <3>1 DEF WholeMeansWhole
  <2>4. CASE EvalSymlinks(abs).err = "no" /\ Kind(EvalSymlinks(abs).path) = "fifo"
    <3>1. pc' = "blocked"
      BY <1>6, <2>4 DEF Open
    <3> QED BY <2>1, <3>1 DEF WholeMeansWhole
  <2> QED BY <2>2, <2>3, <2>4
<1>7. CASE Read
  <2>1. TreeOK' /\ abs' \in Paths /\ tree' = tree /\ file' = file /\ pc' = "answer"
    BY <1>7 DEF Read, Answer, TreeOK
  <2> DEFINE size == tree[file].size
             buf == Least(size, MaxFileBytes + 1)
  <2>2. size \in Nat /\ MaxFileBytes \in Nat
    <3>1. file \in DOMAIN tree
      BY <1>7 DEF Read
    <3> QED BY <3>1, ContentAssumption DEF TreeOK, Inode
  <2>3. \/ reply' = [kind |-> "error"]
        \/ reply' = IF buf > MaxFileBytes THEN [kind |-> "cut", size |-> MaxFileBytes]
                                          ELSE [kind |-> "whole", size |-> buf]
    BY <1>7 DEF Read, Answer, Error
  <2>4. WholeMeansWhole'
    <3>1. tree'[file'].size = size
      BY <2>1
    <3> HIDE DEF size
    <3>2. CASE reply' = [kind |-> "error"]
      BY <3>2 DEF WholeMeansWhole
    <3>3. CASE reply' # [kind |-> "error"] /\ buf > MaxFileBytes
      <4>1. reply' = [kind |-> "cut", size |-> MaxFileBytes] /\ size > MaxFileBytes
        BY <2>2, <2>3, <3>3 DEF Least
      <4> QED BY <3>1, <4>1 DEF WholeMeansWhole
    <3>4. CASE reply' # [kind |-> "error"] /\ ~(buf > MaxFileBytes)
      <4>1. reply' = [kind |-> "whole", size |-> size]
        BY <2>2, <2>3, <3>4 DEF Least
      <4> QED BY <3>1, <4>1 DEF WholeMeansWhole
    <3> QED BY <3>2, <3>3, <3>4
  <2> QED BY <2>1, <2>4
<1>8. CASE Return
  <2>1. TreeOK' /\ abs' = <<>> /\ pc' = "idle"
    BY <1>8 DEF Return, TreeOK
  <2>2. <<>> \in Paths
    BY DEF Paths
  <2> QED BY <2>1, <2>2 DEF WholeMeansWhole
<1>9. CASE Edit
  <2>1. pc' = pc /\ pc # "answer" /\ abs' = abs /\ file' = file
    BY <1>9 DEF Edit
  <2>2. PICK p \in DOMAIN tree :
          /\ p # <<>>
          /\ \/ \E node \in Inode : tree' = [tree EXCEPT ![p] = node]
             \/ /\ tree' = [q \in DOMAIN tree \ {p} |-> tree[q]]
                /\ pc = "read" => p # file
    BY <1>9, EditIs
  <2>3. CASE \E node \in Inode : tree' = [tree EXCEPT ![p] = node]
    <3>1. PICK node \in Inode : tree' = [tree EXCEPT ![p] = node]
      BY <2>3
    <3>2. DOMAIN tree' = DOMAIN tree /\ tree'[<<>>] = tree[<<>>]
      BY <2>2, <3>1
    <3>3. \A q \in DOMAIN tree' : tree'[q] \in Inode
      BY <3>1 DEF TreeOK
    <3> QED BY <2>1, <3>2, <3>3 DEF TreeOK, WholeMeansWhole
  <2>4. CASE tree' = [q \in DOMAIN tree \ {p} |-> tree[q]] /\ (pc = "read" => p # file)
    <3>1. TreeOK' /\ (pc = "read" => file \in DOMAIN tree')
      BY <2>2, <2>4 DEF TreeOK
    <3> QED BY <2>1, <3>1 DEF WholeMeansWhole
  <2> QED BY <2>2, <2>3, <2>4
<1>10. CASE UNCHANGED vars
  BY <1>10 DEF vars, TreeOK, WholeMeansWhole
<1> QED BY <1>1, <1>2, <1>3, <1>4, <1>5, <1>6, <1>7, <1>8, <1>9, <1>10 DEF Next

LEMMA SeenStays ==
  ASSUME tree' = tree, abs' = abs
  PROVE  /\ EvalSymlinks(abs)' = EvalSymlinks(abs)
         /\ Kind(EvalSymlinks(abs).path)' = Kind(EvalSymlinks(abs).path)
<1>1. EvalSymlinks(abs)' = EvalSymlinks(abs)
  BY DEF EvalSymlinks, Follow, Target, First, AllDirs, Kind
<1> QED BY <1>1 DEF Kind

(* Stat goes on to Open only with a file, and edits are what makes it      *)
(* stale.                                                                  *)
LEMMA SeenStep ==
  ASSUME SeenFile, [Next]_vars
  PROVE  SeenFile'
<1>1. CASE UNCHANGED vars
  <2>1. tree' = tree /\ abs' = abs /\ pc' = pc /\ stale' = stale
    BY <1>1 DEF vars
  <2>2. pc' = "open" /\ ~stale' =>
          EvalSymlinks(abs)'.err = "no" /\ Kind(EvalSymlinks(abs).path)' = "file"
    BY <2>1, SeenStays DEF SeenFile
  <2> QED BY <2>2 DEF SeenFile
<1>2. CASE Stat
  <2>1. tree' = tree /\ abs' = abs
    BY <1>2 DEF Stat
  <2>2. pc' = "open" =>
          EvalSymlinks(abs).err = "no" /\ Kind(EvalSymlinks(abs).path) = "file"
    BY <1>2 DEF Stat, Answer
  <2>3. pc' = "open" =>
          EvalSymlinks(abs)'.err = "no" /\ Kind(EvalSymlinks(abs).path)' = "file"
    BY <2>1, <2>2, SeenStays
  <2> QED BY <2>3 DEF SeenFile
<1>3. CASE Edit
  <2>1. stale' = TRUE
    BY <1>3 DEF Edit
  <2> QED BY <2>1 DEF SeenFile
<1>4. pc' # "open" \/ Stat \/ Edit \/ UNCHANGED vars
  BY DEF Next, CallNothing, CallSearchContent, CallListDir, CallReadFile, Open, Read, Return, Answer
<1> QED BY <1>1, <1>2, <1>3, <1>4 DEF SeenFile

LEMMA ContentStep == ContentInv /\ [Next]_vars => ContentInv'
<1> SUFFICES ASSUME ContentInv, [Next]_vars PROVE ContentInv'
  OBVIOUS
<1>1. ReadInv'
  BY ReadStep DEF ContentInv, ReadInv
<1>2. SiteOK'
  BY SiteStays DEF ContentInv, ReadInv
<1>3. SearchAgreesWithListing'
  BY SearchStep, NoSearchStep DEF ContentInv, ReadInv
<1>4. SeenFile'
  BY SeenStep DEF ContentInv
<1> QED BY <1>1, <1>2, <1>3, <1>4 DEF ContentInv, ReadInv

LEMMA ContentIsKept == Spec => []ContentInv
BY ContentInit, ContentStep, PTL DEF Spec

(* paths.go:18-20, 36-61 and 75-79: whatever the links of the tree, a path *)
(* that Resolve accepts lies under the root, each existing part of it with *)
(* its links followed, and a path that exists under the root is accepted   *)
(* and leads where it is meant to.                                         *)
THEOREM ResolveStaysInside == Spec => []ResolvedInside
<1>1. ContentInv => ResolvedInside
  BY ResolveIsInside DEF ContentInv, ReadInv
<1> QED BY <1>1, ContentIsKept, PTL

(* tools.go:102-105: a text that read_file passes off as whole is whole at *)
(* the time it was read, and one that it marks as cut was too long, however*)
(* the author edits between the calls of the system.                       *)
THEOREM WholeTextsAreWhole == Spec => []WholeMeansWhole
<1>1. ContentInv => WholeMeansWhole
  BY DEF ContentInv, ReadInv
<1> QED BY <1>1, ContentIsKept, PTL

(* tools.go:135-158: however the tree's links are laid, the hits of a      *)
(* search that answers are files with the words, of a searchable size, that*)
(* list_dir leads to and that read_file opens, or would open if links did  *)
(* not lead out of the root to them: all of those if there is room for     *)
(* them, else the first that a walk meets.                                 *)
THEOREM SearchSeesWhatIsShown == Spec => []SearchAgreesWithListing
<1>1. ContentInv => SearchAgreesWithListing
  BY DEF ContentInv, ReadInv
<1> QED BY <1>1, ContentIsKept, PTL

(* tools.go:83-94: whatever the tree and the edits, a read_file that waits *)
(* for the writer of a FIFO has met one that an edit put there after       *)
(* ReadFile looked.                                                        *)
THEOREM FifosAreNotOpened == Spec => FifosAreRefused
<1>1. ContentInv /\ [Next]_vars => [OpenAsSeen]_vars
  <2> SUFFICES ASSUME ContentInv, Next, pc = "open", pc' = "blocked" PROVE stale
    BY DEF OpenAsSeen, vars
  <2>1. Open
    BY DEF Next, CallNothing, CallSearchContent, CallListDir, CallReadFile, Stat, Read, Return,
           Edit, Answer
  <2>2. EvalSymlinks(abs).err = "no" /\ Kind(EvalSymlinks(abs).path) = "fifo"
    BY <2>1 DEF Open, Answer
  <2> QED BY <2>2 DEF ContentInv, SeenFile
<1> QED BY <1>1, ContentIsKept, PTL DEF Spec, FifosAreRefused
=============================================================================
