------------------------- MODULE KnowledgeBaseProofs -------------------------
(***************************************************************************)
(* What is proved of the tree of directories and documents (KnowledgeBase),*)
(* for any names, contents, depth and number of rows, documents and        *)
(* requests; and of the explorer page over it (LibraryPage).               *)
(***************************************************************************)
EXTENDS LibraryPage, ListingsProofs

\* Rows and steps.
DirRow == [path : Seq(Names), parent : Nat, live : BOOLEAN]
DocRow == [dir : Seq(Names), name : FileNames, path : Seq(Names),
           blobs : SUBSET Blobs, labels : SUBSET Seq(Names), index : SUBSET Seq(Names)]
KbStep ==
  [do : {"mkdir"}, path : Seq(Names)]
  \cup [do : {"put"}, dir : Seq(Names), name : FileNames, blob : Blobs]
  \cup [do : {"update"}, doc : Nat, dir : Seq(Names), name : FileNames]
  \cup [do : {"labels"}, doc : Nat, path : Seq(Names)]
  \cup [do : {"index", "assets"}, doc : Nat]
  \cup [do : {"delete"}, docs : SUBSET Nat, dirs : SUBSET Nat]

KbTyped ==
  /\ kbScope \in {"private", "library"}
  /\ dirs \in Seq(DirRow) /\ \A i \in DOMAIN dirs : dirs[i].parent <= Len(dirs)
  /\ docs \in [DOMAIN docs -> DocRow]
  /\ DOMAIN docs \subseteq Nat /\ IsFiniteSet(DOMAIN docs)
  /\ blobs \subseteq Blobs
  /\ kbTodo \in Seq(KbStep)
  /\ interrupted \in {"nothing", "delete", "other"}
  /\ requests \in 0 .. MaxRequests

\* The directories: one row for each path, and a directory in use is the child of
\* one in use.
LiveAt(path) == \E i \in LiveDirs : dirs[i].path = path
RowsInv ==
  /\ \A i, j \in DOMAIN dirs : dirs[i].path = dirs[j].path => i = j
  /\ \A i \in DOMAIN dirs : dirs[i].path = Root => dirs[i].parent = 0
  /\ \A i \in LiveDirs : dirs[i].path # Root =>
       dirs[i].parent \in LiveDirs /\ dirs[dirs[i].parent].path = Front(dirs[i].path)

\* The documents: one for each path, in a directory in use but for what a private
\* deletion has still to delete, or will never delete because it was cut off.
DocsInv ==
  /\ \A x, y \in DOMAIN docs : docs[x].path = docs[y].path => x = y
  /\ \A x \in DOMAIN docs :
       /\ docs[x].path = Append(docs[x].dir, docs[x].name)
       /\ \/ LiveAt(docs[x].dir)
          \/ kbScope = "private" /\ (x \in Doomed \/ interrupted = "delete")

\* What is left to do, step by step: a directory is made after its parent, and a
\* document is put where a directory was made, or both were there already; a
\* change of a path is followed by the labels and the index; what a deletion
\* deletes is closed under what is below.
StepInv(k) ==
  LET s == kbTodo[k]
      madeBefore(path) == IF k = 1 THEN LiveAt(path)
                          ELSE kbTodo[k - 1].do = "mkdir" /\ kbTodo[k - 1].path = path
  IN /\ s.do = "mkdir" => s.path = Root \/ madeBefore(Front(s.path))
     /\ s.do \in {"put", "update"} =>
          madeBefore(s.dir) /\ \A l \in 1 .. k - 1 : kbTodo[l].do = "mkdir"
     /\ s.do = "put" => Len(kbTodo) = k
     /\ s.do = "update" =>
          /\ s.doc \in DOMAIN docs /\ Len(kbTodo) = k + 2
          /\ kbTodo[k + 1] = [do |-> "labels", doc |-> s.doc, path |-> Append(s.dir, s.name)]
          /\ kbTodo[k + 2] = [do |-> "index", doc |-> s.doc]
          /\ \A y \in DOMAIN docs : docs[y].path = Append(s.dir, s.name) => y = s.doc
     /\ s.do = "labels" =>
          /\ s.doc \in DOMAIN docs
          /\ s.path = docs[s.doc].path \/ (k > 1 /\ kbTodo[k - 1].do = "update")
     /\ s.do = "index" => s.doc \in DOMAIN docs
     /\ s.do = "assets" =>
          /\ s.doc \in DOMAIN docs
          /\ \E l \in k + 1 .. Len(kbTodo) :
               kbTodo[l].do = "delete" /\ s.doc \in kbTodo[l].docs
     /\ s.do = "delete" =>
          /\ \A l \in DOMAIN kbTodo : kbTodo[l].do \in {"assets", "delete"}
          /\ \A l \in k + 1 .. Len(kbTodo) :
               kbTodo[l].do = "assets" => kbTodo[l].doc \notin s.docs
          /\ \A i \in LiveDirs \ s.dirs : dirs[i].path # Root => dirs[i].parent \notin s.dirs
          /\ \A x \in DOMAIN docs \ s.docs, i \in s.dirs :
               i \in LiveDirs => dirs[i].path # docs[x].dir

\* Citations and index follow, or will when what is left is done.
Pending(do, x) == \E k \in DOMAIN kbTodo : kbTodo[k].do = do /\ kbTodo[k].doc = x
FollowsInv(x) ==
  \/ x \in Doomed \/ interrupted # "nothing"
  \/ /\ docs[x].labels = {docs[x].path} \/ Pending("labels", x)
     /\ docs[x].index = {docs[x].path} \/ Pending("index", x)

\* The inductive invariant.
KbInv ==
  /\ KbTyped /\ RowsInv /\ DocsInv
  /\ \A k \in DOMAIN kbTodo : StepInv(k)
  /\ \A x \in DOMAIN docs : FollowsInv(x)

\* The root of a private library is never marked.
RootKept ==
  /\ kbScope = "private" /\ LiveAt(Root)
  /\ \A k \in DOMAIN kbTodo : kbTodo[k].do = "delete" => kbTodo[k].dirs = {}

\* Paths, element by element.
LEMMA PathsEqual ==
  ASSUME NEW T, NEW s \in Seq(T), NEW t \in Seq(T), Len(s) = Len(t),
         \A i \in 1 .. Len(s) : s[i] = t[i]
  PROVE  s = t
BY SeqEqual

LEMMA SubSeqIs ==
  ASSUME NEW T, NEW s \in Seq(T), NEW m \in 1 .. Len(s) + 1, NEW n \in 0 .. Len(s), m <= n + 1
  PROVE  /\ SubSeq(s, m, n) \in Seq(T) /\ Len(SubSeq(s, m, n)) = n - m + 1
         /\ \A i \in 1 .. n - m + 1 : SubSeq(s, m, n)[i] = s[m + i - 1]
OBVIOUS

LEMMA UnderIs ==
  ASSUME NEW T, NEW s \in Seq(T), NEW t \in Seq(T)
  PROVE  Under(s, t) <=> Len(t) <= Len(s) /\ \A i \in 1 .. Len(t) : s[i] = t[i]
<1>1. CASE ~(Len(t) <= Len(s))
  BY <1>1 DEF Under, IsPrefix
<1>2. CASE Len(t) <= Len(s)
  <2>1. /\ SubSeq(t, 1, Len(t)) \in Seq(T) /\ Len(SubSeq(t, 1, Len(t))) = Len(t)
        /\ \A i \in 1 .. Len(t) : SubSeq(t, 1, Len(t))[i] = t[i]
    OBVIOUS
  <2>2. /\ SubSeq(s, 1, Len(t)) \in Seq(T) /\ Len(SubSeq(s, 1, Len(t))) = Len(t)
        /\ \A i \in 1 .. Len(t) : SubSeq(s, 1, Len(t))[i] = s[i]
    BY <1>2
  <2>3. ASSUME \A i \in 1 .. Len(t) : s[i] = t[i]
        PROVE  SubSeq(t, 1, Len(t)) = SubSeq(s, 1, Len(t))
    <3> DEFINE p == SubSeq(t, 1, Len(t))
               q == SubSeq(s, 1, Len(t))
    <3>1. p \in Seq(T) /\ q \in Seq(T) /\ Len(p) = Len(q) /\ \A i \in 1 .. Len(p) : p[i] = q[i]
      BY <2>1, <2>2, <2>3
    <3> HIDE DEF p, q
    <3> QED BY <3>1, PathsEqual DEF p, q
  <2>4. ASSUME SubSeq(t, 1, Len(t)) = SubSeq(s, 1, Len(t)), NEW i \in 1 .. Len(t)
        PROVE  s[i] = t[i]
    BY <2>1, <2>2, <2>4
  <2> QED BY <1>2, <2>3, <2>4 DEF Under, IsPrefix
<1> QED BY <1>1, <1>2

LEMMA UnderRoot ==
  ASSUME NEW q \in Seq(Names), Under(Root, q)
  PROVE  q = Root
<1>1. Root \in Seq(Names) /\ Len(Root) = 0 /\ Len(q) \in Nat
  BY DEF Root
<1>2. Len(q) <= Len(Root)
  BY <1>1, UnderIs
<1> QED BY <1>1, <1>2, PathsEqual

LEMMA FrontIs ==
  ASSUME NEW T, NEW s \in Seq(T), s # <<>>
  PROVE  /\ Front(s) \in Seq(T) /\ Len(Front(s)) = Len(s) - 1 /\ Len(s) \in Nat \ {0}
         /\ \A i \in 1 .. Len(s) - 1 : Front(s)[i] = s[i]
         /\ Under(s, Front(s))
<1>1. Len(s) \in Nat \ {0}
  OBVIOUS
<1>2. /\ Front(s) \in Seq(T) /\ Len(Front(s)) = Len(s) - 1
      /\ \A i \in 1 .. Len(s) - 1 : Front(s)[i] = s[i]
  <2> DEFINE n == Len(s) - 1
  <2>1. /\ 1 \in 1 .. Len(s) + 1 /\ n \in 0 .. Len(s) /\ 1 <= n + 1 /\ n - 1 + 1 = n
        /\ \A i \in 1 .. n : 1 + i - 1 = i
    BY <1>1
  <2> HIDE DEF n
  <2>2. /\ SubSeq(s, 1, n) \in Seq(T) /\ Len(SubSeq(s, 1, n)) = n - 1 + 1
        /\ \A i \in 1 .. n - 1 + 1 : SubSeq(s, 1, n)[i] = s[1 + i - 1]
    BY <2>1, SubSeqIs
  <2> QED BY <2>1, <2>2 DEF Front, n
<1>3. Under(s, Front(s))
  BY <1>1, <1>2, UnderIs
<1> QED BY <1>1, <1>2, <1>3

LEMMA AppendIs ==
  ASSUME NEW T, NEW s \in Seq(T), NEW x \in T
  PROVE  /\ Append(s, x) \in Seq(T) /\ Len(Append(s, x)) = Len(s) + 1
         /\ \A i \in 1 .. Len(s) : Append(s, x)[i] = s[i]
         /\ Append(s, x)[Len(s) + 1] = x /\ Last(Append(s, x)) = x
         /\ Append(s, x) # <<>> /\ Front(Append(s, x)) = s
<1> DEFINE a == Append(s, x)
<1>1. /\ a \in Seq(T) /\ Len(a) = Len(s) + 1 /\ \A i \in 1 .. Len(s) : a[i] = s[i]
      /\ a[Len(s) + 1] = x /\ a # <<>> /\ Len(s) \in Nat
  OBVIOUS
<1> HIDE DEF a
<1>2. Last(a) = x
  BY <1>1 DEF Last
<1>3. Front(a) = s
  <2>1. /\ Front(a) \in Seq(T) /\ Len(Front(a)) = Len(s)
        /\ \A i \in 1 .. Len(s) : Front(a)[i] = s[i]
    BY <1>1, FrontIs
  <2> QED BY <2>1, PathsEqual
<1> QED BY <1>1, <1>2, <1>3 DEF a

LEMMA AppendSame ==
  ASSUME NEW T, NEW s \in Seq(T), NEW t \in Seq(T), NEW x \in T, NEW y \in T,
         Append(s, x) = Append(t, y)
  PROVE  s = t /\ x = y
BY AppendIs

\* Being under is an order, and those above a path are in line.
LEMMA UnderOrder ==
  ASSUME NEW T, NEW p \in Seq(T), NEW q \in Seq(T), NEW r \in Seq(T)
  PROVE  /\ Under(p, p)
         /\ Under(p, q) /\ Under(q, r) => Under(p, r)
         /\ Under(p, q) /\ Under(q, p) => p = q
         /\ Under(p, q) /\ Under(p, r) => Under(q, r) \/ Under(r, q)
<1>0. Len(p) \in Nat /\ Len(q) \in Nat /\ Len(r) \in Nat
  OBVIOUS
<1>1. Under(p, p)
  BY <1>0, UnderIs
<1>2. Under(p, q) /\ Under(q, r) => Under(p, r)
  BY <1>0, UnderIs
<1>3. Under(p, q) /\ Under(q, p) => p = q
  BY <1>0, UnderIs, PathsEqual
<1>4. Under(p, q) /\ Under(p, r) => Under(q, r) \/ Under(r, q)
  BY <1>0, UnderIs
<1> QED BY <1>1, <1>2, <1>3, <1>4

LEMMA UnderFront ==
  ASSUME NEW T, NEW p \in Seq(T), NEW q \in Seq(T), p # <<>>, p # q
  PROVE  Under(p, q) => Under(Front(p), q)
<1> SUFFICES ASSUME Under(p, q) PROVE Under(Front(p), q)
  OBVIOUS
<1>1. /\ Front(p) \in Seq(T) /\ Len(Front(p)) = Len(p) - 1 /\ Len(p) \in Nat \ {0}
      /\ \A i \in 1 .. Len(p) - 1 : Front(p)[i] = p[i]
  BY FrontIs
<1>2. Len(q) <= Len(p) /\ \A i \in 1 .. Len(q) : p[i] = q[i]
  BY UnderIs
<1>3. Len(q) # Len(p)
  BY <1>2, PathsEqual
<1>4. Len(q) <= Len(p) - 1
  BY <1>1, <1>2, <1>3
<1> QED BY <1>1, <1>2, <1>4, UnderIs

\* A path that moves along.
Rebased(a, p, q, r) ==
  /\ Len(a) = Len(r) + Len(p) - Len(q)
  /\ \A i \in 1 .. Len(r) : a[i] = r[i]
  /\ \A i \in 1 .. Len(p) - Len(q) : a[Len(r) + i] = p[Len(q) + i]

LEMMA RebaseIs ==
  ASSUME NEW T, NEW p \in Seq(T), NEW q \in Seq(T), NEW r \in Seq(T), Under(p, q)
  PROVE  Rebase(p, q, r) \in Seq(T) /\ Rebased(Rebase(p, q, r), p, q, r)
<1> DEFINE t == SubSeq(p, Len(q) + 1, Len(p))
           n == Len(p) - Len(q)
<1>1. Len(q) <= Len(p) /\ Len(p) \in Nat /\ Len(q) \in Nat /\ Len(r) \in Nat
  BY UnderIs
<1>2. /\ t \in Seq(T) /\ Len(t) = n /\ \A i \in 1 .. n : t[i] = p[Len(q) + i]
  <2>1. /\ Len(q) + 1 \in 1 .. Len(p) + 1 /\ Len(p) \in 0 .. Len(p)
        /\ Len(q) + 1 <= Len(p) + 1 /\ Len(p) - (Len(q) + 1) + 1 = n
        /\ \A i \in 1 .. n : (Len(q) + 1) + i - 1 = Len(q) + i
    BY <1>1
  <2>2. /\ t \in Seq(T) /\ Len(t) = Len(p) - (Len(q) + 1) + 1
        /\ \A i \in 1 .. Len(p) - (Len(q) + 1) + 1 : t[i] = p[(Len(q) + 1) + i - 1]
    BY <2>1, SubSeqIs
  <2> HIDE DEF t
  <2> QED BY <2>1, <2>2
<1> HIDE DEF t
<1>3. /\ r \o t \in Seq(T) /\ Len(r \o t) = Len(r) + Len(t)
      /\ \A i \in 1 .. Len(r) + Len(t) : (r \o t)[i] = IF i <= Len(r) THEN r[i] ELSE t[i - Len(r)]
  BY <1>2, ConcatProperties, Zenon
<1>4. Rebase(p, q, r) = r \o t
  BY DEF Rebase, t
<1>5. \A i \in 1 .. Len(r) : (r \o t)[i] = r[i]
  BY <1>1, <1>2, <1>3
<1>6. ASSUME NEW i \in 1 .. n PROVE (r \o t)[Len(r) + i] = p[Len(q) + i]
  <2>1. Len(r) + i \in 1 .. Len(r) + Len(t) /\ ~(Len(r) + i <= Len(r)) /\ (Len(r) + i) - Len(r) = i
    BY <1>1, <1>2
  <2> QED BY <1>2, <1>3, <2>1
<1>7. Len(r \o t) = Len(r) + Len(p) - Len(q)
  BY <1>1, <1>2, <1>3
<1> QED BY <1>3, <1>4, <1>5, <1>6, <1>7 DEF Rebased

LEMMA FrontLast ==
  ASSUME NEW T, NEW s \in Seq(T), s # <<>>
  PROVE  /\ Front(s) \in Seq(T) /\ Last(s) \in T /\ s = Append(Front(s), Last(s))
<1>1. /\ Front(s) \in Seq(T) /\ Len(Front(s)) = Len(s) - 1 /\ Len(s) \in Nat \ {0}
      /\ \A i \in 1 .. Len(s) - 1 : Front(s)[i] = s[i]
  BY FrontIs
<1>2. Last(s) \in T
  BY <1>1 DEF Last
<1> DEFINE a == Append(Front(s), Last(s))
<1>3. /\ a \in Seq(T) /\ Len(a) = Len(Front(s)) + 1
      /\ \A i \in 1 .. Len(Front(s)) : a[i] = Front(s)[i]
      /\ a[Len(Front(s)) + 1] = Last(s)
  BY <1>1, <1>2, AppendIs
<1> HIDE DEF a
<1>4. Len(a) = Len(s) /\ \A i \in 1 .. Len(s) : a[i] = s[i]
  BY <1>1, <1>3 DEF Last
<1> QED BY <1>1, <1>2, <1>3, <1>4, PathsEqual DEF a

LEMMA RebaseSelf ==
  ASSUME NEW T, NEW p \in Seq(T), NEW r \in Seq(T)
  PROVE  Rebase(p, p, r) = r
<1>1. Under(p, p) /\ Len(p) \in Nat /\ Len(r) \in Nat
  BY UnderOrder
<1>2. /\ Rebase(p, p, r) \in Seq(T)
      /\ Len(Rebase(p, p, r)) = Len(r) + Len(p) - Len(p)
      /\ \A i \in 1 .. Len(r) : Rebase(p, p, r)[i] = r[i]
  BY <1>1, RebaseIs DEF Rebased
<1>3. Len(Rebase(p, p, r)) = Len(r)
  BY <1>1, <1>2
<1> QED BY <1>2, <1>3, PathsEqual

LEMMA RebaseAppend ==
  ASSUME NEW T, NEW p \in Seq(T), NEW q \in Seq(T), NEW r \in Seq(T), NEW x \in T,
         Under(p, q)
  PROVE  /\ Under(Append(p, x), q)
         /\ Rebase(Append(p, x), q, r) = Append(Rebase(p, q, r), x)
<1> DEFINE a == Append(p, x)
           s == Rebase(a, q, r)
           t == Append(Rebase(p, q, r), x)
           b == Rebase(p, q, r)
<1>1. /\ a \in Seq(T) /\ Len(a) = Len(p) + 1 /\ \A i \in 1 .. Len(p) : a[i] = p[i]
      /\ a[Len(p) + 1] = x
  BY AppendIs
<1>2. /\ Len(q) <= Len(p) /\ \A i \in 1 .. Len(q) : p[i] = q[i]
      /\ Len(p) \in Nat /\ Len(q) \in Nat /\ Len(r) \in Nat
  BY UnderIs
<1> HIDE DEF a
<1>3. Under(a, q)
  <2>1. Len(q) <= Len(a) /\ \A i \in 1 .. Len(q) : a[i] = q[i]
    BY <1>1, <1>2
  <2> QED BY <1>1, <2>1, UnderIs
<1>4. /\ b \in Seq(T) /\ Len(b) = Len(r) + Len(p) - Len(q)
      /\ \A i \in 1 .. Len(r) : b[i] = r[i]
      /\ \A i \in 1 .. Len(p) - Len(q) : b[Len(r) + i] = p[Len(q) + i]
  <2>1. Rebase(p, q, r) \in Seq(T) /\ Rebased(Rebase(p, q, r), p, q, r)
    BY RebaseIs
  <2> QED BY <2>1 DEF Rebased
<1>5. /\ s \in Seq(T) /\ Len(s) = Len(r) + Len(a) - Len(q)
      /\ \A i \in 1 .. Len(r) : s[i] = r[i]
      /\ \A i \in 1 .. Len(a) - Len(q) : s[Len(r) + i] = a[Len(q) + i]
  <2>1. Rebase(a, q, r) \in Seq(T) /\ Rebased(Rebase(a, q, r), a, q, r)
    BY <1>1, <1>3, RebaseIs
  <2> QED BY <2>1 DEF Rebased
<1>6. /\ t \in Seq(T) /\ Len(t) = Len(b) + 1 /\ \A i \in 1 .. Len(b) : t[i] = b[i]
      /\ t[Len(b) + 1] = x
  BY <1>4, AppendIs
<1> HIDE DEF s, t, b
<1>7. Len(s) = Len(t)
  BY <1>1, <1>2, <1>4, <1>5, <1>6
<1>8. ASSUME NEW i \in 1 .. Len(s) PROVE s[i] = t[i]
  <2>1. CASE i <= Len(r)
    BY <1>2, <1>4, <1>5, <1>6, <2>1
  <2>2. CASE i > Len(r)
    <3>1. PICK j \in Nat : i = Len(r) + j /\ j \in 1 .. Len(p) + 1 - Len(q)
      <4>1. i - Len(r) \in Nat /\ i = Len(r) + (i - Len(r))
            /\ i - Len(r) \in 1 .. Len(p) + 1 - Len(q)
        BY <1>1, <1>2, <1>5, <2>2
      <4> QED BY <4>1
    <3>2. s[i] = a[Len(q) + j]
      BY <1>1, <1>5, <3>1
    <3>3. CASE j <= Len(p) - Len(q)
      <4>1. s[i] = p[Len(q) + j]
        BY <1>1, <1>2, <3>1, <3>2, <3>3
      <4>2. i \in 1 .. Len(b) /\ j \in 1 .. Len(p) - Len(q)
        BY <1>2, <1>4, <3>1, <3>3
      <4>3. t[i] = b[i] /\ b[i] = p[Len(q) + j]
        BY <1>4, <1>6, <3>1, <4>2
      <4> QED BY <4>1, <4>3
    <3>4. CASE j = Len(p) + 1 - Len(q)
      <4>1. Len(q) + j = Len(p) + 1 /\ i = Len(b) + 1
        BY <1>2, <1>4, <3>1, <3>4
      <4> QED BY <1>1, <1>6, <3>2, <4>1
    <3> QED BY <1>2, <3>1, <3>3, <3>4
  <2> QED BY <1>2, <1>5, <2>1, <2>2
<1> QED BY <1>3, <1>5, <1>6, <1>7, <1>8, PathsEqual DEF a, s, t, b

LEMMA RebaseFront ==
  ASSUME NEW T, NEW p \in Seq(T), NEW q \in Seq(T), NEW r \in Seq(T), Under(p, q), p # q
  PROVE  /\ p # <<>> /\ Under(Front(p), q) /\ Rebase(p, q, r) # <<>>
         /\ Front(Rebase(p, q, r)) = Rebase(Front(p), q, r)
         /\ Last(Rebase(p, q, r)) = Last(p)
<1>1. p # <<>>
  <2>0. Len(q) <= Len(p) /\ Len(q) \in Nat
    BY UnderIs
  <2>1. CASE p = <<>>
    <3>1. Len(p) = 0 /\ Len(q) = Len(p)
      BY <2>0, <2>1
    <3>2. q = p
      BY <3>1, PathsEqual
    <3> QED BY <3>2
  <2> QED BY <2>1
<1>2. Under(Front(p), q)
  BY <1>1, UnderFront
<1>3. Front(p) \in Seq(T) /\ Last(p) \in T /\ p = Append(Front(p), Last(p))
  BY <1>1, FrontLast
<1>4. Rebase(p, q, r) = Append(Rebase(Front(p), q, r), Last(p))
  <2> DEFINE f == Front(p)
             x == Last(p)
  <2>1. f \in Seq(T) /\ x \in T /\ Under(f, q) /\ p = Append(f, x)
    BY <1>2, <1>3
  <2> HIDE DEF f, x
  <2>2. Rebase(Append(f, x), q, r) = Append(Rebase(f, q, r), x)
    BY <2>1, RebaseAppend
  <2> QED BY <2>1, <2>2 DEF f, x
<1>5. Rebase(Front(p), q, r) \in Seq(T)
  BY <1>2, <1>3, RebaseIs
<1> QED BY <1>1, <1>2, <1>3, <1>4, <1>5, AppendIs

\* Two paths that come to the same place from below the same one were the same.
LEMMA RebaseSame ==
  ASSUME NEW T, NEW p \in Seq(T), NEW s \in Seq(T), NEW q \in Seq(T), NEW r \in Seq(T),
         Under(p, q), Under(s, q), Rebase(p, q, r) = Rebase(s, q, r)
  PROVE  p = s
<1>0. Rebased(Rebase(p, q, r), p, q, r) /\ Rebased(Rebase(s, q, r), s, q, r)
  BY RebaseIs
<1> DEFINE a == Rebase(p, q, r)
           b == Rebase(s, q, r)
<1>1. /\ Len(a) = Len(r) + Len(p) - Len(q)
      /\ \A i \in 1 .. Len(p) - Len(q) : a[Len(r) + i] = p[Len(q) + i]
  BY <1>0 DEF Rebased
<1>2. /\ Len(b) = Len(r) + Len(s) - Len(q)
      /\ \A i \in 1 .. Len(s) - Len(q) : b[Len(r) + i] = s[Len(q) + i]
  BY <1>0 DEF Rebased
<1>3. /\ Len(q) <= Len(p) /\ \A i \in 1 .. Len(q) : p[i] = q[i]
      /\ Len(q) <= Len(s) /\ \A i \in 1 .. Len(q) : s[i] = q[i]
      /\ Len(p) \in Nat /\ Len(q) \in Nat /\ Len(r) \in Nat /\ Len(s) \in Nat
  BY UnderIs
<1>4. a = b
  OBVIOUS
<1> HIDE DEF a, b
<1>5. Len(p) = Len(s)
  BY <1>1, <1>2, <1>3, <1>4
<1>6. ASSUME NEW i \in 1 .. Len(p) PROVE p[i] = s[i]
  <2>1. CASE i <= Len(q)
    BY <1>3, <2>1
  <2>2. CASE i > Len(q)
    <3>1. PICK j \in 1 .. Len(p) - Len(q) : i = Len(q) + j
      <4>1. i - Len(q) \in 1 .. Len(p) - Len(q) /\ i = Len(q) + (i - Len(q))
        BY <1>3, <2>2
      <4> QED BY <4>1
    <3> QED BY <1>1, <1>2, <1>4, <1>5, <3>1
  <2> QED BY <1>3, <2>1, <2>2
<1> QED BY <1>5, <1>6, PathsEqual

\* Paths of one length that lead to the same place are the same.
LEMMA RebaseAbove ==
  ASSUME NEW T, NEW p \in Seq(T), NEW s \in Seq(T), NEW q \in Seq(T), NEW t \in Seq(T),
         NEW r \in Seq(T), NEW v \in Seq(T), Under(p, q), Under(s, t), Len(r) = Len(v),
         Rebase(p, q, r) = Rebase(s, t, v)
  PROVE  r = v
<1>0. Rebased(Rebase(p, q, r), p, q, r) /\ Rebased(Rebase(s, t, v), s, t, v)
  BY RebaseIs
<1> DEFINE a == Rebase(p, q, r)
           b == Rebase(s, t, v)
<1>1. \A i \in 1 .. Len(r) : a[i] = r[i]
  BY <1>0 DEF Rebased
<1>2. \A i \in 1 .. Len(v) : b[i] = v[i]
  BY <1>0 DEF Rebased
<1>3. a = b
  OBVIOUS
<1> HIDE DEF a, b
<1>4. \A i \in 1 .. Len(r) : r[i] = v[i]
  BY <1>1, <1>2, <1>3
<1> QED BY <1>4, PathsEqual

\* SetToSeq lists a finite set, each member once.
LEMMA ListOf ==
  ASSUME NEW S, IsFiniteSet(S)
  PROVE  /\ Cardinality(S) \in Nat
         /\ SetToSeq(S) \in [1 .. Cardinality(S) -> S] /\ IsInjective(SetToSeq(S))
         /\ \A x \in S : \E k \in 1 .. Cardinality(S) : SetToSeq(S)[k] = x
<1>1. Cardinality(S) \in Nat
  BY FS_CardinalityType
<1>2. ExistsBijection(1 .. Cardinality(S), S)
  BY FS_CardinalityType
<1>3. \E f \in [1 .. Cardinality(S) -> S] : IsInjective(f)
  <2>1. PICK f \in Bijection(1 .. Cardinality(S), S) : TRUE
    BY <1>2 DEF ExistsBijection
  <2>2. f \in [1 .. Cardinality(S) -> S] /\ IsInjective(f)
    BY <2>1 DEF Bijection, Injection, IsInjective
  <2> QED BY <2>2
<1>4. SetToSeq(S) \in [1 .. Cardinality(S) -> S] /\ IsInjective(SetToSeq(S))
  BY <1>3 DEF SetToSeq
<1>5. SetToSeq(S) \in Surjection(1 .. Cardinality(S), S)
  <2>1. SetToSeq(S) \in Injection(1 .. Cardinality(S), S)
    BY <1>4 DEF Injection, IsInjective
  <2>2. IsFiniteSet(1 .. Cardinality(S)) /\ Cardinality(1 .. Cardinality(S)) = Cardinality(S)
    BY <1>1, FS_Interval
  <2> QED BY <2>1, <2>2, FS_Injection
<1> QED BY <1>1, <1>4, <1>5 DEF Surjection

\* There is an id for one more document.
LEMMA NewId ==
  ASSUME NEW S, IsFiniteSet(S)
  PROVE  \E n \in 1 .. Cardinality(S) + 1 : n \notin S
<1>1. Cardinality(S) \in Nat
  BY FS_CardinalityType
<1> SUFFICES ASSUME 1 .. Cardinality(S) + 1 \subseteq S PROVE FALSE
  OBVIOUS
<1>2. Cardinality(1 .. Cardinality(S) + 1) = Cardinality(S) + 1
  BY <1>1, FS_Interval
<1>3. Cardinality(1 .. Cardinality(S) + 1) <= Cardinality(S)
  BY FS_Subset
<1> QED BY <1>1, <1>2, <1>3

\* What is left to do, when a step is done.
LEMMA Advanced ==
  ASSUME KbTyped, kbTodo # <<>>, kbTodo' = Tail(kbTodo)
  PROVE  /\ Len(kbTodo) \in Nat \ {0} /\ Head(kbTodo) = kbTodo[1]
         /\ DOMAIN kbTodo = 1 .. Len(kbTodo) /\ DOMAIN kbTodo' = 1 .. Len(kbTodo) - 1
         /\ \A k \in 1 .. Len(kbTodo) : kbTodo[k] \in KbStep
         /\ kbTodo' \in Seq(KbStep) /\ Len(kbTodo') = Len(kbTodo) - 1
         /\ \A k \in 1 .. Len(kbTodo) - 1 : kbTodo'[k] = kbTodo[k + 1]
<1>1. kbTodo \in Seq(KbStep)
  BY DEF KbTyped
<1> QED BY <1>1

\* The fields of a step, and the steps there are.
LEMMA StepFields ==
  ASSUME NEW s \in KbStep
  PROVE  /\ s.do \in {"mkdir", "put", "update", "labels", "index", "assets", "delete"}
         /\ s.do = "mkdir" => s.path \in Seq(Names)
         /\ s.do = "put" => s.dir \in Seq(Names) /\ s.name \in FileNames /\ s.blob \in Blobs
         /\ s.do = "update" => s.doc \in Nat /\ s.dir \in Seq(Names) /\ s.name \in FileNames
         /\ s.do = "labels" => s.doc \in Nat /\ s.path \in Seq(Names)
         /\ s.do \in {"index", "assets"} => s.doc \in Nat
         /\ s.do = "delete" => s.docs \in SUBSET Nat /\ s.dirs \in SUBSET Nat
<1>1. CASE s \in [do : {"mkdir"}, path : Seq(Names)]
  BY <1>1
<1>2. CASE s \in [do : {"put"}, dir : Seq(Names), name : FileNames, blob : Blobs]
  BY <1>2
<1>3. CASE s \in [do : {"update"}, doc : Nat, dir : Seq(Names), name : FileNames]
  BY <1>3
<1>4. CASE s \in [do : {"labels"}, doc : Nat, path : Seq(Names)]
  BY <1>4
<1>5. CASE s \in [do : {"index", "assets"}, doc : Nat]
  BY <1>5
<1>6. CASE s \in [do : {"delete"}, docs : SUBSET Nat, dirs : SUBSET Nat]
  BY <1>6
<1> QED BY <1>1, <1>2, <1>3, <1>4, <1>5, <1>6 DEF KbStep

LEMMA StepKinds ==
  /\ \A p \in Seq(Names) : [do |-> "mkdir", path |-> p] \in KbStep
  /\ \A p \in Seq(Names), n \in FileNames, b \in Blobs :
       [do |-> "put", dir |-> p, name |-> n, blob |-> b] \in KbStep
  /\ \A x \in Nat, p \in Seq(Names), n \in FileNames :
       [do |-> "update", doc |-> x, dir |-> p, name |-> n] \in KbStep
  /\ \A x \in Nat, p \in Seq(Names) : [do |-> "labels", doc |-> x, path |-> p] \in KbStep
  /\ \A x \in Nat : /\ [do |-> "index", doc |-> x] \in KbStep
                    /\ [do |-> "assets", doc |-> x] \in KbStep
  /\ \A xs \in SUBSET Nat, is \in SUBSET Nat :
       [do |-> "delete", docs |-> xs, dirs |-> is] \in KbStep
BY DEF KbStep

\* A deletion does nothing else, and nothing else deletes.
LEMMA OneKind ==
  ASSUME KbInv, kbTodo # <<>>
  PROVE  /\ Head(kbTodo).do \in {"assets", "delete"} =>
              \A k \in DOMAIN kbTodo : kbTodo[k].do \in {"assets", "delete"}
         /\ Head(kbTodo).do \notin {"assets", "delete"} =>
              \A k \in DOMAIN kbTodo : kbTodo[k].do \notin {"assets", "delete"}
         /\ (\A k \in DOMAIN kbTodo : kbTodo[k].do # "delete") => Doomed = {}
<1>1. /\ Len(kbTodo) \in Nat \ {0} /\ Head(kbTodo) = kbTodo[1]
      /\ DOMAIN kbTodo = 1 .. Len(kbTodo) /\ 1 \in DOMAIN kbTodo
  <2>1. kbTodo \in Seq(KbStep)
    BY DEF KbInv, KbTyped
  <2> QED BY <2>1
<1>2. ASSUME NEW k \in DOMAIN kbTodo, kbTodo[k].do = "delete"
      PROVE  \A l \in DOMAIN kbTodo : kbTodo[l].do \in {"assets", "delete"}
  BY <1>2 DEF KbInv, StepInv
<1>3. ASSUME NEW k \in DOMAIN kbTodo, kbTodo[k].do = "assets"
      PROVE  \A l \in DOMAIN kbTodo : kbTodo[l].do \in {"assets", "delete"}
  <2>1. PICK l \in k + 1 .. Len(kbTodo) : kbTodo[l].do = "delete"
    BY <1>3, ZenonT(60) DEF KbInv, StepInv
  <2>2. l \in DOMAIN kbTodo
    BY <1>1, <2>1
  <2> QED BY <1>2, <2>1, <2>2
<1>4. (\A k \in DOMAIN kbTodo : kbTodo[k].do # "delete") => Doomed = {}
  BY DEF Doomed
<1> QED BY <1>1, <1>2, <1>3, <1>4

\* Rows and their paths.
LEMMA RowAtIs ==
  ASSUME RowsInv, NEW i \in DOMAIN dirs
  PROVE  RowAt(dirs[i].path) = i
BY DEF RowsInv, RowAt, RowsAt

LEMMA RowIs ==
  ASSUME KbTyped, NEW i \in DOMAIN dirs
  PROVE  /\ i \in 1 .. Len(dirs) /\ Len(dirs) \in Nat /\ dirs[i] \in DirRow
         /\ dirs[i].path \in Seq(Names) /\ dirs[i].parent \in 0 .. Len(dirs)
         /\ dirs[i].live \in BOOLEAN
<1>1. dirs \in Seq(DirRow) /\ \A j \in DOMAIN dirs : dirs[j].parent <= Len(dirs)
  BY DEF KbTyped
<1>2. i \in 1 .. Len(dirs) /\ Len(dirs) \in Nat /\ dirs[i] \in DirRow
  BY <1>1
<1> QED BY <1>1, <1>2 DEF DirRow

LEMMA DocIs ==
  ASSUME KbTyped, NEW x \in DOMAIN docs
  PROVE  /\ docs[x] \in DocRow /\ x \in Nat /\ docs[x].dir \in Seq(Names)
         /\ docs[x].name \in FileNames /\ docs[x].name \in Names
         /\ docs[x].path \in Seq(Names)
         /\ docs[x].blobs \in SUBSET Blobs /\ docs[x].labels \in SUBSET Seq(Names)
         /\ docs[x].index \in SUBSET Seq(Names)
<1>1. docs[x] \in DocRow /\ x \in Nat
  BY DEF KbTyped
<1> QED BY <1>1, KnowledgeBaseAssumption DEF DocRow

\* mkdir -p: a row that is live stays as it is, and its path is in use.
LEMMA UpsertedIs ==
  ASSUME KbTyped, RowsInv, NEW p \in Seq(Names), p = Root \/ LiveAt(Front(p)),
         dirs' = Upserted(p)
  PROVE  /\ dirs' \in Seq(DirRow) /\ \A i \in DOMAIN dirs' : dirs'[i].parent <= Len(dirs')
         /\ DOMAIN dirs \subseteq DOMAIN dirs' /\ LiveDirs \subseteq LiveDirs'
         /\ \A i \in LiveDirs : dirs'[i] = dirs[i]
         /\ RowsInv' /\ LiveAt(p)'
         /\ \A path : LiveAt(path) => LiveAt(path)'
<1> DEFINE up == IF p = Root THEN 0 ELSE RowAt(Front(p))
           row == [path |-> p, live |-> TRUE, parent |-> up]
           n == Len(dirs)
<1>1. dirs \in Seq(DirRow) /\ n \in Nat /\ DOMAIN dirs = 1 .. n
  BY DEF KbTyped
<1>2. p # Root => up \in LiveDirs /\ dirs[up].path = Front(p)
  <2> SUFFICES ASSUME p # Root PROVE up \in LiveDirs /\ dirs[up].path = Front(p)
    OBVIOUS
  <2>1. PICK j \in LiveDirs : dirs[j].path = Front(p)
    BY DEF LiveAt
  <2>2. RowAt(dirs[j].path) = j
    BY <2>1, RowAtIs DEF LiveDirs
  <2> QED BY <2>1, <2>2
<1>3. up \in 0 .. n /\ (p = Root => up = 0)
  BY <1>1, <1>2 DEF LiveDirs
<1> HIDE DEF up
<1>4. /\ row \in DirRow /\ row.path = p /\ row.live = TRUE /\ row.parent = up
  BY <1>1, <1>3 DEF DirRow
<1> HIDE DEF row
\* It is the row at some position; the others stay.
<1>5. PICK r \in Nat :
        /\ dirs' \in Seq(DirRow) /\ r \in DOMAIN dirs' /\ dirs'[r] = row
        /\ DOMAIN dirs' = DOMAIN dirs \cup {r} /\ Len(dirs') >= n
        /\ \A i \in DOMAIN dirs : i # r => dirs'[i] = dirs[i]
        /\ r \in DOMAIN dirs => dirs[r].path = p
        /\ \A i \in DOMAIN dirs : dirs[i].path = p => i = r
  <2>1. CASE RowsAt(p) = {}
    <3>1. dirs' = Append(dirs, row)
      BY <2>1 DEF Upserted, row, up
    <3>2. /\ dirs' \in Seq(DirRow) /\ n + 1 \in DOMAIN dirs' /\ dirs'[n + 1] = row
          /\ DOMAIN dirs' = DOMAIN dirs \cup {n + 1} /\ Len(dirs') >= n /\ n + 1 \in Nat
          /\ \A i \in DOMAIN dirs : dirs'[i] = dirs[i]
          /\ n + 1 \notin DOMAIN dirs
      BY <1>1, <1>4, <3>1
    <3>3. \A i \in DOMAIN dirs : dirs[i].path # p
      BY <2>1 DEF RowsAt
    <3> QED BY <3>2, <3>3
  <2>2. CASE RowsAt(p) # {}
    <3>1. RowAt(p) \in DOMAIN dirs /\ dirs[RowAt(p)].path = p
      BY <2>2 DEF RowAt, RowsAt
    <3>2. dirs' = [dirs EXCEPT ![RowAt(p)] = row]
      BY <2>2 DEF Upserted, row, up
    <3>3. /\ dirs' \in Seq(DirRow) /\ DOMAIN dirs' = DOMAIN dirs /\ Len(dirs') = n
      BY <1>1, <1>4, <3>1, <3>2
    <3>4. \A i \in DOMAIN dirs : dirs[i].path = p => i = RowAt(p)
      BY <3>1 DEF RowsInv
    <3> QED BY <1>1, <3>1, <3>2, <3>3, <3>4
  <2> QED BY <2>1, <2>2
<1>6. \A i \in LiveDirs : dirs'[i] = dirs[i]
  <2> SUFFICES ASSUME NEW i \in LiveDirs, i = r PROVE dirs'[i] = dirs[i]
    BY <1>5 DEF LiveDirs
  <2>1. i \in DOMAIN dirs /\ dirs[i].live = TRUE /\ dirs[i].path = p /\ dirs[i] \in DirRow
    BY <1>1, <1>5, RowIs DEF LiveDirs, DirRow
  <2>2. dirs[i].parent = up
    <3>1. CASE p = Root
      BY <1>3, <2>1, <3>1 DEF RowsInv
    <3>2. CASE p # Root
      <4>1. dirs[i].parent \in LiveDirs /\ dirs[dirs[i].parent].path = Front(p)
        BY <2>1, <3>2 DEF RowsInv
      <4> QED BY <1>2, <3>2, <4>1 DEF RowsInv, LiveDirs
    <3> QED BY <3>1, <3>2
  <2>3. dirs[i] = row
    BY <2>1, <2>2 DEF DirRow, row
  <2> QED BY <1>5, <2>3
<1>7. LiveDirs \subseteq LiveDirs' /\ r \in LiveDirs'
  BY <1>4, <1>5, <1>6 DEF LiveDirs
<1>8. LiveDirs' \subseteq LiveDirs \cup {r}
  BY <1>5 DEF LiveDirs
<1>9. LiveAt(p)' /\ \A path : LiveAt(path) => LiveAt(path)'
  BY <1>4, <1>5, <1>6, <1>7 DEF LiveAt
<1>10. RowsInv'
  <2>1. \A i, j \in DOMAIN dirs' : dirs'[i].path = dirs'[j].path => i = j
    BY <1>4, <1>5 DEF RowsInv
  <2>2. \A i \in DOMAIN dirs' : dirs'[i].path = Root => dirs'[i].parent = 0
    BY <1>3, <1>4, <1>5 DEF RowsInv
  <2>3. ASSUME NEW i \in LiveDirs', dirs'[i].path # Root
        PROVE  dirs'[i].parent \in LiveDirs' /\ dirs'[dirs'[i].parent].path = Front(dirs'[i].path)
    <3>1. CASE i = r
      <4>1. up \in LiveDirs /\ dirs[up].path = Front(p) /\ dirs'[up] = dirs[up]
        BY <1>2, <1>4, <1>5, <1>6, <2>3, <3>1
      <4> QED BY <1>4, <1>5, <1>7, <3>1, <4>1
    <3>2. CASE i # r
      <4>1. i \in LiveDirs /\ dirs'[i] = dirs[i]
        BY <1>6, <1>8, <3>2
      <4>2. dirs[i].parent \in LiveDirs /\ dirs[dirs[i].parent].path = Front(dirs[i].path)
        BY <2>3, <4>1 DEF RowsInv
      <4> QED BY <1>6, <1>7, <4>1, <4>2
    <3> QED BY <3>1, <3>2
  <2> QED BY <2>1, <2>2, <2>3 DEF RowsInv
<1>11. \A i \in DOMAIN dirs' : dirs'[i].parent <= Len(dirs')
  <2>1. Len(dirs') \in Nat
    BY <1>5
  <2> SUFFICES ASSUME NEW i \in DOMAIN dirs' PROVE dirs'[i].parent <= Len(dirs')
    OBVIOUS
  <2>2. CASE i = r
    BY <1>1, <1>3, <1>4, <1>5, <2>1, <2>2
  <2>3. CASE i # r
    <3>1. i \in DOMAIN dirs /\ dirs'[i] = dirs[i] /\ dirs[i].parent \in 0 .. n
      BY <1>5, <2>3, RowIs
    <3> QED BY <1>1, <1>5, <2>1, <3>1
  <2> QED BY <2>2, <2>3
<1> QED BY <1>5, <1>6, <1>7, <1>9, <1>10, <1>11

\* When a step that deletes nothing is done, what is left is as it should be.
LEMMA StepsGoOn ==
  ASSUME KbInv, kbTodo # <<>>, kbTodo' = Tail(kbTodo),
         Head(kbTodo).do \notin {"assets", "delete"},
         Head(kbTodo).do = "mkdir" => \A path : path = Head(kbTodo).path => LiveAt(path)',
         Head(kbTodo).do # "put" => DOMAIN docs' = DOMAIN docs,
         \A x \in DOMAIN docs :
           docs'[x].path = IF Head(kbTodo).do = "update" /\ x = Head(kbTodo).doc
                           THEN Append(Head(kbTodo).dir, Head(kbTodo).name)
                           ELSE docs[x].path
  PROVE  /\ \A k \in DOMAIN kbTodo' : StepInv(k)'
         /\ Doomed = {} /\ Doomed' = {}
<1> DEFINE h == Head(kbTodo)
<1>1. /\ Len(kbTodo) \in Nat \ {0} /\ h = kbTodo[1]
      /\ DOMAIN kbTodo = 1 .. Len(kbTodo) /\ DOMAIN kbTodo' = 1 .. Len(kbTodo) - 1
      /\ kbTodo' \in Seq(KbStep) /\ Len(kbTodo') = Len(kbTodo) - 1
      /\ \A k \in 1 .. Len(kbTodo) - 1 : kbTodo'[k] = kbTodo[k + 1]
  BY Advanced DEF KbInv
<1>2. \A k \in DOMAIN kbTodo : kbTodo[k].do \notin {"assets", "delete"}
  BY OneKind
<1>3. Doomed = {}
  BY <1>2, OneKind
<1>4. ASSUME NEW k \in DOMAIN kbTodo'
      PROVE  /\ k \in Nat /\ k + 1 \in DOMAIN kbTodo /\ kbTodo'[k] = kbTodo[k + 1]
             /\ StepInv(k + 1)
             /\ k = 1 \/ (k - 1 \in DOMAIN kbTodo' /\ kbTodo'[k - 1] = kbTodo[k])
  BY <1>1, <1>4 DEF KbInv
<1>5. Doomed' = {}
  <2>1. \A k \in DOMAIN kbTodo' : kbTodo'[k].do # "delete"
    BY <1>2, <1>4
  <2> QED BY <2>1 DEF Doomed
<1>6. ASSUME NEW k \in DOMAIN kbTodo' PROVE StepInv(k)'
  <2>0. PICK s \in KbStep :
        /\ k \in Nat /\ k + 1 \in DOMAIN kbTodo /\ kbTodo'[k] = s /\ s = kbTodo[k + 1]
        /\ StepInv(k + 1) /\ k + 1 # 1 /\ (k + 1) - 1 = k
        /\ k = 1 \/ (k - 1 \in DOMAIN kbTodo' /\ kbTodo'[k - 1] = kbTodo[k])
        /\ s.do \notin {"assets", "delete"}
    <3>1. k + 1 \in 1 .. Len(kbTodo)
      BY <1>1, <1>4
    <3> QED BY <1>1, <1>2, <1>4, <3>1, Advanced DEF KbInv
  <2>1. ASSUME NEW path, kbTodo[k].do = "mkdir", kbTodo[k].path = path
        PROVE  IF k = 1 THEN LiveAt(path)'
               ELSE kbTodo'[k - 1].do = "mkdir" /\ kbTodo'[k - 1].path = path
    BY <1>1, <2>0, <2>1
  <2>2. s.do = "mkdir" =>
          \/ s.path = Root
          \/ IF k = 1 THEN LiveAt(Front(s.path))'
             ELSE kbTodo'[k - 1].do = "mkdir" /\ kbTodo'[k - 1].path = Front(s.path)
    BY <2>0, <2>1 DEF StepInv
  <2>3. ASSUME s.do \in {"put", "update"}
        PROVE  /\ IF k = 1 THEN LiveAt(s.dir)'
                  ELSE kbTodo'[k - 1].do = "mkdir" /\ kbTodo'[k - 1].path = s.dir
               /\ \A l \in 1 .. k - 1 : kbTodo'[l].do = "mkdir"
               /\ h.do = "mkdir"
    <3>1. /\ kbTodo[k].do = "mkdir" /\ kbTodo[k].path = s.dir
          /\ \A l \in 1 .. k : kbTodo[l].do = "mkdir"
      BY <2>0, <2>3 DEF StepInv
    <3>2. ASSUME NEW l \in 1 .. k - 1 PROVE kbTodo'[l].do = "mkdir"
      <4>1. l \in 1 .. Len(kbTodo) - 1 /\ l + 1 \in 1 .. k
        BY <1>1, <2>0
      <4> QED BY <1>1, <3>1, <4>1
    <3>3. h.do = "mkdir"
      BY <1>1, <2>0, <3>1
    <3> QED BY <2>1, <3>1, <3>2, <3>3
  <2>4. s.do = "put" => Len(kbTodo') = k
    BY <1>1, <2>0 DEF StepInv
  <2>5. ASSUME s.do = "update"
        PROVE  /\ s.doc \in DOMAIN docs' /\ Len(kbTodo') = k + 2
               /\ kbTodo'[k + 1] = [do |-> "labels", doc |-> s.doc, path |-> Append(s.dir, s.name)]
               /\ kbTodo'[k + 2] = [do |-> "index", doc |-> s.doc]
               /\ \A y \in DOMAIN docs' : docs'[y].path = Append(s.dir, s.name) => y = s.doc
    <3>1. h.do = "mkdir"
      BY <2>3, <2>5
    <3>2. DOMAIN docs' = DOMAIN docs /\ \A x \in DOMAIN docs : docs'[x].path = docs[x].path
      BY <3>1
    <3>3. /\ s.doc \in DOMAIN docs /\ Len(kbTodo) = k + 1 + 2
          /\ kbTodo[k + 1 + 1] = [do |-> "labels", doc |-> s.doc, path |-> Append(s.dir, s.name)]
          /\ kbTodo[k + 1 + 2] = [do |-> "index", doc |-> s.doc]
          /\ \A y \in DOMAIN docs : docs[y].path = Append(s.dir, s.name) => y = s.doc
      BY <2>0, <2>5 DEF StepInv
    <3>4. kbTodo'[k + 1] = kbTodo[k + 1 + 1] /\ kbTodo'[k + 2] = kbTodo[k + 1 + 2]
      <4>1. k + 1 \in 1 .. Len(kbTodo) - 1 /\ k + 2 \in 1 .. Len(kbTodo) - 1
            /\ (k + 1) + 1 = k + 1 + 1 /\ (k + 2) + 1 = k + 1 + 2
        BY <1>1, <2>0, <3>3
      <4> QED BY <1>1, <4>1
    <3>5. Len(kbTodo') = k + 2
      BY <1>1, <2>0, <3>3
    <3> QED BY <3>2, <3>3, <3>4, <3>5
  <2>6. ASSUME s.do = "labels"
        PROVE  /\ s.doc \in DOMAIN docs'
               /\ s.path = docs'[s.doc].path \/ (k > 1 /\ kbTodo'[k - 1].do = "update")
    <3>1. s.doc \in DOMAIN docs /\ (s.path = docs[s.doc].path \/ kbTodo[k].do = "update")
      BY <2>0, <2>6 DEF StepInv
    <3>2. h.do = "put" => FALSE
      <4> SUFFICES ASSUME h.do = "put" PROVE FALSE
        OBVIOUS
      <4>1. StepInv(1) /\ kbTodo[1].do = "put"
        BY <1>1 DEF KbInv
      <4>2. Len(kbTodo) = 1
        BY <4>1 DEF StepInv
      <4> QED BY <1>1, <2>0, <4>2
    <3>3. CASE h.do = "update"
      <4>1. StepInv(1) /\ kbTodo[1].do = "update"
        BY <1>1, <3>3 DEF KbInv
      <4>2. /\ Len(kbTodo) = 1 + 2
            /\ kbTodo[1 + 1] = [do |-> "labels", doc |-> h.doc, path |-> Append(h.dir, h.name)]
            /\ kbTodo[1 + 2] = [do |-> "index", doc |-> h.doc]
        BY <1>1, <4>1 DEF StepInv
      <4>3. k = 1
        <5>1. k = 1 \/ k = 2
          BY <1>1, <2>0, <4>2
        <5>2. k # 2
          BY <2>0, <2>6, <4>2
        <5> QED BY <5>1, <5>2
      <4>4. s.doc = h.doc /\ s.path = Append(h.dir, h.name)
        BY <2>0, <4>2, <4>3
      <4>5. s.path = docs'[s.doc].path
        BY <3>1, <3>3, <4>4
      <4> QED BY <3>1, <3>2, <3>3, <4>5
    <3>4. CASE h.do # "update"
      <4>1. s.doc \in DOMAIN docs' /\ docs'[s.doc].path = docs[s.doc].path
        BY <3>1, <3>2, <3>4
      <4>2. kbTodo[k].do = "update" => k > 1 /\ kbTodo'[k - 1].do = "update"
        BY <1>1, <2>0, <3>4
      <4> QED BY <3>1, <4>1, <4>2
    <3> QED BY <3>3, <3>4
  <2>7. ASSUME s.do = "index" PROVE s.doc \in DOMAIN docs'
    <3>1. s.doc \in DOMAIN docs
      BY <2>0, <2>7 DEF StepInv
    <3>2. h.do = "put" => FALSE
      <4> SUFFICES ASSUME h.do = "put" PROVE FALSE
        OBVIOUS
      <4>1. StepInv(1) /\ kbTodo[1].do = "put"
        BY <1>1 DEF KbInv
      <4>2. Len(kbTodo) = 1
        BY <4>1 DEF StepInv
      <4> QED BY <1>1, <2>0, <4>2
    <3> QED BY <3>1, <3>2
  <2>8. s.do \in {"mkdir", "put", "update", "labels", "index"}
    BY <2>0, StepFields
  <2>9. CASE s.do = "mkdir"
    BY <2>0, <2>2, <2>9 DEF StepInv
  <2>10. CASE s.do = "put"
    BY <2>0, <2>3, <2>4, <2>10 DEF StepInv
  <2>11. CASE s.do = "update"
    BY <2>0, <2>3, <2>5, <2>11 DEF StepInv
  <2>12. CASE s.do = "labels"
    BY <2>0, <2>6, <2>12 DEF StepInv
  <2>13. CASE s.do = "index"
    BY <2>0, <2>7, <2>13 DEF StepInv
  <2> QED BY <2>8, <2>9, <2>10, <2>11, <2>12, <2>13
<1> QED BY <1>3, <1>5, <1>6

\* What a request is about to do, when nothing was under way.
LEMMA NothingUnderWay ==
  ASSUME kbTodo = <<>>
  PROVE  DOMAIN kbTodo = {} /\ Doomed = {} /\ \A do, x : ~Pending(do, x)
<1>1. DOMAIN kbTodo = {}
  OBVIOUS
<1> QED BY <1>1 DEF Doomed, Pending

LEMMA MakeDirectoryKeeps ==
  ASSUME KbInv, MakeDirectory
  PROVE  KbInv'
<1>0. PICK p : p = Head(kbTodo).path
  OBVIOUS
<1>1. /\ kbTodo # <<>> /\ Head(kbTodo).do = "mkdir" /\ dirs' = Upserted(p)
      /\ kbTodo' = Tail(kbTodo)
      /\ UNCHANGED <<kbScope, docs, blobs, interrupted, requests>>
  BY <1>0 DEF MakeDirectory, Current, Advance
<1>2. /\ Len(kbTodo) \in Nat \ {0} /\ Head(kbTodo) = kbTodo[1] /\ 1 \in DOMAIN kbTodo
      /\ DOMAIN kbTodo = 1 .. Len(kbTodo) /\ DOMAIN kbTodo' = 1 .. Len(kbTodo) - 1
      /\ Head(kbTodo) \in KbStep /\ kbTodo' \in Seq(KbStep)
      /\ \A k \in 1 .. Len(kbTodo) - 1 : kbTodo'[k] = kbTodo[k + 1]
  BY <1>1, Advanced DEF KbInv
<1>3. p \in Seq(Names) /\ (p = Root \/ LiveAt(Front(p)))
  <2>1. StepInv(1)
    BY <1>2 DEF KbInv
  <2> QED BY <1>0, <1>1, <1>2, <2>1, StepFields DEF StepInv
<1>4. /\ dirs' \in Seq(DirRow) /\ \A i \in DOMAIN dirs' : dirs'[i].parent <= Len(dirs')
      /\ RowsInv' /\ LiveAt(p)' /\ \A path : LiveAt(path) => LiveAt(path)'
  BY <1>1, <1>3, UpsertedIs DEF KbInv
<1>5. KbTyped'
  BY <1>1, <1>2, <1>4 DEF KbInv, KbTyped
<1>6. (\A k \in DOMAIN kbTodo' : StepInv(k)') /\ Doomed = {} /\ Doomed' = {}
  BY <1>0, <1>1, <1>4, StepsGoOn
<1>7. DocsInv'
  BY <1>1, <1>4, <1>6 DEF KbInv, DocsInv
<1>8. ASSUME NEW x \in DOMAIN docs' PROVE FollowsInv(x)'
  <2>1. ASSUME NEW do, Pending(do, x), do # "mkdir" PROVE Pending(do, x)'
    <3>1. PICK k \in DOMAIN kbTodo : kbTodo[k].do = do /\ kbTodo[k].doc = x
      BY <2>1 DEF Pending
    <3>2. k # 1
      BY <1>1, <1>2, <2>1, <3>1
    <3>3. k - 1 \in 1 .. Len(kbTodo) - 1 /\ (k - 1) + 1 = k
      BY <1>2, <3>2
    <3>4. kbTodo'[k - 1] = kbTodo[k]
      BY <1>2, <3>3
    <3> QED BY <1>2, <3>1, <3>3, <3>4 DEF Pending
  <2>2. FollowsInv(x)
    BY <1>1 DEF KbInv
  <2> QED BY <1>1, <1>6, <2>1, <2>2 DEF FollowsInv
<1> QED BY <1>4, <1>5, <1>6, <1>7, <1>8 DEF KbInv

LEMMA PendingGoesOn ==
  ASSUME KbTyped, kbTodo # <<>>, kbTodo' = Tail(kbTodo), NEW do, NEW x, Pending(do, x),
         Head(kbTodo).do = do => Head(kbTodo).doc # x
  PROVE  Pending(do, x)'
<1>1. /\ Len(kbTodo) \in Nat \ {0} /\ Head(kbTodo) = kbTodo[1]
      /\ DOMAIN kbTodo = 1 .. Len(kbTodo) /\ DOMAIN kbTodo' = 1 .. Len(kbTodo) - 1
      /\ \A k \in 1 .. Len(kbTodo) - 1 : kbTodo'[k] = kbTodo[k + 1]
  BY Advanced
<1>2. PICK k \in DOMAIN kbTodo : kbTodo[k].do = do /\ kbTodo[k].doc = x
  BY DEF Pending
<1>3. k - 1 \in 1 .. Len(kbTodo) - 1 /\ (k - 1) + 1 = k
  BY <1>1, <1>2
<1>4. kbTodo'[k - 1] = kbTodo[k]
  BY <1>1, <1>3
<1> QED BY <1>1, <1>2, <1>3, <1>4 DEF Pending

\* A document gets the row that is put, the one at its path or a new one.
LEMMA PutDocumentIs ==
  ASSUME KbInv, PutDocument
  PROVE  LET h == Head(kbTodo)
             path == Append(h.dir, h.name)
         IN /\ kbTodo' = <<>> /\ DOMAIN kbTodo = {1} /\ kbTodo[1].do = "put" /\ LiveAt(h.dir)
            /\ UNCHANGED <<kbScope, dirs, blobs, interrupted, requests>>
            /\ \E x \in Nat, row \in DocRow :
                 /\ docs' = [y \in DOMAIN docs \cup {x} |-> IF y # x THEN docs[y] ELSE row]
                 /\ row.dir = h.dir /\ row.name = h.name /\ row.path = path
                 /\ \/ /\ x \in DOMAIN docs /\ docs[x].path = path
                       /\ row.labels = docs[x].labels \cup {path}
                       /\ row.index = docs[x].index \cup {path}
                    \/ /\ x \notin DOMAIN docs /\ DocsAt(path) = {}
                       /\ row.labels = {path} /\ row.index = {path}
<1> DEFINE h == Head(kbTodo)
           path == Append(h.dir, h.name)
<1>1. /\ kbTodo # <<>> /\ h.do = "put" /\ kbTodo' = Tail(kbTodo)
      /\ UNCHANGED <<kbScope, dirs, blobs, interrupted, requests>>
  BY DEF PutDocument, Current, Advance
<1>2. /\ h = kbTodo[1] /\ 1 \in DOMAIN kbTodo /\ h \in KbStep /\ StepInv(1)
      /\ Len(kbTodo) = 1 /\ LiveAt(h.dir) /\ DOMAIN kbTodo = {1}
      /\ kbTodo' \in Seq(KbStep) /\ DOMAIN kbTodo' = {}
  <2>1. /\ Len(kbTodo) \in Nat \ {0} /\ h = kbTodo[1] /\ DOMAIN kbTodo = 1 .. Len(kbTodo)
        /\ h \in KbStep /\ kbTodo' \in Seq(KbStep) /\ DOMAIN kbTodo' = 1 .. Len(kbTodo) - 1
    BY <1>1, Advanced DEF KbInv
  <2>2. 1 \in DOMAIN kbTodo /\ StepInv(1)
    BY <2>1 DEF KbInv
  <2>3. Len(kbTodo) = 1 /\ LiveAt(h.dir)
    BY <1>1, <2>1, <2>2 DEF StepInv
  <2> QED BY <2>1, <2>2, <2>3
<1>3. /\ h.dir \in Seq(Names) /\ h.name \in FileNames /\ h.name \in Names /\ h.blob \in Blobs
      /\ path \in Seq(Names)
  <2>1. h.dir \in Seq(Names) /\ h.name \in FileNames /\ h.blob \in Blobs
    BY <1>1, <1>2, StepFields
  <2>2. h.name \in Names
    BY <2>1, KnowledgeBaseAssumption
  <2> QED BY <2>1, <2>2, AppendIs
<1>4. \E x \in Nat, row \in DocRow :
        /\ docs' = [y \in DOMAIN docs \cup {x} |-> IF y # x THEN docs[y] ELSE row]
        /\ row.dir = h.dir /\ row.name = h.name /\ row.path = path
        /\ \/ /\ x \in DOMAIN docs /\ docs[x].path = path
              /\ row.labels = docs[x].labels \cup {path}
              /\ row.index = docs[x].index \cup {path}
           \/ /\ x \notin DOMAIN docs /\ DocsAt(path) = {}
              /\ row.labels = {path} /\ row.index = {path}
  <2> DEFINE new == CHOOSE n \in 1 .. Cardinality(DOMAIN docs) + 1 : n \notin DOMAIN docs
             z == IF DocsAt(path) = {} THEN new ELSE CHOOSE y \in DocsAt(path) : TRUE
             old == IF z = new THEN [blobs |-> {}, labels |-> {}, index |-> {}] ELSE docs[z]
             r == [dir |-> h.dir, name |-> h.name, path |-> path,
                   blobs |-> old.blobs \cup {h.blob}, labels |-> old.labels \cup {path},
                   index |-> old.index \cup {path}]
  <2>1. docs' = [y \in DOMAIN docs \cup {z} |-> IF y # z THEN docs[y] ELSE r]
    BY DEF PutDocument
  <2>2. new \in Nat /\ new \notin DOMAIN docs
    <3>1. IsFiniteSet(DOMAIN docs)
      BY DEF KbInv, KbTyped
    <3>2. Cardinality(DOMAIN docs) \in Nat
      BY <3>1, FS_CardinalityType
    <3>3. \E n \in 1 .. Cardinality(DOMAIN docs) + 1 : n \notin DOMAIN docs
      BY <3>1, NewId
    <3> QED BY <3>2, <3>3
  <2>3. CASE DocsAt(path) = {}
    <3>1. z = new /\ old = [blobs |-> {}, labels |-> {}, index |-> {}]
      BY <2>3
    <3>2. /\ r \in DocRow /\ r.dir = h.dir /\ r.name = h.name /\ r.path = path
          /\ r.labels = {path} /\ r.index = {path}
      BY <1>3, <3>1 DEF DocRow
    <3> HIDE DEF z, r, new, old, path
    <3> QED BY <2>1, <2>2, <2>3, <3>1, <3>2
  <2>4. CASE DocsAt(path) # {}
    <3>1. z \in DOMAIN docs /\ docs[z].path = path
      BY <2>4 DEF DocsAt
    <3>2. z # new
      BY <2>2, <3>1
    <3>3. old = docs[z]
      BY <3>2
    <3>4. /\ docs[z] \in DocRow /\ z \in Nat /\ docs[z].blobs \in SUBSET Blobs
          /\ docs[z].labels \in SUBSET Seq(Names) /\ docs[z].index \in SUBSET Seq(Names)
      BY <3>1, DocIs DEF KbInv
    <3> HIDE DEF z, old, path
    <3>5. /\ r \in DocRow /\ r.dir = h.dir /\ r.name = h.name /\ r.path = path
          /\ r.labels = docs[z].labels \cup {path} /\ r.index = docs[z].index \cup {path}
      BY <1>3, <3>3, <3>4 DEF DocRow
    <3> HIDE DEF r
    <3> QED BY <2>1, <3>1, <3>4, <3>5
  <2> QED BY <2>3, <2>4
<1>5. kbTodo' = <<>>
  BY <1>2
<1> HIDE DEF path, h
<1> QED BY <1>1, <1>2, <1>4, <1>5, Zenon DEF path, h

LEMMA PutDocumentKeeps ==
  ASSUME KbInv, PutDocument
  PROVE  KbInv'
<1> DEFINE h == Head(kbTodo)
           path == Append(h.dir, h.name)
<1>1. UNCHANGED <<kbScope, dirs, blobs, interrupted, requests>>
  BY PutDocumentIs
<1>2. /\ DOMAIN kbTodo = {1} /\ kbTodo[1].do = "put" /\ LiveAt(h.dir)
      /\ kbTodo' \in Seq(KbStep) /\ DOMAIN kbTodo' = {}
  <2>1. kbTodo' = <<>> /\ DOMAIN kbTodo = {1} /\ kbTodo[1].do = "put" /\ LiveAt(h.dir)
    BY PutDocumentIs
  <2> QED BY <2>1
<1>4. PICK x \in Nat, row \in DocRow :
        /\ docs' = [y \in DOMAIN docs \cup {x} |-> IF y # x THEN docs[y] ELSE row]
        /\ row.dir = h.dir /\ row.name = h.name /\ row.path = path
        /\ \/ /\ x \in DOMAIN docs /\ docs[x].path = path
              /\ row.labels = docs[x].labels \cup {path}
              /\ row.index = docs[x].index \cup {path}
           \/ /\ x \notin DOMAIN docs /\ DocsAt(path) = {}
              /\ row.labels = {path} /\ row.index = {path}
  BY PutDocumentIs
<1> HIDE DEF h, path
<1>5. DOMAIN docs' = DOMAIN docs \cup {x} /\ docs'[x] = row
      /\ \A y \in DOMAIN docs : y # x => docs'[y] = docs[y]
  BY <1>4
<1>6. KbTyped'
  <2>1. IsFiniteSet(DOMAIN docs')
    <3>1. IsFiniteSet(DOMAIN docs)
      BY DEF KbInv, KbTyped
    <3>2. IsFiniteSet(DOMAIN docs \cup {x})
      BY <3>1, FS_AddElement
    <3> QED BY <1>5, <3>2
  <2>2. docs' \in [DOMAIN docs' -> DocRow]
    BY <1>4, <1>5 DEF KbInv, KbTyped
  <2> QED BY <1>1, <1>2, <1>4, <1>5, <2>1, <2>2 DEF KbInv, KbTyped
<1>7. RowsInv'
  BY <1>1 DEF KbInv, RowsInv, LiveDirs
<1>8. Doomed = {} /\ Doomed' = {}
  <2>1. \A k \in DOMAIN kbTodo : kbTodo[k].do # "delete"
    BY <1>1, <1>2
  <2> QED BY <1>2, <2>1 DEF Doomed
<1>9. DocsInv'
  <2>1. \A y \in DOMAIN docs : y # x => docs[y].path # path
    BY <1>4 DEF KbInv, DocsInv, DocsAt
  <2>2. \A y, z \in DOMAIN docs' : docs'[y].path = docs'[z].path => y = z
    BY <1>4, <1>5, <2>1 DEF KbInv, DocsInv
  <2>3. \A y \in DOMAIN docs' : docs'[y].path = Append(docs'[y].dir, docs'[y].name)
    BY <1>4, <1>5 DEF KbInv, DocsInv, path
  <2>4. ASSUME NEW y \in DOMAIN docs'
        PROVE  (\E i \in LiveDirs' : dirs'[i].path = docs'[y].dir) \/ (kbScope' = "private" /\ interrupted' = "delete")
    <3>1. CASE y = x
      BY <1>1, <1>2, <1>4, <1>5, <3>1 DEF LiveAt, LiveDirs
    <3>2. CASE y # x
      <4>1. y \in DOMAIN docs /\ docs'[y] = docs[y]
        BY <1>5, <3>2
      <4>2. LiveAt(docs[y].dir) \/ (kbScope = "private" /\ interrupted = "delete")
        BY <1>8, <4>1 DEF KbInv, DocsInv
      <4> QED BY <1>1, <4>1, <4>2 DEF LiveAt, LiveDirs
    <3> QED BY <3>1, <3>2
  <2> QED BY <2>2, <2>3, <2>4 DEF DocsInv, LiveAt
<1>10. ASSUME NEW y \in DOMAIN docs' PROVE FollowsInv(y)'
  <2>1. \A do \in {"labels", "index"} : ~Pending(do, y)
    BY <1>1, <1>2 DEF Pending
  <2>2. CASE y \in DOMAIN docs
    <3>1. \/ interrupted # "nothing"
          \/ docs[y].labels = {docs[y].path} /\ docs[y].index = {docs[y].path}
      BY <1>8, <2>1, <2>2 DEF KbInv, FollowsInv
    <3>2. \/ interrupted # "nothing"
          \/ docs'[y].labels = {docs'[y].path} /\ docs'[y].index = {docs'[y].path}
      <4>1. CASE y = x
        BY <1>4, <1>5, <2>2, <3>1, <4>1
      <4>2. CASE y # x
        BY <1>5, <2>2, <3>1, <4>2
      <4> QED BY <4>1, <4>2
    <3> QED BY <1>1, <3>2 DEF FollowsInv
  <2>3. CASE y \notin DOMAIN docs
    <3>1. y = x /\ docs'[y].labels = {docs'[y].path} /\ docs'[y].index = {docs'[y].path}
      BY <1>4, <1>5, <2>3
    <3> QED BY <3>1 DEF FollowsInv
  <2> QED BY <2>2, <2>3
<1> QED BY <1>2, <1>6, <1>7, <1>9, <1>10 DEF KbInv

\* A change of a document: of its path, its labels or its index.
LEMMA DocumentChangeKeeps ==
  ASSUME KbInv, kbTodo # <<>>, kbTodo' = Tail(kbTodo),
         Head(kbTodo).do \in {"update", "labels", "index"},
         UNCHANGED <<kbScope, dirs, blobs, interrupted, requests>>,
         NEW x \in DOMAIN docs, x = Head(kbTodo).doc, NEW row \in DocRow,
         docs' = [docs EXCEPT ![x] = row],
         row.path = Append(row.dir, row.name),
         IF Head(kbTodo).do = "update"
         THEN row.dir = Head(kbTodo).dir /\ row.name = Head(kbTodo).name
         ELSE row.dir = docs[x].dir /\ row.name = docs[x].name,
         row.labels = {row.path} \/ Pending("labels", x)'
           \/ (Head(kbTodo).do = "index" /\ row.labels = docs[x].labels),
         row.index = {row.path} \/ Pending("index", x)'
           \/ (Head(kbTodo).do = "labels" /\ row.index = docs[x].index)
  PROVE  KbInv'
<1> DEFINE h == Head(kbTodo)
<1>1. /\ Len(kbTodo) \in Nat \ {0} /\ h = kbTodo[1] /\ 1 \in DOMAIN kbTodo /\ h \in KbStep
      /\ kbTodo' \in Seq(KbStep) /\ StepInv(1)
  BY Advanced DEF KbInv
<1>2. /\ DOMAIN docs' = DOMAIN docs /\ docs'[x] = row
      /\ \A y \in DOMAIN docs : y # x => docs'[y] = docs[y]
      /\ docs[x].path = Append(docs[x].dir, docs[x].name)
  BY DEF KbInv, DocsInv
<1>3. h.do # "update" => row.path = docs[x].path
  BY <1>2
<1>4. /\ \A k \in DOMAIN kbTodo' : StepInv(k)'
      /\ Doomed = {} /\ Doomed' = {}
  <2>1. \A y \in DOMAIN docs :
          docs'[y].path = IF h.do = "update" /\ y = h.doc THEN Append(h.dir, h.name)
                          ELSE docs[y].path
    BY <1>2, <1>3
  <2>2. h.do # "mkdir" /\ h.do \notin {"assets", "delete"}
    OBVIOUS
  <2> QED BY <1>2, <2>1, <2>2, StepsGoOn
<1>5. KbTyped'
  <2>1. docs' \in [DOMAIN docs' -> DocRow]
    BY <1>2 DEF KbInv, KbTyped
  <2> QED BY <1>1, <1>2, <2>1 DEF KbInv, KbTyped
<1>6. RowsInv'
  BY DEF KbInv, RowsInv, LiveDirs
<1>7. DocsInv'
  <2>1. \A y \in DOMAIN docs : docs[y].path = row.path => y = x
    <3>1. CASE h.do = "update"
      <4>1. \A y \in DOMAIN docs : docs[y].path = Append(h.dir, h.name) => y = h.doc
        BY <1>1, <3>1 DEF StepInv
      <4> QED BY <3>1, <4>1
    <3>2. CASE h.do # "update"
      BY <1>3, <3>2 DEF KbInv, DocsInv
    <3> QED BY <3>1, <3>2
  <2>2. \A y, z \in DOMAIN docs' : docs'[y].path = docs'[z].path => y = z
    BY <1>2, <2>1 DEF KbInv, DocsInv
  <2>3. \A y \in DOMAIN docs' : docs'[y].path = Append(docs'[y].dir, docs'[y].name)
    BY <1>2 DEF KbInv, DocsInv
  <2>4. LiveAt(row.dir) \/ (kbScope = "private" /\ interrupted = "delete")
    <3>1. CASE h.do = "update"
      BY <1>1, <3>1 DEF StepInv
    <3>2. CASE h.do # "update"
      BY <1>4, <3>2 DEF KbInv, DocsInv
    <3> QED BY <3>1, <3>2
  <2>5. ASSUME NEW y \in DOMAIN docs'
        PROVE  (\E i \in LiveDirs' : dirs'[i].path = docs'[y].dir) \/ (kbScope' = "private" /\ interrupted' = "delete")
    <3>1. LiveAt(docs'[y].dir) \/ (kbScope = "private" /\ interrupted = "delete")
      BY <1>2, <1>4, <2>4 DEF KbInv, DocsInv
    <3> QED BY <3>1 DEF LiveAt, LiveDirs
  <2> QED BY <2>2, <2>3, <2>5 DEF DocsInv, LiveAt
<1>8. ASSUME NEW y \in DOMAIN docs' PROVE FollowsInv(y)'
  <2>1. FollowsInv(y)
    BY <1>2 DEF KbInv
  <2>2. CASE y # x
    <3>1. \A do \in {"labels", "index"} : Pending(do, y) => Pending(do, y)'
      BY <2>2, PendingGoesOn DEF KbInv
    <3> QED BY <1>2, <1>4, <2>1, <2>2, <3>1 DEF FollowsInv
  <2>3. CASE y = x
    <3>1. /\ h.do = "index" => (Pending("labels", x) => Pending("labels", x)')
          /\ h.do = "labels" => (Pending("index", x) => Pending("index", x)')
      BY PendingGoesOn DEF KbInv
    <3> QED BY <1>2, <1>3, <1>4, <2>1, <2>3, <3>1 DEF FollowsInv
  <2> QED BY <2>2, <2>3
<1> QED BY <1>4, <1>5, <1>6, <1>7, <1>8 DEF KbInv

LEMMA UpdateDocumentKeeps ==
  ASSUME KbInv, UpdateDocument
  PROVE  KbInv'
<1> DEFINE h == Head(kbTodo)
<1>0. PICK x : x = h.doc
  OBVIOUS
<1> DEFINE row == [[[docs[x] EXCEPT !.dir = h.dir] EXCEPT !.name = h.name]
                  EXCEPT !.path = Append(h.dir, h.name)]
<1>1. /\ kbTodo # <<>> /\ h.do = "update" /\ kbTodo' = Tail(kbTodo)
      /\ UNCHANGED <<kbScope, dirs, blobs, interrupted, requests>>
  BY DEF UpdateDocument, Current, Advance
<1>2. /\ h = kbTodo[1] /\ h \in KbStep /\ StepInv(1)
      /\ DOMAIN kbTodo' = 1 .. Len(kbTodo) - 1
      /\ \A k \in 1 .. Len(kbTodo) - 1 : kbTodo'[k] = kbTodo[k + 1]
  BY <1>1, Advanced DEF KbInv
<1>3. /\ x \in DOMAIN docs /\ Len(kbTodo) = 1 + 2
      /\ kbTodo[1 + 1] = [do |-> "labels", doc |-> x, path |-> Append(h.dir, h.name)]
      /\ kbTodo[1 + 2] = [do |-> "index", doc |-> x]
  BY <1>0, <1>1, <1>2 DEF StepInv
<1>4. h.dir \in Seq(Names) /\ h.name \in FileNames /\ Append(h.dir, h.name) \in Seq(Names)
  <2>1. h.dir \in Seq(Names) /\ h.name \in FileNames
    BY <1>1, <1>2, StepFields
  <2>2. h.name \in Names
    BY <2>1, KnowledgeBaseAssumption
  <2> QED BY <2>1, <2>2, AppendIs
<1>5. docs[x] \in DocRow
  BY <1>3, DocIs DEF KbInv
<1>6. /\ row \in DocRow /\ row.dir = h.dir /\ row.name = h.name
      /\ row.path = Append(h.dir, h.name)
  BY <1>4, <1>5 DEF DocRow
<1>7. docs' = [docs EXCEPT ![x] = row]
  BY <1>0, <1>3 DEF UpdateDocument, KbInv, KbTyped
<1>8. Pending("labels", x)' /\ Pending("index", x)'
  <2>1. /\ DOMAIN kbTodo' = 1 .. 2
        /\ kbTodo'[1] = [do |-> "labels", doc |-> x, path |-> Append(h.dir, h.name)]
        /\ kbTodo'[2] = [do |-> "index", doc |-> x]
    BY <1>2, <1>3
  <2> QED BY <2>1 DEF Pending
<1> HIDE DEF row
<1> QED BY <1>0, <1>1, <1>3, <1>6, <1>7, <1>8, DocumentChangeKeeps

LEMMA SyncLabelsKeeps ==
  ASSUME KbInv, SyncLabels
  PROVE  KbInv'
<1>0. PICK x, path : x = Head(kbTodo).doc /\ path = Head(kbTodo).path
  OBVIOUS
<1> DEFINE h == Head(kbTodo)
           row == [docs[x] EXCEPT !.labels = {path}]
<1>1. /\ kbTodo # <<>> /\ h.do = "labels" /\ kbTodo' = Tail(kbTodo)
      /\ UNCHANGED <<kbScope, dirs, blobs, interrupted, requests>>
  BY DEF SyncLabels, Current, Advance
<1>2. /\ h = kbTodo[1] /\ h \in KbStep /\ StepInv(1)
  BY <1>1, Advanced DEF KbInv
<1>3. x \in DOMAIN docs /\ path = docs[x].path
  BY <1>0, <1>1, <1>2 DEF StepInv
<1>4. /\ docs[x] \in DocRow /\ path \in Seq(Names)
      /\ docs[x].path = Append(docs[x].dir, docs[x].name)
  BY <1>3, DocIs DEF KbInv, DocsInv
<1>5. /\ row \in DocRow /\ row.dir = docs[x].dir /\ row.name = docs[x].name
      /\ row.path = path /\ row.labels = {path} /\ row.index = docs[x].index
  BY <1>3, <1>4 DEF DocRow
<1>6. docs' = [docs EXCEPT ![x] = row]
  BY <1>0 DEF SyncLabels
<1> HIDE DEF row
<1>7. row.path = Append(row.dir, row.name) /\ row.labels = {row.path}
  BY <1>3, <1>4, <1>5
<1> QED BY <1>0, <1>1, <1>3, <1>5, <1>6, <1>7, DocumentChangeKeeps

LEMMA SyncIndexKeeps ==
  ASSUME KbInv, SyncIndex
  PROVE  KbInv'
<1>0. PICK x : x = Head(kbTodo).doc
  OBVIOUS
<1> DEFINE h == Head(kbTodo)
           row == [docs[x] EXCEPT !.index = {docs[x].path}]
<1>1. /\ kbTodo # <<>> /\ h.do = "index" /\ kbTodo' = Tail(kbTodo)
      /\ UNCHANGED <<kbScope, dirs, blobs, interrupted, requests>>
  BY DEF SyncIndex, Current, Advance
<1>2. /\ h = kbTodo[1] /\ h \in KbStep /\ StepInv(1)
  BY <1>1, Advanced DEF KbInv
<1>3. x \in DOMAIN docs
  BY <1>0, <1>1, <1>2 DEF StepInv
<1>4. docs[x] \in DocRow /\ docs[x].path \in Seq(Names)
      /\ docs[x].path = Append(docs[x].dir, docs[x].name)
  BY <1>3, DocIs DEF KbInv, DocsInv
<1>5. /\ row \in DocRow /\ row.dir = docs[x].dir /\ row.name = docs[x].name
      /\ row.path = docs[x].path /\ row.labels = docs[x].labels /\ row.index = {row.path}
  BY <1>4 DEF DocRow
<1>6. docs' = [docs EXCEPT ![x] = row]
  BY <1>0 DEF SyncIndex
<1> HIDE DEF row
<1> QED BY <1>0, <1>1, <1>3, <1>4, <1>5, <1>6, DocumentChangeKeeps

\* A deletion goes on: what is left of it is as it should be.
LEMMA DeletionGoesOn ==
  ASSUME KbInv, kbTodo # <<>>, kbTodo' = Tail(kbTodo),
         Head(kbTodo).do \in {"assets", "delete"},
         DOMAIN docs' \subseteq DOMAIN docs, DOMAIN dirs' = DOMAIN dirs,
         \A x \in DOMAIN docs' : docs'[x].dir = docs[x].dir,
         LiveDirs' \subseteq LiveDirs,
         \A i \in DOMAIN dirs : dirs'[i].path = dirs[i].path /\ dirs'[i].parent = dirs[i].parent,
         \A x \in DOMAIN docs \ DOMAIN docs' :
           Head(kbTodo).do = "delete" /\ x \in Head(kbTodo).docs
  PROVE  /\ \A k \in DOMAIN kbTodo' : StepInv(k)'
         /\ \A x \in Doomed : \/ x \in Doomed'
                              \/ Head(kbTodo).do = "delete" /\ x \in Head(kbTodo).docs
<1> DEFINE h == Head(kbTodo)
<1>1. /\ Len(kbTodo) \in Nat \ {0} /\ h = kbTodo[1] /\ StepInv(1)
      /\ DOMAIN kbTodo = 1 .. Len(kbTodo) /\ DOMAIN kbTodo' = 1 .. Len(kbTodo) - 1
      /\ kbTodo' \in Seq(KbStep) /\ Len(kbTodo') = Len(kbTodo) - 1
      /\ \A k \in 1 .. Len(kbTodo) - 1 : kbTodo'[k] = kbTodo[k + 1]
  BY Advanced DEF KbInv
<1>2. \A k \in DOMAIN kbTodo : kbTodo[k].do \in {"assets", "delete"}
  BY OneKind
<1>3. ASSUME NEW x \in Doomed, ~(h.do = "delete" /\ x \in h.docs)
      PROVE  x \in Doomed'
  <2>1. PICK k \in DOMAIN kbTodo : kbTodo[k].do = "delete" /\ x \in kbTodo[k].docs
    BY DEF Doomed
  <2>2. k # 1
    BY <1>1, <1>3, <2>1
  <2>3. k - 1 \in 1 .. Len(kbTodo) - 1 /\ (k - 1) + 1 = k
    BY <1>1, <2>2
  <2>4. kbTodo'[k - 1] = kbTodo[k] /\ k - 1 \in DOMAIN kbTodo'
    BY <1>1, <2>3
  <2> QED BY <2>1, <2>4 DEF Doomed
<1>4. ASSUME NEW k \in DOMAIN kbTodo' PROVE StepInv(k)'
  <2>0. PICK s \in KbStep :
          /\ k \in Nat /\ k + 1 \in DOMAIN kbTodo /\ kbTodo'[k] = s /\ s = kbTodo[k + 1]
          /\ StepInv(k + 1) /\ s.do \in {"assets", "delete"}
    <3>1. k + 1 \in 1 .. Len(kbTodo) /\ k \in Nat
      BY <1>1
    <3>2. kbTodo[k + 1] \in KbStep
      BY <3>1, Advanced DEF KbInv
    <3> QED BY <1>1, <1>2, <3>1, <3>2 DEF KbInv
  <2>1. ASSUME NEW l \in DOMAIN kbTodo'
        PROVE  kbTodo'[l] = kbTodo[l + 1] /\ l + 1 \in DOMAIN kbTodo /\ l \in Nat
    BY <1>1
  <2>2. ASSUME s.do = "assets"
        PROVE  /\ s.doc \in DOMAIN docs'
               /\ \E l \in k + 1 .. Len(kbTodo') :
                    kbTodo'[l].do = "delete" /\ s.doc \in kbTodo'[l].docs
    <3>1. /\ s.doc \in DOMAIN docs
          /\ \E l \in k + 1 + 1 .. Len(kbTodo) :
               kbTodo[l].do = "delete" /\ s.doc \in kbTodo[l].docs
      BY <2>0, <2>2 DEF StepInv
    <3>2. s.doc \in DOMAIN docs'
      <4>1. ASSUME h.do = "delete" PROVE s.doc \notin h.docs
        <5>1. \A l \in 1 + 1 .. Len(kbTodo) : kbTodo[l].do = "assets" => kbTodo[l].doc \notin h.docs
          BY <1>1, <4>1 DEF StepInv
        <5>2. k + 1 \in 1 + 1 .. Len(kbTodo)
          BY <1>1, <2>0
        <5> QED BY <2>0, <2>2, <5>1, <5>2
      <4> QED BY <3>1, <4>1
    <3>3. PICK l \in k + 1 + 1 .. Len(kbTodo) :
            kbTodo[l].do = "delete" /\ s.doc \in kbTodo[l].docs
      BY <3>1
    <3>4. l - 1 \in k + 1 .. Len(kbTodo') /\ l - 1 \in 1 .. Len(kbTodo) - 1 /\ (l - 1) + 1 = l
      BY <1>1, <2>0, <3>3
    <3>5. kbTodo'[l - 1] = kbTodo[l]
      BY <1>1, <3>4
    <3> QED BY <3>2, <3>3, <3>4, <3>5
  <2>3. ASSUME s.do = "delete"
        PROVE  /\ \A l \in DOMAIN kbTodo' : kbTodo'[l].do \in {"assets", "delete"}
               /\ \A l \in k + 1 .. Len(kbTodo') :
                    kbTodo'[l].do = "assets" => kbTodo'[l].doc \notin s.docs
               /\ \A i \in LiveDirs' \ s.dirs :
                    dirs'[i].path # Root => dirs'[i].parent \notin s.dirs
               /\ \A x \in DOMAIN docs' \ s.docs, i \in s.dirs :
                    i \in LiveDirs' => dirs'[i].path # docs'[x].dir
    <3>1. /\ \A l \in k + 1 + 1 .. Len(kbTodo) :
               kbTodo[l].do = "assets" => kbTodo[l].doc \notin s.docs
          /\ \A i \in LiveDirs \ s.dirs : dirs[i].path # Root => dirs[i].parent \notin s.dirs
          /\ \A x \in DOMAIN docs \ s.docs, i \in s.dirs :
               i \in LiveDirs => dirs[i].path # docs[x].dir
      BY <2>0, <2>3 DEF StepInv
    <3>2. \A l \in DOMAIN kbTodo' : kbTodo'[l].do \in {"assets", "delete"}
      BY <1>2, <2>1
    <3>3. ASSUME NEW l \in k + 1 .. Len(kbTodo'), kbTodo'[l].do = "assets"
          PROVE  kbTodo'[l].doc \notin s.docs
      <4>1. l + 1 \in k + 1 + 1 .. Len(kbTodo) /\ l \in DOMAIN kbTodo'
        BY <1>1, <2>0
      <4> QED BY <2>1, <3>1, <3>3, <4>1
    <3>4. \A i \in LiveDirs' : i \in DOMAIN dirs
      BY DEF LiveDirs
    <3> QED BY <3>1, <3>2, <3>3, <3>4
  <2>4. s.do \notin {"mkdir", "put", "update", "labels", "index"}
    BY <2>0
  <2> QED BY <2>0, <2>2, <2>3, <2>4 DEF StepInv
<1> QED BY <1>3, <1>4

LEMMA DeleteAssetsKeeps ==
  ASSUME KbInv, DeleteAssets
  PROVE  KbInv'
<1>0. PICK x : x = Head(kbTodo).doc
  OBVIOUS
<1> DEFINE h == Head(kbTodo)
           row == [docs[x] EXCEPT !.index = {}]
<1>1. /\ kbTodo # <<>> /\ h.do = "assets" /\ kbTodo' = Tail(kbTodo)
      /\ UNCHANGED <<kbScope, dirs, interrupted, requests>>
      /\ docs' = [docs EXCEPT ![x] = row] /\ blobs' \subseteq blobs
  BY <1>0 DEF DeleteAssets, Current, Advance
<1>2. /\ h = kbTodo[1] /\ h \in KbStep /\ StepInv(1) /\ kbTodo' \in Seq(KbStep)
  BY <1>1, Advanced DEF KbInv
<1>3. x \in DOMAIN docs
  BY <1>0, <1>1, <1>2 DEF StepInv
<1>4. docs[x] \in DocRow
  BY <1>3, DocIs DEF KbInv
<1>5. /\ row \in DocRow /\ row.dir = docs[x].dir /\ row.name = docs[x].name
      /\ row.path = docs[x].path /\ row.labels = docs[x].labels
  BY <1>4 DEF DocRow
<1> HIDE DEF row
<1>6. /\ DOMAIN docs' = DOMAIN docs
      /\ \A y \in DOMAIN docs : docs'[y].dir = docs[y].dir /\ docs'[y].path = docs[y].path
                                /\ docs'[y].name = docs[y].name
      /\ \A y \in DOMAIN docs : y # x => docs'[y] = docs[y]
  BY <1>1, <1>3, <1>5
<1>7. /\ \A k \in DOMAIN kbTodo' : StepInv(k)'
      /\ \A y \in Doomed : y \in Doomed'
  <2>1. LiveDirs' = LiveDirs
    BY <1>1 DEF LiveDirs
  <2> QED BY <1>1, <1>6, <2>1, DeletionGoesOn
<1>8. KbTyped'
  <2>1. docs' \in [DOMAIN docs' -> DocRow]
    BY <1>1, <1>5, <1>6 DEF KbInv, KbTyped
  <2> QED BY <1>1, <1>2, <1>6, <2>1 DEF KbInv, KbTyped
<1>9. RowsInv'
  BY <1>1 DEF KbInv, RowsInv, LiveDirs
<1>10. DocsInv'
  BY <1>1, <1>6, <1>7, SMTT(30) DEF KbInv, DocsInv, LiveAt, LiveDirs
<1>11. ASSUME NEW y \in DOMAIN docs' PROVE FollowsInv(y)'
  <2>1. FollowsInv(y)
    BY <1>6 DEF KbInv
  <2>2. CASE y # x
    <3>1. \A do \in {"labels", "index"} : Pending(do, y) => Pending(do, y)'
      BY <1>1, PendingGoesOn DEF KbInv
    <3> QED BY <1>1, <1>6, <1>7, <2>1, <2>2, <3>1 DEF FollowsInv
  <2>3. CASE y = x
    <3>1. x \in Doomed
      <4>1. PICK l \in 1 + 1 .. Len(kbTodo) : kbTodo[l].do = "delete" /\ x \in kbTodo[l].docs
        BY <1>0, <1>1, <1>2 DEF StepInv
      <4>2. l \in DOMAIN kbTodo
        <5>1. kbTodo \in Seq(KbStep)
          BY DEF KbInv, KbTyped
        <5> QED BY <4>1, <5>1
      <4> QED BY <4>1, <4>2 DEF Doomed
    <3> QED BY <1>7, <2>3, <3>1 DEF FollowsInv
  <2> QED BY <2>2, <2>3
<1> QED BY <1>7, <1>8, <1>9, <1>10, <1>11 DEF KbInv

\* Directories that are marked together with all below them leave a tree.
LEMMA MarkedIs ==
  ASSUME KbTyped, RowsInv, NEW is,
         \A i \in LiveDirs \ is : dirs[i].path # Root => dirs[i].parent \notin is,
         dirs' = [i \in DOMAIN dirs |-> [dirs[i] EXCEPT !.live = @ /\ i \notin is]]
  PROVE  /\ dirs' \in Seq(DirRow) /\ \A i \in DOMAIN dirs' : dirs'[i].parent <= Len(dirs')
         /\ DOMAIN dirs' = DOMAIN dirs /\ LiveDirs' = LiveDirs \ is
         /\ \A i \in DOMAIN dirs : /\ dirs'[i].path = dirs[i].path
                                   /\ dirs'[i].parent = dirs[i].parent
         /\ RowsInv'
<1> DEFINE n == Len(dirs)
<1>1. dirs \in Seq(DirRow) /\ n \in Nat /\ DOMAIN dirs = 1 .. n
  BY DEF KbTyped
<1>2. ASSUME NEW i \in DOMAIN dirs
      PROVE  /\ dirs'[i] \in DirRow /\ dirs'[i].path = dirs[i].path
             /\ dirs'[i].parent = dirs[i].parent
  <2>1. dirs[i] \in DirRow /\ dirs'[i] = [dirs[i] EXCEPT !.live = @ /\ i \notin is]
    BY <1>1
  <2> QED BY <2>1 DEF DirRow
<1>3. DOMAIN dirs' = 1 .. n /\ dirs' \in [1 .. n -> DirRow]
  BY <1>1, <1>2
<1>4. dirs' \in Seq(DirRow)
  BY <1>1, <1>3, FunctionIsList, Zenon
<1>5. Len(dirs') = n
  BY <1>1, <1>3, <1>4
<1>6. LiveDirs' = LiveDirs \ is
  <2>1. ASSUME NEW i \in DOMAIN dirs
        PROVE  dirs'[i].live <=> dirs[i].live /\ i \notin is
    <3>1. dirs[i] \in DirRow /\ dirs'[i] = [dirs[i] EXCEPT !.live = @ /\ i \notin is]
      BY <1>1
    <3> QED BY <3>1 DEF DirRow
  <2> QED BY <1>1, <1>3, <2>1, Zenon DEF LiveDirs
<1>7. \A i \in DOMAIN dirs' : dirs'[i].parent <= Len(dirs')
  BY <1>1, <1>2, <1>3, <1>5 DEF KbTyped
<1>8. RowsInv'
  <2>1. \A i, j \in DOMAIN dirs' : dirs'[i].path = dirs'[j].path => i = j
    BY <1>1, <1>2, <1>3 DEF RowsInv
  <2>2. \A i \in DOMAIN dirs' : dirs'[i].path = Root => dirs'[i].parent = 0
    BY <1>1, <1>2, <1>3 DEF RowsInv
  <2>3. ASSUME NEW i \in LiveDirs', dirs'[i].path # Root
        PROVE  dirs'[i].parent \in LiveDirs' /\ dirs'[dirs'[i].parent].path = Front(dirs'[i].path)
    <3>1. i \in LiveDirs /\ i \notin is /\ i \in DOMAIN dirs
      BY <1>6 DEF LiveDirs
    <3>2. /\ dirs[i].path # Root /\ dirs[i].parent \in LiveDirs
          /\ dirs[dirs[i].parent].path = Front(dirs[i].path)
          /\ dirs[i].parent \notin is /\ dirs[i].parent \in DOMAIN dirs
      BY <1>2, <2>3, <3>1 DEF RowsInv, LiveDirs
    <3> QED BY <1>2, <1>6, <3>1, <3>2
  <2> QED BY <2>1, <2>2, <2>3 DEF RowsInv
<1> QED BY <1>1, <1>2, <1>3, <1>4, <1>6, <1>7, <1>8

LEMMA DeleteRowsKeeps ==
  ASSUME KbInv, DeleteRows
  PROVE  KbInv'
<1>0. PICK h : h = Head(kbTodo)
  OBVIOUS
<1>1. /\ kbTodo # <<>> /\ h.do = "delete" /\ kbTodo' = Tail(kbTodo)
      /\ UNCHANGED <<kbScope, blobs, interrupted, requests>>
      /\ docs' = [x \in DOMAIN docs \ h.docs |-> docs[x]]
      /\ dirs' = [i \in DOMAIN dirs |-> [dirs[i] EXCEPT !.live = @ /\ i \notin h.dirs]]
  BY <1>0 DEF DeleteRows, Current, Advance
<1>2. h = kbTodo[1] /\ h \in KbStep /\ StepInv(1) /\ kbTodo' \in Seq(KbStep)
  BY <1>0, <1>1, Advanced DEF KbInv
<1>3. /\ \A i \in LiveDirs \ h.dirs : dirs[i].path # Root => dirs[i].parent \notin h.dirs
      /\ \A x \in DOMAIN docs \ h.docs, i \in h.dirs :
           i \in LiveDirs => dirs[i].path # docs[x].dir
  BY <1>1, <1>2 DEF StepInv
<1>4. /\ dirs' \in Seq(DirRow) /\ \A i \in DOMAIN dirs' : dirs'[i].parent <= Len(dirs')
      /\ DOMAIN dirs' = DOMAIN dirs /\ LiveDirs' = LiveDirs \ h.dirs
      /\ \A i \in DOMAIN dirs : dirs'[i].path = dirs[i].path /\ dirs'[i].parent = dirs[i].parent
      /\ RowsInv'
  BY <1>1, <1>3, MarkedIs DEF KbInv
<1>5. /\ DOMAIN docs' = DOMAIN docs \ h.docs
      /\ \A x \in DOMAIN docs' : x \in DOMAIN docs /\ docs'[x] = docs[x]
  BY <1>1
<1>6. /\ \A k \in DOMAIN kbTodo' : StepInv(k)'
      /\ \A x \in Doomed : x \in Doomed' \/ x \in h.docs
  BY <1>0, <1>1, <1>4, <1>5, DeletionGoesOn
<1>7. KbTyped'
  <2>1. IsFiniteSet(DOMAIN docs')
    <3>1. IsFiniteSet(DOMAIN docs)
      BY DEF KbInv, KbTyped
    <3> QED BY <1>5, <3>1, FS_Subset
  <2>2. docs' \in [DOMAIN docs' -> DocRow]
    BY <1>1, <1>5 DEF KbInv, KbTyped
  <2> QED BY <1>1, <1>2, <1>4, <1>5, <2>1, <2>2 DEF KbInv, KbTyped
<1>8. DocsInv'
  <2>1. /\ \A x, y \in DOMAIN docs' : docs'[x].path = docs'[y].path => x = y
        /\ \A x \in DOMAIN docs' : docs'[x].path = Append(docs'[x].dir, docs'[x].name)
    BY <1>5 DEF KbInv, DocsInv
  <2>2. ASSUME NEW x \in DOMAIN docs'
        PROVE  \/ \E i \in LiveDirs' : dirs'[i].path = docs'[x].dir
               \/ kbScope' = "private" /\ (x \in Doomed' \/ interrupted' = "delete")
    <3>1. x \in DOMAIN docs /\ x \notin h.docs /\ docs'[x] = docs[x]
      BY <1>5
    <3>2. CASE LiveAt(docs[x].dir)
      <4>1. PICK i \in LiveDirs : dirs[i].path = docs[x].dir
        BY <3>2 DEF LiveAt
      <4>2. i \in LiveDirs' /\ i \in DOMAIN dirs
        BY <1>3, <1>4, <3>1, <4>1 DEF LiveDirs
      <4> QED BY <1>4, <3>1, <4>1, <4>2
    <3>3. CASE ~LiveAt(docs[x].dir)
      BY <1>1, <1>6, <3>1, <3>3 DEF KbInv, DocsInv
    <3> QED BY <3>2, <3>3
  <2> QED BY <2>1, <2>2 DEF DocsInv, LiveAt
<1>9. ASSUME NEW x \in DOMAIN docs' PROVE FollowsInv(x)'
  <2>1. x \in DOMAIN docs /\ x \notin h.docs /\ docs'[x] = docs[x] /\ FollowsInv(x)
    BY <1>5 DEF KbInv
  <2>2. \A do \in {"labels", "index"} : Pending(do, x) => Pending(do, x)'
    BY <1>0, <1>1, PendingGoesOn DEF KbInv
  <2> QED BY <1>1, <1>6, <2>1, <2>2 DEF FollowsInv
<1> QED BY <1>4, <1>6, <1>7, <1>8, <1>9 DEF KbInv

LEMMA CrashKeeps ==
  ASSUME KbInv, Crash
  PROVE  KbInv'
<1>1. /\ kbTodo' = <<>> /\ interrupted = "nothing" /\ interrupted' \in {"delete", "other"}
      /\ (\E k \in DOMAIN kbTodo : kbTodo[k].do = "delete") => interrupted' = "delete"
      /\ UNCHANGED <<kbScope, dirs, docs, blobs, requests>>
  BY DEF Crash
<1>2. kbTodo' \in Seq(KbStep) /\ DOMAIN kbTodo' = {} /\ Doomed' = {}
  <2>1. kbTodo' \in Seq(KbStep) /\ DOMAIN kbTodo' = {}
    BY <1>1
  <2> QED BY <2>1 DEF Doomed
<1>3. KbTyped'
  BY <1>1, <1>2 DEF KbInv, KbTyped
<1>4. RowsInv'
  BY <1>1 DEF KbInv, RowsInv, LiveDirs
<1>5. Doomed # {} => interrupted' = "delete"
  BY <1>1 DEF Doomed
<1>6. DocsInv'
  BY <1>1, <1>5 DEF KbInv, DocsInv, LiveAt, LiveDirs
<1>7. \A x \in DOMAIN docs' : FollowsInv(x)'
  BY <1>1 DEF FollowsInv
<1> QED BY <1>2, <1>3, <1>4, <1>6, <1>7 DEF KbInv

\* The directories of a path, from the root on.
LEMMA EnsureIs ==
  ASSUME NEW p \in Seq(Names)
  PROVE  /\ Len(p) \in Nat /\ Ensure(p) \in Seq(KbStep) /\ Len(Ensure(p)) = Len(p) + 1
         /\ \A k \in 1 .. Len(p) + 1 : Ensure(p)[k].do = "mkdir"
         /\ Ensure(p)[1].path = Root /\ Ensure(p)[Len(p) + 1].path = p
         /\ \A k \in 2 .. Len(p) + 1 : Ensure(p)[k - 1].path = Front(Ensure(p)[k].path)
<1> DEFINE e == Ensure(p)
           n == Len(p)
<1>1. n \in Nat
  OBVIOUS
<1>2. \A k \in 1 .. n + 1 : e[k] = [do |-> "mkdir", path |-> SubSeq(p, 1, k - 1)]
  BY DEF Ensure
<1> HIDE DEF e
<1>3. ASSUME NEW k \in 1 .. n + 1
      PROVE  /\ SubSeq(p, 1, k - 1) \in Seq(Names) /\ Len(SubSeq(p, 1, k - 1)) = k - 1
             /\ \A i \in 1 .. k - 1 : SubSeq(p, 1, k - 1)[i] = p[i]
  <2>1. 1 \in 1 .. n + 1 /\ k - 1 \in 0 .. n /\ 1 <= (k - 1) + 1 /\ (k - 1) - 1 + 1 = k - 1
        /\ \A i \in 1 .. k - 1 : 1 + i - 1 = i
    BY <1>1
  <2>2. PICK m \in 0 .. n : m = k - 1
    BY <2>1
  <2>3. /\ SubSeq(p, 1, m) \in Seq(Names) /\ Len(SubSeq(p, 1, m)) = m - 1 + 1
        /\ \A i \in 1 .. m - 1 + 1 : SubSeq(p, 1, m)[i] = p[1 + i - 1]
    BY <2>1, <2>2, SubSeqIs
  <2>4. m - 1 + 1 = m /\ \A i \in 1 .. m : 1 + i - 1 = i
    BY <2>2
  <2> QED BY <2>2, <2>3, <2>4
<1>4. \A k \in 1 .. n + 1 : e[k] \in KbStep /\ e[k].do = "mkdir"
                            /\ e[k].path = SubSeq(p, 1, k - 1)
  <2> SUFFICES ASSUME NEW k \in 1 .. n + 1
               PROVE  e[k] \in KbStep /\ e[k].do = "mkdir" /\ e[k].path = SubSeq(p, 1, k - 1)
    OBVIOUS
  <2>1. PICK q \in Seq(Names) : q = SubSeq(p, 1, k - 1)
    BY <1>3
  <2>2. [do |-> "mkdir", path |-> q] \in KbStep
    BY StepKinds
  <2> QED BY <1>2, <2>1, <2>2
<1>5. e \in Seq(KbStep) /\ Len(e) = n + 1
  <2>1. n + 1 \in Nat /\ DOMAIN e = 1 .. n + 1 /\ e = [k \in 1 .. n + 1 |-> e[k]]
    BY <1>1 DEF Ensure, e
  <2>2. e \in [1 .. n + 1 -> KbStep]
    BY <1>4, <2>1
  <2>3. e \in Seq(KbStep)
    BY <2>1, <2>2, FunctionIsList, Zenon
  <2> QED BY <2>1, <2>3
<1>6. e[1].path = Root
  <2>1. 1 \in 1 .. n + 1 /\ 1 - 1 = 0
    BY <1>1
  <2>2. SubSeq(p, 1, 1 - 1) \in Seq(Names) /\ Len(SubSeq(p, 1, 1 - 1)) = 0
    BY <1>3, <2>1
  <2>3. SubSeq(p, 1, 1 - 1) = <<>>
    BY <2>2, EmptySeq
  <2> QED BY <1>4, <2>1, <2>3 DEF Root
<1>7. e[n + 1].path = p
  <2>1. n + 1 \in 1 .. n + 1 /\ (n + 1) - 1 = n
    BY <1>1
  <2>2. PICK s \in Seq(Names) : s = SubSeq(p, 1, (n + 1) - 1) /\ Len(s) = n
                                /\ \A i \in 1 .. n : s[i] = p[i]
    BY <1>3, <2>1
  <2>3. s = p
    BY <2>2, PathsEqual
  <2> QED BY <1>4, <2>1, <2>2, <2>3
<1>8. ASSUME NEW k \in 2 .. n + 1 PROVE e[k - 1].path = Front(e[k].path)
  <2>1. k \in 1 .. n + 1 /\ k - 1 \in 1 .. n + 1 /\ (k - 1) - 1 = k - 2 /\ k \in Nat
    BY <1>1
  <2>2. PICK s \in Seq(Names) : s = e[k].path /\ Len(s) = k - 1
                                /\ \A i \in 1 .. k - 1 : s[i] = p[i]
    BY <1>3, <1>4, <2>1
  <2>3. PICK t \in Seq(Names) : t = e[k - 1].path /\ Len(t) = k - 2
                                /\ \A i \in 1 .. k - 2 : t[i] = p[i]
    BY <1>3, <1>4, <2>1
  <2>4. s # <<>>
    BY <2>1, <2>2
  <2>5. /\ Front(s) \in Seq(Names) /\ Len(Front(s)) = Len(s) - 1
        /\ \A i \in 1 .. Len(s) - 1 : Front(s)[i] = s[i]
    BY <2>4, FrontIs
  <2>6. Len(Front(s)) = Len(t) /\ \A i \in 1 .. Len(t) : Front(s)[i] = t[i]
    <3>1. Len(s) - 1 = k - 2 /\ \A i \in 1 .. k - 2 : i \in 1 .. k - 1 /\ i \in 1 .. Len(s) - 1
      BY <2>1, <2>2
    <3>2. Len(Front(s)) = Len(t)
      BY <2>3, <2>5, <3>1
    <3>3. ASSUME NEW i \in 1 .. Len(t) PROVE Front(s)[i] = t[i]
      <4>1. i \in 1 .. k - 2
        BY <2>3
      <4>2. Front(s)[i] = s[i] /\ s[i] = p[i] /\ t[i] = p[i]
        BY <2>2, <2>3, <2>5, <3>1, <4>1
      <4> QED BY <4>2
    <3> QED BY <3>2, <3>3
  <2>7. Front(s) = t
    BY <2>3, <2>5, <2>6, PathsEqual
  <2> QED BY <2>2, <2>3, <2>7
<1> QED BY <1>1, <1>4, <1>5, <1>6, <1>7, <1>8 DEF e

LEMMA EnsureSteps ==
  ASSUME NEW p \in Seq(Names), kbTodo' \in Seq(KbStep), Len(kbTodo') >= Len(p) + 1,
         \A k \in 1 .. Len(p) + 1 : kbTodo'[k] = Ensure(p)[k]
  PROVE  /\ \A k \in 1 .. Len(p) + 1 : StepInv(k)' /\ kbTodo'[k].do = "mkdir"
         /\ kbTodo'[Len(p) + 1].path = p
<1>1. /\ Len(p) \in Nat /\ \A k \in 1 .. Len(p) + 1 : kbTodo'[k].do = "mkdir"
      /\ kbTodo'[1].path = Root /\ kbTodo'[Len(p) + 1].path = p
      /\ \A k \in 2 .. Len(p) + 1 : kbTodo'[k - 1].path = Front(kbTodo'[k].path)
  <2>1. /\ Len(p) \in Nat /\ \A k \in 1 .. Len(p) + 1 : Ensure(p)[k].do = "mkdir"
        /\ Ensure(p)[1].path = Root /\ Ensure(p)[Len(p) + 1].path = p
        /\ \A k \in 2 .. Len(p) + 1 : Ensure(p)[k - 1].path = Front(Ensure(p)[k].path)
    BY EnsureIs
  <2>2. 1 \in 1 .. Len(p) + 1 /\ Len(p) + 1 \in 1 .. Len(p) + 1
        /\ \A k \in 2 .. Len(p) + 1 : k \in 1 .. Len(p) + 1 /\ k - 1 \in 1 .. Len(p) + 1
    BY <2>1
  <2> QED BY <2>1, <2>2
<1>2. ASSUME NEW k \in 1 .. Len(p) + 1 PROVE StepInv(k)'
  <2>1. kbTodo'[k].do = "mkdir"
    BY <1>1
  <2>2. CASE k = 1
    BY <1>1, <2>1, <2>2 DEF StepInv
  <2>3. CASE k # 1
    <3>1. k \in 2 .. Len(p) + 1 /\ k - 1 \in 1 .. Len(p) + 1
      BY <1>1, <2>3
    <3>2. kbTodo'[k - 1].do = "mkdir" /\ kbTodo'[k - 1].path = Front(kbTodo'[k].path)
      BY <1>1, <3>1
    <3> QED BY <2>1, <2>3, <3>2 DEF StepInv
  <2> QED BY <2>2, <2>3
<1> QED BY <1>1, <1>2

LEMMA CreateDirectoryKeeps ==
  ASSUME KbInv, NEW parent \in DOMAIN dirs, NEW name \in Names, CreateDirectory(parent, name)
  PROVE  KbInv'
<1>0. PICK p : p = Append(dirs[parent].path, name)
  OBVIOUS
<1>1. /\ kbTodo = <<>> /\ requests < MaxRequests /\ requests' = requests + 1
      /\ parent \in LiveDirs /\ dirs' = Upserted(p)
      /\ UNCHANGED <<kbScope, docs, blobs, kbTodo, interrupted>>
  BY <1>0 DEF CreateDirectory, Begins, AtRest
<1>2. p \in Seq(Names) /\ Front(p) = dirs[parent].path
  <2>1. dirs[parent].path \in Seq(Names)
    BY RowIs DEF KbInv
  <2> QED BY <1>0, <2>1, AppendIs
<1>3. LiveAt(Front(p))
  BY <1>1, <1>2 DEF LiveAt
<1>4. /\ dirs' \in Seq(DirRow) /\ \A i \in DOMAIN dirs' : dirs'[i].parent <= Len(dirs')
      /\ RowsInv' /\ \A path : LiveAt(path) => LiveAt(path)'
  BY <1>1, <1>2, <1>3, UpsertedIs DEF KbInv
<1>5. requests' \in 0 .. MaxRequests
  BY <1>1, KnowledgeBaseAssumption DEF KbInv, KbTyped
<1>6. KbTyped'
  BY <1>1, <1>4, <1>5 DEF KbInv, KbTyped
<1>7. DOMAIN kbTodo' = {} /\ Doomed = {} /\ Doomed' = {}
  <2>1. DOMAIN kbTodo' = {} /\ DOMAIN kbTodo = {}
    BY <1>1, NothingUnderWay
  <2> QED BY <2>1 DEF Doomed
<1>8. DocsInv'
  <2>1. ASSUME NEW x \in DOMAIN docs'
        PROVE  (\E i \in LiveDirs' : dirs'[i].path = docs'[x].dir)
               \/ (kbScope' = "private" /\ interrupted' = "delete")
    <3>1. LiveAt(docs[x].dir) \/ (kbScope = "private" /\ interrupted = "delete")
      BY <1>1, <1>7 DEF KbInv, DocsInv
    <3>2. PICK d : d = docs[x].dir
      OBVIOUS
    <3> QED BY <1>1, <1>4, <3>1, <3>2 DEF LiveAt
  <2> QED BY <1>1, <2>1 DEF KbInv, DocsInv, LiveAt
<1>9. \A x \in DOMAIN docs' : FollowsInv(x)'
  BY <1>1, <1>7 DEF KbInv, FollowsInv, Pending
<1> QED BY <1>4, <1>6, <1>7, <1>8, <1>9 DEF KbInv

\* A request begins that changes no row by itself.
LEMMA RequestBegins ==
  ASSUME KbInv, Begins, UNCHANGED <<kbScope, dirs, docs, interrupted>>,
         blobs' \subseteq Blobs, kbTodo' \in Seq(KbStep),
         \A k \in DOMAIN kbTodo' : StepInv(k)'
  PROVE  KbInv'
<1>1. /\ kbTodo = <<>> /\ requests < MaxRequests /\ requests' = requests + 1
      /\ DOMAIN kbTodo = {} /\ Doomed = {}
  BY NothingUnderWay DEF Begins, AtRest
<1>2. requests' \in 0 .. MaxRequests
  BY <1>1, KnowledgeBaseAssumption DEF KbInv, KbTyped
<1>3. KbTyped'
  BY <1>2 DEF KbInv, KbTyped
<1>4. RowsInv'
  BY DEF KbInv, RowsInv, LiveDirs
<1>5. DocsInv'
  BY <1>1 DEF KbInv, DocsInv, LiveAt, LiveDirs
<1>6. ASSUME NEW x \in DOMAIN docs' PROVE FollowsInv(x)'
  <2>1. \/ interrupted # "nothing"
        \/ docs[x].labels = {docs[x].path} /\ docs[x].index = {docs[x].path}
    BY <1>1 DEF KbInv, FollowsInv, Pending
  <2> QED BY <2>1 DEF FollowsInv
<1> QED BY <1>3, <1>4, <1>5, <1>6 DEF KbInv

LEMMA UploadKeeps ==
  ASSUME KbInv, NEW p \in Seq(Names), NEW name \in FileNames, NEW blob \in Blobs,
         Upload(p, name, blob)
  PROVE  KbInv'
<1> DEFINE put == [do |-> "put", dir |-> p, name |-> name, blob |-> blob]
           e == Ensure(p)
           n == Len(p) + 1
<1>1. /\ Begins /\ blobs' = blobs \cup {blob} /\ kbTodo' = Append(e, put)
      /\ UNCHANGED <<kbScope, dirs, docs, interrupted>>
  BY DEF Upload
<1>2. n \in Nat /\ e \in Seq(KbStep) /\ Len(e) = n /\ put \in KbStep
  BY EnsureIs, StepKinds
<1> HIDE DEF e
<1>3. /\ kbTodo' \in Seq(KbStep) /\ Len(kbTodo') = n + 1 /\ DOMAIN kbTodo' = 1 .. n + 1
      /\ kbTodo'[n + 1] = put /\ \A k \in 1 .. n : kbTodo'[k] = e[k]
  BY <1>1, <1>2
<1>4. /\ \A k \in 1 .. n : StepInv(k)' /\ kbTodo'[k].do = "mkdir"
      /\ kbTodo'[n].path = p
  BY <1>2, <1>3, EnsureSteps DEF e
<1>5. StepInv(n + 1)'
  <2>1. n + 1 # 1 /\ (n + 1) - 1 = n /\ n \in 1 .. n
    BY <1>2, EnsureIs
  <2>2. kbTodo'[n].do = "mkdir"
    BY <1>4, <2>1
  <2>3. /\ kbTodo'[n + 1].do = "put" /\ kbTodo'[n + 1].dir = p
        /\ n + 1 = Len(kbTodo') /\ n + 1 \in Nat
        /\ \A l \in 1 .. (n + 1) - 1 : kbTodo'[l].do = "mkdir"
    BY <1>2, <1>3, <1>4, <2>1
  <2> HIDE DEF n, put
  <2> QED BY <1>4, <2>1, <2>2, <2>3 DEF StepInv
<1>6. \A k \in DOMAIN kbTodo' : StepInv(k)'
  <2>1. \A k \in 1 .. n + 1 : k \in 1 .. n \/ k = n + 1
    BY <1>2
  <2> QED BY <1>3, <1>4, <1>5, <2>1
<1>7. blobs' \subseteq Blobs
  BY <1>1 DEF KbInv, KbTyped
<1> QED BY <1>1, <1>3, <1>6, <1>7, RequestBegins

LEMMA PatchKeeps ==
  ASSUME KbInv, NEW x \in DOMAIN docs, NEW p \in Seq(Names), NEW name \in FileNames,
         Patch(x, p, name)
  PROVE  KbInv'
<1> DEFINE update == [do |-> "update", doc |-> x, dir |-> p, name |-> name]
           path == Append(p, name)
           labels == [do |-> "labels", doc |-> x, path |-> path]
           index == [do |-> "index", doc |-> x]
           e == Ensure(p)
           n == Len(p) + 1
<1>1. /\ Begins /\ kbTodo' = Append(e, update) \o <<labels, index>> /\ DocsAt(path) = {}
      /\ UNCHANGED <<kbScope, dirs, docs, blobs, interrupted>>
  BY DEF Patch, Resync
<1>2. /\ n \in Nat /\ e \in Seq(KbStep) /\ Len(e) = n /\ update \in KbStep
      /\ path \in Seq(Names) /\ labels \in KbStep /\ index \in KbStep
  <2>1. x \in Nat /\ name \in Names
    BY KnowledgeBaseAssumption, DocIs DEF KbInv
  <2>2. path \in Seq(Names)
    BY <2>1, AppendIs
  <2>3. n \in Nat /\ e \in Seq(KbStep) /\ Len(e) = n
    BY EnsureIs
  <2> HIDE DEF path
  <2> QED BY <2>1, <2>2, <2>3, StepKinds
<1> HIDE DEF e, path
<1>3. /\ kbTodo' \in Seq(KbStep) /\ Len(kbTodo') = n + 3 /\ DOMAIN kbTodo' = 1 .. n + 3
      /\ kbTodo'[n + 1] = update /\ \A k \in 1 .. n : kbTodo'[k] = e[k]
      /\ kbTodo'[n + 2] = labels /\ kbTodo'[n + 3] = index
  <2> HIDE DEF n, update, labels, index
  <2>1. /\ Append(e, update) \in Seq(KbStep) /\ Len(Append(e, update)) = n + 1
        /\ \A k \in 1 .. n : Append(e, update)[k] = e[k]
        /\ Append(e, update)[n + 1] = update
    BY <1>2
  <2>2. /\ <<labels, index>> \in Seq(KbStep) /\ Len(<<labels, index>>) = 2
        /\ <<labels, index>>[1] = labels /\ <<labels, index>>[2] = index
    BY <1>2
  <2> DEFINE a == Append(e, update)
             b == <<labels, index>>
  <2>3. /\ a \o b \in Seq(KbStep) /\ Len(a \o b) = Len(a) + Len(b)
        /\ \A i \in 1 .. Len(a) + Len(b) : (a \o b)[i] = IF i <= Len(a) THEN a[i] ELSE b[i - Len(a)]
    BY <2>1, <2>2, ConcatProperties, Zenon
  <2>4. a \in Seq(KbStep) /\ Len(a) = n + 1 /\ Len(b) = 2 /\ b[1] = labels /\ b[2] = index
        /\ a[n + 1] = update /\ \A k \in 1 .. n : a[k] = e[k]
    BY <2>1, <2>2
  <2> HIDE DEF a, b
  <2>5. /\ n + 1 \in 1 .. Len(a) + Len(b) /\ n + 1 <= Len(a)
        /\ n + 2 \in 1 .. Len(a) + Len(b) /\ ~(n + 2 <= Len(a)) /\ (n + 2) - Len(a) = 1
        /\ n + 3 \in 1 .. Len(a) + Len(b) /\ ~(n + 3 <= Len(a)) /\ (n + 3) - Len(a) = 2
        /\ \A k \in 1 .. n : k \in 1 .. Len(a) + Len(b) /\ k <= Len(a)
        /\ Len(a) + Len(b) = n + 3
    BY <1>2, <2>4
  <2>6. kbTodo' = a \o b
    BY <1>1 DEF a, b
  <2>7. kbTodo' \in Seq(KbStep) /\ Len(kbTodo') = n + 3
    BY <2>3, <2>5, <2>6
  <2>8. DOMAIN kbTodo' = 1 .. n + 3
    BY <2>7
  <2>9. /\ kbTodo'[n + 1] = update /\ \A k \in 1 .. n : kbTodo'[k] = e[k]
        /\ kbTodo'[n + 2] = labels /\ kbTodo'[n + 3] = index
    BY <2>3, <2>4, <2>5, <2>6
  <2> QED BY <2>7, <2>8, <2>9
<1>4. /\ \A k \in 1 .. n : StepInv(k)' /\ kbTodo'[k].do = "mkdir"
      /\ kbTodo'[n].path = p
  <2>1. Len(p) \in Nat /\ Len(kbTodo') >= Len(p) + 1
    BY <1>3, EnsureIs
  <2> QED BY <1>2, <1>3, <2>1, EnsureSteps DEF e
<1>5. n \in Nat \ {0} /\ (n + 1) - 1 = n /\ n \in 1 .. n /\ n + 1 + 1 = n + 2 /\ n + 1 + 2 = n + 3
      /\ (n + 2) - 1 = n + 1 /\ \A k \in 1 .. n + 3 : k \in 1 .. n \/ k = n + 1 \/ k = n + 2 \/ k = n + 3
  BY <1>2, EnsureIs
<1>6. \A y \in DOMAIN docs' : docs'[y].path # path
  BY <1>1 DEF DocsAt
<1> HIDE DEF n
<1>7. /\ kbTodo'[n + 1].do = "update" /\ kbTodo'[n + 1].doc = x
      /\ kbTodo'[n + 1].dir = p /\ kbTodo'[n + 1].name = name
      /\ kbTodo'[n + 1 + 1] = [do |-> "labels", doc |-> x, path |-> Append(p, name)]
      /\ kbTodo'[n + 1 + 2] = [do |-> "index", doc |-> x]
      /\ kbTodo'[n + 2].do = "labels" /\ kbTodo'[n + 2].doc = x
      /\ kbTodo'[n + 3].do = "index" /\ kbTodo'[n + 3].doc = x
      /\ Len(kbTodo') = n + 1 + 2 /\ x \in DOMAIN docs'
  <2>1. /\ update.do = "update" /\ update.doc = x /\ update.dir = p /\ update.name = name
        /\ labels = [do |-> "labels", doc |-> x, path |-> Append(p, name)]
        /\ index = [do |-> "index", doc |-> x]
        /\ labels.do = "labels" /\ labels.doc = x /\ index.do = "index" /\ index.doc = x
    BY DEF path
  <2>2. x \in DOMAIN docs'
    BY <1>1
  <2> HIDE DEF update, labels, index
  <2>3. kbTodo'[n + 1 + 1] = labels /\ kbTodo'[n + 1 + 2] = index /\ Len(kbTodo') = n + 1 + 2
    BY <1>3, <1>5
  <2> QED BY <1>3, <2>1, <2>2, <2>3
<1> HIDE DEF update, labels, index
<1>8. StepInv(n + 1)'
  <2>1. /\ kbTodo'[(n + 1) - 1].do = "mkdir" /\ kbTodo'[(n + 1) - 1].path = p
        /\ \A l \in 1 .. (n + 1) - 1 : kbTodo'[l].do = "mkdir"
        /\ n + 1 # 1
    BY <1>4, <1>5
  <2>2. \A y \in DOMAIN docs' : docs'[y].path # Append(p, name)
    BY <1>6 DEF path
  <2> QED BY <1>7, <2>1, <2>2 DEF StepInv
<1>9. StepInv(n + 2)' /\ StepInv(n + 3)'
  <2>1. n + 2 > 1 /\ kbTodo'[(n + 2) - 1].do = "update"
    BY <1>5, <1>7
  <2>2. StepInv(n + 2)'
    BY <1>7, <2>1 DEF StepInv
  <2>3. StepInv(n + 3)'
    BY <1>7 DEF StepInv
  <2> QED BY <2>2, <2>3
<1>10. \A k \in DOMAIN kbTodo' : StepInv(k)'
  BY <1>3, <1>4, <1>5, <1>8, <1>9
<1>11. blobs' \subseteq Blobs
  BY <1>1 DEF KbInv, KbTyped
<1> QED BY <1>1, <1>3, <1>10, <1>11, RequestBegins

\* Pairs, one after the other.
LEMMA ConcatIs ==
  ASSUME NEW T, NEW n \in Nat, NEW pairs \in [1 .. n -> [{1, 2} -> T]]
  PROVE  /\ DOMAIN Concat(pairs) = 1 .. 2 * n /\ Concat(pairs) \in Seq(T)
         /\ Len(Concat(pairs)) = 2 * n
         /\ \A k \in 1 .. n : /\ Concat(pairs)[2 * k - 1] = pairs[k][1]
                              /\ Concat(pairs)[2 * k] = pairs[k][2]
                              /\ 2 * k - 1 \in 1 .. 2 * n /\ 2 * k \in 1 .. 2 * n
         /\ \A m \in 1 .. 2 * n : \E k \in 1 .. n : m = 2 * k - 1 \/ m = 2 * k
<1>1. Len(pairs) = n
  <2>1. pairs \in Seq([{1, 2} -> T])
    BY FunctionIsList, Zenon
  <2> QED BY <2>1
<1>2. Concat(pairs) = [m \in 1 .. 2 * n |-> pairs[(m + 1) \div 2][2 - (m % 2)]]
  BY <1>1 DEF Concat
<1>3. \A m \in 1 .. 2 * n : (m + 1) \div 2 \in 1 .. n /\ 2 - (m % 2) \in {1, 2}
  OBVIOUS
<1>4. Concat(pairs) \in [1 .. 2 * n -> T]
  <2>1. \A m \in 1 .. 2 * n : pairs[(m + 1) \div 2][2 - (m % 2)] \in T
    BY <1>3
  <2> QED BY <1>2, <2>1
<1>5. Concat(pairs) \in Seq(T)
  <2>1. 2 * n \in Nat
    OBVIOUS
  <2> QED BY <1>4, <2>1, FunctionIsList, Zenon
<1>6. DOMAIN Concat(pairs) = 1 .. 2 * n /\ Len(Concat(pairs)) = 2 * n
  BY <1>2, <1>5
<1>7. ASSUME NEW k \in 1 .. n
      PROVE  /\ Concat(pairs)[2 * k - 1] = pairs[k][1]
             /\ Concat(pairs)[2 * k] = pairs[k][2]
             /\ 2 * k - 1 \in 1 .. 2 * n /\ 2 * k \in 1 .. 2 * n
  <2>1. /\ 2 * k - 1 \in 1 .. 2 * n /\ 2 * k \in 1 .. 2 * n
        /\ ((2 * k - 1) + 1) \div 2 = k /\ 2 - ((2 * k - 1) % 2) = 1
        /\ (2 * k + 1) \div 2 = k /\ 2 - ((2 * k) % 2) = 2
    OBVIOUS
  <2> QED BY <1>2, <2>1
<1>8. ASSUME NEW m \in 1 .. 2 * n PROVE \E k \in 1 .. n : m = 2 * k - 1 \/ m = 2 * k
  <2>1. /\ (m + 1) \div 2 \in 1 .. n
        /\ m = 2 * ((m + 1) \div 2) - 1 \/ m = 2 * ((m + 1) \div 2)
    OBVIOUS
  <2> QED BY <2>1
<1> QED BY <1>5, <1>6, <1>7, <1>8

\* What a move does: the directories that go, the rows and documents below them,
\* the documents that go by themselves, and where everything goes.
Goal(target, j) == Append(dirs[target].path, Last(dirs[j].path))
Moved(target, going, rows, nested, single, dirPath, docPath, docDir) ==
  /\ Begins /\ UNCHANGED <<kbScope, blobs, interrupted>>
  /\ going \subseteq LiveDirs /\ rows \subseteq LiveDirs
  /\ nested \subseteq DOMAIN docs /\ single \subseteq DOMAIN docs
  /\ target \in LiveDirs
  /\ \A j \in going : ~Under(dirs[target].path, dirs[j].path)
  /\ \A i \in LiveDirs : i \in rows <=> \E j \in going : Under(dirs[i].path, dirs[j].path)
  /\ \A i, j \in going : Under(dirs[i].path, dirs[j].path) => i = j
  /\ \A i \in rows, j \in going : Under(dirs[i].path, dirs[j].path) =>
       dirPath[i] = Rebase(dirs[i].path, dirs[j].path, Goal(target, j))
  /\ \A x \in DOMAIN docs :
       x \in nested <=> \E j \in going : Under(docs[x].dir, dirs[j].path)
  /\ \A x \in nested, j \in going : Under(docs[x].dir, dirs[j].path) =>
       /\ docDir[x] = Rebase(docs[x].dir, dirs[j].path, Goal(target, j))
       /\ docPath[x] = Rebase(docs[x].path, dirs[j].path, Goal(target, j))
  /\ \A x \in single : /\ x \notin nested /\ docDir[x] = dirs[target].path
                       /\ docPath[x] = Append(dirs[target].path, docs[x].name)
  /\ \A i, j \in going : Goal(target, i) = Goal(target, j) => i = j
  /\ \A x \in nested \cup single, y \in DOMAIN docs \ (nested \cup single) :
       docPath[x] # docs[y].path
  /\ \A x, y \in nested \cup single : docPath[x] = docPath[y] => x = y
  /\ \A i \in rows, j \in DOMAIN dirs : dirs[j].path = dirPath[i] => j \in rows
  /\ dirs' = [i \in DOMAIN dirs |->
                IF i \notin rows THEN dirs[i]
                ELSE [path |-> dirPath[i], live |-> TRUE,
                      parent |-> IF i \in going THEN target ELSE dirs[i].parent]]
  /\ docs' = [x \in DOMAIN docs |->
                IF x \notin nested \cup single THEN docs[x]
                ELSE [docs[x] EXCEPT !.dir = docDir[x], !.path = docPath[x]]]
  /\ kbTodo' = Concat([k \in DOMAIN Followers(nested, single) |->
                         Resync(Followers(nested, single)[k],
                                docPath[Followers(nested, single)[k]])])

LEMMA MoveIs ==
  ASSUME KbInv, NEW target \in LiveDirs, NEW ds \in SUBSET LiveDirs,
         NEW xs \in SUBSET DOMAIN docs, Move(target, ds, xs)
  PROVE  \E going, rows, nested, single, dirPath, docPath, docDir :
           Moved(target, going, rows, nested, single, dirPath, docPath, docDir)
<1> DEFINE tops == Tops(ds)
           to == dirs[target].path
           moved(i) == Append(to, Last(dirs[i].path))
           going == {i \in tops : moved(i) # dirs[i].path}
           rows == {i \in LiveDirs : \E j \in going : Under(dirs[i].path, dirs[j].path)}
           nested == {x \in DOMAIN docs : Inside(x, going)}
           single == {x \in Loose(tops, xs) : docs[x].path # Append(to, docs[x].name)}
           over(path) == CHOOSE j \in going : Under(path, dirs[j].path)
           new(path, dir) == Rebase(path, dirs[over(dir)].path, moved(over(dir)))
           dirPath == [i \in rows |-> new(dirs[i].path, dirs[i].path)]
           docPath == [x \in nested \cup single |->
                         IF x \in nested THEN new(docs[x].path, docs[x].dir)
                         ELSE Append(to, docs[x].name)]
           docDir == [x \in nested \cup single |->
                        IF x \in nested THEN new(docs[x].dir, docs[x].dir) ELSE to]
           kept == DOMAIN docs \ DOMAIN docPath
           order == Followers(nested, single)
<1>1. /\ Begins /\ UNCHANGED <<kbScope, blobs, interrupted>>
      /\ \A i \in tops : ~Under(to, dirs[i].path)
      /\ \A i, j \in going : moved(i) = moved(j) => i = j
  BY DEF Move
<1>2. /\ \A x \in DOMAIN docPath : docPath[x] \notin {docs[y].path : y \in kept}
      /\ IsInjective(docPath)
      /\ \A i \in rows : RowsAt(dirPath[i]) \subseteq rows
  BY DEF Move
<1>3. dirs' = [i \in DOMAIN dirs |->
                 IF i \notin rows THEN dirs[i]
                 ELSE [path |-> dirPath[i], live |-> TRUE,
                       parent |-> IF i \in going THEN target ELSE dirs[i].parent]]
  BY DEF Move
<1>4. docs' = [x \in DOMAIN docs |->
                 IF x \in kept THEN docs[x]
                 ELSE [docs[x] EXCEPT !.dir = docDir[x], !.path = docPath[x]]]
  BY DEF Move
<1>5. kbTodo' = Concat([k \in DOMAIN order |-> Resync(order[k], docPath[order[k]])])
  BY DEF Move
<1>6. going \subseteq tops /\ tops \subseteq ds /\ going \subseteq LiveDirs
  BY DEF Tops
<1>7. /\ rows \subseteq LiveDirs /\ nested \subseteq DOMAIN docs
      /\ \A i \in LiveDirs : i \in rows <=> \E j \in going : Under(dirs[i].path, dirs[j].path)
  OBVIOUS
<1>8. \A x \in DOMAIN docs : x \in nested <=> \E j \in going : Under(docs[x].dir, dirs[j].path)
  BY DEF Inside
<1>9. \A i, j \in going : Under(dirs[i].path, dirs[j].path) => i = j
  BY <1>6 DEF Tops
<1>10. /\ single \subseteq DOMAIN docs
       /\ \A x \in single : x \notin nested
  <2>1. single \subseteq DOMAIN docs /\ \A x \in single : ~Inside(x, tops)
    BY DEF Loose
  <2>2. ASSUME NEW x \in single, x \in nested PROVE FALSE
    <3>1. Inside(x, going) /\ ~Inside(x, tops)
      BY <2>1, <2>2
    <3> HIDE DEF going, tops
    <3> QED BY <1>6, <3>1 DEF Inside
  <2> HIDE DEF nested, single
  <2> QED BY <2>1, <2>2
<1>11. ASSUME NEW p \in Seq(Names), NEW j \in going, Under(p, dirs[j].path) PROVE over(p) = j
  <2>1. over(p) \in going /\ Under(p, dirs[over(p)].path)
    <3> HIDE DEF going
    <3> QED BY <1>11
  <2>2. PICK k \in going : k = over(p)
    BY <2>1
  <2> HIDE DEF over, going
  <2>3. dirs[j].path \in Seq(Names) /\ dirs[k].path \in Seq(Names)
    BY <1>6, RowIs DEF KbInv, LiveDirs
  <2>4. Under(dirs[j].path, dirs[k].path) \/ Under(dirs[k].path, dirs[j].path)
    BY <1>11, <2>1, <2>2, <2>3, UnderOrder
  <2> QED BY <1>9, <2>2, <2>4
<1>12. ASSUME NEW i \in rows, NEW j \in going, Under(dirs[i].path, dirs[j].path)
       PROVE  dirPath[i] = Rebase(dirs[i].path, dirs[j].path, moved(j))
  <2>1. dirs[i].path \in Seq(Names)
    BY RowIs DEF KbInv, LiveDirs
  <2>2. over(dirs[i].path) = j
    BY <1>11, <1>12, <2>1
  <2>3. dirPath[i] = new(dirs[i].path, dirs[i].path)
    OBVIOUS
  <2> HIDE DEF over, dirPath, rows, going
  <2> QED BY <2>2, <2>3
<1>13. ASSUME NEW x \in nested, NEW j \in going, Under(docs[x].dir, dirs[j].path)
       PROVE  /\ docDir[x] = Rebase(docs[x].dir, dirs[j].path, moved(j))
              /\ docPath[x] = Rebase(docs[x].path, dirs[j].path, moved(j))
  <2>1. docs[x].dir \in Seq(Names)
    BY DocIs DEF KbInv
  <2>2. over(docs[x].dir) = j
    BY <1>11, <1>13, <2>1
  <2>3. docDir[x] = new(docs[x].dir, docs[x].dir) /\ docPath[x] = new(docs[x].path, docs[x].dir)
    <3> HIDE DEF nested, single, over, going
    <3> QED OBVIOUS
  <2> HIDE DEF over, docDir, docPath, nested, going
  <2> QED BY <2>2, <2>3
<1>14. \A x \in single : docDir[x] = to /\ docPath[x] = Append(to, docs[x].name)
  <2> HIDE DEF nested, single, over, going
  <2> QED BY <1>10
<1>15. DOMAIN docPath = nested \cup single /\ kept = DOMAIN docs \ (nested \cup single)
  OBVIOUS
<1> HIDE DEF tops, going, rows, nested, single, over, dirPath, docPath, docDir, order
<1>16. /\ \A x \in nested \cup single, y \in DOMAIN docs \ (nested \cup single) :
            docPath[x] # docs[y].path
       /\ \A x, y \in nested \cup single : docPath[x] = docPath[y] => x = y
  BY <1>2, <1>15 DEF IsInjective
<1>17. \A i \in rows, j \in DOMAIN dirs : dirs[j].path = dirPath[i] => j \in rows
  BY <1>2 DEF RowsAt
<1>18. docs' = [x \in DOMAIN docs |->
                  IF x \notin nested \cup single THEN docs[x]
                  ELSE [docs[x] EXCEPT !.dir = docDir[x], !.path = docPath[x]]]
  BY <1>4, <1>15
<1>19. Moved(target, going, rows, nested, single, dirPath, docPath, docDir)
  <2>1. \A j : Goal(target, j) = moved(j)
    BY DEF Goal
  <2>2. target \in LiveDirs /\ \A j \in going : ~Under(dirs[target].path, dirs[j].path)
    BY <1>1, <1>6
  <2>3. \A i, j \in going : Goal(target, i) = Goal(target, j) => i = j
    BY <1>1, <2>1
  <2>4. \A i \in rows, j \in going : Under(dirs[i].path, dirs[j].path) =>
          dirPath[i] = Rebase(dirs[i].path, dirs[j].path, Goal(target, j))
    BY <1>12, <2>1
  <2>5. \A x \in nested, j \in going : Under(docs[x].dir, dirs[j].path) =>
          /\ docDir[x] = Rebase(docs[x].dir, dirs[j].path, Goal(target, j))
          /\ docPath[x] = Rebase(docs[x].path, dirs[j].path, Goal(target, j))
    BY <1>13, <2>1
  <2>6. \A x \in single : /\ x \notin nested /\ docDir[x] = dirs[target].path
                          /\ docPath[x] = Append(dirs[target].path, docs[x].name)
    BY <1>10, <1>14
  <2>7. kbTodo' = Concat([k \in DOMAIN Followers(nested, single) |->
                            Resync(Followers(nested, single)[k],
                                   docPath[Followers(nested, single)[k]])])
    BY <1>5 DEF order
  <2> QED BY <1>1, <1>3, <1>6, <1>7, <1>8, <1>9, <1>10, <1>16, <1>17, <1>18,
             <2>2, <2>3, <2>4, <2>5, <2>6, <2>7, ZenonT(60) DEF Moved
<1> QED BY <1>19

\* The facts about a move that the rows need, named one by one.
LEMMA MovedRows ==
  ASSUME KbInv, NEW target, NEW going, NEW rows, NEW nested, NEW single,
         NEW dirPath, NEW docPath, NEW docDir,
         Moved(target, going, rows, nested, single, dirPath, docPath, docDir)
  PROVE  /\ dirs' \in Seq(DirRow) /\ \A i \in DOMAIN dirs' : dirs'[i].parent <= Len(dirs')
         /\ DOMAIN dirs' = DOMAIN dirs /\ LiveDirs' = LiveDirs
         /\ \A i \in DOMAIN dirs \ rows : dirs'[i] = dirs[i]
         /\ \A i \in rows : dirs'[i].path = dirPath[i] /\ dirPath[i] \in Seq(Names)
         /\ \A i \in rows \ going : dirs'[i].parent = dirs[i].parent
         /\ \A i \in going : i \in rows /\ dirs'[i].parent = target
                             /\ dirs'[i].path = Goal(target, i)
         /\ \A i \in rows : dirs[i].path # Root /\ Last(dirs'[i].path) = Last(dirs[i].path)
         /\ target \notin rows /\ RowsInv'
<1> DEFINE to == dirs[target].path
           pathOf(i) == dirs[i].path
<1>1. /\ going \subseteq LiveDirs /\ rows \subseteq LiveDirs /\ target \in LiveDirs
      /\ \A i \in LiveDirs : i \in DOMAIN dirs
  BY DEF Moved, LiveDirs
<1>2. dirs' = [i \in DOMAIN dirs |->
                 IF i \notin rows THEN dirs[i]
                 ELSE [path |-> dirPath[i], live |-> TRUE,
                       parent |-> IF i \in going THEN target ELSE dirs[i].parent]]
  BY DEF Moved
<1>3. /\ \A i \in LiveDirs : i \in rows <=> \E j \in going : Under(dirs[i].path, dirs[j].path)
      /\ \A j \in going : ~Under(dirs[target].path, dirs[j].path)
      /\ \A i, j \in going : Under(dirs[i].path, dirs[j].path) => i = j
      /\ \A i, j \in going : Goal(target, i) = Goal(target, j) => i = j
      /\ \A i \in rows, j \in DOMAIN dirs : dirs[j].path = dirPath[i] => j \in rows
  BY DEF Moved
<1>4. \A i \in rows, j \in going : Under(dirs[i].path, dirs[j].path) =>
        dirPath[i] = Rebase(dirs[i].path, dirs[j].path, Goal(target, j))
  BY DEF Moved
<1>5. \A i \in DOMAIN dirs : /\ dirs[i] \in DirRow /\ dirs[i].path \in Seq(Names)
                             /\ dirs[i].parent \in 0 .. Len(dirs)
                             /\ dirs[i].live \in BOOLEAN
  BY RowIs DEF KbInv
<1>6. dirs \in Seq(DirRow) /\ Len(dirs) \in Nat /\ DOMAIN dirs = 1 .. Len(dirs)
  BY DEF KbInv, KbTyped
\* No directory that goes is the root: all is below it, the target too.
<1>7. ASSUME NEW j \in going
      PROVE  /\ dirs[j].path # <<>> /\ Last(dirs[j].path) \in Names
             /\ Goal(target, j) \in Seq(Names) /\ Len(Goal(target, j)) = Len(to) + 1
             /\ Front(Goal(target, j)) = to /\ Goal(target, j) # <<>>
             /\ Last(Goal(target, j)) = Last(dirs[j].path)
  <2>1. dirs[j].path \in Seq(Names) /\ to \in Seq(Names) /\ ~Under(to, dirs[j].path)
    BY <1>1, <1>3, <1>5
  <2>2. dirs[j].path # <<>>
    <3>1. <<>> \in Seq(Names) /\ Len(<<>>) = 0 /\ Len(to) \in Nat
      BY <2>1
    <3>2. ASSUME NEW e \in Seq(Names), Len(e) = 0 PROVE Under(to, e)
      <4>1. PICK p \in Seq(Names) : p = to
        BY <2>1
      <4>2. Len(e) <= Len(p) /\ \A i \in 1 .. Len(e) : p[i] = e[i]
        BY <3>2
      <4> QED BY <4>1, <4>2, UnderIs
    <3> QED BY <2>1, <3>2
  <2>3. Last(dirs[j].path) \in Names
    BY <2>1, <2>2, FrontLast
  <2> QED BY <2>1, <2>2, <2>3, AppendIs DEF Goal
<1>8. ASSUME NEW i \in rows, NEW j \in going, Under(dirs[i].path, dirs[j].path)
      PROVE  /\ dirPath[i] = Rebase(dirs[i].path, dirs[j].path, Goal(target, j))
             /\ dirPath[i] \in Seq(Names) /\ Len(dirPath[i]) >= Len(to) + 1
             /\ dirPath[i] # <<>> /\ dirs[i].path # <<>>
             /\ Last(dirPath[i]) = Last(dirs[i].path)
             /\ i = j => dirPath[i] = Goal(target, j)
  <2> DEFINE p == dirs[i].path
             q == dirs[j].path
             g == Goal(target, j)
  <2>1. /\ p \in Seq(Names) /\ q \in Seq(Names) /\ g \in Seq(Names) /\ to \in Seq(Names)
        /\ Under(p, q) /\ Len(g) = Len(to) + 1 /\ q # <<>> /\ Last(g) = Last(q) /\ g # <<>>
        /\ dirPath[i] = Rebase(p, q, g) /\ (i = j => p = q)
    BY <1>1, <1>4, <1>5, <1>7, <1>8
  <2> HIDE DEF p, q, g
  <2>2. /\ Rebase(p, q, g) \in Seq(Names) /\ Rebased(Rebase(p, q, g), p, q, g)
        /\ Len(p) \in Nat /\ Len(q) \in Nat /\ Len(to) \in Nat /\ Len(q) <= Len(p)
        /\ Len(q) # 0
    BY <2>1, RebaseIs, UnderIs
  <2>3. Len(Rebase(p, q, g)) >= Len(to) + 1 /\ Len(p) # 0
    BY <2>1, <2>2 DEF Rebased
  <2>4. Rebase(p, q, g) # <<>> /\ p # <<>>
    BY <2>2, <2>3
  <2>5. CASE p = q
    <3>1. Rebase(p, q, g) = g
      BY <2>1, <2>5, RebaseSelf
    <3> QED BY <2>1, <2>2, <2>3, <2>4, <2>5, <3>1 DEF p, q, g
  <2>6. CASE p # q
    <3>1. Last(Rebase(p, q, g)) = Last(p)
      BY <2>1, <2>6, RebaseFront
    <3> QED BY <2>1, <2>2, <2>3, <2>4, <2>6, <3>1 DEF p, q, g
  <2> QED BY <2>5, <2>6
<1>9. \A i \in rows : \E j \in going : Under(dirs[i].path, dirs[j].path)
  BY <1>1, <1>3
<1>10. \A i \in rows : /\ dirPath[i] \in Seq(Names) /\ dirPath[i] # <<>>
                       /\ dirs[i].path # <<>> /\ Last(dirPath[i]) = Last(dirs[i].path)
  BY <1>8, <1>9
<1>11. \A i \in going : i \in rows /\ dirPath[i] = Goal(target, i)
  <2> SUFFICES ASSUME NEW i \in going PROVE i \in rows /\ dirPath[i] = Goal(target, i)
    OBVIOUS
  <2>1. Under(dirs[i].path, dirs[i].path)
    BY <1>1, <1>5, UnderOrder
  <2> QED BY <1>1, <1>3, <1>8, <2>1
<1>12. target \notin rows
  BY <1>1, <1>3, <1>9
<1>13. /\ \A i \in DOMAIN dirs \ rows : dirs'[i] = dirs[i]
       /\ \A i \in rows : /\ dirs'[i].path = dirPath[i] /\ dirs'[i].live = TRUE
                          /\ dirs'[i].parent = IF i \in going THEN target ELSE dirs[i].parent
       /\ DOMAIN dirs' = DOMAIN dirs
  BY <1>1, <1>2
<1>14. \A i \in DOMAIN dirs' : dirs'[i] \in DirRow /\ dirs'[i].parent \in 0 .. Len(dirs)
  <2> SUFFICES ASSUME NEW i \in DOMAIN dirs
               PROVE  dirs'[i] \in DirRow /\ dirs'[i].parent \in 0 .. Len(dirs)
    BY <1>13
  <2>1. CASE i \notin rows
    BY <1>5, <1>13, <2>1
  <2>2. CASE i \in rows
    <3>1. target \in 0 .. Len(dirs)
      BY <1>1, <1>6
    <3>2. (IF i \in going THEN target ELSE dirs[i].parent) \in 0 .. Len(dirs)
      BY <1>5, <3>1
    <3>3. dirs'[i] = [path |-> dirPath[i], live |-> TRUE,
                      parent |-> IF i \in going THEN target ELSE dirs[i].parent]
      BY <1>2, <2>2
    <3> QED BY <1>6, <1>10, <2>2, <3>2, <3>3 DEF DirRow
  <2> QED BY <2>1, <2>2
<1>15. dirs' \in Seq(DirRow) /\ Len(dirs') = Len(dirs)
  <2>1. dirs' \in [1 .. Len(dirs) -> DirRow]
    BY <1>2, <1>6, <1>13, <1>14
  <2>2. dirs' \in Seq(DirRow)
    BY <1>6, <2>1, FunctionIsList, Zenon
  <2> QED BY <1>6, <1>13, <2>2
<1>16. LiveDirs' = LiveDirs
  BY <1>1, <1>13 DEF LiveDirs
\* No path is taken twice.
<1>17. ASSUME NEW i \in rows, NEW j \in rows, dirPath[i] = dirPath[j] PROVE i = j
  <2>1. PICK a \in going : Under(dirs[i].path, dirs[a].path)
    BY <1>9
  <2>2. PICK b \in going : Under(dirs[j].path, dirs[b].path)
    BY <1>9
  <2>3. /\ dirs[i].path \in Seq(Names) /\ dirs[a].path \in Seq(Names)
        /\ dirs[j].path \in Seq(Names) /\ dirs[b].path \in Seq(Names)
        /\ Goal(target, a) \in Seq(Names) /\ Goal(target, b) \in Seq(Names)
        /\ Len(Goal(target, a)) = Len(Goal(target, b))
    BY <1>1, <1>5, <1>7
  <2>4. Rebase(dirs[i].path, dirs[a].path, Goal(target, a))
          = Rebase(dirs[j].path, dirs[b].path, Goal(target, b))
    BY <1>8, <1>17, <2>1, <2>2
  <2>5. Goal(target, a) = Goal(target, b)
    BY <2>1, <2>2, <2>3, <2>4, RebaseAbove
  <2>6. a = b
    BY <1>3, <2>5
  <2>7. dirs[i].path = dirs[j].path
    BY <2>1, <2>2, <2>3, <2>4, <2>6, RebaseSame
  <2> QED BY <1>1, <2>7 DEF KbInv, RowsInv
<1>18. \A i, j \in DOMAIN dirs' : dirs'[i].path = dirs'[j].path => i = j
  <2> SUFFICES ASSUME NEW i \in DOMAIN dirs, NEW j \in DOMAIN dirs,
                      dirs'[i].path = dirs'[j].path
               PROVE  i = j
    BY <1>13
  <2>1. CASE i \in rows /\ j \in rows
    BY <1>13, <1>17, <2>1
  <2>2. CASE i \notin rows /\ j \notin rows
    BY <1>13, <2>2 DEF KbInv, RowsInv
  <2>3. CASE i \in rows /\ j \notin rows
    BY <1>3, <1>13, <2>3
  <2>4. CASE i \notin rows /\ j \in rows
    BY <1>3, <1>13, <2>4
  <2> QED BY <2>1, <2>2, <2>3, <2>4
<1>19. \A i \in DOMAIN dirs' : dirs'[i].path = Root => dirs'[i].parent = 0
  BY <1>10, <1>13 DEF KbInv, RowsInv, Root
\* Parents.
<1>20. ASSUME NEW i \in LiveDirs', dirs'[i].path # Root
       PROVE  dirs'[i].parent \in LiveDirs' /\ dirs'[dirs'[i].parent].path = Front(dirs'[i].path)
  <2>0. i \in LiveDirs /\ i \in DOMAIN dirs /\ dirs[i].path \in Seq(Names)
    BY <1>1, <1>5, <1>16
  <2>1. CASE i \in going
    <3>1. dirs'[i].parent = target /\ dirs'[i].path = Goal(target, i)
      BY <1>11, <1>13, <2>1
    <3>2. dirs'[target].path = to /\ target \in LiveDirs'
      BY <1>1, <1>12, <1>13, <1>16
    <3> QED BY <1>7, <2>1, <3>1, <3>2
  <2>2. ASSUME dirs[i].path # Root
        PROVE  /\ dirs[i].parent \in LiveDirs /\ dirs[i].parent \in DOMAIN dirs
               /\ dirs[dirs[i].parent].path = Front(dirs[i].path)
               /\ Front(dirs[i].path) \in Seq(Names)
    <3>1. /\ dirs[i].parent \in LiveDirs
          /\ dirs[dirs[i].parent].path = Front(dirs[i].path)
      BY <2>0, <2>2 DEF KbInv, RowsInv
    <3> QED BY <1>1, <1>5, <3>1
  <2>3. CASE i \in rows /\ i \notin going
    <3>1. PICK j \in going : Under(dirs[i].path, dirs[j].path)
      BY <1>9, <2>3
    <3>2. /\ dirs[i].path # dirs[j].path /\ dirs[j].path \in Seq(Names)
          /\ Goal(target, j) \in Seq(Names) /\ j \in DOMAIN dirs
      BY <1>1, <1>5, <1>7, <2>0, <2>3 DEF KbInv, RowsInv
    <3>3. PICK u \in LiveDirs : u = dirs[i].parent /\ dirs[u].path = Front(dirs[i].path)
                                /\ u \in DOMAIN dirs /\ Front(dirs[i].path) \in Seq(Names)
      BY <1>10, <2>2, <2>3 DEF Root
    <3>4. /\ Under(Front(dirs[i].path), dirs[j].path)
          /\ Front(Rebase(dirs[i].path, dirs[j].path, Goal(target, j)))
               = Rebase(Front(dirs[i].path), dirs[j].path, Goal(target, j))
      BY <2>0, <3>1, <3>2, RebaseFront
    <3>5. u \in rows /\ dirPath[u] = Rebase(Front(dirs[i].path), dirs[j].path, Goal(target, j))
      BY <1>3, <1>4, <3>3, <3>4
    <3>6. dirs'[i].path = Rebase(dirs[i].path, dirs[j].path, Goal(target, j))
          /\ dirs'[i].parent = u /\ dirs'[u].path = dirPath[u]
      BY <1>4, <1>13, <2>3, <3>1, <3>3, <3>5
    <3> QED BY <1>16, <3>3, <3>4, <3>5, <3>6
  <2>4. CASE i \notin rows
    <3>1. dirs'[i] = dirs[i] /\ dirs[i].path # Root /\ dirs[i].path # <<>>
      BY <1>13, <1>20, <2>0, <2>4 DEF Root
    <3>2. PICK u \in LiveDirs : u = dirs[i].parent /\ dirs[u].path = Front(dirs[i].path)
                                /\ u \in DOMAIN dirs /\ Front(dirs[i].path) \in Seq(Names)
      BY <2>2, <3>1
    <3>3. u \notin rows
      <4> SUFFICES ASSUME u \in rows PROVE FALSE
        OBVIOUS
      <4>1. PICK j \in going : Under(dirs[u].path, dirs[j].path)
        BY <1>9
      <4>2. Under(dirs[i].path, Front(dirs[i].path)) /\ dirs[j].path \in Seq(Names)
        BY <1>1, <1>5, <2>0, <3>1, FrontIs
      <4>3. Under(dirs[i].path, dirs[j].path)
        BY <2>0, <3>2, <4>1, <4>2, UnderOrder
      <4> QED BY <1>3, <2>0, <2>4, <4>3
    <3> QED BY <1>13, <1>16, <3>1, <3>2, <3>3
  <2> QED BY <1>11, <2>1, <2>3, <2>4
<1>21. RowsInv'
  BY <1>18, <1>19, <1>20 DEF RowsInv
<1>22. \A i \in DOMAIN dirs' : dirs'[i].parent <= Len(dirs')
  BY <1>6, <1>14, <1>15
<1>23. /\ \A i \in rows \ going : dirs'[i].parent = dirs[i].parent
       /\ \A i \in going : i \in rows /\ dirs'[i].parent = target /\ dirs'[i].path = Goal(target, i)
       /\ \A i \in rows : dirs[i].path # Root /\ Last(dirs'[i].path) = Last(dirs[i].path)
  BY <1>10, <1>11, <1>13 DEF Root
<1> QED BY <1>10, <1>12, <1>13, <1>15, <1>16, <1>21, <1>22, <1>23

LEMMA MovedDocs ==
  ASSUME KbInv, NEW target, NEW going, NEW rows, NEW nested, NEW single,
         NEW dirPath, NEW docPath, NEW docDir,
         Moved(target, going, rows, nested, single, dirPath, docPath, docDir)
  PROVE  /\ docs' \in [DOMAIN docs -> DocRow]
         /\ \A x \in nested \cup single :
              /\ docs'[x].path = docPath[x] /\ docPath[x] \in Seq(Names)
              /\ docs'[x].dir = docDir[x]
         /\ \A x \in DOMAIN docs \ (nested \cup single) : docs'[x] = docs[x]
         /\ \A x, y \in DOMAIN docs : docs'[x].path = docs'[y].path => x = y
         /\ \A x \in DOMAIN docs : docs'[x].path = Append(docs'[x].dir, docs'[x].name)
         /\ \A x \in DOMAIN docs :
              \/ \E i \in LiveDirs' : dirs'[i].path = docs'[x].dir
              \/ kbScope' = "private" /\ interrupted' = "delete"
         /\ \A x \in DOMAIN docs \ single, i \in LiveDirs :
              dirs[i].path = docs[x].dir => dirs'[i].path = docs'[x].dir
<1> DEFINE to == dirs[target].path
           moving == nested \cup single
<1>1. /\ going \subseteq LiveDirs /\ rows \subseteq LiveDirs /\ target \in LiveDirs
      /\ moving \subseteq DOMAIN docs
      /\ \A i \in LiveDirs : i \in DOMAIN dirs
      /\ kbTodo = <<>> /\ kbScope' = kbScope /\ interrupted' = interrupted
  BY DEF Moved, LiveDirs, Begins, AtRest
<1>2. docs' = [x \in DOMAIN docs |->
                 IF x \notin moving THEN docs[x]
                 ELSE [docs[x] EXCEPT !.dir = docDir[x], !.path = docPath[x]]]
  BY DEF Moved
<1>3. /\ \A i \in LiveDirs : i \in rows <=> \E j \in going : Under(dirs[i].path, dirs[j].path)
      /\ \A x \in DOMAIN docs :
           x \in nested <=> \E j \in going : Under(docs[x].dir, dirs[j].path)
      /\ \A x \in nested, j \in going : Under(docs[x].dir, dirs[j].path) =>
           /\ docDir[x] = Rebase(docs[x].dir, dirs[j].path, Goal(target, j))
           /\ docPath[x] = Rebase(docs[x].path, dirs[j].path, Goal(target, j))
      /\ \A x \in single : /\ x \notin nested /\ docDir[x] = to
                           /\ docPath[x] = Append(to, docs[x].name)
  BY DEF Moved
<1>4. /\ \A x \in moving, y \in DOMAIN docs \ moving : docPath[x] # docs[y].path
      /\ \A x, y \in moving : docPath[x] = docPath[y] => x = y
  BY DEF Moved
<1>5. \A i \in rows, j \in going : Under(dirs[i].path, dirs[j].path) =>
        dirPath[i] = Rebase(dirs[i].path, dirs[j].path, Goal(target, j))
  BY DEF Moved
<1>6. /\ LiveDirs' = LiveDirs /\ target \notin rows
      /\ \A i \in DOMAIN dirs \ rows : dirs'[i] = dirs[i]
      /\ \A i \in rows : dirs'[i].path = dirPath[i]
      /\ \A j \in going : j \in rows /\ dirs'[j].path = Goal(target, j)
      /\ \A i \in rows : dirs'[i].path \in Seq(Names)
  BY MovedRows
<1>7. \A i \in DOMAIN dirs : dirs[i].path \in Seq(Names)
  BY RowIs DEF KbInv
<1>8. to \in Seq(Names) /\ \A j \in going : Goal(target, j) \in Seq(Names)
  BY <1>1, <1>6, <1>7
<1>9. \A x \in DOMAIN docs :
        /\ docs[x] \in DocRow /\ docs[x].dir \in Seq(Names) /\ docs[x].name \in Names
        /\ docs[x].path = Append(docs[x].dir, docs[x].name)
  BY DocIs DEF KbInv, DocsInv
<1>10. ASSUME NEW x \in moving
       PROVE  /\ docDir[x] \in Seq(Names) /\ docPath[x] = Append(docDir[x], docs[x].name)
              /\ docPath[x] \in Seq(Names)
  <2>1. CASE x \in single
    <3>1. docDir[x] = to /\ docPath[x] = Append(to, docs[x].name) /\ docs[x].name \in Names
      BY <1>1, <1>3, <1>9, <2>1
    <3> QED BY <1>8, <3>1, AppendIs
  <2>2. CASE x \in nested
    <3>1. PICK j \in going : Under(docs[x].dir, dirs[j].path)
      BY <1>1, <1>3, <2>2
    <3>2. PICK d \in Seq(Names), n \in Names :
            d = docs[x].dir /\ n = docs[x].name /\ docs[x].path = Append(d, n)
      BY <1>1, <1>9
    <3>3. PICK q \in Seq(Names), g \in Seq(Names) : q = dirs[j].path /\ g = Goal(target, j)
      BY <1>1, <1>7, <1>8
    <3>4. docDir[x] = Rebase(d, q, g) /\ docPath[x] = Rebase(Append(d, n), q, g)
      BY <1>3, <2>2, <3>1, <3>2, <3>3
    <3>5. Under(d, q)
      BY <3>1, <3>2, <3>3
    <3>6. Rebase(Append(d, n), q, g) = Append(Rebase(d, q, g), n)
      BY <3>5, RebaseAppend
    <3>7. Rebase(d, q, g) \in Seq(Names)
      BY <3>5, RebaseIs
    <3> QED BY <3>2, <3>4, <3>6, <3>7, AppendIs
  <2> QED BY <2>1, <2>2
<1>11. ASSUME NEW x \in DOMAIN docs
       PROVE  /\ docs'[x] \in DocRow
              /\ x \in moving => /\ docs'[x].path = docPath[x] /\ docs'[x].dir = docDir[x]
                                 /\ docs'[x].name = docs[x].name
              /\ x \notin moving => docs'[x] = docs[x]
  <2>1. CASE x \in moving
    <3>1. docs'[x] = [docs[x] EXCEPT !.dir = docDir[x], !.path = docPath[x]]
      BY <1>2, <2>1
    <3>2. docDir[x] \in Seq(Names) /\ docPath[x] \in Seq(Names)
      BY <1>10, <2>1
    <3>3. docs[x] \in DocRow
      BY <1>9
    <3> QED BY <2>1, <3>1, <3>2, <3>3 DEF DocRow
  <2>2. CASE x \notin moving
    BY <1>2, <1>9, <2>2
  <2> QED BY <2>1, <2>2
<1>12. docs' \in [DOMAIN docs -> DocRow]
  BY <1>2, <1>11
<1>13. \A x, y \in DOMAIN docs : docs'[x].path = docs'[y].path => x = y
  <2> SUFFICES ASSUME NEW x \in DOMAIN docs, NEW y \in DOMAIN docs,
                      docs'[x].path = docs'[y].path
               PROVE  x = y
    OBVIOUS
  <2>1. CASE x \in moving /\ y \in moving
    BY <1>4, <1>11, <2>1
  <2>2. CASE x \notin moving /\ y \notin moving
    BY <1>11, <2>2 DEF KbInv, DocsInv
  <2>3. CASE x \in moving /\ y \notin moving
    BY <1>4, <1>11, <2>3
  <2>4. CASE x \notin moving /\ y \in moving
    BY <1>4, <1>11, <2>4
  <2> QED BY <2>1, <2>2, <2>3, <2>4
<1>14. \A x \in DOMAIN docs : docs'[x].path = Append(docs'[x].dir, docs'[x].name)
  BY <1>9, <1>10, <1>11
<1>15. ASSUME NEW x \in DOMAIN docs \ single, NEW i \in LiveDirs, dirs[i].path = docs[x].dir
       PROVE  dirs'[i].path = docs'[x].dir
  <2>1. i \in rows <=> x \in nested
    BY <1>3, <1>15
  <2>2. CASE x \in nested
    <3>1. PICK j \in going : Under(docs[x].dir, dirs[j].path)
      BY <1>3, <2>2
    <3>2. docDir[x] = Rebase(docs[x].dir, dirs[j].path, Goal(target, j))
      BY <1>3, <2>2, <3>1
    <3>3. dirPath[i] = Rebase(docs[x].dir, dirs[j].path, Goal(target, j))
      BY <1>5, <1>15, <2>1, <2>2, <3>1
    <3> QED BY <1>6, <1>11, <2>1, <2>2, <3>2, <3>3
  <2>3. CASE x \notin nested
    BY <1>1, <1>6, <1>11, <1>15, <2>1, <2>3
  <2> QED BY <2>2, <2>3
<1>16. ASSUME NEW x \in DOMAIN docs
       PROVE  \/ \E i \in LiveDirs' : dirs'[i].path = docs'[x].dir
              \/ kbScope' = "private" /\ interrupted' = "delete"
  <2>1. CASE x \in single
    <3>1. docs'[x].dir = to /\ dirs'[target] = dirs[target]
      BY <1>1, <1>3, <1>6, <1>11, <2>1
    <3> QED BY <1>1, <1>6, <3>1
  <2>2. CASE x \notin single
    <3>1. Doomed = {}
      BY <1>1, NothingUnderWay
    <3>2. LiveAt(docs[x].dir) \/ (kbScope = "private" /\ interrupted = "delete")
      BY <3>1 DEF KbInv, DocsInv
    <3>3. ASSUME LiveAt(docs[x].dir) PROVE \E i \in LiveDirs' : dirs'[i].path = docs'[x].dir
      <4>1. PICK i \in LiveDirs : dirs[i].path = docs[x].dir
        BY <3>3 DEF LiveAt
      <4> QED BY <1>6, <1>15, <2>2, <4>1
    <3> QED BY <1>1, <3>2, <3>3
  <2> QED BY <2>1, <2>2
<1>17. /\ \A x \in moving : /\ docs'[x].path = docPath[x] /\ docPath[x] \in Seq(Names)
                            /\ docs'[x].dir = docDir[x]
       /\ \A x \in DOMAIN docs \ moving : docs'[x] = docs[x]
  BY <1>1, <1>10, <1>11
<1> QED BY <1>12, <1>13, <1>14, <1>15, <1>16, <1>17, Zenon

\* The documents that move, each of them at least once.
LEMMA FollowersAre ==
  ASSUME NEW nested, NEW single, IsFiniteSet(nested), IsFiniteSet(single)
  PROVE  \E n \in Nat :
           /\ Followers(nested, single) \in [1 .. n -> nested \cup single]
           /\ \A x \in nested \cup single : \E k \in 1 .. n : Followers(nested, single)[k] = x
<1> DEFINE S == nested \cup single
           a == SetToSeq(nested)
           b == SetToSeq(single)
           m == Cardinality(nested)
           n == Cardinality(single)
<1>1. /\ m \in Nat /\ a \in [1 .. m -> nested]
      /\ \A x \in nested : \E k \in 1 .. m : a[k] = x
  BY ListOf
<1>2. /\ n \in Nat /\ b \in [1 .. n -> single]
      /\ \A x \in single : \E k \in 1 .. n : b[k] = x
  BY ListOf
<1> HIDE DEF a, b, m, n
<1>3. a \in [1 .. m -> S] /\ b \in [1 .. n -> S]
  BY <1>1, <1>2
<1>4. a \in Seq(S) /\ b \in Seq(S)
  BY <1>1, <1>2, <1>3, FunctionIsList, Zenon
<1>5. Len(a) = m /\ Len(b) = n
  BY <1>1, <1>2, <1>4
<1> HIDE DEF S
<1>6. /\ a \o b \in Seq(S) /\ Len(a \o b) = Len(a) + Len(b)
      /\ \A i \in 1 .. Len(a) + Len(b) : (a \o b)[i] = IF i <= Len(a) THEN a[i] ELSE b[i - Len(a)]
  BY <1>4, ConcatProperties, Zenon
<1>7. a \o b \in [1 .. m + n -> S] /\ m + n \in Nat
  <2>1. m + n \in Nat /\ Len(a \o b) = m + n
    BY <1>1, <1>2, <1>5, <1>6
  <2>2. PICK c \in Seq(S) : c = a \o b
    BY <1>6
  <2>3. c \in [1 .. m + n -> S]
    <3>1. PICK l \in Nat : l = m + n /\ Len(c) = l
      BY <2>1, <2>2
    <3>2. c \in [1 .. l -> S]
      BY <3>1
    <3> QED BY <3>1, <3>2
  <2> QED BY <2>1, <2>2, <2>3
<1>8. ASSUME NEW x \in S PROVE \E k \in 1 .. m + n : (a \o b)[k] = x
  <2>1. CASE x \in nested
    <3>1. PICK k \in 1 .. m : a[k] = x
      BY <1>1, <2>1
    <3>2. k \in 1 .. m + n /\ k \in 1 .. Len(a) + Len(b) /\ k <= Len(a)
      BY <1>1, <1>2, <1>5
    <3> QED BY <1>6, <3>1, <3>2
  <2>2. CASE x \in single
    <3>1. PICK k \in 1 .. n : b[k] = x
      BY <1>2, <2>2
    <3>2. /\ m + k \in 1 .. m + n /\ m + k \in 1 .. Len(a) + Len(b)
          /\ ~(m + k <= Len(a)) /\ (m + k) - Len(a) = k
      BY <1>1, <1>2, <1>5
    <3> QED BY <1>6, <3>1, <3>2
  <2> QED BY <2>1, <2>2 DEF S
<1>9. Followers(nested, single) = a \o b
  BY DEF Followers, a, b
<1> QED BY <1>7, <1>8, <1>9 DEF S

LEMMA MovedTodo ==
  ASSUME KbInv, NEW target, NEW going, NEW rows, NEW nested, NEW single,
         NEW dirPath, NEW docPath, NEW docDir,
         Moved(target, going, rows, nested, single, dirPath, docPath, docDir)
  PROVE  /\ kbTodo' \in Seq(KbStep) /\ Doomed' = {}
         /\ \A k \in DOMAIN kbTodo' : StepInv(k)' /\ kbTodo'[k].do # "delete"
         /\ \A x \in nested \cup single : Pending("labels", x)' /\ Pending("index", x)'
<1> DEFINE S == nested \cup single
<1>1. /\ S \subseteq DOMAIN docs /\ DOMAIN docs' = DOMAIN docs
      /\ \A x \in S : docs'[x].path = docPath[x] /\ docPath[x] \in Seq(Names) /\ x \in Nat
  <2>1. nested \subseteq DOMAIN docs /\ single \subseteq DOMAIN docs
    BY DEF Moved
  <2>2. \A x \in DOMAIN docs : x \in Nat
    BY DocIs DEF KbInv
  <2>3. /\ docs' \in [DOMAIN docs -> DocRow]
        /\ \A x \in S : docs'[x].path = docPath[x] /\ docPath[x] \in Seq(Names)
    BY MovedDocs
  <2> QED BY <2>1, <2>2, <2>3
<1>2. IsFiniteSet(nested) /\ IsFiniteSet(single)
  <2>1. IsFiniteSet(DOMAIN docs) /\ nested \subseteq DOMAIN docs /\ single \subseteq DOMAIN docs
    BY DEF Moved, KbInv, KbTyped
  <2> QED BY <2>1, FS_Subset
<1>3. PICK n \in Nat : /\ Followers(nested, single) \in [1 .. n -> S]
                       /\ \A x \in S : \E k \in 1 .. n : Followers(nested, single)[k] = x
  BY <1>2, FollowersAre
<1> DEFINE order == Followers(nested, single)
           pairs == [k \in 1 .. n |-> Resync(order[k], docPath[order[k]])]
<1>4. kbTodo' = Concat(pairs)
  <2>1. DOMAIN order = 1 .. n
    BY <1>3
  <2> QED BY <2>1 DEF Moved
<1> HIDE DEF S, order
<1>5. ASSUME NEW k \in 1 .. n
      PROVE  /\ order[k] \in S /\ pairs[k] \in [{1, 2} -> KbStep]
             /\ pairs[k][1] = [do |-> "labels", doc |-> order[k], path |-> docPath[order[k]]]
             /\ pairs[k][2] = [do |-> "index", doc |-> order[k]]
  <2>1. PICK x \in S : x = order[k]
    BY <1>3 DEF order
  <2>2. x \in Nat /\ docPath[x] \in Seq(Names)
    BY <1>1 DEF S
  <2> DEFINE l == [do |-> "labels", doc |-> x, path |-> docPath[x]]
             i == [do |-> "index", doc |-> x]
  <2>3. l \in KbStep /\ i \in KbStep
    BY <2>2, StepKinds
  <2>4. pairs[k] = <<l, i>>
    BY <2>1 DEF Resync
  <2> HIDE DEF l, i, pairs
  <2>5. pairs[k] \in [{1, 2} -> KbStep] /\ pairs[k][1] = l /\ pairs[k][2] = i
    BY <2>3, <2>4
  <2> QED BY <2>1, <2>5 DEF l, i
<1>6. pairs \in [1 .. n -> [{1, 2} -> KbStep]]
  BY <1>5
<1> HIDE DEF pairs
<1>7. /\ kbTodo' \in Seq(KbStep) /\ DOMAIN kbTodo' = 1 .. 2 * n /\ Len(kbTodo') = 2 * n
      /\ \A k \in 1 .. n : /\ kbTodo'[2 * k - 1] = pairs[k][1]
                           /\ kbTodo'[2 * k] = pairs[k][2]
                           /\ 2 * k - 1 \in 1 .. 2 * n /\ 2 * k \in 1 .. 2 * n
      /\ \A m \in 1 .. 2 * n : \E k \in 1 .. n : m = 2 * k - 1 \/ m = 2 * k
  <2>1. /\ DOMAIN Concat(pairs) = 1 .. 2 * n /\ Concat(pairs) \in Seq(KbStep)
        /\ Len(Concat(pairs)) = 2 * n
        /\ \A k \in 1 .. n : /\ Concat(pairs)[2 * k - 1] = pairs[k][1]
                             /\ Concat(pairs)[2 * k] = pairs[k][2]
                             /\ 2 * k - 1 \in 1 .. 2 * n /\ 2 * k \in 1 .. 2 * n
        /\ \A m \in 1 .. 2 * n : \E k \in 1 .. n : m = 2 * k - 1 \/ m = 2 * k
    BY <1>6, ConcatIs
  <2> QED BY <1>4, <2>1
<1>8. ASSUME NEW m \in DOMAIN kbTodo'
      PROVE  \E x \in S : \/ kbTodo'[m] = [do |-> "labels", doc |-> x, path |-> docPath[x]]
                          \/ kbTodo'[m] = [do |-> "index", doc |-> x]
  <2>1. PICK k \in 1 .. n : m = 2 * k - 1 \/ m = 2 * k
    BY <1>7
  <2>2. kbTodo'[m] = pairs[k][1] \/ kbTodo'[m] = pairs[k][2]
    BY <1>7, <2>1
  <2>3. PICK x \in S : x = order[k]
    BY <1>5
  <2>4. /\ pairs[k][1] = [do |-> "labels", doc |-> x, path |-> docPath[x]]
        /\ pairs[k][2] = [do |-> "index", doc |-> x]
    BY <1>5, <2>3
  <2> QED BY <2>2, <2>4
<1>9. ASSUME NEW m \in DOMAIN kbTodo' PROVE StepInv(m)' /\ kbTodo'[m].do # "delete"
  <2>1. PICK x \in S : \/ kbTodo'[m] = [do |-> "labels", doc |-> x, path |-> docPath[x]]
                       \/ kbTodo'[m] = [do |-> "index", doc |-> x]
    BY <1>8
  <2>2. x \in DOMAIN docs' /\ docs'[x].path = docPath[x]
    BY <1>1 DEF S
  <2> QED BY <2>1, <2>2 DEF StepInv
<1>10. Doomed' = {}
  BY <1>9 DEF Doomed
<1>11. ASSUME NEW x \in S PROVE Pending("labels", x)' /\ Pending("index", x)'
  <2>1. PICK k \in 1 .. n : order[k] = x
    BY <1>3 DEF order, S
  <2>2. PICK l, i : l = 2 * k - 1 /\ i = 2 * k
    OBVIOUS
  <2>3. /\ kbTodo'[l] = pairs[k][1] /\ kbTodo'[i] = pairs[k][2]
        /\ l \in DOMAIN kbTodo' /\ i \in DOMAIN kbTodo'
    BY <1>7, <2>2
  <2>4. /\ kbTodo'[l].do = "labels" /\ kbTodo'[l].doc = x
        /\ kbTodo'[i].do = "index" /\ kbTodo'[i].doc = x
    <3>1. /\ pairs[k][1] = [do |-> "labels", doc |-> x, path |-> docPath[x]]
          /\ pairs[k][2] = [do |-> "index", doc |-> x]
      BY <1>5, <2>1
    <3> QED BY <2>3, <3>1
  <2> QED BY <2>3, <2>4 DEF Pending
<1> QED BY <1>7, <1>9, <1>10, <1>11 DEF S

LEMMA MoveKeeps ==
  ASSUME KbInv, NEW target \in LiveDirs, NEW ds \in SUBSET LiveDirs,
         NEW xs \in SUBSET DOMAIN docs, Move(target, ds, xs)
  PROVE  KbInv'
<1>1. PICK going, rows, nested, single, dirPath, docPath, docDir :
        Moved(target, going, rows, nested, single, dirPath, docPath, docDir)
  BY MoveIs
<1>2. /\ kbTodo = <<>> /\ requests < MaxRequests /\ requests' = requests + 1
      /\ UNCHANGED <<kbScope, blobs, interrupted>>
      /\ DOMAIN kbTodo = {} /\ Doomed = {}
  BY <1>1, NothingUnderWay DEF Moved, Begins, AtRest
<1>3. /\ dirs' \in Seq(DirRow) /\ \A i \in DOMAIN dirs' : dirs'[i].parent <= Len(dirs')
      /\ RowsInv'
  BY <1>1, MovedRows
<1>4. /\ docs' \in [DOMAIN docs -> DocRow]
      /\ \A x \in DOMAIN docs \ (nested \cup single) : docs'[x] = docs[x]
      /\ \A x, y \in DOMAIN docs : docs'[x].path = docs'[y].path => x = y
      /\ \A x \in DOMAIN docs : docs'[x].path = Append(docs'[x].dir, docs'[x].name)
      /\ \A x \in DOMAIN docs :
           \/ \E i \in LiveDirs' : dirs'[i].path = docs'[x].dir
           \/ kbScope' = "private" /\ interrupted' = "delete"
  BY <1>1, MovedDocs
<1>5. /\ kbTodo' \in Seq(KbStep) /\ Doomed' = {} /\ \A k \in DOMAIN kbTodo' : StepInv(k)'
      /\ \A x \in nested \cup single : Pending("labels", x)' /\ Pending("index", x)'
  BY <1>1, MovedTodo
<1>6. requests' \in 0 .. MaxRequests
  BY <1>2, KnowledgeBaseAssumption DEF KbInv, KbTyped
<1>7. DOMAIN docs' = DOMAIN docs
  BY <1>4
<1>8. KbTyped'
  BY <1>2, <1>3, <1>4, <1>5, <1>6, <1>7 DEF KbInv, KbTyped
<1>9. DocsInv'
  BY <1>4, <1>7 DEF DocsInv, LiveAt
<1>10. ASSUME NEW x \in DOMAIN docs' PROVE FollowsInv(x)'
  <2>1. CASE x \in nested \cup single
    BY <1>5, <2>1 DEF FollowsInv
  <2>2. CASE x \notin nested \cup single
    <3>1. docs'[x] = docs[x] /\ FollowsInv(x) /\ \A do : ~Pending(do, x)
      BY <1>2, <1>4, <1>7, <2>2, NothingUnderWay DEF KbInv
    <3>2. \/ interrupted # "nothing"
          \/ docs[x].labels = {docs[x].path} /\ docs[x].index = {docs[x].path}
      BY <1>2, <3>1 DEF FollowsInv
    <3> QED BY <1>2, <3>1, <3>2 DEF FollowsInv
  <2> QED BY <2>1, <2>2
<1> QED BY <1>3, <1>5, <1>8, <1>9, <1>10 DEF KbInv

\* What a deletion is about to do: it reaches every document it is for, each
\* document's assets first, and the directories it is for are closed.
LEMMA PrivateDeletion ==
  ASSUME NEW gone \in SUBSET Nat, NEW n \in Nat, NEW order \in [1 .. n -> gone],
         IsInjective(order), \A x \in gone : \E k \in 1 .. n : order[k] = x,
         gone \subseteq DOMAIN docs',
         kbTodo' = Concat([k \in 1 .. n |->
                     <<[do |-> "assets", doc |-> order[k]],
                       [do |-> "delete", docs |-> {order[k]}, dirs |-> {}]>>])
  PROVE  /\ kbTodo' \in Seq(KbStep) /\ Doomed' = gone
         /\ \A k \in DOMAIN kbTodo' : StepInv(k)'
         /\ \A k \in DOMAIN kbTodo' : kbTodo'[k].do = "delete" => kbTodo'[k].dirs = {}
<1> DEFINE assets(x) == [do |-> "assets", doc |-> x]
           delete(x) == [do |-> "delete", docs |-> {x}, dirs |-> {}]
           pairs == [k \in 1 .. n |-> <<assets(order[k]), delete(order[k])>>]
<1>1. \A x \in gone : assets(x) \in KbStep /\ delete(x) \in KbStep
  <2> SUFFICES ASSUME NEW x \in gone PROVE assets(x) \in KbStep /\ delete(x) \in KbStep
    OBVIOUS
  <2>1. x \in Nat /\ {x} \in SUBSET Nat /\ {} \in SUBSET Nat
    OBVIOUS
  <2> QED BY <2>1, StepKinds
<1>2. \A x \in gone : /\ assets(x).do = "assets" /\ assets(x).doc = x
                      /\ delete(x).do = "delete" /\ delete(x).docs = {x}
                      /\ delete(x).dirs = {}
  OBVIOUS
<1> HIDE DEF assets, delete
<1>3. ASSUME NEW k \in 1 .. n
      PROVE  /\ order[k] \in gone /\ pairs[k] \in [{1, 2} -> KbStep]
             /\ pairs[k][1] = assets(order[k]) /\ pairs[k][2] = delete(order[k])
  <2>1. PICK x \in gone : x = order[k]
    OBVIOUS
  <2>2. assets(x) \in KbStep /\ delete(x) \in KbStep /\ pairs[k] = <<assets(x), delete(x)>>
    BY <1>1, <2>1
  <2> HIDE DEF pairs
  <2> QED BY <2>1, <2>2
<1>4. pairs \in [1 .. n -> [{1, 2} -> KbStep]]
  BY <1>3
<1>5. kbTodo' = Concat(pairs)
  BY DEF assets, delete
<1> HIDE DEF pairs
<1>6. /\ kbTodo' \in Seq(KbStep) /\ DOMAIN kbTodo' = 1 .. 2 * n /\ Len(kbTodo') = 2 * n
      /\ \A k \in 1 .. n : /\ kbTodo'[2 * k - 1] = pairs[k][1]
                           /\ kbTodo'[2 * k] = pairs[k][2]
                           /\ 2 * k - 1 \in 1 .. 2 * n /\ 2 * k \in 1 .. 2 * n
      /\ \A m \in 1 .. 2 * n : \E k \in 1 .. n : m = 2 * k - 1 \/ m = 2 * k
  <2>1. /\ DOMAIN Concat(pairs) = 1 .. 2 * n /\ Concat(pairs) \in Seq(KbStep)
        /\ Len(Concat(pairs)) = 2 * n
        /\ \A k \in 1 .. n : /\ Concat(pairs)[2 * k - 1] = pairs[k][1]
                             /\ Concat(pairs)[2 * k] = pairs[k][2]
                             /\ 2 * k - 1 \in 1 .. 2 * n /\ 2 * k \in 1 .. 2 * n
        /\ \A m \in 1 .. 2 * n : \E k \in 1 .. n : m = 2 * k - 1 \/ m = 2 * k
    BY <1>4, ConcatIs
  <2> QED BY <1>5, <2>1
<1>7. ASSUME NEW m \in DOMAIN kbTodo'
      PROVE  \E k \in 1 .. n : \/ m = 2 * k - 1 /\ kbTodo'[m] = assets(order[k])
                               \/ m = 2 * k /\ kbTodo'[m] = delete(order[k])
  <2>1. PICK k \in 1 .. n : m = 2 * k - 1 \/ m = 2 * k
    BY <1>6
  <2>2. \/ m = 2 * k - 1 /\ kbTodo'[m] = pairs[k][1]
        \/ m = 2 * k /\ kbTodo'[m] = pairs[k][2]
    BY <1>6, <2>1
  <2> QED BY <1>3, <2>2
<1>8. ASSUME NEW m \in DOMAIN kbTodo'
      PROVE  /\ kbTodo'[m].do \in {"assets", "delete"}
             /\ kbTodo'[m].do = "delete" => kbTodo'[m].dirs = {}
  <2>1. PICK k \in 1 .. n : kbTodo'[m] = assets(order[k]) \/ kbTodo'[m] = delete(order[k])
    BY <1>7
  <2>2. PICK x \in gone : x = order[k]
    BY <1>3
  <2> QED BY <1>2, <2>1, <2>2
<1>9. ASSUME NEW m \in DOMAIN kbTodo' PROVE StepInv(m)'
  <2>1. PICK k \in 1 .. n : \/ m = 2 * k - 1 /\ kbTodo'[m] = assets(order[k])
                            \/ m = 2 * k /\ kbTodo'[m] = delete(order[k])
    BY <1>7
  <2>2. PICK x \in gone : x = order[k] /\ x \in DOMAIN docs'
    BY <1>3
  <2>3. CASE m = 2 * k - 1 /\ kbTodo'[m] = assets(order[k])
    <3>1. PICK l : l = 2 * k /\ l \in m + 1 .. Len(kbTodo') /\ kbTodo'[l] = delete(x)
      <4>1. 2 * k \in m + 1 .. Len(kbTodo')
        BY <1>6, <2>3
      <4>2. kbTodo'[2 * k] = delete(x)
        BY <1>3, <1>6, <2>2
      <4> QED BY <4>1, <4>2
    <3>2. kbTodo'[m].do = "assets" /\ kbTodo'[m].doc = x
          /\ kbTodo'[l].do = "delete" /\ x \in kbTodo'[l].docs
      BY <1>2, <2>2, <2>3, <3>1
    <3> QED BY <2>2, <3>1, <3>2 DEF StepInv
  <2>4. CASE m = 2 * k /\ kbTodo'[m] = delete(order[k])
    <3>1. kbTodo'[m].do = "delete" /\ kbTodo'[m].docs = {x} /\ kbTodo'[m].dirs = {}
      BY <1>2, <2>2, <2>4
    <3>2. ASSUME NEW l \in m + 1 .. Len(kbTodo'), kbTodo'[l].do = "assets"
          PROVE  kbTodo'[l].doc # x
      <4>1. l \in DOMAIN kbTodo' /\ l \in Nat /\ l > m
        BY <1>6, <2>4
      <4>2. PICK j \in 1 .. n : \/ l = 2 * j - 1 /\ kbTodo'[l] = assets(order[j])
                                \/ l = 2 * j /\ kbTodo'[l] = delete(order[j])
        BY <1>7, <4>1
      <4>3. PICK y \in gone : y = order[j]
        BY <1>3
      <4>4. kbTodo'[l].doc = y
        BY <1>2, <3>2, <4>2, <4>3
      <4>5. j # k
        BY <2>4, <4>1, <4>2
      <4>6. y # x
        BY <2>2, <4>3, <4>5 DEF IsInjective
      <4> QED BY <4>4, <4>6
    <3> QED BY <1>8, <3>1, <3>2 DEF StepInv
  <2> QED BY <2>1, <2>3, <2>4
<1>10. Doomed' = gone
  <2>1. ASSUME NEW x \in Doomed' PROVE x \in gone
    <3>1. PICK m \in DOMAIN kbTodo' : kbTodo'[m].do = "delete" /\ x \in kbTodo'[m].docs
      BY <2>1 DEF Doomed
    <3>2. PICK k \in 1 .. n : kbTodo'[m] = assets(order[k]) \/ kbTodo'[m] = delete(order[k])
      BY <1>7
    <3>3. PICK y \in gone : y = order[k]
      BY <1>3
    <3>4. kbTodo'[m] = delete(y)
      BY <1>2, <3>1, <3>2, <3>3
    <3>5. kbTodo'[m].docs = {y}
      BY <1>2, <3>4
    <3> QED BY <3>1, <3>5
  <2>2. ASSUME NEW x \in gone PROVE x \in Doomed'
    <3>1. PICK k \in 1 .. n : order[k] = x
      OBVIOUS
    <3>2. PICK m : m = 2 * k /\ m \in DOMAIN kbTodo' /\ kbTodo'[m] = delete(x)
      <4>1. 2 * k \in DOMAIN kbTodo' /\ kbTodo'[2 * k] = delete(x)
        BY <1>3, <1>6, <3>1
      <4> QED BY <4>1
    <3>3. kbTodo'[m].do = "delete" /\ x \in kbTodo'[m].docs
      BY <1>2, <3>2
    <3> QED BY <3>2, <3>3 DEF Doomed
  <2> QED BY <2>1, <2>2
<1> QED BY <1>6, <1>8, <1>9, <1>10

LEMMA LibraryDeletion ==
  ASSUME NEW gone \in SUBSET Nat, NEW n \in Nat, NEW order \in [1 .. n -> gone],
         NEW rows \in SUBSET Nat, gone \subseteq DOMAIN docs',
         \A i \in LiveDirs' \ rows : dirs'[i].path # Root => dirs'[i].parent \notin rows,
         \A x \in DOMAIN docs' \ gone, i \in rows :
           i \in LiveDirs' => dirs'[i].path # docs'[x].dir,
         kbTodo' = Append([k \in 1 .. n |-> [do |-> "assets", doc |-> order[k]]],
                          [do |-> "delete", docs |-> gone, dirs |-> rows])
  PROVE  /\ kbTodo' \in Seq(KbStep) /\ Doomed' = gone
         /\ \A k \in DOMAIN kbTodo' : StepInv(k)'
<1> DEFINE a == [k \in 1 .. n |-> [do |-> "assets", doc |-> order[k]]]
           delete == [do |-> "delete", docs |-> gone, dirs |-> rows]
<1>1. delete \in KbStep /\ delete.do = "delete" /\ delete.docs = gone /\ delete.dirs = rows
  BY StepKinds
<1>2. ASSUME NEW k \in 1 .. n
      PROVE  a[k] \in KbStep /\ a[k].do = "assets" /\ a[k].doc = order[k] /\ order[k] \in gone
  <2>1. PICK x \in Nat : x = order[k]
    OBVIOUS
  <2>2. [do |-> "assets", doc |-> x] \in KbStep
    BY StepKinds
  <2> QED BY <2>1, <2>2
<1>3. a \in Seq(KbStep) /\ Len(a) = n
  <2>1. a \in [1 .. n -> KbStep]
    BY <1>2
  <2> HIDE DEF a
  <2>2. a \in Seq(KbStep)
    BY <2>1, FunctionIsList, Zenon
  <2> QED BY <2>1, <2>2
<1> HIDE DEF a, delete
<1>4. kbTodo' = Append(a, delete)
  BY DEF a, delete
<1>5. /\ kbTodo' \in Seq(KbStep) /\ Len(kbTodo') = n + 1 /\ DOMAIN kbTodo' = 1 .. n + 1
      /\ kbTodo'[n + 1] = delete /\ \A k \in 1 .. n : kbTodo'[k] = a[k]
  <2>1. /\ Append(a, delete) \in Seq(KbStep) /\ Len(Append(a, delete)) = n + 1
        /\ Append(a, delete)[n + 1] = delete
        /\ \A k \in 1 .. n : Append(a, delete)[k] = a[k]
    BY <1>1, <1>3, AppendIs
  <2>2. DOMAIN Append(a, delete) = 1 .. n + 1
    BY <2>1
  <2> QED BY <1>4, <2>1, <2>2
<1>6. n + 1 \in DOMAIN kbTodo' /\ \A k \in DOMAIN kbTodo' : k \in 1 .. n \/ k = n + 1
  BY <1>5
<1>7. ASSUME NEW k \in 1 .. n PROVE StepInv(k)'
  <2>1. kbTodo'[k].do = "assets" /\ kbTodo'[k].doc \in gone
    BY <1>2, <1>5
  <2>2. PICK l : l = n + 1 /\ l \in k + 1 .. Len(kbTodo')
    BY <1>5
  <2>3. kbTodo'[l].do = "delete" /\ kbTodo'[k].doc \in kbTodo'[l].docs
    BY <1>1, <1>5, <2>1, <2>2
  <2> QED BY <2>1, <2>2, <2>3 DEF StepInv
<1>8. StepInv(n + 1)'
  <2>1. PICK m : m = n + 1
    OBVIOUS
  <2>2. /\ kbTodo'[m].do = "delete" /\ kbTodo'[m].docs = gone /\ kbTodo'[m].dirs = rows
    BY <1>1, <1>5, <2>1
  <2>3. \A l \in DOMAIN kbTodo' : kbTodo'[l].do \in {"assets", "delete"}
    BY <1>1, <1>2, <1>5, <1>6
  <2>4. m + 1 .. Len(kbTodo') = {}
    BY <1>5, <2>1
  <2>5. StepInv(m)'
    BY <2>2, <2>3, <2>4 DEF StepInv
  <2> QED BY <2>1, <2>5
<1>9. Doomed' = gone
  <2>1. ASSUME NEW x \in Doomed' PROVE x \in gone
    <3>1. PICK m \in DOMAIN kbTodo' : kbTodo'[m].do = "delete" /\ x \in kbTodo'[m].docs
      BY <2>1 DEF Doomed
    <3>2. m = n + 1
      BY <1>2, <1>5, <1>6, <3>1
    <3> QED BY <1>1, <1>5, <3>1, <3>2
  <2>2. ASSUME NEW x \in gone PROVE x \in Doomed'
    BY <1>1, <1>5, <1>6 DEF Doomed
  <2> QED BY <2>1, <2>2
<1> QED BY <1>5, <1>6, <1>7, <1>8, <1>9

LEMMA DeleteKeeps ==
  ASSUME KbInv, NEW ds \in SUBSET LiveDirs, NEW xs \in SUBSET DOMAIN docs, Delete(ds, xs)
  PROVE  KbInv' /\ (RootKept => RootKept')
<1> DEFINE tops == Tops(ds)
           rows == {i \in LiveDirs : \E j \in tops : Under(dirs[i].path, dirs[j].path)}
           gone == Loose(tops, xs) \cup {x \in DOMAIN docs : Inside(x, tops)}
           order == SetToSeq(gone)
           n == Cardinality(gone)
<1>1. /\ Begins /\ UNCHANGED <<kbScope, docs, blobs, interrupted>>
  BY DEF Delete
<1>2. ASSUME kbScope = "private"
      PROVE  /\ \A i \in tops : dirs[i].path # Root
             /\ dirs' = [i \in DOMAIN dirs |-> [dirs[i] EXCEPT !.live = @ /\ i \notin rows]]
             /\ kbTodo' = Concat([k \in DOMAIN order |->
                            <<[do |-> "assets", doc |-> order[k]],
                              [do |-> "delete", docs |-> {order[k]}, dirs |-> {}]>>])
  BY <1>2 DEF Delete, DeleteWorkspaceEntries, DeletesAssets, Deletes
<1>3. ASSUME kbScope # "private"
      PROVE  /\ dirs' = dirs
             /\ kbTodo' = Append([k \in DOMAIN order |-> [do |-> "assets", doc |-> order[k]]],
                                 [do |-> "delete", docs |-> gone, dirs |-> rows])
  BY <1>3 DEF Delete, DeleteLibraryEntries, DeletesAssets, Deletes
<1>4. /\ rows \subseteq LiveDirs /\ tops \subseteq LiveDirs
      /\ \A i \in LiveDirs : i \in rows <=> \E j \in tops : Under(dirs[i].path, dirs[j].path)
  BY DEF Tops
<1>5. /\ gone \subseteq DOMAIN docs
      /\ \A x \in DOMAIN docs \ gone : ~Inside(x, tops)
  BY DEF Loose
<1>6. IsFiniteSet(gone) /\ gone \in SUBSET Nat
  <2> HIDE DEF gone
  <2>1. IsFiniteSet(DOMAIN docs) /\ DOMAIN docs \subseteq Nat
    BY DEF KbInv, KbTyped
  <2> QED BY <1>5, <2>1, FS_Subset
<1> HIDE DEF tops, rows, gone
<1>7. /\ n \in Nat /\ order \in [1 .. n -> gone] /\ IsInjective(order)
      /\ \A x \in gone : \E k \in 1 .. n : order[k] = x
      /\ DOMAIN order = 1 .. n
  BY <1>6, ListOf
<1> HIDE DEF order, n
<1>8. PICK m, o :
        /\ m \in Nat /\ o \in [1 .. m -> gone] /\ o = order /\ DOMAIN order = 1 .. m
        /\ IsInjective(o) /\ \A x \in gone : \E k \in 1 .. m : o[k] = x
  BY <1>7
\* What is deleted is closed under what is below.
<1>9. \A i \in DOMAIN dirs : dirs[i].path \in Seq(Names)
  BY RowIs DEF KbInv
<1>10. ASSUME NEW i \in LiveDirs \ rows, dirs[i].path # Root PROVE dirs[i].parent \notin rows
  <2>1. /\ i \in DOMAIN dirs /\ dirs[i].path # <<>> /\ dirs[i].parent \in LiveDirs
        /\ dirs[dirs[i].parent].path = Front(dirs[i].path)
        /\ dirs[i].parent \in DOMAIN dirs
    BY <1>10 DEF KbInv, RowsInv, LiveDirs, Root
  <2>2. PICK u \in LiveDirs : u = dirs[i].parent /\ dirs[u].path = Front(dirs[i].path)
                              /\ u \in DOMAIN dirs
    BY <2>1
  <2> SUFFICES ASSUME u \in rows PROVE FALSE
    BY <2>2
  <2>3. PICK j \in tops : Under(dirs[u].path, dirs[j].path)
    BY <1>4
  <2>4. dirs[i].path \in Seq(Names) /\ dirs[u].path \in Seq(Names) /\ dirs[j].path \in Seq(Names)
    BY <1>4, <1>9, <2>1, <2>2 DEF LiveDirs
  <2>5. Under(dirs[i].path, dirs[u].path)
    BY <2>1, <2>2, <2>4, FrontIs
  <2>6. Under(dirs[i].path, dirs[j].path)
    BY <2>3, <2>4, <2>5, UnderOrder
  <2> QED BY <1>4, <2>6
<1>11. ASSUME NEW x \in DOMAIN docs \ gone, NEW i \in rows PROVE dirs[i].path # docs[x].dir
  <2>1. PICK j \in tops : Under(dirs[i].path, dirs[j].path)
    BY <1>4
  <2>2. ~Under(docs[x].dir, dirs[j].path)
    BY <1>5 DEF Inside
  <2> QED BY <2>1, <2>2
<1>12. /\ kbTodo' \in Seq(KbStep) /\ Doomed' = gone
       /\ \A k \in DOMAIN kbTodo' : StepInv(k)'
       /\ kbScope = "private" =>
            \A k \in DOMAIN kbTodo' : kbTodo'[k].do = "delete" => kbTodo'[k].dirs = {}
  <2>0. gone \subseteq DOMAIN docs' /\ gone \in SUBSET Nat
    BY <1>1, <1>5, <1>6
  <2>1. CASE kbScope = "private"
    <3>1. kbTodo' = Concat([k \in 1 .. m |->
                      <<[do |-> "assets", doc |-> o[k]],
                        [do |-> "delete", docs |-> {o[k]}, dirs |-> {}]>>])
      BY <1>2, <1>8, <2>1
    <3>2. PICK g : g = gone
      OBVIOUS
    <3> QED BY <1>8, <2>0, <2>1, <3>1, <3>2, PrivateDeletion
  <2>2. CASE kbScope # "private"
    <3>1. kbTodo' = Append([k \in 1 .. m |-> [do |-> "assets", doc |-> o[k]]],
                           [do |-> "delete", docs |-> gone, dirs |-> rows])
      BY <1>3, <1>8, <2>2
    <3>2. rows \in SUBSET Nat
      <4>1. dirs \in Seq(DirRow)
        BY DEF KbInv, KbTyped
      <4> QED BY <1>4, <4>1 DEF LiveDirs
    <3>3. PICK g, r : g = gone /\ r = rows
      OBVIOUS
    <3>4. /\ \A i \in LiveDirs' \ r : dirs'[i].path # Root => dirs'[i].parent \notin r
          /\ \A x \in DOMAIN docs' \ g, i \in r :
               i \in LiveDirs' => dirs'[i].path # docs'[x].dir
      BY <1>1, <1>3, <1>10, <1>11, <2>2, <3>3 DEF LiveDirs
    <3>5. /\ g \in SUBSET Nat /\ r \in SUBSET Nat /\ g \subseteq DOMAIN docs'
          /\ m \in Nat /\ o \in [1 .. m -> g]
          /\ kbTodo' = Append([k \in 1 .. m |-> [do |-> "assets", doc |-> o[k]]],
                              [do |-> "delete", docs |-> g, dirs |-> r])
      BY <1>8, <2>0, <3>1, <3>2, <3>3
    <3>6. /\ kbTodo' \in Seq(KbStep) /\ Doomed' = g
          /\ \A k \in DOMAIN kbTodo' : StepInv(k)'
      BY <3>4, <3>5, LibraryDeletion
    <3> QED BY <2>2, <3>3, <3>6
  <2> QED BY <2>1, <2>2
<1>13. /\ dirs' \in Seq(DirRow) /\ \A i \in DOMAIN dirs' : dirs'[i].parent <= Len(dirs')
       /\ RowsInv'
       /\ kbScope = "private" => /\ LiveDirs' = LiveDirs \ rows
                                 /\ \A i \in DOMAIN dirs : dirs'[i].path = dirs[i].path
       /\ kbScope # "private" => dirs' = dirs
  <2>1. CASE kbScope = "private"
    <3>1. PICK r : r = rows
      OBVIOUS
    <3>2. /\ dirs' = [i \in DOMAIN dirs |-> [dirs[i] EXCEPT !.live = @ /\ i \notin r]]
          /\ \A i \in LiveDirs \ r : dirs[i].path # Root => dirs[i].parent \notin r
      BY <1>2, <1>10, <2>1, <3>1
    <3> QED BY <2>1, <3>1, <3>2, MarkedIs DEF KbInv
  <2>2. CASE kbScope # "private"
    BY <1>3, <2>2 DEF KbInv, KbTyped, RowsInv, LiveDirs
  <2> QED BY <2>1, <2>2
<1>14. /\ kbTodo = <<>> /\ requests' \in 0 .. MaxRequests /\ Doomed = {}
       /\ \A do, x : ~Pending(do, x)
  BY <1>1, NothingUnderWay, KnowledgeBaseAssumption DEF Begins, AtRest, KbInv, KbTyped
<1>15. KbTyped'
  BY <1>1, <1>12, <1>13, <1>14 DEF KbInv, KbTyped
<1>16. DocsInv'
  <2>1. /\ \A x, y \in DOMAIN docs' : docs'[x].path = docs'[y].path => x = y
        /\ \A x \in DOMAIN docs' : docs'[x].path = Append(docs'[x].dir, docs'[x].name)
    BY <1>1 DEF KbInv, DocsInv
  <2>2. ASSUME NEW x \in DOMAIN docs'
        PROVE  \/ \E i \in LiveDirs' : dirs'[i].path = docs'[x].dir
               \/ kbScope' = "private" /\ (x \in Doomed' \/ interrupted' = "delete")
    <3>1. x \in DOMAIN docs /\ docs'[x] = docs[x]
      BY <1>1
    <3>2. LiveAt(docs[x].dir) \/ (kbScope = "private" /\ interrupted = "delete")
      BY <1>14, <3>1 DEF KbInv, DocsInv
    <3>3. CASE kbScope = "private" /\ x \in gone
      BY <1>1, <1>12, <3>3
    <3>4. CASE kbScope = "private" /\ x \notin gone /\ LiveAt(docs[x].dir)
      <4>1. PICK i \in LiveDirs : dirs[i].path = docs[x].dir
        BY <3>4 DEF LiveAt
      <4>2. i \notin rows /\ i \in DOMAIN dirs
        BY <1>11, <3>1, <3>4, <4>1 DEF LiveDirs
      <4> QED BY <1>13, <3>1, <3>4, <4>1, <4>2
    <3>5. CASE kbScope # "private"
      BY <1>13, <3>1, <3>2, <3>5 DEF LiveAt, LiveDirs
    <3> QED BY <1>1, <3>2, <3>3, <3>4, <3>5
  <2> QED BY <2>1, <2>2 DEF DocsInv, LiveAt
<1>17. ASSUME NEW x \in DOMAIN docs' PROVE FollowsInv(x)'
  <2>1. \/ interrupted # "nothing"
        \/ docs[x].labels = {docs[x].path} /\ docs[x].index = {docs[x].path}
    BY <1>1, <1>14 DEF KbInv, FollowsInv
  <2> QED BY <1>1, <2>1 DEF FollowsInv
<1>18. ASSUME RootKept PROVE RootKept'
  <2>1. PICK i \in LiveDirs : dirs[i].path = Root
    BY <1>18 DEF RootKept, LiveAt
  <2>2. ASSUME NEW j \in tops PROVE ~Under(dirs[i].path, dirs[j].path)
    <3>1. dirs[j].path \in Seq(Names) /\ dirs[j].path # Root
      BY <1>2, <1>4, <1>9, <1>18 DEF LiveDirs, RootKept
    <3> QED BY <2>1, <3>1, UnderRoot
  <2>3. i \in LiveDirs' /\ dirs'[i].path = Root
    BY <1>4, <1>13, <1>18, <2>1, <2>2 DEF RootKept, LiveDirs
  <2> QED BY <1>1, <1>12, <1>18, <2>3 DEF RootKept, LiveAt
<1>19. KbInv'
  BY <1>12, <1>13, <1>15, <1>16, <1>17 DEF KbInv
<1> QED BY <1>18, <1>19

LEMMA PathIsSeq ==
  ASSUME NEW p \in Paths
  PROVE  p \in Seq(Names)
<1>1. PICK n \in 0 .. MaxDepth : p \in [1 .. n -> Names]
  BY DEF Paths
<1>2. n \in Nat
  BY KnowledgeBaseAssumption
<1> QED BY <1>1, <1>2, FunctionIsList, Zenon

LEMMA KbInit_KbInv ==
  ASSUME KbInit
  PROVE  KbInv
<1>1. /\ dirs \in Seq(DirRow) /\ DOMAIN dirs = {1} /\ Len(dirs) = 1
      /\ dirs[1].path = Root /\ dirs[1].parent = 0 /\ dirs[1].live = TRUE
  <2> DEFINE row == [path |-> Root, parent |-> 0, live |-> TRUE]
  <2>1. row \in DirRow /\ row.path = Root /\ row.parent = 0 /\ row.live = TRUE
    BY DEF DirRow, Root
  <2>2. dirs = <<row>>
    BY DEF KbInit
  <2> HIDE DEF row
  <2> QED BY <2>1, <2>2
<1>2. DOMAIN docs = {} /\ docs \in [DOMAIN docs -> DocRow] /\ IsFiniteSet({})
  <2>1. docs = <<>>
    BY DEF KbInit
  <2>2. DOMAIN docs = {}
    BY <2>1
  <2>3. docs = [x \in {} |-> docs[x]]
    BY <2>1
  <2> QED BY <2>2, <2>3, FS_EmptySet
<1>3. kbTodo \in Seq(KbStep) /\ DOMAIN kbTodo = {}
  BY DEF KbInit
<1>4. KbTyped
  BY <1>1, <1>2, <1>3, KnowledgeBaseAssumption DEF KbTyped, KbInit
<1>5. RowsInv
  BY <1>1 DEF RowsInv, LiveDirs
<1>6. DocsInv
  BY <1>2 DEF DocsInv
<1> QED BY <1>2, <1>3, <1>4, <1>5, <1>6 DEF KbInv

LEMMA KbNext_KbInv ==
  ASSUME KbInv, KbNext
  PROVE  KbInv'
<1>1. ASSUME NEW i \in DOMAIN dirs, NEW n \in Names, CreateDirectory(i, n) PROVE KbInv'
  BY <1>1, CreateDirectoryKeeps
<1>2. ASSUME NEW p \in Paths, NEW n \in FileNames, NEW b \in Blobs, Upload(p, n, b)
      PROVE  KbInv'
  BY <1>2, PathIsSeq, UploadKeeps
<1>3. ASSUME NEW x \in DOMAIN docs, NEW p \in Paths, NEW n \in FileNames, Patch(x, p, n)
      PROVE  KbInv'
  BY <1>3, PathIsSeq, PatchKeeps
<1>4. ASSUME NEW i \in LiveDirs, NEW ds \in SUBSET LiveDirs, NEW xs \in SUBSET DOMAIN docs,
             Move(i, ds, xs)
      PROVE  KbInv'
  BY <1>4, MoveKeeps
<1>5. ASSUME NEW ds \in SUBSET LiveDirs, NEW xs \in SUBSET DOMAIN docs, Delete(ds, xs)
      PROVE  KbInv'
  BY <1>5, DeleteKeeps
<1>6. CASE Steps
  BY <1>6, MakeDirectoryKeeps, PutDocumentKeeps, UpdateDocumentKeeps, SyncLabelsKeeps,
     SyncIndexKeeps, DeleteAssetsKeeps, DeleteRowsKeeps DEF Steps
<1>7. CASE Crash
  BY <1>7, CrashKeeps
<1> QED BY <1>1, <1>2, <1>3, <1>4, <1>5, <1>6, <1>7 DEF KbNext

LEMMA StutterKeeps ==
  ASSUME KbInv, UNCHANGED kbVars
  PROVE  KbInv'
<1>1. /\ kbScope' = kbScope /\ dirs' = dirs /\ docs' = docs /\ blobs' = blobs
      /\ kbTodo' = kbTodo /\ interrupted' = interrupted /\ requests' = requests
      /\ LiveDirs' = LiveDirs /\ Doomed' = Doomed
  BY DEF kbVars, LiveDirs, Doomed
<1>2. KbTyped'
  BY <1>1 DEF KbInv, KbTyped
<1>3. RowsInv'
  BY <1>1 DEF KbInv, RowsInv
<1>4. DocsInv'
  BY <1>1 DEF KbInv, DocsInv, LiveAt
<1>5. ASSUME NEW k \in DOMAIN kbTodo PROVE StepInv(k)'
  BY <1>1 DEF KbInv, StepInv, LiveAt
<1>6. ASSUME NEW x \in DOMAIN docs PROVE FollowsInv(x)'
  BY <1>1 DEF KbInv, FollowsInv, Pending
<1> QED BY <1>1, <1>2, <1>3, <1>4, <1>5, <1>6 DEF KbInv

LEMMA KbInvHolds == KbSpec => []KbInv
<1>1. KbInv /\ [KbNext /\ KbBounded]_kbVars => KbInv'
  BY StutterKeeps, KbNext_KbInv
<1>2. KbInit => KbInv
  BY KbInit_KbInv
<1> QED BY <1>1, <1>2, PTL DEF KbSpec

\* Every variable of the knowledge base has its type, and a step left to do is about a
\* document that exists.
THEOREM KnowledgeBaseTypes == KbSpec => []KbTypeOK
<1>1. ASSUME KbInv PROVE KbTypeOK
  <2>1. dirs \in Seq([path : Seq(Names), parent : 0 .. Len(dirs), live : BOOLEAN])
    <3> DEFINE R == [path : Seq(Names), parent : 0 .. Len(dirs), live : BOOLEAN]
    <3>1. dirs \in Seq(DirRow) /\ Len(dirs) \in Nat /\ DOMAIN dirs = 1 .. Len(dirs)
      BY <1>1 DEF KbInv, KbTyped
    <3>2. \A i \in DOMAIN dirs : dirs[i] \in R
      <4> SUFFICES ASSUME NEW i \in DOMAIN dirs PROVE dirs[i] \in R
        OBVIOUS
      <4>1. dirs[i] \in DirRow /\ dirs[i].parent \in 0 .. Len(dirs)
        BY <1>1, RowIs DEF KbInv
      <4> QED BY <4>1 DEF DirRow
    <3>3. dirs \in [1 .. Len(dirs) -> R]
      BY <3>1, <3>2
    <3> HIDE DEF R
    <3>4. dirs \in Seq(R)
      BY <3>1, <3>3, FunctionIsList, Zenon
    <3> QED BY <3>4 DEF R
  <2>2. \A x \in DOMAIN docs : docs[x] \in DocRow
    BY <1>1, DocIs DEF KbInv
  <2>3. ASSUME NEW k \in DOMAIN kbTodo,
               kbTodo[k].do \in {"update", "labels", "index", "assets"}
        PROVE  kbTodo[k].doc \in DOMAIN docs
    BY <1>1, <2>3 DEF KbInv, StepInv
  <2> QED BY <1>1, <2>1, <2>2, <2>3 DEF KbTypeOK, KbInv, KbTyped, DocRow
<1> QED BY <1>1, KbInvHolds, PTL

\* The rows of a library are one tree, and its documents are where their paths say,
\* whatever is moved, deleted and brought back, and wherever a request breaks off.
THEOREM TreeStaysIntact == KbSpec => []TreeIntact
<1>1. ASSUME KbInv PROVE TreeIntact
  <2>1. \A path : LiveAt(path) => RowsAt(path) \cap LiveDirs # {}
    BY DEF LiveAt, RowsAt, LiveDirs
  <2> QED BY <1>1, <2>1 DEF KbInv, RowsInv, DocsInv, TreeIntact
<1> QED BY <1>1, KbInvHolds, PTL

\* Citations and search follow every change of a path, unless a request was cut off.
THEOREM SearchFollowsPaths == KbSpec => []SearchFollows
<1>1. ASSUME KbInv PROVE SearchFollows
  <2> SUFFICES ASSUME AtRest, interrupted = "nothing", NEW x \in DOMAIN docs
               PROVE  docs[x].labels = {docs[x].path} /\ docs[x].index = {docs[x].path}
    BY DEF SearchFollows
  <2>1. FollowsInv(x) /\ Doomed = {} /\ \A do : ~Pending(do, x)
    BY <1>1, NothingUnderWay DEF KbInv, AtRest
  <2> QED BY <2>1 DEF FollowsInv
<1> QED BY <1>1, KbInvHolds, PTL

\* One target, to which going and single are transferred, and nothing else is.
LEMMA Transfer ==
  ASSUME KbInv, RowsInv', NEW target, NEW going \in SUBSET LiveDirs,
         NEW single \in SUBSET DOMAIN docs,
         \A i \in LiveDirs \ going : dirs'[i].parent = dirs[i].parent,
         \A i \in going : dirs'[i].parent = target,
         \A x \in DOMAIN docs \ single, i \in LiveDirs :
           dirs[i].path = docs[x].dir => i \in DOMAIN dirs' /\ dirs'[i].path = docs'[x].dir,
         \A x \in single : target \in DOMAIN dirs' /\ dirs'[target].path = docs'[x].dir,
         \A i, j \in going : Under(dirs[i].path, dirs[j].path) => i = j,
         \A x \in single, j \in going : ~Under(docs[x].dir, dirs[j].path),
         \A i \in LiveDirs : dirs[i].path = Root \/ Last(dirs'[i].path) = Last(dirs[i].path)
  PROVE  TransferKeepsShape
<1> DEFINE dirMoved == {i \in LiveDirs : dirs'[i].parent # dirs[i].parent}
           docMoved == {x \in DOMAIN docs : /\ RowsAt(docs[x].dir) \cap LiveDirs # {}
                                            /\ RowAt(docs[x].dir) # RowAt(docs[x].dir)'}
           targets == {dirs'[i].parent : i \in dirMoved}
                      \cup {RowAt(docs[x].dir)' : x \in docMoved}
<1>1. \A x : \A i \in DOMAIN dirs' : dirs'[i].path = docs'[x].dir => RowAt(docs[x].dir)' = i
  BY DEF RowsInv, RowAt, RowsAt
<1>2. dirMoved \subseteq going
  OBVIOUS
<1>3. ASSUME NEW x \in docMoved PROVE x \in single
  <2>1. x \in DOMAIN docs
    OBVIOUS
  <2>2. PICK i \in LiveDirs : dirs[i].path = docs[x].dir
    BY DEF RowsAt
  <2>3. RowAt(docs[x].dir) = i
    BY <2>2, RowAtIs DEF KbInv, LiveDirs
  <2>4. RowAt(docs[x].dir) # RowAt(docs[x].dir)'
    OBVIOUS
  <2> HIDE DEF docMoved
  <2> QED BY <1>1, <2>1, <2>2, <2>3, <2>4
<1>4. \A x \in docMoved : RowAt(docs[x].dir)' = target
  <2> HIDE DEF docMoved
  <2> QED BY <1>1, <1>3
<1>5. targets \subseteq {target}
  <2> HIDE DEF docMoved
  <2> QED BY <1>2, <1>4
<1>6. Cardinality(targets) <= 1
  <2> HIDE DEF targets
  <2>1. targets = {} \/ targets = {target}
    BY <1>5
  <2>2. Cardinality({}) = 0 /\ Cardinality({target}) = 1
    BY FS_EmptySet, FS_Singleton
  <2>3. Cardinality(targets) = 0 \/ Cardinality(targets) = 1
    BY <2>1, <2>2, Zenon
  <2> QED BY <2>3
<1>7. \A i, j \in dirMoved : Under(dirs[i].path, dirs[j].path) => i = j
  BY <1>2
<1>8. \A x \in docMoved : ~Inside(x, dirMoved)
  <2> HIDE DEF docMoved, dirMoved
  <2> QED BY <1>2, <1>3 DEF Inside
<1> QED BY <1>6, <1>7, <1>8 DEF TransferKeepsShape

\* Nothing is transferred if parents, paths and the directories of documents stay.
LEMMA Still ==
  ASSUME KbInv, RowsInv', LiveDirs \subseteq DOMAIN dirs',
         \A i \in LiveDirs : dirs'[i].parent = dirs[i].parent /\ dirs'[i].path = dirs[i].path,
         \A x \in DOMAIN docs : docs'[x].dir = docs[x].dir
  PROVE  TransferKeepsShape
<1> DEFINE none == {}
<1>1. none \in SUBSET LiveDirs /\ none \in SUBSET DOMAIN docs /\ \A i : i \notin none
  OBVIOUS
<1> HIDE DEF none
<1> QED BY <1>1, Transfer

LEMMA MoveTransfers ==
  ASSUME KbInv, RowsInv', NEW target \in LiveDirs, NEW ds \in SUBSET LiveDirs,
         NEW xs \in SUBSET DOMAIN docs, Move(target, ds, xs)
  PROVE  TransferKeepsShape
<1>1. PICK going, rows, nested, single, dirPath, docPath, docDir :
        Moved(target, going, rows, nested, single, dirPath, docPath, docDir)
  BY MoveIs
<1>2. /\ DOMAIN dirs' = DOMAIN dirs
      /\ \A i \in DOMAIN dirs \ rows : dirs'[i] = dirs[i]
      /\ \A i \in rows \ going : dirs'[i].parent = dirs[i].parent
      /\ \A i \in going : dirs'[i].parent = target
      /\ \A i \in rows : Last(dirs'[i].path) = Last(dirs[i].path)
      /\ target \notin rows
  BY <1>1, MovedRows
<1>3. /\ \A x \in single : docs'[x].dir = docDir[x]
      /\ \A x \in DOMAIN docs \ single, i \in LiveDirs :
           dirs[i].path = docs[x].dir => dirs'[i].path = docs'[x].dir
  BY <1>1, MovedDocs
<1>4. /\ going \in SUBSET LiveDirs /\ single \in SUBSET DOMAIN docs
      /\ \A i, j \in going : Under(dirs[i].path, dirs[j].path) => i = j
      /\ \A x \in DOMAIN docs :
           x \in nested <=> \E j \in going : Under(docs[x].dir, dirs[j].path)
      /\ \A x \in single : x \notin nested /\ docDir[x] = dirs[target].path
  BY <1>1 DEF Moved
<1>5. \A i \in LiveDirs : i \in DOMAIN dirs
  BY DEF LiveDirs
<1>6. \A x \in single : target \in DOMAIN dirs' /\ dirs'[target].path = docs'[x].dir
  BY <1>2, <1>3, <1>4, <1>5
<1>7. \A x \in single, j \in going : ~Under(docs[x].dir, dirs[j].path)
  BY <1>4
<1>8. \A i \in LiveDirs : Last(dirs'[i].path) = Last(dirs[i].path)
  BY <1>2, <1>5
<1>9. \A i \in LiveDirs \ going : dirs'[i].parent = dirs[i].parent
  BY <1>2, <1>5
<1>10. \A x \in DOMAIN docs \ single, i \in LiveDirs :
         dirs[i].path = docs[x].dir => i \in DOMAIN dirs' /\ dirs'[i].path = docs'[x].dir
  BY <1>2, <1>3, <1>5
<1>11. \A i \in going : dirs'[i].parent = target
  BY <1>2
<1>12. \A i, j \in going : Under(dirs[i].path, dirs[j].path) => i = j
  BY <1>4
<1>13. going \in SUBSET LiveDirs /\ single \in SUBSET DOMAIN docs
  BY <1>4
<1> QED BY <1>6, <1>7, <1>8, <1>9, <1>10, <1>11, <1>12, <1>13, Transfer, ZenonT(30)

LEMMA MakeDirectoryTransfers ==
  ASSUME KbInv, MakeDirectory
  PROVE  TransferKeepsShape
<1>0. PICK p : p = Head(kbTodo).path
  OBVIOUS
<1>1. /\ kbTodo # <<>> /\ Head(kbTodo).do = "mkdir" /\ dirs' = Upserted(p) /\ docs' = docs
  BY <1>0 DEF MakeDirectory, Current
<1>2. 1 \in DOMAIN kbTodo /\ Head(kbTodo) = kbTodo[1] /\ Head(kbTodo) \in KbStep
  BY <1>1 DEF KbInv, KbTyped
<1>3. p \in Seq(Names) /\ (p = Root \/ LiveAt(Front(p)))
  <2>1. StepInv(1)
    BY <1>2 DEF KbInv
  <2> QED BY <1>0, <1>1, <1>2, <2>1, StepFields DEF StepInv
<1>4. /\ DOMAIN dirs \subseteq DOMAIN dirs' /\ RowsInv' /\ \A i \in LiveDirs : dirs'[i] = dirs[i]
  BY <1>1, <1>3, UpsertedIs DEF KbInv
<1>5. LiveDirs \subseteq DOMAIN dirs'
  BY <1>4 DEF LiveDirs
<1> QED BY <1>1, <1>4, <1>5, Still

\* A version of a document that is there stays in its directory.
LEMMA PutDocumentTransfers ==
  ASSUME KbInv, PutDocument, RowsInv', DOMAIN docs' = DOMAIN docs
  PROVE  TransferKeepsShape
<1> DEFINE h == Head(kbTodo)
           path == Append(h.dir, h.name)
<1>1. UNCHANGED dirs /\ kbTodo # <<>> /\ h.do = "put"
  BY PutDocumentIs DEF PutDocument, Current
<1>2. PICK x \in Nat, row \in DocRow :
        /\ docs' = [y \in DOMAIN docs \cup {x} |-> IF y # x THEN docs[y] ELSE row]
        /\ row.dir = h.dir /\ row.name = h.name /\ row.path = path
        /\ \/ /\ x \in DOMAIN docs /\ docs[x].path = path
              /\ row.labels = docs[x].labels \cup {path}
              /\ row.index = docs[x].index \cup {path}
           \/ /\ x \notin DOMAIN docs /\ DocsAt(path) = {}
              /\ row.labels = {path} /\ row.index = {path}
  BY PutDocumentIs
<1>3. x \in DOMAIN docs
  BY <1>2
<1>4. docs[x].path = path /\ docs[x].path = Append(docs[x].dir, docs[x].name)
  BY <1>2, <1>3 DEF KbInv, DocsInv
<1>5. /\ h.dir \in Seq(Names) /\ h.name \in Names
      /\ docs[x].dir \in Seq(Names) /\ docs[x].name \in Names
  <2>1. row.dir \in Seq(Names) /\ row.name \in FileNames
    BY <1>2 DEF DocRow
  <2> QED BY <1>2, <1>3, <2>1, DocIs, KnowledgeBaseAssumption DEF KbInv
<1>6. docs[x].dir = h.dir
  <2>1. Append(docs[x].dir, docs[x].name) = Append(h.dir, h.name)
    BY <1>4
  <2> HIDE DEF h, path
  <2> QED BY <1>5, <2>1, AppendSame
<1> HIDE DEF h, path
<1>7. \A y \in DOMAIN docs : docs'[y].dir = docs[y].dir
  BY <1>2, <1>6
<1> QED BY <1>1, <1>7, Still DEF LiveDirs

\* A document that is patched goes to the directory that was made for it.
LEMMA UpdateDocumentTransfers ==
  ASSUME KbInv, UpdateDocument, RowsInv'
  PROVE  TransferKeepsShape
<1> DEFINE h == Head(kbTodo)
<1>0. PICK x, dir : x = h.doc /\ dir = h.dir
  OBVIOUS
<1>1. kbTodo # <<>> /\ h.do = "update" /\ dirs' = dirs
  BY DEF UpdateDocument, Current
<1>2. 1 \in DOMAIN kbTodo /\ h = kbTodo[1]
  BY <1>1 DEF KbInv, KbTyped
<1>3. x \in DOMAIN docs /\ LiveAt(dir)
  <2>1. StepInv(1)
    BY <1>2 DEF KbInv
  <2> QED BY <1>0, <1>1, <1>2, <2>1 DEF StepInv
<1>4. /\ docs'[x].dir = dir
      /\ \A y \in DOMAIN docs : y # x => docs'[y] = docs[y]
  <2>1. /\ docs' = [docs EXCEPT ![x] = [[[docs[x] EXCEPT !.dir = dir] EXCEPT !.name = h.name]
                                          EXCEPT !.path = Append(dir, h.name)]]
        /\ docs[x] \in DocRow
    BY <1>0, <1>3, DocIs DEF UpdateDocument, KbInv, KbTyped
  <2> QED BY <1>3, <2>1 DEF DocRow
<1>5. PICK target \in LiveDirs : dirs[target].path = dir
  BY <1>3 DEF LiveAt
<1> DEFINE single == {x}
           none == {}
<1>6. /\ none \in SUBSET LiveDirs /\ single \in SUBSET DOMAIN docs /\ \A i : i \notin none
      /\ \A y : y \in single <=> y = x
  BY <1>3
<1> HIDE DEF h, single, none
<1>7. \A i \in LiveDirs : i \in DOMAIN dirs'
  BY <1>1 DEF LiveDirs
<1>8. \A y \in single : target \in DOMAIN dirs' /\ dirs'[target].path = docs'[y].dir
  BY <1>1, <1>4, <1>5, <1>6, <1>7
<1>9. \A y \in DOMAIN docs \ single, i \in LiveDirs :
        dirs[i].path = docs[y].dir => i \in DOMAIN dirs' /\ dirs'[i].path = docs'[y].dir
  BY <1>1, <1>4, <1>6, <1>7
<1> QED BY <1>1, <1>6, <1>8, <1>9, Transfer

LEMMA DocumentsStay ==
  ASSUME KbInv, SyncLabels \/ SyncIndex \/ DeleteAssets, RowsInv'
  PROVE  TransferKeepsShape
<1>0. PICK x : x = Head(kbTodo).doc
  OBVIOUS
<1>1. dirs' = dirs
  BY DEF SyncLabels, SyncIndex, DeleteAssets
<1>2. \A y \in DOMAIN docs : docs'[y].dir = docs[y].dir
  <2> SUFFICES ASSUME NEW y \in DOMAIN docs PROVE docs'[y].dir = docs[y].dir
    OBVIOUS
  <2>1. docs[y] \in DocRow /\ docs \in [DOMAIN docs -> DocRow]
    BY DocIs DEF KbInv, KbTyped
  <2>2. CASE SyncLabels
    BY <2>1, <2>2 DEF SyncLabels, DocRow
  <2>3. CASE SyncIndex
    BY <2>1, <2>3 DEF SyncIndex, DocRow
  <2>4. CASE DeleteAssets
    BY <2>1, <2>4 DEF DeleteAssets, DocRow
  <2> QED BY <2>2, <2>3, <2>4
<1> QED BY <1>1, <1>2, Still DEF LiveDirs

LEMMA DeletionTransfers ==
  ASSUME KbInv, RowsInv', DOMAIN docs' = DOMAIN docs,
         DeleteRows \/ \E ds \in SUBSET LiveDirs, xs \in SUBSET DOMAIN docs : Delete(ds, xs)
  PROVE  TransferKeepsShape
<1>1. /\ DOMAIN dirs' = DOMAIN dirs
      /\ \A i \in DOMAIN dirs : /\ dirs'[i].parent = dirs[i].parent
                                /\ dirs'[i].path = dirs[i].path
  <2>1. \A i \in DOMAIN dirs : dirs[i] \in DirRow
    BY RowIs DEF KbInv
  <2>2. CASE DeleteRows
    <3>1. PICK is : dirs' = [i \in DOMAIN dirs |-> [dirs[i] EXCEPT !.live = @ /\ i \notin is]]
      BY <2>2 DEF DeleteRows
    <3> QED BY <2>1, <3>1 DEF DirRow
  <2>3. ASSUME NEW ds \in SUBSET LiveDirs, NEW xs \in SUBSET DOMAIN docs, Delete(ds, xs)
        PROVE  /\ DOMAIN dirs' = DOMAIN dirs
               /\ \A i \in DOMAIN dirs : /\ dirs'[i].parent = dirs[i].parent
                                         /\ dirs'[i].path = dirs[i].path
    <3>1. \/ dirs' = dirs
          \/ \E is : dirs' = [i \in DOMAIN dirs |-> [dirs[i] EXCEPT !.live = @ /\ i \notin is]]
      BY <2>3 DEF Delete, DeleteWorkspaceEntries, DeleteLibraryEntries
    <3> QED BY <2>1, <3>1 DEF DirRow
  <2> QED BY <2>2, <2>3
<1>2. \A x \in DOMAIN docs : docs'[x].dir = docs[x].dir
  BY DEF DeleteRows, Delete
<1>3. LiveDirs \subseteq DOMAIN dirs
  BY DEF LiveDirs
<1> QED BY <1>1, <1>2, <1>3, Still

\* A directory that is created is not in use before.
LEMMA CreateDirectoryAdds ==
  ASSUME KbInv, NEW parent \in DOMAIN dirs, NEW name \in Names,
         CreateDirectory(parent, name)
  PROVE  LiveDirs' # LiveDirs
<1>0. PICK p : p = Append(dirs[parent].path, name)
  OBVIOUS
<1>1. parent \in LiveDirs /\ dirs' = Upserted(p) /\ RowsAt(p) \cap LiveDirs = {}
  BY <1>0 DEF CreateDirectory
<1>2. p \in Seq(Names) /\ Front(p) = dirs[parent].path
  BY <1>0, RowIs, AppendIs DEF KbInv
<1>3. LiveAt(Front(p))
  BY <1>1, <1>2 DEF LiveAt
<1>4. LiveAt(p)' /\ \A i \in LiveDirs : dirs'[i] = dirs[i]
  BY <1>1, <1>2, <1>3, UpsertedIs DEF KbInv
<1>5. PICK i \in LiveDirs' : dirs'[i].path = p
  BY <1>4 DEF LiveAt
<1>6. \A j \in LiveDirs : dirs[j].path # p
  BY <1>1 DEF RowsAt, LiveDirs
<1> QED BY <1>4, <1>5, <1>6

LEMMA KbNextTransfers ==
  ASSUME KbInv, KbInv', KbNext, LiveDirs' = LiveDirs, DOMAIN docs' = DOMAIN docs
  PROVE  TransferKeepsShape
<1>0. RowsInv'
  BY DEF KbInv
<1>1. ASSUME NEW i \in DOMAIN dirs, NEW n \in Names, CreateDirectory(i, n)
      PROVE  TransferKeepsShape
  BY <1>1, CreateDirectoryAdds
<1>2. CASE \/ \E p \in Paths, n \in FileNames, b \in Blobs : Upload(p, n, b)
           \/ \E x \in DOMAIN docs, p \in Paths, n \in FileNames : Patch(x, p, n)
           \/ Crash
  <2>1. dirs' = dirs /\ docs' = docs
    BY <1>2 DEF Upload, Patch, Crash
  <2> QED BY <1>0, <2>1, Still DEF LiveDirs
<1>3. ASSUME NEW i \in LiveDirs, NEW ds \in SUBSET LiveDirs, NEW xs \in SUBSET DOMAIN docs,
             Move(i, ds, xs)
      PROVE  TransferKeepsShape
  BY <1>0, <1>3, MoveTransfers
<1>4. ASSUME NEW ds \in SUBSET LiveDirs, NEW xs \in SUBSET DOMAIN docs, Delete(ds, xs)
      PROVE  TransferKeepsShape
  BY <1>0, <1>4, DeletionTransfers
<1>5. CASE Steps
  BY <1>0, <1>5, MakeDirectoryTransfers, PutDocumentTransfers, UpdateDocumentTransfers,
     DocumentsStay, DeletionTransfers DEF Steps
<1> QED BY <1>1, <1>2, <1>3, <1>4, <1>5 DEF KbNext

\* A step that adds and removes no entry transfers entries to one directory, none from
\* below another that goes, and renames no directory.
THEOREM MovesKeepShape == KbSpec => MoveKeepsShape
<1>1. KbInv /\ KbInv' /\ [KbNext /\ KbBounded]_kbVars =>
        [(LiveDirs' = LiveDirs /\ DOMAIN docs' = DOMAIN docs) => TransferKeepsShape]_kbVars
  BY KbNextTransfers
<1> QED BY <1>1, KbInvHolds, PTL DEF KbSpec, MoveKeepsShape

-----------------------------------------------------------------------------
(* The explorer page (LibraryPage).                                        *)

\* A request under way that begins with anything but a deletion deletes nothing.
LEMMA NoDeletion ==
  ASSUME KbInv', 1 \in DOMAIN kbTodo', kbTodo'[1].do \notin {"assets", "delete"}
  PROVE  \A k \in DOMAIN kbTodo' : kbTodo'[k].do # "delete"
BY DEF KbInv, StepInv

LEMMA RootStays ==
  ASSUME RootKept, UNCHANGED <<kbScope, dirs>>,
         \A k \in DOMAIN kbTodo' : kbTodo'[k].do = "delete" => kbTodo'[k].dirs = {}
  PROVE  RootKept'
BY DEF RootKept, LiveAt, LiveDirs

\* No request marks the root.
LEMMA CreateDirectoryKeepsRoot ==
  ASSUME KbInv, RootKept, NEW i \in DOMAIN dirs, NEW n \in Names, CreateDirectory(i, n)
  PROVE  KbInv' /\ RootKept'
<1>1. PICK p : p = Append(dirs[i].path, n)
  OBVIOUS
<1>2. /\ kbTodo = <<>> /\ i \in LiveDirs /\ dirs' = Upserted(p)
      /\ UNCHANGED <<kbScope, kbTodo>>
  BY <1>1 DEF CreateDirectory, Begins, AtRest
<1>3. dirs[i].path \in Seq(Names)
  BY RowIs DEF KbInv
<1>4. p \in Seq(Names) /\ Front(p) = dirs[i].path
  BY <1>1, <1>3, AppendIs
<1>5. LiveAt(Front(p))
  BY <1>2, <1>4 DEF LiveAt
<1>6. \A path : LiveAt(path) => LiveAt(path)'
  BY <1>2, <1>4, <1>5, UpsertedIs DEF KbInv
<1>7. RootKept'
  BY <1>2, <1>6 DEF RootKept, Root
<1> QED BY <1>7, CreateDirectoryKeeps

LEMMA UploadKeepsRoot ==
  ASSUME KbInv, RootKept, NEW p \in Seq(Names), NEW n \in FileNames, NEW b \in Blobs,
         Upload(p, n, b)
  PROVE  KbInv' /\ RootKept'
<1>1. KbInv'
  BY UploadKeeps
<1>2. PICK put : put \in KbStep /\ kbTodo' = Append(Ensure(p), put)
  <2>1. [do |-> "put", dir |-> p, name |-> n, blob |-> b] \in KbStep
    BY StepKinds
  <2> QED BY <2>1 DEF Upload
<1>3. 1 \in DOMAIN kbTodo' /\ kbTodo'[1] = Ensure(p)[1] /\ Ensure(p)[1].do = "mkdir"
  <2>1. /\ Len(p) \in Nat /\ Ensure(p) \in Seq(KbStep) /\ Len(Ensure(p)) = Len(p) + 1
        /\ \A k \in 1 .. Len(p) + 1 : Ensure(p)[k].do = "mkdir"
    BY EnsureIs
  <2> QED BY <1>2, <2>1
<1>4. \A k \in DOMAIN kbTodo' : kbTodo'[k].do # "delete"
  BY <1>1, <1>3, NoDeletion
<1> QED BY <1>1, <1>4, RootStays DEF Upload

LEMMA PatchKeepsRoot ==
  ASSUME KbInv, RootKept, NEW x \in DOMAIN docs, NEW p \in Seq(Names),
         NEW n \in FileNames, Patch(x, p, n)
  PROVE  KbInv' /\ RootKept'
<1>1. KbInv'
  BY PatchKeeps
<1>2. PICK up, a, b : /\ up \in KbStep /\ a \in KbStep /\ b \in KbStep
                      /\ kbTodo' = Append(Ensure(p), up) \o <<a, b>>
  <2>1. x \in Nat /\ Append(p, n) \in Seq(Names)
    BY DocIs, AppendIs, KnowledgeBaseAssumption DEF KbInv
  <2>2. /\ [do |-> "update", doc |-> x, dir |-> p, name |-> n] \in KbStep
        /\ [do |-> "labels", doc |-> x, path |-> Append(p, n)] \in KbStep
        /\ [do |-> "index", doc |-> x] \in KbStep
    BY <2>1, StepKinds
  <2> QED BY <2>2 DEF Patch, Resync
<1>3. 1 \in DOMAIN kbTodo' /\ kbTodo'[1] = Ensure(p)[1] /\ Ensure(p)[1].do = "mkdir"
  <2>1. /\ Len(p) \in Nat /\ Ensure(p) \in Seq(KbStep) /\ Len(Ensure(p)) = Len(p) + 1
        /\ \A k \in 1 .. Len(p) + 1 : Ensure(p)[k].do = "mkdir"
    BY EnsureIs
  <2>2. /\ Append(Ensure(p), up) \in Seq(KbStep)
        /\ Len(Append(Ensure(p), up)) = Len(p) + 2
        /\ Append(Ensure(p), up)[1] = Ensure(p)[1]
    BY <1>2, <2>1
  <2> QED BY <1>2, <2>1, <2>2
<1>4. \A k \in DOMAIN kbTodo' : kbTodo'[k].do # "delete"
  BY <1>1, <1>3, NoDeletion
<1> QED BY <1>1, <1>4, RootStays DEF Patch

LEMMA MoveKeepsRoot ==
  ASSUME KbInv, RootKept, NEW target \in LiveDirs, NEW ds \in SUBSET LiveDirs,
         NEW xs \in SUBSET DOMAIN docs, Move(target, ds, xs)
  PROVE  KbInv' /\ RootKept'
<1>1. PICK going, rows, nested, single, dirPath, docPath, docDir :
        Moved(target, going, rows, nested, single, dirPath, docPath, docDir)
  BY MoveIs
<1>2. /\ DOMAIN dirs' = DOMAIN dirs /\ LiveDirs' = LiveDirs
      /\ \A i \in DOMAIN dirs \ rows : dirs'[i] = dirs[i]
      /\ \A i \in rows : dirs[i].path # Root
  BY <1>1, MovedRows
<1>3. \A k \in DOMAIN kbTodo' : kbTodo'[k].do # "delete"
  BY <1>1, MovedTodo
<1>4. PICK i \in LiveDirs : dirs[i].path = Root
  BY DEF RootKept, LiveAt
<1>5. i \in LiveDirs' /\ dirs'[i].path = Root
  BY <1>2, <1>4 DEF LiveDirs
<1>6. RootKept'
  BY <1>1, <1>3, <1>5 DEF RootKept, LiveAt, Moved, Root
<1> QED BY <1>6, MoveKeeps

\* Nor does what a request has left to do, or what breaks it off.
LEMMA StepKeepsRoot ==
  ASSUME KbInv, RootKept, Steps \/ Crash
  PROVE  KbInv' /\ RootKept'
<1>1. KbInv'
  BY MakeDirectoryKeeps, PutDocumentKeeps, UpdateDocumentKeeps, SyncLabelsKeeps,
     SyncIndexKeeps, DeleteAssetsKeeps, DeleteRowsKeeps, CrashKeeps DEF Steps
<1>2. CASE Crash
  <2>1. kbTodo' = <<>> /\ UNCHANGED <<kbScope, dirs>>
    BY <1>2 DEF Crash
  <2>2. DOMAIN kbTodo' = {}
    BY <2>1
  <2> QED BY <1>1, <2>1, <2>2, RootStays
<1>3. CASE Steps
  <2>1. kbTodo # <<>> /\ kbTodo' = Tail(kbTodo) /\ UNCHANGED kbScope
    BY <1>3 DEF Steps, MakeDirectory, PutDocument, UpdateDocument, SyncLabels, SyncIndex,
       DeleteAssets, DeleteRows, Current, Advance
  <2>2. /\ Len(kbTodo) \in Nat \ {0} /\ Head(kbTodo) = kbTodo[1]
        /\ DOMAIN kbTodo = 1 .. Len(kbTodo) /\ DOMAIN kbTodo' = 1 .. Len(kbTodo) - 1
        /\ \A k \in 1 .. Len(kbTodo) : kbTodo[k] \in KbStep
        /\ \A k \in 1 .. Len(kbTodo) - 1 : kbTodo'[k] = kbTodo[k + 1]
    BY <2>1, Advanced DEF KbInv
  <2>3. \A k \in DOMAIN kbTodo' : kbTodo'[k].do = "delete" => kbTodo'[k].dirs = {}
    <3> SUFFICES ASSUME NEW k \in DOMAIN kbTodo', kbTodo'[k].do = "delete"
                 PROVE  kbTodo'[k].dirs = {}
      OBVIOUS
    <3>1. k + 1 \in DOMAIN kbTodo /\ kbTodo'[k] = kbTodo[k + 1]
      BY <2>2
    <3> QED BY <3>1 DEF RootKept
  <2>4. CASE MakeDirectory
    <3>1. PICK p : p = Head(kbTodo).path
      OBVIOUS
    <3>2. dirs' = Upserted(p) /\ Head(kbTodo).do = "mkdir"
      BY <2>4, <3>1 DEF MakeDirectory, Current
    <3>3. StepInv(1) /\ kbTodo[1] \in KbStep
      BY <2>2 DEF KbInv
    <3>4. p \in Seq(Names) /\ (p = Root \/ LiveAt(Front(p)))
      BY <2>2, <3>1, <3>2, <3>3, StepFields DEF StepInv
    <3>5. \A path : LiveAt(path) => LiveAt(path)'
      BY <3>2, <3>4, UpsertedIs DEF KbInv
    <3>6. RootKept'
      BY <2>1, <2>3, <3>5 DEF RootKept, Root
    <3> QED BY <1>1, <3>6
  <2>5. CASE DeleteRows
    <3>1. PICK h : h = Head(kbTodo)
      OBVIOUS
    <3>2. /\ h.do = "delete"
          /\ dirs' = [i \in DOMAIN dirs |-> [dirs[i] EXCEPT !.live = @ /\ i \notin h.dirs]]
      BY <2>5, <3>1 DEF DeleteRows, Current
    <3>3. h.dirs = {}
      BY <2>2, <3>1, <3>2 DEF RootKept
    <3>4. dirs \in Seq(DirRow)
      BY DEF KbInv, KbTyped
    <3>5. PICK i \in LiveDirs : dirs[i].path = Root
      BY DEF RootKept, LiveAt
    <3>6. dirs'[i].path = Root /\ dirs'[i].live /\ i \in DOMAIN dirs'
      <4>1. i \in DOMAIN dirs /\ dirs[i] \in DirRow /\ dirs[i].live
        BY <3>4, <3>5, RowIs DEF LiveDirs, KbInv
      <4> QED BY <3>2, <3>3, <3>5, <4>1 DEF DirRow
    <3>7. RootKept'
      BY <2>1, <2>3, <3>6 DEF RootKept, LiveAt, LiveDirs, Root
    <3> QED BY <1>1, <3>7
  <2>6. CASE PutDocument \/ UpdateDocument \/ SyncLabels \/ SyncIndex \/ DeleteAssets
    <3>1. UNCHANGED dirs
      BY <2>6 DEF PutDocument, UpdateDocument, SyncLabels, SyncIndex, DeleteAssets
    <3> QED BY <1>1, <2>1, <2>3, <3>1, RootStays
  <2> QED BY <1>3, <2>4, <2>5, <2>6 DEF Steps
<1> QED BY <1>2, <1>3

LEMMA StutterKeepsRoot ==
  ASSUME KbInv, RootKept, UNCHANGED kbVars
  PROVE  KbInv' /\ RootKept'
<1>1. KbInv'
  BY StutterKeeps
<1>2. RootKept'
  BY RootStays DEF kbVars, RootKept
<1> QED BY <1>1, <1>2

LEMMA KbNextKeepsRoot ==
  ASSUME KbInv, RootKept, KbNext
  PROVE  KbInv' /\ RootKept'
<1>1. ASSUME NEW i \in DOMAIN dirs, NEW n \in Names, CreateDirectory(i, n)
      PROVE  KbInv' /\ RootKept'
  BY <1>1, CreateDirectoryKeepsRoot
<1>2. ASSUME NEW p \in Paths, NEW n \in FileNames, NEW b \in Blobs, Upload(p, n, b)
      PROVE  KbInv' /\ RootKept'
  BY <1>2, PathIsSeq, UploadKeepsRoot
<1>3. ASSUME NEW x \in DOMAIN docs, NEW p \in Paths, NEW n \in FileNames, Patch(x, p, n)
      PROVE  KbInv' /\ RootKept'
  BY <1>3, PathIsSeq, PatchKeepsRoot
<1>4. ASSUME NEW i \in LiveDirs, NEW ds \in SUBSET LiveDirs, NEW xs \in SUBSET DOMAIN docs,
             Move(i, ds, xs)
      PROVE  KbInv' /\ RootKept'
  BY <1>4, MoveKeepsRoot
<1>5. ASSUME NEW ds \in SUBSET LiveDirs, NEW xs \in SUBSET DOMAIN docs, Delete(ds, xs)
      PROVE  KbInv' /\ RootKept'
  BY <1>5, DeleteKeeps
<1>6. CASE Steps \/ Crash
  BY <1>6, StepKeepsRoot
<1> QED BY <1>1, <1>2, <1>3, <1>4, <1>5, <1>6 DEF KbNext

LEMMA LibraryInit_KbInv ==
  ASSUME LibraryInit
  PROVE  KbInv /\ RootKept
<1>0. PICK top \in Names, below \in Names, name \in FileNames, blob \in Blobs :
        LET dir(path, parent) == [path |-> path, parent |-> parent, live |-> TRUE]
            inner == <<top, below>>
        IN /\ top # below /\ kbScope = "private" /\ blobs = {blob}
           /\ dirs = <<dir(Root, 0), dir(<<top>>, 1), dir(inner, 2)>>
           /\ \E at \in {<<top>>, inner} :
                LET path == Append(at, name)
                IN docs = <<[dir |-> at, name |-> name, path |-> path, blobs |-> blobs,
                             labels |-> {path}, index |-> {path}]>>
           /\ kbTodo = <<>> /\ interrupted = "nothing" /\ requests = 0
  BY Zenon DEF LibraryInit
<1>1. /\ kbScope = "private" /\ blobs = {blob}
      /\ dirs = <<[path |-> Root, parent |-> 0, live |-> TRUE],
                  [path |-> <<top>>, parent |-> 1, live |-> TRUE],
                  [path |-> <<top, below>>, parent |-> 2, live |-> TRUE]>>
      /\ \E at \in {<<top>>, <<top, below>>} :
           docs = <<[dir |-> at, name |-> name, path |-> Append(at, name),
                     blobs |-> blobs, labels |-> {Append(at, name)},
                     index |-> {Append(at, name)}]>>
      /\ kbTodo = <<>> /\ interrupted = "nothing" /\ requests = 0
  BY <1>0
<1>2. PICK one, two : one = <<top>> /\ two = <<top, below>>
  OBVIOUS
<1>3. /\ one \in Seq(Names) /\ two \in Seq(Names) /\ Root \in Seq(Names)
      /\ Len(one) = 1 /\ Len(two) = 2 /\ Len(Root) = 0
      /\ one # Root /\ two # Root /\ one # two
  BY <1>2 DEF Root
<1>4. Front(one) = Root /\ Front(two) = one
  <2>1. /\ Front(one) \in Seq(Names) /\ Len(Front(one)) = Len(one) - 1
        /\ Front(two) \in Seq(Names) /\ Len(Front(two)) = Len(two) - 1
        /\ \A i \in 1 .. Len(two) - 1 : Front(two)[i] = two[i]
    BY <1>3, FrontIs, Zenon DEF Root
  <2>2. two[1] = one[1]
    BY <1>2
  <2>3. /\ Len(Front(one)) = Len(Root) /\ Len(Front(two)) = Len(one)
        /\ \A i \in 1 .. Len(Front(one)) : FALSE
        /\ \A i \in 1 .. Len(Front(two)) : Front(two)[i] = one[i]
    BY <1>3, <2>1, <2>2
  <2> QED BY <1>3, <2>1, <2>3, PathsEqual
<1>5. /\ dirs \in Seq(DirRow) /\ DOMAIN dirs = {1, 2, 3} /\ Len(dirs) = 3
      /\ dirs[1].path = Root /\ dirs[1].parent = 0 /\ dirs[1].live = TRUE
      /\ dirs[2].path = one /\ dirs[2].parent = 1 /\ dirs[2].live = TRUE
      /\ dirs[3].path = two /\ dirs[3].parent = 2 /\ dirs[3].live = TRUE
  <2>1. PICK r, s, t :
          /\ r = [path |-> Root, parent |-> 0, live |-> TRUE]
          /\ s = [path |-> one, parent |-> 1, live |-> TRUE]
          /\ t = [path |-> two, parent |-> 2, live |-> TRUE]
    OBVIOUS
  <2>2. r \in DirRow /\ s \in DirRow /\ t \in DirRow
    BY <1>3, <2>1 DEF DirRow
  <2>3. dirs = <<r, s, t>>
    BY <1>1, <1>2, <2>1
  <2>4. /\ dirs \in Seq(DirRow) /\ DOMAIN dirs = {1, 2, 3} /\ Len(dirs) = 3
        /\ dirs[1] = r /\ dirs[2] = s /\ dirs[3] = t
    BY <2>2, <2>3
  <2> QED BY <2>1, <2>4
<1>6. PICK at, path :
        /\ at \in {one, two} /\ path = Append(at, name)
        /\ docs = <<[dir |-> at, name |-> name, path |-> path, blobs |-> blobs,
                     labels |-> {path}, index |-> {path}]>>
  BY <1>1, <1>2
<1>7. path \in Seq(Names) /\ at \in Seq(Names) /\ name \in Names
  BY <1>3, <1>6, AppendIs, KnowledgeBaseAssumption
<1>8. /\ DOMAIN docs = {1} /\ docs[1] \in DocRow /\ docs[1].dir = at /\ docs[1].name = name
      /\ docs[1].path = path /\ docs[1].labels = {path} /\ docs[1].index = {path}
  <2>1. PICK d : d = [dir |-> at, name |-> name, path |-> path, blobs |-> blobs,
                      labels |-> {path}, index |-> {path}]
    OBVIOUS
  <2>2. d \in DocRow
    BY <1>1, <1>7, <2>1 DEF DocRow
  <2>3. docs = <<d>>
    BY <1>6, <2>1
  <2>4. DOMAIN docs = {1} /\ docs[1] = d
    BY <2>3
  <2> QED BY <2>1, <2>2, <2>4
<1>9. docs \in [DOMAIN docs -> DocRow] /\ IsFiniteSet(DOMAIN docs) /\ DOMAIN docs \subseteq Nat
  <2>1. PICK d : docs = <<d>>
    BY <1>6
  <2>2. <<d>> \in Seq({d}) /\ Len(<<d>>) = 1
    OBVIOUS
  <2>3. docs \in [1 .. 1 -> {d}]
    BY <2>1, <2>2
  <2>4. docs \in [{1} -> DocRow]
    BY <1>8, <2>3
  <2>5. IsFiniteSet({1})
    BY FS_Singleton
  <2> QED BY <1>8, <2>4, <2>5
<1>10. kbTodo \in Seq(KbStep) /\ DOMAIN kbTodo = {}
  BY <1>1
<1>11. KbTyped
  BY <1>1, <1>5, <1>9, <1>10, KnowledgeBaseAssumption DEF KbTyped
<1>12. LiveDirs = {1, 2, 3}
  BY <1>5 DEF LiveDirs
<1>13. RowsInv
  BY <1>3, <1>4, <1>5, <1>12 DEF RowsInv
<1>14. DocsInv
  <2>1. LiveAt(at)
    BY <1>5, <1>6, <1>12 DEF LiveAt
  <2> QED BY <1>6, <1>8, <2>1 DEF DocsInv
<1>15. KbInv
  BY <1>8, <1>10, <1>11, <1>13, <1>14 DEF KbInv, FollowsInv
<1>16. RootKept
  BY <1>1, <1>5, <1>10, <1>12 DEF RootKept, LiveAt
<1> QED BY <1>15, <1>16

\* The directory a page shows is the one of its listing, but while it waits for
\* another one, or when it stayed where nothing is any more; paths are paths.
PageTyped(page) ==
  page.place.path \in Seq(Names) /\ \A d \in page.rows.dirs : d.path \in Seq(Names)
PageInv ==
  /\ place.path \in Seq(Names) /\ PageTyped(listing)
  /\ fetch.pc = "rendered" => PageTyped(fetch.page)
  /\ fetch.pc = "none" /\ ~strayed => place = listing.place

\* The directory at a path, or the root.
LEMMA PlaceAtIs ==
  ASSUME KbInv, RootKept, NEW path
  PROVE  /\ PlaceAt(path).dir \in LiveDirs
         /\ dirs[PlaceAt(path).dir].path = PlaceAt(path).path
         /\ PlaceAt(path).path \in Seq(Names)
<1>1. PICK at : at = PlaceAt(path).path /\ PlaceAt(path) = [path |-> at, dir |-> RowAt(at)]
                /\ (IF RowsAt(path) \cap LiveDirs # {} THEN at = path ELSE at = Root)
  BY DEF PlaceAt
<1>2. PICK i \in LiveDirs : dirs[i].path = at
  BY <1>1 DEF RowsAt, RootKept, LiveAt
<1>3. i \in DOMAIN dirs
  BY DEF LiveDirs
<1>4. RowAt(dirs[i].path) = i /\ dirs[i].path \in Seq(Names)
  BY <1>3, RowAtIs, RowIs DEF KbInv
<1> QED BY <1>1, <1>2, <1>4

LEMMA RenderedIs ==
  ASSUME KbInv, RootKept, NEW path
  PROVE  PageTyped(Rendered(path))
<1>1. /\ Rendered(path).place = PlaceAt(path) /\ Rendered(path).rows = Library
  BY DEF Rendered
<1>2. ASSUME NEW d \in Library.dirs PROVE d.path \in Seq(Names)
  <2>1. PICK i \in LiveDirs : d.path = dirs[i].path
    BY <1>2 DEF Library
  <2> QED BY <2>1, RowIs DEF KbInv, LiveDirs
<1> QED BY <1>1, <1>2, PlaceAtIs DEF PageTyped

LEMMA PageStart_PageInv ==
  ASSUME KbInv, RootKept, PageStart
  PROVE  PageInv
<1>1. PageTyped(Rendered(Root)) /\ PlaceAt(Root).path \in Seq(Names)
  BY RenderedIs, PlaceAtIs
<1>2. Rendered(Root).place = PlaceAt(Root)
  BY DEF Rendered
<1> QED BY <1>1, <1>2 DEF PageStart, PageInv, NoFetch

LEMMA PageStands ==
  ASSUME PageInv, UNCHANGED <<listing, place, strayed>>,
         UNCHANGED fetch \/ fetch'.pc = "asked"
  PROVE  PageInv'
BY DEF PageInv, PageTyped

\* What the page does by itself: it asks, is rendered and goes where the server says.
LEMMA RenderingKeeps ==
  ASSUME KbInv, RootKept, PageInv, Poll \/ Render \/ Receive
  PROVE  KbInv' /\ RootKept' /\ PageInv'
<1>1. UNCHANGED kbVars
  BY DEF Poll, Render, Receive
<1>2. KbInv' /\ RootKept'
  BY <1>1, StutterKeepsRoot
<1>3. CASE Poll
  BY <1>2, <1>3, PageStands DEF Poll, Asked
<1>4. CASE Render
  <2>1. /\ UNCHANGED <<listing, place, strayed>> /\ fetch'.pc = "rendered"
        /\ fetch'.page = Rendered(fetch.path)
    BY <1>4 DEF Render
  <2>2. PageTyped(Rendered(fetch.path))
    BY RenderedIs
  <2> QED BY <1>2, <2>1, <2>2 DEF PageInv, PageTyped
<1>5. CASE Receive
  <2>1. PICK page : page = fetch.page
    OBVIOUS
  <2>2. /\ fetch.pc = "rendered" /\ listing' = page /\ fetch' = NoFetch
        /\ place' = IF page.place = listing.place THEN place ELSE page.place
        /\ strayed' = IF page.place # listing.place THEN FALSE
                      ELSE strayed \/ page.place # place
    BY <1>5, <2>1 DEF Receive, Follow
  <2>3. PageTyped(page) /\ place.path \in Seq(Names)
    BY <2>1, <2>2 DEF PageInv
  <2> QED BY <1>2, <2>2, <2>3 DEF PageInv, PageTyped, NoFetch
<1> QED BY <1>3, <1>4, <1>5

\* What the user does.
LEMMA UserKeeps ==
  ASSUME KbInv, RootKept, PageInv, TableNext \/ ToolbarNext \/ DialogsNext
  PROVE  KbInv' /\ RootKept' /\ PageInv'
<1>1. CASE \E n \in FileNames, b \in Blobs : UploadHere(n, b)
  <2>1. PICK n \in FileNames, b \in Blobs : UploadHere(n, b)
    BY <1>1
  <2>2. Upload(place.path, n, b) /\ UNCHANGED <<listing, fetch, place, strayed>>
    BY <2>1 DEF UploadHere
  <2>3. KbInv' /\ RootKept'
    BY <2>2, UploadKeepsRoot DEF PageInv
  <2> QED BY <2>2, <2>3, PageStands
<1>2. CASE \E d \in listing.rows.dirs : OpenDirectory(d)
  <2>1. PICK d \in listing.rows.dirs : OpenDirectory(d)
    BY <1>2
  <2>2. /\ place'.path = d.path /\ fetch'.pc = "asked" /\ UNCHANGED <<kbVars, listing>>
    BY <2>1 DEF OpenDirectory, Asked
  <2>3. d.path \in Seq(Names)
    BY <2>1 DEF PageInv, PageTyped
  <2> QED BY <2>2, <2>3, StutterKeepsRoot DEF PageInv, PageTyped
<1>3. CASE UNCHANGED <<kbVars, listing, fetch, place, strayed>>
  <2>1. KbInv' /\ RootKept'
    BY <1>3, StutterKeepsRoot
  <2> QED BY <1>3, <2>1, PageStands
<1>4. ASSUME ToolbarNext PROVE UNCHANGED <<kbVars, listing, fetch, place, strayed>>
  BY <1>4 DEF ToolbarNext, MarkAll, OpenMove, Search, DeleteSelection, DownloadSelection,
     Confirms
<1>5. ASSUME \E row \in Shown : Mark(row) \/ Grab(row)
      PROVE  UNCHANGED <<kbVars, listing, fetch, place, strayed>>
  BY <1>5 DEF Mark, Grab
<1>6. ASSUME NEW k \in Calls, NEW row, Drop(k, row)
      PROVE  UNCHANGED <<kbVars, listing, fetch, place, strayed>>
  BY <1>6 DEF Drop
<1>7. ASSUME CloseMove \/ \E d \in listing.rows.dirs : PickTarget(d)
      PROVE  UNCHANGED <<kbVars, listing, fetch, place, strayed>>
  BY <1>7 DEF CloseMove, PickTarget
<1>8. ASSUME NEW k \in Calls,
             MoveSelection(k) \/ NewDirectory(k) \/ \E x \in listing.rows.docs : DeleteTask(k, x)
      PROVE  UNCHANGED <<kbVars, listing, fetch, place, strayed>>
  BY <1>8 DEF MoveSelection, NewDirectory, DeleteTask, Confirms
<1>9. CASE TableNext
  BY <1>2, <1>3, <1>5, <1>6, <1>9 DEF TableNext
<1>10. CASE DialogsNext
  BY <1>1, <1>3, <1>7, <1>8, <1>10 DEF DialogsNext
<1> QED BY <1>3, <1>4, <1>9, <1>10

\* What becomes of a request.
LEMMA RequestsKeep ==
  ASSUME KbInv, RootKept, PageInv, NEW k \in Calls, Serve(k) \/ Succeed(k) \/ Fail(k)
  PROVE  KbInv' /\ RootKept' /\ PageInv'
<1>1. CASE Serve(k)
  <2>1. PICK ds, xs, target :
          /\ ds \in SUBSET LiveDirs /\ xs \in SUBSET DOMAIN docs
          /\ \/ Move(target, ds, xs) \/ Delete(ds, xs)
             \/ \E n \in Names : CreateDirectory(target, n)
             \/ UNCHANGED kbVars
    BY <1>1 DEF Serve
  <2>2. UNCHANGED <<listing, fetch, place, strayed>>
    BY <1>1 DEF Serve
  <2>3. ASSUME Move(target, ds, xs) PROVE KbInv' /\ RootKept'
    <3>1. target \in LiveDirs
      BY <2>3 DEF Move
    <3> QED BY <2>1, <2>3, <3>1, MoveKeepsRoot
  <2>4. ASSUME Delete(ds, xs) PROVE KbInv' /\ RootKept'
    BY <2>1, <2>4, DeleteKeeps
  <2>5. ASSUME NEW n \in Names, CreateDirectory(target, n) PROVE KbInv' /\ RootKept'
    <3>1. target \in DOMAIN dirs
      BY <2>5 DEF CreateDirectory, LiveDirs
    <3> QED BY <2>5, <3>1, CreateDirectoryKeepsRoot
  <2>6. KbInv' /\ RootKept'
    BY <2>1, <2>3, <2>4, <2>5, StutterKeepsRoot
  <2> QED BY <2>2, <2>6, PageStands
<1>2. CASE Succeed(k)
  <2>1. UNCHANGED <<kbVars, listing, place, strayed>>
    BY <1>2 DEF Succeed
  <2>2. UNCHANGED fetch \/ fetch'.pc = "asked"
    BY <1>2 DEF Succeed, Refreshed, Asked
  <2> QED BY <2>1, <2>2, PageStands, StutterKeepsRoot
<1>3. CASE Fail(k)
  <2>1. UNCHANGED <<kbVars, listing, fetch, place, strayed>>
    BY <1>3 DEF Fail
  <2> QED BY <2>1, PageStands, StutterKeepsRoot
<1> QED BY <1>1, <1>2, <1>3

LEMMA PageInvHolds == LibraryPageSpec => [](KbInv /\ RootKept /\ PageInv)
<1>1. LibraryInit /\ PageStart => KbInv /\ RootKept /\ PageInv
  BY LibraryInit_KbInv, PageStart_PageInv
<1>2. ASSUME KbInv, RootKept, PageInv, [LibraryPageNext /\ KbBounded]_<<kbVars, pageVars>>
      PROVE  KbInv' /\ RootKept' /\ PageInv'
  <2>1. CASE PageNext
    BY <1>2, <2>1, RenderingKeeps, UserKeeps, RequestsKeep DEF PageNext
  <2>2. CASE KbNext /\ UNCHANGED pageVars
    <3>1. KbInv' /\ RootKept'
      BY <1>2, <2>2, KbNextKeepsRoot
    <3>2. UNCHANGED <<listing, fetch, place, strayed>>
      BY <2>2 DEF pageVars
    <3> QED BY <1>2, <3>1, <3>2, PageStands
  <2>3. CASE UNCHANGED <<kbVars, pageVars>>
    <3>1. KbInv' /\ RootKept'
      BY <1>2, <2>3, StutterKeepsRoot
    <3>2. UNCHANGED <<listing, fetch, place, strayed>>
      BY <2>3 DEF pageVars
    <3> QED BY <1>2, <3>1, <3>2, PageStands
  <2> QED BY <1>2, <2>1, <2>2, <2>3 DEF LibraryPageNext
<1> QED BY <1>1, <1>2, PTL DEF LibraryPageSpec

\* A page that has caught up with the library shows the directory of its path, whole:
\* the children of the directory by the id it holds are those below the path it holds.
THEOREM PageShowsOneDirectory == LibraryPageSpec => []ShowsOneDirectory
<1>1. ASSUME KbInv, RootKept, PageInv, Fresh, ~strayed
      PROVE  /\ place.dir \in LiveDirs /\ dirs[place.dir].path = place.path
             /\ DirsOf(Shown) = {i \in LiveDirs : dirs[i].path # Root /\ Found(dirs[i].path)
                                                   /\ Front(dirs[i].path) = place.path}
  <2>1. listing = Rendered(address) /\ place = listing.place
    BY <1>1 DEF Fresh, PageInv
  <2>2. place = PlaceAt(address) /\ listing.rows = Library
    BY <2>1 DEF Rendered
  <2>3. place.dir \in LiveDirs /\ dirs[place.dir].path = place.path
    BY <1>1, <2>2, PlaceAtIs
  <2>4. ASSUME NEW i \in LiveDirs
        PROVE  dirs[i].parent = place.dir
                 <=> dirs[i].path # Root /\ Front(dirs[i].path) = place.path
    <3>1. i \in DOMAIN dirs /\ place.dir \in DOMAIN dirs /\ 0 \notin DOMAIN dirs
      <4>1. dirs \in Seq(DirRow)
        BY <1>1 DEF KbInv, KbTyped
      <4> QED BY <2>3, <4>1 DEF LiveDirs
    <3>2. CASE dirs[i].path = Root
      BY <1>1, <3>1, <3>2 DEF KbInv, RowsInv
    <3>3. CASE dirs[i].path # Root
      <4>1. PICK u \in LiveDirs : u = dirs[i].parent /\ dirs[u].path = Front(dirs[i].path)
        BY <1>1, <3>3 DEF KbInv, RowsInv
      <4>2. u \in DOMAIN dirs
        BY DEF LiveDirs
      <4> QED BY <1>1, <2>3, <3>1, <3>3, <4>1, <4>2 DEF KbInv, RowsInv
    <3> QED BY <3>2, <3>3
  <2>5. ASSUME NEW i
        PROVE  i \in DirsOf(Shown)
                 <=> \E d \in Library.dirs : d.parent = place.dir /\ Found(d.path) /\ d.id = i
    <3>1. i \in DirsOf(Shown) <=> \E r \in Shown : r[1] = "directory" /\ r[2] = i
      BY DEF DirsOf
    <3>2. ASSUME NEW r
          PROVE  r \in Shown
                   <=> \/ \E d \in Children : Found(d.path) /\ r = <<"directory", d.id>>
                       \/ \E x \in Documents : Found(x.path) /\ r = <<"document", x.id>>
      BY DEF Shown, DirectoryRow, DocumentRow
    <3>3. i \in DirsOf(Shown) <=> \E d \in Children : Found(d.path) /\ d.id = i
      <4>1. ASSUME NEW r \in Shown, r[1] = "directory", r[2] = i
            PROVE  \E d \in Children : Found(d.path) /\ d.id = i
        BY <3>2, <4>1
      <4>2. ASSUME NEW d \in Children, Found(d.path), d.id = i
            PROVE  \E r \in Shown : r[1] = "directory" /\ r[2] = i
        <5>1. <<"directory", d.id>> \in Shown
          BY <3>2, <4>2
        <5> QED BY <4>2, <5>1
      <4> QED BY <3>1, <4>1, <4>2
    <3> QED BY <2>2, <3>3 DEF Children
  <2>6. ASSUME NEW i
        PROVE  i \in DirsOf(Shown)
                 <=> i \in LiveDirs /\ dirs[i].parent = place.dir /\ Found(dirs[i].path)
    <3>1. Library.dirs = {[id |-> j, parent |-> dirs[j].parent, path |-> dirs[j].path] :
                            j \in LiveDirs}
      BY DEF Library
    <3>2. ASSUME NEW d \in Library.dirs
          PROVE  \E j \in LiveDirs : d.id = j /\ d.parent = dirs[j].parent
                                    /\ d.path = dirs[j].path
      <4>1. PICK j \in LiveDirs : d = [id |-> j, parent |-> dirs[j].parent, path |-> dirs[j].path]
        BY <3>1
      <4> QED BY <4>1
    <3>3. ASSUME NEW j \in LiveDirs
          PROVE  \E d \in Library.dirs : d.id = j /\ d.parent = dirs[j].parent
                                        /\ d.path = dirs[j].path
      <4> DEFINE d == [id |-> j, parent |-> dirs[j].parent, path |-> dirs[j].path]
      <4>1. d \in Library.dirs /\ d.id = j /\ d.parent = dirs[j].parent /\ d.path = dirs[j].path
        BY <3>1
      <4> QED BY <4>1
    <3> QED BY <2>5, <3>2, <3>3
  <2> QED BY <2>3, <2>4, <2>6
<1>2. KbInv /\ RootKept /\ PageInv => ShowsOneDirectory
  BY <1>1 DEF ShowsOneDirectory
<1> QED BY <1>2, PageInvHolds, PTL
=============================================================================
