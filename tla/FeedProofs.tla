----------------------------- MODULE FeedProofs -----------------------------
(***************************************************************************)
(* Proofs about Feed and Pagination: the arithmetic of pages, the place of *)
(* a post in a page, and what a client who reads the feed page by page can *)
(* miss or receive twice while the tables change, for any number of posts, *)
(* users, changes and any page size.                                       *)
(***************************************************************************)
EXTENDS Feed, FiniteSetTheorems, SequenceTheorems, TLAPS

-----------------------------------------------------------------------------
(* The arithmetic of pages. *)

\* An offset in range is what the program computes.
LEMMA WrappedFacts ==
    ASSUME NEW n \in 0..MaxInt
    PROVE  Wrapped(n) = n
<1> DEFINE w == 2 * (MaxInt + 1)
<1>1. w \in Nat \ {0} /\ n + MaxInt + 1 \in 0..w - 1
  BY WidthAssumption
<1>2. (n + MaxInt + 1) % w = n + MaxInt + 1
  BY <1>1
<1> QED
  BY <1>2, WidthAssumption DEF Wrapped

LEMMA TimesMonotone ==
    ASSUME NEW x \in Int, NEW y \in Int, NEW b \in Nat, x <= y
    PROVE  x * b <= y * b
<1>1. PICK d \in Nat : y = x + d
  OBVIOUS
<1>2. y * b = x * b + d * b
  BY <1>1
<1> QED
  BY <1>2

LEMMA NextPageTimes ==
    ASSUME NEW x \in Int, NEW b \in Nat
    PROVE  x * b \in Int /\ (x - 1) * b \in Int /\ x * b = (x - 1) * b + b
  OBVIOUS

LEMMA CeilFacts ==
    ASSUME NEW a \in Nat, NEW b \in Nat \ {0}
    PROVE  /\ CeilDiv(a, b) \in Nat
           /\ a <= CeilDiv(a, b) * b
           /\ (CeilDiv(a, b) - 1) * b < a
           /\ a # 0 => 1 <= CeilDiv(a, b)
           /\ CeilDiv(a, b) <= a
<1> DEFINE c == CeilDiv(a, b)
<1>1. c \in Nat /\ c * b <= a + b - 1 /\ a + b - 1 < c * b + b
  BY DEF CeilDiv
<1>2. (c - 1) * b = c * b - b
  BY <1>1
<1>3. c # 0 => (c - 1) <= (c - 1) * b
  <2>1. c # 0 => c - 1 \in Nat
    BY <1>1
  <2>2. ASSUME NEW n \in Nat PROVE n <= n * b
    OBVIOUS
  <2> QED
    BY <2>1, <2>2
<1>4. a # 0 => c # 0
  BY <1>1
<1> QED
  BY <1>1, <1>2, <1>3, <1>4

\* There are more pages exactly if this one does not reach the last row.
LEMMA LastPageFacts ==
    ASSUME NEW a \in Nat, NEW b \in Nat \ {0}, NEW x \in Int
    PROVE  x < CeilDiv(a, b) <=> x * b < a
<1> DEFINE c == CeilDiv(a, b)
<1>1. c \in Nat /\ a <= c * b /\ (c - 1) * b < a
  BY CeilFacts
<1> HIDE DEF c
<1>2. ASSUME x < c PROVE x * b < a
  <2>1. x <= c - 1
    BY <1>1, <1>2
  <2>2. x * b <= (c - 1) * b
    BY <1>1, <2>1, TimesMonotone
  <2> QED
    BY <1>1, <2>2
<1>3. ASSUME ~(x < c) PROVE ~(x * b < a)
  <2>1. c * b <= x * b
    BY <1>1, <1>3, TimesMonotone
  <2> QED
    BY <1>1, <2>1
<1> QED
  BY <1>2, <1>3 DEF c

\* Max of the community modules, on naturals.
LEMMA MaxFacts ==
    ASSUME NEW T \in SUBSET Nat, NEW n \in Nat, T # {}, \A t \in T : t <= n
    PROVE  Max(T) \in T /\ \A t \in T : t <= Max(T)
<1> DEFINE D == {n - t : t \in T}
<1>1. \A t \in T : t \in Nat /\ n - t \in Nat /\ n - t \in D
  OBVIOUS
<1>2. D \subseteq Nat /\ D # {}
  BY <1>1
<1>3. PICK d \in D : \A e \in D : ~ (<<e, d>> \in OpToRel(<, Nat))
  <2> HIDE DEF D
  <2> QED
    BY <1>2, NatLessThanWellFounded, WFMin
<1>4. PICK m \in T : d = n - m
  BY <1>3
<1>5. \A e \in D : ~ (e < d)
  BY <1>2, <1>3 DEF OpToRel
<1>6. \A t \in T : m >= t
  BY <1>1, <1>4, <1>5
<1> QED
  BY <1>1, <1>6 DEF Max

LEMMA MinMaxOfTwo ==
    ASSUME NEW a \in Int, NEW b \in Int
    PROVE  /\ Min({a, b}) = IF a <= b THEN a ELSE b
           /\ Max({a, b}) = IF a <= b THEN b ELSE a
  BY DEF Min, Max

\* A request that is accepted asks for a page and a size of at least 1.
LEMMA AcceptedFacts ==
    ASSUME NEW q
    PROVE  /\ Page(q) \in Ints /\ PageSize(q) \in Ints
           /\ Accepted(q) => Page(q) >= 1 /\ PageSize(q) \in 1..MaxPageSize
           /\ Accepted(q) => PageSize(q) \in Nat \ {0}
  BY WidthAssumption, SizesAssumption DEF Page, PageSize, Accepted, StructValid, Ints

-----------------------------------------------------------------------------
(* The feed as a set of rows in some order. *)

\* The rows of the feed that are ordered before a time.
Ahead(t) == {q \in FeedIds : Before(posts[q].created, t)}

Created(p) == posts[p].created

PostsOK == /\ nextId \in 1..MaxPosts + 1
           /\ DOMAIN posts \subseteq 1..nextId - 1
           /\ \A p \in DOMAIN posts : posts[p] \in Rows

LEMMA BeforeFacts ==
    ASSUME NEW t \in Times, NEW u \in Times
    PROVE  /\ ~(Before(t, u) /\ Before(u, t))
           /\ t # u => Before(t, u) \/ Before(u, t)
           /\ ~Before(t, t)
  BY DEF Before, Times

LEMMA FeedFinite ==
    ASSUME PostsOK
    PROVE  /\ FeedIds \subseteq 1..MaxPosts
           /\ IsFiniteSet(FeedIds)
           /\ Cardinality(FeedIds) \in 0..MaxPosts
           /\ \A p \in FeedIds : Created(p) \in Times
           /\ \A t : IsFiniteSet(Ahead(t)) /\ Cardinality(Ahead(t)) \in Nat
<1>1. FeedIds \subseteq 1..MaxPosts /\ \A p \in FeedIds : Created(p) \in Times
  BY BoundsAssumption DEF PostsOK, FeedIds, Rows, Created
<1>2. IsFiniteSet(1..MaxPosts) /\ Cardinality(1..MaxPosts) = MaxPosts /\ MaxPosts \in Nat
  BY FS_Interval, BoundsAssumption, WidthAssumption
<1>3. /\ IsFiniteSet(FeedIds) /\ Cardinality(FeedIds) <= MaxPosts
      /\ Cardinality(FeedIds) \in Nat
  BY <1>1, <1>2, FS_Subset, FS_CardinalityType
<1>4. ASSUME NEW t PROVE IsFiniteSet(Ahead(t)) /\ Cardinality(Ahead(t)) \in Nat
  <2>1. Ahead(t) \subseteq FeedIds
    BY DEF Ahead
  <2> QED
    BY <1>3, <2>1, FS_Subset, FS_CardinalityType
<1> QED
  BY <1>1, <1>2, <1>3, <1>4

\* Every row of the feed has one place in an order, and no other row.
LEMMA OrderFacts ==
    ASSUME PostsOK, NEW s \in Orders
    PROVE  /\ s \in [1..Cardinality(FeedIds) -> FeedIds]
           /\ Len(s) = Cardinality(FeedIds)
           /\ \A i, j \in 1..Cardinality(FeedIds) : s[i] = s[j] => i = j
           /\ \A p \in FeedIds : \E i \in 1..Cardinality(FeedIds) : s[i] = p
           /\ \A i, j \in 1..Cardinality(FeedIds) :
                  i < j => ~Before(Created(s[j]), Created(s[i]))
<1> DEFINE n == Cardinality(FeedIds)
<1>1. n \in Nat /\ IsFiniteSet(FeedIds)
  BY FeedFinite
<1>2. s \in [1..n -> FeedIds] /\ \A i, j \in 1..n : i # j => s[i] # s[j]
  BY DEF Orders, SetToSeqs
<1>3. Len(s) = n
  BY <1>1, <1>2
<1>4. s \in Injection(1..n, FeedIds)
  BY <1>2 DEF Injection, IsInjective
<1>5. Cardinality(1..n) = n
  BY <1>1, FS_Interval
<1>6. s \in Surjection(1..n, FeedIds)
  BY <1>1, <1>4, <1>5, FS_Injection
<1>7. Sorted(s)
  BY DEF Orders
<1> QED
  BY <1>2, <1>3, <1>6, <1>7 DEF Surjection, Sorted, Created

\* The place of a row that shares its time with no other one is given by the
\* rows ahead of it, whatever order the database chose.
LEMMA PlaceFacts ==
    ASSUME PostsOK, NEW s \in Orders, NEW i \in 1..Cardinality(FeedIds),
           \A q \in FeedIds \ {s[i]} : Created(q) # Created(s[i])
    PROVE  Cardinality(Ahead(Created(s[i]))) = i - 1
<1> DEFINE n == Cardinality(FeedIds)
           A == Ahead(Created(s[i]))
           f == [j \in 1..i - 1 |-> s[j]]
<1>1. /\ n \in Nat /\ s \in [1..n -> FeedIds]
      /\ \A j, k \in 1..n : s[j] = s[k] => j = k
      /\ \A p \in FeedIds : \E j \in 1..n : s[j] = p
      /\ \A j, k \in 1..n : j < k => ~Before(Created(s[k]), Created(s[j]))
      /\ \A p \in FeedIds : Created(p) \in Times
  BY OrderFacts, FeedFinite
<1>2. 1..i - 1 \subseteq 1..n /\ i - 1 \in Nat
  BY <1>1
<1>3. ASSUME NEW j \in 1..i - 1 PROVE s[j] \in A
  <2>1. j \in 1..n /\ j < i /\ s[j] # s[i]
    BY <1>1, <1>2
  <2>2. Created(s[j]) # Created(s[i])
    BY <1>1, <2>1
  <2> QED
    BY <1>1, <2>1, <2>2, BeforeFacts DEF Ahead, Created
<1>4. ASSUME NEW q \in A PROVE \E j \in 1..i - 1 : s[j] = q
  <2>1. PICK j \in 1..n : s[j] = q
    BY <1>1 DEF Ahead
  <2>2. Before(Created(s[j]), Created(s[i]))
    BY <2>1 DEF Ahead, Created
  <2>3. j # i
    BY <1>1, <2>2, BeforeFacts
  <2>4. ~(i < j)
    BY <1>1, <2>2
  <2> QED
    BY <1>1, <2>1, <2>3, <2>4
<1>5. f \in Bijection(1..i - 1, A)
  <2>1. f \in [1..i - 1 -> A]
    BY <1>3
  <2>2. \A j, k \in 1..i - 1 : f[j] = f[k] => j = k
    BY <1>1, <1>2
  <2> QED
    BY <1>4, <2>1, <2>2 DEF Bijection, Injection, Surjection, IsInjective
<1> QED
  BY <1>2, <1>5, FS_CountingElements DEF ExistsBijection

\* The rows of the pages before this one.
Done == (page - 1) * PageSize(asked)

\* The offset that the program computes.
LEMMA SkippedFacts ==
    ASSUME page \in Int, PageSize(asked) \in Nat \ {0}
    PROVE  Skipped \in Int /\ (Done \in 0..MaxInt => Skipped = Done)
<1>1. Done \in Int
  BY DEF Done
<1>2. 2 * (MaxInt + 1) \in Nat \ {0}
  BY WidthAssumption
<1>3. (Done + MaxInt + 1) % (2 * (MaxInt + 1)) \in Int
  BY <1>1, <1>2, WidthAssumption
<1>4. Skipped = Wrapped(Done)
  BY DEF Skipped, Offset, Done
<1> QED
  BY <1>3, <1>4, WrappedFacts, WidthAssumption DEF Wrapped

\* A page has the rows of the places behind those that are skipped.
LEMMA SliceFacts ==
    ASSUME PostsOK, NEW s \in Orders, PageSize(asked) \in Nat \ {0}, Skipped \in Nat
    PROVE  LET n == Cardinality(FeedIds)
               size == PageSize(asked)
           IN  /\ Slice(s) \in Seq(FeedIds)
               /\ Len(Slice(s)) = IF n <= Skipped THEN 0
                                  ELSE IF n - Skipped <= size THEN n - Skipped ELSE size
               /\ \A i \in 1..n : s[i] \in ToSet(Slice(s)) <=> Skipped < i /\ i <= Skipped + size
<1> DEFINE n == Cardinality(FeedIds)
           size == PageSize(asked)
           k == Skipped
           last == IF n <= k + size THEN n ELSE k + size
           r == Slice(s)
<1>1. /\ n \in Nat /\ s \in [1..n -> FeedIds] /\ Len(s) = n
      /\ \A i, j \in 1..n : s[i] = s[j] => i = j
  BY OrderFacts, FeedFinite
<1>2. k \in Nat
  OBVIOUS
<1>3. r = SubSeq(s, k + 1, last) /\ last \in Int
  <2>1. n \in Int /\ k + size \in Int
    BY <1>1, <1>2
  <2>2. Min({n, k + size}) = last
    BY <2>1, MinMaxOfTwo
  <2>3. r = SubSeq(s, k + 1, Min({n, k + size}))
    BY <1>1, <1>2 DEF Slice, Limit
  <2> QED
    BY <2>1, <2>2, <2>3
<1> HIDE DEF r, n, size, k
<1>4. \A i \in k + 1..last : s[i] \in FeedIds /\ i \in 1..n
  BY <1>1, <1>2 DEF size
<1>5. /\ r \in Seq(FeedIds)
      /\ Len(r) = IF k + 1 <= last THEN last - (k + 1) + 1 ELSE 0
      /\ \A j \in 1..last - (k + 1) + 1 : r[j] = s[k + 1 + j - 1]
  <2> HIDE DEF last
  <2> QED
    BY <1>2, <1>3, <1>4, SubSeqProperties
<1>6. Len(r) = IF n <= k THEN 0 ELSE IF n - k <= size THEN n - k ELSE size
  BY <1>1, <1>2, <1>5 DEF size
<1>7. DOMAIN r = 1..Len(r)
  BY <1>5, LenProperties
<1>8. ASSUME NEW i \in 1..n, s[i] \in ToSet(r) PROVE k < i /\ i <= k + size
  <2>1. PICK j \in 1..Len(r) : r[j] = s[i]
    BY <1>7, <1>8 DEF ToSet
  <2>2. j \in 1..last - (k + 1) + 1
    BY <1>1, <1>2, <1>5, <2>1 DEF size
  <2>3. k + 1 + j - 1 \in k + 1..last /\ k + 1 + j - 1 = k + j
    BY <1>2, <1>3, <2>2
  <2>4. i = k + j
    BY <1>1, <1>4, <1>5, <2>1, <2>2, <2>3
  <2> QED
    BY <1>1, <1>2, <2>3, <2>4 DEF size
<1>9. ASSUME NEW i \in 1..n, k < i, i <= k + size PROVE s[i] \in ToSet(r)
  <2>1. i <= last /\ i \in Int /\ k \in Int
    BY <1>1, <1>2, <1>9
  <2>2. Len(r) = last - k /\ last - (k + 1) + 1 = last - k
    <3>1. k + 1 <= last /\ last \in Int
      BY <1>3, <1>9, <2>1
    <3> HIDE DEF last
    <3> QED
      BY <1>5, <2>1, <3>1
  <2>3. i - k \in 1..last - k /\ k + 1 + (i - k) - 1 = i
    BY <1>3, <1>9, <2>1
  <2>4. r[i - k] = s[i]
    BY <1>5, <2>2, <2>3
  <2> QED
    BY <1>7, <2>2, <2>3, <2>4 DEF ToSet
<1> QED
  BY <1>5, <1>6, <1>8, <1>9 DEF r, n, size, k

\* A result that breaks off is the beginning of the page.
LEMMA PrefixFacts ==
    ASSUME NEW S, NEW r \in Seq(S), NEW m \in 0..Len(r) - 1
    PROVE  /\ SubSeq(r, 1, m) \in Seq(S)
           /\ Len(SubSeq(r, 1, m)) = m
           /\ ToSet(SubSeq(r, 1, m)) \subseteq ToSet(r)
<1>1. Len(r) \in Nat /\ DOMAIN r = 1..Len(r) /\ m \in Nat
  BY LenProperties
<1>2. \A i \in 1..m : r[i] \in S
  BY <1>1, ElementOfSeq
<1>3. /\ SubSeq(r, 1, m) \in Seq(S)
      /\ Len(SubSeq(r, 1, m)) = IF 1 <= m THEN m - 1 + 1 ELSE 0
      /\ \A i \in 1..m - 1 + 1 : SubSeq(r, 1, m)[i] = r[1 + i - 1]
  BY <1>1, <1>2, SubSeqProperties
<1>4. Len(SubSeq(r, 1, m)) = m
  BY <1>1, <1>3
<1>5. DOMAIN SubSeq(r, 1, m) = 1..m
  BY <1>3, <1>4, LenProperties
<1>6. \A i \in 1..m : SubSeq(r, 1, m)[i] = r[i] /\ i \in 1..Len(r)
  BY <1>1, <1>3
<1> QED
  BY <1>1, <1>3, <1>4, <1>5, <1>6 DEF ToSet

LEMMA ElementsFacts ==
    ASSUME NEW S, NEW r \in Seq(S)
    PROVE  ToSet(r) \subseteq S
  BY LenProperties, ElementOfSeq DEF ToSet

\* The post that Scan has not filled in, if there is one.
LEMMA BlankFacts ==
    ASSUME NEW blank \in {<<>>, <<Blank>>}
    PROVE  blank \in Seq({Blank}) /\ Len(blank) \in Nat /\ Len(blank) <= 1
<1>1. CASE blank = <<>>
  BY <1>1, EmptySeq
<1>2. CASE blank = <<Blank>>
  BY <1>2
<1> QED
  BY <1>1, <1>2

LEMMA SameFeed ==
    ASSUME UNCHANGED <<posts, follows, asked>>
    PROVE  /\ FeedIds' = FeedIds
           /\ \A t : Ahead(t)' = Ahead(t)
  BY DEF FeedIds, Shown, Joined, Ahead, Before

-----------------------------------------------------------------------------
(* Type correctness. *)

\* The reading starts at the page asked for, and goes on only while the pages
\* before it leave rows.
ReadingInv ==
    /\ pc = "idle" => page = Page(asked) /\ got = {}
    /\ pc = "reading" => Accepted(asked) /\ page >= 1 /\ Done \in 0..MaxPosts
    /\ got \subseteq 1..nextId - 1

TypeInv == TypeOK /\ ReadingInv

LEMMA TypeInit == Init => TypeInv
<1> SUFFICES ASSUME Init PROVE TypeInv
  OBVIOUS
<1>b. /\ MaxPosts \in Nat /\ MaxStored \in 0..MaxPosts /\ MaxTime \in Nat \ {0}
      /\ MaxChanges \in Nat /\ MaxInt \in Nat
  BY BoundsAssumption, FeedAssumption, WidthAssumption
<1>1. /\ nextId \in 1..MaxPosts + 1
      /\ DOMAIN posts \subseteq 1..nextId - 1
      /\ \A p \in DOMAIN posts : posts[p] \in Rows /\ posts[p].created \in Times
  BY <1>b, FeedAssumption DEF Init, Rows
<1>2. now \in Times
  <2> DEFINE T == {1} \cup {posts[p].created : p \in DOMAIN posts}
  <2>1. T \in SUBSET Nat /\ T # {} /\ \A t \in T : t <= MaxTime /\ t \in Times
    BY <1>b, <1>1 DEF Times
  <2>2. Max(T) \in T
    <3> HIDE DEF T
    <3> QED
      BY <1>b, <2>1, MaxFacts
  <2> QED
    BY <2>1, <2>2 DEF Init
<1>3. answer = NoAnswer /\ ToSet(answer.posts) = {}
  BY DEF Init, NoAnswer, ToSet
<1>4. page \in Ints
  BY AcceptedFacts DEF Init
<1>5. /\ answer.metadata = NoMetadata /\ changes \in 0..MaxChanges
      /\ got \subseteq 1..MaxPosts /\ got \subseteq 1..nextId - 1
  BY <1>b, <1>3 DEF Init, NoAnswer
<1> QED
  BY <1>1, <1>2, <1>3, <1>4, <1>5 DEF Init, TypeInv, TypeOK, ReadingInv

LEMMA TypePosts == TypeInv => PostsOK /\ Cardinality(FeedIds) \in Nat
  BY FeedFinite, BoundsAssumption, WidthAssumption DEF TypeInv, TypeOK, PostsOK

\* Whoever asks for a page asks for one of a valid number and size.
LEMMA AskingFacts ==
    ASSUME TypeInv, Asking
    PROVE  /\ PageSize(asked) \in Nat \ {0}
           /\ page \in Nat \ {0} /\ Done \in Nat
           /\ page * PageSize(asked) \in Nat
           /\ page * PageSize(asked) = Done + PageSize(asked)
           /\ pc = "reading" \/ FromTheStart => Done \in 0..MaxInt
           /\ pc = "idle" => got = {} /\ (FromTheStart => Done = 0)
<1>1. PageSize(asked) \in Nat \ {0} /\ Page(asked) >= 1
  BY AcceptedFacts DEF Asking
<1>2. page \in Nat \ {0}
  BY <1>1, WidthAssumption DEF Asking, TypeInv, TypeOK, ReadingInv, Ints
<1>3. page - 1 \in Nat
  BY <1>2
<1>4. Done \in Nat /\ page * PageSize(asked) = Done + PageSize(asked)
  BY <1>1, <1>2, <1>3, NextPageTimes DEF Done
<1>5. page = 1 => Done = 0
  BY <1>1 DEF Done
<1>6. pc = "reading" => Done \in 0..MaxInt
  BY BoundsAssumption, WidthAssumption DEF TypeInv, ReadingInv
<1> QED
  BY <1>1, <1>2, <1>4, <1>5, <1>6, WidthAssumption
  DEF Asking, FromTheStart, TypeInv, ReadingInv

\* What Receive leaves to the next request.
LEMMA ReceiveFacts ==
    ASSUME TypeInv, Asking, NEW rows \in Seq(FeedIds), NEW blank, Receive(rows, blank)
    PROVE  /\ UNCHANGED <<posts, nextId, follows, now, changes, asked, gone, came>>
           /\ FeedIds' = FeedIds
           /\ got' = got \cup ToSet(rows) /\ ToSet(rows) \subseteq FeedIds
           /\ \/ /\ pc' = "reading" /\ page' = page + 1
                 /\ Done' = Done + PageSize(asked)
                 /\ rows # <<>> /\ Done' < Cardinality(FeedIds)
              \/ /\ pc' = "read" /\ page' = page
                 /\ rows # <<>> => Cardinality(FeedIds) <= Done + PageSize(asked)
<1> DEFINE n == Cardinality(FeedIds)
           size == PageSize(asked)
           total == TotalRead(rows)
<1>1. /\ UNCHANGED <<posts, nextId, follows, now, changes, asked, gone, came>>
      /\ got' = got \cup ToSet(rows)
      /\ answer'.metadata = calculateMetadata(total, page, size)
      /\ \/ page < answer'.metadata.last_page /\ pc' = "reading" /\ page' = page + 1
         \/ ~(page < answer'.metadata.last_page) /\ pc' = "read" /\ page' = page
  BY DEF Receive, tables
<1>2. n \in Nat /\ size \in Nat \ {0} /\ page \in Nat \ {0} /\ Done \in Nat
      /\ page * size = Done + size
  BY TypePosts, AskingFacts
<1>3. CASE rows = <<>> \/ n = 0
  <2>1. answer'.metadata.last_page = 0
    BY <1>1, <1>3 DEF TotalRead, calculateMetadata, NoMetadata
  <2>2. FeedIds = {} => rows = <<>>
    BY LenProperties
  <2>3. n = 0 => FeedIds = {}
    BY FeedFinite, TypePosts, FS_EmptySet DEF TypeInv
  <2> QED
    BY <1>1, <1>2, <1>3, <2>1, <2>2, <2>3, SameFeed, ElementsFacts
<1>4. CASE rows # <<>> /\ n # 0
  <2>1. answer'.metadata.last_page = CeilDiv(n, size)
    BY <1>1, <1>4 DEF TotalRead, calculateMetadata, MetadataOf
  <2>2. page < CeilDiv(n, size) <=> page * size < n
    BY <1>2, LastPageFacts
  <2>3. page' = page + 1 => Done' = page * size
    BY <1>1, <1>2 DEF Done
  <2> QED
    BY <1>1, <1>2, <1>4, <2>1, <2>2, <2>3, SameFeed, ElementsFacts
<1> QED
  BY <1>3, <1>4

\* A page is a slice of some order: its rows are rows of the feed.
LEMMA PageFacts ==
    ASSUME TypeInv, Asking, NEW rows \in Slices
    PROVE  /\ Skipped \in Nat
           /\ rows \in Seq(FeedIds) /\ Len(rows) <= Cardinality(FeedIds)
           /\ \E s \in Orders : rows = Slice(s)
<1>1. PostsOK /\ Cardinality(FeedIds) \in Nat /\ PageSize(asked) \in Nat \ {0}
      /\ page \in Int
  BY TypePosts, AskingFacts
<1>2. Skipped \in Nat /\ \E s \in Orders : rows = Slice(s)
  BY <1>1, SkippedFacts DEF Slices
<1>3. PICK s \in Orders : rows = Slice(s)
  BY <1>2
<1> QED
  BY <1>1, <1>2, <1>3, SliceFacts

LEMMA ReceiveType ==
    ASSUME TypeInv, Asking, NEW rows \in Seq(FeedIds), NEW blank \in {<<>>, <<Blank>>},
           Receive(rows, blank), cut' \in BOOLEAN,
           rows # <<>> => Len(rows \o blank) <= Cardinality(FeedIds)
    PROVE  TypeInv'
<1> DEFINE n == Cardinality(FeedIds)
           size == PageSize(asked)
           m == answer'.metadata
<1>f. /\ UNCHANGED <<posts, nextId, follows, now, changes, asked, gone, came>>
      /\ got' = got \cup ToSet(rows) /\ ToSet(rows) \subseteq FeedIds
      /\ \/ pc' = "reading" /\ page' = page + 1 /\ Done' = Done + size /\ Done' < n
         \/ pc' = "read" /\ page' = page
  BY ReceiveFacts
<1>a. /\ size \in Nat \ {0} /\ page \in Nat \ {0} /\ Done \in Nat
      /\ n \in 0..MaxPosts /\ Accepted(asked)
      /\ FeedIds \subseteq DOMAIN posts
      /\ FeedIds \subseteq 1..MaxPosts /\ \A p \in FeedIds : posts[p].created \in Times
      /\ MaxPosts \in 0..MaxInt /\ MaxInt \in Nat
  BY AskingFacts, TypePosts, FeedFinite, BoundsAssumption, WidthAssumption
  DEF Asking, FeedIds, Created
<1>1. page' \in Ints /\ page' >= 1
  <2>1. CASE pc' = "reading"
    <3>1. page \in 1..MaxInt /\ page < CeilDiv(n, size)
      <4>1. page * size < n
        BY <1>a, <1>f, <2>1, AskingFacts
      <4>2. n \in Nat /\ page \in Int
        BY <1>a
      <4> HIDE DEF n, size
      <4>4. page < CeilDiv(n, size) /\ CeilDiv(n, size) <= n
        BY <1>a, <4>1, <4>2, LastPageFacts, CeilFacts
      <4>3. CeilDiv(n, size) \in Nat
        BY <1>a, CeilFacts
      <4> QED
        BY <1>a, <4>2, <4>3, <4>4
    <3>2. CeilDiv(n, size) <= n /\ CeilDiv(n, size) \in Nat
      BY <1>a, CeilFacts
    <3> QED
      BY <1>a, <1>f, <2>1, <3>1, <3>2 DEF Ints
  <2>2. CASE pc' = "read"
    BY <1>a, <1>f, <2>2 DEF TypeInv, TypeOK
  <2> QED
    BY <1>f, <2>1, <2>2
<1>2. /\ got' \subseteq 1..MaxPosts /\ got' \subseteq 1..nextId' - 1
      /\ twice' \subseteq Times /\ tied' \subseteq Times
  BY <1>a, <1>f DEF Receive, TypeInv, TypeOK, ReadingInv
<1>3. ToSet(answer'.posts) \subseteq got' \cup {Blank}
  <2>1. answer'.posts = rows \o blank
    BY DEF Receive
  <2>2. rows \in Seq(got' \cup {Blank}) /\ blank \in Seq(got' \cup {Blank})
    <3>1. \A i \in 1..Len(rows) : rows[i] \in got'
      BY <1>f, LenProperties DEF ToSet
    <3>2. rows \in [1..Len(rows) -> got' \cup {Blank}] /\ Len(rows) \in Nat
      BY <3>1, LenProperties
    <3>3. rows \in Seq(got' \cup {Blank})
      BY <3>2, SeqDef
    <3>4. blank \in Seq(got' \cup {Blank})
      BY BlankFacts, SeqMonotonic
    <3> QED
      BY <3>3, <3>4
  <2> QED
    BY <2>1, <2>2, ConcatProperties, ElementsFacts
<1>4. \/ m = NoMetadata
      \/ m.last_page >= 1 /\ m.total_records >= Len(answer'.posts)
  <2>1. answer'.posts = rows \o blank /\ m = calculateMetadata(TotalRead(rows), page, size)
    BY DEF Receive
  <2>2. CASE TotalRead(rows) = 0
    BY <2>1, <2>2 DEF calculateMetadata
  <2>3. CASE TotalRead(rows) # 0
    <3>1. TotalRead(rows) = n /\ rows # <<>>
      BY <2>3 DEF TotalRead
    <3>2. m.last_page = CeilDiv(n, size) /\ m.total_records = n
      BY <2>1, <2>3, <3>1 DEF calculateMetadata, MetadataOf
    <3>3. CeilDiv(n, size) >= 1
      BY <1>a, <2>3, <3>1, CeilFacts
    <3> QED
      BY <2>1, <3>1, <3>2, <3>3
  <2> QED
    BY <2>2, <2>3
<1>5. ReadingInv'
  BY <1>1, <1>2, <1>a, <1>f DEF ReadingInv, TypeInv, Accepted
<1> QED
  BY <1>1, <1>2, <1>3, <1>4, <1>5, <1>f DEF TypeInv, TypeOK

LEMMA IdsGrow == \A m, n \in Int : m <= n => 1..m - 1 \subseteq 1..n - 1
  OBVIOUS

\* What others do leaves the client alone, and the ids, times and contents of
\* the posts as they must be.
LEMMA ChangeType ==
    ASSUME TypeInv, CreatePost \/ EditPost \/ DeletePost \/ FollowOrUnfollow
    PROVE  TypeInv'
<1>1. /\ changes' \in 0..MaxChanges /\ UNCHANGED client /\ Moved /\ pc = "reading"
      /\ nextId' \in {nextId, nextId + 1}
  BY BoundsAssumption
  DEF CreatePost, EditPost, DeletePost, FollowOrUnfollow, Change, TypeInv, TypeOK
<1>2. /\ nextId' \in 1..MaxPosts + 1 /\ DOMAIN posts' \subseteq 1..nextId' - 1
      /\ \A p \in DOMAIN posts' : posts'[p] \in Rows
      /\ follows' \subseteq FollowRows /\ now' \in Times
  <2> USE DEF TypeInv, TypeOK
  <2>1. CASE CreatePost
    <3>1. PICK c \in Forms :
             posts' = [p \in DOMAIN posts \cup {nextId} |->
                          IF p = nextId THEN [content |-> c, created |-> now'] ELSE posts[p]]
      BY <2>1 DEF CreatePost
    <3>2. now' \in Times /\ [content |-> c, created |-> now'] \in Rows
      BY <2>1, FeedAssumption, BoundsAssumption DEF CreatePost, Rows, Times
    <3>3. nextId' = nextId + 1 /\ nextId <= MaxPosts /\ UNCHANGED follows
      BY <2>1 DEF CreatePost
    <3> QED
      BY <3>1, <3>2, <3>3, BoundsAssumption
  <2>2. CASE EditPost
    <3>1. PICK p \in Writable : posts' = [posts EXCEPT ![p].content.matches = ~@]
      BY <2>2 DEF EditPost
    <3>2. /\ DOMAIN posts' = DOMAIN posts /\ \A q \in DOMAIN posts : q # p => posts'[q] = posts[q]
      BY <3>1
    <3>3. p \in DOMAIN posts => posts'[p] \in Rows
      BY <3>1 DEF Rows, Contents
    <3> QED
      BY <2>2, <3>2, <3>3 DEF EditPost
  <2>3. CASE DeletePost
    BY <2>3 DEF DeletePost, Restrict
  <2>4. CASE FollowOrUnfollow
    BY <2>4 DEF FollowOrUnfollow, SymDiff
  <2> QED
    BY <2>1, <2>2, <2>3, <2>4
<1>3. gone' \subseteq Times /\ came' \subseteq Times
  <2>1. \A p \in FeedIds : p \in DOMAIN posts /\ posts[p].created \in Times
    BY DEF FeedIds, TypeInv, TypeOK, Rows
  <2>2. \A p \in FeedIds' : p \in DOMAIN posts' /\ posts'[p].created \in Times
    BY <1>2 DEF FeedIds, Rows
  <2> QED
    BY <1>1, <2>1, <2>2 DEF Moved, TypeInv, TypeOK
<1>4. got \subseteq 1..nextId' - 1
  <2>1. nextId \in Int /\ got \subseteq 1..nextId - 1
    BY BoundsAssumption DEF TypeInv, TypeOK, ReadingInv
  <2>2. nextId' \in Int /\ nextId <= nextId'
    BY <1>1, <2>1
  <2>3. 1..nextId - 1 \subseteq 1..nextId' - 1
    BY <2>1, <2>2, IdsGrow
  <2> QED
    BY <2>1, <2>3
<1> QED
  BY <1>1, <1>2, <1>3, <1>4 DEF TypeInv, TypeOK, ReadingInv, client, Done

LEMMA TypeStep == TypeInv /\ [Next]_vars => TypeInv'
<1> SUFFICES ASSUME TypeInv, [Next]_vars PROVE TypeInv'
  OBVIOUS
<1>1. CASE Refuse \/ FailPage
  BY <1>1 DEF Refuse, FailPage, TypeInv, TypeOK, ReadingInv, tables
<1>2. CASE ServePage
  <2>1. PICK rows \in Slices : Receive(rows, <<>>)
    BY <1>2 DEF ServePage
  <2>2. rows \in Seq(FeedIds) /\ Len(rows) <= Cardinality(FeedIds)
    BY <1>2, PageFacts DEF ServePage
  <2>3. Len(rows \o <<>>) = Len(rows)
    BY <2>2, ConcatEmptySeq
  <2> QED
    BY <1>2, <2>1, <2>2, <2>3, ReceiveType DEF ServePage, TypeInv, TypeOK
<1>3. CASE ServeCutPage
  <2>0. PICK rows \in Slices :
           \E m \in 0..Len(rows) - 1, blank \in {<<>>, <<Blank>>} :
               Receive(SubSeq(rows, 1, m), blank)
    BY <1>3 DEF ServeCutPage
  <2>1. PICK m \in 0..Len(rows) - 1, blank \in {<<>>, <<Blank>>} :
           Receive(SubSeq(rows, 1, m), blank)
    BY <2>0
  <2> DEFINE r == SubSeq(rows, 1, m)
  <2>2. rows \in Seq(FeedIds) /\ Len(rows) <= Cardinality(FeedIds)
    BY <1>3, PageFacts DEF ServeCutPage
  <2>3. r \in Seq(FeedIds) /\ Len(r) = m
    BY <2>2, PrefixFacts
  <2>4. Len(r \o blank) <= Cardinality(FeedIds)
    <3>1. blank \in Seq({Blank}) /\ Len(blank) <= 1 /\ Len(blank) \in Nat
      BY BlankFacts
    <3>2. Len(r \o blank) = Len(r) + Len(blank)
      BY <2>3, <3>1
    <3>3. Len(rows) \in Nat /\ Cardinality(FeedIds) \in Nat
      BY <2>2, LenProperties, TypePosts
    <3> QED
      BY <2>2, <2>3, <3>1, <3>2, <3>3
  <2> HIDE DEF r
  <2> QED
    BY <1>3, <2>1, <2>3, <2>4, ReceiveType DEF ServeCutPage, r
<1>4. CASE CreatePost \/ EditPost \/ DeletePost \/ FollowOrUnfollow
  BY <1>4, ChangeType
<1>5. CASE UNCHANGED vars
  BY <1>5 DEF vars, tables, client, TypeInv, TypeOK, ReadingInv, Done
<1> QED
  BY <1>1, <1>2, <1>3, <1>4, <1>5 DEF Next, Quiet

\* The ids of posts and the numbers of pages stay in range, an answer has the
\* posts that the client received, and metadata, where there is any, describes
\* at least one page and no fewer records than the page has.
THEOREM TypeCorrect == Spec => []TypeOK
<1>1. TypeInv => TypeOK
  BY DEF TypeInv
<1> QED
  BY <1>1, TypeInit, TypeStep, PTL DEF Spec

-----------------------------------------------------------------------------
(* What a client misses, and what it receives twice.                        *)
(*                                                                          *)
(* Between two pages, a post that the client has not received is behind as  *)
(* many rows as the pages so far had places, and one that it has received   *)
(* is not, unless the tables or the clock's resolution excuse it.           *)

Excused(t) == t \in came \cup tied \/ \E u \in gone : ~Before(t, u)

Again(t) == t \in tied \/ \E u \in came : ~Before(t, u)

UnreadAhead ==
    pc = "reading" /\ FromTheStart /\ ~cut =>
        \A p \in FeedIds \ got :
            Excused(Created(p)) \/ Done <= Cardinality(Ahead(Created(p)))

ReadBehind ==
    pc = "reading" /\ FromTheStart =>
        \A p \in FeedIds \cap got :
            Again(Created(p)) \/ Cardinality(Ahead(Created(p))) < Done

IInv == /\ TypeInv
        /\ UnreadAhead
        /\ ReadBehind
        /\ NothingMissed
        /\ NothingTwice

\* It shares its time with no other row of the feed.
Alone(p) == \A q \in FeedIds \ {p} : Created(q) # Created(p)

\* Which rows a page has, told by the rows ahead of them.
LEMMA ServeFacts ==
    ASSUME TypeInv, Asking, Done \in 0..MaxInt, NEW rows \in Slices
    PROVE  /\ \A p \in FeedIds :
                  Alone(p) =>
                      /\ Cardinality(Ahead(Created(p))) \in Nat
                      /\ Cardinality(Ahead(Created(p))) < Cardinality(FeedIds)
                      /\ p \in ToSet(rows) <=>
                            /\ Done <= Cardinality(Ahead(Created(p)))
                            /\ Cardinality(Ahead(Created(p))) < Done + PageSize(asked)
           /\ rows = <<>> => Cardinality(FeedIds) <= Done
<1> DEFINE n == Cardinality(FeedIds)
           size == PageSize(asked)
<1>1. /\ PostsOK /\ n \in Nat /\ size \in Nat \ {0} /\ Done \in Nat
      /\ Skipped = Done
  BY TypePosts, AskingFacts, SkippedFacts
<1>2. PICK s \in Orders : rows = Slice(s)
  BY PageFacts
<1>3. /\ Len(rows) = IF n <= Done THEN 0 ELSE IF n - Done <= size THEN n - Done ELSE size
      /\ \A i \in 1..n : s[i] \in ToSet(rows) <=> Done < i /\ i <= Done + size
  BY <1>1, <1>2, SliceFacts
<1>4. ASSUME NEW p \in FeedIds, Alone(p)
      PROVE  /\ Cardinality(Ahead(Created(p))) \in Nat
             /\ Cardinality(Ahead(Created(p))) < n
             /\ p \in ToSet(rows) <=>
                   /\ Done <= Cardinality(Ahead(Created(p)))
                   /\ Cardinality(Ahead(Created(p))) < Done + size
  <2>1. PICK i \in 1..n : s[i] = p
    BY <1>1, OrderFacts
  <2>2. Cardinality(Ahead(Created(p))) = i - 1
    BY <1>1, <1>4, <2>1, PlaceFacts DEF Alone
  <2>3. p \in ToSet(rows) <=> Done < i /\ i <= Done + size
    BY <1>3, <2>1
  <2> HIDE DEF size, n
  <2>4. i \in Nat \ {0} /\ i <= n /\ n \in Nat /\ size \in Nat /\ Done \in Nat
    BY <1>1, <2>1 DEF n, size
  <2> QED
    BY <2>2, <2>3, <2>4
<1>5. rows = <<>> => n <= Done
  <2>1. rows = <<>> => Len(rows) = 0
    OBVIOUS
  <2> HIDE DEF size, n
  <2> QED
    BY <1>1, <1>3, <2>1 DEF n, size
<1> QED
  BY <1>4, <1>5

\* A row whose time is not recorded as shared is alone with it.
LEMMA TiedFacts ==
    ASSUME NEW rows, NEW blank, Receive(rows, blank)
    PROVE  /\ tied \subseteq tied'
           /\ \A p \in FeedIds : Created(p) \notin tied' => Alone(p)
  BY DEF Receive, Alone, Created

\* An answer changes neither the rows nor their order.
LEMMA SameRows ==
    ASSUME TypeInv, Asking, NEW rows \in Seq(FeedIds), NEW blank, Receive(rows, blank)
    PROVE  /\ FeedIds' = FeedIds
           /\ \A p : Created(p)' = Created(p)
           /\ \A t : Ahead(t)' = Ahead(t)
           /\ \A t, u : Before(t, u)' <=> Before(t, u)
           /\ FromTheStart' <=> FromTheStart
           /\ gone' = gone /\ came' = came
           /\ PageSize(asked)' = PageSize(asked)
  BY ReceiveFacts, SameFeed DEF Created, Before, FromTheStart

\* A complete page takes the unread posts of its places, and the last one
\* leaves none.
LEMMA ServeUnread ==
    ASSUME IInv, ServePage
    PROVE  UnreadAhead' /\ NothingMissed'
<1>1. PICK rows \in Slices : Receive(rows, <<>>)
  BY DEF ServePage
<1>2. TypeInv /\ Asking /\ rows \in Seq(FeedIds)
  BY <1>1, PageFacts DEF IInv, ServePage
<1>r. /\ FeedIds' = FeedIds
      /\ \A q : Created(q)' = Created(q)
      /\ \A t : Ahead(t)' = Ahead(t)
      /\ \A t, u : Before(t, u)' <=> Before(t, u)
      /\ FromTheStart' <=> FromTheStart
      /\ gone' = gone /\ came' = came /\ tied \subseteq tied' /\ cut' = cut
  BY <1>1, <1>2, SameRows, TiedFacts DEF ServePage
<1> SUFFICES ASSUME FromTheStart, ~cut, NEW p \in FeedIds, p \notin got',
                    Created(p) \notin came \cup tied',
                    \A u \in gone : Before(Created(p), u)
             PROVE  /\ pc' = "reading" => Done' <= Cardinality(Ahead(Created(p)))
                    /\ pc' # "read"
  BY <1>r DEF UnreadAhead, NothingMissed, Excused, Created
<1> DEFINE a == Cardinality(Ahead(Created(p)))
           size == PageSize(asked)
<1>d. Done \in 0..MaxInt
  BY <1>2, AskingFacts
<1>3. Alone(p) /\ ~Excused(Created(p))
  BY <1>1, <1>r, TiedFacts DEF Excused
<1>4. p \notin got /\ p \notin ToSet(rows)
  BY <1>1, <1>2, ReceiveFacts
<1>5. Done <= a
  <2>1. CASE pc = "reading"
    BY <1>3, <1>4, <2>1 DEF IInv, UnreadAhead
  <2>2. CASE pc = "idle"
    <3>1. a \in Nat /\ Done = 0
      BY <1>1, <1>2, <1>3, <1>d, <2>2, ServeFacts, AskingFacts
    <3> QED
      BY <3>1
  <2> QED
    BY <2>1, <2>2 DEF ServePage, Asking
<1>6. /\ a \in Nat /\ a < Cardinality(FeedIds) /\ Done + size <= a
      /\ size \in Nat /\ Done \in Nat /\ Cardinality(FeedIds) \in Nat
      /\ rows # <<>>
  <2>1. /\ a \in Nat /\ a < Cardinality(FeedIds) /\ ~(a < Done + size)
        /\ rows = <<>> => Cardinality(FeedIds) <= Done
    BY <1>1, <1>2, <1>3, <1>4, <1>5, <1>d, ServeFacts
  <2>2. size \in Nat /\ Done \in Nat /\ Cardinality(FeedIds) \in Nat
    BY <1>2, AskingFacts, TypePosts
  <2> HIDE DEF a, size
  <2> QED
    BY <1>5, <2>1, <2>2
<1>7. \/ pc' = "reading" /\ Done' = Done + size
      \/ pc' = "read" /\ Cardinality(FeedIds) <= Done + size
  BY <1>1, <1>2, <1>6, ReceiveFacts
<1> HIDE DEF a, size
<1> QED
  BY <1>6, <1>7 DEF a

\* A post that a page has again shares its time, or is behind a post that came
\* in; what a page has is behind it afterwards, complete or not.
LEMMA ServeAgain ==
    ASSUME IInv, Asking, NEW page_ \in Slices, NEW rows \in Seq(FeedIds), NEW blank,
           ToSet(rows) \subseteq ToSet(page_), Receive(rows, blank)
    PROVE  ReadBehind' /\ NothingTwice'
<1> USE DEF IInv
<1>0. /\ FeedIds' = FeedIds
      /\ \A q : Created(q)' = Created(q)
      /\ \A t : Ahead(t)' = Ahead(t)
      /\ \A t, u : Before(t, u)' <=> Before(t, u)
      /\ FromTheStart' <=> FromTheStart
      /\ came' = came
      /\ tied \subseteq tied'
  BY SameRows, TiedFacts
<1> SUFFICES ASSUME FromTheStart PROVE ReadBehind' /\ NothingTwice'
  BY <1>0 DEF ReadBehind, NothingTwice
<1>1. /\ Done \in 0..MaxInt /\ Done \in Nat /\ PageSize(asked) \in Nat \ {0}
      /\ got' = got \cup ToSet(rows)
      /\ pc' = "reading" => Done' = Done + PageSize(asked)
  BY AskingFacts, ReceiveFacts
<1>2. \A t : Again(t) => Again(t)'
  BY <1>0 DEF Again
<1>3. ASSUME NEW p \in FeedIds, ~Again(Created(p))'
      PROVE  /\ Alone(p) /\ Cardinality(Ahead(Created(p))) \in Nat
             /\ p \in got => pc = "reading" /\ Cardinality(Ahead(Created(p))) < Done
             /\ p \in ToSet(rows) =>
                   /\ Done <= Cardinality(Ahead(Created(p)))
                   /\ Cardinality(Ahead(Created(p))) < Done + PageSize(asked)
  <2>1. Created(p) \notin tied'
    BY <1>0, <1>3 DEF Again
  <2>2. Alone(p)
    BY <2>1, TiedFacts
  <2>3. ~Again(Created(p))
    BY <1>0, <1>2, <1>3
  <2>4. p \in got => pc = "reading"
    BY AskingFacts DEF Asking
  <2>5. p \in got => Cardinality(Ahead(Created(p))) < Done
    BY <2>3, <2>4 DEF ReadBehind
  <2> QED
    BY <1>1, <2>2, <2>4, <2>5, ServeFacts
<1>4. ReadBehind'
  <2> SUFFICES ASSUME pc' = "reading", NEW p \in FeedIds, p \in got',
                      ~Again(Created(p))'
               PROVE  Cardinality(Ahead(Created(p))) < Done'
    BY <1>0 DEF ReadBehind, Again
  <2> DEFINE a == Cardinality(Ahead(Created(p)))
             size == PageSize(asked)
  <2>1. /\ a \in Nat /\ Done \in Nat /\ size \in Nat \ {0} /\ Done' = Done + size
        /\ a < Done \/ a < Done + size
    BY <1>1, <1>3
  <2> HIDE DEF a, size
  <2>2. a < Done'
    BY <2>1
  <2> QED
    BY <2>2 DEF a
<1>5. NothingTwice'
  <2> SUFFICES ASSUME NEW t \in twice' PROVE Again(t)'
    BY DEF NothingTwice, Again
  <2>1. CASE t \in twice
    BY <1>2, <2>1 DEF NothingTwice, Again
  <2>2. CASE t \notin twice
    <3>1. PICK p \in got \cap ToSet(rows) : t = Created(p)
      BY <2>2 DEF Receive, Created
    <3>2. p \in FeedIds
      BY <3>1, ReceiveFacts
    <3>3. Again(Created(p))'
      BY <1>1, <1>3, <3>1, <3>2
    <3> QED
      BY <1>0, <3>1, <3>3
  <2> QED
    BY <2>1, <2>2
<1> QED
  BY <1>4, <1>5

\* What others do to the tables: a row that stays keeps its time, and those that
\* go or come are recorded.
LEMMA ChangeFacts ==
    ASSUME TypeInv, CreatePost \/ EditPost \/ DeletePost \/ FollowOrUnfollow
    PROVE  /\ pc = "reading" /\ UNCHANGED client
           /\ Done' = Done /\ (FromTheStart' <=> FromTheStart)
           /\ \A t, u : Before(t, u)' <=> Before(t, u)
           /\ \A p \in FeedIds \cap FeedIds' : posts'[p].created = posts[p].created
           /\ \A p \in FeedIds \ FeedIds' : posts[p].created \in gone'
           /\ \A p \in FeedIds' \ FeedIds : posts'[p].created \in came'
           /\ gone \subseteq gone' /\ came \subseteq came'
           /\ \A p \in FeedIds' : posts'[p].created \in Times
           /\ \A t : IsFiniteSet(Ahead(t)') /\ Cardinality(Ahead(t)') \in Nat
<1>1. /\ pc = "reading" /\ UNCHANGED client /\ Moved
      /\ UNCHANGED <<page, asked>>
  BY DEF CreatePost, EditPost, DeletePost, FollowOrUnfollow, Change, client
<1>2. ASSUME NEW p \in FeedIds \cap FeedIds'
      PROVE  posts'[p].created = posts[p].created
  <2>1. p \in DOMAIN posts /\ p \in DOMAIN posts'
    BY DEF FeedIds
  <2>2. CASE CreatePost
    <3>1. p # nextId
      BY <2>1, BoundsAssumption DEF TypeInv, TypeOK
    <3> QED
      BY <2>1, <2>2, <3>1 DEF CreatePost
  <2>3. CASE EditPost
    <3>1. PICK q \in Writable : posts' = [posts EXCEPT ![q].content.matches = ~@]
      BY <2>3 DEF EditPost
    <3> QED
      BY <2>1, <3>1 DEF TypeInv, TypeOK, Rows
  <2>4. CASE DeletePost
    BY <2>1, <2>4 DEF DeletePost, Restrict
  <2>5. CASE FollowOrUnfollow
    BY <2>5 DEF FollowOrUnfollow
  <2> QED
    BY <2>2, <2>3, <2>4, <2>5
<1>3. TypeInv'
  BY ChangeType
<1>4. /\ FeedIds' \subseteq 1..nextId' - 1 /\ nextId' - 1 \in Int
      /\ \A p \in FeedIds' : posts'[p].created \in Times
  BY <1>3, BoundsAssumption DEF TypeInv, TypeOK, FeedIds, Rows
<1>5. ASSUME NEW t PROVE IsFiniteSet(Ahead(t)') /\ Cardinality(Ahead(t)') \in Nat
  <2>1. Ahead(t)' \subseteq 1..nextId' - 1
    BY <1>4 DEF Ahead
  <2>2. IsFiniteSet(1..nextId' - 1)
    BY <1>4, FS_Interval
  <2>3. IsFiniteSet(Ahead(t)')
    BY <2>1, <2>2, FS_Subset
  <2> QED
    BY <2>3, FS_CardinalityType
<1> QED
  BY <1>1, <1>2, <1>4, <1>5 DEF Moved, Done, FromTheStart, Before

\* A row that no excuse covers stays behind no fewer rows than before, for those
\* ahead of it that left would be an excuse.
LEMMA ChangeUnread ==
    ASSUME IInv, CreatePost \/ EditPost \/ DeletePost \/ FollowOrUnfollow
    PROVE  UnreadAhead' /\ NothingMissed'
<1>1. TypeInv
  BY DEF IInv
<1>2. pc' = "reading" /\ UNCHANGED client
  BY <1>1, ChangeFacts DEF client
<1>3. ASSUME FromTheStart, ~cut, NEW p \in FeedIds' \ got, NEW t, t = posts'[p].created,
             t \notin came' \cup tied, \A u \in gone' : Before(t, u)
      PROVE  Done <= Cardinality(Ahead(t)')
  <2>1. p \in FeedIds /\ Created(p) = t /\ t \in Times
    BY <1>1, <1>3, ChangeFacts DEF Created
  <2>2. ~Excused(t)
    BY <1>1, <1>3, ChangeFacts DEF Excused
  <2>3. Done <= Cardinality(Ahead(t))
    BY <1>1, <1>3, <2>1, <2>2, ChangeFacts DEF IInv, UnreadAhead
  <2>4. Ahead(t) \subseteq Ahead(t)'
    <3> SUFFICES ASSUME NEW q \in FeedIds, Before(posts[q].created, t)
                 PROVE  q \in FeedIds' /\ Before(posts'[q].created, t)
      BY <1>2 DEF Ahead, Before, client
    <3>1. posts[q].created \in Times
      BY <1>1, TypePosts, FeedFinite DEF Created
    <3>2. q \in FeedIds'
      BY <1>1, <1>3, <2>1, <3>1, ChangeFacts, BeforeFacts
    <3> QED
      BY <1>1, <3>2, ChangeFacts
  <2>5. /\ IsFiniteSet(Ahead(t)') /\ Cardinality(Ahead(t)') \in Nat
        /\ Cardinality(Ahead(t)) \in Nat /\ Done \in Int
    <3>1. Done \in 0..MaxPosts
      BY <1>1, ChangeFacts DEF TypeInv, ReadingInv
    <3> QED
      BY <1>1, <3>1, ChangeFacts, TypePosts, FeedFinite
  <2>6. Cardinality(Ahead(t)) <= Cardinality(Ahead(t)')
    BY <2>4, <2>5, FS_Subset
  <2> QED
    BY <2>3, <2>5, <2>6
<1>4. NothingMissed'
  BY <1>2 DEF NothingMissed
<1>5. UnreadAhead'
  <2> SUFFICES ASSUME FromTheStart, ~cut, NEW p \in FeedIds' \ got,
                      NEW t, t = posts'[p].created,
                      t \notin came' \cup tied, \A u \in gone' : Before(t, u)
               PROVE  Done <= Cardinality(Ahead(t)')
    BY <1>1, <1>2, ChangeFacts DEF UnreadAhead, Excused, Created, client, Ahead
  <2> QED
    BY <1>3
<1> QED
  BY <1>4, <1>5

\* A row that was received stays behind no more rows than before, for one that
\* came in ahead of it would be an excuse.
LEMMA ChangeAgain ==
    ASSUME IInv, CreatePost \/ EditPost \/ DeletePost \/ FollowOrUnfollow
    PROVE  ReadBehind' /\ NothingTwice'
<1>1. TypeInv
  BY DEF IInv
<1>2. UNCHANGED client
  BY <1>1, ChangeFacts DEF client
<1>3. ASSUME FromTheStart, NEW p \in FeedIds' \cap got, NEW t, t = posts'[p].created,
             t \notin tied, \A u \in came' : Before(t, u)
      PROVE  Cardinality(Ahead(t)') < Done
  <2>1. t \in Times
    BY <1>1, <1>3, ChangeFacts
  <2>2. p \in FeedIds /\ Created(p) = t
    BY <1>1, <1>3, <2>1, ChangeFacts, BeforeFacts DEF Created
  <2>3. ~Again(t)
    BY <1>1, <1>3, ChangeFacts DEF Again
  <2>4. Cardinality(Ahead(t)) < Done
    BY <1>1, <1>3, <2>2, <2>3, ChangeFacts DEF IInv, ReadBehind
  <2>5. Ahead(t)' \subseteq Ahead(t)
    <3> SUFFICES ASSUME NEW q \in FeedIds', Before(posts'[q].created, t)
                 PROVE  q \in FeedIds /\ Before(posts[q].created, t)
      BY <1>2 DEF Ahead, Before, client
    <3>1. posts'[q].created \in Times
      BY <1>1, ChangeFacts
    <3>2. q \in FeedIds
      BY <1>1, <1>3, <2>1, <3>1, ChangeFacts, BeforeFacts
    <3> QED
      BY <1>1, <3>1, <3>2, ChangeFacts
  <2>6. /\ IsFiniteSet(Ahead(t)) /\ Cardinality(Ahead(t)') \in Nat
        /\ Cardinality(Ahead(t)) \in Nat /\ Done \in Int
    <3>1. Done \in 0..MaxPosts
      BY <1>1, ChangeFacts DEF TypeInv, ReadingInv
    <3> QED
      BY <1>1, <3>1, ChangeFacts, TypePosts, FeedFinite
  <2>7. Cardinality(Ahead(t)') <= Cardinality(Ahead(t))
    BY <2>5, <2>6, FS_Subset
  <2> QED
    BY <2>4, <2>6, <2>7
<1>4. NothingTwice'
  BY <1>1, <1>2, ChangeFacts DEF IInv, NothingTwice, client
<1>5. ReadBehind'
  <2> SUFFICES ASSUME FromTheStart, NEW p \in FeedIds' \cap got,
                      NEW t, t = posts'[p].created,
                      t \notin tied, \A u \in came' : Before(t, u)
               PROVE  Cardinality(Ahead(t)') < Done
    BY <1>1, <1>2, ChangeFacts DEF ReadBehind, Again, Created, client, Ahead
  <2> QED
    BY <1>3
<1> QED
  BY <1>4, <1>5

LEMMA IInvInit == Init => IInv
  BY TypeInit DEF Init, IInv, UnreadAhead, ReadBehind, NothingMissed, NothingTwice

LEMMA IInvStep == IInv /\ [Next]_vars => IInv'
<1> SUFFICES ASSUME IInv, [Next]_vars PROVE IInv'
  OBVIOUS
<1>t. TypeInv /\ TypeInv'
  BY TypeStep DEF IInv
<1>1. CASE ServePage
  <2>1. PICK rows \in Slices : Receive(rows, <<>>)
    BY <1>1 DEF ServePage
  <2>2. Asking /\ rows \in Seq(FeedIds)
    BY <1>1, <1>t, PageFacts DEF ServePage
  <2>3. ReadBehind' /\ NothingTwice'
    BY <2>1, <2>2, ServeAgain
  <2> QED
    BY <1>1, <1>t, <2>3, ServeUnread DEF IInv
<1>2. CASE ServeCutPage
  <2>0. PICK rows \in Slices :
           \E m \in 0..Len(rows) - 1, blank \in {<<>>, <<Blank>>} :
               Receive(SubSeq(rows, 1, m), blank)
    BY <1>2 DEF ServeCutPage
  <2>1. PICK m \in 0..Len(rows) - 1, blank \in {<<>>, <<Blank>>} :
           Receive(SubSeq(rows, 1, m), blank)
    BY <2>0
  <2>2. Asking /\ rows \in Seq(FeedIds)
    BY <1>2, <1>t, PageFacts DEF ServeCutPage
  <2>3. /\ SubSeq(rows, 1, m) \in Seq(FeedIds)
        /\ ToSet(SubSeq(rows, 1, m)) \subseteq ToSet(rows)
    BY <2>2, PrefixFacts
  <2>4. ReadBehind' /\ NothingTwice'
    BY <2>1, <2>2, <2>3, ServeAgain
  <2>5. UnreadAhead' /\ NothingMissed'
    BY <1>2 DEF ServeCutPage, UnreadAhead, NothingMissed
  <2> QED
    BY <1>t, <2>4, <2>5 DEF IInv
<1>3. CASE Refuse \/ FailPage
  <2>1. /\ pc' # "reading" /\ pc' # "read"
        /\ UNCHANGED <<asked, twice, tied, came>>
    BY <1>3 DEF Refuse, FailPage
  <2> QED
    BY <1>t, <2>1
    DEF IInv, UnreadAhead, ReadBehind, NothingMissed, NothingTwice, FromTheStart, Before
<1>4. CASE CreatePost \/ EditPost \/ DeletePost \/ FollowOrUnfollow
  BY <1>4, <1>t, ChangeUnread, ChangeAgain DEF IInv
<1>5. CASE UNCHANGED vars
  <2>1. UNCHANGED <<posts, follows, pc, asked, page, cut, got, twice, tied, gone, came>>
    BY <1>5 DEF vars, tables, client
  <2> QED
    BY <1>t, <2>1, SameFeed
    DEF IInv, UnreadAhead, ReadBehind, NothingMissed, NothingTwice, Excused, Again,
        FromTheStart, Before, Created, Done
<1> QED
  BY <1>1, <1>2, <1>3, <1>4, <1>5 DEF Next, Quiet

LEMMA IInvCorrect == Spec => []IInv
  BY IInvInit, IInvStep, PTL DEF Spec

\* A client who has read every page of a feed that lost no earlier row meanwhile
\* has every post that was there all along and shares its second with no other.
THEOREM Complete == Spec => []NothingMissed
<1>1. IInv => NothingMissed
  BY DEF IInv
<1> QED
  BY <1>1, IInvCorrect, PTL

\* A client receives no post on two pages unless an earlier row came in between
\* them, or its second is shared with another one.
THEOREM NoRepeats == Spec => []NothingTwice
<1>1. IInv => NothingTwice
  BY DEF IInv
<1> QED
  BY <1>1, IInvCorrect, PTL

\* Rows come and go only by a change.
LEMMA SteadyStep ==
    ASSUME TypeInv, changes = 0 => came = {} /\ gone = {}, [Next]_vars
    PROVE  (changes = 0 => came = {} /\ gone = {})'
<1>1. CASE CreatePost \/ EditPost \/ DeletePost \/ FollowOrUnfollow
  <2>1. changes' = changes + 1 /\ changes \in Nat
    BY <1>1, BoundsAssumption
    DEF CreatePost, EditPost, DeletePost, FollowOrUnfollow, Change, TypeInv, TypeOK
  <2> QED
    BY <2>1
<1>2. CASE ~(CreatePost \/ EditPost \/ DeletePost \/ FollowOrUnfollow)
  BY <1>2 DEF Next, Quiet, Refuse, FailPage, ServePage, ServeCutPage, Receive, tables, vars
<1> QED
  BY <1>1, <1>2

\* If nobody changes the tables meanwhile, who reads all pages without a broken
\* result gets every post, and none on two pages, but for posts that share a
\* second: those the database may put in another order for each page.
THEOREM SteadyReading ==
    Spec => [](changes = 0 /\ FromTheStart =>
                  /\ \A t \in twice : t \in tied
                  /\ pc = "read" /\ ~cut => \A p \in FeedIds \ got : posts[p].created \in tied)
<1> DEFINE Steady == changes = 0 => came = {} /\ gone = {}
<1>1. Init => Steady
  BY DEF Init
<1>2. TypeInv /\ Steady /\ [Next]_vars => Steady'
  BY SteadyStep
<1>3. IInv /\ Steady =>
         (changes = 0 /\ FromTheStart =>
             /\ \A t \in twice : t \in tied
             /\ pc = "read" /\ ~cut => \A p \in FeedIds \ got : posts[p].created \in tied)
  BY DEF IInv, NothingMissed, NothingTwice
<1> QED
  BY <1>1, <1>2, <1>3, TypeInit, TypeStep, IInvCorrect, PTL DEF Spec

-----------------------------------------------------------------------------
(* What single steps do. *)

\* A page without rows is behind the last one, if its offset overflows or not.
LEMMA EmptyPage ==
    ASSUME TypeInv, Asking, NEW rows \in Slices, rows = <<>>
    PROVE  Cardinality(FeedIds) <= Done
<1> DEFINE n == Cardinality(FeedIds)
           size == PageSize(asked)
<1>1. /\ PostsOK /\ n \in 0..MaxPosts /\ size \in Nat \ {0} /\ page \in Int
      /\ Done \in Nat /\ MaxPosts \in 0..MaxInt /\ MaxInt \in Nat
  BY TypePosts, FeedFinite, AskingFacts, BoundsAssumption, WidthAssumption
<1>2. CASE Done \in 0..MaxInt
  <2>1. Skipped \in Nat /\ Skipped = Done
    BY <1>1, <1>2, PageFacts, SkippedFacts
  <2>2. PICK s \in Orders : rows = Slice(s)
    BY PageFacts
  <2>3. Len(rows) = IF n <= Done THEN 0 ELSE IF n - Done <= size THEN n - Done ELSE size
    BY <1>1, <2>1, <2>2, SliceFacts
  <2>4. Len(rows) = 0
    OBVIOUS
  <2> HIDE DEF n, size
  <2> QED
    BY <1>1, <2>3, <2>4 DEF n
<1>3. CASE Done \notin 0..MaxInt
  <2> HIDE DEF n
  <2> QED
    BY <1>1, <1>3 DEF n
<1> QED
  BY <1>2, <1>3

LEMMA EndStep ==
    ASSUME TypeInv,
           ServePage \/ (ServeCutPage /\ ~(ToSet(answer'.posts) \subseteq {Blank}))
    PROVE  pc' = "reading" <=> MoreBehind
<1> DEFINE n == Cardinality(FeedIds)
           size == PageSize(asked)
<1>1. /\ Asking /\ n \in Nat /\ size \in Nat /\ Done \in Nat
      /\ page * size = Done + size
  BY TypePosts, AskingFacts DEF ServePage, ServeCutPage
<1>2. MoreBehind <=> n > Done + size
  BY <1>1 DEF MoreBehind
<1>3. ASSUME NEW rows \in Seq(FeedIds), NEW blank, Receive(rows, blank), n <= Done + size
      PROVE  pc' # "reading"
  <2>1. pc' = "reading" => Done + size < n
    BY <1>1, <1>3, ReceiveFacts
  <2> HIDE DEF n, size
  <2> QED
    BY <1>1, <1>3, <2>1
<1>4. ASSUME NEW rows \in Seq(FeedIds), NEW blank, Receive(rows, blank), rows # <<>>,
             n > Done + size
      PROVE  pc' = "reading"
  <2>1. pc' # "reading" => n <= Done + size
    BY <1>1, <1>4, ReceiveFacts
  <2> HIDE DEF n, size
  <2> QED
    BY <1>1, <1>4, <2>1
<1>5. CASE ServePage
  <2>1. PICK rows \in Slices : Receive(rows, <<>>)
    BY <1>5 DEF ServePage
  <2>2. rows \in Seq(FeedIds)
    BY <1>1, <2>1, PageFacts
  <2>3. rows = <<>> => n <= Done
    BY <1>1, <2>1, EmptyPage
  <2>4. n > Done + size => rows # <<>>
    <3> HIDE DEF n, size
    <3> QED
      BY <1>1, <2>3 DEF n, size
  <2>5. n > Done + size \/ n <= Done + size
    <3> HIDE DEF n, size
    <3> QED
      BY <1>1 DEF n, size
  <2> HIDE DEF n, size
  <2> QED
    BY <1>2, <1>3, <1>4, <2>1, <2>2, <2>4, <2>5
<1>6. CASE ServeCutPage /\ ~(ToSet(answer'.posts) \subseteq {Blank})
  <2>0. PICK rows \in Slices :
           \E m \in 0..Len(rows) - 1, blank \in {<<>>, <<Blank>>} :
               Receive(SubSeq(rows, 1, m), blank)
    BY <1>6 DEF ServeCutPage
  <2>1. PICK m \in 0..Len(rows) - 1, blank \in {<<>>, <<Blank>>} :
           Receive(SubSeq(rows, 1, m), blank)
    BY <2>0
  <2> DEFINE part == SubSeq(rows, 1, m)
  <2>2. part \in Seq(FeedIds)
    BY <1>1, PageFacts, PrefixFacts
  <2>3. answer'.posts = part \o blank
    BY <2>1 DEF Receive
  <2>4. ToSet(blank) \subseteq {Blank}
    BY BlankFacts, ElementsFacts
  <2>5. part = <<>> => part \o blank = blank
    BY BlankFacts, ConcatEmptySeq
  <2>6. part # <<>>
    BY <1>6, <2>3, <2>4, <2>5
  <2>7. n > Done + size \/ n <= Done + size
    <3> HIDE DEF n, size
    <3> QED
      BY <1>1 DEF n, size
  <2> HIDE DEF n, size, part
  <2> QED
    BY <1>2, <1>3, <1>4, <2>1, <2>2, <2>6, <2>7 DEF part
<1> QED
  BY <1>5, <1>6

\* However many rows a page has, fewer because its result broke off or others
\* because its offset overflowed, its metadata sends the client on exactly while
\* the feed has rows behind it; a broken result without any row is excepted.
THEOREM ReadingEnds == Spec => ReadingEndsWithFeed
<1>1. ASSUME TypeInv, [Next]_vars, ~UNCHANGED vars,
             UNCHANGED tables, pc' \in {"reading", "read"},
             cut' => ~(ToSet(answer'.posts) \subseteq {Blank})
      PROVE  pc' = "reading" <=> MoreBehind
  <2>1. changes' = changes /\ changes \in Nat
    BY <1>1, BoundsAssumption DEF tables, TypeInv, TypeOK
  <2>2. ~(CreatePost \/ EditPost \/ DeletePost \/ FollowOrUnfollow)
    BY <2>1 DEF CreatePost, EditPost, DeletePost, FollowOrUnfollow, Change
  <2>3. ServePage \/ ServeCutPage
    BY <1>1, <2>2 DEF Next, Quiet, Refuse, FailPage
  <2>4. ServeCutPage => cut'
    BY DEF ServeCutPage
  <2> QED
    BY <1>1, <2>3, <2>4, EndStep
<1>2. TypeInv /\ [Next]_vars =>
        [/\ UNCHANGED tables /\ pc' \in {"reading", "read"}
         /\ cut' => ~(ToSet(answer'.posts) \subseteq {Blank})
         => (pc' = "reading" <=> MoreBehind)]_vars
  BY <1>1
<1> QED
  BY <1>2, TypeInit, TypeStep, PTL DEF Spec, ReadingEndsWithFeed

LEMMA TileStep ==
    ASSUME TypeInv, ServePage, ~OffsetOverflows(page, PageSize(asked))
    PROVE  LET rest == Cardinality(FeedIds) - (page - 1) * PageSize(asked)
               m == answer'.metadata
           IN  /\ Len(answer'.posts) = Max({0, Min({rest, PageSize(asked)})})
               /\ IF rest <= 0 THEN m = NoMetadata
                  ELSE /\ page \in m.first_page..m.last_page
                       /\ page = m.last_page <=> rest <= PageSize(asked)
<1> DEFINE n == Cardinality(FeedIds)
           size == PageSize(asked)
           rest == n - Done
           m == answer'.metadata
<1>1. PICK rows \in Slices : Receive(rows, <<>>)
  BY DEF ServePage
<1>2. PICK s \in Orders : rows = Slice(s)
  BY <1>1, PageFacts DEF ServePage
<1>3. /\ PostsOK /\ n \in Nat /\ size \in Nat \ {0} /\ page \in Nat \ {0}
      /\ Done \in Nat /\ page * size = Done + size
      /\ Skipped \in Nat /\ Skipped = Done /\ Done \in 0..MaxInt
  <2>1. PostsOK /\ n \in Nat /\ size \in Nat \ {0} /\ page \in Nat \ {0}
        /\ Done \in Nat /\ page * size = Done + size
    BY TypePosts, AskingFacts DEF ServePage
  <2>2. Done <= MaxInt
    BY <2>1, WidthAssumption DEF OffsetOverflows, Done
  <2> QED
    BY <1>1, <2>1, <2>2, SkippedFacts, WidthAssumption
<1>4. /\ rows \in Seq(FeedIds)
      /\ Len(rows) = IF n <= Done THEN 0 ELSE IF n - Done <= size THEN n - Done ELSE size
  BY <1>2, <1>3, SliceFacts
<1>5. /\ Len(answer'.posts) = Len(rows)
      /\ m = calculateMetadata(TotalRead(rows), page, size)
  BY <1>1, <1>4, ConcatEmptySeq DEF Receive
<1>6. Len(answer'.posts) = Max({0, Min({rest, size})})
  <2>1. Len(rows) = IF rest <= 0 THEN 0 ELSE IF rest <= size THEN rest ELSE size
    <3> HIDE DEF n, size
    <3> QED
      BY <1>3, <1>4
  <2>2. rest \in Int /\ size \in Int
    BY <1>3
  <2> HIDE DEF n, size, rest
  <2>3. Min({rest, size}) = IF rest <= size THEN rest ELSE size
    BY <2>2, MinMaxOfTwo
  <2>4. Max({0, Min({rest, size})}) =
            IF 0 <= Min({rest, size}) THEN Min({rest, size}) ELSE 0
    <3>1. Min({rest, size}) \in Int
      BY <2>2, <2>3
    <3>2. ASSUME NEW k \in Int PROVE Max({0, k}) = IF 0 <= k THEN k ELSE 0
      BY MinMaxOfTwo
    <3> QED
      BY <3>1, <3>2
  <2> QED
    BY <1>3, <1>5, <2>1, <2>2, <2>3, <2>4 DEF size
<1>7. CASE rest <= 0
  <2>1. n <= Done
    <3> HIDE DEF n
    <3> QED
      BY <1>3, <1>7
  <2>2. rows = <<>>
    BY <1>4, <2>1, EmptySeq
  <2>3. m = NoMetadata
    BY <1>5, <2>2 DEF TotalRead, calculateMetadata
  <2> QED
    BY <1>6, <1>7, <2>3 DEF Done
<1>8. CASE ~(rest <= 0)
  <2>1. ~(n <= Done) /\ n # 0 /\ Len(rows) # 0
    <3> HIDE DEF n, size
    <3> QED
      BY <1>3, <1>4, <1>8 DEF n, size
  <2>2. m.first_page = 1 /\ m.last_page = CeilDiv(n, size)
    BY <1>5, <2>1 DEF TotalRead, calculateMetadata, MetadataOf
  <2>3. /\ CeilDiv(n, size) \in Nat
        /\ page < CeilDiv(n, size) <=> page * size < n
        /\ page - 1 < CeilDiv(n, size) <=> Done < n
    <3>1. CeilDiv(n, size) \in Nat
      BY <1>3, CeilFacts
    <3>2. page < CeilDiv(n, size) <=> page * size < n
      BY <1>3, LastPageFacts
    <3>3. page - 1 \in Int
      BY <1>3
    <3>4. page - 1 < CeilDiv(n, size) <=> (page - 1) * size < n
      BY <1>3, <3>3, LastPageFacts
    <3> QED
      BY <3>1, <3>2, <3>4 DEF Done
  <2>4. /\ page \in m.first_page..m.last_page
        /\ page = m.last_page <=> rest <= size
    <3> HIDE DEF n, size
    <3>1. CeilDiv(n, size) \in Nat /\ n \in Nat /\ size \in Nat /\ page \in Nat \ {0}
      BY <1>3, <2>3 DEF n, size
    <3> QED
      BY <1>3, <2>1, <2>2, <2>3, <3>1
  <2> QED
    BY <1>6, <1>8, <2>4 DEF Done
<1> QED
  BY <1>7, <1>8

\* A complete page has exactly the rows that the pages before it leave, and its
\* metadata says whether it is the last one, whatever the sizes, as long as the
\* offset does not overflow.
THEOREM PagesFit == Spec => PagesTile
<1>1. TypeInv /\ [Next]_vars =>
        [ServePage /\ ~OffsetOverflows(page, PageSize(asked)) =>
         LET rest == Cardinality(FeedIds) - (page - 1) * PageSize(asked)
             m == answer'.metadata
         IN  /\ Len(answer'.posts) = Max({0, Min({rest, PageSize(asked)})})
             /\ IF rest <= 0 THEN m = NoMetadata
                ELSE /\ page \in m.first_page..m.last_page
                     /\ page = m.last_page <=> rest <= PageSize(asked)]_vars
  BY TileStep
<1> QED
  BY <1>1, TypeInit, TypeStep, PTL DEF Spec, PagesTile
=============================================================================
